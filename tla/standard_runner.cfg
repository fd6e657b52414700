SPECIFICATION Spec
CONSTANTS
    Cases <- MCList
    MinChunk = 1
    MaxChunk = 50
    TargetDuration = 10
    Passes = 4
    MinSamples = 2
    MaxSamples = 3
    BenchmarkDuration = 20
    HostDurations = {0, 3, 30}
    BackendDurations = {0, 12}
    PrimaryDurations <- MCPrimaries
    MaxWarmUps = 1
    Panics = TRUE
INVARIANTS TypeOK CalibrationWithinLimits SamplesAreIdentified
