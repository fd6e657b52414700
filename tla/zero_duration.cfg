SPECIFICATION Spec
CONSTANTS
    Cases <- MCBench
    MinChunk = 1
    MaxChunk = 50
    TargetDuration = 10
    Passes = 2
    MinSamples = 1
    MaxSamples = 2
    BenchmarkDuration = 20
    HostDurations = {10, 30}
    BackendDurations = {0, 12}
    PrimaryDurations <- MCNoPrimary
    MaxWarmUps = 1
    Panics = FALSE
INVARIANT ZeroDurationFallsBack
