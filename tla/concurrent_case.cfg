SPECIFICATION FairCaseSpec
CONSTANTS
    NumThreads = 2
    Roles = {"reader", "writer"}
    RoleOf <- MCTwoThreads
    HasBackend = TRUE
    Faults = {"run"}
    SampleDuration = 1
    MaxElapsed = 2
    MaxOps = 1
    TargetSamples = 2
    MaxWarmUps = 1
    BackendDurations = {0, 1}
    BackendOps = {0, 3}
INVARIANTS CaseTypeOK LifecycleEnclosesSample RecordsAreConsistent
PROPERTIES BackendWindowsDoNotOverlap CaseEnds
