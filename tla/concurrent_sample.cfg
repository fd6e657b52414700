SPECIFICATION FairSpec
CONSTANTS
    NumThreads = 3
    Roles = {"reader", "writer"}
    RoleOf <- MCThreeThreads
    HasBackend = TRUE
    Faults = {"spawn", "backend_begin", "run"}
    SampleDuration = 1
    MaxElapsed = 2
    MaxOps = 1
INVARIANTS TypeOK NoWorkOutsideWindow BackendBeginsAfterWorkersReady
    WindowClosesLast MergedExactlyOnce WallCoversDeadline SampleInv
PROPERTIES StrandedForever SampleCompletes ImplementsWindow
CHECK_DEADLOCK FALSE
