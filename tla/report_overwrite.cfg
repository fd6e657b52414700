SPECIFICATION Spec
CONSTANTS
    Processes <- MCFour
    SuiteOf <- MCSuites
    Setups <- MCDefaultOnly
INVARIANT SavedRunsAreKept
