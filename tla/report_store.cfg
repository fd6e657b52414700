SPECIFICATION Spec
CONSTANTS
    Processes <- MCFour
    SuiteOf <- MCSuites
    Setups <- MCSetups
INVARIANTS TypeOK BaselineIsSound EvidenceOutlivesComparison SaveIsAllOrNothing
PROPERTIES ImplementsShelf
