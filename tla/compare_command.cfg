CONSTANTS
    Targets <- MCTargets
    MaxAttempts = 2
    Setups <- MCSetups
SPECIFICATION Spec
INVARIANTS
    TypeOK
    ValidationIsEnough
    ComparisonIsReversible
    GateReflectsEvidence
    OutputsAreWhole
