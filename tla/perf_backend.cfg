SPECIFICATION Spec
CONSTANTS
    Configurations <- MCConfigurations
    Tasks = {"main", "helper"}
    Controllers = {"imc0", "imc1"}
    MaxWarmUps = 1
INVARIANTS TypeOK GroupsLostOnce ScopesMatchEvidence NothingOutlivesWindow
PROPERTIES AutoProbeIsFinal
