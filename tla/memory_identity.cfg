SPECIFICATION Spec
CONSTANTS
    Configurations <- MCAutoOnly
    Tasks = {}
    Controllers = {"imc0", "imc1"}
    MaxWarmUps = 1
INVARIANTS CompleteCoversEverySample
