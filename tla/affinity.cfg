SPECIFICATION Spec
CONSTANTS
    Cores <- MCCores
    Machines <- MCMachines
    Cases <- MCCases
    Workers = 3
INVARIANTS TypeOK MaskIsReturned WorkersKeepApart PinsPreferUsableCores
