---------------------------- MODULE MCPerfBackend ----------------------------
(* Instances of PerfBackend for TLC. *)
EXTENDS PerfBackend

\* Counters over a changing scope, RAPL and requested memory bandwidth.
MCRequested ==
    [fixedScope |-> FALSE, collectsCpu |-> TRUE, energy |-> "package_and_core",
     memoryMode |-> "requested", targetSamples |-> 2]

\* The automatic memory probe beside counters of a fixed scope.
MCAuto ==
    [fixedScope |-> TRUE, collectsCpu |-> TRUE, energy |-> "package",
     memoryMode |-> "auto", targetSamples |-> 2]

\* The automatic memory probe alone, over more windows.
MCAutoAlone ==
    [fixedScope |-> TRUE, collectsCpu |-> FALSE, energy |-> "none",
     memoryMode |-> "auto", targetSamples |-> 3]

MCConfigurations == {MCRequested, MCAuto, MCAutoAlone}
MCAutoOnly == {MCAutoAlone}
===============================================================================
