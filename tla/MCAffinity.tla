------------------------------ MODULE MCAffinity ------------------------------
(* Instances of Affinity for TLC. *)
EXTENDS Affinity

MCCores == 0..3

Cpu(package, core, capacity, freq) ==
    [package |-> package, core |-> core, capacity |-> capacity, freq |-> freq]

\* One core with two threads and two without, or two packages whose core ids
\* are the same, with every combination of these capacities.
MCHyperthreads ==
    {[c \in MCCores |-> Cpu(0, IF c = 0 THEN 0 ELSE c - 1, capacity[c], Unread)] :
        capacity \in [MCCores -> {Unread, 0, 9, 20}]}
MCPackages ==
    {[c \in MCCores |-> Cpu(c \div 2, c % 2, capacity[c], Unread)] :
        capacity \in [MCCores -> {Unread, 10, 20}]}

\* Ids that cannot be read of one thread in each of two cores
MCHalfRead ==
    {[c \in MCCores |-> Cpu(IF c = 3 THEN Unread ELSE 0,
                            IF c = 1 THEN Unread ELSE 1 + c \div 2,
                            capacity[c], Unread)] :
        capacity \in [MCCores -> {Unread, 10, 20}]}

\* Nothing known, frequencies only, and no description at all
MCFlat == [c \in MCCores |-> Cpu(Unread, Unread, Unread, Unread)]
MCFrequencies == [c \in MCCores |-> Cpu(0, c, Unread, IF c > 1 THEN 30 ELSE 20)]
MCUnknown == [c \in {} |-> Cpu(Unread, Unread, Unread, Unread)]

\* Every topology on a machine where nothing fails
MCTopologies ==
    [disabled : {FALSE}, requested : {NoCore}, captures : {TRUE},
     mask : {MCCores}, pmu : {{1, 3}},
     topology : MCHyperthreads \cup MCPackages \cup MCHalfRead, refuses : {{}}]

\* Every environment and every refusal on a few topologies
MCEnvironments ==
    [disabled : BOOLEAN, requested : {NoCore, 0}, captures : BOOLEAN,
     mask : {MCCores, {1, 3}, {2}}, pmu : {{}, {2}, {0, 3}, MCCores},
     topology : {MCFlat, MCFrequencies, MCUnknown},
     refuses : SUBSET {"pin", "restore"}]

MCMachines == MCTopologies \cup MCEnvironments

MCCases == <<"standard", "concurrent", "standard">>
===============================================================================
