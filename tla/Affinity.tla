-------------------------------- MODULE Affinity --------------------------------
(***************************************************************************)
(* The CPU affinity of the threads of a benchmark process                  *)
(* (bench/affinity.rs, threading.rs), over a sequence of cases.            *)
(*                                                                         *)
(* A standard case holds a BenchAffinityGuard: it saves the mask of the    *)
(* calling thread, probes candidate cores for a usable PMU, pins the       *)
(* thread, and restores the mask when the case is left.  A concurrent case *)
(* probes in the same way and gives every worker a core of its own, on     *)
(* which the worker pins itself.  Probing a core moves the calling thread  *)
(* there.  The kernel may refuse to report, set or restore a mask.         *)
(***************************************************************************)
EXTENDS Integers, FiniteSets, Sequences, FiniteSetsExt, SequencesExt

CONSTANTS
    Cores,      \* the logical processors online, numbered from 0
    Machines,   \* the environments a process may be started in
    Cases,      \* the kind of each case: "standard" or "concurrent"
    Workers     \* total_threads of a concurrent case

Unread == -1    \* a file of sysfs that cannot be read or parsed
NoCore == -1    \* BENCH_UTILS_PIN_CORE is not set, or is not a number
NoMask == {}    \* the kernel did not report the mask

Reading == Nat \cup {Unread}
Processor == [package : Reading, core : Reading, capacity : Reading, freq : Reading]

\* disabled: MICROMEASURE_PIN; pmu: the cores that count instructions;
\* captures: does the mask fit a cpu_set_t?  refuses: what else may fail;
\* topology: what sysfs says of the processors it lists
IsMachine(m) ==
    /\ m.disabled \in BOOLEAN /\ m.captures \in BOOLEAN
    /\ m.requested \in Cores \cup {NoCore}
    /\ m.mask \in (SUBSET Cores) \ {{}}
    /\ m.pmu \subseteq Cores
    /\ DOMAIN m.topology \subseteq Cores
    /\ \A cpu \in DOMAIN m.topology : m.topology[cpu] \in Processor
    /\ m.refuses \subseteq {"pin", "restore"}

ASSUME AffinityAssumption ==
    /\ IsFiniteSet(Cores) /\ Cores # {} /\ Cores = 0..(Cardinality(Cores) - 1)
    /\ \A m \in Machines : IsMachine(m)
    /\ Cases \in Seq({"standard", "concurrent"})
    /\ Workers \in Nat \ {0}

VARIABLES
    machine,
    pc,         \* where the process is
    done,       \* cases that are over
    mask,       \* the affinity of the process's main thread
    guard,      \* BenchAffinityGuard
    candidates, \* candidate cores of this selection, in order
    seen,       \* how many of them the current loop has been through
    usable,     \* those found to have a usable PMU, in order
    pinCores,   \* the core, or the cores of the workers, to pin to
    workers,    \* the affinity of each live worker thread
    pinned,     \* the workers that pinned themselves
    refused     \* history: did the kernel refuse to restore a mask?

selectionVars == <<candidates, seen, usable, pinCores>>
workerVars == <<workers, pinned>>
vars == <<machine, pc, done, mask, guard, selectionVars, workerVars, refused>>

NoGuard == [restore |-> NoMask, didPin |-> FALSE]

Init ==
    /\ machine \in Machines
    /\ pc = "idle" /\ done = 0
    /\ mask = machine.mask
    /\ guard = NoGuard
    /\ candidates = <<>> /\ seen = 0 /\ usable = <<>> /\ pinCores = <<>>
    /\ workers = <<>> /\ pinned = {}
    /\ refused = FALSE

-------------------------------------------------------------------------------
(* threading.rs: detect_performance_cores *)

Ascending(cores) ==
    CHOOSE order \in [1..Cardinality(cores) -> cores] :
        \A i, j \in DOMAIN order : i < j => order[i] < order[j]

\* Faulty variant: core ids of different packages are taken for the same core.
PhysicalKey_CoreOnly(topology, cpu) ==
    << 0, IF topology[cpu].core = Unread THEN cpu ELSE topology[cpu].core >>

\* The physical core of a logical processor: read_physical_core_metrics
PhysicalKey(topology, cpu) ==
    << IF topology[cpu].package = Unread THEN 0 ELSE topology[cpu].package,
       IF topology[cpu].core = Unread THEN cpu ELSE topology[cpu].core >>

Siblings(topology, cpu) ==
    {other \in DOMAIN topology :
        PhysicalKey(topology, other) = PhysicalKey(topology, cpu)}

PhysicalCores(topology) == {Siblings(topology, cpu) : cpu \in DOMAIN topology}

\* A core's metric is the best that one of its logical processors reports.
Metric(topology, core, field) == Max({topology[cpu][field] : cpu \in core})

\* select_performance_cores_by_metric; the empty set is no selection
Selected(topology, field) ==
    LET cores     == PhysicalCores(topology)
        Value(c)  == Metric(topology, c, field)
        metered   == {c \in cores : Value(c) # Unread}
        values    == {Value(c) : c \in metered}
        threshold == (9 * Max(values) + 5) \div 10
        fast      == {c \in metered : Value(c) >= threshold}
    IN IF \/ Cardinality(values) < 2
          \/ 10 * (Max(values) - Min(values)) < Max(values)
          \/ fast = cores
       THEN {} ELSE UNION fast

\* detect_performance_cores: by capacity, or else by the maximal frequency
PerformanceCores(topology) ==
    LET byCapacity == Selected(topology, "capacity")
    IN IF byCapacity # {} THEN byCapacity ELSE Selected(topology, "freq")

-------------------------------------------------------------------------------
(* affinity.rs: choosing cores *)

\* capture_current_thread_affinity
Captured == IF machine.captures THEN mask ELSE NoMask

\* core_ids_from_mask, or fallback_allowed_core_ids
AllowedCores == IF Captured = NoMask THEN Cores ELSE Captured

\* Faulty variant: the allowed cores are probed in the order of the mask.
CandidatePinCores_InOrder(allowed) == Ascending(allowed)

\* candidate_pin_cores: performance cores come first
CandidatePinCores(allowed) ==
    LET fast == PerformanceCores(machine.topology)
    IN Ascending(fast \cap allowed) \o Ascending(allowed \ fast)

\* RestoreAffinityOnDrop and BenchAffinityGuard put a saved mask back, unless
\* the kernel refuses.
RestoreMask(saved, current) ==
    \/ /\ mask' = saved
       /\ UNCHANGED refused
    \/ /\ "restore" \in machine.refuses
       /\ mask' = current
       /\ refused' = TRUE

\* Faulty variant: a probe leaves the thread on the core it looked at.
ProbeEnds_Stays(core) ==
    mask' = {core} /\ UNCHANGED refused

\* The end of core_has_usable_pmu for a core the thread was moved to
ProbeEnds(core) ==
    IF Captured # NoMask THEN RestoreMask(Captured, {core})
                         ELSE mask' = {core} /\ UNCHANGED refused

StartSelection(allowed) ==
    /\ candidates' = CandidatePinCores(allowed)
    /\ seen' = 0 /\ usable' = <<>> /\ pinCores' = <<>>

\* How many usable cores a selection looks for
Wanted == IF Cases[done + 1] = "standard" THEN 1 ELSE Workers

\* core_has_usable_pmu for the next candidate
Probe ==
    /\ pc = "probe"
    /\ Len(usable) < Wanted /\ seen < Len(candidates)
    /\ seen' = seen + 1
    /\ LET core == candidates[seen + 1] IN
       \/ /\ ProbeEnds(core)
          /\ usable' = IF core \in machine.pmu THEN Append(usable, core) ELSE usable
       \/ /\ "pin" \in machine.refuses
          /\ UNCHANGED <<mask, usable, refused>>
    /\ UNCHANGED <<machine, pc, done, guard, candidates, pinCores, workerVars>>

EndProbing ==
    /\ pc = "probe"
    /\ Len(usable) = Wanted \/ seen = Len(candidates)
    /\ pc' = "fill" /\ pinCores' = usable /\ seen' = 0
    /\ UNCHANGED <<machine, done, mask, guard, candidates, usable, workerVars,
                   refused>>

\* Faulty variant: unusable cores are appended without looking for duplicates.
FillUp_Repeats ==
    /\ pc = "fill"
    /\ Len(pinCores) < Wanted /\ seen < Len(candidates)
    /\ seen' = seen + 1
    /\ pinCores' = Append(pinCores, candidates[seen + 1])
    /\ UNCHANGED <<machine, pc, done, mask, guard, candidates, usable, workerVars,
                   refused>>

\* Faulty variant: every candidate is returned, however many were asked for.
FillUp_All ==
    /\ pc = "fill"
    /\ seen < Len(candidates)
    /\ seen' = seen + 1
    /\ pinCores' = IF candidates[seen + 1] \in ToSet(pinCores) THEN pinCores
                   ELSE Append(pinCores, candidates[seen + 1])
    /\ UNCHANGED <<machine, pc, done, mask, guard, candidates, usable, workerVars,
                   refused>>

\* choose_default_pin_core and choose_concurrent_pin_cores: the usable cores
\* first, then the other candidates in order, until there are enough.
FillUp ==
    /\ pc = "fill"
    /\ Len(pinCores) < Wanted /\ seen < Len(candidates)
    /\ seen' = seen + 1
    /\ pinCores' = IF candidates[seen + 1] \in ToSet(pinCores) THEN pinCores
                   ELSE Append(pinCores, candidates[seen + 1])
    /\ UNCHANGED <<machine, pc, done, mask, guard, candidates, usable, workerVars,
                   refused>>

EndSelection ==
    /\ pc = "fill"
    /\ Len(pinCores) = Wanted \/ seen = Len(candidates)
    /\ pc' = IF Cases[done + 1] = "standard" THEN "pin" ELSE "spawn"
    /\ UNCHANGED <<machine, done, mask, guard, selectionVars, workerVars, refused>>

-------------------------------------------------------------------------------
(* A standard case: BenchAffinityGuard *)

StartsCase(kind) == pc = "idle" /\ done < Len(Cases) /\ Cases[done + 1] = kind

\* acquire(), up to the choice of a core.  A requested core is taken as it is,
\* if the thread may run there.
Acquire ==
    /\ StartsCase("standard")
    /\ guard' = [restore |-> IF machine.disabled THEN NoMask ELSE Captured,
                 didPin |-> FALSE]
    /\ IF machine.disabled
       THEN pc' = "running" /\ UNCHANGED selectionVars
       ELSE IF machine.requested \in AllowedCores
       THEN /\ pc' = "pin" /\ pinCores' = <<machine.requested>>
            /\ candidates' = <<>> /\ usable' = <<>> /\ seen' = 0
       ELSE /\ pc' = "probe"
            /\ StartSelection(AllowedCores)
    /\ UNCHANGED <<machine, done, mask, workerVars, refused>>

\* pin_current_thread: the guard keeps the mask only if it pinned the thread.
Pin ==
    /\ pc = "pin"
    /\ pc' = "running"
    /\ \/ /\ mask' = {pinCores[1]}
          /\ guard' = [guard EXCEPT !.didPin = TRUE]
       \/ /\ "pin" \in machine.refuses
          /\ guard' = NoGuard
          /\ UNCHANGED mask
    /\ UNCHANGED <<machine, done, selectionVars, workerVars, refused>>

\* Drop: the case returns, or its function panics.
Release ==
    /\ pc = "running"
    /\ pc' = "idle" /\ done' = done + 1
    /\ guard' = NoGuard
    /\ IF guard.didPin /\ guard.restore # NoMask
       THEN RestoreMask(guard.restore, mask)
       ELSE UNCHANGED <<mask, refused>>
    /\ UNCHANGED <<machine, selectionVars, workerVars>>

-------------------------------------------------------------------------------
(* A concurrent case: concurrent_worker_pin_cores, and a measured sample *)

StartConcurrent ==
    /\ StartsCase("concurrent")
    /\ IF machine.disabled
       THEN /\ pc' = "spawn"
            /\ candidates' = <<>> /\ seen' = 0 /\ usable' = <<>> /\ pinCores' = <<>>
       ELSE /\ pc' = "probe"
            /\ StartSelection(AllowedCores)
    /\ UNCHANGED <<machine, done, mask, guard, workerVars, refused>>

\* scope.spawn: a thread inherits the mask of the thread that spawns it.
SpawnWorkers ==
    /\ pc = "spawn"
    /\ pc' = "sample"
    /\ workers' = [w \in 1..Workers |-> mask] /\ pinned' = {}
    /\ UNCHANGED <<machine, done, mask, guard, selectionVars, refused>>

\* A worker's first step; workers beyond the available cores are not pinned.
WorkerPins(w) ==
    /\ pc = "sample"
    /\ w \in DOMAIN workers \ pinned /\ w <= Len(pinCores)
    /\ workers' = [workers EXCEPT ![w] = {pinCores[w]}]
    /\ pinned' = pinned \cup {w}
    /\ UNCHANGED <<machine, pc, done, mask, guard, selectionVars, refused>>

\* Every worker is joined, whether or not it could pin itself.
JoinWorkers ==
    /\ pc = "sample"
    /\ "pin" \in machine.refuses \/ pinned = {w \in 1..Workers : w <= Len(pinCores)}
    /\ pc' = "idle" /\ done' = done + 1
    /\ workers' = <<>> /\ pinned' = {}
    /\ UNCHANGED <<machine, mask, guard, selectionVars, refused>>

Terminating == pc = "idle" /\ done = Len(Cases) /\ UNCHANGED vars

Next ==
    \/ Acquire \/ Probe \/ EndProbing \/ FillUp \/ EndSelection
    \/ Pin \/ Release
    \/ StartConcurrent \/ SpawnWorkers \/ JoinWorkers
    \/ \E w \in 1..Workers : WorkerPins(w)
    \/ Terminating

Spec == Init /\ [][Next]_vars

-------------------------------------------------------------------------------
(* What pinning must guarantee. *)

TypeOK ==
    /\ machine \in Machines
    /\ pc \in {"idle", "probe", "fill", "pin", "running", "spawn", "sample"}
    /\ done \in 0..Len(Cases)
    /\ mask \in (SUBSET Cores) \ {{}}
    /\ guard \in [restore : SUBSET Cores, didPin : BOOLEAN]
    /\ seen \in 0..Len(candidates)
    /\ ToSet(usable) \subseteq ToSet(candidates) /\ ToSet(candidates) \subseteq Cores
    /\ ToSet(pinCores) \subseteq Cores /\ Len(pinCores) <= Workers
    /\ \A w \in DOMAIN workers : workers[w] \in (SUBSET Cores) \ {{}}
    /\ pinned \subseteq DOMAIN workers

\* "Probing it moves the current thread there [...]; it is moved back whatever
\* the outcome, so that threads it spawns later aren't confined to the last
\* core probed."  On a machine that reports masks, and until it refuses to
\* restore one: between cases the main thread has the mask the process was
\* started with, and a worker runs there, or on the core it chose.
MaskIsReturned ==
    machine.captures /\ ~refused =>
        /\ pc \in {"idle", "probe", "fill", "pin", "spawn", "sample"} => mask = machine.mask
        /\ \A w \in DOMAIN workers :
              w \in pinned \/ workers[w] = machine.mask

\* "The cores to pin a concurrent benchmark's workers to, one each": no two
\* workers of a sample pin themselves to the same core, and no worker to a
\* core that the process was not allowed to use.
WorkersKeepApart ==
    \A v, w \in pinned :
        /\ v # w => workers[v] \cap workers[w] = {}
        /\ machine.captures /\ ~refused => workers[v] \subseteq machine.mask

\* These processors are the best ones of the machine by one of the two metrics
\* (within a tenth, to the nearest integer), with all that are known to share a
\* core with them and none that is known to be on another, and they are not all
\* there are.
AreWholeFastCores(cpus) ==
    LET t == machine.topology
        Differ(x, y) == Unread \notin {x, y} /\ x # y
        Together(c, d) == /\ t[c].core = t[d].core /\ t[c].core # Unread
                          /\ t[c].package = t[d].package
        Apart(c, d) == \/ Differ(t[c].core, t[d].core)
                       \/ Differ(t[c].package, t[d].package)
        Best(c, field) == /\ t[c][field] # Unread
                          /\ \A d \in DOMAIN t :
                                10 * t[c][field] + 5 >= 9 * t[d][field]
    IN /\ cpus # DOMAIN t
       /\ \A c \in cpus, d \in DOMAIN t : Together(c, d) => d \in cpus
       /\ \E field \in {"capacity", "freq"} : \A c \in cpus :
             \E d \in cpus : ~Apart(c, d) /\ Best(d, field)

\* A usable PMU comes first, and a performance core second.
Outranks(core, other) ==
    LET fast == PerformanceCores(machine.topology)
    IN \/ core \in machine.pmu /\ other \notin machine.pmu
       \/ /\ core \in machine.pmu <=> other \in machine.pmu
          /\ core \in fast /\ other \notin fast

\* Counters are what pinning is for: where every probe can tell, no thread is
\* sent to a core while a better candidate is left, whether or not it was
\* probed; and performance cores are whole fast cores.
PinsPreferUsableCores ==
    LET fast == PerformanceCores(machine.topology)
    IN /\ fast # {} => AreWholeFastCores(fast)
       /\ pc \in {"pin", "spawn"} /\ candidates # <<>> /\ "pin" \notin machine.refuses =>
             \A core \in ToSet(candidates) \ ToSet(pinCores),
                other \in ToSet(pinCores) : ~Outranks(core, other)
===============================================================================
