--------------------------- MODULE ConcurrentSample ---------------------------
(***************************************************************************)
(* One concurrent sample: execute_concurrent_sample_inner in bench.rs.     *)
(*                                                                         *)
(* The coordinator spawns one scoped thread per managed worker, meets them *)
(* at three barriers, opens the measurement window and joins them in       *)
(* spawn order.  A worker prepares its PMU counters before the first       *)
(* barrier, enables them before the second, and runs the benchmark         *)
(* function after the third, until the deadline computed from the one      *)
(* start instant that the coordinator published.                           *)
(*                                                                         *)
(* A panic is a step of its own, switched on by Faults.  thread::scope     *)
(* makes the coordinator wait for every spawned thread before a panic      *)
(* leaves the function.                                                    *)
(***************************************************************************)
EXTENDS Integers, FiniteSets, FiniteSetsExt

CONSTANTS
    NumThreads,     \* total_worker_threads(workers)
    Roles,          \* the entries of `workers`
    RoleOf,         \* the worker_index each thread was spawned for
    HasBackend,     \* is a whole-sample MeasurementBackend configured?
    Faults,         \* the panics that may happen
    SampleDuration, \* the deadline, in ticks after the start instant
    MaxElapsed,     \* bound: ticks after the start instant that are modelled
    MaxOps          \* bound: operations one worker performs in a sample

Threads == 1..NumThreads
Coordinator == 0
Party == Threads \cup {Coordinator}

ASSUME SampleAssumption ==
    /\ NumThreads \in Nat \ {0}
    /\ RoleOf \in [Threads -> Roles]
    /\ HasBackend \in BOOLEAN
    /\ Faults \subseteq {"spawn", "backend_begin", "run"}
    /\ SampleDuration \in Nat \ {0}
    /\ MaxElapsed \in Nat /\ MaxElapsed >= SampleDuration
    /\ MaxOps \in Nat

Barriers == {"ready", "measurement_ready", "start"}
Phases == {"warm_up", "measurement"}

VARIABLES
    phase,      \* ConcurrentSamplePhase of this sample
    pc,         \* where the coordinator and each worker stand
    arrived,    \* the parties that have called wait() on each barrier
    counters,   \* each worker's PMU counters
    backend,    \* the whole-sample backend
    startSet,   \* has start_instant been set?
    elapsed,    \* time since start_instant
    ops,        \* operations each worker has performed
    joined,     \* how many handles the coordinator has joined
    result      \* the aggregate and the per-role results

vars == <<phase, pc, arrived, counters, backend, startSet, elapsed, ops,
          joined, result>>

CoordinatorLocations ==
    {"spawn", "ready", "measurement_ready", "begin", "set_start", "start",
     "join", "end", "done", "unwind", "aborted"}
WorkerLocations ==
    {"unspawned", "prepare", "ready", "activate", "measurement_ready", "start",
     "read_start", "run", "collect", "finished", "panicked"}

SampleResult == [total : Nat, byRole : [Roles -> Nat], wall : 0..MaxElapsed]

TypeOK ==
    /\ phase \in Phases
    /\ pc \in [Party -> CoordinatorLocations \cup WorkerLocations]
    /\ pc[Coordinator] \in CoordinatorLocations
    /\ \A t \in Threads : pc[t] \in WorkerLocations
    /\ arrived \in [Barriers -> SUBSET Party]
    /\ counters \in [Threads -> {"none", "prepared", "active", "stopped"}]
    /\ backend \in {"idle", "begun", "ended"}
    /\ startSet \in BOOLEAN
    /\ elapsed \in 0..MaxElapsed
    /\ ops \in [Threads -> 0..MaxOps]
    /\ joined \in 0..NumThreads
    /\ result \in SampleResult

\* use_perf_counters and the backend argument: a warm-up sample runs through
\* execute_concurrent_timing_only, with neither.
UsePerf == phase = "measurement"
BackendPresent == UsePerf /\ HasBackend

Zero == [total |-> 0, byRole |-> [r \in Roles |-> 0], wall |-> 0]

SampleInit(ph) ==
    /\ phase = ph
    /\ pc = [p \in Party |-> IF p = Coordinator THEN "spawn" ELSE "unspawned"]
    /\ arrived = [b \in Barriers |-> {}]
    /\ counters = [t \in Threads |-> "none"]
    /\ backend = "idle"
    /\ startSet = FALSE
    /\ elapsed = 0
    /\ ops = [t \in Threads |-> 0]
    /\ joined = 0
    /\ result = Zero

Init == \E ph \in Phases : SampleInit(ph)

-------------------------------------------------------------------------------
(***************************************************************************)
(* std::sync::Barrier::new(total_threads + 1): wait() records the arrival, *)
(* and returns once the last party has arrived.                            *)
(***************************************************************************)
Goto(p, location) == pc' = [pc EXCEPT ![p] = location]

Arrive(p, b) ==
    /\ pc[p] = b
    /\ p \notin arrived[b]
    /\ arrived' = [arrived EXCEPT ![b] = @ \cup {p}]
    /\ UNCHANGED <<phase, pc, counters, backend, startSet, elapsed, ops,
                   joined, result>>

\* Faulty variants: a worker that does not enable its counters, and a
\* coordinator that does not wait until they are enabled.
AfterBarrier_NotActivated(p, b) ==
    IF p = Coordinator
    THEN [ready |-> "measurement_ready", measurement_ready |-> "begin",
          start |-> "join"][b]
    ELSE [ready |-> "measurement_ready", measurement_ready |-> "start",
          start |-> "read_start"][b]

AfterBarrier_NotAwaited(p, b) ==
    IF p = Coordinator
    THEN [ready |-> "begin", measurement_ready |-> "begin", start |-> "join"][b]
    ELSE [ready |-> "activate", measurement_ready |-> "start",
          start |-> "read_start"][b]

AfterBarrier(p, b) ==
    IF p = Coordinator
    THEN [ready |-> "measurement_ready", measurement_ready |-> "begin",
          start |-> "join"][b]
    ELSE [ready |-> "activate", measurement_ready |-> "start",
          start |-> "read_start"][b]

\* Faulty variant: a barrier that waits for nobody else.
Pass_Alone(p, b) ==
    /\ pc[p] = b
    /\ p \in arrived[b]
    /\ Goto(p, AfterBarrier(p, b))
    /\ UNCHANGED <<phase, arrived, counters, backend, startSet, elapsed, ops,
                   joined, result>>

Pass(p, b) ==
    /\ pc[p] = b
    /\ arrived[b] = Party
    /\ Goto(p, AfterBarrier(p, b))
    /\ UNCHANGED <<phase, arrived, counters, backend, startSet, elapsed, ops,
                   joined, result>>

Synchronise(p) == \E b \in Barriers : Arrive(p, b) \/ Pass(p, b)

-------------------------------------------------------------------------------
(* The coordinator. *)

\* Faulty variant: one thread fewer is spawned than the barriers count.
Spawn_OneShort(t) ==
    /\ pc[Coordinator] = "spawn"
    /\ pc[t] = "unspawned"
    /\ \A u \in 1..(t - 1) : pc[u] # "unspawned"
    /\ pc' = [pc EXCEPT ![t] = "prepare",
                        ![Coordinator] = IF t = NumThreads - 1 THEN "ready" ELSE @]
    /\ UNCHANGED <<phase, arrived, counters, backend, startSet, elapsed, ops,
                   joined, result>>

\* scope.spawn for the next thread; the first wait() follows the last spawn.
Spawn(t) ==
    /\ pc[Coordinator] = "spawn"
    /\ pc[t] = "unspawned"
    /\ \A u \in 1..(t - 1) : pc[u] # "unspawned"
    /\ pc' = [pc EXCEPT ![t] = "prepare",
                        ![Coordinator] = IF t = NumThreads THEN "ready" ELSE @]
    /\ UNCHANGED <<phase, arrived, counters, backend, startSet, elapsed, ops,
                   joined, result>>

\* scope.spawn panics when the OS refuses a thread.
SpawnPanics ==
    /\ "spawn" \in Faults
    /\ pc[Coordinator] = "spawn"
    /\ Goto(Coordinator, "unwind")
    /\ UNCHANGED <<phase, arrived, counters, backend, startSet, elapsed, ops,
                   joined, result>>

\* Faulty variant: the backend is begun for warm-up samples too.
BackendBegin_Always ==
    /\ pc[Coordinator] = "begin"
    /\ Goto(Coordinator, "set_start")
    /\ backend' = "begun"
    /\ UNCHANGED <<phase, arrived, counters, startSet, elapsed, ops, joined,
                   result>>

BackendBegin ==
    /\ pc[Coordinator] = "begin"
    /\ Goto(Coordinator, "set_start")
    /\ backend' = IF BackendPresent THEN "begun" ELSE backend
    /\ UNCHANGED <<phase, arrived, counters, startSet, elapsed, ops, joined,
                   result>>

\* A user-supplied backend may panic in begin().
BackendBeginPanics ==
    /\ "backend_begin" \in Faults
    /\ pc[Coordinator] = "begin"
    /\ BackendPresent
    /\ Goto(Coordinator, "unwind")
    /\ UNCHANGED <<phase, arrived, counters, backend, startSet, elapsed, ops,
                   joined, result>>

SetStart ==
    /\ pc[Coordinator] = "set_start"
    /\ Goto(Coordinator, "start")
    /\ startSet' = TRUE
    /\ UNCHANGED <<phase, arrived, counters, backend, elapsed, ops, joined,
                   result>>

\* Faulty variants: a handle is skipped, and every worker is merged into one
\* role.
Join_Skips(t) ==
    /\ pc[Coordinator] = "join"
    /\ t = joined + 1
    /\ pc[t] = "finished"
    /\ joined' = t + 1
    /\ UNCHANGED <<phase, pc, arrived, counters, backend, startSet, elapsed,
                   ops, result>>

Join_OneRole(t) ==
    /\ pc[Coordinator] = "join"
    /\ t = joined + 1
    /\ pc[t] = "finished"
    /\ joined' = t
    /\ result' = [result EXCEPT !.total = @ + ops[t],
                                !.byRole[RoleOf[1]] = @ + ops[t]]
    /\ UNCHANGED <<phase, pc, arrived, counters, backend, startSet, elapsed,
                   ops>>

\* handle.join() on the next handle: its results are merged, or its panic is
\* raised on the coordinator by expect().
Join(t) ==
    /\ pc[Coordinator] = "join"
    /\ t = joined + 1
    /\ pc[t] = "finished"
    /\ joined' = t
    /\ result' = [result EXCEPT !.total = @ + ops[t],
                                !.byRole[RoleOf[t]] = @ + ops[t]]
    /\ UNCHANGED <<phase, pc, arrived, counters, backend, startSet, elapsed,
                   ops>>

JoinPanics(t) ==
    /\ pc[Coordinator] = "join"
    /\ t = joined + 1
    /\ pc[t] = "panicked"
    /\ Goto(Coordinator, "unwind")
    /\ UNCHANGED <<phase, arrived, counters, backend, startSet, elapsed, ops,
                   joined, result>>

\* Faulty variant: the last handle is not joined.
TakeWallDuration_Early ==
    /\ pc[Coordinator] = "join"
    /\ joined = NumThreads - 1
    /\ Goto(Coordinator, "end")
    /\ result' = [result EXCEPT !.wall = elapsed]
    /\ UNCHANGED <<phase, arrived, counters, backend, startSet, elapsed, ops,
                   joined>>

\* benchmark_start.elapsed(), which replaces every summed duration.
TakeWallDuration ==
    /\ pc[Coordinator] = "join"
    /\ joined = NumThreads
    /\ Goto(Coordinator, "end")
    /\ result' = [result EXCEPT !.wall = elapsed]
    /\ UNCHANGED <<phase, arrived, counters, backend, startSet, elapsed, ops,
                   joined>>

BackendEnd ==
    /\ pc[Coordinator] = "end"
    /\ Goto(Coordinator, "done")
    /\ backend' = IF BackendPresent THEN "ended" ELSE backend
    /\ UNCHANGED <<phase, arrived, counters, startSet, elapsed, ops, joined,
                   result>>

\* Faulty variant: detached threads, which nobody waits for.
LeaveScope_Detached ==
    /\ pc[Coordinator] = "unwind"
    /\ Goto(Coordinator, "aborted")
    /\ UNCHANGED <<phase, arrived, counters, backend, startSet, elapsed, ops,
                   joined, result>>

\* thread::scope rethrows a panic once no spawned thread is left.
LeaveScope ==
    /\ pc[Coordinator] = "unwind"
    /\ \A t \in Threads : pc[t] \in {"unspawned", "finished", "panicked"}
    /\ Goto(Coordinator, "aborted")
    /\ UNCHANGED <<phase, arrived, counters, backend, startSet, elapsed, ops,
                   joined, result>>

CoordinatorStep ==
    \/ Synchronise(Coordinator)
    \/ \E t \in Threads : Spawn(t) \/ Join(t) \/ JoinPanics(t)
    \/ SpawnPanics \/ BackendBegin \/ BackendBeginPanics \/ SetStart
    \/ TakeWallDuration \/ BackendEnd \/ LeaveScope

-------------------------------------------------------------------------------
(* A worker thread. *)

\* prepare_concurrent_worker_measurement
Prepare(t) ==
    /\ pc[t] = "prepare"
    /\ Goto(t, "ready")
    /\ counters' = [counters EXCEPT ![t] = IF UsePerf THEN "prepared" ELSE @]
    /\ UNCHANGED <<phase, arrived, backend, startSet, elapsed, ops, joined,
                   result>>

\* perf_measurement.begin_prepared()
Activate(t) ==
    /\ pc[t] = "activate"
    /\ Goto(t, "measurement_ready")
    /\ counters' = [counters EXCEPT ![t] = IF UsePerf THEN "active" ELSE @]
    /\ UNCHANGED <<phase, arrived, backend, startSet, elapsed, ops, joined,
                   result>>

\* start_instant.get().expect("missing benchmark start")
ReadStart(t) ==
    /\ pc[t] = "read_start"
    /\ Goto(t, IF startSet THEN "run" ELSE "panicked")
    /\ UNCHANGED <<phase, arrived, counters, backend, startSet, elapsed, ops,
                   joined, result>>

\* Faulty variant: the deadline is one tick early.
ShouldStop_Early == elapsed + 1 >= SampleDuration

ShouldStop == elapsed >= SampleDuration

\* One turn of the worker function's `while !control.should_stop()` loop.
Work(t) ==
    /\ pc[t] = "run"
    /\ ~ShouldStop
    /\ ops[t] < MaxOps
    /\ ops' = [ops EXCEPT ![t] = @ + 1]
    /\ UNCHANGED <<phase, pc, arrived, counters, backend, startSet, elapsed,
                   joined, result>>

StopRun(t) ==
    /\ pc[t] = "run"
    /\ ShouldStop
    /\ Goto(t, "collect")
    /\ UNCHANGED <<phase, arrived, counters, backend, startSet, elapsed, ops,
                   joined, result>>

\* The worker function panics: its counters are never ended or collected.
RunPanics(t) ==
    /\ "run" \in Faults
    /\ pc[t] = "run"
    /\ Goto(t, "panicked")
    /\ UNCHANGED <<phase, arrived, counters, backend, startSet, elapsed, ops,
                   joined, result>>

\* backend.end() and collect() of the worker's own LinuxPerfBackend
Collect(t) ==
    /\ pc[t] = "collect"
    /\ Goto(t, "finished")
    /\ counters' = [counters EXCEPT ![t] = IF UsePerf THEN "stopped" ELSE @]
    /\ UNCHANGED <<phase, arrived, backend, startSet, elapsed, ops, joined,
                   result>>

WorkerStep(t) ==
    \/ Synchronise(t)
    \/ Prepare(t) \/ Activate(t) \/ ReadStart(t)
    \/ Work(t) \/ StopRun(t) \/ RunPanics(t) \/ Collect(t)

\* Instant::now() advances.
Tick ==
    /\ startSet
    /\ elapsed < MaxElapsed
    /\ elapsed' = elapsed + 1
    /\ UNCHANGED <<phase, pc, arrived, counters, backend, startSet, ops,
                   joined, result>>

-------------------------------------------------------------------------------
SampleStep == CoordinatorStep \/ (\E t \in Threads : WorkerStep(t)) \/ Tick

SampleOver == pc[Coordinator] \in {"done", "aborted"}

Terminating == SampleOver /\ UNCHANGED vars

Next == SampleStep \/ Terminating

\* The OS runs every runnable thread, and time passes.
SampleFairness ==
    /\ WF_vars(CoordinatorStep)
    /\ \A t \in Threads : WF_vars(WorkerStep(t))
    /\ WF_vars(Tick)

Spec == Init /\ [][Next]_vars
FairSpec == Spec /\ SampleFairness

-------------------------------------------------------------------------------
(* What a sample must guarantee. *)

\* A worker function runs only after the start instant was published and the
\* backend began, and while no worker of the sample is without its counters.
NoWorkOutsideWindow ==
    \A t \in Threads : pc[t] = "run" =>
        /\ startSet
        /\ BackendPresent => backend = "begun"
        /\ UsePerf => \A u \in Threads : counters[u] \in {"active", "stopped"}

\* concurrent.md: "begin runs after all workers are ready": their counters are
\* already enabled, so setting them up is outside the backend's window.
BackendBeginsAfterWorkersReady ==
    backend # "idle" =>
        \A t \in Threads : counters[t] \in {"active", "stopped"}

\* "end runs after all worker joins", and a sample with a panicked worker is
\* never reported as a result.
WindowClosesLast ==
    pc[Coordinator] \in {"end", "done"} =>
        \A t \in Threads : pc[t] = "finished"

SumOver(f, S) == MapThenSumSet(LAMBDA t : f[t], S)

\* The aggregate and every role hold each joined worker's operations once.
MergedExactlyOnce ==
    /\ result.total = SumOver(ops, 1..joined)
    /\ \A r \in Roles :
          result.byRole[r] = SumOver(ops, {t \in 1..joined : RoleOf[t] = r})

\* The duration that throughput is divided by is at least the sample duration:
\* no worker can have counted operations past the reported window.
WallCoversDeadline ==
    pc[Coordinator] \in {"end", "done"} => result.wall >= SampleDuration

\* A coordinator that panics before it reached the start barrier leaves the
\* spawned workers waiting there, and itself waiting in thread::scope.
Stranded ==
    /\ pc[Coordinator] = "unwind"
    /\ Coordinator \notin arrived["start"]
    /\ \E t \in Threads : pc[t] # "unspawned"

\* That hang is permanent: no step of the sample ends it.
StrandedForever == [](Stranded => []~SampleOver)

\* And it is the only one: otherwise every sample ends, with a result or with
\* the panic of a worker; no barrier is short of a party and no handle is left
\* unjoined.
SampleCompletes == <>(SampleOver \/ Stranded)

-------------------------------------------------------------------------------
(* Why the guarantees hold: what each barrier has seen. *)

Released == {"read_start", "run", "collect", "finished", "panicked"}
Measured == {"measurement_ready", "start"} \cup Released
AfterMeasured == {"begin", "set_start", "start", "join", "end", "done"}
BeforeStart == {"spawn", "ready", "measurement_ready", "begin", "set_start"}

\* A worker that arrived at a barrier has done what precedes it, and a worker
\* beyond the start barrier passed it together with everyone else.
WorkerInv ==
    \A t \in Threads :
        /\ t \in arrived["measurement_ready"] => pc[t] \in Measured
        /\ t \in arrived["start"] => pc[t] \in {"start"} \cup Released
        /\ pc[t] \in Released => arrived["start"] = Party
        /\ pc[t] \in Measured /\ UsePerf => counters[t] \in {"active", "stopped"}

\* The coordinator begins the backend and publishes the start instant between
\* the second and the third barrier.
CoordinatorInv ==
    /\ pc[Coordinator] \in AfterMeasured => arrived["measurement_ready"] = Party
    /\ pc[Coordinator] \in BeforeStart => ~startSet
    /\ pc[Coordinator] \in {"start", "join", "end", "done"} => startSet
    /\ Coordinator \in arrived["start"] => startSet
    /\ backend # "idle" => arrived["measurement_ready"] = Party /\ BackendPresent
    /\ pc[Coordinator] = "set_start" \/ startSet =>
           (BackendPresent => backend # "idle")
    /\ backend = "ended" => pc[Coordinator] = "done"

JoinInv ==
    /\ \A t \in Threads : t <= joined => pc[t] = "finished"
    /\ pc[Coordinator] \in {"end", "done"} => joined = NumThreads

SampleInv == WorkerInv /\ CoordinatorInv /\ JoinInv

-------------------------------------------------------------------------------
(* The sample implements SampleWindow. *)

Window ==
    CASE pc[Coordinator] \in {"end", "done"} -> "closed"
      [] pc[Coordinator] \in {"unwind", "aborted"} ->
             IF startSet THEN "abandoned" ELSE "cancelled"
      [] OTHER -> IF startSet THEN "open" ELSE "unopened"

WorkOf(t) ==
    CASE pc[t] = "run" -> "working"
      [] pc[t] \in {"collect", "finished", "panicked"} -> "stopped"
      [] OTHER -> "idle"

Promise == INSTANCE SampleWindow
    WITH window <- Window, work <- [t \in Threads |-> WorkOf(t)]

\* Every step of the barrier protocol is a step of the promised window.
ImplementsWindow == Promise!Spec
===============================================================================
