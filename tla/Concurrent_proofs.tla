--------------------------- MODULE Concurrent_proofs ---------------------------
(***************************************************************************)
(* Proofs about concurrent measurement.  First the window of one sample,   *)
(* for every number of threads, every assignment of roles and every set of *)
(* panics; then, on top of it, cases of any number of warm-up and measured *)
(* samples.                                                                *)
(***************************************************************************)
EXTENDS ConcurrentCase, FiniteSetTheorems, WellFoundedInduction, TLAPS

-------------------------------------------------------------------------------
(* One sample *)

\* A sample starts with its variables in their ranges.
LEMMA InitIsTyped == Init => TypeOK
<1> USE SampleAssumption DEF TypeOK, Threads, Party, Coordinator, Barriers,
        CoordinatorLocations, WorkerLocations, Phases
<1> SUFFICES ASSUME NEW ph \in Phases, SampleInit(ph) PROVE TypeOK
  BY DEF Init
<1>1. result \in SampleResult
  BY DEF SampleResult, SampleInit, Zero
<1>2. /\ pc \in [Party -> CoordinatorLocations \cup WorkerLocations]
      /\ pc[Coordinator] \in CoordinatorLocations
      /\ \A t \in Threads : pc[t] \in WorkerLocations
  BY DEF SampleInit
<1>3. arrived \in [Barriers -> SUBSET Party]
  BY DEF SampleInit
<1>4. /\ counters \in [Threads -> {"none", "prepared", "active", "stopped"}]
      /\ ops \in [Threads -> 0..MaxOps]
  BY DEF SampleInit
<1>5. /\ phase \in Phases /\ backend \in {"idle", "begun", "ended"}
      /\ startSet \in BOOLEAN
  BY DEF SampleInit
<1>6. elapsed \in 0..MaxElapsed /\ joined \in 0..NumThreads
  <2>1. elapsed = 0 /\ joined = 0
    BY DEF SampleInit
  <2> QED
    BY <2>1
<1> HIDE DEF Threads, Party, Coordinator, Barriers, CoordinatorLocations,
      WorkerLocations, Phases
<1> QED
  BY <1>1, <1>2, <1>3, <1>4, <1>5, <1>6

\* A step keeps the variables in their ranges.
LEMMA StepKeepsTypes == TypeOK /\ [Next]_vars => TypeOK'
<1> USE SampleAssumption DEF TypeOK, Threads, Party, Coordinator, Barriers,
        CoordinatorLocations, WorkerLocations, Phases
<1> SUFFICES ASSUME TypeOK, [Next]_vars PROVE TypeOK'
  OBVIOUS
<1>1. ASSUME NEW p \in Party, NEW b \in Barriers, Arrive(p, b)
      PROVE  TypeOK'
  BY <1>1 DEF Arrive
<1>2. ASSUME NEW p \in Party, NEW b \in Barriers, Pass(p, b)
      PROVE  TypeOK'
  <2>1. CASE p = Coordinator
    <3>1. AfterBarrier(p, b) \in CoordinatorLocations
      BY <2>1 DEF AfterBarrier
    <3> QED
      BY <1>2, <2>1, <3>1 DEF Pass, Goto
  <2>2. CASE p # Coordinator
    <3>1. AfterBarrier(p, b) \in WorkerLocations
      BY <2>2 DEF AfterBarrier
    <3> QED
      BY <1>2, <2>2, <3>1 DEF Pass, Goto
  <2> QED
    BY <2>1, <2>2
<1>3. ASSUME NEW t \in Threads, Spawn(t) PROVE TypeOK'
  BY <1>3 DEF Spawn
<1>4. ASSUME NEW t \in Threads, Join(t) PROVE TypeOK'
  <2>1. result' \in SampleResult
    <3>1. /\ ops[t] \in Nat /\ RoleOf[t] \in Roles
          /\ result.byRole \in [Roles -> Nat] /\ result.total \in Nat
      BY DEF SampleResult
    <3> DEFINE role == RoleOf[t]
           count == ops[t]
           byRole == [result.byRole EXCEPT ![role] = @ + count]
    <3>3. byRole \in [Roles -> Nat]
      BY <3>1
    <3>4. result.total + count \in Nat
      BY <3>1
    <3>5. result' = [result EXCEPT !.total = @ + count, !.byRole = byRole]
      BY <1>4 DEF Join
    <3> QED
      BY <3>3, <3>4, <3>5 DEF SampleResult
  <2>2. /\ joined' = t
        /\ UNCHANGED <<phase, pc, arrived, counters, backend, startSet,
                       elapsed, ops>>
    BY <1>4 DEF Join
  <2> QED
    BY <2>1, <2>2
<1>5. ASSUME NEW t \in Threads, JoinPanics(t) PROVE TypeOK'
  BY <1>5 DEF JoinPanics, Goto
<1>6. CASE SpawnPanics
  BY <1>6 DEF SpawnPanics, Goto
<1>7. CASE BackendBegin
  BY <1>7 DEF BackendBegin, Goto
<1>8. CASE BackendBeginPanics
  BY <1>8 DEF BackendBeginPanics, Goto
<1>9. CASE SetStart
  BY <1>9 DEF SetStart, Goto
<1>10. CASE TakeWallDuration
  BY <1>10 DEF TakeWallDuration, Goto, SampleResult
<1>11. CASE BackendEnd
  BY <1>11 DEF BackendEnd, Goto
<1>12. CASE LeaveScope
  BY <1>12 DEF LeaveScope, Goto
<1>13. ASSUME NEW t \in Threads, Prepare(t) PROVE TypeOK'
  BY <1>13 DEF Prepare, Goto
<1>14. ASSUME NEW t \in Threads, Activate(t) PROVE TypeOK'
  BY <1>14 DEF Activate, Goto
<1>15. ASSUME NEW t \in Threads, ReadStart(t) PROVE TypeOK'
  BY <1>15 DEF ReadStart, Goto
<1>16. ASSUME NEW t \in Threads, Work(t) PROVE TypeOK'
  <2>1. ops' \in [Threads -> 0..MaxOps]
    BY <1>16 DEF Work
  <2> QED
    BY <1>16, <2>1 DEF Work
<1>17. ASSUME NEW t \in Threads, StopRun(t) PROVE TypeOK'
  BY <1>17 DEF StopRun, Goto
<1>18. ASSUME NEW t \in Threads, RunPanics(t) PROVE TypeOK'
  BY <1>18 DEF RunPanics, Goto
<1>19. ASSUME NEW t \in Threads, Collect(t) PROVE TypeOK'
  BY <1>19 DEF Collect, Goto
<1>20. CASE Tick
  BY <1>20 DEF Tick
<1>21. CASE UNCHANGED vars
  BY <1>21 DEF vars
<1>22. CASE CoordinatorStep
  <2>1. Coordinator \in Party
    OBVIOUS
  <2> HIDE DEF TypeOK, Threads, Party, Coordinator, Barriers
  <2> QED
    BY <1>1, <1>2, <1>3, <1>4, <1>5, <1>6, <1>7, <1>8, <1>9, <1>10, <1>11,
       <1>12, <1>22, <2>1 DEF CoordinatorStep, Synchronise
<1>23. ASSUME NEW t \in Threads, WorkerStep(t) PROVE TypeOK'
  <2>1. t \in Party
    OBVIOUS
  <2> HIDE DEF TypeOK, Threads, Party, Coordinator, Barriers
  <2> QED
    BY <1>1, <1>2, <1>13, <1>14, <1>15, <1>16, <1>17, <1>18, <1>19, <1>23,
       <2>1 DEF WorkerStep, Synchronise
<1> HIDE DEF TypeOK
<1> QED
  BY <1>20, <1>21, <1>22, <1>23 DEF Next, SampleStep, Terminating

\* The variables stay in their ranges; in particular no worker ever takes a
\* coordinator's step or the reverse.
THEOREM TypeCorrect == Spec => []TypeOK
<1>1. Init => TypeOK
  BY InitIsTyped
<1>2. TypeOK /\ [Next]_vars => TypeOK'
  BY StepKeepsTypes
<1> QED
  BY <1>1, <1>2, PTL DEF Spec

\* 0 is no thread index, so the coordinator is a party of its own.
LEMMA CoordinatorIsNoThread ==
    /\ Coordinator \notin Threads
    /\ Coordinator \in Party
    /\ Threads \subseteq Party
BY SampleAssumption DEF Coordinator, Threads, Party

-------------------------------------------------------------------------------
(* One lemma per action group: the step keeps each part of SampleInv. *)

\* Arriving at a barrier and passing it.
LEMMA BarrierKeepsInv ==
    ASSUME TypeOK, SampleInv, NEW p \in Party, NEW b \in Barriers,
           Arrive(p, b) \/ Pass(p, b)
    PROVE  SampleInv'
<1> USE CoordinatorIsNoThread
    DEF TypeOK, SampleInv, UsePerf, BackendPresent, Released, Measured,
        AfterMeasured, BeforeStart, Barriers
<1>1. CASE Arrive(p, b)
  <2>1. WorkerInv'
    BY <1>1 DEF Arrive, WorkerInv, Party
  <2>2. CoordinatorInv'
    BY <1>1 DEF Arrive, CoordinatorInv, Party
  <2>3. JoinInv'
    BY <1>1 DEF Arrive, JoinInv
  <2> QED
    BY <2>1, <2>2, <2>3
<1>2. CASE Pass(p, b) /\ p = Coordinator
  <2>1. WorkerInv'
    BY <1>2 DEF Pass, Goto, WorkerInv
  <2>2. CoordinatorInv'
    BY <1>2 DEF Pass, Goto, AfterBarrier, CoordinatorInv
  <2>3. JoinInv'
    BY <1>2 DEF Pass, Goto, AfterBarrier, JoinInv
  <2> QED
    BY <2>1, <2>2, <2>3
<1>3. CASE Pass(p, b) /\ p # Coordinator
  <2>1. WorkerInv'
    BY <1>3 DEF Pass, Goto, AfterBarrier, WorkerInv
  <2>2. CoordinatorInv'
    BY <1>3 DEF Pass, Goto, CoordinatorInv
  <2>3. JoinInv'
    BY <1>3 DEF Pass, Goto, AfterBarrier, JoinInv
  <2> QED
    BY <2>1, <2>2, <2>3
<1> QED
  BY <1>1, <1>2, <1>3

\* Spawning the workers and opening the window.
LEMMA OpeningKeepsInv ==
    ASSUME TypeOK, SampleInv, NEW t \in Threads,
           Spawn(t) \/ SpawnPanics \/ BackendBegin \/ BackendBeginPanics \/ SetStart
    PROVE  SampleInv'
<1> USE SampleAssumption, CoordinatorIsNoThread
    DEF TypeOK, SampleInv, UsePerf, BackendPresent, Released, Measured,
        AfterMeasured, BeforeStart, Goto
<1>1. CASE Spawn(t)
  <2>1. WorkerInv'
    BY <1>1 DEF Spawn, WorkerInv
  <2>2. CoordinatorInv'
    BY <1>1 DEF Spawn, CoordinatorInv
  <2>3. JoinInv'
    BY <1>1 DEF Spawn, JoinInv, Threads
  <2> QED
    BY <2>1, <2>2, <2>3
<1>2. CASE SpawnPanics
  <2>1. WorkerInv'
    BY <1>2 DEF SpawnPanics, WorkerInv
  <2>2. CoordinatorInv'
    BY <1>2 DEF SpawnPanics, CoordinatorInv
  <2>3. JoinInv'
    BY <1>2 DEF SpawnPanics, JoinInv
  <2> QED
    BY <2>1, <2>2, <2>3
<1>3. CASE BackendBegin
  <2>1. WorkerInv'
    BY <1>3 DEF BackendBegin, WorkerInv
  <2>2. CoordinatorInv'
    BY <1>3 DEF BackendBegin, CoordinatorInv
  <2>3. JoinInv'
    BY <1>3 DEF BackendBegin, JoinInv
  <2> QED
    BY <2>1, <2>2, <2>3
<1>4. CASE BackendBeginPanics
  <2>1. WorkerInv'
    BY <1>4 DEF BackendBeginPanics, WorkerInv
  <2>2. CoordinatorInv'
    BY <1>4 DEF BackendBeginPanics, CoordinatorInv
  <2>3. JoinInv'
    BY <1>4 DEF BackendBeginPanics, JoinInv
  <2> QED
    BY <2>1, <2>2, <2>3
<1>5. CASE SetStart
  <2>1. WorkerInv'
    BY <1>5 DEF SetStart, WorkerInv
  <2>2. CoordinatorInv'
    BY <1>5 DEF SetStart, CoordinatorInv
  <2>3. JoinInv'
    BY <1>5 DEF SetStart, JoinInv
  <2> QED
    BY <2>1, <2>2, <2>3
<1> QED
  BY <1>1, <1>2, <1>3, <1>4, <1>5

\* Joining the workers, closing the window, leaving the scope.
LEMMA ClosingKeepsInv ==
    ASSUME TypeOK, SampleInv, NEW t \in Threads,
           \/ Join(t) \/ JoinPanics(t) \/ TakeWallDuration
           \/ BackendEnd \/ LeaveScope
    PROVE  SampleInv'
<1> USE SampleAssumption, CoordinatorIsNoThread
    DEF TypeOK, SampleInv, UsePerf, BackendPresent, Released, Measured,
        AfterMeasured, BeforeStart, Goto
<1>1. CASE Join(t)
  <2>1. WorkerInv'
    BY <1>1 DEF Join, WorkerInv
  <2>2. CoordinatorInv'
    BY <1>1 DEF Join, CoordinatorInv
  <2>3. JoinInv'
    BY <1>1 DEF Join, JoinInv, Threads
  <2> QED
    BY <2>1, <2>2, <2>3
<1>2. CASE JoinPanics(t)
  <2>1. WorkerInv'
    BY <1>2 DEF JoinPanics, WorkerInv
  <2>2. CoordinatorInv'
    BY <1>2 DEF JoinPanics, CoordinatorInv
  <2>3. JoinInv'
    BY <1>2 DEF JoinPanics, JoinInv
  <2> QED
    BY <2>1, <2>2, <2>3
<1>3. CASE TakeWallDuration
  <2>1. WorkerInv'
    BY <1>3 DEF TakeWallDuration, WorkerInv
  <2>2. CoordinatorInv'
    BY <1>3 DEF TakeWallDuration, CoordinatorInv
  <2>3. JoinInv'
    BY <1>3 DEF TakeWallDuration, JoinInv, Threads
  <2> QED
    BY <2>1, <2>2, <2>3
<1>4. CASE BackendEnd
  <2>1. WorkerInv'
    BY <1>4 DEF BackendEnd, WorkerInv
  <2>2. CoordinatorInv'
    BY <1>4 DEF BackendEnd, CoordinatorInv
  <2>3. JoinInv'
    BY <1>4 DEF BackendEnd, JoinInv
  <2> QED
    BY <2>1, <2>2, <2>3
<1>5. CASE LeaveScope
  <2>1. WorkerInv'
    BY <1>5 DEF LeaveScope, WorkerInv
  <2>2. CoordinatorInv'
    BY <1>5 DEF LeaveScope, CoordinatorInv
  <2>3. JoinInv'
    BY <1>5 DEF LeaveScope, JoinInv
  <2> QED
    BY <2>1, <2>2, <2>3
<1> QED
  BY <1>1, <1>2, <1>3, <1>4, <1>5

\* A worker outside the barriers, and the clock.
LEMMA WorkerKeepsInv ==
    ASSUME TypeOK, SampleInv, NEW t \in Threads,
           \/ Prepare(t) \/ Activate(t) \/ ReadStart(t) \/ Work(t)
           \/ StopRun(t) \/ RunPanics(t) \/ Collect(t) \/ Tick
    PROVE  SampleInv'
<1> USE SampleAssumption, CoordinatorIsNoThread
    DEF TypeOK, SampleInv, UsePerf, BackendPresent, Released, Measured,
        AfterMeasured, BeforeStart, Goto
<1>1. CASE Prepare(t)
  <2>1. WorkerInv'
    BY <1>1 DEF Prepare, WorkerInv
  <2>2. CoordinatorInv'
    BY <1>1 DEF Prepare, CoordinatorInv
  <2>3. JoinInv'
    BY <1>1 DEF Prepare, JoinInv
  <2> QED
    BY <2>1, <2>2, <2>3
<1>2. CASE Activate(t)
  <2>1. WorkerInv'
    BY <1>2 DEF Activate, WorkerInv
  <2>2. CoordinatorInv'
    BY <1>2 DEF Activate, CoordinatorInv
  <2>3. JoinInv'
    BY <1>2 DEF Activate, JoinInv
  <2> QED
    BY <2>1, <2>2, <2>3
<1>3. CASE ReadStart(t)
  <2>1. WorkerInv'
    BY <1>3 DEF ReadStart, WorkerInv
  <2>2. CoordinatorInv'
    BY <1>3 DEF ReadStart, CoordinatorInv
  <2>3. JoinInv'
    BY <1>3 DEF ReadStart, JoinInv
  <2> QED
    BY <2>1, <2>2, <2>3
<1>4. CASE Work(t)
  <2>1. WorkerInv'
    BY <1>4 DEF Work, WorkerInv
  <2>2. CoordinatorInv'
    BY <1>4 DEF Work, CoordinatorInv
  <2>3. JoinInv'
    BY <1>4 DEF Work, JoinInv
  <2> QED
    BY <2>1, <2>2, <2>3
<1>5. CASE StopRun(t)
  <2>1. WorkerInv'
    BY <1>5 DEF StopRun, WorkerInv
  <2>2. CoordinatorInv'
    BY <1>5 DEF StopRun, CoordinatorInv
  <2>3. JoinInv'
    BY <1>5 DEF StopRun, JoinInv
  <2> QED
    BY <2>1, <2>2, <2>3
<1>6. CASE RunPanics(t)
  <2>1. WorkerInv'
    BY <1>6 DEF RunPanics, WorkerInv
  <2>2. CoordinatorInv'
    BY <1>6 DEF RunPanics, CoordinatorInv
  <2>3. JoinInv'
    BY <1>6 DEF RunPanics, JoinInv
  <2> QED
    BY <2>1, <2>2, <2>3
<1>7. CASE Collect(t)
  <2>1. WorkerInv'
    BY <1>7 DEF Collect, WorkerInv
  <2>2. CoordinatorInv'
    BY <1>7 DEF Collect, CoordinatorInv
  <2>3. JoinInv'
    BY <1>7 DEF Collect, JoinInv
  <2> QED
    BY <2>1, <2>2, <2>3
<1>8. CASE Tick
  <2>1. WorkerInv'
    BY <1>8 DEF Tick, WorkerInv
  <2>2. CoordinatorInv'
    BY <1>8 DEF Tick, CoordinatorInv
  <2>3. JoinInv'
    BY <1>8 DEF Tick, JoinInv
  <2> QED
    BY <2>1, <2>2, <2>3
<1> QED
  BY <1>1, <1>2, <1>3, <1>4, <1>5, <1>6, <1>7, <1>8

-------------------------------------------------------------------------------
\* A step of the sample keeps what each barrier has seen.
LEMMA StepKeepsInv == TypeOK /\ SampleInv /\ [Next]_vars => SampleInv'
<1> SUFFICES ASSUME TypeOK, SampleInv, [Next]_vars PROVE SampleInv'
  OBVIOUS
<1> USE CoordinatorIsNoThread
<1>1. CASE CoordinatorStep
  <2>1. 1 \in Threads
    BY SampleAssumption DEF Threads
  <2>2. CASE Synchronise(Coordinator)
    BY <2>2, BarrierKeepsInv DEF Synchronise
  <2>3. ASSUME NEW t \in Threads, Spawn(t) \/ Join(t) \/ JoinPanics(t)
        PROVE  SampleInv'
    BY <2>3, OpeningKeepsInv, ClosingKeepsInv
  <2>4. CASE SpawnPanics \/ BackendBegin \/ BackendBeginPanics \/ SetStart
    BY <2>1, <2>4, OpeningKeepsInv
  <2>5. CASE TakeWallDuration \/ BackendEnd \/ LeaveScope
    BY <2>1, <2>5, ClosingKeepsInv
  <2> QED
    BY <1>1, <2>2, <2>3, <2>4, <2>5 DEF CoordinatorStep
<1>2. ASSUME NEW t \in Threads, WorkerStep(t) PROVE SampleInv'
  BY <1>2, BarrierKeepsInv, WorkerKeepsInv DEF WorkerStep, Synchronise
<1>3. CASE Tick
  BY <1>3, WorkerKeepsInv, SampleAssumption DEF Threads
<1>4. CASE UNCHANGED vars
  <2> USE <1>4 DEF vars, SampleInv, UsePerf, BackendPresent
  <2>1. WorkerInv'
    BY DEF WorkerInv
  <2>2. CoordinatorInv'
    BY DEF CoordinatorInv
  <2>3. JoinInv'
    BY DEF JoinInv
  <2> QED
    BY <2>1, <2>2, <2>3
<1> QED
  BY <1>1, <1>2, <1>3, <1>4 DEF Next, SampleStep, Terminating

\* Every part of the inductive invariant holds in every reachable state.
THEOREM ProtocolCorrect == Spec => []SampleInv
<1>1. Init => SampleInv
  BY SampleAssumption, CoordinatorIsNoThread
     DEF Init, SampleInit, SampleInv, WorkerInv, CoordinatorInv, JoinInv,
         Released, Measured, AfterMeasured, BeforeStart, Barriers, Threads
<1>2. TypeOK /\ SampleInv /\ [Next]_vars => SampleInv'
  BY StepKeepsInv
<1> QED
  BY <1>1, <1>2, TypeCorrect, PTL DEF Spec

\* Workers run only inside the opened window, with the counters of all of them
\* enabled, whatever panics: also after the coordinator started to unwind.
THEOREM WorkIsMeasured == Spec => []NoWorkOutsideWindow
<1>1. TypeOK /\ SampleInv => NoWorkOutsideWindow
  <2> SUFFICES ASSUME TypeOK, SampleInv, NEW t \in Threads, pc[t] = "run"
               PROVE  /\ startSet
                      /\ BackendPresent => backend = "begun"
                      /\ UsePerf => \A u \in Threads :
                                        counters[u] \in {"active", "stopped"}
    BY DEF NoWorkOutsideWindow
  <2> USE CoordinatorIsNoThread DEF SampleInv
  <2>1. arrived["start"] = Party
    BY DEF WorkerInv, Released
  <2>2. startSet
    BY <2>1 DEF CoordinatorInv
  <2>3. \A u \in Threads : pc[u] \in Measured
    BY <2>1 DEF WorkerInv, Measured
  <2>4. pc[Coordinator] # "done"
    BY SampleAssumption DEF JoinInv, Threads
  <2>5. BackendPresent => backend = "begun"
    BY <2>2, <2>4 DEF CoordinatorInv, TypeOK
  <2> QED
    BY <2>2, <2>3, <2>5 DEF WorkerInv
<1> QED
  BY <1>1, TypeCorrect, ProtocolCorrect, PTL

\* backend.begin() runs when every worker's counters are already enabled.
THEOREM BackendStartsLast == Spec => []BackendBeginsAfterWorkersReady
<1>1. SampleInv => BackendBeginsAfterWorkersReady
  BY CoordinatorIsNoThread
     DEF SampleInv, WorkerInv, CoordinatorInv, BackendPresent,
         BackendBeginsAfterWorkersReady
<1> QED
  BY <1>1, ProtocolCorrect, PTL

\* A result is reported, and backend.end() called, only after every worker
\* function has returned and its counters were collected.
THEOREM ResultsComeLast == Spec => []WindowClosesLast
<1>1. SampleInv => WindowClosesLast
  BY SampleAssumption DEF SampleInv, JoinInv, WindowClosesLast, Threads
<1> QED
  BY <1>1, ProtocolCorrect, PTL

-------------------------------------------------------------------------------
(* The reported duration. *)

\* Every worker that has left its loop saw the deadline pass.
DeadlineInv ==
    /\ \A t \in Threads :
          pc[t] \in {"collect", "finished"} => elapsed >= SampleDuration
    /\ WallCoversDeadline

\* A step keeps the wall duration behind the deadline.
LEMMA StepKeepsDeadline == TypeOK /\ SampleInv /\ DeadlineInv /\ [Next]_vars => DeadlineInv'
<1> USE SampleAssumption, CoordinatorIsNoThread
    DEF DeadlineInv, WallCoversDeadline
<1> SUFFICES ASSUME TypeOK, SampleInv, DeadlineInv, [Next]_vars
             PROVE  DeadlineInv'
  OBVIOUS
<1> USE DEF TypeOK
<1>1. ASSUME NEW p \in Party, NEW b \in Barriers, Arrive(p, b)
      PROVE  DeadlineInv'
  BY <1>1 DEF Arrive
<1>2. ASSUME NEW p \in Party, NEW b \in Barriers, Pass(p, b)
      PROVE  DeadlineInv'
  BY <1>2 DEF Pass, Goto, AfterBarrier, Barriers
<1>3. ASSUME NEW t \in Threads, Spawn(t) PROVE DeadlineInv'
  BY <1>3 DEF Spawn
<1>4. ASSUME NEW t \in Threads, Join(t) \/ JoinPanics(t) PROVE DeadlineInv'
  BY <1>4 DEF Join, JoinPanics, Goto
<1>5. CASE \/ SpawnPanics \/ BackendBegin \/ BackendBeginPanics \/ SetStart
           \/ BackendEnd \/ LeaveScope
  BY <1>5 DEF SpawnPanics, BackendBegin, BackendBeginPanics, SetStart,
              BackendEnd, LeaveScope, Goto
<1>6. CASE TakeWallDuration
  <2>1. pc[1] = "finished" /\ 1 \in Threads
    <3>1. 1 \in Threads /\ 1 <= NumThreads
      BY DEF Threads
    <3>2. joined = NumThreads
      BY <1>6 DEF TakeWallDuration
    <3> QED
      BY <3>1, <3>2 DEF SampleInv, JoinInv
  <2>2. result'.wall = elapsed
    BY <1>6 DEF TakeWallDuration, SampleResult
  <2> QED
    BY <1>6, <2>1, <2>2 DEF TakeWallDuration, Goto
<1>7. ASSUME NEW t \in Threads,
             Prepare(t) \/ Activate(t) \/ ReadStart(t) \/ Work(t)
      PROVE  DeadlineInv'
  BY <1>7 DEF Prepare, Activate, ReadStart, Work, Goto
<1>8. ASSUME NEW t \in Threads, StopRun(t) \/ RunPanics(t) \/ Collect(t)
      PROVE  DeadlineInv'
  BY <1>8 DEF StopRun, RunPanics, Collect, Goto, ShouldStop
<1>9. CASE Tick
  BY <1>9 DEF Tick
<1>10. CASE UNCHANGED vars
  BY <1>10 DEF vars
<1> HIDE DEF DeadlineInv, TypeOK
<1>11. CASE CoordinatorStep
  BY <1>1, <1>2, <1>3, <1>4, <1>5, <1>6, <1>11
     DEF CoordinatorStep, Synchronise
<1>12. ASSUME NEW t \in Threads, WorkerStep(t) PROVE DeadlineInv'
  BY <1>1, <1>2, <1>7, <1>8, <1>12 DEF WorkerStep, Synchronise
<1> QED
  BY <1>9, <1>10, <1>11, <1>12 DEF Next, SampleStep, Terminating

\* The wall duration that replaces the summed durations is never shorter than
\* the sample duration, so throughput is not inflated by late or early joins.
THEOREM WallIsLongEnough == Spec => []WallCoversDeadline
<1> USE SampleAssumption, CoordinatorIsNoThread
    DEF DeadlineInv, WallCoversDeadline
<1>1. Init => DeadlineInv
  BY DEF Init, SampleInit
<1>2. TypeOK /\ SampleInv /\ DeadlineInv /\ [Next]_vars => DeadlineInv'
  BY StepKeepsDeadline
<1> QED
  BY <1>1, <1>2, TypeCorrect, ProtocolCorrect, PTL DEF Spec

-------------------------------------------------------------------------------
\* The barrier protocol implements SampleWindow: each step opens, closes or
\* gives up the promised window, starts or stops one worker, or is invisible.
THEOREM SampleImplementsWindow == Spec => Promise!Spec
<1> USE CoordinatorIsNoThread
<1>1. Init => Promise!Init
  BY DEF Init, SampleInit, Promise!Init, Window, WorkOf, Party
<1>2. TypeOK /\ TypeOK' /\ SampleInv /\ SampleInv' /\ [Next]_vars
      => [Promise!Next]_(Promise!wvars)
  <2> SUFFICES ASSUME TypeOK, TypeOK', SampleInv, SampleInv', [Next]_vars
               PROVE  [Promise!Next]_(Promise!wvars)
    OBVIOUS
  <2> USE DEF TypeOK, SampleInv, Promise!Next, Promise!wvars, WorkOf, Window
  <2> DEFINE Hidden == /\ Window' = Window
                       /\ \A t \in Threads : WorkOf(t)' = WorkOf(t)
  <2>1. ASSUME NEW p \in Party, NEW b \in Barriers, Arrive(p, b)
        PROVE  Hidden
    BY <2>1 DEF Arrive
  <2>2. ASSUME NEW p \in Party, NEW b \in Barriers, Pass(p, b)
        PROVE  Hidden
    BY <2>2 DEF Pass, Goto, AfterBarrier, Barriers
  <2>3. ASSUME NEW t \in Threads, Spawn(t)
        PROVE  Hidden
    BY <2>3 DEF Spawn
  <2>4. ASSUME NEW t \in Threads,
               Join(t) \/ Prepare(t) \/ Activate(t) \/ Work(t) \/ Collect(t)
        PROVE  Hidden
    BY <2>4 DEF Join, Prepare, Activate, Work, Collect, Goto
  <2>5. CASE BackendBegin \/ BackendEnd \/ LeaveScope \/ Tick \/ UNCHANGED vars
    <3> Hidden
      BY <2>5 DEF BackendBegin, BackendEnd, LeaveScope, Tick, vars, Goto
    <3> QED
      OBVIOUS
  <2>6. CASE SetStart
    BY <2>6 DEF SetStart, Goto, CoordinatorInv, BeforeStart, Promise!Open
  <2>7. CASE SpawnPanics \/ BackendBeginPanics
    BY <2>7 DEF SpawnPanics, BackendBeginPanics, Goto, CoordinatorInv,
                BeforeStart, Promise!Cancel
  <2>8. ASSUME NEW t \in Threads, JoinPanics(t)
        PROVE  Promise!Abandon
    BY <2>8 DEF JoinPanics, Goto, CoordinatorInv, Promise!Abandon
  <2>9. CASE TakeWallDuration
    BY <2>9 DEF TakeWallDuration, Goto, CoordinatorInv, JoinInv, Threads,
                Promise!Close
  <2>10. ASSUME NEW t \in Threads, ReadStart(t)
         PROVE  Promise!StartWork(t)
    <3>1. pc[t] = "read_start" /\ t # Coordinator
      BY <2>10 DEF ReadStart
    <3>2. startSet
      BY <3>1 DEF WorkerInv, CoordinatorInv, Released
    <3>3. pc[Coordinator] \notin {"end", "done"}
      BY <3>1, SampleAssumption DEF JoinInv, Threads
    <3>4. pc' = [pc EXCEPT ![t] = "run"] /\ UNCHANGED startSet
      BY <2>10, <3>2 DEF ReadStart, Goto
    <3>5. Window \in {"open", "abandoned"} /\ Window' = Window
      BY <3>1, <3>2, <3>3, <3>4
    <3> QED
      BY <3>1, <3>4, <3>5 DEF Promise!StartWork
  <2>11. ASSUME NEW t \in Threads, StopRun(t) \/ RunPanics(t)
         PROVE  Promise!StopWork(t)
    <3>1. pc[t] = "run" /\ t # Coordinator /\ UNCHANGED startSet
      BY <2>11 DEF StopRun, RunPanics
    <3>2. \E where \in {"collect", "panicked"} : pc' = [pc EXCEPT ![t] = where]
      BY <2>11 DEF StopRun, RunPanics, Goto
    <3>3. Window' = Window
      BY <3>1, <3>2
    <3> QED
      BY <3>1, <3>2, <3>3 DEF Promise!StopWork
  <2> DEFINE Step == [Promise!Next]_(Promise!wvars)
  <2>12. Hidden => Step
    OBVIOUS
  <2>13. CASE CoordinatorStep
    <3>1. CASE Synchronise(Coordinator)
      BY <2>1, <2>2, <2>12, <3>1 DEF Synchronise
    <3>2. ASSUME NEW t \in Threads, Spawn(t) \/ Join(t) \/ JoinPanics(t)
          PROVE  Step
      BY <2>3, <2>4, <2>8, <2>12, <3>2
    <3> QED
      BY <2>5, <2>6, <2>7, <2>9, <2>13, <3>1, <3>2 DEF CoordinatorStep
  <2>14. ASSUME NEW t \in Threads, WorkerStep(t)
         PROVE  Step
    <3>1. CASE Synchronise(t)
      BY <2>1, <2>2, <2>12, <3>1 DEF Synchronise
    <3> QED
      BY <2>4, <2>10, <2>11, <2>12, <2>14, <3>1 DEF WorkerStep
  <2> QED
    BY <2>5, <2>13, <2>14 DEF Next, SampleStep, Terminating
<1> QED
  BY <1>1, <1>2, TypeCorrect, ProtocolCorrect, PTL DEF Spec, Promise!Spec

-------------------------------------------------------------------------------
(* The hang. *)

\* No step ends a stranded sample: the workers wait at the start barrier for
\* the coordinator, and the coordinator in thread::scope for the workers.
LEMMA StrandedStays == TypeOK /\ SampleInv /\ Stranded /\ [Next]_vars => Stranded'
<1> SUFFICES ASSUME TypeOK, SampleInv, Stranded, [Next]_vars PROVE Stranded'
  OBVIOUS
<1> USE CoordinatorIsNoThread
<1>1. /\ pc[Coordinator] = "unwind" /\ Coordinator \notin arrived["start"]
      /\ pc \in [Party -> CoordinatorLocations \cup WorkerLocations]
      /\ arrived \in [Barriers -> SUBSET Party]
      /\ Coordinator \in Party
  BY DEF Stranded, TypeOK, Party
<1>2. PICK w \in Threads : pc[w] # "unspawned"
  BY DEF Stranded
<1>3. \A t \in Threads : pc[t] \notin Released
  BY <1>1 DEF SampleInv, WorkerInv
<1>4. SUFFICES /\ pc'[Coordinator] = "unwind" /\ Coordinator \notin arrived'["start"]
               /\ pc'[w] # "unspawned"
  BY DEF Stranded
<1>5. CASE CoordinatorStep
  <2>1. ~Synchronise(Coordinator)
    BY <1>1 DEF Synchronise, Arrive, Pass, Barriers
  <2>2. ~LeaveScope
    BY <1>2, <1>3 DEF LeaveScope, Released
  <2> QED
    BY <1>1, <1>5, <2>1, <2>2
    DEF CoordinatorStep, Spawn, Join, JoinPanics, SpawnPanics, BackendBegin,
        BackendBeginPanics, SetStart, TakeWallDuration, BackendEnd
<1>6. ASSUME NEW t \in Threads, WorkerStep(t)
      PROVE  /\ pc'[Coordinator] = "unwind" /\ Coordinator \notin arrived'["start"]
             /\ pc'[w] # "unspawned"
  <2>1. t # Coordinator
    OBVIOUS
  <2>2. CASE \E b \in Barriers : Arrive(t, b)
    BY <1>1, <1>2, <2>1, <2>2 DEF Arrive, Barriers
  <2>3. CASE \E b \in Barriers : Pass(t, b)
    BY <1>1, <1>2, <2>1, <2>3 DEF Pass, Goto, AfterBarrier, Barriers
  <2>4. CASE \/ Prepare(t) \/ Activate(t) \/ ReadStart(t)
             \/ Work(t) \/ StopRun(t) \/ RunPanics(t) \/ Collect(t)
    <3>1. UNCHANGED arrived /\ \/ UNCHANGED pc
                               \/ \E where \in WorkerLocations \ {"unspawned"} :
                                     pc' = [pc EXCEPT ![t] = where]
      BY <2>4 DEF Prepare, Activate, ReadStart, Work, StopRun, RunPanics, Collect, Goto,
                  WorkerLocations
    <3> QED
      BY <1>1, <1>2, <2>1, <3>1
  <2> QED
    BY <1>6, <2>2, <2>3, <2>4 DEF WorkerStep, Synchronise
<1> QED
  BY <1>1, <1>2, <1>5, <1>6 DEF Next, SampleStep, Tick, Terminating, vars

\* A panic of the coordinator before the start barrier hangs the sample for
\* ever: thread::scope never returns.
THEOREM HangIsPermanent == Spec => StrandedForever
<1>1. TypeOK /\ SampleInv /\ Stranded /\ [Next]_vars => Stranded'
  BY StrandedStays
<1>2. Stranded => ~SampleOver
  BY DEF Stranded, SampleOver
<1> QED
  BY <1>1, <1>2, TypeCorrect, ProtocolCorrect, PTL DEF Spec, StrandedForever

-------------------------------------------------------------------------------
(* Sums over finite sets, for any function to the naturals. *)

\* What MapThenSumSet takes apart: a set without the element it chooses.
Picked(s) == CHOOSE x \in s : TRUE
Folds(g, f, S) ==
    g = [s \in SUBSET S |-> IF s = {} THEN 0 ELSE f[Picked(s)] + g[s \ {Picked(s)}]]

\* Among sets of subsets of a finite set there are minimal ones.
LEMMA MinimalSubset ==
    ASSUME NEW S, IsFiniteSet(S), NEW B, B \subseteq SUBSET S, B # {}
    PROVE  \E s \in B : \A t \in B : t \subseteq s => t = s
<1>1. B \subseteq FiniteSubsetsOf(S)
  BY FS_Subset DEF FiniteSubsetsOf
<1>2. \E s \in B : \A t \in B : ~(<<t, s>> \in StrictSubsetOrdering(S))
  BY <1>1, FS_StrictSubsetOrderingWellFounded, WFMin
<1>3. \A s, t \in B : t \subseteq s /\ t # s => <<t, s>> \in StrictSubsetOrdering(S)
  BY DEF StrictSubsetOrdering
<1> QED
  BY <1>2, <1>3

\* Two folds agree on a set on which their functions do.
LEMMA FoldsAgree ==
    ASSUME NEW S, NEW T, NEW f, NEW e, NEW g, NEW h, Folds(g, f, S), Folds(h, e, T),
           NEW s, s \subseteq S, s \subseteq T, IsFiniteSet(s), \A x \in s : f[x] = e[x]
    PROVE  g[s] = h[s]
<1> DEFINE Differ == {t \in SUBSET s : g[t] # h[t]}
<1>1. SUFFICES ASSUME Differ # {} PROVE FALSE
  OBVIOUS
<1>2. PICK t \in Differ : \A u \in Differ : u \subseteq t => u = t
  <2>1. Differ \subseteq SUBSET s
    OBVIOUS
  <2> HIDE DEF Differ
  <2> QED
    BY <1>1, <2>1, MinimalSubset
<1>3. t # {}
  BY <1>2 DEF Folds
<1> DEFINE c == Picked(t)
<1>4. c \in t
  BY <1>3 DEF Picked
<1>5. t \ {c} \subseteq s /\ g[t \ {c}] = h[t \ {c}]
  BY <1>2, <1>4
<1> HIDE DEF c
<1>6. g[t] = f[c] + g[t \ {c}] /\ h[t] = e[c] + h[t \ {c}]
  BY <1>2, <1>3 DEF Folds, c
<1> QED
  BY <1>2, <1>4, <1>5, <1>6

\* Every finite set has a fold.
LEMMA FoldExists ==
    ASSUME NEW S, IsFiniteSet(S), NEW f
    PROVE  \E g : Folds(g, f, S)
<1> DEFINE Lacking == {s \in SUBSET S : ~\E g : Folds(g, f, s)}
<1>1. SUFFICES ASSUME Lacking # {} PROVE FALSE
  OBVIOUS
<1>2. PICK s \in Lacking : \A t \in Lacking : t \subseteq s => t = s
  <2>1. Lacking \subseteq SUBSET S
    OBVIOUS
  <2> HIDE DEF Lacking
  <2> QED
    BY <1>1, <2>1, MinimalSubset
<1>3. \A t \in SUBSET s : IsFiniteSet(t)
  BY <1>2, FS_Subset
<1> DEFINE Of(t) == CHOOSE g : Folds(g, f, t)
           G == [t \in SUBSET s |-> IF t = {} THEN 0
                                    ELSE f[Picked(t)] + Of(t \ {Picked(t)})[t \ {Picked(t)}]]
<1>4. \A t \in SUBSET s : t # s => Folds(Of(t), f, t)
  BY <1>2
<1>5. \A t \in SUBSET s : t # s => G[t] = Of(t)[t]
  <2> SUFFICES ASSUME NEW t \in SUBSET s, t # s PROVE G[t] = Of(t)[t]
    OBVIOUS
  <2> DEFINE c == Picked(t)
             r == t \ {c}
  <2>1. Folds(Of(t), f, t)
    BY <1>4
  <2>2. CASE t = {}
    BY <2>1, <2>2 DEF Folds
  <2>3. CASE t # {}
    <3>1. c \in t /\ r \in SUBSET s /\ r # s /\ r \subseteq t
      BY <2>3 DEF Picked
    <3>2. Folds(Of(r), f, r) /\ IsFiniteSet(r)
      BY <1>3, <1>4, <3>1
    <3>3. Of(t)[t] = f[c] + Of(t)[r]
      BY <2>1, <2>3 DEF Folds
    <3>4. G[t] = f[c] + Of(r)[r]
      BY <2>3
    <3> HIDE DEF r, c, Of, G
    <3>5. Of(t)[r] = Of(r)[r]
      BY <2>1, <3>1, <3>2, FoldsAgree
    <3> QED
      BY <3>3, <3>4, <3>5
  <2> QED
    BY <2>2, <2>3
<1>6. Folds(G, f, s)
  <2>1. \A t \in SUBSET s : t # {} =>
           t \ {Picked(t)} \in SUBSET s /\ t \ {Picked(t)} # s
    BY DEF Picked
  <2>2. \A t \in SUBSET s :
           G[t] = IF t = {} THEN 0 ELSE f[Picked(t)] + G[t \ {Picked(t)}]
    <3> SUFFICES ASSUME NEW t \in SUBSET s
                 PROVE  G[t] = IF t = {} THEN 0 ELSE f[Picked(t)] + G[t \ {Picked(t)}]
      OBVIOUS
    <3>1. t # {} => G[t \ {Picked(t)}] = Of(t \ {Picked(t)})[t \ {Picked(t)}]
      <4> HIDE DEF G, Of
      <4> QED
        BY <1>5, <2>1
    <3>2. G[t] = IF t = {} THEN 0 ELSE f[Picked(t)] + Of(t \ {Picked(t)})[t \ {Picked(t)}]
      OBVIOUS
    <3> HIDE DEF G, Of
    <3> QED
      BY <3>1, <3>2
  <2>3. G = [t \in SUBSET s |-> G[t]]
    OBVIOUS
  <2> HIDE DEF G
  <2> QED
    BY <2>2, <2>3 DEF Folds
<1> HIDE DEF G
<1> QED
  BY <1>2, <1>6

\* A sum is the value of a fold.
LEMMA SumIsFold ==
    ASSUME NEW S, IsFiniteSet(S), NEW f
    PROVE  \E g : Folds(g, f, S) /\ SumOver(f, S) = g[S]
<1> DEFINE iter == CHOOSE g : Folds(g, f, S)
<1>1. Folds(iter, f, S)
  BY FoldExists
<1>2. SumOver(f, S) = iter[S]
  BY DEF SumOver, MapThenSumSet, MapThenFoldSet, Folds, Picked
<1> QED
  BY <1>1, <1>2
\* Nothing adds up to zero.
LEMMA SumEmpty == ASSUME NEW f PROVE SumOver(f, {}) = 0
  BY SumIsFold, FS_EmptySet DEF Folds

\* The chosen element may be taken out of a sum.
LEMMA SumOfPicked ==
    ASSUME NEW S, IsFiniteSet(S), S # {}, NEW f
    PROVE  /\ Picked(S) \in S
           /\ SumOver(f, S) = f[Picked(S)] + SumOver(f, S \ {Picked(S)})
<1> DEFINE c == Picked(S)
           r == S \ {c}
<1>1. c \in S
  BY DEF Picked
<1>2. IsFiniteSet(r)
  BY FS_Subset
<1>3. PICK g : Folds(g, f, S) /\ SumOver(f, S) = g[S]
  BY SumIsFold
<1> HIDE DEF r
<1>4. PICK h : Folds(h, f, r) /\ SumOver(f, r) = h[r]
  BY <1>2, SumIsFold
<1>5. g[r] = h[r]
  BY <1>2, <1>3, <1>4, FoldsAgree DEF r
<1>6. g[S] = f[c] + g[r]
  BY <1>3 DEF Folds, r
<1> QED
  BY <1>1, <1>3, <1>4, <1>5, <1>6 DEF r

\* A sum of naturals is one.
LEMMA SumType ==
    ASSUME NEW S, IsFiniteSet(S), NEW f, \A x \in S : f[x] \in Nat
    PROVE  SumOver(f, S) \in Nat
<1> DEFINE Odd == {s \in SUBSET S : SumOver(f, s) \notin Nat}
<1>1. SUFFICES ASSUME Odd # {} PROVE FALSE
  OBVIOUS
<1>2. PICK s \in Odd : \A t \in Odd : t \subseteq s => t = s
  <2>1. Odd \subseteq SUBSET S
    OBVIOUS
  <2> HIDE DEF Odd
  <2> QED
    BY <1>1, <2>1, MinimalSubset
<1>3. IsFiniteSet(s)
  BY <1>2, FS_Subset
<1>4. s # {}
  <2>1. SumOver(f, {}) \in Nat
    BY SumEmpty
  <2>2. SumOver(f, s) \notin Nat
    OBVIOUS
  <2>3. ASSUME NEW t, t = {}, SumOver(f, {}) \in Nat PROVE SumOver(f, t) \in Nat
    BY <2>3
  <2> QED
    BY <2>1, <2>2, <2>3
<1>5. /\ Picked(s) \in s
      /\ SumOver(f, s) = f[Picked(s)] + SumOver(f, s \ {Picked(s)})
  BY <1>3, <1>4, SumOfPicked
<1>6. SumOver(f, s \ {Picked(s)}) \in Nat
  BY <1>2, <1>5
<1> QED
  BY <1>2, <1>5, <1>6

\* Any element may be taken out of a sum.
LEMMA SumOfAny ==
    ASSUME NEW S, IsFiniteSet(S), NEW f, \A x \in S : f[x] \in Nat, NEW x \in S
    PROVE  SumOver(f, S) = f[x] + SumOver(f, S \ {x})
<1> DEFINE Odd == {s \in SUBSET S : \E y \in s : SumOver(f, s) # f[y] + SumOver(f, s \ {y})}
<1>1. SUFFICES ASSUME Odd # {} PROVE FALSE
  OBVIOUS
<1>2. PICK s \in Odd : \A t \in Odd : t \subseteq s => t = s
  <2>1. Odd \subseteq SUBSET S
    OBVIOUS
  <2> HIDE DEF Odd
  <2> QED
    BY <1>1, <2>1, MinimalSubset
<1>3. PICK y \in s : SumOver(f, s) # f[y] + SumOver(f, s \ {y})
  BY <1>2
<1> DEFINE c == Picked(s)
<1>4. c \in s /\ SumOver(f, s) = f[c] + SumOver(f, s \ {c})
  BY <1>2, <1>3, FS_Subset, SumOfPicked
<1>5. y # c
  BY <1>3, <1>4
<1> HIDE DEF c
<1>6. /\ SumOver(f, s \ {c}) = f[y] + SumOver(f, (s \ {c}) \ {y})
      /\ SumOver(f, s \ {y}) = f[c] + SumOver(f, (s \ {y}) \ {c})
  BY <1>2, <1>4, <1>5
<1>7. (s \ {c}) \ {y} = (s \ {y}) \ {c}
  OBVIOUS
<1>8. f[c] \in Nat /\ f[y] \in Nat /\ SumOver(f, (s \ {c}) \ {y}) \in Nat
  <2>1. IsFiniteSet((s \ {c}) \ {y}) /\ \A z \in (s \ {c}) \ {y} : f[z] \in Nat
    BY <1>2, FS_Subset
  <2> QED
    BY <1>2, <1>4, <2>1, SumType
<1> QED
  BY <1>3, <1>4, <1>6, <1>7, <1>8

\* Sums of functions that agree are equal.
LEMMA SumsAgree ==
    ASSUME NEW S, IsFiniteSet(S), NEW f, NEW e, \A x \in S : f[x] = e[x]
    PROVE  SumOver(f, S) = SumOver(e, S)
<1>1. PICK g : Folds(g, f, S) /\ SumOver(f, S) = g[S]
  BY SumIsFold
<1>2. PICK h : Folds(h, e, S) /\ SumOver(e, S) = h[S]
  BY SumIsFold
<1> QED
  BY <1>1, <1>2, FoldsAgree

-------------------------------------------------------------------------------
(* The merged results. *)

\* Joining one more worker adds its operations to the sum of those joined.
LEMMA SumUpTo ==
    ASSUME NEW f \in [Threads -> Nat], NEW t \in Threads, NEW P,
           t \in P, P \subseteq 1..t
    PROVE  SumOver(f, P) = SumOver(f, P \ {t}) + f[t]
<1>1. IsFiniteSet(P) /\ IsFiniteSet(P \ {t}) /\ P \subseteq Threads
  <2>1. 1..t \subseteq Threads /\ t \in Int
    BY SampleAssumption DEF Threads
  <2>2. IsFiniteSet(1..t)
    BY <2>1, FS_Interval
  <2> QED
    BY <2>1, <2>2, FS_Subset
<1>2. SumOver(f, P) = f[t] + SumOver(f, P \ {t})
  BY <1>1, SumOfAny
<1>3. SumOver(f, P \ {t}) \in Nat
  BY <1>1, SumType
<1> QED
  BY <1>2, <1>3, SampleAssumption DEF Threads

\* A step keeps the aggregate the sum of the results of the threads joined so
\* far, and every role's part of it the sum over those of that role.
LEMMA StepKeepsMerged ==
    TypeOK /\ SampleInv /\ MergedExactlyOnce /\ [Next]_vars => MergedExactlyOnce'
<1> SUFFICES ASSUME TypeOK, SampleInv, MergedExactlyOnce, [Next]_vars
             PROVE  MergedExactlyOnce'
  OBVIOUS
<1> USE SampleAssumption, CoordinatorIsNoThread
<1> DEFINE Of(r, n) == {t \in 1..n : RoleOf[t] = r}
<1>1. /\ result.total = SumOver(ops, 1..joined)
      /\ \A r \in Roles : result.byRole[r] = SumOver(ops, Of(r, joined))
  BY DEF MergedExactlyOnce
<1>2. SUFFICES /\ result'.total = SumOver(ops', 1..joined')
               /\ \A r \in Roles : result'.byRole[r] = SumOver(ops', Of(r, joined'))
  BY DEF MergedExactlyOnce
<1> HIDE DEF MergedExactlyOnce
<1>3. /\ joined \in Nat /\ 1..joined \subseteq Threads /\ IsFiniteSet(1..joined)
      /\ ops \in [Threads -> Nat] /\ result \in SampleResult
  <2>1. joined \in 0..NumThreads /\ ops \in [Threads -> 0..MaxOps] /\ result \in SampleResult
    BY DEF TypeOK
  <2>2. joined \in Nat /\ 1..joined \subseteq Threads
    BY <2>1 DEF Threads
  <2>3. ops \in [Threads -> Nat]
    BY <2>1
  <2> QED
    BY <2>1, <2>2, <2>3, FS_Interval
<1>4. CASE UNCHANGED <<result, ops, joined>>
  BY <1>1, <1>4
<1>5. ASSUME NEW t \in Threads, Join(t)
      PROVE  /\ result'.total = SumOver(ops', 1..joined')
             /\ \A r \in Roles : result'.byRole[r] = SumOver(ops', Of(r, joined'))
  <2>1. /\ t = joined + 1 /\ joined' = t /\ ops' = ops
        /\ result' = [result EXCEPT !.total = @ + ops[t], !.byRole[RoleOf[t]] = @ + ops[t]]
    BY <1>5 DEF Join
  <2>2. /\ result'.total = result.total + ops[t]
        /\ \A r \in Roles : result'.byRole[r] = IF r = RoleOf[t] THEN result.byRole[r] + ops[t]
                                                               ELSE result.byRole[r]
    BY <1>3, <2>1 DEF SampleResult
  <2>3. /\ t \in 1..t /\ (1..t) \ {t} = 1..joined
    BY <1>3, <2>1
  <2>4. SumOver(ops, 1..t) = SumOver(ops, 1..joined) + ops[t]
    BY <1>3, <2>3, SumUpTo
  <2>5. ASSUME NEW r \in Roles PROVE result'.byRole[r] = SumOver(ops', Of(r, joined'))
    <3>1. CASE r = RoleOf[t]
      <4>1. t \in Of(r, t) /\ Of(r, t) \subseteq 1..t /\ Of(r, t) \ {t} = Of(r, joined)
        BY <1>3, <2>1, <2>3, <3>1
      <4> HIDE DEF Of
      <4>2. SumOver(ops, Of(r, t)) = SumOver(ops, Of(r, joined)) + ops[t]
        BY <1>3, <4>1, SumUpTo
      <4> QED
        BY <1>1, <2>1, <2>2, <3>1, <4>2
    <3>2. CASE r # RoleOf[t]
      <4>1. Of(r, t) = Of(r, joined)
        BY <2>3, <3>2
      <4> QED
        BY <1>1, <2>1, <2>2, <3>2, <4>1
    <3> QED
      BY <3>1, <3>2
  <2> QED
    BY <1>1, <2>1, <2>2, <2>4, <2>5
<1>6. ASSUME NEW t \in Threads, Work(t)
      PROVE  /\ result'.total = SumOver(ops', 1..joined')
             /\ \A r \in Roles : result'.byRole[r] = SumOver(ops', Of(r, joined'))
  <2>1. /\ pc[t] = "run" /\ UNCHANGED <<result, joined>>
        /\ \A u \in Threads \ {t} : ops'[u] = ops[u]
    BY <1>3, <1>6 DEF Work
  <2>2. \A u \in 1..joined : ops'[u] = ops[u]
    BY <1>3, <2>1 DEF SampleInv, JoinInv
  <2>3. ASSUME NEW P, P \subseteq 1..joined PROVE SumOver(ops', P) = SumOver(ops, P)
    BY <1>3, <2>2, <2>3, FS_Subset, SumsAgree
  <2>4. \A r \in Roles : Of(r, joined) \subseteq 1..joined
    OBVIOUS
  <2> HIDE DEF Of
  <2> QED
    BY <1>1, <2>1, <2>3, <2>4
<1>7. ASSUME TakeWallDuration
      PROVE  /\ result'.total = SumOver(ops', 1..joined')
             /\ \A r \in Roles : result'.byRole[r] = SumOver(ops', Of(r, joined'))
  <2>1. /\ UNCHANGED <<ops, joined>>
        /\ result'.total = result.total /\ result'.byRole = result.byRole
    BY <1>3, <1>7 DEF TakeWallDuration, SampleResult
  <2> QED
    BY <1>1, <2>1
<1>8. CASE CoordinatorStep
  <2>1. \/ UNCHANGED <<result, ops, joined>> \/ TakeWallDuration
        \/ \E t \in Threads : Join(t)
    BY <1>8 DEF CoordinatorStep, Synchronise, Arrive, Pass, Spawn, JoinPanics, SpawnPanics,
                BackendBegin, BackendBeginPanics, SetStart, BackendEnd, LeaveScope
  <2> QED
    BY <1>4, <1>5, <1>7, <2>1
<1>9. CASE \E t \in Threads : WorkerStep(t)
  <2>1. UNCHANGED <<result, ops, joined>> \/ \E t \in Threads : Work(t)
    BY <1>9 DEF WorkerStep, Synchronise, Arrive, Pass, Prepare, Activate, ReadStart, StopRun,
                RunPanics, Collect
  <2> QED
    BY <1>4, <1>6, <2>1
<1> QED
  BY <1>4, <1>8, <1>9 DEF Next, SampleStep, Tick, Terminating, vars

\* The reported throughput counts every operation of every worker once, in the
\* aggregate and in the part of its role, for any number of threads.
THEOREM ResultsAreMerged == Spec => []MergedExactlyOnce
<1>1. Init => MergedExactlyOnce
  <2> SUFFICES ASSUME NEW ph \in Phases, SampleInit(ph) PROVE MergedExactlyOnce
    BY DEF Init
  <2>1. joined = 0 /\ 1..joined = {} /\ result = Zero
    BY DEF SampleInit
  <2>2. SumOver(ops, {}) = 0
    BY SumEmpty
  <2>3. \A r : {t \in 1..joined : RoleOf[t] = r} = {}
    BY <2>1
  <2> QED
    BY <2>1, <2>2, <2>3 DEF MergedExactlyOnce, Zero
<1>2. TypeOK /\ SampleInv /\ MergedExactlyOnce /\ [Next]_vars => MergedExactlyOnce'
  BY StepKeepsMerged
<1> QED
  BY <1>1, <1>2, TypeCorrect, ProtocolCorrect, PTL DEF Spec

-------------------------------------------------------------------------------
(* A case of many samples *)

-------------------------------------------------------------------------------
(* The inductive invariant.  CaseInv is its conjunction. *)

\* The types of what CaseTypeOK gives only the length of.
CaseTypes ==
    /\ CaseTypeOK
    /\ allResults \in Seq([iterations : Nat, duration : Nat])
    /\ allMetrics \in Seq([phase : Phases, index : Nat])

\* While a sample runs, it keeps its own invariants.  A sample that is done
\* has left no window open.
RunningInv ==
    stage = "sample" =>
        /\ SampleInv /\ DeadlineInv
        /\ pc[Coordinator] = "done" => backend # "begun"

\* Between samples no worker is alive, and the backend waits for a window or
\* for the collection of the last one.
BetweenInv ==
    /\ stage \in {"before", "collect", "after", "warm_up", "measure", "reported"} =>
          \A t \in Threads : pc[t] \in {"unspawned", "finished"}
    /\ stage \in {"before", "after", "warm_up", "measure"} => backend = "idle"
    /\ stage = "collect" => backend # "begun" /\ (~BackendPresent => backend = "idle")

\* Where the case stands in its phases; the observer was told of this sample.
PhaseInv ==
    /\ stage = "warm_up" => phase = "warm_up"
    /\ stage \in {"measure", "collect", "reported"} => phase = "measurement"
    /\ stage \in {"sample", "collect", "after", "aborted"} => lifecycle = SampleInfo

\* The sample at hand is counted by its phase, and its place in the results.
IndexInv ==
    /\ phase = "warm_up" => index <= MaxWarmUps /\ allMetrics = <<>>
    /\ phase = "measurement" => index = Len(allMetrics) /\ index <= TargetSamples
    /\ stage \in {"before", "sample", "collect", "after"} =>
          index < IF phase = "warm_up" THEN MaxWarmUps ELSE TargetSamples

\* The sample that was just measured has a duration.
ReportInv == stage \in {"collect", "after"} => report.duration > 0

\* The session holds the finished case, or nothing.
SessionInv ==
    /\ stage # "reported" => session = <<>>
    /\ stage = "reported" =>
          session = <<[samples |-> allResults, metrics |-> allMetrics]>>
          /\ Len(allResults) = TargetSamples

CaseInv ==
    /\ CaseTypes /\ RunningInv /\ BetweenInv /\ PhaseInv /\ IndexInv /\ ReportInv
    /\ SessionInv /\ SamplesLineUp /\ PersistedDurationsPositive

-------------------------------------------------------------------------------
(* What a sample does to the case around it. *)

\* The phase of a sample is fixed, and only its first and last steps on the
\* backend move the window.
LEMMA SampleMovesWindow ==
    ASSUME TypeOK, SampleStep
    PROVE  /\ phase' = phase
           /\ \/ /\ backend' = backend
                 /\ pc'[Coordinator] = "done" => pc[Coordinator] = "done"
              \/ pc[Coordinator] = "begin" /\ pc'[Coordinator] = "set_start"
              \/ /\ pc[Coordinator] = "end"
                 /\ backend' = IF BackendPresent THEN "ended" ELSE backend
<1> USE CoordinatorIsNoThread DEF TypeOK
<1> DEFINE Moves ==
       /\ phase' = phase
       /\ \/ /\ backend' = backend
             /\ pc'[Coordinator] = "done" => pc[Coordinator] = "done"
          \/ pc[Coordinator] = "begin" /\ pc'[Coordinator] = "set_start"
          \/ /\ pc[Coordinator] = "end"
             /\ backend' = IF BackendPresent THEN "ended" ELSE backend
<1>1. ASSUME NEW p \in Party, Synchronise(p) PROVE Moves
  <2>1. ASSUME NEW b \in Barriers, Arrive(p, b) PROVE Moves
    BY <2>1 DEF Arrive
  <2>2. ASSUME NEW b \in Barriers, Pass(p, b) PROVE Moves
    <3>1. p = Coordinator => AfterBarrier(p, b) # "done"
      BY DEF AfterBarrier, Barriers
    <3> QED
      BY <2>2, <3>1 DEF Pass, Goto
  <2> QED
    BY <1>1, <2>1, <2>2 DEF Synchronise
<1>2. ASSUME NEW t \in Threads, Spawn(t) \/ Join(t) \/ JoinPanics(t) PROVE Moves
  BY <1>2 DEF Spawn, Join, JoinPanics, Goto
<1>3. CASE SpawnPanics \/ BackendBeginPanics \/ SetStart \/ TakeWallDuration \/ LeaveScope
  BY <1>3 DEF SpawnPanics, BackendBeginPanics, SetStart, TakeWallDuration, LeaveScope, Goto
<1>4. CASE BackendBegin \/ BackendEnd
  BY <1>4 DEF BackendBegin, BackendEnd, Goto
<1>5. ASSUME NEW t \in Threads,
             \/ Prepare(t) \/ Activate(t) \/ ReadStart(t)
             \/ Work(t) \/ StopRun(t) \/ RunPanics(t) \/ Collect(t)
      PROVE  Moves
  BY <1>5 DEF Prepare, Activate, ReadStart, Work, StopRun, RunPanics, Collect, Goto
<1>6. CASE Tick
  BY <1>6 DEF Tick
<1> QED
  BY <1>1, <1>2, <1>3, <1>4, <1>5, <1>6 DEF SampleStep, CoordinatorStep, WorkerStep

\* A fresh sample, whose backend is idle, starts with the sample's invariants.
LEMMA FreshSampleIsSound ==
    ASSUME TypeOK, FreshSample
    PROVE  /\ TypeOK' /\ DeadlineInv'
           /\ backend = "idle" => SampleInv'
           /\ pc'[Coordinator] = "spawn"
<1> USE SampleAssumption, CoordinatorIsNoThread DEF FreshSample
<1>1. result' \in SampleResult
  BY DEF SampleResult, Zero
<1>2. /\ pc'[Coordinator] = "spawn"
      /\ \A t \in Threads : pc'[t] = "unspawned"
      /\ pc' \in [Party -> CoordinatorLocations \cup WorkerLocations]
  BY DEF CoordinatorLocations, WorkerLocations
<1>3. TypeOK'
  <2>1. pc'[Coordinator] \in CoordinatorLocations /\ \A t \in Threads : pc'[t] \in WorkerLocations
    BY <1>2 DEF CoordinatorLocations, WorkerLocations
  <2>2. arrived' \in [Barriers -> SUBSET Party]
    OBVIOUS
  <2>3. /\ counters' \in [Threads -> {"none", "prepared", "active", "stopped"}]
        /\ ops' \in [Threads -> 0..MaxOps]
    OBVIOUS
  <2>4. elapsed' = 0 /\ joined' = 0
    OBVIOUS
  <2>5. phase' = phase /\ backend' = backend /\ startSet' \in BOOLEAN
    OBVIOUS
  <2> HIDE DEF FreshSample
  <2>6. elapsed' \in 0..MaxElapsed /\ joined' \in 0..NumThreads
    BY <2>4
  <2> QED
    BY <1>1, <1>2, <2>1, <2>2, <2>3, <2>5, <2>6 DEF TypeOK
<1>4. DeadlineInv'
  BY <1>2 DEF DeadlineInv, WallCoversDeadline
<1>5. backend = "idle" => SampleInv'
  BY <1>2 DEF SampleInv, WorkerInv, CoordinatorInv, JoinInv, Released, Measured,
              AfterMeasured, BeforeStart, Barriers, Threads
<1> QED
  BY <1>2, <1>3, <1>4, <1>5

-------------------------------------------------------------------------------
\* A case starts between samples, with nothing recorded.
LEMMA CaseInitIsCaseInv == CaseInit => CaseInv
<1> SUFFICES ASSUME CaseInit PROVE CaseInv
  OBVIOUS
<1> USE DEF CaseInit
<1>1. TypeOK
  <2>1. Init
    BY DEF Init, Phases
  <2> QED
    BY <2>1, InitIsTyped
<1>2. CaseTypes
  <2>1. /\ report \in [iterations : Nat, duration : Nat]
        /\ lifecycle = NoSample /\ index \in 0..(MaxWarmUps + TargetSamples)
    BY CaseAssumption DEF NoReport
  <2>2. /\ allResults \in Seq([iterations : Nat, duration : Nat])
        /\ allMetrics \in Seq([phase : Phases, index : Nat])
        /\ Len(allResults) \in 0..TargetSamples /\ Len(session) \in 0..1
    BY CaseAssumption
  <2> QED
    BY <1>1, <2>1, <2>2 DEF CaseTypes, CaseTypeOK
<1>3. RunningInv /\ PhaseInv /\ IndexInv /\ ReportInv /\ SessionInv
  BY CaseAssumption
  DEF RunningInv, PhaseInv, IndexInv, ReportInv, SessionInv, SampleInit
<1>4. BetweenInv
  BY CoordinatorIsNoThread DEF BetweenInv, SampleInit
<1>5. SamplesLineUp /\ PersistedDurationsPositive
  BY DEF SamplesLineUp, PersistedDurationsPositive
<1> QED
  BY <1>2, <1>3, <1>4, <1>5 DEF CaseInv

\* A step of the running sample.
LEMMA RunSampleKeepsInv == CaseInv /\ RunSample => CaseInv'
<1> SUFFICES ASSUME CaseInv, RunSample PROVE CaseInv'
  OBVIOUS
<1>1. /\ stage = "sample" /\ stage' = "sample" /\ SampleStep /\ TypeOK
      /\ SampleInv /\ DeadlineInv
      /\ pc[Coordinator] = "done" => backend # "begun"
      /\ UNCHANGED <<index, lifecycle, report, allResults, allMetrics, session>>
  BY DEF CaseInv, CaseTypes, CaseTypeOK, RunningInv, RunSample, caseVars
<1>2. [Next]_vars
  BY <1>1 DEF Next
<1>3. TypeOK' /\ SampleInv' /\ DeadlineInv'
  BY <1>1, <1>2, StepKeepsTypes, StepKeepsInv, StepKeepsDeadline
<1>4. phase' = phase
  BY <1>1, SampleMovesWindow
<1>5. pc'[Coordinator] = "done" => backend' # "begun"
  BY <1>1, <1>3, SampleMovesWindow DEF SampleInv, CoordinatorInv, BackendPresent
<1>6. CaseTypes'
  BY <1>1, <1>3 DEF CaseInv, CaseTypes, CaseTypeOK
<1>7. RunningInv' /\ BetweenInv' /\ PhaseInv' /\ IndexInv' /\ ReportInv' /\ SessionInv'
  BY <1>1, <1>3, <1>4, <1>5
  DEF CaseInv, RunningInv, BetweenInv, PhaseInv, IndexInv, ReportInv, SessionInv, SampleInfo
<1>8. SamplesLineUp' /\ PersistedDurationsPositive'
  BY <1>1 DEF CaseInv, SamplesLineUp, PersistedDurationsPositive
<1> QED
  BY <1>6, <1>7, <1>8 DEF CaseInv

\* The steps that decide whether another sample is run.
LEMMA DecidingKeepsInv ==
    ASSUME CaseInv, NextWarmUp \/ FinishWarmUp \/ NextSample \/ Report
    PROVE  CaseInv'
<1>1. CaseTypes /\ TypeOK
  BY DEF CaseInv, CaseTypes, CaseTypeOK
<1>2. /\ UNCHANGED <<pc, arrived, counters, backend, startSet, elapsed, ops, joined,
                     result, lifecycle, report, allResults, allMetrics>>
      /\ stage \in {"warm_up", "measure"}
      /\ \/ /\ stage = "warm_up" /\ stage' = "before" /\ index < MaxWarmUps
            /\ UNCHANGED <<phase, index, session>>
         \/ /\ stage = "warm_up" /\ stage' = "measure"
            /\ phase' = "measurement" /\ index' = 0 /\ UNCHANGED session
         \/ /\ stage = "measure" /\ stage' = "before" /\ index < TargetSamples
            /\ UNCHANGED <<phase, index, session>>
         \/ /\ stage = "measure" /\ stage' = "reported" /\ index = TargetSamples
            /\ session' = Append(session, [samples |-> allResults, metrics |-> allMetrics])
            /\ UNCHANGED <<phase, index>>
  BY DEF NextWarmUp, FinishWarmUp, NextSample, Report, vars
<1>3. TypeOK'
  BY <1>1, <1>2 DEF TypeOK, Phases, SampleResult
<1>4. session' = session \/ session' = <<[samples |-> allResults, metrics |-> allMetrics]>>
  <2>1. session = <<>>
    BY <1>2 DEF CaseInv, SessionInv
  <2>2. \A entry : Append(<<>>, entry) = <<entry>>
    OBVIOUS
  <2> QED
    BY <1>2, <2>1, <2>2
<1>5. CaseTypes'
  <2>1. index' \in 0..(MaxWarmUps + TargetSamples)
    BY <1>1, <1>2, CaseAssumption DEF CaseTypes, CaseTypeOK
  <2>2. Len(session') \in 0..1
    BY <1>1, <1>4 DEF CaseTypes, CaseTypeOK
  <2>3. stage' \in {"warm_up", "measure", "before", "sample", "collect", "after",
                    "reported", "aborted"}
    BY <1>2
  <2> QED
    BY <1>1, <1>2, <1>3, <2>1, <2>2, <2>3 DEF CaseTypes, CaseTypeOK
<1>6. RunningInv' /\ PhaseInv' /\ ReportInv' /\ BetweenInv'
  BY <1>2 DEF CaseInv, RunningInv, PhaseInv, ReportInv, BetweenInv
<1>7. IndexInv'
  <2>1. phase = "warm_up" \/ phase = "measurement"
    BY <1>1 DEF TypeOK, Phases
  <2>2. index \in Int /\ Len(<<>>) = 0 /\ TargetSamples \in Nat \ {0}
    BY <1>1, CaseAssumption DEF CaseTypes, CaseTypeOK
  <2> QED
    BY <1>2, <2>1, <2>2 DEF CaseInv, PhaseInv, IndexInv
<1>8. SessionInv'
  <2>1. stage = "measure" /\ index = TargetSamples => Len(allResults) = TargetSamples
    BY DEF CaseInv, PhaseInv, IndexInv, SamplesLineUp
  <2> QED
    BY <1>2, <1>4, <2>1 DEF CaseInv, SessionInv
<1>9. SamplesLineUp' /\ PersistedDurationsPositive'
  BY <1>2 DEF CaseInv, SamplesLineUp, PersistedDurationsPositive
<1> QED
  BY <1>5, <1>6, <1>7, <1>8, <1>9 DEF CaseInv

\* A sample is announced and started on fresh threads and barriers.
LEMMA BeforeSampleKeepsInv == CaseInv /\ BeforeSample => CaseInv'
<1> SUFFICES ASSUME CaseInv, BeforeSample PROVE CaseInv'
  OBVIOUS
<1>1. /\ stage = "before" /\ stage' = "sample" /\ lifecycle' = SampleInfo /\ FreshSample
      /\ UNCHANGED <<phase, index, report, allResults, allMetrics, session>>
  BY DEF BeforeSample, FreshSample
<1>2. CaseTypes /\ TypeOK /\ backend = "idle"
  BY <1>1 DEF CaseInv, CaseTypes, CaseTypeOK, BetweenInv
<1>3. TypeOK' /\ SampleInv' /\ DeadlineInv' /\ pc'[Coordinator] = "spawn"
  BY <1>1, <1>2, FreshSampleIsSound
<1>4. CaseTypes'
  <2>1. lifecycle' \in [phase : Phases, index : Nat]
    BY <1>1, <1>2 DEF SampleInfo, CaseTypes, CaseTypeOK, TypeOK
  <2> QED
    BY <1>1, <1>2, <1>3, <2>1 DEF CaseTypes, CaseTypeOK
<1>5. /\ RunningInv' /\ BetweenInv' /\ PhaseInv' /\ IndexInv' /\ ReportInv' /\ SessionInv'
  BY <1>1, <1>3
  DEF CaseInv, RunningInv, BetweenInv, PhaseInv, IndexInv, ReportInv, SessionInv, SampleInfo
<1>6. SamplesLineUp' /\ PersistedDurationsPositive'
  BY <1>1 DEF CaseInv, SamplesLineUp, PersistedDurationsPositive
<1> QED
  BY <1>4, <1>5, <1>6 DEF CaseInv

\* The steps that leave a sample, and let the backend have its say.
LEMMA LeavingKeepsInv ==
    ASSUME CaseInv,
           \/ SampleReturns \/ SamplePanics
           \/ \E d \in BackendDurations, n \in BackendOps : CollectBackend(d, n)
    PROVE  CaseInv'
<1>1. CaseTypes /\ TypeOK
  BY DEF CaseInv, CaseTypes, CaseTypeOK
<1>2. /\ UNCHANGED <<phase, pc, arrived, counters, startSet, elapsed, ops, joined,
                     result, index, lifecycle, allResults, allMetrics, session>>
      /\ stage \in {"sample", "collect"}
      /\ stage' \in {"collect", "after", "aborted"}
      /\ stage' = "collect" => phase = "measurement"
  BY DEF SampleReturns, SamplePanics, CollectBackend, vars
<1>3. /\ report' \in [iterations : Nat, duration : Nat]
      /\ stage' # "aborted" => report'.duration > 0
      /\ backend' \in {"idle", "begun", "ended"}
      /\ stage' = "after" => backend' = "idle"
      /\ stage' = "collect" =>
            backend' # "begun" /\ (~BackendPresent => backend' = "idle")
      /\ stage' # "aborted" => \A t \in Threads : pc[t] = "finished" \/ pc[t] = "unspawned"
  <2>1. CASE SampleReturns
    <3>1. /\ stage = "sample" /\ pc[Coordinator] = "done" /\ backend' = backend
          /\ stage' = IF phase = "measurement" THEN "collect" ELSE "after"
          /\ report' = [iterations |-> result.total, duration |-> result.wall]
      BY <2>1 DEF SampleReturns, vars
    <3>2. SampleInv /\ DeadlineInv /\ backend # "begun"
      BY <3>1 DEF CaseInv, RunningInv
    <3>3. result.total \in Nat /\ result.wall \in Nat /\ result.wall >= SampleDuration
      BY <1>1, <3>1, <3>2, SampleAssumption
      DEF TypeOK, SampleResult, DeadlineInv, WallCoversDeadline
    <3>4. \A t \in Threads : pc[t] = "finished"
      BY <3>1, <3>2, SampleAssumption DEF SampleInv, JoinInv, Threads
    <3>5. ~BackendPresent => backend = "idle"
      BY <3>2 DEF SampleInv, CoordinatorInv
    <3>6. stage' = "after" => ~BackendPresent
      BY <3>1 DEF BackendPresent, UsePerf
    <3> QED
      BY <1>1, <3>1, <3>2, <3>3, <3>4, <3>5, <3>6, SampleAssumption DEF TypeOK
  <2>2. CASE SamplePanics
    BY <1>1, <2>2 DEF SamplePanics, vars, CaseTypes, CaseTypeOK, TypeOK
  <2>3. ASSUME NEW d \in BackendDurations, NEW n \in BackendOps, CollectBackend(d, n)
        PROVE  /\ report' \in [iterations : Nat, duration : Nat]
               /\ report'.duration > 0
               /\ backend' = "idle" /\ stage' = "after"
               /\ \A t \in Threads : pc[t] = "finished" \/ pc[t] = "unspawned"
    <3>1. /\ stage = "collect" /\ stage' = "after"
          /\ IF BackendPresent
             THEN /\ report' = [iterations |-> Override(n, report.iterations),
                                duration |-> Override(d, report.duration)]
                  /\ backend' = "idle"
             ELSE UNCHANGED <<report, backend>>
      BY <2>3 DEF CollectBackend
    <3>2. /\ report \in [iterations : Nat, duration : Nat] /\ report.duration > 0
          /\ ~BackendPresent => backend = "idle"
          /\ \A t \in Threads : pc[t] = "finished" \/ pc[t] = "unspawned"
      BY <1>1, <3>1 DEF CaseInv, CaseTypes, CaseTypeOK, ReportInv, BetweenInv
    <3>3. /\ Override(n, report.iterations) \in Nat
          /\ Override(d, report.duration) \in Nat /\ Override(d, report.duration) > 0
      BY <3>2, CaseAssumption DEF Override
    <3> QED
      BY <3>1, <3>2, <3>3
  <2>4. CASE \E d \in BackendDurations, n \in BackendOps : CollectBackend(d, n)
    BY <2>3, <2>4
  <2> QED
    BY <2>1, <2>2, <2>4
<1>4. TypeOK'
  BY <1>1, <1>2, <1>3 DEF TypeOK, SampleResult
<1>5. CaseTypes'
  BY <1>1, <1>2, <1>3, <1>4 DEF CaseTypes, CaseTypeOK
<1>6. RunningInv' /\ BetweenInv' /\ PhaseInv' /\ IndexInv' /\ ReportInv' /\ SessionInv'
  <2>1. RunningInv' /\ ReportInv'
    BY <1>2, <1>3 DEF RunningInv, ReportInv
  <2>2. BetweenInv'
    BY <1>2, <1>3 DEF BetweenInv, BackendPresent, UsePerf
  <2>3. PhaseInv' /\ IndexInv' /\ SessionInv'
    BY <1>2 DEF CaseInv, PhaseInv, IndexInv, SessionInv, SampleInfo
  <2> QED
    BY <2>1, <2>2, <2>3
<1>7. SamplesLineUp' /\ PersistedDurationsPositive'
  BY <1>2 DEF CaseInv, SamplesLineUp, PersistedDurationsPositive
<1> QED
  BY <1>5, <1>6, <1>7 DEF CaseInv

\* The results and metrics of a sample are recorded, or dropped after a warm-up.
LEMMA AfterSampleKeepsInv == CaseInv /\ AfterSample => CaseInv'
<1> SUFFICES ASSUME CaseInv, AfterSample PROVE CaseInv'
  OBVIOUS
<1>1. /\ CaseTypes /\ TypeOK /\ stage = "after"
      /\ UNCHANGED <<phase, pc, arrived, counters, backend, startSet, elapsed, ops, joined,
                     result, report, session>>
      /\ lifecycle' = NoSample /\ index' = index + 1
  BY DEF CaseInv, CaseTypes, CaseTypeOK, AfterSample, vars
<1>2. /\ lifecycle = SampleInfo /\ report.duration > 0
      /\ index \in Nat
      /\ phase = "warm_up" \/ phase = "measurement"
      /\ phase = "warm_up" => index < MaxWarmUps /\ allMetrics = <<>>
      /\ phase = "measurement" => index < TargetSamples /\ index = Len(allMetrics)
      /\ Len(allMetrics) = Len(allResults)
  BY <1>1, CaseAssumption
  DEF CaseInv, CaseTypes, CaseTypeOK, PhaseInv, ReportInv, IndexInv, SamplesLineUp,
      TypeOK, Phases
<1>3. TypeOK'
  BY <1>1 DEF TypeOK, SampleResult
<1>4. CASE phase = "warm_up"
  <2>1. stage' = "warm_up" /\ UNCHANGED <<allMetrics, allResults>>
    BY <1>4 DEF AfterSample
  <2>2. CaseTypes'
    <3>1. index' \in 0..(MaxWarmUps + TargetSamples)
      BY <1>1, <1>2, <1>4, CaseAssumption
    <3> QED
      BY <1>1, <1>3, <2>1, <3>1 DEF CaseTypes, CaseTypeOK
  <2>3. /\ RunningInv' /\ BetweenInv' /\ PhaseInv' /\ IndexInv' /\ ReportInv' /\ SessionInv'
    BY <1>1, <1>2, <1>4, <2>1, CaseAssumption
    DEF CaseInv, RunningInv, BetweenInv, PhaseInv, IndexInv, ReportInv, SessionInv
  <2>4. SamplesLineUp' /\ PersistedDurationsPositive'
    BY <2>1 DEF CaseInv, SamplesLineUp, PersistedDurationsPositive
  <2> QED
    BY <2>2, <2>3, <2>4 DEF CaseInv
<1>5. CASE phase = "measurement"
  <2>1. /\ stage' = "measure"
        /\ allMetrics' = Append(allMetrics, lifecycle)
        /\ allResults' = Append(allResults, report)
    BY <1>5 DEF AfterSample
  <2>2. lifecycle = [phase |-> "measurement", index |-> Len(allMetrics)]
    BY <1>2, <1>5 DEF SampleInfo
  <2>3. /\ allMetrics \in Seq([phase : Phases, index : Nat])
        /\ lifecycle \in [phase : Phases, index : Nat]
        /\ allResults \in Seq([iterations : Nat, duration : Nat])
        /\ report \in [iterations : Nat, duration : Nat]
    BY <1>1, <1>2, <2>2 DEF CaseTypes, CaseTypeOK, Phases
  <2>4. /\ allMetrics' \in Seq([phase : Phases, index : Nat])
        /\ Len(allMetrics') = Len(allMetrics) + 1
        /\ \A i \in 1..Len(allMetrics) : allMetrics'[i] = allMetrics[i]
        /\ allMetrics'[Len(allMetrics) + 1] = lifecycle
    BY <2>1, <2>3
  <2>5. /\ allResults' \in Seq([iterations : Nat, duration : Nat])
        /\ Len(allResults') = Len(allResults) + 1
        /\ \A i \in 1..Len(allResults) : allResults'[i] = allResults[i]
        /\ allResults'[Len(allResults) + 1] = report
    BY <2>1, <2>3
  <2>6. CaseTypes'
    <3>1. index' \in 0..(MaxWarmUps + TargetSamples)
      BY <1>1, <1>2, <1>5, CaseAssumption
    <3>2. Len(allResults') \in 0..TargetSamples
      BY <1>2, <1>5, <2>5, CaseAssumption
    <3> QED
      BY <1>1, <1>3, <2>1, <2>4, <2>5, <3>1, <3>2 DEF CaseTypes, CaseTypeOK
  <2>7. /\ RunningInv' /\ BetweenInv' /\ PhaseInv' /\ ReportInv' /\ SessionInv'
    BY <1>1, <1>5, <2>1
    DEF CaseInv, RunningInv, BetweenInv, PhaseInv, ReportInv, SessionInv
  <2>8. IndexInv'
    BY <1>1, <1>2, <1>5, <2>1, <2>4, CaseAssumption DEF IndexInv
  <2>9. SamplesLineUp'
    <3>1. ASSUME NEW i \in 1..Len(allMetrics')
          PROVE  allMetrics'[i] = [phase |-> "measurement", index |-> i - 1]
      <4>1. CASE i = Len(allMetrics) + 1
        BY <1>2, <1>5, <2>2, <2>4, <4>1
      <4>2. CASE i # Len(allMetrics) + 1
        <5>1. i \in 1..Len(allMetrics)
          BY <1>2, <1>5, <2>4, <4>2
        <5> QED
          BY <2>4, <5>1 DEF CaseInv, SamplesLineUp
      <4> QED
        BY <4>1, <4>2
    <3> QED
      BY <1>2, <2>4, <2>5, <3>1 DEF SamplesLineUp
  <2>10. PersistedDurationsPositive'
    <3>1. ASSUME NEW i \in 1..Len(allResults') PROVE allResults'[i].duration > 0
      <4>1. CASE i = Len(allResults) + 1
        BY <1>2, <2>5, <4>1
      <4>2. CASE i # Len(allResults) + 1
        <5>1. i \in 1..Len(allResults)
          BY <1>2, <1>5, <2>5, <4>2
        <5> QED
          BY <2>5, <5>1 DEF CaseInv, PersistedDurationsPositive
      <4> QED
        BY <4>1, <4>2
    <3> QED
      BY <3>1 DEF PersistedDurationsPositive
  <2> QED
    BY <2>6, <2>7, <2>8, <2>9, <2>10 DEF CaseInv
<1> QED
  BY <1>2, <1>4, <1>5

\* Nothing happens.
LEMMA StutterKeepsInv == CaseInv /\ UNCHANGED allVars => CaseInv'
<1> SUFFICES ASSUME CaseInv, UNCHANGED allVars PROVE CaseInv'
  OBVIOUS
<1>1. UNCHANGED vars /\ UNCHANGED caseVars
  BY DEF allVars
<1>2. [Next]_vars
  BY <1>1
<1>3. CaseTypes'
  BY <1>1, <1>2, StepKeepsTypes DEF CaseInv, CaseTypes, CaseTypeOK, caseVars
<1>4. RunningInv'
  <2> SUFFICES ASSUME stage = "sample" PROVE RunningInv'
    BY <1>1 DEF RunningInv, caseVars
  <2>1. TypeOK /\ SampleInv /\ DeadlineInv /\ (pc[Coordinator] = "done" => backend # "begun")
    BY DEF CaseInv, RunningInv, CaseTypes, CaseTypeOK
  <2>2. SampleInv' /\ DeadlineInv'
    BY <1>2, <2>1, StepKeepsInv, StepKeepsDeadline
  <2> QED
    BY <1>1, <2>1, <2>2 DEF RunningInv, vars
<1>5. BetweenInv' /\ PhaseInv' /\ IndexInv' /\ ReportInv' /\ SessionInv'
  BY <1>1
  DEF CaseInv, vars, caseVars, BetweenInv, BackendPresent, UsePerf, PhaseInv, SampleInfo,
      IndexInv, ReportInv, SessionInv
<1>6. SamplesLineUp' /\ PersistedDurationsPositive'
  BY <1>1 DEF CaseInv, caseVars, SamplesLineUp, PersistedDurationsPositive
<1> QED
  BY <1>3, <1>4, <1>5, <1>6 DEF CaseInv

\* Every step of the case, or of the sample it runs.
LEMMA CaseNextKeepsInv == CaseInv /\ [CaseNext]_allVars => CaseInv'
BY DecidingKeepsInv, BeforeSampleKeepsInv, RunSampleKeepsInv, LeavingKeepsInv,
   AfterSampleKeepsInv, StutterKeepsInv
DEF CaseNext, CaseStep, CaseTerminating

\* Every part of the inductive invariant of the case holds in every reachable state.
THEOREM CaseInvHolds == CaseSpec => []CaseInv
<1> QED
  BY CaseInitIsCaseInv, CaseNextKeepsInv, PTL DEF CaseSpec

-------------------------------------------------------------------------------
(* What holds of every concurrent case. *)

\* The type invariant of the case and of the sample it runs.
THEOREM CaseTypeCorrect == CaseSpec => []CaseTypeOK
<1>1. CaseInv => CaseTypeOK
  BY DEF CaseInv, CaseTypes
<1> QED
  BY <1>1, CaseInvHolds, PTL

\* before_sample and after_sample run while no worker of any sample is alive
\* and the backend's window is closed, and a worker function that runs belongs
\* to the sample that the observer was told of last.
THEOREM LifecycleIsSound == CaseSpec => []LifecycleEnclosesSample
<1> SUFFICES CaseInv => LifecycleEnclosesSample
  BY CaseInvHolds, PTL
<1> SUFFICES ASSUME CaseInv PROVE LifecycleEnclosesSample
  OBVIOUS
<1>1. CallbacksOutsideWindow
  BY DEF CaseInv, BetweenInv, CallbacksOutsideWindow
<1>2. WorkersSeeTheirSample
  BY DEF CaseInv, CaseTypes, CaseTypeOK, BetweenInv, PhaseInv, WorkersSeeTheirSample
<1> QED
  BY <1>1, <1>2 DEF LifecycleEnclosesSample

\* The case's backend is begun again only after its last window was collected.
THEOREM WindowsDoNotOverlap == CaseSpec => BackendWindowsDoNotOverlap
<1>1. CaseInv /\ [CaseNext]_allVars =>
         [backend' = "begun" /\ backend # "begun" => backend = "idle"]_allVars
  <2> SUFFICES ASSUME CaseInv, CaseNext, backend' = "begun", backend # "begun"
               PROVE  backend = "idle"
    OBVIOUS
  <2>1. CASE RunSample
    <3>1. stage = "sample" /\ TypeOK /\ SampleInv /\ SampleStep
      BY <2>1 DEF CaseInv, CaseTypes, CaseTypeOK, RunningInv, RunSample
    <3>2. pc[Coordinator] = "begin"
      BY <3>1, SampleMovesWindow
    <3> QED
      BY <3>1, <3>2 DEF SampleInv, CoordinatorInv, TypeOK
  <2>2. CASE CaseStep
    BY <2>2
    DEF CaseStep, NextWarmUp, FinishWarmUp, NextSample, BeforeSample, FreshSample,
        SampleReturns, SamplePanics, CollectBackend, AfterSample, Report, vars
  <2> QED
    BY <2>1, <2>2 DEF CaseNext, CaseTerminating, allVars, vars
<1> QED
  BY <1>1, CaseInvHolds, PTL DEF CaseSpec, BackendWindowsDoNotOverlap

\* The results and the lifecycle metrics of the measured samples line up in
\* chronological order, each with a positive duration, and the session records
\* the case with all of them or not at all.
THEOREM RecordsAreSound == CaseSpec => []RecordsAreConsistent
<1>1. CaseInv => RecordsAreConsistent
  <2> SUFFICES ASSUME CaseInv PROVE RecordsAreConsistent
    OBVIOUS
  <2>1. AllSamplesOrNone
    <3>1. CASE stage = "reported"
      <4>1. /\ session = <<[samples |-> allResults, metrics |-> allMetrics]>>
            /\ Len(allResults) = TargetSamples
        BY <3>1 DEF CaseInv, SessionInv
      <4> QED
        BY <3>1, <4>1 DEF AllSamplesOrNone
    <3>2. CASE stage # "reported"
      BY <3>2 DEF CaseInv, SessionInv, AllSamplesOrNone
    <3> QED
      BY <3>1, <3>2
  <2> QED
    BY <2>1 DEF CaseInv, RecordsAreConsistent
<1> QED
  BY <1>1, CaseInvHolds, PTL
===============================================================================
