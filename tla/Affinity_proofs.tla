------------------------------ MODULE Affinity_proofs ------------------------------
(***************************************************************************)
(* Proofs about Affinity, for every machine a process may be started on,   *)
(* every list of cases and every number of workers: the mask of the main   *)
(* thread is given back, the cores chosen for the workers of a case are    *)
(* different ones that the process may use, and they are the best there    *)
(* are.                                                                    *)
(***************************************************************************)
EXTENDS Affinity, FiniteSetTheorems, WellFoundedInduction, TLAPS

\* The machine reports masks, and has not yet refused to restore one.
Reliable == machine.captures /\ ~refused

Positions == {"idle", "probe", "fill", "pin", "running", "spawn", "sample"}

\* A standard case that is choosing its core, or about to go there
HoldsMask ==
    \/ pc = "pin"
    \/ pc \in {"probe", "fill"} /\ Cases[done + 1] = "standard"

Places ==
    /\ machine \in Machines
    /\ pc \in Positions
    /\ done \in Nat
    /\ DOMAIN guard = {"restore", "didPin"}

\* The main thread is where it was started, unless its case pinned it.
MaskInv ==
    Reliable =>
        /\ pc # "running" => mask = machine.mask
        /\ pc = "running" /\ ~guard.didPin => mask = machine.mask

\* A guard that has pinned its thread, or may still do it, keeps the mask the
\* process was started with.
GuardInv ==
    Reliable /\ (HoldsMask \/ (pc = "running" /\ guard.didPin)) =>
        guard.restore = machine.mask

\* A worker runs where its case was started, unless it pinned itself.
WorkersInv ==
    Reliable => \A w \in DOMAIN workers : w \in pinned \/ workers[w] = machine.mask

AffinityInv == Places /\ MaskInv /\ GuardInv /\ WorkersInv

\* A machine starts a process with a mask that allows some core.
LEMMA MachineHasMask ==
    ASSUME AffinityAssumption, machine \in Machines
    PROVE  machine.mask # NoMask
<1>1. IsMachine(machine)
  BY DEF AffinityAssumption
<1>2. machine.mask \in (SUBSET Cores) \ {{}}
  BY <1>1 DEF IsMachine
<1>3. QED
  BY <1>2 DEF NoMask

\* The process starts with the mask of its machine.
LEMMA InitIsSound ==
    ASSUME Init
    PROVE  AffinityInv
<1>1. Places
  BY DEF Init, Places, Positions, NoGuard
<1>2. MaskInv
  BY DEF Init, MaskInv
<1>3. GuardInv
  BY DEF Init, GuardInv, HoldsMask
<1>4. WorkersInv
  BY DEF Init, WorkersInv
<1>5. QED
  BY <1>1, <1>2, <1>3, <1>4 DEF AffinityInv

\* Putting a mask back, where the kernel lets it be done, leaves that mask, and
\* a machine that refused once is remembered.
LEMMA RestoreOrRefuse ==
    ASSUME NEW saved, NEW current, RestoreMask(saved, current), ~refused'
    PROVE  ~refused /\ mask' = saved
BY DEF RestoreMask

\* A probe gives the mask back that it found: a thread that was where it was
\* started is there again.
LEMMA ProbeGivesBack ==
    ASSUME AffinityAssumption, machine \in Machines, machine.captures,
           Probe, ~refused', ~refused => mask = machine.mask
    PROVE  ~refused /\ mask' = machine.mask
<1>1. CASE UNCHANGED <<mask, usable, refused>>
  BY <1>1
<1>2. ASSUME NEW core, ProbeEnds(core)
      PROVE  ~refused /\ mask' = machine.mask
  <2>1. CASE mask = NoMask
    <3>1. UNCHANGED refused
      BY <1>2, <2>1 DEF ProbeEnds, Captured
    <3>2. mask = machine.mask
      BY <3>1
    <3>3. QED
      BY <2>1, <3>2, MachineHasMask
  <2>2. CASE mask # NoMask
    <3>1. RestoreMask(mask, {core})
      BY <1>2, <2>2 DEF ProbeEnds, Captured
    <3>2. QED
      BY <3>1, RestoreOrRefuse
  <2>3. QED
    BY <2>1, <2>2
<1>3. QED
  BY <1>1, <1>2 DEF Probe

\* The steps that choose a core: they leave the guard and the workers alone,
\* and the mask as they found it.
LEMMA ProbingKeepsInv ==
    ASSUME AffinityAssumption, AffinityInv, Probe \/ EndProbing \/ FillUp \/ EndSelection
    PROVE  AffinityInv'
<1> USE DEF AffinityInv
<1>1. CASE Probe
  <2>1. /\ pc = "probe"
        /\ UNCHANGED <<machine, pc, done, guard, workers, pinned>>
    BY <1>1 DEF Probe, workerVars
  <2>2. Reliable' => Reliable /\ mask' = machine.mask
    <3> SUFFICES ASSUME Reliable'
                 PROVE  Reliable /\ mask' = machine.mask
      OBVIOUS
    <3>1. machine.captures /\ ~refused'
      BY <2>1 DEF Reliable
    <3>2. ~refused => mask = machine.mask
      BY <2>1, <3>1 DEF MaskInv, Reliable
    <3>3. machine \in Machines
      BY DEF Places
    <3>4. QED
      BY <1>1, <3>1, <3>2, <3>3, ProbeGivesBack DEF Reliable
  <2>3. Places'
    BY <2>1 DEF Places
  <2>4. MaskInv'
    BY <2>1, <2>2 DEF MaskInv
  <2>5. GuardInv'
    BY <2>1, <2>2 DEF GuardInv, HoldsMask
  <2>6. WorkersInv'
    BY <2>1, <2>2 DEF WorkersInv
  <2>7. QED
    BY <2>3, <2>4, <2>5, <2>6
<1>2. ASSUME EndProbing \/ FillUp \/ EndSelection
      PROVE  AffinityInv'
  <2>1. /\ pc \in {"probe", "fill"}
        /\ UNCHANGED <<machine, done, mask, guard, workers, pinned, refused>>
    BY <1>2 DEF EndProbing, FillUp, EndSelection, selectionVars, workerVars
  <2>2. \/ pc' = "fill"
        \/ pc' = "pin" /\ Cases[done + 1] = "standard"
        \/ pc' = "spawn"
    BY <1>2 DEF EndProbing, FillUp, EndSelection
  <2>3. Reliable' <=> Reliable
    BY <2>1 DEF Reliable
  <2>4. Places'
    BY <2>1, <2>2 DEF Places, Positions
  <2>5. MaskInv'
    BY <2>1, <2>2, <2>3 DEF MaskInv
  <2>6. GuardInv'
    BY <2>1, <2>2, <2>3 DEF GuardInv, HoldsMask
  <2>7. WorkersInv'
    BY <2>1, <2>3 DEF WorkersInv
  <2>8. QED
    BY <2>4, <2>5, <2>6, <2>7
<1>3. QED
  BY <1>1, <1>2

\* The guard of a standard case: taken, used and dropped.
LEMMA GuardKeepsInv ==
    ASSUME AffinityAssumption, AffinityInv, Acquire \/ Pin \/ Release
    PROVE  AffinityInv'
<1> USE DEF AffinityInv
<1>1. CASE Acquire
  <2>1. /\ pc = "idle" /\ Cases[done + 1] = "standard"
        /\ guard' = [restore |-> IF machine.disabled THEN NoMask ELSE Captured,
                     didPin |-> FALSE]
        /\ UNCHANGED <<machine, done, mask, workers, pinned, refused>>
    BY <1>1 DEF Acquire, StartsCase, workerVars
  <2>2. \/ machine.disabled /\ pc' = "running"
        \/ ~machine.disabled /\ pc' \in {"pin", "probe"}
    BY <1>1 DEF Acquire
  <2>3. Reliable' <=> Reliable
    BY <2>1 DEF Reliable
  <2>4. Places'
    BY <2>1, <2>2 DEF Places, Positions
  <2>5. MaskInv'
    BY <2>1, <2>2, <2>3 DEF MaskInv
  <2>6. GuardInv'
    <3>1. CASE machine.disabled
      <4>1. pc' = "running" /\ ~guard'.didPin
        BY <2>1, <2>2, <3>1
      <4>2. QED
        BY <4>1 DEF GuardInv, HoldsMask
    <3>2. CASE ~machine.disabled
      <4>1. Reliable => guard'.restore = machine.mask
        BY <2>1, <3>2 DEF MaskInv, Captured, Reliable
      <4>2. QED
        BY <2>1, <2>3, <4>1 DEF GuardInv
    <3>3. QED
      BY <3>1, <3>2
  <2>7. WorkersInv'
    BY <2>1, <2>3 DEF WorkersInv
  <2>8. QED
    BY <2>4, <2>5, <2>6, <2>7
<1>2. CASE Pin
  <2>1. /\ pc = "pin" /\ pc' = "running"
        /\ UNCHANGED <<machine, done, workers, pinned, refused>>
    BY <1>2 DEF Pin, workerVars
  <2>2. \/ guard' = [guard EXCEPT !.didPin = TRUE]
        \/ guard' = NoGuard /\ mask' = mask
    BY <1>2 DEF Pin
  <2>3. \/ /\ DOMAIN guard' = DOMAIN guard
           /\ guard'.restore = guard.restore /\ guard'.didPin
        \/ /\ DOMAIN guard' = {"restore", "didPin"}
           /\ ~guard'.didPin /\ mask' = mask
    BY <2>2 DEF Places, NoGuard
  <2>4. Reliable' <=> Reliable
    BY <2>1 DEF Reliable
  <2>5. Places'
    BY <2>1, <2>3 DEF Places, Positions
  <2>6. MaskInv'
    BY <2>1, <2>3, <2>4 DEF MaskInv
  <2>7. GuardInv'
    BY <2>1, <2>3, <2>4 DEF GuardInv, HoldsMask
  <2>8. WorkersInv'
    BY <2>1, <2>4 DEF WorkersInv
  <2>9. QED
    BY <2>5, <2>6, <2>7, <2>8
<1>3. CASE Release
  <2>1. /\ pc = "running" /\ pc' = "idle" /\ done' = done + 1
        /\ guard' = NoGuard
        /\ UNCHANGED <<machine, workers, pinned>>
    BY <1>3 DEF Release, workerVars
  <2>2. Reliable' => Reliable /\ mask' = machine.mask
    <3> SUFFICES ASSUME Reliable'
                 PROVE  Reliable /\ mask' = machine.mask
      OBVIOUS
    <3>1. machine.captures /\ ~refused'
      BY <2>1 DEF Reliable
    <3>2. CASE guard.didPin /\ guard.restore # NoMask
      <4>1. RestoreMask(guard.restore, mask)
        BY <1>3, <3>2 DEF Release
      <4>2. ~refused /\ mask' = guard.restore
        BY <3>1, <4>1, RestoreOrRefuse
      <4>3. QED
        BY <2>1, <3>1, <3>2, <4>2 DEF GuardInv, Reliable
    <3>3. CASE ~(guard.didPin /\ guard.restore # NoMask)
      <4>1. UNCHANGED <<mask, refused>>
        BY <1>3, <3>3 DEF Release
      <4>2. Reliable
        BY <3>1, <4>1 DEF Reliable
      <4>3. CASE guard.didPin
        <5>1. guard.restore = machine.mask
          BY <2>1, <4>2, <4>3 DEF GuardInv
        <5>2. machine.mask # NoMask
          BY MachineHasMask DEF Places
        <5>3. QED
          BY <3>3, <4>3, <5>1, <5>2
      <4>4. CASE ~guard.didPin
        BY <2>1, <4>1, <4>2, <4>4 DEF MaskInv
      <4>5. QED
        BY <4>3, <4>4
    <3>4. QED
      BY <3>2, <3>3
  <2>3. Places'
    BY <2>1 DEF Places, Positions, NoGuard
  <2>4. MaskInv'
    BY <2>1, <2>2 DEF MaskInv
  <2>5. GuardInv'
    BY <2>1 DEF GuardInv, HoldsMask
  <2>6. WorkersInv'
    BY <2>1, <2>2 DEF WorkersInv
  <2>7. QED
    BY <2>3, <2>4, <2>5, <2>6
<1>4. QED
  BY <1>1, <1>2, <1>3

\* A concurrent case: its workers start where the main thread is, and pin
\* themselves.
LEMMA WorkersKeepInv ==
    ASSUME AffinityAssumption, AffinityInv,
           \/ StartConcurrent \/ SpawnWorkers \/ JoinWorkers
           \/ \E w \in 1..Workers : WorkerPins(w)
    PROVE  AffinityInv'
<1> USE DEF AffinityInv
<1>1. CASE StartConcurrent
  <2>1. /\ pc = "idle" /\ Cases[done + 1] = "concurrent" /\ pc' \in {"spawn", "probe"}
        /\ UNCHANGED <<machine, done, mask, guard, workers, pinned, refused>>
    BY <1>1 DEF StartConcurrent, StartsCase, workerVars
  <2>2. Reliable' <=> Reliable
    BY <2>1 DEF Reliable
  <2>3. Places'
    BY <2>1 DEF Places, Positions
  <2>4. MaskInv'
    BY <2>1, <2>2 DEF MaskInv
  <2>5. GuardInv'
    BY <2>1, <2>2 DEF GuardInv, HoldsMask
  <2>6. WorkersInv'
    BY <2>1, <2>2 DEF WorkersInv
  <2>7. QED
    BY <2>3, <2>4, <2>5, <2>6
<1>2. CASE SpawnWorkers
  <2>1. /\ pc = "spawn" /\ pc' = "sample"
        /\ workers' = [w \in 1..Workers |-> mask]
        /\ UNCHANGED <<machine, done, mask, guard, refused>>
    BY <1>2 DEF SpawnWorkers
  <2>2. Reliable' <=> Reliable
    BY <2>1 DEF Reliable
  <2>3. Places'
    BY <2>1 DEF Places, Positions
  <2>4. MaskInv'
    BY <2>1, <2>2 DEF MaskInv
  <2>5. GuardInv'
    BY <2>1, <2>2 DEF GuardInv, HoldsMask
  <2>6. WorkersInv'
    <3>1. Reliable => mask = machine.mask
      BY <2>1 DEF MaskInv
    <3>2. QED
      BY <2>1, <2>2, <3>1 DEF WorkersInv
  <2>7. QED
    BY <2>3, <2>4, <2>5, <2>6
<1>3. CASE JoinWorkers
  <2>1. /\ pc = "sample" /\ pc' = "idle" /\ done' = done + 1 /\ workers' = <<>>
        /\ UNCHANGED <<machine, mask, guard, refused>>
    BY <1>3 DEF JoinWorkers
  <2>2. Reliable' <=> Reliable
    BY <2>1 DEF Reliable
  <2>3. Places'
    BY <2>1 DEF Places, Positions
  <2>4. MaskInv'
    BY <2>1, <2>2 DEF MaskInv
  <2>5. GuardInv'
    BY <2>1, <2>2 DEF GuardInv, HoldsMask
  <2>6. WorkersInv'
    BY <2>1 DEF WorkersInv
  <2>7. QED
    BY <2>3, <2>4, <2>5, <2>6
<1>4. ASSUME NEW w \in 1..Workers, WorkerPins(w)
      PROVE  AffinityInv'
  <2>1. /\ workers' = [workers EXCEPT ![w] = {pinCores[w]}]
        /\ pinned' = pinned \cup {w}
        /\ UNCHANGED <<machine, pc, done, mask, guard, refused>>
    BY <1>4 DEF WorkerPins
  <2>2. Reliable' <=> Reliable
    BY <2>1 DEF Reliable
  <2>3. Places' /\ MaskInv' /\ GuardInv'
    BY <2>1, <2>2 DEF Places, MaskInv, GuardInv, HoldsMask
  <2>4. WorkersInv'
    BY <2>1, <2>2 DEF WorkersInv
  <2>5. QED
    BY <2>3, <2>4
<1>5. QED
  BY <1>1, <1>2, <1>3, <1>4

\* Every step of the process keeps the invariant about masks.
LEMMA StepKeepsInv ==
    ASSUME AffinityAssumption, AffinityInv, [Next]_vars
    PROVE  AffinityInv'
<1>1. CASE UNCHANGED vars
  <2>1. UNCHANGED <<machine, pc, done, mask, guard, workers, pinned, refused>>
    BY <1>1 DEF vars, workerVars
  <2>2. Reliable' <=> Reliable
    BY <2>1 DEF Reliable
  <2>3. QED
    BY <2>1, <2>2 DEF AffinityInv, Places, MaskInv, GuardInv, HoldsMask, WorkersInv
<1>2. CASE Terminating
  BY <1>1, <1>2 DEF Terminating
<1>3. QED
  BY <1>1, <1>2, ProbingKeepsInv, GuardKeepsInv, WorkersKeepInv DEF Next

\* The inductive invariant of the affinity protocol holds in every behaviour.
THEOREM AffinityInvHolds == Spec => []AffinityInv
<1>1. Init => AffinityInv
  BY InitIsSound
<1>2. AffinityInv /\ [Next]_vars => AffinityInv'
  BY AffinityAssumption, StepKeepsInv
<1>3. QED
  BY <1>1, <1>2, PTL DEF Spec

\* BenchAffinityGuard and RestoreAffinityOnDrop: between cases, and while a core
\* is chosen, the main thread is where the process was started, and a worker
\* that has not pinned itself is there, too.
THEOREM MasksAreReturned == Spec => []MaskIsReturned
<1>1. AffinityInv => MaskIsReturned
  BY DEF AffinityInv, MaskInv, WorkersInv, Reliable, MaskIsReturned
<1>2. QED
  BY <1>1, AffinityInvHolds, PTL

-------------------------------------------------------------------------------
(* Listing cores in order *)

\* A nonempty set of natural numbers has a least element.
LEMMA LeastElement ==
    ASSUME NEW S, S \subseteq Nat, S # {}
    PROVE  \E m \in S : \A n \in S : m <= n
<1> DEFINE R == OpToRel(<, Nat)
<1>1. \E m \in S : \A n \in S : ~ (<<n, m>> \in R)
  BY WFMin, NatLessThanWellFounded
<1>2. \A m, n \in S : n < m => <<n, m>> \in R
  BY DEF OpToRel
<1> HIDE DEF R
<1>3. PICK m \in S : \A n \in S : ~ (<<n, m>> \in R)
  BY <1>1
<1>4. ASSUME NEW n \in S PROVE m <= n
  <2>1. m \in Nat /\ n \in Nat
    OBVIOUS
  <2>2. ~(n < m)
    BY <1>2, <1>3
  <2>3. QED
    BY <2>1, <2>2
<1>5. QED
  BY <1>4

\* Cores are numbered from 0, so a nonempty set of them has a last one.
LEMMA LastCore ==
    ASSUME AffinityAssumption, NEW S \in SUBSET Cores, S # {}
    PROVE  \E m \in S : \A n \in S : n <= m
<1> DEFINE last == Cardinality(Cores) - 1
           Left == {k \in Nat : last - k \in S}
<1>1. last \in Int /\ Cores = 0..last
  <2>1. Cardinality(Cores) \in Nat
    BY FS_CardinalityType DEF AffinityAssumption
  <2>2. QED
    BY <2>1 DEF AffinityAssumption
<1> HIDE DEF last
<1>2. \A n \in S : n \in Int /\ last - n \in Nat /\ last - (last - n) = n
  BY <1>1
<1>3. \A n \in S : last - n \in Left
  BY <1>2
<1>4. PICK k \in Left : \A j \in Left : k <= j
  BY <1>3, LeastElement
<1>5. last - k \in S /\ k \in Nat
  OBVIOUS
<1>6. ASSUME NEW n \in S PROVE n <= last - k
  <2>1. k <= last - n
    BY <1>3, <1>4
  <2>2. last \in Int /\ n \in Int
    BY <1>1, <1>2
  <2>3. QED
    BY <1>5, <2>1, <2>2
<1>7. QED
  BY <1>5, <1>6

\* The orders that list a set of cores
Orders(cores) == {order \in [1..Cardinality(cores) -> cores] :
                    \A i, j \in DOMAIN order : i < j => order[i] < order[j]}

\* Every set of cores can be listed in ascending order.
LEMMA OrderExists ==
    ASSUME AffinityAssumption, NEW S \in SUBSET Cores
    PROVE  Orders(S) # {}
<1>a. \A T \in SUBSET Cores : IsFiniteSet(T) /\ Cardinality(T) \in Nat
  BY FS_Subset, FS_CardinalityType DEF AffinityAssumption
<1>b. Cores \subseteq Int
  BY FS_CardinalityType DEF AffinityAssumption
<1> DEFINE Bad == {n \in Nat : \E T \in SUBSET Cores :
                                  Cardinality(T) = n /\ Orders(T) = {}}
<1>1. ASSUME Bad # {} PROVE FALSE
  <2>1. PICK n \in Bad : \A m \in Bad : n <= m
    BY <1>1, LeastElement
  <2>2. PICK T \in SUBSET Cores : Cardinality(T) = n /\ Orders(T) = {}
    BY <2>1
  <2>3. CASE T = {}
    <3>1. n = 0 /\ Cardinality(T) = 0
      BY <2>2, <2>3, FS_EmptySet
    <3> DEFINE empty == [i \in 1..0 |-> i]
    <3>2. empty \in [1..Cardinality(T) -> T] /\ DOMAIN empty = {}
      BY <3>1
    <3>3. empty \in Orders(T)
      BY <3>2 DEF Orders
    <3>4. QED
      BY <2>2, <3>3
  <2>4. CASE T # {}
    <3>1. PICK top \in T : \A c \in T : c <= top
      BY <2>4, LastCore
    <3> DEFINE rest == T \ {top}
    <3>2. /\ rest \in SUBSET Cores /\ Cardinality(rest) = n - 1
          /\ n \in Nat /\ n - 1 \in Nat
      <4>1. IsFiniteSet(T) /\ Cardinality(T) = n /\ n \in Nat
        BY <1>a, <2>2
      <4>2. rest \in SUBSET Cores /\ Cardinality(rest) = n - 1
        BY <4>1, FS_RemoveElement
      <4>3. Cardinality(rest) \in Nat
        BY <1>a, <4>2
      <4>4. QED
        BY <4>1, <4>2, <4>3
    <3>3. Orders(rest) # {}
      <4>1. n - 1 \notin Bad
        BY <2>1, <3>2
      <4>2. QED
        BY <3>2, <4>1
    <3>4. PICK order \in Orders(rest) : TRUE
      BY <3>3
    <3> HIDE DEF Bad
    <3>5. /\ order \in [1..(n - 1) -> rest]
          /\ \A i, j \in 1..(n - 1) : i < j => order[i] < order[j]
      BY <3>2, <3>4 DEF Orders
    <3> DEFINE longer == [i \in 1..n |-> IF i = n THEN top ELSE order[i]]
    <3>6. \A i \in 1..n : i = n \/ i \in 1..(n - 1)
      BY <3>2
    <3>7. longer \in [1..n -> T]
      BY <3>5, <3>6
    <3>8. ASSUME NEW i \in 1..n, NEW j \in 1..n, i < j
          PROVE  longer[i] < longer[j]
      <4>1. i \in 1..(n - 1) /\ longer[i] = order[i] /\ order[i] \in rest
        BY <3>2, <3>5, <3>8
      <4>2. CASE j = n
        <5>1. longer[j] = top /\ order[i] <= top /\ order[i] # top
          BY <3>1, <4>1, <4>2
        <5>2. order[i] \in Int /\ top \in Int
          BY <1>b, <3>2, <4>1
        <5>3. QED
          BY <4>1, <5>1, <5>2
      <4>3. CASE j # n
        <5>1. j \in 1..(n - 1) /\ longer[j] = order[j]
          BY <3>2, <4>3
        <5>2. QED
          BY <3>5, <3>8, <4>1, <5>1
      <4>4. QED
        BY <4>2, <4>3
    <3>9. longer \in Orders(T)
      BY <2>2, <3>7, <3>8 DEF Orders
    <3>10. QED
      BY <2>2, <3>9
  <2>5. QED
    BY <2>3, <2>4
<1>2. Cardinality(S) \in Nat
  BY <1>a
<1>3. QED
  BY <1>1, <1>2

\* The list of a set of cores: each of them once.
LEMMA AscendingLists ==
    ASSUME AffinityAssumption, NEW S \in SUBSET Cores
    PROVE  /\ Ascending(S) \in Seq(S) /\ IsInjective(Ascending(S))
           /\ S # {} => Ascending(S) # <<>>
<1> DEFINE order == Ascending(S)
<1>1. order \in Orders(S)
  BY OrderExists DEF Ascending, Orders
<1>2. IsFiniteSet(S) /\ Cardinality(S) \in Nat /\ S \subseteq Int
  BY FS_Subset, FS_CardinalityType DEF AffinityAssumption
<1> HIDE DEF order
<1>3. /\ order \in [1..Cardinality(S) -> S]
      /\ \A i, j \in 1..Cardinality(S) : i < j => order[i] < order[j]
  BY <1>1 DEF Orders
<1>4. order \in Seq(S) /\ Len(order) = Cardinality(S)
  BY <1>2, <1>3
<1>5. IsInjective(order)
  <2> SUFFICES ASSUME NEW i \in 1..Cardinality(S), NEW j \in 1..Cardinality(S),
                      order[i] = order[j]
               PROVE  i = j
    BY <1>3 DEF IsInjective
  <2>1. order[i] \in Int /\ order[j] \in Int
    BY <1>2, <1>3
  <2>2. ~(i < j) /\ ~(j < i)
    BY <1>3, <2>1
  <2>3. QED
    BY <1>2, <2>2
<1>6. S # {} => order # <<>>
  BY <1>2, <1>4, FS_EmptySet
<1>7. QED
  BY <1>4, <1>5, <1>6 DEF order

\* Two lists of different things make one.
LEMMA ListsJoin ==
    ASSUME NEW S, NEW T, \A x \in S : x \notin T,
           NEW s \in Seq(S), NEW t \in Seq(T), IsInjective(s), IsInjective(t)
    PROVE  /\ s \o t \in Seq(S \cup T) /\ IsInjective(s \o t)
           /\ Len(s \o t) = Len(s) + Len(t)
<1>1. s \o t \in Seq(S \cup T) /\ Len(s \o t) = Len(s) + Len(t)
  <2>1. s \in Seq(S \cup T) /\ t \in Seq(S \cup T)
    OBVIOUS
  <2>2. QED
    BY <2>1
<1>2. /\ Len(s) \in Nat /\ Len(t) \in Nat
      /\ \A i \in 1..Len(s) : (s \o t)[i] = s[i] /\ s[i] \in S
      /\ \A i \in (Len(s) + 1)..(Len(s) + Len(t)) :
            /\ (s \o t)[i] = t[i - Len(s)] /\ i - Len(s) \in 1..Len(t)
            /\ t[i - Len(s)] \in T
  OBVIOUS
<1>3. DOMAIN (s \o t) = 1..(Len(s) + Len(t))
  BY <1>1
<1> DEFINE joined == s \o t
<1>4. ASSUME NEW i \in 1..(Len(s) + Len(t)), NEW j \in 1..(Len(s) + Len(t)),
             joined[i] = joined[j]
      PROVE  i = j
  <2>1. CASE i <= Len(s) /\ j <= Len(s)
    <3>1. i \in DOMAIN s /\ j \in DOMAIN s /\ s[i] = s[j]
      BY <1>2, <1>4, <2>1
    <3>2. QED
      BY <3>1 DEF IsInjective
  <2>2. CASE i > Len(s) /\ j > Len(s)
    <3>1. /\ i - Len(s) \in DOMAIN t /\ j - Len(s) \in DOMAIN t
          /\ t[i - Len(s)] = t[j - Len(s)]
      BY <1>2, <1>4, <2>2
    <3>2. i - Len(s) = j - Len(s)
      BY <3>1 DEF IsInjective
    <3>3. QED
      BY <1>2, <3>2
  <2>3. CASE i <= Len(s) /\ j > Len(s)
    BY <1>2, <1>4, <2>3
  <2>4. CASE i > Len(s) /\ j <= Len(s)
    BY <1>2, <1>4, <2>4
  <2>5. QED
    BY <1>2, <2>1, <2>2, <2>3, <2>4
<1>5. IsInjective(joined)
  BY <1>3, <1>4 DEF IsInjective
<1>6. QED
  BY <1>1, <1>5

\* The candidates are cores that the thread may run on, each of them once, and
\* there is one.
LEMMA PreferredFirst ==
    ASSUME AffinityAssumption, NEW allowed \in (SUBSET Cores) \ {{}}, NEW fast,
           NEW list, list = Ascending(fast \cap allowed) \o Ascending(allowed \ fast)
    PROVE  list \in Seq(allowed) /\ IsInjective(list) /\ list # <<>>
<1> DEFINE better == fast \cap allowed
           others == allowed \ fast
           first == Ascending(better)
           second == Ascending(others)
<1>1. list = first \o second
  OBVIOUS
<1>2. /\ better \in SUBSET Cores /\ others \in SUBSET Cores
      /\ \A core \in better : core \notin others
      /\ better \cup others = allowed
      /\ better # {} \/ others # {}
  OBVIOUS
<1> HIDE DEF better, others
<1>3. /\ first \in Seq(better) /\ IsInjective(first)
      /\ better # {} => first # <<>>
  BY <1>2, AscendingLists
<1>4. /\ second \in Seq(others) /\ IsInjective(second)
      /\ others # {} => second # <<>>
  BY <1>2, AscendingLists
<1> HIDE DEF first, second
<1>5. /\ first \o second \in Seq(better \cup others)
      /\ IsInjective(first \o second)
      /\ Len(first \o second) = Len(first) + Len(second)
  <2>1. first \o second \in Seq(better \cup others)
    BY <1>2, <1>3, <1>4, ListsJoin
  <2>2. IsInjective(first \o second)
    BY <1>2, <1>3, <1>4, ListsJoin
  <2>3. Len(first \o second) = Len(first) + Len(second)
    BY <1>2, <1>3, <1>4, ListsJoin
  <2>4. QED
    BY <2>1, <2>2, <2>3
<1>6. first \o second # <<>>
  <2>1. /\ Len(first) \in Nat /\ Len(second) \in Nat
        /\ first # <<>> => Len(first) > 0
        /\ second # <<>> => Len(second) > 0
    BY <1>3, <1>4
  <2>2. Len(first \o second) # 0
    BY <1>2, <1>3, <1>4, <1>5, <2>1
  <2>3. QED
    BY <2>2
<1>7. QED
  BY <1>1, <1>2, <1>5, <1>6

\* candidate_pin_cores gives such a list, whichever cores are fast.
LEMMA CandidatesAreAllowed ==
    ASSUME AffinityAssumption, NEW allowed \in (SUBSET Cores) \ {{}}
    PROVE  /\ CandidatePinCores(allowed) \in Seq(allowed)
           /\ IsInjective(CandidatePinCores(allowed))
           /\ CandidatePinCores(allowed) # <<>>
BY PreferredFirst DEF CandidatePinCores

\* A single core is a list without repetitions.
LEMMA ListOfOne ==
    ASSUME NEW S, NEW x \in S
    PROVE  <<x>> \in Seq(S)
OBVIOUS

\* A list of different things remains one with something new at its end.
LEMMA ListGrows ==
    ASSUME NEW S, NEW s \in Seq(S), IsInjective(s), NEW x \in S,
           \A i \in DOMAIN s : s[i] # x
    PROVE  /\ Append(s, x) \in Seq(S) /\ IsInjective(Append(s, x))
           /\ Len(Append(s, x)) = Len(s) + 1
           /\ \A i \in DOMAIN Append(s, x) :
                 \/ i = Len(s) + 1 /\ Append(s, x)[i] = x
                 \/ i \in DOMAIN s /\ Append(s, x)[i] = s[i]
<1> DEFINE grown == Append(s, x)
<1>1. /\ grown \in Seq(S) /\ Len(grown) = Len(s) + 1 /\ Len(s) \in Nat
      /\ DOMAIN grown = 1..(Len(s) + 1) /\ DOMAIN s = 1..Len(s)
      /\ grown[Len(s) + 1] = x /\ \A i \in 1..Len(s) : grown[i] = s[i]
  OBVIOUS
<1> HIDE DEF grown
<1>2. \A i \in 1..(Len(s) + 1) : i = Len(s) + 1 \/ i \in 1..Len(s)
  BY <1>1
<1>3. ASSUME NEW i \in DOMAIN grown, NEW j \in DOMAIN grown, grown[i] = grown[j]
      PROVE  i = j
  <2>1. CASE i \in 1..Len(s) /\ j \in 1..Len(s)
    <3>1. i \in DOMAIN s /\ j \in DOMAIN s /\ s[i] = s[j]
      BY <1>1, <1>3, <2>1
    <3>2. QED
      BY <3>1 DEF IsInjective
  <2>2. CASE ~(i \in 1..Len(s) /\ j \in 1..Len(s))
    BY <1>1, <1>2, <1>3, <2>2
  <2>3. QED
    BY <2>1, <2>2
<1>4. IsInjective(grown)
  BY <1>3 DEF IsInjective
<1>5. QED
  BY <1>1, <1>2, <1>4 DEF grown

-------------------------------------------------------------------------------
(* Choosing cores: the inductive invariant *)

Masks == (SUBSET Cores) \ {{}}

\* The variables' types, and every mask allows some core.
MaskTypes ==
    /\ mask \in Masks
    /\ guard \in [restore : SUBSET Cores, didPin : BOOLEAN]
    /\ done \in 0..Len(Cases) /\ (pc # "idle" => done < Len(Cases))

\* Candidates, usable cores and chosen cores are lists of different cores.
ListTypes ==
    /\ candidates \in Seq(Cores) /\ IsInjective(candidates)
    /\ usable \in Seq(Cores) /\ IsInjective(usable)
    /\ pinCores \in Seq(Cores) /\ IsInjective(pinCores)
    /\ seen \in 0..Len(candidates)
    /\ Len(pinCores) <= Workers

\* What was found usable is a candidate that was probed.
UsableInv ==
    \A i \in DOMAIN usable : \E k \in DOMAIN candidates :
        candidates[k] = usable[i] /\ (pc = "probe" => k <= seen)

\* The loops stop when they have what is wanted, and find something.
LoopInv ==
    /\ pc \in {"probe", "fill"} => candidates # <<>>
    /\ pc = "probe" => Len(usable) <= Wanted
    /\ pc = "fill" => Len(pinCores) <= Wanted /\ (seen > 0 => pinCores # <<>>)
    /\ pc = "pin" => pinCores # <<>>

\* Where the kernel reports masks, only allowed cores are looked at and chosen.
AllowedInv ==
    Reliable =>
        /\ pc \in {"probe", "fill"} => candidates \in Seq(machine.mask)
        /\ pc \in {"fill", "pin", "spawn", "sample"} => pinCores \in Seq(machine.mask)

\* A worker that pinned itself is on the core that was chosen for it.
PinnedInv ==
    /\ pc # "sample" => workers = <<>>
    /\ pinned \subseteq DOMAIN workers
    /\ \A w \in DOMAIN workers : workers[w] \in Masks
    /\ \A w \in pinned : w \in DOMAIN pinCores /\ workers[w] = {pinCores[w]}

SelectionInv ==
    /\ MaskTypes /\ ListTypes /\ UsableInv /\ LoopInv /\ AllowedInv /\ PinnedInv

\* A selection looks for one core at least, and for one per worker at most.
LEMMA WantedIsBounded ==
    ASSUME AffinityAssumption
    PROVE  Wanted \in 1..Workers
BY DEF AffinityAssumption, Wanted

\* Where it is reported at all, the mask is what a selection is limited to.
LEMMA AllowedIsMask ==
    ASSUME AffinityAssumption, mask \in Masks
    PROVE  /\ AllowedCores \in Masks
           /\ machine.captures => AllowedCores = mask
<1>1. Cores \in Masks
  BY DEF AffinityAssumption, Masks
<1>2. QED
  BY <1>1 DEF AllowedCores, Captured, NoMask, Masks

\* No core has been looked at or chosen yet.
LEMMA InitSelects ==
    ASSUME AffinityAssumption, Init
    PROVE  SelectionInv
<1>1. machine \in Machines /\ Len(Cases) \in Nat /\ Workers \in Nat
  BY DEF Init, AffinityAssumption
<1>2. MaskTypes
  <2>1. mask \in Masks
    <3>1. IsMachine(machine)
      BY <1>1 DEF AffinityAssumption
    <3>2. QED
      BY <3>1 DEF Init, IsMachine, Masks
  <2>2. guard \in [restore : SUBSET Cores, didPin : BOOLEAN]
    BY DEF Init, NoGuard, NoMask
  <2>3. QED
    BY <1>1, <2>1, <2>2 DEF Init, MaskTypes
<1>3. ListTypes
  BY <1>1 DEF Init, ListTypes, IsInjective
<1>4. UsableInv /\ LoopInv
  BY DEF Init, UsableInv, LoopInv
<1>5. AllowedInv /\ PinnedInv
  BY DEF Init, AllowedInv, PinnedInv
<1>6. QED
  BY <1>2, <1>3, <1>4, <1>5 DEF SelectionInv

-------------------------------------------------------------------------------
(* Choosing cores: every step preserves the invariant *)

\* A machine that has not refused by now had not refused before.
LEMMA ReliableBefore ==
    ASSUME [Next]_vars, Reliable'
    PROVE  Reliable /\ machine' = machine
<1>1. machine' = machine
  BY DEF Next, Acquire, Probe, EndProbing, FillUp, EndSelection, Pin, Release,
         StartConcurrent, SpawnWorkers, JoinWorkers, WorkerPins, Terminating, vars
<1>2. (refused' = refused) \/ refused'
  BY DEF Next, Acquire, Probe, ProbeEnds, RestoreMask, EndProbing, FillUp,
         EndSelection, Pin, Release, StartConcurrent, SpawnWorkers, JoinWorkers,
         WorkerPins, Terminating, vars
<1>3. QED
  BY <1>1, <1>2 DEF Reliable

\* A probe looks at the next candidate, and keeps it if it is usable.
LEMMA ProbeSelects ==
    ASSUME AffinityAssumption, AffinityInv, SelectionInv, Probe
    PROVE  SelectionInv'
<1> USE DEF SelectionInv
<1> DEFINE core == candidates[seen + 1]
<1>1. /\ pc = "probe" /\ Len(usable) < Wanted /\ seen < Len(candidates)
      /\ seen' = seen + 1
      /\ UNCHANGED <<machine, pc, done, guard, candidates, pinCores, workers, pinned>>
  BY DEF Probe, workerVars
<1>2. \/ /\ ProbeEnds(core)
         /\ usable' = usable \/ usable' = Append(usable, core)
      \/ UNCHANGED <<mask, usable>>
  BY DEF Probe
<1>3. Len(candidates) \in Nat /\ seen \in Nat /\ Len(usable) \in Nat
  BY DEF ListTypes
<1>4. seen + 1 \in DOMAIN candidates /\ core \in Cores
  BY <1>1, <1>3 DEF ListTypes
<1>5. \A i \in DOMAIN usable : usable[i] # core
  <2> SUFFICES ASSUME NEW i \in DOMAIN usable, usable[i] = core
               PROVE  FALSE
    OBVIOUS
  <2>1. PICK k \in DOMAIN candidates : candidates[k] = usable[i] /\ k <= seen
    BY <1>1 DEF UsableInv
  <2>2. k = seen + 1
    BY <1>4, <2>1 DEF ListTypes, IsInjective
  <2>3. QED
    BY <1>3, <2>1, <2>2
<1> HIDE DEF core
<1>6. /\ usable' \in Seq(Cores) /\ IsInjective(usable')
      /\ Len(usable') <= Len(usable) + 1
      /\ \A i \in DOMAIN usable' :
            usable'[i] = core \/ (i \in DOMAIN usable /\ usable'[i] = usable[i])
  <2>1. CASE usable' = usable
    BY <1>3, <2>1 DEF ListTypes
  <2>2. CASE usable' = Append(usable, core)
    <3>1. usable \in Seq(Cores) /\ IsInjective(usable)
      BY DEF ListTypes
    <3>2. Append(usable, core) \in Seq(Cores) /\ IsInjective(Append(usable, core))
      BY <1>4, <1>5, <3>1, ListGrows
    <3>3. Len(Append(usable, core)) = Len(usable) + 1
      BY <1>4, <1>5, <3>1, ListGrows
    <3>4. \A i \in DOMAIN Append(usable, core) :
             \/ i = Len(usable) + 1 /\ Append(usable, core)[i] = core
             \/ i \in DOMAIN usable /\ Append(usable, core)[i] = usable[i]
      BY <1>4, <1>5, <3>1, ListGrows
    <3>5. QED
      BY <1>3, <2>2, <3>2, <3>3, <3>4
  <2>3. QED
    BY <1>2, <2>1, <2>2
<1>7. mask' \in Masks
  <2>1. CASE UNCHANGED <<mask, usable>>
    BY <2>1 DEF MaskTypes
  <2>2. CASE ProbeEnds(core)
    <3>1. mask' \in {mask, {core}}
      BY <2>2 DEF ProbeEnds, RestoreMask, Captured
    <3>2. QED
      BY <1>4, <3>1 DEF MaskTypes, Masks
  <2>3. QED
    BY <1>2, <2>1, <2>2
<1>8. MaskTypes'
  BY <1>1, <1>7 DEF MaskTypes
<1>9. ListTypes'
  BY <1>1, <1>3, <1>6 DEF ListTypes
<1>10. UsableInv'
  <2> SUFFICES ASSUME NEW i \in DOMAIN usable'
               PROVE  \E k \in DOMAIN candidates :
                         candidates[k] = usable'[i] /\ k <= seen + 1
    BY <1>1 DEF UsableInv
  <2>1. CASE usable'[i] = core
    BY <1>3, <1>4, <2>1 DEF core
  <2>2. CASE i \in DOMAIN usable /\ usable'[i] = usable[i]
    <3>1. PICK k \in DOMAIN candidates : candidates[k] = usable[i] /\ k <= seen
      BY <1>1, <2>2 DEF UsableInv
    <3>2. k \in Nat
      BY DEF ListTypes
    <3>3. QED
      BY <1>3, <2>2, <3>1, <3>2
  <2>3. QED
    BY <1>6, <2>1, <2>2
<1>11. LoopInv'
  <2>1. Wanted' = Wanted /\ Wanted \in Nat
    BY <1>1, WantedIsBounded DEF Wanted, AffinityAssumption
  <2>2. Len(usable') <= Wanted /\ candidates # <<>>
    <3>1. Len(usable') \in Nat
      BY <1>6
    <3>2. QED
      BY <1>1, <1>3, <1>6, <2>1, <3>1 DEF LoopInv
  <2>3. QED
    BY <1>1, <2>1, <2>2 DEF LoopInv
<1>12. AllowedInv'
  <2>1. Reliable' => Reliable
    BY ReliableBefore DEF Next
  <2>2. QED
    BY <1>1, <2>1 DEF AllowedInv
<1>13. PinnedInv'
  BY <1>1 DEF PinnedInv
<1>14. QED
  BY <1>8, <1>9, <1>10, <1>11, <1>12, <1>13

\* The chosen cores are filled up, with the candidates that are not among them.
LEMMA FillingSelects ==
    ASSUME AffinityAssumption, AffinityInv, SelectionInv,
           EndProbing \/ FillUp \/ EndSelection
    PROVE  SelectionInv'
<1> USE DEF SelectionInv
<1>1. /\ pc \in {"probe", "fill"}
      /\ UNCHANGED <<machine, done, mask, guard, candidates, usable, workers,
                     pinned, refused>>
  BY DEF EndProbing, FillUp, EndSelection, selectionVars, workerVars
<1>2. Reliable' <=> Reliable
  BY <1>1 DEF Reliable
<1>3. Wanted' = Wanted /\ Wanted \in 1..Workers /\ Workers \in Nat
  BY <1>1, WantedIsBounded DEF Wanted, AffinityAssumption
<1>4. /\ Len(candidates) \in Nat /\ seen \in Nat /\ Len(usable) \in Nat
      /\ Len(pinCores) \in Nat
  BY DEF ListTypes
<1>5. CASE EndProbing
  <2>1. /\ pc = "probe" /\ pc' = "fill" /\ pinCores' = usable /\ seen' = 0
        /\ Len(usable) <= Wanted
    BY <1>5 DEF EndProbing, LoopInv
  <2>2. MaskTypes' /\ PinnedInv'
    <3>1. workers = <<>> /\ pinned = {}
      BY <2>1 DEF PinnedInv
    <3>2. QED
      BY <1>1, <2>1, <3>1 DEF MaskTypes, PinnedInv
  <2>3. ListTypes'
    BY <1>1, <1>3, <1>4, <2>1 DEF ListTypes
  <2>4. UsableInv'
    BY <1>1, <2>1 DEF UsableInv
  <2>5. LoopInv'
    BY <1>1, <1>3, <2>1 DEF LoopInv
  <2>6. AllowedInv'
    <3> SUFFICES ASSUME Reliable
                 PROVE  /\ candidates \in Seq(machine.mask)
                        /\ usable \in Seq(machine.mask)
      BY <1>1, <1>2, <2>1 DEF AllowedInv
    <3>1. candidates \in Seq(machine.mask)
      BY <2>1 DEF AllowedInv
    <3>2. \A i \in DOMAIN usable : usable[i] \in machine.mask
      BY <3>1 DEF UsableInv
    <3>3. usable \in Seq(Cores)
      BY DEF ListTypes
    <3>4. QED
      BY <3>1, <3>2, <3>3
  <2>7. QED
    BY <2>2, <2>3, <2>4, <2>5, <2>6
<1>6. CASE FillUp
  <2> DEFINE core == candidates[seen + 1]
  <2>1. /\ pc = "fill" /\ pc' = "fill" /\ seen' = seen + 1
        /\ Len(pinCores) < Wanted /\ seen < Len(candidates)
    BY <1>6 DEF FillUp
  <2>2. \/ pinCores' = pinCores /\ core \in ToSet(pinCores)
        \/ pinCores' = Append(pinCores, core) /\ core \notin ToSet(pinCores)
    BY <1>6 DEF FillUp
  <2>3. seen + 1 \in DOMAIN candidates /\ core \in Cores
    BY <1>4, <2>1 DEF ListTypes
  <2>4. Reliable => core \in machine.mask /\ pinCores \in Seq(machine.mask)
    BY <2>1, <2>3 DEF AllowedInv
  <2> HIDE DEF core
  <2>5. /\ pinCores' \in Seq(Cores) /\ IsInjective(pinCores')
        /\ Len(pinCores') <= Wanted /\ pinCores' # <<>>
    <3>1. pinCores \in Seq(Cores) /\ IsInjective(pinCores)
      BY DEF ListTypes
    <3>2. CASE pinCores' = pinCores /\ core \in ToSet(pinCores)
      BY <1>3, <1>4, <2>1, <3>1, <3>2 DEF ToSet
    <3>3. CASE pinCores' = Append(pinCores, core) /\ core \notin ToSet(pinCores)
      <4>1. \A i \in DOMAIN pinCores : pinCores[i] # core
        BY <3>3 DEF ToSet
      <4>2. Append(pinCores, core) \in Seq(Cores)
        BY <2>3, <3>1
      <4>3. IsInjective(Append(pinCores, core))
        BY <2>3, <3>1, <4>1, ListGrows
      <4>4. Len(Append(pinCores, core)) = Len(pinCores) + 1
        BY <3>1
      <4>5. QED
        BY <1>3, <1>4, <2>1, <3>3, <4>2, <4>3, <4>4
    <3>4. QED
      BY <2>2, <3>2, <3>3
  <2>6. MaskTypes' /\ PinnedInv'
    <3>1. workers = <<>> /\ pinned = {}
      BY <2>1 DEF PinnedInv
    <3>2. QED
      BY <1>1, <2>1, <3>1 DEF MaskTypes, PinnedInv
  <2>7. ListTypes'
    <3>1. Len(pinCores') <= Workers
      <4>1. Len(pinCores') \in Nat
        BY <2>5
      <4>2. QED
        BY <1>3, <2>5, <4>1
    <3>2. seen' \in 0..Len(candidates)
      BY <1>4, <2>1
    <3>3. QED
      BY <1>1, <2>5, <3>1, <3>2 DEF ListTypes
  <2>8. UsableInv'
    BY <1>1, <2>1 DEF UsableInv
  <2>9. LoopInv'
    BY <1>1, <1>3, <2>1, <2>5 DEF LoopInv
  <2>10. AllowedInv'
    <3>1. ASSUME Reliable PROVE pinCores' \in Seq(machine.mask)
      <4>1. core \in machine.mask /\ pinCores \in Seq(machine.mask)
        BY <2>4, <3>1
      <4>2. Append(pinCores, core) \in Seq(machine.mask)
        BY <4>1
      <4>3. QED
        BY <2>2, <4>1, <4>2
    <3>2. QED
      BY <1>1, <1>2, <2>1, <3>1 DEF AllowedInv
  <2>11. QED
    BY <2>6, <2>7, <2>8, <2>9, <2>10
<1>7. CASE EndSelection
  <2>1. /\ pc = "fill" /\ pc' \in {"pin", "spawn"}
        /\ Len(pinCores) = Wanted \/ seen = Len(candidates)
        /\ UNCHANGED <<seen, pinCores>>
    BY <1>7 DEF EndSelection, selectionVars
  <2>2. pinCores # <<>>
    <3>1. CASE Len(pinCores) = Wanted
      BY <1>3, <3>1
    <3>2. CASE seen = Len(candidates)
      <4>1. candidates # <<>> /\ candidates \in Seq(Cores)
        BY <2>1 DEF LoopInv, ListTypes
      <4>2. seen > 0
        BY <3>2, <4>1
      <4>3. QED
        BY <2>1, <4>2 DEF LoopInv
    <3>3. QED
      BY <2>1, <3>1, <3>2
  <2>3. MaskTypes' /\ ListTypes' /\ PinnedInv'
    <3>1. workers = <<>> /\ pinned = {}
      BY <2>1 DEF PinnedInv
    <3>2. QED
      BY <1>1, <2>1, <3>1 DEF MaskTypes, ListTypes, PinnedInv
  <2>4. UsableInv'
    BY <1>1, <2>1 DEF UsableInv
  <2>5. LoopInv'
    BY <2>1, <2>2 DEF LoopInv
  <2>6. AllowedInv'
    BY <1>1, <1>2, <2>1 DEF AllowedInv
  <2>7. QED
    BY <2>3, <2>4, <2>5, <2>6
<1>8. QED
  BY <1>5, <1>6, <1>7

\* A case starts to choose among the allowed cores, or takes none.
LEMMA StartSelects ==
    ASSUME AffinityAssumption, AffinityInv, SelectionInv,
           Acquire \/ StartConcurrent
    PROVE  SelectionInv'
<1> USE DEF SelectionInv
<1>1. /\ pc = "idle" /\ pc' \in {"probe", "pin", "running", "spawn"}
      /\ done < Len(Cases)
      /\ UNCHANGED <<machine, done, mask, workers, pinned, refused>>
  BY DEF Acquire, StartConcurrent, StartsCase, workerVars
<1>2. workers = <<>> /\ pinned = {}
  BY <1>1 DEF PinnedInv
<1>3. Reliable' <=> Reliable
  BY <1>1 DEF Reliable
<1>4. mask \in Masks /\ AllowedCores \in Masks
  BY AllowedIsMask DEF MaskTypes
<1>5. Reliable => AllowedCores = machine.mask
  BY <1>1, <1>4, AllowedIsMask DEF AffinityInv, MaskInv, Reliable
<1>6. MaskTypes' /\ PinnedInv'
  <2>1. guard' \in [restore : SUBSET Cores, didPin : BOOLEAN]
    <3>1. CASE Acquire
      <4>1. /\ guard'.restore \in {NoMask, mask} /\ guard'.didPin = FALSE
            /\ guard' = [restore |-> guard'.restore, didPin |-> FALSE]
        BY <3>1 DEF Acquire, Captured
      <4>2. guard'.restore \in SUBSET Cores
        BY <1>4, <4>1 DEF NoMask, Masks
      <4>3. QED
        BY <4>1, <4>2
    <3>2. CASE StartConcurrent
      BY <3>2 DEF StartConcurrent, MaskTypes
    <3>3. QED
      BY <3>1, <3>2
  <2>2. MaskTypes'
    BY <1>1, <2>1 DEF MaskTypes
  <2>3. PinnedInv'
    BY <1>1, <1>2 DEF PinnedInv
  <2>4. QED
    BY <2>2, <2>3
<1>7. \/ /\ pc' = "running"
         /\ UNCHANGED <<candidates, seen, usable, pinCores>>
      \/ /\ pc' = "spawn" /\ pinCores' = <<>>
         /\ candidates' = <<>> /\ seen' = 0 /\ usable' = <<>>
      \/ /\ pc' = "pin" /\ machine.requested \in AllowedCores
         /\ pinCores' = <<machine.requested>>
         /\ candidates' = <<>> /\ seen' = 0 /\ usable' = <<>>
      \/ /\ pc' = "probe" /\ pinCores' = <<>>
         /\ candidates' = CandidatePinCores(AllowedCores)
         /\ seen' = 0 /\ usable' = <<>>
  BY DEF Acquire, StartConcurrent, StartSelection, selectionVars
<1>8. Wanted' = Wanted /\ Wanted \in Nat /\ Wanted >= 1 /\ Workers \in Nat \ {0}
  BY <1>1, WantedIsBounded DEF Wanted, AffinityAssumption
<1>9. CASE pc' = "running" /\ UNCHANGED <<candidates, seen, usable, pinCores>>
  <2>1. ListTypes'
    BY <1>9 DEF ListTypes
  <2>2. UsableInv' /\ LoopInv' /\ AllowedInv'
    BY <1>1, <1>9 DEF UsableInv, LoopInv, AllowedInv
  <2>3. QED
    BY <1>6, <2>1, <2>2
<1>10. CASE /\ pc' = "spawn" /\ pinCores' = <<>>
            /\ candidates' = <<>> /\ seen' = 0 /\ usable' = <<>>
  <2>1. ListTypes'
    BY <1>8, <1>10 DEF ListTypes, IsInjective
  <2>2. UsableInv' /\ LoopInv' /\ AllowedInv'
    BY <1>10 DEF UsableInv, LoopInv, AllowedInv
  <2>3. QED
    BY <1>6, <2>1, <2>2
<1>11. CASE /\ pc' = "pin" /\ machine.requested \in AllowedCores
            /\ pinCores' = <<machine.requested>>
            /\ candidates' = <<>> /\ seen' = 0 /\ usable' = <<>>
  <2>1. machine.requested \in Cores
    BY <1>4, <1>11 DEF Masks
  <2>2. ListTypes'
    <3>1. /\ <<machine.requested>> \in Seq(Cores)
          /\ Len(<<machine.requested>>) = 1 /\ IsInjective(<<machine.requested>>)
      BY <2>1 DEF IsInjective
    <3>2. QED
      BY <1>8, <1>11, <3>1 DEF ListTypes, IsInjective
  <2>3. UsableInv' /\ LoopInv'
    BY <1>11 DEF UsableInv, LoopInv
  <2>4. AllowedInv'
    <3>1. ASSUME Reliable PROVE pinCores' \in Seq(machine.mask)
      <4>1. machine.requested \in machine.mask
        BY <1>5, <1>11, <3>1
      <4>2. <<machine.requested>> \in Seq(machine.mask)
        BY <4>1, ListOfOne
      <4>3. QED
        BY <1>11, <4>2
    <3>2. QED
      BY <1>1, <1>3, <1>11, <3>1 DEF AllowedInv
  <2>5. QED
    BY <1>6, <2>2, <2>3, <2>4
<1>12. CASE /\ pc' = "probe" /\ pinCores' = <<>>
            /\ candidates' = CandidatePinCores(AllowedCores)
            /\ seen' = 0 /\ usable' = <<>>
  <2>1. /\ candidates' \in Seq(AllowedCores) /\ IsInjective(candidates')
        /\ candidates' # <<>>
    BY <1>4, <1>12, CandidatesAreAllowed DEF Masks
  <2>2. candidates' \in Seq(Cores) /\ Len(candidates') \in Nat
    BY <1>4, <2>1 DEF Masks
  <2>3. ListTypes'
    <3>1. IsInjective(<<>>) /\ Len(<<>>) = 0 /\ <<>> \in Seq(Cores)
      BY DEF IsInjective
    <3>2. QED
      BY <1>8, <1>12, <2>1, <2>2, <3>1 DEF ListTypes
  <2>4. UsableInv'
    BY <1>12 DEF UsableInv
  <2>5. LoopInv'
    BY <1>8, <1>12, <2>1 DEF LoopInv
  <2>6. AllowedInv'
    BY <1>1, <1>3, <1>5, <1>12, <2>1 DEF AllowedInv
  <2>7. QED
    BY <1>6, <2>3, <2>4, <2>5, <2>6
<1>13. QED
  BY <1>7, <1>9, <1>10, <1>11, <1>12

\* What was chosen is used: the guard pins its thread and lets go of it, and the
\* workers are spawned, pin themselves and are joined.
LEMMA PinningSelects ==
    ASSUME AffinityAssumption, AffinityInv, SelectionInv,
           \/ Pin \/ Release \/ SpawnWorkers \/ JoinWorkers
           \/ \E w \in 1..Workers : WorkerPins(w)
    PROVE  SelectionInv'
<1> USE DEF SelectionInv
<1>1. /\ pc \in {"pin", "running", "spawn", "sample"}
      /\ pc' \in {"running", "idle", "sample"}
      /\ (pc' = "sample" => pc \in {"spawn", "sample"})
      /\ UNCHANGED <<machine, candidates, seen, usable, pinCores>>
  BY DEF Pin, Release, SpawnWorkers, JoinWorkers, WorkerPins, selectionVars
<1>2. ListTypes'
  BY <1>1 DEF ListTypes
<1>3. UsableInv' /\ LoopInv'
  BY <1>1 DEF UsableInv, LoopInv
<1>4. AllowedInv'
  <2>1. Reliable' => Reliable
    BY ReliableBefore DEF Next
  <2>2. QED
    BY <1>1, <2>1 DEF AllowedInv
<1>5. CASE Pin
  <2>1. /\ pc = "pin" /\ pc' = "running" /\ UNCHANGED <<done, workers, pinned>>
        /\ mask' \in {mask, {pinCores[1]}}
        /\ guard' \in {NoGuard, [guard EXCEPT !.didPin = TRUE]}
    BY <1>5 DEF Pin, workerVars
  <2>2. pinCores[1] \in Cores
    BY <2>1 DEF LoopInv, ListTypes
  <2>3. mask' \in Masks
    BY <2>1, <2>2 DEF MaskTypes, Masks
  <2>4. guard' \in [restore : SUBSET Cores, didPin : BOOLEAN]
    <3>1. NoGuard \in [restore : SUBSET Cores, didPin : BOOLEAN]
      BY DEF NoGuard, NoMask
    <3>2. [guard EXCEPT !.didPin = TRUE] \in [restore : SUBSET Cores, didPin : BOOLEAN]
      BY DEF MaskTypes
    <3>3. QED
      BY <2>1, <3>1, <3>2
  <2>5. MaskTypes'
    BY <2>1, <2>3, <2>4 DEF MaskTypes
  <2>6. PinnedInv'
    BY <1>1, <2>1 DEF PinnedInv
  <2>7. QED
    BY <1>2, <1>3, <1>4, <2>5, <2>6
<1>6. CASE Release
  <2>1. /\ pc = "running" /\ pc' = "idle" /\ done' = done + 1
        /\ guard' = NoGuard /\ UNCHANGED <<workers, pinned>>
    BY <1>6 DEF Release, workerVars
  <2>2. mask' \in {mask, guard.restore} /\ (mask' = guard.restore => mask' # NoMask)
    <3>1. mask # NoMask
      BY DEF MaskTypes, Masks, NoMask
    <3>2. QED
      BY <1>6, <3>1 DEF Release, RestoreMask
  <2>3. mask' \in Masks
    BY <2>2 DEF MaskTypes, Masks, NoMask
  <2>4. guard' \in [restore : SUBSET Cores, didPin : BOOLEAN]
    BY <2>1 DEF NoGuard, NoMask
  <2>5. done' \in 0..Len(Cases)
    <3>1. Len(Cases) \in Nat
      BY DEF AffinityAssumption
    <3>2. QED
      BY <2>1, <3>1 DEF MaskTypes
  <2>6. MaskTypes'
    BY <2>1, <2>3, <2>4, <2>5 DEF MaskTypes
  <2>7. PinnedInv'
    BY <1>1, <2>1 DEF PinnedInv
  <2>8. QED
    BY <1>2, <1>3, <1>4, <2>6, <2>7
<1>7. CASE SpawnWorkers
  <2>1. /\ pc = "spawn" /\ pc' = "sample" /\ UNCHANGED <<done, mask, guard>>
        /\ workers' = [w \in 1..Workers |-> mask] /\ pinned' = {}
    BY <1>7 DEF SpawnWorkers
  <2>2. MaskTypes' /\ PinnedInv'
    BY <2>1 DEF MaskTypes, PinnedInv
  <2>3. QED
    BY <1>2, <1>3, <1>4, <2>2
<1>8. CASE JoinWorkers
  <2>1. /\ pc = "sample" /\ pc' = "idle" /\ done' = done + 1
        /\ UNCHANGED <<mask, guard>> /\ workers' = <<>> /\ pinned' = {}
    BY <1>8 DEF JoinWorkers
  <2>2. done' \in 0..Len(Cases)
    <3>1. Len(Cases) \in Nat
      BY DEF AffinityAssumption
    <3>2. QED
      BY <2>1, <3>1 DEF MaskTypes
  <2>3. MaskTypes' /\ PinnedInv'
    BY <2>1, <2>2 DEF MaskTypes, PinnedInv
  <2>4. QED
    BY <1>2, <1>3, <1>4, <2>3
<1>9. ASSUME NEW w \in 1..Workers, WorkerPins(w)
      PROVE  SelectionInv'
  <2>1. /\ pc = "sample" /\ pc' = "sample" /\ UNCHANGED <<done, mask, guard>>
        /\ w \in DOMAIN workers /\ w <= Len(pinCores)
        /\ workers' = [workers EXCEPT ![w] = {pinCores[w]}]
        /\ pinned' = pinned \cup {w}
    BY <1>9 DEF WorkerPins
  <2>2. w \in DOMAIN pinCores /\ pinCores[w] \in Cores
    BY <2>1 DEF ListTypes, AffinityAssumption
  <2>3. /\ DOMAIN workers' = DOMAIN workers /\ workers'[w] = {pinCores[w]}
        /\ \A v \in DOMAIN workers \ {w} : workers'[v] = workers[v]
    BY <2>1
  <2>4. PinnedInv'
    <3>1. pinned' \subseteq DOMAIN workers'
      BY <2>1, <2>3 DEF PinnedInv
    <3>2. \A v \in DOMAIN workers' : workers'[v] \in Masks
      BY <2>2, <2>3 DEF PinnedInv, Masks
    <3>3. \A v \in pinned' : v \in DOMAIN pinCores /\ workers'[v] = {pinCores[v]}
      BY <2>1, <2>2, <2>3 DEF PinnedInv
    <3>4. QED
      BY <1>1, <2>1, <3>1, <3>2, <3>3 DEF PinnedInv
  <2>5. MaskTypes'
    BY <2>1 DEF MaskTypes
  <2>6. QED
    BY <1>2, <1>3, <1>4, <2>4, <2>5
<1>10. QED
  BY <1>5, <1>6, <1>7, <1>8, <1>9

\* Every step of the process keeps the invariant about the chosen cores.
LEMMA StepSelects ==
    ASSUME AffinityAssumption, AffinityInv, SelectionInv, [Next]_vars
    PROVE  SelectionInv'
<1>1. CASE UNCHANGED vars
  <2>1. UNCHANGED <<machine, pc, done, mask, guard, candidates, seen, usable,
                    pinCores, workers, pinned, refused>>
    BY <1>1 DEF vars, selectionVars, workerVars
  <2>2. Reliable' <=> Reliable
    BY <2>1 DEF Reliable
  <2>3. Wanted' = Wanted
    BY <2>1 DEF Wanted
  <2>4. MaskTypes' /\ ListTypes' /\ UsableInv' /\ LoopInv' /\ AllowedInv' /\ PinnedInv'
    BY <2>1, <2>2, <2>3 DEF SelectionInv, MaskTypes, ListTypes, UsableInv, LoopInv,
                            AllowedInv, PinnedInv
  <2>5. QED
    BY <2>4 DEF SelectionInv
<1>2. CASE Terminating
  BY <1>1, <1>2 DEF Terminating
<1>3. QED
  BY <1>1, <1>2, ProbeSelects, FillingSelects, StartSelects, PinningSelects DEF Next

\* The choice of cores keeps its invariant in every behaviour.
THEOREM SelectionInvHolds == Spec => []SelectionInv
<1>1. Init => SelectionInv
  BY AffinityAssumption, InitSelects
<1>2. AffinityInv /\ SelectionInv /\ [Next]_vars => SelectionInv'
  BY AffinityAssumption, StepSelects
<1>3. QED
  BY <1>1, <1>2, AffinityInvHolds, PTL DEF Spec

\* Every variable keeps its type: masks always allow some core, and no more
\* cores are chosen than there are workers.
THEOREM AffinityTypeCorrect == Spec => []TypeOK
<1>1. ASSUME AffinityInv, SelectionInv
      PROVE  TypeOK
  <2>1. /\ machine \in Machines
        /\ pc \in {"idle", "probe", "fill", "pin", "running", "spawn", "sample"}
    BY <1>1 DEF AffinityInv, Places, Positions
  <2>2. /\ mask \in (SUBSET Cores) \ {{}} /\ done \in 0..Len(Cases)
        /\ guard \in [restore : SUBSET Cores, didPin : BOOLEAN]
    BY <1>1 DEF SelectionInv, MaskTypes, Masks
  <2>3. /\ seen \in 0..Len(candidates) /\ Len(pinCores) <= Workers
        /\ ToSet(candidates) \subseteq Cores /\ ToSet(pinCores) \subseteq Cores
    BY <1>1 DEF SelectionInv, ListTypes, ToSet
  <2>4. ToSet(usable) \subseteq ToSet(candidates)
    BY <1>1 DEF SelectionInv, UsableInv, ToSet
  <2>5. /\ pinned \subseteq DOMAIN workers
        /\ \A w \in DOMAIN workers : workers[w] \in (SUBSET Cores) \ {{}}
    BY <1>1 DEF SelectionInv, PinnedInv, Masks
  <2>6. QED
    BY <2>1, <2>2, <2>3, <2>4, <2>5 DEF TypeOK
<1>2. QED
  BY <1>1, AffinityInvHolds, SelectionInvHolds, PTL

\* choose_concurrent_pin_cores: the workers of a sample pin themselves to
\* different cores, and to cores that the process may use.
THEOREM WorkersStayApart == Spec => []WorkersKeepApart
<1>1. ASSUME AffinityInv, SelectionInv
      PROVE  WorkersKeepApart
  <2> SUFFICES ASSUME NEW v \in pinned, NEW w \in pinned
               PROVE  /\ v # w => workers[v] \cap workers[w] = {}
                      /\ Reliable => workers[v] \subseteq machine.mask
    BY DEF WorkersKeepApart, Reliable
  <2>1. /\ v \in DOMAIN pinCores /\ workers[v] = {pinCores[v]}
        /\ w \in DOMAIN pinCores /\ workers[w] = {pinCores[w]}
    BY <1>1 DEF SelectionInv, PinnedInv
  <2>2. v # w => pinCores[v] # pinCores[w]
    BY <1>1, <2>1 DEF SelectionInv, ListTypes, IsInjective
  <2>3. pc = "sample"
    BY <1>1 DEF SelectionInv, PinnedInv
  <2>4. Reliable => pinCores[v] \in machine.mask
    BY <1>1, <2>1, <2>3 DEF SelectionInv, AllowedInv
  <2>5. QED
    BY <2>1, <2>2, <2>4
<1>2. QED
  BY <1>1, AffinityInvHolds, SelectionInvHolds, PTL
-------------------------------------------------------------------------------
(* Preferring usable and fast cores: the inductive invariant *)

Fast == PerformanceCores(machine.topology)

\* Every attempt to move a thread succeeds, so that a probe tells what it asks.
Honest == "pin" \notin machine.refuses

\* The candidates are in the order of preference.
FastFirst ==
    \A i, j \in DOMAIN candidates :
        i < j /\ candidates[j] \in Fast => candidates[i] \in Fast

\* A probe finds what there is.
ProbedInv ==
    /\ \A i \in DOMAIN usable : usable[i] \in machine.pmu
    /\ Honest /\ pc = "probe" =>
          \A k \in 1..seen : candidates[k] \in machine.pmu =>
             \E i \in DOMAIN usable : usable[i] = candidates[k]

\* A usable candidate that was passed over comes after enough usable ones.
PassedOverInv ==
    Honest /\ pc \in {"fill", "pin", "spawn"} =>
        \A k \in DOMAIN candidates : candidates[k] \in machine.pmu =>
            \/ \E i \in DOMAIN usable : usable[i] = candidates[k]
            \/ /\ Len(usable) = Wanted
               /\ \A m \in DOMAIN candidates, i \in DOMAIN usable :
                     candidates[m] = usable[i] => m < k

\* The chosen cores are the usable ones, and what the second loop added to them
\* if there were too few.
FilledInv ==
    pc \in {"fill", "pin", "spawn"} /\ candidates # <<>> =>
        /\ \A i \in DOMAIN usable : \E j \in DOMAIN pinCores : pinCores[j] = usable[i]
        /\ \A k \in 1..seen : \E j \in DOMAIN pinCores : pinCores[j] = candidates[k]
        /\ \A j \in DOMAIN pinCores :
              \/ \E i \in DOMAIN usable : usable[i] = pinCores[j]
              \/ \E k \in 1..seen : candidates[k] = pinCores[j]
        /\ Len(usable) = Wanted => pinCores = usable

RankInv == FastFirst /\ ProbedInv /\ PassedOverInv /\ FilledInv

\* What a list of members of S contains are members of S.
LEMMA ItemsAreMembers ==
    ASSUME NEW S, NEW s \in Seq(S), NEW i \in DOMAIN s
    PROVE  s[i] \in S
OBVIOUS

\* In two lists put together, what is of the kind of the first comes first.
LEMMA FirstListFirst ==
    ASSUME NEW S, NEW T, \A x \in S : x \notin T, NEW s \in Seq(S), NEW t \in Seq(T)
    PROVE  \A i, j \in DOMAIN (s \o t) :
              i < j /\ (s \o t)[j] \in S => (s \o t)[i] \in S
<1>1. s \o t \in Seq(S \cup T) /\ Len(s \o t) = Len(s) + Len(t)
  <2>1. s \in Seq(S \cup T) /\ t \in Seq(S \cup T)
    OBVIOUS
  <2>2. QED
    BY <2>1
<1>2. /\ Len(s) \in Nat /\ Len(t) \in Nat
      /\ \A i \in 1..Len(s) : (s \o t)[i] = s[i] /\ s[i] \in S
      /\ \A i \in (Len(s) + 1)..(Len(s) + Len(t)) :
            /\ (s \o t)[i] = t[i - Len(s)] /\ i - Len(s) \in 1..Len(t)
            /\ t[i - Len(s)] \in T
  OBVIOUS
<1>3. DOMAIN (s \o t) = 1..(Len(s) + Len(t))
  BY <1>1
<1> DEFINE joined == s \o t
<1>4. ASSUME NEW i \in 1..(Len(s) + Len(t)), NEW j \in 1..(Len(s) + Len(t)),
             i < j, joined[j] \in S
      PROVE  joined[i] \in S
  <2>1. j \in 1..Len(s)
    BY <1>2, <1>4
  <2>2. i \in 1..Len(s)
    BY <1>2, <1>4, <2>1
  <2>3. QED
    BY <1>2, <2>2
<1>5. QED
  BY <1>3, <1>4

\* In such a list of candidates every fast core is before every other one.
LEMMA PreferredInOrder ==
    ASSUME AffinityAssumption, NEW allowed \in (SUBSET Cores) \ {{}}, NEW fast,
           NEW list, list = Ascending(fast \cap allowed) \o Ascending(allowed \ fast)
    PROVE  \A i, j \in DOMAIN list : i < j /\ list[j] \in fast => list[i] \in fast
<1> DEFINE better == fast \cap allowed
           others == allowed \ fast
<1>1. Ascending(better) \in Seq(better) /\ Ascending(others) \in Seq(others)
  BY AscendingLists
<1>2. \A core \in better : core \notin others
  OBVIOUS
<1>3. list \in Seq(allowed)
  BY PreferredFirst
<1>4. \A core \in allowed : core \in better <=> core \in fast
  OBVIOUS
<1>5. list = Ascending(better) \o Ascending(others)
  OBVIOUS
<1> HIDE DEF better, others
<1>6. \A i, j \in DOMAIN list : i < j /\ list[j] \in better => list[i] \in better
  BY <1>1, <1>2, <1>5, FirstListFirst
<1>7. ASSUME NEW i \in DOMAIN list
      PROVE  list[i] \in better <=> list[i] \in fast
  <2>1. list[i] \in allowed
    BY <1>3, ItemsAreMembers
  <2>2. QED
    BY <1>4, <2>1
<1>8. QED
  BY <1>6, <1>7

\* candidate_pin_cores puts the performance cores first.
LEMMA CandidatesAreRanked ==
    ASSUME AffinityAssumption, NEW allowed \in (SUBSET Cores) \ {{}},
           NEW list, list = CandidatePinCores(allowed)
    PROVE  \A i, j \in DOMAIN list : i < j /\ list[j] \in Fast => list[i] \in Fast
BY PreferredInOrder DEF CandidatePinCores, Fast

\* A probe that can tell remembers the candidate if it is usable.
LEMMA ProbeRanks ==
    ASSUME AffinityAssumption, AffinityInv, SelectionInv, RankInv, Probe
    PROVE  RankInv'
<1> DEFINE core == candidates[seen + 1]
<1>1. /\ pc = "probe" /\ Len(usable) < Wanted /\ seen < Len(candidates)
      /\ seen' = seen + 1
      /\ UNCHANGED <<machine, pc, done, candidates, pinCores>>
  BY DEF Probe
<1>2. \/ usable' = IF core \in machine.pmu THEN Append(usable, core) ELSE usable
      \/ "pin" \in machine.refuses /\ usable' = usable
  BY DEF Probe
<1>3. /\ seen \in Nat /\ Len(candidates) \in Nat /\ Len(usable) \in Nat
      /\ usable \in Seq(Cores) /\ core \in Cores
  BY <1>1 DEF SelectionInv, ListTypes
<1> HIDE DEF core
<1>4. FastFirst'
  BY <1>1 DEF RankInv, FastFirst, Fast
<1>5. /\ \A i \in DOMAIN usable : i \in DOMAIN usable' /\ usable'[i] = usable[i]
      /\ \A i \in DOMAIN usable' :
            \/ i \in DOMAIN usable /\ usable'[i] = usable[i]
            \/ usable'[i] = core /\ core \in machine.pmu
      /\ Honest /\ core \in machine.pmu =>
            \E i \in DOMAIN usable' : usable'[i] = core
  <2>1. CASE usable' = usable /\ (core \notin machine.pmu \/ ~Honest)
    BY <2>1
  <2>2. CASE usable' = Append(usable, core) /\ core \in machine.pmu
    <3>1. /\ DOMAIN usable' = 1..(Len(usable) + 1) /\ DOMAIN usable = 1..Len(usable)
          /\ usable'[Len(usable) + 1] = core
          /\ \A i \in 1..Len(usable) : usable'[i] = usable[i]
      BY <1>3, <2>2
    <3>2. QED
      BY <1>3, <2>2, <3>1
  <2>3. QED
    BY <1>2, <2>1, <2>2 DEF Honest
<1>6. ProbedInv'
  <2>1. \A i \in DOMAIN usable' : usable'[i] \in machine.pmu
    BY <1>5 DEF RankInv, ProbedInv
  <2>2. ASSUME Honest, NEW k \in 1..(seen + 1), candidates[k] \in machine.pmu
        PROVE  \E i \in DOMAIN usable' : usable'[i] = candidates[k]
    <3>1. CASE k = seen + 1
      BY <1>5, <2>2, <3>1 DEF core
    <3>2. CASE k \in 1..seen
      <4>1. PICK i \in DOMAIN usable : usable[i] = candidates[k]
        BY <1>1, <2>2, <3>2 DEF RankInv, ProbedInv
      <4>2. QED
        BY <1>5, <4>1
    <3>3. QED
      BY <1>3, <3>1, <3>2
  <2>3. QED
    BY <1>1, <2>1, <2>2 DEF ProbedInv, Honest
<1>7. PassedOverInv' /\ FilledInv'
  BY <1>1 DEF PassedOverInv, FilledInv
<1>8. QED
  BY <1>4, <1>6, <1>7 DEF RankInv

\* The second loop starts from the usable cores, and adds what is missing.
LEMMA FillingRanks ==
    ASSUME AffinityAssumption, AffinityInv, SelectionInv, RankInv,
           EndProbing \/ FillUp \/ EndSelection
    PROVE  RankInv'
<1>1. /\ pc \in {"probe", "fill"} /\ pc' \in {"fill", "pin", "spawn"}
      /\ UNCHANGED <<machine, done, candidates, usable>>
  BY DEF EndProbing, FillUp, EndSelection, selectionVars
<1>2. Wanted' = Wanted /\ (Honest' <=> Honest)
  BY <1>1 DEF Wanted, Honest
<1>3. /\ seen \in Nat /\ Len(candidates) \in Nat
      /\ \A k \in DOMAIN candidates : k \in 1..Len(candidates)
      /\ \A k \in 1..Len(candidates) : k \in DOMAIN candidates
      /\ pinCores \in Seq(Cores) /\ Len(pinCores) \in Nat
  BY DEF SelectionInv, ListTypes
<1>4. FastFirst'
  BY <1>1 DEF RankInv, FastFirst, Fast
<1>5. ProbedInv'
  BY <1>1 DEF RankInv, ProbedInv
<1>6. CASE EndProbing
  <2>1. /\ pc = "probe" /\ pc' = "fill" /\ pinCores' = usable /\ seen' = 0
        /\ Len(usable) = Wanted \/ seen = Len(candidates)
    BY <1>6 DEF EndProbing
  <2>2. PassedOverInv'
    <3> SUFFICES ASSUME Honest, NEW k \in DOMAIN candidates,
                        candidates[k] \in machine.pmu,
                        ~ \E i \in DOMAIN usable : usable[i] = candidates[k]
                 PROVE  /\ Len(usable) = Wanted
                        /\ \A m \in DOMAIN candidates, i \in DOMAIN usable :
                              candidates[m] = usable[i] => m < k
      BY <1>1, <1>2 DEF PassedOverInv
    <3>1. k \notin 1..seen
      BY <2>1 DEF RankInv, ProbedInv
    <3>2. k \in Nat /\ k > seen /\ seen # Len(candidates)
      <4>1. k \in 1..Len(candidates)
        BY <1>3
      <4>2. QED
        BY <1>3, <3>1, <4>1
    <3>3. ASSUME NEW m \in DOMAIN candidates, NEW i \in DOMAIN usable,
                 candidates[m] = usable[i]
          PROVE  m < k
      <4>1. PICK n \in DOMAIN candidates : candidates[n] = usable[i] /\ n <= seen
        BY <2>1 DEF SelectionInv, UsableInv
      <4>2. n = m
        BY <3>3, <4>1 DEF SelectionInv, ListTypes, IsInjective
      <4>3. QED
        <5>1. n \in Nat
          BY <1>3
        <5>2. QED
          BY <1>3, <3>2, <4>1, <4>2, <5>1
    <3>4. QED
      BY <2>1, <3>2, <3>3
  <2>3. FilledInv'
    BY <1>1, <2>1 DEF FilledInv
  <2>4. QED
    BY <1>4, <1>5, <2>2, <2>3 DEF RankInv
<1>7. CASE FillUp
  <2> DEFINE core == candidates[seen + 1]
  <2>1. /\ pc = "fill" /\ pc' = "fill" /\ seen' = seen + 1
        /\ Len(pinCores) < Wanted /\ seen < Len(candidates)
        /\ \/ pinCores' = pinCores /\ core \in ToSet(pinCores)
           \/ pinCores' = Append(pinCores, core)
    BY <1>7 DEF FillUp
  <2>2. PassedOverInv'
    BY <1>1, <1>2, <2>1 DEF RankInv, PassedOverInv
  <2>3. FilledInv
    BY DEF RankInv
  <2>4. core \in Cores
    BY <1>3, <2>1 DEF SelectionInv, ListTypes
  <2> HIDE DEF core
  <2>5. /\ \A j \in DOMAIN pinCores : j \in DOMAIN pinCores' /\ pinCores'[j] = pinCores[j]
        /\ \A j \in DOMAIN pinCores' :
              (j \in DOMAIN pinCores /\ pinCores'[j] = pinCores[j]) \/ pinCores'[j] = core
        /\ \E j \in DOMAIN pinCores' : pinCores'[j] = core
    <3>1. CASE pinCores' = pinCores /\ core \in ToSet(pinCores)
      BY <3>1 DEF ToSet
    <3>2. CASE pinCores' = Append(pinCores, core)
      <4>1. /\ DOMAIN pinCores' = 1..(Len(pinCores) + 1)
            /\ DOMAIN pinCores = 1..Len(pinCores)
            /\ pinCores'[Len(pinCores) + 1] = core
            /\ \A j \in 1..Len(pinCores) : pinCores'[j] = pinCores[j]
        BY <1>3, <2>4, <3>2
      <4>2. QED
        BY <1>3, <4>1
    <3>3. QED
      BY <2>1, <3>1, <3>2
  <2>6. candidates # <<>> /\ Len(usable) # Wanted
    <3>1. candidates # <<>>
      BY <2>1 DEF SelectionInv, LoopInv
    <3>2. QED
      BY <2>1, <2>3, <3>1 DEF FilledInv, SelectionInv, ListTypes
  <2>7. \A i \in DOMAIN usable : \E j \in DOMAIN pinCores' : pinCores'[j] = usable[i]
    BY <2>1, <2>3, <2>5, <2>6 DEF FilledInv
  <2>8. \A k \in 1..(seen + 1) : \E j \in DOMAIN pinCores' : pinCores'[j] = candidates[k]
    <3> SUFFICES ASSUME NEW k \in 1..(seen + 1)
                 PROVE  \E j \in DOMAIN pinCores' : pinCores'[j] = candidates[k]
      OBVIOUS
    <3>1. CASE k = seen + 1
      BY <2>5, <3>1 DEF core
    <3>2. CASE k \in 1..seen
      <4>1. PICK j \in DOMAIN pinCores : pinCores[j] = candidates[k]
        BY <2>1, <2>3, <2>6, <3>2 DEF FilledInv
      <4>2. QED
        BY <2>5, <4>1
    <3>3. QED
      BY <1>3, <3>1, <3>2
  <2>9. \A j \in DOMAIN pinCores' :
           \/ \E i \in DOMAIN usable : usable[i] = pinCores'[j]
           \/ \E k \in 1..(seen + 1) : candidates[k] = pinCores'[j]
    <3> SUFFICES ASSUME NEW j \in DOMAIN pinCores'
                 PROVE  \/ \E i \in DOMAIN usable : usable[i] = pinCores'[j]
                        \/ \E k \in 1..(seen + 1) : candidates[k] = pinCores'[j]
      OBVIOUS
    <3>1. CASE pinCores'[j] = core
      BY <1>3, <3>1 DEF core
    <3>2. CASE j \in DOMAIN pinCores /\ pinCores'[j] = pinCores[j]
      <4>1. \/ \E i \in DOMAIN usable : usable[i] = pinCores[j]
            \/ \E k \in 1..seen : candidates[k] = pinCores[j]
        BY <2>1, <2>3, <2>6, <3>2 DEF FilledInv
      <4>2. 1..seen \subseteq 1..(seen + 1)
        BY <1>3
      <4>3. QED
        BY <3>2, <4>1, <4>2
    <3>3. QED
      BY <2>5, <3>1, <3>2
  <2>10. FilledInv'
    BY <1>1, <1>2, <2>1, <2>6, <2>7, <2>8, <2>9 DEF FilledInv
  <2>11. QED
    BY <1>4, <1>5, <2>2, <2>10 DEF RankInv
<1>8. CASE EndSelection
  <2>1. pc = "fill" /\ UNCHANGED <<seen, pinCores>>
    BY <1>8 DEF EndSelection, selectionVars
  <2>2. PassedOverInv'
    BY <1>1, <1>2, <2>1 DEF RankInv, PassedOverInv
  <2>3. FilledInv'
    BY <1>1, <1>2, <2>1 DEF RankInv, FilledInv
  <2>4. QED
    BY <1>4, <1>5, <2>2, <2>3 DEF RankInv
<1>9. QED
  BY <1>6, <1>7, <1>8

\* A case starts with its candidates in order, or without any; the later steps
\* leave them alone.
LEMMA OtherStepsRank ==
    ASSUME AffinityAssumption, AffinityInv, SelectionInv, RankInv,
           \/ Acquire \/ StartConcurrent \/ Pin \/ Release \/ SpawnWorkers
           \/ JoinWorkers \/ \E w \in 1..Workers : WorkerPins(w)
    PROVE  RankInv'
<1>1. machine' = machine /\ Fast' = Fast
  BY DEF Acquire, StartConcurrent, Pin, Release, SpawnWorkers, JoinWorkers,
         WorkerPins, Fast
<1>2. CASE /\ UNCHANGED <<candidates, seen, usable, pinCores>>
           /\ pc' \in {"running", "idle", "sample"}
  <2>1. FastFirst'
    BY <1>1, <1>2 DEF RankInv, FastFirst
  <2>2. ProbedInv' /\ PassedOverInv' /\ FilledInv'
    BY <1>1, <1>2 DEF RankInv, ProbedInv, PassedOverInv, FilledInv
  <2>3. QED
    BY <2>1, <2>2 DEF RankInv
<1>3. CASE candidates' = <<>> /\ usable' = <<>> /\ pc' \in {"pin", "spawn"}
  <2>1. FastFirst'
    BY <1>3 DEF FastFirst
  <2>2. ProbedInv' /\ PassedOverInv' /\ FilledInv'
    BY <1>3 DEF ProbedInv, PassedOverInv, FilledInv
  <2>3. QED
    BY <2>1, <2>2 DEF RankInv
<1>4. CASE /\ pc' = "probe" /\ usable' = <<>> /\ seen' = 0
           /\ candidates' = CandidatePinCores(AllowedCores)
  <2>1. AllowedCores \in (SUBSET Cores) \ {{}}
    BY AllowedIsMask DEF SelectionInv, MaskTypes, Masks
  <2>2. \A i, j \in DOMAIN candidates' :
           i < j /\ candidates'[j] \in Fast => candidates'[i] \in Fast
    BY <1>4, <2>1, CandidatesAreRanked
  <2>3. FastFirst'
    BY <1>1, <2>2 DEF FastFirst
  <2>4. ProbedInv' /\ PassedOverInv' /\ FilledInv'
    BY <1>4 DEF ProbedInv, PassedOverInv, FilledInv
  <2>5. QED
    BY <2>3, <2>4 DEF RankInv
<1>5. QED
  BY <1>2, <1>3, <1>4
  DEF Acquire, StartConcurrent, StartSelection, Pin, Release, SpawnWorkers,
      JoinWorkers, WorkerPins, selectionVars

\* Every step keeps the candidates ranked.
LEMMA StepRanks ==
    ASSUME AffinityAssumption, AffinityInv, SelectionInv, RankInv, [Next]_vars
    PROVE  RankInv'
<1>1. CASE UNCHANGED vars
  <2>1. UNCHANGED <<machine, pc, done, candidates, seen, usable, pinCores>>
    BY <1>1 DEF vars, selectionVars
  <2>2. Wanted' = Wanted /\ Fast' = Fast /\ (Honest' <=> Honest)
    BY <2>1 DEF Wanted, Fast, Honest
  <2>3. FastFirst' /\ ProbedInv' /\ PassedOverInv' /\ FilledInv'
    BY <2>1, <2>2 DEF RankInv, FastFirst, ProbedInv, PassedOverInv, FilledInv
  <2>4. QED
    BY <2>3 DEF RankInv
<1>2. CASE Terminating
  BY <1>1, <1>2 DEF Terminating
<1>3. QED
  BY <1>1, <1>2, ProbeRanks, FillingRanks, OtherStepsRank DEF Next

\* The ranking of candidates, usable cores and chosen cores holds in every
\* behaviour.
THEOREM RankInvHolds == Spec => []RankInv
<1>1. Init => RankInv
  BY DEF Init, RankInv, FastFirst, ProbedInv, PassedOverInv, FilledInv
<1>2. AffinityInv /\ SelectionInv /\ RankInv /\ [Next]_vars => RankInv'
  BY AffinityAssumption, StepRanks
<1>3. QED
  BY <1>1, <1>2, AffinityInvHolds, SelectionInvHolds, PTL DEF Spec

\* A core that was left is not better than one that was chosen.
LEMMA NoneLeftIsBetter ==
    ASSUME SelectionInv, RankInv, Honest, pc \in {"pin", "spawn"}, candidates # <<>>,
           NEW core \in ToSet(candidates) \ ToSet(pinCores),
           NEW other \in ToSet(pinCores)
    PROVE  ~Outranks(core, other)
<1>1. PICK k \in DOMAIN candidates : candidates[k] = core
  BY DEF ToSet
<1>2. PICK j \in DOMAIN pinCores : pinCores[j] = other
  BY DEF ToSet
<1>3. /\ seen \in Nat /\ DOMAIN candidates = 1..Len(candidates)
      /\ Len(candidates) \in Nat /\ seen <= Len(candidates)
  BY DEF SelectionInv, ListTypes
<1>4. /\ ~ \E i \in DOMAIN usable : usable[i] = core
      /\ k > seen
  <2>1. \A i \in DOMAIN usable : usable[i] # core
    BY DEF RankInv, FilledInv, ToSet
  <2>2. k \notin 1..seen
    BY <1>1 DEF RankInv, FilledInv, ToSet
  <2>3. QED
    BY <1>3, <2>1, <2>2
<1>5. CASE core \in machine.pmu
  <2>1. /\ Len(usable) = Wanted
        /\ \A m \in DOMAIN candidates, i \in DOMAIN usable :
              candidates[m] = usable[i] => m < k
    BY <1>1, <1>4, <1>5 DEF RankInv, PassedOverInv
  <2>2. pinCores = usable
    BY <2>1 DEF RankInv, FilledInv
  <2>3. other \in machine.pmu
    BY <1>2, <2>2 DEF RankInv, ProbedInv
  <2>4. PICK m \in DOMAIN candidates : candidates[m] = other
    BY <1>2, <2>2 DEF SelectionInv, UsableInv
  <2>5. core \in Fast => other \in Fast
    BY <1>1, <1>2, <2>1, <2>2, <2>4 DEF RankInv, FastFirst
  <2>6. QED
    BY <1>5, <2>3, <2>5 DEF Outranks, Fast
<1>6. CASE core \notin machine.pmu
  <2>1. CASE \E i \in DOMAIN usable : usable[i] = other
    <3>1. other \in machine.pmu
      BY <2>1 DEF RankInv, ProbedInv
    <3>2. QED
      BY <1>6, <3>1 DEF Outranks
  <2>2. CASE \E m \in 1..seen : candidates[m] = other
    <3>1. PICK m \in 1..seen : candidates[m] = other
      BY <2>2
    <3>2. m \in DOMAIN candidates /\ m < k
      BY <1>3, <1>4
    <3>3. core \in Fast => other \in Fast
      BY <1>1, <3>1, <3>2 DEF RankInv, FastFirst
    <3>4. QED
      BY <1>6, <3>3 DEF Outranks, Fast
  <2>3. QED
    BY <1>2, <2>1, <2>2 DEF RankInv, FilledInv
<1>7. QED
  BY <1>5, <1>6

-------------------------------------------------------------------------------
(* Performance cores are whole fast cores *)

\* A finite set of integers that is not empty has a greatest element.
LEMMA GreatestElement ==
    ASSUME NEW S, IsFiniteSet(S), S \subseteq Int, S # {}
    PROVE  \E m \in S : \A n \in S : m >= n
<1> DEFINE Bad == {n \in Nat : \E T \in SUBSET S :
                      /\ Cardinality(T) = n /\ T # {}
                      /\ ~ \E m \in T : \A k \in T : m >= k}
<1>1. \A T \in SUBSET S : IsFiniteSet(T) /\ Cardinality(T) \in Nat
  BY FS_Subset, FS_CardinalityType
<1>2. ASSUME Bad # {} PROVE FALSE
  <2>1. PICK n \in Bad : \A m \in Bad : n <= m
    BY <1>2, LeastElement
  <2>2. PICK T \in SUBSET S : /\ Cardinality(T) = n /\ T # {}
                              /\ ~ \E m \in T : \A k \in T : m >= k
    BY <2>1
  <2>3. PICK x \in T : TRUE
    BY <2>2
  <2> DEFINE rest == T \ {x}
  <2>4. rest \in SUBSET S /\ Cardinality(rest) = n - 1 /\ n \in Nat /\ n - 1 \in Nat
    <3>1. IsFiniteSet(T) /\ Cardinality(T) = n /\ n \in Nat
      BY <1>1, <2>2
    <3>2. rest \in SUBSET S /\ Cardinality(rest) = n - 1
      BY <2>3, <3>1, FS_RemoveElement
    <3>3. Cardinality(rest) \in Nat
      BY <1>1, <3>2
    <3>4. QED
      BY <3>1, <3>2, <3>3
  <2>5. CASE rest = {}
    <3>1. T = {x} /\ x \in Int
      BY <2>3, <2>5
    <3>2. QED
      BY <2>2, <3>1
  <2>6. CASE rest # {}
    <3>1. n - 1 \notin Bad
      BY <2>1, <2>4
    <3>2. PICK m \in rest : \A k \in rest : m >= k
      BY <2>4, <2>6, <3>1
    <3>3. m \in Int /\ x \in Int /\ m \in T /\ \A k \in T : k = x \/ k \in rest
      BY <2>3, <2>4
    <3>4. T \subseteq Int
      BY <2>2
    <3>5. CASE m >= x
      BY <2>2, <3>2, <3>3, <3>5
    <3>6. CASE x > m
      <4>1. ASSUME NEW k \in T PROVE x >= k
        <5>1. k \in Int
          BY <3>4
        <5>2. QED
          BY <3>2, <3>3, <3>6, <5>1
      <4>2. QED
        BY <2>2, <4>1
    <3>7. QED
      BY <3>3, <3>5, <3>6
  <2>7. QED
    BY <2>5, <2>6
<1>3. QED
  BY <1>1, <1>2

\* Max is that element.
LEMMA MaxIsGreatest ==
    ASSUME NEW S, IsFiniteSet(S), S \subseteq Int, S # {}
    PROVE  Max(S) \in S /\ \A n \in S : Max(S) >= n
BY GreatestElement DEF Max

\* The values of a function on a finite set are finitely many.
LEMMA ImageIsFinite ==
    ASSUME NEW S, IsFiniteSet(S), NEW U, NEW f \in [S -> U]
    PROVE  IsFiniteSet({f[x] : x \in S})
<1> DEFINE T == {f[x] : x \in S}
<1>1. f \in [S -> T]
  OBVIOUS
<1>2. f \in Surjection(S, T)
  BY <1>1 DEF Surjection
<1>3. QED
  BY <1>2, FS_Surjection

\* A description of a machine's processors, as sysfs gives it
Topology(t) ==
    /\ DOMAIN t \subseteq Cores
    /\ \A cpu \in DOMAIN t : t[cpu] \in Processor

Fields == {"capacity", "freq"}

\* A field of a processor is a natural number, or unread.
LEMMA FieldIsRead ==
    ASSUME NEW t, Topology(t), NEW cpu \in DOMAIN t, NEW field \in Fields
    PROVE  t[cpu][field] \in Reading
<1>1. t[cpu] \in [package : Reading, core : Reading, capacity : Reading, freq : Reading]
  BY DEF Topology, Processor
<1>2. CASE field = "capacity"
  BY <1>1, <1>2
<1>3. CASE field = "freq"
  BY <1>1, <1>3
<1>4. QED
  BY <1>2, <1>3 DEF Fields

\* Each logical processor is on one physical core, which it shares with its
\* siblings.
LEMMA CoresPartition ==
    ASSUME AffinityAssumption, NEW t, Topology(t)
    PROVE  /\ IsFiniteSet(DOMAIN t) /\ IsFiniteSet(PhysicalCores(t))
           /\ \A core \in PhysicalCores(t) :
                 core # {} /\ core \subseteq DOMAIN t /\ IsFiniteSet(core)
           /\ \A cpu \in DOMAIN t : \E core \in PhysicalCores(t) : cpu \in core
           /\ \A core \in PhysicalCores(t) : \A c \in core, d \in DOMAIN t :
                 d \in core <=> PhysicalKey(t, d) = PhysicalKey(t, c)
<1>1. IsFiniteSet(DOMAIN t)
  BY FS_Subset DEF AffinityAssumption, Topology
<1>2. IsFiniteSet(PhysicalCores(t))
  <2> DEFINE f == [cpu \in DOMAIN t |-> Siblings(t, cpu)]
  <2>1. f \in [DOMAIN t -> PhysicalCores(t)]
    BY DEF PhysicalCores
  <2>2. PhysicalCores(t) = {f[cpu] : cpu \in DOMAIN t}
    BY DEF PhysicalCores
  <2> HIDE DEF f
  <2>3. IsFiniteSet({f[cpu] : cpu \in DOMAIN t})
    BY <1>1, <2>1, ImageIsFinite
  <2>4. QED
    BY <2>2, <2>3
<1>3. ASSUME NEW core \in PhysicalCores(t)
      PROVE  /\ core # {} /\ core \subseteq DOMAIN t /\ IsFiniteSet(core)
             /\ \A c \in core, d \in DOMAIN t :
                   d \in core <=> PhysicalKey(t, d) = PhysicalKey(t, c)
  <2>1. PICK cpu \in DOMAIN t : core = Siblings(t, cpu)
    BY DEF PhysicalCores
  <2>2. core # {} /\ core \subseteq DOMAIN t
    BY <2>1 DEF Siblings
  <2>3. IsFiniteSet(core)
    BY <1>1, <2>2, FS_Subset
  <2>4. \A c \in core, d \in DOMAIN t :
           d \in core <=> PhysicalKey(t, d) = PhysicalKey(t, c)
    BY <2>1 DEF Siblings
  <2>5. QED
    BY <2>2, <2>3, <2>4
<1>4. ASSUME NEW cpu \in DOMAIN t
      PROVE  \E core \in PhysicalCores(t) : cpu \in core
  <2>1. Siblings(t, cpu) \in PhysicalCores(t)
    BY DEF PhysicalCores
  <2>2. cpu \in Siblings(t, cpu)
    BY DEF Siblings
  <2>3. QED
    BY <2>1, <2>2
<1>5. QED
  BY <1>1, <1>2, <1>3, <1>4

\* The metric of a core is reported by one of its processors, and none reports
\* more.
LEMMA MetricIsBest ==
    ASSUME AffinityAssumption, NEW t, Topology(t), NEW core \in PhysicalCores(t),
           NEW field \in Fields
    PROVE  /\ Metric(t, core, field) \in Reading
           /\ \E cpu \in core : t[cpu][field] = Metric(t, core, field)
           /\ \A cpu \in core : t[cpu][field] <= Metric(t, core, field)
<1> DEFINE values == {t[cpu][field] : cpu \in core}
           f == [cpu \in core |-> t[cpu][field]]
<1>1. core # {} /\ core \subseteq DOMAIN t /\ IsFiniteSet(core)
  BY CoresPartition
<1>2. \A cpu \in core : t[cpu][field] \in Reading
  BY <1>1, FieldIsRead
<1>3. f \in [core -> Reading]
  BY <1>2
<1>a. values = {f[cpu] : cpu \in core}
  OBVIOUS
<1>4. values \subseteq Reading /\ values # {}
  BY <1>1, <1>2
<1> HIDE DEF f
<1>5. IsFiniteSet(values)
  <2>1. IsFiniteSet({f[cpu] : cpu \in core})
    BY <1>1, <1>3, ImageIsFinite
  <2>2. QED
    BY <1>a, <2>1
<1>6. Reading \subseteq Int
  BY DEF Reading, Unread
<1>7. Max(values) \in values /\ \A v \in values : Max(values) >= v
  BY <1>4, <1>5, <1>6, MaxIsGreatest
<1>8. Metric(t, core, field) = Max(values)
  BY DEF Metric
<1> DEFINE best == Max(values)
<1> HIDE DEF best
<1>9. best \in Reading /\ best \in values /\ \A v \in values : best >= v
  BY <1>4, <1>7 DEF best
<1>10. \E cpu \in core : t[cpu][field] = best
  BY <1>9
<1>11. \A cpu \in core : t[cpu][field] <= best
  BY <1>2, <1>6, <1>9
<1>12. QED
  BY <1>8, <1>9, <1>10, <1>11 DEF best

\* Nine tenths, rounded to the nearest integer: half up.
LEMMA ThresholdIsClose ==
    ASSUME NEW top \in Nat, NEW value \in Nat, value >= (9 * top + 5) \div 10
    PROVE  10 * value + 5 >= 9 * top
OBVIOUS

\* select_performance_cores_by_metric selects whole cores, not all of them, and
\* only those that have one of the best processors.
LEMMA SelectedIsFast ==
    ASSUME AffinityAssumption, NEW t, Topology(t), NEW field \in Fields,
           Selected(t, field) # {}
    PROVE  \E fast \in SUBSET PhysicalCores(t) :
              /\ Selected(t, field) = UNION fast /\ fast # PhysicalCores(t)
              /\ \A core \in fast : \E c \in core :
                    /\ t[c][field] # Unread
                    /\ \A d \in DOMAIN t : 10 * t[c][field] + 5 >= 9 * t[d][field]
<1> DEFINE cores   == PhysicalCores(t)
           metered == {c \in cores : Metric(t, c, field) # Unread}
           values  == {Metric(t, c, field) : c \in metered}
           fast    == {c \in metered : Metric(t, c, field) >= (9 * Max(values) + 5) \div 10}
<1>1. /\ Selected(t, field) = UNION fast /\ fast # cores
      /\ ~(Cardinality(values) < 2)
  BY DEF Selected
<1>2. /\ IsFiniteSet(metered) /\ metered \subseteq cores
      /\ \A core \in metered : Metric(t, core, field) \in Nat
  <2>1. IsFiniteSet(metered)
    BY CoresPartition, FS_Subset
  <2>2. ASSUME NEW core \in metered
        PROVE  Metric(t, core, field) \in Nat
    BY MetricIsBest DEF Reading
  <2>3. QED
    BY <2>1, <2>2
<1>3. values \subseteq Nat
  BY <1>2
<1>4. IsFiniteSet(values)
  <2> DEFINE f == [core \in metered |-> Metric(t, core, field)]
  <2>1. f \in [metered -> Nat]
    BY <1>2
  <2>2. values = {f[core] : core \in metered}
    OBVIOUS
  <2> HIDE DEF f, metered
  <2>3. IsFiniteSet({f[core] : core \in metered})
    BY <1>2, <2>1, ImageIsFinite
  <2>4. QED
    BY <2>2, <2>3
<1>5. values # {}
  <2> HIDE DEF values
  <2>1. ASSUME values = {} PROVE Cardinality(values) < 2
    <3>1. Cardinality(values) = 0
      BY <2>1, FS_EmptySet
    <3>2. QED
      BY <3>1
  <2>2. QED
    BY <1>1, <2>1
<1> DEFINE top == Max(values)
<1>6. top \in values /\ \A v \in values : top >= v
  <2> HIDE DEF values
  <2>1. values \subseteq Int
    BY <1>3
  <2>2. QED
    BY <1>4, <1>5, <2>1, MaxIsGreatest
<1>7. \A core \in metered : Metric(t, core, field) <= top
  BY <1>3, <1>6
<1>8. fast \subseteq metered
  OBVIOUS
<1>9. \A core \in fast : Metric(t, core, field) >= (9 * top + 5) \div 10
  OBVIOUS
<1>10. top \in Nat
  BY <1>3, <1>6
<1> HIDE DEF top
<1>11. ASSUME NEW core \in fast
       PROVE  \E c \in core :
                 /\ t[c][field] # Unread
                 /\ \A d \in DOMAIN t : 10 * t[c][field] + 5 >= 9 * t[d][field]
  <2>1. PICK c \in core : t[c][field] = Metric(t, core, field)
    BY <1>2, <1>8, MetricIsBest
  <2> DEFINE value == t[c][field]
  <2>2. value \in Nat /\ value >= (9 * top + 5) \div 10
    BY <1>2, <1>8, <1>9, <2>1
  <2>3. 10 * value + 5 >= 9 * top
    BY <1>10, <2>2, ThresholdIsClose
  <2>4. ASSUME NEW d \in DOMAIN t
        PROVE  10 * value + 5 >= 9 * t[d][field]
    <3>1. t[d][field] \in Reading
      BY FieldIsRead
    <3>2. t[d][field] <= top
      <4>1. PICK other \in cores : d \in other
        BY CoresPartition
      <4>2. /\ t[d][field] <= Metric(t, other, field)
            /\ Metric(t, other, field) \in Reading
        BY <4>1, MetricIsBest
      <4>3. CASE other \in metered
        BY <1>7, <1>10, <3>1, <4>2, <4>3 DEF Reading, Unread
      <4>4. CASE other \notin metered
        BY <1>10, <3>1, <4>2, <4>4 DEF Reading, Unread
      <4>5. QED
        BY <4>3, <4>4
    <3> DEFINE reading == t[d][field]
    <3> HIDE DEF value, reading
    <3>3. reading \in Reading /\ reading <= top
      BY <3>1, <3>2 DEF reading
    <3>4. 10 * value + 5 >= 9 * reading
      BY <1>10, <2>2, <2>3, <3>3 DEF Reading, Unread
    <3>5. QED
      BY <3>4 DEF reading
  <2>5. value # Unread
    BY <2>2 DEF Unread
  <2>6. QED
    BY <2>4, <2>5
<1>12. fast \in SUBSET PhysicalCores(t)
  BY <1>2, <1>8
<1>13. QED
  BY <1>1, <1>11, <1>12

\* What detect_performance_cores selects are whole fast cores.
LEMMA FastIsWhole ==
    ASSUME AffinityAssumption, machine \in Machines, Fast # {}
    PROVE  AreWholeFastCores(Fast)
<1> DEFINE t == machine.topology
<1>1. Topology(t)
  BY DEF AffinityAssumption, IsMachine, Topology
<1>2. PICK field \in Fields : Fast = Selected(t, field) /\ Selected(t, field) # {}
  BY DEF Fast, PerformanceCores, Fields
<1>3. PICK fast \in SUBSET PhysicalCores(t) :
         /\ Fast = UNION fast /\ fast # PhysicalCores(t)
         /\ \A core \in fast : \E c \in core :
               /\ t[c][field] # Unread
               /\ \A d \in DOMAIN t : 10 * t[c][field] + 5 >= 9 * t[d][field]
  BY <1>1, <1>2, SelectedIsFast
<1> HIDE DEF t
<1>4. \A core \in PhysicalCores(t) : core # {} /\ core \subseteq DOMAIN t
  BY <1>1, CoresPartition
<1>5. \A core \in PhysicalCores(t) : \A c \in core, d \in DOMAIN t :
         d \in core <=> PhysicalKey(t, d) = PhysicalKey(t, c)
  BY <1>1, CoresPartition
<1>6. Fast # DOMAIN t
  <2>1. PICK core \in PhysicalCores(t) : core \notin fast
    BY <1>3
  <2>2. PICK c \in core : c \in DOMAIN t
    BY <1>4, <2>1
  <2>3. ASSUME NEW other \in fast, c \in other PROVE FALSE
    <3>1. \A d \in DOMAIN t : d \in other <=> d \in core
      BY <1>5, <2>2, <2>3
    <3>2. other = core
      BY <1>4, <3>1
    <3>3. QED
      BY <2>1, <2>3, <3>2
  <2>4. QED
    BY <1>3, <2>2, <2>3
<1>7. ASSUME NEW c \in Fast, NEW d \in DOMAIN t,
             t[c].core = t[d].core, t[c].core # Unread, t[c].package = t[d].package
      PROVE  d \in Fast
  <2>1. PICK core \in fast : c \in core
    BY <1>3
  <2>2. PhysicalKey(t, d) = PhysicalKey(t, c)
    BY <1>7 DEF PhysicalKey
  <2>3. d \in core
    BY <1>5, <2>1, <2>2
  <2>4. QED
    BY <1>3, <2>1, <2>3
<1>8. ASSUME NEW c \in Fast
      PROVE  \E d \in Fast :
                /\ ~ (Unread \notin {t[c].core, t[d].core} /\ t[c].core # t[d].core)
                /\ ~ (/\ Unread \notin {t[c].package, t[d].package}
                      /\ t[c].package # t[d].package)
                /\ t[d][field] # Unread
                /\ \A e \in DOMAIN t : 10 * t[d][field] + 5 >= 9 * t[e][field]
  <2>1. PICK core \in fast : c \in core
    BY <1>3
  <2>2. PICK d \in core :
           /\ t[d][field] # Unread
           /\ \A e \in DOMAIN t : 10 * t[d][field] + 5 >= 9 * t[e][field]
    BY <1>3
  <2>3. PhysicalKey(t, d) = PhysicalKey(t, c)
    BY <1>4, <1>5, <2>1
  <2>4. /\ ~ (Unread \notin {t[c].core, t[d].core} /\ t[c].core # t[d].core)
        /\ ~ (/\ Unread \notin {t[c].package, t[d].package}
              /\ t[c].package # t[d].package)
    BY <2>3 DEF PhysicalKey
  <2>5. d \in Fast
    BY <1>3, <2>1
  <2>6. QED
    BY <2>2, <2>4, <2>5
<1>9. QED
  BY <1>6, <1>7, <1>8 DEF AreWholeFastCores, Fields, t

\* candidate_pin_cores and the two loops after it: where every probe can tell, no
\* candidate that was left is better than one that was chosen; and what passes
\* for a performance core is a whole fast core.
THEOREM BestCoresArePinned == Spec => []PinsPreferUsableCores
<1>1. ASSUME AffinityAssumption, AffinityInv, SelectionInv, RankInv
      PROVE  PinsPreferUsableCores
  <2>1. Fast # {} => AreWholeFastCores(Fast)
    BY <1>1, FastIsWhole DEF AffinityInv, Places
  <2>2. ASSUME pc \in {"pin", "spawn"}, candidates # <<>>, Honest,
               NEW core \in ToSet(candidates) \ ToSet(pinCores),
               NEW other \in ToSet(pinCores)
        PROVE  ~Outranks(core, other)
    BY <1>1, <2>2, NoneLeftIsBetter
  <2>3. QED
    BY <2>1, <2>2 DEF PinsPreferUsableCores, Fast, Honest
<1>2. QED
  BY <1>1, AffinityAssumption, AffinityInvHolds, SelectionInvHolds, RankInvHolds, PTL
===============================================================================
