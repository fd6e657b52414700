-------------------------- MODULE ReportStore_proofs --------------------------
(***************************************************************************)
(* The reports of any number of processes, started in any of the Setups:   *)
(* what is in place is whole, no report of a failed save ever is, evidence *)
(* is saved before it is compared, and the baseline is the right one.      *)
(***************************************************************************)
EXTENDS ReportStore, FiniteSetTheorems, WellFoundedInduction, TLAPS

-------------------------------------------------------------------------------
(* The inductive invariant.  StoreInv is its conjunction. *)

Writing == {"write", "sync", "rename"}
Unsaved == {"idle", "running", "report", "list", "scan", "persist"} \cup Writing
Written == {p \in Processes : pc[p] \notin Unsaved \/ pc[p] \in {"sync", "rename"}}

\* The variables that TypeOK says nothing of, and the kinds of the maps.
StoreTypes ==
    /\ TypeOK
    /\ setup \in Setup
    /\ temps \in [DOMAIN temps -> Entries]
    /\ files \in [DOMAIN files -> Entries]
    /\ IsFiniteSet(DOMAIN files)
    /\ candidates \in [Processes -> Seq(DOMAIN files)]
    /\ target \in [Processes -> [listed : SUBSET Processes,
                                 report : Processes \cup {NoReport}]]
    /\ baseline \in [Processes -> Processes \cup {NoReport}]

\* A process writes at most once.
WritesInv == writes <= Cardinality(Written)

\* A temporary file belongs to a process that saves, was killed while it did,
\* or failed and could not remove it; it is whole before it is synchronised, and
\* both before it is renamed.
TempsInv ==
    \A p \in Processes :
        /\ p \in DOMAIN temps =>
              /\ temps[p].report = p
              /\ \/ pc[p] \in Writing \cup {"killed"} /\ saved[p] = "no"
                 \/ "remove" \in Faults /\ saved[p] = "failed"
        /\ pc[p] \in Writing => p \in DOMAIN temps
        /\ pc[p] \in {"sync", "rename"} => temps[p].whole
        /\ pc[p] = "rename" => temps[p].synced

\* A file in place is whole and on disk; it is the one file of its report.
FilesInv ==
    \A n \in DOMAIN files :
        /\ files[n].whole /\ files[n].synced
        /\ saved[files[n].report] = "saved"
        /\ \A m \in DOMAIN files : files[m].report = files[n].report => m = n

\* Modification times are those of distinct writes.
TimesInv ==
    /\ \A p \in DOMAIN temps : temps[p].whole =>
          /\ temps[p].mtime <= writes
          /\ \A q \in DOMAIN temps :
                temps[q].whole /\ temps[q].mtime = temps[p].mtime => q = p
          /\ \A n \in DOMAIN files : files[n].mtime # temps[p].mtime
    /\ \A n \in DOMAIN files :
          /\ files[n].mtime <= writes
          /\ \A m \in DOMAIN files : files[m].mtime = files[n].mtime => m = n

\* saved is the outcome of a save that has ended, and says how it ended.
SavedInv ==
    \A p \in Processes :
        /\ pc[p] \in Unsaved => saved[p] = "no"
        /\ pc[p] \in {"compare", "incompatible"} /\ Destination[p] # "disabled"
              => saved[p] # "no"
        /\ Destination[p] = "explicit" /\ pc[p] \in {"compare", "done", "incompatible"}
              => saved[p] = "saved"

\* The search has still to reach the target, as long as that is in place, and
\* passes only over files that it cannot use or that came after the listing.
Ahead(p) ==
    \E i \in DOMAIN candidates[p] :
        /\ files[candidates[p][i]].report = target[p].report
        /\ Compatible(p, files[candidates[p][i]])
        /\ \A j \in 1..(i - 1) :
              \/ ~Compatible(p, files[candidates[p][j]])
              \/ files[candidates[p][j]].report \notin target[p].listed

InPlace(report) == \E n \in DOMAIN files : files[n].report = report

ScanInv ==
    \A p \in Processes :
        /\ \A r \in target[p].listed : saved[r] = "saved"
        /\ target[p].report # NoReport => target[p].report \in target[p].listed
        /\ pc[p] = "scan" /\ InPlace(target[p].report) => Ahead(p)

StoreInv ==
    /\ StoreTypes /\ WritesInv /\ TempsInv /\ FilesInv /\ TimesInv
    /\ SavedInv /\ ScanInv /\ BaselineIsSound

-------------------------------------------------------------------------------
(* The maps of files. *)

\* A temporary file that is gone leaves the others as they were.
LEMMA WithoutRemoves ==
    ASSUME NEW T, temps \in [DOMAIN temps -> T], NEW p
    PROVE  /\ DOMAIN Without(p) = DOMAIN temps \ {p}
           /\ Without(p) \in [DOMAIN temps \ {p} -> T]
           /\ \A q \in DOMAIN temps : q # p => Without(p)[q] = temps[q]
BY DEF Without, Restrict

\* The directory holds the reports of no process, and no temporary file.
LEMMA InitIsStoreInv == Init => StoreInv
<1> SUFFICES ASSUME Init PROVE StoreInv
  OBVIOUS
<1> USE DEF Init
<1>1. StoreTypes
  <2>1. setup \in Setup /\ MaxSecond \in Nat
    BY StoreAssumption DEF Setup, MaxSecond
  <2>2. Cardinality(Processes) \in Nat
    BY StoreAssumption, FS_CardinalityType
  <2>3. DOMAIN temps = {} /\ DOMAIN files = {}
    OBVIOUS
  <2>4. temps \in [DOMAIN temps -> Entries] /\ files \in [DOMAIN files -> Entries]
    BY <2>3
  <2>5. IsFiniteSet(DOMAIN files)
    BY <2>3, FS_EmptySet
  <2>6. TypeOK
    BY <2>1, <2>2, <2>3 DEF TypeOK, Active, Over
  <2>7. candidates \in [Processes -> Seq(DOMAIN files)]
    OBVIOUS
  <2> QED
    BY <2>1, <2>4, <2>5, <2>6, <2>7 DEF StoreTypes
<1>2. WritesInv
  BY StoreAssumption, FS_CardinalityType, FS_Subset DEF WritesInv, Written, Unsaved, Writing
<1>3. TempsInv /\ FilesInv /\ TimesInv /\ SavedInv /\ ScanInv
  BY DEF TempsInv, FilesInv, TimesInv, SavedInv, ScanInv, InPlace, Unsaved, Writing
<1>4. BaselineIsSound
  BY StoreAssumption DEF BaselineIsSound, BaselineIsLatest, BaselineIsAnotherRun
<1> QED
  BY <1>1, <1>2, <1>3, <1>4 DEF StoreInv

-------------------------------------------------------------------------------
(* One lemma per group of actions: the step keeps each part of StoreInv. *)

\* A step that writes nothing loses no process from Written.
LEMMA WrittenGrows ==
    ASSUME StoreTypes, WritesInv, Written \subseteq Written', writes' = writes
    PROVE  WritesInv'
<1>1. IsFiniteSet(Written') /\ Cardinality(Written) <= Cardinality(Written')
  BY StoreAssumption, FS_Subset DEF Written
<1>2. Cardinality(Written) \in Nat /\ Cardinality(Written') \in Nat
  BY <1>1, StoreAssumption, FS_Subset, FS_CardinalityType DEF Written
<1> QED
  BY <1>1, <1>2 DEF WritesInv, StoreTypes, TypeOK

\* What a process does before and after it searches and saves.
LEMMA RunningKeepsInv ==
    ASSUME StoreInv, NEW p \in Processes,
           Start(p) \/ Measure(p) \/ CompareExplicit(p) \/ Kill(p)
    PROVE  StoreInv'
<1> USE DEF StoreInv, Start, Measure, CompareExplicit, Kill, Goto, runVars, scanVars,
        storeVars, Unsaved, Writing
<1>1. StoreTypes'
  <2>1. UNCHANGED <<second, setup, candidates, target, baseline, storeVars>>
    OBVIOUS
  <2>2. pc' \in [Processes -> Active \cup Over \cup {"idle"}]
    <3>1. pc \in [Processes -> Active \cup Over \cup {"idle"}]
      BY DEF StoreTypes, TypeOK
    <3>2. \E where \in Active \cup Over \cup {"idle"} : pc' = [pc EXCEPT ![p] = where]
      BY DEF Active, Over
    <3> HIDE DEF Start, Measure, CompareExplicit, Kill
    <3> QED
      BY <3>1, <3>2
  <2>3. /\ timestamp' = timestamp \/ timestamp' = [timestamp EXCEPT ![p] = second]
        /\ empty' = empty \/ empty' = [empty EXCEPT ![p] = TRUE]
    OBVIOUS
  <2> HIDE DEF Start, Measure, CompareExplicit, Kill
  <2>4. timestamp' \in [Processes -> 0..MaxSecond]
    BY <2>3 DEF StoreTypes, TypeOK
  <2>5. empty' \in [Processes -> BOOLEAN]
    BY <2>3 DEF StoreTypes, TypeOK
  <2> QED
    BY <2>1, <2>2, <2>4, <2>5 DEF StoreTypes, TypeOK, MaxSecond
<1>2. WritesInv'
  <2>1. Written \subseteq Written' /\ writes' = writes
    BY DEF Written, StoreTypes, TypeOK, Active
  <2> QED
    BY <2>1, WrittenGrows
<1>3. TempsInv'
  <2>1. Faults' = Faults /\ UNCHANGED <<temps, saved>>
    BY DEF Faults
  <2>2. /\ \A q \in Processes : q # p => pc'[q] = pc[q]
        /\ pc[p] \in Writing => pc'[p] \in {"killed"}
        /\ pc'[p] \notin Writing
    BY DEF StoreTypes, TypeOK
  <2>3. pc[p] = "killed" => pc'[p] = "killed"
    BY DEF StoreTypes, TypeOK, Active
  <2>4. p \in DOMAIN temps /\ saved[p] = "no" => pc[p] \in Writing \cup {"killed"}
    BY DEF TempsInv
  <2> HIDE DEF Start, Measure, CompareExplicit, Kill
  <2> QED
    BY <2>1, <2>2, <2>3, <2>4 DEF TempsInv
<1>4. FilesInv' /\ TimesInv'
  BY DEF FilesInv, TimesInv
<1>5. SavedInv'
  BY DEF SavedInv, StoreTypes, TypeOK, Destination, Active
<1>6. /\ UNCHANGED <<setup, candidates, target, baseline, temps, files, saved>>
      /\ pc'[p] \notin {"scan"} \cup Writing
      /\ pc'[p] = "persist" => Comparison[p] # "latest"
      /\ \A q \in Processes : q # p => pc'[q] = pc[q] /\ empty'[q] = empty[q]
  BY DEF StoreTypes, TypeOK
<1> HIDE DEF Start, Measure, CompareExplicit, Kill, Unsaved
<1>7. ScanInv'
  BY <1>6 DEF ScanInv, Ahead, InPlace, Compatible
<1>8. BaselineIsSound'
  BY <1>6 DEF BaselineIsSound, BaselineIsLatest, BaselineIsAnotherRun, Comparison
<1> QED
  BY <1>1, <1>2, <1>3, <1>4, <1>5, <1>7, <1>8
-------------------------------------------------------------------------------
(* The search for a baseline. *)

\* A sorted listing is a sequence in which every listed name occurs.
LEMMA SortingLists ==
    ASSUME StoreTypes, NEW order \in Sortings
    PROVE  /\ order \in Seq(DOMAIN files)
           /\ order \in [DOMAIN order -> Listed]
           /\ DOMAIN order \subseteq Nat \ {0}
           /\ \A i \in DOMAIN order : \A j \in 1..(i - 1) : j \in DOMAIN order
           /\ \A i, j \in DOMAIN order : i < j => Mtime(order[i]) >= Mtime(order[j])
           /\ \A n \in Listed : \E i \in DOMAIN order : order[i] = n
<1> DEFINE k == Cardinality(Listed)
<1>1. IsFiniteSet(Listed)
  BY FS_Subset DEF StoreTypes, Listed
<1>2. k \in Nat
  BY <1>1, FS_CardinalityType
<1>3. /\ order \in [1..k -> Listed]
      /\ \A i, j \in 1..k : i # j => order[i] # order[j]
      /\ \A i, j \in DOMAIN order : i < j => Mtime(order[i]) >= Mtime(order[j])
  BY DEF Sortings, SetToSeqs
<1>4. order \in Injection(1..k, Listed)
  BY <1>3 DEF Injection, IsInjective
<1>5. Cardinality(1..k) = k
  BY <1>2, FS_Interval
<1> HIDE DEF k
<1>6. order \in Surjection(1..k, Listed)
  BY <1>1, <1>4, <1>5, FS_Injection DEF k
<1>7. order \in Seq(DOMAIN files)
  <2>1. order \in [1..k -> DOMAIN files]
    BY <1>3 DEF Listed
  <2> QED
    BY <1>2, <2>1
<1> QED
  BY <1>2, <1>3, <1>6, <1>7 DEF Surjection

\* What is left of a sequence, and of the places in it, after its head.
LEMMA TailKeeps ==
    ASSUME NEW T, NEW s \in Seq(T), s # <<>>
    PROVE  /\ Head(s) \in T /\ Tail(s) \in Seq(T) /\ <<>> \in Seq(T)
           /\ Head(s) = s[1] /\ DOMAIN s \subseteq Nat \ {0}
           /\ \A i \in DOMAIN s : \A j \in 1..(i - 1) : j \in DOMAIN s
           /\ \A i \in DOMAIN s \ {1} : i - 1 \in DOMAIN Tail(s)
           /\ \A i \in DOMAIN Tail(s) : Tail(s)[i] = s[i + 1]
OBVIOUS

\* A nonempty set of positions has a first one.
LEMMA FirstPosition ==
    ASSUME NEW I, I \subseteq Nat, I # {}
    PROVE  \E i \in I : \A j \in I : i <= j
<1> DEFINE R == OpToRel(<, Nat)
<1>1. \E i \in I : \A j \in I : ~ (<<j, i>> \in R)
  BY WFMin, NatLessThanWellFounded
<1>2. \A i, j \in I : j < i => <<j, i>> \in R
  BY DEF OpToRel
<1> HIDE DEF R
<1>3. PICK i \in I : \A j \in I : ~ (<<j, i>> \in R)
  BY <1>1
<1>4. ASSUME NEW j \in I PROVE i <= j
  <2>1. i \in Nat /\ j \in Nat
    OBVIOUS
  <2>2. ~(j < i)
    BY <1>2, <1>3
  <2> QED
    BY <2>1, <2>2
<1> QED
  BY <1>4

\* The first usable file of a sorted listing is the newest one.
LEMMA NewestIsFirst ==
    ASSUME StoreTypes, TimesInv, NEW order \in Sortings,
           NEW eligible, eligible \subseteq Listed, eligible # {}
    PROVE  \E i \in DOMAIN order :
              /\ order[i] = Newest(eligible) /\ order[i] \in eligible
              /\ \A j \in 1..(i - 1) : order[j] \notin eligible
<1> DEFINE I == {i \in DOMAIN order : order[i] \in eligible}
<1>1. /\ order \in [DOMAIN order -> Listed]
      /\ DOMAIN order \subseteq Nat \ {0}
      /\ \A i \in DOMAIN order : \A j \in 1..(i - 1) : j \in DOMAIN order
      /\ \A i, j \in DOMAIN order : i < j => Mtime(order[i]) >= Mtime(order[j])
      /\ \A n \in Listed : \E i \in DOMAIN order : order[i] = n
  BY SortingLists
<1>2. I \subseteq Nat /\ I # {}
  BY <1>1
<1>3. PICK i \in I : \A j \in I : i <= j
  BY <1>2, FirstPosition
<1>4. \A n \in Listed : Mtime(n) \in Nat
  BY DEF StoreTypes, Listed, Mtime, Entries
<1>5. \A m \in eligible : Mtime(order[i]) >= Mtime(m)
  <2> SUFFICES ASSUME NEW m \in eligible PROVE Mtime(order[i]) >= Mtime(m)
    OBVIOUS
  <2>1. PICK j \in DOMAIN order : order[j] = m
    BY <1>1
  <2>2. i \in Nat /\ j \in Nat /\ i <= j
    BY <1>1, <1>3, <2>1
  <2>3. CASE i = j
    BY <1>4, <2>1, <2>3
  <2>4. CASE i < j
    BY <1>1, <2>1, <2>4
  <2> QED
    BY <2>2, <2>3, <2>4
<1>6. /\ Newest(eligible) \in eligible
      /\ \A m \in eligible : Mtime(Newest(eligible)) >= Mtime(m)
  BY <1>5 DEF Newest
<1>7. Mtime(Newest(eligible)) = Mtime(order[i])
  BY <1>4, <1>5, <1>6
<1>8. order[i] = Newest(eligible)
  BY <1>6, <1>7 DEF TimesInv, Mtime, Listed
<1>9. \A j \in 1..(i - 1) : order[j] \notin eligible
  <2> SUFFICES ASSUME NEW j \in 1..(i - 1), order[j] \in eligible PROVE FALSE
    OBVIOUS
  <2>1. j \in I
    BY <1>1
  <2> QED
    BY <1>1, <1>3, <2>1
<1> QED
  BY <1>6, <1>8, <1>9

\* A listing that was just made leads to its target.
LEMMA ListingLeadsToTarget ==
    ASSUME StoreInv, NEW p \in Processes, ListDirectory(p), target'[p].report # NoReport
    PROVE  Ahead(p)'
<1> USE DEF StoreInv
<1> DEFINE eligible == {n \in Listed : Compatible(p, files[n])}
<1>1. PICK order \in Sortings : candidates' = [candidates EXCEPT ![p] = order]
  BY DEF ListDirectory
<1>2. candidates'[p] = order
  BY <1>1 DEF StoreTypes
<1>3. target'[p].report = IF eligible = {} THEN NoReport
                          ELSE files[Newest(eligible)].report
  BY DEF ListDirectory, StoreTypes
<1>4. UNCHANGED <<empty, files>>
  BY DEF ListDirectory, runVars, storeVars
<1>5. eligible # {} /\ eligible \subseteq Listed
  BY <1>3
<1>6. PICK i \in DOMAIN order :
          /\ order[i] = Newest(eligible) /\ order[i] \in eligible
          /\ \A j \in 1..(i - 1) : order[j] \notin eligible
  BY <1>5, NewestIsFirst
<1>7. \A j \in 1..(i - 1) : order[j] \in Listed
  BY SortingLists
<1>8. \A j \in 1..(i - 1) : ~Compatible(p, files[order[j]])
  BY <1>6, <1>7
<1>9. files[order[i]].report = target'[p].report /\ Compatible(p, files[order[i]])
  BY <1>3, <1>5, <1>6
<1> HIDE DEF eligible
<1> QED
  BY <1>2, <1>4, <1>8, <1>9 DEF Ahead, Compatible

\* The steps of the search.
LEMMA ScanningKeepsInv ==
    ASSUME StoreInv, NEW p \in Processes,
           ListDirectory(p) \/ OpenCandidate(p) \/ NoCandidateLeft(p)
    PROVE  StoreInv'
<1> USE DEF StoreInv
<1>1. /\ UNCHANGED <<second, runVars, storeVars>>
      /\ pc \in [Processes -> Active \cup Over \cup {"idle"}]
      /\ pc' \in [Processes -> Active \cup Over \cup {"idle"}]
      /\ pc[p] \in {"list", "scan"} /\ pc'[p] \in {"scan", "persist"}
      /\ \A q \in Processes : q # p =>
            /\ pc'[q] = pc[q] /\ candidates'[q] = candidates[q]
            /\ target'[q] = target[q] /\ baseline'[q] = baseline[q]
  <2>1. UNCHANGED <<second, runVars, storeVars>> /\ pc[p] \in {"list", "scan"}
    BY DEF ListDirectory, OpenCandidate, NoCandidateLeft
  <2>2. pc \in [Processes -> Active \cup Over \cup {"idle"}]
    BY DEF StoreTypes, TypeOK
  <2>3. \E where \in {"scan", "persist"} : pc' = [pc EXCEPT ![p] = where]
    <3>1. CASE ListDirectory(p)
      BY <3>1 DEF ListDirectory, Goto
    <3>2. CASE OpenCandidate(p)
      <4>1. pc' = [pc EXCEPT ![p] = "persist"] \/ (pc' = pc /\ pc[p] = "scan")
        BY <3>2 DEF OpenCandidate, Goto
      <4> QED
        BY <4>1, <2>2
    <3>3. CASE NoCandidateLeft(p)
      BY <3>3 DEF NoCandidateLeft, Goto
    <3> QED
      BY <3>1, <3>2, <3>3
  <2>4. pc' \in [Processes -> Active \cup Over \cup {"idle"}] /\ pc'[p] \in {"scan", "persist"}
    BY <2>2, <2>3 DEF Active
  <2>5. \A q \in Processes : q # p => pc'[q] = pc[q]
    BY <2>2, <2>3
  <2>6. \A q \in Processes : q # p =>
           /\ candidates'[q] = candidates[q] /\ target'[q] = target[q]
           /\ baseline'[q] = baseline[q]
    <3>1. /\ DOMAIN candidates = Processes /\ DOMAIN target = Processes
          /\ DOMAIN baseline = Processes
      BY DEF StoreTypes
    <3>2. CASE ListDirectory(p)
      BY <3>1, <3>2 DEF ListDirectory
    <3>3. CASE OpenCandidate(p)
      BY <3>1, <3>3 DEF OpenCandidate
    <3>4. CASE NoCandidateLeft(p)
      BY <3>4 DEF NoCandidateLeft, scanVars
    <3> QED
      BY <3>2, <3>3, <3>4
  <2> QED
    BY <2>1, <2>2, <2>4, <2>5, <2>6
<1>2. StoreTypes'
  <2>1. candidates' \in [Processes -> Seq(DOMAIN files)]
    <3>1. CASE ListDirectory(p)
      <4>1. PICK order \in Sortings : candidates' = [candidates EXCEPT ![p] = order]
        BY <3>1 DEF ListDirectory
      <4>2. order \in Seq(DOMAIN files)
        BY SortingLists
      <4> QED
        BY <4>1, <4>2 DEF StoreTypes
    <3>2. CASE OpenCandidate(p)
      <4>1. candidates[p] # <<>> /\ candidates[p] \in Seq(DOMAIN files)
        BY <3>2 DEF OpenCandidate, StoreTypes
      <4>2. Tail(candidates[p]) \in Seq(DOMAIN files) /\ <<>> \in Seq(DOMAIN files)
        BY <4>1, TailKeeps
      <4> QED
        BY <3>2, <4>2 DEF OpenCandidate, StoreTypes
    <3> QED
      BY <3>1, <3>2 DEF NoCandidateLeft, StoreTypes, scanVars
  <2>2. target' \in [Processes -> [listed : SUBSET Processes,
                                   report : Processes \cup {NoReport}]]
    <3>1. CASE ListDirectory(p)
      <4> DEFINE eligible == {n \in Listed : Compatible(p, files[n])}
                 listing == [listed |-> {files[n].report : n \in Listed},
                             report |-> IF eligible = {} THEN NoReport
                                        ELSE files[Newest(eligible)].report]
      <4>1. target' = [target EXCEPT ![p] = listing]
        BY <3>1 DEF ListDirectory
      <4>2. \A n \in Listed : files[n].report \in Processes
        BY DEF StoreTypes, Entries, Listed
      <4>3. eligible # {} => Newest(eligible) \in Listed
        <5> SUFFICES ASSUME eligible # {} PROVE Newest(eligible) \in Listed
          OBVIOUS
        <5>1. PICK order \in Sortings : TRUE
          BY <3>1 DEF ListDirectory
        <5>2. \E i \in DOMAIN order : order[i] = Newest(eligible) /\ order[i] \in eligible
          BY <5>1, NewestIsFirst
        <5> QED
          BY <5>2
      <4>4. listing \in [listed : SUBSET Processes, report : Processes \cup {NoReport}]
        BY <4>2, <4>3
      <4> QED
        BY <4>1, <4>4 DEF StoreTypes
    <3> QED
      BY <3>1 DEF OpenCandidate, NoCandidateLeft, StoreTypes, scanVars
  <2>3. baseline' \in [Processes -> Processes \cup {NoReport}]
    <3>1. CASE OpenCandidate(p)
      <4>1. candidates[p] # <<>> /\ candidates[p] \in Seq(DOMAIN files)
        BY <3>1 DEF OpenCandidate, StoreTypes
      <4>2. Head(candidates[p]) \in DOMAIN files
        BY <4>1, TailKeeps
      <4>3. files[Head(candidates[p])].report \in Processes
        BY <4>2 DEF StoreTypes, Entries
      <4> QED
        BY <3>1, <4>3 DEF OpenCandidate, StoreTypes
    <3> QED
      BY <3>1 DEF ListDirectory, NoCandidateLeft, StoreTypes, scanVars
  <2> QED
    BY <1>1, <2>1, <2>2, <2>3 DEF StoreTypes, TypeOK, MaxSecond, runVars, storeVars
<1>3. WritesInv'
  <2>1. Written' = Written
    BY <1>1 DEF Written, Unsaved, Writing
  <2> QED
    BY <1>1, <2>1, WrittenGrows DEF storeVars
<1>4. TempsInv' /\ FilesInv' /\ TimesInv'
  BY <1>1 DEF TempsInv, FilesInv, TimesInv, storeVars, runVars, Faults, Writing
<1>5. SavedInv'
  BY <1>1 DEF SavedInv, Unsaved, Destination, runVars, storeVars
<1>6. saved[p] = "no"
  BY <1>1 DEF SavedInv, Unsaved
<1>7. ScanInv'
  <2>1. \A q \in Processes : q # p => Ahead(q)' = Ahead(q)
    BY <1>1 DEF Ahead, Compatible, runVars, storeVars
  <2>2. \A q \in Processes : InPlace(target[q].report)' <=>
                              \E n \in DOMAIN files : files[n].report = target'[q].report
    BY <1>1 DEF InPlace, storeVars
  <2>3. \A r \in target'[p].listed : saved'[r] = "saved"
    <3>1. CASE ListDirectory(p)
      <4>1. target'[p].listed = {files[n].report : n \in Listed}
        BY <3>1 DEF ListDirectory, StoreTypes
      <4> QED
        BY <1>1, <4>1 DEF FilesInv, Listed, storeVars
    <3> QED
      BY <1>1, <3>1 DEF ScanInv, OpenCandidate, NoCandidateLeft, scanVars, storeVars
  <2>4. target'[p].report # NoReport => target'[p].report \in target'[p].listed
    <3>1. CASE ListDirectory(p)
      <4> DEFINE eligible == {n \in Listed : Compatible(p, files[n])}
      <4>1. /\ target'[p].listed = {files[n].report : n \in Listed}
            /\ target'[p].report = IF eligible = {} THEN NoReport
                                   ELSE files[Newest(eligible)].report
        BY <3>1 DEF ListDirectory, StoreTypes
      <4>2. PICK order \in Sortings : TRUE
        BY <3>1 DEF ListDirectory
      <4>3. eligible # {} => Newest(eligible) \in Listed
        BY <4>2, NewestIsFirst
      <4> QED
        BY <4>1, <4>3
    <3> QED
      BY <1>1, <3>1 DEF ScanInv, OpenCandidate, NoCandidateLeft, scanVars, storeVars
  <2>5. pc'[p] = "scan" /\ InPlace(target[p].report)' => Ahead(p)'
    <3>1. CASE ListDirectory(p)
      <4>1. InPlace(target[p].report)' => target'[p].report # NoReport
        BY <1>1, StoreAssumption DEF InPlace, StoreTypes, Entries, storeVars
      <4> QED
        BY <3>1, <4>1, ListingLeadsToTarget
    <3>2. CASE OpenCandidate(p)
      <4>1. target' = target /\ files' = files /\ empty' = empty
        BY <3>2 DEF OpenCandidate, runVars, storeVars
      <4>2. SUFFICES ASSUME pc'[p] = "scan", InPlace(target[p].report) PROVE Ahead(p)'
        BY <4>1 DEF InPlace
      <4>3. /\ candidates[p] # <<>> /\ candidates[p] \in Seq(DOMAIN files)
            /\ ~Compatible(p, files[Head(candidates[p])])
            /\ candidates'[p] = Tail(candidates[p])
        BY <3>2, <4>2 DEF OpenCandidate, StoreTypes, TypeOK, Goto
      <4>4. pc[p] = "scan"
        BY <3>2 DEF OpenCandidate
      <4>5. PICK i \in DOMAIN candidates[p] :
              /\ files[candidates[p][i]].report = target[p].report
              /\ Compatible(p, files[candidates[p][i]])
              /\ \A j \in 1..(i - 1) :
                    \/ ~Compatible(p, files[candidates[p][j]])
                    \/ files[candidates[p][j]].report \notin target[p].listed
        BY <4>2, <4>4 DEF ScanInv, Ahead
      <4> DEFINE s == candidates[p]
      <4>6. /\ Head(s) = s[1] /\ DOMAIN s \subseteq Nat \ {0}
            /\ \A k \in DOMAIN s : \A j \in 1..(k - 1) : j \in DOMAIN s
            /\ \A k \in DOMAIN s \ {1} : k - 1 \in DOMAIN Tail(s)
            /\ \A k \in DOMAIN Tail(s) : Tail(s)[k] = s[k + 1]
            /\ Tail(s) \in Seq(DOMAIN files)
        <5>1. s \in Seq(DOMAIN files) /\ s # <<>>
          BY <4>3
        <5> HIDE DEF s
        <5>2. Tail(s) \in Seq(DOMAIN files)
          BY <5>1
        <5> QED
          BY <5>1, <5>2, TailKeeps
      <4>7. i # 1 /\ i - 1 \in DOMAIN Tail(s) /\ Tail(s)[i - 1] = s[i]
        BY <4>3, <4>5, <4>6
      <4>8. \A j \in 1..(i - 2) : /\ j \in DOMAIN Tail(s) /\ Tail(s)[j] = s[j + 1]
                                  /\ j + 1 \in 1..(i - 1)
        <5> SUFFICES ASSUME NEW j \in 1..(i - 2)
                     PROVE  /\ j \in DOMAIN Tail(s) /\ Tail(s)[j] = s[j + 1]
                            /\ j + 1 \in 1..(i - 1)
          OBVIOUS
        <5>1. j + 1 \in DOMAIN s \ {1} /\ j + 1 \in 1..(i - 1) /\ (j + 1) - 1 = j
          BY <4>5, <4>6
        <5> QED
          BY <4>6, <5>1
      <4>9. (i - 1) - 1 = i - 2
        BY <4>5, <4>6
      <4> DEFINE t == Tail(s)
      <4>10. /\ files[t[i - 1]].report = target[p].report
             /\ Compatible(p, files[t[i - 1]])
             /\ \A j \in 1..((i - 1) - 1) :
                   \/ ~Compatible(p, files[t[j]])
                   \/ files[t[j]].report \notin target[p].listed
        BY <4>5, <4>7, <4>8, <4>9
      <4> HIDE DEF s, t
      <4>11. candidates'[p] = t /\ i - 1 \in DOMAIN t
        BY <4>3, <4>7 DEF s, t
      <4> QED
        BY <4>1, <4>10, <4>11 DEF Ahead, Compatible
    <3>3. CASE NoCandidateLeft(p)
      BY <3>3 DEF NoCandidateLeft, Goto, StoreTypes, TypeOK
    <3> QED
      BY <3>1, <3>2, <3>3
  <2> QED
    BY <1>1, <2>1, <2>2, <2>3, <2>4, <2>5 DEF ScanInv, InPlace, storeVars
<1>8. BaselineIsSound'
  <2>1. BaselineIsLatest'
    <3>1. \A q \in Processes : q # p =>
             /\ baseline'[q] = baseline[q] /\ target'[q] = target[q] /\ pc'[q] = pc[q]
      BY <1>1
    <3>2. ASSUME pc'[p] = "persist", \E n \in DOMAIN files : files[n].report = target'[p].report
          PROVE  baseline'[p] = target'[p].report \/ baseline'[p] \in Processes \ target'[p].listed
      <4>1. CASE OpenCandidate(p)
        <5>1. /\ pc[p] = "scan" /\ target' = target
              /\ candidates[p] # <<>> /\ candidates[p] \in Seq(DOMAIN files)
          BY <4>1 DEF OpenCandidate, StoreTypes
        <5>2. /\ Compatible(p, files[Head(candidates[p])])
              /\ baseline'[p] = files[Head(candidates[p])].report
          BY <3>2, <4>1, <5>1 DEF OpenCandidate, StoreTypes
        <5>3. PICK i \in DOMAIN candidates[p] :
                /\ files[candidates[p][i]].report = target[p].report
                /\ \A j \in 1..(i - 1) :
                      \/ ~Compatible(p, files[candidates[p][j]])
                      \/ files[candidates[p][j]].report \notin target[p].listed
          BY <3>2, <5>1 DEF ScanInv, InPlace, Ahead
        <5>4. /\ Head(candidates[p]) \in DOMAIN files
              /\ Head(candidates[p]) = candidates[p][1]
              /\ i \in Nat \ {0}
          BY <5>1, TailKeeps
        <5>5. files[Head(candidates[p])].report \in Processes
          BY <5>4 DEF StoreTypes, Entries
        <5>6. CASE i = 1
          BY <5>1, <5>2, <5>3, <5>4, <5>6
        <5>7. CASE i # 1
          <6>1. 1 \in 1..(i - 1)
            BY <5>4, <5>7
          <6> QED
            BY <5>1, <5>2, <5>3, <5>4, <5>5, <6>1
        <5> QED
          BY <5>6, <5>7
      <4>2. CASE NoCandidateLeft(p)
        <5>1. pc[p] = "scan" /\ target' = target /\ DOMAIN candidates[p] = {}
          BY <4>2 DEF NoCandidateLeft, scanVars
        <5> QED
          BY <3>2, <5>1 DEF ScanInv, InPlace, Ahead
      <4>3. ~ListDirectory(p)
        BY <3>2 DEF ListDirectory, Goto, StoreTypes, TypeOK
      <4> QED
        BY <4>1, <4>2, <4>3
    <3>3. pc'[p] \in {"persist", "write", "sync", "rename"} => pc'[p] = "persist"
      BY <1>1
    <3> QED
      BY <1>1, <3>1, <3>2, <3>3
      DEF BaselineIsSound, BaselineIsLatest, Comparison, runVars, storeVars
  <2>2. BaselineIsAnotherRun'
    <3>1. CASE OpenCandidate(p)
      <4>1. candidates[p] # <<>> /\ candidates[p] \in Seq(DOMAIN files)
        BY <3>1 DEF OpenCandidate, StoreTypes
      <4>2. Head(candidates[p]) \in DOMAIN files
        BY <4>1, TailKeeps
      <4>3. \/ baseline'[p] = baseline[p]
            \/ /\ baseline'[p] = files[Head(candidates[p])].report
               /\ Compatible(p, files[Head(candidates[p])])
        BY <3>1 DEF OpenCandidate, StoreTypes
      <4>4. saved[files[Head(candidates[p])].report] = "saved"
        BY <4>2 DEF FilesInv
      <4>5. baseline'[p] # NoReport =>
               baseline'[p] # p /\ SuiteOf[baseline'[p]] = SuiteOf[p]
        BY <1>6, <4>3, <4>4 DEF Compatible, BaselineIsSound, BaselineIsAnotherRun
      <4> QED
        BY <1>1, <4>5 DEF BaselineIsSound, BaselineIsAnotherRun
    <3> QED
      BY <3>1 DEF ListDirectory, NoCandidateLeft, scanVars, BaselineIsSound,
                  BaselineIsAnotherRun
  <2> QED
    BY <2>1, <2>2 DEF BaselineIsSound
<1> QED
  BY <1>2, <1>3, <1>4, <1>5, <1>7, <1>8

-------------------------------------------------------------------------------
(* The steps of persist_report. *)

\* What every step of a save leaves alone.
LEMMA SavingChangesOne ==
    ASSUME StoreInv, NEW p \in Processes,
           \/ SaveNothing(p) \/ CreateTemporary(p) \/ Write(p)
           \/ Sync(p) \/ Rename(p) \/ SaveFails(p)
    PROVE  /\ UNCHANGED <<second, runVars, scanVars>>
           /\ pc \in [Processes -> Active \cup Over \cup {"idle"}]
           /\ pc' \in [Processes -> Active \cup Over \cup {"idle"}]
           /\ saved' \in [Processes -> {"no", "saved", "failed"}]
           /\ pc[p] \in {"persist"} \cup Writing
           /\ pc'[p] \in {"panicked", "compare", "done"} \cup Writing
           /\ saved[p] = "no"
           /\ pc'[p] \in Writing => saved'[p] = "no"
           /\ \A q \in Processes : q # p => pc'[q] = pc[q] /\ saved'[q] = saved[q]
           /\ ~Rename(p) => UNCHANGED files
           /\ ~Write(p) => UNCHANGED writes
<1>1. pc[p] \in {"persist"} \cup Writing
  BY DEF SaveNothing, CreateTemporary, Write, Sync, Rename, SaveFails, Writing
<1>2. saved[p] = "no"
  BY <1>1 DEF StoreInv, SavedInv, Unsaved
<1>3. \A outcome : AfterSave(p, outcome) \in {"panicked", "compare", "done"}
  BY DEF AfterSave
<1>4. /\ \/ pc' = [pc EXCEPT ![p] = "write"] \/ pc' = [pc EXCEPT ![p] = "sync"]
         \/ pc' = [pc EXCEPT ![p] = "rename"]
         \/ \E outcome \in {"no", "saved", "failed"} :
                pc' = [pc EXCEPT ![p] = AfterSave(p, outcome)]
      /\ \/ saved' = saved
         \/ /\ \E outcome \in {"no", "saved", "failed"} :
                  saved' = [saved EXCEPT ![p] = outcome]
            /\ \E outcome \in {"no", "saved", "failed"} :
                  pc' = [pc EXCEPT ![p] = AfterSave(p, outcome)]
  BY DEF SaveNothing, CreateTemporary, Write, Sync, Rename, SaveFails, SaveEnds, Goto
<1>5. UNCHANGED <<second, runVars, scanVars>>
  BY DEF SaveNothing, CreateTemporary, Write, Sync, Rename, SaveFails
<1>6. (~Rename(p) => UNCHANGED files) /\ (~Write(p) => UNCHANGED writes)
  BY DEF SaveNothing, CreateTemporary, Write, Sync, Rename, SaveFails
<1>7. /\ pc \in [Processes -> Active \cup Over \cup {"idle"}]
      /\ saved \in [Processes -> {"no", "saved", "failed"}]
  BY DEF StoreInv, StoreTypes, TypeOK
<1>8. /\ pc' \in [Processes -> Active \cup Over \cup {"idle"}]
      /\ pc'[p] \in {"panicked", "compare", "done"} \cup Writing
      /\ \A q \in Processes : q # p => pc'[q] = pc[q]
  BY <1>3, <1>4, <1>7 DEF Active, Over, Writing
<1>9. /\ saved' \in [Processes -> {"no", "saved", "failed"}]
      /\ \A q \in Processes : q # p => saved'[q] = saved[q]
  BY <1>4, <1>7
<1>10. pc'[p] \in Writing => saved'[p] = "no"
  BY <1>2, <1>3, <1>4, <1>7 DEF Writing
<1> QED
  BY <1>1, <1>2, <1>5, <1>6, <1>7, <1>8, <1>9, <1>10

\* A write is one of a process that had not written.
LEMMA WriteIsCounted ==
    ASSUME StoreInv, NEW p \in Processes, Write(p)
    PROVE  WritesInv' /\ writes' \in 0..Cardinality(Processes)
<1>1. /\ pc[p] = "write" /\ pc'[p] = "sync" /\ writes' = writes + 1
      /\ \A q \in Processes : q # p => pc'[q] = pc[q]
  BY DEF StoreInv, StoreTypes, TypeOK, Write, Goto
<1>2. Written' = Written \cup {p} /\ p \notin Written
  BY <1>1 DEF Written, Unsaved, Writing
<1>3. IsFiniteSet(Written) /\ Cardinality(Written) \in Nat
  BY StoreAssumption, FS_Subset, FS_CardinalityType DEF Written
<1>4. Cardinality(Written') = Cardinality(Written) + 1
  BY <1>2, <1>3, FS_AddElement
<1>5. Cardinality(Written') <= Cardinality(Processes) /\ Cardinality(Processes) \in Nat
  BY StoreAssumption, FS_Subset, FS_CardinalityType DEF Written
<1> QED
  BY <1>1, <1>3, <1>4, <1>5 DEF WritesInv, StoreInv, StoreTypes, TypeOK

\* What a save does to the temporary files: those of the others stay, and that
\* of the process itself is as its position says, or gone.
LEMMA SavingMovesOneTemp ==
    ASSUME StoreInv, NEW p \in Processes,
           \/ SaveNothing(p) \/ CreateTemporary(p) \/ Write(p)
           \/ Sync(p) \/ Rename(p) \/ SaveFails(p)
    PROVE  /\ temps' \in [DOMAIN temps' -> Entries]
           /\ DOMAIN temps' \ {p} = DOMAIN temps \ {p}
           /\ \A q \in DOMAIN temps \ {p} : temps'[q] = temps[q]
           /\ pc'[p] \in Writing => p \in DOMAIN temps'
           /\ p \in DOMAIN temps' =>
                 \/ pc'[p] \in Writing
                 \/ "remove" \in Faults /\ saved'[p] = "failed"
           /\ p \in DOMAIN temps' =>
                 /\ temps'[p].report = p
                 /\ pc'[p] = "write" => ~temps'[p].whole
                 /\ pc'[p] \in {"sync", "rename"} => temps'[p].whole
                 /\ pc'[p] = "rename" => temps'[p].synced
           /\ p \in DOMAIN temps' /\ temps'[p].whole =>
                 \/ p \in DOMAIN temps /\ temps[p].whole /\ temps'[p].mtime = temps[p].mtime
                 \/ writes' = writes + 1 /\ temps'[p].mtime = writes + 1
<1> USE DEF Writing
<1>0. /\ temps \in [DOMAIN temps -> Entries]
      /\ writes \in Nat
      /\ pc \in [Processes -> Active \cup Over \cup {"idle"}]
      /\ saved \in [Processes -> {"no", "saved", "failed"}]
      /\ p \in DOMAIN temps => temps[p].report = p
      /\ pc[p] = "persist" => p \notin DOMAIN temps
      /\ pc[p] \in Writing => p \in DOMAIN temps
      /\ pc[p] \in {"sync", "rename"} => temps[p].whole
      /\ pc[p] = "rename" => temps[p].synced
  <2>1. Cardinality(Processes) \in Nat
    BY StoreAssumption, FS_CardinalityType
  <2>2. pc[p] = "persist" => p \notin DOMAIN temps
    <3>1. pc[p] = "persist" => saved[p] = "no"
      BY DEF StoreInv, SavedInv, Unsaved
    <3> QED
      BY <3>1 DEF StoreInv, TempsInv
  <2>3. p \in DOMAIN temps => temps[p].report = p
    BY DEF StoreInv, TempsInv
  <2> QED
    BY <2>1, <2>2, <2>3 DEF StoreInv, StoreTypes, TypeOK, TempsInv
<1>1. \A outcome : AfterSave(p, outcome) \in {"panicked", "compare", "done"}
  BY DEF AfterSave
<1>2. CASE SaveNothing(p)
  <2>1. pc[p] = "persist" /\ temps' = temps /\ pc'[p] \notin Writing
    BY <1>0, <1>1, <1>2 DEF SaveNothing, SaveEnds, Goto
  <2> QED
    BY <1>0, <2>1
<1>3. CASE CreateTemporary(p)
  <2> DEFINE new == [report |-> p, whole |-> FALSE, synced |-> FALSE, mtime |-> writes]
  <2>1. pc'[p] = "write" /\ temps' = Put(temps, p, new)
    BY <1>0, <1>3 DEF CreateTemporary, Goto
  <2>2. new \in Entries /\ new.report = p /\ ~new.whole
    BY <1>0 DEF Entries
  <2> HIDE DEF new
  <2>3. /\ DOMAIN temps' = DOMAIN temps \cup {p}
        /\ temps' \in [DOMAIN temps \cup {p} -> Entries]
        /\ temps'[p] = new
        /\ \A q \in DOMAIN temps : q # p => temps'[q] = temps[q]
    <3>1. temps \in [DOMAIN temps -> Entries]
      BY <1>0
    <3>2. /\ DOMAIN Put(temps, p, new) = DOMAIN temps \cup {p}
          /\ Put(temps, p, new) \in [DOMAIN temps \cup {p} -> Entries]
          /\ Put(temps, p, new)[p] = new
          /\ \A q \in DOMAIN temps : q # p => Put(temps, p, new)[q] = temps[q]
      BY <3>1, <2>2 DEF Put
    <3> QED
      BY <2>1, <3>2
  <2> QED
    BY <2>1, <2>2, <2>3
<1>4. CASE Write(p)
  <2>1. /\ pc[p] = "write" /\ pc'[p] = "sync" /\ writes' = writes + 1
        /\ temps' = [temps EXCEPT ![p].whole = TRUE, ![p].mtime = writes + 1]
    BY <1>0, <1>4 DEF Write, Goto
  <2>2. p \in DOMAIN temps /\ temps[p] \in Entries
    BY <1>0, <2>1
  <2>3. /\ DOMAIN temps' = DOMAIN temps
        /\ temps'[p] = [temps[p] EXCEPT !.whole = TRUE, !.mtime = writes + 1]
        /\ \A q \in DOMAIN temps \ {p} : temps'[q] = temps[q]
    BY <2>1, <2>2, <1>0
  <2>4. /\ temps'[p] \in Entries /\ temps'[p].report = temps[p].report
        /\ temps'[p].whole /\ temps'[p].mtime = writes + 1
    <3>1. writes + 1 \in Nat
      BY <1>0
    <3> QED
      BY <2>2, <2>3, <3>1 DEF Entries
  <2>5. temps' \in [DOMAIN temps' -> Entries]
    BY <1>0, <2>1, <2>2, <2>3, <2>4
  <2> QED
    BY <1>0, <2>1, <2>2, <2>3, <2>4, <2>5
<1>5. CASE Sync(p)
  <2>1. /\ pc[p] = "sync" /\ pc'[p] = "rename"
        /\ temps' = [temps EXCEPT ![p].synced = TRUE]
    BY <1>0, <1>5 DEF Sync, Goto
  <2>2. p \in DOMAIN temps /\ temps[p] \in Entries
    BY <1>0, <2>1
  <2>3. /\ DOMAIN temps' = DOMAIN temps
        /\ temps'[p] = [temps[p] EXCEPT !.synced = TRUE]
        /\ \A q \in DOMAIN temps \ {p} : temps'[q] = temps[q]
    BY <2>1, <2>2, <1>0
  <2>4. /\ temps'[p] \in Entries /\ temps'[p].report = temps[p].report /\ temps'[p].synced
        /\ temps'[p].whole = temps[p].whole /\ temps'[p].mtime = temps[p].mtime
    BY <2>2, <2>3 DEF Entries
  <2>5. temps' \in [DOMAIN temps' -> Entries]
    BY <1>0, <2>1, <2>2, <2>3, <2>4
  <2> QED
    BY <1>0, <2>1, <2>2, <2>3, <2>4, <2>5
<1>6. CASE Rename(p) \/ SaveFails(p)
  <2>1. /\ pc'[p] \notin Writing /\ (Rename(p) => temps' = Without(p))
        /\ \/ temps' = Without(p)
           \/ temps' = temps /\ "remove" \in Faults /\ saved'[p] = "failed"
    BY <1>0, <1>1, <1>6 DEF Rename, SaveFails, RemoveTemporary, SaveEnds, Goto
  <2>2. CASE temps' = Without(p)
    <3>1. /\ DOMAIN temps' = DOMAIN temps \ {p}
          /\ temps' \in [DOMAIN temps \ {p} -> Entries]
          /\ \A q \in DOMAIN temps : q # p => temps'[q] = temps[q]
      BY <1>0, <2>2, WithoutRemoves
    <3> QED
      BY <2>1, <3>1
  <2>3. CASE temps' = temps /\ "remove" \in Faults /\ saved'[p] = "failed"
    BY <1>0, <2>1, <2>3
  <2> QED
    BY <2>1, <2>2, <2>3
<1> QED
  BY <1>2, <1>3, <1>4, <1>5, <1>6

\* What a save does to the files in place: a rename puts one whole, synchronised
\* report in place; every other file, and the report of every other, stays.
LEMMA SavingPutsOneFile ==
    ASSUME StoreInv, NEW p \in Processes,
           \/ SaveNothing(p) \/ CreateTemporary(p) \/ Write(p)
           \/ Sync(p) \/ Rename(p) \/ SaveFails(p)
    PROVE  /\ files' \in [DOMAIN files' -> Entries]
           /\ IsFiniteSet(DOMAIN files')
           /\ DOMAIN files \subseteq DOMAIN files'
           /\ \A n \in DOMAIN files' :
                 \/ n \in DOMAIN files /\ files'[n] = files[n]
                 \/ /\ files'[n] = temps[p] /\ p \in DOMAIN temps
                    /\ files'[n].report = p /\ files'[n].whole /\ files'[n].synced
                    /\ saved'[p] = "saved" /\ p \notin DOMAIN temps'
                    /\ \A m \in DOMAIN files' \ {n} :
                          m \in DOMAIN files /\ files'[m] = files[m]
           /\ \A n \in DOMAIN files : files'[n] = files[n] \/ files'[n].report = p
           /\ \A n \in DOMAIN files : files[n].report \in Processes \ {p}
<1>1. \A n \in DOMAIN files : files[n].report \in Processes \ {p}
  BY SavingChangesOne DEF StoreInv, StoreTypes, FilesInv, Entries
<1>2. files \in [DOMAIN files -> Entries] /\ IsFiniteSet(DOMAIN files)
  BY DEF StoreInv, StoreTypes
<1>3. CASE ~Rename(p)
  <2>1. files' = files
    BY <1>3, SavingChangesOne
  <2> QED
    BY <1>1, <1>2, <2>1
<1>4. CASE Rename(p)
  <2> DEFINE name == NameOf(p)
  <2>1. /\ p \in DOMAIN temps /\ temps[p] \in Entries
        /\ temps[p].report = p /\ temps[p].whole /\ temps[p].synced
    BY <1>4 DEF Rename, StoreInv, StoreTypes, TempsInv, Writing
  <2>2. files' = Put(files, name, temps[p])
    BY <1>4 DEF Rename
  <2>3. saved'[p] = "saved" /\ pc'[p] \notin Writing
    <3>1. \A outcome : AfterSave(p, outcome) \in {"panicked", "compare", "done"}
      BY DEF AfterSave
    <3> QED
      BY <1>4, <3>1
      DEF Rename, SaveEnds, Goto, StoreInv, StoreTypes, TypeOK, Writing
  <2>4. p \notin DOMAIN temps'
    BY <1>4, WithoutRemoves DEF Rename, StoreInv, StoreTypes
  <2> HIDE DEF name
  <2>5. /\ DOMAIN files' = DOMAIN files \cup {name}
        /\ files' \in [DOMAIN files \cup {name} -> Entries]
        /\ files'[name] = temps[p]
        /\ \A n \in DOMAIN files : n # name => files'[n] = files[n]
    BY <1>2, <2>1, <2>2 DEF Put
  <2>6. IsFiniteSet(DOMAIN files')
    BY <1>2, <2>5, FS_AddElement
  <2> QED
    BY <1>1, <2>1, <2>3, <2>4, <2>5, <2>6
<1> QED
  BY <1>3, <1>4

\* The steps of a save.
LEMMA SavingKeepsInv ==
    ASSUME StoreInv, NEW p \in Processes,
           \/ SaveNothing(p) \/ CreateTemporary(p) \/ Write(p)
           \/ Sync(p) \/ Rename(p) \/ SaveFails(p)
    PROVE  StoreInv'
<1>1. WritesInv' /\ writes' \in 0..Cardinality(Processes)
  <2>1. CASE Write(p)
    BY <2>1, WriteIsCounted
  <2>2. CASE ~Write(p)
    <3>1. writes' = writes
      BY <2>2, SavingChangesOne
    <3>2. Written \subseteq Written'
      <4>1. pc[p] \in {"sync", "rename"} => pc'[p] \notin {"persist", "write"}
        BY <2>2 DEF SaveNothing, CreateTemporary, Write, Sync, Rename, SaveFails, SaveEnds,
                    Goto, AfterSave, StoreInv, StoreTypes, TypeOK
      <4> QED
        BY <4>1, SavingChangesOne DEF Written, Unsaved, Writing
    <3> QED
      BY <3>1, <3>2, WrittenGrows DEF StoreInv, StoreTypes, TypeOK
  <2> QED
    BY <2>1, <2>2
<1>2. StoreTypes'
  <2>1. DOMAIN temps' \subseteq Processes
    BY SavingMovesOneTemp DEF StoreInv, StoreTypes, TypeOK
  <2>2. candidates' \in [Processes -> Seq(DOMAIN files')]
    <3>1. candidates' = candidates /\ candidates \in [Processes -> Seq(DOMAIN files)]
      BY SavingChangesOne DEF scanVars, StoreInv, StoreTypes
    <3>2. DOMAIN files \subseteq DOMAIN files'
      BY SavingPutsOneFile
    <3>3. \A s \in Seq(DOMAIN files) : s \in Seq(DOMAIN files')
      BY <3>2
    <3> QED
      BY <3>1, <3>3
  <2>3. /\ UNCHANGED <<second, setup, timestamp, empty, target, baseline>>
        /\ pc' \in [Processes -> Active \cup Over \cup {"idle"}]
        /\ saved' \in [Processes -> {"no", "saved", "failed"}]
    BY SavingChangesOne DEF runVars, scanVars
  <2>4. temps' \in [DOMAIN temps' -> Entries]
    BY SavingMovesOneTemp
  <2>5. files' \in [DOMAIN files' -> Entries] /\ IsFiniteSet(DOMAIN files')
    BY SavingPutsOneFile
  <2>6. TypeOK'
    BY <1>1, <2>1, <2>3, <2>4, <2>5 DEF StoreInv, StoreTypes, TypeOK, MaxSecond
  <2> QED
    BY <2>2, <2>3, <2>4, <2>5, <2>6 DEF StoreInv, StoreTypes
<1>3. TempsInv'
  <2>1. \A q \in Processes : q # p =>
           /\ q \in DOMAIN temps' => q \in DOMAIN temps /\ temps'[q] = temps[q]
           /\ q \in DOMAIN temps => q \in DOMAIN temps' /\ temps'[q] = temps[q]
           /\ pc'[q] = pc[q] /\ saved'[q] = saved[q]
    BY SavingMovesOneTemp, SavingChangesOne
  <2>2. /\ p \in DOMAIN temps' =>
              /\ temps'[p].report = p
              /\ \/ pc'[p] \in Writing \cup {"killed"} /\ saved'[p] = "no"
                 \/ "remove" \in Faults /\ saved'[p] = "failed"
        /\ pc'[p] \in Writing => p \in DOMAIN temps'
        /\ pc'[p] \in {"sync", "rename"} => temps'[p].whole
        /\ pc'[p] = "rename" => temps'[p].synced
    BY SavingMovesOneTemp, SavingChangesOne DEF Writing
  <2>3. ASSUME NEW q \in Processes, q # p
        PROVE  /\ q \in DOMAIN temps' =>
                     /\ temps'[q].report = q
                     /\ \/ pc'[q] \in Writing \cup {"killed"} /\ saved'[q] = "no"
                        \/ "remove" \in Faults /\ saved'[q] = "failed"
               /\ pc'[q] \in Writing => q \in DOMAIN temps'
               /\ pc'[q] \in {"sync", "rename"} => temps'[q].whole
               /\ pc'[q] = "rename" => temps'[q].synced
    BY <2>1, <2>3 DEF StoreInv, TempsInv, Writing
  <2>4. Faults' = Faults
    BY SavingChangesOne DEF runVars, Faults
  <2> QED
    BY <2>2, <2>3, <2>4 DEF TempsInv
<1>4. FilesInv'
  <2>1. \A q \in Processes : q # p => saved'[q] = saved[q]
    BY SavingChangesOne
  <2> QED
    BY <2>1, SavingPutsOneFile DEF StoreInv, FilesInv
<1>5. TimesInv'
  <2>1. /\ writes \in Nat /\ writes' \in Nat /\ writes <= writes'
        /\ \A q \in DOMAIN temps : temps[q].mtime \in Nat
        /\ \A n \in DOMAIN files : files[n].mtime \in Nat
    <3>1. Cardinality(Processes) \in Nat
      BY StoreAssumption, FS_CardinalityType
    <3>2. writes' = writes \/ writes' = writes + 1
      BY SavingChangesOne DEF Write
    <3> QED
      BY <3>1, <3>2 DEF StoreInv, StoreTypes, TypeOK, Entries
  <2> DEFINE Old(q) == q \in DOMAIN temps /\ temps[q].whole /\ temps'[q].mtime = temps[q].mtime
             New(q) == q = p /\ writes' = writes + 1 /\ temps'[q].mtime = writes + 1
  <2>2. \A q \in DOMAIN temps' : temps'[q].whole => Old(q) \/ New(q)
    BY SavingMovesOneTemp
  <2>3. \A n \in DOMAIN files' :
           \/ n \in DOMAIN files /\ files'[n] = files[n]
           \/ /\ files'[n] = temps[p] /\ p \in DOMAIN temps /\ temps[p].whole
              /\ p \notin DOMAIN temps'
              /\ \A m \in DOMAIN files' \ {n} : m \in DOMAIN files /\ files'[m] = files[m]
    BY SavingPutsOneFile
  <2>4. \A q \in DOMAIN temps : temps[q].whole =>
          /\ temps[q].mtime <= writes
          /\ \A r \in DOMAIN temps :
                temps[r].whole /\ temps[r].mtime = temps[q].mtime => r = q
          /\ \A n \in DOMAIN files : files[n].mtime # temps[q].mtime
    BY DEF StoreInv, TimesInv
  <2>5. \A n \in DOMAIN files :
          /\ files[n].mtime <= writes
          /\ \A m \in DOMAIN files : files[m].mtime = files[n].mtime => m = n
    BY DEF StoreInv, TimesInv
  <2>6. ASSUME NEW q \in DOMAIN temps', temps'[q].whole
        PROVE  /\ temps'[q].mtime <= writes'
               /\ \A r \in DOMAIN temps' :
                     temps'[r].whole /\ temps'[r].mtime = temps'[q].mtime => r = q
               /\ \A n \in DOMAIN files' : files'[n].mtime # temps'[q].mtime
    <3>1. temps'[q].mtime <= writes'
      BY <2>1, <2>2, <2>4, <2>6
    <3>2. ASSUME NEW r \in DOMAIN temps', temps'[r].whole, temps'[r].mtime = temps'[q].mtime
          PROVE  r = q
      BY <2>1, <2>2, <2>4, <2>6, <3>2
    <3>3. ASSUME NEW n \in DOMAIN files' PROVE files'[n].mtime # temps'[q].mtime
      BY <2>1, <2>2, <2>3, <2>4, <2>5, <2>6
    <3> QED
      BY <3>1, <3>2, <3>3
  <2>7. ASSUME NEW n \in DOMAIN files'
        PROVE  /\ files'[n].mtime <= writes'
               /\ \A m \in DOMAIN files' : files'[m].mtime = files'[n].mtime => m = n
    <3>1. files'[n].mtime <= writes'
      BY <2>1, <2>3, <2>4, <2>5
    <3>2. ASSUME NEW m \in DOMAIN files', files'[m].mtime = files'[n].mtime, m # n
          PROVE  FALSE
      BY <2>1, <2>3, <2>4, <2>5, <3>2
    <3> QED
      BY <3>1, <3>2
  <2> QED
    BY <2>6, <2>7 DEF TimesInv
<1>6. SavedInv'
  <2>1. \E outcome \in {"no", "saved", "failed"} :
           \/ pc'[p] \in Writing /\ saved'[p] = "no"
           \/ /\ pc'[p] = AfterSave(p, outcome) /\ saved'[p] = outcome
              /\ outcome = "no" => Destination[p] = "disabled"
    BY SavingChangesOne
    DEF SaveNothing, CreateTemporary, Write, Sync, Rename, SaveFails, SaveEnds, Goto,
        Writing, StoreInv, StoreTypes, TypeOK
  <2> QED
    BY <2>1, SavingChangesOne
    DEF StoreInv, SavedInv, AfterSave, Destination, Unsaved, Writing, runVars
<1>7. \A q \in Processes : InPlace(target[q].report)' => InPlace(target[q].report)
  <2>1. target' = target
    BY SavingChangesOne DEF scanVars
  <2>2. \A q \in Processes : target[q].report # p
    <3> SUFFICES ASSUME NEW q \in Processes PROVE target[q].report # p
      OBVIOUS
    <3> QED
      BY SavingChangesOne, StoreAssumption DEF StoreInv, ScanInv
  <2>3. \A n \in DOMAIN files' : \/ n \in DOMAIN files /\ files'[n] = files[n]
                                 \/ files'[n].report = p
    BY SavingPutsOneFile
  <2> QED
    BY <2>1, <2>2, <2>3 DEF InPlace
<1>8. ScanInv'
  <2>1. /\ UNCHANGED <<candidates, target, empty>>
        /\ pc'[p] # "scan" /\ saved[p] = "no"
        /\ \A q \in Processes : q # p => pc'[q] = pc[q] /\ saved'[q] = saved[q]
    BY SavingChangesOne DEF scanVars, runVars, Writing
  <2>2. \A q \in Processes : p \notin target[q].listed
    BY <2>1 DEF StoreInv, ScanInv
  <2>3. ASSUME NEW q \in Processes, pc'[q] = "scan", InPlace(target[q].report)'
        PROVE  Ahead(q)'
    <3>1. Ahead(q)
      BY <1>7, <2>1, <2>3 DEF StoreInv, ScanInv
    <3>2. PICK i \in DOMAIN candidates[q] :
            /\ files[candidates[q][i]].report = target[q].report
            /\ Compatible(q, files[candidates[q][i]])
            /\ \A j \in 1..(i - 1) :
                  \/ ~Compatible(q, files[candidates[q][j]])
                  \/ files[candidates[q][j]].report \notin target[q].listed
      BY <3>1 DEF Ahead
    <3>3. /\ i \in Nat \ {0} /\ candidates[q][i] \in DOMAIN files
          /\ \A j \in 1..(i - 1) : candidates[q][j] \in DOMAIN files
      <4>1. candidates[q] \in Seq(DOMAIN files)
        BY DEF StoreInv, StoreTypes
      <4>2. /\ i \in Nat \ {0}
            /\ \A j \in 1..(i - 1) : j \in DOMAIN candidates[q]
            /\ \A j \in DOMAIN candidates[q] : candidates[q][j] \in DOMAIN files
        BY <4>1
      <4> QED
        BY <4>2
    <3>4. PICK n \in DOMAIN files' : files'[n].report = target[q].report
      BY <2>1, <2>3 DEF InPlace
    <3>5. target[q].report # p
      BY <2>1, <2>2, StoreAssumption DEF StoreInv, ScanInv
    <3>6. n \in DOMAIN files /\ files'[n] = files[n]
      BY <3>4, <3>5, SavingPutsOneFile
    <3>7. n = candidates[q][i]
      BY <3>2, <3>3, <3>4, <3>6 DEF StoreInv, FilesInv
    <3>8. \A j \in 1..(i - 1) :
             \/ files'[candidates[q][j]] = files[candidates[q][j]]
             \/ files'[candidates[q][j]].report = p
      BY <3>3, SavingPutsOneFile
    <3>9. \A j \in 1..(i - 1) :
             \/ ~Compatible(q, files'[candidates[q][j]])
             \/ files'[candidates[q][j]].report \notin target[q].listed
      BY <2>2, <3>2, <3>8
    <3>10. Compatible(q, files'[candidates[q][i]])
      BY <3>2, <3>6, <3>7
    <3> QED
      BY <2>1, <3>4, <3>7, <3>9, <3>10 DEF Ahead, Compatible
  <2>4. ASSUME NEW q \in Processes, NEW r \in target'[q].listed
        PROVE  saved'[r] = "saved"
    BY <2>1, <2>2 DEF StoreInv, StoreTypes, ScanInv
  <2> QED
    BY <2>1, <2>3, <2>4 DEF StoreInv, ScanInv
<1>9. BaselineIsSound'
  <2>1. /\ UNCHANGED <<setup, target, baseline>>
        /\ pc[p] \in {"persist", "write", "sync", "rename"}
        /\ \A q \in Processes : q # p => pc'[q] = pc[q]
    BY SavingChangesOne DEF scanVars, runVars, Writing
  <2>2. BaselineIsLatest'
    BY <1>7, <2>1
    DEF StoreInv, BaselineIsSound, BaselineIsLatest, InPlace, Comparison
  <2> QED
    BY <2>1, <2>2 DEF StoreInv, BaselineIsSound, BaselineIsAnotherRun
<1> QED
  BY <1>1, <1>2, <1>3, <1>4, <1>5, <1>6, <1>8, <1>9 DEF StoreInv

-------------------------------------------------------------------------------
(* The machine, and the step as a whole. *)

\* A power loss ends the processes and tears only temporary files.
LEMMA PowerLossKeepsInv == StoreInv /\ PowerLoss => StoreInv'
<1> SUFFICES ASSUME StoreInv, PowerLoss PROVE StoreInv'
  OBVIOUS
<1> USE DEF StoreInv
<1>1. /\ UNCHANGED <<setup, second, timestamp, empty, candidates, target, baseline,
                     writes, saved>>
      /\ pc \in [Processes -> Active \cup Over \cup {"idle"}]
      /\ pc' = [p \in Processes |-> IF pc[p] \in Active THEN "killed" ELSE pc[p]]
  BY DEF PowerLoss, runVars, scanVars, StoreTypes, TypeOK
<1>2. /\ pc' \in [Processes -> Over \cup {"idle"}]
      /\ \A p \in Processes : \/ pc'[p] = "killed" /\ pc[p] \in Active
                              \/ pc'[p] = pc[p] /\ pc[p] \notin Active
  BY <1>1 DEF Active, Over
<1>3. files' = files
  <2>1. files' = [n \in DOMAIN files |-> Torn(files[n])]
    BY DEF PowerLoss
  <2>2. \A n \in DOMAIN files : Torn(files[n]) = files[n]
    BY DEF StoreTypes, FilesInv, Entries, Torn
  <2> QED
    BY <2>1, <2>2 DEF StoreTypes
<1>4. /\ DOMAIN temps' = DOMAIN temps
      /\ temps' \in [DOMAIN temps -> Entries]
      /\ \A p \in DOMAIN temps :
            /\ temps'[p].report = temps[p].report /\ temps'[p].mtime = temps[p].mtime
            /\ temps'[p].whole => temps[p].whole
  <2>1. temps' = [p \in DOMAIN temps |-> Torn(temps[p])]
    BY DEF PowerLoss
  <2>2. \A p \in DOMAIN temps :
           /\ Torn(temps[p]) \in Entries
           /\ Torn(temps[p]).report = temps[p].report
           /\ Torn(temps[p]).mtime = temps[p].mtime
           /\ Torn(temps[p]).whole => temps[p].whole
    <3> SUFFICES ASSUME NEW p \in DOMAIN temps, NEW file, file = temps[p]
                 PROVE  /\ Torn(file) \in Entries
                        /\ Torn(file).report = file.report
                        /\ Torn(file).mtime = file.mtime
                        /\ Torn(file).whole => file.whole
      OBVIOUS
    <3>1. file \in Entries
      BY DEF StoreTypes
    <3> HIDE DEF StoreInv
    <3> QED
      BY <3>1 DEF Entries, Torn
  <2> QED
    BY <2>1, <2>2
<1> HIDE DEF StoreInv
<1>5. StoreTypes'
  <2>1. pc' \in [Processes -> Active \cup Over \cup {"idle"}]
    BY <1>2
  <2> QED
    BY <1>1, <1>3, <1>4, <2>1 DEF StoreInv, StoreTypes, TypeOK, MaxSecond
<1>6. WritesInv'
  <2>1. Written \subseteq Written'
    BY <1>2 DEF Written, Unsaved, Writing, Active
  <2> QED
    BY <1>1, <2>1, WrittenGrows DEF StoreInv
<1>7. TempsInv'
  <2>1. Faults' = Faults
    BY <1>1 DEF Faults
  <2>2. \A p \in Processes : /\ pc'[p] \notin Writing
                             /\ pc[p] \in Writing \cup {"killed"} => pc'[p] = "killed"
    BY <1>2 DEF Writing, Active, Over
  <2> QED
    BY <1>1, <1>4, <2>1, <2>2 DEF StoreInv, TempsInv, Writing
<1>8. FilesInv' /\ TimesInv'
  BY <1>1, <1>3, <1>4 DEF StoreInv, FilesInv, TimesInv
<1>9. SavedInv'
  BY <1>1, <1>2 DEF StoreInv, SavedInv, Unsaved, Writing, Active, Destination
<1>10. ScanInv'
  BY <1>1, <1>2, <1>3 DEF StoreInv, ScanInv, Active, Over
<1>11. BaselineIsSound'
  BY <1>1, <1>2
  DEF StoreInv, BaselineIsSound, BaselineIsLatest, BaselineIsAnotherRun, Over
<1> QED
  BY <1>5, <1>6, <1>7, <1>8, <1>9, <1>10, <1>11 DEF StoreInv

\* A second passes, or nothing happens.
LEMMA TickKeepsInv == StoreInv /\ (Tick \/ UNCHANGED vars) => StoreInv'
<1> SUFFICES ASSUME StoreInv, Tick \/ UNCHANGED vars PROVE StoreInv'
  OBVIOUS
<1>1. /\ UNCHANGED <<setup, writes, pc, timestamp, empty, candidates, target, baseline,
                     saved, temps, files>>
      /\ second' = second \/ (second < MaxSecond /\ second' = second + 1)
  BY DEF Tick, vars, runVars, scanVars, storeVars
<1>2. StoreTypes'
  <2>1. MaxSecond \in Nat
    BY DEF StoreInv, StoreTypes, Setup, MaxSecond
  <2>2. second' \in 0..MaxSecond
    BY <1>1, <2>1 DEF StoreInv, StoreTypes, TypeOK
  <2> QED
    BY <1>1, <2>2 DEF StoreInv, StoreTypes, TypeOK, MaxSecond
<1>3. WritesInv' /\ TempsInv' /\ FilesInv' /\ TimesInv' /\ SavedInv'
  <2>1. Written' = Written
    BY <1>1 DEF Written
  <2>2. WritesInv'
    BY <1>1, <2>1 DEF StoreInv, WritesInv
  <2>3. TempsInv'
    BY <1>1 DEF StoreInv, TempsInv, Faults
  <2>4. FilesInv'
    BY <1>1 DEF StoreInv, FilesInv
  <2>5. TimesInv'
    BY <1>1 DEF StoreInv, TimesInv
  <2>6. SavedInv'
    BY <1>1 DEF StoreInv, SavedInv, Destination
  <2> QED
    BY <2>2, <2>3, <2>4, <2>5, <2>6
<1>4. ScanInv'
  BY <1>1 DEF StoreInv, ScanInv, Ahead, InPlace, Compatible, Comparison
<1>5. BaselineIsSound'
  BY <1>1 DEF StoreInv, BaselineIsSound, BaselineIsLatest, BaselineIsAnotherRun, Comparison
<1> QED
  BY <1>2, <1>3, <1>4, <1>5 DEF StoreInv

\* Every step of a process, and of the world around them.
LEMMA NextKeepsInv == StoreInv /\ [Next]_vars => StoreInv'
<1> SUFFICES ASSUME StoreInv, [Next]_vars PROVE StoreInv'
  OBVIOUS
<1>1. ASSUME NEW p \in Processes, ProcessStep(p) \/ Kill(p) PROVE StoreInv'
  <2>1. CASE Start(p) \/ Measure(p) \/ CompareExplicit(p) \/ Kill(p)
    BY <2>1, RunningKeepsInv
  <2>2. CASE ListDirectory(p) \/ OpenCandidate(p) \/ NoCandidateLeft(p)
    BY <2>2, ScanningKeepsInv
  <2>3. CASE \/ SaveNothing(p) \/ CreateTemporary(p) \/ Write(p)
             \/ Sync(p) \/ Rename(p) \/ SaveFails(p)
    BY <2>3, SavingKeepsInv
  <2> QED
    BY <1>1, <2>1, <2>2, <2>3 DEF ProcessStep
<1> QED
  BY <1>1, PowerLossKeepsInv, TickKeepsInv DEF Next, Terminating

\* Every part of the inductive invariant of the store holds in every reachable state.
THEOREM StoreInvHolds == Spec => []StoreInv
<1> QED
  BY InitIsStoreInv, NextKeepsInv, PTL DEF Spec

-------------------------------------------------------------------------------
(* What holds of any number of benchmark processes, under every fault. *)

\* The type invariant: every process is at a position of the launcher, a
\* process writes its report at most once, and the maps hold file entries.
THEOREM StoreTypeCorrect == Spec => []TypeOK
<1>1. StoreInv => TypeOK
  BY DEF StoreInv, StoreTypes
<1> QED
  BY <1>1, StoreInvHolds, PTL

\* save_to_path renames only what is whole and synchronised: no reader, no kill
\* and no power loss finds part of a report under its final name.
THEOREM ReportsStayWhole == Spec => []ReportsAreWhole
<1>1. StoreInv => ReportsAreWhole
  BY DEF StoreInv, FilesInv, ReportsAreWhole
<1> QED
  BY <1>1, StoreInvHolds, PTL

\* run_benchmark_main persists the evidence before it compares it with an
\* explicit baseline.
THEOREM EvidenceIsKept == Spec => []EvidenceOutlivesComparison
<1>1. StoreInv => EvidenceOutlivesComparison
  BY DEF StoreInv, SavedInv, EvidenceOutlivesComparison
<1> QED
  BY <1>1, StoreInvHolds, PTL

\* A save that fails puts no report in place, leaves its temporary file only if
\* that cannot be removed, and ends a process that was given an explicit path.
THEOREM SavesAreAllOrNothing == Spec => []SaveIsAllOrNothing
<1>1. StoreInv => SaveIsAllOrNothing
  BY DEF StoreInv, StoreTypes, TypeOK, TempsInv, FilesInv, SavedInv, SaveIsAllOrNothing
<1> QED
  BY <1>1, StoreInvHolds, PTL

\* load_latest_session_matching finds the newest compatible report of its
\* listing, if that is still in place, or a report that came after the listing;
\* the report is of another run of the same suite.
THEOREM BaselinesAreSound == Spec => []BaselineIsSound
<1>1. StoreInv => BaselineIsSound
  BY DEF StoreInv
<1> QED
  BY <1>1, StoreInvHolds, PTL

-------------------------------------------------------------------------------
(* The store implements ReportShelf. *)

\* A run has no baseline before its search has ended.
UnreadInv ==
    \A p \in Processes :
        pc[p] \in {"idle", "running", "report", "list", "scan"} => baseline[p] = NoReport

LEMMA StepKeepsUnread == StoreInv /\ UnreadInv /\ [Next]_vars => UnreadInv'
<1> SUFFICES ASSUME StoreInv, UnreadInv, [Next]_vars PROVE UnreadInv'
  OBVIOUS
<1> DEFINE Before == {"idle", "running", "report", "list", "scan"}
<1>1. /\ pc \in [Processes -> Active \cup Over \cup {"idle"}]
      /\ baseline \in [Processes -> Processes \cup {NoReport}]
  BY DEF StoreInv, StoreTypes, TypeOK
<1>2. ASSUME baseline' = baseline, \A q \in Processes : pc'[q] \in Before => pc[q] \in Before
      PROVE  UnreadInv'
  BY <1>2 DEF UnreadInv
<1>3. ASSUME NEW p \in Processes,
             Start(p) \/ Measure(p) \/ CompareExplicit(p) \/ Kill(p) \/ ListDirectory(p)
      PROVE  UnreadInv'
  <2>1. baseline' = baseline /\ pc[p] \in Before \cup {"compare"} \cup Active
    BY <1>3 DEF Start, Measure, CompareExplicit, Kill, ListDirectory, scanVars
  <2>2. \A q \in Processes : pc'[q] \in Before => pc[q] \in Before
    BY <1>1, <1>3 DEF Start, Measure, CompareExplicit, Kill, ListDirectory, Goto
  <2> QED
    BY <1>2, <2>1, <2>2
<1>4. ASSUME NEW p \in Processes, NoCandidateLeft(p)
      PROVE  UnreadInv'
  <2>1. baseline' = baseline /\ pc' = [pc EXCEPT ![p] = "persist"]
    BY <1>4 DEF NoCandidateLeft, Goto, scanVars
  <2> QED
    BY <1>1, <1>2, <2>1
<1>5. ASSUME NEW p \in Processes, OpenCandidate(p)
      PROVE  UnreadInv'
  <2>1. CASE Compatible(p, files[Head(candidates[p])])
    <3>1. /\ pc' = [pc EXCEPT ![p] = "persist"]
          /\ \A q \in Processes : q # p => baseline'[q] = baseline[q]
      BY <1>1, <1>5, <2>1 DEF OpenCandidate, Goto
    <3> QED
      BY <1>1, <3>1 DEF UnreadInv
  <2>2. CASE ~Compatible(p, files[Head(candidates[p])])
    BY <1>2, <1>5, <2>2 DEF OpenCandidate
  <2> QED
    BY <2>1, <2>2
<1>6. ASSUME NEW p \in Processes,
             \/ SaveNothing(p) \/ CreateTemporary(p) \/ Write(p)
             \/ Sync(p) \/ Rename(p) \/ SaveFails(p)
      PROVE  UnreadInv'
  <2>1. /\ baseline' = baseline
        /\ pc'[p] \in {"panicked", "compare", "done"} \cup Writing
        /\ \A q \in Processes : q # p => pc'[q] = pc[q]
    BY <1>6, SavingChangesOne DEF scanVars
  <2> QED
    BY <1>2, <2>1 DEF Writing
<1>7. CASE PowerLoss
  BY <1>1, <1>2, <1>7 DEF PowerLoss, scanVars, Active, Over
<1>8. CASE Tick \/ UNCHANGED vars
  BY <1>2, <1>8 DEF Tick, vars, scanVars
<1> QED
  BY <1>3, <1>4, <1>5, <1>6, <1>7, <1>8 DEF Next, ProcessStep, Terminating

\* Renaming puts a whole report on the shelf, under the name of the file.
LEMMA RenameAppears ==
    ASSUME StoreInv, NEW p \in Processes, Rename(p)
    PROVE  Shelf!Appear(p)
<1> DEFINE name == NameOf(p)
<1>1. /\ saved[p] = "no" /\ UNCHANGED baseline
      /\ saved' = [saved EXCEPT ![p] = "saved"]
  BY SavingChangesOne DEF Rename, SaveEnds, scanVars
<1>2. temps[p].whole /\ temps[p].report = p
  BY DEF StoreInv, TempsInv, Rename, Writing
<1>3. files' = [n \in DOMAIN files \cup {name} |-> IF n = name THEN temps[p] ELSE files[n]]
  BY DEF Rename, Put
<1>4. DOMAIN OnShelf = DOMAIN files /\ DOMAIN OnShelf' = DOMAIN files \cup {name}
  BY <1>3 DEF OnShelf
<1>5. OnShelf' = [n \in DOMAIN OnShelf \cup {name} |-> IF n = name THEN p ELSE OnShelf[n]]
  BY <1>2, <1>3, <1>4 DEF OnShelf
<1> HIDE DEF name
<1> QED
  BY <1>1, <1>4, <1>5 DEF Shelf!Appear

\* The first compatible candidate is found on the shelf.
LEMMA OpeningFinds ==
    ASSUME StoreInv, UnreadInv, NEW p \in Processes, OpenCandidate(p)
    PROVE  Shelf!Find(p) \/ UNCHANGED <<files, saved, baseline>>
<1>1. UNCHANGED <<files, saved>>
  BY DEF OpenCandidate, storeVars
<1> DEFINE name == Head(candidates[p])
<1>2. CASE ~Compatible(p, files[name])
  BY <1>1, <1>2 DEF OpenCandidate
<1>3. CASE Compatible(p, files[name])
  <2>1. saved[p] = "no" /\ baseline[p] = NoReport
    BY DEF StoreInv, SavedInv, Unsaved, UnreadInv, OpenCandidate
  <2>2. name \in DOMAIN files
    <3>1. candidates[p] \in Seq(DOMAIN files) /\ candidates[p] # <<>>
      BY DEF StoreInv, StoreTypes, OpenCandidate
    <3> QED
      BY <3>1
  <2>3. name \in DOMAIN OnShelf /\ OnShelf[name] = files[name].report
    BY <1>3, <2>2 DEF OnShelf, Compatible
  <2>4. /\ SuiteOf[OnShelf[name]] = SuiteOf[p]
        /\ baseline' = [baseline EXCEPT ![p] = OnShelf[name]]
    BY <1>3, <2>3 DEF OpenCandidate, Compatible
  <2>5. UNCHANGED <<OnShelf, saved>>
    BY <1>1 DEF OnShelf
  <2> HIDE DEF name
  <2> QED
    BY <2>1, <2>3, <2>4, <2>5 DEF Shelf!Find, NoReport, Shelf!NoReport
<1> QED
  BY <1>2, <1>3

\* save_to_path and load_latest_session_matching implement ReportShelf: a
\* report appears whole when its file is renamed and in no other step, whatever
\* is killed and whenever power is lost; every baseline was on the shelf before
\* the report that is compared with it.
THEOREM StoreImplementsShelf == Spec => ImplementsShelf
<1>1. Init => UnreadInv /\ Shelf!Init
  <2> SUFFICES ASSUME Init PROVE UnreadInv /\ Shelf!Init
    OBVIOUS
  <2>1. DOMAIN files = {}
    BY DEF Init
  <2>2. OnShelf = [n \in {} |-> NoReport]
    BY <2>1 DEF OnShelf
  <2> QED
    BY <2>2 DEF Init, UnreadInv, Shelf!Init, NoReport, Shelf!NoReport
<1>2. StoreInv /\ UnreadInv /\ [Next]_vars => [Shelf!Next]_(Shelf!svars)
  <2> SUFFICES ASSUME StoreInv, UnreadInv, [Next]_vars
               PROVE  [Shelf!Next]_(Shelf!svars)
    OBVIOUS
  <2>1. UNCHANGED <<files, saved, baseline>> => UNCHANGED Shelf!svars
    BY DEF Shelf!svars, OnShelf
  <2>2. ASSUME NEW p \in Processes,
               \/ Start(p) \/ Measure(p) \/ CompareExplicit(p) \/ Kill(p)
               \/ ListDirectory(p) \/ NoCandidateLeft(p)
        PROVE  UNCHANGED <<files, saved, baseline>>
    BY <2>2 DEF Start, Measure, CompareExplicit, Kill, ListDirectory, NoCandidateLeft,
                scanVars, storeVars
  <2>3. ASSUME NEW p \in Processes, CreateTemporary(p) \/ Write(p) \/ Sync(p)
        PROVE  UNCHANGED <<files, saved, baseline>>
    BY <2>3 DEF CreateTemporary, Write, Sync, scanVars
  <2>4. ASSUME NEW p \in Processes, SaveNothing(p) \/ SaveFails(p)
        PROVE  Shelf!Fail(p) \/ UNCHANGED <<files, saved, baseline>>
    <3>1. /\ saved[p] = "no" /\ saved \in [Processes -> {"no", "saved", "failed"}]
          /\ UNCHANGED <<files, baseline>>
      BY <2>4, SavingChangesOne
      DEF StoreInv, StoreTypes, TypeOK, SaveNothing, SaveFails, scanVars
    <3>2. \E outcome \in {"no", "failed"} : saved' = [saved EXCEPT ![p] = outcome]
      BY <2>4 DEF SaveNothing, SaveFails, SaveEnds
    <3>3. UNCHANGED OnShelf
      BY <3>1 DEF OnShelf
    <3> QED
      BY <3>1, <3>2, <3>3 DEF Shelf!Fail
  <2>5. CASE PowerLoss
    <3>1. \A n \in DOMAIN files : Torn(files[n]) = files[n]
      BY DEF StoreInv, StoreTypes, FilesInv, Entries, Torn
    <3>2. files' = files
      BY <2>5, <3>1 DEF StoreInv, StoreTypes, PowerLoss
    <3> QED
      BY <2>1, <2>5, <3>2 DEF PowerLoss, scanVars
  <2>6. CASE Tick \/ UNCHANGED vars
    BY <2>1, <2>6 DEF Tick, vars, scanVars, storeVars
  <2>7. ASSUME NEW p \in Processes, ProcessStep(p) \/ Kill(p)
        PROVE  [Shelf!Next]_(Shelf!svars)
    BY <2>1, <2>2, <2>3, <2>4, <2>7, RenameAppears, OpeningFinds
    DEF ProcessStep, Shelf!Next
  <2> QED
    BY <2>5, <2>6, <2>7 DEF Next, Terminating
<1> QED
  BY <1>1, <1>2, StepKeepsUnread, StoreInvHolds, PTL DEF Spec, ImplementsShelf, Shelf!Spec
===============================================================================
