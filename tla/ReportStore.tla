------------------------------ MODULE ReportStore ------------------------------
(***************************************************************************)
(* Benchmark processes that share one target directory: run_benchmark_main *)
(* and persist_report (launcher.rs), save_to_default_location and          *)
(* save_to_path, and load_latest_session_matching (session.rs).            *)
(*                                                                         *)
(* A process compares its report with an earlier one and persists it; with *)
(* an explicit baseline it persists first.  A report is written to a       *)
(* temporary file, synchronised, and renamed into place.  Other processes  *)
(* list, open and replace files between any two of these steps; a process  *)
(* may be killed, and the machine may lose power, at any of them.          *)
(*                                                                         *)
(* A report is known by the process that measured it.                      *)
(***************************************************************************)
EXTENDS Integers, FiniteSets, Sequences, SequencesExt

CONSTANTS
    Processes,
    SuiteOf,        \* the suite each process measures
    Setups          \* how the processes may be started, and what may go wrong

\* maxSecond is a bound: the seconds that pass.
Setup ==
    [destination : [Processes -> {"default", "explicit", "disabled"}],
     comparison : [Processes -> {"none", "latest", "explicit"}],
     faults : SUBSET {"empty", "write", "rename", "remove", "kill", "power"},
     maxSecond : Nat]

NoReport == "none"

ASSUME StoreAssumption ==
    /\ IsFiniteSet(Processes)
    /\ NoReport \notin Processes
    /\ DOMAIN SuiteOf = Processes
    /\ Setups \subseteq Setup

VARIABLES
    setup,      \* ReportDestination and comparison of each process, faults
    second,     \* the clock that file names are made from
    writes,     \* the clock that modification times are made from
    pc,         \* each process's position
    timestamp,  \* BenchmarkSession::timestamp
    empty,      \* has the report no results?
    candidates, \* the files still to be opened, newest first
    target,     \* the listing: its reports, and the newest compatible one
    baseline,   \* the report a process is compared with
    saved,      \* the outcome of persist_report
    temps,      \* the temporary file of each process that has one
    files       \* the reports in place, by name

vars == <<setup, second, writes, pc, timestamp, empty, candidates, target, baseline,
          saved, temps, files>>
runVars == <<setup, timestamp, empty>>
scanVars == <<candidates, target, baseline>>
storeVars == <<writes, saved, temps, files>>

Destination == setup.destination
Comparison == setup.comparison
Faults == setup.faults
MaxSecond == setup.maxSecond

Active == {"running", "report", "list", "scan", "persist", "write", "sync",
           "rename", "compare"}
Over == {"done", "panicked", "incompatible", "killed"}

Init ==
    /\ setup \in Setups
    /\ second = 0 /\ writes = 0
    /\ pc = [p \in Processes |-> "idle"]
    /\ timestamp = [p \in Processes |-> 0]
    /\ empty = [p \in Processes |-> FALSE]
    /\ candidates = [p \in Processes |-> <<>>]
    /\ target = [p \in Processes |-> [listed |-> {}, report |-> NoReport]]
    /\ baseline = [p \in Processes |-> NoReport]
    /\ saved = [p \in Processes |-> "no"]
    /\ temps = <<>> /\ files = <<>>

Goto(p, location) == pc' = [pc EXCEPT ![p] = location]

\* benchmark_results_<timestamp>.json, or the path of MICROMEASURE_OUTPUT
NameOf(p) == IF Destination[p] = "explicit" THEN <<"output", 0>>
                                            ELSE <<"benchmark_results", timestamp[p]>>

\* The map after a file was written under a name, or removed.
Put(map, name, file) ==
    [n \in DOMAIN map \cup {name} |-> IF n = name THEN file ELSE map[n]]
Without(p) == Restrict(temps, DOMAIN temps \ {p})

-------------------------------------------------------------------------------
\* Faulty variant: the timestamp is rounded up.
Start_RoundsUp(p) ==
    /\ pc[p] = "idle"
    /\ Goto(p, "running")
    /\ timestamp' = [timestamp EXCEPT ![p] = second + 1]
    /\ UNCHANGED <<second, setup, empty, scanVars, storeVars>>

\* requested_baseline, then BenchmarkSession::new: an explicit baseline that
\* cannot be loaded ends the process before it measures anything.
Start(p) ==
    /\ pc[p] = "idle"
    /\ \/ Goto(p, "running") /\ timestamp' = [timestamp EXCEPT ![p] = second]
       \/ Comparison[p] = "explicit" /\ Goto(p, "panicked") /\ UNCHANGED timestamp
    /\ UNCHANGED <<second, setup, empty, scanVars, storeVars>>

\* Faulty variant: the comparison with an explicit baseline comes first.
Measure_ComparesFirst(p) ==
    /\ pc[p] = "running"
    /\ Goto(p, "compare")
    /\ UNCHANGED <<second, runVars, scanVars, storeVars>>

\* register(&mut runner), then runner.report(): a filter may select no case.
Measure(p) ==
    /\ pc[p] = "running"
    /\ \/ UNCHANGED empty
       \/ "empty" \in Faults /\ empty' = [empty EXCEPT ![p] = TRUE]
    /\ Goto(p, IF Comparison[p] = "latest" THEN "list" ELSE "persist")
    /\ UNCHANGED <<second, setup, timestamp, scanVars, storeVars>>

-------------------------------------------------------------------------------
(* print_summary_with: look for the latest compatible report. *)

Listed == {name \in DOMAIN files : name[1] = "benchmark_results"}
Mtime(name) == files[name].mtime

\* The listed names, newest first; names of one time are in any order.
Sortings ==
    {order \in SetToSeqs(Listed) :
        \A i, j \in DOMAIN order : i < j => Mtime(order[i]) >= Mtime(order[j])}

\* session_is_compatible: a report with results, of the same suite.  Only
\* whole documents parse.
Compatible(p, file) ==
    file.whole /\ ~empty[p] /\ SuiteOf[file.report] = SuiteOf[p]

Newest(names) == CHOOSE n \in names : \A m \in names : Mtime(n) >= Mtime(m)

\* read_dir, then sort by modification time, newest first.
ListDirectory(p) ==
    /\ pc[p] = "list"
    /\ Goto(p, "scan")
    /\ \E order \in Sortings : candidates' = [candidates EXCEPT ![p] = order]
    /\ LET eligible == {n \in Listed : Compatible(p, files[n])} IN
       target' = [target EXCEPT ![p] =
                    [listed |-> {files[n].report : n \in Listed},
                     report |-> IF eligible = {} THEN NoReport
                                ELSE files[Newest(eligible)].report]]
    /\ UNCHANGED <<second, runVars, baseline, storeVars>>

\* Faulty variant: an incompatible newer report ends the search.
OpenCandidate_First(p) ==
    /\ pc[p] = "scan"
    /\ candidates[p] # <<>>
    /\ LET file == files[Head(candidates[p])] IN
       baseline' = [baseline EXCEPT ![p] =
                      IF Compatible(p, file) THEN file.report ELSE @]
    /\ Goto(p, "persist")
    /\ UNCHANGED <<second, runVars, candidates, target, storeVars>>

\* File::open and from_reader on the next file: the first compatible report is
\* the baseline.
OpenCandidate(p) ==
    /\ pc[p] = "scan"
    /\ candidates[p] # <<>>
    /\ LET file == files[Head(candidates[p])] IN
       IF Compatible(p, file)
       THEN /\ baseline' = [baseline EXCEPT ![p] = file.report]
            /\ Goto(p, "persist")
            /\ candidates' = [candidates EXCEPT ![p] = <<>>]
       ELSE /\ candidates' = [candidates EXCEPT ![p] = Tail(@)]
            /\ UNCHANGED <<pc, baseline>>
    /\ UNCHANGED <<second, runVars, target, storeVars>>

NoCandidateLeft(p) ==
    /\ pc[p] = "scan"
    /\ candidates[p] = <<>>
    /\ Goto(p, "persist")
    /\ UNCHANGED <<second, runVars, scanVars, storeVars>>

-------------------------------------------------------------------------------
(* persist_report *)

\* Faulty variant: the report is compared, again, once it is saved.
AfterSave_Compares(p, outcome) ==
    IF Comparison[p] = "latest" THEN "list" ELSE "done"

\* A failure is fatal for an explicit path, and a warning otherwise.
AfterSave(p, outcome) ==
    IF outcome = "failed" /\ Destination[p] = "explicit" THEN "panicked"
    ELSE IF Comparison[p] = "explicit" THEN "compare" ELSE "done"

SaveEnds(p, outcome) ==
    /\ saved' = [saved EXCEPT ![p] = outcome]
    /\ Goto(p, AfterSave(p, outcome))

\* ReportDestination::Disabled, or "no benchmark results to save"
SaveNothing(p) ==
    /\ pc[p] = "persist"
    /\ \/ Destination[p] = "disabled" /\ SaveEnds(p, "no")
       \/ Destination[p] # "disabled" /\ empty[p] /\ SaveEnds(p, "failed")
    /\ UNCHANGED <<second, runVars, scanVars, writes, temps, files>>

\* OpenOptions::create_new on the temporary path
CreateTemporary(p) ==
    /\ pc[p] = "persist"
    /\ Destination[p] # "disabled" /\ ~empty[p]
    /\ Goto(p, "write")
    /\ temps' = Put(temps, p, [report |-> p, whole |-> FALSE, synced |-> FALSE,
                               mtime |-> writes])
    /\ UNCHANGED <<second, runVars, scanVars, writes, saved, files>>

\* to_writer_pretty and flush
Write(p) ==
    /\ pc[p] = "write"
    /\ Goto(p, "sync")
    /\ writes' = writes + 1
    /\ temps' = [temps EXCEPT ![p].whole = TRUE, ![p].mtime = writes + 1]
    /\ UNCHANGED <<second, runVars, scanVars, saved, files>>

\* Faulty variant: the buffer is flushed, but the file is not synchronised.
Sync_Skipped(p) ==
    /\ pc[p] = "sync"
    /\ Goto(p, "rename")
    /\ UNCHANGED <<second, runVars, scanVars, storeVars>>

Sync(p) ==
    /\ pc[p] = "sync"
    /\ Goto(p, "rename")
    /\ temps' = [temps EXCEPT ![p].synced = TRUE]
    /\ UNCHANGED <<second, runVars, scanVars, writes, saved, files>>

Rename(p) ==
    /\ pc[p] = "rename"
    /\ files' = Put(files, NameOf(p), temps[p])
    /\ temps' = Without(p)
    /\ SaveEnds(p, "saved")
    /\ UNCHANGED <<second, runVars, scanVars, writes>>

\* Faulty variant: a failed save leaves its temporary file behind.
SaveFails_Leaves(p) ==
    /\ \/ "write" \in Faults /\ pc[p] \in {"persist", "write", "sync"}
       \/ "rename" \in Faults /\ pc[p] = "rename"
    /\ Destination[p] # "disabled" /\ ~empty[p]
    /\ SaveEnds(p, "failed")
    /\ UNCHANGED <<second, runVars, scanVars, writes, temps, files>>

\* remove_file, whose own failure is ignored
RemoveTemporary(p) ==
    temps' = Without(p) \/ ("remove" \in Faults /\ UNCHANGED temps)

\* The file cannot be created, written, synchronised or renamed: the temporary
\* file is removed.
SaveFails(p) ==
    /\ \/ "write" \in Faults /\ pc[p] \in {"persist", "write", "sync"}
       \/ "rename" \in Faults /\ pc[p] = "rename"
    /\ Destination[p] # "disabled" /\ ~empty[p]
    /\ RemoveTemporary(p)
    /\ SaveEnds(p, "failed")
    /\ UNCHANGED <<second, runVars, scanVars, writes, files>>

\* compare_reports against the explicit baseline, which may be incompatible.
CompareExplicit(p) ==
    /\ pc[p] = "compare"
    /\ Goto(p, "done") \/ Goto(p, "incompatible")
    /\ UNCHANGED <<second, runVars, scanVars, storeVars>>

-------------------------------------------------------------------------------
\* The process is killed: its temporary file stays.
Kill(p) ==
    /\ "kill" \in Faults
    /\ pc[p] \in Active
    /\ Goto(p, "killed")
    /\ UNCHANGED <<second, runVars, scanVars, storeVars>>

\* Power is lost: every process ends, and a file that was not synchronised
\* may be cut short.  A completed rename is assumed to survive.
Torn(file) == [file EXCEPT !.whole = @ /\ file.synced]

PowerLoss ==
    /\ "power" \in Faults
    /\ \E p \in Processes : pc[p] \in Active
    /\ pc' = [p \in Processes |-> IF pc[p] \in Active THEN "killed" ELSE pc[p]]
    /\ temps' = [p \in DOMAIN temps |-> Torn(temps[p])]
    /\ files' = [n \in DOMAIN files |-> Torn(files[n])]
    /\ UNCHANGED <<second, runVars, scanVars, writes, saved>>

Tick ==
    /\ second < MaxSecond
    /\ second' = second + 1
    /\ UNCHANGED <<pc, runVars, scanVars, storeVars>>

ProcessStep(p) ==
    \/ Start(p) \/ Measure(p)
    \/ ListDirectory(p) \/ OpenCandidate(p) \/ NoCandidateLeft(p)
    \/ SaveNothing(p) \/ CreateTemporary(p) \/ Write(p) \/ Sync(p) \/ Rename(p)
    \/ SaveFails(p) \/ CompareExplicit(p)

Terminating == (\A p \in Processes : pc[p] \in Over) /\ UNCHANGED vars

Next ==
    \/ \E p \in Processes : ProcessStep(p) \/ Kill(p)
    \/ PowerLoss \/ Tick \/ Terminating

Spec == Init /\ [][Next]_vars

-------------------------------------------------------------------------------
(* What the launcher and the report store must guarantee. *)

Entries == [report : Processes, whole : BOOLEAN, synced : BOOLEAN, mtime : Nat]

TypeOK ==
    /\ setup \in Setups
    /\ second \in 0..MaxSecond /\ writes \in 0..Cardinality(Processes)
    /\ pc \in [Processes -> Active \cup Over \cup {"idle"}]
    /\ timestamp \in [Processes -> 0..MaxSecond]
    /\ empty \in [Processes -> BOOLEAN]
    /\ saved \in [Processes -> {"no", "saved", "failed"}]
    /\ DOMAIN temps \subseteq Processes
    /\ \A p \in DOMAIN temps : temps[p] \in Entries
    /\ \A n \in DOMAIN files : files[n] \in Entries

\* "readers do not observe a partially serialized report": a file in place is
\* a whole document, whoever was killed and whenever power was lost.
ReportsAreWhole == \A n \in DOMAIN files : files[n].whole

\* "Incompatible newer reports must not hide an older compatible baseline":
\* unless the newest compatible report of the listing was replaced meanwhile,
\* the baseline is that report, or one that came into place since.
BaselineIsLatest ==
    \A p \in Processes :
        /\ Comparison[p] = "latest"
        /\ pc[p] \in {"persist", "write", "sync", "rename"}
        /\ \E n \in DOMAIN files : files[n].report = target[p].report
        => \/ baseline[p] = target[p].report
           \/ baseline[p] \in Processes \ target[p].listed

\* A process never compares its report with itself: the baseline was measured
\* by another run, of the same suite.
BaselineIsAnotherRun ==
    \A p \in Processes : baseline[p] # NoReport =>
        baseline[p] # p /\ SuiteOf[baseline[p]] = SuiteOf[p]

\* What a run is compared with: the newest compatible report of another run.
BaselineIsSound == BaselineIsLatest /\ BaselineIsAnotherRun

\* "The current evidence is persisted before comparison so a selected but
\* incompatible baseline cannot discard a valid measurement."
EvidenceOutlivesComparison ==
    \A p \in Processes :
        pc[p] \in {"compare", "incompatible"} /\ Destination[p] # "disabled"
        => saved[p] # "no"

\* "Failure to write the requested artifact is fatal": no report of a save that
\* fails is ever in place, its temporary file stays only if it could not be
\* removed, and a process with an explicit path goes on only if its report was
\* put in place there.
SaveIsAllOrNothing ==
    \A p \in Processes :
        /\ saved[p] = "failed" =>
              /\ \A n \in DOMAIN files : files[n].report # p
              /\ p \in DOMAIN temps => "remove" \in Faults
        /\ Destination[p] = "explicit" /\ pc[p] \in {"compare", "done", "incompatible"}
              => saved[p] = "saved"

\* "persists every benchmark run": a run reported as saved can be read back.
SavedRunsAreKept ==
    \A p \in Processes :
        saved[p] = "saved" /\ Destination[p] = "default"
        => \E n \in DOMAIN files : files[n].report = p

-------------------------------------------------------------------------------
(* The store implements ReportShelf. *)

\* A file in place that is not a whole document is no report.
OnShelf == [n \in DOMAIN files |-> IF files[n].whole THEN files[n].report ELSE "torn"]

Shelf == INSTANCE ReportShelf WITH shelf <- OnShelf, outcome <- saved

\* A report appears in place whole, at once and only once, a failed save and a
\* crash leave what is in place as it was, and the baseline of a run was in
\* place before its own report: the steps of the store are those of the shelf.
ImplementsShelf == Shelf!Spec
===============================================================================
