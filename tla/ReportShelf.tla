------------------------------ MODULE ReportShelf ------------------------------
(***************************************************************************)
(* What a directory of reports promises, without temporary files, clocks,  *)
(* listings or crashes: a report appears under its name whole and at once, *)
(* at most once, and stays until another of that name takes its place; a   *)
(* save that failed leaves the shelf as it was; and a run is compared with *)
(* one report of its suite, seen on the shelf before its own appeared.     *)
(* (session.rs: save_to_path, "readers do not observe a partially          *)
(* serialized report"; load_latest_session_matching.)                      *)
(***************************************************************************)
CONSTANTS Processes, SuiteOf

VARIABLES
    shelf,    \* the reports in place, by name
    outcome,  \* what became of each run's report: "no" one yet, saved, failed
    baseline  \* the report each run is compared with

svars == <<shelf, outcome, baseline>>

NoReport == "none"

Init ==
    /\ shelf = [n \in {} |-> NoReport]
    /\ outcome = [p \in Processes |-> "no"]
    /\ baseline = [p \in Processes |-> NoReport]

\* A run finds the report that it is compared with.
Find(p) ==
    /\ outcome[p] = "no" /\ baseline[p] = NoReport
    /\ \E n \in DOMAIN shelf :
          /\ SuiteOf[shelf[n]] = SuiteOf[p]
          /\ baseline' = [baseline EXCEPT ![p] = shelf[n]]
    /\ UNCHANGED <<shelf, outcome>>

Appear(p) ==
    /\ outcome[p] = "no"
    /\ outcome' = [outcome EXCEPT ![p] = "saved"]
    /\ \E name \in DOMAIN shelf' :
          shelf' = [n \in DOMAIN shelf \cup {name} |-> IF n = name THEN p ELSE shelf[n]]
    /\ UNCHANGED baseline

Fail(p) ==
    /\ outcome[p] = "no"
    /\ outcome' = [outcome EXCEPT ![p] = "failed"]
    /\ UNCHANGED <<shelf, baseline>>

Next == \E p \in Processes : Find(p) \/ Appear(p) \/ Fail(p)

Spec == Init /\ [][Next]_svars
===============================================================================
