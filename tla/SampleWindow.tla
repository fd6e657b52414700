----------------------------- MODULE SampleWindow -----------------------------
(***************************************************************************)
(* What a concurrent sample promises, without barriers or joins: worker    *)
(* threads work only inside a measurement window, each exactly once, and   *)
(* the window closes when the last of them has stopped.  A sample given up *)
(* before its window opened runs no worker at all.                         *)
(* (bench.rs: ConcurrentSampleLifecycle; concurrent.md: "Whole-sample      *)
(* measurement backends".)                                                 *)
(***************************************************************************)
CONSTANT Threads

VARIABLES
    window, \* the measurement window of the sample
    work    \* each thread's call of its worker function

wvars == <<window, work>>

Init ==
    /\ window = "unopened"
    /\ work = [t \in Threads |-> "idle"]

Open == window = "unopened" /\ window' = "open" /\ UNCHANGED work

\* After a panic the threads that were already released still run.
StartWork(t) ==
    /\ window \in {"open", "abandoned"}
    /\ work[t] = "idle"
    /\ work' = [work EXCEPT ![t] = "working"]
    /\ UNCHANGED window

StopWork(t) ==
    /\ work[t] = "working"
    /\ work' = [work EXCEPT ![t] = "stopped"]
    /\ UNCHANGED window

Close ==
    /\ window = "open"
    /\ \A t \in Threads : work[t] = "stopped"
    /\ window' = "closed"
    /\ UNCHANGED work

Cancel == window = "unopened" /\ window' = "cancelled" /\ UNCHANGED work
Abandon == window = "open" /\ window' = "abandoned" /\ UNCHANGED work

Next ==
    \/ Open \/ Close \/ Cancel \/ Abandon
    \/ \E t \in Threads : StartWork(t) \/ StopWork(t)

Spec == Init /\ [][Next]_wvars
===============================================================================
