----------------------------- MODULE MCReportStore -----------------------------
(* Instances of ReportStore for TLC. *)
EXTENDS ReportStore

\* Four runs, three of them of one suite: one that looks for a baseline, two
\* that it may find, and one that is in the way.
MCFour == {"p", "q", "r", "s"}
MCSuites == "p" :> "io" @@ "q" :> "io" @@ "r" :> "gpu" @@ "s" :> "io"

\* The default file names, while a second passes.
MCDefaults ==
    [destination |-> [p \in MCFour |-> "default"],
     comparison |-> [p \in MCFour |-> IF p \in {"p", "q"} THEN "latest" ELSE "none"],
     faults |-> {}, maxSecond |-> 1]

\* An automated run with an explicit artifact and baseline, beside two default
\* ones, and one that does not save at all.
MCAutomated ==
    [destination |-> "p" :> "explicit" @@ "q" :> "default" @@ "r" :> "disabled"
                     @@ "s" :> "default",
     comparison |-> "p" :> "explicit" @@ "q" :> "latest" @@ "r" :> "explicit"
                    @@ "s" :> "none",
     faults |-> {"empty", "write", "rename", "kill", "power"}, maxSecond |-> 0]

\* The same, on a disk where a temporary file may not even be removed.
MCUnremoved ==
    [MCAutomated EXCEPT !.faults = {"write", "rename", "remove", "kill"}]

MCSetups == {MCDefaults, MCAutomated, MCUnremoved}
MCDefaultOnly == {MCDefaults}
===============================================================================
