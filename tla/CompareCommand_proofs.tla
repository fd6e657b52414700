------------------------ MODULE CompareCommand_proofs ------------------------
(***************************************************************************)
(* Proofs about CompareCommand, for every pair of inputs, every policy,    *)
(* every set of output paths and every fault: what the tool leaves on the  *)
(* disk and what its exit status says of it, what may still fail once both *)
(* inputs validate, that a comparison reads the same from either side, and *)
(* that the gate fails just on what the documents show.                    *)
(***************************************************************************)
EXTENDS CompareCommand, Comparison_proofs

\* Before the first output, and while an output is written
Early   == {"start", "loading", "loading_baseline", "comparing"}
Writing == {"directories", "opening", "writing", "renaming", "removing"}
Ends    == {"over", "killed"}

Contents == {"partial", "stale"} \union Outputs

\* The inductive invariant's types
CommandTypes ==
    /\ setup \in Setups
    /\ pc \in Early \union Writing \union {"printing"} \union Ends
    /\ output \in Outputs /\ attempt \in Attempts
    /\ files \in [Targets -> {"old"} \union Outputs]
    /\ temps \in [DOMAIN temps -> Contents]
    /\ DOMAIN temps \subseteq Targets \X Attempts

\* The documents of a side are found by their suites.
LoadedInv ==
    /\ DOMAIN loaded = {"current", "baseline"}
    /\ \A side \in {"current", "baseline"} :
          \A suite \in DOMAIN loaded[side] : loaded[side][suite].suite = suite
    /\ DOMAIN analysis = DOMAIN NoAnalysis

\* The exit status: 2 for an error, and none before the end.
ExitInv ==
    /\ exit \in {-1, 0, 1, 2}
    /\ exit # -1 <=> pc = "over"
    /\ exit = 2 <=> error # NoError

\* The name that is written to is an output that was asked for.
OutputInv ==
    pc \in Writing => Given(output)

\* Nothing is written before the inputs are compared, nor if they cannot be.
UntouchedInv ==
    pc \in Early \/ error \notin OutputErrors \union {NoError} =>
        /\ files = [target \in Targets |-> "old"]
        /\ DOMAIN temps = setup.stale

\* Which temporary files there are, and what they hold
TempsInv ==
    /\ \A temporary \in setup.stale :
          temporary \in DOMAIN temps /\ temps[temporary] = "stale"
    /\ pc \in {"directories", "opening", "printing"} => DOMAIN temps = setup.stale
    /\ pc = "over" /\ ~May("remove") => DOMAIN temps = setup.stale
    /\ pc \in {"writing", "renaming", "removing"} =>
          /\ Temporary \notin setup.stale
          /\ DOMAIN temps = setup.stale \union {Temporary}
    /\ pc = "renaming" => temps[Temporary] = output

\* The target of an output that was asked for holds it; that of the JSON may
\* hold the Markdown that replaced it.
Written ==
    /\ Given("markdown") => files[Path("markdown").target] = "markdown"
    /\ Given("json") =>
         \/ files[Path("json").target] = "json"
         \/ Given("markdown") /\ Path("markdown").target = Path("json").target

\* What was asked for has been written, in its order.
ArtefactInv ==
    /\ pc \in Writing /\ output = "markdown" /\ Given("json") =>
          files[Path("json").target] = "json"
    /\ setup.command = "compare" /\ (pc = "printing" \/ (pc = "over" /\ exit \in {0, 1})) =>
          Written

CommandInv ==
    /\ CommandTypes /\ LoadedInv /\ ExitInv /\ OutputInv /\ UntouchedInv
    /\ TempsInv /\ ArtefactInv

-------------------------------------------------------------------------------
(* Lemmas *)

\* An output that is given has a target, and a temporary file beside it.
LEMMA GivenHasPath ==
    ASSUME CommandAssumption, setup \in Setups, NEW which \in Outputs, Given(which)
    PROVE  Path(which) \in Destination /\ Path(which).target \in Targets
<1>1. setup.output[which] \in Seq(Destination)
  BY DEF CommandAssumption, IsSetup
<1>2. setup.output[which] # <<>>
  BY DEF Given, None
<1>3. Path(which) \in Destination
  BY <1>1, <1>2 DEF Path
<1>4. QED
  BY <1>3 DEF Destination

\* Errors differ from their absence, and those of the outputs are recognised.
LEMMA ErrorsAreErrors ==
    /\ Between("Output") # NoError /\ Between("InvalidOutputPath") # NoError
    /\ Between("Stdout") # NoError /\ Between("SuiteMismatch") # NoError
    /\ Between("SuiteSetMismatch") # NoError
    /\ Between("Output") \in OutputErrors
    /\ Between("InvalidOutputPath") \in OutputErrors
    /\ Between("Stdout") \in OutputErrors
BY DEF Between, Blame, NoError, OutputErrors

\* A comparison that fails gives a reason.
LEMMA ReasonsAreErrors ==
    \A why \in compare_errors : why # NoError
BY ErrorsAreErrors DEF compare_errors

\* A document is stored under its suite.
LEMMA DocumentsBySuite ==
    ASSUME NEW input, NEW suite \in DOMAIN load_report_input(input)
    PROVE  load_report_input(input)[suite].suite = suite
<1>1. \E document \in Documents(input) : document.suite = suite
  BY DEF load_report_input
<1>2. QED
  BY <1>1 DEF load_report_input

\* The command starts with its files and temporary files as they were.
LEMMA InitIsSound ==
    ASSUME CommandAssumption, Init
    PROVE  CommandInv
<1>1. IsSetup(setup) /\ setup \in Setups
  BY DEF Init, CommandAssumption
<1>2. setup.stale \subseteq Targets \X Attempts
  BY <1>1 DEF IsSetup
<1>3. CommandTypes
  BY <1>1, <1>2 DEF Init, CommandTypes, Early, Outputs, Attempts, CommandAssumption, Contents
<1>4. LoadedInv
  BY DEF Init, LoadedInv, NoAnalysis
<1>5. ExitInv
  BY DEF Init, ExitInv
<1>6. OutputInv /\ UntouchedInv /\ TempsInv /\ ArtefactInv
  BY DEF Init, OutputInv, UntouchedInv, TempsInv, ArtefactInv, Writing
<1>7. QED
  BY <1>3, <1>4, <1>5, <1>6 DEF CommandInv

-------------------------------------------------------------------------------
(* Every step preserves the invariant. *)

\* A step before the first output leaves the files alone, and goes on or fails.
LEMMA EarlyKeepsInv ==
    ASSUME CommandAssumption, CommandInv,
           CheckArguments \/ LoadCurrent \/ LoadBaseline \/ CompareFails
    PROVE  CommandInv'
<1> USE DEF CommandInv
<1>1. /\ pc \in Early
      /\ UNCHANGED <<setup, analysis, output, attempt, files, temps>>
  BY DEF CheckArguments, LoadCurrent, LoadBaseline, CompareFails, Early, outputVars
<1>2. \/ /\ pc' \in {"loading", "loading_baseline", "comparing"}
         /\ UNCHANGED <<error, exit>>
      \/ pc' = "printing" /\ setup.command = "validate" /\ UNCHANGED <<error, exit>>
      \/ pc' = "over" /\ exit' = 2 /\ error' # NoError
  BY ReasonsAreErrors DEF CheckArguments, LoadCurrent, LoadBaseline, CompareFails, Goto,
                          Fail
<1>3. \/ UNCHANGED loaded
      \/ \E input : \/ loaded' = [loaded EXCEPT !.current = load_report_input(input)]
                    \/ loaded' = [loaded EXCEPT !.baseline = load_report_input(input)]
  BY DEF CheckArguments, LoadCurrent, LoadBaseline, CompareFails
<1>4. exit = -1 /\ error = NoError
  BY <1>1 DEF ExitInv, Early
<1>5. CommandTypes'
  BY <1>1, <1>2 DEF CommandTypes, Early, Ends
<1>6. LoadedInv'
  <2>1. CASE UNCHANGED loaded
    BY <1>1, <2>1 DEF LoadedInv
  <2>2. ASSUME NEW input, loaded' = [loaded EXCEPT !.current = load_report_input(input)]
        PROVE  LoadedInv'
    BY <1>1, <2>2, DocumentsBySuite DEF LoadedInv
  <2>3. ASSUME NEW input, loaded' = [loaded EXCEPT !.baseline = load_report_input(input)]
        PROVE  LoadedInv'
    BY <1>1, <2>3, DocumentsBySuite DEF LoadedInv
  <2>4. QED
    BY <1>3, <2>1, <2>2, <2>3
<1>7. ExitInv'
  BY <1>2, <1>4 DEF ExitInv
<1>8. OutputInv'
  BY <1>1, <1>2 DEF OutputInv, Writing
<1>9. UntouchedInv' /\ DOMAIN temps = setup.stale
  BY <1>1 DEF UntouchedInv
<1>10. TempsInv'
  BY <1>1, <1>2, <1>9 DEF TempsInv
<1>11. ArtefactInv'
  BY <1>1, <1>2 DEF ArtefactInv, Writing
<1>12. QED
  BY <1>5, <1>6, <1>7, <1>8, <1>9, <1>10, <1>11

\* The comparison goes on to the first output that was asked for.
LEMMA CompareKeepsInv ==
    ASSUME CommandAssumption, CommandInv, CompareSuites
    PROVE  CommandInv'
<1> USE DEF CommandInv
<1>1. /\ pc = "comparing" /\ UNCHANGED <<setup, loaded, files, temps, error, exit>>
      /\ \/ /\ pc' = "directories" /\ output' \in Outputs /\ attempt' = 0
            /\ Given(output') /\ (output' = "markdown" => ~Given("json"))
         \/ /\ pc' = "printing" /\ UNCHANGED <<output, attempt>>
            /\ ~Given("json") /\ ~Given("markdown")
  BY DEF CompareSuites, AfterJson, BeginOutput, Goto, Outputs
<1>2. DOMAIN analysis' = DOMAIN NoAnalysis
  <2>1. analysis' = summarize
    BY DEF CompareSuites
  <2>2. DOMAIN summarize = DOMAIN NoAnalysis
    BY DEF summarize, NoAnalysis
  <2>3. QED
    BY <2>1, <2>2
<1>3. exit = -1 /\ error = NoError
  BY <1>1 DEF ExitInv
<1>4. files = [target \in Targets |-> "old"] /\ DOMAIN temps = setup.stale
  BY <1>1 DEF UntouchedInv, Early
<1>5. CommandTypes'
  <2>1. 0 \in Attempts
    BY DEF CommandAssumption, Attempts
  <2>2. QED
    BY <1>1, <2>1 DEF CommandTypes, Writing
<1>6. LoadedInv'
  BY <1>1, <1>2 DEF LoadedInv
<1>7. ExitInv' /\ UntouchedInv'
  BY <1>1, <1>3, <1>4 DEF ExitInv, UntouchedInv
<1>8. OutputInv'
  BY <1>1 DEF OutputInv, Writing, Given
<1>9. TempsInv'
  BY <1>1, <1>4 DEF TempsInv
<1>10. ArtefactInv'
  BY <1>1 DEF ArtefactInv, Written, Given, Writing
<1>11. QED
  BY <1>5, <1>6, <1>7, <1>8, <1>9, <1>10

\* The result is printed, or the process killed.
LEMMA EndKeepsInv ==
    ASSUME CommandAssumption, CommandInv, PrintResult \/ Kill
    PROVE  CommandInv'
<1> USE DEF CommandInv
<1>1. UNCHANGED <<setup, loaded, analysis, output, attempt, files, temps>>
  BY DEF PrintResult, Kill, outputVars
<1>2. \/ /\ pc = "printing" /\ pc' = "over"
         /\ \/ exit' \in {0, 1} /\ error' = error
            \/ exit' = 2 /\ error' = Between("Stdout")
      \/ pc # "over" /\ pc' = "killed" /\ UNCHANGED <<error, exit>>
  BY DEF PrintResult, Kill, Finish, Fail, Goto
<1>3. CommandTypes' /\ LoadedInv' /\ OutputInv'
  BY <1>1, <1>2 DEF CommandTypes, LoadedInv, OutputInv, Writing, Ends
<1>4. exit = -1 /\ error = NoError
  BY <1>2 DEF ExitInv
<1>5. ExitInv'
  BY <1>2, <1>4, ErrorsAreErrors DEF ExitInv
<1>6. UntouchedInv'
  BY <1>1, <1>2, <1>4, ErrorsAreErrors DEF UntouchedInv, Early
<1>7. TempsInv'
  BY <1>1, <1>2 DEF TempsInv, May
<1>8. ArtefactInv'
  BY <1>1, <1>2 DEF ArtefactInv, Written, Given, Path, Writing
<1>9. QED
  BY <1>3, <1>5, <1>6, <1>7, <1>8

\* What a temporary file's name is made of does not change while an output is
\* written, and it is a name that the types allow.
LEMMA TemporaryIsNamed ==
    ASSUME CommandAssumption, CommandInv, pc \in Writing
    PROVE  /\ Temporary \in Targets \X Attempts
           /\ Path(output).target \in Targets
<1>1. output \in Outputs /\ Given(output) /\ setup \in Setups /\ attempt \in Attempts
  BY DEF CommandInv, CommandTypes, OutputInv
<1>2. Path(output).target \in Targets
  BY <1>1, GivenHasPath
<1>3. QED
  BY <1>1, <1>2 DEF Temporary

\* write_atomic up to the temporary file: directories are created, and a name
\* that is free is opened.
LEMMA OpeningKeepsInv ==
    ASSUME CommandAssumption, CommandInv, CreateDirectories \/ OpenTemporary
    PROVE  CommandInv'
<1> USE DEF CommandInv
<1>1. /\ pc \in {"directories", "opening"}
      /\ UNCHANGED <<setup, loaded, analysis, output, files>>
  BY DEF CreateDirectories, OpenTemporary, outputVars
<1>2. exit = -1 /\ error = NoError /\ DOMAIN temps = setup.stale
  BY <1>1 DEF ExitInv, TempsInv
<1>3. \/ /\ pc' = "opening" /\ attempt' \in Attempts /\ UNCHANGED <<temps, error, exit>>
      \/ /\ pc' = "writing" /\ Temporary \notin DOMAIN temps
         /\ temps' = [t \in DOMAIN temps \union {Temporary} |->
                        IF t = Temporary THEN "partial" ELSE temps[t]]
         /\ UNCHANGED <<attempt, error, exit>>
      \/ /\ pc' = "over" /\ exit' = 2 /\ error' \in OutputErrors /\ error' # NoError
         /\ UNCHANGED <<temps, attempt>>
  <2>1. attempt \in Attempts
    BY DEF CommandTypes
  <2>2. CASE CreateDirectories
    BY <2>1, <2>2, ErrorsAreErrors DEF CreateDirectories, Goto, Fail, outputVars
  <2>3. CASE OpenTemporary
    BY <2>1, <2>3, ErrorsAreErrors DEF OpenTemporary, Goto, Fail
  <2>4. QED
    BY <2>2, <2>3
<1>4. LoadedInv' /\ ExitInv' /\ OutputInv'
  <2>1. LoadedInv'
    BY <1>1 DEF LoadedInv
  <2>2. ExitInv'
    BY <1>2, <1>3 DEF ExitInv
  <2>3. OutputInv'
    BY <1>1, <1>3 DEF OutputInv, Given, Writing
  <2>4. QED
    BY <2>1, <2>2, <2>3
<1>5. UntouchedInv'
  BY <1>2, <1>3 DEF UntouchedInv, Early
<1>6. ArtefactInv'
  BY <1>1, <1>2, <1>3 DEF ArtefactInv, Given, Path, Writing
<1>7. Temporary \in Targets \X Attempts
  BY <1>1, TemporaryIsNamed DEF Writing
<1>8. CASE UNCHANGED temps /\ pc' \in {"opening", "over"}
  <2>1. CommandTypes'
    BY <1>1, <1>3, <1>8 DEF CommandTypes, Writing, Ends
  <2>2. TempsInv'
    BY <1>1, <1>2, <1>8 DEF TempsInv
  <2>3. QED
    BY <1>4, <1>5, <1>6, <2>1, <2>2
<1>9. CASE /\ pc' = "writing" /\ Temporary \notin DOMAIN temps
           /\ temps' = [t \in DOMAIN temps \union {Temporary} |->
                          IF t = Temporary THEN "partial" ELSE temps[t]]
           /\ UNCHANGED <<attempt, error, exit>>
  <2> DEFINE name == Temporary
  <2>1. Temporary' = name
    BY <1>1, <1>9 DEF Temporary, Path
  <2> HIDE DEF name
  <2>2. /\ DOMAIN temps' = DOMAIN temps \union {name} /\ name \notin DOMAIN temps
        /\ temps' \in [DOMAIN temps' -> Contents]
        /\ \A t \in DOMAIN temps : temps'[t] = temps[t]
    BY <1>9 DEF name, CommandTypes, Contents
  <2>3. CommandTypes'
    <3>1. DOMAIN temps' \subseteq Targets \X Attempts
      BY <1>7, <2>2 DEF name, CommandTypes
    <3>2. QED
      BY <1>1, <1>9, <2>2, <3>1 DEF CommandTypes, Writing
  <2>4. TempsInv'
    BY <1>1, <1>2, <1>9, <2>1, <2>2 DEF TempsInv
  <2>5. QED
    BY <1>4, <1>5, <1>6, <2>3, <2>4
<1>10. QED
  BY <1>3, <1>8, <1>9

\* Without its temporary file, a process leaves those it found.
LEMMA WithoutLeavesStale ==
    ASSUME CommandInv, pc \in {"writing", "renaming", "removing"}
    PROVE  /\ DOMAIN Without(Temporary) = setup.stale
           /\ Without(Temporary) \in [setup.stale -> Contents]
           /\ \A temporary \in setup.stale : Without(Temporary)[temporary] = "stale"
<1>1. /\ Temporary \notin setup.stale
      /\ DOMAIN temps = setup.stale \union {Temporary}
      /\ temps \in [DOMAIN temps -> Contents]
      /\ \A temporary \in setup.stale : temps[temporary] = "stale"
  BY DEF CommandInv, CommandTypes, TempsInv
<1>2. DOMAIN temps \ {Temporary} = setup.stale
  BY <1>1
<1>3. Without(Temporary) = [temporary \in setup.stale |-> temps[temporary]]
  BY <1>2 DEF Without, Restrict
<1>4. QED
  BY <1>1, <1>3

\* write_atomic once the temporary file is open: it is filled, or removed.
LEMMA FillingKeepsInv ==
    ASSUME CommandAssumption, CommandInv, WriteAndSync \/ RemoveTemporary
    PROVE  CommandInv'
<1> USE DEF CommandInv
<1>1. /\ pc \in {"writing", "removing"}
      /\ UNCHANGED <<setup, loaded, analysis, output, attempt, files>>
  BY DEF WriteAndSync, RemoveTemporary
<1>2. exit = -1 /\ error = NoError
  BY <1>1 DEF ExitInv
<1>3. Temporary' = Temporary /\ Temporary \in Targets \X Attempts
  BY <1>1, TemporaryIsNamed DEF Temporary, Path, Writing
<1>4. /\ Temporary \notin setup.stale
      /\ DOMAIN temps = setup.stale \union {Temporary}
  BY <1>1 DEF TempsInv
<1>5. CASE WriteAndSync
  <2>1. /\ UNCHANGED <<error, exit>>
        /\ \/ pc' = "renaming" /\ temps' = [temps EXCEPT ![Temporary] = output]
           \/ pc' = "removing" /\ temps' = temps
    BY <1>5 DEF WriteAndSync, Goto
  <2>2. output \in Contents
    BY DEF CommandTypes, Contents
  <2>3. /\ DOMAIN temps' = DOMAIN temps /\ temps' \in [DOMAIN temps -> Contents]
        /\ \A t \in setup.stale : temps'[t] = temps[t]
        /\ pc' = "renaming" => temps'[Temporary] = output
    BY <1>4, <2>1, <2>2 DEF CommandTypes
  <2>4. CommandTypes'
    BY <1>1, <2>1, <2>3 DEF CommandTypes, Writing
  <2>5. LoadedInv' /\ ExitInv' /\ OutputInv'
    BY <1>1, <2>1 DEF LoadedInv, ExitInv, OutputInv, Given, Writing
  <2>6. UntouchedInv' /\ ArtefactInv'
    BY <1>1, <1>2, <2>1 DEF UntouchedInv, ArtefactInv, Early, Given, Path, Writing
  <2>7. TempsInv'
    BY <1>1, <1>3, <1>4, <2>1, <2>3 DEF TempsInv
  <2>8. QED
    BY <2>4, <2>5, <2>6, <2>7
<1>6. CASE RemoveTemporary
  <2>1. /\ pc = "removing" /\ pc' = "over" /\ exit' = 2 /\ error' = Between("Output")
        /\ \/ temps' = Without(Temporary)
           \/ May("remove") /\ temps' = temps
    BY <1>6 DEF RemoveTemporary, Fail
  <2>2. /\ setup.stale \subseteq DOMAIN temps' /\ DOMAIN temps' \subseteq DOMAIN temps
        /\ temps' \in [DOMAIN temps' -> Contents]
        /\ \A t \in setup.stale : temps'[t] = "stale"
        /\ ~May("remove") => DOMAIN temps' = setup.stale
    <3>1. CASE temps' = Without(Temporary)
      BY <1>1, <1>4, <3>1, WithoutLeavesStale
    <3>2. CASE May("remove") /\ temps' = temps
      BY <1>4, <3>2 DEF CommandTypes, TempsInv
    <3>3. QED
      BY <2>1, <3>1, <3>2
  <2>3. CommandTypes'
    BY <1>1, <2>1, <2>2 DEF CommandTypes, Ends
  <2>4. LoadedInv' /\ ExitInv' /\ OutputInv'
    BY <1>1, <2>1, ErrorsAreErrors DEF LoadedInv, ExitInv, OutputInv, Writing
  <2>5. UntouchedInv' /\ ArtefactInv'
    BY <2>1, ErrorsAreErrors DEF UntouchedInv, ArtefactInv, Early, Writing
  <2>6. TempsInv'
    BY <1>1, <2>1, <2>2 DEF TempsInv, May
  <2>7. QED
    BY <2>3, <2>4, <2>5, <2>6
<1>7. QED
  BY <1>5, <1>6

\* The temporary file takes its target's place, or stays to be removed.
LEMMA RenameKeepsInv ==
    ASSUME CommandAssumption, CommandInv, Rename
    PROVE  CommandInv'
<1> USE DEF CommandInv
<1>1. pc = "renaming" /\ UNCHANGED <<setup, loaded, analysis, error, exit>>
  BY DEF Rename, AfterJson, BeginOutput, Goto
<1>2. exit = -1 /\ error = NoError
  BY <1>1 DEF ExitInv
<1>3. temps[Temporary] = output /\ output \in Outputs /\ Given(output)
  BY <1>1 DEF TempsInv, CommandTypes, OutputInv, Writing
<1>4. LoadedInv' /\ UntouchedInv'
  <2>1. pc' \notin Early
    BY DEF Rename, AfterJson, BeginOutput, Goto, Early
  <2>2. QED
    BY <1>1, <1>2, <2>1 DEF LoadedInv, UntouchedInv
<1>5. CASE /\ pc' = "removing"
           /\ UNCHANGED <<files, temps, output, attempt>>
  <2>1. CommandTypes' /\ ExitInv' /\ OutputInv'
    BY <1>1, <1>3, <1>5 DEF CommandTypes, ExitInv, OutputInv, Given, Writing
  <2>2. Temporary' = Temporary
    BY <1>1, <1>5 DEF Temporary, Path
  <2>3. TempsInv'
    BY <1>1, <1>5, <2>2 DEF TempsInv
  <2>4. ArtefactInv'
    BY <1>1, <1>5 DEF ArtefactInv, Given, Path, Writing
  <2>5. QED
    BY <1>4, <2>1, <2>3, <2>4
<1>6. CASE /\ files' = [files EXCEPT ![Path(output).target] = output]
           /\ temps' = Without(Temporary)
           /\ \/ /\ output = "json" /\ Given("markdown")
                 /\ pc' = "directories" /\ output' = "markdown" /\ attempt' = 0
              \/ /\ output = "json" /\ ~Given("markdown")
                 /\ pc' = "printing" /\ UNCHANGED <<output, attempt>>
              \/ /\ output = "markdown"
                 /\ pc' = "printing" /\ UNCHANGED <<output, attempt>>
  <2>1. /\ DOMAIN temps' = setup.stale /\ temps' \in [setup.stale -> Contents]
        /\ \A t \in setup.stale : temps'[t] = "stale"
    BY <1>1, <1>6, WithoutLeavesStale
  <2>2. /\ files' \in [Targets -> {"old"} \union Outputs]
        /\ files'[Path(output).target] = output
        /\ \A t \in Targets : t # Path(output).target => files'[t] = files[t]
    <3>1. Path(output).target \in Targets
      BY <1>1, TemporaryIsNamed DEF Writing
    <3>2. QED
      BY <1>3, <1>6, <3>1 DEF CommandTypes
  <2>3. CommandTypes'
    <3>1. attempt' \in Attempts
      BY <1>6 DEF CommandTypes, CommandAssumption, Attempts
    <3>2. output' \in Outputs /\ pc' \in Writing \union {"printing"}
      BY <1>3, <1>6 DEF Outputs, Writing
    <3>3. setup.stale \subseteq Targets \X Attempts
      BY DEF CommandTypes, TempsInv
    <3>4. QED
      BY <1>1, <2>1, <2>2, <3>1, <3>2, <3>3 DEF CommandTypes
  <2>4. ExitInv' /\ OutputInv'
    BY <1>1, <1>2, <1>6 DEF ExitInv, OutputInv, Given, Writing
  <2>5. TempsInv'
    BY <1>1, <1>6, <2>1 DEF TempsInv
  <2>6. ArtefactInv'
    <3>1. CASE output = "json"
      <4>1. files'[Path("json").target] = "json"
        BY <2>2, <3>1
      <4>2. QED
        BY <1>1, <1>6, <3>1, <4>1 DEF ArtefactInv, Written, Given, Path, Writing
    <3>2. CASE output = "markdown"
      <4>1. files'[Path("markdown").target] = "markdown" /\ Given("markdown")
        BY <1>3, <2>2, <3>2
      <4>2. ASSUME Given("json")
            PROVE  \/ files'[Path("json").target] = "json"
                   \/ Path("markdown").target = Path("json").target
        <5>1. files[Path("json").target] = "json"
          BY <1>1, <3>2, <4>2 DEF ArtefactInv, Writing
        <5>2. Path("json").target \in Targets
          BY <4>2, GivenHasPath DEF CommandTypes, Outputs
        <5>3. QED
          BY <2>2, <3>2, <5>1, <5>2
      <4>3. QED
        BY <1>1, <1>6, <3>2, <4>1, <4>2 DEF ArtefactInv, Written, Given, Path, Writing
    <3>3. QED
      BY <1>3, <3>1, <3>2 DEF Outputs
  <2>7. QED
    BY <1>4, <2>3, <2>4, <2>5, <2>6
<1>7. QED
  BY <1>3, <1>5, <1>6 DEF Rename, AfterJson, BeginOutput, Goto, Outputs

\* Every step of the command, and of the files around it.
LEMMA StepKeepsInv ==
    ASSUME CommandAssumption, CommandInv, [Next]_vars
    PROVE  CommandInv'
<1>1. CASE UNCHANGED vars
  <2>1. UNCHANGED <<setup, pc, loaded, analysis, output, attempt, files, temps,
                    error, exit>>
    BY <1>1 DEF vars
  <2>2. CommandTypes' /\ LoadedInv' /\ ExitInv' /\ OutputInv'
    BY <2>1 DEF CommandInv, CommandTypes, LoadedInv, ExitInv, OutputInv, Given
  <2>3. UntouchedInv' /\ TempsInv' /\ ArtefactInv'
    BY <2>1 DEF CommandInv, UntouchedInv, TempsInv, ArtefactInv, Written, Given, Path, May,
                Temporary
  <2>4. QED
    BY <2>2, <2>3 DEF CommandInv
<1>2. CASE Terminating
  BY <1>1, <1>2 DEF Terminating
<1>3. QED
  BY <1>1, <1>2, EarlyKeepsInv, CompareKeepsInv, EndKeepsInv, OpeningKeepsInv,
     FillingKeepsInv, RenameKeepsInv DEF Next

-------------------------------------------------------------------------------
(* What the tool guarantees, in every reachable state *)

\* The inductive invariant of the command holds in every behaviour.
THEOREM CommandInvHolds == Spec => []CommandInv
<1>1. Init => CommandInv
  BY CommandAssumption, InitIsSound
<1>2. CommandInv /\ [Next]_vars => CommandInv'
  BY CommandAssumption, StepKeepsInv
<1>3. QED
  BY <1>1, <1>2, PTL DEF Spec

\* Every variable keeps its type, a process that is over has an exit status, and
\* that status is 2 just when there was an error.
THEOREM CommandTypeCorrect == Spec => []TypeOK
<1>1. ASSUME CommandInv
      PROVE  TypeOK
  <2>1. IsSetup(setup)
    BY <1>1, CommandAssumption DEF CommandInv, CommandTypes, CommandAssumption
  <2>2. /\ pc \in {"start", "loading", "loading_baseline", "comparing", "directories",
                   "opening", "writing", "renaming", "removing", "printing", "over",
                   "killed"}
        /\ output \in Outputs /\ attempt \in Attempts
        /\ files \in [Targets -> {"old", "partial", "stale"} \union Outputs]
    BY <1>1 DEF CommandInv, CommandTypes, Early, Writing, Ends
  <2>3. /\ DOMAIN temps \subseteq Targets \X Attempts
        /\ Range(temps) \subseteq {"partial", "stale"} \union Outputs
    BY <1>1 DEF CommandInv, CommandTypes, Contents, Range
  <2>4. QED
    BY <1>1, <2>1, <2>2, <2>3 DEF CommandInv, LoadedInv, ExitInv, TypeOK
<1>2. QED
  BY <1>1, CommandInvHolds, PTL

\* write_atomic and run: artefacts are whole, whatever fails and whenever the
\* process is killed; inputs that cannot be compared leave everything as it was;
\* a comparison that ends with 0 or 1 has written the Markdown and the JSON that
\* were asked for, the JSON unless the Markdown took its place.
THEOREM ArtefactsAreWhole == Spec => []OutputsAreWhole
<1>1. ASSUME CommandInv
      PROVE  OutputsAreWhole
  <2>1. Range(files) \subseteq Outputs \union {"old"}
    BY <1>1 DEF CommandInv, CommandTypes, Range
  <2>2. error \notin OutputErrors \union {NoError} =>
           Range(files) \subseteq {"old"} /\ DOMAIN temps = setup.stale
    BY <1>1 DEF CommandInv, UntouchedInv, Range
  <2>3. /\ pc = "over" /\ ~May("remove") => DOMAIN temps = setup.stale
        /\ \A temporary \in setup.stale : temps[temporary] = "stale"
    BY <1>1 DEF CommandInv, TempsInv
  <2>4. pc = "over" /\ exit \in {0, 1} /\ setup.command = "compare" => Written
    BY <1>1 DEF CommandInv, ArtefactInv
  <2>5. QED
    BY <2>1, <2>2, <2>3, <2>4 DEF OutputsAreWhole, Written
<1>2. QED
  BY <1>1, CommandInvHolds, PTL

-------------------------------------------------------------------------------
(* Lists of checks, and what they say of one document and of two.  A check     *)
(* list has a fixed length, so that it is enough to know that the error given  *)
(* is that of one that fails.                                                  *)

\* A list of checks gives no error if all pass, and that of one that fails
\* otherwise.
LEMMA FirstCheck ==
    ASSUME NEW n \in Nat, NEW checks, DOMAIN checks = 1..n
    PROVE  \/ FirstError(checks) = NoError /\ \A i \in 1..n : checks[i].passes
           \/ \E i \in 1..n : ~checks[i].passes /\ FirstError(checks) = checks[i].error
<1> DEFINE failed == {i \in DOMAIN checks : ~checks[i].passes}
<1>1. FirstError(checks) = IF failed = {} THEN NoError ELSE checks[Min(failed)].error
  BY DEF FirstError
<1>2. failed # {} => Min(failed) \in failed
  BY LeastIndex
<1>3. QED
  BY <1>1, <1>2


\* No error is given just when all checks pass.
LEMMA AllPass ==
    ASSUME NEW n \in Nat, NEW checks, DOMAIN checks = 1..n,
           \A i \in 1..n : ~checks[i].passes => checks[i].error # NoError
    PROVE  FirstError(checks) = NoError <=> \A i \in 1..n : checks[i].passes
BY FirstCheck, Zenon

\* The same of a list of two.
LEMMA BothPass ==
    ASSUME NEW checks, DOMAIN checks = 1..2,
           ~checks[1].passes => checks[1].error # NoError,
           ~checks[2].passes => checks[2].error # NoError
    PROVE  FirstError(checks) = NoError <=> checks[1].passes /\ checks[2].passes
<1>1. \A i : i \in 1..2 <=> i = 1 \/ i = 2
  OBVIOUS
<1>2. \A i \in 1..2 : ~checks[i].passes => checks[i].error # NoError
  BY <1>1
<1>3. FirstError(checks) = NoError <=> \A i \in 1..2 : checks[i].passes
  BY <1>2, AllPass
<1>4. QED
  BY <1>1, <1>3

\* The same of a list of one.
LEMMA OnePasses ==
    ASSUME NEW checks, DOMAIN checks = 1..1, ~checks[1].passes => checks[1].error # NoError
    PROVE  FirstError(checks) = NoError <=> checks[1].passes
<1>1. \A i : i \in 1..1 <=> i = 1
  OBVIOUS
<1>2. \A i \in 1..1 : ~checks[i].passes => checks[i].error # NoError
  BY <1>1
<1>3. FirstError(checks) = NoError <=> \A i \in 1..1 : checks[i].passes
  BY <1>2, AllPass
<1>4. QED
  BY <1>1, <1>3

\* What one document passes or fails on its own
Alone(report) ==
    /\ IsValid(report.validity)
    /\ Known(report.runner_id)
    /\ report.cases # <<>>
    /\ NoDuplicates(report)

\* A kind that is not "none" makes an error, whatever side it blames.
LEMMA BlameIsError ==
    /\ \A kind, side : Blame(kind, side) = NoError => kind = "none"
    /\ \A kind : Between(kind) = NoError => kind = "none"
BY DEF Blame, Between, NoError

\* A document validates just when it normalises and passes the checks on it
\* alone.
LEMMA OnItsOwn ==
    ASSUME NEW document
    PROVE  Validates(document) <=>
              NormalizeError(document, "current") = NoError /\ Alone(Normalized(document))
<1> DEFINE report == Normalized(document)
           checks == <<StatusCheck(report, "current"), RunnerCheck(report, "current"),
                       NonEmptyCheck(report, "current"), DuplicateCheck(report, "current")>>
<1>1. Validates(document) <=>
         NormalizeError(document, "current") = NoError /\ FirstError(checks) = NoError
  BY DEF Validates, validate_for_comparison
<1>2. DOMAIN checks = 1..4
  OBVIOUS
<1>3. /\ checks[1].passes = IsValid(report.validity)
      /\ checks[2].passes = Known(report.runner_id)
      /\ checks[3].passes = (report.cases # <<>>)
      /\ checks[4].passes = NoDuplicates(report)
  BY DEF StatusCheck, RunnerCheck, NonEmptyCheck, DuplicateCheck, Check
<1>4. \A i \in 1..4 : checks[i].error # NoError
  BY BlameIsError DEF StatusCheck, RunnerCheck, NonEmptyCheck, DuplicateCheck, Check
<1> HIDE DEF report, checks
<1>5. FirstError(checks) = NoError <=> \A i \in 1..4 : checks[i].passes
  BY <1>2, <1>4, AllPass
<1>6. (\A i \in 1..4 : checks[i].passes) <=>
         checks[1].passes /\ checks[2].passes /\ checks[3].passes /\ checks[4].passes
  OBVIOUS
<1>7. QED
  BY <1>1, <1>3, <1>5, <1>6 DEF Alone, report

\* The reason that an override must have
Reasoned(options) ==
    options.environment_override.given => options.environment_override.reason # Blank

\* What two normalised reports need in order to be matched
Comparable(current, baseline, options) ==
    LET given == options.environment_override.given
    IN  /\ Alone(current) /\ Alone(baseline) /\ Reasoned(options)
        /\ current.suite = baseline.suite
        /\ given \/ current.runner_id = baseline.runner_id
        /\ given \/ current.environment = baseline.environment

\* Two documents are refused for what one of them lacks, or for what sets them
\* apart.
LEMMA MatchBlames ==
    ASSUME NEW current, NEW baseline, NEW options
    PROVE  /\ MatchError(current, baseline, options) = NoError <=>
                 Comparable(current, baseline, options)
           /\ Alone(current) /\ Alone(baseline) /\ Reasoned(options) =>
                 MatchError(current, baseline, options) \in Relational \union {NoError}
<1> DEFINE override == options.environment_override
           checks ==
             <<StatusCheck(current, "current"),     StatusCheck(baseline, "baseline"),
               NonEmptyCheck(current, "current"),   NonEmptyCheck(baseline, "baseline"),
               Check(current.suite = baseline.suite, Between("SuiteMismatch")),
               RunnerCheck(current, "current"),     RunnerCheck(baseline, "baseline"),
               Check(override.given => override.reason # Blank,
                     Between("InvalidEnvironmentOverride")),
               Check(override.given \/ current.runner_id = baseline.runner_id,
                     Between("RunnerMismatch")),
               Check(override.given \/ current.environment = baseline.environment,
                     Between("EnvironmentMismatch")),
               DuplicateCheck(current, "current"),  DuplicateCheck(baseline, "baseline")>>
<1>1. MatchError(current, baseline, options) = FirstError(checks)
  BY DEF MatchError
<1>2. DOMAIN checks = 1..12
  OBVIOUS
<1>3. /\ checks[1].passes = IsValid(current.validity)
      /\ checks[2].passes = IsValid(baseline.validity)
      /\ checks[3].passes = (current.cases # <<>>)
      /\ checks[4].passes = (baseline.cases # <<>>)
      /\ checks[5].passes = (current.suite = baseline.suite)
      /\ checks[6].passes = Known(current.runner_id)
      /\ checks[7].passes = Known(baseline.runner_id)
      /\ checks[8].passes = Reasoned(options)
      /\ checks[9].passes = (override.given \/ current.runner_id = baseline.runner_id)
      /\ checks[10].passes = (override.given \/ current.environment = baseline.environment)
      /\ checks[11].passes = NoDuplicates(current)
      /\ checks[12].passes = NoDuplicates(baseline)
  BY DEF StatusCheck, RunnerCheck, NonEmptyCheck, DuplicateCheck, Check, Reasoned
<1>4. /\ checks[1].error = Blame("InvalidReport", "current")
      /\ checks[2].error = Blame("InvalidReport", "baseline")
      /\ checks[3].error = Blame("EmptyResultSet", "current")
      /\ checks[4].error = Blame("EmptyResultSet", "baseline")
      /\ checks[5].error = Between("SuiteMismatch")
      /\ checks[6].error = Blame("UnknownRunner", "current")
      /\ checks[7].error = Blame("UnknownRunner", "baseline")
      /\ checks[8].error = Between("InvalidEnvironmentOverride")
      /\ checks[9].error = Between("RunnerMismatch")
      /\ checks[10].error = Between("EnvironmentMismatch")
      /\ checks[11].error = Blame("DuplicateIdentity", "current")
      /\ checks[12].error = Blame("DuplicateIdentity", "baseline")
  BY DEF StatusCheck, RunnerCheck, NonEmptyCheck, DuplicateCheck, Check
<1> HIDE DEF checks
<1>5. \A i : i \in 1..12 <=> \/ i = 1 \/ i = 2 \/ i = 3 \/ i = 4 \/ i = 5 \/ i = 6
                             \/ i = 7 \/ i = 8 \/ i = 9 \/ i = 10 \/ i = 11 \/ i = 12
  OBVIOUS
<1>6. \A i \in 1..12 : checks[i].error # NoError
  BY <1>4, <1>5, BlameIsError
<1>7. \/ FirstError(checks) = NoError /\ \A i \in 1..12 : checks[i].passes
      \/ \E i \in 1..12 : ~checks[i].passes /\ FirstError(checks) = checks[i].error
  BY <1>2, FirstCheck
<1>8. \A i \in {5, 9, 10} : checks[i].error \in Relational
  BY <1>4 DEF Relational
<1>9. FirstError(checks) = NoError <=> Comparable(current, baseline, options)
  <2>1. FirstError(checks) = NoError <=> \A i \in 1..12 : checks[i].passes
    BY <1>6, <1>7
  <2>2. (\A i \in 1..12 : checks[i].passes) <=>
         /\ checks[1].passes /\ checks[2].passes /\ checks[3].passes /\ checks[4].passes
         /\ checks[5].passes /\ checks[6].passes /\ checks[7].passes /\ checks[8].passes
         /\ checks[9].passes /\ checks[10].passes /\ checks[11].passes /\ checks[12].passes
    BY <1>5
  <2>3. QED
    BY <1>3, <2>1, <2>2 DEF Comparable, Alone
<1>10. Alone(current) /\ Alone(baseline) /\ Reasoned(options) =>
         \A i \in 1..12 : ~checks[i].passes => i \in {5, 9, 10}
  BY <1>3, <1>5 DEF Alone
<1>11. QED
  BY <1>1, <1>7, <1>8, <1>9, <1>10

\* The side that is blamed does not matter to whether a document normalises.
LEMMA EitherSide ==
    ASSUME NEW document, NEW side
    PROVE  NormalizeError(document, side) = NoError <=>
              IF IsSeries(document) THEN ValidSeries(document)
              ELSE ValidContext(document.context) /\ document.suite # Blank
<1>1. CASE IsSeries(document)
  <2> DEFINE checks == <<Check(ValidSeries(document), Blame("InvalidReport", side))>>
  <2>1. NormalizeError(document, side) = FirstError(checks)
    BY <1>1 DEF NormalizeError
  <2>2. /\ DOMAIN checks = 1..1
        /\ checks[1].passes = ValidSeries(document)
        /\ checks[1].error # NoError
    BY BlameIsError DEF Check
  <2> HIDE DEF checks
  <2>3. FirstError(checks) = NoError <=> checks[1].passes
    BY <2>2, OnePasses
  <2>4. QED
    BY <1>1, <2>1, <2>2, <2>3
<1>2. CASE ~IsSeries(document)
  <2> DEFINE checks == <<Check(ValidContext(document.context), Blame("InvalidReport", side)),
                         Check(document.suite # Blank, Blame("MissingSuite", side))>>
  <2>1. NormalizeError(document, side) = FirstError(checks)
    BY <1>2 DEF NormalizeError
  <2>2. DOMAIN checks = 1..2
    OBVIOUS
  <2>3. /\ checks[1].passes = ValidContext(document.context)
        /\ checks[2].passes = (document.suite # Blank)
        /\ checks[1].error # NoError /\ checks[2].error # NoError
    BY BlameIsError DEF Check
  <2> HIDE DEF checks
  <2>4. FirstError(checks) = NoError <=> checks[1].passes /\ checks[2].passes
    BY <2>2, <2>3, BothPass
  <2>5. QED
    BY <1>2, <2>1, <2>3, <2>4
<1>3. QED
  BY <1>1, <1>2

\* Documents that compare validate, and documents that validate are refused only
\* for what sets them apart.
LEMMA ComparedAndValidated ==
    ASSUME NEW current, NEW baseline, NEW options
    PROVE  LET why == compare_reports(current, baseline, options).error
           IN  /\ why = NoError => Validates(current) /\ Validates(baseline)
               /\ Validates(current) /\ Validates(baseline) /\ Reasoned(options) =>
                     why \in Relational \union {NoError}
<1> DEFINE checks == <<Check(NormalizeError(current, "current") = NoError,
                             NormalizeError(current, "current")),
                       Check(NormalizeError(baseline, "baseline") = NoError,
                             NormalizeError(baseline, "baseline"))>>
           normal == NormalizeError(current, "current") = NoError
                       /\ NormalizeError(baseline, "baseline") = NoError
           why == compare_reports(current, baseline, options).error
           match == MatchError(Normalized(current), Normalized(baseline), options)
           compared == compare_normalized_reports(Normalized(current), Normalized(baseline),
                                                  options)
<1>1. FirstError(checks) = NoError <=> normal
  <2>1. DOMAIN checks = 1..2
    OBVIOUS
  <2>2. /\ checks[1].passes = (NormalizeError(current, "current") = NoError)
        /\ checks[1].error = NormalizeError(current, "current")
        /\ checks[2].passes = (NormalizeError(baseline, "baseline") = NoError)
        /\ checks[2].error = NormalizeError(baseline, "baseline")
    BY DEF Check
  <2> HIDE DEF checks
  <2>3. FirstError(checks) = NoError <=> checks[1].passes /\ checks[2].passes
    BY <2>1, <2>2, BothPass, Zenon
  <2>4. QED
    BY <2>2, <2>3
<1>2. /\ ~normal => why = FirstError(checks)
      /\ normal => why = compared.error
  BY <1>1 DEF compare_reports, Failed
<1>3. /\ match # NoError => compared.error = match
      /\ match = NoError => compared.error \in {NoError, Between("ResultSetMismatch")}
  BY DEF compare_normalized_reports, Failed
<1>4. Between("ResultSetMismatch") # NoError /\ Between("ResultSetMismatch") \in Relational
  BY BlameIsError DEF Relational
<1>5. /\ Validates(current) <=>
            NormalizeError(current, "current") = NoError /\ Alone(Normalized(current))
      /\ Validates(baseline) <=>
            NormalizeError(baseline, "baseline") = NoError /\ Alone(Normalized(baseline))
  BY OnItsOwn, EitherSide
<1> HIDE DEF checks, why, match, compared
<1>6. why = NoError => normal /\ match = NoError
  BY <1>1, <1>2, <1>3, <1>4
<1>7. why = NoError => Validates(current) /\ Validates(baseline)
  BY <1>5, <1>6, MatchBlames DEF match, Comparable
<1>8. Validates(current) /\ Validates(baseline) /\ Reasoned(options) =>
         why \in Relational \union {NoError}
  BY <1>2, <1>3, <1>4, <1>5, MatchBlames DEF match, Comparable
<1>9. QED
  BY <1>7, <1>8 DEF why

\* A report that loads parses and validates.
LEMMA LoadedEntry ==
    ASSUME NEW entry, DocumentError(entry) = NoError
    PROVE  Parses(entry.document) /\ Validates(entry.document)
<1> DEFINE document == entry.document
           checks == <<Check(entry.kind # "locked", Between("Io")),
                       Check(parse_report_document(document) = NoError,
                             parse_report_document(document)),
                       Check(validate_for_comparison(document) = NoError,
                             Between("InvalidDocument"))>>
<1>1. FirstError(checks) = NoError
  BY DEF DocumentError
<1>2. DOMAIN checks = 1..3
  OBVIOUS
<1>3. /\ checks[1].error = Between("Io") /\ checks[3].error = Between("InvalidDocument")
      /\ checks[2].passes = (checks[2].error = NoError)
      /\ checks[2].error = parse_report_document(document)
      /\ checks[3].passes = (validate_for_comparison(document) = NoError)
  BY DEF Check
<1> HIDE DEF checks
<1>4. \A i : i \in 1..3 <=> i = 1 \/ i = 2 \/ i = 3
  OBVIOUS
<1>5. \A i \in 1..3 : ~checks[i].passes => checks[i].error # NoError
  <2>1. checks[1].error # NoError /\ checks[3].error # NoError
    BY <1>3, BlameIsError
  <2>2. ~checks[2].passes => checks[2].error # NoError
    BY <1>3
  <2>3. QED
    BY <1>4, <2>1, <2>2
<1>6. \A i \in 1..3 : checks[i].passes
  BY <1>1, <1>2, <1>5, AllPass
<1>7. QED
  BY <1>3, <1>4, <1>6 DEF Parses, Validates

\* All documents of an input that loads parse and validate.
LEMMA LoadedInput ==
    ASSUME NEW input, input.entries \in Seq(Range(input.entries)), LoadError(input) = NoError,
           NEW document \in Documents(input)
    PROVE  Parses(document) /\ Validates(document)
<1> DEFINE rejected == {i \in Reports(input) : DocumentError(input.entries[i]) # NoError}
           checks ==
             <<Check(input.kind # "missing", Between("InputIo")),
               Check(input.kind # "other", Between("UnsupportedInput")),
               Check(\A i \in DOMAIN input.entries : input.entries[i].kind # "unreadable",
                     Between("InputIo")),
               Check(Reports(input) # {}, Between("NoReports")),
               Check(ReportError(input) = NoError, ReportError(input)),
               Check(SuitesDiffer(input), Between("DuplicateSuite"))>>
<1>1. FirstError(checks) = NoError
  BY DEF LoadError
<1>2. DOMAIN checks = 1..6
  OBVIOUS
<1>3. /\ checks[1].error = Between("InputIo") /\ checks[2].error = Between("UnsupportedInput")
      /\ checks[3].error = Between("InputIo") /\ checks[4].error = Between("NoReports")
      /\ checks[5].error = ReportError(input) /\ checks[6].error = Between("DuplicateSuite")
      /\ checks[5].passes = (ReportError(input) = NoError)
  BY DEF Check
<1> HIDE DEF checks
<1>4. \A i : i \in 1..6 <=> i = 1 \/ i = 2 \/ i = 3 \/ i = 4 \/ i = 5 \/ i = 6
  OBVIOUS
<1>5. \A i \in 1..6 : ~checks[i].passes => checks[i].error # NoError
  <2>1. /\ checks[1].error # NoError /\ checks[2].error # NoError
        /\ checks[3].error # NoError /\ checks[4].error # NoError
        /\ checks[6].error # NoError
    BY <1>3, BlameIsError
  <2>2. ~checks[5].passes => checks[5].error # NoError
    BY <1>3
  <2>3. QED
    BY <1>4, <2>1, <2>2
<1>6. ReportError(input) = NoError
  BY <1>1, <1>2, <1>3, <1>4, <1>5, AllPass
<1>7. rejected = {}
  <2>1. rejected \subseteq Nat
    BY DEF Reports
  <2>2. rejected # {} => Min(rejected) \in rejected
    BY <2>1, LeastIndex
  <2>3. rejected # {} => ReportError(input) = DocumentError(input.entries[Min(rejected)])
    BY DEF ReportError
  <2>4. QED
    BY <1>6, <2>2, <2>3
<1>8. PICK i \in Reports(input) : document = input.entries[i].document
  BY DEF Documents
<1>9. QED
  BY <1>7, <1>8, LoadedEntry

\* Where the documents come from: what is loaded validates, the options of a
\* comparison were checked, and once both sides are loaded only what sets them
\* apart, or an output, can go wrong.
OriginInv ==
    /\ pc \in {"start", "loading", "loading_baseline"} => loaded.baseline = <<>>
    /\ pc = "loading" /\ setup.command = "compare" => CanBeAsked
    /\ pc \in {"loading_baseline", "comparing"} => CanBeAsked
    /\ \A side \in {"current", "baseline"} :
          \A suite \in DOMAIN loaded[side] : Validates(loaded[side][suite])
    /\ loaded.baseline # <<>> => error \in Relational \union OutputErrors \union {NoError}

\* What load_report_input stores is one of the documents of the input.
LEMMA StoredDocuments ==
    ASSUME NEW input, NEW suite \in DOMAIN load_report_input(input)
    PROVE  load_report_input(input)[suite] \in Documents(input)
<1>1. \E document \in Documents(input) : document.suite = suite
  BY DEF load_report_input
<1>2. QED
  BY <1>1 DEF load_report_input

\* Suites of documents that validate are refused only for what sets them apart.
LEMMA SuitesBlame ==
    ASSUME LoadedInv, OriginInv, pc = "comparing", NEW why \in compare_errors
    PROVE  why \in Relational
<1>1. CASE why \in {Between("SuiteMismatch"), Between("SuiteSetMismatch")}
  BY <1>1 DEF Relational
<1>2. CASE \E suite \in Shared : why = SuiteError(suite) /\ why # NoError
  <2>1. PICK suite \in Shared : why = SuiteError(suite) /\ why # NoError
    BY <1>2
  <2>2. Validates(loaded.current[suite]) /\ Validates(loaded.baseline[suite])
    BY <2>1 DEF Shared, OriginInv
  <2>3. Reasoned(setup.options)
    BY DEF OriginInv, CanBeAsked, Reasoned
  <2>4. compare_reports(loaded.current[suite], loaded.baseline[suite], setup.options).error
           \in Relational \union {NoError}
    BY <2>2, <2>3, ComparedAndValidated
  <2>5. Between("DocumentTypeMismatch") \in Relational
    BY DEF Relational
  <2>6. QED
    BY <2>1, <2>4, <2>5 DEF SuiteError
<1>3. QED
  BY <1>1, <1>2 DEF compare_errors

\* Every step preserves it.
LEMMA StepKeepsOrigin ==
    ASSUME CommandAssumption, CommandInv, OriginInv, [Next]_vars
    PROVE  OriginInv'
<1> USE DEF OriginInv
<1>1. CASE CheckArguments
  <2>1. /\ pc = "start" /\ UNCHANGED <<setup, loaded>>
        /\ pc' \in {"loading", "over"}
    BY <1>1 DEF CheckArguments, Goto, Fail
  <2>2. pc' = "loading" /\ setup.command = "compare" => CanBeAsked
    <3> DEFINE override == setup.options.environment_override
               checks == <<Check(~Conflicting, Between("ConflictingOutputs")),
                           Check(override.given => override.reason # Blank,
                                 Between("InvalidEnvironmentOverride")),
                           Check(ValidPolicy(setup.policy), Between("Policy"))>>
    <3>1. pc' = "loading" /\ setup.command = "compare" => FirstError(checks) = NoError
      BY <1>1 DEF CheckArguments, Fail
    <3>2. DOMAIN checks = 1..3
      OBVIOUS
    <3>3. /\ checks[1].error = Between("ConflictingOutputs")
          /\ checks[2].error = Between("InvalidEnvironmentOverride")
          /\ checks[3].error = Between("Policy")
          /\ checks[2].passes = CanBeAsked
      BY DEF Check, CanBeAsked
    <3> HIDE DEF checks
    <3>4. \A i : i \in 1..3 <=> i = 1 \/ i = 2 \/ i = 3
      OBVIOUS
    <3>5. \A i \in 1..3 : ~checks[i].passes => checks[i].error # NoError
      BY <3>3, <3>4, BlameIsError
    <3>6. FirstError(checks) = NoError => \A i \in 1..3 : checks[i].passes
      BY <3>2, <3>5, AllPass
    <3>7. QED
      BY <3>1, <3>3, <3>4, <3>6
  <2>3. QED
    BY <2>1, <2>2 DEF CanBeAsked
<1>2. CASE LoadCurrent
  <2>1. /\ pc = "loading" /\ UNCHANGED setup /\ loaded'.baseline = loaded.baseline
        /\ pc' \in {"loading_baseline", "printing", "over"}
        /\ pc' = "loading_baseline" => setup.command # "validate"
    BY <1>2 DEF LoadCurrent, Goto, Fail, CommandInv, LoadedInv
  <2>2. setup.command \in {"compare", "validate"}
    BY DEF CommandInv, CommandTypes, CommandAssumption, IsSetup
  <2>3. \A side \in {"current", "baseline"} :
           \A suite \in DOMAIN loaded'[side] : Validates(loaded'[side][suite])
    <3>1. CASE UNCHANGED loaded
      BY <3>1
    <3>2. CASE /\ LoadError(setup.current) = NoError
               /\ loaded' = [loaded EXCEPT !.current = load_report_input(setup.current)]
      <4>1. setup.current.entries \in Seq(Range(setup.current.entries))
        BY DEF CommandInv, CommandTypes, CommandAssumption, IsSetup
      <4>2. loaded'.current = load_report_input(setup.current)
        BY <3>2 DEF CommandInv, LoadedInv
      <4>3. QED
        BY <2>1, <3>2, <4>1, <4>2, StoredDocuments, LoadedInput
    <3>3. QED
      BY <1>2, <3>1, <3>2 DEF LoadCurrent
  <2>4. QED
    BY <2>1, <2>2, <2>3 DEF CanBeAsked
<1>3. CASE LoadBaseline
  <2>1. /\ pc = "loading_baseline" /\ UNCHANGED setup
        /\ \/ pc' = "over" /\ UNCHANGED loaded
           \/ /\ pc' = "comparing" /\ UNCHANGED error /\ LoadError(setup.baseline) = NoError
              /\ loaded' = [loaded EXCEPT !.baseline = load_report_input(setup.baseline)]
    BY <1>3 DEF LoadBaseline, Goto, Fail
  <2>2. error = NoError
    BY <2>1 DEF CommandInv, ExitInv
  <2>3. \A side \in {"current", "baseline"} :
           \A suite \in DOMAIN loaded'[side] : Validates(loaded'[side][suite])
    <3>1. CASE UNCHANGED loaded
      BY <3>1
    <3>2. CASE /\ LoadError(setup.baseline) = NoError
               /\ loaded' = [loaded EXCEPT !.baseline = load_report_input(setup.baseline)]
      <4>1. setup.baseline.entries \in Seq(Range(setup.baseline.entries))
        BY DEF CommandInv, CommandTypes, CommandAssumption, IsSetup
      <4>2. /\ loaded'.baseline = load_report_input(setup.baseline)
            /\ loaded'.current = loaded.current
        BY <3>2 DEF CommandInv, LoadedInv
      <4>3. QED
        BY <3>2, <4>1, <4>2, StoredDocuments, LoadedInput
    <3>3. QED
      BY <2>1, <3>1, <3>2
  <2>4. QED
    BY <2>1, <2>2, <2>3 DEF CanBeAsked
<1>4. CASE CompareFails
  <2>1. pc = "comparing" /\ UNCHANGED <<setup, loaded>> /\ pc' = "over"
    BY <1>4 DEF CompareFails, Fail
  <2>2. error' \in Relational
    BY <1>4, SuitesBlame DEF CompareFails, Fail, CommandInv
  <2>3. QED
    BY <2>1, <2>2
<1>5. CASE \/ CompareSuites \/ CreateDirectories \/ OpenTemporary \/ WriteAndSync \/ Rename
           \/ RemoveTemporary \/ PrintResult \/ Kill
  <2>1. /\ UNCHANGED <<setup, loaded>>
        /\ pc' \notin {"start", "loading", "loading_baseline", "comparing"}
        /\ error' \in OutputErrors \union {error}
    <3>1. CASE CompareSuites
      BY <3>1 DEF CompareSuites, AfterJson, BeginOutput, Goto
    <3>2. CASE CreateDirectories \/ OpenTemporary
      BY <3>2, ErrorsAreErrors DEF CreateDirectories, OpenTemporary, Goto, Fail
    <3>3. CASE WriteAndSync \/ RemoveTemporary
      BY <3>3, ErrorsAreErrors DEF WriteAndSync, RemoveTemporary, Goto, Fail
    <3>4. CASE Rename
      BY <3>4 DEF Rename, AfterJson, BeginOutput, Goto
    <3>5. CASE PrintResult \/ Kill
      BY <3>5, ErrorsAreErrors DEF PrintResult, Kill, Finish, Goto, Fail
    <3>6. QED
      BY <1>5, <3>1, <3>2, <3>3, <3>4, <3>5
  <2>2. QED
    BY <2>1
<1>6. CASE UNCHANGED vars
  BY <1>6 DEF vars, CanBeAsked
<1>7. QED
  BY <1>1, <1>2, <1>3, <1>4, <1>5, <1>6 DEF Next, Terminating

\* compare_reports and validate_for_comparison: documents that compare validate,
\* documents that validate are refused only for what sets them apart, and that is
\* all that can go wrong in the tool once both inputs are loaded, but for its
\* outputs.
THEOREM ValidatedIsComparable == Spec => []ValidationIsEnough
<1>1. Init => OriginInv
  BY DEF Init, OriginInv
<1>2. CommandInv /\ OriginInv /\ [Next]_vars => OriginInv'
  BY CommandAssumption, StepKeepsOrigin
<1>3. OriginInv => ValidationIsEnough
  <2> SUFFICES ASSUME OriginInv PROVE ValidationIsEnough
    OBVIOUS
  <2>1. pc = "over" /\ loaded.baseline # <<>> =>
           error \in Relational \union OutputErrors \union {NoError}
    BY DEF OriginInv
  <2>2. ASSUME CanBeAsked, NEW sides \in Sides
        PROVE  LET why == compare_reports(sides[1], sides[2], setup.options).error
               IN  /\ why = NoError => \A i \in 1..2 : Validates(sides[i])
                   /\ (\A i \in 1..2 : Validates(sides[i])) =>
                         why \in Relational \union {NoError}
    <3>1. Reasoned(setup.options)
      BY <2>2 DEF CanBeAsked, Reasoned
    <3>2. (\A i \in 1..2 : Validates(sides[i])) <=>
             Validates(sides[1]) /\ Validates(sides[2])
      OBVIOUS
    <3>3. QED
      BY <3>1, <3>2, ComparedAndValidated
  <2>3. QED
    BY <2>1, <2>2 DEF ValidationIsEnough
<1>4. QED
  BY <1>1, <1>2, <1>3, CommandInvHolds, PTL DEF Spec

-------------------------------------------------------------------------------
(* A comparison read from the other side *)

\* The parts of a comparison that succeeds
Pairs(current, baseline)   == OneToOne(Identities(current), Identities(baseline))
Added(current, baseline)   == LET pairs == Pairs(current, baseline)
                              IN  Unpaired(current.cases, {pairs[n][1] : n \in DOMAIN pairs})
Removed(current, baseline) == LET pairs == Pairs(current, baseline)
                              IN  Unpaired(baseline.cases, {pairs[n][2] : n \in DOMAIN pairs})
Matched(current, baseline) ==
    LET pairs == Pairs(current, baseline)
    IN  [n \in DOMAIN pairs |-> matched_benchmark(current.cases[pairs[n][1]],
                                                  baseline.cases[pairs[n][2]])]

\* Does a document normalise?
Normal(document) == NormalizeError(document, "current") = NoError

Succeeds(current, baseline, options) ==
    /\ Normal(current) /\ Normal(baseline)
    /\ Comparable(Normalized(current), Normalized(baseline), options)
    /\ \/ options.allow_partial_result_set
       \/ DOMAIN Added(Normalized(current), Normalized(baseline))
            \union DOMAIN Removed(Normalized(current), Normalized(baseline)) = {}

\* What a comparison gives, and when.
LEMMA Outcome ==
    ASSUME NEW current, NEW baseline, NEW options
    PROVE  LET result == compare_reports(current, baseline, options)
           IN  /\ result.error = NoError <=> Succeeds(current, baseline, options)
               /\ ~Succeeds(current, baseline, options) =>
                     result.matched = <<>> /\ result.added = <<>> /\ result.removed = <<>>
               /\ Succeeds(current, baseline, options) =>
                     /\ result.matched = Matched(Normalized(current), Normalized(baseline))
                     /\ result.added = Added(Normalized(current), Normalized(baseline))
                     /\ result.removed = Removed(Normalized(current), Normalized(baseline))
<1> DEFINE checks == <<Check(NormalizeError(current, "current") = NoError,
                             NormalizeError(current, "current")),
                       Check(NormalizeError(baseline, "baseline") = NoError,
                             NormalizeError(baseline, "baseline"))>>
           c == Normalized(current)
           b == Normalized(baseline)
           result == compare_reports(current, baseline, options)
           compared == compare_normalized_reports(c, b, options)
<1>1. FirstError(checks) = NoError <=> Normal(current) /\ Normal(baseline)
  <2>1. DOMAIN checks = 1..2
    OBVIOUS
  <2>2. /\ checks[1].passes = (NormalizeError(current, "current") = NoError)
        /\ checks[1].error = NormalizeError(current, "current")
        /\ checks[2].passes = (NormalizeError(baseline, "baseline") = NoError)
        /\ checks[2].error = NormalizeError(baseline, "baseline")
    BY DEF Check
  <2> HIDE DEF checks
  <2>3. FirstError(checks) = NoError <=> checks[1].passes /\ checks[2].passes
    BY <2>1, <2>2, BothPass, Zenon
  <2>4. NormalizeError(baseline, "baseline") = NoError <=>
           NormalizeError(baseline, "current") = NoError
    BY EitherSide
  <2>5. QED
    BY <2>2, <2>3, <2>4 DEF Normal
<1>2. /\ FirstError(checks) # NoError => result = Failed(FirstError(checks))
      /\ FirstError(checks) = NoError => result = compared
  BY DEF compare_reports
<1> DEFINE partial == DOMAIN Added(c, b) \union DOMAIN Removed(c, b) # {}
<1>3. compared =
         IF MatchError(c, b, options) # NoError THEN Failed(MatchError(c, b, options))
         ELSE IF ~options.allow_partial_result_set /\ partial
         THEN Failed(Between("ResultSetMismatch"))
         ELSE [error   |-> NoError,
               matched |-> Matched(c, b), added |-> Added(c, b), removed |-> Removed(c, b)]
  BY DEF compare_normalized_reports, Matched, Added, Removed, Pairs
<1>4. MatchError(c, b, options) = NoError <=> Comparable(c, b, options)
  BY MatchBlames
<1>5. Between("ResultSetMismatch") # NoError
  BY BlameIsError
<1>6. \A why : /\ Failed(why).error = why /\ Failed(why).matched = <<>>
               /\ Failed(why).added = <<>> /\ Failed(why).removed = <<>>
  BY DEF Failed
<1>7. Succeeds(current, baseline, options) <=>
         /\ FirstError(checks) = NoError /\ MatchError(c, b, options) = NoError
         /\ options.allow_partial_result_set \/ ~partial
  BY <1>1, <1>4 DEF Succeeds
<1> HIDE DEF checks, c, b, result, compared, partial
<1>8. CASE FirstError(checks) # NoError
  BY <1>2, <1>6, <1>7, <1>8 DEF result
<1>9. CASE FirstError(checks) = NoError /\ MatchError(c, b, options) # NoError
  BY <1>2, <1>3, <1>6, <1>7, <1>9 DEF result
<1>10. CASE /\ FirstError(checks) = NoError /\ MatchError(c, b, options) = NoError
            /\ ~options.allow_partial_result_set /\ partial
  BY <1>2, <1>3, <1>5, <1>6, <1>7, <1>10 DEF result
<1>11. CASE Succeeds(current, baseline, options)
  <2>1. result = [error |-> NoError, matched |-> Matched(c, b), added |-> Added(c, b),
                  removed |-> Removed(c, b)]
    BY <1>2, <1>3, <1>7, <1>11
  <2>2. QED
    BY <1>11, <2>1 DEF result, c, b
<1>12. QED
  BY <1>7, <1>8, <1>9, <1>10, <1>11

\* What the cases of a normalised document are
IsCase(case) ==
    /\ case.value = None \/ \E v \in Int : case.value = Some(v)
    /\ case.identity.direction = case.direction
    /\ case.metrics \in Seq(Range(case.metrics))

\* A list with an element for each element of another is a list.
LEMMA ListOverList ==
    ASSUME NEW T, NEW s \in Seq(T), NEW f, f = [i \in DOMAIN s |-> f[i]]
    PROVE  f \in Seq(Range(f)) /\ Len(f) = Len(s) /\ DOMAIN f = DOMAIN s
<1>1. Len(s) \in Nat /\ DOMAIN s = 1..Len(s)
  OBVIOUS
<1> DEFINE S == Range(f)
<1>2. \A i \in DOMAIN f : f[i] \in S
  BY DEF Range
<1>3. DOMAIN f = DOMAIN s
  OBVIOUS
<1> HIDE DEF S
<1>4. f \in [1..Len(s) -> S]
  BY <1>1, <1>2
<1>5. f \in Seq(S) /\ Len(f) = Len(s)
  BY <1>1, <1>4
<1>6. QED
  BY <1>3, <1>5 DEF S

\* Normalisation gives a case for each result.
LEMMA CasesAreCases ==
    ASSUME NEW document, IsDocument(document)
    PROVE  LET cases == Normalized(document).cases
           IN  /\ cases \in Seq(Range(cases)) /\ DOMAIN cases = DOMAIN document.results
               /\ \A i \in DOMAIN cases : IsCase(cases[i])
<1> DEFINE cases == Normalized(document).cases
           results == document.results
<1>1. cases = [i \in DOMAIN results |-> NormalizedCase(document, results[i])]
  BY DEF Normalized
<1>2. results \in Seq(Range(results))
  BY DEF IsDocument
<1>3. ASSUME NEW i \in DOMAIN results
      PROVE  IsCase(NormalizedCase(document, results[i]))
  <2> DEFINE result == results[i]
             case == NormalizedCase(document, result)
             middle == Percentile(result.samples, 1, 2)
  <2>1. result \in Range(results)
    BY DEF Range
  <2>2. /\ result.median \in Int /\ result.throughput_per_sec \in Int
        /\ result.samples \in Seq(Int) /\ result.metrics \in Seq(Range(result.metrics))
    BY <2>1 DEF IsDocument
  <2>3. middle \in Int
    BY <2>2, MedianIsWhole
  <2>4. /\ case.value = IF IsSeries(document) THEN SeriesValue(result)
                        ELSE NonNegative(NativeValue(result))
        /\ case.identity = Identity(document, result)
        /\ case.direction = Direction(document, result)
        /\ case.metrics = IF IsSeries(document) THEN <<>> ELSE result.metrics
    BY DEF NormalizedCase
  <2>5. case.identity.direction = case.direction
    BY <2>4 DEF Identity
  <2>6. NativeValue(result) \in Int
    BY <2>2, <2>3 DEF NativeValue
  <2>7. SeriesValue(result) \in {None, Some(middle)}
    BY DEF SeriesValue
  <2>8. NonNegative(NativeValue(result)) \in {None, Some(NativeValue(result))}
    BY DEF NonNegative
  <2> HIDE DEF case, middle, result
  <2>9. case.value = None \/ \E v \in Int : case.value = Some(v)
    BY <2>3, <2>4, <2>6, <2>7, <2>8
  <2>10. QED
    <3>1. <<>> \in Seq(Range(<<>>))
      OBVIOUS
    <3>2. case.metrics \in Seq(Range(case.metrics))
      BY <2>2, <2>4, <3>1 DEF case, result
    <3>3. QED
      BY <2>5, <2>9, <3>2 DEF IsCase, case, result
<1>4. cases = [i \in DOMAIN results |-> cases[i]]
  BY <1>1
<1>5. \A i \in DOMAIN results : IsCase(cases[i])
  BY <1>1, <1>3
<1> HIDE DEF cases
<1>6. cases \in Seq(Range(cases)) /\ DOMAIN cases = DOMAIN results
  BY <1>2, <1>4, ListOverList
<1>7. QED
  BY <1>5, <1>6 DEF cases

\* The pairs of two documents, read from either side
LEMMA PairsOfReports ==
    ASSUME NEW c, NEW b, IsDocument(c), IsDocument(b)
    PROVE  LET current == Normalized(c)
               baseline == Normalized(b)
               pairs == Pairs(current, baseline)
               back  == Pairs(baseline, current)
           IN  /\ Range(back) = Transposed(Range(pairs)) /\ Len(back) = Len(pairs)
               /\ pairs \in Seq(Nat \X Nat) /\ back \in Seq(Nat \X Nat)
               /\ \A p \in Range(pairs) :
                     /\ p[1] \in DOMAIN current.cases /\ p[2] \in DOMAIN baseline.cases
                     /\ current.cases[p[1]].identity = baseline.cases[p[2]].identity
<1> DEFINE current == Normalized(c)
           baseline == Normalized(b)
           keys == Identities(current)
           others == Identities(baseline)
           pairs == Pairs(current, baseline)
           back  == Pairs(baseline, current)
<1>1. current.cases \in Seq(Range(current.cases)) /\ baseline.cases \in Seq(Range(baseline.cases))
  BY CasesAreCases
<1> HIDE DEF current, baseline
<1>2. /\ keys = [i \in DOMAIN current.cases |-> keys[i]]
      /\ others = [i \in DOMAIN baseline.cases |-> others[i]]
  BY DEF Identities
<1>3. /\ \A i \in DOMAIN current.cases : keys[i] = current.cases[i].identity
      /\ \A i \in DOMAIN baseline.cases : others[i] = baseline.cases[i].identity
      /\ DOMAIN keys = DOMAIN current.cases /\ DOMAIN others = DOMAIN baseline.cases
  BY DEF Identities
<1>4. pairs = OneToOne(keys, others) /\ back = OneToOne(others, keys)
  BY DEF Pairs
<1> HIDE DEF keys, others, pairs, back
<1>5. keys \in Seq(Range(keys)) /\ others \in Seq(Range(others))
  BY <1>1, <1>2, ListOverList
<1>6. Range(back) = Transposed(Range(pairs)) /\ Len(back) = Len(pairs)
  BY <1>4, <1>5, PairsReverse
<1>7. /\ pairs \in Seq(Nat \X Nat) /\ Pairing(Range(pairs), keys, others)
      /\ back \in Seq(Nat \X Nat)
  BY <1>4, <1>5, OneToOnePairs
<1>8. ASSUME NEW p \in Range(pairs)
      PROVE  /\ p[1] \in DOMAIN keys /\ p[2] \in DOMAIN others
             /\ keys[p[1]] = others[p[2]]
  <2>1. p \in (DOMAIN keys) \X (DOMAIN others)
    BY <1>7 DEF Pairing
  <2>2. p = <<p[1], p[2]>> /\ p[1] \in DOMAIN keys /\ p[2] \in DOMAIN others
    BY <2>1
  <2>3. <<p[1], p[2]>> \in Range(pairs)
    BY <2>2, Zenon
  <2>4. QED
    BY <1>7, <2>2, <2>3 DEF Pairing
<1>9. QED
  BY <1>3, <1>6, <1>7, <1>8 DEF current, baseline, pairs, back

\* What is added, read from the other side, is removed.
LEMMA AddedIsRemoved ==
    ASSUME NEW c, NEW b, IsDocument(c), IsDocument(b)
    PROVE  /\ Added(Normalized(c), Normalized(b)) = Removed(Normalized(b), Normalized(c))
           /\ Removed(Normalized(c), Normalized(b)) = Added(Normalized(b), Normalized(c))
<1> DEFINE current == Normalized(c)
           baseline == Normalized(b)
           pairs == Pairs(current, baseline)
           back  == Pairs(baseline, current)
<1>1. /\ Range(back) = Transposed(Range(pairs))
      /\ pairs \in Seq(Nat \X Nat) /\ back \in Seq(Nat \X Nat)
  BY PairsOfReports
<1> HIDE DEF current, baseline, pairs, back
<1>2. /\ \A n \in DOMAIN pairs : \E k \in DOMAIN back :
            back[k] = <<pairs[n][2], pairs[n][1]>>
      /\ \A k \in DOMAIN back : \E n \in DOMAIN pairs :
            back[k] = <<pairs[n][2], pairs[n][1]>>
  <2>1. ASSUME NEW n \in DOMAIN pairs
        PROVE  \E k \in DOMAIN back : back[k] = <<pairs[n][2], pairs[n][1]>>
    <3>1. pairs[n] \in Range(pairs)
      BY DEF Range
    <3>2. <<pairs[n][2], pairs[n][1]>> \in Range(back)
      BY <1>1, <3>1, Zenon DEF Transposed
    <3>3. QED
      BY <3>2, Zenon DEF Range
  <2>2. ASSUME NEW k \in DOMAIN back
        PROVE  \E n \in DOMAIN pairs : back[k] = <<pairs[n][2], pairs[n][1]>>
    <3>1. back[k] \in Transposed(Range(pairs))
      BY <1>1, Zenon DEF Range
    <3>2. PICK p \in Range(pairs) : back[k] = <<p[2], p[1]>>
      BY <3>1, Zenon DEF Transposed
    <3>3. QED
      BY <3>2, Zenon DEF Range
  <2>3. QED
    BY <2>1, <2>2
<1>3. /\ \A n \in DOMAIN pairs : \E k \in DOMAIN back :
            back[k][1] = pairs[n][2] /\ back[k][2] = pairs[n][1]
      /\ \A k \in DOMAIN back : \E n \in DOMAIN pairs :
            back[k][1] = pairs[n][2] /\ back[k][2] = pairs[n][1]
  BY <1>2
<1>4. /\ {pairs[n][1] : n \in DOMAIN pairs} = {back[k][2] : k \in DOMAIN back}
      /\ {pairs[n][2] : n \in DOMAIN pairs} = {back[k][1] : k \in DOMAIN back}
  BY <1>3
<1>5. QED
  BY <1>4 DEF Added, Removed, current, baseline, pairs, back

\* A comparison succeeds just when the exchanged one does.
LEMMA SucceedsEitherWay ==
    ASSUME NEW c, NEW b, NEW options, IsDocument(c), IsDocument(b)
    PROVE  Succeeds(c, b, options) <=> Succeeds(b, c, options)
<1>1. Comparable(Normalized(c), Normalized(b), options) <=>
         Comparable(Normalized(b), Normalized(c), options)
  BY DEF Comparable
<1>2. QED
  BY <1>1, AddedIsRemoved DEF Succeeds

\* The measure of a change, and the class it makes a case
LEMMA ChangeOfCases ==
    ASSUME NEW x, NEW y, IsCase(x), IsCase(y), NEW minimum \in Int,
           ~(x.value = None \/ y.value = None \/ x.direction = "informational")
    PROVE  \E v, w \in Int :
              /\ x.value = Some(v) /\ y.value = Some(w)
              /\ improvement_percent(x.value, y.value, x.direction) =
                    IF w = 0 THEN None
                    ELSE Some([over  |-> IF x.direction = "higher" THEN v - w ELSE w - v,
                               under |-> Magnitude(w)])
<1>1. PICK v \in Int : x.value = Some(v)
  BY DEF IsCase
<1>2. PICK w \in Int : y.value = Some(w)
  BY DEF IsCase
<1>3. x.value[1] = v /\ y.value[1] = w
  BY <1>1, <1>2 DEF Some
<1>4. improvement_percent(x.value, y.value, x.direction) =
         IF w = 0 THEN None
         ELSE Some([over  |-> IF x.direction = "higher" THEN v - w ELSE w - v,
                    under |-> Magnitude(w)])
  BY <1>3 DEF improvement_percent
<1>5. QED
  BY <1>1, <1>2, <1>4

\* A case that improves, or regresses, has moved in that direction.
LEMMA MovedByClass ==
    ASSUME NEW x, NEW y, IsCase(x), IsCase(y), NEW minimum \in Int, minimum >= 0,
           NEW class \in {"improvement", "regression"},
           classify_case(matched_benchmark(x, y), minimum) = class
    PROVE  \E v, w \in Int :
              /\ x.value = Some(v) /\ y.value = Some(w)
              /\ (class = "improvement") = (x.direction = "higher") => v > w
              /\ (class = "improvement") # (x.direction = "higher") => w > v
<1> DEFINE matched == matched_benchmark(x, y)
           change == improvement_percent(x.value, y.value, x.direction)
<1>1. /\ matched.percent_improvement = change
      /\ matched.current = x /\ matched.baseline = y
  BY DEF matched_benchmark
<1>2. /\ IsValid(x.validity) /\ IsValid(y.validity) /\ x.direction # "informational"
      /\ change # None
      /\ class = "improvement" => 100 * change[1].over > minimum * change[1].under
      /\ class = "regression" => 100 * change[1].over < -minimum * change[1].under
  <2> HIDE DEF matched, change
  <2>1. classify_case(matched, minimum) = class
    BY DEF matched
  <2>2. classify_case(matched, minimum) =
          IF ~(IsValid(x.validity) /\ IsValid(y.validity)) THEN "invalid"
          ELSE IF x.direction = "informational" THEN "informational"
          ELSE IF change = None THEN "inconclusive"
          ELSE IF 100 * change[1].over > minimum * change[1].under THEN "improvement"
          ELSE IF 100 * change[1].over < -minimum * change[1].under THEN "regression"
          ELSE "no_material_change"
    BY <1>1 DEF classify_case
  <2>3. QED
    BY <2>1, <2>2
<1>3. ~(x.value = None \/ y.value = None \/ x.direction = "informational")
  BY <1>2 DEF improvement_percent
<1>4. PICK v, w \in Int :
        /\ x.value = Some(v) /\ y.value = Some(w)
        /\ change = IF w = 0 THEN None
                    ELSE Some([over  |-> IF x.direction = "higher" THEN v - w ELSE w - v,
                               under |-> Magnitude(w)])
  BY <1>3, ChangeOfCases
<1> DEFINE over == IF x.direction = "higher" THEN v - w ELSE w - v
<1>5. change[1].over = over /\ change[1].under = Magnitude(w)
  BY <1>2, <1>4 DEF Some
<1> HIDE DEF change
<1>6. Magnitude(w) \in Nat /\ over \in Int
  BY DEF Magnitude, Distance
<1>7. minimum * Magnitude(w) >= 0 /\ -minimum * Magnitude(w) <= 0
  BY <1>6
<1>8. minimum * Magnitude(w) \in Int /\ -minimum * Magnitude(w) \in Int
  BY <1>6
<1>9. (class = "improvement" => over > 0) /\ (class = "regression" => over < 0)
  BY <1>2, <1>5, <1>6, <1>7, <1>8
<1>10. /\ (class = "improvement") = (x.direction = "higher") => v > w
       /\ (class = "improvement") # (x.direction = "higher") => w > v
  BY <1>9
<1>11. QED
  BY <1>4, <1>10

\* No case improves, or regresses, in both directions; one that is invalid or
\* informational is so in both.
LEMMA ClassesReverse ==
    ASSUME NEW x, NEW y, IsCase(x), IsCase(y), x.identity = y.identity, NEW minimum \in Int
    PROVE  LET there == classify_case(matched_benchmark(x, y), minimum)
               back  == classify_case(matched_benchmark(y, x), minimum)
           IN  /\ minimum >= 0 /\ there \in {"improvement", "regression"} => back # there
               /\ there \in {"invalid", "informational"} => back = there
<1> DEFINE there == classify_case(matched_benchmark(x, y), minimum)
           back  == classify_case(matched_benchmark(y, x), minimum)
<1>1. x.direction = y.direction
  BY DEF IsCase
<1>2. minimum >= 0 /\ there \in {"improvement", "regression"} => back # there
  <2>1. SUFFICES ASSUME minimum >= 0, there \in {"improvement", "regression"}, back = there
                 PROVE  FALSE
    OBVIOUS
  <2> DEFINE class == there
  <2>2. /\ class \in {"improvement", "regression"}
        /\ classify_case(matched_benchmark(x, y), minimum) = class
        /\ classify_case(matched_benchmark(y, x), minimum) = class
    BY <2>1
  <2> HIDE DEF class, there, back
  <2>3. PICK v, w \in Int :
          /\ x.value = Some(v) /\ y.value = Some(w)
          /\ (class = "improvement") = (x.direction = "higher") => v > w
          /\ (class = "improvement") # (x.direction = "higher") => w > v
    BY <2>1, <2>2, MovedByClass
  <2>4. PICK p, q \in Int :
          /\ y.value = Some(p) /\ x.value = Some(q)
          /\ (class = "improvement") = (y.direction = "higher") => p > q
          /\ (class = "improvement") # (y.direction = "higher") => q > p
    BY <2>1, <2>2, MovedByClass
  <2>5. p = w /\ q = v
    BY <2>3, <2>4 DEF Some
  <2>6. QED
    BY <1>1, <2>3, <2>4, <2>5
<1>3. there \in {"invalid", "informational"} => back = there
  BY <1>1 DEF classify_case, matched_benchmark
<1>4. QED
  BY <1>2, <1>3

\* As many metrics change in both directions.
LEMMA MetricsReverse ==
    ASSUME NEW x, NEW y, IsCase(x), IsCase(y)
    PROVE  Len(compare_metrics(x, y)) = Len(compare_metrics(y, x))
<1> DEFINE Keys(case) == [i \in DOMAIN case.metrics |-> case.metrics[i].name]
           there == OneToOne(Keys(x), Keys(y))
           back  == OneToOne(Keys(y), Keys(x))
<1>1. x.metrics \in Seq(Range(x.metrics)) /\ y.metrics \in Seq(Range(y.metrics))
  BY DEF IsCase
<1>2. Keys(x) \in Seq(Range(Keys(x))) /\ Keys(y) \in Seq(Range(Keys(y)))
  BY <1>1, ListOverList
<1> HIDE DEF Keys
<1>3. /\ Len(there) = Len(back)
      /\ there \in Seq(Nat \X Nat) /\ back \in Seq(Nat \X Nat)
  BY <1>2, PairsReverse, OneToOnePairs
<1>4. /\ DOMAIN compare_metrics(x, y) = DOMAIN there
      /\ DOMAIN compare_metrics(y, x) = DOMAIN back
  BY DEF compare_metrics, Keys
<1>5. ASSUME NEW pairs \in Seq(Nat \X Nat), NEW changes, DOMAIN changes = DOMAIN pairs
      PROVE  Len(changes) = Len(pairs)
  BY <1>5
<1> HIDE DEF there, back
<1>6. QED
  BY <1>3, <1>4, <1>5

\* Every pair that is matched is matched in the exchanged comparison.
LEMMA MatchedReverse ==
    ASSUME NEW c, NEW b, IsDocument(c), IsDocument(b), NEW minimum \in Int,
           NEW there \in Range(Matched(Normalized(c), Normalized(b)))
    PROVE  \E back \in Range(Matched(Normalized(b), Normalized(c))) :
              /\ there.current = back.baseline /\ there.baseline = back.current
              /\ /\ minimum >= 0
                 /\ classify_case(there, minimum) \in {"improvement", "regression"}
                 => classify_case(back, minimum) # classify_case(there, minimum)
              /\ classify_case(there, minimum) \in {"invalid", "informational"} =>
                    classify_case(back, minimum) = classify_case(there, minimum)
              /\ Len(there.metric_changes) = Len(back.metric_changes)
<1> DEFINE current == Normalized(c)
           baseline == Normalized(b)
           pairs == Pairs(current, baseline)
           backs == Pairs(baseline, current)
<1>1. /\ Range(backs) = Transposed(Range(pairs))
      /\ \A p \in Range(pairs) :
            /\ p[1] \in DOMAIN current.cases /\ p[2] \in DOMAIN baseline.cases
            /\ current.cases[p[1]].identity = baseline.cases[p[2]].identity
  BY PairsOfReports
<1>2. /\ \A i \in DOMAIN current.cases : IsCase(current.cases[i])
      /\ \A i \in DOMAIN baseline.cases : IsCase(baseline.cases[i])
  BY CasesAreCases
<1> HIDE DEF current, baseline
<1>3. /\ DOMAIN Matched(current, baseline) = DOMAIN pairs
      /\ \A n \in DOMAIN pairs : Matched(current, baseline)[n] =
            matched_benchmark(current.cases[pairs[n][1]], baseline.cases[pairs[n][2]])
  BY DEF Matched
<1>4. /\ DOMAIN Matched(baseline, current) = DOMAIN backs
      /\ \A k \in DOMAIN backs : Matched(baseline, current)[k] =
            matched_benchmark(baseline.cases[backs[k][1]], current.cases[backs[k][2]])
  BY DEF Matched
<1> HIDE DEF pairs, backs
<1>5. PICK n \in DOMAIN pairs :
        there = matched_benchmark(current.cases[pairs[n][1]], baseline.cases[pairs[n][2]])
  <2>1. there \in Range(Matched(current, baseline))
    BY DEF current, baseline
  <2>2. PICK n \in DOMAIN Matched(current, baseline) : there = Matched(current, baseline)[n]
    BY <2>1, Zenon DEF Range
  <2>3. QED
    BY <1>3, <2>2
<1> DEFINE p == pairs[n]
           x == current.cases[p[1]]
           y == baseline.cases[p[2]]
<1>6. p \in Range(pairs)
  BY DEF Range
<1>7. IsCase(x) /\ IsCase(y) /\ x.identity = y.identity
  BY <1>1, <1>2, <1>6
<1>8. <<p[2], p[1]>> \in Range(backs)
  BY <1>1, <1>6, Zenon DEF Transposed
<1>9. PICK k \in DOMAIN backs : backs[k] = <<p[2], p[1]>>
  BY <1>8, Zenon DEF Range
<1>10. backs[k][1] = p[2] /\ backs[k][2] = p[1]
  BY <1>9
<1> DEFINE back == matched_benchmark(y, x)
<1>11. Matched(baseline, current)[k] = back
  BY <1>4, <1>10
<1>12. back \in Range(Matched(baseline, current))
  <2> HIDE DEF back
  <2>1. k \in DOMAIN Matched(baseline, current)
    BY <1>4
  <2>2. QED
    BY <1>11, <2>1, Zenon DEF Range
<1>13. there = matched_benchmark(x, y)
  BY <1>5
<1> HIDE DEF x, y, p
<1>14. there.current = back.baseline /\ there.baseline = back.current
  BY <1>13 DEF matched_benchmark
<1>15. there.metric_changes = compare_metrics(x, y) /\ back.metric_changes = compare_metrics(y, x)
  BY <1>13 DEF matched_benchmark
<1> HIDE DEF back
<1>16. Len(there.metric_changes) = Len(back.metric_changes)
  BY <1>7, <1>15, MetricsReverse
<1>17. /\ /\ minimum >= 0
          /\ classify_case(there, minimum) \in {"improvement", "regression"}
          => classify_case(back, minimum) # classify_case(there, minimum)
       /\ classify_case(there, minimum) \in {"invalid", "informational"} =>
             classify_case(back, minimum) = classify_case(there, minimum)
  BY <1>7, <1>13, ClassesReverse DEF back
<1>18. QED
  BY <1>12, <1>14, <1>16, <1>17 DEF current, baseline

\* As many pairs are matched in both directions.
LEMMA MatchedCount ==
    ASSUME NEW c, NEW b, IsDocument(c), IsDocument(b)
    PROVE  Len(Matched(Normalized(c), Normalized(b))) = Len(Matched(Normalized(b), Normalized(c)))
<1> DEFINE current == Normalized(c)
           baseline == Normalized(b)
           pairs == Pairs(current, baseline)
           backs == Pairs(baseline, current)
<1>1. /\ Len(backs) = Len(pairs)
      /\ pairs \in Seq(Nat \X Nat) /\ backs \in Seq(Nat \X Nat)
  BY PairsOfReports
<1> HIDE DEF current, baseline
<1>2. /\ DOMAIN Matched(current, baseline) = DOMAIN pairs
      /\ DOMAIN Matched(baseline, current) = DOMAIN backs
  BY DEF Matched
<1>3. ASSUME NEW list \in Seq(Nat \X Nat), NEW other, DOMAIN other = DOMAIN list
      PROVE  Len(other) = Len(list)
  BY <1>3
<1> HIDE DEF pairs, backs
<1>4. QED
  BY <1>1, <1>2, <1>3 DEF current, baseline

\* compare_reports, one_to_one_pairs and classify_case: exchanging two documents
\* exchanges the outcome of their comparison, and no case improves, or regresses,
\* in both directions.
THEOREM ComparisonReverses == Spec => []ComparisonIsReversible
<1> DEFINE minimum == setup.policy.minimum_change_percent
<1>1. ASSUME CommandInv PROVE ComparisonIsReversible
  <2>1. SUFFICES ASSUME NEW sides \in Sides, \A i \in 1..2 : Parses(sides[i])
                 PROVE
      LET forward  == compare_reports(sides[1], sides[2], setup.options)
          backward == compare_reports(sides[2], sides[1], setup.options)
          Class(matched) == classify_case(matched, setup.policy.minimum_change_percent)
          Names(i)       == [n \in DOMAIN sides[i].results |-> sides[i].results[n].name]
          Swapped(pairs) == {<<pair[2], pair[1]>> : pair \in Range(pairs)}
      IN  /\ (forward.error = NoError) = (backward.error = NoError)
          /\ Range(forward.added) = Range(backward.removed)
          /\ Range(forward.removed) = Range(backward.added)
          /\ Len(forward.matched) = Len(backward.matched)
          /\ \A there \in Range(forward.matched) : \E back \in Range(backward.matched) :
               /\ there.current = back.baseline
               /\ there.baseline = back.current
               /\ ValidPolicy(setup.policy) /\ Class(there) \in {"improvement", "regression"} =>
                    Class(back) # Class(there)
               /\ Class(there) \in {"invalid", "informational"} => Class(back) = Class(there)
               /\ Len(there.metric_changes) = Len(back.metric_changes)
          /\ Swapped(OneToOne(Names(1), Names(2))) = Range(OneToOne(Names(2), Names(1)))
    BY DEF ComparisonIsReversible
  <2> DEFINE c == sides[1]
             b == sides[2]
             forward == compare_reports(c, b, setup.options)
             backward == compare_reports(b, c, setup.options)
             Names(i) == [n \in DOMAIN sides[i].results |-> sides[i].results[n].name]
  <2>2. IsSetup(setup)
    BY <1>1, CommandAssumption DEF CommandInv, CommandTypes, CommandAssumption
  <2>3. IsDocument(c) /\ IsDocument(b) /\ minimum \in Int
    <3>1. c \in Documents(setup.current) /\ b \in Documents(setup.baseline)
      BY DEF Sides
    <3>2. parse_report_document(c) = NoError /\ parse_report_document(b) = NoError
      BY <2>1 DEF Parses
    <3>3. /\ \A document \in Documents(setup.current) :
                parse_report_document(document) = NoError => IsDocument(document)
          /\ \A document \in Documents(setup.baseline) :
                parse_report_document(document) = NoError => IsDocument(document)
          /\ setup.policy.minimum_change_percent \in Int
      BY <2>2 DEF IsSetup
    <3>4. QED
      BY <3>1, <3>2, <3>3
  <2>4. (forward.error = NoError) = (backward.error = NoError)
    BY <2>3, Outcome, SucceedsEitherWay
  <2>5. /\ Range(forward.added) = Range(backward.removed)
        /\ Range(forward.removed) = Range(backward.added)
    <3>1. CASE Succeeds(c, b, setup.options)
      <4>1. Succeeds(b, c, setup.options)
        BY <2>3, <3>1, SucceedsEitherWay
      <4>2. QED
        BY <2>3, <3>1, <4>1, Outcome, AddedIsRemoved
    <3>2. CASE ~Succeeds(c, b, setup.options)
      <4>1. ~Succeeds(b, c, setup.options)
        BY <2>3, <3>2, SucceedsEitherWay
      <4>2. QED
        BY <3>2, <4>1, Outcome
    <3>3. QED
      BY <3>1, <3>2
  <2>6. Len(forward.matched) = Len(backward.matched)
    <3>1. CASE Succeeds(c, b, setup.options)
      <4>1. Succeeds(b, c, setup.options)
        BY <2>3, <3>1, SucceedsEitherWay
      <4>2. QED
        BY <2>3, <3>1, <4>1, Outcome, MatchedCount
    <3>2. CASE ~Succeeds(c, b, setup.options)
      <4>1. ~Succeeds(b, c, setup.options)
        BY <2>3, <3>2, SucceedsEitherWay
      <4>2. QED
        BY <3>2, <4>1, Outcome
    <3>3. QED
      BY <3>1, <3>2
  <2>7. ASSUME NEW there \in Range(forward.matched)
        PROVE  \E back \in Range(backward.matched) :
                 /\ there.current = back.baseline /\ there.baseline = back.current
                 /\ /\ minimum >= 0
                    /\ classify_case(there, minimum) \in {"improvement", "regression"}
                    => classify_case(back, minimum) # classify_case(there, minimum)
                 /\ classify_case(there, minimum) \in {"invalid", "informational"} =>
                       classify_case(back, minimum) = classify_case(there, minimum)
                 /\ Len(there.metric_changes) = Len(back.metric_changes)
    <3>1. Succeeds(c, b, setup.options)
      <4>1. SUFFICES ASSUME ~Succeeds(c, b, setup.options) PROVE FALSE
        OBVIOUS
      <4>2. forward.matched = <<>>
        BY <4>1, Outcome
      <4>3. Range(<<>>) = {}
        BY DEF Range
      <4>4. QED
        BY <2>7, <4>2, <4>3
    <3>2. Succeeds(b, c, setup.options)
      BY <2>3, <3>1, SucceedsEitherWay
    <3>3. /\ forward.matched = Matched(Normalized(c), Normalized(b))
          /\ backward.matched = Matched(Normalized(b), Normalized(c))
      BY <3>1, <3>2, Outcome
    <3> HIDE DEF c, b, forward, backward, minimum
    <3>4. there \in Range(Matched(Normalized(c), Normalized(b)))
      BY <3>3
    <3>5. QED
      BY <2>3, <3>3, <3>4, MatchedReverse
  <2>8. Range(OneToOne(Names(2), Names(1))) = Transposed(Range(OneToOne(Names(1), Names(2))))
    <3>1. c.results \in Seq(Range(c.results)) /\ b.results \in Seq(Range(b.results))
      BY <2>3 DEF IsDocument
    <3>2. Names(1) \in Seq(Range(Names(1))) /\ Names(2) \in Seq(Range(Names(2)))
      BY <3>1, ListOverList
    <3> HIDE DEF Names
    <3>3. QED
      BY <3>2, PairsReverse
  <2>9. ValidPolicy(setup.policy) => minimum >= 0
    BY DEF ValidPolicy
  <2> HIDE DEF forward, backward, Names, minimum
  <2>10. QED
    BY <2>4, <2>5, <2>6, <2>7, <2>8, <2>9
       DEF forward, backward, Names, minimum, Transposed
<1>2. QED
  BY <1>1, CommandInvHolds, PTL
-------------------------------------------------------------------------------
(* The gate: medians by rank *)

\* The k-th smallest value is at the k-th place of the sorted list.
LEMMA RankIsPlace ==
    ASSUME NEW values \in Seq(Int), NEW k \in 1..Len(values)
    PROVE  Ranked(values, k) = Sorted(values)[k]
<1> DEFINE n == Len(values)
           s == Sorted(values)
           Below(v)  == {i \in DOMAIN values : values[i] < v}
           AtMost(v) == {i \in DOMAIN values : values[i] <= v}
           IsRank(v) == Cardinality(Below(v)) < k /\ Cardinality(AtMost(v)) >= k
<1>1. n \in Nat /\ DOMAIN values = 1..n /\ \A i \in 1..n : values[i] \in Int
  OBVIOUS
<1>2. s \in Seq(Int) /\ Len(s) = n /\ Ordered(s)
  BY SortedInOrder
<1>3. PICK p : Arranges(p, n, s, values)
  BY SortedArranges
<1> HIDE DEF n, s
<1>4. k \in 1..n
  BY DEF n
<1>5. /\ DOMAIN s = 1..n /\ \A i \in 1..n : s[i] \in Int
      /\ \A i, j \in 1..n : i <= j => s[i] <= s[j]
  <2>1. DOMAIN s = 1..n /\ \A i \in 1..n : s[i] \in Int
    BY <1>1, <1>2
  <2>2. QED
    BY <1>2, <2>1 DEF Ordered
<1>6. /\ \A i \in 1..n : p[i] \in 1..n /\ s[p[i]] = values[i]
      /\ \A i, j \in 1..n : p[i] = p[j] => i = j
      /\ \A j \in 1..n : \E i \in 1..n : p[i] = j
  BY <1>3 DEF Arranges
<1>7. \A v : /\ IsFiniteSet(Below(v)) /\ IsFiniteSet(AtMost(v))
             /\ Cardinality(Below(v)) \in Nat /\ Cardinality(AtMost(v)) \in Nat
  <2>1. IsFiniteSet(1..n)
    BY <1>1, FS_Interval
  <2>2. \A v : Below(v) \in SUBSET (1..n) /\ AtMost(v) \in SUBSET (1..n)
    BY <1>1
  <2> HIDE DEF Below, AtMost
  <2>3. QED
    BY <2>1, <2>2, FS_Subset, FS_CardinalityType
<1>8. s[k] \in Range(values)
  <2>1. PICK i \in 1..n : p[i] = k
    BY <1>4, <1>6
  <2>2. values[i] = s[k]
    BY <1>6, <2>1
  <2>3. QED
    BY <1>1, <2>2 DEF Range
<1>9. Cardinality(Below(s[k])) < k
  <2> DEFINE g == [i \in Below(s[k]) |-> p[i]]
  <2>1. ASSUME NEW i \in Below(s[k]) PROVE p[i] \in 1..(k - 1)
    <3>1. i \in 1..n /\ s[p[i]] < s[k] /\ p[i] \in 1..n
      BY <1>1, <1>6
    <3>2. ~(k <= p[i])
      BY <1>4, <1>5, <3>1
    <3>3. QED
      BY <1>4, <3>1, <3>2
  <2>2. g \in [Below(s[k]) -> 1..(k - 1)]
    BY <2>1
  <2>3. \A i, j \in Below(s[k]) : g[i] = g[j] => i = j
    BY <1>1, <1>6
  <2> HIDE DEF g
  <2>4. g \in Injection(Below(s[k]), 1..(k - 1))
    BY <2>2, <2>3 DEF Injection, IsInjective
  <2>5. /\ IsFiniteSet(1..(k - 1))
        /\ Cardinality(1..(k - 1)) = k - 1
    <3>1. 1 \in Int /\ k - 1 \in Int /\ (1 > k - 1 => k - 1 = 0) /\ (k - 1) - 1 + 1 = k - 1
      BY <1>4
    <3>2. QED
      BY <3>1, FS_Interval
  <2> HIDE DEF Below
  <2>6. Cardinality(Below(s[k])) <= Cardinality(1..(k - 1))
    BY <2>4, <2>5, FS_Injection
  <2>7. Cardinality(Below(s[k])) \in Nat
    BY <1>7
  <2>8. QED
    BY <1>4, <2>5, <2>6, <2>7
<1>10. Cardinality(AtMost(s[k])) >= k
  <2> DEFINE at(j) == CHOOSE i \in 1..n : p[i] = j
             g == [j \in 1..k |-> at(j)]
  <2>1. ASSUME NEW j \in 1..k PROVE at(j) \in AtMost(s[k]) /\ p[at(j)] = j
    <3>1. j \in 1..n /\ j <= k
      BY <1>1, <1>4
    <3>2. at(j) \in 1..n /\ p[at(j)] = j
      BY <1>6, <3>1
    <3> HIDE DEF at
    <3>3. values[at(j)] = s[j]
      BY <1>6, <3>2
    <3>4. s[j] <= s[k]
      BY <1>4, <1>5, <3>1
    <3>5. QED
      BY <1>1, <3>2, <3>3, <3>4
  <2> HIDE DEF AtMost, at
  <2>2. g \in [1..k -> AtMost(s[k])]
    BY <2>1
  <2>3. \A i, j \in 1..k : g[i] = g[j] => i = j
    BY <2>1
  <2> HIDE DEF g
  <2>4. g \in Injection(1..k, AtMost(s[k]))
    BY <2>2, <2>3 DEF Injection, IsInjective
  <2>5. Cardinality(1..k) <= Cardinality(AtMost(s[k]))
    BY <1>7, <2>4, FS_Injection
  <2>6. Cardinality(1..k) = k
    <3>1. 1 \in Int /\ k \in Int /\ ~(1 > k) /\ k - 1 + 1 = k
      BY <1>4
    <3>2. QED
      BY <3>1, FS_Interval
  <2>7. QED
    BY <2>5, <2>6
<1>11. ASSUME NEW v \in Range(values), NEW w \in Range(values), IsRank(v), IsRank(w), v < w
       PROVE  FALSE
  <2>1. v \in Int /\ w \in Int
    BY <1>1 DEF Range
  <2>2. AtMost(v) \in SUBSET Below(w)
    BY <1>1, <1>11, <2>1
  <2> HIDE DEF AtMost, Below
  <2>3. Cardinality(AtMost(v)) <= Cardinality(Below(w))
    BY <1>7, <2>2, FS_Subset
  <2>4. QED
    BY <1>4, <1>7, <1>11, <2>3
<1>12. \A v \in Range(values) : v \in Int
  BY <1>1 DEF Range
<1>13. Ranked(values, k) = CHOOSE v \in Range(values) : IsRank(v)
  BY DEF Ranked
<1> HIDE DEF Below, AtMost
<1>14. IsRank(s[k])
  BY <1>9, <1>10
<1> HIDE DEF IsRank
<1>15. \A v \in Range(values) : IsRank(v) => v = s[k]
  BY <1>8, <1>11, <1>12, <1>14
<1>16. QED
  BY <1>8, <1>13, <1>14, <1>15 DEF s

\* The median of values is that of the two in the middle.
LEMMA MedianByRank ==
    ASSUME NEW values \in Seq(Int), values # <<>>
    PROVE  Percentile(values, 1, 2) = Ranked(values, (Len(values) + 1) \div 2)
                                        + Ranked(values, Len(values) \div 2 + 1)
<1> DEFINE n == Len(values)
           s == Sorted(values)
           lower == (n - 1) \div 2
           weight == (n - 1) % 2
<1>1. n \in Nat /\ n >= 1
  OBVIOUS
<1>2. s \in Seq(Int) /\ Len(s) = n
  BY SortedInOrder
<1>3. \A k \in 1..n : Ranked(values, k) = s[k]
  BY RankIsPlace
<1> HIDE DEF n, s
<1>4. s # <<>> /\ 1 * (Len(s) - 1) = n - 1 /\ \A i \in 1..n : s[i] \in Int
  BY <1>1, <1>2
<1>5. Percentile(values, 1, 2) = IF weight = 0 THEN s[lower + 1] * 2
                                 ELSE s[lower + 1] * (2 - weight) + s[lower + 2] * weight
  BY <1>4 DEF Percentile, PercentileOfSorted, s
<1>6. /\ (n + 1) \div 2 \in 1..n /\ n \div 2 + 1 \in 1..n
      /\ weight = 0 \/ weight = 1
      /\ lower + 1 = (n + 1) \div 2
      /\ weight = 0 => n \div 2 + 1 = lower + 1
      /\ weight = 1 => n \div 2 + 1 = lower + 2
  BY <1>1
<1> HIDE DEF lower, weight
<1>7. CASE weight = 0
  BY <1>3, <1>4, <1>5, <1>6, <1>7 DEF n
<1>8. CASE weight = 1
  BY <1>3, <1>4, <1>5, <1>6, <1>8 DEF n
<1>9. QED
  BY <1>6, <1>7, <1>8

\* What two results need in order to be judged as their normalised cases are
Judgeable(document, result) ==
    /\ result.median \in Int /\ result.throughput_per_sec \in Int
    /\ result.samples \in Seq(Int)
    /\ result.direction \in {"higher", "lower", "informational"}
    /\ result.validity \in {"valid", "invalid", "unexplained"}
    /\ IsSeries(document) => ValidSeriesResult(result)

\* A case has the value that its result is judged by.
LEMMA JudgedByValue ==
    ASSUME NEW document, NEW result, Judgeable(document, result),
           IsSeries(document) => result.validity = "valid"
    PROVE  LET case == NormalizedCase(document, result)
           IN  \/ case.value = None /\ Judged(document, result) = {}
               \/ \E v \in Int : case.value = Some(v) /\ Judged(document, result) = {v}
<1> DEFINE case == NormalizedCase(document, result)
           n == Len(result.samples)
           middle == Ranked(result.samples, (n + 1) \div 2) + Ranked(result.samples, n \div 2 + 1)
<1>1. case.value = IF IsSeries(document) THEN SeriesValue(result)
                   ELSE NonNegative(NativeValue(result))
  BY DEF NormalizedCase
<1>2. result.samples \in Seq(Int) /\ result.median \in Int /\ result.throughput_per_sec \in Int
  BY DEF Judgeable
<1>3. result.samples # <<>> =>
         Percentile(result.samples, 1, 2) = middle /\ middle \in Int
  BY <1>2, MedianByRank, MedianIsWhole
<1>4. Judged(document, result) =
         IF IsSeries(document) THEN IF result.samples = <<>> THEN {} ELSE {middle}
         ELSE IF result.median > 0 THEN {2 * result.median}
         ELSE IF result.samples = <<>> THEN {2 * result.throughput_per_sec} \intersect Nat
         ELSE {middle} \intersect Nat
  BY DEF Judged
<1> HIDE DEF case, middle
<1>5. CASE IsSeries(document)
  <2>1. IsValid(result.validity) /\ result.samples # <<>>
    BY <1>5 DEF Judgeable, ValidSeriesResult, IsValid
  <2>2. case.value = Some(middle)
    BY <1>1, <1>3, <1>5, <2>1 DEF SeriesValue
  <2>3. QED
    BY <1>3, <1>4, <1>5, <2>1, <2>2 DEF case
<1>6. CASE ~IsSeries(document)
  <2> DEFINE value == NativeValue(result)
  <2>1. case.value = IF value < 0 THEN None ELSE Some(value)
    BY <1>1, <1>6 DEF NonNegative
  <2>2. value \in Int /\ Judged(document, result) = {value} \intersect Nat
    <3>1. CASE result.median > 0
      BY <1>2, <1>4, <1>6, <3>1 DEF NativeValue
    <3>2. CASE ~(result.median > 0) /\ result.samples = <<>>
      BY <1>2, <1>4, <1>6, <3>2 DEF NativeValue
    <3>3. CASE ~(result.median > 0) /\ result.samples # <<>>
      BY <1>2, <1>3, <1>4, <1>6, <3>3 DEF NativeValue
    <3>4. QED
      BY <3>1, <3>2, <3>3
  <2> HIDE DEF value
  <2>3. CASE value < 0
    BY <2>1, <2>2, <2>3 DEF case
  <2>4. CASE ~(value < 0)
    <3>1. value \in Nat /\ {value} \intersect Nat = {value}
      BY <2>2, <2>4
    <3>2. QED
      BY <2>1, <2>2, <2>4, <3>1 DEF case
  <2>5. QED
    BY <2>3, <2>4
<1>7. QED
  BY <1>5, <1>6

\* A case regresses just when its result is worse by more than the threshold.
LEMMA RegressedIsWorse ==
    ASSUME NEW c, NEW b, NEW r, NEW w, Judgeable(c, r), Judgeable(b, w),
           IsSeries(c) = IsSeries(b),
           IsSeries(c) => r.validity = "valid" /\ w.validity = "valid",
           Direction(c, r) # "informational",
           setup.policy.minimum_change_percent \in Int,
           setup.policy.minimum_change_percent >= 0
    PROVE  classify_case(matched_benchmark(NormalizedCase(c, r), NormalizedCase(b, w)),
                         setup.policy.minimum_change_percent) = "regression"
             <=> Worsened(c, r, b, w)
<1> DEFINE x == NormalizedCase(c, r)
           y == NormalizedCase(b, w)
           matched == matched_benchmark(x, y)
           minimum == setup.policy.minimum_change_percent
           change == improvement_percent(x.value, y.value, x.direction)
           lower == IsSeries(c) /\ r.direction = "lower"
<1>1. /\ x.direction = Direction(c, r)
      /\ x.validity = IF IsSeries(c) THEN r.validity ELSE "valid"
      /\ y.validity = IF IsSeries(b) THEN w.validity ELSE "valid"
  BY DEF NormalizedCase
<1>2. \/ x.value = None /\ Judged(c, r) = {}
      \/ \E v \in Int : x.value = Some(v) /\ Judged(c, r) = {v}
  BY JudgedByValue
<1>3. \/ y.value = None /\ Judged(b, w) = {}
      \/ \E v \in Int : y.value = Some(v) /\ Judged(b, w) = {v}
  BY JudgedByValue
<1> HIDE DEF x, y
<1>4. IsValid(x.validity) /\ IsValid(y.validity)
  BY <1>1 DEF IsValid
<1>5. x.direction = "higher" <=> ~lower
  BY <1>1 DEF Direction, Judgeable
<1>6. classify_case(matched, minimum) =
        IF change = None THEN "inconclusive"
        ELSE IF 100 * change[1].over > minimum * change[1].under THEN "improvement"
        ELSE IF 100 * change[1].over < -minimum * change[1].under THEN "regression"
        ELSE "no_material_change"
  <2>1. /\ matched.percent_improvement = change
        /\ matched.current = x /\ matched.baseline = y
    BY DEF matched_benchmark
  <2> HIDE DEF matched, change
  <2>2. QED
    BY <1>1, <1>4, <2>1 DEF classify_case
<1>7. Worsened(c, r, b, w) <=>
         \E now \in Judged(c, r), before \in Judged(b, w) :
            /\ before # 0
            /\ 100 * (IF lower THEN now - before ELSE before - now)
                 > minimum * Distance(before, 0)
  BY DEF Worsened
<1>8. CASE x.value = None \/ y.value = None
  <2>1. change = None
    BY <1>8 DEF improvement_percent
  <2>2. Judged(c, r) = {} \/ Judged(b, w) = {}
    BY <1>2, <1>3, <1>8 DEF None, Some
  <2> HIDE DEF change
  <2>3. QED
    BY <1>6, <1>7, <2>1, <2>2 DEF x, y
<1>9. CASE ~(x.value = None \/ y.value = None)
  <2>1. PICK v \in Int : x.value = Some(v) /\ Judged(c, r) = {v}
    BY <1>2, <1>9
  <2>2. PICK u \in Int : y.value = Some(u) /\ Judged(b, w) = {u}
    BY <1>3, <1>9
  <2>3. x.value[1] = v /\ y.value[1] = u
    BY <2>1, <2>2 DEF Some
  <2>4. change = IF u = 0 THEN None
                 ELSE Some([over  |-> IF x.direction = "higher" THEN v - u ELSE u - v,
                            under |-> Magnitude(u)])
    BY <1>1, <1>9, <2>3 DEF improvement_percent
  <2>5. Worsened(c, r, b, w) <=>
           /\ u # 0
           /\ 100 * (IF lower THEN v - u ELSE u - v) > minimum * Magnitude(u)
    BY <1>7, <2>1, <2>2 DEF Magnitude
  <2>6. CASE u = 0
    <3>1. change = None
      BY <2>4, <2>6
    <3> HIDE DEF change
    <3>2. QED
      BY <1>6, <2>5, <2>6, <3>1 DEF x, y
  <2>7. CASE u # 0
    <3> DEFINE over == IF x.direction = "higher" THEN v - u ELSE u - v
               bound == minimum * Magnitude(u)
    <3>1. change # None /\ change[1].over = over /\ change[1].under = Magnitude(u)
      BY <2>4, <2>7 DEF Some, None
    <3>2. Magnitude(u) \in Nat /\ over \in Int
      BY DEF Magnitude, Distance
    <3>3. bound \in Int /\ bound >= 0 /\ -minimum * Magnitude(u) = -bound
      BY <3>2
    <3> HIDE DEF change
    <3>4. classify_case(matched, minimum) = "regression" <=>
             ~(100 * over > bound) /\ 100 * over < -bound
      BY <1>6, <3>1, <3>3
    <3>5. (IF lower THEN v - u ELSE u - v) = -over
      BY <1>5
    <3>6. Worsened(c, r, b, w) <=> 100 * (-over) > bound
      BY <2>5, <2>7, <3>5
    <3> HIDE DEF over, bound
    <3>7. QED
      BY <3>2, <3>3, <3>4, <3>6 DEF x, y
  <2>8. QED
    BY <2>6, <2>7
<1>10. QED
  BY <1>8, <1>9

\* A matched case blocks just when its results do.
LEMMA BlockingIsBlocked ==
    ASSUME NEW c, NEW b, NEW r, NEW w, Judgeable(c, r), Judgeable(b, w),
           IsSeries(c) = IsSeries(b),
           setup.policy.minimum_change_percent \in Int,
           setup.policy.minimum_change_percent >= 0
    PROVE  LET evaluated == Evaluated(matched_benchmark(NormalizedCase(c, r),
                                                        NormalizedCase(b, w)), setup.policy)
           IN  /\ evaluated.blocking <=> Blocks(c, r, b, w)
               /\ evaluated.classification \in Classes
<1> DEFINE x == NormalizedCase(c, r)
           y == NormalizedCase(b, w)
           matched == matched_benchmark(x, y)
           class == classify_case(matched, setup.policy.minimum_change_percent)
           invalid == "invalid" \in (IF IsSeries(c) THEN {r.validity, w.validity} ELSE {})
           informational == IsSeries(c) /\ r.direction = "informational"
<1>1. /\ x.direction = Direction(c, r)
      /\ x.validity = IF IsSeries(c) THEN r.validity ELSE "valid"
      /\ y.validity = IF IsSeries(b) THEN w.validity ELSE "valid"
  BY DEF NormalizedCase
<1>2. matched.current = x /\ matched.baseline = y
  BY DEF matched_benchmark
<1> HIDE DEF x, y, matched
<1>3. ~(IsValid(x.validity) /\ IsValid(y.validity)) <=> invalid
  BY <1>1 DEF IsValid, Judgeable, ValidSeriesResult, ValidStatus
<1>4. x.direction = "informational" <=> informational
  BY <1>1 DEF Direction
<1>5. class \in Classes /\ (class = "invalid" <=> invalid)
      /\ (class = "regression" => ~invalid /\ ~informational)
  BY <1>2, <1>3, <1>4 DEF classify_case, Classes
<1>6. ~invalid /\ ~informational => (class = "regression" <=> Worsened(c, r, b, w))
  <2> SUFFICES ASSUME ~invalid, ~informational
               PROVE  class = "regression" <=> Worsened(c, r, b, w)
    OBVIOUS
  <2>1. Direction(c, r) # "informational"
    BY <1>1, <1>4
  <2>2. IsSeries(c) => r.validity = "valid" /\ w.validity = "valid"
    BY DEF Judgeable, ValidSeriesResult, ValidStatus
  <2>3. QED
    BY <2>1, <2>2, RegressedIsWorse DEF x, y, matched
<1>7. Blocks(c, r, b, w) <=>
         \/ setup.policy.fail_on_invalid /\ invalid
         \/ /\ setup.policy.fail_on_regression /\ ~invalid /\ ~informational
            /\ Worsened(c, r, b, w)
  BY DEF Blocks
<1>8. /\ Evaluated(matched, setup.policy).blocking <=>
            \/ setup.policy.fail_on_regression /\ class = "regression"
            \/ setup.policy.fail_on_invalid /\ class = "invalid"
      /\ Evaluated(matched, setup.policy).classification = class
  BY DEF Evaluated
<1> HIDE DEF class, invalid, informational
<1>9. QED
  BY <1>5, <1>6, <1>7, <1>8 DEF x, y, matched

-------------------------------------------------------------------------------
(* Counting *)

\* A correspondence between two finite sets keeps the number of what it keeps.
LEMMA CountAcross ==
    ASSUME NEW S, NEW T, IsFiniteSet(S), NEW f \in Bijection(S, T),
           NEW A \in SUBSET S, NEW B \in SUBSET T, \A x \in S : x \in A <=> f[x] \in B
    PROVE  IsFiniteSet(A) /\ IsFiniteSet(B) /\ Cardinality(A) = Cardinality(B)
<1> DEFINE g == [x \in A |-> f[x]]
<1>1. /\ f \in [S -> T] /\ \A x, y \in S : f[x] = f[y] => x = y
      /\ \A t \in T : \E x \in S : f[x] = t
  BY DEF Bijection, Injection, Surjection, IsInjective
<1>2. g \in [A -> B]
  BY <1>1
<1>3. \A x, y \in A : g[x] = g[y] => x = y
  BY <1>1
<1>4. \A t \in B : \E x \in A : g[x] = t
  BY <1>1
<1> HIDE DEF g
<1>5. g \in Bijection(A, B)
  BY <1>2, <1>3, <1>4 DEF Bijection, Injection, Surjection, IsInjective
<1>6. ExistsBijection(A, B)
  BY <1>5 DEF ExistsBijection
<1>7. IsFiniteSet(A)
  BY FS_Subset
<1>8. QED
  BY <1>6, <1>7, FS_Bijection

\* The entries of each of some suites
LEMMA FiniteEntries ==
    ASSUME NEW S, IsFiniteSet(S), NEW D, \A s \in S : IsFiniteSet(D[s])
    PROVE  IsFiniteSet(UNION {{s} \X D[s] : s \in S})
<1> DEFINE E == {{s} \X D[s] : s \in S}
           f == [s \in S |-> {s} \X D[s]]
<1>1. f \in [S -> E] /\ \A e \in E : \E s \in S : f[s] = e
  OBVIOUS
<1> HIDE DEF f
<1>2. f \in Surjection(S, E)
  BY <1>1 DEF Surjection
<1> HIDE DEF E
<1>3. IsFiniteSet(E)
  BY <1>2, FS_Surjection
<1>4. \A e \in E : IsFiniteSet(e)
  <2>1. ASSUME NEW s \in S PROVE IsFiniteSet({s} \X D[s])
    BY FS_Singleton, FS_Product
  <2>2. QED
    BY <2>1 DEF E
<1>5. IsFiniteSet(UNION E)
  BY <1>3, <1>4, FS_UNION
<1>6. QED
  BY <1>5 DEF E

\* What is an entry
LEMMA EntryOf ==
    ASSUME NEW S, NEW D
    PROVE  \A at : at \in UNION {{s} \X D[s] : s \in S} <=>
                     \E s \in S : \E n \in D[s] : at = <<s, n>>
<1>1. ASSUME NEW at, NEW s \in S, at \in {s} \X D[s]
      PROVE  \E t \in S : \E n \in D[t] : at = <<t, n>>
  <2>1. PICK t \in {s}, n \in D[s] : at = <<t, n>>
    BY <1>1
  <2>2. t = s
    BY <2>1
  <2>3. QED
    BY <2>1, <2>2
<1>2. ASSUME NEW s \in S, NEW n \in D[s]
      PROVE  <<s, n>> \in UNION {{t} \X D[t] : t \in S}
  BY <1>2
<1>3. QED
  BY <1>1, <1>2

Across(S, D) == UNION {{s} \X D[s] : s \in S}

\* In each suite some positions are taken, each once, and the rest is left.
Taken(S, N, D, R, place) ==
    /\ \A s \in S : IsFiniteSet(N[s]) /\ IsFiniteSet(D[s])
    /\ \A s \in S : \A n \in N[s] : place[s][n] \in D[s]
    /\ \A s \in S : \A n, m \in N[s] : place[s][n] = place[s][m] => n = m
    /\ \A s \in S : R[s] = D[s] \ {place[s][n] : n \in N[s]}

\* Then there are as many positions as takers and rest together.
LEMMA CountBySuite ==
    ASSUME NEW S, IsFiniteSet(S), NEW N, NEW D, NEW R, NEW place, Taken(S, N, D, R, place)
    PROVE  Cardinality(Across(S, N)) + Cardinality(Across(S, R)) = Cardinality(Across(S, D))
<1> USE DEF Taken
<1> DEFINE takers == UNION {{s} \X N[s] : s \in S}
           rest   == UNION {{s} \X R[s] : s \in S}
           all    == UNION {{s} \X D[s] : s \in S}
           taken  == all \ rest
           to     == [at \in takers |-> <<at[1], place[at[1]][at[2]]>>]
<1>1. IsFiniteSet(takers) /\ IsFiniteSet(all)
  BY FiniteEntries
<1>2. /\ \A at : at \in takers <=> \E s \in S : \E n \in N[s] : at = <<s, n>>
      /\ \A at : at \in rest <=> \E s \in S : \E i \in R[s] : at = <<s, i>>
      /\ \A at : at \in all <=> \E s \in S : \E i \in D[s] : at = <<s, i>>
  BY EntryOf
<1> HIDE DEF takers, rest, all
<1>3. rest \in SUBSET all
  BY <1>2
<1>4. \A s \in S : \A i : <<s, i>> \in taken <=> \E n \in N[s] : i = place[s][n]
  <2>1. \A s \in S : \A i : <<s, i>> \in rest <=> i \in R[s]
    BY <1>2
  <2>2. \A s \in S : \A i : <<s, i>> \in all <=> i \in D[s]
    BY <1>2
  <2>3. ASSUME NEW s \in S, NEW i
        PROVE  <<s, i>> \in taken <=> \E n \in N[s] : i = place[s][n]
    <3>1. <<s, i>> \in taken <=> i \in D[s] /\ i \notin R[s]
      BY <2>1, <2>2
    <3>2. R[s] = D[s] \ {place[s][n] : n \in N[s]}
      OBVIOUS
    <3>3. \A n \in N[s] : place[s][n] \in D[s]
      OBVIOUS
    <3> HIDE DEF taken
    <3>4. QED
      BY <3>1, <3>2, <3>3
  <2>4. QED
    BY <2>3
<1>5. ASSUME NEW at \in taken
      PROVE  \E s \in S : \E n \in N[s] : at = <<s, place[s][n]>>
  <2>1. PICK s \in S : \E i \in D[s] : at = <<s, i>>
    BY <1>2
  <2>2. QED
    BY <1>4, <2>1
<1>6. to \in [takers -> taken]
  <2>1. ASSUME NEW at \in takers PROVE <<at[1], place[at[1]][at[2]]>> \in taken
    <3>1. PICK s \in S : \E n \in N[s] : at = <<s, n>>
      BY <1>2
    <3>2. PICK n \in N[s] : at = <<s, n>>
      BY <3>1
    <3>3. at[1] = s /\ at[2] = n
      BY <3>2
    <3> HIDE DEF taken
    <3>4. <<s, place[s][n]>> \in taken
      BY <1>4
    <3>5. QED
      BY <3>3, <3>4
  <2> HIDE DEF taken
  <2>2. QED
    BY <2>1
<1>7. \A s \in S : \A n \in N[s] : <<s, n>> \in takers /\ to[<<s, n>>] = <<s, place[s][n]>>
  <2>1. \A s \in S : \A n \in N[s] : <<s, n>> \in takers
    BY <1>2
  <2>2. QED
    BY <2>1
<1> HIDE DEF taken, to
<1>8. \A at, was \in takers : to[at] = to[was] => at = was
  <2>1. ASSUME NEW s \in S, NEW n \in N[s], NEW t \in S, NEW m \in N[t],
               <<s, place[s][n]>> = <<t, place[t][m]>>
        PROVE  <<s, n>> = <<t, m>>
    <3>1. s = t /\ place[s][n] = place[t][m]
      BY <2>1
    <3>2. QED
      BY <3>1
  <2>2. QED
    BY <1>2, <1>7, <2>1
<1>9. ASSUME NEW at \in taken PROVE \E was \in takers : to[was] = at
  <2>1. PICK s \in S : \E n \in N[s] : at = <<s, place[s][n]>>
    BY <1>5
  <2>2. PICK n \in N[s] : at = <<s, place[s][n]>>
    BY <2>1
  <2>3. <<s, n>> \in takers /\ to[<<s, n>>] = at
    BY <1>7, <2>2
  <2>4. QED
    BY <2>3
<1>10. to \in Bijection(takers, taken)
  BY <1>6, <1>8, <1>9 DEF Bijection, Injection, Surjection, IsInjective
<1>11. Cardinality(takers) = Cardinality(taken)
  <2>1. ExistsBijection(takers, taken)
    BY <1>10 DEF ExistsBijection
  <2>2. QED
    BY <1>1, <2>1, FS_Bijection
<1>12. IsFiniteSet(rest) /\ Cardinality(taken) = Cardinality(all) - Cardinality(rest)
  <2>1. all \intersect rest = rest
    BY <1>3
  <2>2. Cardinality(all \ rest) = Cardinality(all) - Cardinality(all \intersect rest)
    BY <1>1, FS_Difference
  <2>3. IsFiniteSet(rest)
    BY <1>1, <1>3, FS_Subset
  <2>4. QED
    BY <2>1, <2>2, <2>3 DEF taken
<1>13. Cardinality(rest) \in Nat /\ Cardinality(all) \in Nat
  BY <1>1, <1>12, FS_CardinalityType
<1>14. QED
  BY <1>11, <1>12, <1>13 DEF takers, rest, all, Across

\* What has a value under f, and what has another
With(S, f, v)    == {x \in S : f[x] = v}
Others(S, f, v) == {x \in S : f[x] # v}

\* A finite set is split by a value.
LEMMA SplitByValue ==
    ASSUME NEW S, IsFiniteSet(S), NEW f, NEW v
    PROVE  /\ IsFiniteSet(With(S, f, v)) /\ IsFiniteSet(Others(S, f, v))
           /\ Cardinality(With(S, f, v)) \in Nat /\ Cardinality(Others(S, f, v)) \in Nat
           /\ Cardinality(S) = Cardinality(With(S, f, v)) + Cardinality(Others(S, f, v))
<1> DEFINE with == With(S, f, v)
           without == Others(S, f, v)
<1>1. with \in SUBSET S /\ without = S \ with /\ S \intersect with = with
  BY DEF With, Others
<1> HIDE DEF with, without
<1>2. IsFiniteSet(with) /\ IsFiniteSet(without) /\ Cardinality(S) \in Nat
  BY <1>1, FS_Subset, FS_Difference, FS_CardinalityType
<1>3. Cardinality(with) \in Nat /\ Cardinality(without) \in Nat
  BY <1>2, FS_CardinalityType
<1>4. Cardinality(S \ with) = Cardinality(S) - Cardinality(S \intersect with)
  BY FS_Difference
<1>5. Cardinality(without) = Cardinality(S) - Cardinality(with)
  <2>1. S \ with = without /\ S \intersect with = with
    BY <1>1
  <2>2. QED
    BY <1>4, <2>1
<1>6. Cardinality(S) = Cardinality(with) + Cardinality(without)
  BY <1>2, <1>3, <1>5
<1>7. QED
  BY <1>2, <1>3, <1>6 DEF with, without

\* Every case is in one class.
LEMMA CountByClass ==
    ASSUME NEW S, IsFiniteSet(S), NEW f, \A x \in S : f[x] \in Classes
    PROVE  LET Number(class) == Cardinality(With(S, f, class))
           IN  Cardinality(S) = Number("improvement") + Number("regression")
                                  + Number("no_material_change") + Number("informational")
                                  + Number("invalid") + Number("inconclusive")
<1> DEFINE S1 == Others(S, f, "improvement")
           S2 == Others(S1, f, "regression")
           S3 == Others(S2, f, "no_material_change")
           S4 == Others(S3, f, "informational")
           S5 == Others(S4, f, "invalid")
<1>1. /\ With(S1, f, "regression") = With(S, f, "regression")
      /\ With(S2, f, "no_material_change") = With(S, f, "no_material_change")
      /\ With(S3, f, "informational") = With(S, f, "informational")
      /\ With(S4, f, "invalid") = With(S, f, "invalid")
      /\ S5 = With(S, f, "inconclusive")
  BY DEF Classes, With, Others
<1> HIDE DEF S1, S2, S3, S4, S5
<1>2. /\ IsFiniteSet(S1) /\ Cardinality(With(S, f, "improvement")) \in Nat
      /\ Cardinality(S) = Cardinality(With(S, f, "improvement")) + Cardinality(S1)
  BY SplitByValue DEF S1
<1>3. /\ IsFiniteSet(S2) /\ Cardinality(With(S1, f, "regression")) \in Nat
      /\ Cardinality(S1) = Cardinality(With(S1, f, "regression")) + Cardinality(S2)
  BY <1>2, SplitByValue DEF S2
<1>4. /\ IsFiniteSet(S3) /\ Cardinality(With(S2, f, "no_material_change")) \in Nat
      /\ Cardinality(S2) = Cardinality(With(S2, f, "no_material_change")) + Cardinality(S3)
  BY <1>3, SplitByValue DEF S3
<1>5. /\ IsFiniteSet(S4) /\ Cardinality(With(S3, f, "informational")) \in Nat
      /\ Cardinality(S3) = Cardinality(With(S3, f, "informational")) + Cardinality(S4)
  BY <1>4, SplitByValue DEF S4
<1>6. /\ Cardinality(S5) \in Nat /\ Cardinality(With(S4, f, "invalid")) \in Nat
      /\ Cardinality(S4) = Cardinality(With(S4, f, "invalid")) + Cardinality(S5)
  BY <1>5, SplitByValue DEF S5
<1>7. QED
  BY <1>1, <1>2, <1>3, <1>4, <1>5, <1>6
-------------------------------------------------------------------------------
(* What the documents show, and what is counted *)

\* A comparison that succeeds pairs just the results of one identity.
LEMMA PairsAreEqual ==
    ASSUME NEW c, NEW b, IsDocument(c), IsDocument(b), NEW options, Succeeds(c, b, options)
    PROVE  LET pairs == Pairs(Normalized(c), Normalized(b))
           IN  /\ IsFiniteSet(DOMAIN pairs)
               /\ \A n \in DOMAIN pairs :
                     /\ pairs[n][1] \in DOMAIN c.results /\ pairs[n][2] \in DOMAIN b.results
                     /\ Identity(c, c.results[pairs[n][1]]) = Identity(b, b.results[pairs[n][2]])
               /\ \A n, m \in DOMAIN pairs :
                     pairs[n][1] = pairs[m][1] \/ pairs[n][2] = pairs[m][2] => n = m
               /\ \A i \in DOMAIN c.results, j \in DOMAIN b.results :
                     Identity(c, c.results[i]) = Identity(b, b.results[j]) =>
                        \E n \in DOMAIN pairs : pairs[n][1] = i /\ pairs[n][2] = j
<1> DEFINE keys == Identities(Normalized(c))
           others == Identities(Normalized(b))
           pairs == Pairs(Normalized(c), Normalized(b))
<1>1. /\ DOMAIN Normalized(c).cases = DOMAIN c.results
      /\ DOMAIN Normalized(b).cases = DOMAIN b.results
      /\ Normalized(c).cases \in Seq(Range(Normalized(c).cases))
      /\ Normalized(b).cases \in Seq(Range(Normalized(b).cases))
  BY CasesAreCases
<1>2. /\ keys = [i \in DOMAIN c.results |-> Identity(c, c.results[i])]
      /\ others = [j \in DOMAIN b.results |-> Identity(b, b.results[j])]
  <2>1. /\ \A i \in DOMAIN c.results :
              Normalized(c).cases[i].identity = Identity(c, c.results[i])
        /\ \A j \in DOMAIN b.results :
              Normalized(b).cases[j].identity = Identity(b, b.results[j])
    BY DEF Normalized, NormalizedCase
  <2>2. QED
    BY <1>1, <2>1 DEF Identities
<1>3. keys \in Seq(Range(keys)) /\ others \in Seq(Range(others))
  BY <1>1, ListOverList DEF Identities
<1>4. /\ \A i, j \in DOMAIN keys : keys[i] = keys[j] => i = j
      /\ \A i, j \in DOMAIN others : others[i] = others[j] => i = j
  BY DEF Succeeds, Comparable, Alone, NoDuplicates, IsInjective
<1>5. pairs = OneToOne(keys, others)
  BY DEF Pairs
<1> HIDE DEF keys, others, pairs
<1>6. /\ pairs \in Seq(Nat \X Nat) /\ Pairing(Range(pairs), keys, others)
      /\ \A m, k \in DOMAIN pairs : m < k => pairs[m] # pairs[k]
  <2> DEFINE found == OneToOne(keys, others)
  <2>1. /\ found \in Seq(Nat \X Nat) /\ Pairing(Range(found), keys, others)
        /\ \A m, k \in DOMAIN found : m < k => found[m] # found[k]
    BY <1>3, OneToOnePairs
  <2>2. pairs = found
    BY <1>5
  <2> HIDE DEF found
  <2>3. QED
    BY <2>1, <2>2
<1>7. DOMAIN pairs = 1..Len(pairs) /\ Len(pairs) \in Nat
  BY <1>6
<1>8. IsFiniteSet(DOMAIN pairs)
  BY <1>7, FS_Interval
<1>9. ASSUME NEW n \in DOMAIN pairs
      PROVE  pairs[n] = <<pairs[n][1], pairs[n][2]>> /\ <<pairs[n][1], pairs[n][2]>> \in Range(pairs)
  <2>1. pairs[n] \in Nat \X Nat
    BY <1>6
  <2>2. pairs[n] = <<pairs[n][1], pairs[n][2]>>
    BY <2>1
  <2>3. pairs[n] \in Range(pairs)
    BY Zenon DEF Range
  <2>4. QED
    BY <2>2, <2>3
<1>10. ASSUME NEW n \in DOMAIN pairs
       PROVE  /\ pairs[n][1] \in DOMAIN keys /\ pairs[n][2] \in DOMAIN others
              /\ keys[pairs[n][1]] = others[pairs[n][2]]
  BY <1>6, <1>9 DEF Pairing
<1>11. ASSUME NEW n \in DOMAIN pairs, NEW m \in DOMAIN pairs,
              pairs[n][1] = pairs[m][1] \/ pairs[n][2] = pairs[m][2]
       PROVE  n = m
  <2>1. pairs[n][1] = pairs[m][1] /\ pairs[n][2] = pairs[m][2]
    BY <1>6, <1>9, <1>11 DEF Pairing
  <2>2. pairs[n] = pairs[m]
    BY <1>9, <2>1
  <2>3. n < m \/ m < n \/ n = m
    BY <1>7
  <2>4. QED
    BY <1>6, <2>2, <2>3
<1>12. ASSUME NEW i \in DOMAIN keys, NEW j \in DOMAIN others, keys[i] = others[j]
       PROVE  \E n \in DOMAIN pairs : pairs[n][1] = i /\ pairs[n][2] = j
  <2>1. (\E l : <<i, l>> \in Range(pairs)) \/ (\E k : <<k, j>> \in Range(pairs))
    BY <1>6, <1>12 DEF Pairing
  <2>2. ASSUME NEW k, NEW l, <<k, l>> \in Range(pairs)
        PROVE  \E n \in DOMAIN pairs : pairs[n][1] = k /\ pairs[n][2] = l
    <3>1. PICK n \in DOMAIN pairs : pairs[n] = <<k, l>>
      BY <2>2, Zenon DEF Range
    <3>2. QED
      BY <3>1
  <2>3. CASE \E l : <<i, l>> \in Range(pairs)
    <3>1. PICK l : <<i, l>> \in Range(pairs)
      BY <2>3
    <3>2. PICK n \in DOMAIN pairs : pairs[n][1] = i /\ pairs[n][2] = l
      BY <2>2, <3>1
    <3>3. l = j
      BY <1>4, <1>10, <1>12, <3>2
    <3>4. QED
      BY <3>2, <3>3
  <2>4. CASE \E k : <<k, j>> \in Range(pairs)
    <3>1. PICK k : <<k, j>> \in Range(pairs)
      BY <2>4
    <3>2. PICK n \in DOMAIN pairs : pairs[n][1] = k /\ pairs[n][2] = j
      BY <2>2, <3>1
    <3>3. k = i
      BY <1>4, <1>10, <1>12, <3>2
    <3>4. QED
      BY <3>2, <3>3
  <2>5. QED
    BY <2>1, <2>3, <2>4
<1>13. DOMAIN keys = DOMAIN c.results /\ DOMAIN others = DOMAIN b.results
  BY <1>2
<1>14. /\ \A i \in DOMAIN c.results : keys[i] = Identity(c, c.results[i])
       /\ \A j \in DOMAIN b.results : others[j] = Identity(b, b.results[j])
  BY <1>2
<1>15. QED
  BY <1>8, <1>10, <1>11, <1>12, <1>13, <1>14 DEF pairs

\* The pairs of a suite
PairsOf(suite) ==
    Pairs(Normalized(loaded.current[suite]), Normalized(loaded.baseline[suite]))

\* A comparison that succeeded, from its result to its end
Reported ==
    /\ setup.command = "compare"
    /\ pc \in Writing \union {"printing"} \/ (pc = "over" /\ exit \in {0, 1})

\* The documents are those of the inputs, and parsed.
DocumentsInv ==
    /\ DOMAIN loaded = {"current", "baseline"}
    /\ \A side \in {"current", "baseline"} :
          \A suite \in DOMAIN loaded[side] :
             /\ loaded[side][suite].suite = suite
             /\ loaded[side][suite] \in Documents(setup[side])
             /\ Parses(loaded[side][suite])

\* What the exit status rests on: the policy was checked, no suite was refused,
\* and the status is that of the result.
GateInv ==
    /\ DocumentsInv
    /\ pc = "loading" /\ setup.command = "compare" => ValidPolicy(setup.policy)
    /\ pc \in {"loading_baseline", "comparing"} => ValidPolicy(setup.policy)
    /\ Reported => /\ ValidPolicy(setup.policy)
                   /\ compare_errors = {} /\ analysis = summarize
    /\ Reported /\ pc = "over" => exit = IF analysis.blocking > 0 THEN 1 ELSE 0

\* A side has finitely many suites, and what is in its documents has its type.
LEMMA LoadedDocuments ==
    ASSUME IsSetup(setup), DocumentsInv
    PROVE  /\ IsFiniteSet(Shared)
           /\ \A suite \in Shared : /\ IsDocument(loaded.current[suite])
                                    /\ IsDocument(loaded.baseline[suite])
<1>1. /\ \A document \in Documents(setup.current) : Parses(document) => IsDocument(document)
      /\ \A document \in Documents(setup.baseline) : Parses(document) => IsDocument(document)
  BY DEF IsSetup, Parses
<1>2. \A suite \in Shared : /\ IsDocument(loaded.current[suite])
                            /\ IsDocument(loaded.baseline[suite])
  BY <1>1 DEF Shared, DocumentsInv
<1>3. IsFiniteSet(Documents(setup.current))
  <2> DEFINE input == setup.current
             I == Reports(input)
             f == [i \in I |-> input.entries[i].document]
  <2>1. input.entries \in Seq(Range(input.entries))
    BY DEF IsSetup
  <2>2. I \subseteq 1..Len(input.entries) /\ Len(input.entries) \in Nat
    BY <2>1 DEF Reports
  <2>3. IsFiniteSet(I)
    <3>1. IsFiniteSet(1..Len(input.entries))
      BY <2>2, FS_Interval
    <3> HIDE DEF I
    <3>2. QED
      BY <2>2, <3>1, FS_Subset
  <2>4. Documents(input) = {input.entries[i].document : i \in I}
    BY DEF Documents
  <2>5. f \in Surjection(I, Documents(input))
    <3>1. f \in [I -> Documents(input)]
      BY <2>4
    <3>2. \A d \in Documents(input) : \E i \in I : f[i] = d
      BY <2>4
    <3> HIDE DEF f, I
    <3>3. QED
      BY <3>1, <3>2 DEF Surjection
  <2> HIDE DEF f, I
  <2>6. QED
    BY <2>3, <2>5, FS_Surjection
<1>4. IsFiniteSet(Shared)
  <2> DEFINE T == {d \in Documents(setup.current) :
                     d.suite \in Shared /\ d = loaded.current[d.suite]}
             f == [d \in T |-> d.suite]
  <2>1. IsFiniteSet(T)
    BY <1>3, FS_Subset
  <2>2. \A suite \in Shared : /\ loaded.current[suite] \in Documents(setup.current)
                              /\ loaded.current[suite].suite = suite
    BY DEF Shared, DocumentsInv
  <2>3. f \in [T -> Shared] /\ \A suite \in Shared : \E d \in T : f[d] = suite
    BY <2>2
  <2> HIDE DEF T, f
  <2>4. f \in Surjection(T, Shared)
    BY <2>3 DEF Surjection
  <2>5. QED
    BY <2>1, <2>4, FS_Surjection
<1>5. QED
  BY <1>2, <1>4

\* A document that normalises has results that can be judged.
LEMMA NormalIsJudgeable ==
    ASSUME NEW document, IsDocument(document), Normal(document),
           NEW i \in DOMAIN document.results
    PROVE  Judgeable(document, document.results[i])
<1>1. IsSeries(document) => ValidSeries(document)
  BY EitherSide DEF Normal
<1>2. document.results[i] \in Range(document.results)
  BY DEF Range
<1>3. IsSeries(document) => ValidSeriesResult(document.results[i])
  BY <1>1 DEF ValidSeries
<1>4. QED
  BY <1>2, <1>3 DEF IsDocument, Judgeable

\* What becomes of a suite that is shared, when no suite is refused
LEMMA SharedSuite ==
    ASSUME IsSetup(setup), DocumentsInv, ValidPolicy(setup.policy), compare_errors = {},
           NEW s \in Shared
    PROVE  LET c == loaded.current[s]
               b == loaded.baseline[s]
               pairs == PairsOf(s)
               Now(n) == c.results[pairs[n][1]]
               Was(n) == b.results[pairs[n][2]]
               compared == Compared(s)
           IN  /\ Succeeds(c, b, setup.options)
               /\ DOMAIN compared.matched = DOMAIN pairs
               /\ DOMAIN compared.added = (DOMAIN c.results) \ {pairs[n][1] : n \in DOMAIN pairs}
               /\ DOMAIN compared.removed = (DOMAIN b.results) \ {pairs[n][2] : n \in DOMAIN pairs}
               /\ DOMAIN compared.cases = DOMAIN pairs
               /\ \A n \in DOMAIN pairs :
                     /\ compared.cases[n].blocking <=> Blocks(c, Now(n), b, Was(n))
                     /\ compared.cases[n].classification \in Classes
<1> DEFINE c == loaded.current[s]
           b == loaded.baseline[s]
           pairs == PairsOf(s)
           compared == Compared(s)
           result == compare_reports(c, b, setup.options)
<1>1. IsDocument(c) /\ IsDocument(b)
  BY LoadedDocuments
<1>2. SuiteError(s) = NoError
  BY DEF compare_errors
<1>3. IsSeries(c) = IsSeries(b) /\ result.error = NoError
  BY <1>2, BlameIsError DEF SuiteError
<1>4. Succeeds(c, b, setup.options)
  BY <1>3, Outcome
<1>5. /\ result.matched = Matched(Normalized(c), Normalized(b))
      /\ result.added = Added(Normalized(c), Normalized(b))
      /\ result.removed = Removed(Normalized(c), Normalized(b))
  BY <1>4, Outcome
<1>6. /\ compared.matched = result.matched /\ compared.added = result.added
      /\ compared.removed = result.removed /\ compared.cases = evaluate(result, setup.policy)
  BY DEF Compared
<1>7. /\ DOMAIN Normalized(c).cases = DOMAIN c.results
      /\ DOMAIN Normalized(b).cases = DOMAIN b.results
  BY DEF Normalized
<1>8. pairs = Pairs(Normalized(c), Normalized(b))
  BY DEF PairsOf
<1> HIDE DEF c, b, pairs, compared, result
<1>9. DOMAIN compared.matched = DOMAIN pairs
  BY <1>5, <1>6, <1>8 DEF Matched
<1>10. DOMAIN compared.added = (DOMAIN c.results) \ {pairs[n][1] : n \in DOMAIN pairs}
  BY <1>5, <1>6, <1>7, <1>8 DEF Added, Unpaired
<1>11. DOMAIN compared.removed = (DOMAIN b.results) \ {pairs[n][2] : n \in DOMAIN pairs}
  BY <1>5, <1>6, <1>7, <1>8 DEF Removed, Unpaired
<1>12. DOMAIN compared.cases = DOMAIN pairs
  BY <1>6, <1>9 DEF evaluate
<1>13. ASSUME NEW n \in DOMAIN pairs
       PROVE  /\ compared.cases[n].blocking <=>
                    Blocks(c, c.results[pairs[n][1]], b, b.results[pairs[n][2]])
              /\ compared.cases[n].classification \in Classes
  <2> DEFINE i == pairs[n][1]
             j == pairs[n][2]
             r == c.results[i]
             w == b.results[j]
             x == NormalizedCase(c, r)
             y == NormalizedCase(b, w)
  <2>1. i \in DOMAIN c.results /\ j \in DOMAIN b.results
    BY <1>1, <1>4, <1>8, PairsAreEqual
  <2>2. Judgeable(c, r) /\ Judgeable(b, w)
    BY <1>1, <1>4, <2>1, NormalIsJudgeable DEF Succeeds
  <2>3. Normalized(c).cases[i] = x /\ Normalized(b).cases[j] = y
    BY <2>1 DEF Normalized
  <2>4. compared.matched[n] = matched_benchmark(x, y)
    BY <1>5, <1>6, <1>8, <2>3 DEF Matched
  <2>5. compared.cases[n] = Evaluated(matched_benchmark(x, y), setup.policy)
    BY <1>6, <1>9, <2>4 DEF evaluate
  <2>6. setup.policy.minimum_change_percent \in Int /\ setup.policy.minimum_change_percent >= 0
    BY DEF IsSetup, ValidPolicy
  <2> HIDE DEF i, j, r, w
  <2>7. LET evaluated == Evaluated(matched_benchmark(x, y), setup.policy)
        IN  /\ evaluated.blocking <=> Blocks(c, r, b, w)
            /\ evaluated.classification \in Classes
    BY <1>3, <2>2, <2>6, BlockingIsBlocked
  <2> HIDE DEF x, y
  <2>8. QED
    BY <2>5, <2>7 DEF r, w, i, j
<1>14. QED
  BY <1>4, <1>9, <1>10, <1>11, <1>12, <1>13 DEF c, b, pairs, compared

\* Where a pair of a suite is found in the two inputs
Place(s, n) == <<<<s, PairsOf(s)[n][1]>>, <<s, PairsOf(s)[n][2]>>>>

\* What is matched is what the documents have in common.
LEMMA MatchingIsPaired ==
    ASSUME IsSetup(setup), DocumentsInv, ValidPolicy(setup.policy), compare_errors = {}
    PROVE  \A pair : pair \in Matching <=>
                       \E s \in Shared : \E n \in DOMAIN PairsOf(s) : pair = Place(s, n)
<1>1. /\ \A at : at \in Results("current") <=>
                   \E s \in Shared : \E i \in DOMAIN loaded.current[s].results : at = <<s, i>>
      /\ \A at : at \in Results("baseline") <=>
                   \E s \in Shared : \E j \in DOMAIN loaded.baseline[s].results : at = <<s, j>>
  <2>1. ASSUME NEW side
        PROVE  \A at : at \in Results(side) <=>
                 \E s \in Shared : \E i \in DOMAIN loaded[side][s].results : at = <<s, i>>
    <3> DEFINE D == [s \in Shared |-> DOMAIN loaded[side][s].results]
    <3>1. \A s \in Shared : D[s] = DOMAIN loaded[side][s].results
      OBVIOUS
    <3> HIDE DEF D
    <3>2. Results(side) = UNION {{s} \X D[s] : s \in Shared}
      BY <3>1 DEF Results
    <3>3. \A at : at \in UNION {{s} \X D[s] : s \in Shared} <=>
                    \E s \in Shared : \E i \in D[s] : at = <<s, i>>
      BY EntryOf
    <3>4. QED
      BY <3>1, <3>2, <3>3
  <2>2. QED
    BY <2>1
<1>2. \A s \in Shared :
         LET c == loaded.current[s]
             b == loaded.baseline[s]
             pairs == PairsOf(s)
         IN  /\ \A n \in DOMAIN pairs :
                   /\ pairs[n][1] \in DOMAIN c.results /\ pairs[n][2] \in DOMAIN b.results
                   /\ Identity(c, c.results[pairs[n][1]]) = Identity(b, b.results[pairs[n][2]])
             /\ \A i \in DOMAIN c.results, j \in DOMAIN b.results :
                   Identity(c, c.results[i]) = Identity(b, b.results[j]) =>
                      \E n \in DOMAIN pairs : pairs[n][1] = i /\ pairs[n][2] = j
  <2>1. ASSUME NEW s \in Shared
        PROVE  /\ Succeeds(loaded.current[s], loaded.baseline[s], setup.options)
               /\ IsDocument(loaded.current[s]) /\ IsDocument(loaded.baseline[s])
    BY SharedSuite, LoadedDocuments
  <2>2. QED
    BY <2>1, PairsAreEqual DEF PairsOf
<1>3. ASSUME NEW s \in Shared, NEW n \in DOMAIN PairsOf(s)
      PROVE  Place(s, n) \in Matching
  <2> DEFINE at == <<s, PairsOf(s)[n][1]>>
             was == <<s, PairsOf(s)[n][2]>>
  <2>1. at \in Results("current") /\ was \in Results("baseline")
    BY <1>1, <1>2
  <2>2. SameCase(at, was)
    BY <1>2 DEF SameCase, Result
  <2> HIDE DEF at, was
  <2>3. <<at, was>> \in Matching
    BY <2>1, <2>2 DEF Matching
  <2>4. QED
    BY <2>3 DEF Place, at, was
<1>4. ASSUME NEW pair \in Matching
      PROVE  \E s \in Shared : \E n \in DOMAIN PairsOf(s) : pair = Place(s, n)
  <2>1. PICK at \in Results("current"), was \in Results("baseline") :
            pair = <<at, was>> /\ SameCase(at, was)
    BY DEF Matching
  <2>2. PICK s \in Shared : \E i \in DOMAIN loaded.current[s].results : at = <<s, i>>
    BY <1>1
  <2>3. PICK i \in DOMAIN loaded.current[s].results : at = <<s, i>>
    BY <2>2
  <2>4. PICK t \in Shared : \E j \in DOMAIN loaded.baseline[t].results : was = <<t, j>>
    BY <1>1
  <2>5. PICK j \in DOMAIN loaded.baseline[t].results : was = <<t, j>>
    BY <2>4
  <2>6. s = t /\ Identity(loaded.current[s], loaded.current[s].results[i])
                   = Identity(loaded.baseline[s], loaded.baseline[s].results[j])
    BY <2>1, <2>3, <2>5 DEF SameCase, Result
  <2>7. PICK n \in DOMAIN PairsOf(s) : PairsOf(s)[n][1] = i /\ PairsOf(s)[n][2] = j
    BY <1>2, <2>5, <2>6
  <2>8. pair = Place(s, n)
    BY <2>1, <2>3, <2>5, <2>6, <2>7 DEF Place
  <2>9. QED
    BY <2>8
<1>5. QED
  BY <1>3, <1>4

\* The pairs of all suites, and the entries of a part of the comparisons
PairedAt      == UNION {{s} \X DOMAIN PairsOf(s) : s \in Shared}
PartAt(part)  == UNION {{s} \X DOMAIN Compared(s)[part] : s \in Shared}
CaseAt(at)    == Compared(at[1]).cases[at[2]]
BlockedAt     == {at \in PairedAt : CaseAt(at).blocking}
ClassesAt     == [at \in PairedAt |-> CaseAt(at).classification]

\* Entries are the same when the parts have the same positions.
LEMMA SamePositions ==
    ASSUME NEW S, NEW D, NEW E, \A s \in S : D[s] = E[s]
    PROVE  UNION {{s} \X D[s] : s \in S} = UNION {{s} \X E[s] : s \in S}
OBVIOUS

\* What the summary counts
LEMMA SummaryCounts ==
    ASSUME IsSetup(setup), DocumentsInv, ValidPolicy(setup.policy), compare_errors = {}
    PROVE  /\ summarize.matched = Cardinality(PairedAt)
           /\ summarize.added = Cardinality(PartAt("added"))
           /\ summarize.removed = Cardinality(PartAt("removed"))
           /\ summarize.blocking = Cardinality(BlockedAt)
           /\ \A class \in Classes :
                 summarize.classes[class] = Cardinality(With(PairedAt, ClassesAt, class))
<1> DEFINE compared == [suite \in Shared |-> Compared(suite)]
           Entries(part) == UNION {{suite} \X DOMAIN compared[suite][part] : suite \in Shared}
           Case(at) == compared[at[1]].cases[at[2]]
<1>1. ASSUME NEW part PROVE Entries(part) = PartAt(part)
  <2> DEFINE D == [s \in Shared |-> DOMAIN compared[s][part]]
             E == [s \in Shared |-> DOMAIN Compared(s)[part]]
  <2>1. \A s \in Shared : D[s] = E[s]
    OBVIOUS
  <2>2. /\ \A s \in Shared : D[s] = DOMAIN compared[s][part]
        /\ \A s \in Shared : E[s] = DOMAIN Compared(s)[part]
    OBVIOUS
  <2> HIDE DEF D, E, compared
  <2>3. UNION {{s} \X D[s] : s \in Shared} = UNION {{s} \X E[s] : s \in Shared}
    BY <2>1, SamePositions
  <2>4. Entries(part) = UNION {{s} \X D[s] : s \in Shared}
    BY <2>2
  <2>5. PartAt(part) = UNION {{s} \X E[s] : s \in Shared}
    BY <2>2 DEF PartAt
  <2>6. QED
    BY <2>3, <2>4, <2>5
<1>2. PartAt("matched") = PairedAt /\ PartAt("cases") = PairedAt
  <2> DEFINE D == [s \in Shared |-> DOMAIN Compared(s).matched]
             E == [s \in Shared |-> DOMAIN Compared(s).cases]
             N == [s \in Shared |-> DOMAIN PairsOf(s)]
  <2>1. \A s \in Shared : D[s] = N[s] /\ E[s] = N[s]
    BY SharedSuite
  <2>2. /\ \A s \in Shared : D[s] = DOMAIN Compared(s).matched
        /\ \A s \in Shared : E[s] = DOMAIN Compared(s).cases
        /\ \A s \in Shared : N[s] = DOMAIN PairsOf(s)
    OBVIOUS
  <2> HIDE DEF D, E, N
  <2>3. /\ UNION {{s} \X D[s] : s \in Shared} = UNION {{s} \X N[s] : s \in Shared}
        /\ UNION {{s} \X E[s] : s \in Shared} = UNION {{s} \X N[s] : s \in Shared}
    BY <2>1, SamePositions
  <2>4. /\ PartAt("matched") = UNION {{s} \X D[s] : s \in Shared}
        /\ PartAt("cases") = UNION {{s} \X E[s] : s \in Shared}
        /\ PairedAt = UNION {{s} \X N[s] : s \in Shared}
    BY <2>2 DEF PartAt, PairedAt
  <2>5. QED
    BY <2>3, <2>4
<1>3. \A at \in PairedAt : Case(at) = CaseAt(at)
  <2>1. \A at \in PairedAt : at[1] \in Shared
    BY DEF PairedAt
  <2>2. QED
    BY <2>1 DEF CaseAt
<1>4. /\ summarize.matched = Cardinality(Entries("matched"))
      /\ summarize.added = Cardinality(Entries("added"))
      /\ summarize.removed = Cardinality(Entries("removed"))
      /\ summarize.blocking = Cardinality({at \in Entries("cases") : Case(at).blocking})
      /\ summarize.classes = [class \in Classes |->
            Cardinality({at \in Entries("cases") : Case(at).classification = class})]
  BY DEF summarize
<1> HIDE DEF Case, Entries
<1>5. {at \in Entries("cases") : Case(at).blocking} = BlockedAt
  BY <1>1, <1>2, <1>3 DEF BlockedAt
<1>6. ASSUME NEW class \in Classes
      PROVE  {at \in Entries("cases") : Case(at).classification = class}
                = With(PairedAt, ClassesAt, class)
  BY <1>1, <1>2, <1>3 DEF With, ClassesAt
<1>7. QED
  BY <1>1, <1>2, <1>4, <1>5, <1>6

\* The pairs of all suites, as what matches and what blocks
LEMMA PairsCount ==
    ASSUME IsSetup(setup), DocumentsInv, ValidPolicy(setup.policy), compare_errors = {}
    PROVE  /\ IsFiniteSet(PairedAt) /\ IsFiniteSet(Blocking)
           /\ Cardinality(PairedAt) = Cardinality(Matching)
           /\ Cardinality(BlockedAt) = Cardinality(Blocking)
<1> DEFINE N == [s \in Shared |-> DOMAIN PairsOf(s)]
           f == [at \in PairedAt |-> Place(at[1], at[2])]
<1>1. \A s \in Shared : N[s] = DOMAIN PairsOf(s)
  OBVIOUS
<1> HIDE DEF N
<1>2. PairedAt = UNION {{s} \X N[s] : s \in Shared}
  BY <1>1 DEF PairedAt
<1>3. \A at : at \in PairedAt <=> \E s \in Shared : \E n \in DOMAIN PairsOf(s) : at = <<s, n>>
  BY <1>1, <1>2, EntryOf
<1>4. \A s \in Shared :
         /\ IsFiniteSet(DOMAIN PairsOf(s))
         /\ \A n, m \in DOMAIN PairsOf(s) : PairsOf(s)[n][1] = PairsOf(s)[m][1] => n = m
  <2>1. ASSUME NEW s \in Shared
        PROVE  /\ Succeeds(loaded.current[s], loaded.baseline[s], setup.options)
               /\ IsDocument(loaded.current[s]) /\ IsDocument(loaded.baseline[s])
    BY SharedSuite, LoadedDocuments
  <2>2. QED
    BY <2>1, PairsAreEqual DEF PairsOf
<1>5. IsFiniteSet(PairedAt)
  BY <1>1, <1>2, <1>4, LoadedDocuments, FiniteEntries
<1>6. \A s \in Shared : \A n \in DOMAIN PairsOf(s) :
         <<s, n>> \in PairedAt /\ f[<<s, n>>] = Place(s, n)
  BY <1>3
<1>7. f \in [PairedAt -> Matching]
  <2>1. ASSUME NEW at \in PairedAt PROVE Place(at[1], at[2]) \in Matching
    <3>1. PICK s \in Shared : \E n \in DOMAIN PairsOf(s) : at = <<s, n>>
      BY <1>3
    <3>2. PICK n \in DOMAIN PairsOf(s) : at = <<s, n>>
      BY <3>1
    <3>3. Place(s, n) \in Matching
      BY MatchingIsPaired
    <3>4. QED
      BY <3>2, <3>3
  <2>2. QED
    BY <2>1
<1> HIDE DEF f
<1>8. \A at, was \in PairedAt : f[at] = f[was] => at = was
  <2>1. ASSUME NEW s \in Shared, NEW n \in DOMAIN PairsOf(s),
               NEW t \in Shared, NEW m \in DOMAIN PairsOf(t), Place(s, n) = Place(t, m)
        PROVE  <<s, n>> = <<t, m>>
    <3>1. <<s, PairsOf(s)[n][1]>> = <<t, PairsOf(t)[m][1]>>
      BY <2>1 DEF Place
    <3>2. s = t /\ PairsOf(s)[n][1] = PairsOf(t)[m][1]
      BY <3>1
    <3>3. QED
      BY <1>4, <3>2
  <2>2. QED
    BY <1>3, <1>6, <2>1
<1>9. \A pair \in Matching : \E at \in PairedAt : f[at] = pair
  <2>1. ASSUME NEW pair \in Matching PROVE \E at \in PairedAt : f[at] = pair
    <3>1. PICK s \in Shared : \E n \in DOMAIN PairsOf(s) : pair = Place(s, n)
      BY MatchingIsPaired
    <3>2. PICK n \in DOMAIN PairsOf(s) : pair = Place(s, n)
      BY <3>1
    <3>3. <<s, n>> \in PairedAt /\ f[<<s, n>>] = pair
      BY <1>6, <3>2
    <3>4. QED
      BY <3>3
  <2>2. QED
    BY <2>1
<1>10. f \in Bijection(PairedAt, Matching)
  BY <1>7, <1>8, <1>9 DEF Bijection, Injection, Surjection, IsInjective
<1>11. Cardinality(PairedAt) = Cardinality(Matching)
  <2>1. ExistsBijection(PairedAt, Matching)
    BY <1>10 DEF ExistsBijection
  <2>2. QED
    BY <1>5, <2>1, FS_Bijection
<1>12. \A at \in PairedAt : at \in BlockedAt <=> f[at] \in Blocking
  <2>1. ASSUME NEW s \in Shared, NEW n \in DOMAIN PairsOf(s)
        PROVE  <<s, n>> \in BlockedAt <=> Place(s, n) \in Blocking
    <3> DEFINE c == loaded.current[s]
               b == loaded.baseline[s]
               i == PairsOf(s)[n][1]
               j == PairsOf(s)[n][2]
    <3>1. CaseAt(<<s, n>>).blocking <=> Blocks(c, c.results[i], b, b.results[j])
      BY SharedSuite DEF CaseAt
    <3>2. Place(s, n) \in Matching /\ <<s, n>> \in PairedAt
      BY <1>6, MatchingIsPaired
    <3>3. /\ Place(s, n)[1][1] = s /\ Place(s, n)[2][1] = s
          /\ Result("current", Place(s, n)[1]) = c.results[i]
          /\ Result("baseline", Place(s, n)[2]) = b.results[j]
      BY DEF Place, Result
    <3>4. Place(s, n) \in Blocking <=> Blocks(c, c.results[i], b, b.results[j])
      BY <3>2, <3>3 DEF Blocking
    <3>5. <<s, n>> \in BlockedAt <=> CaseAt(<<s, n>>).blocking
      BY <3>2 DEF BlockedAt
    <3>6. QED
      BY <3>1, <3>4, <3>5
  <2>2. QED
    BY <1>3, <1>6, <2>1
<1>13. IsFiniteSet(Blocking) /\ Cardinality(BlockedAt) = Cardinality(Blocking)
  <2>1. BlockedAt \in SUBSET PairedAt /\ Blocking \in SUBSET Matching
    BY DEF BlockedAt, Blocking
  <2>2. QED
    BY <1>5, <1>10, <1>12, <2>1, CountAcross
<1>14. QED
  BY <1>5, <1>11, <1>13

\* What a side has and the other has not
LEMMA SidesCount ==
    ASSUME IsSetup(setup), DocumentsInv, ValidPolicy(setup.policy), compare_errors = {}
    PROVE  /\ Cardinality(PairedAt) + Cardinality(PartAt("added"))
                = Cardinality(Results("current"))
           /\ Cardinality(PairedAt) + Cardinality(PartAt("removed"))
                = Cardinality(Results("baseline"))
<1>1. IsFiniteSet(Shared)
  BY LoadedDocuments
<1>2. ASSUME NEW s \in Shared
      PROVE  LET c == loaded.current[s]
                 b == loaded.baseline[s]
                 pairs == PairsOf(s)
             IN  /\ IsFiniteSet(DOMAIN pairs)
                 /\ IsFiniteSet(DOMAIN c.results) /\ IsFiniteSet(DOMAIN b.results)
                 /\ \A n \in DOMAIN pairs :
                       pairs[n][1] \in DOMAIN c.results /\ pairs[n][2] \in DOMAIN b.results
                 /\ \A n, m \in DOMAIN pairs :
                       pairs[n][1] = pairs[m][1] \/ pairs[n][2] = pairs[m][2] => n = m
  <2>1. /\ Succeeds(loaded.current[s], loaded.baseline[s], setup.options)
        /\ IsDocument(loaded.current[s]) /\ IsDocument(loaded.baseline[s])
    BY SharedSuite, LoadedDocuments
  <2>2. ASSUME NEW document, IsDocument(document)
        PROVE  IsFiniteSet(DOMAIN document.results)
    <3>1. DOMAIN document.results = 1..Len(document.results) /\ Len(document.results) \in Nat
      BY <2>2 DEF IsDocument
    <3>2. QED
      BY <3>1, FS_Interval
  <2>3. QED
    BY <2>1, <2>2, PairsAreEqual DEF PairsOf
<1> DEFINE N == [s \in Shared |-> DOMAIN PairsOf(s)]
<1>3. \A s \in Shared : N[s] = DOMAIN PairsOf(s)
  OBVIOUS
<1> HIDE DEF N
<1>4. PairedAt = UNION {{s} \X N[s] : s \in Shared}
  BY <1>3 DEF PairedAt
<1>5. Cardinality(PairedAt) + Cardinality(PartAt("added")) = Cardinality(Results("current"))
  <2> DEFINE D == [s \in Shared |-> DOMAIN loaded.current[s].results]
             R == [s \in Shared |-> DOMAIN Compared(s).added]
             place == [s \in Shared |-> [n \in DOMAIN PairsOf(s) |-> PairsOf(s)[n][1]]]
  <2>1. /\ \A s \in Shared : D[s] = DOMAIN loaded.current[s].results
        /\ \A s \in Shared : R[s] = DOMAIN Compared(s).added
        /\ \A s \in Shared : \A n \in N[s] : place[s][n] = PairsOf(s)[n][1]
    BY <1>3
  <2> HIDE DEF D, R, place
  <2>2. \A s \in Shared : R[s] = D[s] \ {place[s][n] : n \in N[s]}
    <3>1. \A s \in Shared : DOMAIN Compared(s).added =
             (DOMAIN loaded.current[s].results) \ {PairsOf(s)[n][1] : n \in DOMAIN PairsOf(s)}
      BY SharedSuite
    <3>2. \A s \in Shared : {place[s][n] : n \in N[s]}
                              = {PairsOf(s)[n][1] : n \in DOMAIN PairsOf(s)}
      BY <1>3, <2>1
    <3>3. QED
      BY <2>1, <3>1, <3>2
  <2>3. /\ \A s \in Shared : IsFiniteSet(N[s]) /\ IsFiniteSet(D[s])
        /\ \A s \in Shared : \A n \in N[s] : place[s][n] \in D[s]
        /\ \A s \in Shared : \A n, m \in N[s] : place[s][n] = place[s][m] => n = m
    BY <1>2, <1>3, <2>1
  <2>4. /\ PartAt("added") = UNION {{s} \X R[s] : s \in Shared}
        /\ Results("current") = UNION {{s} \X D[s] : s \in Shared}
    BY <2>1 DEF PartAt, Results
  <2>5. Cardinality(Across(Shared, N)) + Cardinality(Across(Shared, R))
          = Cardinality(Across(Shared, D))
    <3>1. Taken(Shared, N, D, R, place)
      BY <2>2, <2>3 DEF Taken
    <3>2. QED
      BY <1>1, <3>1, CountBySuite
  <2>6. QED
    BY <1>4, <2>4, <2>5 DEF Across
<1>6. Cardinality(PairedAt) + Cardinality(PartAt("removed")) = Cardinality(Results("baseline"))
  <2> DEFINE D == [s \in Shared |-> DOMAIN loaded.baseline[s].results]
             R == [s \in Shared |-> DOMAIN Compared(s).removed]
             place == [s \in Shared |-> [n \in DOMAIN PairsOf(s) |-> PairsOf(s)[n][2]]]
  <2>1. /\ \A s \in Shared : D[s] = DOMAIN loaded.baseline[s].results
        /\ \A s \in Shared : R[s] = DOMAIN Compared(s).removed
        /\ \A s \in Shared : \A n \in N[s] : place[s][n] = PairsOf(s)[n][2]
    BY <1>3
  <2> HIDE DEF D, R, place
  <2>2. \A s \in Shared : R[s] = D[s] \ {place[s][n] : n \in N[s]}
    <3>1. \A s \in Shared : DOMAIN Compared(s).removed =
             (DOMAIN loaded.baseline[s].results) \ {PairsOf(s)[n][2] : n \in DOMAIN PairsOf(s)}
      BY SharedSuite
    <3>2. \A s \in Shared : {place[s][n] : n \in N[s]}
                              = {PairsOf(s)[n][2] : n \in DOMAIN PairsOf(s)}
      BY <1>3, <2>1
    <3>3. QED
      BY <2>1, <3>1, <3>2
  <2>3. /\ \A s \in Shared : IsFiniteSet(N[s]) /\ IsFiniteSet(D[s])
        /\ \A s \in Shared : \A n \in N[s] : place[s][n] \in D[s]
        /\ \A s \in Shared : \A n, m \in N[s] : place[s][n] = place[s][m] => n = m
    BY <1>2, <1>3, <2>1
  <2>4. /\ PartAt("removed") = UNION {{s} \X R[s] : s \in Shared}
        /\ Results("baseline") = UNION {{s} \X D[s] : s \in Shared}
    BY <2>1 DEF PartAt, Results
  <2>5. Cardinality(Across(Shared, N)) + Cardinality(Across(Shared, R))
          = Cardinality(Across(Shared, D))
    <3>1. Taken(Shared, N, D, R, place)
      BY <2>2, <2>3 DEF Taken
    <3>2. QED
      BY <1>1, <3>1, CountBySuite
  <2>6. QED
    BY <1>4, <2>4, <2>5 DEF Across
<1>7. QED
  BY <1>5, <1>6

\* Every matched case is in one class.
LEMMA ClassesCount ==
    ASSUME IsSetup(setup), DocumentsInv, ValidPolicy(setup.policy), compare_errors = {}
    PROVE  LET Number(class) == Cardinality(With(PairedAt, ClassesAt, class))
           IN  Cardinality(PairedAt) = Number("improvement") + Number("regression")
                                         + Number("no_material_change") + Number("informational")
                                         + Number("invalid") + Number("inconclusive")
<1>1. \A at \in PairedAt : ClassesAt[at] \in Classes
  <2>1. \A at \in PairedAt : CaseAt(at).classification \in Classes
    <3>1. ASSUME NEW s \in Shared, NEW n \in DOMAIN PairsOf(s)
          PROVE  CaseAt(<<s, n>>).classification \in Classes
      BY SharedSuite DEF CaseAt
    <3>2. QED
      BY <3>1 DEF PairedAt
  <2>2. QED
    BY <2>1 DEF ClassesAt
<1>2. IsFiniteSet(PairedAt)
  BY PairsCount
<1>3. QED
  BY <1>1, <1>2, CountByClass

\* A result of which the exit status tells what the documents show
LEMMA ResultReflects ==
    ASSUME IsSetup(setup), GateInv, Reported, pc = "over"
    PROVE  GateReflectsEvidence
<1>1. /\ DocumentsInv /\ ValidPolicy(setup.policy) /\ compare_errors = {}
      /\ analysis = summarize /\ exit = IF analysis.blocking > 0 THEN 1 ELSE 0
  BY DEF GateInv
<1> DEFINE Number(class) == Cardinality(With(PairedAt, ClassesAt, class))
<1>2. /\ analysis.matched = Cardinality(PairedAt)
      /\ analysis.added = Cardinality(PartAt("added"))
      /\ analysis.removed = Cardinality(PartAt("removed"))
      /\ analysis.blocking = Cardinality(BlockedAt)
      /\ \A class \in Classes : analysis.classes[class] = Number(class)
  BY <1>1, SummaryCounts
<1>3. /\ IsFiniteSet(Blocking)
      /\ Cardinality(PairedAt) = Cardinality(Matching)
      /\ Cardinality(BlockedAt) = Cardinality(Blocking)
  BY <1>1, PairsCount
<1>4. /\ Cardinality(PairedAt) + Cardinality(PartAt("added")) = Cardinality(Results("current"))
      /\ Cardinality(PairedAt) + Cardinality(PartAt("removed"))
           = Cardinality(Results("baseline"))
  BY <1>1, SidesCount
<1>5. Cardinality(PairedAt) = Number("improvement") + Number("regression")
                                + Number("no_material_change") + Number("informational")
                                + Number("invalid") + Number("inconclusive")
  BY <1>1, ClassesCount
<1>6. exit = 1 <=> Blocking # {}
  <2>1. Cardinality(Blocking) \in Nat /\ (Cardinality(Blocking) = 0 <=> Blocking = {})
    BY <1>3, FS_CardinalityType, FS_EmptySet
  <2>2. QED
    BY <1>1, <1>2, <1>3, <2>1
<1> HIDE DEF Number
<1>7. LET number == analysis.classes
      IN  analysis.matched = number["improvement"] + number["regression"]
                               + number["no_material_change"] + number["informational"]
                               + number["invalid"] + number["inconclusive"]
  <2>1. {"improvement", "regression", "no_material_change", "informational", "invalid",
         "inconclusive"} = Classes
    BY DEF Classes
  <2>2. QED
    BY <1>2, <1>5, <2>1
<1>8. QED
  BY <1>2, <1>3, <1>4, <1>6, <1>7 DEF GateReflectsEvidence

\* The comparison is that of the documents that are loaded.
LEMMA ComparisonStays ==
    ASSUME UNCHANGED <<setup, loaded>>
    PROVE  compare_errors' = compare_errors /\ summarize' = summarize
<1>1. compare_errors' = compare_errors
  BY DEF compare_errors, Shared, SuiteError
<1>2. summarize' = summarize
  BY DEF summarize, Shared, Compared
<1>3. QED
  BY <1>1, <1>2

\* A result stays what it is as long as the setup and the documents do.
LEMMA ResultStays ==
    ASSUME GateInv, Reported, UNCHANGED <<setup, loaded, analysis>>
    PROVE  /\ DocumentsInv' /\ ValidPolicy(setup.policy)'
           /\ (compare_errors = {})' /\ (analysis = summarize)'
<1>1. compare_errors' = compare_errors /\ summarize' = summarize
  BY ComparisonStays
<1>2. QED
  BY <1>1 DEF GateInv, DocumentsInv

\* Every step preserves it.
LEMMA StepKeepsGate ==
    ASSUME CommandAssumption, CommandInv, GateInv, [Next]_vars
    PROVE  GateInv'
<1>1. setup \in Setups /\ IsSetup(setup)
  BY DEF CommandInv, CommandTypes, CommandAssumption
<1>2. ASSUME UNCHANGED <<setup, loaded>> PROVE DocumentsInv'
  BY <1>2 DEF GateInv, DocumentsInv
<1>3. CASE CheckArguments
  <2>1. /\ pc = "start" /\ UNCHANGED <<setup, loaded>>
        /\ pc' = "loading" \/ (pc' = "over" /\ exit' = 2)
    BY <1>3 DEF CheckArguments, Goto, Fail
  <2>2. pc' = "loading" /\ setup.command = "compare" => ValidPolicy(setup.policy)
    <3> DEFINE override == setup.options.environment_override
               checks == <<Check(~Conflicting, Between("ConflictingOutputs")),
                           Check(override.given => override.reason # Blank,
                                 Between("InvalidEnvironmentOverride")),
                           Check(ValidPolicy(setup.policy), Between("Policy"))>>
    <3>1. pc' = "loading" /\ setup.command = "compare" => FirstError(checks) = NoError
      BY <1>3 DEF CheckArguments, Fail
    <3>2. DOMAIN checks = 1..3
      OBVIOUS
    <3>3. /\ checks[1].error = Between("ConflictingOutputs")
          /\ checks[2].error = Between("InvalidEnvironmentOverride")
          /\ checks[3].error = Between("Policy")
          /\ checks[3].passes = ValidPolicy(setup.policy)
      BY DEF Check
    <3> HIDE DEF checks
    <3>4. \A i : i \in 1..3 <=> i = 1 \/ i = 2 \/ i = 3
      OBVIOUS
    <3>5. \A i \in 1..3 : ~checks[i].passes => checks[i].error # NoError
      BY <3>3, <3>4, BlameIsError
    <3>6. FirstError(checks) = NoError => \A i \in 1..3 : checks[i].passes
      BY <3>2, <3>5, AllPass
    <3>7. QED
      BY <3>1, <3>3, <3>4, <3>6
  <2>3. ~Reported'
    BY <2>1 DEF Reported, Writing
  <2>4. QED
    BY <1>2, <2>1, <2>2, <2>3 DEF GateInv
<1>4. CASE LoadCurrent
  <2>1. /\ pc = "loading" /\ UNCHANGED setup /\ loaded'.baseline = loaded.baseline
        /\ DOMAIN loaded' = {"current", "baseline"}
        /\ \/ pc' = "loading_baseline" /\ setup.command # "validate"
           \/ pc' = "printing" /\ setup.command = "validate"
           \/ pc' = "over" /\ exit' = 2
        /\ \/ UNCHANGED loaded
           \/ /\ LoadError(setup.current) = NoError
              /\ loaded'.current = load_report_input(setup.current)
    BY <1>4 DEF LoadCurrent, Goto, Fail, CommandInv, LoadedInv
  <2>2. setup.command \in {"compare", "validate"}
    BY <1>1 DEF IsSetup
  <2>3. DocumentsInv'
    <3>1. CASE UNCHANGED loaded
      BY <1>2, <2>1, <3>1
    <3>2. CASE /\ LoadError(setup.current) = NoError
               /\ loaded'.current = load_report_input(setup.current)
      <4>1. setup.current.entries \in Seq(Range(setup.current.entries))
        BY <1>1 DEF IsSetup
      <4>2. ASSUME NEW suite \in DOMAIN load_report_input(setup.current)
            PROVE  LET document == load_report_input(setup.current)[suite]
                   IN  /\ document.suite = suite /\ document \in Documents(setup.current)
                       /\ Parses(document)
        BY <3>2, <4>1, DocumentsBySuite, StoredDocuments, LoadedInput
      <4>3. QED
        BY <2>1, <3>2, <4>2 DEF GateInv, DocumentsInv
    <3>3. QED
      BY <2>1, <3>1, <3>2
  <2>4. ~Reported'
    BY <2>1 DEF Reported, Writing
  <2>5. QED
    BY <2>1, <2>2, <2>3, <2>4 DEF GateInv
<1>5. CASE LoadBaseline
  <2>1. /\ pc = "loading_baseline" /\ UNCHANGED setup /\ loaded'.current = loaded.current
        /\ DOMAIN loaded' = {"current", "baseline"}
        /\ pc' = "comparing" \/ (pc' = "over" /\ exit' = 2)
        /\ \/ UNCHANGED loaded
           \/ /\ LoadError(setup.baseline) = NoError
              /\ loaded'.baseline = load_report_input(setup.baseline)
    BY <1>5 DEF LoadBaseline, Goto, Fail, CommandInv, LoadedInv
  <2>2. DocumentsInv'
    <3>1. CASE UNCHANGED loaded
      BY <1>2, <2>1, <3>1
    <3>2. CASE /\ LoadError(setup.baseline) = NoError
               /\ loaded'.baseline = load_report_input(setup.baseline)
      <4>1. setup.baseline.entries \in Seq(Range(setup.baseline.entries))
        BY <1>1 DEF IsSetup
      <4>2. ASSUME NEW suite \in DOMAIN load_report_input(setup.baseline)
            PROVE  LET document == load_report_input(setup.baseline)[suite]
                   IN  /\ document.suite = suite /\ document \in Documents(setup.baseline)
                       /\ Parses(document)
        BY <3>2, <4>1, DocumentsBySuite, StoredDocuments, LoadedInput
      <4>3. QED
        BY <2>1, <3>2, <4>2 DEF GateInv, DocumentsInv
    <3>3. QED
      BY <2>1, <3>1, <3>2
  <2>3. ~Reported'
    BY <2>1 DEF Reported, Writing
  <2>4. QED
    BY <2>1, <2>2, <2>3 DEF GateInv
<1>6. CASE CompareSuites
  <2>1. /\ pc = "comparing" /\ compare_errors = {} /\ analysis' = summarize
        /\ UNCHANGED <<setup, loaded>>
        /\ pc' \in {"directories", "printing"}
    BY <1>6 DEF CompareSuites, AfterJson, BeginOutput, Goto
  <2>2. compare_errors' = compare_errors /\ summarize' = summarize
    BY <2>1, ComparisonStays
  <2>3. ~(Reported' /\ pc' = "over")
    BY <2>1
  <2>4. QED
    BY <1>2, <2>1, <2>2, <2>3 DEF GateInv
<1>7. CASE CompareFails \/ Kill
  <2>1. /\ UNCHANGED <<setup, loaded>>
        /\ (pc' = "over" /\ exit' = 2) \/ pc' = "killed"
    BY <1>7 DEF CompareFails, Kill, Fail, Goto
  <2>2. ~Reported'
    BY <2>1 DEF Reported, Writing
  <2>3. QED
    BY <1>2, <2>1, <2>2 DEF GateInv
<1>8. CASE CreateDirectories \/ OpenTemporary \/ WriteAndSync \/ Rename \/ RemoveTemporary
  <2>1. /\ UNCHANGED <<setup, loaded, analysis>> /\ pc \in Writing
        /\ pc' \in Writing \union {"printing"} \/ (pc' = "over" /\ exit' = 2)
    <3>1. CASE CreateDirectories \/ OpenTemporary
      BY <3>1 DEF CreateDirectories, OpenTemporary, Goto, Fail, Writing
    <3>2. CASE WriteAndSync \/ RemoveTemporary
      BY <3>2 DEF WriteAndSync, RemoveTemporary, Goto, Fail, Writing
    <3>3. CASE Rename
      BY <3>3 DEF Rename, AfterJson, BeginOutput, Goto, Writing
    <3>4. QED
      BY <1>8, <3>1, <3>2, <3>3
  <2>2. Reported' => Reported
    BY <2>1 DEF Reported
  <2>3. /\ ~(pc' \in {"loading", "loading_baseline", "comparing"})
        /\ ~(Reported' /\ pc' = "over")
    BY <2>1 DEF Writing, Reported
  <2>4. QED
    BY <1>2, <2>1, <2>2, <2>3, ResultStays DEF GateInv
<1>9. CASE PrintResult
  <2>1. /\ UNCHANGED <<setup, loaded, analysis>> /\ pc = "printing" /\ pc' = "over"
        /\ exit' = (IF analysis.blocking > 0 THEN 1 ELSE 0) \/ exit' = 2
    BY <1>9 DEF PrintResult, Finish, Fail
  <2>2. Reported' => Reported
    BY <2>1 DEF Reported
  <2>3. Reported' => exit' = IF analysis'.blocking > 0 THEN 1 ELSE 0
    BY <2>1 DEF Reported, Writing
  <2>4. QED
    BY <1>2, <2>1, <2>2, <2>3, ResultStays DEF GateInv
<1>10. CASE UNCHANGED vars
  <2>1. UNCHANGED <<setup, pc, loaded, analysis, exit>>
    BY <1>10 DEF vars
  <2>2. Reported' = Reported
    BY <2>1 DEF Reported
  <2>3. QED
    BY <1>2, <2>1, <2>2, ResultStays DEF GateInv
<1>11. QED
  BY <1>3, <1>4, <1>5, <1>6, <1>7, <1>8, <1>9, <1>10 DEF Next, Terminating

\* The gate: a comparison that ends normally fails just when, in the documents, a
\* case that both sides have is invalid, or worse by more than the threshold, and
\* the policy says so, and its summary counts every case of every shared suite
\* once. For every pair of inputs, every policy and every fault.
THEOREM GateIsEvidence == Spec => []GateReflectsEvidence
<1>1. Init => GateInv
  BY DEF Init, GateInv, DocumentsInv, Reported, Writing
<1>2. CommandInv /\ GateInv /\ [Next]_vars => GateInv'
  BY CommandAssumption, StepKeepsGate
<1>3. CommandInv /\ GateInv => GateReflectsEvidence
  <2> SUFFICES ASSUME CommandInv, GateInv PROVE GateReflectsEvidence
    OBVIOUS
  <2>1. IsSetup(setup)
    BY CommandAssumption DEF CommandInv, CommandTypes, CommandAssumption
  <2>2. CASE Reported /\ pc = "over"
    BY <2>1, <2>2, ResultReflects
  <2>3. CASE ~(Reported /\ pc = "over")
    BY <2>3 DEF Reported, GateReflectsEvidence
  <2>4. QED
    BY <2>2, <2>3
<1>4. QED
  BY <1>1, <1>2, <1>3, CommandInvHolds, PTL DEF Spec
===============================================================================
