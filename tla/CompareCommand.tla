---------------------------- MODULE CompareCommand ----------------------------
(***************************************************************************)
(* The command-line tool (micromeasure-cli/src/main.rs) around the suite   *)
(* comparison (src/suite.rs): it loads two inputs, each a report or a      *)
(* directory of reports, compares the suites they share, writes a JSON     *)
(* and a Markdown artefact atomically, prints, and exits with              *)
(*   0  success,  1  the regression gate failed,  2  an error.             *)
(* `validate` loads one input and prints.                                  *)
(*                                                                         *)
(* Anything that touches a file may fail, and the process may be killed.   *)
(* Suites are visited in the order of their names; here, of several that   *)
(* fail, any one may be reported.                                          *)
(***************************************************************************)
EXTENDS Comparison

CONSTANTS
    Targets,        \* the files that an output path may resolve to
    MaxAttempts,    \* names tried for a temporary file; 100 in the code
    Setups          \* what is asked of the command, and what may go wrong

------------------------------------------------------------------------------
(* Inputs                                                                  *)

(* A file is read whatever its name; of a directory, the JSON files        *)
(* beneath it.  Symbolic links are not followed.                           *)
Reports(input) ==
  {i \in DOMAIN input.entries :
     input.kind = "file" \/ input.entries[i].kind \in {"json", "locked"}}

DocumentError(entry) ==
  LET document == entry.document
  IN  FirstError(<<Check(entry.kind # "locked", Between("Io")),
                   Check(parse_report_document(document) = NoError,
                         parse_report_document(document)),
                   Check(validate_for_comparison(document) = NoError,
                         Between("InvalidDocument"))>>)

(* The error of the first report that does not load.                       *)
ReportError(input) ==
  LET rejected == {i \in Reports(input) : DocumentError(input.entries[i]) # NoError}
  IN  IF rejected = {} THEN NoError ELSE DocumentError(input.entries[Min(rejected)])

SuitesDiffer(input) ==
  \A i, j \in Reports(input) :
    i # j => input.entries[i].document.suite # input.entries[j].document.suite

LoadError(input) ==
  FirstError(
    <<Check(input.kind # "missing", Between("InputIo")),
      Check(input.kind # "other", Between("UnsupportedInput")),
      Check(\A i \in DOMAIN input.entries : input.entries[i].kind # "unreadable",
            Between("InputIo")),
      Check(Reports(input) # {}, Between("NoReports")),
      Check(ReportError(input) = NoError, ReportError(input)),
      Check(SuitesDiffer(input), Between("DuplicateSuite"))>>)

Documents(input) == {input.entries[i].document : i \in Reports(input)}

load_report_input(input) ==
  [suite \in {document.suite : document \in Documents(input)} |->
     CHOOSE document \in Documents(input) : document.suite = suite]

------------------------------------------------------------------------------
(* What the command is given                                               *)

Outputs  == {"json", "markdown"}
Attempts == 0..(MaxAttempts - 1)

Destination == [spelling : STRING, target : Targets, nameable : BOOLEAN]

IsSetup(s) ==
  /\ s.command \in {"compare", "validate"}
  /\ \A input \in {s.current, s.baseline} :
       /\ input.kind \in {"file", "directory", "missing", "other"}
       /\ input.entries \in Seq(Range(input.entries))
       /\ input.kind = "file" => Len(input.entries) = 1
       /\ \A i \in DOMAIN input.entries :
            input.entries[i].kind \in {"json", "locked", "text", "link", "unreadable"}
       /\ \A document \in Documents(input) :
            parse_report_document(document) = NoError => IsDocument(document)
  /\ \A which \in Outputs : s.output[which] \in Seq(Destination) /\ Len(s.output[which]) <= 1
  /\ s.policy.minimum_change_percent \in Int
  /\ s.faults \subseteq {"directories", "open", "write", "rename", "remove", "stdout", "kill"}
  /\ s.stale \subseteq Targets \X Attempts

ASSUME CommandAssumption ==
  /\ MaxAttempts \in Nat \ {0}
  /\ \A s \in Setups : IsSetup(s)

VARIABLES
    setup,      \* the arguments, the inputs, and the faults
    pc,         \* the position of the process
    loaded,     \* the documents of each side, by suite
    analysis,   \* the combined result
    output,     \* the artefact being written
    attempt,    \* the temporary name being tried
    files,      \* what is at each target
    temps,      \* the temporary files that exist
    error,      \* why the command failed
    exit        \* the exit status; -1 before there is one

vars == <<setup, pc, loaded, analysis, output, attempt, files, temps, error, exit>>
outputVars == <<output, attempt, files, temps>>

------------------------------------------------------------------------------
(* Comparison of the suites                                                *)

Shared == DOMAIN loaded.current \intersect DOMAIN loaded.baseline

SuiteError(suite) ==
  LET current  == loaded.current[suite]
      baseline == loaded.baseline[suite]
  IN  IF IsSeries(current) # IsSeries(baseline) THEN Between("DocumentTypeMismatch")
      ELSE compare_reports(current, baseline, setup.options).error

(* The errors one of which the comparison ends with; none if it succeeds.  *)
compare_errors ==
  LET sameSuites == DOMAIN loaded.current = DOMAIN loaded.baseline
  IN  IF setup.current.kind = "file" /\ setup.baseline.kind = "file" /\ ~sameSuites
      THEN {Between("SuiteMismatch")}
      ELSE IF setup.options.require_same_suite_set /\ ~sameSuites
      THEN {Between("SuiteSetMismatch")}
      ELSE {SuiteError(suite) : suite \in Shared} \ {NoError}

Compared(suite) ==
  LET comparison == compare_reports(loaded.current[suite], loaded.baseline[suite], setup.options)
  IN  [matched |-> comparison.matched, added |-> comparison.added,
       removed |-> comparison.removed, cases |-> evaluate(comparison, setup.policy)]

NoAnalysis == [matched_suites |-> {}, added_suites |-> {}, removed_suites |-> {},
               matched |-> 0, added |-> 0, removed |-> 0, classes |-> <<>>,
               unstable |-> 0, blocking |-> 0]

Classes == {"improvement", "regression", "no_material_change", "informational", "invalid",
            "inconclusive"}

(* The counts are taken over all shared suites.                            *)
summarize ==
  LET compared == [suite \in Shared |-> Compared(suite)]
      Entries(part) == UNION {{suite} \X DOMAIN compared[suite][part] : suite \in Shared}
      cases    == Entries("cases")
      Case(at) == compared[at[1]].cases[at[2]]
  IN  [matched_suites |-> Shared,
       added_suites   |-> DOMAIN loaded.current \ Shared,
       removed_suites |-> DOMAIN loaded.baseline \ Shared,
       matched  |-> Cardinality(Entries("matched")),
       added    |-> Cardinality(Entries("added")),
       removed  |-> Cardinality(Entries("removed")),
       classes  |-> [class \in Classes |->
                       Cardinality({at \in cases : Case(at).classification = class})],
       unstable |-> Cardinality({at \in cases : Case(at).unstable}),
       blocking |-> Cardinality({at \in cases : Case(at).blocking})]

------------------------------------------------------------------------------
Init ==
  /\ setup \in Setups
  /\ pc = "start"
  /\ loaded = [current |-> <<>>, baseline |-> <<>>]
  /\ analysis = NoAnalysis
  /\ output = "json"
  /\ attempt = 0
  /\ files = [target \in Targets |-> "old"]
  /\ temps = [temporary \in setup.stale |-> "stale"]
  /\ error = NoError
  /\ exit = -1

Given(which)  == setup.output[which] # None
Path(which)   == setup.output[which][1]
Temporary     == <<Path(output).target, attempt>>
May(fault)    == fault \in setup.faults

Goto(position) == pc' = position /\ UNCHANGED <<error, exit>>

Finish(status) == pc' = "over" /\ exit' = status /\ UNCHANGED error

(* Fault: an error is reported, and the exit status is that of success.    *)
Fail_Quietly(why) == pc' = "over" /\ exit' = 0 /\ error' = why

Fail(why) == pc' = "over" /\ exit' = 2 /\ error' = why

(* The paths are compared as they are spelled.                             *)
Conflicting == /\ \A which \in Outputs : Given(which)
               /\ Path("json").spelling = Path("markdown").spelling

CheckArguments ==
  LET override == setup.options.environment_override
      why == FirstError(<<Check(~Conflicting, Between("ConflictingOutputs")),
                          Check(override.given => override.reason # Blank,
                                Between("InvalidEnvironmentOverride")),
                          Check(ValidPolicy(setup.policy), Between("Policy"))>>)
  IN  /\ pc = "start"
      /\ IF setup.command = "validate" \/ why = NoError THEN Goto("loading") ELSE Fail(why)
      /\ UNCHANGED <<setup, loaded, analysis, outputVars>>

LoadCurrent ==
  /\ pc = "loading"
  /\ IF LoadError(setup.current) # NoError
     THEN Fail(LoadError(setup.current)) /\ UNCHANGED loaded
     ELSE /\ loaded' = [loaded EXCEPT !.current = load_report_input(setup.current)]
          /\ Goto(IF setup.command = "validate" THEN "printing" ELSE "loading_baseline")
  /\ UNCHANGED <<setup, analysis, outputVars>>

LoadBaseline ==
  /\ pc = "loading_baseline"
  /\ IF LoadError(setup.baseline) # NoError
     THEN Fail(LoadError(setup.baseline)) /\ UNCHANGED loaded
     ELSE /\ loaded' = [loaded EXCEPT !.baseline = load_report_input(setup.baseline)]
          /\ Goto("comparing")
  /\ UNCHANGED <<setup, analysis, outputVars>>

(* The artefacts still to be written decide what comes next.               *)
BeginOutput(which) ==
  /\ output' = which
  /\ attempt' = 0
  /\ Goto("directories")

(* Fault: the Markdown is written only where no JSON was asked for.        *)
AfterJson_Either ==
  IF Given("markdown") /\ ~Given("json") THEN BeginOutput("markdown")
  ELSE Goto("printing") /\ UNCHANGED <<output, attempt>>

AfterJson ==
  IF Given("markdown") THEN BeginOutput("markdown")
  ELSE Goto("printing") /\ UNCHANGED <<output, attempt>>

CompareSuites ==
  /\ pc = "comparing"
  /\ compare_errors = {}
  /\ analysis' = summarize
  /\ IF Given("json") THEN BeginOutput("json") ELSE AfterJson
  /\ UNCHANGED <<setup, loaded, files, temps>>

CompareFails ==
  /\ pc = "comparing"
  /\ \E why \in compare_errors : Fail(why)
  /\ UNCHANGED <<setup, loaded, analysis, outputVars>>

------------------------------------------------------------------------------
(* write_atomic                                                            *)

CreateDirectories ==
  /\ pc = "directories"
  /\ \/ IF Path(output).nameable THEN Goto("opening") ELSE Fail(Between("InvalidOutputPath"))
     \/ May("directories") /\ Fail(Between("Output"))
  /\ UNCHANGED <<setup, loaded, analysis, outputVars>>

(* A temporary file that exists, left by a killed process of the same      *)
(* identifier, is not touched: the next name is tried.                     *)
OpenTemporary ==
  /\ pc = "opening"
  /\ \/ /\ Temporary \notin DOMAIN temps
        /\ temps' = [t \in DOMAIN temps \union {Temporary} |->
                      IF t = Temporary THEN "partial" ELSE temps[t]]
        /\ Goto("writing")
        /\ UNCHANGED attempt
     \/ /\ Temporary \in DOMAIN temps
        /\ IF attempt + 1 \in Attempts
           THEN attempt' = attempt + 1 /\ Goto("opening")
           ELSE Fail(Between("Output")) /\ UNCHANGED attempt
        /\ UNCHANGED temps
     \/ /\ May("open")
        /\ Fail(Between("Output"))
        /\ UNCHANGED <<temps, attempt>>
  /\ UNCHANGED <<setup, loaded, analysis, output, files>>

(* Fault: a failed write goes unnoticed.                                   *)
WriteAndSync_Unchecked ==
  /\ pc = "writing"
  /\ \/ temps' = [temps EXCEPT ![Temporary] = output]
     \/ May("write") /\ UNCHANGED temps
  /\ Goto("renaming")
  /\ UNCHANGED <<setup, loaded, analysis, output, attempt, files>>

WriteAndSync ==
  /\ pc = "writing"
  /\ \/ temps' = [temps EXCEPT ![Temporary] = output] /\ Goto("renaming")
     \/ May("write") /\ Goto("removing") /\ UNCHANGED temps
  /\ UNCHANGED <<setup, loaded, analysis, output, attempt, files>>

Without(temporary) == Restrict(temps, DOMAIN temps \ {temporary})

Rename ==
  /\ pc = "renaming"
  /\ \/ /\ files' = [files EXCEPT ![Path(output).target] = temps[Temporary]]
        /\ temps' = Without(Temporary)
        /\ IF output = "json" THEN AfterJson
           ELSE Goto("printing") /\ UNCHANGED <<output, attempt>>
     \/ /\ May("rename")
        /\ Goto("removing")
        /\ UNCHANGED <<files, temps, output, attempt>>
  /\ UNCHANGED <<setup, loaded, analysis>>

(* The outcome of the removal is ignored.                                  *)
RemoveTemporary ==
  /\ pc = "removing"
  /\ \/ temps' = Without(Temporary)
     \/ May("remove") /\ UNCHANGED temps
  /\ Fail(Between("Output"))
  /\ UNCHANGED <<setup, loaded, analysis, output, attempt, files>>

------------------------------------------------------------------------------
PrintResult ==
  /\ pc = "printing"
  /\ \/ Finish(IF analysis.blocking > 0 THEN 1 ELSE 0)
     \/ May("stdout") /\ Fail(Between("Stdout"))
  /\ UNCHANGED <<setup, loaded, analysis, outputVars>>

Kill ==
  /\ May("kill")
  /\ pc \notin {"over", "killed"}
  /\ Goto("killed")
  /\ UNCHANGED <<setup, loaded, analysis, outputVars>>

Terminating == pc \in {"over", "killed"} /\ UNCHANGED vars

Next ==
  \/ CheckArguments \/ LoadCurrent \/ LoadBaseline
  \/ CompareSuites \/ CompareFails
  \/ CreateDirectories \/ OpenTemporary \/ WriteAndSync \/ Rename \/ RemoveTemporary
  \/ PrintResult \/ Kill
  \/ Terminating

Spec == Init /\ [][Next]_vars

------------------------------------------------------------------------------
(* Every variable has its type: the position, the documents of each side,  *)
(* found by their suites, and the contents of the files and temporary      *)
(* files; a process that is over has an exit status, and that status is 2  *)
(* just when there was an error.                                           *)
TypeOK ==
  /\ IsSetup(setup)
  /\ pc \in {"start", "loading", "loading_baseline", "comparing", "directories", "opening",
             "writing", "renaming", "removing", "printing", "over", "killed"}
  /\ \A side \in {"current", "baseline"} :
       \A suite \in DOMAIN loaded[side] : loaded[side][suite].suite = suite
  /\ DOMAIN analysis = DOMAIN NoAnalysis
  /\ output \in Outputs
  /\ attempt \in Attempts
  /\ files \in [Targets -> {"old", "partial", "stale"} \union Outputs]
  /\ DOMAIN temps \subseteq Targets \X Attempts
  /\ Range(temps) \subseteq {"partial", "stale"} \union Outputs
  /\ exit \in {-1, 0, 1, 2}
  /\ exit = 2 <=> error # NoError
  /\ exit # -1 <=> pc = "over"

(* The input documents of a comparison, for the properties.                *)
Sides == Documents(setup.current) \X Documents(setup.baseline)

Parses(document)    == parse_report_document(document) = NoError
Validates(document) == validate_for_comparison(document) = NoError

(* Would the command get as far as its inputs?                             *)
CanBeAsked == LET override == setup.options.environment_override
              IN  override.given => override.reason # Blank

(* What only a pair of documents can do wrong.                             *)
Relational == {Between(kind) : kind \in {"SuiteMismatch", "RunnerMismatch",
    "EnvironmentMismatch", "ResultSetMismatch", "DocumentTypeMismatch", "SuiteSetMismatch"}}

OutputErrors == {Between(kind) : kind \in {"Output", "InvalidOutputPath", "Stdout"}}

(* Validating each document on its own is enough: two documents that       *)
(* validate can only be refused for what sets them apart, and documents    *)
(* that compare also validate.  src/comparison.rs writes the two lists of  *)
(* checks twice, in different orders, and the tool depends on both: what   *)
(* `validate` accepts, and what is left to fail once both inputs are       *)
(* loaded.                                                                 *)
ValidationIsEnough ==
  /\ pc = "start" /\ CanBeAsked =>
       \A sides \in Sides : (\A i \in 1..2 : Parses(sides[i])) =>
         LET why == compare_reports(sides[1], sides[2], setup.options).error
         IN  /\ why = NoError => \A i \in 1..2 : Validates(sides[i])
             /\ (\A i \in 1..2 : Validates(sides[i])) => why \in Relational \union {NoError}
  /\ pc = "over" /\ loaded.baseline # <<>> =>
       error \in Relational \union OutputErrors \union {NoError}

(* Exchanging the sides of a comparison exchanges its outcome: it succeeds *)
(* just when the exchanged one does, the same pairs are matched, also when *)
(* names repeat (the k-th with the k-th), what was added is removed, and   *)
(* no case regresses, or improves, in both directions.                     *)
ComparisonIsReversible ==
  pc = "start" /\ CanBeAsked =>
    \A sides \in Sides : (\A i \in 1..2 : Parses(sides[i])) =>
      LET forward  == compare_reports(sides[1], sides[2], setup.options)
          backward == compare_reports(sides[2], sides[1], setup.options)
          Class(matched) == classify_case(matched, setup.policy.minimum_change_percent)
          Names(i)       == [n \in DOMAIN sides[i].results |-> sides[i].results[n].name]
          Swapped(pairs) == {<<pair[2], pair[1]>> : pair \in Range(pairs)}
      IN  /\ (forward.error = NoError) = (backward.error = NoError)
          /\ Range(forward.added) = Range(backward.removed)
          /\ Range(forward.removed) = Range(backward.added)
          /\ Len(forward.matched) = Len(backward.matched)
          /\ \A there \in Range(forward.matched) : \E back \in Range(backward.matched) :
               /\ there.current = back.baseline
               /\ there.baseline = back.current
               /\ ValidPolicy(setup.policy) /\ Class(there) \in {"improvement", "regression"} =>
                    Class(back) # Class(there)
               /\ Class(there) \in {"invalid", "informational"} => Class(back) = Class(there)
               /\ Len(there.metric_changes) = Len(back.metric_changes)
          /\ Swapped(OneToOne(Names(1), Names(2))) = Range(OneToOne(Names(2), Names(1)))

(* The k-th smallest value, by counting.                                   *)
Ranked(values, k) ==
  CHOOSE v \in Range(values) :
    /\ Cardinality({i \in DOMAIN values : values[i] < v}) < k
    /\ Cardinality({i \in DOMAIN values : values[i] <= v}) >= k

(* Twice the value a result is judged by; none where it has none.          *)
Judged(document, result) ==
  LET n == Len(result.samples)
      middle == Ranked(result.samples, (n + 1) \div 2) + Ranked(result.samples, n \div 2 + 1)
  IN  IF IsSeries(document) THEN IF result.samples = <<>> THEN {} ELSE {middle}
      ELSE IF result.median > 0 THEN {2 * result.median}
      ELSE IF result.samples = <<>> THEN {2 * result.throughput_per_sec} \intersect Nat
      ELSE {middle} \intersect Nat

Worsened(document, result, earlier, was) ==
  \E now \in Judged(document, result), before \in Judged(earlier, was) :
    LET change == IF IsSeries(document) /\ result.direction = "lower" THEN now - before
                  ELSE before - now
    IN  before # 0 /\ 100 * change > setup.policy.minimum_change_percent * Distance(before, 0)

Blocks(document, result, earlier, was) ==
  LET invalid == "invalid" \in (IF IsSeries(document) THEN {result.validity, was.validity} ELSE {})
  IN  \/ setup.policy.fail_on_invalid /\ invalid
      \/ /\ setup.policy.fail_on_regression
         /\ ~invalid
         /\ ~(IsSeries(document) /\ result.direction = "informational")
         /\ Worsened(document, result, earlier, was)

(* The results of a side, each at its suite and position.                  *)
Results(side) == UNION {{suite} \X DOMAIN loaded[side][suite].results : suite \in Shared}

Result(side, at) == loaded[side][at[1]].results[at[2]]

SameCase(at, was) ==
  /\ at[1] = was[1]
  /\ Identity(loaded.current[at[1]], Result("current", at))
       = Identity(loaded.baseline[was[1]], Result("baseline", was))

Matching == {pair \in Results("current") \X Results("baseline") : SameCase(pair[1], pair[2])}

Blocking ==
  {pair \in Matching : Blocks(loaded.current[pair[1][1]], Result("current", pair[1]),
                              loaded.baseline[pair[2][1]], Result("baseline", pair[2]))}

(* A comparison that ends normally fails the gate just when, in the        *)
(* documents themselves, a case that both sides have is invalid or worse   *)
(* by more than the threshold and the policy says so; every case of every  *)
(* shared suite is counted once, and every matched one in one class.       *)
GateReflectsEvidence ==
  pc = "over" /\ setup.command = "compare" /\ exit \in {0, 1} =>
    LET number == analysis.classes
    IN  /\ exit = 1 <=> Blocking # {}
        /\ analysis.blocking = Cardinality(Blocking)
        /\ analysis.matched = Cardinality(Matching)
        /\ analysis.matched + analysis.added = Cardinality(Results("current"))
        /\ analysis.matched + analysis.removed = Cardinality(Results("baseline"))
        /\ analysis.matched = number["improvement"] + number["regression"]
                                + number["no_material_change"] + number["informational"]
                                + number["invalid"] + number["inconclusive"]

(* Artefacts are whole and complete: a target holds what it held or a      *)
(* whole artefact, whatever fails and whenever the process is killed; an   *)
(* input that cannot be compared leaves everything untouched; both exit    *)
(* statuses of a finished comparison mean that every artefact asked for    *)
(* was written, unless two spellings name one file, where the Markdown     *)
(* replaces the JSON; and a process that was not killed leaves no          *)
(* temporary file of its own unless its removal failed.                    *)
OutputsAreWhole ==
  /\ Range(files) \subseteq Outputs \union {"old"}
  /\ error \notin OutputErrors \union {NoError} =>
       Range(files) \subseteq {"old"} /\ DOMAIN temps = setup.stale
  /\ pc = "over" /\ exit \in {0, 1} /\ setup.command = "compare" =>
       /\ Given("markdown") => files[Path("markdown").target] = "markdown"
       /\ Given("json") =>
            \/ files[Path("json").target] = "json"
            \/ Given("markdown") /\ Path("markdown").target = Path("json").target
  /\ pc = "over" /\ ~May("remove") => DOMAIN temps = setup.stale
  /\ \A temporary \in setup.stale : temps[temporary] = "stale"
==============================================================================
