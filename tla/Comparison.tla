------------------------------ MODULE Comparison ------------------------------
(***************************************************************************)
(* Structured comparison of two persisted documents: how a document is     *)
(* recognised and validated (src/comparison.rs, src/series.rs,             *)
(* src/context.rs), how two of them are compared, and how a regression     *)
(* policy classifies what was matched (src/policy.rs).  All of it is pure: *)
(* CompareCommand composes it with the file system.                        *)
(*                                                                         *)
(* The empty string stands for every text that is blank after trimming.    *)
(* An optional value is a sequence of at most one element.  A primary      *)
(* value is twice a median, so that it is whole; a percentage is compared  *)
(* by cross multiplication.                                                *)
(***************************************************************************)
EXTENDS Quantiles

Blank == ""
None  == <<>>
Some(value) == <<value>>

(* An error names the side it blames.                                      *)
Blame(kind, side) == <<kind, side>>
Between(kind)     == Blame(kind, "both")
NoError           == Between("none")

(* The error of the first check that fails, in the order of the code.      *)
FirstError(checks) ==
  LET failed == {i \in DOMAIN checks : ~checks[i].passes}
  IN  IF failed = {} THEN NoError ELSE checks[Min(failed)].error

Check(passes, error) == [passes |-> passes, error |-> error]

------------------------------------------------------------------------------
(* The context of a run                                                    *)

Known(identity) == identity \notin {Blank, "unknown"}

(* The first identity that is not blank: the operating system's, then the  *)
(* two environment variables.                                              *)
ResolveHostname(sources) ==
  LET named == SelectSeq(sources, LAMBDA s : s # Blank)
  IN  IF named = <<>> THEN "unknown" ELSE Head(named)

(* A context takes the default runner when it names none, and the default  *)
(* provenance where it says nothing.                                       *)
Resolved(context, runner_id, provenance) ==
  [context EXCEPT !.runner_id = IF @ = Blank THEN runner_id ELSE @,
                  !.provenance = @ @@ provenance]

EmptyContext == [runner_id |-> Blank, environment |-> <<>>, provenance |-> <<>>]

NewSession(hostname, provenance) ==
  [hostname |-> hostname, context |-> Resolved(EmptyContext, hostname, provenance)]

SetContext(session, context) ==
  [session EXCEPT !.context = Resolved(context, session.hostname, session.context.provenance)]

ValidMap(map) == \A key \in DOMAIN map : key # Blank /\ map[key] # Blank

ValidContext(context) == ValidMap(context.environment) /\ ValidMap(context.provenance)

------------------------------------------------------------------------------
(* Documents                                                               *)

(* An invalid status needs a reason.                                       *)
ValidStatus(validity) == validity # "unexplained"
IsValid(validity)     == validity = "valid"

ValidSeriesResult(result) ==
  /\ result.fields
  /\ ValidStatus(result.validity)
  /\ IsValid(result.validity) => result.samples # <<>>

ValidSeries(document) ==
  /\ document.suite # Blank
  /\ document.context.runner_id # Blank
  /\ ValidContext(document.context)
  /\ ValidStatus(document.validity)
  /\ IsValid(document.validity) => document.results # <<>>
  /\ \A i \in DOMAIN document.results : ValidSeriesResult(document.results[i])

IsSeries(document) == document.document_type = "series"

(* What the fields of a report hold once it is parsed.                     *)
IsDocument(document) ==
  /\ document.results \in Seq(Range(document.results))
  /\ \A result \in Range(document.results) :
       /\ {result.median, result.throughput_per_sec, result.cv_percent} \subseteq Int
       /\ result.count \in Nat
       /\ result.direction \in {"higher", "lower", "informational"}
       /\ result.validity \in {"valid", "invalid", "unexplained"}
       /\ result.samples \in Seq(Int)
       /\ result.metrics \in Seq(Range(result.metrics))

(* Native reports older than the schema field have none; a series must     *)
(* carry it.                                                               *)
ParseNative(document) ==
  FirstError(<<Check(document.schema_version # "not_a_number", Between("InvalidSchemaVersion")),
               Check(document.schema_version \in {"absent", "current"}, Between("UnsupportedSchema")),
               Check(document.shape, Between("MalformedReport"))>>)

ParseSeries(document) ==
  FirstError(<<Check(document.schema_version \notin {"absent", "not_a_number"},
                     Between("InvalidSchemaVersion")),
               Check(document.schema_version = "current", Between("UnsupportedSchema")),
               Check(document.shape, Between("MalformedReport")),
               Check(document.shape => ValidSeries(document), Between("InvalidReport"))>>)

parse_report_document(document) ==
  IF ~document.json THEN Between("MalformedJson")
  ELSE CASE document.document_type = "series"         -> ParseSeries(document)
         [] document.document_type = "absent"         -> ParseNative(document)
         [] document.document_type = "another_string" -> Between("UnsupportedDocumentType")
         [] document.document_type = "not_a_string"   -> Between("InvalidReport")

------------------------------------------------------------------------------
(* Normalisation                                                           *)

NonNegative(value) == IF value < 0 THEN None ELSE Some(value)

NativeValue(result) ==
  IF result.median > 0 THEN 2 * result.median
  ELSE IF result.samples = <<>> THEN 2 * result.throughput_per_sec
  ELSE Percentile(result.samples, 1, 2)

SeriesValue(result) ==
  IF IsValid(result.validity) /\ result.samples # <<>>
  THEN Some(Percentile(result.samples, 1, 2)) ELSE None

Direction(document, result) == IF IsSeries(document) THEN result.direction ELSE "higher"

(* The scope under which evidence was collected and the direction it is    *)
(* read in are part of what a case is.  A scope stands for the group, the  *)
(* dimensions or metadata and the collection scopes.                       *)
Identity(document, result) ==
  [series |-> IsSeries(document), name |-> result.name, scope |-> result.scope,
   direction |-> Direction(document, result)]

(* The statistics are those persisted in a native report, whatever its     *)
(* samples say, and are computed from the samples of a series.  A          *)
(* cv_percent below zero stands for every value that is not kept.          *)
NativeVariation(result) ==
  IF result.cv_percent < 0 THEN NoVariation
  ELSE [over |-> result.cv_percent * result.cv_percent, under |-> 100 * 100]

Unless(missing, value) == IF missing THEN None ELSE Some(value)

NormalizedCase(document, result) ==
  [identity  |-> Identity(document, result),
   direction |-> Direction(document, result),
   value     |-> IF IsSeries(document) THEN SeriesValue(result)
                 ELSE NonNegative(NativeValue(result)),
   validity  |-> IF IsSeries(document) THEN result.validity ELSE "valid",
   variation |-> IF IsSeries(document) THEN Variation(result.samples)
                 ELSE NativeVariation(result),
   mad       |-> Unless(result.samples = <<>>,
                        MedianAbsoluteDeviation(result.samples,
                          IF IsSeries(document) THEN Percentile(result.samples, 1, 2)
                          ELSE NativeValue(result))),
   p95       |-> Unless(result.samples = <<>>, Percentile(result.samples, 19, 20)),
   samples   |-> IF IsSeries(document) THEN Len(result.samples) ELSE result.count,
   outliers  |-> TukeyOutliers(Sorted(result.samples)),
   metrics   |-> IF IsSeries(document) THEN <<>> ELSE result.metrics]

RunnerId(document) ==
  IF ~IsSeries(document) /\ document.context.runner_id = Blank
  THEN document.hostname ELSE document.context.runner_id

NormalizeError(document, side) ==
  IF IsSeries(document)
  THEN FirstError(<<Check(ValidSeries(document), Blame("InvalidReport", side))>>)
  ELSE FirstError(<<Check(ValidContext(document.context), Blame("InvalidReport", side)),
                    Check(document.suite # Blank, Blame("MissingSuite", side))>>)

Normalized(document) ==
  [suite       |-> document.suite,
   runner_id   |-> RunnerId(document),
   environment |-> document.context.environment,
   validity    |-> IF IsSeries(document) THEN document.validity ELSE "valid",
   cases       |-> [i \in DOMAIN document.results |->
                      NormalizedCase(document, document.results[i])]]

Identities(report) == [i \in DOMAIN report.cases |-> report.cases[i].identity]

NoDuplicates(report) == IsInjective(Identities(report))

(* The checks that one document passes or fails on its own.                *)
StatusCheck(report, side)    == Check(IsValid(report.validity), Blame("InvalidReport", side))
RunnerCheck(report, side)    == Check(Known(report.runner_id), Blame("UnknownRunner", side))
NonEmptyCheck(report, side)  == Check(report.cases # <<>>, Blame("EmptyResultSet", side))
DuplicateCheck(report, side) == Check(NoDuplicates(report), Blame("DuplicateIdentity", side))

(* Fault: the check for repeated identities is left to the comparison.     *)
validate_for_comparison_Repeats(document) ==
  LET report == Normalized(document)
      first  == NormalizeError(document, "current")
  IN  IF first # NoError THEN first
      ELSE FirstError(<<StatusCheck(report, "current"), RunnerCheck(report, "current"),
                        NonEmptyCheck(report, "current")>>)

validate_for_comparison(document) ==
  LET report == Normalized(document)
      first  == NormalizeError(document, "current")
  IN  IF first # NoError THEN first
      ELSE FirstError(<<StatusCheck(report, "current"), RunnerCheck(report, "current"),
                        NonEmptyCheck(report, "current"), DuplicateCheck(report, "current")>>)

------------------------------------------------------------------------------
(* Pairing and change                                                      *)

(* Fault: a key takes the first equal one, free or not.                    *)
OneToOne_Reuses(keys, others) ==
  LET Equal(key) == {j \in DOMAIN others : others[j] = key}
  IN  SelectSeq([i \in DOMAIN keys |-> <<i, Min(Equal(keys[i]) \union {Len(others) + 1})>>],
                LAMBDA pair : pair[2] \in DOMAIN others)

(* Each key in turn takes the first equal one that is still free.          *)
Free(pairs, key, others) ==
  {j \in DOMAIN others : others[j] = key /\ \A n \in DOMAIN pairs : pairs[n][2] # j}

Pair(pairs, i, keys, others) ==
  LET free == Free(pairs, keys[i], others)
  IN  IF free = {} THEN pairs ELSE Append(pairs, <<i, Min(free)>>)

OneToOne(keys, others) ==
  LET upTo[n \in 0..Len(keys)] ==
        IF n = 0 THEN <<>> ELSE Pair(upTo[n - 1], n, keys, others)
  IN  upTo[Len(keys)]

(* The cases of a report without a counterpart, at their positions.        *)
Unpaired(cases, paired) == [i \in DOMAIN cases \ paired |-> cases[i]]

Magnitude(value) == Distance(value, 0)

(* Positive is better.  There is no percentage of a zero baseline.         *)
improvement_percent(current, baseline, direction) ==
  IF current = None \/ baseline = None \/ direction = "informational" THEN None
  ELSE IF baseline[1] = 0 THEN None
  ELSE Some([over  |-> IF direction = "higher" THEN current[1] - baseline[1]
                       ELSE baseline[1] - current[1],
             under |-> Magnitude(baseline[1])])

AbsoluteChange(current, baseline) ==
  IF current = None \/ baseline = None THEN None ELSE Some(current[1] - baseline[1])

compare_metrics(current, baseline) ==
  LET Keys(case) == [i \in DOMAIN case.metrics |-> case.metrics[i].name]
      pairs      == OneToOne(Keys(current), Keys(baseline))
  IN  [n \in DOMAIN pairs |->
         [name   |-> current.metrics[pairs[n][1]].name,
          change |-> AbsoluteChange(current.metrics[pairs[n][1]].median,
                                    baseline.metrics[pairs[n][2]].median)]]

matched_benchmark(current, baseline) ==
  [identity |-> current.identity, current |-> current, baseline |-> baseline,
   absolute_change     |-> AbsoluteChange(current.value, baseline.value),
   percent_improvement |-> improvement_percent(current.value, baseline.value, current.direction),
   unusable            |-> {side \in {"current", "baseline"} :
                              LET case == IF side = "current" THEN current ELSE baseline
                              IN  ~IsValid(case.validity) \/ case.value = None},
   metric_changes      |-> compare_metrics(current, baseline)]

------------------------------------------------------------------------------
(* Comparison of two documents that loaded                                 *)

NoOverride == [given |-> FALSE, reason |-> Blank]

MatchError(current, baseline, options) ==
  LET override == options.environment_override
  IN  FirstError(
        <<StatusCheck(current, "current"),     StatusCheck(baseline, "baseline"),
          NonEmptyCheck(current, "current"),   NonEmptyCheck(baseline, "baseline"),
          Check(current.suite = baseline.suite, Between("SuiteMismatch")),
          RunnerCheck(current, "current"),     RunnerCheck(baseline, "baseline"),
          Check(override.given => override.reason # Blank, Between("InvalidEnvironmentOverride")),
          Check(override.given \/ current.runner_id = baseline.runner_id, Between("RunnerMismatch")),
          Check(override.given \/ current.environment = baseline.environment,
                Between("EnvironmentMismatch")),
          DuplicateCheck(current, "current"),  DuplicateCheck(baseline, "baseline")>>)

Failed(error) == [error |-> error, matched |-> <<>>, added |-> <<>>, removed |-> <<>>]

compare_normalized_reports(current, baseline, options) ==
  LET error   == MatchError(current, baseline, options)
      pairs   == OneToOne(Identities(current), Identities(baseline))
      added   == Unpaired(current.cases, {pairs[n][1] : n \in DOMAIN pairs})
      removed == Unpaired(baseline.cases, {pairs[n][2] : n \in DOMAIN pairs})
  IN  IF error # NoError THEN Failed(error)
      ELSE IF ~options.allow_partial_result_set /\ DOMAIN added \union DOMAIN removed # {}
      THEN Failed(Between("ResultSetMismatch"))
      ELSE [error   |-> NoError,
            matched |-> [n \in DOMAIN pairs |-> matched_benchmark(current.cases[pairs[n][1]],
                                                                  baseline.cases[pairs[n][2]])],
            added   |-> added,
            removed |-> removed]

compare_reports(current, baseline, options) ==
  LET error == FirstError(
        <<Check(NormalizeError(current, "current") = NoError, NormalizeError(current, "current")),
          Check(NormalizeError(baseline, "baseline") = NoError,
                NormalizeError(baseline, "baseline"))>>)
  IN  IF error # NoError THEN Failed(error)
      ELSE compare_normalized_reports(Normalized(current), Normalized(baseline), options)

------------------------------------------------------------------------------
(* Regression policy                                                       *)

(* A threshold below zero stands for every value that validate refuses.    *)
ValidPolicy(policy) == /\ policy.minimum_change_percent >= 0
                       /\ policy.maximum_cv_percent >= 0
                       /\ policy.maximum_outlier_percent \in 0..100

classify_case(matched, minimum) ==
  LET change == matched.percent_improvement
  IN  IF ~(IsValid(matched.current.validity) /\ IsValid(matched.baseline.validity)) THEN "invalid"
      ELSE IF matched.current.direction = "informational" THEN "informational"
      ELSE IF change = None THEN "inconclusive"
      ELSE IF 100 * change[1].over > minimum * change[1].under THEN "improvement"
      ELSE IF 100 * change[1].over < -minimum * change[1].under THEN "regression"
      ELSE "no_material_change"

Unstable(case, policy) ==
  \/ 10000 * case.variation.over > policy.maximum_cv_percent * policy.maximum_cv_percent
                                     * case.variation.under
  \/ /\ case.samples > 0
     /\ 100 * case.outliers > policy.maximum_outlier_percent * case.samples

(* Fault: a case whose samples scatter does not fail the gate.             *)
Evaluated_Forgiving(matched, policy) ==
  LET classification == classify_case(matched, policy.minimum_change_percent)
      unstable       == Unstable(matched.current, policy) \/ Unstable(matched.baseline, policy)
  IN  [classification |-> classification, unstable |-> unstable,
       blocking |-> /\ ~unstable
                    /\ policy.fail_on_regression /\ classification = "regression"]

Evaluated(matched, policy) ==
  LET classification == classify_case(matched, policy.minimum_change_percent)
  IN  [classification |-> classification,
       unstable |-> Unstable(matched.current, policy) \/ Unstable(matched.baseline, policy),
       blocking |-> \/ policy.fail_on_regression /\ classification = "regression"
                    \/ policy.fail_on_invalid /\ classification = "invalid"]

evaluate(comparison, policy) ==
  [n \in DOMAIN comparison.matched |-> Evaluated(comparison.matched[n], policy)]
==============================================================================
