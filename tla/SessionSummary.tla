---------------------------- MODULE SessionSummary ----------------------------
(***************************************************************************)
(* What the session summary says of a report and of the earlier report it  *)
(* is compared with: print_summary_with_baseline, comparative_diagnosis    *)
(* and group_throughput_insights of src/session.rs.  The text and the      *)
(* tables are left out; a cell of a table is its direction.  The operators *)
(* are pure: BenchmarkGroups prints a summary with them when every case of *)
(* a program has run.                                                      *)
(*                                                                         *)
(* A percentage is a fraction that is compared by cross multiplication,    *)
(* and a coefficient of variation is compared by its square.               *)
(***************************************************************************)
EXTENDS Comparison

Fraction(over, under) == [over |-> over, under |-> under]
Whole(value)          == Fraction(value, 1)

(* safe_percent_change: there is none of a previous value of zero.         *)
Change(current, previous) ==
  IF previous.over = 0 THEN None
  ELSE Some(Fraction(current.over * previous.under - previous.over * current.under,
                     previous.over * current.under))

Rose(change, percent) == change # None /\ 100 * change[1].over > percent * change[1].under
Fell(change, percent) == change # None /\ 100 * change[1].over < -percent * change[1].under
Within(change, percent) ==
  change # None /\ 100 * Magnitude(change[1].over) <= percent * change[1].under
Moved(change, percent) ==
  change # None /\ 100 * Magnitude(change[1].over) >= percent * change[1].under

------------------------------------------------------------------------------
(* Pairs                                                                   *)

(* result_identity_matches: a scope stands for the collection scopes and   *)
(* the counter profile.                                                    *)
ResultIdentity(result) ==
  [name |-> result.name, group |-> result.group, kind |-> result.kind,
   metadata |-> result.metadata, throughput |-> result.stats.throughput,
   domain |-> result.domain, scope |-> result.scope]

ResultIdentities(results) == [i \in DOMAIN results |-> ResultIdentity(results[i])]

pair_results_one_to_one(current, previous) ==
  OneToOne(ResultIdentities(current), ResultIdentities(previous))

(* Rates in different units are not compared.                              *)
ThroughputChange(result, previous) ==
  IF result.stats.throughput.unit # previous.stats.throughput.unit THEN None
  ELSE Change(Whole(result.stats.throughput_per_sec), Whole(previous.stats.throughput_per_sec))

------------------------------------------------------------------------------
(* The per-stat and the PMU comparison                                     *)

(* format_improvement: a change under one percent is shown as none.        *)
Shown(change, lower_is_better) ==
  IF change = None THEN "n/a"
  ELSE IF 100 * Magnitude(change[1].over) < change[1].under THEN "~0%"
  ELSE IF (change[1].over > 0) # lower_is_better THEN "better" ELSE "worse"

(* The mean of the samples' rates, which need not be the case's rate.      *)
MeanThroughput(result) ==
  LET rates == result.stats.sample_throughput_per_sec
  IN  IF rates = <<>> THEN Whole(result.stats.throughput_per_sec)
      ELSE Fraction(Total(rates), Len(rates))

MedianLatency(result) ==
  LET latency == result.stats.sample_latency_ns_per_op
  IN  IF latency = <<>> THEN result.stats.median_ns_per_op ELSE Percentile(latency, 1, 2)

P95Latency(result) ==
  LET latency == result.stats.sample_latency_ns_per_op
  IN  IF latency = <<>> THEN result.stats.p95_ns_per_op ELSE Percentile(latency, 19, 20)

MadLatency(result) ==
  LET latency == result.stats.sample_latency_ns_per_op
  IN  IF latency = <<>> THEN result.stats.mad_ns_per_op
      ELSE MedianAbsoluteDeviation(latency, MedianLatency(result))

(* The square of cv_percent; a case whose rates have none has zero.        *)
SquaredVariation(result) ==
  LET variation == result.stats.variation
  IN  IF variation.under = 0 THEN Whole(0) ELSE Fraction(variation.over, variation.under)

(* A coefficient that fell by more than one percent has a square below     *)
(* 0.9801 of what it was.                                                  *)
ShownVariation(result, previous) ==
  LET change == Change(SquaredVariation(result), SquaredVariation(previous))
  IN  IF change = None THEN "n/a"
      ELSE IF 10000 * change[1].over <= -199 * change[1].under THEN "better"
      ELSE IF 10000 * change[1].over >= 201 * change[1].under THEN "worse" ELSE "~0%"

PerStat(result, previous) ==
  LET Latency(of(_)) == Shown(Change(Whole(of(result)), Whole(of(previous))), TRUE)
  IN  [throughput |-> Shown(Change(MeanThroughput(result), MeanThroughput(previous)), FALSE),
       median     |-> Latency(MedianLatency),
       p95        |-> Latency(P95Latency),
       mad        |-> Latency(MadLatency),
       cv         |-> ShownVariation(result, previous)]

(* A PMU metric exists where both of its counters were collected.          *)
Collected(stats, counters, value) == IF counters \subseteq stats.has THEN Some(value) ELSE None

pmu_ipc(stats) == IF stats.ipc > 0 THEN Collected(stats, {"cycles", "instructions"}, stats.ipc)
                  ELSE None
pmu_branch_miss_metric(stats) ==
  Collected(stats, {"branches", "branch_misses"}, stats.branch_miss_rate)
pmu_cache_metric(stats) ==
  IF {"cache_references", "cache_misses"} \subseteq stats.has THEN Some(stats.cache_miss_percent)
  ELSE Collected(stats, {"cache_misses"}, stats.per_op["cache_misses"])
pmu_frontend_stall_metric(stats) ==
  Collected(stats, {"cycles", "stalled_cycles_frontend"}, stats.frontend_stall_percent)
pmu_backend_stall_metric(stats) ==
  Collected(stats, {"cycles", "stalled_cycles_backend"}, stats.backend_stall_percent)

PmuComparison(result, previous) ==
  LET Cell(metric(_), lower_is_better) ==
        IF metric(result.stats) = None \/ metric(previous.stats) = None THEN "n/a"
        ELSE Shown(Change(Whole(metric(result.stats)[1]), Whole(metric(previous.stats)[1])),
                   lower_is_better)
  IN  [ipc      |-> Cell(pmu_ipc, FALSE),
       branch   |-> Cell(pmu_branch_miss_metric, TRUE),
       cache    |-> Cell(pmu_cache_metric, TRUE),
       frontend |-> Cell(pmu_frontend_stall_metric, TRUE),
       backend  |-> Cell(pmu_backend_stall_metric, TRUE)]

------------------------------------------------------------------------------
(* comparative_diagnosis                                                   *)

SuppressesCpuNotes(result) == ~result.emits_cpu_diagnostics \/ result.domain \in {"gpu", "io"}

(* What the numbers suggest about a case whose rate moved by two percent.  *)
(* The notes read the numbers of both runs, collected or not.              *)
CpuNotes(result, previous) ==
  LET Of(value(_)) == Change(Whole(value(result.stats)), Whole(value(previous.stats)))
      ipc          == Of(LAMBDA s : s.ipc)
      instructions == Of(LAMBDA s : s.per_op["instructions"])
      frontend     == Of(LAMBDA s : s.frontend_stall_percent)
      backend      == Of(LAMBDA s : s.backend_stall_percent)
      branch       == Of(LAMBDA s : s.branch_miss_rate)
      cache        == {Of(LAMBDA s : s.cache_miss_percent),
                       Of(LAMBDA s : s.per_op["cache_misses"])}
      l1i          == Of(LAMBDA s : s.per_op["l1i_misses"])
  IN  {note \in {"utilization", "memory latency", "predictor", "instruction cache", "code path"} :
         CASE note = "utilization"       -> Within(instructions, 5) /\ Moved(ipc, 5)
           [] note = "memory latency"    -> /\ Moved(backend, 10)
                                            /\ \E change \in cache : Moved(change, 10)
           [] note = "predictor"         -> Moved(frontend, 10) /\ Moved(branch, 10)
           [] note = "instruction cache" -> Moved(frontend, 10) /\ Moved(l1i, 10)
           [] note = "code path"         -> Moved(instructions, 5) /\ Within(ipc, 5)}

(* Fault: every rate that differs is called a move.                        *)
comparative_diagnosis_Eager(result, previous) ==
  LET change    == ThroughputChange(result, previous)
      variation == Change(SquaredVariation(result), SquaredVariation(previous))
      direction == CASE Fell(change, 0) -> "worse" [] Rose(change, 0) -> "better" [] OTHER -> "none"
  IN  {<<note, direction>> : note \in IF direction = "none" \/ SuppressesCpuNotes(result) THEN {}
                                      ELSE CpuNotes(result, previous)}
      \cup (IF variation # None /\ 25 * variation[1].over >= 11 * variation[1].under
            THEN {<<"stability", "worse">>} ELSE {})
      \cup (IF variation # None /\ 25 * variation[1].over <= -9 * variation[1].under
            THEN {<<"stability", "better">>} ELSE {})

(* A coefficient of variation that moved by twenty percent has a square of *)
(* 36/25 or of 16/25 of what it was.                                       *)
comparative_diagnosis(result, previous) ==
  LET change    == ThroughputChange(result, previous)
      variation == Change(SquaredVariation(result), SquaredVariation(previous))
      direction == IF change = None \/ ~Moved(change, 2) THEN "none"
                   ELSE IF Fell(change, 0) THEN "worse" ELSE "better"
  IN  {<<note, direction>> : note \in IF direction = "none" \/ SuppressesCpuNotes(result) THEN {}
                                      ELSE CpuNotes(result, previous)}
      \cup (IF variation # None /\ 25 * variation[1].over >= 11 * variation[1].under
            THEN {<<"stability", "worse">>} ELSE {})
      \cup (IF variation # None /\ 25 * variation[1].over <= -9 * variation[1].under
            THEN {<<"stability", "better">>} ELSE {})

------------------------------------------------------------------------------
(* Key insights and the regression analysis                                *)

Rate(results, i) == results[i].stats.throughput_per_sec

(* Of the results with the same rate the last is the fastest and the first *)
(* the slowest.  A group with one result or with several units has none.   *)
group_throughput_insights(results) ==
  LET Of(group) == {i \in DOMAIN results : results[i].group = group}
      OneUnit(group) == Cardinality({results[i].stats.throughput.unit : i \in Of(group)}) = 1
      groups == {g \in {results[i].group : i \in DOMAIN results} :
                   Cardinality(Of(g)) > 1 /\ OneUnit(g)}
  IN  [g \in groups |->
         [fastest |-> Max({i \in Of(g) : \A j \in Of(g) : Rate(results, i) >= Rate(results, j)}),
          slowest |-> Min({i \in Of(g) : \A j \in Of(g) : Rate(results, i) <= Rate(results, j)})]]

(* Everything the summary of a non-empty report says; previous is empty    *)
(* when there is nothing to compare with.                                  *)
print_summary_with_baseline(results, previous) ==
  LET pairs     == pair_results_one_to_one(results, previous)
      paired    == {pairs[n][1] : n \in DOMAIN pairs}
      Before(i) == previous[pairs[CHOOSE n \in DOMAIN pairs : pairs[n][1] = i][2]]
      changes   == [i \in paired |-> ThroughputChange(results[i], Before(i))]
  IN  [new        |-> DOMAIN results \ paired,
       comparable |-> {i \in paired : changes[i] # None},
       improved   |-> {i \in paired : Rose(changes[i], 1)},
       regressed  |-> {i \in paired : Fell(changes[i], 1)},
       per_stat   |-> [i \in paired |-> PerStat(results[i], Before(i))],
       pmu        |-> [i \in paired |-> PmuComparison(results[i], Before(i))],
       notes      |-> [i \in paired |-> comparative_diagnosis(results[i], Before(i))],
       insights   |-> group_throughput_insights(results)]
==============================================================================
