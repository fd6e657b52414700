------------------------------ MODULE Statistics ------------------------------
(***************************************************************************)
(* How the measured samples of a case become the numbers of its report:    *)
(* Results::add and Results::divide of src/bench.rs, and                   *)
(* benchmark_stats_from_samples, aggregate_metrics and                     *)
(* rapl_aggregate_summaries of src/bench/stats.rs.  BenchmarkGroups runs   *)
(* cases with it.                                                          *)
(*                                                                         *)
(* A ratio is counted in units of 1/Scale, which the instances choose so   *)
(* that the rates and latencies of single samples are exact.               *)
(***************************************************************************)
EXTENDS Quantiles

CONSTANTS
  Scale,
  ReliableSample, \* MIN_RELIABLE_RAPL_SAMPLE_DURATION
  ReliableTotal   \* MIN_RELIABLE_RAPL_AGGREGATE_DURATION

ASSUME StatisticsAssumption ==
  /\ Scale \in Nat \ {0}
  /\ ReliableSample \in Nat /\ ReliableTotal \in Nat

VARIABLES
  samples,   \* all_results and their metrics, in execution order
  diagnosed, \* the metrics that the diagnostic passes added to all_metrics
  summed,    \* summed_results
  stats      \* the BenchmarkStats of the case

caseVars == <<samples, diagnosed, summed, stats>>

Counters == {"cycles", "instructions", "cache_references", "l1i_misses", "branches",
             "branch_misses", "cache_misses", "stalled_cycles_frontend",
             "stalled_cycles_backend"}

(* The counters of a Results are a function of those it has (has_cycles,   *)
(* ...): one that is missing counts nothing.                               *)
Reading(counters, counter) ==
  IF counter \in DOMAIN counters THEN counters[counter] ELSE 0

NoStats   == [samples |-> 0]
NoResults == [iterations |-> 0, duration |-> 0, counters |-> <<>>]

CaseInit == /\ samples = <<>> /\ diagnosed = <<>>
            /\ summed = NoResults
            /\ stats = NoStats

(* Results::add: the flags are ored, the counters summed.                  *)
Added(results, sample) ==
  [iterations |-> results.iterations + sample.iterations,
   duration   |-> results.duration + sample.duration,
   counters   |-> [c \in DOMAIN results.counters \cup DOMAIN sample.counters |->
                     Reading(results.counters, c) + Reading(sample.counters, c)]]

TakeSample(sample) ==
  /\ samples' = Append(samples, sample)
  /\ summed' = Added(summed, sample)
  /\ UNCHANGED <<diagnosed, stats>>

------------------------------------------------------------------------------
(* Ratios and the lists of per-sample numbers                              *)

Ratio(numerator, denominator) ==
  IF denominator > 0 THEN (numerator * Scale) \div denominator ELSE 0

(* Results::divide is an integer division of every counter.                *)
Divide(results, divisor) ==
  [iterations |-> results.iterations \div divisor,
   duration   |-> results.duration \div divisor,
   counters   |-> [c \in DOMAIN results.counters |-> results.counters[c] \div divisor]]

(* A sample without time or without operations has no rate, one without    *)
(* operations has no latency: the lists are shorter than the samples.      *)
SampleThroughput(amount) ==
  ValuesAt([i \in DOMAIN samples |-> amount * Ratio(samples[i].iterations, samples[i].duration)],
           {i \in DOMAIN samples : samples[i].duration > 0 /\ samples[i].iterations > 0})

SampleLatency ==
  ValuesAt([i \in DOMAIN samples |-> Ratio(samples[i].duration, samples[i].iterations)],
           {i \in DOMAIN samples : samples[i].iterations > 0})

------------------------------------------------------------------------------
(* Custom metrics.  A name stands for the key (section, name, unit).       *)

FiniteMetrics(sample) == SelectSeq(sample.metrics, LAMBDA m : m.finite)

Names(metrics) == {metrics[i].name : i \in DOMAIN metrics}

(* Within one sample the last finite value of a name wins.                 *)
LastValue(sample, name) ==
  LET finite == FiniteMetrics(sample)
      at     == {i \in DOMAIN finite : finite[i].name = name}
  IN  finite[CHOOSE i \in at : \A j \in at : j <= i].value

(* all_metrics: the samples' metrics, then those of the diagnostic passes. *)
Reporting == samples \o diagnosed

ValuesOf(name) ==
  LET reporting == SelectSeq(Reporting, LAMBDA s : name \in Names(FiniteMetrics(s)))
  IN  [i \in DOMAIN reporting |-> LastValue(reporting[i], name)]

(* Names in the order in which they were first reported.                   *)
FirstSeen(metrics) ==
  FoldLeft(LAMBDA seen, m : IF m.name \in ToSet(seen) THEN seen ELSE Append(seen, m.name),
           <<>>, metrics)

MetricOrder == FirstSeen(FlattenSeq([i \in DOMAIN Reporting |-> FiniteMetrics(Reporting[i])]))

aggregate_metrics ==
  [i \in DOMAIN MetricOrder |->
     LET sorted == Sorted(ValuesOf(MetricOrder[i]))
     IN  [name    |-> MetricOrder[i],
          total   |-> Total(sorted),
          median  |-> PercentileOfSorted(sorted, 1, 2),
          p95     |-> PercentileOfSorted(sorted, 19, 20),
          min     |-> Head(sorted),
          max     |-> sorted[Len(sorted)],
          samples |-> Len(sorted)]]

(* Energy is summed over the samples that report it before it is divided   *)
(* by the operations and the time of those samples; what a diagnostic pass *)
(* reports has no operations and is left out.                              *)
IsEnergy(metric) == metric.finite /\ metric.energy /\ metric.value >= 0

EnergyReadings ==
  FlattenSeq([i \in DOMAIN samples |->
    LET energy == SelectSeq(samples[i].metrics, IsEnergy)
    IN  [j \in DOMAIN energy |-> [name       |-> energy[j].name,
                                  joules     |-> energy[j].value,
                                  iterations |-> samples[i].iterations,
                                  duration   |-> samples[i].duration]]])

rapl_aggregate_summaries ==
  LET domains == FirstSeen(EnergyReadings)
  IN  [d \in DOMAIN domains |->
        LET of  == SelectSeq(EnergyReadings, LAMBDA r : r.name = domains[d])
            ops == Total([i \in DOMAIN of |-> of[i].iterations])
            sec == Total([i \in DOMAIN of |-> of[i].duration])
            sum == Total([i \in DOMAIN of |-> of[i].joules])
        IN  [name   |-> domains[d],
             joules |-> sum,
             per_op |-> IF ops > 0 THEN <<Ratio(sum, ops)>> ELSE <<>>,
             watts  |-> IF sec > 0 THEN <<Ratio(sum, sec)>> ELSE <<>>]]

(* What is said of the windows of the samples that report any energy.      *)
rapl_window_quality_warnings ==
  LET energetic == SelectSeq(samples, LAMBDA s : \E m \in ToSet(s.metrics) : IsEnergy(m))
      durations == [i \in DOMAIN energetic |-> energetic[i].duration]
  IN  {warning \in {"short windows", "weak aggregate"} :
         /\ durations # <<>>
         /\ CASE warning = "short windows"  -> \E d \in ToSet(durations) : d < ReliableSample
              [] warning = "weak aggregate" -> Total(durations) < ReliableTotal}

------------------------------------------------------------------------------
benchmark_stats_from_samples(throughput) ==
  LET mean        == Divide(summed, Len(samples))
      Of(counter) == Reading(mean.counters, counter)
      rates       == Sorted(SampleThroughput(throughput.amount))
      latency     == Sorted(SampleLatency)
      median      == PercentileOfSorted(latency, 1, 2)
  IN  [throughput                |-> throughput,
       samples                   |-> Len(samples),
       operations                |-> mean.iterations,
       total_duration            |-> summed.duration,
       throughput_per_sec        |-> throughput.amount * Ratio(mean.iterations, mean.duration),
       ns_per_op                 |-> Ratio(mean.duration, mean.iterations),
       has                       |-> DOMAIN mean.counters,
       per_op                    |-> [c \in Counters |-> Ratio(Of(c), mean.iterations)],
       ipc                       |-> Ratio(Of("instructions"), Of("cycles")),
       branch_miss_rate          |-> Ratio(Of("branch_misses"), Of("branches")),
       cache_miss_percent        |-> Ratio(Of("cache_misses"), Of("cache_references")),
       frontend_stall_percent    |-> Ratio(Of("stalled_cycles_frontend"), Of("cycles")),
       backend_stall_percent     |-> Ratio(Of("stalled_cycles_backend"), Of("cycles")),
       variation                 |-> Variation(rates),
       sample_throughput_per_sec |-> SampleThroughput(throughput.amount),
       sample_latency_ns_per_op  |-> SampleLatency,
       median_throughput_per_sec |-> PercentileOfSorted(rates, 1, 2),
       median_ns_per_op          |-> median,
       p95_ns_per_op             |-> PercentileOfSorted(latency, 19, 20),
       mad_ns_per_op             |-> MedianAbsoluteDeviation(latency, median),
       outlier_count             |-> TukeyOutliers(latency),
       metrics                   |-> aggregate_metrics,
       energy                    |-> rapl_aggregate_summaries,
       sample_metrics            |-> [i \in DOMAIN samples |-> FiniteMetrics(samples[i])]]

------------------------------------------------------------------------------
Summarised == stats # NoStats

(* A median leaves at most half of the samples on either side and the 95th *)
(* percentile at most a twentieth of the gaps above, whatever the order in *)
(* which the samples were taken.                                           *)
QuantilesSplit(values, median, p95) ==
  LET n     == Len(values)
      below == {i \in DOMAIN values : 2 * values[i] < median}
      above == {i \in DOMAIN values : 2 * values[i] > median}
      tail  == {i \in DOMAIN values : 20 * values[i] > p95}
  IN  n > 0 => /\ 2 * Cardinality(below) <= n
               /\ 2 * Cardinality(above) <= n
               /\ 20 * Cardinality(tail) < n + 19
               /\ 10 * median <= p95

(* What comparison.rs and session.rs recompute from the persisted,         *)
(* chronological samples is what the case printed and persisted.           *)
RecomputedAgrees ==
  LET latency == stats.sample_latency_ns_per_op
  IN  /\ Percentile(latency, 1, 2) = stats.median_ns_per_op
      /\ Percentile(latency, 19, 20) = stats.p95_ns_per_op
      /\ MedianAbsoluteDeviation(latency, Percentile(latency, 1, 2)) = stats.mad_ns_per_op
      /\ Percentile(stats.sample_throughput_per_sec, 1, 2) = stats.median_throughput_per_sec

(* Each metric has one summary, which counts every sample and diagnostic   *)
(* pass that reported a finite value of it once; an energy domain loses no *)
(* reading of a sample, and takes none from a diagnostic pass.             *)
MetricsCounted ==
  /\ \A i, j \in DOMAIN stats.metrics : stats.metrics[i].name = stats.metrics[j].name => i = j
  /\ \A s \in DOMAIN Reporting : \A m \in ToSet(Reporting[s].metrics) :
       m.finite => \E i \in DOMAIN stats.metrics :
                      /\ stats.metrics[i].name = m.name
                      /\ stats.metrics[i].min <= LastValue(Reporting[s], m.name)
                      /\ stats.metrics[i].max >= LastValue(Reporting[s], m.name)
  /\ Total([i \in DOMAIN stats.metrics |-> stats.metrics[i].samples])
       = Total([s \in DOMAIN Reporting |-> Cardinality(Names(FiniteMetrics(Reporting[s])))])
  /\ Total([d \in DOMAIN stats.energy |-> stats.energy[d].joules])
       = Total([s \in DOMAIN samples |->
                  LET energy == SelectSeq(samples[s].metrics, IsEnergy)
                  IN  Total([i \in DOMAIN energy |-> energy[i].value])])

(* An energy summary without a warning rests on no window that is too      *)
(* short, and a case with one on no total that is.                         *)
EnergyIsQualified ==
  LET warnings == rapl_window_quality_warnings
  IN  /\ "short windows" \notin warnings =>
            \A r \in ToSet(EnergyReadings) : r.duration >= ReliableSample
      /\ stats.energy # <<>> /\ "weak aggregate" \notin warnings =>
            stats.total_duration >= ReliableTotal
      /\ stats.energy = <<>> => warnings = {}

(* The summary of a case follows from its samples: its quantiles split the *)
(* samples, agree with what every later comparison recomputes from the     *)
(* persisted lists, its metric summaries count each report once, and its   *)
(* energy is qualified where the windows behind it are too short.          *)
SummaryFollowsSamples ==
  Summarised => /\ QuantilesSplit(stats.sample_latency_ns_per_op,
                                  stats.median_ns_per_op, stats.p95_ns_per_op)
                /\ RecomputedAgrees
                /\ MetricsCounted
                /\ EnergyIsQualified
==============================================================================
