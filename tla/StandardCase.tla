----------------------------- MODULE StandardCase -----------------------------
(***************************************************************************)
(* BenchmarkRunner over a list of single-threaded cases (bench.rs): the    *)
(* filter and the cooldown, calibrate_engine, the sample loop of           *)
(* run_with_chunk_factory_and_throughput (`bench`) or of its twin for      *)
(* `bench_sample`, the diagnostic pass, and session.add_result.            *)
(*                                                                         *)
(* How long the benchmark function takes, what its backend leaves in       *)
(* results.duration and what it reports itself are choices.  Durations are *)
(* whole ticks; 0 stands for a duration of zero, or, on the host clock of  *)
(* the chunk search, for one that is too short to scale by.                *)
(***************************************************************************)
EXTENDS Integers, Sequences

CONSTANTS
    Cases,             \* the registered cases
    MinChunk, MaxChunk,\* MIN_CHUNK_SIZE, MAX_CHUNK_SIZE
    TargetDuration,    \* TARGET_CHUNK_DURATION
    Passes,            \* passes of the chunk search
    MinSamples, MaxSamples,
    BenchmarkDuration, \* runtime.benchmark_duration
    HostDurations,     \* what the host clock may measure
    BackendDurations,  \* what collect() may leave in results.duration
    PrimaryDurations,  \* primary_duration of a bench_sample result
    MaxWarmUps,        \* bound: fixed chunks that fit into the warm-up
    Panics             \* may the benchmark function panic?

None == -1

\* preferred: T::chunk_size(), 0 for None; diagnostics: diagnostic_samples
BenchCase == [selected : BOOLEAN, bench_sample : BOOLEAN, preferred : Nat,
              diagnostics : Nat]

ASSUME CaseAssumption ==
    /\ Cases \in Seq(BenchCase)
    /\ MinChunk \in Nat \ {0} /\ MaxChunk \in Nat /\ MinChunk <= MaxChunk
    /\ TargetDuration \in Nat \ {0} /\ BenchmarkDuration \in Nat \ {0}
    /\ Passes \in Nat /\ MaxWarmUps \in Nat
    /\ MinSamples \in Nat \ {0} /\ MaxSamples \in Nat /\ MinSamples <= MaxSamples
    /\ HostDurations \subseteq Nat /\ BackendDurations \subseteq Nat
    /\ PrimaryDurations \subseteq Nat \cup {None}
    /\ Panics \in BOOLEAN

VARIABLES
    case,       \* the case registered last
    stage,      \* the runner's position in it
    started,    \* cases_started
    cooled,     \* history: cooldowns slept
    chunk,      \* the chunk size under trial, then config.chunk_size
    tried,      \* passes of the chunk search
    rate,       \* the measured <<chunk, duration>>, or <<>>
    warmUps,    \* warm_up_count
    warmUpTime, \* measured_warm_up_duration
    target,     \* config.target_samples
    sample,     \* the loop variable of the sample loop
    results,    \* all_results
    metrics,    \* all_metrics: what collect() left, sample by sample
    diagnosed,  \* what execute_diagnostic_pass returns
    session     \* the results of the session

search == <<chunk, tried, rate>>
warm == <<warmUps, warmUpTime>>
collected == <<sample, results, metrics, diagnosed>>
vars == <<case, stage, started, cooled, search, warm, target, collected, session>>

Init ==
    /\ case = 0 /\ stage = "next"
    /\ started = 0 /\ cooled = 0
    /\ chunk = MinChunk /\ tried = 0 /\ rate = <<>>
    /\ warmUps = 0 /\ warmUpTime = 0 /\ target = 0
    /\ sample = 0 /\ results = <<>> /\ metrics = <<>> /\ diagnosed = <<>>
    /\ session = <<>>

Case == Cases[case]
Fixed == Case.preferred # 0

-------------------------------------------------------------------------------
\* should_run rejects the case before anything is counted.
SkipCase ==
    /\ stage = "next" /\ case < Len(Cases)
    /\ ~Cases[case + 1].selected
    /\ case' = case + 1
    /\ UNCHANGED <<stage, started, cooled, search, warm, target, collected, session>>

\* begin_case: fetch_add, and a sleep if a case ran before (case_cooldown is
\* taken to be positive).
Cooldown == IF started > 0 THEN 1 ELSE 0

BeginCase ==
    /\ stage = "next" /\ case < Len(Cases)
    /\ Cases[case + 1].selected
    /\ case' = case + 1
    /\ cooled' = cooled + Cooldown
    /\ started' = started + 1
    /\ stage' = IF Cases[case + 1].preferred # 0 THEN "warm_up" ELSE "search"
    /\ chunk' = IF Cases[case + 1].preferred # 0
                THEN Cases[case + 1].preferred ELSE MinChunk
    /\ tried' = 0 /\ rate' = <<>>
    /\ warmUps' = 0 /\ warmUpTime' = 0 /\ target' = 0
    /\ sample' = 0 /\ results' = <<>> /\ metrics' = <<>> /\ diagnosed' = <<>>
    /\ UNCHANGED session

-------------------------------------------------------------------------------
(* calibrate_engine *)

Primaries == IF Case.bench_sample THEN PrimaryDurations ELSE {None}

Clamp(n, low, high) == IF n < low THEN low ELSE IF n > high THEN high ELSE n

\* Faulty variant: the scaled chunk has no upper limit.
Scaled_Unbounded(size, duration) ==
    IF duration = 0 THEN size * 10
    ELSE (2 * size * TargetDuration + duration) \div (2 * duration)

\* The next chunk size: ten times the last when its duration is too short to
\* scale by, else the rounded size that would have taken TargetDuration.
Scaled(size, duration) ==
    IF duration = 0 THEN Clamp(size * 10, 0, MaxChunk)
    ELSE Clamp((2 * size * TargetDuration + duration) \div (2 * duration),
               MinChunk, MaxChunk)

OnTarget(duration) ==
    5 * duration >= 4 * TargetDuration /\ 5 * duration <= 6 * TargetDuration

\* One pass of `for i in 0..15`: the search ends on target, when the size no
\* longer changes, or with the last pass.
SearchChunk(host, primary) ==
    /\ stage = "search" /\ tried < Passes
    /\ LET duration == IF primary = None THEN host ELSE primary
           next == Scaled(chunk, duration)
           found == duration # 0 /\ OnTarget(duration)
       IN /\ rate' = IF duration = 0 THEN rate ELSE <<chunk, duration>>
          /\ chunk' = IF found THEN chunk ELSE next
          /\ stage' = IF found \/ next = chunk THEN "warm_up" ELSE stage
    /\ tried' = tried + 1
    /\ UNCHANGED <<case, started, cooled, warm, target, collected, session>>

EndSearch ==
    /\ stage = "search" /\ tried = Passes
    /\ stage' = "warm_up"
    /\ UNCHANGED <<case, started, cooled, search, warm, target, collected, session>>

\* A warm-up chunk of a fixed size goes through the backend, and counts the
\* host's time where neither the backend nor the function reports one; that of
\* a searched size is only run.
WarmUp(host, left, primary) ==
    /\ stage = "warm_up" /\ warmUps < MaxWarmUps
    /\ LET reported == IF primary = None THEN left ELSE primary IN
       warmUpTime' = IF ~Fixed THEN warmUpTime
                     ELSE warmUpTime + (IF reported > 0 THEN reported ELSE host)
    /\ warmUps' = warmUps + 1
    /\ UNCHANGED <<case, stage, started, cooled, search, target, collected, session>>

\* The estimated duration of one chunk as <<numerator, denominator>>.
Estimate ==
    IF Fixed THEN <<warmUpTime, warmUps>>
    ELSE IF rate = <<>> THEN <<TargetDuration, 1>>
    ELSE <<chunk * rate[2], rate[1]>>

\* max_samples when the estimate is not finite or not positive
target_sample_count(estimate) ==
    IF estimate[1] = 0 \/ estimate[2] = 0 THEN MaxSamples
    ELSE Clamp((BenchmarkDuration * estimate[2]) \div estimate[1],
               MinSamples, MaxSamples)

EndWarmUp ==
    /\ stage = "warm_up"
    /\ stage' = "sample"
    /\ target' = target_sample_count(Estimate)
    /\ UNCHANGED <<case, started, cooled, search, warm, collected, session>>

-------------------------------------------------------------------------------
(* The measured samples and what follows them. *)

\* Faulty variant: the samples go on counting where the warm-up ended.
ChunkIndex_Continues == warmUps + sample

\* The chunk_index that the function and the backend are given.
ChunkIndex == sample

Measurement(left, primary) ==
    [index |-> ChunkIndex, duration |-> IF primary = None THEN left ELSE primary]

SampleMetrics == [pass |-> "sample", index |-> ChunkIndex]

\* Faulty variant: the loop runs over 0..=target_samples.
Sample_OneMore(left, primary) ==
    /\ stage = "sample" /\ sample <= target
    /\ results' = Append(results, Measurement(left, primary))
    /\ metrics' = Append(metrics, SampleMetrics)
    /\ sample' = sample + 1
    /\ UNCHANGED <<case, stage, started, cooled, search, warm, target, diagnosed,
                   session>>

\* Faulty variant: a sample of no duration leaves its metrics out.
Sample_SkipsZero(left, primary) ==
    /\ stage = "sample" /\ sample < target
    /\ results' = Append(results, Measurement(left, primary))
    /\ metrics' = IF left = 0 THEN metrics ELSE Append(metrics, SampleMetrics)
    /\ sample' = sample + 1
    /\ UNCHANGED <<case, stage, started, cooled, search, warm, target, diagnosed,
                   session>>

\* execute_standard_sample, and execute_standard_sample_with_metrics, whose
\* primary duration replaces the backend's.
Sample(left, primary) ==
    /\ stage = "sample" /\ sample < target
    /\ results' = Append(results, Measurement(left, primary))
    /\ metrics' = Append(metrics, SampleMetrics)
    /\ sample' = sample + 1
    /\ UNCHANGED <<case, stage, started, cooled, search, warm, target, diagnosed,
                   session>>

EndSamples ==
    /\ stage = "sample" /\ sample = target
    /\ stage' = "diagnose"
    /\ UNCHANGED <<case, started, cooled, search, warm, target, collected, session>>

\* execute_diagnostic_pass ends after diagnostic_samples passes, or with the
\* first that fails.
DiagnosisOver ==
    \/ Len(diagnosed) = Case.diagnostics
    \/ \E i \in DOMAIN diagnosed : diagnosed[i].pass = "failed"

Diagnose(outcome) ==
    /\ stage = "diagnose" /\ ~DiagnosisOver
    /\ diagnosed' = Append(diagnosed, [pass |-> outcome, index |-> Len(diagnosed)])
    /\ UNCHANGED <<case, stage, started, cooled, search, warm, target, sample,
                   results, metrics, session>>

\* Faulty variant: the diagnostic metrics come before those of the samples.
AllMetrics_Reversed == diagnosed \o metrics

\* all_metrics.extend(diagnostic_metrics)
AllMetrics == metrics \o diagnosed

\* Faulty variant: every entry of the shared vector is persisted as a sample.
PersistedMetrics_All ==
    [k \in 1..Len(AllMetrics) |-> [sample_index |-> k - 1, metrics |-> AllMetrics[k]]]

\* per_sample_metrics.iter().take(sample_count).enumerate()
PersistedMetrics ==
    [k \in 1..Clamp(target, 0, Len(AllMetrics)) |->
        [sample_index |-> k - 1, metrics |-> AllMetrics[k]]]

\* The pairs whose energy, operations and time are summed:
\* all_results.iter().zip(per_sample_metrics).take(sample_count)
EnergyPairs ==
    [k \in 1..Clamp(Clamp(target, 0, Len(results)), 0, Len(AllMetrics)) |->
        <<results[k].index, AllMetrics[k]>>]

\* benchmark_stats_from_samples, then session.add_result
Report ==
    /\ stage = "diagnose" /\ DiagnosisOver
    /\ stage' = "next"
    /\ session' = Append(session, [case |-> case, execution_index |-> Len(session),
                                   count |-> target, samples |-> results,
                                   aggregated |-> AllMetrics,
                                   sample_metrics |-> PersistedMetrics,
                                   energy |-> EnergyPairs])
    /\ UNCHANGED <<case, started, cooled, search, warm, target, collected>>

\* The benchmark function, its factory, its backend or its diagnostic pass panics.
CasePanics ==
    /\ Panics
    /\ stage \in {"search", "warm_up", "sample", "diagnose"}
    /\ stage' = "panicked"
    /\ UNCHANGED <<case, started, cooled, search, warm, target, collected, session>>

Over == stage = "panicked" \/ (stage = "next" /\ case = Len(Cases))
Terminating == Over /\ UNCHANGED vars

RunnerStep ==
    \/ SkipCase \/ BeginCase
    \/ stage \in {"search", "warm_up", "sample"} /\ \E primary \in Primaries :
          \/ \E host \in HostDurations : SearchChunk(host, primary)
          \/ \E host \in HostDurations \ {0}, left \in BackendDurations :
                WarmUp(host, left, primary)
          \/ \E left \in BackendDurations : Sample(left, primary)
    \/ EndSearch \/ EndWarmUp \/ EndSamples
    \/ \E outcome \in {"diagnostic", "failed"} : Diagnose(outcome)
    \/ Report \/ CasePanics

Next == RunnerStep \/ Terminating

Spec == Init /\ [][Next]_vars

-------------------------------------------------------------------------------
(* What the runner must guarantee. *)

TypeOK ==
    /\ case \in 0..Len(Cases)
    /\ stage \in {"next", "search", "warm_up", "sample", "diagnose", "panicked"}
    /\ started \in 0..case /\ cooled \in 0..started
    /\ chunk \in Nat /\ tried \in 0..Passes
    /\ rate = <<>> \/ (rate[1] \in Nat /\ rate[2] \in Nat \ {0})
    /\ warmUps \in 0..MaxWarmUps /\ warmUpTime \in Nat
    /\ target \in 0..MaxSamples
    /\ sample \in 0..target
    /\ Len(results) <= target /\ Len(metrics) <= target
    /\ Len(session) <= case

\* Whatever durations are measured, zero included, no chunk is empty or beyond
\* the limit of the search, and every case that gets as far as its samples runs
\* between min_samples and max_samples of them.
CalibrationWithinLimits ==
    stage \in {"search", "warm_up", "sample", "diagnose"} =>
        /\ chunk > 0
        /\ Fixed \/ chunk <= MaxChunk
        /\ stage \in {"sample", "diagnose"} => target \in MinSamples..MaxSamples

\* A report has as many samples as were to be taken.  Sample k was measured with
\* chunk_index k, and so were the metrics persisted in its place and the energy
\* added up with its time, whatever the warm-up counted and the diagnostic passes
\* put into the vector of the metrics; these are only in the aggregate, after the
\* samples.
SamplesAreIdentified ==
    \A i \in DOMAIN session : LET of == session[i] IN
        /\ Len(of.samples) = of.count /\ Len(of.sample_metrics) = of.count
        /\ Len(of.energy) = of.count
        /\ \A k \in 1..of.count :
              /\ of.samples[k].index = k - 1
              /\ of.sample_metrics[k] =
                    [sample_index |-> k - 1,
                     metrics |-> [pass |-> "sample", index |-> k - 1]]
              /\ of.energy[k] = <<k - 1, [pass |-> "sample", index |-> k - 1]>>
        /\ \A k \in DOMAIN of.aggregated :
              of.aggregated[k].pass = "sample" <=> k <= of.count

\* MeasurementBackend::collect: "If a backend leaves results.duration at
\* Duration::ZERO, the runner will fall back to host_elapsed".
ZeroDurationFallsBack ==
    \A i \in DOMAIN session : \A k \in DOMAIN session[i].samples :
        ~Cases[session[i].case].bench_sample => session[i].samples[k].duration > 0
===============================================================================
