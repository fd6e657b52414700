---------------------------- MODULE ConcurrentCase ----------------------------
(***************************************************************************)
(* One concurrent benchmark case: run_concurrent_with_options and          *)
(* warm_up_concurrent_engine in bench.rs, around the samples modelled by   *)
(* ConcurrentSample.                                                       *)
(*                                                                         *)
(* The lifecycle observer and the whole-sample backend are created once    *)
(* and serve every sample of the case; the shared context and the worker   *)
(* threads are new for each sample.  Warm-up samples run the same          *)
(* callbacks, without the backend, and leave nothing behind.               *)
(***************************************************************************)
EXTENDS ConcurrentSample, Sequences

CONSTANTS
    TargetSamples,    \* config.target_samples
    MaxWarmUps,       \* bound: warm-up samples that fit into warm_up_duration
    BackendDurations, \* durations collect() may report; 0 leaves the wall time
    BackendOps        \* iterations collect() may report; 0 leaves the count

ASSUME CaseAssumption ==
    /\ TargetSamples \in Nat \ {0}
    /\ MaxWarmUps \in Nat
    /\ BackendDurations \subseteq Nat
    /\ BackendOps \subseteq Nat

VARIABLES
    stage,      \* the coordinator's position in the case
    index,      \* ConcurrentSampleInfo::sample_index, local to the phase
    lifecycle,  \* the sample whose before_sample has not been followed by
                \* its after_sample, or NoSample
    report,     \* the sample as backend.collect() left it
    allResults, \* all_results: one entry per persisted sample
    allMetrics, \* all_metrics: the lifecycle metrics of each sample
    session     \* cases the session has recorded

caseVars == <<stage, index, lifecycle, report, allResults, allMetrics, session>>
allVars == <<vars, caseVars>>

NoSample == [phase |-> "none", index |-> 0]
SampleInfo == [phase |-> phase, index |-> index]
NoReport == [iterations |-> 0, duration |-> 0]

CaseInit ==
    /\ SampleInit("warm_up")
    /\ stage = "warm_up"
    /\ index = 0
    /\ lifecycle = NoSample
    /\ report = NoReport
    /\ allResults = <<>>
    /\ allMetrics = <<>>
    /\ session = <<>>

-------------------------------------------------------------------------------
\* while Instant::now() < warm_up_end: the clock decides whether another
\* warm-up sample starts.
NextWarmUp ==
    /\ stage = "warm_up"
    /\ index < MaxWarmUps
    /\ stage' = "before"
    /\ UNCHANGED <<vars, index, lifecycle, report, allResults, allMetrics,
                   session>>

\* Faulty variant: measured samples are counted on from the warm-up.
FinishWarmUp_CountsOn ==
    /\ stage = "warm_up"
    /\ stage' = "measure"
    /\ phase' = "measurement"
    /\ UNCHANGED <<pc, arrived, counters, backend, startSet, elapsed, ops,
                   joined, result, index, lifecycle, report, allResults,
                   allMetrics, session>>

FinishWarmUp ==
    /\ stage = "warm_up"
    /\ stage' = "measure"
    /\ index' = 0
    /\ phase' = "measurement"
    /\ UNCHANGED <<pc, arrived, counters, backend, startSet, elapsed, ops,
                   joined, result, lifecycle, report, allResults, allMetrics,
                   session>>

\* for sample in 0..config.target_samples
NextSample ==
    /\ stage = "measure"
    /\ index < TargetSamples
    /\ stage' = "before"
    /\ UNCHANGED <<vars, index, lifecycle, report, allResults, allMetrics,
                   session>>

\* factory(total_threads), then lifecycle.before_sample(); the sample starts
\* with new barriers, a new start instant and unspawned threads.  The backend
\* is the one of the previous sample.
FreshSample ==
    /\ pc' = [p \in Party |-> IF p = Coordinator THEN "spawn" ELSE "unspawned"]
    /\ arrived' = [b \in Barriers |-> {}]
    /\ counters' = [t \in Threads |-> "none"]
    /\ startSet' = FALSE
    /\ elapsed' = 0
    /\ ops' = [t \in Threads |-> 0]
    /\ joined' = 0
    /\ result' = Zero
    /\ UNCHANGED <<phase, backend>>

\* Faulty variant: the observer is told of measured samples only.
BeforeSample_Quiet ==
    /\ stage = "before"
    /\ stage' = "sample"
    /\ lifecycle' = IF phase = "measurement" THEN SampleInfo ELSE lifecycle
    /\ FreshSample
    /\ UNCHANGED <<index, report, allResults, allMetrics, session>>

BeforeSample ==
    /\ stage = "before"
    /\ stage' = "sample"
    /\ lifecycle' = SampleInfo
    /\ FreshSample
    /\ UNCHANGED <<index, report, allResults, allMetrics, session>>

RunSample ==
    /\ stage = "sample"
    /\ SampleStep
    /\ UNCHANGED caseVars

\* Faulty variants: the sample returns before backend.end(), and the backend's
\* window is not collected.
SampleReturns_Open ==
    /\ stage = "sample"
    /\ pc[Coordinator] = "end"
    /\ stage' = IF phase = "measurement" THEN "collect" ELSE "after"
    /\ report' = [iterations |-> result.total, duration |-> result.wall]
    /\ UNCHANGED <<vars, index, lifecycle, allResults, allMetrics, session>>

SampleReturns_Uncollected ==
    /\ stage = "sample"
    /\ pc[Coordinator] = "done"
    /\ stage' = "after"
    /\ report' = [iterations |-> result.total, duration |-> result.wall]
    /\ UNCHANGED <<vars, index, lifecycle, allResults, allMetrics, session>>

SampleReturns ==
    /\ stage = "sample"
    /\ pc[Coordinator] = "done"
    /\ stage' = IF phase = "measurement" THEN "collect" ELSE "after"
    /\ report' = [iterations |-> result.total, duration |-> result.wall]
    /\ UNCHANGED <<vars, index, lifecycle, allResults, allMetrics, session>>

\* Faulty variants: the samples so far are recorded, and the sample is retried.
SamplePanics_Records ==
    /\ stage = "sample"
    /\ pc[Coordinator] = "aborted"
    /\ stage' = "reported"
    /\ session' = Append(session, [samples |-> allResults,
                                   metrics |-> allMetrics])
    /\ UNCHANGED <<vars, index, lifecycle, report, allResults, allMetrics>>

SamplePanics_Retries ==
    /\ stage = "sample"
    /\ pc[Coordinator] = "aborted"
    /\ stage' = "before"
    /\ UNCHANGED <<vars, index, lifecycle, report, allResults, allMetrics,
                   session>>

\* A panic leaves run_concurrent_with_options and ends the process: the
\* lifecycle is not told, and no case of the session is ever persisted.
SamplePanics ==
    /\ stage = "sample"
    /\ pc[Coordinator] = "aborted"
    /\ stage' = "aborted"
    /\ UNCHANGED <<vars, index, lifecycle, report, allResults, allMetrics,
                   session>>

\* Faulty variant: what the backend reports is taken, zero included.
Override_Always(reported, measured) == reported

\* apply_concurrent_backend_results
Override(reported, measured) == IF reported > 0 THEN reported ELSE measured

\* backend.collect(), then apply_concurrent_backend_results
CollectBackend(duration, iterations) ==
    /\ stage = "collect"
    /\ stage' = "after"
    /\ IF BackendPresent
       THEN /\ report' = [iterations |-> Override(iterations, report.iterations),
                          duration |-> Override(duration, report.duration)]
            /\ backend' = "idle"
       ELSE UNCHANGED <<report, backend>>
    /\ UNCHANGED <<phase, pc, arrived, counters, startSet, elapsed, ops, joined,
                   result, index, lifecycle, allResults, allMetrics, session>>

\* lifecycle.after_sample(): its metrics are kept with a measured sample, and
\* discarded after a warm-up sample.
AfterSample ==
    /\ stage = "after"
    /\ lifecycle' = NoSample
    /\ index' = index + 1
    /\ IF phase = "measurement"
       THEN /\ stage' = "measure"
            /\ allMetrics' = Append(allMetrics, lifecycle)
            /\ allResults' = Append(allResults, report)
       ELSE /\ stage' = "warm_up"
            /\ UNCHANGED <<allMetrics, allResults>>
    /\ UNCHANGED <<vars, report, session>>

\* Faulty variant: the case is recorded, but not left.
Report_Again ==
    /\ stage = "measure"
    /\ index = TargetSamples
    /\ session' = Append(session, [samples |-> allResults,
                                   metrics |-> allMetrics])
    /\ UNCHANGED <<vars, stage, index, lifecycle, report, allResults,
                   allMetrics>>

\* benchmark_stats_from_samples, then session.add_result
Report ==
    /\ stage = "measure"
    /\ index = TargetSamples
    /\ stage' = "reported"
    /\ session' = Append(session, [samples |-> allResults,
                                   metrics |-> allMetrics])
    /\ UNCHANGED <<vars, index, lifecycle, report, allResults, allMetrics>>

CaseOver == stage \in {"reported", "aborted"}

CaseStep ==
    \/ NextWarmUp \/ FinishWarmUp \/ NextSample \/ BeforeSample
    \/ SampleReturns \/ SamplePanics
    \/ \E d \in BackendDurations, n \in BackendOps : CollectBackend(d, n)
    \/ AfterSample \/ Report

CaseTerminating == CaseOver /\ UNCHANGED allVars

CaseNext == CaseStep \/ RunSample \/ CaseTerminating

\* The coordinator thread runs, and so does every thread of the sample.
CaseFairness ==
    /\ WF_allVars(CaseStep)
    /\ WF_allVars(RunSample /\ CoordinatorStep)
    /\ \A t \in Threads : WF_allVars(RunSample /\ WorkerStep(t))
    /\ WF_allVars(RunSample /\ Tick)

CaseSpec == CaseInit /\ [][CaseNext]_allVars
FairCaseSpec == CaseSpec /\ CaseFairness

-------------------------------------------------------------------------------
(* What a concurrent case must guarantee. *)

CaseTypeOK ==
    /\ TypeOK
    /\ stage \in {"warm_up", "measure", "before", "sample", "collect", "after",
                  "reported", "aborted"}
    /\ index \in 0..(MaxWarmUps + TargetSamples)
    /\ lifecycle \in {NoSample} \cup [phase : Phases, index : Nat]
    /\ report \in [iterations : Nat, duration : Nat]
    /\ Len(allResults) \in 0..TargetSamples
    /\ Len(session) \in 0..1

\* Both callbacks, and collect(), run outside the backend's window, when no
\* thread of the sample is alive.
CallbacksOutsideWindow ==
    stage \in {"before", "collect", "after"} =>
        /\ \A t \in Threads : pc[t] \in {"unspawned", "finished"}
        /\ backend # "begun"

\* A worker function only ever sees the shared context between before_sample
\* and after_sample of the sample it belongs to.
WorkersSeeTheirSample ==
    \A t \in Threads : pc[t] \in {"run", "collect"} => lifecycle = SampleInfo

\* ConcurrentSampleLifecycle: before_sample and after_sample enclose all work
\* of their sample and no work of another, and none of it is alive while they
\* change the context that it reads.
LifecycleEnclosesSample == CallbacksOutsideWindow /\ WorkersSeeTheirSample

\* The case's one backend is never begun again before the window it measured
\* last was collected, so no sample inherits another sample's observations.
BackendWindowsDoNotOverlap ==
    [][backend' = "begun" /\ backend # "begun" => backend = "idle"]_allVars

\* Results and metrics of the persisted samples line up, in chronological
\* order, and warm-up leaves nothing in either.
SamplesLineUp ==
    /\ Len(allMetrics) = Len(allResults)
    /\ \A i \in 1..Len(allMetrics) :
          allMetrics[i] = [phase |-> "measurement", index |-> i - 1]

\* The session records a case with all of its samples or not at all: a panic
\* in any sample leaves no partial result.
AllSamplesOrNone ==
    /\ stage # "reported" => session = <<>>
    /\ \A i \in 1..Len(session) :
          Len(session[i].samples) = TargetSamples

\* Throughput divides by a sample's duration, which is never zero: the wall
\* time covers the deadline, and collect() replaces it only by more than zero.
PersistedDurationsPositive ==
    \A i \in 1..Len(allResults) : allResults[i].duration > 0

\* What a case leaves behind: one result, of positive duration, and one list of
\* metrics per measured sample, and a record of the case only with all of them.
RecordsAreConsistent ==
    SamplesLineUp /\ AllSamplesOrNone /\ PersistedDurationsPositive

\* Every case ends, reported or with the panic of one of its workers.
CaseEnds == <>CaseOver
===============================================================================
