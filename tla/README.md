# micromeasure: a verification project

TLA+ modules of [micromeasure](../src/README.md), a Rust crate for micro-benchmarks
with hardware counters, energy and memory-bandwidth evidence, concurrent workers,
persisted reports and their comparison. The models are written from the Rust source;
the numbers below are those of the configurations in this directory.

    tlc -workers 2 -config concurrent_sample.cfg MCConcurrentSample.tla
    tlapm Concurrent_proofs.tla

## 1. Inventory

| Component | State it keeps | Operations | What is hard | What makes it correct |
|---|---|---|---|---|
| Concurrent sample (`bench.rs`, `execute_concurrent_sample_inner`, `execute_concurrent_worker`) | three `Barrier`s, `start_instant: OnceLock`, join handles, per-worker counters, the whole-sample backend | spawn, prepare, activate, begin, start, run, collect, join, end | every interleaving of the threads; panics at each point | nothing is measured outside the window; the window closes last; results are merged once; it ends |
| Concurrent case (`run_concurrent_with_options`, `warm_up_concurrent_engine`) | sample index, lifecycle, one backend, `all_results`, `all_metrics`, the session | warm-up samples, measured samples, callbacks, collect, record | state that outlives one sample; a panic half-way | vectors line up; callbacks run alone; all samples or none |
| Standard runner (`BenchmarkRunner`, `calibrate_engine`, the sample loops) | `cases_started`, chunk size, warm-up totals, samples, diagnostics | filter, cooldown, chunk search, warm-up, sample, diagnostic pass, record | zero and tiny durations; warm-up and diagnostics share vectors with samples | limits of chunk and sample count; identity of samples |
| Benchmark groups (`launcher.rs`, the handle types of `bench.rs`) | the filter, the order of cases, the options of each handle | command line, builder methods, entry points of a case | options copied by hand through six types; a filter guessed from mixed arguments | a case runs with what its chain asked for last |
| Statistics (`bench/stats.rs`, `Results::add`) | the samples and the sums of a case | quantiles, deviations, outliers, metric and energy summaries, diagnosis | filtered samples, empty inputs, values without a rate | the persisted numbers follow from the persisted samples |
| Linux perf backend (`bench/perf.rs`, `bench/perf_memory.rs`) | the open counters of a window, and what it learnt: `prefer_individual`, the RAPL configs, the memory discovery, `auto_disabled`, the observed flags | `prepare`, `begin_prepared`, `end`, `collect`, the scopes | partial refusal by the kernel, differently in each window; early returns; sticky flags | no counter outlives its window; fallbacks cost one window; the persisted scope fits the evidence |
| Affinity and pinning (`bench/affinity.rs`, `threading.rs`) | the saved CPU mask, the list of cores | save, probe, pin, restore, select cores | refusals at each call; masks that threads inherit | the mask found is the mask left; no two workers share a core |
| Report store and launcher (`launcher.rs`, `session.rs`) | report files, temporary files, the selected baseline | measure, list, open, create, write, sync, rename, compare | concurrent processes, crashes, failing I/O | reports are whole; evidence is kept; the baseline is the right one |
| Session summary (`session.rs`) | none | pair, compare each statistic and counter, diagnose, regressions, insights | three comparisons with different thresholds of the same numbers | the lines of one summary do not contradict each other |
| Context and provenance (`context.rs`, `session.rs`) | requested and resolved context | resolve over defaults, validate | blank and unknown identities | runners are known before reports are compared |
| Comparison and policy (`comparison.rs`, `series.rs`, `policy.rs`) | none | recognise, validate, pair, classify | damaged documents, duplicate identities, two lists of the same checks | a one-to-one pairing, symmetric verdicts, no pass without evidence |
| Suite and command (`suite.rs`, `micromeasure-cli`) | inputs, outputs, temporaries, the exit status | load, compare suites, gate, write two artefacts, print | several suites, failing I/O and kills between two outputs | the gate reflects the documents; outputs are whole |
| Rendering, CUDA and GPU counters, Odin port | - | - | - | see section 7 |

The launcher parses the filter and creates the runner; its closure derives handles,
whose cases append to one `BenchmarkSession` behind a mutex. A case owns one measurement
backend and calls it once per sample; the concurrent case also gives every worker thread
a backend of its own, and both kinds of case choose cores for their threads first. The
samples of a case become its statistics. The finished session is summarised against an
earlier one and persisted by the launcher; a later process, or the command, reads it back.

`PROJECT.json` lists every component with its sources and status, the map from each
definition to the lines it models, and the hazards, each at the line where it bites with
the property that covers it.

## 2. Modules

| Module | Composes | Instance | Models |
|---|---|---|---|
| `SampleWindow` | - | - | what a concurrent sample promises, abstractly |
| `ConcurrentSample` | refines `SampleWindow` | `MCConcurrentSample` | one sample, its threads and barriers |
| `ConcurrentCase` | `ConcurrentSample` | `MCConcurrentCase` | a case around its samples |
| `StandardCase` | - | `MCStandardCase` | a list of single-threaded cases |
| `PerfBackend` | - | `MCPerfBackend` | one counter backend over the windows of a case |
| `Affinity` | - | `MCAffinity` | the masks of a process over three cases |
| `ReportShelf` | - | - | what a directory of reports promises, abstractly |
| `ReportStore` | refines `ReportShelf` | `MCReportStore` | processes that share a directory |
| `Quantiles` | - | - | sorted values, quantiles, deviations, outliers |
| `Statistics` | `Quantiles` | in `BenchmarkGroups` | samples to statistics |
| `Comparison` | `Quantiles` | in `CompareCommand` | documents, their comparison, the policy |
| `SessionSummary` | `Comparison` | in `BenchmarkGroups` | what the summary says |
| `BenchmarkGroups` | `Statistics`, `SessionSummary` | `MCBenchmarkGroups` | a program from its command line to its summary |
| `CompareCommand` | `Comparison` | `MCCompareCommand` | the command over files and directories |
| `Concurrent_proofs` (`ConcurrentSample` and `ConcurrentCase`), `StandardCase_proofs`, `PerfBackend_proofs`, `Affinity_proofs`, `ReportStore_proofs`, `BenchmarkGroups_proofs`, `CompareCommand_proofs`, and `Comparison_proofs` (lemmas for the last two) | the module of that name | - | the theorems of section 5 |

Each module has its parameters as CONSTANTS with a named assumption, one action per
operation, and the properties at the end. An operator whose name ends in a suffix
after an underscore and whose comment begins with "Fault" is not part of the
specification: it is the operator as a plausible bug would have it, kept beside the
correct one to show that a property notices.

### ConcurrentSample

`pc` holds the position of the coordinator (party 0) and of each worker thread.
`arrived[b]` is the set of parties that have called `wait()` on barrier `b`; `Arrive`
and `Pass` are the two halves of `Barrier::wait`. The barriers are `ready_barrier`,
`measurement_ready_barrier` and `start_barrier`. The other variables are those of the
function: `counters` (a worker's `LinuxPerfBackend`), `backend` (the whole-sample
backend), `startSet` (`start_instant`), `joined` (position in the loop over handles),
`result` (aggregate, per-role results and the wall time). `elapsed` is the clock since
the start instant; `ops` counts what a worker function does.

| Coordinator | Worker | Panics |
|---|---|---|
| `Spawn`, `BackendBegin`, `SetStart`, `Join`, `TakeWallDuration`, `BackendEnd`, `LeaveScope` | `Prepare`, `Activate`, `ReadStart`, `Work`, `StopRun`, `Collect` | `SpawnPanics`, `BackendBeginPanics`, `RunPanics`, `JoinPanics` |

`execute_concurrent_timing_only` (warm-up) and `execute_concurrent_sample_with_backend`
(measurement) are the same protocol without and with counters and backend: `phase`.
`SampleWindow` is what the sample promises without barriers or joins: workers work only
in a window, each once, and it closes after the last. `Window` and `WorkOf` are the
refinement mapping.

### ConcurrentCase

EXTENDS the sample and adds the loops around it. `RunSample` is any step of the sample
while the case is in it; the other actions are the case's own. `BeforeSample` creates
the shared context, calls the observer, and starts from fresh barriers and threads, but
keeps the one backend. `AfterSample` ends the observer's sample and pushes to
`all_results` and `all_metrics` (measurement only). `CollectBackend` applies
`apply_concurrent_backend_results`, in which a reported zero leaves the measured value.
A panic leaves the function: `SamplePanics`.

### StandardCase

The runner walks over `Cases`: `SkipCase` and `BeginCase` (filter, counter, cooldown),
then `calibrate_engine`: `SearchChunk` is one pass of the fifteen-pass search,
`WarmUp` one warm-up chunk, `EndWarmUp` the choice of the sample count. `Sample`,
`Diagnose`, `Report` are the loops that follow. `sample` is the loop variable, `results`
and `metrics` the two vectors that a sample is pushed to, each entry with the `chunk_index`
it was measured under. `AllMetrics` extends the second by what the diagnostic passes
return; `PersistedMetrics` cuts it by `take(sample_count)`, and `EnergyPairs` zips it with
the results, as `benchmark_stats_from_samples` does. Both `bench` and `bench_sample`
are covered: a `bench_sample` case may return a primary duration that replaces the
measured one. Ratios are compared by cross-multiplication, where the code uses `f64`.

### PerfBackend

One backend over the windows of one case. `mode` is the `PerfMode` of each target of
the present window, `rapl` and `memory` its other open counters; `counting` holds the kinds
of counters that were enabled and may still count, because `end()` can fail to stop them.
`collect()` clears what is open in two places, and so does the model: `ReturnEarly` when
the automatic probe gives up, `ReturnNormally` otherwise. What stays for later
windows is `preferIndividual`, `raplConfigs`, `discovery`, `autoDisabled`, and the
observed flags. Every refusal of the kernel is a choice inside the step that asks.
`samples` keeps the evidence a reader of the result sees in each sample and `persisted`
the labels, so that the two can be compared. `lost` is a history variable that counts
windows which lost a group.

### Affinity

A machine is chosen at the start: which cores exist and what sysfs says of each, the
mask the process was given, which cores have a usable PMU, and which calls the kernel
refuses. A standard case is `Acquire` (save the mask), `Probe` (one core, which moves
the thread there and back), `EndProbing`, `FillUp` (one candidate of the second loop, which
adds unusable cores if there are too few usable ones), `EndSelection`, `Pin`, `Release`
(the guard's drop). A concurrent case starts the same selection in `StartConcurrent`,
spawns its workers in `SpawnWorkers`, and each worker pins itself (`WorkerPins`). The
selection of performance cores is `detect_performance_cores` with its keys, threshold and fall-backs.

### ReportStore

Several processes and one directory. `files` is the directory, `temps` the temporary
files. A process's steps are the system calls other processes can interleave with:
listing, opening one candidate, creating, writing, synchronising, renaming. A report is
identified by the process that measured it. `second` is the clock of file names and
`writes` that of modification times. `PowerLoss` cuts short whatever was not
synchronised. `target` is a history variable: the reports that were in the directory when
it was listed, and the newest compatible one among them.
`ReportShelf` is what the store promises without any of this: a report appears under its
name at once and once only, a save may fail, and a run finds one report of its suite
before its own appears. `OnShelf` is the refinement mapping; a file that is not a whole
document maps to no report, so that a torn file would be a step the shelf does not have.
A failed write or rename removes its temporary file and ignores whether that worked: under
the fault `remove` the file may stay (`RemoveTemporary`, in `CompareCommand` as well).

### BenchmarkGroups, Statistics, SessionSummary

`Launch` is `run_benchmark_main` up to the registration closure: the filter, the
validated runtime options, the order of the cases. Handles are values: `OpenGroup` makes
one, `Configure` applies one builder method and adds the handle it returns, `Misconfigure`
is the method whose assertion refuses its argument. `Bench` ends a chain, `RunStandard`
and `RunConcurrent` are the entry points and what they pass on (the factory and its
backend, the throughput, the sample duration). `Measure` adds a sample, `RunDiagnosticPass`
the metrics of a pass, `Report` computes the statistics and appends to the session, and
`PrintSummary` compares it with an earlier report. `Statistics` and `SessionSummary` are
mostly pure: the sums, quantiles and summaries of one case, and the lines of the summary
for a list of results and an earlier one.

### Comparison and CompareCommand

`Comparison` follows a document from `parse_report_document` to `evaluate`: recognition
by document type, normalisation, both lists of validation checks in the order of the
code (an error names the check and the side), pairing, the metrics of a matched pair and
the class the policy gives it. `CompareCommand` is the process around it: `CheckArguments`,
`LoadCurrent`, `LoadBaseline`, `CompareSuites` or `CompareFails`, then for each artefact
`CreateDirectories`, `OpenTemporary`, `WriteAndSync`, `Rename`, and `RemoveTemporary`
after a failure, and `PrintResult`, which sets the exit status. Each step that touches a
file may fail, and `Kill` may come between any two.

## 3. Runs

| Run | Distinct states | Question and answer |
|---|---:|---|
| `concurrent_sample` | 12,377 | Three workers in two roles, warm-up or measurement, every modelled panic. Work, backend, wall time and results keep their order (`NoWorkOutsideWindow`, `BackendBeginsAfterWorkersReady`, `WindowClosesLast`, `MergedExactlyOnce`, `WallCoversDeadline`); the strengthening `SampleInv` that the proofs use holds; the protocol implements `SampleWindow` (`ImplementsWindow`). A coordinator that panics before the start barrier leaves the spawned workers at a barrier, and itself in `thread::scope`, for good (`StrandedForever`); in every other case the sample ends (`SampleCompletes`). |
| `concurrent_case` | 13,920 | Up to one warm-up and two measured samples, a worker that may panic, a backend that may report zeros. (A backend that panics in `begin()` hangs the case: that is `StrandedForever` of the sample, and is left out here, where cases end.) Callbacks never overlap a worker and a worker sees the context of its own sample (`LifecycleEnclosesSample`); vectors line up, durations are positive and a panic records nothing (`RecordsAreConsistent`); a window is collected before the next begins (`BackendWindowsDoNotOverlap`); the case ends (`CaseEnds`). |
| `standard_runner` | 183,626 | Skipped cases, a fixed chunk beyond the limit of the search, a searched chunk with diagnostic passes, and panics, over every sequence of the listed durations. Chunk and sample count stay within their limits (`CalibrationWithinLimits`), and as many samples are persisted as were to be taken, each with the metrics and the energy of its own window, whatever the diagnostic passes add to the shared vector (`SamplesAreIdentified`). |
| `perf_backend` | 978,189 | Three backends: counters in a changing scope with both RAPL domains and requested memory bandwidth; counters and RAPL with the automatic probe; the probe alone over four windows. At most one window loses a group (`GroupsLostOnce`), whichever way `collect()` returns, nothing stays open and nothing counts between windows (`NothingOutlivesWindow`), the probe is final (`AutoProbeIsFinal`), and the persisted scopes deny no evidence and claim none of what was requested that is missing (`ScopesMatchEvidence`). |
| `affinity` | 83,453 | A standard, a concurrent and a standard case of three workers on every topology and environment of `MCMachines`. Unless a restoration is refused, the mask comes back (`MaskIsReturned`); workers keep apart and inside the mask (`WorkersKeepApart`); where probes can tell, no core left is better than one chosen, in usability first and speed second, and performance cores are whole fast cores, unreadable ids included (`PinsPreferUsableCores`). |
| `report_store` | 852,699 | Four processes, three of one suite: with the default options, while a second passes; and automated runs with explicit baselines, an explicit, a default and a disabled destination, failing writes, renames and removals, kills and power loss. The baseline is another run's report of the right suite: the newest compatible one of the listing if that is still in place, or one that came since (`BaselineIsSound`). A failed save puts nothing in place, and leaves a temporary file only where its removal failed too (`SaveIsAllOrNothing`), evidence is saved before it is compared (`EvidenceOutlivesComparison`), and through it all the store implements `ReportShelf` (`ImplementsShelf`). |
| `benchmark_groups` | 189,301 | Programs that are each rich in one thing: command lines, chains of builder calls, lists of cases with earlier reports, or measured samples. A case runs with the last value of each option on its chain and with a backend of its own (`CasesRunAsAsked`); its numbers follow from its samples and its energy is qualified by the windows it came from (`SummaryFollowsSamples`); and the summary agrees with itself (`SummaryIsConsistent`). |
| `compare_command` | 29,510 | Every pair of some fifty documents, directories of suites, and artefacts with every failure. Documents that validate are refused only for what sets them apart (`ValidationIsEnough`); exchanging the sides exchanges the outcome (`ComparisonIsReversible`); the gate agrees with a judgement made from the documents themselves (`GateReflectsEvidence`); an output is whole or as it was, and after a result every artefact asked for is at its target, the JSON unless the Markdown has the same one (`OutputsAreWhole`). |
| `zero_duration`, `memory_identity`, `report_overwrite`, `filter_argument` | violation | The findings below. |

Each property of a passing run has a mutant in `PROJECT.json`: an operator replaced by
its faulty variant, under which TLC finds the property violated.

### Findings

1. `zero_duration`. The documentation of `MeasurementBackend::collect`
   (`bench/backend.rs:628`) promises that the runner falls back to the host clock if a
   backend leaves `results.duration` at zero. Only the fixed-chunk warm-up does. A measured
   sample of a standard case is persisted with the zero.
2. `memory_identity`. In automatic mode a memory probe that gives up while *preparing*
   or *beginning* a window disables itself, but keeps the "complete observed" flag of
   earlier windows, the warm-up's included. The result is then labelled
   `system_complete` although its samples have no memory evidence
   (`bench/perf.rs:1907`; the documented meaning is at `bench/backend.rs:450`). Giving up
   in *collect* is handled, and `perf_backend` shows that the opposite error, evidence
   under a scope that denies it, does not happen.
3. `report_overwrite`. The default file name is the second in which the session was
   created. Two runs created in the same second rename onto the same name: both say they
   were saved, and one is lost (`session.rs:742`; `book/src/reports.md:3`).
4. `filter_argument`. To pass over what cargo puts on the command line, the launcher
   ignores every argument that is a substring of the program's own path. A filter such
   as `sort` for a program called `sort_bench` is ignored too, and the whole suite runs
   (`launcher.rs:101`; `book/src/concepts.md:154`, `book/src/getting-started.md:79`).

`StrandedForever` is no contradiction of a document, and so no finding, but a reader of
the code should know of it: a backend that panics in `begin()` hangs a concurrent
benchmark rather than ending it. The models also carry, without a property about them,
behaviours that no document settles: `Results::add` sums a counter over the samples that
have it but divides by the operations of all, and `Results::divide` truncates; the
comparative diagnosis reads counters without asking whether they were collected; the
context of a session that is set twice is resolved the second time against the
provenance of the first.

## 4. Bounds and fairness

| Bound | Value | Why it is enough |
|---|---|---|
| `NumThreads` | 3 (sample), 2 (case) | Barriers and joins distinguish "this worker", "one before" and "one after"; the theorems hold for any number. Threads are not symmetric: they are joined in order. |
| `MaxElapsed`, `SampleDuration` | 2, 1 | The clock may pass the deadline before, while and after the workers look at it. |
| `MaxOps` | 1 | A worker may have done nothing or something; sums of different workers are told apart by role and by who has joined. |
| `MaxWarmUps`, `TargetSamples` | 1, 2 or 3 | A window before the measured ones, and a second measured window that can inherit from the first. |
| `Controllers`, `Tasks` | 2, 2 | All, some, or none of them are refused. |
| `Passes` | 4 (15 in the code) | From `MinChunk` the search reaches `MaxChunk` = 50 within two passes; the others shrink, settle, or end the search. |
| `Cores`, `Workers` | 4, 3 | Hyper-threads beside whole cores, or two packages with equal core ids; more workers than usable, and than allowed, cores. |
| `Processes`, `maxSecond` | 4, 0 or 1 | The process itself, an older compatible report, a newer incompatible one, and one that replaces either of them during the search; the same or different seconds. |
| `handles` | at most 4 | Every method from every type, and every pair of methods in both orders; a third shows a value that must survive two. |
| samples of a case | at most 4 | `TukeyOutliers` needs four; the other statistics are told apart by three. |
| `Scale` | 24 | The rates and latencies of the chosen samples are whole. |
| `MaxAttempts` | 2 (100 in the code) | A taken name, a free name after a taken one, and no free name. |
| documents | see `MCDocuments` | At least one document per check of either list, and one on each side of every threshold of the policy. |

Bounds that are part of a specification appear in the guards of its actions and are
named in the module. `Tick` stops at its bound. Samples, machines, programs and setups
are sets of records chosen at the start of a behaviour, so that one run covers them all.

Fairness appears in the two specifications with liveness properties, `FairSpec` and
`FairCaseSpec`: weak fairness of the coordinator, of each worker, and of the clock. The
operating system runs every runnable thread; a barrier, a join or `thread::scope` blocks
a thread by disabling its step; time passes. A worker function is assumed to look at
`should_stop()` again and again, as its contract says: that is the fairness of `StopRun`
within `WorkerStep`. Nothing is assumed of panics, refusals or crashes as such; where
they are enabled, the alternatives of the same thread are too. `concurrent_sample`
runs without deadlock checking because `LeaveScope` of a stranded sample is disabled for good
and, once the clock has reached its bound, nothing else can move: that state is the
subject of `StrandedForever`. Every other run checks deadlock; `Terminating` marks the
states where a process has ended.

## 5. Proofs

Each theorem is about the specification `Spec` of its component (`CaseSpec` for
`ConcurrentCase`), for every value of the constants. The only assumption a module's proof
uses is a named `ASSUME` about the constants, which TLC evaluates in the runs:
`SampleAssumption`, the two `CaseAssumption`s, `BackendAssumption`, `StoreAssumption`,
`AffinityAssumption`, `StatisticsAssumption`, `GroupsAssumption`, `CommandAssumption`. The last says what serde
leaves in the fields of a parsed document (`IsDocument`), and nothing of how reports are
paired or judged. In particular the number of threads,
processes, cases, cores, windows and samples is arbitrary, and so is what clocks,
backends, the kernel and the file system answer.

| Component | Theorems (the property each states) | Inductive invariant |
|---|---|---|
| Concurrent sample | `TypeCorrect` (`TypeOK`), `ProtocolCorrect` (`SampleInv`), `WorkIsMeasured` (`NoWorkOutsideWindow`), `BackendStartsLast` (`BackendBeginsAfterWorkersReady`), `ResultsComeLast` (`WindowClosesLast`), `WallIsLongEnough` (`WallCoversDeadline`), `ResultsAreMerged` (`MergedExactlyOnce`), `HangIsPermanent` (`StrandedForever`), `SampleImplementsWindow` (`ImplementsWindow`) | `SampleInv`, `DeadlineInv` |
| Concurrent case | `CaseTypeCorrect` (`CaseTypeOK`), `LifecycleIsSound` (`LifecycleEnclosesSample`), `WindowsDoNotOverlap` (`BackendWindowsDoNotOverlap`, a property of steps), `RecordsAreSound` (`RecordsAreConsistent`) | `CaseInv` |
| Standard runner | `RunnerTypeCorrect` (`TypeOK`), `CalibrationIsBounded` (`CalibrationWithinLimits`), `PersistedSamplesAreSound` (`SamplesAreIdentified`) | `RunnerInv` |
| Linux perf backend | `BackendTypeCorrect` (`TypeOK`), `WindowsAreClean` (`NothingOutlivesWindow`), `GroupsAreLostOnce` (`GroupsLostOnce`), `ProbeIsFinal` (`AutoProbeIsFinal`, a property of steps), `ScopesAreSound` (`ScopesMatchEvidence`) | `BackendInv` |
| Affinity | `AffinityTypeCorrect` (`TypeOK`), `MasksAreReturned` (`MaskIsReturned`), `WorkersStayApart` (`WorkersKeepApart`), `BestCoresArePinned` (`PinsPreferUsableCores`) | `AffinityInv`, `SelectionInv`, `RankInv` |
| Report store | `StoreTypeCorrect` (`TypeOK`), `ReportsStayWhole` (that `ReportsAreWhole`), `EvidenceIsKept` (`EvidenceOutlivesComparison`), `SavesAreAllOrNothing` (`SaveIsAllOrNothing`), `BaselinesAreSound` (`BaselineIsSound`), `StoreImplementsShelf` (`ImplementsShelf`) | `StoreInv`, `UnreadInv` |
| Compare command | `CommandTypeCorrect` (`TypeOK`), `ArtefactsAreWhole` (`OutputsAreWhole`), `ValidatedIsComparable` (`ValidationIsEnough`), `ComparisonReverses` (`ComparisonIsReversible`), `GateIsEvidence` (`GateReflectsEvidence`) | `CommandInv`, `OriginInv`, `GateInv` |
| Benchmark groups, statistics and session summary | `CasesFollowTheirChains` (`CasesRunAsAsked`), `SummaryDoesNotContradict` (`SummaryIsConsistent`) | `GroupsInv`, `NumbersInv` |

`CaseInvHolds`, `RunnerInvHolds`, `BackendInvHolds`, `AffinityInvHolds`,
`SelectionInvHolds`, `RankInvHolds`, `StoreInvHolds`, `CommandInvHolds`,
`GroupsInvHolds` and `NumbersInvHolds` state that the inductive invariants hold. Every proof has the same plan:
the invariant is a conjunction of named parts, each with a comment; it holds initially; one lemma for each group of
actions shows that a step preserves it, one step per action and under it one per part the
action can disturb; and each property follows from it. Hardly any of the properties is
inductive by itself. What each argument adds:

**Concurrent sample.** That a worker in `run` has a published start instant depends on all
the parties that met at the start barrier, and hence on what each had to do before it
could arrive. `SampleInv` says what the barriers have seen: `WorkerInv` (where a worker
that arrived at a barrier may be, and that one beyond the start barrier passed it together
with everyone else), `CoordinatorInv` (what the coordinator's position says of the
barriers, the backend and the start instant) and `JoinInv` (joined workers have finished).
`WallIsLongEnough` needs one fact more: a worker that left its function saw the
deadline pass, and the clock does not go back. The refinement follows from `SampleInv`:
a worker enters `run` only while the window is open or abandoned, `TakeWallDuration`
closes it with every worker stopped, and all other actions stutter or change
one of the two mapped variables. `ResultsAreMerged` is about a sum over the threads joined
so far, a fold over a set. The library defines it by a recursive function on the subsets;
that there is such a function, and only one, is shown by a minimal counterexample
(`MinimalSubset`, `FoldsAgree`, `FoldExists`, `SumIsFold`), and from there a sum
over `n` threads is the last term and the sum over the others. `HangIsPermanent` needs no
fairness: the workers of a stranded sample wait for the coordinator at a barrier, the
coordinator in `thread::scope` for them, and no step of anyone ends that (`StrandedStays`).

**Concurrent case.** The proof is built on the sample's: while a case is in a sample,
`SampleInv` and `DeadlineInv` hold of it (`RunningInv`), because `BeforeSample` restores
what the sample starts from, although the backend is not a new one. Between samples no
worker is alive and the backend waits (`BetweenInv`); that is why callbacks run alone, and
why a window is collected before the next begins. That persisted durations are positive
rests on `WallCoversDeadline` of the sample and on the override that ignores zeros. The
index of the sample is the length of both vectors (`IndexInv`).

**Standard runner.** `CalibrationIsBounded` is a matter of arithmetic, multiplication and
division of unbounded numbers included: the lemmas `ClampIsBetween`,
`ScaledIsWithinLimits` and `TargetIsWithinLimits` say that no sequence of durations, zeros
included, leads out of the limits. Identity needs that the loop variable is the length of
both vectors and each entry has its number (`SamplesAreNumbered`), that the loop is over and
no entry of a diagnostic pass is that of a sample (`DiagnosisComesLast`), and what
extending, cutting and zipping make of such vectors (`ReportIsIdentified`).

**Linux perf backend.** What counts is open (`CountingInv`), and both returns of
`collect()` leave nothing open. That no second window loses a group follows from what the loss
leaves behind: `preferIndividual`, and no target in a group any more (`LostInv`). The
persisted scopes agree with the samples because the backend's flags know the evidence of
each of them (`EvidenceInv`), and because a probe that was given up holds nothing
(`ProbeInv`).

**Affinity.** `AffinityInv` follows one mask: the thread is where it was started, or the
guard has the mask it came from. `SelectionInv` says that candidates, usable and chosen
cores are lists without repetitions, each from the one before. It rests on lemmas about
lists; the one that every set of cores can be listed in ascending order (`OrderExists`) is
shown by a least counterexample. `RankInv` is about preference: the usable candidates
that were passed over come after enough usable ones (`PassedOverInv`), and the rest was
filled up in the order of the list (`FilledInv`). That performance cores are whole and
fast is a fact about `PerformanceCores` for every topology (`FastIsWhole`): logical
processors are partitioned by physical core, and the metric of a core is the greatest of
its processors'.

**Report store.** A temporary file is whole before it is synchronised and only its owner
renames it (`TempsInv`, `FilesInv`). `BaselinesAreSound` is the hardest: a search goes
through a list that may be out of date, while other processes replace the files it names.
`ScanInv` says that, as long as the target is in place, it is still ahead in the list, and
that whatever is before it is incompatible, or came after the listing. Its start is
`ListingLeadsToTarget`: in a list sorted by time the newest compatible report is
before every other compatible one. It needs that different files have different times
(`TimesInv`), and a process one file only. That the store implements the shelf follows from
the same parts: only `Rename` changes what is in place, by a file that is whole; what is
in place is on disk, so that a power loss tears none of it; and a candidate that is opened
is on the shelf while the process that opens it has saved nothing (`RenameAppears`,
`OpeningFinds`).

**Compare command.** Four theorems of different kinds.

* The files. A target changes in `Rename` only, when its temporary file is complete
  (`TempsInv`); before the first output, and after an error that came earlier, nothing has
  changed (`UntouchedInv`); and an output that is done is still there when the next is
  written, unless both have one path, where the Markdown comes last (`ArtefactInv`). What is computed stays unexpanded.
* `ValidatedIsComparable`. A list of checks blames the first that fails (`FirstCheck`,
  `AllPass`, `BothPass`), so what `compare` says of two documents is what `validate` says
  of each, or a check that relates the two (`MatchBlames`, `ComparedAndValidated`).
  `OriginInv` follows the documents from the files to the error.
* `ComparisonReverses`. A function along a list is what its recursion says
  (`ListRecursion`), which gives the sorted list its order (`SortedInOrder`) and the greedy
  pairing its meaning (`OneToOnePairs`): `Pairing` says of a set of pairs, in the same words
  from either side, that the *n*-th case of an identity is paired with the *n*-th of the
  other document. Such a set is unique (`PairingIsUnique`), so pairing from the other side
  gives the same pairs turned round (`PairsReverse`), and then every metric, class and
  moved case is compared with the roles exchanged (`MetricsReverse`, `ClassesReverse`,
  `MatchedReverse`).
* `GateIsEvidence`. The property judges the documents by counting, the code by sorting,
  interpolating and folding. Sorting is a permutation (`SortedArranges`), so a median may be
  found by rank (`RankIsPlace`, `MedianByRank`); a result blocks the gate just when it is
  judged so from the samples themselves (`BlockingIsBlocked`); the pairs of a suite are the
  results of one identity (`PairsAreEqual`); and the totals across suites are counts of
  those results (`CountAcross`, `CountBySuite`, `CountByClass`). `GateInv` ties this to the
  control: the documents are those of the inputs, the policy was checked, no suite was
  refused, and the exit status is that of the result.

**Benchmark groups.** `GroupsInv` says of every handle that its options are those which its
chain of calls gave last (`HandleInv`), of every case that it took them over (`AskedInv`),
and of every result that it belongs to the case with its position among those the filter
let through (`SessionInv`, `CountInv`). That randomized cases are those of the list rests
on the swaps of the shuffle (`SwapKeepsNames`, `IndicesKeepNames`), and `BackendInv`
on the count of backends built. What is computed of the samples stays unexpanded there.

**Statistics and session summary.** A summary is a comparison of two lists of results, and
three facts decide that it does not contradict itself. The pairs of the exchanged reports
are the same pairs (`PairsReverse` again, used in `SummaryPairsReverse`). A change of two
numbers that are *not negative* has the opposite sign when they are exchanged, with
thresholds that cannot both be passed (`ShownIsOpposed`, `VariationIsOpposed`,
`RatesMove`); with a negative one a cell could be better in both directions. That no number is
negative is `NumbersInv`, from the samples (`MeasuredInv`) over sums, sorted lists,
quantiles and the variance (`MeasuredIsStats`, `PercentileIsNatural`) to the results
(`ReportedInv`). A variance times n² is `n` times the sum of the squares, less the square
of the sum; that it is not negative is carried along the list together with
`g + n x² - 2 x f >= 0` for every `x`, where `g` and `f` are the sums so far
(`SquaresGrow`, `DeviationGrows`, `VariationIsNatural`). And the bottlenecks of a result are
those of the numbers that the table shows (`DiagnosisHasMetrics`). Of the earlier
reports `GroupsAssumption` asks the same as `NumbersInv` shows of the new one: the
report that a program is compared with was written by such a program.

Statements that were changed, most of them because a proof of their earlier form failed and
TLC then confirmed why:

* `BaselineIsSound` compared modification times and held with three processes. With four,
  a report may be replaced by one that is newer than the listing, and then be passed over.
  What the code does guarantee is in terms of the listing.
* `CalibrationWithinLimits` covered the chunk of a case that is over: after a fixed chunk
  beyond the limit, the next case may be skipped with that chunk still in place.
* `PinsPreferUsableCores` asked only that a core *found* usable is not left, which cannot
  fail because those are all taken; it now covers the candidates nobody probed, and the
  order of the unusable ones. It also took a core id that cannot be read to belong to no
  other core, while the code uses the number of the processor in its place, which may
  be the id of another core. The new form calls two processors apart only if sysfs says so.
* `OutputsAreWhole` excused an output whose target the Markdown has, which excuses every
  Markdown; it now asks for the Markdown where it was asked for, and excuses the JSON only.
* `NothingOutlivesWindow` and `SamplesAreIdentified` held by the shape of the model, which
  cleared a window in one place and gave samples and metrics one index. The two returns
  and the two vectors are now those of the source.
* `SaveIsAllOrNothing` rested on a removal that cannot fail.
* `ComparisonIsReversible` covered policies that the command refuses: with a negative
  threshold a case regresses in both directions. It now asks for a `ValidPolicy`.
* `Affinity` had the selection of cores as one step; it is now the two loops of the source.
* Chains of conditions were written as `CASE` with arms that overlap, which leaves open which
  arm is meant; they are nested conditions now, in the order of the source.
* `Total` and the lists of rates and latencies were folds of the library; they are recursive
  functions along the list now, and compute the same (the run has the same states).
* The totals of `summarize` were folds over suites and are now counts of entries; sorting
  and pairing are recursive functions along a list.

Checked by TLC only:

| Property | Why |
|---|---|
| `SampleCompletes`, `CaseEnds` | liveness under fairness (ENABLED) is beyond the provers |
| `SummaryFollowsSamples` | concatenations of filtered lists of arbitrary metrics (folds of the library, with an operator as an argument): what they compute for every list takes an induction over data |

## 6. Plan

* The part of `SummaryFollowsSamples` that is about quantiles, from `SortedArranges`.
* Counter arithmetic of the perf backend (multiplex scaling, quality thresholds) as pure
  operators.

## 7. What is not modelled

* Rendering of text and Markdown, tables, progress lines and warnings about the machine's
  perf settings: they keep no state. The warning about a fixed chunk that was too short
  is one of them.
* CUDA backends and the native GPU counters wrap an external driver whose state is the
  driver's. The example backends are users of the crate. The Odin port is another
  implementation.
* `PerfCounters`, the stand-alone wrapper, and the arithmetic of counters (multiplex
  scaling, quality thresholds). `PerfBackend` keeps whether evidence exists and how
  complete it is; the kernel's calls are external.
* Reading the context file, capturing provenance with git, and the search for the target
  directory: a context, its provenance and a directory are inputs of the models.
* Building a series from a report, digests and display paths. A series is an input of
  `Comparison`.
* clap's parsing. `CompareCommand` starts with parsed arguments.

Abstractions a reader should keep in mind:

* A panic of `collect()` or of a lifecycle callback is not a step of `ConcurrentCase`, and
  the filter and cooldown before a concurrent case are those of `BenchmarkGroups` and
  `StandardCase`. A poisoned session mutex, which drops results, is not modelled: it
  takes a panic inside `add_result`.
* `case_cooldown` is taken to be positive. A primary duration of zero stands for a
  result whose public field was set directly.
* In `ReportStore` reading the directory, the modification times and sorting by them is
  one step. A file that is replaced after it was listed keeps its place in the list.
* In `ReportStore` a completed rename survives a power loss: the directory is not
  synchronised by the code, so the file system decides; the hazard is listed. Process ids
  and the nonce make temporary names distinct, so a process owns its temporary file.
* `PerfBackend` covers backends whose thread scope is fixed or enumerated anew; the
  identity of threads that exit between two windows is part of the choice of scope.
* `ScopesMatchEvidence` asks that the energy scope denies no evidence of a measured sample.
  The flags are set by warm-up windows too: that a core energy scope was seen in a measured
  sample, and not only in the warm-up, is not checked.
* The statistics of a native report are those persisted in it, whatever its samples say
  (`count`, `cv_percent`); a negative coefficient stands for every value that is dropped.
* Numbers are whole: rates in units of `1/Scale`, medians doubled, percentages compared by
  cross-multiplication, coefficients of variation by their squares. Rounding of `f64` is
  left out, and thresholds are exact.
* `CompareCommand` visits suites in any order, where the code sorts their names: of several
  suites that fail, any may be the one reported.
