---------------------------- MODULE BenchmarkGroups ----------------------------
(***************************************************************************)
(* A benchmark program from its command line to its summary:               *)
(* run_benchmark_main (src/launcher.rs) and the builders that its          *)
(* registration closure uses (BenchmarkRunner, BenchmarkGroup,             *)
(* ConcurrentBenchmarkGroup and the handles derived from them, in          *)
(* src/bench.rs).                                                          *)
(*                                                                         *)
(* Handles are immutable values: a builder method returns a new one and    *)
(* leaves the old one usable, so the set of handles only grows.  A case    *)
(* that a handle benches is measured by Statistics and, when every case    *)
(* has run, SessionSummary compares the session with an earlier report.    *)
(* StandardCase and ConcurrentCase have the steps within a case, and       *)
(* ReportStore the report's way to the disk.                               *)
(*                                                                         *)
(* The deprecated bench_with_... methods are the calls that their bodies   *)
(* chain and need no action of their own.                                  *)
(***************************************************************************)
EXTENDS Statistics, SessionSummary

CONSTANTS
  Programs,   \* what may be launched, and what its closure does
  Flags,      \* the arguments that start with --
  Substrings  \* <<text, part>> when part is a substring of text

(* Results and BenchmarkStats as the program fills them: what it counts    *)
(* and measures is not negative.                                           *)
IsSample(sample) ==
  /\ sample.iterations \in Nat /\ sample.duration \in Nat
  /\ DOMAIN sample.counters \subseteq Counters
  /\ \A c \in DOMAIN sample.counters : sample.counters[c] \in Nat

IsStats(measured) ==
  /\ measured.throughput_per_sec \in Nat
  /\ measured.sample_throughput_per_sec \in Seq(Nat)
  /\ measured.sample_latency_ns_per_op \in Seq(Nat)
  /\ \A number \in {measured.median_ns_per_op, measured.p95_ns_per_op, measured.mad_ns_per_op,
                     measured.ipc, measured.branch_miss_rate, measured.cache_miss_percent,
                     measured.frontend_stall_percent, measured.backend_stall_percent,
                     measured.variation.over, measured.variation.under} : number \in Nat
  /\ measured.per_op \in [Counters -> Nat]

(* handles is a bound: the handles that the closure makes.                 *)
ASSUME GroupsAssumption ==
  \A p \in Programs :
    /\ p.arguments # <<>>        \* env::args()
    /\ DOMAIN p.runtime = {"warm_up_duration", "benchmark_duration",
                           "min_samples", "max_samples"}
    /\ p.runtime.min_samples \in Nat
    /\ p.randomized \in BOOLEAN  \* BenchmarkCaseOrder::Randomized
    /\ p.cases \in Seq(STRING) /\ IsInjective(p.cases) \* the caller-owned list
    /\ p.groups \subseteq {"group", "concurrent"} \X STRING
    /\ \A text \in {group[2] : group \in p.groups} \cup {"direct"} : <<text, text>> \in Substrings
    /\ p.offered \subseteq STRING \* the options that are set
    /\ p.direct \in BOOLEAN      \* are cases run without a group?
    /\ p.handles \in Nat
    /\ p.samples # {}            \* what a sample may measure
    /\ \A sample \in p.samples : IsSample(sample)
    /\ \A baseline \in p.baselines : \* what earlier runs persisted
          /\ baseline # <<>> /\ baseline \in Seq(ToSet(baseline))
          /\ \A i \in DOMAIN baseline : IsStats(baseline[i].stats)

VARIABLES
  program,   \* the program that runs
  stage,     \* how far it is
  filter,    \* BenchmarkRunner::filter, optional
  pending,   \* the cases that the closure has yet to bench, in order
  handles,   \* the group handles that the closure holds
  asked,     \* history: every case that was benched, and how
  case,      \* the last case that was asked for
  backends,  \* measurement backends built
  session,   \* BenchmarkSession::results
  previous,  \* the report that the summary compares with
  summary    \* what it said

runnerVars  == <<program, filter>>
closureVars == <<pending, handles, asked>>
reportVars  == <<previous, summary>>
vars == <<runnerVars, stage, closureVars, case, backends, session, reportVars, caseVars>>

------------------------------------------------------------------------------
(* The command line                                                        *)

HasPart(text, part) == <<text, part>> \in Substrings

First(arguments) == IF arguments = <<>> THEN None ELSE Some(Head(arguments))

(* After a separator, whatever follows it; else the first argument that is *)
(* no flag and no part of the program's own path.                          *)
benchmark_filter_from_args(arguments) ==
  LET separators == {i \in DOMAIN arguments : arguments[i] = "--"}
      Usable(a)  == a \notin Flags /\ ~HasPart(arguments[1], a)
  IN  IF separators # {} THEN First(SubSeq(arguments, Min(separators) + 1, Len(arguments)))
      ELSE First(SelectSeq(Tail(arguments), Usable))

should_run(name, group) ==
  \/ filter = None
  \/ filter[1] = "all"
  \/ HasPart(name, filter[1]) \/ HasPart(group, filter[1]) \/ filter[1] = group

ValidRuntime(runtime) ==
  /\ runtime.warm_up_duration > 0 /\ runtime.benchmark_duration > 0
  /\ runtime.min_samples > 0 /\ runtime.max_samples > 0
  /\ runtime.min_samples <= runtime.max_samples

Swap(s, i, j) == [s EXCEPT ![i] = s[j], ![j] = s[i]]

(* BenchmarkCaseOrder::indices: from the last position down, each position *)
(* is swapped with one at or below it; the generator's values are          *)
(* arbitrary draws.                                                        *)
indices(list, draws) ==
  LET downTo[i \in Nat] == IF i > Len(list) THEN list ELSE Swap(downTo[i + 1], i, draws[i])
  IN  downTo[2]

Draws(n) == {draws \in [2..n -> 1..n] : \A i \in 2..n : draws[i] <= i}

NoCase    == [name |-> Blank]
NoSummary == [new |-> {}]

Init ==
  /\ program \in Programs
  /\ stage = "launch"
  /\ filter = None
  /\ pending = <<>> /\ handles = {} /\ asked = <<>>
  /\ case = NoCase /\ backends = 0
  /\ session = <<>>
  /\ previous = <<>> /\ summary = NoSummary
  /\ CaseInit

(* run_benchmark_main up to register: a runtime that does not validate     *)
(* ends the program before any case runs.                                  *)
Launch ==
  /\ stage = "launch"
  /\ filter' = benchmark_filter_from_args(program.arguments)
  /\ stage' = IF ValidRuntime(program.runtime) THEN "register" ELSE "panicked"
  /\ \/ ~program.randomized /\ pending' = program.cases
     \/ /\ program.randomized
        /\ \E draws \in Draws(Len(program.cases)) : pending' = indices(program.cases, draws)
  /\ UNCHANGED <<program, handles, asked, case, backends, session, reportVars, caseVars>>

------------------------------------------------------------------------------
(* Handles                                                                 *)

Ops == [amount |-> 1, unit |-> "ops"]

(* Of a standard group only the first five options can be set, and of a    *)
(* concurrent one neither diagnostic option.  A duration of zero stands    *)
(* for none, a backend of none for the platform's, or for no backend at    *)
(* all in a concurrent case.                                               *)
Defaults ==
  [throughput |-> Ops, measurement_domain |-> "cpu", backend |-> "none",
   diagnostic_pass |-> FALSE, diagnostic_samples |-> 1,
   lifecycle |-> FALSE, metadata |-> <<>>, sample_duration |-> 0, factory |-> "prepare"]

DefaultSampleDuration == 50

(* Throughput::per_operation panics when the amount is zero or the unit    *)
(* blank, so that no such value reaches a builder.                         *)
Throughputs == {[amount |-> 2, unit |-> "bytes"]}

Offers ==
  [throughput         |-> Throughputs,
   measurement_domain |-> {"gpu"},
   backend            |-> {"perf", "device"},
   diagnostic_pass    |-> {TRUE},
   diagnostic_samples |-> {0, 2},
   lifecycle          |-> {TRUE},
   metadata           |-> {"host" :> "a", "host" :> "b", "mode" :> "x"},
   sample_duration    |-> {0, 20}]

Inserted(map, entries) ==
  [key \in DOMAIN map \cup DOMAIN entries |->
     IF key \in DOMAIN entries THEN entries[key] ELSE map[key]]

(* ConcurrentGroupOptions::with_...: metadata is inserted into a map, any  *)
(* other option replaced.                                                  *)
WithOption(options, option, value) ==
  IF option = "metadata" THEN [options EXCEPT !.metadata = Inserted(@, value)]
  ELSE [options EXCEPT ![option] = value]

(* assert!(diagnostic_samples > 0) and assert!(sample_duration > 0)        *)
Asserted(option, value) == option \in {"diagnostic_samples", "sample_duration"} => value > 0

Called(handle, kind, option, value) ==
  [handle EXCEPT !.kind = kind, !.options = WithOption(@, option, value),
                 !.calls = Append(@, <<option, value>>)]

(* Fault: deriving a handle with a factory starts from the defaults.       *)
WithFactory_Resets(handle, kind, factory) ==
  [handle EXCEPT !.kind = kind,
                 !.options = [Defaults EXCEPT !.throughput = handle.options.throughput,
                                              !.factory = factory],
                 !.calls = Append(@, <<"factory", factory>>)]

WithFactory(handle, kind, factory) ==
  [handle EXCEPT !.kind = kind, !.options = [@ EXCEPT !.factory = factory],
                 !.calls = Append(@, <<"factory", factory>>)]

(* BenchmarkGroup, and the two handles that carry a factory.               *)
BenchmarkGroupOptions ==
  {"throughput", "measurement_domain", "backend", "diagnostic_pass", "diagnostic_samples"}
BenchmarkGroupWithFactoryOptions      == BenchmarkGroupOptions
BenchmarkGroupWithChunkFactoryOptions == BenchmarkGroupOptions

(* ConcurrentBenchmarkGroup, whose sample_duration returns another type,   *)
(* and the handles that have a duration and a factory.                     *)
ConcurrentBenchmarkGroupOptions ==
  {"throughput", "measurement_domain", "backend", "lifecycle", "metadata"}
ConcurrentBenchmarkGroupWithDurationOptions == ConcurrentBenchmarkGroupOptions
ConcurrentBenchmarkGroupWithFactoryOptions  ==
  ConcurrentBenchmarkGroupOptions \cup {"sample_duration"}

OptionsOf(kind) ==
  CASE kind = "group"              -> BenchmarkGroupOptions
    [] kind = "with_factory"       -> BenchmarkGroupWithFactoryOptions
    [] kind = "with_chunk_factory" -> BenchmarkGroupWithChunkFactoryOptions
    [] kind = "concurrent"         -> ConcurrentBenchmarkGroupOptions
    [] kind = "with_duration"      -> ConcurrentBenchmarkGroupWithDurationOptions
    [] kind = "concurrent_factory" -> ConcurrentBenchmarkGroupWithFactoryOptions

(* The handles of another type that each type can be turned into.          *)
factory(handle)           == WithFactory(handle, "with_factory", "context")
factory_for_chunk(handle) == WithFactory(handle, "with_chunk_factory", "chunk")

sample_duration(handle, duration) == Called(handle, "with_duration", "sample_duration", duration)

(* Without a duration of its own the handle takes the default.             *)
concurrent_factory(handle) ==
  LET made == WithFactory(handle, "concurrent_factory", "threads")
  IN  [made EXCEPT !.options.sample_duration = DefaultSampleDuration]

with_duration_factory(handle) == WithFactory(handle, "concurrent_factory", "threads")

Converted(handle) ==
  CASE handle.kind = "group"         -> {factory(handle), factory_for_chunk(handle)}
    [] handle.kind = "concurrent"    ->
         {concurrent_factory(handle)} \cup
         {sample_duration(handle, d) : d \in Offers.sample_duration \ {0}}
    [] handle.kind = "with_duration" -> {with_duration_factory(handle)}
    [] OTHER                         -> {}

Hold(handle) == /\ Cardinality(handles) < program.handles
                /\ handles' = handles \cup {handle}
                /\ UNCHANGED <<runnerVars, stage, pending, asked, case, backends, session,
                               reportVars, caseVars>>

(* group and concurrent_group                                              *)
OpenGroup ==
  /\ stage = "register"
  /\ \E group \in program.groups :
       Hold([kind |-> group[1], group |-> group[2], options |-> Defaults, calls |-> <<>>])

(* A builder method of any handle                                          *)
Configure ==
  /\ stage = "register"
  /\ \E handle \in handles :
       \/ \E made \in Converted(handle) : Hold(made)
       \/ \E option \in OptionsOf(handle.kind) \cap program.offered : \E value \in Offers[option] :
            /\ Asserted(option, value)
            /\ Hold(Called(handle, handle.kind, option, value))

(* ... and one whose assertion fails                                       *)
Misconfigure ==
  /\ stage = "register"
  /\ \E handle \in handles :
       \/ \E option \in OptionsOf(handle.kind) \cap program.offered : \E value \in Offers[option] :
            ~Asserted(option, value)
       \/ handle.kind = "concurrent" /\ "sample_duration" \in program.offered
  /\ stage' = "panicked"
  /\ UNCHANGED <<runnerVars, closureVars, case, backends, session, reportVars, caseVars>>

------------------------------------------------------------------------------
(* Cases                                                                   *)

Concurrent(kind) == kind \in {"with_duration", "concurrent_factory"}

(* The case takes the next name of the list.                               *)
Ask(handle) ==
  LET next == [name |-> Head(pending), group |-> handle.group,
               kind |-> IF Concurrent(handle.kind) THEN "concurrent" ELSE "standard",
               options |-> handle.options, calls |-> handle.calls]
  IN  /\ pending' = Tail(pending)
      /\ case' = next
      /\ asked' = Append(asked, next)

BeginCase ==
  /\ stage' = "case"
  /\ samples' = <<>> /\ diagnosed' = <<>> /\ summed' = NoResults /\ stats' = NoStats

(* bench and bench_sample: make_backend is called before should_run, so    *)
(* that a case which the filter leaves out still builds a backend.         *)
BenchStandard(handle) ==
  /\ stage = "register" /\ pending # <<>>
  /\ ~Concurrent(handle.kind) /\ handle.kind # "concurrent"
  /\ Ask(handle)
  /\ backends' = backends + 1
  /\ IF should_run(Head(pending), handle.group) THEN BeginCase
     ELSE UNCHANGED <<stage, caseVars>>
  /\ UNCHANGED <<runnerVars, handles, session, reportVars>>

(* run_concurrent_with_options: a case that the filter leaves out is       *)
(* neither checked nor given a backend.                                    *)
StartConcurrent(name, group, options, threads) ==
  IF ~should_run(name, group) THEN UNCHANGED <<stage, backends, caseVars>>
  ELSE IF options.sample_duration = 0 \/ threads = 0
  THEN stage' = "panicked" /\ UNCHANGED <<backends, caseVars>>
  ELSE BeginCase /\ backends' = backends + IF options.backend = "none" THEN 0 ELSE 1

(* bench of a concurrent handle with some worker threads                   *)
BenchConcurrent(handle, threads) ==
  /\ stage = "register" /\ pending # <<>>
  /\ Concurrent(handle.kind)
  /\ Ask(handle)
  /\ StartConcurrent(Head(pending), handle.group, handle.options, threads)
  /\ UNCHANGED <<runnerVars, handles, session, reportVars>>

Bench ==
  \E handle \in handles : \/ BenchStandard(handle)
                          \/ \E threads \in {0, 2} : BenchConcurrent(handle, threads)

(* run, run_with_factory, run_sample_with_factory_and_throughput and their *)
(* concurrent counterparts take from the caller what a handle would carry. *)
RunStandard ==
  /\ program.direct
  /\ \E made_by \in {"prepare", "context"} :
       BenchStandard([kind |-> "group", group |-> "direct", calls |-> <<<<"factory", made_by>>>>,
                      options |-> [Defaults EXCEPT !.factory = made_by]])

RunConcurrent ==
  /\ program.direct
  /\ \E duration \in Offers.sample_duration, threads \in {0, 2} :
       BenchConcurrent([kind |-> "with_duration", group |-> "direct",
                        calls |-> <<<<"sample_duration", duration>>>>,
                        options |-> [Defaults EXCEPT !.sample_duration = duration]], threads)

(* The calibration settles on a number of samples within the runtime's.    *)
Measure ==
  /\ stage = "case"
  /\ Len(samples) < program.runtime.max_samples
  /\ diagnosed = <<>>
  /\ \E sample \in program.samples : TakeSample(sample)
  /\ UNCHANGED <<runnerVars, stage, closureVars, case, backends, session, reportVars>>

Replay(finite) == [metrics |-> <<[name |-> "replay", value |-> 7, finite |-> finite,
                                  energy |-> FALSE]>>]
ReplayFailed   == [metrics |-> <<[name |-> "diagnostic_pass_failed", value |-> 1,
                                  finite |-> TRUE, energy |-> FALSE]>>]

(* The passes end with the first that fails; what it leaves is a metric.   *)
RunDiagnosticPass ==
  /\ stage = "case" /\ case.options.diagnostic_pass
  /\ Len(samples) >= program.runtime.min_samples
  /\ Len(diagnosed) < case.options.diagnostic_samples
  /\ \A i \in DOMAIN diagnosed : diagnosed[i] # ReplayFailed
  /\ \E pass \in {Replay(TRUE), Replay(FALSE), ReplayFailed} :
       diagnosed' = Append(diagnosed, pass)
  /\ UNCHANGED <<runnerVars, stage, closureVars, case, backends, session, reportVars,
                 samples, summed, stats>>

DiagnosisOver ==
  \/ ~case.options.diagnostic_pass
  \/ Len(diagnosed) = case.options.diagnostic_samples
  \/ \E i \in DOMAIN diagnosed : diagnosed[i] = ReplayFailed

(* A standard case without a backend of its own uses the platform's.       *)
Scope(kind, options) ==
  IF options.backend # "none" THEN options.backend
  ELSE IF kind = "concurrent" THEN "managed workers" ELSE "perf"

(* The bottlenecks that the case itself prints, of what it collected.      *)
diagnose_stats(measured, suppressed) ==
  LET Has(counters)        == counters \subseteq measured.has
      AtLeast(value, part) == 1000 * value >= part * Scale \* part of a thousand
      frontend == /\ Has({"cycles", "stalled_cycles_frontend"})
                  /\ AtLeast(measured.frontend_stall_percent, 200)
      cache    == /\ Has({"cache_misses"})
                  /\ \/ /\ Has({"cache_references"})
                        /\ AtLeast(measured.cache_miss_percent, 50)
                     \/ AtLeast(measured.per_op["cache_misses"], 50)
      memory   == /\ Has({"cycles", "stalled_cycles_backend"}) /\ cache
                  /\ AtLeast(measured.backend_stall_percent, 200)
      branch   == /\ frontend /\ Has({"branches", "branch_misses"})
                  /\ AtLeast(measured.branch_miss_rate, 30)
      icache   == frontend /\ Has({"l1i_misses"}) /\ AtLeast(measured.per_op["l1i_misses"], 10)
      low_ipc  == /\ ~memory /\ ~branch /\ ~icache
                  /\ Has({"cycles", "instructions"})
                  /\ measured.ipc > 0 /\ measured.ipc < Scale
      unstable == \/ /\ measured.variation.under > 0
                     /\ 100 * measured.variation.over >= measured.variation.under
                  \/ measured.outlier_count >= Max({measured.samples \div 10, 2})
      found    == [memory |-> memory, branch |-> branch, icache |-> icache, low_ipc |-> low_ipc]
  IN  {cause \in DOMAIN found : ~suppressed /\ found[cause]}
      \cup (IF unstable THEN {"unstable"} ELSE {})

(* benchmark_stats_from_samples, then session.add_result.  A device's      *)
(* backend emits no CPU diagnostics.                                       *)
Report ==
  /\ stage = "case" /\ DiagnosisOver
  /\ Len(samples) >= program.runtime.min_samples
  /\ stats' = benchmark_stats_from_samples(case.options.throughput)
  /\ LET result ==
           [name |-> case.name, group |-> case.group, kind |-> case.kind,
            execution_index |-> Len(session),
            metadata |-> case.options.metadata,
            domain   |-> case.options.measurement_domain,
            scope    |-> Scope(case.kind, case.options),
            emits_cpu_diagnostics |-> Scope(case.kind, case.options) # "device",
            stats    |-> stats',
            options  |-> case.options,
            backend  |-> backends,
            diagnosis |-> {}]
     IN  session' = Append(session, [result EXCEPT !.diagnosis =
                              diagnose_stats(stats', SuppressesCpuNotes(result))])
  /\ stage' = "register"
  /\ UNCHANGED <<runnerVars, closureVars, case, backends, reportVars, samples, diagnosed, summed>>

------------------------------------------------------------------------------
(* The summary                                                             *)

(* The latest compatible report has a counterpart for every result; an     *)
(* explicit baseline may lack some, but compare_reports refuses a report   *)
(* that repeats an identity.                                               *)
Comparable(baseline) ==
  \/ /\ Len(baseline) = Len(session)
     /\ Len(pair_results_one_to_one(session, baseline)) = Len(session)
  \/ IsInjective(ResultIdentities(session)) /\ IsInjective(ResultIdentities(baseline))

PrintSummary ==
  /\ stage = "register" /\ pending = <<>>
  /\ \E baseline \in {<<>>} \cup program.baselines :
       /\ baseline # <<>> => Comparable(baseline)
       /\ previous' = baseline
       /\ summary' = print_summary_with_baseline(session, baseline)
  /\ stage' = "done"
  /\ UNCHANGED <<runnerVars, closureVars, case, backends, session, caseVars>>

Terminating == stage \in {"done", "panicked"} /\ UNCHANGED vars

Next == \/ Launch \/ OpenGroup \/ Configure \/ Misconfigure
        \/ Bench \/ RunStandard \/ RunConcurrent
        \/ Measure \/ RunDiagnosticPass \/ Report
        \/ PrintSummary \/ Terminating

Spec == Init /\ [][Next]_vars

------------------------------------------------------------------------------
(* What a benchmark program must guarantee                                 *)

LastGiven(calls, option, default) ==
  LET at == {i \in DOMAIN calls : calls[i][1] = option}
  IN  IF at = {} THEN default ELSE calls[Max(at)][2]

(* The calls that gave metadata, and of these the ones that gave a key.    *)
MetadataCalls(calls) == {i \in DOMAIN calls : calls[i][1] = "metadata"}
KeyCalls(calls, key) == {i \in MetadataCalls(calls) : key \in DOMAIN calls[i][2]}

GivenMetadata(calls) ==
  [key \in UNION {DOMAIN calls[i][2] : i \in MetadataCalls(calls)} |->
     calls[Max(KeyCalls(calls, key))][2][key]]

AsAsked(result, asking) ==
  LET Given(option) == LastGiven(asking.calls, option, Defaults[option])
      backend       == Given("backend")
  IN  /\ <<result.name, result.group, result.kind>> = <<asking.name, asking.group, asking.kind>>
      /\ result.stats.throughput = Given("throughput")
      /\ result.domain = Given("measurement_domain")
      /\ backend # "none" => result.scope = backend
      /\ result.metadata = GivenMetadata(asking.calls)
      /\ \A option \in {"lifecycle", "diagnostic_pass", "diagnostic_samples", "factory"} :
            result.options[option] = Given(option)
      /\ result.kind = "concurrent" =>
            result.options.sample_duration
              = LastGiven(asking.calls, "sample_duration", DefaultSampleDuration)

(* Does the filter let a case that was asked for through, and how many has *)
(* it let through up to that one?                                          *)
Through(asking) ==
  \/ filter = None
  \/ filter[1] = "all"
  \/ HasPart(asking.name, filter[1]) \/ HasPart(asking.group, filter[1])

LetThrough(n) == Cardinality({k \in 1..n : Through(asked[k])})

(* Every case of the list is asked for once, in whatever order; the        *)
(* session has the cases that the filter lets through, in the order in     *)
(* which they were asked for; each ran with the last value that its chain  *)
(* of builder calls gave to every option, through every change of the      *)
(* handle's type, and with the default of the others; and no two of them   *)
(* share a measurement backend.                                            *)
CasesRunAsAsked ==
  LET built == {i \in DOMAIN session : session[i].scope # "managed workers"}
  IN  /\ stage = "register" => Len(session) = LetThrough(Len(asked))
      /\ stage = "done" =>
            /\ Len(asked) = Len(program.cases)
            /\ {asked[i].name : i \in DOMAIN asked} = ToSet(program.cases)
      /\ \A i \in DOMAIN session :
            /\ session[i].execution_index = i - 1
            /\ \E j \in DOMAIN asked : /\ Through(asked[j]) /\ LetThrough(j) = i
                                      /\ AsAsked(session[i], asked[j])
      /\ \A i, j \in built : session[i].backend = session[j].backend => i = j

(* The summary does not contradict itself: what it counts as improved or   *)
(* regressed moved in that direction, the other way round when the reports *)
(* are exchanged; a note calls a case worse or better only if the case is  *)
(* counted so; no cell says the same in both directions; a bottleneck is   *)
(* printed only where the PMU table has the metrics that it names; and the *)
(* fastest and the slowest of a group are two results that bound all the   *)
(* others.                                                                 *)
SummaryIsConsistent ==
  stage = "done" =>
    LET pairs   == pair_results_one_to_one(session, previous)
        reverse == print_summary_with_baseline(previous, session)
        Opposed(here, there) == here \in {"better", "worse"} => here # there
    IN  /\ \A n \in DOMAIN pairs :
             LET i == pairs[n][1]
                 j == pairs[n][2]
             IN  /\ i \in summary.regressed /\ Rate(session, i) > 0 => j \in reverse.improved
                 /\ i \in summary.improved => j \notin reverse.improved
                 /\ \A note \in summary.notes[i] : note[1] # "stability" =>
                       i \in (IF note[2] = "worse" THEN summary.regressed ELSE summary.improved)
                 /\ \A cell \in DOMAIN summary.per_stat[i] :
                       Opposed(summary.per_stat[i][cell], reverse.per_stat[j][cell])
                 /\ \A cell \in DOMAIN summary.pmu[i] :
                       Opposed(summary.pmu[i][cell], reverse.pmu[j][cell])
        /\ \A i \in DOMAIN session :
             LET Absent(metric(_)) == metric(session[i].stats) = None
                 Blames(causes)    == session[i].diagnosis \cap causes # {}
             IN  /\ Absent(pmu_backend_stall_metric) \/ Absent(pmu_cache_metric) =>
                       ~Blames({"memory"})
                 /\ Absent(pmu_frontend_stall_metric) => ~Blames({"branch", "icache"})
                 /\ Absent(pmu_branch_miss_metric) => ~Blames({"branch"})
                 /\ Absent(pmu_ipc) => ~Blames({"low_ipc"})
        /\ \A g \in DOMAIN summary.insights :
             LET insight == summary.insights[g]
                 Among(i) == /\ session[i].group = g
                             /\ Rate(session, insight.slowest) <= Rate(session, i)
                             /\ Rate(session, i) <= Rate(session, insight.fastest)
             IN  /\ insight.fastest # insight.slowest
                 /\ \A i \in DOMAIN session : session[i].group = g => Among(i)
                 /\ Among(insight.fastest) /\ Among(insight.slowest)

(* concepts.md: the launcher parses "an optional filter from env::args()   *)
(* (first non-`--` argument)".  The code passes over an argument that the  *)
(* program's own path happens to contain, and runs every case.             *)
FilterIsTheArgument ==
  stage \notin {"launch", "panicked"} =>
    LET given == SelectSeq(Tail(program.arguments), LAMBDA a : a \notin Flags)
    IN  given # <<>> => filter = Some(Head(given))
==============================================================================
