--------------------------- MODULE MCBenchmarkGroups ---------------------------
(* Programs that are each rich in one thing: command lines, chains of      *)
(* builder calls, lists of cases, or measured samples.                     *)
EXTENDS BenchmarkGroups

NoCounters == <<>>
Sample(iterations, duration, counters, metrics) ==
  [iterations |-> iterations, duration |-> duration, counters |-> counters, metrics |-> metrics]

Metric(name, value)   == [name |-> name, value |-> value, finite |-> TRUE, energy |-> FALSE]
NotFinite(name)       == [name |-> name, value |-> 0, finite |-> FALSE, energy |-> FALSE]
Joules(domain, value) == [name |-> domain, value |-> value, finite |-> TRUE, energy |-> TRUE]

Cycles == [cycles |-> 4, instructions |-> 2]

One   == {Sample(1, 12, NoCounters, <<>>)}
Plain == {Sample(i, d, NoCounters, <<>>) : i \in 0..2, d \in {0, 12, 24}}
Reported ==
  {Sample(1, 12, Cycles, m) :
     m \in {<<Metric("gpu_ms", 1)>>,
            <<Metric("gpu_ms", 3), Metric("tflops", 2)>>,
            <<Metric("tflops", 1), NotFinite("gpu_ms")>>,
            <<Metric("gpu_ms", 1), Metric("gpu_ms", 2)>>,
            <<Joules("package", 2), Joules("dram", 1)>>}}
  \cup {Sample(0, 0, NoCounters, <<Joules("package", 1)>>)}

Runtime(min, max) == [warm_up_duration |-> 1, benchmark_duration |-> 1,
                      min_samples |-> min, max_samples |-> max]

Path == "deps/sort_bench-1f"

Base == [arguments |-> <<Path, "--bench">>, runtime |-> Runtime(1, 1), randomized |-> FALSE,
         cases |-> <<"sort_small">>, groups |-> {<<"group", "sorting">>},
         offered |-> DOMAIN Offers, direct |-> FALSE, handles |-> 1,
         samples |-> One, baselines |-> {}]

Launches ==
  {[Base EXCEPT !.arguments = <<Path>> \o arguments, !.direct = TRUE,
                !.runtime = runtime, !.cases = <<"sort_small", "map">>] :
     arguments \in {<<>>, <<"--bench">>, <<"sort", "--bench">>, <<"small">>, <<"sorting">>,
                    <<"all">>, <<"--", "--bench">>, <<"x", "--", "map">>, <<"small", "--">>},
     runtime \in {Runtime(1, 1), Runtime(0, 1), Runtime(2, 1)}}

Chains ==
  {[Base EXCEPT !.handles = 4],
   [Base EXCEPT !.handles = 4, !.groups = {<<"concurrent", "locks">>}],
   [Base EXCEPT !.handles = 2, !.groups = {<<"concurrent", "locks">>},
                !.arguments = <<Path, "--", "map">>]}

MCFlags == {"--", "--bench"}
MCSubstrings ==
  {<<t, t>> : t \in {"sort_small", "sort", "sorting", "map", "maps", "locks", "direct", "small", "x"}}
  \cup {<<"sort_small", "sort">>, <<"sort_small", "small">>, <<"sorting", "sort">>,
        <<Path, "sort">>, <<"sort_large", "sort">>}

(* What an earlier run measured of a case                                  *)
Stats(unit, rate, rates, latency, has, per_op, ipc, stall) ==
  [throughput |-> unit, samples |-> 2, throughput_per_sec |-> rate, has |-> has,
   per_op |-> [c \in Counters |-> per_op], ipc |-> ipc, branch_miss_rate |-> stall,
   cache_miss_percent |-> stall, frontend_stall_percent |-> stall,
   backend_stall_percent |-> stall, variation |-> Variation(rates),
   sample_throughput_per_sec |-> rates, sample_latency_ns_per_op |-> latency,
   median_ns_per_op |-> 600, p95_ns_per_op |-> 6000, mad_ns_per_op |-> 0]

Earlier(name, measured) ==
  [name |-> name, group |-> "sorting", kind |-> "standard", metadata |-> <<>>,
   domain |-> "cpu", scope |-> "perf", emits_cpu_diagnostics |-> TRUE, stats |-> measured]

Before ==
  {Stats(Ops, rate, rates, <<250, 300>>, Counters, 20, 12, stall) :
     rate \in {0, 100, 101, 200}, rates \in {<<>>, <<100, 300>>}, stall \in {0, 50}}
  \cup {Stats([amount |-> 2, unit |-> "bytes"], 400, <<>>, <<>>, {}, 0, 0, 0)}

Working == [c \in Counters |-> 24]
Measured == {Sample(1, 12, NoCounters, <<>>), Sample(2, 24, Working, <<>>),
             Sample(0, 12, NoCounters, <<>>)}

(* Rates that differ by less and by more than one and two percent          *)
Close  == {Stats(Ops, rate, <<>>, <<>>, Counters, 2, 12, stall) :
             rate \in {198, 199, 201, 202, 203, 204, 210}, stall \in {0, 50}}
Steady == {Sample(200, 24, Working, <<>>)}

Listed == [Base EXCEPT !.groups = {<<"group", "sorting">>}, !.offered = {"throughput"},
                       !.randomized = TRUE, !.handles = 2]

Lists ==
  {[Listed EXCEPT !.cases = <<"sort_small", "sort_large", "map">>,
                  !.groups = {<<"group", "sorting">>, <<"group", "maps">>},
                  !.arguments = <<Path>> \o arguments] :
     arguments \in {<<"--", "sort">>, <<>>}}
  \cup {[Listed EXCEPT !.cases = <<"sort_small", "sort_large">>, !.samples = Measured,
                       !.baselines = {<<Earlier("sort_small", s)>> : s \in Before}
                         \cup {<<Earlier("map", s), Earlier("sort_small", t)>> :
                                  s \in {CHOOSE b \in Before : TRUE}, t \in Before}],
       [Listed EXCEPT !.samples = Steady, !.baselines = {<<Earlier("sort_small", s)>> : s \in Close}]}

Samplings ==
  {[Base EXCEPT !.runtime = Runtime(1, 4), !.samples = Plain],
   [Base EXCEPT !.runtime = Runtime(2, 3), !.samples = Plain \cup Reported,
                !.offered = {"throughput"}, !.handles = 2],
   [Base EXCEPT !.runtime = Runtime(1, 2), !.samples = Reported,
                !.offered = {"diagnostic_pass", "diagnostic_samples"}, !.handles = 3]}

MCPrograms == Launches \cup Chains \cup Lists \cup Samplings
==============================================================================
