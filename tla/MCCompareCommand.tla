--------------------------- MODULE MCCompareCommand ---------------------------
(* Instances of CompareCommand for TLC. *)
EXTENDS CompareCommand

MCHardware == "hardware" :> "node"

\* A case of a series and a case of a native report.
MCCase(samples) ==
    [name |-> "op", scope |-> "s", direction |-> "lower", samples |-> samples,
     validity |-> "valid", fields |-> TRUE, median |-> 0, throughput_per_sec |-> 0,
     cv_percent |-> 0, count |-> Len(samples),
     metrics |-> <<>>]
MCStored(median, samples) == [MCCase(samples) EXCEPT !.median = median]

MCSeries(results) ==
    [json |-> TRUE, document_type |-> "series", schema_version |-> "current", shape |-> TRUE,
     suite |-> "a", hostname |-> Blank, validity |-> "valid", results |-> results,
     context |-> [runner_id |-> "r", environment |-> MCHardware, provenance |-> <<>>]]

\* A native report has the context its session ends with.
MCProvenance == "revision" :> "1"
MCContext(runner) ==
    [runner_id |-> runner, environment |-> MCHardware, provenance |-> <<>>]
MCNative(session, results) ==
    [json |-> TRUE, document_type |-> "absent", schema_version |-> "current", shape |-> TRUE,
     suite |-> "a", hostname |-> session.hostname, validity |-> "valid",
     context |-> session.context, results |-> results]
MCSession(sources, runner) ==
    SetContext(NewSession(ResolveHostname(sources), MCProvenance), MCContext(runner))
MCOurs == MCSession(<<Blank, "r", "h">>, Blank)

\* Ten percent is the threshold: 110 against 100 is not beyond it, 112 is.
MCBase == MCCase(<<100, 120, 90>>)
MCSeriesResults ==
    {<<MCBase>>, <<MCCase(<<110>>)>>, <<MCCase(<<90, 112, 134, 112>>)>>, <<MCCase(<<0, 0>>)>>,
     <<MCCase(<<-100, -80>>)>>, <<MCCase(<<100, 100, 101, 102, 130>>)>>, <<MCCase(<<>>)>>, <<>>,
     <<[MCBase EXCEPT !.validity = "invalid"]>>,
     <<[MCCase(<<>>) EXCEPT !.validity = "invalid"]>>,
     <<[MCBase EXCEPT !.validity = "unexplained"]>>,
     <<[MCBase EXCEPT !.fields = FALSE]>>,
     <<[MCBase EXCEPT !.direction = "informational"]>>,
     <<[MCBase EXCEPT !.direction = "higher"]>>,
     <<[MCCase(<<80>>) EXCEPT !.direction = "higher"]>>,
     <<[MCBase EXCEPT !.name = "other"], [MCCase(<<112>>) EXCEPT !.scope = "t"], MCCase(<<80>>)>>,
     <<MCBase, MCCase(<<200>>)>>}

MCMetric(name, median) == [name |-> name, median |-> median]
MCNativeResults ==
    {<<MCStored(100, <<>>)>>, <<MCStored(0, <<110, 112, 90>>)>>,
     <<[MCStored(0, <<>>) EXCEPT !.throughput_per_sec = 80]>>,
     <<[MCStored(0, <<>>) EXCEPT !.throughput_per_sec = -1]>>,
     <<[MCStored(120, <<100, 140>>) EXCEPT
          !.metrics = <<MCMetric("m", <<1>>), MCMetric("m", <<>>), MCMetric("n", <<2>>)>>]>>,
     <<[MCStored(90, <<90>>) EXCEPT !.metrics = <<MCMetric("m", <<3>>)>>],
       [MCStored(90, <<90>>) EXCEPT !.scope = "t"]>>,
     <<[MCStored(100, <<100, 100, 101, 102, 130>>) EXCEPT !.cv_percent = 6, !.count = 20]>>,
     <<[MCStored(100, <<100, 100, 101, 102, 130>>) EXCEPT !.cv_percent = -1, !.count = 0]>>,
     <<MCStored(100, <<>>), MCStored(50, <<>>)>>, <<>>}

MCPlain == MCSeries(<<MCBase>>)
MCReport == MCNative(MCOurs, <<MCStored(100, <<>>)>>)
MCDocuments ==
    {MCSeries(results) : results \in MCSeriesResults}
    \union {[MCPlain EXCEPT !.suite = suite] : suite \in {"b", Blank}}
    \union {[MCPlain EXCEPT !.validity = validity] : validity \in {"invalid", "unexplained"}}
    \union {[MCSeries(<<>>) EXCEPT !.validity = "invalid"]}
    \union {[MCPlain EXCEPT !.context.runner_id = runner] : runner \in {Blank, "unknown", "q"}}
    \union {[MCPlain EXCEPT !.context.environment = environment] :
              environment \in {<<>>, "hardware" :> Blank}}
    \union {[MCPlain EXCEPT !.schema_version = version] :
              version \in {"absent", "future", "not_a_number"}}
    \union {[document EXCEPT !.document_type = type] :
              document \in {MCPlain}, type \in {"another_string", "not_a_string"}}
    \union {[document EXCEPT !.shape = FALSE] : document \in {MCPlain, MCReport}}
    \union {[MCPlain EXCEPT !.json = FALSE]}
    \union {MCNative(MCOurs, results) : results \in MCNativeResults}
    \union {MCNative(session, MCReport.results) :
              session \in {NewSession("r", MCProvenance), NewSession("unknown", <<>>),
                           MCSession(<<>>, Blank), MCSession(<<>>, "q"),
                           NewSession("r", "revision" :> Blank)}}
    \union {[MCReport EXCEPT !.context = EmptyContext],
            [MCReport EXCEPT !.context = EmptyContext, !.hostname = Blank],
            [MCReport EXCEPT !.suite = Blank]}
    \union {[MCReport EXCEPT !.schema_version = version] :
              version \in {"absent", "future", "not_a_number"}}

MCEntry(document) == [kind |-> "json", document |-> document]
MCFile(document) == [kind |-> "file", entries |-> <<MCEntry(document)>>]
MCDirectory(entries) == [kind |-> "directory", entries |-> entries]

MCLenient == [allow_partial_result_set |-> TRUE, require_same_suite_set |-> FALSE,
              environment_override |-> NoOverride]
MCStrict == [allow_partial_result_set |-> FALSE, require_same_suite_set |-> TRUE,
             environment_override |-> [given |-> TRUE, reason |-> "moved"]]
MCGating == [minimum_change_percent |-> 10, maximum_cv_percent |-> 5,
             maximum_outlier_percent |-> 10, fail_on_regression |-> TRUE, fail_on_invalid |-> TRUE]
MCAdvisory == [MCGating EXCEPT !.minimum_change_percent = 0, !.fail_on_regression = FALSE]

MCCommand(current, baseline, options, policy) ==
    [command |-> "compare", current |-> current, baseline |-> baseline, options |-> options,
     policy |-> policy, output |-> [which \in Outputs |-> None], faults |-> {}, stale |-> {}]

\* Every pair of documents.
MCPairs ==
    {MCCommand(MCFile(d), MCFile(e), MCLenient, MCGating) : d \in MCDocuments, e \in MCDocuments}
    \union {MCCommand(MCFile(d), MCFile(e), MCStrict, MCAdvisory) :
              d \in MCDocuments, e \in MCDocuments}

\* Directories with several suites, and inputs that cannot be loaded.
MCSecond == [MCSeries(<<MCCase(<<150>>)>>) EXCEPT !.suite = "b"]
MCBroken == [MCSeries(<<MCBase>>) EXCEPT !.suite = "c", !.context.runner_id = "q"]
MCInputs ==
    {MCDirectory(entries) : entries \in
       {<<>>, <<[MCEntry(MCPlain) EXCEPT !.kind = "text"], [MCEntry(MCPlain) EXCEPT !.kind = "link"]>>,
        <<MCEntry(MCPlain), [MCEntry(MCSecond) EXCEPT !.kind = "unreadable"]>>,
        <<MCEntry(MCPlain), [MCEntry(MCSecond) EXCEPT !.kind = "locked"]>>,
        <<MCEntry(MCPlain), MCEntry([MCSecond EXCEPT !.suite = "a"])>>,
        <<MCEntry(MCPlain), MCEntry(MCSecond)>>,
        <<MCEntry(MCSeries(<<MCCase(<<80>>)>>)), MCEntry([MCPlain EXCEPT !.suite = "b"])>>,
        <<MCEntry(MCReport), MCEntry(MCBroken)>>,
        <<MCEntry(MCPlain), MCEntry([MCPlain EXCEPT !.suite = "c"])>>,
        <<MCEntry(MCReport), MCEntry([MCSecond EXCEPT !.json = FALSE])>>}}
    \union {[kind |-> kind, entries |-> <<>>] : kind \in {"missing", "other"}}
    \union {MCFile(MCPlain), [kind |-> "file", entries |-> <<[MCEntry(MCPlain) EXCEPT !.kind = "text"]>>]}
MCSuites ==
    {MCCommand(current, baseline, options, MCGating) :
       current \in MCInputs, baseline \in MCInputs,
       options \in {MCLenient, [MCStrict EXCEPT !.environment_override = NoOverride]}}

\* Artefacts: none, one or two, in one file or two, under one spelling or two.
MCAt(spelling, target) == Some([spelling |-> spelling, target |-> target, nameable |-> TRUE])
MCPaths ==
    {[json |-> None, markdown |-> MCAt("./m", "t")],
     [json |-> MCAt("j", "t"), markdown |-> None],
     [json |-> MCAt("j", "t"), markdown |-> MCAt("j", "t")],
     [json |-> MCAt("j", "t"), markdown |-> MCAt("./j", "t")],
     [json |-> MCAt("j", "t"), markdown |-> MCAt("m", "u")],
     [json |-> MCAt("j", "t"),
      markdown |-> Some([spelling |-> "..", target |-> "u", nameable |-> FALSE])]}
MCFaults == {"directories", "open", "write", "rename", "remove", "stdout", "kill"}
MCArtefacts ==
    {[MCCommand(MCFile(MCSeries(<<MCCase(<<150>>)>>)), MCFile(MCPlain), options, policy) EXCEPT
        !.command = command, !.output = paths, !.faults = faults, !.stale = stale] :
       options \in {MCLenient, [MCLenient EXCEPT !.environment_override.given = TRUE]},
       policy \in {MCGating, MCAdvisory, [MCGating EXCEPT !.maximum_cv_percent = -1]},
       command \in {"compare", "validate"}, paths \in MCPaths,
       faults \in {{}, MCFaults \ {"remove"}, MCFaults},
       stale \in {{}, {<<"t", 0>>}, {<<"t", 0>>, <<"t", 1>>}}}

MCSetups == MCPairs \union MCSuites \union MCArtefacts
MCTargets == {"t", "u"}
===============================================================================
