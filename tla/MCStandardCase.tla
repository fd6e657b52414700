---------------------------- MODULE MCStandardCase ----------------------------
(* Instances of StandardCase for TLC. *)
EXTENDS StandardCase

MCCase(selected, bench_sample, preferred, diagnostics) ==
    [selected |-> selected, bench_sample |-> bench_sample,
     preferred |-> preferred, diagnostics |-> diagnostics]

\* Cases the filter leaves out, first and in the middle; a fixed chunk beyond
\* MaxChunk; a bench_sample case with diagnostic passes, whose chunk size is
\* searched for.
MCList == << MCCase(FALSE, FALSE, 0, 0), MCCase(TRUE, FALSE, 60, 0),
             MCCase(FALSE, FALSE, 0, 0), MCCase(TRUE, TRUE, 0, 2) >>
MCPrimaries == {None, 0, 9}
MCNoPrimary == {None}

MCBench == << MCCase(TRUE, FALSE, 4, 0) >>
===============================================================================
