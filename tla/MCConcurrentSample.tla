-------------------------- MODULE MCConcurrentSample --------------------------
(* Instances of ConcurrentSample for TLC. *)
EXTENDS ConcurrentSample

\* Two readers and one writer: the first role has several threads.
MCThreeThreads == <<"reader", "reader", "writer">>
MCTwoThreads == <<"reader", "writer">>
===============================================================================
