--------------------------- MODULE MCConcurrentCase ---------------------------
(* Instances of ConcurrentCase for TLC. *)
EXTENDS ConcurrentCase

\* One thread of each of two roles.
MCTwoThreads == <<"reader", "writer">>
===============================================================================
