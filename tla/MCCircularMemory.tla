--------------------------- MODULE MCCircularMemory ---------------------------
(***************************************************************************)
(* An instance of CircularMemory for TLC: a ring of a few bytes, so that   *)
(* every position of tail_ meets every request within a few allocations.   *)
(***************************************************************************)
EXTENDS CircularMemory

R(s, a) == [size |-> s, alignment |-> a]

\* Sizes from the smallest to one that fits only an untouched ring (the only one
\* that is not servable), with alignments that divide and that do not divide the
\* place of the header.
MixedRequests == {R(1, 1), R(2, 4), R(3, 2), R(14, 1)}
===============================================================================
