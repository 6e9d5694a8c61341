---------------------------- MODULE MCCongestion ----------------------------
(***************************************************************************)
(* CongestionControl with the values of the model checker.                 *)
(***************************************************************************)
EXTENDS CongestionControl

\* Memory that was never used, the leftovers of a round with a mark, and
\* counters whose share of marks is 2, 8 and -3.
SoundOrNot == {<<0, 0>>, <<2, 1>>, <<1, 2>>, <<1, 8>>, <<-1, 3>>}

\* An int that cannot hold its float: the least one, or the largest.
LeastOrLargest == {-9, 8}
=============================================================================
