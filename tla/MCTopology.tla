----------------------------- MODULE MCTopology -----------------------------
(***************************************************************************)
(* Topology with the values of the model checker.                          *)
(***************************************************************************)
EXTENDS Topology

\* Some of the <<propagation latency, bit time>> of the example scenarios.
OneCost == {<<10, 1>>}
TwoCosts == {<<10, 1>>, <<10, 2>>}

\* "We can't come here" (Topology.cpp:154), the end of nexthop() behind its
\* loop: the loop runs dry when the destination has no link.
NeverFallsThrough == phase # "assert"
=============================================================================
