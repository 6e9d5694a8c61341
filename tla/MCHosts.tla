------------------------------ MODULE MCHosts ------------------------------
(***************************************************************************)
(* Hosts with the values of the model checker.                             *)
(***************************************************************************)
EXTENDS Hosts

\* A host is a source twice, and a destination after that.
Reuse == << [from |-> "a", to |-> "b"], [from |-> "a", to |-> "b"], [from |-> "b", to |-> "a"] >>

\* The flow has its start time to itself, so that insert_p() has kept it.
OwnTime(k) == \A l \in FlowIds \ {k} : Flows[l].from = Flows[k].from => start[l] # start[k]

\* "Time s, // Start time of node" (FDTPFlow.h:8): the flow begins at that time.
\* This is asked only of flows that are in dest_map: of two flows of a host with
\* one start time, insert_p() keeps the first.
EveryFlowStarts == \A k \in FlowIds : OwnTime(k) /\ start[k] < now => k \in begun
=============================================================================
