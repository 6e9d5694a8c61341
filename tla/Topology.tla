------------------------------ MODULE Topology ------------------------------
(***************************************************************************)
(* The link map and the search for a next hop (netsim/Topology.cpp).       *)
(*                                                                         *)
(* The Link lines of the configuration file are added one by one; then the *)
(* nodes ask for next hops, one question at a time.  A question starts the *)
(* breadth-first loop of nexthop() at the destination, and a step is one   *)
(* turn of that loop.  The loop keeps no record of the nodes it has        *)
(* visited.                                                                *)
(*                                                                         *)
(* linkMap is a std::multimap: the links of a node stay in the order in    *)
(* which they were inserted.  lines (what the file says last of each pair  *)
(* of nodes) and visited (turns of the loop) are history.                  *)
(***************************************************************************)
EXTENDS Integers, FiniteSets, SequencesExt

CONSTANTS Nodes,
          Costs,         \* the <<propagation latency, bit time>> a Link line may give
          MaxLines,      \* bound: Link lines
          MaxVisits      \* bound: turns of the loop

ASSUME NodesAssumption == IsFiniteSet(Nodes)
ASSUME BoundsAssumption == MaxLines \in Nat /\ MaxVisits \in Nat

VARIABLES linkMap,       \* [Nodes -> Seq of [neighbor, cost]]
          phase,         \* "config", "idle", "search", "found", "assert"
          query,         \* <<node, destination>> of the last question
          bfsq,
          answer,        \* the node returned
          lines, added, visited

vars == <<linkMap, phase, query, bfsq, answer, lines, added, visited>>

Pairs == {p \in Nodes \X Nodes : p[1] # p[2]}

---------------------------------------------------------------------------
(* Links.                                                                  *)

\* The links that lead from s to d.
Found(s, d) == {k \in DOMAIN linkMap[s] : linkMap[s][k].neighbor = d}

find_link(s, d) == linkMap[s][CHOOSE k \in Found(s, d) : TRUE]

Without(links, d) == LET leadsToD(link) == link.neighbor = d
                     IN  RemoveFirstMatch(links, leadsToD)

erase_link(m, s, d) == [m EXCEPT ![s] = Without(@, d)]

add_link_KeepsReverse(s, d, cost) ==
    LET rest == erase_link(linkMap, s, d)
    IN  [n \in Nodes |-> IF n = s THEN Append(rest[n], [neighbor |-> d, cost |-> cost])
                         ELSE IF n = d THEN Append(rest[n], [neighbor |-> s, cost |-> cost])
                         ELSE rest[n]]

\* A new line takes the place of an earlier one, in both directions.
add_link(s, d, cost) ==
    LET rest == erase_link(erase_link(linkMap, s, d), d, s)
    IN  [n \in Nodes |-> IF n = s THEN Append(rest[n], [neighbor |-> d, cost |-> cost])
                         ELSE IF n = d THEN Append(rest[n], [neighbor |-> s, cost |-> cost])
                         ELSE rest[n]]

Init == /\ linkMap = [n \in Nodes |-> <<>>]
        /\ phase = "config"
        /\ query = <<>> /\ bfsq = <<>> /\ answer = <<>>
        /\ lines = <<>> /\ added = 0 /\ visited = 0

AddLink ==
    /\ phase = "config" /\ added < MaxLines
    /\ \E p \in Pairs, cost \in Costs :
          /\ linkMap' = add_link(p[1], p[2], cost)
          /\ lines' = [x \in DOMAIN lines \cup {{p[1], p[2]}} |->
                          IF x = {p[1], p[2]} THEN cost ELSE lines[x]]
    /\ added' = added + 1
    /\ UNCHANGED <<phase, query, bfsq, answer, visited>>

\* The file ends, and the events begin.
Run == /\ phase = "config"
       /\ phase' = "idle"
       /\ UNCHANGED <<linkMap, query, bfsq, answer, lines, added, visited>>

---------------------------------------------------------------------------
(* nexthop(s, d).                                                          *)

Ask == /\ phase \in {"idle", "found"}
       /\ \E p \in Pairs : query' = p /\ bfsq' = <<p[2]>>
       /\ phase' = "search" /\ visited' = 0 /\ answer' = <<>>
       /\ UNCHANGED <<linkMap, lines, added>>

Neighbors(n) == [k \in DOMAIN linkMap[n] |-> linkMap[n][k].neighbor]

Return_TakesBack ==
    /\ phase = "search" /\ bfsq # <<>>
    /\ Found(Head(bfsq), query[1]) # {}
    /\ answer' = Last(bfsq) /\ phase' = "found"
    /\ bfsq' = <<>> /\ visited' = visited + 1
    /\ UNCHANGED <<linkMap, query, lines, added>>

\* A neighbour of `current' is the node that asks.
Return == /\ phase = "search" /\ bfsq # <<>>
          /\ Found(Head(bfsq), query[1]) # {}
          /\ answer' = Head(bfsq) /\ phase' = "found"
          /\ bfsq' = <<>> /\ visited' = visited + 1
          /\ UNCHANGED <<linkMap, query, lines, added>>

Visit_DepthFirst ==
    /\ phase = "search" /\ bfsq # <<>> /\ visited < MaxVisits
    /\ Found(Head(bfsq), query[1]) = {}
    /\ bfsq' = Neighbors(Head(bfsq)) \o Tail(bfsq)
    /\ visited' = visited + 1
    /\ UNCHANGED <<linkMap, phase, query, answer, lines, added>>

Visit_RequeuesCurrent ==
    /\ phase = "search" /\ bfsq # <<>> /\ visited < MaxVisits
    /\ Found(Head(bfsq), query[1]) = {}
    /\ bfsq' = Append(Tail(bfsq), Head(bfsq)) \o Neighbors(Head(bfsq))
    /\ visited' = visited + 1
    /\ UNCHANGED <<linkMap, phase, query, answer, lines, added>>

\* Otherwise all of them are queued, visited before or not.
Visit == /\ phase = "search" /\ bfsq # <<>> /\ visited < MaxVisits
         /\ Found(Head(bfsq), query[1]) = {}
         /\ bfsq' = Tail(bfsq) \o Neighbors(Head(bfsq))
         /\ visited' = visited + 1
         /\ UNCHANGED <<linkMap, phase, query, answer, lines, added>>

\* The queue runs empty: ASSERT(false) ends the program.
FallThrough == /\ phase = "search" /\ bfsq = <<>>
               /\ phase' = "assert"
               /\ UNCHANGED <<linkMap, query, bfsq, answer, lines, added, visited>>

---------------------------------------------------------------------------
Next == AddLink \/ Run \/ Ask \/ Return \/ Visit \/ FallThrough

Spec == Init /\ [][Next]_vars

\* nexthop() is a loop: it goes on until it returns.
FairSpec == Spec /\ WF_vars(Return \/ Visit \/ FallThrough)

---------------------------------------------------------------------------
(* Properties.                                                             *)

\* "If duplicate link entries are specified, the last one is used" (:68), and
\* it is used in both directions, whichever of them the line names: two nodes
\* that the file joins have one link each way, with the cost last given.
LastLineIsUsed ==
    \A p \in Pairs :
        IF {p[1], p[2]} \in DOMAIN lines
        THEN Cardinality(Found(p[1], p[2])) = 1 /\ find_link(p[1], p[2]).cost = lines[{p[1], p[2]}]
        ELSE Found(p[1], p[2]) = {}

\* The pairs that the file joins.
Edges == DOMAIN lines

Joined(E, m, n) == {m, n} \in E

\* The walks of k edges of E that begin at d, and the nodes where they end.
Walks(E, d, k) == {w \in [0..k -> Nodes] : w[0] = d /\ \A i \in 1..k : Joined(E, w[i-1], w[i])}

Away(E, d, k) == {w[k] : w \in Walks(E, d, k)}

Reachable(s, d) == \E k \in 0..Cardinality(Nodes) : s \in Away(Edges, d, k)

Distance(s, d) == CHOOSE k \in 0..Cardinality(Nodes) :
                      s \in Away(Edges, d, k) /\ \A j \in 0..k-1 : s \notin Away(Edges, d, j)

\* The next hop is a neighbour, and one link nearer to the destination than
\* the node that asks, k links away where that node is not k or fewer links
\* away: "essentially implements shortest path routing" (Topology.h:35), and
\* packets that follow the next hops never go in circles.
OneStepNearer ==
    phase = "found" =>
        /\ Joined(Edges, query[1], answer)
        /\ \E k \in 0..visited-1 :
              /\ answer \in Away(Edges, query[2], k)
              /\ \A j \in 0..k : query[1] \notin Away(Edges, query[2], j)

\* The search returns, at the latest, when it has followed every walk that is
\* shorter than the way to the node that asks.  Without a record of the nodes
\* visited this is all that bounds the loop: the number of walks grows with
\* the power of the distance.
WorkBounded ==
    phase \in {"search", "found"} /\ Reachable(query[1], query[2]) =>
        visited - (IF phase = "found" THEN 1 ELSE 0)
            < Cardinality(UNION {Walks(Edges, query[2], k) : k \in 0..Distance(query[1], query[2]) - 1})

\* A question about a destination that can be reached gets its answer.
Answered == phase = "search" /\ Reachable(query[1], query[2]) ~> phase = "found"
=============================================================================
