---------------------------- MODULE LossyChannel ----------------------------
(***************************************************************************)
(* What the network promises to every pair of hosts: packets of one flow   *)
(* arrive in the order of send(), at most once each, and may be dropped    *)
(* anywhere on the way.  Packets carry their number in the flow, so the    *)
(* content of a channel is a set.                                          *)
(***************************************************************************)
EXTENDS Integers, Sequences

CONSTANT Flows           \* pairs <<source, destination>>

VARIABLES sent,          \* [Flows -> number of packets handed to send()]
          inTransit,     \* [Flows -> set of packets on the way]
          arrived        \* [Flows -> sequence of packets received]

vars == <<sent, inTransit, arrived>>

Init == /\ sent = [f \in Flows |-> 0]
        /\ inTransit = [f \in Flows |-> {}]
        /\ arrived = [f \in Flows |-> <<>>]

Send(f) == /\ sent' = [sent EXCEPT ![f] = @ + 1]
           /\ inTransit' = [inTransit EXCEPT ![f] = @ \cup {sent[f] + 1}]
           /\ UNCHANGED arrived

\* send() finds the first queue full.
Refuse(f) == /\ sent' = [sent EXCEPT ![f] = @ + 1]
             /\ UNCHANGED <<inTransit, arrived>>

Lose(f) == \E n \in inTransit[f] :
              /\ inTransit' = [inTransit EXCEPT ![f] = @ \ {n}]
              /\ UNCHANGED <<sent, arrived>>

Arrive(f) == \E n \in inTransit[f] :
                /\ \A m \in inTransit[f] : n =< m
                /\ inTransit' = [inTransit EXCEPT ![f] = @ \ {n}]
                /\ arrived' = [arrived EXCEPT ![f] = Append(@, n)]
                /\ UNCHANGED sent

Next == \E f \in Flows : Send(f) \/ Refuse(f) \/ Lose(f) \/ Arrive(f)

Spec == Init /\ [][Next]_vars
=============================================================================
