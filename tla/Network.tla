------------------------------ MODULE Network ------------------------------
(***************************************************************************)
(* The simulator under the protocol: the event loop (Scheduler), its two   *)
(* time-ordered maps (Timer, PacketScheduler), the output queues of the    *)
(* nodes (FIFONode, Router) and the delays of the links (Topology).        *)
(*                                                                         *)
(* The program has one thread.  Scheduler::run() picks the next event and  *)
(* calls a node; what a Host does then is left open: until it returns      *)
(* (`running' names it) it calls send(), set_timer() and cancel_timer() as *)
(* it likes.  The nodes between the hosts are modelled whole.              *)
(*                                                                         *)
(* A std::multimap keeps entries of equal time in the order of insertion;  *)
(* here each entry carries a ticket.  A queue_map entry that send() has    *)
(* not created yet is an idle one.  sent, arrived and dropped are history. *)
(***************************************************************************)
EXTENDS Integers, Sequences, FiniteSets

CONSTANTS Hosts, Routers, FIFONodes,
          NextHop,       \* [<<node, destination>> |-> neighbour], Topology::nexthop()
          Plat,          \* [<<node, neighbour>> |-> propagation latency]
          BitTime,       \* [<<node, neighbour>> |-> time to transmit one bit]
          QueueSize,     \* [node |-> packets its output queues hold]
          Flows,         \* the pairs <<source, destination>> of hosts that talk
          Hops,          \* [flow |-> [node on its way |-> links from the source]]
          Lengths,       \* packet lengths in bytes
          Delays,        \* how far ahead a host sets a timer
          Starts,        \* the timers FDTPFlow() sets: pairs <<host, time>>
          Idle,          \* no handler is running
          MaxCalls       \* bound: calls the hosts make

Nodes == Hosts \cup Routers \cup FIFONodes
Links == DOMAIN BitTime

\* Hosts sit at the edge: Host::receive() takes every packet as its own.
ASSUME NodesAssumption == /\ Hosts \cap (Routers \cup FIFONodes) = {}
                          /\ Routers \cap FIFONodes = {}
                          /\ Idle \notin Nodes
ASSUME LinksAssumption == /\ Links \subseteq Nodes \X Nodes
                          /\ Plat \in [Links -> Nat]
                          /\ BitTime \in [Links -> Nat]
ASSUME FlowsAssumption == Flows \subseteq {f \in Hosts \X Hosts : f[1] # f[2]}
ASSUME RoutesAssumption ==
    \A f \in Flows : \A n \in Nodes \ {f[2]} :
        LET m == NextHop[<<n, f[2]>>]
        IN  <<n, m>> \in Links /\ (m \in Hosts => m = f[2])
\* The next hops of a flow lead to its destination, and not in circles.
ASSUME HopsAssumption ==
    \A f \in Flows :
        /\ {f[1], f[2]} \subseteq DOMAIN Hops[f] /\ DOMAIN Hops[f] \subseteq Nodes
        /\ Hops[f][f[1]] = 0 /\ Hops[f][f[2]] \in Nat
        /\ \A n \in DOMAIN Hops[f] : Hops[f][n] \in 0..Hops[f][f[2]]
        /\ \A m, n \in DOMAIN Hops[f] : Hops[f][m] = Hops[f][n] => m = n
        /\ \A n \in DOMAIN Hops[f] \ {f[2]} :
              LET m == NextHop[<<n, f[2]>>]
              IN  m \in DOMAIN Hops[f] /\ Hops[f][m] = Hops[f][n] + 1
ASSUME SizesAssumption == /\ QueueSize \in [Nodes -> Nat \ {0}]
                          /\ Lengths \subseteq Nat \ {0}
                          /\ Delays \subseteq Nat
                          /\ Starts \subseteq Hosts \X Nat /\ IsFiniteSet(Starts)
                          /\ MaxCalls \in Nat

VARIABLES virtual_clock,
          timer_map,     \* set of [time, ticket, node]
          packet_map,    \* set of [time, ticket, link, packet, trans]
          queue_map,     \* [Links -> [packet_queue, pending_send]]
          ticket,        \* entries made in the two maps
          running,       \* the host whose handler runs, or Idle
          calls,         \* calls the hosts have made
          sent,          \* [Flows -> packets handed to send()]
          arrived,       \* [Flows -> ids received, in order]
          dropped        \* packets that met a full queue: set of [link, flow, id]

vars == <<virtual_clock, timer_map, packet_map, queue_map, ticket, running, calls,
          sent, arrived, dropped>>

---------------------------------------------------------------------------
(* Links and output queues.                                                *)

link_trans_delay(l, p) == p.length * 8 * BitTime[l]

link_delay(l, p) == Plat[l] + link_trans_delay(l, p)

Flow(p) == <<p.source, p.destination>>

Entry(time, n, l, p, trans) ==
    [time |-> time, ticket |-> n, link |-> l, packet |-> p, trans |-> trans]

SendIt_Concurrent(l, q, now, rest) ==
    \/ /\ q.packet_queue = <<>>
       /\ queue_map' = [queue_map EXCEPT ![l] = q]
       /\ packet_map' = rest
       /\ UNCHANGED ticket
    \/ /\ q.packet_queue # <<>>
       /\ LET p == Head(q.packet_queue)
          IN  /\ queue_map' = [queue_map EXCEPT ![l] =
                                  [packet_queue |-> Tail(q.packet_queue), pending_send |-> TRUE]]
              /\ packet_map' = rest \cup
                    { Entry(now + link_delay(l, p), ticket, l, p, FALSE),
                      Entry(now + link_trans_delay(l, p), ticket + 1, l, p, TRUE) }
              /\ ticket' = ticket + 2

SendIt_NotPending(l, q, now, rest) ==
    \/ /\ q.pending_send \/ q.packet_queue = <<>>
       /\ queue_map' = [queue_map EXCEPT ![l] = q]
       /\ packet_map' = rest
       /\ UNCHANGED ticket
    \/ /\ ~q.pending_send /\ q.packet_queue # <<>>
       /\ LET p == Head(q.packet_queue)
          IN  /\ queue_map' = [queue_map EXCEPT ![l].packet_queue = Tail(q.packet_queue)]
              /\ packet_map' = rest \cup
                    { Entry(now + link_delay(l, p), ticket, l, p, FALSE),
                      Entry(now + link_trans_delay(l, p), ticket + 1, l, p, TRUE) }
              /\ ticket' = ticket + 2

SendIt_DequeuesFirst(l, q, now, rest) ==
    \/ /\ q.pending_send \/ q.packet_queue = <<>>
       /\ queue_map' = [queue_map EXCEPT ![l] =
                           [q EXCEPT !.packet_queue = IF @ = <<>> THEN @ ELSE Tail(@)]]
       /\ packet_map' = rest
       /\ UNCHANGED ticket
    \/ /\ ~q.pending_send /\ q.packet_queue # <<>>
       /\ LET p == Head(q.packet_queue)
          IN  /\ queue_map' = [queue_map EXCEPT ![l] =
                                  [packet_queue |-> Tail(q.packet_queue), pending_send |-> TRUE]]
              /\ packet_map' = rest \cup
                    { Entry(now + link_delay(l, p), ticket, l, p, FALSE),
                      Entry(now + link_trans_delay(l, p), ticket + 1, l, p, TRUE) }
              /\ ticket' = ticket + 2

\* send_it(): the queue of link l, now q, starts to transmit its head unless a
\* packet is in transmission; `rest' is what is left of packet_map.
SendIt(l, q, now, rest) ==
    \/ /\ q.pending_send \/ q.packet_queue = <<>>
       /\ queue_map' = [queue_map EXCEPT ![l] = q]
       /\ packet_map' = rest
       /\ UNCHANGED ticket
    \/ /\ ~q.pending_send /\ q.packet_queue # <<>>
       /\ LET p == Head(q.packet_queue)
          IN  /\ queue_map' = [queue_map EXCEPT ![l] =
                                  [packet_queue |-> Tail(q.packet_queue), pending_send |-> TRUE]]
              /\ packet_map' = rest \cup
                    { Entry(now + link_delay(l, p), ticket, l, p, FALSE),
                      Entry(now + link_trans_delay(l, p), ticket + 1, l, p, TRUE) }
              /\ ticket' = ticket + 2

Marked_Late(l, p) ==
    IF l[1] \in Routers /\ Len(queue_map[l].packet_queue) > QueueSize[l[1]] \div 2
    THEN [p EXCEPT !.ECN = TRUE]
    ELSE p

\* A Router marks the packets that find its queue half full.
Marked(l, p) ==
    IF l[1] \in Routers /\ Len(queue_map[l].packet_queue) >= QueueSize[l[1]] \div 2
    THEN [p EXCEPT !.ECN = TRUE]
    ELSE p

\* send() at a host and receive() at a node in between: enq(), then send_it().
Enqueue(n, p, now, rest) ==
    LET l == <<n, NextHop[<<n, p.destination>>]>>
        q == queue_map[l]
    IN  \/ /\ Len(q.packet_queue) < QueueSize[n]
           /\ SendIt(l, [q EXCEPT !.packet_queue = Append(@, Marked(l, p))], now, rest)
           /\ UNCHANGED dropped
        \/ /\ Len(q.packet_queue) >= QueueSize[n]
           /\ dropped' = dropped \cup {[link |-> l, flow |-> Flow(p), id |-> p.id]}
           /\ packet_map' = rest
           /\ UNCHANGED <<queue_map, ticket>>

---------------------------------------------------------------------------
(* Scheduler::run().                                                       *)

Init == /\ virtual_clock = 0
        /\ \E S \in SUBSET Starts : \E order \in [S -> 1..Cardinality(S)] :
              /\ \A s, t \in S : order[s] = order[t] => s = t
              /\ timer_map = {[time |-> s[2], ticket |-> order[s], node |-> s[1]] : s \in S}
        /\ packet_map = {}
        /\ queue_map = [l \in Links |-> [packet_queue |-> <<>>, pending_send |-> FALSE]]
        /\ ticket = Cardinality(Starts) + 1
        /\ running = Idle
        /\ calls = 0
        /\ sent = [f \in Flows |-> 0]
        /\ arrived = [f \in Flows |-> <<>>]
        /\ dropped = {}

\* The entry at begin() of a multimap.
First(m, e) == /\ e \in m
               /\ \A f \in m : e.time < f.time \/ (e.time = f.time /\ e.ticket =< f.ticket)

NextTimer_AlwaysFirst(t) == running = Idle /\ First(timer_map, t)

\* A timer goes before a packet event of the same time.
NextTimer(t) == /\ running = Idle
                /\ First(timer_map, t)
                /\ \A e \in packet_map : t.time =< e.time

NextPacket(e) == /\ running = Idle
                 /\ First(packet_map, e)
                 /\ \A t \in timer_map : e.time < t.time

ProcessTimer ==
    \E t \in timer_map :
        /\ NextTimer(t)
        /\ virtual_clock' = t.time
        /\ timer_map' = timer_map \ {t}
        /\ running' = t.node
        /\ UNCHANGED <<packet_map, queue_map, ticket, calls, sent, arrived, dropped>>

\* The packet has reached its destination: Host::receive() starts.
Deliver ==
    \E e \in packet_map :
        /\ NextPacket(e) /\ ~e.trans /\ e.packet.destination = e.link[2]
        /\ virtual_clock' = e.time
        /\ packet_map' = packet_map \ {e}
        /\ running' = e.link[2]
        /\ arrived' = [arrived EXCEPT ![Flow(e.packet)] = Append(@, e.packet.id)]
        /\ UNCHANGED <<timer_map, queue_map, ticket, calls, sent, dropped>>

\* receive() of the Router or FIFONode at the end of the link.
Forward ==
    \E e \in packet_map :
        /\ NextPacket(e) /\ ~e.trans /\ e.packet.destination # e.link[2]
        /\ virtual_clock' = e.time
        /\ Enqueue(e.link[2], e.packet, e.time, packet_map \ {e})
        /\ UNCHANGED <<timer_map, running, calls, sent, arrived>>

SendDone_QueueWaits ==
    \E e \in packet_map :
        /\ NextPacket(e) /\ e.trans
        /\ virtual_clock' = e.time
        /\ queue_map' = [queue_map EXCEPT ![e.link].pending_send = FALSE]
        /\ packet_map' = packet_map \ {e}
        /\ UNCHANGED <<timer_map, ticket, running, calls, sent, arrived, dropped>>

SendDone ==
    \E e \in packet_map :
        /\ NextPacket(e) /\ e.trans
        /\ virtual_clock' = e.time
        /\ SendIt(e.link, [queue_map[e.link] EXCEPT !.pending_send = FALSE], e.time, packet_map \ {e})
        /\ UNCHANGED <<timer_map, running, calls, sent, arrived, dropped>>

---------------------------------------------------------------------------
(* What the handler of a host may call.                                    *)

Call == /\ running \in Hosts
        /\ calls < MaxCalls
        /\ calls' = calls + 1
        /\ UNCHANGED <<virtual_clock, running, arrived>>

HostSend ==
    /\ Call
    /\ \E f \in Flows, len \in Lengths :
          /\ f[1] = running
          /\ sent' = [sent EXCEPT ![f] = @ + 1]
          /\ Enqueue(running, [source |-> f[1], destination |-> f[2], id |-> sent[f] + 1,
                               length |-> len, ECN |-> FALSE], virtual_clock, packet_map)
    /\ UNCHANGED timer_map

SetTimer_SameTicket ==
    /\ Call
    /\ \E d \in Delays :
          timer_map' = timer_map \cup {[time |-> virtual_clock + d, ticket |-> ticket, node |-> running]}
    /\ UNCHANGED <<packet_map, queue_map, ticket, sent, dropped>>

SetTimer ==
    /\ Call
    /\ \E d \in Delays :
          timer_map' = timer_map \cup {[time |-> virtual_clock + d, ticket |-> ticket, node |-> running]}
    /\ ticket' = ticket + 1
    /\ UNCHANGED <<packet_map, queue_map, sent, dropped>>

\* Every cookie is NULL: of several timers for the same time the oldest goes.
CancelTimer ==
    /\ Call
    /\ \E t \in timer_map :
          /\ First({u \in timer_map : u.node = running /\ u.time = t.time}, t)
          /\ timer_map' = timer_map \ {t}
    /\ UNCHANGED <<packet_map, queue_map, ticket, sent, dropped>>

Return ==
    /\ running # Idle
    /\ running' = Idle
    /\ UNCHANGED <<virtual_clock, timer_map, packet_map, queue_map, ticket, calls, sent, arrived, dropped>>

---------------------------------------------------------------------------
Next == \/ ProcessTimer \/ Deliver \/ Forward \/ SendDone
        \/ HostSend \/ SetTimer \/ CancelTimer \/ Return

Spec == Init /\ [][Next]_vars

\* run() loops until both maps are empty, and every handler returns.
FairSpec == Spec /\ WF_vars(Next)

---------------------------------------------------------------------------
(* Properties.                                                             *)

Receptions(l) == {e \in packet_map : e.link = l /\ ~e.trans}

Completions(l) == {e \in packet_map : e.link = l /\ e.trans}

Packets == [source : Hosts, destination : Hosts, id : Nat, length : Lengths, ECN : BOOLEAN]

TypeOK ==
    /\ virtual_clock \in Nat /\ ticket \in Nat
    /\ calls \in 0..MaxCalls
    /\ running \in Hosts \cup {Idle}
    /\ \A t \in timer_map : t \in [time : Nat, ticket : 0..ticket-1, node : Hosts]
    /\ \A e \in packet_map :
          e \in [time : Nat, ticket : 0..ticket-1, link : Links, packet : Packets, trans : BOOLEAN]
    /\ \A l \in Links : /\ queue_map[l].packet_queue \in Seq(Packets)
                        /\ queue_map[l].pending_send \in BOOLEAN
    /\ \A f \in Flows : sent[f] \in Nat /\ arrived[f] \in Seq(Nat)
    /\ \A d \in dropped : d.link \in Links /\ d.flow \in Flows

\* The virtual clock never goes back: run() takes the earlier of the two
\* heads, and nothing is ever scheduled before the present.
ClockNeverBack == [][virtual_clock' >= virtual_clock]_vars

\* No queue stalls and none sends twice at once: pending_send is set exactly
\* while one send_done event is scheduled, and a queue with packets has it set.
QueueMoves ==
    \A l \in Links :
        /\ queue_map[l].pending_send <=> Completions(l) # {}
        /\ Cardinality(Completions(l)) =< 1
        /\ queue_map[l].packet_queue # <<>> => queue_map[l].pending_send

\* A link carries one packet at a time: of two packets on their way over it the
\* later one arrives at least its own transmission time after the other.
OneAtATime ==
    \A l \in Links : \A d, e \in Receptions(l) :
        d.ticket < e.ticket => d.time + link_trans_delay(l, e.packet) =< e.time

\* The packets of a flow that are in a queue or on a link.
InTransit(f) ==
    {e.packet.id : e \in {d \in packet_map : ~d.trans /\ Flow(d.packet) = f}}
    \cup UNION {{queue_map[l].packet_queue[k].id :
                    k \in {j \in DOMAIN queue_map[l].packet_queue :
                              Flow(queue_map[l].packet_queue[j]) = f}} : l \in Links}

\* Every packet handed to send() is on its way, has arrived, or met a full
\* queue, and only one of the three.
Accounted ==
    \A f \in Flows :
        LET there == {arrived[f][k] : k \in DOMAIN arrived[f]}
            lost  == {d.id : d \in {c \in dropped : c.flow = f}}
        IN  /\ 1..sent[f] = InTransit(f) \cup there \cup lost
            /\ InTransit(f) \cap (there \cup lost) = {} /\ there \cap lost = {}

\* ECN speaks before a router drops: the queue that turns a packet away holds
\* a marked one.
WarnedBeforeDrop ==
    [][\A d \in dropped' \ dropped :
          d.link[1] \in Routers =>
              \E k \in DOMAIN queue_map[d.link].packet_queue : queue_map[d.link].packet_queue[k].ECN]_vars

\* Every flow has a channel that loses packets but keeps their order: what
\* Fdtp takes the network for.
Channel == INSTANCE LossyChannel WITH inTransit <- [f \in Flows |-> InTransit(f)]

ImplementsChannel == Channel!Spec

\* Once the hosts fall silent the simulation comes to its end, with every
\* queue empty and no event left.
Drains ==
    <>[](/\ running = Idle /\ timer_map = {} /\ packet_map = {}
         /\ \A l \in Links : queue_map[l].packet_queue = <<>>)
=============================================================================
