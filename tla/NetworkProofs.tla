---------------------------- MODULE NetworkProofs ----------------------------
(***************************************************************************)
(* Proofs about Network, for every topology, every set of flows and every  *)
(* size of the queues: what the maps and queues hold and the marks of the  *)
(* routers; that every packet is accounted for and in one place; and that  *)
(* every flow gets a LossyChannel.                                         *)
(***************************************************************************)
EXTENDS Network, TLAPS, FiniteSetTheorems, SequenceTheorems

---------------------------------------------------------------------------
(* What the two maps and the queues hold.                                  *)

\* A packet that may travel over link l: a host at its end is where it goes to.
OnCourse(l, p) == Flow(p) \in Flows /\ (l[2] \in Hosts => l[2] = p.destination)

Entries(n) == [time : Nat, ticket : 0..n-1, link : Links, packet : Packets, trans : BOOLEAN]

EntriesOK(P, n, t) ==
    \A e \in P : e \in Entries(n) /\ t =< e.time /\ OnCourse(e.link, e.packet)

Queues(l) == [packet_queue : Seq({p \in Packets : OnCourse(l, p)}), pending_send : BOOLEAN]

QueuesOK(Q) == DOMAIN Q = Links /\ (\A l \in Links : Q[l] \in Queues(l)) /\ Q = [l \in Links |-> Q[l]]

TimersOK(T, n, t) == \A u \in T : u \in [time : Nat, ticket : 0..n-1, node : Hosts] /\ t =< u.time

LEMMA TransDelayNat ==
    ASSUME NEW l \in Links, NEW p \in Packets
    PROVE  link_trans_delay(l, p) \in Nat
  <1>1. p.length \in Nat /\ BitTime[l] \in Nat
    BY SizesAssumption, LinksAssumption DEF Packets
  <1>2. p.length * 8 \in Nat
    BY <1>1
  <1> QED BY <1>1, <1>2 DEF link_trans_delay

LEMMA DelayNat ==
    ASSUME NEW l \in Links, NEW p \in Packets
    PROVE  /\ link_delay(l, p) \in Nat
           /\ link_delay(l, p) = Plat[l] + link_trans_delay(l, p)
           /\ Plat[l] \in Nat
  BY TransDelayNat, LinksAssumption DEF link_delay

LEMMA EntriesLater ==
    ASSUME NEW P, NEW n \in Nat, NEW m \in Nat, NEW t, EntriesOK(P, n, t), n =< m
    PROVE  EntriesOK(P, m, t)
  BY DEF EntriesOK, Entries

LEMMA QueueHead ==
    ASSUME NEW S, NEW s \in Seq(S), s # <<>>
    PROVE  Head(s) \in S /\ Tail(s) \in Seq(S)
  BY HeadTailProperties, EmptySeq

\* Packets entered into a queue that leads the right way.
LEMMA QueueAppend ==
    ASSUME NEW l, NEW q \in Queues(l), NEW p \in Packets, OnCourse(l, p)
    PROVE  [q EXCEPT !.packet_queue = Append(@, p)] \in Queues(l)
  <1>1. Append(q.packet_queue, p) \in Seq({r \in Packets : OnCourse(l, r)})
    BY AppendProperties DEF Queues
  <1> DEFINE a == Append(q.packet_queue, p)
  <1>2. [q EXCEPT !.packet_queue = a] \in Queues(l)
    BY <1>1 DEF Queues
  <1> QED BY <1>2

\* send_it() keeps what the maps hold.
LEMMA SendItTypes ==
    ASSUME ticket \in Nat, QueuesOK(queue_map),
           NEW l \in Links, NEW q \in Queues(l), NEW now \in Nat, NEW rest,
           EntriesOK(rest, ticket, now), SendIt(l, q, now, rest)
    PROVE  /\ ticket' \in Nat /\ ticket =< ticket'
           /\ QueuesOK(queue_map') /\ EntriesOK(packet_map', ticket', now)
  <1>1. CASE /\ queue_map' = [queue_map EXCEPT ![l] = q]
             /\ packet_map' = rest /\ ticket' = ticket
    <2>1. QueuesOK(queue_map')
      BY <1>1 DEF QueuesOK
    <2> QED BY <1>1, <2>1
  <1>2. CASE ~q.pending_send /\ q.packet_queue # <<>>
    <2> DEFINE p == Head(q.packet_queue)
               r == [packet_queue |-> Tail(q.packet_queue), pending_send |-> TRUE]
               c == Entry(now + link_delay(l, p), ticket, l, p, FALSE)
               d == Entry(now + link_trans_delay(l, p), ticket + 1, l, p, TRUE)
    <2>1. queue_map' = [queue_map EXCEPT ![l] = r] /\ packet_map' = rest \cup {c, d} /\ ticket' = ticket + 2
      BY <1>2 DEF SendIt
    <2>2. p \in Packets /\ OnCourse(l, p) /\ r \in Queues(l)
      <3>1. p \in {x \in Packets : OnCourse(l, x)} /\ Tail(q.packet_queue) \in Seq({x \in Packets : OnCourse(l, x)})
        BY <1>2, QueueHead DEF Queues
      <3> QED BY <3>1 DEF Queues
    <2>3. QueuesOK(queue_map')
      BY <2>1, <2>2 DEF QueuesOK
    <2> HIDE DEF p, r
    <2>4. link_delay(l, p) \in Nat /\ link_trans_delay(l, p) \in Nat
      BY <2>2, DelayNat, TransDelayNat
    <2>5. ticket \in 0..(ticket+2)-1 /\ ticket + 1 \in 0..(ticket+2)-1 /\ ticket + 2 \in Nat
      OBVIOUS
    <2> DEFINE x == link_delay(l, p)
               y == link_trans_delay(l, p)
    <2>6. /\ c \in Entries(ticket+2) /\ now =< c.time /\ c.link = l /\ c.packet = p
          /\ d \in Entries(ticket+2) /\ now =< d.time /\ d.link = l /\ d.packet = p
      <3> HIDE DEF x, y
      <3>1. /\ Entry(now + x, ticket, l, p, FALSE) \in Entries(ticket+2)
            /\ now =< Entry(now + x, ticket, l, p, FALSE).time
            /\ Entry(now + x, ticket, l, p, FALSE).link = l /\ Entry(now + x, ticket, l, p, FALSE).packet = p
        BY <2>2, <2>4, <2>5 DEF x, Entry, Entries
      <3>2. /\ Entry(now + y, ticket + 1, l, p, TRUE) \in Entries(ticket+2)
            /\ now =< Entry(now + y, ticket + 1, l, p, TRUE).time
            /\ Entry(now + y, ticket + 1, l, p, TRUE).link = l /\ Entry(now + y, ticket + 1, l, p, TRUE).packet = p
        BY <2>2, <2>4, <2>5 DEF y, Entry, Entries
      <3> QED BY <3>1, <3>2 DEF x, y
    <2> HIDE DEF c, d
    <2>7. EntriesOK(rest, ticket + 2, now)
      BY <2>5, EntriesLater
    <2>8. EntriesOK(packet_map', ticket + 2, now)
      BY <2>1, <2>2, <2>6, <2>7 DEF EntriesOK
    <2> QED BY <2>1, <2>3, <2>5, <2>8
  <1> QED BY <1>1, <1>2 DEF SendIt

---------------------------------------------------------------------------
(* What happens on one link.                                               *)

Busy(P, l) == {e \in P : e.link = l /\ e.trans}

Flying(P, l) == {e \in P : e.link = l /\ ~e.trans}

\* At most one packet is in transmission on l; none that left before is due
\* later than the propagation latency after that; and they keep their distance.
Wire(P, t, l) ==
    /\ \A c, d \in Busy(P, l) : c = d
    /\ \A d \in Flying(P, l) :
          d.time =< t + Plat[l] \/ \E c \in Busy(P, l) : d.time =< c.time + Plat[l]
    /\ \A d, e \in Flying(P, l) : d.ticket < e.ticket => d.time + link_trans_delay(l, e.packet) =< e.time

Moves(P, Q, l) == /\ Q[l].pending_send <=> Busy(P, l) # {}
                  /\ Q[l].packet_queue # <<>> => Q[l].pending_send

\* Time passes, and packets arrive.
LEMMA WireLater ==
    ASSUME NEW n \in Nat, NEW t \in Nat, NEW u \in Nat, t =< u, NEW l \in Links,
           NEW P, NEW R \in SUBSET P, EntriesOK(P, n, t), Wire(P, t, l), Busy(R, l) = Busy(P, l)
    PROVE  Wire(R, u, l)
  <1>1. Plat[l] \in Nat
    BY LinksAssumption
  <1>2. Flying(R, l) \subseteq Flying(P, l)
    BY DEF Flying
  <1>3. \A d \in Flying(P, l) : d.time \in Nat
    BY DEF Flying, EntriesOK, Entries
  <1>4. \A d \in Flying(P, l) : d.time =< t + Plat[l] => d.time =< u + Plat[l]
    BY <1>1, <1>3
  <1> QED BY <1>2, <1>4 DEF Wire

\* The end of a transmission.
LEMMA WireDone ==
    ASSUME NEW n \in Nat, NEW t \in Nat, NEW l \in Links, NEW P, NEW c \in Busy(P, l),
           EntriesOK(P, n, t), Wire(P, t, l)
    PROVE  Wire(P \ {c}, c.time, l) /\ Busy(P \ {c}, l) = {}
  <1>1. Plat[l] \in Nat
    BY LinksAssumption
  <1>2. Flying(P \ {c}, l) = Flying(P, l)
    BY DEF Flying, Busy
  <1>3. Busy(P, l) = {c} /\ Busy(P \ {c}, l) = {}
    BY DEF Wire, Busy
  <1>4. c.time \in Nat /\ t =< c.time
    BY DEF Busy, EntriesOK, Entries
  <1>5. \A d \in Flying(P, l) : d.time \in Nat
    BY DEF Flying, EntriesOK, Entries
  <1>6. \A d \in Flying(P, l) : d.time =< t + Plat[l] => d.time =< c.time + Plat[l]
    BY <1>1, <1>4, <1>5
  <1>7. \A d \in Flying(P, l) : d.time =< c.time + Plat[l]
    BY <1>3, <1>6 DEF Wire
  <1> QED BY <1>2, <1>3, <1>7 DEF Wire

\* The entries that send_it() makes for packet p.
Started(P, n, t, l, p) ==
    P \cup { Entry(t + link_delay(l, p), n, l, p, FALSE), Entry(t + link_trans_delay(l, p), n + 1, l, p, TRUE) }

\* The beginning of one.
LEMMA WireStart ==
    ASSUME NEW n \in Nat, NEW t \in Nat, NEW l \in Links, NEW p \in Packets, NEW P,
           EntriesOK(P, n, t), Wire(P, t, l), Busy(P, l) = {}
    PROVE  LET R == Started(P, n, t, l, p)
           IN  /\ Wire(R, t, l) /\ Busy(R, l) # {}
               /\ \A m \in Links \ {l} : Busy(R, m) = Busy(P, m) /\ Flying(R, m) = Flying(P, m)
  <1> DEFINE R == Started(P, n, t, l, p)
             x == link_trans_delay(l, p)
             c == Entry(t + link_delay(l, p), n, l, p, FALSE)
             d == Entry(t + link_trans_delay(l, p), n + 1, l, p, TRUE)
  <1>1. Plat[l] \in Nat /\ x \in Nat /\ link_delay(l, p) = Plat[l] + x
    BY DelayNat, TransDelayNat
  <1>2. /\ c.time = t + (Plat[l] + x) /\ c.ticket = n /\ c.link = l /\ c.packet = p /\ ~c.trans
        /\ d.time = t + x /\ d.link = l /\ d.trans
        /\ c.time \in Nat /\ d.time \in Nat
    BY <1>1 DEF Entry
  <1>0. R = P \cup {c, d}
    BY DEF Started
  <1> HIDE DEF c, d, R
  <1>3. Busy(R, l) = {d} /\ Flying(R, l) = Flying(P, l) \cup {c}
    <2>1. Busy(R, l) = {d}
      BY <1>0, <1>2 DEF Busy
    <2>2. Flying(R, l) = Flying(P, l) \cup {c}
      BY <1>0, <1>2 DEF Flying
    <2> QED BY <2>1, <2>2
  <1>4. \A m \in Links \ {l} : Busy(R, m) = Busy(P, m) /\ Flying(R, m) = Flying(P, m)
    BY <1>0, <1>2 DEF Busy, Flying
  <1>5. \A e \in Flying(P, l) : e.time \in Nat /\ e.ticket \in 0..n-1 /\ e.time =< t + Plat[l]
    BY DEF Wire, Flying, EntriesOK, Entries
  <1> HIDE DEF x
  <1>6. c.time =< d.time + Plat[l]
    BY <1>1, <1>2
  <1>7. \A e \in Flying(P, l) : e.time + x =< c.time /\ ~(c.ticket < e.ticket)
    BY <1>1, <1>2, <1>5
  <1>8. ~(c.ticket < c.ticket)
    BY <1>2
  <1>9. \A e, f \in Flying(R, l) : e.ticket < f.ticket => e.time + link_trans_delay(l, f.packet) =< f.time
    <2> SUFFICES ASSUME NEW e \in Flying(R, l), NEW f \in Flying(R, l), e.ticket < f.ticket
                 PROVE  e.time + link_trans_delay(l, f.packet) =< f.time
      OBVIOUS
    <2>1. CASE e \in Flying(P, l) /\ f \in Flying(P, l)
      BY <2>1 DEF Wire
    <2>2. CASE e \in Flying(P, l) /\ f = c
      BY <1>2, <1>7, <2>2 DEF x
    <2>3. e # c
      BY <1>3, <1>7, <1>8
    <2> QED BY <1>3, <2>1, <2>2, <2>3
  <1>10. \A e \in Flying(R, l) : e.time =< t + Plat[l] \/ \E b \in Busy(R, l) : e.time =< b.time + Plat[l]
    BY <1>3, <1>5, <1>6
  <1>11. Wire(R, t, l)
    BY <1>3, <1>9, <1>10 DEF Wire
  <1> QED BY <1>3, <1>4, <1>11 DEF R

\* send_it() keeps every link and queue in order.
LEMMA SendItMoves ==
    ASSUME ticket \in Nat, QueuesOK(queue_map),
           NEW l \in Links, NEW q \in Queues(l), NEW now \in Nat, NEW rest,
           EntriesOK(rest, ticket, now), SendIt(l, q, now, rest),
           \A m \in Links : Wire(rest, now, m),
           \A m \in Links \ {l} : Moves(rest, queue_map, m),
           q.pending_send <=> Busy(rest, l) # {}
    PROVE  \A m \in Links : Wire(packet_map', now, m) /\ Moves(packet_map', queue_map', m)
  <1>1. CASE /\ q.pending_send \/ q.packet_queue = <<>>
             /\ queue_map' = [queue_map EXCEPT ![l] = q]
             /\ packet_map' = rest
    <2>1. queue_map'[l] = q /\ \A m \in Links \ {l} : queue_map'[m] = queue_map[m]
      BY <1>1 DEF QueuesOK
    <2> QED BY <1>1, <2>1 DEF Moves
  <1>2. CASE ~q.pending_send /\ q.packet_queue # <<>>
    <2> DEFINE p == Head(q.packet_queue)
               r == [packet_queue |-> Tail(q.packet_queue), pending_send |-> TRUE]
               c == Entry(now + link_delay(l, p), ticket, l, p, FALSE)
               d == Entry(now + link_trans_delay(l, p), ticket + 1, l, p, TRUE)
    <2>1. queue_map' = [queue_map EXCEPT ![l] = r] /\ packet_map' = rest \cup {c, d}
      BY <1>2 DEF SendIt
    <2>2. queue_map'[l] = r /\ \A m \in Links \ {l} : queue_map'[m] = queue_map[m]
      BY <2>1 DEF QueuesOK
    <2>3. p \in Packets
      BY <1>2, QueueHead DEF Queues
    <2>4. r.pending_send
      OBVIOUS
    <2>5. Busy(rest, l) = {}
      BY <1>2
    <2> HIDE DEF p, r
    <2>6. /\ Wire(packet_map', now, l) /\ Busy(packet_map', l) # {}
          /\ \A m \in Links \ {l} : /\ Busy(packet_map', m) = Busy(rest, m)
                                    /\ Flying(packet_map', m) = Flying(rest, m)
      <3>1. packet_map' = Started(rest, ticket, now, l, p)
        BY <2>1 DEF Started
      <3>2. Wire(rest, now, l)
        OBVIOUS
      <3>3. LET R == Started(rest, ticket, now, l, p)
            IN  /\ Wire(R, now, l) /\ Busy(R, l) # {}
                /\ \A m \in Links \ {l} : Busy(R, m) = Busy(rest, m) /\ Flying(R, m) = Flying(rest, m)
        BY <2>3, <2>5, <3>2, WireStart
      <3> QED BY <3>1, <3>3
    <2> HIDE DEF c, d
    <2>7. \A m \in Links \ {l} : Wire(packet_map', now, m)
      BY <2>6 DEF Wire
    <2> QED BY <2>2, <2>4, <2>6, <2>7 DEF Moves
  <1> QED BY <1>1, <1>2 DEF SendIt

---------------------------------------------------------------------------
(* The inductive invariant: what the maps hold is not yet due, and every   *)
(* link and queue is in order.                                             *)

CountsOK ==
    /\ virtual_clock \in Nat /\ ticket \in Nat /\ calls \in 0..MaxCalls
    /\ running \in Hosts \cup {Idle}
    /\ sent \in [Flows -> Nat] /\ arrived \in [Flows -> Seq(Nat)]

DropsOK(D) == \A d \in D : d.link \in Links /\ d.flow \in Flows

MapsOK == /\ TimersOK(timer_map, ticket, virtual_clock)
          /\ EntriesOK(packet_map, ticket, virtual_clock)
          /\ QueuesOK(queue_map)

LinksOK == \A l \in Links : Wire(packet_map, virtual_clock, l) /\ Moves(packet_map, queue_map, l)

IInv == CountsOK /\ DropsOK(dropped) /\ MapsOK /\ LinksOK

\* Before the first event the queues are empty and only flows have timers.
LEMMA InitInv == Init => IInv
  <1> SUFFICES ASSUME Init PROVE IInv
    OBVIOUS
  <1>1. PICK S \in SUBSET Starts : \E order \in [S -> 1..Cardinality(S)] :
              timer_map = {[time |-> s[2], ticket |-> order[s], node |-> s[1]] : s \in S}
    BY DEF Init
  <1>2. PICK order \in [S -> 1..Cardinality(S)] :
              timer_map = {[time |-> s[2], ticket |-> order[s], node |-> s[1]] : s \in S}
    BY <1>1
  <1>3. /\ Cardinality(S) \in Nat /\ Cardinality(Starts) \in Nat
        /\ Cardinality(S) =< Cardinality(Starts)
    BY SizesAssumption, FS_Subset, FS_CardinalityType
  <1>4. ticket \in Nat /\ ticket = Cardinality(Starts) + 1 /\ virtual_clock = 0
    BY <1>3 DEF Init
  <1>5. TimersOK(timer_map, ticket, virtual_clock)
    <2> SUFFICES ASSUME NEW s \in S
                 PROVE  LET u == [time |-> s[2], ticket |-> order[s], node |-> s[1]]
                        IN  u \in [time : Nat, ticket : 0..ticket-1, node : Hosts] /\ virtual_clock =< u.time
      BY <1>2 DEF TimersOK
    <2>1. s[2] \in Nat /\ s[1] \in Hosts
      BY SizesAssumption
    <2>2. order[s] \in 0..ticket-1
      BY <1>2, <1>3, <1>4
    <2> DEFINE u == [time |-> s[2], ticket |-> order[s], node |-> s[1]]
    <2>3. u \in [time : Nat, ticket : 0..ticket-1, node : Hosts]
      BY <2>1, <2>2
    <2>4. virtual_clock =< s[2]
      BY <1>4, <2>1
    <2> QED BY <2>3, <2>4
  <1>6. packet_map = {} /\ DOMAIN queue_map = Links
        /\ queue_map = [l \in Links |-> queue_map[l]]
        /\ \A l \in Links : queue_map[l] = [packet_queue |-> <<>>, pending_send |-> FALSE]
    BY DEF Init
  <1>7. QueuesOK(queue_map)
    <2> SUFFICES ASSUME NEW l \in Links PROVE queue_map[l] \in Queues(l)
      BY <1>6 DEF QueuesOK
    <2>1. <<>> \in Seq({p \in Packets : OnCourse(l, p)})
      OBVIOUS
    <2>2. [packet_queue |-> <<>>, pending_send |-> FALSE] \in Queues(l)
      BY <2>1 DEF Queues
    <2> QED BY <1>6, <2>2
  <1>8. EntriesOK(packet_map, ticket, virtual_clock)
    BY <1>6 DEF EntriesOK
  <1>9. LinksOK
    BY <1>6 DEF LinksOK, Wire, Moves, Busy, Flying
  <1>10. CountsOK
    <2>1. calls \in 0..MaxCalls
      BY SizesAssumption DEF Init
    <2>2. sent \in [Flows -> Nat] /\ arrived \in [Flows -> Seq(Nat)] /\ running \in Hosts \cup {Idle}
      BY DEF Init
    <2> QED BY <1>4, <2>1, <2>2 DEF CountsOK
  <1>11. DropsOK(dropped)
    BY DEF Init, DropsOK
  <1> QED BY <1>5, <1>7, <1>8, <1>9, <1>10, <1>11 DEF IInv, MapsOK

\* A mark changes nothing but the mark.
LEMMA MarkedLemma ==
    ASSUME NEW l \in Links, NEW p \in Packets
    PROVE  /\ Marked(l, p) \in Packets
           /\ Flow(Marked(l, p)) = Flow(p) /\ Marked(l, p).id = p.id
           /\ Marked(l, p).destination = p.destination
  BY DEF Marked, Packets, Flow

\* enq() and send_it() at a node that the packet passes.
LEMMA EnqueueLemma ==
    ASSUME IInv, NEW n \in Nodes, NEW p \in Packets, Flow(p) \in Flows, n # p.destination,
           NEW now \in Nat, virtual_clock =< now, NEW rest \in SUBSET packet_map,
           EntriesOK(rest, ticket, now), \A m \in Links : Busy(rest, m) = Busy(packet_map, m),
           Enqueue(n, p, now, rest)
    PROVE  /\ ticket' \in Nat /\ ticket =< ticket'
           /\ QueuesOK(queue_map') /\ EntriesOK(packet_map', ticket', now)
           /\ \A m \in Links : Wire(packet_map', now, m) /\ Moves(packet_map', queue_map', m)
           /\ DropsOK(dropped')
  <1> DEFINE l == <<n, NextHop[<<n, p.destination>>]>>
             q == queue_map[l]
             r == Marked(l, p)
  <1>1. l \in Links /\ (l[2] \in Hosts => l[2] = p.destination)
    <2>1. p.destination = Flow(p)[2]
      BY DEF Flow
    <2> QED BY <2>1, RoutesAssumption
  <1>2. ticket \in Nat /\ virtual_clock \in Nat /\ QueuesOK(queue_map) /\ EntriesOK(packet_map, ticket, virtual_clock)
    BY DEF IInv, CountsOK, MapsOK
  <1>3. \A m \in Links : Wire(rest, now, m) /\ Moves(rest, queue_map, m)
    <2> SUFFICES ASSUME NEW m \in Links PROVE Wire(rest, now, m) /\ Moves(rest, queue_map, m)
      OBVIOUS
    <2>1. Wire(packet_map, virtual_clock, m) /\ Moves(packet_map, queue_map, m)
      BY DEF IInv, LinksOK
    <2>2. Wire(rest, now, m)
      BY <1>2, <2>1, WireLater
    <2> QED BY <2>1, <2>2 DEF Moves
  <1>4. CASE /\ SendIt(l, [q EXCEPT !.packet_queue = Append(@, r)], now, rest)
             /\ dropped' = dropped
    <2> DEFINE s == [q EXCEPT !.packet_queue = Append(@, r)]
    <2>1. q \in Queues(l)
      BY <1>1, <1>2 DEF QueuesOK
    <2>2. r \in Packets /\ OnCourse(l, r)
      BY <1>1, MarkedLemma DEF OnCourse
    <2> HIDE DEF l, q, r
    <2>3. s \in Queues(l)
      BY <2>1, <2>2, QueueAppend
    <2>4. s.pending_send = q.pending_send
      BY <2>1 DEF Queues
    <2>5. q.pending_send <=> Busy(rest, l) # {}
      BY <1>1, <1>3 DEF Moves, q
    <2> HIDE DEF s
    <2>6. SendIt(l, s, now, rest) /\ (s.pending_send <=> Busy(rest, l) # {})
      BY <1>4, <2>4, <2>5 DEF s
    <2>7. /\ ticket' \in Nat /\ ticket =< ticket'
          /\ QueuesOK(queue_map') /\ EntriesOK(packet_map', ticket', now)
      BY <1>1, <1>2, <2>3, <2>6, SendItTypes
    <2>8. \A m \in Links : Wire(packet_map', now, m) /\ Moves(packet_map', queue_map', m)
      BY <1>1, <1>2, <1>3, <2>3, <2>6, SendItMoves
    <2>9. DropsOK(dropped')
      BY <1>4 DEF IInv
    <2> QED BY <2>7, <2>8, <2>9
  <1>5. CASE /\ dropped' = dropped \cup {[link |-> l, flow |-> Flow(p), id |-> p.id]}
             /\ packet_map' = rest /\ UNCHANGED <<queue_map, ticket>>
    <2>1. DropsOK(dropped')
      BY <1>1, <1>5 DEF IInv, DropsOK
    <2> HIDE DEF l, q, r
    <2> QED BY <1>2, <1>3, <1>5, <2>1
  <1> QED BY <1>4, <1>5 DEF Enqueue

\* The first entry of a multimap is due no later than any other.
LEMMA FirstLemma ==
    ASSUME NEW M, NEW e, First(M, e)
    PROVE  e \in M /\ \A f \in M : f.time \in Nat /\ e.time \in Nat => e.time =< f.time
  BY DEF First

\* After a packet event of the time t nothing is due before t.
LEMMA PacketDue ==
    ASSUME IInv, NEW e \in packet_map, NextPacket(e)
    PROVE  /\ e \in Entries(ticket) /\ OnCourse(e.link, e.packet)
           /\ virtual_clock =< e.time
           /\ TimersOK(timer_map, ticket, e.time) /\ EntriesOK(packet_map \ {e}, ticket, e.time)
  <1>1. e \in Entries(ticket) /\ OnCourse(e.link, e.packet) /\ virtual_clock =< e.time
    BY DEF IInv, MapsOK, EntriesOK
  <1>2. e.time \in Nat /\ \A f \in packet_map : f.time \in Nat
    BY <1>1 DEF IInv, MapsOK, EntriesOK, Entries
  <1>3. \A f \in packet_map : e.time =< f.time
    BY <1>2, FirstLemma DEF NextPacket
  <1>4. EntriesOK(packet_map \ {e}, ticket, e.time)
    BY <1>3 DEF IInv, MapsOK, EntriesOK
  <1>5. \A t \in timer_map : t.time \in Nat /\ e.time < t.time
    BY DEF IInv, MapsOK, TimersOK, NextPacket
  <1>6. TimersOK(timer_map, ticket, e.time)
    BY <1>2, <1>5 DEF IInv, MapsOK, TimersOK
  <1> QED BY <1>1, <1>4, <1>6

LEMMA TimersLater ==
    ASSUME NEW T, NEW n \in Nat, NEW m \in Nat, NEW t, TimersOK(T, n, t), n =< m
    PROVE  TimersOK(T, m, t)
  BY DEF TimersOK

LEMMA StepInv == IInv /\ [Next]_vars => IInv'
  <1> SUFFICES ASSUME IInv, [Next]_vars PROVE IInv'
    OBVIOUS
  <1> USE DEF IInv
  <1>0. /\ virtual_clock \in Nat /\ ticket \in Nat
        /\ QueuesOK(queue_map) /\ EntriesOK(packet_map, ticket, virtual_clock)
        /\ TimersOK(timer_map, ticket, virtual_clock)
    BY DEF CountsOK, MapsOK
  <1>1. CASE ProcessTimer
    <2>1. PICK t \in timer_map :
             /\ NextTimer(t)
             /\ virtual_clock' = t.time /\ timer_map' = timer_map \ {t} /\ running' = t.node
             /\ UNCHANGED <<packet_map, queue_map, ticket, calls, sent, arrived, dropped>>
      BY <1>1 DEF ProcessTimer
    <2>2. t.time \in Nat /\ t.node \in Hosts /\ virtual_clock =< t.time
      BY DEF MapsOK, TimersOK
    <2>3. \A u \in timer_map : t.time =< u.time
      <3>1. \A u \in timer_map : u.time \in Nat
        BY DEF MapsOK, TimersOK
      <3> QED BY <2>1, <2>2, <3>1, FirstLemma DEF NextTimer
    <2>4. TimersOK(timer_map', ticket', virtual_clock')
      BY <2>1, <2>3 DEF MapsOK, TimersOK
    <2>5. EntriesOK(packet_map', ticket', virtual_clock')
      BY <2>1 DEF NextTimer, MapsOK, EntriesOK
    <2>6. LinksOK'
      <3> SUFFICES ASSUME NEW m \in Links PROVE Wire(packet_map, t.time, m) /\ Moves(packet_map, queue_map, m)
        BY <2>1 DEF LinksOK
      <3> QED BY <1>0, <2>2, WireLater DEF LinksOK
    <2>7. CountsOK' /\ DropsOK(dropped') /\ QueuesOK(queue_map')
      BY <1>0, <2>1, <2>2 DEF CountsOK
    <2> QED BY <2>4, <2>5, <2>6, <2>7 DEF MapsOK
  <1>2. CASE Deliver
    <2>1. PICK e \in packet_map :
             /\ NextPacket(e) /\ ~e.trans /\ e.packet.destination = e.link[2]
             /\ virtual_clock' = e.time /\ packet_map' = packet_map \ {e} /\ running' = e.link[2]
             /\ arrived' = [arrived EXCEPT ![Flow(e.packet)] = Append(@, e.packet.id)]
             /\ UNCHANGED <<timer_map, queue_map, ticket, calls, sent, dropped>>
      BY <1>2 DEF Deliver
    <2>2. /\ e \in Entries(ticket) /\ OnCourse(e.link, e.packet)
          /\ virtual_clock =< e.time
          /\ TimersOK(timer_map, ticket, e.time) /\ EntriesOK(packet_map \ {e}, ticket, e.time)
      BY <2>1, PacketDue
    <2>3. e.time \in Nat /\ e.link[2] \in Hosts /\ e.packet.id \in Nat /\ Flow(e.packet) \in Flows
      BY <2>1, <2>2 DEF Entries, Packets, OnCourse
    <2>4. LinksOK'
      <3> SUFFICES ASSUME NEW m \in Links
                   PROVE  Wire(packet_map \ {e}, e.time, m) /\ Moves(packet_map \ {e}, queue_map, m)
        BY <2>1 DEF LinksOK
      <3>1. Busy(packet_map \ {e}, m) = Busy(packet_map, m)
        BY <2>1 DEF Busy
      <3>2. Wire(packet_map \ {e}, e.time, m)
        BY <1>0, <2>2, <2>3, <3>1, WireLater DEF LinksOK
      <3> QED BY <3>1, <3>2 DEF LinksOK, Moves
    <2>5. CountsOK'
      <3>1. arrived[Flow(e.packet)] \in Seq(Nat)
        BY <2>3 DEF CountsOK
      <3>2. Append(arrived[Flow(e.packet)], e.packet.id) \in Seq(Nat)
        BY <2>3, <3>1, AppendProperties
      <3>3. arrived' \in [Flows -> Seq(Nat)]
        BY <2>1, <2>3, <3>2 DEF CountsOK
      <3> QED BY <2>1, <2>3, <3>3 DEF CountsOK
    <2> QED BY <1>0, <2>1, <2>2, <2>4, <2>5 DEF MapsOK
  <1>3. CASE Forward
    <2>1. PICK e \in packet_map :
             /\ NextPacket(e) /\ ~e.trans /\ e.packet.destination # e.link[2]
             /\ virtual_clock' = e.time
             /\ Enqueue(e.link[2], e.packet, e.time, packet_map \ {e})
             /\ UNCHANGED <<timer_map, running, calls, sent, arrived>>
      BY <1>3 DEF Forward
    <2>2. /\ e \in Entries(ticket) /\ OnCourse(e.link, e.packet)
          /\ virtual_clock =< e.time
          /\ TimersOK(timer_map, ticket, e.time) /\ EntriesOK(packet_map \ {e}, ticket, e.time)
      BY <2>1, PacketDue
    <2>3. e.time \in Nat /\ e.link[2] \in Nodes /\ e.packet \in Packets /\ Flow(e.packet) \in Flows
      <3>1. e.link \in Links /\ e.time \in Nat /\ e.packet \in Packets
        BY <2>2 DEF Entries
      <3> QED BY <2>2, <3>1, LinksAssumption DEF OnCourse
    <2>4. \A m \in Links : Busy(packet_map \ {e}, m) = Busy(packet_map, m)
      BY <2>1 DEF Busy
    <2>5. /\ ticket' \in Nat /\ ticket =< ticket'
          /\ QueuesOK(queue_map') /\ EntriesOK(packet_map', ticket', e.time)
          /\ \A m \in Links : Wire(packet_map', e.time, m) /\ Moves(packet_map', queue_map', m)
          /\ DropsOK(dropped')
      BY <2>1, <2>2, <2>3, <2>4, EnqueueLemma
    <2>6. TimersOK(timer_map', ticket', virtual_clock')
      BY <1>0, <2>1, <2>2, <2>5, TimersLater
    <2>7. CountsOK'
      BY <2>1, <2>3, <2>5 DEF CountsOK
    <2> QED BY <2>1, <2>5, <2>6, <2>7 DEF MapsOK, LinksOK
  <1>4. CASE SendDone
    <2>1. PICK e \in packet_map :
             /\ NextPacket(e) /\ e.trans
             /\ virtual_clock' = e.time
             /\ SendIt(e.link, [queue_map[e.link] EXCEPT !.pending_send = FALSE], e.time, packet_map \ {e})
             /\ UNCHANGED <<timer_map, running, calls, sent, arrived, dropped>>
      BY <1>4 DEF SendDone
    <2> DEFINE l == e.link
               q == [queue_map[l] EXCEPT !.pending_send = FALSE]
               rest == packet_map \ {e}
    <2>2. /\ e \in Entries(ticket)
          /\ virtual_clock =< e.time
          /\ TimersOK(timer_map, ticket, e.time) /\ EntriesOK(rest, ticket, e.time)
      BY <2>1, PacketDue
    <2>3. e.time \in Nat /\ l \in Links
      BY <2>2 DEF Entries
    <2>4. q \in Queues(l) /\ ~q.pending_send
      BY <1>0, <2>3 DEF QueuesOK, Queues
    <2>5. e \in Busy(packet_map, l)
      BY <2>1 DEF Busy
    <2>6. Wire(rest, e.time, l) /\ Busy(rest, l) = {}
      BY <1>0, <2>3, <2>5, WireDone DEF LinksOK
    <2>7. \A m \in Links \ {l} : Wire(rest, e.time, m) /\ Moves(rest, queue_map, m)
      <3> SUFFICES ASSUME NEW m \in Links \ {l} PROVE Wire(rest, e.time, m) /\ Moves(rest, queue_map, m)
        OBVIOUS
      <3>1. Busy(rest, m) = Busy(packet_map, m)
        BY DEF Busy
      <3>2. Wire(rest, e.time, m)
        BY <1>0, <2>2, <2>3, <3>1, WireLater DEF LinksOK
      <3> QED BY <3>1, <3>2 DEF LinksOK, Moves
    <2>8. SendIt(l, q, e.time, rest)
      BY <2>1
    <2> HIDE DEF l, q, rest
    <2>9. /\ ticket' \in Nat /\ ticket =< ticket'
          /\ QueuesOK(queue_map') /\ EntriesOK(packet_map', ticket', e.time)
      BY <1>0, <2>2, <2>3, <2>4, <2>8, SendItTypes
    <2>10. \A m \in Links : Wire(packet_map', e.time, m) /\ Moves(packet_map', queue_map', m)
      <3>1. \A m \in Links : Wire(rest, e.time, m)
        BY <2>6, <2>7
      <3>2. q.pending_send <=> Busy(rest, l) # {}
        BY <2>4, <2>6
      <3> QED BY <1>0, <2>2, <2>3, <2>4, <2>7, <2>8, <3>1, <3>2, SendItMoves
    <2>11. TimersOK(timer_map', ticket', virtual_clock')
      BY <1>0, <2>1, <2>2, <2>9, TimersLater
    <2>12. CountsOK' /\ DropsOK(dropped')
      BY <2>1, <2>3, <2>9 DEF CountsOK
    <2> QED BY <2>1, <2>9, <2>10, <2>11, <2>12 DEF MapsOK, LinksOK
  <1>5. CASE HostSend
    <2>1. PICK f \in Flows, len \in Lengths :
             /\ f[1] = running
             /\ sent' = [sent EXCEPT ![f] = @ + 1]
             /\ Enqueue(running, [source |-> f[1], destination |-> f[2], id |-> sent[f] + 1,
                                  length |-> len, ECN |-> FALSE], virtual_clock, packet_map)
      BY <1>5 DEF HostSend
    <2> DEFINE p == [source |-> f[1], destination |-> f[2], id |-> sent[f] + 1, length |-> len, ECN |-> FALSE]
    <2>2. /\ running \in Hosts /\ calls < MaxCalls /\ calls' = calls + 1
          /\ UNCHANGED <<virtual_clock, running, arrived, timer_map>>
      BY <1>5 DEF HostSend, Call
    <2>3. f[1] \in Hosts /\ f[2] \in Hosts /\ f[1] # f[2] /\ f = <<f[1], f[2]>> /\ sent[f] \in Nat
      BY FlowsAssumption DEF CountsOK
    <2>4. p \in Packets /\ Flow(p) = f /\ running # p.destination /\ running \in Nodes
      BY <2>1, <2>2, <2>3 DEF Packets, Flow, Nodes
    <2>5. Enqueue(running, p, virtual_clock, packet_map)
      BY <2>1
    <2> HIDE DEF p
    <2>6. /\ ticket' \in Nat /\ ticket =< ticket'
          /\ QueuesOK(queue_map') /\ EntriesOK(packet_map', ticket', virtual_clock)
          /\ \A m \in Links : Wire(packet_map', virtual_clock, m) /\ Moves(packet_map', queue_map', m)
          /\ DropsOK(dropped')
      BY <1>0, <2>4, <2>5, EnqueueLemma
    <2>7. TimersOK(timer_map', ticket', virtual_clock')
      BY <1>0, <2>2, <2>6, TimersLater
    <2>8. CountsOK'
      <3>1. calls' \in 0..MaxCalls
        BY <2>2, SizesAssumption DEF CountsOK
      <3>2. sent' \in [Flows -> Nat]
        BY <2>1, <2>3 DEF CountsOK
      <3> QED BY <2>2, <2>6, <3>1, <3>2 DEF CountsOK
    <2> QED BY <2>2, <2>6, <2>7, <2>8 DEF MapsOK, LinksOK
  <1>6. CASE SetTimer
    <2>1. PICK d \in Delays :
             timer_map' = timer_map \cup {[time |-> virtual_clock + d, ticket |-> ticket, node |-> running]}
      BY <1>6 DEF SetTimer
    <2>2. /\ running \in Hosts /\ calls < MaxCalls /\ calls' = calls + 1 /\ ticket' = ticket + 1
          /\ UNCHANGED <<virtual_clock, running, arrived, packet_map, queue_map, sent, dropped>>
      BY <1>6 DEF SetTimer, Call
    <2>3. d \in Nat /\ ticket \in 0..(ticket + 1) - 1 /\ ticket + 1 \in Nat /\ ticket =< ticket + 1
      BY <1>0, SizesAssumption
    <2>4. TimersOK(timer_map, ticket + 1, virtual_clock) /\ EntriesOK(packet_map, ticket + 1, virtual_clock)
      BY <1>0, <2>3, TimersLater, EntriesLater
    <2>5. TimersOK(timer_map', ticket', virtual_clock')
      <3>1. /\ [time |-> virtual_clock + d, ticket |-> ticket, node |-> running]
                   \in [time : Nat, ticket : 0..(ticket + 1)-1, node : Hosts]
            /\ virtual_clock =< virtual_clock + d
        BY <1>0, <2>2, <2>3
      <3> QED BY <2>1, <2>2, <2>4, <3>1 DEF TimersOK
    <2>6. CountsOK'
      BY <2>2, <2>3, SizesAssumption DEF CountsOK
    <2> QED BY <1>0, <2>2, <2>4, <2>5, <2>6 DEF MapsOK, LinksOK
  <1>7. CASE CancelTimer
    <2>1. /\ running \in Hosts /\ calls < MaxCalls /\ calls' = calls + 1 /\ timer_map' \subseteq timer_map
          /\ UNCHANGED <<virtual_clock, running, arrived, packet_map, queue_map, ticket, sent, dropped>>
      BY <1>7 DEF CancelTimer, Call
    <2>2. TimersOK(timer_map', ticket', virtual_clock')
      BY <2>1 DEF MapsOK, TimersOK
    <2>3. CountsOK'
      BY <2>1, SizesAssumption DEF CountsOK
    <2> QED BY <1>0, <2>1, <2>2, <2>3 DEF MapsOK, LinksOK
  <1>8. CASE Return
    BY <1>0, <1>8 DEF Return, CountsOK, MapsOK, LinksOK
  <1>9. CASE UNCHANGED vars
    BY <1>0, <1>9 DEF vars, CountsOK, MapsOK, LinksOK
  <1> QED BY <1>1, <1>2, <1>3, <1>4, <1>5, <1>6, <1>7, <1>8, <1>9 DEF Next

LEMMA Inductive == Spec => []IInv
  <1> QED BY InitInv, StepInv, PTL DEF Spec

---------------------------------------------------------------------------
(* The properties.                                                         *)

\* Nothing is in the two maps, the queues or the counters that does not
\* belong there, on every topology and whatever the hosts send.
THEOREM TypeCorrect == Spec => []TypeOK
  <1>1. IInv => TypeOK
    <2> SUFFICES ASSUME IInv PROVE TypeOK
      OBVIOUS
    <2>1. /\ \A t \in timer_map : t \in [time : Nat, ticket : 0..ticket-1, node : Hosts]
          /\ \A e \in packet_map :
                e \in [time : Nat, ticket : 0..ticket-1, link : Links, packet : Packets, trans : BOOLEAN]
      BY DEF IInv, MapsOK, TimersOK, EntriesOK, Entries
    <2>2. \A l \in Links : /\ queue_map[l].packet_queue \in Seq(Packets)
                           /\ queue_map[l].pending_send \in BOOLEAN
      <3> SUFFICES ASSUME NEW l \in Links
                   PROVE  queue_map[l].packet_queue \in Seq(Packets) /\ queue_map[l].pending_send \in BOOLEAN
        OBVIOUS
      <3>1. queue_map[l] \in Queues(l)
        BY DEF IInv, MapsOK, QueuesOK
      <3>2. Seq({p \in Packets : OnCourse(l, p)}) \subseteq Seq(Packets)
        OBVIOUS
      <3> QED BY <3>1, <3>2 DEF Queues
    <2>3. \A f \in Flows : sent[f] \in Nat /\ arrived[f] \in Seq(Nat)
      BY DEF IInv, CountsOK
    <2> QED BY <2>1, <2>2, <2>3 DEF IInv, CountsOK, DropsOK, TypeOK
  <1> QED BY <1>1, Inductive, PTL

\* No output queue of any node stalls or sends two packets at once: a queue
\* with packets always has exactly one send_done event to come.
THEOREM QueuesNeverStall == Spec => []QueueMoves
  <1>1. IInv => QueueMoves
    <2> SUFFICES ASSUME IInv, NEW l \in Links
                 PROVE  /\ queue_map[l].pending_send <=> Completions(l) # {}
                        /\ Cardinality(Completions(l)) =< 1
                        /\ queue_map[l].packet_queue # <<>> => queue_map[l].pending_send
      BY DEF QueueMoves
    <2>1. Completions(l) = Busy(packet_map, l)
      BY DEF Completions, Busy
    <2>2. \A c, d \in Completions(l) : c = d
      BY <2>1 DEF IInv, LinksOK, Wire
    <2>3. Cardinality(Completions(l)) =< 1
      <3>1. CASE Completions(l) = {}
        BY <3>1, FS_EmptySet
      <3>2. CASE Completions(l) # {}
        <4>1. PICK c \in Completions(l) : TRUE
          BY <3>2
        <4>2. Completions(l) = {c}
          BY <2>2
        <4> QED BY <4>2, FS_Singleton
      <3> QED BY <3>1, <3>2
    <2> QED BY <2>1, <2>3 DEF IInv, LinksOK, Moves
  <1> QED BY <1>1, Inductive, PTL

\* Packets keep their order and their distance on every link.
THEOREM LinksKeepOrder == Spec => []OneAtATime
  <1>1. IInv => OneAtATime
    <2> SUFFICES ASSUME IInv, NEW l \in Links, NEW d \in Receptions(l), NEW e \in Receptions(l),
                        d.ticket < e.ticket
                 PROVE  d.time + link_trans_delay(l, e.packet) =< e.time
      BY DEF OneAtATime
    <2>1. Receptions(l) = Flying(packet_map, l)
      BY DEF Receptions, Flying
    <2> QED BY <2>1 DEF IInv, LinksOK, Wire
  <1> QED BY <1>1, Inductive, PTL

\* run() never lets the virtual clock go back.
THEOREM ClockAdvances == Spec => ClockNeverBack
  <1>1. IInv /\ [Next]_vars => [virtual_clock' >= virtual_clock]_vars
    <2> SUFFICES ASSUME IInv, Next PROVE virtual_clock' >= virtual_clock
      BY DEF vars
    <2>1. virtual_clock \in Nat
      BY DEF IInv, CountsOK
    <2>2. CASE ProcessTimer
      <3>1. PICK t \in timer_map : virtual_clock' = t.time
        BY <2>2 DEF ProcessTimer
      <3> QED BY <2>1, <3>1 DEF IInv, MapsOK, TimersOK
    <2>3. CASE Deliver \/ Forward \/ SendDone
      <3>1. PICK e \in packet_map : virtual_clock' = e.time
        BY <2>3 DEF Deliver, Forward, SendDone
      <3>2. e.time \in Nat /\ virtual_clock =< e.time
        BY DEF IInv, MapsOK, EntriesOK, Entries
      <3> QED BY <2>1, <3>1, <3>2
    <2>4. CASE HostSend \/ SetTimer \/ CancelTimer \/ Return
      BY <2>1, <2>4 DEF HostSend, SetTimer, CancelTimer, Return, Call
    <2> QED BY <2>2, <2>3, <2>4 DEF Next
  <1> QED BY <1>1, Inductive, PTL DEF Spec, ClockNeverBack

---------------------------------------------------------------------------
(* The mark that precedes a drop.                                          *)

\* A router's queue that is more than half full ends in a marked packet.
Warned(l, s) ==
    l[1] \in Routers /\ Len(s) > QueueSize[l[1]] \div 2 => s # <<>> /\ s[Len(s)].ECN

WarnInv == \A l \in Links : Warned(l, queue_map[l].packet_queue)

HalfNat(n) == QueueSize[n] \in Nat /\ QueueSize[n] # 0 /\ QueueSize[n] \div 2 \in Nat /\ QueueSize[n] \div 2 < QueueSize[n]

LEMMA Halves == \A n \in Nodes : HalfNat(n)
  <1> SUFFICES ASSUME NEW n \in Nodes PROVE HalfNat(n)
    OBVIOUS
  <1>1. \A k \in Nat \ {0} : k \div 2 \in Nat /\ k \div 2 < k
    OBVIOUS
  <1> QED BY <1>1, SizesAssumption DEF HalfNat

\* The head goes, and the last packet stays.
LEMMA WarnedTail ==
    ASSUME NEW l \in Links, NEW S, NEW s \in Seq(S), s # <<>>, Warned(l, s)
    PROVE  Warned(l, Tail(s))
  <1>1. /\ Tail(s) \in Seq(S) /\ Len(Tail(s)) = Len(s) - 1
        /\ \A k \in 1..Len(s)-1 : Tail(s)[k] = s[k+1]
    BY HeadTailProperties
  <1>2. Len(s) \in Nat /\ Len(s) > 0
    BY EmptySeq, LenProperties
  <1> SUFFICES ASSUME l[1] \in Routers, Len(Tail(s)) > QueueSize[l[1]] \div 2
               PROVE  Tail(s) # <<>> /\ Tail(s)[Len(Tail(s))].ECN
    BY DEF Warned
  <1>3. HalfNat(l[1])
    BY Halves DEF Nodes
  <1>4. Len(Tail(s)) > 0 /\ Len(s) > QueueSize[l[1]] \div 2
    BY <1>1, <1>2, <1>3 DEF HalfNat
  <1>5. Tail(s) # <<>>
    BY <1>4, EmptySeq
  <1>6. Tail(s)[Len(Tail(s))] = s[Len(s)]
    BY <1>1, <1>2, <1>4
  <1> QED BY <1>4, <1>5, <1>6 DEF Warned

\* enq() marks what makes the queue more than half full.
LEMMA WarnedAppend ==
    ASSUME QueuesOK(queue_map), NEW l \in Links, NEW p \in Packets
    PROVE  Warned(l, Append(queue_map[l].packet_queue, Marked(l, p)))
  <1> DEFINE q == queue_map[l].packet_queue
             s == Append(q, Marked(l, p))
  <1>0. q \in Seq(Packets)
    <2>1. queue_map[l] \in Queues(l)
      BY DEF QueuesOK
    <2>2. Seq({r \in Packets : OnCourse(l, r)}) \subseteq Seq(Packets)
      OBVIOUS
    <2> QED BY <2>1, <2>2 DEF Queues
  <1>1. /\ s \in Seq(Packets) /\ Len(s) = Len(q) + 1 /\ s[Len(q) + 1] = Marked(l, p)
    BY <1>0, MarkedLemma, AppendProperties
  <1>2. Len(q) \in Nat
    BY <1>0, LenProperties
  <1> SUFFICES ASSUME l[1] \in Routers, Len(s) > QueueSize[l[1]] \div 2
               PROVE  s # <<>> /\ s[Len(s)].ECN
    BY DEF Warned
  <1>3. HalfNat(l[1])
    BY Halves DEF Nodes
  <1>4. Len(q) >= QueueSize[l[1]] \div 2
    BY <1>1, <1>2, <1>3 DEF HalfNat
  <1>5. Marked(l, p).ECN
    BY <1>4 DEF Marked, Packets
  <1>6. s # <<>>
    BY <1>1, <1>2, EmptySeq
  <1> QED BY <1>1, <1>5, <1>6

LEMMA SendItWarned ==
    ASSUME QueuesOK(queue_map), WarnInv, NEW l \in Links, NEW q \in Queues(l), Warned(l, q.packet_queue),
           NEW now, NEW rest, SendIt(l, q, now, rest)
    PROVE  WarnInv'
  <1>1. CASE queue_map' = [queue_map EXCEPT ![l] = q]
    <2>1. queue_map'[l] = q /\ \A m \in Links \ {l} : queue_map'[m] = queue_map[m]
      BY <1>1 DEF QueuesOK
    <2> QED BY <2>1 DEF WarnInv
  <1>2. CASE q.packet_queue # <<>> /\ queue_map' =
                [queue_map EXCEPT ![l] = [packet_queue |-> Tail(q.packet_queue), pending_send |-> TRUE]]
    <2>1. /\ queue_map'[l].packet_queue = Tail(q.packet_queue)
          /\ \A m \in Links \ {l} : queue_map'[m] = queue_map[m]
      BY <1>2 DEF QueuesOK
    <2>2. q.packet_queue \in Seq({p \in Packets : OnCourse(l, p)})
      BY DEF Queues
    <2>3. Warned(l, Tail(q.packet_queue))
      BY <1>2, <2>2, WarnedTail
    <2> QED BY <2>1, <2>3 DEF WarnInv
  <1> QED BY <1>1, <1>2 DEF SendIt

\* enq() keeps the invariant, and what it drops has been preceded by a mark.
LEMMA EnqueueWarned ==
    ASSUME QueuesOK(queue_map), WarnInv, NEW n \in Nodes, NEW p \in Packets, Flow(p) \in Flows, n # p.destination,
           NEW now, NEW rest, Enqueue(n, p, now, rest)
    PROVE  /\ WarnInv'
           /\ \A d \in dropped' \ dropped :
                 d.link[1] \in Routers => 
                    \E k \in DOMAIN queue_map[d.link].packet_queue : queue_map[d.link].packet_queue[k].ECN
  <1> DEFINE l == <<n, NextHop[<<n, p.destination>>]>>
             q == queue_map[l]
             r == Marked(l, p)
  <1>1. l \in Links /\ l[1] = n
    <2>1. p.destination = Flow(p)[2]
      BY DEF Flow
    <2> QED BY <2>1, RoutesAssumption
  <1>2. q \in Queues(l)
    BY <1>1 DEF QueuesOK
  <1>3. CASE /\ SendIt(l, [q EXCEPT !.packet_queue = Append(@, r)], now, rest)
             /\ dropped' = dropped
    <2> DEFINE a == Append(q.packet_queue, r)
               s == [q EXCEPT !.packet_queue = a]
    <2>1. r \in Packets /\ OnCourse(l, r)
      <3>1. l[2] \in Hosts => l[2] = p.destination
        <4>1. p.destination = Flow(p)[2]
          BY DEF Flow
        <4> QED BY <4>1, RoutesAssumption
      <3> QED BY <1>1, <3>1, MarkedLemma DEF OnCourse
    <2>2. Warned(l, a)
      BY <1>1, WarnedAppend
    <2>3. SendIt(l, s, now, rest)
      BY <1>3
    <2> HIDE DEF l, r, q
    <2>4. s \in Queues(l)
      BY <1>2, <2>1, QueueAppend
    <2>5. s.packet_queue = a
      BY <1>2 DEF Queues
    <2> HIDE DEF s, a
    <2>6. WarnInv'
      BY <1>1, <2>2, <2>3, <2>4, <2>5, SendItWarned
    <2> QED BY <1>3, <2>6
  <1>4. CASE /\ Len(q.packet_queue) >= QueueSize[n]
             /\ dropped' = dropped \cup {[link |-> l, flow |-> Flow(p), id |-> p.id]}
             /\ UNCHANGED queue_map
    <2>1. WarnInv'
      BY <1>4 DEF WarnInv
    <2>2. \A d \in dropped' \ dropped : d.link = l
      BY <1>4
    <2> HIDE DEF l, r
    <2>3. q.packet_queue \in Seq({x \in Packets : OnCourse(l, x)})
      BY <1>2 DEF Queues
    <2>4. n \in Routers => \E k \in DOMAIN q.packet_queue : q.packet_queue[k].ECN
      <3> SUFFICES ASSUME n \in Routers PROVE \E k \in DOMAIN q.packet_queue : q.packet_queue[k].ECN
        OBVIOUS
      <3>1. HalfNat(n) /\ Len(q.packet_queue) \in Nat /\ DOMAIN q.packet_queue = 1..Len(q.packet_queue)
        BY <2>3, Halves, LenProperties
      <3>2. Len(q.packet_queue) > QueueSize[n] \div 2 /\ Len(q.packet_queue) \in DOMAIN q.packet_queue
        BY <1>4, <3>1 DEF HalfNat
      <3>3. q.packet_queue[Len(q.packet_queue)].ECN
        BY <1>1, <3>2 DEF WarnInv, Warned
      <3> QED BY <3>2, <3>3
    <2> QED BY <1>1, <2>1, <2>2, <2>4
  <1> QED BY <1>3, <1>4 DEF Enqueue

LEMMA StepWarned ==
    ASSUME IInv, WarnInv, [Next]_vars
    PROVE  /\ WarnInv'
           /\ \A d \in dropped' \ dropped :
                 d.link[1] \in Routers =>
                    \E k \in DOMAIN queue_map[d.link].packet_queue : queue_map[d.link].packet_queue[k].ECN
  <1>0. QueuesOK(queue_map) /\ EntriesOK(packet_map, ticket, virtual_clock) /\ sent \in [Flows -> Nat]
    BY DEF IInv, CountsOK, MapsOK
  <1>1. CASE Forward
    <2>1. PICK e \in packet_map : e.packet.destination # e.link[2]
                                  /\ Enqueue(e.link[2], e.packet, e.time, packet_map \ {e})
      BY <1>1 DEF Forward
    <2>2. e.link \in Links /\ e.packet \in Packets /\ Flow(e.packet) \in Flows
      BY <1>0 DEF EntriesOK, Entries, OnCourse
    <2>3. e.link[2] \in Nodes
      BY <2>2, LinksAssumption
    <2> DEFINE rest == packet_map \ {e}
    <2> HIDE DEF rest
    <2>4. Enqueue(e.link[2], e.packet, e.time, rest)
      BY <2>1 DEF rest
    <2> QED BY <1>0, <2>1, <2>2, <2>3, <2>4, EnqueueWarned
  <1>2. CASE SendDone
    <2>1. PICK e \in packet_map :
             /\ SendIt(e.link, [queue_map[e.link] EXCEPT !.pending_send = FALSE], e.time, packet_map \ {e})
             /\ dropped' = dropped
      BY <1>2 DEF SendDone
    <2> DEFINE l == e.link
               q == [queue_map[l] EXCEPT !.pending_send = FALSE]
               rest == packet_map \ {e}
    <2>2. l \in Links
      BY <1>0 DEF EntriesOK, Entries
    <2>3. q \in Queues(l) /\ q.packet_queue = queue_map[l].packet_queue
      BY <1>0, <2>2 DEF QueuesOK, Queues
    <2>4. SendIt(l, q, e.time, rest)
      BY <2>1
    <2> HIDE DEF l, q, rest
    <2>5. Warned(l, q.packet_queue)
      BY <2>2, <2>3 DEF WarnInv
    <2>6. WarnInv'
      BY <1>0, <2>2, <2>3, <2>4, <2>5, SendItWarned
    <2> QED BY <2>1, <2>6
  <1>3. CASE HostSend
    <2>1. PICK f \in Flows, len \in Lengths :
             /\ f[1] = running
             /\ Enqueue(running, [source |-> f[1], destination |-> f[2], id |-> sent[f] + 1,
                                  length |-> len, ECN |-> FALSE], virtual_clock, packet_map)
      BY <1>3 DEF HostSend
    <2> DEFINE p == [source |-> f[1], destination |-> f[2], id |-> sent[f] + 1, length |-> len, ECN |-> FALSE]
    <2>2. f[1] \in Hosts /\ f[2] \in Hosts /\ f[1] # f[2] /\ f = <<f[1], f[2]>> /\ sent[f] \in Nat
      BY <1>0, FlowsAssumption
    <2>3. p \in Packets /\ Flow(p) = f /\ running # p.destination /\ running \in Nodes
      BY <2>1, <2>2, SizesAssumption DEF Packets, Flow, Nodes
    <2>4. Enqueue(running, p, virtual_clock, packet_map)
      BY <2>1
    <2> HIDE DEF p
    <2> QED BY <1>0, <2>3, <2>4, EnqueueWarned
  <1>4. CASE UNCHANGED <<queue_map, dropped>>
    BY <1>4 DEF WarnInv
  <1>5. CASE ProcessTimer \/ Deliver \/ SetTimer \/ CancelTimer \/ Return \/ UNCHANGED vars
    BY <1>4, <1>5 DEF ProcessTimer, Deliver, SetTimer, CancelTimer, Return, Call, vars
  <1> QED BY <1>1, <1>2, <1>3, <1>5 DEF Next

\* Whatever the topology and the size of its queues: no router drops a packet
\* from a queue that has not told a receiver of the congestion.
THEOREM MarksPrecedeDrops == Spec => WarnedBeforeDrop
  <1>1. Init => WarnInv
    <2> SUFFICES ASSUME Init, NEW l \in Links PROVE Warned(l, queue_map[l].packet_queue)
      BY DEF WarnInv
    <2>1. queue_map[l].packet_queue = <<>>
      BY DEF Init
    <2>2. l[1] \in Routers => HalfNat(l[1])
      BY Halves DEF Nodes
    <2> QED BY <2>1, <2>2 DEF Warned, HalfNat
  <1>2. IInv /\ WarnInv /\ [Next]_vars => WarnInv'
    BY StepWarned
  <1>3. IInv /\ WarnInv /\ [Next]_vars =>
           [\A d \in dropped' \ dropped :
               d.link[1] \in Routers =>
                 \E k \in DOMAIN queue_map[d.link].packet_queue : queue_map[d.link].packet_queue[k].ECN]_vars
    BY StepWarned
  <1> QED BY <1>1, <1>2, <1>3, Inductive, PTL DEF Spec, WarnedBeforeDrop

---------------------------------------------------------------------------
(* The packets on their way, by name.                                      *)

Name(p) == <<Flow(p), p.id>>

\* The packets in a queue of Q.
Waits(Q, l, k) == l \in Links /\ k \in DOMAIN Q[l].packet_queue

At(Q, l, k) == Q[l].packet_queue[k]

\* e is a reception to come.
Rides(P, e) == e \in P /\ ~e.trans

Named(P, Q, x) == \/ \E e : Rides(P, e) /\ x = Name(e.packet)
                  \/ \E l, k : Waits(Q, l, k) /\ x = Name(At(Q, l, k))

\* A packet is in one place only.
Unique(P, Q) ==
    /\ \A d, e : Rides(P, d) /\ Rides(P, e) /\ Name(d.packet) = Name(e.packet) => d = e
    /\ \A l, m, j, k : Waits(Q, l, j) /\ Waits(Q, m, k) /\ Name(At(Q, l, j)) = Name(At(Q, m, k))
                          => l = m /\ j = k
    /\ \A e, l, k : Rides(P, e) /\ Waits(Q, l, k) => Name(e.packet) # Name(At(Q, l, k))

\* A reception is taken out.
LEMMA TakeOut ==
    ASSUME NEW P, NEW Q, NEW e, Rides(P, e), Unique(P, Q)
    PROVE  /\ Unique(P \ {e}, Q)
           /\ \A x : Named(P \ {e}, Q, x) <=> Named(P, Q, x) /\ x # Name(e.packet)
  <1>1. \A d : Rides(P \ {e}, d) <=> Rides(P, d) /\ d # e
    BY DEF Rides
  <1> QED BY <1>1 DEF Unique, Named

\* A completion does not count.
LEMMA TakeCompletion ==
    ASSUME NEW P, NEW Q, NEW e, e.trans
    PROVE  /\ Unique(P, Q) => Unique(P \ {e}, Q)
           /\ \A x : Named(P \ {e}, Q, x) <=> Named(P, Q, x)
  <1>1. \A d : Rides(P \ {e}, d) <=> Rides(P, d)
    BY DEF Rides
  <1> QED BY <1>1 DEF Unique, Named

\* A queue gets another flag.
LEMMA SameQueue ==
    ASSUME NEW P, NEW Q, NEW R, \A l \in Links : R[l].packet_queue = Q[l].packet_queue
    PROVE  /\ Unique(P, Q) => Unique(P, R)
           /\ \A x : Named(P, R, x) <=> Named(P, Q, x)
  <1>1. \A l, k : Waits(R, l, k) <=> Waits(Q, l, k)
    BY DEF Waits
  <1>2. \A l, k : Waits(R, l, k) => At(R, l, k) = At(Q, l, k)
    BY DEF Waits, At
  <1> QED BY <1>1, <1>2 DEF Unique, Named

\* R is Q with packet p at the end of the queue of l, in position n.
Lengthened(Q, R, l, n, p) ==
    /\ \A m, k : Waits(R, m, k) <=> Waits(Q, m, k) \/ (m = l /\ k = n)
    /\ \A m, k : Waits(Q, m, k) => At(R, m, k) = At(Q, m, k)
    /\ \A k : Waits(Q, l, k) => k \in Nat /\ k < n
    /\ At(R, l, n) = p

LEMMA Appended ==
    ASSUME NEW Q, NEW R, NEW l \in Links, NEW p, NEW S, Q[l].packet_queue \in Seq(S), p \in S,
           R[l].packet_queue = Append(Q[l].packet_queue, p),
           \A m \in Links \ {l} : R[m].packet_queue = Q[m].packet_queue
    PROVE  \E n \in Nat : Lengthened(Q, R, l, n, p)
  <1> DEFINE n == Len(Q[l].packet_queue) + 1
  <1>1. /\ DOMAIN R[l].packet_queue = DOMAIN Q[l].packet_queue \cup {n} /\ n \in Nat
        /\ R[l].packet_queue[n] = p
        /\ \A k \in DOMAIN Q[l].packet_queue :
              k \in Nat /\ k < n /\ R[l].packet_queue[k] = Q[l].packet_queue[k]
    <2>1. /\ Append(Q[l].packet_queue, p) \in Seq(S)
          /\ Len(Append(Q[l].packet_queue, p)) = n
          /\ \A k \in 1..Len(Q[l].packet_queue) : Append(Q[l].packet_queue, p)[k] = Q[l].packet_queue[k]
          /\ Append(Q[l].packet_queue, p)[n] = p
      BY AppendProperties
    <2>2. DOMAIN Q[l].packet_queue = 1..Len(Q[l].packet_queue) /\ Len(Q[l].packet_queue) \in Nat
      BY LenProperties
    <2>3. DOMAIN R[l].packet_queue = 1..n
      BY <2>1, LenProperties
    <2> QED BY <2>1, <2>2, <2>3
  <1> HIDE DEF n
  <1>2. \A m, k : Waits(R, m, k) <=> Waits(Q, m, k) \/ (m = l /\ k = n)
    BY <1>1 DEF Waits
  <1>3. /\ At(R, l, n) = p
        /\ \A m, k : Waits(Q, m, k) => At(R, m, k) = At(Q, m, k)
        /\ \A k : Waits(Q, l, k) => k \in Nat /\ k < n
    BY <1>1 DEF Waits, At
  <1> QED BY <1>1, <1>2, <1>3 DEF Lengthened

\* A packet that is nowhere enters a queue.
LEMMA Enter ==
    ASSUME NEW P, NEW Q, NEW R, NEW l \in Links, NEW p, NEW S, Q[l].packet_queue \in Seq(S), p \in S,
           R[l].packet_queue = Append(Q[l].packet_queue, p),
           \A m \in Links \ {l} : R[m].packet_queue = Q[m].packet_queue,
           Unique(P, Q), ~Named(P, Q, Name(p))
    PROVE  /\ Unique(P, R)
           /\ \A x : Named(P, R, x) <=> Named(P, Q, x) \/ x = Name(p)
  <1>1. PICK n \in Nat : Lengthened(Q, R, l, n, p)
    BY Appended
  <1>2. \A m, k : Waits(R, m, k) <=> Waits(Q, m, k) \/ (m = l /\ k = n)
    BY <1>1 DEF Lengthened
  <1>3. At(R, l, n) = p /\ \A m, k : Waits(Q, m, k) => At(R, m, k) = At(Q, m, k)
    BY <1>1 DEF Lengthened
  <1>4. /\ \A e : Rides(P, e) => Name(e.packet) # Name(p)
        /\ \A m, k : Waits(Q, m, k) => Name(At(Q, m, k)) # Name(p)
    BY DEF Named
  <1>5. Unique(P, R)
    BY <1>2, <1>3, <1>4 DEF Unique
  <1> QED BY <1>2, <1>3, <1>5 DEF Named

\* R is Q without the head of the queue of l.
Beheaded(Q, R, l) ==
    /\ Waits(Q, l, 1) /\ At(Q, l, 1) = Head(Q[l].packet_queue)
    /\ \A k : Waits(R, l, k) => k \in Nat /\ k # 0 /\ Waits(Q, l, k+1) /\ At(R, l, k) = At(Q, l, k+1)
    /\ \A k : Waits(Q, l, k) => k = 1 \/ (k \in Nat /\ Waits(R, l, k-1) /\ At(R, l, k-1) = At(Q, l, k))
    /\ \A m, k : m # l => (Waits(R, m, k) <=> Waits(Q, m, k)) /\ (Waits(R, m, k) => At(R, m, k) = At(Q, m, k))

LEMMA Shifted ==
    ASSUME NEW Q, NEW R, NEW l \in Links, NEW S, Q[l].packet_queue \in Seq(S), Q[l].packet_queue # <<>>,
           R[l].packet_queue = Tail(Q[l].packet_queue),
           \A m \in Links \ {l} : R[m].packet_queue = Q[m].packet_queue
    PROVE  Beheaded(Q, R, l)
  <1> DEFINE q == Q[l].packet_queue
  <1>1. /\ DOMAIN q = 1..Len(q) /\ Len(q) \in Nat /\ Len(q) > 0 /\ q[1] = Head(q)
        /\ DOMAIN R[l].packet_queue = 1..Len(q)-1
        /\ \A k \in 1..Len(q)-1 : R[l].packet_queue[k] = q[k+1]
    <2>1. /\ Head(q) = q[1] /\ Tail(q) \in Seq(S) /\ Len(Tail(q)) = Len(q) - 1
          /\ \A k \in 1..Len(q)-1 : Tail(q)[k] = q[k+1]
      BY HeadTailProperties
    <2>2. DOMAIN q = 1..Len(q) /\ Len(q) \in Nat /\ Len(q) > 0
      BY LenProperties, EmptySeq
    <2>3. DOMAIN Tail(q) = 1..Len(q)-1
      BY <2>1, LenProperties
    <2> QED BY <2>1, <2>2, <2>3
  <1>2. Waits(Q, l, 1) /\ At(Q, l, 1) = Head(q)
    BY <1>1 DEF Waits, At
  <1>3. \A k : Waits(R, l, k) => k \in Nat /\ k # 0 /\ Waits(Q, l, k+1) /\ At(R, l, k) = At(Q, l, k+1)
    BY <1>1 DEF Waits, At
  <1>4. \A k : Waits(Q, l, k) => k = 1 \/ (k \in Nat /\ Waits(R, l, k-1) /\ At(R, l, k-1) = At(Q, l, k))
    BY <1>1 DEF Waits, At
  <1>5. \A m, k : m # l => (Waits(R, m, k) <=> Waits(Q, m, k)) /\ (Waits(R, m, k) => At(R, m, k) = At(Q, m, k))
    BY DEF Waits, At
  <1> QED BY <1>2, <1>3, <1>4, <1>5 DEF Beheaded

\* The head of a queue starts to travel.
LEMMA Depart ==
    ASSUME NEW P, NEW Q, NEW R, NEW l \in Links, NEW S, Q[l].packet_queue \in Seq(S), Q[l].packet_queue # <<>>,
           R[l].packet_queue = Tail(Q[l].packet_queue),
           \A m \in Links \ {l} : R[m].packet_queue = Q[m].packet_queue,
           NEW c, NEW d, ~c.trans, d.trans, c.packet = Head(Q[l].packet_queue),
           Unique(P, Q)
    PROVE  /\ Unique(P \cup {c, d}, R)
           /\ \A x : Named(P \cup {c, d}, R, x) <=> Named(P, Q, x)
  <1>1. Beheaded(Q, R, l)
    BY Shifted
  <1>2. Waits(Q, l, 1) /\ At(Q, l, 1) = c.packet
    BY <1>1 DEF Beheaded
  <1>3. \A k : Waits(R, l, k) => k \in Nat /\ k # 0 /\ Waits(Q, l, k+1) /\ At(R, l, k) = At(Q, l, k+1)
    BY <1>1 DEF Beheaded
  <1>4. \A k : Waits(Q, l, k) => k = 1 \/ (k \in Nat /\ Waits(R, l, k-1) /\ At(R, l, k-1) = At(Q, l, k))
    BY <1>1 DEF Beheaded
  <1>5. \A m, k : m # l => (Waits(R, m, k) <=> Waits(Q, m, k)) /\ (Waits(R, m, k) => At(R, m, k) = At(Q, m, k))
    BY <1>1 DEF Beheaded
  <1>6. \A e : Rides(P \cup {c, d}, e) <=> Rides(P, e) \/ e = c
    BY DEF Rides
  <1>7. ASSUME NEW x, Named(P \cup {c, d}, R, x)
        PROVE  Named(P, Q, x)
    <2>1. CASE \E e : Rides(P \cup {c, d}, e) /\ x = Name(e.packet)
      BY <1>2, <1>6, <2>1 DEF Named
    <2>2. ASSUME NEW m, NEW k, Waits(R, m, k), x = Name(At(R, m, k))
          PROVE  Named(P, Q, x)
      <3>1. CASE m = l
        <4>1. Waits(Q, l, k+1) /\ At(R, l, k) = At(Q, l, k+1)
          BY <1>3, <2>2, <3>1
        <4> QED BY <2>2, <3>1, <4>1 DEF Named
      <3>2. CASE m # l
        BY <1>5, <2>2, <3>2 DEF Named
      <3> QED BY <3>1, <3>2
    <2> QED BY <1>7, <2>1, <2>2 DEF Named
  <1>8. ASSUME NEW x, Named(P, Q, x)
        PROVE  Named(P \cup {c, d}, R, x)
    <2>1. ASSUME NEW e, Rides(P, e), x = Name(e.packet)
          PROVE  Named(P \cup {c, d}, R, x)
      BY <1>6, <2>1 DEF Named
    <2>2. ASSUME NEW m, NEW k, Waits(Q, m, k), x = Name(At(Q, m, k))
          PROVE  Named(P \cup {c, d}, R, x)
      <3>1. CASE m = l /\ k = 1
        BY <1>2, <1>6, <2>2, <3>1 DEF Named
      <3>2. CASE m = l /\ k # 1
        <4>1. Waits(R, l, k-1) /\ At(R, l, k-1) = At(Q, l, k)
          BY <1>4, <2>2, <3>2
        <4> QED BY <2>2, <3>2, <4>1 DEF Named
      <3>3. CASE m # l
        BY <1>5, <2>2, <3>3 DEF Named
      <3> QED BY <3>1, <3>2, <3>3
    <2> QED BY <1>8, <2>1, <2>2 DEF Named
  <1>9. \A m, k : Waits(R, m, k) => Name(At(R, m, k)) # Name(c.packet)
    <2> SUFFICES ASSUME NEW m, NEW k, Waits(R, m, k) PROVE Name(At(R, m, k)) # Name(c.packet)
      OBVIOUS
    <2>1. CASE m = l
      <3>1. Waits(Q, l, k+1) /\ At(R, m, k) = At(Q, l, k+1) /\ k+1 # 1
        BY <1>3, <2>1
      <3> QED BY <1>2, <3>1 DEF Unique
    <2>2. CASE m # l
      BY <1>2, <1>5, <2>2 DEF Unique
    <2> QED BY <2>1, <2>2
  <1>10. \A m, n, j, k : Waits(R, m, j) /\ Waits(R, n, k) /\ Name(At(R, m, j)) = Name(At(R, n, k)) => m = n /\ j = k
    <2> SUFFICES ASSUME NEW m, NEW n, NEW j, NEW k, Waits(R, m, j), Waits(R, n, k),
                        Name(At(R, m, j)) = Name(At(R, n, k))
                 PROVE  m = n /\ j = k
      OBVIOUS
    <2>1. CASE m = l /\ n = l
      <3>1. Waits(Q, l, j+1) /\ Waits(Q, l, k+1) /\ Name(At(Q, l, j+1)) = Name(At(Q, l, k+1)) /\ j \in Nat /\ k \in Nat
        BY <1>3, <2>1
      <3>2. j + 1 = k + 1
        BY <3>1 DEF Unique
      <3> QED BY <2>1, <3>1, <3>2
    <2>2. CASE m = l /\ n # l
      BY <1>3, <1>5, <2>2 DEF Unique
    <2>3. CASE m # l /\ n = l
      BY <1>3, <1>5, <2>3 DEF Unique
    <2>4. CASE m # l /\ n # l
      BY <1>5, <2>4 DEF Unique
    <2> QED BY <2>1, <2>2, <2>3, <2>4
  <1>11. \A e : Rides(P, e) => Name(e.packet) # Name(c.packet)
    BY <1>2 DEF Unique
  <1>12. \A e, m, k : Rides(P, e) /\ Waits(R, m, k) => Name(e.packet) # Name(At(R, m, k))
    BY <1>3, <1>5 DEF Unique
  <1>13. \A e, f : Rides(P, e) /\ Rides(P, f) /\ Name(e.packet) = Name(f.packet) => e = f
    BY DEF Unique
  <1>14. Unique(P \cup {c, d}, R)
    BY <1>6, <1>9, <1>10, <1>11, <1>12, <1>13 DEF Unique
  <1> QED BY <1>7, <1>8, <1>14

\* send_it() loses no packet and makes none.
LEMMA SendItNames ==
    ASSUME QueuesOK(queue_map), NEW l \in Links, NEW q \in Queues(l), NEW now, NEW rest,
           SendIt(l, q, now, rest), NEW Q, Q = [queue_map EXCEPT ![l] = q], Unique(rest, Q)
    PROVE  /\ Unique(packet_map', queue_map')
           /\ \A x : Named(packet_map', queue_map', x) <=> Named(rest, Q, x)
  <1>1. Q[l] = q /\ \A m \in Links \ {l} : Q[m] = queue_map[m]
    BY DEF QueuesOK
  <1>2. CASE queue_map' = [queue_map EXCEPT ![l] = q] /\ packet_map' = rest
    BY <1>2
  <1>3. CASE ~q.pending_send /\ q.packet_queue # <<>>
    <2> DEFINE p == Head(q.packet_queue)
               r == [packet_queue |-> Tail(q.packet_queue), pending_send |-> TRUE]
               c == Entry(now + link_delay(l, p), ticket, l, p, FALSE)
               d == Entry(now + link_trans_delay(l, p), ticket + 1, l, p, TRUE)
    <2>1. queue_map' = [queue_map EXCEPT ![l] = r] /\ packet_map' = rest \cup {c, d}
      BY <1>3 DEF SendIt
    <2>2. queue_map'[l] = r /\ \A m \in Links \ {l} : queue_map'[m] = queue_map[m]
      BY <2>1 DEF QueuesOK
    <2>3. ~c.trans /\ d.trans /\ c.packet = Head(Q[l].packet_queue)
      BY <1>1 DEF Entry
    <2>4. /\ Q[l].packet_queue \in Seq({x \in Packets : OnCourse(l, x)}) /\ Q[l].packet_queue # <<>>
          /\ queue_map'[l].packet_queue = Tail(Q[l].packet_queue)
          /\ \A m \in Links \ {l} : queue_map'[m].packet_queue = Q[m].packet_queue
      BY <1>1, <1>3, <2>2 DEF Queues
    <2> HIDE DEF c, d, r, p
    <2>5. /\ Unique(rest \cup {c, d}, queue_map')
          /\ \A x : Named(rest \cup {c, d}, queue_map', x) <=> Named(rest, Q, x)
      BY <2>3, <2>4, Depart
    <2> QED BY <2>1, <2>5
  <1> QED BY <1>2, <1>3 DEF SendIt

---------------------------------------------------------------------------
(* The other places where a packet can be, by name.                        *)

Handed(s, x) == \E f \in Flows, i \in Nat : i \in 1..s[f] /\ x = <<f, i>>

There(a, x) == \E f \in Flows : \E k \in DOMAIN a[f] : x = <<f, a[f][k]>>

Lost(D, x) == \E d \in D : x = <<d.flow, d.id>>

\* Every packet is in one place, and only what was handed to send() is anywhere.
Places(P, Q, a, D, s) ==
    /\ Unique(P, Q)
    /\ \A x : Handed(s, x) <=> Named(P, Q, x) \/ There(a, x) \/ Lost(D, x)
    /\ \A x : ~(Named(P, Q, x) /\ There(a, x)) /\ ~(Named(P, Q, x) /\ Lost(D, x)) /\ ~(There(a, x) /\ Lost(D, x))

AccountInv == Places(packet_map, queue_map, arrived, dropped, sent)

\* A mark does not change a name.
LEMMA MarkedName ==
    ASSUME NEW l \in Links, NEW p \in Packets
    PROVE  Name(Marked(l, p)) = Name(p)
  BY MarkedLemma DEF Name

\* enq() puts the packet into the queue or drops it.
LEMMA EnqueueNames ==
    ASSUME QueuesOK(queue_map), NEW n \in Nodes, NEW p \in Packets, Flow(p) \in Flows, n # p.destination,
           NEW now, NEW rest, Unique(rest, queue_map), ~Named(rest, queue_map, Name(p)),
           Enqueue(n, p, now, rest)
    PROVE  /\ Unique(packet_map', queue_map')
           /\ \/ /\ \A x : Named(packet_map', queue_map', x) <=> Named(rest, queue_map, x) \/ x = Name(p)
                 /\ \A x : Lost(dropped', x) <=> Lost(dropped, x)
              \/ /\ \A x : Named(packet_map', queue_map', x) <=> Named(rest, queue_map, x)
                 /\ \A x : Lost(dropped', x) <=> Lost(dropped, x) \/ x = Name(p)
  <1> DEFINE l == <<n, NextHop[<<n, p.destination>>]>>
             q == queue_map[l]
             r == Marked(l, p)
  <1>1. l \in Links /\ (l[2] \in Hosts => l[2] = p.destination)
    <2>1. p.destination = Flow(p)[2]
      BY DEF Flow
    <2> QED BY <2>1, RoutesAssumption
  <1>2. CASE /\ SendIt(l, [q EXCEPT !.packet_queue = Append(@, r)], now, rest)
             /\ dropped' = dropped
    <2> DEFINE s == [q EXCEPT !.packet_queue = Append(@, r)]
               Q == [queue_map EXCEPT ![l] = s]
    <2>1. q \in Queues(l)
      BY <1>1 DEF QueuesOK
    <2>2. r \in Packets /\ OnCourse(l, r) /\ Name(r) = Name(p)
      BY <1>1, MarkedLemma, MarkedName DEF OnCourse
    <2>3. SendIt(l, s, now, rest)
      BY <1>2
    <2> HIDE DEF l, r
    <2>4. s \in Queues(l)
      BY <2>1, <2>2, QueueAppend
    <2>5. s.packet_queue = Append(queue_map[l].packet_queue, r)
      <3> DEFINE a == Append(q.packet_queue, r)
      <3>1. [q EXCEPT !.packet_queue = a].packet_queue = a
        BY <2>1 DEF Queues
      <3> QED BY <3>1
    <2>6. queue_map[l].packet_queue \in Seq({x \in Packets : OnCourse(l, x)})
      BY <2>1 DEF Queues
    <2> HIDE DEF s, q
    <2>7. Q[l].packet_queue = Append(queue_map[l].packet_queue, r)
          /\ \A m \in Links \ {l} : Q[m].packet_queue = queue_map[m].packet_queue
      BY <1>1, <2>5 DEF QueuesOK
    <2> HIDE DEF Q
    <2>8. r \in {x \in Packets : OnCourse(l, x)} /\ ~Named(rest, queue_map, Name(r))
      BY <2>2
    <2>9. /\ Unique(rest, Q)
          /\ \A x : Named(rest, Q, x) <=> Named(rest, queue_map, x) \/ x = Name(r)
      BY <1>1, <2>6, <2>7, <2>8, Enter
    <2>10. /\ Unique(packet_map', queue_map')
           /\ \A x : Named(packet_map', queue_map', x) <=> Named(rest, Q, x)
      BY <1>1, <2>3, <2>4, <2>9, SendItNames DEF Q
    <2> QED BY <1>2, <2>2, <2>9, <2>10
  <1>3. CASE /\ dropped' = dropped \cup {[link |-> l, flow |-> Flow(p), id |-> p.id]}
             /\ packet_map' = rest /\ UNCHANGED <<queue_map, ticket>>
    <2> DEFINE d == [link |-> l, flow |-> Flow(p), id |-> p.id]
    <2>0. <<d.flow, d.id>> = Name(p) /\ dropped' = dropped \cup {d}
      BY <1>3 DEF Name
    <2> HIDE DEF d
    <2>1. \A x : Lost(dropped', x) <=> Lost(dropped, x) \/ x = Name(p)
      BY <2>0 DEF Lost
    <2> HIDE DEF l, q, r
    <2> QED BY <1>3, <2>1
  <1> QED BY <1>2, <1>3 DEF Enqueue

---------------------------------------------------------------------------
(* The invariant.                                                          *)

\* Nothing has been sent.
LEMMA InitAccount == Init => AccountInv
  <1> SUFFICES ASSUME Init PROVE AccountInv
    OBVIOUS
  <1>1. /\ packet_map = {} /\ dropped = {}
        /\ \A l \in Links : queue_map[l].packet_queue = <<>>
        /\ \A f \in Flows : sent[f] = 0 /\ arrived[f] = <<>>
    BY DEF Init
  <1>2. \A e : ~Rides(packet_map, e)
    BY <1>1 DEF Rides
  <1>3. \A l, k : ~Waits(queue_map, l, k)
    BY <1>1 DEF Waits
  <1>4. \A x : ~There(arrived, x) /\ ~Lost(dropped, x)
    BY <1>1 DEF There, Lost
  <1>5. \A x : ~Handed(sent, x)
    BY <1>1 DEF Handed
  <1>6. Unique(packet_map, queue_map) /\ \A x : ~Named(packet_map, queue_map, x)
    BY <1>2, <1>3 DEF Unique, Named
  <1> QED BY <1>4, <1>5, <1>6 DEF AccountInv, Places

\* One more arrival.
LEMMA OneArrives ==
    ASSUME NEW a \in [Flows -> Seq(Nat)], NEW f \in Flows, NEW i \in Nat
    PROVE  \A x : There([a EXCEPT ![f] = Append(@, i)], x) <=> There(a, x) \/ x = <<f, i>>
  <1> DEFINE s == Append(a[f], i)
             n == Len(a[f]) + 1
             b == [a EXCEPT ![f] = s]
  <1>1. DOMAIN s = DOMAIN a[f] \cup {n} /\ s[n] = i /\ \A k \in DOMAIN a[f] : s[k] = a[f][k]
    <2>1. a[f] \in Seq(Nat)
      OBVIOUS
    <2>2. /\ s \in Seq(Nat) /\ Len(s) = n /\ s[n] = i
          /\ \A k \in 1..Len(a[f]) : s[k] = a[f][k]
      BY <2>1, AppendProperties
    <2>3. DOMAIN a[f] = 1..Len(a[f]) /\ Len(a[f]) \in Nat /\ DOMAIN s = 1..n
      BY <2>1, <2>2, LenProperties
    <2> QED BY <2>2, <2>3
  <1>2. b[f] = s /\ \A g \in Flows \ {f} : b[g] = a[g]
    OBVIOUS
  <1> HIDE DEF s, n, b
  <1>3. ASSUME NEW x, There(b, x)
        PROVE  There(a, x) \/ x = <<f, i>>
    <2>0. PICK g \in Flows : \E k \in DOMAIN b[g] : x = <<g, b[g][k]>>
      BY <1>3 DEF There
    <2>1. PICK k \in DOMAIN b[g] : x = <<g, b[g][k]>>
      BY <2>0
    <2>2. CASE g = f
      BY <1>1, <1>2, <2>1, <2>2 DEF There
    <2>3. CASE g # f
      BY <1>2, <2>1, <2>3 DEF There
    <2> QED BY <2>2, <2>3
  <1>4. ASSUME NEW x, There(a, x)
        PROVE  There(b, x)
    <2>0. PICK g \in Flows : \E k \in DOMAIN a[g] : x = <<g, a[g][k]>>
      BY <1>4 DEF There
    <2>1. PICK k \in DOMAIN a[g] : x = <<g, a[g][k]>>
      BY <2>0
    <2>2. CASE g = f
      BY <1>1, <1>2, <2>1, <2>2 DEF There
    <2>3. CASE g # f
      BY <1>2, <2>1, <2>3 DEF There
    <2> QED BY <2>2, <2>3
  <1>5. There(b, <<f, i>>)
    BY <1>1, <1>2 DEF There
  <1>6. \A x : There(b, x) <=> There(a, x) \/ x = <<f, i>>
    BY <1>3, <1>4, <1>5
  <1> QED BY <1>6 DEF b, s

\* One more is handed to send().
LEMMA OneHanded ==
    ASSUME NEW s \in [Flows -> Nat], NEW f \in Flows
    PROVE  /\ \A x : Handed([s EXCEPT ![f] = @ + 1], x) <=> Handed(s, x) \/ x = <<f, s[f] + 1>>
           /\ ~Handed(s, <<f, s[f] + 1>>)
  <1> DEFINE t == [s EXCEPT ![f] = @ + 1]
  <1>1. t[f] = s[f] + 1 /\ s[f] \in Nat /\ \A g \in Flows \ {f} : t[g] = s[g]
    OBVIOUS
  <1> HIDE DEF t
  <1>2. \A i \in Nat : i \in 1..t[f] <=> i \in 1..s[f] \/ i = s[f] + 1
    BY <1>1
  <1>3. ASSUME NEW x, Handed(t, x)
        PROVE  Handed(s, x) \/ x = <<f, s[f] + 1>>
    <2>1. PICK g \in Flows, i \in Nat : i \in 1..t[g] /\ x = <<g, i>>
      BY <1>3 DEF Handed
    <2> QED BY <1>1, <1>2, <2>1 DEF Handed
  <1>4. ASSUME NEW x, Handed(s, x)
        PROVE  Handed(t, x)
    <2>1. PICK g \in Flows, i \in Nat : i \in 1..s[g] /\ x = <<g, i>>
      BY <1>4 DEF Handed
    <2>2. i \in 1..t[g]
      BY <1>1, <1>2, <2>1
    <2> QED BY <2>1, <2>2 DEF Handed
  <1>5. Handed(t, <<f, s[f] + 1>>)
    BY <1>1, <1>2 DEF Handed
  <1>6. ~Handed(s, <<f, s[f] + 1>>)
    <2> SUFFICES ASSUME NEW g \in Flows, NEW i \in Nat, i \in 1..s[g], <<f, s[f] + 1>> = <<g, i>> PROVE FALSE
      BY DEF Handed
    <2>1. g = f /\ i = s[f] + 1
      OBVIOUS
    <2> QED BY <1>1, <2>1
  <1> QED BY <1>3, <1>4, <1>5, <1>6 DEF t

LEMMA StepAccount == IInv /\ AccountInv /\ [Next]_vars => AccountInv'
  <1> SUFFICES ASSUME IInv, AccountInv, [Next]_vars PROVE AccountInv'
    OBVIOUS
  <1>0. /\ QueuesOK(queue_map) /\ EntriesOK(packet_map, ticket, virtual_clock)
        /\ sent \in [Flows -> Nat] /\ arrived \in [Flows -> Seq(Nat)]
    BY DEF IInv, CountsOK, MapsOK
  <1>a. /\ Unique(packet_map, queue_map)
        /\ \A x : Handed(sent, x) <=> Named(packet_map, queue_map, x) \/ There(arrived, x) \/ Lost(dropped, x)
        /\ \A x : /\ ~(Named(packet_map, queue_map, x) /\ There(arrived, x))
                  /\ ~(Named(packet_map, queue_map, x) /\ Lost(dropped, x))
                  /\ ~(There(arrived, x) /\ Lost(dropped, x))
    BY DEF AccountInv, Places
  <1>1. CASE Deliver
    <2>1. PICK e \in packet_map :
             /\ ~e.trans /\ packet_map' = packet_map \ {e}
             /\ arrived' = [arrived EXCEPT ![Flow(e.packet)] = Append(@, e.packet.id)]
             /\ UNCHANGED <<queue_map, sent, dropped>>
      BY <1>1 DEF Deliver
    <2>2. Rides(packet_map, e) /\ Flow(e.packet) \in Flows /\ e.packet.id \in Nat
      BY <1>0, <2>1 DEF Rides, EntriesOK, Entries, Packets, OnCourse
    <2>3. /\ Unique(packet_map', queue_map')
          /\ \A x : Named(packet_map', queue_map', x) <=> Named(packet_map, queue_map, x) /\ x # Name(e.packet)
      BY <1>a, <2>1, <2>2, TakeOut
    <2>4. \A x : There(arrived', x) <=> There(arrived, x) \/ x = Name(e.packet)
      BY <1>0, <2>1, <2>2, OneArrives DEF Name
    <2>5. Named(packet_map, queue_map, Name(e.packet))
      BY <2>2 DEF Named
    <2> QED BY <1>a, <2>1, <2>3, <2>4, <2>5 DEF AccountInv, Places
  <1>2. CASE Forward
    <2>1. PICK e \in packet_map :
             /\ ~e.trans /\ e.packet.destination # e.link[2]
             /\ Enqueue(e.link[2], e.packet, e.time, packet_map \ {e})
             /\ UNCHANGED <<sent, arrived>>
      BY <1>2 DEF Forward
    <2>2. Rides(packet_map, e) /\ Flow(e.packet) \in Flows /\ e.packet \in Packets /\ e.link[2] \in Nodes
      <3>1. e.link \in Links /\ e.packet \in Packets /\ Flow(e.packet) \in Flows
        BY <1>0 DEF EntriesOK, Entries, OnCourse
      <3> QED BY <2>1, <3>1, LinksAssumption DEF Rides
    <2> DEFINE rest == packet_map \ {e}
    <2>3. /\ Unique(rest, queue_map)
          /\ \A x : Named(rest, queue_map, x) <=> Named(packet_map, queue_map, x) /\ x # Name(e.packet)
      BY <1>a, <2>2, TakeOut
    <2> HIDE DEF rest
    <2>4. Enqueue(e.link[2], e.packet, e.time, rest)
      BY <2>1 DEF rest
    <2>5. /\ Unique(packet_map', queue_map')
          /\ \/ /\ \A x : Named(packet_map', queue_map', x) <=> Named(rest, queue_map, x) \/ x = Name(e.packet)
                /\ \A x : Lost(dropped', x) <=> Lost(dropped, x)
             \/ /\ \A x : Named(packet_map', queue_map', x) <=> Named(rest, queue_map, x)
                /\ \A x : Lost(dropped', x) <=> Lost(dropped, x) \/ x = Name(e.packet)
      BY <1>0, <2>1, <2>2, <2>3, <2>4, EnqueueNames
    <2>6. Named(packet_map, queue_map, Name(e.packet))
      BY <2>2 DEF Named
    <2> QED BY <1>a, <2>1, <2>3, <2>5, <2>6 DEF AccountInv, Places
  <1>3. CASE SendDone
    <2>1. PICK e \in packet_map :
             /\ e.trans
             /\ SendIt(e.link, [queue_map[e.link] EXCEPT !.pending_send = FALSE], e.time, packet_map \ {e})
             /\ UNCHANGED <<sent, arrived, dropped>>
      BY <1>3 DEF SendDone
    <2> DEFINE l == e.link
               q == [queue_map[l] EXCEPT !.pending_send = FALSE]
               rest == packet_map \ {e}
               Q == [queue_map EXCEPT ![l] = q]
    <2>2. l \in Links
      BY <1>0 DEF EntriesOK, Entries
    <2>3. q \in Queues(l) /\ q.packet_queue = queue_map[l].packet_queue
      BY <1>0, <2>2 DEF QueuesOK, Queues
    <2>4. SendIt(l, q, e.time, rest)
      BY <2>1
    <2>5. /\ Unique(rest, queue_map)
          /\ \A x : Named(rest, queue_map, x) <=> Named(packet_map, queue_map, x)
      BY <1>a, <2>1, TakeCompletion
    <2> HIDE DEF l, q, rest
    <2>6. \A m \in Links : Q[m].packet_queue = queue_map[m].packet_queue
      BY <1>0, <2>2, <2>3 DEF QueuesOK
    <2> HIDE DEF Q
    <2>7. /\ Unique(rest, Q)
          /\ \A x : Named(rest, Q, x) <=> Named(rest, queue_map, x)
      BY <2>5, <2>6, SameQueue
    <2>8. /\ Unique(packet_map', queue_map')
          /\ \A x : Named(packet_map', queue_map', x) <=> Named(rest, Q, x)
      BY <1>0, <2>2, <2>3, <2>4, <2>7, SendItNames DEF Q
    <2> QED BY <1>a, <2>1, <2>5, <2>7, <2>8 DEF AccountInv, Places
  <1>4. CASE HostSend
    <2>1. PICK f \in Flows, len \in Lengths :
             /\ f[1] = running
             /\ sent' = [sent EXCEPT ![f] = @ + 1]
             /\ Enqueue(running, [source |-> f[1], destination |-> f[2], id |-> sent[f] + 1,
                                  length |-> len, ECN |-> FALSE], virtual_clock, packet_map)
      BY <1>4 DEF HostSend
    <2> DEFINE p == [source |-> f[1], destination |-> f[2], id |-> sent[f] + 1, length |-> len, ECN |-> FALSE]
    <2>2. running \in Hosts /\ arrived' = arrived
      BY <1>4 DEF HostSend, Call
    <2>3. f[1] \in Hosts /\ f[2] \in Hosts /\ f[1] # f[2] /\ f = <<f[1], f[2]>> /\ sent[f] \in Nat
      BY <1>0, FlowsAssumption
    <2>4. p \in Packets /\ Flow(p) = f /\ p.id = sent[f] + 1 /\ running # p.destination /\ running \in Nodes
      BY <2>1, <2>2, <2>3, SizesAssumption DEF Packets, Flow, Nodes
    <2>5. Enqueue(running, p, virtual_clock, packet_map)
      BY <2>1
    <2> HIDE DEF p
    <2>6. Name(p) = <<f, sent[f] + 1>>
      BY <2>4 DEF Name
    <2>7. /\ \A x : Handed(sent', x) <=> Handed(sent, x) \/ x = Name(p)
          /\ ~Handed(sent, Name(p))
      <3>1. /\ \A x : Handed([sent EXCEPT ![f] = @ + 1], x) <=> Handed(sent, x) \/ x = <<f, sent[f] + 1>>
            /\ ~Handed(sent, <<f, sent[f] + 1>>)
        BY <1>0, OneHanded
      <3>2. \A x : Handed(sent', x) <=> Handed([sent EXCEPT ![f] = @ + 1], x)
        BY <2>1
      <3> QED BY <2>6, <3>1, <3>2
    <2>8. ~Named(packet_map, queue_map, Name(p))
      BY <1>a, <2>7
    <2>9. /\ Unique(packet_map', queue_map')
          /\ \/ /\ \A x : Named(packet_map', queue_map', x) <=> Named(packet_map, queue_map, x) \/ x = Name(p)
                /\ \A x : Lost(dropped', x) <=> Lost(dropped, x)
             \/ /\ \A x : Named(packet_map', queue_map', x) <=> Named(packet_map, queue_map, x)
                /\ \A x : Lost(dropped', x) <=> Lost(dropped, x) \/ x = Name(p)
      BY <1>0, <1>a, <2>4, <2>5, <2>8, EnqueueNames
    <2> QED BY <1>a, <2>2, <2>7, <2>9 DEF AccountInv, Places
  <1>5. CASE UNCHANGED <<packet_map, queue_map, arrived, dropped, sent>>
    BY <1>5 DEF AccountInv
  <1>6. CASE ProcessTimer \/ SetTimer \/ CancelTimer \/ Return \/ UNCHANGED vars
    BY <1>5, <1>6 DEF ProcessTimer, SetTimer, CancelTimer, Return, Call, vars
  <1> QED BY <1>1, <1>2, <1>3, <1>4, <1>6 DEF Next

---------------------------------------------------------------------------
\* What InTransit of Network calls the packets on their way.
LEMMA TransitLemma ==
    ASSUME NEW f \in Flows
    PROVE  \A i : i \in InTransit(f) <=> Named(packet_map, queue_map, <<f, i>>)
  <1>1. \A p : \A i : (Flow(p) = f /\ p.id = i) <=> <<f, i>> = Name(p)
    BY DEF Name
  <1>2. \A i : i \in InTransit(f) <=>
            \/ \E e \in packet_map : ~e.trans /\ Flow(e.packet) = f /\ e.packet.id = i
            \/ \E l \in Links : \E k \in DOMAIN queue_map[l].packet_queue :
                  Flow(queue_map[l].packet_queue[k]) = f /\ queue_map[l].packet_queue[k].id = i
    BY DEF InTransit
  <1>3. \A i : Named(packet_map, queue_map, <<f, i>>) <=>
            \/ \E e \in packet_map : ~e.trans /\ <<f, i>> = Name(e.packet)
            \/ \E l \in Links : \E k \in DOMAIN queue_map[l].packet_queue :
                  <<f, i>> = Name(queue_map[l].packet_queue[k])
    BY DEF Named, Rides, Waits, At
  <1> SUFFICES ASSUME NEW i
               PROVE  i \in InTransit(f) <=> Named(packet_map, queue_map, <<f, i>>)
    OBVIOUS
  <1>4. \A p : (Flow(p) = f /\ p.id = i) <=> <<f, i>> = Name(p)
    BY <1>1
  <1>5. (\E e \in packet_map : ~e.trans /\ Flow(e.packet) = f /\ e.packet.id = i)
           <=> \E e \in packet_map : ~e.trans /\ <<f, i>> = Name(e.packet)
    BY <1>4
  <1>6. (\E l \in Links : \E k \in DOMAIN queue_map[l].packet_queue :
             Flow(queue_map[l].packet_queue[k]) = f /\ queue_map[l].packet_queue[k].id = i)
           <=> \E l \in Links : \E k \in DOMAIN queue_map[l].packet_queue :
                  <<f, i>> = Name(queue_map[l].packet_queue[k])
    BY <1>4
  <1> QED BY <1>2, <1>3, <1>5, <1>6

\* Whatever the topology, the flows and the sizes of the queues: every packet
\* that a host has handed to send() is on its way, has arrived or has met a
\* full queue, and only one of the three.
THEOREM EveryPacketAccounted == Spec => []Accounted
  <1>1. AccountInv /\ IInv => Accounted
    <2> SUFFICES ASSUME AccountInv, IInv, NEW f \in Flows
                 PROVE  LET there == {arrived[f][k] : k \in DOMAIN arrived[f]}
                            lost  == {d.id : d \in {c \in dropped : c.flow = f}}
                        IN  /\ 1..sent[f] = InTransit(f) \cup there \cup lost
                            /\ InTransit(f) \cap (there \cup lost) = {} /\ there \cap lost = {}
      BY DEF Accounted
    <2> DEFINE there == {arrived[f][k] : k \in DOMAIN arrived[f]}
               lost  == {d.id : d \in {c \in dropped : c.flow = f}}
    <2>1. \A i : i \in InTransit(f) <=> Named(packet_map, queue_map, <<f, i>>)
      BY TransitLemma
    <2>2. \A i : i \in there <=> There(arrived, <<f, i>>)
      BY DEF There
    <2>3. \A i : i \in lost <=> Lost(dropped, <<f, i>>)
      BY DEF Lost
    <2>4. \A i : i \in 1..sent[f] <=> Handed(sent, <<f, i>>)
      <3>1. sent[f] \in Nat
        BY DEF IInv, CountsOK
      <3>2. \A i : i \in 1..sent[f] => i \in Nat
        BY <3>1
      <3> QED BY <3>2 DEF Handed
    <2> HIDE DEF there, lost
    <2>5. /\ \A x : Handed(sent, x) <=> Named(packet_map, queue_map, x) \/ There(arrived, x) \/ Lost(dropped, x)
          /\ \A x : /\ ~(Named(packet_map, queue_map, x) /\ There(arrived, x))
                    /\ ~(Named(packet_map, queue_map, x) /\ Lost(dropped, x))
                    /\ ~(There(arrived, x) /\ Lost(dropped, x))
      BY DEF AccountInv, Places
    <2>6. \A i : i \in 1..sent[f] <=> i \in InTransit(f) \/ i \in there \/ i \in lost
      BY <2>1, <2>2, <2>3, <2>4, <2>5
    <2>7. \A i : /\ ~(i \in InTransit(f) /\ i \in there) /\ ~(i \in InTransit(f) /\ i \in lost)
                 /\ ~(i \in there /\ i \in lost)
      BY <2>1, <2>2, <2>3, <2>5
    <2>8. /\ 1..sent[f] = InTransit(f) \cup there \cup lost
          /\ InTransit(f) \cap (there \cup lost) = {} /\ there \cap lost = {}
      BY <2>6, <2>7
    <2> QED BY <2>8 DEF there, lost
  <1> QED BY <1>1, InitAccount, StepAccount, Inductive, PTL DEF Spec

---------------------------------------------------------------------------
(* The order of a flow's packets on their way.                             *)

\* Packet p travels over link l with ticket k (s = 1), or waits at position k
\* of its queue (s = 0).
Sits(P, Q, l, s, k, p) ==
    \/ s = 1 /\ \E e : Rides(P, e) /\ e.link = l /\ e.ticket = k /\ e.packet = p
    \/ s = 0 /\ Waits(Q, l, k) /\ At(Q, l, k) = p

\* For flow f the first place is in front of the second.
InFront(f, l, s, k, m, t, j) == \/ Hops[f][l[1]] > Hops[f][m[1]]
                                \/ l = m /\ s > t
                                \/ l = m /\ s = t /\ k < j

\* Link l belongs to the way of f.
OnTheWay(f, l) == l[1] \in DOMAIN Hops[f] \ {f[2]} /\ l = <<l[1], NextHop[<<l[1], f[2]>>]>>

\* Packets are on the way of their flow, and of two packets of a flow the one
\* that was sent first is in front.
Ordered(P, Q) ==
    /\ \A l, s, k, p : Sits(P, Q, l, s, k, p) => OnTheWay(Flow(p), l)
    /\ \A l, s, k, p, m, t, j, q :
          Sits(P, Q, l, s, k, p) /\ Sits(P, Q, m, t, j, q) /\ Flow(p) = Flow(q) /\ p.id < q.id
             => InFront(Flow(p), l, s, k, m, t, j)

OrderInv == Ordered(packet_map, queue_map)

\* Nobody moves.
LEMMA Fewer ==
    ASSUME NEW P, NEW Q, NEW R, NEW S, Ordered(P, Q),
           \A l, s, k, p : Sits(R, S, l, s, k, p) => Sits(P, Q, l, s, k, p)
    PROVE  Ordered(R, S)
  BY DEF Ordered

\* A packet p may go to the end of the queue of l.
Fits(P, Q, l, p) ==
    \A m, s, k, q : Sits(P, Q, m, s, k, q) /\ Flow(q) = Flow(p) =>
        /\ q.id < p.id => Hops[Flow(p)][m[1]] > Hops[Flow(p)][l[1]] \/ m = l
        /\ p.id < q.id => Hops[Flow(p)][l[1]] > Hops[Flow(p)][m[1]]

\* It goes there.
LEMMA Joins ==
    ASSUME NEW P, NEW Q, NEW R, NEW l, NEW p, NEW n \in Nat, p.id \in Nat,
           Lengthened(Q, R, l, n, p),
           OnTheWay(Flow(p), l), Fits(P, Q, l, p), Ordered(P, Q)
    PROVE  Ordered(P, R)
  <1>1. \A m, s, k, q : Sits(P, R, m, s, k, q) =>
            Sits(P, Q, m, s, k, q) \/ (m = l /\ s = 0 /\ k = n /\ q = p)
    BY DEF Sits, Lengthened
  <1>2. \A m, s, k, q : Sits(P, Q, m, s, k, q) => s = 1 \/ (s = 0 /\ (m = l => k < n))
    BY DEF Sits, Lengthened
  <1>3. \A m, s, k, q : Sits(P, R, m, s, k, q) => OnTheWay(Flow(q), m)
    BY <1>1 DEF Ordered
  <1>4. ASSUME NEW a, NEW s, NEW k, NEW q, NEW b, NEW t, NEW j, NEW r,
               Sits(P, R, a, s, k, q), Sits(P, R, b, t, j, r), Flow(q) = Flow(r), q.id < r.id
        PROVE  InFront(Flow(q), a, s, k, b, t, j)
    <2>1. CASE Sits(P, Q, a, s, k, q) /\ Sits(P, Q, b, t, j, r)
      BY <1>4, <2>1 DEF Ordered
    <2>2. CASE Sits(P, Q, a, s, k, q) /\ b = l /\ t = 0 /\ j = n /\ r = p
      <3>1. Hops[Flow(q)][a[1]] > Hops[Flow(q)][b[1]] \/ a = b
        BY <1>4, <2>2 DEF Fits
      <3>2. s = 1 \/ (s = 0 /\ (a = l => k < n))
        BY <1>2, <2>2
      <3> QED BY <2>2, <3>1, <3>2 DEF InFront
    <2>3. CASE a = l /\ s = 0 /\ k = n /\ q = p /\ Sits(P, Q, b, t, j, r)
      BY <1>4, <2>3 DEF Fits, InFront
    <2>4. CASE q = p /\ r = p
      BY <1>4, <2>4
    <2> QED BY <1>1, <1>4, <2>1, <2>2, <2>3, <2>4
  <1> QED BY <1>3, <1>4 DEF Ordered

\* The head of the queue of l begins to travel, with the highest ticket.
LEMMA Flies ==
    ASSUME NEW P, NEW Q, NEW R, NEW l, NEW c, NEW d, NEW n \in Nat,
           ~c.trans, d.trans, c.link = l, c.ticket = n, c.packet = Head(Q[l].packet_queue),
           Beheaded(Q, R, l), \A e \in P : e.ticket \in Nat /\ e.ticket < n,
           Ordered(P, Q)
    PROVE  Ordered(P \cup {c, d}, R)
  <1> DEFINE N == P \cup {c, d}
             \* The place that was s2, k2 of link m is now s, k.
             Became(m, s, k, s2, k2) ==
                \/ s2 = s /\ k2 = k /\ (s = 1 => k \in Nat /\ k < n) /\ (m = l => s = 1) /\ s \in {0, 1}
                \/ m = l /\ s = 1 /\ k = n /\ s2 = 0 /\ k2 = 1
                \/ m = l /\ s = 0 /\ k \in Nat \ {0} /\ s2 = 0 /\ k2 = k + 1
  <1>1. \A e : Rides(N, e) <=> Rides(P, e) \/ e = c
    BY DEF Rides
  <1>2. \A e : Rides(P, e) => e.ticket \in Nat /\ e.ticket < n
    BY DEF Rides
  <1>3. Waits(Q, l, 1) /\ At(Q, l, 1) = c.packet
    BY DEF Beheaded
  <1> HIDE DEF N
  <1>4. ASSUME NEW m, NEW s, NEW k, NEW p, Sits(N, R, m, s, k, p)
        PROVE  \E s2, k2 : Sits(P, Q, m, s2, k2, p) /\ Became(m, s, k, s2, k2)
    <2>1. CASE s = 1 /\ \E e : Rides(P, e) /\ e.link = m /\ e.ticket = k /\ e.packet = p
      <3>1. Sits(P, Q, m, 1, k, p) /\ k \in Nat /\ k < n
        BY <1>2, <2>1 DEF Sits
      <3> QED BY <2>1, <3>1
    <2>2. CASE s = 1 /\ m = l /\ k = n /\ p = c.packet
      <3>1. Sits(P, Q, m, 0, 1, p)
        BY <1>3, <2>2 DEF Sits
      <3> QED BY <2>2, <3>1
    <2>3. CASE s = 0 /\ Waits(R, m, k) /\ At(R, m, k) = p /\ m = l
      <3>1. Sits(P, Q, m, 0, k + 1, p) /\ k \in Nat \ {0}
        BY <2>3 DEF Sits, Beheaded
      <3> QED BY <2>3, <3>1
    <2>4. CASE s = 0 /\ Waits(R, m, k) /\ At(R, m, k) = p /\ m # l
      <3>1. Sits(P, Q, m, 0, k, p)
        BY <2>4 DEF Sits, Beheaded
      <3> QED BY <2>4, <3>1
    <2> QED BY <1>1, <1>4, <2>1, <2>2, <2>3, <2>4 DEF Sits
  <1>5. ASSUME NEW f, NEW a, NEW s, NEW k, NEW s2, NEW k2, NEW b, NEW t, NEW j, NEW t2, NEW j2,
               Became(a, s, k, s2, k2), Became(b, t, j, t2, j2), InFront(f, a, s2, k2, b, t2, j2)
        PROVE  InFront(f, a, s, k, b, t, j)
    <2>1. CASE a = b /\ a = l
      BY <1>5, <2>1 DEF InFront
    <2>2. CASE a = b /\ a # l
      BY <1>5, <2>2 DEF InFront
    <2>3. CASE a # b
      BY <1>5, <2>3 DEF InFront
    <2> QED BY <2>1, <2>2, <2>3
  <1> HIDE DEF Became
  <1>6. \A m, s, k, p : Sits(N, R, m, s, k, p) => OnTheWay(Flow(p), m)
    BY <1>4 DEF Ordered
  <1>7. ASSUME NEW a, NEW s, NEW k, NEW p, NEW b, NEW t, NEW j, NEW q,
               Sits(N, R, a, s, k, p), Sits(N, R, b, t, j, q), Flow(p) = Flow(q), p.id < q.id
        PROVE  InFront(Flow(p), a, s, k, b, t, j)
    <2>1. PICK s2, k2 : Sits(P, Q, a, s2, k2, p) /\ Became(a, s, k, s2, k2)
      BY <1>4, <1>7
    <2>2. PICK t2, j2 : Sits(P, Q, b, t2, j2, q) /\ Became(b, t, j, t2, j2)
      BY <1>4, <1>7
    <2>3. InFront(Flow(p), a, s2, k2, b, t2, j2)
      BY <1>7, <2>1, <2>2 DEF Ordered
    <2> QED BY <1>5, <2>1, <2>2, <2>3
  <1>8. Ordered(N, R)
    BY <1>6, <1>7 DEF Ordered
  <1> QED BY <1>8 DEF N

---------------------------------------------------------------------------
(* What the simulator does with queues and links.                          *)

Ticketed(P, n) == \A e \in P : e.ticket \in Nat /\ e.ticket < n

\* send_it() keeps the order.
LEMMA SendItOrder ==
    ASSUME QueuesOK(queue_map), ticket \in Nat, NEW l \in Links, NEW q \in Queues(l), NEW now, NEW rest,
           Ticketed(rest, ticket), SendIt(l, q, now, rest),
           NEW Q, Q = [queue_map EXCEPT ![l] = q], Ordered(rest, Q)
    PROVE  Ordered(packet_map', queue_map')
  <1>1. Q[l] = q /\ \A m \in Links \ {l} : Q[m] = queue_map[m]
    BY DEF QueuesOK
  <1>2. CASE queue_map' = [queue_map EXCEPT ![l] = q] /\ packet_map' = rest
    BY <1>2
  <1>3. CASE ~q.pending_send /\ q.packet_queue # <<>>
    <2> DEFINE p == Head(q.packet_queue)
               r == [packet_queue |-> Tail(q.packet_queue), pending_send |-> TRUE]
               c == Entry(now + link_delay(l, p), ticket, l, p, FALSE)
               d == Entry(now + link_trans_delay(l, p), ticket + 1, l, p, TRUE)
    <2>1. queue_map' = [queue_map EXCEPT ![l] = r] /\ packet_map' = rest \cup {c, d}
      BY <1>3 DEF SendIt
    <2>2. queue_map'[l] = r /\ \A m \in Links \ {l} : queue_map'[m] = queue_map[m]
      BY <2>1 DEF QueuesOK
    <2>3. ~c.trans /\ d.trans /\ c.link = l /\ c.ticket = ticket /\ c.packet = Head(Q[l].packet_queue)
      BY <1>1 DEF Entry
    <2>4. /\ Q[l].packet_queue \in Seq({x \in Packets : OnCourse(l, x)}) /\ Q[l].packet_queue # <<>>
          /\ queue_map'[l].packet_queue = Tail(Q[l].packet_queue)
          /\ \A m \in Links \ {l} : queue_map'[m].packet_queue = Q[m].packet_queue
      BY <1>1, <1>3, <2>2 DEF Queues
    <2> HIDE DEF c, d, r, p
    <2>5. Beheaded(Q, queue_map', l)
      BY <2>4, Shifted
    <2>6. Ordered(rest \cup {c, d}, queue_map')
      BY <2>3, <2>5, Flies DEF Ticketed
    <2> QED BY <2>1, <2>6
  <1> QED BY <1>2, <1>3 DEF SendIt

\* So does enq(), when the packet fits.
LEMMA EnqueueOrder ==
    ASSUME QueuesOK(queue_map), ticket \in Nat,
           NEW n \in Nodes, NEW p \in Packets, Flow(p) \in Flows, n \in DOMAIN Hops[Flow(p)], n # p.destination,
           NEW now, NEW rest, Ticketed(rest, ticket), Ordered(rest, queue_map),
           Fits(rest, queue_map, <<n, NextHop[<<n, p.destination>>]>>, p),
           Enqueue(n, p, now, rest)
    PROVE  Ordered(packet_map', queue_map')
  <1> DEFINE l == <<n, NextHop[<<n, p.destination>>]>>
             q == queue_map[l]
             r == Marked(l, p)
  <1>1. l \in Links /\ (l[2] \in Hosts => l[2] = p.destination) /\ OnTheWay(Flow(p), l)
    <2>1. p.destination = Flow(p)[2]
      BY DEF Flow
    <2> QED BY <2>1, RoutesAssumption DEF OnTheWay
  <1>2. CASE SendIt(l, [q EXCEPT !.packet_queue = Append(@, r)], now, rest)
    <2> DEFINE s == [q EXCEPT !.packet_queue = Append(@, r)]
               Q == [queue_map EXCEPT ![l] = s]
    <2>1. q \in Queues(l)
      BY <1>1 DEF QueuesOK
    <2>2. r \in Packets /\ OnCourse(l, r) /\ Flow(r) = Flow(p) /\ r.id = p.id
      BY <1>1, MarkedLemma DEF OnCourse
    <2>3. SendIt(l, s, now, rest)
      BY <1>2
    <2>0. Fits(rest, queue_map, l, r)
      BY <2>2 DEF Fits
    <2> HIDE DEF l, r
    <2>4. s \in Queues(l)
      BY <2>1, <2>2, QueueAppend
    <2>5. s.packet_queue = Append(queue_map[l].packet_queue, r)
      <3> DEFINE a == Append(q.packet_queue, r)
      <3>1. [q EXCEPT !.packet_queue = a].packet_queue = a
        BY <2>1 DEF Queues
      <3> QED BY <3>1
    <2>6. queue_map[l].packet_queue \in Seq({x \in Packets : OnCourse(l, x)})
      BY <2>1 DEF Queues
    <2> HIDE DEF s, q
    <2>7. Q[l].packet_queue = Append(queue_map[l].packet_queue, r)
          /\ \A m \in Links \ {l} : Q[m].packet_queue = queue_map[m].packet_queue
      BY <1>1, <2>5 DEF QueuesOK
    <2> HIDE DEF Q
    <2>8. r \in {x \in Packets : OnCourse(l, x)}
      BY <2>2
    <2>9. PICK k \in Nat : Lengthened(queue_map, Q, l, k, r)
      BY <1>1, <2>6, <2>7, <2>8, Appended
    <2>10. r.id \in Nat /\ OnTheWay(Flow(r), l)
      BY <1>1, <2>2 DEF Packets
    <2>11. Ordered(rest, Q)
      BY <2>0, <2>9, <2>10, Joins
    <2> QED BY <1>1, <2>3, <2>4, <2>11, SendItOrder DEF Q
  <1>3. CASE packet_map' = rest /\ UNCHANGED <<queue_map, ticket>>
    BY <1>3
  <1> QED BY <1>2, <1>3 DEF Enqueue

\* A packet event that is due: of the receptions on a link it is the first.
LEMMA FirstOnLink ==
    ASSUME IInv, NEW e \in packet_map, ~e.trans, First(packet_map, e),
           NEW d, Rides(packet_map, d), d.link = e.link
    PROVE  ~(d.ticket < e.ticket)
  <1>1. /\ d \in packet_map /\ ~d.trans /\ e.link \in Links /\ e.packet \in Packets
        /\ d.time \in Nat /\ e.time \in Nat /\ d.ticket \in Int /\ e.ticket \in Int
    BY DEF Rides, IInv, CountsOK, MapsOK, EntriesOK, Entries
  <1>2. d \in Flying(packet_map, e.link) /\ e \in Flying(packet_map, e.link)
    BY <1>1 DEF Flying
  <1>3. d.ticket < e.ticket => d.time + link_trans_delay(e.link, e.packet) =< e.time
    BY <1>1, <1>2 DEF IInv, LinksOK, Wire
  <1>4. link_trans_delay(e.link, e.packet) \in Nat
    BY <1>1, TransDelayNat
  <1>5. e.time < d.time \/ (e.time = d.time /\ e.ticket =< d.ticket)
    BY <1>1 DEF First
  <1> QED BY <1>1, <1>3, <1>4, <1>5

\* The numbers of the nodes on the way of a flow.
LEMMA HopsLemma ==
    ASSUME NEW f \in Flows, NEW n \in DOMAIN Hops[f]
    PROVE  /\ Hops[f][n] \in Nat /\ Hops[f][f[2]] \in Nat /\ Hops[f][n] =< Hops[f][f[2]]
           /\ n \in Nodes
           /\ \A m \in DOMAIN Hops[f] : Hops[f][m] = Hops[f][n] => m = n
           /\ f[1] \in DOMAIN Hops[f] /\ f[2] \in DOMAIN Hops[f] /\ Hops[f][f[1]] = 0
           /\ n # f[2] => /\ NextHop[<<n, f[2]>>] \in DOMAIN Hops[f]
                          /\ Hops[f][NextHop[<<n, f[2]>>]] = Hops[f][n] + 1
  BY HopsAssumption

\* Two links on the way of a flow that begin at one node are the same.
LEMMA OneWay ==
    ASSUME NEW f \in Flows, NEW l, NEW m, OnTheWay(f, l), OnTheWay(f, m), Hops[f][l[1]] = Hops[f][m[1]]
    PROVE  l = m
  <1>1. l[1] = m[1]
    BY HopsLemma DEF OnTheWay
  <1> QED BY <1>1 DEF OnTheWay

\* What is on its way has a place, a flow and a number.
LEMMA SitsLemma ==
    ASSUME IInv, NEW l, NEW s, NEW k, NEW p, Sits(packet_map, queue_map, l, s, k, p)
    PROVE  Flow(p) \in Flows /\ p.id \in Nat /\ Named(packet_map, queue_map, Name(p))
  <1>1. CASE \E e : Rides(packet_map, e) /\ e.packet = p
    BY <1>1 DEF Rides, Named, IInv, MapsOK, EntriesOK, Entries, OnCourse, Packets
  <1>2. CASE Waits(queue_map, l, k) /\ At(queue_map, l, k) = p
    <2>1. queue_map[l].packet_queue \in Seq({x \in Packets : OnCourse(l, x)}) /\ k \in DOMAIN queue_map[l].packet_queue
      BY <1>2 DEF Waits, IInv, MapsOK, QueuesOK, Queues
    <2>2. queue_map[l].packet_queue[k] \in {x \in Packets : OnCourse(l, x)}
      BY <2>1
    <2>3. p \in Packets /\ OnCourse(l, p)
      BY <1>2, <2>2 DEF At
    <2> QED BY <1>2, <2>3 DEF Named, OnCourse, Packets
  <1> QED BY <1>1, <1>2 DEF Sits

\* A packet that comes over a link is the first of its flow at the node there,
\* but for those that the node has seen.
LEMMA ForwardFits ==
    ASSUME IInv, OrderInv, NEW e \in packet_map, ~e.trans, First(packet_map, e),
           e.packet.destination # e.link[2]
    PROVE  LET n == e.link[2]
           IN  /\ n \in DOMAIN Hops[Flow(e.packet)]
               /\ Fits(packet_map \ {e}, queue_map, <<n, NextHop[<<n, e.packet.destination>>]>>, e.packet)
  <1> DEFINE p == e.packet
             f == Flow(p)
             m == e.link
             n == m[2]
             l == <<n, NextHop[<<n, p.destination>>]>>
  <1>1. Sits(packet_map, queue_map, m, 1, e.ticket, p) /\ Rides(packet_map, e)
    BY DEF Sits, Rides
  <1>2. f \in Flows /\ p.id \in Nat /\ OnTheWay(f, m)
    BY <1>1, SitsLemma DEF OrderInv, Ordered
  <1>3. f[2] = p.destination
    BY DEF Flow
  <1>4. m[1] \in DOMAIN Hops[f] /\ m[1] # f[2] /\ n = NextHop[<<m[1], f[2]>>]
    BY <1>2 DEF OnTheWay
  <1>5. n \in DOMAIN Hops[f] /\ Hops[f][n] = Hops[f][m[1]] + 1 /\ Hops[f][m[1]] \in Nat
    BY <1>2, <1>4, HopsLemma
  <1>6. OnTheWay(f, l) /\ l[1] = n
    BY <1>3, <1>5 DEF OnTheWay
  <1> HIDE DEF l, n
  <1>7. ASSUME NEW a, NEW s, NEW k, NEW q, Sits(packet_map \ {e}, queue_map, a, s, k, q), Flow(q) = f
        PROVE  /\ q.id < p.id => Hops[f][a[1]] > Hops[f][l[1]] \/ a = l
               /\ p.id < q.id => Hops[f][l[1]] > Hops[f][a[1]]
    <2>1. Sits(packet_map, queue_map, a, s, k, q)
      BY <1>7 DEF Sits, Rides
    <2>2. OnTheWay(f, a) /\ Hops[f][a[1]] \in Nat
      <3>1. OnTheWay(f, a)
        BY <1>7, <2>1 DEF OrderInv, Ordered
      <3> QED BY <1>2, <3>1, HopsLemma DEF OnTheWay
    <2>3. CASE q.id < p.id
      <3>1. InFront(f, a, s, k, m, 1, e.ticket)
        BY <1>1, <1>7, <2>1, <2>3 DEF OrderInv, Ordered
      <3>2. ~(a = m /\ s > 1)
        BY <2>1 DEF Sits
      <3>3. ~(a = m /\ s = 1 /\ k < e.ticket)
        <4> SUFFICES ASSUME a = m, s = 1, k < e.ticket PROVE FALSE
          OBVIOUS
        <4>1. PICK d : Rides(packet_map, d) /\ d.link = m /\ d.ticket = k
          BY <2>1 DEF Sits
        <4> QED BY <4>1, FirstOnLink
      <3>4. Hops[f][a[1]] > Hops[f][m[1]]
        BY <3>1, <3>2, <3>3 DEF InFront
      <3>5. Hops[f][a[1]] > Hops[f][l[1]] \/ Hops[f][a[1]] = Hops[f][l[1]]
        BY <1>5, <1>6, <2>2, <3>4
      <3>6. p.id \in Nat /\ q.id \in Nat
        BY <1>2, <2>1, SitsLemma
      <3> QED BY <1>2, <1>6, <2>2, <2>3, <3>5, <3>6, OneWay
    <2>4. CASE p.id < q.id
      <3>1. InFront(f, m, 1, e.ticket, a, s, k)
        BY <1>1, <1>7, <2>1, <2>4 DEF OrderInv, Ordered
      <3>2. Hops[f][m[1]] > Hops[f][a[1]] \/ Hops[f][m[1]] = Hops[f][a[1]]
        BY <3>1 DEF InFront
      <3>3. p.id \in Nat /\ q.id \in Nat
        BY <1>2, <2>1, SitsLemma
      <3> QED BY <1>5, <1>6, <2>2, <2>4, <3>2, <3>3
    <2> QED BY <2>3, <2>4
  <1>8. Fits(packet_map \ {e}, queue_map, l, p)
    BY <1>7 DEF Fits
  <1> QED BY <1>5, <1>8 DEF l, n

\* A new packet comes after all others of its flow.
LEMMA NewFits ==
    ASSUME IInv, AccountInv, OrderInv, NEW f \in Flows, NEW p, Flow(p) = f, p.id = sent[f] + 1
    PROVE  /\ f[1] \in DOMAIN Hops[f]
           /\ Fits(packet_map, queue_map, <<f[1], NextHop[<<f[1], f[2]>>]>>, p)
  <1> DEFINE l == <<f[1], NextHop[<<f[1], f[2]>>]>>
  <1>1. f[1] \in DOMAIN Hops[f] /\ Hops[f][f[1]] = 0 /\ f[1] # f[2]
    BY HopsAssumption, FlowsAssumption
  <1>2. OnTheWay(f, l) /\ l[1] = f[1]
    BY <1>1 DEF OnTheWay
  <1> HIDE DEF l
  <1>3. ASSUME NEW a, NEW s, NEW k, NEW q, Sits(packet_map, queue_map, a, s, k, q), Flow(q) = f
        PROVE  /\ q.id < p.id => Hops[f][a[1]] > Hops[f][l[1]] \/ a = l
               /\ p.id < q.id => Hops[f][l[1]] > Hops[f][a[1]]
    <2>1. OnTheWay(f, a) /\ Hops[f][a[1]] \in Nat
      <3>1. OnTheWay(f, a)
        BY <1>3 DEF OrderInv, Ordered
      <3> QED BY <3>1, HopsLemma DEF OnTheWay
    <2>2. q.id \in 1..sent[f] /\ sent[f] \in Nat
      <3>1. Named(packet_map, queue_map, <<f, q.id>>)
        BY <1>3, SitsLemma DEF Name
      <3>2. Handed(sent, <<f, q.id>>)
        BY <3>1 DEF AccountInv, Places
      <3>3. PICK g \in Flows, i \in Nat : i \in 1..sent[g] /\ <<f, q.id>> = <<g, i>>
        BY <3>2 DEF Handed
      <3>4. g = f /\ i = q.id
        BY <3>3
      <3> QED BY <3>3, <3>4 DEF IInv, CountsOK
    <2>3. ~(p.id < q.id)
      BY <2>2
    <2>4. Hops[f][a[1]] > Hops[f][l[1]] \/ Hops[f][a[1]] = Hops[f][l[1]]
      BY <1>1, <1>2, <2>1
    <2> QED BY <1>2, <2>1, <2>3, <2>4, OneWay
  <1>4. Fits(packet_map, queue_map, l, p)
    BY <1>3 DEF Fits
  <1> QED BY <1>1, <1>4 DEF l

---------------------------------------------------------------------------
(* The invariant.                                                          *)

LEMMA InitOrder == Init => OrderInv
  <1> SUFFICES ASSUME Init PROVE OrderInv
    OBVIOUS
  <1>1. packet_map = {} /\ \A l \in Links : queue_map[l].packet_queue = <<>>
    BY DEF Init
  <1>2. \A l, s, k, p : ~Sits(packet_map, queue_map, l, s, k, p)
    BY <1>1 DEF Sits, Rides, Waits
  <1> QED BY <1>2 DEF OrderInv, Ordered

LEMMA StepOrder == IInv /\ AccountInv /\ OrderInv /\ [Next]_vars => OrderInv'
  <1> SUFFICES ASSUME IInv, AccountInv, OrderInv, [Next]_vars PROVE OrderInv'
    OBVIOUS
  <1>0. /\ QueuesOK(queue_map) /\ ticket \in Nat /\ sent \in [Flows -> Nat]
        /\ \A e \in packet_map : e \in Entries(ticket) /\ OnCourse(e.link, e.packet)
    BY DEF IInv, CountsOK, MapsOK, EntriesOK
  <1>a. \A e : Ticketed(packet_map \ {e}, ticket) /\ Ordered(packet_map \ {e}, queue_map)
    <2> SUFFICES ASSUME NEW e PROVE Ticketed(packet_map \ {e}, ticket) /\ Ordered(packet_map \ {e}, queue_map)
      OBVIOUS
    <2>1. Ticketed(packet_map \ {e}, ticket)
      BY <1>0 DEF Ticketed, Entries
    <2>2. \A l, s, k, p : Sits(packet_map \ {e}, queue_map, l, s, k, p) => Sits(packet_map, queue_map, l, s, k, p)
      BY DEF Sits, Rides
    <2> QED BY <2>1, <2>2, Fewer DEF OrderInv
  <1>1. CASE Deliver
    <2>1. PICK e \in packet_map : packet_map' = packet_map \ {e} /\ UNCHANGED queue_map
      BY <1>1 DEF Deliver
    <2> QED BY <1>a, <2>1 DEF OrderInv
  <1>2. CASE Forward
    <2>1. PICK e \in packet_map :
             /\ NextPacket(e) /\ ~e.trans /\ e.packet.destination # e.link[2]
             /\ Enqueue(e.link[2], e.packet, e.time, packet_map \ {e})
      BY <1>2 DEF Forward
    <2>2. First(packet_map, e)
      BY <2>1 DEF NextPacket
    <2>3. e.packet \in Packets /\ Flow(e.packet) \in Flows /\ e.link[2] \in Nodes
      <3>1. e.link \in Links /\ e.packet \in Packets /\ Flow(e.packet) \in Flows
        BY <1>0 DEF Entries, OnCourse
      <3> QED BY <3>1, LinksAssumption
    <2> DEFINE n == e.link[2]
               rest == packet_map \ {e}
    <2>4. n \in DOMAIN Hops[Flow(e.packet)] /\ Fits(rest, queue_map, <<n, NextHop[<<n, e.packet.destination>>]>>, e.packet)
      BY <2>1, <2>2, ForwardFits
    <2>5. Ticketed(rest, ticket) /\ Ordered(rest, queue_map)
      BY <1>a
    <2>6. Enqueue(n, e.packet, e.time, rest) /\ n # e.packet.destination /\ n \in Nodes
      BY <2>1, <2>3
    <2> HIDE DEF rest, n
    <2> QED BY <1>0, <2>3, <2>4, <2>5, <2>6, EnqueueOrder DEF OrderInv
  <1>3. CASE SendDone
    <2>1. PICK e \in packet_map :
             SendIt(e.link, [queue_map[e.link] EXCEPT !.pending_send = FALSE], e.time, packet_map \ {e})
      BY <1>3 DEF SendDone
    <2> DEFINE l == e.link
               q == [queue_map[l] EXCEPT !.pending_send = FALSE]
               rest == packet_map \ {e}
               Q == [queue_map EXCEPT ![l] = q]
    <2>2. l \in Links
      BY <1>0 DEF Entries
    <2>3. q \in Queues(l) /\ q.packet_queue = queue_map[l].packet_queue
      BY <1>0, <2>2 DEF QueuesOK, Queues
    <2>4. SendIt(l, q, e.time, rest)
      BY <2>1
    <2>5. Ticketed(rest, ticket) /\ Ordered(rest, queue_map)
      BY <1>a
    <2> HIDE DEF l, q, rest
    <2>6. \A m \in Links : Q[m].packet_queue = queue_map[m].packet_queue
      BY <1>0, <2>2, <2>3 DEF QueuesOK
    <2> HIDE DEF Q
    <2>7. \A m, s, k, p : Sits(rest, Q, m, s, k, p) => Sits(rest, queue_map, m, s, k, p)
      BY <2>6 DEF Sits, Waits, At
    <2>8. Ordered(rest, Q)
      BY <2>5, <2>7, Fewer
    <2>9. Ordered(packet_map', queue_map')
      BY <1>0, <2>2, <2>3, <2>4, <2>5, <2>8, SendItOrder DEF Q
    <2> QED BY <2>9 DEF OrderInv
  <1>4. CASE HostSend
    <2>1. PICK f \in Flows, len \in Lengths :
             /\ f[1] = running
             /\ Enqueue(running, [source |-> f[1], destination |-> f[2], id |-> sent[f] + 1,
                                  length |-> len, ECN |-> FALSE], virtual_clock, packet_map)
      BY <1>4 DEF HostSend
    <2> DEFINE p == [source |-> f[1], destination |-> f[2], id |-> sent[f] + 1, length |-> len, ECN |-> FALSE]
    <2>2. running \in Hosts
      BY <1>4 DEF HostSend, Call
    <2>3. f[1] \in Hosts /\ f[2] \in Hosts /\ f[1] # f[2] /\ f = <<f[1], f[2]>> /\ sent[f] \in Nat
      BY <1>0, FlowsAssumption
    <2>4. /\ p \in Packets /\ Flow(p) = f /\ p.id = sent[f] + 1 /\ p.destination = f[2]
          /\ running # p.destination /\ running \in Nodes
      BY <2>1, <2>2, <2>3, SizesAssumption DEF Packets, Flow, Nodes
    <2>5. Enqueue(running, p, virtual_clock, packet_map)
      BY <2>1
    <2> HIDE DEF p
    <2>6. running \in DOMAIN Hops[f] /\ Fits(packet_map, queue_map, <<running, NextHop[<<running, p.destination>>]>>, p)
      BY <2>1, <2>4, NewFits
    <2>7. Ticketed(packet_map, ticket) /\ Ordered(packet_map, queue_map)
      BY <1>0 DEF Ticketed, Entries, OrderInv
    <2> QED BY <1>0, <2>4, <2>5, <2>6, <2>7, EnqueueOrder DEF OrderInv
  <1>5. CASE UNCHANGED <<packet_map, queue_map>>
    BY <1>5 DEF OrderInv
  <1>6. CASE ProcessTimer \/ SetTimer \/ CancelTimer \/ Return \/ UNCHANGED vars
    BY <1>5, <1>6 DEF ProcessTimer, SetTimer, CancelTimer, Return, Call, vars
  <1> QED BY <1>1, <1>2, <1>3, <1>4, <1>6 DEF Next

---------------------------------------------------------------------------
(* The refinement.                                                         *)

\* The packet that reaches its destination is the first of its flow.
LEMMA FirstArrives ==
    ASSUME IInv, OrderInv, NEW e \in packet_map, ~e.trans, First(packet_map, e),
           e.packet.destination = e.link[2], NEW i \in InTransit(Flow(e.packet))
    PROVE  e.packet.id =< i
  <1> DEFINE p == e.packet
             f == Flow(p)
             m == e.link
  <1>1. Sits(packet_map, queue_map, m, 1, e.ticket, p)
    BY DEF Sits, Rides
  <1>2. f \in Flows /\ p.id \in Nat /\ OnTheWay(f, m) /\ f[2] = m[2]
    BY <1>1, SitsLemma DEF OrderInv, Ordered, Flow
  <1>3. Hops[f][f[2]] = Hops[f][m[1]] + 1 /\ Hops[f][m[1]] \in Nat
    <2>1. m[1] \in DOMAIN Hops[f] /\ m[1] # f[2] /\ m[2] = NextHop[<<m[1], f[2]>>]
      BY <1>2 DEF OnTheWay
    <2> QED BY <1>2, <2>1, HopsLemma
  <1>4. Named(packet_map, queue_map, <<f, i>>)
    BY <1>2, TransitLemma
  <1>5. PICK a, s, k, q : Sits(packet_map, queue_map, a, s, k, q) /\ <<f, i>> = Name(q)
    BY <1>4 DEF Named, Sits
  <1>6. Flow(q) = f /\ q.id = i /\ i \in Nat
    <2>1. Flow(q) = f /\ q.id = i
      BY <1>5 DEF Name
    <2> QED BY <1>5, <2>1, SitsLemma
  <1> SUFFICES ASSUME i < p.id PROVE FALSE
    BY <1>2, <1>6
  <1>7. InFront(f, a, s, k, m, 1, e.ticket)
    BY <1>1, <1>5, <1>6 DEF OrderInv, Ordered
  <1>8. ~(a = m /\ s > 1)
    BY <1>5 DEF Sits
  <1>9. ~(a = m /\ s = 1 /\ k < e.ticket)
    <2> SUFFICES ASSUME a = m, s = 1, k < e.ticket PROVE FALSE
      OBVIOUS
    <2>1. PICK d : Rides(packet_map, d) /\ d.link = m /\ d.ticket = k
      BY <1>5 DEF Sits
    <2> QED BY <2>1, FirstOnLink
  <1>10. Hops[f][a[1]] > Hops[f][m[1]]
    BY <1>7, <1>8, <1>9 DEF InFront
  <1>11. a[1] \in DOMAIN Hops[f] /\ a[1] # f[2]
    <2>1. OnTheWay(f, a)
      BY <1>5, <1>6 DEF OrderInv, Ordered
    <2> QED BY <2>1 DEF OnTheWay
  <1>12. Hops[f][a[1]] = Hops[f][f[2]] /\ f[2] \in DOMAIN Hops[f]
    <2>1. Hops[f][a[1]] \in Nat /\ Hops[f][a[1]] =< Hops[f][f[2]] /\ f[2] \in DOMAIN Hops[f]
      BY <1>2, <1>11, HopsLemma
    <2> QED BY <1>3, <1>10, <2>1
  <1> QED BY <1>2, <1>11, <1>12, HopsLemma

Seen(a, f) == {a[f][k] : k \in DOMAIN a[f]}

Gone(D, f) == {d.id : d \in {c \in D : c.flow = f}}

\* enq() drops at most the packet it is given.
LEMMA EnqueueDrops ==
    ASSUME NEW n, NEW p, NEW now, NEW rest, Enqueue(n, p, now, rest)
    PROVE  \/ \A f : Gone(dropped', f) = Gone(dropped, f)
           \/ /\ Gone(dropped', Flow(p)) = Gone(dropped, Flow(p)) \cup {p.id}
              /\ \A f : f # Flow(p) => Gone(dropped', f) = Gone(dropped, f)
  <1> DEFINE d == [link |-> <<n, NextHop[<<n, p.destination>>]>>, flow |-> Flow(p), id |-> p.id]
  <1>1. dropped' = dropped \/ dropped' = dropped \cup {d}
    BY DEF Enqueue
  <1>2. d.flow = Flow(p) /\ d.id = p.id
    OBVIOUS
  <1> HIDE DEF d
  <1> QED BY <1>1, <1>2 DEF Gone

\* What has been seen, by name.
LEMMA SeenIsThere ==
    ASSUME NEW a
    PROVE  \A g \in Flows : \A j : j \in Seen(a, g) <=> There(a, <<g, j>>)
  BY DEF Seen, There

\* Every step of the simulator is a step of the channels, or none.
LEMMA StepChannel ==
    IInv /\ OrderInv /\ Accounted /\ Accounted' /\ [Next]_vars => [Channel!Next]_(Channel!vars)
  <1> SUFFICES ASSUME IInv, OrderInv, Accounted, Accounted', [Next]_vars
               PROVE  [Channel!Next]_(Channel!vars)
    OBVIOUS
  <1> DEFINE T == [f \in Flows |-> InTransit(f)]
             U == [f \in Flows |-> InTransit(f)']
  <1>0. sent \in [Flows -> Nat] /\ arrived \in [Flows -> Seq(Nat)]
    BY DEF IInv, CountsOK
  <1>1. \A f \in Flows : /\ InTransit(f) = (1..sent[f]) \ (Seen(arrived, f) \cup Gone(dropped, f))
                         /\ Seen(arrived, f) \cup Gone(dropped, f) \subseteq 1..sent[f]
    BY DEF Accounted, Seen, Gone
  <1>2. \A f \in Flows : InTransit(f)' = (1..sent'[f]) \ (Seen(arrived', f) \cup Gone(dropped', f))
    BY DEF Accounted, Seen, Gone
  <1>3. T' = U
    OBVIOUS
  <1>4. Channel!vars' = Channel!vars <=> sent' = sent /\ U = T /\ arrived' = arrived
    BY <1>3 DEF Channel!vars
  <1>5. CASE sent' = sent /\ arrived' = arrived /\ \A f \in Flows : Gone(dropped', f) = Gone(dropped, f)
    <2>1. \A f \in Flows : InTransit(f)' = InTransit(f)
      BY <1>1, <1>2, <1>5
    <2>2. U = T
      BY <2>1
    <2> QED BY <1>4, <1>5, <2>2
  <1>6. CASE Deliver
    <2>1. PICK e \in packet_map :
             /\ NextPacket(e) /\ ~e.trans /\ e.packet.destination = e.link[2]
             /\ arrived' = [arrived EXCEPT ![Flow(e.packet)] = Append(@, e.packet.id)]
             /\ UNCHANGED <<sent, dropped>>
      BY <1>6 DEF Deliver
    <2> DEFINE f == Flow(e.packet)
               i == e.packet.id
    <2>2. f \in Flows /\ i \in Nat /\ First(packet_map, e)
      BY <2>1 DEF IInv, MapsOK, EntriesOK, Entries, OnCourse, Packets, NextPacket
    <2>3. i \in InTransit(f)
      BY <2>1 DEF InTransit
    <2>4. \A j \in InTransit(f) : i =< j
      BY <2>1, <2>2, FirstArrives
    <2> HIDE DEF f, i
    <2>5. arrived' = [arrived EXCEPT ![f] = Append(@, i)]
      BY <2>1 DEF f, i
    <2>6. Seen(arrived', f) = Seen(arrived, f) \cup {i} /\ \A g \in Flows \ {f} : Seen(arrived', g) = Seen(arrived, g)
      <3>1. \A x : There(arrived', x) <=> There(arrived, x) \/ x = <<f, i>>
        BY <1>0, <2>2, <2>5, OneArrives
      <3>2. \A g \in Flows : \A j : j \in Seen(arrived', g) <=> j \in Seen(arrived, g) \/ (g = f /\ j = i)
        BY <3>1, SeenIsThere
      <3>3. Seen(arrived', f) = Seen(arrived, f) \cup {i}
        BY <2>2, <3>2
      <3>4. \A g \in Flows \ {f} : Seen(arrived', g) = Seen(arrived, g)
        BY <3>2
      <3> QED BY <3>3, <3>4
    <2>7. InTransit(f)' = InTransit(f) \ {i} /\ \A g \in Flows \ {f} : InTransit(g)' = InTransit(g)
      <3>1. sent' = sent /\ dropped' = dropped
        BY <2>1
      <3>2. ASSUME NEW g \in Flows
            PROVE  /\ InTransit(g) = (1..sent[g]) \ (Seen(arrived, g) \cup Gone(dropped, g))
                   /\ InTransit(g)' = (1..sent[g]) \ (Seen(arrived', g) \cup Gone(dropped, g))
        BY <1>1, <1>2, <3>1
      <3>3. InTransit(f)' = InTransit(f) \ {i}
        <4>1. /\ InTransit(f) = (1..sent[f]) \ (Seen(arrived, f) \cup Gone(dropped, f))
              /\ InTransit(f)' = (1..sent[f]) \ (Seen(arrived', f) \cup Gone(dropped, f))
          BY <2>2, <3>2
        <4>2. Seen(arrived', f) = Seen(arrived, f) \cup {i}
          BY <2>6
        <4> QED BY <4>1, <4>2
      <3>4. ASSUME NEW g \in Flows \ {f} PROVE InTransit(g)' = InTransit(g)
        <4>1. Seen(arrived', g) = Seen(arrived, g)
          BY <2>6
        <4> QED BY <3>2, <4>1
      <3> QED BY <3>3, <3>4
    <2>8. U = [T EXCEPT ![f] = @ \ {i}]
      BY <2>2, <2>7
    <2>9. Channel!Arrive(f)
      BY <1>3, <2>1, <2>2, <2>3, <2>4, <2>5, <2>8 DEF Channel!Arrive
    <2> QED BY <2>2, <2>9 DEF Channel!Next
  <1>7. CASE Forward
    <2>1. PICK e \in packet_map :
             /\ Enqueue(e.link[2], e.packet, e.time, packet_map \ {e})
             /\ UNCHANGED <<sent, arrived>>
      BY <1>7 DEF Forward
    <2> DEFINE f == Flow(e.packet)
               i == e.packet.id
    <2>2. f \in Flows
      BY <2>1 DEF IInv, MapsOK, EntriesOK, OnCourse
    <2>3. \/ \A g : Gone(dropped', g) = Gone(dropped, g)
          \/ Gone(dropped', f) = Gone(dropped, f) \cup {i} /\ \A g : g # f => Gone(dropped', g) = Gone(dropped, g)
      BY <2>1, EnqueueDrops
    <2> HIDE DEF f, i
    <2>4. CASE Gone(dropped', f) = Gone(dropped, f) \cup {i} /\ \A g : g # f => Gone(dropped', g) = Gone(dropped, g)
      <3>1. InTransit(f)' = InTransit(f) \ {i} /\ \A g \in Flows \ {f} : InTransit(g)' = InTransit(g)
        BY <1>1, <1>2, <2>1, <2>2, <2>4
      <3>2. U = [T EXCEPT ![f] = @ \ {i}]
        BY <2>2, <3>1
      <3>3. CASE i \in InTransit(f)
        <4>1. Channel!Lose(f)
          BY <1>3, <2>1, <2>2, <3>2, <3>3 DEF Channel!Lose
        <4> QED BY <2>2, <4>1 DEF Channel!Next
      <3>4. CASE i \notin InTransit(f)
        <4>1. \A g \in Flows : InTransit(g)' = InTransit(g)
          BY <3>1, <3>4
        <4> QED BY <1>4, <2>1, <4>1
      <3> QED BY <3>3, <3>4
    <2> QED BY <1>5, <2>1, <2>3, <2>4
  <1>8. CASE HostSend
    <2>1. PICK f \in Flows, len \in Lengths :
             /\ sent' = [sent EXCEPT ![f] = @ + 1]
             /\ Enqueue(running, [source |-> f[1], destination |-> f[2], id |-> sent[f] + 1,
                                  length |-> len, ECN |-> FALSE], virtual_clock, packet_map)
             /\ arrived' = arrived
      BY <1>8 DEF HostSend, Call
    <2> DEFINE p == [source |-> f[1], destination |-> f[2], id |-> sent[f] + 1, length |-> len, ECN |-> FALSE]
               i == sent[f] + 1
    <2>2. Flow(p) = f /\ p.id = i
      BY FlowsAssumption DEF Flow
    <2>3. Enqueue(running, p, virtual_clock, packet_map)
      BY <2>1
    <2> HIDE DEF p
    <2>4. \/ \A g : Gone(dropped', g) = Gone(dropped, g)
          \/ Gone(dropped', f) = Gone(dropped, f) \cup {i} /\ \A g : g # f => Gone(dropped', g) = Gone(dropped, g)
      BY <2>2, <2>3, EnqueueDrops
    <2>5. 1..sent'[f] = (1..sent[f]) \cup {i} /\ i \notin 1..sent[f] /\ \A g \in Flows \ {f} : sent'[g] = sent[g]
      BY <1>0, <2>1
    <2>6. CASE \A g : Gone(dropped', g) = Gone(dropped, g)
      <3>1. InTransit(f)' = InTransit(f) \cup {i} /\ \A g \in Flows \ {f} : InTransit(g)' = InTransit(g)
        BY <1>1, <1>2, <2>1, <2>5, <2>6
      <3>2. U = [T EXCEPT ![f] = @ \cup {sent[f] + 1}]
        BY <3>1
      <3>3. Channel!Send(f)
        BY <1>3, <2>1, <3>2 DEF Channel!Send
      <3> QED BY <3>3 DEF Channel!Next
    <2>7. CASE Gone(dropped', f) = Gone(dropped, f) \cup {i} /\ \A g : g # f => Gone(dropped', g) = Gone(dropped, g)
      <3>1. \A g \in Flows : InTransit(g)' = InTransit(g)
        <4>1. InTransit(f)' = InTransit(f)
          BY <1>1, <1>2, <2>1, <2>5, <2>7
        <4>2. \A g \in Flows \ {f} : InTransit(g)' = InTransit(g)
          BY <1>1, <1>2, <2>1, <2>5, <2>7
        <4> QED BY <4>1, <4>2
      <3>2. U = T
        BY <3>1
      <3>3. Channel!Refuse(f)
        BY <1>3, <2>1, <3>2 DEF Channel!Refuse
      <3> QED BY <3>3 DEF Channel!Next
    <2> QED BY <2>4, <2>6, <2>7
  <1>9. CASE UNCHANGED <<sent, arrived, dropped>>
    BY <1>5, <1>9
  <1>10. CASE SendDone \/ ProcessTimer \/ SetTimer \/ CancelTimer \/ Return \/ UNCHANGED vars
    BY <1>9, <1>10 DEF SendDone, ProcessTimer, SetTimer, CancelTimer, Return, Call, vars
  <1> QED BY <1>6, <1>7, <1>8, <1>10 DEF Next

\* Before the first event all channels are empty.
LEMMA InitChannel == Init => Channel!Init
  <1> SUFFICES ASSUME Init PROVE Channel!Init
    OBVIOUS
  <1>1. /\ packet_map = {} /\ \A l \in Links : queue_map[l].packet_queue = <<>>
        /\ sent = [f \in Flows |-> 0] /\ arrived = [f \in Flows |-> <<>>]
    BY DEF Init
  <1>2. \A f \in Flows : InTransit(f) = {}
    BY <1>1 DEF InTransit
  <1> QED BY <1>1, <1>2 DEF Channel!Init

\* On every topology, with queues of every size and whatever the hosts do, the
\* simulator gives each flow a channel that loses packets but never reorders
\* or repeats them: LossyChannel, over which Fdtp is specified.
THEOREM FlowsHaveChannels == Spec => ImplementsChannel
  <1>1. Spec => []IInv
    BY Inductive
  <1>2. Spec => []Accounted
    BY EveryPacketAccounted
  <1>3. Spec => []AccountInv
    BY InitAccount, StepAccount, Inductive, PTL DEF Spec
  <1>4. Spec => []OrderInv
    BY <1>1, <1>3, InitOrder, StepOrder, PTL DEF Spec
  <1> QED BY <1>1, <1>2, <1>4, InitChannel, StepChannel, PTL DEF Spec, ImplementsChannel, Channel!Spec
==============================================================================
