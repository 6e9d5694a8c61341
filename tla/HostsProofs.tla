----------------------------- MODULE HostsProofs -----------------------------
(***************************************************************************)
(* What Hosts promises for every set of hosts and every list of flows,     *)
(* whichever of them overlap: every handler keeps the members of its host  *)
(* together.                                                               *)
(***************************************************************************)
EXTENDS Hosts, FiniteSetTheorems, SequenceTheorems, WellFoundedInduction, TLAPS

Members ==
    {"address", "destination", "dest_map", "timers", "sender", "sync_bit", "term_bit", "retrans",
     "retrans_bit", "sent_so_far", "recv_so_far", "last_ack", "ter_seq", "sent_window",
     "recv_window", "packets_in_window", "window_size", "retransmit_pkt", "dup_ack_count",
     "estimate", "last_transmit", "send_time", "in_file", "out_file", "clock", "write", "flag",
     "out", "text", "died"}

Ends == Addresses \cup {"none"}

\* What a packet may carry: nothing, or a chunk of a flow.
Payloads == {NoData} \cup (FlowIds \X Nat)

PacketType ==
    [source : Ends, destination : Ends, id : Nat, ack_id : Nat, sync_bit : 0..3, FIN : 0..1,
     ACK : 0..1, payload : Payloads]

\* p may leave from a to an address of D.
Mine(p, a, D) == p \in PacketType /\ p.destination \in D /\ (p.destination # "none" => p.source = a)

\* The members of a host whose packets go to D, at the time t.
Names(h, D) ==
    /\ DOMAIN h = Members
    /\ h.address \in Addresses /\ h.destination \in D
    /\ h.sync_bit \in 1..3 /\ h.term_bit \in 0..2 /\ h.retrans_bit \in 0..2
    /\ h.sender \in BOOLEAN /\ h.died \in BOOLEAN
    /\ \A x \in DOMAIN h.dest_map : h.dest_map[x] \in From(h.address)

Timing(h, t) ==
    /\ h.retrans \in Nat
    /\ IsABag(h.timers)
    /\ \A x \in DOMAIN h.timers : x \in Nat /\ t =< x
    /\ h.estimate \in [RTT : Nat, RTTVAR : Nat, RTO : Nat]
    /\ h.last_transmit \in 0..t
    /\ \A i \in DOMAIN h.send_time : h.send_time[i] \in 0..t

Receiving(h) ==
    /\ h.recv_so_far \in Nat
    /\ IsFiniteSet(DOMAIN h.recv_window) /\ DOMAIN h.recv_window \subseteq Nat
    /\ \A i \in DOMAIN h.recv_window : h.recv_window[i] \in PacketType

\* With the bounds of TypeOK for packets_in_window.
Sending(h, D) ==
    /\ h.sent_so_far \in Nat
    /\ IsFiniteSet(DOMAIN h.sent_window)
    /\ \A i \in DOMAIN h.sent_window :
          i \in Nat /\ h.sent_window[i].id # 0 /\ Mine(h.sent_window[i], h.address, D)
    /\ Mine(h.retransmit_pkt, h.address, D)
    /\ h.window_size \in Nat \ {0}
    /\ h.in_file \in [flow : Nat, chunk : 0..Chunks, is_open : BOOLEAN]
    /\ h.in_file.is_open => h.in_file.flow \in FlowIds
    /\ h.packets_in_window \in Int /\ h.packets_in_window =< h.in_file.chunk
    /\ Cardinality(DOMAIN h.sent_window) =< h.packets_in_window + (IF h.term_bit = 0 THEN 0 ELSE 1)

Leaving(h, D) ==
    /\ h.out \in [Ends -> Seq(PacketType)]
    /\ \A a \in Addresses : \A j \in DOMAIN h.out[a] : a \in D /\ h.out[a][j].source = h.address

\* A host that waits has a timer, and a packet to send again.
Armed(h) ==
    /\ ~h.died
    /\ h.retrans_bit # 0 => h.retrans \in DOMAIN h.timers
    /\ h.retrans_bit = 2 => /\ h.sync_bit = 3 /\ DOMAIN h.sent_window # {}
                            /\ h.retransmit_pkt # NULL

Idle(h) == h.retrans_bit = 0 => h.retrans = 0

\* Nothing is sent before the connection stands.
Fresh(h) == h.sync_bit = 1 => /\ h.packets_in_window = 0 /\ h.window_size = 1
                              /\ DOMAIN h.sent_window = {}

\* What every operation keeps, and what a whole handler keeps.
Body(h, t, D) == Names(h, D) /\ Timing(h, t) /\ Receiving(h) /\ Sending(h, D) /\ Leaving(h, D)

HostInv(h, t, D) == Body(h, t, D) /\ Armed(h) /\ Idle(h) /\ Fresh(h)

---------------------------------------------------------------------------
(* Sets of numbers, bags and windows.                                      *)

LEMMA Least == ASSUME NEW T \in SUBSET Nat, T # {} PROVE \E n \in T : \A m \in T : n =< m
  <1>1. IsWellFoundedOn(OpToRel(<, Nat), Nat)
    BY ONLY NatLessThanWellFounded, Zenon
  <1>2. PICK n \in T : \A m \in T : ~ (<<m, n>> \in OpToRel(<, Nat))
    BY <1>1, WFMin
  <1>3. \A m \in T : ~ (m < n)
    BY <1>2 DEF OpToRel
  <1> QED BY <1>3

LEMMA BagAdd ==
    ASSUME NEW B, IsABag(B), NEW x
    PROVE  IsABag(B (+) SetToBag({x})) /\ DOMAIN (B (+) SetToBag({x})) = DOMAIN B \cup {x}
  BY DEF IsABag, SetToBag, (+)

LEMMA BagTake ==
    ASSUME NEW B, IsABag(B), NEW x
    PROVE  /\ IsABag(B (-) SetToBag({x}))
           /\ DOMAIN (B (-) SetToBag({x})) \subseteq DOMAIN B
           /\ \A y \in DOMAIN B : y # x => y \in DOMAIN (B (-) SetToBag({x}))
  BY DEF IsABag, SetToBag, (-)

LEMMA InsertLemma ==
    ASSUME NEW w, NEW v, IsFiniteSet(DOMAIN w), IsFiniteSet(DOMAIN v)
    PROVE  /\ DOMAIN Insert(w, v) = DOMAIN w \cup DOMAIN v /\ IsFiniteSet(DOMAIN Insert(w, v))
           /\ Cardinality(DOMAIN Insert(w, v)) =< Cardinality(DOMAIN w) + Cardinality(DOMAIN v)
           /\ \A i \in DOMAIN w : Insert(w, v)[i] = w[i]
           /\ \A i \in DOMAIN v : i \notin DOMAIN w => Insert(w, v)[i] = v[i]
  <1>1. DOMAIN Insert(w, v) = DOMAIN w \cup DOMAIN v
    BY DEF Insert
  <1>2. /\ IsFiniteSet(DOMAIN w \cup DOMAIN v)
        /\ Cardinality(DOMAIN w \cup DOMAIN v)
              = Cardinality(DOMAIN w) + Cardinality(DOMAIN v) - Cardinality(DOMAIN w \cap DOMAIN v)
    BY FS_Union
  <1>3. /\ Cardinality(DOMAIN w) \in Nat /\ Cardinality(DOMAIN v) \in Nat
        /\ Cardinality(DOMAIN w \cap DOMAIN v) \in Nat
    BY FS_CardinalityType, FS_Intersection
  <1> QED BY <1>1, <1>2, <1>3 DEF Insert

\* The oldest packet of a window is one of its packets.
LEMMA OldestLemma ==
    ASSUME NEW w, \A i \in DOMAIN w : i \in Nat
    PROVE  /\ DOMAIN w = {} => Oldest(w) = NULL
           /\ DOMAIN w # {} => \E i \in DOMAIN w : Oldest(w) = w[i]
  <1>1. CASE DOMAIN w = {}
    BY <1>1 DEF Oldest
  <1>2. CASE DOMAIN w # {}
    <2>1. \E i \in DOMAIN w : \A j \in DOMAIN w : i =< j
      BY <1>2, Least
    <2> QED BY <1>2, <2>1 DEF Oldest
  <1> QED BY <1>1, <1>2

---------------------------------------------------------------------------
(* Packets and timers.                                                     *)

\* g is h but for the members of S.
Same(g, h, S) == DOMAIN g = DOMAIN h /\ \A x \in Members \ S : g[x] = h[x]

LEMMA SendSame ==
    ASSUME NEW h, DOMAIN h = Members, NEW p
    PROVE  Same(Send(h, p), h, {"out"})
  BY DEF Send, Same, Members

LEMMA SendBody ==
    ASSUME NEW t, NEW D, NEW h, Body(h, t, D), NEW p, Mine(p, h.address, D)
    PROVE  Body(Send(h, p), t, D)
  <1> DEFINE g == Send(h, p)
  <1>1. Same(g, h, {"out"})
    BY SendSame DEF Body, Names
  <1>2. g.out = [h.out EXCEPT ![p.destination] = Append(@, p)]
    BY DEF Send, Body, Names, Members
  <1> HIDE DEF g
  <1>3. Names(g, D)
    BY <1>1 DEF Body, Names, Same, Members
  <1>4. Timing(g, t)
    BY <1>1 DEF Body, Timing, Same, Members
  <1>5. Receiving(g)
    BY <1>1 DEF Body, Receiving, Same, Members
  <1>6. Sending(g, D)
    BY <1>1 DEF Body, Sending, Same, Members
  <1>7. Leaving(g, D)
    <2>1. p \in PacketType /\ p.destination \in Ends
      BY DEF Mine, PacketType
    <2>2. g.address = h.address
      BY <1>1 DEF Same, Members
    <2>3. g.out \in [Ends -> Seq(PacketType)]
      BY <1>2, <2>1, AppendProperties DEF Body, Leaving
    <2>4. ASSUME NEW a \in Addresses, NEW j \in DOMAIN g.out[a]
          PROVE  a \in D /\ g.out[a][j].source = g.address
      BY <1>2, <2>1, <2>2, AppendProperties, NoneAssumption DEF Body, Leaving, Mine, Ends
    <2> QED BY <2>3, <2>4 DEF Leaving
  <1> QED BY <1>3, <1>4, <1>5, <1>6, <1>7 DEF Body, g

LEMMA SetLemma ==
    ASSUME NEW t \in Nat, NEW D, NEW h, Body(h, t, D), h.clock = t, NEW bit \in 0..2
    PROVE  /\ Body(Set(h, bit), t, D)
           /\ Same(Set(h, bit), h, {"retrans", "retrans_bit", "timers"})
           /\ Set(h, bit).retrans_bit = bit
           /\ Set(h, bit).retrans \in DOMAIN Set(h, bit).timers
  <1> DEFINE g == Set(h, bit)
             n == h.clock + h.estimate.RTO
  <1>1. Same(g, h, {"retrans", "retrans_bit", "timers"})
    BY DEF Set, Same, Members, Body, Names
  <1>2. /\ g.retrans = n /\ g.retrans_bit = bit /\ g.timers = h.timers (+) SetToBag({n})
    BY DEF Set, Body, Names, Members
  <1>3. n \in Nat /\ t =< n
    BY DEF Body, Timing
  <1> HIDE DEF g, n
  <1>4. Names(g, D)
    BY <1>1, <1>2 DEF Body, Names, Same, Members
  <1>5. IsABag(g.timers) /\ DOMAIN g.timers = DOMAIN h.timers \cup {n}
    <2>1. IsABag(h.timers)
      BY DEF Body, Timing
    <2>2. LET b == h.timers (+) SetToBag({n}) IN IsABag(b) /\ DOMAIN b = DOMAIN h.timers \cup {n}
      BY <2>1, BagAdd
    <2> QED BY <1>2, <2>2, Zenon
  <1>6. Timing(g, t)
    BY <1>1, <1>2, <1>3, <1>5 DEF Body, Timing, Same, Members
  <1>7. Receiving(g)
    BY <1>1 DEF Body, Receiving, Same, Members
  <1>8. Sending(g, D)
    BY <1>1 DEF Body, Sending, Same, Members
  <1>9. Leaving(g, D)
    BY <1>1 DEF Body, Leaving, Same, Members
  <1> QED BY <1>1, <1>2, <1>4, <1>5, <1>6, <1>7, <1>8, <1>9 DEF Body, g

LEMMA ResendLemma ==
    ASSUME NEW t, NEW D, NEW h, Body(h, t, D)
    PROVE  /\ Body(Resend(h), t, D)
           /\ Same(Resend(h), h, {"out", "died"})
           /\ h.retransmit_pkt # NULL => Resend(h).died = h.died
  <1> DEFINE p == [h.retransmit_pkt EXCEPT !.ack_id = h.recv_so_far]
             f == Send(h, p)
             g == Resend(h)
  <1>1. Mine(p, h.address, D)
    BY DEF Body, Sending, Receiving, Mine, PacketType
  <1>2. Body(f, t, D) /\ Same(f, h, {"out"})
    BY <1>1, SendBody, SendSame DEF Body, Names
  <1>3. g = [f EXCEPT !.died = @ \/ h.retransmit_pkt = NULL]
    BY DEF Resend
  <1> HIDE DEF p, f, g
  <1>4. Same(g, f, {"died"}) /\ g.died = (f.died \/ h.retransmit_pkt = NULL)
    BY <1>2, <1>3 DEF Same, Members, Body, Names
  <1>5. Names(g, D) /\ Timing(g, t) /\ Receiving(g)
    BY <1>2, <1>4 DEF Body, Names, Timing, Receiving, Same, Members
  <1>6. Sending(g, D)
    BY <1>2, <1>4 DEF Body, Sending, Same, Members
  <1>7. Leaving(g, D)
    BY <1>2, <1>4 DEF Body, Leaving, Same, Members
  <1>8. Same(g, h, {"out", "died"})
    BY <1>2, <1>4 DEF Same, Body, Names, Members
  <1>9. h.retransmit_pkt # NULL => g.died = h.died
    BY <1>2, <1>4 DEF Same, Body, Names, Members
  <1> QED BY <1>5, <1>6, <1>7, <1>8, <1>9 DEF Body, g

\* Cancelling leaves every other timer, and dies only where there is none.
LEMMA CancelLemma ==
    ASSUME NEW t, NEW D, NEW h, Body(h, t, D)
    PROVE  /\ Body(Cancel(h), t, D)
           /\ Same(Cancel(h), h, {"timers", "died"})
           /\ h.retrans \in DOMAIN h.timers => Cancel(h).died = h.died
  <1> DEFINE g == Cancel(h)
  <1>1. Same(g, h, {"timers", "died"})
    BY DEF Cancel, Same, Members, Body, Names
  <1>2. g.timers = h.timers (-) SetToBag({h.retrans}) /\ g.died = (h.died \/ ~BagIn(h.retrans, h.timers))
    BY DEF Cancel, Body, Names, Members
  <1> HIDE DEF g
  <1>3. IsABag(g.timers) /\ DOMAIN g.timers \subseteq DOMAIN h.timers
    <2>1. IsABag(h.timers)
      BY DEF Body, Timing
    <2>2. LET b == h.timers (-) SetToBag({h.retrans}) IN IsABag(b) /\ DOMAIN b \subseteq DOMAIN h.timers
      BY <2>1, BagTake
    <2> QED BY <1>2, <2>2, Zenon
  <1>4. Names(g, D)
    BY <1>1, <1>2 DEF Body, Names, Same, Members
  <1>5. Timing(g, t)
    BY <1>1, <1>3 DEF Body, Timing, Same, Members
  <1>6. Receiving(g) /\ Leaving(g, D)
    BY <1>1 DEF Body, Receiving, Leaving, Same, Members
  <1>7. Sending(g, D)
    BY <1>1 DEF Body, Sending, Same, Members
  <1>8. h.retrans \in DOMAIN h.timers => g.died = h.died
    BY <1>2 DEF BagIn, BagToSet, Body, Names
  <1> QED BY <1>1, <1>4, <1>5, <1>6, <1>7, <1>8 DEF Body, g

\* Every packet that a host builds is one that it may send.
LEMMA PacketMine ==
    ASSUME NEW t, NEW D, D \subseteq Ends, NEW h, Body(h, t, D), NEW i \in Nat, NEW fin \in 0..1,
           NEW ack \in 0..1, NEW data \in Payloads
    PROVE  Mine(Packet(h, i, fin, ack, data), h.address, D)
  <1> DEFINE p == Packet(h, i, fin, ack, data)
  <1>1. p \in PacketType
    BY DEF Packet, PacketType, Body, Names, Receiving, Ends
  <1>2. p.destination = h.destination /\ p.source = h.address
    BY DEF Packet
  <1> QED BY <1>1, <1>2 DEF Mine, Body, Names

LEMMA ControlMine ==
    ASSUME NEW t, NEW D, D \subseteq Ends, NEW h, Body(h, t, D)
    PROVE  Mine(Control(h), h.address, D)
  <1>1. h.sent_so_far \in Nat /\ NoData \in Payloads
    BY DEF Body, Sending, Payloads
  <1> DEFINE c == IF h.term_bit = 2 /\ ~h.sender THEN 1 ELSE 0
  <1>2. Control(h) = Packet(h, h.sent_so_far, c, c, NoData) /\ c \in 0..1
    BY DEF Control
  <1> HIDE DEF c
  <1>3. Mine(Packet(h, h.sent_so_far, c, c, NoData), h.address, D)
    BY <1>1, <1>2, PacketMine
  <1> QED BY <1>2, <1>3

\* As Armed, when the timer that the host waits for may just have expired.
Waits(h, t) ==
    /\ ~h.died
    /\ h.retrans_bit # 0 => h.retrans \in DOMAIN h.timers \/ h.retrans = t
    /\ h.retrans_bit = 2 => /\ h.sync_bit = 3 /\ DOMAIN h.sent_window # {}
                            /\ h.retransmit_pkt # NULL

\* A handler of a timer arms the host again.
LEMMA HandleTimerLemma ==
    ASSUME NEW t \in Nat, NEW D, D \subseteq Ends, NEW h, Body(h, t, D), h.clock = t, Waits(h, t)
    PROVE  LET g == HandleTimer(h)
           IN  /\ Body(g, t, D) /\ Armed(g)
               /\ Same(g, h, {"retrans", "timers", "sent_so_far", "window_size", "out"})
               /\ h.retrans_bit = 0 => g.retrans = h.retrans /\ g.timers = h.timers
               /\ ~(h.sync_bit = 3 /\ h.retrans_bit = 2) => g.window_size = h.window_size
  <1> DEFINE S == {"retrans", "timers", "sent_so_far", "window_size", "out"}
  <1>1. CASE h.sync_bit = 3 /\ h.retrans_bit = 2
    <2>1. CASE h.retrans # h.clock
      <3>1. HandleTimer(h) = h
        BY <1>1, <2>1 DEF HandleTimer
      <3>2. Armed(h)
        BY <1>1, <2>1 DEF Waits, Armed
      <3> QED BY <1>1, <3>1, <3>2 DEF Same
    <2>2. CASE h.retrans = h.clock
      <3> DEFINE f == Set(h, 2)
                 e == Resend(f)
                 g == [e EXCEPT !.window_size = 1]
      <3>1. /\ Body(f, t, D) /\ Same(f, h, {"retrans", "retrans_bit", "timers"})
            /\ f.retrans_bit = 2 /\ f.retrans \in DOMAIN f.timers
        BY SetLemma
      <3>2. /\ Body(e, t, D) /\ Same(e, f, {"out", "died"})
            /\ f.retransmit_pkt # NULL => e.died = f.died
        BY <3>1, ResendLemma
      <3>3. HandleTimer(h) = g
        BY <1>1, <2>2 DEF HandleTimer
      <3> HIDE DEF f, e
      <3>4. Same(g, e, {"window_size"}) /\ g.window_size = 1
        BY <3>2 DEF Same, Body, Names, Members
      <3> HIDE DEF g
      <3>5. Names(g, D)
        BY <3>2, <3>4 DEF Body, Names, Same, Members
      <3>6. Timing(g, t)
        BY <3>2, <3>4 DEF Body, Timing, Same, Members
      <3>7. Receiving(g) /\ Leaving(g, D)
        BY <3>2, <3>4 DEF Body, Receiving, Leaving, Same, Members
      <3>8. Sending(g, D)
        BY <3>2, <3>4 DEF Body, Sending, Same, Members
      <3>9. Same(g, h, S)
        <4>1. DOMAIN g = Members /\ DOMAIN f = Members /\ DOMAIN e = Members /\ DOMAIN h = Members
          BY <3>1, <3>2, <3>5 DEF Body, Names
        <4>2. g.retrans_bit = h.retrans_bit
          BY <1>1, <3>1, <3>2, <3>4, <4>1 DEF Same, Members
        <4>3. g.died = h.died
          BY <3>1, <3>2, <3>4, <4>1, <1>1 DEF Same, Members, Waits
        <4> QED BY <3>1, <3>2, <3>4, <4>1, <4>2, <4>3 DEF Same, Members
      <3>10. Armed(g)
        <4>1. DOMAIN g = Members /\ DOMAIN f = Members /\ DOMAIN e = Members /\ DOMAIN h = Members
          BY <3>1, <3>2, <3>5 DEF Body, Names
        <4>2. g.retrans \in DOMAIN g.timers
          BY <3>1, <3>2, <3>4, <4>1 DEF Same, Members
        <4> QED BY <1>1, <3>9, <4>1, <4>2 DEF Same, Members, Waits, Armed
      <3> QED BY <1>1, <3>3, <3>5, <3>6, <3>7, <3>8, <3>9, <3>10 DEF Body
    <2> QED BY <2>1, <2>2
  <1>2. CASE ~(h.sync_bit = 3 /\ h.retrans_bit = 2)
    <2> DEFINE again == h.retrans = h.clock /\ h.retrans_bit = 1
               f == IF again THEN Set(h, 1) ELSE [h EXCEPT !.sent_so_far = @ + 1]
               g == Send(f, Control(f))
    <2>1. HandleTimer(h) = g
      BY <1>2 DEF HandleTimer
    <2>2. Body(f, t, D) /\ Armed(f) /\ Same(f, h, S \ {"out"})
          /\ (h.retrans_bit = 0 => f.retrans = h.retrans /\ f.timers = h.timers)
          /\ f.window_size = h.window_size
      <3>1. CASE again
        <4>1. /\ Body(f, t, D) /\ Same(f, h, {"retrans", "retrans_bit", "timers"})
              /\ f.retrans_bit = 1 /\ f.retrans \in DOMAIN f.timers
          BY <3>1, SetLemma
        <4>2. DOMAIN h = Members /\ DOMAIN f = Members
          BY <4>1 DEF Body, Names
        <4> HIDE DEF f
        <4>3. Same(f, h, S \ {"out"})
          BY <3>1, <4>1, <4>2 DEF Same, Members
        <4> QED BY <3>1, <4>1, <4>2, <4>3 DEF Same, Members, Waits, Armed
      <3>2. CASE ~again
        <4>1. Same(f, h, {"sent_so_far"}) /\ f.sent_so_far = h.sent_so_far + 1
          BY <3>2 DEF Same, Body, Names, Members
        <4> HIDE DEF f
        <4>2. DOMAIN h = Members /\ DOMAIN f = Members
          BY <4>1 DEF Body, Names, Same
        <4>3. Names(f, D)
          BY <4>1 DEF Body, Names, Same, Members
        <4>4. Timing(f, t)
          BY <4>1 DEF Body, Timing, Same, Members
        <4>5. Receiving(f) /\ Leaving(f, D)
          BY <4>1 DEF Body, Receiving, Leaving, Same, Members
        <4>6. Sending(f, D)
          BY <4>1 DEF Body, Sending, Same, Members
        <4>7. Armed(f)
          BY <1>2, <3>2, <4>1, <4>2 DEF Same, Members, Waits, Armed, Body, Names
        <4> QED BY <4>1, <4>2, <4>3, <4>4, <4>5, <4>6, <4>7 DEF Body, Same, Members
      <3> QED BY <3>1, <3>2
    <2> HIDE DEF f
    <2>3. Body(g, t, D) /\ Same(g, f, {"out"})
      BY <2>2, SendBody, SendSame, ControlMine DEF Body, Names
    <2> HIDE DEF g
    <2>4. DOMAIN h = Members /\ DOMAIN f = Members /\ DOMAIN g = Members
      BY <2>2, <2>3 DEF Body, Names
    <2>5. Armed(g)
      BY <2>2, <2>3, <2>4 DEF Same, Members, Armed
    <2>6. Same(g, h, S)
      BY <2>2, <2>3, <2>4 DEF Same, Members
    <2>7. /\ h.retrans_bit = 0 => g.retrans = h.retrans /\ g.timers = h.timers
          /\ g.window_size = h.window_size
      BY <2>2, <2>3, <2>4 DEF Same, Members
    <2> QED BY <2>1, <2>3, <2>5, <2>6, <2>7
  <1> QED BY <1>1, <1>2

---------------------------------------------------------------------------
(* The sending side.                                                       *)

LEMMA RoomLemma ==
    ASSUME NEW t, NEW D, NEW h, Body(h, t, D)
    PROVE  /\ Room(h) \in Nat /\ h.in_file.chunk + Room(h) =< Chunks
           /\ (h.in_file.is_open /\ h.packets_in_window < h.window_size /\ Room(h) = 0)
                 => h.in_file.chunk = Chunks
  BY ChunksAssumption DEF Room, Body, Sending

LEMMA BurstLemma ==
    ASSUME NEW t \in Nat, NEW D, D \subseteq Ends, NEW h, Body(h, t, D), h.clock = t
    PROVE  LET g == Burst(h)
           IN  /\ Body(g, t, D)
               /\ Same(g, h, {"in_file", "sent_so_far", "packets_in_window", "sent_window",
                              "send_time", "out"})
               /\ DOMAIN h.sent_window \subseteq DOMAIN g.sent_window
               /\ g.in_file.flow = h.in_file.flow
               /\ h.packets_in_window < h.window_size /\ DOMAIN g.sent_window = {}
                     => ~g.in_file.is_open /\ g.packets_in_window < g.window_size
  <1> DEFINE g == Burst(h)
             n == Room(h)
             ids == h.sent_so_far+1 .. h.sent_so_far+n
             packet(j) == Packet(h, h.sent_so_far + j, 0, 0, <<h.in_file.flow, h.in_file.chunk + j>>)
             new == [i \in ids |-> packet(i - h.sent_so_far)]
             sent == [j \in 1..n |-> packet(j)]
             S == {"in_file", "sent_so_far", "packets_in_window", "sent_window", "send_time", "out"}
  <1>1. n \in Nat /\ h.in_file.chunk + n =< Chunks
    BY RoomLemma
  <1>2. /\ h.sent_so_far \in Nat /\ h.destination \in Ends /\ h.address \in Addresses
        /\ h.out \in [Ends -> Seq(PacketType)]
        /\ h.in_file \in [flow : Nat, chunk : 0..Chunks, is_open : BOOLEAN]
        /\ h.packets_in_window \in Int /\ DOMAIN h = Members
    BY DEF Body, Names, Sending, Leaving
  <1>3. Same(g, h, S)
    BY <1>2 DEF Burst, Same, Members
  <1>4. /\ g.in_file = [flow |-> h.in_file.flow, chunk |-> h.in_file.chunk + n,
                         is_open |-> h.in_file.is_open /\ h.in_file.chunk + n < Chunks]
        /\ g.sent_so_far = h.sent_so_far + n
        /\ g.packets_in_window = h.packets_in_window + n
    BY <1>2 DEF Burst, Members
  <1>5. /\ g.sent_window = Insert(h.sent_window, new)
        /\ g.send_time = Insert(h.send_time, [i \in ids |-> h.clock])
    BY <1>2 DEF Burst, Members
  <1>6. g.out = [h.out EXCEPT ![h.destination] = @ \o sent]
    BY <1>2 DEF Burst, Members
  <1>7. ASSUME NEW j \in 1..n PROVE Mine(packet(j), h.address, D) /\ packet(j).id = h.sent_so_far + j
    <2> DEFINE i == h.sent_so_far + j
               no == 0
               data == <<h.in_file.flow, h.in_file.chunk + j>>
    <2>0. h.in_file.flow \in FlowIds
      <3>1. h.in_file.is_open
        BY DEF Room
      <3> QED BY <3>1 DEF Body, Sending
    <2>1. data \in Payloads /\ i \in Nat /\ no \in 0..1
      BY <1>1, <1>2, <2>0 DEF Payloads
    <2>2. packet(j) = Packet(h, i, no, no, data)
      OBVIOUS
    <2>3. packet(j).id = h.sent_so_far + j
      BY DEF Packet
    <2> HIDE DEF i, no, data, packet, g, n, sent, new
    <2>4. Mine(Packet(h, i, no, no, data), h.address, D)
      BY <2>1, PacketMine
    <2> QED BY <2>2, <2>3, <2>4
  <1>8. ASSUME NEW i \in ids PROVE Mine(new[i], h.address, D) /\ new[i].id = i
    <2>1. i - h.sent_so_far \in 1..n
      <3> DEFINE s == h.sent_so_far
      <3>1. n \in Nat /\ s \in Nat /\ i \in s+1 .. s+n
        BY <1>1, <1>2
      <3> HIDE DEF n, s
      <3>2. i - s \in 1..n
        BY ONLY <3>1
      <3> QED BY ONLY <3>2 DEF s
    <2> HIDE DEF packet
    <2>3. new[i] = packet(i - h.sent_so_far)
      OBVIOUS
    <2> HIDE DEF new
    <2>2. h.sent_so_far + (i - h.sent_so_far) = i
      BY <1>2
    <2> QED BY <1>7, <2>1, <2>2, <2>3
  <1>9. sent \in Seq(PacketType) /\ \A j \in 1..n : sent[j].destination = h.destination
                                                    /\ sent[j].source = h.address
    BY <1>1, <1>7 DEF Packet, Mine
  <1>10. DOMAIN new = ids /\ IsFiniteSet(ids) /\ Cardinality(ids) = n
    <2>1. h.sent_so_far + 1 \in Int /\ h.sent_so_far + n \in Int
      BY <1>1, <1>2
    <2>2. /\ IsFiniteSet(ids)
          /\ Cardinality(ids) = IF h.sent_so_far + 1 > h.sent_so_far + n THEN 0
                                ELSE (h.sent_so_far + n) - (h.sent_so_far + 1) + 1
      BY <2>1, FS_Interval
    <2>3. DOMAIN new = ids
      OBVIOUS
    <2> QED BY <1>1, <1>2, <2>2, <2>3
  <1>10a. Len(sent) = n
    BY <1>1
  <1> HIDE DEF g, new, packet, sent, n
  <1>11. Names(g, D)
    BY <1>3 DEF Body, Names, Same, Members
  <1>12. Timing(g, t)
    <2>1. ASSUME NEW i \in DOMAIN g.send_time PROVE g.send_time[i] \in 0..t
      BY <1>5 DEF Insert, Body, Timing
    <2> QED BY <1>3, <2>1 DEF Body, Timing, Same, Members
  <1>13. Receiving(g)
    BY <1>3 DEF Body, Receiving, Same, Members
  <1>14. /\ DOMAIN g.sent_window = DOMAIN h.sent_window \cup ids /\ IsFiniteSet(DOMAIN g.sent_window)
         /\ Cardinality(DOMAIN g.sent_window) =< Cardinality(DOMAIN h.sent_window) + n
         /\ \A i \in DOMAIN h.sent_window : g.sent_window[i] = h.sent_window[i]
         /\ \A i \in ids : i \notin DOMAIN h.sent_window => g.sent_window[i] = new[i]
    <2> DEFINE w == h.sent_window
    <2>1. IsFiniteSet(DOMAIN w) /\ IsFiniteSet(DOMAIN new) /\ g.sent_window = Insert(w, new)
      BY <1>5, <1>10 DEF Body, Sending
    <2> HIDE DEF w
    <2>2. LET v == Insert(w, new)
          IN  /\ DOMAIN v = DOMAIN w \cup DOMAIN new /\ IsFiniteSet(DOMAIN v)
              /\ Cardinality(DOMAIN v) =< Cardinality(DOMAIN w) + Cardinality(DOMAIN new)
              /\ \A i \in DOMAIN w : v[i] = w[i]
              /\ \A i \in DOMAIN new : i \notin DOMAIN w => v[i] = new[i]
      BY <2>1, InsertLemma
    <2> HIDE DEF ids
    <2> QED BY <1>10, <2>1, <2>2 DEF w
  <1>15. Sending(g, D)
    <2>1. ASSUME NEW i \in DOMAIN g.sent_window
          PROVE  i \in Nat /\ g.sent_window[i].id # 0 /\ Mine(g.sent_window[i], g.address, D)
      <3>1. g.address = h.address
        BY <1>3 DEF Same, Members
      <3>2. CASE i \in DOMAIN h.sent_window
        BY <1>14, <3>1, <3>2 DEF Body, Sending
      <3>3. CASE i \in ids /\ i \notin DOMAIN h.sent_window
        BY <1>1, <1>2, <1>8, <1>14, <3>1, <3>3
      <3> QED BY <1>14, <3>2, <3>3
    <2>2. Mine(g.retransmit_pkt, g.address, D) /\ g.window_size \in Nat \ {0}
      BY <1>3 DEF Body, Sending, Same, Members
    <2>3. /\ g.in_file \in [flow : Nat, chunk : 0..Chunks, is_open : BOOLEAN]
          /\ g.in_file.chunk = h.in_file.chunk + n
      BY <1>1, <1>2, <1>4, ChunksAssumption
    <2>6. g.in_file.is_open => g.in_file.flow \in FlowIds
      BY <1>4 DEF Body, Sending
    <2>4. Cardinality(DOMAIN g.sent_window) \in Nat /\ Cardinality(DOMAIN h.sent_window) \in Nat
      BY <1>14, FS_CardinalityType DEF Body, Sending
    <2>5. /\ Cardinality(DOMAIN g.sent_window) =< g.packets_in_window + (IF g.term_bit = 0 THEN 0 ELSE 1)
          /\ g.packets_in_window \in Int /\ g.packets_in_window =< g.in_file.chunk
      <3>1. g.term_bit = h.term_bit
        BY <1>3 DEF Same, Members
      <3> DEFINE old == Cardinality(DOMAIN h.sent_window)
                 now_ == Cardinality(DOMAIN g.sent_window)
                 fin == IF h.term_bit = 0 THEN 0 ELSE 1
      <3>2. old \in Nat /\ now_ \in Nat /\ now_ =< old + n
        BY <1>14, <2>4
      <3>3. old =< h.packets_in_window + fin /\ h.packets_in_window =< h.in_file.chunk
        BY DEF Body, Sending
      <3>4. fin \in {0, 1} /\ fin = IF g.term_bit = 0 THEN 0 ELSE 1
        BY <3>1
      <3>5. h.in_file.chunk \in Nat
        BY <1>2, ChunksAssumption
      <3>6. g.packets_in_window = h.packets_in_window + n /\ g.in_file.chunk = h.in_file.chunk + n
        BY <1>4
      <3> HIDE DEF old, now_, fin, n, ids
      <3>7. now_ =< g.packets_in_window + fin
        BY <1>1, <1>2, <3>2, <3>3, <3>4, <3>6
      <3>8. g.packets_in_window \in Int /\ g.packets_in_window =< g.in_file.chunk
        BY <1>1, <1>2, <3>3, <3>5, <3>6
      <3> QED BY <3>4, <3>7, <3>8 DEF now_
    <2> QED BY <1>1, <1>2, <1>4, <1>14, <2>1, <2>2, <2>3, <2>5, <2>6 DEF Sending
  <1>16. Leaving(g, D)
    <2>1. g.address = h.address
      BY <1>3 DEF Same, Members
    <2>2. h.out[h.destination] \o sent \in Seq(PacketType)
      BY <1>2, <1>9, ConcatProperties
    <2>3. ASSUME NEW a \in Addresses, NEW j \in DOMAIN g.out[a]
          PROVE  a \in D /\ g.out[a][j].source = g.address
      <3>1. CASE a # h.destination
        BY <1>2, <1>6, <2>1, <3>1 DEF Body, Leaving, Ends
      <3>2. CASE a = h.destination
        <4> DEFINE old == h.out[a]
        <4>1. g.out[a] = old \o sent /\ old \in Seq(PacketType)
          BY <1>2, <1>6, <3>2
        <4>2. \A k \in DOMAIN old : old[k].source = h.address
          BY DEF Body, Leaving
        <4>3. a \in D
          BY <3>2 DEF Body, Names
        <4> HIDE DEF old
        <4>4. /\ DOMAIN g.out[a] = 1..(Len(old) + Len(sent))
              /\ \A k \in 1..(Len(old) + Len(sent)) :
                    (old \o sent)[k] = IF k =< Len(old) THEN old[k] ELSE sent[k - Len(old)]
          BY <1>9, <4>1, ConcatProperties
        <4>5. CASE j =< Len(old)
          BY <2>1, <4>1, <4>2, <4>3, <4>4, <4>5
        <4>6. CASE ~(j =< Len(old))
          BY <1>9, <1>10a, <2>1, <4>1, <4>3, <4>4, <4>6
        <4> QED BY <4>5, <4>6
      <3> QED BY <3>1, <3>2
    <2> QED BY <1>2, <1>6, <2>2, <2>3 DEF Leaving
  <1>17. g.in_file.flow = h.in_file.flow
    BY <1>2, <1>4
  <1>18. h.packets_in_window < h.window_size /\ DOMAIN g.sent_window = {}
            => ~g.in_file.is_open /\ g.packets_in_window < g.window_size
    <2>1. SUFFICES ASSUME h.packets_in_window < h.window_size, DOMAIN g.sent_window = {}
                   PROVE  ~g.in_file.is_open /\ g.packets_in_window < g.window_size
      OBVIOUS
    <2>2. n = 0
      <3>1. ids = {}
        BY <1>14, <2>1
      <3>2. n # 0 => h.sent_so_far + 1 \in ids
        BY <1>1, <1>2
      <3> QED BY <3>1, <3>2
    <2>3. g.packets_in_window < g.window_size
      BY <1>2, <1>3, <1>4, <2>1, <2>2 DEF Same, Members
    <2>4. h.in_file.is_open => h.in_file.chunk = Chunks
      BY <2>1, <2>2, RoomLemma DEF n
    <2>5. ~g.in_file.is_open
      <3>1. g.in_file.is_open = (h.in_file.is_open /\ h.in_file.chunk + n < Chunks)
        BY <1>4
      <3>2. h.in_file.chunk \in Nat
        BY <1>2
      <3>3. h.in_file.is_open /\ h.in_file.chunk + n < Chunks => FALSE
        BY <2>2, <2>4, <3>2, ChunksAssumption
      <3> QED BY <3>1, <3>3
    <2> QED BY <2>3, <2>5
  <1> QED BY <1>3, <1>11, <1>12, <1>13, <1>14, <1>15, <1>16, <1>17, <1>18 DEF Body, g

LEMMA TerminateLemma ==
    ASSUME NEW t \in Nat, NEW D, D \subseteq Ends, NEW h, Body(h, t, D), h.term_bit = 0
    PROVE  LET g == Terminate(h)
           IN  /\ Body(g, t, D)
               /\ Same(g, h, {"out", "term_bit", "sent_so_far", "sent_window"})
               /\ DOMAIN g.sent_window # {} /\ DOMAIN h.sent_window \subseteq DOMAIN g.sent_window
  <1> DEFINE i == h.sent_so_far + 1
             fin == Packet(h, i, 1, 0, NoData)
             new == [k \in {fin.id} |-> fin]
             f == Send(h, fin)
             g == Terminate(h)
  <1>1. i \in Nat \ {0} /\ h.sent_so_far \in Nat
    BY DEF Body, Sending
  <1>2. fin.id = i
    BY DEF Packet
  <1>3. Mine(fin, h.address, D)
    <2> DEFINE one == 1
               zero == 0
    <2>1. one \in 0..1 /\ zero \in 0..1 /\ NoData \in Payloads /\ i \in Nat
      BY <1>1 DEF Payloads
    <2>2. fin = Packet(h, i, one, zero, NoData)
      OBVIOUS
    <2> HIDE DEF i, one, zero, fin
    <2>3. Mine(Packet(h, i, one, zero, NoData), h.address, D)
      BY <2>1, PacketMine
    <2> QED BY <2>2, <2>3
  <1>4. DOMAIN new = {i} /\ new[i] = fin /\ IsFiniteSet({i}) /\ Cardinality({i}) = 1
    BY <1>2, FS_Singleton
  <1>5. Body(f, t, D) /\ Same(f, h, {"out"})
    BY <1>3, SendBody, SendSame DEF Body, Names
  <1>6. g = [f EXCEPT !.term_bit = 1, !.sent_so_far = @ + 1, !.sent_window = Insert(@, new)]
    BY DEF Terminate
  <1> HIDE DEF i, fin, new, f, g
  <1>7. /\ Same(g, f, {"term_bit", "sent_so_far", "sent_window"})
        /\ g.term_bit = 1 /\ g.sent_so_far = f.sent_so_far + 1
        /\ g.sent_window = Insert(f.sent_window, new)
    BY <1>5, <1>6 DEF Same, Body, Names, Members
  <1>8. /\ DOMAIN g = Members /\ DOMAIN f = Members /\ DOMAIN h = Members
        /\ g.address = h.address /\ f.address = h.address
        /\ f.sent_window = h.sent_window /\ f.sent_so_far = h.sent_so_far
        /\ f.packets_in_window = h.packets_in_window /\ f.in_file = h.in_file
        /\ g.packets_in_window = h.packets_in_window /\ g.in_file = h.in_file
    BY <1>5, <1>7 DEF Same, Body, Names, Members
  <1>9. LET w == h.sent_window IN
        /\ DOMAIN g.sent_window = DOMAIN w \cup {i} /\ IsFiniteSet(DOMAIN g.sent_window)
        /\ Cardinality(DOMAIN g.sent_window) =< Cardinality(DOMAIN w) + 1
        /\ \A k \in DOMAIN w : g.sent_window[k] = w[k]
        /\ i \notin DOMAIN w => g.sent_window[i] = fin
    <2> DEFINE w == h.sent_window
    <2>1. IsFiniteSet(DOMAIN w) /\ IsFiniteSet(DOMAIN new) /\ g.sent_window = Insert(w, new)
      BY <1>4, <1>7, <1>8 DEF Body, Sending
    <2> HIDE DEF w
    <2>2. LET v == Insert(w, new)
          IN  /\ DOMAIN v = DOMAIN w \cup DOMAIN new /\ IsFiniteSet(DOMAIN v)
              /\ Cardinality(DOMAIN v) =< Cardinality(DOMAIN w) + Cardinality(DOMAIN new)
              /\ \A k \in DOMAIN w : v[k] = w[k]
              /\ \A k \in DOMAIN new : k \notin DOMAIN w => v[k] = new[k]
      BY <2>1, InsertLemma
    <2> QED BY <1>4, <2>1, <2>2 DEF w
  <1>10. Names(g, D)
    BY <1>5, <1>7 DEF Body, Names, Same, Members
  <1>11. Timing(g, t)
    BY <1>5, <1>7 DEF Body, Timing, Same, Members
  <1>12. Receiving(g) /\ Leaving(g, D)
    BY <1>5, <1>7 DEF Body, Receiving, Leaving, Same, Members
  <1>13. Sending(g, D)
    <2>1. ASSUME NEW k \in DOMAIN g.sent_window
          PROVE  k \in Nat /\ g.sent_window[k].id # 0 /\ Mine(g.sent_window[k], g.address, D)
      BY <1>1, <1>2, <1>3, <1>8, <1>9 DEF Body, Sending
    <2>2. Mine(g.retransmit_pkt, g.address, D) /\ g.window_size \in Nat \ {0}
      BY <1>5, <1>7 DEF Body, Sending, Same, Members
    <2>3. Cardinality(DOMAIN g.sent_window) \in Nat /\ Cardinality(DOMAIN h.sent_window) \in Nat
      BY <1>9, FS_CardinalityType DEF Body, Sending
    <2>4. Cardinality(DOMAIN g.sent_window) =< g.packets_in_window + (IF g.term_bit = 0 THEN 0 ELSE 1)
      BY <1>7, <1>8, <1>9, <2>3 DEF Body, Sending
    <2> QED BY <1>1, <1>7, <1>8, <1>9, <2>1, <2>2, <2>4 DEF Body, Sending
  <1>14. Same(g, h, {"out", "term_bit", "sent_so_far", "sent_window"})
    BY <1>5, <1>7, <1>8 DEF Same, Members
  <1> QED BY <1>9, <1>10, <1>11, <1>12, <1>13, <1>14 DEF Body, g

\* The oldest packet that a host has sent is one that it may send again.
LEMMA OldestMine ==
    ASSUME NEW t, NEW D, "none" \in D, NEW h, Body(h, t, D)
    PROVE  /\ Mine(Oldest(h.sent_window), h.address, D)
           /\ Oldest(h.sent_window) = NULL <=> DOMAIN h.sent_window = {}
  <1> DEFINE w == h.sent_window
  <1>1. \A i \in DOMAIN w : i \in Nat /\ w[i].id # 0 /\ Mine(w[i], h.address, D)
    BY DEF Body, Sending
  <1>2. /\ DOMAIN w = {} => Oldest(w) = NULL
        /\ DOMAIN w # {} => \E i \in DOMAIN w : Oldest(w) = w[i]
    <2> HIDE DEF w
    <2> QED BY <1>1, OldestLemma
  <1>3. NULL.id = 0
    BY DEF NULL
  <1>4. Mine(NULL, h.address, D)
    BY DEF NULL, Mine, PacketType, Ends, Payloads
  <1>5. CASE DOMAIN w = {}
    BY <1>2, <1>4, <1>5
  <1>6. CASE DOMAIN w # {}
    BY <1>1, <1>2, <1>3, <1>6
  <1> QED BY <1>5, <1>6

\* What sendFile() may change.
FileMembers == {"in_file", "sent_so_far", "packets_in_window", "sent_window", "send_time", "out",
                "term_bit", "retransmit_pkt", "retrans", "retrans_bit", "timers", "last_transmit"}

\* A host that has nothing to wait for after sendFile() had sent something before.
LEMMA SendFileLemma ==
    ASSUME NEW t \in Nat, NEW D, D \subseteq Ends, "none" \in D, NEW h, Body(h, t, D), h.clock = t,
           Armed(h), h.sync_bit = 3,
           Idle(h) \/ (h.term_bit = 0 /\ h.packets_in_window < h.window_size)
    PROVE  LET g == SendFile(h)
           IN  /\ Body(g, t, D) /\ Armed(g) /\ Idle(g)
               /\ Same(g, h, FileMembers) /\ g.in_file.flow = h.in_file.flow
  <1> DEFINE f == Burst(h)
             full == f.in_file.is_open \/ f.packets_in_window >= f.window_size
             s == IF ~full /\ f.term_bit = 0 THEN Terminate(f) ELSE f
             g == [s EXCEPT !.retransmit_pkt = Oldest(s.sent_window)]
             waits == g.retrans_bit = 0 /\ g.retransmit_pkt # NULL
             r == [Set(g, 2) EXCEPT !.last_transmit = h.clock]
             S == {"in_file", "sent_so_far", "packets_in_window", "sent_window", "send_time", "out"}
  <1>1. SendFile(h) = IF waits THEN r ELSE g
    BY DEF SendFile
  <1>2. /\ Body(f, t, D) /\ Same(f, h, S)
        /\ DOMAIN h.sent_window \subseteq DOMAIN f.sent_window
        /\ f.in_file.flow = h.in_file.flow
        /\ h.packets_in_window < h.window_size /\ DOMAIN f.sent_window = {}
              => ~f.in_file.is_open /\ f.packets_in_window < f.window_size
    BY BurstLemma
  <1> HIDE DEF f
  <1>3. DOMAIN h = Members /\ DOMAIN f = Members /\ f.term_bit = h.term_bit
    BY <1>2 DEF Same, Body, Names, Members
  <1>4. /\ Body(s, t, D) /\ Same(s, f, {"out", "term_bit", "sent_so_far", "sent_window"})
        /\ DOMAIN f.sent_window \subseteq DOMAIN s.sent_window
        /\ DOMAIN s.sent_window = {} => s = f
    <2>1. CASE ~full /\ f.term_bit = 0
      <3>1. s = Terminate(f)
        BY <2>1
      <3> HIDE DEF s, full
      <3> QED BY <1>2, <2>1, <3>1, TerminateLemma
    <2>2. CASE ~(~full /\ f.term_bit = 0)
      <3>1. s = f
        BY <2>2
      <3> HIDE DEF s
      <3> QED BY <1>2, <3>1 DEF Same
    <2> QED BY <2>1, <2>2
  <1>5. DOMAIN s.sent_window = {} => full \/ f.term_bit # 0
    <2>1. ASSUME ~full, f.term_bit = 0 PROVE DOMAIN s.sent_window # {}
      <3>1. s = Terminate(f)
        BY <2>1
      <3> HIDE DEF s, full
      <3> QED BY <1>2, <2>1, <3>1, TerminateLemma
    <2> HIDE DEF s, full
    <2> QED BY <2>1
  <1>6. DOMAIN s.sent_window = {} => Idle(h)
    <2>1. SUFFICES ASSUME DOMAIN s.sent_window = {}, h.term_bit = 0, h.packets_in_window < h.window_size
                   PROVE  FALSE
      OBVIOUS
    <2>2. full
      BY <1>3, <1>5, <2>1
    <2>3. DOMAIN f.sent_window = {}
      BY <1>4, <2>1
    <2>4. ~f.in_file.is_open /\ f.packets_in_window < f.window_size
      BY <1>2, <2>1, <2>3
    <2>5. f.packets_in_window \in Int /\ f.window_size \in Int
      BY <1>2 DEF Body, Sending
    <2> QED BY <2>2, <2>4, <2>5
  <1> HIDE DEF s, full
  <1>7. /\ Same(g, s, {"retransmit_pkt"}) /\ g.retransmit_pkt = Oldest(s.sent_window)
        /\ DOMAIN s = Members /\ DOMAIN g = Members
    BY <1>4 DEF Same, Body, Names, Members
  <1> HIDE DEF g
  <1>8. /\ Mine(Oldest(s.sent_window), s.address, D)
        /\ Oldest(s.sent_window) = NULL <=> DOMAIN s.sent_window = {}
    BY <1>4, OldestMine
  <1>9. Body(g, t, D)
    <2>1. Names(g, D)
      BY <1>4, <1>7 DEF Body, Names, Same, Members
    <2>2. Timing(g, t)
      BY <1>4, <1>7 DEF Body, Timing, Same, Members
    <2>3. Receiving(g) /\ Leaving(g, D)
      BY <1>4, <1>7 DEF Body, Receiving, Leaving, Same, Members
    <2>4. Sending(g, D)
      BY <1>4, <1>7, <1>8 DEF Body, Sending, Same, Members
    <2> QED BY <2>1, <2>2, <2>3, <2>4 DEF Body
  <1>10. /\ g.in_file.flow = h.in_file.flow /\ g.sync_bit = 3 /\ ~g.died /\ g.clock = h.clock
         /\ g.retrans = h.retrans /\ g.retrans_bit = h.retrans_bit /\ g.timers = h.timers
         /\ DOMAIN h.sent_window \subseteq DOMAIN g.sent_window /\ g.sent_window = s.sent_window
    BY <1>2, <1>3, <1>4, <1>7 DEF Same, Members, Armed
  <1>11. Same(g, h, S \cup {"term_bit", "retransmit_pkt"})
    BY <1>2, <1>3, <1>4, <1>7 DEF Same, Members
  <1>12. CASE waits
    <2> DEFINE u == Set(g, 2)
    <2>1. /\ Body(u, t, D) /\ Same(u, g, {"retrans", "retrans_bit", "timers"})
          /\ u.retrans_bit = 2 /\ u.retrans \in DOMAIN u.timers
      BY <1>9, <1>10, SetLemma
    <2> HIDE DEF u
    <2>2. Same(r, u, {"last_transmit"}) /\ r.last_transmit = t /\ DOMAIN u = Members /\ DOMAIN r = Members
      BY <2>1 DEF Same, Body, Names, Members, u
    <2> HIDE DEF r
    <2>3. Names(r, D)
      BY <2>1, <2>2 DEF Body, Names, Same, Members
    <2>4. Timing(r, t)
      BY <2>1, <2>2 DEF Body, Timing, Same, Members
    <2>5. Receiving(r) /\ Leaving(r, D)
      BY <2>1, <2>2 DEF Body, Receiving, Leaving, Same, Members
    <2>6. Sending(r, D)
      BY <2>1, <2>2 DEF Body, Sending, Same, Members
    <2>7. r.retrans_bit = 2 /\ r.retrans \in DOMAIN r.timers /\ ~r.died /\ r.sync_bit = 3
          /\ r.retransmit_pkt # NULL /\ r.in_file = g.in_file /\ r.sent_window = g.sent_window
      BY <1>7, <1>10, <1>12, <2>1, <2>2 DEF Same, Members
    <2>8. DOMAIN r.sent_window # {}
      BY <1>7, <1>8, <1>10, <1>12, <2>7
    <2>9. Armed(r) /\ Idle(r)
      BY <2>7, <2>8 DEF Armed, Idle
    <2>10. Same(r, h, FileMembers)
      BY <1>3, <1>7, <1>11, <2>1, <2>2 DEF Same, Members, FileMembers
    <2>11. r.in_file.flow = h.in_file.flow
      BY <1>10, <2>7
    <2> QED BY <1>1, <1>12, <2>3, <2>4, <2>5, <2>6, <2>9, <2>10, <2>11 DEF Body
  <1>13. CASE ~waits
    <2>1. Armed(g)
      BY <1>7, <1>8, <1>10 DEF Armed
    <2>2. Idle(g)
      BY <1>6, <1>7, <1>8, <1>10, <1>13 DEF Idle
    <2>3. Same(g, h, FileMembers)
      BY <1>11 DEF Same, FileMembers
    <2> QED BY <1>1, <1>9, <1>10, <1>13, <2>1, <2>2, <2>3
  <1> QED BY <1>12, <1>13

\* Members that bear on no other, but for their types.
Simple == {"destination", "sync_bit", "term_bit", "retrans", "retrans_bit", "sent_so_far",
           "recv_so_far", "last_ack", "ter_seq", "window_size", "dup_ack_count", "estimate",
           "last_transmit", "out_file", "clock", "write", "flag", "text", "died"}

Plain(h, t, D) ==
    /\ h.destination \in D /\ h.sync_bit \in 1..3 /\ h.term_bit \in 0..2
    /\ h.retrans \in Nat /\ h.retrans_bit \in 0..2 /\ h.sent_so_far \in Nat /\ h.recv_so_far \in Nat
    /\ h.window_size \in Nat \ {0} /\ h.estimate \in [RTT : Nat, RTTVAR : Nat, RTO : Nat]
    /\ h.last_transmit \in 0..t /\ h.died \in BOOLEAN

LEMMA PlainBody == ASSUME NEW t, NEW D, NEW h, Body(h, t, D) PROVE Plain(h, t, D) /\ DOMAIN h = Members
  BY DEF Body, Plain, Names, Timing, Receiving, Sending

LEMMA UpdateBody ==
    ASSUME NEW t, NEW D, NEW h, Body(h, t, D), NEW g, Same(g, h, Simple), Plain(g, t, D),
           h.term_bit # 0 => g.term_bit # 0
    PROVE  Body(g, t, D)
  <1>1. Names(g, D)
    BY DEF Body, Names, Same, Members, Simple, Plain
  <1>2. Timing(g, t)
    BY DEF Body, Timing, Same, Members, Simple, Plain
  <1>3. Receiving(g)
    BY DEF Body, Receiving, Same, Members, Simple, Plain
  <1>4. Sending(g, D)
    <2>1. /\ g.sent_window = h.sent_window /\ g.packets_in_window = h.packets_in_window
          /\ g.in_file = h.in_file /\ g.retransmit_pkt = h.retransmit_pkt /\ g.address = h.address
      BY DEF Same, Members, Simple, Body, Names
    <2>2. g.term_bit \in 0..2 /\ h.term_bit \in 0..2 /\ Cardinality(DOMAIN h.sent_window) \in Int
      BY FS_CardinalityType DEF Body, Names, Sending, Plain
    <2>3. Cardinality(DOMAIN g.sent_window) =< g.packets_in_window + (IF g.term_bit = 0 THEN 0 ELSE 1)
      BY <2>1, <2>2 DEF Body, Sending
    <2> QED BY <2>1, <2>3 DEF Body, Sending, Plain
  <1>5. Leaving(g, D)
    BY DEF Body, Leaving, Same, Members, Simple, Names
  <1> QED BY <1>1, <1>2, <1>3, <1>4, <1>5 DEF Body

LEMMA NextSampleType ==
    ASSUME NEW e \in [RTT : Nat, RTTVAR : Nat, RTO : Nat], NEW s \in Nat
    PROVE  /\ NextSample(e, s) \in [RTT : Nat, RTTVAR : Nat, RTO : Nat]
           /\ FirstSample(s) \in [RTT : Nat, RTTVAR : Nat, RTO : Nat]
  <1>1. ASSUME NEW a \in Nat, NEW v \in Nat PROVE Estimate(a, v) \in [RTT : Nat, RTTVAR : Nat, RTO : Nat]
    BY DEF Estimate, K
  <1>2. PICK r \in Nat, v \in Nat : r = e.RTT /\ v = e.RTTVAR
    OBVIOUS
  <1>3. abs(r - s) \in Nat
    BY DEF abs
  <1>4. (7 * r + s) \div 8 \in Nat /\ s \div 2 \in Nat
    OBVIOUS
  <1>5. (3 * v + abs(r - s)) \div 4 \in Nat
    <2>1. PICK d \in Nat : d = abs(r - s)
      BY <1>3
    <2>2. (3 * v + d) \div 4 \in Nat
      OBVIOUS
    <2> QED BY <2>1, <2>2
  <1>6. NextSample(e, s) \in [RTT : Nat, RTTVAR : Nat, RTO : Nat]
    <2> DEFINE x == (7 * r + s) \div 8
               y == (3 * v + abs(r - s)) \div 4
    <2>1. NextSample(e, s) = Estimate(x, y)
      BY <1>2 DEF NextSample
    <2>2. x \in Nat /\ y \in Nat
      BY <1>4, <1>5
    <2> HIDE DEF x, y
    <2> QED BY <1>1, <2>1, <2>2
  <1>7. FirstSample(s) \in [RTT : Nat, RTTVAR : Nat, RTO : Nat]
    BY <1>1, <1>4 DEF FirstSample
  <1> QED BY <1>6, <1>7

\* The packets that go leave their places in the window.
LEMMA AcknowledgeLemma ==
    ASSUME NEW t \in Nat, NEW D, NEW h, Body(h, t, D), NEW ack
    PROVE  /\ Body(Acknowledge(h, ack), t, D)
           /\ Same(Acknowledge(h, ack), h, {"last_ack", "sent_window", "packets_in_window"})
  <1> DEFINE w == h.sent_window
             gone == IF ack \in DOMAIN w THEN {i \in DOMAIN w : i =< ack} ELSE {}
             g == Acknowledge(h, ack)
  <1>1. DOMAIN h = Members
    BY DEF Body, Names
  <1>2. /\ Same(g, h, {"last_ack", "sent_window", "packets_in_window"})
        /\ g.sent_window = [i \in DOMAIN w \ gone |-> w[i]]
        /\ g.packets_in_window = h.packets_in_window - Cardinality(gone)
    BY <1>1 DEF Acknowledge, Same, Members
  <1>3. gone \subseteq DOMAIN w /\ IsFiniteSet(DOMAIN w)
    BY DEF Body, Sending
  <1> HIDE DEF g, gone
  <1>4. /\ IsFiniteSet(gone) /\ Cardinality(gone) \in Nat
        /\ IsFiniteSet(DOMAIN w \ gone) /\ Cardinality(DOMAIN w \ gone) \in Nat
        /\ Cardinality(DOMAIN w \ gone) = Cardinality(DOMAIN w) - Cardinality(DOMAIN w \cap gone)
        /\ DOMAIN w \cap gone = gone /\ Cardinality(DOMAIN w) \in Nat
    BY <1>3, FS_Subset, FS_Difference, FS_CardinalityType
  <1>5. Names(g, D)
    BY <1>2 DEF Body, Names, Same, Members
  <1>6. Timing(g, t)
    BY <1>1, <1>2 DEF Body, Timing, Same, Members
  <1>7. Receiving(g) /\ Leaving(g, D)
    BY <1>1, <1>2 DEF Body, Receiving, Leaving, Same, Members
  <1>8. Sending(g, D)
    <2>1. /\ g.in_file = h.in_file /\ g.retransmit_pkt = h.retransmit_pkt /\ g.address = h.address
          /\ g.term_bit = h.term_bit /\ g.sent_so_far = h.sent_so_far /\ g.window_size = h.window_size
      BY <1>1, <1>2 DEF Same, Members
    <2>2. DOMAIN g.sent_window = DOMAIN w \ gone /\ \A i \in DOMAIN g.sent_window : g.sent_window[i] = w[i]
      BY <1>2
    <2>3. h.packets_in_window \in Int /\ h.packets_in_window =< h.in_file.chunk /\ h.in_file.chunk \in Int
      BY DEF Body, Sending
    <2>4. g.packets_in_window \in Int /\ g.packets_in_window =< g.in_file.chunk
      BY <1>2, <1>4, <2>1, <2>3
    <2>5. Cardinality(DOMAIN g.sent_window) =< g.packets_in_window + (IF g.term_bit = 0 THEN 0 ELSE 1)
      <3>1. Cardinality(DOMAIN w) =< h.packets_in_window + (IF h.term_bit = 0 THEN 0 ELSE 1)
        BY DEF Body, Sending
      <3>2. Cardinality(DOMAIN g.sent_window) = Cardinality(DOMAIN w) - Cardinality(gone)
        BY <1>4, <2>2
      <3> QED BY <1>2, <1>4, <2>1, <2>3, <3>1, <3>2
    <2>6. \A i \in DOMAIN g.sent_window :
             i \in Nat /\ g.sent_window[i].id # 0 /\ Mine(g.sent_window[i], g.address, D)
      BY <2>1, <2>2 DEF Body, Sending
    <2> QED BY <1>4, <2>1, <2>2, <2>4, <2>5, <2>6 DEF Body, Sending
  <1> QED BY <1>2, <1>5, <1>6, <1>7, <1>8 DEF Body, g

\* What an ack may change.
AckMembers == {"dup_ack_count", "window_size", "timers", "retrans", "retrans_bit", "last_ack",
               "sent_window", "packets_in_window", "estimate", "last_transmit", "retransmit_pkt",
               "out"}

LEMMA DuplicateAckLemma ==
    ASSUME NEW t \in Nat, NEW D, NEW h, Body(h, t, D), h.clock = t, Armed(h), Idle(h)
    PROVE  LET g == DuplicateAck(h) IN Body(g, t, D) /\ Armed(g) /\ Idle(g) /\ Same(g, h, AckMembers)
  <1>1. DOMAIN h = Members /\ Plain(h, t, D)
    BY PlainBody
  <1>2. CASE h.dup_ack_count = 0
    <2> DEFINE g == [h EXCEPT !.dup_ack_count = 1]
    <2>1. DuplicateAck(h) = g
      BY <1>2 DEF DuplicateAck
    <2>2. Same(g, h, {"dup_ack_count"}) /\ DOMAIN g = Members
      BY <1>1 DEF Same, Members
    <2> HIDE DEF g
    <2>3. Same(g, h, Simple) /\ Plain(g, t, D) /\ (h.term_bit # 0 => g.term_bit # 0)
      BY <1>1, <2>2 DEF Same, Members, Simple, Plain
    <2>4. Body(g, t, D)
      BY <2>3, UpdateBody
    <2>5. Armed(g) /\ Idle(g)
      BY <1>1, <2>2 DEF Armed, Idle, Same, Members
    <2> QED BY <2>1, <2>2, <2>4, <2>5 DEF Same, AckMembers
  <1>3. CASE h.dup_ack_count # 0
    <2> DEFINE g == [h EXCEPT !.dup_ack_count = 0, !.window_size = (@ + 1) \div 2]
               c == Cancel(g)
               s == Set(c, 2)
               r == Resend(s)
    <2>1. DuplicateAck(h) = IF g.retrans_bit = 2 /\ g.retrans > h.clock THEN r ELSE g
      BY <1>3 DEF DuplicateAck
    <2>2. /\ Same(g, h, {"dup_ack_count", "window_size"}) /\ DOMAIN g = Members
          /\ g.window_size = (h.window_size + 1) \div 2
      BY <1>1 DEF Same, Members
    <2>3. g.window_size \in Nat \ {0}
      <3>1. PICK n \in Nat \ {0} : n = h.window_size
        BY <1>1 DEF Plain
      <3>2. (n + 1) \div 2 \in Nat \ {0}
        OBVIOUS
      <3> QED BY <2>2, <3>1, <3>2
    <2> HIDE DEF g
    <2>4. Same(g, h, Simple) /\ Plain(g, t, D) /\ (h.term_bit # 0 => g.term_bit # 0)
      BY <1>1, <2>2, <2>3 DEF Same, Members, Simple, Plain
    <2>5. Body(g, t, D)
      BY <2>4, UpdateBody
    <2>6. Armed(g) /\ Idle(g) /\ g.clock = t
      BY <1>1, <2>2 DEF Armed, Idle, Same, Members
    <2>7. CASE ~(g.retrans_bit = 2 /\ g.retrans > h.clock)
      BY <2>1, <2>2, <2>5, <2>6, <2>7 DEF Same, AckMembers
    <2>8. CASE g.retrans_bit = 2 /\ g.retrans > h.clock
      <3>1. /\ Body(c, t, D) /\ Same(c, g, {"timers", "died"}) /\ c.died = g.died
        BY <2>5, <2>6, <2>8, CancelLemma DEF Armed
      <3> HIDE DEF c
      <3>2. DOMAIN c = Members /\ c.clock = t /\ c.retransmit_pkt # NULL
        BY <2>2, <2>6, <2>8, <3>1 DEF Same, Members, Armed
      <3>3. /\ Body(s, t, D) /\ Same(s, c, {"retrans", "retrans_bit", "timers"})
            /\ s.retrans_bit = 2 /\ s.retrans \in DOMAIN s.timers
        BY <3>1, <3>2, SetLemma
      <3> HIDE DEF s
      <3>4. DOMAIN s = Members /\ s.retransmit_pkt # NULL
        BY <3>2, <3>3 DEF Same, Members
      <3>5. Body(r, t, D) /\ Same(r, s, {"out", "died"}) /\ r.died = s.died
        BY <3>3, <3>4, ResendLemma
      <3> HIDE DEF r
      <3>6. DOMAIN r = Members
        BY <3>5 DEF Body, Names
      <3>7. Same(r, h, AckMembers)
        BY <1>1, <2>2, <3>1, <3>2, <3>3, <3>4, <3>5, <3>6 DEF Same, Members, AckMembers
      <3>8. Armed(r) /\ Idle(r)
        <4>1. r.retrans_bit = 2 /\ r.retrans \in DOMAIN r.timers /\ ~r.died /\ r.retransmit_pkt # NULL
              /\ r.sync_bit = g.sync_bit /\ r.sent_window = g.sent_window
          BY <2>2, <2>6, <3>1, <3>2, <3>3, <3>4, <3>5, <3>6 DEF Same, Members, Armed
        <4> QED BY <2>6, <2>8, <4>1 DEF Armed, Idle
      <3> QED BY <2>1, <2>8, <3>5, <3>7, <3>8
    <2> QED BY <2>7, <2>8
  <1> QED BY <1>2, <1>3

LEMMA MeasureLemma ==
    ASSUME NEW t \in Nat, NEW D, NEW h, Body(h, t, D), h.clock = t, NEW ack
    PROVE  Body(Measure(h, ack), t, D) /\ Same(Measure(h, ack), h, {"estimate", "last_transmit"})
  <1> DEFINE g == Measure(h, ack)
  <1>1. DOMAIN h = Members /\ Plain(h, t, D)
    BY PlainBody
  <1>2. /\ Same(g, h, {"estimate", "last_transmit"})
        /\ g.estimate = NextSample(h.estimate, h.clock - h.last_transmit)
        /\ g.last_transmit = IF ack + 1 \in DOMAIN h.send_time THEN h.send_time[ack + 1] ELSE h.clock
    BY <1>1 DEF Measure, Same, Members
  <1> HIDE DEF g
  <1>3. h.clock - h.last_transmit \in Nat
    BY <1>1 DEF Plain
  <1>4. g.estimate \in [RTT : Nat, RTTVAR : Nat, RTO : Nat]
    <2> DEFINE s == h.clock - h.last_transmit
    <2>1. s \in Nat /\ g.estimate = NextSample(h.estimate, s)
      BY <1>2, <1>3
    <2> HIDE DEF s
    <2> QED BY <1>1, <2>1, NextSampleType DEF Plain
  <1>5. g.last_transmit \in 0..t
    BY <1>2 DEF Body, Timing
  <1>6. Same(g, h, Simple) /\ Plain(g, t, D) /\ (h.term_bit # 0 => g.term_bit # 0)
    BY <1>1, <1>2, <1>4, <1>5 DEF Same, Members, Simple, Plain
  <1>7. Body(g, t, D)
    BY <1>6, UpdateBody
  <1> QED BY <1>2, <1>7 DEF g

\* At an arrival a host whose timer is not over waits for it, and no other does.
LEMMA NewAckLemma ==
    ASSUME NEW t \in Nat \ {0}, NEW D, "none" \in D, NEW h, Body(h, t, D), h.clock = t, Armed(h), Idle(h),
           h.sync_bit = 3, NEW ack, NEW window \in Windows
    PROVE  LET g == NewAck(h, ack, window)
           IN  Body(g, t, D) /\ Armed(g) /\ Idle(g) /\ Same(g, h, AckMembers)
  <1> DEFINE c == [h EXCEPT !.dup_ack_count = 0, !.window_size = window]
             d == Cancel(c)
             q == IF Ahead(c) THEN [d EXCEPT !.retrans = 0, !.retrans_bit = 0] ELSE c
             a == Acknowledge(q, ack)
             m == Measure(a, ack)
             g == [m EXCEPT !.retransmit_pkt = Oldest(m.sent_window)]
             e == IF g.retransmit_pkt.FIN = 1 THEN g ELSE Resend(g)
             r == Set(e, 2)
  <1>1. NewAck(h, ack, window) = IF g.retrans_bit # 0 \/ g.retransmit_pkt = NULL THEN g ELSE r
    BY DEF NewAck
  <1>2. DOMAIN h = Members /\ Plain(h, t, D)
    BY PlainBody
  <1>3. /\ Same(c, h, {"dup_ack_count", "window_size"}) /\ c.window_size \in Nat \ {0}
        /\ DOMAIN c = Members
    BY <1>2, WindowsAssumption DEF Same, Members
  <1> HIDE DEF c
  <1>4. Body(c, t, D)
    <2>1. Same(c, h, Simple) /\ Plain(c, t, D) /\ (h.term_bit # 0 => c.term_bit # 0)
      BY <1>2, <1>3 DEF Same, Members, Simple, Plain
    <2> QED BY <2>1, UpdateBody
  <1>5. Armed(c) /\ Idle(c) /\ c.clock = t /\ c.sync_bit = 3 /\ c.retrans \in Nat
    BY <1>2, <1>3 DEF Armed, Idle, Same, Members, Plain
  <1>6. Ahead(c) <=> c.retrans_bit # 0
    <2>1. c.retrans \in DOMAIN c.timers => t =< c.retrans
      BY <1>4 DEF Body, Timing
    <2> QED BY <1>5, <2>1 DEF Ahead, Armed, Idle
  <1>7. /\ Body(q, t, D) /\ Same(q, c, {"timers", "retrans", "retrans_bit"})
        /\ q.retrans_bit = 0 /\ q.retrans = 0 /\ ~q.died /\ DOMAIN q = Members
    <2>1. CASE Ahead(c)
      <3>1. Body(d, t, D) /\ Same(d, c, {"timers", "died"}) /\ d.died = c.died
        BY <1>4, <1>5, <1>6, <2>1, CancelLemma DEF Armed
      <3> HIDE DEF d
      <3>2. Same(q, d, {"retrans", "retrans_bit"}) /\ q.retrans_bit = 0 /\ q.retrans = 0
            /\ DOMAIN q = Members /\ DOMAIN d = Members
        BY <1>3, <2>1, <3>1 DEF Same, Members
      <3> HIDE DEF q
      <3>3. Same(q, d, Simple) /\ Plain(q, t, D) /\ (d.term_bit # 0 => q.term_bit # 0)
        <4>1. Plain(d, t, D)
          BY <3>1, PlainBody
        <4> QED BY <3>2, <4>1 DEF Same, Members, Simple, Plain
      <3>4. Body(q, t, D)
        BY <3>1, <3>3, UpdateBody
      <3>5. Same(q, c, {"timers", "retrans", "retrans_bit"}) /\ ~q.died
        BY <1>3, <1>5, <3>1, <3>2 DEF Same, Members, Armed
      <3> QED BY <3>2, <3>4, <3>5
    <2>2. CASE ~Ahead(c)
      <3>1. q = c
        BY <2>2
      <3> HIDE DEF q
      <3> QED BY <1>3, <1>4, <1>5, <1>6, <2>2, <3>1 DEF Same, Armed, Idle
    <2> QED BY <2>1, <2>2
  <1> HIDE DEF q
  <1>8. Body(a, t, D) /\ Same(a, q, {"last_ack", "sent_window", "packets_in_window"})
    BY <1>7, AcknowledgeLemma
  <1> HIDE DEF a
  <1>9. DOMAIN a = Members /\ a.clock = t
    BY <1>3, <1>5, <1>7, <1>8 DEF Same, Members
  <1>10. Body(m, t, D) /\ Same(m, a, {"estimate", "last_transmit"})
    BY <1>8, <1>9, MeasureLemma
  <1> HIDE DEF m
  <1>11. DOMAIN m = Members
    BY <1>10 DEF Body, Names
  <1>12. /\ Mine(Oldest(m.sent_window), m.address, D)
         /\ Oldest(m.sent_window) = NULL <=> DOMAIN m.sent_window = {}
    BY <1>10, OldestMine
  <1>13. Same(g, m, {"retransmit_pkt"}) /\ g.retransmit_pkt = Oldest(m.sent_window) /\ DOMAIN g = Members
    BY <1>11 DEF Same, Members
  <1> HIDE DEF g
  <1>14. Body(g, t, D)
    <2>1. Names(g, D)
      BY <1>10, <1>13 DEF Body, Names, Same, Members
    <2>2. Timing(g, t)
      BY <1>10, <1>11, <1>13 DEF Body, Timing, Same, Members
    <2>3. Receiving(g) /\ Leaving(g, D)
      BY <1>10, <1>11, <1>13 DEF Body, Receiving, Leaving, Same, Members
    <2>4. Sending(g, D)
      BY <1>10, <1>11, <1>12, <1>13 DEF Body, Sending, Same, Members
    <2> QED BY <2>1, <2>2, <2>3, <2>4 DEF Body
  <1>15. Same(g, h, AckMembers)
    <2>1. Same(q, h, AckMembers)
      BY <1>2, <1>3, <1>7 DEF Same, Members, AckMembers
    <2>2. Same(m, q, AckMembers)
      BY <1>7, <1>8, <1>9, <1>10, <1>11 DEF Same, Members, AckMembers
    <2> QED BY <1>2, <1>7, <1>11, <1>13, <2>1, <2>2 DEF Same, Members, AckMembers
  <1>16. /\ g.retrans_bit = 0 /\ g.retrans = 0 /\ ~g.died /\ g.clock = t /\ g.sync_bit = 3
         /\ g.sent_window = m.sent_window
    BY <1>3, <1>5, <1>7, <1>8, <1>9, <1>10, <1>11, <1>13 DEF Same, Members
  <1>17. CASE g.retransmit_pkt = NULL
    <2>1. Armed(g) /\ Idle(g)
      BY <1>16 DEF Armed, Idle
    <2> QED BY <1>1, <1>14, <1>15, <1>17, <2>1
  <1>18. CASE g.retransmit_pkt # NULL
    <2>1. NewAck(h, ack, window) = r
      BY <1>1, <1>16, <1>18
    <2>2. Body(e, t, D) /\ Same(e, g, {"out"}) /\ DOMAIN e = Members
      <3>1. Body(Resend(g), t, D) /\ Same(Resend(g), g, {"out", "died"}) /\ Resend(g).died = g.died
        BY <1>14, <1>18, ResendLemma
      <3>2. Same(Resend(g), g, {"out"})
        BY <3>1 DEF Same
      <3> QED BY <1>13, <1>14, <3>1, <3>2 DEF Same
    <2> HIDE DEF e
    <2>3. e.clock = t
      BY <1>13, <1>16, <2>2 DEF Same, Members
    <2>4. /\ Body(r, t, D) /\ Same(r, e, {"retrans", "retrans_bit", "timers"})
          /\ r.retrans_bit = 2 /\ r.retrans \in DOMAIN r.timers
      BY <2>2, <2>3, SetLemma
    <2> HIDE DEF r
    <2>5. DOMAIN r = Members
      BY <2>4 DEF Body, Names
    <2>6. Same(r, h, AckMembers)
      BY <1>2, <1>13, <1>15, <2>2, <2>4, <2>5 DEF Same, Members, AckMembers
    <2>7. /\ ~r.died /\ r.sync_bit = 3 /\ r.retransmit_pkt = g.retransmit_pkt
          /\ r.sent_window = m.sent_window
      BY <1>13, <1>16, <2>2, <2>4, <2>5 DEF Same, Members
    <2>8. DOMAIN m.sent_window # {}
      BY <1>12, <1>13, <1>18
    <2>9. Armed(r) /\ Idle(r)
      BY <1>18, <2>4, <2>7, <2>8 DEF Armed, Idle
    <2> QED BY <2>1, <2>4, <2>6, <2>9
  <1> QED BY <1>17, <1>18

LEMMA SentWindowSyncLemma ==
    ASSUME NEW t \in Nat \ {0}, NEW D, "none" \in D, NEW h, Body(h, t, D), h.clock = t, Armed(h), Idle(h),
           h.sync_bit = 3, NEW ack, NEW window \in Windows
    PROVE  LET g == SentWindowSync(h, ack, window)
           IN  Body(g, t, D) /\ Armed(g) /\ Idle(g) /\ Same(g, h, AckMembers)
  <1>1. CASE ack < h.last_ack
    BY <1>1 DEF SentWindowSync, Same
  <1>2. CASE ~(ack < h.last_ack) /\ ack = h.last_ack
    BY <1>2, DuplicateAckLemma DEF SentWindowSync
  <1>3. CASE ~(ack < h.last_ack) /\ ack # h.last_ack
    BY <1>3, NewAckLemma DEF SentWindowSync
  <1> QED BY <1>1, <1>2, <1>3

---------------------------------------------------------------------------
(* The receiving side.                                                     *)

\* The run ends before the first number that is missing.
LEMMA RunEndLemma ==
    ASSUME NEW h, h.recv_so_far \in Nat, IsFiniteSet(DOMAIN h.recv_window)
    PROVE  RunEnd(h) \in Nat
  <1> DEFINE W == DOMAIN h.recv_window
             r == h.recv_so_far
             c == Cardinality(W)
             all == r + 1 .. r + c + 1
             T == all \ W
  <1>1. c \in Nat
    BY FS_CardinalityType
  <1>2. IsFiniteSet(all) /\ Cardinality(all) = c + 1
    <2>1. r + 1 \in Int /\ r + c + 1 \in Int
      BY <1>1
    <2> HIDE DEF c
    <2>2. IsFiniteSet(all) /\ Cardinality(all) = IF r + 1 > r + c + 1 THEN 0 ELSE (r + c + 1) - (r + 1) + 1
      BY <2>1, FS_Interval
    <2> QED BY <1>1, <2>2
  <1>3. T # {}
    <2>1. ASSUME all \subseteq W PROVE Cardinality(all) =< c
      BY <2>1, FS_Subset
    <2> HIDE DEF c
    <2> QED BY <1>1, <1>2, <2>1
  <1> HIDE DEF c
  <1>4. T \in SUBSET Nat
    BY <1>1
  <1>5. PICK m \in T : \A k \in T : m =< k
    BY <1>3, <1>4, Least
  <1> DEFINE n == m - 1
  <1>6. n \in r .. r + c /\ n + 1 = m
    BY <1>1, <1>5
  <1>7. r + 1 .. n \subseteq W
    <2>1. SUFFICES ASSUME NEW k \in r + 1 .. n, k \notin W PROVE FALSE
      OBVIOUS
    <2>2. k \in T
      BY <1>1, <1>6, <2>1
    <2> QED BY <1>5, <1>6, <2>2
  <1>8. n + 1 \notin W
    BY <1>5, <1>6
  <1>9. \E k \in r .. r + c : r + 1 .. k \subseteq W /\ k + 1 \notin W
    BY <1>6, <1>7, <1>8
  <1>10. RunEnd(h) \in r .. r + c
    BY <1>9 DEF RunEnd, c
  <1> QED BY <1>1, <1>10

LEMMA StoreLemma ==
    ASSUME NEW t \in Nat, NEW D, NEW h, Body(h, t, D), NEW p \in PacketType
    PROVE  Body(Store(h, p), t, D) /\ Same(Store(h, p), h, {"recv_so_far", "recv_window", "text"})
  <1> DEFINE g == Store(h, p)
             w == h.recv_window
  <1>1. /\ DOMAIN h = Members /\ h.recv_so_far \in Nat /\ p.id \in Nat
        /\ IsFiniteSet(DOMAIN w) /\ DOMAIN w \subseteq Nat /\ \A i \in DOMAIN w : w[i] \in PacketType
    BY DEF Body, Names, Receiving, PacketType
  <1>2. Same(g, h, {"recv_so_far", "recv_window", "text"}) /\ Receiving(g)
    <2>1. CASE p.id < h.recv_so_far \/ p.id \in DOMAIN w
      BY <1>1, <2>1 DEF Store, Same, Receiving
    <2>2. CASE ~(p.id < h.recv_so_far \/ p.id \in DOMAIN w) /\ p.id = h.recv_so_far /\ h.write
      <3> DEFINE run == h.recv_so_far+1 .. RunEnd(h)
      <3>1. /\ Same(g, h, {"recv_so_far", "recv_window", "text"})
            /\ g.recv_so_far = RunEnd(h) /\ g.recv_window = [i \in DOMAIN w \ run |-> w[i]]
        BY <1>1, <2>2 DEF Store, Same, Members
      <3> HIDE DEF g, run
      <3>2. RunEnd(h) \in Nat
        BY <1>1, RunEndLemma
      <3>3. IsFiniteSet(DOMAIN w \ run)
        BY <1>1, FS_Subset
      <3> QED BY <1>1, <3>1, <3>2, <3>3 DEF Receiving
    <2>3. CASE /\ ~(p.id < h.recv_so_far \/ p.id \in DOMAIN w) /\ ~(p.id = h.recv_so_far /\ h.write)
               /\ p.id > h.recv_so_far
      <3> DEFINE new == [i \in {p.id} |-> p]
      <3>1. /\ Same(g, h, {"recv_window"}) /\ g.recv_window = Insert(w, new)
        BY <1>1, <2>3 DEF Store, Same, Members
      <3>2. DOMAIN new = {p.id} /\ new[p.id] = p /\ IsFiniteSet({p.id})
        BY FS_Singleton
      <3> HIDE DEF g, w, new
      <3>3. LET v == Insert(w, new)
            IN  /\ DOMAIN v = DOMAIN w \cup DOMAIN new /\ IsFiniteSet(DOMAIN v)
                /\ \A i \in DOMAIN w : v[i] = w[i]
                /\ \A i \in DOMAIN new : i \notin DOMAIN w => v[i] = new[i]
        <4>1. IsFiniteSet(DOMAIN w) /\ IsFiniteSet(DOMAIN new)
          BY <1>1, <3>2
        <4> QED BY <4>1, InsertLemma
      <3>4. IsFiniteSet(DOMAIN g.recv_window) /\ DOMAIN g.recv_window \subseteq Nat
        BY <1>1, <3>1, <3>2, <3>3
      <3>5. \A i \in DOMAIN g.recv_window : g.recv_window[i] \in PacketType
        BY <1>1, <3>1, <3>2, <3>3
      <3>6. g.recv_so_far \in Nat
        BY <1>1, <3>1 DEF Same, Members
      <3> QED BY <3>1, <3>4, <3>5, <3>6 DEF Receiving, Same
    <2>4. CASE /\ ~(p.id < h.recv_so_far \/ p.id \in DOMAIN w) /\ ~(p.id = h.recv_so_far /\ h.write)
               /\ ~(p.id > h.recv_so_far)
      BY <1>1, <2>4 DEF Store, Same, Receiving
    <2> QED BY <2>1, <2>2, <2>3, <2>4
  <1> HIDE DEF g
  <1>3. Names(g, D)
    BY <1>2 DEF Body, Names, Same, Members
  <1>4. Timing(g, t)
    BY <1>1, <1>2 DEF Body, Timing, Same, Members
  <1>5. Leaving(g, D)
    BY <1>1, <1>2 DEF Body, Leaving, Same, Members
  <1>6. Sending(g, D)
    BY <1>1, <1>2 DEF Body, Sending, Same, Members
  <1> QED BY <1>2, <1>3, <1>4, <1>5, <1>6 DEF Body, g

\* What a packet of data or a FIN may change at a receiver.
DataMembers == {"recv_so_far", "recv_window", "text", "sent_so_far", "out", "term_bit", "retrans",
                "timers", "window_size", "ter_seq"}

\* The answer to a FIN.
LEMMA AnswerMine ==
    ASSUME NEW t, NEW D, D \subseteq Ends, NEW h, Body(h, t, D)
    PROVE  Mine(Packet(h, h.sent_so_far, 1, 1, NoData), h.address, D)
  <1> DEFINE one == 1
  <1>1. h.sent_so_far \in Nat /\ NoData \in Payloads /\ one \in 0..1
    BY DEF Body, Sending, Payloads
  <1> HIDE DEF one
  <1>2. Mine(Packet(h, h.sent_so_far, one, one, NoData), h.address, D)
    BY <1>1, PacketMine
  <1> QED BY <1>2 DEF one

LEMMA RecvWindowSyncLemma ==
    ASSUME NEW t \in Nat, NEW D, D \subseteq Ends, NEW h, Body(h, t, D), h.clock = t, Armed(h), Idle(h),
           NEW p \in PacketType
    PROVE  LET g == RecvWindowSync(h, p)
           IN  Body(g, t, D) /\ Armed(g) /\ Idle(g) /\ Same(g, h, DataMembers)
  <1> DEFINE g == Store(h, p)
             f == [g EXCEPT !.recv_so_far = @ + 1, !.sent_so_far = @ + 1]
             s == Send(f, Packet(f, f.sent_so_far, 1, 1, NoData))
             r == [s EXCEPT !.term_bit = 2]
             u == HandleTimer(g)
             last == g.ter_seq = g.recv_so_far + 1 /\ g.write
  <1>1. RecvWindowSync(h, p) = IF last THEN r ELSE u
    BY DEF RecvWindowSync
  <1>2. Body(g, t, D) /\ Same(g, h, {"recv_so_far", "recv_window", "text"})
    BY StoreLemma
  <1> HIDE DEF g
  <1>3. DOMAIN h = Members /\ DOMAIN g = Members /\ Plain(g, t, D)
    BY <1>2, PlainBody
  <1>4. Armed(g) /\ Idle(g) /\ g.clock = t
    BY <1>2, <1>3 DEF Same, Members, Armed, Idle
  <1>5. CASE last
    <2>1. Same(f, g, {"recv_so_far", "sent_so_far"}) /\ DOMAIN f = Members
          /\ f.recv_so_far = g.recv_so_far + 1 /\ f.sent_so_far = g.sent_so_far + 1
      BY <1>3 DEF Same, Members
    <2> HIDE DEF f
    <2>2. Same(f, g, Simple) /\ Plain(f, t, D) /\ (g.term_bit # 0 => f.term_bit # 0)
      BY <1>3, <2>1 DEF Same, Members, Simple, Plain
    <2>3. Body(f, t, D)
      BY <1>2, <2>2, UpdateBody
    <2>4. Body(s, t, D) /\ Same(s, f, {"out"})
      BY <2>1, <2>3, AnswerMine, SendBody, SendSame
    <2> HIDE DEF s
    <2>5. Same(r, s, {"term_bit"}) /\ r.term_bit = 2 /\ DOMAIN s = Members /\ DOMAIN r = Members
      BY <2>4 DEF Same, Body, Names, Members
    <2> HIDE DEF r
    <2>6. Same(r, s, Simple) /\ Plain(r, t, D) /\ (s.term_bit # 0 => r.term_bit # 0)
      <3>1. Plain(s, t, D)
        BY <2>4, PlainBody
      <3> QED BY <2>5, <3>1 DEF Same, Members, Simple, Plain
    <2>7. Body(r, t, D)
      BY <2>4, <2>6, UpdateBody
    <2>8. Armed(r) /\ Idle(r)
      BY <1>3, <1>4, <2>1, <2>4, <2>5 DEF Same, Members, Armed, Idle
    <2>9. Same(r, h, DataMembers)
      BY <1>2, <1>3, <2>1, <2>4, <2>5 DEF Same, Members, DataMembers
    <2> QED BY <1>1, <1>5, <2>7, <2>8, <2>9
  <1>6. CASE ~last
    <2>1. Waits(g, t)
      BY <1>4 DEF Armed, Waits
    <2>2. /\ Body(u, t, D) /\ Armed(u)
          /\ Same(u, g, {"retrans", "timers", "sent_so_far", "window_size", "out"})
          /\ g.retrans_bit = 0 => u.retrans = g.retrans /\ u.timers = g.timers
      BY <1>2, <1>4, <2>1, HandleTimerLemma
    <2> HIDE DEF u
    <2>3. DOMAIN u = Members
      BY <2>2 DEF Body, Names
    <2>4. Idle(u)
      BY <1>3, <1>4, <2>2, <2>3 DEF Same, Members, Idle
    <2>5. Same(u, h, DataMembers)
      BY <1>2, <1>3, <2>2, <2>3 DEF Same, Members, DataMembers
    <2> QED BY <1>1, <1>6, <2>2, <2>4, <2>5
  <1> QED BY <1>5, <1>6

LEMMA ReceiveFinLemma ==
    ASSUME NEW t \in Nat, NEW D, D \subseteq Ends, NEW h, Body(h, t, D), Armed(h), Idle(h), NEW p
    PROVE  LET g == ReceiveFin(h, p)
           IN  Body(g, t, D) /\ Armed(g) /\ Idle(g) /\ Same(g, h, DataMembers)
  <1> DEFINE g == [h EXCEPT !.sent_so_far = @ + (IF h.write THEN 1 ELSE 0)]
             s == Send(g, Packet(g, g.sent_so_far, 1, 1, NoData))
             w == [h EXCEPT !.term_bit = 1, !.ter_seq = p.id]
  <1>1. ReceiveFin(h, p) = IF h.term_bit = 2 THEN h ELSE IF p.id = h.recv_so_far THEN s ELSE w
    BY DEF ReceiveFin
  <1>2. DOMAIN h = Members /\ Plain(h, t, D)
    BY PlainBody
  <1>3. Body(s, t, D) /\ Armed(s) /\ Idle(s) /\ Same(s, h, DataMembers)
    <2>1. Same(g, h, {"sent_so_far"}) /\ DOMAIN g = Members
          /\ g.sent_so_far = h.sent_so_far + (IF h.write THEN 1 ELSE 0)
      BY <1>2 DEF Same, Members
    <2> HIDE DEF g
    <2>2. Same(g, h, Simple) /\ Plain(g, t, D) /\ (h.term_bit # 0 => g.term_bit # 0)
      BY <1>2, <2>1 DEF Same, Members, Simple, Plain
    <2>3. Body(g, t, D)
      BY <2>2, UpdateBody
    <2>4. Body(s, t, D) /\ Same(s, g, {"out"})
      BY <2>1, <2>3, AnswerMine, SendBody, SendSame
    <2> HIDE DEF s
    <2>5. DOMAIN s = Members
      BY <2>4 DEF Body, Names
    <2> QED BY <1>2, <2>1, <2>4, <2>5 DEF Same, Members, DataMembers, Armed, Idle
  <1>4. Body(w, t, D) /\ Armed(w) /\ Idle(w) /\ Same(w, h, DataMembers)
    <2>1. Same(w, h, {"term_bit", "ter_seq"}) /\ w.term_bit = 1 /\ DOMAIN w = Members
      BY <1>2 DEF Same, Members
    <2> HIDE DEF w
    <2>2. Same(w, h, Simple) /\ Plain(w, t, D) /\ (h.term_bit # 0 => w.term_bit # 0)
      BY <1>2, <2>1 DEF Same, Members, Simple, Plain
    <2>3. Body(w, t, D)
      BY <2>2, UpdateBody
    <2> QED BY <1>2, <2>1, <2>3 DEF Same, Members, DataMembers, Armed, Idle
  <1> HIDE DEF s, w
  <1> QED BY <1>1, <1>3, <1>4 DEF Same

---------------------------------------------------------------------------
(* receive().                                                              *)

\* The members that tell which flow a host is in.
Roles == {"address", "sender", "clock"}

Stays(g, h) == /\ \A x \in Roles : g[x] = h[x]
               /\ g.in_file.flow = h.in_file.flow

LEMMA CountLemma ==
    ASSUME NEW t, NEW D, NEW h, HostInv(h, t, D), NEW p \in PacketType
    PROVE  HostInv(Count(h, p), t, D) /\ Stays(Count(h, p), h)
  <1> DEFINE g == Count(h, p)
  <1>1. Body(h, t, D) /\ DOMAIN h = Members /\ Plain(h, t, D) /\ p.id \in Nat
    BY PlainBody DEF HostInv, PacketType
  <1>2. Same(g, h, {"write", "flag", "recv_so_far"}) /\ g.recv_so_far \in Nat /\ DOMAIN g = Members
    BY <1>1 DEF Count, Same, Members, Plain
  <1> HIDE DEF g
  <1>3. Same(g, h, Simple) /\ Plain(g, t, D) /\ (h.term_bit # 0 => g.term_bit # 0)
    BY <1>1, <1>2 DEF Same, Members, Simple, Plain
  <1>4. Body(g, t, D)
    BY <1>1, <1>3, UpdateBody
  <1>5. Armed(g) /\ Idle(g) /\ Fresh(g)
    BY <1>1, <1>2 DEF HostInv, Armed, Idle, Fresh, Same, Members
  <1>6. Stays(g, h)
    BY <1>1, <1>2 DEF Same, Members, Roles, Stays
  <1> QED BY <1>4, <1>5, <1>6 DEF HostInv, g

\* Cancelling the timer of a host that waits, when a packet arrives.
LEMMA AheadLemma ==
    ASSUME NEW t \in Nat \ {0}, NEW D, NEW h, HostInv(h, t, D), h.clock = t
    PROVE  /\ Ahead(h) <=> h.retrans_bit # 0
           /\ Ahead(h) => /\ Body(Cancel(h), t, D) /\ Same(Cancel(h), h, {"timers"})
  <1>1. Body(h, t, D) /\ Armed(h) /\ Idle(h) /\ Plain(h, t, D)
    BY PlainBody DEF HostInv
  <1>2. h.retrans \in DOMAIN h.timers => t =< h.retrans
    BY <1>1 DEF Body, Timing
  <1>3. Ahead(h) <=> h.retrans_bit # 0
    BY <1>1, <1>2 DEF Ahead, Armed, Idle, Plain
  <1>4. ASSUME Ahead(h) PROVE Body(Cancel(h), t, D) /\ Same(Cancel(h), h, {"timers"})
    <2>1. Body(Cancel(h), t, D) /\ Same(Cancel(h), h, {"timers", "died"}) /\ Cancel(h).died = h.died
      BY <1>1, <1>3, <1>4, CancelLemma DEF Armed
    <2> QED BY <2>1 DEF Same
  <1> QED BY <1>3, <1>4

LEMMA ReceiveSynLemma ==
    ASSUME NEW t \in Nat, NEW D, D \subseteq Ends, NEW h, HostInv(h, t, D), h.clock = t,
           h.sync_bit = 1, NEW p, p.source \in D
    PROVE  HostInv(ReceiveSyn(h, p), t, D) /\ Stays(ReceiveSyn(h, p), h)
  <1> DEFINE f == [h EXCEPT !.destination = p.source, !.sync_bit = 2]
             u == HandleTimer(f)
             g == Set(u, 1)
  <1>1. Body(h, t, D) /\ Armed(h) /\ Idle(h) /\ DOMAIN h = Members /\ Plain(h, t, D)
    BY PlainBody DEF HostInv
  <1>2. /\ Same(f, h, {"destination", "sync_bit"}) /\ f.destination = p.source /\ f.sync_bit = 2
        /\ DOMAIN f = Members
    BY <1>1 DEF Same, Members
  <1> HIDE DEF f
  <1>3. Same(f, h, Simple) /\ Plain(f, t, D) /\ (h.term_bit # 0 => f.term_bit # 0)
    BY <1>1, <1>2 DEF Same, Members, Simple, Plain
  <1>4. Body(f, t, D)
    BY <1>1, <1>3, UpdateBody
  <1>5. Waits(f, t) /\ f.clock = t
    BY <1>1, <1>2 DEF Same, Members, Armed, Waits
  <1>6. /\ Body(u, t, D) /\ Armed(u)
        /\ Same(u, f, {"retrans", "timers", "sent_so_far", "window_size", "out"})
    BY <1>4, <1>5, HandleTimerLemma
  <1> HIDE DEF u
  <1>7. DOMAIN u = Members /\ u.clock = t
    BY <1>2, <1>5, <1>6 DEF Same, Members
  <1>8. /\ Body(g, t, D) /\ Same(g, u, {"retrans", "retrans_bit", "timers"})
        /\ g.retrans_bit = 1 /\ g.retrans \in DOMAIN g.timers
    BY <1>6, <1>7, SetLemma
  <1> HIDE DEF g
  <1>9. g.sync_bit = 2 /\ ~g.died /\ DOMAIN g = Members
    BY <1>2, <1>6, <1>7, <1>8 DEF Same, Members, Armed
  <1>10. Armed(g) /\ Idle(g) /\ Fresh(g)
    BY <1>8, <1>9 DEF Armed, Idle, Fresh
  <1>11. Stays(g, h)
    BY <1>1, <1>2, <1>6, <1>7, <1>8 DEF Same, Members, Roles, Stays
  <1> QED BY <1>8, <1>10, <1>11 DEF HostInv, ReceiveSyn, f, u, g

LEMMA ReceiveSynAckLemma ==
    ASSUME NEW t \in Nat \ {0}, NEW D, D \subseteq Ends, "none" \in D, NEW h, HostInv(h, t, D), h.clock = t,
           h.sync_bit = 1, h.term_bit = 0, NEW p, p.source \in D
    PROVE  HostInv(ReceiveSynAck(h, p), t, D) /\ Stays(ReceiveSynAck(h, p), h)
  <1> DEFINE c == Cancel(h)
             q == IF Ahead(h) THEN [c EXCEPT !.retrans_bit = 0] ELSE h
             f == [q EXCEPT !.destination = p.source, !.sync_bit = 3, !.last_ack = 2, !.flag = 1,
                            !.estimate = FirstSample(h.clock - h.last_transmit)]
             u == HandleTimer(f)
             g == SendFile(u)
  <1>0. ReceiveSynAck(h, p) = g
    BY DEF ReceiveSynAck
  <1>1. Body(h, t, D) /\ Armed(h) /\ Idle(h) /\ Fresh(h) /\ DOMAIN h = Members /\ Plain(h, t, D)
    BY PlainBody DEF HostInv
  <1>2. /\ Ahead(h) <=> h.retrans_bit # 0
        /\ Ahead(h) => Body(c, t, D) /\ Same(c, h, {"timers"})
    BY AheadLemma
  <1> HIDE DEF c
  <1>3. Body(q, t, D) /\ Same(q, h, {"timers", "retrans_bit"}) /\ q.retrans_bit = 0 /\ DOMAIN q = Members
    <2>1. CASE Ahead(h)
      <3>1. Same(q, c, {"retrans_bit"}) /\ q.retrans_bit = 0 /\ DOMAIN c = Members /\ DOMAIN q = Members
        BY <1>1, <1>2, <2>1 DEF Same, Members
      <3> HIDE DEF q
      <3>2. Same(q, c, Simple) /\ Plain(q, t, D) /\ (c.term_bit # 0 => q.term_bit # 0)
        <4>1. Plain(c, t, D)
          BY <1>2, <2>1, PlainBody
        <4> QED BY <3>1, <4>1 DEF Same, Members, Simple, Plain
      <3>3. Body(q, t, D)
        BY <1>2, <2>1, <3>2, UpdateBody
      <3> QED BY <1>1, <1>2, <2>1, <3>1, <3>3 DEF Same, Members
    <2>2. CASE ~Ahead(h)
      BY <1>1, <1>2, <2>2 DEF Same
    <2> QED BY <2>1, <2>2
  <1> HIDE DEF q
  <1>4. FirstSample(h.clock - h.last_transmit) \in [RTT : Nat, RTTVAR : Nat, RTO : Nat]
    <2> DEFINE s == h.clock - h.last_transmit
    <2>1. s \in Nat /\ h.estimate \in [RTT : Nat, RTTVAR : Nat, RTO : Nat]
      BY <1>1 DEF Plain
    <2> HIDE DEF s
    <2>2. FirstSample(s) \in [RTT : Nat, RTTVAR : Nat, RTO : Nat]
      BY <2>1, NextSampleType
    <2> QED BY <2>2 DEF s
  <1> DEFINE S == {"destination", "sync_bit", "last_ack", "flag", "estimate"}
  <1>5. /\ Same(f, q, S) /\ f.destination = p.source /\ f.sync_bit = 3 /\ DOMAIN f = Members
        /\ f.estimate = FirstSample(h.clock - h.last_transmit)
    BY <1>3 DEF Same, Members
  <1> HIDE DEF f
  <1>6. Same(f, q, Simple) /\ Plain(f, t, D) /\ (q.term_bit # 0 => f.term_bit # 0)
    <2>1. Plain(q, t, D)
      BY <1>3, PlainBody
    <2> QED BY <1>3, <1>4, <1>5, <2>1 DEF Same, Members, Simple, Plain
  <1>7. Body(f, t, D)
    BY <1>3, <1>6, UpdateBody
  <1>8. /\ f.retrans_bit = 0 /\ ~f.died /\ f.clock = t /\ f.term_bit = 0 /\ f.packets_in_window = 0
        /\ f.window_size = 1 /\ f.in_file = h.in_file
    BY <1>1, <1>3, <1>5 DEF Same, Members, Armed, Fresh
  <1>9. Waits(f, t)
    BY <1>8 DEF Waits
  <1>10. /\ Body(u, t, D) /\ Armed(u)
         /\ Same(u, f, {"retrans", "timers", "sent_so_far", "window_size", "out"})
         /\ u.window_size = f.window_size
    <2>1. ~(f.sync_bit = 3 /\ f.retrans_bit = 2)
      BY <1>8
    <2> QED BY <1>7, <1>8, <1>9, <2>1, HandleTimerLemma
  <1> HIDE DEF u
  <1>11. /\ DOMAIN u = Members /\ u.clock = t /\ u.sync_bit = 3 /\ u.term_bit = 0
         /\ u.packets_in_window < u.window_size /\ u.in_file = h.in_file
    BY <1>5, <1>8, <1>10 DEF Same, Members
  <1>12. /\ Body(g, t, D) /\ Armed(g) /\ Idle(g)
         /\ Same(g, u, FileMembers) /\ g.in_file.flow = u.in_file.flow
    BY <1>10, <1>11, SendFileLemma
  <1> HIDE DEF g
  <1>13. Fresh(g)
    BY <1>11, <1>12 DEF Same, Members, FileMembers, Fresh
  <1>14. Stays(g, h)
    BY <1>1, <1>3, <1>5, <1>10, <1>11, <1>12 DEF Same, Members, FileMembers, Roles, Stays
  <1> QED BY <1>0, <1>12, <1>13, <1>14 DEF HostInv

LEMMA ReceiveAckLemma ==
    ASSUME NEW t \in Nat \ {0}, NEW D, NEW h, HostInv(h, t, D), h.clock = t, NEW p, p.source \in D
    PROVE  HostInv(ReceiveAck(h, p), t, D) /\ Stays(ReceiveAck(h, p), h)
  <1> DEFINE c == Cancel(h)
             q == IF Ahead(h) THEN [c EXCEPT !.retrans = 0, !.retrans_bit = 0] ELSE h
             g == ReceiveAck(h, p)
             S == {"destination", "sync_bit", "flag", "write", "recv_so_far"}
  <1>1. Body(h, t, D) /\ Armed(h) /\ Idle(h) /\ DOMAIN h = Members /\ Plain(h, t, D)
    BY PlainBody DEF HostInv
  <1>2. /\ Ahead(h) <=> h.retrans_bit # 0
        /\ Ahead(h) => Body(c, t, D) /\ Same(c, h, {"timers"})
    BY AheadLemma
  <1>3. /\ Same(g, q, S) /\ g.destination = p.source /\ g.sync_bit = 3
        /\ g.recv_so_far \in {h.recv_so_far, h.recv_so_far + 1, h.recv_so_far + 2, q.recv_so_far,
                              q.recv_so_far + 1, q.recv_so_far + 2}
    <2> HIDE DEF c
    <2>1. DOMAIN q = Members
      BY <1>1, <1>2 DEF Same
    <2>2. g = [q EXCEPT !.destination = p.source, !.sync_bit = 3,
                        !.flag = IF p.id > h.recv_so_far THEN 0 ELSE 1,
                        !.write = @ \/ (p.id > h.recv_so_far /\ p.id = h.recv_so_far + 2),
                        !.recv_so_far = IF p.id > h.recv_so_far /\ p.id = h.recv_so_far + 2 THEN @ + 2
                                        ELSE IF p.id > h.recv_so_far THEN @ + 1 ELSE @]
      BY DEF ReceiveAck, c
    <2> HIDE DEF q, g
    <2> QED BY <2>1, <2>2 DEF Same, Members
  <1> HIDE DEF c, g
  <1>4. /\ Body(q, t, D) /\ Same(q, h, {"timers", "retrans", "retrans_bit"}) /\ DOMAIN q = Members
        /\ q.retrans_bit = 0 /\ q.retrans = 0
    <2>1. CASE Ahead(h)
      <3>1. /\ Same(q, c, {"retrans", "retrans_bit"}) /\ q.retrans = 0 /\ q.retrans_bit = 0
            /\ DOMAIN c = Members /\ DOMAIN q = Members
        BY <1>1, <1>2, <2>1 DEF Same, Members
      <3> HIDE DEF q
      <3>2. Same(q, c, Simple) /\ Plain(q, t, D) /\ (c.term_bit # 0 => q.term_bit # 0)
        <4>1. Plain(c, t, D)
          BY <1>2, <2>1, PlainBody
        <4> QED BY <3>1, <4>1 DEF Same, Members, Simple, Plain
      <3>3. Body(q, t, D)
        BY <1>2, <2>1, <3>2, UpdateBody
      <3> QED BY <1>1, <1>2, <2>1, <3>1, <3>3 DEF Same, Members
    <2>2. CASE ~Ahead(h)
      BY <1>1, <1>2, <2>2 DEF Same, Idle
    <2> QED BY <2>1, <2>2
  <1> HIDE DEF q
  <1>5. Same(g, q, Simple) /\ Plain(g, t, D) /\ (q.term_bit # 0 => g.term_bit # 0)
    <2>1. Plain(q, t, D)
      BY <1>4, PlainBody
    <2>2. g.recv_so_far \in Nat
      BY <1>1, <1>3, <2>1 DEF Plain
    <2> QED BY <1>3, <1>4, <2>1, <2>2 DEF Same, Members, Simple, Plain
  <1>6. Body(g, t, D)
    BY <1>4, <1>5, UpdateBody
  <1>7. Armed(g) /\ Idle(g) /\ Fresh(g)
    BY <1>1, <1>3, <1>4 DEF Same, Members, Armed, Idle, Fresh
  <1>8. Stays(g, h)
    BY <1>1, <1>3, <1>4 DEF Same, Members, Roles, Stays
  <1> QED BY <1>6, <1>7, <1>8 DEF HostInv, g

LEMMA ConnectLemma ==
    ASSUME NEW t \in Nat \ {0}, NEW D, D \subseteq Ends, "none" \in D, NEW h, HostInv(h, t, D), h.clock = t,
           NEW p, p.source \in D
    PROVE  HostInv(Connect(h, p), t, D) /\ Stays(Connect(h, p), h)
  <1>1. Stays(h, h)
    BY DEF Stays
  <1>2. CASE h.term_bit # 0
    BY <1>1, <1>2 DEF Connect
  <1>3. CASE h.term_bit = 0 /\ p.sync_bit = 1 /\ h.sync_bit = 1
    BY <1>3, ReceiveSynLemma DEF Connect
  <1>4. CASE h.term_bit = 0 /\ p.sync_bit = 2 /\ h.sync_bit = 3
    <2> DEFINE g == HandleTimer(h)
    <2>1. Connect(h, p) = g
      BY <1>4 DEF Connect
    <2>2. Body(h, t, D) /\ Armed(h) /\ Idle(h) /\ DOMAIN h = Members
      BY PlainBody DEF HostInv
    <2>3. Waits(h, t)
      BY <2>2 DEF Armed, Waits
    <2>4. /\ Body(g, t, D) /\ Armed(g)
          /\ Same(g, h, {"retrans", "timers", "sent_so_far", "window_size", "out"})
          /\ h.retrans_bit = 0 => g.retrans = h.retrans /\ g.timers = h.timers
      BY <2>2, <2>3, HandleTimerLemma
    <2> HIDE DEF g
    <2>5. Idle(g) /\ Fresh(g)
      BY <1>4, <2>2, <2>4 DEF Same, Members, Idle, Fresh
    <2>6. Stays(g, h)
      BY <2>2, <2>4 DEF Same, Members, Roles, Stays
    <2> QED BY <2>1, <2>4, <2>5, <2>6 DEF HostInv
  <1>5. CASE h.term_bit = 0 /\ p.sync_bit = 2 /\ h.sync_bit = 1
    BY <1>5, ReceiveSynAckLemma DEF Connect
  <1>6. CASE h.term_bit = 0 /\ p.sync_bit = 3 /\ h.sync_bit = 2
    BY <1>6, ReceiveAckLemma DEF Connect
  <1>7. CASE /\ h.term_bit = 0 /\ ~(p.sync_bit = 1 /\ h.sync_bit = 1)
             /\ ~(p.sync_bit = 2 /\ h.sync_bit = 3) /\ ~(p.sync_bit = 2 /\ h.sync_bit = 1)
             /\ ~(p.sync_bit = 3 /\ h.sync_bit = 2)
    BY <1>1, <1>7 DEF Connect
  <1> QED BY <1>2, <1>3, <1>4, <1>5, <1>6, <1>7

LEMMA TransferLemma ==
    ASSUME NEW t \in Nat \ {0}, NEW D, D \subseteq Ends, "none" \in D, NEW h, HostInv(h, t, D), h.clock = t,
           NEW p \in PacketType, NEW window \in Windows
    PROVE  HostInv(Transfer(h, p, window), t, D) /\ Stays(Transfer(h, p, window), h)
  <1> DEFINE g == Transfer(h, p, window)
  <1>1. Body(h, t, D) /\ Armed(h) /\ Idle(h) /\ DOMAIN h = Members /\ Plain(h, t, D) /\ Stays(h, h)
    BY PlainBody DEF HostInv, Stays
  <1>2. CASE h.sync_bit # 3 \/ h.flag = 1
    BY <1>1, <1>2 DEF Transfer
  <1>3. CASE h.sync_bit = 3 /\ h.flag # 1
    <2>1. ASSUME NEW f, Same(f, h, AckMembers \cup FileMembers \cup DataMembers),
                 f.in_file.flow = h.in_file.flow
          PROVE  Fresh(f) /\ Stays(f, h)
      BY <1>1, <1>3, <2>1 DEF Same, Members, AckMembers, FileMembers, DataMembers, Roles, Stays, Fresh
    <2> DEFINE s == SentWindowSync(h, p.ack_id, window)
    <2>2. Body(s, t, D) /\ Armed(s) /\ Idle(s) /\ Same(s, h, AckMembers)
      BY <1>1, <1>3, SentWindowSyncLemma
    <2> HIDE DEF s
    <2>3. DOMAIN s = Members /\ s.clock = t /\ s.sync_bit = 3 /\ s.in_file = h.in_file
      BY <1>1, <1>3, <2>2 DEF Same, Members, AckMembers
    <2>4. CASE p.FIN = 0 /\ h.sender
      <3> DEFINE f == SendFile(s)
      <3>1. g = f
        BY <1>3, <2>4 DEF Transfer, s
      <3>2. /\ Body(f, t, D) /\ Armed(f) /\ Idle(f)
            /\ Same(f, s, FileMembers) /\ f.in_file.flow = s.in_file.flow
        BY <2>2, <2>3, SendFileLemma
      <3> HIDE DEF f, g
      <3>3. Same(f, h, AckMembers \cup FileMembers \cup DataMembers)
        BY <1>1, <2>2, <2>3, <3>2 DEF Same
      <3> QED BY <2>1, <2>3, <3>1, <3>2, <3>3 DEF HostInv, g
    <2>5. CASE p.FIN = 0 /\ ~h.sender
      <3> DEFINE f == RecvWindowSync(h, p)
      <3>1. g = f
        BY <1>3, <2>5 DEF Transfer
      <3>2. Body(f, t, D) /\ Armed(f) /\ Idle(f) /\ Same(f, h, DataMembers)
        BY <1>1, RecvWindowSyncLemma
      <3> HIDE DEF f, g
      <3>3. f.in_file = h.in_file /\ Same(f, h, AckMembers \cup FileMembers \cup DataMembers)
        BY <1>1, <3>2 DEF Same, Members, DataMembers
      <3> QED BY <2>1, <3>1, <3>2, <3>3 DEF HostInv, g
    <2>6. CASE p.FIN = 1 /\ p.ACK = 0 /\ h.sender
      <3>1. g = s
        BY <1>3, <2>6 DEF Transfer, s
      <3>2. Same(s, h, AckMembers \cup FileMembers \cup DataMembers)
        BY <2>2 DEF Same
      <3> HIDE DEF g
      <3> QED BY <2>1, <2>2, <2>3, <3>1, <3>2 DEF HostInv, g
    <2>7. CASE p.FIN = 1 /\ p.ACK = 0 /\ ~h.sender
      <3> DEFINE f == ReceiveFin(h, p)
      <3>1. g = f
        BY <1>3, <2>7 DEF Transfer
      <3>2. Body(f, t, D) /\ Armed(f) /\ Idle(f) /\ Same(f, h, DataMembers)
        BY <1>1, ReceiveFinLemma
      <3> HIDE DEF f, g
      <3>3. f.in_file = h.in_file /\ Same(f, h, AckMembers \cup FileMembers \cup DataMembers)
        BY <1>1, <3>2 DEF Same, Members, DataMembers
      <3> QED BY <2>1, <3>1, <3>2, <3>3 DEF HostInv, g
    <2>8. CASE p.FIN = 1 /\ p.ACK = 1 /\ h.sender /\ h.term_bit = 1
      <3> DEFINE e == [h EXCEPT !.term_bit = 2]
                 f == SentWindowSync(e, p.ack_id, window)
      <3>1. g = f
        BY <1>3, <2>8 DEF Transfer
      <3>2. Same(e, h, {"term_bit"}) /\ e.term_bit = 2 /\ DOMAIN e = Members
        BY <1>1 DEF Same, Members
      <3> HIDE DEF e, g
      <3>3. Same(e, h, Simple) /\ Plain(e, t, D) /\ (h.term_bit # 0 => e.term_bit # 0)
        BY <1>1, <3>2 DEF Same, Members, Simple, Plain
      <3>4. Body(e, t, D)
        BY <1>1, <3>3, UpdateBody
      <3>5. Armed(e) /\ Idle(e) /\ e.clock = t /\ e.sync_bit = 3 /\ e.in_file = h.in_file
        BY <1>1, <1>3, <3>2 DEF Same, Members, Armed, Idle
      <3>6. Body(f, t, D) /\ Armed(f) /\ Idle(f) /\ Same(f, e, AckMembers)
        BY <3>4, <3>5, SentWindowSyncLemma
      <3> HIDE DEF f
      <3>7. f.in_file = h.in_file /\ Same(f, h, AckMembers \cup FileMembers \cup DataMembers)
        BY <1>1, <3>2, <3>5, <3>6 DEF Same, Members, AckMembers, FileMembers
      <3> QED BY <2>1, <3>1, <3>6, <3>7 DEF HostInv, g
    <2>9. CASE /\ ~(p.FIN = 0) /\ ~(p.FIN = 1 /\ p.ACK = 0)
               /\ ~(p.FIN = 1 /\ p.ACK = 1 /\ h.sender /\ h.term_bit = 1)
      BY <1>1, <1>3, <2>9 DEF Transfer
    <2>10. p.FIN \in 0..1 /\ h.sender \in BOOLEAN
      BY <1>1 DEF PacketType, Body, Names
    <2> QED BY <2>4, <2>5, <2>6, <2>7, <2>8, <2>9, <2>10
  <1> QED BY <1>2, <1>3

\* Every packet leaves the members of its receiver together.
LEMMA ReceiveLemma ==
    ASSUME NEW t \in Nat \ {0}, NEW D, D \subseteq Ends, "none" \in D, NEW h, HostInv(h, t, D), h.clock = t,
           NEW p \in PacketType, p.source \in D, NEW window \in Windows
    PROVE  HostInv(Receive(h, p, window), t, D) /\ Stays(Receive(h, p, window), h)
  <1> DEFINE c == Count(h, p)
             n == Connect(c, p)
             g == Transfer(n, p, window)
  <1>1. HostInv(c, t, D) /\ Stays(c, h)
    BY CountLemma
  <1> HIDE DEF c
  <1>2. c.clock = t
    BY <1>1 DEF Stays, Roles
  <1>3. HostInv(n, t, D) /\ Stays(n, c)
    BY <1>1, <1>2, ConnectLemma
  <1> HIDE DEF n
  <1>4. n.clock = t
    BY <1>2, <1>3 DEF Stays, Roles
  <1>5. HostInv(g, t, D) /\ Stays(g, n)
    BY <1>3, <1>4, TransferLemma
  <1> HIDE DEF g
  <1>6. Stays(g, h)
    BY <1>1, <1>3, <1>5 DEF Stays, Roles
  <1> QED BY <1>5, <1>6 DEF Receive, c, n, g

---------------------------------------------------------------------------
(* Start-up and events.                                                    *)

\* Nothing of a host goes stale before its next timer.
LEMMA LaterHost ==
    ASSUME NEW t \in Nat, NEW u \in Nat, t =< u, NEW D, NEW E, D \subseteq E, NEW h, HostInv(h, t, D),
           \A x \in DOMAIN h.timers : u =< x
    PROVE  HostInv(h, u, E)
  <1>1. Names(h, E)
    BY DEF HostInv, Body, Names
  <1>2. Timing(h, u)
    BY DEF HostInv, Body, Timing
  <1>3. \A p : Mine(p, h.address, D) => Mine(p, h.address, E)
    BY DEF Mine
  <1>4. Sending(h, E)
    BY <1>3 DEF HostInv, Body, Sending
  <1>5. Leaving(h, E)
    BY DEF HostInv, Body, Leaving
  <1> QED BY <1>1, <1>2, <1>4, <1>5 DEF HostInv, Body

\* A host between two events.
Rest(h) == [h EXCEPT !.out = NothingOut, !.text = <<>>, !.clock = 0, !.flag = 0, !.write = FALSE]

LEMMA NothingLeaves ==
    /\ NothingOut \in [Ends -> Seq(PacketType)]
    /\ \A a \in Ends : DOMAIN NothingOut[a] = {}
  <1>1. <<>> \in Seq(PacketType) /\ DOMAIN <<>> = {}
    OBVIOUS
  <1> QED BY <1>1 DEF NothingOut, Ends

LEMMA RestBody ==
    ASSUME NEW t, NEW D, NEW h, Body(h, t, D)
    PROVE  /\ Body(Rest(h), t, D) /\ Rest(h).out = NothingOut /\ Rest(h).text = <<>>
           /\ Same(Rest(h), h, {"out", "text", "clock", "flag", "write"})
  <1> DEFINE g == Rest(h)
             f == [h EXCEPT !.text = <<>>, !.clock = 0, !.flag = 0, !.write = FALSE]
  <1>1. Body(h, t, D) /\ DOMAIN h = Members /\ Plain(h, t, D)
    BY PlainBody
  <1>2. Same(f, h, {"text", "clock", "flag", "write"}) /\ DOMAIN f = Members
    BY <1>1 DEF Same, Members
  <1>3. Same(g, f, {"out"}) /\ g.out = NothingOut /\ DOMAIN g = Members /\ g.text = <<>>
    BY <1>1 DEF Same, Members, Rest
  <1> HIDE DEF f, g
  <1>4. Same(f, h, Simple) /\ Plain(f, t, D) /\ (h.term_bit # 0 => f.term_bit # 0)
    BY <1>1, <1>2 DEF Same, Members, Simple, Plain
  <1>5. Body(f, t, D)
    BY <1>1, <1>4, UpdateBody
  <1>6. Names(g, D)
    BY <1>3, <1>5 DEF Body, Names, Same, Members
  <1>7. Timing(g, t)
    BY <1>2, <1>3, <1>5 DEF Body, Timing, Same, Members
  <1>8. Receiving(g)
    BY <1>2, <1>3, <1>5 DEF Body, Receiving, Same, Members
  <1>9. Sending(g, D)
    BY <1>2, <1>3, <1>5 DEF Body, Sending, Same, Members
  <1>10. Leaving(g, D)
    BY <1>3, NothingLeaves DEF Leaving, Ends
  <1>11. Same(g, h, {"out", "text", "clock", "flag", "write"})
    BY <1>1, <1>2, <1>3 DEF Same, Members
  <1> QED BY <1>3, <1>6, <1>7, <1>8, <1>9, <1>10, <1>11 DEF Body, g

LEMMA RestLemma ==
    ASSUME NEW t, NEW D, NEW h, HostInv(h, t, D)
    PROVE  /\ HostInv(Rest(h), t, D) /\ Rest(h).out = NothingOut /\ Rest(h).text = <<>>
           /\ Same(Rest(h), h, {"out", "text", "clock", "flag", "write"})
  <1> DEFINE g == Rest(h)
  <1>1. Body(h, t, D) /\ Armed(h) /\ Idle(h) /\ Fresh(h)
    BY DEF HostInv
  <1>2. /\ Body(g, t, D) /\ g.out = NothingOut /\ g.text = <<>>
        /\ Same(g, h, {"out", "text", "clock", "flag", "write"})
    BY <1>1, RestBody
  <1> HIDE DEF g
  <1>3. Armed(g) /\ Idle(g) /\ Fresh(g)
    BY <1>1, <1>2 DEF Same, Members, Armed, Idle, Fresh
  <1> QED BY <1>2, <1>3 DEF HostInv, g

\* reset() leaves nothing to wait for.
ResetMembers == {"sync_bit", "term_bit", "retrans", "retrans_bit", "packets_in_window", "window_size",
                 "ter_seq", "estimate", "flag", "last_ack", "sent_so_far", "recv_so_far",
                 "sent_window", "recv_window", "sender"}

LEMMA ResetLemma ==
    ASSUME NEW t \in Nat, NEW D, NEW h, Body(h, t, D)
    PROVE  LET g == Reset(h)
           IN  /\ Body(g, t, D) /\ Same(g, h, ResetMembers)
               /\ g.sync_bit = 1 /\ g.term_bit = 0 /\ g.retrans_bit = 0 /\ g.retrans = 0
               /\ g.packets_in_window = 0 /\ g.window_size = 1 /\ DOMAIN g.sent_window = {}
               /\ ~g.sender
  <1> DEFINE g == Reset(h)
  <1>1. DOMAIN h = Members /\ Plain(h, t, D)
    BY PlainBody
  <1>2. /\ Same(g, h, ResetMembers) /\ DOMAIN g = Members
        /\ g.sync_bit = 1 /\ g.term_bit = 0 /\ g.retrans_bit = 0 /\ g.retrans = 0
        /\ g.packets_in_window = 0 /\ g.window_size = 1 /\ g.sent_window = <<>> /\ g.recv_window = <<>>
        /\ g.sent_so_far = 0 /\ g.recv_so_far = 0 /\ g.sender = FALSE
        /\ g.estimate = Restart(h.estimate)
    BY <1>1 DEF Reset, Same, Members, ResetMembers
  <1> HIDE DEF g
  <1>3. DOMAIN <<>> = {} /\ IsFiniteSet({}) /\ Cardinality({}) = 0
    BY FS_EmptySet
  <1>4. /\ DOMAIN g.sent_window = {} /\ DOMAIN g.recv_window = {}
        /\ IsFiniteSet(DOMAIN g.sent_window) /\ Cardinality(DOMAIN g.sent_window) = 0
        /\ IsFiniteSet(DOMAIN g.recv_window)
    BY <1>2, <1>3
  <1>5. g.estimate \in [RTT : Nat, RTTVAR : Nat, RTO : Nat]
    <2>1. \A e \in [RTT : Nat, RTTVAR : Nat, RTO : Nat] : Restart(e) \in [RTT : Nat, RTTVAR : Nat, RTO : Nat]
      BY TimeoutAssumption DEF Restart
    <2> QED BY <1>1, <1>2, <2>1 DEF Plain
  <1>6. Names(g, D)
    <2>1. /\ g.address = h.address /\ g.destination = h.destination /\ g.died = h.died
          /\ g.dest_map = h.dest_map
      BY <1>1, <1>2 DEF Same, Members, ResetMembers
    <2>2. g.sync_bit \in 1..3 /\ g.term_bit \in 0..2 /\ g.retrans_bit \in 0..2
      BY <1>2
    <2>3. g.sender \in BOOLEAN
      BY <1>2
    <2> QED BY <1>2, <2>1, <2>2, <2>3 DEF Body, Names
  <1>7. Timing(g, t)
    <2>1. /\ g.clock = h.clock /\ g.timers = h.timers
          /\ g.send_time = h.send_time /\ g.last_transmit = h.last_transmit
      BY <1>1, <1>2 DEF Same, Members, ResetMembers
    <2>2. Timing(h, t)
      BY DEF Body
    <2>3. g.retrans \in Nat
      BY <1>2
    <2> QED BY <1>2, <1>5, <2>1, <2>2, <2>3 DEF Timing
  <1>8. Receiving(g)
    BY <1>2, <1>4 DEF Receiving
  <1>9. Sending(g, D)
    <2>1. g.in_file = h.in_file /\ g.retransmit_pkt = h.retransmit_pkt /\ g.address = h.address
      BY <1>1, <1>2 DEF Same, Members, ResetMembers
    <2>2. /\ h.in_file \in [flow : Nat, chunk : 0..Chunks, is_open : BOOLEAN]
          /\ h.in_file.is_open => h.in_file.flow \in FlowIds
      BY DEF Body, Sending
    <2>3. g.packets_in_window =< g.in_file.chunk
      BY <1>2, <2>1, <2>2
    <2> QED BY <1>2, <1>4, <2>1, <2>2, <2>3 DEF Body, Sending
  <1>10. Leaving(g, D)
    BY <1>1, <1>2 DEF Body, Leaving, Same, Members, ResetMembers
  <1> QED BY <1>2, <1>4, <1>6, <1>7, <1>8, <1>9, <1>10 DEF Body, g

LEMMA BecomeDestinationLemma ==
    ASSUME NEW t \in Nat, NEW D, NEW h, HostInv(h, t, D), NEW k
    PROVE  LET g == BecomeDestination(h, k)
           IN  /\ HostInv(g, t, D) /\ ~g.sender
               /\ g.address = h.address /\ g.out = h.out /\ g.text = h.text /\ g.timers = h.timers
  <1> DEFINE r == Reset(h)
             g == [r EXCEPT !.out_file = k]
  <1>1. Body(h, t, D) /\ Armed(h) /\ DOMAIN h = Members
    BY PlainBody DEF HostInv
  <1>2. /\ Body(r, t, D) /\ Same(r, h, ResetMembers)
        /\ r.sync_bit = 1 /\ r.term_bit = 0 /\ r.retrans_bit = 0 /\ r.retrans = 0
        /\ r.packets_in_window = 0 /\ r.window_size = 1 /\ DOMAIN r.sent_window = {}
        /\ ~r.sender
    BY <1>1, ResetLemma
  <1> HIDE DEF r
  <1>3. DOMAIN r = Members /\ Plain(r, t, D)
    BY <1>2, PlainBody
  <1>4. Same(g, r, {"out_file"}) /\ DOMAIN g = Members
    BY <1>3 DEF Same, Members
  <1> HIDE DEF g
  <1>5. Same(g, r, Simple) /\ Plain(g, t, D) /\ (r.term_bit # 0 => g.term_bit # 0)
    BY <1>3, <1>4 DEF Same, Members, Simple, Plain
  <1>6. Body(g, t, D)
    BY <1>2, <1>5, UpdateBody
  <1>7. Armed(g) /\ Idle(g) /\ Fresh(g)
    BY <1>1, <1>2, <1>3, <1>4 DEF Same, Members, ResetMembers, Armed, Idle, Fresh
  <1>8. /\ ~g.sender
        /\ g.address = h.address /\ g.out = h.out /\ g.text = h.text /\ g.timers = h.timers
    BY <1>1, <1>2, <1>3, <1>4 DEF Same, Members, ResetMembers
  <1> QED BY <1>6, <1>7, <1>8 DEF HostInv, BecomeDestination, g, r

SyncMembers == ResetMembers \cup {"destination", "dest_map", "in_file"}

\* sync() makes a host the source of a flow.
LEMMA SyncLemma ==
    ASSUME NEW t \in Nat, NEW D, NEW h, Body(h, t, D), NEW k \in FlowIds, Flows[k].to \in D
    PROVE  LET y == Sync(h, k)
           IN  /\ Body(y, t, D) /\ Same(y, h, SyncMembers)
               /\ y.sender = TRUE /\ y.destination = Flows[k].to /\ y.in_file.flow = k
               /\ y.sync_bit = 1 /\ y.term_bit = 0 /\ y.packets_in_window = 0 /\ y.window_size = 1
               /\ DOMAIN y.sent_window = {}
  <1> DEFINE r == Reset(h)
             y == Sync(h, k)
             S == {"sender", "destination", "dest_map", "in_file"}
  <1>1. DOMAIN h = Members /\ h.in_file \in [flow : Nat, chunk : 0..Chunks, is_open : BOOLEAN]
    BY DEF Body, Names, Sending
  <1>2. /\ Body(r, t, D) /\ Same(r, h, ResetMembers)
        /\ r.sync_bit = 1 /\ r.term_bit = 0 /\ r.retrans_bit = 0 /\ r.retrans = 0
        /\ r.packets_in_window = 0 /\ r.window_size = 1 /\ DOMAIN r.sent_window = {}
    BY ResetLemma
  <1>3. DOMAIN r = Members /\ Plain(r, t, D)
    BY <1>2, PlainBody
  <1>4. /\ Same(y, r, S) /\ DOMAIN y = Members
        /\ y.sender = TRUE /\ y.destination = Flows[k].to
        /\ y.dest_map = [x \in DOMAIN r.dest_map \ {h.clock} |-> r.dest_map[x]]
        /\ y.in_file = [flow |-> k, chunk |-> IF h.in_file.is_open THEN Chunks ELSE 0, is_open |-> TRUE]
    <2> HIDE DEF r
    <2> QED BY <1>3 DEF Sync, Same, Members, r
  <1> HIDE DEF r, y
  <1>5. Body(y, t, D)
    <2>1. Names(y, D)
      <3>1. /\ y.address = r.address /\ y.sync_bit = r.sync_bit /\ y.term_bit = r.term_bit
            /\ y.retrans_bit = r.retrans_bit /\ y.died = r.died
        BY <1>3, <1>4 DEF Same, Members
      <3>2. \A x \in DOMAIN y.dest_map : y.dest_map[x] \in From(y.address)
        BY <1>2, <1>4, <3>1 DEF Body, Names
      <3>3. y.sender \in BOOLEAN
        BY <1>4
      <3> QED BY <1>2, <1>4, <3>1, <3>2, <3>3 DEF Body, Names
    <2>2. Timing(y, t)
      BY <1>2, <1>3, <1>4 DEF Body, Timing, Same, Members
    <2>3. Receiving(y) /\ Leaving(y, D)
      <3>1. /\ y.recv_so_far = r.recv_so_far /\ y.recv_window = r.recv_window
            /\ y.out = r.out /\ y.address = r.address
        BY <1>3, <1>4 DEF Same, Members
      <3>2. Receiving(y)
        BY <1>2, <3>1 DEF Body, Receiving
      <3>3. Leaving(y, D)
        BY <1>2, <3>1 DEF Body, Leaving
      <3> QED BY <3>2, <3>3
    <2>4. /\ y.in_file \in [flow : Nat, chunk : 0..Chunks, is_open : BOOLEAN] /\ 0 =< y.in_file.chunk
          /\ y.in_file.flow \in FlowIds
      BY <1>4, ChunksAssumption DEF FlowIds
    <2>5. Sending(y, D)
      <3>1. /\ y.sent_so_far = r.sent_so_far /\ y.sent_window = r.sent_window
            /\ y.retransmit_pkt = r.retransmit_pkt /\ y.address = r.address
            /\ y.window_size = r.window_size /\ y.term_bit = r.term_bit
            /\ y.packets_in_window = 0 /\ r.packets_in_window = 0
        BY <1>2, <1>3, <1>4 DEF Same, Members
      <3> QED BY <1>2, <2>4, <3>1 DEF Body, Sending
    <2> QED BY <2>1, <2>2, <2>3, <2>5 DEF Body
  <1>6. /\ y.sync_bit = 1 /\ y.term_bit = 0 /\ y.packets_in_window = 0 /\ y.window_size = 1
        /\ DOMAIN y.sent_window = {} /\ y.in_file.flow = k /\ Same(y, h, SyncMembers)
    BY <1>1, <1>2, <1>3, <1>4 DEF Same, Members, SyncMembers, ResetMembers
  <1> QED BY <1>3, <1>4, <1>5, <1>6 DEF y

\* The source of a new flow waits for the SYN-ACK.
LEMMA StartLemma ==
    ASSUME NEW t \in Nat, NEW D, D \subseteq Ends, "none" \in D, NEW h, Body(h, t, D), ~h.died, h.clock = t,
           NEW k \in FlowIds, Flows[k].to \in D
    PROVE  LET g == HandleTimer([Set(Sync(h, k), 1) EXCEPT !.last_transmit = h.clock])
           IN  HostInv(g, t, D) /\ g.address = h.address /\ g.sender /\ g.in_file.flow = k
  <1> DEFINE y == Sync(h, k)
             s == Set(y, 1)
             l == [s EXCEPT !.last_transmit = h.clock]
             g == HandleTimer(l)
  <1>1. /\ Body(y, t, D) /\ Same(y, h, SyncMembers)
        /\ y.sender = TRUE /\ y.in_file.flow = k /\ y.sync_bit = 1
        /\ y.packets_in_window = 0 /\ y.window_size = 1 /\ DOMAIN y.sent_window = {}
    <2>1. LET z == Sync(h, k)
          IN  /\ Body(z, t, D) /\ Same(z, h, SyncMembers)
              /\ z.sender = TRUE /\ z.destination = Flows[k].to /\ z.in_file.flow = k
              /\ z.sync_bit = 1 /\ z.term_bit = 0 /\ z.packets_in_window = 0 /\ z.window_size = 1
              /\ DOMAIN z.sent_window = {}
      BY SyncLemma, Zenon
    <2> QED BY <2>1
  <1> HIDE DEF y
  <1>6. y.clock = t /\ ~y.died /\ y.address = h.address
    BY <1>1 DEF Same, Members, SyncMembers, ResetMembers
  <1>7. /\ Body(s, t, D) /\ Same(s, y, {"retrans", "retrans_bit", "timers"})
        /\ s.retrans_bit = 1 /\ s.retrans \in DOMAIN s.timers
    BY <1>1, <1>6, SetLemma
  <1> HIDE DEF s
  <1>8. DOMAIN s = Members /\ Plain(s, t, D)
    BY <1>7, PlainBody
  <1>9. Same(l, s, {"last_transmit"}) /\ l.last_transmit = t /\ DOMAIN l = Members
    BY <1>8 DEF Same, Members
  <1> HIDE DEF l
  <1>10. Same(l, s, Simple) /\ Plain(l, t, D) /\ (s.term_bit # 0 => l.term_bit # 0)
    BY <1>8, <1>9 DEF Same, Members, Simple, Plain
  <1>11. Body(l, t, D)
    BY <1>7, <1>10, UpdateBody
  <1>12. /\ l.clock = t /\ ~l.died /\ l.sync_bit = 1 /\ l.retrans_bit = 1 /\ l.retrans \in DOMAIN l.timers
         /\ l.packets_in_window = 0 /\ l.window_size = 1 /\ DOMAIN l.sent_window = {}
         /\ l.sender = TRUE /\ l.address = h.address /\ l.in_file.flow = k
    BY <1>1, <1>6, <1>7, <1>8, <1>9 DEF Same, Members
  <1>13. Waits(l, t)
    BY <1>12 DEF Waits
  <1>14. /\ Body(g, t, D) /\ Armed(g)
         /\ Same(g, l, {"retrans", "timers", "sent_so_far", "window_size", "out"})
         /\ g.window_size = l.window_size
    <2>1. ~(l.sync_bit = 3 /\ l.retrans_bit = 2)
      BY <1>12
    <2> QED BY <1>11, <1>12, <1>13, <2>1, HandleTimerLemma
  <1> HIDE DEF g
  <1>15. /\ Idle(g) /\ Fresh(g)
         /\ g.address = h.address /\ g.sender /\ g.in_file.flow = k
    BY <1>9, <1>12, <1>14 DEF Same, Members, Idle, Fresh
  <1> QED BY <1>14, <1>15 DEF HostInv, g, l, s, y

\* A host that the configuration has set up.
LEMMA FreshLemma ==
    ASSUME NEW a \in Addresses, NEW dup \in {0, 1}, NEW times \in [FlowIds -> StartTimes]
    PROVE  LET h == FreshHost(a, dup, times)
           IN  HostInv(h, 0, {"none"}) /\ h.address = a /\ h.out = NothingOut /\ h.text = <<>>
  <1> DEFINE h == FreshHost(a, dup, times)
             at(x) == {k \in From(a) : times[k] = x}
             own == {times[k] : k \in From(a)}
             first(x) == CHOOSE k \in at(x) : \A l \in at(x) : k =< l
             many(x) == Cardinality(at(x))
  <1>1. DOMAIN h = Members
    BY DEF FreshHost, Members
  <1>2. /\ h.dest_map = [x \in own |-> first(x)] /\ h.timers = [x \in own |-> many(x)]
    BY DEF FreshHost
  <1>3. /\ h.address = a /\ h.destination = "none" /\ h.sync_bit = 1 /\ h.term_bit = 0
        /\ h.retrans = 0 /\ h.retrans_bit = 0 /\ h.sent_so_far = 0 /\ h.recv_so_far = 0
        /\ h.sent_window = <<>> /\ h.recv_window = <<>> /\ h.packets_in_window = 0
        /\ h.window_size = 1 /\ h.retransmit_pkt = NULL
        /\ h.last_transmit = 0 /\ h.send_time = <<>> /\ h.out = NothingOut /\ h.text = <<>>
    BY DEF FreshHost
  <1>4. /\ h.estimate = [RTT |-> 0, RTTVAR |-> 0, RTO |-> timeout]
        /\ h.in_file = [flow |-> 0, chunk |-> 0, is_open |-> FALSE]
    BY DEF FreshHost
  <1>5. h.sender \in BOOLEAN
    BY DEF FreshHost
  <1>6. h.died \in BOOLEAN /\ ~h.died
    BY DEF FreshHost
  <1> HIDE DEF h
  <1>7. FlowIds \subseteq Nat /\ IsFiniteSet(FlowIds) /\ From(a) \subseteq FlowIds
    <2>1. Len(Flows) \in Nat
      BY FlowsAssumption
    <2>2. IsFiniteSet(1..Len(Flows))
      BY <2>1, FS_Interval
    <2> QED BY <2>1, <2>2 DEF FlowIds, From
  <1>8. ASSUME NEW x \in own PROVE first(x) \in at(x) /\ many(x) \in Nat \ {0}
    <2>1. at(x) # {} /\ at(x) \subseteq FlowIds
      BY <1>7
    <2>2. \E k \in at(x) : \A l \in at(x) : k =< l
      <3> HIDE DEF at
      <3>1. at(x) \in SUBSET Nat
        BY <1>7, <2>1
      <3> QED BY <2>1, <3>1, Least
    <2>3. IsFiniteSet(at(x))
      <3> HIDE DEF at
      <3> QED BY <1>7, <2>1, FS_Subset
    <2>4. Cardinality(at(x)) \in Nat \ {0}
      <3> HIDE DEF at
      <3> QED BY <2>1, <2>3, FS_CardinalityType, FS_EmptySet
    <2> HIDE DEF at
    <2> QED BY <2>2, <2>4
  <1>9. own \subseteq Nat
    BY <1>7, TimesAssumption
  <1>10. Names(h, {"none"})
    <2>1. \A x \in DOMAIN h.dest_map : h.dest_map[x] \in From(a)
      <3>1. ASSUME NEW x \in own PROVE h.dest_map[x] \in From(a)
        <4>1. h.dest_map[x] = first(x)
          BY <1>2
        <4>2. first(x) \in at(x)
          BY <1>8
        <4>3. at(x) \subseteq From(a)
          OBVIOUS
        <4> HIDE DEF first, at
        <4> QED BY <4>1, <4>2, <4>3
      <3>2. DOMAIN h.dest_map = own
        BY <1>2
      <3> QED BY <3>1, <3>2
    <2> QED BY <1>1, <1>3, <1>5, <1>6, <2>1 DEF Names
  <1>11. Timing(h, 0)
    <2>1. IsABag(h.timers) /\ DOMAIN h.timers = own
      <3>1. ASSUME NEW x \in own PROVE h.timers[x] = many(x) /\ many(x) \in Nat \ {0}
        BY <1>2, <1>8
      <3>2. DOMAIN h.timers = own /\ h.timers = [x \in own |-> h.timers[x]]
        BY <1>2
      <3> HIDE DEF many, own
      <3> QED BY <3>1, <3>2 DEF IsABag
    <2>2. DOMAIN h.send_time = {}
      BY <1>3
    <2>3. h.estimate \in [RTT : Nat, RTTVAR : Nat, RTO : Nat]
      BY <1>4, TimeoutAssumption
    <2>4. \A x \in DOMAIN h.timers : x \in Nat /\ 0 =< x
      BY <1>9, <2>1
    <2> QED BY <1>3, <2>1, <2>2, <2>3, <2>4 DEF Timing
  <1>12. DOMAIN h.sent_window = {} /\ DOMAIN h.recv_window = {}
    BY <1>3
  <1>13. Receiving(h)
    BY <1>3, <1>12, FS_EmptySet DEF Receiving
  <1>14. Sending(h, {"none"})
    <2>1. Mine(h.retransmit_pkt, a, {"none"})
      BY <1>3 DEF NULL, Mine, PacketType, Ends, Payloads
    <2>2. IsFiniteSet(DOMAIN h.sent_window) /\ Cardinality(DOMAIN h.sent_window) = 0
      BY <1>12, FS_EmptySet
    <2>3. h.in_file \in [flow : Nat, chunk : 0..Chunks, is_open : BOOLEAN] /\ h.in_file.chunk = 0
          /\ ~h.in_file.is_open
      BY <1>4, ChunksAssumption
    <2> QED BY <1>3, <1>12, <2>1, <2>2, <2>3 DEF Sending
  <1>15. Leaving(h, {"none"})
    BY <1>3, NothingLeaves DEF Leaving, Ends
  <1>16. Armed(h) /\ Idle(h) /\ Fresh(h)
    BY <1>3, <1>6, <1>12 DEF Armed, Idle, Fresh
  <1> QED BY <1>3, <1>10, <1>11, <1>13, <1>14, <1>15, <1>16 DEF HostInv, Body, h

---------------------------------------------------------------------------
(* All hosts and the network.                                              *)

\* The hosts that a flow has reached: no other sends or receives.
Met(hs, bg) == {a \in Addresses : ~hs[a].sender \/ hs[a].in_file.flow \in bg}

Peers(R, a) == {"none"} \cup (IF a \in R THEN R ELSE {})

HostsInv(hs, R, n) ==
    /\ DOMAIN hs = Addresses
    /\ \A a \in Addresses : /\ HostInv(hs[a], n, Peers(R, a)) /\ hs[a].address = a
                            /\ hs[a].out = NothingOut /\ hs[a].text = <<>>

Sent == [at : Nat \ {0}, packet : PacketType]

\* The packets of a path arrive in their order, within the time it takes.
PathInv(q, l, n) ==
    /\ q \in Seq(Sent)
    /\ \A j \in DOMAIN q : n =< q[j].at /\ q[j].at =< n + Latency /\ q[j].packet.source = l[1]
    /\ \A i, j \in DOMAIN q : i < j => q[i].at =< q[j].at

NetInv(ch, R, n) ==
    /\ DOMAIN ch = Addresses \X Addresses
    /\ \A l \in DOMAIN ch : PathInv(ch[l], l, n) /\ (ch[l] # <<>> => l[1] \in R /\ l[2] \in R)

FlowsInv ==
    /\ now \in Nat /\ losses \in 0..MaxLosses /\ clash \in BOOLEAN
    /\ begun \subseteq FlowIds /\ torn \subseteq begun

IInv == FlowsInv /\ HostsInv(hosts, Met(hosts, begun), now) /\ NetInv(net, Met(hosts, begun), now)

LEMMA InitInv == Init => IInv
  <1> SUFFICES ASSUME Init PROVE IInv
    OBVIOUS
  <1>1. FlowsInv
    <2>1. now \in Nat /\ losses \in 0..MaxLosses /\ begun \subseteq FlowIds /\ torn \subseteq begun
      BY LossesAssumption DEF Init
    <2>2. clash \in BOOLEAN
      BY DEF Init
    <2> QED BY <2>1, <2>2 DEF FlowsInv
  <1>2. PICK dup \in {0, 1} : hosts = [a \in Addresses |-> FreshHost(a, dup, start)]
    BY DEF Init
  <1>3. start \in [FlowIds -> StartTimes] /\ now = 0
    BY DEF Init
  <1> DEFINE R == Met(hosts, begun)
  <1>4. ASSUME NEW a \in Addresses
        PROVE  /\ HostInv(hosts[a], now, Peers(R, a)) /\ hosts[a].address = a
               /\ hosts[a].out = NothingOut /\ hosts[a].text = <<>>
    <2> DEFINE h == hosts[a]
    <2>1. hosts[a] = FreshHost(a, dup, start)
      BY <1>2
    <2>2. HostInv(h, 0, {"none"}) /\ h.address = a /\ h.out = NothingOut /\ h.text = <<>>
      BY <1>3, <2>1, FreshLemma
    <2> HIDE DEF h
    <2>3. \A x \in DOMAIN h.timers : 0 =< x
      BY <2>2 DEF HostInv, Body, Timing
    <2>4. {"none"} \subseteq Peers(R, a)
      BY DEF Peers
    <2>5. HostInv(h, 0, Peers(R, a))
      <3> HIDE DEF R
      <3> QED BY <2>2, <2>3, <2>4, LaterHost
    <2> QED BY <1>3, <2>2, <2>5 DEF h
  <1>5. HostsInv(hosts, R, now)
    <2> HIDE DEF R
    <2> QED BY <1>2, <1>4 DEF HostsInv
  <1>6. NetInv(net, R, now)
    <2>1. net = [l \in Addresses \X Addresses |-> <<>>]
      BY DEF Init
    <2>2. \A l \in Addresses \X Addresses : PathInv(<<>>, l, now)
      BY DEF PathInv
    <2> HIDE DEF R
    <2> QED BY <2>1, <2>2 DEF NetInv
  <1> QED BY <1>1, <1>5, <1>6 DEF IInv

\* A path while the next packet is not due, when that one arrives, and with
\* the packets that a handler sends.
LEMMA PathLater ==
    ASSUME NEW q, NEW l, NEW m \in Nat, NEW n \in Nat, m =< n, PathInv(q, l, m),
           q # <<>> => n =< Head(q).at
    PROVE  PathInv(q, l, n)
  <1>1. q \in Seq(Sent) /\ \A j \in DOMAIN q : q[j] \in Sent /\ q[j].at \in Nat
    <2>1. q \in Seq(Sent)
      BY DEF PathInv
    <2>2. \A j \in DOMAIN q : q[j] \in Sent
      BY <2>1
    <2> QED BY <2>1, <2>2 DEF Sent
  <1>2. ASSUME NEW j \in DOMAIN q PROVE n =< q[j].at /\ q[j].at =< n + Latency
    <2>1. q # <<>> /\ Head(q) = q[1] /\ 1 \in DOMAIN q /\ j \in Nat /\ 1 =< j
      BY <1>1
    <2>2. q[1].at =< q[j].at /\ n =< q[1].at
      BY <1>1, <2>1 DEF PathInv
    <2>3. q[j].at =< m + Latency
      BY DEF PathInv
    <2> QED BY <1>1, <2>1, <2>2, <2>3, TimesAssumption
  <1> QED BY <1>1, <1>2 DEF PathInv

LEMMA PathTail ==
    ASSUME NEW q, NEW l, NEW n \in Nat, PathInv(q, l, n), q # <<>>
    PROVE  PathInv(Tail(q), l, n)
  <1>1. q \in Seq(Sent)
    BY DEF PathInv
  <1>2. /\ Tail(q) \in Seq(Sent) /\ DOMAIN Tail(q) = 1 .. Len(q) - 1
        /\ \A j \in 1 .. Len(q) - 1 : Tail(q)[j] = q[j + 1] /\ j + 1 \in DOMAIN q
    BY <1>1
  <1> DEFINE r == Tail(q)
  <1>3. Len(q) \in Nat
    BY <1>1
  <1> HIDE DEF r
  <1>4. \A j \in DOMAIN r : n =< r[j].at /\ r[j].at =< n + Latency /\ r[j].packet.source = l[1]
    BY <1>2 DEF PathInv, r
  <1>5. ASSUME NEW i \in DOMAIN r, NEW j \in DOMAIN r, i < j PROVE r[i].at =< r[j].at
    <2>1. i + 1 \in DOMAIN q /\ j + 1 \in DOMAIN q /\ r[i] = q[i + 1] /\ r[j] = q[j + 1]
      BY <1>2 DEF r
    <2>2. i + 1 < j + 1
      BY <1>2, <1>3, <1>5 DEF r
    <2> QED BY <2>1, <2>2 DEF PathInv
  <1> QED BY <1>2, <1>4, <1>5 DEF PathInv, r

LEMMA PathAppend ==
    ASSUME NEW q, NEW l, NEW n \in Nat, PathInv(q, l, n), NEW s \in Seq(PacketType),
           \A j \in DOMAIN s : s[j].source = l[1]
    PROVE  PathInv(q \o [j \in DOMAIN s |-> [at |-> n + Latency, packet |-> s[j]]], l, n)
  <1> DEFINE v == [j \in DOMAIN s |-> [at |-> n + Latency, packet |-> s[j]]]
             r == q \o v
  <1>1. n + Latency \in Nat \ {0}
    BY TimesAssumption
  <1>2. v \in Seq(Sent) /\ Len(v) = Len(s) /\ DOMAIN s = 1..Len(s) /\ Len(s) \in Nat
    <2>1. DOMAIN s = 1..Len(s) /\ Len(s) \in Nat /\ \A j \in 1..Len(s) : s[j] \in PacketType
      OBVIOUS
    <2>2. \A j \in 1..Len(s) : v[j] \in Sent
      BY <1>1, <2>1 DEF Sent
    <2>3. DOMAIN v = 1..Len(s)
      BY <2>1
    <2>4. v = [j \in 1..Len(s) |-> v[j]]
      BY <2>1
    <2> HIDE DEF v
    <2>5. v \in Seq(Sent)
      BY <2>1, <2>2, <2>3, <2>4
    <2> QED BY <2>1, <2>3, <2>5
  <1>3. \A j \in 1..Len(s) : v[j].at = n + Latency /\ v[j].packet.source = l[1]
    BY <1>2
  <1>4. q \in Seq(Sent) /\ Len(q) \in Nat /\ DOMAIN q = 1..Len(q)
    BY DEF PathInv
  <1> HIDE DEF v
  <1>5. /\ r \in Seq(Sent) /\ Len(r) = Len(q) + Len(s)
        /\ \A j \in 1 .. Len(q) + Len(s) : r[j] = IF j =< Len(q) THEN q[j] ELSE v[j - Len(q)]
    <2>0. q \in Seq(Sent) /\ v \in Seq(Sent)
      BY <1>2, <1>4
    <2>1. /\ q \o v \in Seq(Sent) /\ Len(q \o v) = Len(q) + Len(v)
          /\ \A j \in 1 .. Len(q) + Len(v) : (q \o v)[j] = IF j =< Len(q) THEN q[j] ELSE v[j - Len(q)]
      BY <2>0, ConcatProperties
    <2> QED BY <1>2, <2>1
  <1> HIDE DEF r
  <1>6. DOMAIN r = 1 .. Len(q) + Len(s)
    BY <1>5
  <1>7. ASSUME NEW j \in DOMAIN r
        PROVE  /\ n =< r[j].at /\ r[j].at =< n + Latency /\ r[j].packet.source = l[1]
               /\ j > Len(q) => r[j].at = n + Latency
               /\ j =< Len(q) => r[j] = q[j] /\ j \in DOMAIN q
    <2>1. CASE j =< Len(q)
      BY <1>4, <1>5, <1>6, <2>1 DEF PathInv
    <2>2. CASE ~(j =< Len(q))
      <3>1. j - Len(q) \in 1..Len(s) /\ r[j] = v[j - Len(q)]
        BY <1>2, <1>4, <1>5, <1>6, <2>2
      <3>2. r[j].at = n + Latency /\ r[j].packet.source = l[1]
        BY <1>3, <3>1
      <3> QED BY <2>2, <3>2, TimesAssumption
    <2> QED BY <2>1, <2>2
  <1>8. ASSUME NEW i \in DOMAIN r, NEW j \in DOMAIN r, i < j PROVE r[i].at =< r[j].at
    <2>0. i \in Nat /\ j \in Nat
      BY <1>6
    <2>1. CASE j > Len(q)
      BY <1>7, <2>1
    <2>2. CASE ~(j > Len(q))
      <3>1. i =< Len(q) /\ j =< Len(q)
        BY <1>4, <1>8, <2>0, <2>2
      <3>2. r[i] = q[i] /\ i \in DOMAIN q /\ r[j] = q[j] /\ j \in DOMAIN q
        BY <1>7, <3>1
      <3> QED BY <1>8, <3>2 DEF PathInv
    <2> QED BY <2>1, <2>2
  <1>9. \A j \in DOMAIN r : n =< r[j].at /\ r[j].at =< n + Latency /\ r[j].packet.source = l[1]
    BY <1>7
  <1> QED BY <1>5, <1>8, <1>9 DEF PathInv, r, v

\* What Return makes of the network.
Leave(h, ch, n) ==
    [l \in DOMAIN ch |->
        IF l[1] # h.address THEN ch[l]
        ELSE ch[l] \o [j \in DOMAIN h.out[l[2]] |-> [at |-> n + Latency, packet |-> h.out[l[2]][j]]]]

LEMMA LeaveLemma ==
    ASSUME NEW R, NEW n \in Nat, NEW h, HostInv(h, n, Peers(R, h.address)), NEW ch, NetInv(ch, R, n)
    PROVE  NetInv(Leave(h, ch, n), R, n)
  <1> DEFINE c == Leave(h, ch, n)
  <1>1. DOMAIN ch = Addresses \X Addresses /\ DOMAIN c = DOMAIN ch
    BY DEF Leave, NetInv
  <1>2. ASSUME NEW l \in DOMAIN ch
        PROVE  PathInv(c[l], l, n) /\ (c[l] # <<>> => l[1] \in R /\ l[2] \in R)
    <2>1. PathInv(ch[l], l, n) /\ (ch[l] # <<>> => l[1] \in R /\ l[2] \in R)
      BY DEF NetInv
    <2>2. CASE l[1] # h.address
      BY <2>1, <2>2 DEF Leave
    <2>3. CASE l[1] = h.address
      <3> DEFINE s == h.out[l[2]]
                 v == [j \in DOMAIN s |-> [at |-> n + Latency, packet |-> s[j]]]
      <3>1. c[l] = ch[l] \o v
        BY <2>3 DEF Leave
      <3>2. l[2] \in Addresses
        BY <1>1
      <3>3. s \in Seq(PacketType) /\ \A j \in DOMAIN s : l[2] \in Peers(R, h.address) /\ s[j].source = l[1]
        BY <2>3, <3>2 DEF HostInv, Body, Leaving, Ends
      <3> HIDE DEF s
      <3>4. PathInv(ch[l] \o v, l, n)
        BY <2>1, <3>3, PathAppend
      <3>5. ASSUME ch[l] = <<>>, s = <<>> PROVE ch[l] \o v = <<>>
        BY <3>5
      <3>6. ASSUME s # <<>> PROVE l[1] \in R /\ l[2] \in R
        <4>1. 1 \in DOMAIN s
          BY <3>3, <3>6
        <4> QED BY <2>3, <3>2, <3>3, <4>1, NoneAssumption DEF Peers
      <3> HIDE DEF c, v
      <3> QED BY <2>1, <3>1, <3>4, <3>5, <3>6
    <2> QED BY <2>2, <2>3
  <1> HIDE DEF c
  <1> QED BY <1>1, <1>2 DEF NetInv, c

---------------------------------------------------------------------------
(* One event.                                                              *)

LEMMA HostsLater ==
    ASSUME NEW hs, NEW R, NEW S, R \subseteq S, NEW m \in Nat, NEW n \in Nat, m =< n, HostsInv(hs, R, m),
           \A b \in Addresses : \A x \in DOMAIN hs[b].timers : n =< x
    PROVE  HostsInv(hs, S, n)
  <1>1. ASSUME NEW b \in Addresses PROVE HostInv(hs[b], n, Peers(S, b))
    <2>1. Peers(R, b) \subseteq Peers(S, b)
      BY DEF Peers
    <2>2. HostInv(hs[b], m, Peers(R, b)) /\ \A x \in DOMAIN hs[b].timers : n =< x
      BY DEF HostsInv
    <2> QED BY <2>1, <2>2, LaterHost
  <1> QED BY <1>1 DEF HostsInv

LEMMA NetLater ==
    ASSUME NEW ch, NEW R, NEW S, R \subseteq S, NEW m \in Nat, NEW n \in Nat, m =< n, NetInv(ch, R, m),
           \A l \in DOMAIN ch : ch[l] # <<>> => n =< Head(ch[l]).at
    PROVE  NetInv(ch, S, n)
  <1>1. ASSUME NEW l \in DOMAIN ch PROVE PathInv(ch[l], l, n)
    <2>1. PathInv(ch[l], l, m) /\ (ch[l] # <<>> => n =< Head(ch[l]).at)
      BY DEF NetInv
    <2> QED BY <2>1, PathLater
  <1> QED BY <1>1 DEF NetInv

\* All hosts and the network, when the handler of one host has returned.
LEMMA AfterReturn ==
    ASSUME NEW n \in Nat, NEW S, NEW others, HostsInv(others, S, n), NEW ch, NetInv(ch, S, n),
           NEW g, HostInv(g, n, Peers(S, g.address))
    PROVE  /\ HostsInv([others EXCEPT ![g.address] = Rest(g)], S, n)
           /\ NetInv(Leave(g, ch, n), S, n)
  <1> DEFINE hs == [others EXCEPT ![g.address] = Rest(g)]
  <1>1. /\ HostInv(Rest(g), n, Peers(S, g.address)) /\ Rest(g).out = NothingOut /\ Rest(g).text = <<>>
        /\ Same(Rest(g), g, {"out", "text", "clock", "flag", "write"})
    BY RestLemma
  <1>2. g.address \in Addresses /\ DOMAIN g = Members
    BY DEF HostInv, Body, Names
  <1>3. Rest(g).address = g.address
    BY <1>1, <1>2 DEF Same, Members
  <1>4. DOMAIN hs = Addresses /\ hs[g.address] = Rest(g)
        /\ \A b \in Addresses : b # g.address => hs[b] = others[b]
    BY <1>2 DEF HostsInv
  <1> HIDE DEF hs
  <1>5. ASSUME NEW b \in Addresses
        PROVE  /\ HostInv(hs[b], n, Peers(S, b)) /\ hs[b].address = b
               /\ hs[b].out = NothingOut /\ hs[b].text = <<>>
    BY <1>1, <1>3, <1>4 DEF HostsInv
  <1>6. HostsInv(hs, S, n)
    BY <1>4, <1>5 DEF HostsInv
  <1> QED BY <1>6, LeaveLemma DEF hs

LEMMA ReturnLemma ==
    ASSUME NEW g, NEW others, NEW ch, Return(g, others, ch), NEW n, now' = n
    PROVE  hosts' = [others EXCEPT ![g.address] = Rest(g)] /\ net' = Leave(g, ch, n)
  BY DEF Return, Rest, Leave

\* When a timer expires, none is over and no packet is late.
LEMMA ExpireLemma ==
    ASSUME IInv, NEW a \in Addresses, Expire(a), NEW n, now' = n
    PROVE  /\ n \in Nat /\ now =< n /\ clash' \in BOOLEAN
           /\ \A b \in Addresses : \A x \in DOMAIN hosts[b].timers : n =< x
           /\ \A l \in DOMAIN net : net[l] # <<>> => n =< Head(net[l]).at
  <1>1. n \in DOMAIN hosts[a].timers /\ \A x \in Timers \cup Arrivals : n =< x
    BY DEF Expire
  <1>2. n \in Nat /\ now =< n
    BY <1>1 DEF IInv, HostsInv, HostInv, Body, Timing
  <1>3. clash' \in BOOLEAN
    BY DEF Expire
  <1>4. \A b \in Addresses : \A x \in DOMAIN hosts[b].timers : n =< x
    BY <1>1 DEF Timers
  <1>5. \A l \in DOMAIN net : net[l] # <<>> => n =< Head(net[l]).at
    BY <1>1 DEF Arrivals
  <1> QED BY <1>2, <1>3, <1>4, <1>5

\* A host whose timer has just expired.
Woken(b, n) == [b EXCEPT !.clock = n, !.timers = @ (-) SetToBag({n})]

LEMMA WokenLemma ==
    ASSUME NEW n \in Nat, NEW D, NEW b, HostInv(b, n, D)
    PROVE  LET h == Woken(b, n)
           IN  Body(h, n, D) /\ Waits(h, n) /\ h.clock = n /\ Same(h, b, {"clock", "timers"})
  <1> DEFINE h == Woken(b, n)
  <1>1. Body(b, n, D) /\ Armed(b) /\ DOMAIN b = Members /\ IsABag(b.timers)
    BY PlainBody DEF HostInv, Body, Timing
  <1>2. /\ Same(h, b, {"clock", "timers"}) /\ h.clock = n /\ DOMAIN h = Members
        /\ h.timers = b.timers (-) SetToBag({n})
    BY <1>1 DEF Woken, Same, Members
  <1> HIDE DEF h
  <1>3. /\ IsABag(h.timers) /\ DOMAIN h.timers \subseteq DOMAIN b.timers
        /\ \A y \in DOMAIN b.timers : y # n => y \in DOMAIN h.timers
    <2>1. LET v == b.timers (-) SetToBag({n})
          IN  /\ IsABag(v) /\ DOMAIN v \subseteq DOMAIN b.timers
              /\ \A y \in DOMAIN b.timers : y # n => y \in DOMAIN v
      BY <1>1, BagTake
    <2> QED BY <1>2, <2>1, Zenon
  <1>4. Names(h, D)
    BY <1>1, <1>2 DEF Body, Names, Same, Members
  <1>5. Timing(h, n)
    BY <1>1, <1>2, <1>3 DEF Body, Timing, Same, Members
  <1>6. Receiving(h) /\ Leaving(h, D)
    BY <1>1, <1>2 DEF Body, Receiving, Leaving, Same, Members
  <1>7. Sending(h, D)
    BY <1>1, <1>2 DEF Body, Sending, Same, Members
  <1>8. Waits(h, n)
    BY <1>1, <1>2, <1>3 DEF Same, Members, Armed, Waits
  <1> QED BY <1>2, <1>4, <1>5, <1>6, <1>7, <1>8 DEF Body, h

LEMMA MetSame ==
    ASSUME NEW hs, NEW gs, NEW bg,
           \A b \in Addresses : gs[b].sender = hs[b].sender /\ gs[b].in_file.flow = hs[b].in_file.flow
    PROVE  Met(gs, bg) = Met(hs, bg)
  BY DEF Met

LEMMA OtherTimerInv == ASSUME IInv, NEW a \in Addresses, OtherTimer(a) PROVE IInv'
  <1> DEFINE R == Met(hosts, begun)
  <1>1. PICK n : n = now'
    OBVIOUS
  <1>2. Expire(a) /\ UNCHANGED <<copies, losses, start, begun, torn>>
    BY DEF OtherTimer
  <1>3. /\ n \in Nat /\ now =< n /\ clash' \in BOOLEAN /\ now \in Nat
        /\ \A b \in Addresses : \A x \in DOMAIN hosts[b].timers : n =< x
        /\ \A l \in DOMAIN net : net[l] # <<>> => n =< Head(net[l]).at
    BY <1>1, <1>2, ExpireLemma DEF IInv, FlowsInv
  <1> DEFINE h == Woken(hosts[a], n)
             g == HandleTimer(h)
  <1>4. Return(g, hosts, net)
    BY <1>1 DEF OtherTimer, Awake, Woken
  <1>5. HostsInv(hosts, R, n) /\ NetInv(net, R, n)
    <2>1. HostsInv(hosts, R, now) /\ NetInv(net, R, now)
      BY DEF IInv
    <2> HIDE DEF R
    <2> QED BY <1>3, <2>1, HostsLater, NetLater
  <1> HIDE DEF R
  <1>6. HostInv(hosts[a], n, Peers(R, a)) /\ hosts[a].address = a
    BY <1>5 DEF HostsInv
  <1>7. /\ Body(h, n, Peers(R, a)) /\ Waits(h, n) /\ h.clock = n
        /\ Same(h, hosts[a], {"clock", "timers"})
    BY <1>3, <1>6, WokenLemma
  <1>8. Peers(R, a) \subseteq Ends
    BY DEF Peers, Ends, R, Met
  <1> HIDE DEF h
  <1>9. /\ Body(g, n, Peers(R, a)) /\ Armed(g)
        /\ Same(g, h, {"retrans", "timers", "sent_so_far", "window_size", "out"})
        /\ h.retrans_bit = 0 => g.retrans = h.retrans /\ g.timers = h.timers
        /\ ~(h.sync_bit = 3 /\ h.retrans_bit = 2) => g.window_size = h.window_size
    BY <1>3, <1>7, <1>8, HandleTimerLemma
  <1> HIDE DEF g
  <1>10. /\ DOMAIN g = Members /\ DOMAIN h = Members /\ DOMAIN hosts[a] = Members
         /\ Idle(hosts[a]) /\ Fresh(hosts[a])
    BY <1>6, <1>7, <1>9 DEF HostInv, Body, Names
  <1>11. Idle(g)
    BY <1>7, <1>9, <1>10 DEF Same, Members, Idle
  <1>12. Fresh(g)
    BY <1>7, <1>9, <1>10 DEF Same, Members, Fresh
  <1>13. g.address = a /\ g.sender = hosts[a].sender /\ g.in_file.flow = hosts[a].in_file.flow
    BY <1>6, <1>7, <1>9, <1>10 DEF Same, Members
  <1>14. HostInv(g, n, Peers(R, g.address))
    BY <1>9, <1>11, <1>12, <1>13 DEF HostInv
  <1>15. hosts' = [hosts EXCEPT ![a] = Rest(g)] /\ net' = Leave(g, net, n)
    BY <1>1, <1>4, <1>13, ReturnLemma
  <1>16. HostsInv(hosts', R, n) /\ NetInv(net', R, n)
    BY <1>3, <1>5, <1>13, <1>14, <1>15, AfterReturn
  <1>17. Met(hosts', begun) = R
    <2>1. /\ Same(Rest(g), g, {"out", "text", "clock", "flag", "write"})
      BY <1>14, RestLemma
    <2>2. Rest(g).sender = g.sender /\ Rest(g).in_file.flow = g.in_file.flow
      BY <1>10, <2>1 DEF Same, Members
    <2>3. \A b \in Addresses : /\ hosts'[b].sender = hosts[b].sender
                               /\ hosts'[b].in_file.flow = hosts[b].in_file.flow
      BY <1>5, <1>13, <1>15, <2>2 DEF HostsInv
    <2> QED BY <2>3, MetSame DEF R
  <1>18. FlowsInv'
    BY <1>1, <1>2, <1>3 DEF IInv, FlowsInv
  <1> QED BY <1>1, <1>2, <1>16, <1>17, <1>18 DEF IInv

LEMMA EveryFlow == \A k \in DOMAIN Flows : Flows[k] \in [from : Addresses, to : Addresses]
  <1> DEFINE T == [from : Addresses, to : Addresses]
  <1>1. Flows \in Seq(T)
    BY FlowsAssumption
  <1> HIDE DEF T
  <1>2. \A k \in DOMAIN Flows : Flows[k] \in T
    BY <1>1, ElementOfSeq
  <1> QED BY <1>2 DEF T

LEMMA StartFlowInv == ASSUME IInv, NEW a \in Addresses, StartFlow(a) PROVE IInv'
  <1> DEFINE R == Met(hosts, begun)
             S == Met(hosts', begun')
  <1>1. PICK n : n = now'
    OBVIOUS
  <1>2. Expire(a) /\ UNCHANGED <<losses, start, torn>>
    BY DEF StartFlow
  <1>3. /\ n \in Nat /\ now =< n /\ clash' \in BOOLEAN /\ now \in Nat
        /\ \A b \in Addresses : \A x \in DOMAIN hosts[b].timers : n =< x
        /\ \A l \in DOMAIN net : net[l] # <<>> => n =< Head(net[l]).at
    BY <1>1, <1>2, ExpireLemma DEF IInv, FlowsInv
  <1> DEFINE h == Woken(hosts[a], n)
             k == h.dest_map[h.clock]
             to == Flows[k].to
             g == HandleTimer([Set(Sync(h, k), 1) EXCEPT !.last_transmit = h.clock])
             others == [hosts EXCEPT ![to] = BecomeDestination(@, k)]
  <1>4. Starts(h) /\ Return(g, others, net) /\ begun' = begun \cup {k}
    BY <1>1 DEF StartFlow, Awake, Woken
  <1>5. HostsInv(hosts, R, now) /\ NetInv(net, R, now) /\ DOMAIN hosts = Addresses
    BY DEF IInv, HostsInv
  <1>6. HostInv(hosts[a], n, Ends)
    <2>1. HostInv(hosts[a], now, Peers(R, a)) /\ \A x \in DOMAIN hosts[a].timers : n =< x
      BY <1>3, <1>5 DEF HostsInv
    <2>2. Peers(R, a) \subseteq Ends
      BY DEF Peers, Ends, Met
    <2> HIDE DEF R
    <2> QED BY <1>3, <2>1, <2>2, LaterHost
  <1>7. Body(h, n, Ends) /\ Waits(h, n) /\ h.clock = n /\ Same(h, hosts[a], {"clock", "timers"})
    BY <1>3, <1>6, WokenLemma
  <1>8. h.address = a
    <2>1. hosts[a].address = a /\ DOMAIN hosts[a] = Members
      BY <1>5 DEF HostsInv, HostInv, Body, Names
    <2> HIDE DEF h
    <2> QED BY <1>7, <2>1 DEF Same, Members
  <1>9. k \in FlowIds /\ Flows[k].from = a /\ to \in Addresses /\ to # a
    <2>1. h.clock \in DOMAIN h.dest_map
      BY <1>4 DEF Starts
    <2>2. k \in From(a)
      <3> HIDE DEF h
      <3> QED BY <1>7, <1>8, <2>1 DEF Body, Names
    <2>3. k \in FlowIds /\ Flows[k].from = a
      BY <2>2 DEF From
    <2> HIDE DEF k
    <2>4. k \in DOMAIN Flows
      BY <2>3, FlowsAssumption DEF FlowIds
    <2>5. Flows[k] \in [from : Addresses, to : Addresses]
      BY <2>4, EveryFlow
    <2>6. Flows[k].to \in Addresses /\ Flows[k].to # Flows[k].from
      BY <2>4, <2>5, FlowsAssumption
    <2> QED BY <2>3, <2>6
  <1> HIDE DEF h, k
  <1>10. g.address = a /\ g.sender /\ g.in_file.flow = k /\ HostInv(g, n, Ends)
    <2>1. Ends \subseteq Ends /\ "none" \in Ends /\ to \in Ends /\ ~h.died
      BY <1>7, <1>9 DEF Ends, Waits
    <2>2. /\ n \in Nat /\ Body(h, n, Ends) /\ h.clock = n /\ k \in FlowIds
          /\ to \in Addresses /\ Flows[k].to = to
      BY <1>3, <1>7, <1>9
    <2> HIDE DEF to
    <2>3. HostInv(g, n, Ends) /\ g.address = h.address /\ g.sender /\ g.in_file.flow = k
      BY ONLY <2>1, <2>2, StartLemma DEF g
    <2> QED BY <1>8, <2>3
  <1>11. hosts' = [others EXCEPT ![a] = Rest(g)] /\ net' = Leave(g, net, n)
    <2>1. Return(g, others, net) /\ g.address = a
      BY <1>4, <1>10
    <2> HIDE DEF g, others
    <2> QED BY <1>1, <2>1, ReturnLemma
  <1>12. /\ hosts'[a] = Rest(g) /\ hosts'[to] = BecomeDestination(hosts[to], k)
         /\ \A b \in Addresses \ {a, to} : hosts'[b] = hosts[b]
    <2> HIDE DEF g, to
    <2> QED BY <1>5, <1>9, <1>11
  <1>13. Rest(g).sender = g.sender /\ Rest(g).in_file.flow = k
    <2> HIDE DEF g
    <2>1. Same(Rest(g), g, {"out", "text", "clock", "flag", "write"}) /\ DOMAIN g = Members
      BY <1>10, RestLemma DEF HostInv, Body, Names
    <2> QED BY <1>10, <2>1 DEF Same, Members
  <1>14. ASSUME NEW D, HostInv(hosts[to], n, D)
         PROVE  LET d == BecomeDestination(hosts[to], k)
                IN  /\ HostInv(d, n, D) /\ ~d.sender /\ d.address = hosts[to].address
                    /\ d.out = hosts[to].out /\ d.text = hosts[to].text
    <2> HIDE DEF to
    <2> QED BY <1>3, <1>14, BecomeDestinationLemma
  <1>15. R \subseteq S /\ a \in S /\ to \in S
    <2>1. ~hosts'[to].sender
      <3>1. HostInv(hosts[to], n, Ends)
        <4>1. HostInv(hosts[to], now, Peers(R, to)) /\ \A x \in DOMAIN hosts[to].timers : n =< x
          BY <1>3, <1>5, <1>9 DEF HostsInv
        <4>2. Peers(R, to) \subseteq Ends
          BY DEF Peers, Ends, Met
        <4> HIDE DEF R
        <4> QED BY <1>3, <4>1, <4>2, LaterHost
      <3> HIDE DEF to
      <3> QED BY <1>12, <1>14, <3>1
    <2>2. to \in S
      BY <1>9, <2>1 DEF Met
    <2>3. a \in S
      BY <1>4, <1>12, <1>13 DEF Met
    <2>4. ASSUME NEW b \in R, b # a, b # to PROVE b \in S
      BY <1>4, <1>12, <2>4 DEF Met
    <2> QED BY <2>2, <2>3, <2>4
  <1>16. HostsInv(hosts, S, n) /\ NetInv(net, S, n)
    <2> HIDE DEF R, S
    <2> QED BY <1>3, <1>5, <1>15, HostsLater, NetLater
  <1>17. S \subseteq Addresses
    BY DEF Met
  <1> HIDE DEF R, S
  <1>18. HostsInv(others, S, n)
    <2>1. HostInv(hosts[to], n, Peers(S, to))
      BY <1>9, <1>16 DEF HostsInv
    <2>2. DOMAIN others = Addresses /\ others[to] = BecomeDestination(hosts[to], k)
          /\ \A b \in Addresses : b # to => others[b] = hosts[b]
      BY <1>5, <1>9
    <2> HIDE DEF others, to
    <2>3. ASSUME NEW b \in Addresses
          PROVE  /\ HostInv(others[b], n, Peers(S, b)) /\ others[b].address = b
                 /\ others[b].out = NothingOut /\ others[b].text = <<>>
      <3>1. CASE b = to
        BY <1>9, <1>14, <1>16, <2>1, <2>2, <3>1 DEF HostsInv
      <3>2. CASE b # to
        BY <1>16, <2>2, <3>2 DEF HostsInv
      <3> QED BY <3>1, <3>2
    <2> QED BY <2>2, <2>3 DEF HostsInv
  <1>19. HostInv(g, n, Peers(S, a))
    <2> DEFINE D == Peers(S, a)
    <2>1. D \subseteq Ends /\ "none" \in D /\ to \in D
      BY <1>15, <1>17 DEF Peers, Ends
    <2> HIDE DEF D
    <2>2. HostInv(hosts[a], n, D)
      BY <1>16 DEF HostsInv, D
    <2>3. Body(h, n, D) /\ Waits(h, n) /\ h.clock = n
      BY <1>3, <2>2, WokenLemma DEF h
    <2>4. ~h.died
      BY <2>3 DEF Waits
    <2>5. HostInv(g, n, D)
      BY <1>3, <1>9, <2>1, <2>3, <2>4, StartLemma
    <2> QED BY <2>5 DEF D
  <1> HIDE DEF g, others, to
  <1>20. HostsInv(hosts', S, n) /\ NetInv(net', S, n)
    BY <1>3, <1>10, <1>11, <1>16, <1>18, <1>19, AfterReturn
  <1>21. FlowsInv'
    BY <1>1, <1>2, <1>3, <1>4, <1>9 DEF IInv, FlowsInv
  <1> QED BY <1>1, <1>20, <1>21 DEF IInv, S

\* The next packet is not before any timer or any other packet.
LEMMA DueLemma ==
    ASSUME IInv, NEW l \in DOMAIN net, Due(l), NEW n, now' = n
    PROVE  /\ n \in Nat \ {0} /\ now =< n /\ net[l] # <<>> /\ n = Head(net[l]).at
           /\ Head(net[l]).packet \in PacketType /\ Head(net[l]).packet.source = l[1]
           /\ l \in Addresses \X Addresses
           /\ l[1] \in Met(hosts, begun) /\ l[2] \in Met(hosts, begun)
           /\ \A b \in Addresses : \A x \in DOMAIN hosts[b].timers : n =< x
           /\ \A k \in DOMAIN net : net[k] # <<>> => n =< Head(net[k]).at
  <1> DEFINE R == Met(hosts, begun)
  <1>1. net[l] # <<>> /\ n = Head(net[l]).at
        /\ (\A x \in Timers : n < x) /\ \A x \in Arrivals : n =< x
    BY DEF Due
  <1>2. NetInv(net, R, now) /\ HostsInv(hosts, R, now) /\ now \in Nat
    BY DEF IInv, FlowsInv
  <1> HIDE DEF R
  <1>3. PathInv(net[l], l, now) /\ l[1] \in R /\ l[2] \in R /\ l \in Addresses \X Addresses
    BY <1>1, <1>2 DEF NetInv
  <1>4. net[l] \in Seq(Sent)
    BY <1>3 DEF PathInv
  <1>5. 1 \in DOMAIN net[l] /\ Head(net[l]) = net[l][1] /\ Head(net[l]) \in Sent
    BY <1>1, <1>4
  <1>6. n \in Nat \ {0} /\ Head(net[l]).packet \in PacketType
    BY <1>1, <1>5 DEF Sent
  <1>7. now =< n /\ Head(net[l]).packet.source = l[1]
    BY <1>1, <1>3, <1>5 DEF PathInv
  <1>8. \A b \in Addresses : \A x \in DOMAIN hosts[b].timers : n =< x
    <2>1. ASSUME NEW b \in Addresses, NEW x \in DOMAIN hosts[b].timers PROVE n =< x
      <3>1. x \in Timers
        BY <2>1 DEF Timers
      <3>2. x \in Nat
        BY <1>2 DEF HostsInv, HostInv, Body, Timing
      <3> QED BY <1>1, <1>6, <3>1, <3>2
    <2> QED BY <2>1
  <1>9. \A k \in DOMAIN net : net[k] # <<>> => n =< Head(net[k]).at
    BY <1>1 DEF Arrivals
  <1> QED BY <1>1, <1>3, <1>6, <1>7, <1>8, <1>9 DEF R

LEMMA TakenInv ==
    ASSUME NEW R, NEW n \in Nat, NetInv(net, R, n), NEW l \in DOMAIN net, net[l] # <<>>
    PROVE  NetInv(Taken(l), R, n)
  <1> DEFINE c == Taken(l)
  <1>1. DOMAIN c = DOMAIN net /\ c[l] = Tail(net[l]) /\ \A k \in DOMAIN net : k # l => c[k] = net[k]
    BY DEF Taken
  <1> HIDE DEF c
  <1>2. ASSUME NEW k \in DOMAIN net PROVE PathInv(c[k], k, n) /\ (c[k] # <<>> => k[1] \in R /\ k[2] \in R)
    <2>1. PathInv(net[k], k, n) /\ (net[k] # <<>> => k[1] \in R /\ k[2] \in R)
      BY DEF NetInv
    <2>2. CASE k = l
      BY <1>1, <2>1, <2>2, PathTail
    <2>3. CASE k # l
      BY <1>1, <2>1, <2>3
    <2> QED BY <2>2, <2>3
  <1> QED BY <1>1, <1>2 DEF NetInv, c

LEMMA LoseInv == ASSUME IInv, NEW l \in DOMAIN net, Lose(l) PROVE IInv'
  <1> DEFINE R == Met(hosts, begun)
  <1>1. PICK n : n = now'
    OBVIOUS
  <1>2. Due(l) /\ net' = Taken(l) /\ losses < MaxLosses /\ losses' = losses + 1
        /\ UNCHANGED <<hosts, copies, start, begun, torn, clash>>
    BY DEF Lose
  <1>3. /\ n \in Nat /\ now =< n /\ net[l] # <<>>
        /\ \A b \in Addresses : \A x \in DOMAIN hosts[b].timers : n =< x
        /\ \A k \in DOMAIN net : net[k] # <<>> => n =< Head(net[k]).at
    BY <1>1, <1>2, DueLemma
  <1>4. HostsInv(hosts, R, now) /\ NetInv(net, R, now) /\ now \in Nat
    BY DEF IInv, FlowsInv
  <1>5. FlowsInv'
    BY <1>1, <1>2, <1>3, LossesAssumption DEF IInv, FlowsInv
  <1>6. R' = R
    BY <1>2
  <1> HIDE DEF R
  <1>7. HostsInv(hosts, R, n) /\ NetInv(net, R, n)
    BY <1>3, <1>4, HostsLater, NetLater
  <1>8. NetInv(Taken(l), R, n)
    BY <1>3, <1>7, TakenInv
  <1> QED BY <1>1, <1>2, <1>5, <1>6, <1>7, <1>8 DEF IInv, R

\* A host that a packet has reached.
Clocked(b, n) == [b EXCEPT !.clock = n]

LEMMA ClockedLemma ==
    ASSUME NEW n \in Nat, NEW D, NEW b, HostInv(b, n, D)
    PROVE  /\ HostInv(Clocked(b, n), n, D) /\ Clocked(b, n).clock = n
           /\ Same(Clocked(b, n), b, {"clock"})
  <1> DEFINE h == Clocked(b, n)
  <1>1. Body(b, n, D) /\ DOMAIN b = Members /\ Plain(b, n, D)
    BY PlainBody DEF HostInv
  <1>2. Same(h, b, {"clock"}) /\ h.clock = n /\ DOMAIN h = Members
    BY <1>1 DEF Clocked, Same, Members
  <1> HIDE DEF h
  <1>3. Same(h, b, Simple) /\ Plain(h, n, D) /\ (b.term_bit # 0 => h.term_bit # 0)
    BY <1>1, <1>2 DEF Same, Members, Simple, Plain
  <1>4. Body(h, n, D)
    BY <1>1, <1>3, UpdateBody
  <1>5. Armed(h) /\ Idle(h) /\ Fresh(h)
    BY <1>1, <1>2 DEF HostInv, Same, Members, Armed, Idle, Fresh
  <1> QED BY <1>2, <1>4, <1>5 DEF HostInv, h

\* The destination of a flow that its source closes.
LEMMA ClosedLemma ==
    ASSUME NEW n \in Nat, NEW D, NEW b, HostInv(b, n, D)
    PROVE  LET h == [b EXCEPT !.term_bit = 2]
           IN  HostInv(h, n, D) /\ Same(h, b, {"term_bit"})
  <1> DEFINE h == [b EXCEPT !.term_bit = 2]
  <1>1. Body(b, n, D) /\ DOMAIN b = Members /\ Plain(b, n, D)
    BY PlainBody DEF HostInv
  <1>2. Same(h, b, {"term_bit"}) /\ h.term_bit = 2 /\ DOMAIN h = Members
    BY <1>1 DEF Same, Members
  <1> HIDE DEF h
  <1>3. Same(h, b, Simple) /\ Plain(h, n, D) /\ (b.term_bit # 0 => h.term_bit # 0)
    BY <1>1, <1>2 DEF Same, Members, Simple, Plain
  <1>4. Body(h, n, D)
    BY <1>1, <1>3, UpdateBody
  <1>5. Armed(h) /\ Idle(h) /\ Fresh(h)
    BY <1>1, <1>2 DEF HostInv, Same, Members, Armed, Idle, Fresh
  <1> QED BY <1>2, <1>4, <1>5 DEF HostInv, h

\* A packet may close the flow of its receiver, and then that of the peer.
LEMMA ArriveInv == ASSUME IInv, NEW l \in DOMAIN net, Arrive(l) PROVE IInv'
  <1> DEFINE R == Met(hosts, begun)
             b == l[2]
             p == Head(net[l]).packet
  <1>1. PICK n : n = now'
    OBVIOUS
  <1>2. Due(l) /\ UNCHANGED <<losses, start, begun, clash>>
    BY DEF Arrive
  <1>3. /\ n \in Nat \ {0} /\ now =< n /\ net[l] # <<>>
        /\ p \in PacketType /\ p.source = l[1] /\ l \in Addresses \X Addresses
        /\ l[1] \in R /\ b \in R
        /\ \A c \in Addresses : \A x \in DOMAIN hosts[c].timers : n =< x
        /\ \A k \in DOMAIN net : net[k] # <<>> => n =< Head(net[k]).at
    BY <1>1, <1>2, DueLemma
  <1> DEFINE h == Clocked(hosts[b], n)
  <1>4. PICK window \in Windows :
           \E g \in {Receive(h, p, window)} :
              LET closed == g.sender /\ g.term_bit = 2 /\ h.term_bit # 2
              IN  /\ Return(g, IF closed THEN [hosts EXCEPT ![g.destination].term_bit = 2] ELSE hosts, Taken(l))
                  /\ torn' = IF closed THEN torn \cup {g.in_file.flow} ELSE torn
    BY <1>1 DEF Arrive, Clocked
  <1> DEFINE g == Receive(h, p, window)
             closed == g.sender /\ g.term_bit = 2 /\ h.term_bit # 2
             others == IF closed THEN [hosts EXCEPT ![g.destination].term_bit = 2] ELSE hosts
  <1>5. /\ Return(g, others, Taken(l))
        /\ torn' = IF closed THEN torn \cup {g.in_file.flow} ELSE torn
    <2>1. PICK x : /\ x = Receive(h, p, window)
                   /\ LET c == x.sender /\ x.term_bit = 2 /\ h.term_bit # 2
                      IN  /\ Return(x, IF c THEN [hosts EXCEPT ![x.destination].term_bit = 2] ELSE hosts,
                                    Taken(l))
                          /\ torn' = IF c THEN torn \cup {x.in_file.flow} ELSE torn
      <3> HIDE DEF h, p
      <3> QED BY <1>4
    <2>2. x = g
      BY <2>1
    <2> HIDE DEF g, h, p
    <2> QED BY <2>1, <2>2
  <1>6. HostsInv(hosts, R, n) /\ NetInv(net, R, n) /\ now \in Nat
    <2>1. HostsInv(hosts, R, now) /\ NetInv(net, R, now) /\ now \in Nat
      BY DEF IInv, FlowsInv
    <2> HIDE DEF R
    <2> QED BY <1>3, <2>1, HostsLater, NetLater
  <1>7. R \subseteq Addresses /\ (hosts[b].sender => hosts[b].in_file.flow \in begun)
    BY <1>3 DEF Met
  <1> HIDE DEF p
  <1>8. HostInv(h, n, Peers(R, b)) /\ h.clock = n /\ Same(h, hosts[b], {"clock"}) /\ hosts[b].address = b
    <2> HIDE DEF R
    <2>1. HostInv(hosts[b], n, Peers(R, b)) /\ hosts[b].address = b
      BY <1>3, <1>6 DEF HostsInv
    <2> QED BY <1>3, <2>1, ClockedLemma
  <1> HIDE DEF h
  <1>9. HostInv(g, n, Peers(R, b)) /\ Stays(g, h)
    <2>1. Peers(R, b) \subseteq Ends /\ "none" \in Peers(R, b) /\ p.source \in Peers(R, b)
      BY <1>3, <1>7 DEF Peers, Ends
    <2> HIDE DEF R
    <2> QED BY <1>3, <1>8, <2>1, ReceiveLemma
  <1> HIDE DEF R, g
  <1>10. /\ g.address = b /\ g.sender = hosts[b].sender /\ g.in_file.flow = hosts[b].in_file.flow
         /\ DOMAIN g = Members
    BY <1>8, <1>9 DEF Stays, Roles, Same, Members, HostInv, Body, Names
  <1>11. /\ HostsInv(others, R, n)
         /\ \A c \in Addresses : /\ others[c].sender = hosts[c].sender
                                 /\ others[c].in_file.flow = hosts[c].in_file.flow
    <2> HIDE DEF closed
    <2>1. CASE ~closed
      BY <1>6, <2>1
    <2>2. CASE closed
      <3> DEFINE shut(c) == [hosts[c] EXCEPT !.term_bit = 2]
      <3>1. /\ DOMAIN others = Addresses
            /\ \A c \in Addresses : others[c] = IF c = g.destination THEN shut(c) ELSE hosts[c]
        BY <1>6, <2>2 DEF HostsInv
      <3> HIDE DEF others
      <3>2. ASSUME NEW c \in Addresses
            PROVE  /\ HostInv(others[c], n, Peers(R, c)) /\ others[c].address = c
                   /\ others[c].out = NothingOut /\ others[c].text = <<>>
                   /\ others[c].sender = hosts[c].sender /\ others[c].in_file.flow = hosts[c].in_file.flow
        <4>1. /\ HostInv(hosts[c], n, Peers(R, c)) /\ hosts[c].address = c
              /\ hosts[c].out = NothingOut /\ hosts[c].text = <<>>
          BY <1>6 DEF HostsInv
        <4>2. CASE c # g.destination
          BY <3>1, <4>1, <4>2
        <4>3. CASE c = g.destination
          <5>1. others[c] = shut(c)
            BY <3>1, <4>3
          <5>2. HostInv(shut(c), n, Peers(R, c)) /\ Same(shut(c), hosts[c], {"term_bit"})
            BY <1>3, <4>1, ClosedLemma
          <5> HIDE DEF shut
          <5> QED BY <4>1, <5>1, <5>2 DEF Same, Members
        <4> QED BY <4>2, <4>3
      <3> QED BY <3>1, <3>2 DEF HostsInv
    <2> QED BY <2>1, <2>2
  <1>12. torn' \subseteq begun
    <2>1. torn \subseteq begun
      BY DEF IInv, FlowsInv
    <2> QED BY <1>5, <1>7, <1>10, <2>1
  <1> HIDE DEF closed, others
  <1>13. NetInv(Taken(l), R, n)
    BY <1>3, <1>6, TakenInv
  <1>14. hosts' = [others EXCEPT ![b] = Rest(g)] /\ net' = Leave(g, Taken(l), n)
    BY <1>1, <1>5, <1>10, ReturnLemma
  <1>15. HostsInv(hosts', R, n) /\ NetInv(net', R, n)
    BY <1>3, <1>9, <1>10, <1>11, <1>13, <1>14, AfterReturn
  <1>16. Met(hosts', begun) = R
    <2>1. Same(Rest(g), g, {"out", "text", "clock", "flag", "write"})
      BY <1>9, RestLemma
    <2>2. Rest(g).sender = g.sender /\ Rest(g).in_file.flow = g.in_file.flow
      BY <1>10, <2>1 DEF Same, Members
    <2>3. \A c \in Addresses : /\ hosts'[c].sender = hosts[c].sender
                               /\ hosts'[c].in_file.flow = hosts[c].in_file.flow
      BY <1>10, <1>11, <1>14, <2>2 DEF HostsInv
    <2> QED BY <2>3, MetSame DEF R
  <1>17. FlowsInv'
    BY <1>1, <1>2, <1>3, <1>12 DEF IInv, FlowsInv
  <1> QED BY <1>1, <1>2, <1>15, <1>16, <1>17 DEF IInv

\* A flow that an arrival adds to torn is its receiver's, which sends it and
\* is through with it.
LEMMA ArriveTears ==
    ASSUME IInv, NEW l \in DOMAIN net, Arrive(l), torn' # torn
    PROVE  l[2] \in Addresses /\ hosts[l[2]].sender /\ hosts'[l[2]].term_bit = 2
  <1> DEFINE R == Met(hosts, begun)
             b == l[2]
             p == Head(net[l]).packet
  <1>1. PICK n : n = now'
    OBVIOUS
  <1>2. Due(l)
    BY DEF Arrive
  <1>3. /\ n \in Nat \ {0} /\ now =< n
        /\ p \in PacketType /\ p.source = l[1] /\ l \in Addresses \X Addresses
        /\ l[1] \in R /\ b \in R
        /\ \A c \in Addresses : \A x \in DOMAIN hosts[c].timers : n =< x
    BY <1>1, <1>2, DueLemma
  <1> DEFINE h == Clocked(hosts[b], n)
  <1>4. PICK window \in Windows :
           \E g \in {Receive(h, p, window)} :
              LET closed == g.sender /\ g.term_bit = 2 /\ h.term_bit # 2
              IN  /\ Return(g, IF closed THEN [hosts EXCEPT ![g.destination].term_bit = 2] ELSE hosts, Taken(l))
                  /\ torn' = IF closed THEN torn \cup {g.in_file.flow} ELSE torn
    BY <1>1 DEF Arrive, Clocked
  <1> DEFINE g == Receive(h, p, window)
             closed == g.sender /\ g.term_bit = 2 /\ h.term_bit # 2
             others == IF closed THEN [hosts EXCEPT ![g.destination].term_bit = 2] ELSE hosts
  <1>5. /\ Return(g, others, Taken(l)) /\ closed
    <2>1. PICK x : /\ x = Receive(h, p, window)
                   /\ LET c == x.sender /\ x.term_bit = 2 /\ h.term_bit # 2
                      IN  /\ Return(x, IF c THEN [hosts EXCEPT ![x.destination].term_bit = 2] ELSE hosts,
                                    Taken(l))
                          /\ torn' = IF c THEN torn \cup {x.in_file.flow} ELSE torn
      <3> HIDE DEF h, p
      <3> QED BY <1>4
    <2>2. x = g
      BY <2>1
    <2> HIDE DEF g, h, p
    <2> QED BY <2>1, <2>2
  <1>6. g.sender /\ g.term_bit = 2
    BY <1>5
  <1>7. HostsInv(hosts, R, n)
    <2>1. HostsInv(hosts, R, now) /\ now \in Nat
      BY DEF IInv, FlowsInv
    <2> HIDE DEF R
    <2> QED BY <1>3, <2>1, HostsLater
  <1>8. R \subseteq Addresses
    BY DEF Met
  <1> HIDE DEF p
  <1>9. /\ HostInv(h, n, Peers(R, b)) /\ h.clock = n /\ Same(h, hosts[b], {"clock"}) /\ hosts[b].address = b
        /\ DOMAIN hosts = Addresses
    <2> HIDE DEF R
    <2>1. HostInv(hosts[b], n, Peers(R, b)) /\ hosts[b].address = b /\ DOMAIN hosts = Addresses
      BY <1>3, <1>7 DEF HostsInv
    <2> QED BY <1>3, <2>1, ClockedLemma
  <1> HIDE DEF h
  <1>10. HostInv(g, n, Peers(R, b)) /\ Stays(g, h)
    <2>1. Peers(R, b) \subseteq Ends /\ "none" \in Peers(R, b) /\ p.source \in Peers(R, b)
      BY <1>3, <1>8 DEF Peers, Ends
    <2> HIDE DEF R
    <2> QED BY <1>3, <1>9, <2>1, ReceiveLemma
  <1> HIDE DEF R, g
  <1>11. g.address = b /\ g.sender = hosts[b].sender /\ DOMAIN g = Members
    BY <1>9, <1>10 DEF Stays, Roles, Same, Members, HostInv, Body, Names
  <1>12. Return(g, others, Taken(l)) /\ DOMAIN others = Addresses
    BY <1>5, <1>9
  <1> HIDE DEF others
  <1>13. hosts' = [others EXCEPT ![b] = Rest(g)]
    BY <1>1, <1>11, <1>12, ReturnLemma
  <1>14. Rest(g).term_bit = g.term_bit
    <2>1. Same(Rest(g), g, {"out", "text", "clock", "flag", "write"})
      BY <1>10, RestLemma
    <2> QED BY <1>11, <2>1 DEF Same, Members
  <1>15. b \in Addresses
    BY <1>3, <1>8
  <1> QED BY <1>6, <1>11, <1>12, <1>13, <1>14, <1>15

LEMMA NextInv == IInv /\ [Next]_vars => IInv'
  <1> SUFFICES ASSUME IInv, [Next]_vars PROVE IInv'
    OBVIOUS
  <1>1. ASSUME NEW a \in Addresses, StartFlow(a) PROVE IInv'
    BY <1>1, StartFlowInv
  <1>2. ASSUME NEW a \in Addresses, OtherTimer(a) PROVE IInv'
    BY <1>2, OtherTimerInv
  <1>3. ASSUME NEW l \in DOMAIN net, Arrive(l) PROVE IInv'
    BY <1>3, ArriveInv
  <1>4. ASSUME NEW l \in DOMAIN net, Lose(l) PROVE IInv'
    BY <1>4, LoseInv
  <1>5. CASE UNCHANGED vars
    BY <1>5 DEF vars, IInv, FlowsInv
  <1> QED BY <1>1, <1>2, <1>3, <1>4, <1>5 DEF Next

LEMMA TypeFromIInv == IInv => TypeOK
  <1> SUFFICES ASSUME IInv PROVE TypeOK
    OBVIOUS
  <1>1. ASSUME NEW a \in Addresses
        PROVE  LET h == hosts[a]
               IN  /\ h.sync_bit \in 1..3 /\ h.term_bit \in 0..2 /\ h.retrans_bit \in 0..2
                   /\ h.retrans_bit # 0 => BagIn(h.retrans, h.timers)
                   /\ h.packets_in_window \in -1..Chunks /\ h.window_size \in Nat \ {0}
                   /\ h.out = NothingOut /\ h.text = <<>>
    <2> DEFINE h == hosts[a]
               D == Peers(Met(hosts, begun), a)
    <2>1. HostInv(h, now, D) /\ h.out = NothingOut /\ h.text = <<>>
      BY DEF IInv, HostsInv
    <2> HIDE DEF h, D
    <2>2. h.sync_bit \in 1..3 /\ h.term_bit \in 0..2 /\ h.retrans_bit \in 0..2
      BY <2>1 DEF HostInv, Body, Names
    <2>3. h.retrans_bit # 0 => BagIn(h.retrans, h.timers)
      BY <2>1 DEF HostInv, Armed, BagIn, BagToSet
    <2>4. h.packets_in_window \in -1..Chunks /\ h.window_size \in Nat \ {0}
      <3>1. /\ h.packets_in_window \in Int /\ h.packets_in_window =< h.in_file.chunk
            /\ h.in_file.chunk \in 0..Chunks
        BY <2>1 DEF HostInv, Body, Sending
      <3>2. Cardinality(DOMAIN h.sent_window) \in Nat
        BY <2>1, FS_CardinalityType DEF HostInv, Body, Sending
      <3>3. Cardinality(DOMAIN h.sent_window) =< h.packets_in_window + 1
        BY <2>1, <3>1, <3>2 DEF HostInv, Body, Sending
      <3>4. h.window_size \in Nat \ {0}
        BY <2>1 DEF HostInv, Body, Sending
      <3> QED BY <3>1, <3>2, <3>3, <3>4, ChunksAssumption
    <2> QED BY <2>1, <2>2, <2>3, <2>4 DEF h
  <1> QED BY <1>1 DEF TypeOK, IInv, FlowsInv

---------------------------------------------------------------------------
(* Theorems.                                                               *)

\* The members of every host fit together in every reachable state, whatever
\* flows overlap: a host that waits for a timer has it, and the count of
\* send_file() and sent_window_sync() stays between -1 and the file's length.
THEOREM MembersFitTogether == Spec => []TypeOK
  <1> QED BY InitInv, NextInv, TypeFromIInv, PTL DEF Spec

\* However flows overlap and whatever is lost, cancel_timer() finds the timer
\* it cancels and resend() has a packet to send: no host ever dies.
THEOREM NoHostDies == Spec => []NeverDies
  <1>1. IInv => NeverDies
    BY DEF IInv, HostsInv, HostInv, Armed, NeverDies
  <1> QED BY <1>1, InitInv, NextInv, PTL DEF Spec
=============================================================================
