--------------------------- MODULE OneFlowProofs ---------------------------
(***************************************************************************)
(* That a single flow of Hosts is a flow of Fdtp, for every file length,   *)
(* every choice of windows, every set of hosts and every latency: each     *)
(* operator of Hosts, seen through the mapping of OneFlow, is the operator *)
(* of the same name of Fdtp, and so is each event.                         *)
(***************************************************************************)
EXTENDS OneFlow, HostsProofs

F == INSTANCE FdtpProofs WITH Calm <- Nat

A == Flows[1].from
B == Flows[1].to

---------------------------------------------------------------------------
(* The source in the middle of a handler.                                  *)

ToDsts(s) == [j \in DOMAIN s |-> ToDst(s[j])]

Running(h, t) == h.retrans > 0 /\ h.retrans >= t

\* The source h at the time t, as Fdtp's src; q is on its way already.
SrcOf(h, t, q) ==
    [ dest_map |-> FALSE, sync_bit |-> h.sync_bit, term_bit |-> h.term_bit,
      retrans |-> Running(h, t), retrans_bit |-> h.retrans_bit,
      timers |-> BagCardinality(h.timers), sent_so_far |-> h.sent_so_far, last_ack |-> h.last_ack,
      chunk |-> h.in_file.chunk, sent_window |-> Window(h.sent_window),
      packets_in_window |-> h.packets_in_window, window_size |-> h.window_size,
      retransmit_pkt |-> ToDst(h.retransmit_pkt), dup_ack_count |-> h.dup_ack_count,
      out |-> q \o ToDsts(h.out[B]) ]

\* The member of a Host that a member of Fdtp's hosts shows.
Member(f) == IF f = "chunk" THEN "in_file" ELSE f

\* SrcOf gives a record with the members of Fdtp's src.
LEMMA SrcIsSrc == ASSUME NEW h, NEW t, NEW q PROVE F!IsSrc(SrcOf(h, t, q))
  BY DEF SrcOf, F!IsSrc, F!SrcFields

Plainly == {"sync_bit", "term_bit", "retrans_bit", "sent_so_far", "last_ack", "packets_in_window",
            "window_size", "dup_ack_count"}

\* The members that are seen as they are.
LEMMA SrcPlainly ==
    ASSUME NEW h, NEW t, NEW q, NEW f \in Plainly
    PROVE  SrcOf(h, t, q)[f] = h[f]
  BY DEF SrcOf, Plainly

\* A member that stays is seen to stay.
LEMMA SrcStays ==
    ASSUME NEW h, NEW g, NEW S, Same(g, h, S), NEW t, NEW q, NEW f \in F!SrcFields, Member(f) \notin S
    PROVE  SrcOf(g, t, q)[f] = SrcOf(h, t, q)[f]
  <1>1. CASE f = "chunk"
    <2>1. g.in_file = h.in_file
      BY <1>1 DEF Same, Members, Member
    <2> QED BY <1>1, <2>1 DEF SrcOf
  <1>2. CASE f = "dest_map"
    BY <1>2 DEF SrcOf
  <1>3. CASE f = "retrans"
    <2>1. g.retrans = h.retrans
      BY <1>3 DEF Same, Members, Member
    <2>2. Running(g, t) = Running(h, t)
      BY <2>1 DEF Running
    <2> QED BY <1>3, <2>2 DEF SrcOf
  <1>4. CASE f = "timers"
    <2>1. g.timers = h.timers
      BY <1>4 DEF Same, Members, Member
    <2> QED BY <1>4, <2>1 DEF SrcOf
  <1>5. CASE f = "sent_window"
    <2>1. g.sent_window = h.sent_window
      BY <1>5 DEF Same, Members, Member
    <2> QED BY <1>5, <2>1 DEF SrcOf
  <1>6. CASE f = "retransmit_pkt"
    <2>1. g.retransmit_pkt = h.retransmit_pkt
      BY <1>6 DEF Same, Members, Member
    <2> QED BY <1>6, <2>1 DEF SrcOf
  <1>7. CASE f = "out"
    <2>1. g.out = h.out
      BY <1>7 DEF Same, Members, Member
    <2> QED BY <1>7, <2>1 DEF SrcOf
  <1>8. CASE f \in Plainly
    <2>1. g[f] = h[f]
      BY <1>8 DEF Same, Members, Member, Plainly
    <2> QED BY <1>8, <2>1, SrcPlainly
  <1> QED BY <1>1, <1>2, <1>3, <1>4, <1>5, <1>6, <1>7, <1>8 DEF F!SrcFields, Plainly

\* Two views are equal when they are in what has changed.
LEMMA SrcFrame ==
    ASSUME NEW h, NEW g, NEW S, Same(g, h, S), NEW t, NEW q, NEW v, F!IsSrc(v),
           \A f \in F!SrcFields : v[f] = IF Member(f) \in S THEN SrcOf(g, t, q)[f] ELSE SrcOf(h, t, q)[f]
    PROVE  v = SrcOf(g, t, q)
  <1>1. \A f \in F!SrcFields : v[f] = SrcOf(g, t, q)[f]
    BY SrcStays
  <1>2. F!IsSrc(SrcOf(g, t, q))
    BY SrcIsSrc
  <1> QED BY <1>1, <1>2 DEF F!IsSrc

\* What the view does not show may change.
LEMMA SrcSame ==
    ASSUME NEW h, NEW g, NEW S, Same(g, h, S), \A f \in F!SrcFields : Member(f) \notin S, NEW t, NEW q
    PROVE  SrcOf(g, t, q) = SrcOf(h, t, q)
  <1>1. \A f \in F!SrcFields : SrcOf(h, t, q)[f] = SrcOf(g, t, q)[f]
    BY SrcStays
  <1>2. F!IsSrc(SrcOf(g, t, q)) /\ F!IsSrc(SrcOf(h, t, q))
    BY SrcIsSrc
  <1> QED BY <1>1, <1>2 DEF F!IsSrc

---------------------------------------------------------------------------
(* Bags of one timer.                                                      *)

Sums(b, D) == D = [S \in SUBSET DOMAIN b |-> LET elt == CHOOSE e \in S : TRUE
                                             IN  IF S = {} THEN 0 ELSE b[elt] + D[S \ {elt}]]

\* BagCardinality() by its recursion over subsets of the domain.
LEMMA CardinalityOf == ASSUME NEW b PROVE BagCardinality(b) = (CHOOSE D : Sums(b, D))[DOMAIN b]
  BY DEF BagCardinality, Sums

LEMMA CountNone == BagCardinality(EmptyBag) = 0
  <1>1. DOMAIN EmptyBag = {}
    BY DEF EmptyBag, SetToBag
  <1> QED BY <1>1 DEF BagCardinality

LEMMA CountOne == ASSUME NEW x PROVE BagCardinality(SetToBag({x})) = 1
  <1> DEFINE b == SetToBag({x})
             G == [S \in SUBSET {x} |-> IF S = {} THEN 0 ELSE 1]
             D == CHOOSE E : Sums(b, E)
  <1>1. DOMAIN b = {x} /\ b[x] = 1
    BY DEF SetToBag
  <1>2. \A S \in SUBSET {x} : S = {} \/ S = {x}
    OBVIOUS
  <1>3. Sums(b, G)
    <2>1. ASSUME NEW S \in SUBSET {x}
          PROVE  G[S] = LET elt == CHOOSE e \in S : TRUE IN IF S = {} THEN 0 ELSE b[elt] + G[S \ {elt}]
      <3>1. CASE S = {}
        BY <3>1
      <3>2. CASE S = {x}
        <4>1. (CHOOSE e \in S : TRUE) = x
          BY <3>2
        <4>2. S \ {x} = {}
          BY <3>2
        <4> QED BY <1>1, <3>2, <4>1, <4>2
      <3> QED BY <1>2, <3>1, <3>2
    <2> QED BY <1>1, <2>1 DEF Sums
  <1>4. Sums(b, D)
    BY <1>3
  <1> HIDE DEF b, G, D
  <1>5. D = [S \in SUBSET {x} |-> LET elt == CHOOSE e \in S : TRUE
                                  IN  IF S = {} THEN 0 ELSE b[elt] + D[S \ {elt}]]
    BY <1>1, <1>4 DEF Sums
  <1>6. D[{}] = 0
    BY <1>5
  <1>7. D[{x}] = 1
    <2>1. D[{x}] = b[x] + D[{x} \ {x}]
      <3>1. (CHOOSE e \in {x} : TRUE) = x
        OBVIOUS
      <3> QED BY <1>5, <3>1
    <2>2. {x} \ {x} = {}
      OBVIOUS
    <2> QED BY <1>1, <1>6, <2>1, <2>2
  <1> QED BY <1>1, <1>7, CardinalityOf DEF D, b

\* A bag gains and loses its one timer.
LEMMA BagOne ==
    ASSUME NEW x
    PROVE  EmptyBag (+) SetToBag({x}) = SetToBag({x}) /\ SetToBag({x}) (-) SetToBag({x}) = EmptyBag
  BY DEF EmptyBag, SetToBag, (+), (-)

---------------------------------------------------------------------------
(* Windows, and packets that leave.                                        *)

Wire == [id : Nat, sync_bit : 0..3, FIN : 0..1, payload : Nat]

LEMMA PayloadParts == \A x \in Payloads : x \in Nat \X Nat /\ x[2] \in Nat
  BY FlowsAssumption DEF Payloads, NoData, FlowIds

LEMMA ToDstType == ASSUME NEW p \in PacketType PROVE ToDst(p) \in Wire
  BY PayloadParts DEF ToDst, PacketType, Wire

LEMMA ToDstsType ==
    ASSUME NEW s \in Seq(PacketType)
    PROVE  ToDsts(s) \in Seq(Wire) /\ Len(ToDsts(s)) = Len(s)
  BY ToDstType DEF ToDsts

\* What is seen of a longer sequence of packets.
LEMMA ToDstsAppend ==
    ASSUME NEW s \in Seq(PacketType), NEW p \in PacketType, NEW q \in Seq(Wire)
    PROVE  q \o ToDsts(Append(s, p)) = Append(q \o ToDsts(s), ToDst(p))
  <1>1. ToDsts(Append(s, p)) = Append(ToDsts(s), ToDst(p))
    <2>1. /\ Append(s, p) \in Seq(PacketType) /\ Len(Append(s, p)) = Len(s) + 1
          /\ \A j \in 1..Len(s) : Append(s, p)[j] = s[j]
          /\ Append(s, p)[Len(s) + 1] = p
      OBVIOUS
    <2>2. ToDsts(s) \in Seq(Wire) /\ Len(ToDsts(s)) = Len(s) /\ ToDst(p) \in Wire
      BY ToDstType, ToDstsType
    <2>3. /\ ToDsts(Append(s, p)) \in Seq(Wire) /\ Len(ToDsts(Append(s, p))) = Len(s) + 1
      BY <2>1, ToDstsType
    <2>4. /\ Append(ToDsts(s), ToDst(p)) \in Seq(Wire) /\ Len(Append(ToDsts(s), ToDst(p))) = Len(s) + 1
          /\ \A j \in 1..Len(s) : Append(ToDsts(s), ToDst(p))[j] = ToDsts(s)[j]
          /\ Append(ToDsts(s), ToDst(p))[Len(s) + 1] = ToDst(p)
      BY <2>2
    <2>5. ASSUME NEW j \in 1..Len(s)+1
          PROVE  ToDsts(Append(s, p))[j] = Append(ToDsts(s), ToDst(p))[j]
      <3>1. DOMAIN s = 1..Len(s) /\ DOMAIN Append(s, p) = 1..Len(s)+1
        BY <2>1
      <3>2. ToDsts(Append(s, p))[j] = ToDst(Append(s, p)[j])
        BY <3>1 DEF ToDsts
      <3>3. \A k \in 1..Len(s) : ToDsts(s)[k] = ToDst(s[k])
        BY <3>1 DEF ToDsts
      <3> QED BY <2>1, <2>4, <3>2, <3>3
    <2> QED BY <2>3, <2>4, <2>5, SeqEqual
  <1>2. ASSUME NEW r \in Seq(Wire), NEW x \in Wire PROVE q \o Append(r, x) = Append(q \o r, x)
    OBVIOUS
  <1>3. ToDsts(s) \in Seq(Wire) /\ ToDst(p) \in Wire
    BY ToDstType, ToDstsType
  <1> QED BY <1>1, <1>2, <1>3

LEMMA ConcatAt ==
    ASSUME NEW S, NEW a \in Seq(S), NEW b \in Seq(S)
    PROVE  /\ a \o b \in Seq(S) /\ Len(a \o b) = Len(a) + Len(b)
           /\ \A j \in 1..Len(a) + Len(b) : (a \o b)[j] = IF j =< Len(a) THEN a[j] ELSE b[j - Len(a)]
  OBVIOUS

LEMMA ToDstsConcat ==
    ASSUME NEW s \in Seq(PacketType), NEW r \in Seq(PacketType), NEW q \in Seq(Wire)
    PROVE  q \o ToDsts(s \o r) = (q \o ToDsts(s)) \o ToDsts(r)
  <1> DEFINE x == ToDsts(s)
             y == ToDsts(r)
             z == ToDsts(s \o r)
  <1>1. /\ s \o r \in Seq(PacketType) /\ Len(s \o r) = Len(s) + Len(r)
        /\ \A j \in 1..Len(s) + Len(r) : (s \o r)[j] = IF j =< Len(s) THEN s[j] ELSE r[j - Len(s)]
    BY ConcatAt
  <1>2. /\ x \in Seq(Wire) /\ Len(x) = Len(s) /\ y \in Seq(Wire) /\ Len(y) = Len(r)
        /\ z \in Seq(Wire) /\ Len(z) = Len(s) + Len(r)
    BY <1>1, ToDstsType
  <1>3. ASSUME NEW j \in 1..Len(s) + Len(r)
        PROVE  z[j] = IF j =< Len(s) THEN x[j] ELSE y[j - Len(s)]
    <2>1. DOMAIN s = 1..Len(s) /\ DOMAIN r = 1..Len(r) /\ DOMAIN (s \o r) = 1..Len(s) + Len(r)
      BY <1>1
    <2>2. z[j] = ToDst((s \o r)[j])
      BY <2>1 DEF ToDsts
    <2>3. (j =< Len(s) => x[j] = ToDst(s[j])) /\ (~(j =< Len(s)) => y[j - Len(s)] = ToDst(r[j - Len(s)]))
      BY <2>1 DEF ToDsts
    <2> QED BY <1>1, <2>2, <2>3
  <1> HIDE DEF x, y, z
  <1>4. z = x \o y
    <2>1. x \o y \in Seq(Wire) /\ Len(x \o y) = Len(s) + Len(r)
          /\ \A j \in 1..Len(s) + Len(r) : (x \o y)[j] = IF j =< Len(s) THEN x[j] ELSE y[j - Len(s)]
      <3>1. /\ x \o y \in Seq(Wire) /\ Len(x \o y) = Len(x) + Len(y)
            /\ \A j \in 1..Len(x) + Len(y) : (x \o y)[j] = IF j =< Len(x) THEN x[j] ELSE y[j - Len(x)]
        <4>1. x \in Seq(Wire) /\ y \in Seq(Wire)
          BY <1>2
        <4> QED BY ONLY <4>1, ConcatAt, Zenon
      <3> QED BY <1>2, <3>1
    <2> QED BY <1>2, <1>3, <2>1, SeqEqual
  <1>5. q \o (x \o y) = (q \o x) \o y
    <2>1. q \in Seq(Wire) /\ x \in Seq(Wire) /\ y \in Seq(Wire)
      BY <1>2
    <2> HIDE DEF x, y, z
    <2> QED BY ONLY <2>1
  <1> QED BY <1>4, <1>5 DEF x, y, z

\* No packet is seen as no packet.
LEMMA NullSeen == ToDst(NULL) = F!NULL
  BY DEF ToDst, NULL, NoData, F!NULL

\* retransmit_pkt is the packet that Fdtp watches.
LEMMA OldestSeen ==
    ASSUME NEW w, \A i \in DOMAIN w : i \in Nat /\ w[i].id # 0
    PROVE  /\ F!Oldest(Window(w)) = ToDst(Oldest(w))
           /\ Oldest(w) = NULL <=> ToDst(Oldest(w)) = F!NULL
           /\ Oldest(w) # NULL => \E i \in DOMAIN w : Oldest(w) = w[i]
  <1>1. DOMAIN Window(w) = DOMAIN w
    BY DEF Window
  <1>2. CASE DOMAIN w = {}
    BY <1>1, <1>2, NullSeen DEF Oldest, F!Oldest
  <1>3. CASE DOMAIN w # {}
    <2> DEFINE i == CHOOSE i \in DOMAIN w : \A j \in DOMAIN w : i =< j
    <2>1. i \in DOMAIN w
      BY <1>3, Least
    <2>2. Oldest(w) = w[i] /\ F!Oldest(Window(w)) = Window(w)[i]
      BY <1>1, <1>3 DEF Oldest, F!Oldest
    <2> HIDE DEF i
    <2>3. Window(w)[i] = ToDst(w[i]) /\ w[i].id # 0
      BY <2>1 DEF Window
    <2>4. w[i] # NULL /\ ToDst(w[i]) # F!NULL
      BY <2>3 DEF NULL, F!NULL, ToDst
    <2> QED BY <2>1, <2>2, <2>3, <2>4
  <1> QED BY <1>2, <1>3

\* map::insert is seen as Fdtp's.
LEMMA InsertSeen == ASSUME NEW w, NEW v PROVE Window(Insert(w, v)) = F!Insert(Window(w), Window(v))
  BY DEF Window, Insert, F!Insert

---------------------------------------------------------------------------
(* What the source keeps in the middle of a handler.                       *)

Only(x) == {x, "none"}

Toward(p) == p.destination = B /\ p.ACK = 0

\* Nothing in a handler changes these.
Fixed == {"address", "destination", "dest_map", "sender", "out_file", "text", "clock"}

SrcRole(h) ==
    /\ h.address = A /\ h.destination = B /\ DOMAIN h.dest_map = {} /\ h.sender = TRUE
    /\ h.out_file = 0 /\ h.text = <<>>

Reads(h) == h.in_file.is_open <=> h.in_file.chunk < Chunks

Holds(h) == /\ \A i \in DOMAIN h.sent_window : Toward(h.sent_window[i])
            /\ h.retransmit_pkt # NULL => Toward(h.retransmit_pkt)

Leads(h) == \A j \in DOMAIN h.out[B] : Toward(h.out[B][j])

\* A host has a timer for retrans, or none at all.
Timed(h) == h.timers = IF h.retrans_bit = 0 THEN EmptyBag ELSE SetToBag({h.retrans})

Sends(h, t) ==
    Body(h, t, Only(B)) /\ h.clock = t /\ SrcRole(h) /\ Reads(h) /\ Holds(h) /\ Leads(h)

\* The one FDTPFlow line and its two hosts.
LEMMA TheFlow == A \in Addresses /\ B \in Addresses /\ A # B /\ DOMAIN Flows = {1} /\ FlowIds = {1}
  <1>1. FlowIds = {1}
    BY OneFlowAssumption DEF FlowIds
  <1>2. DOMAIN Flows = {1}
    BY OneFlowAssumption, FlowsAssumption
  <1>3. Flows[1] \in [from : Addresses, to : Addresses]
    BY <1>2, EveryFlow
  <1>4. A \in Addresses /\ B \in Addresses
    BY <1>3 DEF A, B
  <1>5. A # B
    BY <1>2, FlowsAssumption DEF A, B
  <1> QED BY <1>1, <1>2, <1>4, <1>5

\* Names a host of the flow may have for its peer.
LEMMA OnlyEnds ==
    /\ Only(B) \subseteq Ends /\ "none" \in Only(B) /\ B \in Only(B)
    /\ Only(A) \subseteq Ends /\ "none" \in Only(A) /\ A \in Only(A)
  BY TheFlow DEF Only, Ends

\* A change of other members leaves the source what it is.
LEMMA SendsFrame ==
    ASSUME NEW t, NEW h, Sends(h, t), NEW g, NEW S, Same(g, h, S), Body(g, t, Only(B)),
           S \cap Fixed = {}, "in_file" \in S => Reads(g),
           "sent_window" \in S \/ "retransmit_pkt" \in S => Holds(g), "out" \in S => Leads(g)
    PROVE  Sends(g, t)
  <1>1. \A x \in Fixed : g[x] = h[x]
    BY DEF Same, Fixed, Members
  <1>2. g.clock = t /\ SrcRole(g)
    BY <1>1 DEF Sends, SrcRole, Fixed
  <1>3. Reads(g)
    BY DEF Sends, Same, Members, Reads
  <1>4. Holds(g)
    BY DEF Sends, Same, Members, Holds
  <1>5. Leads(g)
    BY DEF Sends, Same, Members, Leads
  <1> QED BY <1>2, <1>3, <1>4, <1>5 DEF Sends

---------------------------------------------------------------------------
(* Timers.                                                                 *)

\* set_timer() arms Fdtp's timer.
LEMMA SetSeen ==
    ASSUME NEW t \in Nat, NEW h, Sends(h, t), NEW bit \in 1..2, NEW q,
           h.timers = EmptyBag, t > 0 \/ h.estimate.RTO > 0
    PROVE  LET g == Set(h, bit)
           IN  F!Arm(SrcOf(h, t, q), bit) = SrcOf(g, t, q) /\ Sends(g, t) /\ Timed(g)
  <1> DEFINE g == Set(h, bit)
             n == h.clock + h.estimate.RTO
             S == {"retrans", "retrans_bit", "timers"}
             u == SrcOf(h, t, q)
             w == SrcOf(g, t, q)
             v == F!Arm(u, bit)
  <1>B. Body(h, t, Only(B)) /\ h.clock = t
    BY DEF Sends
  <1>1. Same(g, h, S) /\ Body(g, t, Only(B))
    BY <1>B, SetLemma
  <1>2. /\ g.retrans = n /\ g.retrans_bit = bit /\ g.timers = h.timers (+) SetToBag({n})
    BY <1>B DEF Set, Body, Names, Members
  <1>3. g.timers = SetToBag({n}) /\ BagCardinality(g.timers) = 1 /\ BagCardinality(h.timers) = 0
    BY <1>2, BagOne, CountOne, CountNone
  <1>4. Running(g, t) = TRUE
    BY <1>B, <1>2 DEF Body, Timing, Running
  <1> HIDE DEF g, n, u, w
  <1>5. w.retrans = TRUE /\ w.retrans_bit = bit /\ w.timers = u.timers + 1 /\ F!IsSrc(u)
    <2>1. w.retrans = Running(g, t) /\ w.retrans_bit = g.retrans_bit /\ w.timers = BagCardinality(g.timers)
      BY DEF w, SrcOf
    <2>2. u.timers = BagCardinality(h.timers) /\ F!IsSrc(u)
      BY SrcIsSrc DEF u, SrcOf
    <2> QED BY <1>2, <1>3, <1>4, <2>1, <2>2
  <1>6. F!IsSrc(v) /\ \A f \in F!SrcFields : v[f] = IF Member(f) \in S THEN w[f] ELSE u[f]
    BY <1>5 DEF F!Arm, F!IsSrc, F!SrcFields, Member
  <1>7. v = w
    BY <1>1, <1>6, SrcFrame DEF u, w
  <1>8. Sends(g, t)
    BY <1>1, SendsFrame DEF Fixed
  <1>9. Timed(g)
    BY <1>2, <1>3 DEF Timed
  <1> QED BY <1>7, <1>8, <1>9 DEF g, u, w

\* cancel_timer(), and the assignments behind it.
Stop(h) == IF Ahead(h) THEN [Cancel(h) EXCEPT !.retrans = 0, !.retrans_bit = 0] ELSE h

\* A time that is ahead is that of an armed timer.
LEMMA AheadIsArmed ==
    ASSUME NEW t \in Nat \ {0}, NEW D, NEW h, Body(h, t, D), h.clock = t, Armed(h), Idle(h)
    PROVE  /\ Ahead(h) <=> h.retrans_bit # 0
           /\ Running(h, t) <=> h.retrans_bit # 0
           /\ h.retrans_bit = 0 => h.retrans = 0
  <1>1. h.retrans \in Nat /\ (h.retrans_bit = 0 => h.retrans = 0)
    BY DEF Body, Timing, Idle
  <1>2. h.retrans_bit # 0 => t =< h.retrans
    BY DEF Armed, Body, Timing
  <1> QED BY <1>1, <1>2 DEF Ahead, Running

LEMMA StopBody ==
    ASSUME NEW t \in Nat \ {0}, NEW D, NEW h, Body(h, t, D), h.clock = t, Armed(h), Idle(h), Timed(h)
    PROVE  LET g == Stop(h)
           IN  /\ Body(g, t, D) /\ Armed(g) /\ Idle(g) /\ Timed(g)
               /\ Same(g, h, {"retrans", "retrans_bit", "timers"})
               /\ g.retrans = 0 /\ g.retrans_bit = 0 /\ g.timers = EmptyBag
  <1> DEFINE c == Cancel(h)
             g == [c EXCEPT !.retrans = 0, !.retrans_bit = 0]
             S == {"retrans", "retrans_bit", "timers"}
  <1>1. CASE h.retrans_bit = 0
    <2>1. Stop(h) = h /\ h.retrans = 0
      BY <1>1, AheadIsArmed DEF Stop
    <2> QED BY <1>1, <2>1 DEF Same, Timed
  <1>2. CASE h.retrans_bit # 0
    <2>1. Stop(h) = g /\ h.retrans \in DOMAIN h.timers
      BY <1>2, AheadIsArmed DEF Stop, Armed
    <2>2. Body(c, t, D) /\ Same(c, h, {"timers", "died"}) /\ c.died = h.died
      BY <2>1, CancelLemma
    <2>3. c.timers = EmptyBag
      <3>1. c.timers = h.timers (-) SetToBag({h.retrans}) /\ h.timers = SetToBag({h.retrans})
        BY <1>2 DEF Cancel, Timed, Body, Names, Members
      <3> QED BY <3>1, BagOne
    <2>4. DOMAIN h = Members /\ DOMAIN c = Members
      BY <2>2 DEF Body, Names
    <2> HIDE DEF c
    <2>5. /\ g.retrans = 0 /\ g.retrans_bit = 0 /\ g.timers = EmptyBag /\ g.died = h.died
          /\ Same(g, h, S) /\ Same(g, c, Simple)
      BY <2>2, <2>3, <2>4 DEF Same, Members, Simple
    <2>6. Plain(g, t, D) /\ g.term_bit = c.term_bit
      <3>1. Plain(c, t, D)
        BY <2>2, PlainBody
      <3> QED BY <2>4, <3>1 DEF Plain, Members
    <2> HIDE DEF g
    <2>7. Body(g, t, D)
      BY <2>2, <2>5, <2>6, UpdateBody
    <2>8. Armed(g) /\ Idle(g) /\ Timed(g)
      BY <2>5 DEF Armed, Idle, Timed
    <2> QED BY <2>1, <2>5, <2>7, <2>8 DEF g
  <1> QED BY <1>1, <1>2

\* cancel_timer() is Fdtp's Cancel.
LEMMA StopSeen ==
    ASSUME NEW t \in Nat \ {0}, NEW h, Sends(h, t), Armed(h), Idle(h), Timed(h), NEW q
    PROVE  F!Cancel(SrcOf(h, t, q)) = SrcOf(Stop(h), t, q) /\ Sends(Stop(h), t)
  <1> DEFINE g == Stop(h)
             S == {"retrans", "retrans_bit", "timers"}
             u == SrcOf(h, t, q)
             w == SrcOf(g, t, q)
             v == F!Cancel(u)
  <1>B. Body(h, t, Only(B)) /\ h.clock = t
    BY DEF Sends
  <1>1. /\ Body(g, t, Only(B)) /\ Same(g, h, S)
        /\ g.retrans = 0 /\ g.retrans_bit = 0 /\ g.timers = EmptyBag
    BY <1>B, StopBody
  <1>2. Sends(g, t)
    BY <1>1, SendsFrame DEF Fixed
  <1>3. CASE h.retrans_bit = 0
    <2>1. Stop(h) = h
      BY <1>B, <1>3, AheadIsArmed DEF Stop
    <2>2. Running(h, t) = FALSE
      BY <1>B, <1>3, AheadIsArmed DEF Running
    <2>3. u.retrans = Running(h, t)
      BY DEF SrcOf
    <2> HIDE DEF u
    <2>4. v = u
      BY <2>2, <2>3 DEF F!Cancel
    <2> QED BY <1>2, <2>1, <2>4 DEF u
  <1>4. CASE h.retrans_bit # 0
    <2>1. Running(h, t) = TRUE /\ Running(g, t) = FALSE
      BY <1>B, <1>1, <1>4, AheadIsArmed DEF Running
    <2>2. BagCardinality(g.timers) = 0 /\ BagCardinality(h.timers) = 1
      BY <1>1, <1>4, CountOne, CountNone DEF Timed
    <2> HIDE DEF g, u, w
    <2>3. /\ u.retrans = TRUE /\ w.retrans = FALSE /\ w.retrans_bit = 0 /\ w.timers = u.timers - 1
          /\ F!IsSrc(u)
      <3>1. w.retrans = Running(g, t) /\ w.retrans_bit = g.retrans_bit /\ w.timers = BagCardinality(g.timers)
        BY DEF w, SrcOf
      <3>2. u.retrans = Running(h, t) /\ u.timers = BagCardinality(h.timers) /\ F!IsSrc(u)
        BY SrcIsSrc DEF u, SrcOf
      <3> QED BY <1>1, <2>1, <2>2, <3>1, <3>2
    <2>4. F!IsSrc(v) /\ \A f \in F!SrcFields : v[f] = IF Member(f) \in S THEN w[f] ELSE u[f]
      BY <2>3 DEF F!Cancel, F!IsSrc, F!SrcFields, Member
    <2>5. v = w
      BY <1>1, <2>4, SrcFrame DEF u, w
    <2> QED BY <1>2, <2>5 DEF g, u, w
  <1> QED BY <1>3, <1>4

---------------------------------------------------------------------------
(* Packets that the source sends.                                          *)

LEMMA OutType ==
    ASSUME NEW t, NEW D, NEW h, Body(h, t, D), NEW a \in Ends
    PROVE  h.out \in [Ends -> Seq(PacketType)] /\ h.out[a] \in Seq(PacketType)
  BY DEF Body, Leaving

\* send() of a packet to the destination.
LEMMA SendSeen ==
    ASSUME NEW t, NEW h, Sends(h, t), NEW q \in Seq(Wire),
           NEW p \in PacketType, p.source = A, Toward(p)
    PROVE  LET g == Send(h, p)
           IN  F!Send(SrcOf(h, t, q), ToDst(p)) = SrcOf(g, t, q) /\ Sends(g, t) /\ Same(g, h, {"out"})
  <1> DEFINE g == Send(h, p)
             S == {"out"}
             u == SrcOf(h, t, q)
             w == SrcOf(g, t, q)
             v == F!Send(u, ToDst(p))
  <1>B. Body(h, t, Only(B)) /\ h.address = A
    BY DEF Sends, SrcRole
  <1>0. Mine(p, h.address, Only(B))
    BY <1>B, OnlyEnds DEF Mine, Toward
  <1>1. Same(g, h, S) /\ Body(g, t, Only(B))
    BY <1>B, <1>0, SendBody, SendSame DEF Body, Names
  <1>2. B \in Ends /\ h.out[B] \in Seq(PacketType) /\ h.out \in [Ends -> Seq(PacketType)]
    BY <1>B, OnlyEnds, OutType
  <1>3. g.out[B] = Append(h.out[B], p)
    BY <1>B, <1>2 DEF Send, Body, Names, Members, Toward
  <1>4. q \o ToDsts(g.out[B]) = Append(q \o ToDsts(h.out[B]), ToDst(p))
    BY <1>2, <1>3, ToDstsAppend
  <1>5. Leads(g)
    <2>1. \A j \in DOMAIN h.out[B] : Toward(h.out[B][j])
      BY DEF Sends, Leads
    <2> QED BY <1>2, <1>3, <2>1, AppendProperties DEF Leads
  <1> HIDE DEF g, u, w
  <1>6. w.out = Append(u.out, ToDst(p)) /\ F!IsSrc(u)
    BY <1>4, SrcIsSrc DEF u, w, SrcOf
  <1>7. F!IsSrc(v) /\ \A f \in F!SrcFields : v[f] = IF Member(f) \in S THEN w[f] ELSE u[f]
    BY <1>6 DEF F!Send, F!IsSrc, F!SrcFields, Member
  <1>8. v = w
    BY <1>1, <1>7, SrcFrame DEF u, w
  <1>9. Sends(g, t)
    BY <1>1, <1>5, SendsFrame DEF Fixed
  <1> QED BY <1>1, <1>8, <1>9 DEF g, u, w

\* A packet sent before is sent again.
LEMMA ResendSeen ==
    ASSUME NEW t, NEW h, Sends(h, t), NEW q \in Seq(Wire), h.retransmit_pkt # NULL
    PROVE  LET g == Resend(h)
               u == SrcOf(h, t, q)
           IN  /\ F!Send(u, u.retransmit_pkt) = SrcOf(g, t, q) /\ Sends(g, t)
               /\ Same(g, h, {"out"})
  <1> DEFINE r == h.retransmit_pkt
             p == [r EXCEPT !.ack_id = h.recv_so_far]
             g == Send(h, p)
  <1>B. Body(h, t, Only(B)) /\ h.address = A
    BY DEF Sends, SrcRole
  <1>1. r \in PacketType /\ r.source = A /\ Toward(r) /\ h.recv_so_far \in Nat
    BY <1>B, NoneAssumption, TheFlow DEF Sends, Holds, Toward, Body, Sending, Receiving, Mine
  <1>2. p \in PacketType /\ p.source = A /\ Toward(p) /\ ToDst(p) = ToDst(r)
    BY <1>1 DEF PacketType, Toward, ToDst
  <1>3. SrcOf(h, t, q).retransmit_pkt = ToDst(r)
    BY DEF SrcOf
  <1> HIDE DEF r, p
  <1>4. F!Send(SrcOf(h, t, q), ToDst(p)) = SrcOf(g, t, q) /\ Sends(g, t) /\ Same(g, h, {"out"})
    BY <1>2, SendSeen
  <1> DEFINE d == Resend(h)
  <1>5. Same(d, g, {"died"}) /\ Body(d, t, Only(B)) /\ Same(d, h, {"out"})
    <2>1. d = [g EXCEPT !.died = @ \/ h.retransmit_pkt = NULL]
      BY DEF Resend, p, r
    <2>2. Body(d, t, Only(B)) /\ Same(d, h, {"out", "died"}) /\ d.died = h.died
      BY <1>B, ResendLemma
    <2>3. DOMAIN g = Members
      BY <1>4 DEF Sends, Body, Names
    <2> QED BY <2>1, <2>2, <2>3 DEF Same, Members
  <1> HIDE DEF g, d
  <1>6. SrcOf(d, t, q) = SrcOf(g, t, q)
    BY <1>5, SrcSame DEF Member, F!SrcFields
  <1>7. Sends(d, t)
    BY <1>4, <1>5, SendsFrame DEF Fixed
  <1> QED BY <1>2, <1>3, <1>4, <1>5, <1>6, <1>7 DEF d

\* handle_timer() without a data timer sends a control packet.
LEMMA ControlSeen ==
    ASSUME NEW t, NEW h, Sends(h, t), NEW q \in Seq(Wire)
    PROVE  LET g == Send(h, Control(h))
               u == SrcOf(h, t, q)
           IN  /\ F!Send(u, F!SrcPacket(u, u.sent_so_far, 0, 0)) = SrcOf(g, t, q)
               /\ Sends(g, t) /\ Same(g, h, {"out"})
  <1> DEFINE p == Control(h)
             u == SrcOf(h, t, q)
  <1>B. Body(h, t, Only(B)) /\ h.address = A /\ h.destination = B /\ h.sender = TRUE
    BY DEF Sends, SrcRole
  <1>1. Mine(p, h.address, Only(B))
    BY <1>B, OnlyEnds, ControlMine
  <1>2. p = Packet(h, h.sent_so_far, 0, 0, NoData)
    BY <1>B DEF Control
  <1>3. p.destination = B /\ p.ACK = 0
    BY <1>B, <1>2 DEF Packet
  <1>4. p \in PacketType /\ p.source = A /\ Toward(p)
    BY <1>B, <1>1, <1>3, TheFlow, NoneAssumption DEF Mine, Toward
  <1>5. ToDst(p) = F!SrcPacket(u, u.sent_so_far, 0, 0)
    <2>1. u.sent_so_far = h.sent_so_far /\ u.sync_bit = h.sync_bit
      BY DEF SrcOf
    <2> HIDE DEF u
    <2> QED BY <1>2, <2>1 DEF Packet, ToDst, F!SrcPacket, NoData
  <1> HIDE DEF p, u
  <1> QED BY <1>4, <1>5, SendSeen DEF p, u

\* handle_timer() where no timer has expired.
LEMMA IdleTimerSeen ==
    ASSUME NEW t, NEW h, Sends(h, t), NEW q \in Seq(Wire),
           ~(h.sync_bit = 3 /\ h.retrans_bit = 2), ~(h.retrans = h.clock /\ h.retrans_bit = 1)
    PROVE  LET g == HandleTimer(h)
           IN  /\ F!SendControl(SrcOf(h, t, q)) = SrcOf(g, t, q)
               /\ Sends(g, t) /\ Same(g, h, {"sent_so_far", "out"})
  <1> DEFINE e == [h EXCEPT !.sent_so_far = @ + 1]
             g == Send(e, Control(e))
             S == {"sent_so_far", "out"}
             u == SrcOf(h, t, q)
             x == SrcOf(e, t, q)
             w == SrcOf(g, t, q)
             v == F!SendControl(u)
  <1>1. HandleTimer(h) = g
    BY DEF HandleTimer
  <1>B. Body(h, t, Only(B)) /\ DOMAIN h = Members /\ h.sent_so_far \in Nat
    BY DEF Sends, Body, Names, Sending
  <1>2. Same(e, h, {"sent_so_far"}) /\ e.sent_so_far = h.sent_so_far + 1
    BY <1>B DEF Same, Members
  <1>3. Body(e, t, Only(B))
    <2>1. Same(e, h, Simple) /\ e.term_bit = h.term_bit
      BY <1>B, <1>2 DEF Same, Simple, Members
    <2>2. Plain(e, t, Only(B))
      BY <1>B, PlainBody DEF Plain, Members
    <2> QED BY <1>B, <2>1, <2>2, UpdateBody
  <1> HIDE DEF e
  <1>4. Sends(e, t)
    BY <1>2, <1>3, SendsFrame DEF Fixed
  <1>5. /\ F!Send(x, F!SrcPacket(x, x.sent_so_far, 0, 0)) = w
        /\ Sends(g, t) /\ Same(g, e, {"out"})
    BY <1>4, ControlSeen
  <1> HIDE DEF g
  <1>6. Same(g, h, S)
    BY <1>2, <1>5 DEF Same
  <1> HIDE DEF u, x, w
  <1>7. x.sent_so_far = u.sent_so_far + 1 /\ x.sync_bit = u.sync_bit /\ x.out = u.out /\ F!IsSrc(u) /\ F!IsSrc(x)
    <2>1. x.sent_so_far = e.sent_so_far /\ u.sent_so_far = h.sent_so_far
      BY DEF u, x, SrcOf
    <2>2. x.sync_bit = u.sync_bit /\ x.out = u.out
      BY <1>2, SrcStays DEF u, x, Member, F!SrcFields
    <2> QED BY <1>2, <2>1, <2>2, SrcIsSrc DEF u, x
  <1>8. F!IsSrc(v) /\ \A f \in F!SrcFields : v[f] = IF Member(f) \in S THEN w[f] ELSE u[f]
    BY <1>5, <1>7 DEF F!SendControl, F!SrcPacket, F!Send, F!IsSrc, F!SrcFields, Member
  <1>9. v = w
    BY <1>6, <1>8, SrcFrame DEF u, w
  <1> QED BY <1>1, <1>5, <1>6, <1>9 DEF u, w

---------------------------------------------------------------------------
(* send_file().                                                            *)

\* send_file() reads as many chunks as Fdtp has room for.
LEMMA RoomSeen ==
    ASSUME NEW t, NEW h, Sends(h, t), NEW q
    PROVE  F!Room(SrcOf(h, t, q)) = Room(h)
  <1> DEFINE u == SrcOf(h, t, q)
  <1>1. u.window_size = h.window_size /\ u.packets_in_window = h.packets_in_window /\ u.chunk = h.in_file.chunk
    BY DEF SrcOf
  <1>2. /\ h.window_size \in Nat /\ h.packets_in_window \in Int /\ h.in_file.chunk \in 0..Chunks
        /\ (h.in_file.is_open <=> h.in_file.chunk < Chunks)
    BY DEF Sends, Reads, Body, Sending
  <1> HIDE DEF u
  <1>3. F!Room(u) = LET free == h.window_size - h.packets_in_window
                        left == Chunks - h.in_file.chunk
                    IN  IF free =< 0 THEN 0 ELSE IF free < left THEN free ELSE left
    BY <1>1 DEF F!Room
  <1>4. CASE h.in_file.is_open
    <2>1. F!Room(u) = Room(h)
      BY <1>3, <1>4 DEF Room
    <2> QED BY <2>1 DEF u
  <1>5. CASE ~h.in_file.is_open
    <2>1. ~(h.in_file.chunk < Chunks)
      BY <1>2, <1>5
    <2>2. Chunks - h.in_file.chunk = 0
      BY <1>2, <2>1, ChunksAssumption
    <2>3. h.window_size - h.packets_in_window \in Int
      BY <1>2
    <2>4. F!Room(u) = 0
      BY <1>3, <2>2, <2>3
    <2>5. Room(h) = 0
      BY <1>5 DEF Room
    <2> QED BY <2>4, <2>5 DEF u
  <1> QED BY <1>4, <1>5

\* The loop of send_file().
LEMMA BurstSeen ==
    ASSUME NEW t \in Nat, NEW h, Sends(h, t), NEW q \in Seq(Wire)
    PROVE  LET g == Burst(h)
           IN  /\ F!Burst(SrcOf(h, t, q)) = SrcOf(g, t, q) /\ Sends(g, t)
               /\ Same(g, h, {"in_file", "sent_so_far", "packets_in_window", "sent_window", "send_time", "out"})
  <1> DEFINE g == Burst(h)
             n == Room(h)
             ids == h.sent_so_far+1 .. h.sent_so_far+n
             packet(j) == Packet(h, h.sent_so_far + j, 0, 0, <<h.in_file.flow, h.in_file.chunk + j>>)
             new == [i \in ids |-> packet(i - h.sent_so_far)]
             sent == [j \in 1..n |-> packet(j)]
             S == {"in_file", "sent_so_far", "packets_in_window", "sent_window", "send_time", "out"}
             u == SrcOf(h, t, q)
             w == SrcOf(g, t, q)
             v == F!Burst(u)
             seen(j) == F!SrcPacket(u, u.sent_so_far + j, 0, u.chunk + j)
  <1>B. Body(h, t, Only(B)) /\ h.clock = t /\ h.address = A /\ h.destination = B
    BY DEF Sends, SrcRole
  <1>1. n \in Nat /\ h.in_file.chunk + n =< Chunks
    BY <1>B, RoomLemma
  <1>2. /\ h.sent_so_far \in Nat /\ h.out \in [Ends -> Seq(PacketType)] /\ h.out[B] \in Seq(PacketType)
        /\ h.in_file \in [flow : Nat, chunk : 0..Chunks, is_open : BOOLEAN]
        /\ h.packets_in_window \in Int /\ DOMAIN h = Members /\ B \in Ends
    BY <1>B, OnlyEnds, OutType DEF Body, Names, Sending
  <1>3. Same(g, h, S) /\ Body(g, t, Only(B))
    BY <1>B, OnlyEnds, BurstLemma
  <1>4. /\ g.in_file = [flow |-> h.in_file.flow, chunk |-> h.in_file.chunk + n,
                         is_open |-> h.in_file.is_open /\ h.in_file.chunk + n < Chunks]
        /\ g.sent_so_far = h.sent_so_far + n
        /\ g.packets_in_window = h.packets_in_window + n
        /\ g.sent_window = Insert(h.sent_window, new)
        /\ g.out[B] = h.out[B] \o sent
    BY <1>2, <1>B DEF Burst, Members
  <1>5. ASSUME NEW j \in 1..n PROVE packet(j) \in PacketType /\ Toward(packet(j)) /\ ToDst(packet(j)) = seen(j)
    <2> DEFINE i == h.sent_so_far + j
               no == 0
               data == <<h.in_file.flow, h.in_file.chunk + j>>
    <2>0. h.in_file.flow \in FlowIds
      <3>1. h.in_file.is_open
        BY DEF Room
      <3> QED BY <1>B, <3>1 DEF Body, Sending
    <2>1. data \in Payloads /\ i \in Nat /\ no \in 0..1 /\ data[2] = h.in_file.chunk + j
      <3>1. j \in Nat
        BY <1>1
      <3> DEFINE c == h.in_file.chunk + j
      <3>2. c \in Nat /\ i \in Nat
        BY ONLY <1>2, <3>1
      <3>3. data = <<h.in_file.flow, c>> /\ no \in 0..1
        OBVIOUS
      <3> HIDE DEF c, data, i
      <3>4. data \in Payloads /\ data[2] = c
        BY ONLY <2>0, <3>2, <3>3 DEF Payloads
      <3> QED BY <3>2, <3>3, <3>4 DEF c
    <2>2. packet(j) = Packet(h, i, no, no, data) /\ no = 0
      OBVIOUS
    <2>3. u.sent_so_far = h.sent_so_far /\ u.chunk = h.in_file.chunk /\ u.sync_bit = h.sync_bit
      BY DEF SrcOf
    <2> HIDE DEF packet, g, n, sent, new, u
    <2>4. ToDst(Packet(h, i, no, no, data)) = seen(j)
      BY <2>1, <2>2, <2>3 DEF Packet, ToDst, F!SrcPacket
    <2> HIDE DEF i, no, data
    <2>5. Mine(Packet(h, i, no, no, data), h.address, Only(B))
      BY <1>B, <2>1, OnlyEnds, PacketMine
    <2>6. Toward(Packet(h, i, no, no, data))
      BY <1>B, <2>2 DEF Packet, Toward
    <2> QED BY <2>2, <2>4, <2>5, <2>6 DEF Mine
  <1>6. u.sent_so_far = h.sent_so_far /\ u.chunk = h.in_file.chunk /\ F!Room(u) = n
    BY RoomSeen DEF SrcOf
  <1>7. Window(new) = [i \in u.sent_so_far+1 .. u.sent_so_far+n |-> seen(i - u.sent_so_far)]
    <2> HIDE DEF n, packet, seen, u
    <2>1. ASSUME NEW i \in ids PROVE i - h.sent_so_far \in 1..n
      BY ONLY <1>1, <1>2, i \in ids
    <2> QED BY <1>5, <1>6, <2>1 DEF Window
  <1>8. sent \in Seq(PacketType) /\ ToDsts(sent) = [j \in 1..n |-> seen(j)]
    <2> HIDE DEF packet, seen, u
    <2>1. sent \in Seq(PacketType)
      BY <1>1, <1>5
    <2>2. DOMAIN sent = 1..n /\ \A j \in 1..n : sent[j] = packet(j)
      OBVIOUS
    <2> HIDE DEF sent
    <2> QED BY <1>5, <2>1, <2>2 DEF ToDsts
  <1>9. q \o ToDsts(g.out[B]) = (q \o ToDsts(h.out[B])) \o ToDsts(sent)
    <2>1. g.out[B] = h.out[B] \o sent /\ h.out[B] \in Seq(PacketType) /\ sent \in Seq(PacketType)
      BY <1>2, <1>4, <1>8
    <2> HIDE DEF sent, g, n, new, packet, seen, u, w, v
    <2>2. q \o ToDsts(h.out[B] \o sent) = (q \o ToDsts(h.out[B])) \o ToDsts(sent)
      <3>1. q \in Seq(Wire)
        OBVIOUS
      <3> QED BY ONLY <2>1, <3>1, ToDstsConcat, Zenon
    <2> QED BY <2>1, <2>2
  <1>10. Sends(g, t)
    <2>1. Reads(g)
      <3>1. (h.in_file.is_open <=> h.in_file.chunk < Chunks)
        BY DEF Sends, Reads
      <3>2. h.in_file.chunk \in Nat
        BY <1>2, ChunksAssumption
      <3> HIDE DEF n, sent, new, packet, seen, u, w, v
      <3>3. g.in_file.chunk = h.in_file.chunk + n
        BY <1>4
      <3>6. g.in_file.is_open = (h.in_file.is_open /\ h.in_file.chunk + n < Chunks)
        <4> DEFINE more == h.in_file.is_open /\ h.in_file.chunk + n < Chunks
                   file == [flow |-> h.in_file.flow, chunk |-> h.in_file.chunk + n, is_open |-> more]
        <4>1. g.in_file = file
          BY <1>4
        <4> HIDE DEF g, more
        <4>2. file.is_open = more
          OBVIOUS
        <4> HIDE DEF file
        <4>3. g.in_file.is_open = more
          BY <4>1, <4>2
        <4> QED BY <4>3 DEF more
      <3> HIDE DEF g
      <3>4. CASE h.in_file.is_open
        BY <3>3, <3>4, <3>6 DEF Reads
      <3>5. CASE ~h.in_file.is_open
        <4>1. ~(h.in_file.chunk < Chunks)
          BY <3>1, <3>5
        <4>2. ~(h.in_file.chunk + n < Chunks)
          BY <1>1, <3>2, <4>1, ChunksAssumption
        <4> QED BY <3>3, <3>5, <3>6, <4>2 DEF Reads
      <3> QED BY <3>4, <3>5
    <2>2. ASSUME NEW i \in DOMAIN g.sent_window PROVE Toward(g.sent_window[i])
      <3>1. CASE i \in DOMAIN h.sent_window
        <4>1. g.sent_window[i] = h.sent_window[i]
          BY <1>4, <3>1 DEF Insert
        <4> QED BY <3>1, <4>1 DEF Sends, Holds
      <3>2. CASE i \notin DOMAIN h.sent_window
        <4>1. i \in ids /\ g.sent_window[i] = packet(i - h.sent_so_far)
          BY <1>4, <3>2 DEF Insert
        <4>2. i - h.sent_so_far \in 1..n
          BY <1>1, <1>2, <4>1
        <4> HIDE DEF packet
        <4> QED BY <1>5, <4>1, <4>2
      <3> QED BY <3>1, <3>2
    <2>3. Holds(g)
      <3>1. g.retransmit_pkt = h.retransmit_pkt
        BY <1>3 DEF Same, Members
      <3> QED BY <2>2, <3>1 DEF Sends, Holds
    <2>4. Leads(g)
      <3>1. \A j \in DOMAIN h.out[B] : Toward(h.out[B][j])
        BY DEF Sends, Leads
      <3>2. Len(sent) = n /\ \A j \in 1..n : Toward(sent[j])
        BY <1>1, <1>5
      <3> HIDE DEF sent
      <3>3. ASSUME NEW j \in 1..Len(h.out[B]) + Len(sent) PROVE Toward((h.out[B] \o sent)[j])
        <4>1. (h.out[B] \o sent)[j] = IF j =< Len(h.out[B]) THEN h.out[B][j] ELSE sent[j - Len(h.out[B])]
          BY <1>2, <1>8, ConcatAt
        <4>2. Len(h.out[B]) \in Nat /\ DOMAIN h.out[B] = 1..Len(h.out[B])
          BY <1>2
        <4>3. CASE j =< Len(h.out[B])
          BY <3>1, <4>1, <4>2, <4>3
        <4>4. CASE ~(j =< Len(h.out[B]))
          <5>1. j - Len(h.out[B]) \in 1..n
            BY <1>1, <3>2, <4>2, <4>4
          <5> QED BY <3>2, <4>1, <4>4, <5>1
        <4> QED BY <4>3, <4>4
      <3>4. DOMAIN g.out[B] = 1..Len(h.out[B]) + Len(sent)
        BY <1>2, <1>4, <1>8, ConcatAt
      <3> QED BY <1>4, <3>3, <3>4 DEF Leads
    <2> HIDE DEF g
    <2> QED BY <1>3, <2>1, <2>3, <2>4, SendsFrame DEF Fixed
  <1>11. /\ w.chunk = u.chunk + n /\ w.sent_so_far = u.sent_so_far + n
         /\ w.packets_in_window = u.packets_in_window + n
         /\ w.sent_window = F!Insert(u.sent_window, Window(new))
         /\ w.out = u.out \o ToDsts(sent) /\ F!IsSrc(u)
    <2>1. /\ w.chunk = g.in_file.chunk /\ w.sent_so_far = g.sent_so_far
          /\ w.packets_in_window = g.packets_in_window /\ w.sent_window = Window(g.sent_window)
          /\ w.out = q \o ToDsts(g.out[B])
      BY DEF SrcOf
    <2>2. /\ u.chunk = h.in_file.chunk /\ u.sent_so_far = h.sent_so_far
          /\ u.packets_in_window = h.packets_in_window /\ u.sent_window = Window(h.sent_window)
          /\ u.out = q \o ToDsts(h.out[B])
      BY DEF SrcOf
    <2> HIDE DEF g, u, w, new, sent, n
    <2> QED BY <1>4, <1>9, <2>1, <2>2, InsertSeen, SrcIsSrc DEF u
  <1> HIDE DEF g, u, w, new, sent, packet
  <1>12. v = [u EXCEPT !.chunk = @ + n, !.sent_so_far = @ + n, !.packets_in_window = @ + n,
                       !.sent_window = F!Insert(@, Window(new)), !.out = @ \o ToDsts(sent)]
    BY <1>6, <1>7, <1>8 DEF F!Burst
  <1> HIDE DEF v, n
  <1>13. F!IsSrc(v) /\ \A f \in F!SrcFields : v[f] = IF Member(f) \in S THEN w[f] ELSE u[f]
    BY <1>11, <1>12 DEF F!IsSrc, F!SrcFields, Member
  <1>14. v = w
    BY <1>3, <1>13, SrcFrame DEF u, w
  <1> QED BY <1>3, <1>10, <1>14 DEF g, u, w, v

\* terminate().
LEMMA TerminateSeen ==
    ASSUME NEW t \in Nat, NEW h, Sends(h, t), h.term_bit = 0, NEW q \in Seq(Wire)
    PROVE  LET g == Terminate(h)
           IN  /\ F!Terminate(SrcOf(h, t, q)) = SrcOf(g, t, q) /\ Sends(g, t)
               /\ Same(g, h, {"out", "term_bit", "sent_so_far", "sent_window"})
  <1> DEFINE i == h.sent_so_far + 1
             fin == Packet(h, i, 1, 0, NoData)
             new == [k \in {fin.id} |-> fin]
             e == Send(h, fin)
             g == Terminate(h)
             S == {"out", "term_bit", "sent_so_far", "sent_window"}
             u == SrcOf(h, t, q)
             x == SrcOf(e, t, q)
             w == SrcOf(g, t, q)
             v == F!Terminate(u)
             seen == F!SrcPacket(u, u.sent_so_far + 1, 1, 0)
  <1>B. Body(h, t, Only(B)) /\ h.address = A /\ h.destination = B /\ DOMAIN h = Members
    BY DEF Sends, SrcRole, Body, Names
  <1>1. Body(g, t, Only(B)) /\ Same(g, h, S)
    BY <1>B, OnlyEnds, TerminateLemma
  <1>2. u.sent_so_far = h.sent_so_far /\ u.sync_bit = h.sync_bit /\ u.sent_window = Window(h.sent_window)
    BY DEF SrcOf
  <1>3. fin \in PacketType /\ Toward(fin) /\ ToDst(fin) = seen /\ fin.id = i /\ seen.id = i
    <2> DEFINE one == 1
               zero == 0
    <2>1. one \in 0..1 /\ zero \in 0..1 /\ NoData \in Payloads /\ i \in Nat
      BY <1>B DEF Payloads, Body, Sending
    <2>2. fin = Packet(h, i, one, zero, NoData) /\ zero = 0 /\ one = 1
      OBVIOUS
    <2> HIDE DEF u, fin, g, new, e
    <2>3. ToDst(fin) = seen /\ fin.id = i /\ seen.id = i
      BY <1>2, <2>2 DEF Packet, ToDst, F!SrcPacket, NoData
    <2>4. Toward(fin)
      BY <1>B, <2>2 DEF Packet, Toward
    <2> HIDE DEF i, one, zero
    <2>5. Mine(Packet(h, i, one, zero, NoData), h.address, Only(B))
      BY <1>B, <2>1, OnlyEnds, PacketMine
    <2> QED BY <2>2, <2>3, <2>4, <2>5 DEF Mine
  <1>4. Window(new) = [k \in {seen.id} |-> seen]
    <2> HIDE DEF fin, seen
    <2> QED BY <1>3 DEF Window
  <1>5. F!Send(u, seen) = x /\ Sends(e, t) /\ Same(e, h, {"out"})
    <2>1. fin.source = A
      BY <1>B DEF Packet
    <2> HIDE DEF fin, seen
    <2> QED BY <1>3, <2>1, SendSeen
  <1>6. /\ g = [e EXCEPT !.term_bit = 1, !.sent_so_far = @ + 1, !.sent_window = Insert(@, new)]
        /\ v = [F!Send(u, seen) EXCEPT !.term_bit = 1, !.sent_so_far = @ + 1,
                                       !.sent_window = F!Insert(@, [k \in {seen.id} |-> seen])]
    BY DEF Terminate, F!Terminate
  <1> HIDE DEF g, e, fin, new, seen, u, v, w, x
  <1>7. /\ g.term_bit = 1 /\ g.sent_so_far = h.sent_so_far + 1
        /\ g.sent_window = Insert(h.sent_window, new) /\ g.out = e.out
    BY <1>B, <1>5, <1>6 DEF Same, Members
  <1>8. Sends(g, t)
    <2>1. Leads(g)
      BY <1>5, <1>7 DEF Sends, Leads
    <2>2. ASSUME NEW k \in DOMAIN g.sent_window PROVE Toward(g.sent_window[k])
      <3>1. CASE k \in DOMAIN h.sent_window
        <4>1. g.sent_window[k] = h.sent_window[k]
          BY <1>7, <3>1 DEF Insert
        <4> QED BY <3>1, <4>1 DEF Sends, Holds
      <3>2. CASE k \notin DOMAIN h.sent_window
        <4>1. g.sent_window[k] = fin
          BY <1>7, <3>2 DEF Insert, new
        <4> QED BY <1>3, <4>1
      <3> QED BY <3>1, <3>2
    <2>3. Holds(g)
      <3>1. g.retransmit_pkt = h.retransmit_pkt
        BY <1>1 DEF Same, Members
      <3> QED BY <2>2, <3>1 DEF Sends, Holds
    <2> QED BY <1>1, <2>1, <2>3, SendsFrame DEF Fixed
  <1>9. /\ w.term_bit = 1 /\ w.sent_so_far = u.sent_so_far + 1
        /\ w.sent_window = F!Insert(u.sent_window, Window(new))
        /\ w.out = x.out /\ F!IsSrc(u)
    <2>1. /\ w.term_bit = g.term_bit /\ w.sent_so_far = g.sent_so_far
          /\ w.sent_window = Window(g.sent_window) /\ w.out = q \o ToDsts(g.out[B])
      BY DEF w, SrcOf
    <2>2. x.out = q \o ToDsts(e.out[B])
      BY DEF x, SrcOf
    <2> QED BY <1>2, <1>7, <2>1, <2>2, InsertSeen, SrcIsSrc DEF u
  <1>10. F!IsSrc(x) /\ \A f \in F!SrcFields : f # "out" => x[f] = u[f]
    <2>1. F!IsSrc(x)
      BY SrcIsSrc DEF x
    <2>2. ASSUME NEW f \in F!SrcFields, f # "out" PROVE x[f] = u[f]
      <3>1. Member(f) \notin {"out"}
        BY <2>2 DEF Member
      <3> QED BY <1>5, <3>1, SrcStays DEF x, u
    <2> QED BY <2>1, <2>2
  <1>11. v = [x EXCEPT !.term_bit = 1, !.sent_so_far = @ + 1, !.sent_window = F!Insert(@, Window(new))]
    BY <1>4, <1>5, <1>6
  <1> HIDE DEF S
  <1>12. F!IsSrc(v) /\ \A f \in F!SrcFields : v[f] = IF Member(f) \in S THEN w[f] ELSE u[f]
    BY <1>9, <1>10, <1>11 DEF F!IsSrc, F!SrcFields, Member, S
  <1>13. v = w
    BY <1>1, <1>12, SrcFrame DEF u, w
  <1> QED BY <1>1, <1>8, <1>13 DEF g, u, w, v, S

\* A packet that may be sent again, kept in retransmit_pkt.
LEMMA KeepSeen ==
    ASSUME NEW t \in Nat, NEW h, Sends(h, t), NEW q
    PROVE  LET g == [h EXCEPT !.retransmit_pkt = Oldest(h.sent_window)]
               u == SrcOf(h, t, q)
           IN  /\ [u EXCEPT !.retransmit_pkt = F!Oldest(u.sent_window)] = SrcOf(g, t, q)
               /\ Sends(g, t) /\ Same(g, h, {"retransmit_pkt"})
               /\ g.retransmit_pkt = NULL <=> ToDst(g.retransmit_pkt) = F!NULL
               /\ g.retransmit_pkt = Oldest(h.sent_window)
  <1> DEFINE p == Oldest(h.sent_window)
             g == [h EXCEPT !.retransmit_pkt = p]
             S == {"retransmit_pkt"}
             u == SrcOf(h, t, q)
             w == SrcOf(g, t, q)
             v == [u EXCEPT !.retransmit_pkt = F!Oldest(u.sent_window)]
  <1>B. Body(h, t, Only(B)) /\ DOMAIN h = Members
    BY DEF Sends, Body, Names
  <1>1. Mine(p, h.address, Only(B))
    BY <1>B, OnlyEnds, OldestMine
  <1>2. \A i \in DOMAIN h.sent_window : i \in Nat /\ h.sent_window[i].id # 0
    BY <1>B DEF Body, Sending
  <1>3. /\ F!Oldest(Window(h.sent_window)) = ToDst(p)
        /\ p = NULL <=> ToDst(p) = F!NULL
        /\ p # NULL => \E i \in DOMAIN h.sent_window : p = h.sent_window[i]
    BY <1>2, OldestSeen
  <1> HIDE DEF p
  <1>4. Same(g, h, S) /\ g.retransmit_pkt = p
    BY <1>B DEF Same, Members
  <1> HIDE DEF g
  <1>5. Body(g, t, Only(B))
    <2>1. DOMAIN g = Members /\ \A m \in Members \ {"retransmit_pkt"} : g[m] = h[m]
      BY <1>B, <1>4 DEF Same, S
    <2>2. Names(g, Only(B))
      BY <1>B, <2>1 DEF Body, Names, Members
    <2>3. Timing(g, t)
      BY <1>B, <2>1 DEF Body, Timing, Members
    <2>4. Receiving(g)
      BY <1>B, <2>1 DEF Body, Receiving, Members
    <2>5. Sending(g, Only(B))
      BY <1>B, <1>1, <1>4, <2>1 DEF Body, Sending, Members
    <2>6. Leaving(g, Only(B))
      BY <1>B, <2>1 DEF Body, Leaving, Members
    <2> QED BY <2>2, <2>3, <2>4, <2>5, <2>6 DEF Body
  <1>6. Holds(g)
    <2>1. g.sent_window = h.sent_window
      BY <1>4 DEF Same, Members
    <2> QED BY <1>3, <1>4, <2>1 DEF Sends, Holds
  <1>7. Sends(g, t)
    BY <1>4, <1>5, <1>6, SendsFrame DEF Fixed
  <1>8. w.retransmit_pkt = F!Oldest(u.sent_window) /\ F!IsSrc(u)
    <2>1. w.retransmit_pkt = ToDst(g.retransmit_pkt) /\ u.sent_window = Window(h.sent_window)
      BY DEF SrcOf
    <2> QED BY <1>3, <1>4, <2>1, SrcIsSrc
  <1> HIDE DEF u, w
  <1>9. F!IsSrc(v) /\ \A f \in F!SrcFields : v[f] = IF Member(f) \in S THEN w[f] ELSE u[f]
    BY <1>8 DEF F!IsSrc, F!SrcFields, Member
  <1>10. v = w
    BY <1>4, <1>9, SrcFrame DEF u, w
  <1> QED BY <1>3, <1>4, <1>7, <1>10 DEF g, u, w, v, p

\* The end of send_file() watches the oldest packet.
LEMMA WatchSeen ==
    ASSUME NEW t \in Nat \ {0}, NEW h, Sends(h, t), Timed(h), NEW q
    PROVE  LET g == [h EXCEPT !.retransmit_pkt = Oldest(h.sent_window)]
               r == IF g.retrans_bit = 0 /\ g.retransmit_pkt # NULL
                    THEN [Set(g, 2) EXCEPT !.last_transmit = h.clock] ELSE g
           IN  F!WatchOldest(SrcOf(h, t, q)) = SrcOf(r, t, q) /\ Sends(r, t) /\ Timed(r)
  <1> DEFINE g == [h EXCEPT !.retransmit_pkt = Oldest(h.sent_window)]
             e == Set(g, 2)
             r == [e EXCEPT !.last_transmit = h.clock]
             u == SrcOf(h, t, q)
             x == SrcOf(g, t, q)
  <1>1. /\ [u EXCEPT !.retransmit_pkt = F!Oldest(u.sent_window)] = x
        /\ Sends(g, t) /\ Same(g, h, {"retransmit_pkt"})
        /\ g.retransmit_pkt = NULL <=> ToDst(g.retransmit_pkt) = F!NULL
    BY KeepSeen
  <1> HIDE DEF g, u
  <1>2. x.retrans_bit = g.retrans_bit /\ x.retransmit_pkt = ToDst(g.retransmit_pkt)
    BY DEF SrcOf
  <1>3. Timed(g)
    BY <1>1 DEF Timed, Same, Members
  <1>4. F!WatchOldest(u) = IF x.retrans_bit = 0 /\ x.retransmit_pkt # F!NULL THEN F!Arm(x, 2) ELSE x
    <2> HIDE DEF x
    <2> QED BY <1>1 DEF F!WatchOldest
  <1> HIDE DEF x
  <1>5. CASE g.retrans_bit = 0 /\ g.retransmit_pkt # NULL
    <2>1. g.timers = EmptyBag
      BY <1>3, <1>5 DEF Timed
    <2>2. F!Arm(x, 2) = SrcOf(e, t, q) /\ Sends(e, t) /\ Timed(e)
      BY <1>1, <2>1, SetSeen DEF x
    <2> HIDE DEF e
    <2>3. h.clock = t
      BY DEF Sends
    <2>4. Body(e, t, Only(B)) /\ DOMAIN e = Members
      BY <2>2 DEF Sends, Body, Names
    <2>5. Same(r, e, {"last_transmit"}) /\ r.last_transmit = t
      BY <2>3, <2>4 DEF Same, Members
    <2> HIDE DEF r
    <2>6. Body(r, t, Only(B))
      <3>1. Plain(e, t, Only(B))
        BY <2>4, PlainBody
      <3>2. Same(r, e, Simple) /\ Plain(r, t, Only(B)) /\ r.term_bit = e.term_bit
        BY <2>4, <2>5, <3>1 DEF Same, Simple, Members, Plain
      <3> QED BY <2>4, <3>2, UpdateBody
    <2>7. Sends(r, t)
      BY <2>2, <2>5, <2>6, SendsFrame DEF Fixed
    <2>8. SrcOf(r, t, q) = SrcOf(e, t, q)
      BY <2>5, SrcSame DEF Member, F!SrcFields
    <2>9. Timed(r)
      BY <2>2, <2>5 DEF Timed, Same, Members
    <2> QED BY <1>1, <1>2, <1>4, <1>5, <2>2, <2>7, <2>8, <2>9 DEF g, u, r, e
  <1>6. CASE ~(g.retrans_bit = 0 /\ g.retransmit_pkt # NULL)
    <2>1. F!WatchOldest(u) = x
      BY <1>1, <1>2, <1>4, <1>6
    <2> QED BY <1>1, <1>3, <1>6, <2>1 DEF g, u, x
  <1> QED BY <1>5, <1>6

\* send_file() as a whole.
LEMMA SendFileSeen ==
    ASSUME NEW t \in Nat \ {0}, NEW h, Sends(h, t), Timed(h), NEW q \in Seq(Wire)
    PROVE  LET g == SendFile(h)
           IN  F!SendFile(SrcOf(h, t, q)) = SrcOf(g, t, q) /\ Sends(g, t) /\ Timed(g)
  <1> DEFINE f == Burst(h)
             full == f.in_file.is_open \/ f.packets_in_window >= f.window_size
             s == IF ~full /\ f.term_bit = 0 THEN Terminate(f) ELSE f
             g == [s EXCEPT !.retransmit_pkt = Oldest(s.sent_window)]
             r == IF g.retrans_bit = 0 /\ g.retransmit_pkt # NULL
                  THEN [Set(g, 2) EXCEPT !.last_transmit = s.clock] ELSE g
             u == SrcOf(h, t, q)
             x == SrcOf(f, t, q)
             y == SrcOf(s, t, q)
  <1>1. /\ F!Burst(u) = x /\ Sends(f, t)
        /\ Same(f, h, {"in_file", "sent_so_far", "packets_in_window", "sent_window", "send_time", "out"})
    BY BurstSeen
  <1> HIDE DEF f
  <1>2. F!MayTerminate(x) <=> ~full /\ f.term_bit = 0
    <2>1. x.chunk = f.in_file.chunk /\ x.packets_in_window = f.packets_in_window
          /\ x.window_size = f.window_size /\ x.term_bit = f.term_bit
      BY DEF SrcOf
    <2>2. /\ f.in_file.chunk \in 0..Chunks /\ (f.in_file.is_open <=> f.in_file.chunk < Chunks)
          /\ f.packets_in_window \in Int /\ f.window_size \in Nat
      BY <1>1 DEF Sends, Body, Sending, Reads
    <2>3. f.in_file.is_open <=> ~(f.in_file.chunk = Chunks)
      BY <2>2, ChunksAssumption
    <2>4. f.packets_in_window >= f.window_size <=> ~(f.packets_in_window < f.window_size)
      BY <2>2
    <2> HIDE DEF x
    <2> QED BY <2>1, <2>3, <2>4 DEF F!MayTerminate
  <1>3. y = (IF F!MayTerminate(x) THEN F!Terminate(x) ELSE x) /\ Sends(s, t) /\ Timed(s)
    <2>1. Timed(f)
      BY <1>1 DEF Timed, Same, Members
    <2>2. CASE ~full /\ f.term_bit = 0
      <3> DEFINE e == Terminate(f)
      <3>1. s = e
        BY <2>2
      <3>2. /\ F!Terminate(x) = SrcOf(e, t, q) /\ Sends(e, t)
            /\ Same(e, f, {"out", "term_bit", "sent_so_far", "sent_window"})
        BY <1>1, <2>2, TerminateSeen
      <3> HIDE DEF e
      <3>3. Timed(e)
        BY <2>1, <3>2 DEF Timed, Same, Members
      <3> HIDE DEF x, full
      <3> QED BY <1>2, <2>2, <3>1, <3>2, <3>3
    <2>3. CASE ~(~full /\ f.term_bit = 0)
      <3>1. s = f
        BY <2>3
      <3> HIDE DEF full
      <3> QED BY <1>1, <1>2, <2>1, <2>3, <3>1
    <2> QED BY <2>2, <2>3
  <1> HIDE DEF s
  <1>4. F!WatchOldest(y) = SrcOf(r, t, q) /\ Sends(r, t) /\ Timed(r)
    BY <1>3, WatchSeen
  <1>5. SendFile(h) = r
    <2>1. h.clock = s.clock
      BY <1>3 DEF Sends
    <2> QED BY <2>1 DEF SendFile, s, f
  <1>6. F!SendFile(u) = F!WatchOldest(y)
    <2> HIDE DEF u, x, y
    <2> QED BY <1>1, <1>3 DEF F!SendFile
  <1> HIDE DEF r
  <1> QED BY <1>4, <1>5, <1>6

---------------------------------------------------------------------------
(* Acknowledgements.                                                       *)

\* Members that Fdtp's source has as they are.
LEMMA PlainSeen ==
    ASSUME NEW t, NEW h, Sends(h, t), NEW g, NEW S, S \subseteq Plainly \cap Simple, Same(g, h, S),
           Plain(g, t, Only(B)), h.term_bit # 0 => g.term_bit # 0, NEW q, NEW v, F!IsSrc(v),
           \A f \in F!SrcFields : v[f] = IF f \in S THEN g[f] ELSE SrcOf(h, t, q)[f]
    PROVE  v = SrcOf(g, t, q) /\ Sends(g, t)
  <1>1. \A f \in F!SrcFields : Member(f) \in S <=> f \in S
    <2>1. "in_file" \notin Plainly /\ "chunk" \notin Plainly
      BY DEF Plainly
    <2> QED BY <2>1 DEF Member
  <1>2. \A f \in S : f \in Plainly /\ SrcOf(g, t, q)[f] = g[f]
    BY SrcPlainly
  <1>3. \A f \in F!SrcFields : v[f] = IF Member(f) \in S THEN SrcOf(g, t, q)[f] ELSE SrcOf(h, t, q)[f]
    BY <1>1, <1>2
  <1>4. v = SrcOf(g, t, q)
    BY <1>3, SrcFrame
  <1>5. Body(g, t, Only(B))
    <2>1. Same(g, h, Simple)
      BY DEF Same
    <2> QED BY <2>1, UpdateBody DEF Sends
  <1>6. S \cap Fixed = {} /\ "in_file" \notin S /\ "sent_window" \notin S /\ "retransmit_pkt" \notin S /\ "out" \notin S
    BY DEF Plainly, Fixed
  <1>7. Sends(g, t)
    BY <1>5, <1>6, SendsFrame
  <1> QED BY <1>4, <1>7

\* What both hosts do to the members that the ack decides.
Counts(h, n) == [h EXCEPT !.dup_ack_count = n]

Sizes(h, n, size) == [h EXCEPT !.dup_ack_count = n, !.window_size = size]

\* A new window_size.
LEMMA SizeSeen ==
    ASSUME NEW t, NEW h, Sends(h, t), NEW q, NEW n, NEW size \in Nat \ {0}
    PROVE  LET g == Sizes(h, n, size)
           IN  /\ Sizes(SrcOf(h, t, q), n, size) = SrcOf(g, t, q)
               /\ Sends(g, t) /\ Same(g, h, {"dup_ack_count", "window_size"})
  <1> DEFINE g == Sizes(h, n, size)
             S == {"dup_ack_count", "window_size"}
             u == SrcOf(h, t, q)
             v == Sizes(u, n, size)
  <1>1. DOMAIN h = Members /\ Plain(h, t, Only(B))
    BY PlainBody DEF Sends
  <1>2. /\ Same(g, h, S) /\ g.dup_ack_count = n /\ g.window_size = size /\ Plain(g, t, Only(B))
        /\ g.term_bit = h.term_bit
    BY <1>1 DEF Same, Members, Plain, Sizes, Counts
  <1>3. F!IsSrc(u)
    BY SrcIsSrc
  <1> HIDE DEF g, u
  <1>4. F!IsSrc(v) /\ \A f \in F!SrcFields : v[f] = IF f \in S THEN g[f] ELSE u[f]
    BY <1>2, <1>3 DEF F!IsSrc, F!SrcFields, Sizes, Counts
  <1>5. S \subseteq Plainly \cap Simple
    BY DEF Plainly, Simple
  <1> HIDE DEF v, S
  <1>6. v = SrcOf(g, t, q) /\ Sends(g, t)
    BY <1>2, <1>4, <1>5, PlainSeen DEF u
  <1> QED BY <1>2, <1>6 DEF g, u, v, S

\* dup_ack_count.
LEMMA CountSeen ==
    ASSUME NEW t, NEW h, Sends(h, t), NEW q, NEW n
    PROVE  LET g == Counts(h, n)
           IN  /\ Counts(SrcOf(h, t, q), n) = SrcOf(g, t, q)
               /\ Sends(g, t) /\ Same(g, h, {"dup_ack_count"})
  <1> DEFINE g == Counts(h, n)
             S == {"dup_ack_count"}
             u == SrcOf(h, t, q)
             v == Counts(u, n)
  <1>1. DOMAIN h = Members /\ Plain(h, t, Only(B))
    BY PlainBody DEF Sends
  <1>2. /\ Same(g, h, S) /\ g.dup_ack_count = n /\ Plain(g, t, Only(B))
        /\ g.term_bit = h.term_bit
    BY <1>1 DEF Same, Members, Plain, Sizes, Counts
  <1>3. F!IsSrc(u)
    BY SrcIsSrc
  <1> HIDE DEF g, u
  <1>4. F!IsSrc(v) /\ \A f \in F!SrcFields : v[f] = IF f \in S THEN g[f] ELSE u[f]
    BY <1>2, <1>3 DEF F!IsSrc, F!SrcFields, Sizes, Counts
  <1>5. S \subseteq Plainly \cap Simple
    BY DEF Plainly, Simple
  <1> HIDE DEF v, S
  <1>6. v = SrcOf(g, t, q) /\ Sends(g, t)
    BY <1>2, <1>4, <1>5, PlainSeen DEF u
  <1> QED BY <1>2, <1>6 DEF g, u, v, S

\* The timer of a host that waits has not expired.
Later(h) == h.retrans_bit # 0 => h.retrans > h.clock

\* Where a timer is set anew, it makes no difference what cancel_timer() left in retrans.
LEMMA RearmSeen ==
    ASSUME NEW t \in Nat \ {0}, NEW h, Sends(h, t), Armed(h), Idle(h), Timed(h), h.retrans_bit = 2, NEW q
    PROVE  LET g == Set(Cancel(h), 2)
           IN  /\ F!Arm(F!Cancel(SrcOf(h, t, q)), 2) = SrcOf(g, t, q) /\ Sends(g, t) /\ Timed(g)
               /\ Same(g, h, {"retrans", "retrans_bit", "timers"})
  <1> DEFINE c == Cancel(h)
             d == Stop(h)
             g == Set(c, 2)
             e == Set(d, 2)
             S == {"retrans", "retrans_bit", "timers"}
  <1>B. Body(h, t, Only(B)) /\ h.clock = t
    BY DEF Sends
  <1>1. h.retrans \in DOMAIN h.timers /\ h.timers = SetToBag({h.retrans})
    BY DEF Armed, Timed
  <1>2. Body(c, t, Only(B)) /\ Same(c, h, {"timers", "died"}) /\ c.died = h.died
    BY <1>B, <1>1, CancelLemma
  <1>3. c.timers = EmptyBag
    <2>1. c.timers = h.timers (-) SetToBag({h.retrans})
      BY <1>B DEF Cancel, Body, Names, Members
    <2> QED BY <1>1, <2>1, BagOne
  <1>4. F!Cancel(SrcOf(h, t, q)) = SrcOf(d, t, q) /\ Sends(d, t)
    BY StopSeen
  <1>5. Same(d, h, S) /\ d.timers = EmptyBag
    BY <1>B, StopBody
  <1> HIDE DEF c, d
  <1>6. F!Arm(SrcOf(d, t, q), 2) = SrcOf(e, t, q) /\ Sends(e, t) /\ Timed(e)
    BY <1>4, <1>5, SetSeen
  <1>7. c.clock = t /\ c.clock = d.clock /\ c.estimate = d.estimate
    BY <1>B, <1>2, <1>5 DEF Same, Members
  <1>8. Body(g, t, Only(B)) /\ Same(g, c, S) /\ Same(e, d, S)
    <2> DEFINE two == 2
    <2>1. Body(d, t, Only(B)) /\ d.clock = t /\ two \in 0..2 /\ t \in Nat
      BY <1>4 DEF Sends
    <2> HIDE DEF two
    <2>2. Body(Set(c, two), t, Only(B)) /\ Same(Set(c, two), c, S)
      BY <1>2, <1>7, <2>1, SetLemma
    <2>3. Same(Set(d, two), d, S)
      BY <2>1, SetLemma
    <2> QED BY <2>2, <2>3 DEF two
  <1>9. g.retrans = e.retrans /\ g.retrans_bit = e.retrans_bit /\ g.timers = e.timers
    <2>1. DOMAIN c = Members /\ DOMAIN d = Members
      BY <1>2, <1>4 DEF Sends, Body, Names
    <2> QED BY <1>3, <1>5, <1>7, <2>1 DEF Set, Members
  <1> HIDE DEF g, e
  <1>10. Same(g, e, {})
    BY <1>2, <1>5, <1>8, <1>9 DEF Same, Members
  <1>11. SrcOf(g, t, q) = SrcOf(e, t, q)
    BY <1>10, SrcSame
  <1>12. Sends(g, t)
    BY <1>6, <1>8, <1>10, SendsFrame
  <1>13. Timed(g)
    BY <1>6, <1>9 DEF Timed
  <1>14. Same(g, h, S)
    BY <1>2, <1>8 DEF Same, Members
  <1> QED BY <1>4, <1>6, <1>11, <1>12, <1>13, <1>14 DEF g, c

\* sent_window_sync() of an ack that repeats.
LEMMA DuplicateAckSeen ==
    ASSUME NEW t \in Nat \ {0}, NEW h, Sends(h, t), Armed(h), Idle(h), Timed(h), Later(h),
           NEW q \in Seq(Wire)
    PROVE  LET g == DuplicateAck(h)
           IN  F!DuplicateAck(SrcOf(h, t, q)) = SrcOf(g, t, q) /\ Sends(g, t) /\ Timed(g)
  <1> DEFINE size == (h.window_size + 1) \div 2
             one == Counts(h, 1)
             g == Sizes(h, 0, size)
             s == Set(Cancel(g), 2)
             u == SrcOf(h, t, q)
             x == SrcOf(g, t, q)
             y == SrcOf(s, t, q)
  <1>B. Body(h, t, Only(B)) /\ h.clock = t
    BY DEF Sends
  <1>1. u.dup_ack_count = h.dup_ack_count /\ u.window_size = h.window_size
    BY DEF SrcOf
  <1>2. CASE h.dup_ack_count = 0
    <2>1. Counts(u, 1) = SrcOf(one, t, q) /\ Sends(one, t) /\ Same(one, h, {"dup_ack_count"})
      BY CountSeen
    <2> HIDE DEF one
    <2>2. Timed(one)
      BY <2>1 DEF Timed, Same, Members
    <2>3. DuplicateAck(h) = one
      BY <1>2 DEF DuplicateAck, one, Counts
    <2> HIDE DEF u
    <2>4. F!DuplicateAck(u) = Counts(u, 1)
      BY <1>1, <1>2 DEF F!DuplicateAck, Counts
    <2> QED BY <2>1, <2>2, <2>3, <2>4 DEF u
  <1>3. CASE h.dup_ack_count # 0
    <2>1. size \in Nat \ {0}
      BY <1>B DEF Body, Sending
    <2> HIDE DEF size
    <2>2. /\ Sizes(u, 0, size) = x
          /\ Sends(g, t) /\ Same(g, h, {"dup_ack_count", "window_size"})
      BY <2>1, SizeSeen
    <2>3. DuplicateAck(h) = IF g.retrans_bit = 2 /\ g.retrans > h.clock THEN Resend(s) ELSE g
      BY <1>3 DEF DuplicateAck, size, Sizes
    <2> HIDE DEF g
    <2>4. /\ Armed(g) /\ Idle(g) /\ Timed(g) /\ g.retrans_bit = h.retrans_bit /\ g.retrans = h.retrans
          /\ g.clock = t
      BY <1>B, <2>2 DEF Same, Members, Armed, Idle, Timed
    <2>5. x.retrans_bit = g.retrans_bit /\ x.retrans = Running(g, t) /\ x.retransmit_pkt = ToDst(g.retransmit_pkt)
      BY DEF SrcOf
    <2>6. F!DuplicateAck(u) = IF x.retrans_bit = 2 /\ x.retrans
                              THEN F!Send(F!Arm(F!Cancel(x), 2), x.retransmit_pkt) ELSE x
      <3>1. u.dup_ack_count # 0
        BY <1>1, <1>3
      <3>2. [u EXCEPT !.dup_ack_count = 0, !.window_size = (@ + 1) \div 2] = x
        <4>1. [u EXCEPT !.dup_ack_count = 0, !.window_size = size] = x
          BY <2>2 DEF Sizes
        <4> HIDE DEF u, x
        <4> QED BY <1>1, <4>1 DEF size
      <3> HIDE DEF u, x
      <3> DEFINE z == [u EXCEPT !.dup_ack_count = 0, !.window_size = (@ + 1) \div 2]
      <3>3. F!DuplicateAck(u) = IF z.retrans_bit = 2 /\ z.retrans
                                THEN F!Send(F!Arm(F!Cancel(z), 2), z.retransmit_pkt) ELSE z
        BY <3>1 DEF F!DuplicateAck
      <3>4. z = x
        BY <3>2
      <3> HIDE DEF z
      <3> QED BY <3>3, <3>4
    <2>7. CASE g.retrans_bit = 2
      <3>1. g.retrans > h.clock
        BY <1>B, <2>4, <2>7 DEF Later
      <3>2. Running(g, t) = TRUE
        <4>1. g.retrans > t /\ g.retrans \in Nat
          BY <1>B, <2>2, <3>1 DEF Sends, Body, Timing
        <4> QED BY <4>1 DEF Running
      <3>3. /\ F!Arm(F!Cancel(x), 2) = y /\ Sends(s, t) /\ Timed(s)
            /\ Same(s, g, {"retrans", "retrans_bit", "timers"})
        BY <2>2, <2>4, <2>7, RearmSeen
      <3> HIDE DEF s
      <3>4. s.retransmit_pkt = g.retransmit_pkt /\ g.retransmit_pkt # NULL
        BY <2>4, <2>7, <3>3 DEF Armed, Same, Members
      <3>5. y.retransmit_pkt = ToDst(s.retransmit_pkt)
        BY DEF SrcOf
      <3> DEFINE r == Resend(s)
      <3>6. F!Send(y, y.retransmit_pkt) = SrcOf(r, t, q) /\ Sends(r, t) /\ Same(r, s, {"out"})
        BY <3>3, <3>4, ResendSeen
      <3> HIDE DEF r
      <3>7. Timed(r)
        BY <3>3, <3>6 DEF Timed, Same, Members
      <3>8. DuplicateAck(h) = r
        BY <2>3, <2>7, <3>1 DEF r
      <3> HIDE DEF u, x, y
      <3>9. F!DuplicateAck(u) = F!Send(y, y.retransmit_pkt)
        BY <2>5, <2>6, <2>7, <3>2, <3>3, <3>4, <3>5
      <3> QED BY <3>6, <3>7, <3>8, <3>9 DEF u
    <2>8. CASE g.retrans_bit # 2
      <3>1. DuplicateAck(h) = g
        BY <2>3, <2>8
      <3> HIDE DEF u, x
      <3>2. F!DuplicateAck(u) = x
        BY <2>5, <2>6, <2>8
      <3> QED BY <2>2, <2>4, <3>1, <3>2 DEF u, x
    <2> QED BY <2>7, <2>8
  <1> QED BY <1>2, <1>3

\* The instance has a Cardinality of its own.
LEMMA SameCardinality == \A S : F!Cardinality(S) = Cardinality(S)
  BY DEF F!Cardinality, Cardinality

\* What an ack takes out of a window.
Gone(w, ack) == IF ack \in DOMAIN w THEN {i \in DOMAIN w : i =< ack} ELSE {}

LEMMA AcknowledgeSeen ==
    ASSUME NEW t \in Nat, NEW h, Sends(h, t), NEW q, NEW ack
    PROVE  LET g == Acknowledge(h, ack)
           IN  /\ F!Acknowledge(SrcOf(h, t, q), ack) = SrcOf(g, t, q) /\ Sends(g, t)
               /\ Same(g, h, {"last_ack", "sent_window", "packets_in_window"})
  <1> DEFINE w0 == h.sent_window
             gone == Gone(w0, ack)
             g == Acknowledge(h, ack)
             S == {"last_ack", "sent_window", "packets_in_window"}
             u == SrcOf(h, t, q)
             w == SrcOf(g, t, q)
             v == F!Acknowledge(u, ack)
  <1>B. Body(h, t, Only(B)) /\ DOMAIN h = Members
    BY DEF Sends, Body, Names
  <1>1. Body(g, t, Only(B)) /\ Same(g, h, S)
    BY <1>B, AcknowledgeLemma
  <1>2. /\ g.last_ack = ack /\ g.sent_window = [i \in DOMAIN w0 \ gone |-> w0[i]]
        /\ g.packets_in_window = h.packets_in_window - Cardinality(gone)
    BY <1>B DEF Acknowledge, Members, Gone
  <1>3. u.sent_window = Window(w0) /\ u.packets_in_window = h.packets_in_window /\ F!IsSrc(u)
    BY SrcIsSrc DEF SrcOf
  <1>4. DOMAIN Window(w0) = DOMAIN w0
    BY DEF Window
  <1>5. v = [u EXCEPT !.last_ack = ack, !.sent_window = [i \in DOMAIN @ \ gone |-> @[i]],
                      !.packets_in_window = @ - Cardinality(gone)]
    <2> HIDE DEF u, w0
    <2> DEFINE lost == IF ack \in DOMAIN u.sent_window THEN {i \in DOMAIN u.sent_window : i =< ack} ELSE {}
    <2>1. lost = gone
      BY <1>3, <1>4 DEF Gone
    <2>2. v = [u EXCEPT !.last_ack = ack, !.sent_window = [i \in DOMAIN @ \ lost |-> @[i]],
                        !.packets_in_window = @ - Cardinality(lost)]
      BY SameCardinality DEF F!Acknowledge
    <2> HIDE DEF gone, lost, v
    <2> QED BY <2>1, <2>2
  <1>6. Window(g.sent_window) = [i \in DOMAIN u.sent_window \ gone |-> u.sent_window[i]]
    <2> HIDE DEF u, g, gone, w0
    <2> QED BY <1>2, <1>3, <1>4 DEF Window
  <1>7. w.last_ack = g.last_ack /\ w.sent_window = Window(g.sent_window) /\ w.packets_in_window = g.packets_in_window
    BY DEF SrcOf
  <1>8. Holds(g)
    <2>1. g.retransmit_pkt = h.retransmit_pkt
      BY <1>1 DEF Same, Members
    <2> QED BY <1>2, <2>1 DEF Sends, Holds
  <1> HIDE DEF g, u, w, gone, v, w0
  <1>9. F!IsSrc(v) /\ \A f \in F!SrcFields : v[f] = IF Member(f) \in S THEN w[f] ELSE u[f]
    BY <1>2, <1>3, <1>5, <1>6, <1>7 DEF F!IsSrc, F!SrcFields, Member
  <1>10. v = w
    BY <1>1, <1>9, SrcFrame DEF u, w
  <1>11. Sends(g, t)
    BY <1>1, <1>8, SendsFrame DEF Fixed
  <1> QED BY <1>1, <1>10, <1>11 DEF g, u, w, v

\* sent_window_sync() of a new ack.
LEMMA NewAckSeen ==
    ASSUME NEW t \in Nat \ {0}, NEW h, Sends(h, t), Armed(h), Idle(h), Timed(h),
           NEW q \in Seq(Wire), NEW ack, NEW window \in Windows
    PROVE  LET g == NewAck(h, ack, window)
           IN  F!NewAck(SrcOf(h, t, q), ack, window) = SrcOf(g, t, q) /\ Sends(g, t) /\ Timed(g)
  <1> DEFINE c == Sizes(h, 0, window)
             d == Stop(c)
             a == Acknowledge(d, ack)
             m == Measure(a, ack)
             g == [m EXCEPT !.retransmit_pkt = Oldest(m.sent_window)]
             e == IF g.retransmit_pkt.FIN = 1 THEN g ELSE Resend(g)
             r == Set(e, 2)
             u == SrcOf(h, t, q)
             x == SrcOf(c, t, q)
             y == SrcOf(d, t, q)
             z == SrcOf(a, t, q)
             w == SrcOf(g, t, q)
  <1>1. window \in Nat \ {0}
    BY WindowsAssumption
  <1>2. Sizes(u, 0, window) = x /\ Sends(c, t) /\ Same(c, h, {"dup_ack_count", "window_size"})
    BY <1>1, SizeSeen
  <1>3. NewAck(h, ack, window) = IF g.retrans_bit # 0 \/ g.retransmit_pkt = NULL THEN g ELSE r
    BY DEF NewAck, Sizes, Stop
  <1> HIDE DEF c
  <1>4. Armed(c) /\ Idle(c) /\ Timed(c) /\ Body(c, t, Only(B)) /\ c.clock = t
    BY <1>2 DEF Same, Members, Armed, Idle, Timed, Sends
  <1>5. F!Cancel(x) = y /\ Sends(d, t)
    BY <1>2, <1>4, StopSeen
  <1>6. d.retrans_bit = 0 /\ d.timers = EmptyBag
    BY <1>4, StopBody
  <1> HIDE DEF d
  <1>7. F!Acknowledge(y, ack) = z /\ Sends(a, t) /\ Same(a, d, {"last_ack", "sent_window", "packets_in_window"})
    BY <1>5, AcknowledgeSeen
  <1> HIDE DEF a
  <1>8. Sends(m, t) /\ SrcOf(m, t, q) = z /\ Same(m, a, {"estimate", "last_transmit"})
    <2>1. Body(m, t, Only(B)) /\ Same(m, a, {"estimate", "last_transmit"})
      <3>1. Body(a, t, Only(B)) /\ a.clock = t /\ t \in Nat
        BY <1>7 DEF Sends
      <3> QED BY <3>1, MeasureLemma
    <2> HIDE DEF m
    <2>2. Sends(m, t)
      BY <1>7, <2>1, SendsFrame DEF Fixed
    <2> QED BY <2>1, <2>2, SrcSame DEF Member, F!SrcFields
  <1> HIDE DEF m
  <1>9. /\ [z EXCEPT !.retransmit_pkt = F!Oldest(z.sent_window)] = w
        /\ Sends(g, t) /\ Same(g, m, {"retransmit_pkt"})
        /\ g.retransmit_pkt = NULL <=> ToDst(g.retransmit_pkt) = F!NULL
    <2> HIDE DEF w
    <2>1. LET b == [m EXCEPT !.retransmit_pkt = Oldest(m.sent_window)]
              s == SrcOf(m, t, q)
          IN  /\ [s EXCEPT !.retransmit_pkt = F!Oldest(s.sent_window)] = SrcOf(b, t, q)
              /\ Sends(b, t) /\ Same(b, m, {"retransmit_pkt"})
              /\ b.retransmit_pkt = NULL <=> ToDst(b.retransmit_pkt) = F!NULL
      BY <1>8, KeepSeen
    <2> HIDE DEF z
    <2> QED BY <1>8, <2>1 DEF w
  <1> HIDE DEF g
  <1>10. g.retrans_bit = 0 /\ g.timers = EmptyBag /\ Timed(g)
    BY <1>6, <1>7, <1>8, <1>9 DEF Same, Members, Timed
  <1>11. w.retrans_bit = g.retrans_bit /\ w.retransmit_pkt = ToDst(g.retransmit_pkt)
    BY DEF SrcOf
  <1>12. F!NewAck(u, ack, window)
            = IF w.retrans_bit # 0 \/ w.retransmit_pkt = F!NULL THEN w
              ELSE F!Arm(IF w.retransmit_pkt.FIN = 1 THEN w ELSE F!Send(w, w.retransmit_pkt), 2)
    <2> HIDE DEF u, x, y, z, w
    <2>1. F!NewAck(u, ack, window) = F!ResendOldest(z)
      BY <1>2, <1>5, <1>7 DEF F!NewAck, Sizes
    <2>2. w.retransmit_pkt = F!Oldest(z.sent_window)
      <3>1. F!IsSrc(z)
        BY SrcIsSrc DEF z
      <3> QED BY <1>9, <3>1 DEF F!IsSrc, F!SrcFields
    <2> DEFINE b == [z EXCEPT !.retransmit_pkt = F!Oldest(z.sent_window)]
               p == F!Oldest(z.sent_window)
    <2>3. F!ResendOldest(z) = IF b.retrans_bit # 0 \/ p = F!NULL THEN b
                              ELSE F!Arm(IF p.FIN = 1 THEN b ELSE F!Send(b, p), 2)
      BY DEF F!ResendOldest
    <2>4. b = w /\ p = w.retransmit_pkt
      BY <1>9, <2>2
    <2> HIDE DEF b, p
    <2> QED BY <2>1, <2>3, <2>4
  <1>13. CASE g.retransmit_pkt = NULL
    <2>1. NewAck(h, ack, window) = g
      BY <1>3, <1>13
    <2> HIDE DEF u, w
    <2>2. F!NewAck(u, ack, window) = w
      BY <1>9, <1>11, <1>12, <1>13
    <2> QED BY <1>9, <1>10, <2>1, <2>2 DEF u, w
  <1>14. CASE g.retransmit_pkt # NULL
    <2> DEFINE b == IF w.retransmit_pkt.FIN = 1 THEN w ELSE F!Send(w, w.retransmit_pkt)
    <2>1. NewAck(h, ack, window) = r
      BY <1>3, <1>10, <1>14
    <2>2. F!NewAck(u, ack, window) = F!Arm(b, 2)
      <3> HIDE DEF u, w
      <3> QED BY <1>9, <1>10, <1>11, <1>12, <1>14
    <2>3. w.retransmit_pkt.FIN = g.retransmit_pkt.FIN
      BY <1>11 DEF ToDst
    <2>4. b = SrcOf(e, t, q) /\ Sends(e, t) /\ e.timers = EmptyBag
      <3>1. CASE g.retransmit_pkt.FIN = 1
        <4>1. e = g
          BY <3>1
        <4> HIDE DEF w, e
        <4> QED BY <1>9, <1>10, <2>3, <3>1, <4>1 DEF w
      <3>2. CASE g.retransmit_pkt.FIN # 1
        <4> DEFINE s == Resend(g)
        <4>1. e = s
          BY <3>2
        <4>2. F!Send(w, w.retransmit_pkt) = SrcOf(s, t, q) /\ Sends(s, t) /\ Same(s, g, {"out"})
          BY <1>9, <1>14, ResendSeen
        <4> HIDE DEF w, e, s
        <4>3. s.timers = EmptyBag
          BY <1>10, <4>2 DEF Same, Members
        <4> QED BY <2>3, <3>2, <4>1, <4>2, <4>3
      <3> QED BY <3>1, <3>2
    <2> HIDE DEF e, b
    <2>5. F!Arm(SrcOf(e, t, q), 2) = SrcOf(r, t, q) /\ Sends(r, t) /\ Timed(r)
      BY <2>4, SetSeen
    <2> HIDE DEF r
    <2> QED BY <2>1, <2>2, <2>4, <2>5
  <1> QED BY <1>13, <1>14

\* sent_window_sync() as a whole.
LEMMA SentWindowSyncSeen ==
    ASSUME NEW t \in Nat \ {0}, NEW h, Sends(h, t), Armed(h), Idle(h), Timed(h), Later(h),
           NEW q \in Seq(Wire), NEW ack, NEW window \in Windows
    PROVE  LET g == SentWindowSync(h, ack, window)
           IN  F!SentWindowSync(SrcOf(h, t, q), ack, window) = SrcOf(g, t, q) /\ Sends(g, t) /\ Timed(g)
  <1> DEFINE u == SrcOf(h, t, q)
  <1>1. u.last_ack = h.last_ack
    BY DEF SrcOf
  <1> HIDE DEF u
  <1>2. CASE ack < h.last_ack
    <2>1. SentWindowSync(h, ack, window) = h /\ F!SentWindowSync(u, ack, window) = u
      BY <1>1, <1>2 DEF SentWindowSync, F!SentWindowSync
    <2> QED BY <2>1 DEF u
  <1>3. CASE ~(ack < h.last_ack) /\ ack = h.last_ack
    <2>1. /\ SentWindowSync(h, ack, window) = DuplicateAck(h)
          /\ F!SentWindowSync(u, ack, window) = F!DuplicateAck(u)
      BY <1>1, <1>3 DEF SentWindowSync, F!SentWindowSync
    <2> QED BY <2>1, DuplicateAckSeen DEF u
  <1>4. CASE ~(ack < h.last_ack) /\ ack # h.last_ack
    <2>1. /\ SentWindowSync(h, ack, window) = NewAck(h, ack, window)
          /\ F!SentWindowSync(u, ack, window) = F!NewAck(u, ack, window)
      BY <1>1, <1>4 DEF SentWindowSync, F!SentWindowSync
    <2> QED BY <2>1, NewAckSeen DEF u
  <1> QED BY <1>2, <1>3, <1>4

---------------------------------------------------------------------------
(* receive() at the source.                                                *)

\* Only the arrival of its last reply closes a flow.
LEMMA SendFileKeeps ==
    ASSUME NEW t \in Nat, NEW h, Sends(h, t)
    PROVE  LET g == SendFile(h) IN (g.term_bit = 2 => h.term_bit = 2) /\ g.flag = h.flag
  <1> DEFINE f == Burst(h)
             full == f.in_file.is_open \/ f.packets_in_window >= f.window_size
             s == IF ~full /\ f.term_bit = 0 THEN Terminate(f) ELSE f
             g == [s EXCEPT !.retransmit_pkt = Oldest(s.sent_window)]
             r == [Set(g, 2) EXCEPT !.last_transmit = h.clock]
  <1>1. Body(h, t, Only(B)) /\ DOMAIN h = Members
    BY DEF Sends, Body, Names
  <1>2. /\ Body(f, t, Only(B))
        /\ Same(f, h, {"in_file", "sent_so_far", "packets_in_window", "sent_window", "send_time", "out"})
    BY <1>1, OnlyEnds, BurstLemma DEF Sends
  <1>3. SendFile(h) = IF g.retrans_bit = 0 /\ g.retransmit_pkt # NULL THEN r ELSE g
    BY DEF SendFile
  <1> HIDE DEF f
  <1>4. f.term_bit = h.term_bit /\ f.flag = h.flag /\ DOMAIN f = Members
    BY <1>1, <1>2 DEF Same, Members
  <1>5. DOMAIN s = Members /\ s.flag = f.flag /\ (s.term_bit = f.term_bit \/ s.term_bit = 1)
    <2>1. DOMAIN Terminate(f) = Members /\ Terminate(f).term_bit = 1 /\ Terminate(f).flag = f.flag
      BY <1>4 DEF Terminate, Send, Members
    <2> HIDE DEF full
    <2> QED BY <1>4, <2>1
  <1> HIDE DEF s
  <1>6. g.term_bit = s.term_bit /\ r.term_bit = s.term_bit /\ g.flag = s.flag /\ r.flag = s.flag
    BY <1>5 DEF Set, Members
  <1> HIDE DEF g, r
  <1>7. CASE g.retrans_bit = 0 /\ g.retransmit_pkt # NULL
    BY <1>3, <1>4, <1>5, <1>6, <1>7
  <1>8. CASE ~(g.retrans_bit = 0 /\ g.retransmit_pkt # NULL)
    BY <1>3, <1>4, <1>5, <1>6, <1>8
  <1> QED BY <1>7, <1>8

\* What a SYN-ACK makes of Fdtp's source.
SynAnswered(u) == F!SendFile(F!SendControl([F!Cancel(u) EXCEPT !.retrans = u.retrans, !.sync_bit = 3,
                                                               !.last_ack = 2]))

\* A SYN-ACK opens the connection of the source.
LEMMA ReceiveSynAckSeen ==
    ASSUME NEW t \in Nat \ {0}, NEW h, Sends(h, t), HostInv(h, t, Only(B)), Timed(h), h.sync_bit = 1,
           h.term_bit = 0, NEW q \in Seq(Wire), NEW p, p.source = B
    PROVE  LET g == ReceiveSynAck(h, p)
               u == SrcOf(h, t, q)
           IN  /\ SynAnswered(u) = SrcOf(g, t, q)
               /\ Sends(g, t) /\ Timed(g) /\ g.term_bit # 2 /\ g.flag = 1
  <1> DEFINE c == Cancel(h)
             d == IF Ahead(h) THEN [c EXCEPT !.retrans_bit = 0] ELSE h
             first == FirstSample(h.clock - h.last_transmit)
             f == [d EXCEPT !.destination = p.source, !.sync_bit = 3, !.last_ack = 2, !.flag = 1,
                            !.estimate = first]
             e == HandleTimer(f)
             g == SendFile(e)
             S == {"timers", "retrans_bit", "sync_bit", "last_ack", "flag", "estimate"}
             u == SrcOf(h, t, q)
             x == SrcOf(f, t, q)
             w == SrcOf(e, t, q)
             v == [F!Cancel(u) EXCEPT !.retrans = u.retrans, !.sync_bit = 3, !.last_ack = 2]
  <1>0. ReceiveSynAck(h, p) = g
    BY DEF ReceiveSynAck
  <1>1. /\ Body(h, t, Only(B)) /\ Armed(h) /\ Idle(h) /\ DOMAIN h = Members /\ Plain(h, t, Only(B))
        /\ h.clock = t /\ h.destination = B
    BY PlainBody DEF HostInv, Sends, SrcRole
  <1>2. /\ Ahead(h) <=> h.retrans_bit # 0
        /\ Ahead(h) => Body(c, t, Only(B)) /\ Same(c, h, {"timers"})
    BY <1>1, AheadLemma
  <1>3. /\ Body(d, t, Only(B)) /\ Same(d, h, {"timers", "retrans_bit"}) /\ DOMAIN d = Members
        /\ d.retrans_bit = 0 /\ d.timers = EmptyBag
    <2>1. CASE Ahead(h)
      <3>1. c.timers = EmptyBag
        <4>1. c.timers = h.timers (-) SetToBag({h.retrans}) /\ h.timers = SetToBag({h.retrans})
          BY <1>1, <1>2, <2>1 DEF Cancel, Timed, Members
        <4> QED BY <4>1, BagOne
      <3> HIDE DEF c
      <3>2. Same(d, c, {"retrans_bit"}) /\ d.retrans_bit = 0 /\ DOMAIN c = Members /\ DOMAIN d = Members
        BY <1>1, <1>2, <2>1 DEF Same, Members
      <3> HIDE DEF d
      <3>3. Same(d, c, Simple) /\ Plain(d, t, Only(B)) /\ (c.term_bit # 0 => d.term_bit # 0)
        <4>1. Plain(c, t, Only(B))
          BY <1>2, <2>1, PlainBody
        <4> QED BY <3>2, <4>1 DEF Same, Members, Simple, Plain
      <3>4. Body(d, t, Only(B))
        BY <1>2, <2>1, <3>3, UpdateBody
      <3> QED BY <1>1, <1>2, <2>1, <3>1, <3>2, <3>4 DEF Same, Members
    <2>2. CASE ~Ahead(h)
      BY <1>1, <1>2, <2>2 DEF Same, Timed
    <2> QED BY <2>1, <2>2
  <1> HIDE DEF c, d
  <1>4. first \in [RTT : Nat, RTTVAR : Nat, RTO : Nat]
    <2> DEFINE s == h.clock - h.last_transmit
    <2>1. s \in Nat /\ h.estimate \in [RTT : Nat, RTTVAR : Nat, RTO : Nat]
      BY <1>1 DEF Plain
    <2> HIDE DEF s
    <2>2. FirstSample(s) \in [RTT : Nat, RTTVAR : Nat, RTO : Nat]
      BY <2>1, NextSampleType
    <2> QED BY <2>2 DEF s
  <1> HIDE DEF first
  <1>5. /\ Same(f, d, {"sync_bit", "last_ack", "flag", "estimate"})
        /\ f.sync_bit = 3 /\ f.last_ack = 2 /\ f.estimate = first /\ f.flag = 1
    <2>1. d.destination = B
      BY <1>1, <1>3 DEF Same, Members
    <2> QED BY <1>3, <2>1 DEF Same, Members
  <1> HIDE DEF f
  <1>6. /\ Same(f, h, S) /\ f.retrans_bit = 0 /\ f.timers = EmptyBag /\ Timed(f)
    BY <1>3, <1>5 DEF Same, Members, Timed
  <1>7. Body(f, t, Only(B))
    <2>1. Plain(d, t, Only(B))
      BY <1>3, PlainBody
    <2>2. Same(f, d, Simple)
      BY <1>5 DEF Same, Simple
    <2>3. /\ f.destination = d.destination /\ f.term_bit = d.term_bit /\ f.retrans = d.retrans
          /\ f.retrans_bit = d.retrans_bit /\ f.sent_so_far = d.sent_so_far
          /\ f.recv_so_far = d.recv_so_far /\ f.window_size = d.window_size
          /\ f.last_transmit = d.last_transmit /\ f.died = d.died
      BY <1>5 DEF Same, Members
    <2>4. Plain(f, t, Only(B))
      BY <1>4, <1>5, <2>1, <2>3 DEF Plain
    <2> QED BY <1>3, <2>2, <2>3, <2>4, UpdateBody
  <1>8. Sends(f, t)
    BY <1>6, <1>7, SendsFrame DEF Fixed
  <1>9. v = x
    <2>1. u.retrans = Running(h, t) /\ u.retrans_bit = h.retrans_bit /\ u.timers = BagCardinality(h.timers)
      BY DEF SrcOf
    <2>2. x.retrans_bit = 0 /\ x.timers = BagCardinality(f.timers) /\ x.sync_bit = 3 /\ x.last_ack = 2
      BY <1>5, <1>6 DEF SrcOf
    <2>3. F!IsSrc(u)
      BY SrcIsSrc
    <2>4. Running(h, t) <=> h.retrans_bit # 0
      BY <1>1, AheadIsArmed
    <2> HIDE DEF u, x
    <2>5. /\ F!Cancel(u).retrans_bit = 0 /\ F!Cancel(u).timers = x.timers /\ F!IsSrc(F!Cancel(u))
          /\ \A k \in F!SrcFields : k \notin {"retrans", "retrans_bit", "timers"} => F!Cancel(u)[k] = u[k]
      <3>1. CASE h.retrans_bit = 0
        <4>1. h.timers = EmptyBag /\ Running(h, t) = FALSE
          BY <2>4, <3>1 DEF Timed, Running
        <4>2. F!Cancel(u) = u
          BY <2>1, <4>1 DEF F!Cancel
        <4> QED BY <1>6, <2>1, <2>2, <2>3, <3>1, <4>1, <4>2
      <3>2. CASE h.retrans_bit # 0
        <4>1. Running(h, t) = TRUE
          BY <2>4, <3>2 DEF Running
        <4>2. BagCardinality(f.timers) = 0 /\ BagCardinality(h.timers) = 1
          BY <1>6, <3>2, CountOne, CountNone DEF Timed
        <4>3. F!Cancel(u) = [u EXCEPT !.retrans = FALSE, !.retrans_bit = 0, !.timers = @ - 1]
          BY <2>1, <4>1 DEF F!Cancel
        <4>4. x.timers = 0 /\ u.timers = 1
          BY <2>1, <2>2, <4>2
        <4> DEFINE k == F!Cancel(u)
        <4> HIDE DEF k
        <4>5. k = [u EXCEPT !.retrans = FALSE, !.retrans_bit = 0, !.timers = @ - 1]
          BY <4>3 DEF k
        <4>6. k.retrans_bit = 0 /\ k.timers = u.timers - 1 /\ F!IsSrc(k)
          BY <2>3, <4>5 DEF F!IsSrc, F!SrcFields
        <4>7. \A y \in F!SrcFields : y \notin {"retrans", "retrans_bit", "timers"} => k[y] = u[y]
          BY <2>3, <4>5 DEF F!IsSrc, F!SrcFields
        <4> QED BY <4>4, <4>6, <4>7 DEF k
      <3> QED BY <3>1, <3>2
    <2> DEFINE k == F!Cancel(u)
    <2> HIDE DEF k
    <2>6. F!IsSrc(v) /\ \A y \in F!SrcFields : v[y] = IF Member(y) \in S THEN x[y] ELSE u[y]
      <3>1. v = [k EXCEPT !.retrans = u.retrans, !.sync_bit = 3, !.last_ack = 2]
        BY DEF k
      <3>2. /\ k.retrans_bit = 0 /\ k.timers = x.timers /\ F!IsSrc(k)
            /\ \A y \in F!SrcFields : y \notin {"retrans", "retrans_bit", "timers"} => k[y] = u[y]
        BY <2>5 DEF k
      <3> HIDE DEF v
      <3> QED BY <2>2, <3>1, <3>2 DEF F!IsSrc, F!SrcFields, Member
    <2> HIDE DEF v, S
    <2> QED BY <1>6, <2>6, SrcFrame DEF u, x
  <1>10. F!SendControl(x) = w /\ Sends(e, t) /\ Same(e, f, {"sent_so_far", "out"})
    BY <1>6, <1>8, IdleTimerSeen
  <1> HIDE DEF e
  <1>11. Timed(e)
    BY <1>6, <1>10 DEF Timed, Same, Members
  <1>12. F!SendFile(w) = SrcOf(g, t, q) /\ Sends(g, t) /\ Timed(g)
    BY <1>10, <1>11, SendFileSeen
  <1>13. (g.term_bit = 2 => e.term_bit = 2) /\ g.flag = e.flag
    BY <1>10, SendFileKeeps
  <1>14. e.term_bit = 0 /\ e.flag = 1
    BY <1>5, <1>6, <1>10 DEF Same, Members
  <1>15. SynAnswered(u) = F!SendFile(F!SendControl(v))
    <2> HIDE DEF u
    <2> QED BY DEF SynAnswered
  <1> HIDE DEF g, u, v, w, x
  <1> QED BY <1>0, <1>9, <1>10, <1>12, <1>13, <1>14, <1>15 DEF u

\* A reply of the destination.
FromB(p) == /\ p \in PacketType /\ p.source = B /\ p.sync_bit \in 2..3 /\ p.ACK = p.FIN
            /\ p.FIN = 1 => p.sync_bit = 3

\* What receive() counts on the source is not seen.
LEMMA CountSource ==
    ASSUME NEW t, NEW h, Sends(h, t), HostInv(h, t, Only(B)), NEW p \in PacketType, NEW q
    PROVE  LET c == Count(h, p)
           IN  /\ SrcOf(c, t, q) = SrcOf(h, t, q) /\ Sends(c, t) /\ HostInv(c, t, Only(B))
               /\ Same(c, h, {"write", "flag", "recv_so_far"}) /\ c.flag = 0
  <1> DEFINE c == Count(h, p)
             S == {"write", "flag", "recv_so_far"}
  <1>1. HostInv(c, t, Only(B))
    BY CountLemma
  <1>2. Same(c, h, S) /\ c.flag = 0
    BY DEF Count, Same, Sends, Body, Names, Members
  <1> HIDE DEF c
  <1>3. Sends(c, t)
    BY <1>1, <1>2, SendsFrame DEF HostInv, Fixed
  <1>4. SrcOf(c, t, q) = SrcOf(h, t, q)
    BY <1>2, SrcSame DEF Member, F!SrcFields
  <1> QED BY <1>1, <1>2, <1>3, <1>4 DEF c

\* What the handshake makes of a source, and of its view, before the ack is looked at.
LEMMA ConnectSource ==
    ASSUME NEW t \in Nat \ {0}, NEW h, Sends(h, t), HostInv(h, t, Only(B)), Timed(h), Later(h),
           h.flag = 0, h.sync_bit \in {1, 3}, h.sync_bit = 1 => h.term_bit = 0,
           NEW q \in Seq(Wire), NEW p, FromB(p)
    PROVE  LET g == Connect(h, p)
               u == SrcOf(h, t, q)
               w == SrcOf(g, t, q)
           IN  /\ Sends(g, t) /\ HostInv(g, t, Only(B)) /\ Timed(g)
               /\ h.sync_bit = 1 /\ p.sync_bit = 2 =>
                     /\ w = F!SendFile(F!SendControl([F!Cancel(u) EXCEPT !.retrans = u.retrans,
                                                                         !.sync_bit = 3, !.last_ack = 2]))
                     /\ g.flag = 1 /\ g.term_bit # 2
               /\ h.sync_bit = 1 /\ p.sync_bit # 2 => g = h
               /\ h.sync_bit = 3 =>
                     /\ w = IF h.term_bit = 0 /\ p.sync_bit = 2 /\ h.retrans_bit # 2 THEN F!SendControl(u) ELSE u
                     /\ g.flag = 0 /\ g.sync_bit = 3 /\ g.term_bit = h.term_bit /\ Later(g)
  <1> DEFINE g == Connect(h, p)
             u == SrcOf(h, t, q)
             w == SrcOf(g, t, q)
             v == F!SendFile(F!SendControl([F!Cancel(u) EXCEPT !.retrans = u.retrans,
                                                               !.sync_bit = 3, !.last_ack = 2]))
  <1>0. /\ Body(h, t, Only(B)) /\ h.clock = t /\ t \in Nat /\ p.source = B /\ p.sync_bit \in 2..3
    BY DEF HostInv, Sends, FromB
  <1>1. HostInv(g, t, Only(B))
    BY <1>0, OnlyEnds, ConnectLemma
  <1>2. CASE h.sync_bit = 1 /\ p.sync_bit = 2
    <2> DEFINE r == ReceiveSynAck(h, p)
    <2>1. h.term_bit = 0
      BY <1>2
    <2>2. v = SrcOf(r, t, q) /\ Sends(r, t) /\ Timed(r) /\ r.term_bit # 2 /\ r.flag = 1
      <3>1. h.sync_bit = 1 /\ h.term_bit = 0 /\ p.source = B
        BY <1>0, <1>2, <2>1
      <3> HIDE DEF g, w, v
      <3>2. SynAnswered(u) = SrcOf(r, t, q) /\ Sends(r, t) /\ Timed(r) /\ r.term_bit # 2 /\ r.flag = 1
        BY <3>1, ReceiveSynAckSeen
      <3> HIDE DEF u, r
      <3>3. v = SynAnswered(u)
        BY DEF v, SynAnswered
      <3> QED BY <3>2, <3>3
    <2>3. g = r
      BY <1>2, <2>1 DEF Connect
    <2> HIDE DEF g, u, v, r
    <2> QED BY <1>1, <1>2, <2>2, <2>3 DEF g, u, v
  <1>3. CASE h.sync_bit = 3 /\ h.term_bit = 0 /\ p.sync_bit = 2 /\ h.retrans_bit # 2
    <2> DEFINE r == HandleTimer(h)
    <2>1. ~(h.retrans = h.clock /\ h.retrans_bit = 1)
      BY <1>0 DEF Later
    <2>2. F!SendControl(u) = SrcOf(r, t, q) /\ Sends(r, t) /\ Same(r, h, {"sent_so_far", "out"})
      BY <1>3, <2>1, IdleTimerSeen
    <2>3. g = r
      BY <1>3 DEF Connect
    <2> HIDE DEF g, u, v, r
    <2>4. /\ r.flag = h.flag /\ r.sync_bit = h.sync_bit /\ r.term_bit = h.term_bit /\ r.timers = h.timers
          /\ r.retrans_bit = h.retrans_bit /\ r.retrans = h.retrans /\ r.clock = h.clock
      BY <2>2 DEF Same, Members
    <2>5. Timed(r) /\ Later(r)
      BY <2>4 DEF Timed, Later
    <2> QED BY <1>1, <1>3, <2>2, <2>3, <2>4, <2>5 DEF g, u
  <1>4. CASE ~(h.sync_bit = 1 /\ p.sync_bit = 2)
             /\ ~(h.sync_bit = 3 /\ h.term_bit = 0 /\ p.sync_bit = 2 /\ h.retrans_bit # 2)
    <2>1. g = h
      <3>1. CASE h.term_bit # 0
        BY <3>1 DEF Connect
      <3>2. CASE h.term_bit = 0 /\ h.sync_bit = 3 /\ p.sync_bit = 2
        <4>1. HandleTimer(h) = h
          BY <1>0, <1>4, <3>2 DEF HandleTimer, Later
        <4>2. g = HandleTimer(h)
          BY <3>2 DEF Connect
        <4> QED BY <4>1, <4>2
      <3>3. CASE h.term_bit = 0 /\ ~(h.sync_bit = 3 /\ p.sync_bit = 2)
        BY <1>0, <1>4, <3>3 DEF Connect
      <3> QED BY <3>1, <3>2, <3>3
    <2> HIDE DEF g, u, v
    <2> QED BY <1>4, <2>1 DEF g, u
  <1> QED BY <1>2, <1>3, <1>4

\* What a source h makes of p when it becomes g: u and w are its states in Fdtp, before and after.
SrcHears(h, g, p, window, u, w) ==
    \/ /\ h.sync_bit = 1 /\ p.sync_bit = 2 /\ g.term_bit # 2
       /\ w = F!SendFile(F!SendControl([F!Cancel(u) EXCEPT !.retrans = u.retrans,
                                                           !.sync_bit = 3, !.last_ack = 2]))
    \/ /\ h.sync_bit = 3 /\ p.FIN = 0 /\ (g.term_bit = 2 => h.term_bit = 2)
       /\ w = F!SendFile(F!SentWindowSync(IF h.term_bit = 0 /\ p.sync_bit = 2 /\ h.retrans_bit # 2
                                          THEN F!SendControl(u) ELSE u, p.ack_id, window))
    \/ /\ h.sync_bit = 3 /\ p.FIN = 1 /\ h.term_bit = 1 /\ g.term_bit = 2
       /\ w = F!SentWindowSync([u EXCEPT !.term_bit = 2], p.ack_id, window)
    \/ /\ h.sync_bit = 3 => p.FIN = 1 /\ h.term_bit # 1
       /\ h.sync_bit = 1 => p.sync_bit # 2
       /\ w = u /\ g.term_bit = h.term_bit

\* The arrival of a reply, as Fdtp's events have it.
LEMMA SourceReceives ==
    ASSUME NEW t \in Nat \ {0}, NEW h, Sends(h, t), HostInv(h, t, Only(B)), Timed(h), Later(h),
           h.sync_bit \in {1, 3}, h.sync_bit = 1 => h.term_bit = 0,
           NEW q \in Seq(Wire), NEW p, FromB(p), NEW window \in Windows
    PROVE  /\ Sends(Receive(h, p, window), t) /\ Timed(Receive(h, p, window))
           /\ SrcHears(h, Receive(h, p, window), p, window, SrcOf(h, t, q),
                       SrcOf(Receive(h, p, window), t, q))
  <1> SUFFICES LET g == Receive(h, p, window)
                   u == SrcOf(h, t, q)
                   w == SrcOf(g, t, q)
               IN  Sends(g, t) /\ Timed(g) /\ SrcHears(h, g, p, window, u, w)
    OBVIOUS
  <1> DEFINE c == Count(h, p)
             n == Connect(c, p)
             g == Receive(h, p, window)
             u == SrcOf(h, t, q)
             x == SrcOf(n, t, q)
             w == SrcOf(g, t, q)
             v == F!SendFile(F!SendControl([F!Cancel(u) EXCEPT !.retrans = u.retrans,
                                                               !.sync_bit = 3, !.last_ack = 2]))
             y == IF h.term_bit = 0 /\ p.sync_bit = 2 /\ h.retrans_bit # 2 THEN F!SendControl(u) ELSE u
  <1>0. p \in PacketType /\ p.sync_bit \in 2..3 /\ p.ACK = p.FIN /\ p.FIN \in 0..1
    BY DEF FromB, PacketType
  <1>1. /\ SrcOf(c, t, q) = u /\ Sends(c, t) /\ HostInv(c, t, Only(B))
        /\ Same(c, h, {"write", "flag", "recv_so_far"}) /\ c.flag = 0
    BY <1>0, CountSource
  <1>2. g = Transfer(n, p, window)
    BY DEF Receive
  <1> HIDE DEF c
  <1>3. /\ c.sync_bit = h.sync_bit /\ c.term_bit = h.term_bit /\ c.retrans_bit = h.retrans_bit
        /\ Timed(c) /\ Later(c)
    BY <1>1 DEF Same, Members, Timed, Later
  <1>4. /\ Sends(n, t) /\ HostInv(n, t, Only(B)) /\ Timed(n)
        /\ h.sync_bit = 1 /\ p.sync_bit = 2 => x = v /\ n.flag = 1 /\ n.term_bit # 2
        /\ h.sync_bit = 1 /\ p.sync_bit # 2 => n = c
        /\ h.sync_bit = 3 => /\ x = y
                             /\ n.flag = 0 /\ n.sync_bit = 3 /\ n.term_bit = h.term_bit /\ Later(n)
    <2> HIDE DEF n, u, x, v, y
    <2> DEFINE a == SrcOf(c, t, q)
               d == F!SendFile(F!SendControl([F!Cancel(a) EXCEPT !.retrans = a.retrans,
                                                                 !.sync_bit = 3, !.last_ack = 2]))
               e == IF c.term_bit = 0 /\ p.sync_bit = 2 /\ c.retrans_bit # 2 THEN F!SendControl(a) ELSE a
    <2>1. /\ Sends(n, t) /\ HostInv(n, t, Only(B)) /\ Timed(n)
          /\ c.sync_bit = 1 /\ p.sync_bit = 2 => x = d /\ n.flag = 1 /\ n.term_bit # 2
          /\ c.sync_bit = 1 /\ p.sync_bit # 2 => n = c
          /\ c.sync_bit = 3 => /\ x = e
                               /\ n.flag = 0 /\ n.sync_bit = 3 /\ n.term_bit = c.term_bit /\ Later(n)
      <3>1. c.flag = 0 /\ c.sync_bit \in {1, 3} /\ (c.sync_bit = 1 => c.term_bit = 0)
        BY <1>1, <1>3
      <3>2. LET g1 == Connect(c, p)
                u1 == SrcOf(c, t, q)
                w1 == SrcOf(g1, t, q)
            IN  /\ Sends(g1, t) /\ HostInv(g1, t, Only(B)) /\ Timed(g1)
                /\ c.sync_bit = 1 /\ p.sync_bit = 2 =>
                      /\ w1 = F!SendFile(F!SendControl([F!Cancel(u1) EXCEPT !.retrans = u1.retrans,
                                                                          !.sync_bit = 3, !.last_ack = 2]))
                      /\ g1.flag = 1 /\ g1.term_bit # 2
                /\ c.sync_bit = 1 /\ p.sync_bit # 2 => g1 = c
                /\ c.sync_bit = 3 =>
                      /\ w1 = IF c.term_bit = 0 /\ p.sync_bit = 2 /\ c.retrans_bit # 2
                              THEN F!SendControl(u1) ELSE u1
                      /\ g1.flag = 0 /\ g1.sync_bit = 3 /\ g1.term_bit = c.term_bit /\ Later(g1)
        BY ONLY <1>1, <1>3, <3>1, ConnectSource, t \in Nat \ {0}, q \in Seq(Wire), FromB(p)
      <3> QED BY <3>2 DEF n, x
    <2>2. a = u
      BY <1>1
    <2>3. d = v
      BY <2>2 DEF v
    <2>4. e = y
      BY <1>3, <2>2 DEF y
    <2> HIDE DEF a, d, e
    <2> QED BY <1>3, <2>1, <2>3, <2>4
  <1> HIDE DEF n, v, y
  <1>5. n.sender = TRUE
    BY <1>4 DEF Sends, SrcRole
  <1>6. CASE h.sync_bit = 1 /\ p.sync_bit = 2
    <2>1. g = n
      BY <1>2, <1>4, <1>6 DEF Transfer
    <2> HIDE DEF g, u, w, x
    <2> QED BY <1>4, <1>6, <2>1 DEF SrcHears, g, u, w, x, v
  <1>7. CASE h.sync_bit = 1 /\ p.sync_bit # 2
    <2>1. g = c
      BY <1>2, <1>3, <1>4, <1>7 DEF Transfer
    <2> HIDE DEF g, u, w, x
    <2>2. w = u
      BY <1>1, <2>1 DEF w
    <2> QED BY <1>1, <1>3, <1>7, <2>1, <2>2 DEF SrcHears, g, u, w
  <1>8. CASE h.sync_bit = 3 /\ p.FIN = 0
    <2> DEFINE s == SentWindowSync(n, p.ack_id, window)
               f == SendFile(s)
    <2>1. g = f
      BY <1>2, <1>4, <1>5, <1>8 DEF Transfer
    <2>2. Armed(n) /\ Idle(n) /\ Body(n, t, Only(B)) /\ n.clock = t
      BY <1>4 DEF HostInv, Sends
    <2>3. F!SentWindowSync(x, p.ack_id, window) = SrcOf(s, t, q) /\ Sends(s, t) /\ Timed(s)
      BY <1>4, <1>8, <2>2, SentWindowSyncSeen
    <2>4. s.term_bit = n.term_bit
      <3>1. Same(s, n, AckMembers)
        BY <1>4, <1>8, <2>2, OnlyEnds, SentWindowSyncLemma
      <3> QED BY <3>1 DEF Same, AckMembers, Members
    <2> HIDE DEF s
    <2>5. F!SendFile(SrcOf(s, t, q)) = SrcOf(f, t, q) /\ Sends(f, t) /\ Timed(f)
      BY <2>3, SendFileSeen
    <2>6. f.term_bit = 2 => s.term_bit = 2
      BY <2>3, SendFileKeeps
    <2> HIDE DEF f, g, u, w, x
    <2>7. w = F!SendFile(F!SentWindowSync(y, p.ack_id, window))
      BY <1>4, <1>8, <2>1, <2>3, <2>5 DEF w
    <2> QED BY <1>4, <1>8, <2>1, <2>4, <2>5, <2>6, <2>7 DEF SrcHears, g, u, w, y
  <1>9. CASE h.sync_bit = 3 /\ p.FIN = 1 /\ h.term_bit = 1
    <2> DEFINE e == [n EXCEPT !.term_bit = 2]
               s == SentWindowSync(e, p.ack_id, window)
               d == [x EXCEPT !.term_bit = 2]
    <2>1. g = s
      BY <1>0, <1>2, <1>4, <1>5, <1>9 DEF Transfer
    <2>2. Same(e, n, {"term_bit"}) /\ e.term_bit = 2
      BY <1>4 DEF Sends, Body, Names, Same, Members
    <2>3. d = SrcOf(e, t, q) /\ Sends(e, t)
      <3>1. F!IsSrc(x)
        BY SrcIsSrc
      <3> HIDE DEF e
      <3>2. Plain(e, t, Only(B))
        <4>1. Plain(n, t, Only(B))
          BY <1>4, PlainBody DEF Sends
        <4>2. /\ e.destination = n.destination /\ e.sync_bit = n.sync_bit /\ e.retrans = n.retrans
              /\ e.retrans_bit = n.retrans_bit /\ e.sent_so_far = n.sent_so_far
              /\ e.recv_so_far = n.recv_so_far /\ e.window_size = n.window_size /\ e.estimate = n.estimate
              /\ e.last_transmit = n.last_transmit /\ e.died = n.died
          BY <2>2 DEF Same, Members
        <4> QED BY <2>2, <4>1, <4>2 DEF Plain
      <3> DEFINE S == {"term_bit"}
      <3>3. S \subseteq Plainly \cap Simple
        BY DEF Plainly, Simple
      <3> HIDE DEF x
      <3>4. F!IsSrc(d) /\ \A k \in F!SrcFields : d[k] = IF k \in S THEN e[k] ELSE x[k]
        BY <2>2, <3>1 DEF F!IsSrc, F!SrcFields
      <3> HIDE DEF d, S
      <3> QED BY <1>4, <2>2, <3>2, <3>3, <3>4, PlainSeen DEF x, S
    <2> HIDE DEF e
    <2>4. /\ Armed(e) /\ Idle(e) /\ Timed(e) /\ Later(e) /\ e.sync_bit = 3
      <3>1. Armed(n) /\ Idle(n) /\ n.sync_bit = 3 /\ Later(n) /\ Timed(n)
        BY <1>4, <1>9 DEF HostInv
      <3> QED BY <2>2, <3>1 DEF Same, Members, Armed, Idle, Timed, Later
    <2>5. F!SentWindowSync(SrcOf(e, t, q), p.ack_id, window) = SrcOf(s, t, q) /\ Sends(s, t) /\ Timed(s)
      BY <2>3, <2>4, SentWindowSyncSeen
    <2>6. s.term_bit = 2
      <3>1. Same(s, e, AckMembers)
        BY <2>3, <2>4, OnlyEnds, SentWindowSyncLemma DEF Sends
      <3> QED BY <2>2, <3>1 DEF Same, AckMembers, Members
    <2>7. y = u
      BY <1>9 DEF y
    <2> HIDE DEF s, g, u, w
    <2>8. w = F!SentWindowSync([u EXCEPT !.term_bit = 2], p.ack_id, window)
      <3>1. x = u
        BY <1>4, <1>9, <2>7
      <3> HIDE DEF x
      <3> QED BY <2>1, <2>3, <2>5, <3>1 DEF w
    <2> HIDE DEF d, x
    <2> QED BY <1>9, <2>1, <2>5, <2>6, <2>8 DEF SrcHears, g, u, w
  <1>10. CASE h.sync_bit = 3 /\ p.FIN = 1 /\ h.term_bit # 1
    <2>1. g = n
      BY <1>0, <1>2, <1>4, <1>5, <1>10 DEF Transfer
    <2>2. y = u
      BY <1>10 DEF FromB, y
    <2> HIDE DEF g, u, w, x
    <2>3. w = u
      BY <1>4, <1>10, <2>1, <2>2 DEF w, x
    <2> QED BY <1>4, <1>10, <2>1, <2>3 DEF SrcHears, g, u, w
  <1> QED BY <1>0, <1>6, <1>7, <1>8, <1>9, <1>10

---------------------------------------------------------------------------
(* The source's timers, and its start.                                     *)

\* What the source sends when a timer expires that was the only one.
LEMMA SourceExpires ==
    ASSUME NEW t \in Nat \ {0}, NEW h, Sends(h, t), Waits(h, t), h.timers = EmptyBag, h.retrans = t,
           NEW q \in Seq(Wire)
    PROVE  LET g == HandleTimer(h)
               u == SrcOf(h, t, q)
               w == SrcOf(g, t, q)
           IN  /\ h.retrans_bit = 1 =>
                     /\ w = F!Send(F!Arm(u, 1), F!SrcPacket(u, u.sent_so_far, 0, 0))
                     /\ Sends(g, t) /\ Timed(g)
               /\ h.retrans_bit = 2 =>
                     /\ w = [F!Send(F!Arm(u, 2), u.retransmit_pkt) EXCEPT !.window_size = 1]
                     /\ Sends(g, t) /\ Timed(g)
  <1> DEFINE g == HandleTimer(h)
             u == SrcOf(h, t, q)
             w == SrcOf(g, t, q)
             S == {"retrans", "retrans_bit", "timers"}
  <1>0. h.clock = t /\ t \in Nat /\ t > 0
    BY DEF Sends
  <1>1. ASSUME h.retrans_bit = 1
        PROVE  /\ w = F!Send(F!Arm(u, 1), F!SrcPacket(u, u.sent_so_far, 0, 0))
               /\ Sends(g, t) /\ Timed(g)
    <2> DEFINE s == Set(h, 1)
               x == SrcOf(s, t, q)
               r == Send(s, Control(s))
    <2>1. g = r
      BY <1>0, <1>1 DEF HandleTimer
    <2>2. F!Arm(u, 1) = x /\ Sends(s, t) /\ Timed(s)
      BY <1>0, SetSeen
    <2>3. Same(s, h, S)
      BY DEF Set, Same, Members, Sends, Body, Names
    <2> HIDE DEF s
    <2>4. F!Send(x, F!SrcPacket(x, x.sent_so_far, 0, 0)) = SrcOf(r, t, q) /\ Sends(r, t) /\ Same(r, s, {"out"})
      BY <2>2, ControlSeen
    <2> HIDE DEF r, g
    <2>5. Timed(r)
      BY <2>2, <2>4 DEF Timed, Same, Members
    <2>6. x.sent_so_far = u.sent_so_far /\ x.sync_bit = u.sync_bit
      BY <2>3, SrcStays DEF Member, F!SrcFields
    <2> HIDE DEF u, x, w
    <2>7. F!SrcPacket(x, x.sent_so_far, 0, 0) = F!SrcPacket(u, u.sent_so_far, 0, 0)
      BY <2>6 DEF F!SrcPacket
    <2> QED BY <2>1, <2>2, <2>4, <2>5, <2>7 DEF w
  <1>2. ASSUME h.retrans_bit = 2
        PROVE  /\ w = [F!Send(F!Arm(u, 2), u.retransmit_pkt) EXCEPT !.window_size = 1]
               /\ Sends(g, t) /\ Timed(g)
    <2> DEFINE s == Set(h, 2)
               x == SrcOf(s, t, q)
               r == Resend(s)
               y == SrcOf(r, t, q)
               e == [r EXCEPT !.window_size = 1]
               v == [y EXCEPT !.window_size = 1]
    <2>1. g = e
      BY <1>0, <1>2 DEF HandleTimer, Waits
    <2>2. F!Arm(u, 2) = x /\ Sends(s, t) /\ Timed(s)
      BY <1>0, SetSeen
    <2>3. Same(s, h, S)
      BY DEF Set, Same, Members, Sends, Body, Names
    <2> HIDE DEF s
    <2>4. s.retransmit_pkt # NULL
      BY <1>2, <2>3 DEF Waits, Same, Members
    <2>5. F!Send(x, x.retransmit_pkt) = y /\ Sends(r, t) /\ Same(r, s, {"out"})
      BY <2>2, <2>4, ResendSeen
    <2> HIDE DEF r
    <2>6. DOMAIN r = Members /\ Body(r, t, Only(B))
      BY <2>5 DEF Sends, Body, Names
    <2>7. Same(e, r, {"window_size"}) /\ e.window_size = 1
      BY <2>6 DEF Same, Members
    <2> HIDE DEF e, g
    <2>8. Timed(e)
      BY <2>2, <2>5, <2>7 DEF Timed, Same, Members
    <2>9. Plain(e, t, Only(B)) /\ e.term_bit = r.term_bit
      <3>1. Plain(r, t, Only(B))
        BY <2>6, PlainBody
      <3>2. /\ e.destination = r.destination /\ e.sync_bit = r.sync_bit /\ e.retrans = r.retrans
            /\ e.retrans_bit = r.retrans_bit /\ e.sent_so_far = r.sent_so_far
            /\ e.recv_so_far = r.recv_so_far /\ e.term_bit = r.term_bit /\ e.estimate = r.estimate
            /\ e.last_transmit = r.last_transmit /\ e.died = r.died
        BY <2>7 DEF Same, Members
      <3> QED BY <2>7, <3>1, <3>2 DEF Plain
    <2> DEFINE Z == {"window_size"}
    <2>10. Z \subseteq Plainly \cap Simple
      BY DEF Plainly, Simple
    <2>11. F!IsSrc(y)
      BY SrcIsSrc
    <2> HIDE DEF y
    <2>12. F!IsSrc(v) /\ \A k \in F!SrcFields : v[k] = IF k \in Z THEN e[k] ELSE y[k]
      BY <2>7, <2>11 DEF F!IsSrc, F!SrcFields
    <2> HIDE DEF v, Z
    <2>13. v = SrcOf(e, t, q) /\ Sends(e, t)
      BY <2>5, <2>7, <2>9, <2>10, <2>12, PlainSeen DEF y, Z
    <2>14. x.retransmit_pkt = u.retransmit_pkt
      BY <2>3, SrcStays DEF Member, F!SrcFields
    <2> HIDE DEF u, x, w
    <2>15. v = [F!Send(F!Arm(u, 2), u.retransmit_pkt) EXCEPT !.window_size = 1]
      BY <2>2, <2>5, <2>14 DEF v
    <2> QED BY <2>1, <2>8, <2>13, <2>15 DEF w
  <1> QED BY <1>1, <1>2

\* A host whose first flow starts.
LEMMA SourceStarts ==
    ASSUME NEW t \in Nat, NEW h, Body(h, t, Only(B)), ~h.died, h.clock = t, h.address = A,
           h.timers = EmptyBag, h.in_file.is_open = FALSE, DOMAIN h.dest_map \subseteq {t},
           h.retransmit_pkt = NULL, h.out = NothingOut, h.text = <<>>, h.out_file = 0
    PROVE  LET g == HandleTimer([Set(Sync(h, 1), 1) EXCEPT !.last_transmit = h.clock])
           IN  /\ SrcOf(g, t, <<>>)
                     = F!SendControl(F!Arm([F!FreshSrc(h.dup_ack_count) EXCEPT !.dest_map = FALSE], 1))
               /\ Sends(g, t) /\ Timed(g)
  <1> DEFINE y == Sync(h, 1)
             s == Set(y, 1)
             l == [s EXCEPT !.last_transmit = h.clock]
             g == HandleTimer(l)
             q == <<>>
             u == SrcOf(y, t, q)
             x == SrcOf(s, t, q)
             v == [F!FreshSrc(h.dup_ack_count) EXCEPT !.dest_map = FALSE]
  <1>0. DOMAIN h = Members /\ h.in_file.chunk \in Nat
    BY DEF Body, Names, Sending
  <1>1. /\ Body(y, t, Only(B)) /\ Same(y, h, SyncMembers) /\ y.sender = TRUE /\ y.destination = B
        /\ y.sync_bit = 1 /\ y.term_bit = 0 /\ y.packets_in_window = 0 /\ y.window_size = 1
    <2> DEFINE one == 1
    <2>1. one \in FlowIds /\ Flows[one].to \in Only(B) /\ Flows[one].to = B
      BY TheFlow DEF B, Only
    <2> HIDE DEF one
    <2>2. LET z == Sync(h, one)
          IN  /\ Body(z, t, Only(B)) /\ Same(z, h, SyncMembers)
              /\ z.sender = TRUE /\ z.destination = Flows[one].to /\ z.in_file.flow = one
              /\ z.sync_bit = 1 /\ z.term_bit = 0 /\ z.packets_in_window = 0 /\ z.window_size = 1
              /\ DOMAIN z.sent_window = {}
      BY <2>1, SyncLemma, Zenon
    <2> QED BY <2>1, <2>2 DEF one
  <1>2. /\ y.retrans = 0 /\ y.retrans_bit = 0 /\ y.sent_so_far = 0 /\ y.last_ack = 0
        /\ y.sent_window = <<>> /\ y.estimate.RTO > 0
        /\ y.in_file = [flow |-> 1, chunk |-> 0, is_open |-> TRUE]
        /\ y.dest_map = [z \in DOMAIN h.dest_map \ {t} |-> h.dest_map[z]]
        /\ y.timers = EmptyBag /\ y.retransmit_pkt = NULL /\ y.out = NothingOut /\ y.text = <<>>
        /\ y.out_file = 0 /\ y.address = A /\ y.clock = t /\ y.dup_ack_count = h.dup_ack_count
    <2>1. y.estimate = Restart(h.estimate) /\ h.estimate \in [RTT : Nat, RTTVAR : Nat, RTO : Nat]
      BY <1>0 DEF Sync, Reset, Members, Body, Timing
    <2>2. y.estimate.RTO > 0
      <3>1. \A e \in [RTT : Nat, RTTVAR : Nat, RTO : Nat] : Restart(e).RTO = timeout
        BY DEF Restart
      <3>2. Restart(h.estimate).RTO = timeout
        BY <2>1, <3>1
      <3> QED BY <2>1, <3>2, TimeoutAssumption
    <2>3. /\ y.retrans = 0 /\ y.retrans_bit = 0 /\ y.sent_so_far = 0 /\ y.last_ack = 0
          /\ y.sent_window = <<>>
      BY <1>0 DEF Sync, Reset, Members
    <2>4. y.in_file = [flow |-> 1, chunk |-> 0, is_open |-> TRUE]
      BY <1>0 DEF Sync, Reset, Members
    <2>5. y.dest_map = [z \in DOMAIN h.dest_map \ {t} |-> h.dest_map[z]]
      BY <1>0 DEF Sync, Reset, Members
    <2> HIDE DEF y
    <2> QED BY <1>0, <1>1, <2>2, <2>3, <2>4, <2>5 DEF Same, Members, SyncMembers, ResetMembers
  <1> HIDE DEF y
  <1>3. y.out[B] = <<>>
    BY <1>2, TheFlow DEF NothingOut
  <1>4. Sends(y, t)
    <2>1. DOMAIN y.dest_map = {}
      BY <1>2
    <2>2. SrcRole(y)
      BY <1>1, <1>2, <2>1 DEF SrcRole
    <2>3. Reads(y)
      BY <1>2, ChunksAssumption DEF Reads
    <2>4. Holds(y)
      BY <1>2 DEF Holds
    <2>5. Leads(y)
      BY <1>3 DEF Leads
    <2> QED BY <1>1, <1>2, <2>2, <2>3, <2>4, <2>5 DEF Sends
  <1>5. u = v
    <2>1. /\ u.dest_map = FALSE /\ u.sync_bit = y.sync_bit /\ u.term_bit = y.term_bit
          /\ u.retrans = Running(y, t) /\ u.retrans_bit = y.retrans_bit
          /\ u.timers = BagCardinality(y.timers) /\ u.sent_so_far = y.sent_so_far
          /\ u.last_ack = y.last_ack /\ u.chunk = y.in_file.chunk /\ u.sent_window = Window(y.sent_window)
          /\ u.packets_in_window = y.packets_in_window /\ u.window_size = y.window_size
          /\ u.retransmit_pkt = ToDst(y.retransmit_pkt) /\ u.dup_ack_count = y.dup_ack_count
          /\ u.out = <<>> \o ToDsts(y.out[B])
      BY DEF SrcOf
    <2>2. Running(y, t) = FALSE
      BY <1>2 DEF Running
    <2>3. BagCardinality(y.timers) = 0
      BY <1>2, CountNone
    <2>4. Window(y.sent_window) = <<>>
      BY <1>2 DEF Window
    <2>5. <<>> \o ToDsts(y.out[B]) = <<>>
      <3>1. ToDsts(y.out[B]) = <<>>
        BY <1>3 DEF ToDsts
      <3> QED BY <3>1
    <2>6. F!IsSrc(u)
      BY SrcIsSrc
    <2> HIDE DEF u
    <2>7. F!IsSrc(v) /\ \A f \in F!SrcFields : v[f] = u[f]
      <3>1. /\ u.dest_map = FALSE /\ u.sync_bit = 1 /\ u.term_bit = 0 /\ u.retrans = FALSE
            /\ u.retrans_bit = 0 /\ u.timers = 0 /\ u.sent_so_far = 0 /\ u.last_ack = 0 /\ u.chunk = 0
            /\ u.sent_window = <<>> /\ u.packets_in_window = 0 /\ u.window_size = 1
            /\ u.retransmit_pkt = F!NULL /\ u.dup_ack_count = h.dup_ack_count /\ u.out = <<>>
        BY <1>1, <1>2, <2>1, <2>2, <2>3, <2>4, <2>5, NullSeen
      <3> DEFINE d == h.dup_ack_count
                 f == F!FreshSrc(d)
      <3>2. /\ F!IsSrc(f) /\ f.sync_bit = 1 /\ f.term_bit = 0 /\ f.retrans = FALSE
            /\ f.retrans_bit = 0 /\ f.timers = 0 /\ f.sent_so_far = 0 /\ f.last_ack = 0 /\ f.chunk = 0
            /\ f.sent_window = <<>> /\ f.packets_in_window = 0 /\ f.window_size = 1
            /\ f.retransmit_pkt = F!NULL /\ f.dup_ack_count = d /\ f.out = <<>>
        <4> HIDE DEF d
        <4>1. F!IsSrc(f)
          BY DEF F!FreshSrc, F!IsSrc, F!SrcFields
        <4> QED BY <4>1 DEF F!FreshSrc
      <3> HIDE DEF f
      <3>3. F!IsSrc(v) /\ v.dest_map = FALSE /\ \A k \in F!SrcFields \ {"dest_map"} : v[k] = f[k]
        BY <3>2 DEF F!IsSrc, F!SrcFields, f
      <3> HIDE DEF v
      <3> QED BY <3>1, <3>2, <3>3 DEF F!SrcFields
    <2> HIDE DEF v
    <2> QED BY <2>6, <2>7 DEF F!IsSrc
  <1>6. /\ F!Arm(u, 1) = x /\ Sends(s, t) /\ Timed(s) /\ s.retrans = t + y.estimate.RTO /\ s.retrans_bit = 1
        /\ s.clock = t
    <2>1. F!Arm(u, 1) = x /\ Sends(s, t) /\ Timed(s)
      BY <1>2, <1>4, SetSeen
    <2>2. s.retrans = t + y.estimate.RTO /\ s.retrans_bit = 1 /\ s.clock = t
      BY <1>1, <1>2 DEF Set, Body, Names, Members
    <2> QED BY <2>1, <2>2
  <1> HIDE DEF s
  <1>7. Same(l, s, {"last_transmit"}) /\ Body(l, t, Only(B)) /\ DOMAIN l = Members
    <2>1. DOMAIN s = Members /\ Plain(s, t, Only(B)) /\ Body(s, t, Only(B))
      BY <1>6, PlainBody DEF Sends
    <2>2. Same(l, s, {"last_transmit"}) /\ l.last_transmit = t /\ DOMAIN l = Members
      BY <2>1 DEF Same, Members
    <2> HIDE DEF l
    <2>3. Same(l, s, Simple) /\ Plain(l, t, Only(B)) /\ (s.term_bit # 0 => l.term_bit # 0)
      BY <2>1, <2>2 DEF Same, Members, Simple, Plain
    <2> QED BY <2>1, <2>2, <2>3, UpdateBody
  <1> HIDE DEF l
  <1>8. SrcOf(l, t, q) = x /\ Sends(l, t) /\ Timed(l)
    <2>1. SrcOf(l, t, q) = x
      BY <1>7, SrcSame DEF Member, F!SrcFields
    <2>2. Sends(l, t)
      BY <1>6, <1>7, SendsFrame DEF Fixed
    <2> QED BY <1>6, <1>7, <2>1, <2>2 DEF Timed, Same, Members
  <1>9. F!SendControl(SrcOf(l, t, q)) = SrcOf(g, t, q) /\ Sends(g, t) /\ Same(g, l, {"sent_so_far", "out"})
    <2>1. l.retrans = t + y.estimate.RTO /\ l.retrans_bit = 1 /\ l.clock = t
      BY <1>6, <1>7 DEF Same, Members
    <2>2. y.estimate.RTO \in Nat
      BY <1>1 DEF Body, Timing
    <2>3. ~(l.retrans = l.clock /\ l.retrans_bit = 1)
      BY <1>2, <2>1, <2>2
    <2>4. q \in Seq(Wire)
      OBVIOUS
    <2> HIDE DEF q
    <2> QED BY <1>8, <2>1, <2>3, <2>4, IdleTimerSeen
  <1> HIDE DEF g
  <1>10. Timed(g)
    BY <1>8, <1>9 DEF Timed, Same, Members
  <1> HIDE DEF u, x, v
  <1> QED BY <1>5, <1>6, <1>8, <1>9, <1>10 DEF g, l, s, y, v

---------------------------------------------------------------------------
(* The destination in the middle of a handler.                             *)

ToSrcs(s)  == [j \in DOMAIN s |-> ToSrc(s[j])]
Numbers(s) == [j \in DOMAIN s |-> s[j][2]]

\* The destination h at the time t, as Fdtp's dst; q is on its way already,
\* and file has been written before.
DstOf(h, t, q, file) ==
    [ sync_bit |-> h.sync_bit, term_bit |-> h.term_bit, retrans |-> Running(h, t),
      retrans_bit |-> h.retrans_bit, timers |-> BagCardinality(h.timers),
      recv_so_far |-> h.recv_so_far, recv_window |-> Window(h.recv_window), ter_seq |-> h.ter_seq,
      out_file |-> file \o Numbers(h.text), out |-> q \o ToSrcs(h.out[A]) ]

\* The member of a Host that a member of Fdtp's dst shows.
Shown(f) == IF f = "out_file" THEN "text" ELSE f

\* DstOf gives a record with the members of Fdtp's dst.
LEMMA DstIsDst == ASSUME NEW h, NEW t, NEW q, NEW file PROVE F!IsDst(DstOf(h, t, q, file))
  BY DEF DstOf, F!IsDst, F!DstFields

DstPlainly == {"sync_bit", "term_bit", "retrans_bit", "recv_so_far", "ter_seq"}

\* The members that are seen as they are.
LEMMA DstPlain ==
    ASSUME NEW h, NEW t, NEW q, NEW file, NEW f \in DstPlainly
    PROVE  DstOf(h, t, q, file)[f] = h[f]
  BY DEF DstOf, DstPlainly

\* A member that stays is seen to stay.
LEMMA DstStays ==
    ASSUME NEW h, NEW g, NEW S, Same(g, h, S), NEW t, NEW q, NEW file, NEW f \in F!DstFields, Shown(f) \notin S
    PROVE  DstOf(g, t, q, file)[f] = DstOf(h, t, q, file)[f]
  <1>1. CASE f = "out_file"
    <2>1. g.text = h.text
      BY <1>1 DEF Same, Members, Shown
    <2> QED BY <1>1, <2>1 DEF DstOf
  <1>2. CASE f = "retrans"
    <2>1. g.retrans = h.retrans
      BY <1>2 DEF Same, Members, Shown
    <2>2. Running(g, t) = Running(h, t)
      BY <2>1 DEF Running
    <2> QED BY <1>2, <2>2 DEF DstOf
  <1>3. CASE f = "timers"
    <2>1. g.timers = h.timers
      BY <1>3 DEF Same, Members, Shown
    <2> QED BY <1>3, <2>1 DEF DstOf
  <1>4. CASE f = "recv_window"
    <2>1. g.recv_window = h.recv_window
      BY <1>4 DEF Same, Members, Shown
    <2> QED BY <1>4, <2>1 DEF DstOf
  <1>5. CASE f = "out"
    <2>1. g.out = h.out
      BY <1>5 DEF Same, Members, Shown
    <2> QED BY <1>5, <2>1 DEF DstOf
  <1>6. CASE f \in DstPlainly
    <2>1. g[f] = h[f]
      BY <1>6 DEF Same, Members, Shown, DstPlainly
    <2> QED BY <1>6, <2>1, DstPlain
  <1> QED BY <1>1, <1>2, <1>3, <1>4, <1>5, <1>6 DEF F!DstFields, DstPlainly

\* A view is that of g when it is in each member.
LEMMA DstFrame ==
    ASSUME NEW h, NEW g, NEW S, Same(g, h, S), NEW t, NEW q, NEW file, NEW v, F!IsDst(v),
           \A f \in F!DstFields : v[f] = IF Shown(f) \in S THEN DstOf(g, t, q, file)[f]
                                         ELSE DstOf(h, t, q, file)[f]
    PROVE  v = DstOf(g, t, q, file)
  <1>1. \A f \in F!DstFields : v[f] = DstOf(g, t, q, file)[f]
    BY DstStays
  <1>2. F!IsDst(DstOf(g, t, q, file))
    BY DstIsDst
  <1> QED BY <1>1, <1>2 DEF F!IsDst

\* Members that are not seen make no difference.
LEMMA DstSame ==
    ASSUME NEW h, NEW g, NEW S, Same(g, h, S), \A f \in F!DstFields : Shown(f) \notin S,
           NEW t, NEW q, NEW file
    PROVE  DstOf(g, t, q, file) = DstOf(h, t, q, file)
  <1> DEFINE v == DstOf(h, t, q, file)
  <1>1. F!IsDst(v)
    BY DstIsDst
  <1>2. \A f \in F!DstFields : v[f] = IF Shown(f) \in S THEN DstOf(g, t, q, file)[f]
                                      ELSE DstOf(h, t, q, file)[f]
    OBVIOUS
  <1> HIDE DEF v
  <1>3. v = DstOf(g, t, q, file)
    BY <1>1, <1>2, DstFrame
  <1> QED BY <1>3 DEF v

---------------------------------------------------------------------------
(* What the destination keeps in the middle of a handler.                  *)

DstRole(h) ==
    /\ h.address = B /\ DOMAIN h.dest_map = {} /\ h.sender = FALSE /\ h.out_file = 1
    /\ h.sync_bit # 1 => h.destination = A
    /\ h.retrans_bit # 2

\* A reply carries FIN and ACK together, or none of them.
Answers(h) == \A j \in DOMAIN h.out[A] : h.out[A][j].ACK = h.out[A][j].FIN

Writes(h) == h.text \in Seq(Payloads)

Takes(h, t) == Body(h, t, Only(A)) /\ h.clock = t /\ DstRole(h) /\ Answers(h) /\ Writes(h)

DstFixed == {"address", "dest_map", "sender", "out_file", "clock"}

\* A change of other members leaves the destination what it is.
LEMMA TakesFrame ==
    ASSUME NEW t, NEW h, Takes(h, t), NEW g, NEW S, Same(g, h, S), Body(g, t, Only(A)),
           S \cap DstFixed = {}, g.sync_bit # 1 => g.destination = A, g.retrans_bit # 2,
           "out" \in S => Answers(g), "text" \in S => Writes(g)
    PROVE  Takes(g, t)
  <1>1. \A x \in DstFixed : g[x] = h[x]
    BY DEF Same, DstFixed, Members
  <1>2. g.clock = t /\ DstRole(g)
    BY <1>1 DEF Takes, DstRole, DstFixed
  <1>3. Answers(g)
    BY DEF Takes, Same, Members, Answers
  <1>4. Writes(g)
    BY DEF Takes, Same, Members, Writes
  <1> QED BY <1>2, <1>3, <1>4 DEF Takes

\* Members that Fdtp's destination has as they are, or not at all.
Unseen == {"destination", "sent_so_far", "write", "flag", "window_size"}

\* An assignment to members that are seen as they are.
LEMMA DstPlainSeen ==
    ASSUME NEW t, NEW h, Takes(h, t), NEW g, NEW S, S \subseteq (DstPlainly \cup Unseen) \cap Simple,
           Same(g, h, S), Plain(g, t, Only(A)), h.term_bit # 0 => g.term_bit # 0,
           g.sync_bit # 1 => g.destination = A, g.retrans_bit # 2,
           NEW q, NEW file, NEW v, F!IsDst(v),
           \A f \in F!DstFields : v[f] = IF f \in S THEN g[f] ELSE DstOf(h, t, q, file)[f]
    PROVE  v = DstOf(g, t, q, file) /\ Takes(g, t)
  <1>1. \A f \in F!DstFields : Shown(f) \in S <=> f \in S
    <2>1. "text" \notin DstPlainly \cup Unseen /\ "out_file" \notin DstPlainly \cup Unseen
      BY DEF DstPlainly, Unseen
    <2> QED BY <2>1 DEF Shown
  <1>2. \A f \in F!DstFields : f \in S => f \in DstPlainly
    BY DEF F!DstFields, Unseen
  <1>3. \A f \in F!DstFields : f \in S => DstOf(g, t, q, file)[f] = g[f]
    BY <1>2, DstPlain
  <1>4. \A f \in F!DstFields : v[f] = IF Shown(f) \in S THEN DstOf(g, t, q, file)[f]
                                      ELSE DstOf(h, t, q, file)[f]
    BY <1>1, <1>3
  <1>5. v = DstOf(g, t, q, file)
    BY <1>4, DstFrame
  <1>6. Body(g, t, Only(A))
    <2>1. Same(g, h, Simple)
      BY DEF Same
    <2> QED BY <2>1, UpdateBody DEF Takes
  <1>7. S \cap DstFixed = {} /\ "out" \notin S /\ "text" \notin S
    BY DEF DstPlainly, Unseen, DstFixed
  <1>8. Takes(g, t)
    BY <1>6, <1>7, TakesFrame
  <1> QED BY <1>5, <1>8

---------------------------------------------------------------------------
(* Replies, and the text of a handler.                                     *)

Back == [ack_id : Nat, sync_bit : 0..3, FIN : 0..1]

LEMMA ToSrcType == ASSUME NEW p \in PacketType PROVE ToSrc(p) \in Back
  BY DEF ToSrc, PacketType, Back

LEMMA ToSrcsType ==
    ASSUME NEW s \in Seq(PacketType)
    PROVE  ToSrcs(s) \in Seq(Back) /\ Len(ToSrcs(s)) = Len(s)
  BY ToSrcType DEF ToSrcs

LEMMA ToSrcsAppend ==
    ASSUME NEW s \in Seq(PacketType), NEW p \in PacketType, NEW q \in Seq(Back)
    PROVE  q \o ToSrcs(Append(s, p)) = Append(q \o ToSrcs(s), ToSrc(p))
  <1>1. ToSrcs(Append(s, p)) = Append(ToSrcs(s), ToSrc(p))
    <2>1. /\ Append(s, p) \in Seq(PacketType) /\ Len(Append(s, p)) = Len(s) + 1
          /\ \A j \in 1..Len(s) : Append(s, p)[j] = s[j]
          /\ Append(s, p)[Len(s) + 1] = p
      OBVIOUS
    <2>2. ToSrcs(s) \in Seq(Back) /\ Len(ToSrcs(s)) = Len(s) /\ ToSrc(p) \in Back
      BY ToSrcType, ToSrcsType
    <2>3. /\ ToSrcs(Append(s, p)) \in Seq(Back) /\ Len(ToSrcs(Append(s, p))) = Len(s) + 1
      BY <2>1, ToSrcsType
    <2>4. /\ Append(ToSrcs(s), ToSrc(p)) \in Seq(Back) /\ Len(Append(ToSrcs(s), ToSrc(p))) = Len(s) + 1
          /\ \A j \in 1..Len(s) : Append(ToSrcs(s), ToSrc(p))[j] = ToSrcs(s)[j]
          /\ Append(ToSrcs(s), ToSrc(p))[Len(s) + 1] = ToSrc(p)
      BY <2>2
    <2>5. ASSUME NEW j \in 1..Len(s)+1
          PROVE  ToSrcs(Append(s, p))[j] = Append(ToSrcs(s), ToSrc(p))[j]
      <3>1. DOMAIN s = 1..Len(s) /\ DOMAIN Append(s, p) = 1..Len(s)+1
        BY <2>1
      <3>2. ToSrcs(Append(s, p))[j] = ToSrc(Append(s, p)[j])
        BY <3>1 DEF ToSrcs
      <3>3. \A k \in 1..Len(s) : ToSrcs(s)[k] = ToSrc(s[k])
        BY <3>1 DEF ToSrcs
      <3> QED BY <2>1, <2>4, <3>2, <3>3
    <2> QED BY <2>3, <2>4, <2>5, SeqEqual
  <1>2. ASSUME NEW r \in Seq(Back), NEW x \in Back PROVE q \o Append(r, x) = Append(q \o r, x)
    OBVIOUS
  <1>3. ToSrcs(s) \in Seq(Back) /\ ToSrc(p) \in Back
    BY ToSrcType, ToSrcsType
  <1> QED BY <1>1, <1>2, <1>3

\* What a packet and the run behind it add to the copy.
LEMMA NumbersOf ==
    ASSUME NEW x \in Payloads, NEW r \in Seq(Payloads), NEW file \in Seq(Nat)
    PROVE  file \o Numbers(<<x>> \o r) = file \o <<x[2]>> \o Numbers(r)
  <1> DEFINE s == <<x>> \o r
             a == Numbers(s)
             b == <<x[2]>> \o Numbers(r)
  <1>1. /\ s \in Seq(Payloads) /\ Len(s) = Len(r) + 1 /\ s[1] = x
        /\ \A j \in 2..Len(r)+1 : s[j] = r[j - 1]
    OBVIOUS
  <1>2. Numbers(r) \in Seq(Nat) /\ Len(Numbers(r)) = Len(r) /\ \A j \in 1..Len(r) : Numbers(r)[j] = r[j][2]
    <2>1. DOMAIN r = 1..Len(r) /\ \A j \in 1..Len(r) : r[j][2] \in Nat
      BY PayloadParts
    <2> QED BY <2>1 DEF Numbers
  <1>3. a \in Seq(Nat) /\ Len(a) = Len(r) + 1 /\ \A j \in 1..Len(r)+1 : a[j] = s[j][2]
    <2>1. DOMAIN s = 1..Len(r)+1 /\ \A j \in 1..Len(r)+1 : s[j][2] \in Nat
      BY <1>1, PayloadParts
    <2> HIDE DEF s
    <2> QED BY <2>1 DEF Numbers
  <1>4. x[2] \in Nat
    BY PayloadParts
  <1>5. /\ b \in Seq(Nat) /\ Len(b) = Len(r) + 1 /\ b[1] = x[2]
        /\ \A j \in 2..Len(r)+1 : b[j] = Numbers(r)[j - 1]
    <2> DEFINE y == x[2]
               z == Numbers(r)
    <2>1. y \in Nat /\ z \in Seq(Nat) /\ Len(z) = Len(r)
      BY <1>2, <1>4
    <2> HIDE DEF y, z
    <2>2. /\ <<y>> \o z \in Seq(Nat) /\ Len(<<y>> \o z) = Len(z) + 1 /\ (<<y>> \o z)[1] = y
          /\ \A j \in 2..Len(z)+1 : (<<y>> \o z)[j] = z[j - 1]
      <3> DEFINE o == <<y>>
      <3>1. o \in Seq(Nat) /\ Len(o) = 1 /\ o[1] = y
        BY <2>1
      <3> HIDE DEF o
      <3>2. /\ o \o z \in Seq(Nat) /\ Len(o \o z) = Len(o) + Len(z)
            /\ \A j \in 1..Len(o) + Len(z) : (o \o z)[j] = IF j =< Len(o) THEN o[j] ELSE z[j - Len(o)]
        <4> DEFINE S == Nat
        <4>1. o \in Seq(S) /\ z \in Seq(S)
          BY <2>1, <3>1
        <4> HIDE DEF S
        <4>2. /\ o \o z \in Seq(S) /\ Len(o \o z) = Len(o) + Len(z)
              /\ \A j \in 1..Len(o) + Len(z) : (o \o z)[j] = IF j =< Len(o) THEN o[j] ELSE z[j - Len(o)]
          BY ONLY <4>1
        <4> QED BY ONLY <4>2 DEF S
      <3>3. Len(z) \in Nat
        BY <2>1
      <3> QED BY <3>1, <3>2, <3>3 DEF o
    <2> QED BY <2>1, <2>2 DEF y, z
  <1> HIDE DEF s, a, b
  <1>6. \A j \in 1..Len(r)+1 : a[j] = b[j]
    <2>1. ASSUME NEW j \in 2..Len(r)+1 PROVE a[j] = b[j]
      <3>1. j - 1 \in 1..Len(r)
        OBVIOUS
      <3>2. a[j] = s[j][2] /\ s[j] = r[j - 1]
        <4>1. j \in 1..Len(r)+1
          OBVIOUS
        <4> QED BY <1>1, <1>3, <4>1, Zenon
      <3>3. b[j] = Numbers(r)[j - 1] /\ Numbers(r)[j - 1] = r[j - 1][2]
        BY <1>2, <1>5, <3>1
      <3> QED BY <3>2, <3>3
    <2> QED BY <1>1, <1>3, <1>5, <2>1
  <1>7. a = b
    BY <1>3, <1>5, <1>6, SeqEqual
  <1>8. file \o (<<x[2]>> \o Numbers(r)) = (file \o <<x[2]>>) \o Numbers(r)
    <2>1. <<x[2]>> \in Seq(Nat)
      BY <1>4
    <2> DEFINE o == <<x[2]>>
               z == Numbers(r)
               S == Nat
    <2>2. file \in Seq(S) /\ o \in Seq(S) /\ z \in Seq(S)
      BY <1>2, <2>1
    <2> HIDE DEF o, z, S
    <2>3. file \o (o \o z) = (file \o o) \o z
      BY ONLY <2>2
    <2> QED BY <2>3 DEF o, z
  <1> QED BY <1>7, <1>8 DEF s, a, b

---------------------------------------------------------------------------
(* The destination's timer and its replies.                                *)

\* set_timer() on the destination.
LEMMA DstSetSeen ==
    ASSUME NEW t \in Nat \ {0}, NEW h, Takes(h, t), NEW q, NEW file, h.timers = EmptyBag
    PROVE  LET g == Set(h, 1)
           IN  F!Arm(DstOf(h, t, q, file), 1) = DstOf(g, t, q, file) /\ Takes(g, t) /\ Timed(g)
  <1> DEFINE bit == 1
             g == Set(h, bit)
             n == h.clock + h.estimate.RTO
             S == {"retrans", "retrans_bit", "timers"}
             u == DstOf(h, t, q, file)
             w == DstOf(g, t, q, file)
             v == F!Arm(u, bit)
  <1>B. Body(h, t, Only(A)) /\ h.clock = t /\ bit \in 0..2 /\ bit # 2 /\ bit # 0
    BY DEF Takes
  <1>D. Set(h, 1) = g /\ F!Arm(DstOf(h, t, q, file), 1) = v
    OBVIOUS
  <1> HIDE DEF bit
  <1>1. Same(g, h, S) /\ Body(g, t, Only(A))
    BY <1>B, SetLemma
  <1>2. /\ g.retrans = n /\ g.retrans_bit = bit /\ g.timers = h.timers (+) SetToBag({n})
    BY <1>B DEF Set, Body, Names, Members
  <1>3. g.timers = SetToBag({n}) /\ BagCardinality(g.timers) = 1 /\ BagCardinality(h.timers) = 0
    BY <1>2, BagOne, CountOne, CountNone
  <1>4. Running(g, t) = TRUE
    BY <1>B, <1>2 DEF Body, Timing, Running
  <1> HIDE DEF g, n, u, w
  <1>5. w.retrans = TRUE /\ w.retrans_bit = bit /\ w.timers = u.timers + 1 /\ F!IsDst(u)
    <2>1. w.retrans = Running(g, t) /\ w.retrans_bit = g.retrans_bit /\ w.timers = BagCardinality(g.timers)
      BY DEF w, DstOf
    <2>2. u.timers = BagCardinality(h.timers) /\ F!IsDst(u)
      BY DstIsDst DEF u, DstOf
    <2> QED BY <1>2, <1>3, <1>4, <2>1, <2>2
  <1>6. F!IsDst(v) /\ \A f \in F!DstFields : v[f] = IF Shown(f) \in S THEN w[f] ELSE u[f]
    BY <1>5 DEF F!Arm, F!IsDst, F!DstFields, Shown
  <1>7. v = w
    BY <1>1, <1>6, DstFrame DEF u, w
  <1>8. Takes(g, t)
    <2>1. g.sync_bit = h.sync_bit /\ g.destination = h.destination /\ g.retrans_bit # 2
      BY <1>B, <1>1, <1>2 DEF Same, Members
    <2>2. S \cap DstFixed = {} /\ "out" \notin S /\ "text" \notin S
      BY DEF DstFixed
    <2>3. h.sync_bit # 1 => h.destination = A
      BY DEF Takes, DstRole
    <2> HIDE DEF S
    <2> QED BY <1>1, <2>1, <2>2, <2>3, TakesFrame
  <1>9. Timed(g)
    BY <1>B, <1>2, <1>3 DEF Timed
  <1> QED BY <1>D, <1>7, <1>8, <1>9 DEF g, u, w

\* cancel_timer() on the destination.
LEMMA DstStopSeen ==
    ASSUME NEW t \in Nat \ {0}, NEW h, Takes(h, t), Armed(h), Idle(h), Timed(h), NEW q, NEW file
    PROVE  F!Cancel(DstOf(h, t, q, file)) = DstOf(Stop(h), t, q, file) /\ Takes(Stop(h), t)
  <1> DEFINE g == Stop(h)
             S == {"retrans", "retrans_bit", "timers"}
             u == DstOf(h, t, q, file)
             w == DstOf(g, t, q, file)
             v == F!Cancel(u)
  <1>0. Body(h, t, Only(A)) /\ h.clock = t
    BY DEF Takes
  <1>1. /\ Body(g, t, Only(A)) /\ Same(g, h, S) /\ g.retrans = 0 /\ g.retrans_bit = 0 /\ g.timers = EmptyBag
    BY <1>0, StopBody
  <1>2. Running(h, t) <=> h.retrans_bit # 0
    BY <1>0, AheadIsArmed
  <1>3. h.retrans_bit = 0 => Stop(h) = h
    BY <1>0, AheadIsArmed DEF Stop
  <1> HIDE DEF g
  <1>4. CASE h.retrans_bit = 0
    <2>1. u.retrans = Running(h, t)
      BY DEF DstOf
    <2> HIDE DEF u
    <2>2. v = u
      BY <1>2, <1>4, <2>1 DEF F!Cancel
    <2> QED BY <1>3, <1>4, <2>2 DEF u, v, g
  <1>5. CASE h.retrans_bit # 0
    <2>1. h.timers = SetToBag({h.retrans})
      BY <1>5 DEF Timed
    <2>2. BagCardinality(h.timers) = 1 /\ BagCardinality(g.timers) = 0
      BY <1>1, <2>1, CountOne, CountNone
    <2>3. Running(g, t) = FALSE
      BY <1>1 DEF Running
    <2>4. /\ u.retrans = Running(h, t) /\ u.timers = BagCardinality(h.timers) /\ F!IsDst(u)
      BY DstIsDst DEF DstOf
    <2>5. /\ w.retrans = Running(g, t) /\ w.timers = BagCardinality(g.timers) /\ w.retrans_bit = g.retrans_bit
      BY DEF DstOf
    <2> HIDE DEF u, w
    <2>6. w.retrans = FALSE /\ w.timers = u.timers - 1 /\ w.retrans_bit = 0
      BY <1>1, <2>2, <2>3, <2>4, <2>5
    <2>7. u.retrans
      BY <1>2, <1>5, <2>4
    <2>8. F!IsDst(v) /\ \A f \in F!DstFields : v[f] = IF Shown(f) \in S THEN w[f] ELSE u[f]
      BY <2>4, <2>6, <2>7 DEF F!Cancel, F!IsDst, F!DstFields, Shown
    <2>9. v = w
      BY <1>1, <2>8, DstFrame DEF u, w
    <2>10. Takes(g, t)
      <3>1. g.sync_bit = h.sync_bit /\ g.destination = h.destination
        BY <1>1 DEF Same, Members
      <3>2. S \cap DstFixed = {} /\ "out" \notin S /\ "text" \notin S
        BY DEF DstFixed
      <3>3. (h.sync_bit # 1 => h.destination = A) /\ g.retrans_bit # 2
        BY <1>1 DEF Takes, DstRole
      <3> HIDE DEF S
      <3> QED BY <1>1, <3>1, <3>2, <3>3, TakesFrame
    <2> QED BY <2>9, <2>10 DEF g, u, v, w
  <1> QED BY <1>4, <1>5

\* send() of a packet to the source.
LEMMA DstSendSeen ==
    ASSUME NEW t, NEW h, Takes(h, t), NEW q \in Seq(Back), NEW file,
           NEW p \in PacketType, p.source = B, p.destination = A, p.ACK = p.FIN
    PROVE  LET g == Send(h, p)
           IN  /\ F!Send(DstOf(h, t, q, file), ToSrc(p)) = DstOf(g, t, q, file)
               /\ Takes(g, t) /\ Same(g, h, {"out"})
  <1> DEFINE g == Send(h, p)
             S == {"out"}
             u == DstOf(h, t, q, file)
             w == DstOf(g, t, q, file)
             v == F!Send(u, ToSrc(p))
  <1>B. Body(h, t, Only(A)) /\ h.address = B
    BY DEF Takes, DstRole
  <1>0. Mine(p, h.address, Only(A))
    BY <1>B, OnlyEnds DEF Mine
  <1>1. Same(g, h, S) /\ Body(g, t, Only(A))
    BY <1>B, <1>0, SendBody, SendSame DEF Body, Names
  <1>2. A \in Ends /\ h.out[A] \in Seq(PacketType) /\ h.out \in [Ends -> Seq(PacketType)]
    BY <1>B, OnlyEnds, OutType
  <1>3. g.out[A] = Append(h.out[A], p)
    BY <1>B, <1>2 DEF Send, Body, Names, Members
  <1>4. q \o ToSrcs(g.out[A]) = Append(q \o ToSrcs(h.out[A]), ToSrc(p))
    BY <1>2, <1>3, ToSrcsAppend
  <1>5. Answers(g)
    <2>1. \A j \in DOMAIN h.out[A] : h.out[A][j].ACK = h.out[A][j].FIN
      BY DEF Takes, Answers
    <2> QED BY <1>2, <1>3, <2>1, AppendProperties DEF Answers
  <1> HIDE DEF g, u, w
  <1>6. w.out = Append(u.out, ToSrc(p)) /\ F!IsDst(u)
    BY <1>4, DstIsDst DEF u, w, DstOf
  <1>7. F!IsDst(v) /\ \A f \in F!DstFields : v[f] = IF Shown(f) \in S THEN w[f] ELSE u[f]
    BY <1>6 DEF F!Send, F!IsDst, F!DstFields, Shown
  <1>8. v = w
    BY <1>1, <1>7, DstFrame DEF u, w
  <1>9. Takes(g, t)
    <2>1. g.sync_bit = h.sync_bit /\ g.destination = h.destination /\ g.retrans_bit = h.retrans_bit
      BY <1>1 DEF Same, Members
    <2>2. S \cap DstFixed = {} /\ "text" \notin S
      BY DEF DstFixed
    <2>3. (h.sync_bit # 1 => h.destination = A) /\ h.retrans_bit # 2
      BY DEF Takes, DstRole
    <2> HIDE DEF S
    <2> QED BY <1>1, <1>5, <2>1, <2>2, <2>3, TakesFrame
  <1> QED BY <1>1, <1>8, <1>9 DEF g, u, w

\* A reply, with FIN and ACK or without.
LEMMA ReplySeen ==
    ASSUME NEW t, NEW h, Takes(h, t), h.sync_bit # 1, NEW q \in Seq(Back), NEW file, NEW fin \in 0..1
    PROVE  LET g == Send(h, Packet(h, h.sent_so_far, fin, fin, NoData))
           IN  /\ F!Reply(DstOf(h, t, q, file), fin) = DstOf(g, t, q, file)
               /\ Takes(g, t) /\ Same(g, h, {"out"})
  <1> DEFINE p == Packet(h, h.sent_so_far, fin, fin, NoData)
             u == DstOf(h, t, q, file)
  <1>1. Body(h, t, Only(A)) /\ h.address = B /\ h.destination = A /\ h.sent_so_far \in Nat
    BY DEF Takes, DstRole, Body, Sending
  <1>2. Mine(p, h.address, Only(A))
    <2>1. NoData \in Payloads
      BY DEF Payloads
    <2> QED BY <1>1, <2>1, OnlyEnds, PacketMine
  <1>3. p \in PacketType /\ p.source = B /\ p.destination = A /\ p.ACK = p.FIN
    BY <1>1, <1>2 DEF Mine, Packet
  <1>4. ToSrc(p) = [ack_id |-> u.recv_so_far, sync_bit |-> u.sync_bit, FIN |-> fin]
    <2>1. u.recv_so_far = h.recv_so_far /\ u.sync_bit = h.sync_bit
      BY DEF DstOf
    <2> HIDE DEF u
    <2> QED BY <2>1 DEF Packet, ToSrc
  <1> HIDE DEF p, u
  <1>5. /\ F!Send(u, ToSrc(p)) = DstOf(Send(h, p), t, q, file)
        /\ Takes(Send(h, p), t) /\ Same(Send(h, p), h, {"out"})
    BY <1>3, DstSendSeen DEF u
  <1>6. F!Reply(u, fin) = F!Send(u, ToSrc(p))
    BY <1>4 DEF F!Reply
  <1> QED BY <1>5, <1>6 DEF p, u

\* The ack of handle_timer().
LEMMA ControlReply ==
    ASSUME NEW t, NEW h, Takes(h, t), h.sync_bit # 1, NEW q \in Seq(Back), NEW file
    PROVE  LET g == Send(h, Control(h))
           IN  /\ F!SendAck(DstOf(h, t, q, file)) = DstOf(g, t, q, file)
               /\ Takes(g, t) /\ Same(g, h, {"out"})
  <1> DEFINE fin == IF h.term_bit = 2 THEN 1 ELSE 0
             u == DstOf(h, t, q, file)
             p == Packet(h, h.sent_so_far, fin, fin, NoData)
  <1>1. fin \in 0..1
    OBVIOUS
  <1>2. Control(h) = p
    BY DEF Control, Takes, DstRole
  <1>3. F!SendAck(u) = F!Reply(u, fin)
    <2>1. u.term_bit = h.term_bit
      BY DEF DstOf
    <2> HIDE DEF u
    <2> QED BY <2>1 DEF F!SendAck
  <1> HIDE DEF fin
  <1>4. /\ F!Reply(u, fin) = DstOf(Send(h, p), t, q, file)
        /\ Takes(Send(h, p), t) /\ Same(Send(h, p), h, {"out"})
    BY <1>1, ReplySeen
  <1> HIDE DEF p, u
  <1> QED BY <1>2, <1>3, <1>4 DEF u

\* handle_timer() on the destination answers.
LEMMA DstTimerSeen ==
    ASSUME NEW t, NEW h, Takes(h, t), h.sync_bit # 1, NEW q \in Seq(Back), NEW file,
           ~(h.retrans = h.clock /\ h.retrans_bit = 1)
    PROVE  LET g == HandleTimer(h)
           IN  /\ F!SendAck(DstOf(h, t, q, file)) = DstOf(g, t, q, file)
               /\ Takes(g, t) /\ Same(g, h, {"sent_so_far", "out"})
  <1> DEFINE e == [h EXCEPT !.sent_so_far = @ + 1]
             g == Send(e, Control(e))
             u == DstOf(h, t, q, file)
  <1>0. h.retrans_bit # 2
    BY DEF Takes, DstRole
  <1>1. HandleTimer(h) = g
    BY <1>0 DEF HandleTimer
  <1>2. /\ Body(h, t, Only(A)) /\ DOMAIN h = Members /\ h.sent_so_far \in Nat
        /\ h.destination = A
    BY DEF Takes, DstRole, Body, Names, Sending
  <1>3. Same(e, h, {"sent_so_far"}) /\ e.sent_so_far = h.sent_so_far + 1
    BY <1>2 DEF Same, Members
  <1>4. Plain(e, t, Only(A)) /\ e.term_bit = h.term_bit
    BY <1>2, PlainBody DEF Plain, Members
  <1> HIDE DEF e
  <1>5. u = DstOf(e, t, q, file) /\ Takes(e, t)
    <2> DEFINE S == {"sent_so_far"}
    <2>1. F!IsDst(u) /\ \A f \in F!DstFields : u[f] = IF f \in S THEN e[f] ELSE u[f]
      BY DstIsDst DEF F!DstFields
    <2>2. S \subseteq (DstPlainly \cup Unseen) \cap Simple
      BY DEF Unseen, Simple
    <2>3. e.destination = A /\ e.retrans_bit # 2
      BY <1>0, <1>2, <1>3 DEF Same, Members
    <2> HIDE DEF S
    <2>4. Same(e, h, S)
      BY <1>3 DEF S
    <2> QED BY <1>4, <2>1, <2>2, <2>3, <2>4, DstPlainSeen
  <1>6. e.sync_bit # 1
    BY <1>3 DEF Same, Members
  <1>7. F!SendAck(DstOf(e, t, q, file)) = DstOf(g, t, q, file) /\ Takes(g, t) /\ Same(g, e, {"out"})
    BY <1>5, <1>6, ControlReply
  <1> HIDE DEF g, u
  <1>8. Same(g, h, {"sent_so_far", "out"})
    BY <1>3, <1>7 DEF Same
  <1> QED BY <1>1, <1>5, <1>7, <1>8 DEF u

---------------------------------------------------------------------------
(* recv_window_sync().                                                     *)

\* The end of the run is where the next packet is missing.
LEMMA RunEndIs ==
    ASSUME NEW h, h.recv_so_far \in Nat, IsFiniteSet(DOMAIN h.recv_window)
    PROVE  LET n == RunEnd(h)
           IN  /\ n \in Nat /\ h.recv_so_far =< n
               /\ h.recv_so_far+1 .. n \subseteq DOMAIN h.recv_window
               /\ n + 1 \notin DOMAIN h.recv_window
  <1> DEFINE W == DOMAIN h.recv_window
             r == h.recv_so_far
             c == Cardinality(W)
             all == r + 1 .. r + c + 1
             T == all \ W
  <1>1. c \in Nat
    BY FS_CardinalityType
  <1>2. IsFiniteSet(all) /\ Cardinality(all) = c + 1
    <2>1. r + 1 \in Int /\ r + c + 1 \in Int
      BY <1>1
    <2> HIDE DEF c
    <2>2. IsFiniteSet(all) /\ Cardinality(all) = IF r + 1 > r + c + 1 THEN 0 ELSE (r + c + 1) - (r + 1) + 1
      BY <2>1, FS_Interval
    <2> QED BY <1>1, <2>2
  <1>3. T # {}
    <2>1. ASSUME all \subseteq W PROVE Cardinality(all) =< c
      BY <2>1, FS_Subset
    <2> HIDE DEF c
    <2> QED BY <1>1, <1>2, <2>1
  <1> HIDE DEF c
  <1>4. T \in SUBSET Nat
    BY <1>1
  <1>5. PICK m \in T : \A k \in T : m =< k
    BY <1>3, <1>4, Least
  <1> DEFINE n == m - 1
  <1>6. n \in r .. r + c /\ n + 1 = m
    BY <1>1, <1>5
  <1>7. r + 1 .. n \subseteq W
    <2>1. SUFFICES ASSUME NEW k \in r + 1 .. n, k \notin W PROVE FALSE
      OBVIOUS
    <2>2. k \in T
      BY <1>1, <1>6, <2>1
    <2> QED BY <1>5, <1>6, <2>2
  <1>8. n + 1 \notin W
    BY <1>5, <1>6
  <1>9. \E k \in r .. r + c : r + 1 .. k \subseteq W /\ k + 1 \notin W
    BY <1>6, <1>7, <1>8
  <1>10. RunEnd(h) \in r .. r + c /\ r + 1 .. RunEnd(h) \subseteq W /\ RunEnd(h) + 1 \notin W
    BY <1>9 DEF RunEnd, c
  <1> HIDE DEF W
  <1> QED BY <1>1, <1>10 DEF W

LEMMA NoNumbers == ASSUME NEW file \in Seq(Nat) PROVE file \o Numbers(<<>>) = file
  <1>1. Numbers(<<>>) = <<>>
    BY DEF Numbers
  <1>2. file \o <<>> = file
    OBVIOUS
  <1> QED BY <1>1, <1>2

\* The payloads of the run that a packet releases, and what of them is in the copy.
RunData(w, a, n) == [j \in 1..Cardinality(a+1 .. n) |-> w[a + j].payload]
RunSeen(w, a, n) == [j \in 1..n - a |-> Window(w)[a + j].payload]

\* The chunks that a closed gap releases.
LEMMA RunNumbers ==
    ASSUME NEW w, \A i \in DOMAIN w : w[i] \in PacketType, NEW a \in Nat, NEW n \in Nat, a =< n,
           a+1 .. n \subseteq DOMAIN w
    PROVE  RunData(w, a, n) \in Seq(Payloads) /\ Numbers(RunData(w, a, n)) = RunSeen(w, a, n)
  <1> DEFINE run == a+1 .. n
             m == n - a
             r == [j \in 1..Cardinality(run) |-> w[a + j].payload]
             s == [j \in 1..m |-> Window(w)[a + j].payload]
  <1>1. m \in Nat /\ Cardinality(run) = m
    <2>1. a + 1 \in Int /\ n \in Int /\ m \in Nat
      OBVIOUS
    <2>2. Cardinality(run) = IF a + 1 > n THEN 0 ELSE n - (a + 1) + 1
      BY <2>1, FS_Interval
    <2> QED BY <2>1, <2>2
  <1>2. \A j \in 1..m : a + j \in DOMAIN w
    OBVIOUS
  <1> HIDE DEF run, m
  <1>3. r = [j \in 1..m |-> w[a + j].payload]
    BY <1>1
  <1>4. \A j \in 1..m : w[a + j].payload \in Payloads
    BY <1>2 DEF PacketType
  <1> HIDE DEF r
  <1>5. r \in Seq(Payloads) /\ DOMAIN r = 1..m /\ \A j \in 1..m : r[j] = w[a + j].payload
    <2> DEFINE f == [j \in 1..m |-> w[a + j].payload]
    <2>1. f \in Seq(Payloads)
      BY <1>1, <1>4
    <2> QED BY <1>3, <2>1
  <1>6. Numbers(r) = s
    <2>1. \A j \in 1..m : Window(w)[a + j] = ToDst(w[a + j])
      BY <1>2 DEF Window
    <2>2. \A j \in 1..m : Window(w)[a + j].payload = w[a + j].payload[2]
      <3>1. \A x : ToDst(x).payload = x.payload[2]
        BY DEF ToDst
      <3> QED BY <2>1, <3>1
    <2>3. Numbers(r) = [j \in 1..m |-> r[j][2]]
      BY <1>5 DEF Numbers
    <2> QED BY <1>5, <2>2, <2>3
  <1> QED BY <1>5, <1>6 DEF r, m, run, RunData, RunSeen

\* What the destination writes.
LEMMA StoredText ==
    ASSUME NEW t, NEW h, Body(h, t, Only(A)), h.text = <<>>, NEW p \in PacketType
    PROVE  Store(h, p).text \in Seq(Payloads)
  <1> DEFINE g == Store(h, p)
             w == h.recv_window
             n == RunEnd(h)
             a == h.recv_so_far
             run == a+1 .. n
             x == p.payload
  <1>1. /\ DOMAIN h = Members /\ a \in Nat /\ IsFiniteSet(DOMAIN w) /\ \A i \in DOMAIN w : w[i] \in PacketType
        /\ x \in Payloads
    BY DEF Body, Names, Receiving, PacketType
  <1>2. n \in Nat /\ a =< n /\ a+1 .. n \subseteq DOMAIN w
    BY <1>1, RunEndIs
  <1>3. g.text = h.text \/ g.text = <<x>> \o RunData(w, a, n)
    BY <1>1 DEF Store, Members, RunData
  <1> HIDE DEF n, a, w, x, g
  <1>4. RunData(w, a, n) \in Seq(Payloads)
    BY <1>1, <1>2, RunNumbers
  <1>5. <<x>> \in Seq(Payloads)
    BY <1>1
  <1>6. <<x>> \o RunData(w, a, n) \in Seq(Payloads)
    <2> DEFINE T == Payloads
    <2> HIDE DEF T
    <2>1. ASSUME NEW e \in Seq(T), NEW d \in Seq(T) PROVE e \o d \in Seq(T)
      OBVIOUS
    <2> QED BY <1>4, <1>5, <2>1 DEF T
  <1>7. <<>> \in Seq(Payloads)
    OBVIOUS
  <1> QED BY <1>3, <1>6, <1>7 DEF g

\* recv_window_sync() up to its answer.
LEMMA StoreSeen ==
    ASSUME NEW t \in Nat, NEW h, Takes(h, t), h.text = <<>>, NEW q \in Seq(Back), NEW file \in Seq(Nat),
           NEW p \in PacketType
    PROVE  LET g == Store(h, p)
           IN  /\ F!Store(DstOf(h, t, q, file), ToDst(p), h.write, RunEnd(h)) = DstOf(g, t, q, file)
               /\ Takes(g, t) /\ Same(g, h, {"recv_so_far", "recv_window", "text"})
  <1> DEFINE g == Store(h, p)
             S == {"recv_so_far", "recv_window", "text"}
             w == h.recv_window
             n == RunEnd(h)
             a == h.recv_so_far
             u == DstOf(h, t, q, file)
             d == DstOf(g, t, q, file)
             o == ToDst(p)
             v == F!Store(u, o, h.write, n)
  <1>1. Body(h, t, Only(A)) /\ h.clock = t /\ DOMAIN h = Members
    BY DEF Takes, Body, Names
  <1>2. Body(g, t, Only(A)) /\ Same(g, h, S)
    BY <1>1, StoreLemma
  <1>3. /\ a \in Nat /\ IsFiniteSet(DOMAIN w) /\ DOMAIN w \subseteq Nat /\ \A i \in DOMAIN w : w[i] \in PacketType
    BY <1>1 DEF Body, Receiving
  <1>4. Takes(g, t)
    <2>1. g.sync_bit = h.sync_bit /\ g.destination = h.destination /\ g.retrans_bit = h.retrans_bit
      BY <1>2 DEF Same, Members
    <2>2. S \cap DstFixed = {} /\ "out" \notin S
      BY DEF DstFixed
    <2>3. (h.sync_bit # 1 => h.destination = A) /\ h.retrans_bit # 2
      BY DEF Takes, DstRole
    <2>4. Writes(g)
      BY <1>1, StoredText DEF Writes
    <2> HIDE DEF S, g
    <2> QED BY <1>2, <2>1, <2>2, <2>3, <2>4, TakesFrame
  <1>5. n \in Nat /\ a =< n /\ a+1 .. n \subseteq DOMAIN w
    BY <1>3, RunEndIs
  <1>6. /\ u.recv_so_far = a /\ u.recv_window = Window(w) /\ u.out_file = file /\ F!IsDst(u)
        /\ DOMAIN Window(w) = DOMAIN w
    <2>1. u.out_file = file \o Numbers(h.text)
      BY DEF DstOf
    <2>2. u.recv_so_far = a /\ u.recv_window = Window(w)
      BY DEF DstOf
    <2> QED BY <2>1, <2>2, NoNumbers, DstIsDst DEF Window
  <1>7. /\ d.recv_so_far = g.recv_so_far /\ d.recv_window = Window(g.recv_window)
        /\ d.out_file = file \o Numbers(g.text) /\ F!IsDst(d)
    BY DstIsDst DEF DstOf
  <1>8. o.id = p.id /\ o.payload = p.payload[2]
    BY DEF ToDst
  <1> HIDE DEF n, u, d, o
  <1>9. CASE p.id < a \/ p.id \in DOMAIN w
    <2>1. g = h
      BY <1>9 DEF Store
    <2>2. v = u
      BY <1>6, <1>8, <1>9 DEF F!Store
    <2> HIDE DEF g, v
    <2> QED BY <1>2, <1>4, <2>1, <2>2 DEF g, v, u, n, o
  <1>10. CASE ~(p.id < a \/ p.id \in DOMAIN w) /\ p.id = a /\ h.write
    <2> DEFINE run == a+1 .. n
               r == [j \in 1..Cardinality(run) |-> w[a + j].payload]
               s == [j \in 1..n - a |-> Window(w)[a + j].payload]
    <2>1. /\ g.recv_so_far = n /\ g.recv_window = [i \in DOMAIN w \ run |-> w[i]]
          /\ g.text = <<p.payload>> \o r
      BY <1>1, <1>10 DEF Store, Members, n
    <2>2. r \in Seq(Payloads) /\ Numbers(r) = s
      <3> DEFINE W == w
                 m == a
      <3>1. m \in Nat /\ m =< n /\ n \in Nat /\ m+1 .. n \subseteq DOMAIN W /\ \A i \in DOMAIN W : W[i] \in PacketType
        BY <1>3, <1>5
      <3> HIDE DEF W, m
      <3>2. RunData(W, m, n) \in Seq(Payloads) /\ Numbers(RunData(W, m, n)) = RunSeen(W, m, n)
        BY <3>1, RunNumbers
      <3> QED BY <3>2 DEF W, m, RunData, RunSeen
    <2> HIDE DEF g, r, s
    <2>3. file \o Numbers(g.text) = file \o <<p.payload[2]>> \o s
      <3> DEFINE x == p.payload
      <3>1. x \in Payloads
        BY DEF PacketType
      <3> HIDE DEF x
      <3>2. file \o Numbers(<<x>> \o r) = file \o <<x[2]>> \o Numbers(r)
        BY <2>2, <3>1, NumbersOf
      <3> QED BY <2>1, <2>2, <3>2 DEF x
    <2>4. Window(g.recv_window) = [i \in DOMAIN Window(w) \ run |-> Window(w)[i]]
      BY <1>6, <2>1 DEF Window
    <2>5. v = F!Write(u, o, n)
      BY <1>6, <1>8, <1>10 DEF F!Store
    <2>6. v = [u EXCEPT !.recv_so_far = n,
                        !.recv_window = [i \in DOMAIN Window(w) \ run |-> Window(w)[i]],
                        !.out_file = file \o <<p.payload[2]>> \o s]
      <3> DEFINE run2 == u.recv_so_far+1 .. n
                 first == u.recv_so_far
                 rest == [i \in DOMAIN u.recv_window \ (first+1 .. n) |-> u.recv_window[i]]
                 more == [j \in 1..n-first |-> u.recv_window[first + j].payload]
      <3>1. v = [u EXCEPT !.recv_so_far = n, !.recv_window = rest,
                          !.out_file = u.out_file \o <<o.payload>> \o more]
        BY <1>6, <2>5 DEF F!Write, F!IsDst, F!DstFields
      <3>2. rest = [i \in DOMAIN Window(w) \ run |-> Window(w)[i]] /\ more = s
        BY <1>6 DEF s
      <3> HIDE DEF rest, more
      <3> QED BY <1>6, <1>8, <3>1, <3>2
    <2> DEFINE x == [i \in DOMAIN Window(w) \ run |-> Window(w)[i]]
               y == file \o <<p.payload[2]>> \o s
    <2>7. d.recv_so_far = n /\ d.recv_window = x /\ d.out_file = y
      BY <1>7, <2>1, <2>3, <2>4
    <2>8. v = [u EXCEPT !.recv_so_far = n, !.recv_window = x, !.out_file = y]
      BY <2>6
    <2> HIDE DEF x, y, v
    <2>9. F!IsDst(v) /\ \A f \in F!DstFields : v[f] = IF Shown(f) \in S THEN d[f] ELSE u[f]
      BY <1>6, <2>7, <2>8 DEF F!IsDst, F!DstFields, Shown
    <2>10. v = d
      BY <1>2, <2>9, DstFrame DEF u, d
    <2> QED BY <1>2, <1>4, <2>10 DEF g, v, u, d, n, o
  <1>11. CASE /\ ~(p.id < a \/ p.id \in DOMAIN w) /\ ~(p.id = a /\ h.write) /\ p.id > a
    <2> DEFINE new == [i \in {p.id} |-> p]
               one == [i \in {p.id} |-> o]
               ins == Insert(w, new)
    <2>1. /\ Same(g, h, {"recv_window"}) /\ g.recv_window = ins
      BY <1>1, <1>11 DEF Store, Same, Members
    <2>2. Window(new) = one
      BY DEF Window, o
    <2>3. Window(ins) = F!Insert(Window(w), one)
      BY <2>2, InsertSeen
    <2>4. v = [u EXCEPT !.recv_window = F!Insert(Window(w), one)]
      BY <1>6, <1>8, <1>11 DEF F!Store, F!IsDst, F!DstFields
    <2> DEFINE x == F!Insert(Window(w), one)
               R == {"recv_window"}
    <2> HIDE DEF g, ins, x
    <2>5. d.recv_window = x
      BY <1>7, <2>1, <2>3 DEF x
    <2>6. v = [u EXCEPT !.recv_window = x]
      BY <2>4 DEF x
    <2> HIDE DEF v
    <2>7. F!IsDst(v) /\ \A f \in F!DstFields : v[f] = IF Shown(f) \in R THEN d[f] ELSE u[f]
      BY <1>6, <2>5, <2>6 DEF F!IsDst, F!DstFields, Shown
    <2>8. v = d
      BY <2>1, <2>7, DstFrame DEF u, d
    <2> QED BY <1>2, <1>4, <2>8 DEF g, v, u, d, n, o
  <1>12. CASE /\ ~(p.id < a \/ p.id \in DOMAIN w) /\ ~(p.id = a /\ h.write) /\ ~(p.id > a)
    <2>1. g = h
      BY <1>12 DEF Store
    <2>2. v = u
      BY <1>6, <1>8, <1>12 DEF F!Store
    <2> HIDE DEF g, v
    <2> QED BY <1>2, <1>4, <2>1, <2>2 DEF g, v, u, n, o
  <1> QED BY <1>9, <1>10, <1>11, <1>12

\* What a packet of data changes at the destination.
Received == {"recv_so_far", "recv_window", "text", "sent_so_far", "out", "term_bit"}

\* The ack that closes the last gap before an early FIN, and what Fdtp's
\* destination changes before it sends it.
Closing(h) == LET f == [h EXCEPT !.recv_so_far = @ + 1, !.sent_so_far = @ + 1]
              IN  [Send(f, Packet(f, f.sent_so_far, 1, 1, NoData)) EXCEPT !.term_bit = 2]

ClosesIn(v) == [v EXCEPT !.recv_so_far = @ + 1, !.term_bit = 2]

\* The FIN that came early.
LEMMA CloseSeen ==
    ASSUME NEW t, NEW h, Takes(h, t), h.sync_bit = 3, NEW q \in Seq(Back), NEW file
    PROVE  /\ F!SendAck(ClosesIn(DstOf(h, t, q, file))) = DstOf(Closing(h), t, q, file)
           /\ Takes(Closing(h), t)
           /\ Same(Closing(h), h, {"recv_so_far", "sent_so_far", "out", "term_bit"})
  <1> DEFINE f == [h EXCEPT !.recv_so_far = @ + 1, !.sent_so_far = @ + 1]
             e == [f EXCEPT !.term_bit = 2]
             one == 1
             x == Packet(f, f.sent_so_far, one, one, NoData)
             p == Packet(e, e.sent_so_far, one, one, NoData)
             g == [Send(f, x) EXCEPT !.term_bit = 2]
             k == Send(e, p)
             S == {"recv_so_far", "sent_so_far", "term_bit"}
             u == DstOf(h, t, q, file)
             v == [u EXCEPT !.recv_so_far = @ + 1, !.term_bit = 2]
  <1>1. /\ Body(h, t, Only(A)) /\ DOMAIN h = Members /\ h.sent_so_far \in Nat /\ h.recv_so_far \in Nat
        /\ h.destination = A /\ h.retrans_bit # 2 /\ Plain(h, t, Only(A))
    <2>1. Body(h, t, Only(A)) /\ h.destination = A /\ h.retrans_bit # 2
      BY DEF Takes, DstRole
    <2> QED BY <2>1, PlainBody DEF Body, Names, Sending, Receiving
  <1>2. /\ Same(f, h, {"recv_so_far", "sent_so_far"}) /\ f.recv_so_far = h.recv_so_far + 1
        /\ f.sent_so_far = h.sent_so_far + 1
    BY <1>1 DEF Same, Members
  <1> HIDE DEF f
  <1>3. Same(e, f, {"term_bit"}) /\ e.term_bit = 2
    BY <1>1, <1>2 DEF Same, Members
  <1>4. g = k
    <2>1. p = x /\ e.sent_so_far = f.sent_so_far
      <3>1. /\ e.address = f.address /\ e.destination = f.destination /\ e.recv_so_far = f.recv_so_far
            /\ e.sync_bit = f.sync_bit /\ e.sent_so_far = f.sent_so_far
        BY <1>3 DEF Same, Members
      <3> HIDE DEF e
      <3> QED BY <3>1 DEF Packet
    <2>2. DOMAIN f = Members
      BY <1>1, <1>2 DEF Same
    <2> HIDE DEF x, p
    <2>3. g = [f EXCEPT !.out[x.destination] = Append(@, x), !.term_bit = 2]
      BY <2>2 DEF Send, Members
    <2>4. k = [f EXCEPT !.term_bit = 2, !.out[x.destination] = Append(@, x)]
      BY <2>1, <2>2 DEF Send, Members
    <2>5. g = k
      BY <2>2, <2>3, <2>4 DEF Members
    <2> QED BY <2>5
  <1> HIDE DEF e
  <1>5. Same(e, h, S) /\ e.recv_so_far = h.recv_so_far + 1 /\ e.sent_so_far = h.sent_so_far + 1
    <2>1. Same(e, h, S)
      BY <1>2, <1>3 DEF Same
    <2>2. e.recv_so_far = f.recv_so_far /\ e.sent_so_far = f.sent_so_far
      BY <1>3 DEF Same, Members
    <2> QED BY <1>2, <2>1, <2>2
  <1>6. Plain(e, t, Only(A))
    <2>1. /\ e.destination = h.destination /\ e.sync_bit = h.sync_bit /\ e.retrans = h.retrans
          /\ e.retrans_bit = h.retrans_bit /\ e.window_size = h.window_size /\ e.estimate = h.estimate
          /\ e.last_transmit = h.last_transmit /\ e.died = h.died
      BY <1>5 DEF Same, Members
    <2> QED BY <1>1, <1>3, <1>5, <2>1 DEF Plain
  <1>7. v = DstOf(e, t, q, file) /\ Takes(e, t)
    <2>1. u.recv_so_far = h.recv_so_far /\ F!IsDst(u)
      BY DstIsDst DEF DstOf
    <2> HIDE DEF u
    <2>2. F!IsDst(v) /\ \A b \in F!DstFields : v[b] = IF b \in S THEN e[b] ELSE u[b]
      BY <1>3, <1>5, <2>1 DEF F!IsDst, F!DstFields
    <2>3. S \subseteq (DstPlainly \cup Unseen) \cap Simple
      BY DEF DstPlainly, Unseen, Simple
    <2>4. e.destination = A /\ e.retrans_bit # 2 /\ e.term_bit # 0
      BY <1>1, <1>3, <1>5 DEF Same, Members
    <2> HIDE DEF S, v
    <2>5. v = DstOf(e, t, q, file) /\ Takes(e, t)
      <3>1. /\ Takes(h, t) /\ Same(e, h, S) /\ (h.term_bit # 0 => e.term_bit # 0)
            /\ (e.sync_bit # 1 => e.destination = A)
        BY <1>5, <2>4
      <3>2. \A b \in F!DstFields : v[b] = IF b \in S THEN e[b] ELSE DstOf(h, t, q, file)[b]
        BY <2>2 DEF u
      <3>3. F!IsDst(v) /\ e.retrans_bit # 2
        BY <2>2, <2>4
      <3> QED BY <1>6, <2>3, <3>1, <3>2, <3>3, DstPlainSeen
    <2> QED BY <2>5 DEF v, u
  <1>8. F!SendAck(v) = F!Reply(v, one)
    <2>1. v.term_bit = 2
      <3>1. v.term_bit = e.term_bit
        <4> HIDE DEF v
        <4> QED BY <1>7 DEF DstOf
      <3> QED BY <1>3, <3>1
    <2> HIDE DEF v
    <2> QED BY <2>1 DEF F!SendAck
  <1>9. one \in 0..1 /\ e.sync_bit # 1
    BY <1>5 DEF Same, Members
  <1>10. F!Reply(DstOf(e, t, q, file), one) = DstOf(k, t, q, file) /\ Takes(k, t) /\ Same(k, e, {"out"})
    <2> HIDE DEF one
    <2> QED BY <1>7, <1>9, ReplySeen
  <1> HIDE DEF k, v, u
  <1>11. Same(k, h, {"recv_so_far", "sent_so_far", "out", "term_bit"})
    BY <1>5, <1>10 DEF Same
  <1>12. F!SendAck(v) = DstOf(g, t, q, file) /\ Takes(g, t) /\ Same(g, h, {"recv_so_far", "sent_so_far", "out", "term_bit"})
    BY <1>4, <1>7, <1>8, <1>10, <1>11
  <1>13. ClosesIn(u) = v /\ Closing(h) = g
    BY DEF ClosesIn, Closing, v, g, x, f, one
  <1> HIDE DEF g
  <1> QED BY <1>12, <1>13 DEF u

\* recv_window_sync() as a whole.
LEMMA RecvWindowSyncSeen ==
    ASSUME NEW t \in Nat, NEW h, Takes(h, t), h.sync_bit = 3, h.retrans_bit = 0, h.text = <<>>,
           NEW q \in Seq(Back), NEW file \in Seq(Nat), NEW p \in PacketType
    PROVE  LET g == RecvWindowSync(h, p)
           IN  /\ F!RecvWindowSync(DstOf(h, t, q, file), ToDst(p), h.write, RunEnd(h)) = DstOf(g, t, q, file)
               /\ Takes(g, t) /\ Same(g, h, Received)
  <1> DEFINE s == Store(h, p)
             g == RecvWindowSync(h, p)
             c == Closing(s)
             d == DstOf(s, t, q, file)
             v == F!RecvWindowSync(DstOf(h, t, q, file), ToDst(p), h.write, RunEnd(h))
  <1>1. /\ F!Store(DstOf(h, t, q, file), ToDst(p), h.write, RunEnd(h)) = d
        /\ Takes(s, t) /\ Same(s, h, {"recv_so_far", "recv_window", "text"})
    BY StoreSeen
  <1>2. s.write = h.write /\ s.sync_bit = 3 /\ s.retrans_bit = 0
    BY <1>1 DEF Same, Members
  <1>3. v = F!Answer(d, h.write)
    BY <1>1 DEF F!RecvWindowSync
  <1>4. d.ter_seq = s.ter_seq /\ d.recv_so_far = s.recv_so_far
    BY DEF DstOf
  <1>5. CASE s.ter_seq = s.recv_so_far + 1 /\ s.write
    <2>1. g = c
      BY <1>5 DEF RecvWindowSync, Closing
    <2> HIDE DEF s, d
    <2>2. v = F!SendAck(ClosesIn(d))
      BY <1>2, <1>3, <1>4, <1>5 DEF F!Answer, ClosesIn
    <2>4. /\ F!SendAck(ClosesIn(d)) = DstOf(c, t, q, file)
          /\ Takes(c, t) /\ Same(c, s, {"recv_so_far", "sent_so_far", "out", "term_bit"})
      BY <1>1, <1>2, CloseSeen DEF d
    <2> HIDE DEF c, g, v
    <2>5. Same(c, h, Received)
      BY <1>1, <2>4 DEF Same, Received
    <2> QED BY <2>1, <2>2, <2>4, <2>5 DEF g, v
  <1>6. CASE ~(s.ter_seq = s.recv_so_far + 1 /\ s.write)
    <2>1. g = HandleTimer(s)
      BY <1>6 DEF RecvWindowSync
    <2> HIDE DEF s, d
    <2>2. v = F!SendAck(d)
      BY <1>2, <1>3, <1>4, <1>6 DEF F!Answer
    <2>3. /\ F!SendAck(d) = DstOf(HandleTimer(s), t, q, file)
          /\ Takes(HandleTimer(s), t) /\ Same(HandleTimer(s), s, {"sent_so_far", "out"})
      <3>1. s.sync_bit # 1 /\ ~(s.retrans = s.clock /\ s.retrans_bit = 1)
        BY <1>2
      <3>2. LET e == HandleTimer(s)
            IN  /\ F!SendAck(DstOf(s, t, q, file)) = DstOf(e, t, q, file)
                /\ Takes(e, t) /\ Same(e, s, {"sent_so_far", "out"})
        BY <1>1, <3>1, DstTimerSeen, Zenon
      <3> QED BY <3>2 DEF d
    <2> HIDE DEF g, v
    <2>4. Same(g, h, Received)
      BY <1>1, <2>1, <2>3 DEF Same, Received
    <2> QED BY <2>1, <2>2, <2>3, <2>4 DEF g, v
  <1> QED BY <1>5, <1>6

\* What the destination v makes of the FIN p.
FinAnswer(v, p) == IF p.id = v.recv_so_far THEN F!Reply(v, 1)
                   ELSE [v EXCEPT !.term_bit = 1, !.ter_seq = p.id]

Finished == {"sent_so_far", "out", "term_bit", "ter_seq"}

\* ReceiveFin(h, p) is seen as that answer.
FinTaken(h, t, q, file, p) ==
    LET g == ReceiveFin(h, p)
    IN  /\ DstOf(g, t, q, file) = FinAnswer(DstOf(h, t, q, file), p)
        /\ Takes(g, t) /\ Same(g, h, Finished)

\* A FIN arrives.
LEMMA ReceiveFinSeen ==
    ASSUME NEW t \in Nat, NEW h, Takes(h, t), h.sync_bit = 3, h.term_bit # 2,
           NEW q \in Seq(Back), NEW file, NEW p \in PacketType
    PROVE  FinTaken(h, t, q, file, p)
  <1> DEFINE u == DstOf(h, t, q, file)
             g == ReceiveFin(h, p)
             e == [h EXCEPT !.sent_so_far = @ + (IF h.write THEN 1 ELSE 0)]
             one == 1
             r == Send(e, Packet(e, e.sent_so_far, one, one, NoData))
             c == [h EXCEPT !.term_bit = 1, !.ter_seq = p.id]
             v == [u EXCEPT !.term_bit = 1, !.ter_seq = p.id]
  <1> SUFFICES DstOf(g, t, q, file) = FinAnswer(u, p) /\ Takes(g, t) /\ Same(g, h, Finished)
    BY DEF FinTaken
  <1>1. /\ Body(h, t, Only(A)) /\ DOMAIN h = Members /\ h.sent_so_far \in Nat
        /\ h.destination = A /\ h.retrans_bit # 2 /\ Plain(h, t, Only(A))
    <2>1. Body(h, t, Only(A)) /\ h.destination = A /\ h.retrans_bit # 2
      BY DEF Takes, DstRole
    <2>2. Plain(h, t, Only(A)) /\ DOMAIN h = Members
      BY <2>1, PlainBody
    <2> QED BY <2>1, <2>2 DEF Plain
  <1>2. u.recv_so_far = h.recv_so_far /\ F!IsDst(u)
    BY DstIsDst DEF DstOf
  <1>3. CASE p.id = h.recv_so_far
    <2>1. g = r
      BY <1>3 DEF ReceiveFin
    <2>2. Same(e, h, {"sent_so_far"}) /\ e.sent_so_far \in Nat
      BY <1>1 DEF Same, Members
    <2> HIDE DEF e
    <2>3. Plain(e, t, Only(A)) /\ e.term_bit = h.term_bit
      <3>1. /\ e.destination = h.destination /\ e.sync_bit = h.sync_bit /\ e.retrans = h.retrans
            /\ e.retrans_bit = h.retrans_bit /\ e.window_size = h.window_size /\ e.estimate = h.estimate
            /\ e.last_transmit = h.last_transmit /\ e.died = h.died /\ e.term_bit = h.term_bit
            /\ e.recv_so_far = h.recv_so_far
        BY <2>2 DEF Same, Members
      <3> QED BY <1>1, <2>2, <3>1 DEF Plain
    <2>4. u = DstOf(e, t, q, file) /\ Takes(e, t)
      <3> DEFINE S == {"sent_so_far"}
      <3>1. F!IsDst(u) /\ \A f \in F!DstFields : u[f] = IF f \in S THEN e[f] ELSE u[f]
        BY <1>2 DEF F!DstFields
      <3>2. S \subseteq (DstPlainly \cup Unseen) \cap Simple
        BY DEF Unseen, Simple
      <3>3. e.destination = A /\ e.retrans_bit # 2
        BY <1>1, <2>2 DEF Same, Members
      <3>4. Same(e, h, S)
        BY <2>2
      <3> HIDE DEF S
      <3> QED BY <2>3, <3>1, <3>2, <3>3, <3>4, DstPlainSeen
    <2>5. one \in 0..1 /\ e.sync_bit # 1
      BY <2>2 DEF Same, Members
    <2>6. F!Reply(DstOf(e, t, q, file), one) = DstOf(r, t, q, file) /\ Takes(r, t) /\ Same(r, e, {"out"})
      <3> HIDE DEF one
      <3> QED BY <2>4, <2>5, ReplySeen
    <2> HIDE DEF r
    <2>7. Same(r, h, Finished)
      BY <2>2, <2>6 DEF Same, Finished
    <2> HIDE DEF u, g
    <2>8. FinAnswer(u, p) = F!Reply(u, one)
      BY <1>2, <1>3 DEF FinAnswer
    <2> QED BY <2>1, <2>4, <2>6, <2>7, <2>8 DEF u, g
  <1>4. CASE p.id # h.recv_so_far
    <2> DEFINE S == {"term_bit", "ter_seq"}
    <2>1. g = c
      BY <1>4 DEF ReceiveFin
    <2>2. Same(c, h, S) /\ c.term_bit = 1 /\ c.ter_seq = p.id
      BY <1>1 DEF Same, Members
    <2> HIDE DEF c
    <2>3. Plain(c, t, Only(A))
      <3>1. /\ c.destination = h.destination /\ c.sync_bit = h.sync_bit /\ c.retrans = h.retrans
            /\ c.retrans_bit = h.retrans_bit /\ c.window_size = h.window_size /\ c.estimate = h.estimate
            /\ c.last_transmit = h.last_transmit /\ c.died = h.died /\ c.sent_so_far = h.sent_so_far
            /\ c.recv_so_far = h.recv_so_far
        BY <2>2 DEF Same, Members
      <3> QED BY <1>1, <2>2, <3>1 DEF Plain
    <2> HIDE DEF u
    <2>4. F!IsDst(v) /\ \A f \in F!DstFields : v[f] = IF f \in S THEN c[f] ELSE u[f]
      BY <1>2, <2>2 DEF F!IsDst, F!DstFields
    <2>5. S \subseteq (DstPlainly \cup Unseen) \cap Simple
      BY DEF DstPlainly, Simple
    <2>6. c.destination = A /\ c.retrans_bit # 2 /\ c.term_bit # 0
      BY <1>1, <2>2 DEF Same, Members
    <2>7. Same(c, h, Finished)
      BY <2>2 DEF Same, Finished
    <2> HIDE DEF S, v
    <2>8. v = DstOf(c, t, q, file) /\ Takes(c, t)
      <3>1. \A f \in F!DstFields : v[f] = IF f \in S THEN c[f] ELSE DstOf(h, t, q, file)[f]
        BY <2>4 DEF u
      <3>2. Same(c, h, S) /\ (h.term_bit # 0 => c.term_bit # 0) /\ (c.sync_bit # 1 => c.destination = A)
        BY <2>2, <2>6
      <3>3. Takes(h, t) /\ F!IsDst(v)
        BY <2>4
      <3>4. Takes(h, t) BY <3>3
      <3>5. S \subseteq (DstPlainly \cup Unseen) \cap Simple BY <2>5
      <3>6. Same(c, h, S) BY <3>2
      <3>7. Plain(c, t, Only(A)) BY <2>3
      <3>8. h.term_bit # 0 => c.term_bit # 0 BY <3>2
      <3>9. c.sync_bit # 1 => c.destination = A BY <3>2
      <3>10. c.retrans_bit # 2 BY <2>6
      <3>11. F!IsDst(v) BY <3>3
      <3> QED BY ONLY <3>1, <3>4, <3>5, <3>6, <3>7, <3>8, <3>9, <3>10, <3>11, DstPlainSeen
    <2> HIDE DEF g
    <2>9. FinAnswer(u, p) = v
      BY <1>2, <1>4 DEF FinAnswer, v
    <2> QED BY <2>1, <2>7, <2>8, <2>9 DEF u, g
  <1> QED BY <1>3, <1>4

---------------------------------------------------------------------------
(* receive() at the destination.                                           *)

\* A packet of the source.
FromA(p) == /\ p \in PacketType /\ p.source = A /\ p.sync_bit \in {1, 3} /\ p.ACK = 0

At(v, n) == [v EXCEPT !.recv_so_far = n]

\* What receive() counts on the destination.
LEMMA CountDst ==
    ASSUME NEW t, NEW h, Takes(h, t), NEW p \in PacketType, NEW q, NEW file
    PROVE  LET c == Count(h, p)
           IN  /\ DstOf(c, t, q, file) = At(DstOf(h, t, q, file), c.recv_so_far) /\ Takes(c, t)
               /\ Same(c, h, {"write", "flag", "recv_so_far"})
               /\ c.flag = 0 /\ c.write = (p.id = h.recv_so_far + 1)
               /\ c.recv_so_far = IF p.id = h.recv_so_far + 1 THEN p.id ELSE h.recv_so_far
  <1> DEFINE c == Count(h, p)
             S == {"write", "flag", "recv_so_far"}
             u == DstOf(h, t, q, file)
             v == At(u, c.recv_so_far)
  <1>1. /\ Body(h, t, Only(A)) /\ DOMAIN h = Members /\ h.sender = FALSE /\ Plain(h, t, Only(A))
        /\ h.retrans_bit # 2 /\ (h.sync_bit # 1 => h.destination = A)
        /\ p.id \in Nat /\ h.recv_so_far \in Nat
    BY PlainBody DEF Takes, DstRole, Body, Names, Receiving, PacketType
  <1>2. /\ Same(c, h, S) /\ c.flag = 0 /\ c.write = (p.id = h.recv_so_far + 1)
        /\ c.recv_so_far = IF p.id = h.recv_so_far + 1 THEN p.id ELSE h.recv_so_far
    BY <1>1 DEF Count, Same, Members
  <1> HIDE DEF c
  <1>3. /\ c.destination = h.destination /\ c.sync_bit = h.sync_bit /\ c.retrans = h.retrans
        /\ c.retrans_bit = h.retrans_bit /\ c.window_size = h.window_size /\ c.estimate = h.estimate
        /\ c.last_transmit = h.last_transmit /\ c.died = h.died /\ c.term_bit = h.term_bit
        /\ c.sent_so_far = h.sent_so_far
    BY <1>2 DEF Same, Members
  <1>4. Plain(c, t, Only(A))
    <2>1. c.recv_so_far \in Nat
      BY <1>1, <1>2
    <2> QED BY <1>1, <1>3, <2>1 DEF Plain
  <1>5. F!IsDst(u)
    BY DstIsDst
  <1> HIDE DEF u
  <1>6. F!IsDst(v) /\ \A f \in F!DstFields : v[f] = IF f \in S THEN c[f] ELSE u[f]
    BY <1>5 DEF At, F!IsDst, F!DstFields
  <1>7. S \subseteq (DstPlainly \cup Unseen) \cap Simple
    BY DEF DstPlainly, Unseen, Simple
  <1>8. Same(c, h, S)
    BY <1>2
  <1> HIDE DEF S, v
  <1>9. \A f \in F!DstFields : v[f] = IF f \in S THEN c[f] ELSE DstOf(h, t, q, file)[f]
    BY <1>6 DEF u
  <1>10. /\ h.term_bit # 0 => c.term_bit # 0
         /\ c.sync_bit # 1 => c.destination = A
         /\ c.retrans_bit # 2
    BY <1>1, <1>3
  <1>11. v = DstOf(c, t, q, file) /\ Takes(c, t)
    BY <1>4, <1>6, <1>7, <1>8, <1>9, <1>10, DstPlainSeen
  <1> QED BY <1>2, <1>11 DEF c, S, u, v

\* The connection stands: what ReceiveAck changes when the timer is cancelled.
Connected(v, n) == [v EXCEPT !.sync_bit = 3, !.recv_so_far = n]

\* The packet that completes the connection.
LEMMA ReceiveAckSeen ==
    ASSUME NEW t \in Nat \ {0}, NEW h, Takes(h, t), Armed(h), Idle(h), Timed(h), h.sync_bit = 2,
           NEW p \in PacketType, p.source = A, NEW q, NEW file
    PROVE  LET g == ReceiveAck(h, p)
               late == p.id > h.recv_so_far
               next == p.id = h.recv_so_far + 2
           IN  /\ DstOf(g, t, q, file) = Connected(F!Cancel(DstOf(h, t, q, file)), g.recv_so_far)
               /\ Takes(g, t) /\ Timed(g) /\ g.sync_bit = 3 /\ g.retrans_bit = 0
               /\ g.term_bit = h.term_bit /\ g.text = h.text
               /\ g.flag = (IF late THEN 0 ELSE 1) /\ g.write = (h.write \/ (late /\ next))
               /\ g.recv_so_far = IF late /\ next THEN h.recv_so_far + 2
                                  ELSE IF late THEN h.recv_so_far + 1 ELSE h.recv_so_far
  <1> DEFINE e == Stop(h)
             g == ReceiveAck(h, p)
             late == p.id > h.recv_so_far
             next == p.id = h.recv_so_far + 2
             S == {"destination", "sync_bit", "flag", "write", "recv_so_far"}
             u == DstOf(e, t, q, file)
             v == Connected(u, g.recv_so_far)
  <1>0. Body(h, t, Only(A)) /\ h.clock = t /\ h.recv_so_far \in Nat
    BY DEF Takes, Body, Receiving
  <1>1. /\ Body(e, t, Only(A)) /\ Timed(e) /\ Same(e, h, {"retrans", "retrans_bit", "timers"})
        /\ e.retrans_bit = 0
    BY <1>0, StopBody
  <1>2. F!Cancel(DstOf(h, t, q, file)) = u /\ Takes(e, t)
    BY DstStopSeen
  <1>3. g = [e EXCEPT !.destination = p.source, !.sync_bit = 3,
                      !.flag = IF late THEN 0 ELSE 1,
                      !.write = @ \/ (late /\ next),
                      !.recv_so_far = IF late /\ next THEN @ + 2 ELSE IF late THEN @ + 1 ELSE @]
    BY DEF ReceiveAck, Stop
  <1> HIDE DEF late, next
  <1>4. DOMAIN e = Members /\ e.recv_so_far = h.recv_so_far /\ e.write = h.write
    BY <1>1 DEF Body, Names, Same, Members
  <1> HIDE DEF e, g
  <1>5. /\ Same(g, e, S) /\ g.sync_bit = 3 /\ g.destination = A
        /\ g.flag = (IF late THEN 0 ELSE 1) /\ g.write = (h.write \/ (late /\ next))
        /\ g.recv_so_far = IF late /\ next THEN h.recv_so_far + 2
                           ELSE IF late THEN h.recv_so_far + 1 ELSE h.recv_so_far
    BY <1>3, <1>4 DEF Same, Members
  <1>6. /\ g.retrans = e.retrans /\ g.timers = e.timers
        /\ g.retrans_bit = e.retrans_bit /\ g.window_size = e.window_size /\ g.estimate = e.estimate
        /\ g.last_transmit = e.last_transmit /\ g.died = e.died /\ g.term_bit = e.term_bit
        /\ g.sent_so_far = e.sent_so_far /\ g.text = e.text
    BY <1>5 DEF Same, Members
  <1>7. Plain(g, t, Only(A))
    <2>1. g.recv_so_far \in Nat
      BY <1>0, <1>5
    <2>2. g.destination \in Only(A)
      BY <1>5 DEF Only
    <2> QED BY <1>1, <1>5, <1>6, <2>1, <2>2, PlainBody DEF Plain
  <1>8. F!IsDst(u)
    BY DstIsDst
  <1> HIDE DEF u
  <1>9. F!IsDst(v) /\ \A f \in F!DstFields : v[f] = IF f \in S THEN g[f] ELSE u[f]
    BY <1>5, <1>8 DEF Connected, F!IsDst, F!DstFields
  <1>10. S \subseteq (DstPlainly \cup Unseen) \cap Simple
    BY DEF DstPlainly, Unseen, Simple
  <1>11. Same(g, e, S)
    BY <1>5
  <1> HIDE DEF S, v
  <1>12. \A f \in F!DstFields : v[f] = IF f \in S THEN g[f] ELSE DstOf(e, t, q, file)[f]
    BY <1>9 DEF u
  <1>13. /\ e.term_bit # 0 => g.term_bit # 0
         /\ g.sync_bit # 1 => g.destination = A
         /\ g.retrans_bit # 2
    BY <1>1, <1>5, <1>6
  <1>14. v = DstOf(g, t, q, file) /\ Takes(g, t)
    BY <1>2, <1>7, <1>9, <1>10, <1>11, <1>12, <1>13, DstPlainSeen
  <1>15. Timed(g)
    BY <1>1, <1>6 DEF Timed
  <1>16. g.term_bit = h.term_bit /\ g.text = h.text
    BY <1>1, <1>6 DEF Same, Members
  <1> QED BY <1>1, <1>2, <1>5, <1>6, <1>14, <1>15, <1>16 DEF u, v, g, late, next

\* The SYN is answered, and the answer waited for.
Opened(v) == [v EXCEPT !.sync_bit = 2]

\* A SYN arrives.
LEMMA ReceiveSynSeen ==
    ASSUME NEW t \in Nat \ {0}, NEW h, Takes(h, t), h.timers = EmptyBag, h.retrans_bit = 0,
           NEW p, p.source = A, NEW q \in Seq(Back), NEW file
    PROVE  LET g == ReceiveSyn(h, p)
           IN  /\ DstOf(g, t, q, file) = F!Arm(F!SendAck(Opened(DstOf(h, t, q, file))), 1)
               /\ Takes(g, t) /\ Timed(g) /\ g.sync_bit = 2 /\ g.term_bit = h.term_bit /\ g.text = h.text
  <1> DEFINE e == [h EXCEPT !.destination = p.source, !.sync_bit = 2]
             k == HandleTimer(e)
             g == Set(k, 1)
             S == {"destination", "sync_bit"}
             u == DstOf(h, t, q, file)
             v == Opened(u)
  <1>1. DOMAIN h = Members /\ Plain(h, t, Only(A))
    BY PlainBody DEF Takes
  <1>2. Same(e, h, S) /\ e.destination = A /\ e.sync_bit = 2
    BY <1>1 DEF Same, Members
  <1>3. ReceiveSyn(h, p) = g
    BY DEF ReceiveSyn
  <1> HIDE DEF e
  <1>4. /\ e.retrans = h.retrans /\ e.timers = h.timers /\ e.retrans_bit = h.retrans_bit
        /\ e.window_size = h.window_size /\ e.estimate = h.estimate
        /\ e.last_transmit = h.last_transmit /\ e.died = h.died /\ e.term_bit = h.term_bit
        /\ e.sent_so_far = h.sent_so_far /\ e.recv_so_far = h.recv_so_far /\ e.text = h.text
    BY <1>2 DEF Same, Members
  <1>5. Plain(e, t, Only(A))
    <2>1. e.destination \in Only(A)
      BY <1>2 DEF Only
    <2> QED BY <1>1, <1>2, <1>4, <2>1 DEF Plain
  <1>6. F!IsDst(u)
    BY DstIsDst
  <1> HIDE DEF u
  <1>7. F!IsDst(v) /\ \A f \in F!DstFields : v[f] = IF f \in S THEN e[f] ELSE u[f]
    BY <1>2, <1>6 DEF Opened, F!IsDst, F!DstFields
  <1>8. S \subseteq (DstPlainly \cup Unseen) \cap Simple
    BY DEF DstPlainly, Unseen, Simple
  <1>9. Same(e, h, S)
    BY <1>2
  <1> HIDE DEF S, v
  <1>10. \A f \in F!DstFields : v[f] = IF f \in S THEN e[f] ELSE DstOf(h, t, q, file)[f]
    BY <1>7 DEF u
  <1>11. /\ h.term_bit # 0 => e.term_bit # 0
         /\ e.sync_bit # 1 => e.destination = A
         /\ e.retrans_bit # 2
    BY <1>2, <1>4
  <1>12. v = DstOf(e, t, q, file) /\ Takes(e, t)
    <2>1. h.term_bit # 0 => e.term_bit # 0
      BY <1>11
    <2>2. e.sync_bit # 1 => e.destination = A
      BY <1>11
    <2>3. e.retrans_bit # 2
      BY <1>11
    <2>4. F!IsDst(v)
      BY <1>7
    <2>5. Takes(h, t)
      OBVIOUS
    <2> QED BY ONLY <1>5, <1>8, <1>9, <1>10, <2>1, <2>2, <2>3, <2>4, <2>5, DstPlainSeen
  <1>13. e.sync_bit # 1 /\ ~(e.retrans = e.clock /\ e.retrans_bit = 1)
    BY <1>2, <1>4
  <1>14. F!SendAck(v) = DstOf(k, t, q, file) /\ Takes(k, t) /\ Same(k, e, {"sent_so_far", "out"})
    BY <1>12, <1>13, DstTimerSeen
  <1> HIDE DEF k
  <1>15. k.timers = EmptyBag /\ k.sync_bit = 2 /\ k.term_bit = h.term_bit /\ k.text = h.text
    BY <1>2, <1>4, <1>14 DEF Same, Members
  <1>16. F!Arm(DstOf(k, t, q, file), 1) = DstOf(g, t, q, file) /\ Takes(g, t) /\ Timed(g)
    BY <1>14, <1>15, DstSetSeen
  <1>17. Same(g, k, {"retrans", "retrans_bit", "timers"})
    <2>1. Body(k, t, Only(A)) /\ k.clock = t
      BY <1>14 DEF Takes
    <2> QED BY <2>1, SetLemma
  <1>18. g.sync_bit = 2 /\ g.term_bit = h.term_bit /\ g.text = h.text
    BY <1>15, <1>17 DEF Same, Members
  <1> HIDE DEF g
  <1> QED BY <1>3, <1>14, <1>16, <1>18 DEF u, v

\* Of two numbers that recv_so_far takes, the second stays.
LEMMA CancelAt ==
    ASSUME NEW v, F!IsDst(v), NEW m, NEW n
    PROVE  Connected(F!Cancel(At(v, m)), n) = Connected(F!Cancel(v), n)
  BY DEF Connected, At, F!Cancel, F!IsDst, F!DstFields

\* What Connect makes of a packet, as Fdtp counts it.
Connects(h, g, p, u, w, k) ==
    /\ g.term_bit = h.term_bit /\ g.text = h.text
    /\ h.sync_bit = 1 /\ p.sync_bit = 1 =>
          g.sync_bit = 2 /\ w = F!Arm(F!SendAck(Opened(F!Counted(u, k))), 1)
    /\ ~(h.sync_bit = 1 /\ p.sync_bit = 1) => w = F!Counted(u, k)
    /\ F!Completes(u, k) =>
          /\ g.sync_bit = 3 /\ g.retrans_bit = 0 /\ g.flag = (IF F!LostAck(u, k) THEN 0 ELSE 1)
          /\ F!LostAck(u, k) => g.write = F!Accepts(u, k)
    /\ ~(h.sync_bit = 1 /\ p.sync_bit = 1) /\ ~F!Completes(u, k) =>
          /\ g.sync_bit = h.sync_bit /\ g.retrans_bit = h.retrans_bit /\ g.flag = 0
          /\ g.write = F!Accepts(u, k)

\* The first half of receive() on the destination.
LEMMA DestinationConnects ==
    ASSUME NEW t \in Nat \ {0}, NEW h, Takes(h, t), Armed(h), Idle(h), Timed(h),
           h.sync_bit # 3 => h.term_bit = 0, h.sync_bit # 2 => h.retrans_bit = 0,
           NEW q \in Seq(Back), NEW file, NEW p, FromA(p)
    PROVE  LET g == Connect(Count(h, p), p)
           IN  /\ Takes(g, t) /\ Timed(g)
               /\ Connects(h, g, p, DstOf(h, t, q, file), DstOf(g, t, q, file), ToDst(p))
  <1> DEFINE c == Count(h, p)
             g == Connect(c, p)
             u == DstOf(h, t, q, file)
             d == DstOf(c, t, q, file)
             w == DstOf(g, t, q, file)
             k == ToDst(p)
             S == {"write", "flag", "recv_so_far"}
  <1>0. /\ p \in PacketType /\ p.source = A /\ p.sync_bit \in {1, 3} /\ p.id \in Nat
        /\ h.recv_so_far \in Nat /\ h.sync_bit \in 1..3
    BY DEF FromA, Takes, Body, Names, Receiving, PacketType
  <1>1. /\ d = At(u, c.recv_so_far) /\ Takes(c, t) /\ Same(c, h, S)
        /\ c.flag = 0 /\ c.write = (p.id = h.recv_so_far + 1)
        /\ c.recv_so_far = IF p.id = h.recv_so_far + 1 THEN p.id ELSE h.recv_so_far
    BY <1>0, CountDst
  <1>2. /\ u.sync_bit = h.sync_bit /\ u.term_bit = h.term_bit /\ u.recv_so_far = h.recv_so_far
        /\ F!IsDst(u)
    BY DstIsDst DEF DstOf
  <1>3. k.id = p.id /\ k.sync_bit = p.sync_bit /\ k.FIN = p.FIN
    BY DEF ToDst
  <1> HIDE DEF c, d, u, k
  <1>4. /\ c.retrans_bit = h.retrans_bit /\ c.retrans = h.retrans /\ c.timers = h.timers
        /\ c.sync_bit = h.sync_bit /\ c.term_bit = h.term_bit /\ c.text = h.text
        /\ c.died = h.died /\ c.sent_window = h.sent_window /\ c.retransmit_pkt = h.retransmit_pkt
    BY <1>1 DEF Same, Members
  <1>5. Armed(c) /\ Idle(c) /\ Timed(c)
    BY <1>4 DEF Armed, Idle, Timed
  <1>6. F!Completes(u, k) <=> h.sync_bit = 2 /\ h.term_bit = 0 /\ p.sync_bit = 3
    BY <1>2, <1>3 DEF F!Completes
  <1>7. CASE ~F!Completes(u, k)
    <2>1. ~F!LostAck(u, k) /\ F!Accepts(u, k) = (p.id = h.recv_so_far + 1)
      BY <1>2, <1>3, <1>7 DEF F!LostAck, F!Accepts
    <2>2. F!Counted(u, k) = d
      BY <1>1, <1>2, <1>3, <1>7, <2>1 DEF F!Counted, At
    <2>3. CASE h.sync_bit = 1 /\ p.sync_bit = 1
      <3>1. g = ReceiveSyn(c, p)
        BY <1>4, <2>3 DEF Connect
      <3>2. c.timers = EmptyBag /\ c.retrans_bit = 0
        BY <1>4, <2>3 DEF Timed
      <3>3. LET r == ReceiveSyn(c, p)
            IN  /\ DstOf(r, t, q, file) = F!Arm(F!SendAck(Opened(DstOf(c, t, q, file))), 1)
                /\ Takes(r, t) /\ Timed(r) /\ r.sync_bit = 2 /\ r.term_bit = c.term_bit /\ r.text = c.text
        <4>1. Takes(c, t) /\ p.source = A
          BY <1>0, <1>1
        <4> QED BY ONLY <3>2, <4>1, ReceiveSynSeen, t \in Nat \ {0}, q \in Seq(Back)
      <3> HIDE DEF g
      <3>4. /\ w = F!Arm(F!SendAck(Opened(d)), 1)
            /\ Takes(g, t) /\ Timed(g) /\ g.sync_bit = 2 /\ g.term_bit = c.term_bit /\ g.text = c.text
        BY <3>1, <3>3 DEF d
      <3> HIDE DEF w
      <3> QED BY <1>4, <1>7, <2>2, <2>3, <3>4 DEF Connects, g, u, w, c, k
    <2>4. CASE ~(h.sync_bit = 1 /\ p.sync_bit = 1)
      <3>1. g = c
        BY <1>0, <1>4, <1>6, <1>7, <2>4 DEF Connect
      <3> HIDE DEF g
      <3>2. w = d
        BY <3>1 DEF d
      <3> HIDE DEF w
      <3> QED BY <1>1, <1>4, <1>5, <1>7, <2>1, <2>2, <2>4, <3>1, <3>2 DEF Connects, g, u, w, c, k
    <2> QED BY <2>3, <2>4
  <1>8. CASE F!Completes(u, k)
    <2> DEFINE r == ReceiveAck(c, p)
               n == r.recv_so_far
    <2>1. h.sync_bit = 2 /\ h.term_bit = 0 /\ p.sync_bit = 3
      BY <1>6, <1>8
    <2>2. g = r
      BY <1>4, <2>1 DEF Connect
    <2>3. /\ DstOf(r, t, q, file) = Connected(F!Cancel(d), n)
          /\ Takes(r, t) /\ Timed(r) /\ r.sync_bit = 3 /\ r.retrans_bit = 0
          /\ r.term_bit = c.term_bit /\ r.text = c.text
          /\ r.flag = (IF p.id > c.recv_so_far THEN 0 ELSE 1)
          /\ r.write = (c.write \/ (p.id > c.recv_so_far /\ p.id = c.recv_so_far + 2))
          /\ n = IF p.id > c.recv_so_far /\ p.id = c.recv_so_far + 2 THEN c.recv_so_far + 2
                 ELSE IF p.id > c.recv_so_far THEN c.recv_so_far + 1 ELSE c.recv_so_far
      <3>1. c.sync_bit = 2
        BY <1>4, <2>1
      <3> QED BY <1>0, <1>1, <1>5, <3>1, ReceiveAckSeen DEF d
    <2> HIDE DEF r, g, w
    <2>4. /\ F!LostAck(u, k) <=> p.id > h.recv_so_far + 1
          /\ F!Accepts(u, k) <=> p.id = h.recv_so_far + (IF p.id > h.recv_so_far + 1 THEN 2 ELSE 1)
      BY <1>2, <1>3, <1>8 DEF F!LostAck, F!Accepts
    <2>5. F!Counted(u, k) = Connected(F!Cancel(u), n)
      <3>1. n = IF F!Accepts(u, k) THEN k.id ELSE IF F!LostAck(u, k) THEN h.recv_so_far + 1 ELSE h.recv_so_far
        BY <1>0, <1>1, <1>3, <2>3, <2>4
      <3>2. F!Cancel(u).recv_so_far = h.recv_so_far /\ F!IsDst(F!Cancel(u))
        BY <1>2 DEF F!Cancel, F!IsDst, F!DstFields
      <3> HIDE DEF n
      <3> DEFINE v == F!Cancel(u)
      <3>3. F!IsDst(v) /\ v.recv_so_far = h.recv_so_far
        BY <3>2
      <3>4. F!Counted(u, k) = [[v EXCEPT !.sync_bit = 3] EXCEPT
                                  !.recv_so_far = IF F!Accepts(u, k) THEN k.id
                                                  ELSE IF F!LostAck(u, k) THEN @ + 1 ELSE @]
        BY <1>8 DEF F!Counted
      <3> HIDE DEF v
      <3>5. F!Counted(u, k) = Connected(v, n)
        BY <3>1, <3>3, <3>4 DEF Connected, F!IsDst, F!DstFields
      <3> QED BY <3>5 DEF v
    <2>6. Connected(F!Cancel(d), n) = Connected(F!Cancel(u), n)
      BY <1>1, <1>2, CancelAt
    <2>7. w = F!Counted(u, k)
      BY <2>2, <2>3, <2>5, <2>6 DEF w
    <2>8. /\ g.flag = (IF F!LostAck(u, k) THEN 0 ELSE 1)
          /\ F!LostAck(u, k) => g.write = F!Accepts(u, k)
      <3>1. p.id > c.recv_so_far <=> p.id > h.recv_so_far + 1
        BY <1>0, <1>1
      <3>2. g.flag = (IF F!LostAck(u, k) THEN 0 ELSE 1)
        BY <2>2, <2>3, <2>4, <3>1
      <3>3. ASSUME F!LostAck(u, k) PROVE g.write = F!Accepts(u, k)
        <4>1. p.id # h.recv_so_far + 1 /\ p.id > h.recv_so_far + 1 /\ c.recv_so_far = h.recv_so_far
          BY <1>0, <1>1, <2>4, <3>3
        <4>2. F!Accepts(u, k) \in BOOLEAN /\ (F!Accepts(u, k) <=> p.id = h.recv_so_far + 2)
          BY <2>4, <4>1 DEF F!Accepts
        <4>3. g.write = (p.id = h.recv_so_far + 2)
          <5>1. c.write = FALSE
            BY <1>0, <1>1, <4>1
          <5>2. p.id > c.recv_so_far /\ (p.id = c.recv_so_far + 2) = (p.id = h.recv_so_far + 2)
            BY <1>0, <4>1
          <5>3. g.write = (c.write \/ (p.id > c.recv_so_far /\ p.id = c.recv_so_far + 2))
            BY <2>2, <2>3
          <5> QED BY ONLY <5>1, <5>2, <5>3
        <4> QED BY <4>2, <4>3
      <3> QED BY <3>2, <3>3
    <2>9. ~(h.sync_bit = 1 /\ p.sync_bit = 1)
      BY <2>1
    <2> QED BY <1>4, <1>8, <2>2, <2>3, <2>7, <2>8, <2>9 DEF Connects, g, u, w, c, k
  <1> QED BY <1>7, <1>8

\* Where the run ends that Transfer finds.
LEMMA RunSeenEnds ==
    ASSUME NEW t, NEW h, Takes(h, t), NEW q, NEW file, NEW last \in Nat, h.recv_so_far =< last,
           DOMAIN h.recv_window \subseteq 0..last
    PROVE  RunEnd(h) \in 0..last /\ F!RunEnd(DstOf(h, t, q, file), RunEnd(h))
  <1> DEFINE u == DstOf(h, t, q, file)
             n == RunEnd(h)
  <1>1. h.recv_so_far \in Nat /\ IsFiniteSet(DOMAIN h.recv_window)
    BY DEF Takes, Body, Receiving
  <1>2. /\ n \in Nat /\ h.recv_so_far =< n
        /\ h.recv_so_far+1 .. n \subseteq DOMAIN h.recv_window /\ n + 1 \notin DOMAIN h.recv_window
    BY <1>1, RunEndIs
  <1>3. u.recv_so_far = h.recv_so_far /\ DOMAIN u.recv_window = DOMAIN h.recv_window
    BY DEF DstOf, Window
  <1> HIDE DEF u, n
  <1>4. F!RunEnd(u, n)
    BY <1>1, <1>2, <1>3 DEF F!RunEnd
  <1>5. n =< last
    <2>1. CASE n = h.recv_so_far
      BY <2>1
    <2>2. CASE n # h.recv_so_far
      <3>1. n \in h.recv_so_far+1 .. n
        BY <1>1, <1>2, <2>2
      <3>2. n \in 0..last
        BY <1>2, <3>1
      <3> QED BY <3>2
    <2> QED BY <2>1, <2>2
  <1> QED BY <1>2, <1>4, <1>5 DEF u, n

\* The five kinds of Fdtp's arrivals at its destination.
SynSeen(u, k, w)  == /\ u.term_bit = 0 /\ k.sync_bit = 1 /\ u.sync_bit = 1
                     /\ w = F!Arm(F!SendAck(Opened(F!Counted(u, k))), 1)
AckSeen(u, k, w)  == F!Completes(u, k) /\ ~F!LostAck(u, k) /\ w = F!Counted(u, k)
DataSeen(u, k, w) == /\ u.sync_bit = 3 \/ F!LostAck(u, k)
                     /\ k.FIN = 0
                     /\ \E n \in 0..F!FinId : /\ F!RunEnd(F!Counted(u, k), n)
                                              /\ w = F!RecvWindowSync(F!Counted(u, k), k, F!Accepts(u, k), n)
FinSeen(u, k, w)  == /\ u.sync_bit = 3 \/ F!LostAck(u, k)
                     /\ k.FIN = 1 /\ u.term_bit # 2
                     /\ w = FinAnswer(F!Counted(u, k), k)
NoneSeen(u, k, w) == /\ ~F!Completes(u, k)
                     /\ u.sync_bit = 3 => k.FIN = 1 /\ u.term_bit = 2
                     /\ u.sync_bit = 1 => k.sync_bit # 1
                     /\ w = F!Counted(u, k)

\* receive() on the destination is one of Fdtp's events.
LEMMA DestinationReceives ==
    ASSUME NEW t \in Nat \ {0}, NEW h, Takes(h, t), Armed(h), Idle(h), Timed(h),
           h.sync_bit # 3 => h.term_bit = 0, h.sync_bit # 2 => h.retrans_bit = 0, h.text = <<>>,
           h.recv_so_far =< F!FinId, DOMAIN h.recv_window \subseteq 0..F!FinId,
           NEW q \in Seq(Back), NEW file \in Seq(Nat), NEW p, FromA(p), p.id =< F!FinId, NEW window
    PROVE  LET g == Receive(h, p, window)
               u == DstOf(h, t, q, file)
               w == DstOf(g, t, q, file)
               k == ToDst(p)
           IN  /\ Takes(g, t) /\ Timed(g)
               /\ \/ SynSeen(u, k, w) \/ AckSeen(u, k, w) \/ DataSeen(u, k, w)
                  \/ FinSeen(u, k, w) \/ NoneSeen(u, k, w)
  <1> DEFINE c == Connect(Count(h, p), p)
             g == Receive(h, p, window)
             u == DstOf(h, t, q, file)
             d == DstOf(c, t, q, file)
             w == DstOf(g, t, q, file)
             k == ToDst(p)
             syn == h.sync_bit = 1 /\ p.sync_bit = 1
  <1>0. /\ p \in PacketType /\ p.ACK = 0 /\ p.sync_bit \in {1, 3} /\ p.FIN \in 0..1 /\ p.id \in Nat
        /\ h.sync_bit \in 1..3 /\ h.term_bit \in 0..2 /\ h.recv_so_far \in Nat
    BY DEF FromA, PacketType, Takes, Body, Names, Receiving
  <1>1. /\ Takes(c, t) /\ Timed(c) /\ c.term_bit = h.term_bit /\ c.text = h.text
        /\ syn => c.sync_bit = 2 /\ d = F!Arm(F!SendAck(Opened(F!Counted(u, k))), 1)
        /\ ~syn => d = F!Counted(u, k)
        /\ F!Completes(u, k) =>
              /\ c.sync_bit = 3 /\ c.retrans_bit = 0 /\ c.flag = (IF F!LostAck(u, k) THEN 0 ELSE 1)
              /\ F!LostAck(u, k) => c.write = F!Accepts(u, k)
        /\ ~syn /\ ~F!Completes(u, k) =>
              /\ c.sync_bit = h.sync_bit /\ c.retrans_bit = h.retrans_bit /\ c.flag = 0
              /\ c.write = F!Accepts(u, k)
    <2>1. Takes(c, t) /\ Timed(c) /\ Connects(h, c, p, u, d, k)
      BY DestinationConnects
    <2> HIDE DEF c, u, d, k
    <2> QED BY <2>1 DEF Connects, syn
  <1>2. /\ u.sync_bit = h.sync_bit /\ u.term_bit = h.term_bit /\ u.recv_so_far = h.recv_so_far
        /\ d.recv_so_far = c.recv_so_far
    BY DEF DstOf
  <1>3. k.id = p.id /\ k.sync_bit = p.sync_bit /\ k.FIN = p.FIN
    BY DEF ToDst
  <1>4. /\ g = Transfer(c, p, window) /\ c.sender = FALSE
        /\ DOMAIN c.recv_window = DOMAIN h.recv_window
    <2>1. g = Transfer(c, p, window)
      BY DEF Receive
    <2>2. c.sender = FALSE
      BY <1>1 DEF Takes, DstRole
    <2>3. DOMAIN d.recv_window = DOMAIN c.recv_window /\ DOMAIN u.recv_window = DOMAIN h.recv_window
      BY DEF DstOf, Window
    <2>4. DOMAIN d.recv_window = DOMAIN u.recv_window
      <3>1. F!IsDst(u)
        BY DstIsDst
      <3> HIDE DEF u, d, k
      <3>2. F!IsDst(F!Counted(u, k)) /\ F!Counted(u, k).recv_window = u.recv_window
        BY <3>1 DEF F!Counted, F!Cancel, F!IsDst, F!DstFields
      <3> DEFINE x == F!Counted(u, k)
      <3>3. F!IsDst(x) /\ x.recv_window = u.recv_window
        BY <3>2
      <3>4. syn => d = F!Arm(F!SendAck(Opened(x)), 1)
        BY <1>1
      <3>5. ~syn => d = x
        BY <1>1
      <3> HIDE DEF x, syn
      <3>6. F!Arm(F!SendAck(Opened(x)), 1).recv_window = u.recv_window
        BY <3>3 DEF F!Arm, F!SendAck, F!Reply, F!Send, Opened, F!IsDst, F!DstFields
      <3> QED BY <3>3, <3>4, <3>5, <3>6
    <2> QED BY <2>1, <2>2, <2>3, <2>4
  <1> HIDE DEF c, d, u, k, g
  <1>5. CASE syn
    <2>1. g = c
      BY <1>1, <1>4, <1>5 DEF Transfer
    <2>2. w = d
      BY <2>1 DEF d
    <2> HIDE DEF w
    <2>3. SynSeen(u, k, w)
      BY <1>1, <1>2, <1>3, <1>5, <2>2 DEF SynSeen
    <2> QED BY <1>1, <2>1, <2>3 DEF g, u, w, k
  <1> HIDE DEF w
  <1>6. CASE ~syn /\ F!Completes(u, k) /\ ~F!LostAck(u, k)
    <2>1. g = c
      BY <1>1, <1>4, <1>6 DEF Transfer
    <2>2. w = d
      BY <2>1 DEF d, w
    <2>3. AckSeen(u, k, w)
      BY <1>1, <1>6, <2>2 DEF AckSeen
    <2> QED BY <1>1, <2>1, <2>3 DEF g, u, w, k
  <1>7. CASE ~syn /\ ~F!Completes(u, k) /\ h.sync_bit # 3
    <2>1. g = c
      BY <1>1, <1>4, <1>7 DEF Transfer
    <2>2. w = d
      BY <2>1 DEF d, w
    <2>3. NoneSeen(u, k, w)
      BY <1>1, <1>2, <1>3, <1>7, <2>2 DEF NoneSeen
    <2> QED BY <1>1, <2>1, <2>3 DEF g, u, w, k
  <1>8. CASE ~syn /\ (h.sync_bit = 3 \/ F!LostAck(u, k))
    <2>1. /\ c.sync_bit = 3 /\ c.retrans_bit = 0 /\ c.flag = 0 /\ c.write = F!Accepts(u, k)
          /\ d = F!Counted(u, k) /\ c.text = <<>>
      <3>1. F!LostAck(u, k) => F!Completes(u, k)
        BY DEF F!LostAck
      <3>2. h.sync_bit = 3 => ~F!Completes(u, k)
        BY <1>2 DEF F!Completes
      <3> QED BY <1>1, <1>8, <3>1, <3>2
    <2>2. u.sync_bit = 3 \/ F!LostAck(u, k)
      BY <1>2, <1>8
    <2>3. CASE p.FIN = 0
      <3> DEFINE r == RecvWindowSync(c, p)
                 n == RunEnd(c)
      <3>1. g = r
        BY <1>4, <2>1, <2>3 DEF Transfer
      <3>2. /\ F!RecvWindowSync(d, k, c.write, n) = DstOf(r, t, q, file)
            /\ Takes(r, t) /\ Same(r, c, Received)
        <4>1. LET s == RecvWindowSync(c, p)
              IN  /\ F!RecvWindowSync(DstOf(c, t, q, file), ToDst(p), c.write, RunEnd(c)) = DstOf(s, t, q, file)
                  /\ Takes(s, t) /\ Same(s, c, Received)
          BY <1>0, <1>1, <2>1, RecvWindowSyncSeen
        <4> HIDE DEF n
        <4> QED BY <4>1 DEF d, k, n
      <3>3. n \in 0..F!FinId /\ F!RunEnd(d, n)
        <4>1. c.recv_so_far =< F!FinId
          <5>1. c.recv_so_far = F!Counted(u, k).recv_so_far
            BY <1>2, <2>1
          <5>2. F!Counted(u, k).recv_so_far
                   = IF F!Accepts(u, k) THEN k.id
                     ELSE IF F!LostAck(u, k) THEN h.recv_so_far + 1 ELSE h.recv_so_far
            <6>1. F!IsDst(u)
              BY DstIsDst DEF u
            <6> QED BY <1>2, <6>1 DEF F!Counted, F!Cancel, F!IsDst, F!DstFields
          <5>3. F!LostAck(u, k) => p.id > h.recv_so_far + 1
            BY <1>2, <1>3 DEF F!LostAck
          <5>4. F!FinId \in Nat
            BY ChunksAssumption DEF F!FinId
          <5> QED BY <1>0, <1>3, <5>1, <5>2, <5>3, <5>4
        <4>2. F!FinId \in Nat /\ DOMAIN c.recv_window \subseteq 0..F!FinId
          BY <1>4, ChunksAssumption DEF F!FinId
        <4>3. RunEnd(c) \in 0..F!FinId /\ F!RunEnd(DstOf(c, t, q, file), RunEnd(c))
          BY <1>1, <4>1, <4>2, RunSeenEnds
        <4> HIDE DEF n
        <4> QED BY <4>3 DEF d, n
      <3> HIDE DEF r, n
      <3>4. w = F!RecvWindowSync(F!Counted(u, k), k, F!Accepts(u, k), n)
        BY <2>1, <3>1, <3>2 DEF w
      <3>5. DataSeen(u, k, w)
        BY <1>3, <2>1, <2>2, <2>3, <3>3, <3>4 DEF DataSeen
      <3>6. Timed(g)
        <4>1. g.retrans = c.retrans /\ g.retrans_bit = c.retrans_bit /\ g.timers = c.timers
          BY <3>1, <3>2 DEF Same, Members, Received
        <4> QED BY <1>1, <4>1 DEF Timed
      <3> QED BY <3>1, <3>2, <3>5, <3>6 DEF g, u, w, k
    <2>4. CASE p.FIN = 1 /\ h.term_bit # 2
      <3> DEFINE r == ReceiveFin(c, p)
      <3>1. g = r
        BY <1>0, <1>4, <2>1, <2>4 DEF Transfer
      <3>2. /\ DstOf(r, t, q, file) = FinAnswer(d, p)
            /\ Takes(r, t) /\ Same(r, c, Finished)
        <4>1. c.term_bit # 2 /\ Takes(c, t) /\ c.sync_bit = 3
          BY <1>1, <2>1, <2>4
        <4>2. p \in PacketType /\ t \in Nat
          BY <1>0
        <4> HIDE DEF c
        <4>3. /\ DstOf(r, t, q, file) = FinAnswer(DstOf(c, t, q, file), p)
              /\ Takes(r, t) /\ Same(r, c, Finished)
          <5>1. FinTaken(c, t, q, file, p)
            BY <4>1, <4>2, ReceiveFinSeen
          <5> QED BY ONLY <5>1 DEF FinTaken, r
        <4> HIDE DEF r
        <4> QED BY ONLY <4>3 DEF d
      <3> HIDE DEF r
      <3>3. FinSeen(u, k, w)
        BY <1>2, <1>3, <2>1, <2>2, <2>4, <3>1, <3>2 DEF FinSeen, FinAnswer, w
      <3>4. Timed(g)
        <4>1. g.retrans = c.retrans /\ g.retrans_bit = c.retrans_bit /\ g.timers = c.timers
          BY <3>1, <3>2 DEF Same, Members, Finished
        <4> QED BY <1>1, <4>1 DEF Timed
      <3> QED BY <3>1, <3>2, <3>3, <3>4 DEF g, u, w, k
    <2>5. CASE p.FIN = 1 /\ h.term_bit = 2
      <3>1. g = c
        <4>1. ReceiveFin(c, p) = c
          BY <1>1, <2>5 DEF ReceiveFin
        <4> QED BY <1>0, <1>4, <2>1, <2>5, <4>1 DEF Transfer
      <3>2. w = d
        BY <3>1 DEF d, w
      <3>3. NoneSeen(u, k, w)
        <4>1. ~F!Completes(u, k)
          BY <1>2, <2>5 DEF F!Completes
        <4>2. h.sync_bit = 3
          BY <2>5
        <4> QED BY <1>2, <1>3, <2>1, <2>5, <3>2, <4>1, <4>2 DEF NoneSeen
      <3> QED BY <1>1, <3>1, <3>3 DEF g, u, w, k
    <2> QED BY <1>0, <2>3, <2>4, <2>5
  <1> QED BY <1>5, <1>6, <1>7, <1>8

\* The SYN-ACK's timer.
LEMMA DestinationExpires ==
    ASSUME NEW t \in Nat \ {0}, NEW h, Takes(h, t), h.timers = EmptyBag, h.retrans = t,
           h.retrans_bit = 1, h.sync_bit = 2, NEW q \in Seq(Back), NEW file
    PROVE  LET g == HandleTimer(h)
           IN  /\ DstOf(g, t, q, file) = F!SendAck(F!Arm(DstOf(h, t, q, file), 1))
               /\ Takes(g, t) /\ Timed(g)
  <1> DEFINE s == Set(h, 1)
             g == Send(s, Control(s))
             u == DstOf(h, t, q, file)
             x == DstOf(s, t, q, file)
  <1>1. h.clock = t /\ DOMAIN h = Members
    BY DEF Takes, Body, Names
  <1>2. HandleTimer(h) = g
    BY <1>1 DEF HandleTimer
  <1>3. F!Arm(u, 1) = x /\ Takes(s, t) /\ Timed(s)
    BY DstSetSeen
  <1>4. s.sync_bit = 2 /\ s.sync_bit # 1
    BY <1>1 DEF Set, Members
  <1> HIDE DEF s
  <1>5. F!SendAck(x) = DstOf(g, t, q, file) /\ Takes(g, t) /\ Same(g, s, {"out"})
    BY <1>3, <1>4, ControlReply
  <1> HIDE DEF g, x, u
  <1>6. Timed(g)
    BY <1>3, <1>5 DEF Timed, Same, Members
  <1> QED BY <1>2, <1>3, <1>5, <1>6 DEF u

\* A destination that a flow has just reset.
LEMMA DestinationStarts ==
    ASSUME NEW t \in Nat, NEW h, Body(h, t, Only(A)), h.address = B, h.timers = EmptyBag,
           DOMAIN h.dest_map = {}, h.out = NothingOut, h.text = <<>>
    PROVE  LET g == BecomeDestination(h, 1)
           IN  /\ DstOf(g, t, <<>>, <<>>) = F!FreshDst
               /\ Body(g, t, Only(A)) /\ DstRole(g) /\ Timed(g) /\ g.out = NothingOut /\ g.text = <<>>
               /\ g.address = B /\ g.retrans_bit = 0
  <1> DEFINE r == Reset(h)
             g == BecomeDestination(h, 1)
             v == DstOf(g, t, <<>>, <<>>)
  <1>1. DOMAIN h = Members
    BY DEF Body, Names
  <1>2. /\ Body(r, t, Only(A)) /\ Same(r, h, ResetMembers)
        /\ r.sync_bit = 1 /\ r.term_bit = 0 /\ r.retrans_bit = 0 /\ r.retrans = 0
    BY ResetLemma
  <1>3. r.recv_so_far = 0 /\ r.recv_window = <<>> /\ r.ter_seq = MAX_QUEUE /\ r.sender = FALSE
    BY <1>1 DEF Reset, Members
  <1>4. g = [r EXCEPT !.out_file = 1]
    BY DEF BecomeDestination
  <1> HIDE DEF r, g
  <1>5. Same(g, r, {"out_file"}) /\ g.out_file = 1 /\ DOMAIN r = Members
    BY <1>1, <1>2, <1>4 DEF Same, Members
  <1>6. Body(g, t, Only(A))
    <2>1. Plain(r, t, Only(A))
      BY <1>2, PlainBody
    <2>2. /\ g.destination = r.destination /\ g.sync_bit = r.sync_bit /\ g.retrans = r.retrans
          /\ g.retrans_bit = r.retrans_bit /\ g.sent_so_far = r.sent_so_far
          /\ g.recv_so_far = r.recv_so_far /\ g.term_bit = r.term_bit /\ g.estimate = r.estimate
          /\ g.last_transmit = r.last_transmit /\ g.died = r.died /\ g.window_size = r.window_size
      BY <1>5 DEF Same, Members
    <2>3. Plain(g, t, Only(A))
      BY <2>1, <2>2 DEF Plain
    <2>4. Same(g, r, Simple)
      BY <1>5 DEF Same, Simple
    <2> QED BY <1>2, <2>2, <2>3, <2>4, UpdateBody
  <1>7. /\ g.sync_bit = 1 /\ g.term_bit = 0 /\ g.retrans_bit = 0 /\ g.retrans = 0
        /\ g.recv_so_far = 0 /\ g.recv_window = <<>> /\ g.ter_seq = MAX_QUEUE /\ g.sender = FALSE
    BY <1>2, <1>3, <1>5 DEF Same, Members
  <1>8. /\ g.address = B /\ g.timers = EmptyBag /\ g.dest_map = h.dest_map /\ g.out = NothingOut
        /\ g.text = <<>>
    BY <1>2, <1>5 DEF Same, Members, ResetMembers
  <1>9. DstRole(g) /\ Timed(g)
    BY <1>5, <1>7, <1>8 DEF DstRole, Timed
  <1>10. v = F!FreshDst
    <2>1. g.out[A] = <<>>
      BY <1>8, TheFlow DEF NothingOut
    <2>2. ToSrcs(g.out[A]) = <<>> /\ Numbers(g.text) = <<>> /\ Window(g.recv_window) = <<>>
      BY <1>7, <1>8, <2>1 DEF ToSrcs, Numbers, Window
    <2>3. <<>> \o ToSrcs(g.out[A]) = <<>> /\ <<>> \o Numbers(g.text) = <<>>
      BY <2>2
    <2>4. BagCardinality(g.timers) = 0 /\ Running(g, t) = FALSE
      BY <1>7, <1>8, CountNone DEF Running
    <2> QED BY <1>7, <2>2, <2>3, <2>4 DEF DstOf, F!FreshDst
  <1> HIDE DEF v
  <1> QED BY <1>6, <1>7, <1>8, <1>9, <1>10 DEF v, g

---------------------------------------------------------------------------
(* What is on its way.                                                     *)

Cargo(path) == [j \in DOMAIN path |-> path[j].packet]

Stamped(s, n) == [j \in DOMAIN s |-> [at |-> n + Latency, packet |-> s[j]]]

\* The packets of a path.
LEMMA CargoType ==
    ASSUME NEW path \in Seq(Sent)
    PROVE  Cargo(path) \in Seq(PacketType) /\ Len(Cargo(path)) = Len(path)
  <1>1. DOMAIN path = 1..Len(path) /\ Len(path) \in Nat /\ \A j \in 1..Len(path) : path[j] \in Sent
    OBVIOUS
  <1>2. \A j \in 1..Len(path) : path[j].packet \in PacketType
    BY <1>1 DEF Sent
  <1> QED BY <1>1, <1>2 DEF Cargo

LEMMA StampedType ==
    ASSUME NEW s \in Seq(PacketType), NEW n \in Nat
    PROVE  /\ Stamped(s, n) \in Seq(Sent) /\ Len(Stamped(s, n)) = Len(s)
           /\ \A j \in 1..Len(s) : Stamped(s, n)[j].packet = s[j]
  <1> DEFINE v == Stamped(s, n)
  <1>1. DOMAIN s = 1..Len(s) /\ Len(s) \in Nat /\ \A j \in 1..Len(s) : s[j] \in PacketType
    OBVIOUS
  <1>2. n + Latency \in Nat \ {0}
    BY TimesAssumption
  <1>3. DOMAIN v = 1..Len(s) /\ \A j \in 1..Len(s) : v[j] \in Sent /\ v[j].packet = s[j]
    BY <1>1, <1>2 DEF Sent, Stamped
  <1>4. v = [j \in 1..Len(s) |-> v[j]]
    BY <1>1 DEF Stamped
  <1> HIDE DEF v
  <1>5. v \in Seq(Sent)
    BY <1>1, <1>3, <1>4
  <1> QED BY <1>1, <1>3, <1>5 DEF v

LEMMA CargoGrows ==
    ASSUME NEW path \in Seq(Sent), NEW s \in Seq(PacketType), NEW n \in Nat
    PROVE  /\ path \o Stamped(s, n) \in Seq(Sent)
           /\ Cargo(path \o Stamped(s, n)) = Cargo(path) \o s
  <1> DEFINE v == Stamped(s, n)
             r == path \o v
             x == Cargo(path)
             z == Cargo(r)
  <1>1. /\ v \in Seq(Sent) /\ Len(v) = Len(s) /\ Len(s) \in Nat /\ Len(path) \in Nat
        /\ \A j \in 1..Len(s) : v[j].packet = s[j]
    BY StampedType
  <1> HIDE DEF v
  <1>2. /\ r \in Seq(Sent) /\ Len(r) = Len(path) + Len(s)
        /\ \A j \in 1..Len(path) + Len(s) : r[j] = IF j =< Len(path) THEN path[j] ELSE v[j - Len(path)]
    <2>1. path \in Seq(Sent) /\ v \in Seq(Sent)
      BY <1>1
    <2>2. /\ r \in Seq(Sent) /\ Len(r) = Len(path) + Len(v)
          /\ \A j \in 1..Len(path) + Len(v) : r[j] = IF j =< Len(path) THEN path[j] ELSE v[j - Len(path)]
      BY ONLY <2>1, ConcatAt
    <2> QED BY <1>1, <2>2
  <1>3. x \in Seq(PacketType) /\ Len(x) = Len(path) /\ z \in Seq(PacketType) /\ Len(z) = Len(r)
    BY <1>2, CargoType
  <1>4. /\ x \o s \in Seq(PacketType) /\ Len(x \o s) = Len(path) + Len(s)
        /\ \A j \in 1..Len(path) + Len(s) : (x \o s)[j] = IF j =< Len(path) THEN x[j] ELSE s[j - Len(path)]
    <2>1. /\ x \o s \in Seq(PacketType) /\ Len(x \o s) = Len(x) + Len(s)
          /\ \A j \in 1..Len(x) + Len(s) : (x \o s)[j] = IF j =< Len(x) THEN x[j] ELSE s[j - Len(x)]
      BY <1>3, ConcatAt
    <2> QED BY <1>3, <2>1
  <1>5. ASSUME NEW j \in 1..Len(path) + Len(s) PROVE z[j] = (x \o s)[j]
    <2>1. DOMAIN r = 1..Len(path) + Len(s) /\ DOMAIN path = 1..Len(path)
      BY <1>2
    <2>2. z[j] = r[j].packet
      BY <2>1 DEF Cargo
    <2>3. j =< Len(path) => x[j] = path[j].packet
      BY <2>1 DEF Cargo
    <2>4. ~(j =< Len(path)) => v[j - Len(path)].packet = s[j - Len(path)]
      BY <1>1
    <2> QED BY <1>2, <1>4, <2>2, <2>3, <2>4
  <1> HIDE DEF x, z, r
  <1>6. z = x \o s
    BY <1>2, <1>3, <1>4, <1>5, SeqEqual
  <1> QED BY <1>2, <1>6 DEF x, z, r, v

\* The first packet of a path is taken.
LEMMA CargoTail ==
    ASSUME NEW path \in Seq(Sent), path # <<>>
    PROVE  /\ Tail(path) \in Seq(Sent) /\ Cargo(path) # <<>>
           /\ Head(Cargo(path)) = Head(path).packet /\ Head(path) \in Sent
           /\ Cargo(Tail(path)) = Tail(Cargo(path))
  <1> DEFINE c == Cargo(path)
             y == Tail(path)
             z == Cargo(y)
  <1>1. /\ y \in Seq(Sent) /\ Len(y) = Len(path) - 1 /\ DOMAIN y = 1..Len(path) - 1
        /\ \A j \in 1..Len(path) - 1 : y[j] = path[j + 1]
        /\ Len(path) \in Nat \ {0} /\ DOMAIN path = 1..Len(path) /\ Head(path) = path[1]
        /\ path[1] \in Sent
    OBVIOUS
  <1>2. c \in Seq(PacketType) /\ Len(c) = Len(path) /\ z \in Seq(PacketType) /\ Len(z) = Len(path) - 1
    BY <1>1, CargoType
  <1>3. c[1] = path[1].packet /\ \A j \in 1..Len(path) - 1 : c[j + 1] = path[j + 1].packet
    BY <1>1 DEF Cargo
  <1>4. \A j \in 1..Len(path) - 1 : z[j] = y[j].packet
    BY <1>1 DEF Cargo
  <1> HIDE DEF c, y, z
  <1>5. /\ c # <<>> /\ Head(c) = c[1] /\ Tail(c) \in Seq(PacketType) /\ Len(Tail(c)) = Len(path) - 1
        /\ \A j \in 1..Len(path) - 1 : Tail(c)[j] = c[j + 1]
    BY <1>1, <1>2
  <1>6. \A j \in 1..Len(path) - 1 : z[j] = Tail(c)[j]
    BY <1>1, <1>3, <1>4, <1>5
  <1>7. z = Tail(c)
    BY <1>1, <1>2, <1>5, <1>6, SeqEqual
  <1> QED BY <1>1, <1>3, <1>5, <1>7 DEF c, y, z

LEMMA ToDstsTail ==
    ASSUME NEW s \in Seq(PacketType), s # <<>>
    PROVE  ToDsts(s) # <<>> /\ Head(ToDsts(s)) = ToDst(Head(s)) /\ Tail(ToDsts(s)) = ToDsts(Tail(s))
  <1> DEFINE c == ToDsts(s)
             y == Tail(s)
             z == ToDsts(y)
  <1>1. /\ y \in Seq(PacketType) /\ Len(y) = Len(s) - 1 /\ DOMAIN y = 1..Len(s) - 1
        /\ \A j \in 1..Len(s) - 1 : y[j] = s[j + 1]
        /\ Len(s) \in Nat \ {0} /\ DOMAIN s = 1..Len(s) /\ Head(s) = s[1]
    OBVIOUS
  <1>2. c \in Seq(Wire) /\ Len(c) = Len(s) /\ z \in Seq(Wire) /\ Len(z) = Len(s) - 1
    BY <1>1, ToDstsType
  <1>3. c[1] = ToDst(s[1]) /\ \A j \in 1..Len(s) - 1 : c[j + 1] = ToDst(s[j + 1])
    BY <1>1 DEF ToDsts
  <1>4. \A j \in 1..Len(s) - 1 : z[j] = ToDst(y[j])
    BY <1>1 DEF ToDsts
  <1> HIDE DEF c, y, z
  <1>5. /\ c # <<>> /\ Head(c) = c[1] /\ Tail(c) \in Seq(Wire) /\ Len(Tail(c)) = Len(s) - 1
        /\ \A j \in 1..Len(s) - 1 : Tail(c)[j] = c[j + 1]
    BY <1>1, <1>2
  <1>6. \A j \in 1..Len(s) - 1 : z[j] = Tail(c)[j]
    BY <1>1, <1>3, <1>4, <1>5
  <1>7. z = Tail(c)
    BY <1>1, <1>2, <1>5, <1>6, SeqEqual
  <1> QED BY <1>1, <1>3, <1>5, <1>7 DEF c, y, z

LEMMA ToSrcsTail ==
    ASSUME NEW s \in Seq(PacketType), s # <<>>
    PROVE  ToSrcs(s) # <<>> /\ Head(ToSrcs(s)) = ToSrc(Head(s)) /\ Tail(ToSrcs(s)) = ToSrcs(Tail(s))
  <1> DEFINE c == ToSrcs(s)
             y == Tail(s)
             z == ToSrcs(y)
  <1>1. /\ y \in Seq(PacketType) /\ Len(y) = Len(s) - 1 /\ DOMAIN y = 1..Len(s) - 1
        /\ \A j \in 1..Len(s) - 1 : y[j] = s[j + 1]
        /\ Len(s) \in Nat \ {0} /\ DOMAIN s = 1..Len(s) /\ Head(s) = s[1]
    OBVIOUS
  <1>2. c \in Seq(Back) /\ Len(c) = Len(s) /\ z \in Seq(Back) /\ Len(z) = Len(s) - 1
    BY <1>1, ToSrcsType
  <1>3. c[1] = ToSrc(s[1]) /\ \A j \in 1..Len(s) - 1 : c[j + 1] = ToSrc(s[j + 1])
    BY <1>1 DEF ToSrcs
  <1>4. \A j \in 1..Len(s) - 1 : z[j] = ToSrc(y[j])
    BY <1>1 DEF ToSrcs
  <1> HIDE DEF c, y, z
  <1>5. /\ c # <<>> /\ Head(c) = c[1] /\ Tail(c) \in Seq(Back) /\ Len(Tail(c)) = Len(s) - 1
        /\ \A j \in 1..Len(s) - 1 : Tail(c)[j] = c[j + 1]
    BY <1>1, <1>2
  <1>6. \A j \in 1..Len(s) - 1 : z[j] = Tail(c)[j]
    BY <1>1, <1>3, <1>4, <1>5
  <1>7. z = Tail(c)
    BY <1>1, <1>2, <1>5, <1>6, SeqEqual
  <1> QED BY <1>1, <1>3, <1>5, <1>7 DEF c, y, z

LEMMA ToSrcsConcat ==
    ASSUME NEW s \in Seq(PacketType), NEW r \in Seq(PacketType)
    PROVE  ToSrcs(s \o r) = ToSrcs(s) \o ToSrcs(r)
  <1> DEFINE x == ToSrcs(s)
             y == ToSrcs(r)
             z == ToSrcs(s \o r)
  <1>1. /\ s \o r \in Seq(PacketType) /\ Len(s \o r) = Len(s) + Len(r)
        /\ \A j \in 1..Len(s) + Len(r) : (s \o r)[j] = IF j =< Len(s) THEN s[j] ELSE r[j - Len(s)]
    BY ConcatAt
  <1>2. /\ x \in Seq(Back) /\ Len(x) = Len(s) /\ y \in Seq(Back) /\ Len(y) = Len(r)
        /\ z \in Seq(Back) /\ Len(z) = Len(s) + Len(r)
    BY <1>1, ToSrcsType
  <1>3. ASSUME NEW j \in 1..Len(s) + Len(r)
        PROVE  z[j] = IF j =< Len(s) THEN x[j] ELSE y[j - Len(s)]
    <2>1. DOMAIN s = 1..Len(s) /\ DOMAIN r = 1..Len(r) /\ DOMAIN (s \o r) = 1..Len(s) + Len(r)
      BY <1>1
    <2>2. z[j] = ToSrc((s \o r)[j])
      BY <2>1 DEF ToSrcs
    <2>3. (j =< Len(s) => x[j] = ToSrc(s[j])) /\ (~(j =< Len(s)) => y[j - Len(s)] = ToSrc(r[j - Len(s)]))
      BY <2>1 DEF ToSrcs
    <2> QED BY <1>1, <2>2, <2>3
  <1> HIDE DEF x, y, z
  <1>4. z = x \o y
    <2>1. x \o y \in Seq(Back) /\ Len(x \o y) = Len(s) + Len(r)
          /\ \A j \in 1..Len(s) + Len(r) : (x \o y)[j] = IF j =< Len(s) THEN x[j] ELSE y[j - Len(s)]
      <3>0. x \in Seq(Back) /\ y \in Seq(Back)
        BY <1>2
      <3>1. /\ x \o y \in Seq(Back) /\ Len(x \o y) = Len(x) + Len(y)
            /\ \A j \in 1..Len(x) + Len(y) : (x \o y)[j] = IF j =< Len(x) THEN x[j] ELSE y[j - Len(x)]
        BY ONLY <3>0, ConcatAt
      <3> QED BY <1>2, <3>1
    <2> QED BY <1>2, <1>3, <2>1, SeqEqual
  <1> QED BY <1>4 DEF x, y, z

\* The chunk numbers of a longer copy.
LEMMA NumbersConcat ==
    ASSUME NEW s \in Seq(Payloads), NEW r \in Seq(Payloads)
    PROVE  /\ s \o r \in Seq(Payloads) /\ Numbers(s \o r) = Numbers(s) \o Numbers(r)
           /\ Numbers(s) \in Seq(Nat)
  <1> DEFINE x == Numbers(s)
             y == Numbers(r)
             z == Numbers(s \o r)
             T == Payloads
  <1>1. ASSUME NEW k \in Seq(T)
        PROVE  Numbers(k) \in Seq(Nat) /\ Len(Numbers(k)) = Len(k)
    <2>1. DOMAIN k = 1..Len(k) /\ \A j \in 1..Len(k) : k[j][2] \in Nat
      BY PayloadParts
    <2> QED BY <2>1 DEF Numbers
  <1> HIDE DEF T
  <1>2. /\ s \o r \in Seq(T) /\ Len(s \o r) = Len(s) + Len(r)
        /\ \A j \in 1..Len(s) + Len(r) : (s \o r)[j] = IF j =< Len(s) THEN s[j] ELSE r[j - Len(s)]
        /\ Len(s) \in Nat /\ Len(r) \in Nat /\ s \in Seq(T) /\ r \in Seq(T)
    <2>1. s \in Seq(T) /\ r \in Seq(T)
      BY DEF T
    <2>2. Len(s) \in Nat /\ Len(r) \in Nat
      OBVIOUS
    <2>3. /\ s \o r \in Seq(T) /\ Len(s \o r) = Len(s) + Len(r)
          /\ \A j \in 1..Len(s) + Len(r) : (s \o r)[j] = IF j =< Len(s) THEN s[j] ELSE r[j - Len(s)]
      BY ONLY <2>1, ConcatAt
    <2> QED BY <2>1, <2>2, <2>3
  <1>3. /\ x \in Seq(Nat) /\ Len(x) = Len(s) /\ y \in Seq(Nat) /\ Len(y) = Len(r)
        /\ z \in Seq(Nat) /\ Len(z) = Len(s) + Len(r)
    BY <1>1, <1>2
  <1>4. ASSUME NEW j \in 1..Len(s) + Len(r)
        PROVE  z[j] = IF j =< Len(s) THEN x[j] ELSE y[j - Len(s)]
    <2>1. DOMAIN s = 1..Len(s) /\ DOMAIN r = 1..Len(r) /\ DOMAIN (s \o r) = 1..Len(s) + Len(r)
      BY <1>2
    <2>2. z[j] = (s \o r)[j][2]
      BY <2>1 DEF Numbers
    <2>3. (j =< Len(s) => x[j] = s[j][2]) /\ (~(j =< Len(s)) => y[j - Len(s)] = r[j - Len(s)][2])
      BY <2>1 DEF Numbers
    <2> QED BY <1>2, <2>2, <2>3
  <1> HIDE DEF x, y, z
  <1>5. z = x \o y
    <2>1. x \o y \in Seq(Nat) /\ Len(x \o y) = Len(s) + Len(r)
          /\ \A j \in 1..Len(s) + Len(r) : (x \o y)[j] = IF j =< Len(s) THEN x[j] ELSE y[j - Len(s)]
      <3>0. x \in Seq(Nat) /\ y \in Seq(Nat)
        BY <1>3
      <3>1. /\ x \o y \in Seq(Nat) /\ Len(x \o y) = Len(x) + Len(y)
            /\ \A j \in 1..Len(x) + Len(y) : (x \o y)[j] = IF j =< Len(x) THEN x[j] ELSE y[j - Len(x)]
        BY ONLY <3>0, ConcatAt
      <3> QED BY <1>3, <3>1
    <2> QED BY <1>3, <1>4, <2>1, SeqEqual
  <1> QED BY <1>2, <1>3, <1>5 DEF x, y, z, T

---------------------------------------------------------------------------
(* The two hosts between two events.                                       *)

\* What the handlers leave: the members between two events, as the first part
\* of the invariant has them.
SrcRests(h, n) ==
    /\ Body(h, n, Only(B)) /\ SrcRole(h) /\ Reads(h) /\ Holds(h) /\ Timed(h)
    /\ h.retrans_bit # 0 => h.retrans > 0
    /\ h.out = NothingOut

DstRests(h, n) ==
    /\ Body(h, n, Only(A)) /\ DstRole(h) /\ Timed(h)
    /\ h.retrans_bit # 0 => h.retrans > 0
    /\ h.out = NothingOut /\ h.text = <<>>

\* The source, its packets on path, and the destination, its replies on path and
\* its copy, as Fdtp has them.
SrcSeen(h, n, path) == SrcOf(h, n, ToDsts(Cargo(path)))

DstSeen(h, n, path, copy) == DstOf(h, n, ToSrcs(Cargo(path)), Numbers(copy))

RestMembers == {"out", "text", "clock", "flag", "write"}

LEMMA NothingFor == NothingOut[A] = <<>> /\ NothingOut[B] = <<>>
  BY TheFlow DEF NothingOut

\* A path is seen in `out' alone.
LEMMA SrcOutOnly ==
    ASSUME NEW h, NEW n, NEW q, NEW s, NEW f \in F!SrcFields, f # "out"
    PROVE  SrcOf(h, n, q)[f] = SrcOf(h, n, s)[f]
  <1> DEFINE u == SrcOf(h, n, q)
             v == SrcOf(h, n, s)
  <1>1. /\ u.dest_map = v.dest_map /\ u.sync_bit = v.sync_bit /\ u.term_bit = v.term_bit
        /\ u.retrans = v.retrans /\ u.retrans_bit = v.retrans_bit /\ u.timers = v.timers
        /\ u.sent_so_far = v.sent_so_far /\ u.last_ack = v.last_ack
    BY DEF SrcOf
  <1>2. /\ u.chunk = v.chunk /\ u.sent_window = v.sent_window
        /\ u.packets_in_window = v.packets_in_window /\ u.window_size = v.window_size
        /\ u.retransmit_pkt = v.retransmit_pkt /\ u.dup_ack_count = v.dup_ack_count
    BY DEF SrcOf
  <1> HIDE DEF u, v
  <1>3. u[f] = v[f]
    BY <1>1, <1>2 DEF F!SrcFields
  <1> QED BY <1>3 DEF u, v

\* A handler of the source returns.
LEMMA SrcReturns ==
    ASSUME NEW n \in Nat, NEW g, Sends(g, n), Timed(g), g.retrans_bit # 0 => g.retrans > 0,
           NEW path \in Seq(Sent)
    PROVE  /\ SrcRests(Rest(g), n)
           /\ SrcSeen(Rest(g), n, path \o Stamped(g.out[B], n)) = SrcOf(g, n, ToDsts(Cargo(path)))
  <1> DEFINE r == Rest(g)
             c == Cargo(path)
             q == ToDsts(c)
             o == g.out[B]
             p == path \o Stamped(o, n)
  <1>1. /\ Body(r, n, Only(B)) /\ r.out = NothingOut /\ r.text = <<>> /\ Same(r, g, RestMembers)
        /\ Body(g, n, Only(B)) /\ SrcRole(g) /\ Reads(g) /\ Holds(g)
    BY RestBody DEF Sends, RestMembers
  <1>2. B \in Ends /\ r.out[B] = <<>>
    BY <1>1, TheFlow, NothingFor DEF Ends
  <1>3. o \in Seq(PacketType)
    BY <1>1, <1>2, OutType
  <1>4. c \in Seq(PacketType) /\ Cargo(p) = c \o o
    BY <1>3, CargoType, CargoGrows
  <1>5. q \in Seq(Wire) /\ ToDsts(o) \in Seq(Wire) /\ ToDsts(c \o o) = q \o ToDsts(o)
    <2>1. <<>> \in Seq(Wire)
      OBVIOUS
    <2>2. <<>> \o ToDsts(c \o o) = (<<>> \o ToDsts(c)) \o ToDsts(o)
      BY <1>3, <1>4, <2>1, ToDstsConcat
    <2>3. ToDsts(c) \in Seq(Wire) /\ ToDsts(o) \in Seq(Wire)
      BY <1>3, <1>4, ToDstsType
    <2>4. c \o o \in Seq(PacketType)
      BY <1>3, <1>4, ConcatAt
    <2>5. ToDsts(c \o o) \in Seq(Wire)
      BY <2>4, ToDstsType
    <2> HIDE DEF c, o
    <2>6. \A s \in Seq(Wire) : <<>> \o s = s
      OBVIOUS
    <2> QED BY <2>2, <2>3, <2>5, <2>6
  <1> HIDE DEF r
  <1>6. SrcRests(r, n)
    <2>1. SrcRole(r) /\ Timed(r) /\ (r.retrans_bit # 0 => r.retrans > 0)
      BY <1>1 DEF Same, Members, RestMembers, SrcRole, Timed
    <2>2. Reads(r)
      BY <1>1 DEF Same, Members, RestMembers, Reads
    <2>3. Holds(r)
      BY <1>1 DEF Same, Members, RestMembers, Holds
    <2> QED BY <1>1, <2>1, <2>2, <2>3 DEF SrcRests
  <1>7. SrcOf(r, n, q \o ToDsts(o)) = SrcOf(g, n, q)
    <2> DEFINE u == SrcOf(g, n, q)
               v == SrcOf(r, n, q \o ToDsts(o))
    <2>1. F!IsSrc(u) /\ F!IsSrc(v)
      BY SrcIsSrc
    <2>2. v.out = (q \o ToDsts(o)) \o ToDsts(r.out[B]) /\ u.out = q \o ToDsts(o)
      BY DEF SrcOf
    <2>3. ToDsts(r.out[B]) = <<>>
      BY <1>2 DEF ToDsts
    <2>4. v.out = u.out
      <3>1. q \o ToDsts(o) \in Seq(Wire)
        BY <1>5, ConcatAt
      <3>2. \A s \in Seq(Wire) : s \o <<>> = s
        OBVIOUS
      <3> QED BY <2>2, <2>3, <3>1, <3>2
    <2>5. ASSUME NEW f \in F!SrcFields, f # "out" PROVE v[f] = u[f]
      <3> DEFINE S == RestMembers
      <3>1. Member(f) \notin S
        BY <2>5 DEF Member, RestMembers, F!SrcFields
      <3>2. SrcOf(r, n, q)[f] = u[f]
        BY <1>1, <3>1, SrcStays
      <3>3. v[f] = SrcOf(r, n, q)[f]
        BY <2>5, SrcOutOnly
      <3> QED BY <3>2, <3>3
    <2> HIDE DEF u, v
    <2>6. u = v
      BY <2>1, <2>4, <2>5 DEF F!IsSrc
    <2> QED BY <2>6 DEF u, v
  <1> QED BY <1>4, <1>5, <1>6, <1>7 DEF SrcSeen, r

\* A handler of the destination returns.
LEMMA DstReturns ==
    ASSUME NEW n \in Nat, NEW g, Takes(g, n), Timed(g), g.retrans_bit # 0 => g.retrans > 0,
           NEW path \in Seq(Sent), NEW copy \in Seq(Payloads)
    PROVE  /\ DstRests(Rest(g), n)
           /\ DstSeen(Rest(g), n, path \o Stamped(g.out[A], n), copy \o g.text)
                 = DstOf(g, n, ToSrcs(Cargo(path)), Numbers(copy))
  <1> DEFINE r == Rest(g)
             c == Cargo(path)
             q == ToSrcs(c)
             o == g.out[A]
             p == path \o Stamped(o, n)
             e == Numbers(copy)
             d == Numbers(g.text)
  <1>1. /\ Body(r, n, Only(A)) /\ r.out = NothingOut /\ r.text = <<>> /\ Same(r, g, RestMembers)
        /\ Body(g, n, Only(A)) /\ DstRole(g) /\ g.text \in Seq(Payloads)
    BY RestBody DEF Takes, RestMembers, Writes
  <1>2. A \in Ends /\ r.out[A] = <<>>
    BY <1>1, TheFlow, NothingFor DEF Ends
  <1>3. o \in Seq(PacketType)
    BY <1>1, <1>2, OutType
  <1>4. c \in Seq(PacketType) /\ Cargo(p) = c \o o
    BY <1>3, CargoType, CargoGrows
  <1>5. q \in Seq(Back) /\ ToSrcs(o) \in Seq(Back) /\ ToSrcs(c \o o) = q \o ToSrcs(o)
    BY <1>3, <1>4, ToSrcsConcat, ToSrcsType
  <1>6. Numbers(copy \o g.text) = e \o d /\ e \in Seq(Nat) /\ d \in Seq(Nat)
    BY <1>1, NumbersConcat
  <1> HIDE DEF r
  <1>7. DstRests(r, n)
    <2>1. DstRole(r) /\ Timed(r) /\ (r.retrans_bit # 0 => r.retrans > 0)
      BY <1>1 DEF Same, Members, RestMembers, DstRole, Timed
    <2> QED BY <1>1, <2>1 DEF DstRests
  <1>8. DstOf(r, n, q \o ToSrcs(o), e \o d) = DstOf(g, n, q, e)
    <2> DEFINE u == DstOf(g, n, q, e)
               v == DstOf(r, n, q \o ToSrcs(o), e \o d)
    <2>1. F!IsDst(u) /\ F!IsDst(v)
      BY DstIsDst
    <2>2. /\ v.out = (q \o ToSrcs(o)) \o ToSrcs(r.out[A]) /\ u.out = q \o ToSrcs(o)
          /\ v.out_file = (e \o d) \o Numbers(r.text) /\ u.out_file = e \o d
      BY DEF DstOf
    <2>3. ToSrcs(r.out[A]) = <<>> /\ Numbers(r.text) = <<>>
      BY <1>1, <1>2 DEF ToSrcs, Numbers
    <2>4. v.out = u.out
      <3> DEFINE s == ToSrcs(o)
      <3>0. s \in Seq(Back)
        BY <1>5
      <3> HIDE DEF q, s
      <3>1. q \o s \in Seq(Back)
        BY <1>5, <3>0, ConcatAt
      <3>2. \A x \in Seq(Back) : x \o <<>> = x
        OBVIOUS
      <3> QED BY <2>2, <2>3, <3>1, <3>2 DEF s, q
    <2>5. v.out_file = u.out_file
      <3> HIDE DEF e, d
      <3>1. e \o d \in Seq(Nat)
        BY <1>6, ConcatAt
      <3>2. \A x \in Seq(Nat) : x \o <<>> = x
        OBVIOUS
      <3> QED BY <2>2, <2>3, <3>1, <3>2
    <2>6. ASSUME NEW f \in F!DstFields, f \notin {"out", "out_file"} PROVE v[f] = u[f]
      <3> DEFINE S == RestMembers
      <3>1. Shown(f) \notin S
        BY <2>6 DEF Shown, RestMembers, F!DstFields
      <3>2. DstOf(r, n, q, e)[f] = u[f]
        BY <1>1, <3>1, DstStays
      <3>3. v[f] = DstOf(r, n, q, e)[f]
        BY <2>6 DEF DstOf, F!DstFields
      <3> QED BY <3>2, <3>3
    <2> HIDE DEF u, v
    <2>7. u = v
      BY <2>1, <2>4, <2>5, <2>6 DEF F!IsDst
    <2> QED BY <2>7 DEF u, v
  <1> QED BY <1>4, <1>5, <1>6, <1>7, <1>8 DEF DstSeen, r

---------------------------------------------------------------------------
(* Time passes.                                                            *)

\* A timer that is not over now is not over before it is due.
LEMMA RunningLater ==
    ASSUME NEW m \in Nat, NEW n \in Nat, m =< n, NEW h, Armed(h), Idle(h), h.retrans \in Nat,
           h.retrans_bit # 0 => h.retrans > 0, \A x \in DOMAIN h.timers : n =< x
    PROVE  Running(h, n) = Running(h, m)
  <1>1. CASE h.retrans_bit = 0
    <2>1. h.retrans = 0
      BY <1>1 DEF Idle
    <2> QED BY <2>1 DEF Running
  <1>2. CASE h.retrans_bit # 0
    <2>1. n =< h.retrans /\ h.retrans > 0
      BY <1>2 DEF Armed
    <2>2. Running(h, n) = TRUE /\ Running(h, m) = TRUE
      BY <2>1 DEF Running
    <2> QED BY <2>2
  <1> QED BY <1>1, <1>2

\* Time that passes up to the next event is not seen on the source.
LEMMA SrcLater ==
    ASSUME NEW m \in Nat, NEW n \in Nat, m =< n, NEW h, SrcRests(h, m), NEW E, HostInv(h, m, E),
           \A x \in DOMAIN h.timers : n =< x
    PROVE  /\ SrcRests(h, n) /\ HostInv(h, n, Only(B))
           /\ \A q : SrcOf(h, n, q) = SrcOf(h, m, q)
  <1>1. Armed(h) /\ Idle(h) /\ Fresh(h) /\ Body(h, m, Only(B))
    BY DEF HostInv, SrcRests
  <1>2. HostInv(h, m, Only(B))
    BY <1>1 DEF HostInv
  <1>3. HostInv(h, n, Only(B))
    BY <1>2, LaterHost
  <1>4. SrcRests(h, n)
    BY <1>3 DEF SrcRests, HostInv
  <1>5. h.retrans \in Nat /\ (h.retrans_bit # 0 => h.retrans > 0)
    BY <1>1 DEF SrcRests, Body, Timing
  <1>6. Running(h, n) = Running(h, m)
    BY <1>1, <1>5, RunningLater
  <1>7. ASSUME NEW q PROVE SrcOf(h, n, q) = SrcOf(h, m, q)
    BY <1>6 DEF SrcOf
  <1> QED BY <1>3, <1>4, <1>7

\* Nor is it on the destination.
LEMMA DstLater ==
    ASSUME NEW m \in Nat, NEW n \in Nat, m =< n, NEW h, DstRests(h, m), NEW E, HostInv(h, m, E),
           \A x \in DOMAIN h.timers : n =< x
    PROVE  /\ DstRests(h, n) /\ HostInv(h, n, Only(A))
           /\ \A q : \A file : DstOf(h, n, q, file) = DstOf(h, m, q, file)
  <1>1. Armed(h) /\ Idle(h) /\ Fresh(h) /\ Body(h, m, Only(A))
    BY DEF HostInv, DstRests
  <1>2. HostInv(h, m, Only(A))
    BY <1>1 DEF HostInv
  <1>3. HostInv(h, n, Only(A))
    BY <1>2, LaterHost
  <1>4. DstRests(h, n)
    BY <1>3 DEF DstRests, HostInv
  <1>5. h.retrans \in Nat /\ (h.retrans_bit # 0 => h.retrans > 0)
    BY <1>1 DEF DstRests, Body, Timing
  <1>6. Running(h, n) = Running(h, m)
    BY <1>1, <1>5, RunningLater
  <1>7. ASSUME NEW q, NEW file PROVE DstOf(h, n, q, file) = DstOf(h, m, q, file)
    BY <1>6 DEF DstOf
  <1> QED BY <1>3, <1>4, <1>7

\* A packet reaches the source.
LEMMA SrcClocked ==
    ASSUME NEW n \in Nat, NEW h, SrcRests(h, n), HostInv(h, n, Only(B)),
           \A x \in DOMAIN h.timers : n < x, NEW q
    PROVE  LET g == Clocked(h, n)
           IN  /\ Sends(g, n) /\ HostInv(g, n, Only(B)) /\ Timed(g) /\ Later(g)
               /\ SrcOf(g, n, q) = SrcOf(h, n, q) /\ Same(g, h, {"clock"})
  <1> DEFINE g == Clocked(h, n)
             S == {"clock"}
  <1>1. HostInv(g, n, Only(B)) /\ g.clock = n /\ Same(g, h, S)
    BY ClockedLemma
  <1> HIDE DEF g
  <1>2. /\ g.address = h.address /\ g.destination = h.destination /\ g.dest_map = h.dest_map
        /\ g.sender = h.sender /\ g.out_file = h.out_file /\ g.text = h.text
        /\ g.timers = h.timers /\ g.retrans = h.retrans /\ g.retrans_bit = h.retrans_bit
        /\ g.in_file = h.in_file /\ g.sent_window = h.sent_window /\ g.out = h.out
        /\ g.retransmit_pkt = h.retransmit_pkt
    BY <1>1 DEF Same, Members
  <1>3. Timed(g) /\ SrcRole(g)
    BY <1>2 DEF SrcRests, Timed, SrcRole
  <1>4. Reads(g) /\ Holds(g)
    BY <1>2 DEF SrcRests, Reads, Holds
  <1>5. Leads(g)
    <2>1. g.out[B] = <<>>
      BY <1>2, NothingFor DEF SrcRests
    <2> QED BY <2>1 DEF Leads
  <1>6. Sends(g, n)
    BY <1>1, <1>3, <1>4, <1>5 DEF Sends, HostInv
  <1>7. Later(g)
    BY <1>1, <1>2 DEF Later, HostInv, Armed
  <1>8. \A f \in F!SrcFields : Member(f) \notin S
    BY DEF F!SrcFields, Member
  <1> HIDE DEF S
  <1>9. SrcOf(g, n, q) = SrcOf(h, n, q)
    BY <1>1, <1>8, SrcSame
  <1> QED BY <1>1, <1>3, <1>6, <1>7, <1>9 DEF S, g

\* A packet reaches the destination.
LEMMA DstClocked ==
    ASSUME NEW n \in Nat, NEW h, DstRests(h, n), HostInv(h, n, Only(A)), NEW q, NEW file
    PROVE  LET g == Clocked(h, n)
           IN  /\ Takes(g, n) /\ HostInv(g, n, Only(A)) /\ Timed(g) /\ g.text = <<>>
               /\ DstOf(g, n, q, file) = DstOf(h, n, q, file) /\ Same(g, h, {"clock"})
  <1> DEFINE g == Clocked(h, n)
             S == {"clock"}
  <1>1. HostInv(g, n, Only(A)) /\ g.clock = n /\ Same(g, h, S)
    BY ClockedLemma
  <1> HIDE DEF g
  <1>2. /\ g.address = h.address /\ g.destination = h.destination /\ g.dest_map = h.dest_map
        /\ g.sender = h.sender /\ g.out_file = h.out_file /\ g.text = h.text
        /\ g.timers = h.timers /\ g.retrans = h.retrans /\ g.retrans_bit = h.retrans_bit
        /\ g.out = h.out /\ g.sync_bit = h.sync_bit
    BY <1>1 DEF Same, Members
  <1>3. Timed(g) /\ DstRole(g)
    BY <1>2 DEF DstRests, Timed, DstRole
  <1>4. Answers(g)
    <2>1. g.out[A] = <<>>
      BY <1>2, NothingFor DEF DstRests
    <2> QED BY <2>1 DEF Answers
  <1>5. Writes(g) /\ g.text = <<>>
    BY <1>2 DEF DstRests, Writes
  <1>6. Takes(g, n)
    BY <1>1, <1>3, <1>4, <1>5 DEF Takes, HostInv
  <1>8. \A f \in F!DstFields : Shown(f) \notin S
    BY DEF F!DstFields, Shown
  <1> HIDE DEF S
  <1>9. DstOf(g, n, q, file) = DstOf(h, n, q, file)
    BY <1>1, <1>8, DstSame
  <1> QED BY <1>1, <1>3, <1>5, <1>6, <1>9 DEF S, g

\* The timer of a host that has one.
LEMMA TimedLemma ==
    ASSUME NEW h, Timed(h), NEW n \in DOMAIN h.timers
    PROVE  /\ h.retrans_bit # 0 /\ h.retrans = n /\ h.timers = SetToBag({n})
           /\ h.timers (-) SetToBag({n}) = EmptyBag /\ BagCardinality(h.timers) = 1
  <1>1. h.retrans_bit # 0
    <2>1. DOMAIN EmptyBag = {}
      BY DEF EmptyBag, SetToBag
    <2> QED BY <2>1 DEF Timed
  <1>2. h.timers = SetToBag({h.retrans})
    BY <1>1 DEF Timed
  <1>3. n = h.retrans
    BY <1>2 DEF SetToBag
  <1> QED BY <1>1, <1>2, <1>3, BagOne, CountOne

\* The view of a host whose timer is taken.
LEMMA SrcTaken ==
    ASSUME NEW h, NEW g, Same(g, h, {"clock", "timers"}), g.timers = EmptyBag,
           BagCardinality(h.timers) = 1, NEW n, NEW q
    PROVE  SrcOf(g, n, q) = [SrcOf(h, n, q) EXCEPT !.timers = @ - 1]
  <1> DEFINE S == {"clock", "timers"}
             u == SrcOf(h, n, q)
             w == SrcOf(g, n, q)
             v == [u EXCEPT !.timers = @ - 1]
  <1>1. u.timers = 1 /\ w.timers = 0
    BY CountNone DEF SrcOf
  <1>2. F!IsSrc(u)
    BY SrcIsSrc
  <1> HIDE DEF u, w
  <1>3. F!IsSrc(v) /\ \A f \in F!SrcFields : v[f] = IF Member(f) \in S THEN w[f] ELSE u[f]
    BY <1>1, <1>2 DEF F!IsSrc, F!SrcFields, Member
  <1> HIDE DEF v, S
  <1>4. v = w
    <2>1. Same(g, h, S)
      BY DEF S
    <2> QED BY <1>3, <2>1, SrcFrame DEF u, w
  <1> QED BY <1>4 DEF u, v, w

LEMMA DstTaken ==
    ASSUME NEW h, NEW g, Same(g, h, {"clock", "timers"}), g.timers = EmptyBag,
           BagCardinality(h.timers) = 1, NEW n, NEW q, NEW file
    PROVE  DstOf(g, n, q, file) = [DstOf(h, n, q, file) EXCEPT !.timers = @ - 1]
  <1> DEFINE S == {"clock", "timers"}
             u == DstOf(h, n, q, file)
             w == DstOf(g, n, q, file)
             v == [u EXCEPT !.timers = @ - 1]
  <1>1. u.timers = 1 /\ w.timers = 0
    BY CountNone DEF DstOf
  <1>2. F!IsDst(u)
    BY DstIsDst
  <1> HIDE DEF u, w
  <1>3. F!IsDst(v) /\ \A f \in F!DstFields : v[f] = IF Shown(f) \in S THEN w[f] ELSE u[f]
    BY <1>1, <1>2 DEF F!IsDst, F!DstFields, Shown
  <1> HIDE DEF v, S
  <1>4. v = w
    <2>1. Same(g, h, S)
      BY DEF S
    <2> QED BY <1>3, <2>1, DstFrame DEF u, w
  <1> QED BY <1>4 DEF u, v, w

\* The timer of the source expires.
LEMMA SrcWoken ==
    ASSUME NEW n \in Nat, NEW h, SrcRests(h, n), HostInv(h, n, Only(B)), n \in DOMAIN h.timers, NEW q
    PROVE  LET g == Woken(h, n)
           IN  /\ Sends(g, n) /\ Waits(g, n) /\ g.timers = EmptyBag /\ g.retrans = n /\ n > 0
               /\ g.retrans_bit = h.retrans_bit /\ h.retrans_bit # 0
               /\ SrcOf(g, n, q) = [SrcOf(h, n, q) EXCEPT !.timers = @ - 1]
               /\ SrcOf(h, n, q).timers = 1
               /\ Same(g, h, {"clock", "timers"})
  <1> DEFINE g == Woken(h, n)
  <1>1. /\ Body(g, n, Only(B)) /\ Waits(g, n) /\ g.clock = n /\ Same(g, h, {"clock", "timers"})
    BY WokenLemma
  <1>2. Timed(h) /\ (h.retrans_bit # 0 => h.retrans > 0)
    BY DEF SrcRests
  <1>3. /\ h.retrans_bit # 0 /\ h.retrans = n /\ h.timers (-) SetToBag({n}) = EmptyBag
        /\ BagCardinality(h.timers) = 1
    BY <1>2, TimedLemma
  <1>4. DOMAIN h = Members
    BY DEF SrcRests, Body, Names
  <1>5. g.timers = EmptyBag
    BY <1>3, <1>4 DEF Woken, Members
  <1> HIDE DEF g
  <1>6. /\ g.address = h.address /\ g.destination = h.destination /\ g.dest_map = h.dest_map
        /\ g.sender = h.sender /\ g.out_file = h.out_file /\ g.text = h.text
        /\ g.retrans = h.retrans /\ g.retrans_bit = h.retrans_bit
        /\ g.in_file = h.in_file /\ g.sent_window = h.sent_window /\ g.out = h.out
        /\ g.retransmit_pkt = h.retransmit_pkt
    BY <1>1 DEF Same, Members
  <1>7. SrcRole(g)
    BY <1>6 DEF SrcRests, SrcRole
  <1>8. Reads(g) /\ Holds(g)
    BY <1>6 DEF SrcRests, Reads, Holds
  <1>9. Leads(g)
    <2>1. g.out[B] = <<>>
      BY <1>6, NothingFor DEF SrcRests
    <2> QED BY <2>1 DEF Leads
  <1>10. Sends(g, n)
    BY <1>1, <1>7, <1>8, <1>9 DEF Sends
  <1>11. SrcOf(g, n, q) = [SrcOf(h, n, q) EXCEPT !.timers = @ - 1]
    BY <1>1, <1>3, <1>5, SrcTaken
  <1>12. SrcOf(h, n, q).timers = 1
    BY <1>3 DEF SrcOf
  <1> QED BY <1>1, <1>2, <1>3, <1>5, <1>6, <1>10, <1>11, <1>12 DEF g

\* The timer of the destination expires.
LEMMA DstWoken ==
    ASSUME NEW n \in Nat, NEW h, DstRests(h, n), HostInv(h, n, Only(A)), n \in DOMAIN h.timers,
           NEW q, NEW file
    PROVE  LET g == Woken(h, n)
           IN  /\ Takes(g, n) /\ g.timers = EmptyBag /\ g.retrans = n /\ n > 0
               /\ g.retrans_bit = 1 /\ g.sync_bit = h.sync_bit /\ g.text = <<>>
               /\ DstOf(g, n, q, file) = [DstOf(h, n, q, file) EXCEPT !.timers = @ - 1]
               /\ DstOf(h, n, q, file).timers = 1
               /\ Same(g, h, {"clock", "timers"})
  <1> DEFINE g == Woken(h, n)
  <1>1. /\ Body(g, n, Only(A)) /\ g.clock = n /\ Same(g, h, {"clock", "timers"})
    BY WokenLemma
  <1>2. Timed(h) /\ (h.retrans_bit # 0 => h.retrans > 0) /\ DstRole(h) /\ h.retrans_bit \in 0..2
    BY DEF DstRests, Body, Names
  <1>3. /\ h.retrans_bit # 0 /\ h.retrans = n /\ h.timers (-) SetToBag({n}) = EmptyBag
        /\ BagCardinality(h.timers) = 1
    BY <1>2, TimedLemma
  <1>4. DOMAIN h = Members
    BY DEF DstRests, Body, Names
  <1>5. g.timers = EmptyBag
    BY <1>3, <1>4 DEF Woken, Members
  <1> HIDE DEF g
  <1>6. /\ g.address = h.address /\ g.destination = h.destination /\ g.dest_map = h.dest_map
        /\ g.sender = h.sender /\ g.out_file = h.out_file /\ g.text = h.text
        /\ g.retrans = h.retrans /\ g.retrans_bit = h.retrans_bit
        /\ g.out = h.out /\ g.sync_bit = h.sync_bit
    BY <1>1 DEF Same, Members
  <1>7. DstRole(g)
    BY <1>2, <1>6 DEF DstRole
  <1>8. h.retrans_bit = 1
    BY <1>2, <1>3 DEF DstRole
  <1>9. Answers(g)
    <2>1. g.out[A] = <<>>
      BY <1>6, NothingFor DEF DstRests
    <2> QED BY <2>1 DEF Answers
  <1>10. Writes(g) /\ g.text = <<>>
    BY <1>6 DEF DstRests, Writes
  <1>11. Takes(g, n)
    BY <1>1, <1>7, <1>9, <1>10 DEF Takes
  <1>12. DstOf(g, n, q, file) = [DstOf(h, n, q, file) EXCEPT !.timers = @ - 1]
    BY <1>1, <1>3, <1>5, DstTaken
  <1>13. DstOf(h, n, q, file).timers = 1
    BY <1>3 DEF DstOf
  <1> QED BY <1>1, <1>2, <1>3, <1>5, <1>6, <1>8, <1>10, <1>11, <1>12, <1>13 DEF g

---------------------------------------------------------------------------
(* Fdtp's variables.                                                       *)

\* src and dst, as functions of what they are read from.
SrcView(hs, n, ch, bg) ==
    LET h == hs[A]
        path == ch[<<h.address, hs[B].address>>]
    IN  [ dest_map |-> ~(1 \in bg), sync_bit |-> h.sync_bit, term_bit |-> h.term_bit,
          retrans |-> Running(h, n), retrans_bit |-> h.retrans_bit,
          timers |-> BagCardinality(h.timers) - (IF 1 \in bg THEN 0 ELSE 1),
          sent_so_far |-> h.sent_so_far, last_ack |-> h.last_ack, chunk |-> h.in_file.chunk,
          sent_window |-> Window(h.sent_window), packets_in_window |-> h.packets_in_window,
          window_size |-> h.window_size, retransmit_pkt |-> ToDst(h.retransmit_pkt),
          dup_ack_count |-> h.dup_ack_count, out |-> [j \in DOMAIN path |-> ToDst(path[j].packet)] ]

DstView(hs, n, ch, cp) ==
    LET h == hs[B]
        path == ch[<<h.address, hs[A].address>>]
    IN  [ sync_bit |-> h.sync_bit, term_bit |-> h.term_bit, retrans |-> Running(h, n),
          retrans_bit |-> h.retrans_bit, timers |-> BagCardinality(h.timers),
          recv_so_far |-> h.recv_so_far, recv_window |-> Window(h.recv_window), ter_seq |-> h.ter_seq,
          out_file |-> Numbers(cp[1]), out |-> [j \in DOMAIN path |-> ToSrc(path[j].packet)] ]

LEMMA Views ==
    /\ src = SrcView(hosts, now, net, begun)
    /\ dst = DstView(hosts, now, net, copies)
  BY DEF src, dst, Source, Destination, Started, InFlight, SrcView, DstView, A, B, Running, Numbers

LEMMA ViewsNext ==
    /\ src' = SrcView(hosts', now', net', begun')
    /\ dst' = DstView(hosts', now', net', copies')
  BY DEF src, dst, Source, Destination, Started, InFlight, SrcView, DstView, A, B, Running, Numbers

---------------------------------------------------------------------------
(* The flow, before it starts and after.                                   *)

Out  == <<A, B>>
Home == <<B, A>>

OutPath(path)  == path \in Seq(Sent) /\ \A j \in DOMAIN path : path[j].packet.ACK = 0
HomePath(path) == path \in Seq(Sent) /\ \A j \in DOMAIN path : path[j].packet.ACK = path[j].packet.FIN

\* After the start only the two hosts send, and only to each other.
Going(hs, n, ch, bg, cp) ==
    /\ bg = {1}
    /\ SrcRests(hs[A], n) /\ DstRests(hs[B], n)
    /\ \A a \in Addresses \ {A, B} : DOMAIN hs[a].timers = {}
    /\ \A l \in Addresses \X Addresses : l \notin {Out, Home} => ch[l] = <<>>
    /\ OutPath(ch[Out]) /\ HomePath(ch[Home])
    /\ cp[1] \in Seq(Payloads) /\ DOMAIN cp = FlowIds

LEMMA NothingAfter ==
    /\ \A s \in Seq(Wire) : s \o <<>> = s
    /\ \A s \in Seq(Back) : s \o <<>> = s
    /\ \A s \in Seq(Nat) : s \o <<>> = s
  OBVIOUS

\* src and dst are the views of the two hosts.
LEMMA GoingSrc ==
    ASSUME NEW hs, NEW n, NEW ch, NEW bg, NEW cp, Going(hs, n, ch, bg, cp)
    PROVE  SrcView(hs, n, ch, bg) = SrcSeen(hs[A], n, ch[Out])
  <1> DEFINE h == hs[A]
             path == ch[Out]
             o == [j \in DOMAIN path |-> ToDst(path[j].packet)]
             q == ToDsts(Cargo(path))
  <1>1. h.address = A /\ hs[B].address = B /\ 1 \in bg /\ h.out[B] = <<>>
    BY NothingFor DEF Going, SrcRests, SrcRole, DstRests, DstRole
  <1>2. q \in Seq(Wire)
    BY CargoType, ToDstsType DEF Going, OutPath
  <1>3. o = q
    BY DEF ToDsts, Cargo
  <1>4. q \o ToDsts(h.out[B]) = q
    <2>1. ToDsts(h.out[B]) = <<>>
      BY <1>1 DEF ToDsts
    <2> HIDE DEF q
    <2> QED BY <1>2, <2>1, NothingAfter
  <1>5. BagCardinality(h.timers) - 0 = BagCardinality(h.timers)
    <2> HIDE DEF h
    <2>0. h.timers = IF h.retrans_bit = 0 THEN EmptyBag ELSE SetToBag({h.retrans})
      BY DEF Going, SrcRests, Timed, h
    <2>1. CASE h.retrans_bit = 0
      BY <2>0, <2>1, CountNone
    <2>2. CASE h.retrans_bit # 0
      <3>1. BagCardinality(SetToBag({h.retrans})) = 1
        BY CountOne
      <3> QED BY <2>0, <2>2, <3>1
    <2> QED BY <2>1, <2>2
  <1> DEFINE v == SrcView(hs, n, ch, bg)
             w == SrcOf(h, n, q)
  <1>6. /\ v.timers = BagCardinality(h.timers) - 0 /\ v.dest_map = FALSE /\ v.out = o
    BY <1>1 DEF SrcView, Out
  <1>7. v = [ dest_map |-> FALSE, sync_bit |-> h.sync_bit, term_bit |-> h.term_bit,
              retrans |-> Running(h, n), retrans_bit |-> h.retrans_bit,
              timers |-> v.timers, sent_so_far |-> h.sent_so_far, last_ack |-> h.last_ack,
              chunk |-> h.in_file.chunk, sent_window |-> Window(h.sent_window),
              packets_in_window |-> h.packets_in_window, window_size |-> h.window_size,
              retransmit_pkt |-> ToDst(h.retransmit_pkt), dup_ack_count |-> h.dup_ack_count,
              out |-> v.out ]
    BY <1>1 DEF SrcView
  <1> HIDE DEF v, o
  <1>8. v = w
    BY <1>3, <1>4, <1>5, <1>6, <1>7 DEF SrcOf
  <1> QED BY <1>8 DEF v, w, SrcSeen

LEMMA GoingDst ==
    ASSUME NEW hs, NEW n, NEW ch, NEW bg, NEW cp, Going(hs, n, ch, bg, cp)
    PROVE  DstView(hs, n, ch, cp) = DstSeen(hs[B], n, ch[Home], cp[1])
  <1> DEFINE h == hs[B]
             path == ch[Home]
             o == [j \in DOMAIN path |-> ToSrc(path[j].packet)]
             q == ToSrcs(Cargo(path))
             e == Numbers(cp[1])
  <1>1. h.address = B /\ hs[A].address = A /\ h.out[A] = <<>> /\ h.text = <<>>
    BY NothingFor DEF Going, SrcRests, SrcRole, DstRests, DstRole
  <1>2. q \in Seq(Back)
    BY CargoType, ToSrcsType DEF Going, HomePath
  <1>3. o = q
    BY DEF ToSrcs, Cargo
  <1>4. q \o ToSrcs(h.out[A]) = q
    <2>1. ToSrcs(h.out[A]) = <<>>
      BY <1>1 DEF ToSrcs
    <2> HIDE DEF q
    <2> QED BY <1>2, <2>1, NothingAfter
  <1>5. e \o Numbers(h.text) = e
    <2>1. e \in Seq(Nat)
      BY NumbersConcat DEF Going
    <2>2. Numbers(h.text) = <<>>
      BY <1>1 DEF Numbers
    <2> HIDE DEF e
    <2> QED BY <2>1, <2>2, NothingAfter
  <1> DEFINE v == DstView(hs, n, ch, cp)
             w == DstOf(h, n, q, e)
  <1>6. v.out = o
    BY <1>1 DEF DstView, Home
  <1>7. v = [ sync_bit |-> h.sync_bit, term_bit |-> h.term_bit, retrans |-> Running(h, n),
              retrans_bit |-> h.retrans_bit, timers |-> BagCardinality(h.timers),
              recv_so_far |-> h.recv_so_far, recv_window |-> Window(h.recv_window), ter_seq |-> h.ter_seq,
              out_file |-> e, out |-> v.out ]
    BY <1>1 DEF DstView
  <1> HIDE DEF v, o, e
  <1>8. v = w
    BY <1>3, <1>4, <1>5, <1>6, <1>7 DEF DstOf
  <1> QED BY <1>8 DEF v, w, e, DstSeen

\* Before the start the two hosts are as the constructor leaves them.
Before ==
    /\ begun = {} /\ start \in [FlowIds -> StartTimes]
    /\ \E dup \in {0, 1} : hosts = [a \in Addresses |-> FreshHost(a, dup, start)]
    /\ net = [l \in Addresses \X Addresses |-> <<>>]
    /\ copies = [k \in FlowIds |-> <<>>]

During == Going(hosts, now, net, begun, copies)

\* What a fresh host of the one flow is.
LEMMA FreshOnes ==
    ASSUME NEW dup \in {0, 1}, NEW times \in [FlowIds -> StartTimes]
    PROVE  LET a == FreshHost(A, dup, times)
               b == FreshHost(B, dup, times)
           IN  /\ a.dest_map = [t \in {times[1]} |-> 1] /\ a.timers = SetToBag({times[1]})
               /\ a.in_file.is_open = FALSE /\ a.out_file = 0 /\ a.dup_ack_count = dup
               /\ DOMAIN b.dest_map = {} /\ b.timers = EmptyBag
               /\ \A c \in Addresses \ {A} : DOMAIN FreshHost(c, dup, times).timers = {}
  <1>1. From(A) = {1} /\ \A c \in Addresses \ {A} : From(c) = {}
    BY TheFlow DEF From, A
  <1>2. {k \in From(A) : times[k] = times[1]} = {1} /\ {times[k] : k \in From(A)} = {times[1]}
    BY <1>1
  <1>3. Cardinality({1}) = 1
    BY FS_Singleton
  <1>4. ASSUME NEW c \in Addresses \ {A} PROVE {times[k] : k \in From(c)} = {}
    BY <1>1
  <1>5. FreshHost(A, dup, times).dest_map = [t \in {times[1]} |-> 1]
    <2>1. \A t \in {times[1]} : {k \in From(A) : times[k] = t} = {1}
      BY <1>2
    <2>2. (CHOOSE k \in {1} : \A l \in {1} : k =< l) = 1
      OBVIOUS
    <2> QED BY <1>2, <2>1, <2>2 DEF FreshHost
  <1>6. FreshHost(A, dup, times).timers = SetToBag({times[1]})
    <2>1. \A t \in {times[1]} : {k \in From(A) : times[k] = t} = {1}
      BY <1>2
    <2> QED BY <1>2, <1>3, <2>1 DEF FreshHost, SetToBag
  <1>7. /\ FreshHost(A, dup, times).in_file.is_open = FALSE /\ FreshHost(A, dup, times).out_file = 0
        /\ FreshHost(A, dup, times).dup_ack_count = dup
    BY DEF FreshHost
  <1>8. ASSUME NEW c \in Addresses \ {A}
        PROVE  DOMAIN FreshHost(c, dup, times).timers = {} /\ DOMAIN FreshHost(c, dup, times).dest_map = {}
    BY <1>4 DEF FreshHost
  <1>9. FreshHost(B, dup, times).timers = EmptyBag
    <2>1. B \in Addresses \ {A}
      BY TheFlow
    <2>2. FreshHost(B, dup, times).timers = [t \in {} |-> Cardinality({k \in From(B) : times[k] = t})]
      BY <1>4, <2>1 DEF FreshHost
    <2> QED BY <2>2 DEF EmptyBag, SetToBag
  <1> QED BY <1>5, <1>6, <1>7, <1>8, <1>9, TheFlow

---------------------------------------------------------------------------
(* What Return makes of the network.                                       *)

\* Which packet of the longer path is which.
LEMMA GrownPath ==
    ASSUME NEW path \in Seq(Sent), NEW s \in Seq(PacketType), NEW n \in Nat,
           NEW j \in DOMAIN (path \o Stamped(s, n))
    PROVE  \/ j \in DOMAIN path /\ (path \o Stamped(s, n))[j] = path[j]
           \/ \E k \in DOMAIN s : (path \o Stamped(s, n))[j].packet = s[k]
  <1> DEFINE v == Stamped(s, n)
             r == path \o v
  <1>1. /\ v \in Seq(Sent) /\ Len(v) = Len(s) /\ \A k \in 1..Len(s) : v[k].packet = s[k]
    BY StampedType
  <1> HIDE DEF v
  <1>2. path \in Seq(Sent) /\ v \in Seq(Sent)
    BY <1>1
  <1>3. /\ r \in Seq(Sent) /\ Len(r) = Len(path) + Len(v)
        /\ \A k \in 1..Len(path) + Len(v) : r[k] = IF k =< Len(path) THEN path[k] ELSE v[k - Len(path)]
    BY ONLY <1>2, ConcatAt
  <1>4. /\ DOMAIN r = 1..Len(path) + Len(s) /\ DOMAIN path = 1..Len(path) /\ DOMAIN s = 1..Len(s)
        /\ Len(path) \in Nat /\ Len(s) \in Nat
    BY <1>1, <1>3
  <1>5. j \in 1..Len(path) + Len(s)
    BY <1>4 DEF v
  <1> HIDE DEF r
  <1>6. CASE j =< Len(path)
    BY <1>1, <1>3, <1>4, <1>5, <1>6 DEF r, v
  <1>7. CASE ~(j =< Len(path))
    <2>1. j - Len(path) \in 1..Len(s)
      BY <1>4, <1>5, <1>7
    <2>2. r[j] = v[j - Len(path)]
      BY <1>1, <1>3, <1>5, <1>7
    <2>3. r[j].packet = s[j - Len(path)] /\ j - Len(path) \in DOMAIN s
      BY <1>1, <1>4, <2>1, <2>2
    <2> QED BY <2>3 DEF r, v
  <1> QED BY <1>6, <1>7

\* What leaves the source, or the destination, joins its path.
LEMMA OutGrows ==
    ASSUME NEW path, OutPath(path), NEW n \in Nat, NEW g, Sends(g, n)
    PROVE  OutPath(path \o Stamped(g.out[B], n))
  <1> DEFINE s == g.out[B]
             r == path \o Stamped(s, n)
  <1>1. path \in Seq(Sent) /\ s \in Seq(PacketType)
    BY OutType, TheFlow DEF OutPath, Sends, Ends
  <1>2. \A k \in DOMAIN s : s[k].ACK = 0
    BY DEF Sends, Leads, Toward
  <1> HIDE DEF s
  <1>3. ASSUME NEW j \in DOMAIN r PROVE r[j].packet.ACK = 0
    BY <1>1, <1>2, GrownPath DEF OutPath
  <1>4. r \in Seq(Sent)
    BY <1>1, CargoGrows
  <1> QED BY <1>3, <1>4 DEF OutPath, s

LEMMA HomeGrows ==
    ASSUME NEW path, HomePath(path), NEW n \in Nat, NEW g, Takes(g, n)
    PROVE  HomePath(path \o Stamped(g.out[A], n))
  <1> DEFINE s == g.out[A]
             r == path \o Stamped(s, n)
  <1>1. path \in Seq(Sent) /\ s \in Seq(PacketType)
    BY OutType, TheFlow DEF HomePath, Takes, Ends
  <1>2. \A k \in DOMAIN s : s[k].ACK = s[k].FIN
    BY DEF Takes, Answers
  <1> HIDE DEF s
  <1>3. ASSUME NEW j \in DOMAIN r PROVE r[j].packet.ACK = r[j].packet.FIN
    BY <1>1, <1>2, GrownPath DEF HomePath
  <1>4. r \in Seq(Sent)
    BY <1>1, CargoGrows
  <1> QED BY <1>3, <1>4 DEF HomePath, s

LEMMA PathsTail ==
    ASSUME NEW path \in Seq(Sent), path # <<>>
    PROVE  /\ OutPath(path) => OutPath(Tail(path)) /\ Head(path).packet.ACK = 0
           /\ HomePath(path) => HomePath(Tail(path)) /\ Head(path).packet.ACK = Head(path).packet.FIN
  <1>1. /\ Tail(path) \in Seq(Sent) /\ Head(path) = path[1] /\ 1 \in DOMAIN path
        /\ \A j \in DOMAIN Tail(path) : Tail(path)[j] = path[j + 1] /\ j + 1 \in DOMAIN path
    OBVIOUS
  <1> QED BY <1>1 DEF OutPath, HomePath

\* A handler of a, whose packets all go to b.
Carries(ch) == DOMAIN ch = Addresses \X Addresses /\ \A l \in DOMAIN ch : ch[l] \in Seq(Sent)

\* s has left on l, and nothing else.
Leaves(ch, new, l, s, n) ==
    /\ DOMAIN new = DOMAIN ch
    /\ new[l] = ch[l] \o Stamped(s, n)
    /\ \A k \in DOMAIN ch : k # l => new[k] = ch[k]

\* The packets of g leave on one path.
LEMMA LeaveSeen ==
    ASSUME NEW n \in Nat, NEW a \in Addresses, NEW b \in Addresses, NEW g, Body(g, n, Only(b)),
           g.address = a, NEW ch, Carries(ch)
    PROVE  Leaves(ch, Leave(g, ch, n), <<a, b>>, g.out[b], n)
  <1>0. DOMAIN ch = Addresses \X Addresses /\ \A l \in DOMAIN ch : ch[l] \in Seq(Sent)
    BY DEF Carries
  <1>1. <<a, b>> \in DOMAIN ch
    BY <1>0
  <1>2. ASSUME NEW l \in DOMAIN ch, l[1] = a
        PROVE  Leave(g, ch, n)[l] = ch[l] \o Stamped(g.out[l[2]], n)
    BY <1>2 DEF Leave, Stamped
  <1>3. Leave(g, ch, n)[<<a, b>>] = ch[<<a, b>>] \o Stamped(g.out[b], n)
    BY <1>1, <1>2
  <1>4. ASSUME NEW l \in DOMAIN ch, l # <<a, b>> PROVE Leave(g, ch, n)[l] = ch[l]
    <2>1. CASE l[1] # a
      BY <2>1 DEF Leave
    <2>2. CASE l[1] = a
      <3>1. l[2] \in Addresses /\ l[2] # b
        BY <1>0, <1>4, <2>2
      <3>2. l[2] \notin Only(b)
        BY <3>1, NoneAssumption DEF Only
      <3>3. DOMAIN g.out[l[2]] = {} /\ g.out[l[2]] \in Seq(PacketType)
        <4>1. \A j \in DOMAIN g.out[l[2]] : l[2] \in Only(b)
          BY <3>1 DEF Body, Leaving
        <4>2. g.out[l[2]] \in Seq(PacketType)
          BY <3>1, OutType DEF Ends
        <4> QED BY <3>2, <4>1, <4>2
      <3>4. Stamped(g.out[l[2]], n) = <<>>
        BY <3>3 DEF Stamped
      <3>5. ch[l] \o <<>> = ch[l]
        <4>1. ch[l] \in Seq(Sent)
          BY <1>0
        <4>2. \A s \in Seq(Sent) : s \o <<>> = s
          OBVIOUS
        <4> QED BY <4>1, <4>2
      <3> QED BY <1>2, <2>2, <3>4, <3>5
    <2> QED BY <2>1, <2>2
  <1>5. DOMAIN Leave(g, ch, n) = DOMAIN ch
    BY DEF Leave
  <1> QED BY <1>3, <1>4, <1>5 DEF Leaves

\* The network has both paths.
LEMMA NetPaths ==
    ASSUME NEW ch, NEW R, NEW n, NetInv(ch, R, n)
    PROVE  /\ Carries(ch) /\ DOMAIN ch = Addresses \X Addresses
           /\ Out \in DOMAIN ch /\ Home \in DOMAIN ch /\ Out # Home
           /\ ch[Out] \in Seq(Sent) /\ ch[Home] \in Seq(Sent)
  BY TheFlow DEF NetInv, PathInv, Out, Home, Carries

---------------------------------------------------------------------------
(* The start.                                                              *)

\* Before the start the two hosts are seen as Fdtp has them.
LEMMA BeforeSeen ==
    ASSUME Before
    PROVE  \E dup \in {0, 1} : /\ src = F!FreshSrc(dup) /\ hosts = [a \in Addresses |-> FreshHost(a, dup, start)]
                               /\ dst = F!FreshDst
  <1>1. PICK dup \in {0, 1} : hosts = [a \in Addresses |-> FreshHost(a, dup, start)]
    BY DEF Before
  <1> DEFINE a == FreshHost(A, dup, start)
             b == FreshHost(B, dup, start)
  <1>2. hosts[A] = a /\ hosts[B] = b
    BY <1>1, TheFlow
  <1>3. a.timers = SetToBag({start[1]}) /\ b.timers = EmptyBag
    <2>1. start \in [FlowIds -> StartTimes]
      BY DEF Before
    <2> QED BY <2>1, FreshOnes
  <1>4. BagCardinality(a.timers) = 1 /\ BagCardinality(b.timers) = 0
    <2>1. BagCardinality(SetToBag({start[1]})) = 1
      BY CountOne
    <2> HIDE DEF a, b
    <2> QED BY <1>3, <2>1, CountNone
  <1>5. /\ a.address = A /\ a.sync_bit = 1 /\ a.term_bit = 0 /\ a.retrans = 0 /\ a.retrans_bit = 0
        /\ a.sent_so_far = 0 /\ a.last_ack = 0 /\ a.in_file.chunk = 0 /\ a.sent_window = <<>>
        /\ a.packets_in_window = 0 /\ a.window_size = 1 /\ a.retransmit_pkt = NULL /\ a.dup_ack_count = dup
    BY DEF FreshHost
  <1>6. /\ b.address = B /\ b.sync_bit = 1 /\ b.term_bit = 0 /\ b.retrans = 0 /\ b.retrans_bit = 0
        /\ b.recv_so_far = 0 /\ b.recv_window = <<>> /\ b.ter_seq = MAX_QUEUE
    BY DEF FreshHost
  <1> HIDE DEF a, b
  <1>7. net[<<A, B>>] = <<>> /\ net[<<B, A>>] = <<>> /\ copies[1] = <<>> /\ 1 \notin begun
    BY TheFlow DEF Before
  <1>8. Running(a, now) = FALSE /\ Running(b, now) = FALSE
    BY <1>5, <1>6 DEF Running
  <1>9. Window(<<>>) = <<>> /\ Numbers(<<>>) = <<>>
    BY DEF Window, Numbers
  <1>10. src = F!FreshSrc(dup)
    <2> DEFINE path == net[<<A, B>>]
               o == [j \in DOMAIN path |-> ToDst(path[j].packet)]
    <2>1. o = <<>>
      BY <1>7
    <2> HIDE DEF o
    <2>2. SrcView(hosts, now, net, begun)
            = [ dest_map |-> TRUE, sync_bit |-> 1, term_bit |-> 0, retrans |-> FALSE, retrans_bit |-> 0,
                timers |-> 1 - 1, sent_so_far |-> 0, last_ack |-> 0, chunk |-> 0, sent_window |-> <<>>,
                packets_in_window |-> 0, window_size |-> 1, retransmit_pkt |-> F!NULL,
                dup_ack_count |-> dup, out |-> o ]
      BY <1>2, <1>4, <1>5, <1>6, <1>7, <1>8, <1>9, NullSeen DEF SrcView, o
    <2> QED BY <2>1, <2>2, Views DEF F!FreshSrc
  <1>11. dst = F!FreshDst
    <2> DEFINE path == net[<<B, A>>]
               o == [j \in DOMAIN path |-> ToSrc(path[j].packet)]
    <2>1. o = <<>>
      BY <1>7
    <2> HIDE DEF o
    <2>2. DstView(hosts, now, net, copies)
            = [ sync_bit |-> 1, term_bit |-> 0, retrans |-> FALSE, retrans_bit |-> 0, timers |-> 0,
                recv_so_far |-> 0, recv_window |-> <<>>, ter_seq |-> MAX_QUEUE, out_file |-> <<>>, out |-> o ]
      BY <1>2, <1>4, <1>5, <1>6, <1>7, <1>8, <1>9 DEF DstView, o
    <2> QED BY <2>1, <2>2, Views DEF F!FreshDst
  <1> QED BY <1>1, <1>10, <1>11

\* The initial states of Hosts are Fdtp's.
LEMMA InitSeen == ASSUME Init PROVE Before /\ F!Init
  <1>1. Before
    BY DEF Init, Before
  <1>2. losses = 0
    BY DEF Init
  <1> QED BY <1>1, <1>2, BeforeSeen DEF F!Init

\* A host that has no timer stays as it is.
LEMMA OnlyTimers ==
    ASSUME NEW a \in Addresses, Expire(a), NEW n, now' = n
    PROVE  n \in DOMAIN hosts[a].timers
  BY DEF Expire

\* The host whose timer expires.
LEMMA AwakeIsWoken ==
    ASSUME NEW a \in Addresses, NEW n, now' = n
    PROVE  Awake(a) = Woken(hosts[a], n)
  BY DEF Awake, Woken

\* The hosts of a flow before it starts, when its timer expires.
LEMMA BeforeHosts ==
    ASSUME Before, NEW n \in Nat
    PROVE  /\ hosts[A].dest_map = [t \in {start[1]} |-> 1] /\ hosts[A].timers = SetToBag({start[1]})
           /\ \A c \in Addresses \ {A} : DOMAIN hosts[c].timers = {}
           /\ n =< start[1] => /\ HostInv(hosts[A], n, Only(B)) /\ HostInv(hosts[B], n, Only(A))
           /\ hosts[A].in_file.is_open = FALSE /\ hosts[A].out_file = 0 /\ hosts[A].address = A
           /\ hosts[A].out = NothingOut /\ hosts[A].text = <<>> /\ hosts[A].retransmit_pkt = NULL
           /\ hosts[A].sync_bit = 1 /\ hosts[A].term_bit = 0 /\ hosts[A].retrans = 0
           /\ hosts[B].out = NothingOut /\ hosts[B].text = <<>> /\ hosts[B].address = B
           /\ hosts[B].timers = EmptyBag /\ DOMAIN hosts[B].dest_map = {}
           /\ DOMAIN hosts = Addresses
  <1>0. start \in [FlowIds -> StartTimes]
    BY DEF Before
  <1>1. PICK dup \in {0, 1} : hosts = [a \in Addresses |-> FreshHost(a, dup, start)]
    BY DEF Before
  <1> DEFINE a == FreshHost(A, dup, start)
             b == FreshHost(B, dup, start)
  <1>2. hosts[A] = a /\ hosts[B] = b /\ DOMAIN hosts = Addresses
    BY <1>1, TheFlow
  <1>3. /\ a.dest_map = [t \in {start[1]} |-> 1] /\ a.timers = SetToBag({start[1]})
        /\ a.in_file.is_open = FALSE /\ a.out_file = 0
        /\ DOMAIN b.dest_map = {} /\ b.timers = EmptyBag
        /\ \A c \in Addresses \ {A} : DOMAIN FreshHost(c, dup, start).timers = {}
    BY <1>0, FreshOnes
  <1>4. \A c \in Addresses \ {A} : DOMAIN hosts[c].timers = {}
    BY <1>1, <1>3
  <1>5. a.retransmit_pkt = NULL /\ a.sync_bit = 1 /\ a.term_bit = 0 /\ a.retrans = 0
    BY DEF FreshHost
  <1>6. /\ HostInv(a, 0, {"none"}) /\ a.address = A /\ a.out = NothingOut /\ a.text = <<>>
        /\ HostInv(b, 0, {"none"}) /\ b.address = B /\ b.out = NothingOut /\ b.text = <<>>
    BY <1>0, TheFlow, FreshLemma
  <1> HIDE DEF a, b
  <1>7. ASSUME n =< start[1] PROVE HostInv(a, n, Only(B)) /\ HostInv(b, n, Only(A))
    <2>1. /\ 0 \in Nat /\ 0 =< n /\ {"none"} \subseteq Only(A) /\ {"none"} \subseteq Only(B)
      BY OnlyEnds
    <2>2. \A x \in DOMAIN a.timers : n =< x
      BY <1>3, <1>7 DEF SetToBag
    <2>3. \A x \in DOMAIN b.timers : n =< x
      BY <1>3 DEF EmptyBag, SetToBag
    <2>4. HostInv(a, n, Only(B))
      BY <1>6, <2>1, <2>2, LaterHost
    <2>5. HostInv(b, n, Only(A))
      BY <1>6, <2>1, <2>3, LaterHost
    <2> QED BY <2>4, <2>5
  <1> QED BY <1>2, <1>3, <1>4, <1>5, <1>6, <1>7

\* The flow starts.
LEMMA StartSeen ==
    ASSUME IInv, Before, NEW a \in Addresses, StartFlow(a)
    PROVE  During' /\ F!Start
  <1>0. PICK n : now' = n
    BY DEF StartFlow, Expire
  <1>1. Expire(a)
    BY DEF StartFlow
  <1>2. /\ n \in Nat /\ now =< n
        /\ \A b \in Addresses : \A x \in DOMAIN hosts[b].timers : n =< x
    BY <1>0, <1>1, ExpireLemma
  <1>3. n \in DOMAIN hosts[a].timers
    BY <1>0, <1>1, OnlyTimers
  <1> DEFINE h == Woken(hosts[A], n)
             d == hosts[B]
             b == BecomeDestination(d, 1)
             g == HandleTimer([Set(Sync(h, 1), 1) EXCEPT !.last_transmit = h.clock])
             r == Rest(g)
             others == [hosts EXCEPT ![B] = BecomeDestination(@, 1)]
  <1>4. /\ hosts[A].dest_map = [t \in {start[1]} |-> 1] /\ hosts[A].timers = SetToBag({start[1]})
        /\ \A c \in Addresses \ {A} : DOMAIN hosts[c].timers = {}
        /\ n =< start[1] => /\ HostInv(hosts[A], n, Only(B)) /\ HostInv(hosts[B], n, Only(A))
        /\ hosts[A].in_file.is_open = FALSE /\ hosts[A].out_file = 0 /\ hosts[A].address = A
        /\ hosts[A].out = NothingOut /\ hosts[A].text = <<>> /\ hosts[A].retransmit_pkt = NULL
        /\ d.out = NothingOut /\ d.text = <<>> /\ d.address = B
        /\ d.timers = EmptyBag /\ DOMAIN d.dest_map = {}
        /\ DOMAIN hosts = Addresses
    BY <1>2, BeforeHosts
  <1>5. a = A /\ n = start[1] /\ A \in Addresses /\ B \in Addresses /\ A # B
    <2>1. a = A
      BY <1>3, <1>4
    <2>2. DOMAIN SetToBag({start[1]}) = {start[1]}
      BY DEF SetToBag
    <2> QED BY <1>3, <1>4, <2>1, <2>2, TheFlow
  <1>6. HostInv(hosts[A], n, Only(B)) /\ HostInv(d, n, Only(A))
    BY <1>2, <1>4, <1>5
  <1>7. /\ Body(h, n, Only(B)) /\ Waits(h, n) /\ h.clock = n /\ Same(h, hosts[A], {"clock", "timers"})
    BY <1>2, <1>6, WokenLemma
  <1>8. h.timers = EmptyBag
    <2>1. DOMAIN hosts[A] = Members
      BY <1>6 DEF HostInv, Body, Names
    <2>2. h.timers = hosts[A].timers (-) SetToBag({n})
      BY <2>1 DEF Woken, Members
    <2> HIDE DEF h
    <2>3. hosts[A].timers = SetToBag({n})
      BY <1>4, <1>5
    <2>4. h.timers = SetToBag({n}) (-) SetToBag({n})
      BY ONLY <2>2, <2>3
    <2>5. SetToBag({n}) (-) SetToBag({n}) = EmptyBag
      BY ONLY BagOne, Zenon
    <2> QED BY ONLY <2>4, <2>5
  <1>9. Awake(A) = h
    BY <1>0, <1>5, AwakeIsWoken
  <1>10. /\ Return(g, others, net) /\ copies' = [copies EXCEPT ![1] = <<>>] /\ begun' = begun \cup {1}
         /\ UNCHANGED <<losses, start, torn>>
    <2>1. h.dest_map[h.clock] = 1
      <3>1. h.dest_map = hosts[A].dest_map
        BY <1>7 DEF Same, Members
      <3> HIDE DEF h
      <3> QED BY <1>4, <1>5, <1>7, <3>1
    <2> HIDE DEF h
    <2>2. \E k \in {h.dest_map[h.clock]} :
             /\ \E e \in {HandleTimer([Set(Sync(h, k), 1) EXCEPT !.last_transmit = h.clock])} :
                   Return(e, [hosts EXCEPT ![Flows[k].to] = BecomeDestination(@, k)], net)
             /\ copies' = [copies EXCEPT ![k] = <<>>]
             /\ begun' = begun \cup {k}
      BY <1>5, <1>9 DEF StartFlow
    <2>3. UNCHANGED <<losses, start, torn>>
      BY DEF StartFlow
    <2> QED BY <2>1, <2>2, <2>3 DEF B
  <1>11. PICK dup \in {0, 1} : /\ src = F!FreshSrc(dup) /\ dst = F!FreshDst
                               /\ hosts = [c \in Addresses |-> FreshHost(c, dup, start)]
    BY BeforeSeen
  <1>12. h.dup_ack_count = dup
    <2>1. hosts[A].dup_ack_count = dup
      BY <1>5, <1>11 DEF FreshHost
    <2> HIDE DEF h
    <2> QED BY <1>7, <2>1 DEF Same, Members
  <1>13. /\ SrcOf(g, n, <<>>)
              = F!SendControl(F!Arm([F!FreshSrc(h.dup_ack_count) EXCEPT !.dest_map = FALSE], 1))
         /\ Sends(g, n) /\ Timed(g)
    <2>1. /\ h.in_file = hosts[A].in_file /\ h.dest_map = hosts[A].dest_map
          /\ h.retransmit_pkt = hosts[A].retransmit_pkt /\ h.out = hosts[A].out
          /\ h.text = hosts[A].text /\ h.out_file = hosts[A].out_file /\ h.address = hosts[A].address
      BY <1>7 DEF Same, Members
    <2> HIDE DEF h
    <2>2. ~h.died
      BY <1>7 DEF Waits
    <2>3. DOMAIN h.dest_map \subseteq {n}
      BY <1>4, <1>5, <2>1
    <2>4. h.address = A /\ h.in_file.is_open = FALSE /\ h.retransmit_pkt = NULL /\ h.out = NothingOut
      BY <1>4, <2>1
    <2>5. h.text = <<>> /\ h.out_file = 0
      BY <1>4, <2>1
    <2>6. Body(h, n, Only(B)) /\ h.clock = n
      BY <1>7
    <2> HIDE DEF g
    <2> QED BY ONLY <1>2, <1>8, <2>2, <2>3, <2>4, <2>5, <2>6, SourceStarts DEF g
  <1> HIDE DEF h
  <1>14. /\ DstOf(b, n, <<>>, <<>>) = F!FreshDst
         /\ Body(b, n, Only(A)) /\ DstRole(b) /\ Timed(b) /\ b.out = NothingOut /\ b.text = <<>>
         /\ b.address = B /\ b.retrans_bit = 0
    <2>1. Body(d, n, Only(A))
      BY <1>6 DEF HostInv
    <2> HIDE DEF d
    <2> QED BY <1>2, <1>4, <2>1, DestinationStarts
  <1>15. hosts' = [others EXCEPT ![g.address] = r] /\ net' = Leave(g, net, n)
    BY <1>0, <1>10, ReturnLemma
  <1>16. g.address = A
    BY <1>13 DEF Sends, SrcRole
  <1> HIDE DEF g, r, b
  <1>17. /\ hosts'[A] = r /\ hosts'[B] = b
         /\ \A c \in Addresses \ {A, B} : hosts'[c] = hosts[c]
    BY <1>4, <1>5, <1>15, <1>16 DEF b
  <1> HIDE DEF others, d
  <1>18. g.retrans_bit # 0 => g.retrans > 0
    <2>1. SrcOf(g, n, <<>>).retrans = TRUE
      BY <1>13 DEF F!SendControl, F!Send, F!Arm, F!FreshSrc
    <2>2. Running(g, n) = TRUE
      BY <2>1 DEF SrcOf
    <2> QED BY <2>2 DEF Running
  <1>19. /\ DOMAIN net = Addresses \X Addresses /\ \A l \in DOMAIN net : net[l] = <<>> /\ net[l] \in Seq(Sent)
    BY DEF Before
  <1>20. /\ net'[Out] = net[Out] \o Stamped(g.out[B], n)
         /\ \A l \in DOMAIN net : l # Out => net'[l] = net[l]
         /\ DOMAIN net' = DOMAIN net
    <2>1. Body(g, n, Only(B))
      BY <1>13 DEF Sends
    <2>2. n \in Nat
      BY <1>2
    <2>3. A \in Addresses
      BY <1>5
    <2>4. B \in Addresses
      BY <1>5
    <2>5. Carries(net)
      BY <1>19 DEF Carries
    <2>6. Leaves(net, Leave(g, net, n), <<A, B>>, g.out[B], n)
      BY <1>16, <2>1, <2>2, <2>3, <2>4, <2>5, LeaveSeen
    <2> QED BY <1>15, <2>6 DEF Out, Leaves
  <1>21. Out \in DOMAIN net /\ Home \in DOMAIN net /\ Out # Home
    BY <1>5, <1>19 DEF Out, Home
  <1> DEFINE e == <<>>
  <1>22. e \in Seq(Sent) /\ net[Out] = e /\ net'[Home] = e /\ OutPath(e) /\ HomePath(e)
    BY <1>19, <1>20, <1>21 DEF OutPath, HomePath
  <1>23. ToDsts(Cargo(e)) = <<>> /\ ToSrcs(Cargo(e)) = <<>> /\ Numbers(<<>>) = <<>>
    BY DEF ToDsts, ToSrcs, Cargo, Numbers
  <1> HIDE DEF e
  <1>24. /\ SrcRests(r, n)
         /\ SrcSeen(r, n, e \o Stamped(g.out[B], n)) = SrcOf(g, n, ToDsts(Cargo(e)))
    BY <1>2, <1>13, <1>18, <1>22, SrcReturns DEF r
  <1>25. OutPath(e \o Stamped(g.out[B], n))
    BY <1>2, <1>13, <1>22, OutGrows
  <1>26. DstRests(b, n)
    BY <1>14 DEF DstRests
  <1>27. copies'[1] = <<>> /\ DOMAIN copies' = FlowIds
    BY <1>10, TheFlow DEF Before
  <1>28. Going(hosts', n, net', begun', copies')
    <2>1. begun' = {1}
      BY <1>10 DEF Before
    <2>2. \A c \in Addresses \ {A, B} : DOMAIN hosts'[c].timers = {}
      BY <1>4, <1>17
    <2>3. \A l \in Addresses \X Addresses : l \notin {Out, Home} => net'[l] = <<>>
      BY <1>19, <1>20
    <2>4. OutPath(net'[Out]) /\ HomePath(net'[Home])
      BY <1>20, <1>22, <1>25
    <2>5. copies'[1] \in Seq(Payloads)
      BY <1>27
    <2> QED BY <1>17, <1>24, <1>26, <1>27, <2>1, <2>2, <2>3, <2>4, <2>5 DEF Going
  <1>29. /\ src' = SrcSeen(hosts'[A], n, net'[Out])
         /\ dst' = DstSeen(hosts'[B], n, net'[Home], copies'[1])
    BY <1>0, <1>28, GoingSrc, GoingDst, ViewsNext
  <1>30. src' = F!SendControl(F!Arm([F!FreshSrc(dup) EXCEPT !.dest_map = FALSE], 1))
    BY <1>12, <1>13, <1>17, <1>20, <1>22, <1>23, <1>24, <1>29
  <1>31. dst' = F!FreshDst
    BY <1>14, <1>17, <1>22, <1>23, <1>27, <1>29 DEF DstSeen
  <1>32. /\ src.dest_map /\ src.sync_bit = 1 /\ src.term_bit = 0 /\ ~src.retrans
         /\ src.dup_ack_count = dup
    BY <1>11 DEF F!FreshSrc
  <1>33. F!Start
    BY <1>10, <1>30, <1>31, <1>32 DEF F!Start
  <1>34. During'
    BY <1>0, <1>28 DEF During
  <1> QED BY <1>33, <1>34

---------------------------------------------------------------------------
(* Steps of a flow that has started.                                       *)

\* Time passes up to the next event.
LEMMA GoingLater ==
    ASSUME NEW m \in Nat, NEW n \in Nat, m =< n, NEW hs, NEW ch, NEW bg, NEW cp, NEW R,
           Going(hs, m, ch, bg, cp), HostsInv(hs, R, m),
           \A c \in Addresses : \A x \in DOMAIN hs[c].timers : n =< x
    PROVE  /\ Going(hs, n, ch, bg, cp)
           /\ HostInv(hs[A], n, Only(B)) /\ HostInv(hs[B], n, Only(A))
           /\ SrcView(hs, n, ch, bg) = SrcView(hs, m, ch, bg)
           /\ DstView(hs, n, ch, cp) = DstView(hs, m, ch, cp)
  <1> DEFINE h == hs[A]
             d == hs[B]
  <1>1. A \in Addresses /\ B \in Addresses
    BY TheFlow
  <1>2. HostInv(h, m, Peers(R, A)) /\ HostInv(d, m, Peers(R, B))
    BY <1>1 DEF HostsInv
  <1>3. SrcRests(h, m) /\ DstRests(d, m)
    BY DEF Going
  <1>4. (\A x \in DOMAIN h.timers : n =< x) /\ (\A x \in DOMAIN d.timers : n =< x)
    BY <1>1
  <1> HIDE DEF h, d
  <1>5. SrcRests(h, n) /\ HostInv(h, n, Only(B)) /\ \A q : SrcOf(h, n, q) = SrcOf(h, m, q)
    BY <1>2, <1>3, <1>4, SrcLater
  <1>6. DstRests(d, n) /\ HostInv(d, n, Only(A)) /\ \A q : \A file : DstOf(d, n, q, file) = DstOf(d, m, q, file)
    BY <1>2, <1>3, <1>4, DstLater
  <1>7. Going(hs, n, ch, bg, cp)
    BY <1>5, <1>6 DEF Going, h, d
  <1>8. SrcView(hs, n, ch, bg) = SrcView(hs, m, ch, bg)
    <2>1. SrcView(hs, n, ch, bg) = SrcSeen(h, n, ch[Out])
      BY <1>7, GoingSrc DEF h
    <2>2. SrcView(hs, m, ch, bg) = SrcSeen(h, m, ch[Out])
      BY GoingSrc DEF h
    <2> QED BY <1>5, <2>1, <2>2 DEF SrcSeen
  <1>9. DstView(hs, n, ch, cp) = DstView(hs, m, ch, cp)
    <2>1. DstView(hs, n, ch, cp) = DstSeen(d, n, ch[Home], cp[1])
      BY <1>7, GoingDst DEF d
    <2>2. DstView(hs, m, ch, cp) = DstSeen(d, m, ch[Home], cp[1])
      BY GoingDst DEF d
    <2> QED BY <1>6, <2>1, <2>2 DEF DstSeen
  <1> QED BY <1>5, <1>6, <1>7, <1>8, <1>9 DEF h, d

\* The flow has two hosts and two paths.
LEMMA Apart == A # B /\ A \in Addresses /\ B \in Addresses /\ Out # Home
               /\ Out \in Addresses \X Addresses /\ Home \in Addresses \X Addresses
  BY TheFlow DEF Out, Home

\* The hosts and the network when the handler of g.address has returned.
Returned(hs, g) == [hs EXCEPT ![g.address] = Rest(g)]

\* A handler of the source returns.
LEMMA SrcReturned ==
    ASSUME NEW n \in Nat, NEW hs, DOMAIN hs = Addresses, NEW ch, Carries(ch), NEW bg, NEW cp,
           Going(hs, n, ch, bg, cp), NEW g, Sends(g, n), Timed(g), g.retrans_bit # 0 => g.retrans > 0
    PROVE  /\ Going(Returned(hs, g), n, Leave(g, ch, n), bg, cp)
           /\ SrcView(Returned(hs, g), n, Leave(g, ch, n), bg) = SrcOf(g, n, ToDsts(Cargo(ch[Out])))
           /\ DstView(Returned(hs, g), n, Leave(g, ch, n), cp) = DstView(hs, n, ch, cp)
  <1> DEFINE hs2 == Returned(hs, g)
             ch2 == Leave(g, ch, n)
  <1>1. g.address = A /\ Body(g, n, Only(B))
    BY DEF Sends, SrcRole
  <1>2. hs2[A] = Rest(g) /\ \A c \in Addresses \ {A} : hs2[c] = hs[c]
    BY <1>1, Apart DEF Returned
  <1>3. Leaves(ch, ch2, <<A, B>>, g.out[B], n)
    BY <1>1, Apart, LeaveSeen
  <1> HIDE DEF hs2, ch2
  <1>4. ch2[Out] = ch[Out] \o Stamped(g.out[B], n) /\ \A l \in DOMAIN ch : l # Out => ch2[l] = ch[l]
    BY <1>3 DEF Leaves, Out
  <1>5. OutPath(ch[Out]) /\ ch[Out] \in Seq(Sent)
    BY DEF Going, OutPath
  <1>6. OutPath(ch2[Out])
    BY <1>4, <1>5, OutGrows
  <1>7. /\ SrcRests(Rest(g), n)
        /\ SrcSeen(Rest(g), n, ch[Out] \o Stamped(g.out[B], n)) = SrcOf(g, n, ToDsts(Cargo(ch[Out])))
    BY <1>5, SrcReturns
  <1>8. Home \in DOMAIN ch /\ DOMAIN ch = Addresses \X Addresses
    BY Apart DEF Carries
  <1>9. ch2[Home] = ch[Home] /\ hs2[B] = hs[B]
    BY <1>2, <1>4, <1>8, Apart
  <1>10. Going(hs2, n, ch2, bg, cp)
    <2>1. \A c \in Addresses \ {A, B} : DOMAIN hs2[c].timers = {}
      BY <1>2 DEF Going
    <2>2. \A l \in Addresses \X Addresses : l \notin {Out, Home} => ch2[l] = <<>>
      BY <1>4, <1>8 DEF Going
    <2> QED BY <1>2, <1>6, <1>7, <1>9, <2>1, <2>2 DEF Going
  <1>11. SrcView(hs2, n, ch2, bg) = SrcSeen(hs2[A], n, ch2[Out])
    BY <1>10, GoingSrc
  <1>12. /\ DstView(hs2, n, ch2, cp) = DstSeen(hs2[B], n, ch2[Home], cp[1])
         /\ DstView(hs, n, ch, cp) = DstSeen(hs[B], n, ch[Home], cp[1])
    BY <1>10, GoingDst
  <1> QED BY <1>2, <1>4, <1>7, <1>9, <1>10, <1>11, <1>12 DEF hs2, ch2

\* What the handler that leaves g adds to the copy.
Copied(cp, g, new) == new[1] = cp[1] \o g.text /\ DOMAIN new = FlowIds

\* A handler of the destination returns.
LEMMA DstReturned ==
    ASSUME NEW n \in Nat, NEW hs, DOMAIN hs = Addresses, NEW ch, Carries(ch), NEW bg, NEW cp,
           Going(hs, n, ch, bg, cp), NEW g, Takes(g, n), Timed(g), g.retrans_bit # 0 => g.retrans > 0,
           NEW cp2, Copied(cp, g, cp2)
    PROVE  /\ Going(Returned(hs, g), n, Leave(g, ch, n), bg, cp2)
           /\ DstView(Returned(hs, g), n, Leave(g, ch, n), cp2)
                 = DstOf(g, n, ToSrcs(Cargo(ch[Home])), Numbers(cp[1]))
           /\ SrcView(Returned(hs, g), n, Leave(g, ch, n), bg) = SrcView(hs, n, ch, bg)
  <1> DEFINE hs2 == Returned(hs, g)
             ch2 == Leave(g, ch, n)
  <1>0. cp2[1] = cp[1] \o g.text /\ DOMAIN cp2 = FlowIds
    BY DEF Copied
  <1>1. g.address = B /\ Body(g, n, Only(A)) /\ g.text \in Seq(Payloads)
    BY DEF Takes, DstRole, Writes
  <1>2. hs2[B] = Rest(g) /\ \A c \in Addresses \ {B} : hs2[c] = hs[c]
    BY <1>1, Apart DEF Returned
  <1>3. Leaves(ch, ch2, <<B, A>>, g.out[A], n)
    BY <1>1, Apart, LeaveSeen
  <1> HIDE DEF hs2, ch2
  <1>4. ch2[Home] = ch[Home] \o Stamped(g.out[A], n) /\ \A l \in DOMAIN ch : l # Home => ch2[l] = ch[l]
    BY <1>3 DEF Leaves, Home
  <1>5. HomePath(ch[Home]) /\ ch[Home] \in Seq(Sent) /\ cp[1] \in Seq(Payloads)
    BY DEF Going, HomePath
  <1>6. HomePath(ch2[Home])
    BY <1>4, <1>5, HomeGrows
  <1>7. /\ DstRests(Rest(g), n)
        /\ DstSeen(Rest(g), n, ch[Home] \o Stamped(g.out[A], n), cp[1] \o g.text)
              = DstOf(g, n, ToSrcs(Cargo(ch[Home])), Numbers(cp[1]))
    BY <1>5, DstReturns
  <1>8. Out \in DOMAIN ch /\ DOMAIN ch = Addresses \X Addresses
    BY Apart DEF Carries
  <1>9. ch2[Out] = ch[Out] /\ hs2[A] = hs[A]
    BY <1>2, <1>4, <1>8, Apart
  <1>10. Going(hs2, n, ch2, bg, cp2)
    <2>1. \A c \in Addresses \ {A, B} : DOMAIN hs2[c].timers = {}
      BY <1>2 DEF Going
    <2>2. \A l \in Addresses \X Addresses : l \notin {Out, Home} => ch2[l] = <<>>
      BY <1>4, <1>8 DEF Going
    <2>3. cp2[1] \in Seq(Payloads)
      BY <1>0, <1>1, <1>5, NumbersConcat
    <2> QED BY <1>0, <1>2, <1>6, <1>7, <1>9, <2>1, <2>2, <2>3 DEF Going
  <1>11. DstView(hs2, n, ch2, cp2) = DstSeen(hs2[B], n, ch2[Home], cp2[1])
    BY <1>10, GoingDst
  <1>12. /\ SrcView(hs2, n, ch2, bg) = SrcSeen(hs2[A], n, ch2[Out])
         /\ SrcView(hs, n, ch, bg) = SrcSeen(hs[A], n, ch[Out])
    BY <1>10, GoingSrc
  <1> QED BY <1>0, <1>2, <1>4, <1>7, <1>9, <1>10, <1>11, <1>12 DEF hs2, ch2

\* The network without the first packet of l.
Without(ch, l) == [ch EXCEPT ![l] = Tail(@)]

\* The head of a path is taken, and Fdtp's channel loses its head.
LEMMA TakenOut ==
    ASSUME NEW n, NEW hs, NEW ch, Carries(ch), NEW bg, NEW cp, Going(hs, n, ch, bg, cp), ch[Out] # <<>>
    PROVE  /\ Going(hs, n, Without(ch, Out), bg, cp) /\ Carries(Without(ch, Out))
           /\ SrcView(hs, n, Without(ch, Out), bg) = F!Received(SrcView(hs, n, ch, bg))
           /\ DstView(hs, n, Without(ch, Out), cp) = DstView(hs, n, ch, cp)
           /\ SrcView(hs, n, ch, bg).out # <<>>
           /\ Head(SrcView(hs, n, ch, bg).out) = ToDst(Head(ch[Out]).packet)
           /\ Head(ch[Out]).packet.ACK = 0
  <1> DEFINE path == ch[Out]
             ch2 == Without(ch, Out)
             c == Cargo(path)
             q == ToDsts(c)
             h == hs[A]
  <1>1. path \in Seq(Sent) /\ OutPath(path)
    BY DEF Going, OutPath
  <1>2. /\ Tail(path) \in Seq(Sent) /\ c # <<>> /\ Head(c) = Head(path).packet
        /\ Cargo(Tail(path)) = Tail(c) /\ c \in Seq(PacketType)
    BY <1>1, CargoTail, CargoType
  <1>3. OutPath(Tail(path)) /\ Head(path).packet.ACK = 0
    BY <1>1, PathsTail
  <1>4. q # <<>> /\ Head(q) = ToDst(Head(path).packet) /\ Tail(q) = ToDsts(Cargo(Tail(path))) /\ q \in Seq(Wire)
    BY <1>2, ToDstsTail, ToDstsType
  <1>5. Out \in DOMAIN ch /\ Home \in DOMAIN ch /\ Out # Home /\ DOMAIN ch = Addresses \X Addresses
    BY Apart DEF Carries
  <1>6. DOMAIN ch2 = DOMAIN ch /\ ch2[Out] = Tail(path) /\ \A l \in DOMAIN ch : l # Out => ch2[l] = ch[l]
    BY <1>5 DEF Without
  <1> HIDE DEF ch2
  <1>7. Carries(ch2)
    BY <1>2, <1>5, <1>6 DEF Carries
  <1>8. Going(hs, n, ch2, bg, cp)
    <2>1. \A l \in Addresses \X Addresses : l \notin {Out, Home} => ch2[l] = <<>>
      BY <1>5, <1>6 DEF Going
    <2> QED BY <1>3, <1>5, <1>6, <2>1 DEF Going
  <1>9. SrcView(hs, n, ch, bg) = SrcOf(h, n, q) /\ SrcView(hs, n, ch2, bg) = SrcOf(h, n, Tail(q))
    <2>1. SrcView(hs, n, ch, bg) = SrcSeen(hs[A], n, ch[Out])
      BY GoingSrc
    <2>2. SrcView(hs, n, ch2, bg) = SrcSeen(hs[A], n, ch2[Out])
      BY ONLY <1>8, GoingSrc
    <2> QED BY <1>4, <1>6, <2>1, <2>2 DEF SrcSeen
  <1>10. DstView(hs, n, ch2, cp) = DstView(hs, n, ch, cp)
    <2>1. DstView(hs, n, ch, cp) = DstSeen(hs[B], n, ch[Home], cp[1])
      BY GoingDst
    <2>2. DstView(hs, n, ch2, cp) = DstSeen(hs[B], n, ch2[Home], cp[1])
      BY ONLY <1>8, GoingDst
    <2> QED BY <1>5, <1>6, <2>1, <2>2
  <1>11. ToDsts(h.out[B]) = <<>>
    <2>1. h.out[B] = <<>>
      BY NothingFor DEF Going, SrcRests
    <2> QED BY <2>1 DEF ToDsts
  <1> HIDE DEF q, h
  <1>12. Tail(q) \in Seq(Wire) /\ q \o <<>> = q /\ Tail(q) \o <<>> = Tail(q)
    <2>1. Tail(q) \in Seq(Wire)
      BY <1>4
    <2> QED BY <1>4, <2>1, NothingAfter
  <1> DEFINE u == SrcOf(h, n, q)
             v == SrcOf(h, n, Tail(q))
  <1>13. u.out = q /\ v.out = Tail(q) /\ F!IsSrc(u) /\ F!IsSrc(v)
    BY <1>11, <1>12, SrcIsSrc DEF SrcOf
  <1>14. \A f \in F!SrcFields : f # "out" => v[f] = u[f]
    BY SrcOutOnly
  <1> HIDE DEF u, v
  <1>15. v = F!Received(u)
    BY <1>13, <1>14 DEF F!Received, F!IsSrc, F!SrcFields
  <1> QED BY <1>3, <1>4, <1>7, <1>8, <1>9, <1>10, <1>13, <1>15 DEF u, v, ch2

LEMMA DstOutOnly ==
    ASSUME NEW h, NEW n, NEW q, NEW s, NEW file, NEW f \in F!DstFields, f # "out"
    PROVE  DstOf(h, n, q, file)[f] = DstOf(h, n, s, file)[f]
  <1> DEFINE u == DstOf(h, n, q, file)
             v == DstOf(h, n, s, file)
  <1>1. /\ u.sync_bit = v.sync_bit /\ u.term_bit = v.term_bit /\ u.retrans = v.retrans
        /\ u.retrans_bit = v.retrans_bit /\ u.timers = v.timers
    BY DEF DstOf
  <1>2. /\ u.recv_so_far = v.recv_so_far /\ u.recv_window = v.recv_window /\ u.ter_seq = v.ter_seq
        /\ u.out_file = v.out_file
    BY DEF DstOf
  <1> HIDE DEF u, v
  <1>3. u[f] = v[f]
    BY <1>1, <1>2 DEF F!DstFields
  <1> QED BY <1>3 DEF u, v

\* So is the head of the path home.
LEMMA TakenHome ==
    ASSUME NEW n, NEW hs, NEW ch, Carries(ch), NEW bg, NEW cp, Going(hs, n, ch, bg, cp), ch[Home] # <<>>
    PROVE  /\ Going(hs, n, Without(ch, Home), bg, cp) /\ Carries(Without(ch, Home))
           /\ DstView(hs, n, Without(ch, Home), cp) = F!Received(DstView(hs, n, ch, cp))
           /\ SrcView(hs, n, Without(ch, Home), bg) = SrcView(hs, n, ch, bg)
           /\ DstView(hs, n, ch, cp).out # <<>>
           /\ Head(DstView(hs, n, ch, cp).out) = ToSrc(Head(ch[Home]).packet)
           /\ Head(ch[Home]).packet.ACK = Head(ch[Home]).packet.FIN
  <1> DEFINE path == ch[Home]
             ch2 == Without(ch, Home)
             c == Cargo(path)
             q == ToSrcs(c)
             h == hs[B]
             e == Numbers(cp[1])
  <1>1. path \in Seq(Sent) /\ HomePath(path)
    BY DEF Going, HomePath
  <1>2. /\ Tail(path) \in Seq(Sent) /\ c # <<>> /\ Head(c) = Head(path).packet
        /\ Cargo(Tail(path)) = Tail(c) /\ c \in Seq(PacketType)
    BY <1>1, CargoTail, CargoType
  <1>3. HomePath(Tail(path)) /\ Head(path).packet.ACK = Head(path).packet.FIN
    BY <1>1, PathsTail
  <1>4. q # <<>> /\ Head(q) = ToSrc(Head(path).packet) /\ Tail(q) = ToSrcs(Cargo(Tail(path))) /\ q \in Seq(Back)
    BY <1>2, ToSrcsTail, ToSrcsType
  <1>5. Out \in DOMAIN ch /\ Home \in DOMAIN ch /\ Out # Home /\ DOMAIN ch = Addresses \X Addresses
    BY Apart DEF Carries
  <1>6. DOMAIN ch2 = DOMAIN ch /\ ch2[Home] = Tail(path) /\ \A l \in DOMAIN ch : l # Home => ch2[l] = ch[l]
    BY <1>5 DEF Without
  <1> HIDE DEF ch2
  <1>7. Carries(ch2)
    BY <1>2, <1>5, <1>6 DEF Carries
  <1>8. Going(hs, n, ch2, bg, cp)
    <2>1. \A l \in Addresses \X Addresses : l \notin {Out, Home} => ch2[l] = <<>>
      BY <1>5, <1>6 DEF Going
    <2> QED BY <1>3, <1>5, <1>6, <2>1 DEF Going
  <1>9. DstView(hs, n, ch, cp) = DstOf(h, n, q, e) /\ DstView(hs, n, ch2, cp) = DstOf(h, n, Tail(q), e)
    <2>1. DstView(hs, n, ch, cp) = DstSeen(hs[B], n, ch[Home], cp[1])
      BY GoingDst
    <2>2. DstView(hs, n, ch2, cp) = DstSeen(hs[B], n, ch2[Home], cp[1])
      BY ONLY <1>8, GoingDst
    <2> QED BY <1>4, <1>6, <2>1, <2>2 DEF DstSeen
  <1>10. SrcView(hs, n, ch2, bg) = SrcView(hs, n, ch, bg)
    <2>1. SrcView(hs, n, ch, bg) = SrcSeen(hs[A], n, ch[Out])
      BY GoingSrc
    <2>2. SrcView(hs, n, ch2, bg) = SrcSeen(hs[A], n, ch2[Out])
      BY ONLY <1>8, GoingSrc
    <2> QED BY <1>5, <1>6, <2>1, <2>2
  <1>11. ToSrcs(h.out[A]) = <<>>
    <2>1. h.out[A] = <<>>
      BY NothingFor DEF Going, DstRests
    <2> QED BY <2>1 DEF ToSrcs
  <1> HIDE DEF q, h, e
  <1>12. Tail(q) \in Seq(Back) /\ q \o <<>> = q /\ Tail(q) \o <<>> = Tail(q)
    <2>1. Tail(q) \in Seq(Back)
      BY <1>4
    <2> QED BY <1>4, <2>1, NothingAfter
  <1> DEFINE u == DstOf(h, n, q, e)
             v == DstOf(h, n, Tail(q), e)
  <1>13. u.out = q /\ v.out = Tail(q) /\ F!IsDst(u) /\ F!IsDst(v)
    BY <1>11, <1>12, DstIsDst DEF DstOf
  <1>14. \A f \in F!DstFields : f # "out" => v[f] = u[f]
    BY DstOutOnly
  <1> HIDE DEF u, v
  <1>15. v = F!Received(u)
    BY <1>13, <1>14 DEF F!Received, F!IsDst, F!DstFields
  <1> QED BY <1>3, <1>4, <1>7, <1>8, <1>9, <1>10, <1>13, <1>15 DEF u, v, ch2

\* Fdtp's assumption on MAX_QUEUE is Hosts's.
LEMMA QueueLong == MAX_QUEUE \in Nat /\ MAX_QUEUE > Chunks + 3
  BY ChunksAssumption DEF MAX_QUEUE

\* What Fdtp's invariant says of what an event finds.
LEMMA Found ==
    ASSUME F!IInv
    PROVE  /\ src.sync_bit \in {1, 3} /\ (src.sync_bit = 1 => src.term_bit = 0)
           /\ dst.sync_bit # 3 => dst.term_bit = 0
           /\ dst.sync_bit # 2 => dst.retrans_bit = 0
           /\ dst.recv_so_far \in 0..F!FinId /\ DOMAIN dst.recv_window \subseteq 0..F!FinId
           /\ src.out # <<>> => F!Pkt.sync_bit \in {1, 3} /\ F!Pkt.id =< F!FinId
           /\ dst.out # <<>> => F!Ack.sync_bit \in 2..3 /\ (F!Ack.FIN = 1 => F!Ack.sync_bit = 3)
           /\ Len(src.out) + Len(dst.out) \in Nat
  BY F!BetweenEvents, QueueLong, ChunksAssumption, WindowsAssumption, LossesAssumption

\* The two views of a flow that has started, at a later time n up to which nothing happens.
Seen(n) == /\ n \in Nat /\ now =< n
           /\ Going(hosts, n, net, begun, copies)
           /\ HostInv(hosts[A], n, Only(B)) /\ HostInv(hosts[B], n, Only(A))
           /\ src = SrcView(hosts, n, net, begun) /\ dst = DstView(hosts, n, net, copies)
           /\ DOMAIN hosts = Addresses /\ Carries(net)

\* Nothing that is seen happens between two events.
LEMMA Passing ==
    ASSUME IInv, During, NEW n \in Nat, now =< n,
           \A c \in Addresses : \A x \in DOMAIN hosts[c].timers : n =< x
    PROVE  Seen(n)
  <1>1. now \in Nat /\ HostsInv(hosts, Met(hosts, begun), now) /\ NetInv(net, Met(hosts, begun), now)
    BY DEF IInv, FlowsInv
  <1>2. Going(hosts, now, net, begun, copies)
    BY DEF During
  <1>3. /\ Going(hosts, n, net, begun, copies)
        /\ HostInv(hosts[A], n, Only(B)) /\ HostInv(hosts[B], n, Only(A))
        /\ SrcView(hosts, n, net, begun) = SrcView(hosts, now, net, begun)
        /\ DstView(hosts, n, net, copies) = DstView(hosts, now, net, copies)
    BY ONLY n \in Nat, now =< n, <1>1, <1>2, GoingLater,
            \A c \in Addresses : \A x \in DOMAIN hosts[c].timers : n =< x
  <1>4. DOMAIN hosts = Addresses
    BY <1>1 DEF HostsInv
  <1>5. Carries(net)
    BY <1>1, NetPaths
  <1> QED BY <1>3, <1>4, <1>5, Views DEF Seen

\* A timer expires: it is the source's or the destination's.
LEMMA Rings ==
    ASSUME IInv, During, NEW a \in Addresses, Expire(a), NEW n, now' = n
    PROVE  /\ Seen(n) /\ a \in {A, B} /\ n \in DOMAIN hosts[a].timers
  <1>1. /\ n \in Nat /\ now =< n
        /\ \A b \in Addresses : \A x \in DOMAIN hosts[b].timers : n =< x
    BY ExpireLemma
  <1>2. n \in DOMAIN hosts[a].timers
    BY OnlyTimers
  <1>3. Seen(n)
    BY <1>1, Passing
  <1>4. a \in {A, B}
    <2>1. \A c \in Addresses \ {A, B} : DOMAIN hosts[c].timers = {}
      BY DEF During, Going
    <2> QED BY <1>2, <2>1
  <1> QED BY <1>2, <1>3, <1>4

\* A flow starts once.
LEMMA StartsOnce ==
    ASSUME IInv, During, NEW a \in Addresses
    PROVE  ~StartFlow(a)
  <1> SUFFICES ASSUME StartFlow(a) PROVE FALSE
    OBVIOUS
  <1>0. PICK n : now' = n
    BY DEF StartFlow, Expire
  <1>1. Expire(a) /\ Starts(Awake(a))
    BY DEF StartFlow
  <1>2. Seen(n) /\ a \in {A, B}
    BY <1>0, <1>1, Rings
  <1>3. Body(hosts[a], n, Only(A)) \/ Body(hosts[a], n, Only(B))
    BY <1>2 DEF Seen, HostInv
  <1>4. DOMAIN hosts[a].dest_map = {} /\ DOMAIN hosts[a] = Members
    BY <1>2, <1>3 DEF Seen, Going, SrcRests, DstRests, SrcRole, DstRole, Body, Names
  <1>5. Awake(a).dest_map = hosts[a].dest_map
    BY <1>4 DEF Awake, Members
  <1> QED BY <1>1, <1>4, <1>5 DEF Starts

\* The members of a view that only loses a timer.
LEMMA FewerTimers ==
    ASSUME NEW s, F!IsSrc(s), NEW u, u = [s EXCEPT !.timers = @ - 1]
    PROVE  /\ F!Arm(u, 1) = F!Rearm(s, 1) /\ F!Arm(u, 2) = F!Rearm(s, 2)
           /\ F!SrcPacket(u, u.sent_so_far, 0, 0) = F!SrcPacket(s, s.sent_so_far, 0, 0)
           /\ u.retransmit_pkt = s.retransmit_pkt
  <1>1. DOMAIN s = F!SrcFields
    BY DEF F!IsSrc
  <1>2. u.sync_bit = s.sync_bit /\ u.sent_so_far = s.sent_so_far /\ u.retransmit_pkt = s.retransmit_pkt
    BY <1>1 DEF F!SrcFields
  <1>3. F!Arm(u, 1) = F!Rearm(s, 1) /\ F!Arm(u, 2) = F!Rearm(s, 2)
    BY DEF F!Rearm
  <1> HIDE DEF F!Arm
  <1> QED BY <1>2, <1>3 DEF F!SrcPacket

\* The SYN's timer or the data timer.
LEMMA SrcRings ==
    ASSUME IInv, During, F!IInv, OtherTimer(A)
    PROVE  During' /\ F!SrcTimeout
  <1>0. PICK n : now' = n
    BY DEF OtherTimer, Expire
  <1> DEFINE h == hosts[A]
             w == Woken(h, n)
             g == HandleTimer(w)
             q == ToDsts(Cargo(net[Out]))
  <1>1. A \in Addresses /\ Expire(A) /\ UNCHANGED <<copies, losses, start, begun, torn>>
    BY Apart DEF OtherTimer
  <1>2. /\ Seen(n) /\ n \in DOMAIN h.timers /\ n \in Nat /\ SrcRests(h, n) /\ HostInv(h, n, Only(B))
        /\ Going(hosts, n, net, begun, copies) /\ DOMAIN hosts = Addresses /\ Carries(net)
    BY <1>0, <1>1, Rings DEF Seen, Going
  <1>3. Return(g, hosts, net)
    <2>1. Awake(A) = w
      BY <1>0, <1>1, AwakeIsWoken
    <2> HIDE DEF w
    <2> QED BY <2>1 DEF OtherTimer
  <1>4. q \in Seq(Wire)
    BY <1>2, CargoType, ToDstsType DEF Going, OutPath
  <1>5. src = SrcOf(h, n, q)
    BY <1>2, GoingSrc DEF Seen, SrcSeen
  <1>6. F!IsSrc(src)
    BY <1>5, SrcIsSrc
  <1> HIDE DEF q, h
  <1>7. /\ Sends(w, n) /\ Waits(w, n) /\ w.timers = EmptyBag /\ w.retrans = n /\ n > 0
        /\ w.retrans_bit = h.retrans_bit /\ h.retrans_bit # 0
        /\ SrcOf(w, n, q) = [SrcOf(h, n, q) EXCEPT !.timers = @ - 1]
        /\ SrcOf(h, n, q).timers = 1
    BY <1>2, SrcWoken
  <1> HIDE DEF w
  <1>8. /\ w.retrans_bit = 1 =>
              /\ SrcOf(g, n, q) = F!Send(F!Arm(SrcOf(w, n, q), 1),
                                         F!SrcPacket(SrcOf(w, n, q), SrcOf(w, n, q).sent_so_far, 0, 0))
              /\ Sends(g, n) /\ Timed(g)
        /\ w.retrans_bit = 2 =>
              /\ SrcOf(g, n, q) = [F!Send(F!Arm(SrcOf(w, n, q), 2), SrcOf(w, n, q).retransmit_pkt)
                                      EXCEPT !.window_size = 1]
              /\ Sends(g, n) /\ Timed(g)
    <2>1. n \in Nat \ {0}
      BY <1>2, <1>7
    <2>2. Sends(w, n) /\ Waits(w, n) /\ w.timers = EmptyBag /\ w.retrans = n
      BY <1>7
    <2> QED BY ONLY <1>4, <2>1, <2>2, SourceExpires
  <1>9. w.retrans_bit \in {1, 2} /\ w.retrans_bit = src.retrans_bit
    <2>1. Body(w, n, Only(B)) /\ src.retrans_bit = h.retrans_bit
      BY <1>5, <1>7, SrcPlainly DEF Sends, Plainly
    <2> QED BY <1>7, <2>1 DEF Body, Names
  <1>10. Armed(g) /\ Body(g, n, Only(B))
    BY <1>2, <1>7, OnlyEnds, HandleTimerLemma DEF Sends
  <1> HIDE DEF g
  <1>11. g.retrans_bit # 0 => g.retrans > 0
    <2>1. \A x \in DOMAIN g.timers : x \in Nat /\ n =< x
      BY <1>10 DEF Body, Timing
    <2>2. g.retrans_bit # 0 => g.retrans \in DOMAIN g.timers
      BY <1>10 DEF Armed
    <2> QED BY <1>2, <1>7, <2>1, <2>2
  <1>12. Sends(g, n) /\ Timed(g)
    BY <1>8, <1>9
  <1>13. hosts' = Returned(hosts, g) /\ net' = Leave(g, net, n)
    BY <1>0, <1>3, ReturnLemma DEF Returned
  <1>14. /\ Going(hosts', n, net', begun, copies)
         /\ SrcView(hosts', n, net', begun) = SrcOf(g, n, q)
         /\ DstView(hosts', n, net', copies) = DstView(hosts, n, net, copies)
    <2>1. n \in Nat /\ DOMAIN hosts = Addresses /\ Carries(net) /\ Going(hosts, n, net, begun, copies)
      BY <1>2
    <2>2. /\ Going(Returned(hosts, g), n, Leave(g, net, n), begun, copies)
          /\ SrcView(Returned(hosts, g), n, Leave(g, net, n), begun) = SrcOf(g, n, ToDsts(Cargo(net[Out])))
          /\ DstView(Returned(hosts, g), n, Leave(g, net, n), copies) = DstView(hosts, n, net, copies)
      BY ONLY <1>11, <1>12, <2>1, SrcReturned
    <2> QED BY <1>13, <2>2 DEF q
  <1>15. During'
    BY <1>0, <1>1, <1>14 DEF During
  <1>16. src' = SrcOf(g, n, q) /\ dst' = dst
    BY <1>0, <1>1, <1>2, <1>14, ViewsNext DEF Seen
  <1>17. F!MayResend(src)
    <2>1. src.timers = 1
      BY <1>5, <1>7
    <2>2. src.timers > 0
      BY <2>1
    <2>3. Len(src.out) + Len(dst.out) \in Nat
      BY Found
    <2> QED BY <2>2, <2>3 DEF F!MayResend
  <1>18. /\ F!Arm(SrcOf(w, n, q), 1) = F!Rearm(src, 1) /\ F!Arm(SrcOf(w, n, q), 2) = F!Rearm(src, 2)
         /\ F!SrcPacket(SrcOf(w, n, q), SrcOf(w, n, q).sent_so_far, 0, 0)
               = F!SrcPacket(src, src.sent_so_far, 0, 0)
         /\ SrcOf(w, n, q).retransmit_pkt = src.retransmit_pkt
    BY <1>5, <1>6, <1>7, FewerTimers
  <1>19. CASE w.retrans_bit = 1
    <2>1. src' = F!Send(F!Rearm(src, 1), F!SrcPacket(src, src.sent_so_far, 0, 0))
      BY <1>8, <1>16, <1>18, <1>19
    <2> QED BY <1>1, <1>9, <1>15, <1>16, <1>17, <1>19, <2>1 DEF F!SrcTimeout, F!SrcSynTimeout
  <1>20. CASE w.retrans_bit = 2
    <2>1. src' = [F!Send(F!Rearm(src, 2), src.retransmit_pkt) EXCEPT !.window_size = 1]
      BY <1>8, <1>16, <1>18, <1>20
    <2> QED BY <1>1, <1>9, <1>15, <1>16, <1>17, <1>20, <2>1 DEF F!SrcTimeout, F!SrcDataTimeout
  <1> QED BY <1>9, <1>19, <1>20

\* The SYN-ACK's timer.
LEMMA DstRings ==
    ASSUME IInv, During, F!IInv, OtherTimer(B)
    PROVE  During' /\ F!DstSynAckTimeout
  <1>0. PICK n : now' = n
    BY DEF OtherTimer, Expire
  <1> DEFINE h == hosts[B]
             w == Woken(h, n)
             g == HandleTimer(w)
             q == ToSrcs(Cargo(net[Home]))
             e == Numbers(copies[1])
  <1>1. B \in Addresses /\ Expire(B) /\ UNCHANGED <<copies, losses, start, begun, torn>>
    BY Apart DEF OtherTimer
  <1>2. /\ Seen(n) /\ n \in DOMAIN h.timers /\ n \in Nat /\ DstRests(h, n) /\ HostInv(h, n, Only(A))
        /\ Going(hosts, n, net, begun, copies) /\ DOMAIN hosts = Addresses /\ Carries(net)
        /\ copies[1] \in Seq(Payloads) /\ DOMAIN copies = FlowIds
    BY <1>0, <1>1, Rings DEF Seen, Going
  <1>3. Return(g, hosts, net)
    <2>1. Awake(B) = w
      BY <1>0, <1>1, AwakeIsWoken
    <2> HIDE DEF w
    <2> QED BY <2>1 DEF OtherTimer
  <1>4. q \in Seq(Back)
    BY <1>2, CargoType, ToSrcsType DEF Going, HomePath
  <1>5. dst = DstOf(h, n, q, e)
    BY <1>2, GoingDst DEF Seen, DstSeen
  <1> HIDE DEF q, h, e
  <1>7. /\ Takes(w, n) /\ w.timers = EmptyBag /\ w.retrans = n /\ n > 0
        /\ w.retrans_bit = 1 /\ w.sync_bit = h.sync_bit /\ w.text = <<>>
        /\ DstOf(w, n, q, e) = [DstOf(h, n, q, e) EXCEPT !.timers = @ - 1]
        /\ DstOf(h, n, q, e).timers = 1
        /\ Same(w, h, {"clock", "timers"})
    BY <1>2, DstWoken
  <1>8. Waits(w, n)
    BY <1>2, WokenLemma
  <1> HIDE DEF w
  <1>9. w.sync_bit = 2 /\ dst.retrans_bit = 1
    <2>1. /\ dst.retrans_bit = h.retrans_bit /\ dst.sync_bit = h.sync_bit
      BY <1>5, DstPlain DEF DstPlainly
    <2>2. h.retrans_bit = 1
      BY <1>7 DEF Same, Members
    <2> QED BY <1>7, <2>1, <2>2, Found
  <1>10. /\ DstOf(g, n, q, e) = F!SendAck(F!Arm(DstOf(w, n, q, e), 1))
         /\ Takes(g, n) /\ Timed(g)
    BY <1>2, <1>4, <1>7, <1>9, DestinationExpires
  <1>11. /\ Armed(g) /\ Body(g, n, Only(A))
         /\ Same(g, w, {"retrans", "timers", "sent_so_far", "window_size", "out"})
    BY <1>2, <1>7, <1>8, OnlyEnds, HandleTimerLemma DEF Takes
  <1> HIDE DEF g
  <1>12. g.retrans_bit # 0 => g.retrans > 0
    <2>1. \A x \in DOMAIN g.timers : x \in Nat /\ n =< x
      BY <1>11 DEF Body, Timing
    <2>2. g.retrans_bit # 0 => g.retrans \in DOMAIN g.timers
      BY <1>11 DEF Armed
    <2> QED BY <1>2, <1>7, <2>1, <2>2
  <1>13. hosts' = Returned(hosts, g) /\ net' = Leave(g, net, n)
    BY <1>0, <1>3, ReturnLemma DEF Returned
  <1>14. copies[1] = copies[1] \o g.text
    <2>1. g.text = <<>>
      BY <1>7, <1>11 DEF Same, Members
    <2> QED BY <1>2, <2>1
  <1>15. /\ Going(hosts', n, net', begun, copies)
         /\ DstView(hosts', n, net', copies) = DstOf(g, n, q, e)
         /\ SrcView(hosts', n, net', begun) = SrcView(hosts, n, net, begun)
    <2>1. n \in Nat /\ DOMAIN hosts = Addresses /\ Carries(net) /\ Going(hosts, n, net, begun, copies)
      BY <1>2
    <2>2. Takes(g, n) /\ Timed(g) /\ DOMAIN copies = FlowIds
      BY <1>2, <1>10
    <2>0. Copied(copies, g, copies)
      BY <1>2, <1>14 DEF Copied
    <2>3. /\ Going(Returned(hosts, g), n, Leave(g, net, n), begun, copies)
          /\ DstView(Returned(hosts, g), n, Leave(g, net, n), copies)
                = DstOf(g, n, ToSrcs(Cargo(net[Home])), Numbers(copies[1]))
          /\ SrcView(Returned(hosts, g), n, Leave(g, net, n), begun) = SrcView(hosts, n, net, begun)
      BY ONLY <1>12, <2>0, <2>1, <2>2, DstReturned
    <2> QED BY <1>13, <2>3 DEF q, e
  <1>16. During'
    BY <1>0, <1>1, <1>15 DEF During
  <1>17. dst' = DstOf(g, n, q, e) /\ src' = src
    BY <1>0, <1>1, <1>2, <1>15, ViewsNext DEF Seen
  <1>18. F!MayResend(dst)
    <2>1. dst.timers = 1
      BY <1>5, <1>7
    <2>2. dst.timers > 0
      BY <2>1
    <2>3. Len(src.out) + Len(dst.out) \in Nat
      BY Found
    <2> QED BY <2>2, <2>3 DEF F!MayResend
  <1>19. dst' = F!SendAck(F!Rearm(dst, 1))
    BY <1>5, <1>7, <1>10, <1>17 DEF F!Rearm
  <1> QED BY <1>1, <1>9, <1>16, <1>17, <1>18, <1>19 DEF F!DstSynAckTimeout

---------------------------------------------------------------------------
(* A packet is lost, or arrives.                                           *)

\* The next packet is due: it is one of the source's or one of the destination's.
LEMMA Comes ==
    ASSUME IInv, During, NEW l \in DOMAIN net, Due(l), NEW n, now' = n
    PROVE  /\ Seen(n) /\ n \in Nat \ {0} /\ l \in {Out, Home} /\ net[l] # <<>>
           /\ Head(net[l]).packet \in PacketType /\ Head(net[l]).packet.source = l[1]
           /\ \A c \in Addresses : \A x \in DOMAIN hosts[c].timers : n < x
  <1>1. /\ n \in Nat \ {0} /\ now =< n /\ net[l] # <<>>
        /\ Head(net[l]).packet \in PacketType /\ Head(net[l]).packet.source = l[1]
        /\ l \in Addresses \X Addresses
        /\ \A b \in Addresses : \A x \in DOMAIN hosts[b].timers : n =< x
    BY DueLemma
  <1>2. Seen(n)
    BY <1>1, Passing
  <1>3. l \in {Out, Home}
    BY <1>1, <1>2 DEF Seen, Going
  <1>4. \A c \in Addresses : \A x \in DOMAIN hosts[c].timers : n < x
    BY DEF Due, Timers
  <1> QED BY <1>1, <1>2, <1>3, <1>4

\* A full queue drops the packet.
LEMMA LoseSeen ==
    ASSUME IInv, During, NEW l \in DOMAIN net, Lose(l)
    PROVE  During' /\ (F!LosePacket \/ F!LoseAck)
  <1>0. PICK n : now' = n
    BY DEF Lose, Due
  <1>1. /\ Due(l) /\ losses < MaxLosses /\ losses' = losses + 1
        /\ net' = Without(net, l) /\ UNCHANGED <<hosts, copies, start, begun, torn, clash>>
    BY DEF Lose, Taken, Without
  <1>2. /\ Seen(n) /\ n \in Nat \ {0} /\ l \in {Out, Home} /\ net[l] # <<>>
        /\ Going(hosts, n, net, begun, copies) /\ Carries(net)
        /\ src = SrcView(hosts, n, net, begun) /\ dst = DstView(hosts, n, net, copies)
    BY <1>0, <1>1, Comes DEF Seen
  <1>3. F!MayLose
    BY <1>1 DEF F!MayLose
  <1>4. CASE l = Out
    <2>1. /\ Going(hosts, n, Without(net, Out), begun, copies)
          /\ SrcView(hosts, n, Without(net, Out), begun) = F!Received(SrcView(hosts, n, net, begun))
          /\ DstView(hosts, n, Without(net, Out), copies) = DstView(hosts, n, net, copies)
          /\ SrcView(hosts, n, net, begun).out # <<>>
      BY <1>2, <1>4, TakenOut
    <2>2. During'
      BY <1>0, <1>1, <1>4, <2>1 DEF During
    <2>3. src' = F!Received(src) /\ dst' = dst
      BY <1>0, <1>1, <1>2, <1>4, <2>1, ViewsNext
    <2> QED BY <1>2, <1>3, <2>1, <2>2, <2>3 DEF F!LosePacket, F!FromSrc
  <1>5. CASE l = Home
    <2>1. /\ Going(hosts, n, Without(net, Home), begun, copies)
          /\ DstView(hosts, n, Without(net, Home), copies) = F!Received(DstView(hosts, n, net, copies))
          /\ SrcView(hosts, n, Without(net, Home), begun) = SrcView(hosts, n, net, begun)
          /\ DstView(hosts, n, net, copies).out # <<>>
      BY <1>2, <1>5, TakenHome
    <2>2. During'
      BY <1>0, <1>1, <1>5, <2>1 DEF During
    <2>3. dst' = F!Received(dst) /\ src' = src
      BY <1>0, <1>1, <1>2, <1>5, <2>1, ViewsNext
    <2> QED BY <1>2, <1>3, <2>1, <2>2, <2>3 DEF F!LoseAck, F!FromDst
  <1> QED BY <1>2, <1>4, <1>5

\* The four kinds of Fdtp's arrivals at its source.
HearsSynAck(u, k, w) ==
    /\ u.term_bit = 0 /\ k.sync_bit = 2 /\ u.sync_bit = 1
    /\ w = F!SendFile(F!SendControl([F!Cancel(u) EXCEPT !.retrans = u.retrans, !.sync_bit = 3,
                                                        !.last_ack = 2]))
HearsAck(u, k, w) ==
    /\ u.sync_bit = 3 /\ k.FIN = 0
    /\ \E window \in Windows :
          w = F!SendFile(F!SentWindowSync(IF u.term_bit = 0 /\ k.sync_bit = 2 /\ u.retrans_bit # 2
                                          THEN F!SendControl(u) ELSE u, k.ack_id, window))
HearsFinAck(u, k, w) ==
    /\ u.sync_bit = 3 /\ k.FIN = 1 /\ u.term_bit = 1
    /\ \E window \in Windows : w = F!SentWindowSync([u EXCEPT !.term_bit = 2], k.ack_id, window)
HearsNothing(u, k, w) ==
    /\ u.sync_bit = 3 => k.FIN = 1 /\ u.term_bit # 1
    /\ u.sync_bit = 1 => k.sync_bit # 2
    /\ w = u

\* What the source hears, and whether it closes the flow on hearing it.
Hears(u, k, w, closed) ==
    \/ ~closed /\ (HearsSynAck(u, k, w) \/ HearsAck(u, k, w) \/ HearsNothing(u, k, w))
    \/ closed /\ HearsFinAck(u, k, w)

\* receive() on the source is one of Fdtp's events.
LEMMA SourceHears ==
    ASSUME NEW t \in Nat \ {0}, NEW h, Sends(h, t), HostInv(h, t, Only(B)), Timed(h), Later(h),
           h.sync_bit \in {1, 3}, h.sync_bit = 1 => h.term_bit = 0,
           NEW q \in Seq(Wire), NEW p, FromB(p), NEW window \in Windows
    PROVE  /\ Sends(Receive(h, p, window), t) /\ Timed(Receive(h, p, window))
           /\ Hears(SrcOf(h, t, q), ToSrc(p), SrcOf(Receive(h, p, window), t, q),
                    Receive(h, p, window).term_bit = 2 /\ h.term_bit # 2)
  <1> DEFINE g == Receive(h, p, window)
             u == SrcOf(h, t, q)
             w == SrcOf(g, t, q)
             k == ToSrc(p)
             closed == g.term_bit = 2 /\ h.term_bit # 2
  <1>1. Sends(g, t) /\ Timed(g) /\ SrcHears(h, g, p, window, u, w)
    BY SourceReceives
  <1>2. u.sync_bit = h.sync_bit /\ u.term_bit = h.term_bit /\ u.retrans_bit = h.retrans_bit
    BY SrcPlainly DEF Plainly
  <1>3. k.sync_bit = p.sync_bit /\ k.FIN = p.FIN /\ k.ack_id = p.ack_id
    BY DEF ToSrc
  <1> HIDE DEF g, u, w, k
  <1>4. Hears(u, k, w, closed)
    <2>1. CASE /\ h.sync_bit = 1 /\ p.sync_bit = 2 /\ g.term_bit # 2
               /\ w = F!SendFile(F!SendControl([F!Cancel(u) EXCEPT !.retrans = u.retrans,
                                                                   !.sync_bit = 3, !.last_ack = 2]))
      <3>1. HearsSynAck(u, k, w)
        BY <1>2, <1>3, <2>1 DEF HearsSynAck
      <3> QED BY <2>1, <3>1 DEF Hears
    <2>2. CASE /\ h.sync_bit = 3 /\ p.FIN = 0 /\ (g.term_bit = 2 => h.term_bit = 2)
               /\ w = F!SendFile(F!SentWindowSync(
                         IF h.term_bit = 0 /\ p.sync_bit = 2 /\ h.retrans_bit # 2
                         THEN F!SendControl(u) ELSE u, p.ack_id, window))
      <3>1. HearsAck(u, k, w)
        BY <1>2, <1>3, <2>2 DEF HearsAck
      <3> QED BY <2>2, <3>1 DEF Hears
    <2>3. CASE /\ h.sync_bit = 3 /\ p.FIN = 1 /\ h.term_bit = 1 /\ g.term_bit = 2
               /\ w = F!SentWindowSync([u EXCEPT !.term_bit = 2], p.ack_id, window)
      <3>1. HearsFinAck(u, k, w)
        BY <1>2, <1>3, <2>3 DEF HearsFinAck
      <3> QED BY <2>3, <3>1 DEF Hears
    <2>4. CASE /\ h.sync_bit = 3 => p.FIN = 1 /\ h.term_bit # 1
               /\ h.sync_bit = 1 => p.sync_bit # 2
               /\ w = u /\ g.term_bit = h.term_bit
      <3>1. HearsNothing(u, k, w)
        BY <1>2, <1>3, <2>4 DEF HearsNothing
      <3> QED BY <2>4, <3>1 DEF Hears
    <2> QED BY <1>1, <2>1, <2>2, <2>3, <2>4 DEF SrcHears
  <1> QED BY <1>1, <1>4 DEF g, u, w, k

\* The source closes the destination.
Shut(hs) == [hs EXCEPT ![B].term_bit = 2]

\* Closing the destination is seen as Fdtp's.
LEMMA ShutSeen ==
    ASSUME NEW n \in Nat, NEW hs, DOMAIN hs = Addresses, NEW ch, NEW bg, NEW cp, Going(hs, n, ch, bg, cp),
           HostInv(hs[B], n, Only(A))
    PROVE  /\ Going(Shut(hs), n, ch, bg, cp) /\ DOMAIN Shut(hs) = Addresses
           /\ SrcView(Shut(hs), n, ch, bg) = SrcView(hs, n, ch, bg)
           /\ DstView(Shut(hs), n, ch, cp) = [DstView(hs, n, ch, cp) EXCEPT !.term_bit = 2]
  <1> DEFINE h == hs[B]
             d == [h EXCEPT !.term_bit = 2]
             s == Shut(hs)
             q == ToSrcs(Cargo(ch[Home]))
             e == Numbers(cp[1])
  <1>1. DOMAIN s = Addresses /\ s[B] = d /\ \A c \in Addresses \ {B} : s[c] = hs[c]
    BY Apart DEF Shut
  <1> HIDE DEF s
  <1>2. HostInv(d, n, Only(A)) /\ Same(d, h, {"term_bit"})
    BY ClosedLemma
  <1>3. DstRests(h, n) /\ s[A] = hs[A]
    BY <1>1, Apart DEF Going
  <1> HIDE DEF d, h
  <1>4. DstRests(d, n)
    <2>1. /\ d.address = h.address /\ d.dest_map = h.dest_map /\ d.sender = h.sender
          /\ d.out_file = h.out_file /\ d.sync_bit = h.sync_bit /\ d.destination = h.destination
          /\ d.retrans_bit = h.retrans_bit /\ d.retrans = h.retrans /\ d.timers = h.timers
          /\ d.out = h.out /\ d.text = h.text
      BY <1>2 DEF Same, Members
    <2> QED BY <1>2, <1>3, <2>1 DEF DstRests, DstRole, Timed, HostInv
  <1>5. Going(s, n, ch, bg, cp)
    <2>1. \A c \in Addresses \ {A, B} : DOMAIN s[c].timers = {}
      BY <1>1 DEF Going
    <2> QED BY <1>1, <1>3, <1>4, <2>1 DEF Going
  <1>6. SrcView(s, n, ch, bg) = SrcView(hs, n, ch, bg)
    <2>1. SrcView(hs, n, ch, bg) = SrcSeen(hs[A], n, ch[Out])
      BY GoingSrc
    <2>2. SrcView(s, n, ch, bg) = SrcSeen(s[A], n, ch[Out])
      BY ONLY <1>5, GoingSrc
    <2> QED BY <1>3, <2>1, <2>2
  <1>7. DstView(hs, n, ch, cp) = DstOf(h, n, q, e) /\ DstView(s, n, ch, cp) = DstOf(d, n, q, e)
    <2>1. DstView(hs, n, ch, cp) = DstSeen(hs[B], n, ch[Home], cp[1])
      BY GoingDst
    <2>2. DstView(s, n, ch, cp) = DstSeen(s[B], n, ch[Home], cp[1])
      BY ONLY <1>5, GoingDst
    <2> QED BY <1>1, <2>1, <2>2 DEF DstSeen, h
  <1> HIDE DEF q, e
  <1> DEFINE v == [DstOf(h, n, q, e) EXCEPT !.term_bit = 2]
  <1>8. v = DstOf(d, n, q, e)
    <2>1. DOMAIN h = Members
      BY <1>3 DEF DstRests, Body, Names
    <2>2. DstOf(d, n, q, e).term_bit = 2
      <3>1. d.term_bit = 2
        BY <2>1 DEF d, Members
      <3> QED BY <3>1, DstPlain DEF DstPlainly
    <2>3. \A f \in F!DstFields : v[f] = IF Shown(f) \in {"term_bit"} THEN DstOf(d, n, q, e)[f]
                                        ELSE DstOf(h, n, q, e)[f]
      <3>1. F!IsDst(DstOf(h, n, q, e))
        BY DstIsDst
      <3> QED BY <2>2, <3>1 DEF F!IsDst, F!DstFields, Shown
    <2>4. F!IsDst(v)
      BY DstIsDst DEF F!IsDst, F!DstFields
    <2> HIDE DEF v
    <2> QED BY <1>2, <2>3, <2>4, DstFrame
  <1> QED BY <1>1, <1>5, <1>6, <1>7, <1>8 DEF s

---------------------------------------------------------------------------
(* A packet arrives.                                                       *)

\* Whether the host that h becomes closes its flow, and what the event leaves.
Closes(h, g) == g.sender /\ g.term_bit = 2 /\ h.term_bit # 2

Delivered(l, n, h, g) ==
    /\ hosts' = Returned(IF Closes(h, g) THEN [hosts EXCEPT ![g.destination].term_bit = 2] ELSE hosts, g)
    /\ net' = Leave(g, Without(net, l), n)
    /\ copies' = Written(g)

\* What an arrival does, in the terms of the lemmas above.
LEMMA Arrives ==
    ASSUME NEW l \in DOMAIN net, Arrive(l), NEW n, now' = n
    PROVE  /\ Due(l) /\ UNCHANGED <<losses, begun>>
           /\ \E window \in Windows :
                 Delivered(l, n, Clocked(hosts[l[2]], n),
                           Receive(Clocked(hosts[l[2]], n), Head(net[l]).packet, window))
  <1> DEFINE p == Head(net[l]).packet
             h == Clocked(hosts[l[2]], n)
  <1>1. PICK window \in Windows :
           \E g \in {Receive(h, p, window)} :
              LET closed == g.sender /\ g.term_bit = 2 /\ h.term_bit # 2
              IN  /\ Return(g, IF closed THEN [hosts EXCEPT ![g.destination].term_bit = 2] ELSE hosts, Taken(l))
                  /\ copies' = Written(g)
    BY DEF Arrive, Clocked
  <1> DEFINE g == Receive(h, p, window)
             others == IF Closes(h, g) THEN [hosts EXCEPT ![g.destination].term_bit = 2] ELSE hosts
  <1>2. Return(g, others, Taken(l)) /\ copies' = Written(g)
    <2>1. PICK x : /\ x = Receive(h, p, window)
                   /\ LET c == x.sender /\ x.term_bit = 2 /\ h.term_bit # 2
                      IN  /\ Return(x, IF c THEN [hosts EXCEPT ![x.destination].term_bit = 2] ELSE hosts,
                                    Taken(l))
                          /\ copies' = Written(x)
      <3> HIDE DEF h, p
      <3> QED BY <1>1
    <2>2. x = g
      BY <2>1
    <2> HIDE DEF g, h, p
    <2> QED BY <2>1, <2>2 DEF Closes
  <1>3. Due(l) /\ UNCHANGED <<losses, begun>>
    BY DEF Arrive
  <1> HIDE DEF g, h, p, others
  <1>4. hosts' = Returned(others, g) /\ net' = Leave(g, Without(net, l), n)
    BY <1>2, ReturnLemma DEF Returned, Taken, Without
  <1>5. Delivered(l, n, h, g)
    BY <1>2, <1>4 DEF Delivered, others
  <1> QED BY <1>3, <1>5 DEF g, h, p

\* A copy that nothing is written to.
Kept(cp, new) == new[1] = cp[1] /\ DOMAIN new = FlowIds

\* The views know a copy by what is in it.
LEMMA SameCopy ==
    ASSUME NEW hs, NEW n, NEW ch, NEW bg, NEW cp, Going(hs, n, ch, bg, cp), NEW new, Kept(cp, new)
    PROVE  /\ Going(hs, n, ch, bg, new)
           /\ DstView(hs, n, ch, new) = DstView(hs, n, ch, cp)
  BY DEF Going, Kept, DstView

\* What the source hears is one of Fdtp's events.
LEMMA HearsEvent ==
    ASSUME F!FromDst, NEW closed, Hears(src, F!Ack, src', closed), UNCHANGED losses,
           dst' = IF closed THEN [F!Received(dst) EXCEPT !.term_bit = 2] ELSE F!Received(dst)
    PROVE  F!SrcReceive
  <1>1. CASE ~closed /\ HearsSynAck(src, F!Ack, src')
    <2>1. F!SrcSynAck
      BY <1>1 DEF HearsSynAck, F!SrcSynAck
    <2> QED BY <2>1 DEF F!SrcReceive
  <1>2. CASE ~closed /\ HearsAck(src, F!Ack, src')
    <2>1. F!SrcAck
      BY <1>2 DEF HearsAck, F!SrcAck
    <2> QED BY <2>1 DEF F!SrcReceive
  <1>3. CASE ~closed /\ HearsNothing(src, F!Ack, src')
    <2>1. F!SrcIgnore
      BY <1>3 DEF HearsNothing, F!SrcIgnore
    <2> QED BY <2>1 DEF F!SrcReceive
  <1>4. CASE closed /\ HearsFinAck(src, F!Ack, src')
    <2>1. F!SrcFinAck
      BY <1>4 DEF HearsFinAck, F!SrcFinAck
    <2> QED BY <2>1 DEF F!SrcReceive
  <1> QED BY <1>1, <1>2, <1>3, <1>4 DEF Hears

\* A reply reaches the source.
LEMMA ArriveHome ==
    ASSUME IInv, During, F!IInv, Arrive(Home)
    PROVE  During' /\ F!SrcReceive
  <1>0. PICK n : now' = n
    BY DEF Arrive, Due
  <1> DEFINE p == Head(net[Home]).packet
             c == Clocked(hosts[A], n)
             q == ToDsts(Cargo(net[Out]))
             ch == Without(net, Home)
  <1>1. Home \in DOMAIN net /\ Home[1] = B /\ Home[2] = A
    BY Apart, NetPaths DEF IInv, Home
  <1>2. /\ Due(Home) /\ UNCHANGED <<losses, begun>>
        /\ \E window \in Windows : Delivered(Home, n, c, Receive(c, p, window))
    BY <1>0, <1>1, Arrives
  <1>3. PICK window \in Windows : Delivered(Home, n, c, Receive(c, p, window))
    BY <1>2
  <1> DEFINE g == Receive(c, p, window)
  <1>4. Delivered(Home, n, c, g)
    BY <1>3
  <1>5. /\ Seen(n) /\ n \in Nat \ {0} /\ net[Home] # <<>> /\ p \in PacketType /\ p.source = B
        /\ \A a \in Addresses : \A x \in DOMAIN hosts[a].timers : n < x
    BY <1>0, <1>1, <1>2, Comes
  <1>6. /\ Going(hosts, n, net, begun, copies) /\ DOMAIN hosts = Addresses /\ Carries(net)
        /\ SrcRests(hosts[A], n) /\ HostInv(hosts[A], n, Only(B)) /\ HostInv(hosts[B], n, Only(A))
        /\ src = SrcView(hosts, n, net, begun) /\ dst = DstView(hosts, n, net, copies)
    BY <1>5 DEF Seen, Going
  <1>7. q \in Seq(Wire)
    BY <1>6, CargoType, ToDstsType DEF Going, OutPath
  <1>8. src = SrcOf(hosts[A], n, q)
    BY <1>6, GoingSrc DEF SrcSeen
  <1>9. /\ Going(hosts, n, ch, begun, copies) /\ Carries(ch)
        /\ DstView(hosts, n, ch, copies) = F!Received(dst)
        /\ dst.out # <<>> /\ F!Ack = ToSrc(p) /\ p.ACK = p.FIN
    <2>1. /\ Going(hosts, n, Without(net, Home), begun, copies) /\ Carries(Without(net, Home))
          /\ DstView(hosts, n, Without(net, Home), copies) = F!Received(DstView(hosts, n, net, copies))
          /\ DstView(hosts, n, net, copies).out # <<>>
          /\ Head(DstView(hosts, n, net, copies).out) = ToSrc(Head(net[Home]).packet)
          /\ Head(net[Home]).packet.ACK = Head(net[Home]).packet.FIN
      <3>1. net[Home] # <<>>
        BY <1>5
      <3>2. Going(hosts, n, net, begun, copies) /\ Carries(net)
        BY <1>6
      <3> QED BY ONLY <3>1, <3>2, TakenHome
    <2>2. F!Ack = Head(dst.out)
      BY DEF F!Ack
    <2>3. dst = DstView(hosts, n, net, copies)
      BY <1>6
    <2> QED BY <2>1, <2>2, <2>3
  <1>10. ch[Out] = net[Out]
    BY Apart DEF Without
  <1> HIDE DEF p, q, ch
  <1>11. FromB(p)
    <2>1. F!Ack.sync_bit \in 2..3 /\ (F!Ack.FIN = 1 => F!Ack.sync_bit = 3)
      <3>1. dst.out # <<>> => F!Ack.sync_bit \in 2..3 /\ (F!Ack.FIN = 1 => F!Ack.sync_bit = 3)
        BY Found
      <3> QED BY <1>9, <3>1
    <2>2. F!Ack.sync_bit = p.sync_bit /\ F!Ack.FIN = p.FIN
      BY <1>9 DEF ToSrc
    <2> QED BY <1>5, <1>9, <2>1, <2>2 DEF FromB
  <1>12. /\ Sends(c, n) /\ HostInv(c, n, Only(B)) /\ Timed(c) /\ Later(c)
         /\ SrcOf(c, n, q) = src /\ c.clock = n
    <2>1. \A x \in DOMAIN hosts[A].timers : n < x
      BY <1>5, Apart
    <2>2. n \in Nat
      BY <1>5
    <2>3. LET h == Clocked(hosts[A], n)
          IN  /\ Sends(h, n) /\ HostInv(h, n, Only(B)) /\ Timed(h) /\ Later(h)
              /\ SrcOf(h, n, q) = SrcOf(hosts[A], n, q) /\ Same(h, hosts[A], {"clock"})
      BY <1>6, <2>1, <2>2, SrcClocked
    <2> QED BY <1>8, <2>3 DEF Sends
  <1> HIDE DEF c
  <1>13. c.sync_bit \in {1, 3} /\ (c.sync_bit = 1 => c.term_bit = 0)
    <2>1. src.sync_bit = c.sync_bit /\ src.term_bit = c.term_bit
      BY <1>12, SrcPlainly DEF Plainly
    <2> QED BY <2>1, Found
  <1>14. /\ Sends(g, n) /\ Timed(g)
         /\ Hears(src, F!Ack, SrcOf(g, n, q), g.term_bit = 2 /\ c.term_bit # 2)
    <2>1. /\ Sends(Receive(c, p, window), n) /\ Timed(Receive(c, p, window))
          /\ Hears(SrcOf(c, n, q), ToSrc(p), SrcOf(Receive(c, p, window), n, q),
                   Receive(c, p, window).term_bit = 2 /\ c.term_bit # 2)
      BY <1>5, <1>7, <1>11, <1>12, <1>13, SourceHears
    <2> QED BY <1>9, <1>12, <2>1
  <1>15. Armed(g) /\ Body(g, n, Only(B))
    BY <1>5, <1>12, OnlyEnds, ReceiveLemma DEF HostInv
  <1> HIDE DEF g
  <1>16. g.retrans_bit # 0 => g.retrans > 0
    <2>1. \A x \in DOMAIN g.timers : x \in Nat /\ n =< x
      BY <1>15 DEF Body, Timing
    <2>2. g.retrans_bit # 0 => g.retrans \in DOMAIN g.timers
      BY <1>15 DEF Armed
    <2> QED BY <1>5, <2>1, <2>2
  <1> DEFINE closed == g.term_bit = 2 /\ c.term_bit # 2
             others == IF closed THEN Shut(hosts) ELSE hosts
  <1>17. /\ hosts' = Returned(others, g) /\ net' = Leave(g, ch, n) /\ Kept(copies, copies')
    <2>1. g.sender = TRUE /\ g.destination = B /\ g.out_file = 0
      BY <1>14 DEF Sends, SrcRole
    <2>2. Closes(c, g) <=> closed
      BY <2>1 DEF Closes
    <2>3. Kept(copies, copies')
      BY <1>4, <2>1, TheFlow DEF Delivered, Written, Kept
    <2> HIDE DEF closed
    <2> QED BY <1>4, <2>1, <2>2, <2>3 DEF Delivered, Shut, ch
  <1>18. Hears(src, F!Ack, SrcOf(g, n, q), closed)
    BY <1>14
  <1> HIDE DEF closed
  <1>19. /\ Going(others, n, ch, begun, copies) /\ DOMAIN others = Addresses
         /\ DstView(others, n, ch, copies)
               = IF closed THEN [F!Received(dst) EXCEPT !.term_bit = 2] ELSE F!Received(dst)
    <2>1. CASE closed
      <3>1. n \in Nat
        BY <1>5
      <3>2. /\ Going(Shut(hosts), n, ch, begun, copies) /\ DOMAIN Shut(hosts) = Addresses
            /\ DstView(Shut(hosts), n, ch, copies) = [DstView(hosts, n, ch, copies) EXCEPT !.term_bit = 2]
        BY <1>6, <1>9, <3>1, ShutSeen
      <3> QED BY <1>9, <2>1, <3>2
    <2>2. CASE ~closed
      BY <1>6, <1>9, <2>2
    <2> QED BY <2>1, <2>2
  <1> HIDE DEF others
  <1>20. /\ Going(hosts', n, net', begun, copies)
         /\ SrcView(hosts', n, net', begun) = SrcOf(g, n, q)
         /\ DstView(hosts', n, net', copies) = DstView(others, n, ch, copies)
    <2>1. n \in Nat /\ DOMAIN others = Addresses /\ Carries(ch) /\ Going(others, n, ch, begun, copies)
      BY <1>5, <1>9, <1>19
    <2>2. /\ Going(Returned(others, g), n, Leave(g, ch, n), begun, copies)
          /\ SrcView(Returned(others, g), n, Leave(g, ch, n), begun) = SrcOf(g, n, ToDsts(Cargo(ch[Out])))
          /\ DstView(Returned(others, g), n, Leave(g, ch, n), copies) = DstView(others, n, ch, copies)
      BY ONLY <1>14, <1>16, <2>1, SrcReturned
    <2> QED BY <1>10, <1>17, <2>2 DEF q
  <1>21. Going(hosts', n, net', begun, copies') /\ DstView(hosts', n, net', copies') = DstView(hosts', n, net', copies)
    <2>1. Going(hosts', n, net', begun, copies) /\ Kept(copies, copies')
      BY <1>17, <1>20
    <2> QED BY ONLY <2>1, SameCopy
  <1>22. During'
    BY <1>0, <1>2, <1>21 DEF During
  <1>23. src' = SrcOf(g, n, q) /\ dst' = DstView(others, n, ch, copies)
    BY <1>0, <1>2, <1>20, <1>21, ViewsNext
  <1>24. F!SrcReceive
    <2>1. dst' = IF closed THEN [F!Received(dst) EXCEPT !.term_bit = 2] ELSE F!Received(dst)
      BY <1>19, <1>23
    <2>2. Hears(src, F!Ack, src', closed) /\ UNCHANGED losses /\ F!FromDst
      BY <1>2, <1>9, <1>18, <1>23 DEF F!FromDst
    <2> QED BY <2>1, <2>2, HearsEvent
  <1> QED BY <1>22, <1>24

\* What the destination hears.
DstHears(u, k, w) ==
    SynSeen(u, k, w) \/ AckSeen(u, k, w) \/ DataSeen(u, k, w) \/ FinSeen(u, k, w) \/ NoneSeen(u, k, w)

\* What the destination hears is one of Fdtp's events.
LEMMA DstHearsEvent ==
    ASSUME F!FromSrc, DstHears(dst, F!Pkt, dst'), UNCHANGED losses, src' = F!Received(src)
    PROVE  F!DstReceive
  <1>1. CASE SynSeen(dst, F!Pkt, dst')
    <2>1. F!DstSyn
      BY <1>1 DEF SynSeen, F!DstSyn, Opened
    <2> QED BY <2>1 DEF F!DstReceive
  <1>2. CASE AckSeen(dst, F!Pkt, dst')
    <2>1. F!DstAck
      BY <1>2 DEF AckSeen, F!DstAck
    <2> QED BY <2>1 DEF F!DstReceive
  <1>3. CASE DataSeen(dst, F!Pkt, dst')
    <2>1. F!DstData
      BY <1>3 DEF DataSeen, F!DstData
    <2> QED BY <2>1 DEF F!DstReceive
  <1>4. CASE FinSeen(dst, F!Pkt, dst')
    <2>1. F!DstFin
      BY <1>4 DEF FinSeen, F!DstFin, FinAnswer
    <2> QED BY <2>1 DEF F!DstReceive
  <1>5. CASE NoneSeen(dst, F!Pkt, dst')
    <2>1. F!DstIgnore
      BY <1>5 DEF NoneSeen, F!DstIgnore
    <2> QED BY <2>1 DEF F!DstReceive
  <1> QED BY <1>1, <1>2, <1>3, <1>4, <1>5 DEF DstHears

\* A packet reaches the destination.
LEMMA ArriveOut ==
    ASSUME IInv, During, F!IInv, Arrive(Out)
    PROVE  During' /\ F!DstReceive
  <1>0. PICK n : now' = n
    BY DEF Arrive, Due
  <1> DEFINE p == Head(net[Out]).packet
             c == Clocked(hosts[B], n)
             q == ToSrcs(Cargo(net[Home]))
             e == Numbers(copies[1])
             ch == Without(net, Out)
  <1>1. Out \in DOMAIN net /\ Out[1] = A /\ Out[2] = B
    BY Apart, NetPaths DEF IInv, Out
  <1>2. /\ Due(Out) /\ UNCHANGED <<losses, begun>>
        /\ \E window \in Windows : Delivered(Out, n, c, Receive(c, p, window))
    BY <1>0, <1>1, Arrives
  <1>3. PICK window \in Windows : Delivered(Out, n, c, Receive(c, p, window))
    BY <1>2
  <1> DEFINE g == Receive(c, p, window)
  <1>4. Delivered(Out, n, c, g)
    BY <1>3
  <1>5. /\ Seen(n) /\ n \in Nat \ {0} /\ net[Out] # <<>> /\ p \in PacketType /\ p.source = A
    BY <1>0, <1>1, <1>2, Comes
  <1>6. /\ Going(hosts, n, net, begun, copies) /\ DOMAIN hosts = Addresses /\ Carries(net)
        /\ DstRests(hosts[B], n) /\ HostInv(hosts[B], n, Only(A))
        /\ src = SrcView(hosts, n, net, begun) /\ dst = DstView(hosts, n, net, copies)
    BY <1>5 DEF Seen, Going
  <1>7. q \in Seq(Back) /\ e \in Seq(Nat)
    <2>1. q \in Seq(Back)
      BY <1>6, CargoType, ToSrcsType DEF Going, HomePath
    <2>2. copies[1] \in Seq(Payloads)
      BY <1>6 DEF Going
    <2> QED BY <2>1, <2>2, NumbersConcat
  <1>8. dst = DstOf(hosts[B], n, q, e)
    BY <1>6, GoingDst DEF DstSeen
  <1>9. /\ Going(hosts, n, ch, begun, copies) /\ Carries(ch)
        /\ SrcView(hosts, n, ch, begun) = F!Received(src)
        /\ src.out # <<>> /\ F!Pkt = ToDst(p) /\ p.ACK = 0
    <2>1. /\ Going(hosts, n, Without(net, Out), begun, copies) /\ Carries(Without(net, Out))
          /\ SrcView(hosts, n, Without(net, Out), begun) = F!Received(SrcView(hosts, n, net, begun))
          /\ SrcView(hosts, n, net, begun).out # <<>>
          /\ Head(SrcView(hosts, n, net, begun).out) = ToDst(Head(net[Out]).packet)
          /\ Head(net[Out]).packet.ACK = 0
      <3>1. net[Out] # <<>>
        BY <1>5
      <3>2. Going(hosts, n, net, begun, copies) /\ Carries(net)
        BY <1>6
      <3> QED BY ONLY <3>1, <3>2, TakenOut
    <2>2. F!Pkt = Head(src.out)
      BY DEF F!Pkt
    <2>3. src = SrcView(hosts, n, net, begun)
      BY <1>6
    <2> QED BY <2>1, <2>2, <2>3
  <1>10. ch[Home] = net[Home]
    BY Apart DEF Without
  <1> HIDE DEF p, q, e, ch
  <1>11. FromA(p) /\ p.id =< F!FinId
    <2>1. F!Pkt.sync_bit \in {1, 3} /\ F!Pkt.id =< F!FinId
      <3>1. src.out # <<>> => F!Pkt.sync_bit \in {1, 3} /\ F!Pkt.id =< F!FinId
        BY Found
      <3> QED BY <1>9, <3>1
    <2>2. F!Pkt.sync_bit = p.sync_bit /\ F!Pkt.id = p.id
      BY <1>9 DEF ToDst
    <2> QED BY <1>5, <1>9, <2>1, <2>2 DEF FromA
  <1>12. /\ Takes(c, n) /\ HostInv(c, n, Only(A)) /\ Timed(c) /\ c.text = <<>>
         /\ DstOf(c, n, q, e) = dst /\ c.clock = n
    <2>1. n \in Nat
      BY <1>5
    <2>2. LET h == Clocked(hosts[B], n)
          IN  /\ Takes(h, n) /\ HostInv(h, n, Only(A)) /\ Timed(h) /\ h.text = <<>>
              /\ DstOf(h, n, q, e) = DstOf(hosts[B], n, q, e) /\ Same(h, hosts[B], {"clock"})
      BY <1>6, <2>1, DstClocked
    <2> QED BY <1>8, <2>2 DEF Takes
  <1> HIDE DEF c
  <1>13. /\ c.sync_bit # 3 => c.term_bit = 0
         /\ c.sync_bit # 2 => c.retrans_bit = 0
         /\ c.recv_so_far =< F!FinId /\ DOMAIN c.recv_window \subseteq 0..F!FinId
    <2>1. /\ dst.sync_bit = c.sync_bit /\ dst.term_bit = c.term_bit
          /\ dst.retrans_bit = c.retrans_bit /\ dst.recv_so_far = c.recv_so_far
      BY <1>12, DstPlain DEF DstPlainly
    <2>2. DOMAIN dst.recv_window = DOMAIN c.recv_window
      <3>1. DstOf(c, n, q, e).recv_window = Window(c.recv_window)
        BY DEF DstOf
      <3> QED BY <1>12, <3>1 DEF Window
    <2> QED BY <2>1, <2>2, Found
  <1>14. Takes(g, n) /\ Timed(g) /\ DstHears(dst, F!Pkt, DstOf(g, n, q, e))
    <2>1. Armed(c) /\ Idle(c)
      BY <1>12 DEF HostInv
    <2>2. LET x == Receive(c, p, window)
              u == DstOf(c, n, q, e)
              w == DstOf(x, n, q, e)
              k == ToDst(p)
          IN  /\ Takes(x, n) /\ Timed(x)
              /\ \/ SynSeen(u, k, w) \/ AckSeen(u, k, w) \/ DataSeen(u, k, w)
                 \/ FinSeen(u, k, w) \/ NoneSeen(u, k, w)
      BY <1>5, <1>7, <1>11, <1>12, <1>13, <2>1, DestinationReceives
    <2> QED BY <1>9, <1>12, <2>2 DEF DstHears
  <1>15. Armed(g) /\ Body(g, n, Only(A))
    BY <1>5, <1>12, OnlyEnds, ReceiveLemma DEF HostInv
  <1> HIDE DEF g
  <1>16. g.retrans_bit # 0 => g.retrans > 0
    <2>1. \A x \in DOMAIN g.timers : x \in Nat /\ n =< x
      BY <1>15 DEF Body, Timing
    <2>2. g.retrans_bit # 0 => g.retrans \in DOMAIN g.timers
      BY <1>15 DEF Armed
    <2> QED BY <1>5, <2>1, <2>2
  <1>17. /\ hosts' = Returned(hosts, g) /\ net' = Leave(g, ch, n) /\ Copied(copies, g, copies')
    <2>1. g.sender = FALSE /\ g.out_file = 1
      BY <1>14 DEF Takes, DstRole
    <2>2. ~Closes(c, g)
      BY <2>1 DEF Closes
    <2>3. Copied(copies, g, copies')
      BY <1>4, <2>1, TheFlow DEF Delivered, Written, Copied
    <2> QED BY <1>4, <2>2, <2>3 DEF Delivered, ch
  <1>18. /\ Going(hosts', n, net', begun, copies')
         /\ DstView(hosts', n, net', copies') = DstOf(g, n, q, e)
         /\ SrcView(hosts', n, net', begun) = SrcView(hosts, n, ch, begun)
    <2>1. n \in Nat /\ DOMAIN hosts = Addresses /\ Carries(ch) /\ Going(hosts, n, ch, begun, copies)
      BY <1>5, <1>6, <1>9
    <2>2. Takes(g, n) /\ Timed(g) /\ Copied(copies, g, copies')
      BY <1>14, <1>17
    <2>3. /\ Going(Returned(hosts, g), n, Leave(g, ch, n), begun, copies')
          /\ DstView(Returned(hosts, g), n, Leave(g, ch, n), copies')
                = DstOf(g, n, ToSrcs(Cargo(ch[Home])), Numbers(copies[1]))
          /\ SrcView(Returned(hosts, g), n, Leave(g, ch, n), begun) = SrcView(hosts, n, ch, begun)
      BY ONLY <1>16, <2>1, <2>2, DstReturned
    <2> QED BY <1>10, <1>17, <2>3 DEF q, e
  <1>19. During'
    BY <1>0, <1>2, <1>18 DEF During
  <1>20. dst' = DstOf(g, n, q, e) /\ src' = F!Received(src)
    BY <1>0, <1>2, <1>9, <1>18, ViewsNext
  <1>21. F!DstReceive
    <2>1. DstHears(dst, F!Pkt, dst') /\ UNCHANGED losses /\ src' = F!Received(src)
      BY <1>2, <1>14, <1>20
    <2>2. F!FromSrc
      BY <1>9 DEF F!FromSrc
    <2> QED BY <2>1, <2>2, DstHearsEvent
  <1> QED BY <1>19, <1>21

---------------------------------------------------------------------------
(* Every step of Hosts.                                                    *)

\* Before the flow starts its timer is the only event there is.
LEMMA OnlyStarts ==
    ASSUME IInv, Before, Next
    PROVE  \E a \in Addresses : StartFlow(a)
  <1>1. ASSUME NEW a \in Addresses, OtherTimer(a)
        PROVE  FALSE
    <2>0. PICK n : now' = n
      BY <1>1 DEF OtherTimer, Expire
    <2>1. Expire(a)
      BY <1>1 DEF OtherTimer
    <2>2. n \in Nat /\ n \in DOMAIN hosts[a].timers
      BY <2>0, <2>1, ExpireLemma, OnlyTimers
    <2> DEFINE h == Woken(hosts[A], n)
    <2>3. /\ hosts[A].dest_map = [t \in {start[1]} |-> 1] /\ hosts[A].timers = SetToBag({start[1]})
          /\ \A c \in Addresses \ {A} : DOMAIN hosts[c].timers = {}
          /\ hosts[A].sync_bit = 1 /\ hosts[A].term_bit = 0 /\ hosts[A].retrans = 0
          /\ n =< start[1] => HostInv(hosts[A], n, Only(B))
      BY <2>2, BeforeHosts
    <2>4. a = A /\ n = start[1]
      <3>1. DOMAIN SetToBag({start[1]}) = {start[1]}
        BY DEF SetToBag
      <3> QED BY <2>2, <2>3, <3>1
    <2>5. h.clock = n /\ Same(h, hosts[A], {"clock", "timers"})
      <3>1. HostInv(hosts[A], n, Only(B))
        BY <2>2, <2>3, <2>4
      <3> QED BY <2>2, <3>1, WokenLemma
    <2>6. Awake(A) = h
      BY <2>0, <2>4, AwakeIsWoken
    <2> HIDE DEF h
    <2>7. Starts(h)
      <3>1. /\ h.sync_bit = hosts[A].sync_bit /\ h.term_bit = hosts[A].term_bit
            /\ h.retrans = hosts[A].retrans /\ h.dest_map = hosts[A].dest_map
        BY <2>5 DEF Same, Members
      <3> QED BY <2>3, <2>4, <2>5, <3>1 DEF Starts
    <2> QED BY <1>1, <2>4, <2>6, <2>7 DEF OtherTimer
  <1>2. ASSUME NEW l \in DOMAIN net, Due(l)
        PROVE  FALSE
    BY <1>2 DEF Before, Due
  <1>3. ASSUME NEW l \in DOMAIN net
        PROVE  ~Arrive(l) /\ ~Lose(l)
    BY <1>2 DEF Arrive, Lose
  <1> QED BY <1>1, <1>3 DEF Next

\* After the start each step is one of Fdtp's.
LEMMA DuringNext ==
    ASSUME IInv, During, F!IInv, Next
    PROVE  During' /\ F!Next
  <1>1. CASE \E a \in Addresses : StartFlow(a)
    BY <1>1, StartsOnce
  <1>2. ASSUME NEW a \in Addresses, OtherTimer(a)
        PROVE  During' /\ F!Next
    <2>1. a \in {A, B}
      <3>1. PICK n : now' = n
        BY <1>2 DEF OtherTimer, Expire
      <3>2. Expire(a)
        BY <1>2 DEF OtherTimer
      <3> QED BY <3>1, <3>2, Rings
    <2>2. CASE a = A
      BY <1>2, <2>2, SrcRings DEF F!Next
    <2>3. CASE a = B
      BY <1>2, <2>3, DstRings DEF F!Next
    <2> QED BY <2>1, <2>2, <2>3
  <1>3. ASSUME NEW l \in DOMAIN net, Arrive(l)
        PROVE  During' /\ F!Next
    <2>1. l \in {Out, Home}
      <3>1. PICK n : now' = n
        BY <1>3 DEF Arrive, Due
      <3>2. Due(l)
        BY <1>3 DEF Arrive
      <3> QED BY <3>1, <3>2, Comes
    <2>2. CASE l = Home
      BY <1>3, <2>2, ArriveHome DEF F!Next
    <2>3. CASE l = Out
      BY <1>3, <2>3, ArriveOut DEF F!Next
    <2> QED BY <2>1, <2>2, <2>3
  <1>4. ASSUME NEW l \in DOMAIN net, Lose(l)
        PROVE  During' /\ F!Next
    BY <1>4, LoseSeen DEF F!Next
  <1> QED BY <1>1, <1>2, <1>3, <1>4 DEF Next

\* A step that changes nothing is none of Fdtp's.
LEMMA NothingHappens ==
    ASSUME Before \/ During, UNCHANGED vars
    PROVE  (Before \/ During)' /\ UNCHANGED F!vars
  <1>1. UNCHANGED <<hosts, net, copies, now, losses, start, begun>>
    BY DEF vars
  <1>2. src' = src /\ dst' = dst
    BY <1>1, Views, ViewsNext
  <1>3. CASE Before
    <2>1. Before'
      BY <1>1, <1>3 DEF Before
    <2> QED BY <1>1, <1>2, <2>1 DEF F!vars
  <1>4. CASE During
    <2>1. During'
      BY <1>1, <1>4 DEF During
    <2> QED BY <1>1, <1>2, <2>1 DEF F!vars
  <1> QED BY <1>3, <1>4

\* Both invariants, and where the flow stands.
Joint == IInv /\ F!IInv /\ (Before \/ During)

\* Both invariants hold initially, and are kept, and each step is seen as one of Fdtp's.
LEMMA JointInit == Init => Joint /\ F!Init
  <1> SUFFICES ASSUME Init PROVE Joint /\ F!Init
    OBVIOUS
  <1>1. IInv
    BY InitInv
  <1>2. Before /\ F!Init
    BY InitSeen
  <1>3. F!IInv
    BY <1>2, F!InitInv, QueueLong, ChunksAssumption, WindowsAssumption, LossesAssumption
  <1> QED BY <1>1, <1>2, <1>3 DEF Joint

LEMMA JointNext == Joint /\ [Next]_vars => Joint' /\ [F!Next]_F!vars
  <1> SUFFICES ASSUME Joint, [Next]_vars PROVE Joint' /\ [F!Next]_F!vars
    OBVIOUS
  <1>0. IInv /\ F!IInv /\ (Before \/ During)
    BY DEF Joint
  <1>1. IInv'
    BY <1>0, NextInv
  <1>2. (Before \/ During)' /\ [F!Next]_F!vars
    <2>1. CASE UNCHANGED vars
      BY <1>0, <2>1, NothingHappens
    <2>2. CASE Next /\ Before
      <3>1. PICK a \in Addresses : StartFlow(a)
        BY <1>0, <2>2, OnlyStarts
      <3>2. During' /\ F!Start
        BY <1>0, <2>2, <3>1, StartSeen
      <3> QED BY <3>2 DEF F!Next
    <2>3. CASE Next /\ During
      BY <1>0, <2>3, DuringNext
    <2> QED BY <1>0, <2>1, <2>2, <2>3
  <1>3. F!IInv'
    BY <1>0, <1>2, F!NextInv, QueueLong, ChunksAssumption, WindowsAssumption, LossesAssumption
  <1> QED BY <1>1, <1>2, <1>3 DEF Joint

---------------------------------------------------------------------------
(* OneFlow's instance of Fdtp is the one whose theorems are cited.         *)

\* Its initial states and its steps are the same.
LEMMA SameFlow ==
    (Flow!Init <=> F!Init) /\ (Flow!Next <=> F!Next) /\ Flow!vars = F!vars
  <1>1. Flow!NULL = F!NULL
    BY DEF Flow!NULL, F!NULL
  <1>2. \A dup : Flow!FreshSrc(dup) = F!FreshSrc(dup)
    BY <1>1 DEF Flow!FreshSrc, F!FreshSrc
  <1>3. Flow!FreshDst = F!FreshDst
    BY DEF Flow!FreshDst, F!FreshDst
  <1>4. Flow!Init <=> F!Init
    BY <1>2, <1>3 DEF Flow!Init, F!Init
  <1>5. \A h, bit : Flow!Arm(h, bit) = F!Arm(h, bit)
    BY DEF Flow!Arm, F!Arm
  <1>6. \A h, i, fin, chunk : Flow!SrcPacket(h, i, fin, chunk) = F!SrcPacket(h, i, fin, chunk)
    BY DEF Flow!SrcPacket, F!SrcPacket
  <1>7. \A h, p : Flow!Send(h, p) = F!Send(h, p)
    BY DEF Flow!Send, F!Send
  <1>8. \A h : Flow!SendControl(h) = F!SendControl(h)
    BY <1>6, <1>7 DEF Flow!SendControl, F!SendControl
  <1>9. Flow!Start <=> F!Start
    BY <1>5, <1>8, <1>2, <1>3 DEF Flow!Start, F!Start
  <1>10. \A h : Flow!Received(h) = F!Received(h)
    BY DEF Flow!Received, F!Received
  <1>11. \A h : Flow!Cancel(h) = F!Cancel(h)
    BY DEF Flow!Cancel, F!Cancel
  <1>12. \A window, new : Flow!Insert(window, new) = F!Insert(window, new)
    BY DEF Flow!Insert, F!Insert
  <1>13. \A h : Flow!Room(h) = F!Room(h)
    BY DEF Flow!Room, F!Room
  <1>14. \A h : Flow!Burst(h) = F!Burst(h)
    BY <1>6, <1>12, <1>13 DEF Flow!Burst, F!Burst
  <1>15. \A h : Flow!Terminate(h) = F!Terminate(h)
    BY <1>6, <1>7, <1>12 DEF Flow!Terminate, F!Terminate
  <1>16. \A h : Flow!MayTerminate(h) = F!MayTerminate(h)
    BY DEF Flow!MayTerminate, F!MayTerminate
  <1>17. \A window : Flow!Oldest(window) = F!Oldest(window)
    BY <1>1 DEF Flow!Oldest, F!Oldest
  <1>18. \A h : Flow!WatchOldest(h) = F!WatchOldest(h)
    BY <1>1, <1>5, <1>17 DEF Flow!WatchOldest, F!WatchOldest
  <1>19. \A h : Flow!SendFile(h) = F!SendFile(h)
    BY <1>14, <1>15, <1>16, <1>18 DEF Flow!SendFile, F!SendFile
  <1>20. Flow!FromDst <=> F!FromDst
    BY DEF Flow!FromDst, F!FromDst
  <1>21. Flow!Ack = F!Ack
    BY DEF Flow!Ack, F!Ack
  <1>22. Flow!SrcSynAck <=> F!SrcSynAck
    BY <1>10, <1>11, <1>8, <1>19, <1>20, <1>21 DEF Flow!SrcSynAck, F!SrcSynAck
  <1>23. \A h : Flow!DuplicateAck(h) = F!DuplicateAck(h)
    BY <1>7, <1>5, <1>11 DEF Flow!DuplicateAck, F!DuplicateAck
  <1>24. \A h, ack : Flow!Acknowledge(h, ack) = F!Acknowledge(h, ack)
    <2>1. \A S : Flow!Cardinality(S) = Cardinality(S)
      BY DEF Flow!Cardinality, Cardinality
    <2> QED BY <2>1, SameCardinality DEF Flow!Acknowledge, F!Acknowledge
  <1>25. \A h : Flow!ResendOldest(h) = F!ResendOldest(h)
    BY <1>1, <1>7, <1>5, <1>17 DEF Flow!ResendOldest, F!ResendOldest
  <1>26. \A h, ack, window : Flow!NewAck(h, ack, window) = F!NewAck(h, ack, window)
    BY <1>11, <1>24, <1>25 DEF Flow!NewAck, F!NewAck
  <1>27. \A h, ack, window : Flow!SentWindowSync(h, ack, window) = F!SentWindowSync(h, ack, window)
    BY <1>23, <1>26 DEF Flow!SentWindowSync, F!SentWindowSync
  <1>28. Flow!SrcAck <=> F!SrcAck
    BY <1>10, <1>8, <1>19, <1>27, <1>20, <1>21 DEF Flow!SrcAck, F!SrcAck
  <1>29. Flow!SrcFinAck <=> F!SrcFinAck
    BY <1>10, <1>27, <1>20, <1>21 DEF Flow!SrcFinAck, F!SrcFinAck
  <1>30. Flow!SrcIgnore <=> F!SrcIgnore
    BY <1>10, <1>20, <1>21 DEF Flow!SrcIgnore, F!SrcIgnore
  <1>31. Flow!SrcReceive = F!SrcReceive
    BY <1>22, <1>28, <1>29, <1>30 DEF Flow!SrcReceive, F!SrcReceive
  <1>32. \A h, fin : Flow!Reply(h, fin) = F!Reply(h, fin)
    BY <1>7 DEF Flow!Reply, F!Reply
  <1>33. \A h : Flow!SendAck(h) = F!SendAck(h)
    BY <1>32 DEF Flow!SendAck, F!SendAck
  <1>34. \A h, p : Flow!Completes(h, p) = F!Completes(h, p)
    BY DEF Flow!Completes, F!Completes
  <1>35. \A h, p : Flow!LostAck(h, p) = F!LostAck(h, p)
    BY <1>34 DEF Flow!LostAck, F!LostAck
  <1>36. \A h, p : Flow!Accepts(h, p) = F!Accepts(h, p)
    BY <1>35 DEF Flow!Accepts, F!Accepts
  <1>37. \A h, p : Flow!Counted(h, p) = F!Counted(h, p)
    BY <1>11, <1>34, <1>35, <1>36 DEF Flow!Counted, F!Counted
  <1>38. Flow!FromSrc <=> F!FromSrc
    BY DEF Flow!FromSrc, F!FromSrc
  <1>39. Flow!Pkt = F!Pkt
    BY DEF Flow!Pkt, F!Pkt
  <1>40. Flow!DstSyn <=> F!DstSyn
    BY <1>10, <1>5, <1>33, <1>37, <1>38, <1>39 DEF Flow!DstSyn, F!DstSyn
  <1>41. Flow!DstAck <=> F!DstAck
    BY <1>10, <1>34, <1>35, <1>37, <1>38, <1>39 DEF Flow!DstAck, F!DstAck
  <1>42. \A h, n : Flow!RunEnd(h, n) = F!RunEnd(h, n)
    BY DEF Flow!RunEnd, F!RunEnd
  <1>43. \A h, p, n : Flow!Write(h, p, n) = F!Write(h, p, n)
    BY DEF Flow!Write, F!Write
  <1>44. \A h, p, write, n : Flow!Store(h, p, write, n) = F!Store(h, p, write, n)
    BY <1>12, <1>43 DEF Flow!Store, F!Store
  <1>45. \A h, write : Flow!Answer(h, write) = F!Answer(h, write)
    BY <1>33 DEF Flow!Answer, F!Answer
  <1>46. \A h, p, write, n : Flow!RecvWindowSync(h, p, write, n) = F!RecvWindowSync(h, p, write, n)
    BY <1>44, <1>45 DEF Flow!RecvWindowSync, F!RecvWindowSync
  <1>47. Flow!DstData <=> F!DstData
    BY <1>10, <1>35, <1>36, <1>37, <1>42, <1>46, <1>38, <1>39 DEF Flow!DstData, F!DstData, Flow!FinId, F!FinId
  <1>48. Flow!DstFin <=> F!DstFin
    BY <1>10, <1>32, <1>35, <1>37, <1>38, <1>39 DEF Flow!DstFin, F!DstFin
  <1>49. Flow!DstIgnore <=> F!DstIgnore
    BY <1>10, <1>34, <1>37, <1>38, <1>39 DEF Flow!DstIgnore, F!DstIgnore
  <1>50. Flow!DstReceive = F!DstReceive
    BY <1>40, <1>41, <1>47, <1>48, <1>49 DEF Flow!DstReceive, F!DstReceive
  <1>51. \A h : Flow!MayResend(h) = F!MayResend(h)
    BY DEF Flow!MayResend, F!MayResend
  <1>52. \A h, bit : Flow!Rearm(h, bit) = F!Rearm(h, bit)
    BY <1>5 DEF Flow!Rearm, F!Rearm
  <1>53. Flow!SrcSynTimeout <=> F!SrcSynTimeout
    BY <1>6, <1>7, <1>51, <1>52 DEF Flow!SrcSynTimeout, F!SrcSynTimeout
  <1>54. Flow!SrcDataTimeout <=> F!SrcDataTimeout
    BY <1>7, <1>51, <1>52 DEF Flow!SrcDataTimeout, F!SrcDataTimeout
  <1>55. Flow!SrcTimeout = F!SrcTimeout
    BY <1>53, <1>54 DEF Flow!SrcTimeout, F!SrcTimeout
  <1>56. Flow!DstSynAckTimeout <=> F!DstSynAckTimeout
    BY <1>33, <1>51, <1>52 DEF Flow!DstSynAckTimeout, F!DstSynAckTimeout
  <1>57. Flow!MayLose <=> F!MayLose
    BY DEF Flow!MayLose, F!MayLose
  <1>58. Flow!LosePacket <=> F!LosePacket
    BY <1>10, <1>38, <1>57 DEF Flow!LosePacket, F!LosePacket
  <1>59. Flow!LoseAck <=> F!LoseAck
    BY <1>10, <1>20, <1>57 DEF Flow!LoseAck, F!LoseAck
  <1>60. Flow!Next <=> F!Next
    BY <1>9, <1>31, <1>50, <1>55, <1>56, <1>58, <1>59 DEF Flow!Next, F!Next
  <1>61. Flow!vars = F!vars
    BY DEF Flow!vars, F!vars
  <1> QED BY <1>4, <1>60, <1>61

\* A run of Hosts with one FDTPFlow line is a run of Fdtp: what is proved of
\* Fdtp's two hosts is true of Host objects that keep virtual time, measure round
\* trips and could play either role.
THEOREM OneFlowIsFdtp == Spec => ImplementsFdtp
  <1>1. Init => Joint /\ Flow!Init
    BY JointInit, SameFlow
  <1>2. Joint /\ [Next]_vars => Joint' /\ [Flow!Next]_Flow!vars
    <2> SUFFICES ASSUME Joint, [Next]_vars PROVE Joint' /\ [Flow!Next]_Flow!vars
      OBVIOUS
    <2>1. Joint' /\ [F!Next]_F!vars
      BY JointNext
    <2>2. F!vars = Flow!vars /\ F!vars' = Flow!vars'
      BY DEF F!vars, Flow!vars
    <2> QED BY <2>1, <2>2, SameFlow
  <1> QED BY <1>1, <1>2, PTL DEF Spec, ImplementsFdtp, Flow!Spec


---------------------------------------------------------------------------
(* The copy of the one file.                                               *)

\* What is written with the numbers of a file is the file.
LEMMA CopyIs ==
    ASSUME NEW c \in Seq(Payloads), NEW m \in Nat, Numbers(c) = F!File(m)
    PROVE  Len(c) = m /\ c = File(1, m)
  <1>1. Len(c) = m
    <2>1. DOMAIN Numbers(c) = 1..Len(c) /\ Len(c) \in Nat
      BY DEF Numbers
    <2>2. DOMAIN F!File(m) = 1..m
      BY DEF F!File
    <2>3. 1..Len(c) = 1..m
      BY <2>1, <2>2
    <2>4. \A a, b \in Nat : 1..a = 1..b => a = b
      <3>1. ASSUME NEW a \in Nat, NEW b \in Nat, 1..a = 1..b, a < b PROVE FALSE
        <4>1. b \in 1..b /\ b \notin 1..a
          BY <3>1
        <4> QED BY <3>1, <4>1
      <3>2. ASSUME NEW a \in Nat, NEW b \in Nat, 1..a = 1..b PROVE a = b
        BY <3>1, <3>2
      <3> QED BY <3>2
    <2> QED BY <2>1, <2>3, <2>4
  <1>2. ASSUME NEW j \in 1..m PROVE c[j] = <<1, j>>
    <2>1. Numbers(c)[j] = c[j][2] /\ c[j] \in Payloads
      BY <1>1 DEF Numbers
    <2>2. F!File(m)[j] = j
      BY DEF F!File
    <2>3. c[j][2] = j /\ j # 0
      BY <2>1, <2>2
    <2>4. c[j] # NoData
      BY <2>3 DEF NoData
    <2>5. c[j] \in {1} \X Nat
      BY <2>1, <2>4, TheFlow DEF Payloads
    <2> QED BY <2>3, <2>5
  <1>3. DOMAIN c = 1..m /\ c = [j \in 1..m |-> c[j]]
    BY <1>1
  <1>4. File(1, m) = [j \in 1..m |-> <<1, j>>]
    BY DEF File
  <1> HIDE DEF Payloads
  <1> QED BY <1>1, <1>2, <1>3, <1>4

\* A source that is through with its flow stays so.
LEMMA StaysClosed ==
    ASSUME F!IInv, [F!Next]_F!vars, src.dest_map = FALSE, src.term_bit = 2
    PROVE  src'.term_bit = 2
  <1>1. F!Arrives \/ F!Learns \/ F!Closes \/ F!Opens
    BY F!NextInv, QueueLong, ChunksAssumption, WindowsAssumption, LossesAssumption
  <1>2. CASE F!Arrives
    BY <1>2 DEF F!Arrives
  <1>3. CASE F!Learns
    BY <1>3 DEF F!Learns
  <1>4. CASE F!Closes
    BY <1>4 DEF F!Closes
  <1>5. CASE F!Opens
    BY <1>5 DEF F!Opens
  <1> QED BY <1>1, <1>2, <1>3, <1>4, <1>5

\* The flow is in torn only when its source has closed it.
Torn == torn # {} => src.term_bit = 2

\* What tears the flow down is that its source closes it.
LEMMA TearsAtSource ==
    ASSUME Joint, NEW l \in DOMAIN net, Arrive(l), torn' # torn
    PROVE  src'.term_bit = 2
  <1>0. IInv /\ (Before \/ During)
    BY DEF Joint
  <1>1. l[2] \in Addresses /\ hosts[l[2]].sender /\ hosts'[l[2]].term_bit = 2
    BY <1>0, ArriveTears
  <1>2. Due(l)
    BY DEF Arrive
  <1>3. During
    <2>1. ASSUME Before PROVE FALSE
      BY <1>2, <2>1 DEF Before, Due
    <2> QED BY <1>0, <2>1
  <1>4. PICK n : now' = n
    BY <1>2 DEF Due
  <1>5. l \in {Out, Home}
    BY <1>0, <1>2, <1>3, <1>4, Comes
  <1>6. hosts[B].sender = FALSE
    BY <1>3 DEF During, Going, DstRests, DstRole
  <1>7. l[2] = A
    BY <1>1, <1>5, <1>6 DEF Out, Home
  <1>8. src'.term_bit = hosts'[A].term_bit
    BY ViewsNext DEF SrcView
  <1> QED BY <1>1, <1>7, <1>8

LEMMA TornNext == Joint /\ Torn /\ [Next]_vars => Torn'
  <1> SUFFICES ASSUME Joint, Torn, [Next]_vars PROVE Torn'
    OBVIOUS
  <1>0. IInv /\ F!IInv /\ (Before \/ During) /\ [F!Next]_F!vars
    BY JointNext DEF Joint
  <1>1. CASE torn' = torn
    <2> SUFFICES ASSUME torn # {} PROVE src'.term_bit = 2
      BY <1>1 DEF Torn
    <2>1. src.term_bit = 2
      BY DEF Torn
    <2>2. 1 \in begun
      <3>1. torn \subseteq begun /\ begun \subseteq {1}
        BY <1>0, TheFlow DEF IInv, FlowsInv
      <3> QED BY <3>1
    <2>3. src.dest_map = FALSE
      BY <2>2 DEF src, Started
    <2> QED BY <1>0, <2>1, <2>3, StaysClosed
  <1>2. CASE torn' # torn
    <2>1. PICK l \in DOMAIN net : Arrive(l)
      <3>1. ~UNCHANGED vars
        BY <1>2 DEF vars
      <3>2. \A a \in Addresses : ~StartFlow(a) /\ ~OtherTimer(a)
        BY <1>2 DEF StartFlow, OtherTimer
      <3>3. \A l \in DOMAIN net : ~Lose(l)
        BY <1>2 DEF Lose
      <3> QED BY <3>1, <3>2, <3>3 DEF Next
    <2> QED BY <1>2, <2>1, TearsAtSource DEF Torn
  <1> QED BY <1>1, <1>2

LEMMA TrueCopy == Joint /\ Torn => CopiesAreTrue
  <1> SUFFICES ASSUME Joint, Torn PROVE CopiesAreTrue
    OBVIOUS
  <1>0. IInv /\ F!IInv /\ (Before \/ During)
    BY DEF Joint
  <1> DEFINE c == copies[1]
  <1>1. c \in Seq(Payloads)
    <2>1. CASE Before
      BY <2>1, TheFlow DEF Before
    <2>2. CASE During
      BY <2>2 DEF During, Going
    <2> QED BY <1>0, <2>1, <2>2
  <1>2. dst.out_file = Numbers(c)
    BY DEF dst, Numbers
  <1>3. PICK m \in 0..Chunks : dst.out_file = F!File(m)
    <2>1. F!Integrity
      BY <1>0, F!InvIntegrity, QueueLong, ChunksAssumption, WindowsAssumption, LossesAssumption
    <2> QED BY <2>1 DEF F!Integrity
  <1>4. m \in Nat /\ Chunks \in Nat
    BY ChunksAssumption
  <1> HIDE DEF c
  <1>5. Len(c) = m /\ c = File(1, m)
    BY <1>1, <1>2, <1>3, <1>4, CopyIs
  <1>6. 1 \in torn => Len(c) = Chunks
    <2> SUFFICES ASSUME 1 \in torn PROVE Len(c) = Chunks
      OBVIOUS
    <2>1. src.term_bit = 2
      BY DEF Torn
    <2>2. F!CompleteAtTeardown
      BY <1>0, F!InvCompleteAtTeardown, QueueLong, ChunksAssumption, WindowsAssumption, LossesAssumption
    <2>3. dst.out_file = F!File(Chunks)
      BY <2>1, <2>2 DEF F!CompleteAtTeardown
    <2> QED BY <1>1, <1>2, <1>4, <2>3, CopyIs
  <1> QED BY <1>5, <1>6, TheFlow DEF CopiesAreTrue, c

\* A file that is the only one to be sent arrives as it is, in order and whole
\* when Host.cpp reports its flow torn down: nothing of a flow, of a handshake or
\* of a closed gap is ever written in the place of one of its chunks.
THEOREM OneCopyIsTrue == Spec => []CopiesAreTrue
  <1>1. Init => Joint /\ Torn
    <2>1. Init => torn = {}
      BY DEF Init
    <2> QED BY <2>1, JointInit DEF Torn
  <1>2. Joint /\ Torn /\ [Next]_vars => (Joint /\ Torn)'
    BY JointNext, TornNext
  <1> QED BY <1>1, <1>2, TrueCopy, PTL DEF Spec

---------------------------------------------------------------------------
(* The one flow begins on time, and no timer is left over.                 *)

\* A bag with no members counts nothing, whatever made it empty.
LEMMA CountEmpty == ASSUME NEW b, IsABag(b), DOMAIN b = {} PROVE BagCardinality(b) = 0
  <1>1. b = EmptyBag
    BY DEF IsABag, EmptyBag, SetToBag
  <1> QED BY <1>1, CountNone

\* A host has its start time ahead of it, or none, and one timer at most.
LEMMA OnTime ==
    ASSUME IInv, Before \/ During, NEW a \in Addresses
    PROVE  /\ \A t \in DOMAIN hosts[a].dest_map : now < t \/ (now = t /\ BagIn(t, hosts[a].timers))
           /\ BagCardinality(hosts[a].timers) \in 0..1
  <1> DEFINE h == hosts[a]
  <1>1. now \in Nat /\ Names(h, Peers(Met(hosts, begun), a)) /\ Timing(h, now) /\ h.address = a
    BY DEF IInv, FlowsInv, HostsInv, HostInv, Body
  <1>2. a # A => DOMAIN h.dest_map = {}
    <2>1. a # A => From(a) = {}
      BY TheFlow DEF From, A
    <2> HIDE DEF h
    <2> QED BY <1>1, <2>1 DEF Names
  <1>3. CASE Before
    <2>1. /\ hosts[A].dest_map = [t \in {start[1]} |-> 1] /\ hosts[A].timers = SetToBag({start[1]})
          /\ \A c \in Addresses \ {A} : DOMAIN hosts[c].timers = {}
      BY <1>1, <1>3, BeforeHosts
    <2>2. CASE a = A
      <3>1. DOMAIN h.dest_map = {start[1]} /\ h.timers = SetToBag({start[1]})
        BY <2>1, <2>2
      <3>2. DOMAIN h.timers = {start[1]}
        BY <3>1 DEF SetToBag
      <3>3. start[1] \in Nat /\ now =< start[1] /\ BagIn(start[1], h.timers)
        BY <1>1, <3>2 DEF Timing, BagIn, BagToSet
      <3>4. BagCardinality(h.timers) = 1
        BY <3>1, CountOne
      <3> HIDE DEF h
      <3>5. \A t \in DOMAIN h.dest_map : now < t \/ (now = t /\ BagIn(t, h.timers))
        BY <1>1, <3>1, <3>3
      <3> QED BY <3>4, <3>5 DEF h
    <2>3. CASE a # A
      <3>1. IsABag(h.timers) /\ DOMAIN h.timers = {}
        BY <1>1, <2>1, <2>3 DEF Timing
      <3>2. BagCardinality(h.timers) = 0
        BY <3>1, CountEmpty
      <3> QED BY <1>2, <2>3, <3>2
    <2> QED BY <2>2, <2>3
  <1>4. CASE During
    <2>1. /\ DOMAIN hosts[A].dest_map = {} /\ Timed(hosts[A]) /\ Timed(hosts[B])
          /\ \A c \in Addresses \ {A, B} : DOMAIN hosts[c].timers = {}
      BY <1>4 DEF During, Going, SrcRests, DstRests, SrcRole
    <2>2. CASE a \in {A, B}
      <3>1. h.timers = EmptyBag \/ h.timers = SetToBag({h.retrans})
        BY <2>1, <2>2 DEF Timed
      <3>2. BagCardinality(h.timers) \in 0..1
        <4> DEFINE b == h.timers
                   c == h.retrans
        <4>1. b = EmptyBag \/ b = SetToBag({c})
          BY <3>1
        <4> HIDE DEF b, c
        <4>2. BagCardinality(b) = 0 \/ BagCardinality(b) = 1
          BY ONLY <4>1, CountNone, CountOne, Zenon
        <4> DEFINE n == BagCardinality(b)
        <4>3. n = 0 \/ n = 1
          BY <4>2
        <4> HIDE DEF n
        <4>4. n \in 0..1
          BY ONLY <4>3
        <4> QED BY ONLY <4>4 DEF n, b
      <3>3. DOMAIN h.dest_map = {}
        <4>1. CASE a = A
          BY <2>1, <4>1
        <4>2. CASE a # A
          <5> HIDE DEF h
          <5> QED BY <1>2, <4>2
        <4> QED BY <4>1, <4>2
      <3> QED BY <3>2, <3>3
    <2>3. CASE a \notin {A, B}
      <3>1. IsABag(h.timers) /\ DOMAIN h.timers = {}
        BY <1>1, <2>1, <2>3 DEF Timing
      <3>2. BagCardinality(h.timers) = 0
        BY <3>1, CountEmpty
      <3> QED BY <1>2, <2>3, <3>2
    <2> QED BY <2>2, <2>3
  <1> QED BY <1>3, <1>4

\* The only flow begins at its time and not later: its timer is there until then,
\* and no host ever has a second timer that would wake it with the same cookie.
THEOREM OneFlowIsNotSkipped == Spec => []NoFlowIsSkipped
  <1>1. ASSUME Joint PROVE NoFlowIsSkipped
    <2>1. IInv /\ (Before \/ During)
      BY <1>1 DEF Joint
    <2> SUFFICES ASSUME NEW a \in Addresses
                 PROVE  /\ \A t \in DOMAIN hosts[a].dest_map :
                              now < t \/ (now = t /\ BagIn(t, hosts[a].timers))
                        /\ BagCardinality(hosts[a].timers) =< 1 + Cardinality({k \in From(a) : start[k] >= now})
      BY DEF NoFlowIsSkipped
    <2> DEFINE due == {k \in From(a) : start[k] >= now}
    <2>2. due \subseteq {1}
      BY TheFlow DEF From
    <2>3. Cardinality(due) \in Nat
      <3>1. IsFiniteSet({1})
        BY FS_Singleton
      <3> HIDE DEF due
      <3>2. IsFiniteSet(due)
        BY <2>2, <3>1, FS_Subset
      <3> QED BY <3>2, FS_CardinalityType
    <2>4. /\ \A t \in DOMAIN hosts[a].dest_map : now < t \/ (now = t /\ BagIn(t, hosts[a].timers))
          /\ BagCardinality(hosts[a].timers) \in 0..1
      BY <2>1, OnTime
    <2> HIDE DEF due
    <2>5. BagCardinality(hosts[a].timers) =< 1 + Cardinality(due)
      BY ONLY <2>3, <2>4
    <2> QED BY ONLY <2>4, <2>5 DEF due
  <1>2. Init => Joint
    BY JointInit
  <1>3. Joint /\ [Next]_vars => Joint'
    BY JointNext
  <1> QED BY <1>1, <1>2, <1>3, PTL DEF Spec
=============================================================================
