----------------------------- MODULE FdtpProofs -----------------------------
(***************************************************************************)
(* What the operators of Fdtp do to the host they work on, whichever event *)
(* comes (dtp/Host.cpp), the inductive invariant of a flow, and what       *)
(* follows from it.                                                        *)
(*                                                                         *)
(* The sending host (send_file, sent_window_sync, terminate and their      *)
(* timers), for every file length, window and ack: Window is the           *)
(* bookkeeping that every call keeps; Open adds that the oldest            *)
(* outstanding packet is watched by a timer.  The receiving host (receive, *)
(* recv_window_sync and the SYN-ACK's timer), whichever packet the source  *)
(* has sent arrives: Established is what holds of it between two events.   *)
(*                                                                         *)
(* A flow is Untouched, then Connecting, then Connected; while it is       *)
(* Connected the source is Open, the destination is Waiting or             *)
(* Established, and it is never behind last_ack.                           *)
(***************************************************************************)
EXTENDS Fdtp, TLAPS, FiniteSetTheorems, SequenceTheorems

---------------------------------------------------------------------------
(* The source's members and what holds of them between two events.         *)

\* The packet numbered i: the SYN, the ACK, a chunk, or the FIN.
Packet(i) == [id |-> i, sync_bit |-> IF i = 1 THEN 1 ELSE 3,
              FIN |-> IF i = FinId THEN 1 ELSE 0,
              payload |-> IF i \in 3..Chunks+2 THEN i - 2 ELSE 0]

\* The packets sent so far, and the window of those after the a-th.
SentBy(n) == {Packet(i) : i \in 1..n}

Span(a, n) == [i \in a+1..n |-> Packet(i)]

\* A host is a function on the names of its members; stated so, it can be
\* updated member by member without a look at the others.
SrcFields == {"dest_map", "sync_bit", "term_bit", "retrans", "retrans_bit", "timers",
              "sent_so_far", "last_ack", "chunk", "sent_window", "packets_in_window",
              "window_size", "retransmit_pkt", "dup_ack_count", "out"}

IsSrc(h) == h = [f \in SrcFields |-> h[f]]

\* The source's counters between two events.
Counts(h) ==
    /\ h.chunk \in 0..Chunks
    /\ h.term_bit = 0 => h.sent_so_far = h.chunk + 2
    /\ h.term_bit # 0 => h.chunk = Chunks /\ h.sent_so_far = Chunks + 3
    /\ h.last_ack \in 2..h.sent_so_far
    /\ h.term_bit = 0 => h.packets_in_window = h.sent_so_far - h.last_ack
    /\ h.term_bit # 0 => h.packets_in_window = h.sent_so_far - h.last_ack - 1
    /\ h.window_size \in Nat \ {0}

\* The source's window and channel between two events.
Window(h) ==
    /\ h.sync_bit = 3 /\ h.dest_map = FALSE /\ h.term_bit \in 0..2 /\ h.dup_ack_count \in {0, 1}
    /\ Counts(h)
    /\ h.sent_window = Span(h.last_ack, h.sent_so_far)
    /\ h.out \in Seq(SentBy(h.sent_so_far))

\* The data timer is armed; no timer is armed.
Armed(h) == h.retrans = TRUE /\ h.retrans_bit = 2 /\ h.timers = 1

Idle(h) == h.retrans_bit = 0 /\ h.timers = 0

\* The oldest packet outstanding, and only it, is watched by a timer.
Watched(h) ==
    IF h.last_ack < h.sent_so_far THEN Armed(h) /\ h.retransmit_pkt = Packet(h.last_ack + 1)
    ELSE Idle(h) /\ h.retrans = FALSE /\ h.retransmit_pkt = NULL

\* What the end of send_file() finds: a timer on the oldest packet, or none.
Ready(h) ==
    /\ IsSrc(h) /\ Window(h)
    /\ \/ Armed(h) /\ h.last_ack < h.sent_so_far
       \/ Idle(h) /\ (h.last_ack = h.sent_so_far => h.retrans = FALSE)

\* The source between two events, once the SYN-ACK has come.
Open(h) == IsSrc(h) /\ Window(h) /\ Watched(h)

\* Until the FIN is sent something is outstanding.
Pending(h) == h.term_bit = 0 => h.last_ack < h.sent_so_far

\* The SYN is sent and watched.
Syn(h) ==
    /\ IsSrc(h) /\ h.dest_map = FALSE /\ h.sync_bit = 1 /\ h.term_bit = 0
    /\ h.retrans = TRUE /\ h.retrans_bit = 1 /\ h.timers = 1
    /\ h.sent_so_far = 1 /\ h.last_ack = 0 /\ h.chunk = 0
    /\ h.sent_window = <<>> /\ h.packets_in_window = 0 /\ h.window_size = 1
    /\ h.retransmit_pkt = NULL /\ h.dup_ack_count \in {0, 1}
    /\ h.out \in Seq(SentBy(1))

---------------------------------------------------------------------------
(* Packets, windows and counters.                                          *)

\* No packet is the NULL that retransmit_pkt holds while nothing is outstanding.
LEMMA PacketNotNull == ASSUME NEW i \in Nat \ {0} PROVE Packet(i) # NULL
BY DEF Packet, NULL

\* The first entry of sent_window is the packet after the last acknowledged one.
LEMMA OldestOfSpan ==
    ASSUME NEW a \in Nat, NEW n \in Nat
    PROVE  Oldest(Span(a, n)) = IF a < n THEN Packet(a + 1) ELSE NULL
<1>1. DOMAIN Span(a, n) = a+1..n BY DEF Span
<1>2. CASE a < n
  <2>1. a + 1 \in a+1..n /\ \A j \in a+1..n : a + 1 =< j BY <1>2
  <2>2. \A i \in a+1..n : (\A j \in a+1..n : i =< j) => i = a + 1 BY <2>1
  <2>3. (CHOOSE i \in a+1..n : \A j \in a+1..n : i =< j) = a + 1 BY <2>1, <2>2
  <2> QED BY <1>1, <1>2, <2>1, <2>3 DEF Oldest, Span
<1>3. CASE ~(a < n)
  <2>1. a+1..n = {} BY <1>3
  <2> QED BY <1>1, <1>3, <2>1 DEF Oldest
<1> QED BY <1>2, <1>3

\* Inserting the packets that follow a window's last one extends the window.
LEMMA InsertSpan ==
    ASSUME NEW a \in Nat, NEW n \in Nat, NEW m \in Nat, a =< n, n =< m
    PROVE  Insert(Span(a, n), Span(n, m)) = Span(a, m)
<1>1. (a+1..n) \cup (n+1..m) = a+1..m OBVIOUS
<1> QED BY <1>1 DEF Insert, Span

\* A sequence of packets sent is one of packets sent later, too.
LEMMA SentByGrows ==
    ASSUME NEW m \in Nat, NEW n \in Nat, m =< n, NEW s \in Seq(SentBy(m))
    PROVE  s \in Seq(SentBy(n))
<1>1. SentBy(m) \subseteq SentBy(n) BY DEF SentBy
<1> QED BY <1>1, SeqMonotonic

\* The types of the source's counters.
LEMMA CountsType ==
    ASSUME NEW h, Counts(h)
    PROVE  /\ h.chunk \in Nat /\ h.sent_so_far \in Nat /\ h.last_ack \in Nat
           /\ h.window_size \in Nat /\ h.packets_in_window \in Int
           /\ h.chunk =< Chunks /\ h.last_ack =< h.sent_so_far /\ h.sent_so_far =< FinId
BY ChunksAssumption DEF Counts, FinId

\* The oldest packet outstanding has been sent.
LEMMA OldestIsSent ==
    ASSUME NEW h, Window(h), h.last_ack < h.sent_so_far
    PROVE  Packet(h.last_ack + 1) \in SentBy(h.sent_so_far)
<1>1. Counts(h) BY DEF Window
<1> QED BY <1>1, CountsType DEF SentBy

\* The head of a channel and what is left of it.
LEMMA SeqHeadTail ==
    ASSUME NEW S, NEW s \in Seq(S), s # <<>>
    PROVE  Head(s) \in S /\ Tail(s) \in Seq(S)
BY HeadTailProperties, EmptySeq

---------------------------------------------------------------------------
(* send_file().                                                            *)

\* The loop of send_file() stops at the file's end or at a full window.
LEMMA RoomLemma ==
    ASSUME NEW h, Counts(h)
    PROVE  /\ Room(h) \in 0..Chunks - h.chunk
           /\ Room(h) = Chunks - h.chunk \/ h.packets_in_window + Room(h) >= h.window_size
           /\ Room(h) > 0 => h.packets_in_window + Room(h) =< h.window_size
BY ChunksAssumption DEF Counts, Room

\* What a burst, and only a burst, changes.
Bursted == {"chunk", "sent_so_far", "packets_in_window", "sent_window", "out"}

\* The loop of send_file() keeps the window's bookkeeping.
LEMMA BurstLemma ==
    ASSUME NEW h, IsSrc(h), Window(h)
    PROVE  /\ IsSrc(Burst(h)) /\ Window(Burst(h))
           /\ \A f \in SrcFields \ Bursted : Burst(h)[f] = h[f]
           /\ Burst(h).chunk >= h.chunk /\ Burst(h).sent_so_far >= h.sent_so_far
           /\ Burst(h).chunk = Chunks \/ Burst(h).packets_in_window >= h.window_size
           /\ Burst(h).chunk > h.chunk => Burst(h).packets_in_window =< h.window_size
<1> DEFINE n == Room(h)
           s == h.sent_so_far
           new == [i \in s+1..s+n |-> SrcPacket(h, s + (i - s), 0, h.chunk + (i - s))]
           more == [j \in 1..n |-> SrcPacket(h, s + j, 0, h.chunk + j)]
           window == Insert(h.sent_window, new)
           sent == h.out \o more
           b == [h EXCEPT !.chunk = h.chunk + n, !.sent_so_far = s + n,
                          !.packets_in_window = h.packets_in_window + n,
                          !.sent_window = window, !.out = sent]
<1>0. /\ Counts(h) /\ h.sync_bit = 3
      /\ h.sent_window = Span(h.last_ack, s) /\ h.out \in Seq(SentBy(s))
  BY DEF Window
<1>1. /\ n \in 0..Chunks-h.chunk
      /\ n = Chunks - h.chunk \/ h.packets_in_window + n >= h.window_size
      /\ n > 0 => h.packets_in_window + n =< h.window_size
  BY <1>0, RoomLemma
<1>2. n > 0 => s = h.chunk + 2
  BY <1>0, <1>1, ChunksAssumption DEF Counts
<1>t. /\ Chunks \in Nat /\ n \in Nat /\ s \in Nat /\ h.chunk \in Nat /\ h.last_ack \in Nat
      /\ h.last_ack =< s /\ h.chunk + n =< Chunks /\ h.packets_in_window \in Int
  BY <1>0, <1>1, CountsType, ChunksAssumption
<1> HIDE DEF n
<1>3. \A j \in 1..n : SrcPacket(h, s + j, 0, h.chunk + j) = Packet(s + j)
  <2> SUFFICES ASSUME NEW j \in 1..n PROVE SrcPacket(h, s + j, 0, h.chunk + j) = Packet(s + j)
    OBVIOUS
  <2>1. s + j \in 3..Chunks+2 /\ s + j # 1 /\ s + j # Chunks + 3 /\ h.chunk + j = (s + j) - 2
    BY <1>2, <1>t
  <2> QED BY <1>0, <2>1 DEF SrcPacket, Packet, FinId
<1>4. new = Span(s, s + n)
  BY <1>t, <1>3 DEF Span
<1>5. window = Span(h.last_ack, s + n)
  BY <1>0, <1>4, <1>t, InsertSpan
<1>6. sent \in Seq(SentBy(s + n))
  <2>1. more \in Seq(SentBy(s + n))
    <3>1. \A j \in 1..n : more[j] \in SentBy(s + n) BY <1>t, <1>3 DEF SentBy
    <3> QED BY <1>t, <3>1, SeqDef
  <2>2. h.out \in Seq(SentBy(s + n)) BY <1>0, <1>t, SentByGrows
  <2> QED BY <2>1, <2>2, ConcatProperties
<1>7. Burst(h) = b BY DEF Burst, n
<1> HIDE DEF window, sent
<1>7a. IsSrc(b) /\ \A f \in SrcFields \ Bursted : b[f] = h[f]
  BY DEF IsSrc, SrcFields, Bursted
<1>8. /\ b.chunk = h.chunk + n /\ b.sent_so_far = s + n
      /\ b.packets_in_window = h.packets_in_window + n
  BY DEF IsSrc, SrcFields, Bursted
<1>8b. b.sent_window = window /\ b.out = sent
  BY DEF IsSrc, SrcFields, Bursted
<1>9. /\ b.term_bit = h.term_bit /\ b.last_ack = h.last_ack /\ b.window_size = h.window_size
      /\ b.sync_bit = h.sync_bit /\ b.dest_map = h.dest_map /\ b.dup_ack_count = h.dup_ack_count
  BY <1>7a DEF SrcFields, Bursted
<1> HIDE DEF b
<1>10. Counts(b)
  <2>1. CASE n = 0
    BY <1>0, <1>t, <1>8, <1>9, <2>1 DEF Counts
  <2>2. CASE n > 0
    <3>1. h.term_bit = 0 \/ n = 0 BY <1>0, <1>1, <1>t DEF Counts
    <3>2. h.chunk + n \in 0..Chunks BY <1>t
    <3>3. h.last_ack \in 2..s+n BY <1>0, <1>t DEF Counts
    <3>4. h.sent_so_far = h.chunk + 2 /\ h.packets_in_window = h.sent_so_far - h.last_ack
      BY <1>0, <2>2, <3>1 DEF Counts
    <3>5. b.term_bit = 0 /\ b.chunk \in 0..Chunks /\ b.last_ack \in 2..b.sent_so_far
      BY <1>8, <1>9, <2>2, <1>t, <3>1, <3>2, <3>3
    <3>6. b.sent_so_far = b.chunk + 2 /\ b.packets_in_window = b.sent_so_far - b.last_ack
      BY <1>8, <1>9, <1>t, <3>4
    <3>7. b.window_size \in Nat \ {0} BY <1>0, <1>9 DEF Counts
    <3> QED BY <3>5, <3>6, <3>7 DEF Counts
  <2> QED BY <1>t, <2>1, <2>2
<1>11. Window(b)
  BY <1>0, <1>5, <1>6, <1>8, <1>8b, <1>9, <1>10 DEF Window
<1> QED BY <1>1, <1>t, <1>7, <1>7a, <1>8, <1>9, <1>11

\* A watched host has a timer on the oldest packet or has none.
LEMMA OpenIsReady == ASSUME NEW h, Open(h) PROVE Ready(h)
<1>1. Counts(h) BY DEF Open, Window
<1>2. h.last_ack \in Nat /\ h.sent_so_far \in Nat /\ h.last_ack =< h.sent_so_far
  BY <1>1, CountsType
<1> QED BY <1>2 DEF Open, Ready, Watched

\* terminate() keeps the window's bookkeeping and puts the FIN last.
LEMMA TerminateLemma ==
    ASSUME NEW h, IsSrc(h), Window(h), MayTerminate(h)
    PROVE  /\ IsSrc(Terminate(h)) /\ Window(Terminate(h))
           /\ \A f \in SrcFields \ {"term_bit", "sent_so_far", "sent_window", "out"} : Terminate(h)[f] = h[f]
           /\ Terminate(h).term_bit = 1 /\ Terminate(h).sent_so_far = h.sent_so_far + 1
<1> DEFINE s == h.sent_so_far
           fin == SrcPacket(h, s + 1, 1, 0)
           window == Insert(h.sent_window, [i \in {fin.id} |-> fin])
           sent == Append(h.out, fin)
           t == [[h EXCEPT !.out = sent] EXCEPT !.term_bit = 1, !.sent_so_far = s + 1, !.sent_window = window]
<1>0. /\ Counts(h) /\ h.sync_bit = 3 /\ h.term_bit = 0 /\ h.chunk = Chunks /\ Chunks \in Nat
      /\ h.sent_window = Span(h.last_ack, s) /\ h.out \in Seq(SentBy(s))
  BY ChunksAssumption DEF Window, MayTerminate
<1>1. /\ s = Chunks + 2 /\ h.last_ack \in 2..s /\ h.packets_in_window = s - h.last_ack
      /\ h.window_size \in Nat \ {0}
  BY <1>0 DEF Counts
<1>2. fin = Packet(s + 1) /\ fin.id = s + 1
  <2>1. s + 1 = Chunks + 3 /\ s + 1 # 1 /\ s + 1 \notin 3..Chunks+2 BY <1>0, <1>1
  <2> QED BY <1>0, <2>1 DEF SrcPacket, Packet, FinId
<1>3. window = Span(h.last_ack, s + 1)
  <2>1. {fin.id} = s+1..s+1 BY <1>0, <1>1, <1>2
  <2>2. [i \in {fin.id} |-> fin] = Span(s, s + 1) BY <1>0, <1>1, <1>2, <2>1 DEF Span
  <2> QED BY <1>0, <1>1, <2>2, InsertSpan
<1>4. sent \in Seq(SentBy(s + 1))
  <2>1. h.out \in Seq(SentBy(s + 1)) BY <1>0, <1>1, SentByGrows
  <2>2. fin \in SentBy(s + 1) BY <1>0, <1>1, <1>2 DEF SentBy
  <2> QED BY <2>1, <2>2, AppendProperties
<1>5. Terminate(h) = t
  BY DEF Terminate, Send, SrcPacket
<1> HIDE DEF window, sent
<1>6. IsSrc(t) /\ \A f \in SrcFields \ {"term_bit", "sent_so_far", "sent_window", "out"} : t[f] = h[f]
  BY DEF IsSrc, SrcFields
<1>7. t.term_bit = 1 /\ t.sent_so_far = s + 1
  BY DEF IsSrc, SrcFields
<1>8. t.sent_window = window /\ t.out = sent
  BY DEF IsSrc, SrcFields
<1>9. /\ t.chunk = h.chunk /\ t.last_ack = h.last_ack /\ t.packets_in_window = h.packets_in_window
      /\ t.window_size = h.window_size
      /\ t.sync_bit = h.sync_bit /\ t.dest_map = h.dest_map /\ t.dup_ack_count = h.dup_ack_count
  BY <1>6 DEF SrcFields
<1> HIDE DEF t
<1>10. Counts(t)
  BY <1>0, <1>1, <1>7, <1>9 DEF Counts
<1>11. Window(t)
  BY <1>0, <1>3, <1>4, <1>7, <1>8, <1>9, <1>10 DEF Window
<1> QED BY <1>5, <1>6, <1>7, <1>11

\* What arming and cancelling the timer changes.
Timing == {"retransmit_pkt", "retrans", "retrans_bit", "timers"}

\* The members that Window speaks of.
Framed == {"sync_bit", "dest_map", "term_bit", "dup_ack_count", "chunk", "sent_so_far", "last_ack",
           "packets_in_window", "window_size", "sent_window", "out"}

\* Window is a matter of the members in Framed alone.
LEMMA WindowFramed ==
    ASSUME NEW h, NEW g, Window(h), \A f \in Framed : g[f] = h[f]
    PROVE  Window(g)
<1>1. /\ g.sync_bit = h.sync_bit /\ g.dest_map = h.dest_map /\ g.term_bit = h.term_bit
      /\ g.dup_ack_count = h.dup_ack_count /\ g.chunk = h.chunk /\ g.sent_so_far = h.sent_so_far
      /\ g.last_ack = h.last_ack /\ g.packets_in_window = h.packets_in_window
      /\ g.window_size = h.window_size /\ g.sent_window = h.sent_window /\ g.out = h.out
  BY DEF Framed
<1> QED BY <1>1 DEF Window, Counts

\* The end of send_file() leaves one timer, on the oldest packet, if there is one.
LEMMA WatchOldestLemma ==
    ASSUME NEW h, Ready(h)
    PROVE  Open(WatchOldest(h)) /\ \A f \in SrcFields \ Timing : WatchOldest(h)[f] = h[f]
<1> DEFINE p == Oldest(h.sent_window)
           g == [h EXCEPT !.retransmit_pkt = p]
           w == WatchOldest(h)
<1>1. /\ IsSrc(h) /\ Window(h) /\ Counts(h)
      /\ h.last_ack \in Nat /\ h.sent_so_far \in Nat /\ h.last_ack =< h.sent_so_far
  BY CountsType DEF Ready, Window
<1>2. p = IF h.last_ack < h.sent_so_far THEN Packet(h.last_ack + 1) ELSE NULL
  BY <1>1, OldestOfSpan DEF Window
<1>3. h.last_ack < h.sent_so_far <=> p # NULL
  BY <1>1, <1>2, PacketNotNull
<1>4. w = IF g.retrans_bit = 0 /\ g.retransmit_pkt # NULL THEN Arm(g, 2) ELSE g
  BY DEF WatchOldest
<1> HIDE DEF p, w
<1>5. /\ IsSrc(g) /\ g.retransmit_pkt = p
      /\ \A f \in SrcFields \ {"retransmit_pkt"} : g[f] = h[f]
  BY <1>1 DEF IsSrc, SrcFields
<1> HIDE DEF g
<1>6. /\ g.retrans_bit = h.retrans_bit /\ g.retrans = h.retrans /\ g.timers = h.timers
      /\ g.last_ack = h.last_ack /\ g.sent_so_far = h.sent_so_far
  BY <1>5 DEF SrcFields
<1>7. CASE h.retrans_bit = 0 /\ p # NULL
  <2>1. w = Arm(g, 2) BY <1>4, <1>5, <1>6, <1>7
  <2>2. h.timers = 0 BY <1>7 DEF Ready, Armed, Idle
  <2>3. /\ IsSrc(w) /\ w.retrans = TRUE /\ w.retrans_bit = 2 /\ w.timers = g.timers + 1
        /\ \A f \in SrcFields \ {"retrans", "retrans_bit", "timers"} : w[f] = g[f]
    BY <1>5, <2>1 DEF IsSrc, SrcFields, Arm
  <2>4. \A f \in SrcFields \ Timing : w[f] = h[f] BY <1>5, <2>3 DEF SrcFields, Timing
  <2>5. Window(w) BY <1>1, <2>4, WindowFramed DEF SrcFields, Timing, Framed
  <2>6. w.retransmit_pkt = p /\ w.last_ack = h.last_ack /\ w.sent_so_far = h.sent_so_far
    BY <1>5, <1>6, <2>3 DEF SrcFields
  <2>7. Watched(w)
    BY <1>1, <1>2, <1>3, <1>6, <1>7, <2>2, <2>3, <2>6 DEF Watched, Armed
  <2> QED BY <2>3, <2>4, <2>5, <2>7 DEF Open, w
<1>8. CASE ~(h.retrans_bit = 0 /\ p # NULL)
  <2>1. w = g BY <1>4, <1>5, <1>6, <1>8
  <2>2. \A f \in SrcFields \ Timing : w[f] = h[f] BY <1>5, <2>1 DEF SrcFields, Timing
  <2>3. Window(w) BY <1>1, <2>2, WindowFramed DEF SrcFields, Timing, Framed
  <2>4. Watched(w)
    <3>1. CASE p # NULL
      BY <1>1, <1>2, <1>3, <1>5, <1>6, <1>8, <2>1, <3>1 DEF Watched, Ready, Armed, Idle
    <3>2. CASE p = NULL
      <4>1. ~(h.last_ack < h.sent_so_far) /\ h.last_ack = h.sent_so_far BY <1>1, <1>3, <3>2
      <4>2. Idle(h) BY <4>1, <1>1 DEF Ready
      <4> QED BY <1>5, <1>6, <2>1, <3>2, <4>1, <4>2 DEF Watched, Ready, Idle, Armed
    <3> QED BY <3>1, <3>2
  <2> QED BY <1>5, <2>1, <2>2, <2>3, <2>4 DEF Open, w
<1> QED BY <1>7, <1>8

\* What send_file() finds: a timer on the oldest packet, or none yet.
Sendable(h) ==
    /\ IsSrc(h) /\ Window(h)
    /\ \/ Armed(h) /\ h.last_ack < h.sent_so_far
       \/ Idle(h) /\ (h.term_bit # 0 /\ h.last_ack = h.sent_so_far => h.retrans = FALSE)

\* send_file() may be called in every state between two events.
LEMMA OpenIsSendable == ASSUME NEW h, Open(h) PROVE Sendable(h)
BY OpenIsReady DEF Open, Ready, Sendable

\* send_file() keeps the bookkeeping, moves forward only, and leaves a packet
\* outstanding unless the FIN has been sent.
LEMMA SendFileLemma ==
    ASSUME NEW h, Sendable(h)
    PROVE  /\ Open(SendFile(h)) /\ Pending(SendFile(h))
           /\ SendFile(h).last_ack = h.last_ack
           /\ SendFile(h).chunk >= h.chunk /\ SendFile(h).sent_so_far >= h.sent_so_far
           /\ h.term_bit # 0 => SendFile(h).term_bit = h.term_bit
           /\ h.term_bit = 0 => SendFile(h).term_bit \in {0, 1}
<1> DEFINE b == Burst(h)
           t == IF MayTerminate(b) THEN Terminate(b) ELSE b
<1>1. /\ IsSrc(h) /\ Window(h) /\ Counts(h)
      /\ h.last_ack \in Nat /\ h.sent_so_far \in Nat /\ h.chunk \in Nat /\ h.last_ack =< h.sent_so_far
  BY CountsType DEF Sendable, Window
<1>2. /\ IsSrc(b) /\ Window(b)
      /\ \A f \in SrcFields \ Bursted : b[f] = h[f]
      /\ b.chunk >= h.chunk /\ b.sent_so_far >= h.sent_so_far
      /\ b.chunk = Chunks \/ b.packets_in_window >= h.window_size
  BY <1>1, BurstLemma
<1>3. SendFile(h) = WatchOldest(t) BY DEF SendFile
<1> HIDE DEF b
<1>4. /\ b.term_bit = h.term_bit /\ b.last_ack = h.last_ack /\ b.window_size = h.window_size
      /\ b.retrans = h.retrans /\ b.retrans_bit = h.retrans_bit /\ b.timers = h.timers
  BY <1>2 DEF SrcFields, Bursted
<1>5. /\ Counts(b) /\ b.sent_so_far \in Nat /\ b.chunk \in Nat /\ b.packets_in_window \in Int
      /\ b.window_size \in Nat \ {0} /\ h.term_bit \in 0..2
  BY <1>1, <1>2, CountsType DEF Window, Counts
<1>6. /\ IsSrc(t) /\ Window(t) /\ t.last_ack = h.last_ack /\ t.chunk = b.chunk
      /\ t.retrans = h.retrans /\ t.retrans_bit = h.retrans_bit /\ t.timers = h.timers
      /\ t.sent_so_far >= b.sent_so_far /\ t.sent_so_far \in Nat
      /\ h.term_bit # 0 => t.term_bit = h.term_bit
      /\ h.term_bit = 0 => t.term_bit \in {0, 1}
      /\ t.term_bit = 0 => t = b /\ ~MayTerminate(b)
      /\ h.term_bit = 0 /\ t.term_bit # 0 => t.sent_so_far = b.sent_so_far + 1
  <2>1. CASE MayTerminate(b)
    <3>1. /\ IsSrc(t) /\ Window(t)
          /\ \A f \in SrcFields \ {"term_bit", "sent_so_far", "sent_window", "out"} : t[f] = b[f]
          /\ t.term_bit = 1 /\ t.sent_so_far = b.sent_so_far + 1
      BY <1>2, <2>1, TerminateLemma
    <3>2. /\ t.last_ack = b.last_ack /\ t.chunk = b.chunk
          /\ t.retrans = b.retrans /\ t.retrans_bit = b.retrans_bit /\ t.timers = b.timers
      BY <3>1 DEF SrcFields
    <3>3. h.term_bit = 0 BY <1>4, <2>1 DEF MayTerminate
    <3> HIDE DEF t
    <3> QED BY <1>4, <1>5, <3>1, <3>2, <3>3
  <2>2. CASE ~MayTerminate(b)
    <3>1. t = b BY <2>2
    <3> HIDE DEF t
    <3> QED BY <1>2, <1>4, <1>5, <2>2, <3>1
  <2> QED BY <2>1, <2>2
<1> HIDE DEF t
<1>7. Pending(t)
  <2> SUFFICES ASSUME t.term_bit = 0 PROVE t.last_ack < t.sent_so_far
    BY DEF Pending
  <2>1. t = b /\ ~MayTerminate(b) /\ b.term_bit = 0 BY <1>6
  <2>2. b.packets_in_window >= b.window_size BY <1>2, <1>4, <1>5, <2>1 DEF MayTerminate
  <2>3. b.packets_in_window = b.sent_so_far - b.last_ack BY <1>5, <2>1 DEF Counts
  <2> QED BY <1>1, <1>4, <1>5, <2>1, <2>2, <2>3
<1>8. Ready(t)
  <2>1. CASE Armed(h) /\ h.last_ack < h.sent_so_far
    BY <1>1, <1>2, <1>5, <1>6, <2>1 DEF Ready, Armed
  <2>2. CASE Idle(h) /\ (h.term_bit # 0 /\ h.last_ack = h.sent_so_far => h.retrans = FALSE)
    <3>1. Idle(t) BY <1>6, <2>2 DEF Idle
    <3>2. ASSUME t.last_ack = t.sent_so_far PROVE t.retrans = FALSE
      <4>1. t.term_bit # 0 BY <1>1, <1>6, <1>7, <3>2 DEF Pending
      <4>2. h.term_bit # 0 BY <1>1, <1>2, <1>5, <1>6, <3>2, <4>1
      <4>3. h.last_ack = h.sent_so_far BY <1>1, <1>2, <1>5, <1>6, <3>2
      <4> QED BY <1>6, <2>2, <4>2, <4>3
    <3> QED BY <1>6, <3>1, <3>2 DEF Ready
  <2> QED BY <2>1, <2>2 DEF Sendable
<1> DEFINE w == WatchOldest(t)
<1>9. Open(w) /\ \A f \in SrcFields \ Timing : w[f] = t[f]
  BY <1>8, WatchOldestLemma
<1> HIDE DEF w
<1>10. /\ w.term_bit = t.term_bit /\ w.last_ack = t.last_ack /\ w.sent_so_far = t.sent_so_far
       /\ w.chunk = t.chunk
  BY <1>9 DEF SrcFields, Timing
<1>11. SendFile(h) = w BY <1>3 DEF w
<1> QED BY <1>1, <1>2, <1>5, <1>6, <1>7, <1>9, <1>10, <1>11 DEF Pending

---------------------------------------------------------------------------
(* sent_window_sync().                                                     *)

\* Sending a packet again changes the channel only.
LEMMA SendLemma ==
    ASSUME NEW h, NEW p, IsSrc(h), Window(h), p \in SentBy(h.sent_so_far)
    PROVE  /\ IsSrc(Send(h, p)) /\ Window(Send(h, p))
           /\ \A f \in SrcFields \ {"out"} : Send(h, p)[f] = h[f]
<1> DEFINE g == [h EXCEPT !.out = Append(h.out, p)]
<1>1. Append(h.out, p) \in Seq(SentBy(h.sent_so_far)) BY AppendProperties DEF Window
<1>2. Send(h, p) = g BY DEF Send
<1>3. IsSrc(g) /\ g.out = Append(h.out, p) /\ \A f \in SrcFields \ {"out"} : g[f] = h[f]
  BY DEF IsSrc, SrcFields
<1> HIDE DEF g
<1>4. /\ g.sync_bit = h.sync_bit /\ g.dest_map = h.dest_map /\ g.term_bit = h.term_bit
      /\ g.dup_ack_count = h.dup_ack_count /\ g.chunk = h.chunk /\ g.sent_so_far = h.sent_so_far
      /\ g.last_ack = h.last_ack /\ g.packets_in_window = h.packets_in_window
      /\ g.window_size = h.window_size /\ g.sent_window = h.sent_window
  BY <1>3 DEF SrcFields
<1>5. Window(g) BY <1>1, <1>3, <1>4 DEF Window, Counts
<1> QED BY <1>2, <1>3, <1>5

\* What a repeated ack can change.
DupChanged == {"dup_ack_count", "window_size", "out"}

\* Halving the window, rounded up, leaves one packet at least.
LEMMA HalfIsPositive == ASSUME NEW w \in Nat \ {0} PROVE (w + 1) \div 2 \in Nat \ {0}
<1> DEFINE v == w + 1
<1>1. v \in Nat /\ v >= 2 OBVIOUS
<1> HIDE DEF v
<1>2. v \div 2 \in Nat /\ v \div 2 >= 1 BY <1>1
<1> QED BY <1>2 DEF v

\* A repeated ack changes no more than its count, the window and the channel.
LEMMA DuplicateAckLemma ==
    ASSUME NEW h, Open(h)
    PROVE  Open(DuplicateAck(h)) /\ \A f \in SrcFields \ DupChanged : DuplicateAck(h)[f] = h[f]
<1>1. IsSrc(h) /\ Window(h) /\ Watched(h) /\ Counts(h) BY DEF Open, Window
<1>2. CASE h.dup_ack_count = 0
  <2> DEFINE g == [h EXCEPT !.dup_ack_count = 1]
  <2>1. DuplicateAck(h) = g BY <1>2 DEF DuplicateAck
  <2>2. /\ IsSrc(g) /\ g.dup_ack_count = 1
        /\ \A f \in SrcFields \ {"dup_ack_count"} : g[f] = h[f]
    BY <1>1 DEF IsSrc, SrcFields
  <2> HIDE DEF g
  <2>3. /\ g.sync_bit = h.sync_bit /\ g.dest_map = h.dest_map /\ g.term_bit = h.term_bit
        /\ g.chunk = h.chunk /\ g.sent_so_far = h.sent_so_far
        /\ g.last_ack = h.last_ack /\ g.packets_in_window = h.packets_in_window
        /\ g.window_size = h.window_size /\ g.sent_window = h.sent_window /\ g.out = h.out
    BY <2>2 DEF SrcFields
  <2>4. /\ g.retrans = h.retrans /\ g.retrans_bit = h.retrans_bit /\ g.timers = h.timers
        /\ g.retransmit_pkt = h.retransmit_pkt
    BY <2>2 DEF SrcFields
  <2>5. Window(g) BY <1>1, <2>2, <2>3 DEF Window, Counts
  <2>6. Watched(g) BY <1>1, <2>3, <2>4 DEF Watched, Armed, Idle
  <2> QED BY <2>1, <2>2, <2>5, <2>6 DEF Open, DupChanged
<1>3. CASE h.dup_ack_count = 1
  <2> DEFINE half == (h.window_size + 1) \div 2
             g == [h EXCEPT !.dup_ack_count = 0, !.window_size = half]
  <2>1. DuplicateAck(h) = IF g.retrans_bit = 2 /\ g.retrans
                          THEN Send(Arm(Cancel(g), 2), g.retransmit_pkt) ELSE g
    BY <1>3 DEF DuplicateAck
  <2>2. half \in Nat \ {0}
    <3>1. h.window_size \in Nat \ {0} BY <1>1 DEF Counts
    <3> QED BY <3>1, HalfIsPositive
  <2> HIDE DEF half
  <2>3. /\ IsSrc(g) /\ g.dup_ack_count = 0 /\ g.window_size = half
        /\ \A f \in SrcFields \ {"dup_ack_count", "window_size"} : g[f] = h[f]
    BY <1>1 DEF IsSrc, SrcFields
  <2> HIDE DEF g
  <2>4. /\ g.sync_bit = h.sync_bit /\ g.dest_map = h.dest_map /\ g.term_bit = h.term_bit
        /\ g.chunk = h.chunk /\ g.sent_so_far = h.sent_so_far
        /\ g.last_ack = h.last_ack /\ g.packets_in_window = h.packets_in_window
        /\ g.sent_window = h.sent_window /\ g.out = h.out
    BY <2>3 DEF SrcFields
  <2>5. /\ g.retrans = h.retrans /\ g.retrans_bit = h.retrans_bit /\ g.timers = h.timers
        /\ g.retransmit_pkt = h.retransmit_pkt
    BY <2>3 DEF SrcFields
  <2>6. Counts(g) BY <1>1, <2>2, <2>3, <2>4 DEF Counts
  <2>7. Window(g) BY <1>1, <2>3, <2>4, <2>6 DEF Window
  <2>8. Watched(g) BY <1>1, <2>4, <2>5 DEF Watched, Armed, Idle
  <2>9. CASE g.retrans_bit = 2 /\ g.retrans
    <3> DEFINE a == Arm(Cancel(g), 2)
    <3>1. /\ g.last_ack < g.sent_so_far /\ g.retrans = TRUE /\ g.timers = 1
          /\ g.retransmit_pkt = Packet(g.last_ack + 1)
      BY <2>8, <2>9 DEF Watched, Armed, Idle
    <3>2. /\ IsSrc(a) /\ a.retrans = TRUE /\ a.retrans_bit = 2 /\ a.timers = g.timers - 1 + 1
          /\ \A f \in SrcFields \ {"retrans", "retrans_bit", "timers"} : a[f] = g[f]
      BY <2>3, <3>1 DEF IsSrc, SrcFields, Arm, Cancel
    <3> HIDE DEF a
    <3>3. \A f \in SrcFields : a[f] = g[f]
      <4>1. a.retrans = g.retrans /\ a.retrans_bit = g.retrans_bit BY <2>9, <3>1, <3>2
      <4>2. a.timers = g.timers BY <3>1, <3>2
      <4> QED BY <3>2, <4>1, <4>2
    <3>4. a = g BY <2>3, <3>2, <3>3 DEF IsSrc
    <3>5. g.retransmit_pkt \in SentBy(g.sent_so_far) BY <2>7, <3>1, OldestIsSent
    <3> DEFINE d == Send(g, g.retransmit_pkt)
    <3>6. IsSrc(d) /\ Window(d) /\ \A f \in SrcFields \ {"out"} : d[f] = g[f]
      BY <2>3, <2>7, <3>5, SendLemma
    <3>7. DuplicateAck(h) = d BY <2>1, <2>9, <3>4 DEF a
    <3> HIDE DEF d
    <3>8. /\ d.retrans = g.retrans /\ d.retrans_bit = g.retrans_bit /\ d.timers = g.timers
          /\ d.retransmit_pkt = g.retransmit_pkt /\ d.last_ack = g.last_ack /\ d.sent_so_far = g.sent_so_far
      BY <3>6 DEF SrcFields
    <3>9. Watched(d) BY <2>8, <3>8 DEF Watched, Armed, Idle
    <3>10. \A f \in SrcFields \ DupChanged : d[f] = h[f] BY <2>3, <3>6 DEF DupChanged
    <3> QED BY <3>6, <3>7, <3>9, <3>10 DEF Open
  <2>10. CASE ~(g.retrans_bit = 2 /\ g.retrans)
    BY <2>1, <2>3, <2>7, <2>8, <2>10 DEF Open, DupChanged
  <2> QED BY <2>9, <2>10
<1> QED BY <1>1, <1>2, <1>3 DEF Window

\* The erasing loop of sent_window_sync() takes exactly the acknowledged packets
\* out of sent_window and of packets_in_window.
LEMMA AcknowledgeLemma ==
    ASSUME NEW h, IsSrc(h), Window(h), NEW ack \in h.last_ack+1 .. h.sent_so_far
    PROVE  /\ IsSrc(Acknowledge(h, ack)) /\ Window(Acknowledge(h, ack))
           /\ Acknowledge(h, ack).last_ack = ack
           /\ \A f \in SrcFields \ {"last_ack", "sent_window", "packets_in_window"} :
                 Acknowledge(h, ack)[f] = h[f]
<1> DEFINE a == h.last_ack
           s == h.sent_so_far
           gone == IF ack \in DOMAIN h.sent_window
                   THEN {i \in DOMAIN h.sent_window : i =< ack} ELSE {}
           window == [i \in DOMAIN h.sent_window \ gone |-> h.sent_window[i]]
           count == h.packets_in_window - Cardinality(gone)
           g == [h EXCEPT !.last_ack = ack, !.sent_window = window, !.packets_in_window = count]
<1>0. /\ Counts(h) /\ a \in Nat /\ s \in Nat /\ a =< s /\ ack \in Nat /\ a < ack /\ ack =< s
      /\ h.sent_window = Span(a, s) /\ h.packets_in_window \in Int
  BY CountsType DEF Window
<1>1. DOMAIN h.sent_window = a+1..s BY <1>0 DEF Span
<1>2. gone = a+1..ack BY <1>0, <1>1
<1>3. Cardinality(gone) = ack - a
  <2> DEFINE lo == a + 1
  <2>0. lo \in Int /\ ack \in Int BY <1>0
  <2> HIDE DEF lo
  <2>1. Cardinality(lo..ack) = IF lo > ack THEN 0 ELSE ack - lo + 1 BY <2>0, FS_Interval
  <2> USE DEF lo
  <2> QED BY <1>0, <1>2, <2>1
<1>4. window = Span(ack, s)
  <2>1. (a+1..s) \ (a+1..ack) = ack+1..s BY <1>0
  <2> QED BY <1>0, <1>1, <1>2, <2>1 DEF Span
<1>5. count = h.packets_in_window - (ack - a) BY <1>3
<1>6. Acknowledge(h, ack) = g BY DEF Acknowledge
<1> HIDE DEF window, count, gone
<1>7. /\ IsSrc(g)
      /\ \A f \in SrcFields \ {"last_ack", "sent_window", "packets_in_window"} : g[f] = h[f]
  <2> HIDE DEF a, s
  <2>1. IsSrc(g) BY DEF IsSrc, SrcFields
  <2>2. \A f \in SrcFields \ {"last_ack", "sent_window", "packets_in_window"} : g[f] = h[f]
    BY DEF IsSrc, SrcFields
  <2> QED BY <2>1, <2>2
<1>8. g.last_ack = ack /\ g.sent_window = window /\ g.packets_in_window = count
  BY DEF IsSrc, SrcFields
<1>9. /\ g.sync_bit = h.sync_bit /\ g.dest_map = h.dest_map /\ g.term_bit = h.term_bit
      /\ g.dup_ack_count = h.dup_ack_count /\ g.chunk = h.chunk /\ g.sent_so_far = h.sent_so_far
      /\ g.window_size = h.window_size /\ g.out = h.out
  BY <1>7 DEF SrcFields
<1> HIDE DEF g
<1>10. Counts(g)
  <2>1. ack \in 2..s BY <1>0 DEF Counts
  <2>2. g.packets_in_window = h.packets_in_window - (ack - a) BY <1>5, <1>8
  <2> QED BY <1>0, <1>8, <1>9, <2>1, <2>2 DEF Counts
<1>11. Window(g) BY <1>0, <1>4, <1>8, <1>9, <1>10 DEF Window
<1> QED BY <1>6, <1>7, <1>8, <1>11

\* After a new ack the oldest packet left is watched by the only timer.
LEMMA ResendOldestLemma ==
    ASSUME NEW h, IsSrc(h), Window(h), Idle(h), h.retrans = FALSE
    PROVE  /\ Open(ResendOldest(h))
           /\ \A f \in SrcFields \ (Timing \cup {"out"}) : ResendOldest(h)[f] = h[f]
<1> DEFINE p == Oldest(h.sent_window)
           g == [h EXCEPT !.retransmit_pkt = p]
           e == IF p.FIN = 1 THEN g ELSE Send(g, p)
           r == ResendOldest(h)
<1>1. Counts(h) /\ h.last_ack \in Nat /\ h.sent_so_far \in Nat /\ h.last_ack =< h.sent_so_far
  BY CountsType DEF Window
<1>2. p = IF h.last_ack < h.sent_so_far THEN Packet(h.last_ack + 1) ELSE NULL
  BY <1>1, OldestOfSpan DEF Window
<1>3. h.last_ack < h.sent_so_far <=> p # NULL BY <1>1, <1>2, PacketNotNull
<1>4. r = IF g.retrans_bit # 0 \/ p = NULL THEN g ELSE Arm(e, 2) BY DEF ResendOldest
<1> HIDE DEF p, r
<1>5. /\ IsSrc(g) /\ g.retransmit_pkt = p
      /\ \A f \in SrcFields \ {"retransmit_pkt"} : g[f] = h[f]
  BY DEF IsSrc, SrcFields
<1> HIDE DEF g
<1>6. /\ g.retrans_bit = 0 /\ g.retrans = FALSE /\ g.timers = 0
      /\ g.last_ack = h.last_ack /\ g.sent_so_far = h.sent_so_far
  BY <1>5 DEF SrcFields, Idle
<1>7. Window(g) BY <1>5, WindowFramed DEF SrcFields, Framed
<1>8. CASE p = NULL
  <2>1. r = g BY <1>4, <1>8
  <2>2. Watched(g) BY <1>1, <1>3, <1>5, <1>6, <1>8 DEF Watched, Idle
  <2> QED BY <1>5, <1>7, <2>1, <2>2 DEF Open, Timing, r
<1>9. CASE p # NULL
  <2>1. r = Arm(e, 2) BY <1>4, <1>6, <1>9
  <2>2. IsSrc(e) /\ Window(e) /\ \A f \in SrcFields \ {"out"} : e[f] = g[f]
    <3>1. p \in SentBy(g.sent_so_far)
      BY <1>2, <1>3, <1>6, <1>9, OldestIsSent
    <3> QED BY <1>5, <1>7, <3>1, SendLemma
  <2> HIDE DEF e
  <2>3. /\ e.retrans_bit = 0 /\ e.retrans = FALSE /\ e.timers = 0 /\ e.retransmit_pkt = p
        /\ e.last_ack = h.last_ack /\ e.sent_so_far = h.sent_so_far
    BY <1>5, <1>6, <2>2 DEF SrcFields
  <2>4. /\ IsSrc(r) /\ r.retrans = TRUE /\ r.retrans_bit = 2 /\ r.timers = e.timers + 1
        /\ \A f \in SrcFields \ {"retrans", "retrans_bit", "timers"} : r[f] = e[f]
    BY <2>1, <2>2 DEF IsSrc, SrcFields, Arm
  <2>5. Window(r) BY <2>2, <2>4, WindowFramed DEF SrcFields, Framed
  <2>6. r.retransmit_pkt = p /\ r.last_ack = h.last_ack /\ r.sent_so_far = h.sent_so_far
    BY <2>3, <2>4 DEF SrcFields
  <2>7. Watched(r) BY <1>2, <1>3, <1>9, <2>3, <2>4, <2>6 DEF Watched, Armed
  <2>8. \A f \in SrcFields \ (Timing \cup {"out"}) : r[f] = h[f]
    BY <1>5, <2>2, <2>4 DEF Timing
  <2> QED BY <2>4, <2>5, <2>7, <2>8 DEF Open, r
<1> QED BY <1>8, <1>9

\* A new ack moves last_ack to it and keeps the bookkeeping.
LEMMA NewAckLemma ==
    ASSUME NEW h, Open(h), NEW ack \in h.last_ack+1 .. h.sent_so_far, NEW w \in Nat \ {0}
    PROVE  /\ Open(NewAck(h, ack, w)) /\ NewAck(h, ack, w).last_ack = ack
           /\ \A f \in {"term_bit", "chunk", "sent_so_far"} : NewAck(h, ack, w)[f] = h[f]
<1> DEFINE d == [h EXCEPT !.dup_ack_count = 0, !.window_size = w]
           c == [d EXCEPT !.retrans = FALSE, !.retrans_bit = 0, !.timers = d.timers - 1]
           k == Acknowledge(c, ack)
           r == ResendOldest(k)
<1>0. Counts(h) /\ h.last_ack \in Nat /\ h.sent_so_far \in Nat /\ h.last_ack < h.sent_so_far
  <2>1. Counts(h) BY DEF Open, Window
  <2> QED BY <2>1, CountsType
<1>1. IsSrc(h) /\ Window(h) /\ Armed(h) BY <1>0 DEF Open, Watched
<1>2. /\ IsSrc(d) /\ d.dup_ack_count = 0 /\ d.window_size = w
      /\ \A f \in SrcFields \ {"dup_ack_count", "window_size"} : d[f] = h[f]
  BY <1>1 DEF IsSrc, SrcFields
<1>3. NewAck(h, ack, w) = ResendOldest(Acknowledge(Cancel(d), ack)) BY DEF NewAck
<1> HIDE DEF d
<1>4. d.retrans = TRUE /\ d.timers = 1 BY <1>1, <1>2 DEF SrcFields, Armed
<1>5. Cancel(d) = c BY <1>4 DEF Cancel
<1>6. /\ IsSrc(c) /\ c.retrans = FALSE /\ c.retrans_bit = 0 /\ c.timers = d.timers - 1
      /\ \A f \in SrcFields \ {"retrans", "retrans_bit", "timers"} : c[f] = d[f]
  BY <1>2 DEF IsSrc, SrcFields
<1> HIDE DEF c
<1>7. /\ c.sync_bit = h.sync_bit /\ c.dest_map = h.dest_map /\ c.term_bit = h.term_bit
      /\ c.chunk = h.chunk /\ c.sent_so_far = h.sent_so_far
      /\ c.last_ack = h.last_ack /\ c.packets_in_window = h.packets_in_window
      /\ c.sent_window = h.sent_window /\ c.out = h.out
  BY <1>2, <1>6 DEF SrcFields
<1>8. c.dup_ack_count = 0 /\ c.window_size = w BY <1>2, <1>6 DEF SrcFields
<1>9. Counts(c) BY <1>0, <1>7, <1>8 DEF Counts
<1>10. Window(c) BY <1>1, <1>7, <1>8, <1>9 DEF Window
<1>11. /\ IsSrc(k) /\ Window(k) /\ k.last_ack = ack
       /\ \A f \in SrcFields \ {"last_ack", "sent_window", "packets_in_window"} : k[f] = c[f]
  BY <1>6, <1>7, <1>10, AcknowledgeLemma
<1> HIDE DEF k
<1>12. Idle(k) /\ k.retrans = FALSE BY <1>4, <1>6, <1>11 DEF SrcFields, Idle
<1>13. Open(r) /\ \A f \in SrcFields \ (Timing \cup {"out"}) : r[f] = k[f]
  BY <1>11, <1>12, ResendOldestLemma
<1>14. NewAck(h, ack, w) = r BY <1>3, <1>5 DEF k
<1> HIDE DEF r
<1>15. /\ r.last_ack = ack /\ r.term_bit = h.term_bit /\ r.chunk = h.chunk
       /\ r.sent_so_far = h.sent_so_far
  BY <1>7, <1>11, <1>13 DEF SrcFields, Timing
<1> QED BY <1>13, <1>14, <1>15

\* sent_window_sync() keeps the bookkeeping whatever ack it is given, and moves
\* last_ack up to that ack and never down.
LEMMA SentWindowSyncLemma ==
    ASSUME NEW h, Open(h), NEW ack \in 0..h.sent_so_far, NEW w \in Nat \ {0}
    PROVE  LET g == SentWindowSync(h, ack, w)
           IN  /\ Open(g)
               /\ g.last_ack = IF ack > h.last_ack THEN ack ELSE h.last_ack
               /\ g.term_bit = h.term_bit /\ g.chunk = h.chunk /\ g.sent_so_far = h.sent_so_far
<1> DEFINE g == SentWindowSync(h, ack, w)
<1>0. h.last_ack \in Nat /\ h.sent_so_far \in Nat
  <2>1. Counts(h) BY DEF Open, Window
  <2> QED BY <2>1, CountsType
<1>1. CASE ack < h.last_ack
  <2>1. g = h BY <1>1 DEF SentWindowSync
  <2> QED BY <1>0, <1>1, <2>1
<1>2. CASE ack = h.last_ack
  <2>1. g = DuplicateAck(h) BY <1>0, <1>2 DEF SentWindowSync
  <2>2. Open(g) /\ \A f \in SrcFields \ DupChanged : g[f] = h[f] BY <2>1, DuplicateAckLemma
  <2> HIDE DEF g
  <2>3. /\ g.last_ack = h.last_ack /\ g.term_bit = h.term_bit /\ g.chunk = h.chunk
        /\ g.sent_so_far = h.sent_so_far
    BY <2>2 DEF SrcFields, DupChanged
  <2> QED BY <1>0, <1>2, <2>2, <2>3 DEF g
<1>3. CASE ack > h.last_ack
  <2>1. g = NewAck(h, ack, w) BY <1>0, <1>3 DEF SentWindowSync
  <2>2. ack \in h.last_ack+1 .. h.sent_so_far BY <1>0, <1>3
  <2>3. /\ Open(g) /\ g.last_ack = ack
        /\ \A f \in {"term_bit", "chunk", "sent_so_far"} : g[f] = h[f]
    BY <2>1, <2>2, NewAckLemma
  <2> HIDE DEF g
  <2> QED BY <1>0, <1>3, <2>3 DEF g
<1> QED BY <1>0, <1>1, <1>2, <1>3

\* The FIN-ACK closes the source before its ack is looked at.
LEMMA CloseLemma ==
    ASSUME NEW h, Open(h), h.term_bit = 1
    PROVE  LET g == [h EXCEPT !.term_bit = 2]
           IN  /\ Open(g) /\ g.term_bit = 2
               /\ \A f \in SrcFields \ {"term_bit"} : g[f] = h[f]
<1> DEFINE g == [h EXCEPT !.term_bit = 2]
<1>1. IsSrc(g) /\ g.term_bit = 2 /\ \A f \in SrcFields \ {"term_bit"} : g[f] = h[f]
  BY DEF IsSrc, SrcFields, Open
<1> HIDE DEF g
<1>2. /\ g.sync_bit = h.sync_bit /\ g.dest_map = h.dest_map /\ g.dup_ack_count = h.dup_ack_count
      /\ g.chunk = h.chunk /\ g.sent_so_far = h.sent_so_far /\ g.last_ack = h.last_ack
      /\ g.packets_in_window = h.packets_in_window /\ g.window_size = h.window_size
      /\ g.sent_window = h.sent_window /\ g.out = h.out
  BY <1>1 DEF SrcFields
<1>3. /\ g.retrans = h.retrans /\ g.retrans_bit = h.retrans_bit /\ g.timers = h.timers
      /\ g.retransmit_pkt = h.retransmit_pkt
  BY <1>1 DEF SrcFields
<1>4. Window(g) BY <1>1, <1>2 DEF Open, Window, Counts
<1>5. Watched(g) BY <1>2, <1>3 DEF Open, Watched, Armed, Idle
<1> QED BY <1>1, <1>4, <1>5 DEF g, Open

---------------------------------------------------------------------------
(* The handshake and the channel.                                          *)

\* handle_timer() sends the next control packet, the SYN or the ACK.
LEMMA SendControlLemma ==
    ASSUME NEW h, NEW n \in {0, 1}, IsSrc(h), h.sent_so_far = n, h.out \in Seq(SentBy(n)),
           h.sync_bit = IF n = 0 THEN 1 ELSE 3
    PROVE  LET c == SendControl(h)
           IN  /\ IsSrc(c) /\ c.sent_so_far = n + 1 /\ c.out \in Seq(SentBy(n + 1))
               /\ \A f \in SrcFields \ {"sent_so_far", "out"} : c[f] = h[f]
<1> DEFINE p == SrcPacket(h, h.sent_so_far + 1, 0, 0)
           s == Send(h, p)
           c == SendControl(h)
<1>1. p = Packet(n + 1)
  <2>1. n + 1 # FinId /\ n + 1 \notin 3..Chunks+2 BY ChunksAssumption DEF FinId
  <2> QED BY <2>1 DEF SrcPacket, Packet
<1>2. p \in SentBy(n + 1) /\ h.out \in Seq(SentBy(n + 1))
  <2>1. n + 1 \in 1..n+1 OBVIOUS
  <2> QED BY <1>1, <2>1, SentByGrows DEF SentBy
<1> HIDE DEF p
<1> DEFINE o == Append(h.out, p)
           g == [h EXCEPT !.out = o]
<1>3. o \in Seq(SentBy(n + 1)) BY <1>2, AppendProperties
<1>4. s = g BY DEF Send
<1>5. c = [s EXCEPT !.sent_so_far = s.sent_so_far + 1] BY DEF SendControl, p
<1> HIDE DEF o, s, c
<1>6. IsSrc(g) /\ g.out = o /\ \A f \in SrcFields \ {"out"} : g[f] = h[f]
  BY DEF IsSrc, SrcFields
<1> HIDE DEF g
<1>7. s.sent_so_far + 1 = n + 1 BY <1>4, <1>6 DEF SrcFields
<1>8. /\ IsSrc(c) /\ c.sent_so_far = n + 1
      /\ \A f \in SrcFields \ {"sent_so_far"} : c[f] = g[f]
  BY <1>4, <1>5, <1>6, <1>7 DEF IsSrc, SrcFields
<1>9. c.out = o BY <1>6, <1>8 DEF SrcFields
<1>10. \A f \in SrcFields \ {"sent_so_far", "out"} : c[f] = h[f] BY <1>6, <1>8
<1> QED BY <1>3, <1>8, <1>9, <1>10 DEF c

\* The host that reset() leaves is a record of SrcFields.
LEMMA FreshIsSrc == ASSUME NEW dup PROVE IsSrc(FreshSrc(dup))
BY DEF IsSrc, SrcFields, FreshSrc

\* The flow's start leaves the SYN sent and watched.
LEMMA StartLemma ==
    ASSUME NEW dup \in {0, 1}
    PROVE  Syn(SendControl(Arm([FreshSrc(dup) EXCEPT !.dest_map = FALSE], 1)))
<1> DEFINE h == FreshSrc(dup)
           a == [h EXCEPT !.dest_map = FALSE]
           b == [a EXCEPT !.retrans = TRUE, !.retrans_bit = 1, !.timers = a.timers + 1]
           c == SendControl(b)
<1>1. /\ IsSrc(h) /\ h.dest_map = TRUE /\ h.sync_bit = 1 /\ h.term_bit = 0
      /\ h.timers = 0 /\ h.sent_so_far = 0 /\ h.last_ack = 0 /\ h.chunk = 0
      /\ h.sent_window = <<>> /\ h.packets_in_window = 0 /\ h.window_size = 1
      /\ h.retransmit_pkt = NULL /\ h.dup_ack_count = dup /\ h.out = <<>>
  BY FreshIsSrc DEF FreshSrc
<1> HIDE DEF h
<1>2. IsSrc(a) /\ a.dest_map = FALSE /\ \A f \in SrcFields \ {"dest_map"} : a[f] = h[f]
  BY <1>1 DEF IsSrc, SrcFields
<1>3. Arm(a, 1) = b BY DEF Arm
<1> HIDE DEF a
<1>4. a.timers + 1 = 1 BY <1>1, <1>2 DEF SrcFields
<1>5. /\ IsSrc(b) /\ b.retrans = TRUE /\ b.retrans_bit = 1 /\ b.timers = 1
      /\ \A f \in SrcFields \ {"retrans", "retrans_bit", "timers"} : b[f] = a[f]
  BY <1>2, <1>4 DEF IsSrc, SrcFields
<1> HIDE DEF b
<1>6. /\ b.dest_map = FALSE /\ b.sync_bit = 1 /\ b.term_bit = 0
      /\ b.sent_so_far = 0 /\ b.last_ack = 0 /\ b.chunk = 0
      /\ b.sent_window = <<>> /\ b.packets_in_window = 0 /\ b.window_size = 1
      /\ b.retransmit_pkt = NULL /\ b.dup_ack_count = dup /\ b.out = <<>>
  BY <1>1, <1>2, <1>5 DEF SrcFields
<1>7. b.out \in Seq(SentBy(0)) BY <1>6
<1>8. /\ IsSrc(c) /\ c.sent_so_far = 1 /\ c.out \in Seq(SentBy(1))
      /\ \A f \in SrcFields \ {"sent_so_far", "out"} : c[f] = b[f]
  <2> DEFINE n == 0
  <2>1. n \in {0, 1} /\ n + 1 = 1 OBVIOUS
  <2>2. b.sent_so_far = n /\ b.out \in Seq(SentBy(n)) /\ b.sync_bit = IF n = 0 THEN 1 ELSE 3
    BY <1>6, <1>7
  <2> HIDE DEF n
  <2>3. /\ IsSrc(c) /\ c.sent_so_far = n + 1 /\ c.out \in Seq(SentBy(n + 1))
        /\ \A f \in SrcFields \ {"sent_so_far", "out"} : c[f] = b[f]
    BY <1>5, <2>1, <2>2, SendControlLemma
  <2> HIDE DEF c
  <2> QED BY <2>1, <2>3
<1> HIDE DEF c
<1>9. /\ c.dest_map = FALSE /\ c.sync_bit = 1 /\ c.term_bit = 0 /\ c.retrans = TRUE
      /\ c.retrans_bit = 1 /\ c.timers = 1 /\ c.last_ack = 0 /\ c.chunk = 0
      /\ c.sent_window = <<>> /\ c.packets_in_window = 0 /\ c.window_size = 1
      /\ c.retransmit_pkt = NULL /\ c.dup_ack_count = dup
  BY <1>5, <1>6, <1>8 DEF SrcFields
<1>10. Syn(c) BY <1>8, <1>9 DEF Syn
<1> QED BY <1>3, <1>10 DEF a, c, h

\* The SYN-ACK makes the source send the ACK and its first chunks.
LEMMA SynAckLemma ==
    ASSUME NEW h, Syn(h)
    PROVE  LET a == [Cancel(h) EXCEPT !.retrans = h.retrans, !.sync_bit = 3, !.last_ack = 2]
               c == SendControl(a)
               g == SendFile(c)
           IN  /\ Open(g) /\ Pending(g) /\ g.last_ack = 2 /\ g.term_bit # 2
               /\ Sendable(c) /\ c.last_ack = 2
<1> DEFINE k == [h EXCEPT !.retrans = FALSE, !.retrans_bit = 0, !.timers = h.timers - 1]
           a == [k EXCEPT !.retrans = h.retrans, !.sync_bit = 3, !.last_ack = 2]
           c == SendControl(a)
           g == SendFile(c)
<1>1. Cancel(h) = k BY DEF Cancel, Syn
<1>2. IsSrc(h) /\ h.timers - 1 = 0 /\ h.retrans = TRUE BY DEF Syn
<1>3. /\ IsSrc(k) /\ k.retrans_bit = 0 /\ k.timers = 0
      /\ \A f \in SrcFields \ {"retrans", "retrans_bit", "timers"} : k[f] = h[f]
  BY <1>2 DEF IsSrc, SrcFields
<1> HIDE DEF k
<1>4. /\ IsSrc(a) /\ a.retrans = TRUE /\ a.sync_bit = 3 /\ a.last_ack = 2
      /\ \A f \in SrcFields \ {"retrans", "sync_bit", "last_ack"} : a[f] = k[f]
  BY <1>2, <1>3 DEF IsSrc, SrcFields
<1> HIDE DEF a
<1>5. /\ a.dest_map = h.dest_map /\ a.term_bit = h.term_bit /\ a.retrans_bit = 0 /\ a.timers = 0
      /\ a.sent_so_far = h.sent_so_far /\ a.chunk = h.chunk /\ a.sent_window = h.sent_window
      /\ a.packets_in_window = h.packets_in_window /\ a.window_size = h.window_size
      /\ a.dup_ack_count = h.dup_ack_count /\ a.out = h.out
  BY <1>3, <1>4 DEF SrcFields
<1>6. /\ IsSrc(c) /\ c.sent_so_far = 2 /\ c.out \in Seq(SentBy(2))
      /\ \A f \in SrcFields \ {"sent_so_far", "out"} : c[f] = a[f]
  <2> DEFINE n == 1
  <2>1. n \in {0, 1} /\ n + 1 = 2 OBVIOUS
  <2>2. a.sent_so_far = n /\ a.out \in Seq(SentBy(n)) /\ a.sync_bit = IF n = 0 THEN 1 ELSE 3
    BY <1>4, <1>5 DEF Syn
  <2> HIDE DEF n
  <2>3. /\ IsSrc(c) /\ c.sent_so_far = n + 1 /\ c.out \in Seq(SentBy(n + 1))
        /\ \A f \in SrcFields \ {"sent_so_far", "out"} : c[f] = a[f]
    BY <1>4, <2>1, <2>2, SendControlLemma
  <2> HIDE DEF c
  <2> QED BY <2>1, <2>3
<1> HIDE DEF c
<1>7. /\ c.dest_map = FALSE /\ c.sync_bit = 3 /\ c.term_bit = 0 /\ c.retrans = TRUE
      /\ c.retrans_bit = 0 /\ c.timers = 0 /\ c.last_ack = 2 /\ c.chunk = 0
      /\ c.sent_window = <<>> /\ c.packets_in_window = 0 /\ c.window_size = 1
      /\ c.dup_ack_count \in {0, 1}
  BY <1>4, <1>5, <1>6 DEF SrcFields, Syn
<1>8. Counts(c) BY <1>6, <1>7, ChunksAssumption DEF Counts
<1>9. c.sent_window = Span(2, 2)
  <2>1. 2+1..2 = {} OBVIOUS
  <2> QED BY <1>7, <2>1 DEF Span
<1>10. Window(c) BY <1>6, <1>7, <1>8, <1>9 DEF Window
<1>11. Sendable(c) BY <1>6, <1>7, <1>10 DEF Sendable, Idle
<1>12. Open(g) /\ Pending(g) /\ g.last_ack = 2 /\ g.term_bit \in {0, 1}
  BY <1>7, <1>11, SendFileLemma
<1> HIDE DEF g
<1> QED BY <1>1, <1>7, <1>11, <1>12 DEF g, c, a

\* A packet leaves the source's channel.
LEMMA SrcTail ==
    ASSUME NEW h, IsSrc(h)
    PROVE  /\ IsSrc(Received(h)) /\ Received(h).out = Tail(h.out)
           /\ \A f \in SrcFields \ {"out"} : Received(h)[f] = h[f]
<1> DEFINE t == Tail(h.out)
           g == [h EXCEPT !.out = t]
<1>1. Received(h) = g BY DEF Received
<1> HIDE DEF t
<1>2. IsSrc(g) /\ g.out = t BY DEF IsSrc, SrcFields
<1>3. \A f \in SrcFields \ {"out"} : g[f] = h[f] BY DEF IsSrc, SrcFields
<1> HIDE DEF g
<1> QED BY <1>1, <1>2, <1>3 DEF t

\* While the SYN is unanswered nothing else is in the channel.
LEMMA SynTail ==
    ASSUME NEW h, Syn(h), h.out # <<>>
    PROVE  Syn(Received(h)) /\ Head(h.out) = Packet(1)
<1> DEFINE g == Received(h)
<1>1. Head(h.out) \in SentBy(1) /\ Tail(h.out) \in Seq(SentBy(1)) BY SeqHeadTail DEF Syn
<1>2. Head(h.out) = Packet(1)
  <2>1. 1..1 = {1} OBVIOUS
  <2> QED BY <1>1, <2>1 DEF SentBy
<1>3. IsSrc(g) /\ g.out = Tail(h.out) /\ \A f \in SrcFields \ {"out"} : g[f] = h[f]
  BY SrcTail DEF Syn
<1> HIDE DEF g
<1>4. /\ g.dest_map = h.dest_map /\ g.sync_bit = h.sync_bit /\ g.term_bit = h.term_bit
      /\ g.retrans = h.retrans /\ g.retrans_bit = h.retrans_bit /\ g.timers = h.timers
      /\ g.sent_so_far = h.sent_so_far /\ g.last_ack = h.last_ack /\ g.chunk = h.chunk
      /\ g.sent_window = h.sent_window /\ g.packets_in_window = h.packets_in_window
      /\ g.window_size = h.window_size /\ g.retransmit_pkt = h.retransmit_pkt
      /\ g.dup_ack_count = h.dup_ack_count
  BY <1>3 DEF SrcFields
<1>5. Syn(g) BY <1>1, <1>3, <1>4 DEF Syn
<1> QED BY <1>2, <1>5 DEF g

\* A packet that leaves the channel of an open source was sent by it.
LEMMA OpenTail ==
    ASSUME NEW h, Open(h), Pending(h), h.out # <<>>
    PROVE  /\ Open(Received(h)) /\ Pending(Received(h))
           /\ \A f \in SrcFields \ {"out"} : Received(h)[f] = h[f]
           /\ \E k \in 1..h.sent_so_far : Head(h.out) = Packet(k)
<1> DEFINE g == Received(h)
<1>1. Head(h.out) \in SentBy(h.sent_so_far) /\ Tail(h.out) \in Seq(SentBy(h.sent_so_far))
  BY SeqHeadTail DEF Open, Window
<1>2. \E k \in 1..h.sent_so_far : Head(h.out) = Packet(k) BY <1>1 DEF SentBy
<1>3. IsSrc(g) /\ g.out = Tail(h.out) /\ \A f \in SrcFields \ {"out"} : g[f] = h[f]
  BY SrcTail DEF Open
<1> HIDE DEF g
<1>4. /\ g.dest_map = h.dest_map /\ g.sync_bit = h.sync_bit /\ g.term_bit = h.term_bit
      /\ g.retrans = h.retrans /\ g.retrans_bit = h.retrans_bit /\ g.timers = h.timers
      /\ g.sent_so_far = h.sent_so_far /\ g.last_ack = h.last_ack /\ g.chunk = h.chunk
      /\ g.sent_window = h.sent_window /\ g.packets_in_window = h.packets_in_window
      /\ g.window_size = h.window_size /\ g.retransmit_pkt = h.retransmit_pkt
      /\ g.dup_ack_count = h.dup_ack_count
  BY <1>3 DEF SrcFields
<1>5. Window(g) BY <1>1, <1>3, <1>4 DEF Open, Window, Counts
<1>6. Watched(g) BY <1>4 DEF Open, Watched, Armed, Idle
<1>7. Pending(g) BY <1>4 DEF Pending
<1> QED BY <1>2, <1>3, <1>5, <1>6, <1>7 DEF g, Open

---------------------------------------------------------------------------
(* Expired timers.                                                         *)

\* An expired timer that is armed again leaves the source as it was.
LEMMA RearmSrc ==
    ASSUME NEW h, NEW bit, IsSrc(h), h.timers = 1, h.retrans = TRUE, h.retrans_bit = bit
    PROVE  Rearm(h, bit) = h
<1> DEFINE a == [h EXCEPT !.timers = h.timers - 1]
           b == [a EXCEPT !.retrans = TRUE, !.retrans_bit = bit, !.timers = a.timers + 1]
<1>1. h.timers - 1 = 0 OBVIOUS
<1>2. IsSrc(a) /\ a.timers = 0 /\ \A f \in SrcFields \ {"timers"} : a[f] = h[f]
  BY <1>1 DEF IsSrc, SrcFields
<1>3. Rearm(h, bit) = b BY DEF Rearm, Arm
<1> HIDE DEF a
<1>4. a.timers + 1 = 1 BY <1>2
<1>5. /\ IsSrc(b) /\ b.retrans = TRUE /\ b.retrans_bit = bit /\ b.timers = 1
      /\ \A f \in SrcFields \ {"retrans", "retrans_bit", "timers"} : b[f] = a[f]
  BY <1>2, <1>4 DEF IsSrc, SrcFields
<1> HIDE DEF b
<1>6. \A f \in SrcFields : b[f] = h[f] BY <1>2, <1>5 DEF SrcFields
<1>7. b = h BY <1>5, <1>6 DEF IsSrc
<1> QED BY <1>3, <1>7

\* The SYN's timer sends the SYN again.
LEMMA SynTimeoutLemma ==
    ASSUME NEW h, Syn(h)
    PROVE  Syn(Send(Rearm(h, 1), SrcPacket(h, h.sent_so_far, 0, 0)))
<1> DEFINE p == SrcPacket(h, h.sent_so_far, 0, 0)
           o == Append(h.out, p)
           g == [h EXCEPT !.out = o]
<1>1. Rearm(h, 1) = h BY RearmSrc DEF Syn
<1>2. p \in SentBy(1)
  <2>1. p = Packet(1) BY ChunksAssumption DEF SrcPacket, Packet, FinId, Syn
  <2>2. 1 \in 1..1 OBVIOUS
  <2> QED BY <2>1, <2>2 DEF SentBy
<1>3. o \in Seq(SentBy(1))
  <2>1. h.out \in Seq(SentBy(1)) BY DEF Syn
  <2> HIDE DEF p
  <2> QED BY <1>2, <2>1, AppendProperties
<1>4. Send(h, p) = g BY DEF Send
<1> HIDE DEF o
<1>5. IsSrc(g) /\ g.out = o BY DEF IsSrc, SrcFields, Syn
<1>6. \A f \in SrcFields \ {"out"} : g[f] = h[f] BY DEF IsSrc, SrcFields, Syn
<1> HIDE DEF g
<1>7. /\ g.dest_map = h.dest_map /\ g.sync_bit = h.sync_bit /\ g.term_bit = h.term_bit
      /\ g.retrans = h.retrans /\ g.retrans_bit = h.retrans_bit /\ g.timers = h.timers
      /\ g.sent_so_far = h.sent_so_far /\ g.last_ack = h.last_ack /\ g.chunk = h.chunk
      /\ g.sent_window = h.sent_window /\ g.packets_in_window = h.packets_in_window
      /\ g.window_size = h.window_size /\ g.retransmit_pkt = h.retransmit_pkt
      /\ g.dup_ack_count = h.dup_ack_count
  BY <1>6 DEF SrcFields
<1>8. Syn(g) BY <1>3, <1>5, <1>7 DEF Syn
<1> QED BY <1>1, <1>4, <1>8 DEF o, g

\* The data timer sends the oldest packet again and closes the window to one.
LEMMA DataTimeoutLemma ==
    ASSUME NEW h, Open(h), Pending(h), h.retrans_bit = 2
    PROVE  LET g == [Send(Rearm(h, 2), h.retransmit_pkt) EXCEPT !.window_size = 1]
           IN  /\ Open(g) /\ Pending(g)
               /\ \A f \in SrcFields \ {"out", "window_size"} : g[f] = h[f]
<1> DEFINE s == Send(h, h.retransmit_pkt)
           g == [s EXCEPT !.window_size = 1]
<1>1. Armed(h) /\ h.last_ack < h.sent_so_far /\ h.retransmit_pkt = Packet(h.last_ack + 1)
  BY DEF Open, Watched, Idle
<1>2. Rearm(h, 2) = h BY <1>1, RearmSrc DEF Open, Armed
<1>3. /\ IsSrc(s) /\ Window(s) /\ \A f \in SrcFields \ {"out"} : s[f] = h[f]
  <2>1. h.retransmit_pkt \in SentBy(h.sent_so_far) BY <1>1, OldestIsSent DEF Open
  <2> QED BY <2>1, SendLemma DEF Open
<1> HIDE DEF s
<1>4. /\ IsSrc(g) /\ g.window_size = 1
      /\ \A f \in SrcFields \ {"window_size"} : g[f] = s[f]
  BY <1>3 DEF IsSrc, SrcFields
<1> HIDE DEF g
<1>5. \A f \in SrcFields \ {"out", "window_size"} : g[f] = h[f] BY <1>3, <1>4
<1>6. /\ g.sync_bit = s.sync_bit /\ g.dest_map = s.dest_map /\ g.term_bit = s.term_bit
      /\ g.dup_ack_count = s.dup_ack_count /\ g.chunk = s.chunk
      /\ g.sent_so_far = s.sent_so_far /\ g.last_ack = s.last_ack
      /\ g.packets_in_window = s.packets_in_window /\ g.sent_window = s.sent_window
      /\ g.out = s.out
  BY <1>4 DEF SrcFields
<1>7. Window(g) BY <1>3, <1>4, <1>6 DEF Window, Counts
<1>8. /\ g.retrans = h.retrans /\ g.retrans_bit = h.retrans_bit /\ g.timers = h.timers
      /\ g.retransmit_pkt = h.retransmit_pkt /\ g.last_ack = h.last_ack
      /\ g.sent_so_far = h.sent_so_far /\ g.term_bit = h.term_bit
  BY <1>5 DEF SrcFields
<1>9. Watched(g) /\ Pending(g) BY <1>8 DEF Open, Watched, Armed, Idle, Pending
<1> QED BY <1>2, <1>4, <1>5, <1>7, <1>9 DEF g, s, Open

---------------------------------------------------------------------------
(* The destination.                                                        *)

\* The destination's members.
DstFields == {"sync_bit", "term_bit", "retrans", "retrans_bit", "timers",
              "recv_so_far", "recv_window", "ter_seq", "out_file", "out"}

IsDst(d) == d = [f \in DstFields |-> d[f]]

\* The replies of a destination whose recv_so_far is n.
AcksBy(n) == {r \in Acks : /\ r.ack_id \in 1..n
                           /\ r.sync_bit = (IF r.ack_id = 1 THEN 2 ELSE 3)
                           /\ r.FIN = 1 => r.ack_id = FinId}

\* The SYN-ACK is sent and watched.
Waiting(d) ==
    /\ d.sync_bit = 2 /\ d.term_bit = 0
    /\ d.retrans = TRUE /\ d.retrans_bit = 1 /\ d.timers = 1
    /\ d.recv_so_far = 1 /\ d.recv_window = <<>> /\ d.ter_seq = MAX_QUEUE /\ d.out_file = <<>>
    /\ d.out \in Seq(AcksBy(1))

\* How far the destination's side of the teardown has come.
Closing(d) ==
    /\ d.term_bit \in 0..2
    /\ d.ter_seq \in {FinId, MAX_QUEUE}
    /\ d.term_bit = 0 => d.ter_seq = MAX_QUEUE
    /\ d.term_bit = 1 => d.ter_seq = FinId /\ d.recv_so_far < FinId - 1
    /\ d.term_bit = 2 => d.recv_so_far = FinId

\* The file of a destination whose recv_so_far is n: the FIN adds nothing to it.
Copied(n) == File(IF n = FinId THEN Chunks ELSE n - 2)

\* recv_window holds packets beyond the gap, and never the FIN.
Buffered(d, n) ==
    /\ DOMAIN d.recv_window \subseteq {i \in d.recv_so_far+2 .. n : i # FinId}
    /\ d.recv_window = [i \in DOMAIN d.recv_window |-> Packet(i)]

\* The connection is complete and the source has sent packets 1 to n.
Established(d, n) ==
    /\ d.sync_bit = 3 /\ d.retrans = FALSE /\ d.retrans_bit = 0 /\ d.timers = 0
    /\ d.recv_so_far \in 2..n
    /\ Closing(d)
    /\ d.term_bit = 1 => n = FinId
    /\ Buffered(d, n)
    /\ d.out_file = Copied(d.recv_so_far)
    /\ d.out \in Seq(AcksBy(d.recv_so_far))

\* A reply that was true stays true as recv_so_far grows.
LEMMA AcksGrow ==
    ASSUME NEW m \in Nat, NEW n \in Nat, m =< n, NEW s \in Seq(AcksBy(m))
    PROVE  s \in Seq(AcksBy(n))
<1>1. AcksBy(m) \subseteq AcksBy(n) BY DEF AcksBy
<1> QED BY <1>1, SeqMonotonic

\* A reply carries the destination's recv_so_far and changes the channel only.
LEMMA ReplyLemma ==
    ASSUME NEW d, NEW n \in Nat, NEW fin \in {0, 1}, IsDst(d), d.out \in Seq(AcksBy(n)),
           d.recv_so_far \in 1..n, n =< FinId,
           d.sync_bit = IF d.recv_so_far = 1 THEN 2 ELSE 3,
           fin = 1 => d.recv_so_far = FinId
    PROVE  /\ IsDst(Reply(d, fin)) /\ Reply(d, fin).out \in Seq(AcksBy(n))
           /\ \A f \in DstFields \ {"out"} : Reply(d, fin)[f] = d[f]
<1> DEFINE r == [ack_id |-> d.recv_so_far, sync_bit |-> d.sync_bit, FIN |-> fin]
           o == Append(d.out, r)
           g == [d EXCEPT !.out = o]
<1>1. r \in AcksBy(n) BY ChunksAssumption DEF AcksBy, Acks, FinId
<1>2. o \in Seq(AcksBy(n)) BY <1>1, AppendProperties
<1>3. Reply(d, fin) = g BY DEF Reply, Send
<1> HIDE DEF o, r
<1>4. IsDst(g) /\ g.out = o BY DEF IsDst, DstFields
<1>5. \A f \in DstFields \ {"out"} : g[f] = d[f] BY DEF IsDst, DstFields
<1> QED BY <1>2, <1>3, <1>4, <1>5

\* The types of an established destination's counters.
LEMMA EstablishedType ==
    ASSUME NEW d, NEW n \in 2..FinId, Established(d, n)
    PROVE  /\ n \in Nat /\ n =< FinId /\ FinId \in Nat /\ FinId = Chunks + 3
           /\ d.recv_so_far \in Nat /\ d.recv_so_far >= 2 /\ d.recv_so_far =< n
           /\ d.sync_bit = 3
BY ChunksAssumption DEF Established, FinId

\* Sending a reply keeps the destination established.
LEMMA ReplyEstablished ==
    ASSUME NEW d, NEW n \in 2..FinId, NEW fin \in {0, 1}, IsDst(d), Established(d, n),
           fin = 1 => d.recv_so_far = FinId
    PROVE  /\ IsDst(Reply(d, fin)) /\ Established(Reply(d, fin), n)
           /\ Reply(d, fin).recv_so_far = d.recv_so_far /\ Reply(d, fin).term_bit = d.term_bit
<1> DEFINE g == Reply(d, fin)
           m == d.recv_so_far
<1>1. /\ m \in Nat /\ m >= 2 /\ m =< FinId /\ d.sync_bit = 3 /\ d.out \in Seq(AcksBy(m))
  <2>1. n \in Nat /\ n =< FinId /\ FinId \in Nat /\ m \in Nat /\ m >= 2 /\ m =< n
    BY EstablishedType
  <2>2. d.sync_bit = 3 /\ d.out \in Seq(AcksBy(m)) BY DEF Established
  <2> QED BY <2>1, <2>2
<1>2. /\ IsDst(g) /\ g.out \in Seq(AcksBy(m))
      /\ \A f \in DstFields \ {"out"} : g[f] = d[f]
  BY <1>1, ReplyLemma
<1> HIDE DEF g
<1>3. /\ g.sync_bit = d.sync_bit /\ g.term_bit = d.term_bit /\ g.retrans = d.retrans
      /\ g.retrans_bit = d.retrans_bit /\ g.timers = d.timers /\ g.recv_so_far = m
      /\ g.recv_window = d.recv_window /\ g.ter_seq = d.ter_seq /\ g.out_file = d.out_file
  BY <1>2 DEF DstFields
<1>4. Established(g, n) BY <1>2, <1>3 DEF Established, Closing, Buffered
<1> QED BY <1>2, <1>3, <1>4 DEF g

\* The ack of handle_timer() is a reply, with FIN once the flow is closed.
LEMMA SendAckEstablished ==
    ASSUME NEW d, NEW n \in 2..FinId, IsDst(d), Established(d, n)
    PROVE  /\ IsDst(SendAck(d)) /\ Established(SendAck(d), n)
           /\ SendAck(d).recv_so_far = d.recv_so_far /\ SendAck(d).term_bit = d.term_bit
<1> DEFINE fin == IF d.term_bit = 2 THEN 1 ELSE 0
<1>1. fin \in {0, 1} /\ (fin = 1 => d.recv_so_far = FinId) BY DEF Established, Closing
<1> HIDE DEF fin
<1>2. SendAck(d) = Reply(d, fin) BY DEF SendAck, fin
<1> QED BY <1>1, <1>2, ReplyEstablished

\* The destination stays established while the source sends more.
LEMMA EstablishedGrows ==
    ASSUME NEW d, NEW m \in 2..FinId, NEW n \in m..FinId, Established(d, m)
    PROVE  Established(d, n)
<1>1. m \in Nat /\ n \in Nat /\ m =< n /\ d.recv_so_far \in Nat /\ FinId \in Nat
  BY EstablishedType
<1>2. d.recv_so_far \in 2..n BY <1>1 DEF Established
<1>3. Buffered(d, n) BY <1>1 DEF Buffered, Established
<1> QED BY <1>2, <1>3 DEF Established

\* An arrival is taken from the channel.
LEMMA ReceivedEstablished ==
    ASSUME NEW d, NEW n \in 2..FinId, IsDst(d), Established(d, n), d.out # <<>>
    PROVE  /\ IsDst(Received(d)) /\ Established(Received(d), n)
           /\ \A f \in DstFields \ {"out"} : Received(d)[f] = d[f]
           /\ Head(d.out) \in AcksBy(d.recv_so_far)
<1> DEFINE g == Received(d)
           t == Tail(d.out)
<1>1. t \in Seq(AcksBy(d.recv_so_far)) /\ Head(d.out) \in AcksBy(d.recv_so_far)
  BY SeqHeadTail DEF Established
<1>2. g = [d EXCEPT !.out = t] BY DEF Received
<1> HIDE DEF t, g
<1>3. IsDst(g) /\ g.out = t BY <1>2 DEF IsDst, DstFields
<1>4. \A f \in DstFields \ {"out"} : g[f] = d[f] BY <1>2 DEF IsDst, DstFields
<1>5. /\ g.sync_bit = d.sync_bit /\ g.term_bit = d.term_bit /\ g.retrans = d.retrans
      /\ g.retrans_bit = d.retrans_bit /\ g.timers = d.timers /\ g.recv_so_far = d.recv_so_far
      /\ g.recv_window = d.recv_window /\ g.ter_seq = d.ter_seq /\ g.out_file = d.out_file
  BY <1>4 DEF DstFields
<1>6. Established(g, n) BY <1>1, <1>3, <1>5 DEF Established, Closing, Buffered
<1> QED BY <1>1, <1>3, <1>4, <1>6 DEF g

\* The connection as it stands once an arrival that completes it is counted.
Base(d) == IF d.sync_bit = 3 THEN d
           ELSE [d EXCEPT !.retrans = FALSE, !.retrans_bit = 0, !.timers = 0,
                          !.sync_bit = 3, !.recv_so_far = 2]

\* The arrival that completes the connection leaves the destination established.
LEMMA BaseEstablished ==
    ASSUME NEW d, NEW n \in 2..FinId, IsDst(d), Waiting(d) \/ Established(d, n)
    PROVE  /\ IsDst(Base(d)) /\ Established(Base(d), n) /\ Base(d).out = d.out
           /\ Base(d).recv_so_far >= d.recv_so_far /\ Base(d).term_bit = d.term_bit
           /\ Waiting(d) => Base(d).recv_so_far = 2
<1> DEFINE g == [d EXCEPT !.retrans = FALSE, !.retrans_bit = 0, !.timers = 0,
                          !.sync_bit = 3, !.recv_so_far = 2]
<1>1. CASE Established(d, n)
  <2>1. Base(d) = d /\ d.sync_bit = 3 BY <1>1, EstablishedType DEF Base
  <2>2. ~Waiting(d) BY <2>1 DEF Waiting
  <2>3. d.recv_so_far \in Nat BY <1>1, EstablishedType
  <2> QED BY <1>1, <2>1, <2>2, <2>3
<1>2. CASE Waiting(d)
  <2>1. Base(d) = g BY <1>2 DEF Base, Waiting
  <2>2. /\ IsDst(g) /\ g.retrans = FALSE /\ g.retrans_bit = 0 /\ g.timers = 0
        /\ g.sync_bit = 3 /\ g.recv_so_far = 2
    BY DEF IsDst, DstFields
  <2>3. /\ g.recv_window = d.recv_window /\ g.ter_seq = d.ter_seq /\ g.out_file = d.out_file
        /\ g.out = d.out /\ g.term_bit = d.term_bit
    BY DEF IsDst, DstFields
  <2> HIDE DEF g
  <2>4. Closing(g)
    BY <1>2, <2>3 DEF Closing, Waiting
  <2>5. Buffered(g, n)
    <3>1. DOMAIN g.recv_window = {} BY <1>2, <2>3 DEF Waiting
    <3>2. g.recv_window = [i \in {} |-> Packet(i)] BY <1>2, <2>3 DEF Waiting
    <3> QED BY <3>1, <3>2 DEF Buffered
  <2>6. g.out_file = Copied(2)
    <3>1. 2 # FinId /\ 1..0 = {} BY ChunksAssumption DEF FinId
    <3>2. File(0) = <<>> BY <3>1 DEF File
    <3> QED BY <1>2, <2>3, <3>1, <3>2 DEF Copied, Waiting
  <2>7. g.out \in Seq(AcksBy(2)) BY <1>2, <2>3, AcksGrow DEF Waiting
  <2>8. 2 \in 2..n /\ n \in Nat BY ChunksAssumption DEF FinId
  <2>9. g.term_bit = 0 BY <1>2, <2>3 DEF Waiting
  <2>10. Established(g, n) BY <2>2, <2>4, <2>5, <2>6, <2>7, <2>8, <2>9 DEF Established
  <2> QED BY <1>2, <2>1, <2>2, <2>3, <2>10 DEF Waiting
<1> QED BY <1>1, <1>2

\* What receive() does before the kind of the packet is looked at, in terms of
\* the established destination: the packet is accepted if it is the next one.
LEMMA CountedLemma ==
    ASSUME NEW d, NEW n \in 2..FinId, NEW k \in 1..n, IsDst(d),
           \/ Established(d, n)
           \/ Waiting(d) /\ k # 1
    PROVE  LET b == Base(d)
           IN  /\ Accepts(d, Packet(k)) <=> k = b.recv_so_far + 1 \/ (Waiting(d) /\ k = 2)
               /\ Counted(d, Packet(k)) = IF k = b.recv_so_far + 1
                                          THEN [b EXCEPT !.recv_so_far = k] ELSE b
<1> DEFINE p == Packet(k)
           b == Base(d)
<1>0. p.id = k /\ n \in Nat /\ k \in Nat /\ (k # 1 => p.sync_bit = 3)
  BY ChunksAssumption DEF Packet, FinId
<1> HIDE DEF p
<1>1. CASE Established(d, n)
  <2>1. d.sync_bit = 3 /\ b = d /\ d.recv_so_far \in Nat /\ ~Waiting(d)
    BY <1>1, EstablishedType DEF Base, Waiting
  <2>2. ~Completes(d, p) /\ ~LostAck(d, p) BY <2>1 DEF Completes, LostAck
  <2>3. Accepts(d, p) <=> k = d.recv_so_far + 1 BY <1>0, <2>2 DEF Accepts
  <2>4. Counted(d, p) = [d EXCEPT !.recv_so_far = IF Accepts(d, p) THEN p.id ELSE @]
    BY <2>2 DEF Counted
  <2>5. [d EXCEPT !.recv_so_far = d.recv_so_far] = d BY DEF IsDst
  <2> QED BY <1>0, <2>1, <2>3, <2>4, <2>5 DEF p
<1>2. CASE Waiting(d) /\ k # 1
  <2>1. /\ d.sync_bit = 2 /\ d.term_bit = 0 /\ d.recv_so_far = 1 /\ d.retrans = TRUE
        /\ d.timers = 1
    BY <1>2 DEF Waiting
  <2>2. Completes(d, p) /\ (LostAck(d, p) <=> k > 2)
    BY <1>0, <1>2, <2>1 DEF Completes, LostAck
  <2>3. b.recv_so_far = 2 /\ IsDst(b) BY <1>2, BaseEstablished
  <2>4. Accepts(d, p) <=> k = 3 \/ k = 2 BY <1>0, <1>2, <2>1, <2>2 DEF Accepts
  <2> DEFINE g == [Cancel(d) EXCEPT !.sync_bit = 3]
             r == IF Accepts(d, p) THEN p.id ELSE IF LostAck(d, p) THEN d.recv_so_far + 1
                  ELSE d.recv_so_far
  <2>5. r = IF k = 3 THEN 3 ELSE 2 BY <1>0, <1>2, <2>1, <2>2, <2>4
  <2>6. Cancel(d) = [d EXCEPT !.retrans = FALSE, !.retrans_bit = 0, !.timers = d.timers - 1]
    BY <2>1 DEF Cancel
  <2>7. g.recv_so_far = d.recv_so_far BY <2>6 DEF IsDst, DstFields
  <2>8. Counted(d, p) = [g EXCEPT !.recv_so_far = r] BY <2>2, <2>7 DEF Counted
  <2> HIDE DEF r
  <2>9. [g EXCEPT !.recv_so_far = r] = [b EXCEPT !.recv_so_far = r]
    <3> DEFINE c == [d EXCEPT !.retrans = FALSE, !.retrans_bit = 0, !.timers = 0]
               x == [g EXCEPT !.recv_so_far = r]
               y == [b EXCEPT !.recv_so_far = r]
    <3>1. Cancel(d) = c BY <2>1, <2>6
    <3>2. /\ IsDst(c) /\ c.retrans = FALSE /\ c.retrans_bit = 0 /\ c.timers = 0
          /\ \A f \in DstFields \ {"retrans", "retrans_bit", "timers"} : c[f] = d[f]
      BY DEF IsDst, DstFields
    <3> HIDE DEF c
    <3>3. /\ IsDst(g) /\ g.sync_bit = 3
          /\ \A f \in DstFields \ {"sync_bit"} : g[f] = c[f]
      BY <3>1, <3>2 DEF IsDst, DstFields
    <3>4. /\ IsDst(b) /\ b.retrans = FALSE /\ b.retrans_bit = 0 /\ b.timers = 0 /\ b.sync_bit = 3
          /\ \A f \in DstFields \ {"retrans", "retrans_bit", "timers", "sync_bit", "recv_so_far"} :
                b[f] = d[f]
      <4> DEFINE e == [d EXCEPT !.retrans = FALSE, !.retrans_bit = 0, !.timers = 0,
                                !.sync_bit = 3, !.recv_so_far = 2]
      <4>1. b = e BY <2>1 DEF Base
      <4>2. /\ IsDst(e) /\ e.retrans = FALSE /\ e.retrans_bit = 0 /\ e.timers = 0
            /\ e.sync_bit = 3
        BY DEF IsDst, DstFields
      <4>3. \A f \in DstFields \ {"retrans", "retrans_bit", "timers", "sync_bit", "recv_so_far"} :
               e[f] = d[f]
        BY DEF IsDst, DstFields
      <4> HIDE DEF e, b
      <4> QED BY <4>1, <4>2, <4>3
    <3> HIDE DEF g, b
    <3>5. IsDst(x) /\ x.recv_so_far = r /\ \A f \in DstFields \ {"recv_so_far"} : x[f] = g[f]
      BY <3>3 DEF IsDst, DstFields
    <3>6. IsDst(y) /\ y.recv_so_far = r /\ \A f \in DstFields \ {"recv_so_far"} : y[f] = b[f]
      BY <3>4 DEF IsDst, DstFields
    <3> HIDE DEF x, y
    <3>7. \A f \in DstFields : x[f] = y[f]
      <4>1. \A f \in DstFields \ {"retrans", "retrans_bit", "timers", "sync_bit", "recv_so_far"} :
               x[f] = d[f] /\ y[f] = d[f]
        BY <3>2, <3>3, <3>4, <3>5, <3>6
      <4>2. /\ x.retrans = y.retrans /\ x.retrans_bit = y.retrans_bit /\ x.timers = y.timers
            /\ x.sync_bit = y.sync_bit /\ x.recv_so_far = y.recv_so_far
        BY <3>2, <3>3, <3>4, <3>5, <3>6 DEF DstFields
      <4> QED BY <4>1, <4>2 DEF DstFields
    <3>8. x = y BY <3>5, <3>6, <3>7 DEF IsDst
    <3> QED BY <3>8 DEF x, y
  <2> HIDE DEF g, b
  <2>10. [b EXCEPT !.recv_so_far = 2] = b
    <3> DEFINE x == [b EXCEPT !.recv_so_far = 2]
    <3>1. IsDst(x) /\ \A f \in DstFields : x[f] = b[f] BY <2>3 DEF IsDst, DstFields
    <3> HIDE DEF x
    <3>2. x = b BY <2>3, <3>1 DEF IsDst
    <3> QED BY <3>2 DEF x
  <2>11. CASE k = 3
    BY <1>2, <2>3, <2>4, <2>5, <2>8, <2>9, <2>11 DEF p, b
  <2>12. CASE k # 3
    BY <1>2, <2>3, <2>4, <2>5, <2>8, <2>9, <2>10, <2>12 DEF p, b
  <2> QED BY <2>11, <2>12
<1> QED BY <1>1, <1>2

\* Moving recv_so_far and the members that go with it keeps the rest.
Moved == {"recv_so_far", "recv_window", "out_file"}

\* The chunks of a run appended to a prefix of the file make a longer prefix.
LEMMA FileAppend ==
    ASSUME NEW a \in Nat, NEW m \in Nat, NEW f, f = [j \in 1..m |-> a + 1 + j]
    PROVE  File(a) \o <<a + 1>> \o f = File(a + 1 + m)
<1> DEFINE s == File(a) \o <<a + 1>>
<1>1. File(a) \in Seq(Nat) /\ Len(File(a)) = a BY DEF File
<1>2. s \in Seq(Nat) /\ Len(s) = a + 1 /\ \A i \in 1..a+1 : s[i] = i
  BY <1>1, ConcatProperties DEF File
<1>3. f \in Seq(Nat) /\ Len(f) = m /\ \A j \in 1..m : f[j] = a + 1 + j
  <2>1. \A j \in 1..m : a + 1 + j \in Nat OBVIOUS
  <2> QED BY <2>1
<1> HIDE DEF s
<1> DEFINE t == s \o f
<1>4. /\ t \in Seq(Nat) /\ Len(t) = Len(s) + Len(f)
      /\ \A i \in 1 .. Len(s) + Len(f) : t[i] = IF i =< Len(s) THEN s[i] ELSE f[i - Len(s)]
  BY <1>2, <1>3, ConcatProperties
<1> HIDE DEF t
<1>4a. t \in Seq(Nat) /\ Len(t) = a + 1 + m BY <1>2, <1>3, <1>4
<1>5. \A i \in 1..a+1+m : t[i] = i
  <2> SUFFICES ASSUME NEW i \in 1..a+1+m PROVE t[i] = i OBVIOUS
  <2>1. CASE i =< a + 1 BY <1>2, <1>3, <1>4, <2>1
  <2>2. CASE i > a + 1
    <3>1. i - (a + 1) \in 1..m BY <2>2
    <3>2. t[i] = f[i - (a + 1)] BY <1>2, <1>3, <1>4, <2>2
    <3> QED BY <1>3, <3>1, <3>2
  <2> QED BY <2>1, <2>2
<1>6. t = [i \in 1..a+1+m |-> i] BY <1>4a, <1>5
<1> QED BY <1>6 DEF s, t, File

\* The packet that closes the gap is written with the run buffered behind it.
LEMMA WriteLemma ==
    ASSUME NEW e, NEW n \in 2..FinId, NEW k \in 3..Chunks+2, NEW m \in 0..FinId,
           IsDst(e), Established(e, n), k =< n, k = e.recv_so_far + 1,
           NEW h, h = [e EXCEPT !.recv_so_far = k], RunEnd(h, m)
    PROVE  LET g == Write(h, Packet(k), m)
           IN  /\ IsDst(g) /\ \A f \in DstFields \ Moved : g[f] = e[f]
               /\ m \in k..n /\ m < FinId
               /\ g.recv_so_far = m /\ g.out_file = Copied(m)
               /\ DOMAIN g.recv_window \subseteq {i \in m+2..n : i # FinId}
               /\ g.recv_window = [i \in DOMAIN g.recv_window |-> Packet(i)]
<1> DEFINE rw == e.recv_window
           window == [i \in DOMAIN rw \ (k+1 .. m) |-> rw[i]]
           run == [j \in 1..m-k |-> rw[k + j].payload]
           file == e.out_file \o <<Packet(k).payload>> \o run
           g == Write(h, Packet(k), m)
<1>1. /\ n \in Nat /\ n =< FinId /\ FinId = Chunks + 3 /\ Chunks \in Nat
      /\ k \in Nat /\ m \in Nat /\ k >= 3 /\ k < FinId /\ e.recv_so_far = k - 1
  BY EstablishedType, ChunksAssumption
<1>2. /\ DOMAIN rw \subseteq {i \in k+1..n : i # FinId}
      /\ rw = [i \in DOMAIN rw |-> Packet(i)] /\ e.out_file = Copied(k - 1)
  <2>1. /\ DOMAIN rw \subseteq {i \in (k-1)+2..n : i # FinId}
        /\ rw = [i \in DOMAIN rw |-> Packet(i)] /\ e.out_file = Copied(k - 1)
    BY <1>1 DEF Established, Buffered
  <2>2. (k-1)+2 = k+1 BY <1>1
  <2> QED BY <2>1, <2>2
<1>3. IsDst(h) /\ h.recv_so_far = k /\ \A f \in DstFields \ {"recv_so_far"} : h[f] = e[f]
  BY DEF IsDst, DstFields
<1>4. h.recv_window = rw /\ h.out_file = e.out_file BY <1>3 DEF DstFields
<1>5. m >= k /\ k+1..m \subseteq DOMAIN rw /\ m + 1 \notin DOMAIN rw
  BY <1>3, <1>4 DEF RunEnd
<1>6. m \in k..n /\ m < FinId
  <2>1. CASE m = k BY <1>1, <2>1
  <2>2. CASE m > k
    <3>1. m \in DOMAIN rw BY <1>1, <1>5, <2>2
    <3> QED BY <1>1, <1>2, <2>2, <3>1
  <2> QED BY <1>1, <1>5, <2>1, <2>2
<1>7. g = [h EXCEPT !.recv_so_far = m, !.recv_window = window, !.out_file = file]
  BY <1>3, <1>4 DEF Write
<1>8. file = Copied(m)
  <2>1. Packet(k).payload = (k - 3) + 1 BY <1>1 DEF Packet
  <2>2. run = [j \in 1..m-k |-> (k - 3) + 1 + j]
    <3>1. ASSUME NEW j \in 1..m-k PROVE rw[k + j].payload = (k - 3) + 1 + j
      <4>1. k + j \in k+1..m /\ k + j \in 3..Chunks+2 BY <1>1, <1>6
      <4>2. rw[k + j] = Packet(k + j) BY <1>2, <1>5, <4>1
      <4>3. Packet(k + j).payload = (k + j) - 2 BY <4>1 DEF Packet
      <4> QED BY <1>1, <4>2, <4>3
    <3> QED BY <3>1
  <2>3. e.out_file = File(k - 3) BY <1>1, <1>2 DEF Copied
  <2> DEFINE a == k - 3
             c == m - k
  <2>4. a \in Nat /\ c \in Nat /\ a + 1 + c = m - 2 BY <1>1, <1>6
  <2>5. file = File(a) \o <<a + 1>> \o run BY <2>1, <2>3
  <2> HIDE DEF a, c, run, file
  <2>6. file = File(a + 1 + c) BY <2>2, <2>4, <2>5, FileAppend DEF a, c
  <2> QED BY <1>1, <1>6, <2>4, <2>6 DEF Copied
<1>9. /\ DOMAIN window \subseteq {i \in m+2..n : i # FinId}
      /\ window = [i \in DOMAIN window |-> Packet(i)]
  BY <1>1, <1>2, <1>5, <1>6
<1> HIDE DEF window, file
<1>10. /\ IsDst(g) /\ g.recv_so_far = m /\ g.recv_window = window /\ g.out_file = file
       /\ \A f \in DstFields \ Moved : g[f] = h[f]
  <2> DEFINE x == [h EXCEPT !.recv_so_far = m, !.recv_window = window, !.out_file = file]
  <2>1. IsDst(x) /\ x.recv_so_far = m /\ x.recv_window = window /\ x.out_file = file
    BY <1>3 DEF IsDst, DstFields
  <2>2. \A f \in DstFields \ Moved : x[f] = h[f] BY <1>3 DEF IsDst, DstFields, Moved
  <2> HIDE DEF x
  <2> QED BY <1>7, <2>1, <2>2 DEF x
<1> HIDE DEF g
<1>11. \A f \in DstFields \ Moved : g[f] = e[f] BY <1>3, <1>10 DEF Moved
<1> QED BY <1>6, <1>8, <1>9, <1>10, <1>11 DEF g

\* The answer to the packet that moved recv_so_far to m, the early FIN's included.
LEMMA AnswerLemma ==
    ASSUME NEW e, NEW g, NEW n \in 2..FinId, NEW m \in 3..n, m < FinId,
           IsDst(e), Established(e, n), e.recv_so_far < m,
           IsDst(g), \A f \in DstFields \ Moved : g[f] = e[f],
           g.recv_so_far = m, g.out_file = Copied(m),
           DOMAIN g.recv_window \subseteq {i \in m+2..n : i # FinId},
           g.recv_window = [i \in DOMAIN g.recv_window |-> Packet(i)]
    PROVE  LET r == Answer(g, TRUE)
           IN  /\ IsDst(r) /\ Established(r, n) /\ r.recv_so_far >= m
               /\ e.term_bit = 2 => r.term_bit = 2
<1> DEFINE r == Answer(g, TRUE)
<1>1. /\ n \in Nat /\ n =< FinId /\ FinId = Chunks + 3 /\ Chunks \in Nat /\ m \in Nat
      /\ e.recv_so_far \in Nat /\ MAX_QUEUE > FinId /\ MAX_QUEUE \in Nat
  BY EstablishedType, ChunksAssumption, MaxQueueAssumption
<1>2. /\ g.sync_bit = 3 /\ g.retrans = FALSE /\ g.retrans_bit = 0 /\ g.timers = 0
      /\ g.term_bit = e.term_bit /\ g.ter_seq = e.ter_seq /\ g.out = e.out
  BY DEF DstFields, Moved, Established
<1>3. Closing(e) BY DEF Established
<1>4. e.term_bit # 2 BY <1>1, <1>3 DEF Closing
<1>5. g.out \in Seq(AcksBy(m))
  <2>1. e.out \in Seq(AcksBy(e.recv_so_far)) BY DEF Established
  <2> QED BY <1>1, <1>2, <2>1, AcksGrow
<1>6. CASE g.ter_seq = m + 1
  <2> DEFINE d == [g EXCEPT !.recv_so_far = m + 1, !.term_bit = 2]
  <2>1. m + 1 = FinId BY <1>1, <1>2, <1>3, <1>6 DEF Closing
  <2>2. Answer(g, TRUE) = SendAck(d) BY <1>6 DEF Answer
  <2>3. /\ IsDst(d) /\ d.recv_so_far = m + 1 /\ d.term_bit = 2
        /\ \A f \in DstFields \ {"recv_so_far", "term_bit"} : d[f] = g[f]
    BY DEF IsDst, DstFields
  <2> HIDE DEF d
  <2>4. /\ d.sync_bit = 3 /\ d.retrans = FALSE /\ d.retrans_bit = 0 /\ d.timers = 0
        /\ d.ter_seq = g.ter_seq /\ d.out = g.out /\ d.recv_window = g.recv_window
        /\ d.out_file = g.out_file
    BY <1>2, <2>3 DEF DstFields
  <2>5. Closing(d) BY <1>6, <2>1, <2>3, <2>4 DEF Closing
  <2>6. Buffered(d, n)
    <3>1. {i \in m+2..n : i # FinId} = {} BY <1>1, <2>1
    <3>2. DOMAIN d.recv_window = {} BY <2>4, <3>1
    <3> QED BY <2>4, <3>2 DEF Buffered
  <2>7. n = FinId
    <3>1. e.ter_seq = FinId BY <1>2, <1>6, <2>1
    <3>2. e.term_bit # 0 BY <1>1, <1>3, <3>1 DEF Closing
    <3>3. e.term_bit = 1 BY <1>3, <1>4, <3>2 DEF Closing
    <3> QED BY <3>3 DEF Established
  <2>8. d.out_file = Copied(FinId) BY <1>1, <2>1, <2>4 DEF Copied
  <2>9. d.out \in Seq(AcksBy(FinId)) BY <1>1, <1>5, <2>4, AcksGrow
  <2>10. d.recv_so_far \in 2..n /\ d.recv_so_far = FinId BY <1>1, <2>1, <2>3, <2>7
  <2>11. Established(d, n) BY <2>3, <2>4, <2>5, <2>6, <2>8, <2>9, <2>10 DEF Established
  <2> DEFINE a == SendAck(d)
  <2>12. IsDst(a) /\ Established(a, n) /\ a.recv_so_far = d.recv_so_far /\ a.term_bit = 2
    BY <2>3, <2>11, SendAckEstablished
  <2>13. r = a BY <2>2
  <2> HIDE DEF a, r
  <2>14. r.recv_so_far >= m BY <1>1, <2>3, <2>12, <2>13
  <2> QED BY <1>4, <2>12, <2>13, <2>14 DEF r
<1>7. CASE g.ter_seq # m + 1
  <2>1. Answer(g, TRUE) = SendAck(g) BY <1>7 DEF Answer
  <2>2. Closing(g) BY <1>1, <1>2, <1>3, <1>4, <1>7 DEF Closing
  <2>3. Buffered(g, n) BY DEF Buffered
  <2>4. Established(g, n) BY <1>1, <1>2, <1>5, <2>2, <2>3 DEF Established
  <2> DEFINE a == SendAck(g)
  <2>5. IsDst(a) /\ Established(a, n) /\ a.recv_so_far = g.recv_so_far
    BY <2>4, SendAckEstablished
  <2>6. r = a BY <2>1
  <2> HIDE DEF a, r
  <2>7. r.recv_so_far >= m BY <1>1, <2>5, <2>6
  <2> QED BY <1>4, <2>5, <2>6, <2>7 DEF r
<1> QED BY <1>6, <1>7

\* recv_window_sync() keeps the destination established, whichever packet sent so
\* far arrives, repeated and reordered ones included.
LEMMA DataLemma ==
    ASSUME NEW e, NEW n \in 2..FinId, NEW k \in 1..Chunks+2, NEW m \in 0..FinId,
           IsDst(e), Established(e, n), k =< n,
           NEW write \in BOOLEAN, write <=> k = e.recv_so_far + 1,
           RunEnd(IF k = e.recv_so_far + 1 THEN [e EXCEPT !.recv_so_far = k] ELSE e, m)
    PROVE  LET h == IF k = e.recv_so_far + 1 THEN [e EXCEPT !.recv_so_far = k] ELSE e
               r == RecvWindowSync(h, Packet(k), write, m)
           IN  /\ IsDst(r) /\ Established(r, n) /\ r.recv_so_far >= e.recv_so_far
               /\ e.term_bit = 2 => r.term_bit = 2
<1> DEFINE p == Packet(k)
           next == k = e.recv_so_far + 1
           h == IF next THEN [e EXCEPT !.recv_so_far = k] ELSE e
           r == RecvWindowSync(h, p, write, m)
<1>1. /\ n \in Nat /\ n =< FinId /\ FinId = Chunks + 3 /\ Chunks \in Nat /\ k \in Nat
      /\ e.recv_so_far \in Nat /\ k < FinId /\ p.id = k
  BY EstablishedType, ChunksAssumption DEF Packet
<1>2. DOMAIN e.recv_window \subseteq {i \in e.recv_so_far+2 .. n : i # FinId}
  BY DEF Established, Buffered
<1>3. CASE next
  <2> DEFINE c == [e EXCEPT !.recv_so_far = k]
             g == Write(c, p, m)
  <2>1. /\ IsDst(g) /\ \A f \in DstFields \ Moved : g[f] = e[f]
        /\ m \in k..n /\ m < FinId
        /\ g.recv_so_far = m /\ g.out_file = Copied(m)
        /\ DOMAIN g.recv_window \subseteq {i \in m+2..n : i # FinId}
        /\ g.recv_window = [i \in DOMAIN g.recv_window |-> Packet(i)]
    <3>1. RunEnd(c, m) /\ c = [e EXCEPT !.recv_so_far = k] BY <1>3
    <3>2. k \in 3..Chunks+2 BY <1>1, <1>3, EstablishedType
    <3> HIDE DEF c
    <3> QED BY <1>1, <1>3, <3>1, <3>2, WriteLemma
  <2>2. c.recv_so_far = k /\ c.recv_window = e.recv_window BY DEF IsDst, DstFields
  <2>3. k \notin DOMAIN e.recv_window BY <1>1, <1>2, <1>3
  <2> HIDE DEF c
  <2>4. Store(c, p, TRUE, m) = g BY <1>1, <2>2, <2>3 DEF Store
  <2> HIDE DEF g
  <2>5. r = Answer(g, TRUE)
    <3>1. h = c BY <1>3 DEF c
    <3>2. write = TRUE BY <1>3
    <3> HIDE DEF h, next
    <3> QED BY <2>4, <3>1, <3>2 DEF RecvWindowSync
  <2>6. m \in 3..n /\ m \in Nat /\ e.recv_so_far < m
    <3>1. k >= 3 BY <1>1, <1>3, EstablishedType
    <3> QED BY <1>1, <1>3, <2>1, <3>1
  <2> DEFINE a == Answer(g, TRUE)
  <2>7. /\ IsDst(a) /\ Established(a, n) /\ a.recv_so_far >= m
        /\ e.term_bit = 2 => a.term_bit = 2
    BY <2>1, <2>6, AnswerLemma
  <2> HIDE DEF a
  <2>8. a.recv_so_far \in Nat BY <2>7, EstablishedType
  <2>9. r = a BY <2>5 DEF a
  <2> HIDE DEF r
  <2> QED BY <1>1, <2>6, <2>7, <2>8, <2>9 DEF r
<1>4. CASE ~next
  <2> DEFINE s == Store(e, p, FALSE, m)
  <2>1. /\ IsDst(s) /\ Established(s, n) /\ s.recv_so_far = e.recv_so_far
        /\ s.term_bit = e.term_bit
    <3>1. CASE k > e.recv_so_far /\ k \notin DOMAIN e.recv_window
      <4> DEFINE w == Insert(e.recv_window, [i \in {k} |-> p])
                 x == [e EXCEPT !.recv_window = w]
      <4>1. s = x BY <1>1, <3>1 DEF Store
      <4>2. k \in {i \in e.recv_so_far+2 .. n : i # FinId} BY <1>1, <1>4, <3>1
      <4>3. DOMAIN w = DOMAIN e.recv_window \cup {k} BY DEF Insert
      <4>4. w = [i \in DOMAIN w |-> Packet(i)]
        <5>1. e.recv_window = [i \in DOMAIN e.recv_window |-> Packet(i)]
          BY DEF Established, Buffered
        <5> QED BY <4>3, <5>1 DEF Insert
      <4> HIDE DEF w
      <4>5. /\ IsDst(x) /\ x.recv_window = w
            /\ \A f \in DstFields \ {"recv_window"} : x[f] = e[f]
        BY DEF IsDst, DstFields
      <4> HIDE DEF x
      <4>6. /\ x.sync_bit = e.sync_bit /\ x.term_bit = e.term_bit /\ x.retrans = e.retrans
            /\ x.retrans_bit = e.retrans_bit /\ x.timers = e.timers
            /\ x.recv_so_far = e.recv_so_far /\ x.ter_seq = e.ter_seq
            /\ x.out_file = e.out_file /\ x.out = e.out
        BY <4>5 DEF DstFields
      <4>7. Buffered(x, n) BY <1>2, <4>2, <4>3, <4>4, <4>5, <4>6 DEF Buffered
      <4>8. Established(x, n) BY <4>6, <4>7 DEF Established, Closing
      <4> QED BY <4>1, <4>5, <4>6, <4>8
    <3>2. CASE ~(k > e.recv_so_far /\ k \notin DOMAIN e.recv_window)
      <4>1. s = e BY <1>1, <3>2 DEF Store
      <4> QED BY <4>1
    <3> QED BY <3>1, <3>2
  <2>2. r = SendAck(s)
    <3>1. h = e /\ write = FALSE BY <1>4
    <3> HIDE DEF h, next
    <3>2. r = Answer(s, FALSE) BY <3>1 DEF RecvWindowSync
    <3> QED BY <3>2 DEF Answer
  <2> HIDE DEF s
  <2>3. /\ IsDst(SendAck(s)) /\ Established(SendAck(s), n)
        /\ SendAck(s).recv_so_far = s.recv_so_far /\ SendAck(s).term_bit = s.term_bit
    BY <2>1, SendAckEstablished
  <2> HIDE DEF r
  <2> QED BY <1>1, <2>1, <2>2, <2>3 DEF r
<1> QED BY <1>3, <1>4

\* A FIN in its turn is answered and an early one remembered.
LEMMA FinLemma ==
    ASSUME NEW e, IsDst(e), Established(e, FinId), e.term_bit # 2
    PROVE  LET h == IF FinId = e.recv_so_far + 1 THEN [e EXCEPT !.recv_so_far = FinId] ELSE e
               r == IF FinId = h.recv_so_far THEN Reply(h, 1)
                    ELSE [h EXCEPT !.term_bit = 1, !.ter_seq = FinId]
           IN  IsDst(r) /\ Established(r, FinId) /\ r.recv_so_far >= e.recv_so_far
<1> DEFINE h == IF FinId = e.recv_so_far + 1 THEN [e EXCEPT !.recv_so_far = FinId] ELSE e
           r == IF FinId = h.recv_so_far THEN Reply(h, 1)
                ELSE [h EXCEPT !.term_bit = 1, !.ter_seq = FinId]
<1>0. FinId = Chunks + 3 /\ FinId \in Nat /\ Chunks \in Nat /\ FinId \in 2..FinId
  BY ChunksAssumption DEF FinId
<1>1. /\ e.recv_so_far \in Nat /\ e.recv_so_far >= 2 /\ e.recv_so_far =< FinId
  BY <1>0, EstablishedType
<1>2. CASE FinId = e.recv_so_far + 1
  <2> DEFINE c == [e EXCEPT !.recv_so_far = FinId]
  <2>1. /\ IsDst(c) /\ c.recv_so_far = FinId
        /\ \A f \in DstFields \ {"recv_so_far"} : c[f] = e[f]
    BY DEF IsDst, DstFields
  <2>2. h = c BY <1>2
  <2> HIDE DEF c
  <2>3. /\ c.sync_bit = e.sync_bit /\ c.term_bit = e.term_bit /\ c.retrans = e.retrans
        /\ c.retrans_bit = e.retrans_bit /\ c.timers = e.timers /\ c.ter_seq = e.ter_seq
        /\ c.recv_window = e.recv_window /\ c.out_file = e.out_file /\ c.out = e.out
    BY <2>1 DEF DstFields
  <2>4. Closing(c)
    <3>1. Closing(e) BY DEF Established
    <3> QED BY <1>0, <1>1, <1>2, <2>1, <2>3, <3>1 DEF Closing
  <2>5. Buffered(c, FinId)
    <3>1. {i \in e.recv_so_far+2 .. FinId : i # FinId} = {} BY <1>0, <1>1, <1>2
    <3>2. DOMAIN c.recv_window = {} BY <2>3, <3>1 DEF Established, Buffered
    <3>3. c.recv_window = [i \in DOMAIN c.recv_window |-> Packet(i)]
      BY <2>3 DEF Established, Buffered
    <3> QED BY <3>2, <3>3 DEF Buffered
  <2>6. c.out_file = Copied(FinId)
    <3>1. e.recv_so_far # FinId /\ e.recv_so_far - 2 = Chunks BY <1>0, <1>1, <1>2
    <3> QED BY <2>3, <3>1 DEF Copied, Established
  <2>7. c.out \in Seq(AcksBy(FinId))
    <3>1. e.out \in Seq(AcksBy(e.recv_so_far)) BY DEF Established
    <3> QED BY <1>0, <1>1, <2>3, <3>1, AcksGrow
  <2>8. Established(c, FinId)
    BY <1>0, <2>1, <2>3, <2>4, <2>5, <2>6, <2>7 DEF Established
  <2>9. r = Reply(c, 1) BY <2>1, <2>2
  <2>10. IsDst(Reply(c, 1)) /\ Established(Reply(c, 1), FinId) /\ Reply(c, 1).recv_so_far = FinId
    BY <1>0, <2>1, <2>8, ReplyEstablished
  <2> HIDE DEF r
  <2> QED BY <1>1, <2>9, <2>10 DEF r
<1>3. CASE FinId # e.recv_so_far + 1
  <2>1. h = e BY <1>3
  <2> HIDE DEF h
  <2>2. CASE FinId = e.recv_so_far
    <3>1. r = Reply(e, 1) BY <2>1, <2>2
    <3>2. IsDst(Reply(e, 1)) /\ Established(Reply(e, 1), FinId)
          /\ Reply(e, 1).recv_so_far = e.recv_so_far
      BY <1>0, <2>2, ReplyEstablished
    <3> HIDE DEF r
    <3> QED BY <1>1, <3>1, <3>2 DEF r, h
  <2>3. CASE FinId # e.recv_so_far
    <3> DEFINE x == [e EXCEPT !.term_bit = 1, !.ter_seq = FinId]
    <3>1. r = x BY <2>1, <2>3
    <3>2. /\ IsDst(x) /\ x.term_bit = 1 /\ x.ter_seq = FinId
          /\ \A f \in DstFields \ {"term_bit", "ter_seq"} : x[f] = e[f]
      BY DEF IsDst, DstFields
    <3> HIDE DEF x
    <3>3. /\ x.sync_bit = e.sync_bit /\ x.recv_so_far = e.recv_so_far /\ x.retrans = e.retrans
          /\ x.retrans_bit = e.retrans_bit /\ x.timers = e.timers
          /\ x.recv_window = e.recv_window /\ x.out_file = e.out_file /\ x.out = e.out
      BY <3>2 DEF DstFields
    <3>4. Closing(x) BY <1>0, <1>1, <1>3, <2>3, <3>2, <3>3 DEF Closing
    <3>5. Established(x, FinId) BY <3>3, <3>4 DEF Established, Buffered
    <3> HIDE DEF r
    <3> QED BY <1>1, <3>1, <3>2, <3>3, <3>5 DEF r, h
  <2> QED BY <2>2, <2>3
<1> QED BY <1>2, <1>3

\* A reply leaves the destination's channel.
LEMMA DstTail ==
    ASSUME NEW d, IsDst(d)
    PROVE  /\ IsDst(Received(d)) /\ Received(d).out = Tail(d.out)
           /\ \A f \in DstFields \ {"out"} : Received(d)[f] = d[f]
<1> DEFINE t == Tail(d.out)
           g == [d EXCEPT !.out = t]
<1>1. Received(d) = g BY DEF Received
<1> HIDE DEF t
<1>2. IsDst(g) /\ g.out = t BY DEF IsDst, DstFields
<1>3. \A f \in DstFields \ {"out"} : g[f] = d[f] BY DEF IsDst, DstFields
<1> HIDE DEF g
<1> QED BY <1>1, <1>2, <1>3 DEF t

\* While the SYN-ACK is unanswered nothing else is in the channel.
LEMMA WaitingTail ==
    ASSUME NEW d, IsDst(d), Waiting(d), d.out # <<>>
    PROVE  IsDst(Received(d)) /\ Waiting(Received(d)) /\ Head(d.out) \in AcksBy(1)
<1> DEFINE g == Received(d)
<1>1. Head(d.out) \in AcksBy(1) /\ Tail(d.out) \in Seq(AcksBy(1))
  BY SeqHeadTail DEF Waiting
<1>2. IsDst(g) /\ g.out = Tail(d.out) /\ \A f \in DstFields \ {"out"} : g[f] = d[f]
  BY DstTail
<1> HIDE DEF g
<1>3. /\ g.sync_bit = d.sync_bit /\ g.term_bit = d.term_bit /\ g.retrans = d.retrans
      /\ g.retrans_bit = d.retrans_bit /\ g.timers = d.timers /\ g.recv_so_far = d.recv_so_far
      /\ g.recv_window = d.recv_window /\ g.ter_seq = d.ter_seq /\ g.out_file = d.out_file
  BY <1>2 DEF DstFields
<1>4. Waiting(g) BY <1>1, <1>2, <1>3 DEF Waiting
<1> QED BY <1>1, <1>2, <1>4 DEF g

\* The host that reset() leaves is a record of DstFields.
LEMMA FreshIsDst == IsDst(FreshDst)
BY DEF IsDst, DstFields, FreshDst

\* The SYN leaves the SYN-ACK sent and watched.
LEMMA DstSynLemma ==
    ASSUME NEW d, d = FreshDst
    PROVE  LET g == Arm(SendAck([Counted(d, Packet(1)) EXCEPT !.sync_bit = 2]), 1)
           IN  IsDst(g) /\ Waiting(g)
<1> DEFINE c == Counted(d, Packet(1))
           b == [c EXCEPT !.sync_bit = 2]
           a == Reply(b, 0)
           g == [a EXCEPT !.retrans = TRUE, !.retrans_bit = 1, !.timers = a.timers + 1]
<1>1. /\ IsDst(d) /\ d.sync_bit = 1 /\ d.term_bit = 0 /\ d.timers = 0 /\ d.recv_so_far = 0
      /\ d.recv_window = <<>> /\ d.ter_seq = MAX_QUEUE /\ d.out_file = <<>> /\ d.out = <<>>
  BY FreshIsDst DEF FreshDst
<1>2. IsDst(c) /\ c.recv_so_far = 1 /\ \A f \in DstFields \ {"recv_so_far"} : c[f] = d[f]
  <2> DEFINE x == [d EXCEPT !.recv_so_far = 1]
  <2>1. Packet(1).id = 1 BY DEF Packet
  <2>2. ~Completes(d, Packet(1)) /\ ~LostAck(d, Packet(1)) BY <1>1 DEF Completes, LostAck
  <2>3. Accepts(d, Packet(1)) BY <1>1, <2>1, <2>2 DEF Accepts
  <2>4. c = x BY <2>1, <2>2, <2>3 DEF Counted
  <2>5. IsDst(x) /\ x.recv_so_far = 1 /\ \A f \in DstFields \ {"recv_so_far"} : x[f] = d[f]
    BY <1>1 DEF IsDst, DstFields
  <2> HIDE DEF c, x
  <2> QED BY <2>4, <2>5
<1> HIDE DEF c
<1>3. IsDst(b) /\ b.sync_bit = 2 /\ \A f \in DstFields \ {"sync_bit"} : b[f] = c[f]
  BY <1>2 DEF IsDst, DstFields
<1> HIDE DEF b
<1>4. /\ b.term_bit = 0 /\ b.timers = 0 /\ b.recv_so_far = 1
      /\ b.recv_window = <<>> /\ b.ter_seq = MAX_QUEUE /\ b.out_file = <<>> /\ b.out = <<>>
  BY <1>1, <1>2, <1>3 DEF DstFields
<1>5. SendAck(b) = a BY <1>4 DEF SendAck
<1>6. /\ IsDst(a) /\ a.out \in Seq(AcksBy(1))
      /\ \A f \in DstFields \ {"out"} : a[f] = b[f]
  <2> DEFINE n == 1
             fin == 0
  <2>1. /\ n \in Nat /\ fin \in {0, 1} /\ b.out \in Seq(AcksBy(n)) /\ b.recv_so_far \in 1..n
        /\ n =< FinId /\ b.sync_bit = (IF b.recv_so_far = 1 THEN 2 ELSE 3)
        /\ (fin = 1 => b.recv_so_far = FinId)
    BY <1>3, <1>4, ChunksAssumption DEF FinId
  <2> DEFINE x == Reply(b, fin)
  <2> HIDE DEF n, fin
  <2>2. /\ IsDst(x) /\ x.out \in Seq(AcksBy(n))
        /\ \A f \in DstFields \ {"out"} : x[f] = b[f]
    BY <1>3, <2>1, ReplyLemma
  <2>3. x = a BY DEF fin
  <2> HIDE DEF x, a
  <2> QED BY <2>2, <2>3 DEF n
<1>7. Arm(a, 1) = g BY DEF Arm
<1> HIDE DEF a
<1>8. a.timers + 1 = 1 BY <1>4, <1>6 DEF DstFields
<1>9. /\ IsDst(g) /\ g.retrans = TRUE /\ g.retrans_bit = 1 /\ g.timers = 1
      /\ \A f \in DstFields \ {"retrans", "retrans_bit", "timers"} : g[f] = a[f]
  BY <1>6, <1>8 DEF IsDst, DstFields
<1> HIDE DEF g
<1>10. /\ g.sync_bit = 2 /\ g.term_bit = 0 /\ g.recv_so_far = 1 /\ g.recv_window = <<>>
       /\ g.ter_seq = MAX_QUEUE /\ g.out_file = <<>> /\ g.out = a.out
  BY <1>3, <1>4, <1>6, <1>9 DEF DstFields
<1>11. Waiting(g) BY <1>6, <1>9, <1>10 DEF Waiting
<1> QED BY <1>5, <1>7, <1>9, <1>11 DEF b, c

\* An expired timer that is armed again leaves the destination as it was.
LEMMA RearmDst ==
    ASSUME NEW h, NEW bit, IsDst(h), h.timers = 1, h.retrans = TRUE, h.retrans_bit = bit
    PROVE  Rearm(h, bit) = h
<1> DEFINE a == [h EXCEPT !.timers = h.timers - 1]
           b == [a EXCEPT !.retrans = TRUE, !.retrans_bit = bit, !.timers = a.timers + 1]
<1>1. h.timers - 1 = 0 OBVIOUS
<1>2. IsDst(a) /\ a.timers = 0 /\ \A f \in DstFields \ {"timers"} : a[f] = h[f]
  BY <1>1 DEF IsDst, DstFields
<1>3. Rearm(h, bit) = b BY DEF Rearm, Arm
<1> HIDE DEF a
<1>4. a.timers + 1 = 1 BY <1>2
<1>5. /\ IsDst(b) /\ b.retrans = TRUE /\ b.retrans_bit = bit /\ b.timers = 1
      /\ \A f \in DstFields \ {"retrans", "retrans_bit", "timers"} : b[f] = a[f]
  BY <1>2, <1>4 DEF IsDst, DstFields
<1> HIDE DEF b
<1>6. \A f \in DstFields : b[f] = h[f] BY <1>2, <1>5 DEF DstFields
<1>7. b = h BY <1>5, <1>6 DEF IsDst
<1> QED BY <1>3, <1>7

\* The SYN-ACK's timer sends the SYN-ACK again.
LEMMA SynAckTimeoutLemma ==
    ASSUME NEW d, IsDst(d), Waiting(d)
    PROVE  LET g == SendAck(Rearm(d, 1)) IN IsDst(g) /\ Waiting(g)
<1> DEFINE g == SendAck(Rearm(d, 1))
<1>1. Rearm(d, 1) = d BY RearmDst DEF Waiting
<1>2. g = Reply(d, 0) BY <1>1 DEF SendAck, Waiting
<1>3. /\ IsDst(g) /\ g.out \in Seq(AcksBy(1)) /\ \A f \in DstFields \ {"out"} : g[f] = d[f]
  <2> DEFINE n == 1
             fin == 0
             x == Reply(d, fin)
  <2>1. /\ n \in Nat /\ fin \in {0, 1} /\ d.out \in Seq(AcksBy(n)) /\ d.recv_so_far \in 1..n
        /\ n =< FinId /\ d.sync_bit = (IF d.recv_so_far = 1 THEN 2 ELSE 3)
        /\ (fin = 1 => d.recv_so_far = FinId)
    BY ChunksAssumption DEF FinId, Waiting
  <2> HIDE DEF n, fin
  <2>2. /\ IsDst(x) /\ x.out \in Seq(AcksBy(n))
        /\ \A f \in DstFields \ {"out"} : x[f] = d[f]
    BY <2>1, ReplyLemma
  <2>3. x = g BY <1>2 DEF fin
  <2> HIDE DEF x, g
  <2> QED BY <2>2, <2>3 DEF n
<1> HIDE DEF g
<1>4. /\ g.sync_bit = d.sync_bit /\ g.term_bit = d.term_bit /\ g.retrans = d.retrans
      /\ g.retrans_bit = d.retrans_bit /\ g.timers = d.timers /\ g.recv_so_far = d.recv_so_far
      /\ g.recv_window = d.recv_window /\ g.ter_seq = d.ter_seq /\ g.out_file = d.out_file
  BY <1>3 DEF DstFields
<1>5. Waiting(g) BY <1>3, <1>4 DEF Waiting
<1> QED BY <1>3, <1>5 DEF g

---------------------------------------------------------------------------
(* The inductive invariant.                                                *)

\* The hosts before the flow starts.
Untouched == (\E dup \in {0, 1} : src = FreshSrc(dup)) /\ dst = FreshDst

\* The SYN is on its way, or sent again while its answer is awaited.
Connecting == Syn(src) /\ (dst = FreshDst \/ (IsDst(dst) /\ Waiting(dst)))

\* The destination of an open source still awaits the ACK, or has it and is not
\* behind what the source takes for acknowledged.
Met(s, d) == \/ Waiting(d) /\ s.last_ack = 2 /\ s.term_bit # 2
             \/ /\ Established(d, s.sent_so_far)
                /\ s.last_ack =< d.recv_so_far
                /\ s.term_bit = 2 => d.term_bit = 2

\* Both hosts once the SYN-ACK has come.
Connected == Open(src) /\ Pending(src) /\ IsDst(dst) /\ Met(src, dst)

\* The inductive invariant.
IInv == /\ losses \in 0..MaxLosses
        /\ Untouched \/ Connecting \/ Connected

---------------------------------------------------------------------------
(* What a step does to the members that FileTransfer speaks of.            *)

\* Something happens at the destination, or on the way.
Arrives == /\ src'.dest_map = src.dest_map /\ src'.chunk = src.chunk
           /\ src'.last_ack = src.last_ack /\ src'.term_bit = src.term_bit
           /\ dst'.recv_so_far >= dst.recv_so_far

\* The source hears from the destination, reads on and sends.
Learns == /\ src.dest_map = FALSE /\ src'.dest_map = FALSE
          /\ src'.chunk >= src.chunk /\ src'.last_ack >= src.last_ack
          /\ src'.term_bit = 2 <=> src.term_bit = 2
          /\ dst'.recv_so_far = dst.recv_so_far

\* The source hears that its FIN has arrived.
Closes == /\ src.dest_map = FALSE /\ src'.dest_map = FALSE
          /\ src'.chunk = src.chunk /\ src'.last_ack = FinId
          /\ src.term_bit # 2 /\ src'.term_bit = 2
          /\ dst'.recv_so_far = dst.recv_so_far

\* The flow leaves dest_map.
Opens == /\ src.dest_map /\ src'.dest_map = FALSE
         /\ src'.chunk = 0 /\ src'.last_ack = 0 /\ src'.term_bit = 0
         /\ dst'.recv_so_far = 0

---------------------------------------------------------------------------
(* Every step keeps the invariant: one lemma per action.                   *)

\* The hosts before the flow starts.
LEMMA InitInv == ASSUME Init PROVE IInv
BY BoundsAssumption DEF Init, IInv, Untouched

\* What the phase of the flow says of the two hosts.
LEMMA PhaseLemma ==
    ASSUME IInv
    PROVE  /\ Untouched => /\ src.dest_map /\ src.sync_bit = 1 /\ src.out = <<>> /\ src.timers = 0
                           /\ src.retrans_bit = 0
                           /\ dst.sync_bit = 1 /\ dst.out = <<>> /\ dst.timers = 0
           /\ Connecting => /\ src.dest_map = FALSE /\ src.sync_bit = 1 /\ src.retrans_bit = 1
                            /\ dst.sync_bit = 1 \/ dst.sync_bit = 2
                            /\ dst.sync_bit = 1 => dst = FreshDst /\ dst.out = <<>> /\ dst.timers = 0
                            /\ dst.sync_bit = 2 => IsDst(dst) /\ Waiting(dst)
           /\ Connected => /\ src.dest_map = FALSE /\ src.sync_bit = 3 /\ Open(src) /\ Pending(src)
                           /\ src.retrans_bit \in {0, 2}
                           /\ IsDst(dst) /\ Met(src, dst)
                           /\ src.sent_so_far \in 2..FinId
                           /\ Waiting(dst) => dst.sync_bit = 2 /\ src.last_ack = 2 /\ src.term_bit # 2
                           /\ ~Waiting(dst) => /\ Established(dst, src.sent_so_far)
                                               /\ dst.sync_bit = 3
                                               /\ src.last_ack =< dst.recv_so_far
                                               /\ src.term_bit = 2 => dst.term_bit = 2
<1>1. Untouched => /\ src.dest_map /\ src.sync_bit = 1 /\ src.out = <<>> /\ src.timers = 0
                   /\ src.retrans_bit = 0
                   /\ dst.sync_bit = 1 /\ dst.out = <<>> /\ dst.timers = 0
  BY DEF Untouched, FreshSrc, FreshDst
<1>2. Connecting => /\ src.dest_map = FALSE /\ src.sync_bit = 1 /\ src.retrans_bit = 1
                    /\ dst.sync_bit = 1 \/ dst.sync_bit = 2
                    /\ dst.sync_bit = 1 => dst = FreshDst /\ dst.out = <<>> /\ dst.timers = 0
                    /\ dst.sync_bit = 2 => IsDst(dst) /\ Waiting(dst)
  <2> SUFFICES ASSUME Connecting PROVE
             /\ src.dest_map = FALSE /\ src.sync_bit = 1 /\ src.retrans_bit = 1
             /\ dst.sync_bit = 1 \/ dst.sync_bit = 2
             /\ dst.sync_bit = 1 => dst = FreshDst /\ dst.out = <<>> /\ dst.timers = 0
             /\ dst.sync_bit = 2 => IsDst(dst) /\ Waiting(dst)
    OBVIOUS
  <2>1. src.dest_map = FALSE /\ src.sync_bit = 1 /\ src.retrans_bit = 1 BY DEF Connecting, Syn
  <2>2. dst = FreshDst => dst.sync_bit = 1 /\ dst.out = <<>> /\ dst.timers = 0 BY DEF FreshDst
  <2>3. Waiting(dst) => dst.sync_bit = 2 BY DEF Waiting
  <2> QED BY <2>1, <2>2, <2>3 DEF Connecting
<1>3. ASSUME Connected
      PROVE  /\ src.dest_map = FALSE /\ src.sync_bit = 3 /\ Open(src) /\ Pending(src)
             /\ src.retrans_bit \in {0, 2}
             /\ IsDst(dst) /\ Met(src, dst)
             /\ src.sent_so_far \in 2..FinId
             /\ Waiting(dst) => dst.sync_bit = 2 /\ src.last_ack = 2 /\ src.term_bit # 2
             /\ ~Waiting(dst) => /\ Established(dst, src.sent_so_far)
                                 /\ dst.sync_bit = 3
                                 /\ src.last_ack =< dst.recv_so_far
                                 /\ src.term_bit = 2 => dst.term_bit = 2
  <2>1. /\ src.dest_map = FALSE /\ src.sync_bit = 3 /\ src.retrans_bit \in {0, 2}
    BY <1>3 DEF Connected, Open, Window, Watched, Armed, Idle
  <2>2. src.sent_so_far \in 2..FinId
    <3>1. Counts(src) BY <1>3 DEF Connected, Open, Window
    <3>2. src.sent_so_far \in Nat /\ src.sent_so_far =< FinId /\ src.last_ack \in 2..src.sent_so_far
      BY <3>1, CountsType DEF Counts
    <3> QED BY <3>2, ChunksAssumption DEF FinId
  <2>3. /\ Established(dst, src.sent_so_far) => dst.sync_bit = 3
        /\ Waiting(dst) => dst.sync_bit = 2
    BY DEF Established, Waiting
  <2>4. Met(src, dst) BY <1>3 DEF Connected
  <2> QED BY <1>3, <2>1, <2>2, <2>3, <2>4 DEF Connected, Met
<1> QED BY <1>1, <1>2, <1>3

\* The start timer keeps IInv.
LEMMA StartInv == ASSUME IInv, Start PROVE IInv' /\ Opens
<1>1. PICK dup \in {0, 1} : src = FreshSrc(dup) BY PhaseLemma DEF IInv, Start, Untouched
<1>2. src.dup_ack_count = dup BY <1>1 DEF FreshSrc
<1>3. Syn(src') BY <1>2, StartLemma DEF Start
<1>4. dst' = FreshDst /\ losses' = losses BY DEF Start
<1>5. Opens BY <1>1, <1>3, <1>4 DEF Opens, Syn, FreshSrc, FreshDst
<1> QED BY <1>3, <1>4, <1>5 DEF IInv, Connecting

\* The SYN-ACK's arrival keeps IInv.
LEMMA SrcSynAckInv == ASSUME IInv, SrcSynAck PROVE IInv' /\ Learns
<1>0. src.sync_bit = 1 /\ dst.out # <<>> BY DEF SrcSynAck, FromDst
<1>1. Connecting /\ IsDst(dst) /\ Waiting(dst)
  <2>1. Untouched \/ Connecting \/ Connected BY DEF IInv
  <2>2. ~Untouched BY <1>0, PhaseLemma
  <2>3. ~Connected BY <1>0, PhaseLemma
  <2> QED BY <1>0, <2>1, <2>2, <2>3, PhaseLemma
<1>2. Open(src') /\ Pending(src') /\ src'.last_ack = 2 /\ src'.term_bit # 2
  BY <1>1, SynAckLemma DEF Connecting, SrcSynAck
<1>3. dst' = Received(dst) /\ dst.out # <<>> /\ losses' = losses BY DEF SrcSynAck, FromDst
<1>4. IsDst(dst') /\ Waiting(dst') BY <1>1, <1>3, WaitingTail
<1>5. Learns
  <2>1. src'.chunk \in Nat /\ src'.dest_map = FALSE
    <3>1. Counts(src') /\ src'.dest_map = FALSE BY <1>2 DEF Open, Window
    <3> QED BY <3>1, CountsType
  <2>2. src.chunk = 0 /\ src.last_ack = 0 /\ src.term_bit = 0 /\ src.dest_map = FALSE
    BY <1>1 DEF Connecting, Syn
  <2>3. dst'.recv_so_far = dst.recv_so_far BY <1>1, <1>4 DEF Waiting
  <2> QED BY <1>2, <2>1, <2>2, <2>3 DEF Learns
<1> QED BY <1>2, <1>3, <1>4, <1>5 DEF IInv, Connected, Met

\* Where the guards of the arrivals and of the timers lead.
LEMMA GuardLemma ==
    ASSUME IInv
    PROVE  /\ Untouched \/ Connecting \/ Connected
           /\ src.sync_bit = 3 => Connected
           /\ src.out # <<>> \/ src.timers > 0 => Connecting \/ Connected
           /\ dst.out # <<>> \/ dst.timers > 0 => \/ Connecting /\ IsDst(dst) /\ Waiting(dst)
                                                  \/ Connected
<1>1. Untouched \/ Connecting \/ Connected BY DEF IInv
<1>2. src.sync_bit = 3 => ~Untouched /\ ~Connecting BY PhaseLemma
<1>3. src.out # <<>> \/ src.timers > 0 => ~Untouched BY PhaseLemma
<1>4. dst.out # <<>> \/ dst.timers > 0 => ~Untouched BY PhaseLemma
<1>5. dst.out # <<>> \/ dst.timers > 0 => (Connecting => IsDst(dst) /\ Waiting(dst)) BY PhaseLemma
<1> QED BY <1>1, <1>2, <1>3, <1>4, <1>5

\* recv_so_far is a number from the start.
LEMMA FarType == ASSUME IInv PROVE dst.recv_so_far \in Nat
<1>1. dst = FreshDst => dst.recv_so_far = 0 BY DEF FreshDst
<1>2. Waiting(dst) => dst.recv_so_far = 1 BY DEF Waiting
<1>3. Connected /\ ~Waiting(dst) => dst.recv_so_far \in Nat
  <2>1. Connected /\ ~Waiting(dst) => Established(dst, src.sent_so_far) /\ src.sent_so_far \in 2..FinId
    BY PhaseLemma
  <2> QED BY <2>1, EstablishedType
<1> QED BY <1>1, <1>2, <1>3 DEF IInv, Untouched, Connecting

\* A packet is taken from the source's channel, and the source is as it was.
LEMMA TakenArrives ==
    ASSUME IInv, src.out # <<>>, src' = Received(src), dst'.recv_so_far >= dst.recv_so_far
    PROVE  Arrives
<1>1. IsSrc(src) BY GuardLemma DEF Connecting, Connected, Syn, Open
<1>2. \A f \in SrcFields \ {"out"} : src'[f] = src[f] BY <1>1, SrcTail
<1> QED BY <1>2 DEF Arrives, SrcFields

\* The acks on their way, in each of the two states of a connected destination.
LEMMA AckLemma ==
    ASSUME IInv, Connected, dst.out # <<>>
    PROVE  /\ Ack \in Acks /\ Ack.ack_id \in 1..src.sent_so_far
           /\ Ack.FIN = 1 => Ack.ack_id = FinId
           /\ Ack.sync_bit \in {2, 3}
           /\ IsDst(Received(dst))
           /\ Waiting(dst) => Ack.ack_id = 1 /\ Waiting(Received(dst))
           /\ ~Waiting(dst) => /\ Established(Received(dst), src.sent_so_far)
                               /\ Ack.ack_id =< dst.recv_so_far
                               /\ Received(dst).recv_so_far = dst.recv_so_far
                               /\ Received(dst).term_bit = dst.term_bit
<1>1. IsDst(dst) /\ src.sent_so_far \in 2..FinId BY PhaseLemma
<1>2. src.sent_so_far \in Nat /\ src.sent_so_far >= 2 BY <1>1, ChunksAssumption DEF FinId
<1>3. CASE Waiting(dst)
  <2>1. IsDst(Received(dst)) /\ Waiting(Received(dst)) /\ Ack \in AcksBy(1)
    BY <1>1, <1>3, WaitingTail DEF Ack
  <2>2. Ack \in Acks /\ Ack.ack_id = 1 /\ Ack.sync_bit = 2 /\ (Ack.FIN = 1 => Ack.ack_id = FinId)
    BY <2>1 DEF AcksBy
  <2> HIDE DEF Ack
  <2> QED BY <1>2, <1>3, <2>1, <2>2
<1>4. CASE ~Waiting(dst)
  <2>1. Established(dst, src.sent_so_far) BY <1>4, PhaseLemma
  <2>2. /\ IsDst(Received(dst)) /\ Established(Received(dst), src.sent_so_far)
        /\ \A f \in DstFields \ {"out"} : Received(dst)[f] = dst[f]
        /\ Ack \in AcksBy(dst.recv_so_far)
    BY <1>1, <2>1, ReceivedEstablished DEF Ack
  <2>3. Received(dst).recv_so_far = dst.recv_so_far /\ Received(dst).term_bit = dst.term_bit
    BY <2>2 DEF DstFields
  <2>4. dst.recv_so_far \in Nat /\ dst.recv_so_far =< src.sent_so_far
    BY <1>1, <2>1, EstablishedType
  <2>5. /\ Ack \in Acks /\ Ack.ack_id \in 1..dst.recv_so_far /\ Ack.sync_bit \in {2, 3}
        /\ (Ack.FIN = 1 => Ack.ack_id = FinId)
    BY <2>2 DEF AcksBy
  <2>6. Ack.ack_id \in 1..src.sent_so_far /\ Ack.ack_id =< dst.recv_so_far
    BY <1>2, <2>4, <2>5
  <2> QED BY <1>4, <2>2, <2>3, <2>5, <2>6
<1> QED BY <1>3, <1>4

\* An ack's arrival keeps IInv: the repeated SYN-ACK finds the data timer armed.
LEMMA SrcAckInv == ASSUME IInv, SrcAck PROVE IInv' /\ Learns
<1>0. src.sync_bit = 3 /\ dst.out # <<>> /\ dst' = Received(dst) /\ losses' = losses
  BY DEF SrcAck, FromDst
<1>1. Connected BY <1>0, GuardLemma
<1>2. /\ Open(src) /\ Pending(src) /\ src.sent_so_far \in 2..FinId
      /\ src.retrans_bit \in {0, 2}
  BY <1>1, PhaseLemma
<1>3. ~(src.term_bit = 0 /\ Ack.sync_bit = 2 /\ src.retrans_bit # 2)
  BY <1>2 DEF Pending, Open, Watched, Armed
<1>4. PICK w \in Windows : src' = SendFile(SentWindowSync(src, Ack.ack_id, w))
  BY <1>3 DEF SrcAck
<1>5. w \in Nat \ {0} BY WindowsAssumption
<1>6. Ack.ack_id \in 0..src.sent_so_far /\ Ack.ack_id \in Nat
  <2>1. Ack.ack_id \in 1..src.sent_so_far BY <1>0, <1>1, AckLemma
  <2> HIDE DEF Ack
  <2> QED BY <2>1
<1> DEFINE a == Ack.ack_id
           s == SentWindowSync(src, a, w)
           g == SendFile(s)
<1> HIDE DEF a
<1>7. /\ Open(s) /\ s.last_ack = IF a > src.last_ack THEN a ELSE src.last_ack
      /\ s.term_bit = src.term_bit /\ s.chunk = src.chunk /\ s.sent_so_far = src.sent_so_far
  BY <1>2, <1>5, <1>6, SentWindowSyncLemma DEF a
<1> HIDE DEF s
<1>8. /\ Open(g) /\ Pending(g) /\ g.last_ack = s.last_ack
      /\ g.chunk >= s.chunk /\ g.sent_so_far >= s.sent_so_far
      /\ s.term_bit # 0 => g.term_bit = s.term_bit
      /\ s.term_bit = 0 => g.term_bit \in {0, 1}
  BY <1>7, OpenIsSendable, SendFileLemma
<1>9. src' = g BY <1>4 DEF a, s
<1> HIDE DEF g
<1>10. g.sent_so_far \in src.sent_so_far..FinId
  <2>1. Counts(g) BY <1>8 DEF Open, Window
  <2>2. g.sent_so_far \in Nat /\ g.sent_so_far =< FinId BY <2>1, CountsType
  <2> QED BY <1>2, <1>7, <1>8, <2>2, ChunksAssumption DEF FinId
<1>11. g.term_bit = 2 => src.term_bit = 2 BY <1>7, <1>8
<1>12. src.last_ack \in Nat
  <2>1. Counts(src) BY <1>2 DEF Open, Window
  <2> QED BY <2>1, CountsType
<1>13. IsDst(dst') /\ Met(g, dst')
  <2>1. CASE Waiting(dst)
    <3>1. Waiting(dst') /\ IsDst(dst') /\ a = 1 /\ src.last_ack = 2 /\ src.term_bit # 2
      BY <1>0, <1>1, <2>1, AckLemma, PhaseLemma DEF a
    <3>2. g.last_ack = 2 BY <1>7, <1>8, <3>1
    <3> QED BY <1>11, <3>1, <3>2 DEF Met
  <2>2. CASE ~Waiting(dst)
    <3>1. /\ Established(dst', src.sent_so_far) /\ IsDst(dst') /\ a =< dst'.recv_so_far
          /\ dst'.recv_so_far = dst.recv_so_far /\ dst'.term_bit = dst.term_bit
      BY <1>0, <1>1, <2>2, AckLemma DEF a
    <3>2. src.last_ack =< dst.recv_so_far /\ (src.term_bit = 2 => dst.term_bit = 2)
      BY <1>1, <2>2, PhaseLemma
    <3>3. Established(dst', g.sent_so_far) BY <1>2, <1>10, <3>1, EstablishedGrows
    <3>4. g.last_ack =< dst'.recv_so_far BY <1>7, <1>8, <3>1, <3>2
    <3> QED BY <1>11, <3>1, <3>2, <3>3, <3>4 DEF Met
  <2> QED BY <2>1, <2>2
<1>14. Connected' BY <1>8, <1>9, <1>13 DEF Connected
<1>15. Learns
  <2>1. src.dest_map = FALSE /\ g.dest_map = FALSE BY <1>2, <1>8 DEF Open, Window
  <2>2. g.term_bit = 2 <=> src.term_bit = 2 BY <1>7, <1>8
  <2>3. g.last_ack >= src.last_ack BY <1>6, <1>7, <1>8, <1>12 DEF a
  <2>4. dst'.recv_so_far = dst.recv_so_far
    <3>1. IsDst(dst) BY <1>1, PhaseLemma
    <3> QED BY <1>0, <3>1, DstTail DEF DstFields
  <2> QED BY <1>7, <1>8, <1>9, <2>1, <2>2, <2>3, <2>4 DEF Learns
<1> QED BY <1>0, <1>14, <1>15 DEF IInv

\* The FIN-ACK's arrival keeps IInv: it acknowledges everything sent.
LEMMA SrcFinAckInv == ASSUME IInv, SrcFinAck PROVE IInv' /\ Closes
<1>0. /\ src.sync_bit = 3 /\ dst.out # <<>> /\ Ack.FIN = 1 /\ src.term_bit = 1
      /\ dst' = [Received(dst) EXCEPT !.term_bit = 2] /\ losses' = losses
  BY DEF SrcFinAck, FromDst
<1>1. Connected BY <1>0, GuardLemma
<1>2. Open(src) /\ src.sent_so_far \in 2..FinId BY <1>1, PhaseLemma
<1>3. FinId \in Nat /\ FinId > 2 BY ChunksAssumption DEF FinId
<1>4. Ack.ack_id = FinId /\ Ack.ack_id \in 1..src.sent_so_far BY <1>0, <1>1, AckLemma
<1>5. ~Waiting(dst)
  <2>1. Waiting(dst) => Ack.ack_id = 1 BY <1>0, <1>1, AckLemma
  <2> QED BY <1>3, <1>4, <2>1
<1> DEFINE r == Received(dst)
           d == [r EXCEPT !.term_bit = 2]
           c == [src EXCEPT !.term_bit = 2]
<1>6. IsDst(r) /\ Established(r, src.sent_so_far) /\ Ack.ack_id =< r.recv_so_far
  BY <1>0, <1>1, <1>5, AckLemma
<1>7. r.recv_so_far = FinId
  <2>1. r.recv_so_far \in Nat /\ r.recv_so_far =< FinId BY <1>2, <1>6, EstablishedType
  <2> QED BY <1>3, <1>4, <1>6, <2>1
<1>8. dst' = d BY <1>0
<1> HIDE DEF r
<1>9. IsDst(d) /\ d.term_bit = 2 /\ \A f \in DstFields \ {"term_bit"} : d[f] = r[f]
  BY <1>6 DEF IsDst, DstFields
<1> HIDE DEF d
<1>10. /\ d.sync_bit = r.sync_bit /\ d.retrans = r.retrans
       /\ d.retrans_bit = r.retrans_bit /\ d.timers = r.timers /\ d.recv_so_far = r.recv_so_far
       /\ d.recv_window = r.recv_window /\ d.ter_seq = r.ter_seq
       /\ d.out_file = r.out_file /\ d.out = r.out
  BY <1>9 DEF DstFields
<1>11. Closing(d) BY <1>6, <1>7, <1>9, <1>10 DEF Established, Closing
<1>12. Established(d, src.sent_so_far)
  BY <1>6, <1>9, <1>10, <1>11 DEF Established, Buffered
<1>13. /\ Open(c) /\ c.term_bit = 2 /\ c.last_ack = src.last_ack
       /\ c.chunk = src.chunk /\ c.sent_so_far = src.sent_so_far
  <2>1. Open(c) /\ c.term_bit = 2 /\ \A f \in SrcFields \ {"term_bit"} : c[f] = src[f]
    BY <1>0, <1>2, CloseLemma
  <2> HIDE DEF c
  <2> QED BY <2>1 DEF SrcFields
<1>14. PICK w \in Windows : src' = SentWindowSync(c, Ack.ack_id, w) BY DEF SrcFinAck
<1>15. w \in Nat \ {0} BY WindowsAssumption
<1> HIDE DEF c
<1> DEFINE a == Ack.ack_id
           g == SentWindowSync(c, a, w)
<1>16. a \in 0..c.sent_so_far /\ a \in Nat /\ a = FinId BY <1>3, <1>4, <1>13
<1>17. src' = g BY <1>14
<1> HIDE DEF a
<1>18. /\ Open(g) /\ g.last_ack = IF a > c.last_ack THEN a ELSE c.last_ack
       /\ g.term_bit = c.term_bit /\ g.chunk = c.chunk /\ g.sent_so_far = c.sent_so_far
  BY <1>13, <1>15, <1>16, SentWindowSyncLemma
<1> HIDE DEF g
<1>19. Pending(g) BY <1>13, <1>18 DEF Pending
<1>20. g.last_ack =< d.recv_so_far
  <2>1. Counts(g) BY <1>18 DEF Open, Window
  <2>2. g.last_ack \in Nat /\ g.last_ack =< FinId
    <3>1. g.last_ack \in Nat /\ g.last_ack =< g.sent_so_far /\ g.sent_so_far =< FinId
          /\ g.sent_so_far \in Nat
      BY <2>1, CountsType
    <3> QED BY <1>3, <3>1
  <2> QED BY <1>7, <1>10, <2>2
<1>21. Met(g, d) BY <1>9, <1>12, <1>13, <1>18, <1>20 DEF Met
<1>22. Connected' BY <1>8, <1>9, <1>17, <1>18, <1>19, <1>21 DEF Connected
<1>23. Closes
  <2>1. src.dest_map = FALSE /\ g.dest_map = FALSE BY <1>2, <1>18 DEF Open, Window
  <2>2. g.last_ack = FinId
    <3>1. Counts(src) BY <1>2 DEF Open, Window
    <3>2. src.last_ack \in Nat /\ src.last_ack =< FinId
      <4>1. /\ src.last_ack \in Nat /\ src.sent_so_far \in Nat
            /\ src.last_ack =< src.sent_so_far /\ src.sent_so_far =< FinId
        BY <3>1, CountsType
      <4> QED BY <1>3, <4>1
    <3> QED BY <1>3, <1>13, <1>16, <1>18, <3>2
  <2>3. dst'.recv_so_far = dst.recv_so_far
    <3>1. r.recv_so_far = dst.recv_so_far BY <1>0, <1>1, <1>5, AckLemma DEF r
    <3> QED BY <1>8, <1>10, <3>1
  <2> QED BY <1>0, <1>13, <1>17, <1>18, <2>1, <2>2, <2>3 DEF Closes
<1> QED BY <1>0, <1>22, <1>23 DEF IInv

\* The source is as it was and one reply less is on its way.
LEMMA ReplyTaken ==
    ASSUME IInv, dst.out # <<>>, dst' = Received(dst), src' = src
    PROVE  (Connecting' \/ Connected') /\ Arrives
<1>1. ASSUME Connecting, IsDst(dst), Waiting(dst) PROVE Connecting'
  <2>1. IsDst(dst') /\ Waiting(dst') BY <1>1, WaitingTail
  <2>2. Syn(src') BY <1>1 DEF Connecting
  <2> QED BY <2>1, <2>2 DEF Connecting
<1>a. Arrives
  <2>1. IsDst(dst) BY GuardLemma DEF Connected
  <2>2. dst'.recv_so_far = dst.recv_so_far BY <2>1, DstTail DEF DstFields
  <2> QED BY <2>2, FarType DEF Arrives
<1>2. ASSUME Connected PROVE Connected'
  <2>1. IsDst(dst') BY <1>2, AckLemma
  <2>2. Open(src') /\ Pending(src') BY <1>2 DEF Connected
  <2>3. CASE Waiting(dst)
    <3>1. Waiting(dst') /\ src.last_ack = 2 /\ src.term_bit # 2
      BY <1>2, <2>3, AckLemma, PhaseLemma
    <3> QED BY <2>1, <2>2, <3>1 DEF Connected, Met
  <2>4. CASE ~Waiting(dst)
    <3>1. /\ Established(dst', src.sent_so_far) /\ dst'.recv_so_far = dst.recv_so_far
          /\ dst'.term_bit = dst.term_bit
      BY <1>2, <2>4, AckLemma
    <3>2. src.last_ack =< dst.recv_so_far /\ (src.term_bit = 2 => dst.term_bit = 2)
      BY <1>2, <2>4, PhaseLemma
    <3> QED BY <2>1, <2>2, <3>1, <3>2 DEF Connected, Met
  <2> QED BY <2>3, <2>4
<1> QED BY <1>1, <1>2, <1>a, GuardLemma

\* A reply that is ignored keeps IInv.
LEMMA SrcIgnoreInv == ASSUME IInv, SrcIgnore PROVE IInv' /\ Arrives
<1>1. dst.out # <<>> /\ dst' = Received(dst) /\ src' = src /\ losses' = losses
  BY DEF SrcIgnore, FromDst
<1> QED BY <1>1, ReplyTaken DEF IInv

\* A lost reply keeps IInv.
LEMMA LoseAckInv == ASSUME IInv, LoseAck PROVE IInv' /\ Arrives
<1>1. dst.out # <<>> /\ dst' = Received(dst) /\ src' = src BY DEF LoseAck, FromDst
<1>2. losses' \in 0..MaxLosses BY BoundsAssumption DEF LoseAck, MayLose, IInv
<1> QED BY <1>1, <1>2, ReplyTaken DEF IInv

\* A packet leaves the channel of a connected source.
LEMMA PacketTaken ==
    ASSUME IInv, Connected, src.out # <<>>
    PROVE  LET g == Received(src)
           IN  /\ Open(g) /\ Pending(g)
               /\ g.sent_so_far = src.sent_so_far /\ g.last_ack = src.last_ack
               /\ g.term_bit = src.term_bit
               /\ \E k \in 1..src.sent_so_far : Pkt = Packet(k)
<1> DEFINE g == Received(src)
<1>1. /\ Open(g) /\ Pending(g)
      /\ \A f \in SrcFields \ {"out"} : g[f] = src[f]
      /\ \E k \in 1..src.sent_so_far : Pkt = Packet(k)
  BY PhaseLemma, OpenTail DEF Pkt
<1> HIDE DEF g
<1>2. /\ g.sent_so_far = src.sent_so_far /\ g.last_ack = src.last_ack
      /\ g.term_bit = src.term_bit
  BY <1>1 DEF SrcFields
<1> QED BY <1>1, <1>2 DEF g

\* A lost packet keeps IInv.
LEMMA LosePacketInv == ASSUME IInv, LosePacket PROVE IInv' /\ Arrives
<1>1. src.out # <<>> /\ src' = Received(src) /\ dst' = dst BY DEF LosePacket, FromSrc
<1>2. losses' \in 0..MaxLosses BY BoundsAssumption DEF LosePacket, MayLose, IInv
<1>3. ASSUME Connecting PROVE IInv'
  <2>1. Syn(src') BY <1>1, <1>3, SynTail DEF Connecting
  <2>2. Connecting' BY <1>1, <1>3, <2>1 DEF Connecting
  <2> QED BY <1>2, <2>2 DEF IInv
<1>4. ASSUME Connected PROVE IInv'
  <2>1. /\ Open(src') /\ Pending(src')
        /\ src'.sent_so_far = src.sent_so_far /\ src'.last_ack = src.last_ack
        /\ src'.term_bit = src.term_bit
    BY <1>1, <1>4, PacketTaken
  <2>2. Connected' BY <1>1, <1>4, <2>1 DEF Connected, Met
  <2> QED BY <1>2, <2>2 DEF IInv
<1>5. Arrives BY <1>1, FarType, TakenArrives
<1> QED BY <1>1, <1>3, <1>4, <1>5, GuardLemma

\* An arrival that leaves the destination established, and no less far, keeps
\* the two hosts connected.
LEMMA ConnectedArrival ==
    ASSUME IInv, Connected, src.out # <<>>, src' = Received(src),
           IsDst(dst'), Established(dst', src.sent_so_far), dst'.recv_so_far >= dst.recv_so_far,
           dst.term_bit = 2 => dst'.term_bit = 2
    PROVE  Connected'
<1>1. /\ Open(src') /\ Pending(src')
      /\ src'.sent_so_far = src.sent_so_far /\ src'.last_ack = src.last_ack
      /\ src'.term_bit = src.term_bit
  BY PacketTaken
<1>2. dst'.recv_so_far \in Nat /\ dst'.recv_so_far >= 2
  BY PhaseLemma, EstablishedType
<1>3. src.last_ack =< dst'.recv_so_far /\ (src.term_bit = 2 => dst'.term_bit = 2)
  <2>1. CASE Waiting(dst)
    <3>1. src.last_ack = 2 /\ src.term_bit # 2 BY <2>1, PhaseLemma
    <3> QED BY <1>2, <3>1
  <2>2. CASE ~Waiting(dst)
    <3>1. /\ src.last_ack =< dst.recv_so_far /\ (src.term_bit = 2 => dst.term_bit = 2)
          /\ src.sent_so_far \in 2..FinId /\ Established(dst, src.sent_so_far) /\ Open(src)
      BY <2>2, PhaseLemma
    <3>2. dst.recv_so_far \in Nat BY <3>1, EstablishedType
    <3>3. Counts(src) BY <3>1 DEF Open, Window
    <3>4. src.last_ack \in Nat BY <3>3, CountsType
    <3> QED BY <1>2, <3>1, <3>2, <3>4
  <2> QED BY <2>1, <2>2
<1> QED BY <1>1, <1>3 DEF Connected, Met

\* The packet at the head of the channel, in each of the two phases.
LEMMA PacketLemma ==
    ASSUME IInv, src.out # <<>>
    PROVE  /\ Connecting => Pkt = Packet(1) /\ Syn(Received(src))
           /\ Connected => \E k \in 1..src.sent_so_far : Pkt = Packet(k)
<1>1. Connecting => Pkt = Packet(1) /\ Syn(Received(src)) BY SynTail DEF Connecting, Pkt
<1>2. Connected => \E k \in 1..src.sent_so_far : Pkt = Packet(k) BY PacketTaken
<1> QED BY <1>1, <1>2

\* The members of a packet.
LEMMA PacketFields ==
    ASSUME NEW k \in Nat
    PROVE  /\ Packet(k).id = k /\ Packet(k).sync_bit = (IF k = 1 THEN 1 ELSE 3)
           /\ Packet(k).FIN = (IF k = FinId THEN 1 ELSE 0)
BY DEF Packet

\* The SYN's arrival keeps IInv.
LEMMA DstSynInv == ASSUME IInv, DstSyn PROVE IInv' /\ Arrives
<1>0. /\ src.out # <<>> /\ dst.sync_bit = 1 /\ src' = Received(src) /\ losses' = losses
      /\ dst' = Arm(SendAck([Counted(dst, Pkt) EXCEPT !.sync_bit = 2]), 1)
  BY DEF DstSyn, FromSrc
<1>1. ~Connected
  <2>1. Connected => dst.sync_bit = 2 \/ dst.sync_bit = 3 BY PhaseLemma
  <2> QED BY <1>0, <2>1
<1>2. Connecting BY <1>0, <1>1, GuardLemma
<1>3. dst = FreshDst BY <1>0, <1>2, PhaseLemma
<1>4. Pkt = Packet(1) /\ Syn(src') BY <1>0, <1>2, PacketLemma
<1>5. IsDst(dst') /\ Waiting(dst') BY <1>0, <1>3, <1>4, DstSynLemma
<1>6. dst.recv_so_far = 0 /\ dst'.recv_so_far = 1 BY <1>3, <1>5 DEF FreshDst, Waiting
<1>7. Arrives BY <1>0, <1>6, TakenArrives
<1> QED BY <1>0, <1>4, <1>5, <1>7 DEF IInv, Connecting

\* A destination that takes more than a SYN is connected.
LEMMA BeyondSyn ==
    ASSUME IInv, src.out # <<>>, dst.sync_bit = 3 \/ Completes(dst, Pkt)
    PROVE  /\ Connected /\ src.sent_so_far \in 2..FinId
           /\ IsDst(dst) /\ (Waiting(dst) \/ Established(dst, src.sent_so_far))
           /\ \E k \in 1..src.sent_so_far : Pkt = Packet(k) /\ (Waiting(dst) => k # 1)
<1>1. Connected
  <2>1. Connecting => dst.sync_bit # 3 BY PhaseLemma
  <2>2. Connecting => Pkt.sync_bit = 1
    <3>1. 1 \in Nat OBVIOUS
    <3> QED BY <3>1, PacketLemma, PacketFields
  <2>3. Connecting => ~Completes(dst, Pkt) BY <2>2 DEF Completes
  <2> QED BY <2>1, <2>3, GuardLemma
<1>2. PICK k \in 1..src.sent_so_far : Pkt = Packet(k) BY <1>1, PacketLemma
<1>3. src.sent_so_far \in 2..FinId /\ IsDst(dst) BY <1>1, PhaseLemma
<1>4. Waiting(dst) \/ Established(dst, src.sent_so_far) BY <1>1, PhaseLemma
<1>5. Waiting(dst) => k # 1
  <2>1. Waiting(dst) => dst.sync_bit # 3 BY DEF Waiting
  <2>2. 1 \in Nat OBVIOUS
  <2>3. k = 1 => Pkt.sync_bit = 1 BY <1>2, <2>2, PacketFields
  <2>4. Completes(dst, Pkt) => Pkt.sync_bit = 3 BY DEF Completes
  <2> QED BY <2>1, <2>3, <2>4
<1> QED BY <1>1, <1>2, <1>3, <1>4, <1>5

\* The arrival of the handshake's ACK keeps IInv.
LEMMA DstAckInv == ASSUME IInv, DstAck PROVE IInv' /\ Arrives
<1>0. /\ src.out # <<>> /\ Completes(dst, Pkt) /\ ~LostAck(dst, Pkt)
      /\ src' = Received(src) /\ losses' = losses /\ dst' = Counted(dst, Pkt)
  BY DEF DstAck, FromSrc
<1> DEFINE n == src.sent_so_far
           b == Base(dst)
<1>1. /\ Connected /\ n \in 2..FinId /\ IsDst(dst) /\ (Waiting(dst) \/ Established(dst, n))
  BY <1>0, BeyondSyn
<1>2. PICK k \in 1..n : Pkt = Packet(k) /\ (Waiting(dst) => k # 1) BY <1>0, BeyondSyn
<1>3. Waiting(dst) /\ dst.recv_so_far = 1 /\ dst.term_bit = 0
  <2>1. Established(dst, n) => dst.sync_bit = 3 BY DEF Established
  <2>2. dst.sync_bit = 2 BY <1>0 DEF Completes
  <2>3. Waiting(dst) BY <1>1, <2>1, <2>2
  <2> QED BY <2>3 DEF Waiting
<1>4. k = 2
  <2>1. k \in Nat /\ k >= 1 BY <1>1, <1>2, ChunksAssumption DEF FinId
  <2>2. Pkt.id = k BY <1>2, <2>1, PacketFields
  <2>3. ~(k > 2) BY <1>0, <1>3, <2>1, <2>2 DEF LostAck
  <2> QED BY <1>2, <1>3, <2>1, <2>3
<1>5. /\ IsDst(b) /\ Established(b, n) /\ b.recv_so_far = 2 BY <1>1, <1>3, BaseEstablished
<1>6. Counted(dst, Pkt) = IF k = b.recv_so_far + 1 THEN [b EXCEPT !.recv_so_far = k] ELSE b
  BY <1>1, <1>2, <1>3, CountedLemma
<1> HIDE DEF b
<1>7. dst' = b BY <1>0, <1>4, <1>5, <1>6
<1>8. dst'.recv_so_far >= dst.recv_so_far /\ dst.term_bit # 2 BY <1>3, <1>5, <1>7
<1>9. Connected' BY <1>0, <1>1, <1>5, <1>7, <1>8, ConnectedArrival
<1>10. Arrives BY <1>0, <1>8, TakenArrives
<1> QED BY <1>0, <1>9, <1>10 DEF IInv

\* A chunk's arrival keeps IInv, that of a SYN or an ACK sent again included.
LEMMA DstDataInv == ASSUME IInv, DstData PROVE IInv' /\ Arrives
<1>0. /\ src.out # <<>> /\ (dst.sync_bit = 3 \/ LostAck(dst, Pkt)) /\ Pkt.FIN = 0
      /\ src' = Received(src) /\ losses' = losses
  BY DEF DstData, FromSrc
<1>z. LostAck(dst, Pkt) => Completes(dst, Pkt) /\ Pkt.id > dst.recv_so_far + 1 BY DEF LostAck
<1> DEFINE n == src.sent_so_far
           b == Base(dst)
           h == Counted(dst, Pkt)
           write == Accepts(dst, Pkt)
<1>1. /\ Connected /\ n \in 2..FinId /\ IsDst(dst) /\ (Waiting(dst) \/ Established(dst, n))
  BY <1>0, <1>z, BeyondSyn
<1>2. PICK k \in 1..n : Pkt = Packet(k) /\ (Waiting(dst) => k # 1) BY <1>0, <1>z, BeyondSyn
<1>3. PICK m \in 0..FinId : RunEnd(h, m) /\ dst' = RecvWindowSync(h, Pkt, write, m)
  BY DEF DstData
<1>4. n \in Nat /\ k \in Nat /\ k >= 1 /\ k =< n /\ n =< FinId /\ FinId = Chunks + 3 /\ Chunks \in Nat
  BY <1>1, <1>2, ChunksAssumption DEF FinId
<1>5. Pkt.id = k /\ k # FinId BY <1>0, <1>2, <1>4, PacketFields
<1>6. k \in 1..Chunks+2 BY <1>4, <1>5
<1>7. Waiting(dst) => k > 2
  <2>1. Waiting(dst) => dst.sync_bit = 2 /\ dst.recv_so_far = 1 BY DEF Waiting
  <2> QED BY <1>0, <1>z, <1>4, <1>5, <2>1
<1>8. /\ IsDst(b) /\ Established(b, n) /\ b.recv_so_far >= dst.recv_so_far
      /\ b.term_bit = dst.term_bit
  BY <1>1, BaseEstablished
<1>9. /\ write <=> k = b.recv_so_far + 1 \/ (Waiting(dst) /\ k = 2)
      /\ h = IF k = b.recv_so_far + 1 THEN [b EXCEPT !.recv_so_far = k] ELSE b
  BY <1>1, <1>2, CountedLemma
<1>10. write \in BOOLEAN BY DEF Accepts
<1>11. Pkt = Packet(k) BY <1>2
<1> HIDE DEF write, h, b
<1>12. write <=> k = b.recv_so_far + 1 BY <1>7, <1>9
<1> DEFINE c == IF k = b.recv_so_far + 1 THEN [b EXCEPT !.recv_so_far = k] ELSE b
           r == RecvWindowSync(c, Packet(k), write, m)
<1>13. h = c BY <1>9
<1> HIDE DEF c
<1>14. RunEnd(c, m) BY <1>3, <1>13
<1>15. /\ IsDst(r) /\ Established(r, n) /\ r.recv_so_far >= b.recv_so_far
       /\ b.term_bit = 2 => r.term_bit = 2
  BY <1>1, <1>4, <1>6, <1>8, <1>10, <1>12, <1>14, DataLemma DEF c
<1>16. dst' = r BY <1>3, <1>11, <1>13
<1> HIDE DEF r
<1>17. dst'.recv_so_far >= dst.recv_so_far
  <2>1. r.recv_so_far \in Nat /\ b.recv_so_far \in Nat BY <1>1, <1>8, <1>15, EstablishedType
  <2>2. dst.recv_so_far \in Nat
    <3>1. Waiting(dst) => dst.recv_so_far = 1 BY DEF Waiting
    <3>2. Established(dst, n) => dst.recv_so_far \in Nat BY <1>1, EstablishedType
    <3> QED BY <1>1, <3>1, <3>2
  <2> QED BY <1>8, <1>15, <1>16, <2>1, <2>2
<1>18. Connected' BY <1>0, <1>1, <1>8, <1>15, <1>16, <1>17, ConnectedArrival
<1>19. Arrives BY <1>0, <1>17, TakenArrives
<1> QED BY <1>0, <1>18, <1>19 DEF IInv

\* The FIN's arrival keeps IInv.
LEMMA DstFinInv == ASSUME IInv, DstFin PROVE IInv' /\ Arrives
<1>0. /\ src.out # <<>> /\ (dst.sync_bit = 3 \/ LostAck(dst, Pkt)) /\ Pkt.FIN = 1
      /\ dst.term_bit # 2 /\ src' = Received(src) /\ losses' = losses
  BY DEF DstFin, FromSrc
<1>z. LostAck(dst, Pkt) => Completes(dst, Pkt) BY DEF LostAck
<1> DEFINE n == src.sent_so_far
           b == Base(dst)
           h == Counted(dst, Pkt)
<1>1. /\ Connected /\ n \in 2..FinId /\ IsDst(dst) /\ (Waiting(dst) \/ Established(dst, n))
  BY <1>0, <1>z, BeyondSyn
<1>2. PICK k \in 1..n : Pkt = Packet(k) /\ (Waiting(dst) => k # 1) BY <1>0, <1>z, BeyondSyn
<1>3. dst' = IF Pkt.id = h.recv_so_far THEN Reply(h, 1)
             ELSE [h EXCEPT !.term_bit = 1, !.ter_seq = Pkt.id]
  BY DEF DstFin
<1>4. n \in Nat /\ k \in Nat /\ k =< n /\ n =< FinId /\ FinId \in Nat
  BY <1>1, <1>2, ChunksAssumption DEF FinId
<1>5. Pkt.id = FinId /\ k = FinId /\ n = FinId
  <2>1. Pkt.id = k /\ k = FinId BY <1>0, <1>2, <1>4, PacketFields
  <2> QED BY <1>4, <2>1
<1>6. /\ IsDst(b) /\ Established(b, FinId) /\ b.recv_so_far >= dst.recv_so_far
      /\ b.term_bit = dst.term_bit
  BY <1>1, <1>5, BaseEstablished
<1>7. h = IF k = b.recv_so_far + 1 THEN [b EXCEPT !.recv_so_far = k] ELSE b
  BY <1>1, <1>2, CountedLemma
<1> HIDE DEF h, b
<1> DEFINE c == IF FinId = b.recv_so_far + 1 THEN [b EXCEPT !.recv_so_far = FinId] ELSE b
           r == IF FinId = c.recv_so_far THEN Reply(c, 1)
                ELSE [c EXCEPT !.term_bit = 1, !.ter_seq = FinId]
<1>8. IsDst(r) /\ Established(r, FinId) /\ r.recv_so_far >= b.recv_so_far
  BY <1>0, <1>6, FinLemma
<1>9. h = c BY <1>5, <1>7
<1> HIDE DEF c
<1>10. dst' = r BY <1>3, <1>5, <1>9
<1> HIDE DEF r
<1>11. dst'.recv_so_far >= dst.recv_so_far
  <2>1. r.recv_so_far \in Nat /\ b.recv_so_far \in Nat
    BY <1>1, <1>5, <1>6, <1>8, EstablishedType
  <2>2. dst.recv_so_far \in Nat
    <3>1. Waiting(dst) => dst.recv_so_far = 1 BY DEF Waiting
    <3>2. Established(dst, n) => dst.recv_so_far \in Nat BY <1>1, EstablishedType
    <3> QED BY <1>1, <3>1, <3>2
  <2> QED BY <1>6, <1>8, <1>10, <2>1, <2>2
<1>12. Connected' BY <1>0, <1>1, <1>5, <1>8, <1>10, <1>11, ConnectedArrival
<1>13. Arrives BY <1>0, <1>11, TakenArrives
<1> QED BY <1>0, <1>12, <1>13 DEF IInv

\* An arrival that is neither counted nor answered keeps IInv.
LEMMA DstIgnoreInv == ASSUME IInv, DstIgnore PROVE IInv' /\ Arrives
<1>0. /\ src.out # <<>> /\ ~Completes(dst, Pkt) /\ dst' = Counted(dst, Pkt)
      /\ dst.sync_bit = 3 => Pkt.FIN = 1 /\ dst.term_bit = 2
      /\ dst.sync_bit = 1 => Pkt.sync_bit # 1
      /\ src' = Received(src) /\ losses' = losses
  BY DEF DstIgnore, FromSrc
<1>1. PICK k \in Nat : Pkt = Packet(k) /\ k >= 1
  <2>1. Connecting => Pkt = Packet(1) BY <1>0, PacketLemma
  <2>2. ASSUME Connected PROVE \E k \in Nat : Pkt = Packet(k) /\ k >= 1
    <3>1. PICK k \in 1..src.sent_so_far : Pkt = Packet(k) BY <1>0, <2>2, PacketLemma
    <3>2. src.sent_so_far \in 2..FinId BY <2>2, PhaseLemma
    <3> QED BY <3>1, <3>2
  <2> QED BY <1>0, <2>1, <2>2, GuardLemma
<1>2. Pkt.id = k /\ Pkt.sync_bit = (IF k = 1 THEN 1 ELSE 3) /\ Pkt.FIN = (IF k = FinId THEN 1 ELSE 0)
  BY <1>1, PacketFields
<1>3. Connecting => IsDst(dst) /\ Waiting(dst)
  <2>1. Connecting => Pkt = Packet(1) BY <1>0, PacketLemma
  <2>2. Connecting => Pkt.sync_bit = 1
    <3>1. 1 \in Nat OBVIOUS
    <3> QED BY <2>1, <3>1, PacketFields
  <2> QED BY <1>0, <2>2, PhaseLemma
<1>4. IsDst(dst) /\ ~Accepts(dst, Pkt) /\ ~LostAck(dst, Pkt)
  <2>1. ~LostAck(dst, Pkt) BY <1>0 DEF LostAck
  <2>2. CASE Waiting(dst) /\ IsDst(dst)
    <3>1. dst.sync_bit = 2 /\ dst.term_bit = 0 /\ dst.recv_so_far = 1 BY <2>2 DEF Waiting
    <3>2. k = 1 BY <1>0, <1>2, <3>1 DEF Completes
    <3> QED BY <1>2, <2>1, <2>2, <3>1, <3>2 DEF Accepts
  <2>3. CASE Connected /\ ~Waiting(dst)
    <3>1. Established(dst, src.sent_so_far) /\ IsDst(dst) /\ dst.sync_bit = 3
      BY <2>3, PhaseLemma
    <3>2. k = FinId /\ dst.term_bit = 2 BY <1>0, <1>2, <3>1
    <3>3. dst.recv_so_far = FinId /\ FinId \in Nat
      BY <3>1, <3>2, ChunksAssumption DEF Established, Closing, FinId
    <3> QED BY <1>2, <2>1, <3>1, <3>2, <3>3 DEF Accepts
  <2>4. Connected => IsDst(dst) BY PhaseLemma
  <2> QED BY <1>0, <1>3, <2>2, <2>3, <2>4, GuardLemma
<1>5. dst' = dst
  <2> DEFINE x == [dst EXCEPT !.recv_so_far = dst.recv_so_far]
  <2>1. Counted(dst, Pkt) = x BY <1>0, <1>4 DEF Counted
  <2>2. IsDst(x) /\ \A f \in DstFields : x[f] = dst[f] BY <1>4 DEF IsDst, DstFields
  <2> HIDE DEF x
  <2>3. x = dst BY <1>4, <2>2 DEF IsDst
  <2> QED BY <1>0, <2>1, <2>3
<1>6. ASSUME Connecting PROVE IInv'
  <2>1. Syn(src') BY <1>0, <1>6, PacketLemma
  <2>2. Connecting' BY <1>5, <1>6, <2>1 DEF Connecting
  <2> QED BY <1>0, <2>2 DEF IInv
<1>7. ASSUME Connected PROVE IInv'
  <2>1. /\ Open(src') /\ Pending(src')
        /\ src'.sent_so_far = src.sent_so_far /\ src'.last_ack = src.last_ack
        /\ src'.term_bit = src.term_bit
    BY <1>0, <1>7, PacketTaken
  <2>2. Connected' BY <1>5, <1>7, <2>1 DEF Connected, Met
  <2> QED BY <1>0, <2>2 DEF IInv
<1>8. Arrives BY <1>0, <1>5, FarType, TakenArrives
<1> QED BY <1>0, <1>6, <1>7, <1>8, GuardLemma

\* The SYN's timer keeps IInv.
LEMMA SrcSynTimeoutInv == ASSUME IInv, SrcSynTimeout PROVE IInv' /\ Arrives
<1>0. /\ src.timers > 0 /\ src.retrans_bit = 1 /\ dst' = dst /\ losses' = losses
      /\ src' = Send(Rearm(src, 1), SrcPacket(src, src.sent_so_far, 0, 0))
  BY DEF SrcSynTimeout, MayResend
<1>1. Connecting
  <2>1. ~Connected BY <1>0, PhaseLemma
  <2> QED BY <1>0, <2>1, GuardLemma
<1>2. Syn(src') BY <1>0, <1>1, SynTimeoutLemma DEF Connecting
<1>3. Connecting' BY <1>0, <1>1, <1>2 DEF Connecting
<1>4. Arrives
  <2>1. Syn(src) BY <1>1 DEF Connecting
  <2>2. dst'.recv_so_far >= dst.recv_so_far BY <1>0, FarType
  <2> QED BY <1>2, <2>1, <2>2 DEF Arrives, Syn
<1> QED BY <1>0, <1>3, <1>4 DEF IInv

\* The data timer keeps IInv.
LEMMA SrcDataTimeoutInv == ASSUME IInv, SrcDataTimeout PROVE IInv' /\ Arrives
<1>0. /\ src.timers > 0 /\ src.retrans_bit = 2 /\ dst' = dst /\ losses' = losses
      /\ src' = [Send(Rearm(src, 2), src.retransmit_pkt) EXCEPT !.window_size = 1]
  BY DEF SrcDataTimeout, MayResend
<1>1. Connected
  <2>1. ~Connecting BY <1>0, PhaseLemma
  <2> QED BY <1>0, <2>1, GuardLemma
<1> DEFINE g == [Send(Rearm(src, 2), src.retransmit_pkt) EXCEPT !.window_size = 1]
<1>2. Open(g) /\ Pending(g) /\ \A f \in SrcFields \ {"out", "window_size"} : g[f] = src[f]
  BY <1>0, <1>1, PhaseLemma, DataTimeoutLemma
<1>3. src' = g BY <1>0
<1> HIDE DEF g
<1>4. g.sent_so_far = src.sent_so_far /\ g.last_ack = src.last_ack /\ g.term_bit = src.term_bit
  BY <1>2 DEF SrcFields
<1>5. Connected' BY <1>0, <1>1, <1>2, <1>3, <1>4 DEF Connected, Met
<1>6. Arrives
  <2>1. g.dest_map = src.dest_map /\ g.chunk = src.chunk BY <1>2 DEF SrcFields
  <2>2. dst'.recv_so_far >= dst.recv_so_far BY <1>0, FarType
  <2> QED BY <1>3, <1>4, <2>1, <2>2 DEF Arrives
<1> QED BY <1>0, <1>5, <1>6 DEF IInv

\* The SYN-ACK's timer keeps IInv.
LEMMA DstSynAckTimeoutInv == ASSUME IInv, DstSynAckTimeout PROVE IInv' /\ Arrives
<1>0. /\ dst.timers > 0 /\ dst.retrans_bit = 1 /\ src' = src /\ losses' = losses
      /\ dst' = SendAck(Rearm(dst, 1))
  BY DEF DstSynAckTimeout, MayResend
<1>1. IsDst(dst) /\ Waiting(dst)
  <2>1. Established(dst, src.sent_so_far) => dst.retrans_bit = 0 BY DEF Established
  <2>2. Connected => IsDst(dst) /\ Waiting(dst) BY <1>0, <2>1, PhaseLemma
  <2> QED BY <1>0, <2>2, GuardLemma
<1>2. IsDst(dst') /\ Waiting(dst') BY <1>0, <1>1, SynAckTimeoutLemma
<1>3. Connecting => Connecting' BY <1>0, <1>2 DEF Connecting
<1>4. ASSUME Connected PROVE Connected'
  <2>1. src.last_ack = 2 /\ src.term_bit # 2 BY <1>1, <1>4, PhaseLemma
  <2> QED BY <1>0, <1>2, <1>4, <2>1 DEF Connected, Met
<1>5. Arrives BY <1>0, <1>1, <1>2 DEF Arrives, Waiting
<1> QED BY <1>0, <1>3, <1>4, <1>5, GuardLemma DEF IInv

\* Every event of the simulator keeps IInv.
LEMMA NextInv ==
    ASSUME IInv, [Next]_vars
    PROVE  IInv' /\ (Arrives \/ Learns \/ Closes \/ Opens)
<1>1. CASE SrcReceive
  BY <1>1, SrcSynAckInv, SrcAckInv, SrcFinAckInv, SrcIgnoreInv DEF SrcReceive
<1>2. CASE DstReceive
  BY <1>2, DstSynInv, DstAckInv, DstDataInv, DstFinInv, DstIgnoreInv DEF DstReceive
<1>3. CASE Start BY <1>3, StartInv
<1>4. CASE SrcTimeout BY <1>4, SrcSynTimeoutInv, SrcDataTimeoutInv DEF SrcTimeout
<1>5. CASE DstSynAckTimeout BY <1>5, DstSynAckTimeoutInv
<1>6. CASE LosePacket \/ LoseAck BY <1>6, LosePacketInv, LoseAckInv
<1>7. CASE UNCHANGED vars
  <2>1. IInv' BY <1>7 DEF vars, IInv, Untouched, Connecting, Connected
  <2>2. Arrives BY <1>7, FarType DEF vars, Arrives
  <2> QED BY <2>1, <2>2
<1> QED BY <1>1, <1>2, <1>3, <1>4, <1>5, <1>6, <1>7 DEF Next

\* IInv holds in every state of every flow, whatever the file's length, the
\* windows congestion_control() chooses, and the packets lost.
THEOREM Inductive == Spec => []IInv
<1>1. Init => IInv BY InitInv
<1>2. IInv /\ [Next]_vars => IInv' BY NextInv
<1> QED BY <1>1, <1>2, PTL DEF Spec

---------------------------------------------------------------------------
(* Types.                                                                  *)

\* A packet sent is a packet.
LEMMA PacketType == ASSUME NEW i \in 1..FinId PROVE Packet(i) \in Packets
BY ChunksAssumption DEF Packet, Packets, FinId

\* NULL is a packet.
LEMMA NullType == NULL \in Packets
BY ChunksAssumption DEF NULL, Packets, FinId

\* The source's channel holds packets.
LEMMA SentType ==
    ASSUME NEW n \in 0..FinId, NEW s \in Seq(SentBy(n))
    PROVE  s \in Seq(Packets)
<1>1. SentBy(n) \subseteq Packets
  <2>1. FinId \in Nat BY ChunksAssumption DEF FinId
  <2>2. \A i \in 1..n : i \in 1..FinId BY <2>1
  <2> QED BY <2>2, PacketType DEF SentBy
<1> QED BY <1>1, SeqMonotonic

\* The destination's channel holds acks.
LEMMA AcksType == ASSUME NEW n, NEW s \in Seq(AcksBy(n)) PROVE s \in Seq(Acks)
<1>1. AcksBy(n) \subseteq Acks BY DEF AcksBy
<1> QED BY <1>1, SeqMonotonic

\* An empty window is a window.
LEMMA EmptyWindow == ASSUME NEW h, NEW w, h[w] = <<>> PROVE Windowed(h, w)
<1>1. h[w] \in [{} -> Packets] OBVIOUS
<1>2. {} \in SUBSET (3..FinId) OBVIOUS
<1> QED BY <1>1, <1>2 DEF Windowed

\* The part of TypeOK that concerns the source.
SrcTypeOK(h) ==
    /\ h.dest_map \in BOOLEAN /\ h.retrans \in BOOLEAN /\ h.sync_bit \in {1, 3}
    /\ h.term_bit \in 0..2 /\ h.retrans_bit \in 0..2 /\ h.timers \in 0..1
    /\ h.sent_so_far \in 0..FinId /\ h.last_ack \in 0..FinId /\ h.chunk \in 0..Chunks
    /\ h.packets_in_window \in -1..Chunks /\ h.window_size \in Nat \ {0}
    /\ h.dup_ack_count \in {0, 1} /\ h.retransmit_pkt \in Packets
    /\ Windowed(h, "sent_window") /\ h.out \in Seq(Packets)

\* The part of TypeOK that concerns the destination.
DstTypeOK(d) ==
    /\ d.retrans \in BOOLEAN /\ d.sync_bit \in 1..3 /\ d.term_bit \in 0..2
    /\ d.retrans_bit \in 0..1 /\ d.timers \in 0..1 /\ d.recv_so_far \in 0..FinId
    /\ d.ter_seq \in {FinId, MAX_QUEUE}
    /\ Windowed(d, "recv_window") /\ d.out \in Seq(Acks)

\* The types of the source before the flow.
LEMMA FreshSrcType == ASSUME NEW dup \in {0, 1} PROVE SrcTypeOK(FreshSrc(dup))
<1> DEFINE h == FreshSrc(dup)
<1>1. /\ h.dest_map = TRUE /\ h.sync_bit = 1 /\ h.term_bit = 0 /\ h.retrans = FALSE
      /\ h.retrans_bit = 0 /\ h.timers = 0 /\ h.sent_so_far = 0 /\ h.last_ack = 0 /\ h.chunk = 0
      /\ h.sent_window = <<>> /\ h.packets_in_window = 0 /\ h.window_size = 1
      /\ h.retransmit_pkt = NULL /\ h.dup_ack_count = dup /\ h.out = <<>>
  BY DEF FreshSrc
<1> HIDE DEF h
<1>2. Windowed(h, "sent_window") BY <1>1, EmptyWindow
<1>3. h.out \in Seq(Packets) BY <1>1
<1>4. /\ h.sync_bit \in {1, 3} /\ h.term_bit \in 0..2 /\ h.retrans_bit \in 0..2
      /\ h.timers \in 0..1 /\ h.sent_so_far \in 0..FinId /\ h.last_ack \in 0..FinId
      /\ h.chunk \in 0..Chunks /\ h.packets_in_window \in -1..Chunks
      /\ h.window_size \in Nat \ {0}
  BY <1>1, ChunksAssumption DEF FinId
<1>5. h.dest_map \in BOOLEAN /\ h.retrans \in BOOLEAN BY <1>1
<1>6. h.dup_ack_count \in {0, 1} /\ h.retransmit_pkt \in Packets BY <1>1, NullType
<1>7. SrcTypeOK(h) BY <1>2, <1>3, <1>4, <1>5, <1>6 DEF SrcTypeOK
<1> QED BY <1>7 DEF h

\* The types of the source during the handshake.
LEMMA SynType == ASSUME NEW h, Syn(h) PROVE SrcTypeOK(h)
<1>1. Windowed(h, "sent_window") BY EmptyWindow DEF Syn
<1>2. h.out \in Seq(Packets)
  <2>1. 1 \in 0..FinId BY ChunksAssumption DEF FinId
  <2> QED BY <2>1, SentType DEF Syn
<1>3. /\ h.sync_bit \in {1, 3} /\ h.term_bit \in 0..2 /\ h.retrans_bit \in 0..2
      /\ h.timers \in 0..1 /\ h.sent_so_far \in 0..FinId /\ h.last_ack \in 0..FinId
      /\ h.chunk \in 0..Chunks /\ h.packets_in_window \in -1..Chunks
      /\ h.window_size \in Nat \ {0}
  BY ChunksAssumption DEF Syn, FinId
<1>4. h.dest_map \in BOOLEAN /\ h.retrans \in BOOLEAN BY DEF Syn
<1>5. h.dup_ack_count \in {0, 1} /\ h.retransmit_pkt \in Packets BY NullType DEF Syn
<1> QED BY <1>1, <1>2, <1>3, <1>4, <1>5 DEF SrcTypeOK

\* The types of the source after the handshake.
LEMMA OpenType == ASSUME NEW h, Open(h) PROVE SrcTypeOK(h)
<1>1. Window(h) /\ Counts(h) /\ Watched(h) BY DEF Open, Window
<1>2. /\ h.sent_so_far \in Nat /\ h.last_ack \in 2..h.sent_so_far /\ h.sent_so_far =< FinId
      /\ h.last_ack \in Nat /\ FinId \in Nat /\ FinId = Chunks + 3 /\ Chunks \in Nat
  BY <1>1, CountsType, ChunksAssumption DEF Counts, FinId
<1>3. h.chunk \in 0..Chunks /\ h.packets_in_window \in -1..Chunks /\ h.window_size \in Nat \ {0}
  BY <1>1, <1>2 DEF Counts
<1>4. h.retransmit_pkt \in Packets
  <2>1. CASE h.last_ack < h.sent_so_far
    <3>1. h.last_ack + 1 \in 1..FinId BY <1>2, <2>1
    <3> QED BY <1>1, <2>1, <3>1, PacketType DEF Watched
  <2>2. CASE ~(h.last_ack < h.sent_so_far) BY <1>1, <2>2, NullType DEF Watched
  <2> QED BY <2>1, <2>2
<1>5. Windowed(h, "sent_window")
  <2> DEFINE S == h.last_ack+1 .. h.sent_so_far
  <2>1. S \in SUBSET (3..FinId) BY <1>2
  <2>2. \A i \in S : Packet(i) \in Packets
    <3>1. \A i \in S : i \in 1..FinId BY <1>2
    <3> QED BY <3>1, PacketType
  <2>3. h.sent_window = [i \in S |-> Packet(i)] BY <1>1 DEF Window, Span
  <2> HIDE DEF S
  <2>4. h.sent_window \in [S -> Packets] BY <2>2, <2>3
  <2> QED BY <2>1, <2>4 DEF Windowed
<1>6. h.out \in Seq(Packets)
  <2>1. h.sent_so_far \in 0..FinId BY <1>2
  <2> QED BY <1>1, <2>1, SentType DEF Window
<1>7. /\ h.retrans_bit \in 0..2 /\ h.timers \in 0..1
  BY <1>1 DEF Watched, Armed, Idle
<1>7a. h.retrans \in BOOLEAN
  <2>1. h.retrans = TRUE \/ h.retrans = FALSE BY <1>1 DEF Watched, Armed
  <2> QED BY <2>1
<1>8. /\ h.sync_bit \in {1, 3} /\ h.dest_map \in BOOLEAN /\ h.term_bit \in 0..2
      /\ h.dup_ack_count \in {0, 1}
  BY <1>1 DEF Window
<1>9. h.sent_so_far \in 0..FinId /\ h.last_ack \in 0..FinId BY <1>2
<1> QED BY <1>3, <1>4, <1>5, <1>6, <1>7, <1>7a, <1>8, <1>9 DEF SrcTypeOK

\* The types of the destination.
LEMMA DstType ==
    ASSUME NEW d, NEW n \in 2..FinId, d = FreshDst \/ Waiting(d) \/ Established(d, n)
    PROVE  DstTypeOK(d)
<1>0. FinId = Chunks + 3 /\ Chunks \in Nat BY ChunksAssumption DEF FinId
<1>1. CASE d = FreshDst
  <2>1. /\ d.sync_bit = 1 /\ d.term_bit = 0 /\ d.retrans = FALSE /\ d.retrans_bit = 0
        /\ d.timers = 0 /\ d.recv_so_far = 0 /\ d.recv_window = <<>> /\ d.ter_seq = MAX_QUEUE
        /\ d.out = <<>>
    BY <1>1 DEF FreshDst
  <2>2. Windowed(d, "recv_window") /\ d.out \in Seq(Acks) BY <2>1, EmptyWindow
  <2>3. /\ d.sync_bit \in 1..3 /\ d.term_bit \in 0..2 /\ d.retrans_bit \in 0..1
        /\ d.timers \in 0..1 /\ d.recv_so_far \in 0..FinId
    BY <1>0, <2>1
  <2>4. d.retrans \in BOOLEAN /\ d.ter_seq \in {FinId, MAX_QUEUE} BY <2>1
  <2> QED BY <2>2, <2>3, <2>4 DEF DstTypeOK
<1>2. CASE Waiting(d)
  <2>1. Windowed(d, "recv_window") /\ d.out \in Seq(Acks)
    BY <1>2, EmptyWindow, AcksType DEF Waiting
  <2>2. /\ d.sync_bit \in 1..3 /\ d.term_bit \in 0..2 /\ d.retrans_bit \in 0..1
        /\ d.timers \in 0..1 /\ d.recv_so_far \in 0..FinId
    BY <1>0, <1>2 DEF Waiting
  <2>3. d.retrans \in BOOLEAN /\ d.ter_seq \in {FinId, MAX_QUEUE} BY <1>2 DEF Waiting
  <2> QED BY <2>1, <2>2, <2>3 DEF DstTypeOK
<1>3. CASE Established(d, n)
  <2>1. Windowed(d, "recv_window")
    <3> DEFINE S == DOMAIN d.recv_window
    <3>1. S \subseteq d.recv_so_far+2 .. n BY <1>3 DEF Established, Buffered
    <3>2. d.recv_so_far \in Nat /\ d.recv_so_far >= 2 /\ n \in Nat /\ n =< FinId
      BY <1>3, EstablishedType
    <3>3. S \in SUBSET (3..FinId) /\ \A i \in S : i \in 1..FinId BY <1>0, <3>1, <3>2
    <3>4. d.recv_window = [i \in S |-> Packet(i)] BY <1>3 DEF Established, Buffered
    <3> HIDE DEF S
    <3>5. d.recv_window \in [S -> Packets] BY <3>3, <3>4, PacketType
    <3> QED BY <3>3, <3>5 DEF Windowed
  <2>2. d.out \in Seq(Acks) BY <1>3, AcksType DEF Established
  <2>3. d.recv_so_far \in 0..FinId BY <1>0, <1>3, EstablishedType
  <2>4. d.term_bit \in 0..2 /\ d.ter_seq \in {FinId, MAX_QUEUE}
    BY <1>3 DEF Established, Closing
  <2>5. d.sync_bit \in 1..3 /\ d.retrans_bit \in 0..1 /\ d.timers \in 0..1
    BY <1>3 DEF Established
  <2>6. d.retrans \in BOOLEAN BY <1>3 DEF Established
  <2> QED BY <2>1, <2>2, <2>3, <2>4, <2>5, <2>6 DEF DstTypeOK
<1> QED BY <1>1, <1>2, <1>3

---------------------------------------------------------------------------
(* What the invariant implies.                                             *)

\* IInv implies the type invariant.
LEMMA InvTypeOK == ASSUME IInv PROVE TypeOK
<1>1. SrcTypeOK(src)
  <2>1. Untouched => SrcTypeOK(src) BY FreshSrcType DEF Untouched
  <2>2. Connecting => SrcTypeOK(src) BY SynType DEF Connecting
  <2>3. Connected => SrcTypeOK(src) BY OpenType DEF Connected
  <2> QED BY <2>1, <2>2, <2>3 DEF IInv
<1>2. DstTypeOK(dst)
  <2>1. 2 \in 2..FinId BY ChunksAssumption DEF FinId
  <2>2. Untouched \/ Connecting => DstTypeOK(dst) BY <2>1, DstType DEF Untouched, Connecting
  <2>3. Connected => DstTypeOK(dst) BY DstType, PhaseLemma
  <2> QED BY <2>2, <2>3 DEF IInv
<1>3. losses \in 0..MaxLosses BY DEF IInv
<1> QED BY <1>1, <1>2, <1>3 DEF TypeOK, SrcTypeOK, DstTypeOK

\* What an event finds: the hosts as the handshake leaves them, and packets and
\* replies that were sent in one of its states.
LEMMA BetweenEvents ==
    ASSUME IInv
    PROVE  /\ src.sync_bit \in {1, 3} /\ (src.sync_bit = 1 => src.term_bit = 0)
           /\ dst.sync_bit # 3 => dst.term_bit = 0
           /\ dst.sync_bit # 2 => dst.retrans_bit = 0
           /\ dst.recv_so_far \in 0..FinId /\ DOMAIN dst.recv_window \subseteq 0..FinId
           /\ src.out # <<>> => Pkt.sync_bit \in {1, 3} /\ Pkt.id =< FinId
           /\ dst.out # <<>> => Ack.sync_bit \in 2..3 /\ (Ack.FIN = 1 => Ack.sync_bit = 3)
           /\ Len(src.out) + Len(dst.out) \in Nat
  <1>1. TypeOK
    BY InvTypeOK
  <1>2. Untouched \/ Connecting \/ Connected
    BY GuardLemma
  <1>3. FinId \in Nat /\ FinId >= 3
    BY ChunksAssumption DEF FinId
  <1>4. src.sync_bit \in {1, 3} /\ (src.sync_bit = 1 => src.term_bit = 0)
    <2>1. CASE Untouched
      BY <2>1 DEF Untouched, FreshSrc
    <2>2. CASE Connecting
      BY <2>2 DEF Connecting, Syn
    <2>3. CASE Connected
      BY <2>3 DEF Connected, Open, Window
    <2> QED BY <1>2, <2>1, <2>2, <2>3
  <1>5. /\ dst.sync_bit # 3 => dst.term_bit = 0
        /\ dst.sync_bit # 2 => dst.retrans_bit = 0
    <2>1. CASE Untouched
      BY <2>1 DEF Untouched, FreshDst
    <2>2. CASE Connecting
      BY <2>2 DEF Connecting, FreshDst, Waiting
    <2>3. CASE Connected
      BY <2>3 DEF Connected, Met, Waiting, Established
    <2> QED BY <1>2, <2>1, <2>2, <2>3
  <1>6. dst.recv_so_far \in 0..FinId /\ DOMAIN dst.recv_window \subseteq 0..FinId
    BY <1>1, <1>3 DEF TypeOK, Windowed
  <1>7. src.out # <<>> => Pkt.sync_bit \in {1, 3} /\ Pkt.id =< FinId
    <2> SUFFICES ASSUME src.out # <<>> PROVE Pkt.sync_bit \in {1, 3} /\ Pkt.id =< FinId
      OBVIOUS
    <2>1. Connecting \/ Connected
      BY GuardLemma
    <2>2. CASE Connecting
      BY <1>3, <2>2, PacketLemma, PacketFields
    <2>3. CASE Connected
      <3>1. PICK k \in 1..src.sent_so_far : Pkt = Packet(k)
        BY <2>3, PacketLemma
      <3>2. src.sent_so_far \in 2..FinId
        BY <2>3, PhaseLemma
      <3> QED BY <1>3, <3>1, <3>2, PacketFields
    <2> QED BY <2>1, <2>2, <2>3
  <1>8. dst.out # <<>> => Ack.sync_bit \in 2..3 /\ (Ack.FIN = 1 => Ack.sync_bit = 3)
    <2> SUFFICES ASSUME dst.out # <<>>
                 PROVE  Ack.sync_bit \in 2..3 /\ (Ack.FIN = 1 => Ack.sync_bit = 3)
      OBVIOUS
    <2>1. \E n \in 1..FinId : Ack \in AcksBy(n)
      <3>1. CASE Connecting
        <4>1. ~Connected
          BY <3>1, PhaseLemma
        <4>2. IsDst(dst) /\ Waiting(dst)
          BY <4>1, GuardLemma
        <4>3. Ack \in AcksBy(1)
          BY <4>2, WaitingTail DEF Ack
        <4> QED BY <1>3, <4>3
      <3>2. CASE Connected
        <4>1. CASE Waiting(dst)
          <5>1. IsDst(dst)
            BY <3>2, PhaseLemma
          <5>2. Ack \in AcksBy(1)
            BY <4>1, <5>1, WaitingTail DEF Ack
          <5> QED BY <1>3, <5>2
        <4>2. CASE ~Waiting(dst)
          <5>1. src.sent_so_far \in 2..FinId /\ IsDst(dst) /\ Established(dst, src.sent_so_far)
            BY <3>2, <4>2, PhaseLemma
          <5>2. Ack \in AcksBy(dst.recv_so_far)
            BY <5>1, ReceivedEstablished DEF Ack
          <5>3. dst.recv_so_far \in 1..FinId
            <6>1. /\ dst.recv_so_far \in Nat /\ dst.recv_so_far >= 2 /\ src.sent_so_far \in Nat
                  /\ dst.recv_so_far =< src.sent_so_far /\ src.sent_so_far =< FinId
              BY <5>1, EstablishedType
            <6> QED BY <1>3, <6>1
          <5> QED BY <5>2, <5>3
        <4> QED BY <4>1, <4>2
      <3> QED BY <3>1, <3>2, GuardLemma
    <2>2. PICK n \in 1..FinId : Ack \in AcksBy(n)
      BY <2>1
    <2>3. /\ Ack.ack_id \in 1..n /\ Ack.sync_bit = (IF Ack.ack_id = 1 THEN 2 ELSE 3)
          /\ Ack.FIN = 1 => Ack.ack_id = FinId
      BY <2>2 DEF AcksBy
    <2>4. Ack.FIN = 1 => Ack.ack_id # 1
      BY <1>3, <2>3
    <2>5. Ack.sync_bit \in {2, 3}
      BY <2>3
    <2> HIDE DEF Ack
    <2> QED BY <2>3, <2>4, <2>5
  <1>9. Len(src.out) + Len(dst.out) \in Nat
    <2>1. src.out \in Seq(Packets) /\ dst.out \in Seq(Acks)
      BY <1>1 DEF TypeOK
    <2>2. \A s : Len(s) \in Nat => \A r : Len(r) \in Nat => Len(s) + Len(r) \in Nat
      OBVIOUS
    <2>3. Len(src.out) \in Nat
      BY <2>1, LenProperties
    <2>4. Len(dst.out) \in Nat
      BY <2>1, LenProperties
    <2> QED BY <2>2, <2>3, <2>4
  <1> QED BY <1>4, <1>5, <1>6, <1>7, <1>8, <1>9

\* The destination's file, in each of the states it goes through.
LEMMA OutFileLemma ==
    ASSUME IInv
    PROVE  /\ dst.sync_bit # 3 => dst.out_file = <<>> /\ dst.recv_window = <<>>
                                   /\ dst.recv_so_far < 2 /\ dst.term_bit = 0
           /\ dst.sync_bit = 3 => /\ Connected /\ ~Waiting(dst)
                                  /\ Established(dst, src.sent_so_far)
                                  /\ dst.recv_so_far \in 2..FinId
                                  /\ dst.out_file = Copied(dst.recv_so_far)
<1>1. dst = FreshDst => /\ dst.sync_bit = 1 /\ dst.out_file = <<>> /\ dst.recv_window = <<>>
                        /\ dst.recv_so_far < 2 /\ dst.term_bit = 0
  BY DEF FreshDst
<1>2. Waiting(dst) => /\ dst.sync_bit = 2 /\ dst.out_file = <<>> /\ dst.recv_window = <<>>
                      /\ dst.recv_so_far < 2 /\ dst.term_bit = 0
  BY DEF Waiting
<1>3. Untouched \/ Connecting => dst = FreshDst \/ Waiting(dst) BY DEF Untouched, Connecting
<1>4. ASSUME Connected, ~Waiting(dst)
      PROVE  /\ Established(dst, src.sent_so_far) /\ dst.sync_bit = 3
             /\ dst.recv_so_far \in 2..FinId /\ dst.out_file = Copied(dst.recv_so_far)
  <2>1. Established(dst, src.sent_so_far) /\ dst.sync_bit = 3 /\ src.sent_so_far \in 2..FinId
    BY <1>4, PhaseLemma
  <2>2. dst.recv_so_far \in 2..FinId
    <3>1. /\ dst.recv_so_far \in Nat /\ dst.recv_so_far >= 2 /\ src.sent_so_far \in Nat
          /\ dst.recv_so_far =< src.sent_so_far /\ src.sent_so_far =< FinId /\ FinId \in Nat
      BY <2>1, EstablishedType
    <3> QED BY <3>1
  <2>3. dst.out_file = Copied(dst.recv_so_far) BY <2>1 DEF Established
  <2> QED BY <2>1, <2>2, <2>3
<1> QED BY <1>1, <1>2, <1>3, <1>4 DEF IInv

\* IInv implies Integrity.
LEMMA InvIntegrity == ASSUME IInv PROVE Integrity
<1>0. Chunks \in Nat /\ FinId = Chunks + 3 BY ChunksAssumption DEF FinId
<1>1. CASE dst.sync_bit = 3
  <2> DEFINE m == dst.recv_so_far
             n == IF m = FinId THEN Chunks ELSE m - 2
  <2>1. m \in 2..FinId /\ dst.out_file = File(n) BY <1>1, OutFileLemma DEF Copied
  <2>2. n \in 0..Chunks BY <1>0, <2>1
  <2> HIDE DEF n
  <2> QED BY <2>1, <2>2 DEF Integrity
<1>2. CASE dst.sync_bit # 3
  <2>1. dst.out_file = <<>> BY <1>2, OutFileLemma
  <2>2. 1..0 = {} /\ 0 \in 0..Chunks BY <1>0
  <2>3. File(0) = <<>> BY <2>2 DEF File
  <2> QED BY <2>1, <2>2, <2>3 DEF Integrity
<1> QED BY <1>1, <1>2

\* IInv implies CompleteAtTeardown.
LEMMA InvCompleteAtTeardown == ASSUME IInv PROVE CompleteAtTeardown
<1> SUFFICES ASSUME src.term_bit = 2 PROVE dst.out_file = File(Chunks)
  BY DEF CompleteAtTeardown
<1>1. Connected
  <2>1. ~Untouched BY DEF Untouched, FreshSrc
  <2>2. ~Connecting BY DEF Connecting, Syn
  <2> QED BY <2>1, <2>2 DEF IInv
<1>2. Established(dst, src.sent_so_far) /\ dst.term_bit = 2
  <2>1. ~Waiting(dst) BY <1>1, PhaseLemma
  <2> QED BY <1>1, <2>1, PhaseLemma
<1> QED BY <1>2 DEF Established, Closing, Copied

\* IInv implies AckedIsReceived.
LEMMA InvAckedIsReceived == ASSUME IInv PROVE AckedIsReceived
<1> SUFFICES ASSUME src.last_ack > 2
             PROVE  /\ src.last_ack =< dst.recv_so_far
                    /\ Len(dst.out_file) >= src.last_ack - 2 - (IF src.last_ack = FinId THEN 1 ELSE 0)
  BY DEF AckedIsReceived
<1>0. Chunks \in Nat /\ FinId = Chunks + 3 BY ChunksAssumption DEF FinId
<1>1. Connected
  <2>1. ~Untouched BY DEF Untouched, FreshSrc
  <2>2. ~Connecting BY DEF Connecting, Syn
  <2> QED BY <2>1, <2>2 DEF IInv
<1>2. ~Waiting(dst) BY <1>1, PhaseLemma
<1>3. src.last_ack =< dst.recv_so_far /\ dst.sync_bit = 3 BY <1>1, <1>2, PhaseLemma
<1>4. dst.recv_so_far \in 2..FinId /\ dst.out_file = Copied(dst.recv_so_far)
  BY <1>3, OutFileLemma
<1>5. src.last_ack \in Nat
  <2>1. Counts(src) BY <1>1 DEF Connected, Open, Window
  <2> QED BY <2>1, CountsType
<1> DEFINE m == dst.recv_so_far
           n == IF m = FinId THEN Chunks ELSE m - 2
<1>6. n \in Nat BY <1>0, <1>4
<1>7. Len(dst.out_file) = n
  <2>1. dst.out_file = File(n) BY <1>4 DEF Copied
  <2> HIDE DEF n
  <2> QED BY <1>6, <2>1 DEF File
<1> QED BY <1>0, <1>3, <1>4, <1>5, <1>7

\* IInv implies WindowIsUnacked.
LEMMA InvWindowIsUnacked == ASSUME IInv PROVE WindowIsUnacked
<1> SUFFICES ASSUME src.sync_bit = 3
             PROVE  /\ DOMAIN src.sent_window = src.last_ack+1 .. src.sent_so_far
                    /\ src.packets_in_window =
                          src.sent_so_far - src.last_ack - (IF src.term_bit = 0 THEN 0 ELSE 1)
  BY DEF WindowIsUnacked
<1>1. Window(src) /\ Counts(src) BY GuardLemma DEF Connected, Open, Window
<1>2. DOMAIN src.sent_window = src.last_ack+1 .. src.sent_so_far BY <1>1 DEF Window, Span
<1>3. src.last_ack \in Nat /\ src.sent_so_far \in Nat BY <1>1, CountsType
<1> QED BY <1>1, <1>2, <1>3 DEF Counts

\* IInv implies RetransTimer.
LEMMA InvRetransTimer == ASSUME IInv PROVE RetransTimer
<1>1. src.timers = IF src.retrans_bit = 0 THEN 0 ELSE 1
  <2>1. Untouched => src.timers = 0 /\ src.retrans_bit = 0 BY PhaseLemma
  <2>2. Connecting => src.timers = 1 /\ src.retrans_bit = 1 BY DEF Connecting, Syn
  <2>3. Connected => \/ src.timers = 1 /\ src.retrans_bit = 2
                     \/ src.timers = 0 /\ src.retrans_bit = 0
    BY DEF Connected, Open, Watched, Armed, Idle
  <2> QED BY <2>1, <2>2, <2>3 DEF IInv
<1>2. dst.timers = IF dst.retrans_bit = 0 THEN 0 ELSE 1
  <2>1. dst = FreshDst => dst.timers = 0 /\ dst.retrans_bit = 0 BY DEF FreshDst
  <2>2. Waiting(dst) => dst.timers = 1 /\ dst.retrans_bit = 1 BY DEF Waiting
  <2>3. Established(dst, src.sent_so_far) => dst.timers = 0 /\ dst.retrans_bit = 0
    BY DEF Established
  <2> QED BY <2>1, <2>2, <2>3 DEF IInv, Untouched, Connecting, Connected, Met
<1>3. ASSUME src.sync_bit = 3
      PROVE  /\ src.retrans_bit = IF DOMAIN src.sent_window = {} THEN 0 ELSE 2
             /\ src.retransmit_pkt = Oldest(src.sent_window)
  <2>1. Window(src) /\ Watched(src) /\ Counts(src) BY <1>3, GuardLemma DEF Connected, Open, Window
  <2> DEFINE a == src.last_ack
             n == src.sent_so_far
  <2>2. a \in Nat /\ n \in Nat /\ a =< n BY <2>1, CountsType
  <2>3. src.sent_window = Span(a, n) BY <2>1 DEF Window
  <2>4. DOMAIN src.sent_window = a+1..n BY <2>3 DEF Span
  <2>5. a < n <=> a+1..n # {} BY <2>2
  <2>6. Oldest(src.sent_window) = IF a < n THEN Packet(a + 1) ELSE NULL
    BY <2>2, <2>3, OldestOfSpan
  <2> QED BY <2>1, <2>4, <2>5, <2>6 DEF Watched, Armed, Idle
<1> QED BY <1>1, <1>2, <1>3 DEF RetransTimer

\* IInv implies HandshakeAgreement.
LEMMA InvHandshakeAgreement == ASSUME IInv PROVE HandshakeAgreement
<1>1. dst.sync_bit = 3 => src.sync_bit = 3 BY OutFileLemma, PhaseLemma
<1>2. src.sync_bit = 3 => dst.sync_bit # 1
  <2>1. Connected => dst.sync_bit = 2 \/ dst.sync_bit = 3 BY PhaseLemma
  <2> QED BY <2>1, GuardLemma
<1>3. dst.sync_bit = 2 => dst.out_file = <<>> /\ DOMAIN dst.recv_window = {} BY OutFileLemma
<1>4. dst.term_bit = 2 => dst.sync_bit = 3 /\ dst.recv_so_far = FinId
  <2>1. dst.term_bit = 2 => dst.sync_bit = 3 BY OutFileLemma
  <2>2. Established(dst, src.sent_so_far) => (dst.term_bit = 2 => dst.recv_so_far = FinId)
    BY DEF Established, Closing
  <2> QED BY <2>1, <2>2, OutFileLemma
<1>5. src.term_bit = 2 => dst.term_bit = 2
  <2>1. Untouched => src.term_bit = 0 BY DEF Untouched, FreshSrc
  <2>2. Connecting => src.term_bit = 0 BY DEF Connecting, Syn
  <2>3. Connected => (src.term_bit = 2 => dst.term_bit = 2) BY PhaseLemma
  <2> QED BY <2>1, <2>2, <2>3 DEF IInv
<1> QED BY <1>1, <1>2, <1>3, <1>4, <1>5 DEF HandshakeAgreement

---------------------------------------------------------------------------
(* The theorems.                                                           *)

\* Every member of both hosts keeps its type; no timer is armed twice and none is
\* cancelled that is not armed, cancel_timer()'s ASSERT(false).
THEOREM TypeCorrect == Spec => []TypeOK
BY Inductive, InvTypeOK, PTL

\* recv_window_sync() writes each chunk of the file once and in order.
THEOREM PrefixCopied == Spec => []Integrity
BY Inductive, InvIntegrity, PTL

\* When the source reports the flow torn down, the copy is complete.
THEOREM CompleteWhenTornDown == Spec => []CompleteAtTeardown
BY Inductive, InvCompleteAtTeardown, PTL

\* What sent_window_sync() erases from sent_window the destination has written.
THEOREM AcksAreTrue == Spec => []AckedIsReceived
BY Inductive, InvAckedIsReceived, PTL

\* sent_window and packets_in_window hold exactly what is unacknowledged.
THEOREM WindowCounts == Spec => []WindowIsUnacked
BY Inductive, InvWindowIsUnacked, PTL

\* One timer is armed while something awaits an answer, and none otherwise, and
\* handle_timer() never resends the NULL packet.
THEOREM OneTimerArmed == Spec => []RetransTimer
BY Inductive, InvRetransTimer, PTL

\* The two ends agree on the state of the connection.
THEOREM EndsAgree == Spec => []HandshakeAgreement
BY Inductive, InvHandshakeAgreement, PTL

---------------------------------------------------------------------------
(* Fdtp implements FileTransfer.                                           *)

\* A flow that is torn down has had all of its packets acknowledged.
Closed == src.term_bit = 2 => src.last_ack = FinId

\* The chunks at a destination that has counted the first n packets.
Copies(n) == IF n < 2 THEN 0 ELSE IF n = FinId THEN Chunks ELSE n - 2

\* What FileTransfer needs to know of a state.
Facts ==
    /\ src.dest_map \in BOOLEAN
    /\ src.chunk \in 0..Chunks /\ src.last_ack \in 0..FinId
    /\ dst.recv_so_far \in 0..FinId
    /\ dst.out_file = File(Copies(dst.recv_so_far))
    /\ Copies(dst.recv_so_far) =< src.chunk
    /\ Acked =< Copies(dst.recv_so_far)
    /\ src.dest_map => /\ src.chunk = 0 /\ src.last_ack = 0
                       /\ dst.recv_so_far = 0 /\ src.term_bit = 0
    /\ Closed

LEMMA NoChunks == File(0) = <<>>
<1>1. 1..0 = {} OBVIOUS
<1> QED BY <1>1 DEF File

LEMMA InvFacts == ASSUME IInv, Closed PROVE Facts
<1>0. Chunks \in Nat /\ FinId = Chunks + 3 BY ChunksAssumption DEF FinId
<1> DEFINE n == dst.recv_so_far
<1> SUFFICES /\ src.dest_map \in BOOLEAN
             /\ src.chunk \in 0..Chunks /\ src.last_ack \in 0..FinId /\ n \in 0..FinId
             /\ dst.out_file = File(Copies(n)) /\ Copies(n) =< src.chunk /\ Acked =< Copies(n)
             /\ src.dest_map => src.chunk = 0 /\ src.last_ack = 0 /\ n = 0 /\ src.term_bit = 0
  BY DEF Facts
<1>1. CASE Untouched
  <2>1. PICK dup \in {0, 1} : src = FreshSrc(dup) BY <1>1 DEF Untouched
  <2>2. src.dest_map = TRUE /\ src.chunk = 0 /\ src.last_ack = 0 /\ src.term_bit = 0
    BY <2>1 DEF FreshSrc
  <2>3. n = 0 /\ dst.out_file = <<>> BY <1>1 DEF Untouched, FreshDst
  <2> HIDE DEF n
  <2>4. Copies(n) = 0 /\ Acked = 0 BY <2>2, <2>3 DEF Copies, Acked
  <2>5. dst.out_file = File(Copies(n)) BY <2>3, <2>4, NoChunks
  <2>6. src.dest_map \in BOOLEAN BY <2>2
  <2>7. src.chunk \in 0..Chunks /\ src.last_ack \in 0..FinId /\ n \in 0..FinId BY <1>0, <2>2, <2>3
  <2> QED BY <2>2, <2>3, <2>4, <2>5, <2>6, <2>7
<1>2. CASE Connecting
  <2>1. src.dest_map = FALSE /\ src.chunk = 0 /\ src.last_ack = 0 BY <1>2 DEF Connecting, Syn
  <2>2. n \in {0, 1} /\ dst.out_file = <<>> BY <1>2 DEF Connecting, FreshDst, Waiting
  <2> HIDE DEF n
  <2>3. Copies(n) = 0 /\ Acked = 0 BY <2>1, <2>2 DEF Copies, Acked
  <2>4. dst.out_file = File(Copies(n)) BY <2>2, <2>3, NoChunks
  <2>5. src.chunk \in 0..Chunks /\ src.last_ack \in 0..FinId /\ n \in 0..FinId BY <1>0, <2>1, <2>2
  <2>6. Copies(n) =< src.chunk /\ Acked =< Copies(n) BY <2>1, <2>3
  <2> QED BY <2>1, <2>4, <2>5, <2>6
<1>3. CASE Connected
  <2>1. Counts(src) /\ src.dest_map = FALSE BY <1>3 DEF Connected, Open, Window
  <2>2. /\ src.chunk \in 0..Chunks /\ src.last_ack \in Nat /\ src.last_ack >= 2
        /\ src.sent_so_far \in Nat /\ src.last_ack =< src.sent_so_far /\ src.sent_so_far =< FinId
        /\ src.sent_so_far = src.chunk + 2 \/ src.chunk = Chunks
    BY <2>1, CountsType DEF Counts
  <2>3. src.last_ack \in 0..FinId BY <1>0, <2>2
  <2>4. CASE Waiting(dst)
    <3>1. n = 1 /\ dst.out_file = <<>> BY <2>4 DEF Waiting
    <3>2. src.last_ack = 2 BY <1>3, <2>4, PhaseLemma
    <3> HIDE DEF n
    <3>3. Copies(n) = 0 /\ Acked = 0 BY <3>1, <3>2 DEF Copies, Acked
    <3>4. n \in 0..FinId /\ Copies(n) =< src.chunk /\ Acked =< Copies(n) BY <1>0, <2>2, <3>1, <3>3
    <3>5. dst.out_file = File(Copies(n)) BY <3>1, <3>3, NoChunks
    <3> QED BY <2>1, <2>2, <2>3, <3>4, <3>5
  <2>5. CASE ~Waiting(dst)
    <3>1. /\ Established(dst, src.sent_so_far) /\ src.last_ack =< n
          /\ src.sent_so_far \in 2..FinId
      BY <1>3, <2>5, PhaseLemma
    <3>2. n \in Nat /\ n >= 2 /\ n =< src.sent_so_far
      BY <3>1, EstablishedType
    <3>3. dst.out_file = File(Copies(n))
      <4>1. dst.out_file = Copied(n) BY <3>1 DEF Established
      <4>2. ~(n < 2) BY <3>2
      <4> QED BY <4>1, <4>2 DEF Copied, Copies
    <3> HIDE DEF n
    <3>4. Copies(n) =< src.chunk BY <1>0, <2>2, <3>2 DEF Copies
    <3>5. Acked =< Copies(n) BY <1>0, <2>2, <3>1, <3>2 DEF Copies, Acked
    <3>6. n \in 0..FinId BY <1>0, <2>2, <3>2
    <3> QED BY <2>1, <2>2, <2>3, <3>3, <3>4, <3>5, <3>6
  <2> QED BY <2>4, <2>5
<1> QED BY <1>1, <1>2, <1>3 DEF IInv

LEMMA CopiesGrow ==
    ASSUME NEW m \in 0..FinId, NEW n \in 0..FinId, m =< n
    PROVE  Copies(m) \in Nat /\ Copies(n) \in Nat /\ Copies(m) =< Copies(n) /\ Copies(n) =< Chunks
BY ChunksAssumption DEF Copies, FinId

LEMMA FileLen == ASSUME NEW n \in Nat PROVE Len(File(n)) = n
BY DEF File

\* An arrival is a Deliver step, or none.
LEMMA ArrivesDelivers == ASSUME Facts, Facts', Arrives PROVE [Abstract!Next]_(Abstract!vars)
<1> DEFINE m == Copies(dst.recv_so_far)
           n == Copies(dst'.recv_so_far)
<1>1. /\ dst.out_file = File(m) /\ dst'.out_file = File(n)
      /\ m \in Nat /\ n \in Nat /\ m =< n /\ n =< Chunks
      /\ n =< src.chunk /\ src.chunk \in Nat
  <2>1. dst.recv_so_far \in 0..FinId /\ dst'.recv_so_far \in 0..FinId /\ dst.recv_so_far =< dst'.recv_so_far
    BY ChunksAssumption DEF Facts, Arrives, FinId
  <2>2. m \in Nat /\ n \in Nat /\ m =< n /\ n =< Chunks BY <2>1, CopiesGrow
  <2> HIDE DEF m, n
  <2>3. dst.out_file = File(m) /\ dst'.out_file = File(n) /\ n =< src'.chunk BY DEF Facts, m, n
  <2> QED BY <2>2, <2>3 DEF Facts, Arrives
<1>2. Phase' = Phase /\ src'.chunk = src.chunk /\ Acked' = Acked BY DEF Arrives, Phase, Acked
<1>3. CASE m = n
  <2> HIDE DEF m, n
  <2> QED BY <1>1, <1>2, <1>3 DEF Abstract!vars
<1>4. CASE m # n
  <2>1. Phase = "open"
    <3>1. src.dest_map => src'.dest_map /\ dst.recv_so_far = 0 /\ dst'.recv_so_far = 0
      BY DEF Facts, Arrives
    <3>2. src.term_bit = 2 => m = Chunks
      <4>1. src.term_bit = 2 => Acked = Chunks
        BY ChunksAssumption DEF Facts, Closed, Acked, FinId
      <4>2. Acked =< m BY DEF Facts
      <4> HIDE DEF m, n
      <4> QED BY <1>1, <4>1, <4>2, ChunksAssumption
    <3>3. src.term_bit # 2
      <4> HIDE DEF m, n
      <4> QED BY <1>1, <1>4, <3>2
    <3> QED BY <1>4, <3>1, <3>3 DEF Phase
  <2> HIDE DEF m, n
  <2>2. Len(dst.out_file) = m BY <1>1, FileLen
  <2>3. n \in Len(dst.out_file)+1..src.chunk BY <1>1, <1>4, <2>2
  <2>4. Abstract!File(n) = File(n) BY DEF Abstract!File, File
  <2> QED BY <1>1, <1>2, <2>1, <2>3, <2>4 DEF Abstract!Next, Abstract!Deliver
<1> QED BY <1>3, <1>4

\* The source's ack handling is a Progress step, or none once the flow is closed.
LEMMA LearnsProgresses == ASSUME Facts, Facts', Learns PROVE [Abstract!Next]_(Abstract!vars)
<1>0. Chunks \in Nat /\ FinId = Chunks + 3 BY ChunksAssumption DEF FinId
<1>1. dst'.out_file = dst.out_file BY DEF Facts, Learns
<1>2. Phase' = Phase BY DEF Learns, Phase
<1>3. /\ src.chunk \in 0..Chunks /\ src'.chunk \in src.chunk..Chunks
      /\ src.last_ack \in 0..FinId /\ src'.last_ack \in src.last_ack..FinId
  BY <1>0 DEF Facts, Learns
<1>4. Acked \in Nat /\ Acked' \in Nat /\ Acked =< Acked' /\ Acked' =< Chunks
  BY <1>0, <1>3 DEF Acked
<1>5. CASE src.term_bit = 2
  <2>1. src.last_ack = FinId /\ src'.last_ack = FinId BY <1>5 DEF Facts, Closed, Learns
  <2>2. Acked = Chunks /\ Acked' = Chunks BY <1>0, <2>1 DEF Acked
  <2>3. src.chunk = Chunks
    <3>1. /\ Copies(dst.recv_so_far) \in Nat /\ Acked =< Copies(dst.recv_so_far)
          /\ Copies(dst.recv_so_far) =< src.chunk
      <4>1. dst.recv_so_far \in 0..FinId BY DEF Facts
      <4>2. dst.recv_so_far =< dst.recv_so_far BY <4>1
      <4> QED BY <4>1, <4>2, CopiesGrow DEF Facts
    <3> QED BY <1>0, <1>3, <2>2, <3>1
  <2>4. src'.chunk = src.chunk BY <1>0, <1>3, <2>3
  <2> QED BY <1>1, <1>2, <2>2, <2>4 DEF Abstract!vars
<1>6. CASE src.term_bit # 2
  <2>1. Phase = "open" BY <1>6 DEF Phase, Learns
  <2>2. Acked' \in Acked..Len(dst.out_file)
    <3>1. dst'.recv_so_far \in 0..FinId BY DEF Facts
    <3>2. dst'.recv_so_far =< dst'.recv_so_far BY <3>1
    <3>3. Copies(dst'.recv_so_far) \in Nat BY <3>1, <3>2, CopiesGrow
    <3>4. dst'.out_file = File(Copies(dst'.recv_so_far)) /\ Acked' =< Copies(dst'.recv_so_far)
      BY DEF Facts
    <3>5. Len(dst.out_file) = Copies(dst'.recv_so_far) BY <1>1, <3>3, <3>4, FileLen
    <3> QED BY <1>4, <3>3, <3>4, <3>5
  <2> QED BY <1>1, <1>2, <1>3, <2>1, <2>2 DEF Abstract!Next, Abstract!Progress
<1> QED BY <1>5, <1>6

\* The FIN-ACK's arrival is the Close step.
LEMMA ClosesCloses == ASSUME Facts, Facts', Closes PROVE [Abstract!Next]_(Abstract!vars)
<1>0. Chunks \in Nat /\ FinId = Chunks + 3 BY ChunksAssumption DEF FinId
<1>1. dst'.out_file = dst.out_file BY DEF Facts, Closes
<1>2. Phase = "open" /\ Phase' = "closed" BY DEF Closes, Phase
<1>3. Acked' = Chunks BY <1>0 DEF Acked, Closes
<1>4. dst'.out_file = File(Chunks)
  <2>1. dst'.recv_so_far \in 0..FinId BY DEF Facts
  <2>2. dst'.recv_so_far =< dst'.recv_so_far BY <2>1
  <2>3. Copies(dst'.recv_so_far) \in Nat /\ Copies(dst'.recv_so_far) =< Chunks BY <2>1, <2>2, CopiesGrow
  <2>4. Copies(dst'.recv_so_far) = Chunks BY <1>0, <1>3, <2>3 DEF Facts
  <2> QED BY <2>4 DEF Facts
<1>5. Abstract!File(Chunks) = File(Chunks) BY DEF Abstract!File, File
<1>6. src'.chunk = src.chunk BY DEF Closes
<1> QED BY <1>1, <1>2, <1>3, <1>4, <1>5, <1>6 DEF Abstract!Next, Abstract!Close

\* The start of the flow is the Open step.
LEMMA OpensOpens == ASSUME Facts, Facts', Opens PROVE [Abstract!Next]_(Abstract!vars)
<1>1. Phase = "idle" /\ Phase' = "open" BY DEF Opens, Phase
<1>2. src.chunk = 0 /\ src'.chunk = 0 BY DEF Opens, Facts
<1>3. Acked = 0 /\ Acked' = 0 BY DEF Opens, Facts, Acked
<1>4. dst'.out_file = dst.out_file
  <2>1. dst.recv_so_far = 0 /\ dst'.recv_so_far = 0 BY DEF Opens, Facts
  <2> QED BY <2>1 DEF Facts
<1> QED BY <1>1, <1>2, <1>3, <1>4 DEF Abstract!Next, Abstract!Open

LEMMA ClosedStep == ASSUME Facts, Arrives \/ Learns \/ Closes \/ Opens, src'.last_ack \in 0..FinId PROVE Closed'
<1>1. CASE Arrives BY <1>1 DEF Facts, Closed, Arrives
<1>2. CASE Learns BY <1>2, ChunksAssumption DEF Facts, Closed, Learns, FinId
<1>3. CASE Closes BY <1>3 DEF Closed, Closes
<1>4. CASE Opens BY <1>4 DEF Closed, Opens
<1> QED BY <1>1, <1>2, <1>3, <1>4

\* Each flow is a file transfer: whatever is lost, repeated or late, the hosts
\* do nothing that the transfer of the file in order does not allow.
THEOREM FlowsTransferFiles == Spec => ImplementsFileTransfer
<1>1. Init => Closed /\ Abstract!Init
  <2> SUFFICES ASSUME Init PROVE Closed /\ Abstract!Init
    OBVIOUS
  <2>1. PICK dup \in {0, 1} : src = FreshSrc(dup) BY DEF Init
  <2>2. src.dest_map = TRUE /\ src.chunk = 0 /\ src.last_ack = 0 /\ src.term_bit = 0
    BY <2>1 DEF FreshSrc
  <2>3. dst.out_file = <<>> BY DEF Init, FreshDst
  <2> QED BY <2>2, <2>3 DEF Closed, Abstract!Init, Phase, Acked
<1>2. IInv /\ Closed => Facts BY InvFacts
<1>3. IInv /\ TypeOK' /\ Facts /\ [Next]_vars => Closed'
  BY NextInv, ClosedStep DEF TypeOK
<1>4. IInv /\ Facts /\ Facts' /\ [Next]_vars => [Abstract!Next]_(Abstract!vars)
  BY NextInv, ArrivesDelivers, LearnsProgresses, ClosesCloses, OpensOpens
<1>5. Spec => []Facts /\ []IInv
  BY <1>1, <1>2, <1>3, Inductive, TypeCorrect, PTL DEF Spec
<1> QED BY <1>1, <1>4, <1>5, PTL DEF Spec, ImplementsFileTransfer, Abstract!Spec

---------------------------------------------------------------------------
(* Nothing that is acknowledged is sent again.                             *)

\* Channel q is channel o with packets behind it that ack a does not cover;
\* the handshake's ACK is covered by none.
Adds(o, q, a) == /\ Len(o) \in Nat /\ Len(q) \in Nat /\ Len(o) =< Len(q)
                 /\ \A k \in 1..Len(o) : q[k] = o[k]
                 /\ \A k \in Len(o)+1..Len(q) : q[k].id = 2 \/ q[k].id > a

\* Nothing is sent; one packet is; many are; one thing after the other.
LEMMA AddsNone == ASSUME NEW S, NEW o \in Seq(S), NEW a PROVE Adds(o, o, a)
<1>1. Len(o) \in Nat OBVIOUS
<1> QED BY <1>1 DEF Adds

LEMMA AddsOne ==
    ASSUME NEW S, NEW o \in Seq(S), NEW p \in S, NEW a, p.id = 2 \/ p.id > a
    PROVE  Adds(o, Append(o, p), a)
<1>1. Len(o) \in Nat OBVIOUS
<1>2. /\ Len(Append(o, p)) = Len(o) + 1 /\ Append(o, p)[Len(o) + 1] = p
      /\ \A k \in 1..Len(o) : Append(o, p)[k] = o[k]
  BY AppendProperties
<1> DEFINE q == Append(o, p)
<1> HIDE DEF q
<1>3. \A k \in Len(o)+1..Len(q) : k = Len(o) + 1 BY <1>1, <1>2 DEF q
<1> QED BY <1>1, <1>2, <1>3 DEF Adds, q

LEMMA AddsMany ==
    ASSUME NEW S, NEW o \in Seq(S), NEW s \in Seq(S), NEW a,
           \A j \in 1..Len(s) : s[j].id > a
    PROVE  Adds(o, o \o s, a)
<1> DEFINE q == o \o s
<1>1. Len(o) \in Nat /\ Len(s) \in Nat OBVIOUS
<1>2. Len(q) = Len(o) + Len(s) BY ConcatProperties
<1>3. \A k \in 1..Len(o) : q[k] = o[k] BY <1>1, <1>2, ConcatProperties
<1>4. \A k \in Len(o)+1..Len(q) : k - Len(o) \in 1..Len(s) /\ q[k] = s[k - Len(o)]
  BY <1>1, <1>2, ConcatProperties
<1> HIDE DEF q
<1> QED BY <1>1, <1>2, <1>3, <1>4 DEF Adds, q

LEMMA AddsBoth ==
    ASSUME NEW o, NEW q, NEW r, NEW a, Adds(o, q, a), Adds(q, r, a)
    PROVE  Adds(o, r, a)
<1>1. Len(o) \in Nat /\ Len(q) \in Nat /\ Len(r) \in Nat /\ Len(o) =< Len(q) /\ Len(q) =< Len(r)
  BY DEF Adds
<1>2. \A k \in 1..Len(o) : r[k] = o[k] BY <1>1 DEF Adds
<1>3. \A k \in Len(o)+1..Len(r) : r[k].id = 2 \/ r[k].id > a
  <2> SUFFICES ASSUME NEW k \in Len(o)+1..Len(r) PROVE r[k].id = 2 \/ r[k].id > a
    OBVIOUS
  <2>1. CASE k =< Len(q)
    <3>1. k \in 1..Len(q) /\ k \in Len(o)+1..Len(q) BY <1>1, <2>1
    <3> QED BY <3>1 DEF Adds
  <2>2. CASE k > Len(q)
    <3>1. k \in Len(q)+1..Len(r) BY <1>1, <2>2
    <3> QED BY <3>1 DEF Adds
  <2> QED BY <1>1, <2>1, <2>2
<1> QED BY <1>1, <1>2, <1>3 DEF Adds

\* What send() appends.
LEMMA SendAdds ==
    ASSUME NEW h, NEW S, NEW a, NEW p \in S, IsSrc(h), h.out \in Seq(S), p.id = 2 \/ p.id > a
    PROVE  Send(h, p).out = Append(h.out, p) /\ Adds(h.out, Send(h, p).out, a)
<1> DEFINE o == Append(h.out, p)
<1>1. Send(h, p) = [h EXCEPT !.out = o] BY DEF Send
<1> HIDE DEF o
<1>2. Send(h, p).out = o BY <1>1 DEF IsSrc, SrcFields
<1> QED BY <1>2, AddsOne DEF o

\* The oldest packet outstanding is not acknowledged.
LEMMA OldestAdds ==
    ASSUME NEW h, IsSrc(h), Window(h), h.last_ack < h.sent_so_far
    PROVE  Adds(h.out, Send(h, Packet(h.last_ack + 1)).out, h.last_ack)
<1>1. Counts(h) /\ h.out \in Seq(SentBy(h.sent_so_far)) BY DEF Window
<1>2. h.last_ack \in Nat BY <1>1, CountsType
<1>3. Packet(h.last_ack + 1) \in SentBy(h.sent_so_far) BY OldestIsSent
<1>4. Packet(h.last_ack + 1).id > h.last_ack BY <1>2 DEF Packet
<1> QED BY <1>1, <1>3, <1>4, SendAdds

\* The loop of send_file() sends packets with new numbers.
LEMMA BurstAdds ==
    ASSUME NEW h, IsSrc(h), Window(h)
    PROVE  Adds(h.out, Burst(h).out, h.last_ack)
<1> DEFINE n == Room(h)
           s == h.sent_so_far
           new == [i \in s+1..s+n |-> SrcPacket(h, s + (i - s), 0, h.chunk + (i - s))]
           more == [j \in 1..n |-> SrcPacket(h, s + j, 0, h.chunk + j)]
           window == Insert(h.sent_window, new)
           sent == h.out \o more
           w == h.packets_in_window + n
           c == h.chunk + n
           b == [h EXCEPT !.chunk = c, !.sent_so_far = s + n,
                          !.packets_in_window = w, !.sent_window = window, !.out = sent]
           T == SentBy(s) \cup {more[j] : j \in 1..n}
<1>1. Counts(h) /\ h.out \in Seq(SentBy(s)) BY DEF Window
<1>2. n \in Nat /\ s \in Nat /\ h.last_ack \in Nat /\ h.last_ack =< s
  BY <1>1, RoomLemma, CountsType, ChunksAssumption
<1>3. Burst(h) = b BY DEF Burst
<1> HIDE DEF n, window, w, c
<1>4. b.out = sent
  <2> HIDE DEF sent, s
  <2> QED BY DEF IsSrc, SrcFields
<1>5. \A j \in 1..n : more[j].id > h.last_ack BY <1>2 DEF SrcPacket
<1>6. more \in Seq(T) /\ Len(more) = n
  <2>1. \A j \in 1..n : more[j] \in T OBVIOUS
  <2> HIDE DEF T
  <2> QED BY <1>2, <2>1, SeqDef
<1>7. h.out \in Seq(T)
  <2>1. SentBy(s) \subseteq T OBVIOUS
  <2> HIDE DEF T
  <2> QED BY <1>1, <2>1, SeqMonotonic
<1> HIDE DEF T, more
<1>8. Adds(h.out, sent, h.last_ack) BY <1>5, <1>6, <1>7, AddsMany
<1> HIDE DEF sent, b
<1> QED BY <1>3, <1>4, <1>8

\* The FIN has a new number.
LEMMA TerminateAdds ==
    ASSUME NEW h, IsSrc(h), Window(h)
    PROVE  Adds(h.out, Terminate(h).out, h.last_ack)
<1> DEFINE s == h.sent_so_far
           fin == SrcPacket(h, s + 1, 1, 0)
           window == Insert(h.sent_window, [i \in {fin.id} |-> fin])
           sent == Append(h.out, fin)
           t == [[h EXCEPT !.out = sent] EXCEPT !.term_bit = 1, !.sent_so_far = s + 1, !.sent_window = window]
           T == SentBy(s) \cup {fin}
<1>1. Counts(h) /\ h.out \in Seq(SentBy(s)) BY DEF Window
<1>2. fin.id > h.last_ack
  <2>1. s \in Nat /\ h.last_ack \in Nat /\ h.last_ack =< s BY <1>1, CountsType
  <2>2. fin.id = s + 1 BY DEF SrcPacket
  <2> QED BY <2>1, <2>2
<1>3. Terminate(h) = t BY DEF Terminate, Send, SrcPacket
<1> HIDE DEF window, sent
<1>4. t.out = sent BY DEF IsSrc, SrcFields
<1>5. h.out \in Seq(T) /\ fin \in T
  <2>1. SentBy(s) \subseteq T /\ fin \in T OBVIOUS
  <2> HIDE DEF T, fin
  <2> QED BY <1>1, <2>1, SeqMonotonic
<1> HIDE DEF fin, T, t
<1>6. Adds(h.out, Append(h.out, fin), h.last_ack) BY <1>2, <1>5, AddsOne
<1> QED BY <1>3, <1>4, <1>6 DEF sent

\* send_file() sends new packets only.
LEMMA SendFileAdds ==
    ASSUME NEW h, Sendable(h)
    PROVE  Adds(h.out, SendFile(h).out, h.last_ack)
<1> DEFINE b == Burst(h)
           t == IF MayTerminate(b) THEN Terminate(b) ELSE b
           p == Oldest(t.sent_window)
           g == [t EXCEPT !.retransmit_pkt = p]
           w == IF g.retrans_bit = 0 /\ g.retransmit_pkt # NULL THEN Arm(g, 2) ELSE g
<1>1. IsSrc(h) /\ Window(h) BY DEF Sendable
<1>2. IsSrc(b) /\ Window(b) /\ b.last_ack = h.last_ack
  <2>1. IsSrc(b) /\ Window(b) /\ \A f \in SrcFields \ Bursted : b[f] = h[f] BY <1>1, BurstLemma
  <2> HIDE DEF b
  <2> QED BY <2>1 DEF SrcFields, Bursted
<1>3. Adds(h.out, b.out, h.last_ack) BY <1>1, BurstAdds
<1>4. SendFile(h) = w BY DEF SendFile, WatchOldest
<1> HIDE DEF b
<1>5. IsSrc(t) /\ Adds(h.out, t.out, h.last_ack)
  <2>1. CASE MayTerminate(b)
    <3>1. IsSrc(Terminate(b)) BY <1>2, <2>1, TerminateLemma
    <3>2. Adds(b.out, Terminate(b).out, h.last_ack) BY <1>2, TerminateAdds
    <3>3. t = Terminate(b) BY <2>1
    <3> HIDE DEF t
    <3> QED BY <1>3, <3>1, <3>2, <3>3, AddsBoth
  <2>2. CASE ~MayTerminate(b)
    <3>1. t = b BY <2>2
    <3> HIDE DEF t
    <3> QED BY <1>2, <1>3, <3>1
  <2> QED BY <2>1, <2>2
<1> HIDE DEF t, p
<1>6. IsSrc(g) /\ g.out = t.out BY <1>5 DEF IsSrc, SrcFields
<1> HIDE DEF g
<1>7. Arm(g, 2).out = g.out BY <1>6 DEF Arm, IsSrc, SrcFields
<1>8. w.out = g.out BY <1>7
<1> HIDE DEF w
<1> QED BY <1>4, <1>5, <1>6, <1>8

\* A repeated ack sends the oldest packet, if anything.
LEMMA DuplicateAckAdds ==
    ASSUME NEW h, Open(h)
    PROVE  Adds(h.out, DuplicateAck(h).out, h.last_ack)
<1> DEFINE half == (h.window_size + 1) \div 2
           g == [h EXCEPT !.dup_ack_count = 0, !.window_size = half]
           d == [h EXCEPT !.dup_ack_count = 1]
<1>1. IsSrc(h) /\ Window(h) /\ Watched(h) /\ h.out \in Seq(SentBy(h.sent_so_far)) BY DEF Open, Window
<1>2. DuplicateAck(h) = IF h.dup_ack_count = 0 THEN d
                        ELSE IF g.retrans_bit = 2 /\ g.retrans
                             THEN Send(Arm(Cancel(g), 2), g.retransmit_pkt) ELSE g
  BY DEF DuplicateAck
<1> HIDE DEF half
<1>3. d.out = h.out BY <1>1 DEF IsSrc, SrcFields
<1>4. IsSrc(g) /\ \A f \in SrcFields \ {"dup_ack_count", "window_size"} : g[f] = h[f]
  BY <1>1 DEF IsSrc, SrcFields
<1> HIDE DEF g, d
<1>5. /\ g.out = h.out /\ g.retrans = h.retrans /\ g.retrans_bit = h.retrans_bit
      /\ g.retransmit_pkt = h.retransmit_pkt
  BY <1>4 DEF SrcFields
<1>6. Adds(h.out, h.out, h.last_ack) BY <1>1, AddsNone
<1>7. ASSUME g.retrans_bit = 2, g.retrans
      PROVE  Adds(h.out, Send(Arm(Cancel(g), 2), g.retransmit_pkt).out, h.last_ack)
  <2> DEFINE c == [g EXCEPT !.retrans = FALSE, !.retrans_bit = 0, !.timers = g.timers - 1]
             a == [c EXCEPT !.retrans = TRUE, !.retrans_bit = 2, !.timers = c.timers + 1]
             p == Packet(h.last_ack + 1)
  <2>1. h.last_ack < h.sent_so_far /\ h.retransmit_pkt = p
    BY <1>1, <1>5, <1>7 DEF Watched, Idle
  <2>2. Cancel(g) = c BY <1>7 DEF Cancel
  <2>3. Arm(c, 2) = a BY DEF Arm
  <2>4. IsSrc(c) /\ c.out = g.out BY <1>4 DEF IsSrc, SrcFields
  <2> HIDE DEF c
  <2>5. IsSrc(a) /\ a.out = g.out BY <2>4 DEF IsSrc, SrcFields
  <2> HIDE DEF a
  <2>6. p \in SentBy(h.sent_so_far) BY <1>1, <2>1, OldestIsSent
  <2>7. p.id > h.last_ack
    <3>1. Counts(h) BY <1>1 DEF Window
    <3> QED BY <3>1, CountsType DEF Packet
  <2> HIDE DEF p
  <2>8. Adds(a.out, Send(a, p).out, h.last_ack) BY <1>1, <1>5, <2>5, <2>6, <2>7, SendAdds
  <2> QED BY <1>5, <2>1, <2>2, <2>3, <2>5, <2>8
<1> QED BY <1>2, <1>3, <1>5, <1>6, <1>7

\* After a new ack the oldest packet left is sent, if anything.
LEMMA ResendOldestAdds ==
    ASSUME NEW h, IsSrc(h), Window(h)
    PROVE  Adds(h.out, ResendOldest(h).out, h.last_ack)
<1> DEFINE p == Oldest(h.sent_window)
           g == [h EXCEPT !.retransmit_pkt = p]
           e == IF p.FIN = 1 THEN g ELSE Send(g, p)
<1>1. Counts(h) /\ h.last_ack \in Nat /\ h.sent_so_far \in Nat /\ h.out \in Seq(SentBy(h.sent_so_far))
  BY CountsType DEF Window
<1>2. p = IF h.last_ack < h.sent_so_far THEN Packet(h.last_ack + 1) ELSE NULL
  BY <1>1, OldestOfSpan DEF Window
<1>3. ResendOldest(h) = IF g.retrans_bit # 0 \/ p = NULL THEN g ELSE Arm(e, 2) BY DEF ResendOldest
<1> HIDE DEF p
<1>4. IsSrc(g) /\ g.out = h.out BY DEF IsSrc, SrcFields
<1> HIDE DEF g
<1>5. Adds(h.out, h.out, h.last_ack) BY <1>1, AddsNone
<1>6. ASSUME p # NULL PROVE IsSrc(e) /\ Adds(h.out, e.out, h.last_ack)
  <2>1. p \in SentBy(h.sent_so_far) BY <1>2, <1>6, OldestIsSent
  <2>2. p.id > h.last_ack BY <1>1, <1>2, <1>6 DEF Packet
  <2>3. Adds(g.out, Send(g, p).out, h.last_ack) BY <1>1, <1>4, <2>1, <2>2, SendAdds
  <2> DEFINE o == Append(g.out, p)
  <2>4. Send(g, p) = [g EXCEPT !.out = o] BY DEF Send
  <2> HIDE DEF o
  <2>5. IsSrc(Send(g, p)) BY <1>4, <2>4 DEF IsSrc, SrcFields
  <2> QED BY <1>4, <1>5, <2>3, <2>5
<1> HIDE DEF e
<1>7. ASSUME p # NULL PROVE Arm(e, 2).out = e.out BY <1>6, <1>7 DEF Arm, IsSrc, SrcFields
<1> QED BY <1>3, <1>4, <1>5, <1>6, <1>7

\* A new ack covers nothing that it makes the source send.
LEMMA NewAckAdds ==
    ASSUME NEW h, Open(h), NEW ack \in h.last_ack+1 .. h.sent_so_far, NEW w \in Nat \ {0}
    PROVE  Adds(h.out, NewAck(h, ack, w).out, ack)
<1> DEFINE d == [h EXCEPT !.dup_ack_count = 0, !.window_size = w]
           c == [d EXCEPT !.retrans = FALSE, !.retrans_bit = 0, !.timers = d.timers - 1]
           k == Acknowledge(c, ack)
<1>0. Counts(h) /\ h.last_ack \in Nat /\ h.sent_so_far \in Nat /\ h.last_ack < h.sent_so_far
  <2>1. Counts(h) BY DEF Open, Window
  <2> QED BY <2>1, CountsType
<1>1. IsSrc(h) /\ Window(h) /\ Armed(h) BY <1>0 DEF Open, Watched
<1>2. /\ IsSrc(d) /\ d.dup_ack_count = 0 /\ d.window_size = w
      /\ \A f \in SrcFields \ {"dup_ack_count", "window_size"} : d[f] = h[f]
  BY <1>1 DEF IsSrc, SrcFields
<1>3. NewAck(h, ack, w) = ResendOldest(Acknowledge(Cancel(d), ack)) BY DEF NewAck
<1> HIDE DEF d
<1>4. d.retrans = TRUE BY <1>1, <1>2 DEF SrcFields, Armed
<1>5. Cancel(d) = c BY <1>4 DEF Cancel
<1>6. IsSrc(c) /\ \A f \in SrcFields \ {"retrans", "retrans_bit", "timers"} : c[f] = d[f]
  BY <1>2 DEF IsSrc, SrcFields
<1> HIDE DEF c
<1>7. /\ c.sync_bit = h.sync_bit /\ c.dest_map = h.dest_map /\ c.term_bit = h.term_bit
      /\ c.chunk = h.chunk /\ c.sent_so_far = h.sent_so_far
      /\ c.last_ack = h.last_ack /\ c.packets_in_window = h.packets_in_window
      /\ c.sent_window = h.sent_window /\ c.out = h.out
  BY <1>2, <1>6 DEF SrcFields
<1>8. c.dup_ack_count = 0 /\ c.window_size = w BY <1>2, <1>6 DEF SrcFields
<1>9. Counts(c) BY <1>0, <1>7, <1>8 DEF Counts
<1>10. Window(c) BY <1>1, <1>7, <1>8, <1>9 DEF Window
<1>11. /\ IsSrc(k) /\ Window(k) /\ k.last_ack = ack
       /\ \A f \in SrcFields \ {"last_ack", "sent_window", "packets_in_window"} : k[f] = c[f]
  BY <1>6, <1>7, <1>10, AcknowledgeLemma
<1> HIDE DEF k
<1>12. k.out = h.out BY <1>7, <1>11 DEF SrcFields
<1>13. Adds(k.out, ResendOldest(k).out, ack) BY <1>11, ResendOldestAdds
<1> QED BY <1>3, <1>5, <1>12, <1>13 DEF k

\* Whatever ack comes, what is sent lies beyond the last one then.
LEMMA SentWindowSyncAdds ==
    ASSUME NEW h, Open(h), NEW ack \in 0..h.sent_so_far, NEW w \in Nat \ {0}
    PROVE  LET g == SentWindowSync(h, ack, w) IN Adds(h.out, g.out, g.last_ack)
<1> DEFINE g == SentWindowSync(h, ack, w)
<1>0. h.last_ack \in Nat /\ h.sent_so_far \in Nat /\ h.out \in Seq(SentBy(h.sent_so_far))
  <2>1. Counts(h) /\ h.out \in Seq(SentBy(h.sent_so_far)) BY DEF Open, Window
  <2> QED BY <2>1, CountsType
<1>1. g.last_ack = IF ack > h.last_ack THEN ack ELSE h.last_ack BY SentWindowSyncLemma
<1>2. Adds(h.out, g.out, IF ack > h.last_ack THEN ack ELSE h.last_ack)
  <2>1. CASE ack < h.last_ack
    <3>1. g = h BY <2>1 DEF SentWindowSync
    <3>2. Adds(h.out, h.out, h.last_ack) BY <1>0, AddsNone
    <3>3. ~(ack > h.last_ack) BY <1>0, <2>1
    <3> HIDE DEF g
    <3> QED BY <3>1, <3>2, <3>3
  <2>2. CASE ack = h.last_ack
    <3>1. g = DuplicateAck(h) BY <1>0, <2>2 DEF SentWindowSync
    <3>2. Adds(h.out, DuplicateAck(h).out, h.last_ack) BY DuplicateAckAdds
    <3>3. ~(ack > h.last_ack) BY <1>0, <2>2
    <3> HIDE DEF g
    <3> QED BY <3>1, <3>2, <3>3
  <2>3. CASE ack > h.last_ack
    <3>1. g = NewAck(h, ack, w) BY <1>0, <2>3 DEF SentWindowSync
    <3>2. ack \in h.last_ack+1 .. h.sent_so_far BY <1>0, <2>3
    <3>3. Adds(h.out, NewAck(h, ack, w).out, ack) BY <3>2, NewAckAdds
    <3> HIDE DEF g
    <3> QED BY <2>3, <3>1, <3>3
  <2> QED BY <1>0, <2>1, <2>2, <2>3
<1> HIDE DEF g
<1> QED BY <1>1, <1>2 DEF g

\* The channel holds the SYN only, and nothing is acknowledged.
LEMMA SynsOnly ==
    ASSUME NEW h, Syn(h)
    PROVE  \A k \in 1..Len(h.out) : h.out[k].id > h.last_ack
<1>1. h.out \in Seq(SentBy(1)) /\ h.last_ack = 0 BY DEF Syn
<1>2. \A k \in 1..Len(h.out) : h.out[k] \in SentBy(1) BY <1>1
<1>3. \A p \in SentBy(1) : p.id = 1
  <2>1. 1..1 = {1} OBVIOUS
  <2> QED BY <2>1 DEF SentBy, Packet
<1> QED BY <1>1, <1>2, <1>3

\* What a step sends, the ACK apart, is beyond what is then acknowledged.
SendsNew == \A k \in Len(src.out)+1 .. Len(src'.out) :
                src'.out[k].id = 2 \/ src'.out[k].id > src'.last_ack

\* The SYN, for the first time or again.
LEMMA SynSends ==
    ASSUME Len(src.out) \in Nat, Syn(src')
    PROVE  SendsNew
<1>1. \A k \in 1..Len(src'.out) : src'.out[k].id > src'.last_ack BY SynsOnly
<1>2. Len(src'.out) \in Nat BY DEF Syn
<1> QED BY <1>1, <1>2 DEF SendsNew

\* What the operators say is what the step does.
LEMMA AddsSends == ASSUME Adds(src.out, src'.out, src'.last_ack) PROVE SendsNew
BY DEF Adds, SendsNew

\* The SYN-ACK makes the source send the ACK and new chunks.
LEMMA SynAckSends == ASSUME IInv, SrcSynAck PROVE SendsNew
<1>0. src.sync_bit = 1 /\ dst.out # <<>> BY DEF SrcSynAck, FromDst
<1>1. Syn(src)
  <2>1. Untouched \/ Connecting \/ Connected BY DEF IInv
  <2>2. ~Untouched BY <1>0, PhaseLemma
  <2>3. ~Connected BY <1>0, PhaseLemma
  <2> QED BY <2>1, <2>2, <2>3 DEF Connecting
<1> DEFINE k == [src EXCEPT !.retrans = FALSE, !.retrans_bit = 0, !.timers = src.timers - 1]
           a == [k EXCEPT !.retrans = src.retrans, !.sync_bit = 3, !.last_ack = 2]
           c == SendControl(a)
           p == SrcPacket(a, a.sent_so_far + 1, 0, 0)
           s == Send(a, p)
<1>2. Cancel(src) = k BY <1>1 DEF Cancel, Syn
<1>3. src' = SendFile(SendControl([Cancel(src) EXCEPT !.retrans = src.retrans, !.sync_bit = 3, !.last_ack = 2]))
  BY DEF SrcSynAck
<1>4. src' = SendFile(c) BY <1>2, <1>3
<1>5. Sendable(c) /\ c.last_ack = 2
  <2>1. LET b == [Cancel(src) EXCEPT !.retrans = src.retrans, !.sync_bit = 3, !.last_ack = 2]
        IN  Sendable(SendControl(b)) /\ SendControl(b).last_ack = 2
    BY <1>1, SynAckLemma
  <2> QED BY <1>2, <2>1
<1>6. Open(SendFile(c)) /\ SendFile(c).last_ack = c.last_ack BY <1>5, SendFileLemma
<1>7. Adds(c.out, SendFile(c).out, c.last_ack) BY <1>5, SendFileAdds
<1>8. IsSrc(src) BY <1>1 DEF Syn
<1>9. IsSrc(k) /\ k.out = src.out /\ k.sent_so_far = src.sent_so_far BY <1>8 DEF IsSrc, SrcFields
<1> HIDE DEF k
<1>10. IsSrc(a) /\ a.out = src.out /\ a.sent_so_far = src.sent_so_far
  BY <1>9 DEF IsSrc, SrcFields
<1> HIDE DEF a
<1>11. Adds(a.out, s.out, 2) /\ IsSrc(s)
  <2> DEFINE T == SentBy(1) \cup {p}
             o == Append(a.out, p)
  <2>1. p.id = 2 BY <1>1, <1>10 DEF SrcPacket, Syn
  <2>2. a.out \in Seq(SentBy(1)) BY <1>1, <1>10 DEF Syn
  <2>3. SentBy(1) \subseteq T /\ p \in T OBVIOUS
  <2>4. s = [a EXCEPT !.out = o] BY DEF Send
  <2> HIDE DEF T, p, o, s
  <2>5. a.out \in Seq(T) BY <2>2, <2>3, SeqMonotonic
  <2>6. Adds(a.out, Send(a, p).out, 2) BY <1>10, <2>1, <2>3, <2>5, SendAdds
  <2>7. IsSrc(s) BY <1>10, <2>4 DEF IsSrc, SrcFields
  <2> QED BY <2>6, <2>7 DEF s
<1>12. c.out = s.out
  <2>1. c = [s EXCEPT !.sent_so_far = s.sent_so_far + 1] BY DEF SendControl
  <2> HIDE DEF c, s
  <2> QED BY <1>11, <2>1 DEF IsSrc, SrcFields
<1> HIDE DEF c, s
<1>13. Adds(src.out, src'.out, 2) BY <1>4, <1>5, <1>7, <1>10, <1>11, <1>12, AddsBoth
<1> QED BY <1>4, <1>5, <1>6, <1>13, AddsSends

\* An ack makes it send the oldest packet left, and new ones.
LEMMA AckSends == ASSUME IInv, SrcAck PROVE SendsNew
<1>0. src.sync_bit = 3 /\ dst.out # <<>> BY DEF SrcAck, FromDst
<1>1. Connected BY <1>0, GuardLemma
<1>2. Open(src) /\ Pending(src) /\ src.retrans_bit \in {0, 2} BY <1>1, PhaseLemma
<1>3. ~(src.term_bit = 0 /\ Ack.sync_bit = 2 /\ src.retrans_bit # 2)
  BY <1>2 DEF Pending, Open, Watched, Armed
<1>4. PICK w \in Windows : src' = SendFile(SentWindowSync(src, Ack.ack_id, w))
  BY <1>3 DEF SrcAck
<1>5. w \in Nat \ {0} BY WindowsAssumption
<1>6. Ack.ack_id \in 0..src.sent_so_far
  <2>1. Ack.ack_id \in 1..src.sent_so_far BY <1>0, <1>1, AckLemma
  <2> HIDE DEF Ack
  <2> QED BY <2>1
<1> DEFINE s == SentWindowSync(src, Ack.ack_id, w)
<1> HIDE DEF Ack
<1>7. Open(s) BY <1>2, <1>5, <1>6, SentWindowSyncLemma
<1>8. Adds(src.out, s.out, s.last_ack) BY <1>2, <1>5, <1>6, SentWindowSyncAdds
<1> HIDE DEF s
<1>9. Adds(s.out, SendFile(s).out, s.last_ack) /\ SendFile(s).last_ack = s.last_ack
  BY <1>7, OpenIsSendable, SendFileAdds, SendFileLemma
<1>10. src' = SendFile(s) BY <1>4 DEF s
<1> QED BY <1>8, <1>9, <1>10, AddsBoth, AddsSends

\* So does the FIN-ACK, but for the new ones.
LEMMA FinAckSends == ASSUME IInv, SrcFinAck PROVE SendsNew
<1>0. src.sync_bit = 3 /\ dst.out # <<>> /\ src.term_bit = 1 BY DEF SrcFinAck, FromDst
<1>1. Connected BY <1>0, GuardLemma
<1>2. Open(src) BY <1>1, PhaseLemma
<1> DEFINE c == [src EXCEPT !.term_bit = 2]
<1>3. Open(c) /\ c.out = src.out /\ c.sent_so_far = src.sent_so_far
  <2>1. Open(c) /\ \A f \in SrcFields \ {"term_bit"} : c[f] = src[f] BY <1>0, <1>2, CloseLemma
  <2> HIDE DEF c
  <2> QED BY <2>1 DEF SrcFields
<1>4. PICK w \in Windows : src' = SentWindowSync(c, Ack.ack_id, w) BY DEF SrcFinAck
<1>5. w \in Nat \ {0} BY WindowsAssumption
<1>6. Ack.ack_id \in 0..src.sent_so_far
  <2>1. Ack.ack_id \in 1..src.sent_so_far BY <1>0, <1>1, AckLemma
  <2> HIDE DEF Ack
  <2> QED BY <2>1
<1> HIDE DEF Ack, c
<1> DEFINE g == SentWindowSync(c, Ack.ack_id, w)
<1>7. Adds(c.out, g.out, g.last_ack) BY <1>3, <1>5, <1>6, SentWindowSyncAdds
<1>8. src' = g BY <1>4
<1> HIDE DEF g
<1> QED BY <1>3, <1>7, <1>8, AddsSends

\* The data timer makes it send the oldest packet outstanding.
LEMMA DataTimeoutSends == ASSUME IInv, SrcDataTimeout PROVE SendsNew
<1>0. /\ src.timers > 0 /\ src.retrans_bit = 2
      /\ src' = [Send(Rearm(src, 2), src.retransmit_pkt) EXCEPT !.window_size = 1]
  BY DEF SrcDataTimeout, MayResend
<1>1. Connected
  <2>1. ~Connecting BY <1>0, PhaseLemma
  <2> QED BY <1>0, <2>1, GuardLemma
<1>2. Open(src) BY <1>1, PhaseLemma
<1>3. IsSrc(src) /\ Window(src) /\ Armed(src) /\ src.last_ack < src.sent_so_far
      /\ src.retransmit_pkt = Packet(src.last_ack + 1)
  BY <1>0, <1>2 DEF Open, Watched, Idle
<1>4. Rearm(src, 2) = src BY <1>3, RearmSrc DEF Armed
<1> DEFINE p == Packet(src.last_ack + 1)
           s == Send(src, p)
           g == [s EXCEPT !.window_size = 1]
<1>5. Adds(src.out, s.out, src.last_ack) BY <1>3, OldestAdds
<1>6. IsSrc(s) /\ s.last_ack = src.last_ack
  <2>1. p \in SentBy(src.sent_so_far) BY <1>3, OldestIsSent
  <2>2. IsSrc(s) /\ \A f \in SrcFields \ {"out"} : s[f] = src[f] BY <1>3, <2>1, SendLemma
  <2> HIDE DEF s
  <2> QED BY <2>2 DEF SrcFields
<1>7. src' = g BY <1>0, <1>3, <1>4
<1> HIDE DEF s
<1>8. g.out = s.out /\ g.last_ack = s.last_ack BY <1>6 DEF IsSrc, SrcFields
<1> HIDE DEF g
<1> QED BY <1>5, <1>6, <1>7, <1>8, AddsSends

\* The channel is a sequence, and one shorter without its head.
LEMMA ChannelType ==
    ASSUME IInv
    PROVE  Len(src.out) \in Nat /\ (src.out # <<>> => Len(Tail(src.out)) = Len(src.out) - 1)
<1>1. CASE Untouched BY <1>1, PhaseLemma
<1>2. CASE Connecting
  <2>1. src.out \in Seq(SentBy(1)) BY <1>2 DEF Connecting, Syn
  <2> QED BY <2>1
<1>3. CASE Connected
  <2>1. src.out \in Seq(SentBy(src.sent_so_far)) BY <1>3 DEF Connected, Open, Window
  <2> QED BY <2>1
<1> QED BY <1>1, <1>2, <1>3 DEF IInv

\* A packet leaves the channel, or nothing happens to it.
LEMMA OtherSends ==
    ASSUME IInv, src' = src \/ (src.out # <<>> /\ src' = Received(src))
    PROVE  SendsNew
<1>1. Len(src.out) \in Nat /\ (src.out # <<>> => Len(Tail(src.out)) = Len(src.out) - 1)
  BY ChannelType
<1>2. CASE src' = src BY <1>1, <1>2 DEF SendsNew
<1>3. CASE src.out # <<>> /\ src' = Received(src)
  <2>1. IsSrc(src) BY <1>3, GuardLemma DEF Connecting, Connected, Syn, Open
  <2>2. src'.out = Tail(src.out) BY <1>3, <2>1, SrcTail
  <2> QED BY <1>1, <1>3, <2>2 DEF SendsNew
<1> QED BY <1>2, <1>3

\* Whatever is lost, late or repeated, the source sends no packet again once it
\* has been acknowledged: not on a repeated ack, not on a timeout, and not with
\* a retransmit_pkt that an ack has overtaken.
THEOREM NothingAckedIsResent == Spec => NoResendOfAcked
<1>1. IInv /\ [Next]_vars => SendsNew
  <2> SUFFICES ASSUME IInv, [Next]_vars PROVE SendsNew
    OBVIOUS
  <2>0. Len(src.out) \in Nat BY ChannelType
  <2>1. CASE Start
    <3>1. PICK dup \in {0, 1} : src = FreshSrc(dup) BY <2>1, PhaseLemma DEF IInv, Start, Untouched
    <3>2. src.dup_ack_count = dup BY <3>1 DEF FreshSrc
    <3>3. Syn(src') BY <2>1, <3>2, StartLemma DEF Start
    <3> QED BY <2>0, <3>3, SynSends
  <2>2. CASE SrcReceive
    BY <2>2, SynAckSends, AckSends, FinAckSends, OtherSends DEF SrcReceive, SrcIgnore
  <2>3. CASE SrcSynTimeout
    <3>1. /\ src.timers > 0 /\ src.retrans_bit = 1
          /\ src' = Send(Rearm(src, 1), SrcPacket(src, src.sent_so_far, 0, 0))
      BY <2>3 DEF SrcSynTimeout, MayResend
    <3>2. ~Connected BY <3>1, PhaseLemma
    <3>3. Connecting BY <3>1, <3>2, GuardLemma
    <3>4. Syn(src') BY <3>1, <3>3, SynTimeoutLemma DEF Connecting
    <3> QED BY <2>0, <3>4, SynSends
  <2>4. CASE SrcDataTimeout BY <2>4, DataTimeoutSends
  <2>5. CASE DstReceive
    BY <2>5, OtherSends DEF DstReceive, DstSyn, DstAck, DstData, DstFin, DstIgnore, FromSrc
  <2>6. CASE DstSynAckTimeout \/ LosePacket \/ LoseAck \/ UNCHANGED vars
    BY <2>6, OtherSends DEF DstSynAckTimeout, LosePacket, LoseAck, FromSrc, vars
  <2> QED BY <2>1, <2>2, <2>3, <2>4, <2>5, <2>6 DEF Next, SrcTimeout
<1>2. IInv /\ [Next]_vars => [\A k \in Len(src.out)+1 .. Len(src'.out) :
          src'.out[k].id = 2 \/ src'.out[k].id > src'.last_ack]_vars
  BY <1>1 DEF SendsNew
<1> QED BY <1>2, Inductive, PTL DEF Spec, NoResendOfAcked
=============================================================================
