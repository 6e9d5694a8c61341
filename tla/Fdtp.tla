-------------------------------- MODULE Fdtp --------------------------------
(***************************************************************************)
(* One FDTP flow between two hosts (dtp/Host.cpp).                         *)
(*                                                                         *)
(* src and dst are the two Host objects; a field keeps the name of the     *)
(* member it models.  Static routes, FIFO queues and a stable event queue  *)
(* keep the packets of one direction in order, so `out', the packets a     *)
(* host handed to send() that have neither arrived nor been dropped by a   *)
(* full queue, is a lossy FIFO channel.  Every step below is one event of  *)
(* the simulator: an arrival, an expired timer, or a drop on the way.      *)
(*                                                                         *)
(* Virtual time is abstracted: a timer may expire at any moment (the RTO   *)
(* follows the measured RTT down and does expire early).  `retrans' says   *)
(* whether the member holds a time that has not passed; `window_size' is   *)
(* the float rounded up, which is all that packets_in_window can tell.     *)
(***************************************************************************)
EXTENDS Integers, Sequences, FiniteSets

CONSTANTS Chunks,        \* packets send_file() cuts the file into; 0 when the file does not open
          Windows,       \* the values congestion_control() may leave in window_size
          MAX_QUEUE,     \* the value of ter_seq while no FIN is waiting
          MaxLosses,     \* bound: packets the network drops
          Calm           \* bound: the numbers of packets in flight while a timer may expire

ASSUME ChunksAssumption    == Chunks \in Nat
ASSUME WindowsAssumption   == Windows \subseteq Nat \ {0} /\ Windows # {}
ASSUME MaxQueueAssumption  == MAX_QUEUE \in Nat /\ MAX_QUEUE > Chunks + 3
ASSUME BoundsAssumption    == MaxLosses \in Nat /\ Calm \subseteq Nat

VARIABLES src,           \* the sending Host
          dst,           \* the receiving Host
          losses         \* packets dropped so far

vars == <<src, dst, losses>>

FinId == Chunks + 3      \* SYN is 1, ACK is 2, the chunks are 3 .. Chunks+2

---------------------------------------------------------------------------
(* Packets.  A chunk's payload is its number; a control packet carries 0. *)

SrcPacket(h, i, fin, chunk) ==
    [id |-> i, sync_bit |-> h.sync_bit, FIN |-> fin, payload |-> chunk]

NULL == [id |-> 0, sync_bit |-> 0, FIN |-> 0, payload |-> 0]

Send(h, p) == [h EXCEPT !.out = Append(@, p)]

Received(h) == [h EXCEPT !.out = Tail(@)]

Arm(h, bit) == [h EXCEPT !.retrans = TRUE, !.retrans_bit = bit, !.timers = @ + 1]

\* cancel_timer() on a timer that is not there is an ASSERT(false): timers = -1.
Cancel(h) == IF h.retrans
             THEN [h EXCEPT !.retrans = FALSE, !.retrans_bit = 0, !.timers = @ - 1]
             ELSE h

---------------------------------------------------------------------------
(* The sending host.                                                       *)

\* std::map::insert: an entry that is already there stays.
Insert(window, new) ==
    [i \in DOMAIN window \cup DOMAIN new |-> IF i \in DOMAIN window THEN window[i] ELSE new[i]]

Oldest(window) ==
    IF DOMAIN window = {} THEN NULL
    ELSE window[CHOOSE i \in DOMAIN window : \A j \in DOMAIN window : i =< j]

\* handle_timer((void*)1) on the sending side while no data timer is armed.
SendControl(h) == [Send(h, SrcPacket(h, h.sent_so_far + 1, 0, 0)) EXCEPT !.sent_so_far = @ + 1]

\* How many chunks the loop of send_file() reads before the window is full.
Room(h) == LET free == h.window_size - h.packets_in_window
               left == Chunks - h.chunk
           IN  IF free =< 0 THEN 0 ELSE IF free < left THEN free ELSE left

Burst(h) ==
    LET n == Room(h)
        packet(j) == SrcPacket(h, h.sent_so_far + j, 0, h.chunk + j)
    IN  [h EXCEPT !.chunk = @ + n,
                  !.sent_so_far = @ + n,
                  !.packets_in_window = @ + n,
                  !.sent_window = Insert(@, [i \in h.sent_so_far+1 .. h.sent_so_far+n |->
                                                packet(i - h.sent_so_far)]),
                  !.out = @ \o [j \in 1..n |-> packet(j)]]

\* terminate(): the FIN joins the window but not packets_in_window.
Terminate(h) ==
    LET fin == SrcPacket(h, h.sent_so_far + 1, 1, 0)
    IN  [Send(h, fin) EXCEPT !.term_bit = 1,
                             !.sent_so_far = @ + 1,
                             !.sent_window = Insert(@, [i \in {fin.id} |-> fin])]

MayTerminate(h) == /\ h.chunk = Chunks
                   /\ h.packets_in_window < h.window_size
                   /\ h.term_bit = 0

WatchOldest_ArmsAgain(h) ==
    LET g == [h EXCEPT !.retransmit_pkt = Oldest(h.sent_window)]
    IN  IF g.retransmit_pkt # NULL THEN Arm(g, 2) ELSE g

WatchOldest(h) ==
    LET g == [h EXCEPT !.retransmit_pkt = Oldest(h.sent_window)]
    IN  IF g.retrans_bit = 0 /\ g.retransmit_pkt # NULL THEN Arm(g, 2) ELSE g

SendFile(h) ==
    LET g == Burst(h)
    IN  WatchOldest(IF MayTerminate(g) THEN Terminate(g) ELSE g)

DuplicateAck_NoCancel(h) ==
    IF h.dup_ack_count = 0
    THEN [h EXCEPT !.dup_ack_count = 1]
    ELSE LET g == [h EXCEPT !.dup_ack_count = 0, !.window_size = (@ + 1) \div 2]
         IN  IF g.retrans_bit = 2 /\ g.retrans
             THEN Send(Arm(g, 2), g.retransmit_pkt)
             ELSE g

\* Every second repetition of an ack halves the window and resends.
DuplicateAck(h) ==
    IF h.dup_ack_count = 0
    THEN [h EXCEPT !.dup_ack_count = 1]
    ELSE LET g == [h EXCEPT !.dup_ack_count = 0, !.window_size = (@ + 1) \div 2]
         IN  IF g.retrans_bit = 2 /\ g.retrans
             THEN Send(Arm(Cancel(g), 2), g.retransmit_pkt)
             ELSE g

Acknowledge_KeepsLast(h, ack) ==
    LET gone == IF ack \in DOMAIN h.sent_window THEN {i \in DOMAIN h.sent_window : i < ack} ELSE {}
    IN  [h EXCEPT !.last_ack = ack,
                  !.sent_window = [i \in DOMAIN @ \ gone |-> @[i]],
                  !.packets_in_window = @ - Cardinality(gone)]

\* The packets up to the acknowledged one leave the window, if that one is in it.
Acknowledge(h, ack) ==
    LET gone == IF ack \in DOMAIN h.sent_window THEN {i \in DOMAIN h.sent_window : i =< ack} ELSE {}
    IN  [h EXCEPT !.last_ack = ack,
                  !.sent_window = [i \in DOMAIN @ \ gone |-> @[i]],
                  !.packets_in_window = @ - Cardinality(gone)]

\* The oldest packet still outstanding is sent again at once unless it is the
\* FIN, and watched by a new timer.
ResendOldest(h) ==
    LET p == Oldest(h.sent_window)
        g == [h EXCEPT !.retransmit_pkt = p]
    IN  IF g.retrans_bit # 0 \/ p = NULL THEN g
        ELSE Arm(IF p.FIN = 1 THEN g ELSE Send(g, p), 2)

NewAck(h, ack, window) ==
    ResendOldest(Acknowledge(Cancel([h EXCEPT !.dup_ack_count = 0, !.window_size = window]), ack))

SentWindowSync(h, ack, window) ==
    IF ack < h.last_ack THEN h
    ELSE IF ack = h.last_ack THEN DuplicateAck(h)
    ELSE NewAck(h, ack, window)

---------------------------------------------------------------------------
(* The receiving host.                                                     *)

Reply_NextExpected(h, fin) ==
    Send(h, [ack_id |-> h.recv_so_far + 1, sync_bit |-> h.sync_bit, FIN |-> fin])

\* A reply carries FIN and ACK together once the flow is closed on this side.
Reply(h, fin) == Send(h, [ack_id |-> h.recv_so_far, sync_bit |-> h.sync_bit, FIN |-> fin])

SendAck(h) == Reply(h, IF h.term_bit = 2 THEN 1 ELSE 0)

Completes_AnyPacket(h, p) == h.sync_bit = 2 /\ h.term_bit = 0

\* The connection's third packet, or a later one that stands in for it.
Completes(h, p) == h.sync_bit = 2 /\ h.term_bit = 0 /\ p.sync_bit = 3

LostAck(h, p) == Completes(h, p) /\ p.id > h.recv_so_far + 1

Accepts_AckNotDiscounted(h, p) == p.id = h.recv_so_far + 1

\* The member `write': the packet is the next one, the lost ACK discounted.
Accepts(h, p) == p.id = h.recv_so_far + (IF LostAck(h, p) THEN 2 ELSE 1)

\* What every arrival does before its kind is looked at.
Counted(h, p) ==
    LET g == IF Completes(h, p) THEN [Cancel(h) EXCEPT !.sync_bit = 3] ELSE h
    IN  [g EXCEPT !.recv_so_far = IF Accepts(h, p) THEN p.id
                                  ELSE IF LostAck(h, p) THEN @ + 1 ELSE @]

\* n is the last packet of the unbroken run buffered behind recv_so_far.
RunEnd(h, n) == /\ n >= h.recv_so_far
                /\ h.recv_so_far+1 .. n \subseteq DOMAIN h.recv_window
                /\ n + 1 \notin DOMAIN h.recv_window

Write(h, p, n) ==
    LET first == h.recv_so_far
    IN  [h EXCEPT !.recv_so_far = n,
                  !.recv_window = [i \in DOMAIN @ \ (first+1 .. n) |-> @[i]],
                  !.out_file = @ \o <<p.payload>>
                                 \o [j \in 1..n-first |-> h.recv_window[first + j].payload]]

\* `write' is the member, n the end of the run that an accepted packet releases.
Store(h, p, write, n) ==
    IF p.id < h.recv_so_far \/ p.id \in DOMAIN h.recv_window THEN h
    ELSE IF p.id = h.recv_so_far /\ write THEN Write(h, p, n)
    ELSE IF p.id > h.recv_so_far
         THEN [h EXCEPT !.recv_window = Insert(@, [i \in {p.id} |-> p])]
    ELSE h

\* The ack; a FIN that came early is answered when the last gap closes.
Answer(h, write) ==
    IF h.ter_seq = h.recv_so_far + 1 /\ write
    THEN SendAck([h EXCEPT !.recv_so_far = @ + 1, !.term_bit = 2])
    ELSE SendAck(h)

RecvWindowSync(h, p, write, n) == Answer(Store(h, p, write, n), write)

---------------------------------------------------------------------------
(* The flow's start: FDTPFlow's timer for the chosen time expires and the  *)
(* source resets itself and, through the scheduler, the destination.       *)

FreshSrc(dup) ==
    [ dest_map |-> TRUE, sync_bit |-> 1, term_bit |-> 0, retrans |-> FALSE, retrans_bit |-> 0,
      timers |-> 0, sent_so_far |-> 0, last_ack |-> 0, chunk |-> 0, sent_window |-> <<>>,
      packets_in_window |-> 0, window_size |-> 1, retransmit_pkt |-> NULL,
      dup_ack_count |-> dup, out |-> <<>> ]

FreshDst ==
    [ sync_bit |-> 1, term_bit |-> 0, retrans |-> FALSE, retrans_bit |-> 0, timers |-> 0,
      recv_so_far |-> 0, recv_window |-> <<>>, ter_seq |-> MAX_QUEUE, out_file |-> <<>>, out |-> <<>> ]

\* dup_ack_count is never initialised; only its parity is ever used.
Init == /\ \E dup \in {0, 1} : src = FreshSrc(dup)
        /\ dst = FreshDst
        /\ losses = 0

Start ==
    /\ src.dest_map /\ src.sync_bit = 1 /\ src.term_bit = 0 /\ ~src.retrans
    /\ src' = SendControl(Arm([FreshSrc(src.dup_ack_count) EXCEPT !.dest_map = FALSE], 1))
    /\ dst' = FreshDst
    /\ UNCHANGED losses

---------------------------------------------------------------------------
(* Arrivals at the source.                                                 *)

FromDst == dst.out # <<>>
Ack     == Head(dst.out)

\* RTO and RTT start from here; the timer that is cancelled leaves its time in retrans.
SrcSynAck ==
    /\ FromDst /\ src.term_bit = 0 /\ Ack.sync_bit = 2 /\ src.sync_bit = 1
    /\ LET h == [Cancel(src) EXCEPT !.retrans = src.retrans, !.sync_bit = 3, !.last_ack = 2]
       IN  src' = SendFile(SendControl(h))
    /\ dst' = Received(dst)
    /\ UNCHANGED losses

\* A repeated SYN-ACK first goes through handle_timer(), which sends a packet
\* of its own unless the data timer is armed.
SrcAck ==
    /\ FromDst /\ src.sync_bit = 3 /\ Ack.FIN = 0
    /\ LET h == IF src.term_bit = 0 /\ Ack.sync_bit = 2 /\ src.retrans_bit # 2
                THEN SendControl(src) ELSE src
       IN  \E window \in Windows : src' = SendFile(SentWindowSync(h, Ack.ack_id, window))
    /\ dst' = Received(dst)
    /\ UNCHANGED losses

\* The source closes the flow on both hosts at once.
SrcFinAck ==
    /\ FromDst /\ src.sync_bit = 3 /\ Ack.FIN = 1 /\ src.term_bit = 1
    /\ \E window \in Windows :
          src' = SentWindowSync([src EXCEPT !.term_bit = 2], Ack.ack_id, window)
    /\ dst' = [Received(dst) EXCEPT !.term_bit = 2]
    /\ UNCHANGED losses

SrcIgnore ==
    /\ FromDst
    /\ src.sync_bit = 3 => Ack.FIN = 1 /\ src.term_bit # 1
    /\ src.sync_bit = 1 => Ack.sync_bit # 2
    /\ dst' = Received(dst)
    /\ UNCHANGED <<src, losses>>

SrcReceive == SrcSynAck \/ SrcAck \/ SrcFinAck \/ SrcIgnore

---------------------------------------------------------------------------
(* Arrivals at the destination.                                            *)

FromSrc == src.out # <<>>
Pkt     == Head(src.out)

DstSyn ==
    /\ FromSrc /\ dst.term_bit = 0 /\ Pkt.sync_bit = 1 /\ dst.sync_bit = 1
    /\ dst' = Arm(SendAck([Counted(dst, Pkt) EXCEPT !.sync_bit = 2]), 1)
    /\ src' = Received(src)
    /\ UNCHANGED losses

\* The handshake's ACK is not answered.
DstAck ==
    /\ FromSrc /\ Completes(dst, Pkt) /\ ~LostAck(dst, Pkt)
    /\ dst' = Counted(dst, Pkt)
    /\ src' = Received(src)
    /\ UNCHANGED losses

DstData ==
    /\ FromSrc /\ (dst.sync_bit = 3 \/ LostAck(dst, Pkt))
    /\ Pkt.FIN = 0
    /\ LET h == Counted(dst, Pkt)
       IN  \E n \in 0..FinId : RunEnd(h, n) /\ dst' = RecvWindowSync(h, Pkt, Accepts(dst, Pkt), n)
    /\ src' = Received(src)
    /\ UNCHANGED losses

DstFin_AnswersEarly ==
    /\ FromSrc /\ (dst.sync_bit = 3 \/ LostAck(dst, Pkt))
    /\ Pkt.FIN = 1 /\ dst.term_bit # 2
    /\ dst' = Reply(Counted(dst, Pkt), 1)
    /\ src' = Received(src)
    /\ UNCHANGED losses

\* A FIN in its turn is answered, and leaves term_bit as it is.
DstFin ==
    /\ FromSrc /\ (dst.sync_bit = 3 \/ LostAck(dst, Pkt))
    /\ Pkt.FIN = 1 /\ dst.term_bit # 2
    /\ LET h == Counted(dst, Pkt)
       IN  dst' = IF Pkt.id = h.recv_so_far THEN Reply(h, 1)
                  ELSE [h EXCEPT !.term_bit = 1, !.ter_seq = Pkt.id]
    /\ src' = Received(src)
    /\ UNCHANGED losses

DstIgnore ==
    /\ FromSrc /\ ~Completes(dst, Pkt)
    /\ dst.sync_bit = 3 => Pkt.FIN = 1 /\ dst.term_bit = 2
    /\ dst.sync_bit = 1 => Pkt.sync_bit # 1
    /\ dst' = Counted(dst, Pkt)
    /\ src' = Received(src)
    /\ UNCHANGED losses

DstReceive == DstSyn \/ DstAck \/ DstData \/ DstFin \/ DstIgnore

---------------------------------------------------------------------------
(* Expired timers and drops.                                               *)

MayResend(h) == h.timers > 0 /\ Len(src.out) + Len(dst.out) \in Calm

Rearm(h, bit) == Arm([h EXCEPT !.timers = @ - 1], bit)

SrcSynTimeout ==
    /\ MayResend(src) /\ src.retrans_bit = 1
    /\ src' = Send(Rearm(src, 1), SrcPacket(src, src.sent_so_far, 0, 0))
    /\ UNCHANGED <<dst, losses>>

SrcDataTimeout_NotRearmed ==
    /\ MayResend(src) /\ src.retrans_bit = 2
    /\ src' = [Send(src, src.retransmit_pkt) EXCEPT !.window_size = 1, !.timers = 0]
    /\ UNCHANGED <<dst, losses>>

SrcDataTimeout ==
    /\ MayResend(src) /\ src.retrans_bit = 2
    /\ src' = [Send(Rearm(src, 2), src.retransmit_pkt) EXCEPT !.window_size = 1]
    /\ UNCHANGED <<dst, losses>>

SrcTimeout == SrcSynTimeout \/ SrcDataTimeout

DstSynAckTimeout ==
    /\ MayResend(dst) /\ dst.retrans_bit = 1
    /\ dst' = SendAck(Rearm(dst, 1))
    /\ UNCHANGED <<src, losses>>

MayLose == losses < MaxLosses /\ losses' = losses + 1

LosePacket == MayLose /\ FromSrc /\ src' = Received(src) /\ UNCHANGED dst

LoseAck == MayLose /\ FromDst /\ dst' = Received(dst) /\ UNCHANGED src

---------------------------------------------------------------------------
Next == \/ Start
        \/ SrcReceive \/ SrcTimeout
        \/ DstReceive \/ DstSynAckTimeout
        \/ LosePacket \/ LoseAck

Spec == Init /\ [][Next]_vars

\* Scheduler::run() returns only when no event is left, so every event that is
\* scheduled is processed: WF on the arrivals and, as the bound Calm disables
\* a timer now and then, SF on the timers, written out with the guards
\* in the place of ENABLED.
Fairness == /\ WF_vars(Start)
            /\ <>[]FromDst => []<><<SrcReceive>>_vars
            /\ <>[]FromSrc => []<><<DstReceive>>_vars
            /\ []<>MayResend(src) => []<><<SrcTimeout>>_vars
            /\ []<>MayResend(dst) => []<><<DstSynAckTimeout>>_vars

FairSpec == Spec /\ Fairness

---------------------------------------------------------------------------
(* Properties.                                                             *)

File(n) == [i \in 1..n |-> i]

Packets == [id : 0..FinId, sync_bit : 0..3, FIN : {0, 1}, payload : 0..Chunks]

Acks == [ack_id : 0..FinId, sync_bit : 1..3, FIN : {0, 1}]

Windowed(h, w) == \E S \in SUBSET (3..FinId) : h[w] \in [S -> Packets]

\* Every member has its type.  A timer count of -1 would be cancel_timer()'s
\* ASSERT(false) and one of 2 a second timer with the same NULL cookie, which
\* cancel_timer() could not tell from the first.
TypeOK ==
    /\ losses \in 0..MaxLosses
    /\ src.dest_map \in BOOLEAN /\ src.retrans \in BOOLEAN /\ dst.retrans \in BOOLEAN
    /\ src.sync_bit \in {1, 3} /\ dst.sync_bit \in 1..3
    /\ src.term_bit \in 0..2 /\ dst.term_bit \in 0..2
    /\ src.retrans_bit \in 0..2 /\ dst.retrans_bit \in 0..1
    /\ src.timers \in 0..1 /\ dst.timers \in 0..1
    /\ src.sent_so_far \in 0..FinId /\ src.last_ack \in 0..FinId /\ dst.recv_so_far \in 0..FinId
    /\ src.chunk \in 0..Chunks
    /\ src.packets_in_window \in -1..Chunks
    /\ src.window_size \in Nat \ {0}
    /\ src.dup_ack_count \in {0, 1}
    /\ src.retransmit_pkt \in Packets
    /\ dst.ter_seq \in {FinId, MAX_QUEUE}
    /\ Windowed(src, "sent_window") /\ Windowed(dst, "recv_window")
    /\ src.out \in Seq(Packets) /\ dst.out \in Seq(Acks)

\* The copy is at every moment a prefix of the file: whatever is lost, resent,
\* repeated or buffered, recv_window_sync() writes each chunk once, in order.
Integrity == \E n \in 0..Chunks : dst.out_file = File(n)

\* When the source reports the flow torn down, the copy is complete.
CompleteAtTeardown == src.term_bit = 2 => dst.out_file = File(Chunks)

\* What the source takes out of sent_window the destination has: the ack is
\* not ahead of recv_so_far, and the chunks it stands for are in the file.
AckedIsReceived ==
    src.last_ack > 2 =>
        /\ src.last_ack =< dst.recv_so_far
        /\ Len(dst.out_file) >= src.last_ack - 2 - (IF src.last_ack = FinId THEN 1 ELSE 0)

\* sent_window holds exactly the packets sent and not yet acknowledged, and
\* packets_in_window counts its chunks (one too few once the FIN, which
\* terminate() does not count, has been erased).
WindowIsUnacked ==
    src.sync_bit = 3 =>
        /\ DOMAIN src.sent_window = src.last_ack+1 .. src.sent_so_far
        /\ src.packets_in_window =
              src.sent_so_far - src.last_ack - (IF src.term_bit = 0 THEN 0 ELSE 1)

\* Exactly one timer is armed while something awaits an answer, none otherwise,
\* and handle_timer() finds in retransmit_pkt the oldest packet, never NULL.
RetransTimer ==
    /\ src.timers = (IF src.retrans_bit = 0 THEN 0 ELSE 1)
    /\ dst.timers = (IF dst.retrans_bit = 0 THEN 0 ELSE 1)
    /\ src.sync_bit = 3 =>
          /\ src.retrans_bit = (IF DOMAIN src.sent_window = {} THEN 0 ELSE 2)
          /\ src.retransmit_pkt = Oldest(src.sent_window)

\* The two ends agree on the connection: the destination completes the
\* handshake only with a source that completed it, and only a complete one
\* carries data, a FIN, or a teardown.
HandshakeAgreement ==
    /\ dst.sync_bit = 3 => src.sync_bit = 3
    /\ src.sync_bit = 3 => dst.sync_bit # 1
    /\ dst.sync_bit = 2 => dst.out_file = <<>> /\ DOMAIN dst.recv_window = {}
    /\ dst.term_bit = 2 => dst.sync_bit = 3 /\ dst.recv_so_far = FinId
    /\ src.term_bit = 2 => dst.term_bit = 2

\* Neither a timeout, nor a repeated ack, nor the resend that follows a new ack
\* sends a chunk or a FIN that this very ack, or an earlier one, acknowledged.
NoResendOfAcked ==
    [][\A k \in Len(src.out)+1 .. Len(src'.out) :
          src'.out[k].id = 2 \/ src'.out[k].id > src'.last_ack]_vars

\* The flow implements FileTransfer.
Phase == IF src.dest_map THEN "idle" ELSE IF src.term_bit = 2 THEN "closed" ELSE "open"

Acked == IF src.last_ack < 3 THEN 0 ELSE IF src.last_ack = FinId THEN Chunks ELSE src.last_ack - 2

Abstract == INSTANCE FileTransfer
               WITH phase <- Phase, sent <- src.chunk, delivered <- dst.out_file, acked <- Acked

ImplementsFileTransfer == Abstract!Spec

\* However many packets are dropped, as long as they are finitely many the
\* whole file arrives and stays; if none is dropped both hosts also come to
\* report the flow torn down.
Delivered ==
    <>[](/\ dst.out_file = File(Chunks)
         /\ losses = 0 => src.term_bit = 2 /\ dst.term_bit = 2)
============================================================================
