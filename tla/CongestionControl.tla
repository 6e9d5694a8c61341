-------------------------- MODULE CongestionControl --------------------------
(***************************************************************************)
(* The window of a sending Host: congestion_control() and the two other    *)
(* places that change window_size (dtp/Host.cpp).                          *)
(*                                                                         *)
(* window_size and alpha1 are floats.  Here they count Unit-ths, rounded   *)
(* towards 0: what would be less than 1 / Unit is 0, as a float below its  *)
(* least number is, what would be more than MaxFloat is Infinity, and -0   *)
(* is not told from 0.  Window_threshold and the counters are int; an int  *)
(* made of a float that it cannot hold is any member of Wild.              *)
(*                                                                         *)
(* ACKcount, ACKcounter and ECNcount are set by neither the constructor    *)
(* nor reset(): the first flow takes them from memory, the next ones from  *)
(* the flow before.                                                        *)
(*                                                                         *)
(* Around the window stands what feeds it: the file that send_file()       *)
(* reads, the chunks outstanding, and in_flight, the packets that may yet  *)
(* come back as an ack.  Which ack they bring is the network's choice.     *)
(* The FIN, which packets_in_window does not count, is left out.           *)
(***************************************************************************)
EXTENDS Integers

CONSTANTS Initial_Window_Threshold,
          Unit,          \* the least float is 1 / Unit (1 / 2^149 in the code),
          MaxFloat,      \* the largest MaxFloat / Unit
          MaxInt,        \* and the largest int MaxInt
          Infinity, MinusInfinity, NaN,
          Wild,          \* what an int may become that cannot hold its float
          Chunks,        \* chunks of each file
          Leftovers,     \* the <<ACKcount, ECNcount>> that memory may hold before the first flow
          MaxFlows,      \* bound: flows that start from the host
          MaxInFlight    \* bound: no timer expires while this many packets are in flight

Specials == {Infinity, MinusInfinity, NaN}

ASSUME FloatAssumption ==
    /\ Unit \in Nat \ {0} /\ MaxInt \in Nat \ {0}
    /\ MaxFloat \in Nat /\ MaxInt * Unit =< MaxFloat
    /\ \A x \in Specials : x \notin Int
    /\ MinusInfinity # Infinity /\ NaN # Infinity
ASSUME WildAssumption == Wild \subseteq (-MaxInt - 1)..MaxInt
ASSUME WindowAssumption == Initial_Window_Threshold \in 0..MaxInt
ASSUME LeftoversAssumption == Leftovers \subseteq Int \X Int
ASSUME BoundsAssumption == Chunks \in 1..MaxInt /\ MaxFlows \in Nat /\ MaxInFlight \in Nat

VARIABLES host,          \* the members of the source
          left,          \* chunks not yet read from the file
          in_flight, flows,
          memory,        \* the counters that the first flow has found,
          shrunk,        \* what halvings have divided the window by since it last opened,
          sinceCut,      \* new acks since the window was last cut for ECN marks,
          cutAt          \* and the window, in packets, that was cut then

vars == <<host, left, in_flight, flows, memory, shrunk, sinceCut, cutAt>>

---------------------------------------------------------------------------
(* Floats.                                                                 *)

Abs(a) == IF a < 0 THEN -a ELSE a

\* a / b, rounded towards 0.
Quotient(a, b) == IF (a < 0) = (b < 0) THEN Abs(a) \div Abs(b) ELSE -(Abs(a) \div Abs(b))

Float(x) == IF x > MaxFloat THEN Infinity ELSE IF x < -MaxFloat THEN MinusInfinity ELSE x

\* The ints that (int) x and floor(x) give.
Ints(x, n) == IF x \in Specials \/ Abs(x) > MaxInt * Unit THEN Wild ELSE {n}
Whole(x)   == Ints(x, IF x \in Specials THEN 0 ELSE Quotient(x, Unit))
Floor(x)   == Ints(x, IF x \in Specials THEN 0 ELSE x \div Unit)

\* x / n, for a positive n.
Part(x, n) == IF x \in Specials THEN x ELSE Quotient(x, n)

\* x * (1 - alpha / 2).
Scaled(x, alpha) ==
    LET factor == 2 * Unit - alpha
    IN  IF x \notin Specials THEN Float(Quotient(x * factor, 2 * Unit))
        ELSE IF x = NaN \/ factor = 0 THEN NaN
        ELSE IF (factor > 0) = (x = Infinity) THEN Infinity ELSE MinusInfinity

\* x + j / x, for a number x.  What the largest float has added to it is lost.
Inverse_Added(x, j) ==
    LET q == IF x = 0 THEN Infinity ELSE Float(Quotient(j * Unit * Unit, x))
    IN  IF q \in Specials THEN q ELSE IF x + q > MaxFloat THEN MaxFloat ELSE x + q

\* What a fresh Host and reset() agree on.
Reset(h) == [h EXCEPT !.window_size = Unit, !.Window_threshold = Initial_Window_Threshold,
                      !.packets_in_window = 0, !.ACKcount_flag = 0, !.alpha1 = 0]

---------------------------------------------------------------------------
(* congestion_control().                                                   *)

\* The share of marked acks, averaged with weight G = 1/2.
Share(h) == IF h.ACKcount = 0 THEN h.alpha1
            ELSE Quotient(h.alpha1 + Quotient(Unit * h.ECNcount, h.ACKcount), 2)

Cut_KeepsECNcount(h, n) ==
    [h EXCEPT !.alpha1 = Share(h), !.ACKcount_flag = 1, !.ACKcount = n, !.ACKcounter = n,
              !.window_size = Scaled(@, Share(h))]

\* A round of acks is over: the window shrinks by half the share of the marks,
\* and the next round is as long as the window was, n packets.
Cut(h, n) ==
    [h EXCEPT !.alpha1 = Share(h), !.ACKcount_flag = 1, !.ECNcount = 0,
              !.ACKcount = n, !.ACKcounter = n, !.window_size = Scaled(@, Share(h))]

Feedback_EndsAtMark(h, ECN1, n) ==
    IF h.ACKcount_flag = 0 THEN Cut(h, n)
    ELSE IF h.ACKcounter > 0
         THEN [h EXCEPT !.ACKcounter = @ - 1, !.ECNcount = @ + ECN1, !.ACKcount_flag = 1 - ECN1]
    ELSE [h EXCEPT !.ACKcount_flag = 0]

Feedback(h, ECN1, n) ==
    IF h.ACKcount_flag = 0 THEN Cut(h, n)
    ELSE IF h.ACKcounter > 0 THEN [h EXCEPT !.ACKcounter = @ - 1, !.ECNcount = @ + ECN1]
    ELSE [h EXCEPT !.ACKcount_flag = 0]

Grow_OverThreshold(h, j) ==
    LET w == h.window_size
    IN  IF w \in Specials THEN h
        ELSE [h EXCEPT !.window_size = IF w < h.Window_threshold * Unit THEN 2 * w + j * Unit
                                       ELSE Inverse_Added(w, j)]

Grow_SparesTheDivision(h, j) ==
    LET w         == h.window_size
        threshold == h.Window_threshold * Unit
    IN  IF w \in Specials THEN h
        ELSE [h EXCEPT !.window_size = IF w + j * Unit < threshold THEN w + j * Unit
                                       ELSE IF w < threshold THEN threshold
                                       ELSE IF w = 0 THEN 0 ELSE Inverse_Added(w, j)]

\* j packets are acknowledged: slow start up to the threshold, then j / window.
\* An infinite window and NaN stay what they are.
Grow(h, j) ==
    LET w         == h.window_size
        threshold == h.Window_threshold * Unit
    IN  IF w \in Specials THEN h
        ELSE [h EXCEPT !.window_size = IF w + j * Unit < threshold THEN w + j * Unit
                                       ELSE IF w < threshold THEN threshold
                                       ELSE Inverse_Added(w, j)]

Acknowledged(h, j, ECN1, n) ==
    [Grow(Feedback(h, ECN1, n), j) EXCEPT !.dup_ack_count = 0, !.packets_in_window = @ - j]

---------------------------------------------------------------------------
(* The steps of the source.                                                *)

\* The packets that the window still lets out, and the chunks that send_file()
\* reads: no number of packets reaches an infinite window, or NaN.
Free(h) == IF h.window_size \in Specials
           THEN IF h.window_size = MinusInfinity THEN 0 ELSE left
           ELSE (h.window_size + Unit - 1) \div Unit - h.packets_in_window
Room(h) == IF Free(h) =< 0 THEN 0 ELSE IF Free(h) < left THEN Free(h) ELSE left

SendFile(h, packets) ==
    /\ host' = [h EXCEPT !.packets_in_window = @ + Room(h)]
    /\ left' = left - Room(h)
    /\ in_flight' = packets + Room(h)

FreshHost(l, dup) ==
    [ window_size |-> Unit, Window_threshold |-> Initial_Window_Threshold, packets_in_window |-> 0,
      dup_ack_count |-> dup, alpha1 |-> 0,
      ACKcount_flag |-> 0, ACKcount |-> l[1], ACKcounter |-> 0, ECNcount |-> l[2] ]

Init == /\ memory \in Leftovers
        /\ \E dup \in {0, 1} : host = FreshHost(memory, dup)
        /\ left = 0 /\ in_flight = 0 /\ flows = 0
        /\ shrunk = 1 /\ sinceCut = 0 /\ cutAt = -1

\* A flow begins, and the SYN-ACK comes back.
Established ==
    /\ left = 0 /\ host.packets_in_window = 0 /\ flows < MaxFlows
    /\ host' = [Reset(host) EXCEPT !.packets_in_window = 1]
    /\ left' = Chunks - 1
    /\ in_flight' = 1
    /\ flows' = flows + 1 /\ shrunk' = 1 /\ sinceCut' = 0 /\ cutAt' = -1
    /\ UNCHANGED memory

\* What is still outstanding after a new ack has its oldest packet sent again.
NewAck ==
    /\ in_flight > 0
    /\ \E j \in 1..host.packets_in_window, ECN1 \in {0, 1}, n \in Floor(host.window_size) :
          LET h == Acknowledged(host, j, ECN1, n)
          IN  /\ SendFile(h, in_flight - 1 + (IF h.packets_in_window > 0 THEN 1 ELSE 0))
              /\ IF host.ACKcount_flag = 0
                 THEN sinceCut' = 0 /\ cutAt' = n
                 ELSE sinceCut' = sinceCut + 1 /\ UNCHANGED cutAt
    /\ shrunk' = 1
    /\ UNCHANGED <<flows, memory>>

Halve_EveryTime(h, n) ==
    [h EXCEPT !.dup_ack_count = 1 - @, !.window_size = Part(@, 2), !.Window_threshold = n]

\* Every second repetition of an ack halves the window, however many there are;
\* n is what the threshold becomes then.
Halve(h, n) ==
    IF h.dup_ack_count = 0 THEN [h EXCEPT !.dup_ack_count = 1]
    ELSE [h EXCEPT !.dup_ack_count = 0, !.window_size = Part(@, 2), !.Window_threshold = n]

\* The halving goes with a resend of the oldest packet.
DuplicateAck ==
    /\ in_flight > 0
    /\ \E n \in Whole(Part(host.window_size, 2)) :
          SendFile(Halve(host, n),
                   in_flight - 1 + (IF host.dup_ack_count = 1 /\ host.packets_in_window > 0
                                    THEN 1 ELSE 0))
    /\ shrunk' = IF host.dup_ack_count = 1 THEN 2 * shrunk ELSE shrunk
    /\ UNCHANGED <<flows, memory, sinceCut, cutAt>>

Timeout ==
    /\ host.packets_in_window > 0 /\ in_flight < MaxInFlight
    /\ \E n \in Whole(Part(host.window_size, 2)) :
          host' = [host EXCEPT !.Window_threshold = n, !.window_size = Unit]
    /\ in_flight' = in_flight + 1
    /\ shrunk' = 1
    /\ UNCHANGED <<left, flows, memory, sinceCut, cutAt>>

\* A packet or its ack is dropped, or comes back as an ack that says nothing new.
Nothing == /\ in_flight > 0
           /\ in_flight' = in_flight - 1
           /\ UNCHANGED <<host, left, flows, memory, shrunk, sinceCut, cutAt>>

Next == Established \/ NewAck \/ DuplicateAck \/ Timeout \/ Nothing

Spec == Init /\ [][Next]_vars

---------------------------------------------------------------------------
(* Properties.                                                             *)

\* Memory may hold anything; these are the counters whose share of marks is one.
Sound(l) == l[1] = 0 \/ l[2] \in 0..l[1] \/ l[2] \in l[1]..0

\* The counters that the running flow has begun with were sound, or were not
\* taken from memory but left by an earlier flow.
Trusted == Sound(memory) \/ flows > 1

\* In a round no more marks are counted than acks, whatever the counters were.
\* And the estimate of congestion is a share, so that an ECN cut at most halves
\* the window: always from the second flow of a host on, since what the first
\* leaves is sound even where memory was not, and in the first if memory was.
\* (A first flow that finds other counters may cut its window to 0 or less.)
FeedbackIsAShare ==
    /\ host.ACKcount_flag = 1 =>
          host.ECNcount >= 0 /\ host.ECNcount + host.ACKcounter =< host.ACKcount
    /\ Trusted => host.alpha1 \in 0..Unit

\* Repeated acks may halve the window until the float is 0, and the next new
\* ack divides by it.  But only they do: a window smaller than a packet has
\* been halved that often since the last new ack or timeout, whatever ECN cuts
\* came before.  And even at 0, where nothing can be sent, nothing is stuck: a
\* source with chunks left to send has one outstanding, whose timer or ack
\* opens the window again.
WindowOpens ==
    Trusted => /\ host.window_size = Infinity \/ (host.window_size + 1) * shrunk > Unit
               /\ left > 0 => host.packets_in_window > 0

\* The window is cut for ECN marks at most once in a round: as many new acks
\* as the window had packets, and one more, lie between two cuts of a flow.
OneCutPerRound ==
    [][host.ACKcount_flag = 0 /\ host'.ACKcount_flag = 1 => sinceCut > cutAt]_vars

\* An ack makes the window grow by no more than the packets it acknowledges,
\* as long as Window_threshold is above 0.  (It is 0 after a halving below 2 or
\* a timeout below 2 packets; then j / window_size with a window below 1 leaps,
\* as far as Infinity.)
NoLeapAboveThreshold ==
    [][Trusted /\ host.Window_threshold > 0 /\ host.window_size # Infinity /\ flows' = flows
          => /\ host'.window_size # Infinity
             /\ host'.window_size =< host.window_size
                   + Unit * (host.packets_in_window + left - host'.packets_in_window - left')]_vars
=============================================================================
