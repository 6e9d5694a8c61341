-------------------------------- MODULE Rto --------------------------------
(***************************************************************************)
(* How a sending Host measures round trips and sets its timers             *)
(* (dtp/Host.cpp): last_transmit, the table send_time and the estimate,    *)
(* through several flows that the same host sends one after another.       *)
(*                                                                         *)
(* Only what the estimate depends on is kept of the protocol: the packets  *)
(* are numbered as in Fdtp, a step takes any of the Gaps in virtual time,  *)
(* and an ack may name any packet that is outstanding.  lo and hi (the     *)
(* smallest and largest measurement of the flow) and started (the time of  *)
(* its SYN) are history.                                                   *)
(***************************************************************************)
EXTENDS RttEstimator, FiniteSets

CONSTANTS FinId,         \* number of the FIN; the chunks are 3 .. FinId-1
          Bursts,        \* numbers of chunks that send_file() may send at once
          Gaps,          \* times between two events
          MaxFlows       \* bound: flows of this host

ASSUME FinIdAssumption == FinId \in Nat /\ FinId > 2
ASSUME BurstsAssumption == Bursts \subseteq Nat
ASSUME GapsAssumption == Gaps \subseteq Nat
ASSUME MaxFlowsAssumption == MaxFlows \in Nat

VARIABLES now, flows, phase, sent_so_far, last_ack,
          estimate,      \* [RTT, RTTVAR, RTO]
          last_transmit, send_time,
          started, lo, hi

vars == <<now, flows, phase, sent_so_far, last_ack, estimate, last_transmit, send_time,
          started, lo, hi>>

Phases == {"idle", "syn", "open", "closed"}

\* RTTVAR, last_transmit: the constructor leaves them as they come.
Init == /\ now = 0 /\ flows = 0 /\ phase = "idle"
        /\ sent_so_far = 0 /\ last_ack = 0
        /\ estimate = [RTT |-> 0, RTTVAR |-> 0, RTO |-> timeout]
        /\ last_transmit = 0 /\ send_time = <<>>
        /\ started = 0 /\ lo = 0 /\ hi = 0

Advance == \E g \in Gaps : now' = now + g

Remember_Overwrites(new, t) ==
    [i \in DOMAIN send_time \cup new |-> IF i \in new THEN t ELSE send_time[i]]

\* std::map::insert: the number of an earlier flow keeps its old time.
Remember(new, t) ==
    [i \in DOMAIN send_time \cup new |-> IF i \in DOMAIN send_time THEN send_time[i] ELSE t]

\* send_file(): n more chunks, and the FIN when the file is at its end and the
\* window not full; an empty window always has room.  A timer that send_file()
\* sets, because nothing was outstanding, dates last_transmit.
SendFile(acked, sent, n, watched) ==
    LET left   == FinId - 1 - sent
        chunks == sent+1 .. sent + n
    IN  /\ n =< left
        /\ \E fin \in {0, 1} :
              /\ fin = 1 => n = left
              /\ acked = sent => n + fin > 0
              /\ sent_so_far' = sent + n + fin
              /\ send_time' = Remember(chunks, now')
              /\ last_transmit' = IF acked = sent /\ n + fin > 0 THEN now' ELSE watched

---------------------------------------------------------------------------
Sync_KeepsLastTransmit ==
    /\ phase \in {"idle", "closed"} /\ flows < MaxFlows
    /\ Advance
    /\ flows' = flows + 1 /\ phase' = "syn" /\ started' = now'
    /\ sent_so_far' = 1 /\ last_ack' = 0
    /\ estimate' = Restart(estimate)
    /\ lo' = 0 /\ hi' = 0
    /\ UNCHANGED <<send_time, last_transmit>>

\* The start timer: sync(), reset() and the SYN.  send_time stays.
Sync ==
    /\ phase \in {"idle", "closed"} /\ flows < MaxFlows
    /\ Advance
    /\ flows' = flows + 1 /\ phase' = "syn" /\ started' = now'
    /\ sent_so_far' = 1 /\ last_ack' = 0
    /\ estimate' = Restart(estimate)
    /\ last_transmit' = now'
    /\ lo' = 0 /\ hi' = 0
    /\ UNCHANGED send_time

\* The SYN-ACK: the ACK is packet 2, and the first chunks follow.
SynAck ==
    /\ phase = "syn"
    /\ Advance
    /\ phase' = "open" /\ last_ack' = 2
    /\ LET s == now' - last_transmit
       IN  estimate' = FirstSample(s) /\ lo' = s /\ hi' = s
    /\ \E n \in Bursts : SendFile(2, 2, n, last_transmit)
    /\ UNCHANGED <<flows, started>>

Watched_AckedPacket(ack) == IF ack \in DOMAIN send_time THEN send_time[ack] ELSE now'

\* The packet measured next: the one after the ack, or the present.
Watched(ack) == IF ack + 1 \in DOMAIN send_time THEN send_time[ack + 1] ELSE now'

\* sent_window_sync() of a new ack, and send_file(), which the FIN-ACK omits.
\* The FIN's number may also come in a plain ack, and the flow stays open.
NewAck ==
    /\ phase = "open"
    /\ Advance
    /\ \E ack \in last_ack+1 .. sent_so_far :
          /\ last_ack' = ack
          /\ LET s == now' - last_transmit
             IN  /\ estimate' = NextSample(estimate, s)
                 /\ lo' = (IF s < lo THEN s ELSE lo) /\ hi' = (IF s > hi THEN s ELSE hi)
          /\ \/ /\ ack = FinId
                /\ phase' \in {"open", "closed"}
                /\ last_transmit' = Watched(ack)
                /\ UNCHANGED <<sent_so_far, send_time>>
             \/ /\ ack # FinId /\ sent_so_far = FinId
                /\ last_transmit' = Watched(ack)
                /\ UNCHANGED <<phase, sent_so_far, send_time>>
             \/ /\ sent_so_far < FinId
                /\ \E n \in Bursts : SendFile(ack, sent_so_far, n, Watched(ack))
                /\ UNCHANGED phase
    /\ UNCHANGED <<flows, started>>

---------------------------------------------------------------------------
Next == Sync \/ SynAck \/ NewAck

Spec == Init /\ [][Next]_vars

---------------------------------------------------------------------------
(* Properties.                                                             *)

Estimates == [RTT : Nat, RTTVAR : Nat, RTO : Nat]

TimesOK == \E S \in SUBSET (3 .. FinId-1) : send_time \in [S -> 0..now]

TypeOK ==
    /\ now \in Nat /\ started \in 0..now /\ last_transmit \in 0..now
    /\ flows \in 0..MaxFlows /\ phase \in Phases
    /\ sent_so_far \in 0..FinId /\ last_ack \in 0..sent_so_far
    /\ estimate \in Estimates
    /\ TimesOK
    /\ lo \in Nat /\ hi \in Nat

\* Truncating after every step does not carry the estimate away: RTT stays
\* between the smallest and the largest round trip of the flow.
RttWithinSamples == phase \in {"open", "closed"} => lo =< estimate.RTT /\ estimate.RTT =< hi

\* A timer is never set further ahead than the flow's round trips justify.
RtoBounded ==
    phase \in {"open", "closed"} =>
        \/ estimate.RTO =< estimate.RTT + K * (hi \div 2)
        \/ estimate.RTO =< estimate.RTT + K * (hi - lo)

TimePasses == \A g \in Gaps : g > 0

\* Every timer lies in the future.  A timer set for the present would be the
\* next event, set itself again, and stop the virtual clock for good.
TimersLieAhead == TimePasses /\ phase # "idle" => estimate.RTO > 0

\* What is measured is a packet of this flow.  The one exception is a packet
\* whose number an earlier flow has used: reset() keeps send_time.
MeasuresOwnFlow ==
    \/ last_transmit >= started
    \/ /\ flows > 1
       /\ last_ack + 1 \in DOMAIN send_time /\ last_transmit = send_time[last_ack + 1]
=============================================================================
