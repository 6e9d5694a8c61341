---------------------------- MODULE RttEstimator ----------------------------
(***************************************************************************)
(* The round-trip estimate of a sending Host (dtp/Host.cpp): RTT, RTTVAR   *)
(* and RTO are of the integer type Time, and are computed in floating      *)
(* point with the weights alpha = 1/8 and beta = 1/4 and then truncated.   *)
(* Both products are multiples of 1/8, which a double holds exactly, and   *)
(* none is negative: truncation is \div.                                   *)
(*                                                                         *)
(* An estimate is a record [RTT, RTTVAR, RTO].                             *)
(***************************************************************************)
EXTENDS Integers

CONSTANT timeout         \* RTO until the first measurement

ASSUME TimeoutAssumption == timeout \in Nat \ {0}

K == 4

abs(x) == IF x < 0 THEN -x ELSE x

Estimate(rtt, var) == [RTT |-> rtt, RTTVAR |-> var, RTO |-> rtt + K * var]

\* reset() gives RTO and RTT a new start and forgets RTTVAR.
Restart(e) == [e EXCEPT !.RTT = 0, !.RTO = timeout]

\* The SYN-ACK gives the first measurement.
FirstSample(s) == Estimate(s, s \div 2)

NextSample_RoundsDeviationUp(e, s) ==
    Estimate((7 * e.RTT + s) \div 8, (3 * e.RTTVAR + abs(e.RTT - s) + 3) \div 4)

NextSample_LosesWeight(e, s) ==
    Estimate((6 * e.RTT + s) \div 8, (3 * e.RTTVAR + abs(e.RTT - s)) \div 4)

\* Every new ack: RTTVAR is taken against the RTT before.
NextSample(e, s) ==
    Estimate((7 * e.RTT + s) \div 8, (3 * e.RTTVAR + abs(e.RTT - s)) \div 4)
=============================================================================
