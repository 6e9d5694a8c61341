----------------------------- MODULE RttSteady -----------------------------
(***************************************************************************)
(* The estimator of RttEstimator on a network whose round trip has become  *)
(* steady: from any estimate, every further measurement is the same.       *)
(***************************************************************************)
EXTENDS RttEstimator

CONSTANT MaxTrip         \* bound: round trips and deviations considered

ASSUME MaxTripAssumption == MaxTrip \in Nat

VARIABLES estimate, sample

Init == /\ sample \in 0..MaxTrip
        /\ \E rtt, var \in 0..MaxTrip : estimate = Estimate(rtt, var)

NewAck == /\ estimate' = NextSample(estimate, sample)
          /\ UNCHANGED sample

Spec == Init /\ [][NewAck]_<<estimate, sample>>

\* Acks keep coming.
FairSpec == Spec /\ WF_<<estimate, sample>>(NewAck)

---------------------------------------------------------------------------
\* Truncation lets RTT rest up to 7 below the true round trip, never above it,
\* and RTTVAR up to 7; then RTO rests between 3 below and 21 above the trip.
Settles ==
    <>[](/\ estimate.RTT \in sample-7 .. sample
         /\ estimate.RTO \in sample-3 .. sample+21)

\* Where RTT is exact RTO loses its margin: a timer set when a packet leaves
\* expires at the very tick its ack arrives, and goes first.
MarginVanishes == []([](estimate.RTT = sample) => <>[](estimate.RTO = sample))
=============================================================================
