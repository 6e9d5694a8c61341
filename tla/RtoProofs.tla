----------------------------- MODULE RtoProofs -----------------------------
(***************************************************************************)
(* Proofs about Rto, for every timeout, every set of gaps between events,  *)
(* every length of the file and number of flows.                           *)
(***************************************************************************)
EXTENDS Rto, TLAPS

---------------------------------------------------------------------------
(* The estimator.                                                          *)

\* A measurement moves RTT towards itself and not past it.
LEMMA SmoothedBetween ==
    ASSUME NEW rtt \in Nat, NEW s \in Nat, NEW low \in Nat, NEW high \in Nat,
           low =< rtt, rtt =< high, low =< s, s =< high
    PROVE  /\ (7 * rtt + s) \div 8 \in Nat
           /\ low =< (7 * rtt + s) \div 8
           /\ (7 * rtt + s) \div 8 =< high
  OBVIOUS

\* RTTVAR never exceeds both what it was and the deviation just seen.
LEMMA DeviationBetween ==
    ASSUME NEW var \in Nat, NEW d \in Nat, NEW high \in Nat, var =< high, d =< high
    PROVE  (3 * var + d) \div 4 \in Nat /\ (3 * var + d) \div 4 =< high
  OBVIOUS

\* The next estimate is one of natural numbers, RTT within the bounds and
\* RTTVAR at most what it was or the width of the bounds.
LEMMA NextSampleLemma ==
    ASSUME NEW e \in Estimates, NEW s \in Nat, NEW low \in Nat, NEW high \in Nat,
           low =< e.RTT, e.RTT =< high, low =< s, s =< high
    PROVE  LET f == NextSample(e, s)
           IN  /\ f \in Estimates
               /\ low =< f.RTT /\ f.RTT =< high
               /\ f.RTO = f.RTT + K * f.RTTVAR
               /\ \A w \in Nat : e.RTTVAR =< w /\ high - low =< w => f.RTTVAR =< w
  <1> DEFINE d == abs(e.RTT - s)
             f == NextSample(e, s)
  <1>1. d \in Nat /\ d =< high - low
    BY DEF abs, Estimates
  <1>2. /\ f.RTT = (7 * e.RTT + s) \div 8
        /\ f.RTTVAR = (3 * e.RTTVAR + d) \div 4
        /\ f.RTO = f.RTT + K * f.RTTVAR
        /\ f = [RTT |-> f.RTT, RTTVAR |-> f.RTTVAR, RTO |-> f.RTO]
    BY DEF NextSample, Estimate
  <1>3. e.RTT \in Nat /\ e.RTTVAR \in Nat
    BY DEF Estimates
  <1>4. f.RTT \in Nat /\ low =< f.RTT /\ f.RTT =< high
    BY <1>2, <1>3, SmoothedBetween
  <1>5. f.RTTVAR \in Nat /\ \A w \in Nat : e.RTTVAR =< w /\ high - low =< w => f.RTTVAR =< w
    <2>1. f.RTTVAR \in Nat
      BY <1>1, <1>2, <1>3
    <2>2. ASSUME NEW w \in Nat, e.RTTVAR =< w, high - low =< w
          PROVE  f.RTTVAR =< w
      BY <1>1, <1>2, <1>3, <2>2, DeviationBetween
    <2> QED BY <2>1, <2>2
  <1>6. f.RTO \in Nat
    BY <1>2, <1>4, <1>5 DEF K
  <1> QED BY <1>2, <1>4, <1>5, <1>6 DEF Estimates

---------------------------------------------------------------------------
(* The inductive invariant.                                                *)

Measured == phase \in {"open", "closed"}

\* The times in the table belong to the first flow while there is no other.
TableInv ==
    /\ phase = "idle" <=> flows = 0
    /\ flows = 0 => DOMAIN send_time = {}
    /\ flows = 1 => \A i \in DOMAIN send_time : started =< send_time[i]

\* The estimate of an open flow, and the spread RTTVAR may show.
SpreadInv ==
    Measured =>
        /\ lo =< estimate.RTT /\ estimate.RTT =< hi
        /\ estimate.RTO = estimate.RTT + K * estimate.RTTVAR
        /\ estimate.RTTVAR =< hi \div 2 \/ estimate.RTTVAR =< hi - lo
        /\ TimePasses => lo > 0

PhaseInv ==
    /\ phase = "syn" => last_ack = 0 /\ sent_so_far = 1 /\ estimate.RTO = timeout /\ last_transmit = started
    /\ Measured => last_ack >= 2 /\ last_ack =< sent_so_far

IInv == TypeOK /\ TableInv /\ SpreadInv /\ PhaseInv /\ MeasuresOwnFlow

\* Before the first event nothing is measured.
LEMMA InitInv == Init => IInv
  BY FinIdAssumption, MaxFlowsAssumption, TimeoutAssumption
     DEF Init, IInv, TypeOK, TimesOK, TableInv, SpreadInv, PhaseInv, MeasuresOwnFlow, Measured, Phases, Estimates

\* Time goes on, by more than nothing if no gap is empty.
LEMMA AdvanceLemma ==
    ASSUME now \in Nat, Advance
    PROVE  now' \in Nat /\ now' >= now /\ (TimePasses => now' > now)
  BY GapsAssumption DEF Advance, TimePasses

\* The time between two moments.
LEMMA ElapsedLemma ==
    ASSUME NEW t \in Nat, NEW u \in Nat, u =< t
    PROVE  t - u \in Nat /\ (t > u => t - u > 0)
  OBVIOUS

\* Bounds that widen allow the deviation no less.
LEMMA WidthLemma ==
    ASSUME NEW low \in Nat, NEW high \in Nat, NEW low1 \in Nat, NEW high1 \in Nat,
           low1 =< low, low =< high, high =< high1
    PROVE  /\ high1 - low1 \in Nat /\ high - low =< high1 - low1
           /\ high1 \div 2 \in Nat /\ high \div 2 =< high1 \div 2
  OBVIOUS

\* send_file() keeps the types, the old times, and dates what it dates now.
LEMMA SendFileLemma ==
    ASSUME IInv, now' \in Nat, now' >= now,
           NEW acked \in Nat, NEW sent \in 2..FinId, NEW n \in Bursts, NEW w \in 0..now',
           SendFile(acked, sent, n, w)
    PROVE  /\ sent_so_far' \in sent..FinId
           /\ last_transmit' \in {w, now'}
           /\ acked = sent => last_transmit' = now'
           /\ TimesOK'
           /\ \A i \in DOMAIN send_time : i \in DOMAIN send_time' /\ send_time'[i] = send_time[i]
           /\ \A i \in DOMAIN send_time' \ DOMAIN send_time : send_time'[i] = now'
  <1>1. PICK S \in SUBSET (3 .. FinId-1) : send_time \in [S -> 0..now]
    BY DEF IInv, TypeOK, TimesOK
  <1>2. n \in Nat /\ FinId \in Nat /\ now \in Nat
    BY BurstsAssumption, FinIdAssumption DEF IInv, TypeOK
  <1>3. PICK fin \in {0, 1} :
           /\ fin = 1 => n = FinId - 1 - sent
           /\ acked = sent => n + fin > 0
           /\ sent_so_far' = sent + n + fin
           /\ send_time' = Remember(sent+1 .. sent + n, now')
           /\ last_transmit' = IF acked = sent /\ n + fin > 0 THEN now' ELSE w
    BY DEF SendFile
  <1>4. n =< FinId - 1 - sent
    BY DEF SendFile
  <1>5. sent+1 .. sent + n \in SUBSET (3 .. FinId-1)
    BY <1>2, <1>4
  <1>6. /\ send_time' \in [S \cup (sent+1 .. sent + n) -> 0..now']
        /\ \A i \in S : send_time'[i] = send_time[i]
        /\ \A i \in (sent+1 .. sent + n) \ S : send_time'[i] = now'
    <2> DEFINE new == sent+1 .. sent + n
    <2>1. send_time' = [i \in S \cup new |-> IF i \in S THEN send_time[i] ELSE now']
      BY <1>1, <1>3 DEF Remember
    <2> QED BY <1>1, <1>2, <1>5, <2>1
  <1>7. S \cup (sent+1 .. sent + n) \in SUBSET (3 .. FinId-1)
    BY <1>5
  <1>8. sent_so_far' \in sent..FinId
    BY <1>2, <1>3, <1>4
  <1>9. last_transmit' \in {w, now'} /\ (acked = sent => last_transmit' = now')
    BY <1>3
  <1>10. DOMAIN send_time = S /\ DOMAIN send_time' = S \cup (sent+1 .. sent + n)
    BY <1>1, <1>6
  <1> QED BY <1>6, <1>7, <1>8, <1>9, <1>10 DEF TimesOK

---------------------------------------------------------------------------
(* The steps.                                                              *)

\* A new flow starts: nothing is measured yet, and the table stays.
LEMMA SyncInv == ASSUME IInv, Sync PROVE IInv'
  <1>1. now' \in Nat /\ now' >= now
    BY AdvanceLemma DEF Sync, IInv, TypeOK
  <1>2. /\ flows' = flows + 1 /\ phase' = "syn" /\ started' = now'
        /\ sent_so_far' = 1 /\ last_ack' = 0
        /\ estimate' = [estimate EXCEPT !.RTT = 0, !.RTO = timeout]
        /\ last_transmit' = now' /\ lo' = 0 /\ hi' = 0
        /\ send_time' = send_time /\ flows < MaxFlows
    BY DEF Sync, Restart
  <1>3. flows \in 0..MaxFlows /\ estimate \in Estimates
    BY DEF IInv, TypeOK
  <1>4. estimate' \in Estimates /\ estimate'.RTO = timeout
    BY <1>2, <1>3, TimeoutAssumption DEF Estimates
  <1>5. TypeOK'
    <2>1. PICK S \in SUBSET (3 .. FinId-1) : send_time \in [S -> 0..now]
      BY DEF IInv, TypeOK, TimesOK
    <2>2. send_time' \in [S -> 0..now']
      BY <1>1, <1>2, <2>1 DEF IInv, TypeOK
    <2> QED BY <1>1, <1>2, <1>3, <1>4, <2>2, FinIdAssumption, MaxFlowsAssumption
            DEF TypeOK, TimesOK, Phases
  <1>6. TableInv'
    BY <1>2, <1>3 DEF IInv, TypeOK, TableInv
  <1>7. SpreadInv' /\ PhaseInv' /\ MeasuresOwnFlow'
    BY <1>1, <1>2, <1>4 DEF SpreadInv, PhaseInv, Measured, MeasuresOwnFlow
  <1> QED BY <1>5, <1>6, <1>7 DEF IInv

\* The first measurement: RTTVAR is half of it, and so is the allowed spread.
LEMMA SynAckInv == ASSUME IInv, SynAck PROVE IInv'
  <1> DEFINE s == now' - last_transmit
  <1>1. now' \in Nat /\ now' >= now /\ (TimePasses => now' > now)
    BY AdvanceLemma DEF SynAck, IInv, TypeOK
  <1>2. /\ phase = "syn" /\ phase' = "open" /\ last_ack' = 2
        /\ estimate' = FirstSample(s) /\ lo' = s /\ hi' = s
        /\ flows' = flows /\ started' = started
    BY DEF SynAck
  <1>3. s \in Nat /\ (TimePasses => s > 0)
    <2>1. /\ now \in Nat /\ last_transmit \in Nat /\ last_transmit =< now /\ last_transmit =< now'
          /\ (TimePasses => now' > last_transmit)
      BY <1>1 DEF IInv, TypeOK
    <2> QED BY <1>1, <2>1, ElapsedLemma
  <1>4. PICK n \in Bursts : SendFile(2, 2, n, last_transmit)
    BY DEF SynAck
  <1>5. 2 \in 2..FinId /\ 2 \in Nat /\ last_transmit \in 0..now'
    BY <1>1, FinIdAssumption DEF IInv, TypeOK
  <1>6. /\ sent_so_far' \in 2..FinId
        /\ last_transmit' = now'
        /\ TimesOK'
        /\ \A i \in DOMAIN send_time : i \in DOMAIN send_time' /\ send_time'[i] = send_time[i]
        /\ \A i \in DOMAIN send_time' \ DOMAIN send_time : send_time'[i] = now'
    BY <1>1, <1>4, <1>5, SendFileLemma
  <1>7. /\ estimate' \in Estimates
        /\ estimate'.RTT = s /\ estimate'.RTTVAR = s \div 2
        /\ estimate'.RTO = estimate'.RTT + K * estimate'.RTTVAR
    <2>1. s \div 2 \in Nat
      BY <1>3
    <2>2. s + K * (s \div 2) \in Nat
      BY <1>3, <2>1 DEF K
    <2> QED BY <1>2, <1>3, <2>1, <2>2 DEF FirstSample, Estimate, Estimates
  <1>8. TypeOK'
    <2>1. now' \in Nat /\ started' \in 0..now' /\ last_transmit' \in 0..now'
      BY <1>1, <1>2, <1>6 DEF IInv, TypeOK
    <2>2. flows' \in 0..MaxFlows /\ phase' \in Phases
      BY <1>2 DEF IInv, TypeOK, Phases
    <2>3. sent_so_far' \in 0..FinId /\ last_ack' \in 0..sent_so_far'
      BY <1>2, <1>6, FinIdAssumption
    <2>4. lo' \in Nat /\ hi' \in Nat
      BY <1>2, <1>3
    <2> QED BY <1>6, <1>7, <2>1, <2>2, <2>3, <2>4 DEF TypeOK
  <1>9. TableInv'
    BY <1>1, <1>2, <1>6 DEF IInv, TypeOK, TableInv
  <1>10. SpreadInv'
    BY <1>2, <1>3, <1>7 DEF SpreadInv, Measured
  <1>11. PhaseInv' /\ MeasuresOwnFlow'
    BY <1>1, <1>2, <1>6 DEF IInv, TypeOK, PhaseInv, Measured, MeasuresOwnFlow
  <1> QED BY <1>8, <1>9, <1>10, <1>11 DEF IInv

\* What a new ack does to last_transmit, send_time and sent_so_far, in its
\* three forms: the FIN's, one after the FIN was sent, and one before.
LEMMA NewAckSends ==
    ASSUME IInv, now' \in Nat, now' >= now, phase = "open",
           NEW ack \in last_ack+1 .. sent_so_far,
           \/ /\ last_transmit' = Watched(ack)
              /\ UNCHANGED <<sent_so_far, send_time>>
           \/ /\ sent_so_far < FinId
              /\ \E n \in Bursts : SendFile(ack, sent_so_far, n, Watched(ack))
    PROVE  /\ sent_so_far' \in sent_so_far..FinId
           /\ last_transmit' \in 0..now'
           /\ last_transmit' = now' \/ (/\ ack + 1 \in DOMAIN send_time'
                                       /\ last_transmit' = send_time'[ack + 1]
                                       /\ ack + 1 \in DOMAIN send_time
                                       /\ last_transmit' = send_time[ack + 1])
           /\ TimesOK'
           /\ \A i \in DOMAIN send_time : i \in DOMAIN send_time' /\ send_time'[i] = send_time[i]
           /\ \A i \in DOMAIN send_time' \ DOMAIN send_time : send_time'[i] = now'
  <1>1. PICK S \in SUBSET (3 .. FinId-1) : send_time \in [S -> 0..now]
    BY DEF IInv, TypeOK, TimesOK
  <1>2. now \in Nat /\ FinId \in Nat /\ sent_so_far \in 2..FinId /\ ack \in Nat
    BY FinIdAssumption DEF IInv, TypeOK, PhaseInv, Measured
  <1>3. Watched(ack) \in 0..now'
    BY <1>1, <1>2 DEF Watched
  <1>4. Watched(ack) = now' \/ (ack + 1 \in DOMAIN send_time /\ Watched(ack) = send_time[ack + 1])
    BY DEF Watched
  <1>5. CASE /\ last_transmit' = Watched(ack)
             /\ UNCHANGED <<sent_so_far, send_time>>
    <2>1. send_time' \in [S -> 0..now']
      BY <1>1, <1>2, <1>5
    <2> QED BY <1>2, <1>3, <1>4, <1>5, <2>1 DEF TimesOK
  <1>6. CASE \E n \in Bursts : SendFile(ack, sent_so_far, n, Watched(ack))
    <2>1. PICK n \in Bursts : SendFile(ack, sent_so_far, n, Watched(ack))
      BY <1>6
    <2>2. /\ sent_so_far' \in sent_so_far..FinId
          /\ last_transmit' \in {Watched(ack), now'}
          /\ TimesOK'
          /\ \A i \in DOMAIN send_time : i \in DOMAIN send_time' /\ send_time'[i] = send_time[i]
          /\ \A i \in DOMAIN send_time' \ DOMAIN send_time : send_time'[i] = now'
      <3>1. ASSUME NEW w, w = Watched(ack), NEW a, a = sent_so_far
            PROVE  SendFile(ack, a, n, w) /\ w \in 0..now' /\ a \in 2..FinId
        BY <1>2, <1>3, <2>1, <3>1
      <3> QED BY <1>2, <1>3, <2>1, <3>1, SendFileLemma
    <2> QED BY <1>2, <1>3, <1>4, <2>2
  <1> QED BY <1>5, <1>6

\* A new ack measures, and the estimate keeps within the flow's measurements.
LEMMA NewAckInv == ASSUME IInv, NewAck PROVE IInv'
  <1> DEFINE s == now' - last_transmit
  <1>1. now' \in Nat /\ now' >= now /\ (TimePasses => now' > now)
    BY AdvanceLemma DEF NewAck, IInv, TypeOK
  <1>2. PICK ack \in last_ack+1 .. sent_so_far :
           /\ phase = "open" /\ phase' \in {"open", "closed"} /\ last_ack' = ack
           /\ flows' = flows /\ started' = started
           /\ estimate' = NextSample(estimate, s)
           /\ lo' = (IF s < lo THEN s ELSE lo) /\ hi' = (IF s > hi THEN s ELSE hi)
           /\ \/ /\ last_transmit' = Watched(ack)
                 /\ UNCHANGED <<sent_so_far, send_time>>
              \/ /\ sent_so_far < FinId
                 /\ \E n \in Bursts : SendFile(ack, sent_so_far, n, Watched(ack))
    BY DEF NewAck
  <1>3. s \in Nat /\ (TimePasses => s > 0)
    <2>1. /\ now \in Nat /\ last_transmit \in Nat /\ last_transmit =< now /\ last_transmit =< now'
          /\ (TimePasses => now' > last_transmit)
      BY <1>1 DEF IInv, TypeOK
    <2> QED BY <1>1, <2>1, ElapsedLemma
  <1>4. /\ sent_so_far' \in sent_so_far..FinId
        /\ last_transmit' \in 0..now'
        /\ last_transmit' = now' \/ (/\ ack + 1 \in DOMAIN send_time'
                                    /\ last_transmit' = send_time'[ack + 1]
                                    /\ ack + 1 \in DOMAIN send_time
                                    /\ last_transmit' = send_time[ack + 1])
        /\ TimesOK'
        /\ \A i \in DOMAIN send_time : i \in DOMAIN send_time' /\ send_time'[i] = send_time[i]
        /\ \A i \in DOMAIN send_time' \ DOMAIN send_time : send_time'[i] = now'
    BY <1>1, <1>2, NewAckSends
  <1>5. /\ estimate \in Estimates /\ lo \in Nat /\ hi \in Nat
        /\ lo =< estimate.RTT /\ estimate.RTT =< hi
        /\ estimate.RTTVAR =< hi \div 2 \/ estimate.RTTVAR =< hi - lo
        /\ TimePasses => lo > 0
    BY <1>2 DEF IInv, TypeOK, SpreadInv, Measured
  <1>6. /\ lo' \in Nat /\ hi' \in Nat /\ lo' =< lo /\ hi =< hi' /\ lo' =< s /\ s =< hi'
        /\ TimePasses => lo' > 0
    BY <1>2, <1>3, <1>5
  <1>7. estimate.RTT \in Nat /\ estimate.RTTVAR \in Nat /\ lo' =< estimate.RTT /\ estimate.RTT =< hi'
    BY <1>5, <1>6 DEF Estimates
  <1>8. /\ estimate' \in Estimates
        /\ lo' =< estimate'.RTT /\ estimate'.RTT =< hi'
        /\ estimate'.RTO = estimate'.RTT + K * estimate'.RTTVAR
        /\ \A w \in Nat : estimate.RTTVAR =< w /\ hi' - lo' =< w => estimate'.RTTVAR =< w
    <2>1. ASSUME NEW low \in Nat, NEW high \in Nat, NEW x \in Nat, low = lo', high = hi', x = s
          PROVE  LET f == NextSample(estimate, x)
                 IN  /\ f \in Estimates
                     /\ low =< f.RTT /\ f.RTT =< high
                     /\ f.RTO = f.RTT + K * f.RTTVAR
                     /\ \A w \in Nat : estimate.RTTVAR =< w /\ high - low =< w => f.RTTVAR =< w
      BY <1>5, <1>6, <1>7, <2>1, NextSampleLemma
    <2> QED BY <1>2, <1>3, <1>6, <2>1
  <1>9. estimate'.RTTVAR =< hi' \div 2 \/ estimate'.RTTVAR =< hi' - lo'
    <2> DEFINE width == hi' - lo'
               half  == hi' \div 2
    <2>1. width \in Nat /\ hi - lo =< width /\ half \in Nat /\ hi \div 2 =< half
      <3>1. lo =< hi
        BY <1>5, <1>7 DEF Estimates
      <3> QED BY <1>5, <1>6, <3>1, WidthLemma
    <2>2. \A w \in Nat : estimate.RTTVAR =< w /\ width =< w => estimate'.RTTVAR =< w
      BY <1>8
    <2>3. (hi - lo) \in Int /\ (hi \div 2) \in Int
      BY <1>5
    <2> HIDE DEF width, half
    <2>4. estimate.RTTVAR =< half \/ estimate.RTTVAR =< width
      BY <1>5, <1>7, <2>1, <2>3
    <2>5. estimate'.RTTVAR =< half \/ estimate'.RTTVAR =< width
      BY <1>7, <2>1, <2>2, <2>4
    <2> QED BY <2>5 DEF width, half
  <1>10. TypeOK'
    <2>1. now' \in Nat /\ started' \in 0..now' /\ last_transmit' \in 0..now'
      BY <1>1, <1>2, <1>4 DEF IInv, TypeOK
    <2>2. flows' \in 0..MaxFlows /\ phase' \in Phases
      BY <1>2 DEF IInv, TypeOK, Phases
    <2>3. sent_so_far \in Nat /\ last_ack \in Nat
      BY FinIdAssumption DEF IInv, TypeOK
    <2>4. sent_so_far' \in 0..FinId /\ last_ack' \in 0..sent_so_far'
      BY <1>2, <1>4, <2>3, FinIdAssumption
    <2> QED BY <1>4, <1>6, <1>8, <2>1, <2>2, <2>4 DEF TypeOK
  <1>11. TableInv'
    BY <1>1, <1>2, <1>4 DEF IInv, TypeOK, TableInv
  <1>12. SpreadInv'
    BY <1>6, <1>8, <1>9 DEF SpreadInv
  <1>13. PhaseInv'
    BY <1>2, <1>4, FinIdAssumption DEF IInv, TypeOK, PhaseInv, Measured
  <1>14. MeasuresOwnFlow'
    <2>1. CASE last_transmit' = now'
      BY <1>1, <1>2, <2>1 DEF IInv, TypeOK, MeasuresOwnFlow
    <2>2. CASE /\ ack + 1 \in DOMAIN send_time' /\ last_transmit' = send_time'[ack + 1]
               /\ ack + 1 \in DOMAIN send_time /\ last_transmit' = send_time[ack + 1]
      <3>1. flows \in Nat /\ flows # 0
        BY <1>2 DEF IInv, TypeOK, TableInv
      <3>2. CASE flows = 1
        BY <1>2, <2>2, <3>2 DEF IInv, TableInv, MeasuresOwnFlow
      <3>3. CASE flows > 1
        BY <1>2, <2>2, <3>3 DEF MeasuresOwnFlow
      <3> QED BY <3>1, <3>2, <3>3
    <2> QED BY <1>4, <2>1, <2>2
  <1> QED BY <1>10, <1>11, <1>12, <1>13, <1>14 DEF IInv

\* Every step keeps the invariant.
LEMMA NextInv == IInv /\ [Next]_vars => IInv'
  <1> SUFFICES ASSUME IInv, [Next]_vars PROVE IInv'
    OBVIOUS
  <1>1. CASE Sync
    BY <1>1, SyncInv
  <1>2. CASE SynAck
    BY <1>2, SynAckInv
  <1>3. CASE NewAck
    BY <1>3, NewAckInv
  <1>4. CASE UNCHANGED vars
    BY <1>4 DEF vars, IInv, TypeOK, TimesOK, TableInv, SpreadInv, PhaseInv, MeasuresOwnFlow, Measured
  <1> QED BY <1>1, <1>2, <1>3, <1>4 DEF Next

---------------------------------------------------------------------------
(* The theorems.                                                           *)

\* Every state between two events satisfies the invariant.
THEOREM Inductive == Spec => []IInv
  <1>1. Init => IInv
    BY InitInv
  <1>2. IInv /\ [Next]_vars => IInv'
    BY NextInv
  <1> QED BY <1>1, <1>2, PTL DEF Spec

\* RTT stays within the round trips of the flow (Host.cpp:776).
THEOREM EstimateWithinSamples == Spec => []RttWithinSamples
  <1>1. IInv => RttWithinSamples
    BY DEF IInv, SpreadInv, Measured, RttWithinSamples
  <1> QED BY <1>1, Inductive, PTL

\* RTO is bounded by the round trips of the flow (Host.cpp:778).
THEOREM RtoStaysBounded == Spec => []RtoBounded
  <1>1. IInv => RtoBounded
    <2> SUFFICES ASSUME IInv, Measured PROVE RtoBounded
      BY DEF RtoBounded, Measured
    <2>1. estimate \in Estimates /\ lo \in Nat /\ hi \in Nat /\ hi \div 2 \in Nat
      BY DEF IInv, TypeOK
    <2>2. estimate.RTT \in Nat /\ estimate.RTTVAR \in Nat
      BY <2>1 DEF Estimates
    <2> QED BY <2>1, <2>2 DEF IInv, SpreadInv, RtoBounded, K
  <1> QED BY <1>1, Inductive, PTL

\* With time between any two events every timer is set for the future, so the
\* event loop does not spin on a timer at one instant (Host.cpp:344, 703, 814).
THEOREM NoTimerForThePresent == Spec => []TimersLieAhead
  <1>1. IInv => TimersLieAhead
    <2> SUFFICES ASSUME IInv, TimePasses, phase # "idle" PROVE estimate.RTO > 0
      BY DEF TimersLieAhead
    <2>1. phase \in Phases
      BY DEF IInv, TypeOK
    <2>2. CASE phase = "syn"
      BY <2>2, TimeoutAssumption DEF IInv, PhaseInv
    <2>3. CASE Measured
      <3>1. estimate \in Estimates /\ lo \in Nat
        BY DEF IInv, TypeOK
      <3>2. estimate.RTT \in Nat /\ estimate.RTTVAR \in Nat
        BY <3>1 DEF Estimates
      <3> QED BY <2>3, <3>1, <3>2 DEF IInv, SpreadInv, K
    <2> QED BY <2>1, <2>2, <2>3 DEF Phases, Measured
  <1> QED BY <1>1, Inductive, PTL

\* Only a number that an earlier flow used is measured from before the flow.
THEOREM MeasuresOwnPackets == Spec => []MeasuresOwnFlow
  <1>1. IInv => MeasuresOwnFlow
    BY DEF IInv
  <1> QED BY <1>1, Inductive, PTL
=============================================================================
