-------------------------- MODULE DiskRatesProofs --------------------------
(* Proofs about DiskRates, for any callers, counter width and bounds.         *)
EXTENDS DiskRates, TLAPS

USE WidthAssumption, DiskBoundAssumption

-----------------------------------------------------------------------------
(* What samples have to do with each other.                                   *)

\* The device as a read of the counters would find it now.
Reading == [ctr |-> ctr, moved |-> moved, epoch |-> epoch]

\* A later sample of the same life of the device: less than one counter range
\* further, its counter has gone on by what was moved and wrapped at most once.
Wraps(s, t) ==
    LET d == t.moved - s.moved IN
    s.epoch = t.epoch /\ 0 <= d /\ d < 2^Width =>
        t.ctr = IF s.ctr + d < 2^Width THEN s.ctr + d ELSE s.ctr + d - 2^Width

\* Every sample in hand, the baseline included, is one of the device's past.
IsPast(s) == s # NoSample => s.moved <= moved /\ s.epoch <= epoch /\ Wraps(s, Reading)
SamplesArePast == IsPast(prevIO) /\ \A p \in Callers : IsPast(cur[p])

\* A sample nobody has overtaken is later than the baseline.
BaselineIsEarlier ==
    \A p \in Callers \ overtaken :
        cur[p] # NoSample /\ prevIO # NoSample =>
            prevIO.moved <= cur[p].moved /\ Wraps(prevIO, cur[p])

\* What was counted is behind the baseline and behind every such sample.
CountedIsPast ==
    ~spoiled =>
        /\ counted <= moved
        /\ prevIO # NoSample => counted <= prevIO.moved
        /\ \A p \in Callers \ overtaken : cur[p] # NoSample => counted <= cur[p].moved

DiskInv == DiskTypeOK /\ SamplesArePast /\ BaselineIsEarlier /\ CountedIsPast

\* A step of the device keeps what a past sample says about its counter.
LEMMA MoveWraps ==
    ASSUME NEW s \in Sample, ctr \in Unsigned, moved \in Nat, epoch \in Nat,
           s.moved <= moved, Wraps(s, Reading), Move
    PROVE  Wraps(s, Reading)'
<1> DEFINE m == 2^Width
           d == moved - s.moved
<1>1. m \in Nat /\ m > 0 /\ ctr \in 0..(m - 1) /\ s.ctr \in 0..(m - 1)
  BY DEF Unsigned, Sample
<1>2. ctr' = IF ctr + 1 < m THEN ctr + 1 ELSE 0
  <2>1. ctr' = (ctr + 1) % m
    BY DEF Move
  <2> HIDE DEF m
  <2> QED
    BY <1>1, <2>1, SMTT(30)
<1>3. d \in Nat /\ s.moved \in Nat
  BY DEF Sample
<1>4. s.epoch = epoch /\ d < m => ctr = IF s.ctr + d < m THEN s.ctr + d ELSE s.ctr + d - m
  BY <1>3 DEF Wraps, Reading
<1>5. moved' = moved + 1 /\ epoch' = epoch
  BY DEF Move
<1>6. moved' - s.moved = d + 1
  BY <1>3, <1>5
<1> HIDE DEF m, d
<1>7. s.epoch = epoch /\ d + 1 < m =>
        ctr' = IF s.ctr + (d + 1) < m THEN s.ctr + (d + 1) ELSE s.ctr + (d + 1) - m
  BY <1>1, <1>2, <1>3, <1>4
<1> QED
  BY <1>5, <1>6, <1>7 DEF Wraps, Reading, m

\* The difference of two counters of the same life of the device is what it
\* moved in between, however the counter wrapped.
LEMMA MinusIsMoved ==
    ASSUME NEW s \in Sample, NEW t \in Sample, s.moved <= t.moved, s.epoch = t.epoch,
           t.moved - s.moved < 2^Width, Wraps(s, t)
    PROVE  Minus(t.ctr, s.ctr) = t.moved - s.moved
<1> DEFINE m == 2^Width
           d == t.moved - s.moved
<1>1. m \in Nat /\ m > 0 /\ t.ctr \in 0..(m - 1) /\ s.ctr \in 0..(m - 1)
  BY DEF Unsigned, Sample
<1>2. d \in Nat /\ d < m
  BY DEF Sample
<1>3. t.ctr = IF s.ctr + d < m THEN s.ctr + d ELSE s.ctr + d - m
  <2>1. 0 <= d /\ d < m
    BY <1>2
  <2> QED
    BY <2>1, Zenon DEF Wraps
<1>4. Minus(t.ctr, s.ctr) = (t.ctr + m - s.ctr) % m
  BY DEF Minus
<1>5. Minus(t.ctr, s.ctr) = IF t.ctr < s.ctr THEN t.ctr + m - s.ctr ELSE t.ctr - s.ctr
  <2> HIDE DEF m, d
  <2> QED
    BY <1>1, <1>4, SMTT(30)
<1>6. Minus(t.ctr, s.ctr) = d
  <2> HIDE DEF m, d
  <2> QED
    BY <1>1, <1>2, <1>3, <1>5
<1> QED
  BY <1>6 DEF d

-----------------------------------------------------------------------------
(* The inductive invariant.                                                   *)

\* The invariant holds at the start.
LEMMA DiskInit == Init => DiskInv
<1> SUFFICES ASSUME Init PROVE DiskInv
  OBVIOUS
<1>1. spoiled \in BOOLEAN
  BY Zenon DEF Init
<1>2. DiskTypeOK
  BY <1>1 DEF Init, DiskTypeOK
<1>3. SamplesArePast
  BY DEF Init, SamplesArePast, IsPast
<1>4. BaselineIsEarlier
  BY DEF Init, BaselineIsEarlier
<1>5. CountedIsPast
  BY DEF Init, CountedIsPast
<1> QED
  BY <1>2, <1>3, <1>4, <1>5 DEF DiskInv

\* Taking the time (the first step of GetDisk) keeps the invariant.
LEMMA StampKeeps ==
    ASSUME DiskInv, NEW p \in Callers, Stamp(p)
    PROVE  DiskInv'
<1> USE DEF DiskInv, Stamp, history
<1>1. DiskTypeOK'
  BY DEF DiskTypeOK
<1>2. SamplesArePast'
  BY DEF SamplesArePast, IsPast, Wraps, Reading
<1>3. BaselineIsEarlier' /\ CountedIsPast'
  BY DEF BaselineIsEarlier, CountedIsPast, Wraps
<1> QED
  BY <1>1, <1>2, <1>3

\* Reading the counters keeps it: a sample is of the past.
LEMMA ReadKeeps ==
    ASSUME DiskInv, NEW p \in Callers, ReadCounters(p)
    PROVE  DiskInv'
<1> USE DEF DiskInv
<1>0. UNCHANGED <<clock, ctr, prevIO, prevIOAt, now, moved, epoch, overtaken, counted, spoiled>>
  BY DEF ReadCounters, history
<1>1. Reading \in Sample
  BY DEF DiskTypeOK, Reading, Sample
<1>2. pc[p] = "stamped" /\ cur[p] = NoSample
  BY DEF ReadCounters, DiskTypeOK
<1>3. cur' = [cur EXCEPT ![p] = Reading] \/ cur' = cur
  BY DEF ReadCounters, Reading
<1>4. \A q \in Callers : cur'[q] = cur[q] \/ (q = p /\ cur'[q] = Reading)
  BY <1>3 DEF DiskTypeOK
<1>5. DiskTypeOK'
  <2>1. pc' = [pc EXCEPT ![p] = "sampled"]
    BY DEF ReadCounters
  <2> QED
    BY <1>0, <1>1, <1>2, <1>3, <2>1 DEF DiskTypeOK
<1>6. IsPast(Reading)
  BY DEF IsPast, Reading, Wraps, DiskTypeOK, Unsigned
<1>7. SamplesArePast'
  <2>1. IsPast(prevIO)' /\ \A q \in Callers : \A s : s = cur'[q] => IsPast(s)
    BY <1>0, <1>4, <1>6 DEF SamplesArePast, IsPast, Wraps, Reading
  <2> QED
    BY <1>0, <2>1 DEF SamplesArePast, IsPast, Wraps, Reading
<1>8. BaselineIsEarlier'
  <2>1. prevIO # NoSample => prevIO.moved <= Reading.moved /\ Wraps(prevIO, Reading)
    BY DEF SamplesArePast, IsPast, Reading
  <2> QED
    BY <1>0, <1>4, <2>1 DEF BaselineIsEarlier, Wraps
<1>9. CountedIsPast'
  <2>1. Reading.moved = moved
    BY DEF Reading
  <2> QED
    BY <1>0, <1>4, <2>1 DEF CountedIsPast
<1> QED
  BY <1>5, <1>7, <1>8, <1>9

\* An exchange that counts: what it adds lies between baseline and sample.
LEMMA ExchangeCounts ==
    ASSUME DiskInv, NEW p \in Callers, Exchange(p)
    PROVE  /\ counted' \in Nat
           /\ ~spoiled' => /\ counted' <= moved
                           /\ cur[p] # NoSample => counted' <= cur[p].moved
<1>1. counted \in Nat /\ moved \in Nat
  BY DEF DiskInv, DiskTypeOK
<1>2. ~spoiled' => ~spoiled /\ p \notin overtaken
  BY Zenon DEF Exchange
<1>3. CASE HasRate(p) /\ ~spoiled /\ p \notin overtaken
           /\ counted' = counted + (cur[p].moved - prevIO.moved)
  <2>1. prevIO \in Sample /\ cur[p] \in Sample /\ prevIO # NoSample /\ cur[p] # NoSample
    BY <1>3 DEF HasRate, DiskInv, DiskTypeOK
  <2>2. prevIO.moved <= cur[p].moved /\ counted <= prevIO.moved /\ cur[p].moved <= moved
    BY <1>3, <2>1 DEF DiskInv, BaselineIsEarlier, CountedIsPast, SamplesArePast, IsPast
  <2> QED
    BY <1>1, <1>3, <2>1, <2>2 DEF Sample
<1>4. CASE UNCHANGED counted
  BY <1>1, <1>2, <1>4 DEF DiskInv, CountedIsPast
<1> QED
  BY <1>3, <1>4 DEF Exchange

\* Exchanging the baseline under the lock keeps it.
LEMMA ExchangeKeeps ==
    ASSUME DiskInv, NEW p \in Callers, Exchange(p)
    PROVE  DiskInv'
<1>0. UNCHANGED <<clock, ctr, moved, epoch>>
  BY DEF Exchange
<1>1. prevIO' = cur[p] /\ prevIOAt' = now[p] /\ cur' = [cur EXCEPT ![p] = NoSample]
  BY DEF Exchange, NewBaseline, SampleAfterCall
<1>2. \A q \in Callers : cur'[q] = cur[q] \/ cur'[q] = NoSample
  BY <1>1 DEF DiskInv, DiskTypeOK
<1>3. \A q \in Callers \ overtaken' : cur'[q] = NoSample
  <2>1. overtaken' = {q \in Callers \ {p} : pc[q] = "sampled"}
    BY DEF Exchange
  <2> QED
    BY <1>1, <2>1 DEF DiskInv, DiskTypeOK
<1>4. DiskTypeOK'
  <2>1. spoiled' \in BOOLEAN
    BY Zenon DEF Exchange
  <2>2. counted' \in Nat
    BY ExchangeCounts
  <2>3. /\ pc' = [pc EXCEPT ![p] = "idle"] /\ now' = [now EXCEPT ![p] = 0]
        /\ overtaken' \subseteq Callers
    BY DEF Exchange
  <2> QED
    BY <1>0, <1>1, <2>1, <2>2, <2>3 DEF DiskInv, DiskTypeOK
<1>5. SamplesArePast'
  BY <1>0, <1>1, <1>2 DEF DiskInv, SamplesArePast, IsPast, Wraps, Reading
<1>6. BaselineIsEarlier'
  BY <1>3 DEF BaselineIsEarlier
<1>7. CountedIsPast'
  BY <1>0, <1>1, <1>3, ExchangeCounts DEF CountedIsPast
<1> QED
  BY <1>4, <1>5, <1>6, <1>7 DEF DiskInv

\* The clock and the device.
LEMMA DeviceKeeps ==
    ASSUME DiskInv, Tick \/ Move \/ Replug
    PROVE  DiskInv'
<1>0. UNCHANGED <<prevIO, prevIOAt, pc, now, cur, overtaken, counted, spoiled>>
  BY DEF Tick, Move, Replug, history
<1>1. moved' \in Nat /\ moved \in Nat /\ moved <= moved' /\ epoch \in Nat
  BY DEF Tick, Move, Replug, history, DiskInv, DiskTypeOK
<1>2. DiskTypeOK'
  <2>1. ctr' \in Unsigned
    <3>1. CASE Move
      <4> DEFINE m == 2^Width
      <4>1. m \in Nat /\ m > 0 /\ ctr \in 0..(m - 1) /\ ctr' = (ctr + 1) % m
        BY <3>1 DEF Move, DiskInv, DiskTypeOK, Unsigned
      <4> HIDE DEF m
      <4>2. ctr' \in 0..(m - 1)
        BY <4>1, SMTT(30)
      <4> QED
        BY <4>2 DEF Unsigned, m
    <3>2. CASE Tick
      BY <3>2 DEF Tick, DiskInv, DiskTypeOK
    <3>3. CASE Replug
      <4> DEFINE m == 2^Width
      <4>1. m \in Nat /\ m > 0
        OBVIOUS
      <4> HIDE DEF m
      <4>2. 0 \in 0..(m - 1)
        BY <4>1
      <4> QED
        BY <3>3, <4>2 DEF Replug, Unsigned, m
    <3> QED
      BY <3>1, <3>2, <3>3
  <2>2. clock' \in 1..MaxTime /\ moved' \in 0..MaxMoved /\ epoch' \in 0..MaxEpoch
    BY DEF Tick, Move, Replug, history, DiskInv, DiskTypeOK
  <2> QED
    BY <1>0, <2>1, <2>2 DEF DiskInv, DiskTypeOK
<1>3. ASSUME NEW s \in Sample \union {NoSample}, IsPast(s) PROVE IsPast(s)'
  <2> SUFFICES ASSUME s # NoSample
               PROVE  s.moved <= moved' /\ s.epoch <= epoch' /\ Wraps(s, Reading)'
    BY DEF IsPast
  <2>1. s \in Sample /\ s.moved <= moved /\ s.epoch <= epoch /\ Wraps(s, Reading)
    BY <1>3 DEF IsPast
  <2>2. s.moved \in Nat /\ s.epoch \in Nat
    BY <2>1 DEF Sample
  <2>3. CASE Tick
    BY <2>1, <2>3 DEF Tick, history, Wraps, Reading
  <2>4. CASE Move
    <3>1. ctr \in Unsigned
      BY DEF DiskInv, DiskTypeOK
    <3>2. Wraps(s, Reading)'
      BY <1>1, <2>1, <2>4, <3>1, MoveWraps
    <3> QED
      BY <1>1, <2>1, <2>2, <2>4, <3>2 DEF Move
  <2>5. CASE Replug
    <3>1. epoch' = epoch + 1 /\ moved' = moved
      BY <2>5 DEF Replug
    <3>2. s.epoch # epoch'
      BY <1>1, <2>1, <2>2, <3>1
    <3> QED
      BY <1>1, <2>1, <2>2, <3>1, <3>2 DEF Wraps, Reading
  <2> QED
    BY <2>3, <2>4, <2>5
<1>4. SamplesArePast'
  <2>1. prevIO \in Sample \union {NoSample} /\ \A p \in Callers : cur[p] \in Sample \union {NoSample}
    BY DEF DiskInv, DiskTypeOK
  <2>2. \A s \in Sample \union {NoSample} : IsPast(s) => IsPast(s)'
    BY <1>3
  <2>3. \A s \in Sample \union {NoSample} : s = prevIO' => IsPast(s)'
    BY <1>0, <2>2 DEF DiskInv, SamplesArePast
  <2>4. \A p \in Callers : \A s \in Sample \union {NoSample} : s = cur'[p] => IsPast(s)'
    BY <1>0, <2>2 DEF DiskInv, SamplesArePast
  <2> QED
    BY <1>0, <2>1, <2>3, <2>4 DEF SamplesArePast, IsPast
<1>5. BaselineIsEarlier'
  BY <1>0 DEF DiskInv, BaselineIsEarlier, Wraps
<1>6. CountedIsPast'
  BY <1>0, <1>1 DEF DiskInv, CountedIsPast, DiskTypeOK
<1> QED
  BY <1>2, <1>4, <1>5, <1>6 DEF DiskInv

\* The invariant holds in every reachable state.
LEMMA DiskInvariance == Spec => []DiskInv
<1>1. DiskInv /\ [Next]_vars => DiskInv'
  <2> SUFFICES ASSUME DiskInv, [Next]_vars PROVE DiskInv'
    OBVIOUS
  <2>1. CASE UNCHANGED vars
    BY <2>1 DEF vars, DiskInv, DiskTypeOK, SamplesArePast, IsPast, BaselineIsEarlier,
                CountedIsPast, Wraps, Reading
  <2> QED
    BY <2>1, StampKeeps, ReadKeeps, ExchangeKeeps, DeviceKeeps DEF Next
<1> QED
  BY <1>1, DiskInit, PTL DEF Spec

-----------------------------------------------------------------------------
(* What the invariant gives.                                                  *)

\* The type invariant, for any number of callers: in particular the bytes the
\* reports stand for never become negative.
THEOREM DiskTyping == Spec => []DiskTypeOK
<1>1. DiskInv => DiskTypeOK
  BY DEF DiskInv
<1> QED
  BY <1>1, DiskInvariance, PTL

\* For any number of goroutines in GetDisk and any counter width: a rate is
\* wrong only when another call exchanged the baseline between the sample and
\* its own exchange, when the device came back in between, or when it moved a
\* whole counter range; a wrap of the counter alone never shows.
THEOREM OnlyOvertakenSampleMisreportsAlways == Spec => []OnlyOvertakenSampleMisreports
<1>1. DiskInv => OnlyOvertakenSampleMisreports
  <2> SUFFICES ASSUME DiskInv, NEW p \in Callers, HasRate(p), p \notin overtaken,
                      cur[p].epoch = prevIO.epoch,
                      ~(cur[p].moved - prevIO.moved >= 2^Width)
               PROVE  Delta(p) = cur[p].moved - prevIO.moved
    BY DEF OnlyOvertakenSampleMisreports
  <2>1. prevIO \in Sample /\ cur[p] \in Sample /\ prevIO # NoSample /\ cur[p] # NoSample
    BY DEF HasRate, DiskInv, DiskTypeOK
  <2>2. prevIO.moved <= cur[p].moved /\ Wraps(prevIO, cur[p])
    BY <2>1 DEF DiskInv, BaselineIsEarlier
  <2>3. cur[p].moved - prevIO.moved < 2^Width
    <3> DEFINE m == 2^Width
    <3>1. m \in Nat /\ ~(cur[p].moved - prevIO.moved >= m)
      OBVIOUS
    <3>2. cur[p].moved \in Nat /\ prevIO.moved \in Nat
      BY <2>1 DEF Sample
    <3> HIDE DEF m
    <3>3. cur[p].moved - prevIO.moved < m
      BY <3>1, <3>2
    <3> QED
      BY <3>3 DEF m
  <2> QED
    BY <2>1, <2>2, <2>3, MinusIsMoved DEF Delta
<1> QED
  BY <1>1, DiskInvariance, PTL

\* However many callers take turns, the windows of their reports are disjoint
\* until an overtaken sample becomes the baseline (prevIO and prevIOAt are
\* exchanged under one lock).
THEOREM WindowsDisjointAlways == Spec => []WindowsDisjoint
<1>1. DiskInv => WindowsDisjoint
  BY DEF DiskInv, CountedIsPast, WindowsDisjoint
<1> QED
  BY <1>1, DiskInvariance, PTL

=============================================================================
