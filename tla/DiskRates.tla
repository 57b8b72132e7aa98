------------------------------ MODULE DiskRates ------------------------------
(***************************************************************************)
(* system.Module.GetDisk (internal/modules/system/system.go): I/O rates from *)
(* the difference to the counters of the previous call. The baseline is      *)
(* shared by telemetryLoop (through GetMetrics) and the handler of the       *)
(* system.disk and system.metrics commands; its lock covers the exchange of  *)
(* the baseline and neither the clock nor the counters read before it.       *)
(*                                                                         *)
(* One device and one of its counters stand for all: each rate is computed   *)
(* by the same expression from its own pair of counters.                     *)
(***************************************************************************)
EXTENDS Integers

CONSTANTS
    Callers,    \* goroutines that call GetDisk
    Width,      \* bits of an unsigned counter
    MaxTime,    \* bound: clock
    MaxMoved,   \* bound: bytes the device moves
    MaxEpoch    \* bound: times the device comes back with its counters at zero

ASSUME WidthAssumption == Width \in Nat /\ 2^Width \in Nat \ {0}
ASSUME DiskBoundAssumption == MaxTime \in Nat \ {0} /\ MaxMoved \in Nat /\ MaxEpoch \in Nat

Unsigned == 0..(2^Width - 1)

\* The difference of two unsigned counters.
Minus_Saturating(a, b) == IF a < b THEN 0 ELSE a - b
Minus(a, b) == (a + 2^Width - b) % 2^Width

\* What a read of the counters returned: the counter, with the bytes moved so
\* far and the life of the device it belongs to (history). NoSample: the read
\* failed or the device was not there.
Sample == [ctr : Unsigned, moved : 0..MaxMoved, epoch : 0..MaxEpoch]
NoSample == [ctr |-> 0, moved |-> 0, epoch |-> MaxEpoch + 1]

VARIABLES
    clock,     \* the clock; 0 is the zero Time
    ctr,       \* the device's counter
    prevIO, prevIOAt,   \* the baseline
    pc,        \* where each caller is: "idle", "stamped" or "sampled"
    now, cur,  \* its clock reading and its counters
    \* history:
    moved,     \* bytes the device has moved
    epoch,     \* times it came back
    overtaken, \* callers whose sample is older than an exchange of the baseline
    counted,   \* bytes the reports stand for, until the baseline is spoiled
    spoiled    \* an overtaken sample became the baseline

vars == <<clock, ctr, prevIO, prevIOAt, pc, now, cur,
          moved, epoch, overtaken, counted, spoiled>>
history == <<moved, epoch, overtaken, counted, spoiled>>

Init ==
    /\ clock = 1 /\ ctr \in Unsigned
    /\ prevIO = NoSample /\ prevIOAt = 0
    /\ pc = [p \in Callers |-> "idle"]
    /\ now = [p \in Callers |-> 0]
    /\ cur = [p \in Callers |-> NoSample]
    /\ moved = 0 /\ epoch = 0
    /\ overtaken = {} /\ counted = 0 /\ spoiled = FALSE

\* The partitions are listed and the clock is read.
Stamp(p) ==
    /\ pc[p] = "idle"
    /\ pc' = [pc EXCEPT ![p] = "stamped"]
    /\ now' = [now EXCEPT ![p] = clock]
    /\ UNCHANGED <<clock, ctr, prevIO, prevIOAt, cur, history>>

\* IOCountersWithContext; an error is ignored.
ReadCounters(p) ==
    /\ pc[p] = "stamped"
    /\ pc' = [pc EXCEPT ![p] = "sampled"]
    /\ cur' = [cur EXCEPT ![p] = [ctr |-> ctr, moved |-> moved, epoch |-> epoch]]
       \/ UNCHANGED cur
    /\ UNCHANGED <<clock, ctr, prevIO, prevIOAt, now, history>>

\* The rate is attached when time has passed since a baseline of the device.
HasRate(p) ==
    prevIOAt # 0 /\ prevIOAt < now[p] /\ prevIO # NoSample /\ cur[p] # NoSample

\* The rate of a call, apart from the division by the time elapsed.
Delta(p) == Minus(cur[p].ctr, prevIO.ctr)

\* What the exchange leaves as the baseline.
NewBaseline_Kept(p) == IF prevIO # NoSample THEN prevIO ELSE cur[p]
NewBaseline(p) == cur[p]

\* The sample is local to the call.
SampleAfterCall_Cached(p) == cur
SampleAfterCall(p) == [cur EXCEPT ![p] = NoSample]

\* The exchange under the lock; the call returns Delta(p) if it HasRate(p), and
\* GetMetrics may still drop it when GetNetwork fails.
Exchange(p) ==
    /\ pc[p] = "sampled"
    /\ prevIO' = NewBaseline(p)
    /\ prevIOAt' = now[p]
    /\ \/ /\ HasRate(p) /\ ~spoiled /\ p \notin overtaken
          /\ counted' = counted + (cur[p].moved - prevIO.moved)
       \/ UNCHANGED counted
    /\ pc' = [pc EXCEPT ![p] = "idle"]
    /\ now' = [now EXCEPT ![p] = 0]
    /\ cur' = SampleAfterCall(p)
    /\ overtaken' = {q \in Callers \ {p} : pc[q] = "sampled"}
    /\ spoiled' = (spoiled \/ p \in overtaken)
    /\ UNCHANGED <<clock, ctr, moved, epoch>>

-----------------------------------------------------------------------------
(* The clock and the device (external).                                       *)

Tick ==
    /\ clock < MaxTime
    /\ clock' = clock + 1
    /\ UNCHANGED <<ctr, prevIO, prevIOAt, pc, now, cur, history>>

Move ==
    /\ moved < MaxMoved
    /\ moved' = moved + 1
    /\ ctr' = (ctr + 1) % 2^Width
    /\ UNCHANGED <<clock, prevIO, prevIOAt, pc, now, cur,
                   epoch, overtaken, counted, spoiled>>

\* The device is detached and comes back with its counters at zero.
Replug ==
    /\ epoch < MaxEpoch
    /\ epoch' = epoch + 1
    /\ ctr' = 0
    /\ UNCHANGED <<clock, prevIO, prevIOAt, pc, now, cur,
                   moved, overtaken, counted, spoiled>>

Next ==
    \/ \E p \in Callers : Stamp(p) \/ ReadCounters(p) \/ Exchange(p)
    \/ Tick
    \/ Move
    \/ Replug

Spec == Init /\ [][Next]_vars

-----------------------------------------------------------------------------
(* Properties.                                                                *)

\* Types of every variable: a caller has a sample or a stamp only while it is
\* in GetDisk.
DiskTypeOK ==
    /\ clock \in 1..MaxTime /\ ctr \in Unsigned
    /\ prevIO \in Sample \union {NoSample} /\ prevIOAt \in 0..MaxTime
    /\ pc \in [Callers -> {"idle", "stamped", "sampled"}]
    /\ now \in [Callers -> 0..MaxTime]
    /\ cur \in [Callers -> Sample \union {NoSample}]
    /\ \A p \in Callers :
          /\ pc[p] = "idle" <=> now[p] = 0
          /\ cur[p] # NoSample => pc[p] = "sampled"
    /\ moved \in 0..MaxMoved /\ epoch \in 0..MaxEpoch
    /\ overtaken \subseteq Callers
    /\ counted \in Nat
    /\ spoiled \in BOOLEAN

\* The rate a call returns is what the device moved between the two samples,
\* the wrap of a counter included, unless another call exchanged the baseline
\* between this call's sample and its own exchange, the device was replugged
\* between the samples, or moved a whole counter range: only then does the
\* unsigned difference go wrong (GetDisk samples outside its lock).
OnlyOvertakenSampleMisreports ==
    \A p \in Callers :
        pc[p] = "sampled" /\ HasRate(p) =>
            LET real == cur[p].moved - prevIO.moved IN
            \/ p \in overtaken
            \/ cur[p].epoch # prevIO.epoch
            \/ real >= 2^Width
            \/ Delta(p) = real

\* However the loop and the commands take turns, the windows of their reports
\* do not overlap: together they stand for no more than the device moved,
\* unless an overtaken sample became the baseline (the exchange of prevIO and
\* prevIOAt under one lock).
WindowsDisjoint == ~spoiled => counted <= moved

=============================================================================
