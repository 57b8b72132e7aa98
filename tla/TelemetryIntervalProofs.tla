---------------------- MODULE TelemetryIntervalProofs ----------------------
(* Proofs about TelemetryInterval, for all requests, units and widths.        *)
EXTENDS TelemetryInterval, TLAPS

USE UnitAssumption, RequestAssumption, IntervalAssumption

\* A wrapped product is an integer, and a clamped one at least the minimum.
LEMMA ClampedSeconds ==
    ASSUME NEW s \in Int
    PROVE  Clamp(Seconds(s)) \in Int /\ Clamp(Seconds(s)) >= minTelemetryInterval
<1>1. s * Unit + Half \in Int /\ 2 * Half \in Int /\ 2 * Half > 0
  OBVIOUS
<1>2. (s * Unit + Half) % (2 * Half) \in Int
  BY <1>1
<1>3. Seconds(s) \in Int
  BY <1>2 DEF Seconds
<1> QED
  BY <1>3 DEF Clamp, minTelemetryInterval

\* The inductive invariant. Between Drain and SendAfterDrain the value that was
\* in force is neither in the channel nor, possibly, in the ticker; what the
\* handler is about to send has already been clamped.
IntervalInv ==
    /\ IntervalTypeOK
    /\ IntervalAtLeastMinimum
    /\ LatestIntervalWins
    /\ pc # "idle" => d >= minTelemetryInterval
    /\ pc = "send" => ch = {}

\* The invariant holds at the start.
LEMMA IntervalInit == Init => IntervalInv
<1> SUFFICES ASSUME Init PROVE IntervalInv
  OBVIOUS
<1>1. cancelled \in BOOLEAN
  BY Zenon DEF Init
<1>2. IntervalTypeOK
  BY <1>1 DEF Init, IntervalTypeOK
<1> QED
  BY <1>2 DEF Init, IntervalInv, IntervalAtLeastMinimum, LatestIntervalWins,
              minTelemetryInterval

\* Every step of handler and loop keeps it.
LEMMA IntervalNext == IntervalInv /\ [Next]_vars => IntervalInv'
<1> SUFFICES ASSUME IntervalInv, [Next]_vars PROVE IntervalInv'
  OBVIOUS
<1> USE DEF IntervalInv, IntervalTypeOK, IntervalAtLeastMinimum, LatestIntervalWins
<1>1. CASE \E s \in Requests : SetInterval(s)
  <2>1. PICK s \in Requests : SetInterval(s)
    BY <1>1
  <2>2. d' \in Int /\ (pc' # "idle" => d' >= minTelemetryInterval)
    BY <2>1, ClampedSeconds DEF SetInterval
  <2> QED
    BY <2>1, <2>2 DEF SetInterval, minTelemetryInterval
<1>2. CASE SelectSend
  BY <1>2 DEF SelectSend, Send, Full, minTelemetryInterval
<1>3. CASE Drain
  BY <1>3 DEF Drain, minTelemetryInterval
<1>4. CASE SendAfterDrain
  BY <1>4 DEF SendAfterDrain, Send, minTelemetryInterval
<1>5. CASE ReceiveInterval
  BY <1>5 DEF ReceiveInterval, minTelemetryInterval
<1>6. CASE Publish \/ Tick \/ LoopDone \/ Cancel
  BY <1>6 DEF Publish, Tick, LoopDone, Cancel, minTelemetryInterval
<1>7. CASE UNCHANGED vars
  BY <1>7 DEF vars, minTelemetryInterval
<1> QED
  BY <1>1, <1>2, <1>3, <1>4, <1>5, <1>6, <1>7 DEF Next, Handler

\* It holds in every reachable state.
LEMMA IntervalInvariant == Spec => []IntervalInv
BY IntervalInit, IntervalNext, PTL DEF Spec

\* The types of TelemetryInterval hold throughout, for every request: the reset
\* channel never holds more than its one value.
THEOREM IntervalTyping == Spec => []IntervalTypeOK
BY IntervalInvariant, PTL DEF IntervalInv

\* Whatever set_interval commands race with telemetryLoop, the interval last
\* reported as applied is in force or next in the channel, for every sequence of
\* requests (SetTelemetryInterval, telemetryLoop).
THEOREM LatestIntervalWinsAlways == Spec => []LatestIntervalWins
BY IntervalInvariant, PTL DEF IntervalInv

\* No request, not even one whose Duration overflows, makes the ticker run
\* faster than minTelemetryInterval (the clamp of SetTelemetryInterval).
THEOREM IntervalAtLeastMinimumAlways == Spec => []IntervalAtLeastMinimum
BY IntervalInvariant, PTL DEF IntervalInv

=============================================================================
