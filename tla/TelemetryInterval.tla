------------------------- MODULE TelemetryInterval -------------------------
(***************************************************************************)
(* telemetry.set_interval: the dispatcher's handler                         *)
(* (internal/dispatcher/dispatcher.go) hands a new interval to the           *)
(* publisher's telemetryLoop through a channel of capacity one               *)
(* (internal/publisher/publisher.go). Handler and loop are two goroutines.   *)
(*                                                                         *)
(* A time.Duration is a signed integer of fixed width and a second is Unit   *)
(* ticks of it: the product of the two wraps around as in the code.          *)
(***************************************************************************)
EXTENDS Integers

CONSTANTS
    Requests,   \* values of interval_s the platform sends
    Unit,       \* time.Second
    Half,       \* a time.Duration lies in -Half .. Half - 1 (2^63 in the code)
    Default,    \* the configured telemetry interval, 30 s if that is not positive
    MaxSets     \* bound: set_interval commands

ASSUME UnitAssumption == Unit \in Nat \ {0} /\ Half \in Nat \ {0}
ASSUME RequestAssumption == Requests \subseteq Int
ASSUME IntervalAssumption == MaxSets \in Nat /\ Default \in Nat \ {0}

minTelemetryInterval == Unit

\* time.Duration(p.IntervalS) * time.Second, which wraps around.
Seconds(s) == ((s * Unit + Half) % (2 * Half)) - Half

VARIABLES
    ch,        \* telemetryIntervalCh: {} or {d}
    pc,        \* the handler: "idle", "select", "drain", "send"
    d,         \* the interval the handler is setting
    sets,      \* set_interval commands so far
    interval,  \* the period of telemetryLoop's ticker
    loop,      \* telemetryLoop: "publish", "wait", "done"
    cancelled, \* the agent's context is cancelled
    accepted   \* history: the interval last put into the channel

vars == <<ch, pc, d, sets, interval, loop, cancelled, accepted>>

Init ==
    /\ ch = {}
    /\ pc = "idle"
    /\ d = Default
    /\ sets = 0
    /\ interval = Default
    /\ loop = "publish"
    /\ cancelled = FALSE
    /\ accepted = Default

-----------------------------------------------------------------------------
(* SetTelemetryInterval, called by the one goroutine that runs commands.      *)

Clamp_None(v) == v
Clamp(v) == IF v < minTelemetryInterval THEN minTelemetryInterval ELSE v

\* interval_s <= 0 is refused before SetTelemetryInterval is called.
SetInterval(s) ==
    /\ pc = "idle"
    /\ sets < MaxSets
    /\ sets' = sets + 1
    /\ IF s <= 0 THEN UNCHANGED <<pc, d>>
                 ELSE pc' = "select" /\ d' = Clamp(Seconds(s))
    /\ UNCHANGED <<ch, interval, loop, cancelled, accepted>>

Send ==
    /\ ch' = {d}
    /\ accepted' = d
    /\ pc' = "idle"

\* select: send if there is room, otherwise make room first.
Full_DropNew == pc' = "idle" /\ accepted' = d
Full == pc' = "drain" /\ UNCHANGED accepted
SelectSend_TwoSlots ==
    /\ pc = "select"
    /\ ch' = ch \union {d}
    /\ accepted' = d
    /\ pc' = "idle"
    /\ UNCHANGED <<d, sets, interval, loop, cancelled>>

SelectSend ==
    /\ pc = "select"
    /\ \/ ch = {} /\ Send
       \/ ch # {} /\ Full /\ UNCHANGED ch
    /\ UNCHANGED <<d, sets, interval, loop, cancelled>>

\* <-p.telemetryIntervalCh: waits for a value.
Drain ==
    /\ pc = "drain"
    /\ ch # {}
    /\ ch' = {}
    /\ pc' = "send"
    /\ UNCHANGED <<d, sets, interval, loop, cancelled, accepted>>

\* p.telemetryIntervalCh <- d: waits for room.
SendAfterDrain ==
    /\ pc = "send"
    /\ ch = {}
    /\ Send
    /\ UNCHANGED <<d, sets, interval, loop, cancelled>>

-----------------------------------------------------------------------------
(* telemetryLoop.                                                             *)

\* sendTelemetry returns, whether or not the snapshot could be published.
Publish ==
    /\ loop = "publish"
    /\ loop' = "wait"
    /\ UNCHANGED <<ch, pc, d, sets, interval, cancelled, accepted>>

ReceiveInterval_Missing == FALSE /\ UNCHANGED vars
ReceiveInterval ==
    /\ loop = "wait"
    /\ ch # {}
    /\ interval' \in ch
    /\ ch' = {}
    /\ loop' = "publish"
    /\ UNCHANGED <<pc, d, sets, cancelled, accepted>>

Tick ==
    /\ loop = "wait"
    /\ loop' = "publish"
    /\ UNCHANGED <<ch, pc, d, sets, interval, cancelled, accepted>>

LoopDone ==
    /\ loop = "wait"
    /\ cancelled
    /\ loop' = "done"
    /\ UNCHANGED <<ch, pc, d, sets, interval, cancelled, accepted>>

\* SIGTERM: run() cancels the context.
Cancel ==
    /\ ~cancelled
    /\ cancelled' = TRUE
    /\ UNCHANGED <<ch, pc, d, sets, interval, loop, accepted>>

Handler == SelectSend \/ Drain \/ SendAfterDrain

Next ==
    \/ \E s \in Requests : SetInterval(s)
    \/ Handler
    \/ Publish
    \/ ReceiveInterval
    \/ Tick
    \/ LoopDone
    \/ Cancel

Spec == Init /\ [][Next]_vars

\* A goroutine that can run eventually does. Go's select picks at random among
\* the cases that are ready, so a ready case is not passed over for ever.
FairSpec ==
    /\ Spec
    /\ WF_vars(Handler)
    /\ WF_vars(Publish)
    /\ WF_vars(Tick)
    /\ SF_vars(ReceiveInterval)
    /\ SF_vars(LoopDone)

-----------------------------------------------------------------------------
\* Types of every variable; the channel holds one value at most.
IntervalTypeOK ==
    /\ ch \subseteq Int /\ \A v, w \in ch : v = w
    /\ pc \in {"idle", "select", "drain", "send"}
    /\ d \in Int /\ interval \in Int /\ accepted \in Int
    /\ sets \in Nat
    /\ loop \in {"publish", "wait", "done"}
    /\ cancelled \in BOOLEAN

\* The last interval a handler reported as applied is the one in force or the
\* one in the channel, whatever raced with telemetryLoop: an older value never
\* overtakes it (SetTelemetryInterval drains before it sends).
LatestIntervalWins ==
    pc \in {"idle", "select", "drain"} =>
        IF ch = {} THEN interval = accepted ELSE ch = {accepted}

\* The ticker never runs faster than the minimum, unless it was configured to,
\* also for requests whose Duration overflows: time.Ticker panics on a period
\* that is not positive.
IntervalAtLeastMinimum ==
    /\ interval = Default \/ interval >= minTelemetryInterval
    /\ \A v \in ch : v >= minTelemetryInterval

\* docs/operations.md: a new interval "Takes effect immediately": what is in the
\* channel is received by telemetryLoop, unless the agent is stopping.
NewIntervalTakesEffect == ch # {} ~> ch = {} \/ loop = "done"

\* Dispatch "always returns a valid result": the handler of set_interval
\* returns.
SetIntervalAnswered == pc # "idle" ~> pc = "idle"

=============================================================================
