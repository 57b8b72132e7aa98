----------------------------- MODULE NginxLogs -----------------------------
(***************************************************************************)
(* The two tailers of the nginx logs (internal/modules/s3/observer.go) and   *)
(* the publisher loops behind them (internal/publisher/publisher.go): the    *)
(* audit tailer, which turns mutations into events handed to auditLoop       *)
(* through a bounded channel, and the traffic collector, whose window is     *)
(* flushed by s3TelemetryLoop and by the s3.bucket.stats command.            *)
(*                                                                         *)
(* nginx logs every request to both files and they are rotated together, so  *)
(* one sequence of lines stands for both. An offset counts lines: a file is  *)
(* longer than another here when it has more bytes there.                    *)
(***************************************************************************)
EXTENDS Naturals, Sequences

CONSTANTS
    Cap,           \* capacity of auditTailer.ch (512)
    MaxLines,      \* bound: requests nginx logs
    MaxRotations,  \* bound: log rotations
    MaxCrashes     \* bound: agent restarts

ASSUME LogBoundAssumption ==
    /\ Cap \in Nat \ {0}
    /\ MaxLines \in Nat /\ MaxRotations \in Nat /\ MaxCrashes \in Nat

\* What the parsers make of a line: a PUT, POST or DELETE answered 2xx, another
\* request answered 2xx, or a line neither of them counts.
Kinds == {"mutation", "read", "other"}
Ids == 1 .. MaxLines
Line == [id : Ids, kind : Kinds]

VARIABLES
    log,         \* the lines of the current file
    written,     \* requests logged so far; also the id of the newest line
    offset,      \* auditTailer.offset
    pending,     \* lines auditTailer.poll has read and not yet handled
    ch,          \* auditTailer.ch: ids of events
    batch,       \* ids of the events auditLoop holds
    loop,        \* auditLoop: "wait", "drain", "publish"
    toffset,     \* trafficCollector.offset
    rotations, crashes,
    \* history; all but the last two are of the current run of the agent:
    last,        \* id of the event published last
    read,        \* lines the audit tailer has read
    rotated,     \* the file was rotated since the audit tailer last read it
    missed,      \* the audit tailer took a rotated file for the one it had read
    tmissed,     \* the same for the traffic collector
    trotated,
    counted,     \* lines counted in some traffic window
    published,   \* events ever published
    dropped      \* events ever dropped: channel full, or publish failed

audit == <<offset, pending, ch, batch, loop, last, read, rotated, missed, published, dropped>>
traffic == <<toffset, trotated, tmissed, counted>>
vars == <<log, written, rotations, crashes, audit, traffic>>

IdsOf(lines) == {lines[i].id : i \in 1 .. Len(lines)}

Init ==
    /\ log = <<>> /\ written = 0
    /\ offset = 0 /\ pending = <<>> /\ ch = <<>> /\ batch = <<>> /\ loop = "wait"
    /\ toffset = 0
    /\ rotations = 0 /\ crashes = 0
    /\ last = 0 /\ read = {} /\ rotated = FALSE /\ missed = FALSE
    /\ trotated = FALSE /\ tmissed = FALSE
    /\ counted = {}
    /\ published = {} /\ dropped = {}

-----------------------------------------------------------------------------
(* nginx and logrotate.                                                       *)

Request(kind) ==
    /\ written < MaxLines
    /\ written' = written + 1
    /\ log' = Append(log, [id |-> written + 1, kind |-> kind])
    /\ UNCHANGED <<rotations, crashes, audit, traffic>>

\* A new, empty file takes the place of the old one.
Rotate ==
    /\ rotations < MaxRotations
    /\ rotations' = rotations + 1
    /\ log' = <<>>
    /\ rotated' = TRUE
    /\ trotated' = TRUE
    /\ UNCHANGED <<written, crashes, offset, pending, ch, batch, loop, last, read, missed,
                   published, dropped, toffset, tmissed, counted>>

-----------------------------------------------------------------------------
(* Reading on from an offset, as flush and readNewLines both do.              *)

\* An offset beyond the end of the file means that it was rotated.
Start_AtEnd(off) == IF off >= Len(log) THEN 0 ELSE off
Start(off) == IF off > Len(log) THEN 0 ELSE off

Unread_OffByOne(off) == SubSeq(log, Start(off) + 2, Len(log))
Unread(off) == SubSeq(log, Start(off) + 1, Len(log))

\* A rotation is missed when the new file has already outgrown the offset.
Misses(off, isRotated) == isRotated /\ off > 0 /\ off <= Len(log)

-----------------------------------------------------------------------------
(* auditTailer.                                                               *)

\* The offset moves past everything that was read.
Advanced_Whole(off) == Start(off) + Len(log)
Advanced(off) == Start(off) + Len(Unread(off))

readNewLines ==
    /\ pending = <<>>
    /\ pending' = Unread(offset)
    /\ offset' = Advanced(offset)
    /\ read' = read \union IdsOf(Unread(offset))
    /\ missed' = (missed \/ Misses(offset, rotated))
    /\ rotated' = FALSE
    /\ UNCHANGED <<log, written, rotations, crashes, ch, batch, loop, last,
                   published, dropped, traffic>>

\* A send that does not wait: an event that finds the channel full is dropped.
Emit(id) ==
    \/ /\ Len(ch) < Cap
       /\ ch' = Append(ch, id)
       /\ UNCHANGED dropped
    \/ /\ Len(ch) = Cap
       /\ dropped' = dropped \union {id}
       /\ UNCHANGED ch

\* poll takes the lines one by one.
poll ==
    /\ pending # <<>>
    /\ pending' = Tail(pending)
    /\ IF Head(pending).kind = "mutation" THEN Emit(Head(pending).id)
                                          ELSE UNCHANGED <<ch, dropped>>
    /\ UNCHANGED <<log, written, rotations, crashes, offset, batch, loop, last, read,
                   rotated, missed, published, traffic>>

-----------------------------------------------------------------------------
(* auditLoop.                                                                 *)

FirstEvent ==
    /\ loop = "wait"
    /\ ch # <<>>
    /\ batch' = <<Head(ch)>>
    /\ ch' = Tail(ch)
    /\ loop' = "drain"
    /\ UNCHANGED <<log, written, rotations, crashes, offset, pending, last, read, rotated,
                   missed, published, dropped, traffic>>

Drained_Front(id) == <<id>> \o batch
Drained(id) == Append(batch, id)

Drain ==
    /\ loop = "drain"
    /\ \/ /\ ch # <<>>
          /\ batch' = Drained(Head(ch))
          /\ ch' = Tail(ch)
          /\ UNCHANGED loop
       \/ /\ ch = <<>>
          /\ loop' = "publish"
          /\ UNCHANGED <<batch, ch>>
    /\ UNCHANGED <<log, written, rotations, crashes, offset, pending, last, read, rotated,
                   missed, published, dropped, traffic>>

InBatch == {batch[i] : i \in 1 .. Len(batch)}

\* A batch that cannot be published is only logged.
PublishAudit_Unsent ==
    /\ loop = "publish"
    /\ batch' = <<>>
    /\ loop' = "wait"
    /\ UNCHANGED <<last, published, dropped>>
    /\ UNCHANGED <<log, written, rotations, crashes, offset, pending, ch, read, rotated,
                   missed, traffic>>
PublishAudit ==
    /\ loop = "publish"
    /\ batch' = <<>>
    /\ loop' = "wait"
    /\ \/ /\ last' = batch[Len(batch)]
          /\ published' = published \union InBatch
          /\ UNCHANGED dropped
       \/ /\ dropped' = dropped \union InBatch
          /\ UNCHANGED <<last, published>>
    /\ UNCHANGED <<log, written, rotations, crashes, offset, pending, ch, read, rotated,
                   missed, traffic>>

-----------------------------------------------------------------------------
(* trafficCollector.flush, under its mutex: called for every s3_telemetry and *)
(* for every s3.bucket.stats. The window is gone whether or not its report    *)
(* reaches the platform.                                                      *)

Counted(lines) == {lines[i].id : i \in {j \in 1 .. Len(lines) : lines[j].kind # "other"}}

flush ==
    /\ counted' = counted \union Counted(Unread(toffset))
    /\ toffset' = Advanced(toffset)
    /\ tmissed' = (tmissed \/ Misses(toffset, trotated))
    /\ trotated' = FALSE
    /\ UNCHANGED <<log, written, rotations, crashes, audit>>

-----------------------------------------------------------------------------
\* The agent stops or dies and starts again: offsets, channel and batch live in
\* memory only.
Crash ==
    /\ crashes < MaxCrashes
    /\ crashes' = crashes + 1
    /\ offset' = 0 /\ pending' = <<>> /\ ch' = <<>> /\ batch' = <<>> /\ loop' = "wait"
    /\ last' = 0 /\ read' = {} /\ rotated' = FALSE /\ missed' = FALSE
    /\ toffset' = 0 /\ trotated' = FALSE /\ tmissed' = FALSE /\ counted' = {}
    /\ UNCHANGED <<log, written, rotations, published, dropped>>

Next ==
    \/ \E kind \in Kinds : Request(kind)
    \/ Rotate
    \/ readNewLines
    \/ poll
    \/ FirstEvent
    \/ Drain
    \/ PublishAudit
    \/ flush
    \/ Crash

Spec == Init /\ [][Next]_vars

\* The ticker of the tailer keeps firing, its HEAD requests and the publish
\* return, and both goroutines are scheduled.
FairSpec ==
    /\ Spec
    /\ WF_vars(readNewLines)
    /\ WF_vars(poll)
    /\ WF_vars(FirstEvent \/ Drain \/ PublishAudit)

-----------------------------------------------------------------------------
\* Types of every variable; the channel never holds more than its capacity and
\* an offset never passes the lines nginx has written.
LogTypeOK ==
    /\ log \in Seq(Line) /\ written \in 0 .. MaxLines
    /\ offset \in 0 .. written /\ toffset \in 0 .. written
    /\ pending \in Seq(Line)
    /\ ch \in Seq(Ids) /\ Len(ch) <= Cap
    /\ batch \in Seq(Ids)
    /\ loop \in {"wait", "drain", "publish"}
    /\ loop = "wait" <=> batch = <<>>
    /\ rotations \in Nat /\ crashes \in Nat
    /\ last \in 0 .. written
    /\ {rotated, missed, trotated, tmissed} \subseteq BOOLEAN
    /\ read \subseteq Ids /\ counted \subseteq Ids
    /\ published \subseteq Ids /\ dropped \subseteq Ids

Increasing(s) == \A i, j \in 1 .. Len(s) : i < j => s[i] < s[j]

\* Audit events travel in log order and none twice while the agent runs, across
\* rotations too: what was published last, the batch, the channel and the lines
\* still to be handled are strictly increasing (auditTailer, auditLoop).
AuditInOrder ==
    Increasing(<<last>> \o batch \o ch \o [i \in 1 .. Len(pending) |-> pending[i].id])

\* The audit tailer steps over a line of the current log without reading it only
\* when it missed a rotation: the new file had outgrown the offset by the next
\* poll (readNewLines compares the offset with the size alone).
OnlyMissedRotationSkips ==
    missed \/ rotated \/ \A i \in 1 .. offset : log[i].id \in read

\* No request is counted in two traffic windows while the agent runs, whoever
\* asks for them, and one that was never counted and is not to come was stepped
\* over by a missed rotation (FlushTraffic).
TrafficCountedOnce ==
    /\ Counted(Unread(toffset)) \intersect counted = {}
    /\ tmissed \/ trotated \/ Counted(log) \subseteq counted \union Counted(Unread(toffset))

Logged(id) == \E i \in 1 .. Len(log) : log[i] = [id |-> id, kind |-> "mutation"]

\* Every mutation in the log ends up published or dropped with a warning, also
\* across crashes, unless a rotation takes the line away (auditTailer emits an
\* event per mutation; the tailer starts over after a restart).
EveryMutationAudited ==
    \A id \in Ids :
        Logged(id) ~> id \in published \union dropped \/ ~Logged(id) \/ missed


=============================================================================
