----------------------------- MODULE CommandExec -----------------------------
(***************************************************************************)
(* What the command handler does on the host: Dispatcher.Dispatch and run    *)
(* (internal/dispatcher/dispatcher.go) with Executor.Execute                 *)
(* (internal/executor/executor.go) for exec, system.update and vm.*, the      *)
(* calls of services.* to systemd (internal/modules/services/linux.go), and   *)
(* the channel telemetry.set_interval shares with telemetryLoop               *)
(* (internal/publisher/publisher.go; its intervals are in TelemetryInterval). *)
(* AgentSession composes it with the connection the commands come from.       *)
(***************************************************************************)
EXTENDS Naturals

VARIABLES
    hpc,     \* the handler: "idle", "exec" (in Execute), "job" (waiting for systemd),
             \* "receive" (in SetTelemetryInterval), "reply"
    left,    \* calls of Execute the command has yet to make, this one included
    child,   \* the process Execute started: "none", "running" or how it ended
    heir,    \* a descendant of it holds its stdout or stderr open
    job,     \* the call to systemd: "none", "queued", how it ended, or "mute"
    slot,    \* telemetryIntervalCh holds an interval
    status   \* status of the result

work == <<hpc, left, child, heir, job, slot, status>>

NoWork ==
    /\ hpc = "idle" /\ left = 0 /\ child = "none" /\ heir = FALSE
    /\ job = "none" /\ slot = FALSE /\ status = "none"

\* The handler stops, with its process: systemd kills its whole control group.
DropWork ==
    /\ hpc' = "idle" /\ left' = 0 /\ child' = "none" /\ heir' = FALSE
    /\ job' = "none" /\ slot' = FALSE /\ status' = "none"

Answer(s) == hpc' = "reply" /\ status' = s

-----------------------------------------------------------------------------
(* Dispatch, by what the operation does.                                      *)

\* Not in allowed_operations, or payload or params cannot be decoded.
Reject == Answer("rejected") /\ UNCHANGED <<left, child, heir, job, slot>>

\* Operations that return after file access and requests with a time limit
\* (those on S3 are modelled in S3Control, BucketSettings and NginxBlocking;
\* their restarts and reloads are calls of Execute), an unknown operation, a
\* command that is not in allowed_commands, an update on another OS, an
\* interval_s that is not positive.
Query == \E s \in {"completed", "failed"} : Answer(s) /\ UNCHANGED <<left, child, heir, job, slot>>

\* Calls of Execute: apt-get update and upgrade for system.update, else one.
Calls_OffByOne == {0, 1}
Calls == {1, 2}

Run == \E n \in Calls : hpc' = "exec" /\ left' = n /\ UNCHANGED <<child, heir, job, slot, status>>

\* services.*: without D-Bus, or when systemd refuses, start, stop, restart,
\* reload, enable and disable put the error in the output of a completed result,
\* list and get fail. Otherwise the handler waits for systemd: for the answer to
\* its call and, after start, stop, restart and reload, for the job.
Service ==
    \/ \E s \in {"completed", "failed"} : Answer(s) /\ UNCHANGED <<left, child, heir, job, slot>>
    \/ hpc' = "job" /\ job' = "queued" /\ UNCHANGED <<left, child, heir, slot, status>>

\* telemetry.set_interval (SetTelemetryInterval): an interval is sent to a
\* channel that has room for one; to a full one, after receiving what it holds.
SetInterval ==
    /\ IF slot THEN hpc' = "receive" /\ UNCHANGED <<slot, status>>
               ELSE slot' = TRUE /\ Answer("completed")
    /\ UNCHANGED <<left, child, heir, job>>

Dispatch == Reject \/ Query \/ Run \/ Service \/ SetInterval

-----------------------------------------------------------------------------
(* Executor.Execute.                                                          *)

Spawn ==
    /\ hpc = "exec" /\ child = "none"
    /\ \/ child' = "running" /\ UNCHANGED <<hpc, left, status>>
       \/ Answer("failed") /\ left' = 0 /\ UNCHANGED child
    /\ UNCHANGED <<heir, job, slot>>

\* The process leaves a descendant behind that inherited its output (external).
Fork ==
    /\ child = "running"
    /\ heir' = TRUE
    /\ UNCHANGED <<hpc, left, child, job, slot, status>>

ChildExits ==
    /\ child = "running"
    /\ child' \in {"ok", "error"}
    /\ UNCHANGED <<hpc, left, heir, job, slot, status>>

HeirExits ==
    /\ heir
    /\ heir' = FALSE
    /\ UNCHANGED <<hpc, left, child, job, slot, status>>

\* The deadline of 30 seconds, or the cancelled context of a shutdown, kills
\* the process Execute started and none of its descendants.
Deadline_None == FALSE /\ UNCHANGED work
Deadline ==
    /\ child = "running"
    /\ child' = "killed"
    /\ UNCHANGED <<hpc, left, heir, job, slot, status>>

\* Run copies the output until every holder has closed it.
OutputClosed_NotAwaited == TRUE
OutputClosed == ~heir

ExecuteReturns ==
    /\ hpc = "exec"
    /\ child \in {"ok", "error", "killed"} /\ OutputClosed
    /\ child' = "none"
    /\ IF child = "ok" /\ left > 1
       THEN left' = left - 1 /\ UNCHANGED <<hpc, status>>
       ELSE left' = 0 /\ Answer(IF child = "ok" THEN "completed" ELSE "failed")
    /\ UNCHANGED <<heir, job, slot>>

-----------------------------------------------------------------------------
(* The waits without a deadline: for systemd, and for the channel.            *)

\* systemd answers or finishes the job; its answer or signal may never reach
\* the agent (external).
JobEnds ==
    /\ job = "queued"
    /\ job' \in {"done", "failed", "mute"}
    /\ UNCHANGED <<hpc, left, child, heir, slot, status>>

\* A job that did not end in "done" is reported in the output of a completed
\* result, too; an error of list or get fails the command.
JobReturns ==
    /\ hpc = "job" /\ job \in {"done", "failed"}
    /\ \E s \in {"completed"} \union (IF job = "failed" THEN {"failed"} ELSE {}) : Answer(s)
    /\ job' = "none"
    /\ UNCHANGED <<left, child, heir, slot>>

\* The handler gets the interval it found in the channel back and sends its own.
Replaces ==
    /\ hpc = "receive" /\ slot
    /\ Answer("completed")
    /\ UNCHANGED <<left, child, heir, job, slot>>

\* telemetryLoop receives the interval, before the handler or after it.
LoopReceives ==
    /\ slot
    /\ slot' = FALSE
    /\ UNCHANGED <<hpc, left, child, heir, job, status>>

HandlerStep == Spawn \/ ExecuteReturns \/ JobReturns \/ Replaces
HostStep == Fork \/ ChildExits \/ HeirExits \/ JobEnds

WorkTypeOK ==
    /\ hpc \in {"idle", "exec", "job", "receive", "reply"}
    /\ left \in 0..2 /\ (left > 0 <=> hpc = "exec")
    /\ child \in {"none", "running", "ok", "error", "killed"}
    /\ heir \in BOOLEAN
    /\ job \in {"none", "queued", "done", "failed", "mute"}
    /\ (job # "none" <=> hpc = "job")
    /\ slot \in BOOLEAN
    /\ status \in {"none", "completed", "failed", "rejected"}
    /\ (status # "none" <=> hpc = "reply")

\* Commands do not overlap on the host: when a result is published, nothing
\* that could still write to its output is running (Execute waits for its
\* process and for whoever holds the output, deadline or not).
NoLeftovers == hpc # "exec" => child = "none" /\ ~heir

=============================================================================
