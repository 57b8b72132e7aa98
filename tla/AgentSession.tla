---------------------------- MODULE AgentSession ----------------------------
(***************************************************************************)
(* The agent as the platform sees it: the life of its process                *)
(* (cmd/agent/main.go) from reading its identity (pkg/isoconfig/reader.go) to *)
(* the drain at its end, its NATS connection (internal/nats/client.go), the   *)
(* one handler that takes commands from it, and the results, capabilities    *)
(* and heartbeats it publishes (internal/publisher/publisher.go). The other   *)
(* loops' events are left out: they are published the same way.               *)
(*                                                                         *)
(* NATS core keeps nothing: a command published while the agent is not        *)
(* subscribed is gone. Of the connection itself (the library nats.go and the  *)
(* server) only what this code relies on is modelled: a queue of received     *)
(* messages, a buffer of messages to send that is kept over an outage, and    *)
(* reconnecting until the credentials are refused.                            *)
(***************************************************************************)
EXTENDS CommandExec, Sequences

CONSTANTS
    Ids,            \* command ids
    None,           \* no command
    Large,          \* commands whose results, unless they are rejected, are larger
                    \* than the server's max_payload
    Sources,        \* where the identity may come from: [yaml, json, cfg]
    Unlimited,      \* nats.max_reconnects is -1
    PendingLimit,   \* messages the subscription holds
    BufferLimit,    \* messages the client buffers while it is not connected
    MaxBeats,       \* bound: heartbeats per run of the process
    MaxFaults       \* bound: outages, stops, crashes, changes of credentials

\* A metadata file of the config drive: does it have a virtual_machine_id, and
\* does the server accept it with the file's agent_api_key.
MetaFile == [st : {"absent", "broken", "parsed"}, vmid : BOOLEAN, good : BOOLEAN]

ASSUME NoneAssumption == None \notin Ids
ASSUME LargeAssumption == Large \subseteq Ids
ASSUME SourceAssumption == Sources \subseteq [yaml : MetaFile, json : MetaFile, cfg : BOOLEAN]
ASSUME LimitAssumption == PendingLimit \in Nat /\ BufferLimit \in Nat /\ Unlimited \in BOOLEAN
ASSUME BoundAssumption == MaxBeats \in Nat /\ MaxFaults \in Nat

VARIABLES
    source,   \* the config file and the config drive
    proc,     \* the process: "off", "boot", "start", "run" or "drain"
    trusted,  \* the server accepts the credentials the process uses
    server,   \* the NATS server can be reached
    conn,     \* "none", "up", "down" (reconnecting) or "closed" for good
    inbox,    \* messages received and not handled yet
    cur,      \* the command being handled
    out,      \* messages published and not sent yet
    sent,     \* ids the platform has used
    got,      \* ids of the results the platform has received
    beats, faults,
    \* history, of the present run of the process but for `lost`:
    seen,     \* kinds of events the platform has received
    torn,     \* the connection has been down
    lost      \* accepted commands whose answer will never come

session == <<source, proc, trusted, server, conn, inbox, cur, out, sent, got,
             beats, faults, seen, torn, lost>>
vars == <<work, session>>

Members(s) == {s[i] : i \in DOMAIN s}
Result(id) == [kind |-> "result", id |-> id]
Event(k) == [kind |-> k, id |-> None]
IdsOf(s) == {m.id : m \in Members(s)} \ {None}

Fault == faults < MaxFaults /\ faults' = faults + 1

Init ==
    /\ NoWork
    /\ source \in Sources
    /\ proc = "off" /\ trusted = FALSE /\ server = TRUE /\ conn = "none"
    /\ inbox = <<>> /\ cur = None /\ out = <<>>
    /\ sent = {} /\ got = {}
    /\ beats = 0 /\ faults = 0
    /\ seen = {} /\ torn = FALSE /\ lost = {}

-----------------------------------------------------------------------------
(* Start. The identity is resolved once per run of the process; the config    *)
(* file is one that can be loaded.                                            *)

\* Reader.Read: metadata.yaml, else metadata.json; one that is there and cannot
\* be read or parsed is an error.
Metadata(s) == IF s.yaml.st # "absent" THEN s.yaml ELSE s.json

\* run(): an identity on the drive takes the place of the one in the config,
\* key included; without one, or when reading it fails, that of the config.
Resolve_DriveOnly(s) == Metadata(s).st = "parsed" /\ Metadata(s).good
Resolve(s) ==
    IF Metadata(s).st = "parsed" /\ Metadata(s).vmid THEN Metadata(s).good ELSE s.cfg

Boot ==
    /\ proc = "off"
    /\ proc' = "boot"
    /\ trusted' = Resolve(source)
    /\ UNCHANGED <<work, source, server, conn, inbox, cur, out, sent, got,
                   beats, faults, seen, torn, lost>>

\* Connect and Subscribe. An error ends the process; systemd starts it again.
Connect ==
    /\ proc = "boot"
    /\ IF server /\ trusted
       THEN proc' = "start" /\ conn' = "up"
       ELSE proc' = "off" /\ UNCHANGED conn
    /\ UNCHANGED <<work, source, trusted, server, inbox, cur, out, sent, got,
                   beats, faults, seen, torn, lost>>

\* Conn.Publish: an error, when the message exceeds max_payload, the connection
\* is closed or the buffer for the time after an outage is full, is only logged.
TooLarge(m) == m.kind = "result" /\ m.id \in Large /\ status # "rejected"
Fits(m) ==
    /\ ~TooLarge(m)
    /\ conn = "up" \/ (conn = "down" /\ Len(out) < BufferLimit)
Publish(m) == out' = IF Fits(m) THEN Append(out, m) ELSE out

\* Publisher.Start: the capabilities first, then the loops.
Start ==
    /\ proc = "start"
    /\ proc' = "run"
    /\ Publish(Event("capabilities"))
    /\ UNCHANGED <<work, source, trusted, server, conn, inbox, cur, sent, got,
                   beats, faults, seen, torn, lost>>

\* When heartbeatLoop is running: it may tick once more before it sees that the
\* context was cancelled.
Beating_Early == proc \in {"start", "run", "drain"}
Beating == proc \in {"run", "drain"}

sendHeartbeat ==
    /\ Beating
    /\ beats < MaxBeats
    /\ beats' = beats + 1
    /\ Publish(Event("heartbeat"))
    /\ UNCHANGED <<work, source, proc, trusted, server, conn, inbox, cur, sent, got,
                   faults, seen, torn, lost>>

\* telemetryLoop, started with the heartbeats, takes an interval it was sent.
telemetryLoop == Beating /\ LoopReceives /\ UNCHANGED session

-----------------------------------------------------------------------------
(* Commands. The library calls the handler for one message at a time.         *)

\* The platform publishes message id: an envelope of version 1, or one that
\* cannot be parsed or has another version. It must find the subscription, which a drain ends at
\* some moment, and room in it.
Send(id, v1) ==
    /\ id \notin sent
    /\ sent' = sent \union {id}
    /\ \/ /\ conn = "up" /\ Len(inbox) < PendingLimit
          /\ inbox' = Append(inbox, [id |-> id, v1 |-> v1])
       \/ /\ conn # "up" \/ proc = "drain" \/ Len(inbox) = PendingLimit
          /\ UNCHANGED inbox
    /\ UNCHANGED <<work, source, proc, trusted, server, conn, cur, out, got,
                   beats, faults, seen, torn, lost>>

\* The callback of Subscribe hands on what it can parse and has version 1, a
\* command by its type or not: the type is not looked at.
Readable_AnyVersion(m) == TRUE
Readable(m) == m.v1

\* agent.allowed_operations: the capabilities are published again.
SendCapabilities ==
    Publish(Event("capabilities")) /\ Answer("completed") /\ UNCHANGED <<left, child, heir, job, slot>>

Take ==
    /\ hpc = "idle" /\ inbox # <<>>
    /\ inbox' = Tail(inbox)
    /\ IF Readable(Head(inbox))
       THEN /\ cur' = Head(inbox).id
            /\ \/ Dispatch /\ UNCHANGED out
               \/ SendCapabilities
       ELSE UNCHANGED <<work, cur, out>>
    /\ UNCHANGED <<source, proc, trusted, server, conn, sent, got,
                   beats, faults, seen, torn, lost>>

\* The result goes to the inbox of a waiting caller or to the evt subject.
Reply ==
    /\ hpc = "reply"
    /\ hpc' = "idle" /\ status' = "none"
    /\ Publish(Result(cur))
    /\ lost' = IF Fits(Result(cur)) THEN lost ELSE lost \union {cur}
    /\ cur' = None
    /\ UNCHANGED <<left, child, heir, job, slot, source, proc, trusted, server, conn, inbox,
                   sent, got, beats, faults, seen, torn>>

-----------------------------------------------------------------------------
(* The connection (external: nats.go and the server).                         *)

Flush ==
    /\ conn = "up" /\ out # <<>>
    /\ out' = Tail(out)
    /\ got' = got \union ({Head(out).id} \ {None})
    /\ seen' = seen \union {Head(out).kind}
    /\ UNCHANGED <<work, source, proc, trusted, server, conn, inbox, cur, sent,
                   beats, faults, torn, lost>>

\* An outage takes the first k messages with it: they were written to a socket
\* nobody read.
Disconnect(k) ==
    /\ conn = "up"
    /\ Fault
    /\ conn' = "down"
    /\ server' \in BOOLEAN
    /\ out' = SubSeq(out, k + 1, Len(out))
    /\ lost' = lost \union IdsOf(SubSeq(out, 1, k))
    /\ torn' = TRUE
    /\ UNCHANGED <<work, source, proc, trusted, inbox, cur, sent, got, beats, seen>>

ServerBack ==
    /\ ~server
    /\ server' = TRUE
    /\ UNCHANGED <<work, source, proc, trusted, conn, inbox, cur, out, sent, got,
                   beats, faults, seen, torn, lost>>

\* The client reconnects, or closes the connection for good when the server
\* refuses its credentials or the attempts are used up.
Reconnect ==
    /\ conn = "down"
    /\ \/ /\ server /\ trusted
          /\ conn' = "up"
          /\ UNCHANGED <<out, lost>>
       \/ /\ (server /\ ~trusted) \/ ~Unlimited
          /\ conn' = "closed"
          /\ out' = <<>>
          /\ lost' = lost \union IdsOf(out)
    /\ UNCHANGED <<work, source, proc, trusted, server, inbox, cur, sent, got,
                   beats, faults, seen, torn>>

\* Credentials are replaced, and the ones in use may be revoked.
Reprovision ==
    /\ Fault
    /\ source' \in Sources
    /\ trusted' \in {trusted, FALSE}
    /\ UNCHANGED <<work, proc, server, conn, inbox, cur, out, sent, got,
                   beats, seen, torn, lost>>

-----------------------------------------------------------------------------
(* End. After SIGTERM the context is cancelled, and Drain starts to drain the *)
(* connection in the background while run() returns: the process may be gone  *)
(* before any of it is done.                                                  *)

\* Before signal.Notify the signal just kills the process: that is Crash.
Terminate ==
    /\ proc = "run"
    /\ Fault
    /\ proc' = "drain"
    /\ UNCHANGED <<work, source, trusted, server, conn, inbox, cur, out, sent, got,
                   beats, seen, torn, lost>>

Commands(q) == {m.id : m \in {n \in Members(q) : n.v1}}

Vanish ==
    /\ DropWork
    /\ proc' = "off" /\ conn' = "none" /\ trusted' = FALSE
    /\ inbox' = <<>> /\ cur' = None /\ out' = <<>>
    /\ beats' = 0 /\ seen' = {} /\ torn' = FALSE
    /\ lost' = lost \union Commands(inbox) \union ({cur} \ {None}) \union IdsOf(out)
    /\ UNCHANGED <<source, server, sent, got>>

Exit == proc = "drain" /\ Vanish /\ UNCHANGED faults

Crash == proc # "off" /\ Fault /\ Vanish

-----------------------------------------------------------------------------
Lifecycle == Boot \/ Connect \/ Start \/ Exit

Handler == Take \/ Reply \/ (HandlerStep /\ UNCHANGED session)

Next ==
    \/ Lifecycle
    \/ Handler
    \/ sendHeartbeat
    \/ Flush \/ Reconnect \/ ServerBack
    \/ \E id \in Ids, v1 \in BOOLEAN : Send(id, v1)
    \/ \E k \in 0..Len(out) : Disconnect(k)
    \/ Reprovision
    \/ Terminate \/ Crash
    \/ Deadline /\ UNCHANGED session
    \/ HostStep /\ UNCHANGED session
    \/ telemetryLoop

Spec == Init /\ [][Next]_vars

\* Goroutines run, systemd restarts the process (Restart=always) and ends its
\* jobs, the executor's timer fires, outages end. Processes the agent started
\* need not end by themselves.
FairSpec ==
    /\ Spec
    /\ WF_vars(Lifecycle) /\ WF_vars(Handler)
    /\ WF_vars(Flush) /\ WF_vars(Reconnect) /\ WF_vars(ServerBack)
    /\ WF_vars(Deadline /\ UNCHANGED session)
    /\ WF_vars(JobEnds /\ UNCHANGED session)

-----------------------------------------------------------------------------
(* Properties.                                                                *)

Messages == [kind : {"result"}, id : Ids]
              \union [kind : {"capabilities", "heartbeat"}, id : {None}]

\* Types of every variable; a process that is not running has no connection
\* and nothing in hand, and only a busy handler has a command.
SessionTypeOK ==
    /\ WorkTypeOK
    /\ source \in Sources
    /\ proc \in {"off", "boot", "start", "run", "drain"}
    /\ trusted \in BOOLEAN /\ server \in BOOLEAN
    /\ conn \in {"none", "up", "down", "closed"}
    /\ (conn = "none" <=> proc \in {"off", "boot"})
    /\ conn = "none" => inbox = <<>> /\ out = <<>>
    /\ inbox \in Seq([id : Ids, v1 : BOOLEAN]) /\ Len(inbox) <= PendingLimit
    /\ cur \in Ids \union {None} /\ (cur # None <=> hpc # "idle")
    /\ out \in Seq(Messages)
    /\ sent \subseteq Ids /\ got \subseteq sent /\ lost \subseteq sent
    /\ beats \in 0..MaxBeats /\ faults \in 0..MaxFaults
    /\ seen \subseteq {"result", "capabilities", "heartbeat"}
    /\ torn \in BOOLEAN

\* The commands on their way through the agent: answers to send, the command
\* in hand, commands not handled yet. They are answered in this order.
Open == IdsOf(out) \union ({cur} \ {None}) \union Commands(inbox)

Before(q, a, b) == \E i, j \in DOMAIN q : i < j /\ q[i].id = a /\ q[j].id = b
Precedes(a, b) ==
    \/ Before(out, a, b)
    \/ a \in IdsOf(out) /\ b \notin IdsOf(out)
    \/ a = cur /\ b \in IdsOf(inbox)
    \/ Before(inbox, a, b)
Ahead == [b \in Open |-> {a \in Open : Precedes(a, b)}]

\* The session implements the promise of AtMostOnce, over outages, crashes,
\* shutdowns, full buffers, answers that are too large, messages that cannot be
\* read and commands that run as long as they like (Subscribe, Dispatch,
\* Publish).
Promise == INSTANCE AtMostOnce WITH ahead <- Ahead, answered <- got, up <- (conn = "up")
PromiseKept == Promise!Spec

\* What holds the handler, and with it every later command, for good: a
\* descendant that keeps the output open, systemd's answer or signal that does
\* not come, an interval telemetryLoop took from under SetTelemetryInterval.
Stuck == heir \/ job = "mute" \/ (hpc = "receive" /\ ~slot)

\* Every command that reached the agent is answered, unless its answer is too
\* large or is lost in an outage or with the process, or the handler is stuck
\* for good in one of these three ways (Take, Execute's deadline, Reconnect).
AcceptedIsAnswered ==
    \/ <>[]Stuck
    \/ \A id \in Ids : id \in Open ~> id \in got \union lost

\* In every run of the process the platform learns what the agent can do
\* before it hears a heartbeat, unless the connection was down in between:
\* capabilities are published once (Publisher.Start).
CapabilitiesLead == "heartbeat" \in seen => "capabilities" \in seen \/ torn

\* With an identity the server accepts, from the drive or, without one there
\* or with one that cannot be read, from the config, the agent connects
\* however often it was refused, stopped or crashed; only credentials revoked
\* while it runs, or a limit on its attempts, leave it running without a
\* connection (run, Read, Connect).
UsableIdentity(s) ==
    LET Named(f) == f.st = "parsed" /\ f.vmid IN
    \/ Named(s.yaml) /\ s.yaml.good
    \/ s.yaml.st = "absent" /\ Named(s.json) /\ s.json.good
    \/ s.cfg /\ ~Named(s.yaml) /\ ~Named(s.json)
GaveUp == conn = "closed" /\ (~trusted \/ ~Unlimited)
AgentComesUp ==
    (server /\ UsableIdentity(source))
        ~> (conn = "up" \/ GaveUp \/ ~server \/ ~UsableIdentity(source))

=============================================================================
