--------------------------- MODULE NginxBlocking ---------------------------
(***************************************************************************)
(* Blocking of customer access keys: s3.customer.block and                  *)
(* s3.customer.unblock (internal/dispatcher/dispatcher.go) as carried out by *)
(* BlockAccessKey and UnblockAccessKey (internal/modules/s3/manager.go), and  *)
(* the same two calls made by s3dctl blocked add and remove                   *)
(* (cmd/ctl/main.go) from other processes.                                    *)
(*                                                                         *)
(* s3_blocked_keys.conf is the set of keys that have an `if` block in it. It  *)
(* takes effect when nginx next reads it.                                     *)
(***************************************************************************)
EXTENDS Naturals

CONSTANTS
    Keys,       \* customer access keys
    Agent,      \* the agent's process
    Ctls,       \* s3dctl processes
    MaxOps,     \* bound: block and unblock calls
    MaxCrashes  \* bound: agent crashes and s3dctl interrupts

ASSUME BlockProcessAssumption == Agent \notin Ctls
ASSUME BlockBoundAssumption == MaxOps \in Nat /\ MaxCrashes \in Nat

Procs == Ctls \union {Agent}
Op == [kind : {"block", "unblock"}, key : Keys]

VARIABLES
    exists,     \* s3_blocked_keys.conf exists
    conf,       \* the keys blocked in it
    active,     \* the keys nginx enforces
    hup,        \* nginx was told to reload and has yet to read its files
    pc,         \* where each process is
    op,         \* the call each process is making: {} when none
    buf,        \* the content each process is about to write
    outcome,    \* what each process's last call returned
    ops, crashes,
    debt,       \* history: a reload failed or was never run since the last one
    overtaken   \* history: processes whose read someone has since overwritten

vars == <<exists, conf, active, hup, pc, op, buf, outcome, ops, crashes, debt, overtaken>>

At(p, label) == pc[p] = label
Goto(p, label) == pc' = [pc EXCEPT ![p] = label]

Init ==
    /\ exists \in BOOLEAN
    /\ conf \in SUBSET Keys
    /\ exists \/ conf = {}
    /\ active = conf
    /\ hup = FALSE
    /\ pc = [p \in Procs |-> "idle"]
    /\ op = [p \in Procs |-> {}]
    /\ buf = [p \in Procs |-> {}]
    /\ outcome = [p \in Procs |-> "none"]
    /\ ops = 0 /\ crashes = 0
    /\ debt = FALSE
    /\ overtaken = {}

\* The dispatcher or s3dctl makes a call.
Call(p, o) ==
    /\ At(p, "idle")
    /\ ops < MaxOps
    /\ ops' = ops + 1
    /\ op' = [op EXCEPT ![p] = {o}]
    /\ outcome' = [outcome EXCEPT ![p] = "none"]
    /\ Goto(p, "read")
    /\ UNCHANGED <<exists, conf, active, hup, buf, crashes, debt, overtaken>>

\* The call returns to its caller.
Return(p, result) ==
    /\ Goto(p, "idle")
    /\ op' = [op EXCEPT ![p] = {}]
    /\ outcome' = [outcome EXCEPT ![p] = result]

\* BlockAccessKey returns at once when the key is in the file, UnblockAccessKey
\* only when there is no file.
NothingToDo(o) ==
    \/ o.kind = "block" /\ o.key \in conf
    \/ o.kind = "unblock" /\ ~exists

Edited_WrongField(o) == IF o.kind = "block" THEN conf \union {o.kind} ELSE conf \ {o.key}
Edited_Fresh(o) == IF o.kind = "block" THEN {o.key} ELSE conf \ {o.key}
Edited(o) ==
    IF o.kind = "block" THEN conf \union {o.key} ELSE conf \ {o.key}

ReadFile(p, o) ==
    /\ At(p, "read")
    /\ op[p] = {o}
    /\ \/ /\ NothingToDo(o)
          /\ Return(p, "completed")
          /\ UNCHANGED buf
       \/ /\ ~NothingToDo(o)
          /\ buf' = [buf EXCEPT ![p] = Edited(o)]
          /\ Goto(p, "write")
          /\ UNCHANGED <<op, outcome>>
       \/ \* the file cannot be read
          /\ Return(p, "failed")
          /\ UNCHANGED buf
    /\ UNCHANGED <<exists, conf, active, hup, ops, crashes, debt, overtaken>>

\* A writer goes on to reload nginx.
Written_NoReload(p) == Return(p, "completed")
Written(p) == Goto(p, "reload") /\ UNCHANGED <<op, outcome>>

\* atomicWrite replaces the whole file or leaves it alone.
WriteFile(p) ==
    /\ At(p, "write")
    /\ \/ /\ conf' = buf[p]
          /\ exists' = TRUE
          /\ overtaken' = {q \in Procs \ {p} : At(q, "write")}
          /\ Written(p)
       \/ /\ Return(p, "failed")
          /\ overtaken' = overtaken \ {p}
          /\ UNCHANGED <<exists, conf>>
    /\ buf' = [buf EXCEPT ![p] = {}]
    /\ UNCHANGED <<active, hup, ops, crashes, debt>>

\* nginx -s reload succeeds once the master has been signalled.
reloadNginx(p) ==
    /\ At(p, "reload")
    /\ \/ /\ hup' = TRUE
          /\ debt' = FALSE
          /\ Return(p, "completed")
       \/ /\ hup' \in {hup, TRUE}   \* a timeout may come after the signal
          /\ debt' = TRUE
          /\ Return(p, "failed")
    /\ UNCHANGED <<exists, conf, active, buf, ops, crashes, overtaken>>

\* nginx reads its files: after a signal, or when it is started again.
NginxLoad ==
    /\ active' = conf
    /\ hup' = FALSE
    /\ debt' = FALSE
    /\ UNCHANGED <<exists, conf, pc, op, buf, outcome, ops, crashes, overtaken>>

\* The agent dies, or an operator interrupts s3dctl.
Crash(p) ==
    /\ ~At(p, "idle")
    /\ crashes < MaxCrashes
    /\ crashes' = crashes + 1
    /\ Return(p, "none")
    /\ buf' = [buf EXCEPT ![p] = {}]
    /\ debt' = (debt \/ At(p, "reload"))
    /\ overtaken' = overtaken \ {p}
    /\ UNCHANGED <<exists, conf, active, hup, ops>>

Step(p) == (\E o \in op[p] : ReadFile(p, o)) \/ WriteFile(p) \/ reloadNginx(p)

Next ==
    \/ \E p \in Procs, o \in Op : Call(p, o)
    \/ \E p \in Procs : Step(p) \/ Crash(p)
    \/ NginxLoad

Spec == Init /\ [][Next]_vars

-----------------------------------------------------------------------------
\* Types of every variable; only a process that is making a call has one, and
\* there is no content without a file.
BlockTypeOK ==
    /\ exists \in BOOLEAN
    /\ conf \in SUBSET Keys /\ active \in SUBSET Keys
    /\ exists \/ conf = {}
    /\ hup \in BOOLEAN
    /\ pc \in [Procs -> {"idle", "read", "write", "reload"}]
    /\ op \in [Procs -> SUBSET Op]
    /\ \A p \in Procs : op[p] = {} <=> At(p, "idle")
    /\ \A p \in Procs : \A o1, o2 \in op[p] : o1 = o2
    /\ buf \in [Procs -> SUBSET Keys]
    /\ outcome \in [Procs -> {"none", "completed", "failed"}]
    /\ ops \in Nat /\ crashes \in Nat
    /\ debt \in BOOLEAN
    /\ overtaken \in SUBSET Procs

\* nginx enforces anything but the current block list only while it has been
\* told to reload, or a writer has yet to tell it, or a reload failed or was cut
\* off by a crash: no block or unblock forgets its reload.
StaleBlocksExplained ==
    active # conf => hup \/ debt \/ \E p \in Procs : At(p, "reload")

\* A key is lost from, or comes back to, the block list only when another
\* process wrote the file between the read and the write of the one that drops
\* or restores it: every other write changes exactly the key of its call.
OnlyOverlapLosesBlocks ==
    [][\A p \in Procs \ overtaken, o \in Op :
         op[p] = {o} /\ At(p, "write") /\ pc'[p] = "reload" =>
            /\ o.key \in conf' <=> o.kind = "block"
            /\ \A k \in Keys \ {o.key} : k \in conf' <=> k \in conf]_vars

=============================================================================
