----------------------------- MODULE S3Control -----------------------------
(***************************************************************************)
(* The S3 control plane of the agent: the dispatcher's bucket, IAM,         *)
(* full_sync and reconcile commands (internal/dispatcher/dispatcher.go) and  *)
(* the s3.Manager that carries them out (internal/modules/s3/manager.go)     *)
(* against the weed-s3 gateway and the file s3.json, which the s3dctl tool   *)
(* (cmd/ctl/main.go) edits from other processes.                             *)
(*                                                                         *)
(* s3.json is a bag of identities: its order never matters and iam_create    *)
(* may append the same identity twice. A missing file is the empty bag.      *)
(***************************************************************************)
EXTENDS Naturals

CONSTANTS
    Users,            \* identities the commands may carry: [name, key] records
    Admin,            \* the identity EnsureAdmin seeds: [name, key]
    FormerAdmins,     \* those it seeded before s3.admin_access_key was changed
    AdminConfigured,  \* s3.admin_access_key is not ""
    Buckets,          \* bucket names
    Payloads,         \* full_sync payloads: [buckets, iam]
    AllowedOps,       \* agent.allowed_operations
    Agent,            \* the agent's process
    Ctls,             \* s3dctl processes
    NoPayload,        \* lastDesired before the first full_sync
    MaxCmds,          \* bound: commands the agent receives
    MaxCtlOps,        \* bound: s3dctl invocations
    MaxUpsets,        \* bound: crashes, and bucket changes by others
    FirstFiles        \* contents s3.json may have at first

Identity == Users \union {Admin} \union FormerAdmins
NamesOf(ids) == {id.name : id \in ids}
Payload == [buckets : SUBSET Buckets, iam : SUBSET Users]
Scopes == {"all", "buckets", "iam"}

SyncOps == {"full_sync", "reconcile"}
IamOps == {"iam_create", "iam_delete"}
BucketOps == {"bucket_create", "bucket_delete"}

ASSUME UsersAssumption == \A id \in Identity : id = [name |-> id.name, key |-> id.key]
ASSUME FormerAssumption ==
    \A id \in FormerAdmins : id.name = Admin.name /\ id.key # Admin.key
ASSUME PayloadAssumption == Payloads \subseteq Payload /\ NoPayload \notin Payload
ASSUME ProcessAssumption == Agent \notin Ctls
ASSUME ConfigAssumption == AdminConfigured \in BOOLEAN
ASSUME BoundAssumption == MaxCmds \in Nat /\ MaxCtlOps \in Nat /\ MaxUpsets \in Nat

Bag == [Identity -> Nat]
ASSUME FileAssumption == FirstFiles \subseteq Bag

Procs == Ctls \union {Agent}

Command ==
    [op : {"boot"}, arg : {"none"}]
      \union [op : {"full_sync"}, arg : Payloads]
      \union [op : {"reconcile"}, arg : Scopes]
      \union [op : {"iam_create"}, arg : Users]
      \union [op : {"iam_delete"}, arg : NamesOf(Identity)]
      \union [op : BucketOps, arg : Buckets]

Boot == [op |-> "boot", arg |-> "none"]

\* An edit of s3.json: EnsureAdmin's seed, CreateIAMUser, DeleteIAMUser.
Edit ==
    [op : {"seed", "create"}, id : Identity]
      \union [op : {"delete"}, name : NamesOf(Identity)]

Seed == [op |-> "seed", id |-> Admin]
Create(u) == [op |-> "create", id |-> u]
Delete(n) == [op |-> "delete", name |-> n]

VARIABLES
    file,         \* s3.json: identity -> number of copies
    loaded,       \* the content weed-s3 read when it started last
    gw,           \* the weed-s3 unit: "up", "starting" or "down"
    buckets,      \* the buckets that exist
    pc,           \* where each process is
    edit,         \* the edit each process is making
    buf,          \* the edited content each process is about to write
    cmd,          \* the command the agent is handling
    want,         \* the desired state the running Reconcile was given
    lastDesired,  \* Dispatcher.lastDesired
    mk, rm,       \* buckets Reconcile has yet to create and to delete
    add, del,     \* users it has yet to create; identities yet to delete
    errs,         \* ReconcileResult.Errors is not empty
    status,       \* status of the result being published
    cmds, ctlOps, upsets,
    \* history:
    debt,         \* a reload failed or was never run since the last load
    touched,      \* buckets someone else changed since Reconcile listed them
    overtaken,    \* processes whose read someone else has since overwritten
    settled       \* desired states reached without error and not disturbed since

store == <<file, loaded, gw, buckets>>
sync == <<want, mk, rm, add, del, errs>>
counters == <<cmds, ctlOps, upsets>>
vars == <<file, loaded, gw, buckets, pc, edit, buf, cmd, want, lastDesired,
          mk, rm, add, del, errs, status, cmds, ctlOps, upsets,
          debt, touched, overtaken, settled>>

Empty == [id \in Identity |-> 0]

isSystemAdmin_Never(key) == FALSE
isSystemAdmin(key) == AdminConfigured /\ key = Admin.key

\* ListIAM: the identities of the file the platform manages.
ListIAM(f) == {id \in Identity : f[id] > 0 /\ ~isSystemAdmin(id.key)}

At(p, label) == pc[p] = label
Goto(p, label) == pc' = [pc EXCEPT ![p] = label]

Upset == upsets < MaxUpsets /\ upsets' = upsets + 1

\* The locals of Reconcile are gone once it has returned.
Nothing == [buckets |-> {}, iam |-> {}]
DropLocals ==
    /\ want' = Nothing
    /\ mk' = {} /\ rm' = {} /\ add' = {} /\ del' = Empty
    /\ errs' = FALSE
    /\ touched' = {}

-----------------------------------------------------------------------------
(* Agent life cycle. lastDesired and the command in flight live in memory.   *)

Init ==
    /\ file \in FirstFiles
    /\ loaded = file
    /\ gw = "up"
    /\ buckets \in SUBSET Buckets
    /\ pc = [p \in Procs |-> IF p = Agent THEN "off" ELSE "idle"]
    /\ edit = [p \in Procs |-> Seed]
    /\ buf = [p \in Procs |-> Empty]
    /\ cmd = Boot
    /\ want = Nothing
    /\ lastDesired = NoPayload
    /\ mk = {} /\ rm = {} /\ add = {} /\ del = Empty
    /\ errs = FALSE
    /\ status = "none"
    /\ cmds = 0 /\ ctlOps = 0 /\ upsets = 0
    /\ debt = FALSE
    /\ touched = {}
    /\ overtaken = {}
    /\ settled = {}

\* run() up to EnsureAdmin, whose failure is only logged.
Start ==
    /\ At(Agent, "off")
    /\ IF AdminConfigured
       THEN Goto(Agent, "read") /\ edit' = [edit EXCEPT ![Agent] = Seed]
       ELSE Goto(Agent, "idle") /\ UNCHANGED edit
    /\ UNCHANGED <<store, buf, cmd, lastDesired, sync, status, counters,
                   debt, touched, overtaken, settled>>

\* The process dies wherever it is; systemd starts it again (Restart=always).
Crash ==
    /\ ~At(Agent, "off")
    /\ Upset
    /\ Goto(Agent, "off")
    /\ edit' = [edit EXCEPT ![Agent] = Seed]
    /\ buf' = [buf EXCEPT ![Agent] = Empty]
    /\ cmd' = Boot
    /\ lastDesired' = NoPayload
    /\ DropLocals
    /\ status' = "none"
    /\ debt' = (debt \/ At(Agent, "reload"))
    /\ overtaken' = overtaken \ {Agent}
    /\ UNCHANGED <<store, cmds, ctlOps, settled>>

-----------------------------------------------------------------------------
(* Dispatch: NATS delivers one command at a time to the handler.             *)

Receive(c) ==
    /\ At(Agent, "idle")
    /\ cmds < MaxCmds
    /\ cmds' = cmds + 1
    /\ cmd' = c
    /\ errs' = FALSE

Finish(s) ==
    /\ Goto(Agent, "reply")
    /\ status' = s

\* The operation is not permitted on this agent, or its params cannot be
\* decoded (those of full_sync are decoded later, in runFullSync).
DispatchRejected(c) ==
    /\ Receive(c)
    /\ c.op \in AllowedOps => c.op # "full_sync"
    /\ Finish("rejected")
    /\ UNCHANGED <<store, edit, buf, want, lastDesired, mk, rm, add, del, ctlOps, upsets,
                   debt, touched, overtaken, settled>>

DispatchBucket(c) ==
    /\ c.op \in BucketOps \intersect AllowedOps
    /\ Receive(c)
    /\ Goto(Agent, "bucketOp")
    /\ UNCHANGED <<store, edit, buf, want, lastDesired, mk, rm, add, del, status,
                   ctlOps, upsets, debt, touched, overtaken, settled>>

DispatchIam(c) ==
    /\ c.op \in IamOps \intersect AllowedOps
    /\ Receive(c)
    /\ Goto(Agent, "read")
    /\ edit' = [edit EXCEPT ![Agent] = IF c.op = "iam_create" THEN Create(c.arg)
                                       ELSE Delete(c.arg)]
    /\ UNCHANGED <<store, buf, want, lastDesired, mk, rm, add, del, status,
                   ctlOps, upsets, debt, touched, overtaken, settled>>

\* runFullSync: a payload that cannot be decoded fails the command; any other
\* is kept before Reconcile runs.
DispatchFullSync(c) ==
    /\ c.op \in {"full_sync"} \intersect AllowedOps
    /\ Receive(c)
    /\ \/ /\ Finish("failed")
          /\ UNCHANGED <<want, lastDesired>>
       \/ /\ Goto(Agent, "listBuckets")
          /\ want' = c.arg
          /\ lastDesired' = c.arg
          /\ UNCHANGED status
    /\ UNCHANGED <<store, edit, buf, mk, rm, add, del,
                   ctlOps, upsets, debt, touched, overtaken, settled>>

\* The desired state a reconcile of the given scope hands to Reconcile: the
\* other kind's list is set to nil, which Reconcile reads as "none desired".
Scoped(scope) ==
    [buckets |-> IF scope = "iam" THEN {} ELSE lastDesired.buckets,
     iam     |-> IF scope = "buckets" THEN {} ELSE lastDesired.iam]

DispatchReconcile(c) ==
    /\ c.op \in {"reconcile"} \intersect AllowedOps
    /\ Receive(c)
    /\ \/ /\ lastDesired = NoPayload
          /\ Finish("failed")
          /\ UNCHANGED want
       \/ /\ lastDesired # NoPayload
          /\ Goto(Agent, "listBuckets")
          /\ want' = Scoped(c.arg)
          /\ UNCHANGED status
    /\ UNCHANGED <<store, edit, buf, lastDesired, mk, rm, add, del,
                   ctlOps, upsets, debt, touched, overtaken, settled>>

\* The handler publishes the result, or logs that it could not.
Reply ==
    /\ At(Agent, "reply")
    /\ Goto(Agent, "idle")
    /\ cmd' = Boot
    /\ DropLocals
    /\ status' = "none"
    /\ settled' = IF cmd.op \in SyncOps /\ status = "completed" /\ ~errs /\ touched = {}
                  THEN {want} ELSE settled
    /\ UNCHANGED <<store, edit, buf, lastDesired, counters, debt, overtaken>>

-----------------------------------------------------------------------------
(* Bucket requests to the gateway. A request may be refused, lost, or carried *)
(* out while its answer is lost; 2xx means it was carried out.                *)

\* What a PUT or DELETE leaves behind: `after` if the gateway carried it out.
Request(after, ok) ==
    \/ gw = "up" /\ buckets' = after
    \/ ~ok /\ UNCHANGED buckets

CreateBucket(b, ok) == Request(buckets \union {b}, ok)
DeleteBucket(b, ok) == Request(buckets \ {b}, ok)

\* bucket_create and bucket_delete.
BucketOp ==
    /\ At(Agent, "bucketOp")
    /\ \E ok \in BOOLEAN :
          /\ IF cmd.op = "bucket_create" THEN CreateBucket(cmd.arg, ok)
                                          ELSE DeleteBucket(cmd.arg, ok)
          /\ Finish(IF ok THEN "completed" ELSE "failed")
    /\ settled' = {}
    /\ UNCHANGED <<file, loaded, gw, edit, buf, cmd, lastDesired, sync, counters,
                   debt, touched, overtaken>>

-----------------------------------------------------------------------------
(* Reconcile, one step per request or list.                                   *)

\* The error of one item is appended to result.Errors and the loop goes on.
Collect_Dropped(ok) == errs
Collect(ok) == errs \/ ~ok

ListBuckets ==
    /\ At(Agent, "listBuckets")
    /\ \/ /\ gw = "up"
          /\ mk' = want.buckets \ buckets
          /\ rm' = buckets \ want.buckets
          /\ touched' = {}
          /\ Goto(Agent, "mkBuckets")
          /\ UNCHANGED status
       \/ /\ Finish("failed")
          /\ UNCHANGED <<mk, rm, touched>>
    /\ UNCHANGED <<store, edit, buf, cmd, want, lastDesired, add, del, errs, counters,
                   debt, overtaken, settled>>

CreateMissingBucket ==
    /\ At(Agent, "mkBuckets")
    /\ \/ \E b \in mk, ok \in BOOLEAN :
             /\ CreateBucket(b, ok)
             /\ mk' = mk \ {b}
             /\ errs' = Collect(ok)
             /\ settled' = {}
             /\ UNCHANGED pc
       \/ /\ mk = {}
          /\ Goto(Agent, "rmBuckets")
          /\ UNCHANGED <<buckets, mk, errs, settled>>
    /\ UNCHANGED <<file, loaded, gw, edit, buf, cmd, want, lastDesired, rm, add, del,
                   status, counters, debt, touched, overtaken>>

DeleteExtraBucket ==
    /\ At(Agent, "rmBuckets")
    /\ \/ \E b \in rm, ok \in BOOLEAN :
             /\ DeleteBucket(b, ok)
             /\ rm' = rm \ {b}
             /\ errs' = Collect(ok)
             /\ settled' = {}
             /\ UNCHANGED pc
       \/ /\ rm = {}
          /\ Goto(Agent, "listIAM")
          /\ UNCHANGED <<buckets, rm, errs, settled>>
    /\ UNCHANGED <<file, loaded, gw, edit, buf, cmd, want, lastDesired, mk, add, del,
                   status, counters, debt, touched, overtaken>>

\* The diff by name: users to create, and one deletion for every listed copy.
MissingUsers_All == want.iam
MissingUsers == {u \in want.iam : u.name \notin NamesOf(ListIAM(file))}
ExtraIdentities ==
    [id \in Identity |-> IF id \in ListIAM(file) /\ id.name \notin NamesOf(want.iam)
                         THEN file[id] ELSE 0]

ListActualIAM ==
    /\ At(Agent, "listIAM")
    /\ \/ /\ add' = MissingUsers
          /\ del' = ExtraIdentities
          /\ Goto(Agent, "addIAM")
          /\ UNCHANGED status
       \/ /\ Finish("failed")
          /\ UNCHANGED <<add, del>>
    /\ UNCHANGED <<store, edit, buf, cmd, want, lastDesired, mk, rm, errs, counters,
                   debt, touched, overtaken, settled>>

CreateMissingUser ==
    /\ At(Agent, "addIAM")
    /\ \/ \E u \in add :
             /\ add' = add \ {u}
             /\ edit' = [edit EXCEPT ![Agent] = Create(u)]
             /\ Goto(Agent, "read")
       \/ /\ add = {}
          /\ Goto(Agent, "delIAM")
          /\ UNCHANGED <<add, edit>>
    /\ UNCHANGED <<store, buf, cmd, want, lastDesired, mk, rm, del, errs, status, counters,
                   debt, touched, overtaken, settled>>

\* The delete loop runs once for every listed copy.
Pending_OffByOne(d) == {id \in Identity : d[id] >= 0}
Pending(d) == {id \in Identity : d[id] > 0}
Advance_Stuck(d, id) == d
Advance(d, id) == [d EXCEPT ![id] = @ - 1]

DeleteExtraUser ==
    /\ At(Agent, "delIAM")
    /\ \/ \E id \in Pending(del) :
             /\ del' = Advance(del, id)
             /\ edit' = [edit EXCEPT ![Agent] = Delete(id.name)]
             /\ Goto(Agent, "read")
             /\ UNCHANGED status
       \/ /\ del = Empty
          /\ Finish("completed")
          /\ UNCHANGED <<del, edit>>
    /\ UNCHANGED <<store, buf, cmd, want, lastDesired, mk, rm, add, errs, counters,
                   debt, touched, overtaken, settled>>

-----------------------------------------------------------------------------
(* CreateIAMUser, DeleteIAMUser and EnsureAdmin: read s3.json, write the      *)
(* edited copy, restart weed-s3. Another process may run between any two.     *)

Edited_OneCopy(e, f) ==
    IF e.op = "delete"
    THEN [id \in Identity |-> IF id.name = e.name /\ f[id] > 0 THEN f[id] - 1 ELSE f[id]]
    ELSE [f EXCEPT ![e.id] = @ + 1]

\* The content an edit makes of what it read.
Edited(e, f) ==
    IF e.op = "delete"
    THEN [id \in Identity |-> IF id.name = e.name THEN 0 ELSE f[id]]
    ELSE [f EXCEPT ![e.id] = @ + 1]

\* EnsureAdmin finds the admin key present: nothing to write or reload.
Present(e, f) == e.op = "seed" /\ \E id \in Identity : id.key = e.id.key /\ f[id] > 0
NotFound(e, f) == e.op = "delete" /\ \A id \in Identity : id.name = e.name => f[id] = 0

\* Where control goes when the edit of process p is over, and what it reports.
Return(p, ok) ==
    /\ edit' = [edit EXCEPT ![p] = Seed]
    /\ IF p \in Ctls \/ cmd.op = "boot" THEN
           Goto(p, "idle") /\ UNCHANGED <<errs, status>>
       ELSE IF cmd.op \in SyncOps THEN
           /\ Goto(p, IF edit[p].op = "create" THEN "addIAM" ELSE "delIAM")
           /\ errs' = Collect(ok)
           /\ UNCHANGED status
       ELSE
           Finish(IF ok THEN "completed" ELSE "failed") /\ UNCHANGED errs

readIAM(p) ==
    /\ At(p, "read")
    /\ \/ /\ ~Present(edit[p], file) /\ ~NotFound(edit[p], file)
          /\ buf' = [buf EXCEPT ![p] = Edited(edit[p], file)]
          /\ Goto(p, "write")
          /\ UNCHANGED <<edit, errs, status>>
       \/ /\ Present(edit[p], file)
          /\ Return(p, TRUE)
          /\ UNCHANGED buf
       \/ \* not found, or the file cannot be read or parsed
          /\ Return(p, FALSE)
          /\ UNCHANGED buf
    /\ UNCHANGED <<store, cmd, want, lastDesired, mk, rm, add, del, counters,
                   debt, touched, overtaken, settled>>

\* A writer goes on to reload the gateway.
Written_NoReload(p) == Return(p, TRUE)
Written(p) == Goto(p, "reload") /\ UNCHANGED <<edit, errs, status>>

\* atomicWrite: a rename replaces the whole file, an error leaves it alone.
writeIAM(p) ==
    /\ At(p, "write")
    /\ \/ /\ file' = buf[p]
          /\ overtaken' = {q \in Procs \ {p} : At(q, "write")}
          /\ settled' = {}
          /\ Written(p)
       \/ /\ Return(p, FALSE)
          /\ overtaken' = overtaken \ {p}
          /\ UNCHANGED <<file, settled>>
    /\ buf' = [buf EXCEPT ![p] = Empty]
    /\ UNCHANGED <<loaded, gw, buckets, cmd, want, lastDesired, mk, rm, add, del,
                   counters, debt, touched>>

reloadWeedS3_ErrorIgnored(p) ==
    /\ At(p, "reload")
    /\ gw' \in {gw, "down", "starting"}
    /\ debt' = (gw' # "starting")
    /\ Return(p, TRUE)
    /\ UNCHANGED <<file, loaded, buckets, buf, cmd, want, lastDesired, mk, rm, add, del,
                   counters, touched, overtaken, settled>>

\* systemctl restart: a Type=simple unit counts as started before it has read
\* its file. It may fail with the old process still running, with none
\* running, or time out while the restart goes on.
reloadWeedS3(p) ==
    /\ At(p, "reload")
    /\ \/ /\ gw' = "starting"
          /\ debt' = FALSE
          /\ Return(p, TRUE)
       \/ /\ gw' \in {gw, "down", "starting"}
          /\ debt' = TRUE
          /\ Return(p, FALSE)
    /\ UNCHANGED <<file, loaded, buckets, buf, cmd, want, lastDesired, mk, rm, add, del,
                   counters, touched, overtaken, settled>>

-----------------------------------------------------------------------------
(* s3dctl: iam create, iam delete, and an operator's interrupt.               *)

CtlIam(p, e) ==
    /\ At(p, "idle")
    /\ ctlOps < MaxCtlOps
    /\ ctlOps' = ctlOps + 1
    /\ edit' = [edit EXCEPT ![p] = e]
    /\ Goto(p, "read")
    /\ UNCHANGED <<store, buf, cmd, want, lastDesired, mk, rm, add, del, errs, status,
                   cmds, upsets, debt, touched, overtaken, settled>>

CtlAbort(p) ==
    /\ ~At(p, "idle")
    /\ Goto(p, "idle")
    /\ edit' = [edit EXCEPT ![p] = Seed]
    /\ buf' = [buf EXCEPT ![p] = Empty]
    /\ debt' = (debt \/ At(p, "reload"))
    /\ overtaken' = overtaken \ {p}
    /\ UNCHANGED <<store, cmd, lastDesired, sync, status, counters,
                   touched, settled>>

-----------------------------------------------------------------------------
(* The world outside: weed-s3 and its clients.                                *)

GatewayCrash ==
    /\ gw # "down"
    /\ Upset
    /\ gw' = "down"
    /\ UNCHANGED <<file, loaded, buckets, pc, edit, buf, cmd, lastDesired, sync, status,
                   cmds, ctlOps, debt, touched, overtaken, settled>>

\* The unit is started again (Restart=on-failure).
GatewayStart ==
    /\ gw = "down"
    /\ gw' = "starting"
    /\ UNCHANGED <<file, loaded, buckets, pc, edit, buf, cmd, lastDesired, sync, status,
                   counters, debt, touched, overtaken, settled>>

GatewayLoad ==
    /\ gw = "starting"
    /\ gw' = "up"
    /\ loaded' = file
    /\ debt' = FALSE
    /\ UNCHANGED <<file, buckets, pc, edit, buf, cmd, lastDesired, sync, status,
                   counters, touched, overtaken, settled>>

\* A customer with the Admin action, or a late request, changes a bucket.
ClientBucket(b) ==
    /\ gw = "up"
    /\ Upset
    /\ buckets' \in {buckets \union {b}, buckets \ {b}}
    /\ buckets' # buckets
    /\ touched' = touched \union {b}
    /\ settled' = {}
    /\ UNCHANGED <<file, loaded, gw, pc, edit, buf, cmd, lastDesired, sync, status,
                   cmds, ctlOps, debt, overtaken>>

-----------------------------------------------------------------------------
Dispatch ==
    \E c \in Command \ {Boot} :
        \/ DispatchRejected(c)
        \/ DispatchBucket(c)
        \/ DispatchIam(c)
        \/ DispatchFullSync(c)
        \/ DispatchReconcile(c)

IamStep(p) == readIAM(p) \/ writeIAM(p) \/ reloadWeedS3(p)

AgentStep ==
    \/ Start
    \/ Reply
    \/ BucketOp
    \/ ListBuckets
    \/ CreateMissingBucket
    \/ DeleteExtraBucket
    \/ ListActualIAM
    \/ CreateMissingUser
    \/ DeleteExtraUser
    \/ IamStep(Agent)

CtlStep(p) ==
    \/ \E u \in Users : CtlIam(p, Create(u))
    \/ \E n \in NamesOf(Identity) : CtlIam(p, Delete(n))
    \/ IamStep(p)
    \/ CtlAbort(p)

Outside ==
    \/ GatewayCrash
    \/ GatewayStart
    \/ GatewayLoad
    \/ \E b \in Buckets : ClientBucket(b)

Next ==
    \/ Dispatch
    \/ AgentStep
    \/ Crash
    \/ \E p \in Ctls : CtlStep(p)
    \/ Outside

Spec == Init /\ [][Next]_vars

\* Every agent step is bounded by a timeout in the code (HTTP client, executor)
\* and systemd restarts the agent; commands, clients and s3dctl owe nothing.
FairSpec == Spec /\ WF_vars(AgentStep) /\ WF_vars(GatewayStart) /\ WF_vars(GatewayLoad)

-----------------------------------------------------------------------------
(* Properties.                                                                *)

AgentLabels == {"off", "idle", "read", "write", "reload", "reply", "bucketOp",
                "listBuckets", "mkBuckets", "rmBuckets", "listIAM", "addIAM", "delIAM"}
CtlLabels == {"idle", "read", "write", "reload"}

\* Types of every variable: in particular the counts of identities never go
\* below zero and the agent is never at a step of an s3dctl process.
TypeOK ==
    /\ file \in Bag /\ loaded \in Bag
    /\ gw \in {"up", "starting", "down"}
    /\ buckets \in SUBSET Buckets
    /\ pc \in [Procs -> AgentLabels]
    /\ \A p \in Ctls : pc[p] \in CtlLabels
    /\ edit \in [Procs -> Edit]
    /\ buf \in [Procs -> Bag]
    /\ cmd \in Command
    /\ want \in Payload
    /\ lastDesired \in Payloads \union {NoPayload}
    /\ mk \in SUBSET Buckets /\ rm \in SUBSET Buckets
    /\ add \in SUBSET Users /\ del \in Bag
    /\ errs \in BOOLEAN
    /\ status \in {"none", "completed", "failed", "rejected"}
    /\ cmds \in Nat /\ ctlOps \in Nat /\ upsets \in Nat
    /\ debt \in BOOLEAN
    /\ touched \in SUBSET Buckets
    /\ overtaken \in SUBSET Procs
    /\ settled \in SUBSET Payload

SyncDone == At(Agent, "reply") /\ cmd.op \in SyncOps /\ status = "completed" /\ ~errs

\* A full_sync or reconcile that reports no error has reached the desired
\* state: every bucket nobody else touched exists iff it is desired, every
\* desired user name is in s3.json and every managed name there is desired
\* (Reconcile, with one writer of s3.json).
ErrorFreeSyncConverges ==
    SyncDone =>
        /\ \A b \in Buckets \ touched : b \in buckets <=> b \in want.buckets
        /\ \A u \in want.iam : \E id \in Identity : id.name = u.name /\ file[id] > 0
        /\ \A id \in ListIAM(file) : id.name \in NamesOf(want.iam)

Stale == gw = "up" /\ loaded # file

\* weed-s3 serves anything but the current s3.json only while some process
\* that wrote the file has yet to restart it, or a restart failed or was cut
\* off by a crash: no edit forgets its reload.
StaleGatewayExplained ==
    Stale => debt \/ \E p \in Procs : At(p, "reload")

\* An iam_create or iam_delete reported as completed is in force: the gateway
\* serves the current s3.json, or is starting and will load it (CreateIAMUser
\* and DeleteIAMUser return the error of the reload, with one writer).
CompletedIamIsServed ==
    At(Agent, "reply") /\ cmd.op \in IamOps /\ status = "completed" => ~Stale

\* Reconcile is idempotent: run again on a desired state it reached without
\* error and nobody has disturbed, it finds nothing to create or delete, so it
\* neither rewrites s3.json nor restarts the gateway.
SettledSyncIsQuiet ==
    /\ At(Agent, "mkBuckets") /\ want \in settled => mk = {} /\ rm = {}
    /\ At(Agent, "addIAM") /\ want \in settled => add = {} /\ del = Empty

\* The admin's identity leaves s3.json only by an iam_delete of its name, which
\* nothing refuses, or when Reconcile deletes a namesake: an identity of the
\* admin's name under another key, as EnsureAdmin leaves behind when
\* s3.admin_access_key is changed. ListIAM lists it, nobody desires it, and
\* DeleteIAMUser removes every identity of its name. Nothing else in a sync
\* touches the admin (ListIAM hides it by its key, with one writer).
AdminLossExplained ==
    [][AdminConfigured /\ file[Admin] > 0 /\ file'[Admin] = 0 =>
         \/ cmd = [op |-> "iam_delete", arg |-> Admin.name]
         \/ /\ cmd.op \in SyncOps /\ Admin.name \notin NamesOf(want.iam)
            /\ \E id \in Identity : /\ id.name = Admin.name /\ id.key # Admin.key
                                    /\ file[id] > 0]_vars

\* With one writer, the edits of s3.json implement the abstract identity store:
\* one append or one removal by name at a time, and the gateway only ever loads
\* a whole file (CreateIAMUser, DeleteIAMUser, EnsureAdmin, Reconcile).
Store == INSTANCE IdentityStore WITH served <- loaded
StoreImplemented == Store!Spec

\* An edit of s3.json is lost, resurrected or mixed up only when another
\* process wrote the file between its read and its write: every other write is
\* exactly one append or one removal (readIAM ... writeIAM take no lock).
OnlyOverlapLosesEdits ==
    [][(\A p \in overtaken : ~(At(p, "write") /\ pc'[p] = "reload"))
         => Store!Next \/ UNCHANGED <<file, loaded>>]_vars

\* Every command the dispatcher accepts is answered, unless the agent dies,
\* and then it comes back (Dispatch "always returns a valid result").
EveryCommandAnswered == pc[Agent] # "idle" ~> At(Agent, "idle")

\* docs/operations.md: a reconcile takes a scope, "buckets", "iam" or "all". A
\* reconcile of one scope leaves the other kind of resource alone.
ScopeRespected ==
    [][/\ cmd = [op |-> "reconcile", arg |-> "buckets"] /\ At(Agent, "write") => file' = file
       /\ cmd = [op |-> "reconcile", arg |-> "iam"] /\ At(Agent, "rmBuckets") /\ rm' # rm => buckets' = buckets
      ]_vars

\* docs/operations.md: a full_sync or reconcile reported without error has
\* applied the desired users, so the gateway does not serve an older s3.json.
ErrorFreeSyncIsServed == SyncDone => ~Stale

=============================================================================
