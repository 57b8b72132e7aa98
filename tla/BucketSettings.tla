--------------------------- MODULE BucketSettings ---------------------------
(***************************************************************************)
(* What buckets hold and how they are protected: the dispatcher's bucket_*,  *)
(* worm_bucket_* and full_sync commands (internal/dispatcher/dispatcher.go)  *)
(* as the requests s3.Manager sends to the gateway                           *)
(* (internal/modules/s3/manager.go), while customers write and delete        *)
(* objects. S3Control knows buckets by name only; here a bucket has objects, *)
(* Object Lock, a default retention and lifecycle rules.                     *)
(*                                                                         *)
(* A request is refused by the gateway, carried out, or left unanswered: one *)
(* the HTTP client has given up on may still be carried out at any later     *)
(* time, or never.                                                           *)
(***************************************************************************)
EXTENDS Naturals, FiniteSets

CONSTANTS
    Buckets,      \* bucket names
    NoName,       \* the empty name
    NumObjects,   \* objects are numbered in the order of their keys
    PageSize,     \* objects the gateway returns for one listing
    Rules,        \* retentions (mode and days) CreateWORMBucket accepts
    BadRule,      \* a retention with another mode or days <= 0
    NoRule,       \* no default retention
    Refuses,      \* what the gateway refuses to delete a bucket for (see Kept)
    MaxCmds,      \* bound: commands the agent receives
    MaxFaults     \* bound: requests that go wrong, crashes of the agent

ASSUME NameAssumption == NoName \notin Buckets
ASSUME RuleAssumption == BadRule \notin Rules /\ NoRule \notin Rules /\ BadRule # NoRule
ASSUME RefusesAssumption == Refuses \in {"nothing", "retained", "objects"}
ASSUME SizeAssumption == NumObjects \in Nat /\ PageSize \in Nat \ {0}
ASSUME BoundAssumption == MaxCmds \in Nat /\ MaxFaults \in Nat

Objects == 1..NumObjects
Names == Buckets \union {NoName}
WormOps == {"worm_bucket_create", "worm_bucket_update"}

\* Commands. `arg` of bucket_update: lifecycle rules are given; of
\* bucket_delete: force_empty; of full_sync: the desired bucket names.
Command ==
    [op : {"bucket_create", "worm_bucket_delete"}, name : Names, arg : {FALSE}]
      \union [op : {"bucket_update", "bucket_delete"}, name : Names, arg : BOOLEAN]
      \union [op : WormOps, name : Names, arg : Rules \union {BadRule}]
      \union [op : {"full_sync"}, name : {NoName}, arg : SUBSET Names]

None == [op |-> "none", name |-> NoName, arg |-> FALSE]

BucketState ==
    [made : BOOLEAN, locked : BOOLEAN, rule : Rules \union {NoRule}, life : BOOLEAN,
     objs : SUBSET Objects, held : SUBSET Objects]

Fresh(lock) ==
    [made |-> TRUE, locked |-> lock, rule |-> NoRule, life |-> FALSE, objs |-> {}, held |-> {}]
Absent == [Fresh(FALSE) EXCEPT !.made = FALSE]

\* Requests that change a bucket.
Request ==
    [op : {"put", "wormPut", "life", "delete"}, b : Buckets]
      \union [op : {"lock"}, b : Buckets, rule : Rules]
      \union [op : {"delObj"}, b : Buckets, o : Objects]

VARIABLES
    bkt,      \* the buckets of the gateway
    late,     \* requests the agent has given up on, still under way
    pc,       \* where the handler is
    cmd,      \* the command it runs
    todo,     \* objects of the listed page it has yet to delete
    mk, rm,   \* names Reconcile has yet to create and to delete
    errs,     \* ReconcileResult.Errors is not empty
    status,   \* status of the result
    cmds, faults,
    \* history:
    start,    \* the bucket of the command when it was received
    clean,    \* since then nobody else touched it and no request went wrong
    sealed,   \* retention the last completed WORM command set, while the bucket lives
    unsure    \* buckets a retention request without an answer may still change

vars == <<bkt, late, pc, cmd, todo, mk, rm, errs, status, cmds, faults,
          start, clean, sealed, unsure>>

Goto(label) == pc' = label

Finish(s) == Goto("reply") /\ status' = s

Init ==
    /\ bkt \in [Buckets -> {Absent, Fresh(FALSE)}]
    /\ late = {}
    /\ pc = "idle" /\ cmd = None /\ todo = {}
    /\ mk = {} /\ rm = {} /\ errs = FALSE /\ status = "none"
    /\ cmds = 0 /\ faults = 0
    /\ start = Absent /\ clean = FALSE
    /\ sealed = [b \in Buckets |-> NoRule]
    /\ unsure = {}

-----------------------------------------------------------------------------
(* The gateway (external): what a request does to a bucket.                   *)

\* The objects that keep a bucket from being deleted. `weed s3` started with
\* -allowDeleteBucketNotEmpty=false keeps any; as the repository installs it
\* (configs/systemd/weed-s3.service, scripts/deploy.sh) it deletes a bucket with
\* its objects, except, in releases with Object Lock, retained ones.
Kept(s) ==
    CASE Refuses = "objects"  -> s.objs
      [] Refuses = "retained" -> s.held
      [] Refuses = "nothing"  -> {}

\* Object Lock is for buckets created with it; an object is not deleted while it
\* is retained.
Accepts(s, r) ==
    CASE r.op \in {"put", "wormPut"} -> ~s.made
      [] r.op = "lock"   -> s.made /\ s.locked
      [] r.op = "life"   -> s.made
      [] r.op = "delete" -> s.made /\ Kept(s) = {}
      [] r.op = "delObj" -> r.o \in s.objs \ s.held

After(s, r) ==
    CASE r.op = "put"     -> Fresh(FALSE)
      [] r.op = "wormPut" -> Fresh(TRUE)
      [] r.op = "lock"    -> [s EXCEPT !.rule = r.rule]
      [] r.op = "life"    -> [s EXCEPT !.life = TRUE]
      [] r.op = "delete"  -> Absent
      [] r.op = "delObj"  -> [s EXCEPT !.objs = @ \ {r.o}]

\* A retention the platform was told of dies with its bucket.
Unseal(b) == sealed' = [sealed EXCEPT ![b] = IF bkt'[b].made THEN @ ELSE NoRule]

Apply(r) == bkt' = [bkt EXCEPT ![r.b] = After(@, r)]

\* One of the outcomes of doS3 for request r: "ok" (2xx), "conflict" (409),
\* "refused" (another status) or "none" (no answer). A PUT of a bucket that
\* exists is answered with a conflict or, by its owner, with 2xx.
Send(r, answer) ==
    \/ /\ answer = "ok" /\ Accepts(bkt[r.b], r)
       /\ Apply(r)
       /\ UNCHANGED <<late, faults, clean>>
    \/ /\ ~Accepts(bkt[r.b], r)
       /\ answer \in IF r.op \in {"put", "wormPut"} THEN {"ok", "conflict"} ELSE {"refused"}
       /\ UNCHANGED <<bkt, late, faults, clean>>
    \/ /\ faults < MaxFaults
       /\ faults' = faults + 1
       /\ clean' = FALSE
       /\ answer \in {"refused", "none"}
       /\ late' = late \union IF answer = "none" THEN {r} ELSE {}
       /\ UNCHANGED bkt

\* A request the agent has given up on is carried out after all, or dropped.
LateRequest(r) ==
    /\ r \in late
    /\ late' = late \ {r}
    /\ \/ Accepts(bkt[r.b], r) /\ Apply(r)
       \/ UNCHANGED bkt
    /\ Unseal(r.b)
    /\ UNCHANGED <<pc, cmd, todo, mk, rm, errs, status, cmds, faults, start, clean,
                   unsure>>

-----------------------------------------------------------------------------
(* Dispatch. One command at a time; the request to begin with comes from op.  *)

\* Commands that fail before any request: without a name, or with a retention
\* that is not valid.
Invalid_AnyRule(c) == c.op # "full_sync" /\ c.name = NoName
Invalid(c) ==
    c.op # "full_sync" /\ (c.name = NoName \/ (c.op \in WormOps /\ c.arg = BadRule))

\* DeleteBucket empties the bucket first when it is asked to.
DeleteStep_Always(force) == "list"
DeleteStep(force) == IF force THEN "list" ELSE "delete"

FirstStep(c) ==
    CASE c.op = "bucket_create"      -> "create"
      [] c.op = "bucket_update"      -> IF c.arg THEN "lifecycle" ELSE "reply"
      [] c.op = "bucket_delete"      -> DeleteStep(c.arg)
      [] c.op = "worm_bucket_create" -> "wormCreate"
      [] c.op = "worm_bucket_update" -> "objectLock"
      [] c.op = "worm_bucket_delete" -> "delete"
      [] c.op = "full_sync"          -> "listBuckets"

Dispatch(c) ==
    /\ pc = "idle"
    /\ cmds < MaxCmds
    /\ cmds' = cmds + 1
    /\ cmd' = c
    /\ Goto(IF Invalid(c) THEN "reply" ELSE FirstStep(c))
    /\ status' = IF Invalid(c) THEN "failed"
                 ELSE IF FirstStep(c) = "reply" THEN "completed" ELSE "none"
    /\ start' = IF c.name = NoName THEN Absent ELSE bkt[c.name]
    /\ clean' = \A r \in late : r.b # c.name
    /\ UNCHANGED <<bkt, late, todo, mk, rm, errs, faults, sealed, unsure>>

DropLocals ==
    /\ cmd' = None /\ todo' = {} /\ mk' = {} /\ rm' = {} /\ errs' = FALSE
    /\ status' = "none" /\ start' = Absent /\ clean' = FALSE

Reply ==
    /\ pc = "reply"
    /\ Goto("idle")
    /\ DropLocals
    /\ UNCHANGED <<bkt, late, cmds, faults, sealed, unsure>>

\* The process dies and is started again; a request under way is `late`.
Crash ==
    /\ pc # "idle"
    /\ faults < MaxFaults
    /\ faults' = faults + 1
    /\ Goto("idle")
    /\ DropLocals
    /\ UNCHANGED <<bkt, late, cmds, sealed, unsure>>

-----------------------------------------------------------------------------
(* The Manager's operations, one action per request.                          *)

\* CreateBucket: anything but 2xx fails. Lifecycle rules of the spec are not
\* looked at.
CreateBucket ==
    /\ pc = "create"
    /\ \E a \in {"ok", "conflict", "refused", "none"} :
          /\ Send([op |-> "put", b |-> cmd.name], a)
          /\ Finish(IF a = "ok" THEN "completed" ELSE "failed")
    /\ UNCHANGED <<cmd, todo, mk, rm, errs, cmds, start, sealed, unsure>>

\* putLifecycle, called by UpdateBucket when there are rules.
UpdateBucket ==
    /\ pc = "lifecycle"
    /\ \E a \in {"ok", "refused", "none"} :
          /\ Send([op |-> "life", b |-> cmd.name], a)
          /\ Finish(IF a = "ok" THEN "completed" ELSE "failed")
    /\ UNCHANGED <<cmd, todo, mk, rm, errs, cmds, start, sealed, unsure>>

\* Answers to the first request of CreateWORMBucket it goes on after: a bucket
\* that exists is taken for the one an earlier attempt left behind.
GoesOn_Strict(a) == a = "ok"
GoesOn(a) == a \in {"ok", "conflict"}

CreateWORMBucket ==
    /\ pc = "wormCreate"
    /\ \E a \in {"ok", "conflict", "refused", "none"} :
          /\ Send([op |-> "wormPut", b |-> cmd.name], a)
          /\ IF GoesOn(a) THEN Goto("objectLock") /\ UNCHANGED status ELSE Finish("failed")
    /\ UNCHANGED <<cmd, todo, mk, rm, errs, cmds, start, sealed, unsure>>

\* The answers putObjectLock returns no error for.
LockSet_StatusIgnored(a) == a # "none"
LockSet(a) == a = "ok"

LateLock(b) == \E r \in late : r.b = b /\ r.op = "lock"

\* putObjectLock: the last request of CreateWORMBucket and UpdateWORMBucket.
putObjectLock ==
    /\ pc = "objectLock"
    /\ \E a \in {"ok", "refused", "none"} :
          /\ Send([op |-> "lock", b |-> cmd.name, rule |-> cmd.arg], a)
          /\ Finish(IF LockSet(a) THEN "completed" ELSE "failed")
          /\ sealed' = IF LockSet(a) THEN [sealed EXCEPT ![cmd.name] = cmd.arg] ELSE sealed
          /\ unsure' = IF a = "none" \/ LateLock(cmd.name) THEN unsure \union {cmd.name}
                       ELSE IF LockSet(a) THEN unsure \ {cmd.name} ELSE unsure
    /\ UNCHANGED <<cmd, todo, mk, rm, errs, cmds, start>>

\* The first page of a listing.
Page(objs) == {o \in objs : Cardinality({p \in objs : p < o}) < PageSize}

\* emptyBucket's listing: without an answer the command fails; any status is
\* read as a list, that of an error having no objects.
ListObjects ==
    /\ pc = "list"
    /\ \/ /\ Goto("empty")
          /\ todo' = Page(bkt[cmd.name].objs)
          /\ UNCHANGED <<status, faults, clean>>
       \/ /\ faults < MaxFaults
          /\ faults' = faults + 1
          /\ clean' = FALSE
          /\ \/ Finish("failed")
             \/ Goto("empty") /\ UNCHANGED status
          /\ UNCHANGED todo
    /\ UNCHANGED <<bkt, late, cmd, mk, rm, errs, cmds, start, sealed, unsure>>

\* Where emptyBucket goes once it has asked for every listed object.
Emptied_Again(left) == IF left # {} THEN "list" ELSE "delete"
Emptied(left) == "delete"

AllAsked_LastSkipped(left) == Cardinality(left) <= 1
AllAsked(left) == left = {}

\* emptyBucket's loop: only a request without an answer ends it.
DeleteObject ==
    /\ pc = "empty"
    /\ \/ /\ AllAsked(todo)
          /\ Goto(Emptied(bkt[cmd.name].objs))
          /\ UNCHANGED <<bkt, late, todo, status, faults, clean>>
       \/ \E o \in todo, a \in {"ok", "refused", "none"} :
             /\ \A p \in todo : o <= p
             /\ Send([op |-> "delObj", b |-> cmd.name, o |-> o], a)
             /\ todo' = todo \ {o}
             /\ IF a = "none" THEN Finish("failed") ELSE UNCHANGED <<pc, status>>
    /\ UNCHANGED <<cmd, mk, rm, errs, cmds, start, sealed, unsure>>

\* The DELETE of DeleteBucket and DeleteWORMBucket.
DeleteBucket ==
    /\ pc = "delete"
    /\ \E a \in {"ok", "refused", "none"} :
          /\ Send([op |-> "delete", b |-> cmd.name], a)
          /\ Finish(IF a = "ok" THEN "completed" ELSE "failed")
    /\ Unseal(cmd.name)
    /\ UNCHANGED <<cmd, todo, mk, rm, errs, cmds, start, unsure>>

-----------------------------------------------------------------------------
(* The bucket part of Reconcile.                                              *)

ListBuckets ==
    /\ pc = "listBuckets"
    /\ LET actual == {b \in Buckets : bkt[b].made} IN
       \/ /\ mk' = cmd.arg \ actual
          /\ rm' = actual \ cmd.arg
          /\ Goto("mkBuckets")
          /\ UNCHANGED <<status, faults>>
       \/ /\ faults < MaxFaults
          /\ faults' = faults + 1
          /\ Finish("failed")
          /\ UNCHANGED <<mk, rm>>
    /\ UNCHANGED <<bkt, late, cmd, todo, errs, cmds, start, clean, sealed, unsure>>

CreateMissingBucket ==
    /\ pc = "mkBuckets"
    /\ \/ \E b \in mk \ {NoName}, a \in {"ok", "conflict", "refused", "none"} :
             /\ Send([op |-> "put", b |-> b], a)
             /\ mk' = mk \ {b}
             /\ errs' = (errs \/ a # "ok")
             /\ UNCHANGED pc
       \/ \* a bucket without a name is an error and no request
          /\ NoName \in mk
          /\ mk' = mk \ {NoName}
          /\ errs' = TRUE
          /\ UNCHANGED <<bkt, late, pc, faults, clean>>
       \/ /\ mk = {}
          /\ Goto("rmBuckets")
          /\ UNCHANGED <<bkt, late, mk, errs, faults, clean>>
    /\ UNCHANGED <<cmd, todo, rm, status, cmds, start, sealed, unsure>>

\* DeleteBucket with forceEmpty false, whatever the bucket holds.
DeleteExtraBucket ==
    /\ pc = "rmBuckets"
    /\ \/ \E b \in rm, a \in {"ok", "refused", "none"} :
             /\ Send([op |-> "delete", b |-> b], a)
             /\ rm' = rm \ {b}
             /\ errs' = (errs \/ a # "ok")
             /\ Unseal(b)
             /\ UNCHANGED <<pc, status>>
       \/ /\ rm = {}
          /\ Finish("completed")
          /\ UNCHANGED <<bkt, late, rm, errs, faults, clean, sealed>>
    /\ UNCHANGED <<cmd, todo, mk, cmds, start, unsure>>

-----------------------------------------------------------------------------
(* Customers and time (external).                                             *)

\* An object is put, retained when the bucket has a default retention; deleted,
\* by a customer or a lifecycle rule, unless it is retained; or its retention
\* ends.
ObjectChange(b, o) ==
    LET s == bkt[b] IN
    \/ /\ s.made /\ o \notin s.objs
       /\ bkt' = [bkt EXCEPT ![b].objs = @ \union {o},
                             ![b].held = IF s.rule = NoRule THEN @ ELSE @ \union {o}]
    \/ /\ o \in s.objs \ s.held
       /\ bkt' = [bkt EXCEPT ![b].objs = @ \ {o}]
    \/ /\ o \in s.held
       /\ bkt' = [bkt EXCEPT ![b].held = @ \ {o}]

\* A customer with the Admin action creates or deletes a bucket.
BucketChange(b) ==
    \/ ~bkt[b].made /\ bkt' = [bkt EXCEPT ![b] = Fresh(FALSE)]
    \/ bkt[b].made /\ Kept(bkt[b]) = {} /\ bkt' = [bkt EXCEPT ![b] = Absent]

Client(b) ==
    /\ BucketChange(b) \/ \E o \in Objects : ObjectChange(b, o)
    /\ clean' = (clean /\ b # cmd.name)
    /\ Unseal(b)
    /\ UNCHANGED <<late, pc, cmd, todo, mk, rm, errs, status, cmds, faults, start, unsure>>

-----------------------------------------------------------------------------
AgentStep ==
    \/ Reply
    \/ CreateBucket
    \/ UpdateBucket
    \/ CreateWORMBucket
    \/ putObjectLock
    \/ ListObjects
    \/ DeleteObject
    \/ DeleteBucket
    \/ ListBuckets
    \/ CreateMissingBucket
    \/ DeleteExtraBucket

Next ==
    \/ \E c \in Command : Dispatch(c)
    \/ AgentStep
    \/ Crash
    \/ \E r \in late : LateRequest(r)
    \/ \E b \in Buckets : Client(b)

Spec == Init /\ [][Next]_vars

\* Every request ends after the HTTP client's 15 seconds at the latest.
FairSpec == Spec /\ WF_vars(AgentStep)

-----------------------------------------------------------------------------
(* Properties.                                                                *)

Labels == {"idle", "reply", "create", "lifecycle", "wormCreate", "objectLock", "list",
           "empty", "delete", "listBuckets", "mkBuckets", "rmBuckets"}

\* Types of every variable; only requests of a page are left to send, and a
\* retained object is an object of its bucket.
BucketTypeOK ==
    /\ bkt \in [Buckets -> BucketState]
    /\ \A b \in Buckets : bkt[b].held \subseteq bkt[b].objs
    /\ late \subseteq Request
    /\ pc \in Labels
    /\ cmd \in Command \union {None}
    /\ todo \subseteq Objects
    /\ mk \subseteq Names /\ rm \subseteq Buckets
    /\ errs \in BOOLEAN
    /\ status \in {"none", "completed", "failed"}
    /\ cmds \in Nat /\ faults \in Nat
    /\ start \in BucketState /\ clean \in BOOLEAN
    /\ sealed \in [Buckets -> Rules \union {NoRule}]
    /\ unsure \subseteq Buckets

\* A retention reported as set is in force for as long as the bucket lives:
\* the bucket has Object Lock and that default retention, or a retention the
\* platform asked for in a request nobody answered (CreateWORMBucket and
\* UpdateWORMBucket, whatever half-done attempts, syncs, plain buckets of the
\* same name and requests carried out late came before or come after).
RetentionAsReported ==
    \A b \in Buckets :
        sealed[b] # NoRule =>
            /\ bkt[b].made /\ bkt[b].locked /\ bkt[b].rule # NoRule
            /\ bkt[b].rule = sealed[b] \/ b \in unsure

\* A WORM bucket left half made by a failed or crashed attempt is completed by
\* sending the command again: on a bucket that is missing or has Object Lock,
\* an undisturbed worm_bucket_create succeeds (CreateWORMBucket accepts 409).
WormCreateRepairs ==
    /\ pc = "reply" /\ clean
    /\ cmd.op = "worm_bucket_create" /\ cmd.name \in Buckets /\ cmd.arg \in Rules
    /\ start.made => start.locked
    => status = "completed"

\* A command asks for bucket b to be removed.
AsksRemoval(c, b) ==
    \/ c.op \in {"bucket_delete", "worm_bucket_delete"} /\ c.name = b
    \/ c.op = "full_sync" /\ b \notin c.arg

\* Whatever the gateway refuses, objects go in three ways only: by a customer;
\* with their whole bucket, while the command running asks for its removal or
\* by a removal that was given up on and is carried out late; or one by one,
\* by a bucket_delete with force_empty or what is left of it. Neither Reconcile
\* nor a plain delete ever empties a bucket it leaves there, and no command
\* costs objects of a bucket it does not name or that a sync desires.
ObjectsGoAsAsked ==
    [][\A b \in Buckets :
         (\E o \in bkt[b].objs : o \notin bkt'[b].objs) =>
             \/ Client(b)
             \/ /\ ~bkt'[b].made
                /\ AsksRemoval(cmd, b) \/ [op |-> "delete", b |-> b] \in late
             \/ cmd = [op |-> "bucket_delete", name |-> b, arg |-> TRUE]
             \/ \E o \in Objects : [op |-> "delObj", b |-> b, o |-> o] \in late]_vars

\* An undisturbed bucket_delete with force_empty deletes the first page of the
\* objects, without those that are retained, and the bucket exactly if nothing
\* is left that keeps it: sent again it gets on, page by page (emptyBucket).
ForcedDeleteGetsOn ==
    pc = "reply" /\ clean /\ cmd.op = "bucket_delete" /\ cmd.arg /\ start.made =>
        LET left == start.objs \ (Page(start.objs) \ start.held) IN
        IF Kept([start EXCEPT !.objs = left]) = {}
        THEN status = "completed" /\ ~bkt[cmd.name].made
        ELSE status = "failed" /\ bkt[cmd.name].objs = left

\* Every bucket command is answered, retained objects and objects that keep
\* coming included (the one handler serves all commands).
BucketCommandAnswered == pc # "idle" ~> pc = "idle"

=============================================================================
