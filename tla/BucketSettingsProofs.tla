------------------------ MODULE BucketSettingsProofs ------------------------
(* Proofs about BucketSettings, for any buckets, objects, retentions, page    *)
(* size and number of faults.                                                 *)
EXTENDS BucketSettings, TLAPS

USE NameAssumption, RuleAssumption, RefusesAssumption, SizeAssumption, BoundAssumption

-----------------------------------------------------------------------------
(* The inductive invariant.                                                   *)

\* The label of the handler belongs to the command it runs, and the command
\* has what its requests need.
BucketControl ==
    /\ pc = "create" => cmd.op = "bucket_create"
    /\ pc = "lifecycle" => cmd.op = "bucket_update"
    /\ pc = "wormCreate" => cmd.op = "worm_bucket_create"
    /\ pc = "objectLock" => cmd.op \in WormOps
    /\ pc \in {"wormCreate", "objectLock"} => cmd.arg \in Rules
    /\ pc \in {"list", "empty"} => cmd.op = "bucket_delete" /\ cmd.arg = TRUE
    /\ pc = "delete" => cmd.op \in {"bucket_delete", "worm_bucket_delete"}
    /\ pc \in {"listBuckets", "mkBuckets", "rmBuckets"} => cmd.op = "full_sync"
    /\ pc \in {"mkBuckets", "rmBuckets"} => rm \intersect cmd.arg = {}
    /\ pc \in {"create", "lifecycle", "wormCreate", "objectLock", "list", "empty", "delete"}
         => cmd.name \in Buckets

\* A bucket that does not exist has no objects.
AbsentIsEmpty == \A b \in Buckets : ~bkt[b].made => bkt[b].objs = {}

\* A retention that a request under way can still set was accounted for when
\* the agent gave up on it.
LateIsKnown == \A r \in late : r.op = "lock" => r.b \in unsure

\* While nothing disturbs the command, none of its requests is under way.
CleanHasNoLate == clean => \A r \in late : r.b # cmd.name

\* An undisturbed worm_bucket_create on a bucket that is missing or has Object
\* Lock, on its way.
Repairing ==
    /\ clean /\ cmd.op = "worm_bucket_create" /\ cmd.name \in Buckets /\ cmd.arg \in Rules
    /\ start.made => start.locked
RepairOnTrack ==
    Repairing =>
        /\ pc = "wormCreate" => (bkt[cmd.name].made => bkt[cmd.name].locked)
        /\ pc = "objectLock" => bkt[cmd.name].made /\ bkt[cmd.name].locked
        /\ pc = "reply" => status = "completed"

\* An undisturbed bucket_delete with force_empty, on its way: what it has asked
\* to delete is gone unless it is retained.
Emptying == clean /\ cmd.op = "bucket_delete" /\ cmd.arg = TRUE /\ start.made
Left(asked) == start.objs \ (asked \ start.held)
EmptyingOutcome ==
    IF Kept([start EXCEPT !.objs = Left(Page(start.objs))]) = {}
    THEN status = "completed" /\ ~bkt[cmd.name].made
    ELSE status = "failed" /\ bkt[cmd.name].objs = Left(Page(start.objs))
EmptyingOnTrack ==
    Emptying =>
        /\ cmd.name \in Buckets
        /\ pc \in {"list", "empty", "delete"} =>
              bkt[cmd.name].made /\ bkt[cmd.name].held = start.held
        /\ pc = "list" => bkt[cmd.name].objs = start.objs
        /\ pc = "empty" => /\ todo \subseteq Page(start.objs)
                           /\ bkt[cmd.name].objs = Left(Page(start.objs) \ todo)
        /\ pc = "delete" => bkt[cmd.name].objs = Left(Page(start.objs))
        /\ pc = "reply" => EmptyingOutcome

-----------------------------------------------------------------------------
(* Requests.                                                                  *)

\* A state the gateway may hold a bucket in.
Sound(s) == s \in BucketState /\ s.held \subseteq s.objs /\ (~s.made => s.objs = {})

\* New and absent buckets are in order.
LEMMA FreshSound == Sound(Fresh(TRUE)) /\ Sound(Fresh(FALSE)) /\ Sound(Absent)
<1>1. Fresh(TRUE) \in BucketState /\ Fresh(FALSE) \in BucketState
  BY DEF Fresh, BucketState
<1>2. Absent \in BucketState /\ Absent.objs = {} /\ Absent.held = {}
  BY DEF Absent, Fresh, BucketState
<1> QED
  BY <1>1, <1>2 DEF Sound, Fresh

\* What an accepted request makes of a bucket.
LEMMA AfterCases ==
    ASSUME NEW s, NEW r \in Request, Accepts(s, r)
    PROVE  \/ r.op = "put" /\ ~s.made /\ After(s, r) = Fresh(FALSE)
           \/ r.op = "wormPut" /\ ~s.made /\ After(s, r) = Fresh(TRUE)
           \/ /\ r.op = "lock" /\ r.rule \in Rules /\ s.made /\ s.locked
              /\ After(s, r) = [s EXCEPT !.rule = r.rule]
           \/ r.op = "life" /\ s.made /\ After(s, r) = [s EXCEPT !.life = TRUE]
           \/ r.op = "delete" /\ s.made /\ Kept(s) = {} /\ After(s, r) = Absent
           \/ /\ r.op = "delObj" /\ r.o \in s.objs \ s.held
              /\ After(s, r) = [s EXCEPT !.objs = @ \ {r.o}]
<1>1. r.op \in {"put", "wormPut", "life", "delete", "lock", "delObj"}
  BY DEF Request
<1>2. r.op = "lock" => r.rule \in Rules
  BY DEF Request
<1>3. CASE r.op = "put"
  BY <1>3 DEF Accepts, After
<1>4. CASE r.op = "wormPut"
  BY <1>4 DEF Accepts, After
<1>5. CASE r.op = "life"
  BY <1>5 DEF Accepts, After
<1>6. CASE r.op = "delete"
  BY <1>6 DEF Accepts, After
<1>7. CASE r.op = "lock"
  BY <1>2, <1>7 DEF Accepts, After
<1>8. CASE r.op = "delObj"
  BY <1>8 DEF Accepts, After
<1> QED
  BY <1>1, <1>3, <1>4, <1>5, <1>6, <1>7, <1>8

\* So is a bucket a request was carried out on.
LEMMA AfterSound ==
    ASSUME NEW s, Sound(s), NEW r \in Request, Accepts(s, r)
    PROVE  Sound(After(s, r))
<1>0. s \in BucketState /\ s.held \subseteq s.objs
  BY DEF Sound
<1>1. CASE r.op \in {"put", "wormPut", "delete"}
  BY <1>1, AfterCases, FreshSound
<1>2. CASE r.op = "lock"
  BY <1>0, <1>2, AfterCases DEF Sound, BucketState
<1>3. CASE r.op = "life"
  BY <1>0, <1>3, AfterCases DEF Sound, BucketState
<1>4. CASE r.op = "delObj"
  <2>1. After(s, r) = [s EXCEPT !.objs = s.objs \ {r.o}] /\ r.o \in s.objs /\ r.o \notin s.held
    BY <1>4, AfterCases
  <2>2. /\ After(s, r) \in BucketState
        /\ After(s, r).made = s.made
        /\ After(s, r).objs = s.objs \ {r.o}
        /\ After(s, r).held = s.held
    BY <1>0, <2>1 DEF BucketState
  <2> QED
    BY <1>0, <2>1, <2>2 DEF Sound
<1> QED
  BY <1>1, <1>2, <1>3, <1>4, AfterCases

\* The outcomes of a request: carried out and answered with 2xx, not accepted,
\* or gone wrong.
LEMMA SendCases ==
    ASSUME NEW r, NEW a, Send(r, a)
    PROVE  \/ /\ a = "ok" /\ Accepts(bkt[r.b], r) /\ Apply(r)
              /\ UNCHANGED <<late, faults, clean>>
           \/ /\ ~Accepts(bkt[r.b], r)
              /\ IF r.op \in {"put", "wormPut"} THEN a \in {"ok", "conflict"} ELSE a = "refused"
              /\ UNCHANGED <<bkt, late, faults, clean>>
           \/ /\ a \in {"refused", "none"} /\ clean' = FALSE /\ faults' = faults + 1
              /\ late' = late \union IF a = "none" THEN {r} ELSE {}
              /\ UNCHANGED bkt
BY DEF Send

\* The gateway's buckets and the requests under way keep their types.
GatewayOK ==
    /\ bkt \in [Buckets -> BucketState]
    /\ \A b \in Buckets : Sound(bkt[b])
    /\ late \subseteq Request

\* The part of the invariant that is about the gateway.
LEMMA GatewayIs == BucketTypeOK /\ AbsentIsEmpty => GatewayOK
BY DEF BucketTypeOK, AbsentIsEmpty, GatewayOK, Sound

\* A request that is carried out keeps the gateway in order.
LEMMA ApplyOK ==
    ASSUME GatewayOK, NEW r \in Request, Accepts(bkt[r.b], r), Apply(r)
    PROVE  bkt' \in [Buckets -> BucketState] /\ \A b \in Buckets : Sound(bkt'[b])
<1>1. r.b \in Buckets
  BY DEF Request
<1>2. Sound(After(bkt[r.b], r))
  BY <1>1, AfterSound DEF GatewayOK
<1>3. bkt' = [bkt EXCEPT ![r.b] = After(bkt[r.b], r)]
  BY DEF Apply
<1> HIDE DEF Sound
<1>4. After(bkt[r.b], r) \in BucketState
  BY <1>2 DEF Sound
<1> QED
  BY <1>1, <1>2, <1>3, <1>4 DEF GatewayOK

\* So does one that is sent, whatever becomes of it.
LEMMA SendOK ==
    ASSUME BucketTypeOK, AbsentIsEmpty, NEW r \in Request, NEW a, Send(r, a)
    PROVE  /\ bkt' \in [Buckets -> BucketState] /\ \A b \in Buckets : Sound(bkt'[b])
           /\ late' \subseteq Request
           /\ faults' \in Nat
           /\ clean' \in BOOLEAN
<1>0. GatewayOK
  BY GatewayIs
<1>1. bkt' \in [Buckets -> BucketState] /\ \A b \in Buckets : Sound(bkt'[b])
  BY <1>0, SendCases, ApplyOK DEF GatewayOK
<1>2. late' \subseteq late \union {r} /\ (faults' = faults \/ faults' = faults + 1)
  BY SendCases
<1>4. late' \subseteq Request /\ faults' \in Nat
  BY <1>2 DEF BucketTypeOK
<1>3. clean' \in BOOLEAN
  <2>1. clean' = clean \/ clean' = FALSE
    BY SendCases
  <2>2. clean \in BOOLEAN
    BY DEF BucketTypeOK
  <2> QED
    BY <2>1, <2>2, Zenon
<1> QED
  BY <1>1, <1>3, <1>4

-----------------------------------------------------------------------------
(* Types, the handler's labels and empty buckets, step by step.               *)

BucketInv == BucketTypeOK /\ BucketControl /\ AbsentIsEmpty

\* The fields of the command that runs.
LEMMA CommandFields ==
    ASSUME NEW c \in Command
    PROVE  /\ c.name \in Names
           /\ c.op \in WormOps => c.arg \in Rules \union {BadRule}
           /\ c.op = "full_sync" => c.arg \subseteq Names
           /\ c.op \in {"bucket_update", "bucket_delete"} => c.arg \in BOOLEAN
           /\ c.op \in {"bucket_create", "bucket_update", "bucket_delete",
                        "worm_bucket_create", "worm_bucket_update", "worm_bucket_delete",
                        "full_sync"}
BY DEF Command, Names, WormOps

\* A handler that runs a label other than idle or reply has a command.
LEMMA Running ==
    ASSUME BucketTypeOK, BucketControl, pc \notin {"idle", "reply"}
    PROVE  cmd \in Command
BY DEF BucketTypeOK, BucketControl, Labels, None, WormOps

\* The label a valid command begins at.
LEMMA FirstStepIs ==
    ASSUME NEW c \in Command, ~Invalid(c)
    PROVE  /\ FirstStep(c) \in {"create", "lifecycle", "reply", "list", "delete",
                                "wormCreate", "objectLock", "listBuckets"}
           /\ FirstStep(c) = "create" => c.op = "bucket_create"
           /\ FirstStep(c) = "lifecycle" => c.op = "bucket_update"
           /\ FirstStep(c) = "wormCreate" => c.op = "worm_bucket_create"
           /\ FirstStep(c) = "objectLock" => c.op = "worm_bucket_update"
           /\ FirstStep(c) = "list" => c.op = "bucket_delete" /\ c.arg
           /\ FirstStep(c) = "delete" => \/ c.op = "bucket_delete" /\ ~c.arg
                                         \/ c.op = "worm_bucket_delete"
           /\ FirstStep(c) = "listBuckets" => c.op = "full_sync"
           /\ FirstStep(c) = "reply" => c.op = "bucket_update"
           /\ c.op # "full_sync" => c.name \in Buckets
           /\ c.op \in WormOps => c.arg \in Rules
<1>1. c.op # "full_sync" => c.name \in Buckets
  BY CommandFields DEF Invalid, Names
<1>2. c.op \in WormOps => c.arg \in Rules
  BY CommandFields DEF Invalid, WormOps
<1>3. CASE c.op = "bucket_create"
  BY <1>1, <1>2, <1>3 DEF FirstStep, DeleteStep
<1>4. CASE c.op = "bucket_update"
  BY <1>1, <1>2, <1>4 DEF FirstStep, DeleteStep
<1>5. CASE c.op = "bucket_delete"
  BY <1>1, <1>2, <1>5 DEF FirstStep, DeleteStep
<1>6. CASE c.op = "worm_bucket_create"
  BY <1>1, <1>2, <1>6 DEF FirstStep, DeleteStep
<1>7. CASE c.op = "worm_bucket_update"
  BY <1>1, <1>2, <1>7 DEF FirstStep, DeleteStep
<1>8. CASE c.op = "worm_bucket_delete"
  BY <1>1, <1>2, <1>8 DEF FirstStep, DeleteStep
<1>9. CASE c.op = "full_sync"
  BY <1>1, <1>2, <1>9 DEF FirstStep, DeleteStep
<1> QED
  BY <1>3, <1>4, <1>5, <1>6, <1>7, <1>8, <1>9, CommandFields

\* Every sound bucket has a state of the right type and, when it is absent,
\* no objects.
LEMMA SoundBuckets ==
    ASSUME bkt' \in [Buckets -> BucketState], \A b \in Buckets : Sound(bkt'[b])
    PROVE  AbsentIsEmpty' /\ \A b \in Buckets : bkt'[b].held \subseteq bkt'[b].objs
BY DEF Sound, AbsentIsEmpty

\* The handler takes a command (Dispatch).
LEMMA DispatchTypes ==
    ASSUME BucketInv, NEW c \in Command, Dispatch(c)
    PROVE  BucketInv'
<1>1. BucketTypeOK'
  <2>1. /\ cmd' \in Command /\ cmds' \in Nat
        /\ UNCHANGED <<bkt, late, todo, mk, rm, errs, faults, sealed, unsure>>
    BY DEF BucketInv, BucketTypeOK, Dispatch
  <2>2. pc' \in Labels
    BY FirstStepIs DEF Dispatch, Goto, Labels
  <2>3. status' \in {"none", "completed", "failed"}
    BY DEF Dispatch
  <2>4. start' \in BucketState
    <3>1. CASE c.name = NoName
      BY <3>1, FreshSound DEF Dispatch, Sound
    <3>2. CASE c.name # NoName
      BY <3>2, CommandFields DEF Dispatch, BucketInv, BucketTypeOK, Names
    <3> QED
      BY <3>1, <3>2
  <2>5. clean' \in BOOLEAN
    BY DEF Dispatch
  <2> QED
    BY <2>1, <2>2, <2>3, <2>4, <2>5 DEF BucketInv, BucketTypeOK
<1>2. BucketControl'
  <2>1. cmd' = c /\ pc' = IF Invalid(c) THEN "reply" ELSE FirstStep(c)
    BY DEF Dispatch, Goto
  <2>2. CASE Invalid(c)
    BY <2>1, <2>2 DEF BucketControl
  <2>3. CASE ~Invalid(c)
    <3>1. FirstStep(c) = "list" => c.arg = TRUE
      <4>1. c.op = "bucket_delete" => c.arg \in BOOLEAN
        BY CommandFields
      <4>2. FirstStep(c) = "list" => c.op = "bucket_delete" /\ c.arg
        BY <2>3, FirstStepIs, Zenon
      <4> QED
        BY <4>1, <4>2, Zenon
    <3>2. pc' = FirstStep(c)
      BY <2>1, <2>3
    <3> QED
      BY <2>1, <2>3, <3>1, <3>2, FirstStepIs DEF BucketControl, WormOps
  <2> QED
    BY <2>2, <2>3
<1>3. AbsentIsEmpty'
  BY DEF BucketInv, AbsentIsEmpty, Dispatch
<1> QED
  BY <1>1, <1>2, <1>3 DEF BucketInv

\* The handler ends, with an answer or with the process.
LEMMA EndTypes ==
    ASSUME BucketInv, Reply \/ Crash
    PROVE  BucketInv'
<1>1. /\ DropLocals /\ pc' = "idle" /\ faults' \in Nat
      /\ UNCHANGED <<bkt, late, cmds, sealed, unsure>>
  BY DEF BucketInv, BucketTypeOK, Reply, Crash, Goto
<1>2. Absent \in BucketState
  BY FreshSound DEF Sound
<1>3. BucketTypeOK'
  BY <1>1, <1>2 DEF BucketInv, BucketTypeOK, DropLocals, Labels
<1>4. BucketControl'
  BY <1>1 DEF BucketControl
<1>5. AbsentIsEmpty'
  BY <1>1 DEF BucketInv, AbsentIsEmpty
<1> QED
  BY <1>3, <1>4, <1>5 DEF BucketInv

\* The one request of bucket_create and of bucket_update.
LEMMA CreateTypes ==
    ASSUME BucketInv, CreateBucket \/ UpdateBucket
    PROVE  BucketInv'
<1>1. cmd.name \in Buckets
  BY DEF BucketInv, BucketControl, CreateBucket, UpdateBucket
<1>2. PICK r \in Request : \E a : Send(r, a)
  BY <1>1 DEF CreateBucket, UpdateBucket, Request
<1>3. /\ pc' = "reply" /\ status' \in {"completed", "failed"}
      /\ UNCHANGED <<cmd, todo, mk, rm, errs, cmds, start, sealed, unsure>>
  BY DEF CreateBucket, UpdateBucket, Finish, Goto
<1>4. /\ bkt' \in [Buckets -> BucketState] /\ \A b \in Buckets : Sound(bkt'[b])
      /\ late' \subseteq Request /\ faults' \in Nat /\ clean' \in BOOLEAN
  BY <1>2, SendOK DEF BucketInv
<1>5. BucketTypeOK'
  BY <1>3, <1>4, SoundBuckets DEF BucketInv, BucketTypeOK, Labels
<1>6. BucketControl'
  BY <1>3 DEF BucketControl
<1> QED
  BY <1>4, <1>5, <1>6, SoundBuckets DEF BucketInv

\* The first request of worm_bucket_create.
LEMMA WormCreateTypes ==
    ASSUME BucketInv, CreateWORMBucket
    PROVE  BucketInv'
<1>1. cmd.name \in Buckets /\ cmd.op = "worm_bucket_create" /\ cmd.arg \in Rules
  BY DEF BucketInv, BucketControl, CreateWORMBucket
<1>2. PICK r \in Request : \E a : Send(r, a)
  BY <1>1 DEF CreateWORMBucket, Request
<1>3. /\ pc' \in {"reply", "objectLock"} /\ status' \in {status, "failed"}
      /\ UNCHANGED <<cmd, todo, mk, rm, errs, cmds, start, sealed, unsure>>
  BY DEF CreateWORMBucket, Finish, Goto
<1>4. /\ bkt' \in [Buckets -> BucketState] /\ \A b \in Buckets : Sound(bkt'[b])
      /\ late' \subseteq Request /\ faults' \in Nat /\ clean' \in BOOLEAN
  BY <1>2, SendOK DEF BucketInv
<1>5. BucketTypeOK'
  BY <1>3, <1>4, SoundBuckets DEF BucketInv, BucketTypeOK, Labels
<1>6. BucketControl'
  BY <1>1, <1>3 DEF BucketControl, WormOps
<1> QED
  BY <1>4, <1>5, <1>6, SoundBuckets DEF BucketInv

\* The request that sets the retention.
LEMMA LockTypes ==
    ASSUME BucketInv, putObjectLock
    PROVE  BucketInv'
<1>1. cmd.name \in Buckets /\ cmd.arg \in Rules
  BY DEF BucketInv, BucketControl, putObjectLock
<1>2. PICK a \in {"ok", "refused", "none"} :
         /\ Send([op |-> "lock", b |-> cmd.name, rule |-> cmd.arg], a)
         /\ sealed' = IF LockSet(a) THEN [sealed EXCEPT ![cmd.name] = cmd.arg] ELSE sealed
         /\ unsure' = IF a = "none" \/ LateLock(cmd.name) THEN unsure \union {cmd.name}
                      ELSE IF LockSet(a) THEN unsure \ {cmd.name} ELSE unsure
  BY DEF putObjectLock
<1>3. /\ pc' = "reply" /\ status' \in {"completed", "failed"}
      /\ UNCHANGED <<cmd, todo, mk, rm, errs, cmds, start>>
  BY DEF putObjectLock, Finish, Goto
<1>4. /\ bkt' \in [Buckets -> BucketState] /\ \A b \in Buckets : Sound(bkt'[b])
      /\ late' \subseteq Request /\ faults' \in Nat /\ clean' \in BOOLEAN
  <2>1. [op |-> "lock", b |-> cmd.name, rule |-> cmd.arg] \in Request
    BY <1>1 DEF Request
  <2> QED
    BY <1>2, <2>1, SendOK DEF BucketInv
<1>5. sealed' \in [Buckets -> Rules \union {NoRule}] /\ unsure' \subseteq Buckets
  BY <1>1, <1>2 DEF BucketInv, BucketTypeOK
<1>6. BucketTypeOK'
  BY <1>3, <1>4, <1>5, SoundBuckets DEF BucketInv, BucketTypeOK, Labels
<1>7. BucketControl'
  BY <1>3 DEF BucketControl
<1> QED
  BY <1>4, <1>6, <1>7, SoundBuckets DEF BucketInv

\* emptyBucket reads the first page.
LEMMA ListObjectsTypes ==
    ASSUME BucketInv, ListObjects
    PROVE  BucketInv'
<1>1. /\ cmd.name \in Buckets /\ cmd.op = "bucket_delete" /\ cmd.arg = TRUE
      /\ UNCHANGED <<bkt, late, cmd, mk, rm, errs, cmds, start, sealed, unsure>>
  BY DEF BucketInv, BucketControl, ListObjects
<1>2. bkt[cmd.name].objs \subseteq Objects
  BY <1>1 DEF BucketInv, BucketTypeOK, BucketState
<1>3. Page(bkt[cmd.name].objs) \subseteq Objects
  BY <1>2 DEF Page
<1>4. /\ pc' \in {"empty", "reply"} /\ todo' \subseteq Objects
      /\ status' \in {status, "failed"} /\ faults' \in Nat
  BY <1>3 DEF ListObjects, Goto, Finish, BucketInv, BucketTypeOK
<1>5. clean' \in BOOLEAN
  <2>1. clean' = clean \/ clean' = FALSE
    BY DEF ListObjects
  <2> QED
    BY <2>1, Zenon DEF BucketInv, BucketTypeOK
<1>6. BucketTypeOK'
  BY <1>1, <1>4, <1>5 DEF BucketInv, BucketTypeOK, Labels
<1>7. BucketControl'
  BY <1>1, <1>4 DEF BucketControl
<1>8. AbsentIsEmpty'
  BY <1>1 DEF BucketInv, AbsentIsEmpty
<1> QED
  BY <1>6, <1>7, <1>8 DEF BucketInv

\* emptyBucket deletes an object of it.
LEMMA DeleteObjectTypes ==
    ASSUME BucketInv, DeleteObject
    PROVE  BucketInv'
<1>1. /\ cmd.name \in Buckets /\ cmd.op = "bucket_delete" /\ cmd.arg = TRUE
      /\ UNCHANGED <<cmd, mk, rm, errs, cmds, start, sealed, unsure>>
  BY DEF BucketInv, BucketControl, DeleteObject
<1>2. pc' \in {"empty", "delete", "reply"} /\ status' \in {status, "failed"} /\ todo' \subseteq Objects
  BY DEF DeleteObject, Emptied, Goto, Finish, BucketInv, BucketTypeOK
<1>3. /\ bkt' \in [Buckets -> BucketState] /\ \A b \in Buckets : Sound(bkt'[b])
      /\ late' \subseteq Request /\ faults' \in Nat /\ clean' \in BOOLEAN
  <2>1. CASE UNCHANGED <<bkt, late, faults, clean>>
    <3>1. clean' \in BOOLEAN
      BY <2>1, Zenon DEF BucketInv, BucketTypeOK
    <3> QED
      BY <2>1, <3>1, GatewayIs DEF BucketInv, BucketTypeOK, GatewayOK
  <2>2. CASE \E o \in todo, a \in {"ok", "refused", "none"} :
               Send([op |-> "delObj", b |-> cmd.name, o |-> o], a)
    <3>1. PICK o \in todo, a \in {"ok", "refused", "none"} :
             Send([op |-> "delObj", b |-> cmd.name, o |-> o], a)
      BY <2>2
    <3>2. [op |-> "delObj", b |-> cmd.name, o |-> o] \in Request
      BY <1>1 DEF Request, BucketInv, BucketTypeOK
    <3> QED
      BY <3>1, <3>2, SendOK DEF BucketInv
  <2> QED
    BY <2>1, <2>2 DEF DeleteObject
<1>4. BucketTypeOK'
  BY <1>1, <1>2, <1>3, SoundBuckets DEF BucketInv, BucketTypeOK, Labels
<1>5. BucketControl'
  BY <1>1, <1>2 DEF BucketControl
<1> QED
  BY <1>3, <1>4, <1>5, SoundBuckets DEF BucketInv

\* The record of a reported retention keeps its type when a bucket goes.
LEMMA UnsealTypes ==
    ASSUME BucketTypeOK, NEW b \in Buckets, Unseal(b)
    PROVE  sealed' \in [Buckets -> Rules \union {NoRule}]
BY DEF BucketTypeOK, Unseal

\* The DELETE of the bucket.
LEMMA DeleteBucketTypes ==
    ASSUME BucketInv, DeleteBucket
    PROVE  BucketInv'
<1>1. /\ cmd.name \in Buckets
      /\ UNCHANGED <<cmd, todo, mk, rm, errs, cmds, start, unsure>>
  BY DEF BucketInv, BucketControl, DeleteBucket
<1>2. PICK r \in Request : \E a : Send(r, a)
  BY <1>1 DEF DeleteBucket, Request
<1>3. pc' = "reply" /\ status' \in {"completed", "failed"}
  BY DEF DeleteBucket, Finish, Goto
<1>4. /\ bkt' \in [Buckets -> BucketState] /\ \A b \in Buckets : Sound(bkt'[b])
      /\ late' \subseteq Request /\ faults' \in Nat /\ clean' \in BOOLEAN
  BY <1>2, SendOK DEF BucketInv
<1>5. sealed' \in [Buckets -> Rules \union {NoRule}]
  BY <1>1, UnsealTypes DEF DeleteBucket, BucketInv
<1>6. BucketTypeOK'
  BY <1>1, <1>3, <1>4, <1>5, SoundBuckets DEF BucketInv, BucketTypeOK, Labels
<1>7. BucketControl'
  BY <1>3 DEF BucketControl
<1> QED
  BY <1>4, <1>6, <1>7, SoundBuckets DEF BucketInv

\* Reconcile compares the buckets there are with those desired.
LEMMA ListBucketsTypes ==
    ASSUME BucketInv, ListBuckets
    PROVE  BucketInv'
<1>1. /\ cmd.op = "full_sync" /\ cmd.arg \subseteq Names
      /\ UNCHANGED <<bkt, late, cmd, todo, errs, cmds, start, clean, sealed, unsure>>
  BY Running, CommandFields DEF BucketInv, BucketControl, ListBuckets
<1>2. /\ mk' \subseteq Names /\ rm' \subseteq Buckets
      /\ pc' \in {"mkBuckets", "reply"} /\ status' \in {status, "failed"} /\ faults' \in Nat
      /\ pc' = "mkBuckets" => rm' \intersect cmd.arg = {}
  BY <1>1 DEF ListBuckets, Goto, Finish, BucketInv, BucketTypeOK
<1>3. BucketTypeOK'
  <2>1. clean' \in BOOLEAN
    BY <1>1, Zenon DEF BucketInv, BucketTypeOK
  <2> QED
    BY <1>1, <1>2, <2>1 DEF BucketInv, BucketTypeOK, Labels
<1>4. BucketControl'
  BY <1>1, <1>2 DEF BucketControl
<1>5. AbsentIsEmpty'
  BY <1>1 DEF BucketInv, AbsentIsEmpty
<1> QED
  BY <1>3, <1>4, <1>5 DEF BucketInv

\* Reconcile creates a bucket.
LEMMA CreateMissingTypes ==
    ASSUME BucketInv, CreateMissingBucket
    PROVE  BucketInv'
<1>1. /\ cmd.op = "full_sync" /\ rm \intersect cmd.arg = {}
      /\ UNCHANGED <<cmd, todo, rm, status, cmds, start, sealed, unsure>>
  BY DEF BucketInv, BucketControl, CreateMissingBucket
<1>2. mk' \subseteq Names /\ pc' \in {"mkBuckets", "rmBuckets"}
  BY DEF CreateMissingBucket, Goto, BucketInv, BucketTypeOK
<1>3. errs' \in BOOLEAN
  <2>1. errs' = errs \/ errs' = TRUE \/ \E a : errs' = (errs \/ a # "ok")
    BY DEF CreateMissingBucket
  <2> QED
    BY <2>1, Zenon DEF BucketInv, BucketTypeOK
<1>4. /\ bkt' \in [Buckets -> BucketState] /\ \A b \in Buckets : Sound(bkt'[b])
      /\ late' \subseteq Request /\ faults' \in Nat /\ clean' \in BOOLEAN
  <2>1. CASE UNCHANGED <<bkt, late, faults, clean>>
    <3>1. clean' \in BOOLEAN
      BY <2>1, Zenon DEF BucketInv, BucketTypeOK
    <3> QED
      BY <2>1, <3>1, GatewayIs DEF BucketInv, BucketTypeOK, GatewayOK
  <2>2. CASE \E b \in mk \ {NoName}, a \in {"ok", "conflict", "refused", "none"} :
               Send([op |-> "put", b |-> b], a)
    <3>1. PICK b \in mk \ {NoName}, a \in {"ok", "conflict", "refused", "none"} :
             Send([op |-> "put", b |-> b], a)
      BY <2>2
    <3>2. [op |-> "put", b |-> b] \in Request
      BY DEF Request, BucketInv, BucketTypeOK, Names
    <3> QED
      BY <3>1, <3>2, SendOK DEF BucketInv
  <2> QED
    BY <2>1, <2>2 DEF CreateMissingBucket
<1>5. BucketTypeOK'
  BY <1>1, <1>2, <1>3, <1>4, SoundBuckets DEF BucketInv, BucketTypeOK, Labels
<1>6. BucketControl'
  BY <1>1, <1>2 DEF BucketControl
<1> QED
  BY <1>4, <1>5, <1>6, SoundBuckets DEF BucketInv

\* Reconcile deletes one.
LEMMA DeleteExtraTypes ==
    ASSUME BucketInv, DeleteExtraBucket
    PROVE  BucketInv'
<1>1. /\ cmd.op = "full_sync" /\ rm \intersect cmd.arg = {}
      /\ UNCHANGED <<cmd, todo, mk, cmds, start, unsure>>
  BY DEF BucketInv, BucketControl, DeleteExtraBucket
<1>2. /\ rm' \subseteq Buckets /\ rm' \subseteq rm /\ pc' \in {"rmBuckets", "reply"}
      /\ status' \in {status, "completed"}
  BY DEF DeleteExtraBucket, Finish, Goto, BucketInv, BucketTypeOK
<1>3. errs' \in BOOLEAN
  <2>1. errs' = errs \/ \E a : errs' = (errs \/ a # "ok")
    BY DEF DeleteExtraBucket
  <2> QED
    BY <2>1, Zenon DEF BucketInv, BucketTypeOK
<1>4. /\ bkt' \in [Buckets -> BucketState] /\ \A b \in Buckets : Sound(bkt'[b])
      /\ late' \subseteq Request /\ faults' \in Nat /\ clean' \in BOOLEAN
      /\ sealed' \in [Buckets -> Rules \union {NoRule}]
  <2>1. CASE UNCHANGED <<bkt, late, faults, clean, sealed>>
    <3>1. clean' \in BOOLEAN
      BY <2>1, Zenon DEF BucketInv, BucketTypeOK
    <3> QED
      BY <2>1, <3>1, GatewayIs DEF BucketInv, BucketTypeOK, GatewayOK
  <2>2. CASE \E b \in rm, a \in {"ok", "refused", "none"} : Send([op |-> "delete", b |-> b], a) /\ Unseal(b)
    <3>1. PICK b \in rm, a \in {"ok", "refused", "none"} : Send([op |-> "delete", b |-> b], a) /\ Unseal(b)
      BY <2>2
    <3>2. [op |-> "delete", b |-> b] \in Request /\ b \in Buckets
      BY DEF Request, BucketInv, BucketTypeOK
    <3> QED
      BY <3>1, <3>2, SendOK, UnsealTypes DEF BucketInv
  <2> QED
    BY <2>1, <2>2 DEF DeleteExtraBucket
<1>5. BucketTypeOK'
  BY <1>1, <1>2, <1>3, <1>4, SoundBuckets DEF BucketInv, BucketTypeOK, Labels
<1>6. BucketControl'
  BY <1>1, <1>2 DEF BucketControl
<1> QED
  BY <1>4, <1>5, <1>6, SoundBuckets DEF BucketInv

\* A request without an answer is carried out after all.
LEMMA LateTypes ==
    ASSUME BucketInv, NEW r \in late, LateRequest(r)
    PROVE  BucketInv'
<1>1. UNCHANGED <<pc, cmd, todo, mk, rm, errs, status, cmds, faults, start, clean, unsure>>
  BY DEF LateRequest
<1>2. r \in Request /\ r.b \in Buckets /\ late' \subseteq Request
  BY DEF LateRequest, BucketInv, BucketTypeOK, Request
<1>3. bkt' \in [Buckets -> BucketState] /\ \A b \in Buckets : Sound(bkt'[b])
  <2>1. GatewayOK
    BY GatewayIs DEF BucketInv
  <2>2. CASE UNCHANGED bkt
    BY <2>1, <2>2 DEF GatewayOK
  <2>3. CASE Accepts(bkt[r.b], r) /\ Apply(r)
    BY <1>2, <2>1, <2>3, ApplyOK
  <2> QED
    BY <2>2, <2>3 DEF LateRequest
<1>4. sealed' \in [Buckets -> Rules \union {NoRule}]
  BY <1>2, UnsealTypes DEF LateRequest, BucketInv
<1>5. BucketTypeOK'
  <2>1. clean' \in BOOLEAN /\ errs' \in BOOLEAN
    BY <1>1, Zenon DEF BucketInv, BucketTypeOK
  <2> QED
    BY <1>1, <1>2, <1>3, <1>4, <2>1, SoundBuckets DEF BucketInv, BucketTypeOK
<1>6. BucketControl'
  BY <1>1 DEF BucketInv, BucketControl
<1> QED
  BY <1>3, <1>5, <1>6, SoundBuckets DEF BucketInv

\* What a customer makes of a bucket.
LEMMA ClientSound ==
    ASSUME GatewayOK, NEW b \in Buckets,
           BucketChange(b) \/ \E o \in Objects : ObjectChange(b, o)
    PROVE  \E s : Sound(s) /\ bkt' = [bkt EXCEPT ![b] = s]
<1>1. bkt[b] \in BucketState /\ Sound(bkt[b])
  BY DEF GatewayOK
<1>2. CASE BucketChange(b)
  BY <1>2, FreshSound DEF BucketChange
<1>3. ASSUME NEW o \in Objects, ObjectChange(b, o)
      PROVE  \E s : Sound(s) /\ bkt' = [bkt EXCEPT ![b] = s]
  <2>1. CASE /\ bkt[b].made /\ o \notin bkt[b].objs
             /\ bkt' = [bkt EXCEPT ![b].objs = @ \union {o},
                                   ![b].held = IF bkt[b].rule = NoRule THEN @ ELSE @ \union {o}]
    <3> DEFINE s == [bkt[b] EXCEPT !.objs = @ \union {o},
                                   !.held = IF bkt[b].rule = NoRule THEN @ ELSE @ \union {o}]
    <3>1. s \in BucketState /\ s.made = bkt[b].made
      BY <1>1 DEF BucketState
    <3>2. s.objs = bkt[b].objs \union {o} /\ s.held \subseteq bkt[b].held \union {o}
      BY <1>1 DEF BucketState
    <3>3. Sound(s)
      BY <1>1, <2>1, <3>1, <3>2 DEF Sound
    <3>4. bkt' = [bkt EXCEPT ![b] = s]
      BY <1>1, <2>1 DEF GatewayOK, BucketState
    <3> QED
      BY <3>3, <3>4
  <2>2. CASE o \in bkt[b].objs \ bkt[b].held /\ bkt' = [bkt EXCEPT ![b].objs = @ \ {o}]
    <3> DEFINE s == [bkt[b] EXCEPT !.objs = @ \ {o}]
    <3>1. /\ s \in BucketState /\ s.made = bkt[b].made
          /\ s.objs = bkt[b].objs \ {o} /\ s.held = bkt[b].held
      BY <1>1 DEF BucketState
    <3>2. Sound(s)
      BY <1>1, <2>2, <3>1 DEF Sound
    <3> QED
      BY <2>2, <3>2
  <2>3. CASE o \in bkt[b].held /\ bkt' = [bkt EXCEPT ![b].held = @ \ {o}]
    <3> DEFINE s == [bkt[b] EXCEPT !.held = @ \ {o}]
    <3>1. /\ s \in BucketState /\ s.made = bkt[b].made
          /\ s.objs = bkt[b].objs /\ s.held = bkt[b].held \ {o}
      BY <1>1 DEF BucketState
    <3>2. Sound(s)
      BY <1>1, <3>1 DEF Sound
    <3> QED
      BY <2>3, <3>2
  <2> QED
    BY <1>3, <2>1, <2>2, <2>3 DEF ObjectChange
<1> QED
  BY <1>2, <1>3

\* A customer puts or deletes an object.
LEMMA ClientTypes ==
    ASSUME BucketInv, NEW b \in Buckets, Client(b)
    PROVE  BucketInv'
<1>1. UNCHANGED <<late, pc, cmd, todo, mk, rm, errs, status, cmds, faults, start, unsure>>
  BY DEF Client
<1>2. GatewayOK
  BY GatewayIs DEF BucketInv
<1>3. PICK s : Sound(s) /\ bkt' = [bkt EXCEPT ![b] = s]
  BY <1>2, ClientSound DEF Client
<1>4. bkt' \in [Buckets -> BucketState] /\ \A c \in Buckets : Sound(bkt'[c])
  <2>1. s \in BucketState
    BY <1>3 DEF Sound
  <2> QED
    BY <1>2, <1>3, <2>1 DEF GatewayOK
<1>5. sealed' \in [Buckets -> Rules \union {NoRule}]
  BY UnsealTypes DEF Client, BucketInv
<1>6. clean' \in BOOLEAN /\ errs' \in BOOLEAN
  <2>1. clean' = (clean /\ b # cmd.name)
    BY DEF Client
  <2> QED
    BY <1>1, <2>1, Zenon DEF BucketInv, BucketTypeOK
<1>7. BucketTypeOK'
  BY <1>1, <1>4, <1>5, <1>6, SoundBuckets DEF BucketInv, BucketTypeOK
<1>8. BucketControl'
  BY <1>1 DEF BucketInv, BucketControl
<1> QED
  BY <1>4, <1>7, <1>8, SoundBuckets DEF BucketInv

\* The invariant holds in every reachable state.
LEMMA BucketInvariance == Spec => []BucketInv
<1>1. Init => BucketInv
  <2> SUFFICES ASSUME Init PROVE BucketInv
    OBVIOUS
  <2>1. bkt \in [Buckets -> BucketState] /\ \A b \in Buckets : Sound(bkt[b])
    <3>1. bkt \in [Buckets -> {Absent, Fresh(FALSE)}]
      BY DEF Init
    <3>2. Absent \in BucketState /\ Fresh(FALSE) \in BucketState
      BY FreshSound DEF Sound
    <3> QED
      BY <3>1, <3>2, FreshSound
  <2>2. AbsentIsEmpty /\ \A b \in Buckets : bkt[b].held \subseteq bkt[b].objs
    BY <2>1 DEF AbsentIsEmpty, Sound
  <2>3. Absent \in BucketState
    BY FreshSound DEF Sound
  <2>4. BucketTypeOK
    BY <2>1, <2>2, <2>3 DEF Init, BucketTypeOK, Labels
  <2> QED
    BY <2>2, <2>4 DEF Init, BucketInv, BucketControl
<1>2. BucketInv /\ [Next]_vars => BucketInv'
  <2> SUFFICES ASSUME BucketInv, [Next]_vars PROVE BucketInv'
    OBVIOUS
  <2>1. CASE UNCHANGED vars
    <3>1. BucketTypeOK'
      BY <2>1, Zenon DEF vars, BucketInv, BucketTypeOK
    <3>2. BucketControl' /\ AbsentIsEmpty'
      BY <2>1 DEF vars, BucketInv, BucketControl, AbsentIsEmpty
    <3> QED
      BY <3>1, <3>2 DEF BucketInv
  <2>2. CASE Next
    BY <2>2, DispatchTypes, EndTypes, CreateTypes, WormCreateTypes, LockTypes,
       ListObjectsTypes, DeleteObjectTypes, DeleteBucketTypes, ListBucketsTypes,
       CreateMissingTypes, DeleteExtraTypes, LateTypes, ClientTypes
       DEF Next, AgentStep
  <2> QED
    BY <2>1, <2>2
<1> QED
  BY <1>1, <1>2, PTL DEF Spec

\* The types of BucketSettings hold throughout: no request is ever sent for a
\* bucket without a name, and a retained object is an object of its bucket,
\* whatever requests are lost, carried out late or cut short by a crash.
THEOREM BucketTyping == Spec => []BucketTypeOK
<1>1. BucketInv => BucketTypeOK
  BY DEF BucketInv
<1> QED
  BY <1>1, BucketInvariance, PTL

-----------------------------------------------------------------------------
(* A retention reported as set is in force.                                   *)

\* A bucket that lives goes on living with its Object Lock and retention.
LockKept(s, t) == s.made => t.made /\ t.locked = s.locked /\ t.rule = s.rule

\* A request for one bucket leaves the others alone; what it does to its own
\* is what the gateway makes of it, once it was answered with 2xx.
LEMMA SendEffect ==
    ASSUME BucketTypeOK, NEW r \in Request, NEW a, Send(r, a)
    PROVE  /\ \A b \in Buckets : b # r.b => bkt'[b] = bkt[b]
           /\ \/ /\ a = "ok" /\ Accepts(bkt[r.b], r)
                 /\ bkt'[r.b] = After(bkt[r.b], r)
              \/ bkt' = bkt
           /\ late' \subseteq late \union {r}
           /\ a # "none" => late' = late
<1>1. r.b \in Buckets
  BY DEF Request
<1>2. Apply(r) => /\ \A b \in Buckets : b # r.b => bkt'[b] = bkt[b]
                  /\ bkt'[r.b] = After(bkt[r.b], r)
  BY <1>1 DEF Apply, BucketTypeOK
<1>3. CASE a = "ok" /\ Accepts(bkt[r.b], r) /\ Apply(r) /\ late' = late
  BY <1>2, <1>3
<1>4. CASE bkt' = bkt /\ late' = late
  BY <1>4
<1>5. CASE bkt' = bkt /\ late' = late \union IF a = "none" THEN {r} ELSE {}
  BY <1>5
<1> QED
  BY <1>3, <1>4, <1>5, SendCases

\* Only a retention request and a delete touch a bucket's lock.
LEMMA AfterKeepsLock ==
    ASSUME NEW s \in BucketState, NEW r \in Request, Accepts(s, r), r.op \notin {"lock", "delete"}
    PROVE  LockKept(s, After(s, r))
<1>1. CASE r.op \in {"put", "wormPut"}
  BY <1>1, AfterCases DEF LockKept
<1>2. CASE r.op = "life"
  BY <1>2, AfterCases DEF LockKept, BucketState
<1>3. CASE r.op = "delObj"
  <2>1. After(s, r) = [s EXCEPT !.objs = s.objs \ {r.o}]
    BY <1>3, AfterCases
  <2> QED
    BY <2>1 DEF LockKept, BucketState
<1> QED
  BY <1>1, <1>2, <1>3, AfterCases

\* A request that is neither for a retention nor a DELETE of a bucket keeps all
\* retentions.
LEMMA SendKeepsLock ==
    ASSUME BucketTypeOK, NEW r \in Request, NEW a, Send(r, a), r.op \notin {"lock", "delete"}
    PROVE  \A b \in Buckets : LockKept(bkt[b], bkt'[b])
<1>1. r.b \in Buckets /\ bkt[r.b] \in BucketState
  BY DEF Request, BucketTypeOK
<1>2. LockKept(bkt[r.b], bkt'[r.b])
  BY <1>1, SendEffect, AfterKeepsLock DEF LockKept
<1> QED
  BY <1>2, SendEffect DEF LockKept

\* A step that changes no retention keeps the account of them.
LEMMA RetentionKept ==
    ASSUME RetentionAsReported, \A b \in Buckets : LockKept(bkt[b], bkt'[b]),
           UNCHANGED <<sealed, unsure>>
    PROVE  RetentionAsReported'
BY DEF RetentionAsReported, LockKept

\* A step that may end the life of bucket b.
LEMMA RetentionUnsealed ==
    ASSUME BucketTypeOK, RetentionAsReported, NEW b \in Buckets, Unseal(b),
           \A c \in Buckets : c # b => bkt'[c] = bkt[c],
           bkt'[b].made => \/ LockKept(bkt[b], bkt'[b])
                           \/ /\ bkt'[b].locked = bkt[b].locked
                              /\ bkt'[b].rule # NoRule /\ b \in unsure,
           UNCHANGED unsure
    PROVE  RetentionAsReported'
<1>1. /\ \A c \in Buckets : c # b => sealed'[c] = sealed[c]
      /\ sealed'[b] = IF bkt'[b].made THEN sealed[b] ELSE NoRule
  BY DEF BucketTypeOK, Unseal
<1> QED
  BY <1>1 DEF RetentionAsReported, LockKept

\* The requests that are not about retention add nothing a late
\* request has to be accounted for.
LEMMA LateKept ==
    ASSUME LateIsKnown, NEW r, r.op # "lock", late' \subseteq late \union {r},
           unsure' = unsure
    PROVE  LateIsKnown'
BY DEF LateIsKnown

Accounted == LateIsKnown /\ RetentionAsReported

\* A request that leaves the locks of all buckets and the accounts alone.
LEMMA PlainSend ==
    ASSUME BucketTypeOK, Accounted, NEW r \in Request, NEW a, Send(r, a),
           r.op \notin {"lock", "delete", "delObj"},
           UNCHANGED <<sealed, unsure>>
    PROVE  Accounted'
<1>1. \A b \in Buckets : LockKept(bkt[b], bkt'[b])
  BY SendKeepsLock
<1>2. late' \subseteq late \union {r}
  BY SendEffect
<1> QED
  BY <1>1, <1>2, RetentionKept, LateKept DEF Accounted

\* A DELETE of a bucket ends what was reported about it, whatever becomes of it.
LEMMA DeleteSend ==
    ASSUME BucketTypeOK, Accounted, NEW b \in Buckets, NEW a,
           Send([op |-> "delete", b |-> b], a), Unseal(b), UNCHANGED <<unsure>>
    PROVE  Accounted'
<1> DEFINE r == [op |-> "delete", b |-> b]
<1>1. r \in Request /\ r.op = "delete" /\ r.b = b
  BY DEF Request
<1>2. /\ \A c \in Buckets : c # b => bkt'[c] = bkt[c]
      /\ late' \subseteq late \union {r}
  BY <1>1, SendEffect
<1>3. bkt'[b].made => bkt'[b] = bkt[b]
  <2>1. ~Absent.made
    BY DEF Absent, Fresh
  <2>2. bkt' = bkt \/ (Accepts(bkt[b], r) /\ bkt'[b] = After(bkt[b], r))
    BY <1>1, SendEffect
  <2>3. Accepts(bkt[b], r) => After(bkt[b], r) = Absent
    BY <1>1, AfterCases
  <2> QED
    BY <2>1, <2>2, <2>3
<1>4. RetentionAsReported'
  BY <1>2, <1>3, RetentionUnsealed DEF LockKept, Accounted
<1>5. LateIsKnown'
  BY <1>1, <1>2, LateKept DEF Accounted
<1> QED
  BY <1>4, <1>5 DEF Accounted

\* putObjectLock: a retention that may still be set later makes the bucket
\* unsure before it is given up on.
LEMMA LockAccounted ==
    ASSUME BucketInv, Accounted, putObjectLock
    PROVE  Accounted'
<1> DEFINE r == [op |-> "lock", b |-> cmd.name, rule |-> cmd.arg]
<1>1. cmd.name \in Buckets /\ cmd.arg \in Rules
  BY DEF BucketInv, BucketControl, putObjectLock
<1>2. PICK a \in {"ok", "refused", "none"} :
         /\ Send(r, a)
         /\ sealed' = IF LockSet(a) THEN [sealed EXCEPT ![cmd.name] = cmd.arg] ELSE sealed
         /\ unsure' = IF a = "none" \/ LateLock(cmd.name) THEN unsure \union {cmd.name}
                      ELSE IF LockSet(a) THEN unsure \ {cmd.name} ELSE unsure
  BY DEF putObjectLock
<1>3. r \in Request /\ r.op = "lock" /\ r.b = cmd.name /\ r.rule = cmd.arg
  BY <1>1 DEF Request
<1>4. /\ \A b \in Buckets : b # cmd.name => bkt'[b] = bkt[b]
      /\ \/ /\ a = "ok" /\ Accepts(bkt[cmd.name], r)
            /\ bkt'[cmd.name] = After(bkt[cmd.name], r)
         \/ bkt' = bkt
      /\ late' \subseteq late \union {r}
      /\ a # "none" => late' = late
  BY <1>2, <1>3, SendEffect DEF BucketInv
<1>5. LateIsKnown'
  <2>3. ASSUME NEW q \in late', q.op = "lock" PROVE q.b \in unsure'
    <3>1. CASE q = r /\ a = "none"
      BY <1>2, <1>3, <3>1
    <3>2. CASE q \in late
      BY <1>2, <2>3, <3>2 DEF Accounted, LateIsKnown, LateLock
    <3> QED
      BY <1>4, <3>1, <3>2
  <2> QED
    BY <2>3 DEF LateIsKnown
<1>6. RetentionAsReported'
  <2>1. CASE a = "ok"
    <3>1. Accepts(bkt[cmd.name], r)
      BY <1>2, <1>3, <2>1, SendCases
    <3>2. bkt[cmd.name] \in BucketState /\ bkt[cmd.name].made /\ bkt[cmd.name].locked
      BY <1>1, <1>3, <3>1, AfterCases DEF BucketInv, BucketTypeOK
    <3>3. bkt'[cmd.name] = [bkt[cmd.name] EXCEPT !.rule = cmd.arg]
      <4>1. Apply(r)
        BY <1>2, <1>3, <2>1, <3>1, SendCases
      <4> QED
        BY <1>1, <1>3, <3>1, <4>1, AfterCases DEF Apply, BucketInv, BucketTypeOK
    <3>4. bkt'[cmd.name].made /\ bkt'[cmd.name].locked /\ bkt'[cmd.name].rule = cmd.arg
      BY <3>2, <3>3 DEF BucketState
    <3>5. sealed' = [sealed EXCEPT ![cmd.name] = cmd.arg]
      BY <1>2, <2>1 DEF LockSet
    <3>6. \A b \in Buckets : b # cmd.name => sealed'[b] = sealed[b] /\ (b \in unsure => b \in unsure')
      BY <1>2, <3>5 DEF BucketInv, BucketTypeOK
    <3>7. sealed'[cmd.name] = cmd.arg
      BY <1>1, <3>5 DEF BucketInv, BucketTypeOK
    <3> QED
      BY <1>1, <1>4, <3>4, <3>6, <3>7 DEF Accounted, RetentionAsReported
  <2>2. CASE a # "ok"
    <3>1. bkt' = bkt /\ sealed' = sealed /\ unsure \subseteq unsure'
      BY <1>2, <1>4, <2>2 DEF LockSet
    <3> QED
      BY <3>1 DEF Accounted, RetentionAsReported
  <2> QED
    BY <2>1, <2>2
<1> QED
  BY <1>5, <1>6 DEF Accounted

\* emptyBucket's requests are those of a command that asked to empty the bucket.
LEMMA DeleteObjectAccounted ==
    ASSUME BucketInv, Accounted, DeleteObject
    PROVE  Accounted'
<1>1. cmd.name \in Buckets /\ UNCHANGED <<sealed, unsure>>
  BY DEF BucketInv, BucketControl, DeleteObject
<1>2. CASE UNCHANGED <<bkt, late>>
  BY <1>1, <1>2 DEF Accounted, LateIsKnown, RetentionAsReported
<1>3. ASSUME NEW o \in todo, NEW a, Send([op |-> "delObj", b |-> cmd.name, o |-> o], a)
      PROVE  Accounted'
  <2> DEFINE r == [op |-> "delObj", b |-> cmd.name, o |-> o]
  <2>1. r \in Request /\ r.op = "delObj" /\ r.b = cmd.name
    BY <1>1 DEF Request, BucketInv, BucketTypeOK
  <2>2. \A b \in Buckets : LockKept(bkt[b], bkt'[b])
    BY <1>3, <2>1, SendKeepsLock DEF BucketInv
  <2>3. late' \subseteq late \union {r}
    BY <1>3, <2>1, SendEffect DEF BucketInv
  <2>4. LateIsKnown'
    BY <1>1, <2>1, <2>3 DEF Accounted, LateIsKnown
  <2> QED
    BY <1>1, <2>2, <2>4, RetentionKept DEF Accounted
<1> QED
  BY <1>2, <1>3 DEF DeleteObject

\* A request carried out late was accounted for when it was given up on.
LEMMA LateAccounted ==
    ASSUME BucketInv, Accounted, NEW r \in late, LateRequest(r)
    PROVE  Accounted'
<1>1. r \in Request /\ r.b \in Buckets /\ bkt[r.b] \in BucketState
  BY DEF BucketInv, BucketTypeOK, Request
<1>2. LateIsKnown'
  BY DEF LateRequest, Accounted, LateIsKnown
<1>3. /\ \A c \in Buckets : c # r.b => bkt'[c] = bkt[c]
      /\ \/ Accepts(bkt[r.b], r) /\ bkt'[r.b] = After(bkt[r.b], r)
         \/ bkt' = bkt
  BY <1>1 DEF LateRequest, Apply, BucketInv, BucketTypeOK
<1>4. bkt'[r.b].made => \/ LockKept(bkt[r.b], bkt'[r.b])
                        \/ /\ bkt'[r.b].locked = bkt[r.b].locked
                           /\ bkt'[r.b].rule # NoRule /\ r.b \in unsure
  <2>1. CASE bkt' = bkt
    BY <2>1 DEF LockKept
  <2>2. CASE Accepts(bkt[r.b], r) /\ bkt'[r.b] = After(bkt[r.b], r)
    <3>1. CASE r.op \notin {"lock", "delete"}
      BY <1>1, <2>2, <3>1, AfterKeepsLock
    <3>2. CASE r.op = "delete"
      BY <1>1, <2>2, <3>2, AfterCases DEF Absent, Fresh
    <3>3. CASE r.op = "lock"
      <4>1. r.b \in unsure
        BY <3>3 DEF Accounted, LateIsKnown
      <4>2. r.rule \in Rules /\ bkt'[r.b] = [bkt[r.b] EXCEPT !.rule = r.rule]
        BY <1>1, <2>2, <3>3, AfterCases
      <4> QED
        BY <1>1, <4>1, <4>2 DEF BucketState
    <3> QED
      BY <3>1, <3>2, <3>3
  <2> QED
    BY <1>3, <2>1, <2>2
<1>5. RetentionAsReported'
  BY <1>1, <1>3, <1>4, RetentionUnsealed DEF LateRequest, BucketInv, Accounted
<1> QED
  BY <1>2, <1>5 DEF Accounted

\* What a customer does to a bucket that lives on leaves its lock alone.
LEMMA ClientKeepsLock ==
    ASSUME BucketTypeOK, NEW b \in Buckets,
           BucketChange(b) \/ \E o \in Objects : ObjectChange(b, o)
    PROVE  /\ \A c \in Buckets : c # b => bkt'[c] = bkt[c]
           /\ bkt'[b].made => LockKept(bkt[b], bkt'[b])
<1>1. bkt[b] \in BucketState
  BY DEF BucketTypeOK
<1>2. CASE BucketChange(b)
  BY <1>2 DEF BucketChange, BucketTypeOK, LockKept, Absent, Fresh
<1>3. ASSUME NEW o \in Objects, ObjectChange(b, o)
      PROVE  /\ \A c \in Buckets : c # b => bkt'[c] = bkt[c]
             /\ LockKept(bkt[b], bkt'[b])
  BY <1>1, <1>3 DEF ObjectChange, BucketTypeOK, BucketState, LockKept
<1> QED
  BY <1>2, <1>3

\* Retentions are accounted for in every reachable state.
LEMMA AccountedInvariance == Spec => []Accounted
<1>1. Init => Accounted
  BY DEF Init, Accounted, LateIsKnown, RetentionAsReported
<1>2. BucketInv /\ Accounted /\ [Next]_vars => Accounted'
  <2> SUFFICES ASSUME BucketInv, Accounted, [Next]_vars PROVE Accounted'
    OBVIOUS
  <2>0. BucketTypeOK
    BY DEF BucketInv
  <2>1. CASE UNCHANGED <<bkt, late, sealed, unsure>>
    BY <2>1 DEF Accounted, LateIsKnown, RetentionAsReported
  <2>2. CASE UNCHANGED vars
    BY <2>1, <2>2 DEF vars
  <2>3. ASSUME NEW c \in Command, Dispatch(c) PROVE Accounted'
    BY <2>1, <2>3 DEF Dispatch
  <2>4. CASE Reply \/ Crash
    BY <2>1, <2>4 DEF Reply, Crash
  <2>5. CASE CreateBucket
    <3>1. cmd.name \in Buckets /\ UNCHANGED <<sealed, unsure>>
      BY <2>5 DEF CreateBucket, BucketInv, BucketControl
    <3>2. [op |-> "put", b |-> cmd.name] \in Request
      BY <3>1 DEF Request
    <3> QED
      BY <2>0, <2>5, <3>1, <3>2, PlainSend DEF CreateBucket
  <2>6. CASE UpdateBucket
    <3>1. cmd.name \in Buckets /\ UNCHANGED <<sealed, unsure>>
      BY <2>6 DEF UpdateBucket, BucketInv, BucketControl
    <3>2. [op |-> "life", b |-> cmd.name] \in Request
      BY <3>1 DEF Request
    <3> QED
      BY <2>0, <2>6, <3>1, <3>2, PlainSend DEF UpdateBucket
  <2>7. CASE CreateWORMBucket
    <3>1. cmd.name \in Buckets /\ UNCHANGED <<sealed, unsure>>
      BY <2>7 DEF CreateWORMBucket, BucketInv, BucketControl
    <3>2. [op |-> "wormPut", b |-> cmd.name] \in Request
      BY <3>1 DEF Request
    <3> QED
      BY <2>0, <2>7, <3>1, <3>2, PlainSend DEF CreateWORMBucket
  <2>8. CASE putObjectLock
    BY <2>8, LockAccounted
  <2>9. CASE ListObjects \/ ListBuckets
    BY <2>1, <2>9 DEF ListObjects, ListBuckets
  <2>10. CASE DeleteObject
    BY <2>10, DeleteObjectAccounted
  <2>11. CASE DeleteBucket
    <3>1. cmd.name \in Buckets
      BY <2>11 DEF DeleteBucket, BucketInv, BucketControl
    <3> QED
      BY <2>0, <2>11, <3>1, DeleteSend DEF DeleteBucket
  <2>12. CASE CreateMissingBucket
    <3>0. UNCHANGED <<sealed, unsure>>
      BY <2>12 DEF CreateMissingBucket
    <3>1. CASE UNCHANGED <<bkt, late>>
      BY <2>1, <3>0, <3>1
    <3>2. ASSUME NEW b \in mk \ {NoName}, NEW a, Send([op |-> "put", b |-> b], a)
          PROVE  Accounted'
      <4>1. [op |-> "put", b |-> b] \in Request
        BY <2>0 DEF Request, BucketTypeOK, Names
      <4> QED
        BY <2>0, <3>0, <3>2, <4>1, PlainSend
    <3> QED
      BY <2>12, <3>1, <3>2 DEF CreateMissingBucket
  <2>13. CASE DeleteExtraBucket
    <3>0. UNCHANGED <<unsure>>
      BY <2>13 DEF DeleteExtraBucket
    <3>1. CASE UNCHANGED <<bkt, late, sealed>>
      BY <2>1, <3>0, <3>1
    <3>2. ASSUME NEW b \in rm, NEW a, Send([op |-> "delete", b |-> b], a), Unseal(b) PROVE Accounted'
      <4>1. b \in Buckets
        BY <2>0 DEF BucketTypeOK
      <4> QED
        BY <2>0, <3>0, <3>2, <4>1, DeleteSend
    <3> QED
      BY <2>13, <3>1, <3>2 DEF DeleteExtraBucket
  <2>14. ASSUME NEW r \in late, LateRequest(r) PROVE Accounted'
    BY <2>14, LateAccounted
  <2>15. ASSUME NEW b \in Buckets, Client(b) PROVE Accounted'
    <3>1. RetentionAsReported'
      BY <2>0, <2>15, ClientKeepsLock, RetentionUnsealed DEF Client, Accounted
    <3>2. LateIsKnown'
      BY <2>15 DEF Client, Accounted, LateIsKnown
    <3> QED
      BY <3>1, <3>2 DEF Accounted
  <2> QED
    BY <2>2, <2>3, <2>4, <2>5, <2>6, <2>7, <2>8, <2>9, <2>10, <2>11, <2>12, <2>13, <2>14,
       <2>15 DEF Next, AgentStep
<1> QED
  BY <1>1, <1>2, BucketInvariance, PTL DEF Spec

\* A retention the agent reported as set (putObjectLock answered with 2xx) is
\* in force for as long as the bucket lives, or has been replaced by one that
\* the platform asked for and that nobody answered: for any number of buckets,
\* commands, lost answers, late requests and crashes.
THEOREM RetentionAsReportedAlways == Spec => []RetentionAsReported
<1>1. Accounted => RetentionAsReported
  BY DEF Accounted
<1> QED
  BY <1>1, AccountedInvariance, PTL

-----------------------------------------------------------------------------
(* Objects go only by their customers or as a command asked for.              *)

\* Of the requests only those that delete an object or a bucket remove one.
LEMMA AfterKeepsObjects ==
    ASSUME NEW s, Sound(s), NEW r \in Request, Accepts(s, r), r.op \notin {"delObj", "delete"}
    PROVE  s.objs \subseteq After(s, r).objs
<1>1. s \in BucketState /\ (~s.made => s.objs = {})
  BY DEF Sound
<1>2. CASE r.op \in {"put", "wormPut"}
  BY <1>1, <1>2, AfterCases
<1>3. CASE r.op \in {"lock", "life"}
  BY <1>1, <1>3, AfterCases DEF BucketState
<1> QED
  BY <1>2, <1>3, AfterCases

\* What a request that is carried out does to the objects of a bucket: it keeps
\* them, removes some of its own bucket, or all of them with that bucket.
LEMMA ApplyObjects ==
    ASSUME BucketInv, NEW r \in Request, Accepts(bkt[r.b], r), Apply(r), NEW b \in Buckets
    PROVE  \/ bkt[b].objs \subseteq bkt'[b].objs
           \/ r.op = "delObj" /\ b = r.b
           \/ r.op = "delete" /\ b = r.b /\ ~bkt'[b].made
<1>1. r.b \in Buckets /\ Sound(bkt[r.b])
  BY GatewayIs DEF Request, BucketInv, GatewayOK
<1>2. /\ b # r.b => bkt'[b] = bkt[b]
      /\ bkt'[r.b] = After(bkt[r.b], r)
  BY <1>1 DEF Apply, BucketInv, BucketTypeOK
<1>3. r.op = "delete" => ~After(bkt[r.b], r).made
  BY AfterCases DEF Absent, Fresh
<1> QED
  BY <1>1, <1>2, <1>3, AfterKeepsObjects

\* The same of a request that is sent.
LEMMA SendObjects ==
    ASSUME BucketInv, NEW r \in Request, NEW a, Send(r, a), NEW b \in Buckets
    PROVE  \/ bkt[b].objs \subseteq bkt'[b].objs
           \/ r.op = "delObj" /\ b = r.b
           \/ r.op = "delete" /\ b = r.b /\ ~bkt'[b].made
<1>1. CASE bkt' = bkt
  BY <1>1
<1>2. CASE Accepts(bkt[r.b], r) /\ Apply(r)
  BY <1>2, ApplyObjects
<1> QED
  BY <1>1, <1>2, SendCases

\* Whatever `weed s3` refuses to delete: an object disappears in a step only if
\* a customer took that step on its bucket; with the whole bucket, while the
\* command that runs asks for the bucket's removal or by such a request carried
\* out late; or by a bucket_delete with force_empty, a late request of it
\* included (DeleteBucket, DeleteWORMBucket, Reconcile, emptyBucket).
THEOREM ObjectsGoAsAskedAlways == Spec => ObjectsGoAsAsked
<1> DEFINE Asked(b) ==
             \/ Client(b)
             \/ /\ ~bkt'[b].made
                /\ AsksRemoval(cmd, b) \/ [op |-> "delete", b |-> b] \in late
             \/ cmd = [op |-> "bucket_delete", name |-> b, arg |-> TRUE]
             \/ \E o \in Objects : [op |-> "delObj", b |-> b, o |-> o] \in late
           Lost(b) == (\E o \in bkt[b].objs : o \notin bkt'[b].objs) => Asked(b)
<1>1. BucketInv /\ [Next]_vars => [\A b \in Buckets : Lost(b)]_vars
  <2> SUFFICES ASSUME BucketInv, Next, NEW b \in Buckets PROVE Lost(b)
    OBVIOUS
  <2>0. BucketTypeOK /\ BucketControl
    BY DEF BucketInv
  <2>1. CASE bkt' = bkt
    BY <2>1
  <2>2. CASE bkt[b].objs \subseteq bkt'[b].objs
    BY <2>2
  <2>3. CASE ~bkt'[b].made /\ (AsksRemoval(cmd, b) \/ [op |-> "delete", b |-> b] \in late)
    BY <2>3
  <2>4. CASE cmd = [op |-> "bucket_delete", name |-> b, arg |-> TRUE]
    BY <2>4
  <2>5. CASE \E o \in Objects : [op |-> "delObj", b |-> b, o |-> o] \in late
    BY <2>5
  <2>6. CASE Client(b)
    BY <2>6
  <2> HIDE DEF Lost
  <2>7. CASE \E c \in Command : Dispatch(c)
    BY <2>1, <2>7 DEF Dispatch
  <2>8. CASE Reply \/ Crash \/ ListObjects \/ ListBuckets
    BY <2>1, <2>8 DEF Reply, Crash, ListObjects, ListBuckets
  <2>9. ASSUME NEW r \in Request, NEW a, Send(r, a), r.op \notin {"delObj", "delete"}
        PROVE  Lost(b)
    BY <2>2, <2>9, SendObjects
  <2>10. CASE CreateBucket \/ UpdateBucket \/ CreateWORMBucket \/ putObjectLock
    <3>1. cmd.name \in Buckets
      BY <2>0, <2>10 DEF BucketControl, CreateBucket, UpdateBucket, CreateWORMBucket,
                         putObjectLock
    <3>2. pc = "objectLock" => cmd.arg \in Rules
      BY <2>0 DEF BucketControl
    <3>3. /\ [op |-> "put", b |-> cmd.name] \in Request
          /\ [op |-> "life", b |-> cmd.name] \in Request
          /\ [op |-> "wormPut", b |-> cmd.name] \in Request
          /\ pc = "objectLock" => [op |-> "lock", b |-> cmd.name, rule |-> cmd.arg] \in Request
      BY <3>1, <3>2 DEF Request
    <3>4. CASE CreateBucket
      BY <2>9, <3>3, <3>4 DEF CreateBucket
    <3>5. CASE UpdateBucket
      BY <2>9, <3>3, <3>5 DEF UpdateBucket
    <3>6. CASE CreateWORMBucket
      BY <2>9, <3>3, <3>6 DEF CreateWORMBucket
    <3>7. CASE putObjectLock
      <4>1. pc = "objectLock"
             /\ \E a \in {"ok", "refused", "none"} :
                   Send([op |-> "lock", b |-> cmd.name, rule |-> cmd.arg], a)
        BY <3>7 DEF putObjectLock
      <4> QED
        BY <2>9, <3>3, <4>1
    <3> QED
      BY <2>10, <3>4, <3>5, <3>6, <3>7
  <2>11. ASSUME NEW n \in Buckets, NEW a, Send([op |-> "delete", b |-> n], a), AsksRemoval(cmd, n)
         PROVE  Lost(b)
    <3> DEFINE r == [op |-> "delete", b |-> n]
    <3>1. r \in Request /\ r.op = "delete" /\ r.b = n
      BY DEF Request
    <3>2. bkt[b].objs \subseteq bkt'[b].objs \/ (b = n /\ ~bkt'[b].made)
      BY <2>11, <3>1, SendObjects
    <3> QED
      BY <2>2, <2>3, <2>11, <3>2
  <2>12. CASE DeleteBucket
    <3>1. cmd.name \in Buckets /\ AsksRemoval(cmd, cmd.name)
      BY <2>0, <2>12 DEF BucketControl, DeleteBucket, AsksRemoval
    <3> QED
      BY <2>11, <2>12, <3>1 DEF DeleteBucket
  <2>13. CASE DeleteObject
    <3>1. cmd.name \in Buckets /\ cmd.op = "bucket_delete" /\ cmd.arg = TRUE
      BY <2>0, <2>13 DEF BucketControl, DeleteObject
    <3>2. cmd = [op |-> "bucket_delete", name |-> cmd.name, arg |-> TRUE]
      <4>1. cmd \in Command
        BY <2>0, <3>1 DEF BucketTypeOK, None
      <4>2. cmd = [op |-> cmd.op, name |-> cmd.name, arg |-> cmd.arg]
        BY <4>1 DEF Command
      <4> QED
        BY <3>1, <4>2
    <3>3. ASSUME NEW o \in todo, NEW a, Send([op |-> "delObj", b |-> cmd.name, o |-> o], a)
          PROVE  Lost(b)
      <4> DEFINE r == [op |-> "delObj", b |-> cmd.name, o |-> o]
      <4>1. r \in Request /\ r.op = "delObj" /\ r.b = cmd.name
        BY <2>0, <3>1 DEF Request, BucketTypeOK
      <4>2. bkt[b].objs \subseteq bkt'[b].objs \/ b = cmd.name
        BY <3>3, <4>1, SendObjects
      <4> QED
        BY <2>2, <2>4, <3>2, <4>2
    <3> QED
      BY <2>1, <2>13, <3>3 DEF DeleteObject
  <2>14. CASE CreateMissingBucket
    <3>1. ASSUME NEW n \in mk \ {NoName}, NEW a, Send([op |-> "put", b |-> n], a)
          PROVE  Lost(b)
      <4>1. [op |-> "put", b |-> n] \in Request
        BY <2>0 DEF Request, BucketTypeOK, Names
      <4> QED
        BY <2>9, <3>1, <4>1
    <3> QED
      BY <2>1, <2>14, <3>1 DEF CreateMissingBucket
  <2>15. CASE DeleteExtraBucket
    <3>1. ASSUME NEW n \in rm, NEW a, Send([op |-> "delete", b |-> n], a) PROVE Lost(b)
      <4>1. n \in Buckets /\ AsksRemoval(cmd, n)
        BY <2>0, <2>15 DEF BucketTypeOK, BucketControl, DeleteExtraBucket, AsksRemoval
      <4> QED
        BY <2>11, <3>1, <4>1
    <3> QED
      BY <2>1, <2>15, <3>1 DEF DeleteExtraBucket
  <2>16. ASSUME NEW r \in late, LateRequest(r) PROVE Lost(b)
    <3>1. /\ r \in Request
          /\ r.op = "delete" => r = [op |-> "delete", b |-> r.b]
          /\ r.op = "delObj" => r.o \in Objects /\ r = [op |-> "delObj", b |-> r.b, o |-> r.o]
      BY <2>0 DEF BucketTypeOK, Request
    <3>2. CASE bkt' = bkt
      BY <2>1, <3>2
    <3>3. CASE Accepts(bkt[r.b], r) /\ Apply(r)
      <4>1. CASE r.op = "delObj" /\ b = r.b
        BY <2>5, <3>1, <4>1
      <4>2. CASE r.op = "delete" /\ b = r.b /\ ~bkt'[b].made
        BY <2>3, <3>1, <4>2
      <4> QED
        BY <2>2, <3>1, <3>3, <4>1, <4>2, ApplyObjects
    <3> QED
      BY <2>16, <3>2, <3>3 DEF LateRequest
  <2>17. ASSUME NEW c \in Buckets, Client(c) PROVE Lost(b)
    <3>1. CASE b = c
      BY <2>6, <2>17, <3>1
    <3>2. CASE b # c
      <4>1. bkt'[b] = bkt[b]
        BY <2>0, <2>17, <3>2, ClientKeepsLock DEF Client
      <4> QED
        BY <2>2, <4>1
    <3> QED
      BY <3>1, <3>2
  <2> QED
    BY <2>7, <2>8, <2>10, <2>12, <2>13, <2>14, <2>15, <2>16, <2>17 DEF Next, AgentStep
<1> QED
  BY <1>1, BucketInvariance, PTL DEF Spec, ObjectsGoAsAsked

-----------------------------------------------------------------------------
(* Commands nothing disturbs.                                                 *)

\* A request of an undisturbed command is answered for what it is: 2xx when the
\* gateway carries it out, a refusal when it cannot.
LEMMA SendClean ==
    ASSUME BucketTypeOK, NEW r \in Request, NEW a, Send(r, a), clean'
    PROVE  /\ clean /\ late' = late
           /\ \/ /\ a = "ok" /\ Accepts(bkt[r.b], r)
                 /\ bkt'[r.b] = After(bkt[r.b], r)
              \/ /\ ~Accepts(bkt[r.b], r) /\ bkt' = bkt
                 /\ IF r.op \in {"put", "wormPut"} THEN a \in {"ok", "conflict"}
                    ELSE a = "refused"
<1>1. r.b \in Buckets
  BY DEF Request
<1> QED
  BY <1>1, SendCases DEF Apply, BucketTypeOK

\* In a step of a command that stays undisturbed, it was undisturbed before,
\* nothing new is under way and no other actor touched its bucket.
LEMMA CleanStep ==
    ASSUME BucketInv, CleanHasNoLate, Next, clean', ~\E c \in Command : Dispatch(c)
    PROVE  /\ clean /\ late' \subseteq late /\ UNCHANGED <<cmd, start>>
           /\ \/ AgentStep
              \/ /\ UNCHANGED <<pc, status, todo>>
                 /\ cmd.name \in Buckets => bkt'[cmd.name] = bkt[cmd.name]
<1>0. BucketTypeOK /\ BucketControl
  BY DEF BucketInv
<1>1. ASSUME NEW r \in Request, NEW a, Send(r, a) PROVE clean /\ late' = late
  BY <1>0, <1>1, SendClean
<1>2. CASE Reply \/ Crash
  BY <1>2 DEF Reply, Crash, DropLocals
<1>3. CASE CreateBucket \/ UpdateBucket \/ CreateWORMBucket \/ putObjectLock \/ DeleteBucket
  <2>1. cmd.name \in Buckets
    BY <1>0, <1>3 DEF BucketControl, CreateBucket, UpdateBucket, CreateWORMBucket,
                      putObjectLock, DeleteBucket
  <2>2. pc = "objectLock" => cmd.arg \in Rules
    BY <1>0 DEF BucketControl
  <2>3. \E r \in Request : \E a : Send(r, a)
    <3>1. /\ [op |-> "put", b |-> cmd.name] \in Request
          /\ [op |-> "life", b |-> cmd.name] \in Request
          /\ [op |-> "wormPut", b |-> cmd.name] \in Request
          /\ [op |-> "delete", b |-> cmd.name] \in Request
          /\ pc = "objectLock" => [op |-> "lock", b |-> cmd.name, rule |-> cmd.arg] \in Request
      BY <2>1, <2>2 DEF Request
    <3>2. CASE putObjectLock
      <4>1. pc = "objectLock"
             /\ \E a \in {"ok", "refused", "none"} :
                   Send([op |-> "lock", b |-> cmd.name, rule |-> cmd.arg], a)
        BY <3>2 DEF putObjectLock
      <4> QED
        BY <3>1, <4>1
    <3> QED
      BY <1>3, <3>1, <3>2 DEF CreateBucket, UpdateBucket, CreateWORMBucket, DeleteBucket
  <2>4. UNCHANGED <<cmd, start>>
    BY <1>3 DEF CreateBucket, UpdateBucket, CreateWORMBucket, putObjectLock, DeleteBucket
  <2> QED
    BY <1>1, <1>3, <2>3, <2>4 DEF AgentStep
<1>4. CASE ListObjects
  BY <1>4 DEF ListObjects, AgentStep
<1>5. CASE ListBuckets
  BY <1>5 DEF ListBuckets, AgentStep
<1>6. CASE DeleteObject
  <2>1. cmd.name \in Buckets
    BY <1>0, <1>6 DEF BucketControl, DeleteObject
  <2>2. \A o \in todo : [op |-> "delObj", b |-> cmd.name, o |-> o] \in Request
    BY <1>0, <2>1 DEF Request, BucketTypeOK
  <2> QED
    BY <1>1, <1>6, <2>2 DEF DeleteObject, AgentStep
<1>7. CASE CreateMissingBucket
  <2>1. \A n \in mk \ {NoName} : [op |-> "put", b |-> n] \in Request
    BY <1>0 DEF Request, BucketTypeOK, Names
  <2> QED
    BY <1>1, <1>7, <2>1 DEF CreateMissingBucket, AgentStep
<1>8. CASE DeleteExtraBucket
  <2>1. \A n \in rm : [op |-> "delete", b |-> n] \in Request
    BY <1>0 DEF Request, BucketTypeOK
  <2> QED
    BY <1>1, <1>8, <2>1 DEF DeleteExtraBucket, AgentStep
<1>9. ASSUME NEW r \in late, LateRequest(r)
      PROVE  /\ clean /\ late' \subseteq late /\ UNCHANGED <<cmd, start, pc, status, todo>>
             /\ cmd.name \in Buckets => bkt'[cmd.name] = bkt[cmd.name]
  <2>1. clean /\ late' \subseteq late /\ UNCHANGED <<cmd, start, pc, status, todo>>
    BY <1>9 DEF LateRequest
  <2>2. r.b # cmd.name
    BY <2>1 DEF CleanHasNoLate
  <2>3. cmd.name \in Buckets => bkt'[cmd.name] = bkt[cmd.name]
    BY <1>0, <1>9, <2>2 DEF LateRequest, Apply, BucketTypeOK
  <2> QED
    BY <2>1, <2>3
<1>10. ASSUME NEW b \in Buckets, Client(b)
       PROVE  /\ clean /\ late' \subseteq late /\ UNCHANGED <<cmd, start, pc, status, todo>>
              /\ cmd.name \in Buckets => bkt'[cmd.name] = bkt[cmd.name]
  <2>1. clean /\ b # cmd.name /\ late' \subseteq late /\ UNCHANGED <<cmd, start, pc, status, todo>>
    BY <1>10 DEF Client
  <2>2. cmd.name \in Buckets => bkt'[cmd.name] = bkt[cmd.name]
    BY <1>0, <1>10, <2>1, ClientKeepsLock DEF Client
  <2> QED
    BY <2>1, <2>2
<1> QED
  BY <1>2, <1>3, <1>4, <1>5, <1>6, <1>7, <1>8, <1>9, <1>10 DEF Next, AgentStep

\* While a command is undisturbed no late request concerns its bucket.
LEMMA NoLate == Spec => []CleanHasNoLate
<1>1. Init => CleanHasNoLate
  BY DEF Init, CleanHasNoLate
<1>2. BucketInv /\ CleanHasNoLate /\ [Next]_vars => CleanHasNoLate'
  <2> SUFFICES ASSUME BucketInv, CleanHasNoLate, [Next]_vars, clean', NEW r \in late'
               PROVE  (r.b # cmd.name)'
    BY DEF CleanHasNoLate
  <2>1. CASE UNCHANGED vars
    BY <2>1 DEF vars, CleanHasNoLate
  <2>2. CASE \E c \in Command : Dispatch(c)
    BY <2>2 DEF Dispatch
  <2>3. CASE Next /\ ~\E c \in Command : Dispatch(c)
    BY <2>3, CleanStep DEF CleanHasNoLate
  <2> QED
    BY <2>1, <2>2, <2>3
<1> QED
  BY <1>1, <1>2, BucketInvariance, PTL DEF Spec

\* Each step of an undisturbed worm_bucket_create keeps it on its way.
LEMMA RepairStep ==
    ASSUME BucketInv, CleanHasNoLate, RepairOnTrack, [Next]_vars
    PROVE  RepairOnTrack'
<1>0. BucketTypeOK /\ BucketControl
  BY DEF BucketInv
<1>1. CASE UNCHANGED vars
  BY <1>1 DEF vars, RepairOnTrack, Repairing
<1>2. ASSUME NEW c \in Command, Dispatch(c), Repairing' PROVE RepairOnTrack'
  <2>1. cmd' = c /\ c.op = "worm_bucket_create" /\ c.name \in Buckets /\ c.arg \in Rules
    BY <1>2 DEF Dispatch, Repairing
  <2>2. ~Invalid(c) /\ FirstStep(c) = "wormCreate"
    BY <2>1 DEF Invalid, FirstStep
  <2>3. pc' = "wormCreate" /\ bkt' = bkt /\ start' = bkt[c.name]
    BY <1>2, <2>1, <2>2 DEF Dispatch, Goto
  <2>4. start'.made => start'.locked
    BY <1>2 DEF Repairing
  <2> QED
    BY <2>1, <2>3, <2>4 DEF RepairOnTrack
<1>3. CASE Next /\ (~\E c \in Command : Dispatch(c)) /\ Repairing'
  <2>1. clean'
    BY <1>3 DEF Repairing
  <2>2. clean /\ UNCHANGED <<cmd, start>>
    BY <1>3, <2>1, CleanStep
  <2>3. Repairing
    BY <1>3, <2>2 DEF Repairing
  <2>4. cmd.op = "worm_bucket_create" /\ cmd.name \in Buckets /\ bkt[cmd.name] \in BucketState
    BY <1>0, <2>3 DEF Repairing, BucketTypeOK
  <2>5. CASE CreateWORMBucket
    <3> DEFINE r == [op |-> "wormPut", b |-> cmd.name]
    <3>1. PICK a \in {"ok", "conflict", "refused", "none"} :
             /\ Send(r, a)
             /\ IF GoesOn(a) THEN Goto("objectLock") /\ UNCHANGED status ELSE Finish("failed")
      BY <2>5 DEF CreateWORMBucket
    <3>2. r \in Request /\ r.op = "wormPut" /\ r.b = cmd.name
      BY <2>4 DEF Request
    <3>3. \/ a = "ok" /\ Accepts(bkt[cmd.name], r) /\ bkt'[cmd.name] = After(bkt[cmd.name], r)
          \/ a \in {"ok", "conflict"} /\ ~Accepts(bkt[cmd.name], r) /\ bkt' = bkt
      BY <1>0, <2>1, <3>1, <3>2, SendClean
    <3>4. pc' = "objectLock"
      BY <3>1, <3>3 DEF GoesOn, Goto
    <3>5. pc = "wormCreate" /\ (bkt[cmd.name].made => bkt[cmd.name].locked)
      BY <2>3, <2>5 DEF RepairOnTrack, CreateWORMBucket
    <3>6. Accepts(bkt[cmd.name], r) => After(bkt[cmd.name], r) = Fresh(TRUE)
      BY <3>2, AfterCases
    <3>7. ~Accepts(bkt[cmd.name], r) => bkt[cmd.name].made
      BY <3>2 DEF Accepts
    <3>8. bkt'[cmd.name].made /\ bkt'[cmd.name].locked
      BY <3>3, <3>5, <3>6, <3>7 DEF Fresh
    <3> QED
      BY <2>2, <3>4, <3>8 DEF RepairOnTrack
  <2>6. CASE putObjectLock
    <3> DEFINE r == [op |-> "lock", b |-> cmd.name, rule |-> cmd.arg]
    <3>1. PICK a \in {"ok", "refused", "none"} :
             /\ Send(r, a)
             /\ Finish(IF LockSet(a) THEN "completed" ELSE "failed")
      BY <2>6 DEF putObjectLock
    <3>2. r \in Request /\ r.op = "lock" /\ r.b = cmd.name
      BY <2>3, <2>4 DEF Request, Repairing
    <3>3. bkt[cmd.name].made /\ bkt[cmd.name].locked
      BY <2>3, <2>6 DEF RepairOnTrack, putObjectLock
    <3>4. Accepts(bkt[cmd.name], r)
      BY <3>2, <3>3 DEF Accepts
    <3>5. a = "ok"
      BY <1>0, <2>1, <3>1, <3>2, <3>4, SendClean
    <3>6. pc' = "reply" /\ status' = "completed"
      BY <3>1, <3>5 DEF LockSet, Finish, Goto
    <3> QED
      BY <3>6 DEF RepairOnTrack
  <2>7. CASE UNCHANGED <<pc, status>> /\ bkt'[cmd.name] = bkt[cmd.name]
    BY <2>2, <2>3, <2>7 DEF RepairOnTrack
  <2>8. CASE AgentStep /\ ~CreateWORMBucket /\ ~putObjectLock
    <3>1. Reply
      BY <1>0, <2>4, <2>8 DEF AgentStep, BucketControl, CreateBucket, UpdateBucket, ListObjects,
         DeleteObject, DeleteBucket, ListBuckets, CreateMissingBucket, DeleteExtraBucket
    <3> QED
      BY <2>1, <3>1 DEF Reply, DropLocals
  <2> QED
    BY <1>3, <2>1, <2>4, <2>5, <2>6, <2>7, <2>8, CleanStep
<1>4. CASE ~Repairing'
  BY <1>4 DEF RepairOnTrack
<1> QED
  BY <1>1, <1>2, <1>3, <1>4

\* An undisturbed worm_bucket_create on a bucket that is missing or was left
\* with Object Lock by an earlier attempt always completes: the 409 of the
\* first request does not stop CreateWORMBucket, and the retention request
\* then finds a bucket that takes it.
THEOREM WormCreateRepairsAlways == Spec => []WormCreateRepairs
<1>1. Init => RepairOnTrack
  BY DEF Init, RepairOnTrack, Repairing
<1>2. BucketInv /\ CleanHasNoLate /\ RepairOnTrack /\ [Next]_vars => RepairOnTrack'
  BY RepairStep
<1>3. RepairOnTrack => WormCreateRepairs
  BY DEF RepairOnTrack, Repairing, WormCreateRepairs
<1> QED
  BY <1>1, <1>2, <1>3, BucketInvariance, NoLate, PTL DEF Spec

\* The last requests of a forced delete: an object or the bucket.
LEMMA EmptyObject ==
    ASSUME BucketInv, Emptying, EmptyingOnTrack, DeleteObject, clean',
           UNCHANGED <<cmd, start>>
    PROVE  EmptyingOnTrack'
<1> DEFINE P == Page(start.objs)
           n == cmd.name
<1>0. BucketTypeOK /\ n \in Buckets /\ pc = "empty" /\ bkt[n] \in BucketState
  BY DEF BucketInv, BucketTypeOK, BucketControl, DeleteObject
<1>1. /\ bkt[n].made /\ bkt[n].held = start.held /\ todo \subseteq P
      /\ bkt[n].objs = Left(P \ todo)
  BY <1>0 DEF EmptyingOnTrack
<1>2. CASE AllAsked(todo) /\ Goto(Emptied(bkt[cmd.name].objs)) /\ bkt' = bkt
  <2>1. pc' = "delete" /\ todo = {}
    BY <1>2 DEF AllAsked, Emptied, Goto
  <2>2. P \ todo = P
    BY <2>1
  <2> QED
    BY <1>0, <1>1, <1>2, <2>1, <2>2 DEF EmptyingOnTrack, Left
<1>3. ASSUME NEW o \in todo, NEW a \in {"ok", "refused", "none"},
             Send([op |-> "delObj", b |-> n, o |-> o], a),
             todo' = todo \ {o},
             IF a = "none" THEN Finish("failed") ELSE UNCHANGED <<pc, status>>
      PROVE  EmptyingOnTrack'
  <2> DEFINE r == [op |-> "delObj", b |-> n, o |-> o]
  <2>1. r \in Request /\ r.op = "delObj" /\ r.b = n /\ r.o = o
    BY <1>0 DEF Request, BucketTypeOK
  <2>2. \/ a = "ok" /\ Accepts(bkt[n], r) /\ bkt'[n] = After(bkt[n], r)
        \/ a = "refused" /\ ~Accepts(bkt[n], r) /\ bkt' = bkt
    BY <1>0, <1>3, <2>1, SendClean
  <2>3. pc' = "empty" /\ todo' \subseteq P
    BY <1>0, <1>1, <1>3, <2>2
  <2>4. /\ bkt'[n].made /\ bkt'[n].held = bkt[n].held
        /\ bkt'[n].objs = IF o \in bkt[n].objs \ bkt[n].held THEN bkt[n].objs \ {o} ELSE bkt[n].objs
    <3>1. CASE Accepts(bkt[n], r)
      <4>1. o \in bkt[n].objs \ bkt[n].held /\ After(bkt[n], r) = [bkt[n] EXCEPT !.objs = bkt[n].objs \ {o}]
        BY <2>1, <3>1, AfterCases
      <4>2. bkt'[n] = [bkt[n] EXCEPT !.objs = bkt[n].objs \ {o}]
        BY <2>2, <3>1, <4>1
      <4> QED
        BY <1>0, <1>1, <4>1, <4>2 DEF BucketState
    <3>2. CASE ~Accepts(bkt[n], r)
      BY <1>1, <2>1, <2>2, <3>2 DEF Accepts
    <3> QED
      BY <3>1, <3>2
  <2>5. bkt'[n].objs = Left(P \ todo')
    BY <1>1, <1>3, <2>4 DEF Left
  <2> HIDE DEF P
  <2>6. P = Page(start'.objs) /\ n = cmd'.name /\ start' = start
    BY DEF P
  <2> QED
    BY <1>0, <1>1, <2>3, <2>4, <2>5, <2>6 DEF EmptyingOnTrack, Left
<1> QED
  BY <1>2, <1>3 DEF DeleteObject

\* The DELETE of the bucket at the end of an undisturbed forced delete.
LEMMA EmptyBucket ==
    ASSUME BucketInv, Emptying, EmptyingOnTrack, DeleteBucket, clean',
           UNCHANGED <<cmd, start>>
    PROVE  EmptyingOnTrack'
<1> DEFINE n == cmd.name
           r == [op |-> "delete", b |-> n]
<1>0. BucketTypeOK /\ n \in Buckets /\ pc = "delete"
  BY DEF BucketInv, BucketTypeOK, BucketControl, DeleteBucket
<1>1. /\ bkt[n].made /\ bkt[n].held = start.held
      /\ bkt[n].objs = Left(Page(start.objs))
  BY <1>0 DEF EmptyingOnTrack
<1>2. PICK a \in {"ok", "refused", "none"} :
         Send(r, a) /\ Finish(IF a = "ok" THEN "completed" ELSE "failed")
  BY DEF DeleteBucket
<1>3. r \in Request /\ r.op = "delete" /\ r.b = n
  BY <1>0 DEF Request
<1>4. \/ a = "ok" /\ Accepts(bkt[n], r) /\ bkt'[n] = After(bkt[n], r)
      \/ a = "refused" /\ ~Accepts(bkt[n], r) /\ bkt' = bkt
  BY <1>0, <1>2, <1>3, SendClean
<1>5. Accepts(bkt[n], r) <=> Kept([start EXCEPT !.objs = Left(Page(start.objs))]) = {}
  <2>1. start \in BucketState
    BY <1>0 DEF BucketTypeOK
  <2>2. Kept(bkt[n]) = Kept([start EXCEPT !.objs = Left(Page(start.objs))])
    BY <1>1, <2>1 DEF Kept, BucketState
  <2> QED
    BY <1>1, <1>3, <2>2 DEF Accepts
<1>6. Accepts(bkt[n], r) => After(bkt[n], r) = Absent
  BY <1>3, AfterCases
<1>7. ~Absent.made
  BY DEF Absent, Fresh
<1>8. pc' = "reply" /\ status' = IF a = "ok" THEN "completed" ELSE "failed"
  BY <1>2 DEF Finish, Goto
<1>9. EmptyingOutcome'
  BY <1>1, <1>4, <1>5, <1>6, <1>7, <1>8 DEF EmptyingOutcome, Left, Kept
<1> QED
  BY <1>0, <1>8, <1>9 DEF EmptyingOnTrack

\* Each step of an undisturbed forced delete keeps it on its way.
LEMMA EmptyingStep ==
    ASSUME BucketInv, CleanHasNoLate, EmptyingOnTrack, [Next]_vars
    PROVE  EmptyingOnTrack'
<1>0. BucketTypeOK /\ BucketControl
  BY DEF BucketInv
<1>1. CASE UNCHANGED vars
  BY <1>1 DEF vars, EmptyingOnTrack, EmptyingOutcome, Emptying, Left, Kept
<1>2. ASSUME NEW c \in Command, Dispatch(c), Emptying' PROVE EmptyingOnTrack'
  <2>1. cmd' = c /\ c.op = "bucket_delete" /\ c.arg = TRUE /\ start'.made /\ bkt' = bkt
    BY <1>2 DEF Dispatch, Emptying
  <2>2. c.name \in Buckets /\ start' = bkt[c.name]
    <3>1. ~Absent.made
      BY DEF Absent, Fresh
    <3> QED
      BY <1>2, <2>1, <3>1, CommandFields DEF Dispatch, Names
  <2>3. ~Invalid(c) /\ FirstStep(c) = "list"
    BY <2>1, <2>2 DEF Invalid, FirstStep, DeleteStep, WormOps
  <2>4. pc' = "list"
    BY <1>2, <2>3 DEF Dispatch, Goto
  <2> QED
    BY <2>1, <2>2, <2>4 DEF EmptyingOnTrack
<1>3. CASE Next /\ (~\E c \in Command : Dispatch(c)) /\ Emptying'
  <2>1. clean'
    BY <1>3 DEF Emptying
  <2>2. clean /\ UNCHANGED <<cmd, start>>
    BY <1>3, <2>1, CleanStep
  <2>3. Emptying
    BY <1>3, <2>2 DEF Emptying
  <2>4. cmd.op = "bucket_delete" /\ start.made
    BY <2>3 DEF Emptying
  <2>5. CASE ListObjects
    <3>1. cmd.name \in Buckets /\ pc = "list"
      BY <1>0, <2>5 DEF BucketControl, ListObjects
    <3>2. /\ bkt[cmd.name].made /\ bkt[cmd.name].held = start.held
          /\ bkt[cmd.name].objs = start.objs
      BY <2>3, <3>1 DEF EmptyingOnTrack
    <3>3. pc' = "empty" /\ todo' = Page(bkt[cmd.name].objs) /\ bkt' = bkt
      BY <2>1, <2>5 DEF ListObjects, Goto
    <3>4. start.objs = Left(Page(start.objs) \ todo')
      BY <3>2, <3>3 DEF Left
    <3> QED
      BY <2>2, <3>1, <3>2, <3>3, <3>4 DEF EmptyingOnTrack, Left
  <2>6. CASE DeleteObject
    BY <2>1, <2>2, <2>3, <2>6, EmptyObject
  <2>7. CASE DeleteBucket
    BY <2>1, <2>2, <2>3, <2>7, EmptyBucket
  <2>8. CASE UNCHANGED <<pc, status, todo>> /\ (cmd.name \in Buckets => bkt'[cmd.name] = bkt[cmd.name])
    BY <2>2, <2>3, <2>8 DEF EmptyingOnTrack, EmptyingOutcome, Left, Kept
  <2>9. CASE AgentStep /\ ~ListObjects /\ ~DeleteObject /\ ~DeleteBucket
    <3>1. Reply
      BY <1>0, <2>4, <2>9 DEF AgentStep, BucketControl, WormOps, CreateBucket, UpdateBucket,
         CreateWORMBucket, putObjectLock, ListBuckets, CreateMissingBucket, DeleteExtraBucket
    <3> QED
      BY <2>1, <3>1 DEF Reply, DropLocals
  <2> QED
    BY <1>3, <2>1, <2>5, <2>6, <2>7, <2>8, <2>9, CleanStep
<1>4. CASE ~Emptying'
  BY <1>4 DEF EmptyingOnTrack
<1> QED
  BY <1>1, <1>2, <1>3, <1>4

\* An undisturbed bucket_delete with force_empty deletes exactly the objects of
\* the first page that are not retained, and then the bucket if nothing is left
\* that the gateway keeps it for; otherwise it reports a failure and has got that much further
\* (emptyBucket and the DELETE of DeleteBucket), whatever the page size.
THEOREM ForcedDeleteGetsOnAlways == Spec => []ForcedDeleteGetsOn
<1>1. Init => EmptyingOnTrack
  BY DEF Init, EmptyingOnTrack, Emptying
<1>2. BucketInv /\ CleanHasNoLate /\ EmptyingOnTrack /\ [Next]_vars => EmptyingOnTrack'
  BY EmptyingStep
<1>3. BucketTypeOK /\ EmptyingOnTrack => ForcedDeleteGetsOn
  <2> SUFFICES ASSUME BucketTypeOK, EmptyingOnTrack,
                      pc = "reply", clean, cmd.op = "bucket_delete", cmd.arg, start.made
               PROVE  EmptyingOutcome
    BY DEF ForcedDeleteGetsOn, EmptyingOutcome, Left
  <2>1. cmd \in Command
    BY DEF BucketTypeOK, None
  <2>2. cmd.arg \in BOOLEAN
    BY <2>1, CommandFields
  <2>3. cmd.arg = TRUE
    BY <2>2, Zenon
  <2>4. Emptying
    BY <2>3 DEF Emptying
  <2> QED
    BY <2>4 DEF EmptyingOnTrack
<1> QED
  BY <1>1, <1>2, <1>3, BucketInvariance, BucketTyping, NoLate, PTL DEF Spec
=============================================================================
