-------------------------- MODULE S3ControlProofs --------------------------
(* Proofs about S3Control, for any users, buckets, payloads and processes.    *)
EXTENDS S3Control, TLAPS

USE UsersAssumption, PayloadAssumption, ProcessAssumption, ConfigAssumption,
    BoundAssumption, FileAssumption

-----------------------------------------------------------------------------
(* Type correctness.                                                          *)

\* An empty file is a bag.
LEMMA EmptyType == Empty \in Bag
BY DEF Empty, Bag

\* What EnsureAdmin writes is an edit.
LEMMA SeedType == Seed \in Edit
BY DEF Seed, Edit, Identity

\* An append is an edit.
LEMMA CreateType == \A u \in Identity : Create(u) \in Edit
BY DEF Create, Edit

\* A removal is an edit.
LEMMA DeleteType == \A id \in Identity : Delete(id.name) \in Edit
BY DEF Delete, Edit, NamesOf

\* An edit of a bag of identities is one.
LEMMA EditedType ==
    ASSUME NEW e \in Edit, NEW f \in Bag
    PROVE  Edited(e, f) \in Bag
<1>1. CASE e \in [op : {"seed", "create"}, id : Identity]
  BY <1>1 DEF Edited, Bag
<1>2. CASE e \in [op : {"delete"}, name : NamesOf(Identity)]
  BY <1>2 DEF Edited, Bag
<1> QED
  BY <1>1, <1>2 DEF Edit

\* The desired state of a scoped reconcile is a payload.
LEMMA ScopedType ==
    ASSUME lastDesired \in Payloads, NEW scope
    PROVE  Scoped(scope) \in Payload
<1>1. lastDesired \in [buckets : SUBSET Buckets, iam : SUBSET Users]
  BY DEF Payload
<1> QED
  BY <1>1 DEF Scoped, Payload

\* The identities to delete make a bag.
LEMMA ExtraIdentitiesType ==
    ASSUME file \in Bag
    PROVE  ExtraIdentities \in Bag
BY DEF ExtraIdentities, Bag

\* Every command carries an argument of its kind.
LEMMA CommandArgs ==
    ASSUME NEW c \in Command
    PROVE  /\ c.op = "full_sync" => c.arg \in Payloads
           /\ c.op = "iam_create" => c.arg \in Users
           /\ c.op = "iam_delete" => c.arg \in NamesOf(Identity)
           /\ c.op \in BucketOps => c.arg \in Buckets
BY DEF Command, BucketOps

\* The types hold at the start.
LEMMA S3Init == Init => TypeOK
<1> SUFFICES ASSUME Init PROVE TypeOK
  OBVIOUS
<1>1. errs \in BOOLEAN /\ debt \in BOOLEAN
  BY Zenon DEF Init
<1>2. cmd \in Command
  BY DEF Init, Command, Boot
<1>3. want \in Payload
  BY DEF Init, Nothing, Payload
<1>4. pc \in [Procs -> AgentLabels] /\ \A p \in Ctls : pc[p] \in CtlLabels
  BY DEF Init, AgentLabels, CtlLabels, Procs
<1>5. edit \in [Procs -> Edit] /\ buf \in [Procs -> Bag]
  BY SeedType, EmptyType DEF Init
<1> QED
  BY <1>1, <1>2, <1>3, <1>4, <1>5, EmptyType DEF Init, TypeOK

\* Where the processes are: the part of the type invariant every step touches.
PcOK ==
    /\ pc \in [Procs -> AgentLabels]
    /\ \A p \in Ctls : pc[p] \in CtlLabels

\* Moving on within a program.
LEMMA GotoType ==
    ASSUME PcOK, NEW p \in Procs, NEW l \in AgentLabels, p = Agent \/ l \in CtlLabels,
           Goto(p, l)
    PROVE  PcOK'
BY DEF PcOK, Goto, Procs

\* Ending a command.
LEMMA FinishType ==
    ASSUME PcOK, NEW s, Finish(s)
    PROVE  PcOK' /\ status' = s
<1>1. "reply" \in AgentLabels /\ Agent \in Procs
  BY DEF AgentLabels, Procs
<1> QED
  BY <1>1, GotoType DEF Finish

\* Collecting an error.
LEMMA CollectType ==
    ASSUME NEW ok
    PROVE  Collect(ok) \in BOOLEAN
BY Zenon DEF Collect

\* What a return from an edit of s3.json leaves of the variables it writes.
LEMMA ReturnType ==
    ASSUME TypeOK, NEW p \in Procs, NEW ok \in BOOLEAN, Return(p, ok)
    PROVE  /\ PcOK'
           /\ edit' \in [Procs -> Edit]
           /\ errs' \in BOOLEAN
           /\ status' \in {"none", "completed", "failed", "rejected"}
<1>0. PcOK
  BY DEF TypeOK, PcOK
<1>1. edit' \in [Procs -> Edit]
  BY SeedType DEF Return, TypeOK
<1>2. CASE p \in Ctls \/ cmd.op = "boot"
  <2>1. Goto(p, "idle") /\ UNCHANGED <<errs, status>>
    BY <1>2 DEF Return
  <2>2. "idle" \in AgentLabels /\ "idle" \in CtlLabels
    BY DEF AgentLabels, CtlLabels
  <2>3. PcOK'
    BY <1>0, <2>1, <2>2, GotoType
  <2> QED
    BY <1>1, <2>1, <2>3 DEF TypeOK
<1>3. CASE ~(p \in Ctls \/ cmd.op = "boot") /\ cmd.op \in SyncOps
  <2>1. p = Agent /\ errs' = Collect(ok) /\ UNCHANGED status
    BY <1>3 DEF Return, Procs
  <2>2. \E l \in {"addIAM", "delIAM"} : Goto(p, l)
    BY <1>3 DEF Return
  <2>3. PcOK'
    BY <1>0, <2>1, <2>2, GotoType DEF AgentLabels
  <2> QED
    BY <1>1, <2>1, <2>3, CollectType DEF TypeOK
<1>4. CASE ~(p \in Ctls \/ cmd.op = "boot") /\ cmd.op \notin SyncOps
  <2>1. \E r \in {"completed", "failed"} : Finish(r)
    BY <1>4 DEF Return
  <2>2. UNCHANGED errs
    BY <1>4 DEF Return
  <2> QED
    BY <1>0, <1>1, <2>1, <2>2, FinishType DEF TypeOK
<1> QED
  BY <1>2, <1>3, <1>4

\* The agent takes a command.
LEMMA DispatchType ==
    ASSUME TypeOK, NEW c \in Command,
           \/ DispatchRejected(c) \/ DispatchBucket(c) \/ DispatchIam(c)
           \/ DispatchFullSync(c) \/ DispatchReconcile(c)
    PROVE  TypeOK'
<1>0. PcOK /\ Agent \in Procs
  BY DEF TypeOK, PcOK, Procs
<1>1. Receive(c)
  BY DEF DispatchRejected, DispatchBucket, DispatchIam, DispatchFullSync, DispatchReconcile
<1>2. cmd' \in Command /\ errs' \in BOOLEAN /\ cmds' \in Nat
  <2>1. errs' \in BOOLEAN
    BY <1>1, Zenon DEF Receive
  <2> QED
    BY <1>1, <2>1 DEF Receive, TypeOK
<1>3. PcOK' /\ status' \in {"none", "completed", "failed", "rejected"}
  <2>1. CASE \E r \in {"failed", "rejected"} : Finish(r)
    BY <1>0, <2>1, FinishType
  <2>2. CASE UNCHANGED status /\ \E l \in {"bucketOp", "read", "listBuckets"} : Goto(Agent, l)
    BY <1>0, <2>2, GotoType DEF AgentLabels, TypeOK
  <2> QED
    BY <2>1, <2>2 DEF DispatchRejected, DispatchBucket, DispatchIam, DispatchFullSync,
                      DispatchReconcile
<1>4. edit' \in [Procs -> Edit]
  <2>1. ASSUME DispatchIam(c) PROVE edit' \in [Procs -> Edit]
    <3>1. c.op = "iam_create" => Create(c.arg) \in Edit
      BY CommandArgs, CreateType DEF Identity
    <3>2. c.op # "iam_create" => c.arg \in NamesOf(Identity)
      BY <2>1, CommandArgs DEF DispatchIam, IamOps, NamesOf, Identity
    <3>3. c.op # "iam_create" => Delete(c.arg) \in Edit
      BY <3>2 DEF Delete, Edit
    <3> QED
      BY <2>1, <3>1, <3>3 DEF DispatchIam, TypeOK
  <2> QED
    BY <2>1 DEF DispatchRejected, DispatchBucket, DispatchFullSync, DispatchReconcile, TypeOK
<1>5. want' \in Payload /\ lastDesired' \in Payloads \union {NoPayload}
  <2>1. ASSUME DispatchFullSync(c) PROVE <1>5!1 /\ <1>5!2
    <3>1. c.arg \in Payloads
      BY <2>1, CommandArgs DEF DispatchFullSync
    <3> QED
      BY <2>1, <3>1, PayloadAssumption DEF DispatchFullSync, TypeOK
  <2>2. ASSUME DispatchReconcile(c) PROVE <1>5!1 /\ <1>5!2
    BY <2>2, ScopedType DEF DispatchReconcile, TypeOK
  <2> QED
    BY <2>1, <2>2 DEF DispatchRejected, DispatchBucket, DispatchIam, TypeOK
<1>6. UNCHANGED <<file, loaded, gw, buckets, buf, mk, rm, add, del, ctlOps, upsets,
                  debt, touched, overtaken, settled>>
  BY DEF DispatchRejected, DispatchBucket, DispatchIam, DispatchFullSync, DispatchReconcile,
         store
<1> QED
  BY <1>2, <1>3, <1>4, <1>5, <1>6 DEF TypeOK, PcOK

\* Read, edit, write and reload of s3.json.
LEMMA IamStepType ==
    ASSUME TypeOK, NEW p \in Procs, IamStep(p)
    PROVE  TypeOK'
<1>0. PcOK
  BY DEF TypeOK, PcOK
<1>1. /\ PcOK'
      /\ edit' \in [Procs -> Edit]
      /\ errs' \in BOOLEAN
      /\ status' \in {"none", "completed", "failed", "rejected"}
  <2>1. CASE \E ok \in BOOLEAN : Return(p, ok)
    BY <2>1, ReturnType
  <2>2. CASE UNCHANGED <<edit, errs, status>> /\ \E l \in {"write", "reload"} : Goto(p, l)
    <3>1. PcOK'
      BY <1>0, <2>2, GotoType DEF AgentLabels, CtlLabels
    <3> QED
      BY <2>2, <3>1 DEF TypeOK
  <2> QED
    BY <2>1, <2>2 DEF IamStep, readIAM, writeIAM, reloadWeedS3, Written
<1>2. CASE readIAM(p)
  <2>1. Edited(edit[p], file) \in Bag
    BY EditedType DEF TypeOK
  <2>2. buf' \in [Procs -> Bag]
    BY <1>2, <2>1 DEF readIAM, TypeOK
  <2> QED
    BY <1>1, <1>2, <2>2 DEF readIAM, TypeOK, PcOK, store, counters
<1>3. CASE writeIAM(p)
  <2>1. buf' \in [Procs -> Bag] /\ file' \in Bag
    BY <1>3, EmptyType DEF writeIAM, TypeOK
  <2>2. overtaken' \in SUBSET Procs /\ settled' \in SUBSET Payload
    BY <1>3 DEF writeIAM, TypeOK
  <2> QED
    BY <1>1, <1>3, <2>1, <2>2 DEF writeIAM, TypeOK, PcOK, counters
<1>4. CASE reloadWeedS3(p)
  <2>1. debt' \in BOOLEAN
    BY <1>4, Zenon DEF reloadWeedS3
  <2>2. gw' \in {"up", "starting", "down"}
    BY <1>4 DEF reloadWeedS3, TypeOK
  <2> QED
    BY <1>1, <1>4, <2>1, <2>2 DEF reloadWeedS3, TypeOK, PcOK, counters
<1> QED
  BY <1>2, <1>3, <1>4 DEF IamStep

\* The steps of Reconcile and of the two bucket commands.
LEMMA SyncStepType ==
    ASSUME TypeOK,
           \/ BucketOp \/ ListBuckets \/ CreateMissingBucket \/ DeleteExtraBucket
           \/ ListActualIAM \/ CreateMissingUser \/ DeleteExtraUser
    PROVE  TypeOK'
<1>0. PcOK /\ Agent \in Procs
  BY DEF TypeOK, PcOK, Procs
<1>1. PcOK' /\ status' \in {"none", "completed", "failed", "rejected"}
  <2>1. CASE \E r \in {"completed", "failed"} : Finish(r)
    BY <1>0, <2>1, FinishType
  <2>2. CASE UNCHANGED status /\ (UNCHANGED pc \/ \E l \in AgentLabels : Goto(Agent, l))
    BY <1>0, <2>2, GotoType DEF TypeOK, PcOK
  <2> QED
    BY <2>1, <2>2 DEF BucketOp, ListBuckets, CreateMissingBucket, DeleteExtraBucket,
                      ListActualIAM, CreateMissingUser, DeleteExtraUser, AgentLabels
<1>2. errs' \in BOOLEAN
  BY CollectType DEF BucketOp, ListBuckets, CreateMissingBucket, DeleteExtraBucket,
                     ListActualIAM, CreateMissingUser, DeleteExtraUser, TypeOK, sync
<1>3. CASE BucketOp
  <2>1. buckets' \in SUBSET Buckets
    <3>1. cmd.op = "bucket_create" => cmd.arg \in Buckets
      BY CommandArgs DEF TypeOK, BucketOps
    <3> QED
      BY <1>3, <3>1 DEF BucketOp, CreateBucket, DeleteBucket, Request, TypeOK
  <2> QED
    BY <1>1, <1>2, <1>3, <2>1 DEF BucketOp, TypeOK, PcOK, sync, counters
<1>4. CASE ListBuckets
  <2>1. mk' \in SUBSET Buckets /\ rm' \in SUBSET Buckets /\ touched' \in SUBSET Buckets
    BY <1>4 DEF ListBuckets, TypeOK, Payload
  <2> QED
    BY <1>1, <1>2, <1>4, <2>1 DEF ListBuckets, TypeOK, PcOK, store, counters
<1>5. CASE CreateMissingBucket
  <2>1. buckets' \in SUBSET Buckets /\ mk' \in SUBSET Buckets /\ settled' \in SUBSET Payload
    BY <1>5 DEF CreateMissingBucket, CreateBucket, Request, TypeOK
  <2> QED
    BY <1>1, <1>2, <1>5, <2>1 DEF CreateMissingBucket, TypeOK, PcOK, counters
<1>6. CASE DeleteExtraBucket
  <2>1. buckets' \in SUBSET Buckets /\ rm' \in SUBSET Buckets /\ settled' \in SUBSET Payload
    BY <1>6 DEF DeleteExtraBucket, DeleteBucket, Request, TypeOK
  <2> QED
    BY <1>1, <1>2, <1>6, <2>1 DEF DeleteExtraBucket, TypeOK, PcOK, counters
<1>7. CASE ListActualIAM
  <2>1. add' \in SUBSET Users /\ del' \in Bag
    BY <1>7, ExtraIdentitiesType DEF ListActualIAM, MissingUsers, TypeOK, Payload
  <2> QED
    BY <1>1, <1>2, <1>7, <2>1 DEF ListActualIAM, TypeOK, PcOK, store, counters
<1>8. CASE CreateMissingUser
  <2>1. add' \in SUBSET Users /\ edit' \in [Procs -> Edit]
    BY <1>8, CreateType DEF CreateMissingUser, TypeOK, Identity
  <2> QED
    BY <1>1, <1>2, <1>8, <2>1 DEF CreateMissingUser, TypeOK, PcOK, store, counters
<1>9. CASE DeleteExtraUser
  <2>1. del' \in Bag
    BY <1>9 DEF DeleteExtraUser, Advance, Pending, TypeOK, Bag
  <2>2. edit' \in [Procs -> Edit]
    BY <1>9, DeleteType DEF DeleteExtraUser, Pending, TypeOK
  <2> QED
    BY <1>1, <1>2, <1>9, <2>1, <2>2 DEF DeleteExtraUser, TypeOK, PcOK, store, counters
<1> QED
  BY <1>3, <1>4, <1>5, <1>6, <1>7, <1>8, <1>9

\* Start, Crash and Reply.
LEMMA LifeCycleType ==
    ASSUME TypeOK, Start \/ Crash \/ Reply
    PROVE  TypeOK'
<1>0. PcOK /\ Agent \in Procs
  BY DEF TypeOK, PcOK, Procs
<1>1. PcOK'
  <2>1. \E l \in {"read", "idle", "off"} : Goto(Agent, l)
    BY DEF Start, Crash, Reply
  <2> QED
    BY <1>0, <2>1, GotoType DEF AgentLabels
<1>2. Nothing \in Payload /\ Boot \in Command
  BY DEF Nothing, Payload, Boot, Command
<1>3. CASE Start
  <2>1. edit' \in [Procs -> Edit]
    BY <1>3, SeedType DEF Start, TypeOK
  <2> QED
    BY <1>1, <1>3, <2>1 DEF Start, TypeOK, PcOK, store, sync, counters
<1>4. CASE Crash
  <2>1. edit' \in [Procs -> Edit] /\ buf' \in [Procs -> Bag]
    BY <1>4, SeedType, EmptyType DEF Crash, TypeOK
  <2>2. errs' \in BOOLEAN /\ debt' \in BOOLEAN
    BY <1>4, Zenon DEF Crash, DropLocals
  <2>3. overtaken' \in SUBSET Procs /\ upsets' \in Nat
    BY <1>4 DEF Crash, Upset, TypeOK
  <2> QED
    BY <1>1, <1>2, <1>4, <2>1, <2>2, <2>3, EmptyType
    DEF Crash, DropLocals, TypeOK, PcOK, store
<1>5. CASE Reply
  <2>1. errs' \in BOOLEAN
    BY <1>5, Zenon DEF Reply, DropLocals
  <2>2. settled' \in SUBSET Payload
    BY <1>5 DEF Reply, TypeOK
  <2> QED
    BY <1>1, <1>2, <1>5, <2>1, <2>2, EmptyType
    DEF Reply, DropLocals, TypeOK, PcOK, store, counters
<1> QED
  BY <1>3, <1>4, <1>5

\* s3dctl taking a command or being interrupted.
LEMMA CtlType ==
    ASSUME TypeOK, NEW p \in Ctls,
           \/ CtlAbort(p)
           \/ \E u \in Users : CtlIam(p, Create(u))
           \/ \E n \in NamesOf(Identity) : CtlIam(p, Delete(n))
    PROVE  TypeOK'
<1>0. PcOK /\ p \in Procs
  BY DEF TypeOK, PcOK, Procs
<1>1. PcOK'
  <2>1. \E l \in {"read", "idle"} : Goto(p, l)
    BY DEF CtlAbort, CtlIam
  <2> QED
    BY <1>0, <2>1, GotoType DEF AgentLabels, CtlLabels
<1>2. CASE CtlAbort(p)
  <2>1. edit' \in [Procs -> Edit] /\ buf' \in [Procs -> Bag]
    BY <1>2, SeedType, EmptyType DEF CtlAbort, TypeOK
  <2>2. debt' \in BOOLEAN
    BY <1>2, Zenon DEF CtlAbort
  <2>3. overtaken' \in SUBSET Procs
    BY <1>2 DEF CtlAbort, TypeOK
  <2> QED
    BY <1>1, <1>2, <2>1, <2>2, <2>3 DEF CtlAbort, TypeOK, PcOK, store, sync, counters
<1>3. ASSUME NEW e \in Edit, CtlIam(p, e) PROVE TypeOK'
  <2>1. edit' \in [Procs -> Edit]
    BY <1>3 DEF CtlIam, TypeOK
  <2>2. ctlOps' \in Nat
    BY <1>3 DEF CtlIam, TypeOK
  <2> QED
    BY <1>1, <1>3, <2>1, <2>2 DEF CtlIam, TypeOK, PcOK, store
<1>4. ASSUME NEW u \in Users, CtlIam(p, Create(u)) PROVE TypeOK'
  BY <1>3, <1>4, CreateType DEF Identity
<1>5. ASSUME NEW n \in NamesOf(Identity), CtlIam(p, Delete(n)) PROVE TypeOK'
  BY <1>3, <1>5, DeleteType DEF NamesOf
<1> QED
  BY <1>2, <1>4, <1>5

\* Steps of weed-s3 and of clients.
LEMMA OutsideType ==
    ASSUME TypeOK, Outside
    PROVE  TypeOK'
<1>1. CASE GatewayCrash \/ GatewayStart
  BY <1>1 DEF GatewayCrash, GatewayStart, Upset, TypeOK, sync, counters
<1>2. CASE GatewayLoad
  <2>1. debt' \in BOOLEAN
    BY <1>2, Zenon DEF GatewayLoad
  <2> QED
    BY <1>2, <2>1 DEF GatewayLoad, TypeOK, sync, counters
<1>3. ASSUME NEW b \in Buckets, ClientBucket(b) PROVE TypeOK'
  <2>1. buckets' \in SUBSET Buckets /\ touched' \in SUBSET Buckets /\ upsets' \in Nat
    BY <1>3 DEF ClientBucket, Upset, TypeOK
  <2> QED
    BY <1>3, <2>1 DEF ClientBucket, TypeOK, sync
<1> QED
  BY <1>1, <1>2, <1>3 DEF Outside

\* The type invariant holds in every behaviour, for any processes and inputs:
\* in particular no loop of Reconcile counts a copy below zero.
THEOREM S3Typing == Spec => []TypeOK
<1>1. TypeOK /\ [Next]_vars => TypeOK'
  <2> SUFFICES ASSUME TypeOK, [Next]_vars PROVE TypeOK'
    OBVIOUS
  <2>1. CASE Dispatch
    BY <2>1, DispatchType DEF Dispatch
  <2>2. CASE AgentStep
    <3>1. Agent \in Procs
      BY DEF Procs
    <3> QED
      BY <2>2, <3>1, LifeCycleType, SyncStepType, IamStepType DEF AgentStep
  <2>3. CASE Crash
    BY <2>3, LifeCycleType
  <2>4. ASSUME NEW p \in Ctls, CtlStep(p) PROVE TypeOK'
    <3>1. p \in Procs
      BY DEF Procs
    <3> QED
      BY <2>4, <3>1, CtlType, IamStepType DEF CtlStep
  <2>5. CASE Outside
    BY <2>5, OutsideType
  <2>6. CASE UNCHANGED vars
    BY <2>6 DEF vars, TypeOK
  <2> QED
    BY <2>1, <2>2, <2>3, <2>4, <2>5, <2>6 DEF Next
<1> QED
  BY <1>1, S3Init, PTL DEF Spec

-----------------------------------------------------------------------------
(* Every write of s3.json is followed by a restart of the gateway.            *)

\* Steps that leave the store alone and take no process away from "reload".
LEMMA StaleKept ==
    ASSUME TypeOK, StaleGatewayExplained, UNCHANGED <<file, loaded, gw, debt>>,
           \A p \in Procs : At(p, "reload") => At(p, "reload")'
    PROVE  StaleGatewayExplained'
BY DEF StaleGatewayExplained, Stale, At

\* A process that moves elsewhere is no other process at its reload.
LEMMA GotoKeepsReload ==
    ASSUME TypeOK, NEW p \in Procs, ~At(p, "reload"), NEW l, Goto(p, l)
    PROVE  \A q \in Procs : At(q, "reload") => At(q, "reload")'
BY DEF TypeOK, Goto, At

\* Return takes a process to a label other than "write".
LEMMA ReturnGoto ==
    ASSUME TypeOK, NEW p \in Procs, NEW ok, Return(p, ok)
    PROVE  /\ \E l \in {"idle", "addIAM", "delIAM", "reply"} : Goto(p, l)
           /\ edit' = [edit EXCEPT ![p] = Seed]
<1>1. CASE p \in Ctls \/ cmd.op = "boot"
  BY <1>1 DEF Return
<1>2. CASE ~(p \in Ctls \/ cmd.op = "boot") /\ cmd.op \in SyncOps
  BY <1>2 DEF Return
<1>3. CASE ~(p \in Ctls \/ cmd.op = "boot") /\ cmd.op \notin SyncOps
  <2>1. p = Agent
    BY <1>3 DEF Procs
  <2> QED
    BY <1>3, <2>1 DEF Return, Finish
<1> QED
  BY <1>1, <1>2, <1>3

\* For any number of writers of s3.json: the gateway serves an old file only
\* while a restart is owed, or a restart failed or was cut off (writeIAM is
\* always followed by reloadWeedS3).
THEOREM StaleGatewayExplainedAlways == Spec => []StaleGatewayExplained
<1>1. Init => StaleGatewayExplained
  BY DEF Init, StaleGatewayExplained, Stale
<1>2. TypeOK /\ StaleGatewayExplained /\ [Next]_vars => StaleGatewayExplained'
  <2> SUFFICES ASSUME TypeOK, StaleGatewayExplained, [Next]_vars
               PROVE  StaleGatewayExplained'
    OBVIOUS
  <2>0. Agent \in Procs /\ Ctls \subseteq Procs
    BY DEF Procs
  <2>1. CASE Dispatch
    <3>1. UNCHANGED <<file, loaded, gw, debt>> /\ ~At(Agent, "reload")
      BY <2>1 DEF Dispatch, DispatchRejected, DispatchBucket, DispatchIam, DispatchFullSync,
                  DispatchReconcile, Receive, At, store
    <3>2. \E l : Goto(Agent, l)
      BY <2>1 DEF Dispatch, DispatchRejected, DispatchBucket, DispatchIam, DispatchFullSync,
                  DispatchReconcile, Finish
    <3> QED
      BY <2>0, <3>1, <3>2, StaleKept, GotoKeepsReload
  <2>2. CASE Start \/ Reply \/ BucketOp \/ ListBuckets \/ CreateMissingBucket
             \/ DeleteExtraBucket \/ ListActualIAM \/ CreateMissingUser \/ DeleteExtraUser
    <3>1. UNCHANGED <<file, loaded, gw, debt>> /\ ~At(Agent, "reload")
      BY <2>2 DEF Start, Reply, BucketOp, ListBuckets, CreateMissingBucket,
                  DeleteExtraBucket, ListActualIAM, CreateMissingUser, DeleteExtraUser, At, store
    <3>2. UNCHANGED pc \/ \E l : Goto(Agent, l)
      BY <2>2 DEF Start, Reply, BucketOp, ListBuckets, CreateMissingBucket,
                  DeleteExtraBucket, ListActualIAM, CreateMissingUser, DeleteExtraUser, Finish
    <3>3. CASE UNCHANGED pc
      BY <3>1, <3>3, StaleKept DEF At
    <3> QED
      BY <2>0, <3>1, <3>2, <3>3, StaleKept, GotoKeepsReload
  <2>3. ASSUME NEW p \in Procs, IamStep(p) PROVE StaleGatewayExplained'
    <3>1. CASE readIAM(p)
      <4>1. UNCHANGED <<file, loaded, gw, debt>> /\ ~At(p, "reload")
        BY <3>1 DEF readIAM, At, store
      <4>2. \E l : Goto(p, l)
        BY <3>1, ReturnGoto DEF readIAM
      <4> QED
        BY <4>1, <4>2, StaleKept, GotoKeepsReload
    <3>2. CASE writeIAM(p)
      <4>1. CASE Written(p)
        BY <4>1 DEF Written, Goto, At, StaleGatewayExplained, TypeOK
      <4>2. CASE Return(p, FALSE) /\ UNCHANGED file
        <5>1. UNCHANGED <<file, loaded, gw, debt>> /\ ~At(p, "reload")
          BY <3>2, <4>2 DEF writeIAM, At
        <5>2. \E l : Goto(p, l)
          BY <4>2, ReturnGoto
        <5> QED
          BY <5>1, <5>2, StaleKept, GotoKeepsReload
      <4> QED
        BY <3>2, <4>1, <4>2 DEF writeIAM
    <3>3. CASE reloadWeedS3(p)
      BY <3>3 DEF reloadWeedS3, StaleGatewayExplained, Stale
    <3> QED
      BY <2>3, <3>1, <3>2, <3>3 DEF IamStep
  <2>4. CASE Crash
    BY <2>0, <2>4 DEF Crash, StaleGatewayExplained, Stale, At, Goto, store, TypeOK
  <2>5. ASSUME NEW p \in Ctls, CtlAbort(p) PROVE StaleGatewayExplained'
    BY <2>0, <2>5 DEF CtlAbort, StaleGatewayExplained, Stale, At, Goto, store, TypeOK
  <2>6. ASSUME NEW p \in Ctls, NEW e, CtlIam(p, e) PROVE StaleGatewayExplained'
    <3>1. UNCHANGED <<file, loaded, gw, debt>> /\ ~At(p, "reload") /\ Goto(p, "read")
      BY <2>6 DEF CtlIam, At, store
    <3> QED
      BY <2>0, <3>1, StaleKept, GotoKeepsReload
  <2>7. CASE Outside
    BY <2>7 DEF Outside, GatewayCrash, GatewayStart, GatewayLoad, ClientBucket,
                StaleGatewayExplained, Stale, At
  <2>8. CASE UNCHANGED vars
    BY <2>8 DEF vars, StaleGatewayExplained, Stale, At
  <2> QED
    BY <2>0, <2>1, <2>2, <2>3, <2>4, <2>5, <2>6, <2>7, <2>8 DEF Next, AgentStep, CtlStep
<1> QED
  BY <1>1, <1>2, S3Typing, PTL DEF Spec

-----------------------------------------------------------------------------
(* The edits of s3.json.                                                      *)

\* What a process that nobody has overtaken is about to write is its edit of
\* the file as it is now, and the edit still has something to do.
ReadIsFresh ==
    \A p \in Procs \ overtaken :
        At(p, "write") =>
            /\ buf[p] = Edited(edit[p], file)
            /\ ~Present(edit[p], file) /\ ~NotFound(edit[p], file)

\* Steps that leave the file and the writers of it alone.
LEMMA FreshKept ==
    ASSUME TypeOK, ReadIsFresh, UNCHANGED <<file, buf>>,
           overtaken \subseteq overtaken',
           \A p \in Procs : At(p, "write")' => At(p, "write") /\ edit'[p] = edit[p]
    PROVE  ReadIsFresh'
BY DEF ReadIsFresh, At, Edited, Present, NotFound

\* A step of one process, away from "write", leaves the others where they are.
LEMMA FreshGoto ==
    ASSUME TypeOK, ReadIsFresh, NEW p \in Procs, NEW l, Goto(p, l), l # "write",
           UNCHANGED file,
           buf' = buf \/ buf' = [buf EXCEPT ![p] = Empty],
           overtaken' = overtaken \/ overtaken' = overtaken \ {p},
           edit' = edit \/ \E e : edit' = [edit EXCEPT ![p] = e]
    PROVE  ReadIsFresh'
<1>1. \A q \in Procs : At(q, "write")' =>
         At(q, "write") /\ q # p /\ edit'[q] = edit[q] /\ buf'[q] = buf[q]
  BY DEF TypeOK, Goto, At
<1> QED
  BY <1>1 DEF ReadIsFresh, Edited, Present, NotFound

\* Whoever has not been overtaken writes an edit of the current file, whatever
\* the other processes did in between.
LEMMA Freshness == Spec => []ReadIsFresh
<1>0. Agent \in Procs /\ Ctls \subseteq Procs
  BY DEF Procs
<1>1. Init => ReadIsFresh
  BY DEF Init, ReadIsFresh, At
<1>2. TypeOK /\ ReadIsFresh /\ [Next]_vars => ReadIsFresh'
  <2> SUFFICES ASSUME TypeOK, ReadIsFresh, [Next]_vars PROVE ReadIsFresh'
    OBVIOUS
  <2>1. CASE Dispatch
    <3>1. UNCHANGED <<file, buf, overtaken>>
      BY <2>1 DEF Dispatch, DispatchRejected, DispatchBucket, DispatchIam, DispatchFullSync,
                  DispatchReconcile, store
    <3>2. \E l \in {"reply", "bucketOp", "read", "listBuckets"} : Goto(Agent, l)
      BY <2>1 DEF Dispatch, DispatchRejected, DispatchBucket, DispatchIam, DispatchFullSync,
                  DispatchReconcile, Finish
    <3>3. edit' = edit \/ \E e : edit' = [edit EXCEPT ![Agent] = e]
      BY <2>1 DEF Dispatch, DispatchRejected, DispatchBucket, DispatchIam, DispatchFullSync,
                  DispatchReconcile
    <3> QED
      BY <1>0, <3>1, <3>2, <3>3, FreshGoto
  <2>2. CASE Start \/ Crash \/ Reply \/ BucketOp \/ ListBuckets \/ CreateMissingBucket
             \/ DeleteExtraBucket \/ ListActualIAM \/ CreateMissingUser \/ DeleteExtraUser
    <3> USE DEF Start, Crash, Reply, BucketOp, ListBuckets, CreateMissingBucket,
                DeleteExtraBucket, ListActualIAM, CreateMissingUser, DeleteExtraUser
    <3>1. /\ UNCHANGED file
          /\ buf' = buf \/ buf' = [buf EXCEPT ![Agent] = Empty]
          /\ overtaken' = overtaken \/ overtaken' = overtaken \ {Agent}
      BY <2>2 DEF store
    <3>2. edit' = edit \/ \E e : edit' = [edit EXCEPT ![Agent] = e]
      BY <2>2
    <3>3. UNCHANGED <<pc, edit, buf, overtaken>>
          \/ \E l \in AgentLabels \ {"write"} : Goto(Agent, l)
      BY <2>2 DEF Finish, AgentLabels
    <3>4. CASE UNCHANGED <<pc, edit, buf, overtaken>>
      BY <3>1, <3>4, FreshKept DEF At
    <3>5. CASE \E l \in AgentLabels \ {"write"} : Goto(Agent, l)
      BY <1>0, <3>1, <3>2, <3>5, FreshGoto
    <3> QED
      BY <3>3, <3>4, <3>5
  <2>3. ASSUME NEW p \in Procs, readIAM(p) PROVE ReadIsFresh'
    <3>1. UNCHANGED <<file, overtaken>>
      BY <2>3 DEF readIAM, store
    <3>2. CASE UNCHANGED buf /\ \E ok \in BOOLEAN : Return(p, ok)
      BY <3>1, <3>2, ReturnGoto, FreshGoto
    <3>3. CASE /\ ~Present(edit[p], file) /\ ~NotFound(edit[p], file)
               /\ buf' = [buf EXCEPT ![p] = Edited(edit[p], file)]
               /\ Goto(p, "write") /\ UNCHANGED edit
      <4>1. \A q \in Procs : At(q, "write")' => q = p \/ (At(q, "write") /\ buf'[q] = buf[q])
        BY <3>3 DEF TypeOK, Goto, At
      <4>2. buf'[p] = Edited(edit[p], file)
        BY <3>3 DEF TypeOK
      <4>3. ASSUME NEW q \in Procs \ overtaken', At(q, "write")'
            PROVE  /\ buf'[q] = Edited(edit[q], file)
                   /\ ~Present(edit[q], file) /\ ~NotFound(edit[q], file)
        BY <3>1, <3>3, <4>1, <4>2, <4>3 DEF ReadIsFresh
      <4>4. edit' = edit
        BY <3>3
      <4> QED
        BY <3>1, <4>3, <4>4 DEF ReadIsFresh, Edited, Present, NotFound
    <3> QED
      BY <2>3, <3>2, <3>3 DEF readIAM
  <2>4. ASSUME NEW p \in Procs, writeIAM(p) PROVE ReadIsFresh'
    <3>1. CASE Written(p) /\ overtaken' = {q \in Procs \ {p} : At(q, "write")}
      <4>1. \A q \in Procs \ overtaken' : ~At(q, "write")'
        BY <3>1 DEF Written, Goto, At, TypeOK
      <4> QED
        BY <4>1 DEF ReadIsFresh
    <3>2. CASE Return(p, FALSE) /\ UNCHANGED file /\ overtaken' = overtaken \ {p}
      <4>1. buf' = [buf EXCEPT ![p] = Empty]
        BY <2>4 DEF writeIAM
      <4> QED
        BY <3>2, <4>1, ReturnGoto, FreshGoto
    <3> QED
      BY <2>4, <3>1, <3>2 DEF writeIAM
  <2>5. ASSUME NEW p \in Procs, reloadWeedS3(p) PROVE ReadIsFresh'
    <3>1. UNCHANGED <<file, buf, overtaken>> /\ \E ok \in BOOLEAN : Return(p, ok)
      BY <2>5 DEF reloadWeedS3
    <3> QED
      BY <3>1, ReturnGoto, FreshGoto
  <2>6. ASSUME NEW p \in Ctls, CtlStep(p) PROVE ReadIsFresh'
    <3>1. ASSUME NEW e, CtlIam(p, e) PROVE ReadIsFresh'
      BY <1>0, <3>1, FreshGoto DEF CtlIam, store
    <3>2. CASE CtlAbort(p)
      BY <1>0, <3>2, FreshGoto DEF CtlAbort, store
    <3> QED
      BY <1>0, <2>3, <2>4, <2>5, <2>6, <3>1, <3>2 DEF CtlStep, IamStep
  <2>7. CASE Outside \/ UNCHANGED vars
    <3>1. UNCHANGED <<file, buf, overtaken, pc, edit>>
      BY <2>7 DEF Outside, GatewayCrash, GatewayStart, GatewayLoad, ClientBucket, vars
    <3> QED
      BY <3>1, FreshKept DEF At
  <2> QED
    BY <1>0, <2>1, <2>2, <2>3, <2>4, <2>5, <2>6, <2>7 DEF Next, AgentStep, IamStep
<1> QED
  BY <1>1, <1>2, S3Typing, PTL DEF Spec

-----------------------------------------------------------------------------
(* The edits of s3.json implement the abstract identity store.                *)

\* A fresh edit is one append or one removal of a name.
LEMMA FreshEditIsStoreStep ==
    ASSUME TypeOK, ReadIsFresh,
           NEW p \in Procs \ overtaken, At(p, "write"), file' = buf[p], UNCHANGED loaded
    PROVE  Store!Next
<1>1. /\ file' = Edited(edit[p], file)
      /\ ~NotFound(edit[p], file)
  BY DEF ReadIsFresh
<1>2. edit[p] \in Edit /\ file \in Bag
  BY DEF TypeOK
<1>3. CASE edit[p].op = "delete"
  <2>1. PICK i \in Identity : i.name = edit[p].name /\ file[i] # 0
    BY <1>1, <1>3 DEF NotFound
  <2>2. file[i] > 0
    BY <1>2, <2>1 DEF Bag
  <2>3. file' = [j \in Identity |-> IF j.name = i.name THEN 0 ELSE file[j]]
    BY <1>1, <1>3, <2>1 DEF Edited
  <2> QED
    BY <2>1, <2>2, <2>3 DEF Store!Next, Store!Remove
<1>4. CASE edit[p].op # "delete"
  <2>1. edit[p].id \in Identity
    BY <1>2, <1>4 DEF Edit
  <2>2. file' = [file EXCEPT ![edit[p].id] = @ + 1]
    BY <1>1, <1>4 DEF Edited
  <2> QED
    BY <2>1, <2>2 DEF Store!Next, Store!Append
<1> QED
  BY <1>3, <1>4

\* Every step is a step of the identity store, leaves it alone, or is the write
\* of a process that was overtaken.
LEMMA StoreStep ==
    ASSUME TypeOK, ReadIsFresh, [Next]_vars
    PROVE  \/ Store!Next
           \/ UNCHANGED <<file, loaded>>
           \/ \E p \in overtaken : At(p, "write") /\ pc'[p] = "reload"
<1>0. Agent \in Procs /\ Ctls \subseteq Procs
  BY DEF Procs
<1>1. CASE Dispatch
  BY <1>1 DEF Dispatch, DispatchRejected, DispatchBucket, DispatchIam, DispatchFullSync,
              DispatchReconcile, store
<1>2. CASE Start \/ Crash \/ Reply \/ BucketOp \/ ListBuckets \/ CreateMissingBucket
           \/ DeleteExtraBucket \/ ListActualIAM \/ CreateMissingUser \/ DeleteExtraUser
  BY <1>2 DEF Start, Crash, Reply, BucketOp, ListBuckets, CreateMissingBucket,
              DeleteExtraBucket, ListActualIAM, CreateMissingUser, DeleteExtraUser, store
<1>3. ASSUME NEW p \in Procs, IamStep(p)
      PROVE  \/ Store!Next
             \/ UNCHANGED <<file, loaded>>
             \/ p \in overtaken /\ At(p, "write") /\ pc'[p] = "reload"
  <2>1. CASE readIAM(p) \/ reloadWeedS3(p)
    BY <2>1 DEF readIAM, reloadWeedS3, store
  <2>2. CASE writeIAM(p)
    <3>1. At(p, "write") /\ UNCHANGED loaded /\ (UNCHANGED file \/ (file' = buf[p] /\ Written(p)))
      BY <2>2 DEF writeIAM
    <3>2. Written(p) => pc'[p] = "reload"
      BY DEF Written, Goto, TypeOK
    <3>3. p \notin overtaken /\ file' = buf[p] => Store!Next
      BY <3>1, FreshEditIsStoreStep
    <3> QED
      BY <3>1, <3>2, <3>3
  <2> QED
    BY <1>3, <2>1, <2>2 DEF IamStep
<1>4. ASSUME NEW p \in Ctls, CtlAbort(p) \/ \E e : CtlIam(p, e)
      PROVE  UNCHANGED <<file, loaded>>
  BY <1>4 DEF CtlAbort, CtlIam, store
<1>5. CASE Outside
  BY <1>5 DEF Outside, GatewayCrash, GatewayStart, GatewayLoad, ClientBucket,
              Store!Next, Store!Load
<1>6. CASE UNCHANGED vars
  BY <1>6 DEF vars
<1>7. ASSUME NEW p \in Procs, IamStep(p)
      PROVE  \/ Store!Next
             \/ UNCHANGED <<file, loaded>>
             \/ \E q \in overtaken : At(q, "write") /\ pc'[q] = "reload"
  BY <1>3, <1>7
<1>8. ASSUME NEW p \in Ctls, CtlStep(p)
      PROVE  \/ Store!Next
             \/ UNCHANGED <<file, loaded>>
             \/ \E q \in overtaken : At(q, "write") /\ pc'[q] = "reload"
  BY <1>0, <1>4, <1>7, <1>8 DEF CtlStep
<1> QED
  BY <1>0, <1>1, <1>2, <1>5, <1>6, <1>7, <1>8 DEF Next, AgentStep

\* For any number of s3dctl processes next to the agent: a write of s3.json is
\* exactly one append or one removal of a name, unless its writer was
\* overtaken between its read and its write (CreateIAMUser, DeleteIAMUser,
\* EnsureAdmin and s3dctl, which take no lock on the file).
THEOREM OnlyOverlapLosesEditsAlways == Spec => OnlyOverlapLosesEdits
<1>1. TypeOK /\ ReadIsFresh /\ [Next]_vars =>
        [(\A p \in overtaken : ~(At(p, "write") /\ pc'[p] = "reload"))
           => Store!Next \/ UNCHANGED <<file, loaded>>]_vars
  BY StoreStep
<1> QED
  BY <1>1, S3Typing, Freshness, PTL DEF Spec, OnlyOverlapLosesEdits

\* With the agent as the only writer nobody is ever overtaken.
LEMMA NobodyOvertaken ==
    ASSUME Ctls = {}
    PROVE  Spec => [](overtaken = {})
<1>0. Procs = {Agent}
  BY DEF Procs
<1>1. Init => overtaken = {}
  BY DEF Init
<1>2. overtaken = {} /\ [Next]_vars => (overtaken = {})'
  <2> SUFFICES ASSUME overtaken = {}, [Next]_vars PROVE (overtaken = {})'
    OBVIOUS
  <2>1. CASE Dispatch
    BY <2>1 DEF Dispatch, DispatchRejected, DispatchBucket, DispatchIam, DispatchFullSync,
                DispatchReconcile
  <2>2. CASE Start \/ Crash \/ Reply \/ BucketOp \/ ListBuckets \/ CreateMissingBucket
             \/ DeleteExtraBucket \/ ListActualIAM \/ CreateMissingUser \/ DeleteExtraUser
    BY <2>2 DEF Start, Crash, Reply, BucketOp, ListBuckets, CreateMissingBucket,
                DeleteExtraBucket, ListActualIAM, CreateMissingUser, DeleteExtraUser
  <2>3. CASE IamStep(Agent)
    BY <1>0, <2>3 DEF IamStep, readIAM, writeIAM, reloadWeedS3
  <2>4. CASE Outside \/ UNCHANGED vars
    BY <2>4 DEF Outside, GatewayCrash, GatewayStart, GatewayLoad, ClientBucket, vars
  <2> QED
    BY <2>1, <2>2, <2>3, <2>4 DEF Next, AgentStep
<1> QED
  BY <1>1, <1>2, PTL DEF Spec

\* With the agent as the only writer, the read-edit-write-reload sequences of
\* all its commands implement the abstract identity store: every step maps to
\* one append, one removal, one load of the whole file, or no change.
THEOREM StoreRefinement ==
    ASSUME Ctls = {}
    PROVE  Spec => StoreImplemented
<1>1. Init => Store!Init
  BY DEF Init, Store!Init, Bag
<1>2. TypeOK /\ ReadIsFresh /\ overtaken = {} /\ [Next]_vars
        => [Store!Next]_<<file, loaded>>
  BY StoreStep
<1> QED
  BY <1>1, <1>2, S3Typing, Freshness, NobodyOvertaken, PTL
  DEF Spec, StoreImplemented, Store!Spec

-----------------------------------------------------------------------------
(* Where the handler is and what it is doing there.                           *)

Editing == pc[Agent] \in {"read", "write", "reload"}

\* The label of the agent and the edit it makes belong to the command it runs.
ControlOK ==
    /\ pc[Agent] \in {"off", "idle"} => cmd.op = "boot"
    /\ At(Agent, "bucketOp") => cmd.op \in BucketOps
    /\ pc[Agent] \in {"listBuckets", "mkBuckets", "rmBuckets", "listIAM", "addIAM", "delIAM"}
          => cmd.op \in SyncOps
    /\ Editing /\ cmd.op # "boot" =>
          cmd.op \in IamOps \union SyncOps /\ edit[Agent].op \in {"create", "delete"}

\* Reconcile has its list of buckets; it has its list of users.
Completed == At(Agent, "reply") /\ status = "completed"
BucketsListed ==
    /\ cmd.op \in SyncOps
    /\ Completed \/ Editing
         \/ pc[Agent] \in {"mkBuckets", "rmBuckets", "listIAM", "addIAM", "delIAM"}
UsersListed ==
    cmd.op \in SyncOps /\ (Completed \/ Editing \/ pc[Agent] \in {"addIAM", "delIAM"})

\* The bucket half of Reconcile: its lists stay on their sides of the diff, and
\* a bucket that is in neither of them, nor was touched by anyone else, is as
\* it is desired, unless an error was collected.
BucketProgress ==
    BucketsListed =>
        /\ mk \subseteq want.buckets /\ rm \intersect want.buckets = {}
        /\ pc[Agent] # "mkBuckets" => mk = {}
        /\ pc[Agent] \notin {"mkBuckets", "rmBuckets"} => rm = {}
        /\ ~errs => \A c \in Buckets \ touched :
                       /\ c \in want.buckets \ mk => c \in buckets
                       /\ c \in buckets \ rm => c \in want.buckets

\* Desired users with the admin's key are never listed, so every sync would
\* create them again.
KeysReserved == \A u \in Users : ~isSystemAdmin(u.key)

Listed(u) ==
    \E i \in Identity : /\ i.name = u.name /\ file[i] > 0
                        /\ KeysReserved => ~isSystemAdmin(i.key)

\* The edit the agent has begun and not yet written.
Unwritten(e) == pc[Agent] \in {"read", "write"} /\ edit[Agent] = e

\* The side of the diff the user half of Reconcile works on.
UserDiff ==
    UsersListed =>
        /\ add \subseteq want.iam
        /\ \A i \in Identity : del[i] > 0 => i.name \notin NamesOf(want.iam)
        /\ Editing /\ edit[Agent].op = "create" => edit[Agent].id \in want.iam
        /\ Editing /\ edit[Agent].op = "delete" =>
              add = {} /\ edit[Agent].name \notin NamesOf(want.iam)
        /\ At(Agent, "delIAM") \/ At(Agent, "reply") => add = {}
        /\ At(Agent, "reply") => del = Empty

\* What the user half has done: a desired user that is not in the file, and an
\* identity in the file that is not desired, is still to come.
UserProgress ==
    UsersListed /\ ~errs =>
        /\ \A u \in want.iam : u \in add \/ Unwritten(Create(u)) \/ Listed(u)
        /\ \A i \in ListIAM(file) :
              i.name \in NamesOf(want.iam) \/ del[i] > 0 \/ Unwritten(Delete(i.name))

\* A settled desired state is the actual one.
SettledIsReached ==
    \A w \in settled :
        /\ buckets = w.buckets
        /\ \A u \in w.iam : Listed(u)
        /\ \A i \in ListIAM(file) : i.name \in NamesOf(w.iam)

\* A sync towards a settled state has nothing to do.
SettledSyncIdle ==
    KeysReserved /\ want \in settled =>
        /\ BucketsListed => mk = {} /\ rm = {}
        /\ UsersListed => add = {} /\ del = Empty /\ ~Editing

\* Where the end of an edit takes the agent.
LEMMA AgentReturn ==
    ASSUME TypeOK, ControlOK, Editing, NEW ok \in BOOLEAN, Return(Agent, ok)
    PROVE  /\ edit'[Agent] = Seed
           /\ \/ /\ cmd.op = "boot" /\ pc'[Agent] = "idle"
                 /\ UNCHANGED <<errs, status>>
              \/ /\ cmd.op \in SyncOps
                 /\ pc'[Agent] = IF edit[Agent].op = "create" THEN "addIAM" ELSE "delIAM"
                 /\ errs' = Collect(ok) /\ UNCHANGED status
              \/ /\ cmd.op \in IamOps /\ pc'[Agent] = "reply"
                 /\ status' = IF ok THEN "completed" ELSE "failed"
<1>0. Agent \in Procs /\ Agent \notin Ctls
  BY DEF Procs
<1>1. edit'[Agent] = Seed
  BY <1>0 DEF Return, TypeOK
<1>2. CASE cmd.op = "boot"
  BY <1>0, <1>1, <1>2 DEF Return, Goto, TypeOK
<1>3. CASE cmd.op \in SyncOps
  BY <1>0, <1>1, <1>3 DEF Return, Goto, TypeOK, SyncOps
<1>4. CASE cmd.op \in IamOps
  BY <1>0, <1>1, <1>4 DEF Return, Finish, Goto, TypeOK, SyncOps, IamOps
<1> QED
  BY <1>2, <1>3, <1>4 DEF ControlOK

\* Steps that leave the agent where it is, with its command and its edit.
LEMMA ControlKept ==
    ASSUME ControlOK, UNCHANGED cmd, pc'[Agent] = pc[Agent], edit'[Agent] = edit[Agent]
    PROVE  ControlOK'
BY DEF ControlOK, Editing, At

\* An s3dctl process moves itself only.
LEMMA CtlLeavesAgent ==
    ASSUME TypeOK, NEW p \in Ctls, CtlStep(p)
    PROVE  /\ UNCHANGED <<cmd, want, lastDesired, mk, rm, add, del, errs, status, touched>>
           /\ pc'[Agent] = pc[Agent] /\ edit'[Agent] = edit[Agent]
<1>0. p # Agent /\ p \in Procs /\ Agent \in Procs
  BY DEF Procs
<1>1. CASE IamStep(p)
  <2>1. CASE \E ok \in BOOLEAN : Return(p, ok)
    <3>1. Goto(p, "idle") /\ edit' = [edit EXCEPT ![p] = Seed] /\ UNCHANGED <<errs, status>>
      BY <2>1 DEF Return
    <3>2. UNCHANGED <<cmd, want, lastDesired, mk, rm, add, del, touched>>
      BY <1>1 DEF IamStep, readIAM, writeIAM, reloadWeedS3
    <3> QED
      BY <1>0, <3>1, <3>2 DEF Goto, TypeOK
  <2>2. CASE UNCHANGED <<edit, errs, status>> /\ \E l : Goto(p, l)
    <3>1. UNCHANGED <<cmd, want, lastDesired, mk, rm, add, del, touched>>
      BY <1>1 DEF IamStep, readIAM, writeIAM, reloadWeedS3
    <3> QED
      BY <1>0, <2>2, <3>1 DEF Goto, TypeOK
  <2> QED
    BY <1>1, <2>1, <2>2 DEF IamStep, readIAM, writeIAM, reloadWeedS3, Written
<1>2. ASSUME NEW e, CtlIam(p, e)
      PROVE  /\ UNCHANGED <<cmd, want, lastDesired, mk, rm, add, del, errs, status, touched>>
             /\ pc'[Agent] = pc[Agent] /\ edit'[Agent] = edit[Agent]
  BY <1>0, <1>2 DEF CtlIam, Goto, TypeOK
<1>3. CASE CtlAbort(p)
  BY <1>0, <1>3 DEF CtlAbort, Goto, TypeOK, sync
<1> QED
  BY <1>1, <1>2, <1>3 DEF CtlStep

\* The handler is only ever at a step of the command it was given.
LEMMA Control == Spec => []ControlOK
<1>0. Agent \in Procs /\ Agent \notin Ctls
  BY DEF Procs
<1>1. Init => ControlOK
  BY <1>0 DEF Init, ControlOK, Editing, At, Boot
<1>2. TypeOK /\ ControlOK /\ [Next]_vars => ControlOK'
  <2> SUFFICES ASSUME TypeOK, ControlOK, [Next]_vars PROVE ControlOK'
    OBVIOUS
  <2> USE DEF At, Editing
  <2>1. ASSUME NEW c \in Command, DispatchRejected(c) \/ DispatchBucket(c)
                 \/ DispatchFullSync(c) \/ DispatchReconcile(c)
        PROVE  ControlOK'
    <3>1. cmd' = c
      BY <2>1 DEF DispatchRejected, DispatchBucket, DispatchFullSync, DispatchReconcile, Receive
    <3>2. \/ pc'[Agent] = "reply"
          \/ pc'[Agent] = "bucketOp" /\ c.op \in BucketOps
          \/ pc'[Agent] = "listBuckets" /\ c.op \in SyncOps
      BY <1>0, <2>1 DEF DispatchRejected, DispatchBucket, DispatchFullSync,
                        DispatchReconcile, Finish, Goto, TypeOK, SyncOps
    <3> QED
      BY <3>1, <3>2 DEF ControlOK
  <2>2. ASSUME NEW c \in Command, DispatchIam(c) PROVE ControlOK'
    <3>1. cmd' = c /\ c.op \in IamOps /\ pc'[Agent] = "read"
      BY <1>0, <2>2 DEF DispatchIam, Receive, Goto, TypeOK
    <3>2. edit'[Agent].op \in {"create", "delete"}
      BY <1>0, <2>2 DEF DispatchIam, Create, Delete, TypeOK
    <3> QED
      BY <3>1, <3>2 DEF ControlOK
  <2>3. CASE Start
    BY <1>0, <2>3 DEF Start, Goto, TypeOK, ControlOK
  <2>4. CASE Crash \/ Reply
    <3>1. pc'[Agent] \in {"off", "idle"} /\ cmd' = Boot
      BY <1>0, <2>4 DEF Crash, Reply, Goto, TypeOK
    <3> QED
      BY <3>1 DEF ControlOK, Boot
  <2>5. CASE BucketOp \/ ListBuckets \/ CreateMissingBucket \/ DeleteExtraBucket
             \/ ListActualIAM
    <3>1. UNCHANGED cmd
      BY <2>5 DEF BucketOp, ListBuckets, CreateMissingBucket, DeleteExtraBucket, ListActualIAM
    <3>2. \/ pc'[Agent] = "reply"
          \/ /\ cmd.op \in SyncOps
             /\ pc'[Agent] \in {"mkBuckets", "rmBuckets", "listIAM", "addIAM"}
      BY <1>0, <2>5 DEF BucketOp, ListBuckets, CreateMissingBucket, DeleteExtraBucket,
                        ListActualIAM, Finish, Goto, TypeOK, ControlOK
    <3> QED
      BY <3>1, <3>2 DEF ControlOK
  <2>6. CASE CreateMissingUser \/ DeleteExtraUser
    <3>1. UNCHANGED cmd /\ cmd.op \in SyncOps
      BY <2>6 DEF CreateMissingUser, DeleteExtraUser, ControlOK
    <3>2. \/ pc'[Agent] \in {"delIAM", "reply"}
          \/ pc'[Agent] = "read" /\ edit'[Agent].op \in {"create", "delete"}
      BY <1>0, <2>6 DEF CreateMissingUser, DeleteExtraUser, Create, Delete, Finish, Goto, TypeOK
    <3> QED
      BY <3>1, <3>2 DEF ControlOK
  <2>7. CASE IamStep(Agent)
    <3>1. UNCHANGED cmd /\ Editing
      BY <2>7 DEF IamStep, readIAM, writeIAM, reloadWeedS3
    <3>2. CASE \E ok \in BOOLEAN : Return(Agent, ok)
      <4>1. PICK ok \in BOOLEAN : Return(Agent, ok)
        BY <3>2
      <4> HIDE DEF Editing
      <4> QED
        BY <3>1, <4>1, AgentReturn DEF ControlOK, Editing
    <3>3. CASE UNCHANGED edit /\ (Goto(Agent, "write") \/ Goto(Agent, "reload"))
      BY <1>0, <3>1, <3>3 DEF Goto, TypeOK, ControlOK
    <3> QED
      BY <2>7, <3>2, <3>3 DEF IamStep, readIAM, writeIAM, reloadWeedS3, Written
  <2>8. ASSUME NEW p \in Ctls, CtlStep(p) PROVE ControlOK'
    BY <2>8, CtlLeavesAgent, ControlKept
  <2>9. CASE Outside \/ UNCHANGED vars
    BY <2>9, ControlKept DEF Outside, GatewayCrash, GatewayStart, GatewayLoad, ClientBucket, vars
  <2> QED
    BY <2>1, <2>2, <2>3, <2>4, <2>5, <2>6, <2>7, <2>8, <2>9 DEF Next, Dispatch, AgentStep
<1> QED
  BY <1>1, <1>2, S3Typing, PTL DEF Spec

-----------------------------------------------------------------------------
(* A completed iam_create or iam_delete is in force.                          *)

\* For any users, files and faults, with the agent as the only writer: the
\* gateway serves what a completed iam command wrote, or is about to load it
\* (CreateIAMUser and DeleteIAMUser return the error of the reload).
THEOREM CompletedIamIsServedAlways ==
    ASSUME Ctls = {}
    PROVE  Spec => []CompletedIamIsServed
<1>0. Procs = {Agent}
  BY DEF Procs
<1>1. Init => CompletedIamIsServed
  BY DEF Init, CompletedIamIsServed, Stale
<1>2. TypeOK /\ ControlOK /\ CompletedIamIsServed /\ [Next]_vars => CompletedIamIsServed'
  <2> SUFFICES ASSUME TypeOK, ControlOK, CompletedIamIsServed, [Next]_vars
               PROVE  CompletedIamIsServed'
    OBVIOUS
  <2>1. CASE Dispatch
    <3>1. At(Agent, "reply")' => status' # "completed"
      BY <1>0, <2>1 DEF Dispatch, DispatchRejected, DispatchBucket, DispatchIam,
                  DispatchFullSync, DispatchReconcile, Finish, Goto, At, TypeOK
    <3> QED
      BY <3>1 DEF CompletedIamIsServed
  <2>2. CASE Start \/ Crash \/ Reply
    <3>1. ~At(Agent, "reply")'
      BY <1>0, <2>2 DEF Start, Crash, Reply, Goto, At, TypeOK
    <3> QED
      BY <3>1 DEF CompletedIamIsServed
  <2>3. CASE BucketOp \/ ListBuckets \/ CreateMissingBucket \/ DeleteExtraBucket
             \/ ListActualIAM \/ CreateMissingUser \/ DeleteExtraUser
    <3>1. UNCHANGED cmd /\ cmd.op \in BucketOps \union SyncOps
      BY <2>3 DEF BucketOp, ListBuckets, CreateMissingBucket, DeleteExtraBucket,
                  ListActualIAM, CreateMissingUser, DeleteExtraUser, At, ControlOK
    <3> QED
      BY <3>1 DEF CompletedIamIsServed, IamOps, BucketOps, SyncOps
  <2>4. CASE IamStep(Agent)
    <3>0. Editing /\ UNCHANGED cmd
      BY <2>4 DEF IamStep, readIAM, writeIAM, reloadWeedS3, At, Editing
    <3> SUFFICES ASSUME At(Agent, "reply")', cmd.op \in IamOps, status' = "completed"
                 PROVE  ~Stale'
      BY <3>0 DEF CompletedIamIsServed
    <3>1. CASE readIAM(Agent)
      <4>1. ~Present(edit[Agent], file)
        BY <3>0 DEF ControlOK, IamOps, Present
      <4>2. ~Goto(Agent, "write")
        BY <1>0 DEF Goto, At, TypeOK
      <4>3. Return(Agent, FALSE)
        BY <3>1, <4>1, <4>2 DEF readIAM
      <4> QED
        BY <3>0, <4>3, AgentReturn DEF IamOps, SyncOps, At
    <3>2. CASE writeIAM(Agent)
      <4>1. ~Goto(Agent, "reload")
        BY <1>0 DEF Goto, At, TypeOK
      <4>2. Return(Agent, FALSE)
        BY <3>2, <4>1 DEF writeIAM, Written
      <4> QED
        BY <3>0, <4>2, AgentReturn DEF IamOps, SyncOps, At
    <3>3. CASE reloadWeedS3(Agent)
      <4>1. CASE Return(Agent, FALSE)
        BY <3>0, <4>1, AgentReturn DEF IamOps, SyncOps, At
      <4>2. CASE gw' = "starting"
        BY <4>2 DEF Stale
      <4> QED
        BY <3>3, <4>1, <4>2 DEF reloadWeedS3
    <3> QED
      BY <2>4, <3>1, <3>2, <3>3 DEF IamStep
  <2>5. CASE Outside \/ UNCHANGED vars
    BY <2>5 DEF Outside, GatewayCrash, GatewayStart, GatewayLoad, ClientBucket, vars,
                CompletedIamIsServed, Stale, At
  <2> QED
    BY <2>1, <2>2, <2>3, <2>4, <2>5 DEF Next, AgentStep
<1> QED
  BY <1>1, <1>2, S3Typing, Control, PTL DEF Spec

-----------------------------------------------------------------------------
(* Reconcile: what it works on and what it has reached.                       *)

\* Steps after which no Reconcile is past its lists.
LEMMA OutOfSync ==
    ASSUME TypeOK, ControlOK, Dispatch \/ Start \/ Crash \/ Reply \/ BucketOp
    PROVE  ~BucketsListed' /\ ~UsersListed'
<1>0. Agent \in Procs
  BY DEF Procs
<1>1. ASSUME NEW c \in Command, DispatchRejected(c) \/ DispatchBucket(c) \/ DispatchIam(c)
                 \/ DispatchFullSync(c) \/ DispatchReconcile(c)
      PROVE  ~BucketsListed' /\ ~UsersListed'
  <2>1. cmd' = c
    BY <1>1 DEF DispatchRejected, DispatchBucket, DispatchIam, DispatchFullSync,
                DispatchReconcile, Receive
  <2>2. \/ pc'[Agent] = "reply" /\ status' # "completed"
        \/ pc'[Agent] \in {"bucketOp", "listBuckets"}
        \/ pc'[Agent] = "read" /\ c.op \in IamOps
    BY <1>0, <1>1 DEF DispatchRejected, DispatchBucket, DispatchIam, DispatchFullSync,
                      DispatchReconcile, Finish, Goto, TypeOK
  <2> QED
    BY <2>1, <2>2 DEF BucketsListed, UsersListed, Completed, Editing, At, SyncOps, IamOps
<1>2. CASE Start \/ Crash \/ Reply
  <2>1. cmd'.op = "boot"
    BY <1>2 DEF Start, Crash, Reply, ControlOK, At, Boot
  <2> QED
    BY <2>1 DEF BucketsListed, UsersListed, SyncOps
<1>3. CASE BucketOp
  <2>1. cmd' = cmd /\ cmd.op \in BucketOps
    BY <1>3 DEF BucketOp, ControlOK
  <2> QED
    BY <2>1 DEF BucketsListed, UsersListed, SyncOps, BucketOps
<1> QED
  BY <1>1, <1>2, <1>3 DEF Dispatch

\* Until Reconcile has listed the users it is past no list of them.
LEMMA BeforeUsers ==
    ASSUME TypeOK, ListBuckets \/ CreateMissingBucket \/ DeleteExtraBucket
    PROVE  ~UsersListed'
<1>0. Agent \in Procs
  BY DEF Procs
<1>1. \/ pc'[Agent] = "reply" /\ status' = "failed"
      \/ pc'[Agent] \in {"mkBuckets", "rmBuckets", "listIAM"}
  BY <1>0 DEF ListBuckets, CreateMissingBucket, DeleteExtraBucket, Finish, Goto, At, TypeOK
<1> QED
  BY <1>1 DEF UsersListed, Completed, Editing, At

\* Steps that leave the agent, its command and its status where they are.
LEMMA ListedKept ==
    ASSUME UNCHANGED <<cmd, status>>, pc'[Agent] = pc[Agent], edit'[Agent] = edit[Agent]
    PROVE  /\ BucketsListed' <=> BucketsListed
           /\ UsersListed' <=> UsersListed
           /\ Editing' <=> Editing
           /\ Completed' <=> Completed
           /\ \A e : Unwritten(e)' <=> Unwritten(e)
BY DEF BucketsListed, UsersListed, Editing, Completed, Unwritten, At

\* Reconcile creates only desired users, and deletes only names nobody desires
\* and only once it is done creating.
LEMMA Diff == Spec => []UserDiff
<1>0. Agent \in Procs
  BY DEF Procs
<1>1. Init => UserDiff
  BY DEF Init, UserDiff, UsersListed, Boot, SyncOps
<1>2. TypeOK /\ ControlOK /\ UserDiff /\ [Next]_vars => UserDiff'
  <2> SUFFICES ASSUME TypeOK, ControlOK, UserDiff, [Next]_vars PROVE UserDiff'
    OBVIOUS
  <2>1. CASE Dispatch \/ Start \/ Crash \/ Reply \/ BucketOp
    BY <2>1, OutOfSync DEF UserDiff
  <2>2. CASE ListBuckets \/ CreateMissingBucket \/ DeleteExtraBucket
    BY <2>2, BeforeUsers DEF UserDiff
  <2>3. CASE ListActualIAM
    <3>1. CASE pc'[Agent] = "addIAM" /\ add' = MissingUsers /\ del' = ExtraIdentities
      <4>1. want' = want /\ MissingUsers \subseteq want.iam
        BY <2>3 DEF ListActualIAM, MissingUsers
      <4>2. \A i \in Identity : ExtraIdentities[i] > 0 => i.name \notin NamesOf(want.iam)
        BY DEF ExtraIdentities
      <4>3. NamesOf(want'.iam) = NamesOf(want.iam)
        BY <4>1 DEF NamesOf
      <4> QED
        BY <3>1, <4>1, <4>2, <4>3 DEF UserDiff, Editing, At
    <3>2. CASE pc'[Agent] = "reply" /\ status' = "failed"
      BY <3>2 DEF UserDiff, UsersListed, Completed, Editing, At
    <3> QED
      BY <1>0, <2>3, <3>1, <3>2 DEF ListActualIAM, Finish, Goto, TypeOK
  <2>4. CASE CreateMissingUser
    <3>1. UsersListed /\ UNCHANGED <<cmd, want, del>>
      BY <2>4 DEF CreateMissingUser, UsersListed, ControlOK, At
    <3>2. CASE add = {} /\ pc'[Agent] = "delIAM" /\ UNCHANGED add
      BY <3>1, <3>2 DEF UserDiff, Editing, At, NamesOf
    <3>3. ASSUME NEW u \in add, add' = add \ {u}, pc'[Agent] = "read", edit'[Agent] = Create(u)
          PROVE  UserDiff'
      BY <3>1, <3>3 DEF UserDiff, Editing, At, NamesOf, Create
    <3> QED
      BY <1>0, <2>4, <3>2, <3>3 DEF CreateMissingUser, Goto, TypeOK
  <2>5. CASE DeleteExtraUser
    <3>1. UsersListed /\ UNCHANGED <<cmd, want, add>> /\ At(Agent, "delIAM")
      BY <2>5 DEF DeleteExtraUser, UsersListed, ControlOK, At
    <3>2. CASE del = Empty /\ pc'[Agent] = "reply" /\ UNCHANGED del
      BY <3>1, <3>2 DEF UserDiff, Editing, At, NamesOf
    <3>3. ASSUME NEW i \in Pending(del), del' = Advance(del, i), pc'[Agent] = "read",
                 edit'[Agent] = Delete(i.name)
          PROVE  UserDiff'
      <4>1. i.name \notin NamesOf(want.iam) /\ add = {}
        BY <3>1, <3>3 DEF Pending, UserDiff
      <4>2. \A j \in Identity : del'[j] > 0 => del[j] > 0
        BY <3>3 DEF Advance, Pending, TypeOK, Bag
      <4> QED
        BY <3>1, <3>3, <4>1, <4>2 DEF UserDiff, Editing, At, NamesOf, Delete
    <3> QED
      BY <1>0, <2>5, <3>2, <3>3 DEF DeleteExtraUser, Finish, Goto, TypeOK
  <2>6. CASE IamStep(Agent)
    <3>1. Editing /\ UNCHANGED <<cmd, want, add, del>>
      BY <2>6 DEF IamStep, readIAM, writeIAM, reloadWeedS3, At, Editing
    <3>2. CASE cmd.op \notin SyncOps
      BY <3>1, <3>2 DEF UserDiff, UsersListed
    <3>3. CASE cmd.op \in SyncOps
      <4>1. UsersListed /\ edit[Agent].op \in {"create", "delete"}
        BY <3>1, <3>3 DEF UsersListed, ControlOK, SyncOps
      <4>2. CASE \E ok \in BOOLEAN : Return(Agent, ok)
        <5>1. pc'[Agent] = IF edit[Agent].op = "create" THEN "addIAM" ELSE "delIAM"
          BY <3>1, <3>3, <4>2, AgentReturn DEF SyncOps, IamOps
        <5> QED
          BY <3>1, <4>1, <5>1 DEF UserDiff, At, NamesOf, Editing
      <4>3. CASE UNCHANGED edit /\ (Goto(Agent, "write") \/ Goto(Agent, "reload"))
        <5>1. pc'[Agent] \in {"write", "reload"} /\ UNCHANGED edit
          BY <1>0, <4>3 DEF Goto, TypeOK
        <5> QED
          BY <3>1, <4>1, <5>1 DEF UserDiff, At, NamesOf, Editing
      <4> QED
        BY <2>6, <4>2, <4>3 DEF IamStep, readIAM, writeIAM, reloadWeedS3, Written
    <3> QED
      BY <3>2, <3>3
  <2>7. CASE (\E p \in Ctls : CtlStep(p)) \/ Outside \/ UNCHANGED vars
    <3>1. /\ UNCHANGED <<cmd, status, want, add, del>>
          /\ pc'[Agent] = pc[Agent] /\ edit'[Agent] = edit[Agent]
      BY <2>7, CtlLeavesAgent DEF Outside, GatewayCrash, GatewayStart, GatewayLoad,
         ClientBucket, sync, vars
    <3> QED
      BY <3>1, ListedKept DEF UserDiff, At, NamesOf
  <2> QED
    BY <2>1, <2>2, <2>3, <2>4, <2>5, <2>6, <2>7 DEF Next, AgentStep
<1> QED
  BY <1>1, <1>2, S3Typing, Control, PTL DEF Spec

\* A write that succeeds, of a process nobody has overtaken.
LEMMA AgentWrite ==
    ASSUME TypeOK, ReadIsFresh, overtaken = {}, writeIAM(Agent)
    PROVE  \/ /\ file' = Edited(edit[Agent], file) /\ pc'[Agent] = "reload"
              /\ UNCHANGED <<edit, errs, status>> /\ settled' = {}
           \/ Return(Agent, FALSE) /\ UNCHANGED <<file, settled>>
<1>0. Agent \in Procs /\ At(Agent, "write")
  BY DEF Procs, writeIAM
<1>1. buf[Agent] = Edited(edit[Agent], file)
  BY <1>0 DEF ReadIsFresh
<1> QED
  BY <1>0, <1>1 DEF writeIAM, Written, Goto, TypeOK

-----------------------------------------------------------------------------
(* What removes the admin from s3.json.                                       *)

\* The edit of a command that is no sync is the one the command asks for.
EditOfCommand ==
    Editing =>
        /\ cmd.op = "boot" => edit[Agent].op = "seed"
        /\ cmd.op = "iam_create" => edit[Agent].op = "create"
        /\ cmd.op = "iam_delete" => edit[Agent] = Delete(cmd.arg)

\* Reconcile is about to delete the admin's name.
AdminTargeted ==
    \/ \E i \in Identity : del[i] > 0 /\ i.name = Admin.name
    \/ Editing /\ edit[Agent].op = "delete" /\ edit[Agent].name = Admin.name

Namesake ==
    \E i \in Identity : i.name = Admin.name /\ ~isSystemAdmin(i.key) /\ file[i] > 0

\* The namesake Reconcile listed is still there, unless the deletion is done.
NamesakeKept == UsersListed /\ AdminTargeted => Namesake \/ file[Admin] = 0

\* The handler makes the edit it was asked for.
LEMMA EditsAsked == Spec => []EditOfCommand
<1>0. Agent \in Procs
  BY DEF Procs
<1>1. Init => EditOfCommand
  BY <1>0 DEF Init, EditOfCommand, Editing
<1>2. TypeOK /\ ControlOK /\ EditOfCommand /\ [Next]_vars => EditOfCommand'
  <2> SUFFICES ASSUME TypeOK, ControlOK, EditOfCommand, [Next]_vars PROVE EditOfCommand'
    OBVIOUS
  <2>1. ASSUME NEW c \in Command, DispatchRejected(c) \/ DispatchBucket(c)
                 \/ DispatchFullSync(c) \/ DispatchReconcile(c)
        PROVE  EditOfCommand'
    <3>1. pc'[Agent] \in {"reply", "bucketOp", "listBuckets"}
      BY <1>0, <2>1 DEF DispatchRejected, DispatchBucket, DispatchFullSync,
                        DispatchReconcile, Finish, Goto, TypeOK
    <3> QED
      BY <3>1 DEF EditOfCommand, Editing
  <2>2. ASSUME NEW c \in Command, DispatchIam(c) PROVE EditOfCommand'
    <3>1. cmd' = c /\ c.op \in IamOps
      BY <2>2 DEF DispatchIam, Receive
    <3>2. edit'[Agent] = IF c.op = "iam_create" THEN Create(c.arg) ELSE Delete(c.arg)
      BY <1>0, <2>2 DEF DispatchIam, TypeOK
    <3> QED
      BY <3>1, <3>2 DEF EditOfCommand, IamOps, Create, Delete
  <2>3. CASE Start
    <3>1. cmd'.op = "boot" /\ (Editing' => edit'[Agent] = Seed)
      BY <1>0, <2>3 DEF Start, ControlOK, At, Editing, Goto, TypeOK
    <3> QED
      BY <3>1 DEF EditOfCommand, Seed
  <2>4. CASE Crash \/ Reply \/ BucketOp \/ ListBuckets \/ CreateMissingBucket
             \/ DeleteExtraBucket \/ ListActualIAM
    <3>1. pc'[Agent] \in {"off", "idle", "reply", "mkBuckets", "rmBuckets", "listIAM", "addIAM"}
      BY <1>0, <2>4 DEF Crash, Reply, BucketOp, ListBuckets, CreateMissingBucket,
                        DeleteExtraBucket, ListActualIAM, Finish, Goto, At, TypeOK
    <3> QED
      BY <3>1 DEF EditOfCommand, Editing
  <2>5. CASE CreateMissingUser \/ DeleteExtraUser
    <3>1. cmd'.op \in SyncOps
      BY <2>5 DEF CreateMissingUser, DeleteExtraUser, ControlOK, At
    <3> QED
      BY <3>1 DEF EditOfCommand, SyncOps
  <2>6. CASE IamStep(Agent)
    <3>1. UNCHANGED cmd /\ Editing
      BY <2>6 DEF IamStep, readIAM, writeIAM, reloadWeedS3, At, Editing
    <3>2. CASE \E ok \in BOOLEAN : Return(Agent, ok)
      <4>1. ~Editing'
        BY <3>1, <3>2, AgentReturn DEF Editing
      <4> QED
        BY <4>1 DEF EditOfCommand
    <3>3. CASE UNCHANGED edit
      BY <3>1, <3>3 DEF EditOfCommand, Delete
    <3> QED
      BY <2>6, <3>2, <3>3 DEF IamStep, readIAM, writeIAM, reloadWeedS3, Written
  <2>7. CASE (\E p \in Ctls : CtlStep(p)) \/ Outside \/ UNCHANGED vars
    <3>1. UNCHANGED cmd /\ pc'[Agent] = pc[Agent] /\ edit'[Agent] = edit[Agent]
      BY <2>7, CtlLeavesAgent DEF Outside, GatewayCrash, GatewayStart, GatewayLoad,
         ClientBucket, vars
    <3> QED
      BY <3>1 DEF EditOfCommand, Editing, Delete
  <2> QED
    BY <2>1, <2>2, <2>3, <2>4, <2>5, <2>6, <2>7 DEF Next, Dispatch, AgentStep
<1> QED
  BY <1>1, <1>2, S3Typing, Control, PTL DEF Spec

\* Steps that leave the file alone and target no more than before.
LEMMA NamesakeStays ==
    ASSUME NamesakeKept, UNCHANGED file, UsersListed' => UsersListed,
           AdminTargeted' => AdminTargeted
    PROVE  NamesakeKept'
BY DEF NamesakeKept, Namesake

\* Reconcile targets the admin's name only because of a namesake, which goes
\* together with the admin and not before.
LEMMA NamesakeFirst ==
    ASSUME Ctls = {}
    PROVE  Spec => []NamesakeKept
<1>0. Agent \in Procs /\ Admin \in Identity
  BY DEF Procs, Identity
<1>1. Init => NamesakeKept
  BY DEF Init, NamesakeKept, UsersListed, Boot, SyncOps
<1>2. TypeOK /\ ControlOK /\ UserDiff /\ ReadIsFresh /\ overtaken = {} /\ NamesakeKept
        /\ [Next]_vars => NamesakeKept'
  <2> SUFFICES ASSUME TypeOK, ControlOK, UserDiff, ReadIsFresh, overtaken = {}, NamesakeKept,
                      [Next]_vars
               PROVE  NamesakeKept'
    OBVIOUS
  <2>1. CASE Dispatch \/ Start \/ Crash \/ Reply \/ BucketOp
    BY <2>1, OutOfSync DEF NamesakeKept
  <2>2. CASE ListBuckets \/ CreateMissingBucket \/ DeleteExtraBucket
    BY <2>2, BeforeUsers DEF NamesakeKept
  <2>3. CASE ListActualIAM
    <3>1. CASE pc'[Agent] = "addIAM" /\ del' = ExtraIdentities
      <4> SUFFICES ASSUME AdminTargeted' PROVE Namesake'
        BY DEF NamesakeKept
      <4>1. PICK i \in Identity : ExtraIdentities[i] > 0 /\ i.name = Admin.name
        BY <3>1 DEF AdminTargeted, Editing
      <4>2. i \in ListIAM(file)
        BY <4>1 DEF ExtraIdentities
      <4>3. file' = file
        BY <2>3 DEF ListActualIAM, store
      <4> QED
        BY <4>1, <4>2, <4>3 DEF Namesake, ListIAM
    <3>2. CASE pc'[Agent] = "reply" /\ status' = "failed"
      BY <3>2 DEF NamesakeKept, UsersListed, Completed, Editing, At
    <3> QED
      BY <1>0, <2>3, <3>1, <3>2 DEF ListActualIAM, Finish, Goto, TypeOK
  <2>4. CASE CreateMissingUser
    <3>1. UsersListed /\ UNCHANGED <<file, del>>
      BY <2>4 DEF CreateMissingUser, UsersListed, ControlOK, At, store
    <3>2. Editing' => edit'[Agent].op = "create"
      BY <1>0, <2>4 DEF CreateMissingUser, Editing, Create, Goto, TypeOK
    <3> QED
      BY <3>1, <3>2, NamesakeStays DEF AdminTargeted
  <2>5. CASE DeleteExtraUser
    <3>1. UsersListed /\ UNCHANGED file
      BY <2>5 DEF DeleteExtraUser, UsersListed, ControlOK, At, store
    <3>2. CASE del' = del /\ ~Editing'
      BY <3>1, <3>2, NamesakeStays DEF AdminTargeted
    <3>3. ASSUME NEW i \in Pending(del), del' = Advance(del, i), edit'[Agent] = Delete(i.name)
          PROVE  AdminTargeted' => AdminTargeted
      <4>1. \A j \in Identity : del'[j] > 0 => del[j] > 0
        BY <3>3 DEF Advance, Pending, TypeOK, Bag
      <4>2. i \in Identity /\ del[i] > 0
        BY <3>3 DEF Pending
      <4> QED
        BY <3>3, <4>1, <4>2 DEF AdminTargeted, Delete
    <3> QED
      BY <1>0, <2>5, <3>1, <3>2, <3>3, NamesakeStays
      DEF DeleteExtraUser, Finish, Goto, TypeOK, Editing
  <2>6. CASE IamStep(Agent)
    <3>1. Editing /\ UNCHANGED <<cmd, want, del>>
      BY <2>6 DEF IamStep, readIAM, writeIAM, reloadWeedS3, At, Editing
    <3>2. UsersListed' => UsersListed
      BY <3>1 DEF UsersListed
    <3>3. AdminTargeted' => AdminTargeted
      <4>1. CASE \E ok \in BOOLEAN : Return(Agent, ok)
        BY <3>1, <4>1, AgentReturn DEF AdminTargeted, Seed
      <4>2. CASE UNCHANGED edit
        BY <3>1, <4>2 DEF AdminTargeted
      <4> QED
        BY <2>6, <4>1, <4>2 DEF IamStep, readIAM, writeIAM, reloadWeedS3, Written
    <3>4. CASE UNCHANGED file
      BY <3>2, <3>3, <3>4, NamesakeStays
    <3>5. CASE file' # file
      <4>1. file' = Edited(edit[Agent], file) /\ edit[Agent] \in Edit /\ file \in Bag
        BY <1>0, <2>6, <3>5, AgentWrite
        DEF IamStep, readIAM, writeIAM, reloadWeedS3, store, TypeOK
      <4> SUFFICES ASSUME UsersListed, AdminTargeted PROVE Namesake' \/ file'[Admin] = 0
        BY <3>2, <3>3 DEF NamesakeKept
      <4>2. edit[Agent].op \in {"create", "delete"}
        BY <3>1 DEF ControlOK, UsersListed, SyncOps
      <4>3. CASE edit[Agent].op = "delete" /\ edit[Agent].name = Admin.name
        BY <1>0, <4>1, <4>3 DEF Edited
      <4>4. CASE edit[Agent].op = "delete" /\ edit[Agent].name # Admin.name
        BY <1>0, <4>1, <4>4 DEF Edited, NamesakeKept, Namesake
      <4>5. CASE edit[Agent].op = "create"
        <5>1. edit[Agent].id \in want.iam /\ Admin.name \notin NamesOf(want.iam)
          BY <3>1, <4>5 DEF UserDiff, AdminTargeted
        <5>2. edit[Agent].id # Admin /\ edit[Agent].id \in Identity
          BY <4>1, <4>5, <5>1 DEF NamesOf, Edit
        <5>3. \A i \in Identity : file'[i] >= file[i]
          BY <4>1, <4>5, <5>2 DEF Edited, Bag
        <5>4. file'[Admin] = file[Admin]
          BY <1>0, <4>1, <4>5, <5>2 DEF Edited, Bag
        <5>5. file' \in Bag
          BY <4>1, EditedType
        <5> QED
          BY <4>1, <5>3, <5>4, <5>5 DEF NamesakeKept, Namesake, Bag
      <4> QED
        BY <4>2, <4>3, <4>4, <4>5
    <3> QED
      BY <3>4, <3>5
  <2>7. CASE Outside \/ UNCHANGED vars
    <3>1. UNCHANGED <<file, cmd, status, del, pc, edit>>
      BY <2>7 DEF Outside, GatewayCrash, GatewayStart, GatewayLoad, ClientBucket, sync, vars
    <3> QED
      BY <3>1, ListedKept, NamesakeStays DEF AdminTargeted
  <2> QED
    BY <2>1, <2>2, <2>3, <2>4, <2>5, <2>6, <2>7 DEF Next, AgentStep
<1> QED
  BY <1>1, <1>2, S3Typing, Control, Diff, Freshness, NobodyOvertaken, PTL DEF Spec

\* With the agent as the only writer, for any users, payloads and first files:
\* a configured admin leaves s3.json only by an iam_delete of its name or when
\* Reconcile deletes a namesake of it (EnsureAdmin, ListIAM, DeleteIAMUser).
THEOREM AdminLossExplainedAlways ==
    ASSUME Ctls = {}
    PROVE  Spec => AdminLossExplained
<1>0. Agent \in Procs /\ Admin \in Identity
  BY DEF Procs, Identity
<1>1. TypeOK /\ ControlOK /\ ReadIsFresh /\ UserDiff /\ EditOfCommand /\ NamesakeKept
        /\ overtaken = {} /\ [Next]_vars =>
        [AdminConfigured /\ file[Admin] > 0 /\ file'[Admin] = 0 =>
           \/ cmd = [op |-> "iam_delete", arg |-> Admin.name]
           \/ /\ cmd.op \in SyncOps /\ Admin.name \notin NamesOf(want.iam)
              /\ \E id \in Identity : /\ id.name = Admin.name /\ id.key # Admin.key
                                      /\ file[id] > 0]_vars
  <2> SUFFICES ASSUME TypeOK, ControlOK, ReadIsFresh, UserDiff, EditOfCommand, NamesakeKept,
                      overtaken = {}, Next, AdminConfigured, file[Admin] > 0, file'[Admin] = 0
               PROVE  \/ cmd = [op |-> "iam_delete", arg |-> Admin.name]
                      \/ /\ cmd.op \in SyncOps /\ Admin.name \notin NamesOf(want.iam)
                         /\ \E id \in Identity : /\ id.name = Admin.name /\ id.key # Admin.key
                                                 /\ file[id] > 0
    OBVIOUS
  <2>1. writeIAM(Agent)
    <3>1. file' # file
      OBVIOUS
    <3>2. ~Dispatch
      BY <3>1 DEF Dispatch, DispatchRejected, DispatchBucket, DispatchIam, DispatchFullSync,
                  DispatchReconcile, store
    <3>3. ~(Start \/ Crash \/ Reply \/ BucketOp \/ ListBuckets \/ CreateMissingBucket
             \/ DeleteExtraBucket \/ ListActualIAM \/ CreateMissingUser \/ DeleteExtraUser
             \/ readIAM(Agent) \/ reloadWeedS3(Agent))
      BY <3>1 DEF Start, Crash, Reply, BucketOp, ListBuckets, CreateMissingBucket,
                  DeleteExtraBucket, ListActualIAM, CreateMissingUser, DeleteExtraUser,
                  readIAM, reloadWeedS3, store
    <3>4. ~Outside
      BY <3>1 DEF Outside, GatewayCrash, GatewayStart, GatewayLoad, ClientBucket
    <3> QED
      BY <3>2, <3>3, <3>4 DEF Next, AgentStep, IamStep
  <2>2. file' = Edited(edit[Agent], file) /\ file \in Bag /\ edit[Agent] \in Edit
    <3>1. file' = Edited(edit[Agent], file) \/ UNCHANGED file
      BY <2>1, AgentWrite
    <3>2. ~UNCHANGED file
      OBVIOUS
    <3>3. file \in Bag /\ edit[Agent] \in Edit
      BY <1>0 DEF TypeOK
    <3> QED
      BY <3>1, <3>2, <3>3
  <2>3. edit[Agent].op = "delete" /\ edit[Agent].name = Admin.name
    <3>1. CASE edit[Agent].op = "delete"
      BY <1>0, <2>2, <3>1 DEF Edited
    <3>2. CASE edit[Agent].op # "delete"
      BY <1>0, <2>2, <3>2 DEF Edited, Bag, Edit
    <3> QED
      BY <3>1, <3>2
  <2>4. Editing
    BY <2>1 DEF writeIAM, At, Editing
  <2>5. cmd.op \in {"iam_delete"} \union SyncOps
    BY <2>3, <2>4 DEF ControlOK, EditOfCommand, IamOps
  <2>6. CASE cmd.op = "iam_delete"
    <3>1. cmd.arg = Admin.name
      BY <2>3, <2>4, <2>6 DEF EditOfCommand, Delete
    <3>2. cmd \in Command
      BY DEF TypeOK
    <3>3. cmd = [op |-> cmd.op, arg |-> cmd.arg]
      BY <3>2 DEF Command
    <3> QED
      BY <2>6, <3>1, <3>3
  <2>7. CASE cmd.op \in SyncOps
    <3>1. UsersListed /\ AdminTargeted
      BY <2>3, <2>4, <2>7 DEF UsersListed, AdminTargeted
    <3>2. Namesake
      BY <3>1 DEF NamesakeKept
    <3>3. Admin.name \notin NamesOf(want.iam)
      BY <2>3, <2>4, <3>1 DEF UserDiff
    <3> QED
      BY <2>7, <3>2, <3>3 DEF Namesake, isSystemAdmin
  <2> QED
    BY <2>5, <2>6, <2>7
<1> QED
  BY <1>1, S3Typing, Control, Freshness, Diff, EditsAsked, NamesakeFirst, NobodyOvertaken, PTL
  DEF Spec, AdminLossExplained

-----------------------------------------------------------------------------
(* What Reconcile has reached.                                                *)

\* An error once collected stays until the command is answered.
LEMMA Collected ==
    ASSUME NEW ok, errs' = Collect(ok), ~errs'
    PROVE  ~errs /\ ok
BY Zenon DEF Collect

\* The progress of the user half, seen from what it is made of.
LEMMA ProgressKept ==
    ASSUME UserProgress, ~errs' => ~errs, UNCHANGED <<file, want>>,
           UsersListed' => UsersListed,
           \A u \in add : u \in add' \/ Unwritten(Create(u))',
           \A i \in Identity : del[i] > 0 => del'[i] > 0 \/ Unwritten(Delete(i.name))',
           \A e : Unwritten(e) => Unwritten(e)'
    PROVE  UserProgress'
BY DEF UserProgress, Listed, ListIAM, NamesOf

\* As long as it has collected no error, the user half of Reconcile has every
\* difference behind it or still before it.
LEMMA UserHalf ==
    ASSUME Ctls = {}
    PROVE  Spec => []UserProgress
<1>0. Agent \in Procs
  BY DEF Procs
<1>1. Init => UserProgress
  BY DEF Init, UserProgress, UsersListed, Boot, SyncOps
<1>2. /\ TypeOK /\ ControlOK /\ ReadIsFresh /\ overtaken = {} /\ UserDiff /\ UserProgress
      /\ [Next]_vars
      => UserProgress'
  <2> SUFFICES ASSUME TypeOK, ControlOK, ReadIsFresh, overtaken = {}, UserDiff, UserProgress,
                      [Next]_vars
               PROVE  UserProgress'
    OBVIOUS
  <2>1. CASE Dispatch \/ Start \/ Crash \/ Reply \/ BucketOp
    BY <2>1, OutOfSync DEF UserProgress
  <2>2. CASE ListBuckets \/ CreateMissingBucket \/ DeleteExtraBucket
    BY <2>2, BeforeUsers DEF UserProgress
  <2>3. CASE ListActualIAM
    <3>1. CASE add' = MissingUsers /\ del' = ExtraIdentities
      <4>1. want' = want /\ file' = file
        BY <2>3 DEF ListActualIAM, store
      <4>2. \A u \in want.iam : u \in MissingUsers \/ Listed(u)
        BY DEF MissingUsers, Listed, ListIAM, NamesOf
      <4>3. \A i \in ListIAM(file) :
               i.name \in NamesOf(want.iam) \/ ExtraIdentities[i] > 0
        BY DEF ExtraIdentities, ListIAM
      <4> QED
        BY <3>1, <4>1, <4>2, <4>3 DEF UserProgress, Listed, ListIAM, NamesOf
    <3>2. CASE pc'[Agent] = "reply" /\ status' = "failed"
      BY <3>2 DEF UserProgress, UsersListed, Completed, Editing, At
    <3> QED
      BY <1>0, <2>3, <3>1, <3>2 DEF ListActualIAM, Finish, Goto, TypeOK
  <2>4. CASE CreateMissingUser \/ DeleteExtraUser
    <3>1. UsersListed /\ UNCHANGED <<file, want, errs>> /\ pc[Agent] \in {"addIAM", "delIAM"}
      BY <2>4 DEF CreateMissingUser, DeleteExtraUser, UsersListed, ControlOK, At, store
    <3>2. \A e : ~Unwritten(e)
      BY <3>1 DEF Unwritten
    <3>3. CASE UNCHANGED <<add, del>>
      BY <3>1, <3>2, <3>3, ProgressKept
    <3>4. ASSUME NEW u \in add, add' = add \ {u}, pc'[Agent] = "read", del' = del,
                 edit'[Agent] = Create(u)
          PROVE  UserProgress'
      <4>1. Unwritten(Create(u))'
        BY <3>4 DEF Unwritten, Create
      <4> QED
        BY <3>1, <3>2, <3>4, <4>1, ProgressKept
    <3>5. ASSUME NEW i \in Pending(del), del' = Advance(del, i), pc'[Agent] = "read",
                 add' = add, edit'[Agent] = Delete(i.name)
          PROVE  UserProgress'
      <4>1. Unwritten(Delete(i.name))'
        BY <3>5 DEF Unwritten, Delete
      <4>2. \A j \in Identity : del[j] > 0 => del'[j] > 0 \/ j = i
        BY <3>5 DEF Advance, Pending, TypeOK, Bag
      <4> QED
        BY <3>1, <3>2, <3>5, <4>1, <4>2, ProgressKept
    <3> QED
      BY <1>0, <2>4, <3>3, <3>4, <3>5 DEF CreateMissingUser, DeleteExtraUser, Goto, TypeOK
  <2>5. CASE IamStep(Agent)
    <3>1. Editing /\ UNCHANGED <<cmd, want, add, del>>
      BY <2>5 DEF IamStep, readIAM, writeIAM, reloadWeedS3, At, Editing
    <3> SUFFICES ASSUME cmd.op \in SyncOps, ~errs' PROVE UserProgress'
      BY <3>1 DEF UserProgress, UsersListed
    <3>2. UsersListed /\ edit[Agent].op \in {"create", "delete"}
      BY <3>1 DEF UsersListed, ControlOK, SyncOps
    <3>3. ~Return(Agent, FALSE)
      <4>1. Return(Agent, FALSE) => errs' = Collect(FALSE)
        BY <3>1, AgentReturn DEF SyncOps, IamOps
      <4> QED
        BY <4>1, Collected
    <3>4. CASE readIAM(Agent)
      <4>1. ~Present(edit[Agent], file)
        BY <3>2 DEF Present
      <4>2. Goto(Agent, "write") /\ UNCHANGED <<edit, errs, file>>
        BY <3>3, <3>4, <4>1 DEF readIAM, store
      <4>3. \A e : Unwritten(e) => Unwritten(e)'
        BY <1>0, <4>2 DEF Unwritten, Goto, TypeOK
      <4> QED
        BY <3>1, <3>2, <4>2, <4>3, ProgressKept
    <3>5. CASE writeIAM(Agent)
      <4>1. file' = Edited(edit[Agent], file) /\ UNCHANGED <<edit, errs>>
        BY <3>3, <3>5, AgentWrite
      <4>2. file \in Bag /\ edit[Agent] \in Edit /\ want.iam \subseteq Identity
        BY <1>0 DEF TypeOK, Payload, Identity
      <4>3. ~errs
        BY <4>1
      <4>4. CASE edit[Agent].op = "create"
        <5>1. edit[Agent].id \in want.iam /\ edit[Agent].id \in Identity
          BY <3>1, <3>2, <4>2, <4>4 DEF UserDiff
        <5>2. file' = [file EXCEPT ![edit[Agent].id] = @ + 1]
          BY <4>1, <4>4 DEF Edited
        <5>3. \A i \in Identity : file[i] > 0 => file'[i] > 0
          BY <4>2, <5>1, <5>2 DEF Bag
        <5>4. \A u \in want.iam : Unwritten(Create(u)) => u = edit[Agent].id
          BY DEF Unwritten, Create
        <5>5. file'[edit[Agent].id] > 0
          BY <4>2, <5>1, <5>2 DEF Bag
        <5>6. edit[Agent].id \in Users
          BY <5>1 DEF TypeOK, Payload
        <5>7. ASSUME NEW u \in want.iam, u = edit[Agent].id PROVE Listed(u)'
          BY <5>1, <5>5, <5>6, <5>7 DEF Listed, KeysReserved
        <5>8. \A u \in want.iam : Listed(u) => Listed(u)'
          BY <5>3 DEF Listed
        <5>9. \A u \in want.iam : u \in add \/ Listed(u)'
          BY <3>2, <4>3, <5>4, <5>7, <5>8 DEF UserProgress
        <5>10. \A i \in ListIAM(file') : i \in ListIAM(file) \/ i = edit[Agent].id
          BY <4>2, <5>1, <5>2 DEF ListIAM, Bag
        <5>11. \A i \in Identity : ~Unwritten(Delete(i.name))
          BY <4>4 DEF Unwritten, Delete
        <5>12. edit[Agent].id.name \in NamesOf(want.iam)
          BY <5>1 DEF NamesOf
        <5>13. \A i \in ListIAM(file') : i.name \in NamesOf(want.iam) \/ del[i] > 0
          BY <3>2, <4>3, <5>10, <5>11, <5>12 DEF UserProgress, ListIAM
        <5> QED
          BY <3>1, <5>9, <5>13 DEF UserProgress, NamesOf
      <4>5. CASE edit[Agent].op = "delete"
        <5>1. edit[Agent].name \notin NamesOf(want.iam)
          BY <3>1, <3>2, <4>5 DEF UserDiff
        <5>2. file' = [i \in Identity |-> IF i.name = edit[Agent].name THEN 0 ELSE file[i]]
          BY <4>1, <4>5 DEF Edited
        <5>3. \A u \in want.iam : ~Unwritten(Create(u))
          BY <4>5 DEF Unwritten, Create
        <5>4. \A u \in want.iam : u.name # edit[Agent].name
          BY <5>1 DEF NamesOf
        <5>5. \A u \in want.iam : Listed(u) => Listed(u)'
          BY <5>2, <5>4 DEF Listed
        <5>6. \A u \in want.iam : u \in add \/ Listed(u)'
          BY <3>2, <4>3, <5>3, <5>5 DEF UserProgress
        <5>7. \A i \in ListIAM(file') : i \in ListIAM(file) /\ i.name # edit[Agent].name
          BY <4>2, <5>2 DEF ListIAM, Bag
        <5>8. \A i \in Identity : Unwritten(Delete(i.name)) => i.name = edit[Agent].name
          BY DEF Unwritten, Delete
        <5>9. \A i \in ListIAM(file') : i.name \in NamesOf(want.iam) \/ del[i] > 0
          BY <3>2, <4>3, <5>7, <5>8 DEF UserProgress, ListIAM
        <5> QED
          BY <3>1, <5>6, <5>9 DEF UserProgress, NamesOf
      <4> QED
        BY <3>2, <4>4, <4>5
    <3>6. CASE reloadWeedS3(Agent)
      <4>1. Return(Agent, TRUE) /\ UNCHANGED file /\ At(Agent, "reload")
        BY <3>3, <3>6 DEF reloadWeedS3
      <4>2. errs' = Collect(TRUE)
        BY <3>1, <4>1, AgentReturn DEF SyncOps, IamOps
      <4>3. ~errs
        BY <4>2, Collected
      <4>4. \A e : ~Unwritten(e)
        BY <4>1 DEF Unwritten, At
      <4> QED
        BY <3>1, <3>2, <4>1, <4>3, <4>4, ProgressKept
    <3> QED
      BY <2>5, <3>4, <3>5, <3>6 DEF IamStep
  <2>6. CASE Outside \/ UNCHANGED vars
    <3>1. /\ UNCHANGED <<file, cmd, status, want, add, del, errs>>
          /\ pc'[Agent] = pc[Agent] /\ edit'[Agent] = edit[Agent]
      BY <2>6 DEF Outside, GatewayCrash, GatewayStart, GatewayLoad, ClientBucket, sync, vars
    <3> QED
      BY <3>1, ListedKept, ProgressKept
  <2> QED
    BY <2>1, <2>2, <2>3, <2>4, <2>5, <2>6 DEF Next, AgentStep
<1> QED
  BY <1>1, <1>2, S3Typing, Control, Freshness, Diff, NobodyOvertaken, PTL DEF Spec

\* Steps after the bucket half that leave the buckets alone.
LEMMA BucketProgressKept ==
    ASSUME BucketProgress, ~errs' => ~errs, UNCHANGED <<buckets, want, mk, rm, touched>>,
           BucketsListed' => BucketsListed,
           BucketsListed' /\ pc[Agent] = "mkBuckets" => pc'[Agent] = "mkBuckets",
           BucketsListed' /\ pc[Agent] = "rmBuckets" => pc'[Agent] = "rmBuckets"
    PROVE  BucketProgress'
BY DEF BucketProgress

\* As long as it has collected no error, Reconcile has every bucket nobody else
\* touches as desired or still on its lists.
LEMMA BucketHalf == Spec => []BucketProgress
<1>0. Agent \in Procs
  BY DEF Procs
<1>1. Init => BucketProgress
  BY DEF Init, BucketProgress, BucketsListed, Boot, SyncOps
<1>2. TypeOK /\ ControlOK /\ BucketProgress /\ [Next]_vars => BucketProgress'
  <2> SUFFICES ASSUME TypeOK, ControlOK, BucketProgress, [Next]_vars PROVE BucketProgress'
    OBVIOUS
  <2>1. CASE Dispatch \/ Start \/ Crash \/ Reply \/ BucketOp
    BY <2>1, OutOfSync DEF BucketProgress
  <2>2. CASE ListBuckets
    <3>1. CASE /\ mk' = want.buckets \ buckets /\ rm' = buckets \ want.buckets
               /\ pc'[Agent] = "mkBuckets"
      <4>1. UNCHANGED <<want, buckets>>
        BY <2>2 DEF ListBuckets, store
      <4> QED
        BY <3>1, <4>1 DEF BucketProgress
    <3>2. CASE pc'[Agent] = "reply" /\ status' = "failed"
      BY <3>2 DEF BucketProgress, BucketsListed, Completed, Editing, At
    <3> QED
      BY <1>0, <2>2, <3>1, <3>2 DEF ListBuckets, Finish, Goto, TypeOK
  <2>3. CASE CreateMissingBucket
    <3>1. UNCHANGED <<want, rm, touched>> /\ BucketsListed /\ pc[Agent] = "mkBuckets"
      BY <2>3 DEF CreateMissingBucket, BucketsListed, ControlOK, At
    <3>2. CASE mk = {} /\ pc'[Agent] = "rmBuckets" /\ UNCHANGED <<buckets, mk, errs>>
      BY <3>1, <3>2 DEF BucketProgress
    <3>3. ASSUME NEW c \in mk, NEW ok \in BOOLEAN, CreateBucket(c, ok), mk' = mk \ {c},
                 errs' = Collect(ok), UNCHANGED pc
          PROVE  BucketProgress'
      <4>1. ~errs' => ~errs /\ buckets' = buckets \union {c}
        BY <3>3, Collected DEF CreateBucket, Request
      <4>2. c \in want.buckets
        BY <3>1, <3>3 DEF BucketProgress
      <4> QED
        BY <3>1, <3>3, <4>1, <4>2 DEF BucketProgress
    <3> QED
      BY <1>0, <2>3, <3>2, <3>3 DEF CreateMissingBucket, Goto, TypeOK
  <2>4. CASE DeleteExtraBucket
    <3>1. UNCHANGED <<want, mk, touched>> /\ BucketsListed /\ pc[Agent] = "rmBuckets"
      BY <2>4 DEF DeleteExtraBucket, BucketsListed, ControlOK, At
    <3>2. CASE rm = {} /\ pc'[Agent] = "listIAM" /\ UNCHANGED <<buckets, rm, errs>>
      BY <3>1, <3>2 DEF BucketProgress
    <3>3. ASSUME NEW c \in rm, NEW ok \in BOOLEAN, DeleteBucket(c, ok), rm' = rm \ {c},
                 errs' = Collect(ok), UNCHANGED pc
          PROVE  BucketProgress'
      <4>1. ~errs' => ~errs /\ buckets' = buckets \ {c}
        BY <3>3, Collected DEF DeleteBucket, Request
      <4>2. c \notin want.buckets
        BY <3>1, <3>3 DEF BucketProgress
      <4> QED
        BY <3>1, <3>3, <4>1, <4>2 DEF BucketProgress
    <3> QED
      BY <1>0, <2>4, <3>2, <3>3 DEF DeleteExtraBucket, Goto, TypeOK
  <2>5. CASE ListActualIAM \/ CreateMissingUser \/ DeleteExtraUser
    <3>1. UNCHANGED <<cmd, buckets, want, mk, rm, touched, errs>>
      BY <2>5 DEF ListActualIAM, CreateMissingUser, DeleteExtraUser, store
    <3>2. BucketsListed /\ pc[Agent] \notin {"mkBuckets", "rmBuckets"}
      BY <2>5 DEF ListActualIAM, CreateMissingUser, DeleteExtraUser, BucketsListed,
                  ControlOK, At
    <3> QED
      BY <3>1, <3>2, BucketProgressKept
  <2>6. CASE IamStep(Agent)
    <3>1. UNCHANGED <<cmd, buckets, want, mk, rm, touched>> /\ Editing
      BY <2>6 DEF IamStep, readIAM, writeIAM, reloadWeedS3, store, Editing, At
    <3>2. pc[Agent] \notin {"mkBuckets", "rmBuckets"}
      BY <3>1 DEF Editing
    <3>3. BucketsListed' => BucketsListed
      BY <3>1 DEF BucketsListed
    <3>4. CASE cmd.op \notin SyncOps
      BY <3>1, <3>4 DEF BucketProgress, BucketsListed
    <3>5. CASE cmd.op \in SyncOps
      <4>1. errs' = errs \/ \E ok \in BOOLEAN : errs' = Collect(ok)
        BY <2>6, <3>1, <3>5, AgentReturn
        DEF IamStep, readIAM, writeIAM, reloadWeedS3, Written, SyncOps, IamOps
      <4>2. ~errs' => ~errs
        BY <4>1, Collected
      <4> QED
        BY <3>1, <3>2, <3>3, <4>2, BucketProgressKept
    <3> QED
      BY <3>4, <3>5
  <2>7. ASSUME NEW p \in Ctls, CtlStep(p) PROVE BucketProgress'
    <3>1. UNCHANGED buckets
      BY <2>7 DEF CtlStep, IamStep, readIAM, writeIAM, reloadWeedS3, CtlIam, CtlAbort, store
    <3> QED
      BY <2>7, <3>1, CtlLeavesAgent, ListedKept, BucketProgressKept
  <2>8. ASSUME NEW c \in Buckets, ClientBucket(c) PROVE BucketProgress'
    <3>1. /\ UNCHANGED <<cmd, status, want, mk, rm, errs, pc, edit>>
          /\ touched' = touched \union {c}
          /\ buckets' \in {buckets \union {c}, buckets \ {c}}
      BY <2>8 DEF ClientBucket, sync
    <3>2. BucketsListed' <=> BucketsListed
      BY <3>1, ListedKept
    <3> QED
      BY <3>1, <3>2 DEF BucketProgress
  <2>9. CASE GatewayCrash \/ GatewayStart \/ GatewayLoad \/ UNCHANGED vars
    <3>1. UNCHANGED <<cmd, status, want, mk, rm, errs, pc, edit, touched, buckets>>
      BY <2>9 DEF GatewayCrash, GatewayStart, GatewayLoad, sync, vars
    <3> QED
      BY <3>1, ListedKept, BucketProgressKept
  <2> QED
    BY <2>1, <2>2, <2>3, <2>4, <2>5, <2>6, <2>7, <2>8, <2>9 DEF Next, AgentStep, Outside
<1> QED
  BY <1>1, <1>2, S3Typing, Control, PTL DEF Spec

\* What a sync without error has reached, from the progress of its two halves.
LEMMA DoneIsReached ==
    ASSUME TypeOK, BucketProgress, UserDiff, UserProgress, SyncDone
    PROVE  /\ \A c \in Buckets \ touched : c \in buckets <=> c \in want.buckets
           /\ \A u \in want.iam : Listed(u)
           /\ \A i \in ListIAM(file) : i.name \in NamesOf(want.iam)
<1>1. BucketsListed /\ UsersListed /\ ~errs /\ pc[Agent] = "reply"
  BY DEF SyncDone, BucketsListed, UsersListed, Completed, At
<1>2. mk = {} /\ rm = {} /\ add = {} /\ del = Empty
  BY <1>1 DEF BucketProgress, UserDiff, At
<1>3. \A e : ~Unwritten(e)
  BY <1>1 DEF Unwritten
<1>4. \A i \in Identity : ~(del[i] > 0)
  BY <1>2 DEF Empty
<1>5. \A i \in ListIAM(file) : i \in Identity
  BY DEF ListIAM
<1> QED
  BY <1>1, <1>2, <1>3, <1>4, <1>5 DEF BucketProgress, UserProgress

\* For any desired state, first file, faults and interference with the buckets,
\* with the agent as the only writer of s3.json: a full_sync or reconcile that
\* collected no error has made the actual state the desired one (Reconcile).
THEOREM ErrorFreeSyncConvergesAlways ==
    ASSUME Ctls = {}
    PROVE  Spec => []ErrorFreeSyncConverges
<1>1. TypeOK /\ BucketProgress /\ UserDiff /\ UserProgress => ErrorFreeSyncConverges
  BY DoneIsReached DEF ErrorFreeSyncConverges, Listed
<1> QED
  BY <1>1, S3Typing, BucketHalf, Diff, UserHalf, PTL DEF Spec

-----------------------------------------------------------------------------
(* A sync of a settled state is quiet.                                        *)

\* A step that touches neither file nor buckets keeps a settled state settled.
LEMMA SettledKept ==
    ASSUME SettledIsReached, settled' \subseteq settled,
           UNCHANGED <<file, buckets>> \/ settled' = {}
    PROVE  SettledIsReached'
BY DEF SettledIsReached, Listed, ListIAM

\* A step that leaves the lists of the diff alone keeps a settled sync idle.
LEMMA IdleKept ==
    ASSUME SettledSyncIdle, settled' \subseteq settled, UNCHANGED <<want, mk, rm, add, del>>,
           BucketsListed' => BucketsListed, UsersListed' => UsersListed,
           UsersListed' /\ Editing' => Editing
    PROVE  SettledSyncIdle'
BY DEF SettledSyncIdle

\* A settled state stays the actual one until someone disturbs it.
LEMMA Settled ==
    ASSUME Ctls = {}
    PROVE  Spec => [](SettledIsReached /\ SettledSyncIdle)
<1>0. Agent \in Procs
  BY DEF Procs
<1>1. Init => SettledIsReached /\ SettledSyncIdle
  BY DEF Init, SettledIsReached, SettledSyncIdle
<1>2. /\ TypeOK /\ ControlOK /\ BucketProgress /\ UserDiff /\ UserProgress
      /\ SettledIsReached /\ [Next]_vars
      => SettledIsReached'
  <2> SUFFICES ASSUME TypeOK, ControlOK, BucketProgress, UserDiff, UserProgress,
                      SettledIsReached, [Next]_vars
               PROVE  SettledIsReached'
    OBVIOUS
  <2>1. CASE Reply
    <3>1. UNCHANGED <<file, buckets>>
      BY <2>1 DEF Reply, store
    <3>2. CASE settled' = settled
      BY <3>1, <3>2, SettledKept
    <3>3. CASE /\ cmd.op \in SyncOps /\ status = "completed" /\ ~errs /\ touched = {}
               /\ settled' = {want}
      <4>1. SyncDone
        BY <2>1, <3>3 DEF Reply, SyncDone
      <4>2. buckets \subseteq Buckets /\ want.buckets \subseteq Buckets
        BY DEF TypeOK, Payload
      <4>3. \A c \in Buckets : c \in buckets <=> c \in want.buckets
        BY <3>3, <4>1, DoneIsReached
      <4>4. buckets = want.buckets
        BY <4>2, <4>3
      <4> QED
        BY <3>1, <3>3, <4>1, <4>4, DoneIsReached DEF SettledIsReached, Listed, ListIAM
    <3> QED
      BY <2>1, <3>2, <3>3 DEF Reply
  <2>2. CASE Dispatch
    BY <2>2, SettledKept DEF Dispatch, DispatchRejected, DispatchBucket, DispatchIam,
                             DispatchFullSync, DispatchReconcile, store
  <2>3. CASE Start \/ Crash \/ BucketOp \/ ListBuckets \/ CreateMissingBucket
             \/ DeleteExtraBucket \/ ListActualIAM \/ CreateMissingUser \/ DeleteExtraUser
    BY <2>3, SettledKept DEF Start, Crash, BucketOp, ListBuckets, CreateMissingBucket,
         DeleteExtraBucket, ListActualIAM, CreateMissingUser, DeleteExtraUser, store
  <2>4. CASE IamStep(Agent)
    BY <2>4, SettledKept DEF IamStep, readIAM, writeIAM, reloadWeedS3, store
  <2>5. CASE Outside \/ UNCHANGED vars
    BY <2>5, SettledKept DEF Outside, GatewayCrash, GatewayStart, GatewayLoad, ClientBucket,
                             vars
  <2> QED
    BY <2>1, <2>2, <2>3, <2>4, <2>5 DEF Next, AgentStep
<1>3. /\ TypeOK /\ ControlOK /\ SettledIsReached /\ SettledSyncIdle /\ [Next]_vars
      => SettledSyncIdle'
  <2> SUFFICES ASSUME TypeOK, ControlOK, SettledIsReached, SettledSyncIdle, [Next]_vars
               PROVE  SettledSyncIdle'
    OBVIOUS
  <2>1. CASE Dispatch \/ Start \/ Crash \/ Reply \/ BucketOp
    BY <2>1, OutOfSync DEF SettledSyncIdle
  <2>2. CASE ListBuckets
    <3>1. ~UsersListed' /\ UNCHANGED <<want, buckets, settled>>
      BY <2>2, BeforeUsers DEF ListBuckets, store
    <3>2. CASE mk' = want.buckets \ buckets /\ rm' = buckets \ want.buckets
      BY <3>1, <3>2 DEF SettledSyncIdle, SettledIsReached
    <3>3. CASE pc'[Agent] = "reply" /\ status' = "failed"
      BY <3>1, <3>3 DEF SettledSyncIdle, BucketsListed, Completed, Editing, At
    <3> QED
      BY <1>0, <2>2, <3>2, <3>3 DEF ListBuckets, Finish, Goto, TypeOK
  <2>3. CASE CreateMissingBucket \/ DeleteExtraBucket
    <3>1. ~UsersListed' /\ BucketsListed /\ UNCHANGED want
      BY <2>3, BeforeUsers DEF CreateMissingBucket, DeleteExtraBucket, BucketsListed,
                               ControlOK, At
    <3>2. settled' = {} \/ UNCHANGED <<settled, mk, rm>>
      BY <2>3 DEF CreateMissingBucket, DeleteExtraBucket
    <3> QED
      BY <3>1, <3>2 DEF SettledSyncIdle
  <2>4. CASE ListActualIAM
    <3>1. BucketsListed /\ UNCHANGED <<want, settled, mk, rm>>
      BY <2>4 DEF ListActualIAM, BucketsListed, ControlOK, At
    <3>2. CASE add' = MissingUsers /\ del' = ExtraIdentities /\ pc'[Agent] = "addIAM"
      <4> SUFFICES ASSUME KeysReserved, want \in settled
                   PROVE  MissingUsers = {} /\ ExtraIdentities = Empty
        BY <3>1, <3>2 DEF SettledSyncIdle, Editing
      <4>1. \A u \in want.iam : \E i \in ListIAM(file) : i.name = u.name
        BY DEF SettledIsReached, Listed, ListIAM
      <4>2. MissingUsers = {}
        BY <4>1 DEF MissingUsers, NamesOf
      <4>3. \A i \in ListIAM(file) : i.name \in NamesOf(want.iam)
        BY DEF SettledIsReached
      <4>4. ExtraIdentities = Empty
        BY <4>3 DEF ExtraIdentities, Empty
      <4> QED
        BY <4>2, <4>4
    <3>3. CASE pc'[Agent] = "reply" /\ status' = "failed"
      BY <3>3 DEF SettledSyncIdle, BucketsListed, UsersListed, Completed, Editing, At
    <3> QED
      BY <1>0, <2>4, <3>2, <3>3 DEF ListActualIAM, Finish, Goto, TypeOK
  <2>5. CASE CreateMissingUser \/ DeleteExtraUser
    <3>1. UsersListed /\ BucketsListed /\ UNCHANGED <<want, settled, mk, rm>>
      BY <2>5 DEF CreateMissingUser, DeleteExtraUser, UsersListed, BucketsListed, ControlOK, At
    <3> SUFFICES ASSUME KeysReserved, want \in settled
                 PROVE  add' = {} /\ del' = Empty /\ ~Editing'
      BY <3>1 DEF SettledSyncIdle
    <3>2. add = {} /\ del = Empty
      BY <3>1 DEF SettledSyncIdle
    <3>3. Pending(del) = {}
      BY <3>2 DEF Pending, Empty
    <3>4. UNCHANGED <<add, del>> /\ pc'[Agent] \in {"delIAM", "reply"}
      BY <1>0, <2>5, <3>2, <3>3 DEF CreateMissingUser, DeleteExtraUser, Finish, Goto, TypeOK
    <3> QED
      BY <3>2, <3>4 DEF Editing
  <2>6. CASE IamStep(Agent)
    <3>1. /\ Editing /\ UNCHANGED <<cmd, want, mk, rm, add, del>>
          /\ settled' \subseteq settled
      BY <2>6 DEF IamStep, readIAM, writeIAM, reloadWeedS3, At, Editing
    <3>2. (BucketsListed' => BucketsListed) /\ (UsersListed' => UsersListed)
      BY <3>1 DEF BucketsListed, UsersListed
    <3> QED
      BY <3>1, <3>2, IdleKept
  <2>7. CASE Outside \/ UNCHANGED vars
    <3>1. /\ UNCHANGED <<cmd, status, want, mk, rm, add, del, pc, edit>>
          /\ settled' \subseteq settled
      BY <2>7 DEF Outside, GatewayCrash, GatewayStart, GatewayLoad, ClientBucket, sync, vars
    <3> QED
      BY <3>1, ListedKept, IdleKept
  <2> QED
    BY <2>1, <2>2, <2>3, <2>4, <2>5, <2>6, <2>7 DEF Next, AgentStep
<1> QED
  BY <1>1, <1>2, <1>3, S3Typing, Control, BucketHalf, Diff, UserHalf, PTL DEF Spec

\* Reconcile is idempotent, with the agent as the only writer and no desired
\* user carrying the admin's key: a sync of a state that an earlier one reached
\* without error, and nobody has disturbed since, changes nothing.
THEOREM SettledSyncIsQuietAlways ==
    ASSUME Ctls = {}, KeysReserved
    PROVE  Spec => []SettledSyncIsQuiet
<1>1. ControlOK /\ SettledSyncIdle => SettledSyncIsQuiet
  BY DEF SettledSyncIdle, SettledSyncIsQuiet, ControlOK, BucketsListed, UsersListed, At
<1> QED
  BY <1>1, Control, Settled, PTL DEF Spec

=============================================================================
