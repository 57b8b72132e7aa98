------------------------ MODULE NginxBlockingProofs ------------------------
(* Proofs about NginxBlocking, for any keys and any number of s3dctl.         *)
EXTENDS NginxBlocking, TLAPS

USE BlockProcessAssumption, BlockBoundAssumption

-----------------------------------------------------------------------------
(* Type correctness.                                                          *)

\* The types of NginxBlocking hold throughout, for any number of writers: the
\* file, what nginx serves and every list a writer holds are sets of keys.
THEOREM BlockTyping == Spec => []BlockTypeOK
<1>1. Init => BlockTypeOK
  <2> SUFFICES ASSUME Init PROVE BlockTypeOK
    OBVIOUS
  <2>1. hup \in BOOLEAN /\ debt \in BOOLEAN
    BY Zenon DEF Init
  <2> QED
    BY <2>1 DEF Init, BlockTypeOK, At
<1>2. BlockTypeOK /\ [Next]_vars => BlockTypeOK'
  <2> SUFFICES ASSUME BlockTypeOK, [Next]_vars PROVE BlockTypeOK'
    OBVIOUS
  <2> USE DEF BlockTypeOK, At, Goto
  <2>1. ASSUME NEW p \in Procs, NEW o \in Op, Call(p, o) PROVE BlockTypeOK'
    BY <2>1 DEF Call
  <2>2. ASSUME NEW p \in Procs, NEW o \in op[p], ReadFile(p, o) PROVE BlockTypeOK'
    <3>1. o \in Op
      BY <2>2
    <3>2. Edited(o) \in SUBSET Keys
      BY <3>1 DEF Edited, Op
    <3> QED
      BY <2>2, <3>1, <3>2 DEF ReadFile, Return
  <2>3. ASSUME NEW p \in Procs, WriteFile(p) PROVE BlockTypeOK'
    BY <2>3 DEF WriteFile, Written, Return
  <2>4. ASSUME NEW p \in Procs, reloadNginx(p) PROVE BlockTypeOK'
    BY <2>4 DEF reloadNginx, Return
  <2>5. ASSUME NEW p \in Procs, Crash(p) PROVE BlockTypeOK'
    BY <2>5 DEF Crash, Return
  <2>6. CASE NginxLoad
    BY <2>6 DEF NginxLoad
  <2>7. CASE UNCHANGED vars
    BY <2>7 DEF vars
  <2> QED
    BY <2>1, <2>2, <2>3, <2>4, <2>5, <2>6, <2>7 DEF Next, Step
<1> QED
  BY <1>1, <1>2, PTL DEF Spec
-----------------------------------------------------------------------------
(* Every write is followed by a reload.                                       *)

\* For any number of writers: nginx lags behind the block list only while a
\* reload is under way, owed, or known to have failed (BlockAccessKey,
\* UnblockAccessKey, reloadNginx).
THEOREM StaleBlocksExplainedAlways == Spec => []StaleBlocksExplained
<1>1. Init => StaleBlocksExplained
  BY DEF Init, StaleBlocksExplained
<1>2. BlockTypeOK /\ StaleBlocksExplained /\ [Next]_vars => StaleBlocksExplained'
  <2> SUFFICES ASSUME BlockTypeOK, StaleBlocksExplained, [Next]_vars
               PROVE  StaleBlocksExplained'
    OBVIOUS
  <2> USE DEF StaleBlocksExplained, At, Goto
  <2>0. pc \in [Procs -> {"idle", "read", "write", "reload"}]
    BY DEF BlockTypeOK
  <2>1. ASSUME NEW p \in Procs, NEW o \in Op, Call(p, o) PROVE StaleBlocksExplained'
    BY <2>0, <2>1 DEF Call
  <2>2. ASSUME NEW p \in Procs, NEW o \in op[p], ReadFile(p, o)
        PROVE  StaleBlocksExplained'
    BY <2>0, <2>2 DEF ReadFile, Return
  <2>3. ASSUME NEW p \in Procs, WriteFile(p) PROVE StaleBlocksExplained'
    BY <2>0, <2>3 DEF WriteFile, Written, Return
  <2>4. ASSUME NEW p \in Procs, reloadNginx(p) PROVE StaleBlocksExplained'
    BY <2>0, <2>4 DEF reloadNginx, Return
  <2>5. ASSUME NEW p \in Procs, Crash(p) PROVE StaleBlocksExplained'
    BY <2>0, <2>5 DEF Crash, Return
  <2>6. CASE NginxLoad
    BY <2>6 DEF NginxLoad
  <2>7. CASE UNCHANGED vars
    BY <2>7 DEF vars
  <2> QED
    BY <2>1, <2>2, <2>3, <2>4, <2>5, <2>6, <2>7 DEF Next, Step
<1> QED
  BY <1>1, <1>2, BlockTyping, PTL DEF Spec

-----------------------------------------------------------------------------
(* Lost updates need an overlap.                                              *)

\* What a process that nobody has overtaken is about to write is its edit of
\* the file as it is now, not only as it was when the process read it.
BlockReadIsFresh ==
    \A p \in Procs \ overtaken, o \in Op :
        At(p, "write") /\ op[p] = {o} => buf[p] = Edited(o)

\* A process about to write, and not overtaken, holds the edit of the file as it
\* is now.
LEMMA BlockFreshness == Spec => []BlockReadIsFresh
<1>1. Init => BlockReadIsFresh
  BY DEF Init, BlockReadIsFresh, At
<1>2. BlockTypeOK /\ BlockReadIsFresh /\ [Next]_vars => BlockReadIsFresh'
  <2> SUFFICES ASSUME BlockTypeOK, BlockReadIsFresh, [Next]_vars
               PROVE  BlockReadIsFresh'
    OBVIOUS
  <2> USE DEF BlockReadIsFresh, At, Goto, Edited
  <2>0. /\ pc \in [Procs -> {"idle", "read", "write", "reload"}]
        /\ op \in [Procs -> SUBSET Op]
        /\ buf \in [Procs -> SUBSET Keys]
    BY DEF BlockTypeOK
  <2>1. ASSUME NEW p \in Procs, NEW o \in Op, Call(p, o) PROVE BlockReadIsFresh'
    BY <2>0, <2>1 DEF Call
  <2>2. ASSUME NEW p \in Procs, NEW o \in op[p], ReadFile(p, o)
        PROVE  BlockReadIsFresh'
    <3> SUFFICES ASSUME NEW q \in Procs \ overtaken', NEW r \in Op,
                        At(q, "write")', (op[q] = {r})'
                 PROVE  (buf[q] = Edited(r))'
      BY DEF BlockReadIsFresh
    <3>1. conf' = conf /\ overtaken' = overtaken
      BY <2>2 DEF ReadFile
    <3>2. CASE q = p
      <4>1. op'[p] = {r} /\ pc'[p] = "write"
        BY <3>2
      <4>2. buf'[p] = Edited(o) /\ op' = op
        BY <2>0, <2>2, <4>1 DEF ReadFile, Return
      <4>3. o = r
        BY <4>1, <4>2
      <4> QED
        BY <3>1, <3>2, <4>2, <4>3
    <3>3. CASE q # p
      <4>1. pc'[q] = pc[q] /\ op'[q] = op[q] /\ buf'[q] = buf[q]
        BY <2>0, <2>2, <3>3 DEF ReadFile, Return
      <4> QED
        BY <3>1, <4>1
    <3> QED
      BY <3>2, <3>3
  <2>3. ASSUME NEW p \in Procs, WriteFile(p) PROVE BlockReadIsFresh'
    BY <2>0, <2>3 DEF WriteFile, Written, Return
  <2>4. ASSUME NEW p \in Procs, reloadNginx(p) PROVE BlockReadIsFresh'
    <3>1. \A q \in Procs : At(q, "write")' => At(q, "write") /\ op'[q] = op[q]
      BY <2>0, <2>4 DEF reloadNginx, Return
    <3> QED
      BY <2>4, <3>1 DEF reloadNginx
  <2>5. ASSUME NEW p \in Procs, Crash(p) PROVE BlockReadIsFresh'
    BY <2>0, <2>5 DEF Crash, Return
  <2>6. CASE NginxLoad
    BY <2>6 DEF NginxLoad
  <2>7. CASE UNCHANGED vars
    BY <2>7 DEF vars
  <2> QED
    BY <2>1, <2>2, <2>3, <2>4, <2>5, <2>6, <2>7 DEF Next, Step
<1> QED
  BY <1>1, <1>2, BlockTyping, PTL DEF Spec

\* A block or an unblock is lost or undone only by a writer that was overtaken
\* between its read and its write; any other write changes exactly its own key
\* (BlockAccessKey and UnblockAccessKey, which take no lock on the file).
THEOREM OnlyOverlapLosesBlocksAlways == Spec => OnlyOverlapLosesBlocks
<1>1. BlockTypeOK /\ BlockReadIsFresh /\ [Next]_vars =>
        [\A p \in Procs \ overtaken, o \in Op :
           op[p] = {o} /\ At(p, "write") /\ pc'[p] = "reload" =>
              /\ o.key \in conf' <=> o.kind = "block"
              /\ \A k \in Keys \ {o.key} : k \in conf' <=> k \in conf]_vars
  <2> SUFFICES ASSUME BlockTypeOK, BlockReadIsFresh, Next,
                      NEW p \in Procs \ overtaken, NEW o \in Op,
                      op[p] = {o}, At(p, "write"), pc'[p] = "reload"
               PROVE  /\ o.key \in conf' <=> o.kind = "block"
                      /\ \A k \in Keys \ {o.key} : k \in conf' <=> k \in conf
    OBVIOUS
  <2>0. pc \in [Procs -> {"idle", "read", "write", "reload"}]
    BY DEF BlockTypeOK
  <2>1. WriteFile(p) /\ conf' = buf[p]
    BY <2>0 DEF Next, Step, Call, ReadFile, WriteFile, Written, reloadNginx, Crash,
                NginxLoad, Return, At, Goto
  <2>2. conf' = Edited(o)
    BY <2>1 DEF BlockReadIsFresh
  <2> QED
    BY <2>2 DEF Edited, Op
<1> QED
  BY <1>1, BlockTyping, BlockFreshness, PTL DEF Spec, OnlyOverlapLosesBlocks

=============================================================================
