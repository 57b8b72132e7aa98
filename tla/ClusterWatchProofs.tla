------------------------- MODULE ClusterWatchProofs -------------------------
(* Proofs about ClusterWatch, for any components and bounds.                  *)
EXTENDS ClusterWatch, TLAPS

-----------------------------------------------------------------------------
(* Typing.                                                                    *)

\* A snapshot in which an unreachable volume server has no volumes.
Consistent(s) == Volume \notin s.reach => s.degraded = 0 /\ s.level = 0

\* The snapshot a poll starts from.
LEMMA BlankType == Blank \in Snapshot /\ Consistent(Blank)
BY WatchBoundAssumption DEF Blank, Snapshot, Levels, Consistent

\* A poll adds one component to a snapshot and keeps it consistent.
LEMMA PolledType ==
    ASSUME NEW s \in Snapshot, Consistent(s), world \in Snapshot, NEW c \in Components
    PROVE  Polled(s, c) \in Snapshot /\ Consistent(Polled(s, c))
<1>1. Polled(s, c) \in Snapshot
  BY OrderAssumption DEF Polled, Snapshot
<1>2. Consistent(Polled(s, c))
  BY DEF Polled, Snapshot, Consistent
<1> QED
  BY <1>1, <1>2

\* The cluster changes into a state it can be in.
LEMMA WorldType == ASSUME WatchTypeOK, Change PROVE world' \in Snapshot
<1>1. ASSUME NEW c \in Apis, world' = [world EXCEPT !.reach = Toggled(@, c)]
      PROVE  world' \in Snapshot
  BY <1>1 DEF WatchTypeOK, Snapshot, Toggled
<1>2. ASSUME NEW c \in Components, world' = [world EXCEPT !.active = Toggled(@, c)]
      PROVE  world' \in Snapshot
  BY <1>2 DEF WatchTypeOK, Snapshot, Toggled
<1>3. ASSUME NEW n \in 0 .. MaxDegraded, world' = [world EXCEPT !.degraded = n]
      PROVE  world' \in Snapshot
  BY <1>3 DEF WatchTypeOK, Snapshot
<1>4. ASSUME NEW n \in Levels, world' = [world EXCEPT !.level = n]
      PROVE  world' \in Snapshot
  BY <1>4 DEF WatchTypeOK, Snapshot
<1> QED
  BY <1>1, <1>2, <1>3, <1>4 DEF Change

\* The types hold at the start.
LEMMA WatchTypeInit == Init => WatchTypeOK
<1> SUFFICES ASSUME Init PROVE WatchTypeOK
  OBVIOUS
<1>1. world \in Snapshot
  BY WatchBoundAssumption DEF Init, Snapshot, Levels
<1>2. cur \in [Loops -> Snapshot] /\ \A l \in Loops : Consistent(cur[l])
  BY BlankType DEF Init
<1>3. failed \in BOOLEAN
  BY Zenon DEF Init
<1>4. next \in [Loops -> 1 .. Len(Order) + 1]
  BY OrderAssumption DEF Init
<1> QED
  BY <1>1, <1>2, <1>3, <1>4 DEF Init, WatchTypeOK, Consistent

\* Every step keeps them.
LEMMA WatchTypeNext == WatchTypeOK /\ [Next]_vars => WatchTypeOK'
<1> SUFFICES ASSUME WatchTypeOK, [Next]_vars PROVE WatchTypeOK'
  OBVIOUS
<1>0. cur["watch"] \in Snapshot /\ cur["telemetry"] \in Snapshot
  BY DEF WatchTypeOK, Loops
<1>1. CASE Change
  BY <1>1, WorldType DEF Change, WatchTypeOK
<1>2. ASSUME NEW l \in Loops, StartPoll(l) PROVE WatchTypeOK'
  <2>1. cur' \in [Loops -> Snapshot] /\ \A k \in Loops : Consistent(cur'[k])
    BY <1>2, BlankType DEF StartPoll, WatchTypeOK, Consistent
  <2>2. next' \in [Loops -> 1 .. Len(Order) + 1]
    BY <1>2, OrderAssumption DEF StartPoll, WatchTypeOK
  <2> QED
    BY <1>2, <2>1, <2>2 DEF StartPoll, WatchTypeOK, Consistent
<1>3. ASSUME NEW l \in Loops, PollComponent(l) PROVE WatchTypeOK'
  <2>1. next[l] \in 1 .. Len(Order) /\ Order[next[l]] \in Components
    BY <1>3, OrderAssumption DEF PollComponent, WatchTypeOK, Components
  <2>2. cur[l] \in Snapshot /\ Consistent(cur[l]) /\ world \in Snapshot
    BY DEF WatchTypeOK, Consistent
  <2>3. Polled(cur[l], Order[next[l]]) \in Snapshot /\ Consistent(Polled(cur[l], Order[next[l]]))
    BY <2>1, <2>2, PolledType
  <2>4. cur' \in [Loops -> Snapshot] /\ \A k \in Loops : Consistent(cur'[k])
    BY <1>3, <2>3 DEF PollComponent, WatchTypeOK, Consistent
  <2>5. next' \in [Loops -> 1 .. Len(Order) + 1]
    BY <1>3, <2>1, OrderAssumption DEF PollComponent, WatchTypeOK
  <2> QED
    BY <1>3, <2>4, <2>5 DEF PollComponent, WatchTypeOK, Consistent
<1>4. CASE Unchanged \/ Changed
  BY <1>0, <1>4 DEF Unchanged, Changed, WatchTypeOK, Loops
<1>5. CASE PublishHealth
  <2>1. failed' \in BOOLEAN
    BY <1>5, Zenon DEF PublishHealth
  <2> QED
    BY <1>0, <1>5, <2>1 DEF PublishHealth, WatchTypeOK, Loops
<1>6. CASE BucketStats \/ \E ok \in BOOLEAN : PublishTelemetry(ok)
  BY <1>0, <1>6 DEF BucketStats, AfterStats, PublishTelemetry, WatchTypeOK, Loops
<1>7. CASE Crash
  <2>1. failed' \in BOOLEAN
    BY <1>7, Zenon DEF Crash
  <2>2. next' \in [Loops -> 1 .. Len(Order) + 1]
    BY <1>7, OrderAssumption DEF Crash
  <2>3. cur' \in [Loops -> Snapshot] /\ \A k \in Loops : Consistent(cur'[k])
    BY <1>7, BlankType DEF Crash
  <2> QED
    BY <1>7, <2>1, <2>2, <2>3 DEF Crash, WatchTypeOK, Consistent
<1>8. CASE UNCHANGED vars
  BY <1>8 DEF vars, WatchTypeOK
<1> QED
  BY <1>1, <1>2, <1>3, <1>4, <1>5, <1>6, <1>7, <1>8 DEF Next

\* Every variable keeps its type, and no snapshot has volumes of a server it
\* could not reach (PollCluster, Watch, s3TelemetryLoop).
THEOREM WatchTyping == Spec => []WatchTypeOK
BY WatchTypeInit, WatchTypeNext, PTL DEF Spec

-----------------------------------------------------------------------------
(* What Watch leaves unreported.                                              *)

\* A snapshot p that the platform need not hear of when it knows b.
Agrees(p, b) ==
    /\ p.reach = b.reach /\ p.active = b.active
    /\ (p.degraded > 0) = (b.degraded > 0)
    /\ p.level <= b.level

\* Agreement is a preorder: unreported differences add up to an unreported one.
LEMMA AgreesPreorder ==
    ASSUME NEW a \in Snapshot, NEW b \in Snapshot, NEW c \in Snapshot
    PROVE  Agrees(a, a) /\ (Agrees(a, b) /\ Agrees(b, c) => Agrees(a, c))
<1>1. a.level \in Nat /\ b.level \in Nat /\ c.level \in Nat
  BY DEF Snapshot, Levels
<1> QED
  BY <1>1 DEF Agrees

\* A snapshot that detectChange lets pass agrees with the one before.
LEMMA UndetectedAgrees ==
    ASSUME NEW p \in Snapshot, NEW c \in Snapshot, ~detectChange(p, c)
    PROVE  Agrees(c, p)
<1>1. p.level \in 0 .. 2 /\ c.level \in 0 .. 2
  BY DEF Snapshot, Levels
<1>2. ~CapacityRises(p, c) => c.level <= p.level
  BY <1>1 DEF CapacityRises
<1>3. p.reach = c.reach /\ p.active = c.active /\ (p.degraded > 0) = (c.degraded > 0)
      /\ ~CapacityRises(p, c)
  BY SnapshotAssumption DEF detectChange
<1> QED
  BY <1>2, <1>3 DEF Agrees

\* The inductive invariant: as soon as Watch has a previous snapshot it has a
\* baseline, and unless a publish failed the two agree. There is one before
\* anything is published.
WatchInv ==
    /\ prev # NoSnapshot => base # NoSnapshot /\ (~failed => Agrees(prev, base))
    /\ pc["watch"] = "publish" => prev # NoSnapshot

\* Every step keeps the account of what the platform was told.
LEMMA WatchInvNext == WatchTypeOK /\ WatchInv /\ [Next]_vars => WatchInv'
<1> SUFFICES ASSUME WatchTypeOK, WatchInv, [Next]_vars PROVE WatchInv'
  OBVIOUS
<1>0. /\ cur["watch"] \in Snapshot
      /\ prev # NoSnapshot => prev \in Snapshot
      /\ base # NoSnapshot => base \in Snapshot
  BY DEF WatchTypeOK, Loops
<1>1. CASE UNCHANGED <<prev, base, failed>> /\ (pc'["watch"] = "publish" => prev # NoSnapshot)
  BY <1>1 DEF WatchInv, Agrees
<1>2. CASE Unchanged
  <2>1. CASE prev = NoSnapshot
    BY <1>0, <1>2, <2>1, AgreesPreorder, SnapshotAssumption
       DEF Unchanged, WatchInv, WatchTypeOK, Loops
  <2>2. CASE prev # NoSnapshot
    <3>1. Agrees(cur["watch"], prev)
      BY <1>0, <1>2, <2>2, UndetectedAgrees DEF Unchanged
    <3>2. base \in Snapshot /\ base # NoSnapshot /\ (~failed => Agrees(prev, base))
      BY <1>0, <2>2 DEF WatchInv
    <3>3. ~failed => Agrees(cur["watch"], base)
      BY <1>0, <2>2, <3>1, <3>2, AgreesPreorder
    <3>4. base' = base /\ failed' = failed /\ prev' = cur["watch"] /\ pc'["watch"] = "idle"
      BY <1>2, <2>2 DEF Unchanged, WatchTypeOK, Loops
    <3> QED
      BY <3>2, <3>3, <3>4 DEF WatchInv, Agrees
  <2> QED
    BY <2>1, <2>2
<1>3. CASE PublishHealth
  <2>0. prev # NoSnapshot => base # NoSnapshot
    BY DEF WatchInv
  <2>1. CASE base' = cur["watch"]
    BY <1>0, <1>3, <2>1, AgreesPreorder, SnapshotAssumption
       DEF PublishHealth, WatchInv, WatchTypeOK, Loops
  <2>2. CASE failed' = TRUE /\ base' = base
    BY <1>3, <2>0, <2>2 DEF PublishHealth, WatchInv, WatchTypeOK, Loops
  <2> QED
    BY <1>3, <2>1, <2>2 DEF PublishHealth
<1>4. CASE Crash
  BY <1>4 DEF Crash, WatchInv, Loops
<1>5. CASE Changed
  <2>1. prev # NoSnapshot
    BY <1>5 DEF Changed, detectChange
  <2> QED
    BY <1>1, <1>5, <2>1 DEF Changed
<1>6. CASE Change \/ BucketStats \/ \E ok \in BOOLEAN : PublishTelemetry(ok)
  <2>1. UNCHANGED <<prev, base, failed>> /\ pc'["watch"] = pc["watch"]
    BY <1>6 DEF Change, BucketStats, PublishTelemetry, WatchTypeOK, Loops
  <2> QED
    BY <1>1, <2>1 DEF WatchInv
<1>7. ASSUME NEW l \in Loops, StartPoll(l) \/ PollComponent(l) PROVE WatchInv'
  <2>1. UNCHANGED <<prev, base, failed>> /\ pc'["watch"] \in {pc["watch"], "poll"}
    BY <1>7 DEF StartPoll, PollComponent, WatchTypeOK, Loops
  <2> QED
    BY <1>1, <2>1 DEF WatchInv
<1>8. CASE UNCHANGED vars
  BY <1>1, <1>8 DEF vars, WatchInv
<1> QED
  BY <1>2, <1>3, <1>4, <1>5, <1>6, <1>7, <1>8 DEF Next

\* Whatever the cluster and the platform do, the last snapshot of Watch differs
\* from its last published one in nothing the platform acts on, unless a
\* publish failed (Watch, detectChange).
THEOREM StaleHealthExplainedAlways == Spec => []StaleHealthExplained
<1>1. Init => WatchInv
  BY DEF Init, WatchInv, Loops
<1>2. WatchInv => StaleHealthExplained
  BY DEF WatchInv, StaleHealthExplained, Agrees
<1> QED
  BY <1>1, <1>2, WatchTyping, WatchInvNext, PTL DEF Spec

=============================================================================
