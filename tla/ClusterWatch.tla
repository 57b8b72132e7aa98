---------------------------- MODULE ClusterWatch ----------------------------
(***************************************************************************)
(* Health reporting: Observer.Watch and PollCluster                         *)
(* (internal/modules/s3/observer.go) with the two publisher goroutines that   *)
(* use them (internal/publisher/publisher.go). Watch polls the cluster and    *)
(* publishes s3_health when a snapshot differs significantly from the one     *)
(* before; s3TelemetryLoop polls on its own and publishes every snapshot.     *)
(*                                                                         *)
(* A poll asks one component after the other while the cluster changes.       *)
(* Capacity is a level: 0 below capacity_warn_pct, 1 below                    *)
(* capacity_critical_pct, 2 from there on. Which of several changes           *)
(* trigger_reason names is left out: the snapshot is published whole.         *)
(***************************************************************************)
EXTENDS Naturals, Sequences

CONSTANTS
    Order,       \* the components in the order PollCluster asks them
    Volume,      \* the volume server
    Nginx,       \* nginx, whose API is not probed
    NoSnapshot,  \* Watch's prev before its first poll
    MaxDegraded, \* bound: volumes short of replicas
    MaxChanges,  \* bound: changes of the cluster
    MaxCrashes   \* bound: agent restarts

Components == {Order[i] : i \in 1 .. Len(Order)}
Apis == Components \ {Nginx}
Levels == 0 .. 2
Loops == {"watch", "telemetry"}

\* The state of the cluster, and what a poll saw of it.
Snapshot ==
    [reach : SUBSET Apis, active : SUBSET Components,
     degraded : 0 .. MaxDegraded, level : Levels]

ASSUME OrderAssumption == Order \in Seq(Components) /\ Volume \in Apis
ASSUME SnapshotAssumption == NoSnapshot \notin Snapshot
ASSUME WatchBoundAssumption ==
    MaxDegraded \in Nat /\ MaxChanges \in Nat /\ MaxCrashes \in Nat

VARIABLES
    world,    \* the state of the cluster
    pc,       \* each loop: "idle", "poll", "publish"
    next,     \* index in Order of the component each loop asks next
    cur,      \* the snapshot each loop is taking
    prev,     \* Watch's previous snapshot
    view,     \* components of the last message the platform received
    changes, crashes,
    \* history, of the current run of the agent:
    base,     \* the baseline of Watch, or its last snapshot that was published
    failed    \* an s3_health could not be published since base

vars == <<world, pc, next, cur, prev, view, changes, crashes, base, failed>>

Blank == [reach |-> {}, active |-> {}, degraded |-> 0, level |-> 0]

Init ==
    /\ world = [reach |-> Apis, active |-> Components, degraded |-> 0, level |-> 0]
    /\ pc = [l \in Loops |-> "idle"]
    /\ next = [l \in Loops |-> 1]
    /\ cur = [l \in Loops |-> Blank]
    /\ prev = NoSnapshot
    /\ view = NoSnapshot
    /\ changes = 0 /\ crashes = 0
    /\ base = NoSnapshot
    /\ failed = FALSE

-----------------------------------------------------------------------------
(* The cluster.                                                               *)

Toggled(set, x) == IF x \in set THEN set \ {x} ELSE set \union {x}

Change ==
    /\ changes < MaxChanges
    /\ changes' = changes + 1
    /\ \/ \E c \in Apis : world' = [world EXCEPT !.reach = Toggled(@, c)]
       \/ \E c \in Components : world' = [world EXCEPT !.active = Toggled(@, c)]
       \/ \E n \in 0 .. MaxDegraded : world' = [world EXCEPT !.degraded = n]
       \/ \E n \in Levels : world' = [world EXCEPT !.level = n]
    /\ world' # world
    /\ UNCHANGED <<pc, next, cur, prev, view, crashes, base, failed>>

-----------------------------------------------------------------------------
(* PollCluster, run by both loops.                                            *)

\* The snapshot s with component c asked: a service that cannot be queried
\* counts as inactive, and an unreachable volume server reports no volumes.
Polled_KeepsVolume(s, c) ==
    [reach    |-> IF c \in world.reach THEN s.reach \union {c} ELSE s.reach,
     active   |-> IF c \in world.active THEN s.active \union {c} ELSE s.active,
     degraded |-> IF c = Volume THEN world.degraded ELSE s.degraded,
     level    |-> IF c = Volume THEN world.level ELSE s.level]
Polled(s, c) ==
    [reach    |-> IF c \in world.reach THEN s.reach \union {c} ELSE s.reach,
     active   |-> IF c \in world.active THEN s.active \union {c} ELSE s.active,
     degraded |-> IF c = Volume /\ c \in world.reach THEN world.degraded ELSE s.degraded,
     level    |-> IF c = Volume /\ c \in world.reach THEN world.level ELSE s.level]

StartPoll(l) ==
    /\ pc[l] = "idle"
    /\ pc' = [pc EXCEPT ![l] = "poll"]
    /\ next' = [next EXCEPT ![l] = 1]
    /\ cur' = [cur EXCEPT ![l] = Blank]
    /\ UNCHANGED <<world, prev, view, changes, crashes, base, failed>>

PollComponent(l) ==
    /\ pc[l] = "poll"
    /\ next[l] <= Len(Order)
    /\ cur' = [cur EXCEPT ![l] = Polled(@, Order[next[l]])]
    /\ next' = [next EXCEPT ![l] = @ + 1]
    /\ UNCHANGED <<world, pc, prev, view, changes, crashes, base, failed>>

PolledAll(l) == pc[l] = "poll" /\ next[l] > Len(Order)

-----------------------------------------------------------------------------
(* Watch.                                                                     *)

\* Rising to a threshold is a change, falling below one is not.
CapacityRises_Critical(p, c) == c.level >= 2 /\ p.level < 2
CapacityRises(p, c) == \E t \in {1, 2} : c.level >= t /\ p.level < t

detectChange(p, c) ==
    /\ p # NoSnapshot
    /\ \/ p.reach # c.reach
       \/ p.active # c.active
       \/ (p.degraded > 0) # (c.degraded > 0)
       \/ CapacityRises(p, c)

\* The snapshot becomes prev whether or not it was published.
Unchanged ==
    /\ PolledAll("watch")
    /\ ~detectChange(prev, cur["watch"])
    /\ prev' = cur["watch"]
    /\ base' = IF prev = NoSnapshot THEN cur["watch"] ELSE base
    /\ pc' = [pc EXCEPT !["watch"] = "idle"]
    /\ UNCHANGED <<world, next, cur, view, changes, crashes, failed>>

Changed ==
    /\ PolledAll("watch")
    /\ detectChange(prev, cur["watch"])
    /\ pc' = [pc EXCEPT !["watch"] = "publish"]
    /\ UNCHANGED <<world, next, cur, prev, view, changes, crashes, base, failed>>

\* onChangeFn: a failed publish is logged and not tried again.
PublishHealth ==
    /\ pc["watch"] = "publish"
    /\ pc' = [pc EXCEPT !["watch"] = "idle"]
    /\ prev' = cur["watch"]
    /\ \/ /\ view' = cur["watch"]
          /\ base' = cur["watch"]
          /\ failed' = FALSE
       \/ /\ failed' = TRUE
          /\ UNCHANGED <<view, base>>
    /\ UNCHANGED <<world, next, cur, changes, crashes>>

-----------------------------------------------------------------------------
(* s3TelemetryLoop.                                                           *)

\* Without bucket statistics the snapshot is published all the same.
AfterStats_Skip(ok) == IF ok THEN "publish" ELSE "idle"
AfterStats(ok) == "publish"

BucketStats ==
    /\ PolledAll("telemetry")
    /\ \E ok \in BOOLEAN : pc' = [pc EXCEPT !["telemetry"] = AfterStats(ok)]
    /\ UNCHANGED <<world, next, cur, prev, view, changes, crashes, base, failed>>

PublishTelemetry(ok) ==
    /\ pc["telemetry"] = "publish"
    /\ pc' = [pc EXCEPT !["telemetry"] = "idle"]
    /\ view' = IF ok THEN cur["telemetry"] ELSE view
    /\ UNCHANGED <<world, next, cur, prev, changes, crashes, base, failed>>

-----------------------------------------------------------------------------
\* The agent stops or dies and starts again; Watch begins with a new baseline.
Crash ==
    /\ crashes < MaxCrashes
    /\ crashes' = crashes + 1
    /\ pc' = [l \in Loops |-> "idle"]
    /\ next' = [l \in Loops |-> 1]
    /\ cur' = [l \in Loops |-> Blank]
    /\ prev' = NoSnapshot
    /\ base' = NoSnapshot
    /\ failed' = FALSE
    /\ UNCHANGED <<world, view, changes>>

TelemetryStep ==
    \/ StartPoll("telemetry")
    \/ PollComponent("telemetry")
    \/ BucketStats

Next ==
    \/ Change
    \/ \E l \in Loops : StartPoll(l) \/ PollComponent(l)
    \/ Unchanged
    \/ Changed
    \/ PublishHealth
    \/ BucketStats
    \/ \E ok \in BOOLEAN : PublishTelemetry(ok)
    \/ Crash

Spec == Init /\ [][Next]_vars

\* The tickers keep firing and every request of a poll has a timeout. The NATS
\* client reconnects for ever, so a publish that is tried again and again
\* succeeds in the end. Nothing is asked of Watch's publish.
FairSpec ==
    /\ Spec
    /\ WF_vars(TelemetryStep)
    /\ SF_vars(PublishTelemetry(TRUE))

-----------------------------------------------------------------------------
\* Types of every variable; a snapshot without the volume server has neither
\* degraded volumes nor a capacity.
WatchTypeOK ==
    /\ world \in Snapshot
    /\ pc \in [Loops -> {"idle", "poll", "publish"}]
    /\ next \in [Loops -> 1 .. Len(Order) + 1]
    /\ cur \in [Loops -> Snapshot]
    /\ {prev, view, base} \subseteq Snapshot \union {NoSnapshot}
    /\ \A l \in Loops : Volume \notin cur[l].reach => cur[l].degraded = 0 /\ cur[l].level = 0
    /\ changes \in Nat /\ crashes \in Nat
    /\ failed \in BOOLEAN

\* Between two s3_health messages nothing changed that the platform would act
\* on: what Watch saw last agrees with what it published last (or with its
\* baseline) on every reachability and activity flag and on whether volumes are
\* degraded, and is at no higher capacity level, unless a publish failed.
StaleHealthExplained ==
    prev # NoSnapshot /\ ~failed =>
        /\ prev.reach = base.reach /\ prev.active = base.active
        /\ (prev.degraded > 0) = (base.degraded > 0)
        /\ prev.level <= base.level

\* What the platform can know of the cluster.
Visible(w) == IF Volume \in w.reach THEN w ELSE [w EXCEPT !.degraded = 0, !.level = 0]

\* Once the cluster stops changing, the platform's last word on it becomes and
\* stays right: s3_telemetry repairs a lost s3_health, and a late message with
\* an older snapshot is overtaken (sendS3Telemetry publishes every snapshot).
EventuallyAccurate == <>[](view = Visible(world))

=============================================================================
