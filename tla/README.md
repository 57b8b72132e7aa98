# A verification project for s3.agent

This directory holds TLA+ models of the PlusClouds storage agent (`s3d`) and of
`s3dctl`, the TLC configurations that check them on small instances, and TLAPS
proofs of their main invariants. `PROJECT.json` maps every definition to the
source lines it stands for and lists components, runs, mutants, hazards,
findings and theorems.

To check: `tlc -config sync.cfg MCS3Control` (a run), `tlapm S3ControlProofs.tla`
(a module's proofs).

## The system

`s3d` runs beside one SeaweedFS cluster. The platform sends it commands over
NATS; it changes buckets through the S3 gateway (`weed-s3`), users through the
file `s3.json`, blocked keys through an nginx include, and reports telemetry,
health and audit events back. An operator can make the same changes to the two
files with `s3dctl` while the agent runs.

| Component | State | Operations | Talks to |
|---|---|---|---|
| Agent life cycle (`cmd/agent/main.go`) | none on disk | start (identity, EnsureAdmin, connect, subscribe, publisher loops), handle command, stop | everything below |
| NATS client, envelope (`internal/nats`, `internal/protocol`) | connection, with the library's pending queue and reconnect buffer | connect, subscribe, publish, drain | platform |
| Config, ISO identity (`internal/config`, `pkg/isoconfig`) | none; read at every start | `Load`, `Read` | config file, config drive |
| Dispatcher (`internal/dispatcher`) | `lastDesired`, `allowedOps` | `Dispatch`: one command at a time, on the NATS callback goroutine | S3 manager, observer, publisher, executor, services, system |
| S3 manager (`internal/modules/s3/manager.go`) | none; works on `s3.json`, the block list, the gateway | bucket, WORM, IAM and block operations, `Reconcile`, `EnsureAdmin` | gateway (HTTP), files, `systemctl`, `nginx` |
| Observer (`internal/modules/s3/observer.go`) | two log offsets, the audit channel, Watch's previous snapshot | `PollCluster`, `BucketStats`, `FlushTraffic`, `RunAudit`, `Watch` | SeaweedFS APIs, systemd, nginx logs |
| Publisher (`internal/publisher`) | telemetry ticker, interval channel | six goroutines: heartbeat, telemetry, S3 telemetry, audit tailer, audit loop, Watch | NATS client, observer, system |
| System metrics (`internal/modules/system`) | previous I/O sample | `GetDisk`, `GetMetrics`, ... | host |
| Services, executor | none | start, stop, ... ; run a command under a timeout | systemd, processes |
| Signer, output helpers | none | pure | |
| `s3dctl` (`cmd/ctl/main.go`) | none | `iam create/delete`, `blocked add/remove`, read-only commands | the S3 manager's files and services, from its own process |

What is hard to test here:

- **Two writers of a file.** Agent and `s3dctl` read, edit and rewrite `s3.json`
  and the block list without a lock.
- **Two-step effects.** Every edit of a file has to be followed by a restart of
  weed-s3 or a reload of nginx, which may fail, time out, or never run because
  the process died in between.
- **A sync made of many calls**, each of which may fail, be lost or be carried
  out with its answer lost, while clients change buckets.
- **Goroutines sharing a channel or an offset**: `SetTelemetryInterval` against
  `telemetryLoop`, the audit tailer against `auditLoop`, `s3.bucket.stats`
  against `s3TelemetryLoop`, Watch against `s3TelemetryLoop`.
- **Logs that rotate, agents that restart**: offsets and queues are in memory.
- **Buckets made in two requests**: a WORM bucket is created, then given its
  retention; a request given up on may still be carried out later.
- **One handler for all commands**: a program that leaves a descendant holding its
  output, a systemd job whose signal is lost, or a `set_interval` that waits for a value
  `telemetryLoop` took first, holds up every later command.
- **A connection that keeps nothing**: outages, full buffers, a shutdown that does
  not wait for its own drain, credentials revoked while the agent runs.
- **A baseline shared by two callers** and sampled outside its lock (`GetDisk`).

The full list, each at its line, is `hazards` in `PROJECT.json`.

## Modules

| Module | Models | Proofs |
|---|---|---|
| `IdentityStore` | abstract: what the manager promises about `s3.json` and the gateway | |
| `S3Control` | dispatcher commands on buckets and users, `Reconcile`, the IAM operations, `EnsureAdmin`, crash and restart, weed-s3, `s3dctl iam` | `S3ControlProofs` |
| `NginxBlocking` | `s3.customer.block`/`unblock`, `s3dctl blocked`, nginx | `NginxBlockingProofs` |
| `TelemetryInterval` | `telemetry.set_interval`, `telemetryLoop` | `TelemetryIntervalProofs` |
| `NginxLogs` | audit tailer, audit loop, traffic collector, nginx logs and rotation | `NginxLogsProofs` |
| `ClusterWatch` | `PollCluster`, `Watch`, `s3TelemetryLoop`, the platform's view | `ClusterWatchProofs` |
| `BucketSettings` | bucket, WORM and `full_sync` commands as requests on buckets with objects, Object Lock and lifecycle rules | `BucketSettingsProofs` |
| `DiskRates` | `GetDisk` called by `telemetryLoop` and by commands, unsigned counters | `DiskRatesProofs` |
| `CommandExec` | the dispatcher's commands on the host: `Execute`, systemd jobs | `AgentSessionProofs` |
| `AgentSession` | composes `CommandExec` with the process, its identity, the NATS connection, results, capabilities and heartbeats | `AgentSessionProofs` |
| `AtMostOnce` | abstract: what the platform may rely on when it sends commands | |

`MC*` modules fix the constants for TLC. A definition named `X_Y` next to a
definition `X` is a plausible wrong version of `X` (a dropped reload, an
off-by-one); nothing uses it in the model. `PROJECT.json` pairs each with the
property that tells it from the right one.

### S3Control

`file` is `s3.json` as a bag: identity (name and key) to number of copies. Order
never matters to the code; duplicates do, since `CreateIAMUser` appends without
looking. A missing file is the empty bag. The admin's name may occur under a former key
(`FormerAdmins`): `EnsureAdmin` looks for the key in the configuration and appends, so
after that key was changed both are there. `loaded` is what weed-s3 read when it
last started, `gw` its unit, `buckets` what exists. Each process (`Agent`, and
any number of `Ctls`) has a program counter, an `edit` in progress and the
content `buf` it is about to write. The rest are locals of `Reconcile`
(`mk`, `rm`, `add`, `del`, `errs`), the dispatcher's `lastDesired`, and four
history variables used by properties only: `debt`, `touched`, `overtaken`,
`settled`.

One action is one access to the outside: an HTTP request, a read or a rename of
`s3.json`, a `systemctl restart`. `Reconcile` is `ListBuckets`,
`CreateMissingBucket`, `DeleteExtraBucket`, `ListActualIAM`, `CreateMissingUser`,
`DeleteExtraUser`, with `readIAM`, `writeIAM`, `reloadWeedS3` in the last two; the
same three are `iam_create`, `iam_delete`, `EnsureAdmin` and `s3dctl iam`. Order in
the code's slices and maps is left open: loops take their items in any order.

Outcomes: a request may be refused, lost, or carried out with its answer lost; 2xx
means carried out. Reads and writes of the file may fail. `systemctl restart` of a
`Type=simple` unit succeeds before weed-s3 has read its file (`starting`); it may
fail with the old process running, with none, or time out while it goes on.
Params that cannot be decoded reject a command, a full_sync payload fails it.

### NginxBlocking

The include file is the set of keys with an `if` block; `active` is what nginx
enforces, `hup` that it was told to reload. `BlockAccessKey` returns at once when the
key is present, `UnblockAccessKey` only when there is no file.

### TelemetryInterval

The handler's `select`, receive and send are three steps against the loop's. A
Duration is an integer in `-Half .. Half-1` and the product with a second wraps.

### NginxLogs

nginx logs every request to both files, rotated together, so `log` stands for both,
with an offset for each tailer. Offsets count lines, not bytes; a tailer never meets
half a line, because nginx writes whole ones. Which lines count is the line's kind.
`Start` is the code's test for rotation: an offset beyond the end starts over.

### ClusterWatch

A snapshot has the reachable APIs, the active services, the number of degraded
volumes and the capacity level (0, warn, critical). Each of the two loops polls
component by component while the cluster changes. `view` is what the platform was
told last. The text of `trigger_reason`, which names one of several changes, is left
out.

### BucketSettings

`S3Control` knows buckets by name. Here a bucket is a record: does it exist, was it
created with Object Lock, its default retention, whether it has lifecycle rules, its
objects and those of them that are retained. The handler's program counter names the
request it sends next; one action is one request. `Send` gives every outcome of
`doS3`: carried out, refused, or no answer; in the last case the request joins `late`
and is carried out at any later time, or never (`LateRequest`). A PUT of a bucket that
exists is answered with 409 or with 2xx: S3 gateways do either. What the gateway
accepts (`Accepts`, `After`) is external and follows S3: Object Lock needs a bucket
created with it, retained objects are kept. Which objects keep a bucket from being
deleted (`Kept`) is the constant `Refuses`, since it depends on how `weed s3` is started
and on its release: none, retained ones, or any. The agent does not look itself, so no
property relies on a refusal.
`reconcile` runs the same steps as `full_sync` and is in `S3Control`; names in a
`full_sync` may be empty, as in the code.

`start`, `clean`, `sealed` and `unsure` are history. `sealed` is the
retention the platform was last told of, and dies with its bucket; `unsure` marks
buckets whose retention a request without an answer may still change.

### DiskRates

One device and one of its counters: every rate is the same expression over its own
pair of counters. `Stamp` (the clock), `ReadCounters` and `Exchange` (under the lock)
are three steps, since the lock covers only the last. Counters have `Width` bits and
`Minus` wraps. A sample carries, as history, the bytes really moved, so that a report
can be compared with the truth. A device may be replugged and count from zero. The
elapsed time a rate is divided by is left out: properties are about the bytes.

### CommandExec and AgentSession

`CommandExec` is the handler at work: `hpc` is where it is, `left` the calls of
`Execute` to go (`system.update` makes two), `child` the process, `heir` a descendant
that holds the process's output, `job` a call to systemd, `slot` whether the channel of
`set_interval` is full. The deadline kills the child only; `cmd.Run` returns when nobody
holds the output any more. The wait for a job has no deadline, and a job may stay `mute`.
`set_interval` on a full channel waits (`receive`) for the value in it, which
`telemetryLoop` may take first. These are the three ways a command can hold the handler
for ever (`Stuck`); `TelemetryInterval` has the third in detail.

`AgentSession` extends it with the process (`proc`: `off`, `boot`, `start`, `run`,
`drain`), where its identity comes from (`source`: the two metadata files and the
config), the connection, `inbox` and `out`. Of nats.go and the server only what the code
relies on is there, marked external: messages to a missing subscription or a full queue
are gone, `out` is kept over an outage up to `BufferLimit`, an outage takes any number
of messages already handed to the socket, a refused reconnect closes the connection for
good, and a message larger than the server's `max_payload` is refused with the
connection up (`Large` are the commands with such a result; a rejection is short). The
handler only logs an error of `Publish`. A message on the cmd subject is parsed with
version 1 (`v1`) or dropped; its `type` is not looked at. `Connect` includes
`Subscribe`; `Exit` may come at any moment after the signal, since `Drain` works in the
background. The result of a command goes to its `reply_to` or to the evt subject: one
message either way.

`AtMostOnce` has the commands on their way as one queue: a command enters it at the end,
the one at the head is answered, and commands drop out only around an outage or because
their answer is too large (`Drop`). The
queue is written as `ahead`, which has for every command those to be answered before it.
The refinement maps it to `Ahead`: answers in `out` come first, then the command in hand,
then the commands in `inbox`.

## Runs

| Run | Expect | Shows |
|---|---|---|
| `sync` | pass | agent alone: convergence (by name) of an error-free sync, idempotence, how the admin's identity can be lost, completed IAM commands served, refinement of `IdentityStore`, every command answered |
| `shared` | pass | agent and `s3dctl`: edits are lost only by overlapping, no write forgets its restart |
| `blocking` | pass | the same for the block list |
| `interval` | pass | latest interval wins and takes effect; no period below the minimum, overflow included |
| `logs` | pass | audit order and once per run, no request counted twice, lines skipped only by an unnoticed rotation, every mutation published or dropped |
| `watch` | pass | no significant change unreported unless a publish failed; the platform's view becomes right |
| `buckets` | pass | a retention reported as set is in force, a half-made WORM bucket is repaired by a retry, objects go only as a command asked for, a forced delete gets on page by page, every command answered |
| `disk` | pass | a rate is wrong only for an overtaken sample, a replugged device or a whole counter range; reports do not overlap |
| `session` | pass | refinement of `AtMostOnce`; accepted commands are answered unless the answer is too large or lost in an outage or the handler is stuck in one of three ways; no leftovers when a result is sent; capabilities before heartbeats; the agent comes up with a good identity |
| `scope` | violation | `reconcile` of one scope deletes the other kind |
| `stale_sync` | violation | an error-free sync leaves the gateway stale after a failed restart |
| `interval_hang` | violation | `SetTelemetryInterval` waits for ever |

Disagreements between code and docs that need no run are findings in `PROJECT.json`
without one; where a property of a passing run names the case as its exception
(`OnlyOverlapLosesEdits`, `AdminLossExplained`, `OnlyOvertakenSampleMisreports`,
`AcceptedIsAnswered`, `PromiseKept`), the finding says so. Two limits of what the runs
show are among them: a sync converges to the desired names only, since `Reconcile` never
updates a user it keeps; and a plain `bucket_delete` or a sync takes a bucket with its
objects unless the gateway refuses.

### Bounds

- `sync`: one user with two credential sets and a second user, one bucket, two
  desired states that add, keep and remove; two commands, so that one finds what the
  other left; one upset (crash of agent or gateway, or a client's change) at any
  step. `s3.json` starts empty, or with a duplicated identity and the admin's name under
  a former key.
- `shared`: one agent command and two `s3dctl` calls, enough for a read to be
  overtaken by another's write and for the result to be read again. No buckets: they
  are not shared through a file.
- `blocking`: two keys, four calls, one crash, two processes.
- `interval`: three commands; 6-bit durations with four ticks to the second, so
  requests of 9 and 17 s overflow to negative and to small values. The configured
  interval is below the minimum, which the code allows.
- `logs`: three requests, a channel of one, one rotation, one restart: a full
  channel, a batch of two, a rotation noticed and one missed all occur.
- `watch`: the volume server and nginx, three changes (a capacity that rises, falls
  and rises again), one restart.

- `buckets`: one bucket, which the gateway may or may not have; two objects and pages of
  one, so that a page is less than the bucket; two retentions; three commands (a
  half-made WORM bucket, a repair, a deletion) and one request that goes wrong or crash.
  Clients are not bounded. The gateway refuses to delete a bucket for retained objects
  only (`Refuses = "retained"`), as the repository's unit files start it; the run passes
  with the other two values, too, and the proofs are for all. Requests concern one
  bucket each; a second bucket multiplies the states and adds no interaction.
- `disk`: two callers, 2-bit counters and four bytes moved (one wrap, and one whole
  range), clock up to 3, one replug.
- `session`: two commands, so that answers have an order, one with a result that is
  too large; queues of two and one, so
  that both overflow; one heartbeat; two faults (an outage and a stop, say); three
  identities: a broken drive beside a good config, a good `metadata.json`, a refused
  `metadata.yaml`. Reconnecting is unlimited, as `nats.max_reconnects` is by default.

Deadlock is not checked where the system may rest: no commands left to send.

### Fairness

- `S3Control`: weak fairness of the agent's steps (every request and command has a
  timeout, systemd restarts the agent) and of weed-s3's start and load. Nothing is
  assumed of commands, clients or `s3dctl`.
- `TelemetryInterval`: weak fairness of both goroutines; strong for the loop's
  receive and its exit, since `select` chooses at random among ready cases.
- `NginxLogs`: weak fairness of the tailer and of `auditLoop`.
- `ClusterWatch`: weak fairness of the telemetry loop's poll, strong fairness of a
  successful publish (the client reconnects for ever). None for Watch.
- `BucketSettings`: weak fairness of the agent's steps: the HTTP client gives up after
  15 s. Nothing is assumed of late requests or clients.
- `AgentSession`: weak fairness of the process's life cycle (systemd restarts it), of
  the handler, of sending and reconnecting, of the server's return, of the executor's
  timer and of systemd ending its jobs, whose signals may still be lost. None for the
  programs the agent starts or their descendants: those may run for ever, which is why
  `AcceptedIsAnswered` needs the deadline.

## Proofs

TLAPS proves every safety property that a passing run checks, type invariants, action
properties and both refinements included, for all values of the constants that satisfy
the modules' named `ASSUME`s and the hypotheses below. Each proof has the same shape: an
inductive invariant, one lemma per action or group of actions, and a last step that
draws the property from it. TLC has checked every invariant used on the run's instance.

**S3Control.** `S3Typing` is by cases over the actions; a command's argument has the type
its operation implies. `StaleGatewayExplainedAlways` is inductive together with it: a
write moves its process to `reload`; a restart makes the gateway load again or sets
`debt`; a crash at `reload` sets `debt`. The others rest on these parts:

- `ReadIsFresh`: a process about to write, and not overtaken, holds the edit of the file
  as it is now. It gives `OnlyOverlapLosesEditsAlways`, for any number of `s3dctl`
  processes, and with the agent as the only writer (then nobody is
  ever overtaken) `StoreRefinement`.
- `ControlOK`: where the agent's program may be, and with which command and edit. It
  gives `CompletedIamIsServedAlways`.
- `UserDiff`: the lists `Reconcile` works through, and its edit under way, stay on their
  sides of the diff.
- `EditOfCommand`, `NamesakeKept`: an edit is one its command asks for, and while
  `Reconcile` has the admin's name to delete, an identity of that name under another key
  is still in the file, or the admin is gone already. They give
  `AdminLossExplainedAlways`.
- `BucketProgress`, `UserProgress`: without errors so far, a bucket or user that is not
  yet as desired is still listed or being edited, or the bucket was touched by a client.
  At the end nothing is left to do: `ErrorFreeSyncConvergesAlways`.
- `SettledIsReached`, `SettledSyncIdle`: a settled desired state is the actual one, so
  that all lists of its next sync are empty: `SettledSyncIsQuietAlways`.

Two hypotheses appear in these theorems. `Ctls = {}`: the agent is
the only writer, as in the run `sync`; beside `s3dctl` an overtaken write can undo any
edit, and `OnlyOverlapLosesEditsAlways` is what holds then. `KeysReserved`, only for
idempotence: no desired user carries the admin's access key. `ListIAM` hides such a user
by its key, so every sync creates it once more; the hypothesis came out of the proof.

**NginxBlocking.** `BlockTyping`, `StaleBlocksExplainedAlways` and
`OnlyOverlapLosesBlocksAlways`; the last from `BlockReadIsFresh`, as above: a successful
write makes every other process at `write` overtaken; one that reads later is fresh.

**TelemetryInterval.** `IntervalTyping`, `LatestIntervalWinsAlways` and
`IntervalAtLeastMinimumAlways` from one invariant, which adds that the channel is empty
between the handler's receive and its send and that what it sends has been clamped.

**ClusterWatch.** `WatchTyping` and `StaleHealthExplainedAlways`. `Watch` compares
neighbouring snapshots only, the property compares the last with the last published: what
`detectChange` passes over is a preorder (`AgreesPreorder`), so unreported differences do
not add up to a reportable one.

**NginxLogs.** The file holds the newest lines, all of them (`LogIsRecent`), so a line's
id says where it is. `Covers`: what a tailer has read is older than the file, when it was
rotated since, or among the lines before its offset. `Piped`: the audit pipeline holds
what its tailer read. `InOrder`: each stage is sorted and before the next. Together they
give `LogTyping` and `AuditInOrderAlways`; `OnlyMissedRotationSkipsAlways` is inductive on
top of them; `TrafficCountedOnceAlways` adds `AllCounted`, the collector's counterpart.

**BucketSettings.** `BucketInv` is types, where the handler may be with which command, and
that an absent bucket is empty (`BucketTyping`). `Accounted` relates the requests without
an answer to `unsure` and gives `RetentionAsReportedAlways`. `ObjectsGoAsAskedAlways` is
an action property over `BucketInv`, which has the buckets a sync is about to delete
outside its payload and the handler emptying a bucket only under `force_empty`; it makes
no use of what the gateway refuses.
`WormCreateRepairsAlways` and `ForcedDeleteGetsOnAlways` follow one undisturbed command
step by step (`RepairOnTrack`, `EmptyingOnTrack`), after `CleanHasNoLate`: no request
without an answer concerns its bucket.

**DiskRates.** `DiskInv`: samples are of the past, the baseline is earlier than every
sample that was not overtaken, what reports account for is past. Subtraction modulo
`2^Width` then gives the bytes moved when fewer than a whole range were. The assumption
`WidthAssumption` says that `2^Width` is a positive natural: the provers know nothing of
powers.

**AgentSession and CommandExec.** `Once`: a command is in one place only (inbox,
handler, messages to send) and neither answered nor lost while it is. With the types it
gives `SessionTyping` and `AnsweredAtMostOnce`, and it makes the three places one queue:
`PromiseIsKept`, the refinement of `AtMostOnce`, shows for each action what it does to
the set of commands on their way and to their order (`AppendOrder`, `TailOrder`,
`CutOrder`); a `Reply` that is too large is a `Drop` from the middle of the queue.
`NoLeftoversAlways` needs that nobody holds the output of a process that never was
(`NoOrphan`); `CapabilitiesLeadAlways` that in the queue, too, capabilities precede
heartbeats until the connection is lost (`Leads`).

Assumptions on constants: bounds and limits are naturals, the agent is not one of the
`s3dctl` processes, payloads are sets of users and buckets, identities are name and key,
`FormerAdmins` have the admin's name and another key, `Refuses` is one of its three
values, `Large` are command ids, no id stands for "no command".

Only model-checked: liveness (`EveryCommandAnswered`, `NewIntervalTakesEffect`,
`EveryMutationAudited`, `EventuallyAccurate`, `BucketCommandAnswered`,
`AcceptedIsAnswered`, `AgentComesUp`), which this prover does not handle. The three runs
that expect a violation are counterexamples and have nothing to prove.

## Not modelled

Parsing and formatting of XML, JSON, YAML, logs and the include file (reduced to what
they decide); secrets, actions and ACLs of identities; HTTP signing, a computation over
hashes; defaults and environment variables of the configuration; readings of the host
that keep no state (CPU, memory, network, disk usage); the catalogue of operations;
logging; the Windows service manager; what `s3dctl` prints.

## Plan

1. Done: `S3Control` with `IdentityStore`, `NginxBlocking`, `TelemetryInterval`,
   `NginxLogs`, `ClusterWatch`; first theorems.
2. Done: `BucketSettings`, `DiskRates`, `CommandExec`, `AgentSession` with `AtMostOnce`.
3. Done: proofs of the safety properties of all modules and of both refinements.
4. Left: proofs of what follows from these and no run states yet, first among them the
   composition of the block list with the identities (`S3Control` and `NginxBlocking`
   share their writers), and shorter proofs where lemmas repeat between modules.
