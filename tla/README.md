# Fluxbee: TLA+ models, model checking and proofs

Fluxbee runs clusters of AI agents. A *hive* is one host; its router
(`src/src/router`) connects the nodes of the host (SY, AI, IO and WF processes)
over Unix sockets, publishes them to the other processes of the host through
shared memory, reaches the routers of other hives over mTLS links, and keeps a
durable log, the *stream*, of the turns and usage records that SY.storage and
SY.cognition consume. This directory models the parts of it whose correctness
depends on order: what several tasks, processes or restarts do to one piece of
state.

Section 1 is the inventory, section 2 the plan, section 3 the models, section 4
the runs, section 5 the proofs, section 6 what is left out. `PROJECT.json` lists
the same things for tools: components, runs, the map from definitions to source
lines, hazards, findings, theorems.

## 1. Inventory

| Component | State | Operations | Hard behaviour | What makes it correct |
|---|---|---|---|---|
| **Stream: log and senders** (`router/stream.rs`) | `Shared`: records by seq, byte counters, per sink a cursor, an in-flight mark and counters | append, trim, plan a batch, accept an ack, fail a batch | the disk thread and one sender per sink share a lock and let go of it across an RPC | each record is delivered, counted lost once, or waits; a trim never takes what is in flight; cursors do not lie |
| **Stream: disk thread** | segments, `state.json`, epoch, `fsynced_seq` | write, roll, fsync, save state, delete segments, recover | crash, power cut or a failing write between any two steps | nothing written is lost, no seq of a written record is reused |
| **Stream: append queue** | lock-free counters in front of the disk thread | reserve, send, give back | concurrent appends at the limit | permits are never leaked |
| **SY.cognition sink** (`bin/sy_cognition.rs`) | last seq by stream and epoch | take a batch, skip repeats, ack | lost and late batches, restarts of either side | what is acked was accepted |
| **SY.storage sink** (`bin/sy_storage.rs`) | inbox rows in Postgres | upsert a batch, ack, process, retry | ack lost after the commit | rows are processed once |
| **Node registry** (`router/mod.rs`) | node table, FIB, applied config version | HELLO, claim, register, serve, clean up; refresh the config, reassign VPNs, rebuild the FIB | one task per connection, one lock per table, awaits in between | one live connection per UUID; table and region agree; FIB and VPNs follow the config |
| **Router's shared region** (`shm/mod.rs`) | a seqlock, a header, a table of node slots | register, unregister, change VPN, heartbeat; open and take over; read a snapshot | readers in other processes; a writer killed inside a write | a snapshot is a table that was published |
| **Other regions** | config, LSA, OPA, identity (ICH hash table), memory | write, read, cached read | the same, without a take over | the same |
| **WAN links, LSA, reachability** (`router/mod.rs`) | peers by hive, LSA by hive with epoch and seq, reachability through hubs | connect, hello, apply LSA, expire, broadcast | reconnects that overlap, late LSAs, expiry | a connected peer is routable; newer state is not replaced by older |
| **Forwarding and policy** (`router/mod.rs`, `system_policy.rs`, `opa.rs`) | FIB snapshot, policy | resolve a name, decide | stale snapshots | no frame leaves its VPN |
| **SY.timer** (`go/sy-timer`) | timers in SQLite; in memory a queue, the fires sent lately and the ones to send again | schedule, cancel, reschedule, purge; fire, send again; replay at a start | requests write rows the scheduler fires; a stop between saving a fire and sending it; late refusals by the router | a fire goes at most once, no pending timer is left behind, an answered request holds |
| **WF engine** (`go/nodes/wf/wf-generic/node`) | instances, a journal of inbound events, a queue of internal ones, an index of timers; the running instances in memory | journal, run, commit, drain; recover, replay, reconcile timers | a stop or a failing statement between an action and its commit; events that take the process down; late and lost fires | no journaled event is lost before it or its instance's end is committed, none is applied twice; a timer fires once, not early, and is not forgotten; one conversation per thread |
| **SY.opa.rules, SY.wf.rules** (Go) | current, staged and backup versions | compile, apply, roll back, distribute | hives that answer late or not at all | hives converge on one version |
| **SDKs: dispatcher, node client** | pending calls | call, answer, time out, reconnect | an answer racing its timeout | a call is answered at most once |
| **SY.identity** | ILKs, ICHs, tenants; primary and replicas | sync full and delta | lost deltas | replicas converge |
| **SY.orchestrator, SY.admin, SY.architect, SY.edge, SY.vault, SY.config.routes** | files, systemd units, HTTP sessions | administration | partial failure of remote steps | mostly I/O |
| **AI, IO and GOV nodes, AI SDK** | conversations | adapters to providers and channels | provider behaviour | mostly I/O |

How they interact: a node connects to the router's socket, is registered in the
node table and in the region, and its frames are routed by the FIB, which is
rebuilt from the node table, from the regions of sibling routers and from the
LSAs of other hives. SY.config.routes writes the config region; each router
polls its version. Nodes and the router append to the stream; its senders call
SY.storage and SY.cognition like any node calls another, so an ack may be lost
or late. Sibling routers, SY.orchestrator and SY.admin read the region. WF nodes ask
SY.timer for timers by messages they do not wait for, take its fires through the
router, and compare their index with SY.timer's list after a restart.

The hazards this leads to are listed, each at its line, in `PROJECT.json`. Those
that no property covers yet say so, with the module that will.

## 2. Plan

Done, in this order:

1. `StreamLog`, `StreamLogProofs`: the log in memory, with both sinks.
2. `RouterStream` (extends `StreamLog`), `RouterStreamProofs`: the disk thread,
   crashes, recovery.
3. `StreamCognition` (extends `RouterStream`): the sink that drops repeats.
4. `NodeRegistry`, `NodeRegistryProofs`: the nodes of a router.
5. `RouterRegion`, `RouterRegionProofs`: the region they are published in, shown to
   implement `RegionTable`, the table `NodeRegistry` takes it for.
6. `WanLinks`, `WanLinksProofs`: the WAN sessions and LSAs of a hub and a spoke.
7. `TimerService`, `TimerServiceProofs`: what SY.timer promises, and that its
   fires go once.
8. `SyTimer`, `SyTimerProofs`: SY.timer, shown to implement `TimerService`.
9. `WfEngine`, `WfEngineProofs`: the workflow engine over restarts, on SY.timer as
   it sees it.

Next:

10. `StreamQueue`: the counters in front of the disk thread; with it the append
    path is whole.
11. `LsaRegion` and `WanReach`: staleness and the LSA region behind `WanLinks`,
    reachability over hubs; abstract specification: per hive, the newest LSA of the
    newest session.
12. `StorageIngest`: the inbox of SY.storage, composed with `RouterStream` as
    `StreamCognition` is; abstract specification: a set of rows that only grows.
13. `RpcDispatcher`, `OpaDistribution`, `IdentitySync`.
14. The other shared regions: reopened without a take over; the ICH hash table.

Every invariant and action property of a passing run is a theorem too, and both refinements are
(section 5).

## 3. The models

### StreamLog (`src/src/router/stream.rs`)

The variables are the fields of `Shared` and `SinkState` under their own names.
A `VecDeque` in seq order is a function from seqs to records. Each action is one
critical section: `TakeIncoming` (with the trim that makes room and the drop at
the cap), `Trim`,
`PlanBatch` (skipping what is aged or too big, counting it, batching to the two
limits), `BatchAcked` (`accept_ack`: full, partial and nonsensical acks),
`BatchFailed`. `Age` moves time: any record may pass the window, in any order,
because `ts_ms` is taken before a record is queued. `batch` holds what a sender
captured before its RPC; that the lock is free meanwhile is the point of the
model. `taken`, `lost`, `owed` and `usage` are histories for the properties.

### RouterStream (extends StreamLog)

`disk` is what can be read back: seq to record, epoch, segment and whether it is
synced. `disk_pc` is the disk thread's place between placing a record (visible to
senders at once), creating a segment for it (`Roll`), writing it (`WriteRecord`),
saving the state and deleting segments. Rolls, writes, syncs and saves may fail
(`MaxDiskErrors`); a failed write tears its segment. `Restart` may come at any step,
between the creation of a segment and its first write too; `RestartAfterPowerCut`
also loses any suffix of what was not synced in each segment (`LosablePrefixes`;
external, the file system, which is taken to keep the names of the segments).
`RestartWithoutDisk` is `open` failing: the stream runs in memory under a new epoch.
Encoding is reduced to whether a record decodes. `orderly` is a history: it is FALSE
once a start came back to a next seq below the name of a segment. From then on the
order of the segments is not that of their records, and the properties about the
disk say nothing (section 4 says what happens).

### StreamCognition (extends RouterStream)

SY.cognition's `stream_seen` by epoch, batches that arrive in their call, late or
never, acks that are lost, and restarts of either process. The router's steps are all
those of `RouterStream`: its disk may fail, its power may be cut and it may stop at any
step. `rewound` is a history: a start of the router kept its epoch and went back to a
lower next seq, or went back to an earlier epoch.

### NodeRegistry (`src/src/router/mod.rs`)

Each connection is a task with a `pc`; so are the heartbeat and the LSA loop.
One action is what a task does between two awaits: `Hello`, the refresh of the
configuration it runs (`ReadConfig`, `CheckVersion` with `version_guard` held
over the reassignment, `ScanNodes`, `UpdateNodes`, `UpdateRegion`, then
`GatherFib`, `InstallFib`), `Assign`, `Claim` or `RefuseHello`, `RegisterNode` or
`RegisterFails` and `Unclaim`, `Frame`, `ConnectionEnds`, `Cleanup`. The rules of
config version `v` put a node into VPN `v`; system nodes stay in VPN 0.
`connected_at` is a millisecond clock that two connections may read alike.
`force` of `refresh_config` is left out: its call sites pass `false`. The LSA
refresh that a HELLO spawns does what the LSA loop does and is that loop's step.
The region is a map of active entries here; `RouterRegion` is what shows that
readers see such a map, and that `HasSlot` is right (`SlotFullIsFull`).

### RouterRegion (`src/src/shm/mod.rs`)

The seqlock word by word. A write raises `seq`, makes its stores one word at a
time in any order, and raises `seq` again; a read loads `seq`, copies the words
in any order, and loads it again. An entry is emptied before it is written
(`*entry = empty_node_entry()`), and the blank values may or may not be seen
(`StoreBlank`). `Crash` may come between any two stores. `Open` makes an odd
`seq` even, and only `TakeOver`, one more write, cleans the table: `torn` marks
the window in between, in which a reader may accept half an entry. The property
excludes exactly that window. Creating a region that is not there happens before
`Init`. One process writes a region at a time. Stores do not pass the two
`fetch_add`s: a locked add is a full barrier on amd64, which is what the Debian
packages are built for. `update_heartbeat` and `update_opa_status` write words
the properties do not tell apart: a write with no stores.

`RegionTable` is what the region promises: a map from UUIDs to VPNs with room for
`MAX_NODES`, as the variable `region` of `NodeRegistry` (`HasSlot`, entries set and
removed in one step), a generation, and readers that get the whole map at one moment.
`ImplementsRegionTable` maps `seen` to the snapshot a reader is about to return (`Seen`):
it appears with the last word copied and is gone when `seq` moves, so that a write and a
read never overlap. A crash inside `take_over` before the generation is stored leaves
the next process the same generation; the table is empty in both, so the second take over
changes nothing `RegionTable` shows (`Touch`).

### WanLinks (`src/src/router/mod.rs`)

A hub and one spoke run the same code; only the spoke dials, one connection at a
time, and only the hub checks a registry of hives. A connection is a pair of
tasks (`pc[e][c]`) and a queue of frames each way. The steps of
`handle_wan_connection` between two awaits are `ReadHello` or `RejectHello`,
`TakeEpoch`, `InsertPeer`, the first broadcast, then `ReceiveLsa` until
`LinkEnds` and `RemovePeer`, or `ReadFails` (a read that fails, or a frame too long or
not handled on a link that is up), which returns without removing the entry. A broadcast is three steps (`CastSeq`, `CastBuild`, `CastSend`) that the
session, the beacon and the task of a node that came or went take concurrently.
`lsa_state` is `RemoteHiveState` reduced to epoch, seq and nodes, and nodes are
the number of times they changed. `Restart` loses a router's memory, `Cut` a
connection (external, the network), `Unregister` the hive's directory. `since`,
`heard`, `accepted` and `rejected` are histories for the properties. Staleness,
the LSA region, reachability and the frames of nodes are left out.

### SyTimer (`src/go/sy-timer`)

`rows` is the table; `items` and `retries` are the scheduler's heap, split by what
an entry is for; `sent` is the map by trace_id. Two goroutines run: `request`
serves one message at a time, `scheduler` fires what is due. A step is what one
of them does between two statements of the database. `CancelReads` and
`CancelWrites`, and `RescheduleReads` and `RescheduleWrites`, are therefore two
steps each: the request writes back the whole row it read, and takes no lock. The
scheduler's three steps are `FireReads` (which computes the row to save, the
deadline and the fire), `FireSaves` and `Deliver`. Each statement may fail
(`FireReadFails`, `FireSaveFails`, `RetryReadFails`, `RequestFails`, `StartFails`),
each message may be lost, delivered or refused by the router, in time or late
(`Undelivered`), and the process may stop at any step and start again (`Start`:
collection of old rows, then the replay with `missed_policy`). The five growing
retry delays are one delay. The variables from `created` on are histories.

### TimerService

The promise: timers that are pending for a time, a fire that is *claimed* when its
time came, saved (`Fire`), and then arrives once or is lost. Cancels and moves may
come between a claim and its save, as they do in the code. `SyTimer` maps to it
by forgetting owners, queues, attempts, locks and the network: `pending` are the
pending rows' times, `claim` is the fire the scheduler has read and not saved,
`fires` the saved fires that neither arrived nor were given up.

### WfEngine (`src/go/nodes/wf/wf-generic/node`)

The store's four tables are `rows`, `journal`, `internal` and `index`; `registry`
holds the running instances in memory, which may be ahead of their row when a
commit failed. The journal is a function from the event to its row, whose number
(`event_id`, from `serial`) is its place in the order of `ListInboundEvents`. A
definition is reduced to a script of actions per event, and an instance's state to
the events that made it with how often each did (`done`), so that an event that was
lost or applied twice shows. An event is taken in one step (journaled,
and a fire's index row deleted with it), its actions are run one at a time
(`SendSchedule` and `Register` are two: the request, then the row), then `Commit`
or `CommitFails`, then `Drain` for internal events. `agenda` is what a start has
still to do: drain each recovered instance, list the journal, replay each of its
rows (counted before it runs; `GiveUp` at the limit), reconcile. It is a set of
tasks; `Due` says which comes next, by stage (`Stage`) and, within one, by row
number or time of fire (`Before`). A
reconciliation works from a list that was asked for earlier, one timer per step,
with the transitions of the fires it makes up in between. `Stop` may come at any
step; the action `die` stands for an event that takes the process down each time.
Each statement may fail where the code goes on without it: `CancelNone` (the timers
of an instance that ends cannot be listed), `Drain` (the next internal event cannot
be read or counted), `Reconcile`, `TakeTimerList` and `ReconcileTimer` (the index
cannot be read: nothing, or that timer, is reconciled), and an action with `on_error`
fail (`End`). `ended` is a history of the instances whose end was committed; it tells
them from instances that were never committed.

SY.timer appears as `armed` and `fires`: `Scheduled`, `Moved`, `TimerFires` are
`TimerService`'s `Arm`, `Claim` and `Fire` in one step by client_ref; `TimerLost` and
`FireLost` its `Withdraw` and `Lapse`. `SendReschedule` may arm a timer whose fire is
on its way, as `SyTimer` shows it can.

## 4. The runs

| Run | Expect | Shows |
|---|---|---|
| `stream_log` | pass | counters, bytes, caps, cursors and in-flight records of the log with both sinks, three records of two sizes, under every order of appends, trims, ageing, acks and failures |
| `stream_crash` | pass | a stop at any step, a power cut, one failing disk operation: nothing written is lost, no written seq is reused, what is owed stays readable, as long as no start comes back to a next seq below a segment's name (`orderly`) |
| `stream_live` | pass | with no sink ever answering the log empties, and then its segments are deleted |
| `stream_cognition` | violation | a router that stops between sending a record and writing it gives its seq out again under the same epoch: SY.cognition skips the new record as a repeat and acks it |
| `registry` | pass | one live connection per UUID, no ghosts, the region is the registered connections |
| `registry_settles` | pass | the FIB and the config version settle although refreshes and rebuilds overtake each other |
| `region` | pass | an accepted snapshot is the published table; the table is full only of registered nodes; the region implements `RegionTable` |
| `wan_links` | pass | LSAs are rejected only when overtaken, the last change of nodes prevails over concurrent broadcasts and reconnects, a spoke's entry for its hub is its live link |
| `wan_links_exit` | violation | a late exit of an old session removes the entry of the new one |
| `sy_timer` | pass | a fire reaches its target once and is in one place until then, no pending timer is left behind, answered requests hold, client_refs stay unique, and SY.timer implements `TimerService` |
| `sy_timer_reschedule` | violation | a reschedule that overlaps a fire makes the timer fire twice with one `fire_count` |
| `wf_engine` | pass | no journaled event is lost or applied twice, a timer fires once, not before the time it was moved to, and SY.timer has it, one conversation per thread, a poison event (an inbound one) runs a bounded number of times |

Bounds. `stream_log`: three records of sizes 1 and 3 against a batch limit of 2
bytes and a cap of 3 per share, so that batches fill, records are too big, the
cap is hit and the trim makes room.
`stream_crash` and `stream_live`: two records reach a roll, a tear and a segment
that is deletable while another is not; one restart and one failure suffice to
put each between any two steps, and reach starts that are not `orderly`. More of either
is the subject of the proofs (section 5); what such a start can lead to takes three
records and two failures (the first observation below).
`stream_cognition`: two records and one stop of the router, with a disk and a link that
do not fail, so that the trace shows what suffices.
`registry`: two connections, each of either UUID, one region slot and two
changes: a HELLO meets a connection of its own UUID that ends, or a full region.
`region`: two nodes, two slots, one reader (readers do not influence anything)
and `MaxSeq` = 8, four writes: register both, leave a hole, register again, or
crash and take over in between.
`wan_links`: two connections overlap at the hub, three LSAs overtake one another
within a session and across two, one change of nodes, one fault. Only the spoke's
LSAs are followed; the hub's run the same code.
`sy_timer`: two timers of one owner that share a client_ref, one of either kind;
three ticks pass a due time, a retry and a period; two changes let a request
overlap a fire and another follow it; two faults are a stop and a failing
statement, or a start that fails too. `wf_engine`: one thread, as threads share
nothing but the loop; four messages, each once, that start it, cancel its timer,
take the process down and end it; two ticks reach a timer, moved, and one
scheduled again; two faults put a failed commit before a crash. The views leave out
what no later step reads and no property of the run mentions; each is commented in its
MC module.

Fairness. `stream_live` assumes weak fairness of the disk thread's steps (its
loop waits at most 250 ms), of each sender's planning (at least once a second)
and of the end of its calls (`STREAM_ACK_TIMEOUT_SECS`), and that time passes; no
sink is assumed to answer and no disk to be faultless. `registry_settles`
assumes weak fairness of the tasks' own steps and of the two timer loops; reads
of the config region do not time out there, since nothing settles if all do.

Deadlock is not checked where the bounds on records, restarts, `seq`, time or
messages stop the system. In `registry` and `registry_settles` it is checked.

Findings with a run. (1) `handle_wan_connection` removes the hive's entry of
`wan_peers` when it ends, also when a newer session inserted it: the hub then has
no link to a hive whose link is up (`wan_links_exit`). (2) `respondTimerReschedule`
writes back a row it read before the scheduler saved its fire: the one-shot is
pending again with its old count and fires again, which the documentation rules
out (`sy_timer_reschedule`). `AtMostOnce` still holds, since the second fire is for
the new time. (3) A stream's seq is given out again under the same epoch when the router
stops between sending a record and writing it (`stream_cognition`): `take_incoming`
shows a record to the senders before `Disk::append` writes it (`stream.rs:1168`),
`recover` takes the epoch from the saved state and the next seq from what was saved and
written (`stream.rs:842`), and SY.cognition, which has seen that seq, skips the record
that gets it and acks it. The router counts it as delivered. "a sink keys its last seq
by stream and epoch, so a stream whose seq restarts is never mistaken for a repeat"
(`stream.rs:678`) is not so. A power cut leads to the same for every record that was
sent and not synced. Late, repeated and lost batches alone do not
(`CognitionDelivered`, section 5).

Found while modelling and proving, without a run of their own:

- "Only this thread writes, so the disk keeps the seq order" (`stream.rs:1119`) can
  fail. A write that fails on a fresh segment, a stop between the segment's creation
  and its first write (`stream.rs:724` and `733`), or a power cut leaves a segment with
  no readable record; `recover` takes `next_seq` from the records it reads and from
  the saved state (`stream.rs:842`), which may both be below that segment's name
  (after a stop alone they are not, `CrashesLoseNothing`): `SegmentsInOrder` fails with `stream_crash.cfg`. If the save of the state failed
  too, the segments before the empty one are deleted all the same
  (`stream.rs:1086`; the empty one counts as the newest), and after a restart seqs
  that were written, and acked, are given out again under the saved epoch. With
  `MaxRecords = 3` and no power cuts TLC finds `SeqsGivenOnce` violated, for
  `MaxDiskErrors = 2` and one restart (a failed first write and a failed save), and for
  `MaxDiskErrors = 1` and two (a stop before the first write, and a failed save).
  `WrittenSeqsUnique`, which is checked and proved, is `SeqsGivenOnce` as long as the
  stream is `orderly`; `CrashesLoseNothing` proves `SeqsGivenOnce` itself for stops at
  any step with a disk that does not fail.
- `open` sets `fsynced_seq` past recovered records that were never synced
  (`stream.rs:919`): `FsyncedSurvivesPowerCut` fails with `stream_crash.cfg`.
- `handle_node` computes a node's VPN from a snapshot read before it claims its
  UUID (`mod.rs:712`); a change applied in between misses the node: `VpnCurrent`
  fails with `registry.cfg`.
- A due timer whose row cannot be read leaves SY.timer's queue for good
  (`scheduler.go:227`): it fires after the next start only. `PendingQueued` excludes
  it (`forgotten`).
- When a commit of the WF engine fails, its instance goes on in memory and the next
  commit saves the state the failed event made, and takes its journal row; the
  internal events it emitted were only in the failed commit (`instance.go:367`).
  They are lost, although "state and internal events are committed atomically"
  (`docs/wf-orchestration-v1.md:93`).
- A reconciliation passes over a timer whose index row is younger than the list,
  "since the list could not have it" (`docs/spec-systemnode-wf-v1_1.md`, 11.4). A
  reschedule makes the row of a timer that SY.timer never had young too
  (`recover.go:377`); with no later reconciliation the timer never fires.
  `TimersBacked` excludes it (`strayed`).
- A reconciliation takes the fire of a timer that SY.timer has as due by SY.timer's time
  (`recover.go:386`), not by the index's: when the request that moved the timer was
  lost, the fire comes early. `NeverEarly` is about the fires that SY.timer sends, which
  are judged by the index (`correlate.go:225`).

## 5. The proofs

TLAPS proves these for every value of the constants.

*StreamLogProofs*: `LogInvariant` (`LogSpec => []LogInv`), and from it
`LogAccounted`, `LogInFlightKept`, `LogCursorHonest`, `LogTypeCorrect`. `Accounted`
alone is not inductive: an ack counts the records of a batch captured before its
RPC, so `LogInv` adds that the batch is exactly what the log holds for the sink
between the cursor and the in-flight mark (`BatchExact`), that no trim took part
of it (`InFlightKept`), that cursors and marks stay behind `next_seq`
(`CursorsBehind`) and that a passed record was taken or lost (`CursorHonest`). The
central lemmas are `RemoveAndPlace` (what leaves the log leaves the books too)
and `PlannedHasNoGap` (a batch limited by bytes and count is a prefix). They use
`ConstantsAssumption`: positive sizes and batch length, shares within the cap.
`LogBooks` (`LogSpec => []BooksInv`) adds the rest of the books, and gives
`LogUsageAccounted`, `LogLostNotTaken`, `LogBytesExact` and `LogWithinCaps`:
`IdsKnown` (no two records held share an id, none ahead of a cursor is settled)
makes a loss and a delivery exclude each other; `BytesBooks` needs that removing
records takes their bytes off the sum, once for the trim and once for the trim that
makes room.

*RouterStreamProofs*: `StreamInvariant` (`Spec => []OrderlyInv`), and from it
`StreamNothingWrittenLost`, `StreamSeqsUnique`, `StreamDiskCovers`, `StreamTypes` and
`StreamLogInvariant`, for any number of records, restarts, power cuts and disk errors
and with no assumption but the constants'. The properties say what they say as long as
the stream is `orderly`: without it `SeqsGivenOnce` is false (section 4), and the Vec of
segments is no longer in the order of the names, which is how the model keeps it. Two
theorems say what keeps it so. `StreamStaysInOrder`: unless a step leaves a segment
empty (`NoneLeftEmpty`: a write that fails on a fresh segment, a stop between its
creation and its first write, a power cut), every segment holds the record it is named
by and the stream is `orderly`, whatever else fails. `CrashesLoseNothing`: with a disk
and a power supply that do not fail, stops alone never break it, at any step and any
number of them, although they leave empty segments: a segment is named by the next seq
to be written, and what the saved state or the newest record gives is that seq again. So
`NothingWrittenLost`, `SeqsGivenOnce` and `DiskCovers` hold there unconditionally. `StreamInv` joins `LogInv` with: what
the disk thread copied before an unlock is still true (`WorkOK`), the files are in the
order of their records (`FilesOK`), ids tell records apart across log and files
(`IdsApart`), a record only on disk is settled (`DiskSettled`), the saved cursors
claim only settled records (`StateHonest`), and what was written is still in the files
or settled, its seq below the next one by the files, by the saved state or by the name
of a later segment (`WrittenOK`). The last disjunct is why a failed save may still
delete all but the newest segment.

Its last section is about `StreamCognition`: `CognitionDelivered` and `CognitionSeen`
(`SystemSpec => []AcceptedOnward` and `=> []SeenWithinStream`), for any number of
records, late batches, disk errors, power cuts and restarts of both sides at any step,
and for every role that runs SY.cognition (`RoleRunsCognition`). `AcceptedOnward` is
`DeliveredWasAccepted` until a start of the router goes back (`rewound`) or leaves the
segments out of order: the run `stream_cognition` shows that it fails after one that
goes back, so this is all of it that is true. No run repeats the two.
SY.cognition skips by seq alone, so the ack of a batch is honest only if all it skips
was accepted; `CognitionInv` says why. A seq is one record's in the log and in the files
(`OneRecord`), and stays so over a restart because the next seq can be recovered as it
was (`NextKnown`: from the newest record in the files or from the saved state). A batch
on its way holds what the stream gave those seqs and, up to its last one, every record
SY.cognition may not skip (`Faithful`), so taking it late leaves nothing behind that was
not accepted, is past the window or is too big to send (`SeenExcused`). `CallSafe` is the
same for the batch of the call. Every step of the router moves the stream in one way,
`StreamMove`, and `MoveSafe` and `MoveFaithful` are shown for it once; a restart without a
saved state draws a new epoch, about which nothing is on its way.

*NodeRegistryProofs*: `RegistryInvariant`, and from it `RegistryHolderIsLive`,
`RegistryNoGhosts`, `RegistryRegionMatches`. The invariant is the conjunction of
these with the types: that nobody else's cleanup removes an entry rests on the
UUID having one holder (`OneHolder`), that in turn on no entry outliving its
connection. Uniqueness of `connected_at` is not needed.

*RouterRegionProofs*: `RegionInvariant`, and from it `RegionSnapshotIsTable` and
`RegionSlotFullIsFull`. `WriterInv` says that the memory *with the stores still to
come* is a sound table while `seq` is odd, and the memory alone is while it is
even and not torn; `ReadersInv` that a reader whose first `seq` is still current
holds a part of the memory. `SoundListed` shows that `node_count` entries from
the first slot on are all active ones, holes or not; `SoundCount` that active
slots and registered nodes are equally many. `RegionImplementsTable` (`Spec =>
ImplementsRegionTable`) goes action by action: `MovedAgain` (a write that begins or ends
makes every reader read again), `SnapshotTable` (what a sound memory lists is the table),
`SlotOfTable` and `RoomInTable` (the slots a write looks for are there when the table says
so). It needs one invariant more, `TableOk`: the generation in memory is the owner's, or
one behind while the table is empty.

*TimerServiceProofs*: `FiresGoOnce` (`Spec => []GoesOnce`), for any timers and times:
a fire that arrived is not on its way, and one that was saved is not begun again.
`GoesOnce` is not inductive: that a claimed fire is new depends on the time its
timer was pending for, so the invariant adds that a timer's saved fires are for
earlier times than the one it is pending for (`Ahead`), than the one that has begun
(`Fresh`), and all for times that came (`Past`, which is why a request that arms a
timer for a time ahead keeps `Ahead`). `SyTimer` implements
`TimerService` (next paragraph).

*SyTimerProofs*: `TimerInvariant`, and from it `TypesHold`, `FiresArriveOnce`,
`FiresInOnePlace`, `PendingTimersQueued`, `AnswersHold`, `ClientRefsUnique`; then
`TimerImplementsService` (`Spec => ImplementsTimerService`), step by step: each action
is a step of the service or changes nothing it shows. The invariant is in layers,
each inductive given those before it. `Held` is what the two goroutines know of a row
they read and have not written back, which is where requests and fires interfere.
`Order` is `TimerService`'s argument on the detailed state. `OnePlace` tags each fire
with the place it is in and says that no two tags share a fire; `Places` counts the
same. `Refs` adds to `RefsUnique` that a reschedule in hand will not collide when it is
written (`RescheduleFree`), which the index of the table would otherwise refuse.

*WanLinksProofs*: `LinksInvariant` (`Spec => []LinkInv`), and from it
`LinksUplinkListed`, `LinksOnlyOvertaken` and `LinksSettle`, for any number of
connections, LSAs, changes and faults. `LsaSettled` rests on an order between three
places an LSA can be in: being built, on the wire, applied. `OnWay` collects the seq of
every LSA under way to a router over a connection with the number of changes it is
known to include; a later seq includes no fewer (`WayFor`), so what a session applied
covers all it will reject, and what it has yet to apply covers what it heard
(`HeardFor`). `EpochsOk` keeps two sessions of one router from being taken for each
other, `WireOk` keeps LSAs behind the HELLO.

*WfEngineProofs*, for any messages, keys, scripts, faults and crashes, in five layers.

- `CountsOk` gives `WfTimerOnce`: a timer fired no more often than it entered the
  index, less one while it is there. Every action either takes timers out of the
  index, or registers one, or journals a fire and takes its timer out in the same
  transaction.
- `CoreInv` gives `WfNothingLost`, `WfAppliedOnce`, `WfOneConversation` and
  `WfRunsBounded`. None of the four is inductive. `AppliedOnce` is about committed
  states, but a state is committed from memory, and memory may be ahead of the
  store: `AheadOk` says that an event which is in an instance's memory and still in
  the journal came before everything that is still to run, so the next commit
  (which deletes the journal up to its own row for the instance) takes it along, and
  that a start finds none in memory. `NothingLost` needs the converse (`KeptOk`): a
  journaled event of a running instance is in its memory, runs, or is a task of the
  start; else a commit would delete a row nobody applied. `ReplaysOk` keeps the rows
  a start has read equal to the journal's, although the transitions between them
  change it. `ThreadsOk` says that a running row outside the registry ended in a
  commit that failed, `RunsOk` that a row's count is at most one behind its runs.
  `EntriesOk`, `HistoryOk`, `RunOk`, `StagesOk` and `RegistryOk` are what these rest on.
  A lemma per kind of move (`QuietSafe`, `TakeSafe`, `LeavesSafe`, `TurnsSafe`,
  `RunSafe`, and others for the commit, the start and the list) carries the invariant;
  each action is then shown to be one of the moves.
- `TimesOk` adds the clock, the domains of the timer tables and what a script is made
  of; with `CoreInv` it is inductive (`WfInductive`) and gives `WfTypeOK`.
- `ListingOk` and `BackedOk` give `WfTimersBacked`. The property speaks of a node that
  is reconciled and idle; `BackedOk` says for every step on the way there why a timer
  that SY.timer has not is accounted for (`Accounted`): a fault cost it, its row is
  about to be deleted, the start has its reconciliation ahead, it is a task of the
  reconciliation that runs, or the list that is asked for will not have it. `ListingOk`
  ties the times at which a list was asked to the times at which timers were
  scheduled, which decides whom the reconciliation skips.
- `MomentsOk` gives `WfNeverEarly`: a fire on its way is for a time that came, whatever
  moved its timer since, so a fire that is late enough for the index is not early.

The proofs use `WfAssumption` (positive durations, scripts of known actions) and no
bound: `MaxTime` and `MaxFaults` are any numbers.

Only model-checked: liveness, as TLAPS proves none under fairness (`stream_live` and
`registry_settles`). Every other property of a passing run is a theorem. No module of
the project has a RECURSIVE operator.

## 6. Not modelled

The components without a module in `PROJECT.json`, each with its reason there.
Within modelled ones: logging, metrics, the status payloads, encodings, the
forwarding of a frame and the remote entries of the FIB; the worker, threads and
context packages behind SY.cognition's sink; of SY.timer the requests that only
read; of the WF engine redeployed definitions, the caps on internal events and
agent calls, kept messages, answers to senders, the language of guards, a panic
inside a transition, which fails its instance as a failing action does, the exit actions
before a cancellation and the entry actions of a cancelled or failed state
(`instance.go:471`), and a stop or failure between the request of `scheduleAgain` and its
`RegisterTimer` (`recover.go:451`).

Simplified, where no property can tell: `NodeRegistry` refreshes an LSA without asking
whether a snapshot could be read (`mod.rs:5836`), and fails a registration for a full
region only, not for a name too long, whose error path is the same (`shm/mod.rs:973`);
`WanLinks` copies the peers and takes the LSA's seq in one step, between which a peer may
come or go as it may before the copy (`mod.rs:2085`). `RunsBounded` counts inbound
events; the attempts of internal ones are in the model (`Drain`) and in no property.

The models cover a small share of the repository's lines. Most of its 270,000 lines
of implementation are the large binaries (SY.orchestrator, SY.admin, SY.architect,
SY.edge, SY.identity, the AI runner): HTTP and message handlers that validate a
request, call a database, a file system, systemd or a provider, and format the
answer, with their tests beside them. Their control is request by request; modelling
it would restate the code and leave the database or the provider, where the
behaviour is, outside. The models are of the parts where several actors, restarts
and failures meet in one piece of state.
