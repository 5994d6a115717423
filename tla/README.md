# Verification of MeshScope

MeshScope watches and repairs a Linksys mesh.  An ESP32 next to the router
(`esphome_includes/meshscope_edge.h`) polls the router over JNAP (HTTP), serves a web
page, and moves a child Node to another Parent by publishing commands to the router's
MQTT broker.  It also restarts Parents that keep refusing their children.  All line
numbers below are of `src/esphome_includes/meshscope_edge.h` unless another file is
named.

This directory holds TLA+ models of that firmware's control logic, the TLC runs that
check them, and TLAPS proofs.

| File | What it is |
|---|---|
| `SteeringOperation.tla` | the life of an MQTT Parent-steering request, in three tasks |
| `RequestChannel.tla` | what that life promises, without the tasks |
| `SteeringOperationProofs.tla` | proofs about `SteeringOperation`, for all constants |
| `ParentHealth.tla` | Parent Steering Health: failures, recoveries, Parent restarts |
| `ParentHealthProofs.tla` | proofs about `ParentHealth`, for all constants |
| `TopologyLock.tla` | Topology Lock: the saved tree, its moves, their rate and their turns |
| `TopologyLockProofs.tla` | proofs about `TopologyLock`, for all constants |
| `Cooldown.tla` | cooldowns that outlive a restart, used by both |
| `SnapshotCache.tla` | the collector, its cache of responses and everyone who reads it |
| `SnapshotCacheProofs.tla` | proofs about `SnapshotCache`, for all constants |
| `ResponseCodec.tla` | the compressed form of a response and its two readers |
| `ResponseCodecProofs.tla` | proofs about `ResponseCodec`, for all constants |
| `MqttSession.tla` | one MQTT session, the five jobs that open one, and the broker |
| `MqttSessionProofs.tla` | proofs about `MqttSession`, for all constants |
| `Recursion.tla` | lemmas two of the proofs share: least members, repeated application |
| `MC<module>.tla` | small instances of the six larger modules for TLC |
| `MC*.cfg` | one per run, and six counterexamples on demand |
| `PROJECT.json` | components, runs, mutants, source map, findings, hazards, theorems |

To repeat a run: `tlc -config MCSteeringSafety.cfg MCSteeringOperation`.  To check the
proofs: `tlapm SteeringOperationProofs.tla`, the five other `*Proofs` modules, and
`Recursion.tla`.

## Inventory

### Tasks and locks

| Task | Code | Runs |
|---|---|---|
| HTTP server | the `*_handler` functions, 4830-6640 | one handler at a time (one ESP-IDF httpd task) |
| MQTT worker | `mqtt_steering_worker`, 4582-4741 | polls every second, or when notified |
| collector | `collector_task`, 4743-4806 | every 10 s, or when notified |
| ESPHome loop | the `*_copy` functions, 6768-6977 | reads only |

| Lock | Guards | Taken for |
|---|---|---|
| `mqtt_steering_mutex` | mode, capability, the one `mqtt_operation`, per-child deduplication | 0.1 to 1 s at most |
| `topology_lock_mutex` | lock mappings and counts, health records, the one `parent_restart_request`, `restart_cooldowns` | 1 s |
| `snapshot_mutex` | the cached topology generation | 1 to 5 s |
| `memory_mutex` | the large network workspace: held for a whole collection, or for a restart | 15 s |
| `jnap_mutex`, `backhaul_phy_mutex` | the HTTP client; PHY rates | leaves: nothing is taken under them |

Every take has a time limit, and most callers carry on when it runs out.  That is the
source of much of what the models explore: an operation is a sequence of short critical
sections, with copies of shared state used between them.

### Components

| Component | State | Operations | What makes it correct |
|---|---|---|---|
| **MQTT Parent steering** | mode (RAM and flash), capability, `mqtt_operation`, pending flag, next id, deduplication times | enqueue (page, Topology Lock), mode change, worker: conflict check, probe, discovery, grant, publish, confirm, monitor and fallback; collector: verify, hand over the verdict | a request's own command and its fallback are on the wire at most once each; a verdict only for what was sent; "verified" only on fresh evidence; requests end; the acknowledged mode holds |
| **Parent Steering Health** | a record per child, one restart request, cooldowns (RAM, epoch in flash) | record an outcome, evaluate on each generation, the worker's restart, manual restart, reload | restarts are earned, rare, never for a child that has recovered; recovery needs two consecutive generations; requests resolve |
| **Topology Lock** | mappings, mismatch counts, rotation, time of the last action, history (flash) | set/stop, evaluate on each generation, set the rate, reload | only confirmed mismatches, from the gateway outwards, one per period, rotation is fair, nothing after a stop |
| **Collector and cache** | `Snapshot` (generation, nodes, compressed entries), `router_connected` | collect, store, hand the buffer over, stream to the page | readers see one generation; a degraded one confirms nothing; the cache survives failed collections |
| **Compression** | none | `compress_response`, `decompress_response`, streaming | lossless |
| **MQTT session** | socket, packet buffer, packet id | connect, subscribe, publish with PUBACK, evidence | framing stays in step, a PUBACK matches its packet |
| **Blacklist, hop test** | `hop_test_cooldowns` | cancel a blacklist, send a hop test | no clash with a running request |
| **Desktop server and client** (`linksys_mesh_app.py`, `linksys_mqtt_parent.py`) | cache, restart guard | HTTP handlers in threads | as the firmware's, with other locks |
| **CLI** (`tools/linksys_mqtt_steer.py`) | journal | publish and verify twice | no success on old data |
| **Web page** (`mesh_web/*.js`) | view state | render, poll, steer, restart, lock | shows what the ESP32 says |
| **BLE overlay** (`firmware-overlays/ble-parent-steering`) | none | validate and dispatch a command on the Node | only whitelisted commands |

How they interact: the page and Topology Lock **enqueue** into the one operation record;
the worker **takes** it; the collector **verifies** it with each new generation, calls
Parent Steering Health with the **outcome**, and then lets Topology Lock look for
mismatches; Parent Steering Health **requests a restart**, which the worker serves before
operations; the worker and a manual restart compete for the Parent's cooldown entry and
for `memory_mutex`.

### Hard behaviours

`PROJECT.json` lists them under "hazards", each at its line.  In short:
single records that three tasks overwrite under an id compare; decisions taken under a
lock and used after it; bounded takes whose failure is ignored; evidence that was
sampled before the command it is to confirm; a five-minute limit that changes its clock
between uptime, wall clock and "unknown"; flash written before RAM; restarts of the
ESP32 in between.

## Plan

1. **Done** – `SteeringOperation`, `RequestChannel` and their proofs: the most
   important behaviour, since it changes the mesh.
2. **Done** – `ParentHealth` and its proofs: the most drastic action, `core/Reboot` of a
   Parent.
3. **Done** – `TopologyLock` and its proofs: the automatic moves; validation,
   confirmation, order, rate limit, persistence.
4. **Done** – `SnapshotCache` and its proofs: what every other part decides on.
5. **Done** – `ResponseCodec`: whether what is cached can be read again.
6. **Done** – `MqttSession` and its proofs: what an acknowledged publish means, and that
   no session keeps the single HTTP task or the worker.  Left: the evidence parsers.
7. **Done** – proofs about `ResponseCodec`: every invariant of its run.
8. The desktop server's and the CLI's steering and restart guards; the page's small state
   machines (`*-state.js`).

## SteeringOperation

One action is one critical section of one task; what happens between two sections is a
program counter (`http`, `worker`, `collector`).

| Model | Code |
|---|---|
| `PersistMode`, `FinishMode` | `mqtt_parent_mode_handler`: flash first (5993), then RAM under the mutex (6006-6020), which cancels |
| `SteerPreflight`, `SteerQueue` | `mqtt_steer_handler`: preflight on a copy of the nodes, then the section that queues |
| `PostTopologyLock` | `topology_lock_post_handler`, its effect on a request (the rest is `TopologyLock`) |
| `TakeOperation` ... `AnnounceDiscovery` | `mqtt_steering_worker` to 4680: take, conflict check, probe, mode gate |
| `Discover`, `GrantPublish`, `Publish` | `mqtt_publish_parent_request`: discovery, the section that grants (1494-1511), the publish without the lock |
| `ReportFailure`, `FailOperation` | `mqtt_set_capability(false)`, `mqtt_fail_operation` |
| `ReadGeneration`, `ConfirmPublish` | 4693-4735 |
| `CheckFallback`, `EndMonitor`, `PublishFallback` | `mqtt_monitor_backhaul` |
| `BeginCollect` ... `StoreActionable` | `collector_task` and the four outcomes of a collection |
| `SkipVerify`, `VerifyOperation`, `RecordOutcome` | `mqtt_verify_operation`, the head of `record_parent_steering_outcome` |
| `SelectMismatch`, `QueueRecovery` | `evaluate_topology_lock`, `queue_topology_lock_mqtt_operation` |
| `Tick`, `Reboot` | `uptime_ms`, `setup` |

Abstractions.  Nodes are model values; what a preflight can reject without a change of
state (wired, primary, descendant) is a request that is never made.  Generation numbers
are kept as one flag, `newer`: whether the generation about to be verified is above the
one read after the publish.  Only the collector stores generations, so the one it
verifies is the cached one.  `op_age` and the deduplication times saturate where the code
stops looking.  The broker is `delivered` and `acknowledged`: a PUBACK implies delivery,
delivery does not imply a PUBACK.  The history variables `sent`, `fallbacks`,
`withdrawn`, `verdicts`, `mode_acknowledged`, `sampled_after_send` and `fresh_match` are
read by properties only.

Commands.  A request has one command of its own, `sent`: the exact configuration, 802.11v
or the temporary blacklist, as its method says.  An automatic request that went out over
802.11v and shows no match has a second one, `fallbacks`: the temporary blacklist that
`mqtt_monitor_backhaul` starts (1829) and records in the method (1854).  Both are counted
when the broker has them, with or without a PUBACK.  The "cancel" that goes before the
fallback (1776), or ends a blacklist (1709), asks for no Parent; its failure is only
logged, and it is not counted.  The monitor lasts 45 s and the fallback is due after
45 s (72-73), so a monitor starts one at most: `FallBackAgain` is the code if the monitor
were longer.

### Runs

| Run | Instance | Shows |
|---|---|---|
| `steering_safety` | 1 child, 2 Parents (1 asked for), 2 requests per boot, reboots, exact method, modes auto and force-off | the safety properties below but the two of the next run, and refinement of `RequestChannel` |
| `steering_fallback` | 1 child, 2 Parents, 1 request per boot, method "auto", reboots, modes auto and force-off, every take may time out | `CommandsAtMostOnce`: at most the request's own command and one fallback behind it; `AcknowledgedModeIsKept`, with the 503 of a busy mutex after the flash was written |
| `steering_liveness` | 1 request per boot, fair tasks, takes succeed | `OperationTerminates` |
| `steering_force_off` | as safety, 1 request | **violated**: a granted publish survives a force-off |

*Safety*: `PendingIsRunnable`, `CommandsAtMostOnce`, `VerdictsOnDelivered`,
`VerifiedOnFreshEvidence`, `SupersededOnlyByForceOff`, `ImplementsChannel`,
`AcknowledgedModeIsKept`; each is stated in words above its definition.

Bounds.  The code has one operation record and one worker, so the interesting overlap is
that of a request the worker still works for and the next one: two requests are enough,
and the proofs below remove the bound.  One child suffices because children only differ
in their deduplication time; two Parents are needed for "attached to the wrong one".
`VerifyTimeout` and `Dedup` are one tick: what matters is before or after.  The mode
`force-on` differs from `auto` only in not asking for the capability; `steering_liveness`
has all three modes.

## ParentHealth

| Model | Code |
|---|---|
| `RecordOutcome` | `record_parent_steering_outcome` (the caller's filter is `Qualifies` of `SteeringOperation`) |
| `BeginEvaluation`, `Visit`, `Resume`, `SkipEvaluation` | `evaluate_parent_steering_health`, one round of its loop per action, in the map's order; `todo # {}` is the mutex held |
| `TakeRequest` ... `Finish`, `LoseTurn` | `process_parent_restart_request`: take, gates on a copy, re-verification and reservation, workspace, recheck, `core/Reboot`, record |
| `ManualRestart` ... `ManualErase` | `restart_handler` |
| `RestoredLeft`, `GlobalLeft`, `NodeLeft` | the three cooldown functions, 2916-2954 |
| `StoreActionable`, `StoreDegraded`, `EndUnusable`, `NoRefresh`, `DropCandidate` | outcomes of a collection; a degraded generation is stored before `router_connected` is cleared |
| `SyncClock`, `Reboot`, `Restored` | NTP, `load_parent_steering_health` |

Abstractions.  The failures of a record saturate at the threshold of two (`Charge`), where
the code counts on (3312): it never asks whether there were more.  Cooldown stamps are ages
in ticks, saturating at five minutes; the clock of
`restart_handler`, read before the lock, is `http_behind`: whether a stamp was taken
since.  "idle" and "recovered" differ in wording only and are `"resolved"`.  A tick is
longer than the worker's way from a reservation to its end (15 s of waiting and one JNAP
request against minutes).  A write to flash succeeds; history: `gap`, `limited`,
`charged`, `steady`, and `returned`: the generations that brought the child
back since the worker reserved its Parent.

### Runs

| Run | Instance | Shows |
|---|---|---|
| `health_limit` | 2 children, 2 Parents, 4 outcomes, every take may time out | `OneRestartPerWindow` between different Parents |
| `health_recovery` | 1 child that roams, manual restarts, NTP, 1 reboot, window of 2 ticks | two consecutive generations for a recovery, a recovery stops the restart, earned restarts, the limit across a reboot |
| `health_liveness` | 1 child that roams, the mode changes, fair tasks | `RequestResolves`, and the types |

Bounds.  Two failures are one restart, so four outcomes are two restarts, which is what a
limit between restarts needs; `health_recovery` needs one restart and one reload.  In
`health_limit` the window is one tick, "within" or "after"; in `health_recovery` two ticks
with a manual window of one separate the two limits; the proofs below are for any window.
`OneRestartPerWindow` counts a restart from the moment its outcome was recorded and, across a
reboot of the ESP32, only when NTP had answered: without these the code keeps no trace of it, which the list of hazards says.
`RecoveryStopsRestart` is what holds of "queued Parent restarts are cancelled when the
requested attachment returns": the worker looks at the record once, when it has its
workspace (4502-4513), and sends without looking again.  A collection that ended just
before is evaluated after it gave `memory_mutex` back (4792, 4795), so one generation with
the child on its Parent may come between the look and `core/Reboot`; a second cannot,
because it would have to be collected under `memory_mutex`.
`RecoveryNeedsConsecutiveGenerations` is checked with takes that succeed: when
`topology_lock_mutex` stays busy an evaluation is skipped, and the sequence of
`docs/release-v0.8.2.md:20-24` is then not interrupted.

## TopologyLock

| Model | Code |
|---|---|
| `Valid`, `AskForLock`, `SetLock`, `StopLock` | `topology_lock_post_handler`: the mapping is validated against a copy of the nodes, then set in a section of its own, with a rollback when flash refuses it |
| `StoreGeneration` | `collector_task`, an actionable generation |
| `Evaluate`, `SkipEvaluation` with `Counted`, `Candidates`, `Settled`, `Depth`, `Start`, `Selected` | the first section of `evaluate_topology_lock`: counts, then the scan |
| `RunPreflight`, `CheckConflict` | `mqtt_preflight` and its last call, `mqtt_topology_lock_conflict`: two more sections |
| `QueueMove`, `RefuseMove` | `queue_topology_lock_mqtt_operation`, under the other mutex |
| `NoteMove` | the last section: rotation, time of the action, flash |
| `Remaining`, `Cooldown!Restored` | the rate limit, 3541-3552 and 2916-2931 |
| `SetRate`, `StampRestart` | `set_topology_lock_cooldown_seconds`; the stamp in `process_parent_restart_request` |
| `MoveByHand`, `EndOperation` | an operation of the page, and the end of any operation |
| `Load`, `Reboot`, `SyncClock` | `load_topology_lock`, `setup`, NTP |

Abstractions.  A generation is who is online, who is wired and who reports which Parent.
`mappings = <<>>` stands for a lock that is not enabled; the code clears the one with the
other.  The time of the last action is its age and whether an epoch is known
(`stamp`, `since`, `seen`); a wall clock that goes backwards is not modelled.  The queue's
reasons to refuse (mode, capability, a move of the same Node a minute ago, another
operation) are `RefuseMove`, always possible.  The sections of one evaluation are
milliseconds apart, so time does not pass between them; everything else may happen there.
History: `period` (where the last move is noted, how long ago, the least rate since) and
`recent` (the last generations evaluated for this lock).

### Runs

| Run | Instance | Shows |
|---|---|---|
| `lock_safety` | 2 Nodes and the gateway, 2 chains and a cycle asked for, 2 observations (one Node wired or not), 2 rates, manual moves, Parent restarts, 1 reboot, takes and writes that fail | the properties below, but the last |
| `lock_turns` | 2 Nodes of the same depth, 5 observations, fair tasks, takes and writes succeed | `TurnsAreFair` |

`LockIsTree`, `LockIsSaved`, `MovesAreConfirmed`, `OneMovePerPeriod`, `MovesKeepTheTree`,
`TurnsAreFair`; stated in words above their definitions.

Bounds.  `Confirmations` is 2 where the code has 3: one mismatch is too few, two are
enough, and what can come between two comes between any; the proofs below are for any
number.  Rates of one and two ticks let a rate change shorten or lengthen a period under
way.  Two Nodes give the shortest cycle, and the wired one the only way a Parent can hang
below its child in so small a mesh, after the lock is replaced between the selection and
the preflight.

## SnapshotCache

| Model | Code |
|---|---|
| `BeginCollect`, `EndCollect` | the turn of `collector_task`: `memory_mutex` for the whole collection |
| `AskRouter`, `Compress` with `ReuseBuffer` and `HandOver` | one round of the loop of `collect_snapshot`: the request, then the cached buffer taken over (no PSRAM, device list only), then `compress_response` |
| `Fail` | every `return false` of `collect_snapshot`, and the device list that is not "OK" |
| `Store` | 4772-4788: the generation is counted, then `snapshot_mutex` asked for |
| `Accept`, `ReadPrevious`, `AwaitRefresh` | `refresh_handler`, `connect_handler` |
| `TakeMemory`, `TakeSnapshot`, `StreamEntry`, `EndTopology` | `topology_handler` |
| `ResolveNode`, `TakeMemoryForNode`, `AskNode` | `resolve_node` and the handlers that then ask the Node |
| `ReadSettings`, `SetSettings` | `current_topology_optimization_settings`, `node_steering_mode_handler` |
| `BeginLookUp` ... `AwaitScan` | the loop at 1427-1446 with `mqtt_confirm_target_from_child_neighbors` |

Abstractions.  Of the eleven `READ_ACTIONS` three are kept, in their order: the neighbour
scan and the steering settings, which are read back by name, and the device list, which is
the last one and the one whose buffer moves.  A response is what its reader finds in it.
An entry carries the collection that asked for it, a history variable.  A request to the
router is one step; whether its answer can be expanded is a choice.  `late` says that a
wait ran out of time.  Settings that somebody else changes on the gateway are not
modelled: the handler would undo them (hazard at 5510).

| Run | Instance | Shows |
|---|---|---|
| `cache_safety` | no PSRAM, 3 collections (`MaxCollections`), all four endpoints, scans with and without the target, every take may time out, fair tasks | one generation per response, refreshes that advance, rejections after three scans, settings kept, locks ordered, the hand-over hidden, every request answered |

Bounds.  A rejection needs three generations, so three collections; more repeat one of
them.  One client suffices, as there is one HTTP task.

## ResponseCodec

| Model | Code |
|---|---|
| `Search`, `EndSearch`, `Put`, `NoMemory` | `compress_response`: one place of the search, the last literals, `emit_byte` and `emit_bytes`, the tables that do not fit the heap |
| `Extension`, `Token`, `MatchAt`, `ReadLength` | the format: `emit_length`, the token, the distance, `read_length` |
| `DecodeSequence`, `EndDecode` | `decompress_response` |
| `StreamToken` ... `EndStream`, `Emit` | `stream_decompressed_response`, byte by byte |
| `HandOver` | 2413-2427: the entry keeps its size and loses its bytes |

Here the data are the subject, so the format is kept byte for byte, and only its scale is
smaller: `Nibble`, `Window`, `MinMatch` and `SendBuffer` are constants, a byte has
`(Nibble + 1)^2` values, and `Slot` is the hash, with collisions.  A client may go away at
a chunk that is chosen at the start (`Patience`), and the output be limited (`Limits`).

| Run | Instance | Shows |
|---|---|---|
| `codec` | 2 letters, all responses up to 11 letters (`MaxLength`), `Nibble` 1, window 5, two buffers | the round trip, the stream, the ring, and that an unlimited buffer is never too small |

Bounds.  With a nibble of 1 a length of 4 takes a second extension byte; a match of
`MinMatch` after a full window, an overlapping match and the turn of the ring all fit in
eleven letters.  For the numbers of the code (15, 8192, 4) and for
responses of any length stand the theorems below, which use no more of the numbers than
their order.

## MqttSession

| Model | Code |
|---|---|
| `StartWorkerJob`, `StartHopTest`, `StartCancel` | the guards of `mqtt_steering_worker`, `mqtt_hop_test_handler` and `mqtt_blacklist_cancel_handler` |
| `Connect`, `Subscribe`, `ReadSuback` | `connect_to_router`, `subscribe_devinfo` |
| `Publish`, `ReadPuback` | `publish`: send, then packets until the PUBACK of its id |
| `ReadWhileWaiting` | `wait_for_devinfo`, `wait_for_backhaul`, `wait_for_link_metrics` |
| `LosePacket` | every `return false` of `read_packet` in the middle of a packet |
| `Deadline` | the time limit of each of these loops |
| `After`, `Script` | which topic follows: `mqtt_refresh_devinfo`, `mqtt_probe_roundtrip`, `mqtt_refresh_backhaul_phy`, `mqtt_publish_parent_request` |
| `TakeRecord`, `Resolved`, `Resolve` | `mqtt_devinfo_from_packet`; the target and where it comes from |
| `Conclude` | `mqtt_set_capability`; the cooldown given back at 6210 |
| `Accept`, `Answer`, `Forward` | the broker: external, modelled from what the session must expect |

Abstractions.  A packet is its type, its id and, for a PUBLISH, whose record it holds and
which of the two fields are valid.  `aligned` says whether the next read begins at a
packet; bytes read off it mean nothing (their four-bit type would have to be that of a
PUBACK and their body the id waited for, which is left out): that half of "only the PUBACK
of the command confirms it" is assumed, and the other half, late PUBACKs, is checked.  The worker's jobs and the
HTTP task's share nothing but the mode, the capability and the cooldowns, so one session
at a time suffices; `SetMode` happens at any point of a worker's session.  The mutex
that is busy at the end of a session leaves things as they are.  Fallback and monitor
after a publish are `SteeringOperation`'s.

| Run | Instance | Shows |
|---|---|---|
| `session` | all five jobs one after another, 2 unread packets (`MaxUnread`), records with both fields, one, none, and of others; fair session and time | `AcknowledgedIsDelivered`, `HopTestsArePaced`, `EverySessionEnds` |

Bounds.  Two packets in the socket let a late PUBACK come before the one that is waited
for.  Packet ids are those of the code; a session of one of the five jobs sends at most
six.  `mqtt_monitor_backhaul` opens a session of a sixth kind (1629), which is not
modelled: it repeats two refreshes for 45 s, every one followed by up to 8 s of waiting,
and adds the commands of the fallback.  The wrap of the ids at 65535 stays out of reach
there too.

## Fairness

* The worker and the collector are loops that poll; a handler runs to its end: weak
  fairness of their steps.
* `TakeOperation`, `TakeRequest`, `StoreFresh`: strong fairness.  Collections succeed again
  and again on a working router, and `router_connected` then holds for 10 s, longer than
  the worker's poll of 1 s; the worker's turns are not starved by FreeRTOS priorities
  because both other tasks block.
* `Tick`: weak fairness; time passes.
* The liveness runs let no take time out.  With takes that may, `OperationTerminates`
  does not hold: a state write that is skipped (4374, 4699) is never made up for.
* In `ParentHealth` the worker and handler steps are strongly fair: a take waits for 1 s
  and a section lasts microseconds, so a mutex that is free again and again is got.
* In `SnapshotCache`, the steps of each task are weakly fair: a free mutex is taken and a
  wait ends, by a generation or by its time.  That requests come, or that collections
  succeed, is not assumed.
* In `MqttSession`, the session's steps and the deadlines are weakly fair.  Nothing is
  assumed of the broker, which may stay silent or never stop.
* In `TopologyLock`, `QueueMove` and `Tick` are strongly fair.  The queue's reasons to
  refuse a move pass (a minute, another operation), or are the owner's (the mode), so a
  move that is offered again and again is accepted again and again; and time passes
  although the collector is never idle for long.  Nothing is assumed of moves: they may
  fail for ever.

## Proofs

`SteeringOperationProofs` proves, for all sets of Nodes, all bounds and both kinds of
`LockOutcomes`, from `SteeringAssumption` alone:

| Theorem | Statement |
|---|---|
| `TypeCorrect` | `Spec => []TypeOK` |
| `Invariance` | `Spec => []IInv` |
| `AtMostOnce` | `Spec => []CommandsAtMostOnce`: at most two commands per request, its own and one fallback behind it |
| `PendingSafe`, `VerdictsSafe`, `VerifiedFresh`, `SupersededSafe` | the other safety invariants of the runs |
| `ModeKept` | `Spec => AcknowledgedModeIsKept` |
| `Refinement` | `Spec => ImplementsChannel` |

None of the properties is inductive.  `IInv` adds what makes them so, a named part per
idea: the record holds the youngest request and the worker one that is not younger
(`IdInv`); nothing younger than the worker's copy is on the wire while it publishes, and
nothing as young as a pending request (`WireInv`); only what the broker has falls back,
the worker's request not before its monitor ends, and a record that fell back says so in
its method (`FallbackInv`); while it publishes, the worker's
request is current, or was withdrawn (`HandoverInv`); a verdict is given under
`health_outcome_recorded` (`VerdictInv`); after a first match, every collection that can
give the second one began after the publish (`EvidenceInv`); the acknowledged mode is the
one in flash (`ModeInv`).  Each part is proved preserved by the steps of the HTTP task,
the worker, the collector, the clock and a reboot.  `Refinement` follows from `IInv` and
a lemma per kind of step: only `Publish` delivers, and what it delivers is younger than
everything delivered before (`WireInv`); only `PublishFallback` falls back, and what it
falls back for was delivered, last, and has not fallen back before (`FallbackInv`).

`ParentHealthProofs` proves, from `HealthAssumption`, for any mesh, any window and any
bounds:

| Theorem | Statement |
|---|---|
| `TypeCorrect` | `Spec => []TypeOK` |
| `RestartsAreLimited` | `Spec => OneRestartPerWindow`, whichever takes time out |
| `RestartsPaidFor` | `Spec => RestartsAreEarned`, if `LockOutcomes = {TRUE}` |
| `RecoveriesAreConsecutive` | `Spec => RecoveryNeedsConsecutiveGenerations`, if `LockOutcomes = {TRUE}` |
| `RecoveriesStopRestarts` | `Spec => RecoveryStopsRestart`, whichever takes time out |

`LimitOK` relates the history to what the code reads: while the window of a recorded
restart lasts, `restart_since` or the restored cooldown does too, and a worker that holds
a reservation got it after the window.  `EarnedOK` bounds the failures a record shows by
those that were charged, except between an answer and its record.  `RecoveryOK` says for
each place of the collector what a match stands for: it rests on the generation before
the one that is evaluated, and is void once a collection has failed.  `RestartsPaidFor`
and `RecoveriesAreConsecutive` need takes that succeed, because the code drops the write
of a take that times out; the runs that check these properties make the same assumption.
`StopOK` is what `RecoveriesStopRestarts` rests on.  `NetworkOK` says who holds
`memory_mutex`; `LoopOK`, which kind of evaluation the loop over the records is in.
`NoticedOK` follows the worker: before the recheck, a generation that brought the child
back has left its mark, because nothing but the reservation puts a record with failures
back to "parent-restarting"; at the recheck nothing is unnoticed; and while the worker
sends, it holds `memory_mutex`, so at most the one generation that was already stored is
evaluated, and the collector is then past it.

`TopologyLockProofs` proves, from `LockAssumption`, for any mesh and mapping, any number
of confirmations and any rates, whichever takes and writes fail:

| Theorem | Statement |
|---|---|
| `TypeCorrect` | `Spec => []TypeOK` |
| `InForceIsSaved`, `AlwaysTree` | `Spec => []LockIsSaved`, `Spec => []LockIsTree` |
| `Confirmed`, `MovesPaced`, `TreeKept` | `Spec => MovesAreConfirmed`, `Spec => OneMovePerPeriod`, `Spec => MovesKeepTheTree` |

`PeriodOK` says that the cooldown the code reads, in RAM and in flash, never ends before
the period of the last move; `LockOK`, that the lock in force is the one in flash and a
tree; `ConfirmedOK`, that a count of mismatches is borne out by the generations evaluated
last.  The validation of a mapping (`Climb`) and the check below a Node (`Descendants`)
are recursive functions, and induction theorems are out of reach: what the two compute is
proved through the least index at which they would leave a set, which well-foundedness of
the natural numbers provides.

`SnapshotCacheProofs` proves, from `CacheAssumption` alone (any set of endpoints and
scans, with and without PSRAM, any number of collections):

| Theorem | Statement |
|---|---|
| `TypeCorrect` | `Spec => []TypeOK` |
| `LocksOrdered`, `HandOverHidden`, `OneGeneration`, `RefreshIsNewer`, `ClientSteeringKept`, `RejectionNeedsThreeScans` | the safety invariants of `cache_safety` |

The invariants come in layers.  `OwnersOK` says who holds which mutex at which program
counter, and needs nothing else.  On it rest `CacheOK` (the cache holds the entries of one
collection, and a collection under way is younger), `SettingsOK` (a setting is a setting),
`SteeringOK` (whatever is cached, or was read, of Client Steering is the gateway's value),
`RefreshOK` (what a handler remembers is a generation that was cached), `SeenOK` (nobody
is ahead of the generation counter) and `ReplyOK` (a response under way is a prefix of
what is cached, which nobody can replace while it is sent).  `ScansOK` rests on `SeenOK`: the
generations the look-up has counted are older than the one it looks at next, so its
counter is the number of different ones.

`ResponseCodecProofs` proves, from `CodecAssumption` (responses of any length over any
alphabet, any window, any hash, any capacity, any send buffer), all the invariants of its
run:

| Theorem | Statement |
|---|---|
| `TypeCorrect` | `Spec => []TypeOK` |
| `ResponsesExpandToThemselves` | `Spec => []RoundTrip` |
| `ClientsReceiveTheResponse` | `Spec => []StreamIsResponse` |
| `RingIsTheEndOfTheStream` | `Spec => []RingHoldsWindow` |
| `CompressedResponsesFit` | `Spec => []CompressionFits`, if `MinMatch >= 4` and `Slack >= 2` |

None is inductive, because the readers meet bytes that were written long ago: what makes
those bytes readable must be kept in between.  `Sequence` relates two points, each an
offset in the response and a place in its bytes, when the bytes between the places are a
token, literals and a match that stand for the letters between the offsets.  `CodecInv`
says that a chain of sequences leads from the start to the anchor while compressing
(`LeadsTo`), from the start to the end once the response is kept and from the place of a
reader to the end (`Ends`), and that a reader has put out the response up to its offset.
In the middle of a sequence the streamer is in its literals or in its match, with what
is left of them (`InLiterals`, `InMatch`).  A chain is the set of its points, each with a
successor in the set: induction is out of reach, and a set needs none, since a sequence is
put at either end by adding one point.  The lemmas below the invariant are about the
format: `emit_length` and `read_length` are inverse to each other, a match that overlaps
itself copies the right letters byte by byte, and two offsets less than `Window` apart
have different places in the ring.

`CompressedResponsesFit` adds a bound: up to the anchor the output has at most one byte
more than letters for every `LengthStep` letters.  A match pays for its token and the two
bytes of its distance because it has four letters or more, and the last sequence needs a
token and one byte of extension beside that.  In the code a match has at least 4 bytes
and 32 are added to the maximum; the run has 4 and 2, the least values the theorem allows.

`MqttSessionProofs` proves `TypeCorrect` (`Spec => []TypeOK`), in parts about the plan of
a session, its socket, the radio it looks for and what the sessions share, and
`AcknowledgementsHold` (`Spec => []AcknowledgedIsDelivered`)
through `DeliveryOK`: every PUBACK in the socket has an id the broker has accepted.  It
proves `HopTestsPaced` (`Spec => HopTestsArePaced`) through `PacedOK`: a minute in which
a hop test was answered is a minute in which the cooldown is on, and a hop test under way
has not been answered.

What is only model-checked: liveness, which is out of the prover's reach with everything
that needs ENABLED.  Every invariant and every action property of the passing runs is a
theorem; where one needs more than the assumptions of its module, the table says what.

## Disagreements with the documents

The run `steering_force_off` ends in a violation on purpose; `PROJECT.json` "findings"
quotes the sentence it refutes.  Six more configurations do the same on demand.  They
are not among the runs; `tlc -config X.cfg M` shows each counterexample.

| Configuration, module | Property | What a document says | What TLC shows |
|---|---|---|---|
| `MCHealthGates.cfg`, `MCParentHealth` | `GatesHoldAtReboot` | `README.md:750` "The conditions are checked again immediately before the request", `docs/mqtt-parent-steering.md:237` | the gates (4427-4445) come before a wait of up to 15 s for `memory_mutex`; the recheck (4504-4513) reads the record only, so a Parent that has gained a child, or a force-off, does not stop `core/Reboot` |
| `MCHealthConfirming.cfg`, `MCParentHealth` | `ConfirmationStopsRestart` | `docs/release-v0.8.2.md:25-27` "Queued Parent restarts are cancelled when the requested attachment returns, including recovery while the worker waits for its network workspace" | the collector gives `memory_mutex` back (4792) before it evaluates (4795): the worker rechecks the record in between, the evaluation then sets it to "confirming" and clears the request, and `core/Reboot` is sent |
| `MCHealthReservation.cfg`, `MCParentHealth` | `ReservationKeepsManualOut` | comment at 4486-4487: reserved "so a simultaneous manual restart cannot send a duplicate core/Reboot" | `restart_handler` reads the clock (6557) before it takes the mutex; a stamp the worker sets meanwhile makes the unsigned difference (6570) huge, and the restart passes |
| `MCLockOutage.cfg`, `MCTopologyLock` | `TurnsAreFair` | `README.md:702-704` "nodes at the same depth rotate fairly" | a Node whose preflight fails is selected again in every generation (4144 returns without a note); its sibling never gets a turn.  Needs five Nodes: one offline, the one that lost it, a Parent settled below that one, two siblings |
| `MCCacheHandOver.cfg`, `MCSnapshotCache` | `LastTopologyIsVisible` | `README.md:149-150` "The last complete topology remains visible, clearly marked as cached, when the router is temporarily unreachable" | without PSRAM, a collection that fails after it took over the cached device list's buffer (4298-4308) leaves the cache without it: responses end short until a collection succeeds |
| `MCSessionTarget.cfg`, `MCMqttSession` | `TargetIsOneRecord` | `docs/mqtt-parent-steering.md:122-124` "resolves BSSID and channel from fresh MQTT DEVINFO" | a later record of the Parent without a valid channel replaces the BSSID of a target that stays valid (1021) |

Others were met while modelling and are listed as hazards: the
verification window is not enforced on a late match; a request can stay active for ever
when a take times out; a stop of Topology Lock does not stop a request that was already
granted; the five-minute limit is forgotten by a reboot when NTP had not answered; a stale
"restart-failed" can replace "confirming"; `docs/mqtt-parent-steering.md:196-197` says
automatic actions are limited to one every five minutes while the default rate is 60 s
(`TOPOLOGY_LOCK_ACTION_COOLDOWN_DEFAULT_SECONDS`).

## Not modelled

The response parsers and statistics, and the parsers of backhaul evidence and PHY rates
(725-931): what they find is a choice in the models that use it.  The HTTP client under
JNAP: a request is one step with an outcome.  The desktop server, the CLI, the page's
state and the BLE overlay: planned, see above.  Read-only handlers, sensors, assets, build
tools, rendering and layout have no state worth a model.  Writes to flash that fail
(except in `TopologyLock`), allocation failures (except in `SnapshotCache` and
`ResponseCodec`) and malformed JSON are left out, except where a handler answers with an
error before it changes anything.
