--------------------------- MODULE SteeringOperation ---------------------------
(***************************************************************************)
(* The life of one MQTT Parent-steering request in meshscope_edge.h.        *)
(*                                                                         *)
(* Three tasks share the single mqtt_operation record under                 *)
(* mqtt_steering_mutex: the HTTP server (one task, so its handlers never    *)
(* overlap each other), the MQTT worker and the topology collector.  Every  *)
(* critical section is one action; what a task does between two critical    *)
(* sections is a value of its program counter.  A take of a mutex is        *)
(* bounded in the code (pdMS_TO_TICKS), so a section is entered with an     *)
(* outcome ok \in LockOutcomes.                                             *)
(***************************************************************************)
EXTENDS Naturals

CONSTANTS
  Children,       (* mesh Nodes that may be steered                          *)
  Parents,        (* mesh Nodes they may be attached to                      *)
  Targets,        (* bound: the Parents that requests and locks name         *)
  None,           (* no Node: an offline child, an unlocked child            *)
  Unverified,     (* the Parent of an online child in a degraded generation  *)
  Methods,        (* the "method" values the steer endpoint is called with   *)
  ModesAsked,     (* bound: the modes that are in flash or asked for         *)
  VerifyTimeout,  (* MQTT_VERIFICATION_TIMEOUT_MS in ticks of the clock      *)
  Dedup,          (* MQTT_OPERATION_DEDUP_MS in ticks of the clock           *)
  MaxOperations,  (* bound: requests accepted between two reboots            *)
  LockOutcomes    (* {TRUE}, or BOOLEAN when a bounded take may time out     *)

ASSUME SteeringAssumption ==
  /\ None \notin Children \cup Parents
  /\ Unverified \notin Children \cup Parents \cup {None}
  /\ Targets \subseteq Parents
  /\ Methods \subseteq {"auto", "11v", "blacklist", "bh-config", "reconsider"}
  /\ ModesAsked \subseteq {"auto", "force-on", "force-off"}
  /\ VerifyTimeout \in Nat \ {0}
  /\ Dedup \in Nat \ {0}
  /\ MaxOperations \in Nat
  /\ LockOutcomes \subseteq BOOLEAN /\ TRUE \in LockOutcomes

VARIABLES
  mqtt_mode,            (* MqttSteeringMode in RAM                           *)
  nvs_mode,             (* the mode key in flash                             *)
  mqtt_available,       (* the capability proved by the last probe           *)
  request,              (* mqtt_operation: what was asked                    *)
  op_state,             (* mqtt_operation.state                              *)
  op_age,               (* uptime_ms() - started_ms, saturating              *)
  op_matches,           (* mqtt_operation.consecutive_matches                *)
  op_recorded,          (* mqtt_operation.health_outcome_recorded            *)
  mqtt_operation_pending,
  mqtt_next_operation_id,
  mqtt_child_cooldowns, (* ticks left of the deduplication window, per child *)
  topology_lock,        (* locked Parent of each child; None when stopped    *)
  snapshot,             (* cached observation: Parent of each child, or None *)
  router_connected,
  newer,                (* the generation the collector is about to verify   *)
                        (* is above the one the worker read after publishing *)
  http,                 (* HTTP task: program counter                        *)
  http_mode,            (* ... mode being set                                *)
  http_request,         (* ... request that passed preflight                 *)
  worker,               (* MQTT worker: program counter                      *)
  worker_request,       (* ... its copy of the operation                     *)
  worker_probe,         (* ... its copy said "auto, and no capability yet"   *)
  collector,            (* collector: program counter                        *)
  collector_request,    (* ... candidate chosen by evaluate_topology_lock    *)
  \* History, read by properties only.
  sent,                 (* times the own command of each request was put on  *)
                        (* the wire                                          *)
  fallbacks,            (* ... and the blacklist of its 802.11v fallback     *)
  withdrawn,            (* requests a force-off has cancelled                *)
  verdicts,             (* times record_parent_steering_outcome was reached  *)
  mode_acknowledged,    (* the last mode request was answered 200            *)
  sampled_after_send,   (* the running collection began after the publish    *)
  fresh_match           (* ... so did the one that gave the last match       *)

operation_vars == <<request, op_state, op_age, op_matches, op_recorded,
                    mqtt_operation_pending, mqtt_next_operation_id>>
mode_vars      == <<mqtt_mode, nvs_mode, mqtt_available>>
http_vars      == <<http, http_mode, http_request>>
worker_vars    == <<worker, worker_request, worker_probe>>
collector_vars == <<collector, collector_request>>
topology_vars  == <<snapshot, router_connected>>
wire_vars      == <<sent, fallbacks>>
history_vars   == <<wire_vars, withdrawn, verdicts, mode_acknowledged,
                    sampled_after_send, fresh_match>>

vars == <<operation_vars, mode_vars, http_vars, worker_vars, collector_vars,
          topology_vars, mqtt_child_cooldowns, topology_lock, newer,
          history_vars>>

--------------------------------------------------------------------------------
(* Types. *)

Modes == {"auto", "force-on", "force-off"}
Ids   == 1..MaxOperations

\* mqtt_operation_is_active
Active == {"queued", "probing", "discovering-target", "publishing",
           "verification-pending"}
States == Active \cup {"idle", "verified", "failed", "cancelled"}

\* Mutation of MQTT_VERIFY_GENERATIONS: the first match is believed.
OneGeneration == 1

MQTT_VERIFY_GENERATIONS == 2

OpMethods == {"auto", "11v", "blacklist", "bh-config", "reconsider",
              "11v+temporary-blacklist"}
Requests == [id : 0..MaxOperations, child : Children \cup {None},
             parent : Parents \cup {None},
             origin : {"manual", "topology-lock"}, method : OpMethods]
NoRequest == [id |-> 0, child |-> None, parent |-> None,
              origin |-> "manual", method |-> "auto"]

\* Places of the worker loop between two critical sections.
BeforePublish == {"conflict", "probing", "roundtrip", "gate", "announce",
                  "discover", "grant", "publish"}
AfterPublish  == {"acknowledged", "confirm"}
WorkerPCs     == BeforePublish \cup AfterPublish \cup
                 {"idle", "probe", "report", "failing", "monitor", "fallback"}
CollectorPCs  == {"idle", "collecting", "verify", "record-verified",
                  "record-failed", "lock", "queue"}

Unlocked == [c \in Children |-> None]
NoCounts == [i \in Ids |-> 0]

\* The static initialisers, after load_mqtt_mode and load_topology_lock.
Init ==
  /\ nvs_mode \in ModesAsked
  /\ mqtt_mode = nvs_mode
  /\ mqtt_available = FALSE
  /\ request = NoRequest
  /\ op_state = "idle"
  /\ op_age = 0
  /\ op_matches = 0
  /\ op_recorded = FALSE
  /\ mqtt_operation_pending = FALSE
  /\ mqtt_next_operation_id = 0
  /\ mqtt_child_cooldowns = [c \in Children |-> 0]
  /\ topology_lock = Unlocked
  /\ snapshot = [c \in Children |-> None]
  /\ router_connected = FALSE
  /\ newer = FALSE
  /\ http = "idle"
  /\ http_mode = "auto"
  /\ http_request = NoRequest
  /\ worker = "idle"
  /\ worker_request = NoRequest
  /\ worker_probe = FALSE
  /\ collector = "idle"
  /\ collector_request = NoRequest
  /\ sent = NoCounts
  /\ fallbacks = NoCounts
  /\ withdrawn = {}
  /\ verdicts = NoCounts
  /\ mode_acknowledged = FALSE
  /\ sampled_after_send = FALSE
  /\ fresh_match = FALSE

--------------------------------------------------------------------------------
(* The record shared by the three tasks. *)

IsActive == op_state \in Active

\* Mutation of IsCurrent: the operation id is not compared.
AnyRequest == TRUE

\* The worker still works for the request mqtt_operation describes.
IsCurrent == request.id = worker_request.id

\* Mutation of MayQueue: only a pending operation keeps the next one out.
MayQueueBesideActive(child) ==
  /\ mqtt_mode # "force-off"
  /\ mqtt_mode = "auto" => mqtt_available
  /\ ~mqtt_operation_pending
  /\ mqtt_child_cooldowns[child] = 0
  /\ mqtt_next_operation_id < MaxOperations

\* The checks every enqueuer makes under mqtt_steering_mutex.
MayQueue(child) ==
  /\ mqtt_mode # "force-off"
  /\ mqtt_mode = "auto" => mqtt_available
  /\ ~IsActive /\ ~mqtt_operation_pending
  /\ mqtt_child_cooldowns[child] = 0
  /\ mqtt_next_operation_id < MaxOperations

\* mqtt_operation = {} followed by its assignments.
Queue(child, parent, origin, method) ==
  /\ mqtt_next_operation_id' = mqtt_next_operation_id + 1
  /\ request' = [id |-> mqtt_next_operation_id + 1, child |-> child,
                 parent |-> parent, origin |-> origin, method |-> method]
  /\ op_state' = "queued"
  /\ op_age' = 0
  /\ op_matches' = 0
  /\ op_recorded' = FALSE
  /\ mqtt_operation_pending' = TRUE

\* History: nothing was observed since the new request was published.
NoEvidence == sampled_after_send' = FALSE /\ fresh_match' = FALSE

SetState(state) ==
  /\ op_state' = state
  /\ UNCHANGED <<request, op_age, op_matches, op_recorded,
                 mqtt_operation_pending, mqtt_next_operation_id>>

\* mqtt_set_capability; the caller goes on whether or not the take succeeded.
SetCapability(available, ok) ==
  mqtt_available' = IF ok THEN available ELSE mqtt_available

\* mqtt_topology_lock_conflict; a failed take of topology_lock_mutex conflicts.
LockConflict(child, parent, require_locked_mapping, ok) ==
  \/ ~ok
  \/ topology_lock[child] \notin {None, parent}
  \/ require_locked_mapping /\ topology_lock[child] = None

\* mqtt_preflight: what it can reject here.  An absent, primary, wired or
\* descendant Node is rejected without a change of state.
Preflight(child, parent, ok) ==
  /\ snapshot[child] \notin {None, parent}
  /\ ~LockConflict(child, parent, FALSE, ok)

--------------------------------------------------------------------------------
(* HTTP task. *)

\* mqtt_parent_mode_handler up to persist_mqtt_mode: flash is written before
\* the mutex is taken.  (A failed write answers 500 and changes nothing.)
PersistMode(mode) ==
  /\ http = "idle"
  /\ http' = "mode"
  /\ http_mode' = mode
  /\ nvs_mode' = mode
  /\ mode_acknowledged' = FALSE
  /\ UNCHANGED <<mqtt_mode, mqtt_available, http_request, operation_vars,
                 worker_vars, collector_vars, topology_vars,
                 mqtt_child_cooldowns, topology_lock, newer, wire_vars,
                 withdrawn, verdicts, sampled_after_send, fresh_match>>

\* A force-off cancels what is queued or in progress, except a request that
\* already waits for its verification.
Cancellable == \/ mqtt_operation_pending
               \/ IsActive /\ op_state # "verification-pending"

\* Mutation of CancelOperation: the pending flag survives.
CancelKeepsPending ==
  /\ op_state' = "cancelled"
  /\ withdrawn' = withdrawn \cup {request.id}
  /\ UNCHANGED <<request, op_age, op_matches, op_recorded,
                 mqtt_operation_pending, mqtt_next_operation_id>>

CancelOperation ==
  /\ op_state' = "cancelled"
  /\ mqtt_operation_pending' = FALSE
  /\ withdrawn' = withdrawn \cup {request.id}
  /\ UNCHANGED <<request, op_age, op_matches, op_recorded,
                 mqtt_next_operation_id>>

KeepOperation == UNCHANGED <<operation_vars, withdrawn>>

\* Mutation of ApplyMode: the copy in RAM is left to the next boot.
ApplyAtBoot ==
  /\ mode_acknowledged' = TRUE
  /\ UNCHANGED <<mqtt_mode, mqtt_available>> /\ KeepOperation

ApplyMode ==
  /\ mqtt_mode' = http_mode
  /\ mode_acknowledged' = TRUE
  /\ IF http_mode = "force-off"
       THEN /\ mqtt_available' = FALSE
            /\ IF Cancellable THEN CancelOperation ELSE KeepOperation
       ELSE UNCHANGED mqtt_available /\ KeepOperation

\* The rest of the handler: 503 when the mutex stays busy.
FinishMode(ok) ==
  /\ http = "mode"
  /\ http' = "idle"
  /\ http_mode' = "auto"
  /\ \/ ok /\ ApplyMode
     \/ /\ ~ok
        /\ mode_acknowledged' = FALSE
        /\ UNCHANGED <<mqtt_mode, mqtt_available>> /\ KeepOperation
  /\ UNCHANGED <<nvs_mode, http_request, worker_vars, collector_vars,
                 topology_vars, mqtt_child_cooldowns, topology_lock, newer,
                 wire_vars, verdicts, sampled_after_send, fresh_match>>

\* mqtt_steer_handler up to the end of mqtt_preflight.
SteerPreflight(child, parent, method) ==
  /\ http = "idle"
  /\ \E ok \in LockOutcomes : Preflight(child, parent, ok)
  /\ http' = "steer"
  /\ http_request' = [id |-> 0, child |-> child, parent |-> parent,
                      origin |-> "manual", method |-> method]
  /\ UNCHANGED <<http_mode, mode_vars, operation_vars, worker_vars,
                 collector_vars, topology_vars, mqtt_child_cooldowns,
                 topology_lock, newer, history_vars>>

\* ... and its section under mqtt_steering_mutex: 202, or 409/503.
SteerQueue(ok) ==
  /\ http = "steer"
  /\ http' = "idle"
  /\ http_request' = NoRequest
  /\ IF ok /\ MayQueue(http_request.child)
       THEN /\ Queue(http_request.child, http_request.parent, "manual",
                     http_request.method)
            /\ NoEvidence
       ELSE UNCHANGED <<operation_vars, sampled_after_send, fresh_match>>
  /\ UNCHANGED <<http_mode, mode_vars, worker_vars, collector_vars,
                 topology_vars, mqtt_child_cooldowns, topology_lock, newer,
                 wire_vars, withdrawn, verdicts, mode_acknowledged>>

\* topology_lock_post_handler: a Parent for every child, or a stop.
PostTopologyLock(mapping) ==
  /\ http = "idle"
  /\ topology_lock' = mapping
  /\ UNCHANGED <<http_vars, mode_vars, operation_vars, worker_vars,
                 collector_vars, topology_vars, mqtt_child_cooldowns, newer,
                 history_vars>>

--------------------------------------------------------------------------------
(* MQTT worker. *)

WorkerKeeps == UNCHANGED <<nvs_mode, mqtt_mode, http_vars, collector_vars,
                           topology_vars, topology_lock, withdrawn, verdicts,
                           mode_acknowledged, sampled_after_send, fresh_match>>

\* One turn of mqtt_steering_worker: copy the operation and clear the flag.
TakeOperation ==
  /\ worker = "idle" /\ router_connected
  /\ mqtt_operation_pending
  /\ mqtt_operation_pending' = FALSE
  /\ IF mqtt_mode = "force-off"
       THEN UNCHANGED worker_vars
       ELSE /\ worker_request' = request
            /\ worker_probe' = (mqtt_mode = "auto" /\ ~mqtt_available)
            /\ worker' = "conflict"
  /\ UNCHANGED <<request, op_state, op_age, op_matches, op_recorded,
                 mqtt_next_operation_id, mqtt_available, mqtt_child_cooldowns,
                 newer, wire_vars>>
  /\ WorkerKeeps

\* The periodic or requested capability probe; its timing is left open.
BeginProbe ==
  /\ worker = "idle" /\ router_connected
  /\ ~mqtt_operation_pending /\ mqtt_mode # "force-off"
  /\ worker' = "probe"
  /\ UNCHANGED <<operation_vars, worker_request, worker_probe, mqtt_available,
                 mqtt_child_cooldowns, newer, wire_vars>>
  /\ WorkerKeeps

FinishProbe(available, ok) ==
  /\ worker = "probe"
  /\ worker' = "idle"
  /\ SetCapability(available, ok)
  /\ UNCHANGED <<operation_vars, worker_request, worker_probe,
                 mqtt_child_cooldowns, newer, wire_vars>>
  /\ WorkerKeeps

\* A step of the worker that moves its program counter and nothing else.
WorkerGoes(from, to) ==
  /\ worker = from
  /\ worker' = to
  /\ UNCHANGED <<operation_vars, worker_request, worker_probe, mqtt_available,
                 mqtt_child_cooldowns, newer, wire_vars>>
  /\ WorkerKeeps

\* The end of a turn: the copy is local to the loop body.
WorkerEnds(from) ==
  /\ worker = from
  /\ worker' = "idle"
  /\ worker_request' = NoRequest
  /\ worker_probe' = FALSE

CheckConflict(ok) ==
  WorkerGoes("conflict",
    IF LockConflict(worker_request.child, worker_request.parent,
                    worker_request.origin = "topology-lock", ok)
      THEN "failing"
      ELSE IF worker_probe THEN "probing" ELSE "gate")

\* A write of mqtt_operation.state guarded by the operation id only.
WorkerWrites(from, to, state, ok) ==
  /\ worker = from
  /\ worker' = to
  /\ IF ok /\ IsCurrent THEN SetState(state) ELSE UNCHANGED operation_vars
  /\ UNCHANGED <<worker_request, worker_probe, mqtt_available,
                 mqtt_child_cooldowns, newer, wire_vars>>
  /\ WorkerKeeps

AnnounceProbe(ok) == WorkerWrites("probing", "roundtrip", "probing", ok)

FinishRoundtrip(available, ok) ==
  /\ worker = "roundtrip"
  /\ worker' = IF available THEN "gate" ELSE "failing"
  /\ SetCapability(available, ok)
  /\ UNCHANGED <<operation_vars, worker_request, worker_probe,
                 mqtt_child_cooldowns, newer, wire_vars>>
  /\ WorkerKeeps

\* mqtt_mode_allows_probe, then the announcement in a section of its own.
CheckMode(ok) ==
  WorkerGoes("gate",
    IF ok /\ mqtt_mode # "force-off" THEN "announce" ELSE "failing")

AnnounceDiscovery(ok) ==
  WorkerWrites("announce", "discover", "discovering-target", ok)

\* mqtt_publish_parent_request up to publish_allowed: discovery of the radio.
Discover == WorkerGoes("discover", "grant") \/ WorkerGoes("discover", "report")

\* ... its section under the mutex, which is left before anything is sent.
GrantPublish(ok) ==
  /\ worker = "grant"
  /\ IF ok /\ mqtt_mode # "force-off" /\ IsCurrent
       THEN worker' = "publish" /\ SetState("publishing")
       ELSE worker' = "report" /\ UNCHANGED operation_vars
  /\ UNCHANGED <<worker_request, worker_probe, mqtt_available,
                 mqtt_child_cooldowns, newer, wire_vars>>
  /\ WorkerKeeps

\* ... the optional WLAN/subdev refresh, then the request: the broker may have
\* it although the PUBACK is lost.
Publish(delivered, acknowledged) ==
  /\ worker = "publish"
  /\ acknowledged => delivered
  /\ worker' = IF acknowledged THEN "acknowledged" ELSE "report"
  /\ sent' = IF delivered
               THEN [sent EXCEPT ![worker_request.id] = @ + 1] ELSE sent
  /\ UNCHANGED fallbacks
  /\ UNCHANGED <<operation_vars, worker_request, worker_probe, mqtt_available,
                 mqtt_child_cooldowns, newer>>
  /\ WorkerKeeps

\* Mutation of ReportFailure: a publish without PUBACK is tried again.
RetryLostPuback(ok) ==
  /\ worker = "report"
  /\ worker' = "grant"
  /\ SetCapability(FALSE, ok)
  /\ UNCHANGED <<operation_vars, worker_request, worker_probe,
                 mqtt_child_cooldowns, newer, wire_vars>>
  /\ WorkerKeeps

\* Not published: mqtt_set_capability(false), then mqtt_fail_operation.
ReportFailure(ok) ==
  /\ worker = "report"
  /\ worker' = "failing"
  /\ SetCapability(FALSE, ok)
  /\ UNCHANGED <<operation_vars, worker_request, worker_probe,
                 mqtt_child_cooldowns, newer, wire_vars>>
  /\ WorkerKeeps

FailOperation(ok) ==
  /\ WorkerEnds("failing")
  /\ IF ok /\ IsCurrent
       THEN /\ op_state' = "failed"
            /\ mqtt_operation_pending' = FALSE
            /\ UNCHANGED <<request, op_age, op_matches, op_recorded,
                           mqtt_next_operation_id>>
       ELSE UNCHANGED operation_vars
  /\ UNCHANGED <<mqtt_available, mqtt_child_cooldowns, newer, wire_vars>>
  /\ WorkerKeeps

\* generation = snapshot.generation; it stays 0 when the take times out.
ReadGeneration(ok) ==
  /\ worker = "acknowledged"
  /\ worker' = "confirm"
  /\ newer' = (~ok /\ collector = "verify")
  /\ UNCHANGED <<operation_vars, worker_request, worker_probe, mqtt_available,
                 mqtt_child_cooldowns, wire_vars>>
  /\ WorkerKeeps

\* The method the command topic stands for.
UsedMethods(method) == IF method = "auto" THEN {"11v", "bh-config"} ELSE {method}

ConfirmPublish(used, ok) ==
  /\ worker = "confirm"
  /\ worker' = "monitor"
  /\ IF ok /\ IsCurrent
       THEN /\ request' = [request EXCEPT !.method = used]
            /\ op_state' = "verification-pending"
            /\ op_matches' = 0
            /\ mqtt_child_cooldowns' =
                 [mqtt_child_cooldowns EXCEPT ![worker_request.child] = Dedup]
            /\ UNCHANGED <<op_age, op_recorded, mqtt_operation_pending,
                           mqtt_next_operation_id>>
       ELSE UNCHANGED <<operation_vars, mqtt_child_cooldowns>>
  /\ SetCapability(TRUE, ok)
  /\ UNCHANGED <<worker_request, worker_probe, newer, wire_vars>>
  /\ WorkerKeeps

\* mqtt_monitor_backhaul: 45 s of observation, after which an "auto" request
\* that was sent over 802.11v may fall back to a temporary blacklist.  Both
\* periods are as long, so the turn ends with the fallback.  The refreshes it
\* publishes, and the "cancel" of a blacklist, ask for no Parent.
CheckFallback ==
  /\ worker_request.method = "auto" /\ request.method = "11v"
  /\ IsCurrent
  /\ op_state = "verification-pending" /\ op_matches = 0
  /\ mqtt_mode # "force-off"
  /\ WorkerGoes("monitor", "fallback")

EndMonitor ==
  /\ WorkerEnds("monitor")
  /\ UNCHANGED <<operation_vars, mqtt_available, mqtt_child_cooldowns, newer,
                 wire_vars>>
  /\ WorkerKeeps

\* The record says what the worker did, if it is still about that request.
RecordFallback(acknowledged, ok) ==
  IF acknowledged /\ ok /\ IsCurrent /\ op_state = "verification-pending"
    THEN /\ request' = [request EXCEPT !.method = "11v+temporary-blacklist"]
         /\ UNCHANGED <<op_state, op_age, op_matches, op_recorded,
                        mqtt_operation_pending, mqtt_next_operation_id>>
    ELSE UNCHANGED operation_vars

CountFallback(delivered) ==
  fallbacks' = IF delivered
                 THEN [fallbacks EXCEPT ![worker_request.id] = @ + 1]
                 ELSE fallbacks

\* Mutation of PublishFallback: the monitor outlasts the fallback period, and
\* blacklist_sent is still false when the PUBACK was lost.
FallBackAgain(delivered, acknowledged, ok) ==
  /\ acknowledged => delivered
  /\ IF acknowledged
       THEN WorkerEnds("fallback")
       ELSE /\ worker = "fallback" /\ worker' = "monitor"
            /\ UNCHANGED <<worker_request, worker_probe>>
  /\ CountFallback(delivered)
  /\ RecordFallback(acknowledged, ok)
  /\ UNCHANGED <<mqtt_available, mqtt_child_cooldowns, newer, sent>>
  /\ WorkerKeeps

\* The second command of the request, outside of the mutex: a "cancel" for
\* what older blacklists left behind, whose failure is only logged, then the
\* "start" that is counted here.  Again the broker may have it although the
\* PUBACK is lost.
PublishFallback(delivered, acknowledged, ok) ==
  /\ acknowledged => delivered
  /\ WorkerEnds("fallback")
  /\ CountFallback(delivered)
  /\ RecordFallback(acknowledged, ok)
  /\ UNCHANGED <<mqtt_available, mqtt_child_cooldowns, newer, sent>>
  /\ WorkerKeeps

--------------------------------------------------------------------------------
(* Collector. *)

CollectorKeeps == UNCHANGED <<mode_vars, http_vars, worker_vars, topology_lock,
                              mqtt_child_cooldowns, wire_vars, withdrawn,
                              mode_acknowledged>>

\* One turn of collector_task: the JNAP reads sample the mesh from here on.
BeginCollect ==
  /\ collector = "idle"
  /\ collector' = "collecting"
  /\ sampled_after_send' = (request.id \in Ids /\ sent[request.id] > 0)
  /\ UNCHANGED <<collector_request, operation_vars, topology_vars, newer,
                 verdicts, fresh_match>>
  /\ CollectorKeeps

CollectFails ==
  /\ collector = "collecting"
  /\ collector' = "idle"
  /\ router_connected' = FALSE
  /\ sampled_after_send' = FALSE
  /\ UNCHANGED <<collector_request, operation_vars, snapshot, newer, verdicts,
                 fresh_match>>
  /\ CollectorKeeps

\* snapshot_mutex stays busy: the candidate is lost, and nothing else noticed.
DropCandidate(ok) ==
  /\ collector = "collecting" /\ ~ok
  /\ collector' = "idle"
  /\ sampled_after_send' = FALSE
  /\ UNCHANGED <<collector_request, operation_vars, topology_vars, newer,
                 verdicts, fresh_match>>
  /\ CollectorKeeps

\* A generation without a usable BackhaulInfo is cached but not acted upon.
StoreDegraded(online) ==
  /\ collector = "collecting"
  /\ collector' = "idle"
  /\ router_connected' = FALSE
  /\ snapshot' = [c \in Children |-> IF c \in online THEN Unverified ELSE None]
  /\ sampled_after_send' = FALSE
  /\ UNCHANGED <<collector_request, operation_vars, newer, verdicts,
                 fresh_match>>
  /\ CollectorKeeps

StoreActionable(observed) ==
  /\ collector = "collecting"
  /\ collector' = "verify"
  /\ router_connected' = TRUE
  /\ snapshot' = observed
  /\ newer' = TRUE
  /\ UNCHANGED <<collector_request, operation_vars, verdicts,
                 sampled_after_send, fresh_match>>
  /\ CollectorKeeps

\* mqtt_verify_operation.  The collector alone stores snapshots, so the one it
\* verifies is the cached one.
Observed == snapshot[request.child] = request.parent
CountMatch == IF Observed THEN op_matches + 1 ELSE 0

\* Mutation of Outcome: the verification window never closes.
OutcomeWithoutTimeout ==
  IF CountMatch >= MQTT_VERIFY_GENERATIONS THEN "verified"
  ELSE "verification-pending"

\* Mutation of Outcome: off by one, the second match is not the last.
OutcomeOffByOne ==
  IF CountMatch > MQTT_VERIFY_GENERATIONS THEN "verified"
  ELSE IF op_age >= VerifyTimeout THEN "failed"
  ELSE "verification-pending"

Outcome == IF CountMatch >= MQTT_VERIFY_GENERATIONS THEN "verified"
           ELSE IF op_age >= VerifyTimeout THEN "failed"
           ELSE "verification-pending"

VerifyDue == op_state = "verification-pending" /\ newer

SkipVerify(ok) ==
  /\ collector = "verify"
  /\ ok => ~VerifyDue
  /\ collector' = "lock"
  /\ newer' = FALSE
  /\ sampled_after_send' = FALSE
  /\ UNCHANGED <<collector_request, operation_vars, topology_vars, verdicts,
                 fresh_match>>
  /\ CollectorKeeps

VerifyOperation ==
  /\ collector = "verify"
  /\ VerifyDue
  /\ newer' = FALSE
  /\ op_matches' = CountMatch
  /\ fresh_match' = (Observed /\ sampled_after_send)
  /\ sampled_after_send' = FALSE
  /\ op_state' = Outcome
  /\ LET terminal == Outcome # "verification-pending" /\ ~op_recorded IN
     /\ op_recorded' = (op_recorded \/ terminal)
     /\ collector' = IF ~terminal THEN "lock"
                     ELSE IF Outcome = "verified" THEN "record-verified"
                     ELSE "record-failed"
     /\ collector_request' = IF terminal THEN request ELSE collector_request
  /\ UNCHANGED <<request, op_age, mqtt_operation_pending,
                 mqtt_next_operation_id, topology_vars, verdicts>>
  /\ CollectorKeeps

\* record_parent_steering_outcome, called after the mutex is released: a
\* failure qualifies only when the request went out as an exact BH/config.
Qualifies == \/ collector = "record-verified"
             \/ collector_request.method = "bh-config"

RecordOutcome(ok) ==
  /\ collector \in {"record-verified", "record-failed"}
  /\ collector' = "lock"
  /\ collector_request' = NoRequest
  /\ verdicts' = IF ok /\ Qualifies
                   THEN [verdicts EXCEPT ![collector_request.id] = @ + 1]
                   ELSE verdicts
  /\ UNCHANGED <<operation_vars, topology_vars, newer, sampled_after_send,
                 fresh_match>>
  /\ CollectorKeeps

\* evaluate_topology_lock up to mqtt_preflight: some confirmed mismatch may be
\* selected (which one, and when, is the subject of TopologyLock).
SelectMismatch(child) ==
  /\ collector = "lock"
  /\ topology_lock[child] # None
  /\ ~(IsActive /\ request.child = child)
  /\ Preflight(child, topology_lock[child], TRUE)
  /\ collector' = "queue"
  /\ collector_request' = [id |-> 0, child |-> child,
                           parent |-> topology_lock[child],
                           origin |-> "topology-lock", method |-> "bh-config"]
  /\ UNCHANGED <<operation_vars, topology_vars, newer, verdicts,
                 sampled_after_send, fresh_match>>
  /\ CollectorKeeps

NothingToRecover ==
  /\ collector = "lock"
  /\ collector' = "idle"
  /\ UNCHANGED <<collector_request, operation_vars, topology_vars, newer,
                 verdicts, sampled_after_send, fresh_match>>
  /\ CollectorKeeps

\* queue_topology_lock_mqtt_operation
QueueRecovery(ok) ==
  /\ collector = "queue"
  /\ collector' = "idle"
  /\ collector_request' = NoRequest
  /\ IF ok /\ MayQueue(collector_request.child)
       THEN /\ Queue(collector_request.child, collector_request.parent,
                     "topology-lock", "bh-config")
            /\ NoEvidence
       ELSE UNCHANGED <<operation_vars, sampled_after_send, fresh_match>>
  /\ UNCHANGED <<topology_vars, newer, verdicts>>
  /\ CollectorKeeps

--------------------------------------------------------------------------------
(* Time and reboots. *)

Older(age) == IF age < VerifyTimeout THEN age + 1 ELSE age
Less(left) == IF left > 0 THEN left - 1 ELSE 0

\* One tick of uptime_ms(); the ages saturate where the code stops caring.
Tick ==
  /\ op_age' = IF IsActive THEN Older(op_age) ELSE op_age
  /\ mqtt_child_cooldowns' =
       [c \in Children |-> Less(mqtt_child_cooldowns[c])]
  /\ UNCHANGED <<mode_vars, request, op_state, op_matches, op_recorded,
                 mqtt_operation_pending, mqtt_next_operation_id, http_vars,
                 worker_vars, collector_vars, topology_vars, topology_lock,
                 newer, history_vars>>

\* A restart of the ESP32: only the mode and the lock are in flash.
Reboot ==
  /\ mqtt_mode' = nvs_mode
  /\ mqtt_available' = FALSE
  /\ request' = NoRequest
  /\ op_state' = "idle"
  /\ op_age' = 0
  /\ op_matches' = 0
  /\ op_recorded' = FALSE
  /\ mqtt_operation_pending' = FALSE
  /\ mqtt_next_operation_id' = 0
  /\ mqtt_child_cooldowns' = [c \in Children |-> 0]
  /\ snapshot' = [c \in Children |-> None]
  /\ router_connected' = FALSE
  /\ newer' = FALSE
  /\ http' = "idle"
  /\ http_mode' = "auto"
  /\ http_request' = NoRequest
  /\ worker' = "idle"
  /\ worker_request' = NoRequest
  /\ worker_probe' = FALSE
  /\ collector' = "idle"
  /\ collector_request' = NoRequest
  /\ sent' = NoCounts
  /\ fallbacks' = NoCounts
  /\ withdrawn' = {}
  /\ verdicts' = NoCounts
  /\ mode_acknowledged' = FALSE
  /\ sampled_after_send' = FALSE
  /\ fresh_match' = FALSE
  /\ UNCHANGED <<nvs_mode, topology_lock>>

--------------------------------------------------------------------------------

HttpNext ==
  \/ \E mode \in ModesAsked : PersistMode(mode)
  \/ \E ok \in LockOutcomes : FinishMode(ok) \/ SteerQueue(ok)
  \/ \E child \in Children, parent \in Targets, method \in Methods :
       SteerPreflight(child, parent, method)
  \/ \E mapping \in [Children -> Targets] \cup {Unlocked} :
       PostTopologyLock(mapping)

WorkerBusy ==
  \/ \E ok \in LockOutcomes :
       \/ CheckConflict(ok) \/ AnnounceProbe(ok) \/ CheckMode(ok)
       \/ AnnounceDiscovery(ok) \/ GrantPublish(ok) \/ ReportFailure(ok)
       \/ FailOperation(ok) \/ ReadGeneration(ok)
       \/ \E used \in UsedMethods(worker_request.method) :
            ConfirmPublish(used, ok)
       \/ \E answer \in BOOLEAN :
            FinishProbe(answer, ok) \/ FinishRoundtrip(answer, ok)
  \/ \E delivered, acknowledged \in BOOLEAN :
       \/ Publish(delivered, acknowledged)
       \/ \E ok \in LockOutcomes : PublishFallback(delivered, acknowledged, ok)
  \/ Discover \/ CheckFallback \/ EndMonitor

WorkerNext == TakeOperation \/ BeginProbe \/ WorkerBusy

StoreFresh == \E observed \in [Children -> Parents \cup {None}] :
                StoreActionable(observed)

CollectorStep ==
  \/ BeginCollect \/ VerifyOperation \/ NothingToRecover
  \/ \E ok \in LockOutcomes :
       \/ SkipVerify(ok) \/ RecordOutcome(ok) \/ QueueRecovery(ok)
       \/ DropCandidate(ok)
  \/ \E child \in Children : SelectMismatch(child)

CollectorNext ==
  \/ CollectorStep \/ StoreFresh \/ CollectFails
  \/ \E online \in SUBSET Children : StoreDegraded(online)

Next == HttpNext \/ WorkerNext \/ CollectorNext \/ Tick \/ Reboot

Spec == Init /\ [][Next]_vars

\* Weak fairness: both tasks poll (every second, every ten seconds), a handler
\* runs to its end, and time passes.  Strong fairness: a collection succeeds
\* again and again, and router_connected then holds for longer than the second
\* between two polls of the worker.
Fairness ==
  /\ WF_vars(WorkerBusy) /\ SF_vars(TakeOperation)
  /\ WF_vars(CollectorStep) /\ SF_vars(StoreFresh)
  /\ WF_vars(\E ok \in LockOutcomes : FinishMode(ok) \/ SteerQueue(ok))
  /\ WF_vars(Tick)

FairSpec == Spec /\ Fairness

\* ... and where takes may time out, the collector's do not always.
PatientFairSpec == FairSpec /\ SF_vars(VerifyOperation)

--------------------------------------------------------------------------------
(* Properties. *)

\* Every variable keeps to the values the program can give it: the flags ...
FlagsOK ==
  /\ mqtt_available \in BOOLEAN
  /\ op_recorded \in BOOLEAN
  /\ mqtt_operation_pending \in BOOLEAN
  /\ router_connected \in BOOLEAN
  /\ newer \in BOOLEAN
  /\ worker_probe \in BOOLEAN
  /\ mode_acknowledged \in BOOLEAN
  /\ sampled_after_send \in BOOLEAN
  /\ fresh_match \in BOOLEAN

\* ... and everything else; a request that has its second match has left
\* "verification-pending", which is what bounds the matches.
ValuesOK ==
  /\ mqtt_mode \in Modes /\ nvs_mode \in Modes
  /\ request \in Requests
  /\ op_state \in States
  /\ op_age \in 0..VerifyTimeout
  /\ op_matches \in 0..MQTT_VERIFY_GENERATIONS
  /\ op_state = "verification-pending" => op_matches < MQTT_VERIFY_GENERATIONS
  /\ mqtt_next_operation_id \in 0..MaxOperations
  /\ mqtt_child_cooldowns \in [Children -> 0..Dedup]
  /\ topology_lock \in [Children -> Parents \cup {None}]
  /\ snapshot \in [Children -> Parents \cup {None, Unverified}]
  /\ http \in {"idle", "mode", "steer"}
  /\ http_mode \in Modes
  /\ http_request \in Requests
  /\ worker \in WorkerPCs
  /\ worker_request \in Requests
  /\ collector \in CollectorPCs
  /\ collector_request \in Requests
  /\ sent \in [Ids -> Nat] /\ fallbacks \in [Ids -> Nat]
  /\ withdrawn \subseteq 0..MaxOperations
  /\ verdicts \in [Ids -> Nat]

TypeOK == FlagsOK /\ ValuesOK

\* A request waiting for the worker is one the worker may run: it is still
\* "queued", the worker does not run it already, and no force-off came since
\* it was accepted (the worker would drop it with its state left "queued").
PendingIsRunnable ==
  mqtt_operation_pending =>
    /\ op_state = "queued"
    /\ mqtt_mode # "force-off"
    /\ worker_request.id < request.id

\* A request puts at most two commands on the wire, whatever is cancelled,
\* retried or answered late in between: its own at most once, and the temporary
\* blacklist of the fallback at most once, only behind an own command that
\* reached the broker, and never for a request that the record shows as an
\* exact one.
CommandsAtMostOnce ==
  /\ \A i \in Ids : /\ sent[i] <= 1
                    /\ fallbacks[i] <= sent[i]
  /\ request.id \in Ids /\ fallbacks[request.id] > 0
       => request.method \in {"11v", "11v+temporary-blacklist"}

\* Parent Steering Health hears of a request at most once, and only of one that
\* was really put on the wire.
VerdictsOnDelivered == \A i \in Ids : verdicts[i] <= sent[i]

\* "verified" is never said on old data alone: the second matching generation
\* was collected entirely after the command was sent.
VerifiedOnFreshEvidence == op_state = "verified" => fresh_match

\* A request the worker is busy publishing is replaced by another one only
\* when a force-off has withdrawn it.
SupersededOnlyByForceOff ==
  worker \in BeforePublish \cup AfterPublish /\ ~IsCurrent
    => worker_request.id \in withdrawn

\* What the three tasks do together is a RequestChannel: whatever is cancelled,
\* superseded or answered late, each accepted request reaches the broker at
\* most once, in the order of acceptance, and falls back at most once, before
\* any younger request is published.
Once     == {i \in Ids : sent[i] = 1}
FellBack == {i \in Ids : fallbacks[i] = 1}
Channel == INSTANCE RequestChannel
             WITH accepted <- mqtt_next_operation_id, delivered <- Once,
                  fallback <- FellBack
ImplementsChannel == Channel!Spec

\* A mode that was acknowledged to the browser stays in force until another
\* mode is asked for, restarts of the ESP32 included.
AcknowledgedModeIsKept == [][mode_acknowledged => mqtt_mode' = mqtt_mode]_vars

\* No request stays active for ever and so locks every later one out.
OperationTerminates == IsActive ~> ~IsActive

\* README: "Force off performs no new probe or Parent publish"; CHANGELOG:
\* "Force off never starts a new probe or publish".
ForceOffPublishesNothing ==
  [][wire_vars' # wire_vars => mqtt_mode # "force-off"]_vars

================================================================================
