------------------------------ MODULE ParentHealth ------------------------------
(***************************************************************************)
(* Parent Steering Health in meshscope_edge.h: failed exact moves of a      *)
(* child are charged to its record, and the second one makes the MQTT       *)
(* worker restart the requested Parent with core/Reboot.                    *)
(*                                                                         *)
(* The collector records outcomes and evaluates the records, the worker     *)
(* carries the single restart request out, and the HTTP task serves manual  *)
(* restarts.  topology_lock_mutex guards the records, the request and       *)
(* restart_cooldowns: a section under it is one action, except the loop of  *)
(* evaluate_parent_steering_health, which visits one record per action and  *)
(* keeps the others out meanwhile.  memory_mutex serialises the network.    *)
(***************************************************************************)
EXTENDS Cooldown, FiniteSets

CONSTANTS
  Children,     (* Nodes that are steered                                     *)
  Parents,      (* Nodes they are steered to                                  *)
  Authorities,  (* the primary gateway, when it is one of them                *)
  None,         (* no Node                                                    *)
  Key,          (* order of parent_steering_health, a std::map                *)
  Wanted,       (* bound: the Parents each child is steered to                *)
  Topologies,   (* bound: what a collection can observe                       *)
  Manual,       (* bound: the Nodes restarted by hand                         *)
  Automation,   (* bound: whether the mode may be FORCE_OFF, or something else *)
  Ntp,          (* bound: whether NTP ever answers                            *)
  Window,       (* PARENT_HEALTH_RESTART_COOLDOWN_MS in ticks                 *)
  ManualWindow, (* RESTART_COOLDOWN_MS in ticks                               *)
  MaxOutcomes,  (* bound: steering outcomes between two reboots               *)
  MaxReboots,   (* bound: restarts of the ESP32                               *)
  LockOutcomes  (* {TRUE}, or BOOLEAN when a bounded take may time out        *)

ASSUME HealthAssumption ==
  /\ Authorities \subseteq Parents /\ Manual \subseteq Parents
  /\ None \notin Children \cup Parents
  /\ Key \in [Children -> Nat]
  /\ \A c, d \in Children : Key[c] = Key[d] => c = d
  /\ Wanted \in [Children -> SUBSET Parents]
  /\ Topologies \subseteq [online : SUBSET Parents, busy : SUBSET Parents,
                           attached : [Children -> Parents \cup {None}]]
  /\ Automation \subseteq BOOLEAN /\ Ntp \in BOOLEAN
  /\ Window \in Nat /\ ManualWindow \in 1..Window
  /\ MaxOutcomes \in Nat /\ MaxReboots \in Nat
  /\ LockOutcomes \subseteq BOOLEAN /\ TRUE \in LockOutcomes

VARIABLES
  health,           (* parent_steering_health; target None when absent        *)
  request,          (* parent_restart_request                                 *)
  restart_age,      (* ticks since restart_cooldowns[p], saturating; Window   *)
                    (* when there is no entry                                 *)
  seen,             (* parent_health_restart_seen_this_boot                   *)
  restart_since,    (* ticks since the last restart that was recorded         *)
  epoch_known,      (* parent_health_last_restart_epoch is not 0              *)
  boot_age,         (* ticks since boot, saturating                           *)
  clock_set,        (* wall_clock_epoch() is not 0: NTP has answered          *)
  last_operation,   (* id of the youngest steering operation with an outcome  *)
  operation_ran,    (* a tick passed since the last outcome                   *)
  snapshot,         (* the cached generation: Parents that are online, that   *)
                    (* have other children, and where each child is           *)
  router_connected,
  automation,       (* the MQTT mode is not FORCE_OFF                         *)
  memory,           (* holder of memory_mutex                                 *)
  collector, todo, evaluation,
  worker, worker_restart, worker_blocked, worker_accepted,
  http, http_node, http_behind,
  reboots,          (* restarts of the ESP32 so far                           *)
  \* History, read by properties only.
  gap,              (* ticks since the last automatic core/Reboot, saturating *)
  limited,          (* ... was recorded, and not forgotten by a reboot        *)
  charged,          (* failures charged since the last accepted restart       *)
  steady,           (* actionable generations in a row that agree on where    *)
                    (* the child is, saturating                               *)
  returned          (* generations that were evaluated since the worker       *)
                    (* reserved a Parent, and in which the child it restarts  *)
                    (* it for was back on it, saturating                      *)

records        == <<health, request>>
cooldown_vars  == <<restart_age, seen, restart_since, epoch_known>>
clock_vars     == <<boot_age, clock_set>>
outcome_vars   == <<last_operation, operation_ran, charged, returned>>
topology_vars  == <<snapshot, router_connected, steady>>
loop_vars      == <<todo, evaluation>>
collector_vars == <<collector, loop_vars>>
worker_vars    == <<worker, worker_restart, worker_blocked, worker_accepted>>
http_vars      == <<http, http_node, http_behind>>
gap_vars       == <<gap, limited>>

vars == <<records, cooldown_vars, clock_vars, outcome_vars, topology_vars,
          automation, memory, collector_vars, worker_vars, http_vars, reboots,
          gap_vars>>

--------------------------------------------------------------------------------
(* Types. *)

PARENT_STEERING_FAILURE_THRESHOLD == 2
MQTT_VERIFY_GENERATIONS == 2

\* "resolved" is "idle" or "recovered", which differ in wording only.
HealthStates == {"resolved", "watching", "restart-eligible", "confirming",
                 "restart-queued", "blocked", "cooldown", "parent-restarting",
                 "restart-failed"}

Health == [target : Parents \cup {None}, state : HealthStates,
           failures : 0..PARENT_STEERING_FAILURE_THRESHOLD,
           matches : 0..MQTT_VERIFY_GENERATIONS, operation : 0..MaxOutcomes]
NoHealth == [target |-> None, state |-> "resolved", failures |-> 0,
             matches |-> 0, operation |-> 0]

Restarts == [child : Children \cup {None}, parent : Parents \cup {None},
             operation : 0..MaxOutcomes]
NoRestart == [child |-> None, parent |-> None, operation |-> 0]

\* What evaluate_parent_steering_health is called with: nothing, the nodes
\* without a generation, or the nodes of a new generation.
EvaluationKinds == {"invalid", "stale", "fresh"}

CollectorPCs == {"idle", "collecting", "stored", "outcome", "stored-degraded",
                 "failed", "stale", "fresh", "invalid"}
\* Places of the worker after it has reserved the Parent.
Reserved  == {"workspace", "recheck", "send", "finish"}
WorkerPCs == {"idle", "gates", "reserve"} \cup Reserved
HttpPCs   == {"idle", "reserve", "workspace", "send", "erase"}

\* In a degraded generation nodes are online but no Parent is known.
Degraded(online) == [online |-> online, busy |-> {},
                     attached |-> [c \in Children |-> None]]

\* The static initialisers; nothing is in flash yet.
Init ==
  /\ health = [c \in Children |-> NoHealth]
  /\ request = NoRestart
  /\ restart_age = [p \in Parents |-> Window]
  /\ seen = FALSE /\ restart_since = Window /\ epoch_known = FALSE
  /\ boot_age = 0 /\ clock_set = FALSE
  /\ last_operation = 0 /\ operation_ran = FALSE
  /\ snapshot = Degraded({}) /\ router_connected = FALSE
  /\ automation \in Automation
  /\ memory = "free"
  /\ collector = "idle" /\ todo = {}
  /\ evaluation = [kind |-> "invalid", automation |-> FALSE]
  /\ worker = "idle" /\ worker_restart = NoRestart
  /\ worker_blocked = FALSE /\ worker_accepted = FALSE
  /\ http = "idle" /\ http_node = None /\ http_behind = FALSE
  /\ reboots = 0
  /\ gap = Window /\ limited = FALSE
  /\ charged = [c \in Children |-> 0]
  /\ steady = [c \in Children |-> 0]
  /\ returned = 0

--------------------------------------------------------------------------------
(* What every task reads under topology_lock_mutex. *)

\* evaluate_parent_steering_health holds the mutex while it visits records.
MutexFree == todo = {}

\* Mutation of RestoredLeft: without NTP the restored cooldown is over.
RestoredLeftByClock ==
  IF ~epoch_known \/ ~clock_set \/ restart_since >= Window THEN 0
  ELSE Window - restart_since

\* restored_cooldown_remaining_ms: before this boot's first restart, the one in
\* flash counts against the wall clock, or against the uptime without NTP.
RestoredLeft == Restored(Window, epoch_known, clock_set, restart_since, boot_age)

\* parent_health_restart_remaining_ms_locked
GlobalLeft == IF seen THEN Window - restart_since ELSE RestoredLeft

\* parent_node_restart_remaining_ms_locked
NodeLeft(p) == Window - restart_age[p]

\* Mutation of InCooldown: the global limit is forgotten.
InNodeCooldown(p) == NodeLeft(p) > 0

InCooldown(p) == GlobalLeft > 0 \/ NodeLeft(p) > 0

\* count_online_mesh_children is not 0.
HasChildren(p) == p \in snapshot.busy \/ \E c \in Children : snapshot.attached[c] = p

\* The gates that need the topology.
Restartable(p) == p \in snapshot.online \ Authorities /\ ~HasChildren(p)

--------------------------------------------------------------------------------
(* Collector. *)

CollectorKeeps == UNCHANGED <<cooldown_vars, clock_vars, automation,
                              worker_vars, http_vars, reboots, gap_vars>>

\* collector_task takes memory_mutex for the whole collection.
BeginCollect ==
  /\ collector = "idle" /\ memory = "free"
  /\ memory' = "collector"
  /\ collector' = "collecting"
  /\ UNCHANGED <<loop_vars, records, outcome_vars, topology_vars>>
  /\ CollectorKeeps

\* The new generation is cached and the workspace released; what it means for
\* the records is worked out afterwards.
StoreActionable(observed) ==
  /\ collector = "collecting"
  /\ collector' = "stored"
  /\ memory' = "free"
  /\ snapshot' = observed
  /\ router_connected' = TRUE
  /\ steady' = [c \in Children |->
                 IF steady[c] > 0 /\ observed.attached[c] = snapshot.attached[c]
                   THEN MQTT_VERIFY_GENERATIONS ELSE 1]
  /\ UNCHANGED <<loop_vars, records, outcome_vars>>
  /\ CollectorKeeps

\* After a collection that is not actionable nothing counts as confirmed.
LoseRouter ==
  /\ router_connected' = FALSE
  /\ steady' = [c \in Children |-> 0]
  /\ collector' = "failed"
  /\ UNCHANGED <<loop_vars, records, outcome_vars, snapshot>>
  /\ CollectorKeeps

\* A generation without a usable BackhaulInfo is cached first ...
StoreDegraded(online) ==
  /\ collector = "collecting"
  /\ collector' = "stored-degraded"
  /\ snapshot' = Degraded(online)
  /\ UNCHANGED <<loop_vars, records, outcome_vars, router_connected, memory,
                 steady>>
  /\ CollectorKeeps

\* ... and router_connected stored afterwards, outside of snapshot_mutex; a
\* collection that fails stores only the latter.
EndUnusable ==
  /\ collector \in {"collecting", "stored-degraded"}
  /\ memory' = "free"
  /\ LoseRouter

\* No Wi-Fi, or memory_mutex stays busy for 15 s.
NoRefresh ==
  /\ collector = "idle"
  /\ UNCHANGED memory
  /\ LoseRouter

\* snapshot_mutex stays busy: the candidate is lost and router_connected kept.
DropCandidate(ok) ==
  /\ collector = "collecting" /\ ~ok
  /\ memory' = "free"
  /\ steady' = [c \in Children |-> 0]
  /\ collector' = "failed"
  /\ UNCHANGED <<loop_vars, records, outcome_vars, snapshot, router_connected>>
  /\ CollectorKeeps

\* Mutation of Charge: one outcome is charged twice.
ChargeTwice(h) == PARENT_STEERING_FAILURE_THRESHOLD

\* The code counts on; only whether the threshold is reached is ever read.
Charge(h) == IF h.failures < PARENT_STEERING_FAILURE_THRESHOLD
               THEN h.failures + 1 ELSE h.failures

\* record_parent_steering_outcome, whose caller has filtered the outcome: a
\* failure is one of an exact BH/config request.  Flash follows in the same
\* section.
RecordOutcome(c, p, verified) ==
  /\ collector = "stored" /\ MutexFree
  /\ last_operation < MaxOutcomes
  /\ operation_ran
  /\ verified => snapshot.attached[c] = p
  /\ LET old    == health[c]
         kept   == IF old.target \in {p, None} THEN old ELSE [old EXCEPT !.failures = 0]
         failed == Charge(kept)
     IN health' = [health EXCEPT ![c] =
          [target    |-> p,
           state     |-> IF verified THEN "resolved"
                         ELSE IF failed >= PARENT_STEERING_FAILURE_THRESHOLD
                         THEN "restart-eligible" ELSE "watching",
           failures  |-> IF verified THEN 0 ELSE failed,
           matches   |-> 0,
           operation |-> last_operation + 1]]
  /\ charged' = [charged EXCEPT ![c] =
                  IF ~verified /\ @ < PARENT_STEERING_FAILURE_THRESHOLD
                    THEN @ + 1 ELSE @]
  /\ last_operation' = last_operation + 1
  /\ operation_ran' = FALSE
  /\ collector' = "outcome"
  /\ UNCHANGED <<loop_vars, request, topology_vars, memory, returned>>
  /\ CollectorKeeps

\* evaluate_parent_steering_health up to its loop.  Its three callers follow an
\* outcome, an actionable generation, and a collection without one.  A mode
\* that cannot be read counts as FORCE_OFF.
Evaluate(from, kind, to) ==
  /\ collector = from /\ MutexFree
  /\ collector' = to
  /\ \E ok \in LockOutcomes :
       evaluation' = [kind |-> kind, automation |-> automation /\ ok]
  /\ todo' = {c \in Children : health[c].target # None}
  /\ UNCHANGED <<records, outcome_vars, topology_vars, memory>>
  /\ CollectorKeeps

BeginEvaluation ==
  \/ Evaluate("outcome", "stale", "stale")
  \/ Evaluate("stored", "fresh", "fresh") \/ Evaluate("stale", "fresh", "fresh")
  \/ Evaluate("failed", "invalid", "invalid")

\* The mutex stays busy: the evaluation is skipped.
SkipEvaluation(ok) ==
  /\ ~ok /\ MutexFree
  /\ \/ collector = "outcome" /\ collector' = "stale"
     \/ collector \in {"stored", "stale", "failed"} /\ collector' = "idle"
  /\ UNCHANGED <<loop_vars, records, outcome_vars, topology_vars, memory>>
  /\ CollectorKeeps

Resume ==
  /\ collector \in {"fresh", "invalid"} /\ MutexFree
  /\ collector' = "idle"
  /\ UNCHANGED <<loop_vars, records, outcome_vars, topology_vars, memory>>
  /\ CollectorKeeps

\* Mutation of Paused: the generations that matched still count.
PausedInState(h) == [h EXCEPT !.state = IF @ = "confirming" THEN "watching" ELSE @]

\* Confirmation starts over.
Paused(h) == [h EXCEPT !.matches = 0,
                       !.state = IF @ = "confirming" THEN "watching" ELSE @]

\* The child is seen again on the Parent it was steered to.
Matches(c) ==
  /\ evaluation.kind = "fresh"
  /\ health[c].failures > 0
  /\ health[c].target \in snapshot.online
  /\ snapshot.attached[c] = health[c].target

\* Mutation of Confirmed: off by one, the second match is not the last.
ConfirmedOffByOne(h) ==
  IF h.matches + 1 > MQTT_VERIFY_GENERATIONS
    THEN [h EXCEPT !.matches = @ + 1, !.failures = 0, !.state = "resolved"]
    ELSE [h EXCEPT !.matches = @ + 1, !.state = "confirming"]

Confirmed(h) ==
  IF h.matches + 1 >= MQTT_VERIFY_GENERATIONS
    THEN [h EXCEPT !.matches = MQTT_VERIFY_GENERATIONS, !.failures = 0,
                   !.state = "resolved"]
    ELSE [h EXCEPT !.matches = @ + 1, !.state = "confirming"]

\* The end of the loop body, for a record with enough failures.
Decided(c, h) ==
  IF ~Restartable(h.target) \/ ~evaluation.automation THEN "blocked"
  ELSE IF InCooldown(h.target) THEN "cooldown"
  ELSE IF request = NoRestart \/ request.child = c THEN "restart-queued"
  ELSE "blocked"

\* The loop body for the record of child c, as of nodes that are valid.
Observe(c) ==
  LET h    == IF evaluation.kind = "fresh" THEN Paused(health[c]) ELSE health[c]
      rest == h.state = "parent-restarting" /\ h.failures = 0
      due  == /\ h.state # "confirming" /\ ~rest
              /\ h.failures >= PARENT_STEERING_FAILURE_THRESHOLD
  IN /\ health' = [health EXCEPT ![c] =
           IF due THEN [h EXCEPT !.state = Decided(c, h)]
           ELSE IF rest /\ GlobalLeft = 0 THEN [h EXCEPT !.state = "resolved"]
           ELSE h]
     /\ request' = IF due /\ request = NoRestart /\ Decided(c, h) = "restart-queued"
                     THEN [child |-> c, parent |-> h.target, operation |-> h.operation]
                     ELSE request

\* History: the worker restarts a Parent for this child, which is back on it.
BackMeanwhile(c) ==
  Matches(c) /\ worker \in Reserved /\ worker_restart.child = c

\* One round of the loop, in the order of the map.
Visit(c) ==
  /\ c \in todo /\ \A d \in todo : Key[c] <= Key[d]
  /\ todo' = todo \ {c}
  /\ \/ /\ evaluation.kind = "invalid"
        /\ health' = [health EXCEPT ![c] = Paused(@)]
        /\ UNCHANGED request
     \/ /\ Matches(c)
        /\ health' = [health EXCEPT ![c] = Confirmed(@)]
        /\ request' = IF request.child = c /\ request.parent = health[c].target
                        THEN NoRestart ELSE request
     \/ /\ evaluation.kind # "invalid" /\ ~Matches(c)
        /\ Observe(c)
  /\ returned' = IF BackMeanwhile(c) /\ returned < MQTT_VERIFY_GENERATIONS
                   THEN returned + 1 ELSE returned
  /\ UNCHANGED <<collector, evaluation, last_operation, operation_ran, charged,
                 topology_vars, memory>>
  /\ CollectorKeeps

--------------------------------------------------------------------------------
(* MQTT worker: process_parent_restart_request. *)

WorkerKeeps == UNCHANGED <<clock_vars, last_operation, operation_ran,
                           topology_vars, automation, collector_vars, reboots>>

WorkerIdle == /\ worker' = "idle" /\ worker_restart' = NoRestart
              /\ worker_blocked' = FALSE /\ worker_accepted' = FALSE
              /\ returned' = 0

TakeRequest ==
  /\ worker = "idle" /\ router_connected /\ MutexFree
  /\ request # NoRestart
  /\ worker' = "gates"
  /\ worker_restart' = request
  /\ UNCHANGED <<records, cooldown_vars, memory, http_vars, worker_blocked,
                 worker_accepted, gap_vars, charged, returned>>
  /\ WorkerKeeps

\* Everything that can be checked without topology_lock_mutex; what cannot be
\* read (snapshot, mode) blocks.
CheckGates(ok) ==
  /\ worker = "gates"
  /\ worker' = "reserve"
  /\ worker_blocked' = ~(/\ ok /\ router_connected /\ automation
                         /\ Restartable(worker_restart.parent))
  /\ UNCHANGED <<records, cooldown_vars, memory, http_vars, worker_restart,
                 worker_accepted, gap_vars, charged, returned>>
  /\ WorkerKeeps

\* The record still asks for the restart the worker is about.
Obsolete(h) ==
  \/ h.failures < PARENT_STEERING_FAILURE_THRESHOLD
  \/ h.state = "confirming"
  \/ h.operation # worker_restart.operation
  \/ h.target # worker_restart.parent

MyHealth == health[worker_restart.child]

SetMyState(state) ==
  health' = [health EXCEPT ![worker_restart.child].state = state]

\* Mutation of Block: the alert is shown and the request kept.
BlockAndKeep ==
  /\ UNCHANGED request
  /\ SetMyState(IF InCooldown(worker_restart.parent) THEN "cooldown" ELSE "blocked")

Block ==
  /\ request' = NoRestart
  /\ SetMyState(IF InCooldown(worker_restart.parent) THEN "cooldown" ELSE "blocked")

\* The request is gone, obsolete or blocked.
GiveUp ==
  /\ worker = "reserve" /\ MutexFree
  /\ \/ request # worker_restart /\ UNCHANGED records
     \/ /\ request = worker_restart /\ Obsolete(MyHealth)
        /\ request' = NoRestart /\ UNCHANGED health
     \/ /\ request = worker_restart /\ ~Obsolete(MyHealth)
        /\ worker_blocked \/ InCooldown(worker_restart.parent)
        /\ Block
  /\ WorkerIdle
  /\ UNCHANGED <<cooldown_vars, memory, http_vars, gap_vars, charged>>
  /\ WorkerKeeps

\* The mutex stays busy: the turn is lost, and the request stays.
LoseTurn(ok) ==
  /\ worker = "reserve" /\ ~ok
  /\ WorkerIdle
  /\ UNCHANGED <<records, cooldown_vars, memory, http_vars, gap_vars, charged>>
  /\ WorkerKeeps

\* A handler that read the clock before the lock is behind a stamp taken now,
\* unless both fall in the same millisecond.
Stamp(p) ==
  /\ restart_age' = [restart_age EXCEPT ![p] = 0]
  /\ \/ UNCHANGED http_behind
     \/ http = "reserve" /\ http_node = p /\ http_behind' = TRUE

\* The Parent is reserved against manual restarts.
Reserve ==
  /\ worker = "reserve" /\ MutexFree
  /\ request = worker_restart /\ ~Obsolete(MyHealth)
  /\ ~worker_blocked /\ ~InCooldown(worker_restart.parent)
  /\ worker' = "workspace"
  /\ Stamp(worker_restart.parent)
  /\ SetMyState("parent-restarting")
  /\ UNCHANGED <<request, seen, restart_since, epoch_known, memory, http,
                 http_node, worker_restart, worker_blocked, worker_accepted,
                 gap_vars, charged, returned>>
  /\ WorkerKeeps

\* memory_mutex, or the failure that is recorded when it stays busy.
EnterWorkspace ==
  /\ worker = "workspace"
  /\ \/ memory = "free" /\ memory' = "worker" /\ worker' = "recheck"
     \/ memory # "free" /\ UNCHANGED memory /\ worker' = "finish"
  /\ UNCHANGED <<records, cooldown_vars, http_vars, worker_restart,
                 worker_blocked, worker_accepted, gap_vars, charged, returned>>
  /\ WorkerKeeps

\* Mutation of StillNeeded: what came while the workspace was busy is ignored.
StillNeededUnchecked == TRUE

\* What must still hold once the workspace is held.
StillNeeded == /\ request = worker_restart /\ ~Obsolete(MyHealth)
               /\ MyHealth.state = "parent-restarting"

Recheck(ok) ==
  /\ worker = "recheck"
  /\ ok => MutexFree
  /\ IF ok /\ StillNeeded
       THEN /\ worker' = "send"
            /\ UNCHANGED <<request, memory, worker_restart, worker_blocked,
                           worker_accepted, returned>>
       ELSE /\ memory' = "free"
            /\ request' = IF ok /\ request = worker_restart THEN NoRestart ELSE request
            /\ WorkerIdle
  /\ UNCHANGED <<health, cooldown_vars, http_vars, gap_vars, charged>>
  /\ WorkerKeeps

\* core/Reboot: the Parent may restart although its answer is lost.
Send(delivered, accepted) ==
  /\ worker = "send"
  /\ accepted => delivered
  /\ worker' = "finish"
  /\ worker_accepted' = accepted
  /\ memory' = "free"
  /\ IF delivered THEN gap' = 0 /\ limited' = FALSE
     ELSE UNCHANGED gap_vars
  /\ charged' = [charged EXCEPT ![worker_restart.child] = IF accepted THEN 0 ELSE @]
  /\ UNCHANGED <<records, cooldown_vars, http_vars, worker_restart,
                 worker_blocked, returned>>
  /\ WorkerKeeps

\* Both outcomes start the five minutes, and both are put in flash.
RecordRestart ==
  /\ seen' = TRUE /\ restart_since' = 0 /\ epoch_known' = clock_set
  /\ limited' = TRUE
  /\ request' = NoRestart
  /\ IF worker_accepted
       THEN /\ health' = [health EXCEPT ![worker_restart.child].state = "parent-restarting",
                                        ![worker_restart.child].failures = 0]
            /\ Stamp(worker_restart.parent)
       ELSE /\ SetMyState("restart-failed")
            /\ UNCHANGED <<restart_age, http_behind>>

Finish(ok) ==
  /\ worker = "finish"
  /\ IF ok THEN MutexFree /\ RecordRestart
     ELSE UNCHANGED <<records, cooldown_vars, http_behind, limited>>
  /\ WorkerIdle
  /\ UNCHANGED <<memory, http, http_node, gap, charged>>
  /\ WorkerKeeps

--------------------------------------------------------------------------------
(* HTTP task: restart_handler. *)

HttpKeeps == UNCHANGED <<records, seen, restart_since, epoch_known, clock_vars,
                         outcome_vars, topology_vars, automation,
                         collector_vars, worker_vars, reboots, gap_vars>>

HttpIdle == http' = "idle" /\ http_node' = None /\ http_behind' = FALSE

\* resolve_node, then the clock is read, before the lock is taken.
ManualRestart(p) ==
  /\ http = "idle"
  /\ p \in snapshot.online
  /\ http' = "reserve" /\ http_node' = p
  /\ UNCHANGED <<http_behind, restart_age, memory>>
  /\ HttpKeeps

\* now - cooldown->second is unsigned: a stamp younger than "now" wraps around.
ManualBlocked == restart_age[http_node] < ManualWindow /\ ~http_behind

ManualReserve(ok) ==
  /\ http = "reserve"
  /\ ok => MutexFree
  /\ IF ok /\ ~ManualBlocked
       THEN /\ http' = "workspace"
            /\ restart_age' = [restart_age EXCEPT ![http_node] = 0]
            /\ UNCHANGED <<http_node, http_behind>>
       ELSE HttpIdle /\ UNCHANGED restart_age
  /\ UNCHANGED memory
  /\ HttpKeeps

ManualWorkspace ==
  /\ http = "workspace"
  /\ \/ memory = "free" /\ memory' = "http" /\ http' = "send"
     \/ memory # "free" /\ UNCHANGED memory /\ http' = "erase"
  /\ UNCHANGED <<http_node, http_behind, restart_age>>
  /\ HttpKeeps

ManualSend(accepted) ==
  /\ http = "send"
  /\ memory' = "free"
  /\ IF accepted THEN HttpIdle
     ELSE http' = "erase" /\ UNCHANGED <<http_node, http_behind>>
  /\ UNCHANGED restart_age
  /\ HttpKeeps

\* A restart that did not happen gives its reservation back.
ManualErase(ok) ==
  /\ http = "erase"
  /\ ok => MutexFree
  /\ restart_age' = IF ok THEN [restart_age EXCEPT ![http_node] = Window]
                    ELSE restart_age
  /\ HttpIdle
  /\ UNCHANGED memory
  /\ HttpKeeps

\* The mode handler.
SetMode(enabled) ==
  /\ automation # enabled
  /\ automation' = enabled
  /\ UNCHANGED <<records, cooldown_vars, clock_vars, outcome_vars,
                 topology_vars, memory, collector_vars, worker_vars, http_vars,
                 reboots, gap_vars>>

--------------------------------------------------------------------------------
(* Time and reboots. *)

Older(age) == IF age < Window THEN age + 1 ELSE age

\* A tick is longer than a worker's or a handler's way from its reservation to
\* its end (15 s for the workspace and one JNAP request).
Tick ==
  /\ worker \notin Reserved /\ http = "idle" /\ MutexFree
  /\ restart_age' = [p \in Parents |-> Older(restart_age[p])]
  /\ restart_since' = Older(restart_since)
  /\ boot_age' = Older(boot_age)
  /\ gap' = Older(gap)
  /\ operation_ran' = TRUE
  /\ UNCHANGED <<records, seen, epoch_known, clock_set, last_operation,
                 topology_vars, automation, memory, collector_vars,
                 worker_vars, http_vars, reboots, limited, charged, returned>>

SyncClock ==
  /\ Ntp /\ ~clock_set /\ MutexFree
  /\ clock_set' = TRUE
  /\ UNCHANGED <<records, cooldown_vars, boot_age, outcome_vars, topology_vars,
                 automation, memory, collector_vars, worker_vars, http_vars,
                 reboots, gap_vars>>

\* load_parent_steering_health: states are derived from the failures, and what
\* was observed before the reboot counts for nothing.
Reloaded(h) == [h EXCEPT !.matches = 0,
                         !.state = IF h.failures > 0 THEN "watching" ELSE "resolved"]

Reboot ==
  /\ reboots < MaxReboots
  /\ reboots' = reboots + 1
  /\ health' = [c \in Children |-> Reloaded(health[c])]
  /\ request' = NoRestart
  /\ restart_age' = [p \in Parents |-> Window]
  /\ seen' = FALSE
  /\ boot_age' = 0 /\ clock_set' = FALSE
  /\ last_operation' = 0 /\ operation_ran' = FALSE
  /\ snapshot' = Degraded({}) /\ router_connected' = FALSE
  /\ memory' = "free"
  /\ collector' = "idle" /\ todo' = {}
  /\ evaluation' = [kind |-> "invalid", automation |-> FALSE]
  /\ WorkerIdle
  /\ HttpIdle
  /\ limited' = (limited /\ epoch_known)
  /\ charged' = [c \in Children |->
                  IF worker = "finish" THEN PARENT_STEERING_FAILURE_THRESHOLD
                  ELSE charged[c]]
  /\ steady' = [c \in Children |-> 0]
  /\ UNCHANGED <<restart_since, epoch_known, automation, gap>>

--------------------------------------------------------------------------------

CollectorRuns ==
  \/ BeginCollect \/ BeginEvaluation \/ Resume
  \/ \E c \in Children : Visit(c)
  \/ \E ok \in LockOutcomes : SkipEvaluation(ok) \/ DropCandidate(ok)

StoreFresh == \E observed \in Topologies : StoreActionable(observed)

RecordSome == \E c \in Children, verified \in BOOLEAN :
                \E p \in Wanted[c] : RecordOutcome(c, p, verified)

WorkerRuns ==
  \/ GiveUp \/ Reserve \/ EnterWorkspace
  \/ \E ok \in LockOutcomes :
       CheckGates(ok) \/ LoseTurn(ok) \/ Recheck(ok) \/ Finish(ok)
  \/ \E delivered, accepted \in BOOLEAN : Send(delivered, accepted)

HttpRuns ==
  \/ ManualWorkspace
  \/ \E ok \in LockOutcomes : ManualReserve(ok) \/ ManualErase(ok)
  \/ \E accepted \in BOOLEAN : ManualSend(accepted)

Next ==
  \/ CollectorRuns \/ StoreFresh \/ EndUnusable \/ NoRefresh \/ RecordSome
  \/ \E observed \in Topologies : StoreDegraded(observed.online)
  \/ TakeRequest \/ WorkerRuns
  \/ HttpRuns \/ \E enabled \in Automation : SetMode(enabled)
  \/ \E p \in Manual : ManualRestart(p)
  \/ Tick \/ SyncClock \/ Reboot

Spec == Init /\ [][Next]_vars

\* Every task polls and every handler runs to its end: a take waits for longer
\* than any section lasts.  A collection succeeds again and again, and
\* router_connected then outlives the worker's poll.
Fairness ==
  /\ WF_vars(CollectorRuns \/ EndUnusable)
  /\ SF_vars(BeginCollect) /\ SF_vars(StoreFresh)
  /\ SF_vars(WorkerRuns) /\ SF_vars(TakeRequest)
  /\ SF_vars(HttpRuns)

FairSpec == Spec /\ Fairness

--------------------------------------------------------------------------------
(* Properties. *)

\* Every variable keeps to the values the program can give it.
TypeOK ==
  /\ health \in [Children -> Health]
  /\ request \in Restarts
  /\ restart_age \in [Parents -> 0..Window]
  /\ restart_since \in 0..Window /\ boot_age \in 0..Window
  /\ seen \in BOOLEAN /\ epoch_known \in BOOLEAN /\ clock_set \in BOOLEAN
  /\ last_operation \in 0..MaxOutcomes /\ operation_ran \in BOOLEAN
  /\ snapshot \in Topologies \cup {Degraded(ps) : ps \in SUBSET Parents}
  /\ router_connected \in BOOLEAN
  /\ automation \in BOOLEAN
  /\ memory \in {"free", "collector", "worker", "http"}
  /\ collector \in CollectorPCs /\ todo \subseteq Children
  /\ evaluation \in [kind : EvaluationKinds, automation : BOOLEAN]
  /\ worker \in WorkerPCs /\ worker_restart \in Restarts
  /\ worker_blocked \in BOOLEAN /\ worker_accepted \in BOOLEAN
  /\ http \in HttpPCs /\ http_node \in Parents \cup {None}
  /\ http_behind \in BOOLEAN
  /\ reboots \in 0..MaxReboots
  /\ gap \in 0..Window /\ limited \in BOOLEAN
  /\ charged \in [Children -> 0..PARENT_STEERING_FAILURE_THRESHOLD]
  /\ steady \in [Children -> 0..MQTT_VERIFY_GENERATIONS]
  /\ returned \in 0..MQTT_VERIFY_GENERATIONS

\* An automatic core/Reboot leaves the worker, on behalf of child c.
RestartSent(c) == worker = "send" /\ worker' = "finish" /\ worker_restart.child = c

\* However the worker, the evaluation and manual restarts interleave, two
\* automatic restarts are five minutes apart, whatever Parents they are for,
\* when the first was recorded, and across a restart of the ESP32 when its time
\* was known.
OneRestartPerWindow ==
  [][\A c \in Children : RestartSent(c) => gap >= Window \/ ~limited]_vars

\* Every accepted restart was paid for by two failures of its own child since
\* the one before, across recoveries, stale requests and restarts of the ESP32.
RestartsAreEarned ==
  [][\A c \in Children :
       RestartSent(c) => charged[c] >= PARENT_STEERING_FAILURE_THRESHOLD]_vars

\* release-v0.8.2.md: a recovery takes two consecutive generations with the
\* child on the requested Parent; "mismatches, missing/offline nodes, Ethernet
\* ambiguity, and failed/degraded refreshes interrupt the sequence".
RecoveryNeedsConsecutiveGenerations ==
  [][\A c \in Children :
       /\ health[c].failures > 0 /\ health'[c].failures = 0
       /\ health'[c].matches = MQTT_VERIFY_GENERATIONS
       => /\ steady[c] = MQTT_VERIFY_GENERATIONS
          /\ snapshot.attached[c] = health[c].target]_vars

\* A Parent is not restarted for a child that two generations have shown to be
\* back on it since the worker reserved it, however long the worker waits for
\* its workspace.  It looks at the record once, when it has the workspace, but
\* nothing can be collected from there until it has sent: of the generations
\* that bring the child back only one may go unnoticed, which was stored before.
RecoveryStopsRestart ==
  [][\A c \in Children :
       RestartSent(c) => returned < MQTT_VERIFY_GENERATIONS]_vars

\* No restart request stays pending for ever and so keeps the others out.
RequestResolves == request # NoRestart ~> request = NoRestart

\* release-v0.8.2.md: "Queued Parent restarts are cancelled when the requested
\* attachment returns, including recovery while the worker waits for its network
\* workspace".
ConfirmationStopsRestart ==
  [][\A c \in Children : RestartSent(c) => health[c].state # "confirming"]_vars

\* README: "The conditions are checked again immediately before the request".
GatesHoldAtReboot ==
  [][\A c \in Children :
       RestartSent(c) => automation /\ Restartable(worker_restart.parent)]_vars

\* meshscope_edge.h: the Parent is reserved "so a simultaneous manual restart
\* cannot send a duplicate core/Reboot".
ReservationKeepsManualOut ==
  [][http = "send" /\ http' # "send"
       => ~(worker \in Reserved /\ worker_restart.parent = http_node)]_vars

================================================================================
