------------------------ MODULE SteeringOperationProofs ------------------------
(***************************************************************************)
(* What SteeringOperation guarantees for any number of Nodes, requests and  *)
(* ticks.                                                                   *)
(***************************************************************************)
EXTENDS SteeringOperation, TLAPS

USE SteeringAssumption

--------------------------------------------------------------------------------
(* Type correctness. *)

LEMMA NoRequestType == NoRequest \in Requests
BY DEF NoRequest, Requests, OpMethods

\* Counting up the wire or the verdicts of a request keeps a table of numbers.
LEMMA Increment ==
  ASSUME NEW f \in [Ids -> Nat], NEW i
  PROVE  [f EXCEPT ![i] = @ + 1] \in [Ids -> Nat]
<1>1. CASE i \in Ids
  BY <1>1
<1>2. CASE i \notin Ids
  <2>1. [f EXCEPT ![i] = @ + 1] = f
    BY <1>2
  <2> QED
    BY <2>1
<1> QED
  BY <1>1, <1>2

LEMMA InitFlags == Init => FlagsOK
BY Zenon DEF Init, FlagsOK

LEMMA InitValues == Init => ValuesOK
BY NoRequestType, SteeringAssumption
   DEF Init, ValuesOK, Modes, States, WorkerPCs, CollectorPCs,
       Unlocked, NoCounts, MQTT_VERIFY_GENERATIONS

LEMMA HttpFlags == FlagsOK /\ HttpNext => FlagsOK'
<1> SUFFICES ASSUME FlagsOK, HttpNext PROVE FlagsOK'
  OBVIOUS
<1> USE DEF FlagsOK, operation_vars, mode_vars, http_vars, worker_vars,
            collector_vars, topology_vars, wire_vars, history_vars
<1>1. ASSUME NEW mode \in ModesAsked, PersistMode(mode) PROVE FlagsOK'
  BY <1>1 DEF PersistMode
<1>2. ASSUME NEW ok \in LockOutcomes, FinishMode(ok) PROVE FlagsOK'
  BY <1>2 DEF FinishMode, ApplyMode, CancelOperation, KeepOperation
<1>3. ASSUME NEW ok \in LockOutcomes, SteerQueue(ok) PROVE FlagsOK'
  BY <1>3 DEF SteerQueue, Queue, NoEvidence
<1>4. ASSUME NEW child \in Children, NEW parent \in Targets, NEW method \in Methods,
             SteerPreflight(child, parent, method)
      PROVE  FlagsOK'
  BY <1>4 DEF SteerPreflight
<1>5. ASSUME NEW mapping \in [Children -> Targets] \cup {Unlocked},
PostTopologyLock(mapping)
      PROVE  FlagsOK'
  BY <1>5 DEF PostTopologyLock
<1> QED
  BY <1>1, <1>2, <1>3, <1>4, <1>5 DEF HttpNext

LEMMA HttpValues == ValuesOK /\ HttpNext => ValuesOK'
<1> SUFFICES ASSUME ValuesOK, HttpNext PROVE ValuesOK'
  OBVIOUS
<1> USE DEF ValuesOK, operation_vars, mode_vars, http_vars, worker_vars,
            collector_vars, topology_vars, wire_vars, history_vars
<1>1. ASSUME NEW mode \in ModesAsked, PersistMode(mode) PROVE ValuesOK'
  BY <1>1, SteeringAssumption DEF PersistMode, Modes
<1>2. ASSUME NEW ok \in LockOutcomes, FinishMode(ok) PROVE ValuesOK'
  <2>1. withdrawn \cup {request.id} \subseteq 0..MaxOperations
    BY DEF Requests
  <2> QED
    BY <1>2, <2>1 DEF FinishMode, ApplyMode, CancelOperation, KeepOperation,
                      Modes, States, Active
<1>3. ASSUME NEW ok \in LockOutcomes, SteerQueue(ok) PROVE ValuesOK'
  <2>1. request' \in Requests
    BY <1>3 DEF SteerQueue, Queue, MayQueue, Requests
  <2> QED
    BY <1>3, <2>1, NoRequestType DEF SteerQueue, Queue, MayQueue, States, Active,
                                     MQTT_VERIFY_GENERATIONS
<1>4. ASSUME NEW child \in Children, NEW parent \in Targets, NEW method \in Methods,
             SteerPreflight(child, parent, method)
      PROVE  ValuesOK'
  <2>1. http_request' \in Requests
    BY <1>4 DEF SteerPreflight, Requests, OpMethods
  <2> QED
    BY <1>4, <2>1 DEF SteerPreflight
<1>5. ASSUME NEW mapping \in [Children -> Targets] \cup {Unlocked},
PostTopologyLock(mapping)
      PROVE  ValuesOK'
  BY <1>5 DEF PostTopologyLock, Unlocked
<1> QED
  BY <1>1, <1>2, <1>3, <1>4, <1>5 DEF HttpNext

LEMMA WorkerFlags == FlagsOK /\ WorkerNext => FlagsOK'
<1> SUFFICES ASSUME FlagsOK, WorkerNext PROVE FlagsOK'
  OBVIOUS
<1> USE DEF FlagsOK, operation_vars, http_vars, worker_vars, collector_vars,
            topology_vars, wire_vars, WorkerKeeps
<1>1. ASSUME TakeOperation PROVE FlagsOK'
  BY <1>1 DEF TakeOperation
<1>2. ASSUME BeginProbe PROVE FlagsOK'
  BY <1>2 DEF BeginProbe
<1>3. ASSUME NEW ok \in LockOutcomes, CheckConflict(ok) PROVE FlagsOK'
  BY <1>3 DEF CheckConflict, WorkerGoes
<1>4. ASSUME NEW ok \in LockOutcomes, AnnounceProbe(ok) PROVE FlagsOK'
  BY <1>4 DEF AnnounceProbe, WorkerWrites, SetState
<1>5. ASSUME NEW ok \in LockOutcomes, CheckMode(ok) PROVE FlagsOK'
  BY <1>5 DEF CheckMode, WorkerGoes
<1>6. ASSUME NEW ok \in LockOutcomes, AnnounceDiscovery(ok) PROVE FlagsOK'
  BY <1>6 DEF AnnounceDiscovery, WorkerWrites, SetState
<1>7. ASSUME NEW ok \in LockOutcomes, GrantPublish(ok) PROVE FlagsOK'
  BY <1>7 DEF GrantPublish, SetState
<1>8. ASSUME NEW ok \in LockOutcomes, ReportFailure(ok) PROVE FlagsOK'
  BY <1>8 DEF ReportFailure, SetCapability
<1>9. ASSUME NEW ok \in LockOutcomes, FailOperation(ok) PROVE FlagsOK'
  BY <1>9 DEF FailOperation, WorkerEnds
<1>10. ASSUME NEW ok \in LockOutcomes, ReadGeneration(ok) PROVE FlagsOK'
  BY <1>10 DEF ReadGeneration
<1>11. ASSUME NEW ok \in LockOutcomes, NEW used \in UsedMethods(worker_request.method), ConfirmPublish(used, ok)
       PROVE FlagsOK'
  BY <1>11 DEF ConfirmPublish, SetCapability
<1>12. ASSUME NEW ok \in LockOutcomes, NEW answer \in BOOLEAN, FinishProbe(answer, ok)
       PROVE FlagsOK'
  BY <1>12 DEF FinishProbe, SetCapability
<1>13. ASSUME NEW ok \in LockOutcomes, NEW answer \in BOOLEAN, FinishRoundtrip(answer, ok)
       PROVE FlagsOK'
  BY <1>13 DEF FinishRoundtrip, SetCapability
<1>14. ASSUME NEW delivered \in BOOLEAN, NEW acknowledged \in BOOLEAN,
              NEW ok \in LockOutcomes, PublishFallback(delivered, acknowledged, ok)
       PROVE  FlagsOK'
  BY <1>14 DEF PublishFallback, RecordFallback, WorkerEnds
<1>15. ASSUME NEW delivered \in BOOLEAN, NEW acknowledged \in BOOLEAN, Publish(delivered, acknowledged)
       PROVE FlagsOK'
  BY <1>15 DEF Publish
<1>16. ASSUME Discover PROVE FlagsOK'
  BY <1>16 DEF Discover, WorkerGoes
<1>17. ASSUME CheckFallback PROVE FlagsOK'
  BY <1>17 DEF CheckFallback, WorkerGoes
<1>18. ASSUME EndMonitor PROVE FlagsOK'
  BY <1>18 DEF EndMonitor, WorkerEnds
<1> QED
  BY <1>1, <1>2, <1>3, <1>4, <1>5, <1>6, <1>7, <1>8, <1>9, <1>10, <1>11, <1>12, <1>13, <1>14, <1>15, <1>16, <1>17, <1>18
     DEF WorkerNext, WorkerBusy

LEMMA WorkerValues == ValuesOK /\ WorkerNext => ValuesOK'
<1> SUFFICES ASSUME ValuesOK, WorkerNext PROVE ValuesOK'
  OBVIOUS
<1> USE DEF ValuesOK, operation_vars, http_vars, worker_vars, collector_vars,
            topology_vars, wire_vars, WorkerKeeps
<1>1. ASSUME TakeOperation PROVE ValuesOK'
  BY <1>1 DEF TakeOperation, WorkerPCs, BeforePublish, AfterPublish
<1>2. ASSUME BeginProbe PROVE ValuesOK'
  BY <1>2 DEF BeginProbe, WorkerPCs, BeforePublish, AfterPublish
<1>3. ASSUME NEW ok \in LockOutcomes, CheckConflict(ok) PROVE ValuesOK'
  BY <1>3 DEF CheckConflict, WorkerGoes, WorkerPCs, BeforePublish, AfterPublish
<1>4. ASSUME NEW ok \in LockOutcomes, AnnounceProbe(ok) PROVE ValuesOK'
  BY <1>4 DEF AnnounceProbe, WorkerWrites, SetState, WorkerPCs, BeforePublish,
              AfterPublish, States, Active
<1>5. ASSUME NEW ok \in LockOutcomes, CheckMode(ok) PROVE ValuesOK'
  BY <1>5 DEF CheckMode, WorkerGoes, WorkerPCs, BeforePublish, AfterPublish
<1>6. ASSUME NEW ok \in LockOutcomes, AnnounceDiscovery(ok) PROVE ValuesOK'
  BY <1>6 DEF AnnounceDiscovery, WorkerWrites, SetState, WorkerPCs, BeforePublish,
              AfterPublish, States, Active
<1>7. ASSUME NEW ok \in LockOutcomes, GrantPublish(ok) PROVE ValuesOK'
  BY <1>7 DEF GrantPublish, SetState, WorkerPCs, BeforePublish, AfterPublish, States,
              Active
<1>8. ASSUME NEW ok \in LockOutcomes, ReportFailure(ok) PROVE ValuesOK'
  BY <1>8 DEF ReportFailure, SetCapability, WorkerPCs, BeforePublish, AfterPublish
<1>9. ASSUME NEW ok \in LockOutcomes, FailOperation(ok) PROVE ValuesOK'
  BY <1>9, NoRequestType DEF FailOperation, WorkerEnds, WorkerPCs, BeforePublish,
                             AfterPublish, States, Active
<1>10. ASSUME NEW ok \in LockOutcomes, ReadGeneration(ok) PROVE ValuesOK'
  BY <1>10 DEF ReadGeneration, WorkerPCs, BeforePublish, AfterPublish
<1>11. ASSUME NEW ok \in LockOutcomes, NEW used \in UsedMethods(worker_request.method), ConfirmPublish(used, ok)
       PROVE ValuesOK'
  <2>1. request' \in Requests
    BY <1>11 DEF ConfirmPublish, UsedMethods, Requests, OpMethods
  <2> QED
    BY <1>11, <2>1 DEF ConfirmPublish, WorkerPCs, States, Active,
                       MQTT_VERIFY_GENERATIONS
<1>12. ASSUME NEW ok \in LockOutcomes, NEW answer \in BOOLEAN, FinishProbe(answer, ok)
       PROVE ValuesOK'
  BY <1>12 DEF FinishProbe, SetCapability, WorkerPCs, BeforePublish, AfterPublish
<1>13. ASSUME NEW ok \in LockOutcomes, NEW answer \in BOOLEAN, FinishRoundtrip(answer, ok)
       PROVE ValuesOK'
  BY <1>13 DEF FinishRoundtrip, SetCapability, WorkerPCs, BeforePublish, AfterPublish
<1>14. ASSUME NEW delivered \in BOOLEAN, NEW acknowledged \in BOOLEAN,
              NEW ok \in LockOutcomes, PublishFallback(delivered, acknowledged, ok)
       PROVE  ValuesOK'
  <2>1. request' \in Requests
    BY <1>14 DEF PublishFallback, RecordFallback, Requests, OpMethods
  <2>2. fallbacks' \in [Ids -> Nat]
    BY <1>14, Increment DEF PublishFallback, CountFallback
  <2> QED
    BY <1>14, <2>1, <2>2, NoRequestType
       DEF PublishFallback, RecordFallback, WorkerEnds, WorkerPCs
<1>15. ASSUME NEW delivered \in BOOLEAN, NEW acknowledged \in BOOLEAN, Publish(delivered, acknowledged)
       PROVE ValuesOK'
  <2>1. sent' \in [Ids -> Nat]
    BY <1>15, Increment DEF Publish
  <2> QED
    BY <1>15, <2>1 DEF Publish, WorkerPCs, AfterPublish
<1>16. ASSUME Discover PROVE ValuesOK'
  BY <1>16 DEF Discover, WorkerGoes, WorkerPCs, BeforePublish, AfterPublish
<1>17. ASSUME CheckFallback PROVE ValuesOK'
  BY <1>17 DEF CheckFallback, WorkerGoes, WorkerPCs, BeforePublish, AfterPublish
<1>18. ASSUME EndMonitor PROVE ValuesOK'
  BY <1>18, NoRequestType DEF EndMonitor, WorkerEnds, WorkerPCs, BeforePublish,
                              AfterPublish
<1> QED
  BY <1>1, <1>2, <1>3, <1>4, <1>5, <1>6, <1>7, <1>8, <1>9, <1>10, <1>11, <1>12, <1>13, <1>14, <1>15, <1>16, <1>17, <1>18
     DEF WorkerNext, WorkerBusy

LEMMA CollectorFlags == FlagsOK /\ CollectorNext => FlagsOK'
<1> SUFFICES ASSUME FlagsOK, CollectorNext PROVE FlagsOK'
  OBVIOUS
<1> USE DEF FlagsOK, operation_vars, mode_vars, http_vars, worker_vars,
            collector_vars, topology_vars, wire_vars, CollectorKeeps
<1>1. ASSUME BeginCollect PROVE FlagsOK'
  BY <1>1 DEF BeginCollect
<1>2. ASSUME CollectFails PROVE FlagsOK'
  BY <1>2 DEF CollectFails
<1>3. ASSUME NEW online \in SUBSET Children, StoreDegraded(online) PROVE FlagsOK'
  BY <1>3 DEF StoreDegraded
<1>4. ASSUME NEW observed \in [Children -> Parents \cup {None}], StoreActionable(observed)
      PROVE FlagsOK'
  BY <1>4 DEF StoreActionable
<1>5. ASSUME NEW ok \in LockOutcomes, SkipVerify(ok) PROVE FlagsOK'
  BY <1>5 DEF SkipVerify
<1>6. ASSUME VerifyOperation PROVE FlagsOK'
  BY <1>6 DEF VerifyOperation
<1>7. ASSUME NEW ok \in LockOutcomes, RecordOutcome(ok) PROVE FlagsOK'
  BY <1>7 DEF RecordOutcome
<1>8. ASSUME NEW child \in Children, SelectMismatch(child) PROVE FlagsOK'
  BY <1>8 DEF SelectMismatch
<1>9. ASSUME NothingToRecover PROVE FlagsOK'
  BY <1>9 DEF NothingToRecover
<1>10. ASSUME NEW ok \in LockOutcomes, QueueRecovery(ok) PROVE FlagsOK'
  BY <1>10 DEF QueueRecovery, Queue, NoEvidence
<1>11. ASSUME NEW ok \in LockOutcomes, DropCandidate(ok) PROVE FlagsOK'
  BY <1>11 DEF DropCandidate
<1> QED
  BY <1>1, <1>2, <1>3, <1>4, <1>5, <1>6, <1>7, <1>8, <1>9, <1>10, <1>11
     DEF CollectorNext, CollectorStep, StoreFresh

LEMMA CollectorValues == ValuesOK /\ CollectorNext => ValuesOK'
<1> SUFFICES ASSUME ValuesOK, CollectorNext PROVE ValuesOK'
  OBVIOUS
<1> USE DEF ValuesOK, operation_vars, mode_vars, http_vars, worker_vars,
            collector_vars, topology_vars, wire_vars, CollectorKeeps
<1>1. ASSUME BeginCollect PROVE ValuesOK'
  BY <1>1 DEF BeginCollect, CollectorPCs
<1>2. ASSUME CollectFails PROVE ValuesOK'
  BY <1>2 DEF CollectFails, CollectorPCs
<1>3. ASSUME NEW online \in SUBSET Children, StoreDegraded(online) PROVE ValuesOK'
  BY <1>3 DEF StoreDegraded, CollectorPCs
<1>4. ASSUME NEW observed \in [Children -> Parents \cup {None}], StoreActionable(observed)
      PROVE ValuesOK'
  BY <1>4 DEF StoreActionable, CollectorPCs
<1>5. ASSUME NEW ok \in LockOutcomes, SkipVerify(ok) PROVE ValuesOK'
  BY <1>5 DEF SkipVerify, CollectorPCs
<1>6. ASSUME VerifyOperation PROVE ValuesOK'
  BY <1>6 DEF VerifyOperation, CollectorPCs, VerifyDue, CountMatch, Outcome,
              MQTT_VERIFY_GENERATIONS, States, Active
<1>7. ASSUME NEW ok \in LockOutcomes, RecordOutcome(ok) PROVE ValuesOK'
  <2>1. verdicts' \in [Ids -> Nat]
    BY <1>7, Increment DEF RecordOutcome
  <2> QED
    BY <1>7, <2>1, NoRequestType DEF RecordOutcome, CollectorPCs
<1>8. ASSUME NEW child \in Children, SelectMismatch(child) PROVE ValuesOK'
  <2>1. collector_request' \in Requests
    BY <1>8 DEF SelectMismatch, Requests, OpMethods
  <2> QED
    BY <1>8, <2>1 DEF SelectMismatch, CollectorPCs
<1>9. ASSUME NothingToRecover PROVE ValuesOK'
  BY <1>9 DEF NothingToRecover, CollectorPCs
<1>10. ASSUME NEW ok \in LockOutcomes, QueueRecovery(ok) PROVE ValuesOK'
  <2>1. request' \in Requests
    BY <1>10 DEF QueueRecovery, Queue, MayQueue, Requests, OpMethods
  <2> QED
    BY <1>10, <2>1, NoRequestType
       DEF QueueRecovery, Queue, MayQueue, CollectorPCs, States, Active,
           MQTT_VERIFY_GENERATIONS
<1>11. ASSUME NEW ok \in LockOutcomes, DropCandidate(ok) PROVE ValuesOK'
  BY <1>11 DEF DropCandidate, CollectorPCs
<1> QED
  BY <1>1, <1>2, <1>3, <1>4, <1>5, <1>6, <1>7, <1>8, <1>9, <1>10, <1>11
     DEF CollectorNext, CollectorStep, StoreFresh

LEMMA ClockAndRebootFlags == FlagsOK /\ (Tick \/ Reboot) => FlagsOK'
<1>1. FlagsOK /\ Tick => FlagsOK'
  BY DEF FlagsOK, Tick, mode_vars, worker_vars, topology_vars, wire_vars, history_vars
<1>2. FlagsOK /\ Reboot => FlagsOK'
  BY DEF FlagsOK, Reboot
<1> QED
  BY <1>1, <1>2

LEMMA ClockAndRebootValues == ValuesOK /\ (Tick \/ Reboot) => ValuesOK'
<1>1. ASSUME ValuesOK, Tick PROVE ValuesOK'
  <2>1. mqtt_child_cooldowns' \in [Children -> 0..Dedup]
    BY <1>1 DEF ValuesOK, Tick, Less
  <2> QED
    BY <1>1, <2>1 DEF ValuesOK, Tick, Older, mode_vars, http_vars, worker_vars,
                      collector_vars, topology_vars, wire_vars, history_vars
<1>2. ASSUME ValuesOK, Reboot PROVE ValuesOK'
  BY <1>2, NoRequestType
     DEF ValuesOK, Reboot, Modes, States, WorkerPCs, CollectorPCs, NoCounts,
         MQTT_VERIFY_GENERATIONS
<1> QED
  BY <1>1, <1>2

\* No step of any task takes a variable out of its type.
LEMMA TypeStep == TypeOK /\ [Next]_vars => TypeOK'
<1>1. TypeOK /\ Next => TypeOK'
  BY HttpFlags, HttpValues, WorkerFlags, WorkerValues, CollectorFlags, CollectorValues,
     ClockAndRebootFlags, ClockAndRebootValues
     DEF TypeOK, Next
<1>2. FlagsOK /\ UNCHANGED vars => FlagsOK'
  BY DEF FlagsOK, vars, operation_vars, mode_vars, worker_vars, topology_vars,
         wire_vars, history_vars
<1>3. ValuesOK /\ UNCHANGED vars => ValuesOK'
  BY DEF ValuesOK, vars, operation_vars, mode_vars, http_vars, worker_vars,
         collector_vars, topology_vars, wire_vars, history_vars
<1> QED
  BY <1>1, <1>2, <1>3 DEF TypeOK

\* Every variable of the steering model keeps its type, for any number of
\* Nodes, requests and ticks.
THEOREM TypeCorrect == Spec => []TypeOK
<1>1. Init => TypeOK
  BY InitFlags, InitValues DEF TypeOK
<1> QED
  BY <1>1, TypeStep, PTL DEF Spec

--------------------------------------------------------------------------------
(* The inductive invariant, one named part per idea. *)

Publishing == BeforePublish \cup AfterPublish
Monitoring == AfterPublish \cup {"monitor", "fallback"}
Working    == WorkerPCs \ {"idle", "probe"}

\* The acknowledged mode is the one in flash, and a handler that is about to
\* apply a mode has written it there.
ModeInv ==
  /\ mode_acknowledged => http # "mode" /\ mqtt_mode = nvs_mode
  /\ http = "mode" => http_mode = nvs_mode /\ ~mode_acknowledged

\* The record holds the youngest request, the worker one that is not younger.
IdInv ==
  /\ request.id = mqtt_next_operation_id
  /\ worker_request.id <= request.id
  /\ worker \in Working => worker_request.id > 0
  /\ worker \notin Working => worker_request.id = 0

\* Nothing younger than the worker's copy is on the wire while it publishes,
\* and nothing as young as a request that still waits for the worker.
WireInv ==
  /\ \A i \in Ids : sent[i] <= 1 /\ (sent[i] > 0 => i <= request.id)
  /\ worker \in BeforePublish =>
       \A i \in Ids : sent[i] > 0 => i < worker_request.id
  /\ worker \in AfterPublish => sent[worker_request.id] > 0
  /\ mqtt_operation_pending => \A i \in Ids : sent[i] > 0 => i < request.id
  /\ op_state = "verification-pending" =>
       request.id > 0 /\ sent[request.id] > 0

\* The worker watches, or falls back from, the youngest request on the wire,
\* which has not fallen back yet; while the record is still about it, it is one
\* that was sent over 802.11v.
FallbackInv ==
  /\ \A i \in Ids : fallbacks[i] <= sent[i]
  /\ worker \in Monitoring =>
       /\ sent[worker_request.id] > 0 /\ fallbacks[worker_request.id] = 0
       /\ \A i \in Ids : sent[i] > 0 => i <= worker_request.id
  /\ worker = "fallback" /\ IsCurrent => request.method = "11v"
  /\ request.id \in Ids /\ fallbacks[request.id] > 0
       => request.method \in {"11v", "11v+temporary-blacklist"}

\* While the worker publishes, no request waits for its verification, and the
\* worker's own is active unless a force-off has cancelled it.
HandoverInv ==
  worker \in Publishing =>
    /\ op_state # "verification-pending"
    /\ IsCurrent => IsActive \/ request.id \in withdrawn
    /\ ~IsCurrent => worker_request.id \in withdrawn

\* A verdict is recorded, or about to be, for a delivered request only, and
\* health_outcome_recorded keeps it from being given twice.
VerdictInv ==
  /\ \A i \in Ids : verdicts[i] > 0 =>
       verdicts[i] <= 1 /\ sent[i] > 0 /\ (i = request.id => op_recorded)
  /\ collector \in {"record-verified", "record-failed"} =>
       /\ collector_request.id \in Ids
       /\ verdicts[collector_request.id] = 0
       /\ sent[collector_request.id] > 0
       /\ collector_request.id = request.id => op_recorded

\* Once a first match is counted, every collection that can give the second
\* one began after the command was sent.
EvidenceInv ==
  /\ op_state = "verified" => fresh_match
  /\ /\ op_state = "verification-pending" /\ op_matches > 0
     /\ collector = "collecting" \/ (collector = "verify" /\ newer)
     => sampled_after_send

Strengthening ==
  /\ ModeInv /\ IdInv /\ PendingIsRunnable /\ WireInv
  /\ HandoverInv /\ VerdictInv /\ EvidenceInv

IInv == TypeOK /\ Strengthening /\ FallbackInv

--------------------------------------------------------------------------------
(* What the parts say together, next to the types. *)

LEMMA StrengtheningInit == Init => Strengthening
BY DEF Init, Strengthening, ModeInv, IdInv, PendingIsRunnable, WireInv, HandoverInv,
       VerdictInv, EvidenceInv, Publishing, BeforePublish, AfterPublish, Working,
       WorkerPCs, NoRequest, NoCounts, Ids

\* What the steps below need of the types.
Typing ==
  /\ request \in Requests /\ request.id \in 0..MaxOperations
  /\ worker_request.id \in 0..MaxOperations
  /\ worker \in WorkerPCs
  /\ op_matches \in Nat
  /\ sent \in [Ids -> Nat] /\ fallbacks \in [Ids -> Nat]
  /\ verdicts \in [Ids -> Nat]
  /\ MaxOperations \in Nat

\* The method of a request may change, its id does not.
LEMMA SameId ==
  ASSUME NEW r \in Requests, NEW m PROVE [r EXCEPT !.method = m].id = r.id
BY DEF Requests

LEMMA TypingFollows == TypeOK => Typing
BY SteeringAssumption DEF TypeOK, ValuesOK, Typing, Requests, MQTT_VERIFY_GENERATIONS

LEMMA HttpStep == Typing /\ Strengthening /\ HttpNext => Strengthening'
<1> SUFFICES ASSUME Typing, Strengthening, HttpNext PROVE Strengthening'
  OBVIOUS
<1> USE DEF Typing, Strengthening, ModeInv, IdInv, PendingIsRunnable,
            WireInv, HandoverInv, VerdictInv, EvidenceInv, Ids,
            IsCurrent, IsActive, Publishing, Working,
            WorkerPCs, BeforePublish, AfterPublish, operation_vars, mode_vars, http_vars, worker_vars,
            collector_vars, topology_vars, wire_vars, history_vars
<1>1. ASSUME NEW mode \in ModesAsked, PersistMode(mode) PROVE Strengthening'
  BY <1>1, SMTT(30) DEF PersistMode
<1>2. ASSUME NEW ok \in LockOutcomes, FinishMode(ok) PROVE Strengthening'
  BY <1>2, SMTT(30) DEF FinishMode, ApplyMode, CancelOperation, KeepOperation,
                        Cancellable,
                Active
<1>3. ASSUME NEW ok \in LockOutcomes, SteerQueue(ok) PROVE Strengthening'
  <2>1. (ModeInv /\ IdInv /\ PendingIsRunnable)'
    BY <1>3 DEF SteerQueue, Queue, MayQueue, NoEvidence, Active
  <2>2. (WireInv /\ HandoverInv)'
    BY <1>3, SMTT(30) DEF SteerQueue, Queue, MayQueue, NoEvidence, Active
  <2>3. (VerdictInv /\ EvidenceInv)'
    BY <1>3, SMTT(30) DEF SteerQueue, Queue, MayQueue, NoEvidence, Active
  <2> QED
    BY <2>1, <2>2, <2>3
<1>4. ASSUME NEW child \in Children, NEW parent \in Targets, NEW method \in Methods,
             SteerPreflight(child, parent, method)
      PROVE  Strengthening'
  BY <1>4, SMTT(30) DEF SteerPreflight
<1>5. ASSUME NEW mapping \in [Children -> Targets] \cup {Unlocked},
             PostTopologyLock(mapping)
      PROVE  Strengthening'
  BY <1>5, SMTT(30) DEF PostTopologyLock
<1> QED
  BY <1>1, <1>2, <1>3, <1>4, <1>5
     DEF HttpNext

LEMMA WorkerStep == Typing /\ Strengthening /\ WorkerNext => Strengthening'
<1> SUFFICES ASSUME Typing, Strengthening, WorkerNext PROVE Strengthening'
  OBVIOUS
<1> USE DEF Typing, Strengthening, ModeInv, IdInv, PendingIsRunnable,
            WireInv, HandoverInv, VerdictInv, EvidenceInv, Ids,
            IsCurrent, IsActive, Publishing, Working,
            WorkerPCs, BeforePublish, AfterPublish, WorkerKeeps, operation_vars, mode_vars, http_vars, worker_vars,
            collector_vars, topology_vars, wire_vars, history_vars
<1>1. ASSUME TakeOperation PROVE Strengthening'
  BY <1>1, SMTT(30) DEF TakeOperation, Active
<1>2. ASSUME BeginProbe PROVE Strengthening'
  BY <1>2 DEF BeginProbe
<1>3. ASSUME NEW ok \in LockOutcomes, CheckConflict(ok) PROVE Strengthening'
  BY <1>3 DEF CheckConflict, WorkerGoes
<1>4. ASSUME NEW ok \in LockOutcomes, AnnounceProbe(ok) PROVE Strengthening'
  <2>1. (ModeInv /\ IdInv /\ PendingIsRunnable)'
    BY <1>4, SMTT(30) DEF AnnounceProbe, WorkerWrites, SetState, Active
  <2>2. (WireInv /\ HandoverInv)'
    BY <1>4 DEF AnnounceProbe, WorkerWrites, SetState, Active
  <2>3. (VerdictInv /\ EvidenceInv)'
    BY <1>4 DEF AnnounceProbe, WorkerWrites, SetState, Active
  <2> QED
    BY <2>1, <2>2, <2>3
<1>5. ASSUME NEW ok \in LockOutcomes, CheckMode(ok) PROVE Strengthening'
  BY <1>5 DEF CheckMode, WorkerGoes
<1>6. ASSUME NEW ok \in LockOutcomes,
             AnnounceDiscovery(ok)
      PROVE  Strengthening'
  <2>1. (ModeInv /\ IdInv /\ PendingIsRunnable)'
    BY <1>6, SMTT(30) DEF AnnounceDiscovery, WorkerWrites, SetState, Active
  <2>2. (WireInv /\ HandoverInv)'
    BY <1>6 DEF AnnounceDiscovery, WorkerWrites, SetState, Active
  <2>3. (VerdictInv /\ EvidenceInv)'
    BY <1>6 DEF AnnounceDiscovery, WorkerWrites, SetState, Active
  <2> QED
    BY <2>1, <2>2, <2>3
<1>7. ASSUME NEW ok \in LockOutcomes, GrantPublish(ok) PROVE Strengthening'
  <2>1. (ModeInv /\ IdInv /\ PendingIsRunnable)'
    BY <1>7, SMTT(30) DEF GrantPublish, SetState, Active
  <2>2. (WireInv /\ HandoverInv)'
    BY <1>7, SMTT(30) DEF GrantPublish, SetState, Active
  <2>3. (VerdictInv /\ EvidenceInv)'
    BY <1>7, SMTT(30) DEF GrantPublish, SetState, Active
  <2> QED
    BY <2>1, <2>2, <2>3
<1>8. ASSUME NEW ok \in LockOutcomes, ReportFailure(ok) PROVE Strengthening'
  BY <1>8 DEF ReportFailure
<1>9. ASSUME NEW ok \in LockOutcomes, FailOperation(ok) PROVE Strengthening'
  <2>1. (ModeInv /\ IdInv /\ PendingIsRunnable)'
    BY <1>9 DEF FailOperation, WorkerEnds, NoRequest
  <2>2. (WireInv /\ HandoverInv)'
    BY <1>9 DEF FailOperation, WorkerEnds, NoRequest
  <2>3. (VerdictInv /\ EvidenceInv)'
    BY <1>9 DEF FailOperation, WorkerEnds, NoRequest
  <2> QED
    BY <2>1, <2>2, <2>3
<1>10. ASSUME NEW ok \in LockOutcomes, ReadGeneration(ok) PROVE Strengthening'
  BY <1>10 DEF ReadGeneration
<1>11. ASSUME NEW ok \in LockOutcomes, NEW used,
             ConfirmPublish(used, ok)
      PROVE  Strengthening'
  <2>0. request'.id = request.id
    BY <1>11, SameId DEF ConfirmPublish
  <2>1. (ModeInv /\ IdInv /\ PendingIsRunnable)'
    BY <1>11, <2>0 DEF ConfirmPublish
  <2>2. (WireInv /\ HandoverInv)'
    BY <1>11, <2>0 DEF ConfirmPublish
  <2>3. (VerdictInv /\ EvidenceInv)'
    BY <1>11, <2>0 DEF ConfirmPublish
  <2> QED
    BY <2>1, <2>2, <2>3
<1>12. ASSUME NEW ok \in LockOutcomes, NEW answer,
             FinishProbe(answer, ok)
      PROVE  Strengthening'
  BY <1>12 DEF FinishProbe
<1>13. ASSUME NEW ok \in LockOutcomes, NEW answer,
             FinishRoundtrip(answer, ok)
      PROVE  Strengthening'
  BY <1>13 DEF FinishRoundtrip
<1>14. ASSUME NEW delivered, NEW acknowledged, NEW ok \in LockOutcomes,
              PublishFallback(delivered, acknowledged, ok)
       PROVE  Strengthening'
  <2> USE DEF PublishFallback, RecordFallback, WorkerEnds, NoRequest
  <2>0. request'.id = request.id
    BY <1>14, SameId
  <2>1. (ModeInv /\ IdInv /\ PendingIsRunnable)'
    BY <1>14, <2>0
  <2>2. (WireInv /\ HandoverInv)'
    BY <1>14, <2>0
  <2>3. (VerdictInv /\ EvidenceInv)'
    BY <1>14, <2>0
  <2> QED
    BY <2>1, <2>2, <2>3
<1>15. ASSUME NEW delivered, NEW acknowledged,
             Publish(delivered, acknowledged)
      PROVE  Strengthening'
  <2>1. worker = "publish" /\ worker_request.id \in Ids
    BY <1>15, SMTT(30) DEF Publish
  <2>2. UNCHANGED <<operation_vars, worker_request, collector_vars, newer, verdicts,
                    sampled_after_send, fresh_match>>
    BY <1>15 DEF Publish
  <2>3. /\ \A i \in Ids \ {worker_request.id} : sent'[i] = sent[i]
        /\ sent'[worker_request.id] \in {sent[worker_request.id], sent[worker_request.id] + 1}
        /\ \/ worker' = "acknowledged" /\ sent'[worker_request.id] = sent[worker_request.id] + 1
           \/ worker' = "report"
    BY <1>15, <2>1 DEF Publish
  <2>4. sent[worker_request.id] = 0
    <3>1. worker \in BeforePublish
      BY <2>1
    <3>2. \A i \in Ids : sent[i] > 0 => i < worker_request.id
      BY <3>1, Zenon
    <3>3. worker_request.id \in Nat /\ sent[worker_request.id] \in Nat
      BY <2>1
    <3>4. ~(sent[worker_request.id] > 0)
      BY <2>1, <3>2, <3>3
    <3> QED
      BY <3>3, <3>4
  <2>5. (ModeInv /\ IdInv /\ PendingIsRunnable /\ HandoverInv)'
    BY <1>15, <2>1, <2>2, <2>3, SMTT(30) DEF Publish
  <2>6. WireInv'
    <3>1. ASSUME NEW i \in Ids
          PROVE sent'[i] <= 1 /\ (sent'[i] > 0 => i <= worker_request.id)
      <4>1. CASE i = worker_request.id
        BY <2>3, <2>4, <4>1, SMTT(30)
      <4>2. CASE i # worker_request.id
        BY <2>1, <2>3, <4>2, SMTT(30)
      <4> QED
        BY <4>1, <4>2
    <3>2. worker' \in AfterPublish => sent'[worker_request.id] > 0
      BY <2>3, <2>4
    <3>3. op_state # "verification-pending" /\ worker' \notin BeforePublish
      BY <2>1, <2>3
    <3> QED
      BY <2>1, <2>2, <3>1, <3>2, <3>3, SMTT(30)
  <2>7. (VerdictInv /\ EvidenceInv)'
    <3>1. ASSUME NEW i \in Ids, sent[i] > 0 PROVE sent'[i] > 0
      <4>1. i # worker_request.id
        BY <2>4, <3>1
      <4> QED
        BY <2>3, <3>1, <4>1
    <3> QED
      BY <2>1, <2>2, <3>1
  <2> QED
    BY <2>5, <2>6, <2>7
<1>16. ASSUME Discover PROVE Strengthening'
  <2>1. CASE WorkerGoes("discover", "grant")
    BY <2>1 DEF WorkerGoes
  <2>2. CASE WorkerGoes("discover", "report")
    BY <2>2 DEF WorkerGoes
  <2> QED
    BY <1>16, <2>1, <2>2 DEF Discover
<1>17. ASSUME CheckFallback PROVE Strengthening'
  BY <1>17 DEF CheckFallback, WorkerGoes
<1>18. ASSUME EndMonitor PROVE Strengthening'
  BY <1>18, SMTT(30) DEF EndMonitor, WorkerEnds, NoRequest
<1> QED
  BY <1>1, <1>2, <1>3, <1>4, <1>5, <1>6, <1>7, <1>8, <1>9, <1>10, <1>11, <1>12, <1>13, <1>14, <1>15, <1>16, <1>17, <1>18
     DEF WorkerNext, WorkerBusy

LEMMA CollectorActions == Typing /\ Strengthening /\ CollectorNext => Strengthening'
<1> SUFFICES ASSUME Typing, Strengthening, CollectorNext PROVE Strengthening'
  OBVIOUS
<1> USE DEF Typing, Strengthening, ModeInv, IdInv, PendingIsRunnable,
            WireInv, HandoverInv, VerdictInv, EvidenceInv, Ids,
            IsCurrent, IsActive, Publishing, Working,
            WorkerPCs, BeforePublish, AfterPublish, CollectorKeeps, operation_vars, mode_vars, http_vars, worker_vars,
            collector_vars, topology_vars, wire_vars, history_vars
<1>1. ASSUME BeginCollect PROVE Strengthening'
  <2>1. op_state = "verification-pending" => sampled_after_send'
    <3>1. op_state = "verification-pending" => request.id \in Ids /\ sent[request.id] > 0
      OBVIOUS
    <3>2. sampled_after_send' <=> request.id \in Ids /\ sent[request.id] > 0
      BY <1>1, Zenon DEF BeginCollect
    <3> QED
      BY <3>1, <3>2
  <2>2. EvidenceInv'
    BY <1>1, <2>1 DEF BeginCollect
  <2>3. (ModeInv /\ IdInv /\ PendingIsRunnable /\ WireInv /\ HandoverInv /\ VerdictInv)'
    BY <1>1, SMTT(30) DEF BeginCollect
  <2> QED
    BY <2>2, <2>3
<1>2. ASSUME CollectFails PROVE Strengthening'
  BY <1>2, SMTT(30) DEF CollectFails
<1>3. ASSUME NEW online \in SUBSET Children,
             StoreDegraded(online)
      PROVE  Strengthening'
  BY <1>3, SMTT(30) DEF StoreDegraded
<1>4. ASSUME NEW observed, StoreActionable(observed) PROVE Strengthening'
  BY <1>4, SMTT(30) DEF StoreActionable
<1>5. ASSUME NEW ok \in LockOutcomes, SkipVerify(ok) PROVE Strengthening'
  BY <1>5, SMTT(30) DEF SkipVerify
<1>6. ASSUME VerifyOperation PROVE Strengthening'
  <2>1. op_state = "verification-pending" /\ newer /\ collector = "verify"
    BY <1>6 DEF VerifyOperation, VerifyDue
  <2>2. op_state' \in {"verified", "failed", "verification-pending"}
    BY <1>6 DEF VerifyOperation, Outcome
  <2>3. collector' \notin {"collecting", "verify"}
    BY <1>6 DEF VerifyOperation
  <2>4. ASSUME op_state' = "verified" PROVE fresh_match'
    <3>1. CountMatch >= 2
      BY <1>6, <2>4 DEF VerifyOperation, Outcome, MQTT_VERIFY_GENERATIONS
    <3>2. Observed /\ op_matches > 0
      BY <3>1 DEF CountMatch
    <3> QED
      BY <1>6, <2>1, <3>2 DEF VerifyOperation
  <2>5. EvidenceInv'
    BY <2>3, <2>4
  <2>6. UNCHANGED <<request, sent, verdicts>>
    BY <1>6 DEF VerifyOperation
  <2>7. \/ /\ collector' \in {"record-verified", "record-failed"}
           /\ collector_request' = request
           /\ ~op_recorded /\ op_recorded'
        \/ /\ collector' = "lock"
           /\ op_recorded => op_recorded'
    BY <1>6 DEF VerifyOperation
  <2>8. VerdictInv'
    <3>1. request.id \in Ids /\ sent[request.id] > 0
      BY <2>1
    <3>2. ~op_recorded => verdicts[request.id] = 0
      BY <3>1
    <3> QED
      BY <2>6, <2>7, <3>1, <3>2
  <2>9. (ModeInv /\ IdInv /\ PendingIsRunnable /\ WireInv /\ HandoverInv)'
    BY <1>6, <2>1, <2>2 DEF VerifyOperation
  <2> QED
    BY <2>5, <2>8, <2>9
<1>7. ASSUME NEW ok \in LockOutcomes, RecordOutcome(ok) PROVE Strengthening'
  <2>1. (ModeInv /\ IdInv /\ PendingIsRunnable)'
    BY <1>7 DEF RecordOutcome
  <2>2. (WireInv /\ HandoverInv)'
    BY <1>7 DEF RecordOutcome
  <2>3. (VerdictInv /\ EvidenceInv)'
    BY <1>7, SMTT(30) DEF RecordOutcome
  <2> QED
    BY <2>1, <2>2, <2>3
<1>8. ASSUME NEW child \in Children, SelectMismatch(child) PROVE Strengthening'
  BY <1>8, SMTT(30) DEF SelectMismatch
<1>9. ASSUME NothingToRecover PROVE Strengthening'
  BY <1>9, SMTT(30) DEF NothingToRecover
<1>10. ASSUME NEW ok \in LockOutcomes, QueueRecovery(ok) PROVE Strengthening'
  <2>1. (ModeInv /\ IdInv /\ PendingIsRunnable)'
    BY <1>10 DEF QueueRecovery, Queue, MayQueue, NoEvidence, Active
  <2>2. (WireInv /\ HandoverInv)'
    BY <1>10, SMTT(30) DEF QueueRecovery, Queue, MayQueue, NoEvidence, Active
  <2>3. (VerdictInv /\ EvidenceInv)'
    BY <1>10 DEF QueueRecovery, Queue, MayQueue, NoEvidence, Active
  <2> QED
    BY <2>1, <2>2, <2>3
<1>11. ASSUME NEW ok \in LockOutcomes, DropCandidate(ok) PROVE Strengthening'
  BY <1>11, SMTT(30) DEF DropCandidate
<1> QED
  BY <1>1, <1>2, <1>3, <1>4, <1>5, <1>6, <1>7, <1>8, <1>9, <1>10, <1>11
     DEF CollectorNext, CollectorStep, StoreFresh

LEMMA ClockAndReboot == Typing /\ Strengthening /\ (Tick \/ Reboot) => Strengthening'
<1> SUFFICES ASSUME Typing, Strengthening, (Tick \/ Reboot) PROVE Strengthening'
  OBVIOUS
<1> USE DEF Typing, Strengthening, ModeInv, IdInv, PendingIsRunnable,
            WireInv, HandoverInv, VerdictInv, EvidenceInv, Ids,
            IsCurrent, IsActive, Publishing, Working,
            WorkerPCs, BeforePublish, AfterPublish, operation_vars, mode_vars, http_vars, worker_vars,
            collector_vars, topology_vars, wire_vars, history_vars
<1>1. ASSUME Tick PROVE Strengthening'
  BY <1>1, SMTT(30) DEF Tick
<1>2. ASSUME Reboot PROVE Strengthening'
  BY <1>2 DEF Reboot, NoRequest, NoCounts
<1> QED
  BY <1>1, <1>2

\* Only a step that queues, publishes or ends a turn can disturb FallbackInv.
LEMMA FallbackFrame ==
  ASSUME FallbackInv,
         UNCHANGED <<request, sent, fallbacks, worker_request>>,
         worker' \in Monitoring => worker \in Monitoring,
         worker' = "fallback" => worker = "fallback"
  PROVE  FallbackInv'
BY DEF FallbackInv, IsCurrent

\* A request that is queued is younger than all that were sent.
LEMMA FallbackQueue ==
  ASSUME Typing, Strengthening, FallbackInv,
         UNCHANGED <<sent, fallbacks, worker, worker_request>>,
         request'.id = request.id + 1
  PROVE  FallbackInv'
<1> USE DEF Typing, Requests, Strengthening, IdInv, WireInv, Ids, IsCurrent
<1>1. ASSUME request'.id \in Ids PROVE fallbacks[request'.id] = 0
  <2>1. ~(request'.id <= request.id) /\ fallbacks[request'.id] <= sent[request'.id]
    BY <1>1 DEF FallbackInv
  <2>2. ~(sent[request'.id] > 0)
    BY <1>1, <2>1
  <2> QED
    BY <1>1, <2>1, <2>2
<1>2. request'.id # worker_request.id
  OBVIOUS
<1> QED
  BY <1>1, <1>2 DEF FallbackInv

\* A step of the HTTP task either queues or leaves all of it alone.
LEMMA FallbackHttp ==
  ASSUME Typing, Strengthening, FallbackInv, HttpNext PROVE FallbackInv'
<1> USE DEF operation_vars, worker_vars, wire_vars, history_vars
<1>1. UNCHANGED <<sent, fallbacks, worker, worker_request>>
  BY DEF HttpNext, PersistMode, FinishMode, SteerPreflight, SteerQueue, PostTopologyLock
<1>2. request' = request \/ request'.id = request.id + 1
  BY DEF HttpNext, PersistMode, FinishMode, ApplyMode, CancelOperation, KeepOperation,
         SteerPreflight, SteerQueue, Queue, PostTopologyLock, Strengthening, IdInv,
         Typing, Requests
<1> QED
  BY <1>1, <1>2, FallbackFrame, FallbackQueue

\* So does a step of the collector.
LEMMA FallbackCollector ==
  ASSUME Typing, Strengthening, FallbackInv, CollectorNext PROVE FallbackInv'
<1> USE DEF operation_vars, worker_vars, wire_vars, history_vars
<1>1. UNCHANGED <<sent, fallbacks, worker, worker_request>>
  BY DEF CollectorNext, CollectorStep, StoreFresh, BeginCollect, CollectFails,
         DropCandidate, StoreDegraded, StoreActionable, SkipVerify, VerifyOperation,
         RecordOutcome, SelectMismatch, NothingToRecover, QueueRecovery, CollectorKeeps
<1>2. ASSUME NEW ok \in LockOutcomes, QueueRecovery(ok)
      PROVE  request' = request \/ request'.id = request.id + 1
  BY <1>2 DEF QueueRecovery, Queue, Strengthening, IdInv, Typing, Requests
<1>3. \/ request' = request
      \/ \E ok \in LockOutcomes : QueueRecovery(ok)
  BY DEF CollectorNext, CollectorStep, StoreFresh, BeginCollect, CollectFails,
         DropCandidate, StoreDegraded, StoreActionable, SkipVerify, VerifyOperation,
         RecordOutcome, SelectMismatch, NothingToRecover
<1> QED
  BY <1>1, <1>2, <1>3, FallbackFrame, FallbackQueue

\* Steps of the worker: its own command is the first of its request, and what
\* follows an acknowledged one is the fallback at most once.
LEMMA FallbackWorker ==
  ASSUME Typing, Strengthening, FallbackInv, WorkerNext PROVE FallbackInv'
<1> USE DEF operation_vars, wire_vars, Monitoring, AfterPublish
<1>1. CASE TakeOperation \/ BeginProbe
  <2>1. UNCHANGED <<request, sent, fallbacks>> /\ worker' \notin Monitoring
    BY <1>1 DEF TakeOperation, BeginProbe, worker_vars
  <2> QED
    BY <2>1 DEF FallbackInv
<1>2. ASSUME NEW ok \in LockOutcomes,
             \/ CheckConflict(ok) \/ AnnounceProbe(ok) \/ CheckMode(ok)
             \/ AnnounceDiscovery(ok) \/ GrantPublish(ok) \/ ReportFailure(ok)
             \/ FailOperation(ok) \/ \E answer \in BOOLEAN :
                  FinishProbe(answer, ok) \/ FinishRoundtrip(answer, ok)
      PROVE  FallbackInv'
  <2>1. UNCHANGED <<request, sent, fallbacks>> /\ worker' \notin Monitoring
    BY <1>2 DEF CheckConflict, AnnounceProbe, CheckMode, AnnounceDiscovery,
                GrantPublish,
                ReportFailure, FailOperation, FinishProbe, FinishRoundtrip,
                WorkerGoes, WorkerWrites, WorkerEnds, SetState
  <2> QED
    BY <2>1 DEF FallbackInv
<1>3. CASE Discover \/ EndMonitor
  <2>1. UNCHANGED <<request, sent, fallbacks>> /\ worker' \notin Monitoring
    BY <1>3 DEF Discover, EndMonitor, WorkerGoes, WorkerEnds
  <2> QED
    BY <2>1 DEF FallbackInv
<1>4. ASSUME NEW ok \in LockOutcomes, ReadGeneration(ok) PROVE FallbackInv'
  BY <1>4, FallbackFrame DEF ReadGeneration
<1>5. ASSUME NEW ok \in LockOutcomes, NEW used, ConfirmPublish(used, ok)
      PROVE  FallbackInv'
  <2>1. /\ UNCHANGED <<sent, fallbacks, worker_request>>
        /\ worker = "confirm" /\ worker' = "monitor"
    BY <1>5 DEF ConfirmPublish
  <2>2. request' = request \/ (request.id = worker_request.id /\ request'.id = request.id)
    BY <1>5, SameId DEF ConfirmPublish, IsCurrent, Typing
  <2>3. fallbacks[worker_request.id] = 0
    BY <2>1 DEF FallbackInv
  <2> QED
    BY <2>1, <2>2, <2>3 DEF FallbackInv
<1>6. CASE CheckFallback
  <2>1. /\ UNCHANGED <<request, sent, fallbacks, worker_request>>
        /\ worker = "monitor" /\ request.method = "11v"
    BY <1>6 DEF CheckFallback, WorkerGoes
  <2> QED
    BY <2>1, <1>6 DEF FallbackInv, CheckFallback, WorkerGoes
<1>7. ASSUME NEW delivered, NEW acknowledged, Publish(delivered, acknowledged)
      PROVE  FallbackInv'
  <2>1. /\ UNCHANGED <<request, fallbacks, worker_request>> /\ worker = "publish"
        /\ worker' = "acknowledged" => delivered
        /\ worker' \in {"acknowledged", "report"}
        /\ sent' = IF delivered THEN [sent EXCEPT ![worker_request.id] = @ + 1] ELSE sent
    BY <1>7 DEF Publish
  <2>2. worker_request.id \in Ids /\ \A i \in Ids : sent[i] > 0 => i < worker_request.id
    BY <2>1, SMTT(30) DEF Typing, Strengthening, IdInv, WireInv, BeforePublish,
                          Working, WorkerPCs, Ids
  <2>3. sent \in [Ids -> Nat] /\ fallbacks \in [Ids -> Nat] /\ Ids \subseteq Nat
    BY DEF Typing, Ids
  <2>4. \A i \in Ids : sent'[i] = IF delivered /\ i = worker_request.id
                                 THEN sent[i] + 1 ELSE sent[i]
    BY <2>1, <2>2, <2>3
  <2>5. \A i \in Ids : sent[i] <= sent'[i] /\ fallbacks[i] <= sent'[i]
    BY <2>3, <2>4 DEF FallbackInv
  <2>6. /\ \A i \in Ids : sent'[i] > 0 => i <= worker_request.id
        /\ delivered => sent'[worker_request.id] > 0
    BY <2>2, <2>3, <2>4 DEF Ids
  <2>7. fallbacks[worker_request.id] = 0
    <3>1. ~(worker_request.id < worker_request.id)
      BY <2>2 DEF Ids
    <3>2. ~(sent[worker_request.id] > 0)
      BY <2>2, <3>1, Zenon
    <3>3. /\ fallbacks[worker_request.id] <= sent[worker_request.id]
          /\ fallbacks[worker_request.id] \in Nat /\ sent[worker_request.id] \in Nat
      BY <2>2, <2>3 DEF FallbackInv
    <3> QED
      BY <3>2, <3>3
  <2>8. request.id \in Ids /\ fallbacks[request.id] > 0
          => request.method \in {"11v", "11v+temporary-blacklist"}
    BY DEF FallbackInv
  <2> QED
    BY <2>1, <2>5, <2>6, <2>7, <2>8 DEF FallbackInv
<1>8. ASSUME NEW delivered, NEW acknowledged, NEW ok \in LockOutcomes,
             PublishFallback(delivered, acknowledged, ok)
      PROVE  FallbackInv'
  <2>1. /\ UNCHANGED sent /\ worker = "fallback" /\ worker' = "idle"
        /\ \/ UNCHANGED fallbacks
           \/ fallbacks' = [fallbacks EXCEPT ![worker_request.id] = @ + 1]
    BY <1>8 DEF PublishFallback, CountFallback, WorkerEnds
  <2>2. \/ request' = request
        \/ request'.id = request.id /\ request'.method = "11v+temporary-blacklist"
    BY <1>8, SameId DEF PublishFallback, RecordFallback, Typing, Requests
  <2>3. /\ sent[worker_request.id] > 0 /\ fallbacks[worker_request.id] = 0
        /\ worker_request.id \in Ids
    BY <2>1 DEF FallbackInv, Typing, Strengthening, IdInv, Working, WorkerPCs, Ids
  <2>4. \A i \in Ids : /\ i # worker_request.id => fallbacks'[i] = fallbacks[i]
                       /\ fallbacks'[worker_request.id] <= 1
    BY <2>1, <2>3 DEF Typing
  <2>5. \A i \in Ids : fallbacks'[i] <= sent'[i]
    BY <2>1, <2>3, <2>4 DEF Typing, FallbackInv
  <2>6. request.id = worker_request.id => request.method = "11v"
    BY <2>1 DEF FallbackInv, IsCurrent
  <2>7. request'.id \in Ids /\ fallbacks'[request'.id] > 0
          => request'.method \in {"11v", "11v+temporary-blacklist"}
    BY <2>2, <2>4, <2>6 DEF FallbackInv
  <2> QED
    BY <2>1, <2>5, <2>7 DEF FallbackInv
<1> QED
  BY <1>1, <1>2, <1>3, <1>4, <1>5, <1>6, <1>7, <1>8 DEF WorkerNext, WorkerBusy

LEMMA FallbackStep ==
  ASSUME Typing, Strengthening, FallbackInv, [Next]_vars PROVE FallbackInv'
<1>1. CASE Tick
  BY <1>1, FallbackFrame DEF Tick, worker_vars, wire_vars, history_vars
<1>2. CASE Reboot
  BY <1>2 DEF Reboot, FallbackInv, Monitoring, AfterPublish, NoRequest, NoCounts, Ids
<1>3. CASE UNCHANGED vars
  BY <1>3, FallbackFrame
     DEF vars, operation_vars, worker_vars, wire_vars, history_vars
<1> QED
  BY <1>1, <1>2, <1>3, FallbackHttp, FallbackWorker, FallbackCollector DEF Next

LEMMA InvariantStep == IInv /\ [Next]_vars => IInv'
<1>1. Typing /\ Strengthening /\ Next => Strengthening'
  BY HttpStep, WorkerStep, CollectorActions, ClockAndReboot DEF Next
<1>2. Strengthening /\ UNCHANGED vars => Strengthening'
  BY DEF Strengthening, ModeInv, IdInv, PendingIsRunnable, WireInv, HandoverInv,
         VerdictInv, EvidenceInv, IsCurrent, IsActive, vars, operation_vars, mode_vars,
         http_vars, worker_vars, collector_vars, topology_vars, wire_vars, history_vars
<1>3. IInv /\ [Next]_vars => FallbackInv'
  BY TypingFollows, FallbackStep DEF IInv
<1> QED
  BY <1>1, <1>2, <1>3, TypingFollows, TypeStep DEF IInv

\* The inductive invariant holds, for any number of Nodes, requests and ticks.
THEOREM Invariance == Spec => []IInv
<1>1. Init => FallbackInv
  BY DEF Init, FallbackInv, Monitoring, AfterPublish, NoRequest, NoCounts, Ids
<1>2. Init => IInv
  BY <1>1, StrengtheningInit, InitFlags, InitValues DEF IInv, TypeOK
<1> QED
  BY <1>2, InvariantStep, PTL DEF Spec

--------------------------------------------------------------------------------
(* The safety properties. *)

\* Whatever waits for the worker is something the worker may run.
THEOREM PendingSafe == Spec => []PendingIsRunnable
<1>1. IInv => PendingIsRunnable
  BY DEF IInv, Strengthening
<1> QED
  BY <1>1, Invariance, PTL

\* No request puts its own command on the wire twice, nor the blacklist of its
\* fallback, and that only behind the own one and for no exact request.
THEOREM AtMostOnce == Spec => []CommandsAtMostOnce
<1>1. IInv => CommandsAtMostOnce
  BY DEF IInv, Strengthening, WireInv, FallbackInv, CommandsAtMostOnce
<1> QED
  BY <1>1, Invariance, PTL

\* Parent Steering Health hears of delivered requests only, and once.
THEOREM VerdictsSafe == Spec => []VerdictsOnDelivered
<1>1. IInv => VerdictsOnDelivered
  BY DEF IInv, Strengthening, TypeOK, ValuesOK, VerdictInv, VerdictsOnDelivered
<1> QED
  BY <1>1, Invariance, PTL

\* A verified request was seen in a collection that began after its publish.
THEOREM VerifiedFresh == Spec => []VerifiedOnFreshEvidence
<1>1. IInv => VerifiedOnFreshEvidence
  BY DEF IInv, Strengthening, EvidenceInv, VerifiedOnFreshEvidence
<1> QED
  BY <1>1, Invariance, PTL

\* Only a force-off takes the record away from a worker that is publishing.
THEOREM SupersededSafe == Spec => []SupersededOnlyByForceOff
<1>1. IInv => SupersededOnlyByForceOff
  BY DEF IInv, Strengthening, HandoverInv, Publishing, SupersededOnlyByForceOff
<1> QED
  BY <1>1, Invariance, PTL

\* An acknowledged mode outlives everything but another mode request.
THEOREM ModeKept == Spec => AcknowledgedModeIsKept
<1>1. IInv /\ [Next]_vars => (mode_acknowledged => mqtt_mode' = mqtt_mode)
  <2> SUFFICES ASSUME ModeInv, mode_acknowledged, [Next]_vars
               PROVE mqtt_mode' = mqtt_mode
    BY DEF IInv, Strengthening
  <2> USE DEF mode_vars
  <2>1. HttpNext => mqtt_mode' = mqtt_mode
    BY DEF HttpNext, PersistMode, FinishMode, SteerPreflight, SteerQueue,
           PostTopologyLock, ModeInv
  <2>2. WorkerNext => mqtt_mode' = mqtt_mode
    BY Zenon
       DEF WorkerNext, WorkerBusy, TakeOperation, BeginProbe, FinishProbe, WorkerGoes,
           WorkerEnds, WorkerWrites, CheckConflict, AnnounceProbe, FinishRoundtrip,
           CheckMode, AnnounceDiscovery, Discover, GrantPublish, Publish, ReportFailure,
           FailOperation, ReadGeneration, ConfirmPublish, CheckFallback, EndMonitor,
           PublishFallback, RecordFallback, WorkerKeeps
  <2>3. CollectorNext => mqtt_mode' = mqtt_mode
    BY DEF CollectorNext, CollectorStep, StoreFresh, BeginCollect, CollectFails,
           DropCandidate,
           StoreDegraded, StoreActionable, SkipVerify, VerifyOperation, RecordOutcome,
           SelectMismatch, NothingToRecover, QueueRecovery, CollectorKeeps
  <2>4. Tick => mqtt_mode' = mqtt_mode
    BY DEF Tick
  <2>5. Reboot => mqtt_mode' = mqtt_mode
    BY DEF Reboot, ModeInv
  <2> QED
    BY <2>1, <2>2, <2>3, <2>4, <2>5 DEF Next, vars
<1>2. IInv /\ [Next]_vars => [mode_acknowledged => mqtt_mode' = mqtt_mode]_vars
  BY <1>1
<1> QED
  BY <1>2, Invariance, PTL DEF Spec, AcknowledgedModeIsKept

--------------------------------------------------------------------------------
(* The three tasks implement a RequestChannel. *)

\* Every step accepts a request, publishes, falls back, reboots, or does not
\* concern the channel at all.
LEMMA ChannelSteps ==
  ASSUME Next
  PROVE  \/ mqtt_next_operation_id' = mqtt_next_operation_id + 1 /\ UNCHANGED wire_vars
         \/ \E d, a \in BOOLEAN : Publish(d, a)
         \/ \E d, a \in BOOLEAN, ok \in LockOutcomes : PublishFallback(d, a, ok)
         \/ Reboot
         \/ UNCHANGED <<mqtt_next_operation_id, wire_vars>>
<1> USE DEF operation_vars, wire_vars, history_vars
<1>1. CASE HttpNext
  BY <1>1 DEF HttpNext, PersistMode, FinishMode, ApplyMode, CancelOperation,
              KeepOperation, SteerPreflight, SteerQueue, Queue, PostTopologyLock
<1>2. CASE WorkerNext
  BY <1>2
     DEF WorkerNext, WorkerBusy, TakeOperation, BeginProbe, FinishProbe, WorkerGoes,
         WorkerEnds, WorkerWrites, SetState, CheckConflict, AnnounceProbe,
         FinishRoundtrip, CheckMode, AnnounceDiscovery, Discover, GrantPublish,
         ReportFailure, FailOperation, ReadGeneration, ConfirmPublish, CheckFallback,
         EndMonitor
<1>3. CASE CollectorNext
  BY <1>3 DEF CollectorNext, CollectorStep, StoreFresh, BeginCollect, CollectFails,
           DropCandidate,
              StoreDegraded, StoreActionable, SkipVerify, VerifyOperation, RecordOutcome,
              SelectMismatch, NothingToRecover, QueueRecovery, Queue, CollectorKeeps
<1>4. CASE Tick
  BY <1>4 DEF Tick
<1>5. CASE Reboot
  BY <1>5
<1> QED
  BY <1>1, <1>2, <1>3, <1>4, <1>5 DEF Next

\* A publish either leaves the delivered requests alone or adds the worker's
\* own, which is younger than all of them.
LEMMA PublishDelivers ==
  ASSUME IInv, NEW d \in BOOLEAN, NEW a \in BOOLEAN, Publish(d, a)
  PROVE  (\E i \in 1..mqtt_next_operation_id : Channel!Deliver(i))
           \/ UNCHANGED <<mqtt_next_operation_id, Once, FellBack>>
<1> USE DEF operation_vars
<1>1. /\ worker_request.id \in 1..mqtt_next_operation_id
      /\ worker_request.id \in Ids
      /\ \A j \in Ids : sent[j] > 0 => j < worker_request.id
  BY SMTT(30) DEF IInv, Strengthening, TypeOK, ValuesOK, IdInv, WireInv, Publish,
                  BeforePublish,
         Working, WorkerPCs, Requests, Ids
<1>2. sent \in [Ids -> Nat] /\ sent[worker_request.id] = 0
  <2>1. sent \in [Ids -> Nat]
    BY DEF IInv, TypeOK, ValuesOK
  <2>2. ~(worker_request.id < worker_request.id)
    BY <1>1 DEF Ids
  <2>3. ~(sent[worker_request.id] > 0)
    BY <1>1, <2>2
  <2> QED
    BY <1>1, <2>1, <2>3
<1>3. UNCHANGED <<mqtt_next_operation_id, FellBack>>
  BY DEF Publish, FellBack
<1>4. CASE ~d
  BY <1>3, <1>4 DEF Publish, Once
<1>5. CASE d
  <2>1. \A j \in Ids : sent'[j] = IF j = worker_request.id THEN 1 ELSE sent[j]
    BY <1>1, <1>2, <1>5 DEF Publish
  <2>2. Once' = Once \cup {worker_request.id}
    BY <1>1, <1>2, <2>1 DEF Once
  <2>3. \A j \in Once : j < worker_request.id
    BY <1>1 DEF Once
  <2> QED
    BY <1>1, <1>3, <2>2, <2>3 DEF Channel!Deliver
<1> QED
  BY <1>4, <1>5

\* A fallback leaves the channel alone, or is the first of the request that was
\* delivered last.
LEMMA FallbackFallsBack ==
  ASSUME IInv, NEW d \in BOOLEAN, NEW a \in BOOLEAN, NEW ok \in LockOutcomes,
         PublishFallback(d, a, ok)
  PROVE  (\E i \in 1..mqtt_next_operation_id : Channel!FallBack(i))
           \/ UNCHANGED <<mqtt_next_operation_id, Once, FellBack>>
<1> USE DEF operation_vars
<1>1. worker = "fallback"
  BY DEF PublishFallback, WorkerEnds
<1>2. Typing /\ FallbackInv /\ IdInv /\ WireInv
  BY TypingFollows DEF IInv, Strengthening
<1>3. worker_request.id \in 1..mqtt_next_operation_id /\ worker_request.id \in Ids
  BY <1>1, <1>2 DEF Typing, IdInv, Working, WorkerPCs, Requests, Ids
<1>4. /\ sent[worker_request.id] > 0 /\ fallbacks[worker_request.id] = 0
      /\ \A j \in Ids : sent[j] > 0 => j <= worker_request.id
  BY <1>1, <1>2 DEF FallbackInv, Monitoring
<1>5. fallbacks \in [Ids -> Nat] /\ sent \in [Ids -> Nat]
  BY DEF IInv, TypeOK, ValuesOK
<1>6. UNCHANGED <<mqtt_next_operation_id, Once>>
  BY DEF PublishFallback, RecordFallback, Once
<1>7. CASE ~d
  BY <1>6, <1>7 DEF PublishFallback, CountFallback, FellBack
<1>8. CASE d
  <2>1. \A j \in Ids : fallbacks'[j] = IF j = worker_request.id THEN 1 ELSE fallbacks[j]
    BY <1>3, <1>4, <1>5, <1>8 DEF PublishFallback, CountFallback
  <2>2. FellBack' = FellBack \cup {worker_request.id}
    BY <1>3, <2>1 DEF FellBack
  <2>3. worker_request.id \in Once \ FellBack
    <3>1. sent[worker_request.id] <= 1
      BY <1>2, <1>3 DEF WireInv
    <3> QED
      BY <1>3, <1>4, <1>5, <3>1 DEF Once, FellBack
  <2>4. \A j \in Once : j <= worker_request.id
    BY <1>4 DEF Once
  <2> QED
    BY <1>3, <1>6, <2>2, <2>3, <2>4 DEF Channel!FallBack
<1> QED
  BY <1>7, <1>8

\* The steering model implements RequestChannel: at most once, in order, and
\* with at most one fallback.
THEOREM Refinement == Spec => ImplementsChannel
<1>1. Init => Channel!Init
  BY DEF Init, Channel!Init, Once, FellBack, NoCounts, Ids
<1>2. IInv /\ [Next]_vars
        => [Channel!Next]_<<mqtt_next_operation_id, Once, FellBack>>
  <2> SUFFICES ASSUME IInv, [Next]_vars
               PROVE  \/ Channel!Next
                      \/ UNCHANGED <<mqtt_next_operation_id, Once, FellBack>>
    OBVIOUS
  <2>1. CASE UNCHANGED <<mqtt_next_operation_id, wire_vars>>
    BY <2>1 DEF Once, FellBack, wire_vars
  <2>2. CASE mqtt_next_operation_id' = mqtt_next_operation_id + 1 /\ UNCHANGED wire_vars
    BY <2>2 DEF Once, FellBack, wire_vars, Channel!Next, Channel!Accept
  <2>3. CASE \E d, a \in BOOLEAN : Publish(d, a)
    BY <2>3, PublishDelivers DEF Channel!Next
  <2>4. CASE \E d, a \in BOOLEAN, ok \in LockOutcomes : PublishFallback(d, a, ok)
    BY <2>4, FallbackFallsBack DEF Channel!Next
  <2>5. CASE Reboot
    BY <2>5 DEF Reboot, NoCounts, Ids, Once, FellBack, Channel!Next, Channel!Restart
  <2>6. CASE UNCHANGED vars
    BY <2>6, <2>1 DEF vars, operation_vars, history_vars
  <2> QED
    BY <2>1, <2>2, <2>3, <2>4, <2>5, <2>6, ChannelSteps
<1> QED
  BY <1>1, <1>2, Invariance, PTL DEF Spec, ImplementsChannel, Channel!Spec

================================================================================
