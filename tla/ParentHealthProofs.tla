---------------------------- MODULE ParentHealthProofs ----------------------------
(***************************************************************************)
(* What ParentHealth guarantees for any mesh, any bounds and any window.    *)
(*                                                                         *)
(* Types carries the rest.  LimitOK says that the cooldown the code reads,  *)
(* in RAM or restored from flash, outlives the window of the last recorded  *)
(* restart; EarnedOK, that a record never shows more failures than were     *)
(* charged; RecoveryOK, what a match stands for at each place of the        *)
(* collector.  These two need takes of topology_lock_mutex that succeed: a  *)
(* take that times out skips a write, and with it what they rest on.        *)
(* StopOK says which generations the worker has not noticed at each of its  *)
(* places, and that memory_mutex keeps new ones out while it sends.         *)
(***************************************************************************)
EXTENDS ParentHealth, TLAPS

--------------------------------------------------------------------------------
(* Records. *)

\* The constants, as the lemmas use them.
LEMMA Constants ==
  /\ Window \in Nat /\ ManualWindow \in 1..Window
  /\ MaxOutcomes \in Nat /\ MaxReboots \in Nat
  /\ None \notin Children /\ None \notin Parents /\ Automation \subseteq BOOLEAN
  /\ Wanted \in [Children -> SUBSET Parents]
  /\ PARENT_STEERING_FAILURE_THRESHOLD = 2 /\ MQTT_VERIFY_GENERATIONS = 2
BY HealthAssumption DEF HealthAssumption, PARENT_STEERING_FAILURE_THRESHOLD,
   MQTT_VERIFY_GENERATIONS

LEMMA Fields ==
  ASSUME NEW h \in Health
  PROVE  /\ h.target \in Parents \cup {None} /\ h.state \in HealthStates
         /\ h.failures \in 0..2 /\ h.matches \in 0..2 /\ h.operation \in 0..MaxOutcomes
BY Constants DEF Health

LEMMA PausedIs ==
  ASSUME NEW h \in Health
  PROVE  /\ Paused(h) \in Health /\ Paused(h).target = h.target
         /\ Paused(h).operation = h.operation
         /\ Paused(h).matches = 0 /\ Paused(h).failures = h.failures
<1> DEFINE s == IF h.state = "confirming" THEN "watching" ELSE h.state
<1>1. s \in HealthStates /\ 0 \in 0..2
  BY Fields DEF HealthStates
<1>2. Paused(h) = [h EXCEPT !.matches = 0, !.state = s]
  BY DEF Paused, Health
<1> HIDE DEF s
<1> QED
  BY <1>1, <1>2, Constants DEF Health

LEMMA ConfirmedIs ==
  ASSUME NEW h \in Health
  PROVE  /\ Confirmed(h) \in Health /\ Confirmed(h).target = h.target
         /\ h.matches = 0 => /\ Confirmed(h).matches = 1
                             /\ Confirmed(h).failures = h.failures
         /\ h.matches # 0 => /\ Confirmed(h).matches = 2
                             /\ Confirmed(h).failures = 0
<1>1. /\ "confirming" \in HealthStates /\ "resolved" \in HealthStates
      /\ 0 \in 0..2 /\ 1 \in 0..2 /\ 2 \in 0..2 /\ h.matches \in 0..2
  BY Fields DEF HealthStates
<1>2. CASE h.matches = 0
  <2>1. Confirmed(h) = [h EXCEPT !.matches = 1, !.state = "confirming"]
    BY <1>2, Constants DEF Confirmed, Health
  <2> QED
    BY <1>1, <1>2, <2>1, Constants DEF Health
<1>3. CASE h.matches # 0
  <2>1. Confirmed(h) = [h EXCEPT !.matches = 2, !.failures = 0, !.state = "resolved"]
    BY <1>1, <1>3, Constants DEF Confirmed
  <2> QED
    BY <1>1, <1>3, <2>1, Constants DEF Health
<1> QED
  BY <1>2, <1>3

LEMMA ReloadedIs ==
  ASSUME NEW h \in Health
  PROVE  /\ Reloaded(h) \in Health /\ Reloaded(h).target = h.target
         /\ Reloaded(h).matches = 0 /\ Reloaded(h).failures = h.failures
<1> DEFINE s == IF h.failures > 0 THEN "watching" ELSE "resolved"
<1>1. s \in HealthStates /\ 0 \in 0..2
  BY DEF HealthStates
<1>2. Reloaded(h) = [h EXCEPT !.matches = 0, !.state = s]
  BY DEF Reloaded
<1> HIDE DEF s
<1> QED
  BY <1>1, <1>2, Constants DEF Health

LEMMA NoneIs ==
  /\ NoHealth \in Health /\ NoHealth.target = None
  /\ NoHealth.failures = 0 /\ NoHealth.matches = 0
  /\ NoRestart \in Restarts /\ NoRestart.child = None
<1>1. 0 \in 0..2 /\ 0 \in 0..MaxOutcomes
  BY Constants
<1>2. NoHealth \in Health
  BY <1>1, Constants DEF NoHealth, Health, HealthStates
<1> QED
  BY <1>1, <1>2 DEF NoHealth, NoRestart, Restarts

\* The state of the child the worker is about; a request of none is left alone.
LEMMA MyStateIs ==
  ASSUME health \in [Children -> Health], NEW s \in HealthStates, SetMyState(s)
  PROVE  /\ health' \in [Children -> Health]
         /\ \A c \in Children : /\ health'[c].failures = health[c].failures
                                /\ health'[c].matches = health[c].matches
                                /\ health'[c].target = health[c].target
<1>1. ASSUME NEW c \in Children
      PROVE  health'[c] \in {health[c], [health[c] EXCEPT !.state = s]}
  BY <1>1 DEF SetMyState
<1>2. \A c \in Children : health[c] \in Health
  OBVIOUS
<1>3. \A c \in Children : /\ health'[c] \in Health
                          /\ health'[c].failures = health[c].failures
                          /\ health'[c].matches = health[c].matches
                          /\ health'[c].target = health[c].target
  BY <1>1, <1>2 DEF Health
<1>4. DOMAIN health' = Children /\ health' = [c \in DOMAIN health' |-> health'[c]]
  BY DEF SetMyState
<1> QED
  BY <1>3, <1>4

--------------------------------------------------------------------------------
(* The steps, task by task. *)

CollectorStep ==
  \/ CollectorRuns \/ StoreFresh \/ EndUnusable \/ NoRefresh \/ RecordSome
  \/ \E observed \in Topologies : StoreDegraded(observed.online)

WorkerStep == TakeRequest \/ WorkerRuns

HttpStep == HttpRuns \/ \E p \in Manual : ManualRestart(p)

LEMMA Steps ==
  Next <=> \/ CollectorStep \/ WorkerStep \/ HttpStep
           \/ (\E enabled \in Automation : SetMode(enabled))
           \/ Tick \/ SyncClock \/ Reboot
BY DEF Next, CollectorStep, WorkerStep, HttpStep

LEMMA CollectorFrame == CollectorStep => CollectorKeeps
BY DEF CollectorStep, CollectorRuns, BeginCollect, BeginEvaluation, Evaluate,
       Resume, Visit, SkipEvaluation, DropCandidate, StoreFresh, StoreActionable,
       EndUnusable, NoRefresh, LoseRouter, RecordSome, RecordOutcome, StoreDegraded

LEMMA WorkerFrame == WorkerStep => WorkerKeeps
BY DEF WorkerStep, TakeRequest, WorkerRuns, GiveUp, Reserve, EnterWorkspace,
       CheckGates, LoseTurn, Recheck, Finish, Send

LEMMA HttpFrame == HttpStep => HttpKeeps
BY DEF HttpStep, HttpRuns, ManualWorkspace, ManualReserve, ManualErase, ManualSend,
       ManualRestart

\* What a worker step other than those that end its reservation leaves alone.
LEMMA WorkerSteps ==
  WorkerStep <=>
    \/ TakeRequest \/ GiveUp \/ Reserve \/ EnterWorkspace
    \/ (\E ok \in LockOutcomes : CheckGates(ok)) \/ (\E ok \in LockOutcomes : LoseTurn(ok))
    \/ (\E ok \in LockOutcomes : Recheck(ok)) \/ (\E ok \in LockOutcomes : Finish(ok))
    \/ (\E delivered, accepted \in BOOLEAN : Send(delivered, accepted))
BY DEF WorkerStep, WorkerRuns

--------------------------------------------------------------------------------
(* Types of the records. *)

RecordsType ==
  /\ health \in [Children -> Health] /\ request \in Restarts
  /\ last_operation \in 0..MaxOutcomes /\ worker_restart \in Restarts

LEMMA UpdateType ==
  ASSUME health \in [Children -> Health], NEW c \in Children, NEW h \in Health,
         health' = [health EXCEPT ![c] = h]
  PROVE  /\ health' \in [Children -> Health] /\ health'[c] = h
         /\ \A d \in Children : d # c => health'[d] = health[d]
OBVIOUS

\* The record after Observe, and the request.
LEMMA ObserveIs ==
  ASSUME RecordsType, NEW c \in Children, Observe(c)
  PROVE  /\ health' \in [Children -> Health] /\ request' \in Restarts
         /\ \A d \in Children : d # c => health'[d] = health[d]
         /\ health'[c].target = health[c].target
         /\ health'[c].failures = health[c].failures
         /\ health'[c].matches = IF evaluation.kind = "fresh" THEN 0
                                 ELSE health[c].matches
<1> DEFINE h == IF evaluation.kind = "fresh" THEN Paused(health[c]) ELSE health[c]
           rest == h.state = "parent-restarting" /\ h.failures = 0
           due  == /\ h.state # "confirming" /\ ~rest
                   /\ h.failures >= PARENT_STEERING_FAILURE_THRESHOLD
           g == IF due THEN [h EXCEPT !.state = Decided(c, h)]
                ELSE IF rest /\ GlobalLeft = 0 THEN [h EXCEPT !.state = "resolved"]
                ELSE h
           asked == [child |-> c, parent |-> h.target, operation |-> h.operation]
<1>1. health[c] \in Health
  BY DEF RecordsType
<1>2. /\ h \in Health /\ h.target = health[c].target
      /\ h.failures = health[c].failures
      /\ h.matches = IF evaluation.kind = "fresh" THEN 0 ELSE health[c].matches
  BY <1>1, PausedIs
<1>3. health' = [health EXCEPT ![c] = g]
  BY Zenon DEF Observe
<1>4. request' \in {asked, request}
  BY Zenon DEF Observe
<1> HIDE DEF h
<1>5. asked \in Restarts
  BY <1>2, Fields DEF Restarts
<1>6. Decided(c, h) \in HealthStates /\ "resolved" \in HealthStates
  BY DEF Decided, HealthStates
<1>7. \A s \in HealthStates :
        /\ [h EXCEPT !.state = s] \in Health
        /\ [h EXCEPT !.state = s].target = h.target
        /\ [h EXCEPT !.state = s].failures = h.failures
        /\ [h EXCEPT !.state = s].matches = h.matches
  BY <1>2 DEF Health
<1>8. g \in {h, [h EXCEPT !.state = Decided(c, h)], [h EXCEPT !.state = "resolved"]}
  OBVIOUS
<1> HIDE DEF g, asked
<1>9. /\ g \in Health /\ g.target = h.target /\ g.failures = h.failures
      /\ g.matches = h.matches
  <2>1. /\ [h EXCEPT !.state = Decided(c, h)] \in Health
        /\ [h EXCEPT !.state = Decided(c, h)].target = h.target
        /\ [h EXCEPT !.state = Decided(c, h)].failures = h.failures
        /\ [h EXCEPT !.state = Decided(c, h)].matches = h.matches
    BY <1>6, <1>7, Zenon
  <2>2. /\ [h EXCEPT !.state = "resolved"] \in Health
        /\ [h EXCEPT !.state = "resolved"].target = h.target
        /\ [h EXCEPT !.state = "resolved"].failures = h.failures
        /\ [h EXCEPT !.state = "resolved"].matches = h.matches
    BY <1>6, <1>7, Zenon
  <2> QED
    BY <1>2, <1>8, <2>1, <2>2
<1> QED
  BY <1>2, <1>3, <1>4, <1>5, <1>9, UpdateType DEF RecordsType

\* What a round of the loop does to the record it visits.
LEMMA VisitIs ==
  ASSUME RecordsType, NEW c \in Children, Visit(c)
  PROVE  /\ health' \in [Children -> Health] /\ request' \in Restarts
         /\ \A d \in Children : d # c => health'[d] = health[d]
         /\ health'[c].target = health[c].target
         /\ \/ /\ Matches(c) /\ health'[c] = Confirmed(health[c])
            \/ /\ health'[c].failures = health[c].failures
               /\ health'[c].matches = IF evaluation.kind = "stale"
                                       THEN health[c].matches ELSE 0
            \/ evaluation.kind \notin EvaluationKinds
<1>1. health[c] \in Health
  BY DEF RecordsType
<1>2. CASE evaluation.kind = "invalid" /\ health' = [health EXCEPT ![c] = Paused(@)]
           /\ UNCHANGED request
  <2>1. health' = [health EXCEPT ![c] = Paused(health[c])]
    BY <1>2
  <2> QED
    BY <1>1, <1>2, <2>1, PausedIs, UpdateType DEF RecordsType
<1>3. CASE Matches(c) /\ health' = [health EXCEPT ![c] = Confirmed(@)]
           /\ request' \in {NoRestart, request}
  <2>1. health' = [health EXCEPT ![c] = Confirmed(health[c])]
    BY <1>3
  <2> QED
    BY <1>1, <1>3, <2>1, ConfirmedIs, NoneIs, UpdateType DEF RecordsType
<1>4. CASE evaluation.kind # "invalid" /\ Observe(c)
  BY <1>4, ObserveIs DEF EvaluationKinds
<1> QED
  BY <1>2, <1>3, <1>4 DEF Visit

\* What an outcome does to the record of its child.
LEMMA OutcomeIs ==
  ASSUME RecordsType, NEW c \in Children, NEW p \in Wanted[c],
         NEW verified \in BOOLEAN, RecordOutcome(c, p, verified)
  PROVE  /\ health' \in [Children -> Health]
         /\ \A d \in Children : d # c => health'[d] = health[d]
         /\ health'[c].target = p /\ health'[c].matches = 0
         /\ \/ health'[c].failures = 0
            \/ ~verified /\ health'[c].failures <= health[c].failures + 1
<1> DEFINE old    == health[c]
           kept   == IF old.target \in {p, None} THEN old ELSE [old EXCEPT !.failures = 0]
           failed == Charge(kept)
           state  == IF verified THEN "resolved"
                     ELSE IF failed >= PARENT_STEERING_FAILURE_THRESHOLD
                     THEN "restart-eligible" ELSE "watching"
           after  == IF verified THEN 0 ELSE failed
           g == [target |-> p, state |-> state, failures |-> after, matches |-> 0,
                 operation |-> last_operation + 1]
<1>1. old \in Health /\ p \in Parents
  BY Constants DEF RecordsType
<1>2. kept.failures \in 0..2 /\ kept.failures <= old.failures
  BY <1>1, Fields DEF Health
<1>3. failed \in 0..2 /\ failed <= old.failures + 1
  BY <1>1, <1>2, Fields, Constants DEF Charge
<1>4. health' = [health EXCEPT ![c] = g] /\ last_operation < MaxOutcomes
  BY Zenon DEF RecordOutcome
<1> HIDE DEF failed
<1>5. /\ state \in HealthStates /\ after \in 0..2
      /\ after = 0 \/ (~verified /\ after <= health[c].failures + 1)
      /\ last_operation + 1 \in 0..MaxOutcomes
  <2>1. state \in HealthStates
    BY DEF HealthStates
  <2>2. last_operation + 1 \in 0..MaxOutcomes
    BY <1>4, Constants DEF RecordsType
  <2> HIDE DEF state
  <2>3. CASE verified
    <3>1. after = 0
      BY <2>3
    <3> HIDE DEF after
    <3> QED
      BY <2>1, <2>2, <3>1
  <2>4. CASE ~verified
    <3>1. after = failed
      BY <2>4
    <3> HIDE DEF after
    <3> QED
      BY <1>3, <2>1, <2>2, <2>4, <3>1
  <2> QED
    BY <2>3, <2>4
<1> HIDE DEF state, after
<1>6. g \in Health
  BY <1>1, <1>5, Constants DEF Health
<1>7. g.target = p /\ g.matches = 0 /\ g.failures = after
  OBVIOUS
<1> HIDE DEF g
<1> QED
  BY <1>4, <1>5, <1>6, <1>7, UpdateType DEF RecordsType

LEMMA FinishIs ==
  ASSUME RecordsType, NEW ok, Finish(ok)
  PROVE  /\ health' \in [Children -> Health]
         /\ request' \in {request, NoRestart}
         /\ \A c \in Children :
              /\ health'[c].matches = health[c].matches
              /\ health'[c].target = health[c].target
              /\ \/ health'[c].failures = health[c].failures
                    /\ ~(ok /\ worker_accepted /\ worker_restart.child = c)
                 \/ health'[c].failures = 0 /\ worker_restart.child = c
<1>1. CASE ok /\ worker_accepted
  <2> DEFINE k == worker_restart.child
  <2>1. health' = [health EXCEPT ![k].state = "parent-restarting", ![k].failures = 0]
    BY <1>1, Zenon DEF Finish, RecordRestart
  <2>2. request' = NoRestart
    BY <1>1 DEF Finish, RecordRestart
  <2>3. DOMAIN health' = Children /\ health' = [c \in DOMAIN health' |-> health'[c]]
    BY <2>1 DEF RecordsType
  <2> HIDE DEF k
  <2>4. \A c \in Children : c # k => health'[c] = health[c]
    BY <2>1 DEF RecordsType
  <2>5. \A c \in Children :
          c = k => health'[c] = [health[c] EXCEPT !.state = "parent-restarting",
                                                  !.failures = 0]
    BY <2>1 DEF RecordsType, Health
  <2>6. \A c \in Children :
          /\ health'[c] \in Health
          /\ health'[c].matches = health[c].matches
          /\ health'[c].target = health[c].target
          /\ IF c = k THEN health'[c].failures = 0
             ELSE health'[c].failures = health[c].failures
    <3> SUFFICES ASSUME NEW c \in Children
                 PROVE  /\ health'[c] \in Health
                        /\ health'[c].matches = health[c].matches
                        /\ health'[c].target = health[c].target
                        /\ IF c = k THEN health'[c].failures = 0
                           ELSE health'[c].failures = health[c].failures
      OBVIOUS
    <3>1. health[c] \in Health
      BY DEF RecordsType
    <3>2. CASE c # k
      BY <2>4, <3>1, <3>2
    <3>3. CASE c = k
      <4>1. health'[c] = [health[c] EXCEPT !.state = "parent-restarting", !.failures = 0]
        BY <2>5, <3>3
      <4>2. "parent-restarting" \in HealthStates /\ 0 \in 0..2
        BY DEF HealthStates
      <4> QED
        BY <3>1, <3>3, <4>1, <4>2, Constants DEF Health
    <3> QED
      BY <3>2, <3>3
  <2> QED
    BY <2>2, <2>3, <2>6 DEF k
<1>2. CASE ok /\ ~worker_accepted
  <2>1. SetMyState("restart-failed") /\ request' = NoRestart
    BY <1>2 DEF Finish, RecordRestart
  <2>2. "restart-failed" \in HealthStates
    BY DEF HealthStates
  <2> QED
    BY <1>2, <2>1, <2>2, MyStateIs DEF RecordsType
<1>3. CASE ~ok
  BY <1>3 DEF Finish, records, RecordsType
<1> QED
  BY <1>1, <1>2, <1>3

\* The other steps of the worker change states only.
LEMMA WorkerStates ==
  ASSUME RecordsType, WorkerStep, ~ \E ok \in LockOutcomes : Finish(ok)
  PROVE  /\ health' \in [Children -> Health] /\ request' \in {request, NoRestart}
         /\ worker_restart' \in {request, worker_restart, NoRestart}
         /\ \A c \in Children : /\ health'[c].failures = health[c].failures
                                /\ health'[c].matches = health[c].matches
                                /\ health'[c].target = health[c].target
<1> USE DEF records, WorkerIdle
<1>1. {"blocked", "cooldown", "parent-restarting"} \subseteq HealthStates
  BY DEF HealthStates
<1>2. CASE GiveUp
  <2>1. CASE UNCHANGED health
    BY <1>2, <2>1 DEF GiveUp, Block, RecordsType
  <2>2. CASE Block
    <3>1. PICK s \in HealthStates : SetMyState(s)
      BY <1>1, <2>2 DEF Block
    <3> QED
      BY <1>2, <2>2, <3>1, MyStateIs DEF GiveUp, Block, RecordsType
  <2> QED
    BY <1>2, <2>1, <2>2 DEF GiveUp
<1>3. CASE Reserve
  <2>1. SetMyState("parent-restarting") /\ UNCHANGED <<request, worker_restart>>
    BY <1>3 DEF Reserve
  <2> QED
    BY <1>1, <2>1, MyStateIs DEF RecordsType
<1>4. CASE ~ GiveUp /\ ~ Reserve
  <2>1. UNCHANGED health
    BY <1>4, WorkerSteps DEF TakeRequest, EnterWorkspace, CheckGates, LoseTurn,
                             Recheck, Send
  <2>2. /\ request' \in {request, NoRestart}
        /\ worker_restart' \in {request, worker_restart, NoRestart}
    BY <1>4, WorkerSteps DEF TakeRequest, EnterWorkspace, CheckGates, LoseTurn,
                             Recheck, Send
  <2> QED
    BY <2>1, <2>2 DEF RecordsType
<1> QED
  BY <1>2, <1>3, <1>4

LEMMA RebootRecords ==
  ASSUME RecordsType, Reboot
  PROVE  /\ RecordsType'
         /\ \A c \in Children : /\ health'[c].failures = health[c].failures
                                /\ health'[c].matches = 0
                                /\ health'[c].target = health[c].target
<1>1. health' = [c \in Children |-> Reloaded(health[c])]
  BY DEF Reboot
<1>2. \A c \in Children : health[c] \in Health
  BY DEF RecordsType
<1>3. request' = NoRestart /\ worker_restart' = NoRestart /\ last_operation' = 0
  BY DEF Reboot, WorkerIdle
<1> QED
  BY <1>1, <1>2, <1>3, ReloadedIs, NoneIs, Constants DEF RecordsType

LEMMA RecordsTypeKept == RecordsType /\ [Next]_vars => RecordsType'
<1> SUFFICES ASSUME RecordsType, [Next]_vars PROVE RecordsType'
  OBVIOUS
<1> USE DEF records, outcome_vars, worker_vars
<1>1. CASE CollectorStep
  <2>1. UNCHANGED worker_restart
    BY <1>1, CollectorFrame DEF CollectorKeeps
  <2>2. ASSUME NEW c \in Children, Visit(c) PROVE RecordsType'
    <3>1. UNCHANGED last_operation
      BY <2>2 DEF Visit
    <3> QED
      BY <2>1, <2>2, <3>1, VisitIs DEF RecordsType
  <2>3. CASE RecordSome
    <3>0. PICK c \in Children, verified \in BOOLEAN :
            \E p \in Wanted[c] : RecordOutcome(c, p, verified)
      BY <2>3, Zenon DEF RecordSome
    <3>1. PICK p \in Wanted[c] : RecordOutcome(c, p, verified)
      BY <3>0
    <3>2. /\ last_operation < MaxOutcomes /\ last_operation' = last_operation + 1
          /\ UNCHANGED request
      BY <3>1 DEF RecordOutcome
    <3> QED
      BY <2>1, <3>1, <3>2, OutcomeIs, Constants DEF RecordsType
  <2>4. CASE UNCHANGED <<records, last_operation>>
    BY <2>1, <2>4 DEF RecordsType
  <2> QED
    BY <1>1, <2>2, <2>3, <2>4
       DEF CollectorStep, CollectorRuns, BeginCollect, BeginEvaluation, Evaluate,
           Resume, SkipEvaluation, DropCandidate, StoreFresh, StoreActionable,
           EndUnusable, NoRefresh, LoseRouter, StoreDegraded
<1>2. CASE WorkerStep
  <2>1. UNCHANGED last_operation
    BY <1>2, WorkerFrame DEF WorkerKeeps
  <2>2. ASSUME NEW ok \in LockOutcomes, Finish(ok) PROVE RecordsType'
    BY <2>1, <2>2, FinishIs, NoneIs DEF RecordsType, Finish, WorkerIdle
  <2>3. CASE ~ \E ok \in LockOutcomes : Finish(ok)
    BY <1>2, <2>1, <2>3, WorkerStates, NoneIs DEF RecordsType
  <2> QED
    BY <2>2, <2>3
<1>3. CASE HttpStep
  BY <1>3, HttpFrame DEF HttpKeeps, RecordsType
<1>4. CASE \E enabled \in Automation : SetMode(enabled)
  BY <1>4 DEF SetMode, RecordsType
<1>5. CASE Tick \/ SyncClock
  BY <1>5 DEF Tick, SyncClock, RecordsType
<1>6. CASE Reboot
  BY <1>6, RebootRecords
<1>7. CASE UNCHANGED vars
  BY <1>7 DEF vars, RecordsType
<1> QED
  BY <1>1, <1>2, <1>3, <1>4, <1>5, <1>6, <1>7, Steps

--------------------------------------------------------------------------------
(* Types of the clocks and cooldowns. *)

CooldownType ==
  /\ restart_age \in [Parents -> 0..Window]
  /\ restart_since \in 0..Window /\ boot_age \in 0..Window /\ gap \in 0..Window
  /\ seen \in BOOLEAN /\ epoch_known \in BOOLEAN /\ clock_set \in BOOLEAN
  /\ limited \in BOOLEAN

LEMMA OlderIs ==
  ASSUME NEW age \in 0..Window
  PROVE  Older(age) \in 0..Window /\ Older(age) >= age
BY Constants DEF Older

LEMMA StampType ==
  ASSUME CooldownType, NEW p, Stamp(p)
  PROVE  restart_age' \in [Parents -> 0..Window]
<1>1. restart_age' = [restart_age EXCEPT ![p] = 0] /\ 0 \in 0..Window
  BY Constants DEF Stamp
<1> QED
  BY <1>1 DEF CooldownType

LEMMA CooldownTypeKept == CooldownType /\ [Next]_vars => CooldownType'
<1> SUFFICES ASSUME CooldownType, [Next]_vars PROVE CooldownType'
  OBVIOUS
<1>0. 0 \in 0..Window /\ Window \in 0..Window
  BY Constants
<1> USE DEF cooldown_vars, clock_vars, gap_vars
<1>1. CASE CollectorStep
  BY <1>1, CollectorFrame DEF CollectorKeeps, CooldownType
<1>2. CASE WorkerStep
  <2>1. UNCHANGED clock_vars
    BY <1>2, WorkerFrame DEF WorkerKeeps
  <2>2. CASE Reserve
    BY <2>1, <2>2, StampType DEF Reserve, CooldownType
  <2>3. ASSUME NEW ok \in LockOutcomes, Finish(ok) PROVE CooldownType'
    <3>1. CASE ok
      <4>1. seen' = TRUE /\ restart_since' = 0 /\ epoch_known' = clock_set
            /\ limited' = TRUE /\ UNCHANGED gap
        BY <2>3, <3>1 DEF Finish, RecordRestart
      <4>2. restart_age' \in [Parents -> 0..Window]
        <5>1. CASE worker_accepted
          BY <2>3, <3>1, <5>1, StampType DEF Finish, RecordRestart
        <5>2. CASE ~worker_accepted
          BY <2>3, <3>1, <5>2 DEF Finish, RecordRestart, CooldownType
        <5> QED
          BY <5>1, <5>2
      <4> QED
        BY <1>0, <2>1, <4>1, <4>2 DEF CooldownType
    <3>2. CASE ~ok
      BY <2>1, <2>3, <3>2 DEF Finish, CooldownType
    <3> QED
      BY <3>1, <3>2
  <2>4. ASSUME NEW delivered, NEW accepted, Send(delivered, accepted)
        PROVE  CooldownType'
    <3>1. gap' \in {0, gap} /\ limited' \in {FALSE, limited}
      BY <2>4 DEF Send
    <3>2. UNCHANGED cooldown_vars
      BY <2>4 DEF Send
    <3> QED
      BY <1>0, <2>1, <3>1, <3>2 DEF CooldownType
  <2>5. CASE UNCHANGED <<cooldown_vars, gap_vars>>
    BY <2>1, <2>5 DEF CooldownType
  <2> QED
    BY <1>2, <2>2, <2>3, <2>4, <2>5, WorkerSteps
       DEF TakeRequest, GiveUp, EnterWorkspace, CheckGates, LoseTurn, Recheck
<1>3. CASE HttpStep
  <2>1. UNCHANGED <<seen, restart_since, epoch_known, clock_vars, gap_vars>>
    BY <1>3, HttpFrame DEF HttpKeeps
  <2>2. \E p, age : /\ age \in {0, Window}
                    /\ restart_age' \in {restart_age, [restart_age EXCEPT ![p] = age]}
    BY <1>3 DEF HttpStep, HttpRuns, ManualWorkspace, ManualReserve, ManualErase,
                ManualSend, ManualRestart
  <2>3. restart_age' \in [Parents -> 0..Window]
    BY <1>0, <2>2 DEF CooldownType
  <2> QED
    BY <2>1, <2>3 DEF CooldownType
<1>4. CASE \E enabled \in Automation : SetMode(enabled)
  BY <1>4 DEF SetMode, CooldownType
<1>5. CASE Tick
  <2>1. UNCHANGED <<seen, epoch_known, clock_set, limited>>
    BY <1>5 DEF Tick
  <2>2. restart_age' = [p \in Parents |-> Older(restart_age[p])]
    BY <1>5 DEF Tick
  <2>3. /\ restart_since' = Older(restart_since) /\ boot_age' = Older(boot_age)
        /\ gap' = Older(gap)
    BY <1>5 DEF Tick
  <2> QED
    BY <2>1, <2>2, <2>3, OlderIs DEF CooldownType
<1>6. CASE SyncClock
  BY <1>6 DEF SyncClock, CooldownType
<1>7. CASE Reboot
  <2>1. limited' \in BOOLEAN
    BY <1>7, Zenon DEF Reboot
  <2>2. /\ restart_age' = [p \in Parents |-> Window] /\ seen' = FALSE
        /\ boot_age' = 0 /\ clock_set' = FALSE
        /\ UNCHANGED <<restart_since, epoch_known, gap>>
    BY <1>7 DEF Reboot
  <2> QED
    BY <1>0, <2>1, <2>2 DEF CooldownType
<1>8. CASE UNCHANGED vars
  BY <1>8 DEF vars, CooldownType
<1> QED
  BY <1>1, <1>2, <1>3, <1>4, <1>5, <1>6, <1>7, <1>8, Steps

--------------------------------------------------------------------------------
(* Types of the tasks and of what they share. *)

Generations == Topologies \cup {Degraded(ps) : ps \in SUBSET Parents}

TasksType ==
  /\ snapshot \in Generations
  /\ router_connected \in BOOLEAN /\ automation \in BOOLEAN
  /\ memory \in {"free", "collector", "worker", "http"}
  /\ collector \in CollectorPCs /\ todo \subseteq Children
  /\ evaluation \in [kind : EvaluationKinds, automation : BOOLEAN]
  /\ worker \in WorkerPCs
  /\ worker_blocked \in BOOLEAN /\ worker_accepted \in BOOLEAN
  /\ http \in HttpPCs /\ http_node \in Parents \cup {None}
  /\ http_behind \in BOOLEAN
  /\ reboots \in 0..MaxReboots /\ operation_ran \in BOOLEAN

LEMMA Places ==
  /\ {"idle", "collecting", "stored", "outcome", "stored-degraded", "failed", "stale",
      "fresh", "invalid"} \subseteq CollectorPCs
  /\ {"idle", "gates", "reserve", "workspace", "recheck", "send", "finish"}
       \subseteq WorkerPCs
  /\ {"idle", "reserve", "workspace", "send", "erase"} \subseteq HttpPCs
  /\ {"invalid", "stale", "fresh"} \subseteq EvaluationKinds
BY DEF CollectorPCs, WorkerPCs, Reserved, HttpPCs, EvaluationKinds

LEMMA DegradedIs ==
  ASSUME NEW ps \in SUBSET Parents
  PROVE  /\ Degraded(ps) \in Generations
         /\ \A c \in Children : Degraded(ps).attached[c] = None
BY DEF Generations, Degraded

LEMMA CollectorTasks ==
  ASSUME TasksType, CollectorStep
  PROVE  TasksType'
<1>1. UNCHANGED <<automation, worker_vars, http_vars, reboots>>
  BY CollectorFrame DEF CollectorKeeps
<1>2. snapshot' \in Generations
  <2>1. \A observed \in Topologies : observed.online \in SUBSET Parents
    BY HealthAssumption DEF HealthAssumption
  <2>2. ASSUME NEW observed \in Topologies, StoreDegraded(observed.online)
        PROVE  snapshot' \in Generations
    BY <2>1, <2>2, DegradedIs DEF StoreDegraded
  <2>3. CASE StoreFresh
    BY <2>3 DEF StoreFresh, StoreActionable, Generations
  <2>4. CASE UNCHANGED snapshot
    BY <2>4 DEF TasksType
  <2> QED
    BY <2>2, <2>3, <2>4
       DEF CollectorStep, CollectorRuns, BeginCollect, BeginEvaluation, Evaluate,
           Resume, Visit, SkipEvaluation, DropCandidate, EndUnusable, NoRefresh,
           LoseRouter, RecordSome, RecordOutcome, topology_vars
<1>3. /\ router_connected' \in {TRUE, FALSE, router_connected}
      /\ memory' \in {"free", "collector", memory}
      /\ collector' \in CollectorPCs
      /\ operation_ran' \in {FALSE, operation_ran}
  BY Places
     DEF CollectorStep, CollectorRuns, BeginCollect, BeginEvaluation, Evaluate,
         Resume, Visit, SkipEvaluation, DropCandidate, StoreFresh, StoreActionable,
         EndUnusable, NoRefresh, LoseRouter, RecordSome, RecordOutcome,
         StoreDegraded, topology_vars, outcome_vars, TasksType
<1>4. /\ todo' \subseteq Children
      /\ evaluation' \in [kind : EvaluationKinds, automation : BOOLEAN]
  <2>1. ASSUME NEW from, NEW kind \in EvaluationKinds, NEW to, Evaluate(from, kind, to)
        PROVE  /\ todo' \subseteq Children
               /\ evaluation' \in [kind : EvaluationKinds, automation : BOOLEAN]
    <3>1. PICK ok \in LockOutcomes :
            evaluation' = [kind |-> kind, automation |-> automation /\ ok]
      BY <2>1 DEF Evaluate
    <3>2. (automation /\ ok) \in BOOLEAN
      BY Zenon
    <3>3. todo' \subseteq Children
      BY <2>1 DEF Evaluate
    <3> QED
      BY <3>1, <3>2, <3>3, Zenon
  <2>2. CASE BeginEvaluation
    BY <2>1, <2>2, Places DEF BeginEvaluation
  <2>3. ASSUME NEW c \in Children, Visit(c)
        PROVE  /\ todo' \subseteq Children
               /\ evaluation' \in [kind : EvaluationKinds, automation : BOOLEAN]
    BY <2>3 DEF Visit, TasksType
  <2>4. CASE UNCHANGED loop_vars
    BY <2>4 DEF loop_vars, TasksType
  <2> QED
    BY <2>2, <2>3, <2>4
       DEF CollectorStep, CollectorRuns, BeginCollect, Resume, SkipEvaluation,
           DropCandidate, StoreFresh, StoreActionable, EndUnusable, NoRefresh,
           LoseRouter, RecordSome, RecordOutcome, StoreDegraded
<1> QED
  BY <1>1, <1>2, <1>3, <1>4, ZenonT(60) DEF TasksType, worker_vars, http_vars

LEMMA WorkerTasks ==
  ASSUME TasksType, WorkerStep
  PROVE  TasksType'
<1>1. UNCHANGED <<topology_vars, automation, collector_vars, reboots, operation_ran>>
  BY WorkerFrame DEF WorkerKeeps
<1>2. /\ worker' \in WorkerPCs /\ memory' \in {"free", "worker", memory}
  BY WorkerSteps, Places
     DEF TakeRequest, GiveUp, Reserve, EnterWorkspace, CheckGates, LoseTurn,
         Recheck, Finish, Send, WorkerIdle, TasksType
<1>3. worker_blocked' \in BOOLEAN
  <2>1. ASSUME NEW ok, CheckGates(ok) PROVE worker_blocked' \in BOOLEAN
    BY <2>1, Zenon DEF CheckGates
  <2>2. CASE worker_blocked' \in {FALSE, worker_blocked}
    BY <2>2 DEF TasksType
  <2> QED
    BY <2>1, <2>2, WorkerSteps
       DEF TakeRequest, GiveUp, Reserve, EnterWorkspace, LoseTurn, Recheck, Finish,
           Send, WorkerIdle
<1>4. worker_accepted' \in BOOLEAN
  <2>1. ASSUME NEW delivered, NEW accepted \in BOOLEAN, Send(delivered, accepted)
        PROVE  worker_accepted' \in BOOLEAN
    BY <2>1 DEF Send
  <2>2. CASE worker_accepted' \in {FALSE, worker_accepted}
    BY <2>2 DEF TasksType
  <2> QED
    BY <2>1, <2>2, WorkerSteps
       DEF TakeRequest, GiveUp, Reserve, EnterWorkspace, LoseTurn, CheckGates,
           Recheck, Finish, WorkerIdle
<1>5. UNCHANGED <<http, http_node>> /\ http_behind' \in {TRUE, http_behind}
  BY WorkerSteps
     DEF TakeRequest, GiveUp, Reserve, EnterWorkspace, LoseTurn, CheckGates,
         Recheck, Finish, RecordRestart, Stamp, Send, http_vars
<1> QED
  BY <1>1, <1>2, <1>3, <1>4, <1>5
     DEF TasksType, topology_vars, collector_vars, loop_vars

LEMMA TasksTypeKept == TasksType /\ [Next]_vars => TasksType'
<1> SUFFICES ASSUME TasksType, [Next]_vars PROVE TasksType'
  OBVIOUS
<1> USE DEF topology_vars, collector_vars, loop_vars, worker_vars, http_vars, outcome_vars
<1>1. CASE CollectorStep
  BY <1>1, CollectorTasks
<1>2. CASE WorkerStep
  BY <1>2, WorkerTasks
<1>3. CASE HttpStep
  <2>1. UNCHANGED <<topology_vars, automation, collector_vars, worker_vars, reboots,
                    operation_ran>>
    BY <1>3, HttpFrame DEF HttpKeeps
  <2>2. /\ http' \in HttpPCs /\ http_node' \in {http_node, None} \cup Manual
        /\ http_behind' \in {FALSE, http_behind} /\ memory' \in {"free", "http", memory}
    BY <1>3, Places
       DEF HttpStep, HttpRuns, ManualWorkspace, ManualReserve, ManualErase,
           ManualSend, ManualRestart, HttpIdle, TasksType
  <2>3. Manual \subseteq Parents
    BY HealthAssumption DEF HealthAssumption
  <2> QED
    BY <2>1, <2>2, <2>3, ZenonT(60) DEF TasksType
<1>4. ASSUME NEW enabled \in Automation, SetMode(enabled) PROVE TasksType'
  BY <1>4, Constants DEF SetMode, TasksType
<1>5. CASE Tick
  BY <1>5 DEF Tick, TasksType
<1>6. CASE SyncClock
  BY <1>6 DEF SyncClock, TasksType
<1>7. CASE Reboot
  <2>1. /\ snapshot' = Degraded({}) /\ router_connected' = FALSE
        /\ memory' = "free" /\ collector' = "idle" /\ todo' = {}
        /\ evaluation' = [kind |-> "invalid", automation |-> FALSE]
        /\ worker' = "idle" /\ worker_blocked' = FALSE /\ worker_accepted' = FALSE
        /\ http' = "idle" /\ http_node' = None /\ http_behind' = FALSE
        /\ operation_ran' = FALSE /\ UNCHANGED automation
    BY <1>7 DEF Reboot, WorkerIdle, HttpIdle
  <2>2. reboots' \in 0..MaxReboots
    BY <1>7, Constants DEF Reboot, TasksType
  <2>3. Degraded({}) \in Generations
    BY DegradedIs
  <2> QED
    BY <2>1, <2>2, <2>3, Places DEF TasksType
<1>8. CASE UNCHANGED vars
  BY <1>8 DEF vars, TasksType
<1> QED
  BY <1>1, <1>2, <1>3, <1>4, <1>5, <1>6, <1>7, <1>8, Steps

--------------------------------------------------------------------------------
(* Types of the history. *)

HistoryType ==
  /\ charged \in [Children -> 0..2] /\ steady \in [Children -> 0..2]
  /\ returned \in 0..2

LEMMA HistoryTypeKept == HistoryType /\ [Next]_vars => HistoryType'
<1> SUFFICES ASSUME HistoryType, [Next]_vars PROVE HistoryType'
  OBVIOUS
<1>0. 0 \in 0..2 /\ 1 \in 0..2 /\ 2 \in 0..2
  OBVIOUS
<1> USE DEF topology_vars, outcome_vars
<1>1. steady' \in [Children -> 0..2]
  <2>1. CASE \/ steady' = [c \in Children |-> 0]
             \/ UNCHANGED steady
    BY <1>0, <2>1 DEF HistoryType
  <2>2. ASSUME NEW observed, StoreActionable(observed)
        PROVE  steady' \in [Children -> 0..2]
    BY <1>0, <2>2, Constants DEF StoreActionable
  <2>3. CASE CollectorStep
    BY <2>1, <2>2, <2>3
       DEF CollectorStep, CollectorRuns, BeginCollect, BeginEvaluation, Evaluate,
           Resume, Visit, SkipEvaluation, DropCandidate, StoreFresh, EndUnusable,
           NoRefresh, LoseRouter, RecordSome, RecordOutcome, StoreDegraded
  <2>4. CASE ~ CollectorStep
    BY <2>1, <2>4, Steps, WorkerFrame, HttpFrame
       DEF WorkerKeeps, HttpKeeps, SetMode, Tick, SyncClock, Reboot, vars
  <2> QED
    BY <2>3, <2>4
<1>2. charged' \in [Children -> 0..2]
  <2>1. ASSUME NEW f, NEW c, f \in 0..2, charged' = [charged EXCEPT ![c] = f]
        PROVE  charged' \in [Children -> 0..2]
    BY <2>1 DEF HistoryType
  <2>2. ASSUME NEW c \in Children, NEW p, NEW verified, RecordOutcome(c, p, verified)
        PROVE  charged' \in [Children -> 0..2]
    <3> DEFINE f == IF ~verified /\ charged[c] < PARENT_STEERING_FAILURE_THRESHOLD
                      THEN charged[c] + 1 ELSE charged[c]
    <3>1. f \in 0..2
      BY Constants DEF HistoryType
    <3>2. charged' = [charged EXCEPT ![c] = f]
      BY <2>2 DEF RecordOutcome
    <3> HIDE DEF f
    <3> QED
      BY <2>1, <3>1, <3>2
  <2>3. ASSUME NEW delivered, NEW accepted, Send(delivered, accepted)
        PROVE  charged' \in [Children -> 0..2]
    BY <1>0, <2>3 DEF Send, HistoryType
  <2>4. CASE UNCHANGED charged
    BY <2>4 DEF HistoryType
  <2>5. CASE CollectorStep
    BY <2>2, <2>4, <2>5
       DEF CollectorStep, CollectorRuns, BeginCollect, BeginEvaluation, Evaluate,
           Resume, Visit, SkipEvaluation, DropCandidate, StoreFresh, StoreActionable,
           EndUnusable, NoRefresh, LoseRouter, RecordSome, StoreDegraded
  <2>6. CASE WorkerStep
    BY <2>3, <2>4, <2>6, WorkerSteps
       DEF TakeRequest, GiveUp, Reserve, EnterWorkspace, CheckGates, LoseTurn,
           Recheck, Finish
  <2>7. CASE Reboot
    BY <1>0, <2>7, Constants DEF Reboot, HistoryType
  <2> QED
    BY <2>4, <2>5, <2>6, <2>7, Steps, HttpFrame
       DEF HttpKeeps, SetMode, Tick, SyncClock, vars
<1>3. returned' \in 0..2
  <2>1. CASE returned' \in {returned, 0}
    BY <1>0, <2>1 DEF HistoryType
  <2>2. ASSUME NEW c \in Children, Visit(c) PROVE returned' \in 0..2
    BY <2>2, Constants DEF Visit, HistoryType
  <2>3. CASE CollectorStep
    BY <2>1, <2>2, <2>3
       DEF CollectorStep, CollectorRuns, BeginCollect, BeginEvaluation, Evaluate,
           Resume, SkipEvaluation, DropCandidate, StoreFresh, StoreActionable,
           EndUnusable, NoRefresh, LoseRouter, RecordSome, RecordOutcome,
           StoreDegraded
  <2>4. CASE WorkerStep
    BY <2>1, <2>4, WorkerSteps
       DEF TakeRequest, GiveUp, Reserve, EnterWorkspace, CheckGates, LoseTurn,
           Recheck, Send, Finish, WorkerIdle
  <2> QED
    BY <2>1, <2>3, <2>4, Steps, HttpFrame
       DEF HttpKeeps, SetMode, Tick, SyncClock, Reboot, WorkerIdle, vars
<1> QED
  BY <1>1, <1>2, <1>3 DEF HistoryType

LEMMA TypesAreTypeOK ==
  TypeOK <=> RecordsType /\ CooldownType /\ TasksType /\ HistoryType
BY Constants DEF TypeOK, RecordsType, CooldownType, TasksType, HistoryType, Generations

LEMMA InitTypes == Init => RecordsType /\ CooldownType /\ TasksType /\ HistoryType
<1> SUFFICES ASSUME Init
             PROVE  RecordsType /\ CooldownType /\ TasksType /\ HistoryType
  OBVIOUS
<1>0. /\ 0 \in 0..2 /\ 0 \in 0..Window /\ Window \in 0..Window
      /\ 0 \in 0..MaxOutcomes /\ 0 \in 0..MaxReboots
  BY Constants
<1>1. RecordsType
  BY <1>0, NoneIs DEF Init, RecordsType
<1>2. CooldownType
  BY <1>0 DEF Init, CooldownType
<1>3. TasksType
  <2>1. snapshot \in Generations
    BY DegradedIs DEF Init
  <2>2. evaluation \in [kind : EvaluationKinds, automation : BOOLEAN]
    BY Places DEF Init
  <2> QED
    BY <1>0, <2>1, <2>2, Places, Constants DEF Init, TasksType
<1>4. HistoryType
  BY <1>0 DEF Init, HistoryType
<1> QED
  BY <1>1, <1>2, <1>3, <1>4

Types == RecordsType /\ CooldownType /\ TasksType /\ HistoryType

LEMMA TypesKept == Types /\ [Next]_vars => Types'
BY RecordsTypeKept, CooldownTypeKept, TasksTypeKept, HistoryTypeKept DEF Types

--------------------------------------------------------------------------------
(* The global limit. *)

\* While the window of a restart that was recorded lasts, so does the code's own
\* cooldown, in RAM or restored; a worker with a reservation was let in after it.
LimitOK ==
  /\ limited /\ gap < Window =>
       /\ restart_since <= gap
       /\ ~seen => epoch_known /\ boot_age <= gap
  /\ worker \in {"workspace", "recheck", "send"} /\ limited => gap >= Window

LEMMA LimitLasts ==
  ASSUME CooldownType, LimitOK, limited, gap < Window, NEW p
  PROVE  InCooldown(p)
<1>1. /\ restart_since \in Nat /\ boot_age \in Nat /\ gap \in Nat /\ Window \in Nat
      /\ restart_since < Window
  BY Constants DEF CooldownType, LimitOK
<1>2. CASE seen
  BY <1>1, <1>2 DEF InCooldown, GlobalLeft
<1>3. CASE ~seen
  <2>1. epoch_known /\ boot_age < Window
    BY <1>1, <1>3 DEF LimitOK
  <2>2. RestoredLeft > 0
    BY <1>1, <2>1 DEF RestoredLeft, Restored, Left, Least
  <2> QED
    BY <1>3, <2>2 DEF InCooldown, GlobalLeft
<1> QED
  BY <1>2, <1>3

LEMMA LimitKept == CooldownType /\ LimitOK /\ [Next]_vars => LimitOK'
<1> SUFFICES ASSUME CooldownType, LimitOK, [Next]_vars PROVE LimitOK'
  OBVIOUS
<1> USE DEF cooldown_vars, clock_vars, gap_vars, worker_vars
<1>1. CASE UNCHANGED <<cooldown_vars, boot_age, gap_vars, worker>>
  BY <1>1 DEF LimitOK
<1>2. CASE WorkerStep
  <2>1. UNCHANGED boot_age
    BY <1>2, WorkerFrame DEF WorkerKeeps
  <2>2. CASE Reserve
    <3>1. UNCHANGED <<seen, restart_since, epoch_known, gap_vars>>
          /\ worker' = "workspace" /\ ~InCooldown(worker_restart.parent)
      BY <2>2 DEF Reserve
    <3>2. limited => ~(gap < Window)
      BY <3>1, LimitLasts
    <3>3. gap \in Nat /\ Window \in Nat
      BY Constants DEF CooldownType
    <3> QED
      BY <2>1, <3>1, <3>2, <3>3 DEF LimitOK
  <2>3. ASSUME NEW ok \in LockOutcomes, Finish(ok) PROVE LimitOK'
    <3>1. CASE ok
      <4>1. seen' = TRUE /\ restart_since' = 0 /\ worker' = "idle" /\ UNCHANGED gap
        BY <2>3, <3>1 DEF Finish, RecordRestart, WorkerIdle
      <4>2. gap >= 0
        BY DEF CooldownType
      <4> QED
        BY <4>1, <4>2 DEF LimitOK
    <3>2. CASE ~ok
      <4>1. UNCHANGED <<cooldown_vars, gap_vars>> /\ worker' = "idle"
        BY <2>3, <3>2 DEF Finish, WorkerIdle
      <4> QED
        BY <2>1, <4>1 DEF LimitOK
    <3> QED
      BY <3>1, <3>2
  <2>4. ASSUME NEW delivered, NEW accepted, Send(delivered, accepted)
        PROVE  LimitOK'
    <3>1. worker' = "finish" /\ UNCHANGED cooldown_vars
          /\ (limited' = FALSE \/ UNCHANGED gap_vars)
      BY <2>4 DEF Send
    <3> QED
      BY <2>1, <3>1 DEF LimitOK
  <2>5. CASE /\ UNCHANGED <<cooldown_vars, gap_vars>>
             /\ \/ worker' \notin {"workspace", "recheck", "send"}
                \/ worker \in {"workspace", "recheck", "send"}
    BY <2>1, <2>5 DEF LimitOK
  <2> QED
    BY <1>2, <2>2, <2>3, <2>4, <2>5, WorkerSteps
       DEF TakeRequest, GiveUp, EnterWorkspace, CheckGates, LoseTurn, Recheck,
           WorkerIdle
<1>3. CASE HttpStep
  BY <1>3, HttpFrame DEF HttpKeeps, LimitOK
<1>4. CASE Tick
  <2>1. UNCHANGED <<seen, epoch_known, limited, worker>> /\ worker \notin Reserved
    BY <1>4 DEF Tick
  <2>2. /\ restart_since' = Older(restart_since) /\ boot_age' = Older(boot_age)
        /\ gap' = Older(gap)
    BY <1>4 DEF Tick
  <2>3. \A age \in 0..Window :
          /\ age <= gap => Older(age) <= Older(gap)
          /\ Older(gap) < Window => gap < Window
    BY Constants DEF Older, CooldownType
  <2> QED
    BY <2>1, <2>2, <2>3 DEF LimitOK, Reserved, CooldownType
<1>5. CASE SyncClock
  BY <1>1, <1>5 DEF SyncClock
<1>6. CASE Reboot
  <2>1. /\ (limited' => limited /\ epoch_known) /\ boot_age' = 0 /\ worker' = "idle"
        /\ UNCHANGED <<restart_since, epoch_known, gap>>
    BY <1>6 DEF Reboot, WorkerIdle
  <2>2. gap >= 0
    BY DEF CooldownType
  <2> QED
    BY <2>1, <2>2 DEF LimitOK
<1>7. CASE CollectorStep \/ (\E enabled \in Automation : SetMode(enabled))
           \/ UNCHANGED vars
  BY <1>1, <1>7, CollectorFrame DEF CollectorKeeps, SetMode, vars
<1> QED
  BY <1>2, <1>3, <1>4, <1>5, <1>6, <1>7, Steps

--------------------------------------------------------------------------------
(* Failures are paid for, when no take of a mutex times out. *)

Answered(c) == worker = "finish" /\ worker_accepted /\ worker_restart.child = c

\* No record shows more failures than were charged, but for the child whose
\* restart was accepted and is about to be recorded.
EarnedOK ==
  /\ \A c \in Children : Answered(c) \/ health[c].failures <= charged[c]
  /\ \A c \in Children :
       worker = "send" /\ worker_restart.child = c => charged[c] = 2

LEMMA CollectorEarned ==
  ASSUME Types, EarnedOK, CollectorStep
  PROVE  EarnedOK'
<1> USE DEF Types, worker_vars
<1>1. UNCHANGED <<worker, worker_restart, worker_accepted>>
  BY CollectorFrame DEF CollectorKeeps
<1>2. \A c \in Children : /\ health[c].failures \in 0..2 /\ charged[c] \in 0..2
  BY Fields DEF RecordsType, HistoryType
<1>3. ASSUME NEW c \in Children, Visit(c) PROVE EarnedOK'
  <2>1. UNCHANGED charged
    BY <1>3 DEF Visit, outcome_vars
  <2>2. evaluation.kind \in EvaluationKinds /\ health[c] \in Health
    BY DEF TasksType, RecordsType
  <2>3. Confirmed(health[c]).failures <= health[c].failures
    BY <1>2, <2>2, ConfirmedIs
  <2>4. \A d \in Children : health'[d].failures <= health[d].failures
    BY <1>2, <1>3, <2>2, <2>3, VisitIs
  <2>5. \A d \in Children : health'[d].failures \in 0..2
    BY <1>3, VisitIs, Fields
  <2> QED
    BY <1>1, <1>2, <2>1, <2>4, <2>5 DEF EarnedOK, Answered
<1>4. ASSUME NEW c \in Children, NEW verified \in BOOLEAN, NEW p \in Wanted[c],
             RecordOutcome(c, p, verified)
      PROVE  EarnedOK'
  <2>1. /\ \A d \in Children : d # c => health'[d] = health[d]
        /\ \/ health'[c].failures = 0
           \/ ~verified /\ health'[c].failures <= health[c].failures + 1
        /\ health'[c].failures \in 0..2
    BY <1>4, OutcomeIs, Fields
  <2>2. charged' = [charged EXCEPT ![c] =
                      IF ~verified /\ charged[c] < 2 THEN charged[c] + 1 ELSE charged[c]]
    BY <1>4, Constants DEF RecordOutcome
  <2>3. /\ \A d \in Children : d # c => charged'[d] = charged[d]
        /\ ~verified /\ charged[c] < 2 => charged'[c] = charged[c] + 1
        /\ verified \/ charged[c] = 2 => charged'[c] = charged[c]
    BY <1>2, <2>2 DEF HistoryType
  <2>4. charged'[c] >= charged[c] /\ charged'[c] \in 0..2
    BY <1>2, <2>3
  <2>5. health[c].failures <= charged[c] => health'[c].failures <= charged'[c]
    BY <1>2, <2>1, <2>3
  <2> QED
    BY <1>1, <1>2, <2>1, <2>3, <2>4, <2>5 DEF EarnedOK, Answered
<1>5. CASE UNCHANGED <<health, charged>>
  BY <1>1, <1>5 DEF EarnedOK, Answered
<1> QED
  BY <1>3, <1>4, <1>5
     DEF CollectorStep, CollectorRuns, BeginCollect, BeginEvaluation, Evaluate,
         Resume, SkipEvaluation, DropCandidate, StoreFresh, StoreActionable,
         EndUnusable, NoRefresh, LoseRouter, RecordSome, StoreDegraded,
         records, outcome_vars

LEMMA WorkerEarned ==
  ASSUME LockOutcomes = {TRUE}, Types, EarnedOK, WorkerStep
  PROVE  EarnedOK'
<1> USE DEF Types
<1>1. \A c \in Children : /\ health[c].failures \in 0..2 /\ charged[c] \in 0..2
  BY Fields DEF RecordsType, HistoryType
<1>2. ASSUME NEW ok \in LockOutcomes, Finish(ok) PROVE EarnedOK'
  <2>1. ok /\ worker = "finish" /\ worker' = "idle" /\ UNCHANGED charged
    BY <1>2 DEF Finish, WorkerIdle
  <2>2. ASSUME NEW c \in Children PROVE health'[c].failures <= charged[c]
    <3>1. CASE Answered(c)
      <4>1. ~ (health'[c].failures = health[c].failures
                 /\ ~(ok /\ worker_accepted /\ worker_restart.child = c))
        BY <2>1, <3>1, Zenon DEF Answered
      <4>2. health'[c].failures = 0
        BY <1>2, <4>1, FinishIs
      <4> QED
        BY <1>1, <4>2
    <3>2. CASE ~Answered(c)
      <4>1. health[c].failures <= charged[c]
        BY <3>2 DEF EarnedOK
      <4>2. health'[c].failures \in {health[c].failures, 0}
        BY <1>2, FinishIs
      <4> QED
        BY <1>1, <4>1, <4>2
    <3> QED
      BY <3>1, <3>2
  <2> QED
    BY <2>1, <2>2 DEF EarnedOK
<1>3. ASSUME ~ \E ok \in LockOutcomes : Finish(ok)
      PROVE  \A c \in Children : health'[c].failures = health[c].failures
  BY <1>3, WorkerStates
<1>4. ASSUME NEW ok \in LockOutcomes, Recheck(ok) PROVE EarnedOK'
  <2>1. worker = "recheck" /\ worker' \in {"send", "idle"} /\ UNCHANGED <<health, charged>>
    BY <1>4 DEF Recheck, WorkerIdle
  <2>2. ASSUME NEW c \in Children, worker' = "send", worker_restart'.child = c
        PROVE  charged'[c] = 2
    <3>1. worker_restart.child = c /\ StillNeeded
      BY <1>4, <2>2 DEF Recheck, WorkerIdle
    <3>2. health[c].failures >= 2
      BY <1>1, <3>1, Constants DEF StillNeeded, Obsolete, MyHealth
    <3> QED
      BY <1>1, <2>1, <3>2 DEF EarnedOK, Answered
  <2> QED
    BY <2>1, <2>2 DEF EarnedOK, Answered
<1>5. ASSUME NEW delivered \in BOOLEAN, NEW accepted \in BOOLEAN,
             Send(delivered, accepted)
      PROVE  EarnedOK'
  <2>1. /\ worker = "send" /\ worker' = "finish"
        /\ worker_accepted' = accepted /\ UNCHANGED <<health, worker_restart>>
    BY <1>5 DEF Send, records
  <2>2. charged' = [charged EXCEPT ![worker_restart.child] = IF accepted THEN 0 ELSE @]
    BY <1>5 DEF Send
  <2>3. \A c \in Children :
          charged'[c] = IF accepted /\ worker_restart.child = c THEN 0 ELSE charged[c]
    BY <2>2 DEF HistoryType
  <2>4. \A c \in Children : Answered(c)' \/ health'[c].failures <= charged'[c]
    BY <2>1, <2>3 DEF EarnedOK, Answered
  <2> QED
    BY <2>1, <2>4 DEF EarnedOK
<1>6. ASSUME UNCHANGED charged, worker # "finish", worker' # "send",
             ~ \E ok \in LockOutcomes : Finish(ok)
      PROVE  EarnedOK'
  BY <1>3, <1>6 DEF EarnedOK, Answered
<1> QED
  BY <1>2, <1>4, <1>5, <1>6, WorkerSteps
     DEF TakeRequest, GiveUp, Reserve, EnterWorkspace, CheckGates, LoseTurn,
         WorkerIdle, Finish

LEMMA EarnedKept ==
  ASSUME LockOutcomes = {TRUE}
  PROVE  Types /\ EarnedOK /\ [Next]_vars => EarnedOK'
<1> SUFFICES ASSUME Types, EarnedOK, [Next]_vars PROVE EarnedOK'
  OBVIOUS
<1> USE DEF records, outcome_vars, worker_vars
<1>1. CASE Reboot
  <2>1. \A c \in Children : /\ health'[c].failures = health[c].failures
                            /\ health[c].failures \in 0..2
    BY <1>1, RebootRecords, Fields DEF Types, RecordsType
  <2>2. /\ worker' = "idle"
        /\ \A c \in Children : charged'[c] = IF worker = "finish" THEN 2 ELSE charged[c]
    BY <1>1, Constants DEF Reboot, WorkerIdle
  <2> QED
    BY <2>1, <2>2 DEF EarnedOK, Answered
<1>2. CASE UNCHANGED <<health, charged, worker, worker_restart, worker_accepted>>
  BY <1>2 DEF EarnedOK, Answered
<1> QED
  BY <1>1, <1>2, CollectorEarned, WorkerEarned, HttpFrame, Steps
     DEF HttpKeeps, SetMode, Tick, SyncClock, vars

--------------------------------------------------------------------------------
(* Recoveries, when no take of a mutex times out. *)

\* The child was seen on its Parent when its record was visited last.
Matched(c) == health[c].matches # 0 /\ health[c].failures > 0
AtHome(c)  == snapshot.attached[c] = health[c].target

\* What a match stands for at each place of the collector: it rests on the
\* generation before the one that is being evaluated, and is void when the
\* collection failed.
RecoveryOK ==
  /\ \A c \in Children : health[c].failures > 0 => health[c].target # None
  /\ \A c \in Children : health[c].matches = 2 => health[c].failures = 0
  /\ todo # {} => collector \in {"stale", "fresh", "invalid"}
  /\ collector \in {"stale", "fresh", "invalid"} => evaluation.kind = collector
  /\ collector \in {"idle", "collecting"} =>
       \A c \in Children : Matched(c) => steady[c] > 0 /\ AtHome(c)
  /\ collector \in {"stored", "outcome", "stale", "fresh"} =>
       \A c \in Children : steady[c] > 0
  /\ collector \in {"stored", "outcome", "stale"} =>
       \A c \in Children : Matched(c) /\ AtHome(c) => steady[c] = 2
  /\ collector = "fresh" =>
       \A c \in Children :
         /\ c \in todo => (Matched(c) /\ AtHome(c) => steady[c] = 2)
         /\ c \notin todo => (Matched(c) => AtHome(c))
  /\ collector = "invalid" => \A c \in Children : Matched(c) => c \in todo

LEMMA VisitRecovery ==
  ASSUME Types, RecoveryOK, NEW c \in Children, Visit(c)
  PROVE  /\ RecoveryOK'
         /\ health'[c].matches = 2 /\ health[c].failures > 0 =>
              steady[c] = 2 /\ AtHome(c)
         /\ \A d \in Children : d # c => health'[d] = health[d]
<1> USE DEF Types
<1>1. /\ c \in todo /\ todo' = todo \ {c}
      /\ UNCHANGED <<collector, evaluation, snapshot, steady>>
  BY DEF Visit, topology_vars
<1>2. collector \in {"stale", "fresh", "invalid"} /\ evaluation.kind = collector
  BY <1>1 DEF RecoveryOK
<1>3. /\ \A d \in Children : d # c => health'[d] = health[d]
      /\ health'[c].target = health[c].target
      /\ \/ Matches(c) /\ health'[c] = Confirmed(health[c])
         \/ /\ health'[c].failures = health[c].failures
            /\ health'[c].matches = IF evaluation.kind = "stale"
                                    THEN health[c].matches ELSE 0
  BY <1>2, VisitIs DEF EvaluationKinds
<1>4. health[c] \in Health /\ health[c].failures \in 0..2 /\ health[c].matches \in 0..2
  BY Fields DEF RecordsType
<1>5. CASE Matches(c) /\ health'[c] = Confirmed(health[c])
  <2>1. collector = "fresh" /\ AtHome(c) /\ health[c].failures > 0
    BY <1>2, <1>5 DEF Matches, AtHome
  <2>2. CASE health[c].matches = 0
    <3>1. health'[c].matches = 1 /\ health'[c].failures = health[c].failures
      BY <1>4, <1>5, <2>2, ConfirmedIs
    <3>2. AtHome(c)'
      BY <1>1, <1>3, <2>1 DEF AtHome
    <3> QED
      BY <1>1, <1>3, <2>1, <3>1, <3>2 DEF RecoveryOK, Matched, AtHome
  <2>3. CASE health[c].matches # 0
    <3>1. health'[c].matches = 2 /\ health'[c].failures = 0
      BY <1>4, <1>5, <2>3, ConfirmedIs
    <3>2. steady[c] = 2
      BY <1>1, <2>1, <2>3 DEF RecoveryOK, Matched
    <3> QED
      BY <1>1, <1>3, <2>1, <3>1, <3>2 DEF RecoveryOK, Matched, AtHome
  <2> QED
    BY <2>2, <2>3
<1>6. CASE /\ health'[c].failures = health[c].failures
           /\ health'[c].matches = IF evaluation.kind = "stale"
                                   THEN health[c].matches ELSE 0
  <2>1. CASE collector = "stale"
    BY <1>1, <1>2, <1>3, <1>4, <1>6, <2>1 DEF RecoveryOK, Matched, AtHome
  <2>2. CASE collector # "stale"
    <3>1. health'[c].matches = 0
      BY <1>2, <1>6, <2>2
    <3> QED
      BY <1>1, <1>2, <1>3, <1>6, <2>2, <3>1 DEF RecoveryOK, Matched, AtHome
  <2> QED
    BY <2>1, <2>2
<1> QED
  BY <1>3, <1>5, <1>6

\* Nothing is claimed of failures that are forgotten.
LEMMA QuietRecovery ==
  ASSUME RecoveryOK, UNCHANGED <<collector, todo, evaluation, snapshot, steady>>,
         \A c \in Children : /\ health'[c].failures \in {health[c].failures, 0}
                             /\ health'[c].matches = health[c].matches
                             /\ health'[c].target = health[c].target
  PROVE  RecoveryOK'
BY DEF RecoveryOK, Matched, AtHome

LEMMA StoreRecovery ==
  ASSUME Types, RecoveryOK, NEW observed \in Topologies, StoreActionable(observed)
  PROVE  RecoveryOK'
<1> USE DEF Types
<1>1. /\ collector = "collecting" /\ collector' = "stored" /\ snapshot' = observed
      /\ UNCHANGED <<health, todo, evaluation>>
  BY DEF StoreActionable, records, loop_vars
<1>2. steady' = [c \in Children |->
                   IF steady[c] > 0 /\ observed.attached[c] = snapshot.attached[c]
                     THEN 2 ELSE 1]
  BY Constants DEF StoreActionable
<1>3. \A c \in Children : steady'[c] > 0
  BY <1>2
<1>4. ASSUME NEW c \in Children, Matched(c)', AtHome(c)'
      PROVE  steady'[c] = 2
  BY <1>1, <1>2, <1>4 DEF RecoveryOK, Matched, AtHome
<1> QED
  BY <1>1, <1>3, <1>4 DEF RecoveryOK

LEMMA EvaluateRecovery ==
  ASSUME Types, RecoveryOK, NEW from, NEW kind, NEW to, Evaluate(from, kind, to),
         <<from, kind, to>> \in {<<"outcome", "stale", "stale">>,
           <<"stored", "fresh", "fresh">>, <<"stale", "fresh", "fresh">>,
           <<"failed", "invalid", "invalid">>}
  PROVE  RecoveryOK'
<1>1. /\ collector = from /\ collector' = to /\ evaluation'.kind = to
      /\ todo' = {c \in Children : health[c].target # None}
      /\ UNCHANGED <<health, snapshot, steady>>
  BY DEF Evaluate, records, topology_vars
<1>2. \A c \in Children : health[c].failures > 0 => c \in todo'
  BY <1>1 DEF RecoveryOK
<1> QED
  BY <1>1, <1>2 DEF RecoveryOK, Matched, AtHome

LEMMA OutcomeRecovery ==
  ASSUME Types, RecoveryOK, NEW c \in Children, NEW verified \in BOOLEAN,
         NEW p \in Wanted[c], RecordOutcome(c, p, verified)
  PROVE  RecoveryOK'
<1> USE DEF Types
<1>1. /\ collector = "stored" /\ collector' = "outcome"
      /\ UNCHANGED <<todo, evaluation, snapshot, steady>>
  BY DEF RecordOutcome, loop_vars, topology_vars
<1>2. /\ \A d \in Children : d # c => health'[d] = health[d]
      /\ health'[c].target = p /\ health'[c].matches = 0 /\ p # None
  BY OutcomeIs, Constants
<1> QED
  BY <1>1, <1>2 DEF RecoveryOK, Matched, AtHome

LEMMA RecoveryKept ==
  ASSUME LockOutcomes = {TRUE}
  PROVE  Types /\ RecoveryOK /\ [Next]_vars => RecoveryOK'
<1> SUFFICES ASSUME Types, RecoveryOK, [Next]_vars PROVE RecoveryOK'
  OBVIOUS
<1> USE DEF records, loop_vars, topology_vars
<1>1. CASE CollectorStep
  <2>1. CASE BeginCollect
    BY <2>1 DEF BeginCollect, RecoveryOK, Matched, AtHome
  <2>2. CASE Resume
    BY <2>2 DEF Resume, MutexFree, RecoveryOK, Matched, AtHome
  <2>3. CASE BeginEvaluation
    BY <2>3, EvaluateRecovery DEF BeginEvaluation
  <2>4. ASSUME NEW c \in Children, Visit(c) PROVE RecoveryOK'
    BY <2>4, VisitRecovery
  <2>5. ASSUME NEW ok \in LockOutcomes PROVE ~SkipEvaluation(ok) /\ ~DropCandidate(ok)
    BY <2>5 DEF SkipEvaluation, DropCandidate
  <2>6. CASE StoreFresh
    BY <2>6, StoreRecovery DEF StoreFresh
  <2>7. CASE \/ EndUnusable \/ NoRefresh
             \/ \E observed \in Topologies : StoreDegraded(observed.online)
    BY <2>7 DEF EndUnusable, NoRefresh, LoseRouter, StoreDegraded, RecoveryOK
  <2>8. CASE RecordSome
    BY <2>8, OutcomeRecovery DEF RecordSome
  <2> QED
    BY <1>1, <2>1, <2>2, <2>3, <2>4, <2>5, <2>6, <2>7, <2>8
       DEF CollectorStep, CollectorRuns
<1>2. CASE WorkerStep
  <2>1. UNCHANGED <<collector, todo, evaluation, snapshot, steady>>
    BY <1>2, WorkerFrame DEF WorkerKeeps, collector_vars
  <2>2. ASSUME NEW ok \in LockOutcomes, Finish(ok) PROVE RecoveryOK'
    BY <2>1, <2>2, FinishIs, QuietRecovery DEF Types
  <2>3. CASE ~ \E ok \in LockOutcomes : Finish(ok)
    BY <1>2, <2>1, <2>3, WorkerStates, QuietRecovery DEF Types
  <2> QED
    BY <2>2, <2>3
<1>3. CASE Reboot
  <2>1. collector' = "idle" /\ todo' = {}
    BY <1>3 DEF Reboot
  <2>2. \A c \in Children : /\ health'[c].failures = health[c].failures
                            /\ health'[c].matches = 0
                            /\ health'[c].target = health[c].target
    BY <1>3, RebootRecords DEF Types
  <2> QED
    BY <2>1, <2>2 DEF RecoveryOK, Matched
<1>4. CASE UNCHANGED <<health, collector, todo, evaluation, snapshot, steady>>
  BY <1>4, QuietRecovery
<1> QED
  BY <1>1, <1>2, <1>3, <1>4, HttpFrame, Steps
     DEF HttpKeeps, SetMode, Tick, SyncClock, vars, collector_vars

--------------------------------------------------------------------------------
(* A recovery stops the restart. *)

\* Who holds memory_mutex while the network is used.
NetworkOK ==
  /\ worker \in {"recheck", "send"} => memory = "worker"
  /\ collector \in {"collecting", "stored-degraded"} => memory = "collector"
  /\ http = "send" => memory = "http"

\* What the loop over the records is called with, while it runs.
LoopOK ==
  todo # {} => collector \in {"stale", "fresh", "invalid"} /\ evaluation.kind = collector

MyChild == worker_restart.child

\* Until the recheck, a generation that brought the child back shows in its record,
\* for good: only the reservation marks a record whose failures count.  From the
\* recheck on the workspace is the worker's, and only the evaluation of a generation
\* that was stored before can still come, once.
NoticedOK ==
  /\ worker \notin Reserved => returned = 0
  /\ worker \in {"workspace", "recheck"} /\ returned > 0 =>
       MyChild \in Children /\ health[MyChild].state # "parent-restarting"
  /\ worker = "send" =>
       \/ returned = 0
       \/ /\ returned = 1
          /\ collector \notin {"stored", "outcome", "stale"}
          /\ ~(collector = "fresh" /\ MyChild \in todo)

StopOK == NetworkOK /\ LoopOK /\ NoticedOK

LEMMA InitStop == Init => StopOK
BY DEF Init, StopOK, NetworkOK, LoopOK, NoticedOK, Reserved

LEMMA LoopKept == Types /\ LoopOK /\ [Next]_vars => LoopOK'
<1> SUFFICES ASSUME Types, LoopOK, [Next]_vars PROVE LoopOK'
  OBVIOUS
<1> USE DEF LoopOK, loop_vars
<1>1. CASE CollectorStep
  <2>1. ASSUME NEW from, NEW kind, NEW to, Evaluate(from, kind, to),
               <<kind, to>> \in {<<"stale", "stale">>, <<"fresh", "fresh">>,
                                 <<"invalid", "invalid">>}
        PROVE  LoopOK'
    <3>1. collector' = to /\ evaluation'.kind = to /\ to \in {"stale", "fresh", "invalid"}
      BY <2>1 DEF Evaluate
    <3> QED
      BY <3>1
  <2>2. CASE BeginEvaluation
    BY <2>1, <2>2 DEF BeginEvaluation
  <2>3. ASSUME NEW c \in Children, Visit(c) PROVE LoopOK'
    BY <2>3 DEF Visit
  <2>4. CASE RecordSome
    BY <2>4 DEF RecordSome, RecordOutcome, MutexFree
  <2>5. CASE BeginCollect \/ Resume \/ \E ok \in LockOutcomes : SkipEvaluation(ok)
    BY <2>5 DEF BeginCollect, Resume, SkipEvaluation, MutexFree
  <2>6. CASE \/ StoreFresh \/ EndUnusable \/ NoRefresh
             \/ \E ok \in LockOutcomes : DropCandidate(ok)
             \/ \E observed \in Topologies : StoreDegraded(observed.online)
    BY <2>6 DEF StoreFresh, StoreActionable, EndUnusable, NoRefresh, LoseRouter,
                DropCandidate, StoreDegraded
  <2> QED
    BY <1>1, <2>2, <2>3, <2>4, <2>5, <2>6 DEF CollectorStep, CollectorRuns
<1>2. CASE Reboot
  BY <1>2 DEF Reboot
<1>3. CASE UNCHANGED <<collector, todo, evaluation>>
  BY <1>3
<1> QED
  BY <1>1, <1>2, <1>3, WorkerFrame, HttpFrame, Steps
     DEF WorkerKeeps, HttpKeeps, SetMode, Tick, SyncClock, vars, collector_vars

LEMMA NetworkKept == Types /\ NetworkOK /\ [Next]_vars => NetworkOK'
<1> SUFFICES ASSUME Types, NetworkOK, [Next]_vars PROVE NetworkOK'
  OBVIOUS
<1> USE DEF NetworkOK
<1>1. CASE CollectorStep
  <2>1. UNCHANGED <<worker, http>>
    BY <1>1, CollectorFrame DEF CollectorKeeps, worker_vars, http_vars
  <2>2. CASE BeginCollect
    BY <2>1, <2>2 DEF BeginCollect
  <2>3. CASE \/ StoreFresh \/ EndUnusable \/ NoRefresh
             \/ \E ok \in LockOutcomes : DropCandidate(ok)
             \/ \E observed \in Topologies : StoreDegraded(observed.online)
    BY <2>1, <2>3 DEF StoreFresh, StoreActionable, EndUnusable, NoRefresh, LoseRouter,
                      DropCandidate, StoreDegraded
  <2>4. CASE BeginEvaluation \/ RecordSome \/ Resume
    BY <2>1, <2>4 DEF BeginEvaluation, Evaluate, RecordSome, RecordOutcome, Resume
  <2>5. CASE \/ \E c \in Children : Visit(c)
             \/ \E ok \in LockOutcomes : SkipEvaluation(ok)
    BY <2>1, <2>5 DEF Visit, SkipEvaluation
  <2> QED
    BY <1>1, <2>2, <2>3, <2>4, <2>5 DEF CollectorStep, CollectorRuns
<1>2. CASE WorkerStep
  <2>1. UNCHANGED collector
    BY <1>2, WorkerFrame DEF WorkerKeeps, collector_vars
  <2>2. UNCHANGED http
    BY <1>2, WorkerSteps
       DEF TakeRequest, GiveUp, Reserve, EnterWorkspace, CheckGates, LoseTurn, Recheck,
           Finish, Send, http_vars
  <2>3. CASE \/ TakeRequest \/ GiveUp \/ Reserve
             \/ (\E ok \in LockOutcomes : CheckGates(ok))
             \/ (\E ok \in LockOutcomes : LoseTurn(ok))
             \/ (\E ok \in LockOutcomes : Finish(ok))
    BY <2>1, <2>2, <2>3 DEF TakeRequest, GiveUp, Reserve, CheckGates, LoseTurn, Finish,
                            WorkerIdle
  <2>4. CASE \/ EnterWorkspace \/ (\E ok \in LockOutcomes : Recheck(ok))
             \/ (\E delivered, accepted \in BOOLEAN : Send(delivered, accepted))
    BY <2>1, <2>2, <2>4 DEF EnterWorkspace, Recheck, Send, WorkerIdle
  <2> QED
    BY <1>2, <2>3, <2>4, WorkerSteps
<1>3. CASE HttpStep
  <2>1. UNCHANGED <<worker, collector>>
    BY <1>3, HttpFrame DEF HttpKeeps, worker_vars, collector_vars
  <2> QED
    BY <1>3, <2>1 DEF HttpStep, HttpRuns, ManualWorkspace, ManualReserve, ManualErase,
                      ManualSend, ManualRestart, HttpIdle
<1>4. CASE Reboot
  BY <1>4 DEF Reboot, WorkerIdle, HttpIdle
<1>5. CASE UNCHANGED <<worker, memory, collector, http>>
  BY <1>5
<1> QED
  BY <1>1, <1>2, <1>3, <1>4, <1>5, Steps
     DEF SetMode, Tick, SyncClock, vars, collector_vars, worker_vars, http_vars

\* No record turns to "parent-restarting" in a round of the loop, and one whose child
\* is back on its Parent leaves it.
LEMMA VisitStates ==
  ASSUME RecordsType, NEW c \in Children, Visit(c)
  PROVE  /\ health'[c].state = "parent-restarting" =>
              health[c].state = "parent-restarting" /\ ~Matches(c)
         /\ \A d \in Children : d # c => health'[d] = health[d]
<1>1. health[c] \in Health /\ health[c].matches \in 0..2
  BY Fields DEF RecordsType
<1>2. CASE evaluation.kind = "invalid" /\ health' = [health EXCEPT ![c] = Paused(@)]
  <2>1. health'[c] = Paused(health[c])
    BY <1>2 DEF RecordsType
  <2>2. ~Matches(c)
    BY <1>2 DEF Matches
  <2> QED
    BY <1>1, <1>2, <2>1, <2>2 DEF Paused, RecordsType, Health
<1>3. CASE Matches(c) /\ health' = [health EXCEPT ![c] = Confirmed(@)]
  <2>1. health'[c] = Confirmed(health[c])
    BY <1>3 DEF RecordsType
  <2>2. Confirmed(health[c]).state \in {"resolved", "confirming"}
    BY <1>1, Constants DEF Confirmed, Health
  <2> QED
    BY <1>3, <2>1, <2>2 DEF RecordsType
<1>4. CASE ~Matches(c) /\ Observe(c)
  <2> DEFINE h == IF evaluation.kind = "fresh" THEN Paused(health[c]) ELSE health[c]
             rest == h.state = "parent-restarting" /\ h.failures = 0
             due  == /\ h.state # "confirming" /\ ~rest
                     /\ h.failures >= PARENT_STEERING_FAILURE_THRESHOLD
             g == IF due THEN [h EXCEPT !.state = Decided(c, h)]
                  ELSE IF rest /\ GlobalLeft = 0 THEN [h EXCEPT !.state = "resolved"]
                  ELSE h
  <2>1. health' = [health EXCEPT ![c] = g]
    BY <1>4, Zenon DEF Observe
  <2>2. h \in Health
    BY <1>1, PausedIs
  <2>3. h.state = "parent-restarting" => health[c].state = "parent-restarting"
    BY <1>1 DEF Paused, Health
  <2>4. Decided(c, h) # "parent-restarting"
    BY DEF Decided
  <2> HIDE DEF h
  <2>5. g \in {h, [h EXCEPT !.state = Decided(c, h)], [h EXCEPT !.state = "resolved"]}
    OBVIOUS
  <2> HIDE DEF g
  <2>6. \A s \in HealthStates : [h EXCEPT !.state = s].state = s
    BY <2>2 DEF Health
  <2>7. Decided(c, h) \in HealthStates /\ "resolved" \in HealthStates
    BY DEF Decided, HealthStates
  <2>8. g.state = "parent-restarting" => health[c].state = "parent-restarting"
    <3>1. [h EXCEPT !.state = Decided(c, h)].state = Decided(c, h)
      BY <2>6, <2>7, Zenon
    <3>2. [h EXCEPT !.state = "resolved"].state = "resolved"
      BY <2>6, <2>7, Zenon
    <3> QED
      BY <2>3, <2>4, <2>5, <3>1, <3>2
  <2>9. health'[c] = g /\ \A d \in Children : d # c => health'[d] = health[d]
    BY <2>1 DEF RecordsType
  <2> QED
    BY <1>4, <2>8, <2>9
<1> QED
  BY <1>2, <1>3, <1>4 DEF Visit

\* The collector's other steps leave the records to what their states were, or to
\* those of an outcome.
LEMMA CollectorStates ==
  ASSUME RecordsType, CollectorStep, NEW d \in Children,
         health'[d].state = "parent-restarting"
  PROVE  health[d].state = "parent-restarting"
<1>1. ASSUME NEW c \in Children, Visit(c) PROVE health[d].state = "parent-restarting"
  BY <1>1, VisitStates
<1>2. ASSUME NEW c \in Children, NEW verified \in BOOLEAN, NEW p \in Wanted[c],
             RecordOutcome(c, p, verified)
      PROVE  health[d].state = "parent-restarting"
  <2>1. CASE d # c
    BY <1>2, <2>1, OutcomeIs
  <2>2. CASE d = c
    <3>1. \E s \in {"resolved", "restart-eligible", "watching"} : \E f :
            health' = [health EXCEPT ![c] =
              [target |-> p, state |-> s, failures |-> f, matches |-> 0,
               operation |-> last_operation + 1]]
      BY <1>2, Zenon DEF RecordOutcome
    <3> QED
      BY <2>2, <3>1 DEF RecordsType
  <2> QED
    BY <2>1, <2>2
<1>3. CASE RecordSome
  BY <1>2, <1>3 DEF RecordSome
<1> QED
  BY <1>1, <1>3
     DEF CollectorStep, CollectorRuns, BeginCollect, BeginEvaluation, Evaluate, Resume,
         SkipEvaluation, DropCandidate, StoreFresh, StoreActionable, EndUnusable,
         NoRefresh, LoseRouter, StoreDegraded, records

\* Only a round of the loop notices.
LEMMA OnlyVisitsNotice ==
  ASSUME CollectorStep
  PROVE  (\E c \in Children : Visit(c)) \/ UNCHANGED returned
BY DEF CollectorStep, CollectorRuns, BeginCollect, BeginEvaluation, Evaluate, Resume,
       SkipEvaluation, DropCandidate, StoreFresh, StoreActionable, EndUnusable,
       NoRefresh, LoseRouter, StoreDegraded, RecordSome, RecordOutcome, outcome_vars

LEMMA CollectorNoticed ==
  ASSUME Types, StopOK, CollectorStep
  PROVE  NoticedOK'
<1> USE DEF Types, StopOK
<1>0. UNCHANGED worker_vars
  BY CollectorFrame DEF CollectorKeeps
<1>1. worker' \notin Reserved => returned' = 0
  BY <1>0, OnlyVisitsNotice DEF NoticedOK, worker_vars, Visit, BackMeanwhile
<1>2. ASSUME worker' \in {"workspace", "recheck"}, returned' > 0
      PROVE  MyChild' \in Children /\ health'[MyChild'].state # "parent-restarting"
  <2>1. MyChild' = MyChild /\ worker' = worker
    BY <1>0 DEF MyChild, worker_vars
  <2>2. ASSUME NEW c \in Children, Visit(c), returned' # returned
        PROVE  MyChild \in Children /\ health'[MyChild].state # "parent-restarting"
    <3>1. Matches(c) /\ c = MyChild
      BY <2>2 DEF Visit, BackMeanwhile, MyChild
    <3> QED
      BY <2>2, <3>1, VisitStates
  <2>3. CASE returned' = returned
    <3>1. MyChild \in Children /\ health[MyChild].state # "parent-restarting"
      BY <1>2, <2>1, <2>3 DEF NoticedOK
    <3> QED
      BY <2>1, <3>1, CollectorStates
  <2> QED
    BY <2>1, <2>2, <2>3, OnlyVisitsNotice
<1>3. ASSUME worker' = "send"
      PROVE  \/ returned' = 0
             \/ /\ returned' = 1
                /\ collector' \notin {"stored", "outcome", "stale"}
                /\ ~(collector' = "fresh" /\ MyChild' \in todo')
  <2>1. MyChild' = MyChild /\ worker = "send" /\ memory = "worker"
    BY <1>0, <1>3 DEF MyChild, worker_vars, NetworkOK
  <2>2. collector \notin {"collecting", "stored-degraded"}
    BY <2>1 DEF NetworkOK
  <2>3. /\ returned \in 0..2
        /\ \/ returned = 0
           \/ /\ returned = 1
              /\ collector \notin {"stored", "outcome", "stale"}
              /\ ~(collector = "fresh" /\ MyChild \in todo)
    BY <2>1 DEF NoticedOK, HistoryType
  <2>4. ASSUME NEW c \in Children, Visit(c)
        PROVE  \/ returned' = 0
               \/ /\ returned' = 1
                  /\ collector' \notin {"stored", "outcome", "stale"}
                  /\ ~(collector' = "fresh" /\ MyChild \in todo')
    <3>1. /\ c \in todo /\ todo' = todo \ {c} /\ collector' = collector
          /\ evaluation.kind = collector
      BY <2>4 DEF Visit, LoopOK
    <3>2. CASE returned' = returned
      BY <2>3, <3>1, <3>2
    <3>3. CASE returned' # returned
      <4>1. /\ c = MyChild /\ evaluation.kind = "fresh" /\ returned' = returned + 1
        BY <2>4, <3>3 DEF Visit, BackMeanwhile, Matches, MyChild
      <4> QED
        BY <2>3, <3>1, <4>1
    <3> QED
      BY <3>2, <3>3
  <2>5. CASE returned' = returned /\ ~ \E c \in Children : Visit(c)
    <3>1. ~BeginCollect
      BY <2>1 DEF BeginCollect
    <3>2. \/ collector' \notin {"stored", "outcome", "stale", "fresh"}
          \/ collector \in {"stored", "outcome", "stale"}
      BY <2>2, <2>5, <3>1
         DEF CollectorStep, CollectorRuns, BeginEvaluation, Evaluate, Resume,
             SkipEvaluation, DropCandidate, StoreFresh, StoreActionable, EndUnusable,
             NoRefresh, LoseRouter, StoreDegraded, RecordSome, RecordOutcome
    <3> QED
      BY <2>3, <2>5, <3>2
  <2> QED
    BY <2>1, <2>4, <2>5, OnlyVisitsNotice
<1> QED
  BY <1>1, <1>2, <1>3 DEF NoticedOK

LEMMA WorkerNoticed ==
  ASSUME Types, StopOK, WorkerStep
  PROVE  NoticedOK'
<1> USE DEF Types, StopOK, records
<1>0. UNCHANGED <<collector, todo>>
  BY WorkerFrame DEF WorkerKeeps, collector_vars, loop_vars
<1>1. CASE worker' = "idle" /\ returned' = 0
  BY <1>1 DEF NoticedOK, Reserved
<1>2. CASE TakeRequest \/ \E ok \in LockOutcomes : CheckGates(ok)
  BY <1>2 DEF TakeRequest, CheckGates, NoticedOK, Reserved
<1>3. CASE Reserve
  <2>1. worker' = "workspace" /\ returned' = 0
    BY <1>3 DEF Reserve, NoticedOK, Reserved
  <2> QED
    BY <2>1 DEF NoticedOK, Reserved
<1>4. CASE EnterWorkspace
  <2>1. /\ worker = "workspace" /\ worker' \in {"recheck", "finish"}
        /\ UNCHANGED <<health, worker_restart, returned>>
    BY <1>4 DEF EnterWorkspace
  <2> QED
    BY <2>1 DEF NoticedOK, Reserved, MyChild
<1>5. ASSUME NEW ok \in LockOutcomes, Recheck(ok) PROVE NoticedOK'
  <2>1. CASE ok /\ StillNeeded
    <3>1. /\ worker = "recheck" /\ worker' = "send" /\ UNCHANGED returned
          /\ health[MyChild].state = "parent-restarting"
      BY <1>5, <2>1 DEF Recheck, StillNeeded, MyHealth, MyChild
    <3>2. returned = 0
      BY <3>1 DEF NoticedOK, HistoryType
    <3> QED
      BY <3>1, <3>2 DEF NoticedOK, Reserved
  <2>2. CASE ~(ok /\ StillNeeded)
    <3>1. worker' = "idle" /\ returned' = 0
      BY <1>5, <2>2 DEF Recheck, WorkerIdle
    <3> QED
      BY <1>1, <3>1
  <2> QED
    BY <2>1, <2>2
<1>6. ASSUME NEW delivered, NEW accepted, Send(delivered, accepted) PROVE NoticedOK'
  <2>1. worker' = "finish"
    BY <1>6 DEF Send
  <2> QED
    BY <2>1 DEF NoticedOK, Reserved
<1> QED
  BY <1>1, <1>2, <1>3, <1>4, <1>5, <1>6, WorkerSteps
     DEF GiveUp, LoseTurn, Finish, WorkerIdle

LEMMA StopKept == Types /\ StopOK /\ [Next]_vars => StopOK'
<1> SUFFICES ASSUME Types, StopOK, [Next]_vars PROVE NoticedOK'
  BY LoopKept, NetworkKept DEF StopOK
<1>1. CASE CollectorStep
  BY <1>1, CollectorNoticed
<1>2. CASE WorkerStep
  BY <1>2, WorkerNoticed
<1>3. CASE Reboot
  BY <1>3 DEF Reboot, WorkerIdle, NoticedOK, Reserved
<1>4. CASE UNCHANGED <<health, worker, worker_restart, returned, collector, todo>>
  BY <1>4 DEF StopOK, NoticedOK, MyChild
<1> QED
  BY <1>1, <1>2, <1>3, <1>4, HttpFrame, Steps
     DEF HttpKeeps, records, outcome_vars, collector_vars, loop_vars, worker_vars,
         SetMode, Tick, SyncClock, vars

--------------------------------------------------------------------------------
(* The invariants hold initially. *)

LEMMA InitLimit == Init => LimitOK
BY DEF Init, LimitOK

LEMMA InitEarned == Init => EarnedOK
BY DEF Init, EarnedOK, NoHealth

LEMMA InitRecovery == Init => RecoveryOK
BY NoneIs DEF Init, RecoveryOK, Matched

--------------------------------------------------------------------------------
(* Theorems. *)

\* The types as an invariant, for the theorems below.
LEMMA AlwaysTypes == Spec => []Types
<1>1. Init => Types
  BY InitTypes DEF Types
<1> QED
  BY <1>1, TypesKept, PTL DEF Spec

\* Every variable keeps to its type, whichever takes of a mutex time out.
THEOREM TypeCorrect == Spec => []TypeOK
<1>1. Types => TypeOK
  BY TypesAreTypeOK DEF Types
<1> QED
  BY <1>1, AlwaysTypes, PTL

\* Two automatic restarts of a Parent are a window apart, whichever takes time out
\* and whenever the ESP32 restarts, if the first was recorded at a known time.
THEOREM RestartsAreLimited == Spec => OneRestartPerWindow
<1>1. Types /\ LimitOK /\ [Next]_vars => LimitOK'
  BY LimitKept DEF Types
<1>2. Types /\ LimitOK =>
        [\A c \in Children : RestartSent(c) => gap >= Window \/ ~limited]_vars
  BY DEF LimitOK, RestartSent
<1> QED
  BY <1>1, <1>2, InitLimit, AlwaysTypes, PTL DEF Spec, OneRestartPerWindow

\* An accepted restart was paid for by two failures of its own child since the one
\* before, when the takes of topology_lock_mutex succeed.
THEOREM RestartsPaidFor ==
  ASSUME LockOutcomes = {TRUE}
  PROVE  Spec => RestartsAreEarned
<1>1. Types /\ EarnedOK =>
        [\A c \in Children :
           RestartSent(c) => charged[c] >= PARENT_STEERING_FAILURE_THRESHOLD]_vars
  BY Constants DEF EarnedOK, RestartSent
<1> QED
  BY <1>1, EarnedKept, InitEarned, AlwaysTypes, PTL DEF Spec, RestartsAreEarned

\* The observations that resolve an alert are those of two generations in a row,
\* when the takes of topology_lock_mutex succeed.
THEOREM RecoveriesAreConsecutive ==
  ASSUME LockOutcomes = {TRUE}
  PROVE  Spec => RecoveryNeedsConsecutiveGenerations
<1>1. ASSUME Types, RecoveryOK, [Next]_vars, NEW c \in Children,
             health[c].failures > 0, health'[c].failures = 0, health'[c].matches = 2
      PROVE  steady[c] = 2 /\ AtHome(c)
  <2>1. health[c].matches # 2
    BY <1>1 DEF RecoveryOK
  <2>2. ASSUME NEW d \in Children, Visit(d) PROVE steady[c] = 2 /\ AtHome(c)
    BY <1>1, <2>1, <2>2, VisitRecovery
  <2>3. ~RecordSome
    <3> SUFFICES ASSUME NEW d \in Children, NEW verified \in BOOLEAN,
                        NEW p \in Wanted[d], RecordOutcome(d, p, verified)
                 PROVE  FALSE
      BY DEF RecordSome
    <3> QED
      BY <1>1, <2>1, OutcomeIs DEF Types
  <2>4. ~WorkerStep
    <3>1. ASSUME WorkerStep PROVE health'[c].matches = health[c].matches
      BY <1>1, <3>1, FinishIs, WorkerStates DEF Types
    <3> QED
      BY <1>1, <2>1, <3>1
  <2>5. ~Reboot
    BY <1>1, RebootRecords DEF Types
  <2>6. health' # health
    BY <1>1, <2>1
  <2> QED
    BY <1>1, <2>2, <2>3, <2>4, <2>5, <2>6, HttpFrame, Steps
       DEF CollectorStep, CollectorRuns, BeginCollect, BeginEvaluation, Evaluate,
           Resume, SkipEvaluation, DropCandidate, StoreFresh, StoreActionable,
           EndUnusable, NoRefresh, LoseRouter, StoreDegraded, records, HttpKeeps,
           SetMode, Tick, SyncClock, vars
<1>2. Types /\ RecoveryOK /\ [Next]_vars =>
        [\A c \in Children :
           /\ health[c].failures > 0 /\ health'[c].failures = 0
           /\ health'[c].matches = MQTT_VERIFY_GENERATIONS
           => /\ steady[c] = MQTT_VERIFY_GENERATIONS
              /\ snapshot.attached[c] = health[c].target]_vars
  BY <1>1, Constants DEF AtHome
<1> QED
  BY <1>2, RecoveryKept, InitRecovery, AlwaysTypes, PTL
     DEF Spec, RecoveryNeedsConsecutiveGenerations

\* A Parent is not restarted for a child that two generations have shown to be back on
\* it since the Parent was reserved, whichever takes time out: what comes before the
\* worker looks at the record once more is seen there, and the workspace keeps new
\* generations out until core/Reboot has been sent.
THEOREM RecoveriesStopRestarts == Spec => RecoveryStopsRestart
<1>1. Types /\ StopOK =>
        [\A c \in Children :
           RestartSent(c) => returned < MQTT_VERIFY_GENERATIONS]_vars
  BY Constants DEF StopOK, NoticedOK, RestartSent
<1> QED
  BY <1>1, StopKept, InitStop, AlwaysTypes, PTL DEF Spec, RecoveryStopsRestart
==================================================================================
