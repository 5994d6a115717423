------------------------------ MODULE TopologyLock ------------------------------
(***************************************************************************)
(* Topology Lock in meshscope_edge.h: a saved Parent for every online Node, *)
(* and the queueing of exact moves for the Nodes that drift away from it.   *)
(*                                                                         *)
(* The collector evaluates the lock with each new generation: it counts     *)
(* mismatches and selects a Node in one section under topology_lock_mutex,  *)
(* and the preflight, the queueing and the note of the action follow in     *)
(* sections of their own.  The HTTP task sets and stops the lock, the loop  *)
(* and the HTTP task set the rate, the MQTT worker stamps Parent restarts.  *)
(* Whatever an operation does once it is queued is SteeringOperation.       *)
(***************************************************************************)
EXTENDS Cooldown, FiniteSets, Sequences

CONSTANTS
  Nodes,         (* mesh Nodes, the gateway included                         *)
  Gateway,       (* the primary Node, "authority"                            *)
  None,          (* no Node                                                  *)
  Observations,  (* bound: what a collection can observe                     *)
  Requests,      (* bound: the mappings the page asks for                    *)
  Confirmations, (* TOPOLOGY_LOCK_CONFIRMATIONS                              *)
  Rates,         (* bound: the rate limits asked for, in ticks               *)
  MaxRate,       (* ages saturate here                                       *)
  ManualMoves,   (* bound: Nodes that are moved by hand                      *)
  Resting,       (* bound: sets of Nodes restarted less than 90 s ago        *)
  ParentRestarts,(* bound: whether Parents are restarted automatically       *)
  MaxReboots,    (* bound: restarts of the ESP32                             *)
  LockOutcomes,  (* {TRUE}, or BOOLEAN when a bounded take may time out      *)
  WriteOutcomes  (* {TRUE}, or BOOLEAN when a write to flash may fail        *)

ASSUME LockAssumption ==
  /\ Gateway \in Nodes /\ None \notin Nodes /\ IsFiniteSet(Nodes)
  /\ Observations \subseteq [online : SUBSET Nodes, wired : SUBSET Nodes,
                             parent : [Nodes -> Nodes \cup {None}]]
  /\ Requests \subseteq Seq([node : Nodes, parent : Nodes])
  /\ Confirmations \in Nat \ {0}
  /\ Rates \subseteq 1..MaxRate /\ Rates # {} /\ MaxRate \in Nat
  /\ ManualMoves \subseteq Nodes /\ Resting \subseteq SUBSET Nodes
  /\ ParentRestarts \in BOOLEAN /\ MaxReboots \in Nat
  /\ LockOutcomes \subseteq BOOLEAN /\ TRUE \in LockOutcomes
  /\ WriteOutcomes \subseteq BOOLEAN /\ TRUE \in WriteOutcomes

VARIABLES
  mappings,       (* topology_lock_mappings, empty when not enabled           *)
  counts,         (* topology_lock_mismatch_counts                            *)
  last_selected,  (* topology_lock_last_selected_node_id                      *)
  stamp,          (* of the last action: an epoch, or "unknown", or "none"    *)
  since,          (* ticks since then, saturating                             *)
  seen,           (* topology_lock_action_seen_this_boot                      *)
  rate,           (* topology_lock_action_cooldown_seconds, saved with it     *)
  flash,          (* what persist_topology_lock_locked wrote                  *)
  boot_age,       (* ticks since boot, saturating                             *)
  clock_set,      (* wall_clock_epoch() is not 0: NTP has answered            *)
  nodes,          (* the observations of the cached generation                *)
  active,         (* the Node of the active Parent-steering operation         *)
  collector, selected,
  http, http_mappings,
  reboots,        (* restarts of the ESP32 so far                             *)
  \* History, read by properties only.
  period,         (* of the last move: where it is noted, the ticks since, and *)
                  (* the least rate in force since                            *)
  recent          (* the last Confirmations generations evaluated for the lock *)

lock_vars      == <<mappings, counts, last_selected>>
action_vars    == <<stamp, since, seen>>
clock_vars     == <<boot_age, clock_set>>
collector_vars == <<collector, selected>>
http_vars      == <<http, http_mappings>>

vars == <<lock_vars, action_vars, rate, flash, clock_vars, nodes, active,
          collector_vars, http_vars, reboots, period, recent>>

--------------------------------------------------------------------------------
(* The saved mapping as a function of the Node. *)

Entry  == [node : Nodes, parent : Nodes]
NoMove == [node |-> None, parent |-> None]

ParentIn(ms, n) ==
  IF \E i \in DOMAIN ms : ms[i].node = n
    THEN ms[CHOOSE i \in DOMAIN ms : ms[i].node = n].parent ELSE None

\* The Nodes met on the way up from n, as the saved Parents say.
Climb(ms, n) ==
  LET up[k \in 0..Len(ms)] == IF k = 0 THEN n ELSE ParentIn(ms, up[k - 1])
  IN up

Leads(ms, n) == \E k \in 0..Len(ms) : Climb(ms, n)[k] = Gateway

\* topology_lock_expected_depth_locked, and what stands for no depth.
Depth(n) ==
  IF Gateway \in nodes.online /\ Leads(mappings, n)
    THEN CHOOSE k \in 0..Len(mappings) : Climb(mappings, n)[k] = Gateway
    ELSE Len(mappings) + 1

\* Mutation of Valid: the paths are not followed.
ValidUnclimbed(ms) ==
  /\ Gateway \in nodes.online
  /\ ms # <<>> /\ Len(ms) = Cardinality(nodes.online \ {Gateway})
  /\ \A i \in DOMAIN ms : /\ {ms[i].node, ms[i].parent} \subseteq nodes.online
                          /\ ms[i].node \notin {Gateway, ms[i].parent}
  /\ {ms[i].node : i \in DOMAIN ms} = nodes.online \ {Gateway}

\* validate_topology_lock_mappings
Valid(ms) ==
  /\ Gateway \in nodes.online
  /\ ms # <<>> /\ Len(ms) = Cardinality(nodes.online \ {Gateway})
  /\ \A i \in DOMAIN ms : /\ {ms[i].node, ms[i].parent} \subseteq nodes.online
                          /\ ms[i].node \notin {Gateway, ms[i].parent}
  /\ {ms[i].node : i \in DOMAIN ms} = nodes.online \ {Gateway}
  /\ \A i \in DOMAIN ms : Leads(ms, ms[i].node)

--------------------------------------------------------------------------------
(* Types and initial state. *)

Stamps       == {"none", "known", "unknown"}
CollectorPCs == {"idle", "evaluate", "preflight", "conflict", "queue", "note"}

NoPeriod == [noted |-> "no", gap |-> MaxRate, limit |-> MaxRate]
NoCounts == [n \in Nodes |-> 0]
NoLock   == [mappings |-> <<>>, last_selected |-> None, stamp |-> "none",
             since |-> MaxRate]
Nothing  == [online |-> {}, wired |-> {}, parent |-> [n \in Nodes |-> None]]

Init ==
  /\ mappings = <<>> /\ counts = NoCounts /\ last_selected = None
  /\ stamp = "none" /\ since = MaxRate /\ seen = FALSE
  /\ rate \in Rates
  /\ flash = NoLock
  /\ boot_age = 0 /\ clock_set = FALSE
  /\ nodes = Nothing
  /\ active = None
  /\ collector = "idle" /\ selected = NoMove
  /\ http = "idle" /\ http_mappings = <<>>
  /\ reboots = 0
  /\ period = NoPeriod
  /\ recent = <<>>

--------------------------------------------------------------------------------
(* Sections shared by the tasks. *)

\* Only an epoch has an age that can be written.
EpochAge(s, age) == IF s = "known" THEN age ELSE MaxRate

\* persist_topology_lock_locked, after the section's assignments; the caller
\* of a failed write goes on as it likes.
Persist(saved) ==
  flash' = IF saved
             THEN [mappings |-> mappings, last_selected |-> last_selected',
                   stamp |-> stamp', since |-> EpochAge(stamp', since')]
             ELSE flash

\* A move that is noted in RAM is noted in flash by any later write.
NoteFollows(saved) ==
  period' = IF saved /\ period.noted = "ram" THEN [period EXCEPT !.noted = "flash"]
            ELSE period

\* A period that has passed is forgotten.
Running(p) == IF p.gap >= p.limit THEN NoPeriod ELSE p

\* The time of an action: an epoch, or none when NTP has not answered.
StampNow ==
  /\ stamp' = IF clock_set THEN "known" ELSE "unknown"
  /\ since' = 0
  /\ seen' = TRUE

\* topology_lock_remaining_ms_locked
Remaining == IF seen THEN Left(rate, since)
             ELSE Restored(rate, stamp = "known", clock_set, since, boot_age)

--------------------------------------------------------------------------------
(* Collector. *)

CollectorKeeps == UNCHANGED <<mappings, rate, clock_vars, http_vars, reboots>>

StoreGeneration(observed) ==
  /\ collector = "idle"
  /\ collector' = "evaluate"
  /\ nodes' = observed
  /\ UNCHANGED <<counts, last_selected, action_vars, flash, active, selected,
                 period, recent>>
  /\ CollectorKeeps

\* Both online, a wireless child, and attached elsewhere.
MismatchIn(observed, n, p) ==
  /\ {n, p} \subseteq observed.online
  /\ n # Gateway /\ n \notin observed.wired
  /\ observed.parent[n] # p

Mismatch(n, p) == MismatchIn(nodes, n, p)

\* topology_lock_expected_parent_settled_locked, for a Parent that is online.
Settled(p) ==
  \/ p = Gateway \/ p \in nodes.wired
  \/ ParentIn(mappings, p) # None /\ nodes.parent[p] = ParentIn(mappings, p)

\* Mutation of Counted: a match does not end the sequence.
CountedEver(n, p, moving) ==
  IF ~Mismatch(n, p) \/ moving = n THEN counts[n] ELSE Least(counts[n] + 1, Confirmations)

\* Mutation of Counted: eight bits that go on past the threshold, and wrap.
CountedOn(n, p, moving) ==
  IF ~Mismatch(n, p) THEN 0
  ELSE IF moving = n THEN counts[n] ELSE (counts[n] + 1) % 2^8

\* While the Node is being moved, mismatches are not counted; the count stops
\* at the threshold.
Counted(n, p, moving) ==
  IF ~Mismatch(n, p) THEN 0
  ELSE IF moving = n THEN counts[n] ELSE Least(counts[n] + 1, Confirmations)

\* The Node whose operation is active, or none when its mutex is not given in time.
ActiveReads == {active} \cup {None : ok \in LockOutcomes \ {TRUE}}

Entries == {mappings[i] : i \in DOMAIN mappings}

\* The mappings that may be acted upon; resting Nodes were restarted by hand.
Candidates(resting, moving) ==
  {i \in DOMAIN mappings :
     LET n == mappings[i].node  p == mappings[i].parent IN
     /\ Mismatch(n, p) /\ moving # n
     /\ counts'[n] >= Confirmations
     /\ Settled(p) /\ n \notin resting}

\* Mutation of Start: each scan begins at the first mapping.
StartAtFirst == 1

\* The scan begins behind the Node that was selected last.
Start ==
  IF \E i \in DOMAIN mappings : mappings[i].node = last_selected
    THEN 1 + ((CHOOSE i \in DOMAIN mappings : mappings[i].node = last_selected)
                % Len(mappings))
    ELSE 1

\* The least deep candidate, the first of them in the order of the scan.
Selected(candidates) ==
  LET turn(i)  == (i + Len(mappings) - Start) % Len(mappings)
      depth(i) == Depth(mappings[i].node)
  IN CHOOSE i \in candidates : \A j \in candidates :
       \/ depth(i) < depth(j)
       \/ depth(i) = depth(j) /\ turn(i) <= turn(j)

\* The generations the evaluation of this lock rests on.
Latest(observed) ==
  IF Len(observed) > Confirmations THEN Tail(observed) ELSE observed

\* evaluate_topology_lock, its section under topology_lock_mutex.
Evaluate(resting, counting, selecting) ==
  /\ collector = "evaluate"
  /\ counts' = [n \in Nodes |->
       IF ParentIn(mappings, n) = None THEN counts[n]
       ELSE Counted(n, ParentIn(mappings, n), counting)]
  /\ IF Remaining = 0 /\ Candidates(resting, selecting) # {}
       THEN /\ selected' = mappings[Selected(Candidates(resting, selecting))]
            /\ collector' = "preflight"
       ELSE collector' = "idle" /\ UNCHANGED selected
  /\ recent' = IF mappings = <<>> THEN <<>> ELSE Latest(Append(recent, nodes))
  /\ UNCHANGED <<last_selected, action_vars, flash, nodes, active, period>>
  /\ CollectorKeeps

\* ... when the mutex is not given in time.
SkipEvaluation ==
  /\ FALSE \in LockOutcomes
  /\ collector = "evaluate"
  /\ collector' = "idle"
  /\ UNCHANGED <<counts, last_selected, action_vars, flash, nodes, active,
                 selected, period, recent>>
  /\ CollectorKeeps

\* The Parent of a wired Node is what the lock says it is.
Uplink(n) == IF n \in nodes.wired /\ ParentIn(mappings, n) # None
               THEN ParentIn(mappings, n) ELSE nodes.parent[n]

\* The Nodes that hang below n: the least set with the children of its members.
Descendants(n) ==
  LET Children(S) == {m \in Nodes : Uplink(m) \in S}
      below[k \in 0..Cardinality(Nodes)] == IF k = 0 THEN Children({n})
                         ELSE below[k - 1] \cup Children(below[k - 1])
  IN below[Cardinality(Nodes)]

\* Mutation of RunPreflight: the descendants are those observed, wired or not.
PreflightByReports(ok) ==
  /\ collector = "preflight"
  /\ IF ok /\ nodes.parent[selected.parent] # selected.node
       THEN collector' = "conflict" /\ UNCHANGED selected
       ELSE collector' = "idle" /\ selected' = NoMove
  /\ UNCHANGED <<counts, last_selected, action_vars, flash, nodes, active,
                 period, recent>>
  /\ CollectorKeeps

\* mqtt_preflight; what Evaluate has found in the same generation holds.
RunPreflight(ok) ==
  /\ collector = "preflight"
  /\ IF ok /\ selected.parent \notin Descendants(selected.node)
       THEN collector' = "conflict" /\ UNCHANGED selected
       ELSE collector' = "idle" /\ selected' = NoMove
  /\ UNCHANGED <<counts, last_selected, action_vars, flash, nodes, active,
                 period, recent>>
  /\ CollectorKeeps

\* ... and its last call: by now the lock may ask for another Parent; a lock
\* that was stopped asks for none.
CheckConflict(ok) ==
  /\ collector = "conflict"
  /\ IF ok /\ ParentIn(mappings, selected.node) \in {None, selected.parent}
       THEN collector' = "queue" /\ UNCHANGED selected
       ELSE collector' = "idle" /\ selected' = NoMove
  /\ UNCHANGED <<counts, last_selected, action_vars, flash, nodes, active,
                 period, recent>>
  /\ CollectorKeeps

\* queue_topology_lock_mqtt_operation: accepted, or refused because of the
\* mode, the capability, a move of this Node a minute ago, or another operation.
QueueMove ==
  /\ collector = "queue" /\ active = None
  /\ collector' = "note"
  /\ active' = selected.node
  /\ UNCHANGED <<counts, last_selected, action_vars, flash, nodes, selected,
                 period, recent>>
  /\ CollectorKeeps

RefuseMove ==
  /\ collector = "queue"
  /\ collector' = "idle" /\ selected' = NoMove
  /\ UNCHANGED <<counts, last_selected, action_vars, flash, nodes, active,
                 period, recent>>
  /\ CollectorKeeps

\* The last section: the turn passes on and the period begins.
NoteMove(ok, saved) ==
  /\ collector = "note"
  /\ collector' = "idle" /\ selected' = NoMove
  /\ IF ok
       THEN /\ last_selected' = selected.node
            /\ StampNow
            /\ Persist(saved)
            /\ period' = [noted |-> IF saved THEN "flash" ELSE "ram",
                          gap |-> 0, limit |-> rate]
       ELSE UNCHANGED <<last_selected, action_vars, flash>> /\ period' = NoPeriod
  /\ UNCHANGED <<counts, nodes, active, recent>>
  /\ CollectorKeeps

--------------------------------------------------------------------------------
(* HTTP task, worker and loop. *)

OthersKeep == UNCHANGED <<clock_vars, nodes, collector_vars, reboots>>

\* topology_lock_post_handler up to its lock: the mapping is held against the
\* generation cached now.
AskForLock(ms) ==
  /\ http = "idle"
  /\ Valid(ms)
  /\ http' = "set" /\ http_mappings' = ms
  /\ UNCHANGED <<lock_vars, action_vars, rate, flash, active, period, recent>>
  /\ OthersKeep

\* persist_topology_lock_locked with ms and the last Node selected that is in it.
Kept(ms) == IF last_selected \in {ms[i].node : i \in DOMAIN ms} THEN last_selected
            ELSE None
Written(ms, saved) ==
  flash' = IF saved THEN [mappings |-> ms, last_selected |-> Kept(ms),
                          stamp |-> stamp, since |-> EpochAge(stamp, since)]
           ELSE flash

\* What was seen is not held against the lock that follows, unless a Node has
\* been selected already.
Forget == recent' = IF selected = NoMove THEN <<>> ELSE recent

\* Mutation of Replace: no rollback when flash refuses the lock.
ReplaceWithoutRollback(ms, saved) ==
  /\ mappings' = ms /\ last_selected' = Kept(ms)
  /\ counts' = NoCounts /\ Forget
  /\ Written(ms, saved) /\ NoteFollows(saved)

\* The lock becomes ms, and stays what it was when flash refuses it, except
\* that the counts begin anew.
Replace(ms, saved) ==
  /\ mappings' = IF saved THEN ms ELSE mappings
  /\ last_selected' = IF saved THEN Kept(ms) ELSE last_selected
  /\ counts' = NoCounts /\ Forget
  /\ Written(ms, saved) /\ NoteFollows(saved)

SetLock(ok, saved) ==
  /\ http = "set"
  /\ http' = "idle" /\ http_mappings' = <<>>
  /\ IF ok THEN Replace(http_mappings, saved)
     ELSE UNCHANGED <<lock_vars, flash, period, recent>>
  /\ UNCHANGED <<action_vars, rate, active>>
  /\ OthersKeep

\* ... with "enabled": false.
StopLock(saved) ==
  /\ http = "idle"
  /\ Replace(<<>>, saved)
  /\ UNCHANGED <<http_vars, action_vars, rate, active>>
  /\ OthersKeep

\* set_topology_lock_cooldown_seconds; a write that fails is taken back.
SetRate(r) ==
  /\ rate # r
  /\ rate' = r
  /\ period' = Running([period EXCEPT !.limit = Least(@, r)])
  /\ UNCHANGED <<lock_vars, action_vars, flash, active, http_vars, recent>>
  /\ OthersKeep

\* process_parent_restart_request: an accepted restart begins a period too.
StampRestart(saved) ==
  /\ ParentRestarts
  /\ StampNow
  /\ UNCHANGED lock_vars /\ Persist(saved) /\ NoteFollows(saved)
  /\ UNCHANGED <<rate, active, http_vars, recent>>
  /\ OthersKeep

\* Operations of the page, and the end of any operation.
MoveByHand(n) ==
  /\ active = None
  /\ active' = n
  /\ UNCHANGED <<lock_vars, action_vars, rate, flash, http_vars, period, recent>>
  /\ OthersKeep

EndOperation ==
  /\ active # None
  /\ active' = None
  /\ UNCHANGED <<lock_vars, action_vars, rate, flash, http_vars, period, recent>>
  /\ OthersKeep

--------------------------------------------------------------------------------
(* Time and reboots. *)

Older(age) == Least(age + 1, MaxRate)

\* A tick of the clocks; the collector is not in the middle of its sections,
\* which are milliseconds apart.
Tick ==
  /\ collector \in {"idle", "evaluate"}
  /\ since' = Older(since) /\ flash' = [flash EXCEPT !.since = Older(@)]
  /\ boot_age' = Older(boot_age)
  /\ period' = Running([period EXCEPT !.gap = Older(@)])
  /\ UNCHANGED <<lock_vars, stamp, seen, rate, clock_set, nodes, active,
                 collector_vars, http_vars, reboots, recent>>

SyncClock ==
  /\ ~clock_set
  /\ clock_set' = TRUE
  /\ UNCHANGED <<lock_vars, action_vars, rate, flash, boot_age, nodes, active,
                 collector_vars, http_vars, reboots, period, recent>>

\* Mutation of Load: an action of unknown time is over.
LoadForgetful ==
  /\ mappings' = flash.mappings /\ last_selected' = flash.last_selected
  /\ stamp' = flash.stamp
  /\ seen' = FALSE
  /\ since' = flash.since

\* load_topology_lock: an action of unknown time counts as one of now.
Load ==
  /\ mappings' = flash.mappings /\ last_selected' = flash.last_selected
  /\ stamp' = flash.stamp
  /\ seen' = (flash.stamp = "unknown")
  /\ since' = IF flash.stamp = "unknown" THEN 0 ELSE flash.since

Reboot ==
  /\ reboots < MaxReboots
  /\ reboots' = reboots + 1
  /\ Load
  /\ counts' = NoCounts
  /\ boot_age' = 0 /\ clock_set' = FALSE
  /\ nodes' = Nothing /\ active' = None
  /\ collector' = "idle" /\ selected' = NoMove
  /\ http' = "idle" /\ http_mappings' = <<>>
  /\ period' = IF period.noted = "flash" THEN period ELSE NoPeriod
  /\ recent' = <<>>
  /\ UNCHANGED <<rate, flash>>

--------------------------------------------------------------------------------

CollectorRuns ==
  \/ \E resting \in Resting, counting, selecting \in ActiveReads :
       Evaluate(resting, counting, selecting)
  \/ SkipEvaluation
  \/ \E ok \in LockOutcomes :
       \/ RunPreflight(ok) \/ CheckConflict(ok)
       \/ \E saved \in WriteOutcomes : NoteMove(ok, saved)
  \/ RefuseMove

Collect == \E observed \in Observations : StoreGeneration(observed)

HttpSets == \E ok \in LockOutcomes, saved \in WriteOutcomes : SetLock(ok, saved)

Next ==
  \/ Collect \/ CollectorRuns \/ QueueMove
  \/ (\E ms \in Requests : AskForLock(ms)) \/ HttpSets
  \/ \E saved \in WriteOutcomes : StopLock(saved) \/ StampRestart(saved)
  \/ (\E r \in Rates : SetRate(r))
  \/ (\E n \in ManualMoves : MoveByHand(n)) \/ EndOperation
  \/ Tick \/ SyncClock \/ Reboot

Spec == Init /\ [][Next]_vars

\* The collector polls, handlers and operations end, and time passes; an
\* operation is accepted again and again.
Fairness ==
  /\ WF_vars(Collect) /\ WF_vars(CollectorRuns) /\ SF_vars(QueueMove)
  /\ WF_vars(HttpSets) /\ WF_vars(EndOperation) /\ SF_vars(Tick)

FairSpec == Spec /\ Fairness

--------------------------------------------------------------------------------
(* Properties. *)

\* Every variable keeps to the values the program can give it.
TypeOK ==
  /\ mappings \in Requests \cup {<<>>}
  /\ counts \in [Nodes -> 0..Confirmations]
  /\ last_selected \in Nodes \cup {None}
  /\ stamp \in Stamps /\ since \in 0..MaxRate /\ seen \in BOOLEAN
  /\ rate \in Rates
  /\ flash \in [mappings : Requests \cup {<<>>},
                last_selected : Nodes \cup {None},
                stamp : Stamps, since : 0..MaxRate]
  /\ boot_age \in 0..MaxRate /\ clock_set \in BOOLEAN
  /\ nodes \in Observations \cup {Nothing}
  /\ active \in Nodes \cup {None}
  /\ collector \in CollectorPCs /\ selected \in Entry \cup {NoMove}
  /\ http \in {"idle", "set"} /\ http_mappings \in Requests \cup {<<>>}
  /\ reboots \in 0..MaxReboots
  /\ period \in [noted : {"no", "ram", "flash"}, gap : 0..MaxRate, limit : 1..MaxRate]
  /\ recent \in Seq(Observations \cup {Nothing}) /\ Len(recent) <= Confirmations

\* A move of the lock leaves the collector for the queue.
MoveQueued == collector = "queue" /\ collector' = "note"

\* README: a Node is moved when "the mismatch has appeared in three consecutive
\* snapshots": whatever the page, other operations and failed writes do between
\* the sections, the generations that were evaluated last all showed it, with
\* the Parent it is then moved to.
MovesAreConfirmed ==
  [][MoveQueued =>
       /\ Len(recent) = Confirmations
       /\ \A i \in DOMAIN recent :
            MismatchIn(recent[i], selected.node, selected.parent)]_vars

\* README: the rate limit is persistent and global: two moves are at least one
\* period apart, whichever Nodes they are for, across changes of the rate, stops
\* of the lock, Parent restarts and, when the first was saved, restarts of the
\* ESP32 with or without NTP.
OneMovePerPeriod == [][MoveQueued => period = NoPeriod]_vars

\* A saved lock is a tree: no set of Nodes has all its Parents within itself, so
\* that every way up ends at the gateway, also after a restart.
LockIsTree ==
  \A S \in (SUBSET {m.node : m \in Entries}) \ {{}} :
    \E n \in S : ParentIn(mappings, n) \notin S

\* The lock in force is the one a restart would bring back, whichever writes
\* to flash fail.
LockIsSaved == mappings = flash.mappings

\* The preflight lets a Node move only if its new way up ends at the gateway or
\* outside the mesh and never meets the Node itself, although wired Nodes report
\* no Parent of their own and a half-moved tree need not look like the lock.
MovesKeepTheTree ==
  [][collector = "preflight" /\ collector' = "conflict" =>
       \E S \in SUBSET Nodes :
         /\ selected.parent \in S /\ selected.node \notin S
         /\ \A n \in S : Uplink(n) \in S \cup {None}]_vars

\* n is to be moved, may be, and nobody nearer to the gateway is to be.
Claims(n) ==
  LET p == ParentIn(mappings, n) IN
  /\ Mismatch(n, p) /\ Settled(p) /\ p \notin Descendants(n)
  /\ \A m \in Entries : Mismatch(m.node, m.parent) => Depth(n) <= Depth(m.node)

\* README: "nodes at the same depth rotate fairly": a Node that stays drifted is
\* moved again and again, although the moves of its siblings fail for ever.
TurnsAreFair ==
  \A n \in Nodes : <>[](Claims(n) /\ http = "idle") => []<>(active = n)

================================================================================
