------------------------------ MODULE SnapshotCache -----------------------------
(***************************************************************************)
(* The topology cache of meshscope_edge.h: the collector asks the gateway   *)
(* for the READ_ACTIONS one by one, compresses every answer and stores them *)
(* together as a generation; the single HTTP task serves that generation,   *)
(* waits for a newer one, or reads a setting out of it; the MQTT worker     *)
(* looks a Parent radio up in it.                                           *)
(*                                                                         *)
(* memory_mutex is held through a whole collection, a whole response and a  *)
(* look-up; snapshot_mutex guards the generation and is only taken behind   *)
(* it, except for the short reads of current_generation, which are one      *)
(* action here.  jnap_mutex is a leaf (nothing is taken under it): a        *)
(* request to the gateway is one action that may fail.                      *)
(***************************************************************************)
EXTENDS Integers, Sequences, FiniteSets

CONSTANTS
  Psram,          (* external_memory_size() > 0                               *)
  Requests,       (* bound: the endpoints that are called                     *)
  Reports,        (* bound: what a child neighbour scan can say               *)
  MaxCollections, (* bound: collections begun                                 *)
  TakeOutcomes    (* {TRUE}, or BOOLEAN when a bounded take may time out      *)

ASSUME CacheAssumption ==
  /\ Psram \in BOOLEAN
  /\ Requests \subseteq {"topology", "refresh", "node", "settings"}
  /\ Reports \subseteq {"visible", "absent", "none"} /\ Reports # {}
  /\ MaxCollections \in Nat \ {0}
  /\ TakeOutcomes \subseteq BOOLEAN /\ TRUE \in TakeOutcomes

VARIABLES
  owner,      (* holder of memory_mutex and of snapshot_mutex                 *)
  snapshot,   (* the cached generation and its entries                        *)
  generation, (* collector_task's counter                                     *)
  candidate,  (* entries collected so far                                     *)
  collector,
  http, kind, (* where the HTTP task is, and in which handler                 *)
  reply,      (* generation announced to the client, and entries streamed     *)
  previous,   (* generation refresh_handler waits to be exceeded              *)
  client,     (* Client Steering as node_steering_mode_handler read it        *)
  gateway,    (* Client Steering as the gateway has it                        *)
  worker, attempt,
  checked,    (* generation the worker last looked the target up in           *)
  \* History, read by properties only.
  collection, (* collections begun; entries carry the one that asked for them *)
  cached,     (* generation cached when the refresh was asked for             *)
  absent_in,  (* generations in which the target was looked for in vain       *)
  late        (* tasks whose wait for a generation ran out of time            *)

cache_vars     == <<snapshot, generation>>
collector_vars == <<collector, candidate, collection>>
http_vars      == <<http, kind, reply, previous, client, cached>>
worker_vars    == <<worker, attempt, checked, absent_in>>

vars == <<owner, cache_vars, collector_vars, http_vars, gateway,
          worker_vars, late>>

--------------------------------------------------------------------------------
(* Types.  Of the eleven READ_ACTIONS these are read back by name, or handed    *)
(* over: the device list is the last one of all.                                *)

READ_ACTIONS == <<"GetNodeNeighborInfo", "GetTopologyOptimizationSettings2",
                  "GetDevices3">>
Last == Len(READ_ACTIONS)
DeviceList(i) == i = Last

Locks  == {"memory", "snapshot"}
Tasks  == {"collector", "http", "worker"}
NoTask == "none"

\* Client Steering is as the household chose it, or the default of the code.  An
\* entry whose buffer was handed over keeps its size and loses its bytes.
Settings   == {"chosen", "default"}
Unreadable == "handed-over"
Answers(i) == CASE i = 1 -> Reports
                [] i = 2 -> {gateway, "_Error"}
                [] i \notin {1, 2} -> {"OK", "_ErrorUnauthorized"}
Bodies     == {"visible", "absent", "none", "OK", "_Error", "_ErrorUnauthorized",
               Unreadable}
Entries    == [from : 1..MaxCollections, body : Bodies \cup Settings]
Entry(body) == [from |-> collection, body |-> body]

NoReply == [generation |-> 0, sent |-> <<>>]
WorkerIdle == {"idle", "proceed", "reject"}

Init ==
  /\ owner = [l \in Locks |-> NoTask]
  /\ snapshot = [generation |-> 0, entries |-> <<>>] /\ generation = 0
  /\ collector = "wait" /\ candidate = <<>> /\ collection = 0
  /\ http = "idle" /\ kind = "none" /\ reply = NoReply
  /\ previous = 0 /\ cached = 0 /\ client = "default"
  /\ gateway = "chosen"
  /\ worker = "idle" /\ attempt = 0 /\ checked = 0 /\ absent_in = {}
  /\ late = {}

Takes(t, l) == owner[l] = NoTask /\ owner' = [owner EXCEPT ![l] = t]
TimesOut    == FALSE \in TakeOutcomes
Gives(t)    == owner' = [l \in Locks |-> IF owner[l] = t THEN NoTask ELSE owner[l]]

\* current_generation() returns g: 0 when snapshot_mutex is not to be had.
CurrentGeneration(g) == \/ owner["snapshot"] = NoTask /\ g = snapshot.generation
                        \/ TimesOut /\ g = 0

--------------------------------------------------------------------------------
(* The collector. *)

\* Mutation of BeginCollect: the collection does not ask for the workspace.
BeginCollectUnlocked ==
  /\ collector = "wait" /\ collection < MaxCollections
  /\ collector' = "ask" /\ candidate' = <<>> /\ collection' = collection + 1
  /\ UNCHANGED <<owner, cache_vars, http_vars, gateway, worker_vars, late>>
\* The notification or the interval ends the wait; the workspace is taken, or
\* the round is given up.
BeginCollect ==
  /\ collector = "wait" /\ collection < MaxCollections
  /\ Takes("collector", "memory")
  /\ collector' = "ask" /\ candidate' = <<>> /\ collection' = collection + 1
  /\ UNCHANGED <<cache_vars, http_vars, gateway, worker_vars, late>>

\* collect_snapshot returns false, and its entries with their buffers are lost.
Fail == collector' = "release" /\ candidate' = <<>>

\* A request fails, or is answered with HTTP status 200.
AskRouter ==
  /\ collector = "ask"
  /\ \/ Fail
     \/ LET i == Len(candidate) + 1 IN
        \E body \in Answers(i) : /\ candidate' = Append(candidate, Entry(body))
                                 /\ collector' = "compress"
  /\ UNCHANGED <<owner, cache_vars, collection, http_vars, gateway,
                 worker_vars, late>>

\* Without PSRAM the new device list is compressed into the buffer of the
\* cached one, which leaves the cache with an empty string.
HandOver(s) == IF s.entries = <<>> THEN s
               ELSE [s EXCEPT !.entries[Last].body = Unreadable]
ReuseBuffer(i) ==
  \/ DeviceList(i) /\ ~Psram /\ owner["snapshot"] = NoTask
     /\ snapshot' = HandOver(snapshot)
  \/ DeviceList(i) /\ ~Psram /\ TimesOut /\ UNCHANGED snapshot
  \/ (~DeviceList(i) \/ Psram) /\ UNCHANGED snapshot

\* Mutation of Compress: the entries go straight into the cache.
CompressInPlace ==
  LET i == Len(candidate) IN
  /\ collector = "compress"
  /\ \/ Fail /\ UNCHANGED snapshot
     \/ /\ snapshot' = IF snapshot.entries = <<>> THEN snapshot
                       ELSE [snapshot EXCEPT !.entries[i] = candidate[i]]
        /\ collector' = IF DeviceList(i) THEN "store" ELSE "ask"
        /\ UNCHANGED candidate
  /\ UNCHANGED <<owner, generation, collection, http_vars, gateway, worker_vars,
                 late>>

\* Memory may be short; a device list that is not "OK" is only refused here.
Compress ==
  LET i == Len(candidate) IN
  /\ collector = "compress"
  /\ ReuseBuffer(i)
  /\ \/ Fail
     \/ /\ ~DeviceList(i)
        /\ collector' = "ask" /\ UNCHANGED candidate
     \/ /\ DeviceList(i) /\ candidate[i].body = "OK"
        /\ collector' = "store" /\ UNCHANGED candidate
  /\ UNCHANGED <<owner, generation, collection, http_vars, gateway,
                 worker_vars, late>>

\* Mutation of Store: the generation is counted twice.
StoreCountingTwice ==
  /\ collector = "store"
  /\ generation' = generation + 2
  /\ snapshot' = [generation |-> generation + 2, entries |-> candidate]
  /\ collector' = "release" /\ candidate' = <<>>
  /\ UNCHANGED <<owner, collection, http_vars, gateway, worker_vars, late>>

\* The generation is counted before snapshot_mutex is asked for.
Store ==
  /\ collector = "store"
  /\ generation' = generation + 1
  /\ \/ /\ owner["snapshot"] = NoTask
        /\ snapshot' = [generation |-> generation + 1, entries |-> candidate]
     \/ TimesOut /\ UNCHANGED snapshot
  /\ collector' = "release" /\ candidate' = <<>>
  /\ UNCHANGED <<owner, collection, http_vars, gateway, worker_vars, late>>

EndCollect ==
  /\ collector = "release" /\ collector' = "wait"
  /\ Gives("collector")
  /\ UNCHANGED <<cache_vars, candidate, collection, http_vars, gateway,
                 worker_vars, late>>

CollectorNext == BeginCollect \/ AskRouter \/ Compress \/ Store \/ EndCollect

--------------------------------------------------------------------------------
(* The HTTP task: one handler at a time.                                       *)

\* The handlers that only differ in what they do with the workspace start at
\* "memory"; refresh_handler ends in topology_handler.
Accept(k) ==
  /\ http = "idle" /\ kind' = k
  /\ http' = IF k = "refresh" THEN "previous" ELSE "memory"
  /\ late' = late \ {"http"}
  /\ UNCHANGED <<owner, cache_vars, collector_vars, reply, previous, client,
                 cached, gateway, worker_vars>>

\* The answer is given and everything is released.
Reply == /\ http' = "idle" /\ kind' = "none" /\ reply' = NoReply
         /\ previous' = 0 /\ cached' = 0 /\ client' = "default"

ReadPrevious ==
  /\ http = "previous" /\ http' = "poll"
  /\ \E g \in 0..MaxCollections : CurrentGeneration(g) /\ previous' = g
  /\ cached' = snapshot.generation
  /\ UNCHANGED <<owner, cache_vars, collector_vars, kind, reply, client,
                 gateway, worker_vars, late>>

\* Mutation of Newer: < for <= in the loop.
NotOlder(current, seen) == current >= seen
Newer(current, seen) == current > seen

\* Mutation of AwaitRefresh: a loop without its 20 seconds.
AwaitRefreshForEver ==
  /\ http = "poll" /\ http' = "memory"
  /\ \E g \in 0..MaxCollections : CurrentGeneration(g) /\ Newer(g, previous)
  /\ UNCHANGED <<owner, cache_vars, collector_vars, kind, reply, previous, client,
                 cached, gateway, worker_vars, late>>

\* The loop of refresh_handler ends with a newer generation or with its time.
AwaitRefresh ==
  /\ http = "poll" /\ http' = "memory"
  /\ \/ /\ \E g \in 0..MaxCollections : CurrentGeneration(g) /\ Newer(g, previous)
        /\ UNCHANGED late
     \/ late' = late \cup {"http"}
  /\ UNCHANGED <<owner, cache_vars, collector_vars, kind, reply, previous, client,
                 cached, gateway, worker_vars>>

TakeMemory ==
  /\ http = "memory"
  /\ \/ /\ Takes("http", "memory") /\ http' = "snapshot"
        /\ UNCHANGED <<kind, reply, previous, cached, client>>
     \/ TimesOut /\ Reply /\ UNCHANGED owner
  /\ UNCHANGED <<cache_vars, collector_vars, gateway, worker_vars, late>>

\* Mutation of TakeSnapshot: an error path that keeps memory_mutex.
TakeSnapshotKeepingMemory ==
  /\ http = "snapshot"
  /\ \/ /\ Takes("http", "snapshot") /\ http' = "serve"
        /\ reply' = [generation |-> snapshot.generation, sent |-> <<>>]
        /\ UNCHANGED <<kind, previous, cached, client>>
     \/ TimesOut /\ UNCHANGED owner /\ Reply
  /\ UNCHANGED <<cache_vars, collector_vars, gateway, worker_vars, late>>

\* topology_handler answers 503 before the first generation; the others find no
\* entry then, when they look.
TakeSnapshot ==
  /\ http = "snapshot"
  /\ \/ /\ Takes("http", "snapshot") /\ http' = "serve"
        /\ reply' = [generation |-> snapshot.generation, sent |-> <<>>]
        /\ UNCHANGED <<kind, previous, cached, client>>
     \/ TimesOut /\ Gives("http") /\ Reply
  /\ UNCHANGED <<cache_vars, collector_vars, gateway, worker_vars, late>>

\* topology_handler streams the next entry; an entry without its bytes, a lack
\* of memory or a client that is gone ends the response short.
StreamEntry ==
  LET next == snapshot.entries[Len(reply.sent) + 1] IN
  /\ http = "serve" /\ kind \in {"topology", "refresh"}
  /\ Len(reply.sent) < Len(snapshot.entries)
  /\ \/ /\ next.body # Unreadable
        /\ reply' = [reply EXCEPT !.sent = Append(@, next)]
        /\ UNCHANGED <<owner, http, kind, previous, cached, client>>
     \/ Gives("http") /\ Reply
  /\ UNCHANGED <<cache_vars, collector_vars, gateway, worker_vars, late>>

EndTopology ==
  /\ http = "serve" /\ kind \in {"topology", "refresh"}
  /\ Len(reply.sent) = Len(snapshot.entries)
  /\ Gives("http") /\ Reply
  /\ UNCHANGED <<cache_vars, collector_vars, gateway, worker_vars, late>>

\* resolve_node asks the gateway with both mutexes held; a Node it knows is
\* then asked itself, under a second take of memory_mutex.
ResolveNode ==
  /\ http = "serve" /\ kind = "node"
  /\ Gives("http")
  /\ \/ /\ http' = "node"
        /\ reply' = NoReply /\ UNCHANGED <<kind, previous, cached, client>>
     \/ Reply
  /\ UNCHANGED <<cache_vars, collector_vars, gateway, worker_vars, late>>

TakeMemoryForNode ==
  /\ http = "node"
  /\ \/ /\ Takes("http", "memory") /\ http' = "ask-node"
        /\ UNCHANGED <<kind, reply, previous, cached, client>>
     \/ TimesOut /\ Reply /\ UNCHANGED owner
  /\ UNCHANGED <<cache_vars, collector_vars, gateway, worker_vars, late>>

AskNode ==
  /\ http = "ask-node"
  /\ Gives("http") /\ Reply
  /\ UNCHANGED <<cache_vars, collector_vars, gateway, worker_vars, late>>

\* What current_topology_optimization_settings finds in the cache, when the heap
\* has room to expand it.
SettingsAreCached ==
  snapshot.entries # <<>> /\ snapshot.entries[2].body \in Settings

\* Mutation of ReadSettings: a default stands in for settings not cached.
ReadSettingsOrDefault ==
  /\ http = "serve" /\ kind = "settings"
  /\ Gives("http")
  /\ client' = IF SettingsAreCached THEN snapshot.entries[2].body ELSE "default"
  /\ http' = "set" /\ reply' = NoReply
  /\ UNCHANGED <<kind, previous, cached, cache_vars, collector_vars, gateway,
                 worker_vars, late>>

ReadSettings ==
  /\ http = "serve" /\ kind = "settings"
  /\ Gives("http")
  /\ \/ /\ SettingsAreCached /\ client' = snapshot.entries[2].body
        /\ http' = "set" /\ reply' = NoReply
        /\ UNCHANGED <<kind, previous, cached>>
     \/ Reply
  /\ UNCHANGED <<cache_vars, collector_vars, gateway, worker_vars, late>>

\* SetTopologyOptimizationSettings2 replaces both settings, or is refused.
SetSettings ==
  /\ http = "set"
  /\ gateway' \in {client, gateway}
  /\ Reply
  /\ UNCHANGED <<owner, cache_vars, collector_vars, worker_vars, late>>

HttpStep == \/ ReadPrevious \/ AwaitRefresh \/ TakeMemory \/ TakeSnapshot
            \/ StreamEntry \/ EndTopology \/ ResolveNode \/ TakeMemoryForNode
            \/ AskNode \/ ReadSettings \/ SetSettings
HttpNext == (\E k \in Requests : Accept(k)) \/ HttpStep

--------------------------------------------------------------------------------
(* The MQTT worker: is the Parent radio visible to the child?                  *)

\* A steering operation has found the target radio of its Parent.
BeginLookUp ==
  /\ worker \in WorkerIdle /\ worker' = "memory"
  /\ attempt' = 0 /\ checked' = 0 /\ absent_in' = {}
  /\ late' = late \ {"worker"}
  /\ UNCHANGED <<owner, cache_vars, collector_vars, http_vars, gateway>>

\* A workspace that is busy counts as a child that has reported nothing.
WorkerTakesMemory ==
  /\ worker = "memory"
  /\ \/ Takes("worker", "memory") /\ worker' = "snapshot"
     \/ TimesOut /\ worker' = "proceed" /\ UNCHANGED owner
  /\ UNCHANGED <<cache_vars, collector_vars, http_vars, gateway, attempt,
                 checked, absent_in, late>>

WorkerTakesSnapshot ==
  /\ worker = "snapshot"
  /\ \/ Takes("worker", "snapshot") /\ worker' = "look-up"
     \/ TimesOut /\ worker' = "proceed" /\ Gives("worker")
  /\ UNCHANGED <<cache_vars, collector_vars, http_vars, gateway, attempt,
                 checked, absent_in, late>>

\* Mutation of Checked: snapshot_generation is not filled in.
Unset == 0
Checked == snapshot.generation

\* No report, no entry, no memory to expand it or a visible target lets the
\* operation go on; the third scan without the target rejects it, unless the
\* Parent itself has published the whole tuple.
LookUp ==
  LET absent == snapshot.entries # <<>> /\ snapshot.entries[1].body = "absent" IN
  /\ worker = "look-up" /\ Gives("worker")
  /\ checked' = Checked
  /\ absent_in' = absent_in \cup {g \in {snapshot.generation} : absent}
  /\ \/ worker' = "proceed"
     \/ absent /\ attempt < 2 /\ worker' = "poll"
     \/ absent /\ attempt = 2 /\ worker' = "reject"
  /\ UNCHANGED <<cache_vars, collector_vars, http_vars, gateway, attempt, late>>

AwaitScan ==
  /\ worker = "poll" /\ worker' = "memory" /\ attempt' = attempt + 1
  /\ \/ /\ \E g \in 0..MaxCollections : CurrentGeneration(g) /\ Newer(g, checked)
        /\ UNCHANGED late
     \/ late' = late \cup {"worker"}
  /\ UNCHANGED <<owner, cache_vars, collector_vars, http_vars, gateway,
                 checked, absent_in>>

WorkerStep == WorkerTakesMemory \/ WorkerTakesSnapshot \/ LookUp \/ AwaitScan

--------------------------------------------------------------------------------

Next == CollectorNext \/ HttpNext \/ BeginLookUp \/ WorkerStep

\* The tasks are scheduled, takes of a mutex that is free succeed and waits end;
\* that anybody calls, or that collections go on, is not assumed.
Fairness == /\ WF_vars(CollectorNext)
            /\ WF_vars(HttpStep)
            /\ WF_vars(WorkerStep)

Spec == Init /\ [][Next]_vars
FairSpec == Spec /\ Fairness

--------------------------------------------------------------------------------
(* Properties. *)

\* Types and bounds.
TypeOK ==
  /\ owner \in [Locks -> Tasks \cup {NoTask}]
  /\ generation \in 0..collection /\ snapshot.generation \in 0..generation
  /\ snapshot.entries \in Seq(Entries) /\ Len(snapshot.entries) \in {0, Last}
  /\ candidate \in Seq(Entries) /\ Len(candidate) <= Last
  /\ collector \in {"wait", "ask", "compress", "store", "release"}
  /\ collection \in 0..MaxCollections
  /\ http \in {"idle", "previous", "poll", "memory", "snapshot", "serve", "node",
               "ask-node", "set"}
  /\ kind \in {"none", "topology", "refresh", "node", "settings"}
  /\ reply.generation \in 0..generation /\ reply.sent \in Seq(Entries)
  /\ {previous, cached, checked} \cup absent_in \subseteq 0..generation
  /\ client \in Settings /\ gateway \in Settings
  /\ worker \in {"memory", "snapshot", "look-up", "poll"} \cup WorkerIdle
  /\ attempt \in 0..2 /\ late \subseteq Tasks

\* One response shows one generation: all its entries were asked for in the same
\* collection, and it is the one whose number the response began with.
\* (topology_handler streams for seconds while the collector works; collections
\* that fail half way must leave nothing behind.)
ResponseIsOneGeneration ==
  /\ \A i, j \in DOMAIN reply.sent : reply.sent[i].from = reply.sent[j].from
  /\ reply.sent # <<>> => snapshot.generation = reply.generation

\* The answer to a refresh is newer than what was cached when it was asked for,
\* unless its 20 seconds ran out, or snapshot_mutex could not be had for the
\* first look (refresh_handler then waits for any generation at all).
RefreshAdvances ==
  http = "serve" /\ kind = "refresh" /\ "http" \notin late /\ previous = cached
    => reply.generation > cached

\* A target is rejected when three different generations did not show it to the
\* child, unless a wait for the next one ran out of time.
RejectedOnFreshScans ==
  worker = "reject" /\ "worker" \notin late => Cardinality(absent_in) = 3

\* Switching Node Steering leaves Client Steering alone as long as nobody changes
\* it elsewhere: the handler writes back what it read, and never a default.
ClientSteeringIsKept == gateway = "chosen"

\* A task that has nothing to do holds nothing, whichever return it took, and
\* nobody waits for a mutex whose holder waits for one of his.
Wants(t) ==
  {l \in Locks :
     \/ t = "http" /\ l = "memory" /\ http \in {"memory", "node"}
     \/ t = "http" /\ l = "snapshot" /\ http = "snapshot"
     \/ t = "worker" /\ l = worker
     \/ t = "collector" /\ l = "memory" /\ collector = "wait"
     \/ t = "collector" /\ l = "snapshot" /\ collector \in {"compress", "store"}}
WaitsFor(t) == {owner[l] : l \in Wants(t)} \ {NoTask}
LocksAreOrdered ==
  /\ http = "idle" => \A l \in Locks : owner[l] # "http"
  /\ worker \in WorkerIdle => \A l \in Locks : owner[l] # "worker"
  /\ collector = "wait" => \A l \in Locks : owner[l] # "collector"
  /\ \A t, u \in Tasks : ~(u \in WaitsFor(t) /\ t \in WaitsFor(u))

\* Every request is answered, refreshes of a gateway that is gone included.
RequestsAreAnswered == kind # "none" ~> kind = "none"

\* The buffer of the cached device list is only missing for a response when the
\* collection that took it has ended without storing its own.  (The comment there:
\* "Topology responses already wait on memory_mutex while collection is in
\* progress, so no client can observe the brief hand-off.")
DeviceListIsLost == \E i \in DOMAIN snapshot.entries :
                      snapshot.entries[i].body = Unreadable
HandOverIsHidden ==
  http = "serve" /\ DeviceListIsLost
    => collector = "wait" /\ snapshot.generation < collection

\* README.md: "The last complete topology remains visible, clearly marked as
\* cached, when the router is temporarily unreachable."  It does not after a
\* collection that failed on a board without PSRAM (MCCacheHandOver.cfg).
LastTopologyIsVisible == http = "serve" => ~DeviceListIsLost

================================================================================
