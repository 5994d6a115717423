--------------------------- MODULE SnapshotCacheProofs --------------------------
(***************************************************************************)
(* What SnapshotCache guarantees for any number of collections, whatever    *)
(* the gateway answers and whichever take of a mutex times out.             *)
(*                                                                         *)
(* OwnersOK says who holds which mutex where; CacheOK, that the entries of  *)
(* a generation come from one collection, which a collection that fails     *)
(* does not change; ReplyOK, that a response is a prefix of the generation  *)
(* that is cached; RefreshOK, what the wait of a refresh has seen;          *)
(* SteeringOK, where a Client Steering setting is between the gateway and   *)
(* the handler; SeenOK, that nobody is ahead of the counter; ScansOK, how   *)
(* many generations a look-up has counted, each older than the one that is  *)
(* looked at next.  ReplyOK needs OwnersOK: the collector has memory_mutex  *)
(* when it stores, so nobody is being served then.                          *)
(***************************************************************************)
EXTENDS SnapshotCache, FiniteSetTheorems, TLAPS

USE CacheAssumption

--------------------------------------------------------------------------------
(* The mutexes. *)

CollectorStages == {"wait", "ask", "compress", "store", "release"}
HttpStages == {"idle", "previous", "poll", "memory", "snapshot", "serve", "node",
               "ask-node", "set"}
WorkerStages == {"memory", "snapshot", "look-up", "poll"} \cup WorkerIdle

OwnersOK ==
  /\ collector \in CollectorStages /\ http \in HttpStages /\ worker \in WorkerStages
  /\ owner \in [Locks -> Tasks \cup {NoTask}]
  /\ owner["memory"] = "collector" <=> collector # "wait"
  /\ owner["memory"] = "http" <=> http \in {"snapshot", "serve", "ask-node"}
  /\ owner["memory"] = "worker" <=> worker \in {"snapshot", "look-up"}
  /\ owner["snapshot"] # "collector"
  /\ owner["snapshot"] = "http" <=> http = "serve"
  /\ owner["snapshot"] = "worker" <=> worker = "look-up"

LEMMA InitOwners == Init => OwnersOK
BY DEF Init, OwnersOK, CollectorStages, HttpStages, WorkerStages, WorkerIdle,
       Locks, Tasks, NoTask

LEMMA CollectorOwners == OwnersOK /\ CollectorNext => OwnersOK'
<1> SUFFICES ASSUME OwnersOK, CollectorNext PROVE OwnersOK'
  OBVIOUS
<1> USE DEF OwnersOK, CollectorStages, Locks, Tasks, NoTask, http_vars, worker_vars
<1>1. CASE BeginCollect
  BY <1>1 DEF BeginCollect, Takes
<1>2. CASE AskRouter
  BY <1>2 DEF AskRouter, Fail
<1>3. CASE Compress
  BY <1>3 DEF Compress, Fail
<1>4. CASE Store
  BY <1>4 DEF Store
<1>5. CASE EndCollect
  BY <1>5 DEF EndCollect, Gives
<1> QED
  BY <1>1, <1>2, <1>3, <1>4, <1>5 DEF CollectorNext

LEMMA HttpOwners == OwnersOK /\ HttpNext => OwnersOK'
<1> SUFFICES ASSUME OwnersOK, HttpNext PROVE OwnersOK'
  OBVIOUS
<1> USE DEF OwnersOK, HttpStages, Locks, Tasks, NoTask, collector_vars, worker_vars,
            Reply
<1>1. ASSUME NEW k \in Requests, Accept(k) PROVE OwnersOK'
  BY <1>1 DEF Accept
<1>2. CASE ReadPrevious
  BY <1>2 DEF ReadPrevious
<1>3. CASE AwaitRefresh
  BY <1>3 DEF AwaitRefresh
<1>4. CASE TakeMemory
  BY <1>4 DEF TakeMemory, Takes
<1>5. CASE TakeSnapshot
  BY <1>5 DEF TakeSnapshot, Takes, Gives
<1>6. CASE StreamEntry
  BY <1>6 DEF StreamEntry, Gives
<1>7. CASE EndTopology
  BY <1>7 DEF EndTopology, Gives
<1>8. CASE ResolveNode
  BY <1>8 DEF ResolveNode, Gives
<1>9. CASE TakeMemoryForNode
  BY <1>9 DEF TakeMemoryForNode, Takes
<1>10. CASE AskNode
  BY <1>10 DEF AskNode, Gives
<1>11. CASE ReadSettings
  BY <1>11 DEF ReadSettings, Gives
<1>12. CASE SetSettings
  BY <1>12 DEF SetSettings
<1> QED
  BY <1>1, <1>2, <1>3, <1>4, <1>5, <1>6, <1>7, <1>8, <1>9, <1>10, <1>11, <1>12
     DEF HttpNext, HttpStep

LEMMA WorkerOwners == OwnersOK /\ (BeginLookUp \/ WorkerStep) => OwnersOK'
<1> SUFFICES ASSUME OwnersOK, BeginLookUp \/ WorkerStep PROVE OwnersOK'
  OBVIOUS
<1> USE DEF OwnersOK, WorkerStages, WorkerIdle, Locks, Tasks, NoTask, collector_vars,
            http_vars
<1>1. CASE BeginLookUp
  BY <1>1 DEF BeginLookUp
<1>2. CASE WorkerTakesMemory
  BY <1>2 DEF WorkerTakesMemory, Takes
<1>3. CASE WorkerTakesSnapshot
  BY <1>3 DEF WorkerTakesSnapshot, Takes, Gives
<1>4. CASE LookUp
  BY <1>4 DEF LookUp, Gives
<1>5. CASE AwaitScan
  BY <1>5 DEF AwaitScan
<1> QED
  BY <1>1, <1>2, <1>3, <1>4, <1>5 DEF WorkerStep

LEMMA KeepsOwners == OwnersOK /\ [Next]_vars => OwnersOK'
<1> SUFFICES ASSUME OwnersOK, [Next]_vars PROVE OwnersOK'
  OBVIOUS
<1>1. CASE UNCHANGED vars
  BY <1>1 DEF OwnersOK, vars, collector_vars, http_vars, worker_vars
<1> QED
  BY <1>1, CollectorOwners, HttpOwners, WorkerOwners DEF Next

LEMMA OwnersAreOrdered == OwnersOK => LocksAreOrdered
<1> SUFFICES ASSUME OwnersOK PROVE LocksAreOrdered
  OBVIOUS
<1>1. /\ http = "idle" => \A l \in Locks : owner[l] # "http"
      /\ worker \in WorkerIdle => \A l \in Locks : owner[l] # "worker"
      /\ collector = "wait" => \A l \in Locks : owner[l] # "collector"
  BY DEF OwnersOK, Locks, WorkerIdle
<1>2. ASSUME NEW t \in Tasks, NEW u \in Tasks, u \in WaitsFor(t), t \in WaitsFor(u)
      PROVE  FALSE
  <2>1. PICK l \in Wants(t) : owner[l] = u /\ u # NoTask
    BY <1>2 DEF WaitsFor
  <2>2. PICK k \in Wants(u) : owner[k] = t /\ t # NoTask
    BY <1>2 DEF WaitsFor
  <2>3. CASE t = "http"
    BY <2>1, <2>2, <2>3 DEF OwnersOK, Wants, Locks, Tasks
  <2>4. CASE t = "worker"
    BY <2>1, <2>2, <2>4 DEF OwnersOK, Wants, Locks, Tasks
  <2>5. CASE t = "collector"
    BY <2>1, <2>2, <2>5 DEF OwnersOK, Wants, Locks, Tasks
  <2> QED
    BY <2>3, <2>4, <2>5 DEF Tasks
<1> QED
  BY <1>1, <1>2 DEF LocksAreOrdered

\* A task that has nothing to do holds nothing, and no two tasks wait for each
\* other: every return of every handler gives back what it has taken.
THEOREM LocksOrdered == Spec => []LocksAreOrdered
<1>1. Spec => []OwnersOK
  BY InitOwners, KeepsOwners, PTL DEF Spec
<1> QED
  BY <1>1, OwnersAreOrdered, PTL

--------------------------------------------------------------------------------
(* The cached generation. *)

Generations == [generation : Nat, entries : Seq(Entries)]
Collecting == collector \in {"ask", "compress", "store"}

SettingsOK == client \in Settings /\ gateway \in Settings

CacheOK ==
  /\ collection \in 0..MaxCollections /\ generation \in 0..collection
  /\ Collecting => generation < collection
  /\ snapshot \in Generations /\ snapshot.generation <= generation
  /\ Len(snapshot.entries) \in {0, Last}
  /\ \A i, j \in DOMAIN snapshot.entries :
       snapshot.entries[i].from = snapshot.entries[j].from
  /\ DeviceListIsLost => snapshot.generation < collection
  /\ candidate \in Seq(Entries) /\ Len(candidate) <= Last
  /\ collector = "ask" => Len(candidate) < Last
  /\ collector = "compress" => Len(candidate) > 0
  /\ collector = "store" => Len(candidate) = Last
  /\ Collecting => \A i \in DOMAIN candidate :
       candidate[i].from = collection /\ candidate[i].body # Unreadable

LEMMA LastIsThree == Last = 3
BY DEF Last, READ_ACTIONS

LEMMA BelowLast == \A n \in Nat : n <= Last /\ n # Last => n < Last
BY LastIsThree

LEMMA AboveOne == \A n \in Nat : n # 1 /\ n + 1 >= 2 => n >= 2
OBVIOUS

\* An answer is an entry of this collection, and has its bytes.
LEMMA AnswerIsEntry ==
  ASSUME SettingsOK, CacheOK, collector = "ask", NEW i \in Nat, NEW body \in Answers(i)
  PROVE  /\ Entry(body) \in Entries
         /\ Entry(body).from = collection /\ Entry(body).body # Unreadable
<1>1. body \in Bodies \cup Settings /\ body # Unreadable
  <2>1. CASE i = 1
    BY <2>1 DEF Answers, Bodies, Unreadable
  <2>2. CASE i = 2
    BY <2>2 DEF SettingsOK, Answers, Bodies, Settings, Unreadable
  <2>3. CASE i \notin {1, 2}
    BY <2>3 DEF Answers, Bodies, Unreadable
  <2> QED
    BY <2>1, <2>2, <2>3
<1>2. collection \in 1..MaxCollections
  BY DEF CacheOK, Collecting
<1> QED
  BY <1>1, <1>2 DEF Entry, Entries

\* Only the body of the device list goes.
LEMMA HandOverKeeps ==
  ASSUME NEW s \in Generations, Len(s.entries) \in {0, Last}
  PROVE  /\ HandOver(s) \in Generations
         /\ HandOver(s).generation = s.generation
         /\ Len(HandOver(s).entries) = Len(s.entries)
         /\ \A i \in DOMAIN s.entries :
              HandOver(s).entries[i].from = s.entries[i].from
<1>1. CASE s.entries = <<>>
  BY <1>1 DEF HandOver
<1>2. CASE s.entries # <<>>
  <2> DEFINE lost == [s.entries[Last] EXCEPT !.body = Unreadable]
  <2>1. Last \in DOMAIN s.entries /\ s.entries \in Seq(Entries)
    BY <1>2, LastIsThree DEF Generations
  <2>2. lost \in Entries /\ lost.from = s.entries[Last].from
    <3>1. s.entries[Last] \in Entries
      BY <2>1
    <3>2. Unreadable \in Bodies \cup Settings
      BY DEF Bodies
    <3> QED
      BY <3>1, <3>2 DEF Entries
  <2>3. HandOver(s) = [s EXCEPT !.entries = [s.entries EXCEPT ![Last] = lost]]
    BY <1>2, <2>1 DEF HandOver, Generations
  <2>4. [s.entries EXCEPT ![Last] = lost] \in Seq(Entries)
    BY <2>1, <2>2
  <2> HIDE DEF lost
  <2>5. /\ HandOver(s).entries = [s.entries EXCEPT ![Last] = lost]
        /\ HandOver(s).generation = s.generation
        /\ HandOver(s) \in Generations
    BY <2>3, <2>4 DEF Generations
  <2>6. /\ Len([s.entries EXCEPT ![Last] = lost]) = Len(s.entries)
        /\ \A i \in DOMAIN s.entries :
             [s.entries EXCEPT ![Last] = lost][i].from = s.entries[i].from
    BY <2>1, <2>2
  <2> QED
    BY <2>5, <2>6
<1> QED
  BY <1>1, <1>2

LEMMA InitCache == Init => CacheOK
<1> SUFFICES ASSUME Init PROVE CacheOK
  OBVIOUS
<1>1. <<>> \in Seq(Entries) /\ Len(<<>>) = 0
  OBVIOUS
<1>2. snapshot \in Generations /\ ~DeviceListIsLost
  BY <1>1 DEF Init, Generations, DeviceListIsLost
<1> QED
  BY <1>1, <1>2, LastIsThree DEF Init, CacheOK, Settings, Collecting

LEMMA CollectorCache == SettingsOK /\ CacheOK /\ CollectorNext => CacheOK'
<1> SUFFICES ASSUME SettingsOK, CacheOK, CollectorNext PROVE CacheOK'
  OBVIOUS
<1>0. <<>> \in Seq(Entries) /\ Len(<<>>) = 0 /\ DOMAIN <<>> = {}
  OBVIOUS
<1> USE DEF CacheOK, Collecting, cache_vars
<1>1. CASE BeginCollect
  <2>1. /\ collection' = collection + 1 /\ collection < MaxCollections
        /\ collector' = "ask" /\ candidate' = <<>>
        /\ UNCHANGED <<generation, snapshot>>
    BY <1>1 DEF BeginCollect
  <2>2. DeviceListIsLost' <=> DeviceListIsLost
    BY <2>1 DEF DeviceListIsLost
  <2>3. collection \in Nat /\ generation \in Nat /\ snapshot.generation \in Nat
    BY DEF Generations
  <2> QED
    BY <1>0, <2>1, <2>2, <2>3, LastIsThree
<1>2. CASE AskRouter
  <2>1. CASE Fail
    BY <1>0, <1>2, <2>1, LastIsThree DEF AskRouter, Fail, DeviceListIsLost
  <2>2. ASSUME NEW body \in Answers(Len(candidate) + 1),
               candidate' = Append(candidate, Entry(body)), collector' = "compress"
        PROVE  CacheOK'
    <3>1. collector = "ask" /\ UNCHANGED <<collection, generation, snapshot>>
      BY <1>2 DEF AskRouter
    <3>2. /\ Entry(body) \in Entries
          /\ Entry(body).from = collection /\ Entry(body).body # Unreadable
      BY <3>1, AnswerIsEntry
    <3> HIDE DEF CacheOK
    <3>3. candidate \in Seq(Entries) /\ Len(candidate) < Last /\ generation < collection
      BY <3>1 DEF CacheOK
    <3>4. /\ candidate' \in Seq(Entries) /\ Len(candidate') = Len(candidate) + 1
          /\ \A i \in DOMAIN candidate' :
               candidate'[i] = IF i <= Len(candidate) THEN candidate[i] ELSE Entry(body)
      BY <2>2, <3>2, <3>3
    <3>5. \A i \in DOMAIN candidate' :
            candidate'[i].from = collection /\ candidate'[i].body # Unreadable
      BY <3>1, <3>2, <3>3, <3>4 DEF CacheOK
    <3> QED
      BY <2>2, <3>1, <3>3, <3>4, <3>5, LastIsThree DEF CacheOK, DeviceListIsLost
  <2> QED
    BY <1>2, <2>1, <2>2 DEF AskRouter
<1>3. CASE Compress
  <2>1. /\ collector = "compress" /\ UNCHANGED <<collection, generation>>
        /\ snapshot' \in {snapshot, HandOver(snapshot)}
    BY <1>3 DEF Compress, ReuseBuffer
  <2>2. /\ snapshot' \in Generations /\ snapshot'.generation = snapshot.generation
        /\ Len(snapshot'.entries) = Len(snapshot.entries)
        /\ DOMAIN snapshot'.entries = DOMAIN snapshot.entries
        /\ \A i \in DOMAIN snapshot.entries :
             snapshot'.entries[i].from = snapshot.entries[i].from
    BY <2>1, HandOverKeeps DEF Generations
  <2>3. snapshot'.generation < collection'
    BY <2>1, <2>2 DEF Generations
  <2>4. \/ collector' = "release" /\ candidate' = <<>>
        \/ collector' \in {"ask", "store"} /\ candidate' = candidate
           /\ (collector' = "store" <=> Len(candidate) = Last)
    BY <1>3 DEF Compress, Fail, DeviceList
  <2>5. \A i, j \in DOMAIN snapshot'.entries :
          snapshot'.entries[i].from = snapshot'.entries[j].from
    BY <2>2
  <2>6. /\ candidate' \in Seq(Entries) /\ Len(candidate') <= Last
        /\ collector' = "ask" => Len(candidate') < Last
        /\ collector' = "store" => Len(candidate') = Last
        /\ collector' # "compress"
    <3>1. candidate \in Seq(Entries) /\ Len(candidate) <= Last /\ Len(candidate) \in Nat
      OBVIOUS
    <3> HIDE DEF CacheOK
    <3>2. CASE collector' = "release" /\ candidate' = <<>>
      BY <1>0, <3>2, LastIsThree
    <3>3. CASE /\ collector' \in {"ask", "store"} /\ candidate' = candidate
               /\ (collector' = "store" <=> Len(candidate) = Last)
      <4>1. Len(candidate) # Last => Len(candidate) < Last
        BY <3>1, BelowLast
      <4> QED
        BY <3>1, <3>3, <4>1, LastIsThree
    <3> QED
      BY <2>4, <3>2, <3>3
  <2>7. Collecting' => \A i \in DOMAIN candidate' :
          candidate'[i].from = collection' /\ candidate'[i].body # Unreadable
    BY <2>1, <2>4
  <2>8. /\ collection' \in 0..MaxCollections
        /\ generation' \in 0..collection' /\ generation' < collection'
        /\ snapshot'.generation <= generation' /\ Len(snapshot'.entries) \in {0, Last}
    BY <2>1, <2>2
  <2> HIDE DEF CacheOK
  <2> QED
    BY <2>2, <2>3, <2>5, <2>6, <2>7, <2>8 DEF CacheOK
<1>4. CASE Store
  <2>1. /\ collector = "store" /\ collector' = "release" /\ candidate' = <<>>
        /\ generation' = generation + 1 /\ collection' = collection
        /\ \/ snapshot' = [generation |-> generation + 1, entries |-> candidate]
           \/ snapshot' = snapshot
    BY <1>4 DEF Store
  <2>2. CASE snapshot' = snapshot
    <3>1. DeviceListIsLost' <=> DeviceListIsLost
      BY <2>2 DEF DeviceListIsLost
    <3>2. collection \in Nat /\ generation \in Nat /\ snapshot.generation \in Nat
      BY DEF Generations
    <3> QED
      BY <1>0, <2>1, <2>2, <3>1, <3>2, LastIsThree
  <2>3. CASE snapshot' = [generation |-> generation + 1, entries |-> candidate]
    <3>1. ~DeviceListIsLost'
      BY <2>1, <2>3 DEF DeviceListIsLost
    <3> QED
      BY <1>0, <2>1, <2>3, <3>1, LastIsThree DEF Generations
  <2> QED
    BY <2>1, <2>2, <2>3
<1>5. CASE EndCollect
  BY <1>5 DEF EndCollect, DeviceListIsLost
<1> QED
  BY <1>1, <1>2, <1>3, <1>4, <1>5 DEF CollectorNext

\* The other tasks read the cache and never write to it.
LEMMA CacheIsRead ==
  ASSUME HttpNext \/ BeginLookUp \/ WorkerStep
  PROVE  UNCHANGED <<snapshot, generation, collector, candidate, collection>>
<1>1. CASE HttpNext
  BY <1>1 DEF HttpNext, HttpStep, Accept, ReadPrevious, AwaitRefresh, TakeMemory,
     TakeSnapshot, StreamEntry, EndTopology, ResolveNode, TakeMemoryForNode, AskNode,
     ReadSettings, SetSettings, cache_vars, collector_vars
<1>2. CASE BeginLookUp \/ WorkerStep
  BY <1>2 DEF BeginLookUp, WorkerStep, WorkerTakesMemory, WorkerTakesSnapshot, LookUp,
     AwaitScan, cache_vars, collector_vars
<1> QED
  BY <1>1, <1>2

LEMMA KeepsSettings == SettingsOK /\ [Next]_vars => SettingsOK'
<1> SUFFICES ASSUME SettingsOK, [Next]_vars PROVE SettingsOK'
  OBVIOUS
<1> USE DEF SettingsOK, Settings, http_vars, Reply
<1>1. CASE CollectorNext \/ BeginLookUp \/ WorkerStep \/ UNCHANGED vars
  BY <1>1 DEF CollectorNext, BeginCollect, AskRouter, Compress, Store, EndCollect,
     BeginLookUp, WorkerStep, WorkerTakesMemory, WorkerTakesSnapshot, LookUp, AwaitScan,
     vars
<1>2. ASSUME NEW k \in Requests, Accept(k) PROVE SettingsOK'
  BY <1>2 DEF Accept
<1>3. CASE HttpStep
  BY <1>3 DEF HttpStep, ReadPrevious, AwaitRefresh, TakeMemory, TakeSnapshot,
     StreamEntry, EndTopology, ResolveNode, TakeMemoryForNode, AskNode, ReadSettings,
     SettingsAreCached, SetSettings
<1> QED
  BY <1>1, <1>2, <1>3 DEF Next, HttpNext

LEMMA KeepsCache == SettingsOK /\ CacheOK /\ [Next]_vars => CacheOK'
<1> SUFFICES ASSUME SettingsOK, CacheOK, [Next]_vars PROVE CacheOK'
  OBVIOUS
<1>1. CASE UNCHANGED <<snapshot, generation, collector, candidate, collection>>
  BY <1>1 DEF CacheOK, Collecting, DeviceListIsLost
<1>2. CASE UNCHANGED vars
  BY <1>1, <1>2 DEF vars, cache_vars, collector_vars
<1> QED
  BY <1>1, <1>2, CollectorCache, CacheIsRead DEF Next

LEMMA CacheInvariant == Spec => [](OwnersOK /\ SettingsOK /\ CacheOK)
<1>1. Init => SettingsOK
  BY DEF Init, SettingsOK, Settings
<1> QED
  BY <1>1, InitOwners, InitCache, KeepsOwners, KeepsSettings, KeepsCache, PTL DEF Spec

\* A response only misses the device list when the collection that took its buffer
\* has ended without storing its own: memory_mutex keeps the hand-over of
\* collect_snapshot from every reader.
THEOREM HandOverHidden == Spec => []HandOverIsHidden
<1>1. OwnersOK /\ CacheOK => HandOverIsHidden
  BY DEF OwnersOK, CacheOK, HandOverIsHidden
<1> QED
  BY <1>1, CacheInvariant, PTL

--------------------------------------------------------------------------------
(* The response.                                                               *)

ReplyOK ==
  /\ reply \in [generation : Nat, sent : Seq(Entries)]
  /\ http # "serve" => reply.sent = <<>>
  /\ http = "serve" => /\ reply.generation = snapshot.generation
                       /\ Len(reply.sent) <= Len(snapshot.entries)
  /\ \A i \in DOMAIN reply.sent : reply.sent[i] = snapshot.entries[i]

\* While a response is streamed the collector waits for memory_mutex.
LEMMA ServingStopsCollector ==
  ASSUME OwnersOK, http = "serve" PROVE ~CollectorNext
<1>1. collector = "wait" /\ owner["memory"] # NoTask
  BY DEF OwnersOK, NoTask
<1> QED
  BY <1>1 DEF CollectorNext, BeginCollect, AskRouter, Compress, Store, EndCollect, Takes

LEMMA NoEntries == <<>> \in Seq(Entries) /\ Len(<<>>) = 0 /\ DOMAIN <<>> = {}
OBVIOUS

LEMMA InitReply == Init => ReplyOK
BY NoEntries DEF Init, ReplyOK, NoReply

LEMMA CollectorReply == OwnersOK /\ ReplyOK /\ CollectorNext => ReplyOK'
<1> SUFFICES ASSUME OwnersOK, ReplyOK, CollectorNext PROVE ReplyOK'
  OBVIOUS
<1>1. UNCHANGED <<http, reply>>
  BY DEF CollectorNext, BeginCollect, AskRouter, Compress, Store, EndCollect, http_vars
<1>2. http # "serve" /\ reply.sent = <<>>
  BY ServingStopsCollector DEF ReplyOK
<1> QED
  BY <1>1, <1>2 DEF ReplyOK

\* A reply that is over or has not begun has sent nothing.
LEMMA NothingSent ==
  ASSUME http' # "serve", ReplyOK, reply' = reply \/ reply' = NoReply, reply'.sent = <<>>
  PROVE  ReplyOK'
<1>1. CASE reply' = NoReply
  BY <1>1, NoEntries DEF ReplyOK, NoReply
<1>2. CASE reply' = reply
  BY <1>2, NoEntries DEF ReplyOK
<1> QED
  BY <1>1, <1>2

LEMMA HttpReply == CacheOK /\ ReplyOK /\ HttpNext => ReplyOK'
<1> SUFFICES ASSUME CacheOK, ReplyOK, HttpNext PROVE ReplyOK'
  OBVIOUS
<1>0. UNCHANGED snapshot
  BY CacheIsRead
<1>1. CASE http # "serve" /\ http' # "serve"
  <2>1. reply.sent = <<>>
    BY <1>1 DEF ReplyOK
  <2>2. reply' = reply \/ reply' = NoReply
    BY <1>1 DEF HttpNext, HttpStep, Accept, ReadPrevious, AwaitRefresh, TakeMemory,
       TakeSnapshot, StreamEntry, EndTopology, ResolveNode, TakeMemoryForNode, AskNode,
       ReadSettings, SetSettings, Reply
  <2> QED
    BY <1>1, <2>1, <2>2, NothingSent DEF NoReply
<1>2. CASE http # "serve" /\ http' = "serve"
  <2>1. reply' = [generation |-> snapshot.generation, sent |-> <<>>]
    BY <1>2 DEF HttpNext, HttpStep, Accept, ReadPrevious, AwaitRefresh, TakeMemory,
       TakeSnapshot, StreamEntry, EndTopology, ResolveNode, TakeMemoryForNode, AskNode,
       ReadSettings, SetSettings, Reply
  <2>2. Len(snapshot.entries) \in Nat /\ snapshot.generation \in Nat
    BY DEF CacheOK, Generations
  <2> QED
    BY <1>0, <1>2, <2>1, <2>2, NoEntries DEF ReplyOK
<1>3. CASE http = "serve" /\ http' = "serve"
  <2> DEFINE next == snapshot.entries[Len(reply.sent) + 1]
  <2>1. /\ Len(reply.sent) < Len(snapshot.entries)
        /\ reply' = [reply EXCEPT !.sent = Append(@, next)]
    BY <1>3 DEF HttpNext, HttpStep, Accept, ReadPrevious, AwaitRefresh, TakeMemory,
       TakeSnapshot, StreamEntry, EndTopology, ResolveNode, TakeMemoryForNode, AskNode,
       ReadSettings, SetSettings, Reply
  <2>2. reply.sent \in Seq(Entries) /\ snapshot.entries \in Seq(Entries)
    BY DEF ReplyOK, CacheOK, Generations
  <2>3. next \in Entries
    BY <2>1, <2>2
  <2> HIDE DEF next
  <2>4. reply' \in [generation : Nat, sent : Seq(Entries)]
        /\ reply'.sent = Append(reply.sent, next) /\ reply'.generation = reply.generation
    <3>1. Append(reply.sent, next) \in Seq(Entries)
      BY <2>2, <2>3
    <3>2. reply \in [generation : Nat, sent : Seq(Entries)]
      BY DEF ReplyOK
    <3> QED
      BY <2>1, <3>1, <3>2
  <2>5. /\ Len(reply'.sent) = Len(reply.sent) + 1
        /\ \A i \in DOMAIN reply'.sent :
             reply'.sent[i] = IF i <= Len(reply.sent) THEN reply.sent[i] ELSE next
    BY <2>2, <2>3, <2>4
  <2>6. \A i \in DOMAIN reply'.sent : reply'.sent[i] = snapshot.entries[i]
    BY <2>2, <2>4, <2>5 DEF ReplyOK, next
  <2> QED
    BY <1>0, <1>3, <2>1, <2>2, <2>4, <2>5, <2>6 DEF ReplyOK
<1>4. CASE http = "serve" /\ http' # "serve"
  <2>1. reply' = NoReply
    BY <1>4 DEF HttpNext, HttpStep, Accept, ReadPrevious, AwaitRefresh, TakeMemory,
       TakeSnapshot, StreamEntry, EndTopology, ResolveNode, TakeMemoryForNode, AskNode,
       ReadSettings, SetSettings, Reply
  <2> QED
    BY <1>4, <2>1, NothingSent DEF NoReply
<1> QED
  BY <1>1, <1>2, <1>3, <1>4

LEMMA KeepsReply == OwnersOK /\ CacheOK /\ ReplyOK /\ [Next]_vars => ReplyOK'
<1> SUFFICES ASSUME OwnersOK, CacheOK, ReplyOK, [Next]_vars PROVE ReplyOK'
  OBVIOUS
<1>1. ASSUME UNCHANGED <<snapshot, http, reply>> PROVE ReplyOK'
  BY <1>1 DEF ReplyOK
<1>2. CASE UNCHANGED vars
  BY <1>1, <1>2 DEF vars, cache_vars, http_vars
<1>3. CASE BeginLookUp \/ WorkerStep
  BY <1>1, <1>3 DEF BeginLookUp, WorkerStep, WorkerTakesMemory, WorkerTakesSnapshot,
     LookUp, AwaitScan, cache_vars, http_vars
<1> QED
  BY <1>2, <1>3, CollectorReply, HttpReply DEF Next

LEMMA ReplyInvariant == Spec => []ReplyOK
BY CacheInvariant, InitReply, KeepsReply, PTL DEF Spec

\* A response shows one generation, the one it began with: topology_handler keeps
\* both mutexes while it streams, and a generation is stored whole.
THEOREM OneGeneration == Spec => []ResponseIsOneGeneration
<1>1. CacheOK /\ ReplyOK => ResponseIsOneGeneration
  <2> SUFFICES ASSUME CacheOK, ReplyOK PROVE ResponseIsOneGeneration
    OBVIOUS
  <2>1. CASE http # "serve"
    BY <2>1, NoEntries DEF ReplyOK, ResponseIsOneGeneration
  <2>2. CASE http = "serve"
    <3>1. reply.sent \in Seq(Entries) /\ snapshot.entries \in Seq(Entries)
      BY DEF ReplyOK, CacheOK, Generations
    <3>2. DOMAIN reply.sent \subseteq DOMAIN snapshot.entries
      BY <2>2, <3>1 DEF ReplyOK
    <3> QED
      BY <2>2, <3>2 DEF ReplyOK, CacheOK, ResponseIsOneGeneration
  <2> QED
    BY <2>1, <2>2
<1> QED
  BY <1>1, CacheInvariant, ReplyInvariant, PTL

--------------------------------------------------------------------------------
(* What a handler waits for and writes.                                        *)

RefreshOK ==
  /\ previous \in Nat
  /\ kind = "refresh" /\ http \in {"memory", "snapshot", "serve"} /\ "http" \notin late
       => snapshot.generation > previous

\* A generation never gives way to an older one.
LEMMA GenerationGrows ==
  ASSUME SettingsOK, CacheOK, [Next]_vars
  PROVE  /\ snapshot.generation \in Nat /\ snapshot'.generation \in Nat
         /\ snapshot'.generation >= snapshot.generation
<1>1. snapshot.generation \in Nat /\ generation \in Nat /\ snapshot.generation <= generation
  BY DEF CacheOK, Generations
<1>2. \/ UNCHANGED snapshot
      \/ snapshot' = HandOver(snapshot)
      \/ snapshot' = [generation |-> generation + 1, entries |-> candidate]
  <2>1. CASE CollectorNext
    BY <2>1 DEF CollectorNext, BeginCollect, AskRouter, Compress, ReuseBuffer, Store,
       EndCollect, cache_vars
  <2> QED
    BY <2>1, CacheIsRead DEF Next, vars, cache_vars
<1>3. HandOver(snapshot).generation = snapshot.generation
  BY HandOverKeeps DEF CacheOK
<1> QED
  BY <1>1, <1>2, <1>3

LEMMA KeepsRefresh ==
  SettingsOK /\ CacheOK /\ RefreshOK /\ [Next]_vars => RefreshOK'
<1> SUFFICES ASSUME SettingsOK, CacheOK, RefreshOK, [Next]_vars PROVE RefreshOK'
  OBVIOUS
<1>1. CASE CollectorNext \/ BeginLookUp \/ WorkerStep \/ UNCHANGED vars
  <2>1. UNCHANGED <<kind, http, previous>> /\ ("http" \in late' <=> "http" \in late)
    BY <1>1 DEF CollectorNext, BeginCollect, AskRouter, Compress, Store, EndCollect,
       BeginLookUp, WorkerStep, WorkerTakesMemory, WorkerTakesSnapshot, LookUp,
       AwaitScan, vars, http_vars
  <2> QED
    BY <2>1, GenerationGrows DEF RefreshOK
<1>2. ASSUME NEW k \in Requests, Accept(k) PROVE RefreshOK'
  BY <1>2 DEF Accept, RefreshOK
<1>3. CASE HttpStep
  <2>1. UNCHANGED snapshot
    BY <1>3, CacheIsRead DEF HttpNext
  <2>2. CASE ReadPrevious
    BY <2>2 DEF ReadPrevious, RefreshOK
  <2>3. CASE AwaitRefresh
    BY <2>1, <2>3 DEF AwaitRefresh, CurrentGeneration, Newer, RefreshOK
  <2>4. CASE TakeMemory \/ TakeSnapshot \/ StreamEntry
    BY <2>1, <2>4 DEF TakeMemory, TakeSnapshot, StreamEntry, Reply, RefreshOK
  <2>5. CASE EndTopology \/ ResolveNode \/ TakeMemoryForNode \/ AskNode \/ ReadSettings
             \/ SetSettings
    BY <2>1, <2>5 DEF EndTopology, ResolveNode, TakeMemoryForNode, AskNode,
       ReadSettings, SetSettings, Reply, RefreshOK
  <2> QED
    BY <1>3, <2>2, <2>3, <2>4, <2>5 DEF HttpStep
<1> QED
  BY <1>1, <1>2, <1>3 DEF Next, HttpNext

\* The answer to a refresh is newer than the cache was when it was asked for: the
\* handler waits for a generation above previous, and none gives way to an older one.
THEOREM RefreshIsNewer == Spec => []RefreshAdvances
<1>1. Init => RefreshOK
  BY DEF Init, RefreshOK
<1>2. Spec => []RefreshOK
  BY <1>1, CacheInvariant, KeepsRefresh, PTL DEF Spec
<1>3. RefreshOK /\ ReplyOK => RefreshAdvances
  BY DEF RefreshOK, ReplyOK, RefreshAdvances
<1> QED
  BY <1>2, <1>3, ReplyInvariant, PTL

SteeringOK ==
  /\ gateway = "chosen"
  /\ http = "set" => client = "chosen"
  /\ Len(candidate) >= 2 => candidate[2].body \in {"chosen", "_Error"}
  /\ snapshot.entries # <<>> =>
       snapshot.entries[2].body \in {"chosen", "_Error"}

LEMMA CollectorSteering ==
  CacheOK /\ SteeringOK /\ CollectorNext => SteeringOK'
<1> SUFFICES ASSUME CacheOK, SteeringOK, CollectorNext PROVE SteeringOK'
  OBVIOUS
<1>1. UNCHANGED <<gateway, http, client>>
  BY DEF CollectorNext, BeginCollect, AskRouter, Compress, Store, EndCollect, http_vars
<1>2. Len(candidate') >= 2 => candidate'[2].body \in {"chosen", "_Error"}
  <2>1. CASE candidate' \in {candidate, <<>>}
    BY <2>1, NoEntries DEF SteeringOK
  <2>2. CASE AskRouter /\ candidate' \notin {candidate, <<>>}
    <3>1. PICK body \in Answers(Len(candidate) + 1) :
            candidate' = Append(candidate, Entry(body))
      BY <2>2 DEF AskRouter, Fail
    <3>2. candidate \in Seq(Entries) /\ Len(candidate) \in Nat
      BY DEF CacheOK
    <3> HIDE DEF CacheOK
    <3>4. /\ Len(candidate') = Len(candidate) + 1
          /\ candidate'[Len(candidate) + 1] = Entry(body)
          /\ \A j \in 1..Len(candidate) : candidate'[j] = candidate[j]
      <4> DEFINE e == Entry(body)
      <4> HIDE DEF e
      <4>1. candidate' = Append(candidate, e)
        BY <3>1 DEF e
      <4> QED
        BY <3>2, <4>1 DEF e
    <3>3. CASE Len(candidate) = 1
      <4>1. body \in Answers(2)
        BY <3>1, <3>3
      <4>2. body \in {"chosen", "_Error"}
        BY <4>1 DEF Answers, SteeringOK
      <4>3. candidate'[2] = Entry(body)
        BY <3>1, <3>3, <3>4
      <4> QED
        BY <4>2, <4>3 DEF Entry
    <3>5. CASE Len(candidate) # 1
      <4>1. Len(candidate') >= 2 => Len(candidate) >= 2 /\ candidate'[2] = candidate[2]
        <5>1. Len(candidate') >= 2 => Len(candidate) >= 2
          BY <3>2, <3>4, <3>5, AboveOne
        <5> QED
          BY <3>2, <3>4, <5>1
      <4> QED
        BY <4>1 DEF SteeringOK
    <3> QED
      BY <3>3, <3>5
  <2> QED
    BY <2>1, <2>2 DEF CollectorNext, BeginCollect, Compress, Fail, Store, EndCollect
<1>3. snapshot'.entries # <<>> => snapshot'.entries[2].body \in {"chosen", "_Error"}
  <2>1. CASE snapshot' = snapshot
    BY <2>1 DEF SteeringOK
  <2>2. CASE snapshot' = HandOver(snapshot)
    <3>1. CASE snapshot.entries = <<>>
      BY <2>2, <3>1 DEF HandOver
    <3>2. CASE snapshot.entries # <<>>
      <4>1. snapshot.entries \in Seq(Entries) /\ Len(snapshot.entries) = 3
        BY <3>2, LastIsThree DEF CacheOK, Generations
      <4>2. HandOver(snapshot).entries[2] = snapshot.entries[2]
        BY <3>2, <4>1, LastIsThree DEF HandOver, CacheOK, Generations
      <4> QED
        BY <2>2, <3>2, <4>2 DEF SteeringOK
    <3> QED
      BY <3>1, <3>2
  <2>3. CASE collector = "store" /\ snapshot'.entries = candidate
    <3>1. Len(candidate) = 3
      BY <2>3, LastIsThree DEF CacheOK
    <3> QED
      BY <2>3, <3>1 DEF SteeringOK
  <2> QED
    BY <2>1, <2>2, <2>3 DEF CollectorNext, BeginCollect, AskRouter, Compress,
       ReuseBuffer, Store, EndCollect, cache_vars
<1> QED
  BY <1>1, <1>2, <1>3 DEF SteeringOK

LEMMA KeepsSteering == CacheOK /\ SteeringOK /\ [Next]_vars => SteeringOK'
<1> SUFFICES ASSUME CacheOK, SteeringOK, [Next]_vars PROVE SteeringOK'
  OBVIOUS
<1>1. CASE BeginLookUp \/ WorkerStep \/ UNCHANGED vars
  <2>1. UNCHANGED <<snapshot, candidate, gateway, http, client>>
    BY <1>1, CacheIsRead DEF BeginLookUp, WorkerStep, WorkerTakesMemory,
       WorkerTakesSnapshot, LookUp, AwaitScan, vars, cache_vars, collector_vars, http_vars
  <2> QED
    BY <2>1 DEF SteeringOK
<1>2. CASE HttpNext
  <2>1. UNCHANGED <<snapshot, candidate>>
    BY <1>2, CacheIsRead
  <2>2. CASE SetSettings
    BY <2>1, <2>2 DEF SetSettings, Reply, SteeringOK
  <2>3. CASE ReadSettings
    BY <2>1, <2>3 DEF ReadSettings, SettingsAreCached, Settings, Reply, SteeringOK
  <2>4. CASE ~SetSettings /\ ~ReadSettings
    <3>1. gateway' = gateway /\ http' # "set"
      BY <1>2, <2>4 DEF HttpNext, HttpStep, Accept, ReadPrevious, AwaitRefresh,
         TakeMemory, TakeSnapshot, StreamEntry, EndTopology, ResolveNode,
         TakeMemoryForNode, AskNode, Reply
    <3> QED
      BY <2>1, <3>1 DEF SteeringOK
  <2> QED
    BY <2>2, <2>3, <2>4
<1> QED
  BY <1>1, <1>2, CollectorSteering DEF Next

\* Node Steering is switched without touching Client Steering: what the handler
\* writes back came from the gateway, through a generation, and is never a default.
THEOREM ClientSteeringKept == Spec => []ClientSteeringIsKept
<1>1. Init => SteeringOK
  BY NoEntries DEF Init, SteeringOK
<1>2. SteeringOK => ClientSteeringIsKept
  BY DEF SteeringOK, ClientSteeringIsKept
<1> QED
  BY <1>1, <1>2, CacheInvariant, KeepsSteering, PTL DEF Spec

--------------------------------------------------------------------------------
(* Types and bounds: what is seen of a generation is never ahead of its counter. *)

SeenOK ==
  /\ kind \in {"none", "topology", "refresh", "node", "settings"}
  /\ attempt \in 0..2 /\ late \subseteq Tasks
  /\ worker = "poll" => attempt < 2
  /\ reply.generation \in 0..generation
  /\ {previous, cached, checked} \cup absent_in \subseteq 0..generation

LEMMA KeepsSeen ==
  CacheOK /\ ReplyOK /\ SeenOK /\ [Next]_vars => SeenOK'
<1> SUFFICES ASSUME CacheOK, ReplyOK, SeenOK, [Next]_vars PROVE SeenOK'
  OBVIOUS
<1>1. generation \in Nat /\ snapshot.generation \in 0..generation
  BY DEF CacheOK, Generations
<1>2. CASE CollectorNext \/ UNCHANGED vars
  <2>1. generation' \in {generation, generation + 1}
        /\ UNCHANGED <<kind, attempt, late, worker, reply, previous, cached, checked,
                       absent_in>>
    BY <1>2 DEF CollectorNext, BeginCollect, AskRouter, Compress, Store, EndCollect,
       vars, cache_vars, http_vars, worker_vars
  <2> QED
    BY <1>1, <2>1 DEF SeenOK
<1>3. CASE HttpNext
  <2>1. UNCHANGED <<generation, attempt, worker, checked, absent_in>>
        /\ late' \subseteq late \cup {"http"}
    BY <1>3, CacheIsRead DEF HttpNext, HttpStep, Accept, ReadPrevious, AwaitRefresh,
       TakeMemory, TakeSnapshot, StreamEntry, EndTopology, ResolveNode,
       TakeMemoryForNode, AskNode, ReadSettings, SetSettings, worker_vars
  <2>2. kind' \in {kind, "none"} \cup Requests
    BY <1>3 DEF HttpNext, HttpStep, Accept, ReadPrevious, AwaitRefresh, TakeMemory,
       TakeSnapshot, StreamEntry, EndTopology, ResolveNode, TakeMemoryForNode, AskNode,
       ReadSettings, SetSettings, Reply
  <2>3. /\ previous' \in {previous, 0, snapshot.generation}
        /\ cached' \in {cached, 0, snapshot.generation}
    BY <1>3 DEF HttpNext, HttpStep, Accept, ReadPrevious, CurrentGeneration,
       AwaitRefresh, TakeMemory, TakeSnapshot, StreamEntry, EndTopology, ResolveNode,
       TakeMemoryForNode, AskNode, ReadSettings, SetSettings, Reply
  <2>4. reply' \in {reply, NoReply, [generation |-> snapshot.generation, sent |-> <<>>]}
        \/ reply' = [reply EXCEPT !.sent =
                       Append(@, snapshot.entries[Len(reply.sent) + 1])]
    BY <1>3 DEF HttpNext, HttpStep, Accept, ReadPrevious, AwaitRefresh, TakeMemory,
       TakeSnapshot, StreamEntry, EndTopology, ResolveNode, TakeMemoryForNode, AskNode,
       ReadSettings, SetSettings, Reply
  <2>5. reply'.generation \in {reply.generation, 0, snapshot.generation}
    BY <2>4 DEF ReplyOK, NoReply
  <2>6. /\ kind' \in {"none", "topology", "refresh", "node", "settings"}
        /\ late' \subseteq Tasks
    BY <2>1, <2>2 DEF SeenOK, Tasks
  <2>7. reply'.generation \in 0..generation /\ {previous', cached'} \subseteq 0..generation
    BY <1>1, <2>3, <2>5 DEF SeenOK
  <2> QED
    BY <2>1, <2>6, <2>7 DEF SeenOK
<1>4. CASE BeginLookUp \/ WorkerStep
  <2> USE DEF SeenOK, Tasks, WorkerIdle
  <2>1. UNCHANGED <<generation, kind, reply, previous, cached>>
    BY <1>4, CacheIsRead DEF BeginLookUp, WorkerStep, WorkerTakesMemory,
       WorkerTakesSnapshot, LookUp, AwaitScan, http_vars
  <2>2. CASE BeginLookUp
    BY <1>1, <2>1, <2>2 DEF BeginLookUp
  <2>3. CASE WorkerTakesMemory \/ WorkerTakesSnapshot
    BY <2>1, <2>3 DEF WorkerTakesMemory, WorkerTakesSnapshot
  <2>4. CASE LookUp
    <3>1. checked' = snapshot.generation /\ attempt' = attempt /\ late' = late
          /\ absent_in' \subseteq absent_in \cup {snapshot.generation}
          /\ (worker' = "poll" => attempt < 2)
      BY <2>4 DEF LookUp, Checked
    <3>2. {previous', cached', checked'} \cup absent_in' \subseteq 0..generation
      BY <1>1, <2>1, <3>1
    <3>3. kind' = kind /\ reply'.generation \in 0..generation'
      BY <2>1
    <3>4. attempt' \in 0..2 /\ late' \subseteq Tasks /\ (worker' = "poll" => attempt' < 2)
      BY <3>1
    <3>5. {previous', cached', checked'} \cup absent_in' \subseteq 0..generation'
      BY <2>1, <3>2
    <3> QED
      BY <3>3, <3>4, <3>5
  <2>5. CASE AwaitScan
    <3>1. /\ worker = "poll" /\ worker' = "memory" /\ attempt' = attempt + 1
          /\ late' \subseteq late \cup {"worker"}
          /\ UNCHANGED <<checked, absent_in>>
      BY <2>5 DEF AwaitScan
    <3>2. attempt' \in 0..2 /\ late' \subseteq Tasks
      BY <3>1
    <3> QED
      BY <2>1, <3>1, <3>2
  <2> QED
    BY <1>4, <2>2, <2>3, <2>4, <2>5 DEF WorkerStep
<1> QED
  BY <1>2, <1>3, <1>4 DEF Next

\* Types: the entries of a generation come in Last at a time or not at all, and no
\* task has seen a generation that was not counted.
THEOREM TypeCorrect == Spec => []TypeOK
<1>1. Init => SeenOK
  BY DEF Init, SeenOK, NoReply, Tasks
<1>2. OwnersOK /\ SettingsOK /\ CacheOK /\ ReplyOK /\ SeenOK => TypeOK
  BY DEF OwnersOK, CollectorStages, HttpStages, WorkerStages, SettingsOK, CacheOK,
     Generations, ReplyOK, SeenOK, TypeOK
<1> QED
  BY <1>1, <1>2, CacheInvariant, ReplyInvariant, KeepsSeen, PTL DEF Spec

--------------------------------------------------------------------------------
(* The scans a target is rejected on. *)

AtMostChecked == \A g \in absent_in : g <= checked

\* As long as no wait ran out of time: one generation per attempt so far, all of
\* them at most the one looked at last, which the next look-up finds exceeded.
ScansOK ==
  /\ IsFiniteSet(absent_in)
  /\ "worker" \notin late =>
       /\ worker \in {"memory", "snapshot", "look-up"} =>
            /\ Cardinality(absent_in) = attempt
            /\ \A g \in absent_in : g < snapshot.generation
       /\ worker = "poll" => Cardinality(absent_in) = attempt + 1 /\ AtMostChecked
       /\ worker = "reject" => Cardinality(absent_in) = 3

LEMMA KeepsScans ==
  SettingsOK /\ CacheOK /\ SeenOK /\ ScansOK /\ [Next]_vars => ScansOK'
<1> SUFFICES ASSUME SettingsOK, CacheOK, SeenOK, ScansOK, [Next]_vars PROVE ScansOK'
  OBVIOUS
<1>1. /\ snapshot.generation \in Nat /\ absent_in \subseteq Nat /\ checked \in Nat
      /\ attempt \in 0..2
  BY DEF CacheOK, Generations, SeenOK
<1>2. CASE CollectorNext \/ UNCHANGED vars
  <2>1. UNCHANGED <<late, worker, attempt, checked, absent_in>>
    BY <1>2 DEF CollectorNext, BeginCollect, AskRouter, Compress, Store, EndCollect,
       vars, worker_vars
  <2>2. snapshot'.generation \in Nat /\ snapshot'.generation >= snapshot.generation
    BY <1>1, <1>2, GenerationGrows DEF CacheOK, vars, cache_vars
  <2> QED
    BY <1>1, <2>1, <2>2 DEF ScansOK, AtMostChecked
<1>3. CASE HttpNext
  <2>1. /\ UNCHANGED <<snapshot, worker, attempt, checked, absent_in>>
        /\ "worker" \in late => "worker" \in late'
    BY <1>3, CacheIsRead DEF HttpNext, HttpStep, Accept, ReadPrevious, AwaitRefresh,
       TakeMemory, TakeSnapshot, StreamEntry, EndTopology, ResolveNode,
       TakeMemoryForNode, AskNode, ReadSettings, SetSettings, worker_vars
  <2> QED
    BY <2>1 DEF ScansOK, AtMostChecked
<1>4. CASE BeginLookUp
  BY <1>4, FS_EmptySet DEF BeginLookUp, ScansOK
<1>5. CASE WorkerTakesMemory \/ WorkerTakesSnapshot
  <2>1. /\ worker \in {"memory", "snapshot"} /\ worker' \in {"snapshot", "look-up", "proceed"}
        /\ UNCHANGED <<snapshot, attempt, absent_in, late>>
    BY <1>5 DEF WorkerTakesMemory, WorkerTakesSnapshot, cache_vars
  <2> QED
    BY <2>1 DEF ScansOK
<1>6. CASE LookUp
  <2> DEFINE g == snapshot.generation
  <2>1. /\ worker = "look-up" /\ worker' \in {"proceed", "poll", "reject"}
        /\ checked' = g /\ UNCHANGED <<attempt, late, snapshot>>
    BY <1>6 DEF LookUp, Checked, cache_vars
  <2>2. absent_in' \in {absent_in, absent_in \cup {g}}
    BY <1>6 DEF LookUp
  <2>3. worker' # "proceed" =>
          /\ absent_in' = absent_in \cup {g}
          /\ worker' = "reject" => attempt = 2
    BY <1>6 DEF LookUp
  <2>4. IsFiniteSet(absent_in')
    BY <2>2, FS_AddElement DEF ScansOK
  <2>5. ASSUME "worker" \notin late, worker' # "proceed"
        PROVE  /\ Cardinality(absent_in') = attempt + 1
               /\ \A h \in absent_in' : h <= checked'
    <3>1. Cardinality(absent_in) = attempt /\ \A h \in absent_in : h < g
      BY <2>1, <2>5 DEF ScansOK
    <3>2. g \notin absent_in
      BY <1>1, <3>1
    <3>3. Cardinality(absent_in') = attempt + 1
      BY <2>3, <2>5, <3>1, <3>2, FS_AddElement DEF ScansOK
    <3>4. absent_in' = absent_in \cup {g} /\ checked' = g
      BY <2>1, <2>3, <2>5
    <3>5. \A h \in absent_in' : h <= g
      BY <1>1, <3>1, <3>4
    <3> QED
      BY <3>3, <3>4, <3>5
  <2> QED
    BY <1>1, <2>1, <2>3, <2>4, <2>5 DEF ScansOK, AtMostChecked
<1>7. CASE AwaitScan
  <2>1. /\ worker = "poll" /\ worker' = "memory" /\ attempt' = attempt + 1
        /\ UNCHANGED <<checked, absent_in, snapshot>>
        /\ "worker" \notin late' => /\ "worker" \notin late
                                   /\ checked < snapshot.generation
    BY <1>1, <1>7 DEF AwaitScan, CurrentGeneration, Newer, cache_vars
  <2> QED
    BY <1>1, <2>1 DEF ScansOK, AtMostChecked
<1> QED
  BY <1>2, <1>3, <1>4, <1>5, <1>6, <1>7 DEF Next, WorkerStep

\* A Parent radio is given up on what three scans say, each of a later generation
\* than the one before: no scan is counted twice, though the look-up and the wait
\* for the next generation are not done under one lock.
THEOREM RejectionNeedsThreeScans == Spec => []RejectedOnFreshScans
<1>1. Init => SeenOK /\ ScansOK
  BY FS_EmptySet DEF Init, SeenOK, ScansOK, NoReply, Tasks
<1>2. ScansOK => RejectedOnFreshScans
  BY DEF ScansOK, RejectedOnFreshScans
<1> QED
  BY <1>1, <1>2, CacheInvariant, ReplyInvariant, KeepsSeen, KeepsScans, PTL DEF Spec

================================================================================
