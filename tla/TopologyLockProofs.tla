---------------------------- MODULE TopologyLockProofs ----------------------------
(***************************************************************************)
(* What TopologyLock guarantees for any mesh, any mapping, any number of    *)
(* confirmations and any rates, whichever takes and writes fail.            *)
(*                                                                         *)
(* PeriodOK says that the code's own cooldown, in RAM and in flash, never   *)
(* ends before the period of the last move; LockOK, that the lock in force  *)
(* is the one in flash and a tree; ConfirmedOK, that a count of mismatches  *)
(* is borne out by the generations evaluated last, and that a selected Node *)
(* was counted in all of them.                                              *)
(*                                                                         *)
(* What Climb and Descendants compute is proved without induction: of the   *)
(* indices where a recursive function would leave a set there is a least    *)
(* one, and it is neither 0 nor above another.                              *)
(***************************************************************************)
EXTENDS TopologyLock, Recursion, FiniteSetTheorems

--------------------------------------------------------------------------------
(* The saved mapping. *)

\* A Parent that is saved is saved by an entry.
LEMMA ParentOfEntry ==
  ASSUME NEW ms \in Seq(Entry), NEW n, ParentIn(ms, n) # None
  PROVE  \E i \in DOMAIN ms : ms[i].node = n /\ ParentIn(ms, n) = ms[i].parent
BY DEF ParentIn

LEMMA ParentType ==
  ASSUME NEW ms \in Seq(Entry), NEW n
  PROVE  ParentIn(ms, n) \in Nodes \cup {None}
<1>1. CASE ParentIn(ms, n) = None
  BY <1>1
<1>2. CASE ParentIn(ms, n) # None
  <2>1. PICK i \in DOMAIN ms : ParentIn(ms, n) = ms[i].parent
    BY <1>2, ParentOfEntry
  <2>2. ms[i] \in Entry
    BY <2>1
  <2> QED
    BY <2>1, <2>2 DEF Entry
<1> QED
  BY <1>1, <1>2

\* The definition of Climb has a solution, and Climb is one.
LEMMA ClimbSteps ==
  ASSUME NEW ms \in Seq(Entry), NEW n \in Nodes
  PROVE  /\ Climb(ms, n)[0] = n
         /\ \A k \in 1..Len(ms) :
              Climb(ms, n)[k] = ParentIn(ms, Climb(ms, n)[k - 1])
<1> DEFINE X == Nodes \cup {None}
           F == [x \in X |-> ParentIn(ms, x)]
           Is(f) == f = [k \in 0..Len(ms) |->
                           IF k = 0 THEN n ELSE ParentIn(ms, f[k - 1])]
<1>1. F \in [X -> X]
  BY ParentType
<1>2. Len(ms) \in Nat /\ n \in X
  OBVIOUS
<1>3. \A x \in X : F[x] = ParentIn(ms, x)
  OBVIOUS
<1>4. \E f : Is(f)
  <2> HIDE DEF F, X
  <2>1. PICK f : Iterates(f, F, n, Len(ms))
    BY <1>2, IterationExists
  <2>2. f \in [0..Len(ms) -> X]
    BY <1>1, <1>2, <2>1, IterationType
  <2>3. \A k \in 0..Len(ms) : k # 0 => F[f[k - 1]] = ParentIn(ms, f[k - 1])
    BY <1>2, <1>3, <2>2
  <2> QED
    BY <2>1, <2>3 DEF Iterates
<1>5. Climb(ms, n) = CHOOSE up : Is(up)
  BY DEF Climb
<1>6. Is(Climb(ms, n))
  BY <1>4, <1>5, Zenon
<1> QED
  BY <1>2, <1>6

\* The Nodes of a mapping, and what it means for it to be a tree.
NodesOf(ms) == {ms[i].node : i \in DOMAIN ms}

Tree(ms) ==
  \A S \in (SUBSET NodesOf(ms)) \ {{}} : \E n \in S : ParentIn(ms, n) \notin S

\* Were S closed, the climb from a member would never leave it, but the gateway
\* is not the Node of an entry.
LEMMA ValidIsTree ==
  ASSUME NEW ms \in Seq(Entry), Valid(ms)
  PROVE  Tree(ms)
<1> SUFFICES ASSUME NEW S \in (SUBSET NodesOf(ms)) \ {{}},
                    \A n \in S : ParentIn(ms, n) \in S
             PROVE  FALSE
  BY DEF Tree
<1>1. S # {}
  OBVIOUS
<1>0. PICK n \in S : TRUE
  BY <1>1
<1>2. PICK i \in DOMAIN ms : n = ms[i].node
  BY DEF NodesOf
<1>3. n \in Nodes
  <2>1. ms[i] \in Entry
    BY <1>2
  <2> QED
    BY <1>2, <2>1 DEF Entry
<1>4. PICK k \in 0..Len(ms) : Climb(ms, n)[k] = Gateway
  BY <1>2 DEF Valid, Leads
<1>5. Gateway \notin S
  BY DEF Valid, NodesOf
<1> DEFINE out == {j \in 0..Len(ms) : Climb(ms, n)[j] \notin S}
<1>6. out \subseteq Nat /\ out # {}
  BY <1>4, <1>5
<1>7. PICK j \in out : \A l \in out : j <= l
  BY <1>6, LeastMember
<1>8. j # 0
  BY <1>0, <1>3, <1>7, ClimbSteps
<1>9. j \in 1..Len(ms) /\ j - 1 \in 0..Len(ms) /\ j - 1 \notin out
  BY <1>7, <1>8
<1>10. Climb(ms, n)[j] = ParentIn(ms, Climb(ms, n)[j - 1])
  BY <1>3, <1>9, ClimbSteps
<1> QED
  BY <1>7, <1>9, <1>10

\* A mapping that names every Node but the gateway names none twice.
LEMMA ValidIsUnique ==
  ASSUME NEW ms \in Seq(Entry), Valid(ms)
  PROVE  \A i, j \in DOMAIN ms : ms[i].node = ms[j].node => i = j
<1> DEFINE T == nodes.online \ {Gateway}
           f == [i \in 1..Len(ms) |-> ms[i].node]
<1> Len(ms) \in Nat /\ DOMAIN ms = 1..Len(ms)
  OBVIOUS
<1>1. IsFiniteSet(1..Len(ms)) /\ Cardinality(1..Len(ms)) = Len(ms)
  BY FS_Interval, SMTT(30)
<1>2. T = {ms[i].node : i \in 1..Len(ms)} /\ Cardinality(T) = Len(ms)
  BY Zenon DEF Valid
<1>3. f \in Surjection(1..Len(ms), T)
  BY <1>2 DEF Surjection
<1>4. f \in Injection(1..Len(ms), T)
  BY <1>1, <1>2, <1>3, FS_SurjSameCardinalityImpliesInj
<1> QED
  <2> SUFFICES ASSUME NEW i \in 1..Len(ms), NEW j \in 1..Len(ms),
                      ms[i].node = ms[j].node
               PROVE  i = j
    OBVIOUS
  <2>1. f[i] = f[j]
    OBVIOUS
  <2> HIDE DEF f
  <2> QED
    BY <1>4, <2>1 DEF Injection, IsInjective

--------------------------------------------------------------------------------
(* What hangs below a Node. *)

\* Descendants is closed under children: otherwise each of the sets it is built
\* from is larger than the one before, and the last larger than Nodes.
LEMMA DescendantsClosed ==
  ASSUME LockAssumption, NEW n
  PROVE  \A m \in Nodes :
           Uplink(m) \in Descendants(n) \cup {n} => m \in Descendants(n)
<1> DEFINE c == Cardinality(Nodes)
           Children(S) == {m \in Nodes : Uplink(m) \in S}
           X == SUBSET Nodes
           F == [S \in X |-> S \cup Children(S)]
           Is(f) == f = [k \in 0..c |-> IF k = 0 THEN Children({n})
                                        ELSE f[k - 1] \cup Children(f[k - 1])]
           below == CHOOSE f : Is(f)
           Closed(k) == Children(below[k]) \subseteq below[k]
<1>1. IsFiniteSet(Nodes) /\ c \in Nat
  BY FS_CardinalityType DEF LockAssumption
<1>2. Descendants(n) = below[c]
  BY Zenon DEF Descendants
<1>3. \E f : Is(f)
  <2>1. F \in [X -> X] /\ Children({n}) \in X /\ \A S \in X : F[S] = S \cup Children(S)
    OBVIOUS
  <2> DEFINE G(S) == S \cup Children(S)
  <2>2. \A S \in X : F[S] = G(S)
    BY <2>1
  <2> HIDE DEF F, X, c
  <2>3. PICK f : Iterates(f, F, Children({n}), c)
    BY <1>1, IterationExists
  <2>4. f \in [0..c -> X]
    BY <1>1, <2>1, <2>3, IterationType
  <2>5. \A k \in 0..c : k # 0 => F[f[k - 1]] = G(f[k - 1])
    BY <1>1, <2>2, <2>4
  <2> HIDE DEF G, Children
  <2>6. f = [k \in 0..c |-> IF k = 0 THEN Children({n}) ELSE G(f[k - 1])]
    BY <2>3, <2>5 DEF Iterates
  <2> QED
    BY <2>6, Zenon DEF G
<1>4. Is(below)
  <2> HIDE DEF Is
  <2> QED
    BY <1>3, Zenon
<1> HIDE DEF below
<1>5. below[0] = Children({n})
  BY <1>1, <1>4
<1>6. \A k \in 1..c : below[k] = below[k - 1] \cup Children(below[k - 1])
  BY <1>1, <1>4
<1> HIDE DEF Is, X, F
<1>7. \A k \in 0..c : below[k] \subseteq Nodes
  <2> DEFINE Bad == {k \in 0..c : ~ (below[k] \subseteq Nodes)}
  <2> SUFFICES ASSUME Bad # {} PROVE FALSE
    OBVIOUS
  <2>1. PICK k \in Bad : \A j \in Bad : k <= j
    <3> Bad \subseteq Nat
      BY <1>1
    <3> QED
      BY LeastMember
  <2>2. k # 0
    BY <1>5, <2>1
  <2>3. k \in 1..c /\ k - 1 \in 0..c /\ k - 1 \notin Bad
    BY <1>1, <2>1, <2>2
  <2> QED
    BY <1>6, <2>1, <2>3
<1>8. Children({n}) \subseteq below[c]
  <2> DEFINE Bad == {k \in 0..c : ~ (Children({n}) \subseteq below[k])}
  <2> SUFFICES ASSUME Bad # {} PROVE FALSE
    BY <1>1
  <2>1. PICK k \in Bad : \A j \in Bad : k <= j
    <3> Bad \subseteq Nat
      BY <1>1
    <3> QED
      BY LeastMember
  <2>2. k # 0
    BY <1>5, <2>1
  <2>3. k \in 1..c /\ k - 1 \in 0..c /\ k - 1 \notin Bad
    BY <1>1, <2>1, <2>2
  <2> HIDE DEF Children
  <2> QED
    BY <1>6, <2>1, <2>3
<1>9. Closed(c)
  <2> SUFFICES ASSUME ~Closed(c) PROVE FALSE
    OBVIOUS
  <2>1. \A k \in 0..c : ~Closed(k)
    <3> DEFINE T == {j \in 0..c : Closed(c - j)}
    <3> SUFFICES ASSUME T # {} PROVE FALSE
      <4>1. \A k \in 0..c : c - k \in 0..c /\ c - (c - k) = k
        BY <1>1
      <4> HIDE DEF Closed
      <4> QED
        BY <4>1
    <3>1. PICK j \in T : \A i \in T : j <= i
      <4> T \subseteq Nat
        BY <1>1
      <4> QED
        BY LeastMember
    <3>2. j # 0
      <4> HIDE DEF Closed
      <4>1. c - 0 = c
        BY <1>1
      <4> QED
        BY <3>1, <4>1
    <3>3. /\ j - 1 \in 0..c /\ j - 1 \notin T
          /\ c - (j - 1) \in 1..c /\ (c - (j - 1)) - 1 = c - j
      BY <1>1, <3>1, <3>2
    <3>4. below[c - (j - 1)] = below[c - j] \cup Children(below[c - j])
      BY <1>6, <3>3
    <3>5. below[c - (j - 1)] = below[c - j]
      <4> HIDE DEF Children
      <4> QED
        BY <3>1, <3>4
    <3>6. Closed(c - (j - 1))
      BY <3>1, <3>5
    <3> HIDE DEF Closed
    <3> QED
      BY <3>3, <3>6
  <2> DEFINE Last == below[c] \cup Children(below[c])
             All == [k \in 0..c + 1 |-> IF k = c + 1 THEN Last ELSE below[k]]
             Bad == {k \in 0..c + 1 : Cardinality(All[k]) < k}
  <2>2. \A k \in 0..c + 1 : All[k] \subseteq Nodes
    BY <1>1, <1>7
  <2>3. \A k \in 0..c + 1 : IsFiniteSet(All[k]) /\ Cardinality(All[k]) \in Nat
    BY <1>1, <2>2, FS_Subset, FS_CardinalityType
  <2>4. \A k \in 1..c + 1 : All[k - 1] \subseteq All[k] /\ All[k - 1] # All[k]
    <3> SUFFICES ASSUME NEW k \in 1..c + 1
                 PROVE  All[k - 1] \subseteq All[k] /\ All[k - 1] # All[k]
      OBVIOUS
    <3>1. k - 1 \in 0..c /\ k - 1 # c + 1
      BY <1>1
    <3>2. ~Closed(k - 1)
      BY <2>1, <3>1
    <3>3. All[k - 1] = below[k - 1]
      BY <1>1, <3>1
    <3>4. All[k] = below[k - 1] \cup Children(below[k - 1])
      <4>1. CASE k = c + 1
        BY <1>1, <4>1
      <4>2. CASE k # c + 1
        BY <1>1, <1>6, <4>2
      <4> QED
        BY <4>1, <4>2
    <3> HIDE DEF Children, All
    <3> QED
      BY <3>2, <3>3, <3>4
  <2>5. Bad = {}
    <3> SUFFICES ASSUME Bad # {} PROVE FALSE
      OBVIOUS
    <3>1. PICK k \in Bad : \A j \in Bad : k <= j
      <4> Bad \subseteq Nat
        BY <1>1
      <4> QED
        BY LeastMember
    <3> HIDE DEF All
    <3>2. k # 0
      BY <1>1, <2>3, <3>1
    <3>3. k \in 1..c + 1 /\ k - 1 \in 0..c + 1 /\ k - 1 \notin Bad
      BY <1>1, <3>1, <3>2
    <3>4. Cardinality(All[k - 1]) <= Cardinality(All[k]) /\
          Cardinality(All[k - 1]) # Cardinality(All[k])
      BY <2>3, <2>4, <3>3, FS_Subset
    <3>5. Cardinality(All[k - 1]) >= k - 1
      BY <1>1, <2>3, <3>3
    <3> QED
      BY <1>1, <2>3, <3>1, <3>3, <3>4, <3>5
  <2> HIDE DEF All
  <2>6. c + 1 \in 0..c + 1 /\ ~(Cardinality(All[c + 1]) < c + 1)
    <3>1. c + 1 \in 0..c + 1
      BY <1>1
    <3> QED
      BY <2>5, <3>1
  <2>7. Cardinality(All[c + 1]) <= c
    BY <1>1, <2>2, <2>6, FS_Subset
  <2> QED
    BY <1>1, <2>3, <2>6, <2>7
<1> QED
  BY <1>2, <1>8, <1>9

--------------------------------------------------------------------------------
(* Types. *)

Lists == Requests \cup {<<>>}
Some  == Nodes \cup {None}
Saved == [mappings : Lists, last_selected : Some, stamp : Stamps, since : 0..MaxRate]

LockType ==
  /\ mappings \in Lists /\ last_selected \in Some
  /\ http \in {"idle", "set"} /\ http_mappings \in Lists
  /\ rate \in Rates /\ flash \in Saved
  /\ stamp \in Stamps /\ since \in 0..MaxRate /\ seen \in BOOLEAN
  /\ boot_age \in 0..MaxRate /\ clock_set \in BOOLEAN

CollectorType ==
  /\ counts \in [Nodes -> 0..Confirmations]
  /\ nodes \in Observations \cup {Nothing} /\ active \in Some
  /\ collector \in CollectorPCs /\ selected \in Entry \cup {NoMove}
  /\ reboots \in 0..MaxReboots

HistoryType ==
  /\ period \in [noted : {"no", "ram", "flash"}, gap : 0..MaxRate, limit : 1..MaxRate]
  /\ recent \in Seq(Observations \cup {Nothing}) /\ Len(recent) <= Confirmations

LEMMA TypesAreTypeOK == LockType /\ CollectorType /\ HistoryType <=> TypeOK
BY DEF LockType, CollectorType, HistoryType, TypeOK, Lists, Some, Saved

LEMMA Constants ==
  /\ MaxRate \in Nat /\ MaxRate >= 1 /\ Rates \subseteq 1..MaxRate /\ Rates # {}
  /\ Lists \subseteq Seq(Entry) /\ <<>> \in Lists
  /\ Confirmations \in Nat /\ Confirmations >= 1 /\ MaxReboots \in Nat
  /\ Gateway \in Nodes /\ None \notin Nodes /\ None \in Some
  /\ Nothing \in Observations \cup {Nothing}
<1>1. /\ MaxRate \in Nat /\ Rates \subseteq 1..MaxRate /\ Rates # {}
      /\ Requests \subseteq Seq(Entry)
      /\ Confirmations \in Nat \ {0} /\ MaxReboots \in Nat
      /\ Gateway \in Nodes /\ None \notin Nodes
  BY LockAssumption DEF LockAssumption, Entry
<1>2. PICK r \in 1..MaxRate : TRUE
  BY <1>1
<1>3. MaxRate >= 1 /\ Confirmations >= 1
  BY <1>1, <1>2
<1>4. <<>> \in Seq(Entry)
  OBVIOUS
<1> QED
  BY <1>1, <1>3, <1>4 DEF Lists, Some

LEMMA ListEntries ==
  ASSUME NEW ms \in Lists
  PROVE  /\ ms \in Seq(Entry) /\ DOMAIN ms = 1..Len(ms) /\ Len(ms) \in Nat
         /\ \A i \in DOMAIN ms : ms[i] \in Entry
BY Constants

LEMMA EntryFields ==
  ASSUME NEW e \in Entry
  PROVE  e.node \in Nodes /\ e.parent \in Nodes
BY DEF Entry

LEMMA SelectedFields ==
  ASSUME selected \in Entry \cup {NoMove}
  PROVE  selected.node \in Some /\ selected.parent \in Some
BY DEF Entry, NoMove, Some

LEMMA Ages ==
  /\ \A age \in 0..MaxRate : Older(age) \in 0..MaxRate
  /\ \A s \in Stamps, age \in 0..MaxRate : EpochAge(s, age) \in 0..MaxRate
BY Constants DEF Older, Least, EpochAge

LEMMA InitTypes == Init => LockType /\ CollectorType /\ HistoryType
<1> SUFFICES ASSUME Init PROVE LockType /\ CollectorType /\ HistoryType
  OBVIOUS
<1> USE Constants DEF Init
<1>1. LockType
  <2>1. 0 \in 0..MaxRate /\ MaxRate \in 0..MaxRate
    OBVIOUS
  <2>2. NoLock \in Saved
    BY <2>1 DEF NoLock, Saved, Stamps
  <2> QED
    BY <2>1, <2>2 DEF LockType, Stamps
<1>2. CollectorType
  BY DEF CollectorType, NoCounts, CollectorPCs, Some
<1>3. HistoryType
  BY DEF HistoryType, NoPeriod
<1> QED
  BY <1>1, <1>2, <1>3

\* What a write to flash leaves there.
LEMMA PersistType ==
  ASSUME flash \in Saved, mappings \in Lists, last_selected' \in Some,
         stamp' \in Stamps, since' \in 0..MaxRate, NEW saved, Persist(saved)
  PROVE  flash' \in Saved
BY Ages DEF Persist, Saved

LEMMA ReplaceType ==
  ASSUME LockType, NEW ms \in Lists, NEW saved, Replace(ms, saved)
  PROVE  mappings' \in Lists /\ last_selected' \in Some /\ flash' \in Saved
<1>1. Kept(ms) \in Some
  BY Constants DEF Kept, LockType
<1> QED
  BY <1>1, Ages DEF Replace, Written, LockType, Saved

LEMMA LockTypeKept ==
  LockType /\ CollectorType /\ [Next]_vars => LockType'
<1> SUFFICES ASSUME LockType, CollectorType, [Next]_vars PROVE LockType'
  OBVIOUS
<1> USE DEF LockType, lock_vars, action_vars, clock_vars, http_vars,
            CollectorKeeps, OthersKeep
<1>1. CASE Collect
  BY <1>1 DEF Collect, StoreGeneration
<1>2. CASE CollectorRuns
  <2>1. ASSUME NEW resting, NEW counting, NEW selecting,
               Evaluate(resting, counting, selecting)
        PROVE  LockType'
    BY <2>1 DEF Evaluate
  <2>2. CASE SkipEvaluation
    BY <2>2 DEF SkipEvaluation
  <2>3. ASSUME NEW ok, RunPreflight(ok) PROVE LockType'
    BY <2>3 DEF RunPreflight
  <2>4. ASSUME NEW ok, CheckConflict(ok) PROVE LockType'
    BY <2>4 DEF CheckConflict
  <2>5. ASSUME NEW ok, NEW saved, NoteMove(ok, saved) PROVE LockType'
    <3>1. CASE ok
      <4>1. /\ last_selected' \in Some /\ stamp' \in Stamps
            /\ since' \in 0..MaxRate /\ seen' \in BOOLEAN
        BY <2>5, <3>1, SelectedFields, Constants
           DEF NoteMove, StampNow, CollectorType, Stamps
      <4>2. flash' \in Saved
        BY <2>5, <3>1, <4>1, PersistType DEF NoteMove
      <4> QED
        BY <2>5, <4>1, <4>2 DEF NoteMove
    <3>2. CASE ~ok
      BY <2>5, <3>2 DEF NoteMove
    <3> QED
      BY <3>1, <3>2
  <2>6. CASE RefuseMove
    BY <2>6 DEF RefuseMove
  <2> QED
    BY <1>2, <2>1, <2>2, <2>3, <2>4, <2>5, <2>6 DEF CollectorRuns
<1>3. CASE QueueMove
  BY <1>3 DEF QueueMove
<1>4. ASSUME NEW ms \in Requests, AskForLock(ms) PROVE LockType'
  BY <1>4 DEF AskForLock, Lists
<1>5. ASSUME NEW ok, NEW saved, SetLock(ok, saved) PROVE LockType'
  <2>1. mappings' \in Lists /\ last_selected' \in Some /\ flash' \in Saved
    BY <1>5, ReplaceType DEF SetLock
  <2> QED
    BY <1>5, <2>1, Constants DEF SetLock
<1>6. ASSUME NEW saved, StopLock(saved) PROVE LockType'
  <2>1. mappings' \in Lists /\ last_selected' \in Some /\ flash' \in Saved
    BY <1>6, Constants, ReplaceType DEF StopLock
  <2> QED
    BY <1>6, <2>1 DEF StopLock
<1>7. ASSUME NEW saved, StampRestart(saved) PROVE LockType'
  <2>1. stamp' \in Stamps /\ since' \in 0..MaxRate /\ seen' \in BOOLEAN
    BY <1>7, Constants DEF StampRestart, StampNow, Stamps
  <2>2. flash' \in Saved
    BY <1>7, <2>1, PersistType DEF StampRestart
  <2> QED
    BY <1>7, <2>1, <2>2 DEF StampRestart
<1>8. ASSUME NEW r \in Rates, SetRate(r) PROVE LockType'
  BY <1>8 DEF SetRate
<1>9. ASSUME NEW n, MoveByHand(n) PROVE LockType'
  BY <1>9 DEF MoveByHand
<1>10. CASE EndOperation
  BY <1>10 DEF EndOperation
<1>11. CASE Tick
  <2>1. flash' \in Saved
    BY <1>11, Ages DEF Tick, Saved
  <2>2. since' \in 0..MaxRate /\ boot_age' \in 0..MaxRate
    BY <1>11, Ages DEF Tick
  <2>3. UNCHANGED <<lock_vars, stamp, seen, rate, clock_set, http_vars>>
    BY <1>11 DEF Tick
  <2> QED
    BY <2>1, <2>2, <2>3
<1>12. CASE SyncClock
  BY <1>12 DEF SyncClock
<1>13. CASE Reboot
  <2>1. /\ flash.mappings \in Lists /\ flash.last_selected \in Some
        /\ flash.stamp \in Stamps /\ flash.since \in 0..MaxRate
    BY DEF Saved
  <2>2. 0 \in 0..MaxRate /\ <<>> \in Lists
    BY Constants
  <2>3. seen' \in BOOLEAN /\ clock_set' \in BOOLEAN
    BY <1>13, Zenon DEF Reboot, Load
  <2>4. /\ since' \in 0..MaxRate /\ boot_age' \in 0..MaxRate
        /\ mappings' \in Lists /\ last_selected' \in Some /\ stamp' \in Stamps
    BY <1>13, <2>1, <2>2 DEF Reboot, Load
  <2>5. http' = "idle" /\ http_mappings' = <<>> /\ UNCHANGED <<rate, flash>>
    BY <1>13 DEF Reboot
  <2> QED
    BY <2>2, <2>3, <2>4, <2>5
<1>14. CASE UNCHANGED vars
  BY <1>14 DEF vars
<1> QED
  BY <1>1, <1>2, <1>3, <1>4, <1>5, <1>6, <1>7, <1>8, <1>9, <1>10, <1>11, <1>12,
     <1>13, <1>14 DEF Next, HttpSets

--------------------------------------------------------------------------------
(* The Node that is selected. *)

LEMMA DepthIsNat ==
  ASSUME mappings \in Lists, NEW n PROVE Depth(n) \in Nat
<1>1. Len(mappings) \in Nat
  BY ListEntries
<1>2. ASSUME Leads(mappings, n)
      PROVE  (CHOOSE k \in 0..Len(mappings) : Climb(mappings, n)[k] = Gateway) \in Nat
  BY <1>1, <1>2 DEF Leads
<1> QED
  BY <1>1, <1>2 DEF Depth

LEMMA SelectedIsCandidate ==
  ASSUME mappings \in Lists, NEW C, C \subseteq DOMAIN mappings, C # {}
  PROVE  Selected(C) \in C
<1> DEFINE turn(i)  == (i + Len(mappings) - Start) % Len(mappings)
           depth(i) == Depth(mappings[i].node)
           depths == {depth(i) : i \in C}
           Better(i, j) == \/ depth(i) < depth(j)
                           \/ depth(i) = depth(j) /\ turn(i) <= turn(j)
<1>1. Len(mappings) \in Nat /\ DOMAIN mappings = 1..Len(mappings)
  BY ListEntries
<1>2. Len(mappings) > 0
  BY <1>1
<1>3. Start \in Int
  BY <1>1, <1>2 DEF Start
<1>4. \A i \in C : turn(i) \in Nat /\ depth(i) \in Nat
  BY <1>1, <1>2, <1>3, DepthIsNat
<1> HIDE DEF turn, depth
<1>5. depths \subseteq Nat /\ depths # {}
  BY <1>4
<1>6. PICK d \in depths : \A e \in depths : d <= e
  BY <1>5, LeastMember
<1> DEFINE turns == {turn(i) : i \in {i \in C : depth(i) = d}}
<1>7. turns \subseteq Nat /\ turns # {}
  BY <1>4, <1>6
<1>8. PICK t \in turns : \A u \in turns : t <= u
  BY <1>7, LeastMember
<1>9. PICK i \in C : depth(i) = d /\ turn(i) = t
  BY <1>8
<1>10. \A j \in C : Better(i, j)
  BY <1>4, <1>6, <1>8, <1>9
<1>11. Selected(C) = CHOOSE x \in C : \A j \in C : Better(x, j)
  BY Zenon DEF Selected, turn, depth
<1> HIDE DEF Better
<1> QED
  BY <1>9, <1>10, <1>11, Zenon

LEMMA EvaluateSelects ==
  ASSUME LockType, NEW resting, NEW counting, NEW selecting,
         Evaluate(resting, counting, selecting), collector' # "idle"
  PROVE  \E i \in DOMAIN mappings :
           /\ i \in Candidates(resting, selecting)
           /\ selected' = mappings[i] /\ mappings[i] \in Entry
<1> DEFINE C == Candidates(resting, selecting)
<1>1. C # {} /\ selected' = mappings[Selected(C)]
  BY Zenon DEF Evaluate
<1>2. C \subseteq DOMAIN mappings /\ mappings \in Lists
  BY DEF Candidates, LockType
<1>3. Selected(C) \in C
  BY <1>1, <1>2, SelectedIsCandidate
<1> QED
  BY <1>1, <1>2, <1>3, ListEntries

LEMMA CountedType ==
  ASSUME CollectorType, NEW n \in Nodes, NEW p, NEW moving
  PROVE  Counted(n, p, moving) \in 0..Confirmations
<1>1. counts[n] \in 0..Confirmations
  BY DEF CollectorType
<1>2. Least(counts[n] + 1, Confirmations) \in 0..Confirmations
  BY <1>1, Constants DEF Least
<1> QED
  BY <1>1, <1>2, Constants DEF Counted

LEMMA CollectorTypeKept ==
  LockType /\ CollectorType /\ [Next]_vars => CollectorType'
<1> SUFFICES ASSUME LockType, CollectorType, [Next]_vars PROVE CollectorType'
  OBVIOUS
<1> USE DEF CollectorType, lock_vars, collector_vars, CollectorKeeps, OthersKeep
<1>0. /\ NoMove \in Entry \cup {NoMove} /\ NoCounts \in [Nodes -> 0..Confirmations]
      /\ \A pc \in {"idle", "evaluate", "preflight", "conflict", "queue", "note"} :
           pc \in CollectorPCs
  BY Constants DEF NoCounts, CollectorPCs
<1>1. ASSUME NEW observed \in Observations, StoreGeneration(observed)
      PROVE  CollectorType'
  BY <1>0, <1>1 DEF StoreGeneration
<1>2. CASE CollectorRuns
  <2>1. ASSUME NEW resting, NEW counting, NEW selecting,
               Evaluate(resting, counting, selecting)
        PROVE  CollectorType'
    <3>1. counts' \in [Nodes -> 0..Confirmations]
      BY <2>1, CountedType DEF Evaluate
    <3>2. collector' \in CollectorPCs /\ UNCHANGED <<nodes, active, reboots>>
      BY <2>1, <1>0 DEF Evaluate
    <3>3. selected' \in Entry \cup {NoMove}
      <4>1. CASE collector' = "idle"
        BY <2>1, <4>1 DEF Evaluate
      <4>2. CASE collector' # "idle"
        BY <2>1, <4>2, EvaluateSelects
      <4> QED
        BY <4>1, <4>2
    <3> QED
      BY <3>1, <3>2, <3>3
  <2>2. CASE SkipEvaluation
    BY <1>0, <2>2 DEF SkipEvaluation
  <2>3. ASSUME NEW ok, RunPreflight(ok) PROVE CollectorType'
    BY <1>0, <2>3 DEF RunPreflight
  <2>4. ASSUME NEW ok, CheckConflict(ok) PROVE CollectorType'
    BY <1>0, <2>4 DEF CheckConflict
  <2>5. ASSUME NEW ok, NEW saved, NoteMove(ok, saved) PROVE CollectorType'
    BY <1>0, <2>5 DEF NoteMove
  <2>6. CASE RefuseMove
    BY <1>0, <2>6 DEF RefuseMove
  <2> QED
    BY <1>2, <2>1, <2>2, <2>3, <2>4, <2>5, <2>6 DEF CollectorRuns
<1>3. CASE QueueMove
  BY <1>0, <1>3, SelectedFields DEF QueueMove
<1>4. ASSUME NEW ms, AskForLock(ms) PROVE CollectorType'
  BY <1>4 DEF AskForLock
<1>5. ASSUME NEW ok, NEW saved, SetLock(ok, saved) PROVE CollectorType'
  BY <1>0, <1>5 DEF SetLock, Replace
<1>6. ASSUME NEW saved, StopLock(saved) PROVE CollectorType'
  BY <1>0, <1>6 DEF StopLock, Replace
<1>7. ASSUME NEW saved, StampRestart(saved) PROVE CollectorType'
  BY <1>7 DEF StampRestart
<1>8. ASSUME NEW r, SetRate(r) PROVE CollectorType'
  BY <1>8 DEF SetRate
<1>9. ASSUME NEW n \in ManualMoves, MoveByHand(n) PROVE CollectorType'
  BY <1>9, LockAssumption DEF MoveByHand, LockAssumption, Some
<1>10. CASE EndOperation
  BY <1>10, Constants DEF EndOperation
<1>11. CASE Tick
  BY <1>11 DEF Tick
<1>12. CASE SyncClock
  BY <1>12 DEF SyncClock
<1>13. CASE Reboot
  BY <1>0, <1>13, Constants DEF Reboot
<1>14. CASE UNCHANGED vars
  BY <1>14 DEF vars
<1> QED
  BY <1>1, <1>2, <1>3, <1>4, <1>5, <1>6, <1>7, <1>8, <1>9, <1>10, <1>11, <1>12,
     <1>13, <1>14 DEF Next, Collect, HttpSets

--------------------------------------------------------------------------------
(* The period of a move. *)

Periods == [noted : {"no", "ram", "flash"}, gap : 0..MaxRate, limit : 1..MaxRate]
Moving  == collector \in {"preflight", "conflict", "queue"}

\* While a period lasts, the code's own cooldown has not passed, and what is in
\* flash would bring it back.
PeriodOK ==
  /\ period \in Periods
  /\ period.noted = "no" => period = NoPeriod
  /\ Moving => period = NoPeriod
  /\ seen => stamp # "none"
  /\ period.noted # "no" =>
       /\ period.gap < period.limit /\ period.limit <= rate
       /\ since <= period.gap /\ stamp # "none"
       /\ ~seen => stamp = "known" /\ boot_age <= period.gap
  /\ period.noted = "flash" =>
       /\ flash.stamp # "none"
       /\ flash.stamp = "known" => flash.since <= period.gap

LEMMA NoPeriodType == NoPeriod \in Periods
<1>1. MaxRate \in 0..MaxRate /\ MaxRate \in 1..MaxRate
  BY Constants
<1> QED
  BY <1>1 DEF NoPeriod, Periods

LEMMA RunningPeriod ==
  ASSUME NEW p \in Periods
  PROVE  /\ Running(p) \in {p, NoPeriod} /\ Running(p) \in Periods
         /\ Running(p).noted # "no" => Running(p) = p /\ p.gap < p.limit
<1>1. p.gap \in 0..MaxRate /\ p.limit \in 1..MaxRate
  BY DEF Periods
<1>2. NoPeriod.noted = "no"
  BY DEF NoPeriod
<1> QED
  BY <1>1, <1>2, NoPeriodType, Constants DEF Running

LEMMA RemainingIsPeriod ==
  ASSUME LockType, PeriodOK, Remaining = 0
  PROVE  period = NoPeriod
<1> SUFFICES ASSUME period.noted # "no" PROVE FALSE
  BY DEF PeriodOK
<1>1. /\ period.gap \in Nat /\ period.limit \in Nat /\ rate \in Nat
      /\ since \in Nat /\ boot_age \in Nat
  BY Constants DEF PeriodOK, Periods, LockType
<1>2. period.gap < rate /\ since < rate
  BY <1>1 DEF PeriodOK
<1>3. CASE seen
  BY <1>1, <1>2, <1>3 DEF Remaining, Left
<1>4. CASE ~seen
  <2>1. stamp = "known" /\ boot_age < rate
    BY <1>1, <1>2, <1>4 DEF PeriodOK
  <2> QED
    BY <1>1, <1>2, <1>4, <2>1 DEF Remaining, Restored, Left, Least
<1> QED
  BY <1>3, <1>4

\* What a write to flash leaves there, for the period.
LEMMA NotedInFlash ==
  ASSUME LockType, PeriodOK, NEW saved, NoteFollows(saved),
         UNCHANGED <<action_vars, rate, boot_age, collector>>,
         saved => flash'.stamp = stamp /\ flash'.since = EpochAge(stamp, since),
         ~saved => flash' = flash
  PROVE  PeriodOK'
<1>1. /\ period' \in Periods /\ period'.gap = period.gap
      /\ period'.limit = period.limit
      /\ period'.noted \in {"no", "ram", "flash"}
      /\ period'.noted = "no" <=> period.noted = "no"
      /\ period'.noted = "no" => period' = period
      /\ period'.noted = "flash" => saved \/ period.noted = "flash"
  BY DEF NoteFollows, PeriodOK, Periods
<1>2. NoPeriod.noted = "no"
  BY DEF NoPeriod
<1>3. CASE saved
  <2>1. stamp = "known" => flash'.since = since
    BY <1>3 DEF EpochAge
  <2> QED
    BY <1>1, <1>2, <1>3, <2>1 DEF PeriodOK, Moving, action_vars
<1>4. CASE ~saved
  BY <1>1, <1>2, <1>4 DEF PeriodOK, Moving, action_vars
<1> QED
  BY <1>3, <1>4

LEMMA PeriodKept ==
  ASSUME PeriodOK, UNCHANGED <<period, action_vars, rate, flash, boot_age>>,
         Moving' => Moving
  PROVE  PeriodOK'
BY DEF PeriodOK, action_vars

LEMMA InitPeriod == Init => PeriodOK
BY NoPeriodType DEF Init, PeriodOK, Moving, NoPeriod

LEMMA EvaluatePeriod ==
  ASSUME LockType, PeriodOK, NEW resting, NEW counting, NEW selecting,
         Evaluate(resting, counting, selecting)
  PROVE  PeriodOK'
<1>1. UNCHANGED <<period, action_vars, rate, flash, boot_age>>
  BY DEF Evaluate, CollectorKeeps, clock_vars
<1>2. CASE Remaining = 0
  BY <1>1, <1>2, RemainingIsPeriod DEF PeriodOK, action_vars
<1>3. CASE Remaining # 0
  <2>1. ~Moving'
    BY <1>3 DEF Evaluate, Moving
  <2> QED
    BY <1>1, <2>1, PeriodKept
<1> QED
  BY <1>2, <1>3

LEMMA NotePeriod ==
  ASSUME LockType, PeriodOK, NEW ok, NEW saved, NoteMove(ok, saved)
  PROVE  PeriodOK'
<1>1. ~Moving' /\ UNCHANGED <<rate, boot_age>>
  BY DEF NoteMove, Moving, CollectorKeeps, clock_vars
<1>2. CASE ok
  <2>1. period' = [noted |-> IF saved THEN "flash" ELSE "ram", gap |-> 0, limit |-> rate]
    BY <1>2 DEF NoteMove
  <2>2. rate \in 1..MaxRate /\ 0 \in 0..MaxRate
    BY Constants DEF LockType
  <2>3. /\ period' \in Periods /\ period'.gap = 0 /\ period'.limit = rate
        /\ period'.noted # "no" /\ (period'.noted = "flash" => saved)
    BY <2>1, <2>2 DEF Periods
  <2>4. stamp' # "none" /\ since' = 0 /\ seen'
    BY <1>2, Zenon DEF NoteMove, StampNow
  <2>5. saved => flash'.stamp # "none" /\ (flash'.stamp = "known" => flash'.since = 0)
    BY <1>2, <2>4 DEF NoteMove, Persist, EpochAge
  <2> QED
    BY <1>1, <2>2, <2>3, <2>4, <2>5 DEF PeriodOK
<1>3. CASE ~ok
  <2>1. period' = NoPeriod /\ UNCHANGED action_vars
    BY <1>3 DEF NoteMove
  <2>2. NoPeriod.noted = "no"
    BY DEF NoPeriod
  <2> QED
    BY <1>1, <2>1, <2>2, NoPeriodType DEF PeriodOK, action_vars
<1> QED
  BY <1>2, <1>3

LEMMA RestartPeriod ==
  ASSUME LockType, PeriodOK, NEW saved, StampRestart(saved)
  PROVE  PeriodOK'
<1>1. UNCHANGED <<rate, boot_age, collector>>
  BY DEF StampRestart, OthersKeep, clock_vars, collector_vars
<1>2. stamp' # "none" /\ since' = 0 /\ seen'
  BY Zenon DEF StampRestart, StampNow
<1>3. saved => flash'.stamp # "none" /\ (flash'.stamp = "known" => flash'.since = 0)
  BY <1>2 DEF StampRestart, Persist, EpochAge
<1>4. ~saved => flash' = flash
  BY DEF StampRestart, Persist
<1>5. /\ period' \in Periods /\ period'.gap = period.gap
      /\ period'.limit = period.limit
      /\ period'.noted = "no" <=> period.noted = "no"
      /\ period'.noted = "no" => period' = period
      /\ period'.noted = "flash" => saved \/ period.noted = "flash"
  BY DEF StampRestart, NoteFollows, PeriodOK, Periods
<1>6. NoPeriod.noted = "no" /\ period.gap >= 0
  BY DEF NoPeriod, PeriodOK, Periods
<1> QED
  BY <1>1, <1>2, <1>3, <1>4, <1>5, <1>6 DEF PeriodOK, Moving

LEMMA RatePeriod ==
  ASSUME LockType, PeriodOK, NEW r \in Rates, SetRate(r)
  PROVE  PeriodOK'
<1> DEFINE p == [period EXCEPT !.limit = Least(@, r)]
<1>1. UNCHANGED <<action_vars, flash, boot_age, collector>> /\ rate' = r
  BY DEF SetRate, OthersKeep, clock_vars, collector_vars
<1>2. r \in 1..MaxRate /\ rate \in 1..MaxRate
  BY Constants DEF LockType
<1>3. /\ p \in Periods /\ p.gap = period.gap /\ p.noted = period.noted
      /\ p.limit <= r /\ p.limit <= period.limit /\ p.limit \in {period.limit, r}
  BY <1>2, Constants DEF PeriodOK, Periods, Least
<1>4. period' = Running(p)
  BY DEF SetRate
<1>5. NoPeriod.noted = "no" /\ Running(NoPeriod) = NoPeriod
  BY DEF NoPeriod, Running
<1>6. period = NoPeriod => period' = NoPeriod
  <2> SUFFICES ASSUME period = NoPeriod PROVE p.gap >= p.limit
    BY <1>4 DEF Running
  <2> QED
    BY <1>2, <1>3, Constants DEF NoPeriod
<1> HIDE DEF p
<1>7. /\ period' \in Periods /\ period' \in {p, NoPeriod}
      /\ period'.noted # "no" => period' = p /\ p.gap < p.limit
  BY <1>3, <1>4, RunningPeriod
<1> QED
  BY <1>1, <1>2, <1>3, <1>5, <1>6, <1>7 DEF PeriodOK, Moving, action_vars

LEMMA TickPeriod ==
  ASSUME LockType, PeriodOK, Tick
  PROVE  PeriodOK'
<1> DEFINE p == [period EXCEPT !.gap = Older(@)]
<1>1. UNCHANGED <<stamp, seen, rate, collector>>
  BY DEF Tick, collector_vars
<1>2. /\ since' = Older(since) /\ boot_age' = Older(boot_age)
      /\ flash'.stamp = flash.stamp /\ flash'.since = Older(flash.since)
  BY DEF Tick, LockType, Saved
<1>3. /\ period.gap \in 0..MaxRate /\ period.limit \in 1..MaxRate
      /\ since \in 0..MaxRate /\ boot_age \in 0..MaxRate /\ flash.since \in 0..MaxRate
  BY DEF LockType, Saved, PeriodOK, Periods
<1>4. /\ p \in Periods /\ p.gap = Older(period.gap) /\ p.limit = period.limit
      /\ p.noted = period.noted
  BY <1>3, Ages DEF PeriodOK, Periods
<1>5. period' = Running(p) /\ NoPeriod.noted = "no"
  BY DEF Tick, NoPeriod
<1>6. period = NoPeriod => period' = NoPeriod
  <2> SUFFICES ASSUME period = NoPeriod PROVE p.gap >= p.limit
    BY <1>5 DEF Running
  <2> QED
    BY <1>3, <1>4, Constants DEF NoPeriod, Older, Least
<1> HIDE DEF p
<1>7. /\ period' \in Periods /\ period' \in {p, NoPeriod}
      /\ period'.noted # "no" => period' = p /\ p.gap < p.limit
  BY <1>4, <1>5, RunningPeriod
<1>8. \A age \in 0..MaxRate :
        age <= period.gap => Older(age) <= Older(period.gap)
  BY <1>3, Constants DEF Older, Least
<1> QED
  BY <1>1, <1>2, <1>3, <1>4, <1>5, <1>6, <1>7, <1>8 DEF PeriodOK, Moving

LEMMA RebootPeriod ==
  ASSUME LockType, PeriodOK, Reboot
  PROVE  PeriodOK'
<1>1. ~Moving' /\ boot_age' = 0 /\ UNCHANGED <<rate, flash>>
  BY DEF Reboot, Moving
<1>2. /\ stamp' = flash.stamp /\ (seen' <=> flash.stamp = "unknown")
      /\ flash.stamp = "unknown" => since' = 0
      /\ flash.stamp # "unknown" => since' = flash.since
  BY DEF Reboot, Load
<1>3. flash.stamp \in {"none", "known", "unknown"} /\ period.gap >= 0
  BY DEF LockType, Saved, Stamps, PeriodOK, Periods
<1>4. CASE period.noted = "flash"
  <2>1. period' = period
    BY <1>4 DEF Reboot
  <2> QED
    BY <1>1, <1>2, <1>3, <1>4, <2>1 DEF PeriodOK
<1>5. CASE period.noted # "flash"
  <2>1. period' = NoPeriod /\ NoPeriod.noted = "no"
    BY <1>5 DEF Reboot, NoPeriod
  <2> QED
    BY <1>1, <1>2, <2>1, NoPeriodType DEF PeriodOK
<1> QED
  BY <1>4, <1>5

LEMMA PeriodPreserved ==
  LockType /\ PeriodOK /\ [Next]_vars => PeriodOK'
<1> SUFFICES ASSUME LockType, PeriodOK, [Next]_vars PROVE PeriodOK'
  OBVIOUS
<1> USE DEF lock_vars, clock_vars, http_vars, collector_vars, CollectorKeeps,
            OthersKeep, Moving
<1>1. ASSUME NEW observed, StoreGeneration(observed) PROVE PeriodOK'
  BY <1>1, PeriodKept DEF StoreGeneration
<1>2. CASE CollectorRuns
  <2>1. ASSUME NEW resting, NEW counting, NEW selecting,
               Evaluate(resting, counting, selecting)
        PROVE  PeriodOK'
    BY <2>1, EvaluatePeriod
  <2>2. CASE SkipEvaluation
    BY <2>2, PeriodKept DEF SkipEvaluation
  <2>3. ASSUME NEW ok, RunPreflight(ok) PROVE PeriodOK'
    BY <2>3, PeriodKept DEF RunPreflight
  <2>4. ASSUME NEW ok, CheckConflict(ok) PROVE PeriodOK'
    BY <2>4, PeriodKept DEF CheckConflict
  <2>5. ASSUME NEW ok, NEW saved, NoteMove(ok, saved) PROVE PeriodOK'
    BY <2>5, NotePeriod
  <2>6. CASE RefuseMove
    BY <2>6, PeriodKept DEF RefuseMove
  <2> QED
    BY <1>2, <2>1, <2>2, <2>3, <2>4, <2>5, <2>6 DEF CollectorRuns
<1>3. CASE QueueMove
  BY <1>3, PeriodKept DEF QueueMove
<1>4. ASSUME NEW ms, AskForLock(ms) PROVE PeriodOK'
  BY <1>4, PeriodKept DEF AskForLock
<1>5. ASSUME NEW ms, NEW saved, Replace(ms, saved),
             UNCHANGED <<action_vars, rate, boot_age, collector>>
      PROVE  PeriodOK'
  <2>1. /\ NoteFollows(saved)
        /\ saved => flash'.stamp = stamp /\ flash'.since = EpochAge(stamp, since)
        /\ ~saved => flash' = flash
    BY <1>5 DEF Replace, Written
  <2> QED
    BY <1>5, <2>1, NotedInFlash
<1>6. ASSUME NEW ok, NEW saved, SetLock(ok, saved) PROVE PeriodOK'
  <2>1. CASE ok
    BY <1>5, <1>6, <2>1 DEF SetLock
  <2>2. CASE ~ok
    BY <1>6, <2>2, PeriodKept DEF SetLock
  <2> QED
    BY <2>1, <2>2
<1>7. ASSUME NEW saved, StopLock(saved) PROVE PeriodOK'
  BY <1>5, <1>7 DEF StopLock
<1>8. ASSUME NEW saved, StampRestart(saved) PROVE PeriodOK'
  BY <1>8, RestartPeriod
<1>9. ASSUME NEW r \in Rates, SetRate(r) PROVE PeriodOK'
  BY <1>9, RatePeriod
<1>10. ASSUME NEW n, MoveByHand(n) PROVE PeriodOK'
  BY <1>10, PeriodKept DEF MoveByHand
<1>11. CASE EndOperation
  BY <1>11, PeriodKept DEF EndOperation
<1>12. CASE Tick
  BY <1>12, TickPeriod
<1>13. CASE SyncClock
  BY <1>13, PeriodKept DEF SyncClock
<1>14. CASE Reboot
  BY <1>14, RebootPeriod
<1>15. CASE UNCHANGED vars
  BY <1>15, PeriodKept DEF vars
<1> QED
  BY <1>1, <1>2, <1>3, <1>4, <1>6, <1>7, <1>8, <1>9, <1>10, <1>11, <1>12, <1>13,
     <1>14, <1>15 DEF Next, Collect, HttpSets

--------------------------------------------------------------------------------
(* The lock that is in force, and the one that would be. *)

Sound(ms) ==
  /\ Tree(ms)
  /\ \A i \in DOMAIN ms : ms[i].node # ms[i].parent
  /\ \A i, j \in DOMAIN ms : ms[i].node = ms[j].node => i = j

LockOK == LockIsSaved /\ Sound(mappings) /\ Sound(http_mappings)

LEMMA EmptyIsSound == Sound(<<>>)
<1>1. DOMAIN <<>> = {}
  OBVIOUS
<1>2. NodesOf(<<>>) = {}
  BY <1>1, Zenon DEF NodesOf
<1> QED
  BY <1>1, <1>2 DEF Sound, Tree

LEMMA ValidIsSound ==
  ASSUME NEW ms \in Lists, Valid(ms) PROVE Sound(ms)
<1>1. Tree(ms) /\ \A i, j \in DOMAIN ms : ms[i].node = ms[j].node => i = j
  BY ListEntries, ValidIsTree, ValidIsUnique
<1>2. \A i \in DOMAIN ms : ms[i].node # ms[i].parent
  BY DEF Valid
<1> QED
  BY <1>1, <1>2 DEF Sound

LEMMA SoundParent ==
  ASSUME NEW ms \in Lists, Sound(ms), NEW i \in DOMAIN ms
  PROVE  ParentIn(ms, ms[i].node) = ms[i].parent
<1>1. (CHOOSE j \in DOMAIN ms : ms[j].node = ms[i].node) = i
  BY DEF Sound
<1> QED
  BY <1>1 DEF ParentIn

LEMMA InitLock == Init => LockOK
BY EmptyIsSound DEF Init, LockOK, LockIsSaved, NoLock

LEMMA LockPreserved ==
  LockType /\ LockOK /\ [Next]_vars => LockOK'
<1> SUFFICES ASSUME LockType, LockOK, [Next]_vars PROVE LockOK'
  OBVIOUS
<1> USE DEF lock_vars, http_vars, CollectorKeeps, OthersKeep
<1>1. ASSUME UNCHANGED <<mappings, http_mappings>>,
             flash'.mappings \in {mappings, flash.mappings}
      PROVE  LockOK'
  BY <1>1 DEF LockOK, LockIsSaved
<1>2. ASSUME NEW ms, Sound(ms), NEW saved, Replace(ms, saved),
             http_mappings' \in {<<>>, http_mappings}
      PROVE  LockOK'
  BY <1>2, EmptyIsSound DEF LockOK, LockIsSaved, Replace, Written
<1>3. ASSUME NEW saved, Persist(saved)
      PROVE  flash'.mappings \in {mappings, flash.mappings}
  BY <1>3 DEF Persist
<1>4. CASE Collect
  BY <1>1, <1>4 DEF Collect, StoreGeneration
<1>5. CASE CollectorRuns
  <2>1. UNCHANGED <<mappings, http_mappings>>
    BY <1>5 DEF CollectorRuns, Evaluate, SkipEvaluation, RunPreflight,
                CheckConflict, NoteMove, RefuseMove
  <2>2. flash'.mappings \in {mappings, flash.mappings}
    <3>1. ASSUME NEW ok, NEW saved, NoteMove(ok, saved)
          PROVE  flash'.mappings \in {mappings, flash.mappings}
      BY <1>3, <3>1 DEF NoteMove
    <3> QED
      BY <1>5, <3>1 DEF CollectorRuns, Evaluate, SkipEvaluation, RunPreflight,
                        CheckConflict, RefuseMove
  <2> QED
    BY <1>1, <2>1, <2>2
<1>6. CASE QueueMove
  BY <1>1, <1>6 DEF QueueMove
<1>7. ASSUME NEW ms \in Requests, AskForLock(ms) PROVE LockOK'
  <2>1. Sound(ms)
    BY <1>7, ValidIsSound DEF AskForLock, Lists
  <2> QED
    BY <1>7, <2>1 DEF AskForLock, LockOK, LockIsSaved
<1>8. ASSUME NEW ok, NEW saved, SetLock(ok, saved) PROVE LockOK'
  <2>1. CASE ok
    BY <1>2, <1>8, <2>1 DEF SetLock, LockOK
  <2>2. CASE ~ok
    BY <1>8, <2>2, EmptyIsSound DEF SetLock, LockOK, LockIsSaved
  <2> QED
    BY <2>1, <2>2
<1>9. ASSUME NEW saved, StopLock(saved) PROVE LockOK'
  BY <1>2, <1>9, EmptyIsSound DEF StopLock
<1>10. ASSUME NEW saved, StampRestart(saved) PROVE LockOK'
  BY <1>1, <1>3, <1>10 DEF StampRestart
<1>11. ASSUME NEW r, SetRate(r) PROVE LockOK'
  BY <1>1, <1>11 DEF SetRate
<1>12. ASSUME NEW n, MoveByHand(n) PROVE LockOK'
  BY <1>1, <1>12 DEF MoveByHand
<1>13. CASE EndOperation
  BY <1>1, <1>13 DEF EndOperation
<1>14. CASE Tick
  <2>1. flash'.mappings = flash.mappings /\ UNCHANGED <<mappings, http_mappings>>
    BY <1>14 DEF Tick, LockType, Saved
  <2> QED
    BY <1>1, <2>1
<1>15. CASE SyncClock
  BY <1>1, <1>15 DEF SyncClock
<1>16. CASE Reboot
  BY <1>16, EmptyIsSound DEF Reboot, Load, LockOK, LockIsSaved
<1>17. CASE UNCHANGED vars
  BY <1>1, <1>17 DEF vars
<1> QED
  BY <1>4, <1>5, <1>6, <1>7, <1>8, <1>9, <1>10, <1>11, <1>12, <1>13, <1>14,
     <1>15, <1>16, <1>17 DEF Next, HttpSets

--------------------------------------------------------------------------------
(* The generations a move rests on. *)

Observed == Observations \cup {Nothing}

\* The last m of the generations evaluated showed a Node without its Parent.
Missed(seq, m, n, p) ==
  /\ m <= Len(seq)
  /\ \A i \in 1..Len(seq) : i > Len(seq) - m => MismatchIn(seq[i], n, p)

ConfirmedOK ==
  /\ recent \in Seq(Observed) /\ Len(recent) <= Confirmations
  /\ \A n \in Nodes : ParentIn(mappings, n) # None =>
       Missed(recent, counts[n], n, ParentIn(mappings, n))
  /\ Moving => /\ selected \in Entry /\ selected.node # selected.parent
               /\ Missed(recent, Confirmations, selected.node, selected.parent)

LEMMA EmptyMissed ==
  ASSUME NEW seq \in Seq(Observed), NEW n, NEW p
  PROVE  Missed(seq, 0, n, p)
BY DEF Missed

LEMMA InitConfirmed == Init => ConfirmedOK
<1> SUFFICES ASSUME Init PROVE ConfirmedOK
  OBVIOUS
<1>1. recent \in Seq(Observed) /\ Len(recent) = 0
  BY DEF Init
<1>2. \A n \in Nodes : counts[n] = 0
  BY DEF Init, NoCounts
<1>3. ~Moving
  BY DEF Init, Moving
<1>4. \A n \in Nodes : Missed(recent, counts[n], n, ParentIn(mappings, n))
  BY <1>1, <1>2, EmptyMissed
<1> QED
  BY <1>1, <1>3, <1>4, Constants DEF ConfirmedOK

\* The oldest generation is forgotten when there are enough.
LEMMA LatestAppended ==
  ASSUME NEW seq \in Seq(Observed), Len(seq) <= Confirmations, NEW o \in Observed
  PROVE  LET all == Append(seq, o)  new == Latest(all) IN
         /\ new \in Seq(Observed) /\ Len(new) <= Confirmations
         /\ Len(new) = Least(Len(seq) + 1, Confirmations)
         /\ new[Len(new)] = o
         /\ \A i \in 1..Len(new) : i < Len(new) =>
              /\ i + Len(seq) + 1 - Len(new) \in 1..Len(seq)
              /\ new[i] = seq[i + Len(seq) + 1 - Len(new)]
<1> DEFINE all == Append(seq, o)
           new == Latest(all)
<1>1. all \in Seq(Observed) /\ Len(all) = Len(seq) + 1 /\ all[Len(all)] = o
  OBVIOUS
<1>2. \A i \in 1..Len(seq) : all[i] = seq[i]
  OBVIOUS
<1>3. Len(seq) \in Nat
  OBVIOUS
<1> HIDE DEF all
<1>4. CASE Len(all) > Confirmations
  <2>1. new = Tail(all)
    BY <1>4 DEF Latest
  <2>2. /\ new \in Seq(Observed) /\ Len(new) = Len(seq) /\ Len(seq) = Confirmations
        /\ \A i \in 1..Len(seq) : new[i] = all[i + 1]
    BY <1>1, <1>3, <1>4, <2>1, Constants
  <2> HIDE DEF new
  <2>3. new[Len(new)] = o
    BY <1>1, <1>3, <2>2, Constants
  <2> QED
    BY <1>1, <1>2, <1>3, <2>2, <2>3, Constants DEF Least, all, new
<1>5. CASE Len(all) <= Confirmations
  <2>1. new = all
    BY <1>1, <1>3, <1>5, Constants DEF Latest
  <2> HIDE DEF new
  <2> QED
    BY <1>1, <1>2, <1>3, <1>5, <2>1, Constants DEF Least, all, new
<1> QED
  BY <1>1, <1>3, <1>4, <1>5, Constants

\* A mismatch that is counted, or not, as Counted says.
LEMMA MissedAgain ==
  ASSUME CollectorType, NEW seq \in Seq(Observed), Len(seq) <= Confirmations,
         NEW n \in Nodes, NEW p, Missed(seq, counts[n], n, p), NEW moving
  PROVE  Missed(Latest(Append(seq, nodes)), Counted(n, p, moving), n, p)
<1> DEFINE new == Latest(Append(seq, nodes))
           m == Counted(n, p, moving)
<1>1. nodes \in Observed /\ counts[n] \in 0..Confirmations
  BY DEF CollectorType, Observed
<1>2. /\ new \in Seq(Observed) /\ Len(new) = Least(Len(seq) + 1, Confirmations)
      /\ new[Len(new)] = nodes
      /\ \A i \in 1..Len(new) : i < Len(new) =>
           /\ i + Len(seq) + 1 - Len(new) \in 1..Len(seq)
           /\ new[i] = seq[i + Len(seq) + 1 - Len(new)]
  BY <1>1, LatestAppended
<1>3. Len(seq) \in Nat /\ Len(new) \in Nat
  BY <1>2
<1> HIDE DEF new
<1>4. CASE ~Mismatch(n, p)
  <2>1. m = 0
    BY <1>4 DEF Counted
  <2> QED
    BY <1>2, <2>1, EmptyMissed DEF new
<1>5. CASE Mismatch(n, p)
  <2>1. /\ m \in 0..Confirmations /\ m <= counts[n] + 1
    BY <1>1, <1>5, Constants DEF Counted, Least
  <2> HIDE DEF m
  <2>2. m <= Len(new)
    BY <1>1, <1>2, <1>3, <2>1, Constants DEF Least, Missed
  <2>3. ASSUME NEW i \in 1..Len(new), i > Len(new) - m
        PROVE  MismatchIn(new[i], n, p)
    <3>1. CASE i = Len(new)
      BY <1>2, <1>5, <3>1 DEF Mismatch
    <3>2. CASE i < Len(new)
      <4> DEFINE k == i + Len(seq) + 1 - Len(new)
      <4>1. k \in 1..Len(seq) /\ new[i] = seq[k]
        BY <1>2, <3>2
      <4>2. k > Len(seq) - counts[n]
        BY <1>1, <1>3, <2>1, <2>3
      <4> QED
        BY <4>1, <4>2 DEF Missed
    <3> QED
      BY <1>3, <3>1, <3>2
  <2> QED
    BY <2>2, <2>3 DEF Missed, new, m
<1> QED
  BY <1>4, <1>5

LEMMA EvaluateConfirmed ==
  ASSUME LockType, CollectorType, LockOK, ConfirmedOK,
         NEW resting, NEW counting, NEW selecting,
         Evaluate(resting, counting, selecting)
  PROVE  ConfirmedOK'
<1>1. mappings \in Lists /\ mappings' = mappings
  BY DEF Evaluate, CollectorKeeps, LockType
<1>2. CASE mappings = <<>>
  <2>1. recent' = <<>> /\ \A n : ParentIn(mappings, n) = None
    BY <1>2 DEF Evaluate, ParentIn
  <2>2. ~Moving'
    <3>1. Candidates(resting, selecting) = {}
      BY <1>2 DEF Candidates
    <3> QED
      BY <3>1 DEF Evaluate, Moving
  <2>3. recent' \in Seq(Observed) /\ Len(recent') = 0
    BY <2>1
  <2> QED
    BY <1>1, <2>1, <2>2, <2>3, Constants DEF ConfirmedOK
<1>3. CASE mappings # <<>>
  <2>1. recent' = Latest(Append(recent, nodes))
    BY <1>3 DEF Evaluate
  <2>2. nodes \in Observed
    BY DEF CollectorType, Observed
  <2>3. recent' \in Seq(Observed) /\ Len(recent') <= Confirmations
    BY <2>1, <2>2, LatestAppended DEF ConfirmedOK
  <2>4. ASSUME NEW n \in Nodes, ParentIn(mappings, n) # None
        PROVE  Missed(recent', counts'[n], n, ParentIn(mappings, n))
    <3>1. counts'[n] = Counted(n, ParentIn(mappings, n), counting)
      BY <2>4 DEF Evaluate
    <3> QED
      BY <2>1, <2>4, <3>1, MissedAgain DEF ConfirmedOK
  <2>5. ASSUME Moving'
        PROVE  /\ selected' \in Entry /\ selected'.node # selected'.parent
               /\ Missed(recent', Confirmations, selected'.node, selected'.parent)
    <3>1. collector' # "idle"
      BY <2>5 DEF Moving
    <3>2. PICK i \in DOMAIN mappings :
            /\ i \in Candidates(resting, selecting)
            /\ selected' = mappings[i] /\ mappings[i] \in Entry
      BY <3>1, EvaluateSelects
    <3> DEFINE n == mappings[i].node
               p == mappings[i].parent
    <3>3. n \in Nodes /\ p \in Nodes /\ n # p
      BY <3>2, EntryFields DEF LockOK, Sound
    <3>4. ParentIn(mappings, n) = p
      BY <1>1, SoundParent DEF LockOK
    <3>5. counts'[n] >= Confirmations
      BY <3>2, Zenon DEF Candidates
    <3> HIDE DEF n, p
    <3>6. Missed(recent', counts'[n], n, p)
      BY <2>4, <3>3, <3>4, Constants
    <3>7. counts'[n] = Counted(n, p, counting)
      BY <3>3, <3>4, Constants DEF Evaluate
    <3>8. counts'[n] \in 0..Confirmations
      BY <3>3, <3>7, CountedType
    <3>9. counts'[n] = Confirmations
      BY <3>5, <3>8, Constants
    <3> QED
      BY <3>2, <3>3, <3>6, <3>9 DEF n, p
  <2> QED
    BY <1>1, <2>3, <2>4, <2>5 DEF ConfirmedOK
<1> QED
  BY <1>2, <1>3

\* A lock that is set or stopped: counts begin anew, a move under way does not.
LEMMA ReplaceConfirmed ==
  ASSUME ConfirmedOK, NEW ms, NEW saved, Replace(ms, saved),
         UNCHANGED collector_vars
  PROVE  ConfirmedOK'
<1>1. \A n \in Nodes : counts'[n] = 0
  BY DEF Replace, NoCounts
<1>2. recent' \in {<<>>, recent} /\ (selected # NoMove => recent' = recent)
  BY DEF Replace, Forget
<1>3. recent' \in Seq(Observed) /\ Len(recent') <= Confirmations
  BY <1>2, Constants DEF ConfirmedOK
<1>4. \A n \in Nodes : Missed(recent', counts'[n], n, ParentIn(mappings, n)')
  BY <1>1, <1>3, EmptyMissed
<1>5. ASSUME Moving' PROVE Moving /\ recent' = recent /\ selected' = selected
  <2>1. Moving /\ selected' = selected
    BY <1>5 DEF collector_vars, Moving
  <2>2. selected # NoMove
    BY <2>1, EntryFields, Constants DEF ConfirmedOK, NoMove
  <2> QED
    BY <1>2, <2>1, <2>2
<1> QED
  BY <1>3, <1>4, <1>5 DEF ConfirmedOK

LEMMA ConfirmedKept ==
  ASSUME ConfirmedOK, UNCHANGED <<mappings, counts, recent>>,
         Moving' => Moving /\ selected' = selected
  PROVE  ConfirmedOK'
BY DEF ConfirmedOK

LEMMA ConfirmedPreserved ==
  LockType /\ CollectorType /\ LockOK /\ ConfirmedOK /\ [Next]_vars => ConfirmedOK'
<1> SUFFICES ASSUME LockType, CollectorType, LockOK, ConfirmedOK, [Next]_vars
             PROVE  ConfirmedOK'
  OBVIOUS
<1> USE DEF lock_vars, collector_vars, CollectorKeeps, OthersKeep, Moving
<1>1. ASSUME NEW observed, StoreGeneration(observed) PROVE ConfirmedOK'
  BY <1>1, ConfirmedKept DEF StoreGeneration
<1>2. CASE CollectorRuns
  <2>1. ASSUME NEW resting, NEW counting, NEW selecting,
               Evaluate(resting, counting, selecting)
        PROVE  ConfirmedOK'
    BY <2>1, EvaluateConfirmed
  <2>2. CASE SkipEvaluation
    BY <2>2, ConfirmedKept DEF SkipEvaluation
  <2>3. ASSUME NEW ok, RunPreflight(ok) PROVE ConfirmedOK'
    BY <2>3, ConfirmedKept DEF RunPreflight
  <2>4. ASSUME NEW ok, CheckConflict(ok) PROVE ConfirmedOK'
    BY <2>4, ConfirmedKept DEF CheckConflict
  <2>5. ASSUME NEW ok, NEW saved, NoteMove(ok, saved) PROVE ConfirmedOK'
    BY <2>5, ConfirmedKept DEF NoteMove
  <2>6. CASE RefuseMove
    BY <2>6, ConfirmedKept DEF RefuseMove
  <2> QED
    BY <1>2, <2>1, <2>2, <2>3, <2>4, <2>5, <2>6 DEF CollectorRuns
<1>3. CASE QueueMove
  BY <1>3, ConfirmedKept DEF QueueMove
<1>4. ASSUME NEW ms, AskForLock(ms) PROVE ConfirmedOK'
  BY <1>4, ConfirmedKept DEF AskForLock
<1>5. ASSUME NEW ok, NEW saved, SetLock(ok, saved) PROVE ConfirmedOK'
  <2>1. CASE ok
    BY <1>5, <2>1, ReplaceConfirmed DEF SetLock
  <2>2. CASE ~ok
    BY <1>5, <2>2, ConfirmedKept DEF SetLock
  <2> QED
    BY <2>1, <2>2
<1>6. ASSUME NEW saved, StopLock(saved) PROVE ConfirmedOK'
  BY <1>6, ReplaceConfirmed DEF StopLock
<1>7. ASSUME NEW saved, StampRestart(saved) PROVE ConfirmedOK'
  BY <1>7, ConfirmedKept DEF StampRestart
<1>8. ASSUME NEW r, SetRate(r) PROVE ConfirmedOK'
  BY <1>8, ConfirmedKept DEF SetRate
<1>9. ASSUME NEW n, MoveByHand(n) PROVE ConfirmedOK'
  BY <1>9, ConfirmedKept DEF MoveByHand
<1>10. CASE EndOperation
  BY <1>10, ConfirmedKept DEF EndOperation
<1>11. CASE Tick
  BY <1>11, ConfirmedKept DEF Tick
<1>12. CASE SyncClock
  BY <1>12, ConfirmedKept DEF SyncClock
<1>13. CASE Reboot
  <2>1. recent' \in Seq(Observed) /\ Len(recent') = 0 /\ ~Moving'
    BY <1>13 DEF Reboot
  <2>2. \A n \in Nodes : counts'[n] = 0
    BY <1>13 DEF Reboot, NoCounts
  <2> QED
    <3>1. \A n \in Nodes : Missed(recent', counts'[n], n, ParentIn(mappings, n)')
      BY <2>1, <2>2, EmptyMissed
    <3> QED
      BY <2>1, <3>1, Constants DEF ConfirmedOK
<1>14. CASE UNCHANGED vars
  BY <1>14, ConfirmedKept DEF vars
<1> QED
  BY <1>1, <1>2, <1>3, <1>4, <1>5, <1>6, <1>7, <1>8, <1>9, <1>10, <1>11, <1>12,
     <1>13, <1>14 DEF Next, Collect, HttpSets

LEMMA PeriodsAndRecentAreHistory == PeriodOK /\ ConfirmedOK => HistoryType
BY DEF PeriodOK, Periods, ConfirmedOK, Observed, HistoryType

--------------------------------------------------------------------------------
(* Steps. *)

\* Only the preflight leads to the next section.
LEMMA PreflightStep ==
  ASSUME [Next]_vars, collector = "preflight", collector' = "conflict"
  PROVE  selected.parent \notin Descendants(selected.node)
<1> USE DEF collector_vars, CollectorKeeps, OthersKeep
<1>1. CASE CollectorRuns
  <2>1. ASSUME NEW ok, RunPreflight(ok)
        PROVE  selected.parent \notin Descendants(selected.node)
    BY <2>1 DEF RunPreflight
  <2>2. ASSUME NEW ok, CheckConflict(ok) PROVE FALSE
    BY <2>2 DEF CheckConflict
  <2>3. ASSUME NEW ok, NEW saved, NoteMove(ok, saved) PROVE FALSE
    BY <2>3 DEF NoteMove
  <2>4. ASSUME NEW resting, NEW counting, NEW selecting,
               Evaluate(resting, counting, selecting)
        PROVE  FALSE
    BY <2>4 DEF Evaluate
  <2> QED
    BY <1>1, <2>1, <2>2, <2>3, <2>4 DEF CollectorRuns, SkipEvaluation, RefuseMove
<1>2. ~ Collect /\ ~ QueueMove /\ ~ Reboot
  BY DEF Collect, StoreGeneration, QueueMove, Reboot
<1>3. /\ \A ms : ~ AskForLock(ms)
      /\ \A ok, saved : ~ SetLock(ok, saved)
      /\ \A saved : ~ StopLock(saved) /\ ~ StampRestart(saved)
  BY DEF AskForLock, SetLock, StopLock, StampRestart
<1>4. /\ \A r : ~ SetRate(r)
      /\ \A n : ~ MoveByHand(n)
      /\ ~ EndOperation /\ ~ Tick /\ ~ SyncClock
  BY DEF SetRate, MoveByHand, EndOperation, Tick, SyncClock
<1>5. ~ UNCHANGED vars
  BY DEF vars
<1> QED
  BY <1>1, <1>2, <1>3, <1>4, <1>5 DEF Next, HttpSets

LEMMA UplinkType ==
  ASSUME LockType, CollectorType, NEW n \in Nodes
  PROVE  Uplink(n) \in Some
<1>1. nodes.parent[n] \in Some
  BY LockAssumption DEF CollectorType, LockAssumption, Nothing, Some
<1>2. ParentIn(mappings, n) \in Some
  BY ListEntries, ParentType DEF LockType, Some
<1> QED
  BY <1>1, <1>2 DEF Uplink

LEMMA PreflightKeepsTheTree ==
  ASSUME LockType, CollectorType, ConfirmedOK, [Next]_vars,
         collector = "preflight", collector' = "conflict"
  PROVE  \E S \in SUBSET Nodes :
           /\ selected.parent \in S /\ selected.node \notin S
           /\ \A n \in S : Uplink(n) \in S \cup {None}
<1> DEFINE D == Descendants(selected.node) \cup {selected.node}
           S == Nodes \ D
<1>1. /\ selected.node \in Nodes /\ selected.parent \in Nodes
      /\ selected.node # selected.parent
  BY EntryFields DEF ConfirmedOK, Moving
<1>2. selected.parent \notin D
  BY <1>1, PreflightStep
<1>3. \A m \in Nodes : Uplink(m) \in D => m \in D
  BY LockAssumption, DescendantsClosed
<1>4. \A m \in Nodes : Uplink(m) \in Nodes \cup {None}
  BY UplinkType DEF Some
<1> HIDE DEF D
<1>5. S \in SUBSET Nodes /\ selected.parent \in S
  BY <1>1, <1>2
<1>6. selected.node \notin S
  BY DEF D
<1>7. \A n \in S : Uplink(n) \in S \cup {None}
  BY <1>3, <1>4
<1> QED
  BY <1>5, <1>6, <1>7

LEMMA MovingIsConfirmed ==
  ASSUME LockType, ConfirmedOK, Moving
  PROVE  /\ Len(recent) = Confirmations
         /\ \A i \in DOMAIN recent :
              MismatchIn(recent[i], selected.node, selected.parent)
BY Constants DEF ConfirmedOK, Missed

LEMMA LockIsTreeOf ==
  ASSUME LockType, LockOK PROVE LockIsTree
<1>1. {m.node : m \in Entries} = NodesOf(mappings)
  BY DEF Entries, NodesOf
<1> QED
  BY <1>1, Zenon DEF LockOK, Sound, Tree, LockIsTree

--------------------------------------------------------------------------------
(* Theorems. *)

IInv == LockType /\ CollectorType /\ PeriodOK /\ LockOK /\ ConfirmedOK

\* The inductive invariant.
LEMMA Invariant == Spec => []IInv
<1>1. Init => IInv
  BY InitTypes, InitPeriod, InitLock, InitConfirmed DEF IInv
<1>2. IInv /\ [Next]_vars => IInv'
  BY LockTypeKept, CollectorTypeKept, PeriodPreserved, LockPreserved,
     ConfirmedPreserved DEF IInv
<1> QED
  BY <1>1, <1>2, PTL DEF Spec

\* Every variable keeps to its type, for any mesh, any rates and any number of
\* confirmations.
THEOREM TypeCorrect == Spec => []TypeOK
<1>1. IInv => TypeOK
  BY TypesAreTypeOK, PeriodsAndRecentAreHistory DEF IInv
<1> QED
  BY <1>1, Invariant, PTL

\* The lock in force is the one in flash, whichever writes fail.
THEOREM InForceIsSaved == Spec => []LockIsSaved
<1>1. IInv => LockIsSaved
  BY DEF IInv, LockOK
<1> QED
  BY <1>1, Invariant, PTL

\* The lock in force never holds a cycle: every way up ends at the gateway.
THEOREM AlwaysTree == Spec => []LockIsTree
<1>1. IInv => LockIsTree
  BY LockIsTreeOf DEF IInv
<1> QED
  BY <1>1, Invariant, PTL

\* A Node is moved on the strength of as many generations as the README says.
THEOREM Confirmed == Spec => MovesAreConfirmed
<1>1. IInv => (MoveQueued =>
        /\ Len(recent) = Confirmations
        /\ \A i \in DOMAIN recent :
             MismatchIn(recent[i], selected.node, selected.parent))
  BY MovingIsConfirmed DEF IInv, MoveQueued, Moving
<1> QED
  BY <1>1, Invariant, PTL DEF MovesAreConfirmed

\* Two moves are a period apart, restarts of the ESP32 included.
THEOREM MovesPaced == Spec => OneMovePerPeriod
<1>1. IInv => (MoveQueued => period = NoPeriod)
  BY DEF IInv, PeriodOK, MoveQueued, Moving
<1> QED
  BY <1>1, Invariant, PTL DEF OneMovePerPeriod

\* No move hangs a Node below itself.
THEOREM TreeKept == Spec => MovesKeepTheTree
<1>1. IInv /\ [Next]_vars =>
        (collector = "preflight" /\ collector' = "conflict" =>
           \E S \in SUBSET Nodes :
             /\ selected.parent \in S /\ selected.node \notin S
             /\ \A n \in S : Uplink(n) \in S \cup {None})
  BY PreflightKeepsTheTree DEF IInv
<1> QED
  BY <1>1, Invariant, PTL DEF Spec, MovesKeepTheTree
====
