-------------------------------- MODULE Recursion -------------------------------
(***************************************************************************)
(* What the proofs know of the natural numbers and of definitions by        *)
(* recursion: a set of numbers has a least member, and a function that is   *)
(* applied again and again has the values that the recursion says.          *)
(***************************************************************************)
EXTENDS Integers, WellFoundedInduction, TLAPS

LEMMA LeastMember ==
  ASSUME NEW T, T \subseteq Nat, T # {}
  PROVE  \E k \in T : \A j \in T : k <= j
<1> DEFINE Less == {ss \in Nat \X Nat : ss[1] < ss[2]}
<1>1. OpToRel(<, Nat) = Less
  BY Zenon DEF OpToRel
<1>2. IsWellFoundedOn(Less, Nat)
  BY <1>1, NatLessThanWellFounded, Zenon
<1>3. \E k \in T : \A j \in T : <<j, k>> \notin Less
  <2> HIDE DEF Less
  <2> QED
    BY <1>2, WFMin, Zenon
<1>4. \A j, k \in T : <<j, k>> \notin Less => k <= j
  BY SMT
<1> QED
  BY <1>3, <1>4, Zenon

\* A function can be applied again and again: what recursion by 1 defines.
Iterates(f, F, a, m) == f = [k \in 0..m |-> IF k = 0 THEN a ELSE F[f[k - 1]]]

LEMMA IterationExists ==
  ASSUME NEW F, NEW a, NEW n \in Nat
  PROVE  \E f : Iterates(f, F, a, n)
<1> DEFINE Bad == {m \in Nat : ~ \E f : Iterates(f, F, a, m)}
<1> SUFFICES ASSUME Bad # {} PROVE FALSE
  OBVIOUS
<1>1. PICK m \in Bad : \A j \in Bad : m <= j
  BY LeastMember
<1>2. CASE m = 0
  <2>1. Iterates([k \in 0..0 |-> a], F, a, 0)
    BY DEF Iterates
  <2> QED
    BY <1>1, <1>2, <2>1
<1>3. CASE m # 0
  <2>1. m - 1 \in Nat /\ m - 1 \notin Bad
    BY <1>1, <1>3
  <2>2. PICK f : Iterates(f, F, a, m - 1)
    BY <2>1
  <2> DEFINE g == [k \in 0..m |-> IF k = m THEN F[f[m - 1]] ELSE f[k]]
  <2>3. \A k \in 0..m - 1 : f[k] = IF k = 0 THEN a ELSE F[f[k - 1]]
    BY <2>1, <2>2 DEF Iterates
  <2>4. \A k \in 0..m : g[k] = IF k = 0 THEN a ELSE F[g[k - 1]]
    BY <1>1, <1>3, <2>3
  <2>5. Iterates(g, F, a, m)
    BY <2>4 DEF Iterates
  <2> QED
    BY <1>1, <2>5
<1> QED
  BY <1>2, <1>3

\* ... and stays in the set the function maps to itself.
LEMMA IterationType ==
  ASSUME NEW X, NEW F \in [X -> X], NEW a \in X, NEW n \in Nat,
         NEW f, Iterates(f, F, a, n)
  PROVE  f \in [0..n -> X]
<1> DEFINE Bad == {k \in 0..n : f[k] \notin X}
<1>1. Bad = {}
  <2> SUFFICES ASSUME Bad # {} PROVE FALSE
    OBVIOUS
  <2> Bad \subseteq Nat
    OBVIOUS
  <2>1. PICK k \in Bad : \A j \in Bad : k <= j
    BY LeastMember
  <2>2. f[k] = IF k = 0 THEN a ELSE F[f[k - 1]]
    BY <2>1 DEF Iterates
  <2>3. k # 0
    BY <2>1, <2>2
  <2>4. k - 1 \in 0..n /\ k - 1 \notin Bad
    BY <2>1, <2>3
  <2> QED
    BY <2>1, <2>2, <2>3, <2>4
<1> QED
  BY <1>1 DEF Iterates

================================================================================
