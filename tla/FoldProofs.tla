----------------------------- MODULE FoldProofs -----------------------------
(***************************************************************************)
(* Lemmas about folds over finite sets.  A fold is a recursive function on  *)
(* the subsets of a set: it picks an element of a subset and applies a step *)
(* to it and to its value at the rest.  Such a function exists for every    *)
(* step (FoldExists), and what holds of the base and is kept by the step    *)
(* holds of its values (SubsetInduction).                                  *)
(***************************************************************************)
EXTENDS Integers, FiniteSets, FiniteSetTheorems, TLAPS

(* A set of numbers that is not empty has a least one.                       *)
LEMMA LeastNumber ==
  ASSUME NEW D \in SUBSET Nat, D # {}
  PROVE  \E n \in D : \A k \in D : n <= k
<1> DEFINE less == {ss \in Nat \X Nat : ss[1] < ss[2]}
<1>1. IsWellFoundedOn(less, Nat) BY NatLessThanWellFounded DEF OpToRel
<1>2. PICK n \in D : \A k \in D : <<k, n>> \notin less
  <2> HIDE DEF less
  <2> QED BY <1>1, WFMin
<1>3. ASSUME NEW k \in D PROVE n <= k
  <2>1. <<k, n>> \in Nat \X Nat OBVIOUS
  <2>2. ~(k < n) BY <1>2, <2>1
  <2> QED BY <2>2
<1> QED BY <1>3

(* The element a fold takes out of a set.                                    *)
Pick(s) == CHOOSE x \in s : TRUE

(* A family of subsets that holds the empty set, and a set whenever it holds *)
(* the set without its picked element, holds them all.                      *)
LEMMA SubsetInduction ==
  ASSUME NEW S, IsFiniteSet(S), NEW Q, {} \in Q,
         \A s \in SUBSET S : s # {} /\ s \ {Pick(s)} \in Q => s \in Q
  PROVE  \A s \in SUBSET S : s \in Q
<1> DEFINE bad == {s \in SUBSET S : s \notin Q}
<1> SUFFICES ASSUME bad # {} PROVE FALSE OBVIOUS
<1>1. IsWellFoundedOn(StrictSubsetOrdering(S), SUBSET S)
  BY FS_StrictSubsetOrderingWellFounded, FS_FiniteSubsetsOfFinite
<1>2. PICK s \in bad : \A t \in bad : <<t, s>> \notin StrictSubsetOrdering(S)
  <2>1. bad \subseteq SUBSET S OBVIOUS
  <2> HIDE DEF bad
  <2> QED BY <1>1, <2>1, WFMin
<1>3. s # {} /\ s \in SUBSET S /\ s \notin Q OBVIOUS
<1> DEFINE t == s \ {Pick(s)}
<1>4. Pick(s) \in s BY <1>3 DEF Pick
<1>5. t \in SUBSET S /\ t \subseteq s /\ t # s BY <1>4
<1>6. <<t, s>> \in StrictSubsetOrdering(S) BY <1>5 DEF StrictSubsetOrdering
<1>7. t \in Q BY <1>2, <1>5, <1>6
<1> QED BY <1>3, <1>7

(* The equation of the fold of a step f from b.                              *)
Iterates(F, f, b, S) ==
  F = [s \in SUBSET S |-> IF s = {} THEN b ELSE f[<<Pick(s), F[s \ {Pick(s)}]>>]]

(* It has a solution: one for the sets of at most n elements gives one for   *)
(* those of n + 1.                                                          *)
Small(S, n) == {s \in SUBSET S : Cardinality(s) <= n}
Approximates(F, f, b, S, n) ==
  F = [s \in Small(S, n) |-> IF s = {} THEN b ELSE f[<<Pick(s), F[s \ {Pick(s)}]>>]]

LEMMA SmallRest ==
  ASSUME NEW S, IsFiniteSet(S), NEW n \in Nat, NEW s \in Small(S, n), s # {}
  PROVE  n # 0 /\ s \ {Pick(s)} \in Small(S, n - 1)
<1>1. IsFiniteSet(s) /\ s \in SUBSET S BY FS_Subset DEF Small
<1>2. Pick(s) \in s BY DEF Pick
<1>3. /\ IsFiniteSet(s \ {Pick(s)})
      /\ Cardinality(s \ {Pick(s)}) = Cardinality(s) - 1
  BY <1>1, <1>2, FS_RemoveElement
<1>4. Cardinality(s) \in Nat /\ Cardinality(s \ {Pick(s)}) \in Nat
  BY <1>1, <1>3, FS_CardinalityType
<1>5. Cardinality(s) <= n BY DEF Small
<1>6. Cardinality(s) # 0 BY <1>1, FS_EmptySet
<1>7. s \ {Pick(s)} \in SUBSET S BY <1>1
<1>8. n # 0 /\ Cardinality(s \ {Pick(s)}) <= n - 1 BY <1>3, <1>4, <1>5, <1>6
<1> QED BY <1>7, <1>8 DEF Small

LEMMA ApproximationExtends ==
  ASSUME NEW S, IsFiniteSet(S), NEW n \in Nat, n # 0, NEW f, NEW b,
         NEW G, Approximates(G, f, b, S, n - 1)
  PROVE  \E F : Approximates(F, f, b, S, n)
<1> DEFINE F == [s \in Small(S, n) |->
                   IF s = {} THEN b ELSE f[<<Pick(s), G[s \ {Pick(s)}]>>]]
<1>1. ASSUME NEW t \in Small(S, n - 1) PROVE t \in Small(S, n)
  <2>1. IsFiniteSet(t) /\ t \in SUBSET S BY FS_Subset DEF Small
  <2>2. Cardinality(t) \in Nat BY <2>1, FS_CardinalityType
  <2>3. Cardinality(t) <= n - 1 BY DEF Small
  <2> QED BY <2>1, <2>2, <2>3 DEF Small
<1>2. ASSUME NEW t \in Small(S, n - 1) PROVE F[t] = G[t]
  BY <1>1, <1>2 DEF Approximates
<1>3. ASSUME NEW s \in Small(S, n), s # {}
      PROVE  F[s] = f[<<Pick(s), F[s \ {Pick(s)}]>>]
  <2>1. s \ {Pick(s)} \in Small(S, n - 1) BY <1>3, SmallRest
  <2> QED BY <1>2, <1>3, <2>1
<1>4. ASSUME NEW s \in Small(S, n), s = {} PROVE F[s] = b BY <1>4
<1>5. F = [s \in Small(S, n) |-> F[s]] OBVIOUS
<1>6. Approximates(F, f, b, S, n)
  <2> HIDE DEF F
  <2> QED BY <1>3, <1>4, <1>5 DEF Approximates
<1> QED BY <1>6

LEMMA FoldExists ==
  ASSUME NEW S, IsFiniteSet(S), NEW f, NEW b
  PROVE  \E F : Iterates(F, f, b, S)
<1> DEFINE bad == {n \in Nat : ~ \E F : Approximates(F, f, b, S, n)}
<1>1. bad = {}
  <2> SUFFICES ASSUME bad # {} PROVE FALSE OBVIOUS
  <2>1. PICK n \in bad : \A k \in bad : n <= k
    <3>1. bad \in SUBSET Nat OBVIOUS
    <3> HIDE DEF bad
    <3> QED BY <3>1, LeastNumber
  <2>2. n \in Nat /\ ~ \E F : Approximates(F, f, b, S, n) OBVIOUS
  <2>3. CASE n = 0
    <3> DEFINE F == [s \in Small(S, 0) |-> b]
    <3>1. \A s \in Small(S, 0) : s = {}
      BY SmallRest
    <3>2. Approximates(F, f, b, S, 0) BY <3>1 DEF Approximates
    <3> QED BY <2>2, <2>3, <3>2
  <2>4. CASE n # 0
    <3>1. n - 1 \in Nat /\ ~(n <= n - 1) BY <2>2, <2>4
    <3>2. n - 1 \notin bad BY <2>1, <3>1
    <3>3. PICK G : Approximates(G, f, b, S, n - 1) BY <3>1, <3>2
    <3> QED BY <2>2, <2>4, <3>3, ApproximationExtends
  <2> QED BY <2>3, <2>4
<1>2. Cardinality(S) \in Nat BY FS_CardinalityType
<1>3. PICK F : Approximates(F, f, b, S, Cardinality(S)) BY <1>1, <1>2
<1>4. Small(S, Cardinality(S)) = SUBSET S BY FS_Subset DEF Small
<1>5. Iterates(F, f, b, S) BY <1>3, <1>4 DEF Approximates, Iterates
<1> QED BY <1>5
=============================================================================
