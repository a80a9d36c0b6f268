-------------------------- MODULE AggregateProofs --------------------------
(***************************************************************************)
(* Proofs about the operators of the aggregate budgets.  The sum of a      *)
(* measure is a fold over a finite set, and a fold is a recursive function: *)
(* what it computes is found by exhibiting a function that satisfies its   *)
(* equation (the number of units, Units) and by showing that the equation  *)
(* has one solution (TotalUnique).                                         *)
(***************************************************************************)
EXTENDS Aggregate, FoldProofs

(* The equation of the fold behind Total.                                    *)
Partial(F, w, S) ==
  F = [s \in SUBSET S |-> IF s = {} THEN 0 ELSE w[Pick(s)] + F[s \ {Pick(s)}]]

(* Total is a solution of it, at S.                                          *)
LEMMA TotalIsChosen ==
  ASSUME NEW S, NEW w PROVE Total(w, S) = (CHOOSE F : Partial(F, w, S))[S]
BY DEF Total, MapThenSumSet, MapThenFoldSet, Partial, Pick

(* Its solutions agree.                                                      *)
LEMMA TotalUnique ==
  ASSUME NEW S, IsFiniteSet(S), NEW w, NEW F, NEW G, Partial(F, w, S), Partial(G, w, S)
  PROVE  F[S] = G[S]
<1> DEFINE agreed == {s \in SUBSET S : F[s] = G[s]}
<1>1. {} \in agreed BY DEF Partial
<1>2. ASSUME NEW s \in SUBSET S, s # {}, s \ {Pick(s)} \in agreed PROVE s \in agreed
  BY <1>2 DEF Partial
<1>3. \A s \in SUBSET S : s \in agreed
  <2> HIDE DEF agreed
  <2> QED BY <1>1, <1>2, SubsetInduction
<1>4. S \in SUBSET S OBVIOUS
<1> QED BY <1>3, <1>4

(* A sum counts units: so many for each element as its number says.          *)
Units(w, S) == {u \in S \X Nat : u[2] < w[u[1]]}

(* The units of one element.                                                 *)
LEMMA OneUnits ==
  ASSUME NEW x, NEW n \in Nat
  PROVE  IsFiniteSet({x} \X (0 .. n - 1)) /\ Cardinality({x} \X (0 .. n - 1)) = n
<1>1. IsFiniteSet({x}) /\ Cardinality({x}) = 1 BY FS_Singleton
<1>2. IsFiniteSet(0 .. n - 1) /\ Cardinality(0 .. n - 1) = n BY FS_Interval
<1> QED BY <1>1, <1>2, FS_Product

LEMMA UnitsFinite ==
  ASSUME NEW S, IsFiniteSet(S), NEW w, \A x \in S : w[x] \in Nat
  PROVE  IsFiniteSet(Units(w, S))
<1> DEFINE f == [x \in S |-> {x} \X (0 .. w[x] - 1)]
           T == {f[x] : x \in S}
<1>1. f \in Surjection(S, T) BY DEF Surjection
<1>2. IsFiniteSet(T) BY <1>1, FS_Surjection
<1>3. ASSUME NEW x \in S PROVE IsFiniteSet(f[x]) BY OneUnits
<1>4. \A t \in T : IsFiniteSet(t) BY <1>3
<1>5. IsFiniteSet(UNION T)
  <2> HIDE DEF T
  <2> QED BY <1>2, <1>4, FS_UNION
<1>6. Units(w, S) \subseteq UNION T
  <2> SUFFICES ASSUME NEW u \in Units(w, S) PROVE u \in UNION T OBVIOUS
  <2>1. /\ u[1] \in S /\ u[2] \in Nat /\ u[2] < w[u[1]] /\ w[u[1]] \in Nat
        /\ u = <<u[1], u[2]>>
    BY DEF Units
  <2>2. u[2] \in 0 .. w[u[1]] - 1 BY <2>1
  <2>3. u \in f[u[1]] BY <2>1, <2>2
  <2> QED BY <2>1, <2>3
<1> QED BY <1>5, <1>6, FS_Subset

LEMMA DisjointCount ==
  ASSUME NEW S, IsFiniteSet(S), NEW T, IsFiniteSet(T), S \cap T = {}
  PROVE  /\ IsFiniteSet(S \cup T)
         /\ Cardinality(S \cup T) = Cardinality(S) + Cardinality(T)
<1>1. /\ IsFiniteSet(S \cup T)
      /\ Cardinality(S \cup T) = Cardinality(S) + Cardinality(T) - Cardinality(S \cap T)
  BY FS_Union
<1>2. Cardinality(S \cap T) = 0 BY FS_EmptySet
<1>3. Cardinality(S) \in Nat /\ Cardinality(T) \in Nat BY FS_CardinalityType
<1>4. Cardinality(S) + Cardinality(T) - 0 = Cardinality(S) + Cardinality(T) BY <1>3
<1> QED BY <1>1, <1>2, <1>4

(* One more element adds its units.                                          *)
LEMMA UnitsAdd ==
  ASSUME NEW S, IsFiniteSet(S), NEW x, x \notin S,
         NEW w, \A y \in S \cup {x} : w[y] \in Nat
  PROVE  Cardinality(Units(w, S \cup {x})) = Cardinality(Units(w, S)) + w[x]
<1> DEFINE one == {x} \X (0 .. w[x] - 1)
<1>1. IsFiniteSet(one) /\ Cardinality(one) = w[x] BY OneUnits
<1>2. Units(w, S \cup {x}) = Units(w, S) \cup one BY DEF Units
<1>3. Units(w, S) \cap one = {} BY DEF Units
<1>4. IsFiniteSet(Units(w, S)) BY UnitsFinite
<1> HIDE DEF one
<1> QED BY <1>1, <1>2, <1>3, <1>4, DisjointCount

(* The sum of numbers over a finite set is the number of their units.        *)
LEMMA TotalIsCount ==
  ASSUME NEW S, IsFiniteSet(S), NEW w, \A x \in S : w[x] \in Nat
  PROVE  Total(w, S) = Cardinality(Units(w, S))
<1> DEFINE G == [s \in SUBSET S |-> Cardinality(Units(w, s))]
<1>1. Partial(G, w, S)
  <2> SUFFICES ASSUME NEW s \in SUBSET S
               PROVE  G[s] = IF s = {} THEN 0 ELSE w[Pick(s)] + G[s \ {Pick(s)}]
    BY DEF Partial
  <2>1. CASE s = {}
    <3>1. Units(w, s) = {} BY <2>1 DEF Units
    <3> QED BY <2>1, <3>1, FS_EmptySet
  <2>2. CASE s # {}
    <3> DEFINE t == s \ {Pick(s)}
    <3>1. Pick(s) \in s BY <2>2 DEF Pick
    <3>2. t \cup {Pick(s)} = s /\ Pick(s) \notin t /\ t \in SUBSET S BY <3>1
    <3>3. IsFiniteSet(t) BY FS_Subset
    <3>4. G[s] = Cardinality(Units(w, s)) /\ G[t] = Cardinality(Units(w, t)) BY <3>2
    <3>5. w[Pick(s)] \in Nat BY <3>1
    <3>6. IsFiniteSet(Units(w, t)) BY <3>2, <3>3, UnitsFinite
    <3>7. Cardinality(Units(w, t)) \in Nat BY <3>6, FS_CardinalityType
    <3> HIDE DEF t, G
    <3>8. Cardinality(Units(w, s)) = Cardinality(Units(w, t)) + w[Pick(s)]
      BY <3>1, <3>2, <3>3, UnitsAdd
    <3> QED BY <2>2, <3>4, <3>5, <3>7, <3>8 DEF t
  <2> QED BY <2>1, <2>2
<1> DEFINE H == CHOOSE F : Partial(F, w, S)
<1>2. Partial(H, w, S) BY <1>1
<1>3. H[S] = G[S]
  <2> HIDE DEF H, G
  <2> QED BY <1>1, <1>2, TotalUnique
<1> QED BY <1>3, TotalIsChosen

(* A sum of numbers is a number.                                             *)
LEMMA TotalNat ==
  ASSUME NEW S, IsFiniteSet(S), NEW w, \A x \in S : w[x] \in Nat
  PROVE  Total(w, S) \in Nat
BY TotalIsCount, UnitsFinite, FS_CardinalityType

(* One more element adds its number.                                         *)
LEMMA TotalAdd ==
  ASSUME NEW S, IsFiniteSet(S), NEW x, x \notin S, NEW w, NEW v,
         \A y \in S : w[y] \in Nat /\ v[y] = w[y], v[x] \in Nat
  PROVE  Total(v, S \cup {x}) = Total(w, S) + v[x]
<1>1. IsFiniteSet(S \cup {x}) BY FS_AddElement
<1>2. \A y \in S \cup {x} : v[y] \in Nat OBVIOUS
<1>3. Total(v, S \cup {x}) = Cardinality(Units(v, S \cup {x})) BY <1>1, <1>2, TotalIsCount
<1>4. Total(w, S) = Cardinality(Units(w, S)) BY TotalIsCount
<1>5. Units(v, S) = Units(w, S) BY DEF Units
<1> QED BY <1>2, <1>3, <1>4, <1>5, UnitsAdd

(* A part sums up to no more than the whole.                                 *)
LEMMA TotalMonotone ==
  ASSUME NEW S, IsFiniteSet(S), NEW T \in SUBSET S, NEW w, NEW v,
         \A x \in S : w[x] \in Nat, \A x \in T : v[x] = w[x]
  PROVE  Total(v, T) <= Total(w, S)
<1>1. IsFiniteSet(T) BY FS_Subset
<1>2. Total(v, T) = Cardinality(Units(v, T)) BY <1>1, TotalIsCount
<1>3. Total(w, S) = Cardinality(Units(w, S)) BY TotalIsCount
<1>4. Units(v, T) \subseteq Units(w, S) BY DEF Units
<1> QED BY <1>2, <1>3, <1>4, UnitsFinite, FS_Subset

(* A sum of ones counts.                                                     *)
LEMMA TotalOnes ==
  ASSUME NEW S, IsFiniteSet(S), NEW w, \A x \in S : w[x] = 1
  PROVE  Total(w, S) = Cardinality(S)
<1>1. Total(w, S) = Cardinality(Units(w, S)) BY TotalIsCount
<1>2. Units(w, S) = S \X {0} BY DEF Units
<1>3. IsFiniteSet({0}) /\ Cardinality({0}) = 1 BY FS_Singleton
<1>4. Cardinality(S) \in Nat BY FS_CardinalityType
<1>5. Cardinality(S \X {0}) = Cardinality(S) * 1 BY <1>3, FS_Product
<1> QED BY <1>1, <1>2, <1>4, <1>5

(* The image of a finite set is finite and no larger.                        *)
LEMMA ImageFinite ==
  ASSUME NEW S, IsFiniteSet(S), NEW f
  PROVE  /\ IsFiniteSet({f[x] : x \in S})
         /\ Cardinality({f[x] : x \in S}) <= Cardinality(S)
<1> DEFINE g == [x \in S |-> f[x]]
           T == {f[x] : x \in S}
<1>1. g \in Surjection(S, T) BY DEF Surjection
<1> HIDE DEF g, T
<1> QED BY <1>1, FS_Surjection DEF T

(* Windows of a fixed length are numbered in the order of time.              *)
LEMMA DivMonotone ==
  ASSUME NEW a \in Nat, NEW b \in Nat, NEW s \in Nat \ {0}, a <= b
  PROVE  a \div s <= b \div s
OBVIOUS

(* What a set of claims uses of a budget that is not about calls in flight.  *)
UsedOf(b, f, S) ==
  CASE Measure[b] = "distinct_targets" -> Cardinality({f[m].target : m \in S})
    [] Measure[b] = "objects" -> Total([m \in S |-> f[m].objects], S)
    [] OTHER -> Cardinality(S)

(* A part of the claims uses no more than all of them.                       *)
LEMMA UsedMonotone ==
  ASSUME NEW b \in Budgets, NEW S, IsFiniteSet(S), NEW T \in SUBSET S,
         NEW f, \A m \in S : f[m].objects \in Nat, NEW h, \A m \in T : h[m] = f[m]
  PROVE  UsedOf(b, h, T) <= UsedOf(b, f, S)
<1>1. IsFiniteSet(T) /\ Cardinality(T) <= Cardinality(S) BY FS_Subset
<1>2. CASE Measure[b] = "distinct_targets"
  <2> DEFINE t == [m \in S |-> f[m].target]
             A == {f[m].target : m \in S}
             B == {h[m].target : m \in T}
  <2>1. {t[m] : m \in S} = A OBVIOUS
  <2>2. IsFiniteSet({t[m] : m \in S})
    <3> HIDE DEF t
    <3> QED BY ImageFinite
  <2>3. B \subseteq A OBVIOUS
  <2> HIDE DEF A, B
  <2>4. Cardinality(B) <= Cardinality(A) BY <2>1, <2>2, <2>3, FS_Subset
  <2> QED BY <1>2, <2>4 DEF UsedOf, A, B
<1>3. CASE Measure[b] = "objects"
  <2> DEFINE w == [m \in S |-> f[m].objects]
             v == [m \in T |-> h[m].objects]
  <2>1. (\A m \in S : w[m] \in Nat) /\ (\A m \in T : v[m] = w[m]) OBVIOUS
  <2> HIDE DEF w, v
  <2>2. Total(v, T) <= Total(w, S) BY <2>1, TotalMonotone
  <2> QED BY <1>3, <2>2 DEF UsedOf, w, v
<1>4. CASE Measure[b] \notin {"distinct_targets", "objects"}
  BY <1>1, <1>4 DEF UsedOf
<1> QED BY <1>2, <1>3, <1>4

(* What is used is a number.                                                 *)
LEMMA UsedNat ==
  ASSUME NEW b \in Budgets, NEW S, IsFiniteSet(S), NEW f, \A m \in S : f[m].objects \in Nat
  PROVE  UsedOf(b, f, S) \in Nat
<1>1. Cardinality(S) \in Nat BY FS_CardinalityType
<1>2. Cardinality({f[m].target : m \in S}) \in Nat
  <2> DEFINE t == [m \in S |-> f[m].target]
             A == {f[m].target : m \in S}
  <2>1. {t[m] : m \in S} = A OBVIOUS
  <2>2. IsFiniteSet({t[m] : m \in S})
    <3> HIDE DEF t
    <3> QED BY ImageFinite
  <2> HIDE DEF t, A
  <2> QED BY <2>1, <2>2, FS_CardinalityType DEF A
<1>3. Total([m \in S |-> f[m].objects], S) \in Nat
  <2> DEFINE w == [m \in S |-> f[m].objects]
  <2>1. \A m \in S : w[m] \in Nat OBVIOUS
  <2> HIDE DEF w
  <2>2. Total(w, S) \in Nat BY <2>1, TotalNat
  <2> QED BY <2>2 DEF w
<1> QED BY <1>1, <1>2, <1>3 DEF UsedOf

(* What evaluate() projects is what is used with the claim admitted, f being *)
(* the claims of the reservations and of m.                                  *)
ClaimsAre(f, m, claim, R, reservations) ==
  /\ m \notin R /\ f[m] = claim /\ claim.objects \in Nat
  /\ \A x \in R : f[x] = reservations[x].claim /\ reservations[x].claim.objects \in Nat

LEMMA ProjectedIsUsed ==
  ASSUME NEW reservations, NEW b \in Budgets, NEW claim, NEW now, NEW active,
         Measure[b] # "in_flight",
         NEW R, R = Relevant(reservations, b, claim, now), IsFiniteSet(R),
         NEW m, NEW f, ClaimsAre(f, m, claim, R, reservations)
  PROVE  Projected(reservations, b, claim, now, active) = UsedOf(b, f, R \cup {m})
<1> USE DEF ClaimsAre
<1>1. CASE Measure[b] = "distinct_targets"
  <2>1. {reservations[x].claim.target : x \in R} \cup {claim.target}
          = {f[x].target : x \in R \cup {m}}
    OBVIOUS
  <2> QED BY <1>1, <2>1 DEF Projected, UsedOf
<1>2. CASE Measure[b] = "objects"
  <2> DEFINE w == [x \in R |-> reservations[x].claim.objects]
             v == [x \in R \cup {m} |-> f[x].objects]
  <2>1. Projected(reservations, b, claim, now, active) = Total(w, R) + claim.objects
    <3>1. [x \in R |-> Amount(b, reservations[x].claim)] = w BY <1>2 DEF Amount
    <3> HIDE DEF w
    <3> QED BY <1>2, <3>1 DEF Projected, Amount
  <2>2. /\ \A x \in R : w[x] \in Nat /\ v[x] = w[x]
        /\ v[m] = claim.objects /\ v[m] \in Nat
    OBVIOUS
  <2> HIDE DEF w, v
  <2>3. Total(v, R \cup {m}) = Total(w, R) + v[m] BY <2>2, TotalAdd
  <2> QED BY <1>2, <2>1, <2>2, <2>3 DEF UsedOf, v
<1>3. CASE Measure[b] = "admissions"
  <2> DEFINE w == [x \in R |-> 1]
  <2>1. Projected(reservations, b, claim, now, active) = Total(w, R) + 1
    <3>1. [x \in R |-> Amount(b, reservations[x].claim)] = w BY <1>3 DEF Amount
    <3> HIDE DEF w
    <3> QED BY <1>3, <3>1 DEF Projected, Amount
  <2>2. \A x \in R : w[x] = 1 OBVIOUS
  <2> HIDE DEF w
  <2>3. Total(w, R) = Cardinality(R) BY <2>2, TotalOnes
  <2>4. Cardinality(R \cup {m}) = Cardinality(R) + 1 BY FS_AddElement
  <2> QED BY <1>3, <2>1, <2>3, <2>4 DEF UsedOf
<1> QED BY <1>1, <1>2, <1>3, BudgetAssumption

(* It is a number.                                                           *)
LEMMA ProjectedIsNumber ==
  ASSUME NEW reservations, NEW b \in Budgets, NEW claim, NEW now, NEW active,
         IsFiniteSet(DOMAIN reservations), claim.objects \in Nat,
         \A x \in DOMAIN reservations :
           reservations[x] # None => reservations[x].claim.objects \in Nat
  PROVE  Projected(reservations, b, claim, now, active) \in Nat
<1> DEFINE R == Relevant(reservations, b, claim, now)
           W == [x \in R |-> Amount(b, reservations[x].claim)]
           T == {reservations[x].claim.target : x \in R}
           A == {x \in R : reservations[x].execution \in active}
<1>1. R \subseteq DOMAIN reservations BY DEF Relevant
<1>2. IsFiniteSet(R) BY <1>1, FS_Subset
<1>3. \A x \in R : W[x] \in Nat BY DEF Relevant, Amount
<1>4. Amount(b, claim) \in Nat BY DEF Amount
<1>5. IsFiniteSet(T)
  <2> DEFINE t == [x \in R |-> reservations[x].claim.target]
  <2>1. T = {t[x] : x \in R} OBVIOUS
  <2> HIDE DEF t, T, R
  <2> QED BY <1>2, <2>1, ImageFinite
<1>6. IsFiniteSet(A) BY <1>2, FS_Subset
<1> HIDE DEF R, W, T, A
<1>7. Total(W, R) \in Nat BY <1>2, <1>3, TotalNat
<1>8. Cardinality(T \cup {claim.target}) \in Nat
  BY <1>5, FS_AddElement, FS_CardinalityType
<1>9. Cardinality(A) \in Nat BY <1>6, FS_CardinalityType
<1> QED BY <1>4, <1>7, <1>8, <1>9, BudgetAssumption DEF Projected, R, W, T, A
=============================================================================
