--------------------------- MODULE DecisionProofs ---------------------------
(***************************************************************************)
(* Proofs about the decisions of the gate.  The mode build_manifest()       *)
(* derives is a fold over the thresholds; what it computes is found as the  *)
(* sums of AggregateProofs are, from a function that satisfies the fold's   *)
(* equation (HighestMode) and the uniqueness of its solution.               *)
(***************************************************************************)
EXTENDS Decision, FiniteSetTheorems, TLAPS

(* A scale ranks each of its values, and the rank determines the value.      *)
LEMMA RankOf ==
  ASSUME NEW scale, DOMAIN scale \subseteq Nat, NEW v \in ToSet(scale)
  PROVE  Rank(scale, v) \in Nat /\ scale[Rank(scale, v)] = v
BY DEF Rank, ToSet

LEMMA Scales ==
  /\ DOMAIN Modes \subseteq Nat /\ DOMAIN Severities \subseteq Nat
  /\ ToSet(Modes) = {"recommend", "request_approval", "execute_allowlisted",
                     "conditional_autonomy"}
BY DEF Modes, Severities, ToSet

(* A scale is a total order.                                                 *)
LEMMA ScaleOrder ==
  ASSUME NEW scale, DOMAIN scale \subseteq Nat,
         NEW u \in ToSet(scale), NEW v \in ToSet(scale), NEW w \in ToSet(scale)
  PROVE  /\ AtMost(scale, u, u)
         /\ AtMost(scale, u, v) \/ AtMost(scale, v, u)
         /\ AtMost(scale, u, v) /\ AtMost(scale, v, w) => AtMost(scale, u, w)
         /\ AtMost(scale, u, v) /\ AtMost(scale, v, u) => u = v
<1>1. /\ Rank(scale, u) \in Nat /\ Rank(scale, v) \in Nat /\ Rank(scale, w) \in Nat
      /\ scale[Rank(scale, u)] = u /\ scale[Rank(scale, v)] = v
  BY RankOf
<1> QED BY <1>1 DEF AtMost

(* Executing modes are the ones above request_approval.                      *)
LEMMA ModeRanks ==
  ASSUME NEW m \in ToSet(Modes)
  PROVE  /\ NeedsApproval(m) <=> AtMost(Modes, m, "request_approval")
         /\ m \in Executing <=> ~NeedsApproval(m)
<1>1. /\ Rank(Modes, "recommend") = 1 /\ Rank(Modes, "request_approval") = 2
      /\ Rank(Modes, "execute_allowlisted") = 3 /\ Rank(Modes, "conditional_autonomy") = 4
  BY DEF Rank, Modes
<1> QED BY <1>1, Scales DEF AtMost, NeedsApproval, Executing

-----------------------------------------------------------------------------
(* The mode of build_manifest().                                           *)

Greatest(s) == CHOOSE x \in s : \A y \in s : x >= y

LEMMA GreatestOf ==
  ASSUME NEW n \in Nat, NEW s \in SUBSET (1 .. n), s # {}
  PROVE  Greatest(s) \in s
<1> DEFINE D == {n - x : x \in s}
           less == {ss \in Nat \X Nat : ss[1] < ss[2]}
<1>1. IsWellFoundedOn(less, Nat) BY NatLessThanWellFounded DEF OpToRel
<1>2. D \subseteq Nat /\ D # {}
  <2>1. \A x \in s : x \in Nat /\ x <= n OBVIOUS
  <2>2. \A x \in s : n - x \in Nat BY <2>1
  <2>3. \E x : x \in s OBVIOUS
  <2> QED BY <2>2, <2>3
<1>3. PICK d \in D : \A k \in D : <<k, d>> \notin less
  <2> HIDE DEF less, D
  <2> QED BY <1>1, <1>2, WFMin
<1>4. PICK x \in s : d = n - x BY <1>3
<1>5. ASSUME NEW y \in s PROVE x >= y
  <2>1. n - y \in D /\ n - y \in Nat /\ d \in Nat /\ x \in Int /\ y \in Int BY <1>2
  <2>2. <<n - y, d>> \in Nat \X Nat BY <2>1
  <2>3. ~(n - y < d) BY <1>3, <2>1, <2>2
  <2> QED BY <1>4, <2>1, <2>3
<1> QED BY <1>5 DEF Greatest

(* A threshold that raises: typed, for the operation, within its maximum, and *)
(* it held.                                                                  *)
Raises(p, r, yes, t) ==
  Applies(t, r) /\ AtMost(Modes, t.mode, Entry(p, r).max) /\ t.id \in yes

(* The equation of the fold behind BuiltMode.                                *)
Raising(F, p, r, yes) ==
  F = [s \in SUBSET DOMAIN p.thresholds |->
         IF s = {} THEN Entry(p, r).default
         ELSE LET t == p.thresholds[Greatest(s)]
                  mode == F[s \ {Greatest(s)}]
              IN IF Raises(p, r, yes, t) /\ ~AtMost(Modes, t.mode, mode) THEN t.mode ELSE mode]

LEMMA BuiltModeIsChosen ==
  ASSUME NEW p, NEW r, NEW yes
  PROVE  BuiltMode(p, r, yes) = (CHOOSE F : Raising(F, p, r, yes))[DOMAIN p.thresholds]
BY DEF BuiltMode, FoldLeft, MapThenFoldSet, Raising, Raises, Greatest, Max

(* Its solutions agree, by a smallest set of positions on which two differ.  *)
LEMMA RaisingUnique ==
  ASSUME NEW p, NEW r, NEW yes, NEW n \in Nat, DOMAIN p.thresholds = 1 .. n,
         NEW F, NEW G, Raising(F, p, r, yes), Raising(G, p, r, yes)
  PROVE  F[1 .. n] = G[1 .. n]
<1> DEFINE S == 1 .. n
           bad == {s \in SUBSET S : F[s] # G[s]}
<1> SUFFICES ASSUME bad # {} PROVE FALSE OBVIOUS
<1>1. IsWellFoundedOn(StrictSubsetOrdering(S), SUBSET S)
  <2>1. IsFiniteSet(S) BY FS_Interval
  <2> HIDE DEF S
  <2> QED BY <2>1, FS_StrictSubsetOrderingWellFounded, FS_FiniteSubsetsOfFinite
<1>2. PICK s \in bad : \A t \in bad : <<t, s>> \notin StrictSubsetOrdering(S)
  <2>1. bad \subseteq SUBSET S OBVIOUS
  <2> HIDE DEF bad, S
  <2> QED BY <1>1, <2>1, WFMin
<1>3. s # {} BY DEF Raising
<1> DEFINE x == Greatest(s)
           t == s \ {x}
<1>4. x \in s BY <1>3, GreatestOf
<1>5. t \in SUBSET S /\ t \subseteq s /\ t # s BY <1>4
<1>6. <<t, s>> \in StrictSubsetOrdering(S) BY <1>5 DEF StrictSubsetOrdering
<1>7. F[t] = G[t] BY <1>2, <1>5, <1>6
<1> DEFINE next(mode) == IF /\ Raises(p, r, yes, p.thresholds[x])
                            /\ ~AtMost(Modes, p.thresholds[x].mode, mode)
                         THEN p.thresholds[x].mode ELSE mode
<1>8. F[s] = next(F[t]) /\ G[s] = next(G[t]) BY <1>3 DEF Raising
<1> QED BY <1>7, <1>8

(* The modes the operation may be raised to by the thresholds at s, and the  *)
(* highest of them and its default.                                         *)
RaisedModes(p, r, yes, s) ==
  {Entry(p, r).default} \cup
  {p.thresholds[i].mode : i \in {j \in s : Raises(p, r, yes, p.thresholds[j])}}
IsHighest(m, M) == m \in M /\ \A k \in M : AtMost(Modes, k, m)
HighestMode(p, r, yes, s) == CHOOSE m : IsHighest(m, RaisedModes(p, r, yes, s))

(* What the schema says of the thresholds and modes of an operation.         *)
ModesOK(p, r) ==
  /\ Entry(p, r).default \in ToSet(Modes) /\ Entry(p, r).max \in ToSet(Modes)
  /\ Len(p.thresholds) \in Nat /\ DOMAIN p.thresholds = 1 .. Len(p.thresholds)
  /\ \A i \in DOMAIN p.thresholds : p.thresholds[i].mode \in ToSet(Modes)

LEMMA HighestUnique ==
  ASSUME NEW M \in SUBSET ToSet(Modes), NEW m, IsHighest(m, M)
  PROVE  m = CHOOSE k : IsHighest(k, M)
<1> DEFINE h == CHOOSE k : IsHighest(k, M)
<1>1. IsHighest(h, M) OBVIOUS
<1> HIDE DEF h
<1>2. m \in ToSet(Modes) /\ h \in ToSet(Modes) BY <1>1 DEF IsHighest
<1>3. AtMost(Modes, m, h) /\ AtMost(Modes, h, m) BY <1>1 DEF IsHighest
<1> QED BY <1>2, <1>3, ScaleOrder, Scales DEF h

(* One more threshold raises the highest mode as raise() does.               *)
LEMMA HighestStep ==
  ASSUME NEW p, NEW r, NEW yes, ModesOK(p, r),
         NEW s \in SUBSET DOMAIN p.thresholds, NEW x \in s, NEW h,
         IsHighest(h, RaisedModes(p, r, yes, s \ {x}))
  PROVE  LET t == p.thresholds[x]
         IN IsHighest(IF Raises(p, r, yes, t) /\ ~AtMost(Modes, t.mode, h) THEN t.mode ELSE h,
                      RaisedModes(p, r, yes, s))
<1> DEFINE t == p.thresholds[x]
           M == RaisedModes(p, r, yes, s)
           L == RaisedModes(p, r, yes, s \ {x})
<1>1. M = IF Raises(p, r, yes, t) THEN L \cup {t.mode} ELSE L BY DEF RaisedModes
<1>2. L \subseteq ToSet(Modes) /\ t.mode \in ToSet(Modes) BY DEF ModesOK, RaisedModes
<1>3. h \in L /\ \A k \in L : AtMost(Modes, k, h) BY DEF IsHighest
<1>4. CASE ~Raises(p, r, yes, t) BY <1>1, <1>4
<1>5. CASE Raises(p, r, yes, t) /\ AtMost(Modes, t.mode, h)
  <2> HIDE DEF t, M, L
  <2>1. M = L \cup {t.mode} BY <1>1, <1>5
  <2>2. IsHighest(h, M) BY <2>1, <1>3, <1>5 DEF IsHighest
  <2> QED BY <1>5, <2>2 DEF t, M
<1>6. CASE Raises(p, r, yes, t) /\ ~AtMost(Modes, t.mode, h)
  <2> HIDE DEF t, M, L
  <2>1. M = L \cup {t.mode} BY <1>1, <1>6
  <2>2. AtMost(Modes, h, t.mode) BY <1>2, <1>3, <1>6, ScaleOrder, Scales
  <2>3. \A k \in L : AtMost(Modes, k, t.mode) BY <1>2, <1>3, <2>2, ScaleOrder, Scales
  <2>4. AtMost(Modes, t.mode, t.mode) BY <1>2, ScaleOrder, Scales
  <2>5. IsHighest(t.mode, M) BY <2>1, <2>3, <2>4 DEF IsHighest
  <2> QED BY <1>6, <2>5 DEF t, M
<1> QED BY <1>4, <1>5, <1>6

(* There is a highest mode at every set of positions.                        *)
LEMMA HighestExists ==
  ASSUME NEW p, NEW r, NEW yes, ModesOK(p, r), NEW s \in SUBSET DOMAIN p.thresholds
  PROVE  IsHighest(HighestMode(p, r, yes, s), RaisedModes(p, r, yes, s))
<1> DEFINE S == DOMAIN p.thresholds
           bad == {z \in SUBSET S : ~\E m : IsHighest(m, RaisedModes(p, r, yes, z))}
<1> SUFFICES ASSUME bad # {} PROVE FALSE BY DEF HighestMode
<1>1. IsWellFoundedOn(StrictSubsetOrdering(S), SUBSET S)
  <2>1. Len(p.thresholds) \in Nat /\ S = 1 .. Len(p.thresholds) BY DEF ModesOK
  <2>2. IsFiniteSet(S) BY <2>1, FS_Interval
  <2> HIDE DEF S
  <2> QED BY <2>2, FS_StrictSubsetOrderingWellFounded, FS_FiniteSubsetsOfFinite
<1>2. PICK z \in bad : \A y \in bad : <<y, z>> \notin StrictSubsetOrdering(S)
  <2>1. bad \subseteq SUBSET S OBVIOUS
  <2> HIDE DEF bad, S
  <2> QED BY <1>1, <2>1, WFMin
<1>3. z # {}
  <2> SUFFICES ASSUME z = {} PROVE FALSE OBVIOUS
  <2>1. RaisedModes(p, r, yes, z) = {Entry(p, r).default} BY DEF RaisedModes
  <2>2. AtMost(Modes, Entry(p, r).default, Entry(p, r).default)
    BY ScaleOrder, Scales DEF ModesOK
  <2>3. IsHighest(Entry(p, r).default, RaisedModes(p, r, yes, z)) BY <2>1, <2>2 DEF IsHighest
  <2> QED BY <2>3
<1>4. PICK x : x \in z BY <1>3
<1> DEFINE y == z \ {x}
<1>5. y \in SUBSET S /\ y \subseteq z /\ y # z BY <1>4
<1>6. <<y, z>> \in StrictSubsetOrdering(S) BY <1>5 DEF StrictSubsetOrdering
<1>7. PICK h : IsHighest(h, RaisedModes(p, r, yes, y)) BY <1>2, <1>5, <1>6
<1>8. \E m : IsHighest(m, RaisedModes(p, r, yes, z))
  BY <1>4, <1>7, HighestStep
<1> QED BY <1>8

(* build_manifest() gives the highest of the default and the modes of the    *)
(* thresholds that raise.                                                    *)
LEMMA BuiltIsHighest ==
  ASSUME NEW p, NEW r, NEW yes, ModesOK(p, r)
  PROVE  IsHighest(BuiltMode(p, r, yes), RaisedModes(p, r, yes, DOMAIN p.thresholds))
<1> DEFINE S == DOMAIN p.thresholds
           G == [s \in SUBSET S |-> HighestMode(p, r, yes, s)]
<1>1. Raising(G, p, r, yes)
  <2> SUFFICES ASSUME NEW s \in SUBSET S
               PROVE  G[s] = IF s = {} THEN Entry(p, r).default
                             ELSE LET t == p.thresholds[Greatest(s)]
                                      mode == G[s \ {Greatest(s)}]
                                  IN IF Raises(p, r, yes, t) /\ ~AtMost(Modes, t.mode, mode)
                                     THEN t.mode ELSE mode
    BY DEF Raising
  <2>1. RaisedModes(p, r, yes, s) \in SUBSET ToSet(Modes) BY DEF RaisedModes, ModesOK
  <2>2. CASE s = {}
    <3>1. RaisedModes(p, r, yes, s) = {Entry(p, r).default} BY <2>2 DEF RaisedModes
    <3>2. IsHighest(HighestMode(p, r, yes, s), RaisedModes(p, r, yes, s)) BY HighestExists
    <3> QED BY <2>2, <3>1, <3>2 DEF IsHighest
  <2>3. CASE s # {}
    <3> DEFINE x == Greatest(s)
               t == p.thresholds[x]
               h == G[s \ {x}]
    <3>1. x \in s BY <2>3, GreatestOf DEF ModesOK
    <3>2. s \ {x} \in SUBSET S OBVIOUS
    <3>3. IsHighest(h, RaisedModes(p, r, yes, s \ {x})) BY <3>2, HighestExists
    <3> DEFINE m == IF Raises(p, r, yes, t) /\ ~AtMost(Modes, t.mode, h) THEN t.mode ELSE h
    <3> HIDE DEF h
    <3>4. IsHighest(m, RaisedModes(p, r, yes, s)) BY <3>1, <3>3, HighestStep
    <3> HIDE DEF m
    <3>5. m = HighestMode(p, r, yes, s) BY <2>1, <3>4, HighestUnique DEF HighestMode
    <3>6. G[s] = m BY <3>5
    <3> QED BY <2>3, <3>6 DEF m, h
  <2> QED BY <2>2, <2>3
<1> DEFINE H == CHOOSE F : Raising(F, p, r, yes)
<1>2. Raising(H, p, r, yes) BY <1>1
<1>3. H[S] = G[S]
  <2>1. PICK n \in Nat : DOMAIN p.thresholds = 1 .. n BY DEF ModesOK
  <2> HIDE DEF H, G
  <2>2. H[1 .. n] = G[1 .. n] BY <1>1, <1>2, <2>1, RaisingUnique
  <2> QED BY <2>1, <2>2
<1>4. BuiltMode(p, r, yes) = HighestMode(p, r, yes, S) BY <1>3, BuiltModeIsChosen
<1> QED BY <1>4, HighestExists
-----------------------------------------------------------------------------
(* The invariant.                                                          *)

LEMMA ProfileModes ==
  ASSUME NEW p \in Profiles, NEW r, r.operation \in DOMAIN p.allowed
  PROVE  ModesOK(p, r)
BY SchemaAssumption DEF ModesOK, Entry

LEMMA BuiltModeOK ==
  ASSUME NEW p, NEW r, NEW yes, NEW forced, ModesOK(p, r)
  PROVE  PreparedMode(BuiltMode(p, r, yes), forced) \in ToSet(Modes)
<1>1. BuiltMode(p, r, yes) \in ToSet(Modes)
  BY BuiltIsHighest DEF IsHighest, RaisedModes, ModesOK
<1> QED BY <1>1, Scales DEF PreparedMode

LEMMA ReviewExpiresNat ==
  ASSUME DecisionInv, ManifestOK
  PROVE  ReviewExpires(manifest) \in Nat
<1>1. manifest.from \in Profiles /\ manifest.issued \in Nat
      /\ manifest.request.operation \in DOMAIN manifest.from.allowed
  BY DEF ManifestOK, Time
<1>2. manifest.from.review \in Nat /\ Entry(manifest.from, manifest.request).review \in Nat
  BY <1>1, SchemaAssumption DEF Entry
<1> QED BY <1>1, <1>2 DEF ReviewExpires, Least

LEMMA InitDecision == ASSUME Init PROVE DecisionInv
<1>1. 0 \in Time BY DecisionAssumption DEF Time
<1>2. Idle \in [pc : {"idle", "build", "authorised", "decided"} \cup Purposes,
               now : Time, request : Requests \cup {None}]
  BY <1>1 DEF Idle
<1>3. DecisionTypeOK BY <1>1, <1>2 DEF Init, DecisionTypeOK
<1>4. PublishedOK /\ BuiltOK /\ CallOK /\ ResultOK
  BY DEF Init, PublishedOK, BuiltOK, CallOK, ResultOK, Idle, Purposes
<1> QED BY <1>3, <1>4 DEF DecisionInv

LEMMA TickStep == ASSUME DecisionInv, Tick PROVE DecisionInv'
BY DEF DecisionInv, DecisionTypeOK, PublishedOK, BuiltOK, ManifestOK, CallOK, ResultOK, Tick

LEMMA PublishStep ==
  ASSUME DecisionInv, NEW p \in Profiles, Publish(p) PROVE DecisionInv'
<1>1. DecisionTypeOK'
  BY DEF DecisionInv, DecisionTypeOK, Publish
<1>2. PublishedOK'
  <2>1. PlansAreSound(active') BY DEF Publish, PlansAreSound
  <2>2. ASSUME RequireSignoffs
        PROVE  /\ review'.signoffs \in Submissions /\ review'.at \in Time
               /\ verify_required_signoffs(active', review'.signoffs, Roots, review'.at)
    <3>1. PICK S \in Submissions : /\ verify_required_signoffs(p, S, Roots, clock)
                                   /\ review' = [signoffs |-> S, at |-> clock]
      BY <2>2 DEF Publish
    <3>2. review'.signoffs = S /\ review'.at = clock /\ active' = p BY <3>1 DEF Publish
    <3>3. clock \in Time BY DEF DecisionInv, DecisionTypeOK
    <3> QED BY <3>1, <3>2, <3>3
  <2> QED BY <2>1, <2>2 DEF PublishedOK
<1>3. (BuiltOK /\ CallOK /\ ResultOK)'
  BY DEF DecisionInv, BuiltOK, ManifestOK, CallOK, ResultOK, Publish
<1> QED BY <1>1, <1>2, <1>3 DEF DecisionInv

LEMMA RevokeStep == ASSUME DecisionInv, Revoke PROVE DecisionInv'
BY DEF DecisionInv, DecisionTypeOK, PublishedOK, BuiltOK, ManifestOK, CallOK, ResultOK, Revoke

(* A call starts.                                                          *)
LEMMA StartStep ==
  ASSUME DecisionInv, NEW pc \in {"build", "reevaluated", "executing"},
         NEW r \in Requests \cup {None}, Start(pc, r),
         pc = "build" => r \in Requests, pc # "build" => manifest # None
  PROVE  DecisionInv'
<1>1. call' \in [pc : {"idle", "build", "authorised", "decided"} \cup Purposes,
                 now : Time, request : Requests \cup {None}]
  BY DEF DecisionInv, DecisionTypeOK, Start, Purposes
<1>2. DecisionTypeOK' BY <1>1 DEF DecisionInv, DecisionTypeOK, Start
<1>3. PublishedOK' BY DEF DecisionInv, PublishedOK, Start
<1>4. BuiltOK' BY DEF DecisionInv, BuiltOK, ManifestOK, Start, Purposes
<1>5. (CallOK /\ ResultOK)' BY DEF DecisionInv, CallOK, ResultOK, Start
<1> QED BY <1>2, <1>3, <1>4, <1>5 DEF DecisionInv

(* The manifest is stored.                                                 *)
LEMMA BuildStep ==
  ASSUME DecisionInv, NEW yes, NEW forced \in BOOLEAN, Build(yes, forced)
  PROVE  DecisionInv'
<1> DEFINE p == active  r == call.request
<1>1. /\ p \in Profiles /\ PlansAreSound(p) /\ r \in Requests /\ call.now \in Time
      /\ r.operation \in DOMAIN p.allowed
  BY DEF DecisionInv, DecisionTypeOK, PublishedOK, CallOK, Build
<1>2. ModesOK(p, r) BY <1>1, ProfileModes
<1>3. manifest' = BuildManifest(p, r, yes, forced, call.now) /\ held' = yes BY DEF Build
<1>4. /\ manifest'.from = p /\ manifest'.request = r /\ manifest'.issued = call.now
      /\ manifest'.mode = PreparedMode(BuiltMode(p, r, yes), forced)
  BY <1>3 DEF BuildManifest
<1>5. manifest'.mode \in ToSet(Modes) BY <1>2, <1>4, BuiltModeOK
<1>6. ManifestOK'
  <2>1. manifest' = BuildManifest(manifest'.from, manifest'.request, held', forced,
                                  manifest'.issued)
    BY <1>3, <1>4
  <2> QED BY <1>1, <1>4, <2>1 DEF ManifestOK
<1>7. /\ call' \in [pc : {"idle", "build", "authorised", "decided"} \cup Purposes,
                    now : Time, request : Requests \cup {None}]
      /\ call'.pc = "proposed"
  BY DEF DecisionInv, DecisionTypeOK, Build, Purposes
<1>8. DecisionTypeOK' BY <1>1, <1>4, <1>5, <1>7 DEF DecisionInv, DecisionTypeOK, Build
<1>9. PublishedOK' BY DEF DecisionInv, PublishedOK, Build
<1>10. (BuiltOK /\ CallOK)' BY <1>6, <1>7 DEF BuiltOK, CallOK
<1>11. ResultOK' BY DEF DecisionInv, ResultOK, Build
<1> QED BY <1>8, <1>9, <1>10, <1>11 DEF DecisionInv

(* An operation without an entry, a profile that is gone, a refused or       *)
(* finished call: the call ends or is only recorded as refused.              *)
EndsCall ==
  /\ call' = Idle /\ result' = None
  /\ UNCHANGED <<active, review, manifest, held>> /\ clock' = clock

LEMMA EndStep == ASSUME DecisionInv, EndsCall PROVE DecisionInv'
<1>1. 0 \in Time BY DecisionAssumption DEF Time
<1>2. Idle \in [pc : {"idle", "build", "authorised", "decided"} \cup Purposes,
               now : Time, request : Requests \cup {None}]
  BY <1>1 DEF Idle
<1>3. DecisionTypeOK' BY <1>2 DEF DecisionInv, DecisionTypeOK, EndsCall
<1>4. PublishedOK' BY DEF DecisionInv, PublishedOK, EndsCall
<1>5. BuiltOK' BY DEF DecisionInv, BuiltOK, ManifestOK, EndsCall, Idle, Purposes
<1>6. (CallOK /\ ResultOK)' BY DEF CallOK, ResultOK, EndsCall, Idle
<1> QED BY <1>3, <1>4, <1>5, <1>6 DEF DecisionInv

(* A decision is recorded.                                                 *)
LEMMA RecordStep ==
  ASSUME DecisionInv, call.pc \in Purposes,
         NEW decision \in {"ALLOW", "DENY", "INDETERMINATE"}, NEW yes, NEW no,
         Record(decision, yes, no),
         decision = "ALLOW" =>
           /\ RulesPass(manifest.from, manifest, call.now)
           /\ delegated(manifest.from, manifest) \subseteq yes
           /\ \A q \in yes : q[1] \in Resolvable
  PROVE  DecisionInv'
<1>1. ManifestOK BY DEF DecisionInv, BuiltOK
<1>2. call'.pc \in {"authorised", "decided"} /\ call'.now = call.now
      /\ call' \in [pc : {"idle", "build", "authorised", "decided"} \cup Purposes,
                    now : Time, request : Requests \cup {None}]
  BY DEF DecisionInv, DecisionTypeOK, Record
<1>3. result'.decision = decision /\ result'.yes = yes BY DEF Record
<1>4. decision = "ALLOW" <=> result'.until # None
  <2>1. manifest.from \in Profiles BY <1>1 DEF ManifestOK
  <2>2. call.now \in Nat /\ manifest.from.authority \in Nat
    BY <2>1, SchemaAssumption DEF DecisionInv, DecisionTypeOK, Time
  <2>3. ReviewExpires(manifest) \in Nat BY <1>1, ReviewExpiresNat
  <2>4. ValidUntil(manifest.from, call.now) \in Nat BY <2>2, <2>3 DEF ValidUntil, Least
  <2>5. ValidUntil(manifest.from, call.now) # None BY <2>4, DecisionAssumption
  <2> QED BY <2>5 DEF Record
<1>5. DecisionTypeOK' BY <1>2, <1>3, <1>4 DEF DecisionInv, DecisionTypeOK, Record
<1>6. PublishedOK' BY DEF DecisionInv, PublishedOK, Record
<1>7. BuiltOK' BY <1>1 DEF BuiltOK, ManifestOK, Record
<1>8. CallOK' BY <1>2 DEF CallOK
<1>9. ResultOK' BY <1>2, <1>3 DEF ResultOK, Record
<1> QED BY <1>5, <1>6, <1>7, <1>8, <1>9 DEF DecisionInv

LEMMA DecideStep == ASSUME DecisionInv, Decide PROVE DecisionInv'
<1> DEFINE asked == {q \in delegated(active, manifest) : q[1] \in Resolvable}
<1>1. CASE RulesPass(active, manifest, call.now)
  <2>1. PICK yes \in SUBSET asked, no \in SUBSET asked :
          Record(check(active, manifest, call.now, yes, no), yes, no)
    BY <1>1 DEF Decide
  <2>2. check(active, manifest, call.now, yes, no) \in {"ALLOW", "DENY", "INDETERMINATE"}
    BY DEF check
  <2>3. check(active, manifest, call.now, yes, no) = "ALLOW" =>
          delegated(active, manifest) \subseteq yes
    BY DEF check
  <2>4. \A q \in yes : q[1] \in Resolvable OBVIOUS
  <2>5. active = manifest.from /\ call.pc \in Purposes BY DEF Decide
  <2> HIDE DEF asked
  <2> QED BY <1>1, <2>1, <2>2, <2>3, <2>4, <2>5, RecordStep
<1>2. CASE ~RulesPass(active, manifest, call.now)
  <2>1. Record("DENY", {}, {}) /\ call.pc \in Purposes BY <1>2 DEF Decide
  <2> QED BY <2>1, RecordStep
<1> QED BY <1>1, <1>2

LEMMA DispatchStep == ASSUME DecisionInv, Dispatch PROVE DecisionInv'
<1>1. EndsCall BY DEF Dispatch, EndsCall
<1> QED BY <1>1, EndStep

LEMMA NextDecision == ASSUME DecisionInv, [Next]_vars PROVE DecisionInv'
<1>1. CASE Tick BY <1>1, TickStep
<1>2. CASE \E p \in Profiles : Publish(p) BY <1>2, PublishStep
<1>3. CASE Revoke BY <1>3, RevokeStep
<1>4. ASSUME NEW r \in Requests, ProposeStart(r) PROVE DecisionInv'
  BY <1>4, StartStep DEF ProposeStart
<1>5. ASSUME NEW yes, NEW forced \in BOOLEAN, Build(yes, forced) PROVE DecisionInv'
  BY <1>5, BuildStep
<1>6. CASE BuildRefused
  <2>1. call.pc = "build" BY <1>6 DEF BuildRefused
  <2>2. result = None BY <2>1 DEF DecisionInv, ResultOK
  <2>3. EndsCall BY <1>6, <2>2 DEF BuildRefused, EndsCall
  <2> QED BY <2>3, EndStep
<1>7. CASE Reevaluate
  <2>1. Start("reevaluated", None) /\ manifest # None BY <1>7 DEF Reevaluate
  <2> QED BY <2>1, StartStep
<1>8. CASE Execute
  <2>1. Start("executing", None) /\ manifest # None BY <1>8 DEF Execute
  <2> QED BY <2>1, StartStep
<1>9. CASE Decide BY <1>9, DecideStep
<1>10. CASE DecideRefused
  <2>1. PICK d \in {"DENY", "INDETERMINATE"} : Record(d, {}, {}) BY <1>10 DEF DecideRefused
  <2>2. call.pc \in Purposes BY <1>10 DEF DecideRefused
  <2> QED BY <2>1, <2>2, RecordStep
<1>11. CASE Return
  <2>1. EndsCall BY <1>11 DEF Return, EndsCall
  <2> QED BY <2>1, EndStep
<1>12. CASE Dispatch BY <1>12, DispatchStep
<1>13. CASE ExecuteRefused
  <2>1. EndsCall BY <1>13 DEF ExecuteRefused, EndsCall
  <2> QED BY <2>1, EndStep
<1>14. CASE UNCHANGED vars
  BY <1>14
  DEF DecisionInv, DecisionTypeOK, PublishedOK, BuiltOK, ManifestOK, CallOK, ResultOK, vars
<1> QED
  BY <1>1, <1>2, <1>3, <1>4, <1>5, <1>6, <1>7, <1>8, <1>9, <1>10, <1>11, <1>12, <1>13, <1>14
  DEF Next

(* What is in force was reviewed and is sound, a stored manifest is what     *)
(* build_manifest() made of a profile that was in force, and a recorded      *)
(* decision is still true of it.                                            *)
THEOREM DecisionInvariant == Spec => []DecisionInv
<1>1. Init => DecisionInv BY InitDecision
<1>2. DecisionInv /\ [Next]_vars => DecisionInv' BY NextDecision
<1> QED BY <1>1, <1>2, PTL DEF Spec

(* Manifests, decisions and reviews keep the shape of the gate's records.     *)
THEOREM DecisionTypes == Spec => []DecisionTypeOK
<1>1. DecisionInv => DecisionTypeOK BY DEF DecisionInv
<1> QED BY <1>1, DecisionInvariant, PTL
-----------------------------------------------------------------------------
(* What a decision that allows means.                                      *)

(* The facts of a recorded ALLOW.                                          *)
LEMMA AllowedFacts ==
  ASSUME DecisionInv, Allowed
  PROVE  /\ ManifestOK
         /\ RulesPass(manifest.from, manifest, call.now)
         /\ delegated(manifest.from, manifest) \subseteq result.yes
         /\ \A q \in delegated(manifest.from, manifest) : q[1] \in Resolvable
<1>1. call.pc \in {"authorised", "decided"} /\ result # None /\ result.decision = "ALLOW"
  BY DEF DecisionInv, ResultOK, Allowed
<1> QED BY <1>1 DEF DecisionInv, ResultOK, BuiltOK

LEMMA AuthorizedOK == DecisionInv => AllowIsAuthorized
<1> SUFFICES ASSUME DecisionInv, Allowed PROVE AllowIsAuthorized BY DEF AllowIsAuthorized
<1> DEFINE p == manifest.from  r == manifest.request  e == Entry(p, r)
           D == delegated(p, manifest)
<1>1. RulesPass(p, manifest, call.now) BY AllowedFacts
<1>2. \A q \in D : q \in result.yes /\ q[1] \in Resolvable BY AllowedFacts
<1>3. Answered("live_state", None)
  <2>1. <<"live_state", None>> \in D BY DEF delegated
  <2> QED BY <1>2, <2>1 DEF Answered
<1>4. ~e.opaque
  <2> SUFFICES ASSUME e.opaque PROVE FALSE OBVIOUS
  <2>1. <<"constraint", None>> \in D BY DEF delegated
  <2>2. <<"constraint", None>>[1] \in Resolvable
    <3> HIDE DEF D
    <3> QED BY <1>2, <2>1
  <2> QED BY <2>2 DEF Resolvable
<1>5. ASSUME NEW x \in p.prohibited
      PROVE  /\ r.operation \notin x.operations
             /\ x \in EnforcedProhibitions(p) /\ x.operations = {} => Answered("rule", x.id)
  <2>1. r.operation \notin x.operations BY <1>1 DEF RulesPass, C6
  <2>2. ASSUME x \in EnforcedProhibitions(p), x.operations = {} PROVE Answered("rule", x.id)
    <3>1. x.rule = "typed" BY <2>2 DEF EnforcedProhibitions
    <3>2. <<"rule", x.id>> \in D BY <2>2, <3>1 DEF delegated
    <3> HIDE DEF D
    <3> QED BY <1>2, <3>2 DEF Answered
  <2> QED BY <2>1, <2>2
<1>6. ASSUME NEW t \in TargetsOf(r)
      PROVE  \/ p.targets[t.type].by = "identifiers" /\ t.id \in p.targets[t.type].ids
             \/ Answered("selector", t.id)
  <2> DEFINE spec == p.targets[t.type]
  <2>1. CASE spec.by = "identifiers"
    <3>1. t.id \in spec.ids BY <1>1, <2>1 DEF RulesPass, C4
    <3> QED BY <2>1, <3>1
  <2>2. CASE spec.by # "identifiers" /\ spec.by # "typed"
    <3>1. <<"free_selector", t.id>> \in D BY <2>2 DEF delegated
    <3>2. <<"free_selector", t.id>>[1] \in Resolvable
      <4> HIDE DEF D
      <4> QED BY <1>2, <3>1
    <3> QED BY <3>2 DEF Resolvable
  <2>3. CASE spec.by = "typed"
    <3>1. <<"selector", t.id>> \in D BY <2>3 DEF delegated
    <3> HIDE DEF D
    <3> QED BY <1>2, <3>1 DEF Answered
  <2> QED BY <2>1, <2>2, <2>3
<1>7. e.effect.classes # None => Answered("class_membership", r.target.id)
  <2> SUFFICES ASSUME e.effect.classes # None PROVE Answered("class_membership", r.target.id)
    OBVIOUS
  <2>1. <<"class_membership", r.target.id>> \in D BY DEF delegated
  <2> HIDE DEF D
  <2> QED BY <1>2, <2>1 DEF Answered
<1>8. p.testedRecovery /\ manifest.mode \in Executing =>
        Answered("recovery_evidence", None) /\ RecoveryTestInDate(p, e, call.now)
  <2> SUFFICES ASSUME p.testedRecovery, manifest.mode \in Executing
               PROVE  Answered("recovery_evidence", None) /\ RecoveryTestInDate(p, e, call.now)
    OBVIOUS
  <2>1. <<"recovery_evidence", None>> \in D BY DEF delegated, NeedsTestedRecovery
  <2>2. RecoveryTestInDate(p, e, call.now)
    BY <1>1 DEF RulesPass, C13, NeedsTestedRecovery
  <2> HIDE DEF D
  <2> QED BY <1>2, <2>1, <2>2 DEF Answered
<1>9. \/ e.egress = {}
      \/ p.egress.policy = "allowlisted" /\ e.egress \subseteq p.egress.allow
      \/ Answered("egress_policy", p.egress.policy)
  <2>1. /\ p.egress.policy = "none" => e.egress = {}
        /\ p.egress.policy = "allowlisted" => e.egress \subseteq p.egress.allow
    BY <1>1 DEF RulesPass, C10
  <2>2. ASSUME p.egress.policy \notin {"none", "allowlisted"}
        PROVE  Answered("egress_policy", p.egress.policy)
    <3>1. <<"egress_policy", p.egress.policy>> \in D BY <2>2 DEF delegated
    <3> HIDE DEF D
    <3> QED BY <1>2, <3>1 DEF Answered
  <2> QED BY <2>1, <2>2
<1> HIDE DEF D
<1> QED BY <1>3, <1>4, <1>5, <1>6, <1>7, <1>8, <1>9 DEF AllowIsAuthorized

(* A mode above the default that still executes is the mode of a threshold   *)
(* that raised it.                                                          *)
LEMMA RaisedByThreshold ==
  ASSUME NEW p, NEW r, NEW yes, NEW forced, ModesOK(p, r), NEW mode \in Executing,
         mode = PreparedMode(BuiltMode(p, r, yes), forced),
         ~AtMost(Modes, mode, Entry(p, r).default)
  PROVE  \E i \in DOMAIN p.thresholds : /\ Raises(p, r, yes, p.thresholds[i])
                                        /\ p.thresholds[i].mode = mode
<1>1. mode = BuiltMode(p, r, yes) BY DEF PreparedMode, Executing
<1>2. mode \in RaisedModes(p, r, yes, DOMAIN p.thresholds)
  BY <1>1, BuiltIsHighest DEF IsHighest
<1>3. mode # Entry(p, r).default
  BY ScaleOrder, Scales DEF ModesOK
<1> QED BY <1>2, <1>3 DEF RaisedModes

LEMMA EarnedOK == DecisionInv => AutonomyIsEarned
<1> SUFFICES ASSUME DecisionInv, Allowed, manifest.mode \in Executing PROVE AutonomyIsEarned
  BY DEF AutonomyIsEarned
<1> DEFINE p == manifest.from  r == manifest.request  e == Entry(p, r)
           D == delegated(p, manifest)
<1>1. RulesPass(p, manifest, call.now) /\ ManifestOK BY AllowedFacts
<1>2. \A q \in D : q \in result.yes BY AllowedFacts
<1>3. PICK forced \in BOOLEAN : manifest = BuildManifest(p, r, held, forced, manifest.issued)
  BY <1>1 DEF ManifestOK
<1>4. /\ manifest.mode = PreparedMode(BuiltMode(p, r, held), forced)
      /\ manifest.approval = NeedsApproval(manifest.mode)
  BY <1>3 DEF BuildManifest
<1>5. ~manifest.approval BY <1>4 DEF NeedsApproval, Executing
<1>6. ~e.dual BY <1>1, <1>5 DEF RulesPass, C8
<1>7. AtMost(Modes, manifest.mode, e.max) /\ AtMost(Modes, manifest.mode, p.maxMode)
  BY <1>1 DEF RulesPass, C5, C8
<1>8. ASSUME ~AtMost(Modes, manifest.mode, e.default)
      PROVE  \E i \in DOMAIN p.thresholds : LET t == p.thresholds[i] IN
               /\ t.typed
               /\ t.operations # {} => manifest.request.operation \in t.operations
               /\ AtMost(Modes, manifest.mode, t.mode)
               /\ t.id \in held /\ Answered("threshold", t.id)
  <2>1. p \in Profiles /\ r.operation \in DOMAIN p.allowed BY <1>1 DEF ManifestOK
  <2>2. ModesOK(p, r) BY <2>1, ProfileModes
  <2>3. PICK i \in DOMAIN p.thresholds : /\ Raises(p, r, held, p.thresholds[i])
                                         /\ p.thresholds[i].mode = manifest.mode
    BY <1>4, <1>8, <2>2, RaisedByThreshold
  <2> DEFINE t == p.thresholds[i]
  <2>4. AtMost(Modes, manifest.mode, t.mode)
    BY <2>2, <2>3, ScaleOrder, Scales DEF ModesOK
  <2>5. t \in Tiers(p, manifest) BY <2>3, <2>4 DEF Raises, Tiers, ToSet
  <2>6. Elevated(p, manifest) BY <1>5, <1>8 DEF Elevated
  <2>7. <<"threshold", t.id>> \in D
    <3> HIDE DEF t
    <3> QED BY <2>5, <2>6 DEF delegated, ThresholdQuestions
  <2>8. Answered("threshold", t.id)
    <3> HIDE DEF D
    <3> QED BY <1>2, <2>7 DEF Answered
  <2> QED BY <2>3, <2>4, <2>8 DEF Raises, Applies
<1> HIDE DEF D
<1> QED BY <1>5, <1>6, <1>7, <1>8 DEF AutonomyIsEarned

(* A sound plan has a test that is independent of the tool.                  *)
LEMMA SoundIsObserved ==
  ASSUME NEW plan, PlanIsSound(plan)
  PROVE  LET required == {i \in DOMAIN plan.tests : plan.tests[i].id \in required_test_ids(plan)}
         IN /\ required # {} /\ \A i \in required : i \in Independent(plan)
            /\ plan.rule = "all" =>
                 \A k \in 1 .. plan.postconditions : \E i \in required : plan.tests[i].index = k
<1> DEFINE required == {i \in DOMAIN plan.tests : plan.tests[i].id \in required_test_ids(plan)}
<1>1. plan.rule \in {"all", "designated"} BY DEF PlanIsSound
<1>2. required_test_ids(plan) \subseteq TestIds(plan, Independent(plan))
  BY <1>1 DEF required_test_ids, PlanIsSound
<1>3. \A i \in required : i \in Independent(plan)
  BY <1>2 DEF PlanIsSound, TestIds, Independent
<1>4. CASE plan.rule = "all"
  <2>1. Independent(plan) \subseteq required
    BY <1>4 DEF required_test_ids, TestIds, Independent
  <2>2. Independent(plan) # {} /\ 1 .. plan.postconditions \subseteq Covered(plan)
    BY <1>4 DEF PlanIsSound
  <2>3. \A k \in 1 .. plan.postconditions : \E i \in required : plan.tests[i].index = k
    <3> HIDE DEF required
    <3> QED BY <2>1, <2>2 DEF Covered
  <2> HIDE DEF required
  <2> QED BY <1>3, <2>1, <2>2, <2>3 DEF required
<1>5. CASE plan.rule = "designated"
  <2>1. PICK d : d \in plan.designated BY <1>5 DEF PlanIsSound
  <2>2. d \in TestIds(plan, Independent(plan)) BY <1>5, <2>1 DEF PlanIsSound
  <2>3. PICK i \in Independent(plan) : plan.tests[i].id = d BY <2>2 DEF TestIds
  <2>4. i \in required BY <1>5, <2>1, <2>3 DEF required_test_ids, Independent
  <2> QED BY <1>3, <1>5, <2>4
<1> QED BY <1>1, <1>4, <1>5

LEMMA ObservedOK == DecisionInv => CompletionIsObserved
<1> SUFFICES ASSUME DecisionInv, manifest # None PROVE CompletionIsObserved
  BY DEF CompletionIsObserved
<1> DEFINE plan == Entry(manifest.from, manifest.request).plan
<1>1. PlanIsSound(plan)
  BY DEF DecisionInv, BuiltOK, ManifestOK, PlansAreSound, Entry
<1> HIDE DEF plan
<1> QED BY <1>1, SoundIsObserved DEF CompletionIsObserved, plan, Independent

LEMMA ReviewedOK == DecisionInv => TwoPeopleReviewed
<1> SUFFICES ASSUME DecisionInv, active # None, RequireSignoffs PROVE TwoPeopleReviewed
  BY DEF TwoPeopleReviewed
<1> DEFINE S == review.signoffs
<1>1. /\ S \in Submissions /\ review.at \in Int
      /\ verify_required_signoffs(active, S, Roots, review.at)
  BY DecisionAssumption DEF DecisionInv, PublishedOK, Time
<1>2. PICK a \in S, b \in S : a.part = "A" /\ b.part = "B" /\ a.principal # b.principal
  BY <1>1 DEF verify_required_signoffs
<1>3. ASSUME NEW s \in {a, b}
      PROVE  LET k == Roots[s.key] IN
             /\ s.genuine /\ s.bound /\ k.principal = s.principal
             /\ ~k.revoked /\ {s.signed, review.at} \subseteq k.notBefore .. (k.notAfter - 1)
  <2> DEFINE k == Roots[s.key]
  <2>1. verify_readback_signoff(active, s, Roots, review.at) /\ s \in S
    BY <1>1 DEF verify_required_signoffs
  <2>2. s.key \in DOMAIN Roots BY <2>1 DEF verify_readback_signoff
  <2>3. k.notBefore \in Int /\ k.notAfter \in Int BY <2>2, SchemaAssumption
  <2>4. s.signed \in Int BY <1>1, <2>1, SchemaAssumption
  <2>5. KeyInForce(k, s, review.at) /\ k.principal = s.principal /\ s.genuine /\ s.bound
    BY <2>1 DEF verify_readback_signoff
  <2>6. /\ ~k.revoked /\ k.notBefore <= s.signed /\ k.notBefore <= review.at
        /\ s.signed < k.notAfter /\ review.at < k.notAfter
    BY <2>5 DEF KeyInForce
  <2> HIDE DEF k
  <2>7. s.signed \in k.notBefore .. (k.notAfter - 1) BY <2>3, <2>4, <2>6
  <2>8. review.at \in k.notBefore .. (k.notAfter - 1) BY <1>1, <2>3, <2>6
  <2> QED BY <2>5, <2>6, <2>7, <2>8 DEF k
<1>4. Roots[a.key].principal # Roots[b.key].principal BY <1>2, <1>3
<1> QED BY <1>2, <1>3, <1>4 DEF TwoPeopleReviewed

(* What build_manifest() derives stays within the maximum of an operation    *)
(* whose default does.                                                      *)
LEMMA BuiltWithin ==
  ASSUME NEW p, NEW r, NEW yes, NEW forced, ModesOK(p, r),
         AtMost(Modes, Entry(p, r).default, Entry(p, r).max)
  PROVE  AtMost(Modes, PreparedMode(BuiltMode(p, r, yes), forced), Entry(p, r).max)
<1> DEFINE built == BuiltMode(p, r, yes)  max == Entry(p, r).max
<1>1. built \in RaisedModes(p, r, yes, DOMAIN p.thresholds) BY BuiltIsHighest DEF IsHighest
<1>2. AtMost(Modes, built, max) /\ built \in ToSet(Modes) /\ max \in ToSet(Modes)
  BY <1>1 DEF RaisedModes, Raises, ModesOK
<1>3. ASSUME built \in Executing PROVE AtMost(Modes, "request_approval", max)
  <2>1. "request_approval" \in ToSet(Modes) BY Scales
  <2>2. ~AtMost(Modes, built, "request_approval") BY <1>2, <1>3, ModeRanks
  <2>3. AtMost(Modes, "request_approval", built) BY <1>2, <2>1, <2>2, ScaleOrder, Scales
  <2> HIDE DEF built, max
  <2> QED BY <1>2, <2>1, <2>3, ScaleOrder, Scales
<1> QED BY <1>2, <1>3 DEF PreparedMode

LEMMA ContainedOK == DecisionInv => BuiltIsContained
<1> DEFINE p == manifest.from  r == manifest.request  e == Entry(p, r)
<1> SUFFICES ASSUME DecisionInv, manifest # None,
                    Coherent(p), C2(p, manifest, manifest.issued),
                    C4(p, r), C6(p, r), C7(p, r), C10(p, r), C15(p, r),
                    p.testedRecovery => RecoveryTestInDate(p, e, manifest.issued),
                    r.target.type = e.effect.type, e.effect.ids = None,
                    e.effect.classes # None => r.target.class \in e.effect.classes,
                    r.parameters \subseteq e.parameters, r.value \in e.permits
             PROVE  check(p, manifest, manifest.issued, delegated(p, manifest), {}) = "ALLOW"
  BY DEF BuiltIsContained
<1>1. ManifestOK BY DEF DecisionInv, BuiltOK
<1>2. p \in Profiles /\ r.operation \in DOMAIN p.allowed /\ PlanIsSound(e.plan)
  BY <1>1 DEF ManifestOK, PlansAreSound, Entry
<1>3. ModesOK(p, r) BY <1>2, ProfileModes
<1>4. PICK forced \in BOOLEAN : manifest = BuildManifest(p, r, held, forced, manifest.issued)
  BY <1>1 DEF ManifestOK
<1> DEFINE mode == manifest.mode
<1>5. /\ mode = PreparedMode(BuiltMode(p, r, held), forced)
      /\ manifest.approval = NeedsApproval(mode)
  BY <1>4 DEF BuildManifest
<1>6. /\ AtMost(Modes, e.default, e.max) /\ AtMost(Modes, e.max, p.maxMode)
      /\ e.roles \subseteq p.roles /\ e.privileges \subseteq p.privileges
      /\ e.systems \subseteq p.systems /\ e.recovery.irreversible = ~e.impact.reversible
      /\ e.recovery.tested /\ e.recovery.evidenced /\ p.running
      /\ e.dual => AtMost(Modes, e.max, "request_approval")
      /\ e.material \subseteq e.parameters
  BY <1>2 DEF Coherent, Entry
<1>7. mode \in ToSet(Modes) BY <1>3, <1>5, BuiltModeOK
<1>8. AtMost(Modes, mode, e.max) BY <1>3, <1>5, <1>6, BuiltWithin
<1>9. e.max \in ToSet(Modes) /\ p.maxMode \in ToSet(Modes)
  BY <1>2, <1>3, SchemaAssumption DEF ModesOK
<1>10. C5(p, manifest) BY <1>6, <1>8 DEF C5
<1>11. C8(p, manifest)
  <2>1. AtMost(Modes, mode, p.maxMode)
    <3> HIDE DEF mode, e, p
    <3> QED BY <1>6, <1>7, <1>8, <1>9, ScaleOrder, Scales
  <2>2. ASSUME e.dual PROVE manifest.approval
    <3>1. AtMost(Modes, e.max, "request_approval") BY <1>6, <2>2
    <3>2. "request_approval" \in ToSet(Modes) BY Scales
    <3>3. AtMost(Modes, mode, "request_approval")
      <4> HIDE DEF mode, e
      <4> QED BY <1>7, <1>8, <1>9, <3>1, <3>2, ScaleOrder, Scales
    <3> QED BY <1>5, <1>7, <3>3, ModeRanks
  <2>3. ASSUME Elevated(p, manifest) PROVE Tiers(p, manifest) # {}
    <3>1. mode \in Executing /\ ~AtMost(Modes, mode, e.default) BY <2>3 DEF Elevated
    <3>2. PICK i \in DOMAIN p.thresholds : /\ Raises(p, r, held, p.thresholds[i])
                                           /\ p.thresholds[i].mode = mode
      <4> HIDE DEF mode, p, r
      <4> QED BY <1>3, <1>5, <3>1, RaisedByThreshold
    <3>3. AtMost(Modes, mode, p.thresholds[i].mode) BY <1>7, <3>2, ScaleOrder, Scales
    <3> QED BY <3>2, <3>3 DEF Tiers, Raises, ToSet
  <2> QED BY <1>6, <2>1, <2>2, <2>3 DEF C8
<1>12. C9(p, r) /\ C12(p) /\ C13(p, manifest, manifest.issued)
  BY <1>6 DEF C9, C12, C13, NeedsTestedRecovery
<1>13. C14(p, manifest)
  <2>1. Independent(e.plan) # {}
    BY <1>2, SoundIsObserved
  <2> QED BY <1>2, <2>1 DEF C14
<1>14. RulesPass(p, manifest, manifest.issued)
  BY <1>10, <1>11, <1>12, <1>13 DEF RulesPass
<1> QED BY <1>14 DEF check
-----------------------------------------------------------------------------
(* Delegation: what passes under an attenuation passes under its parent.     *)

(* The parts of an attenuation, for an operation the child allows.           *)
LEMMA AttenuationParts ==
  ASSUME NEW parent, NEW child, NEW r, Attenuated(parent, child),
         r.operation \in DOMAIN child.allowed
  PROVE  /\ Entry(parent, r) = Entry(child, r) /\ r.operation \in DOMAIN parent.allowed
         /\ child.systems \subseteq parent.systems
         /\ \A y \in DOMAIN child.targets : /\ y \in DOMAIN parent.targets
                                            /\ parent.targets[y] = child.targets[y]
         /\ parent.roles = child.roles /\ parent.untrusted = child.untrusted
         /\ parent.egress = child.egress /\ parent.testedRecovery = child.testedRecovery
         /\ parent.maxAge = child.maxAge
         /\ parent.running = child.running /\ parent.level = child.level
         /\ parent.prohibited \subseteq child.prohibited
         /\ child.privileges \subseteq parent.privileges
<1>1. SharedBoundaries(child) = SharedBoundaries(parent) BY DEF Attenuated
<1>2. /\ parent.roles = child.roles /\ parent.untrusted = child.untrusted
      /\ parent.egress = child.egress /\ parent.testedRecovery = child.testedRecovery
      /\ parent.maxAge = child.maxAge
      /\ parent.running = child.running /\ parent.level = child.level
  BY <1>1 DEF SharedBoundaries
<1>3. /\ \A y \in DOMAIN child.targets : /\ y \in DOMAIN parent.targets
                                         /\ parent.targets[y] = child.targets[y]
      /\ r.operation \in DOMAIN parent.allowed
      /\ parent.allowed[r.operation] = child.allowed[r.operation]
  BY DEF Attenuated, IsRestriction
<1> QED BY <1>2, <1>3 DEF Attenuated, DropsNoProhibition, Entry

(* The manifest, read under the parent.                                     *)
Under(m, parent) == [m EXCEPT !.from = parent]

LEMMA UnderParent ==
  ASSUME NEW m, NEW p, NEW r, NEW yes, NEW forced, NEW at,
         m = BuildManifest(p, r, yes, forced, at), NEW parent
  PROVE  /\ Under(m, parent).from = parent /\ Under(m, parent).request = m.request
         /\ Under(m, parent).mode = m.mode /\ Under(m, parent).approval = m.approval
         /\ Under(m, parent).issued = m.issued
BY DEF Under, BuildManifest

(* The same manifest s under a parent, with what a decision reads of it.     *)
Attenuation(child, m, parent, s) ==
  /\ child \in Profiles /\ parent \in Profiles /\ Attenuated(parent, child)
  /\ m.from = child /\ m.request.operation \in DOMAIN child.allowed
  /\ m.mode \in ToSet(Modes) /\ m.issued \in Nat
  /\ s.from = parent /\ s.request = m.request /\ s.mode = m.mode
  /\ s.approval = m.approval /\ s.issued = m.issued

LEMMA SameEntry ==
  ASSUME NEW child, NEW m, NEW parent, NEW s, Attenuation(child, m, parent, s)
  PROVE  /\ Entry(parent, m.request) = Entry(child, m.request)
         /\ Elevated(parent, s) <=> Elevated(child, m)
         /\ Tiers(child, m) \subseteq Tiers(parent, s)
         /\ \A t \in Tiers(parent, s) : t \in ToSet(child.thresholds) => t \in Tiers(child, m)
<1>1. Entry(parent, m.request) = Entry(child, m.request)
  BY AttenuationParts DEF Attenuation
<1>2. ToSet(child.thresholds) \subseteq ToSet(parent.thresholds)
  BY DEF Attenuation, Attenuated
<1>3. s.request = m.request /\ s.mode = m.mode /\ s.approval = m.approval BY DEF Attenuation
<1>4. Elevated(parent, s) <=> Elevated(child, m) BY <1>1, <1>3 DEF Elevated
<1>5. Tiers(child, m) \subseteq Tiers(parent, s) BY <1>2, <1>3 DEF Tiers
<1>6. \A t \in Tiers(parent, s) : t \in ToSet(child.thresholds) => t \in Tiers(child, m)
  BY <1>3 DEF Tiers
<1> QED BY <1>1, <1>4, <1>5, <1>6

LEMMA ParentLifetime ==
  ASSUME NEW child, NEW m, NEW parent, NEW s, Attenuation(child, m, parent, s),
         NEW at \in Nat, C2(child, m, at), ~Expired(parent, at)
  PROVE  C2(parent, s, at)
<1>1. Entry(parent, m.request) = Entry(child, m.request) BY SameEntry
<1>2. Entry(child, m.request).review \in Nat /\ child.review \in Nat /\ parent.review \in Nat
  BY SchemaAssumption DEF Attenuation, Entry
<1>3. child.review <= parent.review BY DEF Attenuation, Attenuated
<1> DEFINE rev == Entry(child, m.request).review
<1>4. Least(child.review, rev) <= Least(parent.review, rev)
      /\ Least(child.review, rev) \in Nat /\ Least(parent.review, rev) \in Nat
  BY <1>2, <1>3 DEF Least
<1>5. /\ ReviewExpires(m) = m.issued + Least(child.review, rev)
      /\ ReviewExpires(s) = m.issued + Least(parent.review, rev)
      /\ m.issued \in Nat /\ s.issued = m.issued
  BY <1>1 DEF ReviewExpires, Attenuation
<1>6. m.issued <= at /\ at < ReviewExpires(m) BY DEF C2
<1> HIDE DEF rev
<1>7. at < ReviewExpires(s) BY <1>4, <1>5, <1>6
<1> QED BY <1>5, <1>6, <1>7 DEF C2

LEMMA ParentScope ==
  ASSUME NEW child, NEW m, NEW parent, NEW s, Attenuation(child, m, parent, s),
         C4(child, m.request), C5(child, m), C6(child, m.request), C7(child, m.request)
  PROVE  C4(parent, m.request) /\ C5(parent, s) /\ C6(parent, m.request)
         /\ C7(parent, m.request)
<1> DEFINE r == m.request  e == Entry(child, r)
<1>1. Entry(parent, r) = e BY SameEntry
<1>2. /\ child.systems \subseteq parent.systems
      /\ \A y \in DOMAIN child.targets : /\ y \in DOMAIN parent.targets
                                         /\ parent.targets[y] = child.targets[y]
      /\ parent.level = child.level /\ parent.prohibited \subseteq child.prohibited
  <2>1. Attenuated(parent, child) /\ r.operation \in DOMAIN child.allowed BY DEF Attenuation
  <2> HIDE DEF r
  <2> QED BY <2>1, AttenuationParts
<1>3. Enforcing(parent) <=> Enforcing(child) BY <1>2 DEF Enforcing
<1>4. C4(parent, r) BY <1>1, <1>2, <1>3 DEF C4
<1>5. C5(parent, s) BY <1>1 DEF C5, Attenuation
<1>6. C6(parent, r) BY <1>2, <1>3 DEF C6
<1>7. C7(parent, r)
  <2> DEFINE i == e.impact  c == child.envelope  w == parent.envelope
  <2>1. /\ AtMost(Severities, c.severity, w.severity) /\ c.domains \subseteq w.domains
        /\ c.objects # None /\ w.objects # None /\ c.objects <= w.objects
        /\ c.irreversible => w.irreversible
    BY DEF Attenuation, Attenuated
  <2>2. /\ i.domains \subseteq c.domains /\ AtMost(Severities, i.severity, c.severity)
        /\ i.objects # None /\ i.objects <= c.objects
        /\ i.reversible \/ c.irreversible
    BY DEF C7
  <2>3. child \in Profiles /\ parent \in Profiles /\ r.operation \in DOMAIN child.allowed
    BY DEF Attenuation
  <2>4. i.severity \in ToSet(Severities) /\ (i.objects # None => i.objects \in Nat)
    BY <2>3, SchemaAssumption DEF Entry
  <2>5. /\ c.severity \in ToSet(Severities) /\ (c.objects # None => c.objects \in Nat)
        /\ w.severity \in ToSet(Severities) /\ (w.objects # None => w.objects \in Nat)
    BY <2>3, SchemaAssumption
  <2> HIDE DEF i, c, w
  <2>6. AtMost(Severities, i.severity, w.severity)
    BY <2>1, <2>2, <2>4, <2>5, ScaleOrder, Scales
  <2>7. i.objects <= w.objects BY <2>1, <2>2, <2>4, <2>5
  <2>8. i.domains \subseteq w.domains /\ (i.reversible \/ w.irreversible) BY <2>1, <2>2
  <2> QED BY <1>1, <2>1, <2>2, <2>6, <2>7, <2>8 DEF C7, i, w
<1> QED BY <1>4, <1>5, <1>6, <1>7

LEMMA ParentAuthority ==
  ASSUME NEW child, NEW m, NEW parent, NEW s, Attenuation(child, m, parent, s), NEW at,
         C8(child, m), C9(child, m.request), C10(child, m.request), C12(child),
         C13(child, m, at), C14(child, m), C15(child, m.request)
  PROVE  /\ C8(parent, s) /\ C9(parent, m.request) /\ C10(parent, m.request) /\ C12(parent)
         /\ C13(parent, s, at) /\ C14(parent, s) /\ C15(parent, m.request)
<1> DEFINE r == m.request  e == Entry(child, r)
<1>1. Entry(parent, r) = e BY SameEntry
<1>2. /\ parent.roles = child.roles /\ parent.untrusted = child.untrusted
      /\ parent.egress = child.egress /\ parent.testedRecovery = child.testedRecovery
      /\ parent.maxAge = child.maxAge
      /\ parent.running = child.running /\ parent.level = child.level
      /\ child.privileges \subseteq parent.privileges
  <2>1. Attenuated(parent, child) /\ r.operation \in DOMAIN child.allowed BY DEF Attenuation
  <2> QED BY <2>1, AttenuationParts
<1>3. s.request = r /\ s.mode = m.mode /\ s.approval = m.approval BY DEF Attenuation
<1>4. C8(parent, s)
  <2>1. AtMost(Modes, m.mode, child.maxMode) BY DEF C8
  <2>2. AtMost(Modes, child.maxMode, parent.maxMode) BY DEF Attenuation, Attenuated
  <2>3. /\ m.mode \in ToSet(Modes) /\ child.maxMode \in ToSet(Modes)
        /\ parent.maxMode \in ToSet(Modes)
    BY SchemaAssumption DEF Attenuation
  <2>4. AtMost(Modes, m.mode, parent.maxMode) BY <2>1, <2>2, <2>3, ScaleOrder, Scales
  <2>5. Elevated(parent, s) /\ Tiers(parent, s) = {} => ~Enforcing(parent)
    BY <1>2, SameEntry DEF C8, Enforcing
  <2> QED BY <1>1, <1>2, <1>3, <2>4, <2>5 DEF C8
<1>5. C9(parent, r) /\ C10(parent, r) /\ C12(parent) /\ C15(parent, r)
  BY <1>1, <1>2 DEF C9, C10, C12, C15
<1>6. C13(parent, s, at)
  BY <1>1, <1>2, <1>3 DEF C13, NeedsTestedRecovery, RecoveryTestInDate
<1>7. C14(parent, s) BY <1>1, <1>2, <1>3 DEF C14, Signed
<1> QED BY <1>4, <1>5, <1>6, <1>7

(* The questions of the parent were asked, those of thresholds that the child *)
(* does not have excepted.                                                  *)
LEMMA ParentQuestions ==
  ASSUME NEW child, NEW m, NEW parent, NEW s, Attenuation(child, m, parent, s),
         C4(child, m.request), NEW q \in delegated(parent, s)
  PROVE  \/ q \in delegated(child, m)
         \/ \E t \in ToSet(parent.thresholds) \ ToSet(child.thresholds) :
              q = <<"threshold", t.id>>
<1> DEFINE r == m.request  e == Entry(child, r)
           typed(p) == {<<IF p.targets[t.type].by = "typed" THEN "selector" ELSE "free_selector",
                          t.id>> :
                          t \in {u \in TargetsOf(r) : p.targets[u.type].by # "identifiers"}}
           ruled(p) == {<<IF x.rule = "typed" THEN "rule" ELSE "free_rule", x.id>> :
                          x \in {y \in p.prohibited :
                                   /\ y.operations = {}
                                   /\ \/ y.rule \in {"typed", "free"}
                                      \/ y.rule = "none" /\ ~Enforcing(p)}}
           others(p) == {<<"live_state", None>>}
             \cup (IF e.opaque THEN {<<"constraint", None>>} ELSE {})
             \cup (IF e.effect.classes # None THEN {<<"class_membership", r.target.id>>} ELSE {})
             \cup (IF p.egress.policy \notin {"none", "allowlisted"}
                   THEN {<<"egress_policy", p.egress.policy>>} ELSE {})
             \cup (IF p.testedRecovery /\ m.mode \in Executing
                   THEN {<<"recovery_evidence", None>>} ELSE {})
<1>1. Entry(parent, r) = e BY SameEntry
<1>2. s.request = r /\ s.mode = m.mode BY DEF Attenuation
<1>3. /\ \A y \in DOMAIN child.targets : parent.targets[y] = child.targets[y]
      /\ parent.egress = child.egress /\ parent.testedRecovery = child.testedRecovery
      /\ parent.level = child.level /\ parent.prohibited \subseteq child.prohibited
  <2>1. Attenuated(parent, child) /\ r.operation \in DOMAIN child.allowed BY DEF Attenuation
  <2> HIDE DEF r
  <2>2. ASSUME NEW y \in DOMAIN child.targets PROVE parent.targets[y] = child.targets[y]
    BY <2>1 DEF Attenuated, IsRestriction
  <2>3. /\ parent.egress = child.egress /\ parent.testedRecovery = child.testedRecovery
        /\ parent.level = child.level /\ parent.prohibited \subseteq child.prohibited
    BY <2>1, AttenuationParts
  <2> QED BY <2>2, <2>3
<1>4. delegated(parent, s) = typed(parent) \cup ruled(parent) \cup others(parent)
                             \cup ThresholdQuestions(parent, s)
  BY <1>1, <1>2 DEF delegated, NeedsTestedRecovery
<1>5. delegated(child, m) = typed(child) \cup ruled(child) \cup others(child)
                            \cup ThresholdQuestions(child, m)
  BY DEF delegated, NeedsTestedRecovery
<1>6. others(parent) = others(child) BY <1>3
<1>7. typed(parent) = typed(child)
  <2>1. \A t \in TargetsOf(r) : t.type \in DOMAIN child.targets BY DEF C4
  <2> QED BY <1>3, <2>1
<1>8. ruled(parent) \subseteq ruled(child) BY <1>3 DEF Enforcing
<1>9. ASSUME q \in ThresholdQuestions(parent, s)
      PROVE  \/ q \in ThresholdQuestions(child, m)
             \/ \E t \in ToSet(parent.thresholds) \ ToSet(child.thresholds) :
                  q = <<"threshold", t.id>>
  <2>1. Elevated(parent, s) /\ Elevated(child, m) BY <1>9, SameEntry DEF ThresholdQuestions
  <2>2. CASE Tiers(parent, s) = {}
    <3>1. Tiers(child, m) = {} BY <2>2, SameEntry
    <3> QED BY <1>9, <2>1, <2>2, <3>1 DEF ThresholdQuestions
  <2>3. CASE Tiers(parent, s) # {}
    <3>1. PICK t \in Tiers(parent, s) : q = <<"threshold", t.id>>
      BY <1>9, <2>1, <2>3 DEF ThresholdQuestions
    <3>2. t \in ToSet(parent.thresholds) BY DEF Tiers
    <3>3. CASE t \in ToSet(child.thresholds)
      <4>1. t \in Tiers(child, m) BY <3>3, SameEntry
      <4> QED BY <2>1, <3>1, <4>1 DEF ThresholdQuestions
    <3> QED BY <3>1, <3>2, <3>3
  <2> QED BY <2>2, <2>3
<1> HIDE DEF typed, ruled, others
<1> QED BY <1>4, <1>5, <1>6, <1>7, <1>8, <1>9

LEMMA AttenuatedOK == DecisionInv => AttenuationHolds
<1> SUFFICES ASSUME DecisionInv, Allowed,
                    NEW parent \in {p \in Profiles : Attenuated(p, manifest.from)}
             PROVE  LET same == [manifest EXCEPT !.from = parent]
                        dropped == ToSet(parent.thresholds) \ ToSet(manifest.from.thresholds)
                    IN /\ Expired(parent, call.now) \/ RulesPass(parent, same, call.now)
                       /\ delegated(parent, same) \subseteq
                            result.yes \cup {<<"threshold", t.id>> : t \in dropped}
  BY DEF AttenuationHolds
<1> DEFINE child == manifest.from  r == manifest.request  same == Under(manifest, parent)
<1>1. ManifestOK /\ RulesPass(child, manifest, call.now)
      /\ delegated(child, manifest) \subseteq result.yes
  BY AllowedFacts
<1>2. PICK forced \in BOOLEAN :
        manifest = BuildManifest(child, r, held, forced, manifest.issued)
  BY <1>1 DEF ManifestOK
<1>3. /\ same.from = parent /\ same.request = r /\ same.mode = manifest.mode
      /\ same.approval = manifest.approval /\ same.issued = manifest.issued
  <2> HIDE DEF child, r
  <2> QED BY <1>2, UnderParent DEF r
<1>4. ModesOK(child, r) /\ manifest.mode \in ToSet(Modes)
  <2>1. ModesOK(child, r) BY <1>1, ProfileModes DEF ManifestOK
  <2>2. manifest.mode = PreparedMode(BuiltMode(child, r, held), forced)
    BY <1>2 DEF BuildManifest
  <2> QED BY <2>1, <2>2, BuiltModeOK
<1>5. Attenuation(child, manifest, parent, same) /\ call.now \in Nat
  BY <1>1, <1>3, <1>4 DEF Attenuation, ManifestOK, Time, DecisionInv, DecisionTypeOK
<1> HIDE DEF same
<1>6. ASSUME ~Expired(parent, call.now) PROVE RulesPass(parent, same, call.now)
  <2>1. C2(parent, same, call.now) BY <1>1, <1>5, <1>6, ParentLifetime DEF RulesPass
  <2>2. C4(parent, r) /\ C5(parent, same) /\ C6(parent, r) /\ C7(parent, r)
    BY <1>1, <1>5, ParentScope DEF RulesPass
  <2>3. /\ C8(parent, same) /\ C9(parent, r) /\ C10(parent, r) /\ C12(parent)
        /\ C13(parent, same, call.now) /\ C14(parent, same) /\ C15(parent, r)
    BY <1>1, <1>5, ParentAuthority DEF RulesPass
  <2> QED BY <1>3, <2>1, <2>2, <2>3 DEF RulesPass
<1>7. ASSUME NEW q \in delegated(parent, same)
      PROVE  q \in result.yes \cup
               {<<"threshold", t.id>> : t \in ToSet(parent.thresholds) \ ToSet(child.thresholds)}
  <2>1. C4(child, r) BY <1>1 DEF RulesPass
  <2>2. \/ q \in delegated(child, manifest)
        \/ \E t \in ToSet(parent.thresholds) \ ToSet(child.thresholds) :
             q = <<"threshold", t.id>>
    BY <1>5, <2>1, ParentQuestions
  <2> QED BY <1>1, <2>2
<1> QED BY <1>6, <1>7 DEF same, Under
-----------------------------------------------------------------------------
(* The theorems.                                                           *)

(* What an ALLOW means: the operation is not prohibited, and what the profile *)
(* leaves to live evaluation was asked in this decision and answered yes     *)
(* (check, _resolve).                                                       *)
THEOREM AllowStands == Spec => []AllowIsAuthorized
BY AuthorizedOK, DecisionInvariant, PTL

(* An action above the default of its operation that runs without approval   *)
(* has a threshold that held at construction and in this decision.           *)
THEOREM AutonomyStands == Spec => []AutonomyIsEarned
BY EarnedOK, DecisionInvariant, PTL

(* Under a coherent profile the gate does not deny what it builds itself      *)
(* (build_manifest against check).                                          *)
THEOREM BuildStands == Spec => []BuiltIsContained
BY ContainedOK, DecisionInvariant, PTL

(* A profile in force was reviewed by two people, by keys of theirs in force  *)
(* (verify_required_signoffs).                                              *)
THEOREM TwoPeopleStand == Spec => []TwoPeopleReviewed
BY ReviewedOK, DecisionInvariant, PTL

(* The tests a stored manifest requires are independent, at least one, and    *)
(* one for each postcondition when all must hold (verification_errors).      *)
THEOREM CompletionStands == Spec => []CompletionIsObserved
BY ObservedOK, DecisionInvariant, PTL

(* What is allowed under an attenuation passes the rules of its parent, and   *)
(* no question of the parent was left out (_attenuation_errors).             *)
THEOREM AttenuationStands == Spec => []AttenuationHolds
BY AttenuatedOK, DecisionInvariant, PTL
=============================================================================
