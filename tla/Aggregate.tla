----------------------------- MODULE Aggregate -----------------------------
(***************************************************************************)
(* Aggregate execution budgets (aggregate.py) as operators on the          *)
(* reservations that V4Gate keeps.  A budget bounds a measure of what was  *)
(* admitted in a window, per group of actions; it never grants authority.  *)
(*                                                                         *)
(* A claim is what build_claim derives from a manifest: the actor group,   *)
(* the root of its delegation, its target and the size of its effect.      *)
(* Budgets that sum a size (objects, egress_bytes) are one measure here.   *)
(* There is one program, so that grouping by it is grouping by nothing.    *)
(* The policy of a gate is fixed: claims are never made under another one. *)
(***************************************************************************)
EXTENDS Naturals, FiniteSets, FiniteSetsExt

CONSTANTS Budgets, Targets, MaxObjects,
          Measure, Window, Seconds, Limit, Response, GroupBy,
          Covers,        \* the targets a budget's selector matches
          None

ASSUME BudgetAssumption ==
  /\ Measure \in [Budgets -> {"admissions", "in_flight", "objects", "distinct_targets"}]
  /\ Window \in [Budgets -> {"rolling", "fixed", "lifetime"}]
  /\ Seconds \in [Budgets -> Nat \ {0}]
  /\ Limit \in [Budgets -> Nat \ {0}]
  /\ Response \in [Budgets -> {"DENY", "REQUIRE_APPROVAL", "SUSPENDED"}]
  /\ GroupBy \in [Budgets -> {"program", "accountable_actor", "delegation_root"}]
  /\ Covers \in [Budgets -> SUBSET Targets]
  /\ MaxObjects \in Nat \ {0}

(* build_claim: the budgets that apply, the group, and the amount.          *)
Claims(claim)     == {b \in Budgets : claim.target \in Covers[b]}
GroupOf(b, claim) == CASE GroupBy[b] = "accountable_actor" -> claim.actor
                       [] GroupBy[b] = "delegation_root" -> claim.root
                       [] OTHER -> "program"
Amount(b, claim)  == IF Measure[b] = "objects" THEN claim.objects ELSE 1

(* Mutant: a rolling window ends one instant early.                         *)
InWindowShort(b, at, now) ==
  CASE Window[b] = "lifetime" -> TRUE
    [] Window[b] = "rolling"  -> at <= now /\ now - at + 1 < Seconds[b]
    [] Window[b] = "fixed"    -> now \div Seconds[b] = at \div Seconds[b]

(* _in_window                                                               *)
InWindow(b, at, now) ==
  CASE Window[b] = "lifetime" -> TRUE
    [] Window[b] = "rolling"  -> at <= now /\ now - at < Seconds[b]
    [] Window[b] = "fixed"    -> now \div Seconds[b] = at \div Seconds[b]

(* The reservations that count against a claim.                             *)
Relevant(reservations, b, claim, now) ==
  {x \in DOMAIN reservations :
     /\ reservations[x] # None
     /\ b \in Claims(reservations[x].claim)
     /\ GroupOf(b, reservations[x].claim) = GroupOf(b, claim)
     /\ InWindow(b, reservations[x].at, now)}

(* The sum of the numbers in w over S.                                      *)
Total(w, S) == MapThenSumSet(LAMBDA x : w[x], S)

(* What the measure would be with the claim admitted.                       *)
Projected(reservations, b, claim, now, active) ==
  LET relevant == Relevant(reservations, b, claim, now) IN
  CASE Measure[b] = "distinct_targets" ->
         Cardinality({reservations[x].claim.target : x \in relevant} \cup {claim.target})
    [] Measure[b] = "in_flight" ->
         Cardinality({x \in relevant : reservations[x].execution \in active}) + 1
    [] OTHER ->
         Total([x \in relevant |-> Amount(b, reservations[x].claim)], relevant) + Amount(b, claim)

(* evaluate(): the budgets that would be exceeded, and by how much.         *)
Issues(reservations, claim, now, active) ==
  {<<b, Projected(reservations, b, claim, now, active)>> :
     b \in {c \in Claims(claim) : Projected(reservations, c, claim, now, active) > Limit[c]}}

(* With allow_reviewed, a REQUIRE_APPROVAL response is satisfied.           *)
Blocking(issues, reviewed) ==
  {i \in issues : ~(reviewed /\ Response[i[1]] = "REQUIRE_APPROVAL")}

(* review_snapshot(): the view of the reservations a proposal is bound to.  *)
(* What a reservation records never changes, so that its name stands for it. *)
review_snapshot(reservations, claim, now, active) ==
  [issues   |-> Issues(reservations, claim, now, active),
   revision |-> UNION {{<<x, b, reservations[x].execution \in active>> :
                          x \in Relevant(reservations, b, claim, now)} : b \in Claims(claim)}]
=============================================================================
