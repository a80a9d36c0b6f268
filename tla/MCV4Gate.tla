------------------------------ MODULE MCV4Gate ------------------------------
(* Instances of the v0.4 gate for model checking.  A run takes the budgets *)
(* and campaign rules it is about; what each of them says is written here. *)
EXTENDS V4Gate, TLC

CONSTANTS perActor, objectsToday, targets, openCalls, recentCalls, perRoot,
          suspendProgram, reviewActor

AllBudgets == {perActor, objectsToday, targets, openCalls, recentCalls, perRoot}

MCMeasure == [b \in Budgets |->
  CASE b = objectsToday -> "objects"
    [] b = targets -> "distinct_targets"
    [] b \in {openCalls, recentCalls} -> "in_flight"
    [] OTHER -> "admissions"]
MCWindow == [b \in Budgets |->
  CASE b = objectsToday -> "fixed"
    [] b \in {openCalls, perRoot} -> "lifetime"
    [] OTHER -> "rolling"]
MCSeconds == [b \in Budgets |-> 1]
MCLimit == [b \in Budgets |-> IF b = objectsToday THEN 3 ELSE IF b = perRoot THEN 2 ELSE 1]
MCResponse == [b \in Budgets |->
  CASE b = targets -> "REQUIRE_APPROVAL"
    [] b \in {openCalls, recentCalls} -> "SUSPENDED"
    [] OTHER -> "DENY"]
MCGroupBy == [b \in Budgets |->
  CASE b = perActor -> "accountable_actor"
    [] b = perRoot -> "delegation_root"
    [] OTHER -> "program"]
MCCovers == [b \in Budgets |-> Targets]

(* The narrow content is part of the wide one; most runs have one content.   *)
CONSTANTS wide, narrow
MCAttenuates == {c \in Contents \X Contents : c # <<narrow, wide>>}

(* Two profiles, each of which may delegate to the other.                   *)
MCChildOf == {c \in Profiles \X Profiles : c[1] # c[2]}

MCRuleScope == [r \in Rules |-> IF r = reviewActor THEN "actor" ELSE "program"]
MCRuleMode == [r \in Rules |-> IF r = reviewActor THEN "REQUIRE_APPROVAL" ELSE "SUSPENDED"]
MCRuleThreshold == [r \in Rules |-> 1]
MCRuleSeconds == [r \in Rules |-> 1]

MCSymmetry == Permutations(Executions) \cup Permutations(Manifests)
                \cup Permutations(ActionIds) \cup Permutations(Actors)
                \cup Permutations(Targets) \cup Permutations(Profiles)
                \cup Permutations(Observations)
=============================================================================
