--------------------------- MODULE MCManagedGate ---------------------------
(* Instances of the managed gate for model checking.  Policies are written *)
(* here because a configuration file has no functions.                     *)
EXTENDS ManagedGate, TLC

CONSTANTS a1, op1, unknownRule, regressionRule

MCOperationOf == [a \in Actions |-> op1]

(* The first unknown outcome suspends the action; a second regression of    *)
(* the operation asks for approval of all its actions.                      *)
MCRuleSignal == [r \in Rules |-> IF r = unknownRule THEN "EXECUTION_UNKNOWN"
                                 ELSE "EVALUATION_REGRESSION"]
MCRuleScope == [r \in Rules |-> IF r = unknownRule THEN "action" ELSE "operation"]
MCRuleMode == [r \in Rules |-> IF r = unknownRule THEN "SUSPENDED" ELSE "REQUIRE_APPROVAL"]
MCRuleThreshold == [r \in Rules |-> IF r = unknownRule THEN 1 ELSE 2]

RaceSymmetry == Permutations(Executions) \cup Permutations(Manifests)
=============================================================================
