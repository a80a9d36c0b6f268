------------------------------- MODULE MCGate -------------------------------
(* Instances of the gate for model checking.                               *)
EXTENDS Gate, TLC
RaceSymmetry == Permutations(Executions) \cup Permutations(Manifests)
=============================================================================
