---------------------------- MODULE ActionLedger ----------------------------
(***************************************************************************)
(* What the gate promises about one business action, whatever its internal *)
(* structure: an action is reserved at most once and for ever, the         *)
(* executor is invoked at most once under that reservation, and what is    *)
(* reported about the invocation only moves forward.  Retries, duplicate   *)
(* manifests, races between callers, crashes and recoveries must all be    *)
(* invisible at this level.  Gate, GateSettlement and ManagedGate implement *)
(* it.                                                                     *)
(***************************************************************************)
CONSTANT Actions                 \* (profile_id, action_id) pairs

VARIABLES outcome,               \* what the ledger says happened to the action
          attempted              \* whether a downstream attempt was ever made

ledgerVars == <<outcome, attempted>>

Reported  == {"ACKNOWLEDGED", "EXECUTION_UNKNOWN", "NOT_ATTEMPTED"}
Settled   == {"COMMITTED", "NOT_COMMITTED"}
Outcomes  == {"none", "DISPATCHED"} \cup Reported \cup Settled

LedgerTypeOK == /\ outcome \in [Actions -> Outcomes]
                /\ attempted \in [Actions -> BOOLEAN]

LedgerInit == /\ outcome = [a \in Actions |-> "none"]
              /\ attempted = [a \in Actions |-> FALSE]

(* The one reservation of the action.  Nothing ever takes it back. *)
Reserve(a) == /\ outcome[a] = "none"
              /\ outcome' = [outcome EXCEPT ![a] = "DISPATCHED"]
              /\ UNCHANGED attempted

(* The one attempt.  A thread that was admitted may still be on its way to  *)
(* the adapter when a recovery has declared its fate unknown, or when the   *)
(* downstream system has already fenced it off.                             *)
Attempt(a) == /\ outcome[a] \in {"DISPATCHED", "EXECUTION_UNKNOWN", "NOT_COMMITTED"}
              /\ ~attempted[a]
              /\ attempted' = [attempted EXCEPT ![a] = TRUE]
              /\ UNCHANGED outcome

Report(a, s) == /\ outcome[a] = "DISPATCHED"
                /\ s = "ACKNOWLEDGED" => attempted[a]
                /\ s = "NOT_ATTEMPTED" => ~attempted[a]
                /\ outcome' = [outcome EXCEPT ![a] = s]
                /\ UNCHANGED attempted

(* A recovery reports every reservation without an answer at once.          *)
Recover == /\ outcome' = [a \in Actions |-> IF outcome[a] = "DISPATCHED"
                                            THEN "EXECUTION_UNKNOWN" ELSE outcome[a]]
           /\ UNCHANGED attempted

(* Only an unknown outcome may be settled, once. *)
Settle(a, s) == /\ outcome[a] = "EXECUTION_UNKNOWN"
                /\ s = "COMMITTED" => attempted[a]
                /\ outcome' = [outcome EXCEPT ![a] = s]
                /\ UNCHANGED attempted

LedgerNext ==
  \/ Recover
  \/ \E a \in Actions :
       \/ Reserve(a)
       \/ Attempt(a)
       \/ \E s \in Reported : Report(a, s)
       \/ \E s \in Settled : Settle(a, s)

LedgerSpec == LedgerInit /\ [][LedgerNext]_ledgerVars
=============================================================================
