-------------------------- MODULE SettlementProofs --------------------------
(***************************************************************************)
(* Proofs about reconciliation and outcome verification, for every value   *)
(* of the constants: the properties of the gate survive both, what is       *)
(* settled is true, and a verification is never contradicted.              *)
(*                                                                         *)
(* The argument.  A reconcile() or verify_outcome() call works on what it  *)
(* read before it left the lock.  What it relies on afterwards cannot       *)
(* change: terminal evidence, by the downstream system (LedgerForward), and *)
(* a record that is no longer DISPATCHED, but by the one reconciliation     *)
(* that applies (SettledRecord).                                           *)
(***************************************************************************)
EXTENDS GateSettlement, GateProofs

USE EvidenceAssumption, NoneIsNoCall

(* What a step of the gate itself leaves alone: downstream facts that are    *)
(* terminal, and records that are closed.  It never settles an execution.    *)
LEMMA LedgerForward ==
  ASSUME GateInv, Next, NEW e \in Executions
  PROVE  /\ effect[e] \in {"committed", "fenced"} => effect'[e] = effect[e]
         /\ StateOf(e) \in {"ACKNOWLEDGED", "COMMITTED", "NOT_COMMITTED"} =>
              executions'[e] = executions[e]
         /\ StateOf(e)' \in FinalStates => StateOf(e) = StateOf(e)'
<1> DEFINE Forward ==
      /\ effect[e] \in {"committed", "fenced"} => effect'[e] = effect[e]
      /\ StateOf(e) \in {"ACKNOWLEDGED", "COMMITTED", "NOT_COMMITTED"} =>
           executions'[e] = executions[e]
      /\ StateOf(e)' \in FinalStates => StateOf(e) = StateOf(e)'
<1>1. CASE effect'[e] = effect[e] /\ executions'[e] = executions[e] BY <1>1 DEF StateOf
<1>2. CASE Elsewhere BY <1>1, <1>2, ElsewhereKeeps DEF threadVars
<1>3. ASSUME NEW f \in Executions, f # e, Serves(f) PROVE Forward
  BY <1>1, <1>3, OthersUntouched DEF GateInv, CallKept
<1>4. CASE Serves(e)
  <2>1. ASSUME ~Dispatched(e), effect'[e] = effect[e], executions'[e] # None,
               executions'[e].state \in {"NOT_DISPATCHED", "DISPATCHED"}
        PROVE  Forward
    BY <2>1 DEF Dispatched, StateOf, DispatchStates, FinalStates, InFlightStates
  <2>2. pc[e] \in Evaluating \cup {"idle"} => ~Dispatched(e)
    BY DEF GateInv, CallInv, PhaseOK, CallOpen, Dispatched, StateOf, DispatchStates,
           InFlightStates, FinalStates, Evaluating
  <2>3. ASSUME NEW m, NEW a, NEW d, NEW x, pc[e] \in Evaluating \cup {"idle"},
               effect' = effect, Finish(e, NotDispatched(m, a, d, x))
        PROVE  Forward
    <3>1. executions'[e] = NotDispatched(m, a, d, x) BY <2>3 DEF Finish, GateInv, TypeOK
    <3>2. StateOf(e)' \notin FinalStates
      BY <3>1 DEF NotDispatched, StateOf, FinalStates
    <3> QED BY <2>2, <2>3, <3>2
            DEF Dispatched, DispatchStates, FinalStates, InFlightStates
  <2>4. CASE \E m \in Manifests, a \in Approvals \cup {None} : ExecuteStart(e, m, a)
    BY <1>1, <2>4 DEF ExecuteStart, ledgerVars
  <2>5. CASE \E m \in Manifests, a \in Approvals \cup {None},
               d \in {"DENY", "INDETERMINATE"} : ExecuteRefused(e, m, a, d)
    BY <2>3, <2>5 DEF ExecuteRefused
  <2>6. CASE \E d \in Verdicts : Decide(e, d) \/ ReadApproval(e, d) \/ RecheckProfile(e, d)
    BY <1>1, <2>6 DEF Decide, ReadApproval, RecheckProfile, ledgerVars
  <2>7. ASSUME NEW d \in Verdicts, StampDispatch(e, d) PROVE Forward
    <3>1. pc[e] \in Evaluating /\ effect' = effect BY <2>7 DEF StampDispatch, Evaluating
    <3>2. \/ executions' = executions
          \/ Finish(e, NotDispatched(call[e].manifest, call[e].approval,
               Decision(Worse(Worse(call[e].verdict, d), TimeVerdict(call[e], clock))), None))
      BY <2>7 DEF StampDispatch
    <3> QED BY <1>1, <2>3, <3>1, <3>2
  <2>8. CASE AdmitRefused(e)
    <3>1. /\ pc[e] \in Evaluating /\ effect' = effect
          /\ Finish(e, NotDispatched(call[e].manifest, call[e].approval, "DENY",
                                     PriorDispatch(call[e].manifest)))
      BY <2>8 DEF AdmitRefused, Evaluating
    <3> QED BY <2>3, <3>1
  <2>9. CASE Admit(e)
    <3>1. pc[e] \in Evaluating /\ effect' = effect BY <2>9 DEF Admit, Evaluating
    <3>2. executions'[e].state = "DISPATCHED" BY <2>9 DEF Admit, Finish, GateInv, TypeOK
    <3>3. StateOf(e)' \notin FinalStates BY <3>2 DEF StateOf, FinalStates
    <3> QED BY <2>2, <3>1, <3>3 DEF Dispatched, DispatchStates, FinalStates, InFlightStates
  <2>10. CASE CallExecutor(e)
    <3>1. effect[e] = "none" /\ executions' = executions
      BY <2>10 DEF CallExecutor, GateInv, CallInv, PhaseOK, ledgerVars
    <3> QED BY <3>1 DEF StateOf
  <2>11. ASSUME NEW s \in States, ExecutorReturns(e, s) PROVE Forward
    <3>1. /\ StateOf(e) = "DISPATCHED" /\ effect' = effect
          /\ s \in {"ACKNOWLEDGED", "EXECUTION_UNKNOWN", "NOT_ATTEMPTED"}
      BY <2>11 DEF ExecutorReturns, GateInv, CallInv, PhaseOK
    <3>2. executions'[e] = [executions[e] EXCEPT !.state = s, !.completedAt = clock]
      BY <2>11 DEF ExecutorReturns, Finish, GateInv, TypeOK
    <3>3. executions[e] \in ExecutionRecord BY <3>1 DEF StateOf, GateInv, TypeOK
    <3>4. executions'[e].state = s BY <3>2, <3>3 DEF ExecutionRecord
    <3> QED BY <3>1, <3>4 DEF StateOf, FinalStates
  <2>12. CASE \E fate \in {"committed", "fenced"} : Downstream(e, fate)
    <3>1. effect[e] = "inflight" /\ executions' = executions BY <2>12 DEF Downstream, ledgerVars
    <3> QED BY <3>1 DEF StateOf
  <2> QED BY <1>4, <2>4, <2>5, <2>6, <2>7, <2>8, <2>9, <2>10, <2>11, <2>12 DEF Serves, ThreadStep
<1> QED BY <1>2, <1>3, <1>4, NextSplits

(* The two halves of a step: of the gate, or of one reconcile() or            *)
(* verify_outcome() call.                                                    *)
Reconciles(r) == \/ ReconcileStep(r)
                 \/ \E e \in Executions : ReconcileStart(r, e) \/ ReconcileRefused(r, e)
Verifies(v) == \/ VerifyStep(v)
               \/ \E e \in Executions : VerifyStart(v, e) \/ VerifyRefused(v, e)

(* The empty gate satisfies the invariant.                                   *)
LEMMA SettlementInitInv == SettlementInit => SettlementInv
<1> SUFFICES ASSUME SettlementInit PROVE SettlementInv OBVIOUS
<1>1. GateInv BY InitInv DEF SettlementInit
<1>2. SettlementTypeOK BY DEF SettlementInit, SettlementTypeOK
<1>3. \A e \in Executions : StateOf(e) = "none" BY DEF SettlementInit, Init, StateOf
<1>4. \A r \in Reconciliations : ReconcileOK(r) BY DEF SettlementInit, ReconcileOK
<1>5. \A v \in Verifications : VerifyOK(v) BY DEF SettlementInit, VerifyOK
<1>6. SettledByOneReconciliation /\ SettlementIsTrue
  BY <1>3 DEF SettledByOneReconciliation, SettlementIsTrue, SettlementInit, FinalStates
<1>7. VerifiedStands BY DEF VerifiedStands, SettlementInit
<1> QED BY <1>1, <1>2, <1>4, <1>5, <1>6, <1>7 DEF SettlementInv

(* A step of the gate keeps what reconciliation and verification rely on.    *)
LEMMA GateStepSettlement ==
  ASSUME SettlementInv, Next, UNCHANGED <<reconcileVars, verifyVars>>
  PROVE  SettlementInv'
<1> USE DEF SettlementInv
<1>1. GateInv' BY GateInvStep
<1>2. UNCHANGED <<reconciliations, rpc, rcall, outcomes, vpc, vcall>>
  BY DEF reconcileVars, verifyVars
<1>3. SettlementTypeOK' BY <1>2 DEF SettlementTypeOK
<1>4. ASSUME NEW r \in Reconciliations PROVE ReconcileOK(r)'
  <2>1. rcall[r] # None => rcall[r].execution \in Executions
    BY DEF SettlementTypeOK, ReconcileCall
  <2> QED BY <1>2, <2>1, LedgerForward DEF ReconcileOK
<1>5. ASSUME NEW v \in Verifications PROVE VerifyOK(v)'
  <2>1. vcall[v] # None => vcall[v].execution \in Executions
    BY DEF SettlementTypeOK, VerifyCall
  <2>2. ASSUME NEW e \in Executions, StateOf(e) \in {"ACKNOWLEDGED", "COMMITTED"}
        PROVE  StateOf(e)' = StateOf(e) /\ executions'[e] = executions[e]
    BY <2>2, LedgerForward DEF StateOf
  <2> QED BY <1>2, <2>1, <2>2 DEF VerifyOK, ObservedInTime
<1>6. ASSUME NEW e \in Executions
      PROVE  /\ StateOf(e)' \in FinalStates <=> StateOf(e) \in FinalStates
             /\ StateOf(e) \in FinalStates => StateOf(e)' = StateOf(e)
  BY LedgerForward DEF StateOf, FinalStates
<1>7. SettledByOneReconciliation' BY <1>2, <1>6 DEF SettledByOneReconciliation
<1>8. SettlementIsTrue' BY <1>6, LedgerForward DEF SettlementIsTrue, FinalStates
<1>9. VerifiedStands'
  <2> SUFFICES ASSUME NEW v \in Verifications, outcomes[v] # None, outcomes[v].verified
               PROVE  executions'[outcomes[v].execution] = executions[outcomes[v].execution]
    BY <1>2 DEF VerifiedStands, StateOf
  <2>1. outcomes[v].execution \in Executions BY DEF SettlementTypeOK, OutcomeRecord
  <2> QED BY <2>1, LedgerForward DEF VerifiedStands
<1> QED BY <1>1, <1>3, <1>4, <1>5, <1>7, <1>8, <1>9

(* A step that leaves the ledger and verifications alone keeps the parts of  *)
(* the invariant that are about them.                                        *)
LEMMA GatePartKept ==
  ASSUME SettlementInv, UNCHANGED vars
  PROVE  /\ GateInv' /\ SettlementIsTrue'
         /\ \A e \in Executions : StateOf(e)' = StateOf(e)
         /\ UNCHANGED <<clock, executions, history, effect>>
<1>1. GateInv' BY StutterInv DEF SettlementInv
<1>2. UNCHANGED <<clock, executions, history, effect>> BY DEF vars, ledgerVars, threadVars
<1> QED BY <1>1, <1>2 DEF SettlementInv, SettlementIsTrue, StateOf

(* The verification part survives a step that touches no verification and no *)
(* record that is acknowledged or committed.                                 *)
LEMMA VerificationsKept ==
  ASSUME SettlementInv, UNCHANGED verifyVars,
         \A e \in Executions : StateOf(e) \in {"ACKNOWLEDGED", "COMMITTED"} =>
           executions'[e] = executions[e]
  PROVE  (\A v \in Verifications : VerifyOK(v))' /\ VerifiedStands'
<1> USE DEF SettlementInv
<1>1. UNCHANGED <<outcomes, vpc, vcall>> BY DEF verifyVars
<1>2. ASSUME NEW v \in Verifications PROVE VerifyOK(v)'
  <2>1. vcall[v] # None => vcall[v].execution \in Executions
    BY DEF SettlementTypeOK, VerifyCall
  <2>2. ASSUME NEW e \in Executions, StateOf(e) \in {"ACKNOWLEDGED", "COMMITTED"}
        PROVE  StateOf(e)' = StateOf(e) /\ executions'[e] = executions[e]
    BY <2>2 DEF StateOf
  <2> QED BY <1>1, <2>1, <2>2 DEF VerifyOK, ObservedInTime
<1>3. VerifiedStands'
  <2> SUFFICES ASSUME NEW v \in Verifications, outcomes[v] # None, outcomes[v].verified
               PROVE  executions'[outcomes[v].execution] = executions[outcomes[v].execution]
    BY <1>1 DEF VerifiedStands, StateOf
  <2>1. outcomes[v].execution \in Executions BY DEF SettlementTypeOK, OutcomeRecord
  <2> QED BY <2>1 DEF VerifiedStands
<1> QED BY <1>2, <1>3

(* An attempt that is rejected adds a record and changes nothing else.       *)
LEMMA RejectedKeeps ==
  ASSUME SettlementInv, NEW r \in Reconciliations, NEW e \in Executions, rpc[r] # "done",
         RejectReconciliation(r, e), UNCHANGED <<vars, rcall, verifyVars>>
  PROVE  SettlementInv'
<1> USE DEF SettlementInv
<1>1. /\ GateInv' /\ SettlementIsTrue' /\ UNCHANGED <<clock, executions, history, effect>>
      /\ \A f \in Executions : StateOf(f)' = StateOf(f)
  BY GatePartKept
<1>2. StateOf(e) \in States \cup {"none"} BY DEF StateOf, GateInv, TypeOK, ExecutionRecord
<1> DEFINE rec == [execution |-> e, applied |-> FALSE, stateAfter |-> StateOf(e)]
<1>3. reconciliations' = [reconciliations EXCEPT ![r] = rec] /\ rpc' = [rpc EXCEPT ![r] = "done"]
  BY DEF RejectReconciliation
<1>4. rec \in ReconciliationRecord /\ ~rec.applied BY <1>2 DEF ReconciliationRecord
<1> HIDE DEF rec
<1>5. SettlementTypeOK' BY <1>3, <1>4 DEF SettlementTypeOK, verifyVars
<1>6. \A s \in Reconciliations : ReconcileOK(s)'
  BY <1>1, <1>3, <1>4 DEF ReconcileOK, SettlementTypeOK
<1>7. reconciliations[r] = None BY DEF ReconcileOK
<1>8. SettledByOneReconciliation'
  <2> SUFFICES ASSUME NEW s \in Reconciliations
               PROVE  \/ reconciliations'[s] = reconciliations[s]
                      \/ /\ reconciliations[s] = None
                         /\ reconciliations'[s] # None /\ ~reconciliations'[s].applied
    BY <1>1 DEF SettledByOneReconciliation
  <2> QED BY <1>3, <1>4, <1>7 DEF SettlementTypeOK
<1>9. (\A v \in Verifications : VerifyOK(v))' /\ VerifiedStands'
  BY <1>1, VerificationsKept
<1> QED BY <1>1, <1>5, <1>6, <1>8, <1>9

(* Starting an attempt, or reading evidence for it, records nothing yet.     *)
LEMMA EvidenceKeeps ==
  ASSUME SettlementInv, NEW r \in Reconciliations, rpc[r] # "done", NEW c \in ReconcileCall,
         NEW where \in {"reading", "settling"},
         where = "settling" =>
           \/ c.disposition = "COMMITTED" /\ effect[c.execution] = "committed"
           \/ c.disposition = "NOT_COMMITTED" /\ effect[c.execution] = "fenced",
         rcall' = [rcall EXCEPT ![r] = c], rpc' = [rpc EXCEPT ![r] = where],
         UNCHANGED <<vars, reconciliations, verifyVars>>
  PROVE  SettlementInv'
<1> USE DEF SettlementInv
<1>1. /\ GateInv' /\ SettlementIsTrue' /\ UNCHANGED <<clock, executions, history, effect>>
      /\ \A f \in Executions : StateOf(f)' = StateOf(f)
  BY GatePartKept
<1>2. SettlementTypeOK' BY DEF SettlementTypeOK, verifyVars
<1>3. c # None BY DEF ReconcileCall
<1>4. \A s \in Reconciliations : ReconcileOK(s)'
  BY <1>1, <1>3 DEF ReconcileOK, SettlementTypeOK
<1>5. SettledByOneReconciliation' BY <1>1 DEF SettledByOneReconciliation
<1>6. (\A v \in Verifications : VerifyOK(v))' /\ VerifiedStands'
  BY <1>1, VerificationsKept
<1> QED BY <1>1, <1>2, <1>4, <1>5, <1>6

(* The application settles an unknown execution, to what is true downstream, *)
(* and keeps the invariant of the gate.                                      *)
LEMMA ApplyGate ==
  ASSUME SettlementInv, NEW r \in Reconciliations, ReconcileApply(r),
         NEW e, e = rcall[r].execution, NEW d, d = rcall[r].disposition
  PROVE  /\ e \in Executions /\ d \in FinalStates
         /\ StateOf(e) = "EXECUTION_UNKNOWN" /\ StateOf(e)' = d
         /\ d = "COMMITTED" => effect[e] = "committed"
         /\ d = "NOT_COMMITTED" => effect[e] = "fenced"
         /\ executions'[e] \in ExecutionRecord
         /\ executions'[e].state = d
         /\ \A f \in Executions \ {e} : executions'[f] = executions[f]
         /\ GateInv'
<1> USE DEF SettlementInv
<1>1. rcall[r] # None /\ e \in Executions
  BY DEF ReconcileApply, ReconcileOK, SettlementTypeOK, ReconcileCall
<1>2. /\ d = "COMMITTED" => effect[e] = "committed"
      /\ d = "NOT_COMMITTED" => effect[e] = "fenced"
      /\ d \in FinalStates
  BY DEF ReconcileApply, ReconcileOK, FinalStates
<1>3. StateOf(e) = "EXECUTION_UNKNOWN" BY DEF ReconcileApply, StillAsSeen
<1>4. executions[e] # None /\ executions[e] \in ExecutionRecord
  BY <1>1, <1>3 DEF StateOf, GateInv, TypeOK
<1> DEFINE rec == [executions[e] EXCEPT !.state = d]
<1>0. d \in States BY <1>2 DEF States, DispatchStates, FinalStates
<1>5. /\ rec \in ExecutionRecord /\ rec # None
      /\ rec.state = d /\ rec.manifest = executions[e].manifest
      /\ rec.approval = executions[e].approval
      /\ rec.dispatchedAt = executions[e].dispatchedAt
  <2> HIDE DEF SettlementInv
  <2>1. rec \in ExecutionRecord BY <1>0, <1>4 DEF ExecutionRecord
  <2>2. /\ rec.state = d /\ rec.manifest = executions[e].manifest
        /\ rec.approval = executions[e].approval
        /\ rec.dispatchedAt = executions[e].dispatchedAt
    BY <1>4 DEF ExecutionRecord
  <2>3. rec # None BY <2>1, NoneAssumption
  <2> QED BY <2>1, <2>2, <2>3
<1>6. Finish(e, rec) BY DEF ReconcileApply
<1>7. UNCHANGED <<clock, active, registered, manifests, approvals, dispatches,
                  actionDispatches, pc, call, effect>>
  BY DEF ReconcileApply, adminVars, threadVars
<1> HIDE DEF rec
<1>8. executions'[e] = rec /\ \A f \in Executions \ {e} : executions'[f] = executions[f]
  BY <1>1, <1>6 DEF Finish, GateInv, TypeOK
<1>9. StateOf(e)' = d BY <1>5, <1>8 DEF StateOf
<1>10. TypeOK'
  <2>1. /\ executions' \in [Executions -> ExecutionRecord \cup {None}]
        /\ history' \in [Executions -> Seq(States)]
    BY <1>1, <1>5, <1>6, FinishType DEF GateInv
  <2> QED BY <1>7, <2>1 DEF GateInv, TypeOK
<1>11. Kept BY <1>7 DEF Kept, GateInv
<1>12. Dispatched(e) /\ Dispatched(e)'
  BY <1>2, <1>3, <1>9 DEF Dispatched, DispatchStates, InFlightStates
<1>13. CallInv'
  <2>1. ASSUME NEW f \in Executions, f # e PROVE CallOK(f)'
    <3>1. CallKept(f) BY <1>7, <1>8, <2>1 DEF CallKept
    <3> QED BY <1>11, <3>1, OthersKept DEF GateInv, CallInv, CallOK
  <2>2. pc[e] = "done"
    BY <1>1, <1>3, <1>4 DEF GateInv, CallInv, PhaseOK, Evaluating, CallOpen, TypeOK, Steps
  <2>3. PhaseOK(e)' BY <1>2, <1>5, <1>7, <1>8, <1>9, <2>2 DEF PhaseOK, Evaluating, FinalStates
  <2>4. DispatchOK(e)'
    <3>1. Stamped(call[e])'
      BY <1>1, <1>7, <1>11, <1>12, CallStamped DEF GateInv, CallInv, DispatchOK
    <3> QED BY <1>1, <1>5, <1>7, <1>8, <1>12, <3>1 DEF DispatchOK, GateInv, CallInv
  <2>5. EffectOK(e)' BY <1>2, <1>7, <1>9 DEF EffectOK, FinalStates
  <2> QED BY <2>1, <2>3, <2>4, <2>5 DEF CallInv, CallOK
<1>14. ReservationsKept
  <2>1. SameDispatch(e) BY <1>5, <1>8, <1>12 DEF SameDispatch
  <2>2. \A f \in Executions : SameDispatch(f) BY <1>8, <2>1, SameRecordSameDispatch
  <2> QED BY <1>7, <2>2 DEF ReservationsKept
<1>15. GateInv'
  BY <1>10, <1>11, <1>13, <1>14, OneDispatchKept, OneApprovalKept DEF GateInv
<1> QED BY <1>1, <1>2, <1>3, <1>5, <1>8, <1>9, <1>15

(* The application keeps the invariant: the record it settles was nobody's   *)
(* yet, and its evidence is still true.                                      *)
LEMMA ApplyKeeps ==
  ASSUME SettlementInv, NEW r \in Reconciliations, ReconcileApply(r)
  PROVE  SettlementInv'
<1> USE DEF SettlementInv
<1>0. PICK e, d : e = rcall[r].execution /\ d = rcall[r].disposition OBVIOUS
<1> DEFINE rec == [execution |-> e, applied |-> TRUE, stateAfter |-> d]
<1>1. /\ e \in Executions /\ d \in FinalStates
      /\ StateOf(e) = "EXECUTION_UNKNOWN" /\ StateOf(e)' = d
      /\ d = "COMMITTED" => effect[e] = "committed"
      /\ d = "NOT_COMMITTED" => effect[e] = "fenced"
      /\ \A f \in Executions \ {e} : executions'[f] = executions[f]
      /\ GateInv'
  BY <1>0, ApplyGate
<1>2. /\ rpc[r] = "settling" /\ effect' = effect /\ rcall' = rcall /\ UNCHANGED verifyVars
      /\ reconciliations' = [reconciliations EXCEPT ![r] = rec]
      /\ rpc' = [rpc EXCEPT ![r] = "done"]
  BY <1>0 DEF ReconcileApply, threadVars
<1>3. /\ rec \in ReconciliationRecord /\ rec # None
      /\ rec.applied /\ rec.execution = e /\ rec.stateAfter = d
  <2>1. d \in States BY <1>1 DEF States, DispatchStates, FinalStates
  <2>2. rec \in ReconciliationRecord BY <1>1, <2>1 DEF ReconciliationRecord
  <2> QED BY <2>2
<1>4. \A f \in Executions \ {e} : StateOf(f)' = StateOf(f) BY <1>1 DEF StateOf
<1> HIDE DEF rec
<1>5. SettlementTypeOK' BY <1>2, <1>3 DEF SettlementTypeOK, verifyVars
<1>6. \A s \in Reconciliations : ReconcileOK(s)'
  BY <1>2, <1>3 DEF ReconcileOK, SettlementTypeOK
<1>7. /\ reconciliations'[r] = rec
      /\ \A s \in Reconciliations \ {r} : reconciliations'[s] = reconciliations[s]
  BY <1>2 DEF SettlementTypeOK
<1>8. reconciliations[r] = None BY <1>2 DEF ReconcileOK
<1>9. SettledByOneReconciliation'
  <2> DEFINE Applied(f) == {s \in Reconciliations : /\ reconciliations[s] # None
                                                   /\ reconciliations[s].execution = f
                                                   /\ reconciliations[s].applied}
  <2>1. Applied(e) = {} BY <1>1 DEF SettledByOneReconciliation, FinalStates
  <2>2. Applied(e)' = {r} BY <1>3, <1>7, <2>1
  <2>3. \A f \in Executions \ {e} : Applied(f)' = Applied(f) BY <1>3, <1>7, <1>8
  <2>4. \A s \in Reconciliations \ {r} : reconciliations'[s] = reconciliations[s] BY <1>7
  <2>5. ASSUME NEW f \in Executions
        PROVE  /\ StateOf(f)' \in FinalStates <=> Applied(f)' # {}
               /\ \A s \in Applied(f)' : reconciliations'[s].stateAfter = StateOf(f)'
               /\ \A s, t \in Applied(f)' : s = t
    <3>1. CASE f = e BY <1>1, <1>3, <1>7, <2>2, <3>1
    <3>2. CASE f # e
      <4>1. Applied(f)' = Applied(f) /\ r \notin Applied(f) /\ StateOf(f)' = StateOf(f)
        BY <1>4, <1>8, <2>3, <3>2
      <4>2. /\ StateOf(f) \in FinalStates <=> Applied(f) # {}
            /\ \A s \in Applied(f) : reconciliations[s].stateAfter = StateOf(f)
            /\ \A s, t \in Applied(f) : s = t
        BY DEF SettledByOneReconciliation
      <4> QED BY <2>4, <4>1, <4>2
    <3> QED BY <3>1, <3>2
  <2> QED BY <2>5 DEF SettledByOneReconciliation
<1>10. SettlementIsTrue' BY <1>1, <1>2, <1>4 DEF SettlementIsTrue
<1>11. (\A v \in Verifications : VerifyOK(v))' /\ VerifiedStands'
  BY <1>1, <1>2, VerificationsKept
<1> QED BY <1>1, <1>5, <1>6, <1>9, <1>10, <1>11

(* Every step of reconcile() keeps the invariant.                            *)
LEMMA ReconcileKeeps ==
  ASSUME SettlementInv, NEW r \in Reconciliations, Reconciles(r)
  PROVE  SettlementInv'
<1>1. rcall[r] # None => rcall[r] \in ReconcileCall /\ rcall[r].execution \in Executions
  BY DEF SettlementInv, SettlementTypeOK, ReconcileCall
<1>2. rpc[r] \in {"reading", "settling"} => rcall[r] # None
  BY DEF SettlementInv, ReconcileOK
<1>3. ASSUME NEW e \in Executions, ReconcileStart(r, e) PROVE SettlementInv'
  <2> DEFINE c == [execution |-> e, seen |-> Snapshot(e), startedAt |-> clock,
                   disposition |-> None, completedAt |-> None]
  <2>1. clock \in Time /\ Snapshot(e) \in SnapshotRecord
    BY DEF SettlementInv, GateInv, TypeOK, Snapshot, SnapshotRecord
  <2>2. c \in ReconcileCall BY <2>1 DEF ReconcileCall
  <2>3. /\ rpc[r] # "done" /\ rcall' = [rcall EXCEPT ![r] = c]
        /\ rpc' = [rpc EXCEPT ![r] = "reading"] /\ UNCHANGED <<vars, reconciliations, verifyVars>>
    BY <1>3 DEF ReconcileStart
  <2> HIDE DEF c
  <2> QED BY <2>2, <2>3, EvidenceKeeps
<1>4. ASSUME NEW e \in Executions, ReconcileRefused(r, e) PROVE SettlementInv'
  BY <1>4, RejectedKeeps DEF ReconcileRefused
<1>5. ASSUME NEW d \in FinalStates, NEW final \in BOOLEAN, NEW t \in Time,
             ReconcileRead(r, d, final, t)
      PROVE  SettlementInv'
  <2>1. rpc[r] = "reading" /\ UNCHANGED <<vars, verifyVars>> BY <1>5 DEF ReconcileRead
  <2>2. CASE RejectReconciliation(r, rcall[r].execution) /\ UNCHANGED rcall
    BY <1>1, <1>2, <2>1, <2>2, RejectedKeeps
  <2>3. CASE ~(RejectReconciliation(r, rcall[r].execution) /\ UNCHANGED rcall)
    <3> DEFINE c == [rcall[r] EXCEPT !.disposition = d, !.completedAt = clock]
    <3>1. /\ final /\ Truthful(rcall[r].execution, d, final)
          /\ rcall' = [rcall EXCEPT ![r].disposition = d, ![r].completedAt = clock]
          /\ rpc' = [rpc EXCEPT ![r] = "settling"] /\ UNCHANGED reconciliations
      BY <1>5, <2>3 DEF ReconcileRead
    <3>2. rcall[r] \in ReconcileCall /\ clock \in Time
      BY <1>1, <1>2, <2>1 DEF SettlementInv, GateInv, TypeOK
    <3>3. c \in ReconcileCall /\ c.disposition = d /\ c.execution = rcall[r].execution
      BY <3>2 DEF ReconcileCall
    <3>4. rcall' = [rcall EXCEPT ![r] = c] BY <3>1
    <3>5. \/ d = "COMMITTED" /\ effect[rcall[r].execution] = "committed"
          \/ d = "NOT_COMMITTED" /\ effect[rcall[r].execution] = "fenced"
      BY <3>1 DEF Truthful, FinalStates
    <3> HIDE DEF c
    <3> QED BY <2>1, <3>1, <3>3, <3>4, <3>5, EvidenceKeeps
  <2> QED BY <2>2, <2>3
<1>6. CASE ReconcileUnresolved(r)
  BY <1>1, <1>2, <1>6, RejectedKeeps DEF ReconcileUnresolved
<1>7. CASE ReconcileApply(r) BY <1>7, ApplyKeeps
<1>8. CASE ReconcileStale(r)
  BY <1>1, <1>2, <1>8, RejectedKeeps DEF ReconcileStale
<1> QED BY <1>3, <1>4, <1>5, <1>6, <1>7, <1>8 DEF Reconciles, ReconcileStep

(* A step of verify_outcome() keeps the invariant when it keeps the types    *)
(* and what its own phase and its own outcome promise.                       *)
LEMMA VerificationStep ==
  ASSUME SettlementInv, NEW v \in Verifications, UNCHANGED <<vars, reconcileVars>>,
         NEW c \in VerifyCall \cup {None}, vcall' = [vcall EXCEPT ![v] = c],
         NEW where \in {"observing", "concluding", "comparing", "storing", "done"},
         vpc' = [vpc EXCEPT ![v] = where],
         NEW o \in OutcomeRecord \cup {None}, outcomes' = [outcomes EXCEPT ![v] = o],
         VerifyOK(v)',
         o # None /\ o.verified =>
           /\ StateOf(o.execution) \in {"ACKNOWLEDGED", "COMMITTED"}
           /\ o.observedAt # None
           /\ ObservedInTime(executions[o.execution], o.observedAt)
  PROVE  SettlementInv'
<1> USE DEF SettlementInv
<1>1. /\ GateInv' /\ SettlementIsTrue' /\ UNCHANGED <<clock, executions, history, effect>>
      /\ \A f \in Executions : StateOf(f)' = StateOf(f)
  BY GatePartKept
<1>2. UNCHANGED <<reconciliations, rpc, rcall>> BY DEF reconcileVars
<1>3. SettlementTypeOK' BY <1>2 DEF SettlementTypeOK
<1>4. \A r \in Reconciliations : ReconcileOK(r)' BY <1>1, <1>2 DEF ReconcileOK
<1>5. SettledByOneReconciliation' BY <1>1, <1>2 DEF SettledByOneReconciliation
<1>6. ASSUME NEW w \in Verifications, w # v PROVE VerifyOK(w)'
  <2>1. vcall'[w] = vcall[w] /\ vpc'[w] = vpc[w] BY <1>6 DEF SettlementTypeOK
  <2> QED BY <1>1, <2>1 DEF VerifyOK, StateOf, ObservedInTime
<1>7. VerifiedStands'
  <2> SUFFICES ASSUME NEW w \in Verifications, outcomes'[w] # None, outcomes'[w].verified
      PROVE  /\ StateOf(outcomes'[w].execution) \in {"ACKNOWLEDGED", "COMMITTED"}
             /\ outcomes'[w].observedAt # None
             /\ ObservedInTime(executions[outcomes'[w].execution], outcomes'[w].observedAt)
    BY <1>1 DEF VerifiedStands, ObservedInTime, StateOf
  <2>1. CASE w = v BY <2>1 DEF SettlementTypeOK
  <2>2. CASE w # v
    <3>1. outcomes'[w] = outcomes[w] BY <2>2 DEF SettlementTypeOK
    <3> QED BY <3>1 DEF VerifiedStands, ObservedInTime
  <2> QED BY <2>1, <2>2
<1> QED BY <1>1, <1>3, <1>4, <1>5, <1>6, <1>7

(* While a call still works, its outcome is the one stored before.           *)
LEMMA WorkingVerification ==
  ASSUME SettlementInv, NEW v \in Verifications, UNCHANGED <<vars, reconcileVars, outcomes>>,
         NEW c \in VerifyCall, vcall' = [vcall EXCEPT ![v] = c],
         NEW where \in {"observing", "concluding", "comparing", "storing"},
         vpc' = [vpc EXCEPT ![v] = where],
         c.seen.record # None,
         where = "observing" => c.observedAt = None,
         where \in {"concluding", "comparing"} /\ c.observedAt # None =>
           ObservedInTime(c.seen.record, c.observedAt),
         where = "storing" /\ c.verdict =>
           /\ StateOf(c.execution) \in {"ACKNOWLEDGED", "COMMITTED"}
           /\ c.observedAt # None
           /\ ObservedInTime(executions[c.execution], c.observedAt)
  PROVE  SettlementInv'
<1>1. \A e \in Executions : StateOf(e)' = StateOf(e) BY GatePartKept
<1>2. UNCHANGED executions BY GatePartKept
<1>3. vcall'[v] = c /\ vpc'[v] = where BY DEF SettlementInv, SettlementTypeOK
<1>4. c # None /\ c.execution \in Executions BY DEF VerifyCall
<1>5. VerifyOK(v)' BY <1>1, <1>2, <1>3, <1>4 DEF VerifyOK, ObservedInTime
<1>6. outcomes[v] \in OutcomeRecord \cup {None} /\ outcomes' = [outcomes EXCEPT ![v] = outcomes[v]]
  BY DEF SettlementInv, SettlementTypeOK
<1>7. outcomes[v] # None /\ outcomes[v].verified =>
        /\ StateOf(outcomes[v].execution) \in {"ACKNOWLEDGED", "COMMITTED"}
        /\ outcomes[v].observedAt # None
        /\ ObservedInTime(executions[outcomes[v].execution], outcomes[v].observedAt)
  BY DEF SettlementInv, VerifiedStands, ObservedInTime
<1> QED BY <1>5, <1>6, <1>7, VerificationStep

(* A call that ends stores one outcome, true if it is a verification.        *)
LEMMA EndedVerification ==
  ASSUME SettlementInv, NEW v \in Verifications, UNCHANGED <<vars, reconcileVars, vcall>>,
         NEW o \in OutcomeRecord, outcomes' = [outcomes EXCEPT ![v] = o],
         vpc' = [vpc EXCEPT ![v] = "done"],
         o.verified =>
           /\ StateOf(o.execution) \in {"ACKNOWLEDGED", "COMMITTED"}
           /\ o.observedAt # None
           /\ ObservedInTime(executions[o.execution], o.observedAt)
  PROVE  SettlementInv'
<1>1. vpc'[v] = "done" BY DEF SettlementInv, SettlementTypeOK
<1>2. VerifyOK(v)' BY <1>1 DEF VerifyOK
<1>3. vcall[v] \in VerifyCall \cup {None} /\ vcall' = [vcall EXCEPT ![v] = vcall[v]]
  BY DEF SettlementInv, SettlementTypeOK
<1> QED BY <1>2, <1>3, VerificationStep

(* Every step of verify_outcome() keeps the invariant.                       *)
LEMMA VerifyKeeps ==
  ASSUME SettlementInv, NEW v \in Verifications, Verifies(v)
  PROVE  SettlementInv'
<1>1. VerifyOK(v) /\ clock \in Time BY DEF SettlementInv, GateInv, TypeOK
<1>2. vpc[v] \in {"observing", "concluding", "comparing", "storing"} =>
        /\ vcall[v] \in VerifyCall /\ vcall[v].seen.record # None
        /\ vcall[v].execution \in Executions
  BY <1>1 DEF SettlementInv, SettlementTypeOK, VerifyOK, VerifyCall
<1>3. ASSUME NEW e \in Executions, VerifyRefused(v, e) PROVE SettlementInv'
  <2> DEFINE o == [execution |-> e, verified |-> FALSE, observedAt |-> None]
  <2>1. o \in OutcomeRecord /\ ~o.verified BY DEF OutcomeRecord
  <2>2. /\ outcomes' = [outcomes EXCEPT ![v] = o] /\ vpc' = [vpc EXCEPT ![v] = "done"]
        /\ UNCHANGED <<vars, reconcileVars, vcall>>
    BY <1>3 DEF VerifyRefused, StoreOutcome
  <2> HIDE DEF o
  <2> QED BY <2>1, <2>2, EndedVerification
<1>4. ASSUME NEW e \in Executions, VerifyStart(v, e) PROVE SettlementInv'
  <2> DEFINE c == [execution |-> e, seen |-> Snapshot(e), observedAt |-> None,
                   verdict |-> FALSE]
  <2>1. Snapshot(e) \in SnapshotRecord /\ Snapshot(e).record = executions[e]
    BY DEF SettlementInv, GateInv, TypeOK, Snapshot, SnapshotRecord
  <2>2. executions[e] # None BY <1>4 DEF VerifyStart, StateOf, Verifiable
  <2>3. /\ c \in VerifyCall /\ c.seen.record # None /\ c.observedAt = None
    BY <2>1, <2>2 DEF VerifyCall
  <2>4. /\ vcall' = [vcall EXCEPT ![v] = c] /\ vpc' = [vpc EXCEPT ![v] = "observing"]
        /\ UNCHANGED <<vars, reconcileVars, outcomes>>
    BY <1>4 DEF VerifyStart
  <2> HIDE DEF c
  <2> QED BY <2>3, <2>4, WorkingVerification
<1>5. ASSUME NEW answers \in SUBSET BOOLEAN, NEW t \in Time, VerifyObserve(v, answers, t)
      PROVE  SettlementInv'
  <2> DEFINE old == vcall[v]
             c == IF answers = {TRUE} THEN [old EXCEPT !.observedAt = t] ELSE old
  <2>1. /\ vpc[v] = "observing" /\ vpc' = [vpc EXCEPT ![v] = "concluding"]
        /\ UNCHANGED <<vars, reconcileVars, outcomes>>
        /\ answers # {} => Admissible(old, t, clock)
    BY <1>5 DEF VerifyObserve
  <2>2. vcall' = [vcall EXCEPT ![v] = c]
    BY <1>5 DEF VerifyObserve, SettlementInv, SettlementTypeOK
  <2>3. old \in VerifyCall /\ old.seen.record # None /\ old.observedAt = None
    BY <1>1, <1>2, <2>1 DEF VerifyOK
  <2>4. c \in VerifyCall /\ c.seen = old.seen BY <2>3 DEF VerifyCall
  <2>5. c.observedAt # None => answers # {} /\ c.observedAt = t
    BY <2>3 DEF VerifyCall
  <2>6. c.observedAt # None => ObservedInTime(c.seen.record, c.observedAt)
    BY <2>1, <2>4, <2>5 DEF Admissible, ObservedInTime
  <2> HIDE DEF c, old
  <2> QED BY <2>1, <2>2, <2>3, <2>4, <2>6, WorkingVerification
<1>6. CASE VerifyConclude(v)
  <2> DEFINE old == vcall[v]
             c == IF old.observedAt # None /\ ~Fresh(old.observedAt, clock)
                  THEN [old EXCEPT !.observedAt = None] ELSE old
  <2>1. /\ vpc[v] = "concluding" /\ vpc' = [vpc EXCEPT ![v] = "comparing"]
        /\ UNCHANGED <<vars, reconcileVars, outcomes>>
    BY <1>6 DEF VerifyConclude
  <2>2. vcall' = [vcall EXCEPT ![v] = c]
    BY <1>6 DEF VerifyConclude, SettlementInv, SettlementTypeOK
  <2>3. old \in VerifyCall /\ old.seen.record # None
    BY <1>2, <2>1
  <2>4. c \in VerifyCall /\ c.seen = old.seen BY <2>3 DEF VerifyCall
  <2>5. c.observedAt # None => c = old BY <2>3 DEF VerifyCall
  <2>6. c.observedAt # None => ObservedInTime(c.seen.record, c.observedAt)
    BY <1>1, <2>1, <2>5 DEF VerifyOK
  <2> HIDE DEF c, old
  <2> QED BY <2>1, <2>2, <2>3, <2>4, <2>6, WorkingVerification
<1>7. CASE VerifyCompare(v)
  <2> DEFINE old == vcall[v]
             verdict == /\ Snapshot(old.execution) = old.seen /\ old.observedAt # None
                        /\ old.seen.record.state \in {"ACKNOWLEDGED", "COMMITTED"}
             c == [old EXCEPT !.verdict = verdict]
  <2>1. /\ vpc[v] = "comparing" /\ vpc' = [vpc EXCEPT ![v] = "storing"]
        /\ UNCHANGED <<vars, reconcileVars, outcomes>>
    BY <1>7 DEF VerifyCompare
  <2>2. vcall' = [vcall EXCEPT ![v] = c] BY <1>7 DEF VerifyCompare
  <2>3. old \in VerifyCall /\ old.seen.record # None BY <1>2, <2>1
  <2>4. c \in VerifyCall BY <2>3 DEF VerifyCall
  <2>5. /\ c.seen = old.seen /\ c.execution = old.execution
        /\ c.observedAt = old.observedAt /\ c.verdict = verdict
    BY <2>3 DEF VerifyCall
  <2>6. ASSUME verdict
        PROVE  /\ StateOf(old.execution) \in {"ACKNOWLEDGED", "COMMITTED"}
               /\ old.observedAt # None
               /\ ObservedInTime(executions[old.execution], old.observedAt)
    <3>1. executions[old.execution] = old.seen.record BY <2>6 DEF Snapshot
    <3> QED BY <1>1, <2>1, <2>3, <2>6, <3>1 DEF VerifyOK, StateOf
  <2>7. c.verdict =>
          /\ StateOf(c.execution) \in {"ACKNOWLEDGED", "COMMITTED"}
          /\ c.observedAt # None
          /\ ObservedInTime(executions[c.execution], c.observedAt)
    BY <2>5, <2>6
  <2>8. c.seen.record # None BY <2>3, <2>5
  <2> HIDE DEF c, old
  <2> QED BY <2>1, <2>2, <2>4, <2>7, <2>8, WorkingVerification
<1>8. CASE VerifyStore(v)
  <2> DEFINE old == vcall[v]
             o == [execution |-> old.execution, verified |-> old.verdict,
                   observedAt |-> old.observedAt]
  <2>1. /\ vpc[v] = "storing" /\ vpc' = [vpc EXCEPT ![v] = "done"]
        /\ UNCHANGED <<vars, reconcileVars, vcall>>
        /\ outcomes' = [outcomes EXCEPT ![v] = o]
    BY <1>8 DEF VerifyStore, StoreOutcome
  <2>2. o \in OutcomeRecord BY <1>2, <2>1 DEF VerifyCall, OutcomeRecord
  <2>3. o.verified =>
          /\ StateOf(o.execution) \in {"ACKNOWLEDGED", "COMMITTED"}
          /\ o.observedAt # None
          /\ ObservedInTime(executions[o.execution], o.observedAt)
    BY <1>1, <2>1 DEF VerifyOK
  <2> HIDE DEF o
  <2> QED BY <2>1, <2>2, <2>3, EndedVerification
<1> QED BY <1>3, <1>4, <1>5, <1>6, <1>7, <1>8 DEF Verifies, VerifyStep

(* The invariant is inductive.                                               *)
LEMMA SettlementInvStep ==
  ASSUME SettlementInv, [SettlementNext]_settlementVars PROVE SettlementInv'
<1>1. CASE Next /\ UNCHANGED <<reconcileVars, verifyVars>> BY <1>1, GateStepSettlement
<1>2. ASSUME NEW r \in Reconciliations, Reconciles(r) PROVE SettlementInv'
  BY <1>2, ReconcileKeeps
<1>3. ASSUME NEW v \in Verifications, Verifies(v) PROVE SettlementInv'
  BY <1>3, VerifyKeeps
<1>4. CASE UNCHANGED settlementVars
  <2>1. /\ GateInv' /\ SettlementIsTrue' /\ UNCHANGED <<clock, executions, history, effect>>
        /\ \A f \in Executions : StateOf(f)' = StateOf(f)
    BY <1>4, GatePartKept DEF settlementVars
  <2>2. UNCHANGED <<reconciliations, rpc, rcall, outcomes, vpc, vcall>>
    BY <1>4 DEF settlementVars, reconcileVars, verifyVars
  <2>3. (\A v \in Verifications : VerifyOK(v))' /\ VerifiedStands'
    BY <1>4, <2>1, VerificationsKept DEF settlementVars
  <2>4. SettlementTypeOK' /\ (\A r \in Reconciliations : ReconcileOK(r))'
    BY <2>1, <2>2 DEF SettlementInv, SettlementTypeOK, ReconcileOK
  <2>5. SettledByOneReconciliation'
    BY <2>1, <2>2 DEF SettlementInv, SettledByOneReconciliation
  <2> QED BY <2>1, <2>3, <2>4, <2>5 DEF SettlementInv
<1> QED BY <1>1, <1>2, <1>3, <1>4 DEF SettlementNext, Reconciles, Verifies

(* Reconciliation and verification, added to the gate, keep everything the   *)
(* gate promises: GateInv is a part of the invariant.                        *)
THEOREM SettlementInvariant == SettlementSpec => []SettlementInv
BY SettlementInitInv, SettlementInvStep, PTL DEF SettlementSpec

(* Attempts, evidence and outcomes have the shape of the records of          *)
(* reconcile() and verify_outcome().                                         *)
THEOREM SettlementTypes == SettlementSpec => []SettlementTypeOK
<1>1. SettlementInv => SettlementTypeOK BY DEF SettlementInv
<1> QED BY <1>1, SettlementInvariant, PTL

(* reconcile(): however many attempts read the provider at once, exactly one *)
(* settles an execution, and the ledger says what that one says.             *)
THEOREM OneSettlement == SettlementSpec => []SettledByOneReconciliation
<1>1. SettlementInv => SettledByOneReconciliation BY DEF SettlementInv
<1> QED BY <1>1, SettlementInvariant, PTL

(* reconcile(): what is settled is what happened downstream, for ever.       *)
THEOREM TrueSettlement == SettlementSpec => []SettlementIsTrue
<1>1. SettlementInv => SettlementIsTrue BY DEF SettlementInv
<1> QED BY <1>1, SettlementInvariant, PTL

(* verify_outcome(): a stored verification is never contradicted by a later  *)
(* settlement, and its observation was made in time.                         *)
THEOREM StandingVerification == SettlementSpec => []VerifiedStands
<1>1. SettlementInv => VerifiedStands BY DEF SettlementInv
<1> QED BY <1>1, SettlementInvariant, PTL

(* The application of a reconciliation settles the action of its execution   *)
(* in the ledger, once.                                                      *)
LEMMA ApplySettles ==
  ASSUME SettlementInv, NEW r \in Reconciliations, ReconcileApply(r)
  PROVE  \E k \in ActionKeys, s \in Ledger!Settled : Ledger!Settle(k, s)
<1>0. PICK e, d : e = rcall[r].execution /\ d = rcall[r].disposition OBVIOUS
<1> DEFINE k == KeyOf(executions[e].manifest)
<1>1. /\ e \in Executions /\ d \in FinalStates
      /\ StateOf(e) = "EXECUTION_UNKNOWN"
      /\ d = "COMMITTED" => effect[e] = "committed"
      /\ executions'[e].state = d
      /\ \A f \in Executions \ {e} : executions'[f] = executions[f]
  BY <1>0, ApplyGate
<1>2. UNCHANGED <<actionDispatches, effect>> BY DEF ReconcileApply, threadVars
<1>3. Dispatched(e) /\ executions[e].state = "EXECUTION_UNKNOWN"
  BY <1>1 DEF Dispatched, StateOf, DispatchStates, InFlightStates
<1>4. /\ k \in ActionKeys /\ Outcome[k] = "EXECUTION_UNKNOWN"
      /\ Outcome' = [Outcome EXCEPT ![k] = d]
      /\ effect[e] = "none" => Attempted[k] = FALSE
      /\ effect[e] # "none" => Attempted[k] = TRUE
      /\ effect'[e] # "none" => Attempted' = [Attempted EXCEPT ![k] = TRUE]
      /\ effect'[e] = "none" => Attempted' = [Attempted EXCEPT ![k] = FALSE]
  BY <1>1, <1>2, <1>3, LedgerMove DEF SettlementInv
<1> HIDE DEF k
<1>5. Attempted' = [Attempted EXCEPT ![k] = Attempted[k]] BY <1>2, <1>4
<1>6. Attempted' = Attempted BY <1>5 DEF Attempted
<1>7. d \in Ledger!Settled /\ (d = "COMMITTED" => Attempted[k])
  BY <1>1, <1>4 DEF Ledger!Settled, FinalStates
<1>8. Ledger!Settle(k, d) BY <1>4, <1>6, <1>7 DEF Ledger!Settle, Outcome, Attempted
<1> QED BY <1>4, <1>7, <1>8

(* Only the application of a reconciliation is visible in the ledger.        *)
LEMMA SettlementRefinementStep ==
  ASSUME SettlementInv, SettlementInv', [SettlementNext]_settlementVars
  PROVE  [Ledger!LedgerNext]_(Ledger!ledgerVars)
<1>1. CASE Next \/ UNCHANGED vars BY <1>1, RefinementStep DEF SettlementInv
<1>2. CASE \E r \in Reconciliations : ReconcileApply(r)
  BY <1>2, ApplySettles DEF Ledger!LedgerNext
<1>3. CASE UNCHANGED settlementVars BY <1>1, <1>3 DEF settlementVars
<1>4. ASSUME NEW r \in Reconciliations, Reconciles(r) PROVE ReconcileApply(r) \/ UNCHANGED vars
  BY <1>4 DEF Reconciles, ReconcileStep, ReconcileStart, ReconcileRefused, ReconcileRead,
              ReconcileUnresolved, ReconcileStale
<1>5. ASSUME NEW v \in Verifications, Verifies(v) PROVE UNCHANGED vars
  BY <1>5 DEF Verifies, VerifyStep, VerifyStart, VerifyRefused, VerifyObserve,
              VerifyConclude, VerifyCompare, VerifyStore
<1> QED BY <1>1, <1>2, <1>3, <1>4, <1>5 DEF SettlementNext, Reconciles, Verifies

(* With reconcile() and verify_outcome() the gate still implements the       *)
(* action ledger: settling is its fourth move, and nothing undoes any.       *)
THEOREM SettlementImplementsLedger == SettlementSpec => ImplementsLedger
<1>1. SettlementInit => Ledger!LedgerInit BY LedgerInitial DEF SettlementInit
<1> QED BY <1>1, SettlementInitInv, SettlementInvStep, SettlementRefinementStep, PTL
        DEF SettlementSpec, ImplementsLedger, Ledger!LedgerSpec

(* What the gate promises stands beside any number of reconciliations and    *)
(* verifications: one dispatch per action, one approval per dispatch, each   *)
(* inside its windows and reserved before the executor is invoked.           *)
THEOREM GateStands ==
  SettlementSpec => [](/\ OneDispatchPerAction /\ OneApprovalOneDispatch
                       /\ DispatchWithinWindows /\ EffectsAreReserved)
<1>1. GateInv => DispatchWithinWindows
  BY DEF GateInv, CallInv, DispatchOK, Stamped, DispatchWithinWindows
<1>2. GateInv => EffectsAreReserved
  BY DEF GateInv, CallInv, EffectOK, EffectsAreReserved, OneDispatchPerAction, Dispatched,
     DispatchStates
<1>3. SettlementInv => /\ OneDispatchPerAction /\ OneApprovalOneDispatch
                       /\ DispatchWithinWindows /\ EffectsAreReserved
  BY <1>1, <1>2 DEF SettlementInv, GateInv
<1> QED BY <1>3, SettlementInvariant, PTL
=============================================================================
