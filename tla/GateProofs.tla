----------------------------- MODULE GateProofs -----------------------------
(***************************************************************************)
(* Proofs about the gate, for every value of its constants: the inductive  *)
(* invariant GateInv, the safety properties that follow from it, and the   *)
(* refinement of ActionLedger.                                             *)
(*                                                                         *)
(* The argument.  What a call checked early must still hold when it is     *)
(* reserved late.  CallInv says what each phase of a call has established; *)
(* it is kept because a step changes one call only (OthersUntouched) and   *)
(* nothing that a call's checks rest on is ever overwritten (Kept).  The   *)
(* reservation maps and the records then agree because only Admit changes  *)
(* them, in one step, and only when both keys are free.                    *)
(***************************************************************************)
EXTENDS Gate, TLAPS

USE NoneAssumption, TimeAssumption, PolicyAssumption

(* The initial state satisfies the inductive invariant.                      *)
LEMMA InitInv == Init => GateInv
<1> SUFFICES ASSUME Init PROVE GateInv OBVIOUS
<1>1. TypeOK
  <2>1. <<>> \in Seq(States) OBVIOUS
  <2>2. 0 \in Time BY DEF Time
  <2>3. "idle" \in Steps /\ "none" \in Effects BY DEF Steps, Effects
  <2> QED BY <2>1, <2>2, <2>3 DEF Init, TypeOK
<1>2. CallInv
  BY DEF Init, CallInv, PhaseOK, DispatchOK, EffectOK, Evaluating, Dispatched, StateOf,
         DispatchStates, InFlightStates, FinalStates
<1>5. OneDispatchPerAction
        BY DEF Init, OneDispatchPerAction, Dispatched, StateOf, DispatchStates, InFlightStates,
           FinalStates
<1>6. OneApprovalOneDispatch
        BY DEF Init, OneApprovalOneDispatch, Dispatched, StateOf, DispatchStates, InFlightStates,
           FinalStates
<1> HIDE DEF TypeOK
<1> QED BY <1>1, <1>2, <1>5, <1>6 DEF GateInv

(* A refusal written by NotDispatched is a well-typed record.                *)
LEMMA RefusalRecord ==
  ASSUME NEW m \in Manifests, NEW a \in Approvals \cup {None},
         NEW d \in {"ALLOW", "DENY", "INDETERMINATE"}, NEW f \in Executions \cup {None}
  PROVE  NotDispatched(m, a, d, f) \in ExecutionRecord
BY DEF NotDispatched, ExecutionRecord, States

(* Finish keeps the records and the histories well typed.                    *)
LEMMA FinishType ==
  ASSUME TypeOK, NEW e \in Executions, NEW rec \in ExecutionRecord, Finish(e, rec)
  PROVE  /\ executions' \in [Executions -> ExecutionRecord \cup {None}]
         /\ history' \in [Executions -> Seq(States)]
<1>1. rec.state \in States BY DEF ExecutionRecord
<1>2. Append(history[e], rec.state) \in Seq(States) BY <1>1 DEF TypeOK
<1> QED BY <1>2 DEF Finish, TypeOK

(* Every step keeps the types.  The locals of a call are read only in        *)
(* phases in which CallInv says that they exist.                             *)
LEMMA TypeStep == ASSUME TypeOK, CallInv, Next PROVE TypeOK'
<1> USE DEF TypeOK
<1>1. CASE ClockStep BY <1>1 DEF ClockStep, adminVars, ledgerVars, threadVars
<1>2. CASE RegisterExecutor BY <1>2 DEF RegisterExecutor, adminVars, ledgerVars, threadVars
<1>3. ASSUME NEW p \in Profiles, RevokeProfile(p) PROVE TypeOK'
  BY <1>3 DEF RevokeProfile, adminVars, ledgerVars, threadVars
<1>4. ASSUME NEW p \in Profiles, NEW v \in Versions, PublishProfile(p, v) PROVE TypeOK'
  BY <1>4 DEF PublishProfile, adminVars, ledgerVars, threadVars
<1>5. ASSUME NEW m \in Manifests, NEW p \in Profiles, NEW a \in ActionIds, NEW mode \in Modes,
             Propose(m, p, a, mode)
      PROVE TypeOK'
  BY <1>5 DEF Propose, adminVars, threadVars, ManifestRecord
<1>6. ASSUME NEW a \in Approvals, NEW m \in Manifests, NEW who \in SUBSET Principals,
             NEW t \in Time,
             NEW decision \in {"approved", "rejected"}, RecordApproval(a, m, who, t, decision)
      PROVE TypeOK'
  BY <1>6 DEF RecordApproval, adminVars, threadVars, ApprovalRecord
<1>7. ASSUME NEW e \in Executions, NEW m \in Manifests, NEW a \in Approvals \cup {None},
             ExecuteStart(e, m, a)
      PROVE TypeOK'
  BY <1>7 DEF ExecuteStart, adminVars, ledgerVars, CallRecord, Steps, Verdicts
<1>8. ASSUME NEW e \in Executions, NEW m \in Manifests, NEW a \in Approvals \cup {None}, 
         NEW decision \in {"DENY", "INDETERMINATE"}, ExecuteRefused(e, m, a, decision)
      PROVE TypeOK'
  BY <1>8 DEF ExecuteRefused, adminVars, Finish, NotDispatched, ExecutionRecord, Steps, States
<1>9. ASSUME NEW e \in Executions, NEW d \in Verdicts, Decide(e, d) PROVE TypeOK'
  <2>1. call[e] \in CallRecord BY <1>9 DEF Decide, CallInv, PhaseOK, CallOpen, Evaluating
  <2>2. Worse(call[e].verdict, d) \in Verdicts BY DEF Worse, Verdicts
  <2>3. ValidUntil(call[e].manifest, call[e].at) \in Nat 
    BY <1>9, <2>1 DEF Decide, CallInv, PhaseOK, CallOpen, Evaluating, ValidUntil, ReviewExpires,
       CallRecord, ManifestRecord, Time
  <2> QED BY <1>9, <2>1, <2>2, <2>3 DEF Decide, adminVars, ledgerVars, CallRecord, Steps
<1>10. ASSUME NEW e \in Executions, NEW d \in Verdicts, ReadApproval(e, d) PROVE TypeOK'
  <2>1. call[e] \in CallRecord BY <1>10 DEF ReadApproval, CallInv, PhaseOK, CallOpen, Evaluating
  <2>2. Worse(call[e].verdict, d) \in Verdicts BY DEF Worse, Verdicts
  <2> QED BY <1>10, <2>1, <2>2 DEF ReadApproval, adminVars, ledgerVars, CallRecord, Steps
<1>11. ASSUME NEW e \in Executions, NEW d \in Verdicts, RecheckProfile(e, d) PROVE TypeOK'
  <2>1. call[e] \in CallRecord BY <1>11 DEF RecheckProfile, CallInv, PhaseOK, CallOpen, Evaluating
  <2>2. Worse(call[e].verdict, d) \in Verdicts BY DEF Worse, Verdicts
  <2> QED BY <1>11, <2>1, <2>2 DEF RecheckProfile, adminVars, ledgerVars, CallRecord, Steps
<1>12. ASSUME NEW e \in Executions, NEW d \in Verdicts, StampDispatch(e, d) PROVE TypeOK'
  <2>1. call[e] \in CallRecord BY <1>12 DEF StampDispatch, CallInv, PhaseOK, CallOpen, Evaluating
  <2> DEFINE v == Worse(Worse(call[e].verdict, d), TimeVerdict(call[e], clock))
  <2>2. v \in Verdicts BY DEF Worse, Verdicts
  <2>3. call' \in [Executions -> CallRecord \cup {None}]
    BY <1>12, <2>1, <2>2 DEF StampDispatch, CallRecord
  <2>4. pc' \in [Executions -> Steps] BY <1>12 DEF StampDispatch, Steps
  <2>5. /\ executions' \in [Executions -> ExecutionRecord \cup {None}]
        /\ history' \in [Executions -> Seq(States)]
    <3> DEFINE rec == NotDispatched(call[e].manifest, call[e].approval, Decision(v), None)
    <3>1. rec \in ExecutionRecord
      BY <2>1, RefusalRecord DEF CallRecord, Decision
    <3>2. CASE Finish(e, rec)
      BY <3>1, <3>2, FinishType
    <3>3. CASE UNCHANGED <<executions, history>>
      BY <3>3
    <3> QED BY <1>12, <3>2, <3>3 DEF StampDispatch
  <2> QED BY <1>12, <2>3, <2>4, <2>5 DEF StampDispatch, adminVars
<1>13. ASSUME NEW e \in Executions, Admit(e) PROVE TypeOK'
  <2>1. call[e] \in CallRecord /\ Stamped(call[e])
    BY <1>13 DEF Admit, CallInv, PhaseOK, CallOpen, Evaluating
  <2>2. approvals' \in [Approvals -> ApprovalRecord \cup {None}]
    <3> DEFINE a == call[e].approval
    <3>1. CASE NeedsApproval(call[e].manifest)
      <4>1. a \in Approvals /\ approvals[a] \in ApprovalRecord
        BY <2>1, <3>1 DEF CallRecord, Stamped, ApprovalHolds
      <4>2. [approvals[a] EXCEPT !.consumedBy = e] \in ApprovalRecord
        BY <4>1 DEF ApprovalRecord
      <4>3. approvals' = [approvals EXCEPT ![a] = [approvals[a] EXCEPT !.consumedBy = e]]
        BY <1>13, <3>1 DEF Admit
      <4> QED BY <4>1, <4>2, <4>3
    <3>2. CASE ~NeedsApproval(call[e].manifest)
      BY <1>13, <3>2 DEF Admit
    <3> QED BY <3>1, <3>2
  <2>3. KeyOf(call[e].manifest) \in ActionKeys
    BY <2>1 DEF Stamped, CallRecord, KeyOf, ActionKeys, ManifestRecord
  <2>4. /\ executions' \in [Executions -> ExecutionRecord \cup {None}]
        /\ history' \in [Executions -> Seq(States)]
    BY <1>13, <2>1 DEF Admit, Finish, ExecutionRecord, States, DispatchStates, InFlightStates,
       CallRecord
  <2>5. /\ dispatches' \in [Manifests -> Executions \cup {None}]
        /\ actionDispatches' \in [ActionKeys -> Executions \cup {None}]
        /\ pc' \in [Executions -> Steps]
    BY <1>13, <2>1, <2>3 DEF Admit, CallRecord, Steps
  <2> QED BY <1>13, <2>2, <2>4, <2>5 DEF Admit, adminVars
<1>14. ASSUME NEW e \in Executions, AdmitRefused(e) PROVE TypeOK'
  <2>1. call[e] \in CallRecord /\ Stamped(call[e])
    BY <1>14 DEF AdmitRefused, CallInv, PhaseOK, CallOpen, Evaluating
  <2>2. PriorDispatch(call[e].manifest) \in Executions \cup {None}
    BY <2>1 DEF Stamped, CallRecord, KeyOf, ActionKeys, ManifestRecord, PriorDispatch
  <2>4. /\ executions' \in [Executions -> ExecutionRecord \cup {None}]
        /\ history' \in [Executions -> Seq(States)]
    BY <1>14, <2>1, <2>2 DEF AdmitRefused, Finish, NotDispatched, ExecutionRecord, States,
       CallRecord
  <2> QED BY <1>14, <2>4 DEF AdmitRefused, adminVars, Steps
<1>15. ASSUME NEW e \in Executions, CallExecutor(e) PROVE TypeOK'
  BY <1>15 DEF CallExecutor, adminVars, ledgerVars, Effects, Steps
<1>16. ASSUME NEW e \in Executions, NEW s \in States, ExecutorReturns(e, s) PROVE TypeOK'
  <2>1. executions[e] \in ExecutionRecord
    BY <1>16 DEF ExecutorReturns, CallInv, PhaseOK, StateOf
  <2>2. [executions[e] EXCEPT !.state = s, !.completedAt = clock] \in ExecutionRecord
    BY <2>1 DEF ExecutionRecord
  <2>3. /\ executions' \in [Executions -> ExecutionRecord \cup {None}]
        /\ history' \in [Executions -> Seq(States)]
    BY <1>16, <2>2, FinishType DEF ExecutorReturns
  <2>4. pc' \in [Executions -> Steps] BY <1>16 DEF ExecutorReturns, Steps
  <2> QED BY <1>16, <2>3, <2>4 DEF ExecutorReturns, adminVars
<1>17. ASSUME NEW e \in Executions, NEW fate \in {"committed", "fenced"},
              Downstream(e, fate) PROVE TypeOK'
  BY <1>17 DEF Downstream, adminVars, ledgerVars, Effects
<1> HIDE DEF TypeOK
<1> QED BY <1>1, <1>2, <1>3, <1>4, <1>5, <1>6, <1>7, <1>8, <1>9, <1>10, <1>11, <1>12, <1>13,
           <1>14, <1>15, <1>16, <1>17
   DEF Next, Administer, Request, ThreadStep

(* manifests are never overwritten, approvals only ever become consumed *)
Kept == /\ \A m \in Manifests : manifests[m] # None => manifests'[m] = manifests[m]
        /\ \A a \in Approvals : approvals[a] # None =>
             /\ approvals'[a] # None
             /\ approvals'[a].manifest = approvals[a].manifest
             /\ approvals'[a].approvedBy = approvals[a].approvedBy
             /\ approvals'[a].at = approvals[a].at
             /\ approvals'[a].decision = approvals[a].decision

CallKept(e) == /\ pc'[e] = pc[e]
               /\ call'[e] = call[e]
               /\ executions'[e] = executions[e]
               /\ effect'[e] = effect[e]

(* What a stamped call was authorised for stays true while its locals are    *)
(* kept: nothing it rests on is ever overwritten.                            *)
LEMMA CallStamped ==
  ASSUME TypeOK, Kept, NEW e \in Executions, call'[e] = call[e], call[e] # None, Stamped(call[e])
  PROVE  Stamped(call[e])'
<1>1. call[e] \in CallRecord BY DEF TypeOK
<1> QED BY <1>1 DEF Stamped, ReviewExpires, ApprovalHolds, Kept, TypeOK, CallRecord,
           NeedsApproval, ApprovalValid

(* A call that a step leaves alone keeps its part of the invariant.          *)
LEMMA OthersKept ==
  ASSUME TypeOK, Kept, NEW e \in Executions, PhaseOK(e), DispatchOK(e), EffectOK(e), CallKept(e)
  PROVE  PhaseOK(e)' /\ DispatchOK(e)' /\ EffectOK(e)'
<1>1. StateOf(e)' = StateOf(e) BY DEF CallKept, StateOf
<1>2. call[e] # None => call[e] \in CallRecord BY DEF TypeOK
<1>3. CallOpen(e) => CallOpen(e)' BY <1>2 DEF CallOpen, CallKept, Kept, CallRecord
<1>4. CallOpen(e) /\ DecisionHolds(call[e]) => DecisionHolds(call[e])'
  BY <1>2 DEF CallOpen, CallKept, Kept, CallRecord, DecisionHolds, ValidUntil, ReviewExpires
<1>5. ASSUME CallOpen(e), ApprovalHolds(call[e], call[e].at),
             NeedsApproval(call[e].manifest) =>
                /\ call[e].entry # None
                /\ call[e].entry.at = approvals[call[e].approval].at
      PROVE  (/\ ApprovalHolds(call[e], call[e].at)
              /\ NeedsApproval(call[e].manifest) =>
                   /\ call[e].entry # None
                   /\ call[e].entry.at = approvals[call[e].approval].at)'
  <2>1. call'[e] = call[e] /\ call[e] \in CallRecord /\ manifests[call[e].manifest] # None
    BY <1>5, <1>2 DEF CallOpen, CallKept
  <2>2. ApprovalHolds(call[e], call[e].at)'
    BY <2>1, <1>5 DEF ApprovalHolds, Kept, TypeOK, CallRecord, NeedsApproval, ApprovalValid,
       ReviewExpires
  <2>3. NeedsApproval(call[e].manifest)' => NeedsApproval(call[e].manifest)
    BY <2>1 DEF NeedsApproval, Kept, CallRecord
  <2>4. NeedsApproval(call[e].manifest) => approvals'[call[e].approval].at = approvals[call[e].approval].at
    BY <2>1, <1>5 DEF ApprovalHolds, Kept, CallRecord
  <2> QED BY <2>1, <2>2, <2>3, <2>4, <1>5
<1>6. call[e] # None /\ Stamped(call[e]) => Stamped(call[e])'
  BY CallStamped DEF CallKept
<1>7. pc[e] = "stamped" => CallOpen(e) /\ call[e] # None BY DEF PhaseOK, Evaluating, CallOpen
<1>8. PhaseOK(e)'
  BY <1>1, <1>3, <1>4, <1>5, <1>6, <1>7 DEF PhaseOK, CallKept, Evaluating
<1>9. DispatchOK(e)' BY <1>1, <1>6 DEF DispatchOK, CallKept, Dispatched
<1>10. EffectOK(e)' BY <1>1 DEF EffectOK, CallKept
<1> QED BY <1>8, <1>9, <1>10


Elsewhere == \/ Administer
             \/ \E m \in Manifests, p \in Profiles, a \in ActionIds, mode \in Modes :
                  Propose(m, p, a, mode)
             \/ \E a \in Approvals, m \in Manifests, who \in SUBSET Principals, t \in Time,
                   decision \in {"approved", "rejected"} : RecordApproval(a, m, who, t, decision)

Serves(e) == \/ \E m \in Manifests, a \in Approvals \cup {None} :
                  \/ ExecuteStart(e, m, a)
                  \/ \E decision \in {"DENY", "INDETERMINATE"} : ExecuteRefused(e, m, a, decision)
             \/ ThreadStep(e)
             \/ \E fate \in {"committed", "fenced"} : Downstream(e, fate)

(* Every step is an administrative one or serves exactly one call.           *)
LEMMA NextSplits == Next <=> Elsewhere \/ \E e \in Executions : Serves(e)
BY DEF Next, Request, Elsewhere, Serves

(* Administration, proposals and approvals touch no call and no reservation. *)
LEMMA ElsewhereKeeps ==
  ASSUME Elsewhere
  PROVE  UNCHANGED <<threadVars, executions, dispatches, actionDispatches>>
<1>1. CASE Administer
  BY <1>1 DEF Administer, ClockStep, RegisterExecutor, RevokeProfile, PublishProfile, threadVars,
     ledgerVars
<1>2. CASE ~Administer
  BY <1>2 DEF Elsewhere, Propose, RecordApproval, threadVars, ledgerVars
<1> QED BY <1>1, <1>2

(* A step that serves one call leaves every other call alone.                *)
LEMMA OthersUntouched ==
  ASSUME TypeOK, NEW e \in Executions, Serves(e), NEW f \in Executions \ {e}
  PROVE  CallKept(f)
<1>1. CASE \E m \in Manifests, a \in Approvals \cup {None} : ExecuteStart(e, m, a)
  BY <1>1 DEF ExecuteStart, CallKept, ledgerVars, TypeOK
<1>2. CASE \E m \in Manifests, a \in Approvals \cup {None},
        decision \in {"DENY", "INDETERMINATE"} :
             ExecuteRefused(e, m, a, decision)
  BY <1>2 DEF ExecuteRefused, Finish, CallKept, TypeOK
<1>3. CASE \E d \in Verdicts : Decide(e, d) \/ ReadApproval(e, d) \/ RecheckProfile(e, d)
  BY <1>3 DEF Decide, ReadApproval, RecheckProfile, CallKept, ledgerVars, TypeOK
<1>4. CASE \E d \in Verdicts : StampDispatch(e, d)
  BY <1>4 DEF StampDispatch, Finish, CallKept, TypeOK
<1>5. CASE Admit(e) BY <1>5 DEF Admit, Finish, CallKept, TypeOK
<1>6. CASE AdmitRefused(e) BY <1>6 DEF AdmitRefused, Finish, CallKept, TypeOK
<1>7. CASE CallExecutor(e) BY <1>7 DEF CallExecutor, CallKept, ledgerVars, TypeOK
<1>8. CASE \E s \in States : ExecutorReturns(e, s)
        BY <1>8 DEF ExecutorReturns, Finish, CallKept, TypeOK
<1>9. CASE \E fate \in {"committed", "fenced"} : Downstream(e, fate)
  BY <1>9 DEF Downstream, CallKept, ledgerVars, TypeOK
<1> QED BY <1>1, <1>2, <1>3, <1>4, <1>5, <1>6, <1>7, <1>8, <1>9 DEF Serves, ThreadStep
(* No step overwrites a manifest or the substance of an approval.            *)
LEMMA KeptStep == ASSUME TypeOK, CallInv, Next PROVE Kept
<1>1. CASE UNCHANGED <<manifests, approvals>>
  BY <1>1 DEF Kept
<1>2. ASSUME NEW m \in Manifests, NEW p \in Profiles, NEW a \in ActionIds, NEW mode \in Modes,
             Propose(m, p, a, mode)
      PROVE Kept
  BY <1>2 DEF Propose, Kept, TypeOK
<1>3. ASSUME NEW a \in Approvals, NEW m \in Manifests, NEW who \in SUBSET Principals,
             NEW t \in Time,
             NEW decision \in {"approved", "rejected"}, RecordApproval(a, m, who, t, decision)
      PROVE Kept
  BY <1>3 DEF RecordApproval, Kept, TypeOK
<1>4. ASSUME NEW e \in Executions, Admit(e) PROVE Kept
  <2>1. call[e] \in CallRecord /\ Stamped(call[e])
    BY <1>4 DEF Admit, CallInv, PhaseOK, CallOpen, Evaluating, TypeOK
  <2>2. CASE ~NeedsApproval(call[e].manifest)
    BY <1>4, <2>2 DEF Admit, Kept
  <2>3. CASE NeedsApproval(call[e].manifest)
    <3> DEFINE a == call[e].approval
    <3>1. a \in Approvals /\ approvals[a] \in ApprovalRecord
      BY <2>1, <2>3 DEF CallRecord, Stamped, ApprovalHolds, TypeOK
    <3>2. approvals' = [approvals EXCEPT ![a] = [approvals[a] EXCEPT !.consumedBy = e]]
      BY <1>4, <2>3 DEF Admit
    <3>3. [approvals[a] EXCEPT !.consumedBy = e] # None BY <3>1 DEF ApprovalRecord
    <3>4. manifests' = manifests BY <1>4 DEF Admit
    <3> QED BY <3>1, <3>2, <3>3, <3>4 DEF Kept, TypeOK, ApprovalRecord
  <2> QED BY <2>2, <2>3
<1>5. ASSUME Administer PROVE Kept
  BY <1>1, <1>5 DEF Administer, ClockStep, RegisterExecutor, RevokeProfile, PublishProfile,
     ledgerVars
<1>6. ASSUME NEW e \in Executions, Serves(e), ~Admit(e) PROVE Kept
  <2>1. CASE \E m \in Manifests, a \in Approvals \cup {None} :
               \/ ExecuteStart(e, m, a)
               \/ \E decision \in {"DENY", "INDETERMINATE"} : ExecuteRefused(e, m, a, decision)
    BY <1>1, <2>1 DEF ExecuteStart, ExecuteRefused, ledgerVars
  <2>2. CASE \E d \in Verdicts : \/ Decide(e, d) \/ ReadApproval(e, d)
                                \/ RecheckProfile(e, d) \/ StampDispatch(e, d)
    BY <1>1, <2>2 DEF Decide, ReadApproval, RecheckProfile, StampDispatch, ledgerVars
  <2>3. CASE \/ AdmitRefused(e) \/ CallExecutor(e) \/ \E s \in States : ExecutorReturns(e, s)
             \/ \E fate \in {"committed", "fenced"} : Downstream(e, fate)
    BY <1>1, <2>3 DEF AdmitRefused, CallExecutor, ExecutorReturns, Downstream, ledgerVars
  <2> QED BY <1>6, <2>1, <2>2, <2>3 DEF Serves, ThreadStep
<1> QED BY <1>2, <1>3, <1>4, <1>5, <1>6, NextSplits DEF Elsewhere

(* The acting call, action by action. *)
CallOK(e) == PhaseOK(e) /\ DispatchOK(e) /\ EffectOK(e)

(* A call that ends in a refusal satisfies its part of the invariant.        *)
LEMMA RefusedCall ==
  ASSUME TypeOK, NEW e \in Executions, CallOK(e),
         pc[e] \in Evaluating \cup {"idle"},
         NEW m \in Manifests, NEW a \in Approvals \cup {None},
         NEW d \in {"ALLOW", "DENY", "INDETERMINATE"}, NEW f \in Executions \cup {None},
         Finish(e, NotDispatched(m, a, d, f)),
         pc'[e] = "done", effect'[e] = effect[e]
  PROVE  CallOK(e)'
<1>1. executions'[e] = NotDispatched(m, a, d, f) BY DEF Finish, TypeOK
<1>2. executions'[e] # None BY <1>1, RefusalRecord
<1>3. StateOf(e)' = "NOT_DISPATCHED" BY <1>1, <1>2 DEF NotDispatched, StateOf
<1>4. effect'[e] = "none" BY DEF CallOK, PhaseOK, CallOpen
<1> QED BY <1>2, <1>3, <1>4 DEF CallOK, PhaseOK, DispatchOK, EffectOK, Dispatched, DispatchStates,
     InFlightStates, FinalStates, Evaluating

(* The end of the authority of a decision is a time.                         *)
LEMMA ValidUntilType ==
  ASSUME TypeOK, NEW m \in Manifests, manifests[m] # None, NEW at \in Time
  PROVE  ValidUntil(m, at) \in Nat
BY DEF TypeOK, ValidUntil, ReviewExpires, ManifestRecord, Time

(* A call under evaluation has locals and an existing manifest.              *)
LEMMA OpenCall ==
  ASSUME TypeOK, NEW e \in Executions, CallOK(e), pc[e] \in Evaluating
  PROVE  /\ CallOpen(e)
         /\ call[e] \in CallRecord
         /\ manifests[call[e].manifest] \in ManifestRecord
BY DEF CallOK, PhaseOK, CallOpen, TypeOK, CallRecord

(* a call that is open and not past its checks owes no more than its phase *)
LEMMA OpenStep ==
  ASSUME NEW e \in Executions, CallOpen(e)',
         pc'[e] \in Evaluating,
         pc'[e] \in {"decided", "approved", "rechecked"} /\ call'[e].verdict = "ok" =>
            DecisionHolds(call[e])',
         pc'[e] \in {"approved", "rechecked"} /\ call'[e].verdict = "ok" =>
            (/\ ApprovalHolds(call[e], call[e].at)
             /\ NeedsApproval(call[e].manifest) =>
                  /\ call[e].entry # None
                  /\ call[e].entry.at = approvals[call[e].approval].at)',
         pc'[e] = "stamped" => Stamped(call[e])'
  PROVE  CallOK(e)'
BY DEF CallOK, PhaseOK, DispatchOK, EffectOK, CallOpen, Evaluating, Dispatched, StateOf,
       DispatchStates, InFlightStates, FinalStates

(* ExecuteStart opens the call.                                              *)
LEMMA StartCall ==
  ASSUME TypeOK, NEW e \in Executions, CallOK(e), NEW m \in Manifests,
         NEW a \in Approvals \cup {None}, ExecuteStart(e, m, a)
  PROVE  CallOK(e)'
<1>1. call'[e] = [manifest |-> m, approval |-> a, at |-> clock, entry |-> None,
        validUntil |-> None,
                  dispatchTime |-> None,
                  verdict |-> IF manifests[m].mode = "recommend" \/ clock >= ReviewExpires(m)
                              THEN "denied" ELSE "ok"]
  BY DEF ExecuteStart, TypeOK
<1>2. call'[e] \in CallRecord BY <1>1 DEF CallRecord, TypeOK, Verdicts
<1>3. call'[e] # None BY <1>2
<1>4. CallOpen(e)' BY <1>1, <1>3 DEF CallOpen, ExecuteStart, ledgerVars, CallOK, PhaseOK
<1>5. pc'[e] = "started" BY DEF ExecuteStart, TypeOK
<1> QED BY <1>4, <1>5, OpenStep DEF Evaluating

(* After Decide, an untainted call holds the authority of its decision.      *)
LEMMA DecideCall ==
  ASSUME TypeOK, NEW e \in Executions, CallOK(e), NEW d \in Verdicts, Decide(e, d)
  PROVE  CallOK(e)'
<1>1. CallOpen(e) /\ call[e] \in CallRecord /\ pc[e] = "started" 
  BY OpenCall DEF Decide, Evaluating
<1>2. call'[e] = [call[e] EXCEPT !.verdict = Worse(@, d),
           !.validUntil = IF d = "ok" THEN ValidUntil(call[e].manifest, call[e].at) ELSE None]
  BY <1>1 DEF Decide, TypeOK
<1>3. /\ call'[e].manifest = call[e].manifest
      /\ call'[e].at = call[e].at
      /\ call'[e].verdict = Worse(call[e].verdict, d)
      /\ call'[e].validUntil = IF d = "ok" THEN ValidUntil(call[e].manifest, call[e].at) ELSE None
  BY <1>1, <1>2 DEF CallRecord
<1>4. pc'[e] = "decided" BY DEF Decide, TypeOK
<1>5. call'[e] # None
  <2>1. Worse(call[e].verdict, d) \in Verdicts BY DEF Worse, Verdicts
  <2>2. ValidUntil(call[e].manifest, call[e].at) \in Nat
    BY <1>1, ValidUntilType DEF CallOpen, CallRecord
  <2>3. call'[e] \in CallRecord BY <1>1, <1>2, <2>1, <2>2 DEF CallRecord
  <2> QED BY <2>3
<1>6. CallOpen(e)' BY <1>1, <1>3, <1>5 DEF CallOpen, Decide, ledgerVars
<1>7. call'[e].verdict = "ok" => d = "ok" BY <1>3 DEF Worse, Verdicts
<1>8. call'[e].verdict = "ok" => DecisionHolds(call[e])'
  BY <1>3, <1>7 DEF DecisionHolds, ValidUntil, ReviewExpires, Decide, ledgerVars
<1> QED BY <1>4, <1>6, <1>8, OpenStep DEF Evaluating

(* After ReadApproval, an untainted call holds a valid approval, if its      *)
(* manifest needs one.                                                       *)
LEMMA ReadApprovalCall ==
  ASSUME TypeOK, NEW e \in Executions, CallOK(e), NEW d \in Verdicts, ReadApproval(e, d)
  PROVE  CallOK(e)'
<1> DEFINE m == call[e].manifest
           a == call[e].approval
           entry == IF a = None THEN None ELSE approvals[a]
<1>1. CallOpen(e) /\ call[e] \in CallRecord /\ pc[e] = "decided"
  BY OpenCall DEF ReadApproval, Evaluating
<1>2. call'[e] = [call[e] EXCEPT !.entry = entry, !.verdict = Worse(@, d)]
  BY <1>1 DEF ReadApproval, TypeOK
<1>3. /\ call'[e].manifest = m /\ call'[e].approval = a /\ call'[e].entry = entry
      /\ call'[e].at = call[e].at
      /\ call'[e].verdict = Worse(call[e].verdict, d)
      /\ call'[e].validUntil = call[e].validUntil
  BY <1>1, <1>2 DEF CallRecord
<1>4. pc'[e] = "approved" BY DEF ReadApproval, TypeOK
<1>5. call'[e] # None
  <2>1. Worse(call[e].verdict, d) \in Verdicts BY DEF Worse, Verdicts
  <2>2. entry \in ApprovalRecord \cup {None} BY <1>1 DEF CallRecord, TypeOK
  <2>3. call'[e] \in CallRecord BY <1>1, <1>2, <2>1, <2>2 DEF CallRecord
  <2> QED BY <2>3
<1>6. CallOpen(e)' BY <1>1, <1>3, <1>5 DEF CallOpen, ReadApproval, ledgerVars
<1>7. call'[e].verdict = "ok" => d = "ok" /\ call[e].verdict = "ok"
  BY <1>1, <1>3 DEF Worse, Verdicts, CallRecord
<1>8. call'[e].verdict = "ok" => DecisionHolds(call[e])'
  <2>1. call[e].verdict = "ok" => DecisionHolds(call[e]) BY <1>1 DEF CallOK, PhaseOK
  <2> QED BY <1>3, <1>7, <2>1 DEF DecisionHolds, ValidUntil, ReviewExpires, ReadApproval,
             ledgerVars
<1>9. d = "ok" /\ NeedsApproval(m) => entry # None /\ ApprovalValid(m, entry, call[e].at)
  BY DEF ReadApproval
<1>10. UNCHANGED <<manifests, approvals>> BY DEF ReadApproval, ledgerVars
<1>11. NeedsApproval(m)' = NeedsApproval(m) BY <1>10, <1>3 DEF NeedsApproval
<1>12. call'[e].verdict = "ok" =>
        (/\ ApprovalHolds(call[e], call[e].at)
         /\ NeedsApproval(call[e].manifest) =>
                  /\ call[e].entry # None
                  /\ call[e].entry.at = approvals[call[e].approval].at)'
  BY <1>3, <1>7, <1>9, <1>10 DEF ApprovalHolds, ApprovalValid, ReviewExpires, NeedsApproval
<1> HIDE DEF m, a, entry
<1> QED BY <1>4, <1>6, <1>8, <1>12, OpenStep DEF Evaluating

(* RecheckProfile keeps what the earlier checks established.                 *)
LEMMA RecheckCall ==
  ASSUME TypeOK, NEW e \in Executions, CallOK(e), NEW d \in Verdicts, RecheckProfile(e, d)
  PROVE  CallOK(e)'
<1>1. CallOpen(e) /\ call[e] \in CallRecord /\ pc[e] = "approved"
  BY OpenCall DEF RecheckProfile, Evaluating
<1>2. call'[e] = [call[e] EXCEPT !.verdict = Worse(@, d)]
  BY <1>1 DEF RecheckProfile, TypeOK
<1>3. /\ call'[e].manifest = call[e].manifest /\ call'[e].approval = call[e].approval
      /\ call'[e].entry = call[e].entry
      /\ call'[e].at = call[e].at
      /\ call'[e].verdict = Worse(call[e].verdict, d)
      /\ call'[e].validUntil = call[e].validUntil
  BY <1>1, <1>2 DEF CallRecord
<1>4. pc'[e] = "rechecked" BY DEF RecheckProfile, TypeOK
<1>5. call'[e] # None
  <2>1. Worse(call[e].verdict, d) \in Verdicts BY DEF Worse, Verdicts
  <2>3. call'[e] \in CallRecord BY <1>1, <1>2, <2>1 DEF CallRecord
  <2> QED BY <2>3
<1>6. CallOpen(e)' BY <1>1, <1>3, <1>5 DEF CallOpen, RecheckProfile, ledgerVars
<1>7. call'[e].verdict = "ok" => call[e].verdict = "ok"
  BY <1>1, <1>3 DEF Worse, Verdicts, CallRecord
<1>8. call'[e].verdict = "ok" => DecisionHolds(call[e])'
  <2>1. call[e].verdict = "ok" => DecisionHolds(call[e]) BY <1>1 DEF CallOK, PhaseOK
  <2> QED BY <1>3, <1>7, <2>1 DEF DecisionHolds, ValidUntil, ReviewExpires, RecheckProfile,
             ledgerVars
<1>9. call[e].verdict = "ok" =>
         /\ ApprovalHolds(call[e], call[e].at)
         /\ NeedsApproval(call[e].manifest) =>
              /\ call[e].entry # None
              /\ call[e].entry.at = approvals[call[e].approval].at
  BY <1>1 DEF CallOK, PhaseOK
<1>10. UNCHANGED <<manifests, approvals>> BY DEF RecheckProfile, ledgerVars
<1>12. call'[e].verdict = "ok" =>
        (/\ ApprovalHolds(call[e], call[e].at)
         /\ NeedsApproval(call[e].manifest) =>
                  /\ call[e].entry # None
                  /\ call[e].entry.at = approvals[call[e].approval].at)'
  BY <1>3, <1>7, <1>9, <1>10 DEF ApprovalHolds, ApprovalValid, ReviewExpires, NeedsApproval
<1> QED BY <1>4, <1>6, <1>8, <1>12, OpenStep DEF Evaluating

(* The dispatch time of a stamped call lies inside the windows established   *)
(* when the call began, although the clock may have moved both ways since:   *)
(* the approval is checked against its copy, which agrees with the record in *)
(* the only field that matters, and nobody can have changed that field.      *)
LEMMA StampCall ==
  ASSUME TypeOK, NEW e \in Executions, CallOK(e), NEW d \in Verdicts, StampDispatch(e, d)
  PROVE  CallOK(e)'
<1> DEFINE v == Worse(Worse(call[e].verdict, d), TimeVerdict(call[e], clock))
<1>1. CallOpen(e) /\ call[e] \in CallRecord /\ pc[e] = "rechecked"
  BY OpenCall DEF StampDispatch, Evaluating
<1>2. v \in Verdicts BY DEF Worse, Verdicts
<1>3. CASE v # "ok"
  <2>1. /\ Finish(e, NotDispatched(call[e].manifest, call[e].approval, Decision(v), None))
        /\ pc' = [pc EXCEPT ![e] = "done"]
        /\ effect' = effect
    BY <1>3 DEF StampDispatch
  <2>2. /\ call[e].manifest \in Manifests /\ call[e].approval \in Approvals \cup {None}
        /\ pc'[e] = "done"
    BY <1>1, <2>1 DEF CallRecord, TypeOK
  <2>3. Decision(v) \in {"ALLOW", "DENY", "INDETERMINATE"} BY DEF Decision
  <2> HIDE DEF v
  <2> QED BY <1>1, <2>1, <2>2, <2>3, RefusedCall DEF Evaluating
<1>4. CASE v = "ok"
  <2>1. /\ pc' = [pc EXCEPT ![e] = "stamped"]
        /\ UNCHANGED <<executions, manifests, approvals, effect>>
        /\ call' = [call EXCEPT ![e].dispatchTime = clock, ![e].verdict = v]
    BY <1>4 DEF StampDispatch
  <2>2. call'[e] = [call[e] EXCEPT !.dispatchTime = clock, !.verdict = v] /\ pc'[e] = "stamped"
    BY <1>1, <2>1 DEF TypeOK
  <2>3. /\ call'[e].manifest = call[e].manifest /\ call'[e].approval = call[e].approval
        /\ call'[e].at = call[e].at /\ call'[e].dispatchTime = clock
    BY <1>1, <2>2 DEF CallRecord
  <2>4. call'[e] # None
    <3>1. call'[e] \in CallRecord BY <1>1, <1>2, <2>2 DEF CallRecord, TypeOK
    <3> QED BY <3>1
  <2>5. CallOpen(e)' BY <1>1, <2>1, <2>3, <2>4 DEF CallOpen
  <2>6. call[e].verdict = "ok" /\ TimeVerdict(call[e], clock) = "ok"
    BY <1>4, <1>1 DEF Worse, Verdicts, TimeVerdict, CallRecord
  <2>7. /\ DecisionHolds(call[e])
        /\ ApprovalHolds(call[e], call[e].at)
        /\ NeedsApproval(call[e].manifest) =>
              /\ call[e].entry # None
              /\ call[e].entry.at = approvals[call[e].approval].at
    BY <1>1, <2>6 DEF CallOK, PhaseOK
  <2>8. /\ clock \in Nat /\ call[e].at \in Nat
        /\ call[e].at + AuthorityWindow \in Nat
        /\ ReviewExpires(call[e].manifest) \in Nat
    BY <1>1, OpenCall DEF TypeOK, Time, CallRecord, ReviewExpires, ManifestRecord, Evaluating
  <2>9. call[e].validUntil # None
    BY <2>7, <2>8 DEF DecisionHolds, ValidUntil
  <2>10. /\ ~(clock >= ReviewExpires(call[e].manifest))
         /\ ~(clock >= call[e].validUntil)
         /\ ~(NeedsApproval(call[e].manifest) /\ clock > call[e].entry.at + ApprovalTimeout)
         /\ ~(clock < call[e].at)
    BY <2>6, <2>7, <2>9 DEF TimeVerdict
  <2>11. clock < call[e].at + AuthorityWindow
    BY <2>7, <2>8, <2>10 DEF DecisionHolds, ValidUntil
  <2>12. ApprovalHolds(call[e], clock)
    <3> SUFFICES ASSUME NeedsApproval(call[e].manifest)
                 PROVE  /\ call[e].approval # None
                        /\ approvals[call[e].approval] # None
                        /\ ApprovalValid(call[e].manifest, approvals[call[e].approval], clock)
      BY DEF ApprovalHolds
    <3> DEFINE rec == approvals[call[e].approval]
    <3>1. /\ call[e].approval # None /\ rec # None
          /\ ApprovalValid(call[e].manifest, rec, call[e].at)
      BY <2>7 DEF ApprovalHolds
    <3>2. rec \in ApprovalRecord BY <3>1, <1>1 DEF TypeOK, CallRecord
    <3>3. rec.at \in Nat BY <3>2 DEF ApprovalRecord, Time
    <3>4. clock <= rec.at + ApprovalTimeout /\ call[e].at <= clock
      BY <2>7, <2>8, <2>10, <3>3
    <3>5. rec.at <= clock BY <3>1, <3>3, <3>4, <2>8 DEF ApprovalValid
    <3> QED BY <3>1, <3>4, <3>5 DEF ApprovalValid
  <2>13. Stamped(call[e])'
    <3>1. ApprovalHolds(call[e], call[e].dispatchTime)'
      BY <2>1, <2>3, <2>12 DEF ApprovalHolds, NeedsApproval, ApprovalValid, ReviewExpires
    <3>2. clock # None BY <2>8
    <3> QED BY <2>1, <2>3, <2>8, <2>10, <2>11, <3>1, <3>2, <1>1 DEF Stamped, ReviewExpires,
               CallOpen
  <2> QED BY <2>2, <2>5, <2>13, OpenStep DEF Evaluating
<1> QED BY <1>3, <1>4

(* AdmitRefused ends the call with a refusal.                                *)
LEMMA AdmitRefusedCall ==
  ASSUME TypeOK, NEW e \in Executions, CallOK(e), AdmitRefused(e)
  PROVE  CallOK(e)'
<1> DEFINE m == call[e].manifest
<1>1. CallOpen(e) /\ call[e] \in CallRecord /\ pc[e] = "stamped"
  BY OpenCall DEF AdmitRefused, Evaluating
<1>2. m \in Manifests /\ call[e].approval \in Approvals \cup {None}
        /\ manifests[m] \in ManifestRecord
  BY <1>1 DEF CallRecord, CallOpen, TypeOK
<1>3. PriorDispatch(m) \in Executions \cup {None}
  BY <1>2 DEF PriorDispatch, KeyOf, ActionKeys, ManifestRecord, TypeOK
<1>4. Finish(e, NotDispatched(m, call[e].approval, "DENY", PriorDispatch(m)))
  BY DEF AdmitRefused
<1>5. pc'[e] = "done" /\ effect'[e] = effect[e] BY DEF AdmitRefused, TypeOK
<1> HIDE DEF m
<1> QED BY <1>1, <1>2, <1>3, <1>4, <1>5, RefusedCall DEF Evaluating

(* The reservation records exactly what the call was stamped for.            *)
LEMMA AdmitCall ==
  ASSUME TypeOK, Kept, NEW e \in Executions, CallOK(e), Admit(e)
  PROVE  CallOK(e)'
<1>1. CallOpen(e) /\ Stamped(call[e]) /\ call[e] \in CallRecord
  BY OpenCall DEF Admit, Evaluating, CallOK, PhaseOK
<1>2. executions'[e] = [manifest |-> call[e].manifest, approval |-> call[e].approval,
                        state |-> "DISPATCHED", decision |-> "ALLOW",
                        dispatchedAt |-> call[e].dispatchTime,
                        completedAt |-> None, duplicateOf |-> None]
  BY DEF Admit, Finish, TypeOK
<1>3. executions'[e] # None
  <2>1. executions'[e] \in ExecutionRecord
    BY <1>1, <1>2 DEF ExecutionRecord, CallRecord, States, DispatchStates, InFlightStates
  <2> QED BY <2>1
<1>4. /\ StateOf(e)' = "DISPATCHED" /\ pc'[e] = "admitted"
      /\ call'[e] = call[e] /\ effect'[e] = "none" /\ call[e] # None
  BY <1>1, <1>2, <1>3 DEF StateOf, Admit, TypeOK, CallOpen
<1>5. Stamped(call[e])' BY <1>1, <1>4, CallStamped
<1> QED BY <1>2, <1>4, <1>5 DEF CallOK, PhaseOK, DispatchOK, EffectOK, Evaluating

(* The executor is called under the reservation.                             *)
LEMMA CallExecutorCall ==
  ASSUME TypeOK, Kept, NEW e \in Executions, CallOK(e), CallExecutor(e)
  PROVE  CallOK(e)'
<1>1. /\ pc[e] = "admitted" /\ pc'[e] = "calling" /\ effect'[e] = "inflight"
      /\ call'[e] = call[e] /\ executions'[e] = executions[e]
  BY DEF CallExecutor, TypeOK, ledgerVars
<1>2. StateOf(e) = "DISPATCHED" /\ StateOf(e)' = "DISPATCHED" /\ Dispatched(e)
  BY <1>1 DEF CallOK, PhaseOK, StateOf, Dispatched, DispatchStates, InFlightStates
<1>3. /\ call[e] # None /\ Stamped(call[e])
      /\ executions[e].manifest = call[e].manifest
      /\ executions[e].approval = call[e].approval
      /\ executions[e].dispatchedAt = call[e].dispatchTime
  BY <1>2 DEF CallOK, DispatchOK
<1>4. Stamped(call[e])' BY <1>1, <1>3, CallStamped
<1> QED BY <1>1, <1>2, <1>3, <1>4 DEF CallOK, PhaseOK, DispatchOK, EffectOK, Evaluating,
           InFlightStates

(* A report matches what was attempted.                                      *)
LEMMA ReturnCall ==
  ASSUME TypeOK, Kept, NEW e \in Executions, CallOK(e), NEW s \in States, ExecutorReturns(e, s)
  PROVE  CallOK(e)'
<1>1. StateOf(e) = "DISPATCHED" /\ executions[e] \in ExecutionRecord /\ Dispatched(e)
  BY DEF ExecutorReturns, CallOK, PhaseOK, StateOf, TypeOK, Dispatched, DispatchStates,
     InFlightStates
<1>2. executions'[e] = [executions[e] EXCEPT !.state = s, !.completedAt = clock]
  BY DEF ExecutorReturns, Finish, TypeOK
<1>3. executions'[e] \in ExecutionRecord BY <1>1, <1>2 DEF ExecutionRecord, TypeOK
<1>4. /\ executions'[e].state = s
      /\ executions'[e].manifest = executions[e].manifest
      /\ executions'[e].approval = executions[e].approval
      /\ executions'[e].dispatchedAt = executions[e].dispatchedAt
  BY <1>1, <1>2 DEF ExecutionRecord
<1>5. executions'[e] # None /\ StateOf(e)' = s BY <1>3, <1>4 DEF StateOf
<1>6. /\ pc'[e] = "done" /\ effect'[e] = effect[e] /\ call'[e] = call[e]
  BY DEF ExecutorReturns, TypeOK
<1>7. /\ call[e] # None /\ Stamped(call[e])
      /\ executions[e].manifest = call[e].manifest
      /\ executions[e].approval = call[e].approval
      /\ executions[e].dispatchedAt = call[e].dispatchTime
  BY <1>1 DEF CallOK, DispatchOK
<1>8. Stamped(call[e])' BY <1>6, <1>7, CallStamped
<1>9. \/ effect[e] # "none" /\ s \in {"ACKNOWLEDGED", "EXECUTION_UNKNOWN"}
      \/ effect[e] = "none" /\ s = "NOT_ATTEMPTED"
  BY DEF ExecutorReturns, CallOK, PhaseOK
<1>10. PhaseOK(e)' BY <1>5, <1>6, <1>9 DEF PhaseOK, Evaluating
<1>11. DispatchOK(e)' BY <1>4, <1>5, <1>6, <1>7, <1>8 DEF DispatchOK
<1>12. EffectOK(e)' BY <1>5, <1>6, <1>9 DEF EffectOK, InFlightStates
<1> QED BY <1>10, <1>11, <1>12 DEF CallOK

(* The downstream system does not disturb the call.                          *)
LEMMA DownstreamCall ==
  ASSUME TypeOK, Kept, NEW e \in Executions, CallOK(e),
         NEW fate \in {"committed", "fenced"}, Downstream(e, fate)
  PROVE  CallOK(e)'
<1>1. /\ effect[e] = "inflight" /\ effect'[e] = fate /\ pc'[e] = pc[e]
      /\ call'[e] = call[e] /\ executions'[e] = executions[e]
  BY DEF Downstream, TypeOK, ledgerVars
<1>2. StateOf(e)' = StateOf(e) /\ StateOf(e) \in InFlightStates \cup FinalStates
  BY <1>1 DEF CallOK, EffectOK, StateOf
<1>3. /\ Dispatched(e)
      /\ call[e] # None /\ Stamped(call[e])
      /\ executions[e].manifest = call[e].manifest
      /\ executions[e].approval = call[e].approval
      /\ executions[e].dispatchedAt = call[e].dispatchTime
      /\ pc[e] \in {"admitted", "calling", "done"}
  BY <1>2 DEF CallOK, DispatchOK, Dispatched, DispatchStates
<1>4. Stamped(call[e])' BY <1>1, <1>3, CallStamped
<1> QED BY <1>1, <1>2, <1>3, <1>4 DEF CallOK, PhaseOK, DispatchOK, EffectOK, Evaluating

(* The call a step serves keeps its part of the invariant.                   *)
LEMMA ActingCall ==
  ASSUME TypeOK, Kept, NEW e \in Executions, CallOK(e), Serves(e)
  PROVE  CallOK(e)'
<1>1. ASSUME NEW m \in Manifests, NEW a \in Approvals \cup {None},
             NEW decision \in {"DENY", "INDETERMINATE"}, ExecuteRefused(e, m, a, decision)
      PROVE  CallOK(e)'
  <2>1. pc[e] = "idle" /\ pc'[e] = "done" /\ effect'[e] = effect[e]
        /\ Finish(e, NotDispatched(m, a, decision, None))
    BY <1>1 DEF ExecuteRefused, TypeOK
  <2> QED BY <2>1, RefusedCall
<1> QED BY <1>1, StartCall, DecideCall, ReadApprovalCall, RecheckCall, StampCall, AdmitCall,
           AdmitRefusedCall,
           CallExecutorCall, ReturnCall, DownstreamCall DEF Serves, ThreadStep

(* Every step keeps the invariant of every call.                             *)
LEMMA CallInvStep == ASSUME TypeOK, CallInv, Next PROVE CallInv'
<1>1. Kept BY KeptStep
<1>2. ASSUME NEW f \in Executions, Elsewhere PROVE CallOK(f)'
  <2>1. CallKept(f) BY <1>2, ElsewhereKeeps DEF CallKept, threadVars
  <2> QED BY <1>1, <2>1, OthersKept DEF CallInv, CallOK
<1>3. ASSUME NEW e \in Executions, Serves(e), NEW f \in Executions PROVE CallOK(f)'
  <2>1. CASE f = e BY <1>1, <1>3, <2>1, ActingCall DEF CallInv, CallOK
  <2>2. CASE f # e
    <3>1. CallKept(f) BY <1>3, <2>2, OthersUntouched
    <3> QED BY <1>1, <3>1, OthersKept DEF CallInv, CallOK
  <2> QED BY <2>1, <2>2
<1> QED BY <1>2, <1>3, NextSplits DEF CallInv, CallOK

(* Steps other than an admission neither make nor change a reservation. *)
SameDispatch(f) ==
  /\ Dispatched(f)' <=> Dispatched(f)
  /\ Dispatched(f) => /\ executions'[f].manifest = executions[f].manifest
                      /\ executions'[f].approval = executions[f].approval
                      /\ executions'[f].dispatchedAt = executions[f].dispatchedAt

ReservationsKept ==
  /\ UNCHANGED <<dispatches, actionDispatches>>
  /\ \A f \in Executions : SameDispatch(f)
  /\ \A a \in Approvals :
       /\ approvals[a] # None => approvals'[a].consumedBy = approvals[a].consumedBy
       /\ approvals'[a] # None /\ approvals'[a].consumedBy # None => approvals[a] # None

(* An unchanged record is an unchanged reservation.                          *)
LEMMA SameRecordSameDispatch ==
  ASSUME NEW f \in Executions, executions'[f] = executions[f]
  PROVE  SameDispatch(f)
BY DEF SameDispatch, Dispatched, StateOf

(* Administration, proposals and approvals make and change no reservation.   *)
LEMMA ElsewhereReservations == ASSUME TypeOK, Elsewhere PROVE ReservationsKept
<1>1. UNCHANGED <<executions, dispatches, actionDispatches>> BY ElsewhereKeeps
<1>2. ASSUME NEW a \in Approvals
      PROVE  /\ approvals[a] # None => approvals'[a].consumedBy = approvals[a].consumedBy
             /\ approvals'[a] # None /\ approvals'[a].consumedBy # None => approvals[a] # None
  <2>1. CASE approvals' = approvals BY <2>1
  <2>2. ASSUME NEW b \in Approvals, NEW m \in Manifests, NEW who \in SUBSET Principals,
               NEW t \in Time,
               NEW decision \in {"approved", "rejected"}, RecordApproval(b, m, who, t, decision)
        PROVE  /\ approvals[a] # None => approvals'[a].consumedBy = approvals[a].consumedBy
               /\ approvals'[a] # None /\ approvals'[a].consumedBy # None => approvals[a] # None
    BY <2>2 DEF RecordApproval, TypeOK
  <2> QED BY <2>1, <2>2 DEF Elsewhere, Administer, ClockStep, RegisterExecutor, RevokeProfile,
             PublishProfile,
                            Propose, ledgerVars
<1> QED BY <1>1, <1>2, SameRecordSameDispatch DEF ReservationsKept

(* Of the steps that serve a call, only Admit makes a reservation.           *)
LEMMA CallReservations ==
  ASSUME TypeOK, NEW e \in Executions, CallOK(e), Serves(e), ~Admit(e)
  PROVE  ReservationsKept
<1>1. UNCHANGED <<approvals, dispatches, actionDispatches>>
  <2>1. CASE \E m \in Manifests, a \in Approvals \cup {None} :
               \/ ExecuteStart(e, m, a)
               \/ \E decision \in {"DENY", "INDETERMINATE"} : ExecuteRefused(e, m, a, decision)
    BY <2>1 DEF ExecuteStart, ExecuteRefused, ledgerVars
  <2>2. CASE \E d \in Verdicts : \/ Decide(e, d) \/ ReadApproval(e, d)
                                \/ RecheckProfile(e, d) \/ StampDispatch(e, d)
    BY <2>2 DEF Decide, ReadApproval, RecheckProfile, StampDispatch, ledgerVars
  <2>3. CASE \/ AdmitRefused(e) \/ CallExecutor(e) \/ \E s \in States : ExecutorReturns(e, s)
             \/ \E fate \in {"committed", "fenced"} : Downstream(e, fate)
    BY <2>3 DEF AdmitRefused, CallExecutor, ExecutorReturns, Downstream, ledgerVars
  <2> QED BY <2>1, <2>2, <2>3 DEF Serves, ThreadStep
<1>2. SameDispatch(e)
  <2>1. CASE executions' = executions BY <2>1, SameRecordSameDispatch
  <2>2. ASSUME pc[e] \in Evaluating \cup {"idle"}, NEW m, NEW a, NEW d, NEW f,
               Finish(e, NotDispatched(m, a, d, f))
        PROVE SameDispatch(e)
    <3>1. ~Dispatched(e)
      BY <2>2 DEF CallOK, PhaseOK, CallOpen, Evaluating, Dispatched, StateOf, DispatchStates,
         InFlightStates,
                  FinalStates
    <3>2. executions'[e] = NotDispatched(m, a, d, f) BY <2>2 DEF Finish, TypeOK
    <3>3. ~Dispatched(e)'
      BY <3>2 DEF NotDispatched, Dispatched, StateOf, DispatchStates, InFlightStates, FinalStates
    <3> QED BY <3>1, <3>3 DEF SameDispatch
  <2>3. ASSUME NEW s \in States, ExecutorReturns(e, s) PROVE SameDispatch(e)
    <3>1. /\ executions[e] \in ExecutionRecord /\ Dispatched(e)
          /\ s \in DispatchStates
      BY <2>3 DEF ExecutorReturns, CallOK, PhaseOK, StateOf, TypeOK, Dispatched, DispatchStates,
         InFlightStates
    <3>2. executions'[e] = [executions[e] EXCEPT !.state = s, !.completedAt = clock]
      BY <2>3 DEF ExecutorReturns, Finish, TypeOK
    <3>3. executions'[e] \in ExecutionRecord BY <3>1, <3>2 DEF ExecutionRecord, TypeOK
    <3>4. /\ executions'[e].state = s
          /\ executions'[e].manifest = executions[e].manifest
          /\ executions'[e].approval = executions[e].approval
          /\ executions'[e].dispatchedAt = executions[e].dispatchedAt
      BY <3>1, <3>2 DEF ExecutionRecord
    <3>5. Dispatched(e)' BY <3>1, <3>3, <3>4 DEF Dispatched, StateOf
    <3> QED BY <3>1, <3>4, <3>5 DEF SameDispatch
  <2>4. CASE \E m \in Manifests, a \in Approvals \cup {None} : ExecuteStart(e, m, a)
    BY <2>1, <2>4 DEF ExecuteStart, ledgerVars
  <2>5. CASE \E m \in Manifests, a \in Approvals \cup {None},
          decision \in {"DENY", "INDETERMINATE"} :
               ExecuteRefused(e, m, a, decision)
    BY <2>2, <2>5 DEF ExecuteRefused
  <2>6. CASE \E d \in Verdicts : Decide(e, d) \/ ReadApproval(e, d) \/ RecheckProfile(e, d)
    BY <2>1, <2>6 DEF Decide, ReadApproval, RecheckProfile, ledgerVars
  <2>7. ASSUME NEW d \in Verdicts, StampDispatch(e, d) PROVE SameDispatch(e)
    <3>1. pc[e] \in Evaluating BY <2>7 DEF StampDispatch, Evaluating
    <3>2. \/ executions' = executions
          \/ Finish(e, NotDispatched(call[e].manifest, call[e].approval,
               Decision(Worse(Worse(call[e].verdict, d), TimeVerdict(call[e], clock))), None))
      BY <2>7 DEF StampDispatch
    <3> QED BY <2>1, <2>2, <3>1, <3>2
  <2>8. CASE AdmitRefused(e)
    <3>1. pc[e] \in Evaluating
            /\ Finish(e, NotDispatched(call[e].manifest, call[e].approval, "DENY",
                                                           PriorDispatch(call[e].manifest)))
      BY <2>8 DEF AdmitRefused, Evaluating
    <3> QED BY <2>2, <3>1
  <2>9. CASE CallExecutor(e) \/ \E fate \in {"committed", "fenced"} : Downstream(e, fate)
    BY <2>1, <2>9 DEF CallExecutor, Downstream, ledgerVars
  <2>10. CASE ThreadStep(e) BY <2>3, <2>6, <2>7, <2>8, <2>9, <2>10 DEF ThreadStep
  <2> QED BY <2>4, <2>5, <2>9, <2>10 DEF Serves
<1>3. ASSUME NEW f \in Executions, f # e PROVE executions'[f] = executions[f]
  BY <1>3, OthersUntouched DEF CallKept
<1> QED BY <1>1, <1>2, <1>3, SameRecordSameDispatch DEF ReservationsKept

(* A dispatched record names an existing manifest and its key.               *)
LEMMA DispatchedManifest ==
  ASSUME TypeOK, NEW f \in Executions, CallOK(f), Dispatched(f)
  PROVE  /\ executions[f].manifest \in Manifests
         /\ manifests[executions[f].manifest] # None
         /\ executions[f].approval \in Approvals \cup {None}
         /\ KeyOf(executions[f].manifest) \in ActionKeys
<1>1. call[f] \in CallRecord /\ manifests[call[f].manifest] # None
      /\ executions[f].manifest = call[f].manifest
      /\ executions[f].approval = call[f].approval
  BY DEF CallOK, DispatchOK, Stamped, TypeOK
<1>2. manifests[call[f].manifest] \in ManifestRecord BY <1>1 DEF TypeOK, CallRecord
<1> QED BY <1>1, <1>2 DEF CallRecord, ManifestRecord, KeyOf, ActionKeys

(* Steps other than Admit keep OneDispatchPerAction.                         *)
LEMMA OneDispatchKept ==
  ASSUME TypeOK, CallInv, OneDispatchPerAction, Kept, ReservationsKept
  PROVE  OneDispatchPerAction'
<1>1. ASSUME NEW f \in Executions, Dispatched(f)
      PROVE  /\ executions'[f].manifest = executions[f].manifest
             /\ KeyOf(executions[f].manifest)' = KeyOf(executions[f].manifest)
  <2>1. executions'[f].manifest = executions[f].manifest
    BY <1>1 DEF ReservationsKept, SameDispatch
  <2>2. executions[f].manifest \in Manifests /\ manifests[executions[f].manifest] # None
    BY <1>1, DispatchedManifest DEF CallInv, CallOK
  <2> QED BY <2>1, <2>2 DEF Kept, KeyOf
<1>2. \A f \in Executions : Dispatched(f)' <=> Dispatched(f)
  BY DEF ReservationsKept, SameDispatch
<1>3. UNCHANGED <<dispatches, actionDispatches>> BY DEF ReservationsKept
<1>4. /\ dispatches \in [Manifests -> Executions \cup {None}]
      /\ actionDispatches \in [ActionKeys -> Executions \cup {None}]
  BY DEF TypeOK
<1> QED BY <1>1, <1>2, <1>3, <1>4 DEF OneDispatchPerAction

(* Steps other than Admit keep OneApprovalOneDispatch.                       *)
LEMMA OneApprovalKept ==
  ASSUME TypeOK, CallInv, OneApprovalOneDispatch, Kept, ReservationsKept
  PROVE  OneApprovalOneDispatch'
<1>1. ASSUME NEW f \in Executions, Dispatched(f)', NeedsApproval(executions[f].manifest)'
      PROVE  (/\ approvals[executions[f].approval].consumedBy = f
              /\ ApprovalValid(executions[f].manifest, approvals[executions[f].approval],
                               executions[f].dispatchedAt))'
  <2>1. /\ Dispatched(f)
        /\ executions'[f].manifest = executions[f].manifest
        /\ executions'[f].approval = executions[f].approval
        /\ executions'[f].dispatchedAt = executions[f].dispatchedAt
    BY <1>1 DEF ReservationsKept, SameDispatch
  <2> DEFINE m == executions[f].manifest
             a == executions[f].approval
  <2>2. m \in Manifests /\ manifests[m] # None /\ manifests'[m] = manifests[m]
    BY <2>1, DispatchedManifest DEF CallInv, CallOK, Kept
  <2>3. NeedsApproval(m) BY <1>1, <2>1, <2>2 DEF NeedsApproval
  <2>4. a \in Approvals /\ approvals[a] # None
    BY <2>1, <2>3, DispatchedManifest DEF CallInv, DispatchOK, Stamped, ApprovalHolds, CallOK
  <2>5. /\ approvals[a].consumedBy = f
        /\ ApprovalValid(m, approvals[a], executions[f].dispatchedAt)
    BY <2>1, <2>3 DEF OneApprovalOneDispatch
  <2>6. approvals'[a].consumedBy = f BY <2>4, <2>5 DEF ReservationsKept
  <2> QED BY <2>1, <2>2, <2>4, <2>5, <2>6 DEF ApprovalValid, ReviewExpires, Kept
<1>2. ASSUME NEW a \in Approvals, approvals'[a] # None, approvals'[a].consumedBy # None
      PROVE  (/\ Dispatched(approvals[a].consumedBy)
              /\ executions[approvals[a].consumedBy].approval = a)'
  <2>1. approvals[a] # None /\ approvals'[a].consumedBy = approvals[a].consumedBy
    BY <1>2 DEF ReservationsKept
  <2>2. approvals[a].consumedBy \in Executions BY <1>2, <2>1 DEF TypeOK, ApprovalRecord
  <2>3. Dispatched(approvals[a].consumedBy) /\ executions[approvals[a].consumedBy].approval = a
    BY <1>2, <2>1 DEF OneApprovalOneDispatch
  <2> QED BY <2>1, <2>2, <2>3 DEF ReservationsKept, SameDispatch, Dispatched, StateOf
<1> QED BY <1>1, <1>2 DEF OneApprovalOneDispatch

(* Admit keeps both: it reserves a free manifest and a free action key, and  *)
(* consumes an unconsumed approval, in one critical section.                 *)
LEMMA AdmitReservations ==
  ASSUME TypeOK, TypeOK', CallInv, CallInv', Kept, OneDispatchPerAction, OneApprovalOneDispatch,
         NEW e \in Executions, Admit(e)
  PROVE  OneDispatchPerAction' /\ OneApprovalOneDispatch'
<1> DEFINE m == call[e].manifest
           b == call[e].approval
<1>1. /\ call[e] \in CallRecord /\ Stamped(call[e]) /\ ~Dispatched(e)
      /\ m \in Manifests /\ manifests[m] \in ManifestRecord /\ KeyOf(m) \in ActionKeys
      /\ b \in Approvals \cup {None}
  <2>1. CallOpen(e) /\ Stamped(call[e]) /\ call[e] \in CallRecord
          /\ manifests[m] \in ManifestRecord
    BY OpenCall DEF Admit, Evaluating, CallOK, PhaseOK, CallInv
  <2> QED BY <2>1 DEF CallOpen, Dispatched, StateOf, DispatchStates, InFlightStates, FinalStates,
             CallRecord,
                      KeyOf, ActionKeys, ManifestRecord
<1>2. dispatches[m] = None /\ actionDispatches[KeyOf(m)] = None
  BY DEF Admit, PriorDispatch
<1>3. /\ executions'[e].manifest = m /\ executions'[e].approval = b
      /\ executions'[e].dispatchedAt = call[e].dispatchTime /\ Dispatched(e)'
  <2>1. executions'[e] = [manifest |-> m, approval |-> b,
                          state |-> "DISPATCHED", decision |-> "ALLOW",
                          dispatchedAt |-> call[e].dispatchTime,
                          completedAt |-> None, duplicateOf |-> None]
    BY DEF Admit, Finish, TypeOK
  <2>2. executions'[e] # None
          BY <2>1, <1>1 DEF ExecutionRecord, CallRecord, States, DispatchStates, InFlightStates
  <2> QED BY <2>1, <2>2 DEF Dispatched, StateOf, DispatchStates, InFlightStates
<1>4. \A f \in Executions \ {e} : executions'[f] = executions[f]
  BY DEF Admit, Finish, TypeOK
<1>5. \A f \in Executions \ {e} : SameDispatch(f) BY <1>4, SameRecordSameDispatch
<1>6. /\ dispatches' = [dispatches EXCEPT ![m] = e]
      /\ actionDispatches' = [actionDispatches EXCEPT ![KeyOf(m)] = e]
      /\ manifests' = manifests
  BY DEF Admit
<1>7. \A n : KeyOf(n)' = KeyOf(n) /\ NeedsApproval(n)' = NeedsApproval(n) 
  BY <1>6 DEF KeyOf, NeedsApproval
<1>8. OneDispatchPerAction'
  <2>1. ASSUME NEW f \in Executions, Dispatched(f)'
        PROVE  (/\ dispatches[executions[f].manifest] = f
                /\ actionDispatches[KeyOf(executions[f].manifest)] = f)'
    <3>1. CASE f = e BY <1>1, <1>3, <1>6, <1>7, <3>1 DEF TypeOK
    <3>2. CASE f # e
      <4>1. Dispatched(f) /\ executions'[f].manifest = executions[f].manifest
              BY <2>1, <3>2, <1>5, <1>4 DEF SameDispatch
      <4>2. dispatches[executions[f].manifest] = f
              /\ actionDispatches[KeyOf(executions[f].manifest)] = f
        BY <4>1 DEF OneDispatchPerAction
      <4>3. executions[f].manifest # m /\ KeyOf(executions[f].manifest) # KeyOf(m)
        BY <4>2, <1>2
      <4>4. executions[f].manifest \in Manifests /\ KeyOf(executions[f].manifest) \in ActionKeys
        BY <4>1, DispatchedManifest DEF CallInv, CallOK
      <4> QED BY <4>1, <4>2, <4>3, <4>4, <1>6, <1>7 DEF TypeOK
    <3> QED BY <3>1, <3>2
  <2>2. ASSUME NEW n \in Manifests, dispatches'[n] # None
        PROVE  (Dispatched(dispatches[n]) /\ executions[dispatches[n]].manifest = n)'
    <3>1. CASE n = m BY <1>1, <1>3, <1>6, <3>1 DEF TypeOK, Dispatched, StateOf
    <3>2. CASE n # m
      <4>1. dispatches'[n] = dispatches[n] BY <1>6, <3>2 DEF TypeOK
      <4>2. dispatches[n] \in Executions BY <2>2, <4>1 DEF TypeOK
      <4>3. Dispatched(dispatches[n]) /\ executions[dispatches[n]].manifest = n
        BY <2>2, <4>1 DEF OneDispatchPerAction
      <4>4. dispatches[n] # e BY <4>3, <1>1
      <4> QED BY <4>1, <4>2, <4>3, <4>4, <1>4 DEF Dispatched, StateOf
    <3> QED BY <3>1, <3>2
  <2>3. ASSUME NEW k \in ActionKeys, actionDispatches'[k] # None
        PROVE  (/\ Dispatched(actionDispatches[k])
                /\ KeyOf(executions[actionDispatches[k]].manifest) = k)'
    <3>1. CASE k = KeyOf(m) BY <1>1, <1>3, <1>6, <1>7, <3>1 DEF TypeOK, Dispatched, StateOf
    <3>2. CASE k # KeyOf(m)
      <4>1. actionDispatches'[k] = actionDispatches[k] BY <1>6, <3>2 DEF TypeOK
      <4>2. actionDispatches[k] \in Executions BY <2>3, <4>1 DEF TypeOK
      <4>3. Dispatched(actionDispatches[k]) /\ KeyOf(executions[actionDispatches[k]].manifest) = k
        BY <2>3, <4>1 DEF OneDispatchPerAction
      <4>4. actionDispatches[k] # e BY <4>3, <1>1
      <4> QED BY <4>1, <4>2, <4>3, <4>4, <1>4, <1>7 DEF Dispatched, StateOf
    <3> QED BY <3>1, <3>2
  <2> QED BY <2>1, <2>2, <2>3 DEF OneDispatchPerAction
<1>9. NeedsApproval(m) =>
        /\ b \in Approvals /\ approvals[b] \in ApprovalRecord
        /\ approvals[b].consumedBy = None
        /\ approvals' = [approvals EXCEPT ![b] = [approvals[b] EXCEPT !.consumedBy = e]]
  BY <1>1 DEF Stamped, ApprovalHolds, Admit, ApprovalSpent, TypeOK
<1>10. ~NeedsApproval(m) => approvals' = approvals BY DEF Admit
<1>11. \A a \in Approvals : ~(NeedsApproval(m) /\ a = b) => approvals'[a] = approvals[a]
  BY <1>9, <1>10 DEF TypeOK
<1>12. NeedsApproval(m) => approvals'[b].consumedBy = e
  BY <1>9 DEF TypeOK, ApprovalRecord
<1>13. OneApprovalOneDispatch'
  <2>1. ASSUME NEW f \in Executions, Dispatched(f)', NeedsApproval(executions[f].manifest)'
        PROVE  (/\ approvals[executions[f].approval].consumedBy = f
                /\ ApprovalValid(executions[f].manifest, approvals[executions[f].approval],
                                 executions[f].dispatchedAt))'
    <3>1. CASE f = e
      <4>1. NeedsApproval(m) BY <2>1, <3>1, <1>3, <1>7
      <4>2. Stamped(call[e])' BY <2>1, <3>1 DEF CallInv, DispatchOK
      <4>3. call'[e] = call[e] BY DEF Admit
      <4> QED BY <3>1, <4>1, <4>2, <4>3, <1>3, <1>7, <1>12 DEF Stamped, ApprovalHolds
    <3>2. CASE f # e
      <4>1. /\ Dispatched(f) /\ executions'[f] = executions[f]
            /\ NeedsApproval(executions[f].manifest)
        BY <2>1, <3>2, <1>4, <1>5, <1>7 DEF SameDispatch
      <4>2. /\ approvals[executions[f].approval].consumedBy = f
            /\ ApprovalValid(executions[f].manifest, approvals[executions[f].approval],
                             executions[f].dispatchedAt)
        BY <4>1 DEF OneApprovalOneDispatch
      <4>3. executions[f].approval \in Approvals
        BY <4>1, DispatchedManifest DEF CallInv, CallOK, DispatchOK, Stamped, ApprovalHolds
      <4>4. approvals'[executions[f].approval] = approvals[executions[f].approval]
        BY <4>2, <4>3, <1>9, <1>11
      <4> QED BY <4>1, <4>2, <4>4, <1>6 DEF ApprovalValid, ReviewExpires
    <3> QED BY <3>1, <3>2
  <2>2. ASSUME NEW a \in Approvals, approvals'[a] # None, approvals'[a].consumedBy # None
        PROVE  (/\ Dispatched(approvals[a].consumedBy)
                /\ executions[approvals[a].consumedBy].approval = a)'
    <3>1. CASE NeedsApproval(m) /\ a = b BY <3>1, <1>3, <1>12 DEF Dispatched, StateOf
    <3>2. CASE ~(NeedsApproval(m) /\ a = b)
      <4>1. approvals'[a] = approvals[a] BY <3>2, <1>11
      <4>2. approvals[a].consumedBy \in Executions BY <2>2, <4>1 DEF TypeOK, ApprovalRecord
      <4>3. Dispatched(approvals[a].consumedBy)
              /\ executions[approvals[a].consumedBy].approval = a
        BY <2>2, <4>1 DEF OneApprovalOneDispatch
      <4>4. approvals[a].consumedBy # e BY <4>3, <1>1
      <4> QED BY <4>1, <4>2, <4>3, <4>4, <1>4 DEF Dispatched, StateOf
    <3> QED BY <3>1, <3>2
  <2> QED BY <2>1, <2>2 DEF OneApprovalOneDispatch
<1> QED BY <1>8, <1>13

(* Stuttering keeps the invariant.                                           *)
LEMMA StutterInv == ASSUME GateInv, UNCHANGED vars PROVE GateInv'
<1>1. UNCHANGED <<clock, active, registered, manifests, approvals, executions, history,
        dispatches,
                  actionDispatches, pc, call, effect>>
  BY DEF vars, adminVars, ledgerVars, threadVars
<1>2. TypeOK' BY <1>1 DEF GateInv, TypeOK
<1>3. Kept BY <1>1 DEF Kept, GateInv
<1>4. CallInv'
  <2> SUFFICES ASSUME NEW f \in Executions PROVE CallOK(f)' BY DEF CallInv, CallOK
  <2>1. CallKept(f) BY <1>1 DEF CallKept
  <2> QED BY <1>3, <2>1, OthersKept DEF GateInv, CallInv, CallOK
<1>5. ReservationsKept BY <1>1, SameRecordSameDispatch DEF ReservationsKept
<1> QED BY <1>2, <1>3, <1>4, <1>5, OneDispatchKept, OneApprovalKept DEF GateInv

(* The invariant is inductive.                                               *)
LEMMA GateInvStep == ASSUME GateInv, [Next]_vars PROVE GateInv'
<1>1. CASE UNCHANGED vars BY <1>1, StutterInv
<1>2. CASE Next
  <2>1. TypeOK /\ CallInv /\ OneDispatchPerAction /\ OneApprovalOneDispatch BY DEF GateInv
  <2>2. TypeOK' /\ CallInv' /\ Kept BY <1>2, <2>1, TypeStep, CallInvStep, KeptStep
  <2>3. ASSUME ReservationsKept PROVE OneDispatchPerAction' /\ OneApprovalOneDispatch'
    BY <2>1, <2>2, <2>3, OneDispatchKept, OneApprovalKept
  <2>4. CASE Elsewhere BY <2>1, <2>3, <2>4, <2>2, ElsewhereReservations DEF GateInv
  <2>5. ASSUME NEW e \in Executions, Serves(e) PROVE GateInv'
    <3>1. CASE Admit(e) BY <2>1, <2>2, <3>1, AdmitReservations DEF GateInv
    <3>2. CASE ~Admit(e) BY <2>1, <2>2, <2>3, <2>5, <3>2, CallReservations DEF GateInv, CallInv,
                            CallOK
    <3> QED BY <3>1, <3>2
  <2> QED BY <1>2, <2>4, <2>5, NextSplits
<1> QED BY <1>1, <1>2

(* The inductive invariant holds in every reachable state of the gate, for   *)
(* any number of callers, manifests, approvals and profiles, any windows and *)
(* any bound of the clock.                                                   *)
THEOREM InvariantHolds == Spec => []GateInv
BY InitInv, GateInvStep, PTL DEF Spec

(* Every variable of the gate keeps its type.                                *)
THEOREM TypeCorrect == Spec => []TypeOK
<1>1. GateInv => TypeOK BY DEF GateInv
<1> QED BY <1>1, InvariantHolds, PTL

(* execute(): no business action is ever dispatched twice, however many calls*)
(* and duplicate manifests race for it, and every dispatched record is the   *)
(* one its reservation names.                                                *)
THEOREM OneDispatch == Spec => []OneDispatchPerAction
<1>1. GateInv => OneDispatchPerAction BY DEF GateInv
<1> QED BY <1>1, InvariantHolds, PTL

(* execute(), record_approval(): an approval covers at most one dispatch, the*)
(* one of the manifest it was given for, made while it was valid.            *)
THEOREM OneApproval == Spec => []OneApprovalOneDispatch
<1>1. GateInv => OneApprovalOneDispatch BY DEF GateInv
<1> QED BY <1>1, InvariantHolds, PTL

(* execute(): a dispatch is recorded inside the review window and the authority*)
(* window, whatever the clock and slow dependencies did in between.          *)
THEOREM DispatchInWindows == Spec => []DispatchWithinWindows
<1>1. GateInv => DispatchWithinWindows
  BY DEF GateInv, CallInv, DispatchOK, Stamped, DispatchWithinWindows
<1> QED BY <1>1, InvariantHolds, PTL

(* execute(): the executor is invoked only under a stored reservation of the *)
(* same call.                                                                *)
THEOREM ReservedEffects == Spec => []EffectsAreReserved
<1>1. GateInv => EffectsAreReserved
  BY DEF GateInv, CallInv, EffectOK, EffectsAreReserved, OneDispatchPerAction, Dispatched,
     DispatchStates
<1> QED BY <1>1, InvariantHolds, PTL

(* The refinement: what a step does to the entry of an action key *)

(* The empty gate is an empty ledger.                                        *)
LEMMA LedgerInitial == Init => Ledger!LedgerInit
BY DEF Init, Ledger!LedgerInit, OutcomeOf, AttemptedOf

Outcome   == [k \in ActionKeys |-> OutcomeOf(k)]
Attempted == [k \in ActionKeys |-> AttemptedOf(k)]

(* A step that leaves the reservations, their states and their attempts alone is invisible. *)
LEMMA LedgerStutter ==
  ASSUME GateInv, UNCHANGED actionDispatches,
         \A f \in Executions : Dispatched(f) =>
            /\ executions'[f].state = executions[f].state
            /\ effect'[f] # "none" <=> effect[f] # "none"
  PROVE  UNCHANGED <<Outcome, Attempted>>
<1> SUFFICES ASSUME NEW k \in ActionKeys
             PROVE  OutcomeOf(k)' = OutcomeOf(k) /\ AttemptedOf(k)' = AttemptedOf(k)
  BY DEF Outcome, Attempted
<1>1. CASE actionDispatches[k] = None BY <1>1 DEF OutcomeOf, AttemptedOf
<1>2. CASE actionDispatches[k] # None
  <2>1. actionDispatches[k] \in Executions /\ Dispatched(actionDispatches[k])
    BY <1>2 DEF GateInv, TypeOK, OneDispatchPerAction
  <2> QED BY <1>2, <2>1 DEF OutcomeOf, AttemptedOf
<1> QED BY <1>1, <1>2

(* A function that differs from another at one point.                        *)
LEMMA ExceptIs ==
  ASSUME NEW S, NEW f, NEW g, NEW k \in S, NEW b,
         f = [j \in S |-> f[j]], g = [j \in S |-> g[j]],
         g[k] = b, \A j \in S \ {k} : g[j] = f[j]
  PROVE  g = [f EXCEPT ![k] = b]
<1>1. [f EXCEPT ![k] = b] = [j \in S |-> IF j = k THEN b ELSE f[j]] OBVIOUS
<1> QED BY <1>1

(* A step that moves one dispatched call moves the entry of its key only. *)
LEMMA LedgerMove ==
  ASSUME GateInv, UNCHANGED actionDispatches, NEW e \in Executions, Dispatched(e),
         \A f \in Executions \ {e} : executions'[f] = executions[f] /\ effect'[f] = effect[f]
  PROVE  LET k == KeyOf(executions[e].manifest) IN
         /\ k \in ActionKeys
         /\ Outcome[k] = executions[e].state
         /\ Outcome' = [Outcome EXCEPT ![k] = executions'[e].state]
         /\ effect[e] = "none" => Attempted[k] = FALSE
         /\ effect[e] # "none" => Attempted[k] = TRUE
         /\ effect'[e] # "none" => Attempted' = [Attempted EXCEPT ![k] = TRUE]
         /\ effect'[e] = "none" => Attempted' = [Attempted EXCEPT ![k] = FALSE]
<1> DEFINE k == KeyOf(executions[e].manifest)
<1>1. k \in ActionKeys /\ actionDispatches[k] = e /\ e # None
  BY DispatchedManifest DEF GateInv, CallInv, CallOK, OneDispatchPerAction
<1>2. ASSUME NEW j \in ActionKeys, j # k
      PROVE OutcomeOf(j)' = OutcomeOf(j) /\ AttemptedOf(j)' = AttemptedOf(j)
  <2>1. actionDispatches[j] # e
    BY <1>1, <1>2 DEF GateInv, OneDispatchPerAction
  <2>2. actionDispatches[j] \in Executions \cup {None} BY DEF GateInv, TypeOK
  <2> QED BY <2>1, <2>2 DEF OutcomeOf, AttemptedOf
<1>3. OutcomeOf(k) = executions[e].state BY <1>1 DEF OutcomeOf
<1>4. actionDispatches'[k] = e BY <1>1
<1>5. Outcome' = [Outcome EXCEPT ![k] = executions'[e].state]
  BY <1>1, <1>2, <1>4 DEF Outcome, OutcomeOf
<1>6. /\ effect[e] = "none" => Attempted[k] = FALSE
      /\ effect[e] # "none" => Attempted[k] = TRUE
  BY <1>1 DEF Attempted, AttemptedOf
<1>7. /\ effect'[e] = "none" => Attempted'[k] = FALSE
      /\ effect'[e] # "none" => Attempted'[k] = TRUE
  BY <1>1, <1>4 DEF Attempted, AttemptedOf
<1>8. \A j \in ActionKeys \ {k} : Attempted'[j] = Attempted[j] BY <1>2 DEF Attempted
<1>9. /\ Attempted = [j \in ActionKeys |-> Attempted[j]]
      /\ Attempted' = [j \in ActionKeys |-> Attempted'[j]]
  BY DEF Attempted
<1>10. /\ effect'[e] # "none" => Attempted' = [Attempted EXCEPT ![k] = TRUE]
       /\ effect'[e] = "none" => Attempted' = [Attempted EXCEPT ![k] = FALSE]
  <2> HIDE DEF k, Attempted
  <2> QED BY <1>1, <1>7, <1>8, <1>9, ExceptIs
<1> QED BY <1>1, <1>3, <1>5, <1>6, <1>10 DEF Outcome

(* Admit reserves the action in the ledger.                                  *)
LEMMA AdmitReserves ==
  ASSUME GateInv, GateInv', NEW e \in Executions, Admit(e)
  PROVE  \E k \in ActionKeys : Ledger!Reserve(k)
<1> DEFINE m == call[e].manifest
           k == KeyOf(m)
<1>1. k \in ActionKeys /\ m \in Manifests
  <2>1. Stamped(call[e]) /\ call[e] \in CallRecord
    BY DEF Admit, GateInv, CallInv, PhaseOK, Evaluating, CallOpen, TypeOK
  <2>2. manifests[m] \in ManifestRecord BY <2>1 DEF Stamped, CallRecord, GateInv, TypeOK
  <2> QED BY <2>1, <2>2 DEF CallRecord, KeyOf, ActionKeys, ManifestRecord
<1>2. actionDispatches[k] = None BY DEF Admit, PriorDispatch
<1>3. actionDispatches' = [actionDispatches EXCEPT ![k] = e] BY DEF Admit
<1>4. executions'[e].state = "DISPATCHED" BY DEF Admit, Finish, GateInv, TypeOK
<1>5. \A f \in Executions \ {e} : executions'[f] = executions[f]
  BY DEF Admit, Finish, GateInv, TypeOK
<1>6. effect' = effect /\ effect[e] = "none"
        BY DEF Admit, GateInv, CallInv, PhaseOK, CallOpen, Evaluating
<1>7. ~Dispatched(e)
  BY DEF Admit, GateInv, CallInv, PhaseOK, CallOpen, Evaluating, Dispatched, StateOf,
     DispatchStates,
         InFlightStates, FinalStates
<1>8. ASSUME NEW j \in ActionKeys, j # k
      PROVE  OutcomeOf(j)' = OutcomeOf(j) /\ AttemptedOf(j)' = AttemptedOf(j)
  <2>1. actionDispatches'[j] = actionDispatches[j] BY <1>3, <1>8 DEF GateInv, TypeOK
  <2>2. actionDispatches[j] # None => actionDispatches[j] \in Executions \ {e}
    BY <1>7 DEF GateInv, TypeOK, OneDispatchPerAction
  <2> QED BY <2>1, <2>2, <1>5, <1>6 DEF OutcomeOf, AttemptedOf
<1>9. actionDispatches'[k] = e /\ e # None BY <1>1, <1>3 DEF GateInv, TypeOK
<1>10. OutcomeOf(k) = "none" /\ Outcome'[k] = "DISPATCHED"
  BY <1>1, <1>2, <1>4, <1>9 DEF OutcomeOf, Outcome
<1>11. Attempted[k] = FALSE /\ Attempted'[k] = FALSE
  BY <1>1, <1>2, <1>6, <1>9 DEF AttemptedOf, Attempted
<1>12. Outcome' = [Outcome EXCEPT ![k] = "DISPATCHED"]
  <2>1. \A j \in ActionKeys \ {k} : Outcome'[j] = Outcome[j] BY <1>8 DEF Outcome
  <2>2. /\ Outcome = [j \in ActionKeys |-> Outcome[j]]
        /\ Outcome' = [j \in ActionKeys |-> Outcome'[j]]
    BY DEF Outcome
  <2> HIDE DEF k, Outcome
  <2> QED BY <1>1, <1>10, <2>1, <2>2, ExceptIs
<1>13. \A j \in ActionKeys : Attempted'[j] = Attempted[j] BY <1>8, <1>11 DEF Attempted
<1>14. Attempted' = Attempted
  <2>1. /\ Attempted = [j \in ActionKeys |-> Attempted[j]]
        /\ Attempted' = [j \in ActionKeys |-> Attempted'[j]]
    BY DEF Attempted
  <2> HIDE DEF Attempted
  <2> QED BY <1>13, <2>1
<1>15. Outcome[k] = "none" BY <1>1, <1>10 DEF Outcome
<1> HIDE DEF k
<1>16. Ledger!Reserve(k) BY <1>12, <1>14, <1>15 DEF Ledger!Reserve, Outcome, Attempted
<1> QED BY <1>1, <1>16

(* Calling the executor is the one attempt of the action.                    *)
LEMMA AttemptMade ==
  ASSUME GateInv, NEW e \in Executions, CallExecutor(e)
  PROVE  \E k \in ActionKeys : Ledger!Attempt(k)
<1> DEFINE k == KeyOf(executions[e].manifest)
<1>1. /\ Dispatched(e) /\ executions[e].state = "DISPATCHED" /\ effect[e] = "none"
  BY DEF CallExecutor, GateInv, CallInv, PhaseOK, StateOf, Dispatched, DispatchStates,
     InFlightStates
<1>2. /\ UNCHANGED <<actionDispatches, executions>>
      /\ effect'[e] = "inflight"
      /\ \A f \in Executions \ {e} : effect'[f] = effect[f]
  BY DEF CallExecutor, ledgerVars, GateInv, TypeOK
<1>3. /\ k \in ActionKeys /\ Outcome[k] = "DISPATCHED" /\ Attempted[k] = FALSE
      /\ Outcome' = [Outcome EXCEPT ![k] = "DISPATCHED"]
      /\ Attempted' = [Attempted EXCEPT ![k] = TRUE]
  BY <1>1, <1>2, LedgerMove
<1> HIDE DEF k
<1>4. Outcome' = Outcome BY <1>3 DEF Outcome
<1>5. Ledger!Attempt(k) BY <1>3, <1>4 DEF Ledger!Attempt, Outcome, Attempted
<1> QED BY <1>3, <1>5

(* The executor's answer is the report of the action.                        *)
LEMMA OutcomeReported ==
  ASSUME GateInv, NEW e \in Executions, NEW s \in States, ExecutorReturns(e, s)
  PROVE  \E k \in ActionKeys, r \in Ledger!Reported : Ledger!Report(k, r)
<1> DEFINE k == KeyOf(executions[e].manifest)
<1>1. /\ Dispatched(e) /\ executions[e].state = "DISPATCHED" /\ executions[e] \in ExecutionRecord
  BY DEF ExecutorReturns, GateInv, CallInv, PhaseOK, StateOf, Dispatched, DispatchStates,
     InFlightStates, TypeOK
<1>2. /\ UNCHANGED <<actionDispatches, effect>>
      /\ \A f \in Executions \ {e} : executions'[f] = executions[f]
      /\ executions'[e] = [executions[e] EXCEPT !.state = s, !.completedAt = clock]
  BY DEF ExecutorReturns, Finish, GateInv, TypeOK
<1>3. executions'[e].state = s BY <1>1, <1>2 DEF ExecutionRecord
<1>4. \/ effect[e] # "none" /\ s \in {"ACKNOWLEDGED", "EXECUTION_UNKNOWN"}
      \/ effect[e] = "none" /\ s = "NOT_ATTEMPTED"
  BY DEF ExecutorReturns, GateInv, CallInv, PhaseOK
<1>5. /\ k \in ActionKeys /\ Outcome[k] = "DISPATCHED"
      /\ Outcome' = [Outcome EXCEPT ![k] = s]
      /\ effect[e] = "none" => Attempted[k] = FALSE
      /\ effect[e] # "none" => Attempted[k] = TRUE
      /\ effect'[e] # "none" => Attempted' = [Attempted EXCEPT ![k] = TRUE]
      /\ effect'[e] = "none" => Attempted' = [Attempted EXCEPT ![k] = FALSE]
  BY <1>1, <1>2, <1>3, LedgerMove
<1> HIDE DEF k
<1>6. effect'[e] = effect[e] BY <1>2
<1>7. Attempted' = [Attempted EXCEPT ![k] = Attempted[k]] BY <1>5, <1>6
<1>8. Attempted' = Attempted BY <1>7 DEF Attempted
<1>9. s \in Ledger!Reported /\ (s = "ACKNOWLEDGED" => Attempted[k])
        /\ (s = "NOT_ATTEMPTED" => ~Attempted[k])
  BY <1>4, <1>5 DEF Ledger!Reported
<1>10. Ledger!Report(k, s) BY <1>5, <1>8, <1>9 DEF Ledger!Report, Outcome, Attempted
<1> QED BY <1>5, <1>9, <1>10

(* Every step of the gate is a step of the ledger or invisible in it.        *)
LEMMA RefinementStep ==
  ASSUME GateInv, GateInv', [Next]_vars
  PROVE  [Ledger!LedgerNext]_(Ledger!ledgerVars)
<1>1. ASSUME UNCHANGED <<Outcome, Attempted>> PROVE UNCHANGED Ledger!ledgerVars
  BY <1>1 DEF Ledger!ledgerVars, Outcome, Attempted
<1>2. CASE UNCHANGED vars
  BY <1>1, <1>2, LedgerStutter DEF vars, ledgerVars, threadVars
<1>3. CASE Elsewhere
  BY <1>1, <1>3, LedgerStutter, ElsewhereKeeps DEF threadVars
<1>4. ASSUME NEW e \in Executions, Serves(e) PROVE [Ledger!LedgerNext]_(Ledger!ledgerVars)
  <2>1. CASE Admit(e) BY <2>1, AdmitReserves DEF Ledger!LedgerNext
  <2>2. CASE CallExecutor(e) BY <2>2, AttemptMade DEF Ledger!LedgerNext
  <2>3. CASE \E s \in States : ExecutorReturns(e, s)
          BY <2>3, OutcomeReported DEF Ledger!LedgerNext
  <2>4. ASSUME ~Dispatched(e), effect' = effect, UNCHANGED actionDispatches
        PROVE  UNCHANGED Ledger!ledgerVars
    <3>1. \A f \in Executions : Dispatched(f) => executions'[f] = executions[f]
      BY <1>4, <2>4, OthersUntouched DEF CallKept, GateInv
    <3> QED BY <1>1, <2>4, <3>1, LedgerStutter
  <2>5. CASE \E m \in Manifests, a \in Approvals \cup {None} :
               \/ ExecuteStart(e, m, a)
               \/ \E decision \in {"DENY", "INDETERMINATE"} : ExecuteRefused(e, m, a, decision)
    BY <2>4, <2>5 DEF ExecuteStart, ExecuteRefused, ledgerVars, GateInv, CallInv, PhaseOK,
       Dispatched, StateOf,
                      DispatchStates, InFlightStates, FinalStates
  <2>6. pc[e] \in Evaluating => ~Dispatched(e)
    BY DEF GateInv, CallInv, PhaseOK, CallOpen, Dispatched, StateOf, DispatchStates,
       InFlightStates, FinalStates
  <2>7. CASE \/ AdmitRefused(e)
             \/ \E d \in Verdicts : \/ Decide(e, d) \/ ReadApproval(e, d)
                                  \/ RecheckProfile(e, d) \/ StampDispatch(e, d)
    BY <2>4, <2>6, <2>7 DEF AdmitRefused, Decide, ReadApproval, RecheckProfile, StampDispatch,
       ledgerVars, Evaluating
  <2>8. ASSUME NEW fate \in {"committed", "fenced"},
               Downstream(e, fate) PROVE UNCHANGED Ledger!ledgerVars
    <3>1. /\ UNCHANGED <<executions, actionDispatches>>
          /\ effect[e] # "none" /\ effect'[e] # "none"
          /\ \A f \in Executions \ {e} : effect'[f] = effect[f]
      BY <2>8 DEF Downstream, ledgerVars, GateInv, TypeOK
    <3> QED BY <1>1, <3>1, LedgerStutter
  <2> QED BY <1>4, <2>1, <2>2, <2>3, <2>5, <2>7, <2>8 DEF Serves, ThreadStep
<1> QED BY <1>2, <1>3, <1>4, NextSplits

(* The gate implements the action ledger: seen from outside, each business   *)
(* action is reserved once, attempted at most once and reported once.        *)
THEOREM GateImplementsLedger == Spec => ImplementsLedger
BY InitInv, LedgerInitial, GateInvStep, RefinementStep, PTL DEF Spec, ImplementsLedger,
   Ledger!LedgerSpec
=============================================================================
