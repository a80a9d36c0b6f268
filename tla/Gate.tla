-------------------------------- MODULE Gate --------------------------------
(***************************************************************************)
(* The volatile conformance gate (gate.py): profiles are published and     *)
(* revoked, manifests proposed, approvals recorded, and any number of      *)
(* concurrent execute() calls race from the first profile read to the      *)
(* executor's answer.  Every execute() call is a thread with a program     *)
(* counter; a step of the model is one atomic region of the code: one read *)
(* of shared state with the local computation after it, or one critical    *)
(* section of Gate._lock.  Answers of live dependencies (StateProvider,    *)
(* ProfileStore) are nondeterministic: granted, refused or unresolved.     *)
(*                                                                         *)
(* A manifest's profile version stands for the (version, digest) pair that *)
(* the code compares; a seal stands for the sealed record itself.          *)
(***************************************************************************)
EXTENDS Naturals, Sequences, FiniteSets

CONSTANTS Profiles,        \* profile ids
          Versions,        \* contents a profile id can be published with
          Manifests,       \* manifest ids
          ActionIds,       \* business action ids, chosen by the requester
          Approvals,       \* approval ids
          Executions,      \* execution ids, one per execute() call
          Modes,           \* autonomy modes build_manifest can derive
          Principals,      \* identities that can appear in approved_by
          Agent,           \* the agent's own execution identity
          DualApproval,    \* the profile asks for two approvers
          MaxTime,         \* bound of the clock
          ReviewWindow,    \* review_expires_at - issued_at
          AuthorityWindow, \* max_execution_authority_seconds
          ApprovalTimeout, \* approval_timeout_minutes
          None             \* the absent record

Time     == 0 .. MaxTime
Verdicts == {"ok", "unresolved", "denied"}   \* the denied/unresolved lists of execute()
ApprovalModes == {"recommend", "request_approval"}
ActionKeys == Profiles \X ActionIds          \* keys of _action_dispatches

InFlightStates == {"DISPATCHED", "ACKNOWLEDGED", "EXECUTION_UNKNOWN"}
FinalStates    == {"COMMITTED", "NOT_COMMITTED"}
DispatchStates == InFlightStates \cup FinalStates \cup {"NOT_ATTEMPTED"}
States         == DispatchStates \cup {"NOT_DISPATCHED"}

ManifestRecord ==
  [profile : Profiles, version : Versions, action : ActionIds, mode : Modes, issued : Time]
ApprovalRecord ==
  [manifest : Manifests, approvedBy : SUBSET Principals, at : Time,
   decision : {"approved", "rejected"}, consumedBy : Executions \cup {None}]
ExecutionRecord ==
  [manifest : Manifests, approval : Approvals \cup {None}, state : States,
   decision : {"ALLOW", "DENY", "INDETERMINATE"}, dispatchedAt : Time \cup {None},
   completedAt : Time \cup {None}, duplicateOf : Executions \cup {None}]
CallRecord ==                                \* the locals of one execute() call
  [manifest : Manifests, approval : Approvals \cup {None}, at : Time,
   entry : ApprovalRecord \cup {None}, verdict : Verdicts,
   validUntil : Nat \cup {None}, dispatchTime : Time \cup {None}]

ASSUME NoneAssumption ==
  /\ None \notin Versions /\ None \notin Manifests
  /\ None \notin Approvals /\ None \notin Executions /\ None \notin Nat
  /\ None \notin ManifestRecord /\ None \notin ApprovalRecord
  /\ None \notin ExecutionRecord /\ None \notin CallRecord
ASSUME TimeAssumption ==
  /\ MaxTime \in Nat /\ ReviewWindow \in Nat
  /\ AuthorityWindow \in Nat /\ ApprovalTimeout \in Nat
ASSUME PolicyAssumption ==
  /\ Modes \subseteq {"recommend", "request_approval", "execute_allowlisted"}
  /\ DualApproval \in BOOLEAN

VARIABLES clock,            \* the gate's wall clock; an operator may set it back
          active,           \* ProfileStore: the version in force, None when revoked
          registered,       \* whether an executor is registered for the operation
          manifests,        \* _manifests
          approvals,        \* _approvals
          executions,       \* _executions: the latest record of each call
          history,          \* _execution_events, per execution, newest last
          dispatches,       \* _dispatches: manifest_id -> execution_id
          actionDispatches, \* _action_dispatches: (profile_id, action_id) -> execution_id
          pc,               \* where each execute() call stands
          call,             \* its locals
          effect            \* what became of the attempt downstream (external)

adminVars  == <<active, registered>>
ledgerVars == <<manifests, approvals, executions, history, dispatches, actionDispatches>>
threadVars == <<pc, call, effect>>
vars       == <<clock, adminVars, ledgerVars, threadVars>>

Steps   == {"idle", "started", "decided", "approved", "rechecked", "stamped",
            "admitted", "calling", "done"}
Effects == {"none", "inflight", "committed", "fenced"}

TypeOK ==
  /\ clock \in Time
  /\ active \in [Profiles -> Versions \cup {None}]
  /\ registered \in BOOLEAN
  /\ manifests \in [Manifests -> ManifestRecord \cup {None}]
  /\ approvals \in [Approvals -> ApprovalRecord \cup {None}]
  /\ executions \in [Executions -> ExecutionRecord \cup {None}]
  /\ history \in [Executions -> Seq(States)]
  /\ dispatches \in [Manifests -> Executions \cup {None}]
  /\ actionDispatches \in [ActionKeys -> Executions \cup {None}]
  /\ pc \in [Executions -> Steps]
  /\ call \in [Executions -> CallRecord \cup {None}]
  /\ effect \in [Executions -> Effects]

Init ==
  /\ clock = 0
  /\ active = [p \in Profiles |-> None]
  /\ registered = FALSE
  /\ manifests = [m \in Manifests |-> None]
  /\ approvals = [a \in Approvals |-> None]
  /\ executions = [e \in Executions |-> None]
  /\ history = [e \in Executions |-> <<>>]
  /\ dispatches = [m \in Manifests |-> None]
  /\ actionDispatches = [k \in ActionKeys |-> None]
  /\ pc = [e \in Executions |-> "idle"]
  /\ call = [e \in Executions |-> None]
  /\ effect = [e \in Executions |-> "none"]
-----------------------------------------------------------------------------
(* Pure helpers of the checks.                                             *)

Worse(v, w) == IF "denied" \in {v, w} THEN "denied"
               ELSE IF "unresolved" \in {v, w} THEN "unresolved" ELSE "ok"
Decision(v) == IF v = "denied" THEN "DENY"
               ELSE IF v = "unresolved" THEN "INDETERMINATE" ELSE "ALLOW"

KeyOf(m)         == <<manifests[m].profile, manifests[m].action>>
NeedsApproval(m) == manifests[m].mode \in ApprovalModes
ReviewExpires(m) == manifests[m].issued + ReviewWindow
ProfileInForce(m) == active[manifests[m].profile] = manifests[m].version

(* execution_valid_until: the review window cut by the authority of a       *)
(* decision taken at time `at'.                                            *)
ValidUntil(m, at) == IF at + AuthorityWindow < ReviewExpires(m)
                     THEN at + AuthorityWindow ELSE ReviewExpires(m)

(* _validate_approval, the part that does not ask the identity provider.    *)
ApprovalValid(m, rec, at) ==
  /\ rec.decision = "approved"
  /\ rec.manifest = m
  /\ manifests[m].issued <= rec.at /\ rec.at <= ReviewExpires(m)
  /\ rec.at <= at /\ at <= rec.at + ApprovalTimeout
  /\ rec.approvedBy # {}
  /\ Agent \notin rec.approvedBy
  /\ DualApproval => \E p, q \in rec.approvedBy : p # q

(* Definitions marked "Mutant" are wrong on purpose: each is a bug the code   *)
(* could have had, and some property of a run must notice it.                *)

(* Mutant: the history logs the decision of the record, not its state.       *)
FinishWithDecision(e, rec) ==
  /\ executions' = [executions EXCEPT ![e] = rec]
  /\ history' = [history EXCEPT ![e] = Append(@, rec.decision)]

(* _finish: store the record and append the snapshot to the event history.  *)
Finish(e, rec) ==
  /\ executions' = [executions EXCEPT ![e] = rec]
  /\ history' = [history EXCEPT ![e] = Append(@, rec.state)]

(* The record of a call that authorises nothing.                            *)
NotDispatched(m, a, decision, duplicate) ==
  [manifest |-> m, approval |-> a, state |-> "NOT_DISPATCHED", decision |-> decision,
   dispatchedAt |-> None, completedAt |-> None, duplicateOf |-> duplicate]
-----------------------------------------------------------------------------
(* Administration and the requester.                                       *)

ClockStep == /\ \E t \in Time : clock' = t
             /\ UNCHANGED <<adminVars, ledgerVars, threadVars>>

PublishProfile(p, v) ==
  /\ active' = [active EXCEPT ![p] = v]
  /\ UNCHANGED <<clock, registered, ledgerVars, threadVars>>

RevokeProfile(p) ==
  /\ active' = [active EXCEPT ![p] = None]
  /\ UNCHANGED <<clock, registered, ledgerVars, threadVars>>

RegisterExecutor ==
  /\ registered' = TRUE
  /\ UNCHANGED <<clock, active, ledgerVars, threadVars>>

(* propose(): everything that bears authority is derived from the profile   *)
(* in force; a manifest id is never overwritten.  The decision it returns   *)
(* is stored under a fresh id and read by nobody.                           *)
Propose(m, p, a, mode) ==
  /\ active[p] # None
  /\ manifests[m] = None
  /\ manifests' = [manifests EXCEPT ![m] =
       [profile |-> p, version |-> active[p], action |-> a, mode |-> mode, issued |-> clock]]
  /\ UNCHANGED <<clock, adminVars, approvals, executions, history, dispatches,
                 actionDispatches, threadVars>>

(* Mutant: an approval id can be recorded again, and is fresh again.         *)
RecordApprovalAgain(a, m, who, t, decision) ==
  /\ approvals' = [approvals EXCEPT ![a] =
       [manifest |-> m, approvedBy |-> who, at |-> t, consumedBy |-> None,
        decision |-> IF manifests[m] = None \/ who = {} THEN "rejected" ELSE decision]]
  /\ UNCHANGED <<clock, adminVars, manifests, executions, history, dispatches,
                 actionDispatches, threadVars>>

(* record_approval() stores a record whatever it is given; one that names   *)
(* an unknown manifest or no approver is stored as rejected.                *)
RecordApproval(a, m, who, t, decision) ==
  /\ approvals[a] = None
  /\ approvals' = [approvals EXCEPT ![a] =
       [manifest |-> m, approvedBy |-> who, at |-> t, consumedBy |-> None,
        decision |-> IF manifests[m] = None \/ who = {} THEN "rejected" ELSE decision]]
  /\ UNCHANGED <<clock, adminVars, manifests, executions, history, dispatches,
                 actionDispatches, threadVars>>
-----------------------------------------------------------------------------
(* execute(), one action per atomic region.                                *)

(* The call ends before anything is evaluated: unknown manifest, profile    *)
(* store unavailable, or the profile in force is another one.               *)
ExecuteRefused(e, m, a, decision) ==
  /\ pc[e] = "idle"
  /\ decision = "DENY" => ~(manifests[m] # None /\ ProfileInForce(m))
  /\ decision = "INDETERMINATE" => manifests[m] # None
  /\ Finish(e, NotDispatched(m, a, decision, None))
  /\ pc' = [pc EXCEPT ![e] = "done"]
  /\ UNCHANGED <<clock, adminVars, manifests, approvals, dispatches, actionDispatches,
                 call, effect>>

ExecuteStart(e, m, a) ==
  /\ pc[e] = "idle"
  /\ manifests[m] # None
  /\ ProfileInForce(m)
  /\ call' = [call EXCEPT ![e] =
       [manifest |-> m, approval |-> a, at |-> clock, entry |-> None, validUntil |-> None,
        dispatchTime |-> None,
        verdict |-> IF manifests[m].mode = "recommend" \/ clock >= ReviewExpires(m)
                    THEN "denied" ELSE "ok"]]
  /\ pc' = [pc EXCEPT ![e] = "started"]
  /\ UNCHANGED <<clock, adminVars, ledgerVars, effect>>

(* _decide: the profile is read again, containment and the live dependencies *)
(* give the fresh decision; only an ALLOW carries execution_valid_until.     *)
Decide(e, d) ==
  /\ pc[e] = "started"
  /\ d = "ok" => ProfileInForce(call[e].manifest)
  /\ call' = [call EXCEPT ![e].verdict = Worse(@, d), ![e].validUntil =
       IF d = "ok" THEN ValidUntil(call[e].manifest, call[e].at) ELSE None]
  /\ pc' = [pc EXCEPT ![e] = "decided"]
  /\ UNCHANGED <<clock, adminVars, ledgerVars, effect>>

(* The executor and a copy of the approval are read under the lock; the copy *)
(* is validated, then the credential is checked.  The identity provider can  *)
(* fail and hide a static reason, but not a missing or consumed approval.    *)
ReadApproval(e, d) ==
  LET m     == call[e].manifest
      a     == call[e].approval
      entry == IF a = None THEN None ELSE approvals[a]
      needs == NeedsApproval(m)
  IN /\ pc[e] = "decided"
     /\ ~registered \/ (needs /\ (entry = None \/ entry.consumedBy # None)) => d = "denied"
     /\ needs /\ entry # None /\ ~ApprovalValid(m, entry, call[e].at) => d # "ok"
     /\ call' = [call EXCEPT ![e].entry = entry, ![e].verdict = Worse(@, d)]
     /\ pc' = [pc EXCEPT ![e] = "approved"]
     /\ UNCHANGED <<clock, adminVars, ledgerVars, effect>>

(* The profile is read once more after the slow dependencies.                *)
RecheckProfile(e, d) ==
  /\ pc[e] = "approved"
  /\ d = "ok" => ProfileInForce(call[e].manifest)
  /\ d = "denied" => ~ProfileInForce(call[e].manifest)
  /\ call' = [call EXCEPT ![e].verdict = Worse(@, d)]
  /\ pc' = [pc EXCEPT ![e] = "rechecked"]
  /\ UNCHANGED <<clock, adminVars, ledgerVars, effect>>

(* Mutant: the authority window of the decision is not looked at again.      *)
TimeVerdictWithoutAuthority(c, now) ==
  IF \/ now >= ReviewExpires(c.manifest)
     \/ NeedsApproval(c.manifest) /\ c.entry # None /\ now > c.entry.at + ApprovalTimeout
  THEN "denied" ELSE IF now < c.at THEN "unresolved" ELSE "ok"

(* What the clock says at dispatch time.                                     *)
TimeVerdict(c, now) ==
  IF \/ now >= ReviewExpires(c.manifest)
     \/ c.validUntil # None /\ now >= c.validUntil
     \/ NeedsApproval(c.manifest) /\ c.entry # None /\ now > c.entry.at + ApprovalTimeout
  THEN "denied" ELSE IF now < c.at THEN "unresolved" ELSE "ok"

(* Emergency stop (answer d), then the dispatch time, then the verdict.      *)
StampDispatch(e, d) ==
  LET c == call[e]
      v == Worse(Worse(c.verdict, d), TimeVerdict(c, clock))
  IN /\ pc[e] = "rechecked"
     /\ call' = [call EXCEPT ![e].dispatchTime = clock, ![e].verdict = v]
     /\ \/ /\ v = "ok"
           /\ pc' = [pc EXCEPT ![e] = "stamped"]
           /\ UNCHANGED <<executions, history>>
        \/ /\ v # "ok"
           /\ pc' = [pc EXCEPT ![e] = "done"]
           /\ Finish(e, NotDispatched(c.manifest, c.approval, Decision(v), None))
     /\ UNCHANGED <<clock, adminVars, manifests, approvals, dispatches, actionDispatches,
                    effect>>

(* Mutant: another manifest of the same business action is not looked for.   *)
PriorDispatchOfManifest(m) == dispatches[m]

(* What the reservation lock still finds against the call.                   *)
PriorDispatch(m) == IF dispatches[m] # None THEN dispatches[m]
                    ELSE actionDispatches[KeyOf(m)]
ApprovalSpent(c) == NeedsApproval(c.manifest) /\ approvals[c.approval].consumedBy # None

(* Mutant: a call that lost to another manifest of its action never returns. *)
AdmitRefusedForManifest(e) ==
  LET c == call[e] IN
  /\ pc[e] = "stamped"
  /\ dispatches[c.manifest] # None \/ ApprovalSpent(c)
  /\ Finish(e, NotDispatched(c.manifest, c.approval, "DENY", PriorDispatch(c.manifest)))
  /\ pc' = [pc EXCEPT ![e] = "done"]
  /\ UNCHANGED <<clock, adminVars, manifests, approvals, dispatches, actionDispatches,
                 call, effect>>

AdmitRefused(e) ==
  LET c == call[e] IN
  /\ pc[e] = "stamped"
  /\ PriorDispatch(c.manifest) # None \/ ApprovalSpent(c)
  /\ Finish(e, NotDispatched(c.manifest, c.approval, "DENY", PriorDispatch(c.manifest)))
  /\ pc' = [pc EXCEPT ![e] = "done"]
  /\ UNCHANGED <<clock, adminVars, manifests, approvals, dispatches, actionDispatches,
                 call, effect>>

(* The atomic local reservation: approval, manifest and action together.     *)
Admit(e) ==
  LET c == call[e]
      m == c.manifest
  IN /\ pc[e] = "stamped"
     /\ PriorDispatch(m) = None
     /\ ~ApprovalSpent(c)
     /\ approvals' = IF NeedsApproval(m)
                     THEN [approvals EXCEPT ![c.approval].consumedBy = e] ELSE approvals
     /\ dispatches' = [dispatches EXCEPT ![m] = e]
     /\ actionDispatches' = [actionDispatches EXCEPT ![KeyOf(m)] = e]
     /\ Finish(e, [manifest |-> m, approval |-> c.approval, state |-> "DISPATCHED",
                   decision |-> "ALLOW", dispatchedAt |-> c.dispatchTime,
                   completedAt |-> None, duplicateOf |-> None])
     /\ pc' = [pc EXCEPT ![e] = "admitted"]
     /\ UNCHANGED <<clock, adminVars, manifests, call, effect>>

(* The executor runs outside the lock.  ExecutorNotAttempted is the trusted  *)
(* adapter's word that nothing was sent; any other exception, or a receipt   *)
(* that cannot be captured, leaves the outcome unknown.                      *)
CallExecutor(e) ==
  /\ pc[e] = "admitted"
  /\ effect' = [effect EXCEPT ![e] = "inflight"]
  /\ pc' = [pc EXCEPT ![e] = "calling"]
  /\ UNCHANGED <<clock, adminVars, ledgerVars, call>>

(* Mutant: any exception of the executor is taken for ExecutorNotAttempted.  *)
ExecutorReturnsUnattempted(e, state) ==
  /\ \/ pc[e] = "calling" /\ state \in {"ACKNOWLEDGED", "NOT_ATTEMPTED"}
     \/ pc[e] = "admitted" /\ state = "NOT_ATTEMPTED"
  /\ Finish(e, [executions[e] EXCEPT !.state = state, !.completedAt = clock])
  /\ pc' = [pc EXCEPT ![e] = "done"]
  /\ UNCHANGED <<clock, adminVars, manifests, approvals, dispatches, actionDispatches,
                 call, effect>>

ExecutorReturns(e, state) ==
  /\ \/ pc[e] = "calling" /\ state \in {"ACKNOWLEDGED", "EXECUTION_UNKNOWN"}
     \/ pc[e] = "admitted" /\ state = "NOT_ATTEMPTED"
  /\ Finish(e, [executions[e] EXCEPT !.state = state, !.completedAt = clock])
  /\ pc' = [pc EXCEPT ![e] = "done"]
  /\ UNCHANGED <<clock, adminVars, manifests, approvals, dispatches, actionDispatches,
                 call, effect>>

(* The downstream system decides the attempt once, at its own pace.          *)
Downstream(e, fate) ==
  /\ effect[e] = "inflight"
  /\ effect' = [effect EXCEPT ![e] = fate]
  /\ UNCHANGED <<clock, adminVars, ledgerVars, pc, call>>
-----------------------------------------------------------------------------
Administer == \/ ClockStep
              \/ RegisterExecutor
              \/ \E p \in Profiles : \/ RevokeProfile(p)
                                     \/ \E v \in Versions : PublishProfile(p, v)

Request == \/ \E m \in Manifests, p \in Profiles, a \in ActionIds, mode \in Modes :
                Propose(m, p, a, mode)
           \/ \E a \in Approvals, m \in Manifests, who \in SUBSET Principals, t \in Time,
                 decision \in {"approved", "rejected"} : RecordApproval(a, m, who, t, decision)
           \/ \E e \in Executions, m \in Manifests, a \in Approvals \cup {None} :
                \/ ExecuteStart(e, m, a)
                \/ \E decision \in {"DENY", "INDETERMINATE"} : ExecuteRefused(e, m, a, decision)

(* The gate's own progress on a call that was accepted for evaluation.       *)
ThreadStep(e) == \/ \E d \in Verdicts : \/ Decide(e, d)
                                        \/ ReadApproval(e, d)
                                        \/ RecheckProfile(e, d)
                                        \/ StampDispatch(e, d)
                 \/ Admit(e)
                 \/ AdmitRefused(e)
                 \/ CallExecutor(e)
                 \/ \E s \in States : ExecutorReturns(e, s)

Next == \/ Administer
        \/ Request
        \/ \E e \in Executions : \/ ThreadStep(e)
                                 \/ \E fate \in {"committed", "fenced"} : Downstream(e, fate)

Spec == Init /\ [][Next]_vars

(* Threads are scheduled, and adapters have timeouts of their own, as        *)
(* StateProvider requires of them.                                           *)
FairSpec == Spec /\ \A e \in Executions : WF_vars(ThreadStep(e))
-----------------------------------------------------------------------------
(* Properties.                                                             *)

StateOf(e)    == IF executions[e] = None THEN "none" ELSE executions[e].state
Dispatched(e) == StateOf(e) \in DispatchStates

(* A reservation and a dispatched record imply each other, so that no two   *)
(* calls, with one manifest or with two manifests for the same action, ever *)
(* both dispatch (execute(), reservation region).                          *)
OneDispatchPerAction ==
  /\ \A e \in Executions : Dispatched(e) =>
       /\ dispatches[executions[e].manifest] = e
       /\ actionDispatches[KeyOf(executions[e].manifest)] = e
  /\ \A m \in Manifests : dispatches[m] # None =>
       Dispatched(dispatches[m]) /\ executions[dispatches[m]].manifest = m
  /\ \A k \in ActionKeys : actionDispatches[k] # None =>
       /\ Dispatched(actionDispatches[k])
       /\ KeyOf(executions[actionDispatches[k]].manifest) = k

(* "One approval, one action": an approval is consumed exactly by the call  *)
(* dispatched under it, and what it says held at the dispatch time: it was  *)
(* for this manifest, by people other than the agent, and had not expired.  *)
OneApprovalOneDispatch ==
  /\ \A e \in Executions : Dispatched(e) /\ NeedsApproval(executions[e].manifest) =>
       LET rec == approvals[executions[e].approval] IN
         /\ rec.consumedBy = e
         /\ ApprovalValid(executions[e].manifest, rec, executions[e].dispatchedAt)
  /\ \A a \in Approvals : approvals[a] # None /\ approvals[a].consumedBy # None =>
       Dispatched(approvals[a].consumedBy) /\ executions[approvals[a].consumedBy].approval = a

(* However long the dependencies took and wherever the clock was set, the   *)
(* recorded dispatch time lies inside the review and the authority window,  *)
(* and not before the request.                                             *)
DispatchWithinWindows ==
  \A e \in Executions : Dispatched(e) =>
    /\ call[e].at <= executions[e].dispatchedAt
    /\ executions[e].dispatchedAt < ReviewExpires(executions[e].manifest)
    /\ executions[e].dispatchedAt < call[e].at + AuthorityWindow

(* The executor is never invoked without a stored reservation of its own,   *)
(* and a refused or not-attempted call has no downstream effect.            *)
EffectsAreReserved ==
  \A e \in Executions : effect[e] # "none" =>
    /\ StateOf(e) \in InFlightStates \cup FinalStates
    /\ dispatches[executions[e].manifest] = e

(* Every call accepted for evaluation ends, whatever the others do, and a    *)
(* dispatched one is reported.                                              *)
EveryCallEnds == \A e \in Executions : (pc[e] = "started") ~> (pc[e] = "done")

(* The invariant that carries the properties above: what each phase of a    *)
(* call has established.  The approval and the windows are checked early,   *)
(* reserved late; between the two only fields nobody ever changes count.    *)
CallOpen(e) == /\ executions[e] = None
               /\ effect[e] = "none"
               /\ call[e] # None
               /\ manifests[call[e].manifest] # None

DecisionHolds(c) == c.validUntil = ValidUntil(c.manifest, c.at)

ApprovalHolds(c, at) ==
  NeedsApproval(c.manifest) =>
    /\ c.approval # None
    /\ approvals[c.approval] # None
    /\ ApprovalValid(c.manifest, approvals[c.approval], at)

Stamped(c) == /\ manifests[c.manifest] # None
              /\ c.dispatchTime # None
              /\ c.at <= c.dispatchTime
              /\ c.dispatchTime < ReviewExpires(c.manifest)
              /\ c.dispatchTime < c.at + AuthorityWindow
              /\ ApprovalHolds(c, c.dispatchTime)

Evaluating == {"started", "decided", "approved", "rechecked", "stamped"}

PhaseOK(e) ==
  /\ pc[e] = "idle" => executions[e] = None /\ effect[e] = "none"
  /\ pc[e] \in Evaluating => CallOpen(e)
  /\ pc[e] \in {"decided", "approved", "rechecked"} /\ call[e].verdict = "ok" =>
       DecisionHolds(call[e])
  /\ pc[e] \in {"approved", "rechecked"} /\ call[e].verdict = "ok" =>
       /\ ApprovalHolds(call[e], call[e].at)
       /\ NeedsApproval(call[e].manifest) =>
            /\ call[e].entry # None
            /\ call[e].entry.at = approvals[call[e].approval].at
  /\ pc[e] = "stamped" => Stamped(call[e])
  /\ pc[e] = "admitted" => StateOf(e) = "DISPATCHED" /\ effect[e] = "none"
  /\ pc[e] = "calling" => StateOf(e) = "DISPATCHED" /\ effect[e] # "none"
  /\ pc[e] = "done" => executions[e] # None /\ StateOf(e) # "DISPATCHED"

(* A dispatched record is the one its call was authorised for.              *)
DispatchOK(e) ==
  Dispatched(e) =>
    /\ pc[e] \in {"admitted", "calling", "done"}
    /\ call[e] # None
    /\ executions[e].manifest = call[e].manifest
    /\ executions[e].approval = call[e].approval
    /\ executions[e].dispatchedAt = call[e].dispatchTime
    /\ Stamped(call[e])

(* Only an attempt that was made is acknowledged or settled as committed.    *)
EffectOK(e) ==
  /\ effect[e] # "none" => StateOf(e) \in InFlightStates \cup FinalStates
  /\ StateOf(e) \in {"ACKNOWLEDGED", "COMMITTED"} => effect[e] # "none"

CallInv == \A e \in Executions : PhaseOK(e) /\ DispatchOK(e) /\ EffectOK(e)

(* The gate implements the action ledger.                                   *)
OutcomeOf(k) == IF actionDispatches[k] = None THEN "none"
                ELSE executions[actionDispatches[k]].state
AttemptedOf(k) == actionDispatches[k] # None /\ effect[actionDispatches[k]] # "none"
Ledger == INSTANCE ActionLedger WITH
            Actions   <- ActionKeys,
            outcome   <- [k \in ActionKeys |-> OutcomeOf(k)],
            attempted <- [k \in ActionKeys |-> AttemptedOf(k)]
ImplementsLedger == Ledger!LedgerSpec

GateInv == TypeOK /\ CallInv /\ OneDispatchPerAction /\ OneApprovalOneDispatch
=============================================================================
