--------------------------- MODULE GateSettlement ---------------------------
(***************************************************************************)
(* The second half of gate.py, composed with Gate: reconcile() settles an  *)
(* EXECUTION_UNKNOWN from terminal downstream evidence, verify_outcome()   *)
(* turns independent observations into an outcome record.  Both read an    *)
(* execution, leave the lock to talk to a slow provider, and come back to  *)
(* a ledger that other callers may have changed.  The provider is trusted  *)
(* the way its interface demands (StateProvider.reconcile, observe): it    *)
(* says what is true downstream when it is read, terminal evidence stays   *)
(* true, but it may be unavailable, inconclusive, or dated by a clock of   *)
(* its own.                                                                *)
(***************************************************************************)
EXTENDS Gate

CONSTANTS Reconciliations,   \* reconciliation ids, one per reconcile() call
          Verifications,     \* verification ids, one per verify_outcome() call
          ClockSkew,         \* observation_clock_skew_seconds
          MaxEvidenceAge,    \* reconciliation_max_age_seconds
          MaxObservationAge, \* the plan's max_observation_age_seconds
          TestTimeout        \* the test's post-dispatch deadline, timeout_minutes

ASSUME EvidenceAssumption ==
  /\ ClockSkew \in Nat /\ MaxEvidenceAge \in Nat /\ MaxObservationAge \in Nat
  /\ TestTimeout \in Nat

VARIABLES reconciliations,   \* _reconciliations: one sealed record per attempt
          rpc, rcall,        \* reconcile() threads: program counter and locals
          outcomes,          \* _outcomes: one record per verification
          vpc, vcall         \* verify_outcome() threads

reconcileVars  == <<reconciliations, rpc, rcall>>
verifyVars     == <<outcomes, vpc, vcall>>
settlementVars == <<vars, reconcileVars, verifyVars>>

Verifiable == {"ACKNOWLEDGED", "EXECUTION_UNKNOWN", "COMMITTED"}

(* What a thread keeps of the execution it examined.  The seal covers the   *)
(* record and its record_sequence.                                          *)
Snapshot(e) == [record |-> executions[e], sequence |-> Len(history[e])]

ReconciliationRecord ==
  [execution : Executions, applied : BOOLEAN, stateAfter : States \cup {"none"}]
OutcomeRecord ==
  [execution : Executions, verified : BOOLEAN, observedAt : Time \cup {None}]
SnapshotRecord ==
  [record : ExecutionRecord \cup {None}, sequence : Nat]
ReconcileCall ==
  [execution : Executions, seen : SnapshotRecord, startedAt : Time,
   disposition : FinalStates \cup {None}, completedAt : Time \cup {None}]
VerifyCall ==
  [execution : Executions, seen : SnapshotRecord, observedAt : Time \cup {None},
   verdict : BOOLEAN]

ASSUME NoneIsNoCall ==
  /\ None \notin ReconciliationRecord /\ None \notin OutcomeRecord
  /\ None \notin ReconcileCall /\ None \notin VerifyCall /\ None \notin FinalStates

SettlementTypeOK ==
  /\ reconciliations \in [Reconciliations -> ReconciliationRecord \cup {None}]
  /\ rpc \in [Reconciliations -> {"idle", "reading", "settling", "done"}]
  /\ rcall \in [Reconciliations -> ReconcileCall \cup {None}]
  /\ outcomes \in [Verifications -> OutcomeRecord \cup {None}]
  /\ vpc \in [Verifications -> 
         {"idle", "observing", "concluding", "comparing", "storing", "done"}]
  /\ vcall \in [Verifications -> VerifyCall \cup {None}]

SettlementInit ==
  /\ Init
  /\ reconciliations = [r \in Reconciliations |-> None]
  /\ rpc = [r \in Reconciliations |-> "idle"]
  /\ rcall = [r \in Reconciliations |-> None]
  /\ outcomes = [v \in Verifications |-> None]
  /\ vpc = [v \in Verifications |-> "idle"]
  /\ vcall = [v \in Verifications |-> None]
-----------------------------------------------------------------------------
(* reconcile().                                                            *)

(* Mutant: the whole record found is stored where its state belongs.         *)
RejectReconciliationWithRecord(r, e) ==
  /\ reconciliations' = [reconciliations EXCEPT ![r] =
       [execution |-> e, applied |-> FALSE, stateAfter |-> executions[e]]]
  /\ rpc' = [rpc EXCEPT ![r] = "done"]

(* reject(): the attempt is recorded with the state found under the lock,   *)
(* the execution is left alone.                                             *)
RejectReconciliation(r, e) ==
  /\ reconciliations' = [reconciliations EXCEPT ![r] =
       [execution |-> e, applied |-> FALSE, stateAfter |-> StateOf(e)]]
  /\ rpc' = [rpc EXCEPT ![r] = "done"]

(* Only a sealed, authorised EXECUTION_UNKNOWN may be reconciled.           *)
ReconcileRefused(r, e) ==
  /\ rpc[r] = "idle"
  /\ StateOf(e) # "EXECUTION_UNKNOWN"
  /\ RejectReconciliation(r, e)
  /\ UNCHANGED <<vars, rcall, verifyVars>>

ReconcileStart(r, e) ==
  /\ rpc[r] = "idle"
  /\ StateOf(e) = "EXECUTION_UNKNOWN"
  /\ rcall' = [rcall EXCEPT ![r] =
       [execution |-> e, seen |-> Snapshot(e), startedAt |-> clock,
        disposition |-> None, completedAt |-> None]]
  /\ rpc' = [rpc EXCEPT ![r] = "reading"]
  /\ UNCHANGED <<vars, reconciliations, verifyVars>>

(* What a truthful provider may say of a disposition at this moment.  Only  *)
(* terminal evidence commits it to the future.                              *)
Truthful(e, disposition, final) ==
  /\ disposition = "COMMITTED" => effect[e] = "committed"
  /\ disposition = "NOT_COMMITTED" => effect[e] # "committed"
  /\ final => effect[e] \in {"committed", "fenced"}

(* Dates the gate accepts: not before the attempt completed, not ahead of   *)
(* the gate's clock by more than the skew, not stale, and no clock set back *)
(* between the two readings of the gate's own clock.                        *)
EvidenceInWindow(c, observedAt, now) ==
  /\ c.startedAt <= now
  /\ c.seen.record.completedAt <= observedAt
  /\ observedAt <= now + ClockSkew
  /\ now <= observedAt + MaxEvidenceAge

(* Mutant: evidence need not be terminal.                                    *)
ReconcileReadTentative(r, disposition, final, observedAt) ==
  LET c == rcall[r] IN
  /\ rpc[r] = "reading"
  /\ Truthful(c.execution, disposition, final)
  /\ \/ /\ EvidenceInWindow(c, observedAt, clock)
        /\ rcall' = [rcall EXCEPT ![r].disposition = disposition, ![r].completedAt = clock]
        /\ rpc' = [rpc EXCEPT ![r] = "settling"]
        /\ UNCHANGED reconciliations
     \/ /\ ~EvidenceInWindow(c, observedAt, clock)
        /\ RejectReconciliation(r, c.execution)
        /\ UNCHANGED rcall
  /\ UNCHANGED <<vars, verifyVars>>

(* The provider answered; the answer is checked against a fresh reading of  *)
(* the clock.  No answer, a malformed one, one bound to another execution   *)
(* or an UNKNOWN disposition is ReconcileUnresolved.                        *)
ReconcileRead(r, disposition, final, observedAt) ==
  LET c == rcall[r] IN
  /\ rpc[r] = "reading"
  /\ Truthful(c.execution, disposition, final)
  /\ \/ /\ EvidenceInWindow(c, observedAt, clock)
        /\ final
        /\ rcall' = [rcall EXCEPT ![r].disposition = disposition, ![r].completedAt = clock]
        /\ rpc' = [rpc EXCEPT ![r] = "settling"]
        /\ UNCHANGED reconciliations
     \/ /\ ~(EvidenceInWindow(c, observedAt, clock) /\ final)
        /\ RejectReconciliation(r, c.execution)
        /\ UNCHANGED rcall
  /\ UNCHANGED <<vars, verifyVars>>

ReconcileUnresolved(r) ==
  /\ rpc[r] = "reading"
  /\ RejectReconciliation(r, rcall[r].execution)
  /\ UNCHANGED <<vars, rcall, verifyVars>>

(* Mutant: the state read before the provider was asked is trusted.          *)
StillAsFirstRead(c) == c.seen.record.state = "EXECUTION_UNKNOWN"

(* The transition compares the exact record and sequence examined before    *)
(* the read; a result that comes late is recorded and changes nothing.      *)
StillAsSeen(c) == /\ Snapshot(c.execution) = c.seen
                  /\ StateOf(c.execution) = "EXECUTION_UNKNOWN"

(* Mutant: an action that is known not to have happened may be tried again.  *)
ReconcileApplyReleased(r) ==
  LET c == rcall[r]
      e == c.execution
      m == executions[e].manifest
      open == c.disposition = "NOT_COMMITTED"
  IN /\ rpc[r] = "settling"
     /\ StillAsSeen(c)
     /\ Finish(e, [executions[e] EXCEPT !.state = c.disposition])
     /\ reconciliations' = [reconciliations EXCEPT ![r] =
          [execution |-> e, applied |-> TRUE, stateAfter |-> c.disposition]]
     /\ rpc' = [rpc EXCEPT ![r] = "done"]
     /\ dispatches' = IF open THEN [dispatches EXCEPT ![m] = None] ELSE dispatches
     /\ actionDispatches' = IF open THEN [actionDispatches EXCEPT ![KeyOf(m)] = None]
                            ELSE actionDispatches
     /\ UNCHANGED <<clock, adminVars, manifests, approvals, threadVars, rcall, verifyVars>>

ReconcileApply(r) ==
  LET c == rcall[r]
      e == c.execution
  IN /\ rpc[r] = "settling"
     /\ StillAsSeen(c)
     /\ Finish(e, [executions[e] EXCEPT !.state = c.disposition])
     /\ reconciliations' = [reconciliations EXCEPT ![r] =
          [execution |-> e, applied |-> TRUE, stateAfter |-> c.disposition]]
     /\ rpc' = [rpc EXCEPT ![r] = "done"]
     /\ UNCHANGED <<clock, adminVars, manifests, approvals, dispatches, actionDispatches,
                    threadVars, rcall, verifyVars>>

(* Mutant: a late result is dropped without a record.                        *)
ReconcileStaleSilently(r) ==
  /\ rpc[r] = "settling"
  /\ ~StillAsSeen(rcall[r])
  /\ rpc' = [rpc EXCEPT ![r] = "done"]
  /\ UNCHANGED <<vars, reconciliations, rcall, verifyVars>>

ReconcileStale(r) ==
  /\ rpc[r] = "settling"
  /\ ~StillAsSeen(rcall[r])
  /\ RejectReconciliation(r, rcall[r].execution)
  /\ UNCHANGED <<vars, rcall, verifyVars>>
-----------------------------------------------------------------------------
(* verify_outcome(), for a plan with one required test.                    *)

StoreOutcome(v, e, verified, observedAt) ==
  /\ outcomes' = [outcomes EXCEPT ![v] =
       [execution |-> e, verified |-> verified, observedAt |-> observedAt]]
  /\ vpc' = [vpc EXCEPT ![v] = "done"]

(* The dispatch is still in progress, was refused, or is known not to have  *)
(* happened.                                                                *)
VerifyRefused(v, e) ==
  /\ vpc[v] = "idle"
  /\ StateOf(e) \notin Verifiable
  /\ StoreOutcome(v, e, FALSE, None)
  /\ UNCHANGED <<vars, vcall, reconcileVars>>

VerifyStart(v, e) ==
  /\ vpc[v] = "idle"
  /\ StateOf(e) \in Verifiable
  /\ vcall' = [vcall EXCEPT ![v] =
       [execution |-> e, seen |-> Snapshot(e), observedAt |-> None, verdict |-> FALSE]]
  /\ vpc' = [vpc EXCEPT ![v] = "observing"]
  /\ UNCHANGED <<vars, outcomes, reconcileVars>>

Fresh(observedAt, now) == /\ observedAt <= now + ClockSkew
                          /\ now <= observedAt + MaxObservationAge

(* _observation_errors: the floor is the end of the dispatch attempt.       *)
Admissible(c, observedAt, now) ==
  /\ c.seen.record.completedAt <= observedAt
  /\ Fresh(observedAt, now)
  /\ observedAt <= c.seen.record.dispatchedAt + TestTimeout

(* Observations arrive from the live read and from registered verifiers.    *)
(* Only one admissible answer that the postcondition holds, contradicted by *)
(* no other, counts; `answers' is the set of admissible answers.            *)
VerifyObserve(v, answers, observedAt) ==
  LET c == vcall[v] IN
  /\ vpc[v] = "observing"
  /\ answers # {} => Admissible(c, observedAt, clock)
  /\ vcall' = IF answers = {TRUE}
              THEN [vcall EXCEPT ![v].observedAt = observedAt] ELSE vcall
  /\ vpc' = [vpc EXCEPT ![v] = "concluding"]
  /\ UNCHANGED <<vars, outcomes, reconcileVars>>

(* An earlier observation may have gone stale while a later one was read.   *)
VerifyConclude(v) ==
  LET seenAt == vcall[v].observedAt IN
  /\ vpc[v] = "concluding"
  /\ vcall' = IF seenAt # None /\ ~Fresh(seenAt, clock)
              THEN [vcall EXCEPT ![v].observedAt = None] ELSE vcall
  /\ vpc' = [vpc EXCEPT ![v] = "comparing"]
  /\ UNCHANGED <<vars, outcomes, reconcileVars>>

(* Mutant: a good observation also verifies an unknown outcome.              *)
VerifyCompareUnknown(v) ==
  LET c == vcall[v] IN
  /\ vpc[v] = "comparing"
  /\ vcall' = [vcall EXCEPT ![v].verdict =
       /\ Snapshot(c.execution) = c.seen
       /\ c.observedAt # None]
  /\ vpc' = [vpc EXCEPT ![v] = "storing"]
  /\ UNCHANGED <<vars, outcomes, reconcileVars>>

(* The execution must still be the one observed; an unknown outcome is never *)
(* verified, whatever was observed.                                          *)
VerifyCompare(v) ==
  LET c == vcall[v] IN
  /\ vpc[v] = "comparing"
  /\ vcall' = [vcall EXCEPT ![v].verdict =
       /\ Snapshot(c.execution) = c.seen
       /\ c.observedAt # None
       /\ c.seen.record.state \in {"ACKNOWLEDGED", "COMMITTED"}]
  /\ vpc' = [vpc EXCEPT ![v] = "storing"]
  /\ UNCHANGED <<vars, outcomes, reconcileVars>>

VerifyStore(v) ==
  /\ vpc[v] = "storing"
  /\ StoreOutcome(v, vcall[v].execution, vcall[v].verdict, vcall[v].observedAt)
  /\ UNCHANGED <<vars, vcall, reconcileVars>>
-----------------------------------------------------------------------------
ReconcileStep(r) == \/ \E disposition \in FinalStates, final \in BOOLEAN, t \in Time :
                         ReconcileRead(r, disposition, final, t)
                    \/ ReconcileUnresolved(r)
                    \/ ReconcileApply(r)
                    \/ ReconcileStale(r)

VerifyStep(v) == \/ \E answers \in SUBSET BOOLEAN, t \in Time : VerifyObserve(v, answers, t)
                 \/ VerifyConclude(v)
                 \/ VerifyCompare(v)
                 \/ VerifyStore(v)

SettlementNext ==
  \/ Next /\ UNCHANGED <<reconcileVars, verifyVars>>
  \/ \E r \in Reconciliations : \/ ReconcileStep(r)
                                \/ \E e \in Executions : \/ ReconcileStart(r, e)
                                                         \/ ReconcileRefused(r, e)
  \/ \E v \in Verifications : \/ VerifyStep(v)
                              \/ \E e \in Executions : \/ VerifyStart(v, e)
                                                       \/ VerifyRefused(v, e)

SettlementSpec == SettlementInit /\ [][SettlementNext]_settlementVars

SettlementFairSpec ==
  /\ SettlementSpec
  /\ \A e \in Executions : WF_settlementVars(ThreadStep(e) /\ UNCHANGED <<reconcileVars, verifyVars>>)
  /\ \A r \in Reconciliations : WF_settlementVars(ReconcileStep(r))
  /\ \A v \in Verifications : WF_settlementVars(VerifyStep(v))
-----------------------------------------------------------------------------
(* Properties.                                                             *)

(* An execution is settled by exactly one applied reconciliation, and to    *)
(* what that reconciliation says, however many read the provider at once.   *)
SettledByOneReconciliation ==
  \A e \in Executions :
    LET applied == {r \in Reconciliations : /\ reconciliations[r] # None
                                            /\ reconciliations[r].execution = e
                                            /\ reconciliations[r].applied}
    IN /\ StateOf(e) \in FinalStates <=> applied # {}
       /\ \A r \in applied : reconciliations[r].stateAfter = StateOf(e)
       /\ \A r, s \in applied : r = s

(* What the ledger calls settled is what happened downstream, for ever: a   *)
(* commit is never recorded for a fenced attempt, nor NOT_COMMITTED for one *)
(* that can still commit.                                                   *)
SettlementIsTrue ==
  \A e \in Executions :
    /\ StateOf(e) = "COMMITTED" => effect[e] = "committed"
    /\ StateOf(e) = "NOT_COMMITTED" => effect[e] = "fenced"

(* A stored verification stands: the execution is acknowledged or committed *)
(* (a later settlement never contradicts it), and the observation was made  *)
(* after the attempt ended and before the test's deadline.                  *)
VerifiedStands ==
  \A v \in Verifications : outcomes[v] # None /\ outcomes[v].verified =>
    LET rec == executions[outcomes[v].execution] IN
      /\ StateOf(outcomes[v].execution) \in {"ACKNOWLEDGED", "COMMITTED"}
      /\ outcomes[v].observedAt # None
      /\ rec.completedAt <= outcomes[v].observedAt
      /\ outcomes[v].observedAt <= rec.dispatchedAt + TestTimeout

(* The invariant that carries the properties above.  Terminal evidence that  *)
(* has been read stays true until it is applied, and an observation that    *)
(* verifies belongs to a record that nobody changes any more.               *)
ReconcileOK(r) ==
  LET c == rcall[r] IN
  /\ rpc[r] = "done" <=> reconciliations[r] # None
  /\ rpc[r] \in {"reading", "settling"} => c # None
  /\ rpc[r] = "settling" =>
       \/ c.disposition = "COMMITTED" /\ effect[c.execution] = "committed"
       \/ c.disposition = "NOT_COMMITTED" /\ effect[c.execution] = "fenced"

ObservedInTime(rec, observedAt) == /\ rec.completedAt <= observedAt
                                   /\ observedAt <= rec.dispatchedAt + TestTimeout

VerifyOK(v) ==
  LET c == vcall[v] IN
  /\ vpc[v] \in {"observing", "concluding", "comparing", "storing"} =>
       c # None /\ c.seen.record # None
  /\ vpc[v] = "observing" => c.observedAt = None
  /\ vpc[v] \in {"concluding", "comparing"} /\ c.observedAt # None =>
       ObservedInTime(c.seen.record, c.observedAt)
  /\ vpc[v] = "storing" /\ c.verdict =>
       /\ StateOf(c.execution) \in {"ACKNOWLEDGED", "COMMITTED"}
       /\ c.observedAt # None
       /\ ObservedInTime(executions[c.execution], c.observedAt)

SettlementInv ==
  /\ GateInv /\ SettlementTypeOK
  /\ \A r \in Reconciliations : ReconcileOK(r)
  /\ \A v \in Verifications : VerifyOK(v)
  /\ SettledByOneReconciliation /\ SettlementIsTrue /\ VerifiedStands

(* A reconciliation or verification that has started is always recorded,    *)
(* also when it lost every race.                                            *)
EveryAttemptIsRecorded ==
  /\ \A r \in Reconciliations : rpc[r] = "reading" ~> reconciliations[r] # None
  /\ \A v \in Verifications : vpc[v] = "observing" ~> outcomes[v] # None
=============================================================================
