---------------------------- MODULE ManagedGate ----------------------------
(***************************************************************************)
(* The managed gate (managed_gate.py, audit.py, runtime_store.py): the     *)
(* gate's ledger lives in memory and, through AuditTransactionLock, on     *)
(* disk.  Each change is one transaction: ledger, audit events and the     *)
(* feedback they cause are committed together, or the memory is put back   *)
(* and the gate latches itself unavailable.  A commit may be lost, and it  *)
(* may be durable although it was never acknowledged.  The process may     *)
(* crash, the gate may be closed under its own threads, and a restart      *)
(* recovers what the disk says.                                            *)
(*                                                                         *)
(* What an execute() call asks its dependencies is the subject of Gate;    *)
(* here a call evaluates the admission checks, reads its executor in a     *)
(* later region, and repeats the checks at the reservation; anywhere before *)
(* that it may be refused.  Reconciliation is its final compare-and-set    *)
(* with evidence that is terminal, hence still true.  One profile; a       *)
(* threshold's window ages nondeterministically.                           *)
(***************************************************************************)
EXTENDS Feedback, FiniteSetsExt

CONSTANTS Versions,        \* contents the profile can be published with
          AdapterVersions, \* versions an executor can be registered as
          Manifests, Executions,
          ExternalSignals, \* ids of signals from monitored sources
          MaxFaults,       \* bound on crashes, closings and failed commits
          MaxAdmin,        \* bound on the adapter's revision
          MaxEpoch,        \* bound on the epochs of scopes that new signals may move
          MayAge           \* incidents that can leave the window of their rule

ASSUME ManagedAssumption ==
  /\ MaxFaults \in Nat /\ MaxAdmin \in Nat /\ MaxEpoch \in Nat
  /\ MayAge \subseteq Executions \cup ExternalSignals
  /\ None \notin Versions \cup AdapterVersions \cup Manifests \cup Executions

VARIABLES mem,     \* the ledger in memory (audit.ATTRS)
          disk,    \* the ledger the store would return to the next owner
          up,      \* a gate owns the store
          failed,  \* _runtime_failed, the latch of that gate
          fn,      \* _executors: the version registered in this process, not persisted
          pc, call,\* execute() threads and their locals
          orphans, \* threads of a gate that has been closed under them
          effect,  \* what became of the attempt downstream (external)
          faults   \* how many faults have happened

vars == <<mem, disk, up, failed, fn, pc, call, orphans, effect, faults>>

Incidents  == Executions \cup ExternalSignals
Unresolved == {"DISPATCHED", "EXECUTION_UNKNOWN"}
Preparing  == {"evaluated", "authorised"}   \* phases before the reservation
Running    == {"admitted", "calling"}       \* and after it
States == Unresolved \cup {"NOT_DISPATCHED", "ACKNOWLEDGED", "NOT_ATTEMPTED",
                           "COMMITTED", "NOT_COMMITTED"}

ContextRecord ==
  [mode : ControlModes, epochs : SUBSET (ScopeKeys \X Nat), holds : SUBSET (Holds \X Nat)]
ManifestRecord ==
  [action : Actions, profile : Versions, context : ContextRecord, adapter : 0 .. MaxAdmin,
   version : AdapterVersions \cup {None}, held : [Holds -> HoldRecord], approval : BOOLEAN]
ExecutionRecord == [manifest : Manifests, state : States]
CallRecord      == [manifest : Manifests, fn : AdapterVersions \cup {None}]
Control == [holds : [Holds -> HoldRecord], windows : [Holds -> SUBSET Incidents],
            epochs : [ScopeKeys -> Nat]]
Ledgers ==
  [profile    : Versions \cup {None},
   adapter    : [version : AdapterVersions \cup {None}, revision : 0 .. MaxAdmin],
   manifests  : [Manifests -> ManifestRecord \cup {None}],
   executions : [Executions -> ExecutionRecord \cup {None}],
   dispatches : [Actions -> Executions \cup {None}],
   signals    : SUBSET ExternalSignals,
   watched    : SUBSET (Executions \X Signals),
   control    : Control]

ASSUME NoneAssumption == None \notin ManifestRecord \cup ExecutionRecord \cup CallRecord
ASSUME FiniteAssumption == IsFiniteSet(Executions) /\ IsFiniteSet(ExternalSignals)

ManagedTypeOK ==
  /\ mem \in Ledgers /\ disk \in Ledgers
  /\ up \in BOOLEAN /\ failed \in BOOLEAN
  /\ fn \in AdapterVersions \cup {None}
  /\ pc \in [Executions -> {"idle", "done"} \cup Preparing \cup Running]
  /\ call \in [Executions -> CallRecord \cup {None}]
  /\ orphans \subseteq Executions
  /\ effect \in [Executions -> {"none", "inflight", "committed", "fenced", "blocked"}]
  /\ faults \in 0 .. MaxFaults

EmptyLedger ==
  [profile    |-> None,
   adapter    |-> [version |-> None, revision |-> 0],
   manifests  |-> [m \in Manifests |-> None],
   executions |-> [e \in Executions |-> None],
   dispatches |-> [a \in Actions |-> None],
   signals    |-> {},
   watched    |-> {},
   control    |-> empty_control]

(* A gate that has just opened a new store.                                 *)
Init ==
  /\ mem = EmptyLedger /\ disk = EmptyLedger
  /\ up = TRUE /\ failed = FALSE /\ fn = None
  /\ pc = [e \in Executions |-> "idle"]
  /\ call = [e \in Executions |-> None]
  /\ orphans = {}
  /\ effect = [e \in Executions |-> "none"]
  /\ faults = 0
-----------------------------------------------------------------------------
(* Transactions (AuditTransactionLock.__exit__).                           *)

Fault == faults < MaxFaults /\ faults' = faults + 1

Commit(new) ==
  /\ ~failed
  /\ mem' = new /\ disk' = new
  /\ UNCHANGED <<failed, faults>>

(* Mutant: a commit that was not acknowledged does not latch the gate.      *)
CommitFailsOpen(new) ==
  /\ ~failed /\ new # mem /\ Fault
  /\ disk' \in {disk, new}
  /\ mem' = mem /\ failed' = failed

(* The store raised: the memory is restored, the gate latches.  Whether the *)
(* transaction is durable is not known to the gate.  (Without a change there *)
(* is no transaction.  The store also compares revisions; a gate whose      *)
(* revision is behind is a latched one.)                                    *)
CommitFails(new) ==
  /\ ~failed /\ new # mem /\ Fault
  /\ disk' \in {disk, new}
  /\ mem' = mem /\ failed' = TRUE

(* A thread that reaches a transaction after the gate has failed or closed. *)
Latched == /\ failed
           /\ UNCHANGED <<mem, disk, failed, faults>>

Transaction(new) == Commit(new) \/ CommitFails(new)

(* A step applied to each member of a set, in some order.                   *)
Each(step(_, _), l, S) ==
  MapThenFoldSet(step, l, LAMBDA e : e, LAMBDA T : CHOOSE e \in T : TRUE, S)

(* What recording the transition of e to EXECUTION_UNKNOWN does to the      *)
(* control state.                                                           *)
SignalUnknown(l, e, aged) ==
  LET a == l.manifests[l.executions[e].manifest].action
  IN process(l.control, Event("EXECUTION_UNKNOWN", OperationOf[a], a, e), aged)

(* A transition of e, with the feedback of the transition in the same       *)
(* transaction.                                                             *)
Transition(l, e, state, aged) ==
  LET moved == [l EXCEPT !.executions[e].state = state]
  IN IF state = "EXECUTION_UNKNOWN"
     THEN [moved EXCEPT !.control = SignalUnknown(l, e, aged)] ELSE moved
-----------------------------------------------------------------------------
(* Administration.  Every operation is `guarded': a failed gate refuses it. *)

Operational == up /\ ~failed

PublishProfile(v) ==
  /\ Operational
  /\ Transaction([mem EXCEPT !.profile = v])
  /\ UNCHANGED <<up, fn, pc, call, orphans, effect>>

RevokeProfile ==
  /\ Operational
  /\ Transaction([mem EXCEPT !.profile = None])
  /\ UNCHANGED <<up, fn, pc, call, orphans, effect>>

(* Mutant: registering the version on record keeps its revision for ever.   *)
AdapterRevisionByVersion(version) ==
  IF mem.adapter.version = version THEN mem.adapter.revision
  ELSE IF mem.adapter.version # None THEN 1 ELSE mem.adapter.revision + 1

(* A registration moves the adapter's revision, unless it is the first in   *)
(* this process and finds itself on record.                                 *)
AdapterRevision(version) ==
  IF fn = None /\ mem.adapter.version = version
  THEN mem.adapter.revision ELSE mem.adapter.revision + 1

(* _executors is outside the snapshot: it stays changed if the commit fails. *)
RegisterExecutor(version) ==
  /\ Operational
  /\ AdapterRevision(version) <= MaxAdmin
  /\ Transaction([mem EXCEPT !.adapter = [version  |-> version,
                                          revision |-> AdapterRevision(version)]])
  /\ fn' = version
  /\ UNCHANGED <<up, pc, call, orphans, effect>>

(* ingest_signal(): an authenticated source reports a regression of an      *)
(* operation; an id is processed once.  MaxEpoch bounds the exploration.    *)
IngestSignal(s, operation, aged) ==
  /\ Operational
  /\ mem.profile # None
  /\ s \notin mem.signals
  /\ mem.control.epochs[operation] + mem.control.epochs[WholeProfile] < MaxEpoch
  /\ Transaction([mem EXCEPT !.signals = @ \cup {s}, !.control =
        process(@, Event("EVALUATION_REGRESSION", operation, None, s), aged)])
  /\ UNCHANGED <<up, fn, pc, call, orphans, effect>>

(* watchdog(): an execution that stays unresolved, or unverified, is        *)
(* reported once.  `overdue' are those the clock finds; outcomes are not    *)
(* modelled here, so any acknowledged execution may be unverified.          *)
OverdueCode(l, e) == IF l.executions[e].state \in Unresolved
                     THEN "OVERDUE_EXECUTION" ELSE "OVERDUE_VERIFICATION"
Watchable(l) == {e \in Executions :
  /\ l.executions[e] # None
  /\ l.executions[e].state \in Unresolved \cup {"ACKNOWLEDGED", "COMMITTED"}
  /\ <<e, OverdueCode(l, e)>> \notin l.watched}
Report(l, e, aged) ==
  LET a == l.manifests[l.executions[e].manifest].action IN
  [l EXCEPT !.watched = @ \cup {<<e, OverdueCode(l, e)>>},
            !.control = process(@, Event(OverdueCode(l, e), OperationOf[a], a, e), aged)]
Reported(l, overdue, aged) ==
  Each(LAMBDA e, r : Report(r, e, aged \ overdue), l, overdue)
Watchdog(overdue, aged) ==
  /\ Operational
  /\ overdue # {} /\ overdue \subseteq Watchable(mem)
  /\ Transaction(Reported(mem, overdue, aged))
  /\ UNCHANGED <<up, fn, pc, call, orphans, effect>>

(* restore_restriction(): never while an execution in the scope of the hold *)
(* is unresolved.                                                           *)
UnresolvedUnder(l, h) ==
  \E e \in Executions : /\ l.executions[e] # None
                        /\ l.executions[e].state \in Unresolved
                        /\ h[2] \in KeysOf(l.manifests[l.executions[e].manifest].action)

(* Mutant: only executions that are still running block the restoration.    *)
RestoreRestrictionEarly(h) ==
  /\ Operational
  /\ mem.control.holds[h].active
  /\ ~ \E e \in Executions : /\ mem.executions[e] # None
                             /\ mem.executions[e].state = "DISPATCHED"
  /\ Transaction([mem EXCEPT !.control = RestoreHold(@, h)])
  /\ UNCHANGED <<up, fn, pc, call, orphans, effect>>

RestoreRestriction(h) ==
  /\ Operational
  /\ mem.control.holds[h].active
  /\ ~UnresolvedUnder(mem, h)
  /\ Transaction([mem EXCEPT !.control = RestoreHold(@, h)])
  /\ UNCHANGED <<up, fn, pc, call, orphans, effect>>

(* A transaction of records that are not modelled (decisions, approvals,    *)
(* administrative records) fails.                                           *)
OtherTransactionFails ==
  /\ Operational /\ Fault
  /\ failed' = TRUE
  /\ UNCHANGED <<mem, disk, up, fn, pc, call, orphans, effect>>
-----------------------------------------------------------------------------
(* Proposals and executions.                                               *)

(* Mutant: a profile need not be in force to be proposed under.             *)
ProposeWithoutProfile(m, a, needsApproval) ==
  /\ Operational
  /\ mem.manifests[m] = None
  /\ Transaction([mem EXCEPT !.manifests[m] =
       [action |-> a, profile |-> mem.profile, context |-> context(mem.control, a),
        adapter |-> mem.adapter.revision, version |-> mem.adapter.version,
        held |-> mem.control.holds,
        approval |-> needsApproval \/ ModeOf(mem.control, a) = "REQUIRE_APPROVAL"]])
  /\ UNCHANGED <<up, fn, pc, call, orphans, effect>>

(* propose(): the manifest is bound to the control context, the adapter's   *)
(* revision and the profile in force.  `version' and `held' are history:    *)
(* the adapter version on record and the holds, for which nobody asks again. *)
Propose(m, a, needsApproval) ==
  /\ Operational
  /\ mem.profile # None
  /\ mem.manifests[m] = None
  /\ Transaction([mem EXCEPT !.manifests[m] =
       [action |-> a, profile |-> mem.profile, context |-> context(mem.control, a),
        adapter |-> mem.adapter.revision, version |-> mem.adapter.version,
        held |-> mem.control.holds,
        approval |-> needsApproval \/ ModeOf(mem.control, a) = "REQUIRE_APPROVAL"]])
  /\ UNCHANGED <<up, fn, pc, call, orphans, effect>>

(* Mutant: the modes are compared, not the epochs.                          *)
AdmissionClearByMode(l, m) ==
  LET r == l.manifests[m] IN
  /\ ModeOf(l.control, r.action) = r.context.mode
  /\ r.adapter = l.adapter.revision
  /\ ModeOf(l.control, r.action) # "SUSPENDED"
  /\ r.profile = l.profile

(* _admission_issues finds nothing.                                         *)
AdmissionClear(l, m) ==
  LET r == l.manifests[m] IN
  /\ context(l.control, r.action) = r.context
  /\ r.adapter = l.adapter.revision
  /\ ModeOf(l.control, r.action) # "SUSPENDED"
  /\ ModeOf(l.control, r.action) = "REQUIRE_APPROVAL" => r.approval
  /\ r.profile = l.profile

(* execute() up to _runtime_issues: the manifest, and a first look at what  *)
(* its reservation depends on.                                              *)
Evaluate(e, m) ==
  /\ Operational
  /\ pc[e] = "idle"
  /\ mem.manifests[m] # None
  /\ AdmissionClear(mem, m)
  /\ call' = [call EXCEPT ![e] = [manifest |-> m, fn |-> None]]
  /\ pc' = [pc EXCEPT ![e] = "evaluated"]
  /\ UNCHANGED <<mem, disk, up, failed, fn, orphans, effect, faults>>

(* The executor is read in a region of its own, which commits nothing and    *)
(* hence does not look at the latch; the live checks that follow pass.       *)
ReadExecutor(e) ==
  /\ up /\ pc[e] = "evaluated"
  /\ fn # None
  /\ call' = [call EXCEPT ![e].fn = fn]
  /\ pc' = [pc EXCEPT ![e] = "authorised"]
  /\ UNCHANGED <<mem, disk, up, failed, fn, orphans, effect, faults>>

(* The call is refused, before or inside the reservation region.            *)
Refuse(e, m) ==
  /\ up
  /\ \/ pc[e] = "idle" /\ ~failed
     \/ pc[e] \in Preparing /\ m = call[e].manifest
  /\ \/ Transaction([mem EXCEPT !.executions[e] = [manifest |-> m, state |-> "NOT_DISPATCHED"]])
     \/ Latched
  /\ pc' = [pc EXCEPT ![e] = "done"]
  /\ UNCHANGED <<up, fn, call, orphans, effect>>

(* Mutant: what was evaluated is not looked at again.                        *)
AdmitAsEvaluated(e) ==
  LET m == call[e].manifest
      a == mem.manifests[m].action
      reserved == [mem EXCEPT !.dispatches[a] = e,
                              !.executions[e] = [manifest |-> m, state |-> "DISPATCHED"]]
  IN /\ up /\ pc[e] = "authorised"
     /\ \/ /\ mem.dispatches[a] = None
           /\ \/ Commit(reserved) /\ pc' = [pc EXCEPT ![e] = "admitted"]
              \/ CommitFails(reserved) /\ pc' = [pc EXCEPT ![e] = "done"]
        \/ Latched /\ pc' = [pc EXCEPT ![e] = "done"]
     /\ UNCHANGED <<up, fn, call, orphans, effect>>

(* Mutant: the thread goes on without an acknowledged reservation.          *)
AdmitRegardless(e) ==
  LET m == call[e].manifest
      a == mem.manifests[m].action
      reserved == [mem EXCEPT !.dispatches[a] = e,
                              !.executions[e] = [manifest |-> m, state |-> "DISPATCHED"]]
  IN /\ up /\ pc[e] = "authorised"
     /\ \/ /\ AdmissionClear(mem, m)
           /\ mem.dispatches[a] = None
           /\ \/ Commit(reserved) /\ pc' = [pc EXCEPT ![e] = "admitted"]
              \/ CommitFails(reserved) /\ pc' = [pc EXCEPT ![e] = "admitted"]
        \/ Latched /\ pc' = [pc EXCEPT ![e] = "done"]
     /\ UNCHANGED <<up, fn, call, orphans, effect>>

(* The reservation.  Only a committed one leads to the executor.            *)
Admit(e) ==
  LET m == call[e].manifest
      a == mem.manifests[m].action
      reserved == [mem EXCEPT !.dispatches[a] = e,
                              !.executions[e] = [manifest |-> m, state |-> "DISPATCHED"]]
  IN /\ up /\ pc[e] = "authorised"
     /\ \/ /\ AdmissionClear(mem, m)
           /\ mem.dispatches[a] = None
           /\ \/ Commit(reserved) /\ pc' = [pc EXCEPT ![e] = "admitted"]
              \/ CommitFails(reserved) /\ pc' = [pc EXCEPT ![e] = "done"]
        \/ Latched /\ pc' = [pc EXCEPT ![e] = "done"]
     /\ UNCHANGED <<up, fn, call, orphans, effect>>

(* Between the reservation and the executor nothing looks at the latch, and *)
(* a closed gate does not stop its threads.                                 *)
CallExecutor(e) ==
  /\ pc[e] = "admitted"
  /\ effect' = [effect EXCEPT ![e] = IF @ = "none" THEN "inflight" ELSE "fenced"]
  /\ pc' = [pc EXCEPT ![e] = "calling"]
  /\ UNCHANGED <<mem, disk, up, failed, fn, call, orphans, faults>>

(* The executor's answer is recorded, unless the gate has failed meanwhile. *)
ExecutorReturns(e, state, aged) ==
  /\ e \notin orphans
  /\ \/ pc[e] = "calling" /\ state \in {"ACKNOWLEDGED", "EXECUTION_UNKNOWN"}
     \/ pc[e] = "admitted" /\ state = "NOT_ATTEMPTED"
  /\ Transaction(Transition(mem, e, state, aged)) \/ Latched
  /\ pc' = [pc EXCEPT ![e] = "done"]
  /\ UNCHANGED <<up, fn, call, orphans, effect>>

(* The store of an orphan's gate is closed: its answer is never recorded.   *)
OrphanReturns(e) ==
  /\ e \in orphans
  /\ pc[e] \in Running
  /\ pc' = [pc EXCEPT ![e] = "done"]
  /\ UNCHANGED <<mem, disk, up, failed, fn, call, orphans, effect, faults>>

(* The downstream system decides the attempt once, at its own pace.  Asked  *)
(* about an attempt that has not reached it, it may fence off its key.      *)
Downstream(e, fate) ==
  /\ \/ effect[e] = "inflight" /\ fate \in {"committed", "fenced"}
     \/ effect[e] = "none" /\ e \in orphans /\ fate = "blocked"
  /\ effect' = [effect EXCEPT ![e] = fate]
  /\ UNCHANGED <<mem, disk, up, failed, fn, pc, call, orphans, faults>>

(* reconcile(), its last step: terminal evidence settles an unknown outcome. *)
Reconcile(e, state) ==
  /\ Operational
  /\ mem.executions[e] # None /\ mem.executions[e].state = "EXECUTION_UNKNOWN"
  /\ \/ state = "COMMITTED" /\ effect[e] = "committed"
     \/ state = "NOT_COMMITTED" /\ effect[e] \in {"fenced", "blocked"}
  /\ Transaction([mem EXCEPT !.executions[e].state = state])
  /\ UNCHANGED <<up, fn, pc, call, orphans, effect>>
-----------------------------------------------------------------------------
(* Crashes and restarts.                                                   *)

(* The process dies with its threads; what was sent downstream was sent.    *)
Crash ==
  /\ up /\ Fault
  /\ up' = FALSE
  /\ pc' = [e \in Executions |-> IF pc[e] = "idle" THEN "idle" ELSE "done"]
  /\ UNCHANGED <<mem, disk, failed, fn, call, orphans, effect>>

(* close() latches the gate and releases the store, but waits for nobody.   *)
(* Closing a healthy gate under its threads counts as a fault.              *)
Close ==
  /\ up
  /\ IF failed THEN UNCHANGED faults ELSE Fault
  /\ up' = FALSE
  /\ orphans' = orphans \cup {e \in Executions : pc[e] \in Running}
  /\ pc' = [e \in Executions |-> IF pc[e] \in Preparing THEN "done" ELSE pc[e]]
  /\ UNCHANGED <<mem, disk, failed, fn, call, effect>>

(* The admitted executions a new owner finds, whose fate it cannot know.    *)
Interrupted(l) == {e \in Executions : l.executions[e] # None /\ l.executions[e].state = "DISPATCHED"}

(* Mutant: recovery leaves the reservations as they are.                    *)
RecoveredAsIs(l, aged) == l

(* Recovery is one transaction and never calls an executor.                 *)
Recovered(l, aged) ==
  LET interrupted == Interrupted(l) IN
  Each(LAMBDA e, r : Transition(r, e, "EXECUTION_UNKNOWN", aged \ interrupted), l, interrupted)

Restart(aged) ==
  /\ ~up
  /\ disk' = Recovered(disk, aged)
  /\ \/ /\ mem' = disk' /\ up' = TRUE /\ failed' = FALSE /\ fn' = None
        /\ UNCHANGED faults
     \/ Fault /\ UNCHANGED <<mem, up, failed, fn>>   \* durable, but the opening failed
  /\ UNCHANGED <<pc, call, orphans, effect>>
-----------------------------------------------------------------------------
ThreadStep(e) ==
  \/ ReadExecutor(e)
  \/ Admit(e)
  \/ \E m \in Manifests : pc[e] \in Preparing /\ Refuse(e, m)
  \/ CallExecutor(e)
  \/ OrphanReturns(e)
  \/ \E s \in States, aged \in SUBSET MayAge : ExecutorReturns(e, s, aged)

Administer ==
  \/ \E v \in Versions : PublishProfile(v)
  \/ RevokeProfile
  \/ \E v \in AdapterVersions : RegisterExecutor(v)
  \/ \E s \in ExternalSignals, o \in Operations, aged \in SUBSET MayAge : IngestSignal(s, o, aged)
  \/ \E overdue \in SUBSET Executions, aged \in SUBSET MayAge : Watchdog(overdue, aged)
  \/ \E h \in Holds : RestoreRestriction(h)
  \/ OtherTransactionFails

Request ==
  \/ \E m \in Manifests, a \in Actions, b \in BOOLEAN : Propose(m, a, b)
  \/ \E e \in Executions, m \in Manifests :
       \/ Evaluate(e, m)
       \/ pc[e] = "idle" /\ Refuse(e, m)

Next ==
  \/ Administer
  \/ Request
  \/ Crash
  \/ Close
  \/ \E aged \in SUBSET MayAge : Restart(aged)
  \/ \E e \in Executions :
       \/ ThreadStep(e)
       \/ \E fate \in {"committed", "fenced", "blocked"} : Downstream(e, fate)
       \/ \E s \in {"COMMITTED", "NOT_COMMITTED"} : Reconcile(e, s)

Spec == Init /\ [][Next]_vars

(* Threads run, the executors answer, and the operator does what a          *)
(* RuntimeFailure asks for: closes the failed gate and opens a new one.     *)
FairSpec ==
  /\ Spec
  /\ \A e \in Executions : WF_vars(ThreadStep(e))
  /\ WF_vars(failed /\ Close)
  /\ WF_vars(\E aged \in SUBSET MayAge : Restart(aged))
-----------------------------------------------------------------------------
(* Properties.                                                             *)

StateOf(l, e)  == IF l.executions[e] = None THEN "none" ELSE l.executions[e].state
Reserved(l, e) == StateOf(l, e) \notin {"none", "NOT_DISPATCHED"}

(* What is durable implements the action ledger: no lost or unacknowledged  *)
(* commit, crash, recovery or straggling thread takes a reservation back,   *)
(* repeats an attempt, or moves a reported outcome backwards                *)
(* (AuditTransactionLock, __init__).                                       *)
OutcomeOf(a) == IF disk.dispatches[a] = None THEN "none"
                ELSE StateOf(disk, disk.dispatches[a])
AttemptedOf(a) == /\ disk.dispatches[a] # None
                  /\ effect[disk.dispatches[a]] \notin {"none", "blocked"}
Ledger == INSTANCE ActionLedger WITH
            outcome   <- [a \in Actions |-> OutcomeOf(a)],
            attempted <- [a \in Actions |-> AttemptedOf(a)]
ImplementsLedger == Ledger!LedgerSpec

(* The executor is never called without a reservation that is durable under *)
(* the call's own id: an effect can always be found again after a restart   *)
(* (execute(), __exit__).                                                  *)
EffectIsOnDisk ==
  \A e \in Executions : effect[e] # "none" =>
    /\ Reserved(disk, e)
    /\ disk.dispatches[disk.manifests[call[e].manifest].action] = e

(* As long as an outcome is unknown, every rule that trips on the first     *)
(* unknown outcome has its hold in force, on disk, in the scope of the      *)
(* action: through crashes, recoveries and attempts to restore it.          *)
UnknownIsHeld ==
  \A e \in Executions : StateOf(disk, e) = "EXECUTION_UNKNOWN" =>
    LET a  == disk.manifests[disk.executions[e].manifest].action
        ev == Event("EXECUTION_UNKNOWN", OperationOf[a], a, e)
    IN \A h \in Holds : Concerns(h, ev) /\ RuleThreshold[h[1]] = 1 => disk.control.holds[h].active

(* What becomes durable as a dispatch is legal in the durable control       *)
(* state, not only in the memory of the gate that decides: nothing in the   *)
(* scopes of the action was suspended, and no hold on them was activated or *)
(* restored since the proposal, even if the same mode is in force again.    *)
AdmissionIsCurrent ==
  [][\A e \in Executions : ~Reserved(disk, e) /\ Reserved(disk', e) =>
       LET r == disk'.manifests[disk'.executions[e].manifest] IN
         /\ r.profile = disk.profile
         /\ \A h \in Holds : h[2] \in KeysOf(r.action) =>
              /\ disk.control.holds[h] = r.held[h]
              /\ disk.control.holds[h].active => RuleMode[h[1]] # "SUSPENDED" /\ r.approval
     ]_vars

(* The executor that is called is the version that was on record when the   *)
(* action was proposed, across re-registrations, also while the call is     *)
(* between its evaluation and its reservation, and across restarts: going   *)
(* back to an earlier version does not revive the proposals made under it   *)
(* (register_executor, _admission_issues).                                  *)
AdapterStands ==
  \A e \in Executions : Reserved(mem, e) =>
    call[e].fn = mem.manifests[mem.executions[e].manifest].version

(* A reservation does not stay DISPATCHED for ever.                         *)
DispatchIsResolved ==
  \A e \in Executions : (StateOf(disk, e) = "DISPATCHED") ~> (StateOf(disk, e) # "DISPATCHED")
-----------------------------------------------------------------------------
(* The invariant that carries the properties.                              *)

(* A reservation and the dispatch of its action name each other.            *)
ReservationsOK(l) ==
  /\ \A e \in Executions : Reserved(l, e) =>
       LET r == l.manifests[l.executions[e].manifest]
       IN r # None /\ l.dispatches[r.action] = e
  /\ \A a \in Actions : LET e == l.dispatches[a] IN e # None =>
       Reserved(l, e) /\ l.manifests[l.executions[e].manifest].action = a

(* A manifest of the adapter's present revision carries its present version, *)
(* and a manifest of a scope's present epoch saw its present holds.         *)
ManifestsOK(l) ==
  \A m \in Manifests : LET r == l.manifests[m] IN r # None =>
    /\ r.adapter <= l.adapter.revision
    /\ r.adapter = l.adapter.revision => r.version = l.adapter.version
    /\ \A p \in r.context.epochs :
         /\ p[2] <= l.control.epochs[p[1]]
         /\ p[2] = l.control.epochs[p[1]] =>
              \A h \in Holds : h[2] = p[1] => l.control.holds[h] = r.held[h]

UnknownHeld(l, e) ==
  LET a  == l.manifests[l.executions[e].manifest].action
      ev == Event("EXECUTION_UNKNOWN", OperationOf[a], a, e)
  IN \A h \in Holds : Concerns(h, ev) /\ RuleThreshold[h[1]] = 1 => l.control.holds[h].active

LedgerOK(l) ==
  /\ ReservationsOK(l) /\ ManifestsOK(l)
  /\ \A e \in Executions : StateOf(l, e) = "EXECUTION_UNKNOWN" => UnknownHeld(l, e)

(* A gate that has not failed knows what is durable, and the executor it    *)
(* would call.                                                              *)
GateOK == up /\ ~failed => /\ mem = disk
                           /\ fn # None => fn = mem.adapter.version

(* A reservation, in memory or durable, is that of the call that bears its  *)
(* id, with the executor that was on record when it was proposed.           *)
CallOK(l, e) ==
  Reserved(l, e) => /\ call[e] # None
                    /\ call[e].manifest = l.executions[e].manifest
                    /\ call[e].fn = l.manifests[call[e].manifest].version

(* A thread has no record before its reservation, and a durable one after.  *)
(* The executor it has read is that of its manifest as long as the adapter's *)
(* revision is: if it has moved, the reservation will find out.              *)
ThreadOK(e) ==
  /\ pc[e] \in {"idle"} \cup Preparing =>
       /\ mem.executions[e] = None /\ disk.executions[e] = None
       /\ e \notin orphans /\ effect[e] = "none"
  /\ pc[e] \in Preparing =>
       up /\ call[e] # None /\ mem.manifests[call[e].manifest] # None
  /\ pc[e] = "authorised" /\ ~failed =>
       LET r == mem.manifests[call[e].manifest]
       IN r.adapter = mem.adapter.revision => call[e].fn = r.version
  /\ pc[e] \in Running \/ e \in orphans \/ effect[e] # "none" => Reserved(disk, e)
  /\ pc[e] \in Running /\ e \notin orphans => up /\ StateOf(disk, e) = "DISPATCHED"
  /\ pc[e] = "admitted" =>
       /\ effect[e] \in {"none", "blocked"}
       /\ StateOf(disk, e) \in {"DISPATCHED", "EXECUTION_UNKNOWN", "NOT_COMMITTED"}
  /\ pc[e] = "calling" => effect[e] \in {"inflight", "committed", "fenced"}
  /\ effect[e] = "blocked" => e \in orphans

ManagedInv ==
  /\ ManagedTypeOK
  /\ LedgerOK(mem) /\ LedgerOK(disk)
  /\ GateOK
  /\ \A e \in Executions : ThreadOK(e) /\ CallOK(mem, e) /\ CallOK(disk, e)
=============================================================================
