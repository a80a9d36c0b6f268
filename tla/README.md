# Agent Action Manifest: verification project

This directory models the runtime of the Agent Action Manifest tools
(`src/python/appendix/tools/`), version 0.4.0: the gate that decides whether an
agent's proposed action may be executed, the ledger it keeps about what was
executed, the managed gate that makes that ledger durable, the governed feedback
that restricts future actions, the budgets, delegations and campaign holds of
version 0.4, the containment decision with the reviews and verification plans behind
it, and the export of the audit events. The models
are TLA+ modules translated from the Python source; TLC checks them on small
instances, and the TLA+ proof system proves the results listed under
[What is proved](#what-is-proved) for every value of the constants.

Contents: [inventory](#inventory) · [hard behaviours](#hard-behaviours) ·
[modules](#modules-and-how-they-correspond-to-the-code) · [runs](#runs-bounds-and-what-they-show) ·
[fairness](#fairness) · [proofs](#what-is-proved) · [not modelled](#what-is-not-modelled) ·
[plan](#plan)

How to run, inside this directory:

    tlc -workers 2 -config MCGateRace.cfg MCGate     # one run; PROJECT.json lists them all
    tlapm ManagedProofs.tla                          # one module of proofs, a few minutes

## Inventory

Paths are relative to `src/python/appendix/tools/`.

### Conformance gate: `gate.py` (with `reconciliation.py`, `evidence.py`)

*State.* `_manifests`, `_approvals`, `_executions` (the latest record of each
`execute()` call), `_execution_events` (its history), `_dispatches`
(`manifest_id -> execution_id`), `_action_dispatches` (`(profile_id, action_id)
-> execution_id`), `_reconciliations`, `_outcomes`, `_decisions`, `_executors`,
`_verifiers`; the profile store. Everything is guarded by one `Gate._lock` (a plain
`threading.Lock`, `gate.py:173`), but no call holds it from beginning to end.

*Operations.* `publish_profile`, `revoke_profile`, `register_executor`,
`register_verifier`, `propose`, `record_approval`, `execute`, `reconcile`,
`verify_outcome`.

*Interactions.* The requester proposes and executes; approvers' decisions arrive
through `record_approval`; `execute` asks the `StateProvider` (identity,
delegation, credential, emergency stop, live state), the profile store and then
calls the registered executor; `reconcile` and `verify_outcome` ask the
`StateProvider` for evidence. All of them are slow and outside the lock.

*Correct when.* An action is dispatched at most once, whatever the number of
calls, manifests and retries; an approval is consumed by exactly one dispatch,
the one it was given for; what was checked early still holds at the recorded
dispatch time; the executor never runs without a stored reservation; a report
about a dispatch moves only forward; a settlement is true, unique and final; a
verification is never contradicted by a settlement; every call ends.

### Managed gate: `managed_gate.py`, `audit.py`

*State.* The gate's ledger, plus `_runtime_profiles`; `_runtime_meta` (the record of
each adapter and verifier, with the adapter's version and revision); `_control` (the
restrictions, windows and epochs of the feedback, the external signals, what the watchdog has
seen); `_executors`, the functions of this process; `_runtime_failed`, the latch.
`_lock` is an `AuditTransactionLock` (`audit.py:170`, over an `RLock`), which snapshots the
attributes of `audit.ATTRS` when the outermost lock is taken and on release commits the
difference, the audit events and the feedback of the events as one transaction, or restores
the snapshot and latches the gate.

*Operations.* Those of the gate, `ingest_signal`, `watchdog`,
`restore_restriction`, `export_audit`, `close`, and the recovery in `__init__`,
which turns every execution found `DISPATCHED` into `EXECUTION_UNKNOWN`.

*Interactions.* One store, one owner at a time. `_admission_issues` is called
inside the gate's reservation region and compares the manifest with the current
control context, adapter revision, profile and export backlog.

*Correct when.* What is durable keeps the promise of the gate through crashes,
lost and unacknowledged commits, closing under running threads and restarts; no
effect is ever outside the durable ledger; no reservation is left without
either a thread that will report it or the state `EXECUTION_UNKNOWN`; the
reservation is decided on the control state that is durable.

### Governed feedback: `feedback.py`

*State.* Restrictions (holds), recent incidents per rule and scope, epochs per
scope. *Operations.* `process` (one event), `restore`, `context`.
*Interactions.* Called by the transaction lock for each event that the
transaction records, by `propose` and by `_admission_issues`.
*Correct when.* Holds only restrict; a threshold counts distinct incidents of
its window; a hold is not lifted while its reason persists; a proposal made
before a hold was activated and lifted is not dispatched after it.

### Runtime store and audit export: `runtime_store.py`, `audit_export.py`

*State.* The event chain, the state snapshot, one checkpoint per consumer,
`_export_lock`, the owner's file lock; at the receiver, one row per event id.
*Operations.* `commit`, `events`, `cursor`, `advance`, `close`, `drain`,
`SQLiteAuditReceiver.__call__`.
*Interactions.* The gate commits; a scheduled service calls `drain`; the backlog
`events - cursor` holds back reservations.
*Correct when.* Delivery is at least once, in order, without gaps; a checkpoint
never passes an event that was not accepted, and never moves back; nothing is
delivered that is not durable; the backlog limit bounds what the receiver lacks.

### v0.4 managed gate: `v4.py`, `aggregate.py`

*State.* `_aggregate_state` (reservations of budgets per manifest),
`_campaign_observations`, `_campaign_holds`, actor groups, delegation contexts.
*Operations.* `propose` with context and delegation attestations, aggregate
claims, review snapshots and admission; `ingest_campaign_observation`,
`restore_campaign_hold`. *Interactions.* Overrides the hooks of the managed gate
(`_prepare_manifest_context`, `_runtime_issues`, `_admission_issues`,
`_finalize_transaction_state`), so a budget is reserved in the transaction of
the dispatch. *Correct when.* The reservations of a group never exceed its
limit within a window; every dispatch has exactly one reservation and no refused
call keeps one; an execution counts as in flight as long as its effect is
possible; a proposal is bound to the budgets and holds it was reviewed against;
a delegation only attenuates and is dispatched at most once per action.

### Containment and decisions: `check_containment.py`, `gate.py`

*State.* `check()` is a function of profile, manifest and time: rules that deny, and
questions that it leaves to live providers. Around it: the active profile, the stored
manifest, the answers of this moment.
*Operations.* `build_manifest` (mode from default and thresholds), `_decide` (two passes of
`check` with `_resolve` between them) called by `propose`, `reevaluate` and `execute`;
publication and revocation of profiles.
*Correct when.* ALLOW means that the policy permits the action and every open
question was answered yes in this very decision; silence never counts; autonomy above the
default was earned when the manifest was built and again when it is decided on; the
gate does not deny what it built itself; a child profile allows nothing that its
parent denies.

### Verification plans, read-back sign-off: `verification.py`, `readback_signoff.py`

Validation of plans and of signatures; no state of their own, but of consequence at
publication and construction. *Correct when.* Completion cannot be concluded without
independent observation of what the plan says; a profile in force was reviewed by two
people with keys that were theirs and in force.

### Audit review, telemetry: `audit_review.py`, `telemetry.py`

Read-only projections of the event stream, in-process counters.

### Command line, rendering, schemas: `aam.py`, `render_card.py`, `validation_support.py`

Interviews, files, text output, schema formats; no state that outlives a call.

## Hard behaviours

`PROJECT.json` lists each hazard at its line with the properties that would
catch it. In short:

- the lock is released between the checks of `execute()` and its reservation, so
  two calls, two manifests of one action and two uses of one approval race, while
  the clock moves (also backwards) and profiles are revoked;
- `reconcile()` and `verify_outcome()` read an execution, wait for a provider,
  and come back to a ledger that may have changed;
- a commit can be durable without being acknowledged: memory is rolled back, the
  disk is not; between the reservation and the executor nothing looks at the latch;
- `close()` waits for nobody: the threads of a closed gate go on beside those of
  its successor;
- holds can be activated and restored between a proposal and its reservation,
  after which the same mode is in force again (likewise adapter versions);
- drains are interrupted between acceptance and checkpoint, also by a close;
- budgets are reviewed, checked and reserved at three moments, while windows end,
  other calls reserve, executions settle and campaign holds come and go;
- a decision asks live providers which may answer some questions and not others, and
  otherwise on every call; a profile may be replaced between its reads;
- a failed transaction or a restart comes between a reservation of a budget and the
  settlement of its execution;
- calls that lose a race, and evidence that comes late, must still end and be
  recorded.

## Modules and how they correspond to the code

| Module | Models | Source |
|---|---|---|
| `ActionLedger` | abstract specification: one business action's reservation, attempt, report and settlement | the promise of `gate.py`, `managed_gate.py` |
| `Gate` | proposals, approvals and concurrent `execute()` calls; properties; the inductive invariant | `gate.py` |
| `GateSettlement` | `reconcile()` and `verify_outcome()` threads, composed with `Gate` | `gate.py`, `reconciliation.py` |
| `Feedback` | operators on the control state | `feedback.py` |
| `ManagedGate` | transactions, failures, crashes, recovery, administration, admission; uses `Feedback` | `managed_gate.py`, `audit.py` |
| `AuditExport` | events, drains, checkpoints, receiver | `audit_export.py`, `runtime_store.py` |
| `Aggregate` | claims, windows, budget evaluation and review snapshot as operators | `aggregate.py` |
| `V4Gate` | delegation, proposal, admission with reservation, campaign observations and holds; uses `Aggregate` | `v4.py` |
| `Containment` | construction of a manifest, containment rules, live questions, plans, sign-offs, attenuation as operators | `check_containment.py`, `gate.py`, `verification.py`, `readback_signoff.py`, `v4.py` |
| `Decision` | publication, construction, decision, re-evaluation and dispatch of one manifest; uses `Containment` | `gate.py` |
| `FoldProofs` | lemmas on folds over finite sets: existence, induction over subsets | |
| `GateProofs`, `SettlementProofs`, `ManagedProofs`, `ExportProofs`, `V4Proofs` (with `AggregateProofs`), `DecisionProofs` | theorems about the module of that name | |
| `MCGate`, `MCManagedGate`, `MCV4Gate`, `MCDecision` | instances for TLC: constants that a cfg cannot write, symmetry sets |

`PROJECT.json`, "map", gives the lines each definition stands for. Definitions
commented "Mutant" are deliberate bugs (a dropped comparison, a reservation given
back, a lock not released). They are not part of any specification: each is put in
the place of the definition it mimics to see that a property notices.

**Gate.** Every `execute()` call is a thread with a program counter (`pc`) and
locals (`call`). One action is one atomic region of the code, that is, one read
of shared state with the local computation that follows it, or one critical
section:

| Action | Region of `execute()` |
|---|---|
| `ExecuteRefused`, `ExecuteStart` | first profile read, manifest lookup, the mode and review-window checks |
| `Decide` | `_decide`: a second profile read, containment and live dependencies, `execution_valid_until` |
| `ReadApproval` | executor and approval copied under the lock, then validated; credential |
| `RecheckProfile` | the profile read after the slow dependencies |
| `StampDispatch` | emergency stop, `dispatch_time`, the time checks, the verdict |
| `AdmitRefused`, `Admit` | the reservation lock: duplicate, spent approval, or the reservation |
| `CallExecutor`, `ExecutorReturns` | the executor, outside the lock, and the report |

The lists `denied` and `unresolved` become a verdict in `{"ok", "unresolved",
"denied"}` ordered by `Worse`. A live dependency is an input of the action: any
answer is possible, restricted by what the code itself establishes (for
instance `ReadApproval` cannot be `ok` when the copied approval is invalid).
A profile version stands for the `(version, digest)` pair, a seal for the sealed
record. `Downstream` is the external system: it decides an attempt once, at its
own pace. Deny records returned to callers and never read back, logging and
wording are left out.

**GateSettlement** adds threads for `reconcile()` (`ReconcileStart/Refused`, `ReconcileRead/
Unresolved`, `ReconcileApply/Stale`) and `verify_outcome()` (`VerifyStart/Refused`,
`VerifyObserve`, `VerifyConclude`, `VerifyCompare`, `VerifyStore`). The compare-and-set on the seal and
`record_sequence` is `StillAsSeen`. The provider is trusted as its interface
demands (`Truthful`): it does not lie about what it reads, terminal evidence
stays true, everything else (unavailability, dates, inconclusiveness) is open.

**ManagedGate** has two copies of the ledger, `mem` and `disk`, and one process
state (`up`, `failed`, `fn`, threads). `Commit` and `CommitFails` are the two
ends of `AuditTransactionLock.__exit__`: in the second, `disk'` may be either
value. `Crash` kills threads, `Close` leaves them as `orphans`, `Restart` is the
recovery, which may itself be durable while the opening fails. The checks of
`execute()` before the reservation are the subject of `Gate`; what remains of them here
are the two locked regions that matter to this module: `Evaluate` is the one of
`_runtime_issues` (`managed_gate.py`, called at `gate.py:541`), which compares the manifest with
control, adapter revision and profile, and `ReadExecutor` the later one that takes the
executor (`gate.py:663-664`). An adapter may be registered again between them, and again before
the reservation, which therefore repeats `AdmissionClear` (`gate.py:734`). A call runs the
function it read (`call.fn`).

**Feedback** keeps holds, windows and epochs per (rule, scope key). The wall
clock is replaced by a choice: an event may find any of the incidents `MayAge`
aged out of its window.

**AuditExport** numbers events in order of creation; an event whose transaction
was rolled back is not created again. `drain()` is a thread: `ReadBatch`, `Send` and
`Checkpoint` are its three interruptible regions. The receiver's `Acceptable` is the
deduplication of `SQLiteAuditReceiver`.

**V4Gate** is what `V4ManagedGate` adds to a dispatch. `propose()` reads profiles twice:
`ValidateDelegation` reads the child's and the parent's and the parent's execution,
`Propose` (`Gate.propose`) reads the active profile again and takes claim, review
snapshot and campaign context under the lock. `Admit` reads the clock once where the
code reads it twice in one region (`v4.py:295`, `v4.py:328`). `Authorise` stands for everything up to
`_runtime_issues` (`Gate` has its steps), `Admit` and `AdmitRefused` for the
reservation region: `_admission_issues` reserves first (`WithReservation`), the
duplicate and approval checks may still refuse, and `_finalize_transaction_state`
takes the share back (`Finalized`). An authenticated observation names the rule of
its indicator; sources, attestations and the comparison of two contents are inputs
(`ChildOf`, `Attenuates`; the comparison itself is `Attenuated` of `Containment`). The variables are the durable
state. Every transaction (`Commits`) may be the last of its process: it is durable, and
`Fault` says the process did not learn of it; `GateFails` is the failure in which
nothing was committed. `Restart` finds dispatched executions unknown and everything
else as it was saved. An unfinished `propose()` is lost.

**Containment** writes one operator per group of rules (`C2` to `C15`) over the contents
that the rules tell apart. `check()` is reached only with the active profile of the
manifest's own version and digest, so rules that compare copies (`C1`, `C3`, `C11`, `C16`, `C17`, and
such parts of the others) hold and are not written. What can fail is written, also where it
depends on the profile alone: a material parameter must be a declared one (`C5`), the blast
radius rendered from the entry's template must not be empty (`C7`; a request says which subjects
it leaves `blank`), and a recovery test must not lie in the future nor be older than the policy
allows (`RecoveryTestInDate`, in `C13`). `ManifestSchema` is the schema check of a manifest
before it is stored (`gate.py:405-408`). A delegated check is a pair of kind and name;
`Resolvable` are the kinds `_resolve` has a provider for, and the rest
(opaque constraints, the free-text questions of level L0) stays open for ever. A
parameter's comparison with its constraint is one value of a set the entry permits.

**Decision** follows one manifest under one profile id. A call keeps the time it began
with (`call.now`) while the clock moves; `Build` takes any answers about thresholds,
`Decide` any subset of yes and of no to what is asked, `held` and `result` remember
them for the properties. Races between calls, approvals and the ledger are the subject of `Gate`.

**Aggregate** measures `admissions`, `in_flight`, `distinct_targets` and sizes
(`objects`, of which `egress_bytes` is another) against one projected value, as
`evaluate()` does. A reservation's record never changes, so its name stands for it
in the review snapshot.

**ActionLedger** is the promise: `Reserve` once and for ever, at most one
`Attempt`, `Report`, `Settle` an unknown outcome once; `Recover` reports every reservation
that has no answer as unknown, in one step, as the one transaction of a recovery does. `Gate`, `GateSettlement`
and `ManagedGate` (its *disk*) implement it under
`outcome <- [k |-> OutcomeOf(k)]`, `attempted <- [k |-> AttemptedOf(k)]`.

## Runs, bounds and what they show

| Run | Distinct states | Question |
|---|---|---|
| `gate_race` | 726,750 | two calls, two manifests of one action, one approval: every interleaving |
| `gate_live` | 13,956 | does every accepted call end, also when it loses |
| `settlement` | 209,120 | two reconciliations, one verification, one execution, moving clock, downstream fate; is every attempt recorded |
| `managed_race` | 757,702 | two executions of one action under two faults |
| `managed_control` | 499,904 | two rules, holds activated, aged and restored, executors replaced and put back, restarts around a proposal; is every durable reservation resolved |
| `export` | 239,073 | two drains, three faults of any kind, batches of two; does every durable event arrive |
| `v4_budgets` | 532,357 | three budgets (rolling, fixed, to be reviewed), two campaign rules, two actors, actions and targets |
| `v4_delegation` | 168,235 | three actions of a chain of delegated profiles, a root budget, one open call, one fault |
| `decision` | 309,604 | eighteen profiles, two requests, three reviews; every combination of answers |
| `v4_rolling_in_flight` | | *violation:* an in-flight budget with a rolling window |
| `v4_replaced_profile` | | *violation:* a profile replaced between the two reads of `propose()` |
| `decision_child` | | *violation:* an attenuated child that allows more than its parent |

What they show, property by property:

- `OneDispatchPerAction`, `OneApprovalOneDispatch`, `EffectsAreReserved` (`gate_race`): the
  double check in the reservation region closes every race that the released lock opens. Two
  calls, two manifests and one approval are the smallest instance with every
  conflict (same manifest; same action through another manifest; same approval);
  a third call meets the same closed keys. The clock stands still in this run
  (`MaxTime = 0`): that an approval has not timed out at the dispatch is left to the theorem
  `OneApproval`, and the windows are checked by `settlement` and proved in `DispatchInWindows`.
- `DispatchWithinWindows`, `SettledByOneReconciliation`, `SettlementIsTrue`,
  `VerifiedStands`, `ImplementsLedger` (`settlement`): two reconciliations are enough for a late
  result and for contradictory ones; evidence ages of 0 and a skew of 1 on a
  clock of two instants make fresh, stale and future-dated evidence all occur; the authority
  window of 1 ends within a call, the review window of 2 does not.
- `EffectIsOnDisk`, `ImplementsLedger`
  (`managed_race`): two faults are needed for the worst cases (an
  unacknowledged commit followed by a crash or by a failing recovery; a close
  under a thread followed by a crash).
- `UnknownIsHeld`, `AdmissionIsCurrent`, `AdapterStands`, `DispatchIsResolved`
  (`managed_control`): a hold is not lifted over an unknown outcome; a reservation is compared with the *durable*
  control state and profile at the moment it becomes durable. Two external signals activate a
  rule of threshold two, and an operator restores it, which is the ABA case: no hold, a hold, no
  hold, and only the epoch tells a proposal from before. A second activation would need further
  signals and is left to the theorem `AdmissionStands`. The adapter revision is bounded to 3:
  replaced, put back, and rehydrated after a restart. A registration between the evaluation of a
  call, its read of the executor and its reservation occurs; with a reservation that relies on
  the evaluation (`AdmitAsEvaluated`) TLC finds `AdapterStands` violated. One fault suffices, as
  recovery follows every one.
- `NothingIsSkipped`, `DeliveredIsDurable`, `CheckpointAdvances`,
  `AdmissionIsBackedByExport`, `EventuallyDelivered` (`export`): a drain of a closed store and a drain of its
  successor overlap, commits and checkpoints are lost or durable without
  acknowledgement.
- `BudgetsHold` (`v4_budgets`, `v4_delegation`) restates a budget without the gate's
  groups and windows: by the dispatch ledger, by going up the chain of delegations,
  and by expiry. Windows of one instant on a clock of two expire in some behaviours
  and not in others, and two fixed buckets occur; a limit of 3 objects is passed by
  two actions of two. In `v4_delegation` the third of three actions is a
  grandchild, and the limit of two stops it although its own profile may be unused, also
  after a restart.
- `InFlightHolds` (`v4_delegation`): an execution whose report was lost with its process stays
  open, and the one open call a program may have is still taken after the restart.
- `ReservedIsDispatched`: a refused duplicate, and a refused approval, keep no share.
- `ReviewIsCurrent`, `ExcessIsReviewed` (`v4_budgets`): two targets
  under a limit of one that asks for approval, with settlements and verifications in
  between; actions are dispatched above the limit in this run, always reviewed.
- `HoldsStopDispatch` (`v4_budgets`): an observation activates a hold of threshold one between the
  steps of a call, a restoration ends it; one hold suspends the program, the other forces an approval of an actor.
  There is one observation in this run, so a hold that is restored and activated again is
  covered by the theorem `HoldsStand` only.
- `AllowIsAuthorized` says from the policy, not from the checker, what an ALLOW means.
  The profiles vary one well-formed profile in one respect each, so that every kind of
  question (selector, class, typed rule, threshold, egress policy, recovery evidence, opaque
  constraint, free text at level L0) is asked in some state. An operation that needs a tested
  recovery has a test that is in date at the moment of the decision (a day is one instant here,
  `Day = 1`, the oldest test allowed is one day old, and one profile's test lies in the future).
- `AutonomyIsEarned`: an operation that needs approval by default runs without only
  under a typed threshold that held at construction and in this decision.
- `BuiltIsContained`: under a coherent profile, what construction makes of a request within it is allowed once all
  answers are yes; a builder that forgets a bound of the checker would be found here. `Coherent`
  says what the schema does not ask of a profile and a manifest of it needs: among others, that material
  parameters are declared ones. Where a tested recovery is needed, the test must be in date when the
  manifest is issued; what is decided later, when the test may have become too old, is
  no claim of the property. One profile of the run names an undeclared material
  parameter, one has a test in the future, and one a template that a request can leave empty (which
  `ManifestSchema` stops before the manifest is stored).
- `AttenuationHolds`: whatever is allowed under a profile passes the rules of every
  profile of the run it is an attenuation of, with the exceptions found by `decision_child`.
- `TwoPeopleReviewed`: one person with two keys, a key not yet in force and a key that ends
  before the publication are all handed in.
- `CompletionIsObserved`: the plans offered include one in which a postcondition is tested by
  the tool alone.

Three runs end in a violation, and each is a finding.

- *An in-flight budget with a window.* The documentation promises that an
  in-flight count remains as long as the execution is open and unverified
  (`python/docs/implementation.md:348`); the code counts only reservations inside the
  budget's window (`aggregate.py:214-223`), and a policy may give an in-flight budget a
  rolling or fixed one. `v4_rolling_in_flight` shows two executions in flight under a
  limit of one. With a lifetime window, the one the example policy uses, the promise
  holds (`v4_delegation`).
- *A profile replaced while it is proposed under.* `V4ManagedGate.propose` compares the child
  profile it read with the parent's (`v4.py:262-272`); `Gate.propose` reads the active
  profile again (`gate.py:399`) and builds the manifest from that one.
  `v4_replaced_profile` publishes a wider child in between and dispatches under it, against
  `README.md:14` ("A child Profile must be an attenuation of the parent").
- *An attenuated child that allows more.* The child must "not increase autonomy or lifetimes"
  (`python/docs/implementation.md:358`). `_attenuation_errors` accepts a child with fewer
  thresholds, but `check()` asks *every* typed threshold at or above the mode, so the child runs
  without approval on fewer conditions; and it does not compare `expires_at`.
  `decision_child` shows the first; without either exception TLC finds `AttenuationHolds` violated.

Observations that are no findings, because nothing in the repository says otherwise:

- A false threshold of a higher tier denies a mode that a lower tier has earned
  (`check_containment.py:272-276`): it is asked as well, and a failed question is a DENY.
- The builder is bounded by the operation's `max_mode` only, so a profile whose own maximum is lower
  gets manifests that are denied (`BuiltIsContained` therefore asks for coherence).
- A profile that expires while dependencies answer is not noticed at the dispatch
  (`gate.py:709-722`); the expiry is compared when the call begins.
- Publication accepts an older version of a profile again. `propose` stores a manifest whatever
  its decision is.
- Two target specifications of one type are not excluded by the schema; `check` uses the first, the
  attenuation compares sets. The model has one per type.

The runs of `V4Gate` keep `ClockMayGoBack = FALSE`. This matters: a reservation dated after
a clock that was set back counts in no rolling window (`aggregate.py:201`), and with
`ClockMayGoBack = TRUE` TLC finds `BudgetsHold` violated once the clock catches up. The
gate notices a clock that goes back only within one call (`gate.py:713`).

Bounds by name: `MaxTime` (clock; 1 in the runs of `V4Gate` with campaign rules, whose windows and thresholds are 1), `MaxFaults` (crashes, closings of a healthy
gate, failed writes, refusals), `MaxAdmin` (adapter revision), `MaxEpoch` (epochs
moved by external signals), `MaxCreated` (events), `MaxDepth` and `MaxObjects` (limits of
profile and policy). They occur in guards only.
Symmetry is used for ids that are never compared otherwise than by equality, and
never in a run with a liveness property. Deadlock is checked in every run (in those of
`V4Gate` it cannot occur: `Tick` may leave the clock where it is).

## Fairness

- `Gate!FairSpec`, `SettlementFairSpec`: weak fairness of each thread's next step. Threads of the
  process are scheduled, the lock is released by every holder, and `StateProvider`
  requires adapters to bring their own timeouts; an executor that never returns
  is thereby excluded, which is what the code demands of adapters. Nothing is
  assumed of requesters, of administrators, or of the downstream system.
- `ManagedGate!FairSpec`: threads as above; the operator closes a *failed* gate
  and opens a new one, as `RuntimeFailure` (`restart_and_reconcile_required`)
  asks. A healthy gate need not be closed, and a crash needs no fairness; the number of faults is
  bounded, so an opening eventually succeeds.
- `AuditExport!FairSpec`: a schedule keeps calling `drain()`, a started drain
  goes on, the operator replaces a failed gate. Refusals count as faults, hence
  are finitely many: a receiver that refuses for ever delivers nothing.

## What is proved

Every safety invariant and every action property that a passing run checks is proved, for every
value of the constants: any number of calls, actions, profiles, budgets, rules, drains and
faults, and any bound. So are the three refinements of `ActionLedger`. The hypotheses are the
named `ASSUME`s of the modules (TLC evaluates them in every run) and, for four theorems of
`V4Proofs`, the conditions given below.

| Module | Theorem | States |
|---|---|---|
| `GateProofs` | `InvariantHolds` | `Spec => []GateInv` |
| | `TypeCorrect` | `[]TypeOK` |
| | `OneDispatch` | `[]OneDispatchPerAction` |
| | `OneApproval` | `[]OneApprovalOneDispatch` |
| | `DispatchInWindows` | `[]DispatchWithinWindows` |
| | `ReservedEffects` | `[]EffectsAreReserved` |
| | `GateImplementsLedger` | `ImplementsLedger` |
| `SettlementProofs` | `SettlementInvariant` | `SettlementSpec => []SettlementInv` |
| | `SettlementTypes` | `[]SettlementTypeOK` |
| | `OneSettlement` | `[]SettledByOneReconciliation` |
| | `TrueSettlement` | `[]SettlementIsTrue` |
| | `StandingVerification` | `[]VerifiedStands` |
| | `GateStands` | the four properties of `Gate`, with settlement beside it |
| | `SettlementImplementsLedger` | `ImplementsLedger` |
| `ManagedProofs` | `ManagedInvariant` | `Spec => []ManagedInv` |
| | `ManagedTypes` | `[]ManagedTypeOK` |
| | `EffectStands` | `[]EffectIsOnDisk` |
| | `UnknownStands` | `[]UnknownIsHeld` |
| | `ExecutorStands` | `[]AdapterStands` |
| | `AdmissionStands` | `AdmissionIsCurrent` |
| | `ManagedImplementsLedger` | `ImplementsLedger` |
| `ExportProofs` | `ExportInvariant` | `Spec => []ExportInv` |
| | `ExportTypes` | `[]ExportTypeOK` |
| | `NothingSkipped` | `[]NothingIsSkipped` |
| | `DeliveredStands` | `[]DeliveredIsDurable` |
| | `CheckpointStands` | `CheckpointAdvances` |
| | `AdmissionIsBacked` | `AdmissionIsBackedByExport` |
| `V4Proofs` | `V4Invariant` | `Spec => []V4Inv` |
| | `V4Types` | `[]V4TypeOK` |
| | `ReservationStands` | `[]ReservedIsDispatched` |
| | `BudgetsStand` | `[]BudgetsHold`, every budget but in-flight ones `Timely` |
| | `InFlightStands` | `[]InFlightHolds`, in-flight budgets with lifetime windows |
| | `ReviewStands` | `ReviewIsCurrent`, every budget `Timely` |
| | `ExcessStands` | `ExcessIsReviewed`, every budget `Timely` |
| | `HoldsStand` | `HoldsStopDispatch` |
| `DecisionProofs` | `DecisionInvariant` | `Spec => []DecisionInv` |
| | `DecisionTypes` | `[]DecisionTypeOK` |
| | `AllowStands` | `[]AllowIsAuthorized` |
| | `AutonomyStands` | `[]AutonomyIsEarned` |
| | `BuildStands` | `[]BuiltIsContained` |
| | `TwoPeopleStand` | `[]TwoPeopleReviewed` |
| | `CompletionStands` | `[]CompletionIsObserved` |
| | `AttenuationStands` | `[]AttenuationHolds` |

None of the properties is inductive: each speaks of records whose fields were computed several
steps earlier, from state that others may have changed since. Each component's module ends with
the invariant that carries its properties; it was model-checked before it was proved.

*Assumptions on constants.* `NoneAssumption` (in each module that has it): the absent value is
none of the others. `FiniteAssumption`: there are finitely many manifests, executions, signals,
rules, as there are in any run of the program; sums and thresholds count them.
`SchemaAssumption` (`Decision`): what `agent-authority-profile.schema.json` and the trust-root file require of
values, such as severities and modes out of their lists and natural durations. The other
assumptions give parameters their types.

*Gate.* `GateInv` adds `CallInv`, which says for
every phase of a call what it has established so far (`PhaseOK`), that a
dispatched record is the one its call was authorised for (`DispatchOK`), and that only an
attempt that was made is acknowledged or settled as committed (`EffectOK`). It
is kept for two reasons. A step changes the locals, the record and the effect of
one call only (`OthersUntouched`). And what an unfinished call relies on is never
overwritten by anybody (`KeptStep`: a manifest is never replaced, an approval
only becomes consumed), so an early check that depends only on those fields is
still true at the reservation. The reservation maps and the records agree because
`Admit` alone writes them, in one step, when both keys are free
(`AdmitReservations`); every other step keeps what a dispatched record says
(`CallReservations`, `ElsewhereReservations`). The refinement then maps `Admit`
to `Reserve`, `CallExecutor` to `Attempt`, `ExecutorReturns` to `Report`, and
everything else to a stutter (`RefinementStep`).

*Settlement.* `SettlementInv` contains `GateInv` and says what `reconcile()` and
`verify_outcome()` rely on after they have read an execution outside the lock: terminal evidence,
which the downstream system does not take back (`LedgerForward`), and a record that is no longer
`DISPATCHED`, which only a reconciliation that applies may change (`SettledRecord`), and that one
finds it unchanged (`StillAsSeen`) or gives up. The gate's own theorems carry over
(`GateStands`), and `ReconcileApply` is the ledger's `Settle`.

*Managed gate.* `ManagedInv` says of *every* ledger, the one in memory and the one on disk, that
reservations and dispatches name each other (`ReservationsOK`), that a manifest of a scope's
present epoch saw its present holds and a manifest of the adapter's present revision its present
version (`ManifestsOK`), and that an unknown outcome is held (`UnknownHeld`); of the gate, that
it knows what is durable unless it has failed (`GateOK`); of threads, what they have on record
in each phase, also as orphans (`ThreadOK`), and that both ledgers agree with the call they
carry (`CallOK`). What a thread knows of the executor it read is conditional: before the
reservation it is the manifest's version *as long as* the adapter's revision is still the
manifest's. Revisions only grow (`AdapterForward`), so a registration makes the condition false
for good, and `Admit` alone, which compares the revision again, turns it into the fact that
`AdapterStands` states. Each operation computes a ledger that is again consistent
(one lemma per operation, `ProfileLedger` to `TransitionLedger`), and a transaction leaves each
of memory and disk where it was or at that ledger (`TransactionFacts`), so it does not matter which
commits are lost or unacknowledged. Feedback never lifts a hold and moves the epoch of every scope whose
holds it changes (`ControlGrows`). The reports of a watchdog and a recovery are folds over a set of
executions; what they leave is found by induction over the part that is done (`ReportedFrom`,
`RecoveredFrom`). For the refinement every step is either invisible in the ledger, or one of its
moves, or the reservation of an admission that became durable (`NextSplits`); the same
split proves `AdmissionIsCurrent`, since only an admission makes a reservation.

*Export.* Stores grow only at their end, so what a drain has read of its store stays true of
every later one; `StoresOK` relates the open store and the durable one up to a lost
acknowledgement, and `DrainOK` a drain, also one of a closed store, to its own.

*Budgets.* What `evaluate()` counts (the group and the window of a claim) and what `BudgetsHold`
counts (the chain of delegations, expiry) are the same in every reachable state
(`AggregateProofs`, `V4Proofs`), so the projected measure is the measure after the dispatch, and no other
step lets a count grow. The condition `Timely` of a budget is that its window cannot be reopened:
it is a lifetime one, or the clock is never set back. The rest of `V4Inv` needs no
such condition. Both conditions are necessary: with `ClockMayGoBack = TRUE` TLC finds `BudgetsHold` violated, and
`v4_rolling_in_flight` is the other one.

*Decisions.* Publication establishes what is said of a profile in force (`PublishedOK`), a stored
manifest is `BuildManifest` of one (`ManifestOK`), and a result is still true of the manifest
it was computed for (`ResultOK`); the properties then follow rule by rule.

*Folds.* The sums of budgets (`Total`), the mode derived from thresholds (`BuiltMode`), the reports of
a watchdog and the transitions of a recovery are folds over finite sets. A fold is a
`CHOOSE` of a function that satisfies a recursive equation. `FoldProofs` shows that such a
function exists, by approximations on the subsets of bounded size (`FoldExists`), and that
what the base has and each step keeps, all its values have (`SubsetInduction`); both use the well-foundedness
of the naturals as a set of pairs, since the library's induction theorems take an operator.

*What the proofs changed.* Proving made four weaknesses visible, all in the models, none in the code.
`ActionLedger` had no move for a recovery of several reservations at once (`Recover`); with the one
action of `managed_race` TLC could not miss it. `BuiltIsContained` was
stated for the mode of one set of thresholds and is now stated for every one. The context of a proposal records a set of pairs of
scope and epoch, as the dictionary of `feedback.py:57` does. And what a profile schema
guarantees was used without being said (`SchemaAssumption`).

*What a comparison with the source changed.* `AdapterStands` used to follow from an evaluation that
read the executor in its own step; with the two regions of the code apart it needs the admission's second
comparison, and the invariant the conditional form above. `BuiltIsContained` was false of
profiles with an undeclared material parameter, an empty blast radius or a recovery test out of date,
which the model could not express; it is now stated and proved with them.

*Only model-checked:* liveness under fairness (`EveryCallEnds`, `EveryAttemptIsRecorded`,
`DispatchIsResolved`, `EventuallyDelivered`), which the prover does not do. The three findings are TLC's.

## What is not modelled

- Schemas, digests and seals: that a document is well formed and genuine is an input. A forged
  or altered record is outside the model.
- In `Decision`: several profile ids and manifests (a decision reads nothing of another), the
  comparison of one parameter with one constraint, and a revocation between the
  last profile read of `execute()` and its dispatch time (`Gate` has those steps).
- Of the sign-offs: how one is made and rendered (`sign_readback`, `review_binding`); whether a
  record is bound to the profile is an input.
- In the managed gate: approvals, decisions and outcomes as part of the
  transaction (their ledger behaviour is in `Gate`; a transaction of theirs that
  fails is `OtherTransactionFails`), the binding checks of an opening store, the
  hash chain, and the file lock that makes the owner unique.
- In the feedback: real time. An incident ages, or not, whenever a rule looks.
- In the audit export: more than one consumer; the periodic rebuild of metrics.
- A profile store of the deployment that revokes a profile between
  `RecheckProfile` and the reservation: the code promises a re-read, not
  atomicity, and no property claims more. (The managed gate compares the profile
  again inside the reservation, and `AdmissionIsCurrent` says so.)
- In `V4Gate`: who may attest or observe what, several programs and operations, and revocation
  (profiles are replaced).
- Two limitations that the documentation states itself
  (`python/docs/implementation.md`, "Current campaign restoration limitations"): a hold
  activated and restored between proposal and dispatch leaves no trace in the
  campaign context, and a hold is restored without looking at open executions. The
  model has both behaviours; no property is stated against them.
- Audit review, telemetry, rendering, command line, schema support: projections, files and text
  without state that outlives a call, on which no decision depends.

## Plan

Order of work.

1. `ActionLedger`: the promise. *Done.*
2. `Gate`, `GateSettlement`, `GateProofs`. *Done.*
3. `Feedback`, `ManagedGate` (composes `Feedback` with the gate's ledger; implements
   `ActionLedger` on disk). *Done.*
4. `AuditExport`. *Done;* its backlog guard is the one of the managed admission.
5. `Aggregate`, `V4Gate`: budgets, delegation and campaigns around a dispatch, with failed
   transactions and restarts. *Done.*
6. `Containment`, `Decision`: what a decision is made of, and the states around it. *Done.*

The modelling is complete as far as it is planned.

Proofs: `GateProofs`, `SettlementProofs`, `ManagedProofs`, `ExportProofs`, `V4Proofs`, `DecisionProofs`. *Done.*
What may still be proved: that `V4Gate`, which reserves by action as well, implements `ActionLedger` too.
