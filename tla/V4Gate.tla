------------------------------- MODULE V4Gate -------------------------------
(***************************************************************************)
(* The v0.4 managed gate (v4.py): what V4ManagedGate adds to a dispatch.   *)
(* A proposal is bound to the budgets and campaign holds it was reviewed   *)
(* against, and to a delegation from an action that was admitted before;   *)
(* a reservation takes its share of the budgets in the transaction of the  *)
(* dispatch; observations of monitored sources put holds on an actor or on *)
(* the whole program.                                                      *)
(*                                                                         *)
(* The checks of Gate and ManagedGate are in those modules: here            *)
(* authorisation succeeds or refuses.  The variables are the durable state: *)
(* a transaction is one action, which is on disk when it happens but may be *)
(* the last one of the process, which then stands still (it failed to learn *)
(* that the transaction committed, lost it, crashed or was closed) until it *)
(* is restarted.  One program, one operation; profiles are replaced, not    *)
(* revoked.  A rule of scope profile or operation behaves as one of scope   *)
(* program does there; RuleScope leaves it out.                            *)
(***************************************************************************)
EXTENDS Aggregate

CONSTANTS Manifests, Executions, ActionIds, Actors, Profiles,
          ChildOf,         \* <<parent, child>>: delegations the policies permit
          Contents,        \* contents a profile can be published with
          Attenuates,      \* <<parent, child>> contents without _attenuation_errors
          OwnApproval,     \* whether operations ask for an approval of their own: some of BOOLEAN
          MaxDepth,        \* max_depth of the delegation policies
          Rules,           \* campaign_rules
          RuleScope, RuleMode, RuleThreshold, RuleSeconds,
          Observations,    \* observation ids
          MaxTime,         \* bound of the clock
          MaxFaults,       \* bound of failures of the process
          ClockMayGoBack   \* whether the wall clock may be set back

Time == 0 .. MaxTime
ScopeValues == Actors \cup {"program"}
Holds == Rules \X ScopeValues

ASSUME V4Assumption ==
  /\ ChildOf \subseteq Profiles \X Profiles
  /\ Attenuates \subseteq Contents \X Contents /\ OwnApproval \subseteq BOOLEAN
  /\ MaxDepth \in Nat /\ MaxTime \in Nat /\ MaxFaults \in Nat /\ ClockMayGoBack \in BOOLEAN
  /\ "program" \notin Actors
  /\ RuleScope \in [Rules -> {"actor", "program"}]
  /\ RuleMode \in [Rules -> {"REQUIRE_APPROVAL", "SUSPENDED"}]
  /\ RuleThreshold \in [Rules -> Nat \ {0}]
  /\ RuleSeconds \in [Rules -> Nat \ {0}]

VARIABLES clock,
          profiles,     \* _runtime_profiles
          delegations,  \* propose() calls and manifests: what their delegation says
          manifests,    \* _manifests
          executions,   \* _executions
          verified,     \* executions with a verified outcome in _outcomes
          dispatches,   \* _dispatches
          reservations, \* _aggregate_state
          observations, \* _campaign_observations
          holds,        \* _campaign_holds
          pc, call,     \* execute() threads
          failed,       \* _runtime_failed, or no process at all
          faults        \* how often it failed

ledgerVars == <<executions, verified, dispatches, reservations, pc, call>>
process == <<failed, faults>>
vars == <<clock, profiles, delegations, manifests, ledgerVars, observations, holds, process>>

Live   == {"DISPATCHED", "EXECUTION_UNKNOWN", "ACKNOWLEDGED", "COMMITTED"}
States == Live \cup {"NOT_DISPATCHED", "NOT_ATTEMPTED", "NOT_COMMITTED"}

Claim == [actor : Actors, root : Profiles, target : Targets, objects : 1 .. MaxObjects]
Delegation ==
  [profile : Profiles, parent : Manifests \cup {None}, root : Profiles, depth : 0 .. MaxDepth,
   issued : Time, against : Contents \cup {None}]
ReviewRecord ==
  [issues : SUBSET (Budgets \X Nat), revision : SUBSET (Manifests \X Budgets \X BOOLEAN)]
ManifestRecord ==
  [action : ActionIds, claim : Claim, review : ReviewRecord, content : Contents,
   campaign : SUBSET (Holds \X Nat), approval : BOOLEAN]
ExecutionRecord == [manifest : Manifests, state : States]
ReservationRecord == [execution : Executions, at : Time, claim : Claim]
PendingRecord     == [execution : {None}, at : Time, claim : Claim]
Observation == [id : Observations, rule : Rules, actor : Actors, at : Time]

ASSUME NoneAssumption ==
  /\ None \notin Manifests /\ None \notin Executions /\ None \notin Delegation
  /\ None \notin ManifestRecord /\ None \notin ExecutionRecord
  /\ None \notin ReservationRecord \cup PendingRecord
ASSUME FiniteAssumption == IsFiniteSet(Manifests)

V4TypeOK ==
  /\ clock \in Time
  /\ profiles \in [Profiles -> Contents]
  /\ delegations \in [Manifests -> Delegation \cup {None}]
  /\ manifests \in [Manifests -> ManifestRecord \cup {None}]
  /\ executions \in [Executions -> ExecutionRecord \cup {None}]
  /\ verified \subseteq Executions
  /\ dispatches \in [Manifests -> Executions \cup {None}]
  /\ reservations \in [Manifests -> ReservationRecord \cup {None}]
  /\ observations \subseteq Observation
  /\ holds \in [Holds -> [active : BOOLEAN, revision : Nat]]
  /\ pc \in [Executions -> {"idle", "authorised", "calling", "done"}]
  /\ call \in [Executions -> Manifests \cup {None}]
  /\ failed \in BOOLEAN /\ faults \in 0 .. MaxFaults

Init ==
  /\ clock = 0
  /\ profiles \in [Profiles -> Contents]
  /\ delegations = [m \in Manifests |-> None]
  /\ manifests = [m \in Manifests |-> None]
  /\ executions = [e \in Executions |-> None]
  /\ verified = {}
  /\ dispatches = [m \in Manifests |-> None]
  /\ reservations = [m \in Manifests |-> None]
  /\ observations = {}
  /\ holds = [h \in Holds |-> [active |-> FALSE, revision |-> 0]]
  /\ pc = [e \in Executions |-> "idle"]
  /\ call = [e \in Executions |-> None]
  /\ failed = FALSE /\ faults = 0

Tick == /\ clock' \in IF ClockMayGoBack THEN Time ELSE {t \in Time : t >= clock}
        /\ UNCHANGED <<profiles, delegations, manifests, ledgerVars, observations, holds, process>>

(* A step is a transaction of a running process: it commits, and the process *)
(* may not learn of it.                                                     *)
Fault == faults < MaxFaults /\ failed' = TRUE /\ faults' = faults + 1
Commits == ~failed /\ (UNCHANGED process \/ Fault)

(* publish_profile()                                                        *)
Publish(p, c) ==
  /\ Commits
  /\ profiles' = [profiles EXCEPT ![p] = c]
  /\ UNCHANGED <<clock, delegations, manifests, ledgerVars, observations, holds>>
-----------------------------------------------------------------------------
(* What admission is decided on.                                           *)

StateOf(e) == IF executions[e] = None THEN "none" ELSE executions[e].state

(* _active_execution: dispatched, and not known to be without effect, as    *)
(* long as no outcome is verified.                                          *)
Active == {e \in Executions : StateOf(e) \in Live /\ e \notin verified}

(* _aggregate_current_snapshot                                              *)
Snapshot(claim, now) == review_snapshot(reservations, claim, now, Active)

(* _campaign_context: the active holds of the actor, program, profile and   *)
(* operation, with their revisions.                                         *)
ScopeValue(rule, actor) == IF RuleScope[rule] = "actor" THEN actor ELSE "program"
HoldsOn(actor) == {h \in Holds : holds[h].active /\ h[2] = ScopeValue(h[1], actor)}
campaign_context(actor) == {<<h, holds[h].revision>> : h \in HoldsOn(actor)}
CampaignModes(actor) == {RuleMode[h[1]] : h \in HoldsOn(actor)}

(* _campaign_issues finds nothing.                                          *)
CampaignClear(m) ==
  LET modes == CampaignModes(manifests[m].claim.actor) IN
  /\ manifests[m].campaign = campaign_context(manifests[m].claim.actor)
  /\ "SUSPENDED" \notin modes
  /\ "REQUIRE_APPROVAL" \in modes => manifests[m].approval

(* Mutant: the view of the reservations is not compared.                    *)
AdmissionClearUnbound(m) ==
  LET claim == manifests[m].claim IN
  /\ manifests[m].content = profiles[delegations[m].profile]
  /\ CampaignClear(m)
  /\ Blocking(Issues(reservations, claim, clock, Active), manifests[m].approval) = {}

(* Mutant: only what would be exceeded is compared.                         *)
AdmissionClearByIssues(m) ==
  LET claim == manifests[m].claim IN
  /\ manifests[m].content = profiles[delegations[m].profile]
  /\ manifests[m].review.issues = Snapshot(claim, clock).issues
  /\ CampaignClear(m)
  /\ Blocking(Issues(reservations, claim, clock, Active), manifests[m].approval) = {}

(* _runtime_issues and _admission_issues find nothing.                      *)
AdmissionClear(m) ==
  LET claim == manifests[m].claim IN
  /\ manifests[m].content = profiles[delegations[m].profile]
  /\ manifests[m].review = Snapshot(claim, clock)
  /\ CampaignClear(m)
  /\ Blocking(Issues(reservations, claim, clock, Active), manifests[m].approval) = {}
-----------------------------------------------------------------------------
(* propose(), one action per critical section.                             *)

(* Mutant: the budgets are those of the parent, not of the root.            *)
DelegatedByParent(m, profile, parent) ==
  [profile |-> profile, parent |-> parent, issued |-> clock,
   against |-> IF parent = None THEN None ELSE profiles[delegations[parent].profile],
   root  |-> IF parent = None THEN profile ELSE delegations[parent].profile,
   depth |-> IF parent = None THEN 0 ELSE delegations[parent].depth + 1]

Delegated(m, profile, parent) ==
  [profile |-> profile, parent |-> parent, issued |-> clock,
   against |-> IF parent = None THEN None ELSE profiles[delegations[parent].profile],
   root  |-> IF parent = None THEN profile ELSE delegations[parent].root,
   depth |-> IF parent = None THEN 0 ELSE delegations[parent].depth + 1]

(* propose() reads the active profile, and _validate_delegation compares it *)
(* with the active profile of the parent, which has been admitted and is    *)
(* not unknown.  The attestation itself (its source, validity and binding)  *)
(* is accepted.  The proposal's time was taken when it began.               *)
ValidateDelegation(m, profile, parent) ==
  /\ Commits
  /\ delegations[m] = None
  /\ parent # None =>
       /\ manifests[parent] # None
       /\ dispatches[parent] # None
       /\ StateOf(dispatches[parent]) \in {"DISPATCHED", "ACKNOWLEDGED", "COMMITTED"}
       /\ <<delegations[parent].profile, profile>> \in ChildOf
       /\ <<profiles[delegations[parent].profile], profiles[profile]>> \in Attenuates
       /\ delegations[parent].depth < MaxDepth
  /\ delegations' = [delegations EXCEPT ![m] = Delegated(m, profile, parent)]
  /\ UNCHANGED <<clock, profiles, manifests, ledgerVars, observations, holds>>

(* Budgets that want a review, or a hold that does, force an approval.      *)
ForcesApproval(review, actor) ==
  \/ \E i \in review.issues : Response[i[1]] = "REQUIRE_APPROVAL"
  \/ CampaignModes(actor) = {"REQUIRE_APPROVAL"}

(* Gate.propose() reads the active profile again and builds the manifest     *)
(* from it.  _prepare_manifest_context: claim, review snapshot and campaign  *)
(* context are taken in one critical section.  Storing the manifest comes later and *)
(* is not told apart from it: nothing reads a manifest that is not stored.  *)
Propose(m, action, actor, target, objects, needsApproval) ==
  LET claim  == [actor |-> actor, root |-> delegations[m].root, target |-> target,
                 objects |-> objects]
      review == Snapshot(claim, delegations[m].issued)
  IN /\ Commits
     /\ delegations[m] # None /\ manifests[m] = None
     /\ manifests' = [manifests EXCEPT ![m] =
          [action |-> action, claim |-> claim, review |-> review,
           content |-> profiles[delegations[m].profile],
           campaign |-> campaign_context(actor),
           approval |-> needsApproval \/ ForcesApproval(review, actor)]]
     /\ UNCHANGED <<clock, profiles, delegations, ledgerVars, observations, holds>>
-----------------------------------------------------------------------------
(* execute()                                                               *)

(* Everything before the reservation; an approval is checked and consumed   *)
(* as in Gate.                                                              *)
Authorise(e, m) ==
  /\ Commits
  /\ pc[e] = "idle"
  /\ manifests[m] # None
  /\ AdmissionClear(m)
  /\ call' = [call EXCEPT ![e] = m]
  /\ pc' = [pc EXCEPT ![e] = "authorised"]
  /\ UNCHANGED <<clock, profiles, delegations, manifests, executions, verified, dispatches,
                 reservations, observations, holds>>

KeyOf(m) == <<delegations[m].profile, manifests[m].action>>
Prior(m) == \E x \in Manifests : dispatches[x] # None /\ (x = m \/ KeyOf(x) = KeyOf(m))

(* evaluate(reserve=True): the reservation, not yet of an execution.        *)
WithReservation(m) ==
  [reservations EXCEPT ![m] = [execution |-> None, at |-> clock, claim |-> manifests[m].claim]]

(* Mutant: reservations of calls that were refused stay.                    *)
FinalizedRefused(reserved, dispatched) ==
  [m \in Manifests |-> IF reserved[m] = None \/ dispatched[m] = None THEN reserved[m]
                       ELSE [reserved[m] EXCEPT !.execution = dispatched[m]]]

(* _finalize_transaction_state: only a dispatch keeps a reservation.        *)
Finalized(reserved, dispatched) ==
  [m \in Manifests |-> IF reserved[m] = None \/ dispatched[m] = None THEN None
                       ELSE [reserved[m] EXCEPT !.execution = dispatched[m]]]

(* Mutant: the reservation is taken on the checks made before the lock.     *)
AdmitOnEarlierChecks(e) ==
  LET m == call[e] IN
  /\ Commits
  /\ pc[e] = "authorised"
  /\ reservations[m] = None
  /\ ~Prior(m)
  /\ dispatches' = [dispatches EXCEPT ![m] = e]
  /\ reservations' = Finalized(WithReservation(m), dispatches')
  /\ executions' = [executions EXCEPT ![e] = [manifest |-> m, state |-> "DISPATCHED"]]
  /\ pc' = [pc EXCEPT ![e] = "calling"]
  /\ UNCHANGED <<clock, profiles, delegations, manifests, verified, call, observations, holds>>

Admit(e) ==
  LET m == call[e] IN
  /\ Commits
  /\ pc[e] = "authorised"
  /\ AdmissionClear(m)
  /\ reservations[m] = None
  /\ ~Prior(m)
  /\ dispatches' = [dispatches EXCEPT ![m] = e]
  /\ reservations' = Finalized(WithReservation(m), dispatches')
  /\ executions' = [executions EXCEPT ![e] = [manifest |-> m, state |-> "DISPATCHED"]]
  /\ pc' = [pc EXCEPT ![e] = "calling"]
  /\ UNCHANGED <<clock, profiles, delegations, manifests, verified, call, observations, holds>>

(* Refused in the reservation region.  A duplicate, or an action whose      *)
(* approval was consumed meanwhile, has reserved its share before it is     *)
(* found out.                                                               *)
AdmitRefused(e) ==
  LET m == call[e]
      reserves == AdmissionClear(m) /\ reservations[m] = None
  IN /\ Commits
     /\ pc[e] = "authorised"
     /\ reserves => Prior(m) \/ manifests[m].approval
     /\ reservations' = Finalized(IF reserves THEN WithReservation(m) ELSE reservations,
                                  dispatches)
     /\ executions' = [executions EXCEPT ![e] = [manifest |-> m, state |-> "NOT_DISPATCHED"]]
     /\ pc' = [pc EXCEPT ![e] = "done"]
     /\ UNCHANGED <<clock, profiles, delegations, manifests, verified, dispatches, call, observations,
                    holds>>

ExecutorReturns(e, state) ==
  /\ Commits
  /\ pc[e] = "calling"
  /\ executions' = [executions EXCEPT ![e].state = state]
  /\ pc' = [pc EXCEPT ![e] = "done"]
  /\ UNCHANGED <<clock, profiles, delegations, manifests, verified, dispatches, reservations, call,
                 observations, holds>>

Reconcile(e, state) ==
  /\ Commits
  /\ StateOf(e) = "EXECUTION_UNKNOWN"
  /\ executions' = [executions EXCEPT ![e].state = state]
  /\ UNCHANGED <<clock, profiles, delegations, manifests, verified, dispatches, reservations, pc, call,
                 observations, holds>>

VerifyOutcome(e) ==
  /\ Commits
  /\ StateOf(e) \in {"ACKNOWLEDGED", "COMMITTED"}
  /\ verified' = verified \cup {e}
  /\ UNCHANGED <<clock, profiles, delegations, manifests, executions, dispatches, reservations, pc, call,
                 observations, holds>>
-----------------------------------------------------------------------------
(* Campaign observations and holds.                                        *)

(* The incidents of a rule in a scope: distinct ids in the rule's window.   *)
Incidents(known, rule, value) ==
  {o.id : o \in {k \in known : /\ k.rule = rule /\ ScopeValue(rule, k.actor) = value
                               /\ k.at <= clock /\ clock - k.at <= RuleSeconds[rule]}}

(* _apply_campaign_rules, for the rule whose indicator the observation names. *)
Activates(known, h, o) ==
  /\ h[1] = o.rule /\ h[2] = ScopeValue(h[1], o.actor)
  /\ ~holds[h].active
  /\ Cardinality(Incidents(known, h[1], h[2])) >= RuleThreshold[h[1]]

(* ingest_campaign_observation(): an authorised source, an id not seen, an  *)
(* observation neither of the future nor too old for every rule.            *)
IngestObservation(o) ==
  /\ Commits
  /\ \A k \in observations : k.id # o.id
  /\ o.at <= clock /\ \E r \in Rules : clock - o.at <= RuleSeconds[r]
  /\ observations' = observations \cup {o}
  /\ holds' = [h \in Holds |-> IF Activates(observations', h, o)
                               THEN [active |-> TRUE, revision |-> holds[h].revision + 1]
                               ELSE holds[h]]
  /\ UNCHANGED <<clock, profiles, delegations, manifests, ledgerVars>>

(* restore_campaign_hold(): the revision named is the one that is active.   *)
(* Nobody looks at executions.                                              *)
RestoreCampaignHold(h) ==
  /\ Commits
  /\ holds[h].active
  /\ holds' = [holds EXCEPT ![h].active = FALSE]
  /\ UNCHANGED <<clock, profiles, delegations, manifests, ledgerVars, observations>>
-----------------------------------------------------------------------------
(* The process and its ledger.                                              *)

(* Nothing was committed: a lost write, a crash between steps, close().      *)
GateFails == /\ ~failed /\ Fault
             /\ UNCHANGED <<clock, profiles, delegations, manifests, ledgerVars, observations, holds>>

(* Mutant: the aggregate state is set up after the saved state is loaded.    *)
RestartEmptiesBudgets ==
  /\ failed /\ failed' = FALSE
  /\ reservations' = [m \in Manifests |-> None]
  /\ executions' = [e \in Executions |-> IF StateOf(e) = "DISPATCHED"
                      THEN [executions[e] EXCEPT !.state = "EXECUTION_UNKNOWN"] ELSE executions[e]]
  /\ pc' = [e \in Executions |-> IF pc[e] = "idle" THEN "idle" ELSE "done"]
  /\ delegations' = [m \in Manifests |-> IF manifests[m] = None THEN None ELSE delegations[m]]
  /\ UNCHANGED <<clock, profiles, manifests, verified, dispatches, call, observations, holds,
                 faults>>

(* A new gate on the ledger: what was dispatched is unknown, calls and       *)
(* proposals under way are gone, everything else is as it was saved.        *)
Restart ==
  /\ failed /\ failed' = FALSE
  /\ executions' = [e \in Executions |-> IF StateOf(e) = "DISPATCHED"
                      THEN [executions[e] EXCEPT !.state = "EXECUTION_UNKNOWN"] ELSE executions[e]]
  /\ pc' = [e \in Executions |-> IF pc[e] = "idle" THEN "idle" ELSE "done"]
  /\ delegations' = [m \in Manifests |-> IF manifests[m] = None THEN None ELSE delegations[m]]
  /\ UNCHANGED <<clock, profiles, manifests, verified, dispatches, reservations, call,
                 observations, holds, faults>>
-----------------------------------------------------------------------------
ProposalStep(m) ==
  \/ \E p \in Profiles, parent \in Manifests \cup {None} : ValidateDelegation(m, p, parent)
  \/ \E a \in ActionIds, actor \in Actors, t \in Targets, n \in 1 .. MaxObjects, b \in OwnApproval :
       Propose(m, a, actor, t, n, b)

ThreadStep(e) ==
  \/ \E m \in Manifests : Authorise(e, m)
  \/ Admit(e)
  \/ AdmitRefused(e)
  \/ \E s \in {"ACKNOWLEDGED", "EXECUTION_UNKNOWN", "NOT_ATTEMPTED"} : ExecutorReturns(e, s)
  \/ \E s \in {"COMMITTED", "NOT_COMMITTED"} : Reconcile(e, s)
  \/ VerifyOutcome(e)

Next ==
  \/ Tick \/ GateFails \/ Restart
  \/ \E p \in Profiles, c \in Contents : Publish(p, c)
  \/ \E m \in Manifests : ProposalStep(m)
  \/ \E e \in Executions : ThreadStep(e)
  \/ \E i \in Observations, r \in Rules, actor \in Actors, t \in Time :
       IngestObservation([id |-> i, rule |-> r, actor |-> actor, at |-> t])
  \/ \E h \in Holds : RestoreCampaignHold(h)

Spec == Init /\ [][Next]_vars
-----------------------------------------------------------------------------
(* Properties.                                                             *)

(* A reservation is held by exactly the manifests that were dispatched, for *)
(* the execution dispatched: a refused duplicate leaves nothing behind, and *)
(* no dispatch is without its share (_finalize_transaction_state).          *)
ReservedIsDispatched ==
  \A m \in Manifests :
    /\ reservations[m] # None <=> dispatches[m] # None
    /\ reservations[m] # None => reservations[m].execution = dispatches[m]

(* The root of a manifest's delegations, found by going up the chain.       *)
RootOf[m \in Manifests] ==
  LET d == delegations[m] IN
  IF d = None THEN None ELSE IF d.parent = None THEN d.profile ELSE RootOf[d.parent]

(* What counts against a budget now, said without the gate's own groups and *)
(* windows: the dispatches of one actor, of one tree of delegations, or of  *)
(* all, whose window has not expired ("Admission counts remain until their  *)
(* configured window expires", implementation.md).                         *)
Expired(b, at) == \/ Window[b] = "rolling" /\ clock >= at + Seconds[b]
                  \/ Window[b] = "fixed" /\ clock \div Seconds[b] > at \div Seconds[b]
Groups(b) == CASE GroupBy[b] = "accountable_actor" -> Actors
               [] GroupBy[b] = "delegation_root" -> Profiles
               [] OTHER -> {"program"}
MemberOf(b, g, m) == CASE GroupBy[b] = "accountable_actor" -> manifests[m].claim.actor = g
                       [] GroupBy[b] = "delegation_root" -> RootOf[m] = g
                       [] OTHER -> TRUE
DispatchedIn(b, g) == {m \in Manifests : /\ dispatches[m] # None
                                         /\ manifests[m].claim.target \in Covers[b]
                                         /\ MemberOf(b, g, m)}
Counted(b, g) == {m \in DispatchedIn(b, g) : ~Expired(b, reservations[m].at)}
Used(b, S) ==
  CASE Measure[b] = "distinct_targets" -> Cardinality({manifests[m].claim.target : m \in S})
    [] Measure[b] = "objects" -> Total([m \in S |-> manifests[m].claim.objects], S)
    [] OTHER -> Cardinality(S)

(* No budget that does not ask for a review is ever exceeded: by retries,   *)
(* new action ids, delegated profiles, or calls that raced each other       *)
(* between review, authorisation and reservation (evaluate).                *)
BudgetsHold ==
  \A b \in Budgets : Measure[b] # "in_flight" /\ Response[b] # "REQUIRE_APPROVAL" =>
    \A g \in Groups(b) : Used(b, Counted(b, g)) <= Limit[b]

(* "In-flight counts remain while the execution is dispatched,              *)
(* acknowledged, committed or execution-unknown and lacks a verified        *)
(* outcome" (implementation.md): so many are never more than the limit.     *)
InFlightHolds ==
  \A b \in Budgets : Measure[b] = "in_flight" /\ Response[b] # "REQUIRE_APPROVAL" =>
    \A g \in Groups(b) : Cardinality({m \in DispatchedIn(b, g) :
                             /\ StateOf(dispatches[m]) \in Live
                             /\ dispatches[m] \notin verified}) <= Limit[b]

NewlyDispatched(m) == dispatches[m] = None /\ dispatches'[m] # None
CountedWith(b, m) == Counted(b, CHOOSE g \in Groups(b) : MemberOf(b, g, m))

(* An action is dispatched only while the reservations that count with it   *)
(* are those its proposal showed: a dispatch or the end of a window between *)
(* review and reservation makes the proposal stale, also when every measure *)
(* stays below its limit (review_snapshot, _admission_issues).              *)
ReviewIsCurrent ==
  [][\A m \in Manifests : NewlyDispatched(m) =>
       \A b \in Claims(manifests[m].claim) :
         {x \in Manifests : \E active \in BOOLEAN :
            <<x, b, active>> \in manifests[m].review.revision} = CountedWith(b, m)]_vars

(* A budget that asks for a review is exceeded only by an action that was   *)
(* approved, on a proposal that showed the same excess (_prepare_manifest_  *)
(* context forces the approval, evaluate accepts it).                       *)
ExcessIsReviewed ==
  [][\A m \in Manifests : NewlyDispatched(m) =>
       \A b \in Claims(manifests[m].claim) :
         LET n == Used(b, CountedWith(b, m) \cup {m}) IN
         Measure[b] # "in_flight" /\ Response[b] = "REQUIRE_APPROVAL" /\ n > Limit[b]
           => manifests[m].approval /\ <<b, n>> \in manifests[m].review.issues]_vars

(* An action is dispatched under the holds its proposal showed, and under   *)
(* none that suspends its actor or the program, whatever was observed       *)
(* between its authorisation and its reservation (_campaign_issues).        *)
HoldsStopDispatch ==
  [][\A m \in Manifests : NewlyDispatched(m) =>
       \A h \in Holds : holds[h].active /\ h[2] \in {manifests[m].claim.actor, "program"} =>
         /\ RuleMode[h[1]] # "SUSPENDED"
         /\ manifests[m].approval
         /\ <<h, holds[h].revision>> \in manifests[m].campaign]_vars

(* "A child Profile must be an attenuation of the parent" (README.md:14):   *)
(* what a delegated action is dispatched under attenuates the profile of    *)
(* its parent it was compared with (_validate_delegation, Gate.propose).    *)
ChildIsAttenuated ==
  \A m \in Manifests : dispatches[m] # None /\ delegations[m].parent # None =>
    <<delegations[m].against, manifests[m].content>> \in Attenuates

(* The invariant that carries the properties above.  A chain of delegations *)
(* ends at its root, because a parent was stored before its child; what a    *)
(* reservation recorded is what its manifest still says; no time passes      *)
(* backwards for it, unless the clock is set back.                           *)
DelegationsOK ==
  /\ \A m \in Manifests : delegations[m] # None =>
       LET d == delegations[m] IN
         \/ d.parent = None /\ d.root = d.profile
         \/ /\ d.parent \in Manifests /\ manifests[d.parent] # None
            /\ d.root = delegations[d.parent].root /\ delegations[d.parent].depth < d.depth
  /\ \A m \in Manifests : manifests[m] # None =>
       delegations[m] # None /\ manifests[m].claim.root = delegations[m].root

ReservationsOK ==
  /\ ReservedIsDispatched
  /\ \A m \in Manifests : reservations[m] # None =>
       /\ manifests[m] # None /\ reservations[m].claim = manifests[m].claim
       /\ ~ClockMayGoBack => reservations[m].at <= clock

CallsOK ==
  /\ \A e \in Executions :
       /\ pc[e] \in {"idle", "authorised"} => executions[e] = None
       /\ pc[e] = "authorised" => call[e] # None /\ manifests[call[e]] # None
       /\ pc[e] = "calling" => StateOf(e) = "DISPATCHED"
  /\ \A m \in Manifests : dispatches[m] # None =>
       executions[dispatches[m]] # None /\ executions[dispatches[m]].manifest = m

HoldsOK == \A h \in Holds : holds[h].active => (RuleScope[h[1]] = "actor" <=> h[2] \in Actors)

(* A budget whose window the clock cannot reopen.                            *)
Timely(b) == ~ClockMayGoBack \/ Window[b] = "lifetime"
BudgetsOK ==
  \A b \in Budgets : Timely(b) /\ Measure[b] # "in_flight" /\ Response[b] # "REQUIRE_APPROVAL" =>
    \A g \in Groups(b) : Used(b, Counted(b, g)) <= Limit[b]
InFlight(b, g) == {m \in DispatchedIn(b, g) : dispatches[m] \in Active}
InFlightOK ==
  \A b \in Budgets :
    Measure[b] = "in_flight" /\ Response[b] # "REQUIRE_APPROVAL" /\ Window[b] = "lifetime" =>
    \A g \in Groups(b) : Cardinality(InFlight(b, g)) <= Limit[b]

V4Inv == /\ V4TypeOK /\ DelegationsOK /\ ReservationsOK /\ CallsOK /\ HoldsOK
         /\ BudgetsOK /\ InFlightOK
=============================================================================
