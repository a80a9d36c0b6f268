------------------------------ MODULE V4Proofs ------------------------------
(***************************************************************************)
(* Proofs about the v0.4 managed gate, for every value of the constants:   *)
(* budgets hold, also across delegations and restarts; a proposal is       *)
(* dispatched only on the reservations and holds it was reviewed against.  *)
(*                                                                         *)
(* The argument.  evaluate() counts the reservations of the group and the   *)
(* window of a claim (Relevant); what the property counts is found by other *)
(* means (Counted: the chain of delegations, the windows that have          *)
(* expired).  In a state that satisfies V4Basics both are the same, so that *)
(* the measure the gate projects is the measure after the dispatch; no      *)
(* other step lets a count grow.                                           *)
(***************************************************************************)
EXTENDS V4Gate, AggregateProofs

USE BudgetAssumption, V4Assumption, NoneAssumption, FiniteAssumption

V4Basics == V4TypeOK /\ DelegationsOK /\ ReservationsOK

(* A chain of delegations ends at the root its proposal recorded: a manifest *)
(* of the smallest depth for which it does not has a parent of smaller depth *)
(* for which it does.                                                        *)
LEMMA RootIsRecorded ==
  V4Basics => \A m \in Manifests : delegations[m] # None => RootOf[m] = delegations[m].root
<1> SUFFICES ASSUME V4Basics
             PROVE  \A m \in Manifests : delegations[m] # None => RootOf[m] = delegations[m].root
  OBVIOUS
<1> USE DEF V4Basics
<1> DEFINE Up(f) == [m \in Manifests |->
             LET d == delegations[m] IN
             IF d = None THEN None ELSE IF d.parent = None THEN d.profile ELSE f[d.parent]]
           G == [m \in Manifests |-> IF delegations[m] = None THEN None ELSE delegations[m].root]
<1>1. G = Up(G)
  <2> SUFFICES ASSUME NEW m \in Manifests PROVE G[m] = Up(G)[m] OBVIOUS
  <2>1. CASE delegations[m] = None BY <2>1
  <2>2. CASE delegations[m] # None /\ delegations[m].parent = None
    BY <2>2 DEF DelegationsOK
  <2>3. CASE delegations[m] # None /\ delegations[m].parent # None
    <3>1. /\ delegations[m].parent \in Manifests
          /\ delegations[delegations[m].parent] # None
          /\ delegations[m].root = delegations[delegations[m].parent].root
      BY <2>3 DEF DelegationsOK
    <3> QED BY <2>3, <3>1
  <2> QED BY <2>1, <2>2, <2>3
<1>2. RootOf = Up(RootOf)
  <2>1. RootOf = CHOOSE f : f = Up(f) BY DEF RootOf
  <2> HIDE DEF Up, G
  <2> QED BY <1>1, <2>1
<1> DEFINE bad == {m \in Manifests : delegations[m] # None /\ RootOf[m] # delegations[m].root}
           depths == {delegations[m].depth : m \in bad}
<1>3. depths \subseteq Nat BY DEF V4TypeOK, Delegation
<1>4. SUFFICES ASSUME bad # {} PROVE FALSE OBVIOUS
<1>5. PICK n \in depths : \A k \in depths : n <= k
  <2>1. depths # {} BY <1>4
  <2> HIDE DEF depths
  <2> QED BY <1>3, <2>1, LeastNumber
<1>6. PICK m \in bad : n = delegations[m].depth OBVIOUS
<1>7. /\ delegations[m] # None /\ delegations[m].parent # None
      /\ delegations[m].parent \in Manifests
      /\ delegations[delegations[m].parent] # None
      /\ delegations[m].root = delegations[delegations[m].parent].root
      /\ delegations[delegations[m].parent].depth < n
      /\ RootOf[m] = RootOf[delegations[m].parent]
  <2>1. delegations[m] # None OBVIOUS
  <2>2. RootOf[m] = IF delegations[m].parent = None THEN delegations[m].profile
                    ELSE RootOf[delegations[m].parent]
    <3> HIDE DEF G, bad, depths
    <3> QED BY <1>2, <2>1 DEF bad
  <2> HIDE DEF Up, G
  <2> QED BY <1>6, <2>1, <2>2 DEF DelegationsOK
<1>8. delegations[m].parent \in bad BY <1>7
<1>9. delegations[delegations[m].parent].depth \in depths BY <1>8
<1> HIDE DEF depths, bad
<1> DEFINE k == delegations[delegations[m].parent].depth
<1>10. k < n BY <1>7
<1> HIDE DEF k
<1>11. k \in Nat /\ n \in Nat /\ n <= k BY <1>3, <1>5, <1>9 DEF k
<1> QED BY <1>10, <1>11

(* The group evaluate() puts a claim in is the one the property counts it in. *)
LEMMA GroupIsMember ==
  V4Basics => \A m \in Manifests, b \in Budgets : manifests[m] # None =>
    /\ GroupOf(b, manifests[m].claim) \in Groups(b)
    /\ \A g \in Groups(b) : MemberOf(b, g, m) <=> g = GroupOf(b, manifests[m].claim)
<1> SUFFICES ASSUME V4Basics, NEW m \in Manifests, NEW b \in Budgets, manifests[m] # None
             PROVE  /\ GroupOf(b, manifests[m].claim) \in Groups(b)
                    /\ \A g \in Groups(b) : MemberOf(b, g, m) <=> g = GroupOf(b, manifests[m].claim)
  OBVIOUS
<1>1. manifests[m].claim \in Claim BY DEF V4Basics, V4TypeOK, ManifestRecord
<1>2. RootOf[m] = manifests[m].claim.root BY RootIsRecorded DEF V4Basics, DelegationsOK
<1>3. GroupBy[b] \in {"program", "accountable_actor", "delegation_root"} OBVIOUS
<1> QED BY <1>1, <1>2, <1>3 DEF GroupOf, Groups, MemberOf, Claim

(* What evaluate() finds in the window and group of a claim is what counts.  *)
LEMMA RelevantIsCounted ==
  V4Basics => \A b \in Budgets, c \in Claim : GroupOf(b, c) \in Groups(b) =>
    /\ DispatchedIn(b, GroupOf(b, c)) =
         {m \in Manifests : /\ reservations[m] # None /\ b \in Claims(reservations[m].claim)
                            /\ GroupOf(b, reservations[m].claim) = GroupOf(b, c)}
    /\ Timely(b) => Relevant(reservations, b, c, clock) = Counted(b, GroupOf(b, c))
<1> SUFFICES ASSUME V4Basics, NEW b \in Budgets, NEW c \in Claim, GroupOf(b, c) \in Groups(b)
             PROVE  /\ DispatchedIn(b, GroupOf(b, c)) =
                         {m \in Manifests :
                            /\ reservations[m] # None /\ b \in Claims(reservations[m].claim)
                            /\ GroupOf(b, reservations[m].claim) = GroupOf(b, c)}
                    /\ Timely(b) =>
                         Relevant(reservations, b, c, clock) = Counted(b, GroupOf(b, c))
  OBVIOUS
<1> DEFINE g == GroupOf(b, c)
<1>1. ASSUME NEW m \in Manifests, reservations[m] # None
      PROVE  /\ manifests[m] # None /\ reservations[m].claim = manifests[m].claim
             /\ reservations[m].at \in Nat /\ clock \in Nat
             /\ Timely(b) => InWindow(b, reservations[m].at, clock)
                               <=> ~Expired(b, reservations[m].at)
  <2>1. /\ manifests[m] # None /\ reservations[m].claim = manifests[m].claim
        /\ ~ClockMayGoBack => reservations[m].at <= clock
    BY <1>1 DEF V4Basics, ReservationsOK
  <2>2. reservations[m].at \in Nat /\ clock \in Nat
    BY <1>1 DEF V4Basics, V4TypeOK, ReservationRecord, Time
  <2>3. Window[b] \in {"rolling", "fixed", "lifetime"} /\ Seconds[b] \in Nat \ {0} OBVIOUS
  <2>4. Window[b] = "lifetime" => InWindow(b, reservations[m].at, clock)
                                    /\ ~Expired(b, reservations[m].at)
    BY DEF InWindow, Expired
  <2>5. ASSUME Window[b] = "rolling", reservations[m].at <= clock
        PROVE  InWindow(b, reservations[m].at, clock) <=> ~Expired(b, reservations[m].at)
    BY <2>2, <2>3, <2>5 DEF InWindow, Expired
  <2>6. ASSUME Window[b] = "fixed", reservations[m].at <= clock
        PROVE  InWindow(b, reservations[m].at, clock) <=> ~Expired(b, reservations[m].at)
    <3>1. reservations[m].at \div Seconds[b] <= clock \div Seconds[b]
      BY <2>2, <2>3, <2>6, DivMonotone
    <3>2. reservations[m].at \div Seconds[b] \in Int /\ clock \div Seconds[b] \in Int
      BY <2>2, <2>3
    <3> QED BY <2>6, <3>1, <3>2 DEF InWindow, Expired
  <2> QED BY <2>1, <2>2, <2>3, <2>4, <2>5, <2>6 DEF Timely
<1>2. \A m \in Manifests : dispatches[m] # None <=> reservations[m] # None
  BY DEF V4Basics, ReservationsOK, ReservedIsDispatched
<1>3. \A m \in Manifests : manifests[m] # None =>
        (MemberOf(b, g, m) <=> g = GroupOf(b, manifests[m].claim))
  BY GroupIsMember
<1>4. DispatchedIn(b, g) = {m \in Manifests : /\ reservations[m] # None
                                             /\ b \in Claims(reservations[m].claim)
                                             /\ GroupOf(b, reservations[m].claim) = g}
  <2> HIDE DEF g
  <2> QED BY <1>1, <1>2, <1>3 DEF DispatchedIn, Claims
<1>5. DOMAIN reservations = Manifests BY DEF V4Basics, V4TypeOK
<1>6. ASSUME Timely(b) PROVE Relevant(reservations, b, c, clock) = Counted(b, g)
  <2> HIDE DEF g
  <2>1. Relevant(reservations, b, c, clock) =
          {m \in Manifests : /\ reservations[m] # None
                             /\ b \in Claims(reservations[m].claim)
                             /\ GroupOf(b, reservations[m].claim) = g
                             /\ InWindow(b, reservations[m].at, clock)}
    BY <1>5 DEF Relevant, g
  <2> QED BY <1>1, <1>4, <1>6, <2>1 DEF Counted
<1> QED BY <1>4, <1>6

(* What a proposal is shown is a set of excesses and a view of reservations. *)
LEMMA ReviewType ==
  ASSUME V4TypeOK, NEW c \in Claim, NEW now \in Time
  PROVE  Snapshot(c, now) \in ReviewRecord
<1>1. ASSUME NEW b \in Budgets PROVE Projected(reservations, b, c, now, Active) \in Nat
  <2>1. DOMAIN reservations = Manifests BY DEF V4TypeOK
  <2>2. c.objects \in Nat BY DEF Claim
  <2>3. \A x \in Manifests : reservations[x] # None => reservations[x].claim.objects \in Nat
    BY DEF V4TypeOK, ReservationRecord, Claim
  <2> QED BY <2>1, <2>2, <2>3, ProjectedIsNumber
<1>2. Claims(c) \subseteq Budgets BY DEF Claims
<1>3. Issues(reservations, c, now, Active) \subseteq Budgets \X Nat
  BY <1>1, <1>2 DEF Issues
<1>4. ASSUME NEW b \in Budgets, NEW x \in Relevant(reservations, b, c, now)
      PROVE <<x, b, reservations[x].execution \in Active>> \in Manifests \X Budgets \X BOOLEAN
  <2>1. x \in Manifests BY DEF Relevant, V4TypeOK
  <2>2. (reservations[x].execution \in Active) \in BOOLEAN OBVIOUS
  <2> QED BY <2>1, <2>2
<1>5. UNION {{<<x, b, reservations[x].execution \in Active>> :
                x \in Relevant(reservations, b, c, now)} : b \in Claims(c)}
        \subseteq Manifests \X Budgets \X BOOLEAN
  BY <1>2, <1>4
<1> QED BY <1>3, <1>5 DEF Snapshot, review_snapshot, ReviewRecord

LEMMA ContextType ==
  ASSUME V4TypeOK, NEW actor PROVE campaign_context(actor) \subseteq Holds \X Nat
BY DEF V4TypeOK, campaign_context, HoldsOn

(* The reservation region keeps a reservation for the manifest dispatched    *)
(* and leaves those of the others as they are (_finalize_transaction_state). *)
LEMMA AdmitIs ==
  ASSUME V4Basics, CallsOK, NEW e \in Executions, Admit(e), NEW m, m = call[e]
  PROVE  /\ m \in Manifests /\ manifests[m] # None /\ dispatches[m] = None
         /\ reservations[m] = None
         /\ reservations' = [reservations EXCEPT ![m] =
              [execution |-> e, at |-> clock, claim |-> manifests[m].claim]]
<1>1. m \in Manifests /\ manifests[m] # None
  BY DEF CallsOK, Admit, V4Basics, V4TypeOK
<1>2. reservations[m] = None /\ dispatches[m] = None
  BY <1>1 DEF Admit, V4Basics, ReservationsOK, ReservedIsDispatched
<1>3. dispatches' = [dispatches EXCEPT ![m] = e]
  BY DEF Admit
<1>4. reservations' = Finalized(WithReservation(m), dispatches') BY DEF Admit
<1>5. /\ e # None /\ dispatches'[m] = e
      /\ \A x \in Manifests \ {m} : dispatches'[x] = dispatches[x]
  BY <1>1, <1>3 DEF V4Basics, V4TypeOK
<1> DEFINE r == [execution |-> None, at |-> clock, claim |-> manifests[m].claim]
           w == WithReservation(m)
<1>6. w[m] = r /\ \A x \in Manifests \ {m} : w[x] = reservations[x]
  BY <1>1 DEF WithReservation, V4Basics, V4TypeOK
<1>7. r # None
  <2>1. r \in PendingRecord
    BY <1>1 DEF V4Basics, V4TypeOK, ManifestRecord, PendingRecord
  <2> QED BY <2>1
<1>8. ASSUME NEW x \in Manifests
      PROVE  reservations'[x] = IF x = m THEN [r EXCEPT !.execution = e] ELSE reservations[x]
  <2> HIDE DEF r, w
  <2>1. reservations'[x] = IF w[x] = None \/ dispatches'[x] = None THEN None
                           ELSE [w[x] EXCEPT !.execution = dispatches'[x]]
    BY <1>4 DEF Finalized, w
  <2>2. CASE x = m BY <1>5, <1>6, <1>7, <2>1, <2>2
  <2>3. CASE x # m
    <3>1. w[x] = reservations[x] /\ dispatches'[x] = dispatches[x] BY <1>5, <1>6, <2>3
    <3>2. /\ reservations[x] # None <=> dispatches[x] # None
          /\ reservations[x] # None => reservations[x].execution = dispatches[x]
          /\ reservations[x] # None => reservations[x] \in ReservationRecord
      BY DEF V4Basics, V4TypeOK, ReservationsOK, ReservedIsDispatched
    <3>3. \A q \in ReservationRecord : [q EXCEPT !.execution = q.execution] = q
      BY DEF ReservationRecord
    <3> QED BY <2>1, <2>3, <3>1, <3>2, <3>3
  <2> QED BY <2>2, <2>3
<1>9. [r EXCEPT !.execution = e] = [execution |-> e, at |-> clock, claim |-> manifests[m].claim]
  OBVIOUS
<1>10. reservations' = [x \in Manifests |-> reservations'[x]] BY <1>4 DEF Finalized
<1>11. reservations' = [reservations EXCEPT ![m] = [r EXCEPT !.execution = e]]
  <2> HIDE DEF r
  <2> QED BY <1>1, <1>8, <1>10 DEF V4Basics, V4TypeOK
<1> QED BY <1>1, <1>2, <1>9, <1>11

(* A call that is refused leaves no reservation behind.                      *)
LEMMA RefusedIs ==
  ASSUME V4Basics, CallsOK, NEW e \in Executions, AdmitRefused(e)
  PROVE  call[e] \in Manifests /\ reservations' = reservations
<1> DEFINE m == call[e]
           reserves == AdmissionClear(m) /\ reservations[m] = None
           w == IF reserves THEN WithReservation(m) ELSE reservations
<1>1. m \in Manifests BY DEF CallsOK, AdmitRefused, V4Basics, V4TypeOK
<1>2. reservations' = Finalized(w, dispatches) BY DEF AdmitRefused
<1>3. \A x \in Manifests : w[x] = reservations[x] \/ dispatches[x] = None
  BY <1>1 DEF WithReservation, V4Basics, V4TypeOK, ReservationsOK, ReservedIsDispatched
<1>4. ASSUME NEW x \in Manifests PROVE reservations'[x] = reservations[x]
  <2> HIDE DEF w
  <2>1. reservations'[x] = IF w[x] = None \/ dispatches[x] = None THEN None
                           ELSE [w[x] EXCEPT !.execution = dispatches[x]]
    BY <1>2 DEF Finalized
  <2>2. /\ reservations[x] # None <=> dispatches[x] # None
        /\ reservations[x] # None => reservations[x].execution = dispatches[x]
        /\ reservations[x] # None => reservations[x] \in ReservationRecord
    BY DEF V4Basics, V4TypeOK, ReservationsOK, ReservedIsDispatched
  <2>3. \A q \in ReservationRecord : [q EXCEPT !.execution = q.execution] = q
    BY DEF ReservationRecord
  <2> QED BY <1>3, <2>1, <2>2, <2>3
<1>5. reservations' = [x \in Manifests |-> reservations'[x]] BY <1>2 DEF Finalized
<1> QED BY <1>1, <1>4, <1>5 DEF V4Basics, V4TypeOK

(* What is delegated is a step deeper than the parent.                       *)
LEMMA DelegatedType ==
  ASSUME V4Basics, NEW m \in Manifests, NEW p \in Profiles,
         NEW parent \in Manifests \cup {None}, ValidateDelegation(m, p, parent)
  PROVE  Delegated(m, p, parent) \in Delegation
<1> USE DEF V4Basics
<1>1. CASE parent = None BY <1>1 DEF Delegated, Delegation, V4TypeOK
<1>2. CASE parent # None
  <2>1. delegations[parent] \in Delegation /\ delegations[parent].depth < MaxDepth
    BY <1>2 DEF ValidateDelegation, V4TypeOK, DelegationsOK
  <2>2. delegations[parent].depth + 1 \in 0 .. MaxDepth BY <2>1 DEF Delegation
  <2> QED BY <1>2, <2>1, <2>2 DEF Delegated, Delegation, V4TypeOK
<1> QED BY <1>1, <1>2

(* Every step keeps the types.                                               *)
LEMMA V4TypeStep == ASSUME V4Basics, CallsOK, [Next]_vars PROVE V4TypeOK'
<1> USE DEF V4Basics
<1>1. CASE UNCHANGED vars BY <1>1 DEF V4TypeOK, vars, ledgerVars, process
<1>2. CASE Tick
  <2>1. clock' \in Time BY <1>2 DEF Tick
  <2> QED BY <1>2, <2>1 DEF V4TypeOK, Tick, ledgerVars, process
<1>3. ASSUME Commits PROVE failed' \in BOOLEAN /\ faults' \in 0 .. MaxFaults
  <2>1. \/ failed' = failed /\ faults' = faults
        \/ failed' = TRUE /\ faults < MaxFaults /\ faults' = faults + 1
    BY <1>3 DEF Commits, Fault, process
  <2>2. failed \in BOOLEAN /\ faults \in 0 .. MaxFaults BY DEF V4TypeOK
  <2>3. failed' \in BOOLEAN BY <2>1, <2>2
  <2>4. faults' \in 0 .. MaxFaults BY <2>1, <2>2
  <2> QED BY <2>3, <2>4
<1>4. CASE GateFails BY <1>3, <1>4 DEF V4TypeOK, GateFails, Commits, ledgerVars
<1>5. CASE Restart
  <2>1. ASSUME NEW e \in Executions
        PROVE  executions'[e] \in ExecutionRecord \cup {None}
    BY <1>5 DEF V4TypeOK, Restart, ExecutionRecord, StateOf, States, Live
  <2>2. executions' \in [Executions -> ExecutionRecord \cup {None}]
    BY <1>5, <2>1 DEF Restart
  <2> QED BY <1>5, <2>2 DEF V4TypeOK, Restart
<1>6. ASSUME NEW p \in Profiles, NEW c \in Contents, Publish(p, c) PROVE V4TypeOK'
  BY <1>3, <1>6 DEF V4TypeOK, Publish, ledgerVars
<1>7. ASSUME NEW m \in Manifests, NEW p \in Profiles, NEW parent \in Manifests \cup {None},
             ValidateDelegation(m, p, parent)
      PROVE  V4TypeOK'
  <2>1. Delegated(m, p, parent) \in Delegation BY <1>7, DelegatedType
  <2> QED BY <1>3, <1>7, <2>1 DEF V4TypeOK, ValidateDelegation, ledgerVars
<1>8. ASSUME NEW m \in Manifests, NEW a \in ActionIds, NEW actor \in Actors, NEW t \in Targets,
             NEW n \in 1 .. MaxObjects, NEW b \in OwnApproval, Propose(m, a, actor, t, n, b)
      PROVE  V4TypeOK'
  <2> DEFINE claim  == [actor |-> actor, root |-> delegations[m].root, target |-> t,
                        objects |-> n]
             review == Snapshot(claim, delegations[m].issued)
             approval == b \/ ForcesApproval(review, actor)
             rec == [action |-> a, claim |-> claim, review |-> review,
                     content |-> profiles[delegations[m].profile],
                     campaign |-> campaign_context(actor), approval |-> approval]
  <2>1. delegations[m] \in Delegation BY <1>8 DEF Propose, V4TypeOK
  <2>2. claim \in Claim BY <2>1 DEF Delegation, Claim
  <2>3. review \in ReviewRecord BY <2>1, <2>2, ReviewType DEF Delegation
  <2>4. campaign_context(actor) \subseteq Holds \X Nat BY ContextType
  <2>5. profiles[delegations[m].profile] \in Contents BY <2>1 DEF Delegation, V4TypeOK
  <2>6. approval \in BOOLEAN OBVIOUS
  <2>7. manifests' = [manifests EXCEPT ![m] = rec] BY <1>8 DEF Propose
  <2> HIDE DEF claim, review, approval
  <2>8. rec \in ManifestRecord BY <2>2, <2>3, <2>4, <2>5, <2>6 DEF ManifestRecord
  <2> HIDE DEF rec
  <2> QED BY <1>3, <1>8, <2>7, <2>8 DEF V4TypeOK, Propose, ledgerVars
<1>9. ASSUME NEW e \in Executions, NEW m \in Manifests, Authorise(e, m) PROVE V4TypeOK'
  BY <1>3, <1>9 DEF V4TypeOK, Authorise
<1>10. ASSUME NEW e \in Executions, Admit(e) PROVE V4TypeOK'
  <2> DEFINE m == call[e]
             r == [execution |-> e, at |-> clock, claim |-> manifests[m].claim]
             x == [manifest |-> m, state |-> "DISPATCHED"]
  <2>1. m \in Manifests /\ manifests[m] # None /\ reservations' = [reservations EXCEPT ![m] = r]
    BY <1>10, AdmitIs
  <2>2. r \in ReservationRecord BY <2>1 DEF V4TypeOK, ManifestRecord, ReservationRecord
  <2>3. x \in ExecutionRecord BY <2>1 DEF ExecutionRecord, States, Live
  <2>4. /\ executions' = [executions EXCEPT ![e] = x]
        /\ dispatches' = [dispatches EXCEPT ![m] = e] /\ pc' = [pc EXCEPT ![e] = "calling"]
        /\ UNCHANGED <<clock, profiles, delegations, manifests, verified, call, observations,
                       holds>>
        /\ Commits
    BY <1>10 DEF Admit
  <2> HIDE DEF r, x, m
  <2> QED BY <1>3, <2>1, <2>2, <2>3, <2>4 DEF V4TypeOK
<1>11. ASSUME NEW e \in Executions, AdmitRefused(e) PROVE V4TypeOK'
  <2> DEFINE x == [manifest |-> call[e], state |-> "NOT_DISPATCHED"]
  <2>1. call[e] \in Manifests /\ reservations' = reservations BY <1>11, RefusedIs
  <2>2. x \in ExecutionRecord BY <2>1 DEF ExecutionRecord, States
  <2>3. /\ executions' = [executions EXCEPT ![e] = x] /\ pc' = [pc EXCEPT ![e] = "done"]
        /\ UNCHANGED <<clock, profiles, delegations, manifests, verified, dispatches, call,
                       observations, holds>>
    BY <1>11 DEF AdmitRefused
  <2> HIDE DEF x
  <2> QED BY <1>3, <1>11, <2>1, <2>2, <2>3 DEF V4TypeOK, AdmitRefused
<1>12. ASSUME NEW e \in Executions, NEW s \in States, executions[e] # None,
              executions' = [executions EXCEPT ![e].state = s]
       PROVE  executions' \in [Executions -> ExecutionRecord \cup {None}]
  BY <1>12 DEF V4TypeOK, ExecutionRecord
<1>13. ASSUME NEW e \in Executions,
              NEW s \in {"ACKNOWLEDGED", "EXECUTION_UNKNOWN", "NOT_ATTEMPTED"},
              ExecutorReturns(e, s)
       PROVE  V4TypeOK'
  <2>1. executions[e] # None /\ s \in States
    BY <1>13 DEF ExecutorReturns, CallsOK, StateOf, States, Live
  <2> QED BY <1>3, <1>12, <1>13, <2>1 DEF V4TypeOK, ExecutorReturns
<1>14. ASSUME NEW e \in Executions, NEW s \in {"COMMITTED", "NOT_COMMITTED"}, Reconcile(e, s)
       PROVE  V4TypeOK'
  <2>1. executions[e] # None /\ s \in States BY <1>14 DEF Reconcile, StateOf, States, Live
  <2> QED BY <1>3, <1>12, <1>14, <2>1 DEF V4TypeOK, Reconcile
<1>15. ASSUME NEW e \in Executions, VerifyOutcome(e) PROVE V4TypeOK'
  BY <1>3, <1>15 DEF V4TypeOK, VerifyOutcome
<1>16. ASSUME NEW i \in Observations, NEW r \in Rules, NEW actor \in Actors, NEW t \in Time,
              IngestObservation([id |-> i, rule |-> r, actor |-> actor, at |-> t])
       PROVE  V4TypeOK'
  <2> DEFINE o == [id |-> i, rule |-> r, actor |-> actor, at |-> t]
  <2>1. o \in Observation BY DEF Observation
  <2>2. holds' \in [Holds -> [active : BOOLEAN, revision : Nat]]
    <3>1. ASSUME NEW h \in Holds
          PROVE  [active |-> TRUE, revision |-> holds[h].revision + 1]
                   \in [active : BOOLEAN, revision : Nat]
      BY DEF V4TypeOK
    <3> QED BY <1>16, <3>1 DEF IngestObservation, V4TypeOK
  <2>3. observations' \subseteq Observation BY <1>16, <2>1 DEF IngestObservation, V4TypeOK
  <2>4. Commits /\ UNCHANGED <<clock, profiles, delegations, manifests, ledgerVars>>
    BY <1>16 DEF IngestObservation
  <2> QED BY <1>3, <2>2, <2>3, <2>4 DEF V4TypeOK, ledgerVars
<1>17. ASSUME NEW h \in Holds, RestoreCampaignHold(h) PROVE V4TypeOK'
  <2>1. Commits /\ UNCHANGED <<clock, profiles, delegations, manifests, ledgerVars, observations>>
    BY <1>17 DEF RestoreCampaignHold
  <2> DEFINE r == [holds[h] EXCEPT !.active = FALSE]
  <2>2. holds' = [holds EXCEPT ![h] = r] BY <1>17 DEF RestoreCampaignHold
  <2>3. holds[h] \in [active : BOOLEAN, revision : Nat] BY DEF V4TypeOK
  <2>4. r \in [active : BOOLEAN, revision : Nat] BY <2>3
  <2> HIDE DEF r
  <2>5. holds' \in [Holds -> [active : BOOLEAN, revision : Nat]] BY <2>2, <2>4 DEF V4TypeOK
  <2> QED BY <1>3, <2>1, <2>5 DEF V4TypeOK, ledgerVars
<1>18. ASSUME NEW m \in Manifests, ProposalStep(m) PROVE V4TypeOK'
  BY <1>7, <1>8, <1>18 DEF ProposalStep
<1>19. ASSUME NEW e \in Executions, ThreadStep(e) PROVE V4TypeOK'
  BY <1>9, <1>10, <1>11, <1>13, <1>14, <1>15, <1>19 DEF ThreadStep
<1> QED BY <1>1, <1>2, <1>4, <1>5, <1>6, <1>16, <1>17, <1>18, <1>19 DEF Next

(* The steps, told apart by what they do to the ledger of dispatches.        *)
Forward == ~ClockMayGoBack => clock <= clock'
Apart == Forward /\ UNCHANGED <<delegations, manifests, ledgerVars>>
Frozen == UNCHANGED <<clock, holds>>

LEMMA V4Splits ==
  ASSUME V4TypeOK, [Next]_vars
  PROVE  \/ Apart
         \/ Restart /\ Frozen
         \/ \E m \in Manifests, p \in Profiles, parent \in Manifests \cup {None} :
              ValidateDelegation(m, p, parent) /\ Frozen
         \/ \E m \in Manifests, a \in ActionIds, actor \in Actors, t \in Targets,
               n \in 1 .. MaxObjects, b \in OwnApproval :
              Propose(m, a, actor, t, n, b) /\ Frozen
         \/ \E e \in Executions : ThreadStep(e) /\ Frozen /\ UNCHANGED <<delegations, manifests>>
<1>1. clock <= clock BY DEF V4TypeOK, Time
<1>2. CASE UNCHANGED vars BY <1>1, <1>2 DEF vars, Apart, Forward, ledgerVars
<1>3. CASE Tick BY <1>1, <1>3 DEF Tick, Apart, Forward
<1>4. CASE GateFails BY <1>1, <1>4 DEF GateFails, Apart, Forward
<1>5. CASE \E p \in Profiles, c \in Contents : Publish(p, c)
  BY <1>1, <1>5 DEF Publish, Apart, Forward
<1>6. CASE \E i \in Observations, r \in Rules, actor \in Actors, t \in Time :
             IngestObservation([id |-> i, rule |-> r, actor |-> actor, at |-> t])
  BY <1>1, <1>6 DEF IngestObservation, Apart, Forward
<1>7. CASE \E h \in Holds : RestoreCampaignHold(h)
  BY <1>1, <1>7 DEF RestoreCampaignHold, Apart, Forward
<1>8. CASE Restart BY <1>8 DEF Restart, Frozen
<1>9. ASSUME NEW m \in Manifests, NEW p \in Profiles, NEW parent \in Manifests \cup {None},
             ValidateDelegation(m, p, parent)
      PROVE Frozen
  BY <1>9 DEF ValidateDelegation, Frozen
<1>10. ASSUME NEW m \in Manifests, NEW a \in ActionIds, NEW actor \in Actors, NEW t \in Targets,
              NEW n \in 1 .. MaxObjects, NEW b \in OwnApproval, Propose(m, a, actor, t, n, b)
       PROVE Frozen
  BY <1>10 DEF Propose, Frozen
<1>11. ASSUME NEW m \in Manifests, ProposalStep(m)
       PROVE  \/ \E p \in Profiles, parent \in Manifests \cup {None} :
                   ValidateDelegation(m, p, parent) /\ Frozen
              \/ \E a \in ActionIds, actor \in Actors, t \in Targets,
                    n \in 1 .. MaxObjects, b \in OwnApproval :
                   Propose(m, a, actor, t, n, b) /\ Frozen
  BY <1>9, <1>10, <1>11 DEF ProposalStep
<1>12. ASSUME NEW e \in Executions, ThreadStep(e)
       PROVE  Frozen /\ UNCHANGED <<delegations, manifests>>
  BY <1>12 DEF ThreadStep, Authorise, Admit, AdmitRefused, ExecutorReturns, Reconcile,
               VerifyOutcome, Frozen
<1> QED BY <1>2, <1>3, <1>4, <1>5, <1>6, <1>7, <1>8, <1>11, <1>12 DEF Next

(* Chains of delegations only get new ends: a parent is never taken away     *)
(* from a manifest, as its own manifest was stored before.                   *)
LEMMA DelegationsStep ==
  ASSUME V4Basics, CallsOK, [Next]_vars PROVE DelegationsOK'
<1> USE DEF V4Basics
<1>1. CASE UNCHANGED <<delegations, manifests>> BY <1>1 DEF DelegationsOK
<1>2. CASE Restart
  <2>1. /\ manifests' = manifests
        /\ \A m \in Manifests : delegations'[m] = IF manifests[m] = None THEN None
                                                  ELSE delegations[m]
    BY <1>2 DEF Restart
  <2> QED BY <2>1 DEF DelegationsOK
<1>3. ASSUME NEW m \in Manifests, NEW p \in Profiles, NEW parent \in Manifests \cup {None},
             ValidateDelegation(m, p, parent)
      PROVE  DelegationsOK'
  <2> DEFINE d == Delegated(m, p, parent)
  <2>1. /\ manifests' = manifests /\ delegations[m] = None
        /\ delegations'[m] = d
        /\ \A x \in Manifests \ {m} : delegations'[x] = delegations[x]
    BY <1>3 DEF ValidateDelegation, V4TypeOK
  <2>2. d.parent = parent /\ d # None
    <3>1. d.parent = parent BY DEF Delegated
    <3>2. d \in Delegation BY <1>3, DelegatedType
    <3> HIDE DEF d
    <3> QED BY <3>1, <3>2
  <2>3. parent = None => d.root = d.profile BY DEF Delegated
  <2>4. parent # None =>
          /\ parent \in Manifests /\ manifests[parent] # None /\ delegations[parent] # None
          /\ parent # m
          /\ d.root = delegations[parent].root /\ delegations[parent].depth < d.depth
    <3> SUFFICES ASSUME parent # None
                 PROVE  /\ parent \in Manifests /\ manifests[parent] # None
                        /\ delegations[parent] # None /\ parent # m
                        /\ d.root = delegations[parent].root
                        /\ delegations[parent].depth < d.depth
      OBVIOUS
    <3>1. /\ parent \in Manifests /\ manifests[parent] # None /\ delegations[parent] # None
          /\ parent # m
      BY <1>3, <2>1 DEF ValidateDelegation, DelegationsOK
    <3>2. d.root = delegations[parent].root /\ d.depth = delegations[parent].depth + 1
      BY DEF Delegated
    <3>3. delegations[parent].depth \in Nat BY <3>1 DEF V4TypeOK, Delegation
    <3> QED BY <3>1, <3>2, <3>3
  <2> HIDE DEF d
  <2>5. ASSUME NEW x \in Manifests, delegations'[x] # None
        PROVE  LET c == delegations'[x] IN
                 \/ c.parent = None /\ c.root = c.profile
                 \/ /\ c.parent \in Manifests /\ manifests'[c.parent] # None
                    /\ c.root = delegations'[c.parent].root
                    /\ delegations'[c.parent].depth < c.depth
    <3>1. CASE x = m BY <2>1, <2>2, <2>3, <2>4, <3>1
    <3>2. CASE x # m
      <4>1. delegations'[x] = delegations[x] BY <2>1, <3>2
      <4>2. delegations[x].parent # None =>
              delegations[x].parent # m /\ delegations[x].parent \in Manifests
        BY <2>1, <2>5, <4>1 DEF DelegationsOK
      <4> QED BY <2>1, <2>5, <4>1, <4>2 DEF DelegationsOK
    <3> QED BY <3>1, <3>2
  <2>6. \A x \in Manifests : manifests'[x] # None =>
          delegations'[x] # None /\ manifests'[x].claim.root = delegations'[x].root
    BY <2>1 DEF DelegationsOK
  <2> QED BY <2>5, <2>6 DEF DelegationsOK
<1>4. ASSUME NEW m \in Manifests, NEW a \in ActionIds, NEW actor \in Actors, NEW t \in Targets,
             NEW n \in 1 .. MaxObjects, NEW b \in OwnApproval, Propose(m, a, actor, t, n, b)
      PROVE  DelegationsOK'
  <2>1. /\ delegations' = delegations /\ delegations[m] # None
        /\ manifests'[m].claim.root = delegations[m].root
        /\ \A x \in Manifests \ {m} : manifests'[x] = manifests[x]
        /\ manifests[m] = None
    BY <1>4 DEF Propose, V4TypeOK
  <2>2. \A x \in Manifests : manifests[x] # None => manifests'[x] # None BY <2>1
  <2>3. \A x \in Manifests : manifests'[x] # None =>
          delegations'[x] # None /\ manifests'[x].claim.root = delegations'[x].root
    BY <2>1 DEF DelegationsOK
  <2> QED BY <2>1, <2>2, <2>3 DEF DelegationsOK
<1>5. CASE Apart BY <1>1, <1>5 DEF Apart
<1> QED BY <1>1, <1>2, <1>3, <1>4, <1>5, V4Splits

(* A step that dispatches nothing keeps every manifest, dispatch and         *)
(* reservation, and brings no execution back to the active ones.             *)
Quiet ==
  /\ Forward
  /\ UNCHANGED <<dispatches, reservations>>
  /\ \A m \in Manifests : manifests[m] # None =>
       manifests'[m] = manifests[m] /\ delegations'[m] = delegations[m]
  /\ Active' \subseteq Active
AdmitStep(e) == Admit(e) /\ Frozen /\ UNCHANGED <<delegations, manifests, verified>>

LEMMA AdmitOrQuiet ==
  ASSUME V4Basics, CallsOK, [Next]_vars
  PROVE  Quiet \/ \E e \in Executions : AdmitStep(e)
<1> USE DEF V4Basics
<1>1. Frozen => Forward BY DEF Frozen, Forward, V4TypeOK, Time
<1>2. CASE Apart BY <1>2 DEF Apart, Quiet, ledgerVars, Active, StateOf
<1>3. CASE Restart /\ Frozen
  <2>1. \A e \in Executions : StateOf(e)' \in Live => StateOf(e) \in Live
    BY <1>3 DEF Restart, StateOf, Live, V4TypeOK, ExecutionRecord, States
  <2>2. verified' = verified BY <1>3 DEF Restart
  <2>3. Active' \subseteq Active BY <2>1, <2>2 DEF Active
  <2> QED BY <1>1, <1>3, <2>3 DEF Restart, Quiet, V4TypeOK
<1>4. ASSUME NEW m \in Manifests, NEW p \in Profiles, NEW parent \in Manifests \cup {None},
             ValidateDelegation(m, p, parent) /\ Frozen
      PROVE  Quiet
  <2>1. manifests[m] = None BY <1>4 DEF ValidateDelegation, DelegationsOK
  <2>2. UNCHANGED <<manifests, ledgerVars>> BY <1>4 DEF ValidateDelegation
  <2>3. \A x \in Manifests \ {m} : delegations'[x] = delegations[x]
    BY <1>4 DEF ValidateDelegation, V4TypeOK
  <2> QED BY <1>1, <1>4, <2>1, <2>2, <2>3 DEF Quiet, ledgerVars, Active, StateOf
<1>5. ASSUME NEW m \in Manifests, NEW a \in ActionIds, NEW actor \in Actors, NEW t \in Targets,
             NEW n \in 1 .. MaxObjects, NEW b \in OwnApproval,
             Propose(m, a, actor, t, n, b) /\ Frozen
      PROVE  Quiet
  <2>1. manifests[m] = None /\ UNCHANGED <<delegations, ledgerVars>> BY <1>5 DEF Propose
  <2>2. \A x \in Manifests \ {m} : manifests'[x] = manifests[x] BY <1>5 DEF Propose, V4TypeOK
  <2> QED BY <1>1, <1>5, <2>1, <2>2 DEF Quiet, ledgerVars, Active, StateOf
<1>6. ASSUME NEW e \in Executions, verified' \subseteq Executions, verified \subseteq verified',
             \A x \in Executions \ {e} : executions'[x] = executions[x],
             e \in Active' => e \in Active
      PROVE  Active' \subseteq Active
  BY <1>6 DEF Active, StateOf
<1>7. ASSUME NEW e \in Executions, NEW s \in States, executions[e] # None,
             executions' = [executions EXCEPT ![e].state = s], verified' = verified,
             s \in Live => StateOf(e) \in Live
      PROVE  Active' \subseteq Active
  <2>1. executions[e] \in ExecutionRecord BY <1>7 DEF V4TypeOK
  <2>2. executions' = [executions EXCEPT ![e] = [executions[e] EXCEPT !.state = s]] BY <1>7
  <2>3. [executions[e] EXCEPT !.state = s].state = s BY <2>1 DEF ExecutionRecord
  <2>4. [executions[e] EXCEPT !.state = s] \in ExecutionRecord BY <2>1 DEF ExecutionRecord
  <2>5. StateOf(e)' = s BY <2>2, <2>3, <2>4 DEF StateOf, V4TypeOK
  <2>6. \A x \in Executions \ {e} : executions'[x] = executions[x] BY <2>2 DEF V4TypeOK
  <2>7. e \in Active' => e \in Active BY <1>7, <2>5 DEF Active
  <2> QED BY <1>6, <1>7, <2>6, <2>7 DEF V4TypeOK
<1>8. ASSUME NEW e \in Executions, AdmitRefused(e), Frozen, UNCHANGED <<delegations, manifests>>
      PROVE  Quiet
  <2> DEFINE x == [manifest |-> call[e], state |-> "NOT_DISPATCHED"]
  <2>1. call[e] \in Manifests /\ reservations' = reservations BY <1>8, RefusedIs
  <2>2. x \in ExecutionRecord /\ x.state = "NOT_DISPATCHED" BY <2>1 DEF ExecutionRecord, States
  <2>3. executions' = [executions EXCEPT ![e] = x] /\ UNCHANGED <<dispatches, verified>>
    BY <1>8 DEF AdmitRefused
  <2> HIDE DEF x
  <2>4. StateOf(e)' = "NOT_DISPATCHED" BY <2>2, <2>3 DEF StateOf, V4TypeOK
  <2>5. e \notin Active' BY <2>4 DEF Active, Live
  <2>6. \A y \in Executions \ {e} : executions'[y] = executions[y] BY <2>3 DEF V4TypeOK
  <2>7. Active' \subseteq Active BY <1>6, <2>3, <2>5, <2>6 DEF V4TypeOK
  <2> QED BY <1>1, <1>8, <2>1, <2>3, <2>7 DEF Quiet
<1>9. ASSUME NEW e \in Executions,
             NEW s \in {"ACKNOWLEDGED", "EXECUTION_UNKNOWN", "NOT_ATTEMPTED"},
             ExecutorReturns(e, s), Frozen, UNCHANGED <<delegations, manifests>>
      PROVE  Quiet
  <2>1. executions[e] # None /\ StateOf(e) \in Live /\ s \in States
    BY <1>9 DEF ExecutorReturns, CallsOK, StateOf, States, Live
  <2>2. Active' \subseteq Active BY <1>7, <1>9, <2>1 DEF ExecutorReturns
  <2> QED BY <1>1, <1>9, <2>2 DEF Quiet, ExecutorReturns
<1>10. ASSUME NEW e \in Executions, NEW s \in {"COMMITTED", "NOT_COMMITTED"}, Reconcile(e, s),
              Frozen, UNCHANGED <<delegations, manifests>>
       PROVE  Quiet
  <2>1. executions[e] # None /\ StateOf(e) \in Live /\ s \in States
    BY <1>10 DEF Reconcile, StateOf, States, Live
  <2>2. Active' \subseteq Active BY <1>7, <1>10, <2>1 DEF Reconcile
  <2> QED BY <1>1, <1>10, <2>2 DEF Quiet, Reconcile
<1>11. ASSUME NEW e \in Executions, VerifyOutcome(e), Frozen,
              UNCHANGED <<delegations, manifests>>
       PROVE  Quiet
  <2>1. UNCHANGED executions /\ verified' = verified \cup {e} BY <1>11 DEF VerifyOutcome
  <2>2. Active' \subseteq Active BY <2>1 DEF Active, StateOf
  <2> QED BY <1>1, <1>11, <2>2 DEF Quiet, VerifyOutcome
<1>12. ASSUME NEW e \in Executions, NEW m \in Manifests, Authorise(e, m), Frozen,
              UNCHANGED <<delegations, manifests>>
       PROVE  Quiet
  BY <1>1, <1>12 DEF Quiet, Authorise, Active, StateOf
<1>13. ASSUME NEW e \in Executions, ThreadStep(e) /\ Frozen /\ UNCHANGED <<delegations, manifests>>
       PROVE  Quiet \/ AdmitStep(e)
  BY <1>8, <1>9, <1>10, <1>11, <1>12, <1>13 DEF ThreadStep, AdmitStep, Admit
<1> QED BY <1>2, <1>3, <1>4, <1>5, <1>13, V4Splits

(* Reservations are those of the dispatched manifests after every step.      *)
LEMMA ReservationsStep ==
  ASSUME V4Basics, CallsOK, [Next]_vars PROVE ReservationsOK'
<1> USE DEF V4Basics
<1>1. CASE Quiet
  <2>1. ReservedIsDispatched'
    BY <1>1 DEF Quiet, ReservationsOK, ReservedIsDispatched
  <2>2. ASSUME NEW m \in Manifests, reservations'[m] # None
        PROVE  /\ manifests'[m] # None /\ reservations'[m].claim = manifests'[m].claim
               /\ ~ClockMayGoBack => reservations'[m].at <= clock'
    <3>1. /\ reservations'[m] = reservations[m] /\ manifests[m] # None
          /\ manifests'[m] = manifests[m] /\ reservations[m].claim = manifests[m].claim
      BY <1>1, <2>2 DEF Quiet, ReservationsOK
    <3>2. ASSUME ~ClockMayGoBack PROVE reservations[m].at <= clock'
      <4>1. reservations[m].at <= clock /\ clock <= clock'
        BY <1>1, <2>2, <3>1, <3>2 DEF Quiet, Forward, ReservationsOK
      <4>2. reservations[m].at \in Nat BY <2>2, <3>1 DEF V4TypeOK, ReservationRecord, Time
      <4>3. clock \in Nat /\ clock' \in Nat BY V4TypeStep DEF V4TypeOK, Time
      <4> QED BY <4>1, <4>2, <4>3
    <3> QED BY <2>2, <3>1, <3>2
  <2> QED BY <2>1, <2>2 DEF ReservationsOK
<1>2. ASSUME NEW e \in Executions, AdmitStep(e) PROVE ReservationsOK'
  <2> DEFINE m == call[e]
             r == [execution |-> e, at |-> clock, claim |-> manifests[m].claim]
  <2>1. /\ m \in Manifests /\ manifests[m] # None
        /\ reservations' = [reservations EXCEPT ![m] = r]
    BY <1>2, AdmitIs DEF AdmitStep
  <2>2. /\ dispatches' = [dispatches EXCEPT ![m] = e]
        /\ UNCHANGED <<clock, manifests>>
    BY <1>2 DEF AdmitStep, Admit
  <2>3. r.execution = e /\ r.at = clock /\ r.claim = manifests[m].claim OBVIOUS
  <2>4. r # None
    <3>1. r \in ReservationRecord BY <2>1 DEF V4TypeOK, ManifestRecord, ReservationRecord
    <3> QED BY <3>1
  <2>5. clock <= clock BY DEF V4TypeOK, Time
  <2> HIDE DEF r, m
  <2>6. ReservedIsDispatched'
    BY <2>1, <2>2, <2>3, <2>4 DEF ReservationsOK, ReservedIsDispatched, V4TypeOK
  <2>7. ASSUME NEW x \in Manifests, reservations'[x] # None
        PROVE  /\ manifests'[x] # None /\ reservations'[x].claim = manifests'[x].claim
               /\ ~ClockMayGoBack => reservations'[x].at <= clock'
    <3>1. CASE x = m BY <2>1, <2>2, <2>3, <2>5, <3>1 DEF V4TypeOK
    <3>2. CASE x # m
      <4>1. reservations'[x] = reservations[x] BY <2>1, <3>2 DEF V4TypeOK
      <4> QED BY <2>2, <2>7, <4>1 DEF ReservationsOK
    <3> QED BY <3>1, <3>2
  <2> QED BY <2>6, <2>7 DEF ReservationsOK
<1> QED BY <1>1, <1>2, AdmitOrQuiet

(* What a thread knows of its execution, and who an execution was dispatched *)
(* for.                                                                      *)
LEMMA CallsStep ==
  ASSUME V4Basics, CallsOK, [Next]_vars PROVE CallsOK'
<1> USE DEF V4Basics
<1>1. ASSUME UNCHANGED <<executions, pc, call, dispatches>>,
             \A m \in Manifests : manifests[m] # None => manifests'[m] # None
      PROVE  CallsOK'
  <2>1. \A e \in Executions : pc[e] = "authorised" => call[e] \in Manifests
    BY DEF CallsOK, V4TypeOK
  <2> QED BY <1>1, <2>1 DEF CallsOK, StateOf
<1>2. CASE Apart BY <1>1, <1>2 DEF Apart, ledgerVars
<1>3. CASE Restart
  <2>1. /\ \A e \in Executions : executions'[e] =
              IF StateOf(e) = "DISPATCHED"
              THEN [executions[e] EXCEPT !.state = "EXECUTION_UNKNOWN"] ELSE executions[e]
        /\ \A e \in Executions : pc'[e] \in {"idle", "done"} /\ (pc'[e] = "idle" => pc[e] = "idle")
        /\ UNCHANGED dispatches
    BY <1>3 DEF Restart
  <2>2. ASSUME NEW e \in Executions
        PROVE  /\ executions[e] = None => executions'[e] = None
               /\ executions[e] # None => executions'[e] # None
                                            /\ executions'[e].manifest = executions[e].manifest
    <3> DEFINE x == [executions[e] EXCEPT !.state = "EXECUTION_UNKNOWN"]
    <3>1. executions[e] # None => executions[e] \in ExecutionRecord BY DEF V4TypeOK
    <3>2. executions[e] # None => x \in ExecutionRecord /\ x.manifest = executions[e].manifest
      BY <3>1 DEF ExecutionRecord, States, Live
    <3>3. executions'[e] = IF StateOf(e) = "DISPATCHED" THEN x ELSE executions[e] BY <2>1
    <3> HIDE DEF x
    <3> QED BY <3>2, <3>3 DEF StateOf
  <2>3. \A m \in Manifests : dispatches[m] # None => dispatches[m] \in Executions
    BY DEF V4TypeOK
  <2>4. ASSUME NEW e \in Executions
        PROVE  /\ pc'[e] \in {"idle", "authorised"} => executions'[e] = None
               /\ pc'[e] # "authorised" /\ pc'[e] # "calling"
    BY <2>1, <2>2 DEF CallsOK
  <2>5. \A m \in Manifests : dispatches'[m] # None =>
          executions'[dispatches'[m]] # None /\ executions'[dispatches'[m]].manifest = m
    BY <2>1, <2>2, <2>3 DEF CallsOK
  <2> QED BY <2>4, <2>5 DEF CallsOK
<1>4. ASSUME NEW m \in Manifests, NEW p \in Profiles, NEW parent \in Manifests \cup {None},
             ValidateDelegation(m, p, parent)
      PROVE  CallsOK'
  BY <1>1, <1>4 DEF ValidateDelegation, ledgerVars
<1>5. ASSUME NEW m \in Manifests, NEW a \in ActionIds, NEW actor \in Actors, NEW t \in Targets,
             NEW n \in 1 .. MaxObjects, NEW b \in OwnApproval, Propose(m, a, actor, t, n, b)
      PROVE  CallsOK'
  <2>1. /\ \A x \in Manifests \ {m} : manifests'[x] = manifests[x]
        /\ manifests[m] = None /\ UNCHANGED ledgerVars
    BY <1>5 DEF Propose, V4TypeOK
  <2> QED BY <1>1, <2>1 DEF ledgerVars
<1>6. ASSUME NEW e \in Executions, NEW m \in Manifests, Authorise(e, m) PROVE CallsOK'
  <2>1. /\ UNCHANGED <<executions, dispatches, manifests>> /\ manifests[m] # None
        /\ pc[e] = "idle" /\ pc'[e] = "authorised" /\ call'[e] = m /\ m # None
        /\ \A x \in Executions \ {e} : pc'[x] = pc[x] /\ call'[x] = call[x]
    BY <1>6 DEF Authorise, V4TypeOK
  <2> QED BY <2>1 DEF CallsOK, StateOf
<1>7. ASSUME NEW e \in Executions, executions'[e] # None,
             pc'[e] \in {"done", "calling"}, pc'[e] = "calling" => StateOf(e)' = "DISPATCHED",
             \A x \in Executions \ {e} : executions'[x] = executions[x] /\ pc'[x] = pc[x],
             UNCHANGED <<manifests, call>>
      PROVE  \A x \in Executions :
               /\ pc'[x] \in {"idle", "authorised"} => executions'[x] = None
               /\ pc'[x] = "authorised" => call'[x] # None /\ manifests'[call'[x]] # None
               /\ pc'[x] = "calling" => StateOf(x)' = "DISPATCHED"
  BY <1>7 DEF CallsOK, StateOf
<1>8. ASSUME NEW e \in Executions, Admit(e) PROVE CallsOK'
  <2> DEFINE m == call[e]
             x == [manifest |-> m, state |-> "DISPATCHED"]
  <2>1. m \in Manifests BY <1>8, AdmitIs
  <2>2. x \in ExecutionRecord /\ x.manifest = m /\ x.state = "DISPATCHED"
    BY <2>1 DEF ExecutionRecord, States, Live
  <2>3. executions[e] = None BY <1>8 DEF Admit, CallsOK
  <2>4. /\ executions' = [executions EXCEPT ![e] = x]
        /\ dispatches' = [dispatches EXCEPT ![m] = e] /\ pc' = [pc EXCEPT ![e] = "calling"]
        /\ UNCHANGED <<manifests, call>>
    BY <1>8 DEF Admit
  <2> HIDE DEF x, m
  <2>5. /\ executions'[e] = x /\ x # None /\ dispatches'[m] = e /\ pc'[e] = "calling"
        /\ \A y \in Executions \ {e} : executions'[y] = executions[y] /\ pc'[y] = pc[y]
        /\ \A y \in Manifests \ {m} : dispatches'[y] = dispatches[y]
    BY <2>1, <2>2, <2>4 DEF V4TypeOK
  <2>6. \A y \in Manifests : dispatches'[y] # None =>
          executions'[dispatches'[y]] # None /\ executions'[dispatches'[y]].manifest = y
    <3> TAKE y \in Manifests
    <3>1. CASE y = m BY <2>2, <2>5, <3>1
    <3>2. CASE y # m
      <4>1. dispatches'[y] = dispatches[y] BY <2>5, <3>2
      <4>2. dispatches[y] # None => dispatches[y] \in Executions \ {e}
        BY <2>3 DEF CallsOK, V4TypeOK
      <4> QED BY <2>5, <4>1, <4>2 DEF CallsOK
    <3> QED BY <3>1, <3>2
  <2>7. StateOf(e)' = "DISPATCHED" BY <2>2, <2>5 DEF StateOf
  <2> QED BY <1>7, <2>4, <2>5, <2>6, <2>7 DEF CallsOK
<1>9. ASSUME NEW e \in Executions, AdmitRefused(e) PROVE CallsOK'
  <2> DEFINE x == [manifest |-> call[e], state |-> "NOT_DISPATCHED"]
  <2>1. call[e] \in Manifests BY <1>9, RefusedIs
  <2>2. x \in ExecutionRecord BY <2>1 DEF ExecutionRecord, States
  <2>3. executions[e] = None BY <1>9 DEF AdmitRefused, CallsOK
  <2>4. /\ executions' = [executions EXCEPT ![e] = x] /\ pc' = [pc EXCEPT ![e] = "done"]
        /\ UNCHANGED <<manifests, call, dispatches>>
    BY <1>9 DEF AdmitRefused
  <2> HIDE DEF x
  <2>5. /\ executions'[e] # None /\ pc'[e] = "done"
        /\ \A y \in Executions \ {e} : executions'[y] = executions[y] /\ pc'[y] = pc[y]
    BY <2>2, <2>4 DEF V4TypeOK
  <2>6. \A y \in Manifests : dispatches[y] # None => dispatches[y] \in Executions \ {e}
    BY <2>3 DEF CallsOK, V4TypeOK
  <2> QED BY <1>7, <2>4, <2>5, <2>6 DEF CallsOK
<1>10. ASSUME NEW e \in Executions, NEW s \in States, StateOf(e) # "none",
              executions' = [executions EXCEPT ![e].state = s],
              \/ pc' = [pc EXCEPT ![e] = "done"]
              \/ pc' = pc /\ StateOf(e) = "EXECUTION_UNKNOWN",
              UNCHANGED <<manifests, call, dispatches>>
       PROVE  CallsOK'
  <2> DEFINE x == [executions[e] EXCEPT !.state = s]
  <2>1. executions[e] # None /\ executions[e] \in ExecutionRecord
    BY <1>10 DEF StateOf, V4TypeOK
  <2>2. x \in ExecutionRecord /\ x.manifest = executions[e].manifest
    BY <2>1 DEF ExecutionRecord
  <2>3. executions' = [executions EXCEPT ![e] = x] BY <1>10
  <2> HIDE DEF x
  <2>4. /\ executions'[e] = x /\ x # None
        /\ \A y \in Executions \ {e} : executions'[y] = executions[y]
    BY <2>2, <2>3 DEF V4TypeOK
  <2>5. pc'[e] = "done" /\ \A y \in Executions \ {e} : pc'[y] = pc[y]
    BY <1>10, <2>1 DEF V4TypeOK, CallsOK, StateOf
  <2>6. \A y \in Manifests : dispatches'[y] # None =>
          executions'[dispatches'[y]] # None /\ executions'[dispatches'[y]].manifest = y
    <3> TAKE y \in Manifests
    <3>1. dispatches[y] # None => dispatches[y] \in Executions BY DEF V4TypeOK
    <3> QED BY <1>10, <2>2, <2>4, <3>1 DEF CallsOK
  <2> QED BY <1>7, <1>10, <2>4, <2>5, <2>6 DEF CallsOK
<1>11. ASSUME NEW e \in Executions,
              NEW s \in {"ACKNOWLEDGED", "EXECUTION_UNKNOWN", "NOT_ATTEMPTED"},
              ExecutorReturns(e, s)
       PROVE  CallsOK'
  BY <1>10, <1>11 DEF ExecutorReturns, CallsOK, States, Live
<1>12. ASSUME NEW e \in Executions, NEW s \in {"COMMITTED", "NOT_COMMITTED"}, Reconcile(e, s)
       PROVE  CallsOK'
  BY <1>10, <1>12 DEF Reconcile, States, Live
<1>13. ASSUME NEW e \in Executions, VerifyOutcome(e) PROVE CallsOK'
  BY <1>1, <1>13 DEF VerifyOutcome
<1>14. ASSUME NEW e \in Executions, ThreadStep(e) PROVE CallsOK'
  BY <1>6, <1>8, <1>9, <1>11, <1>12, <1>13, <1>14 DEF ThreadStep
<1> QED BY <1>2, <1>3, <1>4, <1>5, <1>14, V4Splits

(* A hold is on an actor when its rule is about actors, else on the program.  *)
LEMMA HoldsStep ==
  ASSUME V4TypeOK, HoldsOK, [Next]_vars PROVE HoldsOK'
<1>1. CASE UNCHANGED holds BY <1>1 DEF HoldsOK
<1>2. ASSUME NEW i \in Observations, NEW r \in Rules, NEW actor \in Actors, NEW t \in Time,
             IngestObservation([id |-> i, rule |-> r, actor |-> actor, at |-> t])
      PROVE  HoldsOK'
  <2> DEFINE o == [id |-> i, rule |-> r, actor |-> actor, at |-> t]
  <2>1. ASSUME NEW h \in Holds, holds'[h].active, ~holds[h].active
        PROVE  h[1] = r /\ h[2] = ScopeValue(r, actor)
    BY <1>2, <2>1 DEF IngestObservation, Activates
  <2>2. ScopeValue(r, actor) \in Actors <=> RuleScope[r] = "actor" BY DEF ScopeValue
  <2> QED BY <2>1, <2>2 DEF HoldsOK
<1>3. ASSUME NEW h \in Holds, RestoreCampaignHold(h) PROVE HoldsOK'
  <2>1. holds' = [holds EXCEPT ![h] = [holds[h] EXCEPT !.active = FALSE]]
    BY <1>3 DEF RestoreCampaignHold
  <2>2. holds[h] \in [active : BOOLEAN, revision : Nat] BY DEF V4TypeOK
  <2>3. [holds[h] EXCEPT !.active = FALSE].active = FALSE BY <2>2
  <2>4. \A x \in Holds : holds'[x].active => holds[x].active BY <2>1, <2>3 DEF V4TypeOK
  <2> QED BY <2>4 DEF HoldsOK
<1>4. \/ UNCHANGED holds
      \/ \E i \in Observations, r \in Rules, actor \in Actors, t \in Time :
           IngestObservation([id |-> i, rule |-> r, actor |-> actor, at |-> t])
      \/ \E h \in Holds : RestoreCampaignHold(h)
  BY V4Splits DEF Next, vars, Tick, GateFails, Restart, Publish, ProposalStep,
     ValidateDelegation, Propose, ThreadStep, Authorise, Admit, AdmitRefused, ExecutorReturns,
     Reconcile, VerifyOutcome
<1> QED BY <1>1, <1>2, <1>3, <1>4

(* The groups of a budget partition the manifests it covers.                 *)
Grouped ==
  \A b \in Budgets : \A g \in Groups(b) :
    DispatchedIn(b, g) = {m \in Manifests : /\ dispatches[m] # None /\ manifests[m] # None
                                            /\ manifests[m].claim.target \in Covers[b]
                                            /\ GroupOf(b, manifests[m].claim) = g}

LEMMA DispatchedInGroup == V4Basics => Grouped
<1> SUFFICES ASSUME V4Basics, NEW b \in Budgets, NEW g \in Groups(b)
             PROVE  DispatchedIn(b, g) =
                      {m \in Manifests : /\ dispatches[m] # None /\ manifests[m] # None
                                         /\ manifests[m].claim.target \in Covers[b]
                                         /\ GroupOf(b, manifests[m].claim) = g}
  BY DEF Grouped
<1>1. \A m \in Manifests : dispatches[m] # None => manifests[m] # None
  BY DEF V4Basics, ReservationsOK, ReservedIsDispatched
<1>2. \A m \in Manifests : manifests[m] # None =>
        (MemberOf(b, g, m) <=> g = GroupOf(b, manifests[m].claim))
  BY GroupIsMember
<1> QED BY <1>1, <1>2 DEF DispatchedIn

(* Time closes windows and opens none.                                       *)
LEMMA ExpiredStays ==
  ASSUME V4TypeOK, V4TypeOK', Forward, NEW b \in Budgets, Timely(b), NEW at \in Time,
         Expired(b, at)
  PROVE  Expired(b, at)'
<1>1. clock \in Nat /\ clock' \in Nat /\ at \in Nat BY DEF V4TypeOK, Time
<1>2. Seconds[b] \in Nat \ {0} OBVIOUS
<1>3. CASE Window[b] = "lifetime" BY <1>3 DEF Expired
<1>4. CASE Window[b] = "rolling" /\ clock <= clock' BY <1>1, <1>2, <1>4 DEF Expired
<1>5. CASE Window[b] = "fixed" /\ clock <= clock'
  <2>1. clock \div Seconds[b] <= clock' \div Seconds[b] BY <1>1, <1>2, <1>5, DivMonotone
  <2>2. /\ clock \div Seconds[b] \in Int /\ clock' \div Seconds[b] \in Int
        /\ at \div Seconds[b] \in Int
    BY <1>1, <1>2
  <2> QED BY <1>5, <2>1, <2>2 DEF Expired
<1> QED BY <1>3, <1>4, <1>5 DEF Timely, Forward, Expired

(* Without a dispatch nothing more counts.                                   *)
LEMMA QuietCounts ==
  ASSUME V4Basics, V4Basics', Quiet, NEW b \in Budgets, NEW g \in Groups(b)
  PROVE  /\ DispatchedIn(b, g)' = DispatchedIn(b, g)
         /\ Timely(b) => Counted(b, g)' \subseteq Counted(b, g)
<1>1. Grouped BY DispatchedInGroup
<1>2. Grouped' BY DispatchedInGroup, PTL
<1>3. \A m \in Manifests : dispatches[m] # None => manifests[m] # None
  BY DEF V4Basics, ReservationsOK, ReservedIsDispatched
<1>4. \A m \in Manifests : dispatches[m] # None => manifests'[m] = manifests[m]
  BY <1>3 DEF Quiet
<1>5. DispatchedIn(b, g)' = DispatchedIn(b, g)
  <2>1. DispatchedIn(b, g)' = {m \in Manifests :
                                 /\ dispatches'[m] # None /\ manifests'[m] # None
                                 /\ manifests'[m].claim.target \in Covers[b]
                                 /\ GroupOf(b, manifests'[m].claim) = g}
    BY <1>2 DEF Grouped, DispatchedIn, MemberOf
  <2>2. DispatchedIn(b, g) = {m \in Manifests : /\ dispatches[m] # None /\ manifests[m] # None
                                                /\ manifests[m].claim.target \in Covers[b]
                                                /\ GroupOf(b, manifests[m].claim) = g}
    BY <1>1 DEF Grouped
  <2> QED BY <1>3, <1>4, <2>1, <2>2 DEF Quiet
<1>6. ASSUME Timely(b), NEW m \in Counted(b, g)' PROVE m \in Counted(b, g)
  <2>1. m \in DispatchedIn(b, g) /\ reservations'[m] = reservations[m]
    BY <1>5, <1>6 DEF Counted, Quiet
  <2>2. reservations[m] # None /\ reservations[m].at \in Time
    BY <2>1 DEF DispatchedIn, V4Basics, V4TypeOK, ReservationsOK, ReservedIsDispatched,
                ReservationRecord
  <2> DEFINE at == reservations[m].at
  <2>3. ~Expired(b, at)
    <3>1. PICK t \in Time : t = at BY <2>2
    <3>2. ~Expired(b, t)' BY <1>6, <2>1, <3>1 DEF Expired, Counted
    <3> QED BY <1>6, <3>1, <3>2, ExpiredStays DEF V4Basics, Quiet
  <2> QED BY <2>1, <2>3 DEF Counted
<1> QED BY <1>5, <1>6

(* What a dispatch adds to what counts: itself, in its own group.            *)
ClaimOf(e) == manifests[call[e]].claim
Joins(e, b, g) == b \in Claims(ClaimOf(e)) /\ GroupOf(b, ClaimOf(e)) = g

LEMMA AdmitCounts ==
  ASSUME V4Basics, CallsOK, V4Basics', NEW e \in Executions, AdmitStep(e),
         NEW b \in Budgets, NEW g \in Groups(b)
  PROVE  /\ DispatchedIn(b, g)' =
              IF Joins(e, b, g) THEN DispatchedIn(b, g) \cup {call[e]} ELSE DispatchedIn(b, g)
         /\ Counted(b, g)' =
              IF Joins(e, b, g) THEN Counted(b, g) \cup {call[e]} ELSE Counted(b, g)
<1>0. PICK m : m = call[e] OBVIOUS
<1> DEFINE mine == IF Joins(e, b, g) THEN {m} ELSE {}
           r == [execution |-> e, at |-> clock, claim |-> manifests[m].claim]
<1>1. /\ m \in Manifests /\ manifests[m] # None /\ dispatches[m] = None
      /\ reservations' = [reservations EXCEPT ![m] = r]
  BY <1>0, AdmitIs DEF AdmitStep
<1>2. /\ dispatches' = [dispatches EXCEPT ![m] = e]
      /\ UNCHANGED <<clock, manifests>>
  BY <1>0 DEF AdmitStep, Admit
<1>3. r.at = clock OBVIOUS
<1> HIDE DEF r
<1>4. /\ dispatches'[m] = e /\ e # None /\ reservations'[m] = r
      /\ \A x \in Manifests \ {m} : /\ dispatches'[x] = dispatches[x]
                                    /\ reservations'[x] = reservations[x]
  BY <1>1, <1>2 DEF V4Basics, V4TypeOK
<1>5. DispatchedIn(b, g)' = DispatchedIn(b, g) \cup mine
  <2>1. Grouped /\ Grouped' BY DispatchedInGroup, PTL
  <2>2. DispatchedIn(b, g)' = {x \in Manifests :
                                 /\ dispatches'[x] # None /\ manifests'[x] # None
                                 /\ manifests'[x].claim.target \in Covers[b]
                                 /\ GroupOf(b, manifests'[x].claim) = g}
    BY <2>1 DEF Grouped, DispatchedIn, MemberOf
  <2>3. DispatchedIn(b, g) = {x \in Manifests : /\ dispatches[x] # None /\ manifests[x] # None
                                                /\ manifests[x].claim.target \in Covers[b]
                                                /\ GroupOf(b, manifests[x].claim) = g}
    BY <2>1 DEF Grouped
  <2>4. manifests' = manifests BY <1>2
  <2> QED BY <1>0, <1>1, <1>4, <2>2, <2>3, <2>4 DEF Claims, Joins, ClaimOf
<1>6. ~Expired(b, clock) BY DEF Expired, V4Basics, V4TypeOK, Time
<1>7. \A t : Expired(b, t)' <=> Expired(b, t) BY <1>2 DEF Expired
<1>8. Counted(b, g)' = {x \in DispatchedIn(b, g)' : ~Expired(b, reservations'[x].at)}
  BY <1>2 DEF Counted, Expired
<1>9. \A x \in DispatchedIn(b, g) : x \in Manifests \ {m} BY <1>1 DEF DispatchedIn
<1>10. \A x \in mine : x = m OBVIOUS
<1> HIDE DEF mine
<1>11. Counted(b, g)' = Counted(b, g) \cup mine
  BY <1>3, <1>4, <1>5, <1>6, <1>8, <1>9, <1>10 DEF Counted
<1> QED BY <1>0, <1>5, <1>11 DEF mine

(* What is used of a budget, now and after a step, is UsedOf the claims.     *)
LEMMA UsedIs ==
  ASSUME NEW b \in Budgets, NEW S \in SUBSET Manifests
  PROVE  Used(b, S) = UsedOf(b, [m \in Manifests |-> manifests[m].claim], S)
<1> DEFINE f == [m \in Manifests |-> manifests[m].claim]
<1>1. {manifests[m].claim.target : m \in S} = {f[m].target : m \in S}
  <2>1. \A m \in S : f[m] = manifests[m].claim OBVIOUS
  <2> HIDE DEF f
  <2> QED BY <2>1
<1>2. [m \in S |-> manifests[m].claim.objects] = [m \in S |-> f[m].objects] OBVIOUS
<1> HIDE DEF f
<1> QED BY <1>1, <1>2 DEF Used, UsedOf, f

LEMMA UsedNext ==
  ASSUME NEW b \in Budgets, NEW g \in Groups(b), Counted(b, g)' \subseteq Manifests
  PROVE  Used(b, Counted(b, g))' =
           UsedOf(b, [m \in Manifests |-> manifests'[m].claim], Counted(b, g)')
<1> DEFINE f == [m \in Manifests |-> manifests'[m].claim]
<1>1. PICK S \in SUBSET Manifests : S = Counted(b, g)' OBVIOUS
<1>2. {manifests'[m].claim.target : m \in S} = {f[m].target : m \in S} OBVIOUS
<1>3. [m \in S |-> manifests'[m].claim.objects] = [m \in S |-> f[m].objects] OBVIOUS
<1>4. Used(b, Counted(b, g))' =
        CASE Measure[b] = "distinct_targets" -> Cardinality({manifests'[m].claim.target : m \in S})
          [] Measure[b] = "objects" -> Total([m \in S |-> manifests'[m].claim.objects], S)
          [] OTHER -> Cardinality(S)
  BY <1>1 DEF Used
<1> HIDE DEF f
<1> QED BY <1>1, <1>2, <1>3, <1>4 DEF UsedOf, f

(* For the group of the action dispatched, the measure that was projected   *)
(* is what is used after the dispatch.                                       *)
LEMMA AdmitProjects ==
  ASSUME V4Basics, CallsOK, V4Basics', NEW e \in Executions, AdmitStep(e),
         NEW b \in Budgets, NEW g, Joins(e, b, g), Timely(b)
  PROVE  LET n == Projected(reservations, b, ClaimOf(e), clock, Active) IN
         /\ g \in Groups(b) /\ n \in Nat
         /\ Measure[b] # "in_flight" => /\ Used(b, Counted(b, g))' = n
                                        /\ Used(b, Counted(b, g) \cup {call[e]}) = n
         /\ Relevant(reservations, b, ClaimOf(e), clock) = Counted(b, g)
<1>0. PICK m, c : m = call[e] /\ c = ClaimOf(e) OBVIOUS
<1>1. /\ m \in Manifests /\ manifests[m] # None /\ dispatches[m] = None
      /\ reservations[m] = None
  BY <1>0, AdmitIs DEF AdmitStep
<1>2. c = manifests[m].claim /\ c \in Claim /\ c.objects \in Nat
  BY <1>0, <1>1 DEF ClaimOf, V4Basics, V4TypeOK, ManifestRecord, Claim
<1>3. g = GroupOf(b, c) BY <1>0 DEF Joins
<1>4. g \in Groups(b) BY <1>1, <1>2, <1>3, GroupIsMember
<1> DEFINE R == Relevant(reservations, b, c, clock)
<1>5. R = Counted(b, g) BY <1>2, <1>3, <1>4, RelevantIsCounted
<1>6. R \subseteq Manifests /\ m \notin R BY <1>1 DEF Relevant, V4Basics, V4TypeOK
<1>7. IsFiniteSet(R) BY <1>6, FS_Subset
<1>8. Projected(reservations, b, c, clock, Active) \in Nat
  <2>1. IsFiniteSet(DOMAIN reservations) BY DEF V4Basics, V4TypeOK
  <2>2. \A x \in DOMAIN reservations :
          reservations[x] # None => reservations[x].claim.objects \in Nat
    BY DEF V4Basics, V4TypeOK, ReservationRecord, Claim
  <2> QED BY <1>2, <1>3, <2>1, <2>2, ProjectedIsNumber
<1>9. ASSUME Measure[b] # "in_flight"
      PROVE  /\ Used(b, Counted(b, g))' = Projected(reservations, b, c, clock, Active)
             /\ Used(b, Counted(b, g) \cup {m}) = Projected(reservations, b, c, clock, Active)
  <2> DEFINE f == [x \in Manifests |-> manifests[x].claim]
  <2>1. f[m] = c BY <1>1, <1>2
  <2>2. \A x \in R : f[x] = reservations[x].claim /\ reservations[x].claim.objects \in Nat
    <3>1. \A x \in R : x \in Manifests /\ reservations[x] # None BY <1>6 DEF Relevant
    <3>2. \A x \in R : reservations[x].claim = manifests[x].claim
                        /\ reservations[x].claim.objects \in Nat
      BY <3>1 DEF V4Basics, V4TypeOK, ReservationsOK, ReservationRecord, Claim
    <3> QED BY <3>1, <3>2
  <2> HIDE DEF f
  <2>3. Projected(reservations, b, c, clock, Active) = UsedOf(b, f, R \cup {m})
    <3>1. R = Relevant(reservations, b, c, clock) OBVIOUS
    <3>2. ClaimsAre(f, m, c, R, reservations) BY <1>2, <1>6, <2>1, <2>2 DEF ClaimsAre
    <3> HIDE DEF R
    <3> QED BY <1>3, <1>7, <1>9, <3>1, <3>2, ProjectedIsUsed
  <2>4. Counted(b, g)' = R \cup {m} BY <1>0, <1>4, <1>5, AdmitCounts
  <2>5. manifests' = manifests BY DEF AdmitStep
  <2>6. Used(b, Counted(b, g))' = UsedOf(b, [x \in Manifests |-> manifests'[x].claim],
                                         Counted(b, g)')
    BY <1>1, <1>3, <1>4, <1>6, <2>4, UsedNext
  <2>7. Used(b, R \cup {m}) = UsedOf(b, f, R \cup {m})
    BY <1>1, <1>3, <1>6, UsedIs DEF f
  <2> HIDE DEF R
  <2>8. [x \in Manifests |-> manifests'[x].claim] = f BY <2>5 DEF f
  <2> QED BY <1>5, <2>3, <2>4, <2>6, <2>7, <2>8
<1> QED BY <1>0, <1>4, <1>5, <1>8, <1>9

(* An action that was admitted exceeds no budget of its own that does not    *)
(* ask for a review.                                                         *)
LEMMA NothingBlocks ==
  ASSUME NEW e \in Executions, AdmitStep(e), NEW b \in Budgets, NEW g, Joins(e, b, g),
         Response[b] # "REQUIRE_APPROVAL",
         Projected(reservations, b, ClaimOf(e), clock, Active) \in Nat
  PROVE  Projected(reservations, b, ClaimOf(e), clock, Active) <= Limit[b]
<1> DEFINE c == ClaimOf(e)
           n == Projected(reservations, b, c, clock, Active)
           issues == Issues(reservations, c, clock, Active)
<1>1. Blocking(issues, manifests[call[e]].approval) = {}
  BY DEF AdmitStep, Admit, AdmissionClear, ClaimOf
<1>2. n > Limit[b] => <<b, n>> \in issues BY DEF Issues, Joins
<1>3. <<b, n>> \in issues => <<b, n>> \in Blocking(issues, manifests[call[e]].approval)
  <2> HIDE DEF issues, n
  <2>1. <<b, n>>[1] = b OBVIOUS
  <2> QED BY <2>1 DEF Blocking
<1>4. Limit[b] \in Nat OBVIOUS
<1> HIDE DEF issues
<1>5. ~(n > Limit[b]) BY <1>1, <1>2, <1>3
<1> QED BY <1>4, <1>5

(* The measure of every budget that does not ask for a review stays within   *)
(* its limit.                                                                *)
LEMMA BudgetsStep ==
  ASSUME V4Basics, CallsOK, BudgetsOK, V4Basics', [Next]_vars PROVE BudgetsOK'
<1> SUFFICES ASSUME NEW b \in Budgets, Timely(b), Measure[b] # "in_flight",
                    Response[b] # "REQUIRE_APPROVAL", NEW g \in Groups(b)
             PROVE  Used(b, Counted(b, g))' <= Limit[b]
  BY DEF BudgetsOK, Timely, Groups
<1> DEFINE C == Counted(b, g)
           f == [m \in Manifests |-> manifests[m].claim]
<1>1. C \subseteq Manifests /\ IsFiniteSet(C)
  <2>1. C \subseteq Manifests BY DEF Counted, DispatchedIn
  <2> QED BY <2>1, FS_Subset
<1>2. Used(b, C) <= Limit[b] BY DEF BudgetsOK
<1>3. Used(b, C) = UsedOf(b, f, C)
  <2> HIDE DEF C, f
  <2> QED BY <1>1, UsedIs DEF f
<1>4. \A m \in C : manifests[m] # None /\ f[m].objects \in Nat
  <2>1. \A m \in C : m \in Manifests /\ manifests[m] # None
    BY DEF Counted, DispatchedIn, V4Basics, ReservationsOK, ReservedIsDispatched
  <2> QED BY <2>1 DEF V4Basics, V4TypeOK, ManifestRecord, Claim
<1>5. ASSUME NEW D, D = Counted(b, g)', D \subseteq C,
             \A m \in C : manifests'[m] = manifests[m]
      PROVE  Used(b, Counted(b, g))' <= Limit[b]
  <2> DEFINE h == [m \in Manifests |-> manifests'[m].claim]
  <2>1. Used(b, Counted(b, g))' = UsedOf(b, h, D)
    BY <1>1, <1>5, UsedNext
  <2>2. \A m \in D : h[m] = f[m] BY <1>1, <1>5
  <2> HIDE DEF h, f, C
  <2>3. UsedOf(b, h, D) <= UsedOf(b, f, C)
    BY <1>1, <1>4, <1>5, <2>2, UsedMonotone
  <2>4. UsedOf(b, f, C) \in Nat BY <1>1, <1>4, UsedNat
  <2>5. UsedOf(b, h, D) \in Nat
    <3>1. IsFiniteSet(D) BY <1>1, <1>5, FS_Subset
    <3>2. \A m \in D : h[m].objects \in Nat BY <1>4, <1>5, <2>2
    <3> QED BY <3>1, <3>2, UsedNat
  <2>6. Limit[b] \in Nat OBVIOUS
  <2> QED BY <1>2, <1>3, <2>1, <2>3, <2>4, <2>5, <2>6
<1>6. CASE Quiet
  <2>1. C \subseteq Manifests /\ \A m \in C : manifests'[m] = manifests[m]
    BY <1>1, <1>4, <1>6 DEF Quiet
  <2>2. Counted(b, g)' \subseteq C BY <1>6, QuietCounts
  <2> QED BY <1>5, <2>1, <2>2
<1>7. ASSUME NEW e \in Executions, AdmitStep(e) PROVE Used(b, Counted(b, g))' <= Limit[b]
  <2>1. CASE Joins(e, b, g)
    <3> DEFINE n == Projected(reservations, b, ClaimOf(e), clock, Active)
    <3>1. Used(b, Counted(b, g))' = n /\ n \in Nat BY <1>7, <2>1, AdmitProjects
    <3>2. n <= Limit[b] BY <1>7, <2>1, <3>1, NothingBlocks
    <3> QED BY <3>1, <3>2
  <2>2. CASE ~Joins(e, b, g)
    <3>1. Counted(b, g)' = C BY <1>7, <2>2, AdmitCounts
    <3>2. manifests' = manifests BY <1>7 DEF AdmitStep
    <3> QED BY <1>5, <3>1, <3>2
  <2> QED BY <2>1, <2>2
<1> QED BY <1>6, <1>7, AdmitOrQuiet

(* So does the number of executions in flight, which the gate counts in the  *)
(* window as well: with a window that never ends it counts them all.         *)
LEMMA InFlightStep ==
  ASSUME V4Basics, CallsOK, InFlightOK, V4Basics', [Next]_vars PROVE InFlightOK'
<1> SUFFICES ASSUME NEW b \in Budgets, Measure[b] = "in_flight", Window[b] = "lifetime",
                    Response[b] # "REQUIRE_APPROVAL", NEW g \in Groups(b)
             PROVE  Cardinality(InFlight(b, g)') <= Limit[b]
  BY DEF InFlightOK, Groups
<1> DEFINE F == InFlight(b, g)
<1>1. F \subseteq Manifests /\ IsFiniteSet(F)
  <2>1. F \subseteq Manifests BY DEF InFlight, DispatchedIn
  <2> QED BY <2>1, FS_Subset
<1>2. Cardinality(F) <= Limit[b] BY DEF InFlightOK
<1>3. Limit[b] \in Nat /\ Cardinality(F) \in Nat BY <1>1, FS_CardinalityType
<1>4. ASSUME NEW D, D = InFlight(b, g)', D \subseteq F
      PROVE  Cardinality(InFlight(b, g)') <= Limit[b]
  <2>1. Cardinality(D) <= Cardinality(F) /\ IsFiniteSet(D) BY <1>1, <1>4, FS_Subset
  <2>2. Cardinality(D) \in Nat BY <2>1, FS_CardinalityType
  <2> QED BY <1>2, <1>3, <1>4, <2>1, <2>2
<1>5. CASE Quiet
  <2>1. DispatchedIn(b, g)' = DispatchedIn(b, g) /\ dispatches' = dispatches
        /\ Active' \subseteq Active
    BY <1>5, QuietCounts DEF Quiet
  <2>2. InFlight(b, g)' \subseteq F BY <2>1 DEF InFlight
  <2> QED BY <1>4, <2>2
<1>6. ASSUME NEW e \in Executions, AdmitStep(e)
      PROVE  Cardinality(InFlight(b, g)') <= Limit[b]
  <2>1. PICK m : m = call[e] OBVIOUS
  <2>3. /\ m \in Manifests /\ dispatches[m] = None
        /\ dispatches' = [dispatches EXCEPT ![m] = e]
        /\ executions' = [executions EXCEPT ![e] = [manifest |-> m, state |-> "DISPATCHED"]]
        /\ verified' = verified
    BY <1>6, <2>1, AdmitIs DEF AdmitStep, Admit
  <2>4. \A x \in Executions \ {e} : x \in Active' => x \in Active
    <3>1. \A x \in Executions \ {e} : executions'[x] = executions[x]
      BY <2>3 DEF V4Basics, V4TypeOK
    <3> QED BY <2>3, <3>1 DEF Active, StateOf
  <2>5. \A x \in Manifests : dispatches[x] # e
    <3>1. executions[e] = None BY <1>6 DEF AdmitStep, Admit, CallsOK
    <3> QED BY <3>1 DEF CallsOK
  <2>6. \A x \in Manifests \ {m} : dispatches'[x] = dispatches[x] /\ dispatches[x] # e
    BY <2>3, <2>5 DEF V4Basics, V4TypeOK
  <2>7. \A x \in InFlight(b, g)' :
          x \in DispatchedIn(b, g)' /\ dispatches'[x] \in Active' /\ x \in Manifests
    BY DEF InFlight, DispatchedIn
  <2>8. \A x \in InFlight(b, g)' : x # m => (x \in DispatchedIn(b, g) => x \in F)
    <3>1. \A x \in InFlight(b, g)' : dispatches'[x] \in Executions BY <2>7 DEF Active
    <3> QED BY <2>4, <2>6, <2>7, <3>1 DEF InFlight
  <2>9. CASE Joins(e, b, g)
    <3> DEFINE R == Relevant(reservations, b, ClaimOf(e), clock)
               n == Projected(reservations, b, ClaimOf(e), clock, Active)
    <3>1. Timely(b) BY DEF Timely
    <3>2. R = Counted(b, g) /\ n \in Nat BY <1>6, <2>9, <3>1, AdmitProjects
    <3>3. {x \in R : reservations[x].execution \in Active} = F
      <4>1. \A x \in DispatchedIn(b, g) : ~Expired(b, reservations[x].at) BY DEF Expired
      <4>2. \A x \in DispatchedIn(b, g) : reservations[x].execution = dispatches[x]
        BY DEF DispatchedIn, V4Basics, ReservationsOK, ReservedIsDispatched
      <4> HIDE DEF R
      <4> QED BY <3>2, <4>1, <4>2 DEF Counted, InFlight
    <3>4. n = Cardinality(F) + 1
      <4> HIDE DEF F
      <4> QED BY <3>3 DEF Projected
    <3>5. n <= Limit[b] BY <1>6, <2>9, <3>2, NothingBlocks
    <3>6. InFlight(b, g)' \subseteq F \cup {m}
      <4>1. DispatchedIn(b, g)' \subseteq DispatchedIn(b, g) \cup {m}
        BY <1>6, <2>1, AdmitCounts
      <4> QED BY <2>7, <2>8, <4>1
    <3>7. IsFiniteSet(F \cup {m}) /\ Cardinality(F \cup {m}) <= Cardinality(F) + 1
      <4> HIDE DEF F
      <4>1. IsFiniteSet(F \cup {m}) /\ (m \in F => F \cup {m} = F)
        BY <1>1, FS_AddElement
      <4>2. m \notin F => Cardinality(F \cup {m}) = Cardinality(F) + 1
        BY <1>1, FS_AddElement
      <4>3. m \in F => Cardinality(F \cup {m}) = Cardinality(F) BY <4>1
      <4>4. \/ Cardinality(F \cup {m}) = Cardinality(F)
            \/ Cardinality(F \cup {m}) = Cardinality(F) + 1
        BY <4>2, <4>3
      <4> QED BY <1>3, <4>1, <4>4
    <3> HIDE DEF F, R, n
    <3>8. PICK D : D = InFlight(b, g)' OBVIOUS
    <3>9. IsFiniteSet(D) /\ Cardinality(D) <= Cardinality(F \cup {m})
      BY <3>6, <3>7, <3>8, FS_Subset
    <3>10. Cardinality(D) \in Nat /\ Cardinality(F \cup {m}) \in Nat
      BY <3>7, <3>9, FS_CardinalityType
    <3> QED BY <1>3, <3>2, <3>4, <3>5, <3>7, <3>8, <3>9, <3>10
  <2>10. CASE ~Joins(e, b, g)
    <3>1. DispatchedIn(b, g)' = DispatchedIn(b, g) BY <1>6, <2>10, AdmitCounts
    <3>2. \A x \in DispatchedIn(b, g) : x # m BY <2>3 DEF DispatchedIn
    <3>3. InFlight(b, g)' \subseteq F BY <2>7, <2>8, <3>1, <3>2
    <3> QED BY <1>4, <3>3
  <2> QED BY <2>9, <2>10
<1> QED BY <1>5, <1>6, AdmitOrQuiet

(* At first nothing is dispatched, held or used.                             *)
LEMMA V4Init == ASSUME Init PROVE V4Inv
<1> USE DEF Init
<1>1. V4TypeOK
  <2>1. \A h \in Holds : [active |-> FALSE, revision |-> 0] \in [active : BOOLEAN, revision : Nat]
    OBVIOUS
  <2>2. clock \in Time /\ faults \in 0 .. MaxFaults BY DEF Time
  <2> QED BY <2>1, <2>2 DEF V4TypeOK
<1>2. DelegationsOK /\ ReservationsOK /\ HoldsOK
  BY DEF DelegationsOK, ReservationsOK, ReservedIsDispatched, HoldsOK
<1>3. CallsOK
  <2>1. \A e \in Executions : pc[e] = "idle" /\ executions[e] = None OBVIOUS
  <2> QED BY <2>1 DEF CallsOK
<1>4. \A b \in Budgets : \A g \in Groups(b) :
        DispatchedIn(b, g) = {} /\ Counted(b, g) = {} /\ InFlight(b, g) = {}
  BY DEF DispatchedIn, Counted, InFlight
<1>5. IsFiniteSet({}) /\ Cardinality({}) = 0 BY FS_EmptySet
<1>6. ASSUME NEW b \in Budgets PROVE Used(b, {}) = 0
  <2>1. {manifests[m].claim.target : m \in {}} = {} OBVIOUS
  <2> DEFINE w == [m \in {} |-> manifests[m].claim.objects]
  <2>2. \A m \in {} : w[m] = 1 OBVIOUS
  <2> HIDE DEF w
  <2>3. Total(w, {}) = 0 BY <1>5, <2>2, TotalOnes
  <2> QED BY <1>5, <2>1, <2>3 DEF Used, w
<1>7. \A b \in Budgets : 0 <= Limit[b] OBVIOUS
<1>8. BudgetsOK BY <1>4, <1>6, <1>7 DEF BudgetsOK
<1>9. InFlightOK BY <1>4, <1>5, <1>7 DEF InFlightOK
<1> QED BY <1>1, <1>2, <1>3, <1>8, <1>9 DEF V4Inv

LEMMA V4Step == ASSUME V4Inv, [Next]_vars PROVE V4Inv'
<1>1. V4Basics /\ CallsOK /\ HoldsOK /\ BudgetsOK /\ InFlightOK BY DEF V4Inv, V4Basics
<1>2. V4Basics'
  BY <1>1, V4TypeStep, DelegationsStep, ReservationsStep DEF V4Basics
<1>3. CallsOK' BY <1>1, CallsStep
<1>4. HoldsOK' BY <1>1, HoldsStep DEF V4Basics
<1>5. BudgetsOK' BY <1>1, <1>2, BudgetsStep
<1>6. InFlightOK' BY <1>1, <1>2, InFlightStep
<1> QED BY <1>2, <1>3, <1>4, <1>5, <1>6 DEF V4Inv, V4Basics

(* The carrying invariant holds, whatever the budgets, rules and delegations  *)
(* are, and also when the clock is set back.                                 *)
THEOREM V4Invariant == Spec => []V4Inv
<1>1. Init => V4Inv BY V4Init
<1>2. V4Inv /\ [Next]_vars => V4Inv' BY V4Step
<1> QED BY <1>1, <1>2, PTL DEF Spec

(* Every variable keeps the shape of the record it stands for.               *)
THEOREM V4Types == Spec => []V4TypeOK
<1>1. V4Inv => V4TypeOK BY DEF V4Inv
<1> QED BY <1>1, V4Invariant, PTL

(* A reservation is held by exactly the manifests that were dispatched, for  *)
(* their execution, whatever calls were refused, failed or lost.             *)
THEOREM ReservationStands == Spec => []ReservedIsDispatched
<1>1. V4Inv => ReservedIsDispatched BY DEF V4Inv, ReservationsOK
<1> QED BY <1>1, V4Invariant, PTL

(* No budget that does not ask for a review is exceeded, unless the clock    *)
(* reopens a window that was counted out.                                    *)
THEOREM BudgetsStand ==
  ASSUME \A b \in Budgets : Measure[b] # "in_flight" => Timely(b) PROVE Spec => []BudgetsHold
<1>1. V4Inv => BudgetsHold BY DEF V4Inv, BudgetsOK, BudgetsHold
<1> QED BY <1>1, V4Invariant, PTL

(* No budget of calls in flight is exceeded, when it counts them for as long *)
(* as they are in flight: the run v4_rolling_in_flight shows that the        *)
(* condition is needed.                                                      *)
THEOREM InFlightStands ==
  ASSUME \A b \in Budgets : Measure[b] = "in_flight" => Window[b] = "lifetime"
  PROVE  Spec => []InFlightHolds
<1>1. V4Inv => InFlightHolds
  <2>1. ASSUME V4TypeOK, NEW b \in Budgets, NEW g \in Groups(b)
        PROVE  {m \in DispatchedIn(b, g) : /\ StateOf(dispatches[m]) \in Live
                                           /\ dispatches[m] \notin verified} = InFlight(b, g)
    <3>1. \A m \in DispatchedIn(b, g) : dispatches[m] \in Executions
      BY <2>1 DEF DispatchedIn, V4TypeOK
    <3> QED BY <3>1 DEF InFlight, Active
  <2> QED BY <2>1 DEF V4Inv, InFlightOK, InFlightHolds
<1> QED BY <1>1, V4Invariant, PTL

(* Only the dispatch of its execution dispatches a manifest.                 *)
LEMMA DispatchIsAdmitted ==
  ASSUME V4Inv, [Next]_vars, NEW m \in Manifests, NewlyDispatched(m)
  PROVE  /\ V4Basics /\ CallsOK /\ V4Basics' /\ HoldsOK /\ manifests[m] # None
         /\ \E e \in Executions : AdmitStep(e) /\ call[e] = m
<1>1. V4Basics /\ CallsOK /\ V4Basics' /\ HoldsOK
  BY V4Step DEF V4Inv, V4Basics
<1>2. ~Quiet BY DEF NewlyDispatched, Quiet
<1>3. PICK e \in Executions : AdmitStep(e) BY <1>1, <1>2, AdmitOrQuiet
<1>4. PICK x : x = call[e] OBVIOUS
<1>5. dispatches' = [dispatches EXCEPT ![x] = e] /\ x \in Manifests /\ manifests[x] # None
  BY <1>1, <1>3, <1>4, AdmitIs DEF AdmitStep, Admit
<1>6. m = x BY <1>1, <1>5 DEF NewlyDispatched, V4Basics, V4TypeOK
<1> QED BY <1>1, <1>3, <1>4, <1>5, <1>6

(* The group of a manifest is the one its claim is in.                       *)
LEMMA CountedWithIs ==
  ASSUME V4Basics, NEW m \in Manifests, manifests[m] # None, NEW b \in Budgets
  PROVE  CountedWith(b, m) = Counted(b, GroupOf(b, manifests[m].claim))
<1> DEFINE own == GroupOf(b, manifests[m].claim)
           g == CHOOSE g \in Groups(b) : MemberOf(b, g, m)
<1>1. own \in Groups(b) /\ \A h \in Groups(b) : MemberOf(b, h, m) <=> h = own
  BY GroupIsMember
<1>2. \E h \in Groups(b) : MemberOf(b, h, m) BY <1>1
<1>3. g \in Groups(b) /\ MemberOf(b, g, m) BY <1>2
<1>4. CountedWith(b, m) = Counted(b, g) BY DEF CountedWith
<1> HIDE DEF own, g
<1>5. g = own BY <1>1, <1>3
<1> QED BY <1>4, <1>5 DEF own

(* An action is dispatched only while the reservations that count with it    *)
(* are those its proposal was shown.                                         *)
THEOREM ReviewStands == ASSUME \A b \in Budgets : Timely(b) PROVE Spec => ReviewIsCurrent
<1>1. ASSUME V4Inv, [Next]_vars
      PROVE  \A m \in Manifests : NewlyDispatched(m) =>
               \A b \in Claims(manifests[m].claim) :
                 {x \in Manifests : \E active \in BOOLEAN :
                    <<x, b, active>> \in manifests[m].review.revision} = CountedWith(b, m)
  <2> SUFFICES ASSUME NEW m \in Manifests, NewlyDispatched(m),
                      NEW b \in Claims(manifests[m].claim)
               PROVE  {x \in Manifests : \E active \in BOOLEAN :
                         <<x, b, active>> \in manifests[m].review.revision} = CountedWith(b, m)
    OBVIOUS
  <2>1. /\ V4Basics /\ CallsOK /\ V4Basics' /\ manifests[m] # None
        /\ \E e \in Executions : AdmitStep(e) /\ call[e] = m
    BY <1>1, DispatchIsAdmitted
  <2>2. PICK e \in Executions : AdmitStep(e) /\ call[e] = m BY <2>1
  <2>3. b \in Budgets /\ ClaimOf(e) = manifests[m].claim BY <2>2 DEF Claims, ClaimOf
  <2> DEFINE c == ClaimOf(e)
             g == GroupOf(b, c)
             R == Relevant(reservations, b, c, clock)
             revision == manifests[m].review.revision
  <2>4. Joins(e, b, g) BY <2>3 DEF Joins
  <2>5. R = Counted(b, g)
    <3>1. Timely(b) BY <2>3
    <3>2. PICK k \in Budgets : k = b BY <2>3
    <3>3. Joins(e, k, g) /\ Timely(k) BY <2>4, <3>1, <3>2
    <3> HIDE DEF g, c, R, revision
    <3>4. Relevant(reservations, k, ClaimOf(e), clock) = Counted(k, g)
      BY <2>1, <2>2, <3>3, AdmitProjects
    <3> QED BY <3>2, <3>4 DEF R, c
  <2>6. Counted(b, g) = CountedWith(b, m) BY <2>1, <2>3, CountedWithIs
  <2>7. manifests[m].review = Snapshot(c, clock)
    BY <2>2, <2>3 DEF AdmitStep, Admit, AdmissionClear
  <2>8. revision = UNION {{<<x, k, reservations[x].execution \in Active>> :
                             x \in Relevant(reservations, k, c, clock)} : k \in Claims(c)}
    BY <2>7 DEF Snapshot, review_snapshot
  <2>9. R \subseteq Manifests BY <2>1 DEF Relevant, V4Basics, V4TypeOK
  <2>10. ASSUME NEW x, NEW active, <<x, b, active>> \in revision PROVE x \in R
    <3>1. PICK k \in Claims(c) :
            <<x, b, active>> \in {<<y, k, reservations[y].execution \in Active>> :
                                    y \in Relevant(reservations, k, c, clock)}
      BY <2>8, <2>10
    <3>2. PICK y \in Relevant(reservations, k, c, clock) :
            <<x, b, active>> = <<y, k, reservations[y].execution \in Active>>
      BY <3>1
    <3> QED BY <3>2
  <2>11. ASSUME NEW x \in R PROVE \E active \in BOOLEAN : <<x, b, active>> \in revision
    <3> DEFINE a == reservations[x].execution \in Active
    <3>1. a \in BOOLEAN OBVIOUS
    <3>2. b \in Claims(c) BY <2>3
    <3>3. <<x, b, a>> \in revision BY <2>8, <3>2
    <3> HIDE DEF a, revision
    <3> QED BY <3>1, <3>3
  <2> HIDE DEF R, g, revision
  <2>12. {x \in Manifests : \E active \in BOOLEAN : <<x, b, active>> \in revision} = R
    BY <2>9, <2>10, <2>11
  <2> QED BY <2>5, <2>6, <2>12 DEF revision
<1>2. V4Inv /\ [Next]_vars =>
        [\A m \in Manifests : NewlyDispatched(m) =>
           \A b \in Claims(manifests[m].claim) :
             {x \in Manifests : \E active \in BOOLEAN :
                <<x, b, active>> \in manifests[m].review.revision} = CountedWith(b, m)]_vars
  BY <1>1
<1> QED BY <1>2, V4Invariant, PTL DEF Spec, ReviewIsCurrent

(* A budget that asks for a review is exceeded only by an action that was    *)
(* approved on a proposal that showed that excess.                           *)
THEOREM ExcessStands == ASSUME \A b \in Budgets : Timely(b) PROVE Spec => ExcessIsReviewed
<1>1. ASSUME V4Inv, [Next]_vars
      PROVE  \A m \in Manifests : NewlyDispatched(m) =>
               \A b \in Claims(manifests[m].claim) :
                 LET n == Used(b, CountedWith(b, m) \cup {m}) IN
                 Measure[b] # "in_flight" /\ Response[b] = "REQUIRE_APPROVAL" /\ n > Limit[b]
                   => manifests[m].approval /\ <<b, n>> \in manifests[m].review.issues
  <2> SUFFICES ASSUME NEW m \in Manifests, NewlyDispatched(m),
                      NEW b \in Claims(manifests[m].claim), Measure[b] # "in_flight",
                      Response[b] = "REQUIRE_APPROVAL",
                      NEW n, n = Used(b, CountedWith(b, m) \cup {m}), n > Limit[b]
               PROVE  manifests[m].approval /\ <<b, n>> \in manifests[m].review.issues
    OBVIOUS
  <2>1. /\ V4Basics /\ CallsOK /\ V4Basics' /\ manifests[m] # None
        /\ \E e \in Executions : AdmitStep(e) /\ call[e] = m
    BY <1>1, DispatchIsAdmitted
  <2>2. PICK e \in Executions : AdmitStep(e) /\ call[e] = m BY <2>1
  <2>3. b \in Budgets /\ ClaimOf(e) = manifests[m].claim BY <2>2 DEF Claims, ClaimOf
  <2> DEFINE c == ClaimOf(e)
             g == GroupOf(b, c)
  <2>4. Joins(e, b, g) BY <2>3 DEF Joins
  <2>5. n = Projected(reservations, b, c, clock, Active)
    <3>1. CountedWith(b, m) = Counted(b, g) BY <2>1, <2>3, CountedWithIs
    <3>2. Used(b, Counted(b, g) \cup {m}) = Projected(reservations, b, c, clock, Active)
      BY <2>1, <2>2, <2>3, <2>4, AdmitProjects
    <3> HIDE DEF c, g
    <3> QED BY <3>1, <3>2
  <2>6. <<b, n>> \in Issues(reservations, c, clock, Active)
    BY <2>3, <2>5 DEF Issues
  <2>7. /\ manifests[m].review = Snapshot(c, clock)
        /\ Blocking(Issues(reservations, c, clock, Active), manifests[m].approval) = {}
    BY <2>2, <2>3 DEF AdmitStep, Admit, AdmissionClear
  <2>8. manifests[m].approval
    <3>1. <<b, n>>[1] = b OBVIOUS
    <3> HIDE DEF c
    <3> QED BY <2>6, <2>7, <3>1 DEF Blocking
  <2>9. manifests[m].review.issues = Issues(reservations, c, clock, Active)
    BY <2>7 DEF Snapshot, review_snapshot
  <2> QED BY <2>6, <2>8, <2>9
<1>2. V4Inv /\ [Next]_vars =>
        [\A m \in Manifests : NewlyDispatched(m) =>
           \A b \in Claims(manifests[m].claim) :
             LET n == Used(b, CountedWith(b, m) \cup {m}) IN
             Measure[b] # "in_flight" /\ Response[b] = "REQUIRE_APPROVAL" /\ n > Limit[b]
               => manifests[m].approval /\ <<b, n>> \in manifests[m].review.issues]_vars
  BY <1>1
<1> QED BY <1>2, V4Invariant, PTL DEF Spec, ExcessIsReviewed

(* An action is dispatched under the holds its proposal was shown, with an   *)
(* approval, and under none that suspends.                                   *)
THEOREM HoldsStand == Spec => HoldsStopDispatch
<1>1. ASSUME V4Inv, [Next]_vars
      PROVE  \A m \in Manifests : NewlyDispatched(m) =>
               \A h \in Holds : holds[h].active /\ h[2] \in {manifests[m].claim.actor, "program"} =>
                 /\ RuleMode[h[1]] # "SUSPENDED"
                 /\ manifests[m].approval
                 /\ <<h, holds[h].revision>> \in manifests[m].campaign
  <2> SUFFICES ASSUME NEW m \in Manifests, NewlyDispatched(m), NEW h \in Holds,
                      holds[h].active, h[2] \in {manifests[m].claim.actor, "program"}
               PROVE  /\ RuleMode[h[1]] # "SUSPENDED"
                      /\ manifests[m].approval
                      /\ <<h, holds[h].revision>> \in manifests[m].campaign
    OBVIOUS
  <2>1. /\ V4Basics /\ HoldsOK /\ manifests[m] # None
        /\ \E e \in Executions : AdmitStep(e) /\ call[e] = m
    BY <1>1, DispatchIsAdmitted
  <2>2. PICK e \in Executions : AdmitStep(e) /\ call[e] = m BY <2>1
  <2> DEFINE actor == manifests[m].claim.actor
  <2>3. actor \in Actors BY <2>1 DEF V4Basics, V4TypeOK, ManifestRecord, Claim
  <2>4. h[1] \in Rules BY DEF Holds
  <2>5. h[2] = ScopeValue(h[1], actor)
    <3>1. RuleScope[h[1]] = "actor" <=> h[2] \in Actors BY <2>1 DEF HoldsOK
    <3> HIDE DEF actor
    <3> QED BY <2>3, <3>1 DEF ScopeValue, actor
  <2>6. h \in HoldsOn(actor) BY <2>5 DEF HoldsOn
  <2>7. CampaignClear(m) BY <2>2 DEF AdmitStep, Admit, AdmissionClear
  <2>8. RuleMode[h[1]] \in CampaignModes(actor) BY <2>6 DEF CampaignModes
  <2>9. RuleMode[h[1]] \in {"REQUIRE_APPROVAL", "SUSPENDED"} BY <2>4
  <2>10. <<h, holds[h].revision>> \in campaign_context(actor) BY <2>6 DEF campaign_context
  <2> QED BY <2>7, <2>8, <2>9, <2>10 DEF CampaignClear
<1>2. V4Inv /\ [Next]_vars =>
        [\A m \in Manifests : NewlyDispatched(m) =>
           \A h \in Holds : holds[h].active /\ h[2] \in {manifests[m].claim.actor, "program"} =>
             /\ RuleMode[h[1]] # "SUSPENDED"
             /\ manifests[m].approval
             /\ <<h, holds[h].revision>> \in manifests[m].campaign]_vars
  BY <1>1
<1> QED BY <1>2, V4Invariant, PTL DEF Spec, HoldsStopDispatch
=============================================================================
