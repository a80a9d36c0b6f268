------------------------------ MODULE Decision ------------------------------
(***************************************************************************)
(* Decisions of the gate (gate.py): a reviewed profile is published, a      *)
(* request is turned into a manifest under it, and the manifest is decided  *)
(* on again and again while profiles come and go, time passes and live     *)
(* answers change.  The rules themselves are in Containment; approvals,     *)
(* races between calls and the ledger are in Gate.                          *)
(*                                                                         *)
(* One profile id, one manifest and one call at a time: decisions of other  *)
(* calls touch nothing a decision reads.  Between two reads of shared state *)
(* a call works on copies, so a construction, or the questions of one       *)
(* decision, are one action, with any combination of live answers.          *)
(***************************************************************************)
EXTENDS Containment

CONSTANTS Profiles,        \* contents the profile can be published with
          Requests,
          Submissions,     \* sets of sign-off records handed in together
          Roots,           \* trust roots of the sign-off keys
          RequireSignoffs, \* require_readback_signoffs
          MaxTime          \* bound of the clock

Time == 0 .. MaxTime

ASSUME DecisionAssumption ==
  /\ MaxTime \in Nat /\ Day \in Nat \ {0} /\ RequireSignoffs \in BOOLEAN
  /\ None \notin Profiles \cup Requests /\ None \notin Nat

(* What the profile schema and the trust-root file say of their values.      *)
ASSUME SchemaAssumption ==
  /\ \A p \in Profiles :
       /\ p.review \in Nat /\ p.authority \in Nat /\ p.maxMode \in ToSet(Modes)
       /\ p.envelope.severity \in ToSet(Severities)
       /\ p.envelope.objects # None => p.envelope.objects \in Nat
       /\ p.maxAge # None => p.maxAge \in Nat
       /\ Len(p.thresholds) \in Nat /\ DOMAIN p.thresholds = 1 .. Len(p.thresholds)
       /\ \A i \in DOMAIN p.thresholds : p.thresholds[i].mode \in ToSet(Modes)
       /\ \A o \in DOMAIN p.allowed : LET e == p.allowed[o] IN
            /\ e.default \in ToSet(Modes) /\ e.max \in ToSet(Modes) /\ e.review \in Nat
            /\ e.impact.severity \in ToSet(Severities)
            /\ e.impact.objects # None => e.impact.objects \in Nat
            /\ e.recovery.last # None => e.recovery.last \in Int
  /\ \A k \in DOMAIN Roots : Roots[k].notBefore \in Int /\ Roots[k].notAfter \in Int
  /\ \A S \in Submissions : \A s \in S : s.signed \in Int

VARIABLES clock,
          active,     \* the active profile
          review,     \* _publication_signoffs of the active profile, with their time
          manifest,   \* the stored manifest
          held,       \* history: the thresholds that held when it was built
          call,       \* the running propose(), reevaluate() or execute() call
          result,     \* the decision it has recorded
          dispatched  \* the recorded dispatch time

vars == <<clock, active, review, manifest, held, call, result, dispatched>>

Idle == [pc |-> "idle", now |-> 0, request |-> None]
Purposes == {"proposed", "reevaluated", "executing"}

DecisionTypeOK ==
  /\ clock \in Time
  /\ active # None => active \in Profiles
  /\ review # None => review.signoffs \in Submissions /\ review.at \in Time
  /\ manifest # None =>
       /\ manifest.from \in Profiles /\ manifest.request \in Requests
       /\ manifest.mode \in ToSet(Modes) /\ manifest.issued \in Time
  /\ call \in [pc : {"idle", "build", "authorised", "decided"} \cup Purposes,
                now : Time, request : Requests \cup {None}]
  /\ result # None => /\ result.decision \in {"ALLOW", "DENY", "INDETERMINATE"}
                      /\ result.decision = "ALLOW" <=> result.until # None

Init ==
  /\ clock = 0 /\ active = None /\ review = None
  /\ manifest = None /\ held = {} /\ call = Idle /\ result = None /\ dispatched = None

(* The wall clock may also be set back.                                     *)
Tick == /\ clock' \in Time
        /\ UNCHANGED <<active, review, manifest, held, call, result, dispatched>>
-----------------------------------------------------------------------------
(* Administration.                                                         *)

(* publish_profile(), with the sign-offs in the same transaction            *)
(* (ManagedGate; the volatile gate stores them a moment later).             *)
Publish(p) ==
  /\ \A o \in DOMAIN p.allowed : PlanIsSound(p.allowed[o].plan)
  /\ SignatureAccepted(p)
  /\ active' = p
  /\ IF RequireSignoffs
     THEN \E S \in Submissions : /\ verify_required_signoffs(p, S, Roots, clock)
                                 /\ review' = [signoffs |-> S, at |-> clock]
     ELSE review' = None
  /\ UNCHANGED <<clock, manifest, held, call, result, dispatched>>

Revoke == /\ active' = None /\ review' = None
          /\ UNCHANGED <<clock, manifest, held, call, result, dispatched>>
-----------------------------------------------------------------------------
(* Calls.                                                                  *)

Start(pc, r) == /\ call = Idle
                /\ call' = [pc |-> pc, now |-> clock, request |-> r]
                /\ result' = None
                /\ UNCHANGED <<clock, active, review, manifest, held, dispatched>>

ProposeStart(r) == manifest = None /\ Start("build", r)
Reevaluate == manifest # None /\ Start("reevaluated", None)
Execute == manifest # None /\ dispatched = None /\ Start("executing", None)

(* The first read of the profile; build_manifest(); storing the manifest.   *)
(* yes are the thresholds the provider says hold.                           *)
Build(yes, forced) ==
  /\ call.pc = "build" /\ active # None
  /\ call.request.operation \in DOMAIN active.allowed
  /\ manifest' = BuildManifest(active, call.request, yes, forced, call.now)
  /\ ManifestSchema(manifest')
  /\ held' = yes
  /\ call' = [call EXCEPT !.pc = "proposed"]
  /\ UNCHANGED <<clock, active, review, result, dispatched>>

(* No active profile, an operation without an entry or a recovery template   *)
(* or whose manifest fails the schema, or an unreachable dependency.        *)
BuildRefused ==
  /\ call.pc = "build" /\ call' = Idle
  /\ UNCHANGED <<clock, active, review, manifest, held, result, dispatched>>

ValidUntil(p, now) == Least(ReviewExpires(manifest), now + p.authority)

(* Mutant: a decision that allows nothing still says how long it is good for. *)
RecordWindow(decision, yes, no) ==
  /\ result' = [decision |-> decision, yes |-> yes, no |-> no,
                until |-> ValidUntil(manifest.from, call.now)]
  /\ call' = [call EXCEPT !.pc = IF call.pc = "executing" /\ decision = "ALLOW"
                                 THEN "authorised" ELSE "decided"]
  /\ UNCHANGED <<clock, active, review, manifest, held, dispatched>>

Record(decision, yes, no) ==
  /\ result' = [decision |-> decision, yes |-> yes, no |-> no,
                until |-> IF decision = "ALLOW" THEN ValidUntil(manifest.from, call.now)
                          ELSE None]
  /\ call' = [call EXCEPT !.pc = IF call.pc = "executing" /\ decision = "ALLOW"
                                 THEN "authorised" ELSE "decided"]
  /\ UNCHANGED <<clock, active, review, manifest, held, dispatched>>

(* _decide(): the active profile is the one of the manifest; the questions  *)
(* of the first check() are put to the provider, whose answers (yes, no, or  *)
(* none) decide the second.                                                 *)
Decide ==
  /\ call.pc \in Purposes /\ active = manifest.from
  /\ LET asked == {q \in delegated(active, manifest) : q[1] \in Resolvable} IN
     IF RulesPass(active, manifest, call.now)
     THEN \E yes \in SUBSET asked : \E no \in SUBSET (asked \ yes) :
            Record(check(active, manifest, call.now, yes, no), yes, no)
     ELSE Record("DENY", {}, {})

(* The profile has changed or gone, or a runtime restriction is in force; or  *)
(* the profile store or the ledger cannot be read.                          *)
DecideRefused == /\ call.pc \in Purposes
                 /\ \E d \in {"DENY", "INDETERMINATE"} : Record(d, {}, {})

Return == /\ call.pc = "decided" /\ call' = Idle /\ result' = None
          /\ UNCHANGED <<clock, active, review, manifest, held, dispatched>>

(* The last checks of execute() and the reservation.  The profile read after *)
(* the dependencies is the manifest's; the emergency stop still allows.      *)
Dispatch ==
  /\ call.pc = "authorised" /\ active = manifest.from /\ manifest.mode # "recommend"
  /\ call.now <= clock /\ clock < ReviewExpires(manifest) /\ clock < result.until
  /\ dispatched' = clock /\ call' = Idle /\ result' = None
  /\ UNCHANGED <<clock, active, review, manifest, held>>

ExecuteRefused == /\ call.pc = "authorised" /\ call' = Idle /\ result' = None
                  /\ UNCHANGED <<clock, active, review, manifest, held, dispatched>>

Next ==
  \/ Tick
  \/ \E p \in Profiles : Publish(p)
  \/ Revoke
  \/ \E r \in Requests : ProposeStart(r)
  \/ call.pc = "build" /\ active # None /\
       \E yes \in SUBSET {t.id : t \in ToSet(active.thresholds)}, forced \in BOOLEAN :
         Build(yes, forced)
  \/ BuildRefused \/ Reevaluate \/ Execute
  \/ Decide \/ DecideRefused \/ Return
  \/ Dispatch \/ ExecuteRefused

Spec == Init /\ [][Next]_vars
-----------------------------------------------------------------------------
(* Properties.                                                             *)

Allowed == result # None /\ result.decision = "ALLOW"
Answered(kind, name) == <<kind, name>> \in result.yes

(* What an ALLOW means, said from the policy and not from the checker: the   *)
(* operation is not prohibited, and what the profile leaves to live         *)
(* evaluation (the emergency stop, typed prohibitions, selectors and        *)
(* classes of targets, recovery evidence, open egress) was asked in this    *)
(* decision and answered yes; what nobody can answer is never allowed       *)
(* (check, _resolve).                                                       *)
AllowIsAuthorized ==
  Allowed =>
    LET p == manifest.from  r == manifest.request  e == Entry(p, r) IN
    /\ Answered("live_state", None)
    /\ ~e.opaque
    /\ \A x \in p.prohibited : /\ r.operation \notin x.operations
                               /\ x \in EnforcedProhibitions(p) /\ x.operations = {}
                                    => Answered("rule", x.id)
    /\ \A t \in TargetsOf(r) :
         \/ p.targets[t.type].by = "identifiers" /\ t.id \in p.targets[t.type].ids
         \/ Answered("selector", t.id)
    /\ e.effect.classes # None => Answered("class_membership", r.target.id)
    /\ p.testedRecovery /\ manifest.mode \in Executing =>
         Answered("recovery_evidence", None) /\ RecoveryTestInDate(p, e, call.now)
    /\ \/ e.egress = {}
       \/ p.egress.policy = "allowlisted" /\ e.egress \subseteq p.egress.allow
       \/ Answered("egress_policy", p.egress.policy)

(* "It can run higher only when a typed threshold holds, evaluated by the    *)
(* builder and again by containment" (implementation.md): an action allowed  *)
(* without approval above the default of its operation has a typed           *)
(* threshold for that operation and mode which held at construction and      *)
(* again in this very decision, and stays within both maxima.                *)
AutonomyIsEarned ==
  Allowed /\ manifest.mode \in Executing =>
    LET p == manifest.from  e == Entry(p, manifest.request) IN
    /\ ~manifest.approval /\ ~e.dual
    /\ AtMost(Modes, manifest.mode, e.max) /\ AtMost(Modes, manifest.mode, p.maxMode)
    /\ \/ AtMost(Modes, manifest.mode, e.default)
       \/ \E i \in DOMAIN p.thresholds : LET t == p.thresholds[i] IN
            /\ t.typed
            /\ t.operations # {} => manifest.request.operation \in t.operations
            /\ AtMost(Modes, manifest.mode, t.mode)
            /\ t.id \in held /\ Answered("threshold", t.id)

(* A coherent profile promises what it can keep: each operation's default is *)
(* within its maximum and that within the profile's, approvers and           *)
(* privileges are the profile's, recovery is stated as the impact is, and    *)
(* what the approver is to see are parameters of the operation.             *)
Coherent(p) ==
  /\ p.running
  /\ \A o \in DOMAIN p.allowed : LET e == p.allowed[o] IN
       /\ AtMost(Modes, e.default, e.max) /\ AtMost(Modes, e.max, p.maxMode)
       /\ e.roles \subseteq p.roles /\ e.privileges \subseteq p.privileges
       /\ e.systems \subseteq p.systems /\ ~e.opaque
       /\ e.material \subseteq e.parameters
       /\ e.recovery.irreversible = ~e.impact.reversible
       /\ e.recovery.tested /\ e.recovery.evidenced
       /\ e.dual => AtMost(Modes, e.max, "request_approval")
  /\ \A x \in p.prohibited : x.rule # "free"
  /\ \A y \in DOMAIN p.targets : p.targets[y].by # "free"

(* What the gate builds itself it does not deny: under a coherent profile, a  *)
(* manifest for a request within the profile is allowed once every question  *)
(* about it is answered yes, whatever thresholds held when it was built and  *)
(* whatever mode they and the controls in force have led to (build_manifest  *)
(* against check).  If execution needs a tested recovery, the test is to be  *)
(* in date.                                                                 *)
BuiltIsContained ==
  manifest # None =>
    LET p == manifest.from  r == manifest.request  e == Entry(p, r) IN
    (/\ Coherent(p) /\ C2(p, manifest, manifest.issued)
     /\ C4(p, r) /\ C6(p, r) /\ C7(p, r) /\ C10(p, r) /\ C15(p, r)
     /\ p.testedRecovery => RecoveryTestInDate(p, e, manifest.issued)
     /\ r.target.type = e.effect.type /\ e.effect.ids = None
     /\ e.effect.classes # None => r.target.class \in e.effect.classes
     /\ r.parameters \subseteq e.parameters /\ r.value \in e.permits)
    => check(p, manifest, manifest.issued, delegated(p, manifest), {}) = "ALLOW"

(* Delegation gives nothing away: what is allowed under a profile passes the *)
(* rules of every profile it is an attenuation of as well, and no question  *)
(* the parent asks was left out (_attenuation_errors against check).  Two    *)
(* things the comparison leaves open are excepted: the parent's expires_at,  *)
(* and thresholds of the parent that the child does not have, all of which  *)
(* must hold for an elevated mode.                                          *)
AttenuationHolds ==
  Allowed =>
    \A parent \in {p \in Profiles : Attenuated(p, manifest.from)} :
      LET same == [manifest EXCEPT !.from = parent]
          dropped == ToSet(parent.thresholds) \ ToSet(manifest.from.thresholds)
      IN /\ Expired(parent, call.now) \/ RulesPass(parent, same, call.now)
         /\ delegated(parent, same) \subseteq
              result.yes \cup {<<"threshold", t.id>> : t \in dropped}

(* A profile in force was reviewed by two different people, one for each     *)
(* part, whoever they say they are and however many keys each of them       *)
(* holds: by keys that were theirs and in force when they signed and when   *)
(* it was published (verify_required_signoffs, publish_profile).            *)
TwoPeopleReviewed ==
  active # None /\ RequireSignoffs =>
    LET by(s) == Roots[s.key].principal
        inForce(s) == LET k == Roots[s.key] IN
          /\ ~k.revoked /\ {s.signed, review.at} \subseteq k.notBefore .. (k.notAfter - 1)
    IN \E a, b \in review.signoffs :
         /\ a.part = "A" /\ b.part = "B" /\ by(a) # by(b)
         /\ \A s \in {a, b} : s.genuine /\ s.bound /\ inForce(s)

(* Completion cannot be concluded blind: the tests a stored manifest requires *)
(* for its outcome are independent of the tool, at least one, and when all   *)
(* postconditions are to hold there is one for each of them                 *)
(* (verification_errors, required_test_ids).                                *)
CompletionIsObserved ==
  manifest # None =>
    LET plan == Entry(manifest.from, manifest.request).plan
        required == {i \in DOMAIN plan.tests : plan.tests[i].id \in required_test_ids(plan)}
    IN /\ required # {} /\ \A i \in required : plan.tests[i].independent
       /\ plan.rule = "all" =>
            \A k \in 1 .. plan.postconditions : \E i \in required : plan.tests[i].index = k

(* "The child must ... not increase autonomy or lifetimes" (implementation.md, *)
(* delegation attenuation): what is allowed under an attenuation of a profile *)
(* would be allowed under that profile on the same answers.                  *)
ChildIsNoWider ==
  Allowed =>
    \A parent \in {p \in Profiles : Attenuated(p, manifest.from)} :
      LET same == [manifest EXCEPT !.from = parent]
      IN RulesPass(parent, same, call.now) /\ delegated(parent, same) \subseteq result.yes
-----------------------------------------------------------------------------
(* The invariant that carries the properties above: what is in force was      *)
(* reviewed and is sound, the manifest is what build_manifest() made of a    *)
(* profile that was in force, and the recorded decision is still true of it. *)
PlansAreSound(p) == \A o \in DOMAIN p.allowed : PlanIsSound(p.allowed[o].plan)
PublishedOK ==
  active # None =>
    /\ PlansAreSound(active)
    /\ RequireSignoffs =>
         /\ review.signoffs \in Submissions /\ review.at \in Time
         /\ verify_required_signoffs(active, review.signoffs, Roots, review.at)

ManifestOK ==
  LET p == manifest.from  r == manifest.request IN
  /\ p \in Profiles /\ r \in Requests /\ manifest.issued \in Time
  /\ r.operation \in DOMAIN p.allowed /\ PlansAreSound(p)
  /\ \E forced \in BOOLEAN : manifest = BuildManifest(p, r, held, forced, manifest.issued)
BuiltOK ==
  manifest # None \/ call.pc \in Purposes \cup {"authorised", "decided"} => ManifestOK

CallOK == call.pc = "build" => call.request \in Requests

ResultOK ==
  result # None =>
    /\ call.pc \in {"authorised", "decided"}
    /\ result.decision = "ALLOW" =>
         /\ RulesPass(manifest.from, manifest, call.now)
         /\ delegated(manifest.from, manifest) \subseteq result.yes
         /\ \A q \in result.yes : q[1] \in Resolvable

DecisionInv == DecisionTypeOK /\ PublishedOK /\ BuiltOK /\ CallOK /\ ResultOK
=============================================================================
