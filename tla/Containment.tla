----------------------------- MODULE Containment -----------------------------
(***************************************************************************)
(* What a decision of the gate is made of, as operators: the mode and plan *)
(* that build_manifest() derives, the containment rules of                 *)
(* check_containment.py, the plan semantics of verification.py and the     *)
(* two-person review of readback_signoff.py.                               *)
(*                                                                         *)
(* A profile p is a record of its contents, a request r of what the agent   *)
(* asks for.  A manifest is [from, request, mode, approval, issued]: every  *)
(* other field is copied from the profile it was built under, and check()   *)
(* is only reached with an active profile of that digest                   *)
(* (_active_profile_for), so the rules that compare copies (C1, C3, C11,    *)
(* C16, C17, and the copied parts of C4 to C10) hold and are not written.   *)
(* A group of rules is one operator.  Questions the rules leave to a live   *)
(* provider are pairs of a kind and a name.                                *)
(***************************************************************************)
EXTENDS Integers, FiniteSets, SequencesExt

CONSTANTS None,  \* the absent value
          Day    \* units of the clock in a day

Modes == <<"recommend", "request_approval", "execute_allowlisted", "conditional_autonomy">>
Severities == <<"low", "moderate", "high", "critical">>
Rank(scale, v) == CHOOSE i \in DOMAIN scale : scale[i] = v
AtMost(scale, v, w) == Rank(scale, v) <= Rank(scale, w)

Executing == {"execute_allowlisted", "conditional_autonomy"}
NeedsApproval(mode) == mode \in {"recommend", "request_approval"}
Enforcing(p) == p.level # "L0"
Signed(p) == p.level \in {"L2", "L3"}
Least(a, b) == IF a <= b THEN a ELSE b
-----------------------------------------------------------------------------
(* Verification plans.                                                     *)

Independent(plan) == {i \in DOMAIN plan.tests : plan.tests[i].independent}
TestIds(plan, S) == {plan.tests[i].id : i \in S}
Covered(plan) == {plan.tests[i].index : i \in Independent(plan)}

(* Mutant: coverage is counted over all tests.                              *)
PlanIsSoundByAnyTest(plan) ==
  /\ \A i, j \in DOMAIN plan.tests : plan.tests[i].id = plan.tests[j].id => i = j
  /\ \A i \in Independent(plan) : plan.tests[i].index \in 1 .. plan.postconditions
  /\ CASE plan.rule = "all" -> 1 .. plan.postconditions \subseteq
                                 {plan.tests[i].index : i \in DOMAIN plan.tests}
       [] plan.rule = "designated" -> plan.designated # {}
       [] OTHER -> FALSE

(* verification_errors() is empty.                                          *)
PlanIsSound(plan) ==
  /\ \A i, j \in DOMAIN plan.tests : plan.tests[i].id = plan.tests[j].id => i = j
  /\ \A i \in Independent(plan) : plan.tests[i].index \in 1 .. plan.postconditions
  /\ CASE plan.rule = "all" -> /\ plan.designated = {}
                               /\ 1 .. plan.postconditions \subseteq Covered(plan)
                               /\ Independent(plan) # {}
       [] plan.rule = "designated" ->
            /\ plan.designated # {}
            /\ plan.designated \subseteq TestIds(plan, Independent(plan))
       [] OTHER -> FALSE

required_test_ids(plan) ==
  IF plan.rule = "designated" THEN plan.designated ELSE TestIds(plan, Independent(plan))
-----------------------------------------------------------------------------
(* build_manifest().                                                       *)

Entry(p, r) == p.allowed[r.operation]
Applies(t, r) == t.typed /\ (t.operations = {} \/ r.operation \in t.operations)

(* Mutant: a threshold raises the mode beyond the maximum of the operation.  *)
BuiltModeUnbounded(p, r, yes) ==
  LET raise(mode, t) == IF Applies(t, r) /\ ~AtMost(Modes, t.mode, mode) /\ t.id \in yes
                        THEN t.mode ELSE mode
  IN FoldLeft(raise, Entry(p, r).default, p.thresholds)

(* The default of the operation, raised by the thresholds that hold now.    *)
BuiltMode(p, r, yes) ==
  LET raise(mode, t) ==
        IF /\ Applies(t, r) /\ ~AtMost(Modes, t.mode, mode)
           /\ AtMost(Modes, t.mode, Entry(p, r).max) /\ t.id \in yes
        THEN t.mode ELSE mode
  IN FoldLeft(raise, Entry(p, r).default, p.thresholds)

(* _prepare_manifest_context(): a control or campaign in force turns a mode  *)
(* that needs no approval into one that does.                               *)
PreparedMode(mode, forced) == IF forced /\ mode \in Executing THEN "request_approval" ELSE mode

BuildManifest(p, r, yes, forced, now) ==
  LET mode == PreparedMode(BuiltMode(p, r, yes), forced)
  IN [from |-> p, request |-> r, mode |-> mode, approval |-> NeedsApproval(mode), issued |-> now]

(* What the manifest schema asks of the contents of a manifest, before it is *)
(* stored.  The statement of the blast radius is a template: impact.blast is *)
(* the placeholder it consists of (None if it has text of its own), `blank'  *)
(* are the placeholders that the request leaves empty.                      *)
ManifestSchema(m) ==
  LET e == Entry(m.from, m.request) IN
  /\ e.impact.blast \notin m.request.blank
  /\ e.impact.objects # None
  /\ ~e.impact.reversible => e.recovery.irreversible
  /\ m.approval => e.roles # {}

ReviewExpires(m) == m.issued + Least(m.from.review, Entry(m.from, m.request).review)
-----------------------------------------------------------------------------
(* The rules.                                                              *)

Expired(p, at) == p.expires # None /\ at >= p.expires
C2(p, m, at) == m.issued <= at /\ at < ReviewExpires(m) /\ ~Expired(p, at)

TargetsOf(r) == {r.target} \cup (IF r.subject = None THEN {} ELSE {r.subject})
C4(p, r) ==
  /\ Entry(p, r).systems \subseteq p.systems
  /\ \A t \in TargetsOf(r) :
       /\ t.system \in p.systems
       /\ t.type \in DOMAIN p.targets
       /\ LET spec == p.targets[t.type] IN
            CASE spec.by = "identifiers" -> t.id \in spec.ids
              [] spec.by = "typed" -> TRUE
              [] OTHER -> ~Enforcing(p)

C5(p, m) ==
  LET r == m.request  e == Entry(p, r) IN
  /\ r.parameters \subseteq e.parameters
  /\ r.value \in e.permits
  /\ AtMost(Modes, m.mode, e.max)
  /\ r.target.type = e.effect.type
  /\ e.effect.ids # None => r.target.id \in e.effect.ids
  /\ e.effect.classes # None => r.target.class \in e.effect.classes
  /\ e.material \subseteq e.parameters

(* A prohibition names operations (wildcards included) or a rule.           *)
EnforcedProhibitions(p) == {x \in p.prohibited : x.operations # {} \/ x.rule = "typed"}
C6(p, r) ==
  \A x \in p.prohibited :
    /\ r.operation \notin x.operations
    /\ x.operations = {} /\ x.rule = "free" => ~Enforcing(p)

C7(p, r) ==
  LET i == Entry(p, r).impact  e == p.envelope IN
  /\ i.domains \subseteq e.domains
  /\ AtMost(Severities, i.severity, e.severity)
  /\ i.objects # None /\ e.objects # None /\ i.objects <= e.objects
  /\ i.blast \notin r.blank
  /\ i.reversible \/ e.irreversible

(* Elevated: an executing mode, without approval, above the default of the   *)
(* operation; Tiers are the typed thresholds that must all hold for it.      *)
Elevated(p, m) == /\ m.mode \in Executing /\ ~m.approval
                  /\ ~AtMost(Modes, m.mode, Entry(p, m.request).default)
Tiers(p, m) ==
  {t \in ToSet(p.thresholds) : Applies(t, m.request) /\ AtMost(Modes, m.mode, t.mode)}
C8(p, m) ==
  /\ AtMost(Modes, m.mode, p.maxMode)
  /\ m.approval => Entry(p, m.request).roles \subseteq p.roles
  /\ Entry(p, m.request).dual => m.approval
  /\ Elevated(p, m) /\ Tiers(p, m) = {} => ~Enforcing(p)

C9(p, r) == Entry(p, r).privileges \subseteq p.privileges

C10(p, r) ==
  LET fields == Entry(p, r).egress IN
  /\ p.egress.policy = "none" => fields = {}
  /\ p.egress.policy = "allowlisted" => fields \subseteq p.egress.allow
  /\ fields \cap p.egress.never = {}

C12(p) == p.running

NeedsTestedRecovery(p, m) == p.testedRecovery /\ m.mode \in Executing
(* A test of the recovery that bears a date is counted in days from its start. *)
RecoveryTestInDate(p, e, at) ==
  e.recovery.last # None =>
    LET age == (at - e.recovery.last) \div Day
    IN age >= 0 /\ (p.maxAge # None => age <= p.maxAge)
C13(p, m, at) ==
  LET e == Entry(p, m.request) IN
  /\ NeedsTestedRecovery(p, m) =>
       e.recovery.tested /\ e.recovery.evidenced /\ RecoveryTestInDate(p, e, at)
  /\ e.recovery.irreversible = ~e.impact.reversible

C14(p, m) ==
  LET plan == Entry(p, m.request).plan IN
  /\ PlanIsSound(plan)
  /\ Signed(p) \/ m.mode \in Executing => Independent(plan) # {}

C15(p, r) == r.untrusted \subseteq p.untrusted

RulesPass(p, m, at) ==
  LET r == m.request IN
  C2(p, m, at) /\ C4(p, r) /\ C5(p, m) /\ C6(p, r) /\ C7(p, r) /\ C8(p, m) /\ C9(p, r)
  /\ C10(p, r) /\ C12(p) /\ C13(p, m, at) /\ C14(p, m) /\ C15(p, r)

(* Mutant: a threshold that held at construction is not asked for again.    *)
ThresholdQuestionsOnce(p, m) ==
  IF Elevated(p, m) /\ Tiers(p, m) = {} THEN {<<"thresholds", None>>} ELSE {}

ThresholdQuestions(p, m) ==
  IF ~Elevated(p, m) THEN {}
  ELSE IF Tiers(p, m) = {} THEN {<<"thresholds", None>>}
  ELSE {<<"threshold", t.id>> : t \in Tiers(p, m)}

(* The delegated checks of a manifest that passes the rules.                *)
delegated(p, m) ==
  LET r == m.request  e == Entry(p, r) IN
  {<<"live_state", None>>}
  \cup {<<IF p.targets[t.type].by = "typed" THEN "selector" ELSE "free_selector", t.id>> :
          t \in {u \in TargetsOf(r) : p.targets[u.type].by # "identifiers"}}
  \cup (IF e.opaque THEN {<<"constraint", None>>} ELSE {})
  \cup (IF e.effect.classes # None THEN {<<"class_membership", r.target.id>>} ELSE {})
  \cup {<<IF x.rule = "typed" THEN "rule" ELSE "free_rule", x.id>> :
          x \in {y \in p.prohibited : /\ y.operations = {}
                                      /\ \/ y.rule \in {"typed", "free"}
                                         \/ y.rule = "none" /\ ~Enforcing(p)}}
  \cup ThresholdQuestions(p, m)
  \cup (IF p.egress.policy \notin {"none", "allowlisted"}
        THEN {<<"egress_policy", p.egress.policy>>} ELSE {})
  \cup (IF NeedsTestedRecovery(p, m) THEN {<<"recovery_evidence", None>>} ELSE {})

(* What _resolve() can put to a provider; the rest stays unresolved.         *)
Resolvable == {"live_state", "selector", "class_membership", "rule", "threshold",
               "egress_policy", "recovery_evidence"}

(* Mutant: what no provider was asked about does not keep from running.      *)
decisionOnAnswered(p, m, at, yes, no) ==
  IF ~RulesPass(p, m, at) THEN "DENY"
  ELSE IF delegated(p, m) \cap no # {} THEN "DENY"
  ELSE IF {d \in delegated(p, m) : d[1] \in Resolvable} \subseteq yes THEN "ALLOW"
  ELSE "INDETERMINATE"

(* check(), given which delegated checks were resolved as passed or failed.  *)
check(p, m, at, yes, no) ==
  IF ~RulesPass(p, m, at) THEN "DENY"
  ELSE IF delegated(p, m) \cap no # {} THEN "DENY"
  ELSE IF delegated(p, m) \subseteq yes THEN "ALLOW"
  ELSE "INDETERMINATE"
-----------------------------------------------------------------------------
(* Delegation: _attenuation_errors(parent, child) of v4.py is empty.  A type *)
(* of target has one specification; the references and documents that must  *)
(* be equal and have no part in a decision are left out.                    *)

SharedBoundaries(p) ==
  <<p.roles, p.untrusted, p.egress, p.testedRecovery, p.maxAge, p.running, p.level>>

(* Mutant: the prohibitions are compared the wrong way round.               *)
DropsNoProhibitionSwapped(parent, child) == child.prohibited \subseteq parent.prohibited

DropsNoProhibition(parent, child) == parent.prohibited \subseteq child.prohibited

Attenuated(parent, child) ==
  /\ child.systems \subseteq parent.systems
  /\ IsRestriction(child.targets, parent.targets) /\ IsRestriction(child.allowed, parent.allowed)
  /\ AtMost(Modes, child.maxMode, parent.maxMode)
  /\ ToSet(child.thresholds) \subseteq ToSet(parent.thresholds)
  /\ child.authority <= parent.authority /\ child.review <= parent.review
  /\ LET c == child.envelope  e == parent.envelope IN
       /\ AtMost(Severities, c.severity, e.severity) /\ c.domains \subseteq e.domains
       /\ c.objects # None /\ e.objects # None /\ c.objects <= e.objects
       /\ c.irreversible => e.irreversible
  /\ DropsNoProhibition(parent, child)
  /\ child.privileges \subseteq parent.privileges
  /\ SharedBoundaries(child) = SharedBoundaries(parent)
-----------------------------------------------------------------------------
(* Read-back sign-off.  A trust root binds a key to a principal, roles,      *)
(* parts and a period.  A record is bound to the profile and read-back it    *)
(* names, or to others; it is genuine if the key's signature verifies.       *)

PartRoles == [A |-> {"product_owner"}, B |-> {"engineering"},
              profile |-> {"product_owner", "engineering"}]

KeyInForce(root, s, at) ==
  /\ ~root.revoked
  /\ root.notBefore <= s.signed /\ root.notBefore <= at
  /\ s.signed < root.notAfter /\ at < root.notAfter

verify_readback_signoff(p, s, roots, at) ==
  /\ s.bound /\ s.genuine
  /\ p.issued <= s.signed /\ s.signed <= at /\ ~Expired(p, s.signed)
  /\ s.key \in DOMAIN roots
  /\ LET root == roots[s.key] IN
       /\ KeyInForce(root, s, at)
       /\ root.principal = s.principal
       /\ s.role \in root.roles \cap PartRoles[s.part]
       /\ s.part \in root.parts

(* Mutant: two parts signed with two keys are taken for two people.          *)
verify_required_signoffs_by_key(p, S, roots, at) ==
  /\ \A s \in S : verify_readback_signoff(p, s, roots, at)
  /\ \E a, b \in S : a.part = "A" /\ b.part = "B" /\ a.key # b.key

(* A single supplied record that is invalid fails the whole publication.     *)
verify_required_signoffs(p, S, roots, at) ==
  /\ \A s \in S : verify_readback_signoff(p, s, roots, at)
  /\ \E a, b \in S : a.part = "A" /\ b.part = "B" /\ a.principal # b.principal

(* _verify_profile_signature(): "invalid" is a signature that does not verify *)
(* against a trust root of its key and method.                              *)
SignatureAccepted(p) ==
  /\ p.integrity \in {"none", "ed25519", "hmac"}
  /\ Signed(p) => p.integrity = "ed25519"
=============================================================================
