------------------------------ MODULE Feedback ------------------------------
(***************************************************************************)
(* Governed feedback (feedback.py) as operators on a control state, which  *)
(* ManagedGate keeps in memory and on disk: signals trip holds, holds are  *)
(* restored by hand, and every change of a scope moves its epoch, so that  *)
(* a proposal made under an older control state can be told apart even     *)
(* when the same holds are in force again.                                 *)
(*                                                                         *)
(* One profile.  A hold (restriction) is identified by its rule, its scope *)
(* key and its number: at most one per rule and key is active at a time.   *)
(* The wall clock is abstracted: any incident of a window may have aged.   *)
(***************************************************************************)
EXTENDS Naturals, FiniteSets

CONSTANTS Actions,         \* business actions
          Operations,      \* tool operations
          OperationOf,     \* the operation an action uses
          WholeProfile,    \* the scope key of the profile itself
          Rules,           \* the feedback policy
          RuleSignal, RuleScope, RuleMode, RuleThreshold,
          None

Signals == {"EXECUTION_UNKNOWN", "EVIDENCE_CONFLICT", "VERIFICATION_FAILED",
            "EVALUATION_REGRESSION", "ADAPTER_MISMATCH", "OVERDUE_EXECUTION",
            "OVERDUE_VERIFICATION"}
ControlModes == {"NORMAL", "REQUIRE_APPROVAL", "SUSPENDED"}

ASSUME FeedbackAssumption ==
  /\ OperationOf \in [Actions -> Operations]
  /\ WholeProfile \notin Operations \cup Actions
  /\ Operations \cap Actions = {}
  /\ None \notin Actions /\ IsFiniteSet(Rules)
  /\ RuleSignal \in [Rules -> Signals]
  /\ RuleScope \in [Rules -> {"profile", "operation", "action"}]
  /\ RuleMode \in [Rules -> {"REQUIRE_APPROVAL", "SUSPENDED"}]
  /\ RuleThreshold \in [Rules -> Nat \ {0}]

ScopeKeys == {WholeProfile} \cup Operations \cup Actions
Holds     == Rules \X ScopeKeys
HoldRecord == [active : BOOLEAN, number : Nat]

(* scope_key: the keys whose holds and epochs concern an action.            *)
KeysOf(a) == {WholeProfile, OperationOf[a], a}

(* An event carries the operation, the action if it is about one, and the   *)
(* incident (the execution, or the signal itself) it is evidence of.        *)
Event(signal, operation, action, incident) ==
  [signal |-> signal, operation |-> operation, action |-> action, incident |-> incident]

empty_control ==
  [holds   |-> [h \in Holds |-> [active |-> FALSE, number |-> 0]],
   windows |-> [h \in Holds |-> {}],
   epochs  |-> [k \in ScopeKeys |-> 0]]

(* The scope key a rule applies an event to.                                *)
ScopeOf(rule, ev) == IF RuleScope[rule] = "profile" THEN WholeProfile
                     ELSE IF RuleScope[rule] = "action" /\ ev.action # None THEN ev.action
                     ELSE ev.operation

(* process(): one event, in the transaction that records it.  `aged' are    *)
(* the incidents that have left the window of their rule.                   *)
Window(control, h, ev, aged) == (control.windows[h] \ aged) \cup {ev.incident}
Concerns(h, ev) == RuleSignal[h[1]] = ev.signal /\ h[2] = ScopeOf(h[1], ev)
Trips(control, h, ev, aged) ==
  /\ Concerns(h, ev)
  /\ ~control.holds[h].active
  /\ Cardinality(Window(control, h, ev, aged)) >= RuleThreshold[h[1]]

process(control, ev, aged) ==
  [holds   |-> [h \in Holds |-> IF Trips(control, h, ev, aged)
                                THEN [active |-> TRUE, number |-> control.holds[h].number + 1]
                                ELSE control.holds[h]],
   windows |-> [h \in Holds |-> IF Concerns(h, ev) THEN Window(control, h, ev, aged)
                                ELSE control.windows[h]],
   epochs  |-> [k \in ScopeKeys |-> control.epochs[k] +
                  Cardinality({h \in Holds : h[2] = k /\ Trips(control, h, ev, aged)})]]

(* restore(): a fresh incident after it must be able to trip the rule again. *)
RestoreHold(control, h) ==
  [control EXCEPT !.holds[h].active = FALSE,
                  !.windows[h] = {},
                  !.epochs[h[2]] = @ + 1]

(* context(): what a proposal is bound to.                                  *)
ActiveHolds(control, a) == {h \in Holds : control.holds[h].active /\ h[2] \in KeysOf(a)}
ModeOf(control, a) ==
  LET modes == {RuleMode[h[1]] : h \in ActiveHolds(control, a)}
  IN IF "SUSPENDED" \in modes THEN "SUSPENDED"
     ELSE IF "REQUIRE_APPROVAL" \in modes THEN "REQUIRE_APPROVAL" ELSE "NORMAL"
context(control, a) ==
  [mode   |-> ModeOf(control, a),
   epochs |-> {<<k, control.epochs[k]>> : k \in KeysOf(a)},
   holds  |-> {<<h, control.holds[h].number>> : h \in ActiveHolds(control, a)}]
=============================================================================
