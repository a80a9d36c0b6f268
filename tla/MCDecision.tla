------------------------------ MODULE MCDecision ------------------------------
(* Profiles, requests and sign-offs for model checking.  Each profile varies *)
(* one well-formed profile in the part its name says.                       *)
EXTENDS Decision

Spread(tests) == [postconditions |-> 2, rule |-> "all", designated |-> {}, tests |-> tests]
Test(name, independent, index) == [id |-> name, independent |-> independent, index |-> index]

EntryBase ==
  [default |-> "execute_allowlisted", max |-> "conditional_autonomy", review |-> 2,
   systems |-> {"crm"}, parameters |-> {"size"}, material |-> {"size"}, permits |-> {"small"}, opaque |-> FALSE,
   effect |-> [type |-> "record", ids |-> None, classes |-> None],
   roles |-> {"owner"}, dual |-> FALSE, privileges |-> {"write"}, egress |-> {},
   impact |-> [domains |-> {"data"}, severity |-> "low", objects |-> 1, blast |-> None,
               reversible |-> TRUE],
   recovery |-> [tested |-> TRUE, evidenced |-> TRUE, last |-> None, irreversible |-> FALSE],
   plan |-> Spread(<<Test("a", TRUE, 1), Test("b", TRUE, 2), Test("c", FALSE, 2)>>)]

Threshold(id, mode, typed) == [id |-> id, mode |-> mode, operations |-> {"op"}, typed |-> typed]
Prohibit(id, operations, rule) == [id |-> id, operations |-> operations, rule |-> rule]

Base ==
  [level |-> "L2", issued |-> 0, expires |-> None, review |-> 1, authority |-> 1,
   systems |-> {"crm"}, targets |-> [record |-> [by |-> "identifiers", ids |-> {"x"}]],
   allowed |-> [op |-> EntryBase],
   prohibited |-> {Prohibit("drop", {"drop"}, "none"), Prohibit("tone", {}, "documented")},
   envelope |-> [domains |-> {"data"}, severity |-> "moderate", objects |-> 5, irreversible |-> FALSE],
   maxMode |-> "conditional_autonomy", thresholds |-> <<>>, roles |-> {"owner"},
   privileges |-> {"write"}, egress |-> [policy |-> "none", allow |-> {}, never |-> {"ssn"}],
   running |-> TRUE, testedRecovery |-> FALSE, maxAge |-> None, untrusted |-> {}, integrity |-> "ed25519"]

With(e) == [Base EXCEPT !.allowed = [op |-> e]]
Unsigned(p) == [p EXCEPT !.level = "L1", !.integrity = "none"]

Tiered == [With([EntryBase EXCEPT !.default = "request_approval"]) EXCEPT
             !.thresholds = <<Threshold("t1", "execute_allowlisted", TRUE),
                              Threshold("t2", "conditional_autonomy", TRUE)>>]
Bounded == [With([EntryBase EXCEPT !.default = "request_approval",
                                   !.max = "execute_allowlisted"]) EXCEPT
              !.thresholds = Tiered.thresholds]
DocumentedThreshold ==
  Unsigned([Tiered EXCEPT !.thresholds = <<Threshold("t3", "execute_allowlisted", FALSE)>>])
Opaque == With([EntryBase EXCEPT !.opaque = TRUE])
Live == [With([EntryBase EXCEPT !.egress = {"name"}]) EXCEPT
           !.targets = [record |-> [by |-> "typed", ids |-> {}]],
           !.prohibited = {Prohibit("quiet", {}, "typed")},
           !.egress = [policy |-> "summary", allow |-> {}, never |-> {"ssn"}]]
(* The recovery test of Proven is too old from time 1 on; the one of Planned *)
(* lies in the future before.                                               *)
Proven == [With([EntryBase EXCEPT !.effect.classes = {"test"}, !.egress = {"name"},
                                  !.recovery.last = -1]) EXCEPT
             !.testedRecovery = TRUE, !.maxAge = 1,
             !.egress = [policy |-> "allowlisted", allow |-> {"name"}, never |-> {"ssn"}]]
Planned == [With([EntryBase EXCEPT !.recovery.last = 1]) EXCEPT !.testedRecovery = TRUE]
Undeclared == With([EntryBase EXCEPT !.material = {"size", "colour"}])
Nameless == With([EntryBase EXCEPT !.impact.blast = "subject"])
FreeText == [Base EXCEPT !.level = "L0", !.integrity = "none",
                         !.targets = [record |-> [by |-> "free", ids |-> {}]],
                         !.prohibited = {Prohibit("mood", {}, "free")}]
Forbidden == [Base EXCEPT !.prohibited = @ \cup {Prohibit("all", {"op"}, "none")}]
(* Attenuations of Base and of Tiered; Base itself is one of Expiring.       *)
Careful == [Base EXCEPT !.prohibited = @ \cup {Prohibit("quiet", {}, "typed")},
                        !.envelope.severity = "low", !.authority = 0]
Lower == [Tiered EXCEPT !.thresholds = <<Threshold("t1", "execute_allowlisted", TRUE)>>]
Dual == Unsigned(With([EntryBase EXCEPT !.dual = TRUE]))
Expiring == [Base EXCEPT !.expires = 1, !.review = 2, !.authority = 2]
Blind == With([EntryBase EXCEPT !.plan = Spread(<<Test("a", TRUE, 1), Test("c", FALSE, 2)>>)])
Designated == With([EntryBase EXCEPT !.plan =
                      [Blind.allowed.op.plan EXCEPT !.rule = "designated", !.designated = {"a"}]])

MCProfiles == {Base, Tiered, Bounded, DocumentedThreshold, Opaque, Live, Proven, FreeText,
               Planned, Undeclared, Nameless, Forbidden, Careful, Lower, Dual, Expiring,
               Blind, Designated}

Ask(value, untrusted) ==
  [operation |-> "op", parameters |-> {"size"}, value |-> value, subject |-> None,
   blank |-> {"subject"},
   target |-> [type |-> "record", id |-> "x", system |-> "crm", class |-> "test"],
   untrusted |-> untrusted]
MCRequests == {Ask("small", {}), Ask("large", {"mail"})}

Says(key, part, role, principal, signed) ==
  [key |-> key, part |-> part, role |-> role, principal |-> principal,
   bound |-> TRUE, genuine |-> TRUE, signed |-> signed]
(* Alice holds two keys; Bob's may sign for his part from time 1 on; Carol's *)
(* is no longer in force then.                                              *)
ByAlice == Says("alice", "A", "product_owner", "alice", 0)
MCSubmissions == {{ByAlice, Says("alice2", "B", "engineering", "alice", 0)},
                  {ByAlice, Says("bob", "B", "engineering", "bob", 1)},
                  {ByAlice, Says("carol", "B", "engineering", "carol", 0)}}
Root(principal, roles, parts, from, to) ==
  [principal |-> principal, roles |-> roles, parts |-> parts, notBefore |-> from,
   notAfter |-> to, revoked |-> FALSE]
MCRoots == [alice |-> Root("alice", {"product_owner"}, {"A"}, 0, 9),
            alice2 |-> Root("alice", {"engineering"}, {"B"}, 0, 9),
            bob |-> Root("bob", {"engineering"}, {"B"}, 1, 9),
            carol |-> Root("carol", {"engineering"}, {"B"}, 0, 1)]
=============================================================================
