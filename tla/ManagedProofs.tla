--------------------------- MODULE ManagedProofs ---------------------------
(***************************************************************************)
(* Proofs about the managed gate, for every value of the constants: any    *)
(* number of faults, threads, actions and rules.                           *)
(*                                                                         *)
(* The argument.  Every ledger the gate computes is again consistent       *)
(* (LedgerOK): feedback only adds holds and moves the epochs of the scopes *)
(* it changes (ControlGrows), and only a recovery or a thread touches a     *)
(* record.  A transaction leaves both ledgers where they were or moves     *)
(* them to that one, so that what a failed gate has in memory and what is   *)
(* durable are each consistent, and the threads (ThreadOK) are bound to     *)
(* both by the call they carry.                                            *)
(***************************************************************************)
EXTENDS ManagedGate, FoldProofs

USE FeedbackAssumption, ManagedAssumption, NoneAssumption, FiniteAssumption
-----------------------------------------------------------------------------
(* The control state.                                                      *)

(* Between c and n, a scope whose epoch has not moved has the same holds.    *)
ControlGrows(c, n) ==
  \A k \in ScopeKeys :
    /\ c.epochs[k] <= n.epochs[k]
    /\ n.epochs[k] = c.epochs[k] =>
         \A h \in Holds : h[2] = k => n.holds[h] = c.holds[h]
HoldsKept(c, n) == \A h \in Holds : c.holds[h].active => n.holds[h].active

LEMMA GrowsTrans ==
  ASSUME NEW b \in Control, NEW c \in Control, NEW d \in Control,
         ControlGrows(b, c), ControlGrows(c, d)
  PROVE  ControlGrows(b, d)
<1> SUFFICES ASSUME NEW k \in ScopeKeys
             PROVE  /\ b.epochs[k] <= d.epochs[k]
                    /\ d.epochs[k] = b.epochs[k] =>
                         \A h \in Holds : h[2] = k => d.holds[h] = b.holds[h]
  BY DEF ControlGrows
<1>1. b.epochs[k] \in Nat /\ c.epochs[k] \in Nat /\ d.epochs[k] \in Nat BY DEF Control
<1>2. b.epochs[k] <= c.epochs[k] /\ c.epochs[k] <= d.epochs[k] BY DEF ControlGrows
<1>3. ASSUME d.epochs[k] = b.epochs[k] PROVE d.epochs[k] = c.epochs[k] /\ c.epochs[k] = b.epochs[k]
  BY <1>1, <1>2, <1>3
<1> QED BY <1>1, <1>2, <1>3 DEF ControlGrows

LEMMA SameControl == ASSUME NEW c \in Control PROVE ControlGrows(c, c) /\ HoldsKept(c, c)
BY DEF ControlGrows, HoldsKept, Control

(* One hold per rule and key: the holds on a key are finitely many.          *)
LEMMA HoldsOnKey ==
  ASSUME NEW k \in ScopeKeys, NEW T, T \subseteq {h \in Holds : h[2] = k}
  PROVE  IsFiniteSet(T) /\ Cardinality(T) \in Nat /\ (T # {} => Cardinality(T) # 0)
<1>1. IsFiniteSet(Rules \X {k}) BY FS_Singleton, FS_Product
<1>2. T \in SUBSET (Rules \X {k}) BY DEF Holds
<1>3. IsFiniteSet(T) BY <1>1, <1>2, FS_Subset
<1> QED BY <1>3, FS_CardinalityType, FS_EmptySet

LEMMA ProcessControl ==
  ASSUME NEW c \in Control, NEW ev, ev.incident \in Incidents, NEW aged
  PROVE  /\ process(c, ev, aged) \in Control
         /\ ControlGrows(c, process(c, ev, aged))
         /\ HoldsKept(c, process(c, ev, aged))
<1>1. PICK n : n = process(c, ev, aged) OBVIOUS
<1>2. /\ n = [holds |-> n.holds, windows |-> n.windows, epochs |-> n.epochs]
      /\ n.holds = [h \in Holds |-> IF Trips(c, h, ev, aged)
                      THEN [active |-> TRUE, number |-> c.holds[h].number + 1]
                      ELSE c.holds[h]]
      /\ n.windows = [h \in Holds |-> IF Concerns(h, ev) THEN Window(c, h, ev, aged)
                                      ELSE c.windows[h]]
      /\ n.epochs = [k \in ScopeKeys |-> c.epochs[k] +
                      Cardinality({h \in Holds : h[2] = k /\ Trips(c, h, ev, aged)})]
  BY <1>1 DEF process
<1>3. /\ c.holds \in [Holds -> HoldRecord]
      /\ c.windows \in [Holds -> SUBSET Incidents]
      /\ c.epochs \in [ScopeKeys -> Nat]
  BY DEF Control
<1>4. n.holds \in [Holds -> HoldRecord] BY <1>2, <1>3 DEF HoldRecord
<1>5. n.windows \in [Holds -> SUBSET Incidents] BY <1>2, <1>3 DEF Window
<1>6. ASSUME NEW k \in ScopeKeys
      PROVE  /\ n.epochs[k] \in Nat /\ c.epochs[k] <= n.epochs[k]
             /\ n.epochs[k] = c.epochs[k] =>
                  \A h \in Holds : h[2] = k => n.holds[h] = c.holds[h]
  <2> DEFINE T == {h \in Holds : h[2] = k /\ Trips(c, h, ev, aged)}
  <2>1. Cardinality(T) \in Nat /\ (T # {} => Cardinality(T) # 0) BY HoldsOnKey
  <2>2. n.epochs[k] = c.epochs[k] + Cardinality(T) BY <1>2
  <2>3. c.epochs[k] \in Nat BY <1>3
  <2>4. T = {} => \A h \in Holds : h[2] = k => n.holds[h] = c.holds[h] BY <1>2
  <2> HIDE DEF T
  <2> QED BY <2>1, <2>2, <2>3, <2>4
<1>7. n.epochs \in [ScopeKeys -> Nat] BY <1>2, <1>6
<1>8. n \in Control BY <1>2, <1>4, <1>5, <1>7 DEF Control
<1>9. HoldsKept(c, n) BY <1>2 DEF HoldsKept
<1> QED BY <1>1, <1>6, <1>8, <1>9 DEF ControlGrows

LEMMA IncidentsFinite == \A T \in SUBSET Incidents : IsFiniteSet(T)
<1>1. IsFiniteSet(Incidents) BY FS_Union DEF Incidents
<1> QED BY <1>1, FS_Subset

(* A rule with a threshold of one trips on its first event.                  *)
LEMMA FirstTrips ==
  ASSUME NEW c \in Control, NEW ev, ev.incident \in Incidents, NEW aged,
         NEW h \in Holds, Concerns(h, ev), RuleThreshold[h[1]] = 1
  PROVE  process(c, ev, aged).holds[h].active
<1> DEFINE W == Window(c, h, ev, aged)
<1>1. W \in SUBSET Incidents /\ W # {} BY DEF Window, Control
<1>2. IsFiniteSet(W) BY <1>1, IncidentsFinite
<1>3. Cardinality(W) \in Nat /\ Cardinality(W) # 0
  <2> HIDE DEF W
  <2> QED BY <1>1, <1>2, FS_CardinalityType, FS_EmptySet
<1>4. Cardinality(W) >= 1 BY <1>3
<1>5. c.holds[h].active \in BOOLEAN BY DEF Control, HoldRecord
<1>6. ~c.holds[h].active => Trips(c, h, ev, aged) BY <1>4 DEF Trips
<1>7. process(c, ev, aged).holds =
        [g \in Holds |-> IF Trips(c, g, ev, aged)
           THEN [active |-> TRUE, number |-> c.holds[g].number + 1] ELSE c.holds[g]]
  BY DEF process
<1> QED BY <1>6, <1>7

LEMMA RestoreControl ==
  ASSUME NEW c \in Control, NEW h \in Holds
  PROVE  /\ RestoreHold(c, h) \in Control
         /\ ControlGrows(c, RestoreHold(c, h))
         /\ \A g \in Holds : g # h => RestoreHold(c, h).holds[g] = c.holds[g]
<1>1. PICK n : n = RestoreHold(c, h) OBVIOUS
<1>2. h[2] \in ScopeKeys BY DEF Holds
<1>3. /\ n = [holds |-> n.holds, windows |-> n.windows, epochs |-> n.epochs]
      /\ n.holds = [c.holds EXCEPT ![h].active = FALSE]
      /\ n.windows = [c.windows EXCEPT ![h] = {}]
      /\ n.epochs = [c.epochs EXCEPT ![h[2]] = @ + 1]
  BY <1>1 DEF RestoreHold, Control
<1>4. /\ c.holds \in [Holds -> HoldRecord]
      /\ c.windows \in [Holds -> SUBSET Incidents]
      /\ c.epochs \in [ScopeKeys -> Nat]
  BY DEF Control
<1>5. n.holds \in [Holds -> HoldRecord]
  <2>1. ASSUME NEW r \in HoldRecord PROVE [r EXCEPT !.active = FALSE] \in HoldRecord
    BY DEF HoldRecord
  <2> QED BY <1>3, <1>4, <2>1
<1>6. n.windows \in [Holds -> SUBSET Incidents] BY <1>3, <1>4
<1>7. n.epochs \in [ScopeKeys -> Nat] BY <1>2, <1>3, <1>4
<1>8. n \in Control BY <1>3, <1>5, <1>6, <1>7 DEF Control
<1>9. \A g \in Holds : g # h => n.holds[g] = c.holds[g] BY <1>3, <1>4
<1>10. ControlGrows(c, n) BY <1>2, <1>3, <1>4, <1>9 DEF ControlGrows
<1> QED BY <1>1, <1>8, <1>9, <1>10
-----------------------------------------------------------------------------
(* Ledgers.                                                                *)

LEMMA LedgerFields ==
  ASSUME NEW l \in Ledgers
  PROVE  /\ l.profile \in Versions \cup {None}
         /\ l.adapter.version \in AdapterVersions \cup {None}
         /\ l.adapter.revision \in 0 .. MaxAdmin /\ l.adapter.revision \in Nat
         /\ l.manifests \in [Manifests -> ManifestRecord \cup {None}]
         /\ l.executions \in [Executions -> ExecutionRecord \cup {None}]
         /\ l.dispatches \in [Actions -> Executions \cup {None}]
         /\ l.signals \in SUBSET ExternalSignals
         /\ l.watched \in SUBSET (Executions \X Signals)
         /\ l.control \in Control
BY DEF Ledgers

LEMMA ManifestFields ==
  ASSUME NEW r \in ManifestRecord
  PROVE  /\ r # None /\ r.action \in Actions /\ r.profile \in Versions
         /\ r.context \in ContextRecord
         /\ r.adapter \in Nat
         /\ r.version \in AdapterVersions \cup {None}
         /\ r.approval \in BOOLEAN
         /\ \A p \in r.context.epochs : p[1] \in ScopeKeys /\ p[2] \in Nat
BY DEF ManifestRecord, ContextRecord

LEMMA ExecutionFields ==
  ASSUME NEW x \in ExecutionRecord
  PROVE  /\ x # None /\ x.manifest \in Manifests /\ x.state \in States
         /\ x = [manifest |-> x.manifest, state |-> x.state]
BY DEF ExecutionRecord

(* The record of a reservation, and its manifest.                            *)
LEMMA ReservedFields ==
  ASSUME NEW l \in Ledgers, NEW e \in Executions, Reserved(l, e)
  PROVE  l.executions[e] \in ExecutionRecord /\ l.executions[e].manifest \in Manifests
BY LedgerFields, ExecutionFields DEF Reserved, StateOf

LEMMA ReservedManifest ==
  ASSUME NEW l \in Ledgers, ReservationsOK(l), NEW e \in Executions, Reserved(l, e)
  PROVE  /\ l.manifests[l.executions[e].manifest] \in ManifestRecord
         /\ l.dispatches[l.manifests[l.executions[e].manifest].action] = e
<1>1. l.executions[e].manifest \in Manifests BY ReservedFields
<1> QED BY <1>1, LedgerFields DEF ReservationsOK

(* Between l and n, no reservation is made or taken back, and what a         *)
(* reservation is for is not changed.                                       *)
KeepsRecords(l, n) ==
  /\ n.dispatches = l.dispatches
  /\ \A m \in Manifests : l.manifests[m] # None => n.manifests[m] = l.manifests[m]
  /\ \A e \in Executions :
       /\ Reserved(n, e) <=> Reserved(l, e)
       /\ Reserved(l, e) => n.executions[e].manifest = l.executions[e].manifest

LEMMA KeptManifest ==
  ASSUME NEW l \in Ledgers, NEW n, KeepsRecords(l, n), ReservationsOK(l),
         NEW e \in Executions, Reserved(l, e)
  PROVE  /\ Reserved(n, e)
         /\ n.executions[e].manifest = l.executions[e].manifest
         /\ n.manifests[n.executions[e].manifest] = l.manifests[l.executions[e].manifest]
<1>1. l.executions[e].manifest \in Manifests BY ReservedFields
<1>2. l.manifests[l.executions[e].manifest] # None BY DEF ReservationsOK
<1> QED BY <1>1, <1>2 DEF KeepsRecords

LEMMA ReservationsKept ==
  ASSUME NEW l \in Ledgers, NEW n, KeepsRecords(l, n), ReservationsOK(l)
  PROVE  ReservationsOK(n)
<1>1. ASSUME NEW e \in Executions, Reserved(n, e)
      PROVE  LET r == n.manifests[n.executions[e].manifest]
             IN r # None /\ n.dispatches[r.action] = e
  <2>1. Reserved(l, e) BY <1>1 DEF KeepsRecords
  <2>2. n.manifests[n.executions[e].manifest] = l.manifests[l.executions[e].manifest]
    BY <2>1, KeptManifest
  <2>3. n.dispatches = l.dispatches BY DEF KeepsRecords
  <2> QED BY <2>1, <2>2, <2>3 DEF ReservationsOK
<1>2. ASSUME NEW a \in Actions, n.dispatches[a] # None
      PROVE  /\ Reserved(n, n.dispatches[a])
             /\ n.manifests[n.executions[n.dispatches[a]].manifest].action = a
  <2>1. PICK e : e = l.dispatches[a] OBVIOUS
  <2>2. n.dispatches[a] = e BY <2>1 DEF KeepsRecords
  <2>3. e \in Executions BY <1>2, <2>1, <2>2, LedgerFields
  <2>4. Reserved(l, e) /\ l.manifests[l.executions[e].manifest].action = a
    BY <1>2, <2>1, <2>2 DEF ReservationsOK
  <2>5. /\ Reserved(n, e)
        /\ n.manifests[n.executions[e].manifest] = l.manifests[l.executions[e].manifest]
    BY <2>3, <2>4, KeptManifest
  <2> QED BY <2>2, <2>4, <2>5
<1> QED BY <1>1, <1>2 DEF ReservationsOK

LEMMA ManifestsKept ==
  ASSUME NEW l \in Ledgers, NEW n \in Ledgers, ManifestsOK(l),
         n.manifests = l.manifests, n.adapter = l.adapter,
         ControlGrows(l.control, n.control)
  PROVE  ManifestsOK(n)
<1> SUFFICES ASSUME NEW m \in Manifests, NEW r, r = l.manifests[m], r # None
             PROVE  /\ r.adapter <= n.adapter.revision
                    /\ r.adapter = n.adapter.revision => r.version = n.adapter.version
                    /\ \A p \in r.context.epochs :
                         /\ p[2] <= n.control.epochs[p[1]]
                         /\ p[2] = n.control.epochs[p[1]] =>
                              \A h \in Holds : h[2] = p[1] => n.control.holds[h] = r.held[h]
  BY DEF ManifestsOK
<1>1. r \in ManifestRecord BY LedgerFields
<1>2. /\ r.adapter <= l.adapter.revision
      /\ r.adapter = l.adapter.revision => r.version = l.adapter.version
  BY DEF ManifestsOK
<1>3. ASSUME NEW p \in r.context.epochs
      PROVE  /\ p[2] <= n.control.epochs[p[1]]
             /\ p[2] = n.control.epochs[p[1]] =>
                  \A h \in Holds : h[2] = p[1] => n.control.holds[h] = r.held[h]
  <2>1. p[1] \in ScopeKeys /\ p[2] \in Nat BY <1>1, ManifestFields
  <2>2. /\ p[2] <= l.control.epochs[p[1]]
        /\ p[2] = l.control.epochs[p[1]] =>
             \A h \in Holds : h[2] = p[1] => l.control.holds[h] = r.held[h]
    BY DEF ManifestsOK
  <2>3. l.control.epochs[p[1]] \in Nat /\ n.control.epochs[p[1]] \in Nat
    BY <2>1, LedgerFields DEF Control
  <2>4. /\ l.control.epochs[p[1]] <= n.control.epochs[p[1]]
        /\ n.control.epochs[p[1]] = l.control.epochs[p[1]] =>
             \A h \in Holds : h[2] = p[1] => n.control.holds[h] = l.control.holds[h]
    BY <2>1 DEF ControlGrows
  <2>5. p[2] <= n.control.epochs[p[1]] BY <2>1, <2>2, <2>3, <2>4
  <2>6. ASSUME p[2] = n.control.epochs[p[1]]
        PROVE  p[2] = l.control.epochs[p[1]] /\ n.control.epochs[p[1]] = l.control.epochs[p[1]]
    BY <2>1, <2>2, <2>3, <2>4, <2>6
  <2> QED BY <2>2, <2>4, <2>5, <2>6
<1> QED BY <1>2, <1>3

LEMMA KeptLedger ==
  ASSUME NEW l \in Ledgers, NEW n \in Ledgers, LedgerOK(l), KeepsRecords(l, n), ManifestsOK(n),
         \A e \in Executions : StateOf(n, e) = "EXECUTION_UNKNOWN" =>
           \/ UnknownHeld(n, e)
           \/ StateOf(l, e) = "EXECUTION_UNKNOWN" /\ HoldsKept(l.control, n.control)
  PROVE  LedgerOK(n)
<1>1. ReservationsOK(n) BY ReservationsKept DEF LedgerOK
<1>2. ASSUME NEW e \in Executions, StateOf(l, e) = "EXECUTION_UNKNOWN",
             HoldsKept(l.control, n.control)
      PROVE  UnknownHeld(n, e)
  <2>1. Reserved(l, e) BY <1>2 DEF Reserved
  <2>2. n.manifests[n.executions[e].manifest] = l.manifests[l.executions[e].manifest]
    BY <2>1, KeptManifest DEF LedgerOK
  <2>3. UnknownHeld(l, e) BY <1>2 DEF LedgerOK
  <2> QED BY <1>2, <2>2, <2>3 DEF UnknownHeld, HoldsKept
<1> QED BY <1>1, <1>2 DEF LedgerOK
-----------------------------------------------------------------------------
(* What the operations make of a ledger.                                   *)

(* Everything but the fields named in an operation stays.                    *)
LEMMA SameRecords ==
  ASSUME NEW l, NEW n, n.executions = l.executions, n.manifests = l.manifests,
         n.dispatches = l.dispatches
  PROVE  /\ KeepsRecords(l, n)
         /\ \A e \in Executions : StateOf(n, e) = StateOf(l, e)
BY DEF KeepsRecords, Reserved, StateOf

LEMMA SameStatesLedger ==
  ASSUME NEW l \in Ledgers, LedgerOK(l), NEW n \in Ledgers, ManifestsOK(n),
         KeepsRecords(l, n), \A e \in Executions : StateOf(n, e) = StateOf(l, e),
         HoldsKept(l.control, n.control)
  PROVE  LedgerOK(n)
BY KeptLedger

LEMMA SameRecordsLedger ==
  ASSUME NEW l \in Ledgers, LedgerOK(l), NEW n \in Ledgers, ManifestsOK(n),
         n.executions = l.executions, n.manifests = l.manifests,
         n.dispatches = l.dispatches, HoldsKept(l.control, n.control)
  PROVE  LedgerOK(n) /\ KeepsRecords(l, n)
BY SameRecords, KeptLedger

LEMMA ProfileLedger ==
  ASSUME NEW l \in Ledgers, LedgerOK(l), NEW v \in Versions \cup {None},
         NEW n, n = [l EXCEPT !.profile = v]
  PROVE  /\ n \in Ledgers /\ LedgerOK(n) /\ KeepsRecords(l, n)
         /\ n.executions = l.executions /\ n.adapter = l.adapter
<1>1. n \in Ledgers BY DEF Ledgers
<1>2. /\ n.executions = l.executions /\ n.manifests = l.manifests
      /\ n.dispatches = l.dispatches /\ n.adapter = l.adapter /\ n.control = l.control
  BY DEF Ledgers
<1>3. ControlGrows(l.control, n.control) /\ HoldsKept(l.control, n.control)
  BY <1>2, LedgerFields, SameControl
<1>4. ManifestsOK(n) BY <1>1, <1>2, <1>3, ManifestsKept DEF LedgerOK
<1> QED BY <1>1, <1>2, <1>3, <1>4, SameRecordsLedger

(* A registration.                                                           *)
LEMMA AdapterLedger ==
  ASSUME NEW l \in Ledgers, LedgerOK(l), NEW v \in AdapterVersions,
         NEW rev \in 0 .. MaxAdmin,
         rev = l.adapter.revision + 1 \/ (rev = l.adapter.revision /\ v = l.adapter.version),
         NEW n, n = [l EXCEPT !.adapter = [version |-> v, revision |-> rev]]
  PROVE  /\ n \in Ledgers /\ LedgerOK(n) /\ KeepsRecords(l, n)
         /\ n.executions = l.executions /\ n.adapter.version = v
<1>1. n \in Ledgers BY DEF Ledgers
<1>2. /\ n.executions = l.executions /\ n.manifests = l.manifests
      /\ n.dispatches = l.dispatches /\ n.control = l.control
      /\ n.adapter.version = v /\ n.adapter.revision = rev
  BY DEF Ledgers
<1>3. HoldsKept(l.control, n.control) BY <1>2, LedgerFields, SameControl
<1>4. ManifestsOK(n)
  <2>1. ASSUME NEW m \in Manifests, NEW r, r = l.manifests[m], r # None
        PROVE  /\ r.adapter <= rev
               /\ r.adapter = rev => r.version = v
    <3>1. r.adapter \in Nat BY <2>1, LedgerFields, ManifestFields
    <3>2. l.adapter.revision \in Nat /\ rev \in Nat BY LedgerFields
    <3>3. /\ r.adapter <= l.adapter.revision
          /\ r.adapter = l.adapter.revision => r.version = l.adapter.version
      BY <2>1 DEF LedgerOK, ManifestsOK
    <3> QED BY <3>1, <3>2, <3>3
  <2>2. ManifestsOK(l) BY DEF LedgerOK
  <2> QED BY <1>2, <2>1, <2>2 DEF ManifestsOK
<1>5. LedgerOK(n) /\ KeepsRecords(l, n) BY <1>1, <1>2, <1>3, <1>4, SameRecordsLedger
<1> QED BY <1>1, <1>2, <1>5

(* A signal: the control state grows, and what else changes is remembered    *)
(* only to report nothing twice.                                            *)
LEMMA SignalLedger ==
  ASSUME NEW l \in Ledgers, LedgerOK(l), NEW n \in Ledgers,
         n.executions = l.executions, n.manifests = l.manifests,
         n.dispatches = l.dispatches, n.adapter = l.adapter,
         ControlGrows(l.control, n.control), HoldsKept(l.control, n.control)
  PROVE  LedgerOK(n) /\ KeepsRecords(l, n)
<1>1. ManifestsOK(n) BY ManifestsKept DEF LedgerOK
<1> QED BY <1>1, SameRecordsLedger

(* A restoration, of a hold that no unresolved execution is under.           *)
LEMMA UnderHold ==
  ASSUME NEW a \in Actions, NEW e, NEW h \in Holds, NEW signal,
         Concerns(h, Event(signal, OperationOf[a], a, e))
  PROVE  h[2] \in KeysOf(a)
BY DEF Concerns, Event, ScopeOf, KeysOf

LEMMA RestoreLedger ==
  ASSUME NEW l \in Ledgers, LedgerOK(l), NEW h \in Holds, ~UnresolvedUnder(l, h),
         NEW n, n = [l EXCEPT !.control = RestoreHold(@, h)]
  PROVE  /\ n \in Ledgers /\ LedgerOK(n) /\ KeepsRecords(l, n)
         /\ n.executions = l.executions /\ n.adapter = l.adapter
<1>1. /\ RestoreHold(l.control, h) \in Control
      /\ ControlGrows(l.control, RestoreHold(l.control, h))
      /\ \A g \in Holds : g # h => RestoreHold(l.control, h).holds[g] = l.control.holds[g]
  BY LedgerFields, RestoreControl
<1>2. n \in Ledgers BY <1>1 DEF Ledgers
<1>3. /\ n.executions = l.executions /\ n.manifests = l.manifests
      /\ n.dispatches = l.dispatches /\ n.adapter = l.adapter
      /\ n.control = RestoreHold(l.control, h)
  BY DEF Ledgers
<1>4. ManifestsOK(n)
  <2>1. ManifestsOK(l) /\ ControlGrows(l.control, n.control) BY <1>1, <1>3 DEF LedgerOK
  <2> QED BY <1>2, <1>3, <2>1, ManifestsKept
<1>5. KeepsRecords(l, n) /\ \A e \in Executions : StateOf(n, e) = StateOf(l, e)
  BY <1>3, SameRecords
<1>6. ASSUME NEW e \in Executions, StateOf(n, e) = "EXECUTION_UNKNOWN"
      PROVE  UnknownHeld(n, e)
  <2>1. StateOf(l, e) = "EXECUTION_UNKNOWN" /\ Reserved(l, e)
    BY <1>5, <1>6 DEF Reserved
  <2> DEFINE a == l.manifests[l.executions[e].manifest].action
  <2>2. a \in Actions BY <2>1, ReservedManifest, ManifestFields DEF LedgerOK
  <2>3. l.executions[e] # None /\ l.executions[e].state \in Unresolved
    BY <2>1 DEF StateOf, Unresolved
  <2>4. h[2] \notin KeysOf(a) BY <2>3 DEF UnresolvedUnder
  <2>5. UnknownHeld(l, e) BY <2>1 DEF LedgerOK
  <2>6. ASSUME NEW g \in Holds, RuleThreshold[g[1]] = 1,
               Concerns(g, Event("EXECUTION_UNKNOWN", OperationOf[a], a, e))
        PROVE  n.control.holds[g].active
    <3>1. g # h BY <2>2, <2>4, <2>6, UnderHold
    <3>2. l.control.holds[g].active BY <2>5, <2>6 DEF UnknownHeld
    <3> QED BY <1>1, <1>3, <3>1, <3>2
  <2> QED BY <1>3, <2>6 DEF UnknownHeld
<1> QED BY <1>2, <1>3, <1>4, <1>5, <1>6, KeptLedger

(* A proposal.                                                               *)
ProposalOf(l, a, needsApproval) ==
  [action |-> a, profile |-> l.profile, context |-> context(l.control, a),
   adapter |-> l.adapter.revision, version |-> l.adapter.version,
   held |-> l.control.holds,
   approval |-> needsApproval \/ ModeOf(l.control, a) = "REQUIRE_APPROVAL"]

LEMMA ContextOf ==
  ASSUME NEW c \in Control, NEW a \in Actions
  PROVE  /\ context(c, a) \in ContextRecord
         /\ context(c, a).epochs = {<<k, c.epochs[k]>> : k \in KeysOf(a)}
         /\ context(c, a).mode = ModeOf(c, a)
         /\ context(c, a).holds = {<<h, c.holds[h].number>> : h \in ActiveHolds(c, a)}
         /\ KeysOf(a) \subseteq ScopeKeys
<1>1. KeysOf(a) \subseteq ScopeKeys BY DEF KeysOf, ScopeKeys
<1>2. {<<k, c.epochs[k]>> : k \in KeysOf(a)} \in SUBSET (ScopeKeys \X Nat)
  BY <1>1 DEF Control
<1>3. ModeOf(c, a) \in ControlModes BY DEF ModeOf, ControlModes
<1>4. {<<h, c.holds[h].number>> : h \in ActiveHolds(c, a)} \in SUBSET (Holds \X Nat)
  BY DEF ActiveHolds, Control, HoldRecord
<1> QED BY <1>1, <1>2, <1>3, <1>4 DEF context, ContextRecord

LEMMA ProposalFields ==
  ASSUME NEW l \in Ledgers, l.profile # None, NEW a \in Actions, NEW b \in BOOLEAN
  PROVE  ProposalOf(l, a, b) \in ManifestRecord
<1>1. context(l.control, a) \in ContextRecord BY LedgerFields, ContextOf
<1>2. l.control.holds \in [Holds -> HoldRecord] BY LedgerFields DEF Control
<1>3. (b \/ ModeOf(l.control, a) = "REQUIRE_APPROVAL") \in BOOLEAN OBVIOUS
<1>4. /\ l.profile \in Versions /\ l.adapter.revision \in 0 .. MaxAdmin
      /\ l.adapter.version \in AdapterVersions \cup {None}
  BY LedgerFields
<1> QED BY <1>1, <1>2, <1>3, <1>4 DEF ProposalOf, ManifestRecord

LEMMA ProposeLedger ==
  ASSUME NEW l \in Ledgers, LedgerOK(l), l.profile # None, NEW m \in Manifests,
         l.manifests[m] = None, NEW a \in Actions, NEW b \in BOOLEAN,
         NEW n, n = [l EXCEPT !.manifests[m] = ProposalOf(l, a, b)]
  PROVE  /\ n \in Ledgers /\ LedgerOK(n) /\ KeepsRecords(l, n)
         /\ n.executions = l.executions /\ n.adapter = l.adapter
<1>1. PICK r \in ManifestRecord : r = ProposalOf(l, a, b) BY ProposalFields
<1>2. n = [l EXCEPT !.manifests = [l.manifests EXCEPT ![m] = r]] BY <1>1
<1>3. [l.manifests EXCEPT ![m] = r] \in [Manifests -> ManifestRecord \cup {None}]
  BY LedgerFields
<1>4. n \in Ledgers BY <1>2, <1>3 DEF Ledgers
<1>5. /\ n.executions = l.executions /\ n.dispatches = l.dispatches
      /\ n.adapter = l.adapter /\ n.control = l.control
      /\ n.manifests = [l.manifests EXCEPT ![m] = r]
  BY <1>2 DEF Ledgers
<1>6. /\ n.manifests[m] = r
      /\ \A k \in Manifests : k # m => n.manifests[k] = l.manifests[k]
  BY <1>5, LedgerFields
<1>7. /\ r.adapter = l.adapter.revision /\ r.version = l.adapter.version
      /\ r.held = l.control.holds
      /\ r.context.epochs = {<<k, l.control.epochs[k]>> : k \in KeysOf(a)}
      /\ KeysOf(a) \subseteq ScopeKeys
  BY <1>1, LedgerFields, ContextOf DEF ProposalOf
<1>8. ManifestsOK(n)
  <2>1. /\ r.adapter <= n.adapter.revision
        /\ r.adapter = n.adapter.revision => r.version = n.adapter.version
    BY <1>5, <1>7, LedgerFields
  <2>2. ASSUME NEW p \in r.context.epochs
        PROVE  /\ p[2] <= n.control.epochs[p[1]]
               /\ p[2] = n.control.epochs[p[1]] =>
                    \A h \in Holds : h[2] = p[1] => n.control.holds[h] = r.held[h]
    <3>1. PICK k \in KeysOf(a) : p = <<k, l.control.epochs[k]>> BY <1>7
    <3>2. l.control.epochs[k] \in Nat BY <1>7, LedgerFields DEF Control
    <3> QED BY <1>5, <1>7, <3>1, <3>2
  <2>3. ManifestsOK(l) BY DEF LedgerOK
  <2>4. ASSUME NEW k \in Manifests, NEW q, q = n.manifests[k], q # None
        PROVE  /\ q.adapter <= n.adapter.revision
               /\ q.adapter = n.adapter.revision => q.version = n.adapter.version
               /\ \A p \in q.context.epochs :
                    /\ p[2] <= n.control.epochs[p[1]]
                    /\ p[2] = n.control.epochs[p[1]] =>
                         \A h \in Holds : h[2] = p[1] => n.control.holds[h] = q.held[h]
    <3>1. CASE k = m BY <1>6, <2>1, <2>2, <2>4, <3>1
    <3>2. CASE k # m
      <4>1. q = l.manifests[k] BY <1>6, <2>4, <3>2
      <4> QED BY <1>5, <2>3, <2>4, <4>1 DEF ManifestsOK
    <3> QED BY <3>1, <3>2
  <2> QED BY <2>4 DEF ManifestsOK
<1>9. \A e \in Executions : StateOf(n, e) = StateOf(l, e) BY <1>5 DEF StateOf
<1>10. KeepsRecords(l, n) BY <1>5, <1>6, <1>9 DEF KeepsRecords, Reserved
<1>11. HoldsKept(l.control, n.control) BY <1>5, LedgerFields, SameControl
<1>12. LedgerOK(n) BY <1>4, <1>8, <1>9, <1>10, <1>11, SameStatesLedger
<1> QED BY <1>4, <1>5, <1>10, <1>12

(* A record moves on: its reservation, if it has one, keeps its manifest.    *)
LEMMA MoveLedger ==
  ASSUME NEW l \in Ledgers, LedgerOK(l), NEW n \in Ledgers, NEW e \in Executions,
         Reserved(l, e), NEW s \in States \ {"NOT_DISPATCHED"},
         n.executions = [l.executions EXCEPT ![e].state = s],
         n.manifests = l.manifests, n.dispatches = l.dispatches, n.adapter = l.adapter,
         ControlGrows(l.control, n.control), HoldsKept(l.control, n.control),
         s = "EXECUTION_UNKNOWN" => UnknownHeld(n, e)
  PROVE  /\ LedgerOK(n) /\ KeepsRecords(l, n)
         /\ StateOf(n, e) = s
         /\ \A f \in Executions : f # e => n.executions[f] = l.executions[f]
<1>1. l.executions[e] \in ExecutionRecord BY ReservedFields
<1>2. n.executions[e] = [l.executions[e] EXCEPT !.state = s] BY LedgerFields
<1>3. n.executions[e].manifest = l.executions[e].manifest /\ n.executions[e].state = s
  BY <1>1, <1>2 DEF ExecutionRecord
<1>4. n.executions[e] # None
  <2>1. [l.executions[e] EXCEPT !.state = s] \in ExecutionRecord BY <1>1 DEF ExecutionRecord
  <2> QED BY <1>2, <2>1, ExecutionFields
<1>5. \A f \in Executions : f # e => n.executions[f] = l.executions[f] BY LedgerFields
<1>6. StateOf(n, e) = s /\ s # "none" BY <1>3, <1>4 DEF StateOf, States, Unresolved
<1>7. \A f \in Executions : f # e => StateOf(n, f) = StateOf(l, f) BY <1>5 DEF StateOf
<1>8. KeepsRecords(l, n) BY <1>3, <1>5, <1>6, <1>7 DEF KeepsRecords, Reserved
<1>9. ManifestsOK(n) BY ManifestsKept DEF LedgerOK
<1>10. LedgerOK(n) BY <1>6, <1>7, <1>8, <1>9, KeptLedger
<1> QED BY <1>5, <1>6, <1>8, <1>10

(* A refusal is recorded, and is no reservation.                             *)
Refused(l, e, m) ==
  [l EXCEPT !.executions[e] = [manifest |-> m, state |-> "NOT_DISPATCHED"]]

LEMMA RefuseLedger ==
  ASSUME NEW l \in Ledgers, LedgerOK(l), NEW e \in Executions, l.executions[e] = None,
         NEW m \in Manifests,
         NEW n, n = Refused(l, e, m)
  PROVE  /\ n \in Ledgers /\ LedgerOK(n) /\ KeepsRecords(l, n) /\ n.adapter = l.adapter
         /\ n.manifests = l.manifests
         /\ \A f \in Executions : f # e => n.executions[f] = l.executions[f]
<1>1. PICK x : x = [manifest |-> m, state |-> "NOT_DISPATCHED"] OBVIOUS
<1>2. x \in ExecutionRecord /\ x.state = "NOT_DISPATCHED"
  BY <1>1 DEF ExecutionRecord, States
<1>3. n = [l EXCEPT !.executions = [l.executions EXCEPT ![e] = x]] BY <1>1 DEF Refused
<1>4. [l.executions EXCEPT ![e] = x] \in [Executions -> ExecutionRecord \cup {None}]
  BY <1>2, LedgerFields
<1>5. n \in Ledgers BY <1>3, <1>4 DEF Ledgers
<1>6. /\ n.executions = [l.executions EXCEPT ![e] = x]
      /\ n.manifests = l.manifests /\ n.dispatches = l.dispatches
      /\ n.adapter = l.adapter /\ n.control = l.control
  BY <1>3 DEF Ledgers
<1>7. /\ n.executions[e] = x
      /\ \A f \in Executions : f # e => n.executions[f] = l.executions[f]
  BY <1>6, LedgerFields
<1>8. /\ ~Reserved(n, e) /\ ~Reserved(l, e)
      /\ \A f \in Executions : f # e => StateOf(n, f) = StateOf(l, f)
      /\ StateOf(n, e) # "EXECUTION_UNKNOWN"
  BY <1>2, <1>7, ExecutionFields DEF Reserved, StateOf
<1>9. KeepsRecords(l, n) BY <1>6, <1>7, <1>8 DEF KeepsRecords, Reserved
<1>10. ControlGrows(l.control, n.control) /\ HoldsKept(l.control, n.control)
  BY <1>6, LedgerFields, SameControl
<1>11. ManifestsOK(n) BY <1>5, <1>6, <1>10, ManifestsKept DEF LedgerOK
<1>12. \A f \in Executions : StateOf(n, f) = "EXECUTION_UNKNOWN" =>
         StateOf(l, f) = "EXECUTION_UNKNOWN" /\ HoldsKept(l.control, n.control)
  BY <1>8, <1>10
<1>13. LedgerOK(n) BY <1>5, <1>9, <1>11, <1>12, KeptLedger
<1> QED BY <1>5, <1>6, <1>7, <1>9, <1>13

(* A reservation of an action that has none.                                 *)
Admitted(l, e, m, a) ==
  [l EXCEPT !.dispatches[a] = e, !.executions[e] = [manifest |-> m, state |-> "DISPATCHED"]]

LEMMA AdmitLedger ==
  ASSUME NEW l \in Ledgers, LedgerOK(l), NEW e \in Executions, l.executions[e] = None,
         NEW m \in Manifests, l.manifests[m] # None,
         NEW a, a = l.manifests[m].action, l.dispatches[a] = None,
         NEW n, n = Admitted(l, e, m, a)
  PROVE  /\ n \in Ledgers /\ LedgerOK(n)
         /\ n.manifests = l.manifests /\ n.adapter = l.adapter
         /\ n.dispatches = [l.dispatches EXCEPT ![a] = e]
         /\ n.executions[e].manifest = m /\ StateOf(n, e) = "DISPATCHED"
         /\ \A f \in Executions : f # e => n.executions[f] = l.executions[f]
<1>1. PICK x : x = [manifest |-> m, state |-> "DISPATCHED"] OBVIOUS
<1>2. x \in ExecutionRecord /\ x.state = "DISPATCHED" /\ x.manifest = m
  BY <1>1 DEF ExecutionRecord, States, Unresolved
<1>3. a \in Actions BY LedgerFields, ManifestFields
<1>4. n = [l EXCEPT !.dispatches = [l.dispatches EXCEPT ![a] = e],
                    !.executions = [l.executions EXCEPT ![e] = x]]
  BY <1>1 DEF Admitted
<1>5. /\ [l.executions EXCEPT ![e] = x] \in [Executions -> ExecutionRecord \cup {None}]
      /\ [l.dispatches EXCEPT ![a] = e] \in [Actions -> Executions \cup {None}]
  BY <1>2, LedgerFields
<1>6. n \in Ledgers BY <1>4, <1>5 DEF Ledgers
<1>7. /\ n.executions = [l.executions EXCEPT ![e] = x]
      /\ n.dispatches = [l.dispatches EXCEPT ![a] = e]
      /\ n.manifests = l.manifests /\ n.adapter = l.adapter /\ n.control = l.control
  BY <1>4 DEF Ledgers
<1>8. /\ n.executions[e] = x /\ n.dispatches[a] = e
      /\ \A f \in Executions : f # e => n.executions[f] = l.executions[f]
      /\ \A b \in Actions : b # a => n.dispatches[b] = l.dispatches[b]
  BY <1>3, <1>7, LedgerFields
<1>9. /\ StateOf(n, e) = "DISPATCHED" /\ Reserved(n, e) /\ ~Reserved(l, e)
      /\ \A f \in Executions : f # e => StateOf(n, f) = StateOf(l, f)
  BY <1>2, <1>8, ExecutionFields DEF Reserved, StateOf
<1>10. ASSUME NEW f \in Executions, Reserved(n, f)
       PROVE  LET r == n.manifests[n.executions[f].manifest]
              IN r # None /\ n.dispatches[r.action] = f
  <2>1. CASE f = e BY <1>2, <1>7, <1>8, <2>1
  <2>2. CASE f # e
    <3>1. Reserved(l, f) BY <1>9, <1>10, <2>2 DEF Reserved
    <3> DEFINE r == l.manifests[l.executions[f].manifest]
    <3>2. r \in ManifestRecord /\ l.dispatches[r.action] = f
      BY <3>1, ReservedManifest DEF LedgerOK
    <3>3. r.action \in Actions /\ r # None BY <3>2, ManifestFields
    <3>4. r.action # a BY <3>2
    <3>5. n.manifests[n.executions[f].manifest] = r BY <1>7, <1>8, <2>2
    <3> QED BY <1>8, <3>2, <3>3, <3>4, <3>5
  <2> QED BY <2>1, <2>2
<1>11. ASSUME NEW b \in Actions, n.dispatches[b] # None
       PROVE  /\ Reserved(n, n.dispatches[b])
              /\ n.manifests[n.executions[n.dispatches[b]].manifest].action = b
  <2>1. CASE b = a BY <1>2, <1>7, <1>8, <1>9, <2>1
  <2>2. CASE b # a
    <3>1. PICK f : f = l.dispatches[b] OBVIOUS
    <3>2. n.dispatches[b] = f /\ f \in Executions BY <1>8, <1>11, <2>2, <3>1, LedgerFields
    <3>3. Reserved(l, f) /\ l.manifests[l.executions[f].manifest].action = b
      BY <1>11, <3>1, <3>2 DEF LedgerOK, ReservationsOK
    <3>4. f # e BY <1>9, <3>3
    <3> QED BY <1>7, <1>8, <1>9, <3>2, <3>3, <3>4 DEF Reserved
  <2> QED BY <2>1, <2>2
<1>12. ReservationsOK(n) BY <1>10, <1>11 DEF ReservationsOK
<1>13. ControlGrows(l.control, n.control) BY <1>7, LedgerFields, SameControl
<1>14. ManifestsOK(n) BY <1>6, <1>7, <1>13, ManifestsKept DEF LedgerOK
<1>15. ASSUME NEW f \in Executions, StateOf(n, f) = "EXECUTION_UNKNOWN"
       PROVE  UnknownHeld(n, f)
  <2>1. f # e BY <1>9, <1>15
  <2>2. UnknownHeld(l, f) BY <1>9, <1>15, <2>1 DEF LedgerOK
  <2> QED BY <1>7, <1>8, <2>1, <2>2 DEF UnknownHeld
<1>16. LedgerOK(n) BY <1>12, <1>14, <1>15 DEF LedgerOK
<1> QED BY <1>2, <1>6, <1>7, <1>8, <1>9, <1>16

(* An answer, or the want of one, with the feedback it causes.               *)
LEMMA UnknownSignal ==
  ASSUME NEW l \in Ledgers, LedgerOK(l), NEW e \in Executions, Reserved(l, e), NEW aged
  PROVE  LET a == l.manifests[l.executions[e].manifest].action
             ev == Event("EXECUTION_UNKNOWN", OperationOf[a], a, e)
             c == SignalUnknown(l, e, aged)
         IN /\ c \in Control /\ ControlGrows(l.control, c) /\ HoldsKept(l.control, c)
            /\ \A h \in Holds : Concerns(h, ev) /\ RuleThreshold[h[1]] = 1 => c.holds[h].active
<1> DEFINE a == l.manifests[l.executions[e].manifest].action
<1>1. PICK ev : ev = Event("EXECUTION_UNKNOWN", OperationOf[a], a, e) OBVIOUS
<1>2. ev.incident \in Incidents BY <1>1 DEF Event, Incidents
<1>3. SignalUnknown(l, e, aged) = process(l.control, ev, aged) BY <1>1 DEF SignalUnknown
<1>4. l.control \in Control BY LedgerFields
<1> HIDE DEF a
<1>5. /\ process(l.control, ev, aged) \in Control
      /\ ControlGrows(l.control, process(l.control, ev, aged))
      /\ HoldsKept(l.control, process(l.control, ev, aged))
  BY <1>2, <1>4, ProcessControl
<1>6. ASSUME NEW h \in Holds, Concerns(h, ev), RuleThreshold[h[1]] = 1
      PROVE  process(l.control, ev, aged).holds[h].active
  BY <1>2, <1>4, <1>6, FirstTrips
<1> USE DEF a
<1> QED BY <1>1, <1>3, <1>5, <1>6

LEMMA TransitionLedger ==
  ASSUME NEW l \in Ledgers, LedgerOK(l), NEW e \in Executions, Reserved(l, e), NEW aged,
         NEW s \in {"ACKNOWLEDGED", "EXECUTION_UNKNOWN", "NOT_ATTEMPTED",
                    "COMMITTED", "NOT_COMMITTED"},
         NEW n, n = Transition(l, e, s, aged)
  PROVE  /\ n \in Ledgers /\ LedgerOK(n) /\ KeepsRecords(l, n)
         /\ n.adapter = l.adapter /\ n.manifests = l.manifests
         /\ StateOf(n, e) = s
         /\ \A f \in Executions : f # e => n.executions[f] = l.executions[f]
<1>1. s \in States \ {"NOT_DISPATCHED"} BY DEF States, Unresolved
<1>2. PICK c : c = IF s = "EXECUTION_UNKNOWN" THEN SignalUnknown(l, e, aged) ELSE l.control
  OBVIOUS
<1>3. n = [l EXCEPT !.executions = [l.executions EXCEPT ![e].state = s], !.control = c]
  <2>1. CASE s = "EXECUTION_UNKNOWN" BY <1>2, <2>1 DEF Transition
  <2>2. CASE s # "EXECUTION_UNKNOWN" BY <1>2, <2>2 DEF Transition, Ledgers
  <2> QED BY <2>1, <2>2
<1>4. l.executions[e] \in ExecutionRecord BY ReservedFields
<1>5. [l.executions EXCEPT ![e].state = s] \in [Executions -> ExecutionRecord \cup {None}]
  <2>1. [l.executions[e] EXCEPT !.state = s] \in ExecutionRecord
    BY <1>1, <1>4 DEF ExecutionRecord
  <2> QED BY <2>1, LedgerFields
<1>6. c \in Control /\ ControlGrows(l.control, c) /\ HoldsKept(l.control, c)
  BY <1>2, UnknownSignal, SameControl, LedgerFields
<1>7. n \in Ledgers BY <1>3, <1>5, <1>6 DEF Ledgers
<1>8. /\ n.executions = [l.executions EXCEPT ![e].state = s]
      /\ n.manifests = l.manifests /\ n.dispatches = l.dispatches
      /\ n.adapter = l.adapter /\ n.control = c
  BY <1>3 DEF Ledgers
<1>9. n.executions[e].manifest = l.executions[e].manifest
  BY <1>4, <1>8, LedgerFields DEF ExecutionRecord
<1>10. ASSUME s = "EXECUTION_UNKNOWN" PROVE UnknownHeld(n, e)
  <2>1. PICK a : a = l.manifests[l.executions[e].manifest].action OBVIOUS
  <2>2. n.control = SignalUnknown(l, e, aged) BY <1>2, <1>8, <1>10
  <2>3. \A h \in Holds :
          /\ Concerns(h, Event("EXECUTION_UNKNOWN", OperationOf[a], a, e))
          /\ RuleThreshold[h[1]] = 1
          => n.control.holds[h].active
    BY <2>1, <2>2, UnknownSignal
  <2>4. n.manifests[n.executions[e].manifest].action = a BY <1>8, <1>9, <2>1
  <2> QED BY <2>3, <2>4 DEF UnknownHeld
<1> QED BY <1>1, <1>6, <1>7, <1>8, <1>10, MoveLedger
-----------------------------------------------------------------------------
(* A watchdog's round and a recovery, as folds over the executions they find. *)

ReportIterates(F, l, aged, S) ==
  F = [s \in SUBSET S |-> IF s = {} THEN l
                          ELSE Report(F[s \ {Pick(s)}], Pick(s), aged)]
RecoverIterates(F, l, aged, S) ==
  F = [s \in SUBSET S |-> IF s = {} THEN l
                          ELSE Transition(F[s \ {Pick(s)}], Pick(s), "EXECUTION_UNKNOWN", aged)]

LEMMA ReportedIsChosen ==
  ASSUME NEW l, NEW S, NEW aged
  PROVE  Reported(l, S, aged) = (CHOOSE F : ReportIterates(F, l, aged \ S, S))[S]
BY DEF Reported, Each, MapThenFoldSet, ReportIterates, Pick

LEMMA RecoveredIsChosen ==
  ASSUME NEW l, NEW aged
  PROVE  Recovered(l, aged) =
           (CHOOSE F : RecoverIterates(F, l, aged \ Interrupted(l), Interrupted(l)))[Interrupted(l)]
BY DEF Recovered, Each, MapThenFoldSet, RecoverIterates, Pick

(* What the reports so far leave of the ledger.                              *)
ReportedFrom(l, n) ==
  /\ n \in Ledgers /\ n.executions = l.executions /\ n.manifests = l.manifests
  /\ n.dispatches = l.dispatches /\ n.adapter = l.adapter
  /\ ControlGrows(l.control, n.control) /\ HoldsKept(l.control, n.control)

LEMMA ReportStep ==
  ASSUME NEW l \in Ledgers, NEW n, ReportedFrom(l, n), NEW e \in Executions, NEW aged
  PROVE  ReportedFrom(l, Report(n, e, aged))
<1> DEFINE a == n.manifests[n.executions[e].manifest].action
<1>1. PICK ev : ev = Event(OverdueCode(n, e), OperationOf[a], a, e) OBVIOUS
<1>2. ev.incident \in Incidents BY <1>1 DEF Event, Incidents
<1>3. PICK c : c = process(n.control, ev, aged) OBVIOUS
<1>4. PICK w : w = n.watched \cup {<<e, OverdueCode(n, e)>>} OBVIOUS
<1>5. PICK r : r = Report(n, e, aged) OBVIOUS
<1>6. r = [n EXCEPT !.watched = w, !.control = c] BY <1>1, <1>3, <1>4, <1>5 DEF Report
<1> HIDE DEF a
<1>7. n \in Ledgers /\ n.control \in Control BY LedgerFields DEF ReportedFrom
<1>8. c \in Control /\ ControlGrows(n.control, c) /\ HoldsKept(n.control, c)
  BY <1>2, <1>3, <1>7, ProcessControl
<1>9. w \in SUBSET (Executions \X Signals)
  BY <1>4, <1>7, LedgerFields DEF OverdueCode, Signals
<1>10. r \in Ledgers BY <1>6, <1>7, <1>8, <1>9 DEF Ledgers
<1>11. /\ r.executions = n.executions /\ r.manifests = n.manifests
       /\ r.dispatches = n.dispatches /\ r.adapter = n.adapter /\ r.control = c
  BY <1>6, <1>7 DEF Ledgers
<1>12. ControlGrows(l.control, c)
  BY <1>7, <1>8, LedgerFields, GrowsTrans DEF ReportedFrom
<1>13. HoldsKept(l.control, c) BY <1>8 DEF ReportedFrom, HoldsKept
<1> QED BY <1>5, <1>10, <1>11, <1>12, <1>13 DEF ReportedFrom

LEMMA ReportsReach ==
  ASSUME NEW l \in Ledgers, NEW S \in SUBSET Executions, NEW aged,
         NEW F, ReportIterates(F, l, aged, S)
  PROVE  ReportedFrom(l, F[S])
<1> DEFINE reached == {s \in SUBSET S : ReportedFrom(l, F[s])}
<1>1. IsFiniteSet(S) BY FS_Subset
<1>2. F[{}] = l BY DEF ReportIterates
<1>3. {} \in reached BY <1>2, LedgerFields, SameControl DEF ReportedFrom
<1>4. ASSUME NEW s \in SUBSET S, s # {}, s \ {Pick(s)} \in reached PROVE s \in reached
  <2>1. Pick(s) \in Executions BY <1>4 DEF Pick
  <2>2. F[s] = Report(F[s \ {Pick(s)}], Pick(s), aged) BY <1>4 DEF ReportIterates
  <2> QED BY <1>4, <2>1, <2>2, ReportStep
<1>5. \A s \in SUBSET S : s \in reached
  <2> HIDE DEF reached
  <2> QED BY <1>1, <1>3, <1>4, SubsetInduction
<1>6. S \in SUBSET S OBVIOUS
<1> QED BY <1>5, <1>6

LEMMA ReportsExist ==
  ASSUME NEW l \in Ledgers, NEW S \in SUBSET Executions, NEW aged
  PROVE  \E F : ReportIterates(F, l, aged, S)
<1> DEFINE f == [z \in S \X Ledgers |-> Report(z[2], z[1], aged)]
<1>1. IsFiniteSet(S) BY FS_Subset
<1>2. PICK F : Iterates(F, f, l, S) BY <1>1, FoldExists
<1> DEFINE reached == {s \in SUBSET S : ReportedFrom(l, F[s])}
<1>3. F[{}] = l BY <1>2 DEF Iterates
<1>4. {} \in reached BY <1>3, LedgerFields, SameControl DEF ReportedFrom
<1>5. ASSUME NEW s \in SUBSET S, s # {}, ReportedFrom(l, F[s \ {Pick(s)}])
      PROVE  F[s] = Report(F[s \ {Pick(s)}], Pick(s), aged)
  <2>1. Pick(s) \in S BY <1>5 DEF Pick
  <2>2. F[s \ {Pick(s)}] \in Ledgers BY <1>5 DEF ReportedFrom
  <2>3. F[s] = f[<<Pick(s), F[s \ {Pick(s)}]>>] BY <1>2, <1>5 DEF Iterates
  <2> QED BY <2>1, <2>2, <2>3
<1>6. ASSUME NEW s \in SUBSET S, s # {}, s \ {Pick(s)} \in reached PROVE s \in reached
  <2>1. Pick(s) \in Executions BY <1>6 DEF Pick
  <2>2. F[s] = Report(F[s \ {Pick(s)}], Pick(s), aged) BY <1>5, <1>6
  <2> QED BY <1>6, <2>1, <2>2, ReportStep
<1>7. \A s \in SUBSET S : s \in reached
  <2> HIDE DEF reached
  <2> QED BY <1>1, <1>4, <1>6, SubsetInduction
<1>8. ASSUME NEW s \in SUBSET S
      PROVE  F[s] = IF s = {} THEN l ELSE Report(F[s \ {Pick(s)}], Pick(s), aged)
  <2>1. s \ {Pick(s)} \in SUBSET S OBVIOUS
  <2> QED BY <1>3, <1>5, <1>7, <2>1
<1>9. F = [s \in SUBSET S |-> F[s]] BY <1>2 DEF Iterates
<1>10. ReportIterates(F, l, aged, S)
  <2> HIDE DEF f, reached
  <2> QED BY <1>8, <1>9 DEF ReportIterates
<1> QED BY <1>10

LEMMA ReportedLedger ==
  ASSUME NEW l \in Ledgers, LedgerOK(l), NEW S \in SUBSET Executions, NEW aged,
         NEW n, n = Reported(l, S, aged)
  PROVE  /\ n \in Ledgers /\ LedgerOK(n) /\ KeepsRecords(l, n)
         /\ n.executions = l.executions /\ n.adapter = l.adapter
<1>1. PICK F : F = CHOOSE G : ReportIterates(G, l, aged \ S, S) OBVIOUS
<1>2. ReportIterates(F, l, aged \ S, S) BY <1>1, ReportsExist
<1>3. n = F[S] BY <1>1, ReportedIsChosen
<1>4. ReportedFrom(l, n) BY <1>2, <1>3, ReportsReach
<1> QED BY <1>4, SignalLedger DEF ReportedFrom

(* What a recovery that has come as far as the executions in s has made of   *)
(* the ledger.                                                              *)
RecoveredFrom(l, n, s) ==
  /\ n \in Ledgers /\ LedgerOK(n) /\ KeepsRecords(l, n)
  /\ n.manifests = l.manifests /\ n.adapter = l.adapter
  /\ \A e \in Executions : e \notin s => n.executions[e] = l.executions[e]
  /\ \A e \in s : StateOf(n, e) = "EXECUTION_UNKNOWN"

LEMMA InterruptedReserved ==
  ASSUME NEW l, NEW e \in Interrupted(l)
  PROVE  e \in Executions /\ Reserved(l, e) /\ StateOf(l, e) = "DISPATCHED"
BY DEF Interrupted, Reserved, StateOf

LEMMA RecoverStep ==
  ASSUME NEW l \in Ledgers, NEW s \in SUBSET Interrupted(l), NEW e \in s,
         NEW n, RecoveredFrom(l, n, s \ {e}), NEW aged
  PROVE  RecoveredFrom(l, Transition(n, e, "EXECUTION_UNKNOWN", aged), s)
<1>1. PICK r : r = Transition(n, e, "EXECUTION_UNKNOWN", aged) OBVIOUS
<1>2. e \in Executions /\ Reserved(l, e) BY InterruptedReserved
<1>3. n \in Ledgers /\ LedgerOK(n) /\ Reserved(n, e)
  BY <1>2 DEF RecoveredFrom, KeepsRecords
<1>4. /\ r \in Ledgers /\ LedgerOK(r) /\ KeepsRecords(n, r)
      /\ r.adapter = n.adapter /\ r.manifests = n.manifests
      /\ StateOf(r, e) = "EXECUTION_UNKNOWN"
      /\ \A f \in Executions : f # e => r.executions[f] = n.executions[f]
  BY <1>1, <1>2, <1>3, TransitionLedger
<1>5. KeepsRecords(l, r) BY <1>4 DEF RecoveredFrom, KeepsRecords
<1>6. \A f \in Executions : f \notin s => r.executions[f] = l.executions[f]
  BY <1>4 DEF RecoveredFrom
<1>7. ASSUME NEW f \in s PROVE StateOf(r, f) = "EXECUTION_UNKNOWN"
  <2>1. CASE f = e BY <1>4, <2>1
  <2>2. CASE f # e
    <3>1. f \in Executions BY InterruptedReserved
    <3>2. StateOf(n, f) = "EXECUTION_UNKNOWN" BY <2>2 DEF RecoveredFrom
    <3> QED BY <1>4, <2>2, <3>1, <3>2 DEF StateOf
  <2> QED BY <2>1, <2>2
<1>8. r.manifests = l.manifests /\ r.adapter = l.adapter BY <1>4 DEF RecoveredFrom
<1> QED BY <1>1, <1>4, <1>5, <1>6, <1>7, <1>8 DEF RecoveredFrom

LEMMA RecoverNone ==
  ASSUME NEW l \in Ledgers, LedgerOK(l) PROVE RecoveredFrom(l, l, {})
BY DEF RecoveredFrom, KeepsRecords

LEMMA RecoveryReaches ==
  ASSUME NEW l \in Ledgers, LedgerOK(l), NEW aged,
         NEW F, RecoverIterates(F, l, aged, Interrupted(l))
  PROVE  RecoveredFrom(l, F[Interrupted(l)], Interrupted(l))
<1> DEFINE S == Interrupted(l)
           reached == {s \in SUBSET S : RecoveredFrom(l, F[s], s)}
<1>1. IsFiniteSet(S)
  <2>1. S \in SUBSET Executions BY DEF Interrupted
  <2> HIDE DEF S
  <2> QED BY <2>1, FS_Subset
<1>2. F[{}] = l BY DEF RecoverIterates
<1>3. {} \in reached BY <1>2, RecoverNone
<1>4. ASSUME NEW s \in SUBSET S, s # {}, s \ {Pick(s)} \in reached PROVE s \in reached
  <2>1. Pick(s) \in s BY <1>4 DEF Pick
  <2>2. F[s] = Transition(F[s \ {Pick(s)}], Pick(s), "EXECUTION_UNKNOWN", aged)
    BY <1>4 DEF RecoverIterates
  <2> QED BY <1>4, <2>1, <2>2, RecoverStep
<1>5. \A s \in SUBSET S : s \in reached
  <2> HIDE DEF reached, S
  <2> QED BY <1>1, <1>3, <1>4, SubsetInduction
<1>6. S \in SUBSET S OBVIOUS
<1> QED BY <1>5, <1>6

LEMMA RecoveryExists ==
  ASSUME NEW l \in Ledgers, LedgerOK(l), NEW aged
  PROVE  \E F : RecoverIterates(F, l, aged, Interrupted(l))
<1> DEFINE S == Interrupted(l)
           f == [z \in S \X Ledgers |-> Transition(z[2], z[1], "EXECUTION_UNKNOWN", aged)]
<1>1. IsFiniteSet(S)
  <2>1. S \in SUBSET Executions BY DEF Interrupted
  <2> HIDE DEF S
  <2> QED BY <2>1, FS_Subset
<1>2. PICK F : Iterates(F, f, l, S)
  <2> HIDE DEF f, S
  <2> QED BY <1>1, FoldExists
<1> DEFINE reached == {s \in SUBSET S : RecoveredFrom(l, F[s], s)}
<1>3. F[{}] = l BY <1>2 DEF Iterates
<1>4. {} \in reached BY <1>3, RecoverNone
<1>5. ASSUME NEW s \in SUBSET S, s # {}, s \ {Pick(s)} \in reached
      PROVE  F[s] = Transition(F[s \ {Pick(s)}], Pick(s), "EXECUTION_UNKNOWN", aged)
  <2>1. Pick(s) \in S BY <1>5 DEF Pick
  <2>2. F[s \ {Pick(s)}] \in Ledgers BY <1>5 DEF RecoveredFrom
  <2>3. F[s] = f[<<Pick(s), F[s \ {Pick(s)}]>>] BY <1>2, <1>5 DEF Iterates
  <2> QED BY <2>1, <2>2, <2>3
<1>6. ASSUME NEW s \in SUBSET S, s # {}, s \ {Pick(s)} \in reached PROVE s \in reached
  <2>1. Pick(s) \in s BY <1>6 DEF Pick
  <2>2. F[s] = Transition(F[s \ {Pick(s)}], Pick(s), "EXECUTION_UNKNOWN", aged) BY <1>5, <1>6
  <2> QED BY <1>6, <2>1, <2>2, RecoverStep
<1>7. \A s \in SUBSET S : s \in reached
  <2> HIDE DEF reached, S
  <2> QED BY <1>1, <1>4, <1>6, SubsetInduction
<1>8. ASSUME NEW s \in SUBSET S
      PROVE  F[s] = IF s = {} THEN l
                    ELSE Transition(F[s \ {Pick(s)}], Pick(s), "EXECUTION_UNKNOWN", aged)
  <2>1. s \ {Pick(s)} \in SUBSET S OBVIOUS
  <2> QED BY <1>3, <1>5, <1>7, <2>1
<1>9. F = [s \in SUBSET S |-> F[s]] BY <1>2 DEF Iterates
<1>10. RecoverIterates(F, l, aged, S)
  <2> HIDE DEF f, reached, S
  <2> QED BY <1>8, <1>9 DEF RecoverIterates
<1> QED BY <1>10

LEMMA RecoveredLedger ==
  ASSUME NEW l \in Ledgers, LedgerOK(l), NEW aged
  PROVE  RecoveredFrom(l, Recovered(l, aged), Interrupted(l))
<1> DEFINE S == Interrupted(l)
<1>1. PICK F : F = CHOOSE G : RecoverIterates(G, l, aged \ S, S) OBVIOUS
<1>2. RecoverIterates(F, l, aged \ S, S) BY <1>1, RecoveryExists
<1>3. Recovered(l, aged) = F[S] BY <1>1, RecoveredIsChosen
<1> QED BY <1>2, <1>3, RecoveryReaches
-----------------------------------------------------------------------------
(* The invariant.                                                          *)

(* The thread e takes no part in the step.                                   *)
Untouched(e) ==
  /\ pc'[e] = pc[e] /\ call'[e] = call[e] /\ effect'[e] = effect[e]
  /\ e \in orphans' <=> e \in orphans
  /\ mem'.executions[e] = mem.executions[e] /\ disk'.executions[e] = disk.executions[e]

(* No manifest is taken back.                                                *)
ManifestsStay ==
  \A m \in Manifests :
    /\ mem.manifests[m] # None => mem'.manifests[m] = mem.manifests[m]
    /\ disk.manifests[m] # None => disk'.manifests[m] = disk.manifests[m]

(* The adapter stays, or moves to a revision that no manifest names; a gate   *)
(* that has failed does not come back while it owns the store.              *)
AdapterForward ==
  ~failed' => /\ ~failed
              /\ \/ mem'.adapter = mem.adapter
                 \/ mem'.adapter.revision > mem.adapter.revision

ThreadsOK(e) == ThreadOK(e) /\ CallOK(mem, e) /\ CallOK(disk, e)

LEMMA CallFields ==
  ASSUME ManagedInv, NEW e \in Executions, call[e] # None
  PROVE  call[e].manifest \in Manifests /\ call[e].fn \in AdapterVersions \cup {None}
BY DEF ManagedInv, ManagedTypeOK, CallRecord

(* A call whose reservation stays, in a ledger, stays bound to it.           *)
LEMMA CallStays ==
  ASSUME ManagedInv, NEW e \in Executions, NEW l \in {mem, disk}, CallOK(l, e),
         call'[e] = call[e], NEW n,
         \A m \in Manifests : l.manifests[m] # None => n.manifests[m] = l.manifests[m],
         Reserved(n, e) => /\ Reserved(l, e)
                           /\ n.executions[e].manifest = l.executions[e].manifest
  PROVE  Reserved(n, e) => /\ call'[e] # None
                           /\ call'[e].manifest = n.executions[e].manifest
                           /\ call'[e].fn = n.manifests[call'[e].manifest].version
<1> SUFFICES ASSUME Reserved(n, e)
             PROVE  /\ call[e] # None
                    /\ call[e].manifest = n.executions[e].manifest
                    /\ call[e].fn = n.manifests[call[e].manifest].version
  OBVIOUS
<1>1. /\ call[e] # None /\ call[e].manifest = l.executions[e].manifest
      /\ call[e].fn = l.manifests[call[e].manifest].version
  BY DEF CallOK
<1>2. l \in Ledgers /\ ReservationsOK(l)
  BY DEF ManagedInv, ManagedTypeOK, LedgerOK
<1>3. call[e].manifest \in Manifests /\ l.manifests[call[e].manifest] # None
  BY <1>1, <1>2, CallFields DEF ReservationsOK
<1> QED BY <1>1, <1>3

LEMMA ThreadUntouched ==
  ASSUME ManagedInv, NEW e \in Executions, Untouched(e), ManifestsStay, AdapterForward,
         up => up'
  PROVE  ThreadsOK(e)'
<1>1. ThreadOK(e) /\ CallOK(mem, e) /\ CallOK(disk, e) BY DEF ManagedInv
<1>2. /\ StateOf(mem', e) = StateOf(mem, e) /\ StateOf(disk', e) = StateOf(disk, e)
      /\ Reserved(mem', e) <=> Reserved(mem, e)
      /\ Reserved(disk', e) <=> Reserved(disk, e)
  BY DEF Untouched, Reserved, StateOf
<1>3. ASSUME pc[e] \in Preparing
      PROVE  /\ mem'.manifests[call[e].manifest] = mem.manifests[call[e].manifest]
             /\ mem.manifests[call[e].manifest] # None /\ call[e].manifest \in Manifests
  BY <1>1, <1>3, CallFields DEF ThreadOK, ManifestsStay
<1>4. ThreadOK(e)'
  <2>1. ASSUME pc[e] = "authorised", ~failed'
        PROVE  LET r == mem'.manifests[call[e].manifest]
               IN r.adapter = mem'.adapter.revision => call[e].fn = r.version
    <3>1. PICK r : r = mem.manifests[call[e].manifest] OBVIOUS
    <3>2. /\ mem'.manifests[call[e].manifest] = r /\ r # None
          /\ call[e].manifest \in Manifests
      BY <1>3, <2>1, <3>1 DEF Preparing
    <3>3. r.adapter = mem.adapter.revision => call[e].fn = r.version
      BY <1>1, <2>1, <3>1 DEF ThreadOK, AdapterForward
    <3>4. mem \in Ledgers /\ LedgerOK(mem) BY DEF ManagedInv, ManagedTypeOK
    <3>5. mem.adapter.revision \in Int /\ r.adapter \in Int
      BY <3>1, <3>2, <3>4, LedgerFields, ManifestFields DEF ManifestRecord
    <3>6. r.adapter <= mem.adapter.revision
      BY <3>1, <3>2, <3>4 DEF LedgerOK, ManifestsOK
    <3>7. mem'.adapter = mem.adapter \/ mem'.adapter.revision > mem.adapter.revision
      BY <2>1 DEF AdapterForward
    <3>8. r.adapter = mem'.adapter.revision => call[e].fn = r.version
      BY <3>3, <3>5, <3>6, <3>7
    <3> QED BY <3>2, <3>8
  <2> QED BY <1>1, <1>2, <1>3, <2>1 DEF ThreadOK, Untouched, Preparing, Running
<1>5. CallOK(mem, e)'
  <2>1. \A m \in Manifests : mem.manifests[m] # None => mem'.manifests[m] = mem.manifests[m]
    BY DEF ManifestsStay
  <2> QED BY <1>1, <1>2, <2>1, CallStays DEF Untouched, CallOK
<1>6. CallOK(disk, e)'
  <2>1. \A m \in Manifests : disk.manifests[m] # None => disk'.manifests[m] = disk.manifests[m]
    BY DEF ManifestsStay
  <2> QED BY <1>1, <1>2, <2>1, CallStays DEF Untouched, CallOK
<1> QED BY <1>4, <1>5, <1>6 DEF ThreadsOK

(* A thread ends, and what it writes makes and unmakes no reservation.       *)
Ends(e) ==
  /\ pc'[e] = "done" /\ call'[e] = call[e] /\ effect'[e] = effect[e]
  /\ e \in orphans' <=> e \in orphans
  /\ Reserved(mem', e) <=> Reserved(mem, e)
  /\ Reserved(disk', e) <=> Reserved(disk, e)
  /\ Reserved(mem, e) => mem'.executions[e].manifest = mem.executions[e].manifest
  /\ Reserved(disk, e) => disk'.executions[e].manifest = disk.executions[e].manifest

LEMMA ThreadEnds ==
  ASSUME ManagedInv, NEW e \in Executions, Ends(e), ManifestsStay
  PROVE  ThreadsOK(e)'
<1>1. ThreadOK(e) /\ CallOK(mem, e) /\ CallOK(disk, e) BY DEF ManagedInv
<1>2. ThreadOK(e)' BY <1>1 DEF ThreadOK, Ends, Preparing, Running
<1>3. CallOK(mem, e)'
  <2>1. \A m \in Manifests : mem.manifests[m] # None => mem'.manifests[m] = mem.manifests[m]
    BY DEF ManifestsStay
  <2> QED BY <1>1, <2>1, CallStays DEF Ends, CallOK
<1>4. CallOK(disk, e)'
  <2>1. \A m \in Manifests : disk.manifests[m] # None => disk'.manifests[m] = disk.manifests[m]
    BY DEF ManifestsStay
  <2> QED BY <1>1, <2>1, CallStays DEF Ends, CallOK
<1> QED BY <1>2, <1>3, <1>4 DEF ThreadsOK

LEMMA InitManaged == ASSUME Init PROVE ManagedInv
<1>1. empty_control \in Control
  BY DEF empty_control, Control, HoldRecord, ScopeKeys
<1>2. EmptyLedger \in Ledgers
  <2>1. 0 \in 0 .. MaxAdmin OBVIOUS
  <2> QED BY <1>1, <2>1 DEF EmptyLedger, Ledgers
<1>3. LedgerOK(EmptyLedger)
  BY DEF EmptyLedger, LedgerOK, ReservationsOK, ManifestsOK, Reserved, StateOf
<1>4. ManagedTypeOK
  <2>1. mem \in Ledgers /\ disk \in Ledgers BY <1>2 DEF Init
  <2>2. 0 \in 0 .. MaxFaults OBVIOUS
  <2> HIDE <1>2
  <2> QED BY <2>1, <2>2 DEF Init, ManagedTypeOK, Preparing, Running
<1>5. GateOK BY DEF Init, GateOK
<1>6. ASSUME NEW e \in Executions PROVE ThreadOK(e) /\ CallOK(mem, e) /\ CallOK(disk, e)
  <2>1. mem.executions[e] = None /\ disk.executions[e] = None BY DEF Init, EmptyLedger
  <2> QED BY <2>1 DEF Init, ThreadOK, CallOK, Reserved, StateOf, Preparing, Running
<1> QED BY <1>3, <1>4, <1>5, <1>6 DEF ManagedInv, Init

(* A transaction leaves each ledger as it was, or moves it to n; both move   *)
(* if the gate does not fail.                                               *)
LEMMA TransactionFacts ==
  ASSUME ManagedInv, up, NEW n, Transaction(n)
  PROVE  /\ ~failed /\ mem = disk
         /\ mem' \in {mem, n} /\ disk' \in {mem, n}
         /\ failed' \in BOOLEAN /\ faults' \in 0 .. MaxFaults
         /\ ~failed' => mem' = n /\ disk' = n
         /\ mem' = mem \/ (mem' = n /\ disk' = n)
<1>1. ManagedTypeOK /\ GateOK BY DEF ManagedInv
<1>2. ~failed BY DEF Transaction, Commit, CommitFails
<1>3. mem = disk BY <1>1, <1>2 DEF GateOK
<1>4. faults \in 0 .. MaxFaults /\ failed \in BOOLEAN BY <1>1 DEF ManagedTypeOK
<1>5. CASE Commit(n) BY <1>2, <1>3, <1>4, <1>5 DEF Commit
<1>6. CASE CommitFails(n)
  <2>1. faults' \in 0 .. MaxFaults BY <1>4, <1>6 DEF CommitFails, Fault
  <2> QED BY <1>2, <1>3, <2>1, <1>6 DEF CommitFails
<1> QED BY <1>5, <1>6 DEF Transaction

LEMMA NextLedgers ==
  ASSUME LedgerOK(mem'), LedgerOK(disk') PROVE LedgerOK(mem)' /\ LedgerOK(disk)'
BY DEF LedgerOK, ReservationsOK, ManifestsOK, UnknownHeld, Reserved, StateOf

LEMMA TransactionLedgers ==
  ASSUME ManagedInv, up, NEW n \in Ledgers, LedgerOK(n), Transaction(n),
         \A m \in Manifests : mem.manifests[m] # None => n.manifests[m] = mem.manifests[m]
  PROVE  /\ mem' \in Ledgers /\ disk' \in Ledgers
         /\ LedgerOK(mem)' /\ LedgerOK(disk)'
         /\ ManifestsStay
<1>1. /\ mem = disk /\ mem \in Ledgers /\ LedgerOK(mem)
      /\ mem' \in {mem, n} /\ disk' \in {mem, n}
  BY TransactionFacts DEF ManagedInv, ManagedTypeOK
<1>2. LedgerOK(mem') /\ LedgerOK(disk') BY <1>1
<1>3. LedgerOK(mem)' /\ LedgerOK(disk)' BY <1>2, NextLedgers
<1> QED BY <1>1, <1>3 DEF ManifestsStay

(* Nothing durable is reserved, and nothing that was moves on.               *)
Quiet ==
  /\ KeepsRecords(disk, disk')
  /\ \A e \in Executions : Reserved(disk, e) => StateOf(disk', e) = StateOf(disk, e)

LEMMA QuietDisk == ASSUME disk' = disk PROVE Quiet
BY DEF Quiet, KeepsRecords

(* An operation of the administration, or a proposal.                        *)
LEMMA AdministrationStep ==
  ASSUME ManagedInv, Operational, NEW n \in Ledgers, LedgerOK(n), KeepsRecords(mem, n),
         n.executions = mem.executions, Transaction(n),
         UNCHANGED <<up, pc, call, orphans, effect>>,
         fn' \in AdapterVersions \cup {None},
         fn' = n.adapter.version \/ (fn' = fn /\ n.adapter = mem.adapter),
         n.adapter = mem.adapter \/ n.adapter.revision > mem.adapter.revision
  PROVE  ManagedInv' /\ Quiet
<1>1. up /\ ~failed BY DEF Operational
<1>2. /\ mem = disk /\ mem' \in {mem, n} /\ disk' \in {mem, n}
      /\ failed' \in BOOLEAN /\ faults' \in 0 .. MaxFaults
      /\ ~failed' => mem' = n /\ disk' = n
  BY <1>1, TransactionFacts
<1>3. /\ mem' \in Ledgers /\ disk' \in Ledgers
      /\ LedgerOK(mem)' /\ LedgerOK(disk)' /\ ManifestsStay
  BY <1>1, TransactionLedgers DEF KeepsRecords
<1>4. ManagedTypeOK' BY <1>2, <1>3 DEF ManagedInv, ManagedTypeOK
<1>5. GateOK' BY <1>1, <1>2 DEF GateOK, ManagedInv
<1>6. ASSUME NEW e \in Executions PROVE ThreadsOK(e)'
  <2>1. Untouched(e) BY <1>2 DEF Untouched
  <2>2. AdapterForward BY <1>1, <1>2 DEF AdapterForward
  <2> QED BY <1>3, <2>1, <2>2, ThreadUntouched
<1>7. Quiet BY <1>2 DEF Quiet, KeepsRecords, StateOf
<1> QED BY <1>3, <1>4, <1>5, <1>6, <1>7 DEF ManagedInv, ThreadsOK

LEMMA ProfileStep ==
  ASSUME ManagedInv, (\E v \in Versions : PublishProfile(v)) \/ RevokeProfile
  PROVE  ManagedInv' /\ Quiet
<1>1. PICK v \in Versions \cup {None} :
        /\ Operational /\ Transaction([mem EXCEPT !.profile = v])
        /\ UNCHANGED <<up, fn, pc, call, orphans, effect>>
  BY DEF PublishProfile, RevokeProfile
<1>2. PICK n : n = [mem EXCEPT !.profile = v] OBVIOUS
<1>3. mem \in Ledgers /\ LedgerOK(mem) /\ fn \in AdapterVersions \cup {None}
  BY DEF ManagedInv, ManagedTypeOK
<1>4. /\ n \in Ledgers /\ LedgerOK(n) /\ KeepsRecords(mem, n)
      /\ n.executions = mem.executions /\ n.adapter = mem.adapter
  BY <1>2, <1>3, ProfileLedger
<1>5. Transaction(n) BY <1>1, <1>2
<1> QED BY <1>1, <1>3, <1>4, <1>5, AdministrationStep

LEMMA RegisterStep ==
  ASSUME ManagedInv, NEW v \in AdapterVersions, RegisterExecutor(v) PROVE ManagedInv' /\ Quiet
<1>1. PICK rev : rev = AdapterRevision(v) OBVIOUS
<1>2. PICK n : n = [mem EXCEPT !.adapter = [version |-> v, revision |-> rev]] OBVIOUS
<1>3. /\ Operational /\ rev <= MaxAdmin /\ Transaction(n) /\ fn' = v
      /\ UNCHANGED <<up, pc, call, orphans, effect>>
  BY <1>1, <1>2 DEF RegisterExecutor
<1>4. mem \in Ledgers /\ LedgerOK(mem) BY DEF ManagedInv, ManagedTypeOK
<1>5. \/ rev = mem.adapter.revision + 1
      \/ rev = mem.adapter.revision /\ v = mem.adapter.version
  BY <1>1 DEF AdapterRevision
<1>6. rev \in 0 .. MaxAdmin BY <1>3, <1>4, <1>5, LedgerFields
<1>7. /\ n \in Ledgers /\ LedgerOK(n) /\ KeepsRecords(mem, n)
      /\ n.executions = mem.executions /\ n.adapter.version = v
      /\ n.adapter = [version |-> v, revision |-> rev]
  BY <1>2, <1>4, <1>5, <1>6, AdapterLedger
<1>8. n.adapter = mem.adapter \/ n.adapter.revision > mem.adapter.revision
  <2>1. mem.adapter \in [version : AdapterVersions \cup {None}, revision : 0 .. MaxAdmin]
    BY <1>4 DEF Ledgers
  <2>2. CASE rev = mem.adapter.revision + 1 BY <1>7, <2>1, <2>2
  <2>3. CASE rev = mem.adapter.revision /\ v = mem.adapter.version BY <1>7, <2>1, <2>3
  <2> QED BY <1>5, <2>2, <2>3
<1> QED BY <1>3, <1>7, <1>8, AdministrationStep

LEMMA IngestStep ==
  ASSUME ManagedInv, NEW s \in ExternalSignals, NEW o, NEW aged, IngestSignal(s, o, aged)
  PROVE  ManagedInv' /\ Quiet
<1>1. PICK ev : ev = Event("EVALUATION_REGRESSION", o, None, s) OBVIOUS
<1>2. PICK c : c = process(mem.control, ev, aged) OBVIOUS
<1>3. PICK n : n = [mem EXCEPT !.signals = mem.signals \cup {s}, !.control = c] OBVIOUS
<1>4. /\ Operational /\ Transaction(n) /\ UNCHANGED <<up, fn, pc, call, orphans, effect>>
  BY <1>1, <1>2, <1>3 DEF IngestSignal
<1>5. mem \in Ledgers /\ LedgerOK(mem) /\ fn \in AdapterVersions \cup {None}
  BY DEF ManagedInv, ManagedTypeOK
<1>6. ev.incident \in Incidents BY <1>1 DEF Event, Incidents
<1>7. mem.control \in Control BY <1>5, LedgerFields
<1>8. c \in Control /\ ControlGrows(mem.control, c) /\ HoldsKept(mem.control, c)
  BY <1>2, <1>6, <1>7, ProcessControl
<1>9. n \in Ledgers BY <1>3, <1>5, <1>8 DEF Ledgers
<1>10. /\ n.executions = mem.executions /\ n.manifests = mem.manifests
       /\ n.dispatches = mem.dispatches /\ n.adapter = mem.adapter /\ n.control = c
  BY <1>3, <1>5 DEF Ledgers
<1>11. LedgerOK(n) /\ KeepsRecords(mem, n) BY <1>5, <1>8, <1>9, <1>10, SignalLedger
<1> QED BY <1>4, <1>5, <1>9, <1>10, <1>11, AdministrationStep

LEMMA WatchdogStep ==
  ASSUME ManagedInv, NEW overdue \in SUBSET Executions, NEW aged, Watchdog(overdue, aged)
  PROVE  ManagedInv' /\ Quiet
<1>1. PICK n : n = Reported(mem, overdue, aged) OBVIOUS
<1>2. /\ Operational /\ Transaction(n) /\ UNCHANGED <<up, fn, pc, call, orphans, effect>>
  BY <1>1 DEF Watchdog
<1>3. mem \in Ledgers /\ LedgerOK(mem) /\ fn \in AdapterVersions \cup {None}
  BY DEF ManagedInv, ManagedTypeOK
<1>4. /\ n \in Ledgers /\ LedgerOK(n) /\ KeepsRecords(mem, n)
      /\ n.executions = mem.executions /\ n.adapter = mem.adapter
  BY <1>1, <1>3, ReportedLedger
<1> QED BY <1>2, <1>3, <1>4, AdministrationStep

LEMMA RestoreStep ==
  ASSUME ManagedInv, NEW h \in Holds, RestoreRestriction(h) PROVE ManagedInv' /\ Quiet
<1>1. PICK n : n = [mem EXCEPT !.control = RestoreHold(@, h)] OBVIOUS
<1>2. /\ Operational /\ Transaction(n) /\ ~UnresolvedUnder(mem, h)
      /\ UNCHANGED <<up, fn, pc, call, orphans, effect>>
  BY <1>1 DEF RestoreRestriction
<1>3. mem \in Ledgers /\ LedgerOK(mem) /\ fn \in AdapterVersions \cup {None}
  BY DEF ManagedInv, ManagedTypeOK
<1>4. /\ n \in Ledgers /\ LedgerOK(n) /\ KeepsRecords(mem, n)
      /\ n.executions = mem.executions /\ n.adapter = mem.adapter
  BY <1>1, <1>2, <1>3, RestoreLedger
<1> QED BY <1>2, <1>3, <1>4, AdministrationStep

LEMMA ProposeStep ==
  ASSUME ManagedInv, NEW m \in Manifests, NEW a \in Actions, NEW b \in BOOLEAN,
         Propose(m, a, b)
  PROVE  ManagedInv' /\ Quiet
<1>1. PICK n : n = [mem EXCEPT !.manifests[m] = ProposalOf(mem, a, b)] OBVIOUS
<1>2. /\ Operational /\ Transaction(n) /\ mem.profile # None /\ mem.manifests[m] = None
      /\ UNCHANGED <<up, fn, pc, call, orphans, effect>>
  BY <1>1 DEF Propose, ProposalOf
<1>3. mem \in Ledgers /\ LedgerOK(mem) /\ fn \in AdapterVersions \cup {None}
  BY DEF ManagedInv, ManagedTypeOK
<1>4. /\ n \in Ledgers /\ LedgerOK(n) /\ KeepsRecords(mem, n)
      /\ n.executions = mem.executions /\ n.adapter = mem.adapter
  BY <1>1, <1>2, <1>3, ProposeLedger
<1> QED BY <1>2, <1>3, <1>4, AdministrationStep

LEMMA OtherFailsStep == ASSUME ManagedInv, OtherTransactionFails PROVE ManagedInv'
<1>1. UNCHANGED <<mem, disk, up, fn, pc, call, orphans, effect>> /\ failed' = TRUE
  BY DEF OtherTransactionFails
<1>2. ManagedTypeOK' BY <1>1 DEF ManagedInv, ManagedTypeOK, OtherTransactionFails, Fault
<1>3. LedgerOK(mem)' /\ LedgerOK(disk)'
  <2>1. LedgerOK(mem') /\ LedgerOK(disk') BY <1>1 DEF ManagedInv
  <2> QED BY <2>1, NextLedgers
<1>4. GateOK' BY <1>1 DEF GateOK
<1>5. ManifestsStay BY <1>1 DEF ManifestsStay
<1>6. ASSUME NEW e \in Executions PROVE ThreadsOK(e)'
  BY <1>1, <1>5, ThreadUntouched DEF Untouched, AdapterForward
<1> QED BY <1>2, <1>3, <1>4, <1>6 DEF ManagedInv, ThreadsOK

(* The gate, the ledgers and the store stand still.                          *)
LEMMA LedgersStay ==
  ASSUME ManagedInv, UNCHANGED <<mem, disk, up, failed, fn>>
  PROVE  LedgerOK(mem)' /\ LedgerOK(disk)' /\ GateOK' /\ ManifestsStay /\ AdapterForward
<1>1. LedgerOK(mem') /\ LedgerOK(disk') BY DEF ManagedInv
<1>2. LedgerOK(mem)' /\ LedgerOK(disk)' BY <1>1, NextLedgers
<1>3. GateOK' /\ ManifestsStay /\ AdapterForward
  BY DEF ManagedInv, GateOK, ManifestsStay, AdapterForward
<1> QED BY <1>2, <1>3

(* A call takes its manifest, then its executor; the ledgers do not move.    *)
LEMMA EvaluateStep ==
  ASSUME ManagedInv, NEW e \in Executions, NEW m \in Manifests, Evaluate(e, m)
  PROVE  ManagedInv'
<1>1. PICK x : x = [manifest |-> m, fn |-> None] OBVIOUS
<1>2. /\ up /\ pc[e] = "idle" /\ mem.manifests[m] # None
      /\ call' = [call EXCEPT ![e] = x] /\ pc' = [pc EXCEPT ![e] = "evaluated"]
      /\ UNCHANGED <<mem, disk, up, failed, fn, orphans, effect, faults>>
  BY <1>1 DEF Evaluate, Operational
<1>3. ManagedTypeOK /\ ThreadOK(e) BY DEF ManagedInv
<1>4. x \in CallRecord BY <1>1 DEF CallRecord
<1>5. ManagedTypeOK' BY <1>2, <1>3, <1>4 DEF ManagedTypeOK, Preparing
<1>6. LedgerOK(mem)' /\ LedgerOK(disk)' /\ GateOK' /\ ManifestsStay /\ AdapterForward
  BY <1>2, LedgersStay
<1>7. call'[e] = x /\ pc'[e] = "evaluated" BY <1>2, <1>3 DEF ManagedTypeOK
<1>8. ThreadsOK(e)'
  <2>1. mem.executions[e] = None /\ disk.executions[e] = None /\ e \notin orphans
        /\ effect[e] = "none"
    BY <1>2, <1>3 DEF ThreadOK
  <2>2. x # None /\ x.manifest = m BY <1>1, <1>4, NoneAssumption
  <2>3. ThreadOK(e)' BY <1>2, <1>7, <2>1, <2>2 DEF ThreadOK, Preparing, Running
  <2>4. CallOK(mem, e)' /\ CallOK(disk, e)' BY <1>2, <2>1 DEF CallOK, Reserved, StateOf
  <2> QED BY <2>3, <2>4 DEF ThreadsOK
<1>9. ASSUME NEW f \in Executions, f # e PROVE ThreadsOK(f)'
  <2>1. Untouched(f) BY <1>2, <1>3, <1>9 DEF Untouched, ManagedTypeOK
  <2> QED BY <1>2, <1>6, <2>1, ThreadUntouched
<1> QED BY <1>5, <1>6, <1>8, <1>9 DEF ManagedInv, ThreadsOK

(* The executor read is that of the adapter's present revision, which may be *)
(* no longer that of the manifest.                                          *)
LEMMA ReadStep == ASSUME ManagedInv, NEW e \in Executions, ReadExecutor(e) PROVE ManagedInv'
<1>1. PICK x : x = [call[e] EXCEPT !.fn = fn] OBVIOUS
<1>2. /\ up /\ pc[e] = "evaluated" /\ fn # None
      /\ call' = [call EXCEPT ![e] = x] /\ pc' = [pc EXCEPT ![e] = "authorised"]
      /\ UNCHANGED <<mem, disk, up, failed, fn, orphans, effect, faults>>
  BY <1>1 DEF ReadExecutor
<1>3. ManagedTypeOK /\ ThreadOK(e) /\ GateOK BY DEF ManagedInv
<1>4. /\ mem.executions[e] = None /\ disk.executions[e] = None /\ e \notin orphans
      /\ effect[e] = "none" /\ call[e] # None /\ mem.manifests[call[e].manifest] # None
  BY <1>2, <1>3 DEF ThreadOK, Preparing
<1>5. call[e] \in CallRecord BY <1>3, <1>4 DEF ManagedTypeOK
<1>6. x \in CallRecord /\ x.manifest = call[e].manifest /\ x.fn = fn
  BY <1>1, <1>3, <1>5 DEF CallRecord, ManagedTypeOK
<1>7. ManagedTypeOK' BY <1>2, <1>3, <1>6 DEF ManagedTypeOK, Preparing
<1>8. LedgerOK(mem)' /\ LedgerOK(disk)' /\ GateOK' /\ ManifestsStay /\ AdapterForward
  BY <1>2, LedgersStay
<1>9. call'[e] = x /\ pc'[e] = "authorised" BY <1>2, <1>3 DEF ManagedTypeOK
<1>10. ASSUME ~failed
       PROVE  LET r == mem.manifests[x.manifest]
              IN r.adapter = mem.adapter.revision => x.fn = r.version
  <2>1. fn = mem.adapter.version BY <1>2, <1>3, <1>10 DEF GateOK
  <2>2. x.manifest \in Manifests BY <1>6 DEF CallRecord
  <2> QED BY <1>4, <1>6, <2>1, <2>2 DEF ManagedInv, LedgerOK, ManifestsOK
<1>11. ThreadsOK(e)'
  <2>1. x # None BY <1>6, NoneAssumption
  <2>2. ThreadOK(e)'
    BY <1>2, <1>4, <1>6, <1>9, <1>10, <2>1 DEF ThreadOK, Preparing, Running
  <2>3. CallOK(mem, e)' /\ CallOK(disk, e)' BY <1>2, <1>4 DEF CallOK, Reserved, StateOf
  <2> QED BY <2>2, <2>3 DEF ThreadsOK
<1>12. ASSUME NEW f \in Executions, f # e PROVE ThreadsOK(f)'
  <2>1. Untouched(f) BY <1>2, <1>3, <1>12 DEF Untouched, ManagedTypeOK
  <2> QED BY <1>2, <1>8, <2>1, ThreadUntouched
<1> QED BY <1>7, <1>8, <1>11, <1>12 DEF ManagedInv, ThreadsOK

(* A thread, its answer recorded or not, ends.                               *)
LEMMA EndStep ==
  ASSUME ManagedInv, NEW e \in Executions, up, NEW n,
         ~failed => /\ n \in Ledgers /\ LedgerOK(n) /\ KeepsRecords(mem, n)
                    /\ n.adapter = mem.adapter
                    /\ \A f \in Executions : f # e => n.executions[f] = mem.executions[f],
         Transaction(n) \/ Latched,
         pc' = [pc EXCEPT ![e] = "done"], UNCHANGED <<up, fn, call, orphans, effect>>
  PROVE  ManagedInv'
<1>1. ManagedTypeOK /\ GateOK BY DEF ManagedInv
<1>2. /\ failed' \in BOOLEAN /\ faults' \in 0 .. MaxFaults
      /\ mem' \in Ledgers /\ disk' \in Ledgers
      /\ LedgerOK(mem)' /\ LedgerOK(disk)' /\ ManifestsStay /\ GateOK' /\ AdapterForward
      /\ \A f \in Executions :
           /\ f # e => /\ mem'.executions[f] = mem.executions[f]
                       /\ disk'.executions[f] = disk.executions[f]
           /\ Reserved(mem', f) <=> Reserved(mem, f)
           /\ Reserved(disk', f) <=> Reserved(disk, f)
           /\ Reserved(mem, f) => mem'.executions[f].manifest = mem.executions[f].manifest
           /\ Reserved(disk, f) => disk'.executions[f].manifest = disk.executions[f].manifest
  <2>1. CASE Latched
    <3>1. UNCHANGED <<mem, disk, failed, faults>> BY <2>1 DEF Latched
    <3>2. LedgerOK(mem)' /\ LedgerOK(disk)' /\ GateOK' /\ ManifestsStay /\ AdapterForward
      BY <3>1, LedgersStay
    <3> QED BY <1>1, <3>1, <3>2 DEF ManagedTypeOK
  <2>2. CASE Transaction(n)
    <3>1. /\ ~failed /\ mem = disk /\ mem' \in {mem, n} /\ disk' \in {mem, n}
          /\ failed' \in BOOLEAN /\ faults' \in 0 .. MaxFaults
          /\ ~failed' => mem' = n /\ disk' = n
      BY <2>2, TransactionFacts
    <3>2. /\ n \in Ledgers /\ LedgerOK(n) /\ KeepsRecords(mem, n)
          /\ n.adapter = mem.adapter
          /\ \A f \in Executions : f # e => n.executions[f] = mem.executions[f]
      BY <3>1
    <3>3. /\ mem' \in Ledgers /\ disk' \in Ledgers
          /\ LedgerOK(mem)' /\ LedgerOK(disk)' /\ ManifestsStay
      BY <2>2, <3>2, TransactionLedgers DEF KeepsRecords
    <3>4. GateOK' /\ AdapterForward BY <1>1, <3>1, <3>2 DEF GateOK, AdapterForward
    <3> QED BY <3>1, <3>2, <3>3, <3>4 DEF KeepsRecords
  <2> QED BY <2>1, <2>2
<1>3. ManagedTypeOK' BY <1>1, <1>2 DEF ManagedTypeOK, Preparing, Running
<1>4. pc'[e] = "done" /\ \A f \in Executions : f # e => pc'[f] = pc[f]
  BY <1>1 DEF ManagedTypeOK
<1>5. ThreadsOK(e)'
  <2>1. Ends(e) BY <1>2, <1>4 DEF Ends
  <2> QED BY <1>2, <2>1, ThreadEnds
<1>6. ASSUME NEW f \in Executions, f # e PROVE ThreadsOK(f)'
  <2>1. Untouched(f) BY <1>2, <1>4, <1>6 DEF Untouched
  <2> QED BY <1>2, <2>1, ThreadUntouched
<1> QED BY <1>2, <1>3, <1>5, <1>6 DEF ManagedInv, ThreadsOK

LEMMA RefuseStep ==
  ASSUME ManagedInv, NEW e \in Executions, NEW m \in Manifests, Refuse(e, m)
  PROVE  ManagedInv' /\ Quiet
<1>1. PICK n : n = Refused(mem, e, m) OBVIOUS
<1>2. /\ up /\ pc[e] \in {"idle"} \cup Preparing /\ (Transaction(n) \/ Latched)
      /\ pc' = [pc EXCEPT ![e] = "done"] /\ UNCHANGED <<up, fn, call, orphans, effect>>
  BY <1>1 DEF Refuse, Refused
<1>3. mem \in Ledgers /\ LedgerOK(mem) /\ ThreadOK(e) BY DEF ManagedInv, ManagedTypeOK
<1>4. mem.executions[e] = None BY <1>2, <1>3 DEF ThreadOK
<1>5. /\ n \in Ledgers /\ LedgerOK(n) /\ KeepsRecords(mem, n) /\ n.adapter = mem.adapter
      /\ \A f \in Executions : f # e => n.executions[f] = mem.executions[f]
  BY <1>1, <1>3, <1>4, RefuseLedger
<1>6. disk' = disk \/ (disk' = n /\ mem = disk)
  <2>1. CASE Latched BY <2>1 DEF Latched
  <2>2. CASE Transaction(n) BY <1>2, <2>2, TransactionFacts
  <2> QED BY <1>2, <2>1, <2>2
<1>7. Quiet
  <2>1. CASE disk' = disk BY <2>1, QuietDisk
  <2>2. CASE disk' = n /\ mem = disk
    <3>1. ~Reserved(mem, e) BY <1>4 DEF Reserved, StateOf
    <3> QED BY <1>5, <2>2, <3>1 DEF Quiet, StateOf
  <2> QED BY <1>6, <2>1, <2>2
<1>8. ManagedInv' BY <1>2, <1>5, EndStep
<1> QED BY <1>7, <1>8

LEMMA ReturnStep ==
  ASSUME ManagedInv, NEW e \in Executions, NEW s, NEW aged, ExecutorReturns(e, s, aged)
  PROVE  ManagedInv'
<1>1. PICK n : n = Transition(mem, e, s, aged) OBVIOUS
<1>2. /\ e \notin orphans /\ pc[e] \in {"admitted", "calling"}
      /\ s \in {"ACKNOWLEDGED", "EXECUTION_UNKNOWN", "NOT_ATTEMPTED"}
      /\ Transaction(n) \/ Latched
      /\ pc' = [pc EXCEPT ![e] = "done"] /\ UNCHANGED <<up, fn, call, orphans, effect>>
  BY <1>1 DEF ExecutorReturns
<1>3. mem \in Ledgers /\ LedgerOK(mem) /\ ThreadOK(e) /\ GateOK
  BY DEF ManagedInv, ManagedTypeOK
<1>4. up /\ Reserved(disk, e) BY <1>2, <1>3 DEF ThreadOK, Running
<1>5. ASSUME ~failed
      PROVE  /\ n \in Ledgers /\ LedgerOK(n) /\ KeepsRecords(mem, n) /\ n.adapter = mem.adapter
             /\ \A f \in Executions : f # e => n.executions[f] = mem.executions[f]
  <2>1. Reserved(mem, e) BY <1>3, <1>4, <1>5 DEF GateOK
  <2> QED BY <1>1, <1>2, <1>3, <2>1, TransitionLedger
<1> QED BY <1>2, <1>4, <1>5, EndStep

LEMMA OrphanStep ==
  ASSUME ManagedInv, NEW e \in Executions, OrphanReturns(e) PROVE ManagedInv'
<1>1. /\ pc' = [pc EXCEPT ![e] = "done"]
      /\ UNCHANGED <<mem, disk, up, failed, fn, call, orphans, effect, faults>>
  BY DEF OrphanReturns
<1>2. ManagedTypeOK BY DEF ManagedInv
<1>3. LedgerOK(mem)' /\ LedgerOK(disk)' /\ GateOK' /\ ManifestsStay /\ AdapterForward
  BY <1>1, LedgersStay
<1>4. ManagedTypeOK' BY <1>1, <1>2 DEF ManagedTypeOK, Running
<1>5. pc'[e] = "done" /\ \A f \in Executions : f # e => pc'[f] = pc[f]
  BY <1>1, <1>2 DEF ManagedTypeOK
<1>6. ThreadsOK(e)'
  <2>1. Ends(e) BY <1>1, <1>5 DEF Ends
  <2> QED BY <1>3, <2>1, ThreadEnds
<1>7. ASSUME NEW f \in Executions, f # e PROVE ThreadsOK(f)'
  <2>1. Untouched(f) BY <1>1, <1>5, <1>7 DEF Untouched
  <2> QED BY <1>1, <1>3, <2>1, ThreadUntouched
<1> QED BY <1>3, <1>4, <1>6, <1>7 DEF ManagedInv, ThreadsOK

(* The reservation: the thread goes on if it is acknowledged, and what may    *)
(* be durable without the gate's knowledge is bound to its call all the same. *)
Reserves(e, m, a, n) ==
  /\ pc[e] = "authorised" /\ ~failed
  /\ m = call[e].manifest /\ a = mem.manifests[m].action
  /\ AdmissionClear(mem, m) /\ mem.dispatches[a] = None
  /\ n = Admitted(mem, e, m, a)

MayReserve(e, m, a, n) ==
  /\ mem.executions[e] = None /\ e \notin orphans /\ effect[e] = "none" /\ up
  /\ call[e] # None /\ m \in Manifests /\ mem.manifests[m] # None
  /\ n \in Ledgers /\ LedgerOK(n)
  /\ n.manifests = mem.manifests /\ n.adapter = mem.adapter
  /\ n.dispatches = [mem.dispatches EXCEPT ![a] = e]
  /\ n.executions[e].manifest = m /\ StateOf(n, e) = "DISPATCHED"
  /\ call[e].fn = n.manifests[m].version
  /\ \A f \in Executions : f # e => n.executions[f] = mem.executions[f]

LEMMA AdmitFacts ==
  ASSUME ManagedInv, NEW e \in Executions, NEW m, NEW a, NEW n, Reserves(e, m, a, n)
  PROVE  MayReserve(e, m, a, n)
<1>1. mem \in Ledgers /\ LedgerOK(mem) /\ ThreadOK(e) BY DEF ManagedInv, ManagedTypeOK
<1>2. /\ mem.executions[e] = None /\ e \notin orphans /\ effect[e] = "none" /\ up
      /\ call[e] # None /\ mem.manifests[m] # None
      /\ call[e].fn = mem.manifests[m].version
  BY <1>1 DEF ThreadOK, Reserves, AdmissionClear, Preparing
<1>3. m \in Manifests BY <1>2, CallFields DEF Reserves
<1>4. /\ n \in Ledgers /\ LedgerOK(n)
      /\ n.manifests = mem.manifests /\ n.adapter = mem.adapter
      /\ n.dispatches = [mem.dispatches EXCEPT ![a] = e]
      /\ n.executions[e].manifest = m /\ StateOf(n, e) = "DISPATCHED"
      /\ \A f \in Executions : f # e => n.executions[f] = mem.executions[f]
  BY <1>1, <1>2, <1>3, AdmitLedger DEF Reserves
<1> QED BY <1>2, <1>3, <1>4 DEF MayReserve

LEMMA AdmitStep ==
  ASSUME ManagedInv, NEW e \in Executions, Admit(e) PROVE ManagedInv'
<1>1. PICK m : m = call[e].manifest OBVIOUS
<1>2. PICK a : a = mem.manifests[m].action OBVIOUS
<1>3. PICK n : n = Admitted(mem, e, m, a) OBVIOUS
<1>4. /\ up /\ pc[e] = "authorised" /\ UNCHANGED <<up, fn, call, orphans, effect>>
      /\ \/ /\ AdmissionClear(mem, m) /\ mem.dispatches[a] = None
            /\ \/ Commit(n) /\ pc' = [pc EXCEPT ![e] = "admitted"]
               \/ CommitFails(n) /\ pc' = [pc EXCEPT ![e] = "done"]
         \/ Latched /\ pc' = [pc EXCEPT ![e] = "done"]
  BY <1>1, <1>2, <1>3 DEF Admit, Admitted
<1>5. CASE Latched /\ pc' = [pc EXCEPT ![e] = "done"]
  <2>1. failed BY <1>5 DEF Latched
  <2> QED BY <1>4, <1>5, <2>1, EndStep
<1>6. CASE /\ AdmissionClear(mem, m) /\ mem.dispatches[a] = None
           /\ \/ Commit(n) /\ pc' = [pc EXCEPT ![e] = "admitted"]
              \/ CommitFails(n) /\ pc' = [pc EXCEPT ![e] = "done"]
  <2>1. Transaction(n) BY <1>6 DEF Transaction
  <2>2. /\ ~failed /\ mem = disk /\ mem' \in {mem, n} /\ disk' \in {mem, n}
        /\ failed' \in BOOLEAN /\ faults' \in 0 .. MaxFaults
        /\ ~failed' => mem' = n /\ disk' = n
    BY <1>4, <2>1, TransactionFacts
  <2>3. /\ mem.executions[e] = None /\ e \notin orphans /\ effect[e] = "none"
        /\ call[e] # None /\ m \in Manifests
        /\ n \in Ledgers /\ LedgerOK(n)
        /\ n.manifests = mem.manifests /\ n.adapter = mem.adapter
        /\ n.executions[e].manifest = m /\ StateOf(n, e) = "DISPATCHED"
        /\ call[e].fn = n.manifests[m].version
        /\ \A f \in Executions : f # e => n.executions[f] = mem.executions[f]
    <3>1. Reserves(e, m, a, n) BY <1>1, <1>2, <1>3, <1>4, <1>6, <2>2 DEF Reserves
    <3>2. MayReserve(e, m, a, n) BY <3>1, AdmitFacts
    <3> QED BY <3>2 DEF MayReserve
  <2>4. /\ mem' \in Ledgers /\ disk' \in Ledgers
        /\ LedgerOK(mem)' /\ LedgerOK(disk)' /\ ManifestsStay
    BY <1>4, <2>1, <2>3, TransactionLedgers
  <2>5. ManagedTypeOK BY DEF ManagedInv
  <2>6. ManagedTypeOK' BY <1>4, <1>6, <2>2, <2>4, <2>5 DEF ManagedTypeOK, Running
  <2>7. GateOK' BY <1>4, <2>2, <2>3 DEF ManagedInv, GateOK
  <2>8. ThreadsOK(e)'
    <3>1. /\ Reserved(n, e) /\ ~Reserved(mem, e)
      BY <2>3 DEF Reserved, StateOf
    <3>2. CallOK(mem, e)' BY <1>1, <1>4, <2>2, <2>3, <3>1 DEF CallOK
    <3>3. CallOK(disk, e)' BY <1>1, <1>4, <2>2, <2>3, <3>1 DEF CallOK
    <3>4. ThreadOK(e)'
      <4>1. CASE Commit(n) /\ pc' = [pc EXCEPT ![e] = "admitted"]
        <5>1. pc'[e] = "admitted" /\ disk' = n BY <2>5, <4>1 DEF ManagedTypeOK, Commit
        <5> QED BY <1>4, <2>3, <3>1, <5>1 DEF ThreadOK, Preparing, Running
      <4>2. CASE pc' = [pc EXCEPT ![e] = "done"]
        <5>1. pc'[e] = "done" BY <2>5, <4>2 DEF ManagedTypeOK
        <5> QED BY <1>4, <2>3, <5>1 DEF ThreadOK, Preparing, Running
      <4> QED BY <1>6, <4>1, <4>2
    <3> QED BY <3>2, <3>3, <3>4 DEF ThreadsOK
  <2>9. ASSUME NEW f \in Executions, f # e PROVE ThreadsOK(f)'
    <3>1. pc'[f] = pc[f] BY <1>6, <2>5, <2>9 DEF ManagedTypeOK
    <3>2. Untouched(f) BY <1>4, <2>2, <2>3, <2>9, <3>1 DEF Untouched
    <3>3. AdapterForward BY <2>2, <2>3 DEF AdapterForward
    <3> QED BY <1>4, <2>4, <3>2, <3>3, ThreadUntouched
  <2> QED BY <2>4, <2>6, <2>7, <2>8, <2>9 DEF ManagedInv, ThreadsOK
<1> QED BY <1>4, <1>5, <1>6

(* The executor and the downstream system: the ledgers do not move.          *)
LEMMA CallStep ==
  ASSUME ManagedInv, NEW e \in Executions, CallExecutor(e) PROVE ManagedInv'
<1> DEFINE x == IF effect[e] = "none" THEN "inflight" ELSE "fenced"
<1>1. /\ pc[e] = "admitted" /\ effect' = [effect EXCEPT ![e] = x]
      /\ pc' = [pc EXCEPT ![e] = "calling"]
      /\ UNCHANGED <<mem, disk, up, failed, fn, call, orphans, faults>>
  BY DEF CallExecutor
<1>2. ManagedTypeOK BY DEF ManagedInv
<1>3. LedgerOK(mem)' /\ LedgerOK(disk)' /\ GateOK' /\ ManifestsStay /\ AdapterForward
  BY <1>1, LedgersStay
<1>4. ManagedTypeOK' BY <1>1, <1>2 DEF ManagedTypeOK, Running
<1>5. pc'[e] = "calling" /\ effect'[e] = x BY <1>1, <1>2 DEF ManagedTypeOK
<1>6. ThreadsOK(e)'
  <2>1. ThreadOK(e) /\ CallOK(mem, e) /\ CallOK(disk, e) BY DEF ManagedInv
  <2>2. ThreadOK(e)' BY <1>1, <1>5, <2>1 DEF ThreadOK, Reserved, StateOf, Preparing, Running
  <2>3. CallOK(mem, e)' /\ CallOK(disk, e)' BY <1>1, <2>1 DEF CallOK, Reserved, StateOf
  <2> QED BY <2>2, <2>3 DEF ThreadsOK
<1>7. ASSUME NEW f \in Executions, f # e PROVE ThreadsOK(f)'
  <2>1. Untouched(f) BY <1>1, <1>2, <1>7 DEF Untouched, ManagedTypeOK
  <2> QED BY <1>1, <1>3, <2>1, ThreadUntouched
<1> QED BY <1>3, <1>4, <1>6, <1>7 DEF ManagedInv, ThreadsOK

LEMMA DownstreamStep ==
  ASSUME ManagedInv, NEW e \in Executions, NEW fate \in {"committed", "fenced", "blocked"},
         Downstream(e, fate)
  PROVE  ManagedInv'
<1>1. /\ \/ effect[e] = "inflight" /\ fate \in {"committed", "fenced"}
         \/ effect[e] = "none" /\ e \in orphans /\ fate = "blocked"
      /\ effect' = [effect EXCEPT ![e] = fate]
      /\ UNCHANGED <<mem, disk, up, failed, fn, pc, call, orphans, faults>>
  BY DEF Downstream
<1>2. ManagedTypeOK BY DEF ManagedInv
<1>3. LedgerOK(mem)' /\ LedgerOK(disk)' /\ GateOK' /\ ManifestsStay /\ AdapterForward
  BY <1>1, LedgersStay
<1>4. ManagedTypeOK' BY <1>1, <1>2 DEF ManagedTypeOK, Running
<1>5. effect'[e] = fate BY <1>1, <1>2 DEF ManagedTypeOK
<1>6. ThreadsOK(e)'
  <2>1. ThreadOK(e) /\ CallOK(mem, e) /\ CallOK(disk, e) BY DEF ManagedInv
  <2>2. ThreadOK(e)' BY <1>1, <1>5, <2>1 DEF ThreadOK, Reserved, StateOf, Preparing, Running
  <2>3. CallOK(mem, e)' /\ CallOK(disk, e)' BY <1>1, <2>1 DEF CallOK, Reserved, StateOf
  <2> QED BY <2>2, <2>3 DEF ThreadsOK
<1>7. ASSUME NEW f \in Executions, f # e PROVE ThreadsOK(f)'
  <2>1. Untouched(f) BY <1>1, <1>2, <1>7 DEF Untouched, ManagedTypeOK
  <2> QED BY <1>1, <1>3, <2>1, ThreadUntouched
<1> QED BY <1>3, <1>4, <1>6, <1>7 DEF ManagedInv, ThreadsOK

LEMMA ReconcileStep ==
  ASSUME ManagedInv, NEW e \in Executions, NEW s, Reconcile(e, s) PROVE ManagedInv'
<1>1. PICK n : n = Transition(mem, e, s, {}) OBVIOUS
<1>2. /\ up /\ ~failed /\ s \in {"COMMITTED", "NOT_COMMITTED"}
      /\ mem.executions[e] # None /\ mem.executions[e].state = "EXECUTION_UNKNOWN"
      /\ s = "COMMITTED" => effect[e] = "committed"
      /\ Transaction(n) /\ UNCHANGED <<up, fn, pc, call, orphans, effect>>
  BY <1>1 DEF Reconcile, Operational, Transition
<1>3. mem \in Ledgers /\ LedgerOK(mem) /\ ThreadOK(e) BY DEF ManagedInv, ManagedTypeOK
<1>4. StateOf(mem, e) = "EXECUTION_UNKNOWN" /\ Reserved(mem, e)
  BY <1>2 DEF Reserved, StateOf
<1>5. /\ n \in Ledgers /\ LedgerOK(n) /\ KeepsRecords(mem, n)
      /\ n.adapter = mem.adapter /\ StateOf(n, e) = s
      /\ \A f \in Executions : f # e => n.executions[f] = mem.executions[f]
  BY <1>1, <1>2, <1>3, <1>4, TransitionLedger
<1>6. /\ mem = disk /\ mem' \in {mem, n} /\ disk' \in {mem, n}
      /\ failed' \in BOOLEAN /\ faults' \in 0 .. MaxFaults
      /\ ~failed' => mem' = n /\ disk' = n
  BY <1>2, TransactionFacts
<1>7. /\ mem' \in Ledgers /\ disk' \in Ledgers
      /\ LedgerOK(mem)' /\ LedgerOK(disk)' /\ ManifestsStay
  BY <1>2, <1>5, TransactionLedgers DEF KeepsRecords
<1>8. ManagedTypeOK' BY <1>2, <1>6, <1>7 DEF ManagedInv, ManagedTypeOK
<1>9. GateOK' BY <1>2, <1>5, <1>6 DEF ManagedInv, GateOK
<1>10. ThreadsOK(e)'
  <2>1. CallOK(mem, e) /\ CallOK(disk, e) BY DEF ManagedInv
  <2>2. /\ Reserved(n, e) /\ n.executions[e].manifest = mem.executions[e].manifest
        /\ \A m \in Manifests : mem.manifests[m] # None => n.manifests[m] = mem.manifests[m]
    BY <1>4, <1>5 DEF KeepsRecords
  <2>3. CallOK(mem, e)' /\ CallOK(disk, e)'
    <3>1. Reserved(mem', e) => /\ call'[e] # None
                               /\ call'[e].manifest = mem'.executions[e].manifest
                               /\ call'[e].fn = mem'.manifests[call'[e].manifest].version
      BY <1>2, <1>4, <1>6, <2>1, <2>2, CallStays
    <3>2. Reserved(disk', e) => /\ call'[e] # None
                                /\ call'[e].manifest = disk'.executions[e].manifest
                                /\ call'[e].fn = disk'.manifests[call'[e].manifest].version
      BY <1>2, <1>4, <1>6, <2>1, <2>2, CallStays
    <3> QED BY <3>1, <3>2 DEF CallOK
  <2>4. /\ pc[e] \notin {"idle"} \cup Preparing
        /\ pc[e] \in Running => e \in orphans
        /\ pc[e] = "admitted" => s = "NOT_COMMITTED"
    BY <1>2, <1>3, <1>4, <1>6 DEF ThreadOK
  <2>5. Reserved(disk', e) /\ StateOf(disk', e) \in {"EXECUTION_UNKNOWN", s}
    BY <1>4, <1>5, <1>6, <2>2
  <2>6. ThreadOK(e)' BY <1>2, <1>3, <2>4, <2>5 DEF ThreadOK, Preparing, Running
  <2> QED BY <2>3, <2>6 DEF ThreadsOK
<1>11. ASSUME NEW f \in Executions, f # e PROVE ThreadsOK(f)'
  <2>1. Untouched(f) BY <1>2, <1>5, <1>6, <1>11 DEF Untouched
  <2>2. AdapterForward BY <1>2, <1>5, <1>6 DEF AdapterForward
  <2> QED BY <1>2, <1>7, <2>1, <2>2, ThreadUntouched
<1> QED BY <1>7, <1>8, <1>9, <1>10, <1>11 DEF ManagedInv, ThreadsOK

(* Threads that die with their process, or refuse with their gate.           *)
LEMMA DownStep ==
  ASSUME ManagedInv, Crash \/ Close PROVE ManagedInv'
<1>1. ManagedTypeOK BY DEF ManagedInv
<1>2. /\ up' = FALSE /\ UNCHANGED <<mem, disk, failed, fn, call, effect>>
      /\ faults' \in 0 .. MaxFaults
      /\ orphans' \in SUBSET Executions
  BY <1>1 DEF Crash, Close, Fault, ManagedTypeOK
<1>3. LedgerOK(mem)' /\ LedgerOK(disk)'
  <2>1. LedgerOK(mem') /\ LedgerOK(disk') BY <1>2 DEF ManagedInv
  <2> QED BY <2>1, NextLedgers
<1>4. GateOK' BY <1>2 DEF GateOK
<1>5. pc' \in [Executions -> {"idle", "done"} \cup Preparing \cup Running]
  BY <1>1 DEF Crash, Close, ManagedTypeOK
<1>6. ManagedTypeOK' BY <1>1, <1>2, <1>5 DEF ManagedTypeOK
<1>7. ASSUME NEW e \in Executions PROVE ThreadsOK(e)'
  <2>1. ThreadOK(e) /\ CallOK(mem, e) /\ CallOK(disk, e) BY DEF ManagedInv
  <2>2. CallOK(mem, e)' /\ CallOK(disk, e)' BY <1>2, <2>1 DEF CallOK, Reserved, StateOf
  <2>3. CASE Crash
    <3>1. pc'[e] \in {"idle", "done"} /\ (pc'[e] = "idle" => pc[e] = "idle") BY <2>3 DEF Crash
    <3>2. orphans' = orphans BY <2>3 DEF Crash
    <3>3. ThreadOK(e)'
      BY <1>2, <2>1, <3>1, <3>2 DEF ThreadOK, Reserved, StateOf, Preparing, Running
    <3> QED BY <2>2, <3>3 DEF ThreadsOK
  <2>4. CASE Close
    <3>1. pc'[e] = IF pc[e] \in Preparing THEN "done" ELSE pc[e] BY <2>4 DEF Close
    <3>2. e \in orphans' <=> e \in orphans \/ pc[e] \in Running
      BY <2>4 DEF Close
    <3>3. ThreadOK(e)'
      BY <1>2, <2>1, <3>1, <3>2 DEF ThreadOK, Reserved, StateOf, Preparing, Running
    <3> QED BY <2>2, <3>3 DEF ThreadsOK
  <2> QED BY <2>3, <2>4
<1> QED BY <1>3, <1>4, <1>6, <1>7 DEF ManagedInv, ThreadsOK

(* A new owner, or an attempt at one.                                        *)
LEMMA RestartStep ==
  ASSUME ManagedInv, NEW aged, Restart(aged) PROVE ManagedInv'
<1>1. ManagedTypeOK /\ disk \in Ledgers /\ LedgerOK(disk) /\ LedgerOK(mem)
  BY DEF ManagedInv, ManagedTypeOK
<1>2. /\ ~up /\ disk' = Recovered(disk, aged) /\ UNCHANGED <<pc, call, orphans, effect>>
      /\ \/ mem' = disk' /\ up' = TRUE /\ failed' = FALSE /\ fn' = None /\ faults' = faults
         \/ Fault /\ UNCHANGED <<mem, up, failed, fn>>
  BY DEF Restart
<1>3. RecoveredFrom(disk, disk', Interrupted(disk)) BY <1>1, <1>2, RecoveredLedger
<1>4. /\ disk' \in Ledgers /\ LedgerOK(disk') /\ KeepsRecords(disk, disk')
      /\ \A e \in Executions :
           \/ disk'.executions[e] = disk.executions[e] /\ StateOf(disk, e) # "DISPATCHED"
           \/ StateOf(disk, e) = "DISPATCHED" /\ StateOf(disk', e) = "EXECUTION_UNKNOWN"
  BY <1>3 DEF RecoveredFrom, Interrupted, StateOf
<1>5. mem' \in Ledgers /\ LedgerOK(mem') BY <1>1, <1>2, <1>4 DEF ManagedTypeOK
<1>6. LedgerOK(mem)' /\ LedgerOK(disk)' BY <1>4, <1>5, NextLedgers
<1>7. ManagedTypeOK'
  <2>1. faults' \in 0 .. MaxFaults BY <1>1, <1>2 DEF ManagedTypeOK, Fault
  <2>2. up' \in BOOLEAN /\ failed' \in BOOLEAN /\ fn' \in AdapterVersions \cup {None}
    BY <1>1, <1>2 DEF ManagedTypeOK
  <2>3. disk' \in Ledgers /\ UNCHANGED <<pc, call, orphans, effect>> BY <1>2, <1>4
  <2> QED BY <1>1, <1>5, <2>1, <2>2, <2>3 DEF ManagedTypeOK
<1>8. GateOK' BY <1>2 DEF GateOK
<1>9. ASSUME NEW e \in Executions PROVE ThreadsOK(e)'
  <2>1. ThreadOK(e) /\ CallOK(mem, e) /\ CallOK(disk, e) BY DEF ManagedInv
  <2>2. CallOK(disk, e)'
    <3>1. \A m \in Manifests : disk.manifests[m] # None => disk'.manifests[m] = disk.manifests[m]
      BY <1>4 DEF KeepsRecords
    <3>2. Reserved(disk', e) => /\ Reserved(disk, e)
                                /\ disk'.executions[e].manifest = disk.executions[e].manifest
      BY <1>4 DEF KeepsRecords
    <3>3. call'[e] = call[e] BY <1>2
    <3> QED BY <2>1, <3>1, <3>2, <3>3, CallStays DEF CallOK
  <2>3. CallOK(mem, e)'
    <3>1. CASE mem' = disk' BY <2>2, <3>1 DEF CallOK
    <3>2. CASE mem' = mem BY <1>2, <2>1, <3>2 DEF CallOK, Reserved, StateOf
    <3> QED BY <1>2, <3>1, <3>2
  <2>4. pc[e] \notin Preparing /\ (pc[e] \in Running => e \in orphans)
    BY <1>2, <2>1 DEF ThreadOK
  <2>5. Reserved(disk', e) <=> Reserved(disk, e) BY <1>4 DEF KeepsRecords
  <2>6. ASSUME pc[e] = "idle" PROVE mem'.executions[e] = None /\ disk'.executions[e] = None
    <3>1. mem.executions[e] = None /\ disk.executions[e] = None BY <2>1, <2>6 DEF ThreadOK
    <3>2. StateOf(disk, e) # "DISPATCHED" BY <3>1 DEF StateOf
    <3> QED BY <1>2, <1>4, <3>1, <3>2
  <2>7. ASSUME pc[e] = "admitted"
        PROVE  StateOf(disk', e) \in {"DISPATCHED", "EXECUTION_UNKNOWN", "NOT_COMMITTED"}
    BY <1>4, <2>1, <2>7 DEF ThreadOK, StateOf
  <2>8. ThreadOK(e)' BY <1>2, <2>1, <2>4, <2>5, <2>6, <2>7 DEF ThreadOK, Preparing
  <2> QED BY <2>2, <2>3, <2>8 DEF ThreadsOK
<1> QED BY <1>6, <1>7, <1>8, <1>9 DEF ManagedInv, ThreadsOK

LEMMA NextManaged == ASSUME ManagedInv, [Next]_vars PROVE ManagedInv'
<1>1. CASE Administer
  <2>1. ASSUME NEW v \in AdapterVersions, RegisterExecutor(v) PROVE ManagedInv'
    BY <2>1, RegisterStep
  <2>2. ASSUME NEW s \in ExternalSignals, NEW o \in Operations, NEW aged \in SUBSET MayAge,
               IngestSignal(s, o, aged)
        PROVE  ManagedInv'
    BY <2>2, IngestStep
  <2>3. ASSUME NEW overdue \in SUBSET Executions, NEW aged \in SUBSET MayAge,
               Watchdog(overdue, aged)
        PROVE  ManagedInv'
    BY <2>3, WatchdogStep
  <2>4. ASSUME NEW h \in Holds, RestoreRestriction(h) PROVE ManagedInv' BY <2>4, RestoreStep
  <2> QED BY <1>1, <2>1, <2>2, <2>3, <2>4, ProfileStep, OtherFailsStep DEF Administer
<1>2. CASE Request
  <2>1. ASSUME NEW m \in Manifests, NEW a \in Actions, NEW b \in BOOLEAN, Propose(m, a, b)
        PROVE  ManagedInv'
    BY <2>1, ProposeStep
  <2>2. ASSUME NEW e \in Executions, NEW m \in Manifests, Evaluate(e, m) \/ Refuse(e, m)
        PROVE  ManagedInv'
    BY <2>2, EvaluateStep, RefuseStep
  <2> QED BY <1>2, <2>1, <2>2 DEF Request
<1>3. CASE Crash \/ Close BY <1>3, DownStep
<1>4. ASSUME NEW aged \in SUBSET MayAge, Restart(aged) PROVE ManagedInv' BY <1>4, RestartStep
<1>5. ASSUME NEW e \in Executions, ThreadStep(e) PROVE ManagedInv'
  <2>1. ASSUME NEW m \in Manifests, Refuse(e, m) PROVE ManagedInv' BY <2>1, RefuseStep
  <2>2. ASSUME NEW s \in States, NEW aged \in SUBSET MayAge, ExecutorReturns(e, s, aged)
        PROVE  ManagedInv'
    BY <2>2, ReturnStep
  <2> QED BY <1>5, <2>1, <2>2, ReadStep, AdmitStep, CallStep, OrphanStep DEF ThreadStep
<1>6. ASSUME NEW e \in Executions, NEW fate \in {"committed", "fenced", "blocked"},
             Downstream(e, fate)
      PROVE  ManagedInv'
  BY <1>6, DownstreamStep
<1>7. ASSUME NEW e \in Executions, NEW s \in {"COMMITTED", "NOT_COMMITTED"}, Reconcile(e, s)
      PROVE  ManagedInv'
  BY <1>7, ReconcileStep
<1>8. CASE UNCHANGED vars
  <2>1. UNCHANGED <<mem, disk, up, failed, fn>> /\ UNCHANGED <<pc, call, orphans, effect, faults>>
    BY <1>8 DEF vars
  <2>2. LedgerOK(mem)' /\ LedgerOK(disk)' /\ GateOK' /\ ManifestsStay /\ AdapterForward
    BY <2>1, LedgersStay
  <2>3. ManagedTypeOK' BY <2>1 DEF ManagedInv, ManagedTypeOK
  <2>4. ASSUME NEW e \in Executions PROVE ThreadsOK(e)'
    BY <2>1, <2>2, ThreadUntouched DEF Untouched
  <2> QED BY <2>2, <2>3, <2>4 DEF ManagedInv, ThreadsOK
<1> QED BY <1>1, <1>2, <1>3, <1>4, <1>5, <1>6, <1>7, <1>8 DEF Next

(* The ledgers, the gate and its threads stay consistent with each other      *)
(* through lost and unacknowledged commits, crashes, closings and restarts  *)
(* (AuditTransactionLock, __init__, execute()).                             *)
THEOREM ManagedInvariant == Spec => []ManagedInv
<1>1. Init => ManagedInv BY InitManaged
<1>2. ManagedInv /\ [Next]_vars => ManagedInv' BY NextManaged
<1> QED BY <1>1, <1>2, PTL DEF Spec

(* Every variable keeps its type.                                            *)
THEOREM ManagedTypes == Spec => []ManagedTypeOK
<1>1. ManagedInv => ManagedTypeOK BY DEF ManagedInv
<1> QED BY <1>1, ManagedInvariant, PTL

(* The executor is called only under a reservation that is durable.          *)
THEOREM EffectStands == Spec => []EffectIsOnDisk
<1>1. ASSUME ManagedInv PROVE EffectIsOnDisk
  <2> SUFFICES ASSUME NEW e \in Executions, effect[e] # "none"
               PROVE  /\ Reserved(disk, e)
                      /\ disk.dispatches[disk.manifests[call[e].manifest].action] = e
    BY DEF EffectIsOnDisk
  <2>1. disk \in Ledgers /\ ReservationsOK(disk) /\ ThreadOK(e) /\ CallOK(disk, e)
    BY <1>1 DEF ManagedInv, ManagedTypeOK, LedgerOK
  <2>2. Reserved(disk, e) BY <2>1 DEF ThreadOK
  <2>3. call[e].manifest = disk.executions[e].manifest BY <2>1, <2>2 DEF CallOK
  <2> QED BY <2>1, <2>2, <2>3, ReservedManifest
<1> QED BY <1>1, ManagedInvariant, PTL

(* A durable unknown outcome holds the scopes of its action, whatever fails,  *)
(* restarts or is restored meanwhile.                                       *)
THEOREM UnknownStands == Spec => []UnknownIsHeld
<1>1. ASSUME ManagedInv PROVE UnknownIsHeld
  BY <1>1 DEF ManagedInv, LedgerOK, UnknownHeld, UnknownIsHeld
<1> QED BY <1>1, ManagedInvariant, PTL

(* The executor that is called is the one that was on record at the proposal. *)
THEOREM ExecutorStands == Spec => []AdapterStands
<1>1. ASSUME ManagedInv PROVE AdapterStands
  BY <1>1 DEF ManagedInv, CallOK, AdapterStands
<1> QED BY <1>1, ManagedInvariant, PTL
-----------------------------------------------------------------------------
(* The ledger that is durable implements the action ledger.                *)

Outcome == [a \in Actions |-> OutcomeOf(a)]
Attempted == [a \in Actions |-> AttemptedOf(a)]

(* The action a reservation is for.                                          *)
ActionOf(e) == disk.manifests[disk.executions[e].manifest].action

LEMMA DispatchOf ==
  ASSUME ManagedInv
  PROVE  /\ \A e \in Executions : Reserved(disk, e) =>
              ActionOf(e) \in Actions /\ disk.dispatches[ActionOf(e)] = e
         /\ \A a \in Actions : disk.dispatches[a] # None =>
              /\ disk.dispatches[a] \in Executions /\ Reserved(disk, disk.dispatches[a])
              /\ ActionOf(disk.dispatches[a]) = a
<1>1. disk \in Ledgers /\ ReservationsOK(disk) BY DEF ManagedInv, ManagedTypeOK, LedgerOK
<1>2. ASSUME NEW e \in Executions, Reserved(disk, e)
      PROVE  ActionOf(e) \in Actions /\ disk.dispatches[ActionOf(e)] = e
  BY <1>1, <1>2, ReservedManifest, ManifestFields DEF ActionOf
<1>3. ASSUME NEW a \in Actions, disk.dispatches[a] # None
      PROVE  /\ disk.dispatches[a] \in Executions /\ Reserved(disk, disk.dispatches[a])
             /\ ActionOf(disk.dispatches[a]) = a
  BY <1>1, <1>3, LedgerFields DEF ReservationsOK, ActionOf
<1> QED BY <1>2, <1>3

(* What is known of the action of a reservation.                             *)
LEMMA OutcomeAt ==
  ASSUME ManagedInv, NEW e \in Executions, Reserved(disk, e)
  PROVE  /\ ActionOf(e) \in Actions /\ disk.dispatches[ActionOf(e)] = e
         /\ Outcome[ActionOf(e)] = StateOf(disk, e)
         /\ Attempted[ActionOf(e)] = (effect[e] \notin {"none", "blocked"})
<1>1. ActionOf(e) \in Actions /\ disk.dispatches[ActionOf(e)] = e BY DispatchOf
<1>2. e # None BY DEF ManagedAssumption
<1> QED BY <1>1, <1>2 DEF Outcome, Attempted, OutcomeOf, AttemptedOf

(* One reservation, that of e, moves on, or what became of its attempt.      *)
LEMMA OneMoves ==
  ASSUME ManagedInv, NEW e \in Executions, Reserved(disk, e), KeepsRecords(disk, disk'),
         \A f \in Executions : f # e =>
           /\ Reserved(disk, f) => StateOf(disk', f) = StateOf(disk, f)
           /\ effect'[f] = effect[f]
  PROVE  /\ Outcome' = [Outcome EXCEPT ![ActionOf(e)] = StateOf(disk', e)]
         /\ Attempted' = [Attempted EXCEPT ![ActionOf(e)] = effect'[e] \notin {"none", "blocked"}]
<1>1. disk'.dispatches = disk.dispatches BY DEF KeepsRecords
<1>2. ActionOf(e) \in Actions /\ disk.dispatches[ActionOf(e)] = e /\ e # None
  BY OutcomeAt DEF ManagedAssumption
<1>3. ASSUME NEW a \in Actions
      PROVE  /\ OutcomeOf(a)' = IF a = ActionOf(e) THEN StateOf(disk', e) ELSE OutcomeOf(a)
             /\ AttemptedOf(a)' = IF a = ActionOf(e) THEN effect'[e] \notin {"none", "blocked"}
                                  ELSE AttemptedOf(a)
  <2>1. CASE a = ActionOf(e) BY <1>1, <1>2, <2>1 DEF OutcomeOf, AttemptedOf, StateOf
  <2>2. CASE a # ActionOf(e) /\ disk.dispatches[a] = None
    BY <1>1, <2>2 DEF OutcomeOf, AttemptedOf
  <2>3. CASE a # ActionOf(e) /\ disk.dispatches[a] # None
    <3>1. PICK f : f = disk.dispatches[a] OBVIOUS
    <3>2. f \in Executions /\ Reserved(disk, f) /\ ActionOf(f) = a
      BY <2>3, <3>1, DispatchOf
    <3>3. f # e BY <2>3, <3>2
    <3>4. StateOf(disk', f) = StateOf(disk, f) /\ effect'[f] = effect[f] BY <3>2, <3>3
    <3> QED BY <1>1, <2>3, <3>1, <3>4 DEF OutcomeOf, AttemptedOf, StateOf
  <2> QED BY <2>1, <2>2, <2>3
<1>4. /\ Outcome' = [a \in Actions |-> OutcomeOf(a)']
      /\ Attempted' = [a \in Actions |-> AttemptedOf(a)']
  BY DEF Outcome, Attempted
<1>5. Outcome' = [Outcome EXCEPT ![ActionOf(e)] = StateOf(disk', e)]
  BY <1>3, <1>4 DEF Outcome
<1>6. Attempted' = [Attempted EXCEPT ![ActionOf(e)] = effect'[e] \notin {"none", "blocked"}]
  BY <1>3, <1>4 DEF Attempted
<1> QED BY <1>5, <1>6

LEMMA QuietLedger ==
  ASSUME ManagedInv, Quiet,
         \A e \in Executions : Reserved(disk, e) =>
           (effect'[e] \in {"none", "blocked"} <=> effect[e] \in {"none", "blocked"})
  PROVE  UNCHANGED <<Outcome, Attempted>>
<1>1. disk'.dispatches = disk.dispatches BY DEF Quiet, KeepsRecords
<1>2. ASSUME NEW a \in Actions
      PROVE  OutcomeOf(a)' = OutcomeOf(a) /\ AttemptedOf(a)' = AttemptedOf(a)
  <2>1. CASE disk.dispatches[a] = None BY <1>1, <2>1 DEF OutcomeOf, AttemptedOf
  <2>2. CASE disk.dispatches[a] # None
    <3>1. PICK f : f = disk.dispatches[a] OBVIOUS
    <3>2. f \in Executions /\ Reserved(disk, f) BY <2>2, <3>1, DispatchOf
    <3>3. StateOf(disk', f) = StateOf(disk, f) BY <3>2 DEF Quiet
    <3> QED BY <1>1, <2>2, <3>1, <3>2, <3>3 DEF OutcomeOf, AttemptedOf, StateOf
  <2> QED BY <2>1, <2>2
<1> QED BY <1>2 DEF Outcome, Attempted

(* What is durable of a reservation: nothing, or all of it.                  *)
LEMMA AdmitMoves ==
  ASSUME ManagedInv, NEW e \in Executions, Admit(e)
  PROVE  \/ disk' = disk
         \/ \E m, a, n : Reserves(e, m, a, n) /\ mem = disk /\ disk' = n
<1>1. PICK m : m = call[e].manifest OBVIOUS
<1>2. PICK a : a = mem.manifests[m].action OBVIOUS
<1>3. PICK n : n = Admitted(mem, e, m, a) OBVIOUS
<1>4. /\ up /\ pc[e] = "authorised"
      /\ \/ /\ AdmissionClear(mem, m) /\ mem.dispatches[a] = None
            /\ Commit(n) \/ CommitFails(n)
         \/ Latched
  BY <1>1, <1>2, <1>3 DEF Admit, Admitted
<1>5. CASE Latched BY <1>5 DEF Latched
<1>6. CASE AdmissionClear(mem, m) /\ mem.dispatches[a] = None /\ Transaction(n)
  <2>1. ~failed /\ mem = disk /\ disk' \in {mem, n} BY <1>4, <1>6, TransactionFacts
  <2>2. Reserves(e, m, a, n) BY <1>1, <1>2, <1>3, <1>4, <1>6, <2>1 DEF Reserves
  <2> QED BY <1>6, <2>1, <2>2
<1> QED BY <1>4, <1>5, <1>6 DEF Transaction

LEMMA AdmitReserves ==
  ASSUME ManagedInv, NEW e \in Executions, Admit(e), disk' # disk
  PROVE  \E a \in Actions : Ledger!Reserve(a)
<1>1. PICK m, a, n : Reserves(e, m, a, n) /\ mem = disk /\ disk' = n BY AdmitMoves
<1>2. MayReserve(e, m, a, n) BY <1>1, AdmitFacts
<1>3. /\ effect[e] = "none" /\ m \in Manifests /\ mem.manifests[m] # None
      /\ n.dispatches = [mem.dispatches EXCEPT ![a] = e] /\ StateOf(n, e) = "DISPATCHED"
      /\ \A f \in Executions : f # e => n.executions[f] = mem.executions[f]
      /\ mem.executions[e] = None
  BY <1>2 DEF MayReserve
<1>4. a = mem.manifests[m].action /\ disk.dispatches[a] = None BY <1>1 DEF Reserves
<1>5. disk \in Ledgers BY DEF ManagedInv, ManagedTypeOK
<1>6. a \in Actions BY <1>1, <1>3, <1>4, <1>5, LedgerFields, ManifestFields
<1>7. effect' = effect /\ e # None BY DEF Admit, ManagedAssumption
<1>8. disk'.dispatches = [disk.dispatches EXCEPT ![a] = e] BY <1>1, <1>3
<1>9. disk'.dispatches[a] = e /\ \A b \in Actions : b # a => disk'.dispatches[b] = disk.dispatches[b]
  BY <1>5, <1>6, <1>8, LedgerFields
<1>10. ASSUME NEW b \in Actions
       PROVE  /\ OutcomeOf(b)' = IF b = a THEN "DISPATCHED" ELSE OutcomeOf(b)
              /\ AttemptedOf(b)' = AttemptedOf(b)
  <2>1. CASE b = a BY <1>1, <1>3, <1>4, <1>7, <1>9, <2>1 DEF OutcomeOf, AttemptedOf, StateOf
  <2>2. CASE b # a /\ disk.dispatches[b] = None
    BY <1>7, <1>9, <2>2 DEF OutcomeOf, AttemptedOf
  <2>3. CASE b # a /\ disk.dispatches[b] # None
    <3>1. PICK f : f = disk.dispatches[b] OBVIOUS
    <3>2. f \in Executions /\ Reserved(disk, f) BY <2>3, <3>1, DispatchOf
    <3>3. f # e BY <1>1, <1>3, <3>2 DEF Reserved, StateOf
    <3>4. disk'.executions[f] = disk.executions[f] BY <1>1, <1>3, <3>2, <3>3
    <3> QED BY <1>7, <1>9, <2>3, <3>1, <3>4 DEF OutcomeOf, AttemptedOf, StateOf
  <2> QED BY <2>1, <2>2, <2>3
<1>11. Outcome' = [Outcome EXCEPT ![a] = "DISPATCHED"] BY <1>10 DEF Outcome
<1>12. Attempted' = Attempted BY <1>10 DEF Attempted
<1>13. Outcome[a] = "none" BY <1>4, <1>6 DEF Outcome, OutcomeOf
<1>14. Ledger!Reserve(a) BY <1>11, <1>12, <1>13 DEF Ledger!Reserve, Outcome, Attempted
<1> QED BY <1>6, <1>14

LEMMA CallAttempts ==
  ASSUME ManagedInv, NEW e \in Executions, CallExecutor(e)
  PROVE  \E a \in Actions : Ledger!Attempt(a)
<1> DEFINE a == ActionOf(e)
<1>1. ManagedTypeOK /\ ThreadOK(e) BY DEF ManagedInv
<1>2. pc[e] = "admitted" /\ disk' = disk BY DEF CallExecutor
<1>3. /\ Reserved(disk, e) /\ effect[e] \in {"none", "blocked"}
      /\ StateOf(disk, e) \in {"DISPATCHED", "EXECUTION_UNKNOWN", "NOT_COMMITTED"}
  BY <1>1, <1>2 DEF ThreadOK, Running
<1>4. /\ effect'[e] \notin {"none", "blocked"}
      /\ \A f \in Executions : f # e => effect'[f] = effect[f]
  BY <1>1 DEF CallExecutor, ManagedTypeOK
<1>5. a \in Actions /\ Outcome[a] = StateOf(disk, e) /\ ~Attempted[a]
  BY <1>3, OutcomeAt
<1>6. /\ Outcome' = [Outcome EXCEPT ![a] = StateOf(disk', e)]
      /\ Attempted' = [Attempted EXCEPT ![a] = effect'[e] \notin {"none", "blocked"}]
  BY <1>2, <1>3, <1>4, QuietDisk, OneMoves DEF Quiet
<1>7. Attempted' = [Attempted EXCEPT ![a] = TRUE] BY <1>4, <1>6
<1>8. Outcome' = Outcome BY <1>2, <1>5, <1>6 DEF Outcome
<1>9. Ledger!Attempt(a)
  <2> HIDE DEF a
  <2> QED BY <1>3, <1>5, <1>7, <1>8 DEF Ledger!Attempt, Outcome, Attempted
<1> QED BY <1>5, <1>9

(* A transition that becomes durable, of a reservation to the state s.       *)
LEMMA TransitionMoves ==
  ASSUME ManagedInv, NEW e \in Executions, Reserved(disk, e), NEW aged,
         NEW s \in {"ACKNOWLEDGED", "EXECUTION_UNKNOWN", "NOT_ATTEMPTED",
                    "COMMITTED", "NOT_COMMITTED"},
         disk' = Transition(disk, e, s, aged), effect' = effect
  PROVE  /\ Outcome' = [Outcome EXCEPT ![ActionOf(e)] = s]
         /\ Attempted' = Attempted
         /\ KeepsRecords(disk, disk')
<1>1. disk \in Ledgers /\ LedgerOK(disk) BY DEF ManagedInv, ManagedTypeOK
<1>2. /\ KeepsRecords(disk, disk') /\ StateOf(disk', e) = s
      /\ \A f \in Executions : f # e => disk'.executions[f] = disk.executions[f]
  BY <1>1, TransitionLedger
<1>3. /\ Outcome' = [Outcome EXCEPT ![ActionOf(e)] = StateOf(disk', e)]
      /\ Attempted' = [Attempted EXCEPT ![ActionOf(e)] = effect'[e] \notin {"none", "blocked"}]
  BY <1>2, OneMoves DEF StateOf
<1>4. ActionOf(e) \in Actions /\ Attempted[ActionOf(e)] = (effect[e] \notin {"none", "blocked"})
  BY OutcomeAt
<1>5. Attempted' = Attempted BY <1>3, <1>4 DEF Attempted
<1> QED BY <1>2, <1>3, <1>5

LEMMA ReturnReports ==
  ASSUME ManagedInv, NEW e \in Executions, NEW s, NEW aged, ExecutorReturns(e, s, aged)
  PROVE  \/ disk' = disk /\ effect' = effect
         \/ KeepsRecords(disk, disk') /\ \E a \in Actions, r \in Ledger!Reported : Ledger!Report(a, r)
<1>1. /\ e \notin orphans /\ effect' = effect
      /\ \/ pc[e] = "calling" /\ s \in {"ACKNOWLEDGED", "EXECUTION_UNKNOWN"}
         \/ pc[e] = "admitted" /\ s = "NOT_ATTEMPTED"
      /\ Transaction(Transition(mem, e, s, aged)) \/ Latched
  BY DEF ExecutorReturns
<1>2. ThreadOK(e) BY DEF ManagedInv
<1>3. /\ up /\ Reserved(disk, e) /\ StateOf(disk, e) = "DISPATCHED"
      /\ pc[e] = "calling" => effect[e] \notin {"none", "blocked"}
      /\ pc[e] = "admitted" => effect[e] \in {"none", "blocked"}
  BY <1>1, <1>2 DEF ThreadOK, Running
<1>4. disk' = disk \/ disk' = Transition(disk, e, s, aged)
  <2>1. CASE Latched BY <2>1 DEF Latched
  <2>2. CASE Transaction(Transition(mem, e, s, aged)) BY <1>3, <2>2, TransactionFacts
  <2> QED BY <1>1, <2>1, <2>2
<1>5. ASSUME disk' = Transition(disk, e, s, aged)
      PROVE  /\ KeepsRecords(disk, disk')
             /\ \E a \in Actions, r \in Ledger!Reported : Ledger!Report(a, r)
  <2> DEFINE a == ActionOf(e)
  <2>1. /\ Outcome' = [Outcome EXCEPT ![a] = s] /\ Attempted' = Attempted
        /\ KeepsRecords(disk, disk')
    BY <1>1, <1>3, <1>5, TransitionMoves
  <2>2. /\ a \in Actions /\ Outcome[a] = "DISPATCHED"
        /\ Attempted[a] = (effect[e] \notin {"none", "blocked"})
    BY <1>3, OutcomeAt
  <2>3. /\ s \in Ledger!Reported
        /\ s = "ACKNOWLEDGED" => Attempted[a]
        /\ s = "NOT_ATTEMPTED" => ~Attempted[a]
    BY <1>1, <1>3, <2>2 DEF Ledger!Reported
  <2>4. Ledger!Report(a, s)
    <3> HIDE DEF a
    <3> QED BY <2>1, <2>2, <2>3 DEF Ledger!Report, Outcome, Attempted
  <2> QED BY <2>1, <2>2, <2>3, <2>4
<1> QED BY <1>1, <1>4, <1>5

LEMMA ReconcileSettles ==
  ASSUME ManagedInv, NEW e \in Executions, NEW s, Reconcile(e, s)
  PROVE  \/ disk' = disk /\ effect' = effect
         \/ KeepsRecords(disk, disk') /\ \E a \in Actions, r \in Ledger!Settled : Ledger!Settle(a, r)
<1>1. /\ up /\ ~failed /\ effect' = effect /\ s \in {"COMMITTED", "NOT_COMMITTED"}
      /\ mem.executions[e] # None /\ mem.executions[e].state = "EXECUTION_UNKNOWN"
      /\ s = "COMMITTED" => effect[e] = "committed"
      /\ Transaction(Transition(mem, e, s, {}))
  BY DEF Reconcile, Operational, Transition
<1>2. mem = disk /\ disk' \in {disk, Transition(disk, e, s, {})} BY <1>1, TransactionFacts
<1>3. Reserved(disk, e) /\ StateOf(disk, e) = "EXECUTION_UNKNOWN"
  BY <1>1, <1>2 DEF Reserved, StateOf
<1>4. ASSUME disk' = Transition(disk, e, s, {})
      PROVE  /\ KeepsRecords(disk, disk')
             /\ \E a \in Actions, r \in Ledger!Settled : Ledger!Settle(a, r)
  <2> DEFINE a == ActionOf(e)
  <2>1. /\ Outcome' = [Outcome EXCEPT ![a] = s] /\ Attempted' = Attempted
        /\ KeepsRecords(disk, disk')
    BY <1>1, <1>3, <1>4, TransitionMoves
  <2>2. /\ a \in Actions /\ Outcome[a] = "EXECUTION_UNKNOWN"
        /\ Attempted[a] = (effect[e] \notin {"none", "blocked"})
    BY <1>3, OutcomeAt
  <2>3. s \in Ledger!Settled /\ (s = "COMMITTED" => Attempted[a])
    BY <1>1, <2>2 DEF Ledger!Settled
  <2>4. Ledger!Settle(a, s)
    <3> HIDE DEF a
    <3> QED BY <2>1, <2>2, <2>3 DEF Ledger!Settle, Outcome, Attempted
  <2> QED BY <2>1, <2>2, <2>3, <2>4
<1> QED BY <1>1, <1>2, <1>4

(* Recovery reports every interrupted reservation, and nothing else.         *)
LEMMA RestartRecovers ==
  ASSUME ManagedInv, NEW aged, Restart(aged)
  PROVE  KeepsRecords(disk, disk') /\ Ledger!Recover
<1>1. disk \in Ledgers /\ LedgerOK(disk) BY DEF ManagedInv, ManagedTypeOK
<1>2. disk' = Recovered(disk, aged) /\ effect' = effect BY DEF Restart
<1>3. RecoveredFrom(disk, disk', Interrupted(disk)) BY <1>1, <1>2, RecoveredLedger
<1>4. KeepsRecords(disk, disk') /\ disk'.dispatches = disk.dispatches
  BY <1>3 DEF RecoveredFrom, KeepsRecords
<1>5. ASSUME NEW e \in Executions
      PROVE  StateOf(disk', e) = IF StateOf(disk, e) = "DISPATCHED" THEN "EXECUTION_UNKNOWN"
                                 ELSE StateOf(disk, e)
  BY <1>3 DEF RecoveredFrom, Interrupted, StateOf
<1>6. ASSUME NEW a \in Actions
      PROVE  /\ OutcomeOf(a)' = IF OutcomeOf(a) = "DISPATCHED" THEN "EXECUTION_UNKNOWN"
                                ELSE OutcomeOf(a)
             /\ AttemptedOf(a)' = AttemptedOf(a)
  <2>1. CASE disk.dispatches[a] = None
    BY <1>4, <2>1 DEF OutcomeOf, AttemptedOf
  <2>2. CASE disk.dispatches[a] # None
    <3>1. PICK e : e = disk.dispatches[a] OBVIOUS
    <3>2. e \in Executions BY <2>2, <3>1, DispatchOf
    <3>3. /\ OutcomeOf(a) = StateOf(disk, e) /\ OutcomeOf(a)' = StateOf(disk', e)
          /\ AttemptedOf(a)' = AttemptedOf(a)
      BY <1>2, <1>4, <2>2, <3>1 DEF OutcomeOf, AttemptedOf, StateOf
    <3> QED BY <1>5, <3>2, <3>3
  <2> QED BY <2>1, <2>2
<1>7. /\ Outcome' = [a \in Actions |-> IF Outcome[a] = "DISPATCHED" THEN "EXECUTION_UNKNOWN"
                                       ELSE Outcome[a]]
      /\ Attempted' = Attempted
  BY <1>6 DEF Outcome, Attempted
<1> QED BY <1>4, <1>7 DEF Ledger!Recover, Outcome, Attempted

(* Steps of which the action ledger sees nothing.                            *)
Invisible ==
  /\ Quiet
  /\ \A e \in Executions : Reserved(disk, e) =>
       (effect'[e] \in {"none", "blocked"} <=> effect[e] \in {"none", "blocked"})

LEMMA AdministerInvisible == ASSUME ManagedInv, Administer PROVE Invisible
<1>1. effect' = effect
  BY DEF Administer, PublishProfile, RevokeProfile, RegisterExecutor, IngestSignal, Watchdog,
         RestoreRestriction, OtherTransactionFails
<1>2. ASSUME NEW v \in AdapterVersions, RegisterExecutor(v) PROVE Quiet BY <1>2, RegisterStep
<1>3. ASSUME NEW s \in ExternalSignals, NEW o \in Operations, NEW aged \in SUBSET MayAge,
             IngestSignal(s, o, aged)
      PROVE  Quiet
  BY <1>3, IngestStep
<1>4. ASSUME NEW overdue \in SUBSET Executions, NEW aged \in SUBSET MayAge,
             Watchdog(overdue, aged)
      PROVE  Quiet
  BY <1>4, WatchdogStep
<1>5. ASSUME NEW h \in Holds, RestoreRestriction(h) PROVE Quiet BY <1>5, RestoreStep
<1>6. OtherTransactionFails => Quiet BY QuietDisk DEF OtherTransactionFails
<1>7. Quiet BY <1>2, <1>3, <1>4, <1>5, <1>6, ProfileStep DEF Administer
<1> QED BY <1>1, <1>7 DEF Invisible

LEMMA RequestInvisible ==
  ASSUME ManagedInv, Request \/ \E e \in Executions, m \in Manifests : Refuse(e, m)
  PROVE  Invisible
<1>1. effect' = effect BY DEF Request, Propose, Evaluate, Refuse
<1>2. ASSUME NEW m \in Manifests, NEW a \in Actions, NEW b \in BOOLEAN, Propose(m, a, b)
      PROVE  Quiet
  BY <1>2, ProposeStep
<1>3. ASSUME NEW e \in Executions, NEW m \in Manifests, Refuse(e, m) PROVE Quiet
  BY <1>3, RefuseStep
<1>4. ASSUME NEW e \in Executions, NEW m \in Manifests, Evaluate(e, m) PROVE Quiet
  BY <1>4, QuietDisk DEF Evaluate
<1>5. Quiet BY <1>2, <1>3, <1>4 DEF Request
<1> QED BY <1>1, <1>5 DEF Invisible

(* The downstream system decides only attempts that were made, or blocks one *)
(* that was not.                                                            *)
LEMMA DownstreamInvisible ==
  ASSUME ManagedInv, NEW e \in Executions, NEW fate \in {"committed", "fenced", "blocked"},
         Downstream(e, fate)
  PROVE  Invisible
<1>1. Quiet BY QuietDisk DEF Downstream
<1>2. effect' = [effect EXCEPT ![e] = fate] /\ ManagedTypeOK BY DEF Downstream, ManagedInv
<1>3. \/ effect[e] = "inflight" /\ fate \in {"committed", "fenced"}
      \/ effect[e] = "none" /\ fate = "blocked"
  BY DEF Downstream
<1>4. effect'[e] = fate /\ \A f \in Executions : f # e => effect'[f] = effect[f]
  BY <1>2 DEF ManagedTypeOK
<1> QED BY <1>1, <1>3, <1>4 DEF Invisible

(* A step that moves the action ledger and makes no reservation.             *)
Moves == KeepsRecords(disk, disk') /\ Ledger!LedgerNext

(* What a step of the managed gate is to the action ledger.                  *)
LEMMA NextSplits ==
  ASSUME ManagedInv, [Next]_vars
  PROVE  Invisible \/ Moves \/ \E e \in Executions : Admit(e)
<1>1. ASSUME disk' = disk, effect' = effect PROVE Invisible
  BY <1>1, QuietDisk DEF Invisible
<1>2. CASE Administer BY <1>2, AdministerInvisible
<1>3. CASE Request \/ \E e \in Executions, m \in Manifests : Refuse(e, m)
  BY <1>3, RequestInvisible
<1>4. CASE Crash \/ Close BY <1>1, <1>4 DEF Crash, Close
<1>5. ASSUME NEW aged, Restart(aged) PROVE Moves
  BY <1>5, RestartRecovers DEF Moves, Ledger!LedgerNext
<1>6. ASSUME NEW e \in Executions, ThreadStep(e)
      PROVE  Invisible \/ Moves \/ \E f \in Executions : Admit(f)
  <2>1. CASE Admit(e) BY <2>1
  <2>2. CASE \E m \in Manifests : Refuse(e, m) BY <1>3, <2>2
  <2>3. ASSUME CallExecutor(e) PROVE Moves
    <3>1. KeepsRecords(disk, disk') BY <2>3, QuietDisk DEF CallExecutor, Quiet
    <3> QED BY <2>3, <3>1, CallAttempts DEF Moves, Ledger!LedgerNext
  <2>4. CASE OrphanReturns(e) \/ ReadExecutor(e) BY <1>1, <2>4 DEF OrphanReturns, ReadExecutor
  <2>5. ASSUME NEW s \in States, NEW aged \in SUBSET MayAge, ExecutorReturns(e, s, aged)
        PROVE  Invisible \/ Moves
    BY <1>1, <2>5, ReturnReports DEF Moves, Ledger!LedgerNext
  <2> QED BY <1>6, <2>1, <2>2, <2>3, <2>4, <2>5 DEF ThreadStep
<1>7. ASSUME NEW e \in Executions, NEW fate \in {"committed", "fenced", "blocked"},
             Downstream(e, fate)
      PROVE  Invisible
  BY <1>7, DownstreamInvisible
<1>8. ASSUME NEW e \in Executions, NEW s \in {"COMMITTED", "NOT_COMMITTED"}, Reconcile(e, s)
      PROVE  Invisible \/ Moves
  BY <1>1, <1>8, ReconcileSettles DEF Moves, Ledger!LedgerNext
<1>9. CASE UNCHANGED vars BY <1>1, <1>9 DEF vars
<1> QED BY <1>2, <1>3, <1>4, <1>5, <1>6, <1>7, <1>8, <1>9 DEF Next

LEMMA LedgerInitial == Init => Ledger!LedgerInit
BY DEF Init, Ledger!LedgerInit, OutcomeOf, AttemptedOf, EmptyLedger

(* Every step of the managed gate is a step of the action ledger, or          *)
(* invisible in it.                                                         *)
LEMMA RefinementStep ==
  ASSUME ManagedInv, [Next]_vars
  PROVE  [Ledger!LedgerNext]_(Ledger!ledgerVars)
<1>1. ASSUME UNCHANGED <<Outcome, Attempted>> PROVE UNCHANGED Ledger!ledgerVars
  BY <1>1 DEF Ledger!ledgerVars, Outcome, Attempted
<1>2. CASE Invisible BY <1>1, <1>2, QuietLedger DEF Invisible
<1>3. CASE Moves BY <1>3 DEF Moves
<1>4. ASSUME NEW e \in Executions, Admit(e) PROVE [Ledger!LedgerNext]_(Ledger!ledgerVars)
  <2>1. CASE disk' # disk BY <1>4, <2>1, AdmitReserves DEF Ledger!LedgerNext
  <2>2. CASE disk' = disk
    <3>1. effect' = effect BY <1>4 DEF Admit
    <3> QED BY <1>1, <2>2, <3>1, QuietLedger, QuietDisk
  <2> QED BY <2>1, <2>2
<1> QED BY <1>2, <1>3, <1>4, NextSplits

(* What is durable implements the action ledger: whatever commits are lost   *)
(* or go unacknowledged, however often the process crashes, is closed under  *)
(* its threads or recovers, each action is reserved once, attempted at most  *)
(* once, and reported and settled forwards only.                            *)
THEOREM ManagedImplementsLedger == Spec => ImplementsLedger
<1>1. Init => Ledger!LedgerInit BY LedgerInitial
<1>2. ManagedInv /\ [Next]_vars => [Ledger!LedgerNext]_(Ledger!ledgerVars) BY RefinementStep
<1> QED BY <1>1, <1>2, ManagedInvariant, PTL DEF Spec, ImplementsLedger, Ledger!LedgerSpec
-----------------------------------------------------------------------------
(* A manifest that is cleared for admission saw the holds of its scopes.     *)
LEMMA ClearedIsCurrent ==
  ASSUME NEW l \in Ledgers, LedgerOK(l), NEW m \in Manifests, l.manifests[m] # None,
         AdmissionClear(l, m),
         NEW h \in Holds, h[2] \in KeysOf(l.manifests[m].action)
  PROVE  LET r == l.manifests[m] IN
         /\ r.profile = l.profile
         /\ l.control.holds[h] = r.held[h]
         /\ l.control.holds[h].active => RuleMode[h[1]] # "SUSPENDED" /\ r.approval
<1>1. PICK r : r = l.manifests[m] OBVIOUS
<1>2. PICK a : a = r.action OBVIOUS
<1>3. r \in ManifestRecord /\ a \in Actions /\ l.control \in Control
  BY <1>1, <1>2, LedgerFields, ManifestFields
<1>4. /\ context(l.control, a) = r.context /\ r.profile = l.profile
      /\ ModeOf(l.control, a) # "SUSPENDED"
      /\ ModeOf(l.control, a) = "REQUIRE_APPROVAL" => r.approval
  BY <1>1, <1>2 DEF AdmissionClear
<1>5. h[2] \in KeysOf(a) BY <1>1, <1>2
<1>6. l.control.holds[h] = r.held[h]
  <2>1. PICK p : p = <<h[2], l.control.epochs[h[2]]>> OBVIOUS
  <2>2. p \in r.context.epochs BY <1>3, <1>4, <1>5, <2>1, ContextOf
  <2>3. p[1] = h[2] /\ p[2] = l.control.epochs[p[1]] BY <2>1
  <2>4. ManifestsOK(l) /\ r # None BY <1>1 DEF LedgerOK
  <2> QED BY <1>1, <2>2, <2>3, <2>4 DEF ManifestsOK
<1>7. ASSUME l.control.holds[h].active PROVE RuleMode[h[1]] # "SUSPENDED" /\ r.approval
  <2>1. h \in ActiveHolds(l.control, a) BY <1>5, <1>7 DEF ActiveHolds
  <2>2. RuleMode[h[1]] \in {RuleMode[g[1]] : g \in ActiveHolds(l.control, a)} BY <2>1
  <2>3. RuleMode[h[1]] \in {"REQUIRE_APPROVAL", "SUSPENDED"}
    BY FeedbackAssumption DEF FeedbackAssumption, Holds
  <2> QED BY <1>4, <2>2, <2>3 DEF ModeOf
<1> QED BY <1>1, <1>4, <1>6, <1>7

(* A reservation that becomes durable is that of the call being admitted,     *)
(* under a manifest the durable ledger clears.                              *)
LEMMA ReservedIsAdmitted ==
  ASSUME ManagedInv, [Next]_vars, NEW e \in Executions, ~Reserved(disk, e), Reserved(disk', e)
  PROVE  \E m \in Manifests : /\ disk'.executions[e].manifest = m
                              /\ disk'.manifests[m] = disk.manifests[m]
                              /\ disk.manifests[m] # None /\ AdmissionClear(disk, m)
<1>1. ~KeepsRecords(disk, disk') BY DEF KeepsRecords
<1>2. PICK f \in Executions : Admit(f) BY <1>1, NextSplits DEF Invisible, Quiet, Moves
<1>3. disk' # disk OBVIOUS
<1>4. PICK m, a, n : Reserves(f, m, a, n) /\ mem = disk /\ disk' = n
  BY <1>2, <1>3, AdmitMoves
<1>5. MayReserve(f, m, a, n) BY <1>4, AdmitFacts
<1>6. /\ m \in Manifests /\ disk.manifests[m] # None
      /\ disk'.manifests = disk.manifests /\ disk'.executions[f].manifest = m
      /\ \A g \in Executions : g # f => disk'.executions[g] = disk.executions[g]
  BY <1>4, <1>5 DEF MayReserve
<1>7. e = f BY <1>6 DEF Reserved, StateOf
<1> QED BY <1>4, <1>6, <1>7 DEF Reserves

(* What becomes durable as a dispatch is legal in the durable control state  *)
(* of that moment: no scope of the action is suspended, and no hold on them *)
(* has been activated or restored since the proposal.                       *)
THEOREM AdmissionStands == Spec => AdmissionIsCurrent
<1> DEFINE A == \A e \in Executions : ~Reserved(disk, e) /\ Reserved(disk', e) =>
       LET r == disk'.manifests[disk'.executions[e].manifest] IN
         /\ r.profile = disk.profile
         /\ \A h \in Holds : h[2] \in KeysOf(r.action) =>
              /\ disk.control.holds[h] = r.held[h]
              /\ disk.control.holds[h].active => RuleMode[h[1]] # "SUSPENDED" /\ r.approval
<1>1. ASSUME ManagedInv, [Next]_vars PROVE A
  <2> SUFFICES ASSUME NEW e \in Executions, ~Reserved(disk, e), Reserved(disk', e)
               PROVE  LET r == disk'.manifests[disk'.executions[e].manifest] IN
                      /\ r.profile = disk.profile
                      /\ \A h \in Holds : h[2] \in KeysOf(r.action) =>
                           /\ disk.control.holds[h] = r.held[h]
                           /\ disk.control.holds[h].active =>
                                RuleMode[h[1]] # "SUSPENDED" /\ r.approval
    OBVIOUS
  <2>1. PICK m \in Manifests : /\ disk'.executions[e].manifest = m
                               /\ disk'.manifests[m] = disk.manifests[m]
                               /\ disk.manifests[m] # None /\ AdmissionClear(disk, m)
    BY <1>1, ReservedIsAdmitted
  <2>2. disk \in Ledgers /\ LedgerOK(disk) BY <1>1 DEF ManagedInv, ManagedTypeOK
  <2>3. disk.manifests[m].profile = disk.profile BY <2>1 DEF AdmissionClear
  <2> QED BY <2>1, <2>2, <2>3, ClearedIsCurrent
<1>2. ManagedInv /\ [Next]_vars => [A]_vars BY <1>1
<1> QED BY <1>2, ManagedInvariant, PTL DEF Spec, AdmissionIsCurrent
=============================================================================
