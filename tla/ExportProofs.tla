---------------------------- MODULE ExportProofs ----------------------------
(***************************************************************************)
(* Proofs about the delivery of the audit events.  What carries them        *)
(* (ExportInv) is that an event never moves: stores only grow at their end,  *)
(* so what a drain has read stays true of every later store, its own or not. *)
(***************************************************************************)
EXTENDS AuditExport, SequenceTheorems, FiniteSetTheorems, TLAPS

-----------------------------------------------------------------------------
(* Stores.                                                                 *)

Events == Seq(1 .. MaxCreated)

(* t begins with s.                                                        *)
Begins(s, t) == /\ Len(s) <= Len(t)
                /\ \A i \in 1 .. Len(s) : t[i] = s[i]

LEMMA BeginsTrans ==
  ASSUME NEW s \in Events, NEW t \in Events, NEW u \in Events, Begins(s, t), Begins(t, u)
  PROVE  Begins(s, u)
<1>1. Len(s) \in Nat /\ Len(t) \in Nat /\ Len(u) \in Nat BY LenProperties DEF Events
<1> QED BY <1>1 DEF Begins

LEMMA BeginsSelf == ASSUME NEW s \in Events PROVE Begins(s, s)
<1>1. Len(s) \in Nat BY LenProperties DEF Events
<1> QED BY <1>1 DEF Begins

LEMMA StoreParts ==
  ASSUME NEW store \in Stored, NEW h
  PROVE  /\ [store EXCEPT !.events = h] = [events |-> h, cursor |-> store.cursor]
         /\ [store EXCEPT !.cursor = h] = [events |-> store.events, cursor |-> h]
BY DEF Stored

(* The events of a transaction continue those of the store.                  *)
LEMMA AppendedOK ==
  ASSUME ExportInv, NEW store \in Stored, NEW n \in Nat, created + n <= MaxCreated
  PROVE  /\ Appended(store, n) \in Stored
         /\ Appended(store, n).cursor = store.cursor
         /\ Begins(store.events, Appended(store, n).events)
<1> DEFINE g == [i \in 1 .. n |-> created + i]
<1>1. created \in Nat /\ MaxCreated \in Nat
  BY ExportAssumption DEF ExportInv, ExportTypeOK
<1>2. \A i \in 1 .. n : created + i \in 1 .. MaxCreated BY <1>1
<1>3. g \in Events BY <1>2 DEF Events
<1>4. store.events \in Events /\ store.cursor \in Nat BY DEF Stored, Events
<1>5. Appended(store, n) = [events |-> store.events \o g, cursor |-> store.cursor]
  BY StoreParts DEF Appended
<1> HIDE DEF g
<1>6. /\ store.events \o g \in Events
      /\ Len(store.events \o g) = Len(store.events) + Len(g)
      /\ \A i \in 1 .. Len(store.events) + Len(g) :
           (store.events \o g)[i] =
             IF i <= Len(store.events) THEN store.events[i] ELSE g[i - Len(store.events)]
  BY <1>3, <1>4, ConcatProperties DEF Events
<1>7. Len(store.events) \in Nat /\ Len(g) \in Nat BY <1>3, <1>4, LenProperties DEF Events
<1>8. Begins(store.events, store.events \o g) BY <1>6, <1>7 DEF Begins
<1> QED BY <1>4, <1>5, <1>6, <1>8 DEF Stored, Events

(* What a drain has read stays true while the store grows.                   *)
LEMMA DrainStands ==
  ASSUME ExportInv, NEW x \in Exporters, DrainOK(x),
         pc'[x] = pc[x] \/ pc'[x] = "idle",
         position'[x] = position[x], batch'[x] = batch[x],
         mem'.events \in Events, Begins(mem.events, mem'.events), received \subseteq received'
  PROVE  DrainOK(x)'
<1>1. mem.events \in Events /\ Len(mem.events) \in Nat /\ Len(mem'.events) \in Nat
  BY LenProperties DEF ExportInv, ExportTypeOK, Stored, Events
<1>2. position[x] \in Nat /\ Len(batch[x]) \in Nat
  BY LenProperties DEF ExportInv, ExportTypeOK
<1>3. Delivered \subseteq Delivered' BY DEF Delivered
<1> SUFFICES ASSUME pc'[x] \in {"sending", "accepted"} PROVE DrainOK(x)' BY DEF DrainOK
<1>4. pc'[x] = pc[x] /\ pc[x] \in {"sending", "accepted"} OBVIOUS
<1>5. position[x] + Len(batch[x]) <= Len(mem.events) BY <1>4 DEF DrainOK
<1>6. position[x] + Len(batch[x]) <= Len(mem'.events) BY <1>1, <1>2, <1>5 DEF Begins
<1>7. ASSUME NEW i \in 1 .. Len(batch[x])
      PROVE  batch[x][i] = [sequence |-> position[x] + i,
                            event_id |-> mem'.events[position[x] + i]]
  <2>1. position[x] + i \in 1 .. Len(mem.events) BY <1>1, <1>2, <1>5
  <2>2. mem'.events[position[x] + i] = mem.events[position[x] + i] BY <2>1 DEF Begins
  <2> QED BY <1>4, <2>2 DEF DrainOK
<1> QED BY <1>3, <1>4, <1>6, <1>7 DEF DrainOK
-----------------------------------------------------------------------------
(* The gate.                                                               *)

LEMMA InitExport == ASSUME Init PROVE ExportInv
<1>1. EmptyStore \in Stored /\ Len(EmptyStore.events) = 0
  BY EmptySeq DEF EmptyStore, Stored
<1>2. Delivered = {} BY DEF Init, Delivered
<1>3. ExportTypeOK
  <2>1. <<>> \in Seq(Envelope) BY EmptySeq
  <2>2. 0 \in 0 .. MaxBatches /\ 0 \in 0 .. MaxCreated /\ 0 \in 0 .. MaxFaults
    BY ExportAssumption
  <2>3. mem = EmptyStore /\ disk = EmptyStore /\ EmptyStore.cursor <= Len(EmptyStore.events)
    BY <1>1 DEF Init, EmptyStore
  <2> QED BY <1>1, <2>1, <2>2, <2>3 DEF Init, ExportTypeOK
<1>4. NothingIsSkipped BY <1>2 DEF Init, NothingIsSkipped, EmptyStore
<1>5. DeliveredIsDurable BY DEF Init, DeliveredIsDurable
<1>6. StoresOK BY <1>1 DEF Init, StoresOK, EmptyStore
<1>7. \A x \in Exporters : DrainOK(x) BY DEF Init, DrainOK
<1> QED BY <1>3, <1>4, <1>5, <1>6, <1>7 DEF ExportInv

(* Where only the stores change, and the durable one only grows.             *)
Grows ==
  /\ mem' \in Stored /\ disk' \in Stored
  /\ mem'.cursor = mem.cursor /\ disk'.cursor = disk.cursor
  /\ Begins(mem.events, mem'.events) /\ Begins(disk.events, disk'.events)
  /\ UNCHANGED <<up, received>> /\ UNCHANGED drains

LEMMA GrowsStep ==
  ASSUME ExportInv, Grows, failed' \in BOOLEAN, created' \in 0 .. MaxCreated,
         faults' \in 0 .. MaxFaults, StoresOK'
  PROVE  ExportInv'
<1>1. /\ mem.events \in Events /\ disk.events \in Events
      /\ mem'.events \in Events /\ disk'.events \in Events
      /\ mem.cursor \in Nat /\ disk.cursor \in Nat
  BY DEF ExportInv, ExportTypeOK, Grows, Stored, Events
<1>2. /\ Len(mem.events) \in Nat /\ Len(disk.events) \in Nat
      /\ Len(mem'.events) \in Nat /\ Len(disk'.events) \in Nat
  BY <1>1, LenProperties DEF Events
<1>3. ExportTypeOK'
  <2>1. mem'.cursor <= Len(mem'.events) /\ disk'.cursor <= Len(disk'.events)
    BY <1>1, <1>2 DEF ExportInv, ExportTypeOK, Grows, Begins
  <2> QED BY <2>1 DEF ExportInv, ExportTypeOK, Grows, drains
<1>4. NothingIsSkipped' BY DEF ExportInv, NothingIsSkipped, Grows, Delivered
<1>5. DeliveredIsDurable'
  <2> SUFFICES ASSUME NEW r \in received
               PROVE  /\ r.sequence <= Len(disk'.events)
                      /\ disk'.events[r.sequence] = r.event_id
    BY DEF DeliveredIsDurable, Grows
  <2>1. r.sequence \in Nat \ {0} BY DEF ExportInv, ExportTypeOK, Envelope
  <2>2. r.sequence <= Len(disk.events) /\ disk.events[r.sequence] = r.event_id
    BY DEF ExportInv, DeliveredIsDurable
  <2>3. r.sequence \in 1 .. Len(disk.events) BY <1>2, <2>1, <2>2
  <2> QED BY <1>2, <2>1, <2>2, <2>3 DEF Grows, Begins
<1>6. ASSUME NEW x \in Exporters PROVE DrainOK(x)'
  BY <1>1, DrainStands DEF Grows, drains, ExportInv
<1> QED BY <1>3, <1>4, <1>5, <1>6 DEF ExportInv

LEMMA CommitStep ==
  ASSUME ExportInv, NEW n \in Nat, Commit(n), UNCHANGED <<up, received>>, UNCHANGED drains
  PROVE  ExportInv'
<1>1. /\ mem \in Stored /\ disk \in Stored /\ up /\ ~failed /\ mem.events = disk.events
      /\ mem.events \in Events /\ disk.cursor \in {mem.cursor, mem.cursor + 1}
  BY DEF ExportInv, ExportTypeOK, StoresOK, Commit, Stored, Events
<1>2. created + n <= MaxCreated /\ created' = created + n BY DEF Commit
<1>3. /\ Appended(mem, n) \in Stored /\ Appended(mem, n).cursor = mem.cursor
      /\ Begins(mem.events, Appended(mem, n).events)
  BY <1>1, <1>2, AppendedOK
<1>4. /\ Appended(disk, n) \in Stored /\ Appended(disk, n).cursor = disk.cursor
      /\ Begins(disk.events, Appended(disk, n).events)
  BY <1>1, <1>2, AppendedOK
<1>5. Appended(disk, n).events = Appended(mem, n).events
  BY <1>1, StoreParts DEF Appended
<1>6. Begins(mem.events, mem.events) BY <1>1, BeginsSelf
<1>7. created' \in 0 .. MaxCreated
  BY <1>2, ExportAssumption DEF ExportInv, ExportTypeOK
<1>8. faults' \in 0 .. MaxFaults
  BY ExportAssumption DEF Commit, Fault, ExportInv, ExportTypeOK
<1>9. Grows
  BY <1>1, <1>3, <1>4, <1>6 DEF Commit, Grows
<1>10. StoresOK'
  <2>1. CASE mem' = Appended(mem, n) /\ disk' = Appended(disk, n)
    <3>1. mem'.events = disk'.events /\ mem'.events \in Events BY <1>3, <1>5, <2>1 DEF Stored, Events
    <3>2. Begins(mem'.events, disk'.events) BY <3>1, BeginsSelf
    <3> QED BY <1>1, <1>3, <1>4, <2>1, <3>1, <3>2 DEF StoresOK, Begins
  <2>2. CASE mem' = mem /\ disk' \in {disk, Appended(disk, n)} /\ failed'
    <3>1. Begins(mem'.events, disk'.events) BY <1>1, <1>4, <1>6, <2>2
    <3>2. disk'.cursor = disk.cursor BY <1>4, <2>2
    <3> QED BY <1>1, <2>2, <3>1, <3>2 DEF StoresOK, Begins
  <2> QED BY <2>1, <2>2 DEF Commit
<1>11. failed' \in BOOLEAN BY DEF Commit, ExportInv, ExportTypeOK
<1> QED BY <1>7, <1>8, <1>9, <1>10, <1>11, GrowsStep

(* The store of the next owner is the durable one.                           *)
LEMMA ReopenStep == ASSUME ExportInv, Reopen PROVE ExportInv'
<1>1. mem \in Stored /\ disk \in Stored /\ mem.events \in Events /\ disk.events \in Events
  BY DEF ExportInv, ExportTypeOK, Stored, Events
<1>2. Begins(mem.events, disk.events) BY DEF ExportInv, StoresOK, Begins
<1>3. Begins(disk.events, disk.events) BY <1>1, BeginsSelf
<1>4. mem' = disk /\ disk' = disk BY DEF Reopen
<1>5. ExportTypeOK' BY <1>4 DEF ExportInv, ExportTypeOK, Reopen, drains
<1>6. NothingIsSkipped' /\ DeliveredIsDurable'
  BY DEF ExportInv, NothingIsSkipped, DeliveredIsDurable, Delivered, Reopen
<1>7. StoresOK' BY <1>3, <1>4 DEF StoresOK, Begins
<1>8. ASSUME NEW x \in Exporters PROVE DrainOK(x)'
  <2>1. /\ pc'[x] = pc[x] /\ position'[x] = position[x] /\ batch'[x] = batch[x]
        /\ received \subseteq received'
    BY DEF Reopen, drains
  <2> QED BY <1>1, <1>2, <1>4, <2>1, DrainStands DEF ExportInv
<1> QED BY <1>5, <1>6, <1>7, <1>8 DEF ExportInv
-----------------------------------------------------------------------------
(* The drains.                                                             *)

(* Where only drains move: the stores and the receiver stay.                 *)
DrainsMove == UNCHANGED <<mem, disk, failed, received, created>> /\ up' \in BOOLEAN /\ (up' => up)

DrainTypes ==
  /\ lock \in Exporters \cup {None}
  /\ pc \in [Exporters -> {"idle", "reading", "sending", "accepted"}]
  /\ position \in [Exporters -> Nat]
  /\ batch \in [Exporters -> Seq(Envelope)]
  /\ \A x \in Exporters : pc[x] \in {"sending", "accepted"} => batch[x] # <<>>
  /\ rounds \in [Exporters -> 0 .. MaxBatches]
  /\ orphans \subseteq Exporters /\ faults \in 0 .. MaxFaults

LEMMA DrainTypesHold == ExportInv => DrainTypes
BY DEF ExportInv, ExportTypeOK, DrainTypes

LEMMA MoveStep ==
  ASSUME ExportInv, DrainsMove, DrainTypes', \A x \in Exporters : DrainOK(x)'
  PROVE  ExportInv'
<1>1. ExportTypeOK' BY DEF ExportInv, ExportTypeOK, DrainTypes, DrainsMove
<1>2. NothingIsSkipped' BY DEF ExportInv, NothingIsSkipped, Delivered, DrainsMove
<1>3. DeliveredIsDurable' BY DEF ExportInv, DeliveredIsDurable, DrainsMove
<1>4. StoresOK' BY DEF ExportInv, ExportTypeOK, StoresOK, DrainsMove
<1> QED BY <1>1, <1>2, <1>3, <1>4 DEF ExportInv

LEMMA FaultOK == ASSUME ExportInv, Fault PROVE faults' \in 0 .. MaxFaults
BY ExportAssumption DEF Fault, ExportInv, ExportTypeOK

(* A drain that does not move, or ends, keeps what it knows.                 *)
LEMMA StillStands ==
  ASSUME ExportInv, mem' = mem, received \subseteq received', NEW x \in Exporters,
         pc'[x] = pc[x] \/ pc'[x] \in {"idle", "reading"},
         position'[x] = position[x], batch'[x] = batch[x]
  PROVE  DrainOK(x)'
<1>1. CASE pc'[x] = pc[x] \/ pc'[x] = "idle"
  <2>1. mem.events \in Events BY DEF ExportInv, ExportTypeOK, Stored, Events
  <2> QED BY <1>1, <2>1, BeginsSelf, DrainStands DEF ExportInv
<1>2. CASE pc'[x] = "reading" BY <1>2 DEF DrainOK
<1> QED BY <1>1, <1>2

(* A drain ends.                                                           *)
LEMMA LeaveOK ==
  ASSUME ExportInv, NEW x \in Exporters, Leave(x), mem' = mem, received \subseteq received',
         faults' \in 0 .. MaxFaults
  PROVE  DrainTypes' /\ \A y \in Exporters : DrainOK(y)'
<1>1. DrainTypes BY DrainTypesHold
<1>2. DrainTypes' BY <1>1 DEF DrainTypes, Leave, Goto
<1>3. ASSUME NEW y \in Exporters PROVE DrainOK(y)'
  <2>1. /\ pc'[y] = pc[y] \/ pc'[y] = "idle"
        /\ position'[y] = position[y] /\ batch'[y] = batch[y]
    BY <1>1 DEF Leave, Goto, DrainTypes
  <2> QED BY <2>1, StillStands
<1> QED BY <1>2, <1>3

LEMMA StartDrainStep == ASSUME ExportInv, NEW x \in Exporters, StartDrain(x) PROVE ExportInv'
<1>1. DrainTypes BY DrainTypesHold
<1>2. 0 \in 0 .. MaxBatches BY ExportAssumption
<1>3. DrainTypes' BY <1>1, <1>2 DEF DrainTypes, StartDrain, Goto
<1>4. ASSUME NEW y \in Exporters PROVE DrainOK(y)'
  <2>1. /\ pc'[y] = pc[y] \/ pc'[y] = "reading"
        /\ position'[y] = position[y] /\ batch'[y] = batch[y] /\ mem' = mem /\ received' = received
    BY <1>1 DEF StartDrain, Goto, DrainTypes
  <2>2. position'[y] = position[y] BY DEF StartDrain
  <2> QED BY <2>1, <2>2, StillStands
<1>5. DrainsMove BY DEF StartDrain, DrainsMove, Untouched, ExportInv, ExportTypeOK
<1> QED BY <1>3, <1>4, <1>5, MoveStep

LEMMA SameInterval == ASSUME NEW n \in Nat, NEW m \in Nat, 1 .. n = 1 .. m PROVE n = m
<1>1. ASSUME NEW a \in Nat, NEW b \in Nat, 1 .. a = 1 .. b PROVE a <= b
  <2>1. a = 0 \/ a \in 1 .. a OBVIOUS
  <2> QED BY <1>1, <2>1
<1>2. n <= m BY <1>1
<1>3. m <= n BY <1>1
<1> QED BY <1>2, <1>3

(* The events after the checkpoint.                                        *)
LEMMA PendingOK ==
  ASSUME ExportInv
  PROVE  /\ Pending \in Seq(Envelope)
         /\ mem.cursor + Len(Pending) <= Len(mem.events)
         /\ \A i \in 1 .. Len(Pending) :
              Pending[i] = [sequence |-> mem.cursor + i, event_id |-> mem.events[mem.cursor + i]]
<1> DEFINE backlog == Len(mem.events) - mem.cursor
           n == IF backlog < BatchSize THEN backlog ELSE BatchSize
           env(i) == [sequence |-> mem.cursor + i, event_id |-> mem.events[mem.cursor + i]]
<1>1. /\ mem.events \in Seq(1 .. MaxCreated) /\ Len(mem.events) \in Nat /\ mem.cursor \in Nat
      /\ mem.cursor <= Len(mem.events) /\ BatchSize \in Nat
  BY LenProperties, ExportAssumption DEF ExportInv, ExportTypeOK, Stored
<1>2. n \in Nat /\ n <= backlog BY <1>1
<1>3. Pending = [i \in 1 .. n |-> env(i)] BY DEF Pending
<1>4. ASSUME NEW i \in 1 .. n PROVE env(i) \in Envelope
  <2>1. mem.cursor + i \in 1 .. Len(mem.events) /\ mem.cursor + i \in Nat \ {0} BY <1>1, <1>2
  <2>2. mem.events[mem.cursor + i] \in 1 .. MaxCreated BY <1>1, <2>1, ElementOfSeq
  <2> QED BY <2>1, <2>2 DEF Envelope
<1> HIDE DEF n, env
<1>5. Pending \in [1 .. n -> Envelope] BY <1>3, <1>4
<1>6. Pending \in Seq(Envelope) BY <1>2, <1>5, SeqDef
<1>7. Len(Pending) = n
  <2>1. Len(Pending) \in Nat /\ DOMAIN Pending = 1 .. Len(Pending) BY <1>6, LenProperties
  <2>2. 1 .. n = 1 .. Len(Pending) BY <1>5, <2>1
  <2>3. Len(Pending) \in Nat BY <2>1
  <2> QED BY <1>2, <2>2, <2>3, SameInterval
<1>8. mem.cursor + n <= Len(mem.events) BY <1>1, <1>2
<1> QED BY <1>3, <1>6, <1>7, <1>8 DEF env

LEMMA ReadBatchStep == ASSUME ExportInv, NEW x \in Exporters, ReadBatch(x) PROVE ExportInv'
<1>1. DrainTypes BY DrainTypesHold
<1>2. DrainsMove /\ mem' = mem /\ received' = received /\ faults' = faults
  BY DEF ReadBatch, DrainsMove, Untouched, ExportInv, ExportTypeOK
<1>3. CASE Leave(x)
  <2>1. faults' \in 0 .. MaxFaults BY <1>1, <1>2 DEF DrainTypes
  <2> QED BY <1>2, <1>3, <2>1, LeaveOK, MoveStep
<1>4. CASE ~Leave(x)
  <2>1. /\ rounds[x] # MaxBatches /\ Pending # <<>>
        /\ position' = [position EXCEPT ![x] = mem.cursor]
        /\ batch' = [batch EXCEPT ![x] = Pending]
        /\ rounds' = [rounds EXCEPT ![x] = @ + 1]
        /\ pc' = [pc EXCEPT ![x] = "sending"]
        /\ UNCHANGED <<lock, orphans>>
    BY <1>4 DEF ReadBatch, Goto
  <2>2. Pending \in Seq(Envelope) /\ mem.cursor \in Nat
    BY PendingOK DEF ExportInv, ExportTypeOK, Stored
  <2>3. rounds[x] + 1 \in 0 .. MaxBatches BY <1>1, <2>1, ExportAssumption DEF DrainTypes
  <2> HIDE DEF Pending
  <2>4. DrainTypes' BY <1>1, <1>2, <2>1, <2>2, <2>3 DEF DrainTypes
  <2>5. ASSUME NEW y \in Exporters, y # x PROVE DrainOK(y)'
    <3>1. pc'[y] = pc[y] /\ position'[y] = position[y] /\ batch'[y] = batch[y]
      BY <1>1, <2>1, <2>5 DEF DrainTypes
    <3> QED BY <1>2, <3>1, StillStands
  <2>6. DrainOK(x)'
    <3>1. pc'[x] = "sending" /\ position'[x] = mem.cursor /\ batch'[x] = Pending
      BY <1>1, <2>1 DEF DrainTypes
    <3>2. 1 .. mem.cursor \subseteq Delivered
      <4>1. 1 .. disk.cursor \subseteq Delivered BY DEF ExportInv, NothingIsSkipped
      <4>2. mem.cursor \in Nat /\ disk.cursor \in {mem.cursor, mem.cursor + 1}
        BY <2>2 DEF ExportInv, StoresOK
      <4>3. 1 .. mem.cursor \subseteq 1 .. disk.cursor BY <4>2
      <4> QED BY <4>1, <4>3
    <3>3. /\ mem.cursor + Len(Pending) <= Len(mem.events)
          /\ \A i \in 1 .. Len(Pending) :
               Pending[i] = [sequence |-> mem.cursor + i,
                             event_id |-> mem.events[mem.cursor + i]]
      BY PendingOK
    <3> QED BY <1>2, <3>1, <3>2, <3>3 DEF DrainOK, Delivered
  <2>7. \A y \in Exporters : DrainOK(y)' BY <2>5, <2>6
  <2> QED BY <1>2, <2>4, <2>7, MoveStep
<1> QED BY <1>3, <1>4

(* What a drain is about to send.                                          *)
LEMMA NextToSend ==
  ASSUME ExportInv, NEW x \in Exporters, pc[x] \in {"sending", "accepted"}
  PROVE  /\ Head(batch[x]).sequence = position[x] + 1
         /\ Head(batch[x]).event_id = mem.events[position[x] + 1]
         /\ Head(batch[x]) \in Envelope
         /\ position[x] \in Nat /\ position[x] + 1 <= Len(mem.events)
         /\ position[x] + 1 <= Len(disk.events)
         /\ disk.events[position[x] + 1] = mem.events[position[x] + 1]
         /\ 1 .. position[x] \subseteq Delivered
<1>1. /\ batch[x] \in Seq(Envelope) /\ batch[x] # <<>> /\ position[x] \in Nat
  BY DEF ExportInv, ExportTypeOK
<1>2. Len(batch[x]) \in Nat \ {0} BY <1>1, EmptySeq
<1>3. Head(batch[x]) \in Envelope BY <1>1, HeadTailProperties
<1>4. 1 \in 1 .. Len(batch[x]) BY <1>2
<1>5. Head(batch[x]) = batch[x][1] BY <1>1, <1>2
<1>6. /\ position[x] + Len(batch[x]) <= Len(mem.events)
      /\ batch[x][1] = [sequence |-> position[x] + 1, event_id |-> mem.events[position[x] + 1]]
      /\ 1 .. position[x] \subseteq Delivered
  BY <1>4 DEF ExportInv, DrainOK
<1>7. Len(mem.events) \in Nat /\ Len(disk.events) \in Nat
  BY LenProperties DEF ExportInv, ExportTypeOK, Stored
<1>8. position[x] + 1 <= Len(mem.events) BY <1>1, <1>2, <1>6, <1>7
<1>9. position[x] + 1 \in 1 .. Len(mem.events) BY <1>1, <1>7, <1>8
<1>10. /\ position[x] + 1 <= Len(disk.events)
       /\ disk.events[position[x] + 1] = mem.events[position[x] + 1]
  BY <1>1, <1>7, <1>8, <1>9 DEF ExportInv, StoresOK
<1>11. /\ Head(batch[x]).sequence = position[x] + 1
       /\ Head(batch[x]).event_id = mem.events[position[x] + 1]
  BY <1>5, <1>6
<1> QED BY <1>1, <1>3, <1>6, <1>8, <1>10, <1>11

(* The receiver may take the next event of a drain.                          *)
LEMMA ReceivedStep ==
  ASSUME ExportInv, NEW x \in Exporters, pc[x] = "sending",
         received' \in {received, received \cup {Head(batch[x])}},
         UNCHANGED <<mem, disk, up, failed, created>>,
         DrainTypes', \A y \in Exporters : DrainOK(y)'
  PROVE  ExportInv'
<1> DEFINE e == Head(batch[x])
<1>1. /\ e.sequence = position[x] + 1 /\ e.event_id = mem.events[position[x] + 1]
      /\ e \in Envelope /\ position[x] \in Nat /\ position[x] + 1 <= Len(disk.events)
      /\ disk.events[position[x] + 1] = mem.events[position[x] + 1]
      /\ 1 .. position[x] \subseteq Delivered
  BY NextToSend
<1> HIDE DEF e
<1>2. received' \in {received, received \cup {e}} BY DEF e
<1>3. ExportTypeOK' BY <1>1, <1>2 DEF ExportInv, ExportTypeOK, DrainTypes
<1>4. Delivered' \in {Delivered, Delivered \cup {position[x] + 1}}
  BY <1>1, <1>2 DEF Delivered
<1>5. NothingIsSkipped'
  <2> SUFFICES ASSUME NEW n \in Delivered' \cup {disk.cursor} PROVE 1 .. n \subseteq Delivered'
    BY DEF NothingIsSkipped
  <2>1. CASE n \in Delivered \cup {disk.cursor}
    BY <1>4, <2>1 DEF ExportInv, NothingIsSkipped
  <2>2. CASE n = position[x] + 1 /\ Delivered' = Delivered \cup {position[x] + 1}
    <3>1. 1 .. n \subseteq (1 .. position[x]) \cup {position[x] + 1} BY <1>1, <2>2
    <3> QED BY <1>1, <2>2, <3>1
  <2> QED BY <1>4, <2>1, <2>2
<1>6. DeliveredIsDurable'
  BY <1>1, <1>2 DEF ExportInv, DeliveredIsDurable
<1>7. StoresOK' BY DEF ExportInv, StoresOK
<1> QED BY <1>3, <1>5, <1>6, <1>7 DEF ExportInv

LEMMA SendStep == ASSUME ExportInv, NEW x \in Exporters, Send(x) PROVE ExportInv'
<1> DEFINE e == Head(batch[x])
<1>1. DrainTypes BY DrainTypesHold
<1>2. pc[x] = "sending" /\ UNCHANGED <<mem, disk, up, failed, created>>
  BY DEF Send, Untouched
<1>3. CASE /\ received' = received \cup {e} /\ pc' = [pc EXCEPT ![x] = "accepted"]
           /\ UNCHANGED <<lock, position, batch, rounds, orphans, faults>>
  <2>1. DrainTypes' BY <1>1, <1>2, <1>3 DEF DrainTypes
  <2>2. ASSUME NEW y \in Exporters, y # x PROVE DrainOK(y)'
    <3>1. /\ pc'[y] = pc[y] /\ position'[y] = position[y] /\ batch'[y] = batch[y]
          /\ received \subseteq received'
      BY <1>1, <1>3, <2>2 DEF DrainTypes
    <3> QED BY <1>2, <3>1, StillStands
  <2>3. DrainOK(x)'
    <3>1. e.sequence = position[x] + 1 BY <1>2, NextToSend
    <3> HIDE DEF e
    <3>2. Delivered \subseteq Delivered' /\ position[x] + 1 \in Delivered'
      BY <1>3, <3>1 DEF Delivered
    <3>3. DrainOK(x) BY DEF ExportInv
    <3> QED BY <1>2, <1>3, <3>2, <3>3 DEF DrainOK
  <2>4. \A y \in Exporters : DrainOK(y)' BY <2>2, <2>3
  <2> QED BY <1>2, <1>3, <2>1, <2>4, ReceivedStep
<1>4. CASE /\ Leave(x) /\ received' \in {received, received \cup {e}}
           /\ (Fault \/ faults' = faults)
  <2>1. faults' \in 0 .. MaxFaults BY <1>1, <1>4, FaultOK DEF DrainTypes
  <2>2. received \subseteq received' BY <1>4
  <2>3. DrainTypes' /\ \A y \in Exporters : DrainOK(y)' BY <1>2, <1>4, <2>1, <2>2, LeaveOK
  <2> QED BY <1>2, <1>4, <2>3, ReceivedStep
<1> QED BY <1>3, <1>4 DEF Send, Goto

(* The checkpoint, in one store, of the first event of a drain.              *)
LEMMA Checkpointed ==
  ASSUME ExportInv, NEW x \in Exporters, pc[x] = "accepted", mem.cursor = position[x],
         NEW to, to = Head(batch[x]).sequence
  PROVE  /\ to = mem.cursor + 1 /\ to \in Nat
         /\ to <= Len(mem.events) /\ to <= Len(disk.events) /\ 1 .. to \subseteq Delivered
         /\ [disk EXCEPT !.cursor = to] = [events |-> disk.events, cursor |-> to]
         /\ [mem EXCEPT !.cursor = to] = [events |-> mem.events, cursor |-> to]
         /\ [disk EXCEPT !.cursor = to] \in Stored /\ [mem EXCEPT !.cursor = to] \in Stored
<1>1. /\ to = position[x] + 1 /\ position[x] \in Nat
      /\ position[x] + 1 <= Len(mem.events) /\ position[x] + 1 <= Len(disk.events)
      /\ 1 .. position[x] \subseteq Delivered
  BY NextToSend
<1>2. position[x] + 1 \in Delivered BY DEF ExportInv, DrainOK
<1>3. 1 .. to \subseteq Delivered
  <2>1. 1 .. to \subseteq (1 .. position[x]) \cup {position[x] + 1} BY <1>1
  <2> QED BY <1>1, <1>2, <2>1
<1>4. mem \in Stored /\ disk \in Stored BY DEF ExportInv, ExportTypeOK
<1>5. /\ [disk EXCEPT !.cursor = to] = [events |-> disk.events, cursor |-> to]
      /\ [mem EXCEPT !.cursor = to] = [events |-> mem.events, cursor |-> to]
  BY <1>4, StoreParts
<1>6. mem.events \in Seq(1 .. MaxCreated) /\ disk.events \in Seq(1 .. MaxCreated) /\ to \in Nat
  BY <1>1, <1>4 DEF Stored
<1>7. [disk EXCEPT !.cursor = to] \in Stored /\ [mem EXCEPT !.cursor = to] \in Stored
  BY <1>5, <1>6 DEF Stored
<1> QED BY <1>1, <1>3, <1>5, <1>6, <1>7

(* A checkpoint that is acknowledged.                                      *)
LEMMA AdvanceStep ==
  ASSUME ExportInv, NEW x \in Exporters, pc[x] = "accepted", mem.cursor = position[x],
         NEW to, to = Head(batch[x]).sequence,
         disk' = [disk EXCEPT !.cursor = to], mem' = [mem EXCEPT !.cursor = to],
         position' = [position EXCEPT ![x] = to],
         batch' = [batch EXCEPT ![x] = Tail(batch[x])],
         pc' = [pc EXCEPT ![x] = IF Len(batch[x]) = 1 THEN "reading" ELSE "sending"],
         UNCHANGED <<lock, rounds, orphans, faults, received, up, failed, created>>
  PROVE  ExportInv'
<1>1. /\ to = mem.cursor + 1 /\ to \in Nat
      /\ to <= Len(mem.events) /\ to <= Len(disk.events) /\ 1 .. to \subseteq Delivered
      /\ disk' = [events |-> disk.events, cursor |-> to]
      /\ mem' = [events |-> mem.events, cursor |-> to]
      /\ disk' \in Stored /\ mem' \in Stored
  BY Checkpointed
<1>2. DrainTypes /\ DrainOK(x) BY DrainTypesHold DEF ExportInv
<1>3. /\ batch[x] \in Seq(Envelope) /\ batch[x] # <<>> /\ Len(batch[x]) \in Nat \ {0}
      /\ position[x] \in Nat
  BY <1>2, EmptySeq DEF DrainTypes
<1>4. /\ Tail(batch[x]) \in Seq(Envelope) /\ Len(Tail(batch[x])) = Len(batch[x]) - 1
      /\ \A i \in 1 .. Len(Tail(batch[x])) : Tail(batch[x])[i] = batch[x][i + 1]
  BY <1>3, HeadTailProperties
<1>5. Len(batch[x]) # 1 => Tail(batch[x]) # <<>>
  <2> SUFFICES ASSUME Tail(batch[x]) = <<>> PROVE Len(batch[x]) = 1 OBVIOUS
  <2>1. Len(Tail(batch[x])) = 0 BY EmptySeq
  <2> QED BY <1>3, <1>4, <2>1
<1>6. DrainTypes' BY <1>1, <1>2, <1>4, <1>5 DEF DrainTypes
<1>7. Delivered' = Delivered BY DEF Delivered
<1>8. ASSUME NEW y \in Exporters, y # x PROVE DrainOK(y)'
  <2>1. pc'[y] = pc[y] /\ position'[y] = position[y] /\ batch'[y] = batch[y]
    BY <1>2, <1>8 DEF DrainTypes
  <2>2. mem.events \in Events /\ mem'.events = mem.events
    BY <1>1 DEF ExportInv, ExportTypeOK, Stored, Events
  <2>3. Begins(mem.events, mem'.events) /\ mem'.events \in Events BY <2>2, BeginsSelf
  <2>4. DrainOK(y) /\ received \subseteq received' BY DEF ExportInv
  <2> QED BY <2>1, <2>3, <2>4, DrainStands
<1>9. DrainOK(x)'
  <2>1. position'[x] = to /\ batch'[x] = Tail(batch[x]) /\ mem'.events = mem.events
    BY <1>1, <1>2 DEF DrainTypes
  <2>2. position[x] + Len(batch[x]) <= Len(mem.events) BY <1>2 DEF DrainOK
  <2>3. Len(mem.events) \in Nat BY LenProperties DEF ExportInv, ExportTypeOK, Stored
  <2>4. to = position[x] + 1 BY <1>1
  <2>5. to + Len(Tail(batch[x])) <= Len(mem.events) BY <1>3, <1>4, <2>2, <2>3, <2>4
  <2>6. ASSUME NEW i \in 1 .. Len(Tail(batch[x]))
        PROVE  Tail(batch[x])[i] = [sequence |-> to + i, event_id |-> mem.events[to + i]]
    <3>1. i + 1 \in 1 .. Len(batch[x]) BY <1>3, <1>4
    <3>2. batch[x][i + 1] = [sequence |-> position[x] + (i + 1),
                             event_id |-> mem.events[position[x] + (i + 1)]]
      BY <1>2, <3>1 DEF DrainOK
    <3>3. i \in Int OBVIOUS
    <3>4. \A a \in Nat, k \in Int : a + (k + 1) = (a + 1) + k OBVIOUS
    <3>5. position[x] + (i + 1) = to + i BY <1>3, <2>4, <3>3, <3>4
    <3> QED BY <1>4, <3>2, <3>5
  <2>7. pc'[x] # "accepted" BY <1>2 DEF DrainTypes
  <2> QED BY <1>1, <1>7, <2>1, <2>5, <2>6, <2>7 DEF DrainOK
<1>10. ExportTypeOK'
  BY <1>1, <1>6 DEF ExportInv, ExportTypeOK, DrainTypes
<1>11. NothingIsSkipped' BY <1>1, <1>7 DEF ExportInv, NothingIsSkipped
<1>12. DeliveredIsDurable' BY <1>1 DEF ExportInv, DeliveredIsDurable
<1>13. StoresOK' BY <1>1 DEF ExportInv, StoresOK
<1> QED BY <1>8, <1>9, <1>10, <1>11, <1>12, <1>13 DEF ExportInv

(* One that is not; it may be durable nevertheless.                          *)
LEMMA AdvanceFailsStep ==
  ASSUME ExportInv, NEW x \in Exporters, pc[x] = "accepted", mem.cursor = position[x],
         NEW to, to = Head(batch[x]).sequence,
         Fault, disk' \in {disk, [disk EXCEPT !.cursor = to]}, Leave(x),
         UNCHANGED <<mem, received, up, failed, created>>
  PROVE  ExportInv'
<1>1. /\ to = mem.cursor + 1 /\ to \in Nat
      /\ to <= Len(mem.events) /\ to <= Len(disk.events) /\ 1 .. to \subseteq Delivered
      /\ [disk EXCEPT !.cursor = to] = [events |-> disk.events, cursor |-> to]
      /\ [disk EXCEPT !.cursor = to] \in Stored
  BY Checkpointed
<1>2. disk' \in Stored /\ disk'.events = disk.events /\ disk'.cursor \in {disk.cursor, to}
  BY <1>1 DEF ExportInv, ExportTypeOK
<1>3. faults' \in 0 .. MaxFaults BY FaultOK
<1>4. DrainTypes' /\ \A y \in Exporters : DrainOK(y)' BY <1>3, LeaveOK
<1>5. ExportTypeOK' BY <1>1, <1>2, <1>4 DEF ExportInv, ExportTypeOK, DrainTypes
<1>6. Delivered' = Delivered BY DEF Delivered
<1>7. NothingIsSkipped' BY <1>1, <1>2, <1>6 DEF ExportInv, NothingIsSkipped
<1>8. DeliveredIsDurable' BY <1>2 DEF ExportInv, DeliveredIsDurable
<1>9. StoresOK' BY <1>1, <1>2 DEF ExportInv, StoresOK
<1> QED BY <1>4, <1>5, <1>7, <1>8, <1>9 DEF ExportInv

LEMMA CheckpointStep == ASSUME ExportInv, NEW x \in Exporters, Checkpoint(x) PROVE ExportInv'
<1> DEFINE to == Head(batch[x]).sequence
<1>1. pc[x] = "accepted" /\ UNCHANGED <<received, up, failed, created>>
  BY DEF Checkpoint, Untouched
<1>2. CASE Leave(x) /\ UNCHANGED <<mem, disk, faults>>
  <2>1. DrainsMove BY <1>1, <1>2 DEF DrainsMove, ExportInv, ExportTypeOK
  <2>2. faults' \in 0 .. MaxFaults BY <1>2 DEF ExportInv, ExportTypeOK
  <2>3. DrainTypes' /\ \A y \in Exporters : DrainOK(y)' BY <1>1, <1>2, <2>2, LeaveOK
  <2> QED BY <2>1, <2>3, MoveStep
<1>3. CASE /\ mem.cursor = position[x]
           /\ disk' = [disk EXCEPT !.cursor = to] /\ mem' = [mem EXCEPT !.cursor = to]
           /\ position' = [position EXCEPT ![x] = to]
           /\ batch' = [batch EXCEPT ![x] = Tail(batch[x])]
           /\ pc' = [pc EXCEPT ![x] = IF Len(batch[x]) = 1 THEN "reading" ELSE "sending"]
           /\ UNCHANGED <<lock, rounds, orphans, faults>>
  BY <1>1, <1>3, AdvanceStep
<1>4. CASE /\ mem.cursor = position[x] /\ Fault
           /\ disk' \in {disk, [disk EXCEPT !.cursor = to]} /\ Leave(x) /\ mem' = mem
  BY <1>1, <1>4, AdvanceFailsStep
<1> QED BY <1>2, <1>3, <1>4 DEF Checkpoint, Goto
-----------------------------------------------------------------------------
(* Crashes and closing.                                                    *)

LEMMA CrashStep == ASSUME ExportInv, Crash PROVE ExportInv'
<1>1. DrainsMove BY DEF Crash, DrainsMove
<1>2. faults' \in 0 .. MaxFaults BY FaultOK DEF Crash
<1>3. DrainTypes' BY <1>2, DrainTypesHold DEF DrainTypes, Crash
<1>4. \A y \in Exporters : DrainOK(y)' BY DEF Crash, DrainOK
<1> QED BY <1>1, <1>3, <1>4, MoveStep

LEMMA CloseStep == ASSUME ExportInv, Close PROVE ExportInv'
<1>1. DrainsMove BY DEF Close, DrainsMove
<1>2. faults' \in 0 .. MaxFaults BY FaultOK DEF Close, ExportInv, ExportTypeOK
<1>3. DrainTypes' BY <1>2, DrainTypesHold DEF DrainTypes, Close
<1>4. ASSUME NEW y \in Exporters PROVE DrainOK(y)' BY StillStands DEF Close
<1> QED BY <1>1, <1>3, <1>4, MoveStep

LEMMA NextExport == ASSUME ExportInv, [Next]_vars PROVE ExportInv'
<1>1. ASSUME NEW n \in 1 .. 2, Record(n) PROVE ExportInv'
  <2>1. n \in Nat OBVIOUS
  <2> QED BY <1>1, <2>1, CommitStep DEF Record
<1>2. CASE Admit BY <1>2, CommitStep DEF Admit
<1>3. ASSUME NEW x \in Exporters, StartDrain(x) PROVE ExportInv' BY <1>3, StartDrainStep
<1>4. ASSUME NEW x \in Exporters, DrainStep(x) PROVE ExportInv'
  BY <1>4, ReadBatchStep, SendStep, CheckpointStep DEF DrainStep
<1>5. CASE Crash BY <1>5, CrashStep
<1>6. CASE Close BY <1>6, CloseStep
<1>7. CASE Reopen BY <1>7, ReopenStep
<1>8. CASE UNCHANGED vars
  <2>1. DrainsMove BY <1>8 DEF vars, DrainsMove, ExportInv, ExportTypeOK
  <2>2. DrainTypes' BY <1>8, DrainTypesHold DEF vars, DrainTypes
  <2>3. ASSUME NEW y \in Exporters PROVE DrainOK(y)' BY <1>8, StillStands DEF vars
  <2> QED BY <2>1, <2>2, <2>3, MoveStep
<1> QED BY <1>1, <1>2, <1>3, <1>4, <1>5, <1>6, <1>7, <1>8 DEF Next

(* The open store is the durable one up to an acknowledgement that was lost,  *)
(* and every drain sends the events that follow the delivered ones.          *)
THEOREM ExportInvariant == Spec => []ExportInv
<1>1. Init => ExportInv BY InitExport
<1>2. ExportInv /\ [Next]_vars => ExportInv' BY NextExport
<1> QED BY <1>1, <1>2, PTL DEF Spec

(* Stores, checkpoints and batches keep their shape.                         *)
THEOREM ExportTypes == Spec => []ExportTypeOK
<1>1. ExportInv => ExportTypeOK BY DEF ExportInv
<1> QED BY <1>1, ExportInvariant, PTL

(* No event is skipped: what the checkpoint has passed was accepted, and an   *)
(* accepted event has no gap before it (drain).                             *)
THEOREM NothingSkipped == Spec => []NothingIsSkipped
<1>1. ExportInv => NothingIsSkipped BY DEF ExportInv
<1> QED BY <1>1, ExportInvariant, PTL

(* The receiver never holds an event that was rolled back, nor another in its *)
(* place (commit).                                                          *)
THEOREM DeliveredStands == Spec => []DeliveredIsDurable
<1>1. ExportInv => DeliveredIsDurable BY DEF ExportInv
<1> QED BY <1>1, ExportInvariant, PTL

(* The checkpoint of a step, whichever action it is.                         *)
LEMMA CursorStep == ASSUME ExportInv, [Next]_vars PROVE disk'.cursor >= disk.cursor
<1>1. /\ mem \in Stored /\ disk \in Stored /\ disk.cursor \in Nat /\ mem.cursor \in Nat
      /\ disk.cursor \in {mem.cursor, mem.cursor + 1}
  BY DEF ExportInv, ExportTypeOK, StoresOK, Stored
<1>2. CASE disk' = disk BY <1>1, <1>2
<1>3. ASSUME NEW n \in Nat, Commit(n) PROVE disk'.cursor >= disk.cursor
  <2>1. disk' \in {disk, Appended(disk, n)} BY <1>3 DEF Commit
  <2>2. Appended(disk, n).cursor = disk.cursor BY <1>1, StoreParts DEF Appended
  <2> QED BY <1>1, <2>1, <2>2
<1>4. ASSUME NEW x \in Exporters, Checkpoint(x) PROVE disk'.cursor >= disk.cursor
  <2> DEFINE to == Head(batch[x]).sequence
  <2>1. CASE mem.cursor = position[x]
    <3>1. pc[x] = "accepted" /\ disk' \in {disk, [disk EXCEPT !.cursor = to]}
      BY <1>4, <2>1 DEF Checkpoint
    <3>2. to = mem.cursor + 1 /\ [disk EXCEPT !.cursor = to] = [events |-> disk.events, cursor |-> to]
      BY <2>1, <3>1, Checkpointed
    <3> HIDE DEF to
    <3>3. disk'.cursor \in {disk.cursor, mem.cursor + 1} BY <3>1, <3>2
    <3> QED BY <1>1, <3>3
  <2>2. CASE mem.cursor # position[x] BY <1>1, <1>4, <2>2 DEF Checkpoint
  <2> QED BY <2>1, <2>2
<1>5. ASSUME NEW n \in 1 .. 2, Record(n) PROVE disk'.cursor >= disk.cursor
  <2>1. n \in Nat OBVIOUS
  <2> QED BY <1>3, <1>5, <2>1 DEF Record
<1>6. CASE Admit BY <1>3, <1>6 DEF Admit
<1>7. ASSUME NEW x \in Exporters, StartDrain(x) \/ DrainStep(x)
      PROVE  disk'.cursor >= disk.cursor
  BY <1>2, <1>4, <1>7 DEF StartDrain, DrainStep, ReadBatch, Send
<1>8. CASE Crash \/ Close \/ Reopen \/ UNCHANGED vars
  BY <1>2, <1>8 DEF Crash, Close, Reopen, vars
<1> QED BY <1>5, <1>6, <1>7, <1>8 DEF Next

(* The durable checkpoint never moves back (advance, close).                 *)
THEOREM CheckpointStands == Spec => CheckpointAdvances
<1>1. ExportInv /\ [Next]_vars => [disk'.cursor >= disk.cursor]_vars BY CursorStep
<1> QED BY <1>1, ExportInvariant, PTL DEF Spec, CheckpointAdvances

LEMMA AdmitStep ==
  ASSUME ExportInv, Admit PROVE Cardinality(1 .. Len(disk.events) \ Delivered) < MaxBacklog
<1> DEFINE n == Len(disk.events)  c == mem.cursor
           missing == 1 .. n \ Delivered
<1>1. /\ n \in Nat /\ c \in Nat /\ disk.cursor \in {c, c + 1} /\ disk.cursor \in Nat
  BY LenProperties DEF ExportInv, ExportTypeOK, StoresOK, Stored
<1>2. up /\ ~failed BY DEF Admit, Commit
<1>3. mem.events = disk.events /\ c <= n
  BY <1>2 DEF ExportInv, ExportTypeOK, StoresOK
<1>4. n - c < MaxBacklog BY <1>3 DEF Admit, BacklogAllows
<1>5. 1 .. disk.cursor \subseteq Delivered BY DEF ExportInv, NothingIsSkipped
<1>6. missing \subseteq c + 1 .. n
  <2>1. 1 .. c \subseteq 1 .. disk.cursor BY <1>1
  <2>2. \A i \in 1 .. n : i \in 1 .. c \/ i \in c + 1 .. n BY <1>1
  <2> QED BY <1>5, <2>1, <2>2
<1>7. IsFiniteSet(c + 1 .. n) /\ Cardinality(c + 1 .. n) = n - c
  <2>1. /\ IsFiniteSet(c + 1 .. n)
        /\ Cardinality(c + 1 .. n) = IF c + 1 > n THEN 0 ELSE n - (c + 1) + 1
    <3>1. c + 1 \in Int /\ n \in Int BY <1>1
    <3> HIDE DEF c, n
    <3> QED BY <3>1, FS_Interval
  <2> QED BY <1>1, <1>3, <2>1
<1>8. Cardinality(missing) <= n - c /\ Cardinality(missing) \in Nat
  <2> HIDE DEF missing, c, n
  <2> QED BY <1>6, <1>7, FS_Subset, FS_CardinalityType
<1>9. MaxBacklog \in Nat BY ExportAssumption
<1> HIDE DEF c, n
<1> QED BY <1>1, <1>4, <1>8, <1>9 DEF n

(* An effect is admitted only while fewer than MaxBacklog durable events are  *)
(* missing at the receiver (_admission_issues).                             *)
THEOREM AdmissionIsBacked == Spec => AdmissionIsBackedByExport
<1>1. ExportInv /\ [Next]_vars
        => [Admit => Cardinality(1 .. Len(disk.events) \ Delivered) < MaxBacklog]_vars
  BY AdmitStep
<1> QED BY <1>1, ExportInvariant, PTL DEF Spec, AdmissionIsBackedByExport
=============================================================================
