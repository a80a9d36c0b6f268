---------------------------- MODULE AuditExport ----------------------------
(***************************************************************************)
(* Delivery of the audit events (audit_export.py and the event part of     *)
(* runtime_store.py).  The gate appends the events of each transaction to  *)
(* the store; drain() sends them in order to a receiver and checkpoints    *)
(* each one after its acceptance.  Delivery is at least once: drains may   *)
(* be interrupted anywhere, and the store may be closed and reopened under *)
(* a drain that is talking to the receiver.                                *)
(*                                                                         *)
(* One consumer, the one of the feedback policy.  An event is its number   *)
(* in the order of creation: one whose transaction was rolled back is not  *)
(* created again.                                                          *)
(***************************************************************************)
EXTENDS Naturals, Sequences, FiniteSets

CONSTANTS Exporters,   \* threads that may call drain()
          BatchSize, MaxBatches,
          MaxBacklog,  \* max_export_backlog of the feedback policy
          MaxCreated,  \* bound on the events created
          MaxFaults,   \* bound on crashes, closings, refusals and failed writes
          None

ASSUME ExportAssumption ==
  /\ BatchSize \in Nat \ {0} /\ MaxBatches \in Nat \ {0} /\ MaxBacklog \in Nat \ {0}
  /\ MaxCreated \in Nat /\ MaxFaults \in Nat
  /\ None \notin Exporters

VARIABLES mem,      \* the events and the cursor of the open store object
          disk,     \* the events and the cursor a new store object would load
          up,       \* a gate owns an open store
          failed,   \* the latch of that gate
          lock,     \* _export_lock of the open store: its holder
          pc, position, batch, rounds, \* drain() threads and their locals
          orphans,  \* drains whose store object has been closed
          received, \* what the receiver has accepted (durable)
          created,  \* how many events have been created
          faults

vars == <<mem, disk, up, failed, lock, pc, position, batch, rounds, orphans,
          received, created, faults>>

Stored   == [events : Seq(1 .. MaxCreated), cursor : Nat]
Envelope == [sequence : Nat \ {0}, event_id : 1 .. MaxCreated]

ExportTypeOK ==
  /\ mem \in Stored /\ disk \in Stored
  /\ mem.cursor <= Len(mem.events) /\ disk.cursor <= Len(disk.events)
  /\ up \in BOOLEAN /\ failed \in BOOLEAN
  /\ lock \in Exporters \cup {None}
  /\ pc \in [Exporters -> {"idle", "reading", "sending", "accepted"}]
  /\ position \in [Exporters -> Nat]
  /\ batch \in [Exporters -> Seq(Envelope)]
  /\ \A x \in Exporters : pc[x] \in {"sending", "accepted"} => batch[x] # <<>>
  /\ rounds \in [Exporters -> 0 .. MaxBatches]
  /\ orphans \subseteq Exporters
  /\ received \subseteq Envelope
  /\ created \in 0 .. MaxCreated /\ faults \in 0 .. MaxFaults

EmptyStore == [events |-> <<>>, cursor |-> 0]

Init ==
  /\ mem = EmptyStore /\ disk = EmptyStore
  /\ up = TRUE /\ failed = FALSE /\ lock = None
  /\ pc = [x \in Exporters |-> "idle"]
  /\ position = [x \in Exporters |-> 0]
  /\ batch = [x \in Exporters |-> <<>>]
  /\ rounds = [x \in Exporters |-> 0]
  /\ orphans = {} /\ received = {}
  /\ created = 0 /\ faults = 0

drains == <<lock, pc, position, batch, rounds, orphans>>

Fault == faults < MaxFaults /\ faults' = faults + 1
-----------------------------------------------------------------------------
(* The gate.                                                               *)

Appended(store, n) == [store EXCEPT !.events = @ \o [i \in 1 .. n |-> created + i]]

(* Mutant: the events are in memory before the database has them.           *)
CommitMemoryFirst(n) ==
  /\ up /\ ~failed
  /\ created + n <= MaxCreated /\ created' = created + n
  /\ mem' = Appended(mem, n)
  /\ \/ disk' = Appended(disk, n) /\ UNCHANGED <<failed, faults>>
     \/ Fault /\ disk' = disk /\ failed' = TRUE

(* commit(): the events of one transaction.  If it is not acknowledged it   *)
(* may be durable, and the gate latches.                                    *)
Commit(n) ==
  /\ up /\ ~failed
  /\ created + n <= MaxCreated /\ created' = created + n
  /\ \/ disk' = Appended(disk, n) /\ mem' = Appended(mem, n) /\ UNCHANGED <<failed, faults>>
     \/ Fault /\ disk' \in {disk, Appended(disk, n)} /\ mem' = mem /\ failed' = TRUE

(* Transactions that admit no effect are never held back.                   *)
Record(n) ==
  /\ Commit(n)
  /\ UNCHANGED <<up, received>> /\ UNCHANGED drains

(* Mutant: one event too many is let through.                               *)
BacklogAllowsOneMore == Len(mem.events) - mem.cursor <= MaxBacklog

BacklogAllows == Len(mem.events) - mem.cursor < MaxBacklog

(* The reservation of an execution (_admission_issues).                     *)
Admit ==
  /\ BacklogAllows
  /\ Commit(1)
  /\ UNCHANGED <<up, received>> /\ UNCHANGED drains
-----------------------------------------------------------------------------
(* drain().                                                                *)

Goto(x, where) == pc' = [pc EXCEPT ![x] = where]

(* Mutant: a drain that is refused keeps the export lock.                   *)
LeaveLocked(x) ==
  /\ Goto(x, "idle")
  /\ orphans' = orphans \ {x}
  /\ lock' = lock
  /\ UNCHANGED <<position, batch, rounds>>

(* The drain ends, by return or by exception, and releases the lock.        *)
Leave(x) ==
  /\ Goto(x, "idle")
  /\ orphans' = orphans \ {x}
  /\ lock' = IF lock = x THEN None ELSE lock
  /\ UNCHANGED <<position, batch, rounds>>

Untouched == UNCHANGED <<up, failed, created>>

StartDrain(x) ==
  /\ up /\ lock = None
  /\ pc[x] = "idle"
  /\ lock' = x
  /\ rounds' = [rounds EXCEPT ![x] = 0]
  /\ Goto(x, "reading")
  /\ UNCHANGED <<mem, disk, position, batch, orphans, received, faults>> /\ Untouched

(* events(cursor, BatchSize), in their envelopes.                           *)
Pending ==
  LET backlog == Len(mem.events) - mem.cursor
  IN [i \in 1 .. IF backlog < BatchSize THEN backlog ELSE BatchSize |->
        [sequence |-> mem.cursor + i, event_id |-> mem.events[mem.cursor + i]]]

ReadBatch(x) ==
  /\ pc[x] = "reading"
  /\ IF x \in orphans \/ rounds[x] = MaxBatches \/ Pending = <<>>
     THEN Leave(x)
     ELSE /\ position' = [position EXCEPT ![x] = mem.cursor]
          /\ batch' = [batch EXCEPT ![x] = Pending]
          /\ rounds' = [rounds EXCEPT ![x] = @ + 1]
          /\ Goto(x, "sending")
          /\ UNCHANGED <<lock, orphans>>
  /\ UNCHANGED <<mem, disk, received, faults>> /\ Untouched

(* SQLiteAuditReceiver: an id has one content.                              *)
Acceptable(e) == \A r \in received : r.event_id = e.event_id => r = e

(* Mutant: a refusal of the receiver is taken for its acceptance.           *)
SendUnheard(x) ==
  /\ pc[x] = "sending"
  /\ LET e == Head(batch[x]) IN
     \/ /\ received' = received \cup {e}
        /\ UNCHANGED faults
     \/ /\ Fault
        /\ received' = received
  /\ Goto(x, "accepted")
  /\ UNCHANGED <<lock, position, batch, rounds, orphans, mem, disk>> /\ Untouched

(* The event is offered, without a lock of the gate or the database.  The   *)
(* receiver accepts it, refuses it, or accepts it and is not heard.         *)
Send(x) ==
  /\ pc[x] = "sending"
  /\ LET e == Head(batch[x]) IN
     \/ /\ Acceptable(e)
        /\ received' = received \cup {e}
        /\ Goto(x, "accepted")
        /\ UNCHANGED <<lock, position, batch, rounds, orphans, faults>>
     \/ /\ Leave(x)
        /\ IF Acceptable(e)
           THEN Fault /\ received' \in {received, received \cup {e}}
           ELSE UNCHANGED <<received, faults>>
  /\ UNCHANGED <<mem, disk>> /\ Untouched

(* Mutant: the store of the drain is not asked whether it is still open.    *)
CheckpointAfterClose(x) ==
  LET to == Head(batch[x]).sequence IN
  /\ pc[x] = "accepted"
  /\ disk' = [disk EXCEPT !.cursor = to]
  /\ mem' = [mem EXCEPT !.cursor = to]
  /\ position' = [position EXCEPT ![x] = to]
  /\ batch' = [batch EXCEPT ![x] = Tail(@)]
  /\ Goto(x, IF Len(batch[x]) = 1 THEN "reading" ELSE "sending")
  /\ UNCHANGED <<lock, rounds, orphans, faults, received>> /\ Untouched

(* Mutant: the checkpoint is the next event to send, not the last one sent. *)
CheckpointNext(x) ==
  LET to == Head(batch[x]).sequence + 1 IN
  /\ pc[x] = "accepted"
  /\ IF x \in orphans \/ mem.cursor # position[x]
     THEN Leave(x) /\ UNCHANGED <<mem, disk, faults>>
     ELSE \/ /\ disk' = [disk EXCEPT !.cursor = to]
             /\ mem' = [mem EXCEPT !.cursor = to]
             /\ position' = [position EXCEPT ![x] = to]
             /\ batch' = [batch EXCEPT ![x] = Tail(@)]
             /\ Goto(x, IF Len(batch[x]) = 1 THEN "reading" ELSE "sending")
             /\ UNCHANGED <<lock, rounds, orphans, faults>>
          \/ /\ Fault
             /\ disk' \in {disk, [disk EXCEPT !.cursor = to]}
             /\ Leave(x)
             /\ UNCHANGED mem
  /\ UNCHANGED received /\ Untouched

(* advance(): the event is checkpointed; the write may fail, and may be     *)
(* durable nevertheless.                                                    *)
Checkpoint(x) ==
  LET to == Head(batch[x]).sequence IN
  /\ pc[x] = "accepted"
  /\ IF x \in orphans \/ mem.cursor # position[x]
     THEN Leave(x) /\ UNCHANGED <<mem, disk, faults>>
     ELSE \/ /\ disk' = [disk EXCEPT !.cursor = to]
             /\ mem' = [mem EXCEPT !.cursor = to]
             /\ position' = [position EXCEPT ![x] = to]
             /\ batch' = [batch EXCEPT ![x] = Tail(@)]
             /\ Goto(x, IF Len(batch[x]) = 1 THEN "reading" ELSE "sending")
             /\ UNCHANGED <<lock, rounds, orphans, faults>>
          \/ /\ Fault
             /\ disk' \in {disk, [disk EXCEPT !.cursor = to]}
             /\ Leave(x)
             /\ UNCHANGED mem
  /\ UNCHANGED received /\ Untouched
-----------------------------------------------------------------------------
(* The process dies: its drains are gone.                                   *)
Crash ==
  /\ up /\ Fault
  /\ up' = FALSE /\ lock' = None
  /\ pc' = [x \in Exporters |-> "idle"] /\ orphans' = {}
  /\ UNCHANGED <<mem, disk, failed, position, batch, rounds, received, created>>

(* close(): the drains go on until they next use the store.  Closing a      *)
(* healthy gate counts as a fault.                                          *)
Close ==
  /\ up
  /\ IF failed THEN UNCHANGED faults ELSE Fault
  /\ up' = FALSE /\ lock' = None
  /\ orphans' = orphans \cup {x \in Exporters : pc[x] # "idle"}
  /\ UNCHANGED <<mem, disk, failed, pc, position, batch, rounds, received, created>>

(* A new store object loads the database; its export lock is a new one.     *)
Reopen ==
  /\ ~up
  /\ up' = TRUE /\ failed' = FALSE
  /\ mem' = disk
  /\ UNCHANGED <<disk, received, created, faults>> /\ UNCHANGED drains
-----------------------------------------------------------------------------
DrainStep(x) == ReadBatch(x) \/ Send(x) \/ Checkpoint(x)

Next ==
  \/ \E n \in 1 .. 2 : Record(n)
  \/ Admit
  \/ \E x \in Exporters : StartDrain(x) \/ DrainStep(x)
  \/ Crash
  \/ Close
  \/ Reopen

Spec == Init /\ [][Next]_vars

(* A service-owned schedule keeps calling drain(), a call that has begun    *)
(* goes on, and the operator replaces a gate that has failed.               *)
FairSpec ==
  /\ Spec
  /\ WF_vars(\E x \in Exporters : StartDrain(x))
  /\ \A x \in Exporters : WF_vars(DrainStep(x))
  /\ WF_vars(failed /\ Close)
  /\ WF_vars(Reopen)
-----------------------------------------------------------------------------
(* Properties.                                                             *)

Delivered == {r.sequence : r \in received}

(* No event is skipped: what the checkpoint has passed was accepted, also   *)
(* when the drain that wrote it failed, and an accepted event has no gap    *)
(* before it, whichever drains sent it (drain).                             *)
NothingIsSkipped == \A n \in Delivered \cup {disk.cursor} : 1 .. n \subseteq Delivered

(* The receiver's record is the durable one: it never holds an event whose  *)
(* transaction was rolled back, nor another event in its place (commit).    *)
DeliveredIsDurable ==
  \A r \in received : /\ r.sequence <= Len(disk.events)
                      /\ disk.events[r.sequence] = r.event_id

(* The durable checkpoint never moves back, also when the drain of a closed *)
(* store returns late (advance, close).                                     *)
CheckpointAdvances == [][disk'.cursor >= disk.cursor]_vars

(* An effect is admitted only while fewer than MaxBacklog durable events    *)
(* are missing at the receiver (_admission_issues).                         *)
AdmissionIsBackedByExport ==
  [][Admit => Cardinality(1 .. Len(disk.events) \ Delivered) < MaxBacklog]_vars

(* Every durable event reaches the receiver (drain, called on a schedule).  *)
EventuallyDelivered ==
  \A n \in 1 .. MaxCreated : (Len(disk.events) >= n) ~> (n \in Delivered)
-----------------------------------------------------------------------------
(* The invariant that carries the safety properties: the open store is the   *)
(* durable one up to an acknowledgement that was lost, and a drain, also one *)
(* of a closed store, sends the events that follow the delivered ones, in    *)
(* their order.                                                             *)

StoresOK ==
  /\ Len(mem.events) <= Len(disk.events)
  /\ \A i \in 1 .. Len(mem.events) : disk.events[i] = mem.events[i]
  /\ disk.cursor \in {mem.cursor, mem.cursor + 1}
  /\ up /\ ~failed => mem.events = disk.events

DrainOK(x) ==
  pc[x] \in {"sending", "accepted"} =>
    /\ position[x] + Len(batch[x]) <= Len(mem.events)
    /\ \A i \in 1 .. Len(batch[x]) :
         batch[x][i] = [sequence |-> position[x] + i, event_id |-> mem.events[position[x] + i]]
    /\ 1 .. position[x] \subseteq Delivered
    /\ pc[x] = "accepted" => position[x] + 1 \in Delivered

ExportInv ==
  /\ ExportTypeOK /\ NothingIsSkipped /\ DeliveredIsDurable
  /\ StoresOK /\ \A x \in Exporters : DrainOK(x)
=============================================================================
