----------------------------- MODULE Buffering ------------------------------
(***************************************************************************)
(* Buffered submissions (buffering.py): inputs are accepted one by one,    *)
(* sealed into batches in the order of their acceptance, and every batch is*)
(* submitted as a run of its own, one at a time in each partition.  The    *)
(* outbox processes pump them next to their events.                        *)
(***************************************************************************)
EXTENDS Workflow

CONSTANTS
  Item,        \* buffered inputs
  BatchOf,     \* the run of the batch that starts with an item: batch_id
  PartitionOf, \* tenant, task type and partition_key of an item
  KindOf,      \* its configuration, definition and batch size
  BatchSize, MaxBacklog,  \* batch_size, max_pending_per_partition
  SealLimit    \* seal(limit=8)

ASSUME BufferingAssumption ==
  /\ BatchOf \in [Item -> Root] /\ IsInjective(BatchOf)
  /\ DOMAIN PartitionOf = Item /\ DOMAIN KindOf = Item /\ None \notin Root
  /\ {BatchSize, MaxBacklog, SealLimit} \subseteq Nat \ {0}

VARIABLES
  queue,    \* runtime_buffer_items by ordinal
  due,      \* items whose due_at has passed
  batchOf,  \* their batch_id
  batch,    \* runtime_buffer_batches.state
  pump      \* what the tick of a process has still to dispatch, and where it is

bufferVars == <<queue, due, batchOf, batch, pump>>
vars == <<workflowVars, bufferVars>>

Batches == {BatchOf[i] : i \in Item}
Resting == [todo |-> {}, at |-> "IDLE", run |-> None]

TypeOK ==
  /\ WorkflowTypeOK
  /\ queue \in Seq(Item) /\ IsInjective(queue) /\ due \subseteq ToSet(queue)
  /\ batchOf \in [Item -> Batches \cup {None}]
  /\ batch \in [Batches -> {"ABSENT", "PREPARING", "SUBMITTED", "FAILED"}]
  /\ pump \in [Publisher -> [todo : SUBSET Batches, run : Batches \cup {None},
                             at : {"IDLE", "SUBMIT", "INSERT", "MARK", "DEFER"}]]

Init ==
  /\ WorkflowInit
  /\ queue = <<>> /\ due = {}
  /\ batchOf = [i \in Item |-> None] /\ batch = [b \in Batches |-> "ABSENT"]
  /\ pump = [p \in Publisher |-> Resting]

-----------------------------------------------------------------------------
(* append, and seal.  Both lock the row of runtime_authority, as does the  *)
(* admission of a run.                                                     *)

Unlocked == \A p \in Publisher : pump[p].at # "INSERT"
Unbatched(i) == i \in ToSet(queue) /\ batchOf[i] = None
Older(i, j) == \E m, n \in DOMAIN queue : m < n /\ queue[m] = i /\ queue[n] = j

\* The items that wait in the partition of an item, and those of them up to it.
Neighbours(i) == {j \in ToSet(queue) : PartitionOf[j] = PartitionOf[i] /\ Unbatched(j)}
UpTo(i) == {j \in Neighbours(i) : j = i \/ Older(j, i)}

\* What counts against the backlog of a partition.
Backlog(i) == {j \in ToSet(queue) :
  /\ PartitionOf[j] = PartitionOf[i]
  /\ \/ batchOf[j] = None
     \/ batch[batchOf[j]] = "PREPARING"
     \/ batch[batchOf[j]] = "SUBMITTED" /\ root[batchOf[j]] = "RUNNING"}

\* Mutant of Accept: the submission key is not looked up.
AcceptAgain(i) ==
  /\ Unlocked /\ Cardinality(Backlog(i)) < MaxBacklog
  /\ queue' = Append(queue, i)
  /\ UNCHANGED <<workflowVars, due, batchOf, batch, pump>>

\* append; of a repeated call nothing comes but the item's id.
Accept(i) ==
  /\ i \notin ToSet(queue) /\ Unlocked
  /\ Cardinality(Backlog(i)) < MaxBacklog
  /\ queue' = Append(queue, i)
  /\ UNCHANGED <<workflowVars, due, batchOf, batch, pump>>

FallsDue(i) ==
  /\ i \in ToSet(queue) \ due
  /\ due' = due \cup {i}
  /\ UNCHANGED <<workflowVars, queue, batchOf, batch, pump>>

\* Mutant of Occupied: a batch that was submitted does not hold its partition.
OccupiedPreparing(b) == batch[b] = "PREPARING"

Occupied(b) ==
  \/ batch[b] = "PREPARING"
  \/ batch[b] = "SUBMITTED" /\ root[b] \in {"ABSENT", "RUNNING"}

\* The oldest item of every partition without a batch at work, if it is due.
Firsts ==
  {i \in due : /\ Unbatched(i) /\ UpTo(i) = {i}
               /\ \A j \in Item : PartitionOf[j] = PartitionOf[i] /\ batchOf[j] # None =>
                    ~Occupied(batchOf[j])}

\* Those that follow it, up to the first that was accepted under another policy.
Selected(i) ==
  {j \in Neighbours(i) : /\ Cardinality(UpTo(j)) <= BatchSize
                         /\ \A k \in UpTo(j) : KindOf[k] = KindOf[i]}

\* Batches a process left behind come first, unless their retry_at is ahead; then
\* new ones as long as the limit lasts.
SealWith(p, unfinished) ==
  /\ p \in replicas /\ pump[p].at = "IDLE" /\ Unlocked
  /\ \E again \in SUBSET unfinished, new \in SUBSET Firsts :
       /\ again \cup new # {} /\ Cardinality(again) + Cardinality(new) <= SealLimit
       /\ new = Firsts \/ Cardinality(again) + Cardinality(new) = SealLimit
       /\ batchOf' = [j \in Item |-> IF \E i \in new : j \in Selected(i)
                        THEN BatchOf[CHOOSE i \in new : j \in Selected(i)] ELSE batchOf[j]]
       /\ batch' = [b \in Batches |-> IF \E i \in new : b = BatchOf[i] THEN "PREPARING"
                                      ELSE batch[b]]
       /\ \E b \in again \cup {BatchOf[i] : i \in new} :
            pump' = [pump EXCEPT ![p] = [at |-> "SUBMIT", run |-> b,
                       todo |-> (again \cup {BatchOf[i] : i \in new}) \ {b}]]
  /\ UNCHANGED <<workflowVars, queue, due>>

\* Mutant of Seal: only new batches are sealed.
SealNew(p) == SealWith(p, {})

Seal(p) == SealWith(p, {b \in Batches : batch[b] = "PREPARING"})

-----------------------------------------------------------------------------
(* dispatch: the artifact is stored, the run submitted, the batch marked.  *)

PumpAt(p, step) == pump[p].at = step
PumpTo(p, step) == pump' = [pump EXCEPT ![p].at = step]
NextBatch(p) == \E b \in pump[p].todo \cup {None} :
  /\ b = None => pump[p].todo = {}
  /\ pump' = [pump EXCEPT ![p] = IF b = None THEN Resting
                                 ELSE [at |-> "SUBMIT", run |-> b, todo |-> @.todo \ {b}]]

byPump == <<replicas, late, op, bindings, cancelling, overwritten, task, temporal, handler, fin,
            queue, due, batchOf>>

\* submit_run finds the submission of a lost acknowledgement, even of a run that
\* has ended; else the run must be admitted.
SubmitBatch(p) ==
  LET b == pump[p].run
  IN /\ PumpAt(p, "SUBMIT") /\ Unlocked
     /\ PumpTo(p, IF root[b] # "ABSENT" THEN "MARK" ELSE IF CanSubmit(b) THEN "INSERT" ELSE "DEFER")
     /\ UNCHANGED <<byPump, root, outbox, faults, batch>>

\* The deadline may pass between its check and the commit.
InsertBatch(p) ==
  LET b == pump[p].run
  IN /\ PumpAt(p, "INSERT")
     /\ EndRoot(b, "RUNNING") /\ Announce({<<"start_workflow", b>>})
     /\ PumpTo(p, "MARK")
     /\ UNCHANGED <<byPump, faults, batch>>

MarkBatch(p) ==
  /\ PumpAt(p, "MARK")
  /\ batch' = [batch EXCEPT ![pump[p].run] = IF @ = "PREPARING" THEN "SUBMITTED" ELSE @]
  /\ NextBatch(p)
  /\ UNCHANGED <<byPump, root, outbox, faults>>

\* The artifact cannot be stored, the run not be submitted or its commit is not
\* acknowledged: tick goes on to defer the batch.
DispatchFails(p) ==
  /\ pump[p].at \in {"SUBMIT", "INSERT", "MARK"} /\ Fault
  /\ PumpTo(p, "DEFER")
  /\ UNCHANGED <<byPump, root, outbox, batch>>

\* Mutant of DeferBatch: it is not looked whether the run exists.
DeferLate(p) ==
  LET b == pump[p].run
  IN /\ PumpAt(p, "DEFER")
     /\ batch' = [batch EXCEPT ![b] = IF @ = "PREPARING" /\ b \in late THEN "FAILED" ELSE @]
     /\ NextBatch(p)
     /\ UNCHANGED <<byPump, root, outbox, faults>>

\* Another process may be submitting it: a run not yet committed is not seen.
DeferBatch(p) ==
  LET b == pump[p].run
  IN /\ PumpAt(p, "DEFER")
     /\ batch' = [batch EXCEPT ![b] = IF @ = "PREPARING" /\ b \in late /\ root[b] = "ABSENT"
                                      THEN "FAILED" ELSE @]
     /\ NextBatch(p)
     /\ UNCHANGED <<byPump, root, outbox, faults>>

\* The process dies, or cannot even defer: what tick had to do is left PREPARING.
PumpStops(p) ==
  /\ ~PumpAt(p, "IDLE") /\ Fault
  /\ pump' = [pump EXCEPT ![p] = Resting]
  /\ UNCHANGED <<byPump, root, outbox, batch>>

Dispatch(p) == SubmitBatch(p) \/ InsertBatch(p) \/ MarkBatch(p) \/ DeferBatch(p)

-----------------------------------------------------------------------------
(* All that publishers, reconciler, workers and clients do.                *)

\* The deadline of a batch is set when it is sealed.
Sealed(r) == r \in Batches => batch[r] # "ABSENT"

Next ==
  \/ WorkflowNext /\ UNCHANGED bufferVars /\ \A r \in late' : Sealed(r)
  \/ \E r \in Root \ Batches : Submit(r) /\ Unlocked /\ UNCHANGED <<handler, fin, bufferVars>>
  \/ \E i \in Item : Accept(i) \/ FallsDue(i)
  \/ \E p \in Publisher : Seal(p) \/ Dispatch(p) \/ DispatchFails(p) \/ PumpStops(p)

Spec == Init /\ [][Next]_vars

\* Workers, reconciler and time go on: each of these steps happens a finite number
\* of times, so that one condition keeps all of them going.  Every process that is
\* deployed goes on with its events and with its batches, and leases run out.
Fairness ==
  /\ WF_vars((WorkflowProgress /\ UNCHANGED bufferVars) \/ \E i \in Item : FallsDue(i))
  /\ \A p \in Publisher : WF_outboxVars(Claim(p) \/ Publish(p)) /\ WF_vars(Seal(p) \/ Dispatch(p))
  /\ WF_outboxVars(\E e \in DOMAIN outbox : Abandoned(e) /\ LeaseLapses(e))

FairSpec == Spec /\ Fairness

-----------------------------------------------------------------------------
(* Properties.                                                             *)

\* "only one batch per tenant/task/partition is active", in the order of acceptance
\* (docs/contracts.md:356): a batch's run is RUNNING within its deadline only when no
\* older item of the partition is in another batch that may still run.
OneBatchInOrder ==
  \A i, j \in ToSet(queue) :
    Older(i, j) /\ PartitionOf[i] = PartitionOf[j] /\ batchOf[j] # None =>
      /\ batchOf[i] # None
      /\ batchOf[i] # batchOf[j] => ~Occupied(batchOf[i])
                                    /\ (root[batchOf[i]] = "RUNNING" => batchOf[i] \in late)

\* status: an input that is reported FAILED is in no run that succeeds, however two
\* processes that dispatch its batch, a lost acknowledgement and the deadline meet.
FailedIsFailed ==
  \A b \in Batches : batch[b] = "FAILED" => root[b] \notin {"SUCCEEDED", "PARTIAL"}

\* "Pending records do not expire" (docs/contracts.md:358): every accepted input comes
\* to an end, unless runs that hang until their deadlines take all the room.
InputsEnd ==
  []<>(\/ \A i \in ToSet(queue) : batchOf[i] # None
            /\ (batch[batchOf[i]] = "FAILED" \/ root[batchOf[i]] \in RootFinal)
       \/ Cardinality(Hanging) = MaxRoots)
=============================================================================
