--------------------------- MODULE DeliveryProofs ---------------------------
(***************************************************************************)
(* Delivery between the ledger and Temporal, for every value of the        *)
(* constants: however calls fail, processes die and leases lapse, an event *)
(* marked delivered has been delivered, a workflow is told what the ledger *)
(* decided, and it claims no success that the ledger did not accept.       *)
(***************************************************************************)
EXTENDS Buffering, FiniteSetTheorems, TLAPS

USE DEF RootFinal, OpFinal, FlowClosed, Started

-----------------------------------------------------------------------------
(* Which steps change what.                                                *)

BufferStep ==
  \/ \E i \in Item : Accept(i) \/ FallsDue(i)
  \/ \E p \in Publisher : Seal(p) \/ Dispatch(p) \/ DispatchFails(p) \/ PumpStops(p)

\* Runs begin in submit_run, a client's or a pump's; they end in cancel, finish_run, the
\* late delivery of their start, and reconcile_expired.
LEMMA RootChanges ==
  ASSUME Next
  PROVE  \/ UNCHANGED <<root, overwritten>>
         \/ \E r \in Root : \/ Submit(r) /\ Unlocked
                            \/ CancelWrite(r) \/ FinishWrite(r)
                            \/ \E p \in Publisher : DeliverStart(p, r)
         \/ Reconcile \/ \E p \in Publisher : InsertBatch(p)
  BY DEF Next, WorkflowNext, OutboxNext, CancelRead, Deadline, OperationEnds, Claim,
     ClaimAll, Publish, DeliverCancel, DeliverCompletion, Ack, Defer, PublisherDies,
     CallFails, DeferFails, LeaseLapses, Activity, SubmitOperation, ReadOperation,
     BindRead, BindWrite, ActivityRetried, WorkerDies, Flow, Begin, Harvest, Drain,
     Return, Close, Finish, FinishRead, FinishConfirm, FinishRetried, CancelHandler,
     CancelCloses, TimeOut, Accept, FallsDue, Seal, SealWith, Dispatch, SubmitBatch,
     MarkBatch, DeferBatch, DispatchFails, PumpStops, ledger, temporal, activityOf,
     byHandler, closing, byPump, workflowVars, outboxVars, bufferVars

\* Operations are submitted by activities; they end by themselves, or with their run.
LEMMA OperationChanges ==
  ASSUME Next
  PROVE  \/ op' = op
         \/ \E r \in Root : \/ CancelWrite(r) \/ FinishWrite(r)
                            \/ \E p \in Publisher : DeliverStart(p, r)
         \/ Reconcile
         \/ \E o \in Operation : \/ SubmitOperation(o)
                                 \/ \E state \in OpFinal : OperationEnds(o, state)
  BY DEF Next, WorkflowNext, OutboxNext, CancelRead, Deadline, Claim, ClaimAll, Publish,
     DeliverCancel, DeliverCompletion, Ack, Defer, PublisherDies, CallFails, DeferFails,
     LeaseLapses, Activity, ReadOperation, BindRead, BindWrite, ActivityRetried,
     WorkerDies, Flow, Begin, Harvest, Drain, Return, Close, Finish, FinishRead,
     FinishConfirm, FinishRetried, CancelHandler, CancelCloses, TimeOut, Submit, Accept,
     FallsDue, Seal, SealWith, Dispatch, SubmitBatch, InsertBatch, MarkBatch,
     DeferBatch, DispatchFails, PumpStops, ledger, temporal, activityOf, byHandler,
     closing, byPump, workflowVars, outboxVars, bufferVars

\* An activity is scheduled and drained by its workflow, carried out by workers, and
\* answered by publishers.
LEMMA ActivityChanges ==
  ASSUME Next
  PROVE  \/ act' = act
         \/ \E r \in Root : Begin(r) \/ Harvest(r) \/ Drain(r)
         \/ \E o \in Operation : \/ SubmitOperation(o) \/ ReadOperation(o) \/ BindRead(o)
                                 \/ BindWrite(o) \/ ActivityRetried(o) \/ WorkerDies(o)
         \/ \E p \in Publisher, t \in bindings : DeliverCompletion(p, t)
  BY DEF Next, WorkflowNext, OutboxNext, CancelRead, CancelWrite, Deadline,
     OperationEnds, Reconcile, Claim, ClaimAll, Publish, DeliverStart, DeliverCancel,
     Ack, Defer, PublisherDies, CallFails, DeferFails, LeaseLapses, Activity, Flow,
     Return, Close, Finish, FinishRead, FinishWrite, FinishConfirm, FinishRetried,
     CancelHandler, CancelCloses, TimeOut, Submit, Accept, FallsDue, Seal, SealWith,
     Dispatch, SubmitBatch, InsertBatch, MarkBatch, DeferBatch, DispatchFails,
     PumpStops, ledger, temporal, activityOf, byHandler, closing, byPump, workflowVars,
     outboxVars, bufferVars

\* Transactions leave events; publishers change the rows of those they claimed.
LEMMA OutboxChanges ==
  ASSUME Next
  PROVE  \/ outbox' = outbox
         \/ \E r \in Root : \/ Submit(r) \/ CancelWrite(r) \/ FinishWrite(r)
                            \/ \E p \in Publisher : DeliverStart(p, r)
         \/ Reconcile
         \/ \E o \in Operation : \/ BindWrite(o)
                                 \/ \E state \in OpFinal : OperationEnds(o, state)
         \/ \E p \in Publisher : \/ InsertBatch(p) \/ Claim(p)
                                 \/ \E e \in DOMAIN task[p] : Ack(p, e) \/ Defer(p, e)
         \/ \E e \in DOMAIN outbox : LeaseLapses(e)
  BY DEF Next, WorkflowNext, OutboxNext, CancelRead, Deadline, Publish, DeliverCancel,
     DeliverCompletion, PublisherDies, CallFails, DeferFails, Activity, SubmitOperation,
     ReadOperation, BindRead, ActivityRetried, WorkerDies, Flow, Begin, Harvest, Drain,
     Return, Close, Finish, FinishRead, FinishConfirm, FinishRetried, CancelHandler,
     CancelCloses, TimeOut, Accept, FallsDue, Seal, SealWith, Dispatch, SubmitBatch,
     MarkBatch, DeferBatch, DispatchFails, PumpStops, ledger, temporal, activityOf,
     byHandler, closing, byPump, workflowVars, outboxVars, bufferVars

\* What a publisher does changes what it has at hand.
LEMMA TaskChanges ==
  ASSUME Next
  PROVE  \/ task' = task
         \/ \E p \in Publisher :
              \/ \E r \in Root : DeliverStart(p, r) \/ DeliverCancel(p, r)
              \/ \E t \in bindings : DeliverCompletion(p, t)
              \/ Claim(p) \/ PublisherDies(p)
              \/ \E e \in DOMAIN task[p] : \/ Ack(p, e) \/ Defer(p, e)
                                           \/ CallFails(p, e) \/ DeferFails(p, e)
  BY DEF Next, WorkflowNext, OutboxNext, CancelRead, CancelWrite, Deadline,
     OperationEnds, Reconcile, Publish, LeaseLapses, Activity, SubmitOperation,
     ReadOperation, BindRead, BindWrite, ActivityRetried, WorkerDies, Flow, Begin,
     Harvest, Drain, Return, Close, Finish, FinishRead, FinishWrite, FinishConfirm,
     FinishRetried, CancelHandler, CancelCloses, TimeOut, Submit, Accept, FallsDue,
     Seal, SealWith, Dispatch, SubmitBatch, InsertBatch, MarkBatch, DeferBatch,
     DispatchFails, PumpStops, ledger, temporal, activityOf, byHandler, closing, byPump,
     workflowVars, outboxVars, bufferVars

\* A workflow is started by a publisher, once, and closed by what it does or by time.
LEMMA FlowChanges ==
  ASSUME Next
  PROVE  \/ flow' = flow
         \/ \E r \in Root : \/ Close(r) \/ CancelCloses(r) \/ TimeOut(r)
                            \/ \E p \in Publisher : DeliverStart(p, r)
  BY DEF Next, WorkflowNext, OutboxNext, CancelRead, CancelWrite, Deadline,
     OperationEnds, Reconcile, Claim, ClaimAll, Publish, DeliverCancel,
     DeliverCompletion, Ack, Defer, PublisherDies, CallFails, DeferFails, LeaseLapses,
     Activity, SubmitOperation, ReadOperation, BindRead, BindWrite, ActivityRetried,
     WorkerDies, Flow, Begin, Harvest, Drain, Return, Finish, FinishRead, FinishWrite,
     FinishConfirm, FinishRetried, CancelHandler, Submit, Accept, FallsDue, Seal,
     SealWith, Dispatch, SubmitBatch, InsertBatch, MarkBatch, DeferBatch, DispatchFails,
     PumpStops, ledger, temporal, activityOf, byHandler, closing, byPump, workflowVars,
     outboxVars, bufferVars

\* The handler of a workflow, and its finish_run.
LEMMA HandlerChanges ==
  ASSUME Next
  PROVE  /\ \/ handler' = handler
            \/ \E r \in Root : \/ Begin(r) \/ Harvest(r) \/ Drain(r) \/ Return(r)
                               \/ CancelHandler(r)
         /\ \/ fin' = fin
            \/ \E r \in Root : \/ Return(r) \/ FinishRead(r) \/ FinishWrite(r)
                               \/ FinishConfirm(r) \/ FinishRetried(r)
  <1> USE DEF Next, WorkflowNext, OutboxNext, CancelRead, CancelWrite, Deadline,
      OperationEnds, Reconcile, Claim, ClaimAll, Publish, DeliverStart, DeliverCancel,
      DeliverCompletion, Ack, Defer, PublisherDies, CallFails, DeferFails, LeaseLapses,
      Activity, SubmitOperation, ReadOperation, BindRead, BindWrite, ActivityRetried,
      WorkerDies, Flow, Close, Finish, CancelCloses, TimeOut, Submit, Accept, FallsDue,
      Seal, SealWith, Dispatch, SubmitBatch, InsertBatch, MarkBatch, DeferBatch,
      DispatchFails, PumpStops, ledger, temporal, activityOf, byHandler, closing,
      byPump, workflowVars, outboxVars, bufferVars
  <1>1. \/ handler' = handler
        \/ \E r \in Root : \/ Begin(r) \/ Harvest(r) \/ Drain(r) \/ Return(r)
                           \/ CancelHandler(r)
    BY DEF FinishRead, FinishWrite, FinishConfirm, FinishRetried
  <1>2. \/ fin' = fin
        \/ \E r \in Root : \/ Return(r) \/ FinishRead(r) \/ FinishWrite(r)
                           \/ FinishConfirm(r) \/ FinishRetried(r)
    BY DEF Begin, Harvest, Drain, CancelHandler
  <1> QED
    BY <1>1, <1>2

\* What else the ledger and Temporal keep, and the clock.
LEMMA OtherChanges ==
  ASSUME Next
  PROVE  /\ bindings' = bindings \/ \E o \in Operation : BindWrite(o)
         /\ cancelling' = cancelling \/ \E r \in Root : CancelRead(r) \/ CancelWrite(r)
         /\ late' = late \/ \E r \in Root : Deadline(r)
         /\ asked' = asked \/ \E p \in Publisher, r \in Root : DeliverCancel(p, r)
         /\ replicas' = replicas
         /\ faults' = faults \/ Fault
  <1> USE DEF Next, WorkflowNext, OutboxNext, OperationEnds, Reconcile, Claim, ClaimAll,
      Publish, DeliverStart, DeliverCompletion, Ack, Defer, PublisherDies, CallFails,
      DeferFails, LeaseLapses, Activity, SubmitOperation, ReadOperation, BindRead,
      ActivityRetried, WorkerDies, Flow, Begin, Harvest, Drain, Return, Close, Finish,
      FinishRead, FinishWrite, FinishConfirm, FinishRetried, CancelHandler,
      CancelCloses, TimeOut, Submit, Accept, FallsDue, Seal, SealWith, Dispatch,
      SubmitBatch, InsertBatch, MarkBatch, DeferBatch, DispatchFails, PumpStops, ledger,
      temporal, activityOf, byHandler, closing, byPump, workflowVars, outboxVars,
      bufferVars
  <1>1. bindings' = bindings \/ \E o \in Operation : BindWrite(o)
    BY DEF CancelRead, CancelWrite, Deadline, DeliverCancel
  <1>2. cancelling' = cancelling \/ \E r \in Root : CancelRead(r) \/ CancelWrite(r)
    BY DEF BindWrite, Deadline, DeliverCancel
  <1>3. late' = late \/ \E r \in Root : Deadline(r)
    BY DEF BindWrite, CancelRead, CancelWrite, DeliverCancel
  <1>4. asked' = asked \/ \E p \in Publisher, r \in Root : DeliverCancel(p, r)
    BY DEF BindWrite, CancelRead, CancelWrite, Deadline
  <1>5. replicas' = replicas
    BY DEF BindWrite, CancelRead, CancelWrite, Deadline, DeliverCancel
  <1>6. faults' = faults \/ Fault
    BY DEF BindWrite, CancelRead, CancelWrite, Deadline, DeliverCancel
  <1> QED
    BY <1>1, <1>2, <1>3, <1>4, <1>5, <1>6

\* Buffered inputs and batches.
LEMMA BufferChanges ==
  ASSUME Next
  PROVE  UNCHANGED bufferVars \/ BufferStep
  BY DEF Next, WorkflowNext, OutboxNext, BufferStep, CancelRead, CancelWrite, Deadline,
     OperationEnds, Reconcile, Claim, ClaimAll, Publish, DeliverStart, DeliverCancel,
     DeliverCompletion, Ack, Defer, PublisherDies, CallFails, DeferFails, LeaseLapses,
     Activity, SubmitOperation, ReadOperation, BindRead, BindWrite, ActivityRetried,
     WorkerDies, Flow, Begin, Harvest, Drain, Return, Close, Finish, FinishRead,
     FinishWrite, FinishConfirm, FinishRetried, CancelHandler, CancelCloses, TimeOut,
     Submit, ledger, temporal, activityOf, byHandler, closing, byPump, workflowVars,
     outboxVars, bufferVars

-----------------------------------------------------------------------------
(* Types.                                                                  *)

\* A started activity has a number, a pump that works has a batch, and no run has
\* more children in flight than its window.
Typed ==
  /\ TypeOK
  /\ \A o \in Operation : act[o].at \in Started => act[o].n >= 1
  /\ \A p \in Publisher : pump[p].at # "IDLE" => pump[p].run \in Batches
  /\ \A r \in Root : /\ handler[r].cursor <= Len(Items[r])
                     /\ Cardinality(handler[r].pending) <= Window[r]

\* Children that are started fit the window, and come next in the order of items.
LEMMA RefillFits ==
  ASSUME WorkflowTypeOK, NEW r \in Root, NEW kept \in SUBSET Operation,
         Cardinality(kept) <= Window[r], handler[r].cursor <= Len(Items[r]), Refill(r, kept)
  PROVE  \E upto \in Nat, started \in SUBSET OpsOf(r) :
           /\ handler[r].cursor <= upto /\ upto <= Len(Items[r])
           /\ started = {Items[r][i] : i \in handler[r].cursor + 1..upto}
           /\ Cardinality(kept \cup started) <= Window[r]
           /\ handler' = [handler EXCEPT ![r].at = "MAP", ![r].cursor = upto,
                                         ![r].pending = kept \cup started]
           /\ act' = [o \in Operation |-> IF o \in started
                        THEN [NoActivity EXCEPT !.n = 1, !.at = "SUBMIT"] ELSE act[o]]
  <1> DEFINE cursor == handler[r].cursor
             room == Window[r] - Cardinality(kept)
             upto == IF cursor + room < Len(Items[r]) THEN cursor + room ELSE Len(Items[r])
             next == cursor + 1..upto
             started == {Items[r][i] : i \in next}
  <1>1. /\ cursor \in Nat /\ Window[r] \in Nat /\ Items[r] \in Seq(Operation)
        /\ IsFiniteSet(kept) /\ Cardinality(kept) \in Nat
    BY OutboxAssumption, WorkflowAssumption, FS_Subset, FS_CardinalityType DEF WorkflowTypeOK
  <1>2. room \in Nat /\ upto \in Nat /\ cursor <= upto /\ upto <= Len(Items[r])
        /\ upto - cursor <= room
    <2>1. room \in Nat
      BY <1>1
    <2>2. Len(Items[r]) \in Nat
      BY <1>1
    <2>3. cursor <= Len(Items[r])
      OBVIOUS
    <2> HIDE DEF cursor, room
    <2> QED
      BY <1>1, <2>1, <2>2, <2>3
  <1>3. IsFiniteSet(next) /\ Cardinality(next) <= room
    <2>1. IsFiniteSet(next) /\ Cardinality(next) = IF cursor + 1 > upto THEN 0 ELSE upto - cursor
      <3>1. cursor + 1 \in Int /\ upto \in Int
        BY <1>1, <1>2
      <3>2. /\ IsFiniteSet(next)
            /\ Cardinality(next) = IF cursor + 1 > upto THEN 0 ELSE upto - (cursor + 1) + 1
        BY <3>1, FS_Interval
      <3> HIDE DEF next, upto
      <3> QED
        BY <1>1, <1>2, <3>2
    <2> HIDE DEF next, upto, room
    <2> QED
      BY <1>1, <1>2, <2>1
  <1>4. IsFiniteSet(started) /\ Cardinality(started) <= Cardinality(next)
    <2> DEFINE f == [i \in next |-> Items[r][i]]
    <2>1. f \in Surjection(next, started)
      BY DEF Surjection
    <2> HIDE DEF f, started, next
    <2> QED
      BY <1>3, <2>1, FS_Surjection
  <1>5. started \in SUBSET OpsOf(r)
    <2>1. \A i \in next : i \in DOMAIN Items[r]
      BY <1>1, <1>2
    <2> QED
      BY <2>1, WorkflowAssumption DEF ToSet
  <1>6. Cardinality(kept \cup started) <= Window[r]
    <2>1. /\ IsFiniteSet(kept \cup started)
          /\ Cardinality(kept \cup started) =
               Cardinality(kept) + Cardinality(started) - Cardinality(kept \cap started)
      BY <1>1, <1>4, FS_Union
    <2>2. Cardinality(kept \cap started) \in Nat /\ Cardinality(started) \in Nat
          /\ Cardinality(next) \in Nat
      BY <1>1, <1>3, <1>4, FS_Subset, FS_CardinalityType
    <2> HIDE DEF started, next, upto
    <2> QED
      BY <1>1, <1>3, <1>4, <2>1, <2>2
  <1>7. /\ handler' = [handler EXCEPT ![r].at = "MAP", ![r].cursor = upto,
                                      ![r].pending = kept \cup started]
        /\ act' = [o \in Operation |-> IF o \in started
                     THEN [NoActivity EXCEPT !.n = 1, !.at = "SUBMIT"] ELSE act[o]]
    BY DEF Refill
  <1> HIDE DEF started, upto
  <1> QED
    BY <1>2, <1>5, <1>6, <1>7 DEF started

\* The ledger's rows.
LEMMA LedgerType ==
  ASSUME Typed, Next
  PROVE  /\ replicas' \subseteq Publisher /\ replicas' # {}
         /\ root' \in [Root -> {"ABSENT", "RUNNING"} \cup RootFinal]
         /\ late' \subseteq Deadlined /\ cancelling' \subseteq Cancellable
         /\ op' \in [Operation -> {"ABSENT", "PENDING"} \cup OpFinal]
         /\ overwritten' \subseteq Root /\ faults' \in 0..MaxFaults
  <1> USE DEF Typed, TypeOK, WorkflowTypeOK, OutboxTypeOK
  <1>1. replicas' \subseteq Publisher /\ replicas' # {} /\ late' \subseteq Deadlined
        /\ cancelling' \subseteq Cancellable /\ faults' \in 0..MaxFaults
    BY OtherChanges, OutboxAssumption DEF Deadline, CancelRead, CancelWrite, Fault
  <1>2. /\ root' \in [Root -> {"ABSENT", "RUNNING"} \cup RootFinal]
        /\ overwritten' \subseteq Root
    <2>1. CASE UNCHANGED <<root, overwritten>>
      BY <2>1
    <2>2. ASSUME NEW r \in Root, Submit(r)
          PROVE  root' = [root EXCEPT ![r] = "RUNNING"] /\ overwritten' = overwritten
      BY <2>2 DEF Submit, SubmitRun
    <2>3. ASSUME NEW r \in Root, CancelWrite(r)
          PROVE  root' = [root EXCEPT ![r] = "CANCELLED"] /\ overwritten' \subseteq Root
      BY <2>3 DEF CancelWrite, CancelTo, EndRoot
    <2>4. ASSUME NEW r \in Root, FinishWrite(r)
          PROVE  \E s \in RootFinal : root' = [root EXCEPT ![r] = s] /\ overwritten' \subseteq Root
      BY <2>4 DEF FinishWrite, CancelTo, EndRoot
    <2>5. ASSUME NEW r \in Root, NEW p \in Publisher, DeliverStart(p, r)
          PROVE  \E s \in {"ABSENT", "RUNNING"} \cup RootFinal :
                   root' = [root EXCEPT ![r] = s] /\ overwritten' = overwritten
      <3>1. CASE r \in late
        BY <2>5, <3>1 DEF DeliverStart, EndRoot
      <3>2. CASE r \notin late
        BY <2>5, <3>2 DEF DeliverStart
      <3> QED
        BY <3>1, <3>2
    <2>6. CASE Reconcile
      BY <2>6 DEF Reconcile
    <2>7. ASSUME NEW p \in Publisher, InsertBatch(p)
          PROVE  root' = [root EXCEPT ![pump[p].run] = "RUNNING"] /\ overwritten' = overwritten
      BY <2>7 DEF InsertBatch, EndRoot, byPump
    <2>8. ASSUME NEW r, NEW s \in {"ABSENT", "RUNNING"} \cup RootFinal,
                 root' = [root EXCEPT ![r] = s]
          PROVE  root' \in [Root -> {"ABSENT", "RUNNING"} \cup RootFinal]
      BY <2>8
    <2>9. overwritten \subseteq Root
      OBVIOUS
    <2> QED
      <3> HIDE DEF Typed
      <3> QED
        BY <2>1, <2>2, <2>3, <2>4, <2>5, <2>6, <2>7, <2>8, <2>9, RootChanges
  <1>3. op' \in [Operation -> {"ABSENT", "PENDING"} \cup OpFinal]
    <2>1. ASSUME NEW S, NEW state \in {"PENDING"} \cup OpFinal, EndOps(S, state)
          PROVE  op' \in [Operation -> {"ABSENT", "PENDING"} \cup OpFinal]
      BY <2>1 DEF EndOps
    <2>2. \/ op' = op
          \/ \E S : EndOps(S, "CANCELLED")
          \/ \E o \in Operation, state \in {"PENDING"} \cup OpFinal : EndOps({o}, state)
      BY OperationChanges DEF CancelWrite, FinishWrite, CancelTo, DeliverStart, Reconcile,
         SubmitOperation, OperationEnds
    <2> QED
      BY <2>1, <2>2
  <1> QED
    BY <1>1, <1>2, <1>3

\* Its bindings and events.
LEMMA EventType ==
  ASSUME Typed, Next
  PROVE  /\ bindings' \subseteq Token /\ bindings \subseteq bindings'
         /\ DOMAIN outbox' \subseteq Event /\ DOMAIN outbox \subseteq DOMAIN outbox'
         /\ Range(outbox') \subseteq [state : {"PENDING", "DELIVERED"},
                                      owner : Publisher \cup {None}, lease : BOOLEAN]
  <1> DEFINE Row == [state : {"PENDING", "DELIVERED"}, owner : Publisher \cup {None},
                     lease : BOOLEAN]
             Good == /\ DOMAIN outbox' \subseteq Event /\ DOMAIN outbox \subseteq DOMAIN outbox'
                     /\ Range(outbox') \subseteq Row
  <1>t. /\ \A e \in DOMAIN outbox : outbox[e] \in Row
        /\ \A o \in Operation : act[o].n \in 0..MaxStarts
        /\ bindings \subseteq Token /\ DOMAIN outbox \subseteq Event
    BY DEF Range, Typed, TypeOK, WorkflowTypeOK, OutboxTypeOK
  <1>0. ASSUME NEW o \in Operation, act[o].at = "BINDING" PROVE <<o, act[o].n>> \in Token
    <2>1. act[o].n >= 1
      BY <1>0 DEF Typed
    <2>2. act[o].n \in 1..MaxStarts
      BY <1>t, <2>1, OutboxAssumption
    <2> QED
      BY <2>2 DEF Token
  <1>1. bindings' \subseteq Token /\ bindings \subseteq bindings'
    BY <1>0, <1>t, OtherChanges DEF BindWrite, At
  <1>2. ASSUME NEW E \in SUBSET Event, Announce(E) PROVE Good
    <2>1. DOMAIN outbox' = DOMAIN outbox \cup E
      BY <1>2 DEF Announce
    <2>2. NewEvent \in Row
      BY DEF NewEvent
    <2>3. \A e \in DOMAIN outbox' : outbox'[e] \in Row
      BY <1>2, <1>t, <2>2 DEF Announce
    <2> QED
      BY <1>t, <2>1, <2>3 DEF Range
  <1>3. ASSUME NEW S PROVE Completions(S) \subseteq Event
    BY <1>t DEF Completions, Event
  <1>4. ASSUME NEW r \in Root, Submit(r) \/ CancelWrite(r) \/ FinishWrite(r)
                               \/ \E p \in Publisher : DeliverStart(p, r)
        PROVE  outbox' = outbox \/ \E E \in SUBSET Event : Announce(E)
    <2>1. {<<"start_workflow", r>>} \in SUBSET Event
      BY DEF Event
    <2>2. \A S : {<<"cancel_workflow", r>>} \cup Completions(S) \in SUBSET Event
      BY <1>3 DEF Event
    <2>3. CASE Submit(r)
      BY <2>1, <2>3 DEF Submit, SubmitRun
    <2>4. CASE CancelWrite(r)
      BY <2>2, <2>4 DEF CancelWrite, CancelTo
    <2>5. CASE FinishWrite(r)
      BY <1>3, <2>2, <2>5 DEF FinishWrite, CancelTo
    <2>6. CASE \E p \in Publisher : DeliverStart(p, r)
      BY <1>3, <2>6 DEF DeliverStart
    <2> QED
      BY <1>4, <2>3, <2>4, <2>5, <2>6
  <1>5. ASSUME \/ Reconcile
               \/ \E o \in Operation : \/ BindWrite(o)
                                       \/ \E state \in OpFinal : OperationEnds(o, state)
        PROVE  \E E \in SUBSET Event : Announce(E)
    <2>1. CASE Reconcile \/ \E o \in Operation, state \in OpFinal : OperationEnds(o, state)
      BY <1>3, <2>1 DEF Reconcile, OperationEnds
    <2>2. ASSUME NEW o \in Operation, BindWrite(o) PROVE \E E \in SUBSET Event : Announce(E)
      <3>1. <<"complete_activity", <<o, act[o].n>>>> \in Event
        BY <1>0, <2>2 DEF BindWrite, At, Event
      <3> QED
        BY <2>2, <3>1 DEF BindWrite
    <2> QED
      BY <1>5, <2>1, <2>2
  <1>6. ASSUME NEW p \in Publisher, InsertBatch(p) PROVE \E E \in SUBSET Event : Announce(E)
    <2>1. pump[p].run \in Root
      <3>1. pump[p].run \in Batches
        BY <1>6 DEF InsertBatch, PumpAt, Typed
      <3> QED
        BY <3>1, BufferingAssumption DEF Batches
    <2>2. {<<"start_workflow", pump[p].run>>} \in SUBSET Event
      BY <2>1 DEF Event
    <2> QED
      BY <1>6, <2>2 DEF InsertBatch
  <1>7. ASSUME NEW p \in Publisher, Claim(p) PROVE Good
    <2>1. PICK E : outbox' = [e \in DOMAIN outbox |-> IF e \in E
                     THEN [outbox[e] EXCEPT !.owner = p, !.lease = TRUE] ELSE outbox[e]]
      BY <1>7 DEF Claim, ClaimAll
    <2>2. \A e \in DOMAIN outbox : outbox'[e] \in Row
      BY <1>t, <2>1
    <2> QED
      BY <1>t, <2>1, <2>2 DEF Range
  <1>8. ASSUME NEW e, outbox' = [outbox EXCEPT ![e].state = "DELIVERED"]
                      \/ outbox' = [outbox EXCEPT ![e].owner = None]
                      \/ outbox' = [outbox EXCEPT ![e].lease = FALSE]
        PROVE  Good
    <2>1. DOMAIN outbox' = DOMAIN outbox
      BY <1>8
    <2>2. \A f \in DOMAIN outbox : outbox'[f] \in Row
      <3>1. CASE outbox' = [outbox EXCEPT ![e].state = "DELIVERED"]
        BY <1>t, <3>1
      <3>2. CASE outbox' = [outbox EXCEPT ![e].owner = None]
        BY <1>t, <3>2
      <3>3. CASE outbox' = [outbox EXCEPT ![e].lease = FALSE]
        BY <1>t, <3>3
      <3> QED
        BY <1>8, <3>1, <3>2, <3>3
    <2> QED
      BY <1>t, <2>1, <2>2 DEF Range
  <1>9. Good
    <2>1. CASE outbox' = outbox
      BY <1>t, <2>1 DEF Range
    <2> QED
      BY <1>2, <1>4, <1>5, <1>6, <1>7, <1>8, <2>1, OutboxChanges DEF Ack, Defer, LeaseLapses
  <1> QED
    BY <1>1, <1>9

\* What publishers have at hand.
LEMMA TaskType ==
  ASSUME Typed, Next
  PROVE  /\ DOMAIN task' = Publisher
         /\ \A p \in Publisher : /\ DOMAIN task'[p] \subseteq DOMAIN outbox'
                                 /\ Range(task'[p]) \subseteq Delivery
  <1>t. /\ DOMAIN task = Publisher
        /\ \A p \in Publisher : DOMAIN task[p] \subseteq DOMAIN outbox
        /\ \A p \in Publisher : \A e \in DOMAIN task[p] : task[p][e] \in Delivery
    BY DEF Typed, TypeOK, WorkflowTypeOK, OutboxTypeOK, Range
  <1>g. DOMAIN outbox \subseteq DOMAIN outbox'
    BY EventType
  <1> DEFINE Good == /\ DOMAIN task' = Publisher
                     /\ \A p \in Publisher : /\ DOMAIN task'[p] \subseteq DOMAIN outbox'
                                             /\ Range(task'[p]) \subseteq Delivery
  <1>1. ASSUME NEW p \in Publisher, NEW new, task' = [task EXCEPT ![p] = new],
               DOMAIN new \subseteq DOMAIN outbox, \A e \in DOMAIN new : new[e] \in Delivery
        PROVE  Good
    <2>1. task'[p] = new /\ \A q \in Publisher \ {p} : task'[q] = task[q]
      BY <1>t, <1>1
    <2> QED
      BY <1>t, <1>g, <1>1, <2>1 DEF Range
  <1>2. ASSUME NEW p \in Publisher, NEW e, NEW step \in Delivery, Goes(p, e, step) PROVE Good
    <2> DEFINE new == [task[p] EXCEPT ![e] = step]
    <2>1. task' = [task EXCEPT ![p] = new]
      BY <1>2 DEF Goes
    <2>2. DOMAIN new \subseteq DOMAIN outbox /\ \A f \in DOMAIN new : new[f] \in Delivery
      BY <1>t, <1>2
    <2> HIDE DEF new, Good
    <2> QED
      BY <1>1, <2>1, <2>2
  <1>3. ASSUME NEW p \in Publisher, NEW e, Leaves(p, e) PROVE Good
    <2> DEFINE new == Restrict(task[p], DOMAIN task[p] \ {e})
    <2>1. task' = [task EXCEPT ![p] = new]
      BY <1>3 DEF Leaves
    <2>2. DOMAIN new \subseteq DOMAIN outbox /\ \A f \in DOMAIN new : new[f] \in Delivery
      BY <1>t DEF Restrict
    <2> HIDE DEF new
    <2> QED
      BY <1>1, <2>1, <2>2
  <1>4. ASSUME NEW p \in Publisher, Claim(p) PROVE Good
    <2> DEFINE new == [e \in Due |-> "DELIVER"]
    <2>1. task' = [task EXCEPT ![p] = new]
      BY <1>4 DEF Claim, ClaimAll
    <2>2. DOMAIN new \subseteq DOMAIN outbox /\ \A f \in DOMAIN new : new[f] \in Delivery
      BY DEF Due, Delivery
    <2> HIDE DEF new, Good
    <2> QED
      BY <1>1, <2>1, <2>2
  <1>5. ASSUME NEW p \in Publisher, PublisherDies(p) PROVE Good
    <2>1. task' = [task EXCEPT ![p] = Nothing] /\ DOMAIN Nothing = {}
      BY <1>5 DEF PublisherDies, Nothing
    <2> QED
      BY <1>1, <2>1
  <1>6. "ACK" \in Delivery /\ "DEFER" \in Delivery
    BY DEF Delivery
  <1>7. ASSUME task' = task PROVE Good
    BY <1>t, <1>g, <1>7 DEF Range
  <1> HIDE DEF Good
  <1>8. ASSUME NEW p \in Publisher,
               \/ \E r \in Root : DeliverStart(p, r) \/ DeliverCancel(p, r)
               \/ \E t \in bindings : DeliverCompletion(p, t)
        PROVE  Good
    <2>1. \E e : Goes(p, e, "ACK") \/ Goes(p, e, "DEFER")
      BY <1>8 DEF DeliverStart, DeliverCancel, DeliverCompletion
    <2> QED
      BY <1>2, <1>6, <2>1
  <1>9. ASSUME NEW p \in Publisher, NEW e,
               Ack(p, e) \/ Defer(p, e) \/ CallFails(p, e) \/ DeferFails(p, e)
        PROVE  Good
    <2>1. Leaves(p, e) \/ Goes(p, e, "DEFER")
      BY <1>9 DEF Ack, Defer, CallFails, DeferFails
    <2> QED
      BY <1>2, <1>3, <1>6, <2>1
  <1>10. Good
    <2> SUFFICES ASSUME task' # task PROVE Good
      BY <1>7
    <2>1. PICK p \in Publisher :
              \/ \E r \in Root : DeliverStart(p, r) \/ DeliverCancel(p, r)
              \/ \E t \in bindings : DeliverCompletion(p, t)
              \/ Claim(p) \/ PublisherDies(p)
              \/ \E e \in DOMAIN task[p] : \/ Ack(p, e) \/ Defer(p, e)
                                           \/ CallFails(p, e) \/ DeferFails(p, e)
      BY TaskChanges
    <2> QED
      BY <1>4, <1>5, <1>8, <1>9, <2>1
  <1> QED
    BY <1>10 DEF Good

\* Workflows, activities and handlers.
LEMMA TemporalType ==
  ASSUME Typed, Next
  PROVE  /\ flow' \in [Root -> {"NONE", "RUNNING"} \cup FlowClosed] /\ asked' \subseteq Root
         /\ act' \in [Operation -> [n : 0..MaxStarts, at : {"NONE", "DONE"} \cup Started,
              saw : {"ABSENT", "PENDING"} \cup OpFinal, answer : {"NONE", "ERROR"} \cup OpFinal]]
         /\ \A o \in Operation : act'[o].at \in Started => act'[o].n >= 1
  <1> DEFINE Row == [n : 0..MaxStarts, at : {"NONE", "DONE"} \cup Started,
                     saw : {"ABSENT", "PENDING"} \cup OpFinal,
                     answer : {"NONE", "ERROR"} \cup OpFinal]
             Good(row) == row \in Row /\ (row.at \in Started => row.n >= 1)
  <1>t. /\ flow \in [Root -> {"NONE", "RUNNING"} \cup FlowClosed] /\ asked \subseteq Root
        /\ act \in [Operation -> Row] /\ \A o \in Operation : Good(act[o])
        /\ op \in [Operation -> {"ABSENT", "PENDING"} \cup OpFinal] /\ bindings \subseteq Token
        /\ MaxStarts \in Nat \ {0}
    BY OutboxAssumption DEF Typed, TypeOK, WorkflowTypeOK, OutboxTypeOK
  <1>1. flow' \in [Root -> {"NONE", "RUNNING"} \cup FlowClosed]
    <2>1. ASSUME NEW r \in Root, Close(r) \/ CancelCloses(r) \/ TimeOut(r)
          PROVE  \E s \in FlowClosed : flow' = [flow EXCEPT ![r] = s]
      BY <2>1 DEF Close, CancelCloses, TimeOut, Closes
    <2>2. ASSUME NEW r \in Root, NEW p \in Publisher, DeliverStart(p, r)
          PROVE  flow' = flow \/ flow' = [flow EXCEPT ![r] = IF @ = "NONE" THEN "RUNNING" ELSE @]
      BY <2>2 DEF DeliverStart, StartWorkflow
    <2> QED
      BY <1>t, <2>1, <2>2, FlowChanges
  <1>2. asked' \subseteq Root
    <2>1. ASSUME NEW p \in Publisher, NEW r \in Root, DeliverCancel(p, r)
          PROVE  asked' \subseteq asked \cup {r}
      BY <2>1 DEF DeliverCancel
    <2> QED
      BY <1>t, <2>1, OtherChanges
  <1> DEFINE Goal == act' \in [Operation -> Row] /\ \A o \in Operation : Good(act'[o])
  <1>3. Goal
    <2>1. CASE act' = act
      BY <1>t, <2>1
    <2>0. ASSUME NEW u \in Operation, NEW row, Good(row), act' = [act EXCEPT ![u] = row]
          PROVE  Goal
      <3>1. act'[u] = row /\ \A o \in Operation \ {u} : act'[o] = act[o]
        BY <1>t, <2>0
      <3>2. DOMAIN act' = Operation
        BY <1>t, <2>0
      <3>3. \A o \in Operation : Good(act'[o])
        <4> HIDE DEF Row
        <4> QED
          BY <1>t, <2>0, <3>1
      <3>4. act' = [o \in Operation |-> act'[o]]
        BY <1>t, <2>0
      <3> HIDE DEF Row
      <3> QED
        BY <3>3, <3>4
    <2>2. ASSUME NEW u \in Operation, NEW answer \in {"ERROR"} \cup OpFinal, Answered(u, answer)
          PROVE  Goal
      <3> DEFINE row == [act[u] EXCEPT !.at = "DONE", !.answer = answer]
      <3>1. act' = [act EXCEPT ![u] = row]
        BY <1>t, <2>2 DEF Answered
      <3>2. Good(row)
        BY <1>t
      <3> HIDE DEF row, Good, Goal
      <3> QED
        BY <2>0, <3>1, <3>2
    <2>3. ASSUME NEW u \in Operation, NEW step \in Started, Step(u, step), act[u].at \in Started
          PROVE  Goal
      BY <1>t, <2>3 DEF Step
    <2>4. ASSUME NEW kept, NEW r \in Root, Refill(r, kept) PROVE Goal
      <3> DEFINE row == [NoActivity EXCEPT !.n = 1, !.at = "SUBMIT"]
      <3>0. NoActivity \in Row
        BY <1>t DEF NoActivity
      <3>3. 1 \in 0..MaxStarts
        BY <1>t
      <3>1. Good(row)
        <4>1. row \in Row
          BY <3>0, <3>3
        <4>2. row.n = 1
          BY <3>0
        <4> HIDE DEF row
        <4> QED
          BY <4>1, <4>2
      <3>2. \E S : act' = [o \in Operation |-> IF o \in S THEN row ELSE act[o]]
        BY <2>4 DEF Refill
      <3> HIDE DEF Row, row
      <3> QED
        BY <1>t, <3>1, <3>2
    <2>5. ASSUME NEW r \in Root, Begin(r) \/ Harvest(r) \/ Drain(r) PROVE Goal
      <3>1. CASE Drain(r)
        <4>1. act' = act \/ \E u \in Operation : Answered(u, "CANCELLED")
          BY <3>1 DEF Drain, Typed, TypeOK, WorkflowTypeOK
        <4> QED
          BY <2>1, <2>2, <4>1
      <3>2. CASE Begin(r) \/ Harvest(r)
        <4>1. act' = act \/ \E kept : Refill(r, kept)
          BY <3>2 DEF Begin, Harvest
        <4> HIDE DEF Goal
        <4> QED
          BY <2>1, <2>4, <4>1
      <3> QED
        BY <2>5, <3>1, <3>2
    <2>6. ASSUME NEW u \in Operation, SubmitOperation(u) \/ ReadOperation(u) PROVE Goal
      <3>1. \/ \E answer \in {"ERROR"} \cup OpFinal : Answered(u, answer)
            \/ \E step \in Started : Step(u, step) /\ act[u].at \in Started
        BY <2>6 DEF SubmitOperation, ReadOperation, At
      <3> HIDE DEF Goal
      <3> QED
        BY <2>2, <2>3, <3>1
    <2>7. ASSUME NEW u \in Operation,
                 BindRead(u) \/ BindWrite(u) \/ ActivityRetried(u) \/ WorkerDies(u)
          PROVE  Goal
      <3>1. \E row : Good(row) /\ act' = [act EXCEPT ![u] = row]
        <4>1. CASE BindRead(u)
          <5> DEFINE row == [act[u] EXCEPT !.at = "BINDING", !.saw = op[u]]
          <5>1. Good(row)
            BY <1>t, <4>1 DEF BindRead, At
          <5>2. act' = [act EXCEPT ![u] = row]
            BY <1>t, <4>1 DEF BindRead
          <5> HIDE DEF row, Good
          <5> QED
            BY <5>1, <5>2
        <4>2. CASE BindWrite(u)
          <5> DEFINE row == [act[u] EXCEPT !.at = "WAIT", !.saw = "ABSENT"]
          <5>1. Good(row)
            BY <1>t, <4>2 DEF BindWrite, At
          <5>2. act' = [act EXCEPT ![u] = row]
            BY <1>t, <4>2 DEF BindWrite
          <5> HIDE DEF row, Good
          <5> QED
            BY <5>1, <5>2
        <4>3. CASE ActivityRetried(u)
          <5> DEFINE row == [act[u] EXCEPT !.at = "SUBMIT", !.n = @ + 1]
          <5>1. act[u].n \in 0..MaxStarts /\ act[u].n < MaxStarts
            BY <1>t, <4>3 DEF ActivityRetried
          <5>2. act[u].n + 1 \in 0..MaxStarts /\ act[u].n + 1 >= 1
            BY <1>t, <5>1
          <5>3. Good(row)
            <6>1. row \in Row
              BY <1>t, <5>2
            <6>2. row.n >= 1
              BY <1>t, <5>2
            <6> QED
              BY <6>1, <6>2
          <5>4. act' = [act EXCEPT ![u] = row]
            BY <1>t, <4>3 DEF ActivityRetried
          <5> HIDE DEF row, Good
          <5> QED
            BY <5>3, <5>4
        <4>4. CASE WorkerDies(u)
          <5> DEFINE row == [act[u] EXCEPT !.at = "LOST", !.saw = "ABSENT"]
          <5>1. Good(row)
            BY <1>t, <4>4 DEF WorkerDies
          <5>2. act' = [act EXCEPT ![u] = row]
            BY <1>t, <4>4 DEF WorkerDies
          <5> HIDE DEF row, Good
          <5> QED
            BY <5>1, <5>2
        <4> QED
          BY <2>7, <4>1, <4>2, <4>3, <4>4
      <3> HIDE DEF Good, Goal
      <3> QED
        BY <2>0, <3>1
    <2>8. ASSUME NEW p \in Publisher, NEW t \in bindings, DeliverCompletion(p, t)
          PROVE  Goal
      <3>1. t[1] \in Operation
        <4>1. t \in Operation \X (1..MaxStarts)
          BY <1>t DEF Token
        <4> QED
          BY <4>1
      <3>2. act' = act \/ (op[t[1]] \in OpFinal /\ Answered(t[1], op[t[1]]))
        <4>1. CASE op[t[1]] \in OpFinal
          BY <2>8, <4>1 DEF DeliverCompletion
        <4>2. CASE op[t[1]] \notin OpFinal
          BY <2>8, <4>2 DEF DeliverCompletion
        <4> QED
          BY <4>1, <4>2
      <3> HIDE DEF Goal
      <3> QED
        BY <2>1, <2>2, <3>1, <3>2
    <2> HIDE DEF Goal
    <2> QED
      BY <2>1, <2>5, <2>6, <2>7, <2>8, ActivityChanges
  <1> QED
    BY <1>1, <1>2, <1>3

\* The handlers, their cursors and windows, and finish_run.
LEMMA HandlerType ==
  ASSUME Typed, Next
  PROVE  /\ handler' \in [Root -> [at : {"NONE", "MAP", "DRAIN", "FINISH"}, cursor : Nat,
                                   pending : SUBSET Operation, exit : Exit]]
         /\ \A r \in Root : /\ handler'[r].cursor <= Len(Items[r])
                            /\ Cardinality(handler'[r].pending) <= Window[r]
         /\ fin' \in [Root -> [at : {"NONE", "READ", "WRITE", "CONFIRM", "OK", "REFUSED"},
                               state : RootFinal]]
  <1> DEFINE Row == [at : {"NONE", "MAP", "DRAIN", "FINISH"}, cursor : Nat,
                     pending : SUBSET Operation, exit : Exit]
             Good(r, row) == /\ row \in Row /\ row.cursor <= Len(Items[r])
                             /\ Cardinality(row.pending) <= Window[r]
             Goal == handler' \in [Root -> Row] /\ \A r \in Root : Good(r, handler'[r])
             Finishing == [at : {"NONE", "READ", "WRITE", "CONFIRM", "OK", "REFUSED"},
                           state : RootFinal]
  <1>t. /\ handler \in [Root -> Row] /\ \A r \in Root : Good(r, handler[r])
        /\ fin \in [Root -> Finishing] /\ \A r \in Root : Window[r] \in Nat
    BY WorkflowAssumption DEF Typed, TypeOK, WorkflowTypeOK
  <1>1. Goal
    <2>1. ASSUME handler' = handler PROVE Goal
      BY <1>t, <2>1
    <2>2. ASSUME NEW u \in Root, NEW row, Good(u, row), handler' = [handler EXCEPT ![u] = row]
          PROVE  Goal
      <3>1. handler'[u] = row /\ \A r \in Root \ {u} : handler'[r] = handler[r]
        BY <1>t, <2>2
      <3>2. DOMAIN handler' = Root
        BY <1>t, <2>2
      <3>3. handler' = [r \in Root |-> handler'[r]]
        BY <1>t, <2>2
      <3> HIDE DEF Row
      <3> QED
        BY <1>t, <2>2, <3>1, <3>3
    <2>3. ASSUME NEW u \in Root, NEW kept \in SUBSET Operation, Cardinality(kept) <= Window[u],
                 Refill(u, kept)
          PROVE  Goal
      <3>1. PICK upto \in Nat, started \in SUBSET OpsOf(u) :
              /\ upto <= Len(Items[u]) /\ Cardinality(kept \cup started) <= Window[u]
              /\ handler' = [handler EXCEPT ![u].at = "MAP", ![u].cursor = upto,
                                            ![u].pending = kept \cup started]
        <4>1. WorkflowTypeOK /\ handler[u].cursor <= Len(Items[u])
          BY <1>t DEF Typed, TypeOK
        <4> HIDE DEF Row
        <4>2. \E upto \in Nat, started \in SUBSET OpsOf(u) :
                /\ handler[u].cursor <= upto /\ upto <= Len(Items[u])
                /\ started = {Items[u][i] : i \in handler[u].cursor + 1..upto}
                /\ Cardinality(kept \cup started) <= Window[u]
                /\ handler' = [handler EXCEPT ![u].at = "MAP", ![u].cursor = upto,
                                              ![u].pending = kept \cup started]
                /\ act' = [o \in Operation |-> IF o \in started
                             THEN [NoActivity EXCEPT !.n = 1, !.at = "SUBMIT"] ELSE act[o]]
          BY <2>3, <4>1, RefillFits
        <4> QED
          BY <4>2
      <3> DEFINE row == [handler[u] EXCEPT !.at = "MAP", !.cursor = upto,
                                           !.pending = kept \cup started]
      <3>2. kept \cup started \in SUBSET Operation
        BY DEF OpsOf
      <3>3. handler' = [handler EXCEPT ![u] = row]
        BY <1>t, <3>1
      <3>4. row \in Row /\ row.cursor = upto /\ row.pending = kept \cup started
        BY <1>t, <3>2
      <3>5. Good(u, row)
        <4> HIDE DEF row, Row
        <4> QED
          BY <3>1, <3>4
      <3> HIDE DEF row, Good, Goal
      <3> QED
        BY <2>2, <3>3, <3>5
    <2>4. ASSUME NEW u \in Root, NEW S \in SUBSET handler[u].pending
          PROVE  /\ S \in SUBSET Operation /\ Cardinality(S) <= Window[u]
      <3>1. handler[u].pending \in SUBSET Operation /\ Cardinality(handler[u].pending) <= Window[u]
        BY <1>t
      <3>2. IsFiniteSet(handler[u].pending)
        BY <3>1, OutboxAssumption, FS_Subset
      <3>3. /\ Cardinality(S) \in Nat /\ Cardinality(handler[u].pending) \in Nat
            /\ Cardinality(S) <= Cardinality(handler[u].pending)
        BY <3>2, FS_Subset, FS_CardinalityType
      <3> QED
        BY <1>t, <3>1, <3>3
    <2>5. ASSUME NEW u \in Root, NEW at \in {"DRAIN", "FINISH"}, NEW exit \in Exit,
                 NEW S \in SUBSET handler[u].pending,
                 handler' = [handler EXCEPT ![u].at = at, ![u].exit = exit, ![u].pending = S]
          PROVE  Goal
      <3> DEFINE row == [handler[u] EXCEPT !.at = at, !.exit = exit, !.pending = S]
      <3>1. handler' = [handler EXCEPT ![u] = row]
        BY <1>t, <2>5
      <3>2. S \in SUBSET Operation /\ Cardinality(S) <= Window[u]
        BY <2>4
      <3>3. row \in Row /\ row.cursor = handler[u].cursor /\ row.pending = S
        BY <1>t, <3>2
      <3>4. Good(u, row)
        <4> HIDE DEF row, Row
        <4> QED
          BY <1>t, <3>2, <3>3
      <3> HIDE DEF row, Good, Goal
      <3> QED
        BY <2>2, <3>1, <3>4
    <2>6. ASSUME NEW u \in Root, Begin(u) PROVE Goal
      <3>1. {} \in SUBSET handler[u].pending
        OBVIOUS
      <3> QED
        BY <2>3, <2>4, <2>6, <3>1 DEF Begin
    <2>7. ASSUME NEW u \in Root, Harvest(u) PROVE Goal
      <3> DEFINE kept == handler[u].pending \ Done(handler[u].pending)
                 S == handler[u].pending
      <3>1. kept \in SUBSET handler[u].pending
        OBVIOUS
      <3>2. \/ Refill(u, kept)
            \/ \E exit \in Exit : handler' = [handler EXCEPT ![u].at = "DRAIN", ![u].exit = exit]
        BY <2>7 DEF Harvest, Exit
      <3>3. ASSUME NEW exit, handler' = [handler EXCEPT ![u].at = "DRAIN", ![u].exit = exit]
            PROVE  handler' = [handler EXCEPT ![u].at = "DRAIN", ![u].exit = exit, ![u].pending = S]
        BY <1>t, <3>3
      <3> HIDE DEF kept, Goal
      <3> QED
        BY <2>3, <2>4, <2>5, <3>1, <3>2, <3>3
    <2>8. ASSUME NEW u \in Root, Drain(u) PROVE Goal
      <3>1. PICK o \in handler[u].pending : handler' = [handler EXCEPT ![u].pending = @ \ {o}]
        BY <2>8 DEF Drain
      <3> DEFINE S == handler[u].pending \ {o}
      <3>3. handler[u].exit \in Exit /\ S \in SUBSET handler[u].pending
        BY <1>t
      <3>4. handler' = [handler EXCEPT ![u].pending = S]
        BY <1>t, <3>1
      <3>5. handler[u].at = "DRAIN"
        BY <2>8 DEF Drain
      <3> HIDE DEF S, Goal
      <3>2. handler' = [handler EXCEPT ![u].at = "DRAIN", ![u].exit = handler[u].exit,
                                       ![u].pending = S]
        BY <1>t, <3>4, <3>5
      <3> QED
        BY <2>5, <3>2, <3>3
    <2>9. ASSUME NEW u \in Root, Return(u) \/ CancelHandler(u) PROVE Goal
      <3> DEFINE S == handler[u].pending
      <3>1. \E at \in {"DRAIN", "FINISH"}, exit \in Exit :
              handler' = [handler EXCEPT ![u].at = at, ![u].exit = exit, ![u].pending = S]
        <4>1. CASE Return(u)
          <5>1. handler' = [handler EXCEPT ![u].at = "FINISH", ![u].exit = handler[u].exit,
                                           ![u].pending = S]
            BY <1>t, <4>1 DEF Return
          <5>2. handler[u].exit \in Exit
            BY <1>t
          <5> QED
            BY <5>1, <5>2
        <4>2. CASE CancelHandler(u)
          <5>1. handler' = [handler EXCEPT ![u].at = "DRAIN", ![u].exit = "CANCELLED",
                                           ![u].pending = S]
            BY <1>t, <4>2 DEF CancelHandler
          <5> QED
            BY <5>1 DEF Exit
        <4> QED
          BY <2>9, <4>1, <4>2
      <3>2. S \in SUBSET handler[u].pending
        OBVIOUS
      <3> HIDE DEF S, Goal
      <3> QED
        BY <2>5, <3>1, <3>2
    <2> HIDE DEF Goal
    <2> QED
      BY <2>1, <2>6, <2>7, <2>8, <2>9, HandlerChanges
  <1>2. fin' \in [Root -> Finishing]
    <2>1. ASSUME NEW u \in Root,
                 Return(u) \/ FinishRead(u) \/ FinishWrite(u) \/ FinishConfirm(u) \/ FinishRetried(u)
          PROVE  \/ \E state \in RootFinal : fin' = [fin EXCEPT ![u] = [at |-> "READ", state |-> state]]
                 \/ \E at \in {"READ", "WRITE", "CONFIRM", "OK", "REFUSED"} :
                      fin' = [fin EXCEPT ![u].at = at]
      <3>1. CASE Return(u)
        BY <3>1 DEF Return
      <3>2. CASE FinishRead(u)
        BY <3>2 DEF FinishRead, Finishes
      <3>3. CASE FinishWrite(u) \/ FinishConfirm(u) \/ FinishRetried(u)
        BY <3>3 DEF FinishWrite, FinishConfirm, FinishRetried, Finishes
      <3> QED
        BY <2>1, <3>1, <3>2, <3>3
    <2>2. ASSUME NEW u \in Root, NEW state \in RootFinal,
                 fin' = [fin EXCEPT ![u] = [at |-> "READ", state |-> state]]
          PROVE  fin' \in [Root -> Finishing]
      BY <1>t, <2>2
    <2>3. ASSUME NEW u \in Root, NEW at \in {"READ", "WRITE", "CONFIRM", "OK", "REFUSED"},
                 fin' = [fin EXCEPT ![u].at = at]
          PROVE  fin' \in [Root -> Finishing]
      BY <1>t, <2>3
    <2> HIDE DEF Finishing
    <2> QED
      BY <1>t, <2>1, <2>2, <2>3, HandlerChanges
  <1> QED
    BY <1>1, <1>2

\* Buffered inputs, their batches and the pumps.
LEMMA BufferType ==
  ASSUME Typed, Next
  PROVE  /\ queue' \in Seq(Item) /\ IsInjective(queue') /\ due' \subseteq ToSet(queue')
         /\ batchOf' \in [Item -> Batches \cup {None}]
         /\ batch' \in [Batches -> {"ABSENT", "PREPARING", "SUBMITTED", "FAILED"}]
         /\ pump' \in [Publisher -> [todo : SUBSET Batches, run : Batches \cup {None},
                                     at : {"IDLE", "SUBMIT", "INSERT", "MARK", "DEFER"}]]
         /\ \A p \in Publisher : pump'[p].at # "IDLE" => pump'[p].run \in Batches
  <1> DEFINE State == {"ABSENT", "PREPARING", "SUBMITTED", "FAILED"}
             Row == [todo : SUBSET Batches, run : Batches \cup {None},
                     at : {"IDLE", "SUBMIT", "INSERT", "MARK", "DEFER"}]
             Good(row) == row \in Row /\ (row.at # "IDLE" => row.run \in Batches)
             Goal == pump' \in [Publisher -> Row] /\ \A p \in Publisher : Good(pump'[p])
  <1>t. /\ queue \in Seq(Item) /\ IsInjective(queue) /\ due \subseteq ToSet(queue)
        /\ batchOf \in [Item -> Batches \cup {None}] /\ batch \in [Batches -> State]
        /\ pump \in [Publisher -> Row] /\ \A p \in Publisher : Good(pump[p])
    BY DEF Typed, TypeOK
  <1>1. /\ queue' \in Seq(Item) /\ IsInjective(queue') /\ due' \subseteq ToSet(queue')
    <2>1. CASE UNCHANGED <<queue, due>>
      BY <1>t, <2>1 DEF ToSet, IsInjective
    <2>2. ASSUME NEW i \in Item, Accept(i)
          PROVE  queue' \in Seq(Item) /\ IsInjective(queue') /\ due' \subseteq ToSet(queue')
      <3>1. queue' = Append(queue, i) /\ due' = due /\ i \notin ToSet(queue)
        BY <2>2 DEF Accept
      <3>2. /\ queue' \in Seq(Item) /\ Len(queue') = Len(queue) + 1
            /\ \A n \in 1..Len(queue) : queue'[n] = queue[n]
            /\ queue'[Len(queue) + 1] = i
        BY <1>t, <3>1
      <3>3. DOMAIN queue = 1..Len(queue) /\ DOMAIN queue' = 1..Len(queue) + 1 /\ Len(queue) \in Nat
        BY <1>t, <3>2
      <3>4. IsInjective(queue')
        BY <1>t, <3>1, <3>2, <3>3 DEF IsInjective, ToSet
      <3>5. due' \subseteq ToSet(queue')
        BY <1>t, <3>1, <3>2, <3>3 DEF ToSet
      <3> QED
        BY <3>2, <3>4, <3>5
    <2>3. ASSUME NEW i \in Item, FallsDue(i)
          PROVE  queue' \in Seq(Item) /\ IsInjective(queue') /\ due' \subseteq ToSet(queue')
      BY <1>t, <2>3 DEF FallsDue
    <2>4. UNCHANGED <<queue, due>> \/ \E i \in Item : Accept(i) \/ FallsDue(i)
      BY BufferChanges DEF BufferStep, Seal, SealWith, Dispatch, SubmitBatch, InsertBatch,
         MarkBatch, DeferBatch, DispatchFails, PumpStops, byPump, bufferVars
    <2> QED
      BY <2>1, <2>2, <2>3, <2>4
  <1>2. batchOf' \in [Item -> Batches \cup {None}]
    <2>1. ASSUME NEW p \in Publisher, Seal(p) PROVE batchOf' \in [Item -> Batches \cup {None}]
      <3>1. PICK new \in SUBSET Firsts :
              batchOf' = [j \in Item |-> IF \E i \in new : j \in Selected(i)
                            THEN BatchOf[CHOOSE i \in new : j \in Selected(i)] ELSE batchOf[j]]
        BY <2>1 DEF Seal, SealWith
      <3>2. \A i \in new : i \in Item
        BY <1>t DEF Firsts, ToSet
      <3>3. \A j \in Item : (\E i \in new : j \in Selected(i)) =>
              BatchOf[CHOOSE i \in new : j \in Selected(i)] \in Batches
        BY <3>2 DEF Batches
      <3> QED
        BY <1>t, <3>1, <3>3
    <2>2. batchOf' = batchOf \/ \E p \in Publisher : Seal(p)
      BY BufferChanges DEF BufferStep, Accept, FallsDue, Dispatch, SubmitBatch, InsertBatch,
         MarkBatch, DeferBatch, DispatchFails, PumpStops, byPump, bufferVars
    <2> QED
      BY <1>t, <2>1, <2>2
  <1>3. batch' \in [Batches -> State]
    <2>1. \/ batch' = batch
          \/ \E p \in Publisher : Seal(p) \/ MarkBatch(p) \/ DeferBatch(p)
      BY BufferChanges DEF BufferStep, Accept, FallsDue, Dispatch, SubmitBatch, InsertBatch,
         DispatchFails, PumpStops, byPump, bufferVars
    <2>2. ASSUME NEW p \in Publisher, Seal(p) PROVE batch' \in [Batches -> State]
      BY <1>t, <2>2 DEF Seal, SealWith
    <2>3. ASSUME NEW p \in Publisher, MarkBatch(p) \/ DeferBatch(p)
          PROVE  batch' \in [Batches -> State]
      BY <1>t, <2>3 DEF MarkBatch, DeferBatch
    <2> QED
      BY <1>t, <2>1, <2>2, <2>3
  <1>4. Goal
    <2>1. ASSUME NEW q \in Publisher, NEW row, Good(row), pump' = [pump EXCEPT ![q] = row]
          PROVE  Goal
      <3>1. pump'[q] = row /\ \A p \in Publisher \ {q} : pump'[p] = pump[p]
        BY <1>t, <2>1
      <3>2. pump' = [p \in Publisher |-> pump'[p]]
        BY <1>t, <2>1
      <3> HIDE DEF Row
      <3> QED
        BY <1>t, <2>1, <3>1, <3>2
    <2>2. Good(Resting)
      BY DEF Resting
    <2>3. ASSUME NEW b \in Batches, NEW S \in SUBSET Batches
          PROVE  Good([at |-> "SUBMIT", run |-> b, todo |-> S])
      OBVIOUS
    <2>4. ASSUME NEW q \in Publisher, NEW at \in {"SUBMIT", "INSERT", "MARK", "DEFER"},
                 pump[q].at # "IDLE", PumpTo(q, at)
          PROVE  Goal
      <3> DEFINE row == [pump[q] EXCEPT !.at = at]
      <3>1. pump' = [pump EXCEPT ![q] = row]
        BY <1>t, <2>4 DEF PumpTo
      <3>2. Good(row)
        BY <1>t, <2>4
      <3> HIDE DEF row, Good, Goal
      <3> QED
        BY <2>1, <3>1, <3>2
    <2>5. ASSUME NEW q \in Publisher, NextBatch(q) PROVE Goal
      <3>1. PICK b \in pump[q].todo \cup {None} :
              pump' = [pump EXCEPT ![q] = IF b = None THEN Resting
                         ELSE [at |-> "SUBMIT", run |-> b, todo |-> @.todo \ {b}]]
        BY <2>5 DEF NextBatch
      <3> DEFINE row == IF b = None THEN Resting
                        ELSE [at |-> "SUBMIT", run |-> b, todo |-> pump[q].todo \ {b}]
      <3>2. pump' = [pump EXCEPT ![q] = row]
        BY <1>t, <3>1
      <3>3. pump[q].todo \in SUBSET Batches
        BY <1>t
      <3>4. Good(row)
        <4> HIDE DEF Good
        <4> QED
          BY <2>2, <2>3, <3>3
      <3> HIDE DEF row, Good, Goal
      <3> QED
        BY <2>1, <3>2, <3>4
    <2>6. ASSUME NEW q \in Publisher, Seal(q) PROVE Goal
      <3>1. PICK again \in SUBSET {b \in Batches : batch[b] = "PREPARING"}, new \in SUBSET Firsts :
              \E b \in again \cup {BatchOf[i] : i \in new} :
                pump' = [pump EXCEPT ![q] = [at |-> "SUBMIT", run |-> b,
                           todo |-> (again \cup {BatchOf[i] : i \in new}) \ {b}]]
        BY <2>6 DEF Seal, SealWith
      <3> DEFINE S == again \cup {BatchOf[i] : i \in new}
      <3>2. S \in SUBSET Batches
        BY <1>t DEF Firsts, ToSet, Batches
      <3>3. PICK b \in S : pump' = [pump EXCEPT ![q] = [at |-> "SUBMIT", run |-> b, todo |-> S \ {b}]]
        BY <3>1
      <3>4. b \in Batches /\ S \ {b} \in SUBSET Batches
        BY <3>2
      <3> HIDE DEF S, Good, Goal
      <3> QED
        BY <2>1, <2>3, <3>3, <3>4
    <2>7. ASSUME NEW q \in Publisher,
                 Dispatch(q) \/ DispatchFails(q) \/ PumpStops(q)
          PROVE  Goal
      <3>1. CASE MarkBatch(q) \/ DeferBatch(q)
        BY <2>5, <3>1 DEF MarkBatch, DeferBatch
      <3>2. CASE PumpStops(q)
        <4> HIDE DEF Good, Goal
        <4> QED
          BY <2>1, <2>2, <3>2 DEF PumpStops
      <3>3. CASE SubmitBatch(q) \/ InsertBatch(q) \/ DispatchFails(q)
        <4>1. /\ pump[q].at # "IDLE"
              /\ PumpTo(q, "INSERT") \/ PumpTo(q, "MARK") \/ PumpTo(q, "DEFER")
          BY <3>3 DEF SubmitBatch, InsertBatch, DispatchFails, PumpAt
        <4> HIDE DEF Goal
        <4> QED
          BY <2>4, <4>1
      <3> QED
        BY <2>7, <3>1, <3>2, <3>3 DEF Dispatch
    <2>8. CASE pump' = pump
      BY <1>t, <2>8
    <2>9. pump' = pump \/ BufferStep
      BY BufferChanges DEF bufferVars
    <2>10. CASE BufferStep
      <3> HIDE DEF Goal
      <3>1. CASE \E i \in Item : Accept(i) \/ FallsDue(i)
        BY <2>8, <3>1 DEF Accept, FallsDue
      <3>2. CASE \E p \in Publisher : Seal(p) \/ Dispatch(p) \/ DispatchFails(p) \/ PumpStops(p)
        BY <2>6, <2>7, <3>2
      <3> QED
        BY <2>10, <3>1, <3>2 DEF BufferStep
    <2> QED
      BY <2>8, <2>9, <2>10
  <1> QED
    BY <1>1, <1>2, <1>3, <1>4

LEMMA TypedStep == Typed /\ Next => Typed'
  BY LedgerType, EventType, TaskType, TemporalType, HandlerType, BufferType
     DEF Typed, TypeOK, WorkflowTypeOK, OutboxTypeOK

LEMMA TypedInit == Init => Typed
  <1> SUFFICES ASSUME Init PROVE Typed
    OBVIOUS
  <1>1. OutboxTypeOK
    <2> USE DEF Init, WorkflowInit, OutboxInit
    <2>1. /\ DOMAIN outbox = {} /\ DOMAIN Nothing = {}
          /\ Range(outbox) = {} /\ Range(Nothing) = {}
      BY DEF Nothing, Range
    <2>2. 0 \in 0..MaxStarts
      BY OutboxAssumption
    <2>3. act \in [Operation -> [n : 0..MaxStarts, at : {"NONE", "DONE"} \cup Started,
            saw : {"ABSENT", "PENDING"} \cup OpFinal, answer : {"NONE", "ERROR"} \cup OpFinal]]
      BY <2>2 DEF NoActivity
    <2>4. \A p \in Publisher : task[p] = Nothing
      OBVIOUS
    <2>5. DOMAIN task = Publisher
      OBVIOUS
    <2>6. /\ replicas \subseteq Publisher /\ replicas # {}
          /\ root \in [Root -> {"ABSENT", "RUNNING"} \cup RootFinal] /\ late = {}
          /\ op \in [Operation -> {"ABSENT", "PENDING"} \cup OpFinal] /\ bindings = {}
          /\ cancelling = {} /\ overwritten = {} /\ asked = {} /\ faults \in 0..MaxFaults
          /\ flow \in [Root -> {"NONE", "RUNNING"} \cup FlowClosed]
      <3>1. replicas \subseteq Publisher /\ replicas # {}
        <4>1. replicas \in (SUBSET Publisher) \ {{}}
          OBVIOUS
        <4> QED
          BY ONLY <4>1
      <3>2. /\ root \in [Root -> {"ABSENT", "RUNNING"} \cup RootFinal]
            /\ op \in [Operation -> {"ABSENT", "PENDING"} \cup OpFinal]
        OBVIOUS
      <3>3. flow \in [Root -> {"NONE", "RUNNING"} \cup FlowClosed]
        OBVIOUS
      <3> QED
        BY <3>1, <3>2, <3>3
    <2> QED
      BY <2>1, <2>3, <2>4, <2>5, <2>6 DEF OutboxTypeOK
  <1>2. WorkflowTypeOK
    BY <1>1 DEF Init, WorkflowInit, WorkflowTypeOK, NoHandler, NoFinish, Exit
  <1>3. TypeOK
    BY <1>2 DEF Init, TypeOK, ToSet, IsInjective, Resting
  <1>4. \A r \in Root : 0 <= Len(Items[r]) /\ Cardinality({}) <= Window[r]
    BY WorkflowAssumption, FS_EmptySet
  <1> QED
    BY <1>3, <1>4 DEF Init, WorkflowInit, OutboxInit, Typed, NoHandler, NoActivity, Resting

LEMMA TypedStutters == Typed /\ UNCHANGED vars => Typed'
  BY DEF Typed, TypeOK, WorkflowTypeOK, OutboxTypeOK, vars, workflowVars, outboxVars,
     bufferVars, ledger, temporal, ToSet, IsInjective, Range

\* The components keep their types.
THEOREM DeliveryTypeCorrect == Spec => []TypeOK
  <1>1. Typed => TypeOK
    BY DEF Typed
  <1> QED
    BY <1>1, TypedInit, TypedStep, TypedStutters, PTL DEF Spec

=============================================================================
