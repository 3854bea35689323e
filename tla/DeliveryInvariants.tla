-------------------------- MODULE DeliveryInvariants --------------------------
(***************************************************************************)
(* What the delivery between the ledger and Temporal guarantees, for every *)
(* value of the constants.  Each invariant of the runs follows from one    *)
(* inductive invariant, DeliveryInv, whose parts say how the rows of the   *)
(* ledger, the outbox, the workflows and the batches follow each other.    *)
(***************************************************************************)
EXTENDS DeliveryProofs

USE DEF RootFinal, OpFinal, FlowClosed, Started

-----------------------------------------------------------------------------
(* The inductive invariant.                                                *)

\* What exists of a run at Temporal or in the outbox exists in the ledger; a run
\* that is being inserted does not, and one process inserts at a time.
Submitted ==
  /\ \A r \in Root :
       \/ r \in cancelling \/ fin[r].at # "NONE" \/ flow[r] # "NONE"
       \/ <<"start_workflow", r>> \in DOMAIN outbox
       => root[r] # "ABSENT"
  /\ \A p \in Publisher : pump[p].at = "INSERT" =>
       /\ root[pump[p].run] = "ABSENT"
       /\ \A q \in Publisher : pump[q].at = "INSERT" => q = p

\* The children of a run are started in the order of its items, after the workflow;
\* while it maps them, those that are not in flight have come to their ends.
Mapped(r) ==
  /\ flow[r] = "NONE" => handler[r].at = "NONE"
  /\ handler[r].at = "NONE" => handler[r].cursor = 0
  /\ \A n \in DOMAIN Items[r] : n > handler[r].cursor => act[Items[r][n]].at = "NONE"
  /\ \A o \in handler[r].pending : RootOf[o] = r /\ act[o].at # "NONE"
  /\ handler[r].at = "MAP" =>
       \A o \in OpsOf(r) : op[o] = "PENDING" \/ act[o].at \in Started => o \in handler[r].pending

\* An operation follows its activity, a binding one of its attempts, and its answer
\* what the ledger decided.
Heard(o) ==
  /\ act[o].at = "NONE" => act[o] = NoActivity /\ op[o] = "ABSENT"
  /\ act[o].answer # "NONE" => act[o].at = "DONE"
  /\ \A t \in bindings : t[1] = o => t[2] <= act[o].n
  /\ act[o].answer \in {"SUCCEEDED", "FAILED"} => act[o].answer = op[o]

Followed == (\A r \in Root : Mapped(r)) /\ \A o \in Operation : Heard(o)

\* An event that was answered, even if that was not yet recorded, has had its effect.
Handled(e) ==
  /\ e[1] = "start_workflow" => flow[e[2]] # "NONE" \/ root[e[2]] \in RootFinal
  /\ e[1] = "cancel_workflow" => e[2] \in asked
  /\ e[1] = "complete_activity" => ~Waits(e[2])

Delivered ==
  /\ \A e \in DOMAIN outbox : e[1] = "complete_activity" => e[2] \in bindings
  /\ \A e \in DOMAIN outbox :
       outbox[e].state = "DELIVERED" \/ (\E p \in Publisher : On(p, e, "ACK")) => Handled(e)

\* A success that finish_run has confirmed is the run's, or was overwritten.
Confirmed(r) ==
  /\ fin[r].at = "OK" /\ fin[r].state \in {"SUCCEEDED", "PARTIAL"} =>
       root[r] = fin[r].state \/ r \in overwritten
  /\ flow[r] = "COMPLETED" => fin[r].at = "OK" /\ fin[r].state \in {"SUCCEEDED", "PARTIAL"}

\* A batch that failed was late before its run began.
Failed(b) == batch[b] = "FAILED" => b \in late /\ root[b] \notin {"SUCCEEDED", "PARTIAL"}

DeliveryInv ==
  /\ Typed /\ Submitted /\ Followed /\ Delivered
  /\ \A r \in Root : Confirmed(r)
  /\ \A b \in Batches : Failed(b)

-----------------------------------------------------------------------------
(* Steps of runs and operations.                                           *)

\* A run begins, it ends, or one end overwrites another, which is recorded; a late
\* run does not succeed.
RootStep(r) ==
  \/ root'[r] = root[r]
  \/ root[r] = "ABSENT" /\ root'[r] = "RUNNING"
  \/ /\ root[r] # "ABSENT" /\ root'[r] \in RootFinal
     /\ root[r] \in RootFinal => r \in overwritten'
     /\ r \in late => root'[r] \notin {"SUCCEEDED", "PARTIAL"}

\* An operation is inserted by its activity, and ends once.
OpStep(o) ==
  \/ op'[o] = op[o]
  \/ op[o] = "ABSENT" /\ op'[o] = "PENDING" /\ act[o].at = "SUBMIT"
  \/ op[o] = "PENDING" /\ op'[o] \in OpFinal

LEMMA RootMoves ==
  ASSUME Typed, Submitted, Next
  PROVE  \A r \in Root : RootStep(r)
  <1>t. root \in [Root -> {"ABSENT", "RUNNING"} \cup RootFinal] /\ fin \in [Root -> [at :
          {"NONE", "READ", "WRITE", "CONFIRM", "OK", "REFUSED"}, state : RootFinal]]
    BY DEF Typed, TypeOK, WorkflowTypeOK, OutboxTypeOK
  <1>1. ASSUME NEW u \in Root, NEW s, root' = [root EXCEPT ![u] = s], 
               \/ s = root[u]
               \/ root[u] = "ABSENT" /\ s = "RUNNING"
               \/ /\ root[u] # "ABSENT" /\ s \in RootFinal
                  /\ root[u] \in RootFinal => u \in overwritten'
                  /\ u \in late => s \notin {"SUCCEEDED", "PARTIAL"}
        PROVE  \A r \in Root : RootStep(r)
    BY <1>t, <1>1 DEF RootStep
  <1>2. CASE UNCHANGED <<root, overwritten>>
    BY <1>2 DEF RootStep
  <1>3. ASSUME NEW u \in Root, Submit(u) PROVE \A r \in Root : RootStep(r)
    BY <1>1, <1>3 DEF Submit, SubmitRun, CanSubmit
  <1>4. ASSUME NEW u \in Root, CancelWrite(u) PROVE \A r \in Root : RootStep(r)
    <2>1. root' = [root EXCEPT ![u] = "CANCELLED"] /\ root[u] # "ABSENT"
      BY <1>4 DEF CancelWrite, CancelTo, EndRoot, Submitted
    <2>2. root[u] \in RootFinal => root[u] = "CANCELLED" \/ u \in overwritten'
      BY <1>4 DEF CancelWrite
    <2> QED
      BY <1>1, <2>1, <2>2
  <1>5. ASSUME NEW u \in Root, FinishWrite(u) PROVE \A r \in Root : RootStep(r)
    <2>1. root[u] # "ABSENT"
      BY <1>5 DEF FinishWrite, Submitted
    <2>2. PICK s \in RootFinal : root' = [root EXCEPT ![u] = s]
                                 /\ (u \in late => s \notin {"SUCCEEDED", "PARTIAL"})
      BY <1>t, <1>5 DEF FinishWrite, CancelTo, EndRoot
    <2>3. root'[u] = s
      BY <1>t, <2>2
    <2>4. root[u] \in RootFinal => s = root[u] \/ u \in overwritten'
      BY <1>5, <2>3 DEF FinishWrite
    <2> QED
      BY <1>1, <2>1, <2>2, <2>4
  <1>6. ASSUME NEW u \in Root, NEW p \in Publisher, DeliverStart(p, u)
        PROVE  \A r \in Root : RootStep(r)
    <2>1. CASE u \in late
      <3>1. root' = [root EXCEPT ![u] = IF root[u] = "RUNNING" THEN "FAILED" ELSE root[u]]
        BY <1>6, <2>1 DEF DeliverStart, EndRoot
      <3> QED
        BY <1>t, <1>1, <3>1
    <2>2. CASE u \notin late
      BY <1>6, <2>2 DEF DeliverStart, RootStep
    <2> QED
      BY <2>1, <2>2
  <1>7. CASE Reconcile
    BY <1>t, <1>7 DEF Reconcile, Running, RootStep
  <1>8. ASSUME NEW p \in Publisher, InsertBatch(p) PROVE \A r \in Root : RootStep(r)
    <2>1. pump[p].run \in Root
      <3>1. pump[p].run \in Batches
        BY <1>8 DEF InsertBatch, PumpAt, Typed
      <3> QED
        BY <3>1, BufferingAssumption DEF Batches
    <2>2. root' = [root EXCEPT ![pump[p].run] = "RUNNING"] /\ root[pump[p].run] = "ABSENT"
      BY <1>8 DEF InsertBatch, PumpAt, EndRoot, Submitted
    <2> QED
      BY <1>1, <2>1, <2>2
  <1> QED
    BY <1>2, <1>3, <1>4, <1>5, <1>6, <1>7, <1>8, RootChanges

LEMMA OpMoves ==
  ASSUME Typed, Next
  PROVE  \A o \in Operation : OpStep(o)
  <1>t. op \in [Operation -> {"ABSENT", "PENDING"} \cup OpFinal]
    BY DEF Typed, TypeOK, WorkflowTypeOK, OutboxTypeOK
  <1>1. ASSUME NEW S, NEW state \in OpFinal, EndOps(S, state), \A o \in S : op[o] = "PENDING"
        PROVE  \A o \in Operation : OpStep(o)
    BY <1>t, <1>1 DEF EndOps, OpStep
  <1>2. CASE op' = op
    BY <1>2 DEF OpStep
  <1>3. CASE \/ \E r \in Root : \/ CancelWrite(r) \/ FinishWrite(r)
                                \/ \E p \in Publisher : DeliverStart(p, r)
             \/ Reconcile
    <2>1. op' = op \/ \E S : EndOps(S, "CANCELLED") /\ \A o \in S : op[o] = "PENDING"
      <3> DEFINE Ends == \E S : EndOps(S, "CANCELLED") /\ \A o \in S : op[o] = "PENDING"
      <3>1. ASSUME NEW T, EndOps(Pending(T), "CANCELLED") PROVE Ends
        BY <3>1 DEF Pending
      <3>2. ASSUME EndOps({}, "CANCELLED") PROVE Ends
        BY <3>2
      <3>3. ASSUME NEW r \in Root, CancelWrite(r) PROVE Ends
        BY <3>1, <3>3 DEF CancelWrite, CancelTo
      <3>4. ASSUME NEW r \in Root, FinishWrite(r) PROVE Ends
        BY <3>1, <3>2, <3>4 DEF FinishWrite, CancelTo
      <3>5. ASSUME NEW r \in Root, NEW p \in Publisher, DeliverStart(p, r) PROVE op' = op \/ Ends
        BY <3>1, <3>2, <3>5 DEF DeliverStart
      <3>6. ASSUME Reconcile PROVE Ends
        BY <3>1, <3>6 DEF Reconcile
      <3> HIDE DEF Ends
      <3>7. op' = op \/ Ends
        BY <1>3, <3>3, <3>4, <3>5, <3>6
      <3> QED
        BY <3>7 DEF Ends
    <2> QED
      BY <1>1, <1>2, <2>1
  <1>4. ASSUME NEW o \in Operation, NEW state \in OpFinal, OperationEnds(o, state)
        PROVE  \A u \in Operation : OpStep(u)
    <2>1. EndOps({o}, state) /\ \A u \in {o} : op[u] = "PENDING"
      BY <1>4 DEF OperationEnds
    <2> QED
      BY <1>1, <2>1
  <1>5. ASSUME NEW o \in Operation, SubmitOperation(o) PROVE \A u \in Operation : OpStep(u)
    BY <1>t, <1>5 DEF SubmitOperation, EndOps, OpStep, At
  <1> QED
    BY <1>2, <1>3, <1>4, <1>5, OperationChanges

\* What only grows.
LEMMA Grows ==
  ASSUME Typed, Next
  PROVE  /\ late \subseteq late' /\ overwritten \subseteq overwritten' /\ asked \subseteq asked'
         /\ bindings \subseteq bindings' /\ DOMAIN outbox \subseteq DOMAIN outbox'
  <1>1. late \subseteq late'
    BY OtherChanges DEF Deadline
  <1>2. overwritten \subseteq overwritten'
    BY RootChanges DEF Submit, CancelWrite, FinishWrite, DeliverStart, Reconcile, InsertBatch,
       byPump
  <1>3. asked \subseteq asked'
    BY OtherChanges DEF DeliverCancel
  <1> QED
    BY <1>1, <1>2, <1>3, EventType

\* A workflow is started from its event, and closes; it completes only with a success
\* that finish_run has confirmed.
FlowStep(r) ==
  \/ flow'[r] = flow[r]
  \/ /\ flow[r] = "NONE" /\ flow'[r] = "RUNNING"
     /\ <<"start_workflow", r>> \in DOMAIN outbox
  \/ /\ flow[r] = "RUNNING" /\ flow'[r] \in FlowClosed /\ fin' = fin /\ root' = root
     /\ flow'[r] = "COMPLETED" => fin[r].at = "OK" /\ fin[r].state \in {"SUCCEEDED", "PARTIAL"}

\* finish_run is called by a running workflow, goes on with the state it was given,
\* and confirms what it has read.
FinStep(r) ==
  \/ fin'[r] = fin[r]
  \/ flow[r] = "RUNNING" /\ fin'[r].at = "READ" /\ flow' = flow
  \/ /\ fin[r].at \in {"READ", "WRITE", "CONFIRM"} /\ fin'[r].at # "NONE"
     /\ fin'[r].state = fin[r].state
     /\ fin'[r].at = "OK" => /\ root' = root /\ flow' = flow
                             /\ fin[r].state \in {"SUCCEEDED", "PARTIAL"} => root[r] = fin[r].state

LEMMA FlowMoves ==
  ASSUME Typed, Next
  PROVE  \A r \in Root : FlowStep(r)
  <1>t. /\ flow \in [Root -> {"NONE", "RUNNING"} \cup FlowClosed]
        /\ fin \in [Root -> [at : {"NONE", "READ", "WRITE", "CONFIRM", "OK", "REFUSED"},
                             state : RootFinal]]
        /\ \A p \in Publisher : DOMAIN task[p] \subseteq DOMAIN outbox
    BY DEF Typed, TypeOK, WorkflowTypeOK, OutboxTypeOK
  <1>1. CASE flow' = flow
    BY <1>1 DEF FlowStep
  <1>2. ASSUME NEW u \in Root, Close(u) PROVE \A r \in Root : FlowStep(r)
    <2>1. PICK s \in FlowClosed : flow' = [flow EXCEPT ![u] = s] /\
            (s = "COMPLETED" => fin[u].at = "OK" /\ fin[u].state \in {"SUCCEEDED", "PARTIAL"})
      BY <1>t, <1>2 DEF Close, Closes
    <2>2. flow[u] = "RUNNING" /\ fin' = fin /\ root' = root
      BY <1>2 DEF Close
    <2> QED
      BY <1>t, <2>1, <2>2 DEF FlowStep
  <1>3. ASSUME NEW u \in Root, CancelCloses(u) \/ TimeOut(u) PROVE \A r \in Root : FlowStep(r)
    <2>1. /\ flow' = [flow EXCEPT ![u] = "CANCELLED"] \/ flow' = [flow EXCEPT ![u] = "TIMED_OUT"]
          /\ flow[u] = "RUNNING" /\ fin' = fin /\ root' = root
      BY <1>3 DEF CancelCloses, TimeOut, Closes
    <2> QED
      BY <1>t, <2>1 DEF FlowStep
  <1>4. ASSUME NEW u \in Root, NEW p \in Publisher, DeliverStart(p, u)
        PROVE  \A r \in Root : FlowStep(r)
    <2>1. <<"start_workflow", u>> \in DOMAIN outbox
      BY <1>t, <1>4 DEF DeliverStart, On
    <2>2. flow' = flow \/ flow' = [flow EXCEPT ![u] = IF @ = "NONE" THEN "RUNNING" ELSE @]
      BY <1>4 DEF DeliverStart, StartWorkflow
    <2> QED
      BY <1>1, <1>t, <2>1, <2>2 DEF FlowStep
  <1> QED
    BY <1>1, <1>2, <1>3, <1>4, FlowChanges

LEMMA FinMoves ==
  ASSUME Typed, Next
  PROVE  \A r \in Root : FinStep(r)
  <1>t. fin \in [Root -> [at : {"NONE", "READ", "WRITE", "CONFIRM", "OK", "REFUSED"},
                          state : RootFinal]]
    BY DEF Typed, TypeOK, WorkflowTypeOK
  <1>1. CASE fin' = fin
    BY <1>1 DEF FinStep
  <1>2. ASSUME NEW u \in Root, Return(u) PROVE \A r \in Root : FinStep(r)
    <2>1. PICK s : fin' = [fin EXCEPT ![u] = [at |-> "READ", state |-> s]]
      BY <1>2 DEF Return
    <2>2. flow[u] = "RUNNING" /\ flow' = flow
      BY <1>2 DEF Return
    <2> QED
      BY <1>t, <2>1, <2>2 DEF FinStep
  <1>3. ASSUME NEW u \in Root, NEW at, fin' = [fin EXCEPT ![u].at = at], at # "NONE",
               fin[u].at \in {"READ", "WRITE", "CONFIRM"},
               at = "OK" => /\ root' = root /\ flow' = flow
                            /\ fin[u].state \in {"SUCCEEDED", "PARTIAL"} => root[u] = fin[u].state
        PROVE  \A r \in Root : FinStep(r)
    <2>1. /\ fin'[u].at = at /\ fin'[u].state = fin[u].state
          /\ \A r \in Root \ {u} : fin'[r] = fin[r]
      BY <1>t, <1>3
    <2> QED
      BY <1>3, <2>1 DEF FinStep
  <1>4. ASSUME NEW u \in Root, FinishRead(u) PROVE \A r \in Root : FinStep(r)
    <2>1. /\ \E at \in {"CONFIRM", "REFUSED", "WRITE"} : fin' = [fin EXCEPT ![u].at = at]
          /\ fin[u].at = "READ"
      BY <1>4 DEF FinishRead, Finishes
    <2> QED
      BY <1>3, <2>1
  <1>5. ASSUME NEW u \in Root, FinishWrite(u) \/ FinishRetried(u) PROVE \A r \in Root : FinStep(r)
    <2>1. /\ \E at \in {"CONFIRM", "READ"} : fin' = [fin EXCEPT ![u].at = at]
          /\ fin[u].at \in {"READ", "WRITE", "CONFIRM"}
      BY <1>5 DEF FinishWrite, FinishRetried, Finishes
    <2> QED
      BY <1>3, <2>1
  <1>6. ASSUME NEW u \in Root, FinishConfirm(u) PROVE \A r \in Root : FinStep(r)
    <2>1. /\ fin' = [fin EXCEPT ![u].at =
                       IF fin[u].state \in {"SUCCEEDED", "PARTIAL"} /\ root[u] # fin[u].state
                       THEN "REFUSED" ELSE "OK"]
          /\ fin[u].at = "CONFIRM" /\ root' = root /\ flow' = flow
      BY <1>6 DEF FinishConfirm, Finishes
    <2> QED
      BY <1>3, <2>1
  <1> QED
    BY <1>1, <1>2, <1>4, <1>5, <1>6, HandlerChanges

-----------------------------------------------------------------------------
(* Events and deliveries.                                                  *)

\* Events are of what has been committed, and DELIVERED by the publisher that was
\* answered.
LEMMA EventMoves ==
  ASSUME Typed, Submitted, Next
  PROVE  \A e \in DOMAIN outbox' :
           /\ \/ e \in DOMAIN outbox
              \/ e[1] = "start_workflow" /\ e[2] \in Root /\ root'[e[2]] = "RUNNING"
              \/ e[1] = "cancel_workflow"
              \/ e[1] = "complete_activity" /\ e[2] \in bindings'
           /\ outbox'[e].state = "DELIVERED" =>
                /\ e \in DOMAIN outbox
                /\ outbox[e].state = "DELIVERED" \/ \E p \in Publisher : On(p, e, "ACK")
  <1> DEFINE New(e) == \/ e[1] = "start_workflow" /\ e[2] \in Root /\ root'[e[2]] = "RUNNING"
                       \/ e[1] = "cancel_workflow"
                       \/ e[1] = "complete_activity" /\ e[2] \in bindings'
             Acknowledged(e) == e \in DOMAIN outbox /\
               (outbox[e].state = "DELIVERED" \/ \E p \in Publisher : On(p, e, "ACK"))
             Goal == \A e \in DOMAIN outbox' :
                       /\ e \in DOMAIN outbox \/ New(e)
                       /\ outbox'[e].state = "DELIVERED" => Acknowledged(e)
  <1>t. /\ root \in [Root -> {"ABSENT", "RUNNING"} \cup RootFinal]
        /\ bindings \subseteq bindings'
        /\ \A e \in DOMAIN outbox : DOMAIN outbox[e] = {"state", "owner", "lease"}
    BY EventType DEF Typed, TypeOK, WorkflowTypeOK, OutboxTypeOK, Range
  <1>1. ASSUME NEW E, Announce(E), \A e \in E : New(e) PROVE Goal
    <2>1. \A e \in DOMAIN outbox' : e \in DOMAIN outbox \/ e \in E
      BY <1>1 DEF Announce
    <2>2. \A e \in DOMAIN outbox' :
            outbox'[e] = IF e \in DOMAIN outbox THEN outbox[e] ELSE NewEvent
      BY <1>1 DEF Announce
    <2>3. NewEvent.state = "PENDING"
      BY DEF NewEvent
    <2> HIDE DEF New
    <2> QED
      BY <1>1, <2>1, <2>2, <2>3
  <1>2. ASSUME NEW S, NEW e \in Completions(S) PROVE New(e)
    BY <1>t DEF Completions
  <1>3. ASSUME NEW u \in Root, Submit(u) PROVE Goal
    <2>1. New(<<"start_workflow", u>>)
      BY <1>t, <1>3 DEF Submit, SubmitRun
    <2> HIDE DEF New, Goal
    <2> QED
      BY <1>1, <1>3, <2>1 DEF Submit, SubmitRun
  <1>4. ASSUME NEW u \in Root, CancelWrite(u) \/ FinishWrite(u)
        PROVE  Goal
    <2>1. \/ \E S : Announce(Completions(S))
          \/ \E S : Announce({<<"cancel_workflow", u>>} \cup Completions(S))
      BY <1>4 DEF CancelWrite, FinishWrite, CancelTo
    <2>2. New(<<"cancel_workflow", u>>)
      OBVIOUS
    <2> HIDE DEF New, Goal
    <2> QED
      BY <1>1, <1>2, <2>1, <2>2
  <1>5. ASSUME \/ \E u \in Root, p \in Publisher : DeliverStart(p, u)
               \/ Reconcile \/ \E o \in Operation, state \in OpFinal : OperationEnds(o, state)
        PROVE  Goal
    <2>1. outbox' = outbox \/ \E S : Announce(Completions(S))
      BY <1>5 DEF DeliverStart, Reconcile, OperationEnds
    <2>2. ASSUME outbox' = outbox PROVE Goal
      BY <2>2
    <2>3. ASSUME NEW S, Announce(Completions(S)) PROVE Goal
      BY <1>1, <1>2, <2>3
    <2>4. Goal
      <3> HIDE DEF Goal
      <3> QED
        BY <2>1, <2>2, <2>3
    <2> QED
      BY <2>4
  <1>6. ASSUME NEW o \in Operation, BindWrite(o) PROVE Goal
    <2> DEFINE E == IF act[o].saw \in OpFinal THEN {<<"complete_activity", <<o, act[o].n>>>>} ELSE {}
    <2>1. Announce(E)
      BY <1>6 DEF BindWrite
    <2>2. <<o, act[o].n>> \in bindings'
      BY <1>6 DEF BindWrite
    <2>3. \A e \in E : New(e)
      BY <2>2
    <2> HIDE DEF New, Goal, E
    <2> QED
      BY <1>1, <2>1, <2>3
  <1>7. ASSUME NEW q \in Publisher, InsertBatch(q) PROVE Goal
    <2>1. pump[q].run \in Root
      <3>1. pump[q].run \in Batches
        BY <1>7 DEF InsertBatch, PumpAt, Typed
      <3> QED
        BY <3>1, BufferingAssumption DEF Batches
    <2>2. New(<<"start_workflow", pump[q].run>>)
      BY <1>t, <1>7, <2>1 DEF InsertBatch, EndRoot
    <2> HIDE DEF New, Goal
    <2> QED
      BY <1>1, <1>7, <2>2 DEF InsertBatch
  <1>8. ASSUME DOMAIN outbox' = DOMAIN outbox,
               \A e \in DOMAIN outbox : outbox'[e].state = outbox[e].state
                                        \/ \E p \in Publisher : On(p, e, "ACK")
        PROVE  Goal
    BY <1>8
  <1>9. ASSUME NEW q \in Publisher, Claim(q) PROVE Goal
    <2>1. PICK E : outbox' = [e \in DOMAIN outbox |-> IF e \in E
                     THEN [outbox[e] EXCEPT !.owner = q, !.lease = TRUE] ELSE outbox[e]]
      BY <1>9 DEF Claim, ClaimAll
    <2>2. \A e \in DOMAIN outbox : outbox'[e].state = outbox[e].state
      BY <1>t, <2>1
    <2>3. DOMAIN outbox' = DOMAIN outbox
      BY <2>1
    <2> HIDE DEF Goal
    <2> QED
      BY <1>8, <2>2, <2>3
  <1>10. ASSUME NEW q \in Publisher, NEW f \in DOMAIN task[q], Ack(q, f) PROVE Goal
    <2>1. /\ DOMAIN outbox' = DOMAIN outbox
          /\ \A e \in DOMAIN outbox : e # f => outbox'[e] = outbox[e]
      BY <1>10 DEF Ack
    <2>2. On(q, f, "ACK")
      BY <1>10 DEF Ack
    <2> HIDE DEF Goal
    <2> QED
      BY <1>8, <2>1, <2>2
  <1>11. ASSUME NEW f, \/ outbox' = outbox
                       \/ outbox' = [outbox EXCEPT ![f].owner = None]
                       \/ outbox' = [outbox EXCEPT ![f].lease = FALSE]
         PROVE  Goal
    <2>1. /\ DOMAIN outbox' = DOMAIN outbox
          /\ \A e \in DOMAIN outbox : outbox'[e].state = outbox[e].state
      BY <1>t, <1>11
    <2> HIDE DEF Goal
    <2> QED
      BY <1>8, <2>1
  <1>12. Goal
    <2>1. ASSUME NEW q \in Publisher, NEW f \in DOMAIN task[q], Defer(q, f) PROVE Goal
      BY <1>11, <2>1 DEF Defer
    <2>2. ASSUME NEW f, LeaseLapses(f) PROVE Goal
      BY <1>11, <2>2 DEF LeaseLapses
    <2>3. CASE outbox' = outbox
      BY <1>11, <2>3
    <2> HIDE DEF Goal
    <2>4. CASE \E u \in Root : \/ Submit(u) \/ CancelWrite(u) \/ FinishWrite(u)
                              \/ \E q \in Publisher : DeliverStart(q, u)
      BY <1>3, <1>4, <1>5, <2>4
    <2>5. CASE Reconcile \/ \E o \in Operation : \/ BindWrite(o)
                                                 \/ \E state \in OpFinal : OperationEnds(o, state)
      BY <1>5, <1>6, <2>5
    <2>6. CASE \E q \in Publisher : \/ InsertBatch(q) \/ Claim(q)
                                    \/ \E f \in DOMAIN task[q] : Ack(q, f) \/ Defer(q, f)
      BY <1>7, <1>9, <1>10, <2>1, <2>6
    <2> QED
      BY <2>2, <2>3, <2>4, <2>5, <2>6, OutboxChanges
  <1> QED
    BY <1>12

\* A call that has been answered was carried out in this step or before.
LEMMA AckMoves ==
  ASSUME Typed, Next, NEW p \in Publisher, NEW e, e \in DOMAIN task'[p], task'[p][e] = "ACK"
  PROVE  \/ On(p, e, "ACK")
         \/ \E r \in Root : e = <<"start_workflow", r>> /\ DeliverStart(p, r)
         \/ \E r \in Root : e = <<"cancel_workflow", r>> /\ r \in asked' /\ e \in DOMAIN task[p]
         \/ \E t \in bindings : e = <<"complete_activity", t>> /\ op[t[1]] \in OpFinal
                                /\ DeliverCompletion(p, t)
  <1>t. DOMAIN task = Publisher
    BY DEF Typed, TypeOK, WorkflowTypeOK, OutboxTypeOK
  <1>1. CASE task' = task
    BY <1>1 DEF On
  <1>2. ASSUME NEW q \in Publisher, NEW f, NEW step, Goes(q, f, step),
               ~ On(p, e, "ACK")
        PROVE  q = p /\ f = e /\ step = "ACK"
    BY <1>t, <1>2 DEF Goes, On
  <1>3. ASSUME NEW q \in Publisher, NEW f, Leaves(q, f) PROVE On(p, e, "ACK")
    BY <1>t, <1>3 DEF Leaves, Restrict, On
  <1>4. ASSUME NEW q \in Publisher, Claim(q) PROVE On(p, e, "ACK")
    BY <1>t, <1>4 DEF Claim, ClaimAll, On
  <1>5. ASSUME NEW q \in Publisher, PublisherDies(q) PROVE On(p, e, "ACK")
    BY <1>t, <1>5 DEF PublisherDies, Nothing, On
  <1> SUFFICES ASSUME ~ On(p, e, "ACK"), task' # task
               PROVE  \/ \E r \in Root : e = <<"start_workflow", r>> /\ DeliverStart(p, r)
                      \/ \E r \in Root : e = <<"cancel_workflow", r>> /\ r \in asked'
                                          /\ e \in DOMAIN task[p]
                      \/ \E t \in bindings : e = <<"complete_activity", t>>
                                             /\ op[t[1]] \in OpFinal /\ DeliverCompletion(p, t)
    BY <1>1
  <1>6. ASSUME NEW q \in Publisher, NEW r \in Root, DeliverStart(q, r)
        PROVE  e = <<"start_workflow", r>> /\ DeliverStart(p, r)
    BY <1>2, <1>6 DEF DeliverStart
  <1>7. ASSUME NEW q \in Publisher, NEW r \in Root, DeliverCancel(q, r)
        PROVE  e = <<"cancel_workflow", r>> /\ r \in asked' /\ e \in DOMAIN task[p]
    <2>1. CASE flow[r] = "RUNNING"
      BY <1>2, <1>7, <2>1 DEF DeliverCancel, On
    <2>2. CASE flow[r] # "RUNNING"
      BY <1>2, <1>7, <2>2 DEF DeliverCancel
    <2> QED
      BY <2>1, <2>2
  <1>8. ASSUME NEW q \in Publisher, NEW t \in bindings, DeliverCompletion(q, t)
        PROVE  e = <<"complete_activity", t>> /\ op[t[1]] \in OpFinal /\ DeliverCompletion(p, t)
    <2>1. CASE op[t[1]] \notin OpFinal
      BY <1>2, <1>8, <2>1 DEF DeliverCompletion
    <2>2. CASE op[t[1]] \in OpFinal
      BY <1>2, <1>8, <2>2 DEF DeliverCompletion
    <2> QED
      BY <2>1, <2>2
  <1>9. ASSUME NEW q \in Publisher, NEW f \in DOMAIN task[q],
               Ack(q, f) \/ Defer(q, f) \/ CallFails(q, f) \/ DeferFails(q, f)
        PROVE  FALSE
    <2>1. Leaves(q, f) \/ Goes(q, f, "DEFER")
      BY <1>9 DEF Ack, Defer, CallFails, DeferFails
    <2> QED
      BY <1>2, <1>3, <2>1
  <1>10. PICK q \in Publisher :
              \/ \E r \in Root : DeliverStart(q, r) \/ DeliverCancel(q, r)
              \/ \E t \in bindings : DeliverCompletion(q, t)
              \/ Claim(q) \/ PublisherDies(q)
              \/ \E f \in DOMAIN task[q] : \/ Ack(q, f) \/ Defer(q, f)
                                           \/ CallFails(q, f) \/ DeferFails(q, f)
    BY TaskChanges
  <1> QED
    BY <1>4, <1>5, <1>6, <1>7, <1>8, <1>9, <1>10

LEMMA SubmittedStep ==
  ASSUME Typed, Submitted, Next
  PROVE  Submitted'
  <1>t. /\ root \in [Root -> {"ABSENT", "RUNNING"} \cup RootFinal]
        /\ root' \in [Root -> {"ABSENT", "RUNNING"} \cup RootFinal]
        /\ DOMAIN pump = Publisher
    BY LedgerType DEF Typed, TypeOK, WorkflowTypeOK, OutboxTypeOK
  <1>1. ASSUME NEW r \in Root,
               \/ r \in cancelling' \/ fin'[r].at # "NONE" \/ flow'[r] # "NONE"
               \/ <<"start_workflow", r>> \in DOMAIN outbox'
        PROVE  root'[r] # "ABSENT"
    <2>1. root[r] # "ABSENT" => root'[r] # "ABSENT"
      BY RootMoves DEF RootStep
    <2>2. CASE r \in cancelling'
      <3>1. r \in cancelling \/ root[r] = "RUNNING"
        BY <2>2, OtherChanges DEF CancelRead, CancelWrite
      <3> QED
        BY <2>1, <3>1 DEF Submitted
    <2>3. CASE fin'[r].at # "NONE"
      <3>1. fin[r].at # "NONE" \/ flow[r] # "NONE"
        BY <2>3, FinMoves DEF FinStep
      <3> QED
        BY <2>1, <3>1 DEF Submitted
    <2>4. CASE flow'[r] # "NONE"
      <3>1. flow[r] # "NONE" \/ <<"start_workflow", r>> \in DOMAIN outbox
        BY <2>4, FlowMoves DEF FlowStep
      <3> QED
        BY <2>1, <3>1 DEF Submitted
    <2>5. CASE <<"start_workflow", r>> \in DOMAIN outbox'
      <3>1. <<"start_workflow", r>> \in DOMAIN outbox \/ root'[r] = "RUNNING"
        BY <2>5, EventMoves
      <3> QED
        BY <2>1, <3>1 DEF Submitted
    <2> QED
      BY <1>1, <2>2, <2>3, <2>4, <2>5
  <1>2. ASSUME NEW p \in Publisher
        PROVE  \/ pump'[p] = pump[p]
               \/ pump'[p].at # "INSERT"
               \/ /\ Unlocked /\ root' = root /\ root[pump'[p].run] = "ABSENT"
                  /\ \A q \in Publisher : q # p => pump'[q] = pump[q]
    <2>1. ASSUME NEW u \in Publisher, NEW row, row.at # "INSERT", pump' = [pump EXCEPT ![u] = row]
          PROVE  pump'[p] = pump[p] \/ pump'[p].at # "INSERT"
      BY <1>t, <2>1
    <2>2. ASSUME NEW u \in Publisher, SubmitBatch(u)
          PROVE  \/ pump'[p] = pump[p]
                 \/ pump'[p].at # "INSERT"
                 \/ /\ Unlocked /\ root' = root /\ root[pump'[p].run] = "ABSENT"
                    /\ \A q \in Publisher : q # p => pump'[q] = pump[q]
      <3>1. PICK at : /\ pump' = [pump EXCEPT ![u].at = at]
                      /\ at = "INSERT" => root[pump[u].run] = "ABSENT"
        <4> DEFINE to == IF root[pump[u].run] # "ABSENT" THEN "MARK"
                         ELSE IF CanSubmit(pump[u].run) THEN "INSERT" ELSE "DEFER"
        <4>1. pump' = [pump EXCEPT ![u].at = to]
          BY <2>2 DEF SubmitBatch, PumpTo
        <4>2. to = "INSERT" => root[pump[u].run] = "ABSENT"
          OBVIOUS
        <4> HIDE DEF to
        <4> QED
          BY <4>1, <4>2
      <3>2. Unlocked /\ root' = root
        BY <2>2 DEF SubmitBatch
      <3>3. /\ pump'[u].at = at /\ pump'[u].run = pump[u].run
            /\ \A q \in Publisher : q # u => pump'[q] = pump[q]
        BY <1>t, <3>1
      <3> QED
        BY <3>1, <3>2, <3>3
    <2>3. ASSUME NEW u \in Publisher, NEW at, at # "INSERT", pump' = [pump EXCEPT ![u].at = at]
          PROVE  pump'[p] = pump[p] \/ pump'[p].at # "INSERT"
      BY <1>t, <2>3
    <2>4. ASSUME NEW u \in Publisher, InsertBatch(u) \/ DispatchFails(u)
          PROVE  pump'[p] = pump[p] \/ pump'[p].at # "INSERT"
      BY <2>3, <2>4 DEF InsertBatch, DispatchFails, PumpTo
    <2>5. ASSUME NEW u \in Publisher, MarkBatch(u) \/ DeferBatch(u)
          PROVE  pump'[p] = pump[p] \/ pump'[p].at # "INSERT"
      <3>1. PICK b : pump' = [pump EXCEPT ![u] = IF b = None THEN Resting
                                ELSE [at |-> "SUBMIT", run |-> b, todo |-> @.todo \ {b}]]
        BY <2>5 DEF MarkBatch, DeferBatch, NextBatch
      <3> QED
        BY <1>t, <3>1 DEF Resting
    <2>6. ASSUME NEW u \in Publisher, Seal(u) \/ PumpStops(u)
          PROVE  pump'[p] = pump[p] \/ pump'[p].at # "INSERT"
      <3>1. CASE Seal(u)
        <4>1. PICK b, S : pump' = [pump EXCEPT ![u] = [at |-> "SUBMIT", run |-> b, todo |-> S]]
          BY <3>1 DEF Seal, SealWith
        <4> QED
          BY <1>t, <4>1
      <3>2. CASE PumpStops(u)
        BY <2>1, <3>2 DEF PumpStops, Resting
      <3> QED
        BY <2>6, <3>1, <3>2
    <2>7. \/ pump' = pump
          \/ \E u \in Publisher : \/ Seal(u) \/ SubmitBatch(u) \/ InsertBatch(u) \/ MarkBatch(u)
                                  \/ DeferBatch(u) \/ DispatchFails(u) \/ PumpStops(u)
      BY BufferChanges DEF BufferStep, Dispatch, Accept, FallsDue, bufferVars
    <2> QED
      BY <2>2, <2>4, <2>5, <2>6, <2>7
  <1>3. ASSUME NEW r \in Root, root[r] = "ABSENT", root'[r] # "ABSENT"
        PROVE  Unlocked \/ \E u \in Publisher : InsertBatch(u)
    <2>1. root'[r] = "RUNNING"
      BY <1>3, RootMoves DEF RootStep
    <2>2. ASSUME NEW u \in Root, CancelWrite(u) \/ FinishWrite(u)
          PROVE  FALSE
      <3>1. PICK s \in RootFinal : root' = [root EXCEPT ![u] = s]
        BY <1>t, <2>2 DEF CancelWrite, FinishWrite, CancelTo, EndRoot, Typed, TypeOK, WorkflowTypeOK
      <3> QED
        BY <1>t, <1>3, <2>1, <3>1
    <2>3. ASSUME NEW u \in Root, NEW p \in Publisher, DeliverStart(p, u) PROVE FALSE
      BY <1>t, <1>3, <2>1, <2>3 DEF DeliverStart, EndRoot
    <2>4. CASE Reconcile
      BY <1>t, <1>3, <2>1, <2>4 DEF Reconcile
    <2> QED
      BY <1>3, <2>2, <2>3, <2>4, RootChanges
  <1>4. ASSUME NEW p \in Publisher, pump'[p].at = "INSERT"
        PROVE  /\ root'[pump'[p].run] = "ABSENT"
               /\ \A q \in Publisher : pump'[q].at = "INSERT" => q = p
    <2>1. CASE pump'[p] = pump[p]
      <3>1. /\ root[pump[p].run] = "ABSENT" /\ ~Unlocked
            /\ \A q \in Publisher : pump[q].at = "INSERT" => q = p
        BY <1>4, <2>1 DEF Submitted, Unlocked
      <3>2. pump[p].run \in Root
        <4>1. pump[p].run \in Batches
          BY <1>4, <2>1 DEF Typed
        <4> QED
          BY <4>1, BufferingAssumption DEF Batches
      <3>3. ASSUME NEW u \in Publisher, InsertBatch(u) PROVE FALSE
        <4>1. pump[u].at = "INSERT" /\ pump' = [pump EXCEPT ![u].at = "MARK"]
          BY <3>3 DEF InsertBatch, PumpAt, PumpTo
        <4>2. u = p
          BY <3>1, <4>1
        <4> QED
          BY <1>t, <1>4, <4>1, <4>2
      <3>4. root'[pump'[p].run] = "ABSENT"
        BY <1>3, <2>1, <3>1, <3>2, <3>3
      <3> QED
        BY <1>2, <3>1, <3>4
    <2>2. CASE pump'[p] # pump[p]
      BY <1>2, <1>4, <2>2 DEF Unlocked
    <2> QED
      BY <2>1, <2>2
  <1> QED
    BY <1>1, <1>4 DEF Submitted

-----------------------------------------------------------------------------
(* Handlers and their activities.                                          *)

\* The window of a run is filled; children that have left it have succeeded.
Refills(r, kept) ==
  /\ flow[r] = "RUNNING" /\ kept \subseteq handler[r].pending /\ Refill(r, kept)
  /\ UNCHANGED <<op, bindings, flow>>
  /\ handler[r].at = "NONE" \/ handler[r].at = "MAP"
  /\ handler[r].at = "MAP" => \A o \in handler[r].pending \ kept :
                                act[o].at = "DONE" /\ act[o].answer = "SUCCEEDED"

\* In any other step a handler stops to map, and lets go of children.
HandlerKeeps(r) ==
  \/ handler'[r] = handler[r]
  \/ /\ handler[r].at # "NONE" /\ handler'[r].at \in {"DRAIN", "FINISH"}
     /\ handler'[r].pending \subseteq handler[r].pending
     /\ handler'[r].cursor = handler[r].cursor

\* An activity is answered, with what the ledger has decided or no success, or goes on.
ActKeeps(o) ==
  \/ act'[o] = act[o]
  \/ /\ act[o].at # "NONE" /\ act'[o].at = "DONE" /\ act'[o].n = act[o].n
     /\ act'[o].answer \in {"ERROR", "CANCELLED"} \/ (act'[o].answer = op[o] /\ op[o] \in OpFinal)
  \/ /\ act[o].at \in Started /\ act'[o].at \in Started
     /\ act'[o].n >= act[o].n /\ act'[o].answer = act[o].answer

LEMMA HandlerMoves ==
  ASSUME Typed, Next
  PROVE  \/ \E r \in Root : \E kept : Refills(r, kept)
         \/ /\ \A r \in Root : HandlerKeeps(r)
            /\ ~ \E r \in Root : Begin(r)
            /\ \A r \in Root : Harvest(r) => act' = act
  <1>t. handler \in [Root -> [at : {"NONE", "MAP", "DRAIN", "FINISH"}, cursor : Nat,
                              pending : SUBSET Operation, exit : Exit]]
    BY DEF Typed, TypeOK, WorkflowTypeOK
  <1> USE DEF ledger, byHandler
  <1>1. ASSUME NEW r \in Root, Begin(r) PROVE Refills(r, {})
    BY <1>1 DEF Begin, Refills
  <1>2. ASSUME NEW r \in Root, Harvest(r), Failing(handler[r].pending) = {}
        PROVE  Refills(r, handler[r].pending \ Done(handler[r].pending))
    <2> DEFINE S == handler[r].pending
               kept == S \ Done(S)
    <2>1. /\ flow[r] = "RUNNING" /\ handler[r].at = "MAP" /\ Refill(r, kept)
          /\ UNCHANGED <<op, bindings, flow>>
      BY <1>2 DEF Harvest, InFlight
    <2>2. \A o \in S \ kept : act[o].at = "DONE" /\ act[o].answer = "SUCCEEDED"
      BY <1>2 DEF Done, Failing, At
    <2>3. kept \subseteq S
      OBVIOUS
    <2> HIDE DEF kept
    <2>4. Refills(r, kept)
      BY <2>1, <2>2, <2>3 DEF Refills
    <2> QED
      BY <2>4 DEF kept
  <1>3. ASSUME NEW r \in Root, Harvest(r), Failing(handler[r].pending) # {}
        PROVE  act' = act /\ \A u \in Root : HandlerKeeps(u)
    <2>1. /\ handler[r].at = "MAP" /\ act' = act
          /\ \E exit : handler' = [handler EXCEPT ![r].at = "DRAIN", ![r].exit = exit]
      BY <1>3 DEF Harvest, InFlight
    <2> QED
      BY <1>t, <2>1 DEF HandlerKeeps
  <1>4. ASSUME NEW r \in Root, Drain(r) PROVE \A u \in Root : HandlerKeeps(u)
    <2>1. PICK o : handler' = [handler EXCEPT ![r].pending = @ \ {o}]
      BY <1>4 DEF Drain
    <2>2. handler[r].at = "DRAIN"
      BY <1>4 DEF Drain
    <2> QED
      BY <1>t, <2>1, <2>2 DEF HandlerKeeps
  <1>5. ASSUME NEW r \in Root, Return(r) PROVE \A u \in Root : HandlerKeeps(u)
    BY <1>t, <1>5 DEF Return, HandlerKeeps
  <1>6. ASSUME NEW r \in Root, CancelHandler(r) PROVE \A u \in Root : HandlerKeeps(u)
    BY <1>t, <1>6 DEF CancelHandler, InFlight, HandlerKeeps
  <1>7. handler' = handler => \A u \in Root : HandlerKeeps(u)
    BY DEF HandlerKeeps
  <1> SUFFICES ASSUME ~ \E r \in Root : \E kept : Refills(r, kept)
               PROVE  /\ \A r \in Root : HandlerKeeps(r)
                      /\ ~ \E r \in Root : Begin(r)
                      /\ \A r \in Root : Harvest(r) => act' = act
    OBVIOUS
  <1>8. ~ \E r \in Root : Begin(r)
    BY <1>1
  <1>9. \A r \in Root : Harvest(r) => act' = act /\ \A u \in Root : HandlerKeeps(u)
    BY <1>2, <1>3
  <1>10. \A r \in Root : HandlerKeeps(r)
    BY <1>4, <1>5, <1>6, <1>7, <1>8, <1>9, HandlerChanges
  <1> QED
    BY <1>8, <1>9, <1>10

LEMMA ActMoves ==
  ASSUME Typed, Followed, Next
  PROVE  \/ \E r \in Root : \E kept : Refills(r, kept)
         \/ (\A r \in Root : HandlerKeeps(r)) /\ \A o \in Operation : ActKeeps(o)
  <1>t. /\ act \in [Operation -> [n : 0..MaxStarts, at : {"NONE", "DONE"} \cup Started,
             saw : {"ABSENT", "PENDING"} \cup OpFinal, answer : {"NONE", "ERROR"} \cup OpFinal]]
        /\ bindings \subseteq Token /\ \A r \in Root : handler[r].pending \in SUBSET Operation
        /\ MaxStarts \in Nat
    BY OutboxAssumption DEF Typed, TypeOK, WorkflowTypeOK, OutboxTypeOK
  <1> SUFFICES ASSUME ~ \E r \in Root : \E kept : Refills(r, kept)
               PROVE  (\A r \in Root : HandlerKeeps(r)) /\ \A o \in Operation : ActKeeps(o)
    OBVIOUS
  <1>h. /\ \A r \in Root : HandlerKeeps(r)
        /\ ~ \E r \in Root : Begin(r)
        /\ \A r \in Root : Harvest(r) => act' = act
    BY HandlerMoves
  <1> DEFINE Goal == \A o \in Operation : ActKeeps(o)
  <1>1. ASSUME act' = act PROVE Goal
    BY <1>1 DEF ActKeeps
  <1>2. ASSUME NEW u \in Operation, NEW a, Answered(u, a), act[u].at # "NONE",
               a \in {"ERROR", "CANCELLED"} \/ (a = op[u] /\ op[u] \in OpFinal)
        PROVE  Goal
    <2>1. /\ act'[u].at = "DONE" /\ act'[u].n = act[u].n /\ act'[u].answer = a
          /\ \A o \in Operation \ {u} : act'[o] = act[o]
      BY <1>t, <1>2 DEF Answered
    <2> QED
      BY <1>2, <2>1 DEF ActKeeps
  <1>3. ASSUME NEW u \in Operation, act[u].at \in Started, act'[u].at \in Started,
               act'[u].n >= act[u].n, act'[u].answer = act[u].answer,
               \A o \in Operation \ {u} : act'[o] = act[o]
        PROVE  Goal
    BY <1>3 DEF ActKeeps
  <1>4. ASSUME NEW u \in Operation, NEW step \in Started, act[u].at \in Started, Step(u, step)
        PROVE  Goal
    <2>1. /\ act'[u].at = step /\ act'[u].n = act[u].n /\ act'[u].answer = act[u].answer
          /\ \A o \in Operation \ {u} : act'[o] = act[o]
      BY <1>t, <1>4 DEF Step
    <2>2. act[u].n \in Nat
      BY <1>t
    <2> QED
      BY <1>3, <1>4, <2>1, <2>2
  <1>5. ASSUME NEW r \in Root, Drain(r) PROVE Goal
    <2>1. PICK o \in handler[r].pending : act' = act \/ Answered(o, "CANCELLED")
      BY <1>5 DEF Drain
    <2>2. o \in Operation /\ act[o].at # "NONE"
      BY <1>t DEF Followed, Mapped
    <2> QED
      BY <1>1, <1>2, <2>1, <2>2
  <1>6. ASSUME NEW u \in Operation, SubmitOperation(u) PROVE Goal
    <2>1. Answered(u, "ERROR") \/ Step(u, "READ")
      BY <1>6 DEF SubmitOperation
    <2>2. act[u].at = "SUBMIT"
      BY <1>6 DEF SubmitOperation, At
    <2> QED
      BY <1>2, <1>4, <2>1, <2>2
  <1>7. ASSUME NEW u \in Operation, ReadOperation(u) PROVE Goal
    <2>1. (op[u] \in OpFinal /\ Answered(u, op[u])) \/ Step(u, "BIND")
      BY <1>7 DEF ReadOperation
    <2>2. act[u].at = "READ"
      BY <1>7 DEF ReadOperation, At
    <2> QED
      BY <1>2, <1>4, <2>1, <2>2
  <1>8. ASSUME NEW u \in Operation, BindRead(u) PROVE Goal
    <2>1. /\ act'[u].at = "BINDING" /\ act'[u].n = act[u].n /\ act'[u].answer = act[u].answer
          /\ \A o \in Operation \ {u} : act'[o] = act[o]
      BY <1>t, <1>8 DEF BindRead
    <2>2. act[u].at = "BIND" /\ act[u].n \in Nat
      BY <1>t, <1>8 DEF BindRead, At
    <2> QED
      BY <1>3, <2>1, <2>2
  <1>9. ASSUME NEW u \in Operation, BindWrite(u) PROVE Goal
    <2>1. /\ act'[u].at = "WAIT" /\ act'[u].n = act[u].n /\ act'[u].answer = act[u].answer
          /\ \A o \in Operation \ {u} : act'[o] = act[o]
      BY <1>t, <1>9 DEF BindWrite
    <2>2. act[u].at = "BINDING" /\ act[u].n \in Nat
      BY <1>t, <1>9 DEF BindWrite, At
    <2> QED
      BY <1>3, <2>1, <2>2
  <1>10. ASSUME NEW u \in Operation, ActivityRetried(u) PROVE Goal
    <2>1. /\ act'[u].at = "SUBMIT" /\ act'[u].n = act[u].n + 1 /\ act'[u].answer = act[u].answer
          /\ \A o \in Operation \ {u} : act'[o] = act[o]
      BY <1>t, <1>10 DEF ActivityRetried
    <2>2. act[u].at \in Started /\ act[u].n \in Nat
      BY <1>t, <1>10 DEF ActivityRetried
    <2>3. act'[u].n >= act[u].n
      BY <2>1, <2>2
    <2> QED
      BY <1>3, <2>1, <2>2, <2>3
  <1>11. ASSUME NEW u \in Operation, WorkerDies(u) PROVE Goal
    <2>1. /\ act'[u].at = "LOST" /\ act'[u].n = act[u].n /\ act'[u].answer = act[u].answer
          /\ \A o \in Operation \ {u} : act'[o] = act[o]
      BY <1>t, <1>11 DEF WorkerDies
    <2>2. act[u].at \in Started /\ act[u].n \in Nat
      BY <1>t, <1>11 DEF WorkerDies
    <2> QED
      BY <1>3, <2>1, <2>2
  <1>12. ASSUME NEW p \in Publisher, NEW t \in bindings, DeliverCompletion(p, t) PROVE Goal
    <2>1. t[1] \in Operation
      <3>1. t \in Operation \X (1..MaxStarts)
        BY <1>t DEF Token
      <3> QED
        BY <3>1
    <2>2. CASE op[t[1]] \in OpFinal /\ Waits(t)
      <3>1. Answered(t[1], op[t[1]]) /\ act[t[1]].at \in Started
        BY <1>12, <2>2 DEF DeliverCompletion, Waits
      <3> QED
        BY <1>2, <2>1, <2>2, <3>1
    <2>3. CASE ~ (op[t[1]] \in OpFinal /\ Waits(t))
      <3>1. act' = act
        BY <1>12, <2>3 DEF DeliverCompletion
      <3> QED
        BY <1>1, <3>1
    <2> QED
      BY <2>2, <2>3
  <1>13. Goal
    <2> HIDE DEF Goal
    <2> QED
      BY <1>h, <1>1, <1>5, <1>6, <1>7, <1>8, <1>9, <1>10, <1>11, <1>12, ActivityChanges
  <1> QED
    BY <1>h, <1>13

\* Bindings are of the attempt that is started now.
LEMMA BindingMoves ==
  ASSUME Typed, Next, NEW t \in bindings'
  PROVE  t \in bindings \/ t[2] = act[t[1]].n
  <1>1. t \in bindings \/ \E o \in Operation : t = <<o, act[o].n>>
    BY OtherChanges DEF BindWrite
  <1> QED
    BY <1>1

LEMMA FollowedStep ==
  ASSUME Typed, Followed, Next
  PROVE  Followed'
  <1> DEFINE Row == [n : 0..MaxStarts, at : {"NONE", "DONE"} \cup Started,
                     saw : {"ABSENT", "PENDING"} \cup OpFinal,
                     answer : {"NONE", "ERROR"} \cup OpFinal]
  <1>t. /\ act \in [Operation -> Row] /\ act' \in [Operation -> Row]
        /\ bindings \subseteq Token /\ bindings' \subseteq Token
        /\ \A o \in Operation : act[o].n \in Nat /\ act'[o].n \in Nat
        /\ \A r \in Root : /\ handler[r].pending \in SUBSET Operation /\ handler[r].cursor \in Nat
                           /\ handler[r].cursor <= Len(Items[r])
                           /\ Cardinality(handler[r].pending) <= Window[r]
                           /\ Items[r] \in Seq(Operation) /\ Window[r] \in Nat
    <2>1. /\ act \in [Operation -> Row] /\ act' \in [Operation -> Row]
          /\ bindings \subseteq Token /\ bindings' \subseteq Token
      BY TemporalType, EventType DEF Typed, TypeOK, WorkflowTypeOK, OutboxTypeOK
    <2>2. \A o \in Operation : act[o].n \in Nat /\ act'[o].n \in Nat
      BY <2>1, OutboxAssumption
    <2>3. \A r \in Root : /\ handler[r].pending \in SUBSET Operation /\ handler[r].cursor \in Nat
                          /\ handler[r].cursor <= Len(Items[r])
                          /\ Cardinality(handler[r].pending) <= Window[r]
                          /\ Items[r] \in Seq(Operation) /\ Window[r] \in Nat
      BY WorkflowAssumption DEF Typed, TypeOK, WorkflowTypeOK
    <2> QED
      BY <2>1, <2>2, <2>3
  <1>i. /\ \A r \in Root : Mapped(r)
        /\ \A o \in Operation : Heard(o)
        /\ \A o \in Operation : OpStep(o)
        /\ \A r \in Root : FlowStep(r)
    BY OpMoves, FlowMoves DEF Followed
  <1>m. ASSUME NEW r \in Root
        PROVE  /\ \A n \in DOMAIN Items[r] : Items[r][n] \in OpsOf(r) /\ Items[r][n] \in Operation
               /\ \A o \in OpsOf(r) : \E n \in DOMAIN Items[r] : o = Items[r][n]
               /\ \A m, n \in DOMAIN Items[r] : Items[r][m] = Items[r][n] => m = n
               /\ DOMAIN Items[r] = 1..Len(Items[r]) /\ Len(Items[r]) \in Nat
    <2>1. ToSet(Items[r]) = OpsOf(r) /\ IsInjective(Items[r])
      BY WorkflowAssumption
    <2>2. OpsOf(r) \subseteq Operation
      BY DEF OpsOf
    <2> QED
      BY <1>t, <2>1, <2>2 DEF ToSet, IsInjective
  <1>1. ASSUME \A r \in Root : HandlerKeeps(r), \A o \in Operation : ActKeeps(o) PROVE Followed'
    <2>1. ASSUME NEW o \in Operation PROVE Heard(o)'
      <3>1. Heard(o) /\ OpStep(o) /\ ActKeeps(o)
        BY <1>1, <1>i
      <3>2. act'[o].at = "NONE" => act'[o] = NoActivity /\ op'[o] = "ABSENT"
        BY <3>1 DEF Heard, OpStep, ActKeeps
      <3>3. act'[o].answer # "NONE" => act'[o].at = "DONE"
        BY <3>1 DEF Heard, ActKeeps
      <3>4. act[o].n <= act'[o].n
        BY <1>t, <3>1 DEF ActKeeps
      <3>5. ASSUME NEW t \in bindings', t[1] = o PROVE t[2] <= act'[o].n
        <4>1. t[2] <= act[o].n
          BY <1>t, <3>1, <3>5, BindingMoves DEF Heard
        <4>2. t[2] \in Nat
          <5>1. t \in Operation \X (1..MaxStarts)
            BY <1>t DEF Token
          <5> QED
            BY <5>1
        <4> QED
          BY <1>t, <3>4, <4>1, <4>2
      <3>6. act'[o].answer \in {"SUCCEEDED", "FAILED"} => act'[o].answer = op'[o]
        BY <3>1 DEF Heard, OpStep, ActKeeps
      <3> QED
        BY <3>2, <3>3, <3>5, <3>6 DEF Heard
    <2>2. ASSUME NEW r \in Root PROVE Mapped(r)'
      <3>1. Mapped(r) /\ HandlerKeeps(r) /\ FlowStep(r)
        BY <1>1, <1>i
      <3>2. /\ flow'[r] = "NONE" => handler'[r].at = "NONE"
            /\ handler'[r].at = "NONE" => handler'[r].cursor = 0
        BY <3>1 DEF Mapped, HandlerKeeps, FlowStep
      <3>3. \A o \in Operation : (act[o].at = "NONE") <=> (act'[o].at = "NONE")
        BY <1>1 DEF ActKeeps
      <3>4. \A n \in DOMAIN Items[r] : n > handler'[r].cursor => act'[Items[r][n]].at = "NONE"
        <4>1. handler'[r].cursor = handler[r].cursor
          BY <3>1 DEF HandlerKeeps
        <4> QED
          BY <1>m, <3>1, <3>3, <4>1 DEF Mapped
      <3>5. \A o \in handler'[r].pending : RootOf[o] = r /\ act'[o].at # "NONE"
        BY <1>t, <3>1, <3>3 DEF Mapped, HandlerKeeps
      <3>6. ASSUME handler'[r].at = "MAP", NEW o \in OpsOf(r),
                   op'[o] = "PENDING" \/ act'[o].at \in Started
            PROVE  o \in handler'[r].pending
        <4>1. handler'[r] = handler[r]
          BY <3>1, <3>6 DEF HandlerKeeps
        <4>2. o \in Operation
          BY DEF OpsOf
        <4>3. op[o] = "PENDING" \/ act[o].at \in Started
          BY <1>1, <1>i, <3>6, <4>2 DEF ActKeeps, OpStep
        <4> QED
          BY <3>1, <3>6, <4>1, <4>3 DEF Mapped
      <3> QED
        BY <3>2, <3>4, <3>5, <3>6 DEF Mapped, OpsOf
    <2> QED
      BY <2>1, <2>2 DEF Followed
  <1>2. ASSUME NEW u \in Root, NEW kept, Refills(u, kept) PROVE Followed'
    <2>1. /\ kept \in SUBSET Operation /\ kept \subseteq handler[u].pending
          /\ flow[u] = "RUNNING" /\ Refill(u, kept) /\ op' = op /\ bindings' = bindings
          /\ flow' = flow
          /\ handler[u].at = "NONE" \/ handler[u].at = "MAP"
          /\ handler[u].at = "MAP" => \A o \in handler[u].pending \ kept :
                                        act[o].at = "DONE" /\ act[o].answer = "SUCCEEDED"
      BY <1>t, <1>2 DEF Refills
    <2>2. Cardinality(kept) <= Window[u]
      <3>1. IsFiniteSet(handler[u].pending)
        BY <1>t, OutboxAssumption, FS_Subset
      <3>2. /\ Cardinality(kept) <= Cardinality(handler[u].pending)
            /\ Cardinality(kept) \in Nat /\ Cardinality(handler[u].pending) \in Nat
        BY <2>1, <3>1, FS_Subset, FS_CardinalityType
      <3> QED
        BY <1>t, <3>2
    <2>3. WorkflowTypeOK
      BY DEF Typed, TypeOK
    <2> DEFINE first == [NoActivity EXCEPT !.n = 1, !.at = "SUBMIT"]
    <2>4. PICK upto \in Nat, started \in SUBSET OpsOf(u) :
            /\ handler[u].cursor <= upto /\ upto <= Len(Items[u])
            /\ started = {Items[u][i] : i \in handler[u].cursor + 1..upto}
            /\ Cardinality(kept \cup started) <= Window[u]
            /\ handler' = [handler EXCEPT ![u].at = "MAP", ![u].cursor = upto,
                                          ![u].pending = kept \cup started]
            /\ act' = [o \in Operation |-> IF o \in started
                         THEN [NoActivity EXCEPT !.n = 1, !.at = "SUBMIT"] ELSE act[o]]
      BY <1>t, <2>1, <2>2, <2>3, RefillFits
    <2>5. first.n = 1 /\ first.at = "SUBMIT" /\ first.answer = "NONE"
      BY DEF NoActivity
    <2>6. \A o \in Operation : act'[o] = IF o \in started THEN first ELSE act[o]
      BY <2>4
    <2>7. /\ handler'[u].at = "MAP" /\ handler'[u].cursor = upto
          /\ handler'[u].pending = kept \cup started
          /\ \A r \in Root \ {u} : handler'[r] = handler[r]
      BY <2>4 DEF Typed, TypeOK, WorkflowTypeOK
    <2> HIDE DEF first
    <2>8. ASSUME NEW o \in started
          PROVE  /\ o \in Operation /\ RootOf[o] = u /\ act[o].at = "NONE"
                 /\ \E i \in DOMAIN Items[u] : i <= upto /\ o = Items[u][i]
      <3>1. PICK i \in handler[u].cursor + 1..upto : o = Items[u][i]
        BY <2>4
      <3>2. i \in DOMAIN Items[u] /\ i > handler[u].cursor /\ i <= upto
        BY <1>t, <1>m, <2>4, <3>1
      <3>3. act[o].at = "NONE"
        BY <1>i, <3>1, <3>2 DEF Mapped
      <3> QED
        BY <2>4, <3>1, <3>2, <3>3 DEF OpsOf
    <2>9. ASSUME NEW o \in Operation PROVE Heard(o)'
      <3>1. Heard(o)
        BY <1>i
      <3>2. CASE o \notin started
        <4>1. act'[o] = act[o]
          BY <2>6, <3>2
        <4> QED
          BY <2>1, <3>1, <4>1 DEF Heard
      <3>3. CASE o \in started
        <4>1. act'[o] = first
          BY <2>6, <3>3
        <4>2. ASSUME NEW t \in bindings, t[1] = o PROVE FALSE
          <5>1. t[2] \in Nat /\ t[2] >= 1
            <6>1. t \in Operation \X (1..MaxStarts)
              BY <1>t DEF Token
            <6> QED
              BY <6>1
          <5>2. act[o].n = 0
            BY <2>8, <3>1, <3>3 DEF Heard, NoActivity
          <5> QED
            BY <3>1, <4>2, <5>1, <5>2 DEF Heard
        <4> QED
          BY <2>1, <2>5, <4>1, <4>2 DEF Heard
      <3> QED
        BY <3>2, <3>3
    <2>10. ASSUME NEW r \in Root, r # u PROVE Mapped(r)'
      <3>1. Mapped(r) /\ handler'[r] = handler[r] /\ flow'[r] = flow[r]
        BY <1>i, <2>1, <2>7, <2>10
      <3>2. \A o \in OpsOf(r) : act'[o] = act[o] /\ op'[o] = op[o]
        BY <2>1, <2>6, <2>8, <2>10 DEF OpsOf
      <3>3. \A n \in DOMAIN Items[r] : n > handler'[r].cursor => act'[Items[r][n]].at = "NONE"
        BY <1>m, <3>1, <3>2 DEF Mapped
      <3>4. \A o \in handler'[r].pending : RootOf[o] = r /\ act'[o].at # "NONE"
        BY <1>t, <3>1, <3>2 DEF Mapped, OpsOf
      <3>5. handler'[r].at = "MAP" => \A o \in OpsOf(r) :
              op'[o] = "PENDING" \/ act'[o].at \in Started => o \in handler'[r].pending
        BY <3>1, <3>2 DEF Mapped
      <3> QED
        BY <3>1, <3>3, <3>4, <3>5 DEF Mapped, OpsOf
    <2>11. Mapped(u)'
      <3>1. Mapped(u)
        BY <1>i
      <3>2. flow'[u] # "NONE" /\ handler'[u].at # "NONE"
        BY <2>1, <2>7
      <3>3. ASSUME NEW n \in DOMAIN Items[u], n > handler'[u].cursor
            PROVE  act'[Items[u][n]].at = "NONE"
        <4>1. n > upto /\ n > handler[u].cursor
          BY <1>t, <1>m, <2>4, <2>7, <3>3
        <4>2. Items[u][n] \notin started
          BY <1>m, <2>8, <4>1
        <4> QED
          BY <1>m, <2>6, <3>1, <4>1, <4>2 DEF Mapped
      <3>4. \A o \in handler'[u].pending : RootOf[o] = u /\ act'[o].at # "NONE"
        BY <1>t, <2>1, <2>5, <2>6, <2>7, <2>8, <3>1 DEF Mapped
      <3>5. ASSUME NEW o \in OpsOf(u), op'[o] = "PENDING" \/ act'[o].at \in Started
            PROVE  o \in handler'[u].pending
        <4> SUFFICES ASSUME o \notin started PROVE o \in kept
          BY <2>7
        <4>1. o \in Operation /\ act'[o] = act[o] /\ op'[o] = op[o]
          BY <2>1, <2>6 DEF OpsOf
        <4>2. Heard(o) /\ (op[o] = "PENDING" \/ act[o].at \in Started)
          BY <1>i, <3>5, <4>1
        <4>3. CASE handler[u].at = "MAP"
          <5>1. o \in handler[u].pending
            BY <3>1, <4>2, <4>3 DEF Mapped
          <5>2. ASSUME o \notin kept PROVE FALSE
            <6>1. act[o].at = "DONE" /\ act[o].answer = "SUCCEEDED"
              BY <2>1, <4>3, <5>1, <5>2
            <6> QED
              BY <4>2, <6>1 DEF Heard
          <5> QED
            BY <5>2
        <4>4. CASE handler[u].at = "NONE"
          <5>1. PICK n \in DOMAIN Items[u] : o = Items[u][n]
            BY <1>m
          <5>2. act[o].at = "NONE"
            <6>1. n > handler[u].cursor
              BY <1>m, <3>1, <4>4, <5>1 DEF Mapped
            <6> QED
              BY <3>1, <5>1, <6>1 DEF Mapped
          <5> QED
            BY <4>2, <5>2 DEF Heard
        <4> QED
          BY <2>1, <4>3, <4>4
      <3> QED
        BY <3>2, <3>3, <3>4, <3>5 DEF Mapped, OpsOf
    <2> QED
      BY <2>9, <2>10, <2>11 DEF Followed
  <1> QED
    BY <1>1, <1>2, ActMoves

-----------------------------------------------------------------------------
(* Deliveries, ends and failed batches.                                    *)

\* An attempt with a binding that is not waited for will not be.
LEMMA WaitsMoves ==
  ASSUME Typed, Followed, Next, NEW t \in bindings, Waits(t)'
  PROVE  Waits(t)
  <1> DEFINE o == t[1]
  <1>1. o \in Operation /\ t[2] \in Nat /\ t[2] >= 1 /\ RootOf[o] \in Root
    <2>1. t \in Operation \X (1..MaxStarts)
      BY DEF Typed, TypeOK, WorkflowTypeOK, OutboxTypeOK, Token
    <2> QED
      BY <2>1, OutboxAssumption
  <1>2. act'[o].n = t[2] /\ act'[o].at \in Started /\ flow'[RootOf[o]] = "RUNNING"
    BY DEF Waits
  <1>3. Heard(o) /\ Mapped(RootOf[o]) /\ FlowStep(RootOf[o])
    BY <1>1, FlowMoves DEF Followed
  <1>4. act[o].n \in Nat
    BY <1>1, OutboxAssumption DEF Typed, TypeOK, WorkflowTypeOK, OutboxTypeOK
  <1>5. t[2] <= act[o].n
    BY <1>3 DEF Heard
  <1>6. act[o].at # "NONE"
    BY <1>1, <1>3, <1>5 DEF Heard, NoActivity
  <1>7. act[o].at \in Started /\ act[o].n <= act'[o].n
    <2>1. CASE ActKeeps(o)
      BY <1>2, <1>4, <2>1 DEF ActKeeps
    <2>2. ASSUME NEW r \in Root, NEW kept, Refills(r, kept)
          PROVE  act[o].at \in Started /\ act[o].n <= act'[o].n
      <3>1. kept \in SUBSET Operation /\ Cardinality(kept) <= Window[r]
        <4>1. /\ handler[r].pending \in SUBSET Operation
              /\ Cardinality(handler[r].pending) <= Window[r] /\ Window[r] \in Nat
          BY WorkflowAssumption DEF Typed, TypeOK, WorkflowTypeOK
        <4>2. kept \subseteq handler[r].pending
          BY <2>2 DEF Refills
        <4>3. IsFiniteSet(handler[r].pending)
          BY <4>1, OutboxAssumption, FS_Subset
        <4>4. /\ Cardinality(kept) <= Cardinality(handler[r].pending)
              /\ Cardinality(kept) \in Nat /\ Cardinality(handler[r].pending) \in Nat
          BY <4>2, <4>3, FS_Subset, FS_CardinalityType
        <4> QED
          BY <4>1, <4>2, <4>4
      <3>2. WorkflowTypeOK /\ handler[r].cursor <= Len(Items[r]) /\ Refill(r, kept)
        BY <2>2 DEF Typed, TypeOK, Refills
      <3>3. PICK upto \in Nat, started \in SUBSET OpsOf(r) :
              /\ handler[r].cursor <= upto /\ upto <= Len(Items[r])
              /\ started = {Items[r][i] : i \in handler[r].cursor + 1..upto}
              /\ Cardinality(kept \cup started) <= Window[r]
              /\ handler' = [handler EXCEPT ![r].at = "MAP", ![r].cursor = upto,
                                            ![r].pending = kept \cup started]
              /\ act' = [u \in Operation |-> IF u \in started
                           THEN [NoActivity EXCEPT !.n = 1, !.at = "SUBMIT"] ELSE act[u]]
        BY <3>1, <3>2, RefillFits
      <3>4. o \notin started
        <4>1. handler[r].cursor \in Nat /\ Items[r] \in Seq(Operation) /\ Mapped(r)
          BY WorkflowAssumption DEF Typed, TypeOK, WorkflowTypeOK, Followed
        <4>2. \A i \in handler[r].cursor + 1..upto : i \in DOMAIN Items[r] /\ i > handler[r].cursor
          BY <3>3, <4>1
        <4> QED
          BY <1>6, <3>3, <4>1, <4>2 DEF Mapped
      <3>5. act'[o] = act[o]
        BY <1>1, <3>3, <3>4
      <3> QED
        BY <1>2, <1>4, <3>5
    <2> QED
      BY <1>1, <2>1, <2>2, ActMoves
  <1>8. flow[RootOf[o]] = "RUNNING"
    <2>1. CASE flow[RootOf[o]] = "NONE"
      <3>1. handler[RootOf[o]].cursor = 0
        BY <1>3, <2>1 DEF Mapped
      <3>2. PICK n \in DOMAIN Items[RootOf[o]] : o = Items[RootOf[o]][n]
        <4>1. o \in ToSet(Items[RootOf[o]])
          BY <1>1, WorkflowAssumption DEF OpsOf
        <4> QED
          BY <4>1 DEF ToSet
      <3>3. n > 0
        BY <1>1, WorkflowAssumption
      <3> QED
        BY <1>3, <1>6, <3>1, <3>2, <3>3 DEF Mapped
    <2> QED
      BY <1>2, <1>3, <2>1 DEF FlowStep
  <1>9. act[o].n = t[2]
    BY <1>1, <1>2, <1>4, <1>5, <1>7
  <1> QED
    BY <1>7, <1>8, <1>9 DEF Waits

LEMMA HandledStays ==
  ASSUME Typed, Submitted, Followed, Delivered, Next, NEW e \in DOMAIN outbox, Handled(e)
  PROVE  Handled(e)'
  <1>1. e \in Event
    BY DEF Typed, TypeOK, WorkflowTypeOK, OutboxTypeOK
  <1>2. ASSUME e[1] = "start_workflow" PROVE flow'[e[2]] # "NONE" \/ root'[e[2]] \in RootFinal
    <2>1. e[2] \in Root
      <3>1. \/ e \in {"start_workflow", "cancel_workflow"} \X Root
            \/ e \in {"complete_activity"} \X Token
        BY <1>1 DEF Event
      <3> QED
        BY <1>2, <3>1
    <2>2. flow[e[2]] # "NONE" \/ root[e[2]] \in RootFinal
      BY <1>2 DEF Handled
    <2>3. RootStep(e[2]) /\ FlowStep(e[2])
      BY <2>1, RootMoves, FlowMoves
    <2> QED
      BY <2>2, <2>3 DEF RootStep, FlowStep
  <1>3. e[1] = "cancel_workflow" => e[2] \in asked'
    BY Grows DEF Handled
  <1>4. e[1] = "complete_activity" => ~Waits(e[2])'
    BY WaitsMoves DEF Handled, Delivered
  <1> QED
    BY <1>2, <1>3, <1>4 DEF Handled

LEMMA DeliveredStep ==
  ASSUME Typed, Submitted, Followed, Delivered, Next
  PROVE  Delivered'
  <1>1. \A e \in DOMAIN outbox' : e[1] = "complete_activity" => e[2] \in bindings'
    BY EventMoves, Grows DEF Delivered
  <1>2. ASSUME NEW e \in DOMAIN outbox, \E p \in Publisher : On(p, e, "ACK")'
        PROVE  Handled(e)'
    <2>1. PICK p \in Publisher : e \in DOMAIN task'[p] /\ task'[p][e] = "ACK"
      BY <1>2 DEF On
    <2>2. CASE On(p, e, "ACK")
      BY <2>2, HandledStays DEF Delivered
    <2>3. ASSUME NEW r \in Root, e = <<"start_workflow", r>>, DeliverStart(p, r)
          PROVE  Handled(e)'
      <3>1. flow'[r] # "NONE" \/ root'[r] \in RootFinal
        <4>1. /\ root \in [Root -> {"ABSENT", "RUNNING"} \cup RootFinal]
              /\ flow \in [Root -> {"NONE", "RUNNING"} \cup FlowClosed] /\ root[r] # "ABSENT"
          BY <2>3 DEF Typed, TypeOK, WorkflowTypeOK, OutboxTypeOK, Submitted
        <4>2. CASE r \in late
          BY <2>3, <4>1, <4>2 DEF DeliverStart, EndRoot
        <4>3. CASE r \notin late
          BY <2>3, <4>1, <4>3 DEF DeliverStart, StartWorkflow
        <4> QED
          BY <4>2, <4>3
      <3>2. e[1] = "start_workflow" /\ e[2] = r
        BY <2>3
      <3> QED
        BY <3>1, <3>2 DEF Handled
    <2>4. ASSUME NEW r \in Root, e = <<"cancel_workflow", r>>, r \in asked'
          PROVE  Handled(e)'
      BY <2>4 DEF Handled
    <2>5. ASSUME NEW t \in bindings, e = <<"complete_activity", t>>, op[t[1]] \in OpFinal,
                 DeliverCompletion(p, t)
          PROVE  Handled(e)'
      <3>1. ~ Waits(t)'
        <4>1. CASE Waits(t)
          <5>1. t[1] \in Operation
            <6>1. t \in Operation \X (1..MaxStarts)
              BY DEF Typed, TypeOK, WorkflowTypeOK, OutboxTypeOK, Token
            <6> QED
              BY <6>1
          <5>2. Answered(t[1], op[t[1]])
            BY <2>5, <4>1 DEF DeliverCompletion
          <5>3. act'[t[1]].at = "DONE"
            BY <5>1, <5>2 DEF Answered, Typed, TypeOK, WorkflowTypeOK, OutboxTypeOK
          <5> QED
            BY <5>3 DEF Waits
        <4>2. CASE ~ Waits(t)
          BY <4>2, WaitsMoves
        <4> QED
          BY <4>1, <4>2
      <3>2. e[1] = "complete_activity" /\ e[2] = t
        BY <2>5
      <3> QED
        BY <3>1, <3>2 DEF Handled
    <2> QED
      BY <2>1, <2>2, <2>3, <2>4, <2>5, AckMoves
  <1>3. ASSUME NEW e \in DOMAIN outbox', NEW p \in Publisher, On(p, e, "ACK")'
        PROVE  e \in DOMAIN outbox
    <2>1. e \in DOMAIN task'[p] /\ task'[p][e] = "ACK"
      BY <1>3 DEF On
    <2>2. DOMAIN task[p] \subseteq DOMAIN outbox
      BY DEF Typed, TypeOK, WorkflowTypeOK, OutboxTypeOK
    <2>4. CASE On(p, e, "ACK")
      BY <2>2, <2>4 DEF On
    <2>5. CASE ~ On(p, e, "ACK")
      <3>1. \/ \E r \in Root : e = <<"start_workflow", r>> /\ DeliverStart(p, r)
            \/ \E r \in Root : e = <<"cancel_workflow", r>> /\ e \in DOMAIN task[p]
            \/ \E t \in bindings : e = <<"complete_activity", t>> /\ DeliverCompletion(p, t)
        BY <2>1, <2>5, AckMoves
      <3> QED
        BY <2>2, <3>1 DEF DeliverStart, DeliverCompletion, On
    <2> QED
      BY <2>4, <2>5
  <1>4. ASSUME NEW e \in DOMAIN outbox',
               outbox'[e].state = "DELIVERED" \/ (\E p \in Publisher : On(p, e, "ACK")')
        PROVE  Handled(e)'
    <2>1. CASE \E p \in Publisher : On(p, e, "ACK")'
      BY <1>2, <1>3, <2>1
    <2>2. CASE outbox'[e].state = "DELIVERED"
      <3>1. e \in DOMAIN outbox /\ Handled(e)
        BY <2>2, EventMoves DEF Delivered
      <3> QED
        BY <3>1, HandledStays
    <2> QED
      BY <1>4, <2>1, <2>2
  <1> QED
    BY <1>1, <1>4 DEF Delivered

LEMMA ConfirmedStep ==
  ASSUME Typed, Submitted, Next, NEW r \in Root, Confirmed(r)
  PROVE  Confirmed(r)'
  <1>1. RootStep(r) /\ FlowStep(r) /\ FinStep(r)
    BY RootMoves, FlowMoves, FinMoves
  <1>2. r \in overwritten => r \in overwritten'
    BY Grows
  <1>3. ASSUME fin'[r].at = "OK", fin'[r].state \in {"SUCCEEDED", "PARTIAL"}
        PROVE  root'[r] = fin'[r].state \/ r \in overwritten'
    BY <1>1, <1>2, <1>3 DEF Confirmed, RootStep, FinStep
  <1>4. ASSUME flow'[r] = "COMPLETED"
        PROVE  fin'[r].at = "OK" /\ fin'[r].state \in {"SUCCEEDED", "PARTIAL"}
    <2>1. CASE flow[r] = "COMPLETED"
      BY <1>1, <2>1 DEF Confirmed, FinStep
    <2>2. CASE flow[r] # "COMPLETED"
      BY <1>1, <1>4, <2>2 DEF FlowStep
    <2> QED
      BY <2>1, <2>2
  <1> QED
    BY <1>3, <1>4 DEF Confirmed

LEMMA FailedStep ==
  ASSUME Typed, Submitted, Next, NEW b \in Batches, Failed(b)
  PROVE  Failed(b)'
  <1>t. b \in Root /\ batch \in [Batches -> {"ABSENT", "PREPARING", "SUBMITTED", "FAILED"}]
    BY BufferingAssumption DEF Batches, Typed, TypeOK
  <1>1. RootStep(b) /\ late \subseteq late'
    BY <1>t, RootMoves, Grows
  <1>2. CASE batch[b] = "FAILED"
    BY <1>1, <1>2 DEF Failed, RootStep
  <1>3. ASSUME batch[b] # "FAILED", batch'[b] = "FAILED"
        PROVE  b \in late' /\ root'[b] \notin {"SUCCEEDED", "PARTIAL"}
    <2>1. \/ batch' = batch
          \/ \E p \in Publisher : Seal(p) \/ MarkBatch(p) \/ DeferBatch(p)
      BY BufferChanges DEF BufferStep, Accept, FallsDue, Dispatch, SubmitBatch, InsertBatch,
         DispatchFails, PumpStops, byPump, bufferVars
    <2>2. ASSUME NEW p \in Publisher, Seal(p) PROVE FALSE
      BY <1>3, <2>2 DEF Seal, SealWith
    <2>3. ASSUME NEW p \in Publisher, MarkBatch(p) PROVE FALSE
      BY <1>t, <1>3, <2>3 DEF MarkBatch
    <2>4. ASSUME NEW p \in Publisher, DeferBatch(p)
          PROVE  b \in late' /\ root'[b] \notin {"SUCCEEDED", "PARTIAL"}
      BY <1>t, <1>3, <2>4 DEF DeferBatch, byPump
    <2> QED
      BY <1>3, <2>1, <2>2, <2>3, <2>4
  <1> QED
    BY <1>2, <1>3 DEF Failed

LEMMA DeliveryInvStep == DeliveryInv /\ Next => DeliveryInv'
  <1> SUFFICES ASSUME DeliveryInv, Next PROVE DeliveryInv'
    OBVIOUS
  <1> USE DEF DeliveryInv
  <1>1. Typed' /\ Submitted' /\ Followed' /\ Delivered'
    BY TypedStep, SubmittedStep, FollowedStep, DeliveredStep
  <1>2. (\A r \in Root : Confirmed(r))'
    BY ConfirmedStep
  <1>3. (\A b \in Batches : Failed(b))'
    BY FailedStep DEF Batches
  <1> QED
    BY <1>1, <1>2, <1>3

LEMMA DeliveryInvInit == Init => DeliveryInv
  <1> SUFFICES ASSUME Init PROVE DeliveryInv
    OBVIOUS
  <1>1. Typed
    BY TypedInit
  <1> USE DEF Init, WorkflowInit, OutboxInit
  <1>2. Submitted
    BY DEF Submitted, NoFinish, Resting
  <1>3. Followed
    <2>1. \A r \in Root : handler[r] = NoHandler /\ Items[r] \in Seq(Operation)
      BY WorkflowAssumption
    <2>2. \A r \in Root : \A n \in DOMAIN Items[r] : act[Items[r][n]] = NoActivity
      BY <2>1
    <2>3. \A r \in Root : Mapped(r)
      BY <2>1, <2>2 DEF Mapped, NoHandler, NoActivity
    <2>4. \A o \in Operation : Heard(o)
      BY DEF Heard, NoActivity
    <2> QED
      BY <2>3, <2>4 DEF Followed
  <1>4. Delivered
    BY DEF Delivered
  <1>5. \A r \in Root : Confirmed(r)
    BY DEF Confirmed, NoFinish
  <1>6. \A b \in Batches : Failed(b)
    BY DEF Failed
  <1> QED
    BY <1>1, <1>2, <1>3, <1>4, <1>5, <1>6 DEF DeliveryInv

LEMMA DeliveryInvStutters == DeliveryInv /\ UNCHANGED vars => DeliveryInv'
  <1> SUFFICES ASSUME DeliveryInv, UNCHANGED vars PROVE DeliveryInv'
    OBVIOUS
  <1> USE DEF vars, workflowVars, outboxVars, bufferVars, ledger, temporal
  <1>1. Typed'
    BY TypedStutters DEF DeliveryInv
  <1>2. Submitted'
    BY DEF DeliveryInv, Submitted
  <1>3. Followed'
    BY DEF DeliveryInv, Followed, Mapped, Heard
  <1>4. Delivered'
    BY DEF DeliveryInv, Delivered, Handled, On, Waits
  <1>5. (\A r \in Root : Confirmed(r))' /\ (\A b \in Batches : Failed(b))'
    BY DEF DeliveryInv, Confirmed, Failed
  <1> QED
    BY <1>1, <1>2, <1>3, <1>4, <1>5 DEF DeliveryInv

LEMMA DeliveryInvariant == Spec => []DeliveryInv
  BY DeliveryInvInit, DeliveryInvStep, DeliveryInvStutters, PTL DEF Spec

-----------------------------------------------------------------------------
(* The invariants of the runs.                                             *)

\* An event that is marked delivered has been: no lease that lapsed, acknowledgement
\* that was lost, crash or repetition hides one that was not.
THEOREM DeliveredEventsAreDone == Spec => []DeliveredIsDone
  <1>1. DeliveryInv => DeliveredIsDone
    <2> SUFFICES ASSUME DeliveryInv, NEW e \in DOMAIN outbox, outbox[e].state = "DELIVERED"
                 PROVE  CASE e[1] = "start_workflow" -> flow[e[2]] # "NONE" \/ root[e[2]] \in RootFinal
                          [] e[1] = "cancel_workflow" -> e[2] \in asked
                          [] e[1] = "complete_activity" -> ~Waits(e[2])
      BY DEF DeliveredIsDone
    <2>1. Handled(e)
      BY DEF DeliveryInv, Delivered
    <2>2. e[1] \in {"start_workflow", "cancel_workflow", "complete_activity"}
      <3>1. e \in Event
        BY DEF DeliveryInv, Typed, TypeOK, WorkflowTypeOK, OutboxTypeOK
      <3>2. \/ e \in {"start_workflow", "cancel_workflow"} \X Root
            \/ e \in {"complete_activity"} \X Token
        BY <3>1 DEF Event
      <3> QED
        BY <3>2
    <2> QED
      BY <2>1, <2>2 DEF Handled
  <1> QED
    BY <1>1, DeliveryInvariant, PTL

\* A workflow is told of an operation what the ledger decided, by whatever attempt,
\* token or repetition of its event it is told.
THEOREM WorkflowsHearTheLedger == Spec => []AnswerIsLedger
  <1>1. DeliveryInv => AnswerIsLedger
    BY DEF DeliveryInv, Followed, Heard, AnswerIsLedger
  <1> QED
    BY <1>1, DeliveryInvariant, PTL

\* A completed workflow has the state of its run, unless another end overwrote that.
THEOREM CompletedIsAccepted == Spec => []SuccessIsAccepted
  <1>1. DeliveryInv => SuccessIsAccepted
    BY DEF DeliveryInv, Confirmed, SuccessIsAccepted
  <1> QED
    BY <1>1, DeliveryInvariant, PTL

\* A run has no more operations pending than map_children's window has room for.
THEOREM WindowIsKept == Spec => []WindowBoundsLedger
  <1>1. DeliveryInv => WindowBoundsLedger
    <2> SUFFICES ASSUME DeliveryInv, NEW r \in Root, InFlight(r)
                 PROVE  Cardinality(Pending(OpsOf(r))) <= Window[r]
      BY DEF WindowBoundsLedger
    <2>1. /\ handler[r].pending \in SUBSET Operation /\ Window[r] \in Nat
          /\ Cardinality(handler[r].pending) <= Window[r]
      BY WorkflowAssumption DEF DeliveryInv, Typed, TypeOK, WorkflowTypeOK
    <2>2. Pending(OpsOf(r)) \subseteq handler[r].pending
      BY DEF DeliveryInv, Followed, Mapped, InFlight, Pending
    <2>3. IsFiniteSet(handler[r].pending)
      BY <2>1, OutboxAssumption, FS_Subset
    <2>4. /\ Cardinality(Pending(OpsOf(r))) <= Cardinality(handler[r].pending)
          /\ Cardinality(Pending(OpsOf(r))) \in Nat /\ Cardinality(handler[r].pending) \in Nat
      BY <2>2, <2>3, FS_Subset, FS_CardinalityType
    <2> QED
      BY <2>1, <2>4
  <1> QED
    BY <1>1, DeliveryInvariant, PTL

\* A batch that is reported FAILED is in no run that succeeds.
THEOREM FailedBatchesFail == Spec => []FailedIsFailed
  <1>1. DeliveryInv => FailedIsFailed
    BY DEF DeliveryInv, Failed, FailedIsFailed
  <1> QED
    BY <1>1, DeliveryInvariant, PTL

-----------------------------------------------------------------------------
(* Batches of buffered inputs.                                             *)

\* A batch has been sealed with the item that it starts with.
Opened(i) ==
  batchOf[i] # None =>
    /\ i \in ToSet(queue) /\ batch[batchOf[i]] # "ABSENT"
    /\ \A j \in Item : BatchOf[j] = batchOf[i] => batchOf[j] = batchOf[i]

\* An item of a batch is preceded, in its partition, by those of the same batch and
\* of batches that have come to their ends.
Ordered(i, j) ==
  Older(i, j) /\ PartitionOf[i] = PartitionOf[j] /\ batchOf[j] # None =>
    batchOf[i] # None /\ (batchOf[i] # batchOf[j] => ~Occupied(batchOf[i]))

BatchInv ==
  /\ DeliveryInv
  /\ \A i \in Item : Opened(i)
  /\ \A i, j \in Item : Ordered(i, j)

\* Acceptance orders the items.
LEMMA OlderOrders ==
  ASSUME Typed
  PROVE  /\ \A i, j \in ToSet(queue) : i # j => Older(i, j) \/ Older(j, i)
         /\ \A i, j, k : Older(i, j) /\ Older(j, k) => Older(i, k)
         /\ \A i, j : Older(i, j) => i # j /\ i \in ToSet(queue) /\ j \in ToSet(queue)
         /\ IsFiniteSet(ToSet(queue)) /\ ToSet(queue) \subseteq Item
  <1>1. /\ queue \in Seq(Item) /\ DOMAIN queue = 1..Len(queue) /\ Len(queue) \in Nat
        /\ \A m, n \in DOMAIN queue : queue[m] = queue[n] => m = n
    BY DEF Typed, TypeOK, IsInjective
  <1>2. \A i, j \in ToSet(queue) : i # j => Older(i, j) \/ Older(j, i)
    BY <1>1 DEF ToSet, Older
  <1>3. \A i, j, k : Older(i, j) /\ Older(j, k) => Older(i, k)
    <2> SUFFICES ASSUME NEW i, NEW j, NEW k, Older(i, j), Older(j, k) PROVE Older(i, k)
      OBVIOUS
    <2>1. PICK m, n \in DOMAIN queue : m < n /\ queue[m] = i /\ queue[n] = j
      BY DEF Older
    <2>2. PICK x, y \in DOMAIN queue : x < y /\ queue[x] = j /\ queue[y] = k
      BY DEF Older
    <2>3. n = x
      BY <1>1, <2>1, <2>2
    <2>4. m < y
      BY <1>1, <2>1, <2>2, <2>3
    <2> QED
      BY <2>1, <2>2, <2>4 DEF Older
  <1>4. \A i, j : Older(i, j) => i # j /\ i \in ToSet(queue) /\ j \in ToSet(queue)
    BY <1>1 DEF Older, ToSet
  <1>5. IsFiniteSet(ToSet(queue))
    <2>1. IsFiniteSet(1..Len(queue))
      BY <1>1, FS_Interval
    <2>2. queue \in Surjection(1..Len(queue), ToSet(queue))
      BY <1>1 DEF Surjection, ToSet
    <2> QED
      BY <2>1, <2>2, FS_Surjection
  <1>6. ToSet(queue) \subseteq Item
    BY <1>1 DEF ToSet
  <1> QED
    BY <1>2, <1>3, <1>4, <1>5, <1>6

\* A partition has one first item; what is selected after it is all that waits in
\* front of any of it.
LEMMA SelectedIsPrefix ==
  ASSUME Typed
  PROVE  /\ \A i \in Firsts : i \in Item /\ Unbatched(i) /\ i \in Selected(i)
         /\ \A i, k \in Firsts : PartitionOf[i] = PartitionOf[k] => i = k
         /\ \A i \in Firsts : \A j \in Selected(i) :
              /\ j \in ToSet(queue) /\ PartitionOf[j] = PartitionOf[i] /\ Unbatched(j)
              /\ \A k : Older(k, j) /\ PartitionOf[k] = PartitionOf[j] /\ batchOf[k] = None =>
                   k \in Selected(i)
  <1>1. ASSUME NEW i \in Firsts
        PROVE  i \in Item /\ i \in ToSet(queue) /\ Unbatched(i) /\ UpTo(i) = {i} /\ i \in Selected(i)
    <2>1. Unbatched(i) /\ UpTo(i) = {i}
      BY DEF Firsts
    <2>2. i \in ToSet(queue)
      BY <2>1 DEF Unbatched
    <2>3. Cardinality({i}) = 1 /\ 1 <= BatchSize
      BY FS_Singleton, BufferingAssumption
    <2>4. i \in Selected(i)
      BY <2>1, <2>2, <2>3 DEF Selected, Neighbours
    <2> QED
      BY <2>1, <2>2, <2>4, OlderOrders
  <1>2. ASSUME NEW i \in Firsts, NEW k \in Firsts, PartitionOf[i] = PartitionOf[k], Older(i, k)
        PROVE  FALSE
    <2>1. i \in UpTo(k)
      BY <1>1, <1>2 DEF UpTo, Neighbours
    <2> QED
      BY <1>1, <1>2, <2>1, OlderOrders
  <1>3. ASSUME NEW i \in Firsts, NEW j \in Selected(i)
        PROVE  /\ j \in ToSet(queue) /\ PartitionOf[j] = PartitionOf[i] /\ Unbatched(j)
               /\ Cardinality(UpTo(j)) <= BatchSize
               /\ \A x \in UpTo(j) : KindOf[x] = KindOf[i]
    BY DEF Selected, Neighbours
  <1>4. ASSUME NEW i \in Firsts, NEW j \in Selected(i), NEW k, Older(k, j),
               PartitionOf[k] = PartitionOf[j], batchOf[k] = None
        PROVE  k \in Selected(i)
    <2>1. k \in ToSet(queue) /\ Unbatched(k) /\ k \in Neighbours(i)
      BY <1>3, <1>4, OlderOrders DEF Unbatched, Neighbours
    <2>2. UpTo(k) \subseteq UpTo(j)
      BY <1>3, <1>4, OlderOrders DEF UpTo, Neighbours
    <2>3. IsFiniteSet(UpTo(j))
      BY OlderOrders, FS_Subset DEF UpTo, Neighbours
    <2>4. /\ Cardinality(UpTo(k)) <= Cardinality(UpTo(j))
          /\ Cardinality(UpTo(k)) \in Nat /\ Cardinality(UpTo(j)) \in Nat
      BY <2>2, <2>3, FS_Subset, FS_CardinalityType
    <2>5. Cardinality(UpTo(k)) <= BatchSize
      BY <1>3, <2>4, BufferingAssumption
    <2> QED
      BY <1>3, <2>1, <2>2, <2>5 DEF Selected
  <1> QED
    BY <1>1, <1>2, <1>3, <1>4, OlderOrders

\* A batch that has come to its end does not come back.
LEMMA EndedStays ==
  ASSUME DeliveryInv, Next, NEW b \in Batches, ~Occupied(b), batch[b] # "ABSENT",
         ~ \E p \in Publisher : Seal(p)
  PROVE  ~Occupied(b)'
  <1>t. b \in Root /\ batch \in [Batches -> {"ABSENT", "PREPARING", "SUBMITTED", "FAILED"}]
        /\ root \in [Root -> {"ABSENT", "RUNNING"} \cup RootFinal]
    BY BufferingAssumption DEF Batches, DeliveryInv, Typed, TypeOK, WorkflowTypeOK, OutboxTypeOK
  <1>1. batch[b] = "FAILED" \/ (batch[b] = "SUBMITTED" /\ root[b] \in RootFinal)
    BY <1>t DEF Occupied
  <1>2. batch'[b] = batch[b]
    <2>1. batch' = batch \/ \E p \in Publisher : MarkBatch(p) \/ DeferBatch(p)
      BY BufferChanges DEF BufferStep, Accept, FallsDue, Dispatch, SubmitBatch, InsertBatch,
         DispatchFails, PumpStops, byPump, bufferVars
    <2>2. ASSUME NEW p \in Publisher, MarkBatch(p) \/ DeferBatch(p) PROVE batch'[b] = batch[b]
      BY <1>t, <1>1, <2>2 DEF MarkBatch, DeferBatch
    <2> QED
      BY <2>1, <2>2
  <1>3. root[b] \in RootFinal => root'[b] \in RootFinal
    BY <1>t, RootMoves DEF DeliveryInv, RootStep
  <1> QED
    BY <1>1, <1>2, <1>3 DEF Occupied

LEMMA BatchInvStep == BatchInv /\ Next => BatchInv'
  <1> SUFFICES ASSUME BatchInv, Next PROVE BatchInv'
    OBVIOUS
  <1>t. /\ DeliveryInv /\ Typed /\ queue \in Seq(Item) /\ ToSet(queue) \subseteq Item
        /\ batchOf \in [Item -> Batches \cup {None}]
        /\ batch \in [Batches -> {"ABSENT", "PREPARING", "SUBMITTED", "FAILED"}]
        /\ \A i \in Item : Opened(i)
        /\ \A i, j \in Item : Ordered(i, j)
        /\ None \notin Batches
    BY OlderOrders, BufferingAssumption DEF BatchInv, DeliveryInv, Typed, TypeOK, Batches
  <1>1. DeliveryInv'
    BY DeliveryInvStep DEF BatchInv
  <1>2. ASSUME NEW p \in Publisher, Seal(p)
        PROVE  (\A i \in Item : Opened(i))' /\ (\A i, j \in Item : Ordered(i, j))'
    <2>1. PICK new \in SUBSET Firsts :
            /\ batchOf' = [j \in Item |-> IF \E i \in new : j \in Selected(i)
                             THEN BatchOf[CHOOSE i \in new : j \in Selected(i)] ELSE batchOf[j]]
            /\ batch' = [b \in Batches |-> IF \E i \in new : b = BatchOf[i] THEN "PREPARING"
                                           ELSE batch[b]]
      BY <1>2 DEF Seal, SealWith
    <2>2. queue' = queue /\ root' = root
      BY <1>2 DEF Seal, SealWith, workflowVars, outboxVars, ledger
    \* The first items of the partitions keep their selections apart.
    <2>3. ASSUME NEW i \in new, NEW j \in Selected(i)
          PROVE  /\ j \in Item /\ batchOf[j] = None /\ batchOf'[j] = BatchOf[i]
                 /\ j \in ToSet(queue) /\ PartitionOf[j] = PartitionOf[i]
      <3>1. j \in ToSet(queue) /\ PartitionOf[j] = PartitionOf[i] /\ Unbatched(j)
        BY <1>t, <2>1, SelectedIsPrefix
      <3> DEFINE c == CHOOSE k \in new : j \in Selected(k)
      <3>2. c \in new /\ j \in Selected(c)
        BY <2>3
      <3>3. PartitionOf[j] = PartitionOf[c]
        BY <1>t, <2>1, <3>2, SelectedIsPrefix
      <3>4. c = i
        BY <1>t, <2>1, <3>1, <3>2, <3>3, SelectedIsPrefix
      <3>5. batchOf'[j] = BatchOf[c]
        BY <1>t, <2>1, <3>1
      <3> QED
        BY <1>t, <3>1, <3>4, <3>5 DEF Unbatched
    <2>4. ASSUME NEW j \in Item, ~ \E i \in new : j \in Selected(i)
          PROVE  batchOf'[j] = batchOf[j]
      BY <2>1, <2>4
    <2>5. ASSUME NEW j \in Item, batchOf[j] # None
          PROVE  batchOf'[j] = batchOf[j] /\ batch'[batchOf[j]] = batch[batchOf[j]]
      <3>1. batchOf'[j] = batchOf[j]
        BY <2>3, <2>4, <2>5
      <3>2. ASSUME NEW i \in new, batchOf[j] = BatchOf[i] PROVE FALSE
        <4>1. i \in Item /\ batchOf[i] = None
          BY <1>t, <2>1, SelectedIsPrefix DEF Unbatched
        <4>2. batchOf[i] = batchOf[j]
          BY <1>t, <2>5, <3>2, <4>1 DEF Opened
        <4> QED
          BY <2>5, <4>1, <4>2
      <3>3. batchOf[j] \in Batches
        BY <1>t, <2>5
      <3> QED
        BY <2>1, <3>1, <3>2, <3>3
    <2>6. ASSUME NEW j \in Item PROVE Opened(j)'
      <3>1. CASE batchOf[j] # None
        <4>1. Opened(j) /\ \A k \in Item : batchOf[k] = batchOf[j] => batchOf'[k] = batchOf[k]
          BY <1>t, <2>5, <3>1
        <4> QED
          BY <2>2, <2>5, <3>1, <4>1 DEF Opened
      <3>2. ASSUME NEW i \in new, j \in Selected(i) PROVE Opened(j)'
        <4>1. batchOf'[j] = BatchOf[i] /\ j \in ToSet(queue)
          BY <2>3, <3>2
        <4>2. i \in Item /\ i \in Selected(i)
          BY <1>t, <2>1, SelectedIsPrefix
        <4>3. batch'[BatchOf[i]] = "PREPARING"
          BY <2>1, <4>2 DEF Batches
        <4>4. ASSUME NEW k \in Item, BatchOf[k] = BatchOf[i] PROVE batchOf'[k] = BatchOf[i]
          <5>1. k = i
            BY <4>2, <4>4, BufferingAssumption DEF IsInjective
          <5> QED
            BY <2>3, <4>2, <5>1
        <4> QED
          BY <2>2, <4>1, <4>3, <4>4 DEF Opened
      <3>3. CASE batchOf[j] = None /\ ~ \E i \in new : j \in Selected(i)
        BY <2>4, <3>3 DEF Opened
      <3> QED
        BY <3>1, <3>2, <3>3
    <2>7. ASSUME NEW i \in Item, NEW j \in Item PROVE Ordered(i, j)'
      <3> SUFFICES ASSUME Older(i, j), PartitionOf[i] = PartitionOf[j], batchOf'[j] # None
                   PROVE  batchOf'[i] # None /\ (batchOf'[i] # batchOf'[j] => ~Occupied(batchOf[i])')
        BY <2>2 DEF Ordered, Older
      <3>1. ASSUME NEW k \in Item, batchOf[k] # None, ~Occupied(batchOf[k])
            PROVE  ~Occupied(batchOf[k])'
        BY <2>2, <2>5, <3>1 DEF Occupied
      <3>2. CASE batchOf[j] # None
        <4>1. batchOf[i] # None /\ (batchOf[i] # batchOf[j] => ~Occupied(batchOf[i]))
          BY <1>t, <3>2 DEF Ordered
        <4>2. batchOf'[i] = batchOf[i] /\ batchOf'[j] = batchOf[j]
          BY <2>5, <3>2, <4>1
        <4> QED
          BY <3>1, <4>1, <4>2
      <3>3. ASSUME NEW f \in new, j \in Selected(f)
            PROVE  batchOf'[i] # None /\ (batchOf'[i] # batchOf'[j] => ~Occupied(batchOf[i])')
        <4>1. /\ batchOf'[j] = BatchOf[f] /\ PartitionOf[j] = PartitionOf[f]
              /\ BatchOf[f] # None /\ f \in Firsts
          <5>1. f \in Item /\ f \in Firsts
            BY <2>1, SelectedIsPrefix, <1>t
          <5>2. BatchOf[f] \in Batches
            BY <5>1 DEF Batches
          <5> QED
            BY <1>t, <2>3, <3>3, <5>1, <5>2
        <4>2. CASE batchOf[i] = None
          <5>1. i \in Selected(f)
            BY <1>t, <3>3, <4>1, <4>2, SelectedIsPrefix
          <5>2. batchOf'[i] = BatchOf[f]
            BY <2>3, <5>1
          <5> QED
            BY <4>1, <5>2
        <4>3. CASE batchOf[i] # None
          <5>1. ~Occupied(batchOf[i])
            BY <4>1, <4>3 DEF Firsts
          <5> QED
            BY <2>5, <3>1, <4>3, <5>1
        <4> QED
          BY <4>2, <4>3
      <3> QED
        BY <2>4, <3>2, <3>3
    <2> QED
      BY <2>6, <2>7
  <1>3. ASSUME ~ \E p \in Publisher : Seal(p)
        PROVE  (\A i \in Item : Opened(i))' /\ (\A i, j \in Item : Ordered(i, j))'
    <2>1. batchOf' = batchOf
      BY <1>3, BufferChanges DEF BufferStep, Accept, FallsDue, Dispatch, SubmitBatch, InsertBatch,
         MarkBatch, DeferBatch, DispatchFails, PumpStops, byPump, bufferVars
    <2>2. queue' = queue \/ \E i \in Item : i \notin ToSet(queue) /\ queue' = Append(queue, i)
      BY <1>3, BufferChanges DEF BufferStep, Accept, FallsDue, Dispatch, SubmitBatch, InsertBatch,
         MarkBatch, DeferBatch, DispatchFails, PumpStops, byPump, bufferVars
    <2>3. ASSUME NEW b \in Batches, batch[b] # "ABSENT" PROVE batch'[b] # "ABSENT"
      <3>1. batch' = batch \/ \E p \in Publisher : MarkBatch(p) \/ DeferBatch(p)
        BY <1>3, BufferChanges DEF BufferStep, Accept, FallsDue, Dispatch, SubmitBatch,
           InsertBatch, DispatchFails, PumpStops, byPump, bufferVars
      <3>2. ASSUME NEW p \in Publisher, MarkBatch(p) \/ DeferBatch(p) PROVE batch'[b] # "ABSENT"
        BY <1>t, <2>3, <3>2 DEF MarkBatch, DeferBatch
      <3> QED
        BY <2>3, <3>1, <3>2
    <2>4. /\ ToSet(queue) \subseteq ToSet(queue')
          /\ \A i, j : Older(i, j)' /\ j \in ToSet(queue) => Older(i, j)
      <3>1. CASE queue' = queue
        BY <3>1 DEF Older
      <3>2. ASSUME NEW x \in Item, x \notin ToSet(queue), queue' = Append(queue, x)
            PROVE  /\ ToSet(queue) \subseteq ToSet(queue')
                   /\ \A i, j : Older(i, j)' /\ j \in ToSet(queue) => Older(i, j)
        <4>1. /\ DOMAIN queue = 1..Len(queue) /\ DOMAIN queue' = 1..Len(queue) + 1
              /\ Len(queue) \in Nat /\ queue'[Len(queue) + 1] = x
              /\ \A n \in 1..Len(queue) : queue'[n] = queue[n]
          BY <1>t, <3>2
        <4>2. ToSet(queue) \subseteq ToSet(queue')
          BY <4>1 DEF ToSet
        <4>3. ASSUME NEW i, NEW j, Older(i, j)', j \in ToSet(queue) PROVE Older(i, j)
          <5>1. PICK m, n \in DOMAIN queue' : m < n /\ queue'[m] = i /\ queue'[n] = j
            BY <4>3 DEF Older
          <5>2. n # Len(queue) + 1
            BY <3>2, <4>1, <4>3, <5>1
          <5>3. m \in DOMAIN queue /\ n \in DOMAIN queue
            BY <4>1, <5>1, <5>2
          <5>4. queue[m] = i /\ queue[n] = j
            BY <4>1, <5>1, <5>3
          <5> QED
            BY <5>1, <5>3, <5>4 DEF Older
        <4> QED
          BY <4>2, <4>3
      <3> QED
        BY <2>2, <3>1, <3>2
    <2>5. ASSUME NEW i \in Item PROVE Opened(i)'
      <3>1. Opened(i)
        BY <1>t
      <3>2. batchOf[i] # None => batchOf[i] \in Batches
        BY <1>t
      <3> QED
        BY <2>1, <2>3, <2>4, <3>1, <3>2 DEF Opened
    <2>6. ASSUME NEW i \in Item, NEW j \in Item PROVE Ordered(i, j)'
      <3> SUFFICES ASSUME Older(i, j)', PartitionOf[i] = PartitionOf[j], batchOf[j] # None
                   PROVE  batchOf[i] # None /\ (batchOf[i] # batchOf[j] => ~Occupied(batchOf[i])')
        BY <2>1 DEF Ordered
      <3>1. j \in ToSet(queue)
        BY <1>t DEF Opened
      <3>2. batchOf[i] # None /\ (batchOf[i] # batchOf[j] => ~Occupied(batchOf[i]))
        BY <1>t, <2>4, <3>1 DEF Ordered
      <3>3. batchOf[i] \in Batches /\ batch[batchOf[i]] # "ABSENT"
        BY <1>t, <3>2 DEF Opened
      <3>4. \A b \in Batches : ~Occupied(b) /\ batch[b] # "ABSENT" => ~Occupied(b)'
        BY <1>3, <1>t, EndedStays
      <3>5. ASSUME ~Occupied(batchOf[i]) PROVE ~Occupied(batchOf[i])'
        BY <2>1, <3>3, <3>4, <3>5
      <3> QED
        BY <3>2, <3>5
    <2> QED
      BY <2>5, <2>6
  <1> QED
    BY <1>1, <1>2, <1>3 DEF BatchInv

LEMMA BatchInvariant == Spec => []BatchInv
  <1>1. Init => BatchInv
    <2> SUFFICES ASSUME Init PROVE BatchInv
      OBVIOUS
    <2>1. DeliveryInv
      BY DeliveryInvInit
    <2>2. \A i \in Item : batchOf[i] = None
      BY DEF Init
    <2> QED
      BY <2>1, <2>2 DEF BatchInv, Opened, Ordered
  <1>2. BatchInv /\ UNCHANGED vars => BatchInv'
    <2> SUFFICES ASSUME BatchInv, UNCHANGED vars PROVE BatchInv'
      OBVIOUS
    <2>1. DeliveryInv'
      BY DeliveryInvStutters DEF BatchInv
    <2>2. UNCHANGED <<queue, batchOf, batch, root>>
      BY DEF vars, workflowVars, outboxVars, bufferVars, ledger
    <2> QED
      BY <2>1, <2>2 DEF BatchInv, Opened, Ordered, Older, Occupied
  <1> QED
    BY <1>1, <1>2, BatchInvStep, PTL DEF Spec

\* In a partition one batch is at work at a time, in the order of acceptance: the run
\* of an older batch is RUNNING only past its deadline.
THEOREM BatchesInOrder == Spec => []OneBatchInOrder
  <1>1. BatchInv => OneBatchInOrder
    <2> SUFFICES ASSUME BatchInv, NEW i \in ToSet(queue), NEW j \in ToSet(queue), Older(i, j),
                        PartitionOf[i] = PartitionOf[j], batchOf[j] # None
                 PROVE  /\ batchOf[i] # None
                        /\ batchOf[i] # batchOf[j] => ~Occupied(batchOf[i])
                             /\ (root[batchOf[i]] = "RUNNING" => batchOf[i] \in late)
      BY DEF OneBatchInOrder
    <2>1. i \in Item /\ j \in Item
      BY OlderOrders DEF BatchInv, DeliveryInv
    <2>2. batchOf[i] # None /\ (batchOf[i] # batchOf[j] => ~Occupied(batchOf[i]))
      BY <2>1 DEF BatchInv, Ordered
    <2>3. batchOf[i] \in Batches /\ batch[batchOf[i]] # "ABSENT" /\ Failed(batchOf[i])
          /\ batch[batchOf[i]] \in {"ABSENT", "PREPARING", "SUBMITTED", "FAILED"}
      BY <2>1, <2>2 DEF BatchInv, Opened, DeliveryInv, Typed, TypeOK
    <2> QED
      BY <2>2, <2>3 DEF Failed, Occupied
  <1> QED
    BY <1>1, BatchInvariant, PTL

=============================================================================
