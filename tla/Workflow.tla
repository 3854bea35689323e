------------------------------ MODULE Workflow ------------------------------
(***************************************************************************)
(* What a run does at Temporal: the workflow that durable_task (sdk.py)    *)
(* wraps around a feature handler, the children of map_children in their   *)
(* rolling window, and the activities of BrokerActivities                  *)
(* (temporal_adapter.py) through which they reach the ledger.              *)
(*                                                                         *)
(* The handler maps its children, each of which waits for one inference    *)
(* operation, and answers by how they ended.  The activities are retried,  *)
(* their workers die, and the workflow may be closed under them.           *)
(***************************************************************************)
EXTENDS Outbox, Sequences, SequencesExt

CONSTANTS
  Items,   \* the operations of a run in the order its children are started
  Window   \* the window of its map_children (child_window)

ASSUME WorkflowAssumption ==
  /\ Items \in [Root -> Seq(Operation)]
  /\ \A r \in Root : ToSet(Items[r]) = OpsOf(r) /\ IsInjective(Items[r])
  /\ Window \in [Root -> Nat \ {0}]

VARIABLES
  handler,  \* where the workflow of a run is, its cursor, its pending children,
            \* whether one failed first (or was cancelled)
  fin       \* its finish_run activity: where it is, the state it asks for

workflowVars == <<outboxVars, handler, fin>>

Exit == {"NONE", "FAILED", "CANCELLED"}
NoHandler == [at |-> "NONE", cursor |-> 0, pending |-> {}, exit |-> "NONE"]
NoFinish == [at |-> "NONE", state |-> "FAILED"]

WorkflowTypeOK ==
  /\ OutboxTypeOK
  /\ handler \in [Root -> [at : {"NONE", "MAP", "DRAIN", "FINISH"}, cursor : Nat,
                           pending : SUBSET Operation, exit : Exit]]
  /\ fin \in [Root -> [at : {"NONE", "READ", "WRITE", "CONFIRM", "OK", "REFUSED"},
                       state : RootFinal]]

WorkflowInit ==
  /\ OutboxInit
  /\ handler = [r \in Root |-> NoHandler] /\ fin = [r \in Root |-> NoFinish]

-----------------------------------------------------------------------------
(* The activity submit_or_attach.                                          *)

activityOf == <<replicas, root, late, cancelling, overwritten, task, flow, asked, handler, fin>>
At(o, step) == act[o].at = step
Step(o, step) == act' = [act EXCEPT ![o].at = step]

\* An operation that exists is attached to; a run that does not admit work
\* refuses it for good.
SubmitOperation(o) ==
  /\ At(o, "SUBMIT")
  /\ IF op[o] = "ABSENT"
     THEN IF root[RootOf[o]] = "RUNNING" /\ RootOf[o] \notin late
          THEN EndOps({o}, "PENDING") /\ Step(o, "READ")
          ELSE Answered(o, "ERROR") /\ UNCHANGED op
     ELSE Step(o, "READ") /\ UNCHANGED op
  /\ UNCHANGED <<activityOf, outbox, bindings, faults>>

ReadOperation(o) ==
  /\ At(o, "READ")
  /\ IF op[o] \in OpFinal THEN Answered(o, op[o]) ELSE Step(o, "BIND")
  /\ UNCHANGED <<activityOf, op, outbox, bindings, faults>>

\* bind_completion reads the operation, then inserts the binding.
BindRead(o) ==
  /\ At(o, "BIND")
  /\ act' = [act EXCEPT ![o].at = "BINDING", ![o].saw = op[o]]
  /\ UNCHANGED <<activityOf, op, outbox, bindings, faults>>

BindWrite(o) ==
  LET token == <<o, act[o].n>>
  IN /\ At(o, "BINDING")
     /\ bindings' = bindings \cup {token}
     /\ Announce(IF act[o].saw \in OpFinal THEN {<<"complete_activity", token>>} ELSE {})
     /\ act' = [act EXCEPT ![o].at = "WAIT", ![o].saw = "ABSENT"]
     /\ UNCHANGED <<activityOf, op, faults>>

\* Admission that is refused for now, or a database that does not answer: the
\* activity is retried, with another token.
ActivityRetried(o) ==
  /\ act[o].at \in {"SUBMIT", "READ", "BIND"} /\ act[o].n < MaxStarts /\ Fault
  /\ act' = [act EXCEPT ![o].at = "SUBMIT", ![o].n = @ + 1]
  /\ UNCHANGED <<activityOf, op, outbox, bindings>>

\* Without a heartbeat nobody notices before the activity's timeout, which is
\* the deadline of the run.
WorkerDies(o) ==
  /\ act[o].at \in {"SUBMIT", "READ", "BIND", "BINDING"} /\ Fault
  /\ act' = [act EXCEPT ![o].at = "LOST", ![o].saw = "ABSENT"]
  /\ UNCHANGED <<activityOf, op, outbox, bindings>>

Activity(o) == SubmitOperation(o) \/ ReadOperation(o) \/ BindRead(o) \/ BindWrite(o)

-----------------------------------------------------------------------------
(* map_children with a rolling window.                                     *)

byHandler == <<ledger, outbox, task, asked, faults>>
InFlight(r) == flow[r] = "RUNNING" /\ handler[r].at = "MAP"
Done(S) == {o \in S : At(o, "DONE")}
Failing(S) == {o \in Done(S) : act[o].answer # "SUCCEEDED"}

\* The index of a child; results are harvested in the order of their items.
Index(o) == CHOOSE i \in DOMAIN Items[RootOf[o]] : Items[RootOf[o]][i] = o
FirstFailing(S) == CHOOSE o \in Failing(S) : \A u \in Failing(S) : Index(o) <= Index(u)

\* Mutant of Refill: the window is not looked at.
RefillAll(r, kept) ==
  LET started == {Items[r][i] : i \in handler[r].cursor + 1..Len(Items[r])}
  IN /\ handler' = [handler EXCEPT ![r].at = "MAP", ![r].cursor = Len(Items[r]),
                                   ![r].pending = kept \cup started]
     /\ act' = [o \in Operation |-> IF o \in started THEN [NoActivity EXCEPT !.n = 1, !.at = "SUBMIT"]
                                    ELSE act[o]]

\* The children that fit the window are started at once.
Refill(r, kept) ==
  LET room == Window[r] - Cardinality(kept)
      upto == IF handler[r].cursor + room < Len(Items[r]) THEN handler[r].cursor + room
              ELSE Len(Items[r])
      started == {Items[r][i] : i \in handler[r].cursor + 1..upto}
  IN /\ handler' = [handler EXCEPT ![r].at = "MAP", ![r].cursor = upto,
                                   ![r].pending = kept \cup started]
     /\ act' = [o \in Operation |-> IF o \in started THEN [NoActivity EXCEPT !.n = 1, !.at = "SUBMIT"]
                                    ELSE act[o]]

Begin(r) ==
  /\ flow[r] = "RUNNING" /\ handler[r].at = "NONE"
  /\ Refill(r, {})
  /\ UNCHANGED <<byHandler, flow, fin>>

\* The first failure in item order is raised once the others have drained.
Harvest(r) ==
  /\ InFlight(r) /\ Done(handler[r].pending) # {}
  /\ IF Failing(handler[r].pending) = {}
     THEN Refill(r, handler[r].pending \ Done(handler[r].pending))
     ELSE LET first == FirstFailing(handler[r].pending)
          IN /\ handler' = [handler EXCEPT ![r].at = "DRAIN", ![r].exit =
                              IF act[first].answer = "CANCELLED" THEN "CANCELLED" ELSE "FAILED"]
             /\ UNCHANGED act
  /\ UNCHANGED <<byHandler, flow, fin>>

\* The children in flight are cancelled and waited for.
Drain(r) ==
  /\ flow[r] = "RUNNING" /\ handler[r].at = "DRAIN"
  /\ \E o \in handler[r].pending :
       /\ handler' = [handler EXCEPT ![r].pending = @ \ {o}]
       /\ IF At(o, "DONE") THEN UNCHANGED act ELSE Answered(o, "CANCELLED")
  /\ UNCHANGED <<byHandler, flow, fin>>

-----------------------------------------------------------------------------
(* The end of the workflow: run of durable_task, and finish_run.           *)

closing == <<replicas, late, bindings, cancelling, task, asked, act, handler, faults>>
Finishes(r, step) == fin' = [fin EXCEPT ![r].at = step]
Closes(r, state) == flow' = [flow EXCEPT ![r] = state]

\* The handler has nothing in flight: it returns, raises, or has caught what
\* was raised and returns all the same.
Return(r) ==
  /\ flow[r] = "RUNNING" /\ handler[r].pending = {} /\ handler[r].at \in {"MAP", "DRAIN"}
  /\ handler[r].at = "MAP" => handler[r].cursor = Len(Items[r])
  /\ handler' = [handler EXCEPT ![r].at = "FINISH"]
  /\ \E state \in CASE handler[r].exit = "NONE" -> {"SUCCEEDED"}
                    [] handler[r].exit = "FAILED" -> {"FAILED", "PARTIAL", "SUCCEEDED"}
                    [] OTHER -> {"CANCELLED"} :
       fin' = [fin EXCEPT ![r] = [at |-> "READ", state |-> state]]
  /\ UNCHANGED <<byHandler, flow, act>>

\* finish_run reads the run and counts its pending operations; a run that has
\* ended is not written again.  CANCELLED is handed to cancel.
FinishRead(r) ==
  /\ fin[r].at = "READ"
  /\ LET state == IF r \in late /\ fin[r].state # "CANCELLED" THEN "FAILED" ELSE fin[r].state
         ended == IF fin[r].state = "CANCELLED" THEN root[r] \in RootFinal \ {"CANCELLED"}
                  ELSE root[r] # "RUNNING"
     IN Finishes(r, IF ended THEN "CONFIRM"
                    ELSE IF state = "SUCCEEDED" /\ Pending(OpsOf(r)) # {} THEN "REFUSED"
                    ELSE "WRITE")
  /\ UNCHANGED <<closing, root, op, outbox, overwritten, flow>>

\* The state is not looked at again, the deadline is.
FinishWrite(r) ==
  LET state == IF r \in late THEN "FAILED" ELSE fin[r].state
      left == IF state = "SUCCEEDED" THEN {} ELSE Pending(OpsOf(r))
  IN /\ fin[r].at = "WRITE"
     /\ IF fin[r].state = "CANCELLED" THEN CancelTo(r)
        ELSE EndRoot(r, state) /\ EndOps(left, "CANCELLED") /\ Announce(Completions(left))
     /\ overwritten' = IF root[r] \in RootFinal /\ root[r] # root'[r] THEN overwritten \cup {r}
                       ELSE overwritten
     /\ Finishes(r, "CONFIRM")
     /\ UNCHANGED <<closing, flow>>

\* Mutant of FinishConfirm: what was committed is not compared.
FinishUnconfirmed(r) ==
  /\ fin[r].at = "CONFIRM"
  /\ Finishes(r, "OK")
  /\ UNCHANGED <<closing, root, op, outbox, overwritten, flow>>

\* A success that the ledger did not accept fails the activity.
FinishConfirm(r) ==
  /\ fin[r].at = "CONFIRM"
  /\ Finishes(r, IF fin[r].state \in {"SUCCEEDED", "PARTIAL"} /\ root[r] # fin[r].state
                 THEN "REFUSED" ELSE "OK")
  /\ UNCHANGED <<closing, root, op, outbox, overwritten, flow>>

\* The worker dies in the activity, which is retried after 30 seconds.
FinishRetried(r) ==
  /\ fin[r].at \in {"WRITE", "CONFIRM"} /\ Fault
  /\ Finishes(r, "READ")
  /\ UNCHANGED <<ledger, outbox, task, temporal, handler>>

Close(r) ==
  /\ flow[r] = "RUNNING" /\ fin[r].at \in {"OK", "REFUSED"}
  /\ Closes(r, IF fin[r].at = "REFUSED" \/ fin[r].state = "FAILED" THEN "FAILED"
               ELSE IF fin[r].state = "CANCELLED" THEN "CANCELLED" ELSE "COMPLETED")
  /\ UNCHANGED <<closing, root, op, outbox, overwritten, fin>>

\* A cancelled workflow leaves what it awaits; map_children drains first.  Its
\* CancelledError is no Exception: no finish_run follows it.
CancelHandler(r) ==
  /\ r \in asked /\ InFlight(r)
  /\ handler' = [handler EXCEPT ![r].at = "DRAIN", ![r].exit = "CANCELLED"]
  /\ UNCHANGED <<byHandler, flow, act, fin>>

CancelCloses(r) ==
  /\ r \in asked /\ flow[r] = "RUNNING"
  /\ \/ handler[r].at = "NONE"
     \/ handler[r].at = "FINISH"
     \/ handler[r].at = "DRAIN" /\ handler[r].pending = {} /\ handler[r].exit = "CANCELLED"
  /\ Closes(r, "CANCELLED")
  /\ UNCHANGED <<closing, root, op, outbox, overwritten, fin>>

\* execution_timeout is the deadline of the run.
TimeOut(r) ==
  /\ r \in late /\ flow[r] = "RUNNING"
  /\ Closes(r, "TIMED_OUT")
  /\ UNCHANGED <<closing, root, op, outbox, overwritten, fin>>

Flow(r) == Begin(r) \/ Harvest(r) \/ Drain(r) \/ Return(r) \/ Close(r)
Finish(r) == FinishRead(r) \/ FinishWrite(r) \/ FinishConfirm(r)

WorkflowNext ==
  \/ OutboxNext /\ UNCHANGED <<handler, fin>>
  \/ \E o \in Operation : Activity(o) \/ ActivityRetried(o) \/ WorkerDies(o)
  \/ \E r \in Root : \/ Flow(r) \/ Finish(r) \/ FinishRetried(r)
                     \/ CancelHandler(r) \/ CancelCloses(r) \/ TimeOut(r)

WorkflowProgress ==
  \/ OutboxProgress /\ UNCHANGED <<handler, fin>>
  \/ \E r \in Root : Flow(r) \/ Finish(r)
  \/ \E o \in Operation : Activity(o)

-----------------------------------------------------------------------------
(* Properties.                                                             *)

\* An event is marked delivered only when it has been: at-least-once delivery
\* through leases that lapse, lost acknowledgements and crashes loses none.  A
\* cancellation in particular is not swallowed by a workflow not yet started.
DeliveredIsDone ==
  \A e \in DOMAIN outbox : outbox[e].state = "DELIVERED" =>
    CASE e[1] = "start_workflow" -> flow[e[2]] # "NONE" \/ root[e[2]] \in RootFinal
      [] e[1] = "cancel_workflow" -> e[2] \in asked
      [] e[1] = "complete_activity" -> ~Waits(e[2])

\* What a workflow is told of an operation is what the ledger decided, by whatever
\* attempt, token or repetition it heard of it.  (CANCELLED may be its own: a child
\* that was drained.)
AnswerIsLedger ==
  \A o \in Operation : act[o].answer \in {"SUCCEEDED", "FAILED"} => act[o].answer = op[o]

\* "must not let Temporal publish workflow success after the ledger rejected that
\* result" (temporal_adapter.py:94): except where an unlocked cancel() or finish_run
\* overwrote the run afterwards.
SuccessIsAccepted ==
  \A r \in Root : flow[r] = "COMPLETED" => root[r] = fin[r].state \/ r \in overwritten

\* The rolling window bounds what a run has in the ledger at once, retries, lost
\* workers and attached operations included.
WindowBoundsLedger ==
  \A r \in Root : InFlight(r) => Cardinality(Pending(OpsOf(r))) <= Window[r]

\* The run of a workflow that hears no more of an operation, and so waits for its
\* deadline: the worker died before it handed the token over, or the binding was
\* committed between the end of the operation and its read of the bindings.
Unheard(r) == \E o \in OpsOf(r) :
  \/ At(o, "LOST")
  \/ At(o, "WAIT") /\ op[o] \in OpFinal
       /\ <<"complete_activity", <<o, act[o].n>>>> \notin DOMAIN outbox

\* The handler claimed success with operations pending: finish_run refuses, and the
\* run is left to its deadline.
Refused(r) == flow[r] = "FAILED" /\ fin[r].at = "REFUSED"

Hanging == {r \in Running : Unheard(r) \/ Refused(r)}

\* Every other run ends, no deadline needed: start, operations, completions,
\* cancellation and the handler's answer all get through.
RunsEnd == []<>(Running \subseteq Hanging)

\* The cancellation of a workflow that is not running any more is NOT_FOUND, and
\* tried for ever.
Gone(e) == e[1] = "cancel_workflow" /\ flow[e[2]] # "RUNNING"

\* Every other event is delivered in the end, whatever failed or crashed.
EventsDelivered == []<>(\A e \in DOMAIN outbox : outbox[e].state = "PENDING" => Gone(e))
=============================================================================
