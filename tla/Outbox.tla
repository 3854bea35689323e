------------------------------- MODULE Outbox -------------------------------
(***************************************************************************)
(* How the ledger and Temporal are kept together: the rows of runs and     *)
(* operations as far as delivery can tell them apart, the events that their*)
(* transactions leave in runtime_outbox, and the publisher processes that  *)
(* claim and deliver them (OutboxPublisher of temporal_adapter.py).        *)
(*                                                                         *)
(* Temporal itself is external: a workflow per run, and a started activity *)
(* per operation that is answered by its task token.  What the workflows   *)
(* do is module Workflow.                                                  *)
(***************************************************************************)
EXTENDS Integers, FiniteSets, Functions

CONSTANTS
  Root, Operation,
  RootOf,       \* root_id of an operation
  Publisher,    \* outbox processes
  None,         \* SQL NULL
  Cancellable,  \* the runs a client may cancel
  Deadlined,    \* the runs whose deadline can pass
  MaxRoots,     \* runtime_authority.max_roots
  MaxStarts,    \* bound: activity attempts of one operation
  MaxFaults     \* bound: failed calls, stalls and crashes

ASSUME OutboxAssumption ==
  /\ RootOf \in [Operation -> Root]
  /\ Cancellable \subseteq Root /\ Deadlined \subseteq Root
  /\ None \notin Publisher
  /\ MaxRoots \in Nat /\ MaxStarts \in Nat \ {0} /\ MaxFaults \in Nat
  /\ IsFiniteSet(Root) /\ IsFiniteSet(Operation)

VARIABLES
  replicas,    \* the outbox processes that are deployed
  root,        \* runtime_roots.state
  late,        \* runs whose deadline has passed
  op,          \* runtime_operations.state: PENDING until it is terminal
  bindings,    \* runtime_completion_bindings
  outbox,      \* runtime_outbox
  cancelling,  \* runs whose cancel() has read the root and not yet written
  task,        \* where a publisher is with an event it has claimed
  flow,        \* the workflow of a run, at Temporal
  asked,       \* workflows asked to cancel
  act,         \* the activity of an operation: its attempt, where that is, the
               \* state it has read, what the workflow was answered
  faults,      \* history: how many of the faults have happened
  overwritten  \* history: runs of which one end overwrote another

ledger == <<replicas, root, late, op, bindings, cancelling, overwritten>>
temporal == <<flow, asked, act>>
outboxVars == <<ledger, outbox, task, temporal, faults>>

RootFinal == {"SUCCEEDED", "PARTIAL", "FAILED", "CANCELLED"}
OpFinal == {"SUCCEEDED", "FAILED", "CANCELLED"}
FlowClosed == {"COMPLETED", "FAILED", "CANCELLED", "TIMED_OUT"}
Delivery == {"DELIVER", "ACK", "DEFER"}

\* An activity attempt is STARTED from SUBMIT on; LOST is one whose worker died.
Started == {"SUBMIT", "READ", "BIND", "BINDING", "WAIT", "LOST"}
NoActivity == [n |-> 0, at |-> "NONE", saw |-> "ABSENT", answer |-> "NONE"]

\* A task token names one attempt of an activity.
Token == Operation \X (1..MaxStarts)
Event == ({"start_workflow", "cancel_workflow"} \X Root) \cup ({"complete_activity"} \X Token)
NewEvent == [state |-> "PENDING", owner |-> None, lease |-> FALSE]
Nothing == [e \in {} |-> "DELIVER"]

OutboxTypeOK ==
  /\ replicas \subseteq Publisher /\ replicas # {}
  /\ root \in [Root -> {"ABSENT", "RUNNING"} \cup RootFinal]
  /\ late \subseteq Deadlined
  /\ op \in [Operation -> {"ABSENT", "PENDING"} \cup OpFinal]
  /\ bindings \subseteq Token
  /\ DOMAIN outbox \subseteq Event
  /\ Range(outbox) \subseteq [state : {"PENDING", "DELIVERED"},
                              owner : Publisher \cup {None}, lease : BOOLEAN]
  /\ cancelling \subseteq Cancellable /\ overwritten \subseteq Root
  /\ DOMAIN task = Publisher
  /\ \A p \in Publisher : DOMAIN task[p] \subseteq DOMAIN outbox /\ Range(task[p]) \subseteq Delivery
  /\ flow \in [Root -> {"NONE", "RUNNING"} \cup FlowClosed] /\ asked \subseteq Root
  /\ act \in [Operation -> [n : 0..MaxStarts, at : {"NONE", "DONE"} \cup Started,
       saw : {"ABSENT", "PENDING"} \cup OpFinal, answer : {"NONE", "ERROR"} \cup OpFinal]]
  /\ faults \in 0..MaxFaults

OutboxInit ==
  /\ replicas \in (SUBSET Publisher) \ {{}}
  /\ root = [r \in Root |-> "ABSENT"] /\ late = {}
  /\ op = [o \in Operation |-> "ABSENT"] /\ bindings = {}
  /\ outbox = [e \in {} |-> NewEvent]
  /\ cancelling = {} /\ overwritten = {}
  /\ task = [p \in Publisher |-> Nothing]
  /\ flow = [r \in Root |-> "NONE"] /\ asked = {}
  /\ act = [o \in Operation |-> NoActivity]
  /\ faults \in 0..MaxFaults

-----------------------------------------------------------------------------
(* Transactions of the ledger.                                             *)

OpsOf(r) == {o \in Operation : RootOf[o] = r}
Pending(S) == {o \in S : op[o] = "PENDING"}
Running == {r \in Root : root[r] = "RUNNING"}

\* _event: ON CONFLICT DO NOTHING.
Announce(E) == outbox' = [e \in DOMAIN outbox \cup E |->
  IF e \in DOMAIN outbox THEN outbox[e] ELSE NewEvent]

\* _completion_events: one event for every binding that is committed.
Completions(S) == {"complete_activity"} \X {t \in bindings : t[1] \in S}

EndRoot(r, state) == root' = [root EXCEPT ![r] = state]
EndOps(S, state) == op' = [o \in Operation |-> IF o \in S THEN state ELSE op[o]]

\* submit_run; a repeated call finds the submission and changes nothing.
CanSubmit(r) == root[r] = "ABSENT" /\ r \notin late /\ Cardinality(Running) < MaxRoots
SubmitRun(r) ==
  /\ CanSubmit(r)
  /\ root' = [root EXCEPT ![r] = "RUNNING"]
  /\ Announce({<<"start_workflow", r>>})

Submit(r) ==
  /\ SubmitRun(r)
  /\ UNCHANGED <<replicas, late, op, bindings, cancelling, overwritten, task, temporal, faults>>

\* cancel() does not lock what it reads ...
CancelRead(r) ==
  /\ r \in Cancellable \ cancelling /\ root[r] = "RUNNING"
  /\ cancelling' = cancelling \cup {r}
  /\ UNCHANGED <<replicas, root, late, op, bindings, overwritten, outbox, task, temporal, faults>>

\* ... and overwrites what has ended meanwhile.
CancelTo(r) ==
  /\ EndRoot(r, "CANCELLED") /\ EndOps(Pending(OpsOf(r)), "CANCELLED")
  /\ Announce({<<"cancel_workflow", r>>} \cup Completions(Pending(OpsOf(r))))

CancelWrite(r) ==
  /\ r \in cancelling
  /\ CancelTo(r)
  /\ cancelling' = cancelling \ {r}
  /\ overwritten' = IF root[r] \in RootFinal \ {"CANCELLED"} THEN overwritten \cup {r}
                    ELSE overwritten
  /\ UNCHANGED <<replicas, late, bindings, task, temporal, faults>>

\* An operation runs to its end (modules Ledger and Executor).
OperationEnds(o, state) ==
  /\ op[o] = "PENDING" /\ state \in {"SUCCEEDED", "FAILED"}
  /\ EndOps({o}, state) /\ Announce(Completions({o}))
  /\ UNCHANGED <<replicas, root, late, bindings, cancelling, overwritten, task, temporal, faults>>

Deadline(r) ==
  /\ r \in Deadlined \ late
  /\ late' = late \cup {r}
  /\ UNCHANGED <<replicas, root, op, bindings, cancelling, overwritten, outbox, task, temporal, faults>>

\* reconcile_expired: expired roots, and what roots that have ended left behind.
Reconcile ==
  LET overdue == Running \cap late
      orphans == Pending({o \in Operation : RootOf[o] \in overdue \/ root[RootOf[o]] # "RUNNING"})
  IN /\ overdue \cup orphans # {}
     /\ root' = [r \in Root |-> IF r \in overdue THEN "FAILED" ELSE root[r]]
     /\ EndOps(orphans, "CANCELLED") /\ Announce(Completions(orphans))
     /\ UNCHANGED <<replicas, late, bindings, cancelling, overwritten, task, temporal, faults>>

-----------------------------------------------------------------------------
(* Publishers.                                                             *)

Fault == faults < MaxFaults /\ faults' = faults + 1

\* available_at and lease_expires_at: a row rests under the lease of its owner, or
\* without an owner until its next delivery.
Due == {e \in DOMAIN outbox : outbox[e].state = "PENDING" /\ ~outbox[e].lease}
Idle(p) == DOMAIN task[p] = {}
On(p, e, step) == e \in DOMAIN task[p] /\ task[p][e] = step
Goes(p, e, step) == task' = [task EXCEPT ![p][e] = step]
Leaves(p, e) == task' = [task EXCEPT ![p] = Restrict(@, DOMAIN @ \ {e})]

\* claim_events: the due rows under a lease of 30 seconds; tick has gathered what
\* it claimed before.
ClaimAll(p, E) ==
  /\ p \in replicas /\ Idle(p) /\ E # {}
  /\ outbox' = [e \in DOMAIN outbox |-> IF e \in E
                  THEN [outbox[e] EXCEPT !.owner = p, !.lease = TRUE] ELSE outbox[e]]
  /\ task' = [task EXCEPT ![p] = [e \in E |-> "DELIVER"]]
  /\ UNCHANGED <<ledger, temporal, faults>>

\* Mutant of Claim: a lease that ran out is not taken over.
ClaimUnowned(p) == ClaimAll(p, {e \in Due : outbox[e].owner = None})

Claim(p) == ClaimAll(p, Due)

\* Temporal: one workflow per run id, for ever (REJECT_DUPLICATE).
StartWorkflow(r) == flow' = [flow EXCEPT ![r] = IF @ = "NONE" THEN "RUNNING" ELSE @]

\* A run whose deadline has passed is not started but finished, with what it may
\* have begun when an earlier delivery was not acknowledged.
DeliverStart(p, r) ==
  LET left == IF root[r] = "RUNNING" THEN Pending(OpsOf(r)) ELSE {}
  IN /\ On(p, <<"start_workflow", r>>, "DELIVER")
     /\ Goes(p, <<"start_workflow", r>>, "ACK")
     /\ IF r \in late
        THEN /\ EndRoot(r, IF root[r] = "RUNNING" THEN "FAILED" ELSE root[r])
             /\ EndOps(left, "CANCELLED") /\ Announce(Completions(left)) /\ UNCHANGED flow
        ELSE StartWorkflow(r) /\ UNCHANGED <<root, op, outbox>>
     /\ UNCHANGED <<replicas, late, bindings, cancelling, overwritten, asked, act, faults>>

\* Mutant of DeliverCancel: NOT_FOUND is taken for an answer.
DeliverCancelOnce(p, r) ==
  /\ On(p, <<"cancel_workflow", r>>, "DELIVER")
  /\ Goes(p, <<"cancel_workflow", r>>, "ACK")
  /\ asked' = IF flow[r] = "RUNNING" THEN asked \cup {r} ELSE asked
  /\ UNCHANGED <<ledger, outbox, flow, act, faults>>

\* A workflow that is not there, or closed, is NOT_FOUND and tried again.
DeliverCancel(p, r) ==
  /\ On(p, <<"cancel_workflow", r>>, "DELIVER")
  /\ IF flow[r] = "RUNNING"
     THEN asked' = asked \cup {r} /\ Goes(p, <<"cancel_workflow", r>>, "ACK")
     ELSE UNCHANGED asked /\ Goes(p, <<"cancel_workflow", r>>, "DEFER")
  /\ UNCHANGED <<ledger, outbox, flow, act, faults>>

\* The token of the attempt that is started now; any other is NOT_FOUND, which
\* ends this event: the retry of the activity has a binding of its own.
Waits(t) == act[t[1]].n = t[2] /\ act[t[1]].at \in Started /\ flow[RootOf[t[1]]] = "RUNNING"
Answered(o, answer) == act' = [act EXCEPT ![o].at = "DONE", ![o].answer = answer]

\* Mutant of DeliverCompletion: every answer is reported as a success.
DeliverSuccess(p, t) ==
  /\ On(p, <<"complete_activity", t>>, "DELIVER")
  /\ IF Waits(t) THEN Answered(t[1], "SUCCEEDED") ELSE UNCHANGED act
  /\ Goes(p, <<"complete_activity", t>>, "ACK")
  /\ UNCHANGED <<ledger, outbox, flow, asked, faults>>

DeliverCompletion(p, t) ==
  /\ On(p, <<"complete_activity", t>>, "DELIVER")
  /\ IF op[t[1]] \notin OpFinal
     THEN Goes(p, <<"complete_activity", t>>, "DEFER") /\ UNCHANGED act
     ELSE /\ Goes(p, <<"complete_activity", t>>, "ACK")
          /\ IF Waits(t) THEN Answered(t[1], op[t[1]]) ELSE UNCHANGED act
  /\ UNCHANGED <<ledger, outbox, flow, asked, faults>>

\* The call fails or times out, whether Temporal has carried it out or not: the
\* second case is that of an acknowledgement that fails.
CallFails(p, e) ==
  /\ (On(p, e, "DELIVER") \/ On(p, e, "ACK")) /\ Fault
  /\ Goes(p, e, "DEFER")
  /\ UNCHANGED <<ledger, outbox, temporal>>

Owns(p, e) == outbox[e].owner = p /\ outbox[e].lease /\ outbox[e].state = "PENDING"

\* delivered: only by the claim that is still valid.
Ack(p, e) ==
  /\ On(p, e, "ACK") /\ Leaves(p, e)
  /\ outbox' = IF Owns(p, e) THEN [outbox EXCEPT ![e].state = "DELIVERED"] ELSE outbox
  /\ UNCHANGED <<ledger, temporal, faults>>

\* Mutant of Defer: an event is given up when its delivery has failed.
DeferGivesUp(p, e) ==
  /\ On(p, e, "DEFER") /\ Leaves(p, e)
  /\ outbox' = IF Owns(p, e) THEN [outbox EXCEPT ![e].state = "DELIVERED"] ELSE outbox
  /\ UNCHANGED <<ledger, temporal, faults>>

\* defer_event: no owner, and a delay of up to 300 seconds.
Defer(p, e) ==
  /\ On(p, e, "DEFER") /\ Leaves(p, e)
  /\ outbox' = IF Owns(p, e) THEN [outbox EXCEPT ![e].owner = None] ELSE outbox
  /\ UNCHANGED <<ledger, temporal, faults>>

\* defer_event fails as well: the lease stays until it runs out.
DeferFails(p, e) ==
  /\ On(p, e, "DEFER") /\ Fault
  /\ Leaves(p, e)
  /\ UNCHANGED <<ledger, outbox, temporal>>

\* All it was doing is lost; its leases are not.
PublisherDies(p) ==
  /\ ~Idle(p) /\ Fault
  /\ task' = [task EXCEPT ![p] = Nothing]
  /\ UNCHANGED <<ledger, outbox, temporal>>

Abandoned(e) == \A p \in Publisher : outbox[e].owner = p => e \notin DOMAIN task[p]

\* A lease outlasts every call of its publisher, unless that stalls.
LeaseLapses(e) ==
  /\ outbox[e].state = "PENDING" /\ outbox[e].lease
  /\ IF Abandoned(e) THEN UNCHANGED faults ELSE Fault
  /\ outbox' = [outbox EXCEPT ![e].lease = FALSE]
  /\ UNCHANGED <<ledger, task, temporal>>

Publish(p) ==
  \/ \E r \in Root : DeliverStart(p, r) \/ DeliverCancel(p, r)
  \/ \E t \in bindings : DeliverCompletion(p, t)
  \/ \E e \in DOMAIN task[p] : Ack(p, e) \/ Defer(p, e)

OutboxNext ==
  \/ \E r \in Root : CancelRead(r) \/ CancelWrite(r) \/ Deadline(r)
  \/ \E o \in Operation, state \in OpFinal : OperationEnds(o, state)
  \/ Reconcile
  \/ \E p \in Publisher : \/ Claim(p) \/ Publish(p) \/ PublisherDies(p)
                          \/ \E e \in DOMAIN task[p] : CallFails(p, e) \/ DeferFails(p, e)
  \/ \E e \in DOMAIN outbox : LeaseLapses(e)

\* What comes to an end by itself: nothing here can go on for ever.
OutboxProgress ==
  \/ \E r \in Root : CancelWrite(r)
  \/ \E o \in Operation, state \in OpFinal : OperationEnds(o, state)
  \/ Reconcile
=============================================================================
