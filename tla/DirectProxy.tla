---------------------------- MODULE DirectProxy ----------------------------
(***************************************************************************)
(* direct_proxy.py: the requests of one endpoint that callers have open,   *)
(* in wait and in try mode, the dispatcher that asks the endpoint owner of *)
(* Scheduler for permits in their name, and the producer task of every     *)
(* request from the grant to the settlement of its last attempt.           *)
(*                                                                         *)
(* A stretch of the producer without a suspension is one action.  What the *)
(* caller reads (chunks, heartbeats, control frames) is left out.          *)
(***************************************************************************)
EXTENDS Scheduler

CONSTANTS
  Try,      \* requests with admission_mode try; the others wait
  Leaving   \* requests whose caller may disconnect

ASSUME ProxyAssumption == Try \subseteq Request /\ Leaving \subseteq Request

VARIABLES
  pc,       \* where the producer of a request is
  gen,      \* the generation it has, or asks for
  future,   \* the future its entry of _pending waits for
  bound,    \* expected_engine_epoch of a request until its first grant
  detached  \* requests whose channel is detached

proxyVars == <<pc, gen, future, bound, detached>>
vars == <<schedulerVars, proxyVars>>

PC == {"IDLE", "WAITING", "TAKEN", "POSTED", "RECOVERING", "END"}
Future == {"NONE", "PENDING", "GRANTED", "REFUSED"}

TypeOK ==
  /\ SchedulerTypeOK
  /\ pc \in [Request -> PC] /\ gen \in [Request -> Generation]
  /\ future \in [Request -> Future] /\ bound \in [Request -> 0..MaxEpoch]
  /\ detached \subseteq Leaving

Init ==
  /\ SchedulerInit
  /\ pc \in [Request -> {"IDLE", "END"}] /\ gen = [r \in Request |-> 0]
  /\ future = [r \in Request |-> "NONE"] /\ bound = [r \in Request |-> 0]
  /\ detached = {}

Current(r) == <<r, gen[r]>>
Goes(r, to) == pc' = [pc EXCEPT ![r] = to]
Promises(r, f) == future' = [future EXCEPT ![r] = f]
Left(r) == r \in detached \cup expired

exceptWire ==
  <<row, owner, ledger, engine, stray, orphans, forfeited, api, view, task, streak, clients>>
others == <<exceptWire, wire>>

-----------------------------------------------------------------------------
(* Arrival.                                                                *)

\* The epoch is bound before the request is queued.
OpenWaiting(r) ==
  /\ api.up /\ pc[r] = "IDLE" /\ r \notin Try
  /\ IF CanEnqueue /\ ~Left(r)
     THEN /\ Enqueue(r) /\ Goes(r, "WAITING") /\ Promises(r, "PENDING")
          /\ bound' = [bound EXCEPT ![r] = view.epoch]
     ELSE Goes(r, "END") /\ UNCHANGED <<line, future, bound>>
  /\ UNCHANGED <<others, permits, rec, gen, detached>>

\* try_reserve: the place at the end of its class, or no place at all.
OpenTry(r) ==
  /\ api.up /\ pc[r] = "IDLE" /\ r \in Try
  /\ LET ahead == {j \in Waiters : Rank[Class[j]] <= Rank[Class[r]]}
     IN IF /\ Ready /\ ~Left(r) /\ CanEnqueue
           /\ ahead \subseteq expired /\ TryAcquire(Class[r])
        THEN /\ Grant(Current(r)) /\ Leave(ahead)
             /\ Goes(r, "WAITING") /\ Promises(r, "GRANTED")
        ELSE Goes(r, "END") /\ UNCHANGED <<permits, rec, line, future>>
  /\ UNCHANGED <<others, gen, bound, detached>>

-----------------------------------------------------------------------------
(* The dispatcher.                                                         *)

Pending(r) == pc[r] = "WAITING" /\ future[r] = "PENDING"
Previous(r) == <<r, gen[r] - 1>>

\* The dispatcher stops at the first request it cannot serve.
Served(r) == \A j \in Request : Pending(j) /\ j \in Ahead(r) => j \in expired

\* _reserve compares the epoch of a first attempt only.
Dispatch(r) ==
  /\ Ready /\ Pending(r) /\ Waiting(r) /\ r \notin expired
  /\ IF gen[r] = 0 /\ bound[r] # view.epoch
     THEN Served(r) /\ Promises(r, "REFUSED") /\ UNCHANGED <<permits, rec, line>>
     ELSE /\ gen[r] > 0 => \/ rec[Previous(r)].state = "FAILED_NOT_SENT"
                           \/ Recoverable(Previous(r))
          /\ First(r) /\ TryAcquire(Class[r])
          /\ Grant(Current(r)) /\ Leave({r} \cup Ahead(r))
          /\ Promises(r, "GRANTED")
  /\ UNCHANGED <<others, pc, gen, bound, detached>>

-----------------------------------------------------------------------------
(* The producer.                                                           *)

TakeGrant(r) ==
  /\ pc[r] = "WAITING" /\ future[r] = "GRANTED" /\ ~Left(r)
  /\ Goes(r, "TAKEN") /\ Promises(r, "NONE")
  /\ bound' = [bound EXCEPT ![r] = 0]
  /\ UNCHANGED <<others, permits, rec, line, gen, detached>>

\* Mutant of Withdraw: a permit that was granted meanwhile is not given back.
WithdrawWithPermit(r) ==
  /\ pc[r] = "WAITING"
  /\ Left(r) \/ future[r] = "REFUSED"
  /\ Leave({r})
  /\ Goes(r, "END") /\ Promises(r, "NONE")
  /\ bound' = [bound EXCEPT ![r] = 0]
  /\ UNCHANGED <<others, permits, rec, gen, detached>>

\* The wait ends without a permit: what was granted meanwhile is given back.
Withdraw(r) ==
  /\ pc[r] = "WAITING"
  /\ Left(r) \/ future[r] = "REFUSED"
  /\ IF future[r] = "GRANTED" THEN Discard(Current(r))
     ELSE UNCHANGED <<permits, rec>>
  /\ Leave({r})
  /\ Goes(r, "END") /\ Promises(r, "NONE")
  /\ bound' = [bound EXCEPT ![r] = 0]
  /\ UNCHANGED <<others, gen, detached>>

\* The caller left, or the deadline passed, before the send.
DropGrant(r) ==
  /\ pc[r] = "TAKEN" /\ Left(r)
  /\ Discard(Current(r))
  /\ Goes(r, "END")
  /\ UNCHANGED <<others, line, gen, future, bound, detached>>

\* mark_send; the request leaves without another suspension.
Send(r) ==
  /\ pc[r] = "TAKEN" /\ ~Left(r) /\ Current(r) \in permits
  /\ rec' = [rec EXCEPT ![Current(r)].state = "SEND_INTENT"]
  /\ wire' = [wire EXCEPT ![Current(r)] = "SENT"]
  /\ Goes(r, "POSTED")
  /\ UNCHANGED <<exceptWire, permits, line, gen, future, bound, detached>>

\* _queue_retry: the next generation waits again, unless the request may not.
RetryOr(r) ==
  IF r \notin Try /\ gen[r] < 2 /\ CanEnqueue /\ ~Left(r)
  THEN /\ Goes(r, "WAITING") /\ Promises(r, "PENDING") /\ Enqueue(r)
       /\ gen' = [gen EXCEPT ![r] = @ + 1]
  ELSE Goes(r, "END") /\ UNCHANGED <<line, gen, future>>

\* mark_send raises: a refresh released the permit.
SendRefused(r) ==
  /\ pc[r] = "TAKEN" /\ ~Left(r) /\ Current(r) \notin permits
  /\ RetryOr(r)
  /\ UNCHANGED <<others, permits, rec, bound, detached>>

\* No connection, or 503 while the model loads: nothing was computed.
NotSent(r) ==
  /\ pc[r] = "POSTED" /\ wire[Current(r)] = "SENT"
  /\ wire' = [wire EXCEPT ![Current(r)] = "CLOSED"]
  /\ Finish(Current(r), "FAILED_NOT_SENT")
  /\ RetryOr(r)
  /\ UNCHANGED <<exceptWire, bound, detached>>

Completed(r) ==
  /\ pc[r] = "POSTED" /\ wire[Current(r)] = "ANSWERED"
  /\ wire' = [wire EXCEPT ![Current(r)] = "CLOSED"]
  /\ Discard(Current(r))
  /\ Goes(r, "END")
  /\ UNCHANGED <<exceptWire, line, gen, future, bound, detached>>

\* The stream broke, or timed out: the engine may go on computing.
Lost(r) ==
  /\ pc[r] = "POSTED"
  /\ HangUp({Current(r)})
  /\ Uncertain(Current(r))
  /\ Goes(r, IF r \in Try \/ Left(r) THEN "END" ELSE "RECOVERING")
  /\ UNCHANGED <<exceptWire, permits, line, gen, future, bound, detached>>

\* The dispatcher saw that the lost attempt is over.
Recovered(r) ==
  /\ pc[r] = "RECOVERING"
  /\ Recoverable(Current(r)) /\ view.health = "HEALTHY"
  /\ RetryOr(r)
  /\ UNCHANGED <<others, permits, rec, bound, detached>>

RecoveryEnds(r) ==
  /\ pc[r] = "RECOVERING" /\ Left(r)
  /\ Goes(r, "END")
  /\ UNCHANGED <<others, permits, rec, line, gen, future, bound, detached>>

Detach(r) ==
  /\ r \in Leaving \ detached /\ pc[r] \notin {"IDLE", "END"}
  /\ detached' = detached \cup {r}
  /\ UNCHANGED <<schedulerVars, pc, gen, future, bound>>

\* The process ends, orderly or not, and with it every request it served.
ApiEnds ==
  /\ Crash \/ Shutdown
  /\ pc' = [r \in Request |-> IF pc[r] = "IDLE" THEN "IDLE" ELSE "END"]
  /\ future' = [r \in Request |-> "NONE"]
  /\ UNCHANGED <<gen, bound, detached>>

Producer(r) ==
  \/ TakeGrant(r) \/ Withdraw(r) \/ DropGrant(r) \/ Send(r) \/ SendRefused(r)
  \/ Completed(r) \/ Recovered(r) \/ RecoveryEnds(r)

ProxyNext == \E r \in Request :
  \/ OpenWaiting(r) \/ OpenTry(r) \/ Dispatch(r) \/ Producer(r)
  \/ NotSent(r) \/ Lost(r) \/ Detach(r)

Next ==
  \/ SchedulerNext /\ UNCHANGED proxyVars
  \/ ProxyNext
  \/ ApiEnds

Spec == Init /\ [][Next]_vars

Fairness ==
  /\ SchedulerFairness
  /\ \A r \in Request :
       /\ WF_vars(Dispatch(r))
       /\ WF_vars(Producer(r) \/ (wire[Current(r)] = "CLOSED" /\ Lost(r)))

FairSpec == Spec /\ Fairness

-----------------------------------------------------------------------------
(* Safety.                                                                 *)

\* What the engine computes under the epoch it was sent for.
Accounted == Computing \ stray

\* Every inference the engine computes has its permit, except for the time an
\* unclean exit blocks the endpoint: no restart, epoch change, idle proof or
\* settlement of scheduler and proxy frees a permit too early (orphans, see
\* CleanShutdownIsEvidence, are left out).
PermitCoversCompute == api.up /\ ~api.dirty => Accounted \ orphans \subseteq permits

\* "A clean shutdown is evidence only for pools with no orphan direct compute"
\* (memory_scheduler.py:193): with the owner row gone nothing direct is computed.
CleanShutdownIsEvidence == ~owner.exists => Accounted \cap Direct = {}

\* transport_limit and background_transport_limit bound what is computed, direct and
\* durable together and across restarts of runtime-api, whose permits are restored past
\* the capacity check.  Left out are only what an orderly end forgot (orphans) and what
\* was granted, lost its permit to a first restart and is given one by a second
\* (forfeited, see TransportLimitBounds).
Within(attempts) ==
  /\ Cardinality(attempts) <= TransportLimit
  /\ Cardinality({a \in attempts : OtherThanQa(a)}) <= BackgroundLimit
WithinCapacity == Within(Accounted \ (orphans \cup forfeited))

\* "transport_limit bounds all accepted HTTP inference" (docs/contracts.md:174): false
\* of forfeited attempts.
TransportLimitBounds == Cardinality(Accounted \ orphans) <= TransportLimit

\* Recovery never sends a second generation while an earlier one computes.
OneComputePerRequest ==
  \A r \in Request : Cardinality({g \in Generation : <<r, g>> \in Accounted}) <= 1

\* A permit belongs to a caller that will settle it, whatever way the request
\* ended, or is UNKNOWN; a direct waiter has a caller that waits.
NothingForgotten ==
  \A r \in Request :
    /\ \A g \in Generation : <<r, g>> \in permits =>
         \/ rec[<<r, g>>].state = "UNKNOWN"
         \/ g = gen[r] /\ (pc[r] \in {"TAKEN", "POSTED"} \/ future[r] = "GRANTED")
    /\ Waiting(r) => pc[r] = "WAITING" /\ future[r] # "GRANTED"

-----------------------------------------------------------------------------
(* Liveness.                                                               *)

\* Every request ends, though no deadline need pass: the dispatcher, the
\* recovery of lost attempts and the release of permits make progress.  (A
\* request comes once: from any point on, all that have come will have ended.)
RequestsEnd == []<>(\A r \in Request : pc[r] \in {"IDLE", "END"})

\* mark_send does not look at the epoch: an attempt may be sent after its epoch
\* was confirmed stopped, and neither probes nor the operator settle it then.
Outlived(d) == ledger[d] = "UNKNOWN" /\ rec[d].epoch # row.epoch

\* A permit was lost with its process, the attempt sent all the same, and its
\* executor died before it looked the permit up.  Idle probes only concern
\* attempts with a permit, so that the operator alone can end this one.
Stranded(d) == ledger[d] = "UNKNOWN" /\ d \notin permits /\ exec[d] = "DEAD"

\* Every permit is given back, whoever died meanwhile: once nothing new comes the
\* endpoint is free again.
PermitsReturn == []<>(\A a \in permits : a \in Durable /\ Outlived(a))

\* Every durable attempt that was reserved ends in the ledger.
DurableEnds ==
  \A d \in Durable :
    ledger[d] = "RESERVED" ~> (ledger[d] = "ENDED" \/ Outlived(d) \/ Stranded(d))
=============================================================================
