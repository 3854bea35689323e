------------------------------ MODULE Executor ------------------------------
(***************************************************************************)
(* Executor.tick (executor.py) driving the ledger through one attempt, and *)
(* the engine it sends to.  A tick runs for each attempt that is reserved; *)
(* its position is pc[a].  Every ledger call is the one of module Ledger,  *)
(* taken when the tick is at that call: _owned first, then the write, with *)
(* any other process between them.  A DB error leaves the tick where it is *)
(* (_write_end and the persistence loop retry); a RuntimeConflict ends it. *)
(*                                                                         *)
(* External: the engine (drivers.py sees only its answers) and the         *)
(* operator's confirmation that an engine has stopped.  Of runtime-api     *)
(* (module Scheduler) only the permits it holds in RAM are modelled: it    *)
(* grants or refuses them at will, and a restart loses those of attempts   *)
(* that hold no compute yet.  When the permit of an ended attempt is       *)
(* released is left out: nothing reads it any more.                        *)
(***************************************************************************)
EXTENDS Ledger

CONSTANT
  Probed  \* pools of which runtime-api can prove attempts idle: llama.cpp slots, or
          \* the in-flight registry of a native serving

ASSUME ProbedAssumption == Probed \subseteq Pool

VARIABLES
  pc,       \* where the tick of an attempt is
  engine,   \* what the engine does for an attempt: it alone knows
  down,     \* pools whose engine process has stopped
  crashed,  \* owners whose process has died
  permits,  \* attempts with a permit in the RAM of runtime-api
  lapsed    \* history: owners whose lease has ever run out

xvars == <<pc, engine, down, crashed, permits, lapsed>>
allvars == <<vars, xvars>>

\* The awaits of tick in program order, then the ways it ends the attempt.
Awaits == {"PERMIT", "PAYLOAD", "MARKED", "SENDING", "WAITING", "ANSWERED", "COMMIT"}
Settlements == {"NOT_SENT", "INVALID", "REJECTED", "REJECTED_DONE", "UNCERTAIN"}
PC == {"IDLE", "OVER"} \cup Awaits \cup Settlements

XTypeOK ==
  /\ TypeOK
  /\ pc \in [Attempt -> PC]
  /\ engine \in [Attempt -> {"NONE", "RUNNING", "ANSWERED"}]
  /\ down \subseteq Pool
  /\ crashed \subseteq Owner
  /\ permits \subseteq Attempt
  /\ lapsed \subseteq Owner

XInit ==
  /\ Init
  /\ pc = [a \in Attempt |-> "IDLE"]
  /\ engine = [a \in Attempt |-> "NONE"]
  /\ down = {} /\ crashed = {} /\ permits = {} /\ lapsed = {}

-----------------------------------------------------------------------------
Goto(a, to) == pc' = [pc EXCEPT ![a] = to]
Quiet == UNCHANGED <<engine, down, crashed, permits, lapsed>>

\* A step of the tick that does not touch the ledger.
Local(a, from, to) ==
  /\ pc[a] = from /\ snap[a] = Closed
  /\ Goto(a, to)
  /\ UNCHANGED vars /\ Quiet

Tick(p, w, a) ==
  /\ w \notin crashed
  /\ Reserve(p, w, a)
  /\ Goto(a, "PERMIT") /\ Quiet

PermitGranted(a) ==
  /\ pc[a] = "PERMIT" /\ snap[a] = Closed
  /\ Goto(a, "PAYLOAD")
  /\ permits' = permits \cup {a}
  /\ UNCHANGED <<vars, engine, down, crashed, lapsed>>

\* TimeoutError, RuntimeConflict or the attempt deadline before the permit.
PermitRefused(a) == Local(a, "PERMIT", "NOT_SENT")

\* The tick is at a ledger call and opens its transaction.
OpenCall(a) ==
  /\ pc[a] \in {"PAYLOAD", "ANSWERED", "COMMIT"} \cup Settlements
  /\ Owned(a)
  /\ UNCHANGED xvars

SendMarked(a) ==
  /\ pc[a] = "PAYLOAD"
  /\ MarkSend(a)
  /\ Goto(a, "MARKED") /\ Quiet

\* The payload is unavailable, the attempt deadline passes, or mark_send
\* raises: nothing was sent.
SendRefused(a) ==
  /\ pc[a] = "PAYLOAD"
  /\ \/ snap[a] = Closed /\ UNCHANGED vars
     \/ Rollback(a)
  /\ Goto(a, "NOT_SENT") /\ Quiet

\* permits.heartbeat after the durable send intent.
PermitChecked(a) == a \in permits /\ Local(a, "MARKED", "SENDING")
PermitFenced(a) == Local(a, "MARKED", "NOT_SENT")

\* driver.execute: the request reaches the engine ...
Post(a) ==
  /\ pc[a] = "SENDING" /\ att[a].pool \notin down
  /\ Goto(a, "WAITING")
  /\ engine' = [engine EXCEPT ![a] = "RUNNING"]
  /\ UNCHANGED <<vars, down, crashed, permits, lapsed>>

\* ... or the driver knows that it did not: no connection, a payload it refuses.
ConnectFailed(a) == Local(a, "SENDING", "NOT_SENT")
PayloadInvalid(a) == Local(a, "SENDING", "INVALID")

\* Mutant of Answered: a rejection counts as not sent.
AnsweredUnsent(a) ==
  /\ engine[a] = "ANSWERED"
  /\ Local(a, "WAITING", "ANSWERED") \/ Local(a, "WAITING", "NOT_SENT")

\* The answer arrives: a result, or a rejection the engine is done with.
Answered(a) ==
  /\ engine[a] = "ANSWERED"
  /\ Local(a, "WAITING", "ANSWERED") \/ Local(a, "WAITING", "REJECTED")

\* A timeout, a broken transport or an unconfirmed status: nothing tells
\* whether the request reached the engine.
TransportLost(a) == Local(a, "SENDING", "UNCERTAIN") \/ Local(a, "WAITING", "UNCERTAIN")

RecordTermination(a) ==
  /\ pc[a] = "ANSWERED"
  /\ ComputeFinished(a)
  /\ Goto(a, "COMMIT") /\ Quiet

Persist(a, usage) ==
  /\ pc[a] = "COMMIT"
  /\ CommitResult(a, usage)
  /\ Goto(a, "OVER") /\ Quiet

\* The settlement written by _end_attempt.
EndAttempt(a) ==
  /\ \/ pc[a] = "NOT_SENT" /\ Fail(a, TRUE, TRUE) /\ Goto(a, "OVER")
     \/ pc[a] = "INVALID" /\ Fail(a, TRUE, FALSE) /\ Goto(a, "OVER")
     \/ pc[a] = "REJECTED" /\ ComputeFinished(a) /\ Goto(a, "REJECTED_DONE")
     \/ pc[a] = "REJECTED_DONE" /\ Fail(a, FALSE, FALSE) /\ Goto(a, "OVER")
     \/ pc[a] = "UNCERTAIN" /\ Unknown(a) /\ Goto(a, "OVER")
  /\ Quiet

\* The write of the call the tick is at would raise or return early.
Refused(a) ==
  \/ att[a].state \in AttemptFinal
  \/ pc[a] = "COMMIT" /\ (att[a].state # "BACKEND_FINISHED" \/ att[a].compute)
  \/ pc[a] = "REJECTED_DONE" /\ att[a].compute

\* RuntimeConflict: a fenced worker gives the attempt up.
Fenced(a) ==
  /\ pc[a] \in {"ANSWERED", "COMMIT"} \cup Settlements
  /\ \/ snap[a] = Closed /\ op[OpOf[a]].active # a /\ UNCHANGED vars
     \/ Refused(a) /\ Rollback(a)
  /\ Goto(a, "OVER") /\ Quiet

\* Mutant of Shutdown: a tick that has not sent settles as if it might have.
ShutdownUncertain(a) ==
  /\ pc[a] \in Awaits
  /\ \/ snap[a] = Closed /\ UNCHANGED vars
     \/ Rollback(a)
  /\ Goto(a, "UNCERTAIN")
  /\ Quiet

\* CancelledError: the tick settles by what it knows to have been sent.
Shutdown(a) ==
  /\ pc[a] \in Awaits
  /\ \/ snap[a] = Closed /\ UNCHANGED vars
     \/ Rollback(a)
  /\ Goto(a, IF pc[a] \in {"PERMIT", "PAYLOAD", "MARKED"} THEN "NOT_SENT" ELSE "UNCERTAIN")
  /\ Quiet

\* The process dies with all its ticks.
Crash(w) ==
  /\ w \notin crashed
  /\ OwnerCrash(w)
  /\ crashed' = crashed \cup {w}
  /\ pc' = [a \in Attempt |-> IF att[a].owner = w THEN "OVER" ELSE pc[a]]
  /\ UNCHANGED <<engine, down, permits, lapsed>>

TickHeartbeat(a) ==
  /\ pc[a] \notin {"IDLE", "OVER"}
  /\ Heartbeat(a)
  /\ UNCHANGED xvars

-----------------------------------------------------------------------------
(* The engine, its operator, and the owner leases.                         *)

EngineAnswers(a) ==
  /\ engine[a] = "RUNNING"
  /\ engine' = [engine EXCEPT ![a] = "ANSWERED"]
  /\ UNCHANGED <<vars, pc, down, crashed, permits, lapsed>>

EngineStops(p) ==
  /\ Stops # {} /\ p \notin down
  /\ down' = down \cup {p}
  /\ engine' = [a \in Attempt |->
       IF engine[a] = "RUNNING" /\ att[a].pool = p THEN "NONE" ELSE engine[a]]
  /\ UNCHANGED <<vars, pc, crashed, permits, lapsed>>

\* Termination evidence exists once the process has stopped.
OperatorConfirms(p, mode) ==
  /\ p \in down
  /\ ConfirmStopped(p, mode)
  /\ UNCHANGED xvars

\* A new engine epoch is configured when its process is up.
EngineRestarts(p) ==
  /\ p \in down
  /\ ConfigurePool(p)
  /\ down' = down \ {p}
  /\ UNCHANGED <<pc, engine, crashed, permits, lapsed>>

\* runtime-api ends and starts again: hydration restores the permits of attempts
\* that hold compute, and no others.
ApiRestarts ==
  /\ permits' = {a \in Attempt : att[a].compute /\ att[a].state \in {"SEND_INTENT", "UNKNOWN"}}
  /\ UNCHANGED <<vars, pc, engine, down, crashed, lapsed>>

\* Two probes prove that the engine does not compute for the attempt.  Only pools
\* with a probe are asked, and only for attempts with a permit.
ProbedIdle(a) ==
  /\ att[a].pool \in Probed /\ a \in permits
  /\ engine[a] # "RUNNING"
  /\ SettleIdleUnknown(a)
  /\ UNCHANGED xvars

LeaseLost(w) ==
  /\ OwnerLapse(w)
  /\ lapsed' = lapsed \cup {w}
  /\ UNCHANGED <<pc, engine, down, crashed, permits>>

LeaseRenewed(w) ==
  /\ w \notin crashed
  /\ HeartbeatOwner(w)
  /\ UNCHANGED xvars

-----------------------------------------------------------------------------
TickStep(a) ==
  \/ PermitGranted(a) \/ PermitRefused(a) \/ OpenCall(a)
  \/ SendMarked(a) \/ SendRefused(a) \/ PermitChecked(a) \/ PermitFenced(a)
  \/ Post(a) \/ ConnectFailed(a) \/ PayloadInvalid(a)
  \/ Answered(a) \/ TransportLost(a) \/ RecordTermination(a)
  \/ \E u \in Usage : Persist(a, u)
  \/ EndAttempt(a) \/ Fenced(a)

ReconcilerStep ==
  \/ ReconcileScan \/ ReconcileFinish
  \/ \E a \in Attempt : ReclaimReserved(a) \/ ReclaimSent(a) \/ SettleLostResult(a)

LedgerStep ==
  /\ \/ \E r \in Root : \/ RootDeadline(r) \/ CreateRoot(r) \/ CancelRead(r) \/ CancelWrite(r)
                        \/ FinishCount(r) \/ FinishWrite(r)
                        \/ \E s \in FinishAs : FinishRead(r, s)
     \/ \E o \in Operation : \/ OperationDeadline(o) \/ SubmitOperation(o)
                             \/ BindRead(o) \/ BindWrite(o)
                             \/ \E p \in Pool : RefuseCandidate(p, o)
     \/ \E a \in Attempt : AttemptLeaseLapse(a) \/ SettleConfirmed(a)
     \/ \E p \in Pool, t \in Token : QuiesceEngine(p, t) \/ ResumeEngine(p, t)
     \/ ReconcilerStep
  /\ UNCHANGED xvars

XNext ==
  \/ LedgerStep
  \/ \E p \in Pool, w \in Owner, a \in Attempt : Tick(p, w, a)
  \/ \E a \in Attempt : \/ TickStep(a) \/ Shutdown(a) \/ TickHeartbeat(a)
                        \/ EngineAnswers(a) \/ ProbedIdle(a)
  \/ \E w \in Owner : Crash(w) \/ LeaseLost(w) \/ LeaseRenewed(w)
  \/ \E p \in Pool : EngineStops(p) \/ EngineRestarts(p)
  \/ \E p \in Pool, mode \in Stops : OperatorConfirms(p, mode)
  \/ ApiRestarts

XSpec == XInit /\ [][XNext]_allvars

\* All slots of an engine that is up are idle.
EngineIdle(p) == p \notin down /\ \A a \in Attempt : att[a].pool = p => engine[a] # "RUNNING"

\* A tick that is not dead goes on (every await is bounded by the attempt
\* deadline, every settlement is retried); an engine answers; the reconciler runs
\* periodically, and so do probes, which prove what has a permit on an engine that
\* can be probed and stays idle; a confirmation of the operator that is under way
\* completes; leases that nobody renews run out.
XFairness ==
  /\ \A a \in Attempt :
       /\ WF_allvars(TickStep(a)) /\ WF_allvars(EngineAnswers(a))
       /\ WF_allvars(EngineIdle(att[a].pool) /\ ProbedIdle(a))
       /\ WF_allvars(SettleConfirmed(a) /\ UNCHANGED xvars)
       /\ WF_allvars(AttemptLeaseLapse(a) /\ UNCHANGED xvars)
       /\ WF_allvars(ReclaimReserved(a) /\ UNCHANGED xvars)
       /\ WF_allvars(ReclaimSent(a) /\ UNCHANGED xvars)
       /\ WF_allvars(SettleLostResult(a) /\ UNCHANGED xvars)
  /\ WF_allvars(ReconcileScan /\ UNCHANGED xvars)
  /\ WF_allvars(ReconcileFinish /\ UNCHANGED xvars)
  /\ \A w \in Owner : WF_allvars(w \in crashed /\ LeaseLost(w))

XFairSpec == XSpec /\ XFairness

-----------------------------------------------------------------------------
(* What executor and ledger guarantee together.                            *)

Computing(a) == engine[a] = "RUNNING"
Current(a) == att[a].epoch = pool[att[a].pool].epoch

\* The engine never computes for an attempt that the ledger has released, as
\* long as the attempt's owner kept its lease and the epoch is the pool's: no
\* cancellation, deadline, reclaim, probe or refund frees running compute.
ComputeAccounted ==
  \A a \in Attempt : Computing(a) /\ att[a].owner \notin lapsed /\ Current(a)
    => att[a].compute

\* An attempt recorded as not sent, whose reservation is refunded, never
\* reached the engine.
RefundOnlyUnsent ==
  raced = {} => \A a \in Attempt : att[a].state = "FAILED_NOT_SENT" => engine[a] = "NONE"

\* What only the operator's confirmed stop settles, or nothing: an attempt whose
\* permit was lost before it was sent and whose executor died before it could tell;
\* one on a pool that cannot be probed; one on a stopped engine; and one sent after
\* its epoch was retired, which nothing settles.
Uncertain(a) == att[a].state = "UNKNOWN" /\ att[a].compute
Stranded(a) == Uncertain(a) /\ a \notin permits /\ att[a].owner \in crashed
Unprobed(a) == Uncertain(a) /\ att[a].pool \notin Probed
Halted(a) == Uncertain(a) /\ att[a].pool \in down
Outlived(a) == Uncertain(a) /\ ~Current(a)

\* Every other attempt is settled in the end, after a crash or a shutdown at any
\* point of its tick and restarts of runtime-api: nothing else blocks the drain for
\* ever (unless a reclaim raced).
AttemptsSettle ==
  \A a \in Attempt :
    Live(a) ~> \/ ~Live(a) \/ raced # {}
               \/ Stranded(a) \/ Unprobed(a) \/ Halted(a) \/ Outlived(a)

\* An UNKNOWN attempt can be settled: by probes or by a confirmed stop while it
\* holds compute, by _settle_lost_results once the backend has finished.
UnknownSettleable ==
  \A a \in Attempt : att[a].state = "UNKNOWN" =>
    \/ att[a].compute
    \/ att[a].finished /\ ~att[a].committed

\* The same, unless reconcile_expired reclaimed the attempt by a state it had left:
\* the tick writes UNKNOWN only after its send intent, and whatever else ends,
\* refunds, confirms or reclaims an attempt leaves one of the three ways open.
UnknownSettleableUnlessRaced == raced = {} => UnknownSettleable

\* Compute is held only for the engine epoch its pool is configured with.
EpochAccounted == \A a \in Attempt : att[a].compute => Current(a)

\* Once a completion is announced the operation is over for good.
AnnouncedIsFinal == \A o \in events : op[o].state \in OpFinal
=============================================================================
