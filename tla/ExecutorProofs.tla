--------------------------- MODULE ExecutorProofs ---------------------------
(***************************************************************************)
(* The executor drives the ledger as its interface allows, and the two     *)
(* together account for what an engine computes: for every value of the    *)
(* constants.                                                              *)
(***************************************************************************)
EXTENDS Executor, LedgerAttempts

USE DEF OpFinal, OpQueued, OpState, AttemptFinal, AttemptState

-----------------------------------------------------------------------------
(* The executor implements the ledger.                                     *)

\* Every step of a tick is a transaction of its attempt's owner, or none, and only
\* the end of an uncertain attempt writes UNKNOWN.
LEMMA TickCalls ==
  ASSUME NEW a \in Attempt, TickStep(a) \/ Shutdown(a) \/ TickHeartbeat(a)
  PROVE  \/ Owned(a) \/ Rollback(a) \/ Heartbeat(a) \/ MarkSend(a) \/ ComputeFinished(a)
         \/ pc[a] = "UNCERTAIN" /\ Unknown(a)
         \/ \E u \in Usage : CommitResult(a, u)
         \/ \E notSent, retry \in BOOLEAN : Fail(a, notSent, retry)
         \/ UNCHANGED vars
  BY DEF TickStep, Shutdown, TickHeartbeat, PermitGranted, PermitRefused, OpenCall,
         SendMarked, SendRefused, PermitChecked, PermitFenced, Post, ConnectFailed,
         PayloadInvalid, Answered, TransportLost, RecordTermination, Persist, EndAttempt,
         Fenced, Local

\* So it is a step of the ledger, or none.
LEMMA TickImplements ==
  ASSUME NEW a \in Attempt, TickStep(a) \/ Shutdown(a) \/ TickHeartbeat(a)
  PROVE  [Next]_vars
  BY TickCalls DEF Next, OwnerStep

\* Every step of executors, engines and operators is one of the ledger, or none.
LEMMA StepImplements == [XNext]_allvars => [Next]_vars
  <1> SUFFICES ASSUME [XNext]_allvars PROVE [Next]_vars
    OBVIOUS
  <1>1. CASE LedgerStep
    BY <1>1 DEF LedgerStep, ReconcilerStep, Next, TimeStep, ClientStep, OwnerStep,
                MaintenanceStep
  <1>2. ASSUME NEW p \in Pool, NEW w \in Owner, NEW a \in Attempt, Tick(p, w, a)
        PROVE  Next
    BY <1>2 DEF Tick, Next, OwnerStep
  <1>3. ASSUME NEW a \in Attempt, EngineAnswers(a) \/ ProbedIdle(a) PROVE [Next]_vars
    BY <1>3 DEF EngineAnswers, ProbedIdle, Next, MaintenanceStep
  <1>4. ASSUME NEW w \in Owner, Crash(w) \/ LeaseLost(w) \/ LeaseRenewed(w) PROVE Next
    BY <1>4 DEF Crash, LeaseLost, LeaseRenewed, Next, OwnerStep, TimeStep
  <1>5. ASSUME NEW p \in Pool, EngineStops(p) \/ EngineRestarts(p) PROVE [Next]_vars
    BY <1>5 DEF EngineStops, EngineRestarts, Next, MaintenanceStep
  <1>6. ASSUME NEW p \in Pool, NEW mode \in Stops, OperatorConfirms(p, mode) PROVE Next
    BY <1>6 DEF OperatorConfirms, Next, MaintenanceStep
  <1>7. CASE UNCHANGED allvars
    BY <1>7 DEF allvars
  <1>8. CASE ApiRestarts
    BY <1>8 DEF ApiRestarts
  <1> QED
    BY <1>1, <1>2, <1>3, <1>4, <1>5, <1>6, <1>7, <1>8, TickImplements DEF XNext

(* Executor.tick, its shutdown and its crashes use the ledger only through *)
(* the transactions of module Ledger: whatever is proved of the ledger     *)
(* holds of executors, engines and operators working together.             *)
THEOREM ExecutorUsesLedger == XSpec => Spec
  <1>1. XInit => Init
    BY DEF XInit
  <1> QED
    BY <1>1, StepImplements, PTL DEF XSpec, Spec

-----------------------------------------------------------------------------
(* Types.                                                                  *)

\* The variables of the executor stay within their types.
LEMMA ExecutorType ==
  ASSUME XTypeOK, XNext
  PROVE  /\ pc' \in [Attempt -> PC]
         /\ engine' \in [Attempt -> {"NONE", "RUNNING", "ANSWERED"}]
         /\ down' \subseteq Pool /\ crashed' \subseteq Owner
         /\ permits' \subseteq Attempt /\ lapsed' \subseteq Owner
  <1> USE DEF XTypeOK, PC, Awaits, Settlements
  <1>1. CASE LedgerStep
    BY <1>1 DEF LedgerStep, xvars
  <1>2. ASSUME NEW p \in Pool, NEW w \in Owner, NEW a \in Attempt, Tick(p, w, a)
        PROVE  pc' \in [Attempt -> PC] /\ Quiet
    BY <1>2 DEF Tick, Goto
  <1>3. ASSUME NEW a \in Attempt, TickStep(a)
        PROVE  /\ pc' \in [Attempt -> PC] /\ UNCHANGED <<down, crashed, lapsed>>
               /\ engine' \in [Attempt -> {"NONE", "RUNNING", "ANSWERED"}]
               /\ permits' \subseteq Attempt
    BY <1>3 DEF TickStep, PermitGranted, PermitRefused, OpenCall, SendMarked, SendRefused,
                PermitChecked, PermitFenced, Post, ConnectFailed, PayloadInvalid, Answered,
                TransportLost, RecordTermination, Persist, EndAttempt, Fenced, Local, Goto,
                Quiet, xvars
  <1>4. ASSUME NEW a \in Attempt, Shutdown(a) \/ TickHeartbeat(a)
        PROVE  pc' \in [Attempt -> PC] /\ Quiet
    BY <1>4 DEF Shutdown, TickHeartbeat, Goto, Quiet, xvars
  <1>5. ASSUME NEW a \in Attempt, EngineAnswers(a) \/ ProbedIdle(a)
        PROVE  /\ pc' = pc /\ UNCHANGED <<down, crashed, permits, lapsed>>
               /\ engine' \in [Attempt -> {"NONE", "RUNNING", "ANSWERED"}]
    BY <1>5 DEF EngineAnswers, ProbedIdle, xvars
  <1>6. ASSUME NEW w \in Owner, Crash(w) \/ LeaseLost(w) \/ LeaseRenewed(w)
        PROVE  /\ pc' \in [Attempt -> PC] /\ UNCHANGED <<engine, down, permits>>
               /\ crashed' \subseteq Owner /\ lapsed' \subseteq Owner
    BY <1>6 DEF Crash, LeaseLost, LeaseRenewed, xvars
  <1>7. ASSUME NEW p \in Pool, EngineStops(p) \/ EngineRestarts(p)
        PROVE  /\ pc' = pc /\ UNCHANGED <<crashed, permits, lapsed>>
               /\ down' \subseteq Pool
               /\ engine' \in [Attempt -> {"NONE", "RUNNING", "ANSWERED"}]
    BY <1>7 DEF EngineStops, EngineRestarts, xvars
  <1>8. ASSUME NEW p \in Pool, NEW mode \in Stops, OperatorConfirms(p, mode)
        PROVE  UNCHANGED xvars
    BY <1>8 DEF OperatorConfirms
  <1>9. CASE ApiRestarts
    BY <1>9 DEF ApiRestarts
  <1> QED
    BY <1>1, <1>2, <1>3, <1>4, <1>5, <1>6, <1>7, <1>8, <1>9 DEF XNext, Quiet, xvars

(* A tick is always at one of the awaits of Executor.tick, at one of the   *)
(* settlements of _end_attempt, or over, and every ledger row is in type.  *)
THEOREM ExecutorTypeCorrect == XSpec => []XTypeOK
  <1>1. XInit => XTypeOK
    BY InitType DEF XInit, XTypeOK, PC
  <1>2. XTypeOK /\ [XNext]_allvars => XTypeOK'
    <2> SUFFICES ASSUME XTypeOK, [XNext]_allvars PROVE XTypeOK'
      OBVIOUS
    <2>1. TypeOK'
      BY StepImplements, NextType DEF XTypeOK
    <2>2. CASE XNext
      BY <2>1, <2>2, ExecutorType DEF XTypeOK
    <2>3. CASE UNCHANGED allvars
      BY <2>1, <2>3 DEF XTypeOK, allvars, xvars
    <2> QED
      BY <2>2, <2>3
  <1> QED
    BY <1>1, <1>2, PTL DEF XSpec

-----------------------------------------------------------------------------
(* The inductive invariant.                                                *)

\* The lease of the attempt's owner has never run out.
LeaseKept(a) == att[a].owner \notin lapsed

\* mark_send would refuse the attempt, and always will.
Unsendable(a) ==
  op[OpOf[a]].expired \/ op[OpOf[a]].state # "EXECUTING" \/ op[OpOf[a]].active # a

\* A tick runs only for an attempt that was drawn, for one pool and one owner.
Drawn(a) ==
  IF att[a].state = "FREE" THEN att[a].owner = None /\ pc[a] = "IDLE"
  ELSE /\ att[a].owner \in Owner /\ att[a].pool \in Pool /\ pc[a] # "IDLE"
       /\ att[a].epoch <= pool[att[a].pool].epoch

\* Nothing goes to the engine before the send intent.
IntentFirst(a) ==
  ~att[a].sent =>
    engine[a] = "NONE" /\ pc[a] \in {"IDLE", "PERMIT", "PAYLOAD", "NOT_SENT", "OVER"}

\* Where the tick is when the engine has its request, and has answered it.
Reached(a) ==
  /\ engine[a] # "NONE" =>
       pc[a] \in {"WAITING", "ANSWERED", "COMMIT", "REJECTED", "REJECTED_DONE",
                 "UNCERTAIN", "OVER"}
  /\ pc[a] \in {"ANSWERED", "COMMIT", "REJECTED", "REJECTED_DONE"} => engine[a] = "ANSWERED"

\* A stopped engine computes nothing, and only a stop is confirmed.
StopProven(a) ==
  /\ engine[a] = "RUNNING" => att[a].pool \notin down
  /\ settling[a] # "NO" => att[a].pool \in down

\* reconcile_expired selects only what a lapsed owner left behind, or what can no
\* longer be sent; an owner with its lease writes UNKNOWN at the end of its tick.
ReclaimSafe(a) ==
  /\ scan[a] \in {"SEND_INTENT", "BACKEND_FINISHED"} => ~LeaseKept(a)
  /\ scan[a] = "RESERVED" /\ LeaseKept(a) => ~att[a].sent /\ Unsendable(a)
  /\ att[a].state = "UNKNOWN" /\ LeaseKept(a) => pc[a] = "OVER"

\* From the send intent to the answer the ledger counts the compute as held.
ComputeHeld(a) ==
  /\ pc[a] \in {"MARKED", "SENDING"} \/ engine[a] = "RUNNING"
  /\ LeaseKept(a) /\ Current(a) /\ att[a].pool \notin down
  => att[a].compute

\* What was refunded as not sent never was, and its tick will not send it.
RefundSafe(a) ==
  raced = {} /\ att[a].state = "FAILED_NOT_SENT" =>
    engine[a] = "NONE" /\ (~att[a].sent \/ pc[a] = "OVER")

TickInv(a) ==
  /\ Drawn(a) /\ IntentFirst(a) /\ Reached(a) /\ StopProven(a)
  /\ ReclaimSafe(a) /\ ComputeHeld(a) /\ RefundSafe(a)

ExecInv ==
  /\ \A a \in Attempt : TickInv(a)
  /\ Owner \subseteq alive \cup lapsed

-----------------------------------------------------------------------------
(* What ledger steps do to the rows of an attempt.                         *)

\* No epoch changes, and no race is forgotten.
EpochsStay == raced \subseteq raced' /\ \A p \in Pool : pool'[p].epoch = pool[p].epoch

\* Where the attempt runs, and what was read or locked of it; once it cannot be
\* sent it never can.
PlaceStays(a) ==
  /\ att'[a].pool = att[a].pool /\ att'[a].epoch = att[a].epoch
  /\ att'[a].owner = att[a].owner
  /\ scan'[a] \in {scan[a], "FREE"} /\ settling'[a] \in {settling[a], "NO"}
  /\ Unsendable(a) => Unsendable(a)'

RowStays(a) ==
  /\ PlaceStays(a)
  /\ att'[a].state = att[a].state /\ att'[a].sent = att[a].sent
  /\ att'[a].compute = att[a].compute

\* A step that is about no attempt, and one that is about one.
Calm == EpochsStay /\ \A a \in Attempt : RowStays(a)
Writes(a) == EpochsStay /\ PlaceStays(a) /\ \A b \in Attempt \ {a} : RowStays(b)

\* Only reserve_next makes an operation EXECUTING; deadlines do not come back.
NoneReserved ==
  \A o \in Operation :
    /\ op[o].expired => op'[o].expired
    /\ op'[o].state = "EXECUTING" => op[o].state = "EXECUTING" /\ op'[o].active = op[o].active

\* Then no attempt becomes sendable again.
LEMMA UnsendableStays ==
  ASSUME NoneReserved, NEW a \in Attempt, Unsendable(a)
  PROVE  Unsendable(a)'
  BY StructureAssumption DEF NoneReserved, Unsendable

\* _terminal makes nothing EXECUTING.
LEMMA TerminatedNot ==
  ASSUME NEW row \in OpRow, NEW s \in {"FAILED", "CANCELLED"}
  PROVE  LET t == Terminated(row, s)
         IN t.expired = row.expired /\ t.active = row.active
            /\ (t.state = "EXECUTING" => row.state = "EXECUTING")
  BY DEF Terminated, OpRow

\* On every operation.
LEMMA TerminateAllNot ==
  ASSUME op \in [Operation -> OpRow], NEW S, NEW s \in {"FAILED", "CANCELLED"},
         TerminateAll(S, s)
  PROVE  NoneReserved
  BY TerminatedNot DEF TerminateAll, NoneReserved

\* Time leaves every attempt where it is.
LEMMA TimeCalm == TypeOK /\ TimeStep => Calm
  <1> SUFFICES ASSUME TypeOK, TimeStep PROVE Calm
    OBVIOUS
  <1>t. op \in [Operation -> OpRow] /\ att \in [Attempt -> AttemptRow]
    BY DEF TypeOK
  <1>1. EpochsStay /\ UNCHANGED <<scan, settling>>
    BY DEF TimeStep, RootDeadline, OperationDeadline, AttemptLeaseLapse, OwnerLapse,
           HeartbeatOwner, EpochsStay, open, history
  <1>2. NoneReserved
    BY <1>t DEF TimeStep, RootDeadline, OperationDeadline, AttemptLeaseLapse, OwnerLapse,
                HeartbeatOwner, NoneReserved, OpRow
  <1>3. ASSUME NEW a \in Attempt
        PROVE  /\ att'[a].state = att[a].state /\ att'[a].sent = att[a].sent
               /\ att'[a].compute = att[a].compute /\ att'[a].owner = att[a].owner
               /\ att'[a].pool = att[a].pool /\ att'[a].epoch = att[a].epoch
    BY <1>t DEF TimeStep, RootDeadline, OperationDeadline, AttemptLeaseLapse, OwnerLapse,
                HeartbeatOwner, AttemptRow
  <1> QED
    BY <1>1, <1>2, <1>3, UnsendableStays DEF Calm, RowStays, PlaceStays

\* So do clients.
LEMMA ClientCalm == TypeOK /\ ClientStep => Calm
  <1> SUFFICES ASSUME TypeOK, ClientStep PROVE Calm
    OBVIOUS
  <1>t. op \in [Operation -> OpRow]
    BY DEF TypeOK
  <1>1. EpochsStay /\ UNCHANGED <<att, scan, settling>>
    BY DEF ClientStep, CreateRoot, CancelRead, CancelWrite, FinishRead, FinishCount,
           FinishWrite, SubmitOperation, BindRead, BindWrite, EpochsStay, open, history, rows
  <1>2. ASSUME NEW r \in Root, CancelWrite(r) \/ FinishWrite(r) PROVE NoneReserved
    BY <1>2, <1>t, TerminateAllNot DEF CancelWrite, FinishWrite
  <1>3. ASSUME NEW o \in Operation, SubmitOperation(o) PROVE NoneReserved
    BY <1>3, <1>t DEF SubmitOperation, NoneReserved, OpRow
  <1>4. op' = op => NoneReserved
    BY DEF NoneReserved
  <1>5. NoneReserved
    BY <1>2, <1>3, <1>4 DEF ClientStep, CreateRoot, CancelRead, FinishRead, FinishCount,
                            BindRead, BindWrite, rows
  <1> QED
    BY <1>1, <1>5, UnsendableStays DEF Calm, RowStays, PlaceStays

\* So do the transactions of owners that only read, and a refused candidate.
LEMMA OwnerCalm ==
  ASSUME TypeOK,
         \/ \E p \in Pool, o \in Operation : RefuseCandidate(p, o)
         \/ \E w \in Owner : OwnerCrash(w)
         \/ \E a \in Attempt : Owned(a) \/ Rollback(a) \/ Heartbeat(a)
  PROVE  Calm
  <1>t. op \in [Operation -> OpRow] /\ att \in [Attempt -> AttemptRow]
    BY DEF TypeOK
  <1>1. EpochsStay /\ UNCHANGED <<scan, settling>>
    BY DEF RefuseCandidate, OwnerCrash, Owned, Rollback, Heartbeat, EpochsStay, rows, open,
           history
  <1>2. NoneReserved
    <2>1. op' = op => NoneReserved
      BY DEF NoneReserved
    <2>2. ASSUME NEW p \in Pool, NEW o \in Operation, RefuseCandidate(p, o)
          PROVE  NoneReserved
      BY <1>t, <2>2, TerminateAllNot DEF RefuseCandidate
    <2> QED
      BY <2>1, <2>2 DEF OwnerCrash, Owned, Rollback, Heartbeat, rows
  <1>3. ASSUME NEW a \in Attempt
        PROVE  /\ att'[a].state = att[a].state /\ att'[a].sent = att[a].sent
               /\ att'[a].compute = att[a].compute /\ att'[a].owner = att[a].owner
               /\ att'[a].pool = att[a].pool /\ att'[a].epoch = att[a].epoch
    <2>1. CASE att' = att
      BY <2>1
    <2>2. ASSUME NEW b \in Attempt, att' = [att EXCEPT ![b].lease = TRUE]
          PROVE  /\ att'[a].state = att[a].state /\ att'[a].sent = att[a].sent
                 /\ att'[a].compute = att[a].compute /\ att'[a].owner = att[a].owner
                 /\ att'[a].pool = att[a].pool /\ att'[a].epoch = att[a].epoch
      BY <1>t, <2>2 DEF AttemptRow
    <2> QED
      BY <2>1, <2>2 DEF RefuseCandidate, OwnerCrash, Owned, Rollback, Heartbeat, rows
  <1> QED
    BY <1>1, <1>2, <1>3, UnsendableStays DEF Calm, RowStays, PlaceStays

\* So do the end of a reconciliation and the quiescing of engines.
LEMMA MaintenanceCalm ==
  ASSUME TypeOK,
         \/ ReconcileFinish
         \/ \E p \in Pool, t \in Token : QuiesceEngine(p, t) \/ ResumeEngine(p, t)
  PROVE  Calm
  <1>t. op \in [Operation -> OpRow] /\ pool \in [Pool -> PoolRow]
    BY DEF TypeOK
  <1>1. EpochsStay /\ UNCHANGED <<att, scan, settling>>
    <2>1. CASE ReconcileFinish
      BY <2>1 DEF ReconcileFinish, EpochsStay, history
    <2>2. ASSUME NEW p \in Pool, NEW t \in Token, QuiesceEngine(p, t) \/ ResumeEngine(p, t)
          PROVE  EpochsStay /\ UNCHANGED <<att, scan, settling>>
      BY <1>t, <2>2 DEF QuiesceEngine, ResumeEngine, EpochsStay, open, history, PoolRow
    <2> QED
      BY <2>1, <2>2
  <1>2. NoneReserved
    <2>1. CASE ReconcileFinish
      BY <1>t, <2>1, TerminatedNot DEF ReconcileFinish, NoneReserved
    <2>2. CASE op' = op
      BY <2>2 DEF NoneReserved
    <2> QED
      BY <2>1, <2>2 DEF QuiesceEngine, ResumeEngine
  <1> QED
    BY <1>1, <1>2, UnsendableStays DEF Calm, RowStays, PlaceStays

\* A settlement may degrade the pool, but not its epoch.
LEMMA SettleEpochs ==
  ASSUME TypeOK, NEW a \in Attempt, NEW u, Settle(a, u), raced' = raced
  PROVE  EpochsStay
  <1>t. pool \in [Pool -> PoolRow]
    BY DEF TypeOK
  <1> QED
    BY <1>t DEF Settle, EpochsStay, PoolRow

\* A transaction of its owner changes an attempt where it is.
LEMMA OwnerWrites ==
  ASSUME TypeOK, NEW a \in Attempt,
         \/ MarkSend(a) \/ ComputeFinished(a) \/ Unknown(a)
         \/ \E u \in Usage : CommitResult(a, u)
         \/ \E notSent, retry \in BOOLEAN : Fail(a, notSent, retry)
  PROVE  Writes(a)
  <1> DEFINE o == OpOf[a]
  <1>t. /\ op \in [Operation -> OpRow] /\ att \in [Attempt -> AttemptRow]
        /\ o \in Operation /\ op[o] \in OpRow /\ att[a] \in AttemptRow
    BY StructureAssumption DEF TypeOK
  <1>1. EpochsStay /\ UNCHANGED <<scan, settling>>
    <2>1. CASE MarkSend(a) \/ ComputeFinished(a) \/ Unknown(a)
      BY <2>1 DEF MarkSend, ComputeFinished, Unknown, EpochsStay, history
    <2>2. ASSUME NEW u \in Usage, CommitResult(a, u)
          PROVE  EpochsStay /\ UNCHANGED <<scan, settling>>
      BY <2>2, SettleEpochs DEF CommitResult
    <2>3. ASSUME NEW notSent \in BOOLEAN, NEW retry \in BOOLEAN, Fail(a, notSent, retry)
          PROVE  EpochsStay /\ UNCHANGED <<scan, settling>>
      BY <2>3, SettleEpochs DEF Fail
    <2> QED
      BY <2>1, <2>2, <2>3
  <1>2. NoneReserved
    <2>1. \A x \in Operation \ {o} : op'[x] = op[x]
      BY <1>t DEF MarkSend, ComputeFinished, Unknown, CommitResult, Fail
    <2>2. op'[o] \in {op[o], [op[o] EXCEPT !.attempts = @ + 1],
                     Terminated(op[o], "FAILED"), Terminated(op[o], "CANCELLED"),
                     [op[o] EXCEPT !.state = "RECONCILING"],
                     [op[o] EXCEPT !.state = "RETRY_WAIT"],
                     [op[o] EXCEPT !.state = "SUCCEEDED", !.result = a]}
      BY <1>t DEF MarkSend, ComputeFinished, Unknown, CommitResult, Fail, FailedOperation
    <2>3. /\ op'[o].expired = op[o].expired /\ op'[o].active = op[o].active
          /\ op'[o].state = "EXECUTING" => op[o].state = "EXECUTING"
      <3>1. CASE op'[o] \in {Terminated(op[o], "FAILED"), Terminated(op[o], "CANCELLED")}
        <4>1. PICK s \in {"FAILED", "CANCELLED"} : op'[o] = Terminated(op[o], s)
          BY <3>1
        <4> QED
          BY <1>t, <4>1, TerminatedNot
      <3>2. CASE op'[o] \notin {Terminated(op[o], "FAILED"), Terminated(op[o], "CANCELLED")}
        BY <1>t, <2>2, <3>2 DEF OpRow
      <3> QED
        BY <3>1, <3>2
    <2> QED
      BY <2>1, <2>3 DEF NoneReserved
  <1>3. /\ \A b \in Attempt \ {a} : att'[b] = att[b]
        /\ att'[a].owner = att[a].owner /\ att'[a].pool = att[a].pool
        /\ att'[a].epoch = att[a].epoch
    <2>1. CASE MarkSend(a)
      BY <1>t, <2>1 DEF MarkSend, AttemptRow
    <2>2. CASE ComputeFinished(a)
      BY <1>t, <2>2 DEF ComputeFinished, AttemptRow
    <2>3. CASE Unknown(a)
      BY <1>t, <2>3 DEF Unknown, AttemptRow
    <2>4. CASE \E u \in Usage : CommitResult(a, u)
      BY <1>t, <2>4 DEF CommitResult, AttemptRow
    <2>5. CASE \E notSent, retry \in BOOLEAN : Fail(a, notSent, retry)
      <3>1. PICK s : att' = [att EXCEPT ![a].state = s, ![a].compute = FALSE,
                                        ![a].budget = FALSE]
        BY <2>5 DEF Fail
      <3> QED
        BY <1>t, <3>1 DEF AttemptRow
    <2> QED
      BY <2>1, <2>2, <2>3, <2>4, <2>5
  <1> QED
    BY <1>1, <1>2, <1>3, UnsendableStays DEF Writes, RowStays, PlaceStays

\* _settle_stopped_attempt too, and it ends the attempt.
LEMMA SettleStoppedWrites ==
  ASSUME TypeOK, NEW a \in Attempt, NEW recover, SettleStopped(a, recover),
         \A b \in Attempt : settling'[b] \in {settling[b], "NO"}
  PROVE  /\ Writes(a)
         /\ att'[a].state = "FAILED" /\ ~att'[a].compute /\ att'[a].sent = att[a].sent
  <1> DEFINE o == OpOf[a]
  <1>t. /\ op \in [Operation -> OpRow] /\ att \in [Attempt -> AttemptRow]
        /\ o \in Operation /\ op[o] \in OpRow /\ att[a] \in AttemptRow
    BY StructureAssumption DEF TypeOK
  <1>1. EpochsStay /\ scan' = scan
    BY SettleEpochs DEF SettleStopped
  <1>2. NoneReserved
    <2>1. CASE op' = op
      BY <2>1 DEF NoneReserved
    <2>2. CASE op' = [op EXCEPT ![o].state = "RETRY_WAIT", ![o].active = None]
      BY <1>t, <2>2 DEF NoneReserved, OpRow
    <2>3. CASE TerminateAll({o}, "FAILED")
      BY <1>t, <2>3, TerminateAllNot
    <2> QED
      BY <2>1, <2>2, <2>3 DEF SettleStopped
  <1>3. /\ \A b \in Attempt \ {a} : att'[b] = att[b]
        /\ att'[a].owner = att[a].owner /\ att'[a].pool = att[a].pool
        /\ att'[a].epoch = att[a].epoch /\ att'[a].sent = att[a].sent
        /\ att'[a].state = "FAILED" /\ ~att'[a].compute
    BY <1>t DEF SettleStopped, AttemptRow
  <1> QED
    BY <1>1, <1>2, <1>3, UnsendableStays DEF Writes, RowStays, PlaceStays

\* A reclaim, too.
LEMMA ReclaimWrites ==
  ASSUME TypeOK, NEW a \in Attempt, ReclaimReserved(a) \/ ReclaimSent(a)
  PROVE  Writes(a) /\ att'[a].sent = att[a].sent
  <1> DEFINE o == OpOf[a]
  <1>t. /\ op \in [Operation -> OpRow] /\ att \in [Attempt -> AttemptRow]
        /\ o \in Operation /\ op[o] \in OpRow /\ att[a] \in AttemptRow
        /\ scan \in [Attempt -> AttemptState]
    BY StructureAssumption DEF TypeOK
  <1>1. EpochsStay /\ settling' = settling /\ \A b \in Attempt : scan'[b] \in {scan[b], "FREE"}
    BY <1>t DEF ReclaimReserved, ReclaimSent, EpochsStay
  <1>2. NoneReserved
    BY <1>t DEF ReclaimReserved, ReclaimSent, NoneReserved, OpRow
  <1>3. /\ \A b \in Attempt \ {a} : att'[b] = att[b]
        /\ att'[a].owner = att[a].owner /\ att'[a].pool = att[a].pool
        /\ att'[a].epoch = att[a].epoch /\ att'[a].sent = att[a].sent
    BY <1>t DEF ReclaimReserved, ReclaimSent, AttemptRow
  <1> QED
    BY <1>1, <1>2, <1>3, UnsendableStays DEF Writes, RowStays, PlaceStays

-----------------------------------------------------------------------------
(* Every step preserves the invariant.                                     *)

\* The tick and the engine stay as they are for an attempt.
TickStays(a) == pc'[a] = pc[a] /\ engine'[a] = engine[a]
\* Engines neither stop nor start; no lapse is forgotten.
Around == down' = down /\ lapsed \subseteq lapsed'

\* An attempt whose row and tick stay keeps its invariant.
LEMMA Bystander ==
  ASSUME NEW a \in Attempt, TickInv(a), RowStays(a), EpochsStay, TickStays(a), Around
  PROVE  TickInv(a)'
  <1> USE DEF RowStays, PlaceStays, TickStays, Around, EpochsStay, LeaseKept
  <1>1. Drawn(a)' /\ IntentFirst(a)' /\ Reached(a)' /\ StopProven(a)' /\ ReclaimSafe(a)'
    BY DEF TickInv, Drawn, IntentFirst, Reached, StopProven, ReclaimSafe
  <1>2. ComputeHeld(a)'
    BY DEF TickInv, Drawn, Reached, ComputeHeld, Current
  <1>3. RefundSafe(a)'
    BY DEF TickInv, RefundSafe
  <1> QED
    BY <1>1, <1>2, <1>3 DEF TickInv

\* How a tick goes on when it leaves the ledger's rows alone.
Moves(a, from, to) ==
  /\ pc[a] = from /\ pc'[a] = to
  /\ \/ from = "PERMIT" /\ to \in {"PAYLOAD", "NOT_SENT"}
     \/ from = "PAYLOAD" /\ to = "NOT_SENT"
     \/ from = "MARKED" /\ to \in {"SENDING", "NOT_SENT"}
     \/ from = "SENDING" /\ to \in {"NOT_SENT", "INVALID", "UNCERTAIN"}
     \/ from \in {"WAITING", "ANSWERED", "COMMIT"} /\ to = "UNCERTAIN"
     \/ from = "WAITING" /\ to \in {"ANSWERED", "REJECTED"} /\ engine[a] = "ANSWERED"
     \/ from \notin {"IDLE", "OVER"} /\ to = "OVER"

\* Then its invariant is kept.
LEMMA TickMoves ==
  ASSUME NEW a \in Attempt, TickInv(a), RowStays(a), EpochsStay, engine'[a] = engine[a],
         Around, NEW from, NEW to, Moves(a, from, to)
  PROVE  TickInv(a)'
  <1> USE DEF RowStays, PlaceStays, Around, EpochsStay, LeaseKept, Moves
  <1>1. Drawn(a)' /\ StopProven(a)'
    BY DEF TickInv, Drawn, StopProven
  <1>2. IntentFirst(a)' /\ Reached(a)'
    BY DEF TickInv, IntentFirst, Reached
  <1>3. ReclaimSafe(a)'
    BY DEF TickInv, ReclaimSafe
  <1>4. ComputeHeld(a)'
    BY DEF TickInv, Drawn, Reached, ComputeHeld, Current
  <1>5. RefundSafe(a)'
    BY DEF TickInv, RefundSafe, IntentFirst
  <1> QED
    BY <1>1, <1>2, <1>3, <1>4, <1>5 DEF TickInv

\* A step of the tick of a, and what it leaves alone.
Alters(a) ==
  /\ \A b \in Attempt \ {a} : TickStays(b)
  /\ Around /\ alive' = alive

\* The others are bystanders: what is left to show is about a.
LEMMA StepOf ==
  ASSUME ExecInv, NEW a \in Attempt, Alters(a), Writes(a), TickInv(a)'
  PROVE  ExecInv'
  <1>1. ASSUME NEW b \in Attempt PROVE TickInv(b)'
    <2>1. CASE b = a
      BY <2>1
    <2>2. CASE b # a
      BY <2>2, Bystander DEF ExecInv, Alters, Writes
    <2> QED
      BY <2>1, <2>2
  <1>2. (Owner \subseteq alive \cup lapsed)'
    BY DEF ExecInv, Alters, Around
  <1> QED
    BY <1>1, <1>2 DEF ExecInv

\* Ledger steps that are about no attempt.
LEMMA CalmInv ==
  ASSUME ExecInv, Calm, \A a \in Attempt : TickStays(a), Around,
         (Owner \subseteq alive \cup lapsed)'
  PROVE  ExecInv'
  BY Bystander DEF ExecInv, Calm

\* The program counter of the executor's step.
LEMMA GotoIs ==
  ASSUME XTypeOK, NEW a \in Attempt, NEW to, Goto(a, to), engine' = engine
  PROVE  pc'[a] = to /\ engine'[a] = engine[a] /\ \A b \in Attempt \ {a} : TickStays(b)
  BY DEF XTypeOK, Goto, TickStays

\* Rollback, and no transaction at all, are calm; so is a heartbeat.
LEMMA CalmWrites ==
  ASSUME Calm, NEW a \in Attempt
  PROVE  Writes(a) /\ RowStays(a) /\ EpochsStay
  BY DEF Calm, Writes, RowStays

\* Steps of the tick between its ledger calls.
LEMMA MovesInv ==
  ASSUME XTypeOK, ExecInv, NEW a \in Attempt, NEW from, NEW to,
         pc[a] = from, Goto(a, to), UNCHANGED <<engine, down, lapsed>>,
         UNCHANGED vars \/ Rollback(a),
         pc'[a] = to => Moves(a, from, to)
  PROVE  ExecInv'
  <1>1. Calm /\ alive' = alive
    <2>1. CASE UNCHANGED vars
      BY <2>1 DEF Calm, RowStays, PlaceStays, EpochsStay, Unsendable, vars, rows, open, history
    <2>2. CASE Rollback(a)
      <3>1. Calm
        BY <2>2, OwnerCalm DEF XTypeOK
      <3> QED
        BY <2>2, <3>1 DEF Rollback, rows
    <2> QED
      BY <2>1, <2>2
  <1>2. pc'[a] = to /\ engine'[a] = engine[a] /\ Alters(a)
    BY <1>1, GotoIs DEF Alters, Around
  <1>3. Moves(a, from, to)
    BY <1>2
  <1>4. TickInv(a)'
    BY <1>1, <1>2, <1>3, TickMoves, CalmWrites DEF ExecInv, Alters
  <1> QED
    BY <1>1, <1>2, <1>4, StepOf, CalmWrites

\* Steps of a tick that do not write to the ledger.
LEMMA DriveInv ==
  ASSUME XTypeOK, ExecInv, NEW a \in Attempt,
         \/ PermitGranted(a) \/ PermitRefused(a) \/ SendRefused(a)
         \/ PermitChecked(a) \/ PermitFenced(a) \/ ConnectFailed(a) \/ PayloadInvalid(a)
         \/ Answered(a) \/ TransportLost(a) \/ Fenced(a) \/ Shutdown(a)
  PROVE  ExecInv'
  <1> DEFINE Goes(from, to) ==
        /\ pc[a] = from /\ Goto(a, to) /\ UNCHANGED <<engine, down, lapsed>>
        /\ (UNCHANGED vars) \/ Rollback(a)
  <1>1. ASSUME NEW from, NEW to, Local(a, from, to) PROVE Goes(from, to)
    BY <1>1 DEF Local, Quiet
  <1>2. CASE PermitGranted(a) \/ PermitRefused(a)
    <2>1. PICK to \in {"PAYLOAD", "NOT_SENT"} : Goes("PERMIT", to)
      BY <1>1, <1>2 DEF PermitGranted, PermitRefused
    <2> QED
      BY <2>1, MovesInv DEF Moves
  <1>3. CASE SendRefused(a)
    <2>1. Goes("PAYLOAD", "NOT_SENT")
      BY <1>3 DEF SendRefused, Quiet
    <2> QED
      BY <2>1, MovesInv DEF Moves
  <1>4. CASE PermitChecked(a) \/ PermitFenced(a)
    <2>1. PICK to \in {"SENDING", "NOT_SENT"} : Goes("MARKED", to)
      BY <1>1, <1>4 DEF PermitChecked, PermitFenced
    <2> QED
      BY <2>1, MovesInv DEF Moves
  <1>5. CASE ConnectFailed(a) \/ PayloadInvalid(a)
    <2>1. PICK to \in {"NOT_SENT", "INVALID"} : Goes("SENDING", to)
      BY <1>1, <1>5 DEF ConnectFailed, PayloadInvalid
    <2> QED
      BY <2>1, MovesInv DEF Moves
  <1>6. CASE Answered(a)
    <2>1. engine[a] = "ANSWERED" /\ \E to \in {"ANSWERED", "REJECTED"} : Goes("WAITING", to)
      BY <1>1, <1>6 DEF Answered
    <2>2. PICK to \in {"ANSWERED", "REJECTED"} : Goes("WAITING", to)
      BY <2>1
    <2> QED
      BY <2>1, <2>2, MovesInv DEF Moves
  <1>7. CASE TransportLost(a)
    <2>1. PICK from \in {"SENDING", "WAITING"} : Goes(from, "UNCERTAIN")
      BY <1>1, <1>7 DEF TransportLost
    <2> QED
      BY <2>1, MovesInv DEF Moves
  <1>8. CASE Fenced(a)
    <2>1. Goes(pc[a], "OVER") /\ pc[a] \notin {"IDLE", "OVER"}
      BY <1>8 DEF Fenced, Settlements, Quiet
    <2> QED
      BY <2>1, MovesInv DEF Moves
  <1>9. CASE Shutdown(a)
    <2>1. CASE pc[a] \in {"PERMIT", "PAYLOAD", "MARKED"}
      <3>1. Goes(pc[a], "NOT_SENT")
        BY <1>9, <2>1 DEF Shutdown, Quiet
      <3> QED
        BY <2>1, <3>1, MovesInv DEF Moves
    <2>2. CASE pc[a] \notin {"PERMIT", "PAYLOAD", "MARKED"}
      <3>1. /\ Goes(pc[a], "UNCERTAIN")
            /\ pc[a] \in {"SENDING", "WAITING", "ANSWERED", "COMMIT"}
        BY <1>9, <2>2 DEF Shutdown, Awaits, Quiet
      <3> QED
        BY <3>1, MovesInv DEF Moves
    <2> QED
      BY <2>1, <2>2
  <1> QED
    BY <1>2, <1>3, <1>4, <1>5, <1>6, <1>7, <1>8, <1>9

\* reserve_next draws an attempt that no tick, engine or reader knows.
LEMMA TickStarts ==
  ASSUME XTypeOK, AttemptInv, ExecInv, NEW p \in Pool, NEW w \in Owner, NEW a \in Attempt,
         Tick(p, w, a)
  PROVE  ExecInv'
  <1>t. /\ op \in [Operation -> OpRow] /\ att \in [Attempt -> AttemptRow]
        /\ pool \in [Pool -> PoolRow] /\ TypeOK
        /\ \A b \in Attempt : OpOf[b] \in Operation
    BY StructureAssumption DEF XTypeOK, TypeOK
  <1>r. Reserve(p, w, a) /\ Goto(a, "PERMIT") /\ Quiet
    BY DEF Tick
  <1>1. /\ att[a].state = "FREE" /\ ~att[a].sent /\ engine[a] = "NONE"
        /\ scan[a] = "FREE" /\ settling[a] = "NO"
    <2>1. att[a].state = "FREE"
      BY <1>r, StructureAssumption DEF Reserve, NextNumber
    <2>2. ~att[a].sent /\ scan[a] = "FREE" /\ settling[a] = "NO"
      BY <2>1 DEF AttemptInv, Fresh, Opened
    <2> QED
      BY <2>1, <2>2 DEF ExecInv, TickInv, IntentFirst
  <1>2. att' = [att EXCEPT ![a] = [FreeRow EXCEPT !.state = "RESERVED", !.pool = p,
                  !.epoch = pool[p].epoch, !.owner = w, !.lease = TRUE]]
    BY <1>r DEF Reserve
  <1>3. /\ att'[a].state = "RESERVED" /\ ~att'[a].sent
        /\ att'[a].owner = w /\ att'[a].pool = p /\ att'[a].epoch = pool[p].epoch
        /\ \A b \in Attempt \ {a} : att'[b] = att[b]
    BY <1>t, <1>2 DEF FreeRow
  <1>4. pc'[a] = "PERMIT" /\ engine'[a] = "NONE" /\ Alters(a)
    BY <1>1, <1>r, GotoIs DEF Alters, Around, Quiet, Reserve
  <1>5. pool[p].epoch \in Nat /\ UNCHANGED <<pool, scan, settling, raced>> /\ EpochsStay
    BY <1>t, <1>r DEF PoolRow, Reserve, open, history, EpochsStay
  <1>6. TickInv(a)'
    BY <1>1, <1>3, <1>4, <1>5 DEF TickInv, Drawn, IntentFirst, Reached, StopProven,
       ReclaimSafe, ComputeHeld, RefundSafe
  <1>7. ASSUME NEW b \in Attempt \ {a} PROVE TickInv(b)'
    <2>1. Unsendable(b) => Unsendable(b)'
      <3>1. op' = [op EXCEPT ![OpOf[a]].state = "EXECUTING", ![OpOf[a]].active = a]
        BY <1>r DEF Reserve
      <3>2. /\ op'[OpOf[a]].active = a /\ a # b
            /\ \A o \in Operation \ {OpOf[a]} : op'[o] = op[o]
        BY <1>t, <3>1 DEF OpRow
      <3> QED
        BY <1>t, <3>2 DEF Unsendable
    <2>2. RowStays(b)
      BY <1>3, <1>5, <2>1 DEF RowStays, PlaceStays
    <2> QED
      BY <1>4, <1>5, <2>2, Bystander DEF Alters, ExecInv
  <1>8. (Owner \subseteq alive \cup lapsed)'
    BY <1>4 DEF Alters, Around, ExecInv
  <1> QED
    BY <1>6, <1>7, <1>8 DEF ExecInv

\* The tick's writes to the ledger.
LEMMA WritesInv ==
  ASSUME XTypeOK, AttemptInv, ExecInv, NEW a \in Attempt,
         SendMarked(a) \/ RecordTermination(a) \/ EndAttempt(a)
         \/ \E u \in Usage : Persist(a, u)
  PROVE  ExecInv'
  <1>t. att \in [Attempt -> AttemptRow] /\ att[a] \in AttemptRow /\ TypeOK
    BY DEF XTypeOK, TypeOK
  <1>i. TickInv(a)
    BY DEF ExecInv
  <1> USE DEF PlaceStays, EpochsStay, LeaseKept, Around
  <1>1. ASSUME Writes(a), Alters(a), engine'[a] = engine[a], att'[a].sent = att[a].sent,
               pc[a] \in {"ANSWERED", "COMMIT", "REJECTED", "REJECTED_DONE"},
               pc'[a] \in {"COMMIT", "REJECTED_DONE", "OVER"}, pc[a] # "REJECTED_DONE" \/ pc'[a] = "OVER",
               att'[a].state \in {"BACKEND_FINISHED", "RESULT_COMMITTED", "FAILED"}
        PROVE  ExecInv'
    <2>1. TickInv(a)'
      BY <1>1, <1>i DEF Writes, Alters, TickInv, Drawn, IntentFirst, Reached, StopProven,
         ReclaimSafe, ComputeHeld, RefundSafe
    <2> QED
      BY <1>1, <2>1, StepOf
  <1>2. CASE SendMarked(a)
    <2>1. /\ Writes(a) /\ pc[a] = "PAYLOAD" /\ pc'[a] = "MARKED" /\ engine'[a] = engine[a]
          /\ Alters(a)
      BY <1>2, <1>t, OwnerWrites, GotoIs DEF SendMarked, MarkSend, Quiet, Alters
    <2>2. att'[a].state = "SEND_INTENT" /\ att'[a].sent /\ att'[a].compute
      BY <1>2, <1>t DEF SendMarked, MarkSend, AttemptRow
    <2>3. ~Unsendable(a) /\ scan' = scan /\ att[a].state = "RESERVED"
      BY <1>2 DEF SendMarked, MarkSend, Sendable, Unsendable
    <2>4. TickInv(a)'
      BY <1>i, <2>1, <2>2, <2>3 DEF Writes, Alters, TickInv, Drawn, IntentFirst, Reached,
         StopProven, ReclaimSafe, ComputeHeld, RefundSafe
    <2> QED
      BY <2>1, <2>4, StepOf
  <1>3. ASSUME ComputeFinished(a), Quiet, NEW to \in {"COMMIT", "REJECTED_DONE"}, Goto(a, to),
               pc[a] \in {"ANSWERED", "REJECTED"}
        PROVE  ExecInv'
    <2>1. Writes(a) /\ Alters(a) /\ engine'[a] = engine[a] /\ pc'[a] = to
      BY <1>3, <1>t, OwnerWrites, GotoIs DEF ComputeFinished, Quiet, Alters
    <2>2. att'[a].sent = att[a].sent /\ att'[a].state = "BACKEND_FINISHED"
      BY <1>3, <1>t DEF ComputeFinished, AttemptRow
    <2> QED
      BY <1>1, <1>3, <2>1, <2>2
  <1>4. ASSUME NEW u \in Usage, Persist(a, u) PROVE ExecInv'
    <2>1. /\ Writes(a) /\ Alters(a) /\ engine'[a] = engine[a] /\ pc[a] = "COMMIT"
          /\ pc'[a] = "OVER"
      BY <1>4, <1>t, OwnerWrites, GotoIs DEF Persist, CommitResult, Quiet, Alters
    <2>2. att'[a].sent = att[a].sent /\ att'[a].state = "RESULT_COMMITTED"
      BY <1>4, <1>t DEF Persist, CommitResult, AttemptRow
    <2> QED
      BY <1>1, <2>1, <2>2
  <1>5. ASSUME NEW notSent \in BOOLEAN, NEW retry \in BOOLEAN, Fail(a, notSent, retry),
               Goto(a, "OVER"), Quiet
        PROVE  /\ Writes(a) /\ Alters(a) /\ engine'[a] = engine[a] /\ pc'[a] = "OVER"
               /\ att'[a].sent = att[a].sent
               /\ att'[a].state = IF notSent THEN "FAILED_NOT_SENT" ELSE "FAILED"
    <2>1. Writes(a) /\ Alters(a) /\ engine'[a] = engine[a] /\ pc'[a] = "OVER"
      BY <1>5, <1>t, OwnerWrites, GotoIs DEF Fail, Quiet, Alters
    <2>2. PICK s : /\ s = IF notSent THEN "FAILED_NOT_SENT" ELSE "FAILED"
                   /\ att' = [att EXCEPT ![a].state = s, ![a].compute = FALSE,
                                         ![a].budget = FALSE]
      BY <1>5 DEF Fail
    <2>3. att'[a].sent = att[a].sent /\ att'[a].state = s
      BY <1>t, <2>2 DEF AttemptRow
    <2> QED
      BY <2>1, <2>2, <2>3
  <1>6. ASSUME pc[a] \in {"NOT_SENT", "INVALID"}, NEW retry \in BOOLEAN, Fail(a, TRUE, retry),
               Goto(a, "OVER"), Quiet
        PROVE  ExecInv'
    <2>1. /\ Writes(a) /\ Alters(a) /\ engine'[a] = engine[a] /\ pc'[a] = "OVER"
          /\ att'[a].sent = att[a].sent /\ att'[a].state = "FAILED_NOT_SENT"
      BY <1>5, <1>6
    <2>2. TickInv(a)'
      BY <1>i, <1>6, <2>1 DEF Writes, Alters, TickInv, Drawn, IntentFirst, Reached,
         StopProven, ReclaimSafe, ComputeHeld, RefundSafe
    <2> QED
      BY <2>1, <2>2, StepOf
  <1>7. ASSUME pc[a] = "REJECTED_DONE", Fail(a, FALSE, FALSE), Goto(a, "OVER"), Quiet
        PROVE  ExecInv'
    <2>1. /\ Writes(a) /\ Alters(a) /\ engine'[a] = engine[a] /\ pc'[a] = "OVER"
          /\ att'[a].sent = att[a].sent /\ att'[a].state = "FAILED"
      BY <1>5, <1>7
    <2> QED
      BY <1>1, <1>7, <2>1
  <1>8. ASSUME pc[a] = "UNCERTAIN", Unknown(a), Goto(a, "OVER"), Quiet
        PROVE  ExecInv'
    <2>1. Writes(a) /\ Alters(a) /\ engine'[a] = engine[a] /\ pc'[a] = "OVER"
      BY <1>8, <1>t, OwnerWrites, GotoIs DEF Unknown, Quiet, Alters
    <2>2. /\ att'[a].sent = att[a].sent /\ att'[a].state = "UNKNOWN"
          /\ att'[a].compute = att[a].compute
      BY <1>8, <1>t DEF Unknown, AttemptRow
    <2>3. TickInv(a)'
      BY <1>i, <1>8, <2>1, <2>2 DEF Writes, Alters, TickInv, Drawn, IntentFirst, Reached,
         StopProven, ReclaimSafe, ComputeHeld, RefundSafe, Current
    <2> QED
      BY <2>1, <2>3, StepOf
  <1>9. CASE EndAttempt(a)
    BY <1>3, <1>6, <1>7, <1>8, <1>9 DEF EndAttempt
  <1>10. CASE RecordTermination(a)
    BY <1>3, <1>10 DEF RecordTermination
  <1> QED
    BY <1>2, <1>4, <1>9, <1>10

\* The request reaches the engine, and its answer the executor.
LEMMA EngineInv ==
  ASSUME XTypeOK, ExecInv, NEW a \in Attempt, Post(a) \/ EngineAnswers(a)
  PROVE  ExecInv'
  <1>1. Calm /\ alive' = alive /\ Around
    BY DEF Post, EngineAnswers, Calm, RowStays, PlaceStays, EpochsStay, Unsendable, Around,
           vars, rows, open, history
  <1>2. \A b \in Attempt \ {a} : TickStays(b)
    BY DEF Post, EngineAnswers, Goto, XTypeOK, TickStays
  <1>3. TickInv(a)'
    <2> USE DEF PlaceStays, RowStays, EpochsStay, LeaseKept, Around
    <2>i. TickInv(a) /\ RowStays(a) /\ EpochsStay
      BY <1>1 DEF ExecInv, Calm
    <2>1. CASE Post(a)
      <3>1. /\ pc[a] = "SENDING" /\ pc'[a] = "WAITING" /\ engine'[a] = "RUNNING"
            /\ att[a].pool \notin down
        BY <2>1 DEF Post, Goto, XTypeOK
      <3> QED
        BY <1>1, <2>i, <3>1 DEF TickInv, Drawn, IntentFirst, Reached, StopProven,
           ReclaimSafe, ComputeHeld, RefundSafe, Current
    <2>2. CASE EngineAnswers(a)
      <3>1. engine[a] = "RUNNING" /\ engine'[a] = "ANSWERED" /\ pc'[a] = pc[a]
        BY <2>2 DEF EngineAnswers, XTypeOK
      <3> QED
        BY <1>1, <2>i, <3>1 DEF TickInv, Drawn, IntentFirst, Reached, StopProven,
           ReclaimSafe, ComputeHeld, RefundSafe, Current
    <2> QED
      BY <2>1, <2>2
  <1> QED
    BY <1>1, <1>2, <1>3, StepOf, CalmWrites DEF Alters

\* Owners die, lose their leases and renew them.
LEMMA OwnersInv ==
  ASSUME XTypeOK, ExecInv, NEW w \in Owner, Crash(w) \/ LeaseLost(w) \/ LeaseRenewed(w)
  PROVE  ExecInv'
  <1>1. Calm /\ EpochsStay
    <2>1. CASE Crash(w)
      BY <2>1, OwnerCalm DEF Crash, XTypeOK, Calm
    <2>2. CASE LeaseLost(w) \/ LeaseRenewed(w)
      BY <2>2, TimeCalm DEF LeaseLost, LeaseRenewed, TimeStep, XTypeOK, Calm
    <2> QED
      BY <2>1, <2>2
  <1>2. Around
    BY DEF Around, Crash, LeaseLost, LeaseRenewed, xvars
  <1>3. (Owner \subseteq alive \cup lapsed)'
    BY DEF ExecInv, Crash, OwnerCrash, LeaseLost, OwnerLapse, LeaseRenewed, HeartbeatOwner,
           rows, xvars
  <1>4. ASSUME NEW a \in Attempt PROVE TickInv(a)'
    <2>i. TickInv(a) /\ RowStays(a)
      BY <1>1 DEF ExecInv, Calm
    <2>1. CASE TickStays(a)
      BY <1>1, <1>2, <2>i, <2>1, Bystander
    <2>2. CASE ~TickStays(a)
      <3>1. att[a].owner = w /\ pc'[a] = "OVER" /\ engine'[a] = engine[a]
        BY <2>2 DEF TickStays, Crash, LeaseLost, LeaseRenewed, xvars, XTypeOK
      <3>2. pc[a] \notin {"IDLE", "OVER"}
        <4>1. pc[a] # "OVER"
          BY <2>2, <3>1 DEF TickStays
        <4>2. att[a].state # "FREE"
          BY <2>i, <3>1, StructureAssumption DEF TickInv, Drawn
        <4>3. pc[a] # "IDLE"
          BY <2>i, <4>2 DEF TickInv, Drawn
        <4> QED
          BY <4>1, <4>3
      <3> QED
        BY <1>1, <1>2, <2>i, <3>1, <3>2, TickMoves DEF Moves
    <2> QED
      BY <2>1, <2>2
  <1> QED
    BY <1>3, <1>4 DEF ExecInv

\* Engines stop, and come up again with a new epoch, once the old one's attempts
\* are settled; an operator confirms only that a stopped engine has stopped.
LEMMA EnginesInv ==
  ASSUME XTypeOK, AttemptInv, ExecInv, NEW p \in Pool,
         \/ EngineStops(p) \/ EngineRestarts(p)
         \/ \E mode \in Stops : OperatorConfirms(p, mode)
  PROVE  ExecInv'
  <1>t. pool \in [Pool -> PoolRow] /\ \A q \in Pool : pool[q].epoch \in Nat
    BY DEF XTypeOK, TypeOK, PoolRow
  <1>1. /\ UNCHANGED <<att, op, scan, raced, pc, lapsed, alive>>
    BY DEF EngineStops, EngineRestarts, OperatorConfirms, ConfigurePool, ConfirmStopped, vars,
           rows, open, history, xvars
  <1>2. ASSUME NEW a \in Attempt PROVE TickInv(a)'
    <2> USE DEF LeaseKept
    <2>i. TickInv(a)
      BY DEF ExecInv
    <2>1. CASE EngineStops(p)
      <3>1. /\ UNCHANGED <<pool, settling>> /\ down' = down \cup {p}
            /\ engine'[a] = IF engine[a] = "RUNNING" /\ att[a].pool = p THEN "NONE" ELSE engine[a]
        BY <2>1 DEF EngineStops, vars, rows, open
      <3>2. Drawn(a)' /\ IntentFirst(a)' /\ Reached(a)' /\ StopProven(a)'
        BY <1>1, <2>i, <3>1 DEF TickInv, Drawn, IntentFirst, Reached, StopProven
      <3>3. ReclaimSafe(a)' /\ ComputeHeld(a)' /\ RefundSafe(a)'
        BY <1>1, <2>i, <3>1 DEF TickInv, ReclaimSafe, ComputeHeld, RefundSafe, Current,
           Unsendable
      <3> QED
        BY <3>2, <3>3 DEF TickInv
    <2>2. CASE EngineRestarts(p)
      <3>1. /\ UNCHANGED <<engine, settling>> /\ down' = down \ {p}
            /\ ~PoolLocked(p)
            /\ pool' = [pool EXCEPT ![p] =
                 [health |-> "HEALTHY", epoch |-> @.epoch + 1, token |-> None]]
        BY <2>2 DEF EngineRestarts, ConfigurePool, open
      <3>2. /\ pool'[p].epoch = pool[p].epoch + 1
            /\ \A q \in Pool \ {p} : pool'[q].epoch = pool[q].epoch
        BY <1>t, <3>1
      <3>3. att[a].pool = p => settling[a] = "NO"
        BY <3>1 DEF PoolLocked
      <3>n. att \in [Attempt -> AttemptRow] /\ att[a].epoch \in Nat
        BY DEF XTypeOK, TypeOK, AttemptRow
      <3>9. att[a].state # "FREE" /\ att[a].pool = p => att[a].epoch < pool'[p].epoch
        BY <1>t, <2>i, <3>2, <3>n DEF TickInv, Drawn
      <3>4. Drawn(a)' /\ IntentFirst(a)' /\ Reached(a)'
        BY <1>1, <1>t, <2>i, <3>1, <3>2, <3>n DEF TickInv, Drawn, IntentFirst, Reached
      <3>e. engine[a] = "RUNNING" => att[a].pool \notin down
        BY <2>i DEF TickInv, StopProven
      <3>5. StopProven(a)'
        BY <1>1, <2>i, <3>1, <3>3 DEF TickInv, StopProven
      <3>6. ReclaimSafe(a)' /\ RefundSafe(a)'
        BY <1>1, <2>i, <3>1 DEF TickInv, ReclaimSafe, RefundSafe, Unsendable
      <3>7. ComputeHeld(a)'
        <4>1. CASE att[a].state = "FREE"
          BY <1>1, <2>i, <3>1, <4>1 DEF TickInv, Drawn, Reached, ComputeHeld
        <4>2. CASE att[a].state # "FREE" /\ att[a].pool = p
          <5>1. ~Current(a)'
            BY <1>1, <1>t, <3>2, <3>9, <3>n, <4>2 DEF Current
          <5> QED
            BY <5>1 DEF ComputeHeld
        <4>3. CASE att[a].state # "FREE" /\ att[a].pool # p
          BY <1>1, <2>i, <3>1, <3>2, <4>3 DEF TickInv, Drawn, ComputeHeld, Current
        <4> QED
          BY <4>1, <4>2, <4>3
      <3> QED
        BY <3>4, <3>5, <3>6, <3>7 DEF TickInv
    <2>3. ASSUME NEW mode \in Stops, OperatorConfirms(p, mode) PROVE TickInv(a)'
      <3>1. /\ UNCHANGED <<engine, down>> /\ p \in down
            /\ \A q \in Pool : pool'[q].epoch = pool[q].epoch
            /\ settling'[a] = settling[a] \/ att[a].pool = p
        BY <1>t, <2>3 DEF OperatorConfirms, ConfirmStopped, xvars, PoolRow
      <3>2. Drawn(a)' /\ IntentFirst(a)' /\ Reached(a)' /\ StopProven(a)'
        BY <1>1, <2>i, <3>1 DEF TickInv, Drawn, IntentFirst, Reached, StopProven
      <3>3. ReclaimSafe(a)' /\ RefundSafe(a)'
        BY <1>1, <2>i, <3>1 DEF TickInv, ReclaimSafe, RefundSafe, Unsendable
      <3>4. ComputeHeld(a)'
        BY <1>1, <2>i, <3>1 DEF TickInv, Drawn, Reached, ComputeHeld, Current
      <3> QED
        BY <3>2, <3>3, <3>4 DEF TickInv
    <2> QED
      BY <2>1, <2>2, <2>3
  <1> QED
    BY <1>1, <1>2 DEF ExecInv

\* Probes, confirmed stops and the reconciler settle what no engine computes, or
\* what a lapsed owner left behind.
LEMMA SettledInv ==
  ASSUME XTypeOK, AttemptInv, ExecInv, NEW a \in Attempt, UNCHANGED xvars,
         \/ SettleIdleUnknown(a) /\ engine[a] # "RUNNING"
         \/ SettleConfirmed(a) \/ SettleLostResult(a)
         \/ ReclaimReserved(a) \/ ReclaimSent(a)
  PROVE  ExecInv'
  <1>t. TypeOK /\ settling \in [Attempt -> {"NO", "FAIL", "RECOVER"}]
        /\ scan \in [Attempt -> AttemptState]
    BY DEF XTypeOK, TypeOK
  <1>i. TickInv(a) /\ Fresh(a) /\ Opened(a)
    BY DEF ExecInv, AttemptInv
  <1>1. Alters(a) /\ TickStays(a)
    BY DEF Alters, Around, TickStays, xvars, SettleIdleUnknown, SettleConfirmed,
           SettleLostResult, ReclaimReserved, ReclaimSent, SettleStopped
  <1> USE DEF PlaceStays, EpochsStay, LeaseKept, Around, TickStays
  <1>2. ASSUME Writes(a), att'[a].state = "FAILED", att'[a].sent = att[a].sent,
               att[a].state # "FREE",
               \/ engine[a] # "RUNNING" /\ pc[a] \notin {"MARKED", "SENDING"}
               \/ ~LeaseKept(a) \/ att[a].pool \in down
               \/ att'[a].compute = att[a].compute
        PROVE  ExecInv'
    <2>1. Drawn(a)' /\ IntentFirst(a)' /\ Reached(a)' /\ StopProven(a)'
      BY <1>1, <1>2, <1>i DEF Writes, Alters, TickInv, Drawn, IntentFirst, Reached, StopProven
    <2>2. ReclaimSafe(a)' /\ RefundSafe(a)'
      BY <1>1, <1>2, <1>i DEF Writes, Alters, TickInv, ReclaimSafe, RefundSafe
    <2>3. ComputeHeld(a)'
      BY <1>1, <1>2, <1>i DEF Writes, Alters, TickInv, Drawn, Reached, ComputeHeld, Current
    <2>4. TickInv(a)'
      BY <2>1, <2>2, <2>3 DEF TickInv
    <2> QED
      BY <1>1, <1>2, <2>4, StepOf
  <1>3. CASE SettleIdleUnknown(a) /\ engine[a] # "RUNNING"
    <2>1. Writes(a) /\ att'[a].state = "FAILED" /\ att'[a].sent = att[a].sent
      BY <1>3, <1>t, SettleStoppedWrites DEF SettleIdleUnknown
    <2>2. att[a].state = "UNKNOWN" /\ (LeaseKept(a) => pc[a] = "OVER")
      BY <1>3, <1>i DEF SettleIdleUnknown, TickInv, ReclaimSafe
    <2> QED
      BY <1>2, <1>3, <2>1, <2>2
  <1>4. CASE SettleConfirmed(a)
    <2>1. Writes(a) /\ att'[a].state = "FAILED" /\ att'[a].sent = att[a].sent
      <3>1. \A b \in Attempt : settling'[b] \in {settling[b], "NO"}
        BY <1>4, <1>t DEF SettleConfirmed
      <3>2. SettleStopped(a, settling[a] = "RECOVER")
        BY <1>4 DEF SettleConfirmed
      <3> QED
        BY <1>t, <3>1, <3>2, SettleStoppedWrites
    <2>2. att[a].state # "FREE" /\ att[a].pool \in down
      BY <1>4, <1>i DEF SettleConfirmed, TickInv, StopProven, Opened
    <2> QED
      BY <1>2, <2>1, <2>2
  <1>5. CASE SettleLostResult(a)
    <2>1. /\ Writes(a) /\ att'[a].state = "FAILED" /\ att'[a].sent = att[a].sent
          /\ ~att'[a].compute
      BY <1>5, <1>t, SettleStoppedWrites DEF SettleLostResult
    <2>2. att[a].state # "FREE" /\ ~att[a].compute
      BY <1>5 DEF SettleLostResult, Lost
    <2>3. att'[a].compute = att[a].compute
      <3>1. att \in [Attempt -> AttemptRow]
        BY <1>t DEF TypeOK
      <3> QED
        BY <1>5, <2>2, <3>1 DEF SettleLostResult, SettleStopped, AttemptRow
    <2> QED
      BY <1>2, <2>1, <2>2, <2>3
  <1>6. CASE ReclaimReserved(a)
    <2>1. Writes(a) /\ att'[a].sent = att[a].sent
      BY <1>6, <1>t, ReclaimWrites
    <2>2. /\ att'[a].state = "FAILED_NOT_SENT" /\ scan[a] = "RESERVED" /\ scan'[a] = "FREE"
          /\ raced' = {} => att[a].state = "RESERVED"
      BY <1>6, <1>t DEF ReclaimReserved, TypeOK, AttemptRow
    <2>3. /\ LeaseKept(a) => ~att[a].sent
          /\ att[a].state # "FREE"
      BY <1>i, <2>2 DEF TickInv, ReclaimSafe, Opened
    <2>4. raced' = {} => ~att[a].sent
      BY <1>i, <2>2 DEF Fresh
    <2>5. Drawn(a)' /\ IntentFirst(a)' /\ Reached(a)' /\ StopProven(a)'
      BY <1>1, <1>i, <2>1, <2>2, <2>3 DEF Writes, Alters, TickInv, Drawn, IntentFirst, Reached,
         StopProven
    <2>6. ReclaimSafe(a)' /\ ComputeHeld(a)'
      BY <1>1, <1>i, <2>1, <2>2, <2>3 DEF Writes, Alters, TickInv, Drawn, IntentFirst,
         ReclaimSafe, ComputeHeld
    <2>7. RefundSafe(a)'
      BY <1>1, <1>i, <2>1, <2>4 DEF TickInv, IntentFirst, RefundSafe
    <2>8. TickInv(a)'
      BY <2>5, <2>6, <2>7 DEF TickInv
    <2> QED
      BY <1>1, <2>1, <2>8, StepOf
  <1>7. CASE ReclaimSent(a)
    <2>1. Writes(a) /\ att'[a].sent = att[a].sent
      BY <1>7, <1>t, ReclaimWrites
    <2>2. /\ att'[a].state = "UNKNOWN" /\ scan[a] \in {"SEND_INTENT", "BACKEND_FINISHED"}
          /\ scan'[a] = "FREE"
      BY <1>7, <1>t DEF ReclaimSent, TypeOK, AttemptRow
    <2>3. ~LeaseKept(a) /\ att[a].state # "FREE"
      BY <1>i, <2>2 DEF TickInv, ReclaimSafe, Opened
    <2>5. Drawn(a)' /\ IntentFirst(a)' /\ Reached(a)' /\ StopProven(a)'
      BY <1>1, <1>i, <2>1, <2>2, <2>3 DEF Writes, Alters, TickInv, Drawn, IntentFirst, Reached,
         StopProven
    <2>6. ReclaimSafe(a)' /\ ComputeHeld(a)' /\ RefundSafe(a)'
      BY <1>1, <1>i, <2>1, <2>2, <2>3 DEF Writes, Alters, ReclaimSafe, ComputeHeld, RefundSafe
    <2>8. TickInv(a)'
      BY <2>5, <2>6 DEF TickInv
    <2> QED
      BY <1>1, <2>1, <2>8, StepOf
  <1> QED
    BY <1>3, <1>4, <1>5, <1>6, <1>7

\* reconcile_expired selects what a lapsed owner left, or what cannot be sent.
LEMMA ScanInv ==
  ASSUME XTypeOK, AttemptInv, ExecInv, ReconcileScan, UNCHANGED xvars
  PROVE  ExecInv'
  <1>t. op \in [Operation -> OpRow]
    BY DEF XTypeOK, TypeOK
  <1>1. UNCHANGED <<att, pool, raced, settling, alive, pc, engine, down, lapsed>>
    BY DEF ReconcileScan, history, xvars
  <1>2. NoneReserved
    BY <1>t, TerminateAllNot DEF ReconcileScan
  <1>3. ASSUME NEW a \in Attempt PROVE TickInv(a)'
    <2> USE DEF LeaseKept
    <2>i. TickInv(a) /\ Fresh(a)
      BY DEF ExecInv, AttemptInv
    <2>1. Drawn(a)' /\ IntentFirst(a)' /\ Reached(a)' /\ StopProven(a)'
      BY <1>1, <2>i DEF TickInv, Drawn, IntentFirst, Reached, StopProven
    <2>2. ComputeHeld(a)' /\ RefundSafe(a)'
      BY <1>1, <2>i DEF TickInv, ComputeHeld, RefundSafe, Current
    <2>3. scan'[a] = IF Reclaimable(a) THEN att[a].state ELSE "FREE"
      BY DEF ReconcileScan
    <2>4. att[a].state # "FREE" /\ Lapsed(a) => ~LeaseKept(a)
      BY <2>i DEF Lapsed, OwnerAlive, TickInv, Drawn, ExecInv
    <2>5. Reclaimable(a) /\ LeaseKept(a) =>
            att[a].state = "RESERVED" /\ (op[OpOf[a]].state \in OpFinal \/ op[OpOf[a]].expired)
      BY <2>4 DEF Reclaimable
    <2>6. op[OpOf[a]].state \in OpFinal \/ op[OpOf[a]].expired => Unsendable(a)'
      BY UnsendableStays, <1>2 DEF Unsendable
    <2>7. ReclaimSafe(a)'
      BY <1>1, <2>i, <2>3, <2>5, <2>6 DEF TickInv, ReclaimSafe, Fresh
    <2> QED
      BY <2>1, <2>2, <2>7 DEF TickInv
  <1> QED
    BY <1>1, <1>3 DEF ExecInv

\* What clients, time, the reconciler and administrators do around the ticks.
LEMMA LedgerStepInv ==
  ASSUME XTypeOK, AttemptInv, ExecInv, LedgerStep
  PROVE  ExecInv'
  <1>x. UNCHANGED xvars /\ TypeOK
    BY DEF LedgerStep, XTypeOK
  <1>1. ASSUME Calm, alive' = alive PROVE ExecInv'
    BY <1>1, <1>x, CalmInv DEF xvars, TickStays, Around, ExecInv
  <1>2. CASE \/ \E r \in Root : RootDeadline(r)
             \/ \E o \in Operation : OperationDeadline(o)
             \/ \E a \in Attempt : AttemptLeaseLapse(a)
    <2>1. Calm
      BY <1>2, <1>x, TimeCalm DEF TimeStep
    <2> QED
      BY <1>1, <1>2, <2>1 DEF RootDeadline, OperationDeadline, AttemptLeaseLapse
  <1>3. CASE \/ \E r \in Root : \/ CreateRoot(r) \/ CancelRead(r) \/ CancelWrite(r)
                                \/ FinishCount(r) \/ FinishWrite(r)
                                \/ \E s \in FinishAs : FinishRead(r, s)
             \/ \E o \in Operation : SubmitOperation(o) \/ BindRead(o) \/ BindWrite(o)
    <2>1. ClientStep
      BY <1>3 DEF ClientStep
    <2>2. Calm
      BY <1>x, <2>1, ClientCalm
    <2> QED
      BY <1>1, <1>3, <2>2 DEF CreateRoot, CancelRead, CancelWrite, FinishCount, FinishWrite,
         FinishRead, SubmitOperation, BindRead, BindWrite, rows
  <1>4. CASE \E p \in Pool, o \in Operation : RefuseCandidate(p, o)
    <2>1. Calm
      BY <1>4, <1>x, OwnerCalm
    <2> QED
      BY <1>1, <1>4, <2>1 DEF RefuseCandidate
  <1>5. CASE \/ ReconcileFinish
             \/ \E p \in Pool, t \in Token : QuiesceEngine(p, t) \/ ResumeEngine(p, t)
    <2>1. Calm
      BY <1>5, <1>x, MaintenanceCalm
    <2> QED
      BY <1>1, <1>5, <2>1 DEF ReconcileFinish, QuiesceEngine, ResumeEngine
  <1>6. CASE ReconcileScan
    BY <1>6, <1>x, ScanInv
  <1>7. CASE \E a \in Attempt : \/ SettleConfirmed(a) \/ ReclaimReserved(a)
                                \/ ReclaimSent(a) \/ SettleLostResult(a)
    BY <1>7, <1>x, SettledInv
  <1> QED
    BY <1>2, <1>3, <1>4, <1>5, <1>6, <1>7 DEF LedgerStep, ReconcilerStep

\* Every step.
LEMMA ExecStep ==
  ASSUME XTypeOK, AttemptInv, ExecInv, [XNext]_allvars
  PROVE  ExecInv'
  <1>1. CASE LedgerStep
    BY <1>1, LedgerStepInv
  <1>2. ASSUME NEW p \in Pool, NEW w \in Owner, NEW a \in Attempt, Tick(p, w, a)
        PROVE  ExecInv'
    BY <1>2, TickStarts
  <1>3. ASSUME NEW a \in Attempt, OpenCall(a) \/ TickHeartbeat(a) PROVE ExecInv'
    <2>1. Calm /\ alive' = alive /\ UNCHANGED xvars
      BY <1>3, OwnerCalm DEF OpenCall, TickHeartbeat, Owned, Heartbeat, XTypeOK, rows
    <2> QED
      BY <2>1, CalmInv DEF xvars, TickStays, Around, ExecInv
  <1>4. ASSUME NEW a \in Attempt, TickStep(a) \/ Shutdown(a) PROVE ExecInv'
    BY <1>3, <1>4, DriveInv, WritesInv, EngineInv DEF TickStep
  <1>5. ASSUME NEW a \in Attempt, EngineAnswers(a) PROVE ExecInv'
    BY <1>5, EngineInv
  <1>6. ASSUME NEW a \in Attempt, ProbedIdle(a) PROVE ExecInv'
    BY <1>6, SettledInv DEF ProbedIdle
  <1>7. ASSUME NEW w \in Owner, Crash(w) \/ LeaseLost(w) \/ LeaseRenewed(w) PROVE ExecInv'
    BY <1>7, OwnersInv
  <1>8. ASSUME NEW p \in Pool, \/ EngineStops(p) \/ EngineRestarts(p)
                               \/ \E mode \in Stops : OperatorConfirms(p, mode)
        PROVE  ExecInv'
    BY <1>8, EnginesInv
  <1>9. CASE UNCHANGED allvars
    <2>1. Calm /\ alive' = alive /\ UNCHANGED xvars
      BY <1>9 DEF allvars, vars, rows, open, history, Calm, RowStays, PlaceStays, EpochsStay,
                  Unsendable
    <2> QED
      BY <2>1, CalmInv DEF xvars, TickStays, Around, ExecInv
  <1>10. CASE ApiRestarts
    <2>1. Calm /\ alive' = alive /\ UNCHANGED <<pc, engine, down, lapsed>>
      BY <1>10 DEF ApiRestarts, vars, rows, open, history, Calm, RowStays, PlaceStays,
                   EpochsStay, Unsendable
    <2> QED
      BY <2>1, CalmInv DEF TickStays, Around, ExecInv
  <1> QED
    BY <1>1, <1>2, <1>3, <1>4, <1>5, <1>6, <1>7, <1>8, <1>9, <1>10 DEF XNext

\* Nothing has been drawn at first.
LEMMA ExecInit == XInit => ExecInv
  BY StructureAssumption DEF XInit, Init, FreeRow, ExecInv, TickInv, Drawn, IntentFirst,
     Reached, StopProven, ReclaimSafe, ComputeHeld, RefundSafe, LeaseKept, Unsendable

\* The invariant holds of every execution.
LEMMA ExecInvariant == XSpec => []ExecInv
  <1>1. XSpec => [](XTypeOK /\ AttemptInv)
    BY ExecutorTypeCorrect, ExecutorUsesLedger, AttemptInvariant, PTL
  <1>2. ExecInv /\ XTypeOK /\ AttemptInv /\ [XNext]_allvars => ExecInv'
    BY ExecStep
  <1> QED
    BY <1>1, <1>2, ExecInit, PTL DEF XSpec

(* The engine never computes for an attempt that the ledger has released:  *)
(* whatever is cancelled, expired, reclaimed, probed, refunded, stopped or *)
(* restarted, running compute stays accounted for as long as the owner of  *)
(* the attempt has kept its lease and the epoch is the pool's.             *)
THEOREM ComputeStaysAccounted == XSpec => []ComputeAccounted
  <1>1. ExecInv => ComputeAccounted
    BY DEF ExecInv, TickInv, StopProven, ComputeHeld, LeaseKept, ComputeAccounted, Computing
  <1> QED
    BY <1>1, ExecInvariant, PTL

(* fail(not_sent) and reconcile_expired refund only what no engine has     *)
(* ever received.                                                          *)
THEOREM RefundsAreUnsent == XSpec => []RefundOnlyUnsent
  <1>1. ExecInv => RefundOnlyUnsent
    BY DEF ExecInv, TickInv, RefundSafe, RefundOnlyUnsent
  <1> QED
    BY <1>1, ExecInvariant, PTL

-----------------------------------------------------------------------------
(* What an unsettled attempt carries.                                      *)

\* What a row must carry for a settlement to reach it: compute while it may have
\* been sent, the end of the backend once that is known, and no result before its
\* commit.
CarriedRow(row) ==
  /\ row.committed => row.state \in AttemptFinal
  /\ row.state = "SEND_INTENT" => row.compute
  /\ row.state = "BACKEND_FINISHED" => row.finished
  /\ row.state = "UNKNOWN" => row.compute \/ row.finished

\* As long as no reclaim raced, every row does.
CarriedInv == raced = {} => \A a \in Attempt : CarriedRow(att[a])

\* A step that keeps it of every row (or a reclaim has raced).
RowsCarry ==
  raced' = {} => /\ raced = {}
                 /\ \A a \in Attempt : CarriedRow(att[a]) => CarriedRow(att'[a])

\* A step that leaves the rows alone, or renews or ends the lease of one.
LEMMA LeaseCarries ==
  ASSUME TypeOK, raced' = raced,
         \/ att' = att
         \/ \E a \in Attempt, held \in BOOLEAN : att' = [att EXCEPT ![a].lease = held]
  PROVE  RowsCarry
  <1>1. ASSUME NEW b \in Attempt
        PROVE  /\ att'[b].state = att[b].state /\ att'[b].compute = att[b].compute
               /\ att'[b].finished = att[b].finished /\ att'[b].committed = att[b].committed
    <2>t. att \in [Attempt -> AttemptRow]
      BY DEF TypeOK
    <2>1. CASE att' = att
      BY <2>1
    <2>2. ASSUME NEW a \in Attempt, NEW held \in BOOLEAN,
                 att' = [att EXCEPT ![a].lease = held]
          PROVE  /\ att'[b].state = att[b].state /\ att'[b].compute = att[b].compute
                 /\ att'[b].finished = att[b].finished
                 /\ att'[b].committed = att[b].committed
      BY <2>t, <2>2 DEF AttemptRow
    <2> QED
      BY <2>1, <2>2
  <1> QED
    BY <1>1 DEF RowsCarry, CarriedRow

\* Clients and time.
LEMMA AroundCarries ==
  ASSUME TypeOK, TimeStep \/ ClientStep
  PROVE  RowsCarry
  <1>1. CASE TimeStep
    BY <1>1, LeaseCarries DEF TimeStep, RootDeadline, OperationDeadline, AttemptLeaseLapse,
       OwnerLapse, HeartbeatOwner, history
  <1>2. CASE ClientStep
    BY <1>2, LeaseCarries DEF ClientStep, CreateRoot, CancelRead, CancelWrite, FinishRead,
       FinishCount, FinishWrite, SubmitOperation, BindRead, BindWrite, rows, history
  <1> QED
    BY <1>1, <1>2

\* The transactions of an owner, and the end of an attempt that was sent.
LEMMA OwnerCarries ==
  ASSUME TypeOK, NEW a \in Attempt,
         \/ Owned(a) \/ Rollback(a) \/ Heartbeat(a) \/ MarkSend(a) \/ ComputeFinished(a)
         \/ att[a].state \notin {"FREE", "RESERVED"} /\ Unknown(a)
         \/ \E u \in Usage : CommitResult(a, u)
         \/ \E notSent, retry \in BOOLEAN : Fail(a, notSent, retry)
  PROVE  RowsCarry
  <1>t. att \in [Attempt -> AttemptRow] /\ att[a] \in AttemptRow
    BY DEF TypeOK
  <1>1. CASE Owned(a) \/ Rollback(a) \/ Heartbeat(a)
    BY <1>1, LeaseCarries DEF Owned, Rollback, Heartbeat, rows, history
  <1>2. ASSUME \A b \in Attempt \ {a} : att'[b] = att[b], raced' = raced,
               CarriedRow(att[a]) => CarriedRow(att'[a])
        PROVE  RowsCarry
    BY <1>2 DEF RowsCarry
  <1>3. CASE MarkSend(a)
    BY <1>2, <1>3, <1>t DEF MarkSend, Sendable, CarriedRow, AttemptRow, history
  <1>4. CASE ComputeFinished(a)
    BY <1>2, <1>4, <1>t DEF ComputeFinished, CarriedRow, AttemptRow, history
  <1>5. CASE att[a].state \notin {"FREE", "RESERVED"} /\ Unknown(a)
    BY <1>2, <1>5, <1>t DEF Unknown, CarriedRow, AttemptRow, history
  <1>6. ASSUME NEW u \in Usage, CommitResult(a, u) PROVE RowsCarry
    BY <1>2, <1>6, <1>t DEF CommitResult, CarriedRow, AttemptRow
  <1>7. ASSUME NEW notSent \in BOOLEAN, NEW retry \in BOOLEAN, Fail(a, notSent, retry)
        PROVE  RowsCarry
    <2>1. /\ att' = [att EXCEPT ![a].state = IF notSent THEN "FAILED_NOT_SENT" ELSE "FAILED",
                                ![a].compute = FALSE, ![a].budget = FALSE]
          /\ raced' = raced
      BY <1>7 DEF Fail
    <2>2. att'[a].state \in AttemptFinal /\ \A b \in Attempt \ {a} : att'[b] = att[b]
      BY <1>t, <2>1 DEF AttemptRow
    <2> QED
      BY <1>2, <2>1, <2>2 DEF CarriedRow
  <1> QED
    BY <1>1, <1>3, <1>4, <1>5, <1>6, <1>7

\* The reconciler, probes, operators and administrators.
LEMMA MaintenanceCarries ==
  ASSUME TypeOK, MaintenanceStep
  PROVE  RowsCarry
  <1>t. att \in [Attempt -> AttemptRow] /\ scan \in [Attempt -> AttemptState]
    BY DEF TypeOK
  <1>1. CASE \/ ReconcileScan \/ ReconcileFinish
             \/ \E p \in Pool, mode \in Stops : ConfirmStopped(p, mode)
             \/ \E p \in Pool, t \in Token : QuiesceEngine(p, t) \/ ResumeEngine(p, t)
             \/ \E p \in Pool : ConfigurePool(p)
    BY <1>1, LeaseCarries DEF ReconcileScan, ReconcileFinish, ConfirmStopped, QuiesceEngine,
       ResumeEngine, ConfigurePool, history
  <1>2. ASSUME NEW a \in Attempt, ReclaimReserved(a) PROVE RowsCarry
    <2>1. /\ att' = [att EXCEPT ![a].state = "FAILED_NOT_SENT", ![a].compute = FALSE]
          /\ raced' = {} => raced = {}
      BY <1>2 DEF ReclaimReserved
    <2>2. att'[a].state \in AttemptFinal /\ \A b \in Attempt \ {a} : att'[b] = att[b]
      BY <1>t, <2>1 DEF AttemptRow
    <2> QED
      BY <2>1, <2>2 DEF RowsCarry, CarriedRow
  <1>3. ASSUME NEW a \in Attempt, ReclaimSent(a) PROVE RowsCarry
    <2>1. /\ att' = [att EXCEPT ![a].state = "UNKNOWN"]
          /\ raced' = {} => /\ raced = {}
                            /\ att[a].state \in {"SEND_INTENT", "BACKEND_FINISHED"}
      BY <1>3 DEF ReclaimSent
    <2>2. /\ att'[a] = [att[a] EXCEPT !.state = "UNKNOWN"]
          /\ \A b \in Attempt \ {a} : att'[b] = att[b]
      BY <1>t, <2>1
    <2>3. raced' = {} /\ CarriedRow(att[a]) => CarriedRow(att'[a])
      BY <1>t, <2>1, <2>2 DEF CarriedRow, AttemptRow
    <2> QED
      BY <2>1, <2>2, <2>3 DEF RowsCarry
  <1>4. ASSUME NEW a \in Attempt, NEW recover, SettleStopped(a, recover) PROVE RowsCarry
    <2>1. /\ att' = [att EXCEPT ![a].state = "FAILED", ![a].compute = FALSE,
                                ![a].budget = FALSE, ![a].finished = TRUE]
          /\ raced' = raced
      BY <1>4 DEF SettleStopped
    <2>2. att'[a].state \in AttemptFinal /\ \A b \in Attempt \ {a} : att'[b] = att[b]
      BY <1>t, <2>1 DEF AttemptRow
    <2> QED
      BY <2>1, <2>2 DEF RowsCarry, CarriedRow
  <1> QED
    BY <1>1, <1>2, <1>3, <1>4
    DEF MaintenanceStep, SettleLostResult, SettleIdleUnknown, SettleConfirmed

\* A new attempt carries nothing; refused candidates and dead owners change no row.
LEMMA DrawCarries ==
  ASSUME TypeOK,
         \/ \E p \in Pool, o \in Operation : RefuseCandidate(p, o)
         \/ \E w \in Owner : OwnerCrash(w)
         \/ \E p \in Pool, w \in Owner, a \in Attempt : Reserve(p, w, a)
  PROVE  RowsCarry
  <1>t. att \in [Attempt -> AttemptRow]
    BY DEF TypeOK
  <1>1. CASE \/ \E p \in Pool, o \in Operation : RefuseCandidate(p, o)
             \/ \E w \in Owner : OwnerCrash(w)
    BY <1>1, LeaseCarries DEF RefuseCandidate, OwnerCrash, rows, history
  <1>2. ASSUME NEW p \in Pool, NEW w \in Owner, NEW a \in Attempt, Reserve(p, w, a)
        PROVE  RowsCarry
    <2>1. /\ att' = [att EXCEPT ![a] = [FreeRow EXCEPT !.state = "RESERVED", !.pool = p,
                       !.epoch = pool[p].epoch, !.owner = w, !.lease = TRUE]]
          /\ raced' = raced
      BY <1>2 DEF Reserve, history
    <2>2. CarriedRow(att'[a]) /\ \A b \in Attempt \ {a} : att'[b] = att[b]
      BY <1>t, <2>1 DEF FreeRow, CarriedRow
    <2> QED
      BY <2>1, <2>2 DEF RowsCarry
  <1> QED
    BY <1>1, <1>2

\* Every step of executors, engines and operators: the end of an uncertain attempt
\* comes after its send intent.
LEMMA ExecCarries ==
  ASSUME XTypeOK, AttemptInv, ExecInv, [XNext]_allvars
  PROVE  RowsCarry
  <1>t. TypeOK
    BY DEF XTypeOK
  <1>0. CASE UNCHANGED vars
    BY <1>0, <1>t, LeaseCarries DEF vars, rows, history
  <1>1. CASE LedgerStep
    <2>1. \/ TimeStep \/ ClientStep \/ MaintenanceStep
          \/ \E p \in Pool, o \in Operation : RefuseCandidate(p, o)
      BY <1>1 DEF LedgerStep, ReconcilerStep, TimeStep, ClientStep, MaintenanceStep
    <2> QED
      BY <1>t, <2>1, AroundCarries, MaintenanceCarries, DrawCarries
  <1>2. ASSUME NEW p \in Pool, NEW w \in Owner, NEW a \in Attempt, Tick(p, w, a)
        PROVE  RowsCarry
    BY <1>2, <1>t, DrawCarries DEF Tick
  <1>3. ASSUME NEW a \in Attempt, TickStep(a) \/ Shutdown(a) \/ TickHeartbeat(a)
        PROVE  RowsCarry
    <2>1. pc[a] = "UNCERTAIN" => att[a].state \notin {"FREE", "RESERVED"}
      BY DEF ExecInv, TickInv, IntentFirst, AttemptInv, Fresh
    <2> QED
      BY <1>0, <1>3, <1>t, <2>1, TickCalls, OwnerCarries
  <1>4. ASSUME NEW a \in Attempt, EngineAnswers(a) \/ ProbedIdle(a) PROVE RowsCarry
    BY <1>0, <1>4, <1>t, MaintenanceCarries DEF EngineAnswers, ProbedIdle, MaintenanceStep
  <1>5. ASSUME NEW w \in Owner, Crash(w) \/ LeaseLost(w) \/ LeaseRenewed(w)
        PROVE  RowsCarry
    BY <1>5, <1>t, DrawCarries, AroundCarries DEF Crash, LeaseLost, LeaseRenewed, TimeStep
  <1>6. ASSUME NEW p \in Pool, \/ EngineStops(p) \/ EngineRestarts(p)
                               \/ \E mode \in Stops : OperatorConfirms(p, mode)
        PROVE  RowsCarry
    BY <1>0, <1>6, <1>t, MaintenanceCarries
    DEF EngineStops, EngineRestarts, OperatorConfirms, MaintenanceStep
  <1>7. CASE ApiRestarts
    BY <1>0, <1>7 DEF ApiRestarts
  <1> QED
    BY <1>0, <1>1, <1>2, <1>3, <1>4, <1>5, <1>6, <1>7 DEF XNext, allvars

(* An UNKNOWN attempt is never left for good with its budget and its       *)
(* drain: whatever crashes, answers, expires, is cancelled, probed or      *)
(* stopped, a probe, a confirmed stop or _settle_lost_results can still    *)
(* settle it, unless reconcile_expired reclaimed a row that had moved on   *)
(* since its scan.                                                         *)
THEOREM UnknownIsSettleable == XSpec => []UnknownSettleableUnlessRaced
  <1>1. XSpec => [](XTypeOK /\ AttemptInv)
    BY ExecutorTypeCorrect, ExecutorUsesLedger, AttemptInvariant, PTL
  <1>2. XInit => CarriedInv
    BY DEF XInit, Init, FreeRow, CarriedInv, CarriedRow
  <1>3. CarriedInv /\ RowsCarry => CarriedInv'
    BY DEF CarriedInv, RowsCarry
  <1>4. CarriedInv /\ XTypeOK /\ AttemptInv /\ ExecInv /\ [XNext]_allvars => CarriedInv'
    BY <1>3, ExecCarries
  <1>5. CarriedInv => UnknownSettleableUnlessRaced
    BY DEF CarriedInv, CarriedRow, UnknownSettleableUnlessRaced, UnknownSettleable
  <1> QED
    BY <1>1, <1>2, <1>4, <1>5, ExecInvariant, PTL DEF XSpec
=============================================================================
