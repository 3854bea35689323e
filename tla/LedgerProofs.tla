---------------------------- MODULE LedgerProofs ----------------------------
(* Theorems about module Ledger, for every value of its constants.         *)
EXTENDS Ledger, TLAPS

USE DEF RootFinal, RootState, OpFinal, OpQueued, OpState, AttemptFinal, AttemptState

\* The empty ledger is well typed.
LEMMA InitType == Init => TypeOK
  <1> SUFFICES ASSUME Init PROVE TypeOK
    OBVIOUS
  <1> USE DEF Init
  <1>1. root \in [Root -> RootRow] /\ op \in [Operation -> OpRow]
    BY DEF RootRow, OpRow
  <1>2. att \in [Attempt -> AttemptRow]
    BY DEF AttemptRow, FreeRow
  <1>3. /\ budget \in [Account -> [reserved : Int, spent : Nat]]
        /\ pool \in [Pool -> PoolRow]
        /\ overrun \in [Account -> Nat]
    BY DEF PoolRow, Health
  <1>4. snap \in [Attempt -> Snapshot] /\ finishing \in [Root -> Finishing]
    BY DEF Snapshot, Closed, Finishing, NotFinishing, FinishState
  <1>5. /\ binder \in [Operation -> OpState]
        /\ scan \in [Attempt -> AttemptState]
        /\ settling \in [Attempt -> {"NO", "FAIL", "RECOVER"}]
    OBVIOUS
  <1>6. reconciler \in {"IDLE", "SCANNED"}
    OBVIOUS
  <1> QED
    BY <1>1, <1>2, <1>3, <1>4, <1>5, <1>6, Zenon DEF TypeOK

\* A deadline or a lease that runs out keeps every row well typed.
LEMMA TimeType == TypeOK /\ TimeStep => TypeOK'
  <1> SUFFICES ASSUME TypeOK, TimeStep PROVE TypeOK'
    OBVIOUS
  <1>t. /\ root \in [Root -> RootRow] /\ op \in [Operation -> OpRow]
        /\ att \in [Attempt -> AttemptRow]
    BY DEF TypeOK
  <1>1. ASSUME NEW r \in Root, RootDeadline(r) PROVE TypeOK'
    <2>1. root' \in [Root -> RootRow]
      BY <1>t, <1>1 DEF RootDeadline, RootRow
    <2> QED
      BY <1>1, <2>1 DEF TypeOK, RootDeadline, open, history
  <1>2. ASSUME NEW o \in Operation, OperationDeadline(o) PROVE TypeOK'
    <2>1. op' \in [Operation -> OpRow]
      BY <1>t, <1>2 DEF OperationDeadline, OpRow
    <2> QED
      BY <1>2, <2>1 DEF TypeOK, OperationDeadline, open, history
  <1>3. ASSUME NEW a \in Attempt, AttemptLeaseLapse(a) PROVE TypeOK'
    <2>0. att[a] \in AttemptRow
      BY <1>t
    <2>1. [att[a] EXCEPT !.lease = FALSE] \in AttemptRow
      BY <2>0 DEF AttemptRow
    <2>2. att' \in [Attempt -> AttemptRow]
      BY <1>t, <1>3, <2>1 DEF AttemptLeaseLapse
    <2> QED
      BY <1>3, <2>2 DEF TypeOK, AttemptLeaseLapse, open, history
  <1>4. ASSUME NEW w \in Owner, OwnerLapse(w) \/ HeartbeatOwner(w) PROVE TypeOK'
    BY <1>4 DEF TypeOK, OwnerLapse, HeartbeatOwner, open, history
  <1> QED
    BY <1>1, <1>2, <1>3, <1>4 DEF TimeStep

\* _terminal leaves an operation row.
LEMMA TerminatedType ==
  ASSUME NEW row \in OpRow, NEW s \in OpFinal
  PROVE  Terminated(row, s) \in OpRow
  BY DEF Terminated, OpRow

\* So does _terminal on a set of operations.
LEMMA TerminateAllType ==
  ASSUME op \in [Operation -> OpRow], NEW S, NEW s \in OpFinal, TerminateAll(S, s)
  PROVE  op' \in [Operation -> OpRow]
  BY TerminatedType DEF TerminateAll

\* Completion events are events of operations.
LEMMA EventsType ==
  ASSUME events \subseteq Operation, NEW S \in SUBSET Operation, CompletionEvents(S)
  PROVE  events' \subseteq Operation
  BY DEF CompletionEvents

\* _settle keeps budgets, roots and pools well typed.
LEMMA SettleType ==
  ASSUME TypeOK, NEW a \in Attempt, NEW usage \in Nat, Settle(a, usage)
  PROVE  /\ budget' \in [Account -> [reserved : Int, spent : Nat]]
         /\ overrun' \in [Account -> Nat]
         /\ root' \in [Root -> RootRow]
         /\ pool' \in [Pool -> PoolRow]
  <1>t. /\ root \in [Root -> RootRow] /\ pool \in [Pool -> PoolRow]
        /\ budget \in [Account -> [reserved : Int, spent : Nat]]
        /\ overrun \in [Account -> Nat]
    BY DEF TypeOK
  <1> DEFINE o == OpOf[a]
             c == AccountOf[o]
  <1>b. o \in Operation /\ RootOf[o] \in Root /\ Bound[o] \in Nat
    BY StructureAssumption, NumberAssumption
  <1>1. budget' \in [Account -> [reserved : Int, spent : Nat]]
    <2>1. CASE c \in Account
      <3>1. [budget[c] EXCEPT !.reserved = @ - Bound[o], !.spent = @ + usage]
              \in [reserved : Int, spent : Nat]
        <4>1. budget[c].reserved \in Int /\ budget[c].spent \in Nat
          BY <1>t, <2>1
        <4>2. budget[c].reserved - Bound[o] \in Int /\ budget[c].spent + usage \in Nat
          BY <4>1, <1>b
        <4> QED
          BY <1>t, <2>1, <4>2
      <3> QED
        BY <1>t, <3>1 DEF Settle
    <2>2. CASE c \notin Account
      BY <1>t, <2>2 DEF Settle
    <2> QED
      BY <2>1, <2>2
  <1>2. overrun' \in [Account -> Nat]
    <2>1. c \in Account /\ usage > Bound[o] => overrun[c] + (usage - Bound[o]) \in Nat
      BY <1>t, <1>b
    <2> QED
      BY <1>t, <2>1 DEF Settle
  <1>3. root' \in [Root -> RootRow]
    <2>1. [root[RootOf[o]] EXCEPT !.state = "FAILED"] \in RootRow
      BY <1>t, <1>b DEF RootRow
    <2> QED
      BY <1>t, <2>1 DEF Settle
  <1>4. pool' \in [Pool -> PoolRow]
    BY <1>t DEF Settle, PoolRow, Health
  <1> QED
    BY <1>1, <1>2, <1>3, <1>4

\* The transactions of clients and workflows keep every row well typed.
LEMMA ClientType == TypeOK /\ ClientStep => TypeOK'
  <1> SUFFICES ASSUME TypeOK, ClientStep PROVE TypeOK'
    OBVIOUS
  <1>t. /\ root \in [Root -> RootRow] /\ op \in [Operation -> OpRow]
        /\ finishing \in [Root -> Finishing] /\ events \subseteq Operation
        /\ cancelling \subseteq Root
    BY DEF TypeOK
  <1>s. ASSUME NEW r PROVE OpsOf(r) \in SUBSET Operation
    BY DEF OpsOf
  <1>1. ASSUME NEW r \in Root, CreateRoot(r) PROVE TypeOK'
    <2>1. root' \in [Root -> RootRow]
      BY <1>t, <1>1 DEF CreateRoot, RootRow
    <2> QED
      BY <1>1, <2>1 DEF TypeOK, CreateRoot, open, history
  <1>2. ASSUME NEW r \in Root, CancelRead(r) PROVE TypeOK'
    BY <1>2 DEF TypeOK, CancelRead, rows, history
  <1>3. ASSUME NEW r \in Root, CancelWrite(r) PROVE TypeOK'
    <2>1. op' \in [Operation -> OpRow] /\ events' \subseteq Operation
      BY <1>3, <1>t, <1>s, TerminateAllType, EventsType DEF CancelWrite
    <2>2. root' \in [Root -> RootRow]
      BY <1>3, <1>t DEF CancelWrite, RootRow
    <2> QED
      BY <1>3, <2>1, <2>2 DEF TypeOK, CancelWrite, history
  <1>4. ASSUME NEW r \in Root, NEW s \in FinishAs, FinishRead(r, s) PROVE TypeOK'
    <2>1. finishing' \in [Root -> Finishing]
      BY <1>4, <1>t, StructureAssumption DEF FinishRead, Finishing, FinishState
    <2> QED
      BY <1>4, <2>1 DEF TypeOK, FinishRead, rows, history
  <1>5. ASSUME NEW r \in Root, FinishCount(r) PROVE TypeOK'
    <2>1. finishing' \in [Root -> Finishing]
      BY <1>5, <1>t DEF FinishCount, Finishing, NotFinishing, FinishState
    <2> QED
      BY <1>5, <2>1 DEF TypeOK, FinishCount, rows, history
  <1>6. ASSUME NEW r \in Root, FinishWrite(r) PROVE TypeOK'
    <2>1. op' \in [Operation -> OpRow] /\ events' \subseteq Operation
      BY <1>6, <1>t, <1>s, TerminateAllType, EventsType DEF FinishWrite
    <2>2. root' \in [Root -> RootRow]
      BY <1>6, <1>t DEF FinishWrite, RootRow, Finishing, FinishState
    <2>3. finishing' \in [Root -> Finishing]
      BY <1>6, <1>t DEF FinishWrite, Finishing, FinishState, NotFinishing
    <2> QED
      BY <1>6, <2>1, <2>2, <2>3 DEF TypeOK, FinishWrite, history
  <1>7. ASSUME NEW o \in Operation, SubmitOperation(o) PROVE TypeOK'
    <2>1. op' \in [Operation -> OpRow]
      BY <1>7, <1>t DEF SubmitOperation, OpRow
    <2>2. [root[RootOf[o]] EXCEPT !.operations = @ + 1] \in RootRow
      <3>1. root[RootOf[o]] \in RootRow
        BY <1>t, StructureAssumption
      <3>2. root[RootOf[o]].operations + 1 \in Nat
        BY <3>1 DEF RootRow
      <3> QED
        BY <3>1, <3>2 DEF RootRow
    <2>3. root' \in [Root -> RootRow]
      BY <1>7, <1>t, <2>2 DEF SubmitOperation
    <2> QED
      BY <1>7, <2>1, <2>3 DEF TypeOK, SubmitOperation, open, history
  <1>8. ASSUME NEW o \in Operation, BindRead(o) PROVE TypeOK'
    <2>1. op[o].state \in OpState
      BY <1>t DEF OpRow
    <2> QED
      BY <1>8, <2>1 DEF TypeOK, BindRead, rows, history
  <1>9. ASSUME NEW o \in Operation, BindWrite(o) PROVE TypeOK'
    BY <1>9 DEF TypeOK, BindWrite, history
  <1> QED
    BY <1>1, <1>2, <1>3, <1>4, <1>5, <1>6, <1>7, <1>8, <1>9 DEF ClientStep
\* The transactions of an attempt's owner keep every row well typed.
LEMMA OwnerType == TypeOK /\ OwnerStep => TypeOK'
  <1> SUFFICES ASSUME TypeOK, OwnerStep PROVE TypeOK'
    OBVIOUS
  <1>t. /\ root \in [Root -> RootRow] /\ op \in [Operation -> OpRow]
        /\ att \in [Attempt -> AttemptRow] /\ snap \in [Attempt -> Snapshot]
        /\ budget \in [Account -> [reserved : Int, spent : Nat]]
        /\ pool \in [Pool -> PoolRow]
        /\ events \subseteq Operation
    BY DEF TypeOK
  <1>s. ASSUME NEW a \in Attempt
        PROVE  OpOf[a] \in Operation /\ RootOf[OpOf[a]] \in Root /\ Bound[OpOf[a]] \in Nat
    BY StructureAssumption, NumberAssumption
  <1>r. ASSUME NEW a \in Attempt PROVE att[a] \in AttemptRow /\ op[OpOf[a]] \in OpRow
    BY <1>t, <1>s
  <1>c. ASSUME NEW a \in Attempt, Proceeds(a) PROVE snap' \in [Attempt -> Snapshot]
    <2>1. Closed \in Snapshot
      BY DEF Closed, Snapshot
    <2> QED
      BY <1>t, <1>c, <2>1 DEF Proceeds
  <1>1. ASSUME NEW p \in Pool, NEW o \in Operation, RefuseCandidate(p, o) PROVE TypeOK'
    <2>1. op' \in [Operation -> OpRow] /\ events' \subseteq Operation
      BY <1>1, <1>t, TerminateAllType, EventsType DEF RefuseCandidate
    <2> QED
      BY <1>1, <2>1 DEF TypeOK, RefuseCandidate, open, history
  <1>2. ASSUME NEW p \in Pool, NEW w \in Owner, NEW a \in Attempt, Reserve(p, w, a)
        PROVE  TypeOK'
    <2>1. [FreeRow EXCEPT !.state = "RESERVED", !.pool = p, !.epoch = pool[p].epoch,
                          !.owner = w, !.lease = TRUE] \in AttemptRow
      BY <1>t DEF FreeRow, AttemptRow, PoolRow
    <2>2. att' \in [Attempt -> AttemptRow]
      BY <1>2, <1>t, <2>1 DEF Reserve
    <2>3. op' \in [Operation -> OpRow]
      <3>1. op[OpOf[a]] \in OpRow
        BY <1>t, <1>s
      <3>2. [op[OpOf[a]] EXCEPT !.state = "EXECUTING", !.active = a] \in OpRow
        BY <3>1 DEF OpRow
      <3> QED
        BY <1>2, <1>t, <3>2 DEF Reserve
    <2> QED
      BY <1>2, <2>2, <2>3 DEF TypeOK, Reserve, open, history
  <1>3. ASSUME NEW a \in Attempt, Owned(a) PROVE TypeOK'
    <2>1. op[OpOf[a]] \in OpRow /\ root[RootOf[OpOf[a]]] \in RootRow
      BY <1>t, <1>s
    <2>2. [state |-> op[OpOf[a]].state, running |-> root[RootOf[OpOf[a]]].state = "RUNNING",
           cancel |-> root[RootOf[OpOf[a]]].cancel, expired |-> op[OpOf[a]].expired]
            \in Snapshot
      BY <2>1 DEF OpRow, RootRow, Snapshot
    <2>3. snap' \in [Attempt -> Snapshot]
      BY <1>3, <1>t, <2>2 DEF Owned
    <2> QED
      BY <1>3, <2>3 DEF TypeOK, Owned, rows, history
  <1>4. ASSUME NEW a \in Attempt, Rollback(a) PROVE TypeOK'
    BY <1>4, <1>c DEF TypeOK, Rollback, rows, history
  <1>5. ASSUME NEW a \in Attempt, Heartbeat(a) PROVE TypeOK'
    <2>1. [att[a] EXCEPT !.lease = TRUE] \in AttemptRow
      BY <1>r DEF AttemptRow
    <2>2. att' \in [Attempt -> AttemptRow]
      BY <1>t, <1>5, <2>1 DEF Heartbeat
    <2> QED
      BY <1>5, <2>2 DEF TypeOK, Heartbeat, open, history
  <1>6. ASSUME NEW a \in Attempt, MarkSend(a) PROVE TypeOK'
    <2> DEFINE o == OpOf[a]
               r == RootOf[o]
               c == AccountOf[o]
    <2>c. c \in Account
      BY <1>6 DEF MarkSend, SendBudget
    <2>1. op' \in [Operation -> OpRow]
      <3>1. op[o] \in OpRow
        BY <1>t, <1>s
      <3>2. [op[o] EXCEPT !.attempts = @ + 1] \in OpRow
        BY <3>1, op[o].attempts + 1 \in Nat DEF OpRow
      <3> QED
        BY <1>6, <1>t, <3>2 DEF MarkSend
    <2>2. root' \in [Root -> RootRow]
      <3>1. root[r] \in RootRow
        BY <1>t, <1>s
      <3>2. [root[r] EXCEPT !.attempts = @ + 1] \in RootRow
        BY <3>1, root[r].attempts + 1 \in Nat DEF RootRow
      <3> QED
        BY <1>6, <1>t, <3>2 DEF MarkSend
    <2>3. budget' \in [Account -> [reserved : Int, spent : Nat]]
      <3>1. [budget[c] EXCEPT !.reserved = @ + Bound[o]] \in [reserved : Int, spent : Nat]
        BY <1>t, <1>s, <2>c, budget[c].reserved + Bound[o] \in Int
      <3> QED
        BY <1>6, <1>t, <3>1 DEF MarkSend
    <2>4. att' \in [Attempt -> AttemptRow]
      <3>1. [att[a] EXCEPT !.state = "SEND_INTENT", !.compute = TRUE, !.budget = TRUE,
                           !.sent = TRUE] \in AttemptRow
        BY <1>r DEF AttemptRow
      <3> QED
        BY <1>6, <1>t, <3>1 DEF MarkSend
    <2>5. snap' \in [Attempt -> Snapshot]
      BY <1>6, <1>c DEF MarkSend
    <2> QED
      BY <1>6, <2>1, <2>2, <2>3, <2>4, <2>5 DEF TypeOK, MarkSend, history
  <1>7. ASSUME NEW a \in Attempt, ComputeFinished(a) PROVE TypeOK'
    <2>1. [att[a] EXCEPT !.state = "BACKEND_FINISHED", !.compute = FALSE,
                         !.finished = TRUE] \in AttemptRow
      BY <1>r DEF AttemptRow
    <2>2. att' \in [Attempt -> AttemptRow]
      BY <1>7, <1>t, <2>1 DEF ComputeFinished
    <2>3. snap' \in [Attempt -> Snapshot]
      BY <1>7, <1>c DEF ComputeFinished
    <2> QED
      BY <1>7, <2>2, <2>3 DEF TypeOK, ComputeFinished, history
  <1>8. ASSUME NEW a \in Attempt, Unknown(a) PROVE TypeOK'
    <2>1. [att[a] EXCEPT !.state = "UNKNOWN"] \in AttemptRow
      BY <1>r DEF AttemptRow
    <2>2. att' \in [Attempt -> AttemptRow]
      BY <1>8, <1>t, <2>1 DEF Unknown
    <2>3. op' \in [Operation -> OpRow]
      <3>1. [op[OpOf[a]] EXCEPT !.state = "RECONCILING"] \in OpRow
        BY <1>r DEF OpRow
      <3> QED
        BY <1>8, <1>t, <1>s, <3>1, TerminatedType DEF Unknown
    <2>4. snap' \in [Attempt -> Snapshot] /\ events' \subseteq Operation
      BY <1>8, <1>c, <1>t, <1>s, EventsType DEF Unknown
    <2> QED
      BY <1>8, <2>2, <2>3, <2>4 DEF TypeOK, Unknown, history
  <1>9. ASSUME NEW a \in Attempt, NEW u \in Usage, CommitResult(a, u) PROVE TypeOK'
    <2>1. [att[a] EXCEPT !.state = "RESULT_COMMITTED", !.committed = TRUE,
                         !.budget = FALSE] \in AttemptRow
      BY <1>r DEF AttemptRow
    <2>2. att' \in [Attempt -> AttemptRow]
      BY <1>9, <1>t, <2>1 DEF CommitResult
    <2>3. op' \in [Operation -> OpRow]
      <3>1. [op[OpOf[a]] EXCEPT !.state = "SUCCEEDED", !.result = a] \in OpRow
        BY <1>r DEF OpRow
      <3> QED
        BY <1>9, <1>t, <1>s, <3>1, TerminatedType DEF CommitResult
    <2>4. snap' \in [Attempt -> Snapshot] /\ events' \subseteq Operation
      BY <1>9, <1>c, <1>t, <1>s, EventsType DEF CommitResult
    <2>5. /\ budget' \in [Account -> [reserved : Int, spent : Nat]]
          /\ overrun' \in [Account -> Nat]
          /\ root' \in [Root -> RootRow]
          /\ pool' \in [Pool -> PoolRow]
      BY <1>9, SettleType, NumberAssumption DEF CommitResult
    <2> QED
      BY <1>9, <2>2, <2>3, <2>4, <2>5 DEF TypeOK, CommitResult
  <1>10. ASSUME NEW a \in Attempt, NEW notSent \in BOOLEAN, NEW retry \in BOOLEAN,
                Fail(a, notSent, retry)
         PROVE  TypeOK'
    <2> DEFINE s == IF notSent THEN "FAILED_NOT_SENT" ELSE "FAILED"
    <2>1. [att[a] EXCEPT !.state = s, !.compute = FALSE, !.budget = FALSE] \in AttemptRow
      <3> s \in AttemptState
        OBVIOUS
      <3> HIDE DEF s
      <3> QED
        BY <1>r DEF AttemptRow
    <2>2. att' \in [Attempt -> AttemptRow]
      BY <1>10, <1>t, <2>1 DEF Fail
    <2>3. op' \in [Operation -> OpRow]
      <3>1. [op[OpOf[a]] EXCEPT !.state = "RETRY_WAIT"] \in OpRow
        BY <1>r DEF OpRow
      <3>2. FailedOperation(a, retry) \in OpRow
        BY <1>t, <1>s, <3>1, TerminatedType DEF FailedOperation
      <3> QED
        BY <1>10, <1>t, <3>2 DEF Fail
    <2>4. snap' \in [Attempt -> Snapshot] /\ events' \subseteq Operation
      BY <1>10, <1>c, <1>t, <1>s, EventsType DEF Fail
    <2>5. /\ budget' \in [Account -> [reserved : Int, spent : Nat]]
          /\ overrun' \in [Account -> Nat]
          /\ root' \in [Root -> RootRow]
          /\ pool' \in [Pool -> PoolRow]
      BY <1>10, <1>s, SettleType, 0 \in Nat DEF Fail
    <2> QED
      BY <1>10, <2>2, <2>3, <2>4, <2>5 DEF TypeOK, Fail
  <1>11. ASSUME NEW w \in Owner, OwnerCrash(w) PROVE TypeOK'
    <2>1. Closed \in Snapshot
      BY DEF Closed, Snapshot
    <2>2. snap' \in [Attempt -> Snapshot]
      BY <1>11, <1>t, <2>1 DEF OwnerCrash
    <2> QED
      BY <1>11, <2>2 DEF TypeOK, OwnerCrash, rows, history
  <1> QED
    BY <1>1, <1>2, <1>3, <1>4, <1>5, <1>6, <1>7, <1>8, <1>9, <1>10, <1>11 DEF OwnerStep
\* _settle_stopped_attempt keeps every row well typed.
LEMMA SettleStoppedType ==
  ASSUME TypeOK, NEW a \in Attempt, NEW recover \in BOOLEAN, SettleStopped(a, recover),
         settling' \in [Attempt -> {"NO", "FAIL", "RECOVER"}]
  PROVE  TypeOK'
  <1>t. /\ op \in [Operation -> OpRow] /\ att \in [Attempt -> AttemptRow]
        /\ events \subseteq Operation
    BY DEF TypeOK
  <1>s. OpOf[a] \in Operation /\ Bound[OpOf[a]] \in Nat
    BY StructureAssumption, NumberAssumption
  <1>r. att[a] \in AttemptRow /\ op[OpOf[a]] \in OpRow
    BY <1>t, <1>s
  <1>1. /\ budget' \in [Account -> [reserved : Int, spent : Nat]]
        /\ overrun' \in [Account -> Nat]
        /\ root' \in [Root -> RootRow]
        /\ pool' \in [Pool -> PoolRow]
    BY <1>s, SettleType, 0 \in Nat DEF SettleStopped
  <1>2. att' \in [Attempt -> AttemptRow]
    <2>1. [att[a] EXCEPT !.state = "FAILED", !.compute = FALSE, !.budget = FALSE,
                         !.finished = TRUE] \in AttemptRow
      BY <1>r DEF AttemptRow
    <2> QED
      BY <1>t, <2>1 DEF SettleStopped
  <1>3. op' \in [Operation -> OpRow] /\ events' \subseteq Operation
    <2>1. [op[OpOf[a]] EXCEPT !.state = "RETRY_WAIT", !.active = None] \in OpRow
      BY <1>r DEF OpRow
    <2>2. CASE UNCHANGED <<op, events>>
      BY <1>t, <2>2
    <2>3. CASE /\ op' = IF op[OpOf[a]].active = a
                        THEN [op EXCEPT ![OpOf[a]].state = "RETRY_WAIT",
                                        ![OpOf[a]].active = None]
                        ELSE op
               /\ UNCHANGED events
      BY <1>t, <2>1, <2>3
    <2>4. CASE TerminateAll({OpOf[a]}, "FAILED") /\ CompletionEvents({OpOf[a]})
      BY <1>t, <1>s, <2>4, TerminateAllType, EventsType
    <2> QED
      BY <2>2, <2>3, <2>4 DEF SettleStopped
  <1> QED
    BY <1>1, <1>2, <1>3 DEF TypeOK, SettleStopped

\* The reconciler and the operators keep every row well typed.
LEMMA MaintenanceType == TypeOK /\ MaintenanceStep => TypeOK'
  <1> SUFFICES ASSUME TypeOK, MaintenanceStep PROVE TypeOK'
    OBVIOUS
  <1>t. /\ root \in [Root -> RootRow] /\ op \in [Operation -> OpRow]
        /\ att \in [Attempt -> AttemptRow] /\ pool \in [Pool -> PoolRow]
        /\ events \subseteq Operation
        /\ scan \in [Attempt -> AttemptState]
        /\ settling \in [Attempt -> {"NO", "FAIL", "RECOVER"}]
    BY DEF TypeOK
  <1>r. ASSUME NEW a \in Attempt PROVE att[a] \in AttemptRow /\ op[OpOf[a]] \in OpRow
    BY <1>t, StructureAssumption
  <1>1. CASE ReconcileScan
    <2>1. op' \in [Operation -> OpRow] /\ events' \subseteq Operation
      BY <1>1, <1>t, TerminateAllType, EventsType DEF ReconcileScan
    <2>2. scan' \in [Attempt -> AttemptState]
      <3>1. \A a \in Attempt : att[a].state \in AttemptState
        BY <1>r DEF AttemptRow
      <3> QED
        BY <1>1, <3>1 DEF ReconcileScan
    <2> QED
      BY <1>1, <2>1, <2>2 DEF TypeOK, ReconcileScan, history
  <1>2. CASE ReconcileFinish
    <2>1. op' \in [Operation -> OpRow]
      BY <1>2, <1>t, TerminatedType DEF ReconcileFinish
    <2>2. root' \in [Root -> RootRow]
      BY <1>2, <1>t DEF ReconcileFinish, RootRow
    <2>3. events' \subseteq Operation
      BY <1>2, <1>t DEF ReconcileFinish, CompletionEvents
    <2> QED
      BY <1>2, <2>1, <2>2, <2>3 DEF TypeOK, ReconcileFinish, history
  <1>3. ASSUME NEW a \in Attempt, ReclaimReserved(a) PROVE TypeOK'
    <2>1. [att[a] EXCEPT !.state = "FAILED_NOT_SENT", !.compute = FALSE] \in AttemptRow
      BY <1>r DEF AttemptRow
    <2>2. att' \in [Attempt -> AttemptRow]
      BY <1>3, <1>t, <2>1 DEF ReclaimReserved
    <2>3. [op[OpOf[a]] EXCEPT !.state = "READY", !.active = None] \in OpRow
      BY <1>r DEF OpRow
    <2>4. op' \in [Operation -> OpRow]
      BY <1>3, <1>t, <2>3 DEF ReclaimReserved
    <2>5. scan' \in [Attempt -> AttemptState] /\ raced' \subseteq Attempt
      BY <1>3, <1>t DEF ReclaimReserved, TypeOK
    <2> QED
      BY <1>3, <2>2, <2>4, <2>5 DEF TypeOK, ReclaimReserved
  <1>4. ASSUME NEW a \in Attempt, ReclaimSent(a) PROVE TypeOK'
    <2>1. [att[a] EXCEPT !.state = "UNKNOWN"] \in AttemptRow
      BY <1>r DEF AttemptRow
    <2>2. att' \in [Attempt -> AttemptRow]
      BY <1>4, <1>t, <2>1 DEF ReclaimSent
    <2>3. [op[OpOf[a]] EXCEPT !.state = "RECONCILING"] \in OpRow
      BY <1>r DEF OpRow
    <2>4. op' \in [Operation -> OpRow]
      BY <1>4, <1>t, <2>3 DEF ReclaimSent
    <2>5. scan' \in [Attempt -> AttemptState] /\ raced' \subseteq Attempt
      BY <1>4, <1>t DEF ReclaimSent, TypeOK
    <2> QED
      BY <1>4, <2>2, <2>4, <2>5 DEF TypeOK, ReclaimSent
  <1>5. ASSUME NEW a \in Attempt, SettleLostResult(a) \/ SettleIdleUnknown(a) PROVE TypeOK'
    BY <1>5, <1>t, SettleStoppedType DEF SettleLostResult, SettleIdleUnknown
  <1>6. ASSUME NEW a \in Attempt, SettleConfirmed(a) PROVE TypeOK'
    <2>1. settling' \in [Attempt -> {"NO", "FAIL", "RECOVER"}]
      BY <1>6, <1>t DEF SettleConfirmed
    <2> QED
      BY <1>6, <2>1, SettleStoppedType, (settling[a] = "RECOVER") \in BOOLEAN
      DEF SettleConfirmed
  <1>7. ASSUME NEW p \in Pool, NEW mode \in Stops, ConfirmStopped(p, mode) PROVE TypeOK'
    <2>1. settling' \in [Attempt -> {"NO", "FAIL", "RECOVER"}]
      BY <1>7, <1>t, StructureAssumption DEF ConfirmStopped
    <2>2. pool' \in [Pool -> PoolRow]
      BY <1>7, <1>t DEF ConfirmStopped, PoolRow, Health
    <2> QED
      BY <1>7, <2>1, <2>2 DEF TypeOK, ConfirmStopped, history
  <1>8. ASSUME NEW p \in Pool, NEW t \in Token, QuiesceEngine(p, t) PROVE TypeOK'
    <2>1. pool' \in [Pool -> PoolRow]
      BY <1>8, <1>t DEF QuiesceEngine, PoolRow, Health
    <2> QED
      BY <1>8, <2>1 DEF TypeOK, QuiesceEngine, open, history
  <1>9. ASSUME NEW p \in Pool, NEW t \in Token, ResumeEngine(p, t) PROVE TypeOK'
    <2>1. pool' \in [Pool -> PoolRow]
      BY <1>9, <1>t DEF ResumeEngine, PoolRow, Health
    <2> QED
      BY <1>9, <2>1 DEF TypeOK, ResumeEngine, open, history
  <1>10. ASSUME NEW p \in Pool, ConfigurePool(p) PROVE TypeOK'
    <2>1. pool' \in [Pool -> PoolRow]
      BY <1>10, <1>t DEF ConfigurePool, PoolRow, Health
    <2> QED
      BY <1>10, <2>1 DEF TypeOK, ConfigurePool, open, history
  <1> QED
    BY <1>1, <1>2, <1>3, <1>4, <1>5, <1>6, <1>7, <1>8, <1>9, <1>10 DEF MaintenanceStep

\* TypeOK is inductive.
LEMMA NextType == TypeOK /\ [Next]_vars => TypeOK'
  <1> SUFFICES ASSUME TypeOK, [Next]_vars PROVE TypeOK'
    OBVIOUS
  <1>1. CASE Next
    BY <1>1, TimeType, ClientType, OwnerType, MaintenanceType DEF Next
  <1>2. CASE UNCHANGED vars
    BY <1>2 DEF TypeOK, vars, rows, open, history
  <1> QED
    BY <1>1, <1>2

(* Every transaction of store.py keeps every row within its type: states,  *)
(* counters, active and result attempts, reservations and open reads.      *)
THEOREM TypeCorrect == Spec => []TypeOK
  BY InitType, NextType, PTL DEF Spec
-----------------------------------------------------------------------------
(* Budgets.                                                                *)

(* Only _settle and mark_send touch a budget.                              *)
LEMMA BudgetSteps ==
  ASSUME [Next]_vars
  PROVE  \/ UNCHANGED <<budget, overrun>>
         \/ \E a \in Attempt, u \in Nat : Settle(a, u)
         \/ \E a \in Attempt : MarkSend(a)
  <1>b. \A a \in Attempt : Bound[OpOf[a]] \in Nat
    BY StructureAssumption, NumberAssumption
  <1>1. CASE TimeStep
    BY <1>1 DEF TimeStep, RootDeadline, OperationDeadline, AttemptLeaseLapse, OwnerLapse,
                HeartbeatOwner, history
  <1>2. CASE ClientStep
    BY <1>2 DEF ClientStep, CreateRoot, CancelRead, CancelWrite, FinishRead, FinishCount,
                FinishWrite, SubmitOperation, BindRead, BindWrite, rows, history
  <1>3. CASE OwnerStep
    <2>1. ASSUME NEW p \in Pool, NEW o \in Operation, RefuseCandidate(p, o)
          PROVE  UNCHANGED <<budget, overrun>>
      BY <2>1 DEF RefuseCandidate, history
    <2>2. ASSUME NEW p \in Pool, NEW w \in Owner, NEW a \in Attempt, Reserve(p, w, a)
          PROVE  UNCHANGED <<budget, overrun>>
      BY <2>2 DEF Reserve, history
    <2>3. ASSUME NEW a \in Attempt, \/ Owned(a) \/ Rollback(a) \/ Heartbeat(a)
                                    \/ ComputeFinished(a) \/ Unknown(a)
          PROVE  UNCHANGED <<budget, overrun>>
      BY <2>3 DEF Owned, Rollback, Heartbeat, ComputeFinished, Unknown, rows, history
    <2>4. ASSUME NEW a \in Attempt, NEW u \in Usage, CommitResult(a, u)
          PROVE  u \in Nat /\ Settle(a, u)
      BY <2>4, NumberAssumption DEF CommitResult
    <2>5. ASSUME NEW a \in Attempt, NEW n \in BOOLEAN, NEW q \in BOOLEAN, Fail(a, n, q)
          PROVE  \E u \in Nat : Settle(a, u)
      BY <2>5, <1>b, 0 \in Nat DEF Fail
    <2>6. ASSUME NEW w \in Owner, OwnerCrash(w) PROVE UNCHANGED <<budget, overrun>>
      BY <2>6 DEF OwnerCrash, rows, history
    <2> QED
      BY <1>3, <2>1, <2>2, <2>3, <2>4, <2>5, <2>6 DEF OwnerStep
  <1>4. CASE MaintenanceStep
    <2>1. CASE ReconcileScan \/ ReconcileFinish
      BY <2>1 DEF ReconcileScan, ReconcileFinish, history
    <2>2. ASSUME NEW a \in Attempt, ReclaimReserved(a) \/ ReclaimSent(a)
          PROVE  UNCHANGED <<budget, overrun>>
      BY <2>2 DEF ReclaimReserved, ReclaimSent
    <2>3. ASSUME NEW a \in Attempt,
                 SettleLostResult(a) \/ SettleIdleUnknown(a) \/ SettleConfirmed(a)
          PROVE  \E u \in Nat : Settle(a, u)
      BY <2>3, <1>b, 0 \in Nat
      DEF SettleLostResult, SettleIdleUnknown, SettleConfirmed, SettleStopped
    <2>4. ASSUME NEW p \in Pool, NEW mode \in Stops, ConfirmStopped(p, mode)
          PROVE  UNCHANGED <<budget, overrun>>
      BY <2>4 DEF ConfirmStopped, history
    <2>5. ASSUME NEW p \in Pool, NEW t \in Token,
                 QuiesceEngine(p, t) \/ ResumeEngine(p, t)
          PROVE  UNCHANGED <<budget, overrun>>
      BY <2>5 DEF QuiesceEngine, ResumeEngine, history
    <2>6. ASSUME NEW p \in Pool, ConfigurePool(p)
          PROVE  UNCHANGED <<budget, overrun>>
      BY <2>6 DEF ConfigurePool, history
    <2> QED
      BY <1>4, <2>1, <2>2, <2>3, <2>4, <2>5, <2>6 DEF MaintenanceStep
  <1>5. CASE UNCHANGED vars
    BY <1>5 DEF vars, rows, history
  <1> QED
    BY <1>1, <1>2, <1>3, <1>4, <1>5 DEF Next

\* _settle replaces a bound by the usage, and counts what is beyond it.
LEMMA SettleCap ==
  ASSUME TypeOK, BudgetCap, NEW a \in Attempt, NEW u \in Nat, Settle(a, u)
  PROVE  BudgetCap'
  <1> DEFINE o == OpOf[a]
             c == AccountOf[o]
  <1>t. /\ budget \in [Account -> [reserved : Int, spent : Nat]]
        /\ overrun \in [Account -> Nat]
    BY DEF TypeOK
  <1>b. Bound[o] \in Nat /\ Limit \in [Account -> Nat]
    BY StructureAssumption, NumberAssumption
  <1> SUFFICES ASSUME NEW d \in Account
               PROVE  budget'[d].spent + budget'[d].reserved <= Limit[d] + overrun'[d]
    BY DEF BudgetCap
  <1>d. /\ budget[d].reserved \in Int /\ budget[d].spent \in Nat
        /\ overrun[d] \in Nat /\ Limit[d] \in Nat
        /\ budget[d].spent + budget[d].reserved <= Limit[d] + overrun[d]
    BY <1>t, <1>b DEF BudgetCap
  <1>1. CASE att[a].budget /\ d = c
    <2>1. /\ budget'[d].reserved = budget[d].reserved - Bound[o]
          /\ budget'[d].spent = budget[d].spent + u
      BY <1>1, <1>t DEF Settle
    <2>2. overrun'[d] = IF u > Bound[o] THEN overrun[d] + (u - Bound[o]) ELSE overrun[d]
      BY <1>1, <1>t DEF Settle
    <2> QED
      BY <1>b, <1>d, <2>1, <2>2
  <1>2. CASE ~(att[a].budget /\ d = c)
    <2>1. budget'[d] = budget[d] /\ overrun'[d] = overrun[d]
      BY <1>2, <1>t DEF Settle
    <2> QED
      BY <1>d, <2>1
  <1> QED
    BY <1>1, <1>2

\* mark_send reserves only what the limit leaves.
LEMMA MarkSendCap ==
  ASSUME TypeOK, BudgetCap, NEW a \in Attempt, MarkSend(a)
  PROVE  BudgetCap'
  <1> DEFINE o == OpOf[a]
             c == AccountOf[o]
  <1>t. /\ budget \in [Account -> [reserved : Int, spent : Nat]]
        /\ overrun \in [Account -> Nat] /\ overrun' = overrun
    BY DEF TypeOK, MarkSend, history
  <1>o. o \in Operation
    BY StructureAssumption
  <1>b. Bound[o] \in Nat /\ Limit \in [Account -> Nat] /\ c \in Account
    BY <1>o, NumberAssumption DEF MarkSend, SendBudget
  <1> SUFFICES ASSUME NEW d \in Account
               PROVE  budget'[d].spent + budget'[d].reserved <= Limit[d] + overrun[d]
    BY <1>t DEF BudgetCap
  <1>d. /\ budget[d].reserved \in Int /\ budget[d].spent \in Nat
        /\ overrun[d] \in Nat /\ Limit[d] \in Nat
        /\ budget[d].spent + budget[d].reserved <= Limit[d] + overrun[d]
    BY <1>t, <1>b DEF BudgetCap
  <1>1. CASE d = c
    <2>1. /\ budget'[d].reserved = budget[d].reserved + Bound[o]
          /\ budget'[d].spent = budget[d].spent
      BY <1>1, <1>t DEF MarkSend
    <2>2. budget[d].spent + budget[d].reserved + Bound[o] <= Limit[d]
      BY <1>1 DEF MarkSend, SendBudget, Affordable
    <2> QED
      BY <1>b, <1>d, <2>1, <2>2
  <1>2. CASE d # c
    <2>1. budget'[d] = budget[d]
      BY <1>2, <1>t DEF MarkSend
    <2> QED
      BY <1>d, <2>1
  <1> QED
    BY <1>1, <1>2

(* Whatever the owners, the reconciler and the operators interleave, what  *)
(* _settle and mark_send charge to an account stays within the accepted    *)
(* limit but for usage reported beyond the bound.                          *)
THEOREM BudgetKept == Spec => []BudgetCap
  <1>1. Init => BudgetCap
    BY NumberAssumption DEF Init, BudgetCap
  <1>2. TypeOK /\ BudgetCap /\ [Next]_vars => BudgetCap'
    <2> SUFFICES ASSUME TypeOK, BudgetCap, [Next]_vars PROVE BudgetCap'
      OBVIOUS
    <2>1. CASE UNCHANGED <<budget, overrun>>
      BY <2>1 DEF BudgetCap
    <2> QED
      BY <2>1, BudgetSteps, SettleCap, MarkSendCap
  <1> QED
    BY <1>1, <1>2, TypeCorrect, PTL DEF Spec
=============================================================================
