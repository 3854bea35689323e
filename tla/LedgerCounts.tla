---------------------------- MODULE LedgerCounts ----------------------------
(***************************************************************************)
(* The counters of the ledger are what they count: sends and reserved      *)
(* units, for every value of the constants.                                *)
(***************************************************************************)
EXTENDS LedgerAttempts, FiniteSetTheorems

USE DEF RootFinal, RootState, OpFinal, OpQueued, OpState, AttemptFinal, AttemptState

\* No send is recorded and no send counter moves.
SendsKept ==
  /\ \A a \in Attempt : att'[a].sent = att[a].sent
  /\ \A o \in Operation : op'[o].attempts = op[o].attempts
  /\ \A r \in Root : root'[r].attempts = root[r].attempts

\* No reservation changes hands.
HoldsKept == budget' = budget /\ \A a \in Attempt : att'[a].budget = att[a].budget

\* What a settlement may charge: the usage reported, nothing, or the bound.
Charges == Usage \cup {0} \cup {Bound[o] : o \in Operation}

\* One attempt gives its reservation back.
HoldSettled ==
  \E a \in Attempt, u \in Charges :
    /\ Settle(a, u)
    /\ \A b \in Attempt : att'[b].budget = (b # a /\ att[b].budget)

Kept == SendsKept /\ HoldsKept
Settled == SendsKept /\ HoldSettled

\* _terminal leaves the attempts counter alone.
LEMMA TerminatedSends ==
  ASSUME NEW row \in OpRow, NEW s
  PROVE  Terminated(row, s).attempts = row.attempts
  BY DEF Terminated, OpRow

\* On every operation.
LEMMA TerminateAllSends ==
  ASSUME op \in [Operation -> OpRow], NEW S, NEW s, TerminateAll(S, s)
  PROVE  \A o \in Operation : op'[o].attempts = op[o].attempts
  BY TerminatedSends DEF TerminateAll

\* _settle leaves the root's attempts counter alone.
LEMMA SettleSends ==
  ASSUME TypeOK, NEW a \in Attempt, NEW u, Settle(a, u)
  PROVE  \A r \in Root : root'[r].attempts = root[r].attempts
  <1>t. root \in [Root -> RootRow]
    BY DEF TypeOK
  <1> QED
    BY <1>t DEF Settle, RootRow

\* Time neither sends nor settles.
LEMMA TimeKeeps == TypeOK /\ TimeStep => Kept
  <1> SUFFICES ASSUME TypeOK, TimeStep PROVE Kept
    OBVIOUS
  <1>t. /\ root \in [Root -> RootRow] /\ op \in [Operation -> OpRow]
        /\ att \in [Attempt -> AttemptRow]
    BY DEF TypeOK
  <1> USE DEF Kept, SendsKept, HoldsKept
  <1>1. ASSUME NEW r \in Root, RootDeadline(r) PROVE Kept
    BY <1>1, <1>t DEF RootDeadline, RootRow
  <1>2. ASSUME NEW o \in Operation, OperationDeadline(o) PROVE Kept
    BY <1>2, <1>t DEF OperationDeadline, OpRow
  <1>3. ASSUME NEW a \in Attempt, AttemptLeaseLapse(a) PROVE Kept
    BY <1>3, <1>t DEF AttemptLeaseLapse, AttemptRow
  <1>4. ASSUME NEW w \in Owner, OwnerLapse(w) \/ HeartbeatOwner(w) PROVE Kept
    BY <1>4 DEF OwnerLapse, HeartbeatOwner
  <1> QED
    BY <1>1, <1>2, <1>3, <1>4 DEF TimeStep

\* Clients neither send nor settle.
LEMMA ClientKeeps == TypeOK /\ ClientStep => Kept
  <1> SUFFICES ASSUME TypeOK, ClientStep PROVE Kept
    OBVIOUS
  <1>t. root \in [Root -> RootRow] /\ op \in [Operation -> OpRow]
    BY DEF TypeOK
  <1> USE DEF Kept, SendsKept, HoldsKept
  <1>1. ASSUME NEW r \in Root, CreateRoot(r) PROVE Kept
    BY <1>1, <1>t DEF CreateRoot, RootRow
  <1>2. ASSUME NEW r \in Root, CancelRead(r) \/ FinishCount(r) PROVE Kept
    BY <1>2 DEF CancelRead, FinishCount, rows
  <1>3. ASSUME NEW r \in Root, CancelWrite(r) \/ FinishWrite(r) PROVE Kept
    <2>1. \A o \in Operation : op'[o].attempts = op[o].attempts
      BY <1>3, <1>t, TerminateAllSends DEF CancelWrite, FinishWrite
    <2>2. \A q \in Root : root'[q].attempts = root[q].attempts
      BY <1>3, <1>t DEF CancelWrite, FinishWrite, RootRow
    <2> QED
      BY <1>3, <2>1, <2>2 DEF CancelWrite, FinishWrite
  <1>4. ASSUME NEW r \in Root, NEW s \in FinishAs, FinishRead(r, s) PROVE Kept
    BY <1>4 DEF FinishRead, rows
  <1>5. ASSUME NEW o \in Operation, SubmitOperation(o) PROVE Kept
    <2>1. \A x \in Operation : op'[x].attempts = op[x].attempts
      BY <1>5, <1>t DEF SubmitOperation, OpRow
    <2>2. \A q \in Root : root'[q].attempts = root[q].attempts
      BY <1>5, <1>t DEF SubmitOperation, RootRow
    <2> QED
      BY <1>5, <2>1, <2>2 DEF SubmitOperation
  <1>6. ASSUME NEW o \in Operation, BindRead(o) \/ BindWrite(o) PROVE Kept
    BY <1>6 DEF BindRead, BindWrite, rows
  <1> QED
    BY <1>1, <1>2, <1>3, <1>4, <1>5, <1>6 DEF ClientStep

\* An owner sends in mark_send, and settles at most its own attempt.
LEMMA OwnerKeeps ==
  TypeOK /\ AttemptInv /\ OwnerStep => Kept \/ Settled \/ \E a \in Attempt : MarkSend(a)
  <1> SUFFICES ASSUME TypeOK, AttemptInv, OwnerStep
               PROVE  Kept \/ Settled \/ \E a \in Attempt : MarkSend(a)
    OBVIOUS
  <1>t. /\ op \in [Operation -> OpRow] /\ att \in [Attempt -> AttemptRow]
        /\ \A a \in Attempt : OpOf[a] \in Operation /\ op[OpOf[a]] \in OpRow
    BY StructureAssumption DEF TypeOK
  <1> USE DEF Kept, SendsKept, HoldsKept, Settled, HoldSettled
  <1>1. ASSUME NEW p \in Pool, NEW o \in Operation, RefuseCandidate(p, o) PROVE Kept
    BY <1>1, <1>t, TerminateAllSends DEF RefuseCandidate
  <1>2. ASSUME NEW p \in Pool, NEW w \in Owner, NEW a \in Attempt, Reserve(p, w, a)
        PROVE  Kept
    <2>1. ~att[a].sent /\ ~att[a].budget
      <3>1. att[a].state = "FREE"
        BY <1>2, StructureAssumption DEF Reserve, NextNumber
      <3> QED
        BY <3>1 DEF AttemptInv, Fresh
    <2>2. att' = [att EXCEPT ![a] = [FreeRow EXCEPT !.state = "RESERVED", !.pool = p,
                    !.epoch = pool[p].epoch, !.owner = w, !.lease = TRUE]]
      BY <1>2 DEF Reserve
    <2>3. \A b \in Attempt : att[b].sent \in BOOLEAN /\ att[b].budget \in BOOLEAN
      BY <1>t DEF AttemptRow
    <2>4. \A b \in Attempt : att'[b].sent = att[b].sent /\ att'[b].budget = att[b].budget
      BY <1>t, <2>1, <2>2, <2>3 DEF FreeRow
    <2>5. \A o \in Operation : op'[o].attempts = op[o].attempts
      BY <1>2, <1>t DEF Reserve, OpRow
    <2> QED
      BY <1>2, <2>4, <2>5 DEF Reserve
  <1>3. ASSUME NEW a \in Attempt, Owned(a) \/ Rollback(a) PROVE Kept
    BY <1>3 DEF Owned, Rollback, rows
  <1>4. ASSUME NEW a \in Attempt, Heartbeat(a) PROVE Kept
    BY <1>4, <1>t DEF Heartbeat, AttemptRow
  <1>5. ASSUME NEW a \in Attempt, ComputeFinished(a) PROVE Kept
    BY <1>5, <1>t DEF ComputeFinished, AttemptRow
  <1>6. ASSUME NEW a \in Attempt, Unknown(a) PROVE Kept
    <2>1. \A b \in Attempt : att'[b].sent = att[b].sent /\ att'[b].budget = att[b].budget
      BY <1>6, <1>t DEF Unknown, AttemptRow
    <2>2. op'[OpOf[a]].attempts = op[OpOf[a]].attempts
      <3>1. op'[OpOf[a]] \in {Terminated(op[OpOf[a]], "FAILED"), op[OpOf[a]],
                              [op[OpOf[a]] EXCEPT !.state = "RECONCILING"]}
        BY <1>6, <1>t DEF Unknown
      <3> QED
        BY <1>t, <3>1 DEF Terminated, OpRow
    <2>3. \A o \in Operation : op'[o].attempts = op[o].attempts
      BY <1>6, <1>t, <2>2 DEF Unknown
    <2> QED
      BY <1>6, <2>1, <2>3 DEF Unknown
  <1>7. ASSUME NEW a \in Attempt, NEW u \in Usage, CommitResult(a, u) PROVE Settled
    <2>1. \A b \in Attempt : /\ att'[b].sent = att[b].sent
                             /\ att'[b].budget = (b # a /\ att[b].budget)
      BY <1>7, <1>t DEF CommitResult, AttemptRow
    <2>2. op'[OpOf[a]].attempts = op[OpOf[a]].attempts
      <3>1. op'[OpOf[a]] \in {Terminated(op[OpOf[a]], "FAILED"), op[OpOf[a]],
                              [op[OpOf[a]] EXCEPT !.state = "SUCCEEDED", !.result = a]}
        BY <1>7, <1>t DEF CommitResult
      <3> QED
        BY <1>t, <3>1 DEF Terminated, OpRow
    <2>3. \A o \in Operation : op'[o].attempts = op[o].attempts
      BY <1>7, <1>t, <2>2 DEF CommitResult
    <2>4. u \in Charges /\ Settle(a, u)
      BY <1>7 DEF CommitResult, Charges
    <2>5. \A r \in Root : root'[r].attempts = root[r].attempts
      BY <2>4, SettleSends
    <2> QED
      BY <2>1, <2>3, <2>4, <2>5
  <1>8. ASSUME NEW a \in Attempt, NEW notSent \in BOOLEAN, NEW retry \in BOOLEAN,
               Fail(a, notSent, retry)
        PROVE  Settled
    <2>1. \A b \in Attempt : /\ att'[b].sent = att[b].sent
                             /\ att'[b].budget = (b # a /\ att[b].budget)
      BY <1>8, <1>t DEF Fail, AttemptRow
    <2>2. op'[OpOf[a]].attempts = op[OpOf[a]].attempts
      <3>1. op'[OpOf[a]] \in {Terminated(op[OpOf[a]], "FAILED"),
                              Terminated(op[OpOf[a]], "CANCELLED"), op[OpOf[a]],
                              [op[OpOf[a]] EXCEPT !.state = "RETRY_WAIT"]}
        BY <1>8, <1>t DEF Fail, FailedOperation
      <3> QED
        BY <1>t, <3>1 DEF Terminated, OpRow
    <2>3. \A o \in Operation : op'[o].attempts = op[o].attempts
      BY <1>8, <1>t, <2>2 DEF Fail
    <2>4. PICK u \in Charges : Settle(a, u)
      BY <1>8, <1>t DEF Fail, Charges
    <2>5. \A r \in Root : root'[r].attempts = root[r].attempts
      BY <2>4, SettleSends
    <2> QED
      BY <2>1, <2>3, <2>4, <2>5
  <1>9. ASSUME NEW w \in Owner, OwnerCrash(w) PROVE Kept
    BY <1>9 DEF OwnerCrash, rows
  <1> QED
    BY <1>1, <1>2, <1>3, <1>4, <1>5, <1>6, <1>7, <1>8, <1>9 DEF OwnerStep

\* _settle_stopped_attempt settles the attempt it is given.
LEMMA SettleStoppedKeeps ==
  ASSUME TypeOK, NEW a \in Attempt, NEW recover, SettleStopped(a, recover)
  PROVE  Settled
  <1> DEFINE o == OpOf[a]
  <1>t. /\ op \in [Operation -> OpRow] /\ att \in [Attempt -> AttemptRow]
        /\ o \in Operation /\ op[o] \in OpRow /\ Bound[o] \in Nat
    BY StructureAssumption, NumberAssumption DEF TypeOK
  <1>r. att' = [att EXCEPT ![a].state = "FAILED", ![a].compute = FALSE,
                           ![a].budget = FALSE, ![a].finished = TRUE]
    BY DEF SettleStopped
  <1>1. \A b \in Attempt : /\ att'[b].sent = att[b].sent
                           /\ att'[b].budget = (b # a /\ att[b].budget)
    <2>1. /\ att'[a].sent = att[a].sent /\ ~att'[a].budget /\ att'[a].budget \in BOOLEAN
          /\ \A b \in Attempt \ {a} : att'[b] = att[b] /\ att[b].budget \in BOOLEAN
      BY <1>t, <1>r DEF AttemptRow
    <2> QED
      BY <2>1
  <1>2. \A x \in Operation : op'[x].attempts = op[x].attempts
    <2>1. CASE op' = op
      BY <2>1
    <2>2. CASE op' = [op EXCEPT ![o].state = "RETRY_WAIT", ![o].active = None]
      BY <1>t, <2>2 DEF OpRow
    <2>3. CASE TerminateAll({o}, "FAILED")
      BY <1>t, <2>3, TerminateAllSends
    <2> QED
      BY <2>1, <2>2, <2>3 DEF SettleStopped
  <1>3. PICK u \in Charges : Settle(a, u)
    BY <1>t DEF SettleStopped, Charges
  <1>4. \A r \in Root : root'[r].attempts = root[r].attempts
    BY <1>3, SettleSends
  <1> QED
    BY <1>1, <1>2, <1>3, <1>4 DEF Settled, SendsKept, HoldSettled

\* The reconciler and the operators settle one attempt at a time.
LEMMA MaintenanceKeeps == TypeOK /\ MaintenanceStep => Kept \/ Settled
  <1> SUFFICES ASSUME TypeOK, MaintenanceStep PROVE Kept \/ Settled
    OBVIOUS
  <1>t. /\ root \in [Root -> RootRow] /\ op \in [Operation -> OpRow]
        /\ att \in [Attempt -> AttemptRow]
    BY DEF TypeOK
  <1> USE DEF Kept, SendsKept, HoldsKept
  <1>1. CASE ReconcileScan
    BY <1>1, <1>t, TerminateAllSends DEF ReconcileScan
  <1>2. CASE ReconcileFinish
    <2>1. \A o \in Operation : op'[o].attempts = op[o].attempts
      BY <1>2, <1>t, TerminatedSends DEF ReconcileFinish
    <2>2. \A r \in Root : root'[r].attempts = root[r].attempts
      BY <1>2, <1>t DEF ReconcileFinish, RootRow
    <2> QED
      BY <1>2, <2>1, <2>2 DEF ReconcileFinish
  <1>3. ASSUME NEW a \in Attempt, ReclaimReserved(a) \/ ReclaimSent(a) PROVE Kept
    <2>1. \A b \in Attempt : att'[b].sent = att[b].sent /\ att'[b].budget = att[b].budget
      BY <1>3, <1>t DEF ReclaimReserved, ReclaimSent, AttemptRow
    <2>2. \A o \in Operation : op'[o].attempts = op[o].attempts
      BY <1>3, <1>t DEF ReclaimReserved, ReclaimSent, OpRow
    <2> QED
      BY <1>3, <2>1, <2>2 DEF ReclaimReserved, ReclaimSent
  <1>4. ASSUME NEW a \in Attempt,
               SettleLostResult(a) \/ SettleIdleUnknown(a) \/ SettleConfirmed(a)
        PROVE  Settled
    BY <1>4, SettleStoppedKeeps DEF SettleLostResult, SettleIdleUnknown, SettleConfirmed
  <1>5. ASSUME NEW p \in Pool, NEW mode \in Stops, ConfirmStopped(p, mode) PROVE Kept
    BY <1>5 DEF ConfirmStopped
  <1>6. ASSUME NEW p \in Pool, NEW t \in Token, QuiesceEngine(p, t) \/ ResumeEngine(p, t)
        PROVE  Kept
    BY <1>6 DEF QuiesceEngine, ResumeEngine
  <1>7. ASSUME NEW p \in Pool, ConfigurePool(p) PROVE Kept
    BY <1>7 DEF ConfigurePool
  <1> QED
    BY <1>1, <1>2, <1>3, <1>4, <1>5, <1>6, <1>7 DEF MaintenanceStep

(* Only mark_send records a send or takes a reservation.                   *)
LEMMA CountSteps ==
  ASSUME TypeOK, AttemptInv, [Next]_vars
  PROVE  Kept \/ Settled \/ \E a \in Attempt : MarkSend(a)
  <1>1. CASE Next
    BY <1>1, TimeKeeps, ClientKeeps, OwnerKeeps, MaintenanceKeeps DEF Next
  <1>2. CASE UNCHANGED vars
    BY <1>2 DEF Kept, SendsKept, HoldsKept, vars, rows
  <1> QED
    BY <1>1, <1>2

-----------------------------------------------------------------------------
(* Sends.                                                                  *)

\* Sends can be counted.
LEMMA SentFinite ==
  ASSUME NEW S
  PROVE  IsFiniteSet(Sent(S)) /\ Cardinality(Sent(S)) \in Nat
  <1>1. Sent(S) \in SUBSET Attempt
    BY DEF Sent
  <1> QED
    BY <1>1, StructureAssumption, FS_Subset, FS_CardinalityType

\* mark_send marks exactly one attempt, which was not marked before.
LEMMA MarkSendRow ==
  ASSUME TypeOK, AttemptInv, NEW a \in Attempt, MarkSend(a)
  PROVE  /\ ~att[a].sent /\ ~att[a].budget
         /\ \A b \in Attempt : /\ att'[b].sent = (b = a \/ att[b].sent)
                               /\ att'[b].budget = (b = a \/ att[b].budget)
         /\ \A o \in Operation :
              op'[o].attempts = IF o = OpOf[a] THEN op[o].attempts + 1 ELSE op[o].attempts
         /\ \A r \in Root :
              root'[r].attempts = IF r = RootOf[OpOf[a]] THEN root[r].attempts + 1
                                  ELSE root[r].attempts
  <1>t. /\ root \in [Root -> RootRow] /\ op \in [Operation -> OpRow]
        /\ att \in [Attempt -> AttemptRow]
    BY DEF TypeOK
  <1>1. ~att[a].sent /\ ~att[a].budget
    BY DEF MarkSend, Sendable, AttemptInv, Fresh
  <1>2. ASSUME NEW b \in Attempt
        PROVE  /\ att'[b].sent = (b = a \/ att[b].sent)
               /\ att'[b].budget = (b = a \/ att[b].budget)
    BY <1>t DEF MarkSend, AttemptRow
  <1>3. ASSUME NEW o \in Operation
        PROVE  op'[o].attempts = IF o = OpOf[a] THEN op[o].attempts + 1 ELSE op[o].attempts
    BY <1>t DEF MarkSend, OpRow
  <1>4. ASSUME NEW r \in Root
        PROVE  root'[r].attempts = IF r = RootOf[OpOf[a]] THEN root[r].attempts + 1
                                   ELSE root[r].attempts
    BY <1>t DEF MarkSend, RootRow
  <1> QED
    BY <1>1, <1>2, <1>3, <1>4

\* It raises both counters by the one send it adds.
LEMMA MarkSendCounts ==
  ASSUME TypeOK, AttemptInv, SendsCounted, NEW a \in Attempt, MarkSend(a)
  PROVE  SendsCounted'
  <1>s. OpOf[a] \in Operation /\ RootOf[OpOf[a]] \in Root
    BY StructureAssumption
  <1>1. ASSUME NEW S
        PROVE  Cardinality(Sent(S)') = IF OpOf[a] \in S THEN Cardinality(Sent(S)) + 1
                                       ELSE Cardinality(Sent(S))
    <2>1. CASE OpOf[a] \in S
      <3>1. Sent(S)' = Sent(S) \cup {a} /\ a \notin Sent(S)
        BY <2>1, MarkSendRow DEF Sent
      <3> QED
        BY <2>1, <3>1, SentFinite, FS_AddElement
    <2>2. CASE OpOf[a] \notin S
      <3>1. Sent(S)' = Sent(S)
        BY <2>2, MarkSendRow DEF Sent
      <3> QED
        BY <2>2, <3>1
    <2> QED
      BY <2>1, <2>2
  <1>t. /\ \A o \in Operation : op[o].attempts \in Nat /\ MaxAttempts[o] \in Nat
        /\ \A r \in Root : root[r].attempts \in Nat /\ RootMaxAttempts[r] \in Nat
    BY NumberAssumption DEF TypeOK, OpRow, RootRow
  <1>2. ASSUME NEW o \in Operation
        PROVE  /\ op'[o].attempts = Cardinality(Sent({o})')
               /\ op'[o].attempts <= MaxAttempts[o]
    <2>1. op[o].attempts = Cardinality(Sent({o})) /\ op[o].attempts <= MaxAttempts[o]
      BY DEF SendsCounted
    <2>2. o = OpOf[a] => op[o].attempts < MaxAttempts[o]
      BY DEF MarkSend, SendBudget
    <2> QED
      BY <1>1, <1>t, <2>1, <2>2, MarkSendRow
  <1>3. ASSUME NEW r \in Root
        PROVE  /\ root'[r].attempts = Cardinality(Sent(OpsOf(r))')
               /\ root'[r].attempts <= RootMaxAttempts[r]
    <2>1. /\ root[r].attempts = Cardinality(Sent(OpsOf(r)))
          /\ root[r].attempts <= RootMaxAttempts[r]
      BY DEF SendsCounted
    <2>2. r = RootOf[OpOf[a]] => root[r].attempts < RootMaxAttempts[r]
      BY DEF MarkSend, SendBudget
    <2>3. OpOf[a] \in OpsOf(r) <=> r = RootOf[OpOf[a]]
      BY <1>s DEF OpsOf
    <2> QED
      BY <1>1, <1>t, <2>1, <2>2, <2>3, MarkSendRow
  <1> QED
    BY <1>2, <1>3 DEF SendsCounted, OpsOf

(* max_attempts of an operation and of a root bound the requests that ever *)
(* leave for an engine, because mark_send counts each of them under the    *)
(* locks of both rows and nothing else touches the counters.               *)
THEOREM SendsAreCounted == Spec => []SendsCounted
  <1>1. Init => SendsCounted
    <2> SUFFICES ASSUME Init PROVE SendsCounted
      OBVIOUS
    <2>1. \A S : Sent(S) = {}
      BY DEF Init, Sent, FreeRow
    <2>2. \A S : Cardinality(Sent(S)) = 0
      BY <2>1, FS_EmptySet
    <2>3. \A o \in Operation : op[o].attempts = 0 /\ 0 <= MaxAttempts[o]
      BY NumberAssumption DEF Init
    <2>4. \A r \in Root : root[r].attempts = 0 /\ 0 <= RootMaxAttempts[r]
      BY NumberAssumption DEF Init
    <2> QED
      BY <2>2, <2>3, <2>4 DEF SendsCounted
  <1>2. TypeOK /\ AttemptInv /\ SendsCounted /\ [Next]_vars => SendsCounted'
    <2> SUFFICES ASSUME TypeOK, AttemptInv, SendsCounted, [Next]_vars PROVE SendsCounted'
      OBVIOUS
    <2>1. ASSUME SendsKept PROVE SendsCounted'
      <3>1. \A S : Sent(S)' = Sent(S)
        BY <2>1 DEF SendsKept, Sent
      <3> QED
        BY <2>1, <3>1 DEF SendsKept, SendsCounted, OpsOf
    <2> QED
      BY <2>1, CountSteps, MarkSendCounts DEF Kept, Settled
  <1> QED
    BY <1>1, <1>2, TypeCorrect, AttemptInvariant, PTL DEF Spec

-----------------------------------------------------------------------------
(* Reservations.                                                           *)

\* The attempts that hold budget of an account, and the units of one of them.
Holders(c) == {a \in Attempt : att[a].budget /\ AccountOf[OpOf[a]] = c}
Units(a) == {a} \X (1..Bound[OpOf[a]])

\* An attempt holds as many units as its bound.
LEMMA UnitsCount ==
  ASSUME NEW a \in Attempt
  PROVE  IsFiniteSet(Units(a)) /\ Cardinality(Units(a)) = Bound[OpOf[a]]
  <1> DEFINE n == Bound[OpOf[a]]
             S == {a}
             T == 1..n
  <1>1. n \in Nat /\ n # 0
    BY StructureAssumption, NumberAssumption
  <1> HIDE DEF n
  <1>2. IsFiniteSet(T) /\ Cardinality(T) = n
    BY <1>1, FS_Interval
  <1>3. IsFiniteSet(S) /\ Cardinality(S) = 1
    BY FS_Singleton
  <1> HIDE DEF S, T
  <1>4. IsFiniteSet(S \X T) /\ Cardinality(S \X T) = 1 * n
    BY <1>2, <1>3, FS_Product
  <1>5. 1 * n = n
    BY <1>1
  <1> QED
    BY <1>4, <1>5 DEF Units, S, T, n

\* The cardinality of a disjoint union.
LEMMA DisjointUnion ==
  ASSUME NEW S, NEW T, IsFiniteSet(S), IsFiniteSet(T), S \cap T = {}
  PROVE  /\ IsFiniteSet(S \cup T)
         /\ Cardinality(S \cup T) = Cardinality(S) + Cardinality(T)
  <1>1. Cardinality(S) \in Nat /\ Cardinality(T) \in Nat
    BY FS_CardinalityType
  <1>2. Cardinality(S \cup T) = Cardinality(S) + Cardinality(T) - Cardinality({})
        /\ IsFiniteSet(S \cup T)
    BY FS_Union
  <1>3. Cardinality({}) = 0
    BY FS_EmptySet
  <1> QED
    BY <1>1, <1>2, <1>3

\* Finiteness is carried along: the units of an account grow and shrink by the
\* units of one attempt.
ReservedInv == \A c \in Account : /\ IsFiniteSet(HeldUnits(c))
                                  /\ budget[c].reserved = Cardinality(HeldUnits(c))

\* The units of an account are those of its holders.
LEMMA HeldUnitsAre == \A c : HeldUnits(c) = UNION {Units(a) : a \in Holders(c)}
  BY DEF HeldUnits, Units, Holders

(* The units of the other holders are disjoint from those of an attempt.   *)
LEMMA UnitsApart ==
  ASSUME NEW c, NEW a \in Attempt, NEW H \in SUBSET Attempt, a \notin H
  PROVE  /\ (UNION {Units(b) : b \in H}) \cap Units(a) = {}
         /\ UNION {Units(b) : b \in H \cup {a}} = (UNION {Units(b) : b \in H}) \cup Units(a)
  BY DEF Units

\* mark_send adds the attempt's units to what is held.
LEMMA MarkSendReserves ==
  ASSUME TypeOK, AttemptInv, ReservedInv, NEW a \in Attempt, MarkSend(a)
  PROVE  ReservedInv'
  <1> DEFINE d == AccountOf[OpOf[a]]
  <1> SUFFICES ASSUME NEW c \in Account
               PROVE  /\ IsFiniteSet(HeldUnits(c)')
                      /\ budget'[c].reserved = Cardinality(HeldUnits(c)')
    BY DEF ReservedInv
  <1>t. budget \in [Account -> [reserved : Int, spent : Nat]] /\ Bound[OpOf[a]] \in Nat
    BY StructureAssumption, NumberAssumption DEF TypeOK
  <1>h. IsFiniteSet(HeldUnits(c)) /\ budget[c].reserved = Cardinality(HeldUnits(c))
        /\ HeldUnits(c) = UNION {Units(b) : b \in Holders(c)}
        /\ HeldUnits(c)' = UNION {Units(b) : b \in Holders(c)'}
    BY HeldUnitsAre DEF ReservedInv, HeldUnits, Units, Holders
  <1>1. CASE c = d
    <2>1. Holders(c)' = Holders(c) \cup {a} /\ a \notin Holders(c)
          /\ Holders(c) \in SUBSET Attempt
      BY <1>1, MarkSendRow DEF Holders
    <2>2. HeldUnits(c)' = HeldUnits(c) \cup Units(a) /\ HeldUnits(c) \cap Units(a) = {}
      BY <1>h, <2>1, UnitsApart
    <2>3. IsFiniteSet(HeldUnits(c)')
          /\ Cardinality(HeldUnits(c)') = Cardinality(HeldUnits(c)) + Bound[OpOf[a]]
      <3>1. IsFiniteSet(Units(a)) /\ Cardinality(Units(a)) = Bound[OpOf[a]]
        BY UnitsCount
      <3>2. IsFiniteSet(HeldUnits(c))
        BY <1>h
      <3> QED
        BY <2>2, <3>1, <3>2, DisjointUnion
    <2>4. budget'[c].reserved = budget[c].reserved + Bound[OpOf[a]]
      BY <1>1, <1>t DEF MarkSend
    <2> QED
      BY <1>h, <2>3, <2>4
  <1>2. CASE c # d
    <2>1. Holders(c)' = Holders(c)
      BY <1>2, MarkSendRow DEF Holders
    <2>2. budget'[c] = budget[c]
      BY <1>2, <1>t DEF MarkSend
    <2> QED
      BY <1>h, <2>1, <2>2
  <1> QED
    BY <1>1, <1>2

\* _settle gives back the units of the attempt, and only those.
LEMMA SettleReserves ==
  ASSUME TypeOK, ReservedInv, HoldSettled
  PROVE  ReservedInv'
  <1>a. PICK a \in Attempt, u \in Charges :
          /\ Settle(a, u)
          /\ \A b \in Attempt : att'[b].budget = (b # a /\ att[b].budget)
    BY DEF HoldSettled
  <1> DEFINE d == AccountOf[OpOf[a]]
  <1> SUFFICES ASSUME NEW c \in Account
               PROVE  /\ IsFiniteSet(HeldUnits(c)')
                      /\ budget'[c].reserved = Cardinality(HeldUnits(c)')
    BY DEF ReservedInv
  <1>t. budget \in [Account -> [reserved : Int, spent : Nat]] /\ Bound[OpOf[a]] \in Nat
    BY StructureAssumption, NumberAssumption DEF TypeOK
  <1>h. IsFiniteSet(HeldUnits(c)) /\ budget[c].reserved = Cardinality(HeldUnits(c))
        /\ HeldUnits(c) = UNION {Units(b) : b \in Holders(c)}
        /\ HeldUnits(c)' = UNION {Units(b) : b \in Holders(c)'}
    BY HeldUnitsAre DEF ReservedInv, HeldUnits, Units, Holders
  <1>1. CASE c = d /\ att[a].budget
    <2>1. Holders(c) = Holders(c)' \cup {a} /\ a \notin Holders(c)'
          /\ Holders(c)' \in SUBSET Attempt
      BY <1>a, <1>1 DEF Holders
    <2>2. HeldUnits(c) = HeldUnits(c)' \cup Units(a) /\ HeldUnits(c)' \cap Units(a) = {}
      BY <1>h, <2>1, UnitsApart
    <2>3. IsFiniteSet(HeldUnits(c)')
      BY <1>h, <2>2, FS_Subset
    <2>4. Cardinality(HeldUnits(c)) = Cardinality(HeldUnits(c)') + Bound[OpOf[a]]
      BY <2>2, <2>3, UnitsCount, DisjointUnion
    <2>5. Cardinality(HeldUnits(c)') \in Nat
      BY <2>3, FS_CardinalityType
    <2>6. budget'[c].reserved = budget[c].reserved - Bound[OpOf[a]]
      BY <1>a, <1>1, <1>t DEF Settle
    <2>7. budget'[c].reserved = Cardinality(HeldUnits(c)')
      <3>1. budget[c].reserved = Cardinality(HeldUnits(c)') + Bound[OpOf[a]]
        BY <1>h, <2>4
      <3> QED
        BY <1>t, <2>5, <2>6, <3>1
    <2> QED
      BY <2>3, <2>7
  <1>2. CASE ~(c = d /\ att[a].budget)
    <2>1. Holders(c)' = Holders(c)
      BY <1>a, <1>2 DEF Holders
    <2>2. budget'[c] = budget[c]
      BY <1>a, <1>2, <1>t DEF Settle
    <2> QED
      BY <1>h, <2>1, <2>2
  <1> QED
    BY <1>1, <1>2

(* The reserved column of a budget is the sum of the bounds of the attempts*)
(* with budget_held, so that it is never negative and no reservation leaks.*)
THEOREM ReservationsAreHeld == Spec => []ReservedIsHeld
  <1>1. Init => ReservedInv
    <2> SUFFICES ASSUME Init PROVE ReservedInv
      OBVIOUS
    <2>1. \A c : HeldUnits(c) = {}
      BY DEF Init, HeldUnits, FreeRow
    <2> QED
      BY <2>1, FS_EmptySet DEF Init, ReservedInv
  <1>2. TypeOK /\ AttemptInv /\ ReservedInv /\ [Next]_vars => ReservedInv'
    <2> SUFFICES ASSUME TypeOK, AttemptInv, ReservedInv, [Next]_vars PROVE ReservedInv'
      OBVIOUS
    <2>1. ASSUME HoldsKept PROVE ReservedInv'
      <3>1. \A c : HeldUnits(c)' = HeldUnits(c)
        BY <2>1 DEF HoldsKept, HeldUnits
      <3> QED
        BY <2>1, <3>1 DEF HoldsKept, ReservedInv
    <2> QED
      BY <2>1, CountSteps, MarkSendReserves, SettleReserves DEF Kept, Settled
  <1>3. ReservedInv => ReservedIsHeld
    BY DEF ReservedInv, ReservedIsHeld
  <1> QED
    BY <1>1, <1>2, <1>3, TypeCorrect, AttemptInvariant, PTL DEF Spec

-----------------------------------------------------------------------------
(* Overspent accounts.                                                     *)

\* Budget is held only for what was sent, and only on a named account.
HoldInv ==
  \A a \in Attempt : att[a].budget => att[a].sent /\ AccountOf[OpOf[a]] \in Account

\* mark_send is the only step that takes a hold, and it records the send.
LEMMA HoldStep ==
  ASSUME TypeOK, AttemptInv, HoldInv, [Next]_vars
  PROVE  HoldInv'
  <1>1. CASE Kept
    BY <1>1 DEF Kept, SendsKept, HoldsKept, HoldInv
  <1>2. CASE Settled
    BY <1>2 DEF Settled, SendsKept, HoldSettled, HoldInv
  <1>3. ASSUME NEW a \in Attempt, MarkSend(a) PROVE HoldInv'
    <2>1. AccountOf[OpOf[a]] \in Account
      BY <1>3 DEF MarkSend, SendBudget
    <2> QED
      BY <1>3, <2>1, MarkSendRow DEF HoldInv
  <1> QED
    BY <1>1, <1>2, <1>3, CountSteps

\* A root that has ended or runs is not created again, and nothing but its
\* creation makes it run.
RootsMove ==
  \A r \in Root : root[r].state # "ABSENT" =>
    root'[r].state \in {root[r].state} \cup RootFinal

\* _settle may fail the root.
LEMMA SettleMoves ==
  ASSUME TypeOK, NEW a \in Attempt, NEW u, Settle(a, u)
  PROVE  RootsMove
  <1>t. root \in [Root -> RootRow]
    BY DEF TypeOK
  <1> QED
    BY <1>t DEF Settle, RootsMove, RootRow

\* No transaction starts a root again.
LEMMA RootSteps ==
  ASSUME TypeOK, AttemptInv, [Next]_vars
  PROVE  RootsMove
  <1>t. root \in [Root -> RootRow]
    BY DEF TypeOK
  <1> USE DEF RootsMove
  <1>1. CASE TimeStep
    BY <1>1, <1>t DEF TimeStep, RootDeadline, OperationDeadline, AttemptLeaseLapse,
                      OwnerLapse, HeartbeatOwner, RootRow
  <1>2. CASE ClientStep
    <2>1. ASSUME NEW r \in Root, CreateRoot(r) \/ CancelWrite(r) PROVE RootsMove
      BY <2>1, <1>t DEF CreateRoot, CancelWrite, RootRow
    <2>2. ASSUME NEW r \in Root, FinishWrite(r) PROVE RootsMove
      <3>1. finishing[r].state \in FinishState
        BY DEF TypeOK, Finishing
      <3> QED
        BY <2>2, <1>t, <3>1 DEF FinishWrite, RootRow, FinishState
    <2>3. ASSUME NEW o \in Operation, SubmitOperation(o) PROVE RootsMove
      BY <2>3, <1>t DEF SubmitOperation, RootRow
    <2> QED
      BY <1>2, <2>1, <2>2, <2>3 DEF ClientStep, CancelRead, FinishRead, FinishCount,
                                    BindRead, BindWrite, rows
  <1>3. ASSUME NEW a \in Attempt, MarkSend(a) PROVE RootsMove
    BY <1>3, <1>t DEF MarkSend, RootRow
  <1>4. CASE Settled
    BY <1>4, SettleMoves DEF Settled, HoldSettled
  <1>5. CASE OwnerStep
    <2>1. ASSUME NEW a \in Attempt, \/ \E u \in Usage : CommitResult(a, u)
                                    \/ \E n, q \in BOOLEAN : Fail(a, n, q)
          PROVE  RootsMove
      BY <2>1, SettleMoves DEF CommitResult, Fail
    <2> QED
      BY <1>3, <1>5, <2>1 DEF OwnerStep, RefuseCandidate, Reserve, OwnerCrash, Owned,
           Rollback, Heartbeat, ComputeFinished, Unknown, rows
  <1>6. CASE MaintenanceStep
    <2>1. CASE ReconcileFinish
      BY <2>1, <1>t DEF ReconcileFinish, RootRow
    <2>2. ASSUME NEW a \in Attempt,
                 SettleLostResult(a) \/ SettleIdleUnknown(a) \/ SettleConfirmed(a)
          PROVE  RootsMove
      BY <2>2, SettleMoves
      DEF SettleLostResult, SettleIdleUnknown, SettleConfirmed, SettleStopped
    <2> QED
      BY <1>6, <2>1, <2>2 DEF MaintenanceStep, ReconcileScan, ReclaimReserved, ReclaimSent,
           ConfirmStopped, QuiesceEngine, ResumeEngine, ConfigurePool
  <1>7. CASE UNCHANGED vars
    BY <1>7 DEF vars, rows
  <1> QED
    BY <1>1, <1>2, <1>5, <1>6, <1>7 DEF Next

\* Only a root that was created sends, and no account of it is overspent while
\* it runs or before it is created.
OverspentInv ==
  /\ \A a \in Attempt : att[a].sent => root[RootOf[OpOf[a]]].state # "ABSENT"
  /\ \A o \in Operation :
       AccountOf[o] \in Account /\ budget[AccountOf[o]].spent > Limit[AccountOf[o]]
         => root[RootOf[o]].state \in RootFinal

\* The roots of what was sent exist.
LEMMA SentRoots ==
  ASSUME TypeOK, AttemptInv, OverspentInv, [Next]_vars, NEW a \in Attempt, att'[a].sent
  PROVE  root'[RootOf[OpOf[a]]].state # "ABSENT"
  <1>s. OpOf[a] \in Operation /\ RootOf[OpOf[a]] \in Root
    BY StructureAssumption
  <1>1. root[RootOf[OpOf[a]]].state # "ABSENT"
    <2>1. CASE att[a].sent
      BY <2>1 DEF OverspentInv
    <2>2. CASE ~att[a].sent
      <3>1. MarkSend(a)
        BY <2>2, CountSteps, MarkSendRow DEF Kept, Settled, SendsKept
      <3> QED
        BY <3>1 DEF MarkSend, Sendable, RootOpen
    <2> QED
      BY <2>1, <2>2
  <1> QED
    BY <1>s, <1>1, RootSteps DEF RootsMove

\* _settle stops the root of the account that it overspends.
LEMMA SettleStopsRoot ==
  ASSUME TypeOK, AttemptInv, HoldInv, OverspentInv, NEW a \in Attempt, NEW u \in Nat,
         Settle(a, u), NEW o \in Operation, AccountOf[o] \in Account,
         budget'[AccountOf[o]].spent > Limit[AccountOf[o]]
  PROVE  root'[RootOf[o]].state \in RootFinal
  <1> DEFINE c == AccountOf[o]
  <1>t. /\ root \in [Root -> RootRow]
        /\ budget \in [Account -> [reserved : Int, spent : Nat]]
        /\ RootOf[o] \in Root /\ OpOf[a] \in Operation
    BY StructureAssumption DEF TypeOK
  <1>1. CASE budget[c].spent > Limit[c]
    <2>1. root[RootOf[o]].state \in RootFinal
      BY <1>1 DEF OverspentInv
    <2> QED
      BY <1>t, <2>1, SettleMoves DEF RootsMove
  <1>2. CASE ~(budget[c].spent > Limit[c])
    <2>1. att[a].budget /\ AccountOf[OpOf[a]] = c /\ budget'[c].spent = budget[c].spent + u
      BY <1>t, <1>2 DEF Settle
    <2>2. RootOf[OpOf[a]] = RootOf[o]
      BY <1>t, <2>1, AccountAssumption
    <2>3. root[RootOf[o]].state # "ABSENT"
      BY <2>1, <2>2 DEF HoldInv, OverspentInv
    <2>4. CASE root[RootOf[o]].state = "RUNNING"
      BY <1>t, <2>1, <2>2, <2>4 DEF Settle, RootRow
    <2>5. CASE root[RootOf[o]].state # "RUNNING"
      BY <1>t, <2>3, <2>5, SettleMoves DEF RootsMove, RootRow
    <2> QED
      BY <2>4, <2>5
  <1> QED
    BY <1>1, <1>2

(* Overspending stops the run: the settlement that takes an account beyond *)
(* its limit fails the account's root, and no later step starts it again.  *)
THEOREM OverspendingStops == Spec => []OverspentRootStops
  <1>1. Init => HoldInv /\ OverspentInv
    BY NumberAssumption DEF Init, HoldInv, OverspentInv, FreeRow
  <1>2. TypeOK /\ AttemptInv /\ HoldInv /\ [Next]_vars => HoldInv'
    BY HoldStep
  <1>3. TypeOK /\ AttemptInv /\ HoldInv /\ OverspentInv /\ [Next]_vars => OverspentInv'
    <2> SUFFICES ASSUME TypeOK, AttemptInv, HoldInv, OverspentInv, [Next]_vars
                 PROVE  OverspentInv'
      OBVIOUS
    <2> SUFFICES ASSUME NEW o \in Operation, AccountOf[o] \in Account,
                        budget'[AccountOf[o]].spent > Limit[AccountOf[o]]
                 PROVE  root'[RootOf[o]].state \in RootFinal
      BY SentRoots DEF OverspentInv
    <2>1. ASSUME budget'[AccountOf[o]].spent = budget[AccountOf[o]].spent
          PROVE  root'[RootOf[o]].state \in RootFinal
      <3>1. root[RootOf[o]].state \in RootFinal
        BY <2>1 DEF OverspentInv
      <3> QED
        BY <3>1, RootSteps, StructureAssumption DEF RootsMove
    <2>2. CASE Kept
      BY <2>1, <2>2 DEF Kept, HoldsKept
    <2>3. ASSUME NEW a \in Attempt, MarkSend(a)
          PROVE  budget'[AccountOf[o]].spent = budget[AccountOf[o]].spent
      BY <2>3 DEF MarkSend, TypeOK
    <2>4. CASE Settled
      <3>1. PICK a \in Attempt, u \in Charges : Settle(a, u)
        BY <2>4 DEF Settled, HoldSettled
      <3>2. u \in Nat
        BY NumberAssumption DEF Charges
      <3> QED
        BY <3>1, <3>2, SettleStopsRoot
    <2> QED
      BY <2>1, <2>2, <2>3, <2>4, CountSteps
  <1>4. TypeOK /\ OverspentInv => OverspentRootStops
    BY DEF OverspentInv, OverspentRootStops
  <1> QED
    BY <1>1, <1>2, <1>3, <1>4, TypeCorrect, AttemptInvariant, PTL DEF Spec
=============================================================================
