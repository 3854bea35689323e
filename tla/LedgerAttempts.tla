--------------------------- MODULE LedgerAttempts ---------------------------
(***************************************************************************)
(* One attempt at a time, and one result: for every value of the constants *)
(* an unsettled attempt is its operation's active one, and a published     *)
(* result is the one its attempt committed and stays.                      *)
(***************************************************************************)
EXTENDS LedgerProofs

USE DEF OpFinal, OpQueued, OpState, AttemptFinal, AttemptState

\* A row that has not been sent carries nothing to settle, count or publish.
Fresh(a) ==
  att[a].state \in {"FREE", "RESERVED"} =>
    ~att[a].compute /\ ~att[a].budget /\ ~att[a].sent /\ ~att[a].committed

\* An attempt exists for an operation that exists, and transactions have read or
\* locked only attempts that exist.
Opened(a) ==
  /\ att[a].state # "FREE" => op[OpOf[a]].state # "ABSENT"
  /\ snap[a] # Closed \/ scan[a] # "FREE" \/ settling[a] # "NO" => att[a].state # "FREE"

\* No attempt of a SUCCEEDED operation waits to be settled.
SucceededSettled ==
  \A a \in Attempt : op[OpOf[a]].state = "SUCCEEDED" => ~Live(a)

AttemptInv ==
  /\ \A a \in Attempt : Fresh(a) /\ Opened(a)
  /\ SucceededHasResult
  /\ raced = {} => OneLiveAttempt /\ SucceededSettled

-----------------------------------------------------------------------------
(* What a step may do to the rows, in the terms of the invariant.          *)

\* The rows of attempts keep what the invariant looks at.
AttemptsKept ==
  \A a \in Attempt : /\ att'[a].state = att[a].state
                     /\ att'[a].compute = att[a].compute
                     /\ att'[a].budget = att[a].budget
                     /\ att'[a].sent = att[a].sent
                     /\ att'[a].committed = att[a].committed

\* Operations keep their attempts and results, and may only end or be created.
OperationsMayEnd ==
  \A o \in Operation :
    /\ op'[o].active = op[o].active /\ op'[o].result = op[o].result
    /\ \/ op'[o].state = op[o].state
       \/ op[o].state \notin OpFinal /\ op'[o].state \in {"FAILED", "CANCELLED"}
       \/ op[o].state = "ABSENT" /\ op'[o].state = "READY"

\* Transactions read and lock only attempts that exist.
ReadsClose ==
  \A a \in Attempt : \/ att[a].state # "FREE"
                     \/ /\ snap'[a] \in {snap[a], Closed}
                        /\ scan'[a] \in {scan[a], "FREE"}
                        /\ settling'[a] \in {settling[a], "NO"}

\* No published result is replaced or withdrawn (unless a reclaim raced).
ResultsStand ==
  \A o \in Operation : op[o].state = "SUCCEEDED" /\ raced' = {} =>
    op'[o].state = "SUCCEEDED" /\ op'[o].result = op[o].result

Preserved == AttemptInv' /\ ResultsStand

\* A step that changes no attempt and ends operations only.
LEMMA CalmStep ==
  ASSUME TypeOK, AttemptInv, AttemptsKept, OperationsMayEnd, ReadsClose, raced' = raced
  PROVE  Preserved
  <1>s. \A a \in Attempt : OpOf[a] \in Operation
    BY StructureAssumption
  <1>1. \A a \in Attempt : Fresh(a)'
    BY DEF AttemptInv, Fresh, AttemptsKept
  <1>2. \A a \in Attempt : Opened(a)'
    BY <1>s DEF AttemptInv, Opened, AttemptsKept, OperationsMayEnd, ReadsClose
  <1>3. SucceededHasResult'
    BY DEF AttemptInv, SucceededHasResult, AttemptsKept, OperationsMayEnd
  <1>4. raced' = {} => OneLiveAttempt'
    <2> SUFFICES ASSUME raced' = {}, NEW a \in Attempt, Live(a)'
                 PROVE  op'[OpOf[a]].active = a /\ op'[OpOf[a]].state \notin OpQueued
      BY DEF OneLiveAttempt
    <2>1. Live(a)
      BY DEF Live, AttemptsKept
    <2>2. op[OpOf[a]].active = a /\ op[OpOf[a]].state \notin OpQueued \cup {"ABSENT"}
      BY <2>1 DEF AttemptInv, OneLiveAttempt, Opened, Live
    <2> QED
      BY <1>s, <2>2 DEF OperationsMayEnd
  <1>5. raced' = {} => SucceededSettled'
    BY <1>s DEF AttemptInv, SucceededSettled, Live, AttemptsKept, OperationsMayEnd
  <1>6. ResultsStand
    BY DEF ResultsStand, OperationsMayEnd
  <1> QED
    BY <1>1, <1>2, <1>3, <1>4, <1>5, <1>6 DEF AttemptInv, Preserved

\* _terminal ends a pending operation and leaves an ended one alone.
LEMMA TerminatedEnds ==
  ASSUME NEW row \in OpRow, NEW s \in {"FAILED", "CANCELLED"}
  PROVE  LET t == Terminated(row, s)
         IN /\ t.active = row.active /\ t.result = row.result
            /\ \/ t.state = row.state
               \/ row.state \notin OpFinal /\ t.state \in {"FAILED", "CANCELLED"}
  BY DEF Terminated, OpRow

\* The same, for the rows of a set of operations.
LEMMA TerminateAllEnds ==
  ASSUME op \in [Operation -> OpRow], NEW S, NEW s \in {"FAILED", "CANCELLED"},
         TerminateAll(S, s)
  PROVE  OperationsMayEnd
  BY TerminatedEnds DEF TerminateAll, OperationsMayEnd

\* Only the rows of attempt a and of its operation change.
Focus(a) ==
  /\ \A b \in Attempt \ {a} : /\ att'[b].state = att[b].state
                              /\ att'[b].compute = att[b].compute
                              /\ att'[b].budget = att[b].budget
                              /\ att'[b].sent = att[b].sent
                              /\ att'[b].committed = att[b].committed
  /\ \A o \in Operation \ {OpOf[a]} : op'[o] = op[o]
  /\ ReadsClose

\* No other attempt of a's operation waits to be settled.
Alone(a) == \A b \in Attempt \ {a} : OpOf[b] = OpOf[a] => ~Live(b)

\* An operation's active attempt is its only unsettled one.
LEMMA AloneWhen ==
  ASSUME AttemptInv, raced = {}, NEW a \in Attempt,
         Live(a) \/ op[OpOf[a]].active = a \/ op[OpOf[a]].state \in OpQueued
  PROVE  Alone(a)
  BY DEF AttemptInv, OneLiveAttempt, Alone

\* A step that changes one attempt and its operation.
LEMMA AttemptStep ==
  ASSUME TypeOK, AttemptInv, NEW a \in Attempt, Focus(a),
         Fresh(a)',
         att[a].committed => att'[a].committed,
         att'[a].state # "FREE", op'[OpOf[a]].state # "ABSENT",
         op'[OpOf[a]].state = "SUCCEEDED" =>
           \/ op[OpOf[a]].state = "SUCCEEDED" /\ op'[OpOf[a]].result = op[OpOf[a]].result
           \/ op'[OpOf[a]].result = a /\ att'[a].committed,
         raced' = {} /\ op[OpOf[a]].state = "SUCCEEDED" =>
           op'[OpOf[a]].state = "SUCCEEDED" /\ op'[OpOf[a]].result = op[OpOf[a]].result,
         raced' = {} =>
           /\ raced = {}
           /\ Live(a)' => /\ op'[OpOf[a]].active = a
                          /\ op'[OpOf[a]].state \notin OpQueued \cup {"SUCCEEDED"}
           /\ \/ Alone(a)
              \/ /\ op'[OpOf[a]].active = op[OpOf[a]].active
                 /\ op'[OpOf[a]].state \in {op[OpOf[a]].state, "FAILED", "CANCELLED"}
  PROVE  Preserved
  <1>s. \A b \in Attempt : OpOf[b] \in Operation
    BY StructureAssumption
  <1>1. ASSUME NEW b \in Attempt PROVE Fresh(b)'
    BY DEF AttemptInv, Fresh, Focus
  <1>2. ASSUME NEW b \in Attempt PROVE Opened(b)'
    BY <1>s DEF AttemptInv, Opened, Focus, ReadsClose
  <1>3. SucceededHasResult'
    <2> SUFFICES ASSUME NEW o \in Operation, op'[o].state = "SUCCEEDED"
                 PROVE  /\ op'[o].result \in Attempt
                        /\ OpOf[op'[o].result] = o /\ att'[op'[o].result].committed
      BY DEF SucceededHasResult
    <2>1. CASE o # OpOf[a]
      BY <2>1 DEF AttemptInv, SucceededHasResult, Focus
    <2>2. CASE o = OpOf[a]
      BY <2>2 DEF AttemptInv, SucceededHasResult, Focus
    <2> QED
      BY <2>1, <2>2
  <1>4. ASSUME raced' = {}, NEW b \in Attempt, Live(b)'
        PROVE  /\ op'[OpOf[b]].active = b
               /\ op'[OpOf[b]].state \notin OpQueued \cup {"SUCCEEDED"}
    <2>1. CASE b = a
      BY <1>4, <2>1
    <2>2. CASE b # a
      <3>1. Live(b) /\ op[OpOf[b]].active = b
            /\ op[OpOf[b]].state \notin OpQueued \cup {"SUCCEEDED"}
        BY <1>4, <2>2 DEF Live, Focus, AttemptInv, OneLiveAttempt, SucceededSettled
      <3>2. CASE OpOf[b] = OpOf[a]
        BY <1>4, <2>2, <3>1, <3>2 DEF Alone
      <3>3. CASE OpOf[b] # OpOf[a]
        BY <1>s, <3>1, <3>3 DEF Focus
      <3> QED
        BY <3>2, <3>3
    <2> QED
      BY <2>1, <2>2
  <1>5. raced' = {} => OneLiveAttempt' /\ SucceededSettled'
    BY <1>4 DEF OneLiveAttempt, SucceededSettled
  <1>6. ResultsStand
    BY DEF ResultsStand, Focus
  <1> QED
    BY <1>1, <1>2, <1>3, <1>5, <1>6 DEF AttemptInv, Preserved

-----------------------------------------------------------------------------
(* Every step preserves the invariant.                                     *)

\* Time does not touch operations or attempt states.
LEMMA TimeAttempts == TypeOK /\ AttemptInv /\ TimeStep => Preserved
  <1> SUFFICES ASSUME TypeOK, AttemptInv, TimeStep PROVE Preserved
    OBVIOUS
  <1>t. op \in [Operation -> OpRow] /\ att \in [Attempt -> AttemptRow]
    BY DEF TypeOK
  <1>1. ASSUME NEW r \in Root, RootDeadline(r) PROVE Preserved
    BY <1>1, CalmStep
    DEF RootDeadline, AttemptsKept, OperationsMayEnd, ReadsClose, open, history
  <1>2. ASSUME NEW o \in Operation, OperationDeadline(o) PROVE Preserved
    <2>1. OperationsMayEnd
      BY <1>2, <1>t DEF OperationDeadline, OperationsMayEnd, OpRow
    <2> QED
      BY <1>2, <2>1, CalmStep DEF OperationDeadline, AttemptsKept, ReadsClose, open, history
  <1>3. ASSUME NEW a \in Attempt, AttemptLeaseLapse(a) PROVE Preserved
    <2>1. AttemptsKept
      BY <1>3, <1>t DEF AttemptLeaseLapse, AttemptsKept, AttemptRow
    <2> QED
      BY <1>3, <2>1, CalmStep
      DEF AttemptLeaseLapse, OperationsMayEnd, ReadsClose, open, history
  <1>4. ASSUME NEW w \in Owner, OwnerLapse(w) \/ HeartbeatOwner(w) PROVE Preserved
    BY <1>4, CalmStep
    DEF OwnerLapse, HeartbeatOwner, AttemptsKept, OperationsMayEnd, ReadsClose, open, history
  <1> QED
    BY <1>1, <1>2, <1>3, <1>4 DEF TimeStep

\* Clients and workflows end operations and touch no attempt.
LEMMA ClientAttempts == TypeOK /\ AttemptInv /\ ClientStep => Preserved
  <1> SUFFICES ASSUME TypeOK, AttemptInv, ClientStep PROVE Preserved
    OBVIOUS
  <1>t. op \in [Operation -> OpRow]
    BY DEF TypeOK
  <1>1. ASSUME NEW r \in Root, CreateRoot(r) PROVE Preserved
    BY <1>1, CalmStep
    DEF CreateRoot, AttemptsKept, OperationsMayEnd, ReadsClose, open, history
  <1>2. ASSUME NEW r \in Root, CancelRead(r) \/ FinishCount(r) PROVE Preserved
    BY <1>2, CalmStep
    DEF CancelRead, FinishCount, AttemptsKept, OperationsMayEnd, ReadsClose, rows, history
  <1>3. ASSUME NEW r \in Root, CancelWrite(r) \/ FinishWrite(r) PROVE Preserved
    <2>1. OperationsMayEnd
      BY <1>3, <1>t, TerminateAllEnds DEF CancelWrite, FinishWrite
    <2> QED
      BY <1>3, <2>1, CalmStep
      DEF CancelWrite, FinishWrite, AttemptsKept, ReadsClose, history
  <1>4. ASSUME NEW r \in Root, NEW s \in FinishAs, FinishRead(r, s) PROVE Preserved
    BY <1>4, CalmStep
    DEF FinishRead, AttemptsKept, OperationsMayEnd, ReadsClose, rows, history
  <1>5. ASSUME NEW o \in Operation, SubmitOperation(o) PROVE Preserved
    <2>1. OperationsMayEnd
      BY <1>5, <1>t DEF SubmitOperation, OperationsMayEnd, OpRow
    <2> QED
      BY <1>5, <2>1, CalmStep DEF SubmitOperation, AttemptsKept, ReadsClose, open, history
  <1>6. ASSUME NEW o \in Operation, BindRead(o) \/ BindWrite(o) PROVE Preserved
    BY <1>6, CalmStep
    DEF BindRead, BindWrite, AttemptsKept, OperationsMayEnd, ReadsClose, rows, history
  <1> QED
    BY <1>1, <1>2, <1>3, <1>4, <1>5, <1>6 DEF ClientStep

\* An owner transaction ends the reading it was opened with.
LEMMA ProceedsCloses ==
  ASSUME snap \in [Attempt -> Snapshot], NEW a \in Attempt, Proceeds(a),
         UNCHANGED <<scan, settling>>
  PROVE  ReadsClose
  BY DEF Proceeds, ReadsClose

\* The transactions of an owner preserve the invariant, by what they saw.
LEMMA OwnerAttempts == TypeOK /\ AttemptInv /\ OwnerStep => Preserved
  <1> SUFFICES ASSUME TypeOK, AttemptInv, OwnerStep PROVE Preserved
    OBVIOUS
  <1>t. /\ op \in [Operation -> OpRow] /\ att \in [Attempt -> AttemptRow]
        /\ snap \in [Attempt -> Snapshot]
    BY DEF TypeOK
  <1>s. ASSUME NEW a \in Attempt
        PROVE  OpOf[a] \in Operation /\ op[OpOf[a]] \in OpRow /\ att[a] \in AttemptRow
    BY <1>t, StructureAssumption
  <1>l. ASSUME NEW a \in Attempt, snap[a] # Closed, att[a].state \notin AttemptFinal
        PROVE  Live(a) /\ op[OpOf[a]].state # "ABSENT" /\ (raced = {} => Alone(a) /\ op[OpOf[a]].active = a /\ op[OpOf[a]].state \notin OpQueued \cup {"SUCCEEDED"})
    <2>1. Live(a) /\ op[OpOf[a]].state # "ABSENT"
      BY <1>l DEF AttemptInv, Opened, Live
    <2> QED
      BY <2>1, AloneWhen DEF AttemptInv, OneLiveAttempt, SucceededSettled
  <1>1. ASSUME NEW p \in Pool, NEW o \in Operation, RefuseCandidate(p, o) PROVE Preserved
    BY <1>1, <1>t, CalmStep, TerminateAllEnds
    DEF RefuseCandidate, AttemptsKept, ReadsClose, open, history
  <1>2. ASSUME NEW p \in Pool, NEW w \in Owner, NEW a \in Attempt, Reserve(p, w, a)
        PROVE  Preserved
    <2>1. att' = [att EXCEPT ![a] = [FreeRow EXCEPT !.state = "RESERVED", !.pool = p,
                    !.epoch = pool[p].epoch, !.owner = w, !.lease = TRUE]]
      BY <1>2 DEF Reserve
    <2>2. /\ att'[a].state = "RESERVED" /\ ~att'[a].budget /\ ~att'[a].sent
          /\ ~att'[a].committed /\ ~att'[a].compute
      BY <1>t, <2>1 DEF FreeRow
    <2>3. op' = [op EXCEPT ![OpOf[a]].state = "EXECUTING", ![OpOf[a]].active = a]
      BY <1>2 DEF Reserve
    <2>4. op'[OpOf[a]].state = "EXECUTING" /\ op'[OpOf[a]].active = a
      BY <1>t, <1>s, <2>3 DEF OpRow
    <2>5. Focus(a)
      BY <1>2, <1>t, <2>1, <2>3 DEF Focus, ReadsClose, Reserve, open
    <2>6. ~att[a].committed
      <3>1. att[a].state = "FREE"
        BY <1>2, StructureAssumption DEF Reserve, NextNumber
      <3> QED
        BY <3>1 DEF AttemptInv, Fresh
    <2>7. op[OpOf[a]].state # "SUCCEEDED" /\ (raced = {} => Alone(a))
      BY <1>2, AloneWhen DEF Reserve, Candidate
    <2>8. raced' = raced
      BY <1>2 DEF Reserve, history
    <2> QED
      BY <2>2, <2>4, <2>5, <2>6, <2>7, <2>8, AttemptStep DEF Fresh
  <1>3. ASSUME NEW a \in Attempt, Owned(a) PROVE Preserved
    <2>1. ReadsClose
      BY <1>3, <1>t DEF Owned, ReadsClose
    <2> QED
      BY <1>3, <2>1, CalmStep DEF Owned, AttemptsKept, OperationsMayEnd, rows, history
  <1>4. ASSUME NEW a \in Attempt, Rollback(a) PROVE Preserved
    BY <1>4, <1>t, ProceedsCloses, CalmStep
    DEF Rollback, AttemptsKept, OperationsMayEnd, rows, history
  <1>5. ASSUME NEW a \in Attempt, Heartbeat(a) PROVE Preserved
    <2>1. AttemptsKept
      BY <1>5, <1>t DEF Heartbeat, AttemptsKept, AttemptRow
    <2> QED
      BY <1>5, <2>1, CalmStep DEF Heartbeat, OperationsMayEnd, ReadsClose, open, history
  <1>6. ASSUME NEW a \in Attempt, MarkSend(a) PROVE Preserved
    <2>1. att' = [att EXCEPT ![a].state = "SEND_INTENT", ![a].compute = TRUE,
                             ![a].budget = TRUE, ![a].sent = TRUE]
          /\ op' = [op EXCEPT ![OpOf[a]].attempts = @ + 1] /\ raced' = raced
      BY <1>6 DEF MarkSend, history
    <2>2. att'[a].state = "SEND_INTENT" /\ att'[a].committed = att[a].committed
      BY <1>t, <1>s, <2>1 DEF AttemptRow
    <2>3. /\ op'[OpOf[a]].state = op[OpOf[a]].state
          /\ op'[OpOf[a]].active = op[OpOf[a]].active
          /\ op'[OpOf[a]].result = op[OpOf[a]].result
      BY <1>t, <1>s, <2>1 DEF OpRow
    <2>4. Focus(a)
      BY <1>6, <1>t, <2>1, ProceedsCloses DEF Focus, MarkSend
    <2>5. /\ op[OpOf[a]].state # "ABSENT"
          /\ raced = {} => /\ Alone(a) /\ op[OpOf[a]].active = a
                           /\ op[OpOf[a]].state \notin OpQueued \cup {"SUCCEEDED"}
      BY <1>6, <1>l DEF MarkSend, Proceeds, Sendable
    <2> QED
      BY <2>1, <2>2, <2>3, <2>4, <2>5, AttemptStep DEF Fresh
  <1>7. ASSUME NEW a \in Attempt, ComputeFinished(a) PROVE Preserved
    <2>1. att' = [att EXCEPT ![a].state = "BACKEND_FINISHED", ![a].compute = FALSE,
                             ![a].finished = TRUE]
          /\ op' = op /\ raced' = raced
      BY <1>7 DEF ComputeFinished, history
    <2>2. att'[a].state = "BACKEND_FINISHED" /\ att'[a].committed = att[a].committed
      BY <1>t, <1>s, <2>1 DEF AttemptRow
    <2>3. Focus(a)
      BY <1>7, <1>t, <2>1, ProceedsCloses DEF Focus, ComputeFinished
    <2>4. /\ op[OpOf[a]].state # "ABSENT"
          /\ raced = {} => /\ Alone(a) /\ op[OpOf[a]].active = a
                           /\ op[OpOf[a]].state \notin OpQueued \cup {"SUCCEEDED"}
      BY <1>7, <1>l DEF ComputeFinished, Proceeds
    <2> QED
      BY <2>1, <2>2, <2>3, <2>4, AttemptStep DEF Fresh
  <1>8. ASSUME NEW a \in Attempt, Unknown(a) PROVE Preserved
    <2> DEFINE o == OpOf[a]
    <2>1. att' = [att EXCEPT ![a].state = "UNKNOWN"] /\ raced' = raced
      BY <1>8 DEF Unknown, history
    <2>2. att'[a].state = "UNKNOWN" /\ att'[a].committed = att[a].committed
      BY <1>t, <1>s, <2>1 DEF AttemptRow
    <2>3. Focus(a)
      BY <1>8, <1>t, <2>1, ProceedsCloses DEF Focus, Unknown
    <2>4. /\ op[o].state # "ABSENT"
          /\ raced = {} => /\ Alone(a) /\ op[o].active = a
                           /\ op[o].state \notin OpQueued \cup {"SUCCEEDED"}
      BY <1>8, <1>l DEF Unknown, Proceeds
    <2>5. /\ op'[o].active = op[o].active /\ op'[o].result = op[o].result
          /\ op'[o].state \in {op[o].state, "FAILED", "RECONCILING"}
      <3>1. op'[o] \in {Terminated(op[o], "FAILED"), op[o],
                        [op[o] EXCEPT !.state = "RECONCILING"]}
        BY <1>8, <1>t, <1>s DEF Unknown
      <3> QED
        BY <1>s, <3>1 DEF Terminated, OpRow
    <2> QED
      BY <2>1, <2>2, <2>3, <2>4, <2>5, AttemptStep DEF Fresh
  <1>9. ASSUME NEW a \in Attempt, NEW u \in Usage, CommitResult(a, u) PROVE Preserved
    <2> DEFINE o == OpOf[a]
    <2>1. att' = [att EXCEPT ![a].state = "RESULT_COMMITTED", ![a].committed = TRUE,
                             ![a].budget = FALSE] /\ raced' = raced
      BY <1>9 DEF CommitResult
    <2>2. att'[a].state = "RESULT_COMMITTED" /\ att'[a].committed
      BY <1>t, <1>s, <2>1 DEF AttemptRow
    <2>3. Focus(a)
      BY <1>9, <1>t, <2>1, ProceedsCloses DEF Focus, CommitResult
    <2>4. /\ op[o].state # "ABSENT"
          /\ raced = {} => Alone(a) /\ op[o].state # "SUCCEEDED"
      BY <1>9, <1>l DEF CommitResult, Proceeds
    <2>5. \/ op'[o].state = "SUCCEEDED" /\ op'[o].result = a
          \/ /\ op'[o].result = op[o].result
             /\ op'[o].state \in {op[o].state, "FAILED"}
      <3>1. op'[o] \in {Terminated(op[o], "FAILED"), op[o],
                        [op[o] EXCEPT !.state = "SUCCEEDED", !.result = a]}
        BY <1>9, <1>t, <1>s DEF CommitResult
      <3> QED
        BY <1>s, <3>1 DEF Terminated, OpRow
    <2>6. ~Live(a)'
      BY <2>2 DEF Live
    <2> QED
      BY <2>1, <2>2, <2>3, <2>4, <2>5, <2>6, AttemptStep DEF Fresh
  <1>10. ASSUME NEW a \in Attempt, NEW notSent \in BOOLEAN, NEW retry \in BOOLEAN,
                Fail(a, notSent, retry)
         PROVE  Preserved
    <2> DEFINE o == OpOf[a]
    <2>1. att' = [att EXCEPT ![a].state = IF notSent THEN "FAILED_NOT_SENT" ELSE "FAILED",
                             ![a].compute = FALSE, ![a].budget = FALSE] /\ raced' = raced
      BY <1>10 DEF Fail
    <2>2. /\ att'[a].state \in {"FAILED_NOT_SENT", "FAILED"}
          /\ att'[a].committed = att[a].committed
      BY <1>t, <1>s, <2>1 DEF AttemptRow
    <2>3. Focus(a)
      BY <1>10, <1>t, <2>1, ProceedsCloses DEF Focus, Fail
    <2>4. /\ op[o].state # "ABSENT"
          /\ raced = {} => Alone(a) /\ op[o].state # "SUCCEEDED"
      BY <1>10, <1>l DEF Fail, Proceeds
    <2>5. /\ op'[o].result = op[o].result
          /\ op'[o].state \in {op[o].state, "FAILED", "CANCELLED", "RETRY_WAIT"}
      <3>1. op'[o] \in {Terminated(op[o], "FAILED"), Terminated(op[o], "CANCELLED"), op[o],
                        [op[o] EXCEPT !.state = "RETRY_WAIT"]}
        BY <1>10, <1>t, <1>s DEF Fail, FailedOperation
      <3> QED
        BY <1>s, <3>1 DEF Terminated, OpRow
    <2>6. ~Live(a)'
      BY <2>2 DEF Live
    <2> QED
      BY <2>1, <2>2, <2>3, <2>4, <2>5, <2>6, AttemptStep DEF Fresh
  <1>11. ASSUME NEW w \in Owner, OwnerCrash(w) PROVE Preserved
    <2>1. ReadsClose
      BY <1>11, <1>t DEF OwnerCrash, ReadsClose
    <2> QED
      BY <1>11, <2>1, CalmStep DEF OwnerCrash, AttemptsKept, OperationsMayEnd, rows, history
  <1> QED
    BY <1>1, <1>2, <1>3, <1>4, <1>5, <1>6, <1>7, <1>8, <1>9, <1>10, <1>11 DEF OwnerStep

\* _settle_stopped_attempt ends the attempt before its operation is retried.
LEMMA SettleStoppedAttempts ==
  ASSUME TypeOK, AttemptInv, NEW a \in Attempt, NEW recover, SettleStopped(a, recover),
         \A b \in Attempt : settling'[b] \in {settling[b], "NO"}, att[a].state # "FREE"
  PROVE  Preserved
  <1> DEFINE o == OpOf[a]
  <1>t. /\ op \in [Operation -> OpRow] /\ att \in [Attempt -> AttemptRow]
        /\ o \in Operation /\ op[o] \in OpRow /\ att[a] \in AttemptRow
    BY StructureAssumption DEF TypeOK
  <1>1. att' = [att EXCEPT ![a].state = "FAILED", ![a].compute = FALSE,
                           ![a].budget = FALSE, ![a].finished = TRUE]
        /\ raced' = raced /\ snap' = snap /\ scan' = scan
    BY DEF SettleStopped
  <1>2. att'[a].state = "FAILED" /\ att'[a].committed = att[a].committed
    BY <1>t, <1>1 DEF AttemptRow
  <1>3. op[o].state # "ABSENT"
    BY DEF AttemptInv, Opened
  <1>4. \/ op' = op
        \/ /\ Pending(o) /\ op[o].active = a
           /\ op' = [op EXCEPT ![o].state = "RETRY_WAIT", ![o].active = None]
        \/ TerminateAll({o}, "FAILED")
    BY DEF SettleStopped
  <1>5. Focus(a)
    <2>1. \A x \in Operation \ {o} : op'[x] = op[x]
      BY <1>t, <1>4 DEF TerminateAll
    <2> QED
      BY <1>t, <1>1, <2>1 DEF Focus, ReadsClose
  <1>6. /\ op'[o].result = op[o].result
        /\ op[o].state = "SUCCEEDED" => op'[o].state = "SUCCEEDED"
        /\ \/ op'[o].active = op[o].active /\ op'[o].state \in {op[o].state, "FAILED"}
           \/ op[o].active = a /\ op'[o].state = "RETRY_WAIT"
    <2>1. CASE op' = op
      BY <2>1
    <2>2. CASE /\ Pending(o) /\ op[o].active = a
               /\ op' = [op EXCEPT ![o].state = "RETRY_WAIT", ![o].active = None]
      <3>1. op'[o].result = op[o].result /\ op'[o].state = "RETRY_WAIT"
        BY <1>t, <2>2 DEF OpRow
      <3>2. op[o].state # "SUCCEEDED"
        BY <2>2 DEF Pending
      <3> QED
        BY <2>2, <3>1, <3>2
    <2>3. CASE TerminateAll({o}, "FAILED")
      <3>1. op'[o] = Terminated(op[o], "FAILED")
        BY <2>3, StructureAssumption DEF TerminateAll
      <3> QED
        BY <1>t, <3>1 DEF Terminated, OpRow
    <2> QED
      BY <1>4, <2>1, <2>2, <2>3
  <1>7. raced = {} /\ op[o].active = a => Alone(a)
    BY AloneWhen
  <1>8. ~Live(a)'
    BY <1>2 DEF Live
  <1> QED
    BY <1>1, <1>2, <1>3, <1>5, <1>6, <1>7, <1>8, AttemptStep DEF Fresh

\* The reconciler and the operators preserve the invariant.
LEMMA MaintenanceAttempts == TypeOK /\ AttemptInv /\ MaintenanceStep => Preserved
  <1> SUFFICES ASSUME TypeOK, AttemptInv, MaintenanceStep PROVE Preserved
    OBVIOUS
  <1>t. /\ op \in [Operation -> OpRow] /\ att \in [Attempt -> AttemptRow]
    BY DEF TypeOK
  <1>s. ASSUME NEW a \in Attempt
        PROVE  OpOf[a] \in Operation /\ op[OpOf[a]] \in OpRow /\ att[a] \in AttemptRow
    BY <1>t, StructureAssumption
  <1>1. CASE ReconcileScan
    BY <1>1, <1>t, CalmStep, TerminateAllEnds
    DEF ReconcileScan, AttemptsKept, ReadsClose, history
  <1>2. CASE ReconcileFinish
    <2>1. OperationsMayEnd
      BY <1>2, <1>t, TerminatedEnds DEF ReconcileFinish, OperationsMayEnd
    <2> QED
      BY <1>2, <2>1, CalmStep DEF ReconcileFinish, AttemptsKept, ReadsClose, history
  <1>3. ASSUME NEW a \in Attempt, ReclaimReserved(a) PROVE Preserved
    <2> DEFINE o == OpOf[a]
    <2>1. /\ att' = [att EXCEPT ![a].state = "FAILED_NOT_SENT", ![a].compute = FALSE]
          /\ op' = IF Pending(o) THEN [op EXCEPT ![o].state = "READY", ![o].active = None]
                   ELSE op
          /\ snap' = snap /\ settling' = settling
          /\ scan' = [scan EXCEPT ![a] = "FREE"]
          /\ raced' = {} => raced = {} /\ att[a].state = "RESERVED"
      BY <1>3 DEF ReclaimReserved
    <2>2. att'[a].state = "FAILED_NOT_SENT" /\ att'[a].committed = att[a].committed
      BY <1>t, <1>s, <2>1 DEF AttemptRow
    <2>3. Focus(a)
      BY <1>t, <2>1 DEF Focus, ReadsClose, TypeOK
    <2>4. op'[o].result = op[o].result /\ op'[o].state \in {op[o].state, "READY"}
      BY <1>t, <1>s, <2>1 DEF OpRow
    <2>5. raced' = {} => raced = {} /\ Alone(a) /\ op[o].state # "SUCCEEDED"
      BY <2>1, AloneWhen DEF Live, AttemptInv, SucceededSettled
    <2>6. ~Live(a)'
      BY <2>2 DEF Live
    <2>7. op'[o].state # "ABSENT"
      BY <1>3, <2>4 DEF ReclaimReserved, AttemptInv, Opened
    <2> QED
      BY <2>2, <2>3, <2>4, <2>5, <2>6, <2>7, AttemptStep DEF Fresh
  <1>4. ASSUME NEW a \in Attempt, ReclaimSent(a) PROVE Preserved
    <2> DEFINE o == OpOf[a]
    <2>1. /\ att' = [att EXCEPT ![a].state = "UNKNOWN"]
          /\ op' = IF Pending(o) THEN [op EXCEPT ![o].state = "RECONCILING"] ELSE op
          /\ snap' = snap /\ settling' = settling
          /\ scan' = [scan EXCEPT ![a] = "FREE"]
          /\ raced' = {} => raced = {} /\ att[a].state \in {"SEND_INTENT", "BACKEND_FINISHED"}
      BY <1>4 DEF ReclaimSent
    <2>2. att'[a].state = "UNKNOWN" /\ att'[a].committed = att[a].committed
      BY <1>t, <1>s, <2>1 DEF AttemptRow
    <2>3. Focus(a)
      BY <1>t, <2>1 DEF Focus, ReadsClose, TypeOK
    <2>4. /\ op'[o].result = op[o].result /\ op'[o].active = op[o].active
          /\ op'[o].state \in {op[o].state, "RECONCILING"}
      BY <1>t, <1>s, <2>1 DEF OpRow
    <2>5. raced' = {} => /\ raced = {} /\ Alone(a) /\ op[o].active = a
                         /\ op[o].state \notin OpQueued \cup {"SUCCEEDED"}
      BY <2>1, AloneWhen DEF Live, AttemptInv, OneLiveAttempt, SucceededSettled
    <2>6. op'[o].state # "ABSENT"
      BY <1>4, <2>4 DEF ReclaimSent, AttemptInv, Opened
    <2> QED
      BY <2>2, <2>3, <2>4, <2>5, <2>6, AttemptStep DEF Fresh
  <1>5. ASSUME NEW a \in Attempt, SettleLostResult(a) \/ SettleIdleUnknown(a)
        PROVE  Preserved
    BY <1>5, SettleStoppedAttempts DEF SettleLostResult, SettleIdleUnknown, Lost
  <1>6. ASSUME NEW a \in Attempt, SettleConfirmed(a) PROVE Preserved
    <2>1. \A b \in Attempt : settling'[b] \in {settling[b], "NO"}
      BY <1>6 DEF SettleConfirmed, TypeOK
    <2>2. att[a].state # "FREE"
      BY <1>6 DEF SettleConfirmed, AttemptInv, Opened
    <2> QED
      BY <1>6, <2>1, <2>2, SettleStoppedAttempts DEF SettleConfirmed
  <1>7. ASSUME NEW p \in Pool, NEW mode \in Stops, ConfirmStopped(p, mode) PROVE Preserved
    <2>1. ReadsClose
      <3>1. ASSUME NEW a \in Attempt, att[a].state = "FREE" PROVE settling'[a] = settling[a]
        BY <1>7, <3>1 DEF ConfirmStopped, AttemptInv, Fresh
      <3> QED
        BY <1>7, <3>1 DEF ConfirmStopped, ReadsClose
    <2> QED
      BY <1>7, <2>1, CalmStep DEF ConfirmStopped, AttemptsKept, OperationsMayEnd, history
  <1>8. ASSUME NEW p \in Pool, NEW t \in Token, QuiesceEngine(p, t) \/ ResumeEngine(p, t)
        PROVE  Preserved
    BY <1>8, CalmStep DEF QuiesceEngine, ResumeEngine, AttemptsKept, OperationsMayEnd,
                          ReadsClose, open, history
  <1>9. ASSUME NEW p \in Pool, ConfigurePool(p) PROVE Preserved
    BY <1>9, CalmStep
    DEF ConfigurePool, AttemptsKept, OperationsMayEnd, ReadsClose, open, history
  <1> QED
    BY <1>1, <1>2, <1>3, <1>4, <1>5, <1>6, <1>7, <1>8, <1>9 DEF MaintenanceStep

-----------------------------------------------------------------------------
\* AttemptInv is inductive, and published results stand.
LEMMA NextAttempts == TypeOK /\ AttemptInv /\ [Next]_vars => Preserved
  <1> SUFFICES ASSUME TypeOK, AttemptInv, [Next]_vars PROVE Preserved
    OBVIOUS
  <1>1. CASE Next
    BY <1>1, TimeAttempts, ClientAttempts, OwnerAttempts, MaintenanceAttempts DEF Next
  <1>2. CASE UNCHANGED vars
    BY <1>2, CalmStep DEF AttemptsKept, OperationsMayEnd, ReadsClose, vars, rows, open, history
  <1> QED
    BY <1>1, <1>2

\* AttemptInv holds in every reachable state.
LEMMA AttemptInvariant == Spec => []AttemptInv
  <1>1. Init => AttemptInv
    BY StructureAssumption DEF Init, AttemptInv, Fresh, Opened, SucceededHasResult, OneLiveAttempt,
       SucceededSettled, Live, FreeRow
  <1>2. TypeOK /\ AttemptInv /\ [Next]_vars => AttemptInv'
    BY NextAttempts DEF Preserved
  <1> QED
    BY <1>1, <1>2, TypeCorrect, PTL DEF Spec

(* An operation has one unsettled attempt at most, its active one, however *)
(* many owners, reconcilers and operators settle, reclaim and retry it, as *)
(* long as reconcile_expired reclaims no row that has moved since its scan.*)
THEOREM OneAttemptAtATime == Spec => []OneLiveAttemptUnlessRaced
  <1>1. AttemptInv => OneLiveAttemptUnlessRaced
    BY DEF AttemptInv, OneLiveAttemptUnlessRaced
  <1> QED
    BY <1>1, AttemptInvariant, PTL

(* A SUCCEEDED operation carries a result its own attempt committed, even  *)
(* when a reclaim raced.                                                   *)
THEOREM ResultIsCommitted == Spec => []SucceededHasResult
  <1>1. AttemptInv => SucceededHasResult
    BY DEF AttemptInv
  <1> QED
    BY <1>1, AttemptInvariant, PTL

(* No stale commit, failure, reclaim or late settlement takes a published  *)
(* result back or replaces it.                                             *)
THEOREM ResultStands == Spec => ResultImmutable
  <1>1. TypeOK /\ AttemptInv /\ [Next]_vars => ResultsStand
    BY NextAttempts DEF Preserved
  <1>2. TypeOK /\ AttemptInv /\ [Next]_vars => [ResultsStand]_vars
    BY <1>1
  <1>3. [][ResultsStand]_vars => ResultImmutable
    BY PTL DEF ResultImmutable, ResultsStand
  <1> QED
    BY <1>2, <1>3, TypeCorrect, AttemptInvariant, PTL DEF Spec
=============================================================================
