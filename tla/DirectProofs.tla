---------------------------- MODULE DirectProofs ----------------------------
(***************************************************************************)
(* Theorems about the endpoint owner and the direct proxy: types, the      *)
(* permits of what the engine computes, one inference per request, and no  *)
(* permit without a caller.                                                *)
(***************************************************************************)
EXTENDS DirectProxy, FiniteSetTheorems, TLAPS

-----------------------------------------------------------------------------
(* The inductive invariant.                                                *)

\* The epoch the RAM knows follows the pool's row, which follows the process
\* that serves; a permit carries an epoch the RAM has had.
Epochs ==
  /\ view.epoch <= row.epoch /\ row.epoch <= engine.process
  /\ ~engine.up => engine.process < MaxEpoch
  /\ \A a \in Attempt : rec[a].epoch <= row.epoch
  /\ \A a \in Direct : api.up => rec[a].epoch <= view.epoch

\* The process of the attempt's epoch serves.
Serves(a) == engine.up /\ rec[a].epoch = engine.process

ComputeKnown == \A a \in Accounted : Serves(a)

\* Where the executor of a durable attempt stands, what the ledger says and what the
\* engine sees.
DurableStage(d) ==
  /\ exec[d] = "IDLE" => ledger[d] = "ABSENT"
  /\ exec[d] \notin {"IDLE", "DONE"} => ledger[d] # "ABSENT"
  /\ exec[d] \in {"MARKED", "POSTED"} => ledger[d] # "RESERVED"
  /\ ledger[d] \in {"ABSENT", "RESERVED"} => wire[d] = "NONE"
  /\ ledger[d] = "UNKNOWN" => exec[d] \in {"RELEASE", "DEAD", "DONE"}
  /\ exec[d] \in {"IDLE", "ACQUIRE", "GRANTED", "MARKED"} => wire[d] = "NONE"
  /\ wire[d] = "SENT" => exec[d] = "POSTED"
  /\ calls[d].open > 0 \/ d \in permits => ledger[d] # "ABSENT"
  /\ calls[d].heard => calls[d].open > 0 /\ exec[d] = "ACQUIRE"

\* A durable attempt that reaches the engine of its epoch, or yet may.
MaySend(d) == exec[d] = "MARKED" \/ wire[d] = "SENT"
DurableHeld(d) ==
  /\ (MaySend(d) /\ Serves(d)) \/ d \in Accounted => ledger[d] \in LedgerHeld
  /\ api.up /\ ((wire[d] = "SENT" /\ Serves(d)) \/ d \in Accounted) => d \in permits

\* What the ledger had ended when it was asked has ended.
Reconciling ==
  task.step = "RECONCILING" =>
    /\ task.ids \subseteq Durable
    /\ \A d \in task.ids \ DOMAIN task.live : ledger[d] = "ENDED"

\* Generations.
Generations(r) ==
  /\ \A g \in Generation : g < gen[r] =>
       /\ wire[<<r, g>>] # "SENT" /\ <<r, g>> \notin Accounted /\ <<r, g>> \notin permits
  /\ \A g \in Generation : g > gen[r] => wire[<<r, g>>] = "NONE" /\ <<r, g>> \notin permits
  /\ pc[r] \in {"IDLE", "WAITING", "TAKEN"} => wire[Current(r)] = "NONE"
  /\ wire[Current(r)] = "SENT" => pc[r] = "POSTED"
  /\ pc[r] \notin {"IDLE", "END"} => api.up
  /\ future[r] = "GRANTED" => pc[r] = "WAITING"

\* The record of a direct attempt.
Recorded(a) ==
  /\ rec[a].state = "RESERVED" => wire[a] = "NONE"
  /\ rec[a].state = "UNKNOWN" => wire[a] # "SENT"
  /\ rec[a].state = "FAILED_RECOVERABLE" /\ rec[a].idle => wire[a] \notin {"SENT", "COMPUTING"}
  /\ a \in permits => rec[a].state \in {"RESERVED", "SEND_INTENT", "UNKNOWN"} /\ ~rec[a].idle
  /\ wire[a] = "SENT" => a \in permits \/ rec[a].epoch # engine.process

\* The owner row, and what runtime-api knows of direct compute; another process of it
\* may start.
RowKept ==
  /\ ~api.up => api.boot < MaxBoot
  /\ api.up => owner.exists
  /\ ~api.up /\ ~owner.exists => Accounted \cap Direct \subseteq orphans
  /\ api.up /\ ~api.dirty => (Accounted \cap Direct) \ orphans \subseteq permits

\* A permit belongs to a caller that will settle it, or is UNKNOWN.
Settled(r) ==
  \A g \in Generation : <<r, g>> \in permits =>
    \/ rec[<<r, g>>].state = "UNKNOWN"
    \/ g = gen[r] /\ (pc[r] \in {"TAKEN", "POSTED"} \/ future[r] = "GRANTED")

\* A direct waiter has a caller that waits.
HasCaller(r) == Waiting(r) => pc[r] = "WAITING" /\ future[r] # "GRANTED"

\* The types, by the part of the program that changes them.
Attempts ==
  /\ ledger \in [Durable -> LedgerState]
  /\ wire \in [Attempt -> Wire]
  /\ permits \subseteq Attempt
  /\ rec \in [Attempt -> [state : PermitState, epoch : 0..MaxEpoch, idle : BOOLEAN]]
  /\ exec \in [Durable -> Exec]
  /\ calls \in [Durable -> [open : 0..MaxCalls, heard : BOOLEAN]]

Rows ==
  /\ row \in PoolRow /\ view \in PoolRow
  /\ owner \in [exists : BOOLEAN, live : BOOLEAN]
  /\ engine \in [process : 0..MaxEpoch, up : BOOLEAN]
  /\ stray \subseteq Attempt /\ orphans \subseteq Direct /\ forfeited \subseteq Durable
  /\ api \in [up : BOOLEAN, ready : BOOLEAN, dirty : BOOLEAN, idle : 0..1,
              boot : 0..MaxBoot, outage : 0..MaxOutage]
  /\ expired \subseteq Deadlined

Upkeep ==
  /\ task.step \in Step /\ task.ids \subseteq Attempt /\ DOMAIN task.live \subseteq task.ids
  /\ \A d \in DOMAIN task.live : task.live[d] \in {"RESERVED", "UNKNOWN"}
  /\ streak.epoch \in 0..MaxEpoch /\ streak.ids \subseteq Attempt

Callers ==
  /\ pc \in [Request -> PC] /\ gen \in [Request -> Generation]
  /\ future \in [Request -> Future] /\ bound \in [Request -> 0..MaxEpoch]
  /\ detached \subseteq Leaving

LineOK == line \subseteq Waiter \X Waiter /\ LinearOrder

Queue == LineOK /\ \A r \in Request : HasCaller(r)

\* All but the queue.
Core ==
  /\ Rows /\ Attempts /\ Upkeep /\ Callers
  /\ Epochs /\ ComputeKnown /\ Reconciling /\ RowKept
  /\ \A d \in Durable : DurableStage(d) /\ DurableHeld(d)
  /\ \A r \in Request : Generations(r) /\ Settled(r)
  /\ \A a \in Direct : Recorded(a)

DirectInv == Core /\ Queue

-----------------------------------------------------------------------------
(* Attempts.                                                               *)

LEMMA Parts ==
  /\ Direct \subseteq Attempt /\ Durable \subseteq Attempt
  /\ \A a \in Attempt : a \in Direct \/ a \in Durable
  /\ \A a \in Direct : a \notin Durable
  /\ \A r \in Request : r \in Waiter /\ r \notin Durable
  /\ \A d \in Durable : d \in Waiter /\ d \notin Request /\ d \notin Direct
  /\ \A r \in Request, g \in Generation : <<r, g>> \in Direct
  /\ \A a \in Direct : a[1] \in Request /\ a[2] \in Generation /\ a = <<a[1], a[2]>>
BY EndpointAssumption DEF EndpointAssumption, Direct, Attempt, Waiter

\* What a step of a durable attempt, of its executor or of its calls leaves alone.
DurableMove(d) ==
  /\ UNCHANGED <<elsewhere, proxyVars>>
  /\ \A e \in Durable \ {d} :
       exec'[e] = exec[e] /\ ledger'[e] = ledger[e] /\ calls'[e] = calls[e]
  /\ \A b \in Attempt \ {d} :
       wire'[b] = wire[b] /\ rec'[b] = rec[b] /\ (b \in permits' <=> b \in permits)

DurableStep(d) ==
  \/ ReserveNext(d) \/ DurableServer(d) \/ ExecutorStep(d)
  \/ CallLost(d) \/ ConnectFailed(d) \/ ResponseLost(d)
  \/ ExecutorDies(d) \/ ReclaimExpired(d)

\* A permit is granted under the epoch the RAM knows.
LEMMA DurableMoves ==
  ASSUME DirectInv, NEW d \in Durable, DurableStep(d), UNCHANGED proxyVars
  PROVE  DurableMove(d) /\ Attempts'
<1> USE Parts DEF DurableMove, Attempts
<1>t. /\ Attempts /\ DurableStage(d)
      /\ row \in PoolRow /\ view \in PoolRow /\ MaxCalls \in Nat
  BY EndpointAssumption DEF EndpointAssumption, DirectInv, Core, Rows
<1> HIDE Parts
<1>c. calls[d] \in [open : 0..MaxCalls, heard : BOOLEAN] /\ rec[d].epoch \in 0..MaxEpoch
  BY <1>t, Parts
<1>l. \A c : c \in [open : 0..MaxCalls, heard : BOOLEAN]
        => [c EXCEPT !.heard = FALSE] \in [open : 0..MaxCalls, heard : BOOLEAN]
  OBVIOUS
<1>e. \A h \in BOOLEAN : calls[d].open > 0
        => [open |-> calls[d].open - 1, heard |-> h] \in [open : 0..MaxCalls, heard : BOOLEAN]
  BY <1>t, <1>c
<1>f. FailNotSent(d) => /\ ledger' \in [Durable -> LedgerState]
                        /\ \A e \in Durable \ {d} : ledger'[e] = ledger[e]
  BY <1>t DEF FailNotSent, LedgerState
<1>x. ASSUME NEW to \in Exec, Becomes(d, to)
      PROVE  exec' \in [Durable -> Exec] /\ \A e \in Durable \ {d} : exec'[e] = exec[e]
  BY <1>t, <1>x DEF Becomes
<1> USE <1>t
<1>1. CASE ReserveNext(d)
  <2>1. /\ Becomes(d, "ACQUIRE") /\ InLedger(d, "RESERVED") /\ rec' = [rec EXCEPT ![d].epoch = row.epoch]
        /\ UNCHANGED <<elsewhere, wire, permits, calls, proxyVars>>
    BY <1>1 DEF ReserveNext, Moves
  <2>2. rec' \in [Attempt -> [state : PermitState, epoch : 0..MaxEpoch, idle : BOOLEAN]]
    BY <2>1, Parts DEF PoolRow
  <2>3. \A b \in Attempt \ {d} : rec'[b] = rec[b]
    BY <2>1
  <2>4. /\ ledger' \in [Durable -> LedgerState]
        /\ \A e \in Durable \ {d} : ledger'[e] = ledger[e]
    BY <2>1 DEF InLedger, LedgerState
  <2> QED
    BY <2>1, <2>2, <2>3, <2>4, <1>x, Parts DEF elsewhere, Exec
<1>2. CASE GrantDurable(d)
  BY <1>2, Parts DEF GrantDurable, Grant, Granted, Replaced, elsewhere, PoolRow, PermitState
<1>3. CASE Answer(d)
  BY <1>3, Parts DEF Answer, EndCall, Becomes, elsewhere, Exec, DurableStage
<1>4. CASE StaleCallEnds(d)
  BY <1>4, Parts DEF StaleCallEnds, EndCall, elsewhere, DurableStage
<1>5. CASE Acquire(d)
  BY <1>5, Parts DEF Acquire, elsewhere
<1>6. CASE AcquireRefused(d)
  <2>1. Becomes(d, "DONE") /\ FailNotSent(d) /\ UNCHANGED <<elsewhere, wire, permits, rec, proxyVars>>
    BY <1>6 DEF AcquireRefused, Moves
  <2>2. /\ calls' \in [Durable -> [open : 0..MaxCalls, heard : BOOLEAN]]
        /\ \A e \in Durable \ {d} : calls'[e] = calls[e]
    BY <1>6, <1>c, <1>e DEF AcquireRefused, EndCall, DurableStage
  <2> QED
    BY <2>1, <2>2, <1>f, <1>x, Parts DEF Exec, elsewhere
<1>7. CASE AcquireExpires(d)
  BY <1>7, <1>c, <1>l, Parts DEF AcquireExpires, Moves, Becomes, FailNotSent, elsewhere, Exec, LedgerState,
                     LedgerHeld
<1>8. CASE MarkSend(d)
  BY <1>8, Parts DEF MarkSend, Moves, Becomes, InLedger, elsewhere, Exec, LedgerState, LedgerHeld
<1>9. CASE MarkRefused(d) \/ PermitFenced(d)
  <2>1. Becomes(d, "RELEASE") /\ FailNotSent(d)
        /\ UNCHANGED <<elsewhere, wire, permits, rec, calls, proxyVars>>
    BY <1>9 DEF MarkRefused, PermitFenced, Moves
  <2> QED
    BY <2>1, <1>f, <1>x, Parts DEF Exec, elsewhere
<1>10. CASE Post(d)
  BY <1>10, Parts DEF Post, Moves, Becomes, elsewhere, Exec, Wire
<1>16. CASE ConnectFailed(d)
  <2>1. /\ Becomes(d, "RELEASE") /\ FailNotSent(d) /\ wire' = [wire EXCEPT ![d] = "CLOSED"]
        /\ UNCHANGED <<elsewhere, permits, rec, calls, proxyVars>>
    BY <1>16 DEF ConnectFailed, Moves
  <2> QED
    BY <2>1, <1>f, <1>x, Parts DEF Exec, elsewhere, Wire
<1>17. CASE ComputeFinished(d)
  BY <1>17, Parts DEF ComputeFinished, Moves, Becomes, InLedger, elsewhere, Exec, LedgerState, Wire
<1>11. CASE ReleasePermit(d)
  BY <1>11, Parts DEF ReleasePermit, Moves, Becomes, Release, Kept, elsewhere, Exec, PermitState
<1>12. CASE CallLost(d)
  BY <1>12, <1>c, <1>l, Parts DEF CallLost, elsewhere
<1>13. CASE ResponseLost(d)
  BY <1>13, Parts DEF ResponseLost, Moves, Becomes, HangUp, elsewhere, Exec, LedgerState,
                      LedgerHeld, Wire
<1>14. CASE ExecutorDies(d)
  BY <1>14, <1>c, <1>l, Parts DEF ExecutorDies, Becomes, HangUp, elsewhere, Exec, Wire
<1>15. CASE ReclaimExpired(d)
  BY <1>15, Parts DEF ReclaimExpired, InLedger, elsewhere, LedgerState, LedgerHeld
<1> QED
  BY <1>1, <1>2, <1>3, <1>4, <1>5, <1>6, <1>7, <1>8, <1>9, <1>10, <1>11, <1>12, <1>13, <1>14,
     <1>15, <1>16, <1>17 DEF DurableStep, DurableServer, ExecutorStep

\* What a durable attempt's step does to the attempt itself.
LEMMA DurableLocal ==
  ASSUME DirectInv, NEW d \in Durable, DurableStep(d), UNCHANGED proxyVars
  PROVE  /\ DurableStage(d)' /\ DurableHeld(d)'
         /\ rec'[d].epoch <= row.epoch
         /\ wire'[d] = "COMPUTING" => wire[d] = "COMPUTING" /\ rec'[d].epoch = rec[d].epoch
         /\ ledger[d] = "ENDED" => ledger'[d] = "ENDED"
<1>t. /\ Attempts /\ DurableStage(d) /\ DurableHeld(d) /\ Epochs /\ d \in Attempt
      /\ row \in PoolRow /\ view \in PoolRow /\ rec[d].epoch <= row.epoch
  BY Parts DEF DirectInv, Core, Rows, Attempts, Epochs
<1>c. /\ calls[d] \in [open : 0..MaxCalls, heard : BOOLEAN]
      /\ rec[d] \in [state : PermitState, epoch : 0..MaxEpoch, idle : BOOLEAN]
      /\ MaxEpoch \in Nat /\ MaxCalls \in Nat
  BY <1>t, EndpointAssumption DEF EndpointAssumption, Attempts
<1>m. DurableMove(d) /\ Attempts'
  BY DurableMoves
<1>a. (d \in Accounted <=> wire[d] = "COMPUTING" /\ d \notin stray)
      /\ (d \in Accounted' <=> wire'[d] = "COMPUTING" /\ d \notin stray)
      /\ (Serves(d)' <=> engine.up /\ rec'[d].epoch = engine.process) /\ api' = api
  BY <1>t, <1>m DEF Accounted, Computing, DurableMove, elsewhere, Serves
<1>f. FailNotSent(d) =>
        /\ ledger[d] \in {"RESERVED", "SEND_INTENT"} => ledger'[d] = "ENDED"
        /\ ledger[d] \notin {"RESERVED", "SEND_INTENT"} => ledger'[d] = ledger[d]
  BY <1>t DEF FailNotSent, Attempts
<1>x. ASSUME NEW to, Becomes(d, to)
      PROVE  exec'[d] = to
  BY <1>t, <1>x DEF Becomes, Attempts
<1> USE <1>t, <1>c, <1>a DEF DurableStage, DurableHeld, MaySend, Serves, LedgerHeld
<1>1. CASE ReserveNext(d)
  <2>1. exec[d] = "IDLE" /\ exec'[d] = "ACQUIRE" /\ ledger'[d] = "RESERVED"
        /\ rec'[d].epoch = row.epoch /\ UNCHANGED <<wire, permits, calls>>
    BY <1>1, <1>x DEF ReserveNext, Moves, InLedger, Attempts
  <2> QED
    BY <2>1 DEF PoolRow
<1>2. CASE GrantDurable(d)
  <2>1. rec'[d].epoch = rec[d].epoch /\ calls[d].open > 0 /\ d \in permits'
        /\ UNCHANGED <<wire, exec, ledger, calls>>
    BY <1>2, Parts DEF GrantDurable, Grant, Granted, Replaced
  <2> QED
    BY <2>1
<1>3. CASE Answer(d)
  <2>1. exec'[d] = "GRANTED" /\ calls'[d] = [open |-> calls[d].open - 1, heard |-> FALSE]
        /\ d \in permits /\ calls[d].heard
        /\ UNCHANGED <<ledger, wire, permits, rec>>
    BY <1>3, <1>x DEF Answer, EndCall, Attempts
  <2> QED
    BY <2>1
<1>4. CASE StaleCallEnds(d)
  <2>1. calls'[d] = [open |-> calls[d].open - 1, heard |-> calls[d].heard]
        /\ calls[d].open > (IF calls[d].heard THEN 1 ELSE 0)
        /\ UNCHANGED <<ledger, wire, permits, rec, exec>>
    BY <1>4 DEF StaleCallEnds, EndCall, Attempts
  <2> QED
    BY <2>1
<1>5. CASE Acquire(d)
  <2>1. calls'[d] = [open |-> calls[d].open + 1, heard |-> TRUE] /\ ledger[d] = "RESERVED"
        /\ exec[d] = "ACQUIRE"
        /\ UNCHANGED <<ledger, wire, permits, rec, exec>>
    BY <1>5 DEF Acquire, Dispatchable, Attempts
  <2> QED
    BY <2>1
<1>6. CASE AcquireRefused(d) \/ AcquireExpires(d)
  <2>1. exec[d] = "ACQUIRE" /\ exec'[d] = "DONE" /\ UNCHANGED <<wire, permits, rec>>
        /\ FailNotSent(d)
    BY <1>6, <1>x DEF AcquireRefused, AcquireExpires, Moves
  <2>2. ~calls'[d].heard
    BY <1>6 DEF AcquireRefused, AcquireExpires, EndCall, Attempts
  <2> QED
    BY <2>1, <2>2, <1>f
<1>8. CASE MarkSend(d)
  <2>1. exec[d] = "GRANTED" /\ exec'[d] = "MARKED" /\ ledger'[d] = "SEND_INTENT"
        /\ UNCHANGED <<wire, permits, rec, calls>>  /\ ledger[d] = "RESERVED"
    BY <1>8, <1>x DEF MarkSend, Moves, InLedger, Attempts
  <2> QED
    BY <2>1
<1>9. CASE MarkRefused(d) \/ PermitFenced(d)
  <2>1. exec[d] \in {"GRANTED", "MARKED"} /\ exec'[d] = "RELEASE" /\ FailNotSent(d)
        /\ UNCHANGED <<wire, permits, rec, calls>>
    BY <1>9, <1>x DEF MarkRefused, PermitFenced, Moves
  <2> QED
    BY <2>1, <1>f
<1>10. CASE Post(d)
  <2>1. exec[d] = "MARKED" /\ exec'[d] = "POSTED" /\ wire'[d] = "SENT" /\ d \in permits
        /\ UNCHANGED <<ledger, permits, rec, calls>>
    BY <1>10, <1>x DEF Post, Moves, Attempts
  <2> QED
    BY <2>1
<1>11. CASE ReleasePermit(d)
  <2>1. exec[d] = "RELEASE" /\ exec'[d] = "DONE" /\ UNCHANGED <<ledger, wire, calls>>
    BY <1>11, <1>x DEF ReleasePermit, Moves
  <2>2. rec'[d].epoch = rec[d].epoch
    BY <1>11 DEF ReleasePermit, Kept
  <2>3. \/ d \in permits' <=> d \in permits
        \/ d \notin permits' /\ ledger[d] \notin LedgerHeld
    BY <1>11 DEF ReleasePermit, Release
  <2> QED
    BY <2>1, <2>2, <2>3
<1>12. CASE CallLost(d)
  <2>1. calls'[d].open = calls[d].open /\ ~calls'[d].heard
        /\ UNCHANGED <<ledger, wire, permits, rec, exec>>
    BY <1>12 DEF CallLost, Attempts
  <2> QED
    BY <2>1
<1>13. CASE ResponseLost(d)
  <2>1. exec[d] = "POSTED" /\ exec'[d] = "RELEASE"
        /\ wire'[d] = (IF wire[d] \in {"SENT", "ANSWERED"} THEN "CLOSED" ELSE wire[d])
        /\ ledger'[d] = (IF ledger[d] = "SEND_INTENT" THEN "UNKNOWN" ELSE ledger[d])
        /\ UNCHANGED <<permits, rec, calls>>
    BY <1>13, <1>x DEF ResponseLost, Moves, HangUp, Attempts
  <2> QED
    BY <2>1
<1>14. CASE ExecutorDies(d)
  <2>1. exec[d] # "IDLE" /\ exec[d] # "DONE" /\ exec'[d] = "DEAD"
        /\ wire'[d] = (IF wire[d] \in {"SENT", "ANSWERED"} THEN "CLOSED" ELSE wire[d])
        /\ calls'[d].open = calls[d].open /\ ~calls'[d].heard
        /\ UNCHANGED <<permits, rec, ledger>>
    BY <1>14, <1>x DEF ExecutorDies, HangUp, Attempts
  <2> QED
    BY <2>1
<1>15. CASE ReclaimExpired(d)
  <2>1. exec[d] = "DEAD" /\ ledger[d] \in {"RESERVED", "SEND_INTENT"}
        /\ ledger'[d] = (IF ledger[d] = "RESERVED" THEN "ENDED" ELSE "UNKNOWN")
        /\ UNCHANGED <<permits, rec, calls, exec, wire>>
    BY <1>15 DEF ReclaimExpired, InLedger, Attempts
  <2> QED
    BY <2>1
<1>16. CASE ConnectFailed(d)
  <2>1. exec[d] = "POSTED" /\ exec'[d] = "RELEASE" /\ wire'[d] = "CLOSED" /\ FailNotSent(d)
        /\ UNCHANGED <<permits, rec, calls>>
    BY <1>16, <1>x DEF ConnectFailed, Moves, Attempts
  <2> QED
    BY <2>1, <1>f
<1>17. CASE ComputeFinished(d)
  <2>1. exec[d] = "POSTED" /\ exec'[d] = "RELEASE" /\ wire'[d] = "CLOSED"
        /\ ledger'[d] = "ENDED" /\ UNCHANGED <<permits, rec, calls>>
    BY <1>17, <1>x DEF ComputeFinished, Moves, InLedger, Attempts
  <2> QED
    BY <2>1
<1> QED
  BY <1>1, <1>2, <1>3, <1>4, <1>5, <1>6, <1>8, <1>9, <1>10, <1>11, <1>12, <1>13, <1>14, <1>15,
     <1>16, <1>17 DEF DurableStep, DurableServer, ExecutorStep

-----------------------------------------------------------------------------
(* What a step leaves alone.                                               *)

\* A step that touches neither a durable attempt nor the engine.
LEMMA DurableKept ==
  ASSUME NEW d \in Durable, Core,
         exec'[d] = exec[d], ledger'[d] = ledger[d], calls'[d] = calls[d],
         wire'[d] = wire[d], rec'[d].epoch = rec[d].epoch, d \in permits' <=> d \in permits,
         engine' = engine, stray' = stray, api'.up => api.up
  PROVE  DurableStage(d)' /\ DurableHeld(d)'
<1>1. DurableStage(d) /\ DurableHeld(d) /\ d \in Attempt
  BY Parts DEF Core
<1>2. (d \in Accounted)' <=> d \in Accounted
  BY <1>1 DEF Accounted, Computing
<1> QED
  BY <1>1, <1>2 DEF DurableStage, DurableHeld, MaySend, Serves

\* A step that touches neither the direct attempts of a request nor its caller.
LEMMA RequestKept ==
  ASSUME NEW r \in Request, Core,
         \A g \in Generation :
           /\ wire'[<<r, g>>] = wire[<<r, g>>] /\ rec'[<<r, g>>] = rec[<<r, g>>]
           /\ <<r, g>> \in permits' <=> <<r, g>> \in permits,
         gen'[r] = gen[r], pc'[r] = pc[r], future'[r] = future[r],
         stray' = stray, engine' = engine, api.up => api'.up
  PROVE  Generations(r)' /\ Settled(r)' /\ \A g \in Generation : Recorded(<<r, g>>)'
<1>1. /\ Generations(r) /\ Settled(r) /\ \A g \in Generation : Recorded(<<r, g>>)
      /\ gen[r] \in Generation /\ \A g \in Generation : <<r, g>> \in Attempt
  BY Parts DEF Core, Callers
<1>2. \A g \in Generation : (<<r, g>> \in Accounted)' <=> <<r, g>> \in Accounted
  BY <1>1 DEF Accounted, Computing
<1>3. Generations(r)'
  BY <1>1, <1>2 DEF Generations, Current
<1>4. Settled(r)'
  BY <1>1 DEF Settled
<1>5. ASSUME NEW g \in Generation
      PROVE  Recorded(<<r, g>>)'
  BY <1>1, <1>5 DEF Recorded
<1> QED
  BY <1>3, <1>4, <1>5

\* A step after which no more direct attempts are computed and no fewer have permits.
LEMMA RowStays ==
  ASSUME Core, owner'.exists = owner.exists, api' = api, orphans' = orphans,
         \A a \in Direct : (a \in Accounted)' => a \in Accounted /\ (a \in permits => a \in permits')
  PROVE  RowKept'
<1>1. RowKept
  BY DEF Core
<1>2. (Accounted \cap Direct)' \subseteq Accounted \cap Direct
  OBVIOUS
<1> QED
  BY <1>1, <1>2 DEF RowKept

\* A step under which epochs, process and records stay, and nothing new is computed.
LEMMA ComputeStays ==
  ASSUME Core, row' = row, view' = view, engine' = engine, api' = api,
         \A a \in Attempt :
           /\ \/ rec'[a].epoch = rec[a].epoch
              \/ /\ rec'[a].epoch <= row.epoch
                 /\ a \in Direct => rec'[a].epoch <= view.epoch \/ ~api.up
                 /\ (a \notin Accounted)'
           /\ (a \in Accounted)' => a \in Accounted
  PROVE  Epochs' /\ ComputeKnown'
<1>1. Epochs /\ ComputeKnown
  BY DEF Core
<1>2. \A a \in Accounted' : a \in Attempt
  BY DEF Accounted, Computing, Attempt
<1>3. Epochs'
  BY <1>1, Parts DEF Epochs
<1>4. ComputeKnown'
  BY <1>1, <1>2 DEF ComputeKnown, Serves
<1> QED
  BY <1>3, <1>4

LEMMA DurableKeeps ==
  ASSUME DirectInv, NEW d \in Durable, DurableStep(d), UNCHANGED proxyVars
  PROVE  Core'
<1>1. Core /\ DurableMove(d) /\ Attempts'
  BY DurableMoves DEF DirectInv
<1>2. /\ DurableStage(d)' /\ DurableHeld(d)' /\ rec'[d].epoch <= row.epoch
      /\ wire'[d] = "COMPUTING" => wire[d] = "COMPUTING" /\ rec'[d].epoch = rec[d].epoch
      /\ ledger[d] = "ENDED" => ledger'[d] = "ENDED"
  BY DurableLocal
<1>3. /\ UNCHANGED <<row, owner, engine, stray, orphans, forfeited, api, view, task, streak, expired>>
      /\ UNCHANGED <<pc, gen, future, bound, detached>>
  BY <1>1 DEF DurableMove, elsewhere, proxyVars
<1>4. Rows' /\ Upkeep' /\ Callers'
  BY <1>1, <1>3 DEF Core, Rows, Upkeep, Callers
<1>5. \A b \in Attempt \ {d} :
        wire'[b] = wire[b] /\ rec'[b] = rec[b] /\ (b \in permits' <=> b \in permits)
  BY <1>1 DEF DurableMove
<1>6. \A a \in Attempt : (a \in Accounted)' => a \in Accounted
  BY <1>2, <1>3, <1>5 DEF Accounted, Computing
<1>7. (d \in Accounted)' => rec'[d].epoch = rec[d].epoch
  BY <1>2 DEF Accounted, Computing
<1>8. Epochs' /\ ComputeKnown'
  <2>1. ASSUME NEW a \in Attempt
        PROVE  \/ rec'[a].epoch = rec[a].epoch
               \/ /\ rec'[a].epoch <= row.epoch
                  /\ (a \in Direct => rec'[a].epoch <= view.epoch \/ ~api.up)
                  /\ (a \notin Accounted)'
    BY <1>2, <1>5, <1>7, <2>1, Parts
  <2> QED
    BY <1>1, <1>3, <1>6, <2>1, ComputeStays
<1>9. Reconciling'
  <2>1. \A e \in Durable : ledger[e] = "ENDED" => ledger'[e] = "ENDED"
    BY <1>1, <1>2 DEF DurableMove
  <2> QED
    BY <1>1, <1>3, <2>1 DEF Core, Reconciling
<1>10. RowKept'
  BY <1>1, <1>3, <1>5, <1>6, Parts, RowStays
<1>11. ASSUME NEW e \in Durable
       PROVE  DurableStage(e)' /\ DurableHeld(e)'
  <2>1. CASE e = d
    BY <1>2, <2>1
  <2>2. CASE e # d
    BY <1>1, <1>3, <1>5, <2>2, Parts, DurableKept DEF DurableMove
  <2> QED
    BY <2>1, <2>2
<1>12. ASSUME NEW r \in Request
       PROVE  Generations(r)' /\ Settled(r)' /\ \A g \in Generation : Recorded(<<r, g>>)'
  <2>1. \A g \in Generation : <<r, g>> \in Attempt \ {d}
    BY Parts
  <2> QED
    BY <1>1, <1>3, <1>5, <2>1, RequestKept
<1>13. ASSUME NEW a \in Direct
       PROVE  Recorded(a)'
  BY <1>12, Parts
<1> QED
  BY <1>1, <1>4, <1>8, <1>9, <1>10, <1>11, <1>12, <1>13 DEF Core

-----------------------------------------------------------------------------
(* Steps of a direct request.                                              *)

DirectStep(r) ==
  \/ OpenWaiting(r) \/ OpenTry(r) \/ Dispatch(r) \/ Producer(r)
  \/ NotSent(r) \/ Lost(r) \/ Detach(r)

\* What a step of a request, its dispatch and its producer leaves alone.
DirectMove(r) ==
  /\ UNCHANGED <<row, owner, ledger, engine, stray, orphans, forfeited, api, view, task, streak>>
  /\ UNCHANGED clients
  /\ \A q \in Request \ {r} : pc'[q] = pc[q] /\ gen'[q] = gen[q] /\ future'[q] = future[q]
  /\ \A b \in Attempt : (\A g \in Generation : b # <<r, g>>) =>
       wire'[b] = wire[b] /\ rec'[b] = rec[b] /\ (b \in permits' <=> b \in permits)

Record == [state : PermitState, epoch : 0..MaxEpoch, idle : BOOLEAN]

LEMMA GrantMoves ==
  ASSUME Core, NEW r \in Request, Grant(Current(r))
  PROVE  /\ permits' = permits \cup {Current(r)} /\ permits' \subseteq Attempt
         /\ rec' \in [Attempt -> Record]
         /\ rec'[Current(r)] = [state |-> "RESERVED", epoch |-> view.epoch, idle |-> FALSE]
         /\ \A g \in Generation \ {gen[r]} : rec'[<<r, g>>] = NoPermit
         /\ \A b \in Attempt : (\A g \in Generation : b # <<r, g>>) => rec'[b] = rec[b]
<1>1. /\ Current(r) \in Direct /\ gen[r] \in Generation /\ permits \subseteq Attempt
      /\ rec \in [Attempt -> Record] /\ view \in PoolRow /\ MaxEpoch \in Nat
  BY Parts, EndpointAssumption
     DEF EndpointAssumption, Core, Callers, Current, Attempts, Rows, Record
<1>2. Granted \in Record /\ NoPermit \in Record
  BY <1>1 DEF Granted, NoPermit, Record, PermitState, PoolRow
<1>3. \A b \in Attempt : rec'[b] = (IF b = Current(r) THEN Granted
        ELSE IF b \in Direct /\ b[1] = r THEN NoPermit ELSE rec[b])
  BY <1>1 DEF Grant, Replaced, Current
<1>4. rec' \in [Attempt -> Record]
  BY <1>1, <1>2 DEF Grant
<1>5. permits' = permits \cup {Current(r)} /\ permits' \subseteq Attempt
  BY <1>1, Parts DEF Grant
<1>6. \A g \in Generation \ {gen[r]} : rec'[<<r, g>>] = NoPermit
  BY <1>3, Parts DEF Current
<1>7. \A b \in Attempt : (\A g \in Generation : b # <<r, g>>) => rec'[b] = rec[b]
  <2> SUFFICES ASSUME NEW b \in Attempt, \A g \in Generation : b # <<r, g>>
               PROVE  rec'[b] = rec[b]
    OBVIOUS
  <2>1. b # Current(r) /\ ~(b \in Direct /\ b[1] = r)
    BY <1>1, Parts DEF Current
  <2> QED
    BY <1>3, <2>1
<1>8. rec'[Current(r)] = [state |-> "RESERVED", epoch |-> view.epoch, idle |-> FALSE]
  BY <1>1, <1>3, Parts DEF Granted
<1> QED
  BY <1>4, <1>5, <1>6, <1>7, <1>8

LEMMA FinishMoves ==
  ASSUME Core, NEW r \in Request, NEW state \in PermitState, Finish(Current(r), state)
  PROVE  /\ permits' = permits \ {Current(r)} /\ permits' \subseteq Attempt
         /\ rec' \in [Attempt -> Record]
         /\ rec'[Current(r)] = (IF Current(r) \in permits THEN Final(state) ELSE rec[Current(r)])
         /\ \A b \in Attempt \ {Current(r)} : rec'[b] = rec[b]
<1>1. /\ Current(r) \in Attempt /\ permits \subseteq Attempt /\ rec \in [Attempt -> Record]
      /\ MaxEpoch \in Nat
  BY Parts, EndpointAssumption
     DEF EndpointAssumption, Core, Callers, Current, Attempts, Rows, Record
<1>2. Final(state) \in Record
  BY <1>1 DEF Final, Record
<1> QED
  BY <1>1, <1>2 DEF Finish, Release

\* A request waits for another generation, or ends.
LEMMA RetryMoves ==
  ASSUME Core, NEW r \in Request, RetryOr(r)
  PROVE  /\ pc' \in [Request -> PC] /\ gen' \in [Request -> Generation]
         /\ future' \in [Request -> Future]
         /\ \A q \in Request \ {r} : pc'[q] = pc[q] /\ gen'[q] = gen[q] /\ future'[q] = future[q]
         /\ \/ /\ pc'[r] = "WAITING" /\ future'[r] = "PENDING"
               /\ gen[r] < 2 /\ gen'[r] = gen[r] + 1 /\ Enqueue(r)
            \/ pc'[r] = "END" /\ gen'[r] = gen[r] /\ future'[r] = future[r] /\ line' = line
<1>1. Callers
  BY DEF Core
<1> QED
  BY <1>1 DEF RetryOr, Goes, Promises, Callers, PC, Future, Generation

LEMMA DirectMoves ==
  ASSUME Core, NEW r \in Request, DirectStep(r)
  PROVE  DirectMove(r) /\ Attempts' /\ Callers'
<1>t. /\ Attempts /\ Callers /\ Rows /\ Current(r) \in Attempt
      /\ \E g \in Generation : Current(r) = <<r, g>>
      /\ rec \in [Attempt -> Record] /\ MaxEpoch \in Nat
  BY Parts, EndpointAssumption
     DEF EndpointAssumption, Core, Callers, Current, Attempts, Rows, Record
<1>p. view.epoch \in 0..MaxEpoch
  BY <1>t DEF Rows, PoolRow
<1>b. bound' = [bound EXCEPT ![r] = 0] => bound' \in [Request -> 0..MaxEpoch]
  <2>1. 0 \in 0..MaxEpoch
    BY <1>t
  <2> QED
    BY <1>t, <2>1 DEF Callers
<1>g. ASSUME NEW to \in PC, Goes(r, to)
      PROVE  pc' \in [Request -> PC] /\ \A q \in Request \ {r} : pc'[q] = pc[q]
  BY <1>g, <1>t DEF Goes, Callers
<1>f. ASSUME NEW f \in Future, Promises(r, f)
      PROVE  future' \in [Request -> Future] /\ \A q \in Request \ {r} : future'[q] = future[q]
  BY <1>f, <1>t DEF Promises, Callers
<1>h. Finish(Current(r), "NONE") \/ Finish(Current(r), "FAILED_NOT_SENT")
      => /\ permits' \subseteq Attempt /\ rec' \in [Attempt -> Record]
         /\ \A b \in Attempt : (\A g \in Generation : b # <<r, g>>) =>
              rec'[b] = rec[b] /\ (b \in permits' <=> b \in permits)
  BY <1>t, FinishMoves DEF PermitState, PermitEnd
<1>i. Grant(Current(r))
      => /\ permits' \subseteq Attempt /\ rec' \in [Attempt -> Record]
         /\ \A b \in Attempt : (\A g \in Generation : b # <<r, g>>) =>
              rec'[b] = rec[b] /\ (b \in permits' <=> b \in permits)
  BY <1>t, GrantMoves
<1> USE <1>t DEF DirectMove, Attempts, Callers, exceptWire, others
<1>1. CASE OpenWaiting(r)
  BY <1>1, <1>g, <1>f, <1>p DEF OpenWaiting, PC, Future, clients
<1>2. CASE OpenTry(r)
  BY <1>2, <1>g, <1>f, <1>i DEF OpenTry, PC, Future, Record, clients
<1>3. CASE Dispatch(r)
  BY <1>3, <1>f, <1>i DEF Dispatch, Future, Record, clients
<1>4. CASE TakeGrant(r)
  BY <1>4, <1>g, <1>f, <1>b DEF TakeGrant, PC, Future, clients
<1>5. CASE Withdraw(r)
  <2>1. Finish(Current(r), "NONE") \/ UNCHANGED <<permits, rec>>
    BY <1>5 DEF Withdraw, Discard
  <2>2. /\ permits' \subseteq Attempt /\ rec' \in [Attempt -> Record]
        /\ \A b \in Attempt : (\A g \in Generation : b # <<r, g>>) =>
             rec'[b] = rec[b] /\ (b \in permits' <=> b \in permits)
    BY <2>1, <1>h
  <2>3. /\ Goes(r, "END") /\ Promises(r, "NONE") /\ bound' = [bound EXCEPT ![r] = 0]
        /\ UNCHANGED <<others, gen, detached>>
    BY <1>5 DEF Withdraw
  <2> QED
    BY <2>2, <2>3, <1>g, <1>f, <1>b DEF PC, Future, Record, clients
<1>6. CASE DropGrant(r)
  BY <1>6, <1>g, <1>h DEF DropGrant, Discard, PC, Record, clients
<1>7. CASE Send(r)
  <2>1. rec' \in [Attempt -> Record] /\ wire' \in [Attempt -> Wire]
    BY <1>7 DEF Send, Record, PermitState, Wire
  <2> QED
    BY <1>7, <1>g, <2>1 DEF Send, PC, Record, clients
<1>8. CASE SendRefused(r) \/ Recovered(r)
  BY <1>8, RetryMoves DEF SendRefused, Recovered, clients
<1>9. CASE NotSent(r)
  BY <1>9, <1>h, RetryMoves DEF NotSent, Record, Wire, clients
<1>10. CASE Completed(r)
  BY <1>10, <1>g, <1>h DEF Completed, Discard, PC, Record, Wire, clients
<1>11. CASE Lost(r)
  <2>1. rec' \in [Attempt -> Record] /\ wire' \in [Attempt -> Wire]
    BY <1>11 DEF Lost, Uncertain, HangUp, Record, PermitState, Wire
  <2>2. \A b \in Attempt \ {Current(r)} : rec'[b] = rec[b] /\ wire'[b] = wire[b]
    BY <1>11 DEF Lost, Uncertain, HangUp
  <2> QED
    BY <1>11, <1>g, <2>1, <2>2 DEF Lost, PC, Record, clients
<1>12. CASE RecoveryEnds(r)
  BY <1>12, <1>g DEF RecoveryEnds, PC, clients
<1>13. CASE Detach(r)
  BY <1>13 DEF Detach, schedulerVars, world, ram, clients
<1> QED
  BY <1>1, <1>2, <1>3, <1>4, <1>5, <1>6, <1>7, <1>8, <1>9, <1>10, <1>11, <1>12, <1>13
     DEF DirectStep, Producer

\* What the invariants say of the attempts of one request.
RequestInv(r) ==
  Generations(r) /\ Settled(r) /\ \A g \in Generation : Recorded(<<r, g>>)

\* Nothing new of the attempt is computed; what is computed keeps permit and epoch.
StillKnown(a) ==
  /\ \/ rec'[a].epoch = rec[a].epoch
     \/ rec'[a].epoch \in {0, view.epoch} /\ (a \notin Accounted)'
  /\ (a \in Accounted)' => a \in Accounted /\ (a \in permits => a \in permits')

\* A generation other than the current one is as it was, or its record is dropped.
OtherKept(r, g) ==
  /\ wire'[<<r, g>>] = wire[<<r, g>>] /\ (<<r, g>> \in permits' <=> <<r, g>> \in permits)
  /\ rec'[<<r, g>>] = rec[<<r, g>>] \/ rec'[<<r, g>>] = NoPermit

\* Nothing of a generation that is over, or not yet there, is left to say.
LEMMA OthersKept ==
  ASSUME Core, NEW r \in Request, NEW g \in Generation, g # gen[r], OtherKept(r, g),
         stray' = stray, engine' = engine
  PROVE  Recorded(<<r, g>>)' /\ StillKnown(<<r, g>>)
<1>1. /\ Generations(r) /\ Recorded(<<r, g>>) /\ gen[r] \in Generation /\ <<r, g>> \in Attempt
      /\ wire \in [Attempt -> Wire]
  BY Parts DEF Core, Callers, Attempts
<1>2. /\ <<r, g>> \notin permits /\ wire[<<r, g>>] # "SENT"
      /\ <<r, g>> \notin Accounted \/ wire[<<r, g>>] = "NONE"
  BY <1>1 DEF Generations, Generation
<1>3. (<<r, g>> \in Accounted)' <=> <<r, g>> \in Accounted
  BY <1>1 DEF Accounted, Computing, OtherKept
<1>4. <<r, g>> \notin Accounted
  BY <1>2 DEF Accounted, Computing
<1> QED
  BY <1>1, <1>2, <1>3, <1>4 DEF Recorded, OtherKept, NoPermit, StillKnown

LEMMA SameGeneration ==
  ASSUME Core, NEW r \in Request, NEW c, c = Current(r), gen'[r] = gen[r], stray' = stray, engine' = engine,
         api' = api, \A g \in Generation \ {gen[r]} : OtherKept(r, g),
         pc'[r] \in {"IDLE", "WAITING", "TAKEN"} => wire'[c] = "NONE",
         wire'[c] = "SENT" => pc'[r] = "POSTED",
         pc'[r] \notin {"IDLE", "END"} => api.up,
         future'[r] = "GRANTED" => pc'[r] = "WAITING",
         c \in permits' => \/ rec'[c].state = "UNKNOWN"
                                    \/ pc'[r] \in {"TAKEN", "POSTED"}
                                    \/ future'[r] = "GRANTED",
         Recorded(c)', StillKnown(c)
  PROVE  RequestInv(r)' /\ \A g \in Generation : StillKnown(<<r, g>>)
<1>1. /\ Generations(r) /\ gen[r] \in Generation /\ wire \in [Attempt -> Wire]
      /\ \A g \in Generation : <<r, g>> \in Attempt
  BY Parts DEF Core, Callers, Attempts
<1>2. \A g \in Generation \ {gen[r]} : Recorded(<<r, g>>)' /\ StillKnown(<<r, g>>)
  BY OthersKept
<1>3. \A g \in Generation \ {gen[r]} : (<<r, g>> \in Accounted)' <=> <<r, g>> \in Accounted
  BY <1>1 DEF Accounted, Computing, OtherKept
<1>4. \A g \in Generation \ {gen[r]} : <<r, g>> \notin permits'
  BY <1>1 DEF Generations, OtherKept, Generation
<1>5. Generations(r)'
  BY <1>1, <1>3 DEF Generations, Current, OtherKept, Generation
<1>6. Settled(r)'
  <2>1. \A g \in Generation : <<r, g>> \in permits' => g = gen'[r] /\ <<r, g>> = c
    BY <1>4 DEF Current
  <2> QED
    BY <2>1 DEF Settled
<1>7. ASSUME NEW g \in Generation
      PROVE  Recorded(<<r, g>>)' /\ StillKnown(<<r, g>>)
  <2>1. CASE g = gen[r]
    <3>1. <<r, g>> = c
      BY <2>1 DEF Current
    <3> QED
      BY <3>1
  <2>2. CASE g # gen[r]
    BY <1>2, <2>2
  <2> QED
    BY <2>1, <2>2
<1> QED
  BY <1>5, <1>6, <1>7 DEF RequestInv

LEMMA NextGeneration ==
  ASSUME Core, NEW r \in Request, NEW c, c = Current(r), gen[r] < 2, gen'[r] = gen[r] + 1,
         stray' = stray, engine' = engine,
         api' = api, \A g \in Generation \ {gen[r]} : OtherKept(r, g),
         pc'[r] = "WAITING", future'[r] = "PENDING", api.up,
         wire'[c] # "SENT", c \notin permits',
         (c \notin Accounted)',
         Recorded(c)', StillKnown(c)
  PROVE  RequestInv(r)' /\ \A g \in Generation : StillKnown(<<r, g>>)
<1>1. /\ Generations(r) /\ gen[r] \in Generation /\ wire \in [Attempt -> Wire]
      /\ \A g \in Generation : <<r, g>> \in Attempt
  BY Parts DEF Core, Callers, Attempts
<1>2. \A g \in Generation \ {gen[r]} : Recorded(<<r, g>>)' /\ StillKnown(<<r, g>>)
  BY OthersKept
<1>3. \A g \in Generation \ {gen[r]} : (<<r, g>> \in Accounted)' <=> <<r, g>> \in Accounted
  BY <1>1 DEF Accounted, Computing, OtherKept
<1>4. \A g \in Generation : <<r, g>> \notin permits'
  BY <1>1 DEF Generations, OtherKept, Generation, Current
<1>5. Generations(r)'
  <2>1. gen'[r] \in Generation /\ wire'[<<r, gen'[r]>>] = "NONE"
    <3>1. gen[r] + 1 \in Generation \ {gen[r]} /\ gen[r] + 1 > gen[r]
      BY <1>1 DEF Generation
    <3> QED
      BY <1>1, <3>1 DEF Generations, OtherKept
  <2>2. ASSUME NEW g \in Generation, g < gen'[r]
        PROVE  wire'[<<r, g>>] # "SENT" /\ (<<r, g>> \notin Accounted)'
    <3>1. CASE g = gen[r]
      <4>1. <<r, g>> = c
        BY <3>1 DEF Current
      <4> QED
        BY <4>1
    <3>2. CASE g # gen[r]
      <4>1. g < gen[r]
        BY <1>1, <2>2, <3>2 DEF Generation
      <4> QED
        BY <1>1, <1>3, <3>2, <4>1 DEF Generations, OtherKept
    <3> QED
      BY <3>1, <3>2
  <2>3. \A g \in Generation : g > gen'[r] => wire'[<<r, g>>] = "NONE"
    BY <1>1 DEF Generations, OtherKept, Generation
  <2> QED
    BY <1>4, <2>1, <2>2, <2>3 DEF Generations, Current
<1>6. Settled(r)'
  BY <1>4 DEF Settled
<1>7. ASSUME NEW g \in Generation
      PROVE  Recorded(<<r, g>>)' /\ StillKnown(<<r, g>>)
  <2>1. CASE g = gen[r]
    <3>1. <<r, g>> = c
      BY <2>1 DEF Current
    <3> QED
      BY <3>1
  <2>2. CASE g # gen[r]
    BY <1>2, <2>2
  <2> QED
    BY <2>1, <2>2
<1> QED
  BY <1>5, <1>6, <1>7 DEF RequestInv

\* What a request's step does to its attempts.
LEMMA DirectLocal ==
  ASSUME Core, NEW r \in Request, DirectStep(r)
  PROVE  RequestInv(r)' /\ \A g \in Generation : StillKnown(<<r, g>>)
<1>c. PICK c : c = Current(r)
  OBVIOUS
<1>t. /\ Attempts /\ Callers /\ Rows /\ Epochs /\ Generations(r) /\ Settled(r) /\ Recorded(c)
      /\ c \in Direct /\ c \in Attempt /\ c = <<r, gen[r]>> /\ gen[r] \in Generation
      /\ wire[c] \in Wire /\ wire \in [Attempt -> Wire] /\ rec \in [Attempt -> Record]
      /\ \A g \in Generation : <<r, g>> \in Attempt /\ (<<r, g>> = c => g = gen[r])
  BY <1>c, Parts DEF Core, Callers, Current, Attempts, Record
<1>m. stray' = stray /\ engine' = engine /\ api' = api
  BY DirectMoves DEF DirectMove
<1>k. /\ c \in Accounted <=> wire[c] = "COMPUTING" /\ c \notin stray
      /\ (c \in Accounted)' <=> wire'[c] = "COMPUTING" /\ c \notin stray
  BY <1>t, <1>m DEF Accounted, Computing
<1>r. /\ pc[r] \in {"IDLE", "WAITING", "TAKEN"} => wire[c] = "NONE"
      /\ wire[c] = "SENT" => pc[r] = "POSTED"
      /\ pc[r] \notin {"IDLE", "END"} => api.up
      /\ future[r] = "GRANTED" => pc[r] = "WAITING"
      /\ c \in permits => \/ rec[c].state = "UNKNOWN"
                          \/ pc[r] \in {"TAKEN", "POSTED"}
                          \/ future[r] = "GRANTED"
  BY <1>t, <1>c DEF Generations, Settled, Current
\* The attempt and its record stay, the caller may move.
<1>s. ASSUME UNCHANGED <<wire, permits, rec, gen>>,
             pc'[r] \in {"IDLE", "WAITING", "TAKEN"} => wire[c] = "NONE",
             wire[c] = "SENT" => pc'[r] = "POSTED",
             pc'[r] \notin {"IDLE", "END"} => api.up,
             future'[r] = "GRANTED" => pc'[r] = "WAITING",
             c \in permits => \/ rec[c].state = "UNKNOWN"
                              \/ pc'[r] \in {"TAKEN", "POSTED"}
                              \/ future'[r] = "GRANTED"
      PROVE  RequestInv(r)' /\ \A g \in Generation : StillKnown(<<r, g>>)
  <2>1. \A g \in Generation \ {gen[r]} : OtherKept(r, g)
    BY <1>s DEF OtherKept
  <2>2. Recorded(c)' /\ StillKnown(c)
    BY <1>t, <1>m, <1>k, <1>s DEF Recorded, StillKnown
  <2> QED
    BY <1>c, <1>t, <1>m, <1>s, <2>1, <2>2, SameGeneration
\* The attempt is granted.
<1>g. ASSUME Grant(c), UNCHANGED <<wire, gen>>, wire[c] = "NONE", api.up,
             pc'[r] = "WAITING", future'[r] = "GRANTED"
      PROVE  RequestInv(r)' /\ \A g \in Generation : StillKnown(<<r, g>>)
  <2>1. /\ permits' = permits \cup {c}
        /\ rec'[c] = [state |-> "RESERVED", epoch |-> view.epoch, idle |-> FALSE]
        /\ \A g \in Generation \ {gen[r]} : rec'[<<r, g>>] = NoPermit
    BY <1>c, <1>t, <1>g, GrantMoves
  <2>2. \A g \in Generation \ {gen[r]} : OtherKept(r, g)
    BY <1>t, <1>g, <2>1 DEF OtherKept
  <2>3. Recorded(c)' /\ StillKnown(c)
    BY <1>t, <1>m, <1>k, <1>g, <2>1 DEF Recorded, StillKnown
  <2> QED
    BY <1>c, <1>t, <1>m, <1>g, <2>1, <2>2, <2>3, SameGeneration
\* The attempt is finished.
<1>f. ASSUME NEW state \in {"NONE", "FAILED_NOT_SENT"}, Finish(c, state)
      PROVE  /\ c \notin permits' /\ permits' = permits \ {c}
             /\ \A g \in Generation \ {gen[r]} : <<r, g>> \in permits' <=> <<r, g>> \in permits
             /\ \A g \in Generation \ {gen[r]} : rec'[<<r, g>>] = rec[<<r, g>>]
             /\ rec'[c] = rec[c] \/ rec'[c] = Final(state)
  BY <1>c, <1>t, <1>f, FinishMoves DEF PermitState, PermitEnd
<1>e. ASSUME NEW state \in {"NONE", "FAILED_NOT_SENT"}, Finish(c, state),
             wire[c] # "COMPUTING", wire'[c] \in {"NONE", "CLOSED"},
             wire[c] = "NONE" => wire'[c] = "NONE",
             \A g \in Generation \ {gen[r]} : wire'[<<r, g>>] = wire[<<r, g>>]
      PROVE  /\ Recorded(c)' /\ StillKnown(c)
             /\ \A g \in Generation \ {gen[r]} : OtherKept(r, g)
  <2>1. \A g \in Generation \ {gen[r]} : OtherKept(r, g)
    BY <1>e, <1>f DEF OtherKept
  <2>2. Recorded(c)'
    <3>1. c \notin permits' /\ (rec'[c] = rec[c] \/ rec'[c] = Final(state))
      BY <1>e, <1>f
    <3>2. rec[c].state = "RESERVED" => wire'[c] = "NONE"
      BY <1>e, <1>t DEF Recorded
    <3> QED
      BY <1>e, <3>1, <3>2, <1>t DEF Recorded, Final
  <2>3. StillKnown(c)
    BY <1>e, <1>f, <1>k DEF StillKnown, Final
  <2> QED
    BY <2>1, <2>2, <2>3
<1>1. CASE OpenWaiting(r)
  <2>1. /\ UNCHANGED <<wire, permits, rec, gen>> /\ pc[r] = "IDLE" /\ api.up
        /\ \/ pc'[r] = "WAITING" /\ future'[r] = "PENDING"
           \/ pc'[r] = "END" /\ future' = future
    BY <1>1, <1>t DEF OpenWaiting, Goes, Promises, others, Callers
  <2> QED
    BY <2>1, <1>r, <1>s
<1>2. CASE TakeGrant(r)
  <2>1. /\ UNCHANGED <<wire, permits, rec, gen>> /\ pc[r] = "WAITING"
        /\ pc'[r] = "TAKEN" /\ future'[r] = "NONE"
    BY <1>2, <1>t DEF TakeGrant, Goes, Promises, others, Callers
  <2> QED
    BY <2>1, <1>r, <1>s
<1>3. CASE RecoveryEnds(r)
  <2>1. /\ UNCHANGED <<wire, permits, rec, gen, future>> /\ pc[r] = "RECOVERING"
        /\ pc'[r] = "END"
    BY <1>3, <1>t DEF RecoveryEnds, Goes, others, Callers
  <2> QED
    BY <2>1, <1>r, <1>s
<1>4. CASE Detach(r)
  <2>1. UNCHANGED <<wire, permits, rec, gen, future, pc>>
    BY <1>4 DEF Detach, schedulerVars, world, ram
  <2> QED
    BY <2>1, <1>r, <1>s
<1>5. CASE OpenTry(r)
  <2>1. UNCHANGED <<wire, gen>> /\ pc[r] = "IDLE" /\ api.up
    BY <1>5 DEF OpenTry, others
  <2>2. \/ Grant(c) /\ pc'[r] = "WAITING" /\ future'[r] = "GRANTED"
        \/ UNCHANGED <<permits, rec, future>> /\ pc'[r] = "END"
    BY <1>5, <1>c, <1>t DEF OpenTry, Goes, Promises, Callers
  <2> QED
    BY <2>1, <2>2, <1>r, <1>g, <1>s
<1>6. CASE Dispatch(r)
  <2>1. UNCHANGED <<wire, gen, pc>> /\ pc[r] = "WAITING" /\ api.up /\ future[r] = "PENDING"
    BY <1>6 DEF Dispatch, Pending, Ready, others
  <2>2. \/ Grant(c) /\ future'[r] = "GRANTED"
        \/ UNCHANGED <<permits, rec>> /\ future'[r] = "REFUSED"
    BY <1>6, <1>c, <1>t DEF Dispatch, Promises, Callers
  <2> QED
    BY <2>1, <2>2, <1>r, <1>g, <1>s
<1>7. CASE Withdraw(r)
  <2>1. UNCHANGED <<wire, gen>> /\ pc[r] = "WAITING" /\ pc'[r] = "END" /\ future'[r] = "NONE"
    BY <1>7, <1>t DEF Withdraw, Goes, Promises, others, Callers
  <2>2. CASE future[r] = "GRANTED"
    <3>1. Finish(c, "NONE")
      BY <1>7, <1>c, <1>t, <2>2 DEF Withdraw, Discard
    <3>2. c \notin permits' /\ Recorded(c)' /\ StillKnown(c)
          /\ \A g \in Generation \ {gen[r]} : OtherKept(r, g)
      BY <2>1, <3>1, <1>r, <1>e, <1>f
    <3> QED
      BY <2>1, <3>2, <1>c, <1>t, <1>m, <1>r, SameGeneration
  <2>3. CASE future[r] # "GRANTED"
    <3>1. UNCHANGED <<permits, rec>>
      BY <1>7, <2>3 DEF Withdraw
    <3> QED
      BY <2>1, <2>3, <3>1, <1>r, <1>s
  <2> QED
    BY <2>2, <2>3
\* The request waits for its next generation, or ends.
<1>n. ASSUME RetryOr(r), pc[r] \notin {"IDLE", "WAITING", "END"}, wire'[c] # "SENT",
             c \notin permits', (c \notin Accounted)', Recorded(c)', StillKnown(c),
             \A g \in Generation \ {gen[r]} : OtherKept(r, g)
      PROVE  RequestInv(r)' /\ \A g \in Generation : StillKnown(<<r, g>>)
  <2>1. CASE pc'[r] = "WAITING" /\ future'[r] = "PENDING" /\ gen[r] < 2 /\ gen'[r] = gen[r] + 1
    BY <1>c, <1>m, <1>r, <1>n, <2>1, NextGeneration
  <2>2. CASE pc'[r] = "END" /\ gen'[r] = gen[r] /\ future'[r] = future[r]
    BY <1>c, <1>m, <1>r, <1>n, <2>2, SameGeneration
  <2> QED
    BY <1>n, <2>1, <2>2, RetryMoves
<1>8. CASE DropGrant(r)
  <2>1. /\ UNCHANGED <<wire, gen, future>> /\ pc[r] = "TAKEN" /\ pc'[r] = "END"
        /\ Finish(c, "NONE")
    BY <1>8, <1>c, <1>t DEF DropGrant, Discard, Goes, others, Callers
  <2>2. c \notin permits' /\ Recorded(c)' /\ StillKnown(c)
        /\ \A g \in Generation \ {gen[r]} : OtherKept(r, g)
    BY <2>1, <1>r, <1>e, <1>f
  <2> QED
    BY <2>1, <2>2, <1>c, <1>t, <1>m, <1>r, SameGeneration
<1>9. CASE Send(r)
  <2>1. /\ UNCHANGED <<permits, gen, future>> /\ pc[r] = "TAKEN" /\ pc'[r] = "POSTED"
        /\ c \in permits /\ rec' = [rec EXCEPT ![c].state = "SEND_INTENT"]
        /\ wire' = [wire EXCEPT ![c] = "SENT"]
    BY <1>9, <1>c, <1>t DEF Send, Goes, Callers
  <2>2. \A g \in Generation \ {gen[r]} : OtherKept(r, g)
    BY <2>1, <1>t DEF OtherKept
  <2>3. /\ rec'[c].state = "SEND_INTENT" /\ rec'[c].epoch = rec[c].epoch
        /\ wire'[c] = "SENT" /\ ~rec'[c].idle
    BY <2>1, <1>t DEF Record, Recorded
  <2>4. Recorded(c)' /\ StillKnown(c)
    BY <2>1, <2>3, <1>k DEF Recorded, StillKnown
  <2> QED
    BY <2>1, <2>2, <2>3, <2>4, <1>c, <1>t, <1>m, <1>r, SameGeneration
<1>10. CASE SendRefused(r)
  <2>1. /\ UNCHANGED <<wire, permits, rec>> /\ pc[r] = "TAKEN" /\ c \notin permits /\ RetryOr(r)
    BY <1>10, <1>c DEF SendRefused, others
  <2>2. Recorded(c)' /\ StillKnown(c) /\ (c \notin Accounted)'
    BY <2>1, <1>t, <1>m, <1>k, <1>r DEF Recorded, StillKnown
  <2>3. \A g \in Generation \ {gen[r]} : OtherKept(r, g)
    BY <2>1 DEF OtherKept
  <2> QED
    BY <2>1, <2>2, <2>3, <1>n, <1>r
<1>11. CASE NotSent(r)
  <2>1. /\ pc[r] = "POSTED" /\ wire[c] = "SENT" /\ Finish(c, "FAILED_NOT_SENT") /\ RetryOr(r)
        /\ wire' = [wire EXCEPT ![c] = "CLOSED"]
    BY <1>11, <1>c DEF NotSent
  <2>2. wire'[c] = "CLOSED" /\ \A g \in Generation \ {gen[r]} : wire'[<<r, g>>] = wire[<<r, g>>]
    BY <2>1, <1>t
  <2>3. /\ c \notin permits' /\ Recorded(c)' /\ StillKnown(c) /\ (c \notin Accounted)'
        /\ \A g \in Generation \ {gen[r]} : OtherKept(r, g)
    BY <2>1, <2>2, <1>e, <1>f, <1>k
  <2> QED
    BY <2>1, <2>2, <2>3, <1>n
<1>12. CASE Completed(r)
  <2>1. /\ pc[r] = "POSTED" /\ wire[c] = "ANSWERED" /\ Finish(c, "NONE") /\ pc'[r] = "END"
        /\ wire' = [wire EXCEPT ![c] = "CLOSED"] /\ UNCHANGED <<gen, future>>
    BY <1>12, <1>c, <1>t DEF Completed, Discard, Goes, Callers
  <2>2. wire'[c] = "CLOSED" /\ \A g \in Generation \ {gen[r]} : wire'[<<r, g>>] = wire[<<r, g>>]
    BY <2>1, <1>t
  <2>3. /\ c \notin permits' /\ Recorded(c)' /\ StillKnown(c)
        /\ \A g \in Generation \ {gen[r]} : OtherKept(r, g)
    BY <2>1, <2>2, <1>e, <1>f
  <2> QED
    BY <2>1, <2>2, <2>3, <1>c, <1>m, <1>r, SameGeneration
<1>13. CASE Lost(r)
  <2>1. /\ pc[r] = "POSTED" /\ pc'[r] \in {"END", "RECOVERING"} /\ UNCHANGED <<gen, future, permits>>
        /\ HangUp({c}) /\ Uncertain(c)
    BY <1>13, <1>c, <1>t DEF Lost, Goes, Callers
  <2>2. /\ wire'[c] = (IF wire[c] \in {"SENT", "ANSWERED"} THEN "CLOSED" ELSE wire[c])
        /\ \A g \in Generation \ {gen[r]} : wire'[<<r, g>>] = wire[<<r, g>>]
    BY <2>1, <1>t DEF HangUp
  <2>3. /\ c \in permits => rec'[c].state = "UNKNOWN"
        /\ c \notin permits => rec'[c].state = rec[c].state
        /\ rec'[c].epoch = rec[c].epoch /\ rec'[c].idle = rec[c].idle
        /\ \A g \in Generation \ {gen[r]} : rec'[<<r, g>>] = rec[<<r, g>>]
    BY <2>1, <1>t DEF Uncertain, Record
  <2>4. \A g \in Generation \ {gen[r]} : OtherKept(r, g)
    BY <2>1, <2>2, <2>3 DEF OtherKept
  <2>5. Recorded(c)' /\ StillKnown(c)
    BY <2>1, <2>2, <2>3, <1>t, <1>m, <1>k DEF Recorded, StillKnown
  <2> QED
    BY <2>1, <2>2, <2>3, <2>4, <2>5, <1>c, <1>m, <1>r, SameGeneration
<1>14. CASE Recovered(r)
  <2>1. /\ UNCHANGED <<wire, permits, rec>> /\ pc[r] = "RECOVERING" /\ Recoverable(c) /\ RetryOr(r)
    BY <1>14, <1>c DEF Recovered, others
  <2>2. wire[c] # "SENT" /\ api.up /\ rec[c].state = "FAILED_RECOVERABLE"
    BY <2>1, <1>r DEF Recoverable
  <2>3. c \notin permits
    BY <2>2, <1>t DEF Recorded
  <2>4. c \notin Accounted
    <3>1. CASE rec[c].idle
      BY <2>2, <3>1, <1>t, <1>k DEF Recorded
    <3>2. CASE rec[c].epoch # view.epoch
      <4>1. /\ rec[c].epoch <= view.epoch /\ view.epoch <= row.epoch /\ row.epoch <= engine.process
            /\ c \in Accounted => rec[c].epoch = engine.process
        BY <2>2, <1>t DEF Epochs, Core, ComputeKnown, Serves
      <4>2. rec[c].epoch \in Nat /\ view.epoch \in Nat /\ row.epoch \in Nat /\ engine.process \in Nat
        BY <1>t, EndpointAssumption DEF EndpointAssumption, Record, Rows, PoolRow
      <4> QED
        BY <3>2, <4>1, <4>2
    <3> QED
      BY <2>1, <3>1, <3>2 DEF Recoverable
  <2>5. Recorded(c)' /\ StillKnown(c) /\ (c \notin Accounted)'
    BY <2>1, <2>4, <1>t, <1>m, <1>k DEF Recorded, StillKnown
  <2>6. \A g \in Generation \ {gen[r]} : OtherKept(r, g)
    BY <2>1 DEF OtherKept
  <2> QED
    BY <2>1, <2>2, <2>3, <2>5, <2>6, <1>n
<1> QED
  BY <1>1, <1>2, <1>3, <1>4, <1>5, <1>6, <1>7, <1>8, <1>9, <1>10, <1>11, <1>12, <1>13, <1>14
     DEF DirectStep, Producer

LEMMA DirectKeeps ==
  ASSUME Core, NEW r \in Request, DirectStep(r)
  PROVE  Core'
<1>1. DirectMove(r) /\ Attempts' /\ Callers'
  BY DirectMoves
<1>2. RequestInv(r)' /\ \A g \in Generation : StillKnown(<<r, g>>)
  BY DirectLocal
<1>3. /\ UNCHANGED <<row, owner, ledger, engine, stray, orphans, forfeited, api, view, task, streak>>
      /\ UNCHANGED <<exec, calls, expired>>
  BY <1>1 DEF DirectMove, clients
<1>4. Rows' /\ Upkeep'
  BY <1>3 DEF Core, Rows, Upkeep
<1>5. ASSUME NEW a \in Attempt, \A g \in Generation : a # <<r, g>>
      PROVE  /\ wire'[a] = wire[a] /\ rec'[a] = rec[a] /\ (a \in permits' <=> a \in permits)
             /\ (a \in Accounted)' <=> a \in Accounted
  BY <1>1, <1>3, <1>5 DEF DirectMove, Accounted, Computing
<1>6. ASSUME NEW a \in Attempt
      PROVE  StillKnown(a)
  BY <1>2, <1>5 DEF StillKnown
<1>7. Epochs' /\ ComputeKnown'
  <2>1. /\ 0 <= row.epoch /\ 0 <= view.epoch /\ view.epoch <= row.epoch
    BY EndpointAssumption DEF EndpointAssumption, Core, Epochs, Rows, PoolRow
  <2>2. ASSUME NEW a \in Attempt
        PROVE  /\ \/ rec'[a].epoch = rec[a].epoch
                  \/ /\ rec'[a].epoch <= row.epoch
                     /\ a \in Direct => rec'[a].epoch <= view.epoch \/ ~api.up
                     /\ (a \notin Accounted)'
               /\ (a \in Accounted)' => a \in Accounted
    <3>1. StillKnown(a)
      BY <1>6
    <3>2. view.epoch <= view.epoch
      BY EndpointAssumption DEF EndpointAssumption, Core, Rows, PoolRow
    <3> QED
      BY <2>1, <3>1, <3>2 DEF StillKnown
  <2> QED
    BY <1>3, <2>2, ComputeStays
<1>8. Reconciling'
  BY <1>3 DEF Core, Reconciling
<1>9. RowKept'
  BY <1>3, <1>6, Parts, RowStays DEF StillKnown
<1>10. ASSUME NEW d \in Durable
       PROVE  DurableStage(d)' /\ DurableHeld(d)'
  <2>1. d \in Attempt /\ \A g \in Generation : d # <<r, g>>
    BY Parts
  <2> QED
    BY <1>3, <1>5, <2>1, DurableKept
<1>11. ASSUME NEW q \in Request
       PROVE  RequestInv(q)'
  <2>1. CASE q = r
    BY <1>2, <2>1
  <2>2. CASE q # r
    <3>1. \A g \in Generation : <<q, g>> \in Attempt /\ \A h \in Generation : <<q, g>> # <<r, h>>
      BY <2>2, Parts
    <3>2. gen'[q] = gen[q] /\ pc'[q] = pc[q] /\ future'[q] = future[q]
      BY <1>1, <2>2 DEF DirectMove
    <3> QED
      BY <1>3, <1>5, <3>1, <3>2, RequestKept DEF RequestInv
  <2> QED
    BY <2>1, <2>2
<1>12. ASSUME NEW a \in Direct
       PROVE  Recorded(a)'
  <2>1. PICK q \in Request, g \in Generation : a = <<q, g>>
    BY Parts
  <2> QED
    BY <1>11, <2>1 DEF RequestInv
<1> QED
  BY <1>1, <1>4, <1>7, <1>8, <1>9, <1>10, <1>11, <1>12 DEF Core, RequestInv

-----------------------------------------------------------------------------
(* Steps of the engine, of watchdog and operator, and of time.             *)

\* The engine answers or stops; requests that it computed are over.
LEMMA ComputeEnds ==
  ASSUME Core, UNCHANGED <<stray, orphans, forfeited, permits, rec, api, owner>>,
         UNCHANGED <<pc, gen, future>>,
         engine'.process = engine.process, engine'.up => engine.up,
         wire' \in [Attempt -> Wire],
         \A a \in Attempt : \/ wire'[a] = wire[a]
                            \/ wire[a] = "COMPUTING" /\ wire'[a] \in {"ANSWERED", "CLOSED"}
  PROVE  /\ RowKept'
         /\ \A r \in Request : Generations(r)' /\ Settled(r)'
         /\ \A a \in Direct : Recorded(a)'
         /\ \A a \in Attempt : (a \in Accounted)' => a \in Accounted
<1>1. \A a \in Attempt : (a \in Accounted)' => a \in Accounted
  BY DEF Accounted, Computing
<1>2. RowKept'
  BY <1>1, Parts, RowStays
<1>3. ASSUME NEW r \in Request
      PROVE  Generations(r)' /\ Settled(r)'
  <2>1. /\ Generations(r) /\ Settled(r) /\ gen[r] \in Generation
        /\ \A g \in Generation : <<r, g>> \in Attempt
    BY Parts DEF Core, Callers
  <2>2. \A g \in Generation : (<<r, g>> \in Accounted)' => <<r, g>> \in Accounted
    BY <1>1, <2>1
  <2>3. \A g \in Generation :
          /\ wire'[<<r, g>>] = "SENT" => wire[<<r, g>>] = "SENT"
          /\ wire[<<r, g>>] = "NONE" => wire'[<<r, g>>] = "NONE"
    BY <2>1
  <2>4. Generations(r)'
    BY <2>1, <2>2, <2>3 DEF Generations, Current
  <2> QED
    BY <2>1, <2>4 DEF Settled
<1>4. ASSUME NEW a \in Direct
      PROVE  Recorded(a)'
  <2>1. Recorded(a) /\ a \in Attempt
    BY Parts DEF Core
  <2> QED
    BY <2>1 DEF Recorded
<1> QED
  BY <1>1, <1>2, <1>3, <1>4

LEMMA ArriveKeeps ==
  ASSUME Core, NEW a \in Attempt, Arrive(a), UNCHANGED proxyVars
  PROVE  Core'
<1>1. /\ engine.up /\ wire[a] = "SENT"
      /\ UNCHANGED <<row, owner, ledger, engine, orphans, forfeited, api, view, permits, rec, task, streak>>
      /\ UNCHANGED <<exec, calls, expired, pc, gen, future, bound, detached>>
      /\ wire' = [wire EXCEPT ![a] = "COMPUTING"]
      /\ stray' = IF Serves(a) THEN stray ELSE stray \cup {a}
  BY DEF Arrive, engineUnchanged, ram, clients, proxyVars, Serves
<1>2. /\ Attempts /\ Rows /\ Epochs /\ ComputeKnown /\ Reconciling /\ RowKept
      /\ wire \in [Attempt -> Wire] /\ wire'[a] = "COMPUTING"
      /\ \A b \in Attempt \ {a} : wire'[b] = wire[b]
  BY <1>1 DEF Core, Attempts
<1>3. Rows' /\ Attempts' /\ Upkeep' /\ Callers'
  BY <1>1 DEF Core, Rows, Attempts, Upkeep, Callers, Wire
<1>4. \A b \in Attempt \ {a} : (b \in Accounted)' <=> b \in Accounted
  BY <1>1, <1>2 DEF Accounted, Computing
<1>5. (a \in Accounted)' => Serves(a)
  BY <1>1 DEF Accounted, Computing
<1>6. Epochs' /\ Reconciling'
  BY <1>1, <1>2 DEF Epochs, Reconciling
<1>7. ComputeKnown'
  <2>1. \A b \in Attempt : Serves(b)' <=> Serves(b)
    BY <1>1 DEF Serves
  <2>2. \A b : (b \in Accounted)' => b \in Attempt
    BY DEF Accounted, Computing
  <2> QED
    BY <1>2, <1>4, <1>5, <2>1, <2>2 DEF ComputeKnown
<1>8. ASSUME NEW d \in Durable
      PROVE  DurableStage(d)' /\ DurableHeld(d)'
  <2>1. DurableStage(d) /\ DurableHeld(d) /\ d \in Attempt
    BY Parts DEF Core
  <2>2. CASE d = a
    BY <1>1, <1>2, <1>5, <2>1, <2>2 DEF DurableStage, DurableHeld, MaySend, Serves
  <2>3. CASE d # a
    BY <1>1, <1>2, <1>4, <2>1, <2>3 DEF DurableStage, DurableHeld, MaySend, Serves
  <2> QED
    BY <2>2, <2>3
<1>9. ASSUME NEW r \in Request
      PROVE  /\ Generations(r)' /\ Settled(r)'
             /\ \A g \in Generation : a = <<r, g>> => g = gen[r] /\ api.up
  <2>1. /\ Generations(r) /\ Settled(r) /\ gen[r] \in Generation
        /\ \A g \in Generation : <<r, g>> \in Attempt
    BY Parts DEF Core, Callers
  <2>2. ASSUME NEW g \in Generation, a = <<r, g>>
        PROVE  g = gen[r] /\ pc[r] = "POSTED" /\ api.up
    BY <1>1, <2>1, <2>2 DEF Generations, Current, Generation
  <2>3. \A g \in Generation \ {gen[r]} :
          /\ wire'[<<r, g>>] = wire[<<r, g>>]
          /\ (<<r, g>> \in Accounted)' <=> <<r, g>> \in Accounted
    BY <1>2, <1>4, <2>1, <2>2
  <2>4. \/ <<r, gen[r]>> # a /\ wire'[<<r, gen[r]>>] = wire[<<r, gen[r]>>]
        \/ wire'[<<r, gen[r]>>] = "COMPUTING" /\ pc[r] = "POSTED"
    BY <1>2, <2>1, <2>2
  <2>5. Generations(r)'
    BY <1>1, <2>1, <2>3, <2>4 DEF Generations, Current, Generation
  <2> QED
    BY <1>1, <2>1, <2>2, <2>5 DEF Settled
<1>10. ASSUME NEW b \in Direct
       PROVE  Recorded(b)'
  <2>1. Recorded(b) /\ b \in Attempt
    BY Parts DEF Core
  <2> QED
    BY <1>1, <1>2, <2>1 DEF Recorded
<1>11. RowKept'
  <2>1. ASSUME NEW b \in Direct, (b \in Accounted)'
        PROVE  b \in Accounted \/ (b \in permits /\ api.up)
    <3>1. CASE b = a
      <4>1. a \in permits
        BY <1>1, <1>5, <2>1, <3>1 DEF Core, Recorded, Serves
      <4>2. api.up
        BY <1>9, <2>1, <3>1, Parts
      <4> QED
        BY <3>1, <4>1, <4>2
    <3>2. CASE b # a
      BY <1>4, <2>1, <3>2, Parts
    <3> QED
      BY <3>1, <3>2
  <2> QED
    BY <1>1, <1>2, <2>1 DEF RowKept
<1> QED
  BY <1>3, <1>6, <1>7, <1>8, <1>9, <1>10, <1>11 DEF Core

\* Quiesce, confirm, configure, stop, answer: the row and the ledger of what has stopped.
LEMMA EngineKeeps ==
  ASSUME Core, UNCHANGED proxyVars,
         \/ \E a \in Attempt : EngineAnswers(a)
         \/ EngineStops \/ QuiesceEngine \/ ConfirmStopped \/ ConfigurePool
  PROVE  Core'
<1>1. /\ UNCHANGED <<owner, orphans, forfeited, api, view, permits, rec, task, streak, stray>>
      /\ UNCHANGED <<exec, calls, expired, pc, gen, future, bound, detached>>
  BY DEF EngineAnswers, EngineStops, QuiesceEngine, ConfirmStopped, ConfigurePool,
         engineUnchanged, ram, clients, proxyVars
<1>2. /\ Attempts /\ Rows /\ Epochs /\ ComputeKnown /\ Reconciling
      /\ wire \in [Attempt -> Wire] /\ ledger \in [Durable -> LedgerState]
      /\ row \in PoolRow /\ engine \in [process : 0..MaxEpoch, up : BOOLEAN] /\ MaxEpoch \in Nat
  BY EndpointAssumption DEF EndpointAssumption, Core, Attempts, Rows
<1>3. /\ wire' \in [Attempt -> Wire]
      /\ \A a \in Attempt : \/ wire'[a] = wire[a]
                            \/ wire[a] = "COMPUTING" /\ wire'[a] \in {"ANSWERED", "CLOSED"}
  BY <1>2 DEF EngineAnswers, EngineStops, QuiesceEngine, ConfirmStopped, ConfigurePool, Wire
<1>4. /\ engine' \in [process : 0..MaxEpoch, up : BOOLEAN]
      /\ engine'.process = engine.process /\ (engine'.up => engine.up)
      /\ ~engine'.up => engine.process < MaxEpoch
  <2>1. CASE EngineStops
    <3>1. engine' = [engine EXCEPT !.up = FALSE] /\ engine.process < MaxEpoch
      BY <2>1 DEF EngineStops
    <3> QED
      BY <1>2, <3>1
  <2>2. CASE engine' = engine
    BY <1>2, <2>2 DEF Epochs
  <2> QED
    BY <2>1, <2>2 DEF EngineAnswers, QuiesceEngine, ConfirmStopped, ConfigurePool
<1>5. ASSUME NEW a \in Accounted'
      PROVE  a \in Attempt /\ a \in Accounted /\ engine'.up
  <2>1. /\ a \in Attempt /\ wire'[a] = "COMPUTING" /\ a \notin stray
        /\ wire[a] = "COMPUTING"
    BY <1>1, <1>3, <1>5 DEF Accounted, Computing
  <2>2. a \in Accounted
    BY <2>1 DEF Accounted, Computing
  <2>3. engine.up
    BY <1>2, <2>2 DEF ComputeKnown, Serves
  <2>4. CASE EngineStops
    <3>1. wire' = [b \in Attempt |-> IF wire[b] = "COMPUTING" THEN "CLOSED" ELSE wire[b]]
      BY <2>4 DEF EngineStops
    <3> QED
      BY <2>1, <3>1
  <2>5. CASE engine' = engine
    BY <2>1, <2>2, <2>3, <2>5
  <2> QED
    BY <2>4, <2>5 DEF EngineAnswers, QuiesceEngine, ConfirmStopped, ConfigurePool
<1>6. /\ row' \in PoolRow /\ row.epoch <= row'.epoch /\ row'.epoch <= engine.process
  <2>1. CASE row' = row
    BY <1>2, <2>1 DEF Epochs, PoolRow
  <2>2. CASE QuiesceEngine \/ ConfirmStopped
    BY <1>2, <2>2 DEF QuiesceEngine, ConfirmStopped, PoolRow, Health, Epochs
  <2>3. CASE ConfigurePool
    BY <1>2, <2>3 DEF ConfigurePool, PoolRow, Health, Epochs
  <2> QED
    BY <2>1, <2>2, <2>3 DEF EngineAnswers, EngineStops
<1>7. \A d \in Durable :
        \/ ledger'[d] = ledger[d]
        \/ ledger[d] \in LedgerHeld /\ ledger'[d] = "ENDED" /\ ~Serves(d)
  <2>1. CASE ConfirmStopped
    BY <1>2, <2>1 DEF ConfirmStopped, Gone, Serves
  <2>2. CASE ledger' = ledger
    BY <2>2
  <2> QED
    BY <2>1, <2>2 DEF EngineAnswers, EngineStops, QuiesceEngine, ConfigurePool
<1>8. ledger' \in [Durable -> LedgerState]
  <2>1. CASE ConfirmStopped
    BY <1>2, <2>1 DEF ConfirmStopped, LedgerState
  <2>2. CASE ledger' = ledger
    BY <1>2, <2>2
  <2> QED
    BY <2>1, <2>2 DEF EngineAnswers, EngineStops, QuiesceEngine, ConfigurePool
<1>9. Rows' /\ Attempts' /\ Upkeep' /\ Callers'
  BY <1>1, <1>3, <1>4, <1>6, <1>8 DEF Core, Rows, Attempts, Upkeep, Callers
<1>10. Epochs'
  <2>1. \A a \in Attempt : rec'[a].epoch \in 0..MaxEpoch /\ rec'[a] = rec[a]
    BY <1>1, <1>2 DEF Attempts
  <2>2. /\ view'.epoch \in Nat /\ row.epoch \in Nat /\ row'.epoch \in Nat /\ engine.process \in Nat
        /\ api' = api /\ view' = view
    BY <1>1, <1>2, <1>6 DEF Rows, PoolRow
  <2>3. \A a \in Attempt : rec'[a].epoch <= row'.epoch
    BY <1>2, <1>6, <2>1, <2>2 DEF Epochs
  <2> QED
    BY <1>2, <1>4, <1>6, <2>1, <2>2, <2>3, Parts DEF Epochs
<1>11. ComputeKnown'
  BY <1>1, <1>2, <1>4, <1>5 DEF ComputeKnown, Serves
<1>12. Reconciling'
  BY <1>1, <1>2, <1>7 DEF Reconciling, LedgerHeld
<1>13. ASSUME NEW d \in Durable
       PROVE  DurableStage(d)' /\ DurableHeld(d)'
  <2>1. DurableStage(d) /\ DurableHeld(d) /\ d \in Attempt
    BY Parts DEF Core
  <2>2. Serves(d)' => Serves(d)
    BY <1>1, <1>4 DEF Serves
  <2>3. d \in Accounted' => d \in Accounted /\ Serves(d)
    BY <1>2, <1>5 DEF ComputeKnown
  <2>4. \/ wire'[d] = wire[d]
        \/ wire[d] = "COMPUTING" /\ wire'[d] \in {"ANSWERED", "CLOSED"}
    BY <1>3, <2>1
  <2>5. DurableStage(d)'
    BY <1>1, <1>7, <2>1, <2>4 DEF DurableStage, LedgerHeld
  <2>6. DurableHeld(d)'
    BY <1>1, <1>7, <2>1, <2>2, <2>3, <2>4 DEF DurableHeld, MaySend
  <2> QED
    BY <2>5, <2>6
<1> QED
  BY <1>1, <1>3, <1>4, <1>9, <1>10, <1>11, <1>12, <1>13, ComputeEnds DEF Core

LEMMA EngineStartsKeeps ==
  ASSUME Core, EngineStarts, UNCHANGED proxyVars
  PROVE  Core'
<1>1. /\ UNCHANGED <<row, owner, ledger, wire, stray, orphans, forfeited, api, view, permits, rec, task, streak>>
      /\ UNCHANGED <<exec, calls, expired, pc, gen, future, bound, detached>>
      /\ ~engine.up /\ engine' = [process |-> engine.process + 1, up |-> TRUE]
  BY DEF EngineStarts, engineUnchanged, ram, clients, proxyVars
<1>2. /\ Attempts /\ Rows /\ Upkeep /\ Callers /\ Epochs /\ ComputeKnown /\ Reconciling /\ RowKept
      /\ row \in PoolRow /\ engine.process \in 0..MaxEpoch /\ MaxEpoch \in Nat
      /\ engine.process < MaxEpoch
  BY <1>1, EndpointAssumption DEF EndpointAssumption, Core, Rows, Epochs
<1>3. engine'.process = engine.process + 1 /\ engine'.up
  BY <1>1
<1>4. engine' \in [process : 0..MaxEpoch, up : BOOLEAN]
  BY <1>1, <1>2
<1>5. Rows' /\ Attempts' /\ Upkeep' /\ Callers' /\ Reconciling'
  BY <1>1, <1>2, <1>4 DEF Rows, Attempts, Upkeep, Callers, Reconciling
<1>6. Accounted = {} /\ Accounted' = {}
  <2>1. Accounted = {}
    BY <1>1, <1>2 DEF ComputeKnown, Serves
  <2> QED
    BY <1>1, <2>1 DEF Accounted, Computing
<1>7. row.epoch \in Nat /\ engine.process \in Nat /\ row.epoch <= engine.process
  BY <1>2 DEF PoolRow, Epochs
<1>8. \A a \in Attempt : rec[a].epoch \in Nat /\ rec[a].epoch < engine.process + 1
  <2>1. \A a \in Attempt : rec[a].epoch \in 0..MaxEpoch
    BY <1>2 DEF Attempts
  <2> QED
    BY <1>2, <1>7, <2>1 DEF Epochs
<1>9. Epochs'
  BY <1>1, <1>2, <1>3, <1>7 DEF Epochs
<1>10. ComputeKnown' /\ RowKept'
  BY <1>1, <1>2, <1>6 DEF ComputeKnown, RowKept
<1>11. \A a \in Attempt : ~Serves(a)' /\ rec'[a].epoch # engine'.process
  BY <1>1, <1>3, <1>8 DEF Serves
<1>12. ASSUME NEW d \in Durable
       PROVE  DurableStage(d)' /\ DurableHeld(d)'
  <2>1. DurableStage(d)'
    BY <1>1 DEF Core, DurableStage
  <2>2. ~Serves(d)'
    BY <1>11, Parts
  <2>3. DurableHeld(d)'
    BY <1>6, <2>2 DEF DurableHeld
  <2> QED
    BY <2>1, <2>3
<1>13. ASSUME NEW r \in Request
       PROVE  Generations(r)' /\ Settled(r)'
  BY <1>1, <1>6 DEF Core, Generations, Settled, Current
<1>14. ASSUME NEW a \in Direct
       PROVE  Recorded(a)'
  BY <1>1, <1>11, Parts DEF Core, Recorded
<1> QED
  BY <1>5, <1>9, <1>10, <1>12, <1>13, <1>14 DEF Core

\* Nothing but the deadlines, the queue and the callers' departures changes.
LEMMA TimeKeeps ==
  ASSUME Core, UNCHANGED <<world, api, view, permits, rec, task, streak, exec, calls>>,
         UNCHANGED <<pc, gen, future, bound>>,
         expired' \subseteq Deadlined, detached' \subseteq Leaving
  PROVE  Core'
<1>1. UNCHANGED <<row, owner, ledger, engine, wire, stray, orphans, forfeited>>
  BY DEF world
<1>2. Rows' /\ Attempts' /\ Upkeep' /\ Callers'
  BY <1>1 DEF Core, Rows, Attempts, Upkeep, Callers
<1>3. Accounted' = Accounted
  BY <1>1 DEF Accounted, Computing
<1>4. Epochs' /\ ComputeKnown' /\ Reconciling' /\ RowKept'
  BY <1>1, <1>3 DEF Core, Epochs, ComputeKnown, Serves, Reconciling, RowKept
<1>5. \A d \in Durable : DurableStage(d)' /\ DurableHeld(d)'
  BY <1>1, <1>3 DEF Core, DurableStage, DurableHeld, MaySend, Serves
<1>6. \A r \in Request : Generations(r)' /\ Settled(r)'
  BY <1>1, <1>3 DEF Core, Generations, Settled, Current
<1>7. \A a \in Direct : Recorded(a)'
  BY <1>1 DEF Core, Recorded
<1> QED
  BY <1>2, <1>4, <1>5, <1>6, <1>7 DEF Core

-----------------------------------------------------------------------------
(* The maintenance task.                                                   *)

\* A round releases what the ledger has ended, or what the engine computes no more.
LEMMA MaintenanceKeeps ==
  ASSUME Core, Rows', Attempts', Upkeep', Reconciling',
         UNCHANGED <<row, engine, wire, stray, orphans, forfeited, exec, calls, proxyVars>>,
         owner'.exists = owner.exists, api'.up = api.up, api'.boot = api.boot,
         api.up /\ api.dirty /\ ~api'.dirty => Accounted \cap Direct \subseteq permits,
         view.epoch <= view'.epoch, view'.epoch <= row.epoch,
         \A d \in Durable :
           /\ rec'[d].epoch = rec[d].epoch
           /\ d \in permits' => d \in permits
           /\ d \in permits \ permits' => ledger[d] = "ENDED"
           /\ \/ ledger'[d] = ledger[d]
              \/ ledger[d] = "UNKNOWN" /\ ledger'[d] = "ENDED" /\ d \notin Accounted,
         \A a \in Direct :
           \/ rec'[a] = rec[a] /\ (a \in permits' <=> a \in permits)
           \/ /\ a \in permits \ permits' /\ a \notin Accounted
              /\ rec'[a].epoch <= rec[a].epoch /\ Recorded(a)'
  PROVE  Core'
<1>1. UNCHANGED <<pc, gen, future, bound, detached>>
  BY DEF proxyVars
<1>2. /\ Attempts /\ Epochs /\ ComputeKnown /\ RowKept /\ Callers
      /\ row.epoch \in Nat /\ view.epoch \in Nat /\ view'.epoch \in Nat
      /\ \A a \in Attempt : rec[a].epoch \in Nat /\ rec'[a].epoch \in Nat
  BY EndpointAssumption DEF EndpointAssumption, Core, Rows, Attempts, PoolRow
<1>3. Accounted' = Accounted /\ \A a \in Accounted : a \in Attempt
  BY DEF Accounted, Computing
<1>4. \A a \in Attempt :
        /\ rec'[a].epoch <= rec[a].epoch
        /\ a \in Accounted => rec'[a].epoch = rec[a].epoch
  BY <1>2, Parts
<1>5. Epochs'
  <2>1. \A a \in Attempt : rec'[a].epoch <= row.epoch
    BY <1>2, <1>4 DEF Epochs
  <2>2. \A a \in Direct : api.up => rec'[a].epoch <= view'.epoch
    BY <1>2, <1>4, Parts DEF Epochs
  <2> QED
    BY <1>2, <2>1, <2>2 DEF Epochs
<1>6. ComputeKnown'
  BY <1>2, <1>3, <1>4 DEF ComputeKnown, Serves
<1>7. RowKept'
  <2>1. \A a \in Accounted \cap Direct : a \in permits => a \in permits'
    OBVIOUS
  <2> QED
    BY <1>2, <1>3, <2>1 DEF RowKept
<1>8. ASSUME NEW d \in Durable
      PROVE  DurableStage(d)' /\ DurableHeld(d)'
  <2>1. DurableStage(d) /\ DurableHeld(d) /\ d \in Attempt
    BY Parts DEF Core
  <2>2. Serves(d)' <=> Serves(d)
    BY DEF Serves
  <2>3. DurableStage(d)'
    BY <2>1 DEF DurableStage
  <2>4. DurableHeld(d)'
    BY <1>3, <2>1, <2>2 DEF DurableHeld, DurableStage, MaySend, LedgerHeld
  <2> QED
    BY <2>3, <2>4
<1>9. ASSUME NEW r \in Request
      PROVE  Generations(r)' /\ Settled(r)'
  <2>1. Generations(r) /\ Settled(r) /\ \A g \in Generation : <<r, g>> \in Direct
    BY Parts DEF Core
  <2>2. \A g \in Generation : <<r, g>> \in permits' =>
          <<r, g>> \in permits /\ rec'[<<r, g>>] = rec[<<r, g>>]
    BY <2>1
  <2>3. Generations(r)'
    BY <1>1, <1>3, <2>1, <2>2 DEF Generations, Current
  <2> QED
    BY <1>1, <2>1, <2>2, <2>3 DEF Settled
<1>10. ASSUME NEW a \in Direct
       PROVE  Recorded(a)'
  <2>1. Recorded(a) /\ a \in Attempt
    BY Parts DEF Core
  <2> QED
    BY <2>1 DEF Recorded
<1>11. Callers'
  BY <1>1, <1>2 DEF Callers
<1> QED
  BY <1>5, <1>6, <1>7, <1>8, <1>9, <1>10, <1>11 DEF Core

\* A round goes on by asking about lost attempts, or ends.
LEMMA RoundGoesOn ==
  ASSUME Upkeep, permits' \subseteq Attempt, EnterReconcile \/ EnterSettle
  PROVE  Upkeep' /\ task'.step # "RECONCILING"
<1>1. \A step \in Step : /\ At(step).step = step /\ At(step).ids = {}
                         /\ DOMAIN At(step).live = {}
  BY DEF At
<1>2. \/ streak' = streak \/ streak' = NoStreak
  BY DEF EnterReconcile, EnterSettle, Goto
<1>3. \/ task' = At("REFRESH") \/ task' = At("RECONCILE")
      \/ task' = [At("PROBING") EXCEPT !.ids = LostPermits']
  BY DEF EnterReconcile, EnterSettle, Goto
<1>4. /\ task'.step \in {"REFRESH", "RECONCILE", "PROBING"} /\ DOMAIN task'.live = {}
      /\ task'.ids = {} \/ task'.ids = LostPermits'
  BY <1>3 DEF At
<1>5. LostPermits' \subseteq permits'
  BY DEF LostPermits
<1>6. 0 \in 0..MaxEpoch
  BY EndpointAssumption DEF EndpointAssumption
<1> QED
  BY <1>2, <1>4, <1>5, <1>6 DEF Upkeep, Step, NoStreak

\* What a refresh releases belongs to a process that has stopped.
LEMMA RefreshKeeps ==
  ASSUME Core, Refresh, UNCHANGED proxyVars
  PROVE  Core'
<1> DEFINE moved == view.epoch # row.epoch
           stale == {a \in permits \cap Direct : moved /\ rec[a].epoch # row.epoch}
<1> USE DEF Record
<1>1. /\ UNCHANGED <<row, ledger, engine, wire, stray, orphans, forfeited, exec, calls, expired>>
      /\ api.up /\ view' = row /\ owner' = [owner EXCEPT !.live = TRUE]
      /\ permits' = permits \ stale
      /\ rec' = [a \in Attempt |->
           IF a \notin stale THEN rec[a]
           ELSE IF rec[a].state = "RESERVED" THEN Final("FAILED_NOT_SENT")
           ELSE [rec[a] EXCEPT !.state = "FAILED_RECOVERABLE"]]
      /\ api' = [api EXCEPT !.ready = TRUE,
                            !.dirty = @ /\ ~(moved /\ row.health = "HEALTHY")]
      /\ \/ Goto("PROBE_SLOTS") /\ UNCHANGED streak
         \/ EnterReconcile
  BY DEF Refresh, Release, clients
<1>2. /\ Rows /\ Attempts /\ Upkeep /\ Epochs /\ ComputeKnown /\ RowKept
      /\ row \in PoolRow /\ view \in PoolRow /\ engine.process \in Nat
      /\ MaxEpoch \in Nat /\ rec \in [Attempt -> Record]
  BY EndpointAssumption DEF EndpointAssumption, Core, Rows, Attempts
<1>3. Rows'
  BY <1>1, <1>2 DEF Rows
<1>4. \A a \in stale : a \in Direct /\ a \in Attempt /\ a \in permits /\ moved
  BY Parts
<1>5. rec' \in [Attempt -> Record]
  <2>1. Final("FAILED_NOT_SENT") \in Record
    BY <1>2 DEF Final, PermitState, PermitEnd
  <2>2. \A a \in Attempt : [rec[a] EXCEPT !.state = "FAILED_RECOVERABLE"] \in Record
    BY <1>2 DEF PermitState, PermitEnd
  <2> QED
    BY <1>1, <1>2, <2>1, <2>2
<1>6. Attempts'
  BY <1>1, <1>2, <1>5 DEF Attempts
<1>7. Upkeep' /\ task'.step # "RECONCILING"
  <2>1. CASE Goto("PROBE_SLOTS") /\ UNCHANGED streak
    BY <1>2, <2>1 DEF Goto, At, Upkeep, Step
  <2>2. CASE EnterReconcile
    BY <1>2, <1>6, <2>2, RoundGoesOn DEF Attempts
  <2> QED
    BY <1>1, <2>1, <2>2
<1>8. Reconciling'
  BY <1>7 DEF Reconciling
<1>9. view.epoch \in Nat /\ row.epoch \in Nat /\ view.epoch <= row.epoch /\ row.epoch <= engine.process
  BY <1>2 DEF PoolRow, Epochs
<1>10. ASSUME moved, NEW a \in Direct
       PROVE  a \notin Accounted /\ rec[a].epoch # engine.process
  <2>1. rec[a].epoch \in Nat /\ rec[a].epoch <= view.epoch
    BY <1>1, <1>2, Parts DEF Epochs
  <2> QED
    BY <1>2, <1>9, <1>10, <2>1 DEF ComputeKnown, Serves
<1>11. ASSUME NEW d \in Durable
       PROVE  rec'[d].epoch = rec[d].epoch /\ (d \in permits' <=> d \in permits)
  BY <1>1, <1>4, <1>11, Parts
<1>12. ASSUME NEW a \in Direct
       PROVE  \/ rec'[a] = rec[a] /\ (a \in permits' <=> a \in permits)
              \/ /\ a \in permits \ permits' /\ a \notin Accounted
                 /\ rec'[a].epoch <= rec[a].epoch /\ Recorded(a)'
  <2>1. a \in Attempt /\ Recorded(a) /\ rec[a] \in Record
    BY <1>2, Parts DEF Core
  <2>2. CASE a \notin stale
    BY <1>1, <2>1, <2>2
  <2>3. CASE a \in stale
    <3>1. a \in permits \ permits' /\ a \notin Accounted /\ rec[a].epoch # engine.process
      BY <1>1, <1>4, <1>10, <2>3
    <3>2. CASE rec[a].state = "RESERVED"
      <4>1. rec'[a] = Final("FAILED_NOT_SENT")
        BY <1>1, <2>1, <2>3, <3>2
      <4>2. rec'[a].state = "FAILED_NOT_SENT" /\ rec'[a].epoch = 0
        BY <4>1 DEF Final
      <4>3. wire[a] = "NONE" /\ rec[a].epoch \in Nat
        BY <1>2, <2>1, <3>2 DEF Recorded
      <4> QED
        BY <1>1, <3>1, <4>2, <4>3 DEF Recorded
    <3>3. CASE rec[a].state # "RESERVED"
      <4>1. rec'[a] = [rec[a] EXCEPT !.state = "FAILED_RECOVERABLE"]
        BY <1>1, <2>1, <2>3, <3>3
      <4>2. /\ rec'[a].state = "FAILED_RECOVERABLE" /\ rec'[a].epoch = rec[a].epoch
            /\ rec'[a].idle = rec[a].idle /\ rec[a].epoch \in Nat
        BY <1>2, <2>1, <4>1
      <4>3. ~rec[a].idle
        BY <2>1, <3>1 DEF Recorded
      <4> QED
        BY <1>1, <3>1, <4>2, <4>3 DEF Recorded
    <3> QED
      BY <3>2, <3>3
  <2> QED
    BY <2>2, <2>3
<1>13. owner'.exists = owner.exists /\ api'.up = api.up /\ api'.boot = api.boot
  BY <1>1, <1>2 DEF Rows
<1>14. api.dirty /\ ~api'.dirty => moved
  BY <1>1, <1>2 DEF Rows
<1>15. api.up /\ api.dirty /\ ~api'.dirty => Accounted \cap Direct \subseteq permits
  BY <1>10, <1>14
<1>16. view'.epoch = row.epoch
  BY <1>1
<1> HIDE DEF stale, moved
<1>17. UNCHANGED <<row, engine, wire, stray, orphans, forfeited, exec, calls, proxyVars>>
  BY <1>1
<1>18. \A d \in Durable :
           /\ rec'[d].epoch = rec[d].epoch
           /\ d \in permits' => d \in permits
           /\ d \in permits \ permits' => ledger[d] = "ENDED"
           /\ \/ ledger'[d] = ledger[d]
              \/ ledger[d] = "UNKNOWN" /\ ledger'[d] = "ENDED" /\ d \notin Accounted
  BY <1>1, <1>11
<1> QED
  BY <1>3, <1>6, <1>7, <1>8, <1>9, <1>12, <1>13, <1>15, <1>16, <1>17, <1>18, MaintenanceKeeps

\* Failed refreshes, probes of a dirty endpoint and the end of its block release nothing.
LEMMA ProbesKeep ==
  ASSUME Core, RefreshFails \/ ProbeDirty \/ ExpireDirty \/ ReconcileQuery, UNCHANGED proxyVars
  PROVE  Core'
<1>1. /\ UNCHANGED <<row, owner, ledger, engine, wire, stray, orphans, forfeited, exec, calls, expired>>
      /\ UNCHANGED <<view, permits, rec>>
  BY DEF RefreshFails, ProbeDirty, ExpireDirty, ReconcileQuery, world, clients
<1>2. /\ Rows /\ Attempts /\ Upkeep /\ Reconciling /\ view.epoch <= row.epoch
      /\ view.epoch \in Nat /\ permits \subseteq Attempt
      /\ api \in [up : BOOLEAN, ready : BOOLEAN, dirty : BOOLEAN, idle : 0..1,
                  boot : 0..MaxBoot, outage : 0..MaxOutage]
      /\ MaxOutage \in Nat
  BY EndpointAssumption DEF EndpointAssumption, Core, Epochs, Rows, Attempts, PoolRow
<1>3. /\ api' \in [up : BOOLEAN, ready : BOOLEAN, dirty : BOOLEAN, idle : 0..1,
                   boot : 0..MaxBoot, outage : 0..MaxOutage]
      /\ api'.up = api.up /\ api'.boot = api.boot
      /\ api.up /\ api.dirty /\ ~api'.dirty => Accounted \cap Direct \subseteq permits
  <2>1. CASE RefreshFails
    <3>1. api' = [api EXCEPT !.ready = FALSE, !.outage = @ + 1] /\ api.outage < MaxOutage
      BY <2>1 DEF RefreshFails
    <3>2. api.outage + 1 \in 0..MaxOutage
      BY <1>2, <3>1
    <3>3. api'.up = api.up /\ api'.boot = api.boot /\ api'.dirty = api.dirty
      BY <1>2, <3>1
    <3> QED
      BY <1>2, <3>1, <3>2, <3>3
  <2>2. CASE ProbeDirty
    <3>1. api' = IF ~SlotsIdle THEN [api EXCEPT !.idle = 0]
                 ELSE IF api.idle = 0 THEN [api EXCEPT !.idle = 1]
                 ELSE [api EXCEPT !.dirty = FALSE]
      BY <2>2 DEF ProbeDirty
    <3>2. SlotsIdle => Accounted = {}
      BY DEF SlotsIdle, Accounted
    <3>3. /\ api' \in [up : BOOLEAN, ready : BOOLEAN, dirty : BOOLEAN, idle : 0..1,
                       boot : 0..MaxBoot, outage : 0..MaxOutage]
          /\ api'.up = api.up /\ api'.boot = api.boot
      <4>1. CASE api' = [api EXCEPT !.idle = 0]
        BY <1>2, <4>1
      <4>2. CASE api' = [api EXCEPT !.idle = 1]
        BY <1>2, <4>2
      <4>3. CASE api' = [api EXCEPT !.dirty = FALSE]
        BY <1>2, <4>3
      <4> QED
        BY <3>1, <4>1, <4>2, <4>3
    <3>4. ~SlotsIdle => api'.dirty = api.dirty
      BY <1>2, <3>1
    <3> QED
      BY <3>2, <3>3, <3>4
  <2>3. CASE ExpireDirty
    <3>1. api' = [api EXCEPT !.dirty = FALSE] /\ Computing \cap Direct \subseteq permits
      BY <2>3 DEF ExpireDirty
    <3> QED
      BY <1>2, <3>1 DEF Accounted
  <2>4. CASE ReconcileQuery
    BY <1>2, <2>4 DEF ReconcileQuery
  <2> QED
    BY <2>1, <2>2, <2>3, <2>4
<1>4. Rows' /\ Attempts'
  BY <1>1, <1>2, <1>3 DEF Rows, Attempts
<1>5. Upkeep' /\ Reconciling'
  <2>1. CASE ReconcileQuery
    <3>1. task' = [step |-> "RECONCILING", ids |-> DurablePermits,
                   live |-> [d \in LiveInLedger |-> Observed(ledger[d])]]
          /\ UNCHANGED streak
      BY <2>1 DEF ReconcileQuery
    <3>2. /\ task'.step = "RECONCILING" /\ task'.ids = DurablePermits
          /\ DOMAIN task'.live = LiveInLedger
          /\ \A d \in LiveInLedger : task'.live[d] = Observed(ledger[d])
      BY <3>1
    <3>3. /\ DurablePermits \subseteq Durable /\ DurablePermits \subseteq Attempt
          /\ LiveInLedger \subseteq DurablePermits
      BY <1>2 DEF DurablePermits, LiveInLedger
    <3>4. Upkeep'
      BY <1>2, <3>1, <3>2, <3>3 DEF Upkeep, Step, Observed
    <3>5. \A d \in DurablePermits \ LiveInLedger : ledger[d] = "ENDED"
      BY <1>2 DEF Core, DurableStage, DurablePermits, LiveInLedger, Attempts, LedgerState
    <3> QED
      BY <1>1, <3>2, <3>3, <3>4, <3>5 DEF Reconciling
  <2>2. CASE ProbeDirty
    <3>1. Upkeep' /\ task'.step # "RECONCILING"
      BY <1>1, <1>2, <2>2, RoundGoesOn DEF ProbeDirty
    <3> QED
      BY <3>1 DEF Reconciling
  <2>3. CASE RefreshFails \/ ExpireDirty
    BY <1>1, <1>2, <2>3 DEF RefreshFails, ExpireDirty, Upkeep, Reconciling
  <2> QED
    BY <2>1, <2>2, <2>3
<1>6. view'.epoch = view.epoch /\ view.epoch <= view.epoch
  BY <1>1, <1>2
<1>7. UNCHANGED <<row, engine, wire, stray, orphans, forfeited, exec, calls, proxyVars>>
  BY <1>1
<1> QED
  BY <1>1, <1>2, <1>3, <1>4, <1>5, <1>6, <1>7, MaintenanceKeeps

\* The ledger has ended what the round releases; what it holds the engine may compute.
LEMMA ReconcileKeeps ==
  ASSUME Core, ReconcileApply, UNCHANGED proxyVars
  PROVE  Core'
<1> USE DEF Record
<1> DEFINE gone == DOMAIN task.live \ permits
<1>1. PICK done \in SUBSET (task.ids \ gone) :
        /\ permits' = permits \ (done \ DOMAIN task.live)
        /\ rec' = [a \in Attempt |-> IF a \in done \cap DOMAIN task.live
                    THEN [rec[a] EXCEPT !.state = task.live[a]] ELSE Kept(a, done)]
        /\ api' = [api EXCEPT !.ready = @ /\ gone = {}]
        /\ EnterSettle \/ (Goto("REFRESH") /\ UNCHANGED <<streak, line>>)
  BY DEF ReconcileApply, Release
<1>2. /\ UNCHANGED <<row, owner, ledger, engine, wire, stray, orphans, forfeited, exec, calls, expired, view>>
      /\ task.step = "RECONCILING"
  BY DEF ReconcileApply, world, clients
<1>3. /\ Rows /\ Attempts /\ Upkeep /\ view.epoch <= row.epoch /\ view.epoch \in Nat
      /\ permits \subseteq Attempt /\ rec \in [Attempt -> Record]
      /\ api \in [up : BOOLEAN, ready : BOOLEAN, dirty : BOOLEAN, idle : 0..1,
                  boot : 0..MaxBoot, outage : 0..MaxOutage]
      /\ done \subseteq task.ids /\ task.ids \subseteq Durable
      /\ \A d \in task.ids \ DOMAIN task.live : ledger[d] = "ENDED"
      /\ \A d \in DOMAIN task.live : task.live[d] \in {"RESERVED", "UNKNOWN"}
  BY <1>2, EndpointAssumption
     DEF EndpointAssumption, Core, Epochs, Rows, Attempts, PoolRow, Upkeep, Reconciling
<1>4. /\ api' \in [up : BOOLEAN, ready : BOOLEAN, dirty : BOOLEAN, idle : 0..1,
                   boot : 0..MaxBoot, outage : 0..MaxOutage]
      /\ api'.up = api.up /\ api'.boot = api.boot /\ api'.dirty = api.dirty
  BY <1>1, <1>3
<1>5. Rows'
  BY <1>2, <1>3, <1>4 DEF Rows
<1>6. ASSUME NEW a \in Attempt
      PROVE  /\ rec'[a] \in Record /\ rec'[a].epoch = rec[a].epoch
             /\ a \notin Durable => rec'[a] = rec[a]
  <2>1. \A s \in PermitState : [rec[a] EXCEPT !.state = s] \in Record
    BY <1>3
  <2>2. rec'[a] = IF a \in done \cap DOMAIN task.live
                  THEN [rec[a] EXCEPT !.state = task.live[a]] ELSE Kept(a, done)
    BY <1>1
  <2>3. a \in DOMAIN task.live => task.live[a] \in PermitState
    BY <1>3 DEF PermitState
  <2> QED
    BY <1>3, <2>1, <2>2, <2>3 DEF Kept, PermitState
<1>7. rec' \in [Attempt -> Record]
  <2>1. rec' = [a \in Attempt |-> rec'[a]]
    BY <1>1
  <2> QED
    BY <1>6, <2>1
<1>8. Attempts'
  BY <1>1, <1>2, <1>3, <1>7 DEF Attempts
<1>9. Upkeep' /\ task'.step # "RECONCILING"
  <2>1. CASE EnterSettle
    BY <1>3, <1>8, <2>1, RoundGoesOn DEF Attempts
  <2>2. CASE Goto("REFRESH") /\ UNCHANGED streak
    BY <1>3, <2>2 DEF Goto, At, Upkeep, Step
  <2> QED
    BY <1>1, <2>1, <2>2
<1>10. Reconciling'
  BY <1>9 DEF Reconciling
<1>11. ASSUME NEW d \in Durable
       PROVE  /\ rec'[d].epoch = rec[d].epoch
              /\ d \in permits' => d \in permits
              /\ d \in permits \ permits' => ledger[d] = "ENDED"
  BY <1>1, <1>3, <1>6, Parts
<1>12. \A a \in Direct : rec'[a] = rec[a] /\ (a \in permits' <=> a \in permits)
  BY <1>1, <1>3, <1>6, Parts
<1>13. view'.epoch = view.epoch /\ view.epoch <= view.epoch /\ owner'.exists = owner.exists
  BY <1>2, <1>3
<1>14. UNCHANGED <<row, engine, wire, stray, orphans, forfeited, exec, calls, proxyVars>>
  BY <1>2
<1> QED
  BY <1>2, <1>3, <1>4, <1>5, <1>8, <1>9, <1>10, <1>11, <1>12, <1>13, <1>14, MaintenanceKeeps

\* Idle slots prove that nothing is computed, and a lost request is not on its way.
LEMMA SettleKeeps ==
  ASSUME Core, SettleAnswer, UNCHANGED proxyVars
  PROVE  Core'
<1> USE DEF Record
<1> DEFINE again == streak.ids # {} /\ streak.epoch = view.epoch
           proven == IF again THEN streak.ids \cap task.ids ELSE task.ids
           over == IF again /\ SlotsIdle THEN proven \cap LostPermits ELSE {}
           direct == {a \in over \cap Direct : rec[a].epoch = view.epoch}
<1>1. /\ streak' = (IF SlotsIdle /\ ~again THEN [epoch |-> view.epoch, ids |-> proven]
                    ELSE NoStreak)
      /\ permits' = permits \ direct
      /\ rec' = [a \in Attempt |-> IF a \in direct
                  THEN [rec[a] EXCEPT !.state = "FAILED_RECOVERABLE", !.idle = TRUE]
                  ELSE rec[a]]
      /\ ledger' = [d \in Durable |->
           IF /\ d \in over /\ ledger[d] = "UNKNOWN"
              /\ row.epoch = view.epoch /\ rec[d].epoch = view.epoch
           THEN "ENDED" ELSE ledger[d]]
      /\ task' = At("REFRESH")
      /\ UNCHANGED <<row, owner, engine, wire, stray, orphans, forfeited, api, view, exec, calls, expired>>
  BY DEF SettleAnswer, Release, Goto, clients
<1>2. /\ Rows /\ Attempts /\ Upkeep /\ view.epoch <= row.epoch /\ view.epoch \in 0..MaxEpoch
      /\ view.epoch \in Nat
      /\ permits \subseteq Attempt /\ rec \in [Attempt -> Record] /\ ledger \in [Durable -> LedgerState]
      /\ 0 \in 0..MaxEpoch
  BY EndpointAssumption DEF EndpointAssumption, Core, Epochs, Rows, Attempts, PoolRow
<1>3. Rows'
  BY <1>1, <1>2 DEF Rows
<1>4. \A a \in Attempt : [rec[a] EXCEPT !.state = "FAILED_RECOVERABLE", !.idle = TRUE] \in Record
  BY <1>2 DEF PermitState, PermitEnd
<1>5. Attempts'
  <2>1. rec' \in [Attempt -> Record]
    BY <1>1, <1>2, <1>4
  <2>2. ledger' \in [Durable -> LedgerState]
    BY <1>1, <1>2 DEF LedgerState
  <2> QED
    BY <1>1, <1>2, <2>1, <2>2 DEF Attempts
<1>6. Upkeep' /\ Reconciling'
  <2>1. /\ task'.step = "REFRESH" /\ task'.ids = {} /\ DOMAIN task'.live = {}
    BY <1>1 DEF At
  <2>2. proven \subseteq Attempt
    BY <1>2 DEF Upkeep
  <2>3. streak'.epoch \in 0..MaxEpoch /\ streak'.ids \subseteq Attempt
    BY <1>1, <1>2, <2>2 DEF NoStreak
  <2> QED
    BY <2>1, <2>3 DEF Upkeep, Reconciling, Step
<1>7. over # {} => Accounted = {} /\ engine.up
  BY DEF SlotsIdle, Accounted
<1>8. \A a \in over : a \in permits /\ rec[a].state = "UNKNOWN"
  BY DEF LostPermits
<1> HIDE DEF over
<1>9. ASSUME NEW d \in Durable
      PROVE  /\ rec'[d].epoch = rec[d].epoch
             /\ d \in permits' => d \in permits
             /\ d \in permits \ permits' => ledger[d] = "ENDED"
             /\ \/ ledger'[d] = ledger[d]
                \/ ledger[d] = "UNKNOWN" /\ ledger'[d] = "ENDED" /\ d \notin Accounted
  BY <1>1, <1>7, Parts
<1>10. ASSUME NEW a \in Direct
       PROVE  \/ rec'[a] = rec[a] /\ (a \in permits' <=> a \in permits)
              \/ /\ a \in permits \ permits' /\ a \notin Accounted
                 /\ rec'[a].epoch <= rec[a].epoch /\ Recorded(a)'
  <2>1. a \in Attempt /\ Recorded(a) /\ rec[a] \in Record
    BY <1>2, Parts DEF Core
  <2>2. CASE a \notin direct
    BY <1>1, <2>1, <2>2
  <2>3. CASE a \in direct
    <3>1. /\ a \in permits \ permits' /\ a \notin Accounted /\ wire[a] # "SENT"
          /\ rec[a].epoch \in Nat
      BY <1>1, <1>2, <1>7, <1>8, <2>1, <2>3 DEF Recorded
    <3>2. wire[a] # "COMPUTING"
      BY <1>2, <2>1, <2>3 DEF over, SlotsIdle, Computing
    <3>3. rec'[a] = [rec[a] EXCEPT !.state = "FAILED_RECOVERABLE", !.idle = TRUE]
      BY <1>1, <2>1, <2>3
    <3>4. rec'[a].state = "FAILED_RECOVERABLE" /\ rec'[a].epoch = rec[a].epoch
      BY <2>1, <3>3
    <3>5. Recorded(a)'
      BY <1>1, <3>1, <3>2, <3>4 DEF Recorded
    <3>6. rec'[a].epoch <= rec[a].epoch
      BY <3>1, <3>4
    <3> QED
      BY <3>1, <3>5, <3>6
  <2> QED
    BY <2>2, <2>3
<1>11. view' = view /\ owner' = owner /\ api' = api
  BY <1>1
<1>13. view.epoch <= view.epoch
  BY <1>2
<1>12. UNCHANGED <<row, engine, wire, stray, orphans, forfeited, exec, calls, proxyVars>>
  BY <1>1
<1> HIDE DEF direct, proven, again
<1> QED
  BY <1>2, <1>3, <1>5, <1>6, <1>9, <1>10, <1>11, <1>12, <1>13, MaintenanceKeeps

-----------------------------------------------------------------------------
(* The life of runtime-api.                                                *)

LEMMA OwnerLapseKeeps ==
  ASSUME Core, OwnerLapse, UNCHANGED proxyVars
  PROVE  Core'
<1>1. /\ UNCHANGED <<row, ledger, engine, wire, stray, orphans, forfeited, exec, calls, expired>>
      /\ UNCHANGED <<api, view, permits, rec, task, streak>>
      /\ owner' = [owner EXCEPT !.live = FALSE]
  BY DEF OwnerLapse, ram, clients
<1>2. /\ Rows /\ Attempts /\ Upkeep /\ Reconciling /\ view.epoch <= row.epoch /\ view.epoch \in Nat
      /\ owner \in [exists : BOOLEAN, live : BOOLEAN]
  BY EndpointAssumption DEF EndpointAssumption, Core, Epochs, Rows, PoolRow
<1>3. owner' \in [exists : BOOLEAN, live : BOOLEAN] /\ owner'.exists = owner.exists
  BY <1>1, <1>2
<1>4. Rows' /\ Attempts' /\ Upkeep' /\ Reconciling'
  BY <1>1, <1>2, <1>3 DEF Rows, Attempts, Upkeep, Reconciling
<1>5. view.epoch <= view.epoch
  BY <1>2
<1> QED
  BY <1>1, <1>2, <1>3, <1>4, <1>5, MaintenanceKeeps

\* The row goes with the process only when no direct request it sent is computed, or
\* it does not know of it any more.
LEMMA ApiEndsKeeps ==
  ASSUME Core, ApiEnds
  PROVE  Core'
<1> USE DEF Record
<1>1. /\ UNCHANGED <<row, ledger, engine, stray, exec, expired, gen, bound, detached>>
      /\ permits' = {} /\ streak' = NoStreak /\ task' = At("REFRESH")
      /\ rec' = [a \in Attempt |-> [NoPermit EXCEPT !.epoch = rec[a].epoch]]
      /\ api' = [api EXCEPT !.up = FALSE, !.ready = FALSE, !.dirty = FALSE, !.idle = 0]
      /\ calls' = [d \in Durable |-> NoCall]
      /\ view' = [epoch |-> 0, health |-> "HEALTHY"]
      /\ wire' = [a \in Attempt |->
           IF a \in Direct /\ wire[a] \in {"SENT", "ANSWERED"} THEN "CLOSED" ELSE wire[a]]
      /\ pc' = [r \in Request |-> IF pc[r] = "IDLE" THEN "IDLE" ELSE "END"]
      /\ future' = [r \in Request |-> "NONE"]
      /\ api.up /\ api.boot < MaxBoot
      /\ forfeited' = forfeited \cup {d \in Durable \ permits : MayBeSent(d)}
  BY DEF ApiEnds, Crash, Shutdown, Forget, HangUp, Goto, Forfeit
<1>2. /\ Rows /\ Attempts /\ Upkeep /\ Callers /\ Epochs /\ ComputeKnown /\ RowKept
      /\ MaxEpoch \in Nat /\ 0 \in 0..MaxEpoch /\ MaxCalls \in Nat /\ 0 \in 0..MaxCalls
      /\ row.epoch \in Nat
      /\ rec \in [Attempt -> Record] /\ wire \in [Attempt -> Wire]
      /\ api \in [up : BOOLEAN, ready : BOOLEAN, dirty : BOOLEAN, idle : 0..1,
                  boot : 0..MaxBoot, outage : 0..MaxOutage]
  BY EndpointAssumption DEF EndpointAssumption, Core, Rows, Attempts, PoolRow
<1>3. /\ owner' \in [exists : BOOLEAN, live : BOOLEAN] /\ orphans' \subseteq Direct
      /\ ~owner'.exists => Accounted \cap Direct \subseteq orphans'
  <2>1. CASE Crash
    BY <1>1, <1>2, <2>1 DEF Crash, Rows, RowKept
  <2>2. CASE Shutdown
    <3>1. /\ owner' = [owner EXCEPT !.exists =
               \E a \in permits \cap Direct : rec[a].state \in {"SEND_INTENT", "UNKNOWN"}]
          /\ orphans' = IF owner'.exists THEN orphans
                        ELSE orphans \cup ((Computing \cap Direct) \ permits)
      BY <2>2 DEF Shutdown
    <3>2. /\ owner' \in [exists : BOOLEAN, live : BOOLEAN]
          /\ owner'.exists <=>
               \E a \in permits \cap Direct : rec[a].state \in {"SEND_INTENT", "UNKNOWN"}
      BY <1>2, <3>1 DEF Rows
    <3>3. ASSUME ~owner'.exists, NEW a \in Accounted \cap Direct
          PROVE  a \in orphans'
      <4>1. a \in Computing /\ wire[a] = "COMPUTING" /\ Recorded(a)
        BY <3>3 DEF Accounted, Computing, Core
      <4>2. a \notin permits
        BY <3>2, <3>3, <4>1 DEF Recorded
      <4> QED
        BY <3>1, <3>3, <4>1, <4>2
    <3> QED
      BY <1>2, <3>1, <3>2, <3>3 DEF Rows
  <2> QED
    BY <2>1, <2>2 DEF ApiEnds
<1>4. api' \in [up : BOOLEAN, ready : BOOLEAN, dirty : BOOLEAN, idle : 0..1,
                boot : 0..MaxBoot, outage : 0..MaxOutage]
      /\ ~api'.up /\ api'.boot = api.boot
  <2>1. /\ api.boot \in 0..MaxBoot /\ api.outage \in 0..MaxOutage /\ 0 \in 0..1
    BY <1>2
  <2>2. api' = [up |-> FALSE, ready |-> FALSE, dirty |-> FALSE, idle |-> 0,
                boot |-> api.boot, outage |-> api.outage]
    BY <1>1, <1>2
  <2> QED
    BY <2>1, <2>2
<1>5. Rows'
  BY <1>1, <1>2, <1>3, <1>4 DEF Rows, PoolRow, Health
<1>6. ASSUME NEW a \in Attempt
      PROVE  /\ wire'[a] \in Wire /\ (a \notin Direct => wire'[a] = wire[a])
             /\ a \in Direct => wire'[a] # "SENT"
             /\ wire[a] = "NONE" => wire'[a] = "NONE"
             /\ wire'[a] = "NONE" => wire[a] = "NONE"
             /\ wire'[a] = "COMPUTING" <=> wire[a] = "COMPUTING"
             /\ rec'[a] \in Record /\ rec'[a].epoch = rec[a].epoch /\ rec'[a].state = "NONE"
  <2>1. wire'[a] = IF a \in Direct /\ wire[a] \in {"SENT", "ANSWERED"} THEN "CLOSED" ELSE wire[a]
    BY <1>1
  <2>2. rec'[a] = [state |-> "NONE", epoch |-> rec[a].epoch, idle |-> FALSE]
    BY <1>1 DEF NoPermit
  <2>3. wire[a] \in Wire /\ rec[a].epoch \in 0..MaxEpoch
    BY <1>2
  <2> QED
    BY <2>1, <2>2, <2>3 DEF Wire, PermitState
<1>7. Attempts'
  <2>1. wire' \in [Attempt -> Wire]
    BY <1>1, <1>2 DEF Wire
  <2>2. rec' \in [Attempt -> Record]
    BY <1>1, <1>2 DEF NoPermit, PermitState
  <2>3. calls' \in [Durable -> [open : 0..MaxCalls, heard : BOOLEAN]]
    BY <1>1, <1>2 DEF NoCall
  <2> QED
    BY <1>1, <1>2, <2>1, <2>2, <2>3 DEF Attempts
<1>8. Upkeep' /\ Reconciling'
  <2>1. /\ task'.step = "REFRESH" /\ task'.ids = {} /\ DOMAIN task'.live = {}
    BY <1>1 DEF At
  <2> QED
    BY <1>1, <1>2, <2>1 DEF Upkeep, Reconciling, Step, NoStreak
<1>9. Callers'
  BY <1>1, <1>2 DEF Callers, PC, Future
<1>10. Accounted' = Accounted
  BY <1>1, <1>6 DEF Accounted, Computing
<1>11. Epochs'
  BY <1>1, <1>2, <1>4, <1>6, Parts DEF Epochs
<1>12. ComputeKnown'
  <2>1. \A a \in Accounted : a \in Attempt
    BY DEF Accounted, Computing
  <2> QED
    BY <1>1, <1>2, <1>6, <1>10, <2>1 DEF ComputeKnown, Serves
<1>13. RowKept'
  BY <1>1, <1>3, <1>4, <1>10 DEF RowKept
<1>14. ASSUME NEW d \in Durable
       PROVE  DurableStage(d)' /\ DurableHeld(d)'
  <2>1. DurableStage(d) /\ DurableHeld(d) /\ d \in Attempt /\ wire'[d] = wire[d]
        /\ calls'[d] = NoCall /\ rec'[d].epoch = rec[d].epoch
    BY <1>1, <1>6, Parts DEF Core
  <2>2. DurableStage(d)'
    BY <1>1, <2>1 DEF DurableStage, NoCall
  <2>3. DurableHeld(d)'
    BY <1>1, <1>4, <1>10, <2>1 DEF DurableHeld, MaySend, Serves
  <2> QED
    BY <2>2, <2>3
<1>15. ASSUME NEW r \in Request
       PROVE  Generations(r)' /\ Settled(r)'
  <2>1. /\ Generations(r) /\ gen[r] \in Generation
        /\ \A g \in Generation : <<r, g>> \in Attempt /\ <<r, g>> \in Direct
    BY Parts DEF Core, Callers
  <2>2. pc'[r] = (IF pc[r] = "IDLE" THEN "IDLE" ELSE "END") /\ future'[r] = "NONE"
    BY <1>1
  <2>3. Generations(r)'
    BY <1>1, <1>6, <1>10, <2>1, <2>2 DEF Generations, Current
  <2> QED
    BY <1>1, <2>3 DEF Settled
<1>16. ASSUME NEW a \in Direct
       PROVE  Recorded(a)'
  BY <1>1, <1>6, Parts DEF Recorded
<1> QED
  BY <1>5, <1>7, <1>8, <1>9, <1>11, <1>12, <1>13, <1>14, <1>15, <1>16 DEF Core

\* Durable permits come back from the ledger, and direct compute is no one's until the
\* endpoint is clean.
LEMMA StartKeeps ==
  ASSUME Core, Start, UNCHANGED proxyVars
  PROVE  Core'
<1> USE DEF Record
<1> DEFINE held == {d \in Durable : ledger[d] \in LedgerHeld}
<1>1. /\ UNCHANGED <<row, ledger, engine, wire, stray, orphans, forfeited, task, streak>>
      /\ UNCHANGED <<exec, calls, expired, pc, gen, future, bound, detached>>
      /\ ~api.up /\ owner' = [exists |-> TRUE, live |-> TRUE] /\ view' = row
      /\ api' = [api EXCEPT !.up = TRUE, !.ready = TRUE, !.dirty = owner.exists, !.boot = @ + 1]
      /\ permits' = held
      /\ rec' = [a \in Attempt |-> IF a \in held
           THEN [rec[a] EXCEPT !.state = Observed(ledger[a])] ELSE rec[a]]
  BY DEF Start, clients, proxyVars
<1>2. /\ Rows /\ Attempts /\ Upkeep /\ Callers /\ Epochs /\ ComputeKnown /\ RowKept /\ Reconciling
      /\ MaxBoot \in Nat /\ row \in PoolRow /\ row.epoch \in Nat
      /\ rec \in [Attempt -> Record]
      /\ api \in [up : BOOLEAN, ready : BOOLEAN, dirty : BOOLEAN, idle : 0..1,
                  boot : 0..MaxBoot, outage : 0..MaxOutage]
      /\ owner \in [exists : BOOLEAN, live : BOOLEAN]
  BY EndpointAssumption DEF EndpointAssumption, Core, Rows, Attempts, PoolRow
<1>3. /\ api' \in [up : BOOLEAN, ready : BOOLEAN, dirty : BOOLEAN, idle : 0..1,
                   boot : 0..MaxBoot, outage : 0..MaxOutage]
      /\ api'.up /\ api'.dirty = owner.exists
  <2>1. api.boot + 1 \in 0..MaxBoot
    BY <1>1, <1>2 DEF RowKept
  <2> QED
    BY <1>1, <1>2, <2>1
<1>4. Rows'
  BY <1>1, <1>2, <1>3 DEF Rows
<1>5. ASSUME NEW a \in Attempt
      PROVE  /\ rec'[a] \in Record /\ rec'[a].epoch = rec[a].epoch
             /\ a \notin Durable => rec'[a] = rec[a]
  BY <1>1, <1>2 DEF Observed, PermitState
<1>6. Attempts'
  <2>1. rec' = [a \in Attempt |-> rec'[a]]
    BY <1>1
  <2>2. rec' \in [Attempt -> Record]
    BY <1>5, <2>1
  <2>3. permits' \subseteq Attempt
    BY <1>1, Parts
  <2> QED
    BY <1>1, <1>2, <2>2, <2>3 DEF Attempts
<1>7. Upkeep' /\ Callers' /\ Reconciling'
  BY <1>1, <1>2 DEF Upkeep, Callers, Reconciling
<1>8. Accounted' = Accounted
  BY <1>1 DEF Accounted, Computing
<1>9. Epochs'
  <2>1. view'.epoch = row.epoch /\ row.epoch <= row.epoch
    BY <1>1, <1>2
  <2> QED
    BY <1>1, <1>2, <1>5, <2>1, Parts DEF Epochs
<1>10. ComputeKnown'
  <2>1. \A a \in Accounted : a \in Attempt
    BY DEF Accounted, Computing
  <2> QED
    BY <1>1, <1>2, <1>5, <1>8, <2>1 DEF ComputeKnown, Serves
<1>11. RowKept'
  BY <1>1, <1>2, <1>3, <1>8 DEF RowKept
<1>12. ASSUME NEW d \in Durable
       PROVE  DurableStage(d)' /\ DurableHeld(d)'
  <2>1. DurableStage(d) /\ DurableHeld(d) /\ d \in Attempt /\ rec'[d].epoch = rec[d].epoch
        /\ (d \in permits' <=> ledger[d] \in LedgerHeld)
    BY <1>1, <1>5, Parts DEF Core
  <2>2. DurableStage(d)'
    BY <1>1, <2>1 DEF DurableStage, LedgerHeld
  <2>3. DurableHeld(d)'
    BY <1>1, <1>8, <2>1 DEF DurableHeld, MaySend, Serves
  <2> QED
    BY <2>2, <2>3
<1>13. \A a \in Direct : a \notin permits'
  BY <1>1, Parts
<1>14. ASSUME NEW r \in Request
       PROVE  /\ Generations(r)' /\ Settled(r)'
              /\ \A g \in Generation : wire[<<r, g>>] # "SENT"
  <2>1. /\ Generations(r) /\ gen[r] \in Generation
        /\ \A g \in Generation : <<r, g>> \in Direct
    BY Parts DEF Core, Callers
  <2>2. Generations(r)' /\ Settled(r)'
    BY <1>1, <1>3, <1>8, <1>13, <2>1 DEF Generations, Settled, Current
  <2>3. ASSUME NEW g \in Generation
        PROVE  wire[<<r, g>>] # "SENT"
    <3>1. CASE g = gen[r]
      BY <1>1, <2>1, <3>1 DEF Generations, Current
    <3>2. CASE g # gen[r]
      BY <2>1, <3>2 DEF Generations, Generation
    <3> QED
      BY <3>1, <3>2
  <2> QED
    BY <2>2, <2>3
<1>15. ASSUME NEW a \in Direct
       PROVE  Recorded(a)'
  <2>1. a \in Attempt /\ a \notin Durable /\ Recorded(a) /\ wire[a] # "SENT"
    BY <1>14, Parts DEF Core
  <2> QED
    BY <1>1, <1>5, <1>13, <2>1 DEF Recorded
<1> QED
  BY <1>4, <1>6, <1>7, <1>9, <1>10, <1>11, <1>12, <1>14, <1>15 DEF Core

-----------------------------------------------------------------------------
(* The queue.                                                              *)

\* How a step changes the line: some leave it, or one joins before or behind others.
Leaves == line' = line \/ line' = {} \/ \E ids \in SUBSET Waiter : Leave(ids)
Before(longer) == longer \subseteq Waiters /\ \A j \in longer : UpTo(j) \subseteq longer
Joins(i) == ~Waiting(i) /\ \E longer \in SUBSET Waiters : Before(longer) /\ Join(i, longer)

LEMMA LeavesKeep ==
  ASSUME LineOK, Leaves
  PROVE  LineOK' /\ \A j \in Waiter : Waiting(j)' => Waiting(j)
<1>1. CASE line' = line
  BY <1>1 DEF LineOK, LinearOrder, Waiting, Waiters, UpTo
<1>2. CASE line' = {}
  BY <1>2 DEF LineOK, LinearOrder, Waiting, Waiters, UpTo
<1>3. ASSUME NEW ids \in SUBSET Waiter, Leave(ids)
      PROVE  LineOK' /\ \A j \in Waiter : Waiting(j)' => Waiting(j)
  <2>1. \A i, j : <<i, j>> \in line' <=> <<i, j>> \in line /\ i \notin ids /\ j \notin ids
    BY <1>3 DEF Leave
  <2>2. line' \subseteq Waiter \X Waiter
    BY <1>3 DEF Leave, LineOK
  <2>3. \A i \in Waiter : Waiting(i)' <=> Waiting(i) /\ i \notin ids
    BY <2>1 DEF Waiting
  <2>4. /\ \A i, j \in Waiter : <<i, j>> \in line' => Waiting(i)' /\ Waiting(j)'
        /\ \A i, j \in Waiters' : <<i, j>> \in line' \/ <<j, i>> \in line'
        /\ \A i, j \in Waiters' : <<i, j>> \in line' /\ <<j, i>> \in line' => i = j
    BY <2>1, <2>3 DEF LineOK, LinearOrder, Waiters
  <2>5. ASSUME NEW i \in Waiters', NEW j \in Waiters', <<i, j>> \in line'
        PROVE  UpTo(i)' \subseteq UpTo(j)'
    <3>1. i \in Waiters /\ j \in Waiters /\ <<i, j>> \in line /\ j \notin ids
      BY <2>1, <2>3, <2>5 DEF Waiters
    <3>2. UpTo(i) \subseteq UpTo(j)
      BY <3>1 DEF LineOK, LinearOrder
    <3>3. \A k \in UpTo(i)' : k \in UpTo(j) /\ k \in Waiters' /\ k \notin ids
      BY <2>1, <2>3, <3>1, <3>2 DEF UpTo, Waiters
    <3> QED
      BY <2>1, <3>1, <3>3 DEF UpTo
  <2> QED
    BY <2>2, <2>3, <2>4, <2>5 DEF LineOK, LinearOrder
<1> QED
  BY <1>1, <1>2, <1>3 DEF Leaves

LEMMA JoinsKeep ==
  ASSUME LineOK, NEW i \in Waiter, Joins(i)
  PROVE  LineOK' /\ \A j \in Waiter \ {i} : Waiting(j)' => Waiting(j)
<1>1. PICK longer \in SUBSET Waiters : Before(longer) /\ Join(i, longer)
  BY DEF Joins
<1>2. ~Waiting(i) /\ i \notin Waiters /\ Waiters \subseteq Waiter
  BY DEF Joins, Waiters
<1>3. \A a, b : <<a, b>> \in line' <=> \/ <<a, b>> \in line
                                       \/ b = i /\ (a \in longer \/ a = i)
                                       \/ a = i /\ b \in Waiters \ longer
  BY <1>1 DEF Join
<1>4. line' \subseteq Waiter \X Waiter
  BY <1>1, <1>2 DEF Join, LineOK
<1>5. /\ \A a, b \in Waiter : <<a, b>> \in line => a \in Waiters /\ b \in Waiters
      /\ \A a \in Waiters : <<a, a>> \in line
      /\ \A a, b \in Waiters : <<a, b>> \in line \/ <<b, a>> \in line
      /\ \A a, b \in Waiters : <<a, b>> \in line /\ <<b, a>> \in line => a = b
      /\ \A a, b, c \in Waiters : <<a, b>> \in line /\ <<b, c>> \in line => <<a, c>> \in line
  BY DEF LineOK, LinearOrder, Waiters, Waiting, UpTo
<1>6. \A a \in Waiter : <<a, a>> \in line' <=> a \in Waiters \/ a = i
  BY <1>1, <1>2, <1>3, <1>5
<1>7. Waiters' = Waiters \cup {i}
  BY <1>2, <1>6 DEF Waiters, Waiting
<1>8. \A a \in longer, b \in Waiters : <<b, a>> \in line => b \in longer
  BY <1>1 DEF Before, UpTo
<1> DEFINE order(a, b) == <<a, b>> \in line'
<1>9. \A a, b \in Waiter : order(a, b) => a \in Waiters' /\ b \in Waiters'
  BY <1>2, <1>3, <1>5, <1>7
<1>10. \A a, b \in Waiters' : order(a, b) \/ order(b, a)
  BY <1>2, <1>3, <1>5, <1>7
<1>11. \A a, b \in Waiters' : order(a, b) /\ order(b, a) => a = b
  BY <1>2, <1>3, <1>5, <1>7
<1>12. \A a, b, c \in Waiters' : order(a, b) /\ order(b, c) => order(a, c)
  <2>1. SUFFICES ASSUME NEW a \in Waiters', NEW b \in Waiters', NEW c \in Waiters',
                        order(a, b), order(b, c)
                 PROVE  order(a, c)
    OBVIOUS
  <2>2. CASE a = i
    BY <1>2, <1>3, <1>5, <1>7, <1>8, <2>1, <2>2
  <2>3. CASE a # i /\ b = i
    BY <1>2, <1>3, <1>5, <1>7, <1>8, <2>1, <2>3
  <2>4. CASE a # i /\ b # i
    BY <1>2, <1>3, <1>5, <1>7, <1>8, <2>1, <2>4
  <2> QED
    BY <2>2, <2>3, <2>4
<1>13. \A a \in Waiters' : Waiting(a)'
  BY DEF Waiters
<1>14. LinearOrder'
  <2>1. \A a, b \in Waiter : order(a, b) => Waiting(a)' /\ Waiting(b)'
    BY <1>9, <1>13
  <2>2. \A a, b \in Waiters' : order(a, b) => UpTo(a)' \subseteq UpTo(b)'
    BY <1>12 DEF UpTo
  <2> QED
    BY <1>10, <1>11, <2>1, <2>2 DEF LinearOrder
<1>15. \A j \in Waiter \ {i} : Waiting(j)' => Waiting(j)
  BY <1>7 DEF Waiters
<1> QED
  BY <1>4, <1>14, <1>15 DEF LineOK

LEMMA DurableQueues ==
  ASSUME Queue, NEW d \in Durable, DurableStep(d), UNCHANGED proxyVars
  PROVE  Queue'
<1>1. LineOK /\ d \in Waiter /\ \A r \in Request : r # d
  BY Parts DEF Queue
<1>2. Leaves \/ Joins(d)
  <2>1. CASE GrantDurable(d)
    <3>1. {d} \cup Ahead(d) \subseteq Waiter
      BY <1>1 DEF Ahead, Waiters
    <3> QED
      BY <2>1, <3>1 DEF GrantDurable, Leaves
  <2>2. CASE Acquire(d)
    <3>1. CASE UNCHANGED line
      BY <3>1 DEF Leaves
    <3>2. CASE ~Waiting(d) /\ \E longer \in {{}} \cup {UpTo(i) : i \in Waiters} : Join(d, longer)
      <4>1. PICK longer \in {{}} \cup {UpTo(i) : i \in Waiters} : Join(d, longer)
        BY <3>2
      <4>2. longer \subseteq Waiters
        BY DEF UpTo
      <4>3. Before(longer)
        <5>1. \A i, j \in Waiters : j \in UpTo(i) => UpTo(j) \subseteq UpTo(i)
          <6>1. \A i, j \in Waiters : j \in UpTo(i) => <<j, i>> \in line
            BY DEF UpTo
          <6> QED
            BY <1>1, <6>1 DEF LineOK, LinearOrder
        <5> QED
          BY <4>2, <5>1 DEF Before
      <4> QED
        BY <3>2, <4>1, <4>2, <4>3 DEF Joins
    <3> QED
      BY <2>2, <3>1, <3>2 DEF Acquire
  <2>3. CASE Answer(d) \/ StaleCallEnds(d) \/ AcquireRefused(d)
    <3>1. line' = line \/ Leave({d})
      BY <2>3 DEF Answer, StaleCallEnds, AcquireRefused, EndCall
    <3> QED
      BY <1>1, <3>1 DEF Leaves
  <2>4. CASE ~(GrantDurable(d) \/ Acquire(d) \/ Answer(d) \/ StaleCallEnds(d) \/ AcquireRefused(d))
    BY <2>4 DEF DurableStep, DurableServer, ExecutorStep, ReserveNext, AcquireExpires,
                MarkSend, MarkRefused, Post, PermitFenced, ComputeFinished, ReleasePermit, CallLost,
                ConnectFailed, ResponseLost, ExecutorDies, ReclaimExpired, Leaves
  <2> QED
    BY <2>1, <2>2, <2>3, <2>4
<1>3. LineOK' /\ \A r \in Request : Waiting(r)' => Waiting(r)
  BY <1>1, <1>2, Parts, LeavesKeep, JoinsKeep
<1> QED
  BY <1>3 DEF Queue, HasCaller, proxyVars

LEMMA DirectQueues ==
  ASSUME Core, Queue, NEW r \in Request, DirectStep(r)
  PROVE  Queue'
<1>1. LineOK /\ HasCaller(r) /\ r \in Waiter /\ Callers
  BY Parts DEF Queue, Core
<1>2. \A q \in Request \ {r} : pc'[q] = pc[q] /\ future'[q] = future[q]
  BY DirectMoves DEF DirectMove
<1>3. ASSUME ~Waiting(r), Enqueue(r)
      PROVE  Joins(r)
  BY <1>3 DEF Enqueue, Joins, Before, UpTo
<1>4. ASSUME pc[r] # "WAITING", RetryOr(r)
      PROVE  Leaves \/ (Joins(r) /\ pc'[r] = "WAITING" /\ future'[r] = "PENDING")
  BY <1>1, <1>3, <1>4, RetryMoves DEF HasCaller, Leaves
<1>5. /\ Leaves \/ (Joins(r) /\ pc'[r] = "WAITING" /\ future'[r] = "PENDING")
      /\ Waiting(r) /\ Waiting(r)' => pc'[r] = "WAITING" /\ future'[r] # "GRANTED"
  <2>1. CASE OpenWaiting(r)
    BY <1>1, <1>3, <2>1 DEF OpenWaiting, Goes, Promises, Callers, HasCaller, Leaves
  <2>2. CASE OpenTry(r)
    <3>1. pc[r] # "WAITING" /\ (line' = line \/ \E ids \in SUBSET Waiter : Leave(ids))
      BY <2>2 DEF OpenTry, Waiters
    <3> QED
      BY <1>1, <3>1 DEF HasCaller, Leaves
  <2>3. CASE Dispatch(r)
    <3>1. pc'[r] = "WAITING"
      BY <1>1, <2>3 DEF Dispatch, Pending, Callers
    <3>2. CASE Promises(r, "REFUSED") /\ UNCHANGED line
      BY <1>1, <3>1, <3>2 DEF Promises, Callers, Leaves
    <3>3. CASE Leave({r} \cup Ahead(r))
      <4>1. {r} \cup Ahead(r) \subseteq Waiter
        BY <1>1 DEF Ahead, Waiters
      <4>2. ~Waiting(r)'
        BY <3>3 DEF Leave, Waiting
      <4> QED
        BY <3>3, <4>1, <4>2 DEF Leaves
    <3> QED
      BY <2>3, <3>2, <3>3 DEF Dispatch
  <2>4. CASE TakeGrant(r) \/ DropGrant(r) \/ Send(r) \/ Completed(r) \/ Lost(r) \/ RecoveryEnds(r)
    <3>1. line' = line /\ ~Waiting(r)
      BY <1>1, <2>4 DEF TakeGrant, DropGrant, Send, Completed, Lost, RecoveryEnds, HasCaller
    <3> QED
      BY <3>1 DEF Leaves
  <2>5. CASE Withdraw(r)
    <3>1. Leave({r}) /\ ~Waiting(r)'
      BY <2>5 DEF Withdraw, Leave, Waiting
    <3> QED
      BY <1>1, <3>1 DEF Leaves
  <2>6. CASE SendRefused(r) \/ NotSent(r) \/ Recovered(r)
    <3>1. pc[r] # "WAITING" /\ RetryOr(r)
      BY <2>6 DEF SendRefused, NotSent, Recovered
    <3> QED
      BY <1>1, <1>4, <3>1 DEF HasCaller
  <2>7. CASE Detach(r)
    <3>1. UNCHANGED <<line, pc, future>>
      BY <2>7 DEF Detach, schedulerVars, ram
    <3> QED
      BY <1>1, <3>1 DEF Leaves, HasCaller
  <2> QED
    BY <2>1, <2>2, <2>3, <2>4, <2>5, <2>6, <2>7 DEF DirectStep, Producer
<1>6. LineOK' /\ \A q \in Request \ {r} : Waiting(q)' => Waiting(q)
  BY <1>1, <1>5, Parts, LeavesKeep, JoinsKeep
<1>7. HasCaller(r)'
  <2>1. CASE Waiting(r)
    BY <1>5, <2>1 DEF HasCaller
  <2>2. CASE Leaves /\ ~Waiting(r)
    BY <1>1, <2>2, LeavesKeep DEF HasCaller
  <2> QED
    BY <1>5, <2>1, <2>2 DEF HasCaller
<1> QED
  BY <1>2, <1>6, <1>7 DEF Queue, HasCaller

LEMMA SchedulerQueues ==
  ASSUME Queue, Leaves, UNCHANGED <<pc, future>>
  PROVE  Queue'
BY Parts, LeavesKeep DEF Queue, HasCaller

\* What ends a round of the maintenance task.
LEMMA MaintenanceLeaves ==
  ASSUME expired \subseteq Waiter,
         Maintain \/ RefreshFails \/ ExpireDirty \/ OwnerLapse \/ Start
  PROVE  Leaves
<1>1. EnterReconcile => Leaves
  BY DEF EnterReconcile, EnterSettle, Leaves
<1>2. EnterSettle => Leaves
  BY DEF EnterSettle, Leaves
<1>3. Leave(expired) => Leaves
  BY DEF Leaves
<1>4. UNCHANGED line => Leaves
  BY DEF Leaves
<1>5. CASE Refresh
  BY <1>1, <1>4, <1>5 DEF Refresh
<1>6. CASE ProbeDirty
  BY <1>1, <1>6 DEF ProbeDirty
<1>7. CASE ReconcileApply
  BY <1>2, <1>4, <1>7 DEF ReconcileApply
<1>8. CASE SettleAnswer
  BY <1>3, <1>8 DEF SettleAnswer
<1>9. CASE ReconcileQuery \/ RefreshFails \/ ExpireDirty \/ Start
  BY <1>4, <1>9 DEF ReconcileQuery, RefreshFails, ExpireDirty, Start
<1>10. CASE OwnerLapse
  BY <1>4, <1>10 DEF OwnerLapse, ram
<1> QED
  BY <1>5, <1>6, <1>7, <1>8, <1>9, <1>10 DEF Maintain

-----------------------------------------------------------------------------
(* The invariant.                                                          *)

LEMMA Initially ==
  ASSUME Init
  PROVE  DirectInv
<1> USE DEF Record
<1>1. /\ engine.process \in 0..MaxEpoch /\ engine.up /\ MaxEpoch \in Nat /\ 0 \in 0..MaxEpoch
      /\ 0 \in 0..MaxCalls /\ 0 \in 0..1 /\ 0 \in Generation
  <2>1. MaxEpoch \in Nat /\ MaxCalls \in Nat
    BY EndpointAssumption DEF EndpointAssumption
  <2>2. engine \in [process : 0..MaxEpoch, up : {TRUE}]
    BY DEF Init, SchedulerInit
  <2>3. engine.process \in 0..MaxEpoch /\ engine.up
    BY <2>2
  <2>4. 0 \in 0..MaxEpoch /\ 0 \in 0..MaxCalls
    BY <2>1
  <2>5. 0 \in Generation /\ 0 \in 0..1
    BY DEF Generation
  <2> QED
    BY <2>1, <2>3, <2>4, <2>5
<1>2. /\ row.epoch = engine.process /\ view = row /\ row \in PoolRow
      /\ owner = [exists |-> TRUE, live |-> TRUE]
      /\ ledger = [d \in Durable |-> "ABSENT"] /\ wire = [a \in Attempt |-> "NONE"]
      /\ stray = {} /\ orphans = {} /\ forfeited = {} /\ permits = {}
      /\ rec = [a \in Attempt |-> NoPermit]
      /\ line = {} /\ task = At("REFRESH") /\ streak = NoStreak
      /\ exec \in [Durable -> {"IDLE", "DONE"}] /\ calls = [d \in Durable |-> NoCall]
      /\ expired = {} /\ api.up /\ api.ready /\ ~api.dirty
      /\ pc \in [Request -> {"IDLE", "END"}] /\ gen = [r \in Request |-> 0]
      /\ future = [r \in Request |-> "NONE"] /\ bound = [r \in Request |-> 0] /\ detached = {}
  BY <1>1 DEF Init, SchedulerInit, PoolRow, Health
<1>3. Rows
  <2>1. engine \in [process : 0..MaxEpoch, up : BOOLEAN]
    BY DEF Init, SchedulerInit
  <2>2. api \in [up : {TRUE}, ready : {TRUE}, dirty : {FALSE}, idle : {0},
                 boot : 0..MaxBoot, outage : 0..MaxOutage]
    BY DEF Init, SchedulerInit
  <2>3. api \in [up : BOOLEAN, ready : BOOLEAN, dirty : BOOLEAN, idle : 0..1,
                 boot : 0..MaxBoot, outage : 0..MaxOutage]
    BY <1>1, <2>2
  <2> QED
    BY <1>1, <1>2, <2>1, <2>3 DEF Rows
<1>4. Attempts
  <2>1. NoPermit \in Record /\ NoCall \in [open : 0..MaxCalls, heard : BOOLEAN]
    BY <1>1 DEF NoPermit, PermitState, NoCall
  <2> QED
    BY <1>2, <2>1 DEF Attempts, LedgerState, Wire, Exec
<1>5. Upkeep /\ Callers /\ Reconciling
  <2>1. task.step = "REFRESH" /\ task.ids = {} /\ DOMAIN task.live = {}
    BY <1>2 DEF At
  <2> QED
    BY <1>1, <1>2, <2>1 DEF Upkeep, Callers, Reconciling, Step, NoStreak, PC, Future
<1>6. Accounted = {}
  BY <1>2 DEF Accounted, Computing
<1>7. Epochs /\ ComputeKnown /\ RowKept
  BY <1>1, <1>2, <1>6, Parts DEF Epochs, ComputeKnown, RowKept, PoolRow, NoPermit
<1>8. \A d \in Durable : DurableStage(d) /\ DurableHeld(d)
  BY <1>2, <1>6, Parts DEF DurableStage, DurableHeld, MaySend, NoCall
<1>9. \A r \in Request : Generations(r) /\ Settled(r)
  BY <1>1, <1>2, <1>6, Parts DEF Generations, Settled, Current, Generation
<1>10. \A a \in Direct : Recorded(a)
  BY <1>2, Parts DEF Recorded, NoPermit
<1>11. Queue
  BY <1>2 DEF Queue, LineOK, LinearOrder, HasCaller, Waiting, Waiters, UpTo
<1> QED
  BY <1>3, <1>4, <1>5, <1>7, <1>8, <1>9, <1>10, <1>11 DEF DirectInv, Core

LEMMA SchedulerKeeps ==
  ASSUME DirectInv, SchedulerNext, UNCHANGED proxyVars
  PROVE  DirectInv'
<1>1. Core /\ Queue /\ Rows /\ expired \subseteq Waiter /\ UNCHANGED <<pc, future>>
  BY EndpointAssumption DEF EndpointAssumption, DirectInv, Core, Rows, proxyVars
<1>2. CASE Maintain \/ RefreshFails \/ ExpireDirty \/ OwnerLapse \/ Start
  <2>1. Core'
    BY <1>1, <1>2, RefreshKeeps, ProbesKeep, ReconcileKeeps, SettleKeeps, OwnerLapseKeeps, StartKeeps
       DEF Maintain
  <2>2. Queue'
    BY <1>1, <1>2, MaintenanceLeaves, SchedulerQueues
  <2> QED
    BY <2>1, <2>2 DEF DirectInv
<1>3. CASE DurableNext
  <2>1. PICK d \in Durable : DurableStep(d)
    BY <1>3 DEF DurableNext, DurableStep
  <2> QED
    BY <1>1, <2>1, DurableKeeps, DurableQueues DEF DirectInv
<1>4. CASE EngineStep \/ EngineStops \/ QuiesceEngine \/ OperatorStep
  <2>1. Core'
    <3>1. CASE EngineStarts
      BY <1>1, <3>1, EngineStartsKeeps
    <3>2. CASE \E a \in Attempt : Arrive(a)
      BY <1>1, <3>2, ArriveKeeps
    <3>3. CASE \/ \E a \in Attempt : EngineAnswers(a)
               \/ EngineStops \/ QuiesceEngine \/ ConfirmStopped \/ ConfigurePool
      BY <1>1, <3>3, EngineKeeps
    <3> QED
      BY <1>4, <3>1, <3>2, <3>3 DEF EngineStep, OperatorStep
  <2>2. line' = line
    BY <1>4 DEF EngineStep, OperatorStep, EngineStops, QuiesceEngine, EngineStarts, Arrive,
                EngineAnswers, ConfirmStopped, ConfigurePool, engineUnchanged, ram
  <2> QED
    BY <1>1, <2>1, <2>2, SchedulerQueues DEF DirectInv, Leaves
<1>5. CASE \E i \in Waiter : Expire(i)
  <2>1. /\ UNCHANGED <<world, ram, exec, calls>> /\ expired' \subseteq Deadlined
    BY <1>1, <1>5 DEF Expire, Rows
  <2>2. UNCHANGED <<api, view, permits, rec, line, task, streak>>
    BY <2>1 DEF ram
  <2>3. UNCHANGED <<pc, gen, future, bound, detached>> /\ detached \subseteq Leaving
    BY <1>1 DEF proxyVars, Core, Callers
  <2>4. Core'
    BY <1>1, <2>1, <2>2, <2>3, TimeKeeps
  <2> QED
    BY <1>1, <2>2, <2>4, SchedulerQueues DEF DirectInv, Leaves
<1> QED
  BY <1>2, <1>3, <1>4, <1>5 DEF SchedulerNext

LEMMA InvariantKept ==
  ASSUME DirectInv, [Next]_vars
  PROVE  DirectInv'
<1>1. Core /\ Queue
  BY DEF DirectInv
<1>2. CASE SchedulerNext /\ UNCHANGED proxyVars
  BY <1>2, SchedulerKeeps
<1>3. CASE ProxyNext
  <2>1. PICK r \in Request : DirectStep(r)
    BY <1>3 DEF ProxyNext, DirectStep
  <2> QED
    BY <1>1, <2>1, DirectKeeps, DirectQueues DEF DirectInv
<1>4. CASE ApiEnds
  <2>1. line' = {} /\ \A r \in Request : ~Waiting(r)'
    BY <1>4 DEF ApiEnds, Crash, Shutdown, Forget, Waiting
  <2>2. LineOK'
    BY <1>1, <2>1, LeavesKeep DEF Queue, Leaves
  <2>3. Queue'
    BY <2>1, <2>2 DEF Queue, HasCaller
  <2> QED
    BY <1>1, <1>4, <2>3, ApiEndsKeeps DEF DirectInv
<1>5. CASE UNCHANGED vars
  <2>1. /\ UNCHANGED <<row, owner, ledger, engine, wire, stray, orphans, forfeited>>
        /\ UNCHANGED <<api, view, permits, rec, line, task, streak, exec, calls, expired>>
        /\ UNCHANGED <<pc, gen, future, bound, detached>>
    BY <1>5 DEF vars, schedulerVars, world, ram, clients, proxyVars
  <2>2. expired' \subseteq Deadlined /\ detached' \subseteq Leaving
    BY <1>1, <2>1 DEF Core, Rows, Callers
  <2>3. Core'
    BY <1>1, <2>1, <2>2, TimeKeeps DEF world
  <2> QED
    BY <1>1, <2>1, <2>3, SchedulerQueues DEF DirectInv, Leaves
<1> QED
  BY <1>2, <1>3, <1>4, <1>5 DEF Next

LEMMA InvariantAlways == Spec => []DirectInv
<1>1. Init => DirectInv
  BY Initially
<1>2. DirectInv /\ [Next]_vars => DirectInv'
  BY InvariantKept
<1> QED
  BY <1>1, <1>2, PTL DEF Spec

-----------------------------------------------------------------------------
(* Capacity.                                                               *)

\* What computes, what has a permit, and what the next runtime-api may find sent: it
\* gives permits back without a look at the limits.
Claims == permits \cup Accounted \cup {d \in Durable : ~api.up /\ MayBeSent(d)}
Known == Claims \ (orphans \cup forfeited)
CapacityInv == Within(Known)

LEMMA AttemptFinite == IsFiniteSet(Attempt)
<1>1. IsFiniteSet(Request) /\ IsFiniteSet(Durable)
  BY EndpointAssumption DEF EndpointAssumption
<1>2. IsFiniteSet(Generation)
  <2>1. 0 \in Int /\ 2 \in Int
    OBVIOUS
  <2>2. IsFiniteSet(0..2)
    BY <2>1, FS_Interval
  <2> QED
    BY <2>2 DEF Generation
<1>3. IsFiniteSet(Direct)
  BY <1>1, <1>2, FS_Product DEF Direct
<1> QED
  BY <1>1, <1>3, FS_Union DEF Attempt

\* Fewer attempts keep within the limits more attempts keep within.
LEMMA FewerWithin ==
  ASSUME NEW T, IsFiniteSet(T), Within(T), NEW S \in SUBSET T
  PROVE  Within(S)
<1> DEFINE Lesser(X) == {a \in X : OtherThanQa(a)}
<1>1. /\ IsFiniteSet(S) /\ Cardinality(S) <= Cardinality(T)
      /\ Cardinality(S) \in Nat /\ Cardinality(T) \in Nat
  BY FS_Subset, FS_CardinalityType
<1>2. IsFiniteSet(Lesser(T)) /\ Lesser(S) \subseteq Lesser(T)
  BY FS_Subset
<1>3. /\ IsFiniteSet(Lesser(S)) /\ Cardinality(Lesser(S)) <= Cardinality(Lesser(T))
      /\ Cardinality(Lesser(S)) \in Nat /\ Cardinality(Lesser(T)) \in Nat
  BY <1>2, FS_Subset, FS_CardinalityType
<1> QED
  BY <1>1, <1>3, EndpointAssumption DEF EndpointAssumption, Within

\* The capacity check admits one attempt more, if all that is known has a permit.
LEMMA GrantFits ==
  ASSUME permits \subseteq Attempt, Known \subseteq permits, CapacityInv,
         NEW a \in Attempt, TryAcquire(ClassOf(a)), NEW S \in SUBSET (Known \cup {a})
  PROVE  Within(S)
<1> DEFINE Lesser(X) == {b \in X : OtherThanQa(b)}
           T == Known \cup {a}
<1>1. IsFiniteSet(permits) /\ IsFiniteSet(Known) /\ IsFiniteSet(T)
  BY AttemptFinite, FS_Subset, FS_AddElement
<1>2. TransportLimit \in Nat /\ BackgroundLimit \in Nat
  BY EndpointAssumption DEF EndpointAssumption
<1>3. ASSUME NEW X, IsFiniteSet(X), NEW limit \in Nat, Cardinality(X) < limit,
             NEW Y \in SUBSET (X \cup {a})
      PROVE  Cardinality(Y) <= limit
  <2>1. /\ IsFiniteSet(X \cup {a}) /\ Cardinality(X) \in Nat
        /\ Cardinality(X \cup {a}) \in {Cardinality(X), Cardinality(X) + 1}
    BY <1>3, FS_AddElement, FS_CardinalityType
  <2>2. Cardinality(Y) <= Cardinality(X \cup {a}) /\ Cardinality(Y) \in Nat
    BY <2>1, FS_Subset, FS_CardinalityType
  <2> QED
    BY <1>3, <2>1, <2>2
<1>4. Cardinality(T) <= TransportLimit
  BY <1>1, <1>2, <1>3 DEF TryAcquire
<1>5. Cardinality(Lesser(T)) <= BackgroundLimit
  <2>1. CASE OtherThanQa(a)
    <3>1. Cardinality(Lesser(permits)) < BackgroundLimit
      BY <2>1 DEF TryAcquire, OtherThanQa
    <3>2. IsFiniteSet(Lesser(permits)) /\ Lesser(T) \subseteq Lesser(permits) \cup {a}
      BY <1>1, FS_Subset
    <3> QED
      BY <1>2, <1>3, <3>1, <3>2
  <2>2. CASE ~OtherThanQa(a)
    <3>1. Lesser(T) = Lesser(Known)
      BY <2>2
    <3> QED
      BY <3>1 DEF CapacityInv, Within
  <2> QED
    BY <2>1, <2>2
<1> QED
  BY <1>1, <1>4, <1>5, FewerWithin DEF Within

\* A step after which nothing is known that was not known before.
LEMMA NarrowsKeeps ==
  ASSUME DirectInv, CapacityInv, Known' \subseteq Known
  PROVE  CapacityInv'
<1>1. Known \subseteq Attempt
  BY Parts DEF DirectInv, Core, Attempts, Known, Claims, Accounted, Computing
<1>2. IsFiniteSet(Known)
  BY <1>1, AttemptFinite, FS_Subset
<1>3. Within(Known')
  BY <1>2, FewerWithin DEF CapacityInv
<1> QED
  BY <1>3 DEF CapacityInv, Within, OtherThanQa, ClassOf

\* Once an endpoint is clean, all that computes and is known has its permit.
LEMMA ReadyKnows ==
  ASSUME DirectInv, Ready
  PROVE  Known \subseteq permits
<1>1. ASSUME NEW a \in Accounted, a \notin orphans
      PROVE  a \in permits
  <2>1. a \in Attempt /\ Core /\ api.up /\ ~api.dirty
    BY <1>1 DEF DirectInv, Accounted, Computing, Ready
  <2>2. CASE a \in Direct
    BY <1>1, <2>1, <2>2 DEF Core, RowKept
  <2>3. CASE a \in Durable
    BY <1>1, <2>1, <2>3 DEF Core, DurableHeld
  <2> QED
    BY <2>1, <2>2, <2>3, Parts
<1> QED
  BY <1>1 DEF Known, Claims, Ready

\* A grant, to a waiter of an endpoint that is clean.
LEMMA GrantKeeps ==
  ASSUME DirectInv, CapacityInv, NEW a \in Attempt, Ready, TryAcquire(ClassOf(a)),
         permits' = permits \cup {a}, UNCHANGED <<api, wire, stray, orphans, forfeited>>
  PROVE  CapacityInv'
<1>1. Known \subseteq permits /\ permits \subseteq Attempt
  BY ReadyKnows DEF DirectInv, Core, Attempts
<1>2. Known' \subseteq Known \cup {a}
  BY DEF Known, Claims, Accounted, Computing, Ready
<1>3. Within(Known')
  BY <1>1, <1>2, GrantFits
<1> QED
  BY <1>3 DEF CapacityInv, Within, OtherThanQa, ClassOf

\* What a step shows of an attempt that is known after it: it was known before.
StaysKnown(a) ==
  /\ a \in permits' => a \in Claims
  /\ (a \in Accounted)' => a \in Claims
  /\ a \in Durable /\ ~api'.up /\ MayBeSent(a)' => a \in Claims
  /\ a \in orphans \cup forfeited => a \in orphans' \cup forfeited'

LEMMA StaysKnownKeeps ==
  ASSUME DirectInv, CapacityInv, DirectInv', \A a \in Attempt : StaysKnown(a)
  PROVE  CapacityInv'
<1>1. Known' \subseteq Attempt
  BY Parts DEF DirectInv, Core, Attempts, Known, Claims, Accounted, Computing
<1>2. Known' \subseteq Known
  BY <1>1 DEF Known, Claims, StaysKnown
<1> QED
  BY <1>2, NarrowsKeeps

\* Neither the executor of a durable attempt nor its calls claim what was not claimed:
\* an attempt is marked after its permit was answered.
LEMMA DurableWithin ==
  ASSUME DirectInv, CapacityInv, DirectInv', NEW d \in Durable, DurableStep(d),
         UNCHANGED proxyVars
  PROVE  CapacityInv'
<1>1. DurableMove(d) /\ d \in Attempt /\ DurableStage(d) /\ Attempts
  BY DurableMoves, Parts DEF DirectInv, Core
<1>2. UNCHANGED <<api, stray, orphans, forfeited>>
  BY <1>1 DEF DurableMove, elsewhere
<1>3. CASE GrantDurable(d)
  <2>1. Ready /\ TryAcquire(ClassOf(d)) /\ permits' = permits \cup {d} /\ wire' = wire
    BY <1>3, Parts DEF GrantDurable, Grant, ClassOf
  <2> QED
    BY <1>1, <1>2, <2>1, GrantKeeps
<1>4. CASE ~GrantDurable(d)
  <2>1. d \in permits' => d \in permits
    BY <1>1, <1>4 DEF DurableStep, DurableServer, ExecutorStep, ReserveNext, Answer, StaleCallEnds, Acquire,
       AcquireRefused, AcquireExpires, MarkSend, MarkRefused, Post, PermitFenced, ComputeFinished,
       ReleasePermit, Release, CallLost, ConnectFailed, ResponseLost, ExecutorDies, ReclaimExpired
  <2>2. wire'[d] = "COMPUTING" => wire[d] = "COMPUTING"
    BY DurableLocal
  <2>3. MayBeSent(d)' => MayBeSent(d) \/ d \in permits
    <3>1. CASE FailNotSent(d) \/ ledger' = ledger
      <4>1. ledger'[d] \in LedgerHeld => ledger[d] \in LedgerHeld
        BY <1>1, <3>1 DEF FailNotSent, Attempts, LedgerHeld
      <4>2. exec'[d] = "GRANTED" => exec[d] = "GRANTED" \/ d \in permits
        BY <1>1, <1>4 DEF Attempts, DurableStep, DurableServer, ExecutorStep, ReserveNext, Answer,
           StaleCallEnds, Acquire, AcquireRefused, AcquireExpires, MarkSend, MarkRefused, Post,
           PermitFenced, ComputeFinished, ReleasePermit, CallLost, ConnectFailed, ResponseLost,
           ExecutorDies, ReclaimExpired, Moves, Becomes
      <4> QED
        BY <4>1, <4>2 DEF MayBeSent
    <3>2. CASE ReserveNext(d) \/ ComputeFinished(d)
      BY <1>1, <3>2 DEF ReserveNext, ComputeFinished, Moves, Becomes, InLedger, MayBeSent, Attempts, LedgerHeld
    <3>3. CASE MarkSend(d)
      BY <3>3 DEF MarkSend, Moves, MayBeSent
    <3>4. CASE ReclaimExpired(d)
      BY <1>1, <3>4 DEF ReclaimExpired, InLedger, MayBeSent, Attempts, LedgerHeld
    <3>5. CASE ResponseLost(d)
      BY <1>1, <3>5 DEF ResponseLost, Moves, Becomes, MayBeSent, Attempts, LedgerHeld
    <3> QED
      BY <1>4, <3>1, <3>2, <3>3, <3>4, <3>5 DEF DurableStep, DurableServer, ExecutorStep, Answer,
         StaleCallEnds, Acquire, AcquireRefused, AcquireExpires, MarkRefused, Post, PermitFenced,
         ReleasePermit, CallLost, ConnectFailed, ExecutorDies
  <2>4. StaysKnown(d)
    BY <1>2, <2>1, <2>2, <2>3 DEF StaysKnown, Claims, Accounted, Computing
  <2>5. ASSUME NEW a \in Attempt \ {d}
        PROVE  StaysKnown(a)
    BY <1>1, <1>2, <2>5 DEF DurableMove, StaysKnown, Claims, Accounted, Computing, MayBeSent
  <2> QED
    BY <2>4, <2>5, StaysKnownKeeps
<1> QED
  BY <1>3, <1>4

\* Of a request only its grant claims anything.
LEMMA DirectWithin ==
  ASSUME DirectInv, CapacityInv, DirectInv', NEW r \in Request, DirectStep(r)
  PROVE  CapacityInv'
<1>1. /\ DirectMove(r) /\ Core /\ Current(r) \in Attempt /\ ClassOf(Current(r)) = Class[r]
      /\ \A g \in Generation : StillKnown(<<r, g>>)
  BY DirectMoves, DirectLocal, Parts DEF DirectInv, Core, Callers, Current, ClassOf
<1>2. /\ UNCHANGED <<api, ledger, stray, orphans, forfeited, exec>>
      /\ \A a \in Attempt : (a \in Accounted)' => a \in Accounted
  <2>1. UNCHANGED <<api, ledger, stray, orphans, forfeited, exec>>
    BY <1>1 DEF DirectMove, clients
  <2>2. ASSUME NEW a \in Attempt, (a \in Accounted)'
        PROVE  a \in Accounted
    <3>1. CASE \E g \in Generation : a = <<r, g>>
      BY <1>1, <2>2, <3>1 DEF StillKnown
    <3>2. CASE \A g \in Generation : a # <<r, g>>
      BY <1>1, <2>1, <2>2, <3>2 DEF DirectMove, Accounted, Computing
    <3> QED
      BY <3>1, <3>2
  <2> QED
    BY <2>1, <2>2
<1>3. CASE Ready /\ TryAcquire(Class[r]) /\ Grant(Current(r)) /\ wire' = wire
  BY <1>1, <1>2, <1>3, GrantKeeps DEF Grant
<1>4. CASE permits' \subseteq permits
  <2>1. \A a \in Attempt : StaysKnown(a)
    BY <1>2, <1>4 DEF StaysKnown, Claims, MayBeSent
  <2> QED
    BY <2>1, StaysKnownKeeps
<1>5. CASE OpenTry(r) \/ Dispatch(r)
  BY <1>3, <1>4, <1>5 DEF OpenTry, Dispatch, others
<1>6. CASE ~OpenTry(r) /\ ~Dispatch(r)
  <2>1. permits' \subseteq permits
    BY <1>6 DEF DirectStep, Producer, OpenWaiting, TakeGrant, Withdraw, DropGrant, Send, SendRefused,
       NotSent, Completed, Lost, Recovered, RecoveryEnds, Detach, Discard, Finish, Release, schedulerVars, ram
  <2> QED
    BY <1>4, <2>1
<1> QED
  BY <1>5, <1>6

\* Maintenance grants nothing; a start gives back what an attempt that may be sent had.
LEMMA MaintenanceWithin ==
  ASSUME DirectInv, CapacityInv, DirectInv',
         Maintain \/ RefreshFails \/ ExpireDirty \/ OwnerLapse \/ Start
  PROVE  CapacityInv'
<1>1. UNCHANGED <<wire, stray, orphans, forfeited, exec>>
  BY DEF Maintain, Refresh, ProbeDirty, ReconcileQuery, ReconcileApply, SettleAnswer, RefreshFails,
     ExpireDirty, OwnerLapse, Start, world, clients
<1>2. CASE Start
  <2>1. ~api.up /\ api'.up /\ ledger' = ledger
        /\ permits' = {d \in Durable : ledger[d] \in LedgerHeld}
    BY <1>2 DEF Start, DirectInv, Core, Rows
  <2>2. \A a \in Attempt : StaysKnown(a)
    BY <1>1, <2>1 DEF StaysKnown, Claims, Accounted, Computing, MayBeSent
  <2> QED
    BY <2>2, StaysKnownKeeps
<1>3. CASE ~Start
  <2>1. permits' \subseteq permits
    BY <1>3 DEF Maintain, Refresh, ProbeDirty, ReconcileQuery, ReconcileApply, SettleAnswer, RefreshFails,
       ExpireDirty, OwnerLapse, Release, ram
  <2>2. api.up \/ (api' = api /\ ledger' = ledger)
    BY <1>3 DEF Maintain, Refresh, ProbeDirty, ReconcileQuery, ReconcileApply, SettleAnswer, RefreshFails,
       ExpireDirty, OwnerLapse, ram
  <2>3. api'.up = api.up
    BY <1>3 DEF Maintain, Refresh, ProbeDirty, ReconcileQuery, ReconcileApply, SettleAnswer, RefreshFails,
       ExpireDirty, OwnerLapse, ram, DirectInv, Core, Rows
  <2>4. \A a \in Attempt : StaysKnown(a)
    BY <1>1, <2>1, <2>2, <2>3 DEF StaysKnown, Claims, Accounted, Computing, MayBeSent
  <2> QED
    BY <2>4, StaysKnownKeeps
<1> QED
  BY <1>2, <1>3

\* A request that reaches the engine of its epoch has its permit, or is known to the ledger.
LEMMA EngineWithin ==
  ASSUME DirectInv, CapacityInv, DirectInv',
         EngineStep \/ EngineStops \/ QuiesceEngine \/ OperatorStep
  PROVE  CapacityInv'
<1>1. /\ UNCHANGED <<orphans, forfeited, exec, permits, api>> /\ Core
      /\ wire \in [Attempt -> Wire] /\ ledger \in [Durable -> LedgerState]
  BY DEF EngineStep, OperatorStep, EngineStops, QuiesceEngine, EngineStarts, Arrive, EngineAnswers,
         ConfirmStopped, ConfigurePool, engineUnchanged, ram, clients, DirectInv, Core, Attempts
<1>2. ASSUME NEW d \in Durable, MayBeSent(d)'
      PROVE  MayBeSent(d)
  BY <1>1, <1>2 DEF EngineStep, OperatorStep, EngineStops, QuiesceEngine, EngineStarts, Arrive, EngineAnswers,
         ConfirmStopped, ConfigurePool, MayBeSent, LedgerHeld
<1>3. ASSUME NEW a \in Attempt, (a \in Accounted)', a \notin Accounted
      PROVE  a \in Claims
  <2>1. Arrive(a)
    <3>1. CASE \E b \in Attempt : Arrive(b)
      BY <1>1, <1>3, <3>1 DEF Arrive, Accounted, Computing
    <3>2. CASE ~\E b \in Attempt : Arrive(b)
      <4>1. stray' = stray /\ (wire'[a] = "COMPUTING" => wire[a] = "COMPUTING")
        BY <1>1, <3>2 DEF EngineStep, OperatorStep, EngineStops, QuiesceEngine, EngineStarts, EngineAnswers,
           ConfirmStopped, ConfigurePool
      <4> QED
        BY <1>3, <4>1 DEF Accounted, Computing
    <3> QED
      BY <3>1, <3>2
  <2>2. wire[a] = "SENT" /\ engine.up /\ rec[a].epoch = engine.process
    BY <1>3, <2>1 DEF Arrive, Accounted
  <2>3. CASE a \in Direct
    BY <1>1, <2>2, <2>3 DEF Core, Recorded, Claims
  <2>4. CASE a \in Durable
    BY <1>1, <2>2, <2>4 DEF Core, DurableHeld, MaySend, Serves, Claims, MayBeSent
  <2> QED
    BY <2>3, <2>4, Parts
<1>4. \A a \in Attempt : StaysKnown(a)
  BY <1>1, <1>2, <1>3 DEF StaysKnown, Claims
<1> QED
  BY <1>4, StaysKnownKeeps

\* A process that ends takes the permits along; what had none, and may be sent yet, is
\* forfeited.
LEMMA ApiEndsWithin ==
  ASSUME DirectInv, CapacityInv, DirectInv', ApiEnds
  PROVE  CapacityInv'
<1>1. /\ UNCHANGED <<ledger, stray, exec>> /\ permits' = {} /\ orphans \subseteq orphans'
      /\ forfeited' = forfeited \cup {d \in Durable \ permits : MayBeSent(d)}
      /\ wire' = [a \in Attempt |->
           IF a \in Direct /\ wire[a] \in {"SENT", "ANSWERED"} THEN "CLOSED" ELSE wire[a]]
  BY DEF ApiEnds, Crash, Shutdown, Forget, HangUp, Forfeit
<1>2. Known' \subseteq Known
  <2>1. \A d \in Durable : MayBeSent(d)' <=> MayBeSent(d)
    BY <1>1 DEF MayBeSent
  <2>2. Accounted' \subseteq Accounted
    BY <1>1 DEF Accounted, Computing
  <2> QED
    BY <1>1, <2>1, <2>2 DEF Known, Claims
<1> QED
  BY <1>2, NarrowsKeeps

LEMMA CapacityStep ==
  ASSUME DirectInv, CapacityInv, [Next]_vars
  PROVE  CapacityInv'
<1>1. DirectInv'
  BY InvariantKept
<1>2. CASE SchedulerNext /\ UNCHANGED proxyVars
  <2>1. CASE DurableNext
    <3>1. PICK d \in Durable : DurableStep(d)
      BY <2>1 DEF DurableNext, DurableStep
    <3> QED
      BY <1>1, <1>2, <3>1, DurableWithin
  <2>2. CASE \E i \in Waiter : Expire(i)
    <3>1. UNCHANGED <<permits, api, wire, stray, orphans, forfeited, ledger, exec>>
      BY <2>2 DEF Expire, world, ram
    <3> QED
      BY <3>1, NarrowsKeeps DEF Known, Claims, Accounted, Computing, MayBeSent
  <2> QED
    BY <1>1, <1>2, <2>1, <2>2, MaintenanceWithin, EngineWithin DEF SchedulerNext
<1>3. CASE ProxyNext
  <2>1. PICK r \in Request : DirectStep(r)
    BY <1>3 DEF ProxyNext, DirectStep
  <2> QED
    BY <1>1, <2>1, DirectWithin
<1>4. CASE ApiEnds
  BY <1>1, <1>4, ApiEndsWithin
<1>5. CASE UNCHANGED vars
  <2>1. UNCHANGED <<permits, api, wire, stray, orphans, forfeited, ledger, exec>>
    BY <1>5 DEF vars, schedulerVars, world, ram, clients
  <2> QED
    BY <2>1, NarrowsKeeps DEF Known, Claims, Accounted, Computing, MayBeSent
<1> QED
  BY <1>2, <1>3, <1>4, <1>5 DEF Next

-----------------------------------------------------------------------------
(* What it means.                                                          *)

\* Every state of the endpoint, its RAM, its clients and its requests is typed, and
\* the waiters are linearly ordered, whatever the number of requests and restarts.
THEOREM DirectTypeCorrect == Spec => []TypeOK
<1>1. DirectInv => TypeOK
  BY DEF DirectInv, Core, Queue, LineOK, Rows, Attempts, Upkeep, Callers, TypeOK, SchedulerTypeOK
<1> QED
  BY <1>1, InvariantAlways, PTL

\* No restart, epoch change, idle proof, reconciliation or settlement frees a permit
\* while the engine computes under it: what a clean endpoint grants beside is known.
THEOREM PermitsCover == Spec => []PermitCoversCompute
<1>1. DirectInv => PermitCoversCompute
  <2>1. ASSUME DirectInv, api.up, ~api.dirty, NEW a \in Accounted, a \notin orphans
        PROVE  a \in permits
    <3>1. a \in Attempt /\ Core
      BY <2>1 DEF DirectInv, Accounted, Computing
    <3>2. CASE a \in Direct
      BY <2>1, <3>1, <3>2 DEF Core, RowKept
    <3>3. CASE a \in Durable
      BY <2>1, <3>1, <3>3 DEF Core, DurableHeld
    <3> QED
      BY <3>1, <3>2, <3>3, Parts
  <2> QED
    BY <2>1 DEF PermitCoversCompute
<1> QED
  BY <1>1, InvariantAlways, PTL

\* A request is retried only once its lost attempt computes no more, so that the engine
\* of its epoch never computes two generations of it.
THEOREM OneComputeAtATime == Spec => []OneComputePerRequest
<1>1. DirectInv => OneComputePerRequest
  <2>1. ASSUME DirectInv, NEW r \in Request
        PROVE  Cardinality({g \in Generation : <<r, g>> \in Accounted}) <= 1
    <3> DEFINE computed == {g \in Generation : <<r, g>> \in Accounted}
    <3>1. Generations(r) /\ gen[r] \in Generation
      BY <2>1 DEF DirectInv, Core, Callers
    <3>2. ASSUME NEW g \in computed
          PROVE  g = gen[r]
      <4>1. <<r, g>> \in Accounted /\ wire[<<r, g>>] = "COMPUTING"
        BY <3>2 DEF Accounted, Computing
      <4> QED
        BY <3>1, <3>2, <4>1 DEF Generations, Generation
    <3>3. computed = {} \/ computed = {gen[r]}
      BY <3>2
    <3>4. Cardinality(computed) = 0 \/ Cardinality(computed) = 1
      BY <3>3, FS_EmptySet, FS_Singleton
    <3> QED
      BY <3>4
  <2> QED
    BY <2>1 DEF OneComputePerRequest
<1> QED
  BY <1>1, InvariantAlways, PTL

\* However a request ends, its permit is given back or UNKNOWN, and its waiter gone.
THEOREM NothingIsForgotten == Spec => []NothingForgotten
<1>1. DirectInv => NothingForgotten
  BY DEF DirectInv, Core, Queue, Settled, HasCaller, NothingForgotten
<1> QED
  BY <1>1, InvariantAlways, PTL

\* The limits of the endpoint bound what is computed after any number of restarts of
\* runtime-api, though a start gives permits back without a look at them: all it gives
\* back was known to the process before it, whose grants stayed within the limits.
THEOREM CapacityIsKept == Spec => []WithinCapacity
<1>1. Init => CapacityInv
  <2>1. ASSUME Init
        PROVE  Known = {}
    BY <2>1, Parts DEF Init, SchedulerInit, Known, Claims, Accounted, Computing
  <2>2. TransportLimit \in Nat /\ BackgroundLimit \in Nat
    BY EndpointAssumption DEF EndpointAssumption
  <2>3. Within({})
    <3>1. {a \in {} : OtherThanQa(a)} = {}
      OBVIOUS
    <3> QED
      BY <2>2, <3>1, FS_EmptySet DEF Within
  <2> QED
    BY <2>1, <2>3 DEF CapacityInv
<1>2. DirectInv /\ CapacityInv /\ [Next]_vars => CapacityInv'
  BY CapacityStep
<1>3. DirectInv /\ CapacityInv => WithinCapacity
  <2>1. ASSUME DirectInv
        PROVE  IsFiniteSet(Known)
    BY <2>1, AttemptFinite, FS_Subset, Parts DEF DirectInv, Core, Attempts, Known, Claims, Accounted, Computing
  <2>2. Accounted \ (orphans \cup forfeited) \subseteq Known
    BY DEF Known, Claims
  <2> QED
    BY <2>1, <2>2, FewerWithin DEF CapacityInv, WithinCapacity
<1> QED
  BY <1>1, <1>2, <1>3, InvariantAlways, PTL DEF Spec
=============================================================================
