------------------------------- MODULE Ledger -------------------------------
(***************************************************************************)
(* The durable ledger of intramind_runtime/store.py: roots, operations,    *)
(* attempts, resource budgets, inference pools and completion bindings.    *)
(*                                                                         *)
(* Every action is one PostgreSQL READ COMMITTED transaction of class      *)
(* Store, or one part of it where the code reads rows it does not lock and *)
(* acts on what it read: the read is an action of its own and what it saw  *)
(* is kept in a variable (snap, cancelling, finishing, binder, scan) until *)
(* the write.  Whatever the code re-reads under a row lock belongs to the  *)
(* action that writes.  A transaction that raises rolls back and changes   *)
(* nothing.                                                                *)
(*                                                                         *)
(* Times are reduced to facts that time makes true: a deadline has passed, *)
(* a lease has run out.  Payloads, reasons, error classes, retry delays    *)
(* and the order in which reserve_next prefers candidates are left out.    *)
(***************************************************************************)
EXTENDS Integers, FiniteSets

CONSTANTS
  Root, Operation, Pool, Owner, Account,
  Attempt,         \* attempt ids (uuid4): each is used for one row at most
  None,            \* SQL NULL
  OpOf,            \* the operation an attempt id is drawn for
  Number,          \* attempt_number of an attempt id
  RootOf,          \* root_id of an operation
  ModelOf,         \* model_profile of an operation
  Compatible,      \* the pools with the model, kind and capabilities of an operation
  Fits,            \* those of them whose request_limit is large enough
  AccountOf,       \* the root's tokens, or (root, budget_unit)
  Bound,           \* budget_bound of an operation
  Limit,           \* budget_limit of an account
  MaxAttempts,     \* max_attempts of an operation
  RootMaxAttempts, \* max_attempts of a root
  MaxOperations,   \* max_operations of a root (lifetime)
  MaxPending,      \* max_pending of a root
  ModelPending,    \* runtime_authority.max_pending, per model
  MaxRoots,        \* runtime_authority.max_roots
  Deadlined,       \* the roots and operations whose deadline can pass
  Usage,           \* usages an engine may report
  Awaited,         \* the operations a workflow activity binds a completion to
  Cancellable,     \* the roots a client may cancel
  FinishAs,        \* the states a workflow may finish its root with
  Stops,           \* the ways an operator confirms that an epoch has stopped
  Token,           \* quiesce owner tokens
  MaxEpoch         \* bound: engine epochs a pool goes through

\* The states finish_run accepts beside CANCELLED, which it hands to cancel.
FinishState == {"SUCCEEDED", "PARTIAL", "FAILED"}

ASSUME StructureAssumption ==
  /\ OpOf \in [Attempt -> Operation]
  /\ Number \in [Attempt -> Nat]
  /\ RootOf \in [Operation -> Root]
  /\ Compatible \in [Operation -> SUBSET Pool]
  /\ Fits \in [Operation -> SUBSET Pool]
  /\ AccountOf \in [Operation -> Account \cup {None}]
  /\ Deadlined \subseteq Root \cup Operation
  /\ Awaited \subseteq Operation /\ Cancellable \subseteq Root
  /\ FinishAs \subseteq FinishState /\ Stops \subseteq {"FAIL", "RECOVER"}
  /\ None \notin Account \cup Attempt \cup Token \cup Pool \cup Owner
  /\ IsFiniteSet(Attempt) /\ IsFiniteSet(Operation)

ASSUME FitsAssumption == \A o \in Operation : Fits[o] \subseteq Compatible[o]

\* Both kinds of account are rows of one root.
ASSUME AccountAssumption ==
  \A o, q \in Operation :
    AccountOf[o] \in Account /\ AccountOf[o] = AccountOf[q] => RootOf[o] = RootOf[q]

ASSUME NumberAssumption ==
  /\ Bound \in [Operation -> Nat \ {0}]
  /\ Limit \in [Account -> Nat]
  /\ MaxAttempts \in [Operation -> Nat]
  /\ RootMaxAttempts \in [Root -> Nat]
  /\ MaxOperations \in [Root -> Nat]
  /\ MaxPending \in [Root -> Nat]
  /\ ModelPending \in Nat /\ MaxRoots \in Nat /\ MaxEpoch \in Nat
  /\ Usage \subseteq Nat

VARIABLES
  root,       \* runtime_roots
  op,         \* runtime_operations
  att,        \* runtime_attempts
  budget,     \* reserved and spent of every account
  pool,       \* runtime_pools
  alive,      \* owners whose runtime_owners lease has not run out
  bindings,   \* operations with a row in runtime_completion_bindings
  events,     \* operations whose complete_activity event is in the outbox
  snap,       \* what an open owner transaction read in _owned
  cancelling, \* roots whose cancel() has read the root and not yet written
  finishing,  \* finish_run() between its reads and its write
  binder,     \* state an open bind_completion() read; ABSENT when none is open
  reconciler, \* SCANNED while a reconcile_expired() transaction is open
  scan,       \* state of each row reconcile_expired() selected; FREE if not
  settling,   \* rows locked by confirm_epoch_stopped / settle_idle_unknown
  overrun,    \* history: usage reported beyond the bound, per account
  raced       \* history: attempts reclaimed by a state they had left since the scan

rows == <<root, op, att, budget, pool, alive, bindings, events>>
history == <<overrun, raced>>
open == <<snap, cancelling, finishing, binder, reconciler, scan, settling>>
vars == <<rows, open, history>>

-----------------------------------------------------------------------------
(* Row states.                                                             *)

RootFinal == {"SUCCEEDED", "PARTIAL", "FAILED", "CANCELLED"}
RootState == {"ABSENT", "RUNNING"} \cup RootFinal

OpFinal == {"SUCCEEDED", "FAILED", "CANCELLED"}
OpQueued == {"READY", "RETRY_WAIT"}
OpState == {"ABSENT", "EXECUTING", "RECONCILING"} \cup OpQueued \cup OpFinal

AttemptFinal == {"RESULT_COMMITTED", "FAILED", "FAILED_NOT_SENT"}
AttemptState ==
  {"FREE", "RESERVED", "SEND_INTENT", "BACKEND_FINISHED", "UNKNOWN"} \cup AttemptFinal

Health == {"HEALTHY", "DEGRADED", "UNAVAILABLE"}

\* finish_run: the terminal state asked for, and the step it has reached.
Finishing == [step : {"IDLE", "COUNT", "WRITE"}, state : FinishState]
NotFinishing == [step |-> "IDLE", state |-> "FAILED"]

\* What _owned reads of the operation and the root; ABSENT when no owner
\* transaction is open on the attempt.
Snapshot ==
  [state : OpState, running : BOOLEAN, cancel : BOOLEAN, expired : BOOLEAN]
Closed == [state |-> "ABSENT", running |-> FALSE, cancel |-> FALSE, expired |-> FALSE]

RootRow == [state : RootState, cancel : BOOLEAN, attempts : Nat,
            operations : Nat, expired : BOOLEAN]
OpRow == [state : OpState, attempts : Nat, active : Attempt \cup {None},
          result : Attempt \cup {None}, expired : BOOLEAN]
AttemptRow == [state : AttemptState, pool : Pool \cup {None}, epoch : Nat,
               owner : Owner \cup {None}, lease : BOOLEAN, compute : BOOLEAN,
               budget : BOOLEAN, sent : BOOLEAN, finished : BOOLEAN,
               committed : BOOLEAN]
\* target is 0 exactly while the pool is not HEALTHY: update_target, which
\* could change it alone, is called by no process.
PoolRow == [health : Health, epoch : Nat, token : Token \cup {None}]

FreeRow == [state |-> "FREE", pool |-> None, epoch |-> 0, owner |-> None,
            lease |-> FALSE, compute |-> FALSE, budget |-> FALSE,
            sent |-> FALSE, finished |-> FALSE, committed |-> FALSE]

TypeOK ==
  /\ root \in [Root -> RootRow]
  /\ op \in [Operation -> OpRow]
  /\ att \in [Attempt -> AttemptRow]
  /\ budget \in [Account -> [reserved : Int, spent : Nat]]
  /\ pool \in [Pool -> PoolRow]
  /\ alive \subseteq Owner
  /\ bindings \subseteq Operation
  /\ events \subseteq Operation
  /\ snap \in [Attempt -> Snapshot]
  /\ cancelling \subseteq Root
  /\ finishing \in [Root -> Finishing]
  /\ binder \in [Operation -> OpState]
  /\ reconciler \in {"IDLE", "SCANNED"}
  /\ scan \in [Attempt -> AttemptState]
  /\ settling \in [Attempt -> {"NO", "FAIL", "RECOVER"}]
  /\ overrun \in [Account -> Nat]
  /\ raced \subseteq Attempt

Init ==
  /\ root = [r \in Root |-> [state |-> "ABSENT", cancel |-> FALSE, attempts |-> 0,
                             operations |-> 0, expired |-> FALSE]]
  /\ op = [o \in Operation |-> [state |-> "ABSENT", attempts |-> 0, active |-> None,
                                result |-> None, expired |-> FALSE]]
  /\ att = [a \in Attempt |-> FreeRow]
  /\ budget = [c \in Account |-> [reserved |-> 0, spent |-> 0]]
  /\ pool = [p \in Pool |-> [health |-> "HEALTHY", epoch |-> 0, token |-> None]]
  /\ alive = Owner
  /\ bindings = {}
  /\ events = {}
  /\ snap = [a \in Attempt |-> Closed]
  /\ cancelling = {}
  /\ finishing = [r \in Root |-> NotFinishing]
  /\ binder = [o \in Operation |-> "ABSENT"]
  /\ reconciler = "IDLE"
  /\ scan = [a \in Attempt |-> "FREE"]
  /\ settling = [a \in Attempt |-> "NO"]
  /\ overrun = [c \in Account |-> 0]
  /\ raced = {}

-----------------------------------------------------------------------------
(* Helpers shared by the transactions.                                     *)

OpsOf(r) == {o \in Operation : RootOf[o] = r}
Pending(o) == op[o].state \notin OpFinal \cup {"ABSENT"}

\* root["state"], root["cancel_requested"] and root["deadline"] admit work.
RootOpen(r) == root[r].state = "RUNNING" /\ ~root[r].cancel /\ ~root[r].expired

\* The attempt has not been settled.
Live(a) == att[a].state \notin AttemptFinal \cup {"FREE"}

\* The owner's lease, or the row's own one, still covers the attempt.
OwnerAlive(a) == att[a].owner \in alive
Lapsed(a) == ~att[a].lease /\ ~OwnerAlive(a)

\* FOR UPDATE on the pool row, held by confirm_epoch_stopped and
\* settle_idle_unknown until every selected attempt is settled.
PoolLocked(p) == \E a \in Attempt : settling[a] # "NO" /\ att[a].pool = p

\* _terminal: guarded by the operation's state; its completion events follow
\* whether or not the update applied.
Terminated(row, s) == IF row.state \in OpFinal \cup {"ABSENT"} THEN row
                      ELSE [row EXCEPT !.state = s]
TerminateAll(S, s) ==
  op' = [o \in Operation |-> IF o \in S THEN Terminated(op[o], s) ELSE op[o]]

\* _completion_events: one complete_activity event per binding.
CompletionEvents(S) == events' = events \cup (S \cap bindings)

\* Mutant of Settle: the reservation is charged and never returned.
SettleLeaking(a, usage) ==
  LET c == AccountOf[OpOf[a]]
  IN /\ budget' = IF att[a].budget THEN [budget EXCEPT ![c].spent = @ + usage] ELSE budget
     /\ UNCHANGED <<overrun, root, pool>>

\* Mutant of Settle: overspending an account does not stop the root.
SettleForgiving(a, usage) ==
  LET o == OpOf[a]
      c == AccountOf[o]
      held == att[a].budget
  IN /\ budget' = IF held
                  THEN [budget EXCEPT ![c].reserved = @ - Bound[o], ![c].spent = @ + usage]
                  ELSE budget
     /\ overrun' = IF held /\ usage > Bound[o]
                   THEN [overrun EXCEPT ![c] = @ + (usage - Bound[o])]
                   ELSE overrun
     /\ UNCHANGED <<root, pool>>

\* _settle: give the reservation back and record the usage, once per attempt.
Settle(a, usage) ==
  LET o == OpOf[a]
      c == AccountOf[o]
      held == att[a].budget
  IN /\ budget' = IF held
                  THEN [budget EXCEPT ![c].reserved = @ - Bound[o], ![c].spent = @ + usage]
                  ELSE budget
     /\ overrun' = IF held /\ usage > Bound[o]
                   THEN [overrun EXCEPT ![c] = @ + (usage - Bound[o])]
                   ELSE overrun
     /\ root' = IF held /\ root[RootOf[o]].state = "RUNNING"
                        /\ budget[c].spent + usage > Limit[c]
                THEN [root EXCEPT ![RootOf[o]].state = "FAILED"]
                ELSE root
     /\ pool' = IF held /\ usage > Bound[o]
                THEN [pool EXCEPT ![att[a].pool].health = "DEGRADED"]
                ELSE pool

-----------------------------------------------------------------------------
(* Time and owners.                                                        *)

RootDeadline(r) ==
  /\ r \in Deadlined /\ root[r].state # "ABSENT" /\ ~root[r].expired
  /\ root' = [root EXCEPT ![r].expired = TRUE]
  /\ UNCHANGED <<op, att, budget, pool, alive, bindings, events, history, open>>

OperationDeadline(o) ==
  /\ o \in Deadlined /\ ~op[o].expired
  /\ op' = [op EXCEPT ![o].expired = TRUE]
  /\ UNCHANGED <<root, att, budget, pool, alive, bindings, events, history, open>>

AttemptLeaseLapse(a) ==
  /\ att[a].lease /\ Live(a)
  /\ att' = [att EXCEPT ![a].lease = FALSE]
  /\ UNCHANGED <<root, op, budget, pool, alive, bindings, events, history, open>>

OwnerLapse(w) ==
  /\ w \in alive
  /\ alive' = alive \ {w}
  /\ UNCHANGED <<root, op, att, budget, pool, bindings, events, history, open>>

\* register_owner and heartbeat_owner of the same boot: a lapsed lease is
\* simply renewed.
HeartbeatOwner(w) ==
  /\ w \notin alive
  /\ alive' = alive \cup {w}
  /\ UNCHANGED <<root, op, att, budget, pool, bindings, events, history, open>>

-----------------------------------------------------------------------------
(* Roots and operations.                                                   *)

CreateRoot(r) ==
  /\ root[r].state = "ABSENT" /\ ~root[r].expired
  /\ Cardinality({q \in Root : root[q].state = "RUNNING"}) < MaxRoots
  /\ root' = [root EXCEPT ![r].state = "RUNNING"]
  /\ UNCHANGED <<op, att, budget, pool, alive, bindings, events, history, open>>

SubmitOperation(o) ==
  LET r == RootOf[o]
  IN /\ op[o].state = "ABSENT"
     /\ RootOpen(r)
     /\ AccountOf[o] \in Account
     /\ root[r].operations < MaxOperations[r]
     /\ \/ op[o].expired
        \/ /\ Cardinality({x \in OpsOf(r) : Pending(x)}) < MaxPending[r]
           /\ Cardinality({x \in Operation : ModelOf[x] = ModelOf[o] /\ Pending(x)})
                < ModelPending
     /\ op' = [op EXCEPT ![o].state = IF op[o].expired THEN "FAILED" ELSE "READY"]
     /\ root' = [root EXCEPT ![r].operations = @ + 1]
     /\ UNCHANGED <<att, budget, pool, alive, bindings, events, history, open>>

\* cancel: the root is read without a lock ...
CancelRead(r) ==
  /\ r \in Cancellable
  /\ root[r].state \in {"RUNNING", "CANCELLED"} /\ r \notin cancelling
  /\ cancelling' = cancelling \cup {r}
  /\ UNCHANGED <<rows, history, snap, finishing, binder, reconciler, scan, settling>>

\* Mutant of CancelWrite: the operations' terminal states are not spared.
CancelWriteAll(r) ==
  /\ r \in cancelling
  /\ cancelling' = cancelling \ {r}
  /\ root' = [root EXCEPT ![r].state = "CANCELLED", ![r].cancel = TRUE]
  /\ op' = [o \in Operation |-> IF RootOf[o] = r /\ op[o].state # "ABSENT"
                                THEN [op[o] EXCEPT !.state = "CANCELLED"] ELSE op[o]]
  /\ CompletionEvents(OpsOf(r))
  /\ UNCHANGED <<att, budget, pool, alive, bindings, history>>
  /\ UNCHANGED <<snap, finishing, binder, reconciler, scan, settling>>

\* ... and written whatever it has become.
CancelWrite(r) ==
  /\ r \in cancelling
  /\ cancelling' = cancelling \ {r}
  /\ root' = [root EXCEPT ![r].state = "CANCELLED", ![r].cancel = TRUE]
  /\ TerminateAll({o \in OpsOf(r) : Pending(o)}, "CANCELLED")
  /\ CompletionEvents({o \in OpsOf(r) : Pending(o)})
  /\ UNCHANGED <<att, budget, pool, alive, bindings, history>>
  /\ UNCHANGED <<snap, finishing, binder, reconciler, scan, settling>>

\* finish_run: an unlocked read of the root, an unlocked count of its pending
\* operations, then the write.
FinishRead(r, s) ==
  /\ root[r].state = "RUNNING" /\ finishing[r].step = "IDLE"
  /\ LET asked == IF root[r].expired THEN "FAILED" ELSE s
     IN finishing' = [finishing EXCEPT ![r] =
          [step |-> IF asked = "SUCCEEDED" THEN "COUNT" ELSE "WRITE", state |-> asked]]
  /\ UNCHANGED <<rows, history, snap, cancelling, binder, reconciler, scan, settling>>

FinishCount(r) ==
  /\ finishing[r].step = "COUNT"
  /\ finishing' = [finishing EXCEPT ![r] =
       IF \E o \in OpsOf(r) : Pending(o) THEN NotFinishing ELSE [@ EXCEPT !.step = "WRITE"]]
  /\ UNCHANGED <<rows, history, snap, cancelling, binder, reconciler, scan, settling>>

FinishWrite(r) ==
  LET final == IF root[r].expired THEN "FAILED" ELSE finishing[r].state
      stopped == IF final = "SUCCEEDED" THEN {} ELSE {o \in OpsOf(r) : Pending(o)}
  IN /\ finishing[r].step = "WRITE"
     /\ finishing' = [finishing EXCEPT ![r] = NotFinishing]
     /\ root' = [root EXCEPT ![r].state = final]
     /\ TerminateAll(stopped, "CANCELLED")
     /\ CompletionEvents(stopped)
     /\ UNCHANGED <<att, budget, pool, alive, bindings, history>>
     /\ UNCHANGED <<snap, cancelling, binder, reconciler, scan, settling>>

\* bind_completion: an unlocked read of the operation, then the insert; the
\* events follow only if the operation was terminal when it was read.
BindRead(o) ==
  /\ o \in Awaited
  /\ op[o].state # "ABSENT" /\ binder[o] = "ABSENT" /\ o \notin bindings
  /\ binder' = [binder EXCEPT ![o] = op[o].state]
  /\ UNCHANGED <<rows, history, snap, cancelling, finishing, reconciler, scan, settling>>

BindWrite(o) ==
  /\ binder[o] # "ABSENT"
  /\ binder' = [binder EXCEPT ![o] = "ABSENT"]
  /\ bindings' = bindings \cup {o}
  /\ events' = IF binder[o] \in OpFinal THEN events \cup {o} ELSE events
  /\ UNCHANGED <<root, op, att, budget, pool, alive, history>>
  /\ UNCHANGED <<snap, cancelling, finishing, reconciler, scan, settling>>

-----------------------------------------------------------------------------
(* reserve_next: one iteration of its loop over the candidates.            *)

Candidate(p, o) ==
  /\ pool[p].health = "HEALTHY" /\ ~PoolLocked(p)
  /\ RootOpen(RootOf[o])
  /\ op[o].state \in OpQueued
  /\ p \in Fits[o]

\* The operation can never be sent again: _expire_operation, max_attempts,
\* root_attempt_budget or root_budget_exhausted.
Exhausted(o) ==
  \/ op[o].expired
  \/ op[o].attempts >= MaxAttempts[o]
  \/ root[RootOf[o]].attempts >= RootMaxAttempts[RootOf[o]]
  \/ budget[AccountOf[o]].spent + Bound[o] > Limit[AccountOf[o]]

RefuseCandidate(p, o) ==
  /\ Candidate(p, o) /\ Exhausted(o)
  /\ TerminateAll({o}, "FAILED")
  /\ CompletionEvents({o})
  /\ UNCHANGED <<root, att, budget, pool, alive, bindings, history, open>>

\* The budget leaves room beside what other attempts hold.
Affordable(o) ==
  LET b == budget[AccountOf[o]]
  IN b.spent + b.reserved + Bound[o] <= Limit[AccountOf[o]]

\* attempt_number = max(attempt_number) + 1 of the operation.
NextNumber(a) ==
  \A b \in Attempt : OpOf[b] = OpOf[a] =>
    (att[b].state = "FREE" <=> Number[b] >= Number[a])

Reserve(p, w, a) ==
  LET o == OpOf[a]
  IN /\ Candidate(p, o) /\ ~Exhausted(o) /\ Affordable(o)
     /\ NextNumber(a)
     /\ att' = [att EXCEPT ![a] = [FreeRow EXCEPT
                  !.state = "RESERVED", !.pool = p, !.epoch = pool[p].epoch,
                  !.owner = w, !.lease = TRUE]]
     /\ op' = [op EXCEPT ![o].state = "EXECUTING", ![o].active = a]
     /\ UNCHANGED <<root, budget, pool, alive, bindings, events, history, open>>

-----------------------------------------------------------------------------
(* The transactions of an attempt's owner.  _owned selects the attempt FOR *)
(* UPDATE joined with its operation and root, which it does not lock: what *)
(* it saw of those two is snap[a], and stays what it was while the select  *)
(* waits for the attempt's lock.  The attempt itself is current.           *)

Owned(a) ==
  LET o == OpOf[a]
      r == RootOf[o]
  IN /\ att[a].state # "FREE" /\ snap[a] = Closed
     /\ op[o].active = a
     /\ snap' = [snap EXCEPT ![a] = [state |-> op[o].state,
          running |-> root[r].state = "RUNNING", cancel |-> root[r].cancel,
          expired |-> op[o].expired]]
     /\ UNCHANGED <<rows, history, cancelling, finishing, binder, reconciler, scan, settling>>

\* An owner transaction goes on: its snapshot is taken and the row is free.
Proceeds(a) ==
  /\ snap[a] # Closed /\ settling[a] = "NO"
  /\ snap' = [snap EXCEPT ![a] = Closed]

\* It raises, or returns early, and changes nothing.
Rollback(a) ==
  /\ Proceeds(a)
  /\ UNCHANGED <<rows, history, cancelling, finishing, binder, reconciler, scan, settling>>

\* The owner's process dies: all its open transactions roll back at once.
OwnerCrash(w) ==
  /\ snap' = [a \in Attempt |-> IF att[a].owner = w THEN Closed ELSE snap[a]]
  /\ UNCHANGED <<rows, history, cancelling, finishing, binder, reconciler, scan, settling>>

\* Mutant of Sendable: what _owned saw is not read again under the locks.
SendableAsSeen(a) ==
  /\ att[a].state = "RESERVED" /\ ~Lapsed(a)
  /\ snap[a].state = "EXECUTING" /\ snap[a].running /\ ~snap[a].cancel

\* mark_send re-reads root, operation and budget under their locks.
Sendable(a) ==
  LET o == OpOf[a]
  IN /\ att[a].state = "RESERVED" /\ ~Lapsed(a)
     /\ snap[a].state = "EXECUTING" /\ snap[a].running /\ ~snap[a].cancel
     /\ RootOpen(RootOf[o])
     /\ ~op[o].expired
     /\ op[o].state = "EXECUTING" /\ op[o].active = a

\* Mutant of SendBudget: the room that reserve_next found is not checked again.
SendBudgetAsReserved(o) ==
  /\ op[o].attempts < MaxAttempts[o]
  /\ root[RootOf[o]].attempts < RootMaxAttempts[RootOf[o]]
  /\ AccountOf[o] \in Account

\* Otherwise: SendBudgetUnavailable.
SendBudget(o) ==
  /\ op[o].attempts < MaxAttempts[o]
  /\ root[RootOf[o]].attempts < RootMaxAttempts[RootOf[o]]
  /\ AccountOf[o] \in Account
  /\ Affordable(o)

\* Mutant of MarkSend: only the root's counter is raised.
MarkSendUncounted(a) ==
  LET o == OpOf[a]
  IN /\ Proceeds(a)
     /\ Sendable(a) /\ SendBudget(o)
     /\ root' = [root EXCEPT ![RootOf[o]].attempts = @ + 1]
     /\ budget' = [budget EXCEPT ![AccountOf[o]].reserved = @ + Bound[o]]
     /\ att' = [att EXCEPT ![a].state = "SEND_INTENT", ![a].compute = TRUE,
                           ![a].budget = TRUE, ![a].sent = TRUE]
     /\ UNCHANGED <<op, pool, alive, bindings, events, history>>
     /\ UNCHANGED <<cancelling, finishing, binder, reconciler, scan, settling>>

MarkSend(a) ==
  LET o == OpOf[a]
  IN /\ Proceeds(a)
     /\ Sendable(a) /\ SendBudget(o)
     /\ op' = [op EXCEPT ![o].attempts = @ + 1]
     /\ root' = [root EXCEPT ![RootOf[o]].attempts = @ + 1]
     /\ budget' = [budget EXCEPT ![AccountOf[o]].reserved = @ + Bound[o]]
     /\ att' = [att EXCEPT ![a].state = "SEND_INTENT", ![a].compute = TRUE,
                           ![a].budget = TRUE, ![a].sent = TRUE]
     /\ UNCHANGED <<pool, alive, bindings, events, history>>
     /\ UNCHANGED <<cancelling, finishing, binder, reconciler, scan, settling>>

\* heartbeat: the row's own lease is renewed only for an owner without one.
Heartbeat(a) ==
  /\ att[a].state \in {"RESERVED", "SEND_INTENT", "BACKEND_FINISHED"}
  /\ op[OpOf[a]].active = a /\ settling[a] = "NO"
  /\ ~OwnerAlive(a) /\ ~att[a].lease
  /\ att' = [att EXCEPT ![a].lease = TRUE]
  /\ UNCHANGED <<root, op, budget, pool, alive, bindings, events, history, open>>

\* Mutant of ComputeFinished: the operation succeeds before its result is stored.
ComputeFinishedEarly(a) ==
  /\ Proceeds(a)
  /\ att[a].state \notin AttemptFinal
  /\ att' = [att EXCEPT ![a].state = "BACKEND_FINISHED", ![a].compute = FALSE,
                        ![a].finished = TRUE]
  /\ op' = [op EXCEPT ![OpOf[a]].state = "SUCCEEDED"]
  /\ UNCHANGED <<root, budget, pool, alive, bindings, events, history>>
  /\ UNCHANGED <<cancelling, finishing, binder, reconciler, scan, settling>>

ComputeFinished(a) ==
  /\ Proceeds(a)
  /\ att[a].state \notin AttemptFinal
  /\ att' = [att EXCEPT ![a].state = "BACKEND_FINISHED", ![a].compute = FALSE,
                        ![a].finished = TRUE]
  /\ UNCHANGED <<root, op, budget, pool, alive, bindings, events, history>>
  /\ UNCHANGED <<cancelling, finishing, binder, reconciler, scan, settling>>

\* commit_result publishes by what _owned saw: the update of the operation
\* does not look at its state again.
Publishes(a) ==
  /\ snap[a].running /\ ~snap[a].cancel /\ ~snap[a].expired
  /\ snap[a].state \notin OpFinal

CommitResult(a, usage) ==
  LET o == OpOf[a]
  IN /\ Proceeds(a)
     /\ att[a].state = "BACKEND_FINISHED" /\ ~att[a].compute
     /\ Settle(a, usage)
     /\ att' = [att EXCEPT ![a].state = "RESULT_COMMITTED", ![a].committed = TRUE,
                           ![a].budget = FALSE]
     /\ op' = [op EXCEPT ![o] =
          IF Publishes(a) THEN [@ EXCEPT !.state = "SUCCEEDED", !.result = a]
          ELSE IF snap[a].state \in OpFinal /\ ~snap[a].expired THEN @
          ELSE Terminated(@, "FAILED")]
     /\ CompletionEvents({o})
     /\ UNCHANGED <<alive, bindings, raced>>
     /\ UNCHANGED <<cancelling, finishing, binder, reconciler, scan, settling>>

Unknown(a) ==
  LET o == OpOf[a]
      seen == snap[a]
  IN /\ Proceeds(a)
     /\ att[a].state \notin AttemptFinal
     /\ att' = [att EXCEPT ![a].state = "UNKNOWN"]
     /\ op' = [op EXCEPT ![o] =
          IF seen.expired THEN Terminated(@, "FAILED")
          ELSE IF seen.state \in OpFinal THEN @
          ELSE [@ EXCEPT !.state = "RECONCILING"]]
     /\ IF seen.expired THEN CompletionEvents({o}) ELSE UNCHANGED events
     /\ UNCHANGED <<root, budget, pool, alive, bindings, history>>
     /\ UNCHANGED <<cancelling, finishing, binder, reconciler, scan, settling>>

\* Mutant of FailedOperation: the attempt's state is written to the operation.
FailedOperationState(a, retry) ==
  [op[OpOf[a]] EXCEPT !.state = IF retry THEN "RETRY_WAIT" ELSE "FAILED_NOT_SENT"]

\* fail: the operation is retried, or ends, by what _owned saw.
FailedOperation(a, retry) ==
  LET seen == snap[a]
      row == op[OpOf[a]]
  IN IF seen.state \in OpFinal THEN row
     ELSE IF seen.cancel THEN Terminated(row, "CANCELLED")
     ELSE IF ~seen.running \/ seen.expired \/ ~retry THEN Terminated(row, "FAILED")
     ELSE [row EXCEPT !.state = "RETRY_WAIT"]

Fail(a, notSent, retry) ==
  LET o == OpOf[a]
      seen == snap[a]
      retried == ~seen.cancel /\ seen.running /\ ~seen.expired /\ retry
  IN /\ Proceeds(a)
     /\ att[a].state \notin AttemptFinal
     /\ att[a].compute => notSent
     /\ Settle(a, IF notSent THEN 0 ELSE Bound[o])
     /\ att' = [att EXCEPT ![a].state = IF notSent THEN "FAILED_NOT_SENT" ELSE "FAILED",
                           ![a].compute = FALSE, ![a].budget = FALSE]
     /\ op' = [op EXCEPT ![o] = FailedOperation(a, retry)]
     /\ IF seen.state \in OpFinal \/ retried THEN UNCHANGED events ELSE CompletionEvents({o})
     /\ UNCHANGED <<alive, bindings, raced>>
     /\ UNCHANGED <<cancelling, finishing, binder, reconciler, scan, settling>>

-----------------------------------------------------------------------------
(* reconcile_expired: one transaction that fails the expired operations,   *)
(* selects the attempts to reclaim without locking them, and then updates  *)
(* each by the state it selected.                                          *)

Reclaimable(a) ==
  /\ \/ att[a].state \in {"RESERVED", "SEND_INTENT"}
     \/ att[a].state = "BACKEND_FINISHED" /\ att[a].compute
  /\ \/ Lapsed(a)
     \/ att[a].state = "RESERVED" /\ (op[OpOf[a]].state \in OpFinal \/ op[OpOf[a]].expired)

ReconcileScan ==
  LET late == {o \in Operation : Pending(o) /\ op[o].expired}
  IN /\ reconciler = "IDLE"
     /\ reconciler' = "SCANNED"
     /\ TerminateAll(late, "FAILED")
     /\ CompletionEvents(late)
     /\ scan' = [a \in Attempt |-> IF Reclaimable(a) THEN att[a].state ELSE "FREE"]
     /\ UNCHANGED <<root, att, budget, pool, alive, bindings, history>>
     /\ UNCHANGED <<snap, cancelling, finishing, binder, settling>>

\* The row was RESERVED when it was selected, so _settle finds no budget held.
ReclaimReserved(a) ==
  LET o == OpOf[a]
  IN /\ scan[a] = "RESERVED" /\ settling[a] = "NO"
     /\ scan' = [scan EXCEPT ![a] = "FREE"]
     /\ raced' = IF att[a].state = scan[a] THEN raced ELSE raced \cup {a}
     /\ att' = [att EXCEPT ![a].state = "FAILED_NOT_SENT", ![a].compute = FALSE]
     /\ op' = IF Pending(o) THEN [op EXCEPT ![o].state = "READY", ![o].active = None] ELSE op
     /\ UNCHANGED <<root, budget, pool, alive, bindings, events, overrun>>
     /\ UNCHANGED <<snap, cancelling, finishing, binder, reconciler, settling>>

\* Mutant of ReclaimSent: the operation is retried while its attempt may compute.
ReclaimSentRetrying(a) ==
  LET o == OpOf[a]
  IN /\ scan[a] \in {"SEND_INTENT", "BACKEND_FINISHED"} /\ settling[a] = "NO"
     /\ scan' = [scan EXCEPT ![a] = "FREE"]
     /\ raced' = IF att[a].state = scan[a] THEN raced ELSE raced \cup {a}
     /\ att' = [att EXCEPT ![a].state = "UNKNOWN"]
     /\ op' = IF Pending(o) THEN [op EXCEPT ![o].state = "READY"] ELSE op
     /\ UNCHANGED <<root, budget, pool, alive, bindings, events, overrun>>
     /\ UNCHANGED <<snap, cancelling, finishing, binder, reconciler, settling>>

ReclaimSent(a) ==
  LET o == OpOf[a]
  IN /\ scan[a] \in {"SEND_INTENT", "BACKEND_FINISHED"} /\ settling[a] = "NO"
     /\ scan' = [scan EXCEPT ![a] = "FREE"]
     /\ raced' = IF att[a].state = scan[a] THEN raced ELSE raced \cup {a}
     /\ att' = [att EXCEPT ![a].state = "UNKNOWN"]
     /\ op' = IF Pending(o) THEN [op EXCEPT ![o].state = "RECONCILING"] ELSE op
     /\ UNCHANGED <<root, budget, pool, alive, bindings, events, overrun>>
     /\ UNCHANGED <<snap, cancelling, finishing, binder, reconciler, settling>>

\* Mutant of ReconcileFinish: operations of ended roots are left alone.
ReconcileFinishRoots ==
  LET overdue == {r \in Root : root[r].state = "RUNNING" /\ root[r].expired}
  IN /\ reconciler = "SCANNED" /\ \A a \in Attempt : scan[a] = "FREE"
     /\ reconciler' = "IDLE"
     /\ root' = [r \in Root |-> IF r \in overdue THEN [root[r] EXCEPT !.state = "FAILED"]
                                ELSE root[r]]
     /\ UNCHANGED <<op, events, att, budget, pool, alive, bindings, history>>
     /\ UNCHANGED <<snap, cancelling, finishing, binder, scan, settling>>

\* The rest of the transaction: queued operations of an expired root or too
\* large for every compatible pool, expired roots, operations of roots that have ended.
ReconcileFinish ==
  LET oversized == {o \in Operation : Compatible[o] # {} /\ Fits[o] = {}}
      unfit == {o \in Operation : op[o].state \in OpQueued
                                  /\ (root[RootOf[o]].expired \/ o \in oversized)}
      overdue == {r \in Root : root[r].state = "RUNNING" /\ root[r].expired}
      orphans == {o \in Operation : Pending(o) /\ o \notin unfit
                    /\ (root[RootOf[o]].state # "RUNNING" \/ RootOf[o] \in overdue)}
  IN /\ reconciler = "SCANNED" /\ \A a \in Attempt : scan[a] = "FREE"
     /\ reconciler' = "IDLE"
     /\ op' = [o \in Operation |-> IF o \in unfit THEN Terminated(op[o], "FAILED")
                                   ELSE IF o \in orphans THEN Terminated(op[o], "CANCELLED")
                                   ELSE op[o]]
     /\ root' = [r \in Root |-> IF r \in overdue THEN [root[r] EXCEPT !.state = "FAILED"]
                                ELSE root[r]]
     /\ CompletionEvents(unfit \cup orphans)
     /\ UNCHANGED <<att, budget, pool, alive, bindings, history>>
     /\ UNCHANGED <<snap, cancelling, finishing, binder, scan, settling>>

-----------------------------------------------------------------------------
(* Attempts whose inference is proven over.                                *)

\* can_retry of _settle_stopped_attempt, read after _settle in the same
\* transaction.
CanRetry(o) ==
  /\ RootOpen(RootOf[o])' /\ ~op[o].expired
  /\ op[o].attempts < MaxAttempts[o]
  /\ root[RootOf[o]].attempts < RootMaxAttempts[RootOf[o]]
  /\ AccountOf[o] \in Account /\ Affordable(o)'

\* operation_state may have been read before the operation ended: whatever ends
\* it meanwhile also closes the root or passes the deadline, so that can_retry
\* is false and _terminal changes nothing.
SettleStopped(a, recover) ==
  LET o == OpOf[a]
  IN /\ Settle(a, IF att[a].state = "RESERVED" THEN 0 ELSE Bound[o])
     /\ att' = [att EXCEPT ![a].state = "FAILED", ![a].compute = FALSE,
                           ![a].budget = FALSE, ![a].finished = TRUE]
     /\ \/ /\ ~Pending(o)
           /\ UNCHANGED <<op, events>>
        \/ /\ Pending(o) /\ recover /\ CanRetry(o)
           /\ op' = IF op[o].active = a
                    THEN [op EXCEPT ![o].state = "RETRY_WAIT", ![o].active = None]
                    ELSE op
           /\ UNCHANGED events
        \/ /\ Pending(o) /\ ~(recover /\ CanRetry(o))
           /\ TerminateAll({o}, "FAILED")
           /\ CompletionEvents({o})
     /\ UNCHANGED <<alive, bindings, raced>>
     /\ UNCHANGED <<snap, cancelling, finishing, binder, reconciler, scan>>

\* Mutant of Lost: an UNKNOWN attempt whose backend has finished is passed over.
LostUncommitted(a) ==
  ~att[a].compute /\ ~att[a].committed /\ att[a].state = "BACKEND_FINISHED" /\ Lapsed(a)

\* The backend is done, and no owner can commit what it produced.
Lost(a) ==
  /\ ~att[a].compute /\ ~att[a].committed
  /\ \/ att[a].state = "BACKEND_FINISHED" /\ Lapsed(a)
     \/ att[a].state = "UNKNOWN" /\ att[a].finished

\* _settle_lost_results re-checks the row under its lock.
SettleLostResult(a) ==
  /\ Lost(a) /\ settling[a] = "NO"
  /\ SettleStopped(a, TRUE)
  /\ UNCHANGED settling

\* settle_idle_unknown, for one of the attempts the probes proved idle.
SettleIdleUnknown(a) ==
  /\ att[a].state = "UNKNOWN" /\ att[a].compute /\ settling[a] = "NO"
  /\ att[a].epoch = pool[att[a].pool].epoch /\ ~PoolLocked(att[a].pool)
  /\ SettleStopped(a, TRUE)
  /\ UNCHANGED settling

\* confirm_epoch_stopped: close the pool and lock its unsettled attempts ...
ConfirmStopped(p, mode) ==
  /\ ~PoolLocked(p)
  /\ mode = "RECOVER" => pool[p].health \in {"DEGRADED", "UNAVAILABLE"}
  /\ pool' = [pool EXCEPT ![p].health = "UNAVAILABLE"]
  /\ settling' = [a \in Attempt |->
       IF /\ att[a].pool = p /\ att[a].epoch = pool[p].epoch
          /\ att[a].compute \/ att[a].budget
          /\ ~(mode = "RECOVER" /\ att[a].state = "BACKEND_FINISHED" /\ ~att[a].compute)
       THEN mode ELSE settling[a]]
  /\ UNCHANGED <<root, op, att, budget, alive, bindings, events, history>>
  /\ UNCHANGED <<snap, cancelling, finishing, binder, reconciler, scan>>

\* ... which it then settles one by one.
SettleConfirmed(a) ==
  /\ settling[a] # "NO"
  /\ SettleStopped(a, settling[a] = "RECOVER")
  /\ settling' = [settling EXCEPT ![a] = "NO"]

-----------------------------------------------------------------------------
(* Engine maintenance.                                                     *)

QuiesceEngine(p, t) ==
  /\ pool[p].health = "HEALTHY" /\ pool[p].token \in {None, t} /\ ~PoolLocked(p)
  /\ pool' = [pool EXCEPT ![p].health = "DEGRADED", ![p].token = t]
  /\ UNCHANGED <<root, op, att, budget, alive, bindings, events, history, open>>

ResumeEngine(p, t) ==
  /\ pool[p].health = "DEGRADED" /\ pool[p].token = t /\ ~PoolLocked(p)
  /\ \A a \in Attempt : att[a].pool = p => ~att[a].compute
  /\ pool' = [pool EXCEPT ![p].health = "HEALTHY", ![p].token = None]
  /\ UNCHANGED <<root, op, att, budget, alive, bindings, events, history, open>>

\* configure_pool with the specification of a new engine epoch.
ConfigurePool(p) ==
  /\ pool[p].epoch < MaxEpoch /\ ~PoolLocked(p)
  /\ \A a \in Attempt : att[a].pool = p => ~att[a].compute /\ ~att[a].budget
  /\ pool' = [pool EXCEPT ![p] = [health |-> "HEALTHY", epoch |-> @.epoch + 1, token |-> None]]
  /\ UNCHANGED <<root, op, att, budget, alive, bindings, events, history, open>>

-----------------------------------------------------------------------------
TimeStep ==
  \/ \E r \in Root : RootDeadline(r)
  \/ \E o \in Operation : OperationDeadline(o)
  \/ \E a \in Attempt : AttemptLeaseLapse(a)
  \/ \E w \in Owner : OwnerLapse(w) \/ HeartbeatOwner(w)

ClientStep ==
  \/ \E r \in Root : CreateRoot(r) \/ CancelRead(r) \/ CancelWrite(r)
                     \/ FinishCount(r) \/ FinishWrite(r)
  \/ \E r \in Root, s \in FinishAs : FinishRead(r, s)
  \/ \E o \in Operation : SubmitOperation(o) \/ BindRead(o) \/ BindWrite(o)

OwnerStep ==
  \/ \E p \in Pool, o \in Operation : RefuseCandidate(p, o)
  \/ \E p \in Pool, w \in Owner, a \in Attempt : Reserve(p, w, a)
  \/ \E w \in Owner : OwnerCrash(w)
  \/ \E a \in Attempt : \/ Owned(a) \/ Rollback(a) \/ Heartbeat(a) \/ MarkSend(a)
                        \/ ComputeFinished(a) \/ Unknown(a)
  \/ \E a \in Attempt, u \in Usage : CommitResult(a, u)
  \/ \E a \in Attempt, notSent, retry \in BOOLEAN : Fail(a, notSent, retry)

MaintenanceStep ==
  \/ ReconcileScan \/ ReconcileFinish
  \/ \E a \in Attempt : \/ ReclaimReserved(a) \/ ReclaimSent(a) \/ SettleLostResult(a)
                        \/ SettleIdleUnknown(a) \/ SettleConfirmed(a)
  \/ \E p \in Pool, mode \in Stops : ConfirmStopped(p, mode)
  \/ \E p \in Pool, t \in Token : QuiesceEngine(p, t) \/ ResumeEngine(p, t)
  \/ \E p \in Pool : ConfigurePool(p)

Next == TimeStep \/ ClientStep \/ OwnerStep \/ MaintenanceStep

Spec == Init /\ [][Next]_vars

\* The reconciler process calls reconcile_expired every 5 seconds, an operator
\* transaction that is open completes, and deadlines pass.
Fairness ==
  /\ WF_vars(ReconcileScan) /\ WF_vars(ReconcileFinish)
  /\ \A a \in Attempt : /\ WF_vars(ReclaimReserved(a)) /\ WF_vars(ReclaimSent(a))
                        /\ WF_vars(SettleConfirmed(a))
  /\ \A r \in Root : WF_vars(RootDeadline(r))

FairSpec == Spec /\ Fairness

-----------------------------------------------------------------------------
(* What the ledger guarantees to every caller.                             *)

Sent(S) == {a \in Attempt : OpOf[a] \in S /\ att[a].sent}

\* No operation and no root is ever sent to an engine more often than its
\* max_attempts: the counters mark_send checks under the row locks are the
\* number of attempt rows with a send intent, whoever settles them.
SendsCounted ==
  /\ \A o \in Operation : /\ op[o].attempts = Cardinality(Sent({o}))
                          /\ op[o].attempts <= MaxAttempts[o]
  /\ \A r \in Root : /\ root[r].attempts = Cardinality(Sent(OpsOf(r)))
                     /\ root[r].attempts <= RootMaxAttempts[r]

\* The units an account holds reserved are those of the attempts that still
\* hold budget: none is given back twice, none is lost by a settlement.
HeldUnits(c) ==
  UNION {{a} \X (1..Bound[OpOf[a]]) :
           a \in {b \in Attempt : att[b].budget /\ AccountOf[OpOf[b]] = c}}
ReservedIsHeld ==
  \A c \in Account : budget[c].reserved = Cardinality(HeldUnits(c))

\* What is spent and reserved passes the accepted limit only by usage that an
\* engine reported beyond the bound of its operation.
BudgetCap ==
  \A c \in Account : budget[c].spent + budget[c].reserved <= Limit[c] + overrun[c]

\* An account spent beyond its limit leaves no root of it running.
OverspentRootStops ==
  \A o \in Operation : AccountOf[o] \in Account
    /\ budget[AccountOf[o]].spent > Limit[AccountOf[o]] => root[RootOf[o]].state # "RUNNING"

\* An attempt that has not been settled is its operation's active attempt, and
\* the operation is not queued for another one: inference runs for at most one
\* attempt of an operation at a time.
OneLiveAttempt ==
  \A a \in Attempt : Live(a) =>
    /\ op[OpOf[a]].active = a
    /\ op[OpOf[a]].state \notin OpQueued

\* The same, unless reconcile_expired reclaimed a row by a state that the row
\* had left since it was selected.
OneLiveAttemptUnlessRaced == raced = {} => OneLiveAttempt

\* A SUCCEEDED operation has the result that one of its attempts committed.
SucceededHasResult ==
  \A o \in Operation : op[o].state = "SUCCEEDED" =>
    /\ op[o].result \in Attempt
    /\ OpOf[op[o].result] = o /\ att[op[o].result].committed

\* A published result is neither replaced nor withdrawn by a stale or late
\* writer (unless a reclaim raced).
ResultImmutable ==
  [][\A o \in Operation : op[o].state = "SUCCEEDED" /\ raced' = {} =>
       op'[o].state = "SUCCEEDED" /\ op'[o].result = op[o].result]_vars

\* Every accepted operation comes to an end: whatever its owners, clients and
\* operators do or fail to do, the root's deadline and the reconciler end it.
OperationsEnd ==
  \A o \in Operation : (op[o].state # "ABSENT") ~> (op[o].state \in OpFinal)

\* A workflow that waits for an operation is told of its end: the binding of a
\* finished operation has its completion event.
CompletionAnnounced ==
  \A o \in bindings : op[o].state \in OpFinal => o \in events

\* A cancelled root stays cancelled.
CancellationStands ==
  \A r \in Root : root[r].cancel => root[r].state = "CANCELLED"

=============================================================================
