----------------------------- MODULE Scheduler -----------------------------
(***************************************************************************)
(* The endpoint owner of runtime-api (memory_scheduler.py) for one         *)
(* llama.cpp endpoint: permits and waiters in RAM, the maintenance task    *)
(* that refreshes, probes and reconciles them, and what they are reconciled*)
(* with: the pool and owner rows, durable attempts and their executors     *)
(* (permits.py, executor.py), the engine and the operator's procedure.     *)
(* Direct requests are added by DirectProxy through the operators of the   *)
(* section "Calls of the proxy".                                           *)
(*                                                                         *)
(* A coroutine of the scheduler that awaits only other coroutines of its   *)
(* own does not suspend, so it is one action.  Durable attempts are        *)
(* reduced to the ledger states the scheduler can tell apart.              *)
(***************************************************************************)
EXTENDS Integers, FiniteSets

CONSTANTS
  Request,         \* direct requests
  Durable,         \* durable attempts
  Class,           \* workload_class of a request or durable attempt
  TransportLimit,  \* transport_limit of the endpoint
  BackgroundLimit, \* background_transport_limit
  EndpointLimit,   \* direct waiters the endpoint admits
  Deadlined,       \* the requests and attempts whose deadline can pass
  Dying,           \* the durable attempts whose executor process may die
  MaxEpoch,        \* bound: engine processes after the first
  MaxBoot,         \* bound: runtime-api processes after the first
  MaxOutage,       \* bound: refreshes that fail
  MaxCalls         \* bound: acquire calls of one attempt waiting at once

Rank == [qa |-> 0, user_task |-> 1, background |-> 2, maintenance |-> 3]

\* _reserve refuses a generation above 2.
Generation == 0..2
Direct == Request \X Generation
Attempt == Direct \cup Durable
Waiter == Request \cup Durable
ClassOf(a) == IF a \in Direct THEN Class[a[1]] ELSE Class[a]

ASSUME EndpointAssumption ==
  /\ Request \cap Durable = {} /\ Direct \cap Durable = {}
  /\ Class \in [Waiter -> DOMAIN Rank]
  /\ TransportLimit \in Nat /\ BackgroundLimit \in Nat /\ EndpointLimit \in Nat
  /\ Deadlined \subseteq Waiter /\ Dying \subseteq Durable
  /\ MaxEpoch \in Nat /\ MaxBoot \in Nat /\ MaxOutage \in Nat /\ MaxCalls \in Nat \ {0}
  /\ IsFiniteSet(Request) /\ IsFiniteSet(Durable)

VARIABLES
  row,      \* runtime_pools: engine_epoch and health (target is 0 iff not HEALTHY)
  owner,    \* runtime_owners row of the endpoint: it exists, its lease is live
  ledger,   \* state of every durable attempt
  engine,   \* the serving process: its number, and whether it is up
  wire,     \* the HTTP request of an attempt, as the engine sees it
  stray,    \* history: attempts that reached another process than their epoch's
  orphans,  \* history: direct attempts without a permit that were computed when an
            \* orderly end of runtime-api removed the owner row
  forfeited, \* history: durable attempts that had no permit when a runtime-api ended,
            \* and that the next one may yet find sent
  api,      \* the runtime-api process and its flags
  view,     \* self.pools: the row as last refreshed
  permits,  \* self.permits
  rec,      \* the _Permit of every attempt that has or had one
  line,     \* self.waiters by queued_at: <<i, j>> if i waits and j does not wait longer
  task,     \* where _maintain is, with what it read before its last await: the
            \* ids it asks about, and the states the ledger gave for them
  streak,   \* _unknown_idle: attempts a first probe proved idle, its epoch
  exec,     \* where the executor of a durable attempt is
  calls,    \* durable(): calls waiting at the server, whether one is still heard
  expired   \* requests and attempts whose deadline has passed

world == <<row, owner, ledger, engine, wire, stray, orphans, forfeited>>
ram == <<api, view, permits, rec, line, task, streak>>
clients == <<exec, calls, expired>>
schedulerVars == <<world, ram, clients>>

Health == {"HEALTHY", "DEGRADED", "UNAVAILABLE"}
PoolRow == [epoch : 0..MaxEpoch, health : Health]
LedgerHeld == {"SEND_INTENT", "UNKNOWN"}       \* compute_held
LedgerState == {"ABSENT", "RESERVED", "ENDED"} \cup LedgerHeld
Wire == {"NONE", "SENT", "COMPUTING", "ANSWERED", "CLOSED"}
PermitEnd == {"FAILED_NOT_SENT", "FAILED_RECOVERABLE"}
PermitState == {"NONE", "RESERVED", "SEND_INTENT", "UNKNOWN"} \cup PermitEnd
Exec == {"IDLE", "ACQUIRE", "GRANTED", "MARKED", "POSTED", "RELEASE", "DEAD", "DONE"}
Step == {"REFRESH", "PROBE_SLOTS", "RECONCILE", "RECONCILING", "PROBING"}

NoCall == [open |-> 0, heard |-> FALSE]
\* The epoch matters no more once an attempt was not sent, or has finished.
Final(state) == [state |-> state, epoch |-> 0, idle |-> FALSE]
NoPermit == [state |-> "NONE", epoch |-> 0, idle |-> FALSE]
NoStreak == [epoch |-> 0, ids |-> {}]
At(step) == [step |-> step, ids |-> {}, live |-> [d \in {} |-> "NONE"]]

\* The waiters and their order.
Waiting(i) == <<i, i>> \in line
Waiters == {i \in Waiter : Waiting(i)}
UpTo(i) == {j \in Waiters : <<j, i>> \in line}

LinearOrder ==
  /\ \A i, j \in Waiter : <<i, j>> \in line => Waiting(i) /\ Waiting(j)
  /\ \A i, j \in Waiters : <<i, j>> \in line \/ <<j, i>> \in line
  /\ \A i, j \in Waiters : <<i, j>> \in line /\ <<j, i>> \in line => i = j
  /\ \A i, j \in Waiters : <<i, j>> \in line => UpTo(i) \subseteq UpTo(j)

SchedulerTypeOK ==
  /\ row \in PoolRow /\ view \in PoolRow
  /\ owner \in [exists : BOOLEAN, live : BOOLEAN]
  /\ ledger \in [Durable -> LedgerState]
  /\ engine \in [process : 0..MaxEpoch, up : BOOLEAN]
  /\ wire \in [Attempt -> Wire]
  /\ stray \subseteq Attempt /\ permits \subseteq Attempt
  /\ orphans \subseteq Direct /\ forfeited \subseteq Durable
  /\ api \in [up : BOOLEAN, ready : BOOLEAN, dirty : BOOLEAN, idle : 0..1,
              boot : 0..MaxBoot, outage : 0..MaxOutage]
  /\ rec \in [Attempt -> [state : PermitState, epoch : 0..MaxEpoch, idle : BOOLEAN]]
  /\ line \subseteq Waiter \X Waiter /\ LinearOrder
  /\ task.step \in Step /\ task.ids \subseteq Attempt /\ DOMAIN task.live \subseteq task.ids
  /\ \A d \in DOMAIN task.live : task.live[d] \in {"RESERVED", "UNKNOWN"}
  /\ streak.epoch \in 0..MaxEpoch /\ streak.ids \subseteq Attempt
  /\ exec \in [Durable -> Exec]
  /\ calls \in [Durable -> [open : 0..MaxCalls, heard : BOOLEAN]]
  /\ expired \subseteq Deadlined

\* A runtime-api process has started on an endpoint nobody owned.  The later
\* its number and the engine's, the fewer restarts are still to come; an
\* attempt that is DONE never comes.
SchedulerInit ==
  /\ engine \in [process : 0..MaxEpoch, up : {TRUE}]
  /\ row = [epoch |-> engine.process, health |-> "HEALTHY"] /\ view = row
  /\ owner = [exists |-> TRUE, live |-> TRUE]
  /\ ledger = [d \in Durable |-> "ABSENT"]
  /\ wire = [a \in Attempt |-> "NONE"] /\ stray = {} /\ orphans = {} /\ forfeited = {}
  /\ api \in [up : {TRUE}, ready : {TRUE}, dirty : {FALSE}, idle : {0},
              boot : 0..MaxBoot, outage : 0..MaxOutage]
  /\ permits = {} /\ rec = [a \in Attempt |-> NoPermit] /\ line = {}
  /\ task = At("REFRESH") /\ streak = NoStreak
  /\ exec \in [Durable -> {"IDLE", "DONE"}]
  /\ calls = [d \in Durable |-> NoCall]
  /\ expired = {}

-----------------------------------------------------------------------------
(* Order and capacity.                                                     *)

\* The heap orders waiters by class, then by queued_at.
Ahead(i) == {j \in Waiters \ {i} :
  Rank[Class[j]] < Rank[Class[i]] \/ (Rank[Class[j]] = Rank[Class[i]] /\ j \in UpTo(i))}

\* _first: a waiter past its deadline is removed when it is met on the way.
First(i) == Waiting(i) /\ i \notin expired /\ Ahead(i) \subseteq expired
Leave(ids) == line' = {q \in line : q[1] \notin ids /\ q[2] \notin ids}

\* A waiter joins behind those who have waited longer.
Join(i, longer) ==
  line' = line \cup ((longer \cup {i}) \X {i}) \cup ({i} \X (Waiters \ longer))

OtherThanQa(a) == ClassOf(a) # "qa"

\* Mutant of TryAcquire: one permit too many.
TryAcquireOver(class) ==
  /\ view.health = "HEALTHY"
  /\ Cardinality(permits) <= TransportLimit
  /\ class # "qa" =>
       Cardinality({a \in permits : OtherThanQa(a)}) <= BackgroundLimit

\* SlotCapacity of an llm endpoint.
TryAcquire(class) ==
  /\ view.health = "HEALTHY"
  /\ Cardinality(permits) < TransportLimit
  /\ class # "qa" =>
       Cardinality({a \in permits : OtherThanQa(a)}) < BackgroundLimit

\* _ready_by_pool lies in the past once the endpoint is not dirty.
Ready == api.up /\ api.ready /\ ~api.dirty

Release(ids) == permits' = permits \ ids

\* Of the state of a durable permit only UNKNOWN is ever looked at.
Observed(state) == IF state = "UNKNOWN" THEN "UNKNOWN" ELSE "RESERVED"
\* A durable permit that was dropped leaves no record behind.
Kept(a, ids) == IF a \in ids \cap Durable THEN [rec[a] EXCEPT !.state = "NONE"] ELSE rec[a]

\* The llama.cpp /slots probe: a server that is down or loading proves nothing.
Computing == {a \in Attempt : wire[a] = "COMPUTING"}
\* Mutant of SlotsIdle: a server that answers is taken for an idle one.
SlotsUp == engine.up

SlotsIdle == engine.up /\ Computing = {}

-----------------------------------------------------------------------------
(* Calls of the proxy (direct attempts).                                   *)

\* _enqueue refuses a full buffer.
CanEnqueue == Cardinality(Waiters \cap Request) < EndpointLimit
Enqueue(r) == Join(r, Waiters)

\* The permit _reserve and durable make.  Only the latest attempt of a request
\* is ever looked at again.
Granted == [state |-> "RESERVED", epoch |-> view.epoch, idle |-> FALSE]
Replaced(a) == {b \in Direct : a \in Direct /\ b[1] = a[1]}
Grant(a) ==
  /\ permits' = permits \cup {a}
  /\ rec' = [b \in Attempt |-> IF b = a THEN Granted
             ELSE IF b \in Replaced(a) THEN NoPermit ELSE rec[b]]

\* Mutant of Recoverable: only a new engine epoch ends a lost attempt.
RecoverableByEpoch(a) ==
  rec[a].state = "FAILED_RECOVERABLE" /\ rec[a].epoch # view.epoch

\* A failed attempt may be followed by another: its compute is over.
Recoverable(a) ==
  /\ rec[a].state = "FAILED_RECOVERABLE"
  /\ rec[a].epoch # view.epoch \/ rec[a].idle

\* finish: an attempt whose permit is gone keeps the state it has.
Finish(a, state) ==
  /\ Release({a})
  /\ rec' = IF a \in permits THEN [rec EXCEPT ![a] = Final(state)] ELSE rec

\* finish of an attempt no other will follow: its record is not read again.
Discard(a) == Finish(a, "NONE")

\* unknown: likewise; the permit stays.
Uncertain(a) ==
  rec' = IF a \in permits THEN [rec EXCEPT ![a].state = "UNKNOWN"] ELSE rec

-----------------------------------------------------------------------------
(* The maintenance task.  What runs after an await up to the next one      *)
(* belongs to one action: an action ends by entering the next await.       *)

Goto(step) == task' = At(step)

DurablePermits == permits \cap Durable
LostPermits == {a \in permits : rec[a].state = "UNKNOWN"}

\* _settle_idle_unknown asks about the UNKNOWN permits.  Without any the round
\* ends with _expire_requests: waiters past their deadline leave.
EnterSettle ==
  IF LostPermits' = {}
  THEN streak' = NoStreak /\ Goto("REFRESH") /\ Leave(expired)
  ELSE /\ task' = [At("PROBING") EXCEPT !.ids = LostPermits']
       /\ UNCHANGED <<streak, line>>

EnterReconcile ==
  IF DurablePermits' = {} THEN EnterSettle
  ELSE Goto("RECONCILE") /\ UNCHANGED <<streak, line>>

\* Direct permits of an epoch that is no longer the pool's are released: the
\* row only moves once the former process is known to have stopped.
Refresh ==
  /\ api.up /\ task.step = "REFRESH"
  /\ owner' = [owner EXCEPT !.live = TRUE]
  /\ view' = row
  /\ LET moved == view.epoch # row.epoch
         stale == {a \in permits \cap Direct : moved /\ rec[a].epoch # row.epoch}
     IN /\ Release(stale)
        /\ rec' = [a \in Attempt |->
             IF a \notin stale THEN rec[a]
             ELSE IF rec[a].state = "RESERVED" THEN Final("FAILED_NOT_SENT")
             ELSE [rec[a] EXCEPT !.state = "FAILED_RECOVERABLE"]]
        /\ api' = [api EXCEPT !.ready = TRUE,
                             !.dirty = @ /\ ~(moved /\ row.health = "HEALTHY")]
  /\ IF api'.dirty THEN Goto("PROBE_SLOTS") /\ UNCHANGED <<streak, line>>
     ELSE EnterReconcile
  /\ UNCHANGED <<row, ledger, engine, wire, stray, orphans, forfeited, clients>>

\* The database does not answer: no grants until a refresh succeeds.
RefreshFails ==
  /\ api.up /\ task.step = "REFRESH" /\ api.outage < MaxOutage
  /\ api' = [api EXCEPT !.ready = FALSE, !.outage = @ + 1]
  /\ UNCHANGED <<world, view, permits, rec, line, task, streak, clients>>

\* Two idle probes in a row end the block after an unclean exit.
ProbeDirty ==
  /\ api.up /\ task.step = "PROBE_SLOTS"
  /\ api' = IF ~SlotsIdle THEN [api EXCEPT !.idle = 0]
            ELSE IF api.idle = 0 THEN [api EXCEPT !.idle = 1]
            ELSE [api EXCEPT !.dirty = FALSE]
  /\ UNCHANGED <<world, view, permits, rec, clients>>
  /\ EnterReconcile

\* Mutant of LiveInLedger: an UNKNOWN attempt is taken for a settled one.
LiveUnlessLost == {d \in DurablePermits : ledger[d] \in {"RESERVED", "SEND_INTENT"}}

\* Mutant of LiveInLedger: what has ended is taken for alive.
LiveForEver == DurablePermits

\* A RESERVED attempt holds no compute, but its permit covers the send.
LiveInLedger == {d \in DurablePermits : ledger[d] \in LedgerHeld \cup {"RESERVED"}}

ReconcileQuery ==
  /\ api.up /\ task.step = "RECONCILE"
  /\ task' = [step |-> "RECONCILING", ids |-> DurablePermits,
              live |-> [d \in LiveInLedger |-> Observed(ledger[d])]]
  /\ UNCHANGED <<world, api, view, permits, rec, line, streak, clients>>

\* Permits were released during the query: self.permits[id] raises KeyError
\* for such an id that the query found alive, what comes later is skipped.
ReconcileApply ==
  /\ api.up /\ task.step = "RECONCILING"
  /\ LET gone == DOMAIN task.live \ permits
     IN \E done \in SUBSET (task.ids \ gone) :
          /\ gone = {} => done = task.ids
          /\ Release(done \ DOMAIN task.live)
          /\ rec' = [a \in Attempt |-> IF a \in done \cap DOMAIN task.live
                      THEN [rec[a] EXCEPT !.state = task.live[a]] ELSE Kept(a, done)]
          /\ api' = [api EXCEPT !.ready = @ /\ gone = {}]
          /\ IF gone = {} THEN EnterSettle
             ELSE Goto("REFRESH") /\ UNCHANGED <<streak, line>>
  /\ UNCHANGED <<world, view, clients>>

\* The first idle probe keeps its candidates.  The second, under the same
\* epoch, settles those that are in both and still UNKNOWN.
SettleAnswer ==
  /\ api.up /\ task.step = "PROBING"
  /\ LET again == streak.ids # {} /\ streak.epoch = view.epoch
         proven == IF again THEN streak.ids \cap task.ids ELSE task.ids
         over == IF again /\ SlotsIdle THEN proven \cap LostPermits ELSE {}
         direct == {a \in over \cap Direct : rec[a].epoch = view.epoch}
     IN /\ streak' = IF SlotsIdle /\ ~again THEN [epoch |-> view.epoch, ids |-> proven]
                     ELSE NoStreak
        /\ Release(direct)
        /\ rec' = [a \in Attempt |-> IF a \in direct
                    THEN [rec[a] EXCEPT !.state = "FAILED_RECOVERABLE", !.idle = TRUE]
                    ELSE rec[a]]
        /\ ledger' = [d \in Durable |->
             IF /\ d \in over /\ ledger[d] = "UNKNOWN"
                /\ row.epoch = view.epoch /\ rec[d].epoch = view.epoch
             THEN "ENDED" ELSE ledger[d]]
  /\ Goto("REFRESH") /\ Leave(expired)
  /\ UNCHANGED <<row, owner, engine, wire, stray, orphans, forfeited, api, view, clients>>

\* restart_drain_seconds after the former owner's lease.  The deployment
\* chooses it longer than an inference may last: nothing of it computes now.
ExpireDirty ==
  /\ api.up /\ api.dirty
  /\ Computing \cap Direct \subseteq permits
  /\ api' = [api EXCEPT !.dirty = FALSE]
  /\ UNCHANGED <<world, view, permits, rec, line, task, streak, clients>>

Maintain ==
  \/ Refresh \/ ProbeDirty
  \/ ReconcileQuery \/ ReconcileApply \/ SettleAnswer

-----------------------------------------------------------------------------
(* The life of the runtime-api process.                                    *)

\* What the RAM of a process that ends held is gone.
Forget ==
  /\ permits' = {} /\ line' = {} /\ streak' = NoStreak /\ Goto("REFRESH")
  /\ rec' = [a \in Attempt |-> [NoPermit EXCEPT !.epoch = rec[a].epoch]]
  /\ api' = [api EXCEPT !.up = FALSE, !.ready = FALSE, !.dirty = FALSE, !.idle = 0]
  /\ calls' = [d \in Durable |-> NoCall]
  /\ view' = [epoch |-> 0, health |-> "HEALTHY"]

\* A request the engine had not received ends with its connection; of one it
\* computes nobody will hear the answer.
HangUp(ids) == wire' = [a \in Attempt |->
  IF a \in ids /\ wire[a] \in {"SENT", "ANSWERED"} THEN "CLOSED" ELSE wire[a]]

\* Nobody owns the endpoint until the next process starts: meanwhile an executor
\* may mark and send what had its permit, and what had none.
MayBeSent(d) == ledger[d] \in LedgerHeld \/ exec[d] = "GRANTED"
Forfeit == forfeited' = forfeited \cup {d \in Durable \ permits : MayBeSent(d)}

Crash ==
  /\ api.up /\ api.boot < MaxBoot
  /\ Forget /\ HangUp(Direct) /\ Forfeit
  /\ UNCHANGED <<row, owner, ledger, engine, stray, orphans, exec, expired>>

\* close: the owner row stays behind when a direct permit does, dirty or not.
\* The proxies are closed first: their RESERVED permits are not sent.
Shutdown ==
  /\ api.up /\ api.boot < MaxBoot
  /\ owner' = [owner EXCEPT !.exists =
       \E a \in permits \cap Direct : rec[a].state \in {"SEND_INTENT", "UNKNOWN"}]
  /\ orphans' = IF owner'.exists THEN orphans
                ELSE orphans \cup ((Computing \cap Direct) \ permits)
  /\ Forget /\ HangUp(Direct) /\ Forfeit
  /\ UNCHANGED <<row, ledger, engine, stray, exec, expired>>

OwnerLapse ==
  /\ ~api.up /\ owner.live
  /\ owner' = [owner EXCEPT !.live = FALSE]
  /\ UNCHANGED <<row, ledger, engine, wire, stray, orphans, forfeited, ram, clients>>

\* start: a former owner's row makes the endpoint dirty; durable attempts that
\* hold compute get their permits back from the ledger.
Start ==
  /\ ~api.up
  /\ ~owner.exists \/ ~owner.live
  /\ owner' = [exists |-> TRUE, live |-> TRUE]
  /\ api' = [api EXCEPT !.up = TRUE, !.ready = TRUE, !.dirty = owner.exists,
                       !.boot = @ + 1]
  /\ view' = row
  /\ LET held == {d \in Durable : ledger[d] \in LedgerHeld}
     IN /\ permits' = held
        /\ rec' = [a \in Attempt |-> IF a \in held
             THEN [rec[a] EXCEPT !.state = Observed(ledger[a])] ELSE rec[a]]
  /\ UNCHANGED <<row, ledger, engine, wire, stray, orphans, forfeited, line, task, streak,
                 clients>>

-----------------------------------------------------------------------------
(* A durable attempt: its executor, and its permit calls.                  *)

elsewhere ==
  <<row, owner, engine, stray, orphans, forfeited, api, view, task, streak, expired>>

Becomes(d, pc) == exec' = [exec EXCEPT ![d] = pc]
Moves(d, from, to) == exec[d] = from /\ Becomes(d, to)
InLedger(d, state) == ledger' = [ledger EXCEPT ![d] = state]

\* The attempt is RESERVED under the epoch the pool has now.
ReserveNext(d) ==
  /\ Moves(d, "IDLE", "ACQUIRE")
  /\ row.health = "HEALTHY" /\ d \notin expired
  /\ InLedger(d, "RESERVED")
  /\ rec' = [rec EXCEPT ![d].epoch = row.epoch]
  /\ UNCHANGED <<elsewhere, wire, permits, line, calls>>

Dispatchable(d) == view.epoch = rec[d].epoch /\ ledger[d] = "RESERVED"

\* A call reaches durable().  Its queued_at is the age of the operation, which
\* may place it before waiters that came earlier.
Acquire(d) ==
  /\ api.up /\ exec[d] = "ACQUIRE" /\ ~calls[d].heard /\ calls[d].open < MaxCalls
  /\ d \notin expired /\ Dispatchable(d)
  /\ calls' = [calls EXCEPT ![d] = [open |-> @.open + 1, heard |-> TRUE]]
  /\ IF Waiting(d) \/ d \in permits THEN UNCHANGED line
     ELSE \E longer \in {{}} \cup {UpTo(i) : i \in Waiters} : Join(d, longer)
  /\ UNCHANGED <<elsewhere, ledger, wire, permits, rec, exec>>

\* The transport breaks; the call goes on waiting and the executor asks again.
CallLost(d) ==
  /\ calls[d].heard
  /\ calls' = [calls EXCEPT ![d].heard = FALSE]
  /\ UNCHANGED <<elsewhere, ledger, wire, permits, rec, line, exec>>

\* The last call to end takes the waiter with it.
EndCall(d, heard) ==
  /\ calls' = [calls EXCEPT ![d] = [open |-> @.open - 1, heard |-> heard]]
  /\ IF calls[d].open = 1 THEN Leave({d}) ELSE UNCHANGED line

GrantDurable(d) ==
  /\ Ready /\ calls[d].open > 0 /\ d \notin permits
  /\ view.epoch = rec[d].epoch
  /\ First(d) /\ TryAcquire(Class[d])
  /\ Grant(d) /\ Leave({d} \cup Ahead(d))
  /\ UNCHANGED <<elsewhere, ledger, wire, exec, calls>>

Answer(d) ==
  /\ calls[d].heard /\ d \in permits /\ view.epoch = rec[d].epoch
  /\ EndCall(d, FALSE) /\ Becomes(d, "GRANTED")
  /\ UNCHANGED <<elsewhere, ledger, wire, permits, rec>>

\* fail(not_sent=True), with the refusal it answers; fenced if not this state.
FailNotSent(d) == ledger' = [ledger EXCEPT ![d] =
  IF @ \in {"RESERVED", "SEND_INTENT"} THEN "ENDED" ELSE @]

\* 409: the epoch moved, or the attempt may no longer be dispatched.  The
\* executor never received a permit and does not release one.
AcquireRefused(d) ==
  /\ api.up /\ Moves(d, "ACQUIRE", "DONE") /\ ~Dispatchable(d)
  /\ FailNotSent(d)
  /\ IF calls[d].heard THEN EndCall(d, FALSE) ELSE UNCHANGED <<calls, line>>
  /\ UNCHANGED <<elsewhere, wire, permits, rec>>

AcquireExpires(d) ==
  /\ Moves(d, "ACQUIRE", "DONE") /\ d \in expired
  /\ FailNotSent(d)
  /\ calls' = [calls EXCEPT ![d].heard = FALSE]
  /\ UNCHANGED <<elsewhere, wire, permits, rec, line>>

\* Mutant of StaleCallEnds: it ends a call that is still heard.
StaleCallEndsHeard(d) ==
  /\ calls[d].open > 0
  /\ d \in permits \/ d \in expired \/ ~Dispatchable(d)
  /\ EndCall(d, calls[d].heard)
  /\ UNCHANGED <<elsewhere, ledger, wire, permits, rec, exec>>

\* A call nobody hears any more ends by itself.
StaleCallEnds(d) ==
  /\ calls[d].open > (IF calls[d].heard THEN 1 ELSE 0)
  /\ d \in permits \/ d \in expired \/ ~Dispatchable(d)
  /\ EndCall(d, calls[d].heard)
  /\ UNCHANGED <<elsewhere, ledger, wire, permits, rec, exec>>

MarkSend(d) ==
  /\ Moves(d, "GRANTED", "MARKED")
  /\ ledger[d] = "RESERVED" /\ d \notin expired
  /\ InLedger(d, "SEND_INTENT")
  /\ UNCHANGED <<elsewhere, wire, permits, rec, line, calls>>

MarkRefused(d) ==
  /\ Moves(d, "GRANTED", "RELEASE")
  /\ ledger[d] # "RESERVED" \/ d \in expired
  /\ FailNotSent(d)
  /\ UNCHANGED <<elsewhere, wire, permits, rec, line, calls>>

\* The permit is looked up once more after the SEND_INTENT has committed; then
\* the request leaves.
Post(d) ==
  /\ Moves(d, "MARKED", "POSTED")
  /\ api.up /\ d \in permits
  /\ wire' = [wire EXCEPT ![d] = "SENT"]
  /\ UNCHANGED <<elsewhere, ledger, permits, rec, line, calls>>

PermitFenced(d) ==
  /\ Moves(d, "MARKED", "RELEASE")
  /\ ~api.up \/ d \notin permits
  /\ FailNotSent(d)
  /\ UNCHANGED <<elsewhere, wire, permits, rec, line, calls>>

ConnectFailed(d) ==
  /\ Moves(d, "POSTED", "RELEASE")
  /\ wire[d] = "SENT"
  /\ wire' = [wire EXCEPT ![d] = "CLOSED"]
  /\ FailNotSent(d)
  /\ UNCHANGED <<elsewhere, permits, rec, line, calls>>

ComputeFinished(d) ==
  /\ Moves(d, "POSTED", "RELEASE")
  /\ wire[d] = "ANSWERED"
  /\ wire' = [wire EXCEPT ![d] = "CLOSED"]
  /\ InLedger(d, "ENDED")
  /\ UNCHANGED <<elsewhere, permits, rec, line, calls>>

\* The response is lost, or does not come in time.
ResponseLost(d) ==
  /\ Moves(d, "POSTED", "RELEASE")
  /\ HangUp({d})
  /\ ledger' = [ledger EXCEPT ![d] = IF @ = "SEND_INTENT" THEN "UNKNOWN" ELSE @]
  /\ UNCHANGED <<elsewhere, permits, rec, line, calls>>

\* The permit is given back unless the ledger still holds compute; a call that
\* fails leaves it to _reconcile_durable.
ReleasePermit(d) ==
  /\ Moves(d, "RELEASE", "DONE")
  /\ \/ /\ api.up /\ ledger[d] \notin LedgerHeld
        /\ Release({d})
        /\ rec' = [a \in Attempt |-> Kept(a, {d})]
     \/ UNCHANGED <<permits, rec>>
  /\ UNCHANGED <<elsewhere, ledger, wire, line, calls>>

ExecutorDies(d) ==
  /\ d \in Dying /\ exec[d] \notin {"IDLE", "DONE", "DEAD"}
  /\ Becomes(d, "DEAD")
  /\ HangUp({d})
  /\ calls' = [calls EXCEPT ![d].heard = FALSE]
  /\ UNCHANGED <<elsewhere, ledger, permits, rec, line>>

\* Mutant of ReclaimExpired: an attempt that may have been sent is left alone.
ReclaimReservedOnly(d) ==
  /\ exec[d] = "DEAD" /\ ledger[d] = "RESERVED"
  /\ InLedger(d, "ENDED")
  /\ UNCHANGED <<elsewhere, wire, permits, rec, line, exec, calls>>

\* reconcile_expired, once the lease of the dead executor has run out.
ReclaimExpired(d) ==
  /\ exec[d] = "DEAD" /\ ledger[d] \in {"RESERVED", "SEND_INTENT"}
  /\ InLedger(d, IF ledger[d] = "RESERVED" THEN "ENDED" ELSE "UNKNOWN")
  /\ UNCHANGED <<elsewhere, wire, permits, rec, line, exec, calls>>

DurableServer(d) == GrantDurable(d) \/ Answer(d) \/ StaleCallEnds(d)

ExecutorStep(d) ==
  \/ Acquire(d) \/ AcquireRefused(d) \/ AcquireExpires(d)
  \/ MarkSend(d) \/ MarkRefused(d) \/ Post(d) \/ PermitFenced(d)
  \/ ComputeFinished(d) \/ ReleasePermit(d)

DurableNext ==
  \E d \in Durable :
    \/ ReserveNext(d) \/ DurableServer(d) \/ ExecutorStep(d)
    \/ CallLost(d) \/ ConnectFailed(d) \/ ResponseLost(d)
    \/ ExecutorDies(d) \/ ReclaimExpired(d)

-----------------------------------------------------------------------------
(* The engine, and the procedure of the watchdog and the operator.         *)

engineUnchanged == <<owner, orphans, forfeited, ram, clients>>

\* A request of an epoch that is no longer served reaches another process.
Arrive(a) ==
  /\ engine.up /\ wire[a] = "SENT"
  /\ wire' = [wire EXCEPT ![a] = "COMPUTING"]
  /\ stray' = IF rec[a].epoch = engine.process THEN stray ELSE stray \cup {a}
  /\ UNCHANGED <<row, ledger, engine, engineUnchanged>>

Heard(a) == IF a \in Durable THEN exec[a] = "POSTED"
            ELSE rec[a].state \notin {"NONE", "UNKNOWN"}

EngineAnswers(a) ==
  /\ engine.up /\ wire[a] = "COMPUTING"
  /\ wire' = [wire EXCEPT ![a] = IF Heard(a) THEN "ANSWERED" ELSE "CLOSED"]
  /\ UNCHANGED <<row, ledger, engine, stray, engineUnchanged>>

EngineStops ==
  /\ engine.up /\ engine.process < MaxEpoch
  /\ engine' = [engine EXCEPT !.up = FALSE]
  /\ wire' = [a \in Attempt |-> IF wire[a] = "COMPUTING" THEN "CLOSED" ELSE wire[a]]
  /\ UNCHANGED <<row, ledger, stray, engineUnchanged>>

\* The watchdog has quiesced it before.
EngineStarts ==
  /\ ~engine.up /\ row.health # "HEALTHY"
  /\ engine' = [process |-> engine.process + 1, up |-> TRUE]
  /\ UNCHANGED <<row, ledger, wire, stray, engineUnchanged>>

\* The watchdog quiesces an engine that is down, or one it is going to restart.
QuiesceEngine ==
  /\ row.health = "HEALTHY" /\ row.epoch < MaxEpoch
  /\ row' = [row EXCEPT !.health = "DEGRADED"]
  /\ UNCHANGED <<ledger, engine, wire, stray, engineUnchanged>>

Gone == ~engine.up \/ engine.process # row.epoch

\* confirm_epoch_stopped --recover settles what holds compute; an attempt that
\* is RESERVED holds nothing and stays.
ConfirmStopped ==
  /\ row.health # "HEALTHY" /\ Gone
  /\ row' = [row EXCEPT !.health = "UNAVAILABLE"]
  /\ ledger' = [d \in Durable |->
       IF ledger[d] \in LedgerHeld /\ rec[d].epoch = row.epoch THEN "ENDED" ELSE ledger[d]]
  /\ UNCHANGED <<engine, wire, stray, engineUnchanged>>

\* configure with the epoch of the process that serves now.
ConfigurePool ==
  /\ row.health = "UNAVAILABLE" /\ engine.up /\ Gone
  /\ \A d \in Durable : ledger[d] \notin LedgerHeld
  /\ row' = [epoch |-> engine.process, health |-> "HEALTHY"]
  /\ UNCHANGED <<ledger, engine, wire, stray, engineUnchanged>>

\* An engine that died is noticed, and one that was quiesced is restarted.
Watchdog == (Gone /\ QuiesceEngine) \/ (row.health # "HEALTHY" /\ ~Gone /\ EngineStops)

\* The connection of a request that was not answered breaks with its engine.
Unanswered(d) == wire[d] = "CLOSED" /\ ResponseLost(d)

EngineStep == EngineStarts \/ \E a \in Attempt : Arrive(a) \/ EngineAnswers(a)
OperatorStep == ConfirmStopped \/ ConfigurePool

Expire(i) ==
  /\ i \in Deadlined \ expired
  /\ expired' = expired \cup {i}
  /\ UNCHANGED <<world, ram, exec, calls>>

\* What the processes go on doing; only engines are stopped, connections lost,
\* deadlines passed and processes killed by chance.
SchedulerFairness ==
  /\ WF_schedulerVars(Maintain) /\ WF_schedulerVars(ExpireDirty)
  /\ WF_schedulerVars(OwnerLapse \/ Start)
  /\ WF_schedulerVars(EngineStep \/ OperatorStep \/ Watchdog)
  /\ \A d \in Durable :
       /\ WF_schedulerVars(GrantDurable(d) \/ StaleCallEnds(d))
       /\ SF_schedulerVars(Answer(d))
       /\ WF_schedulerVars(ExecutorStep(d) \/ Unanswered(d) \/ ReclaimExpired(d))

SchedulerNext ==
  \/ Maintain \/ RefreshFails \/ ExpireDirty \/ OwnerLapse \/ Start
  \/ DurableNext
  \/ EngineStep \/ EngineStops \/ QuiesceEngine \/ OperatorStep
  \/ \E i \in Waiter : Expire(i)
=============================================================================
