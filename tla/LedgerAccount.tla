---------------------------- MODULE LedgerAccount ----------------------------
(* The refinement mapping from Ledger to Account: the attempt rows carry    *)
(* the holds, runtime_resource_budgets.spent what is spent.                 *)
EXTENDS Ledger

\* budget_held of an attempt row: taken by mark_send, given back by _settle.
HoldOf(a) == IF ~att[a].sent THEN "FREE" ELSE IF att[a].budget THEN "HELD" ELSE "SETTLED"

Accounts == INSTANCE Account WITH
  AccountOf <- [a \in Attempt |-> AccountOf[OpOf[a]]],
  Bound <- [a \in Attempt |-> Bound[OpOf[a]]],
  Charge <- Usage \cup {0} \cup {Bound[o] : o \in Operation},
  hold <- [a \in Attempt |-> HoldOf(a)],
  spent <- [c \in Account |-> budget[c].spent]

\* The ledger implements the account: no send goes beyond what is really left, and
\* every hold is settled at most once, by whichever of owner, reclaim, probe and
\* operator comes first, however stale what they have read.
ImplementsAccount == Accounts!Spec
=============================================================================
