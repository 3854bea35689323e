------------------------------ MODULE Account -------------------------------
(***************************************************************************)
(* What the ledger promises about resource budgets: an attempt takes its   *)
(* bound from an account when the bound fits beside all that is spent and  *)
(* held, and is settled once, for what it is charged.  There is no counter *)
(* of reserved units here: what is held is what the attempts hold.         *)
(***************************************************************************)
EXTENDS Integers, FiniteSets

CONSTANTS
  Account, Attempt,
  AccountOf,  \* the account an attempt draws on
  Bound,      \* the units it holds
  Limit,      \* budget_limit of an account
  Charge      \* what a settlement may charge

VARIABLES
  hold,   \* whether an attempt holds its bound
  spent   \* units spent of every account

accountVars == <<hold, spent>>

Held(c) == Cardinality(UNION {{a} \X (1..Bound[a]) :
             a \in {b \in Attempt : hold[b] = "HELD" /\ AccountOf[b] = c}})

Init == hold = [a \in Attempt |-> "FREE"] /\ spent = [c \in Account |-> 0]

Hold(a) ==
  /\ hold[a] = "FREE" /\ hold' = [hold EXCEPT ![a] = "HELD"]
  /\ AccountOf[a] \in Account
  /\ spent[AccountOf[a]] + Held(AccountOf[a]) + Bound[a] <= Limit[AccountOf[a]]
  /\ UNCHANGED spent

Settle(a) ==
  /\ hold[a] = "HELD" /\ hold' = [hold EXCEPT ![a] = "SETTLED"]
  /\ \E charge \in Charge : spent' = [spent EXCEPT ![AccountOf[a]] = @ + charge]

Next == \E a \in Attempt : Hold(a) \/ Settle(a)

Spec == Init /\ [][Next]_accountVars
=============================================================================
