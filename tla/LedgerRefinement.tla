-------------------------- MODULE LedgerRefinement --------------------------
(***************************************************************************)
(* The ledger implements the account: every transaction of every process   *)
(* either takes a hold, settles one, or leaves holds and spending alone.   *)
(***************************************************************************)
EXTENDS LedgerCounts, LedgerAccount

\* The account counts with the same Cardinality.
LEMMA SameCount == \A S : Accounts!Cardinality(S) = Cardinality(S)
  BY DEF Cardinality, Accounts!Cardinality

\* What the account counts as held is what the attempt rows hold.
LEMMA HeldIsHeld ==
  ASSUME HoldInv, NEW c
  PROVE  Accounts!Held(c) = Cardinality(HeldUnits(c))
  <1>1. \A b \in Attempt : HoldOf(b) = "HELD" <=> att[b].budget
    BY DEF HoldOf, HoldInv
  <1>2. Accounts!Held(c) = Accounts!Cardinality(HeldUnits(c))
    BY <1>1 DEF Accounts!Held, HeldUnits
  <1> QED
    BY <1>2, SameCount

\* Neither holds nor spending move.
LEMMA KeptStutters ==
  ASSUME Kept
  PROVE  UNCHANGED Accounts!accountVars
  BY DEF Kept, SendsKept, HoldsKept, Accounts!accountVars, HoldOf

\* mark_send takes a hold that fits beside what is spent and held.
LEMMA MarkSendHolds ==
  ASSUME TypeOK, AttemptInv, HoldInv, ReservedIsHeld, NEW a \in Attempt, MarkSend(a)
  PROVE  Accounts!Hold(a)
  <1> DEFINE c == AccountOf[OpOf[a]]
  <1>1. c \in Account
    BY DEF MarkSend, SendBudget
  <1>2. HoldOf(a) = "FREE" /\ HoldOf(a)' = "HELD"
    BY MarkSendRow DEF HoldOf
  <1>3. \A b \in Attempt \ {a} : HoldOf(b)' = HoldOf(b)
    BY MarkSendRow DEF HoldOf
  <1>4. budget[c].spent + Accounts!Held(c) + Bound[OpOf[a]] <= Limit[c]
    <2>1. budget[c].reserved = Accounts!Held(c)
      BY <1>1, HeldIsHeld DEF ReservedIsHeld
    <2> QED
      BY <2>1 DEF MarkSend, SendBudget, Affordable
  <1>5. \A d \in Account : budget'[d].spent = budget[d].spent
    BY DEF MarkSend, TypeOK
  <1> QED
    BY <1>1, <1>2, <1>3, <1>4, <1>5 DEF Accounts!Hold

\* A settlement settles a hold, or there was none.
LEMMA SettledSettles ==
  ASSUME TypeOK, HoldInv, Settled
  PROVE  [Accounts!Next]_Accounts!accountVars
  <1>a. PICK a \in Attempt, u \in Charges :
          /\ Settle(a, u)
          /\ \A b \in Attempt : att'[b].budget = (b # a /\ att[b].budget)
    BY DEF Settled, HoldSettled
  <1>s. \A b \in Attempt : att'[b].sent = att[b].sent
    BY DEF Settled, SendsKept
  <1>1. CASE att[a].budget
    <2>1. HoldOf(a) = "HELD" /\ HoldOf(a)' = "SETTLED"
      BY <1>a, <1>s, <1>1 DEF HoldOf, HoldInv
    <2>2. \A b \in Attempt \ {a} : HoldOf(b)' = HoldOf(b)
      BY <1>a, <1>s DEF HoldOf
    <2>3. \A d \in Account : budget'[d].spent =
            IF d = AccountOf[OpOf[a]] THEN budget[d].spent + u ELSE budget[d].spent
      BY <1>a, <1>1 DEF Settle, TypeOK
    <2>4. u \in Usage \cup {0} \cup {Bound[o] : o \in Operation}
      BY DEF Charges
    <2>5. Accounts!Settle(a)
      BY <2>1, <2>2, <2>3, <2>4 DEF Accounts!Settle
    <2> QED
      BY <2>5 DEF Accounts!Next
  <1>2. CASE ~att[a].budget
    <2>1. budget' = budget
      BY <1>a, <1>2 DEF Settle
    <2>2. \A b \in Attempt : HoldOf(b)' = HoldOf(b)
      BY <1>a, <1>s, <1>2 DEF HoldOf
    <2> QED
      BY <2>1, <2>2 DEF Accounts!accountVars
  <1> QED
    BY <1>1, <1>2

(* Budgets are accounted for without a leak and without a double charge:   *)
(* the reserved column, which the code keeps by hand in mark_send and      *)
(* _settle, decides as if every hold were summed up afresh.                *)
THEOREM AccountImplemented == Spec => ImplementsAccount
  <1>1. Init => HoldInv /\ Accounts!Init
    BY DEF Init, HoldInv, Accounts!Init, HoldOf, FreeRow
  <1>2. TypeOK /\ AttemptInv /\ HoldInv /\ [Next]_vars => HoldInv'
    BY HoldStep
  <1>3. TypeOK /\ AttemptInv /\ ReservedIsHeld /\ HoldInv /\ [Next]_vars
          => [Accounts!Next]_Accounts!accountVars
    <2> SUFFICES ASSUME TypeOK, AttemptInv, ReservedIsHeld, HoldInv, [Next]_vars
                 PROVE  [Accounts!Next]_Accounts!accountVars
      OBVIOUS
    <2>1. ASSUME NEW a \in Attempt, MarkSend(a) PROVE Accounts!Next
      <3>1. Accounts!Hold(a)
        BY <2>1, MarkSendHolds
      <3> QED
        BY <3>1 DEF Accounts!Next
    <2> QED
      BY <2>1, CountSteps, KeptStutters, SettledSettles
  <1> QED
    BY <1>1, <1>2, <1>3, TypeCorrect, AttemptInvariant, ReservationsAreHeld, PTL
       DEF Spec, ImplementsAccount, Accounts!Spec
=============================================================================
