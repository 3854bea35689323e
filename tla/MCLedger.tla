------------------------------ MODULE MCLedger ------------------------------
(* Small instances of Ledger for TLC.  One run goes through several         *)
(* scenarios: what its clients and operators do.                            *)
EXTENDS LedgerAccount

CONSTANTS r1, o1, o2, a1, a2, b1, c1, p1, Scenarios

VARIABLE scenario

\* One root and one account.  Attempt ids a1 and a2 are drawn for o1, b1 for o2.
MCOpOf == [a \in Attempt |-> IF a = b1 THEN o2 ELSE o1]
MCNumber == [a \in Attempt |-> IF a = a2 THEN 2 ELSE 1]
MCRootOf == [o \in Operation |-> r1]
MCModelOf == [o \in Operation |-> "model"]
MCCompatible == [o \in Operation |-> {p1}]
MCFits == [o \in Operation |-> {p1}]
MCAccountOf == [o \in Operation |-> c1]
MCBound == [o \in Operation |-> IF o = o1 THEN 2 ELSE 1]
MCLimit == [c \in Account |-> 4]
MCTightLimit == [c \in Account |-> 2]
MCMaxAttempts == [o \in Operation |-> 2]
MCRootMaxAttempts == [r \in Root |-> 2]
MCMaxOperations == [r \in Root |-> Cardinality(Operation)]
MCMaxPending == [r \in Root |-> 2]

\* FINISH: a workflow binds its operation and finishes the run; LATE: the operation
\* has a deadline of its own; CANCEL: a client cancels the run; STOP: an operator
\* quiesces engines, confirms that they have stopped and configures new epochs.
\* Of the attempts those lapsing may lose their own lease.
Scenario(kinds, lapsing) == [kinds |-> kinds, lapsing |-> lapsing]

MCScenarios ==
  { Scenario({"FINISH"}, Attempt), Scenario({"LATE", "CANCEL"}, Attempt),
    Scenario({"STOP"}, Attempt) }
MCOneLapses == {Scenario({}, {a}) : a \in Attempt}
MCAnything == {Scenario({"FINISH", "LATE", "CANCEL", "STOP"}, Attempt)}

\* Written with => and not \/: TLC makes a successor for each disjunct that holds.
Happens ==
  /\ "FINISH" \notin scenario.kinds =>
       (\A o \in Operation : binder'[o] = "ABSENT") /\ \A r \in Root : finishing'[r] = NotFinishing
  /\ "LATE" \notin scenario.kinds => \A o \in Operation : ~op'[o].expired
  /\ "CANCEL" \notin scenario.kinds => cancelling' = {}
  /\ "STOP" \notin scenario.kinds => \A p \in Pool :
       pool'[p].health # "UNAVAILABLE" /\ pool'[p].token = None /\ pool'[p].epoch = 0
  /\ \A a \in Attempt \ scenario.lapsing : att[a].lease => att'[a].lease

MCInit == scenario \in Scenarios /\ Init
MCNext == Next /\ Happens /\ UNCHANGED scenario

MCSpec == MCInit /\ [][MCNext]_<<vars, scenario>>
MCFairSpec == MCSpec /\ Fairness
=============================================================================
