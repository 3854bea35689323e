----------------------------- MODULE MCExecutor -----------------------------
(* Small instances of Executor for TLC.  One run goes through several       *)
(* scenarios: which attempts there are, and what happens to them.           *)
EXTENDS Executor

CONSTANTS r1, o1, o2, a1, a2, b1, c1, p1, p2, Scenarios

VARIABLE scenario

MCOpOf == [a \in Attempt |-> IF a = b1 THEN o2 ELSE o1]
MCNumber == [a \in Attempt |-> IF a = a2 THEN 2 ELSE 1]
MCRootOf == [o \in Operation |-> r1]
MCModelOf == [o \in Operation |-> "model"]
MCCompatible == [o \in Operation |-> Pool]
MCFits == [o \in Operation |-> Pool]
MCAccountOf == [o \in Operation |-> c1]
MCBound == [o \in Operation |-> 1]
MCLimit == [c \in Account |-> 3]
MCMaxAttempts == [o \in Operation |-> 2]
MCRootMaxAttempts == [r \in Root |-> 2]
MCMaxOperations == [r \in Root |-> Cardinality(Operation)]
MCMaxPending == [r \in Root |-> 2]

\* LATE: deadlines pass; CANCEL: a client cancels the run; END: its workflow finishes it;
\* STOP: an engine stops, is confirmed and started again; QUIESCE: operators quiesce and
\* resume its pool; REJECT: a payload is invalid or rejected; RESTART: runtime-api starts
\* again; OTHER: the engine is that of p2.
Scenario(attempts, kinds) == [attempts |-> attempts, kinds |-> kinds]

MCScenarios ==
  { Scenario({a1, a2}, {}), Scenario({a1}, {"LATE", "CANCEL", "REJECT"}),
    Scenario({a1}, {"LATE", "STOP", "REJECT"}), Scenario({a1}, {"CANCEL", "STOP", "REJECT"}),
    Scenario({a1}, {"QUIESCE", "REJECT"}) }

MCSettling ==
  { Scenario({a1}, {"LATE", "END", "REJECT"}), Scenario({a1}, {"RESTART", "REJECT"}),
    Scenario({a1}, {"STOP", "REJECT"}), Scenario({a1}, {"OTHER", "REJECT"}) }

MCAnything ==
  { Scenario(Attempt,
      {"LATE", "CANCEL", "END", "STOP", "QUIESCE", "REJECT", "RESTART", "OTHER"}) }

\* Written with => and not \/: TLC makes a successor for each disjunct that holds.
Happens ==
  /\ \A a \in Attempt \ scenario.attempts : att'[a].state = "FREE"
  /\ "LATE" \notin scenario.kinds =>
       /\ \A o \in Operation : ~op'[o].expired
       /\ \A r \in Root : ~root'[r].expired
  /\ "END" \notin scenario.kinds => \A r \in Root : finishing'[r] = NotFinishing
  /\ "OTHER" \notin scenario.kinds => p2 \notin down' /\ \A a \in Attempt : att'[a].pool # p2
  /\ "REJECT" \notin scenario.kinds => \A a \in Attempt : pc'[a] \notin {"INVALID", "REJECTED"}
  /\ "RESTART" \notin scenario.kinds => permits \subseteq permits'
  /\ "CANCEL" \notin scenario.kinds => cancelling' = {}
  /\ "STOP" \notin scenario.kinds => down' = {}
  /\ "QUIESCE" \notin scenario.kinds => \A p \in Pool : pool'[p].token = None

MCInit == scenario \in Scenarios /\ XInit
MCNext == XNext /\ Happens /\ UNCHANGED scenario

MCSpec == MCInit /\ [][MCNext]_<<allvars, scenario>>
MCFairSpec == MCSpec /\ XFairness
=============================================================================
