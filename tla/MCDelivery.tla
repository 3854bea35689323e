----------------------------- MODULE MCDelivery -----------------------------
(* Small instances of Buffering (with Workflow and Outbox) for TLC.  One    *)
(* run goes through several scenarios: what is submitted, which faults.     *)
EXTENDS Buffering

CONSTANTS
  p1, p2, r1, r2, b1, b2, b3, b4, o1, o2, o3, o4, i1, i2, i3, i4, Scenarios

VARIABLE scenario

MCRootOf == [o \in Operation |-> IF o \in {o1, o2} THEN r1 ELSE r2]
MCItems == [r \in Root |-> CASE r = r1 -> <<o1, o2>> [] r = r2 -> <<o3, o4>> [] OTHER -> <<>>]
MCWindow == [r \in Root |-> IF r = r1 THEN 1 ELSE 2]
MCBatchOf == [i \in Item |-> CASE i = i1 -> b1 [] i = i2 -> b2 [] i = i3 -> b3 [] OTHER -> b4]
MCPartition == [i \in Item |-> IF i = i4 THEN "Q" ELSE "P"]
MCKind == [i \in Item |-> IF i = i3 THEN "L" ELSE "K"]

\* The runs and inputs that come, how many faults happen, and of which kind: LATE,
\* a deadline passes; CANCEL, a client cancels; DOWN, a publisher's call or process
\* fails; WORK, a worker's; PUMP, a dispatch.
Scenario(pubs, come, number, kinds) ==
  [pubs |-> pubs, come |-> come, number |-> number, kinds |-> kinds]

MCFaults ==
  { Scenario({p1, p2}, {r1}, 1, {"DOWN"}), Scenario({p1}, {r1}, 0, {"LATE", "CANCEL"}),
    Scenario({p1}, {r1}, 1, {"LATE", "DOWN"}),
    Scenario({p1}, {r1}, 1, {"WORK", "CANCEL"}), Scenario({p1}, {r2}, 1, {"WORK"}),
    Scenario({p1, p2}, {i1}, 1, {"LATE", "PUMP"}), Scenario({p1, p2}, {i1, i2}, 1, {"PUMP"}),
    Scenario({p1}, {i1, i2, i3}, 0, {}), Scenario({p1}, {i1, i4}, 1, {"PUMP"}),
    Scenario({p1}, {r1, i1}, 0, {}), Scenario({p1, p2}, {i1}, 2, {"DOWN"}) }

MCInit ==
  /\ scenario \in Scenarios /\ Init
  /\ replicas = scenario.pubs /\ faults = MaxFaults - scenario.number

\* What a step that counts as a fault changes says of which kind it is.
FaultKind ==
  IF pump' # pump THEN "PUMP" ELSE IF <<act', fin'>> # <<act, fin>> THEN "WORK" ELSE "DOWN"

\* Written with => and not \/: TLC makes a successor for each disjunct that holds.
Happens ==
  /\ \A r \in (Root \ Batches) \ scenario.come : root'[r] = "ABSENT"
  /\ ToSet(queue') \subseteq scenario.come
  /\ "LATE" \notin scenario.kinds => late' = {}
  /\ "CANCEL" \notin scenario.kinds => cancelling' = {}
  /\ faults' # faults => FaultKind \in scenario.kinds

MCNext == Next /\ Happens /\ UNCHANGED scenario

MCSpec == MCInit /\ [][MCNext]_<<vars, scenario>>
MCFairSpec == MCSpec /\ Fairness
=============================================================================
