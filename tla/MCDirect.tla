------------------------------ MODULE MCDirect ------------------------------
(* Small instances of DirectProxy for TLC.  One run goes through several   *)
(* scenarios: who comes at all, and which faults happen.                   *)
EXTENDS DirectProxy

CONSTANTS r1, r2, d1, Scenarios

VARIABLE scenario

MCClass == [i \in Request \cup Durable |->
  CASE i = r1 -> "user_task" [] i = r2 -> "qa" [] OTHER -> "background"]

\* The engine and runtime-api restart stops and boots times, and a refresh fails
\* outages times.  Of the other faults those named happen: LATE, a deadline
\* passes; LEFT, a caller leaves; LOST, a lost acquire call is made again while it
\* waits; DEAD, an executor dies.
Scenario(come, stops, boots, outages, faults) ==
  [come |-> come, stops |-> stops, boots |-> boots, outages |-> outages, faults |-> faults]

MCRestarts == {Scenario({r1, d1}, 0, 2, 0, {})}
MCFaults ==
  { Scenario({r1}, 1, 1, 1, {"LATE", "LEFT"}), Scenario({r1, r2}, 0, 1, 0, {"LATE", "LEFT"}),
    Scenario({d1}, 1, 1, 0, {"LOST", "DEAD"}), Scenario({r1, d1}, 0, 1, 0, {"LATE"}),
    Scenario({r1, r2, d1}, 0, 0, 0, {}) } \cup MCRestarts

MCInit ==
  /\ scenario \in Scenarios
  /\ Init
  /\ \A r \in Request : pc[r] = (IF r \in scenario.come THEN "IDLE" ELSE "END")
  /\ \A d \in Durable : exec[d] = (IF d \in scenario.come THEN "IDLE" ELSE "DONE")
  /\ engine.process = MaxEpoch - scenario.stops
  /\ api.boot = MaxBoot - scenario.boots /\ api.outage = MaxOutage - scenario.outages

\* Written with => and not \/: TLC makes a successor for each disjunct that holds.
Happens ==
  /\ "LATE" \notin scenario.faults => expired' = {}
  /\ "LEFT" \notin scenario.faults => detached' = {}
  /\ "LOST" \notin scenario.faults => \A d \in Durable : calls'[d].open <= 1
  /\ "DEAD" \notin scenario.faults => \A d \in Durable : exec'[d] # "DEAD"

MCNext == Next /\ Happens /\ UNCHANGED scenario

MCSpec == MCInit /\ [][MCNext]_<<vars, scenario>>
MCFairSpec == MCSpec /\ Fairness
=============================================================================
