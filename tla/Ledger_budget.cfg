SPECIFICATION MCSpec
CONSTANTS
  r1 = r1  o1 = o1  o2 = o2  a1 = a1  a2 = a2  b1 = b1  c1 = c1  p1 = p1
  Scenarios <- MCOneLapses
  None = None
  Root = {r1}  Pool = {p1}  Account = {c1}  Owner = {w1}
  OpOf <- MCOpOf  Number <- MCNumber  RootOf <- MCRootOf  ModelOf <- MCModelOf
  Compatible <- MCCompatible  Fits <- MCFits  AccountOf <- MCAccountOf  Bound <- MCBound  Limit <- MCTightLimit
  MaxAttempts <- MCMaxAttempts  RootMaxAttempts <- MCRootMaxAttempts
  MaxOperations <- MCMaxOperations  MaxPending <- MCMaxPending
  ModelPending = 2  MaxRoots = 1
  Operation = {o1, o2}  Attempt = {a1, b1}  Deadlined = {}
  Usage = {1, 3}  Awaited = {}  Cancellable = {}  FinishAs = {}
  Stops = {}  Token = {}  MaxEpoch = 0
INVARIANT ReservedIsHeld
INVARIANT BudgetCap
INVARIANT OverspentRootStops
PROPERTY ImplementsAccount
