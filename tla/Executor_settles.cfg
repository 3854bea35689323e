SPECIFICATION MCFairSpec
CONSTANTS
  r1 = r1  o1 = o1  o2 = o2  a1 = a1  a2 = a2  b1 = b1  c1 = c1  p1 = p1  p2 = p2
  Scenarios <- MCSettling
  None = None
  Root = {r1}  Pool = {p1, p2}  Probed = {p1}  Account = {c1}  Owner = {w1}
  OpOf <- MCOpOf  Number <- MCNumber  RootOf <- MCRootOf  ModelOf <- MCModelOf
  Compatible <- MCCompatible  Fits <- MCFits  AccountOf <- MCAccountOf  Bound <- MCBound  Limit <- MCLimit
  MaxAttempts <- MCMaxAttempts  RootMaxAttempts <- MCRootMaxAttempts
  MaxOperations <- MCMaxOperations  MaxPending <- MCMaxPending
  ModelPending = 2  MaxRoots = 1
  Operation = {o1}  Attempt = {a1}  Deadlined = {r1}
  Usage = {1}  Awaited = {}  Cancellable = {}  FinishAs = {"PARTIAL", "SUCCEEDED"}
  Stops = {"FAIL"}  Token = {}  MaxEpoch = 1
PROPERTY AttemptsSettle
