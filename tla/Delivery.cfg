SPECIFICATION MCFairSpec
CONSTANTS
  p1 = p1  p2 = p2  r1 = r1  r2 = r2  b1 = b1  b2 = b2  b3 = b3  b4 = b4
  o1 = o1  o2 = o2  o3 = o3  o4 = o4  i1 = i1  i2 = i2  i3 = i3  i4 = i4
  Root = {r1, r2, b1, b2, b3, b4}  Operation = {o1, o2, o3, o4}  RootOf <- MCRootOf
  Publisher = {p1, p2}  None = None  Cancellable = {r1, r2}  Deadlined = {r1, r2, b1}
  MaxRoots = 1  MaxStarts = 2  MaxFaults = 2
  Items <- MCItems  Window <- MCWindow
  Item = {i1, i2, i3, i4}  BatchOf <- MCBatchOf  PartitionOf <- MCPartition  KindOf <- MCKind
  BatchSize = 2  MaxBacklog = 3  SealLimit = 2
  Scenarios <- MCFaults
INVARIANT TypeOK
INVARIANT DeliveredIsDone
INVARIANT AnswerIsLedger
INVARIANT SuccessIsAccepted
INVARIANT WindowBoundsLedger
INVARIANT OneBatchInOrder
INVARIANT FailedIsFailed
PROPERTY RunsEnd
PROPERTY EventsDelivered
PROPERTY InputsEnd
CHECK_DEADLOCK FALSE
