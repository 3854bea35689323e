SPECIFICATION MCFairSpec
CONSTANTS
  r1 = r1  r2 = r2  d1 = d1
  Request = {r1, r2}  Durable = {d1}  Class <- MCClass  Scenarios <- MCFaults
  TransportLimit = 2  BackgroundLimit = 1  EndpointLimit = 1
  Try = {r2}  Deadlined = {r1, d1}  Leaving = {r2}  Dying = {d1}
  MaxEpoch = 1  MaxBoot = 2  MaxOutage = 1  MaxCalls = 2
INVARIANT TypeOK
INVARIANT PermitCoversCompute
INVARIANT WithinCapacity
INVARIANT OneComputePerRequest
INVARIANT NothingForgotten
PROPERTY RequestsEnd
PROPERTY PermitsReturn
PROPERTY DurableEnds
CHECK_DEADLOCK FALSE
