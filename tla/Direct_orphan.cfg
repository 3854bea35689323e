SPECIFICATION MCSpec
CONSTANTS
  r1 = r1  r2 = r2  d1 = d1
  Request = {r1}  Durable = {d1}  Class <- MCClass  Scenarios <- MCRestarts
  TransportLimit = 1  BackgroundLimit = 1  EndpointLimit = 1
  Try = {}  Deadlined = {}  Leaving = {}  Dying = {}
  MaxEpoch = 0  MaxBoot = 2  MaxOutage = 0  MaxCalls = 1
INVARIANT CleanShutdownIsEvidence
CHECK_DEADLOCK FALSE
