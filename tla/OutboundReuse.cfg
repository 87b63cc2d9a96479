SPECIFICATION FairSpec
CONSTANTS
  Key <- OneTuple
  NoKey = NoKey
  NumSockets = 1
  MaxAttempts = 2
  MaxSyns = 2
INVARIANTS
  EndpointsTracked
  NoOrphanTask
  NoHalfOpen
PROPERTIES
  TrackedResolves
  UpstreamEndReachesClient
CHECK_DEADLOCK FALSE
