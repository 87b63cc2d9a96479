SPECIFICATION Spec
CONSTANTS
  Key <- SharedPort
  NoKey = NoKey
  NumSockets = 2
  MaxAttempts = 1
  MaxSyns = 1
INVARIANTS
  RoutedAsDialled
  NoHalfOpen
PROPERTY
  ResetBeforeCleanup
CHECK_DEADLOCK FALSE
