SPECIFICATION Spec
CONSTANTS
  Key <- OneTuple
  NoKey = NoKey
  NumSockets = 1
  MaxAttempts = 2
  MaxSyns = 1
INVARIANT
  SynFindsListener
CHECK_DEADLOCK FALSE
