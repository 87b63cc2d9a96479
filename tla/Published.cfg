SPECIFICATION Spec
CONSTANTS
  c1 = c1
  c2 = c2
  c3 = c3
  Conn <- ThreeConns
  NoConn = NoConn
  Listener = {"l"}
  PORT_MIN = 7
  PORT_MAX = 8
  ACCEPT_QUEUE = 1
INVARIANTS
  PortsBalanced
  StreamHeldOnce
  TupleFresh
  ServiceNotAbandoned
PROPERTY
  RefusedOnlyWhenFull
SYMMETRY Interchangeable
CHECK_DEADLOCK FALSE
