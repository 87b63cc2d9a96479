SPECIFICATION FairSpec
CONSTANTS
  Conn = {1, 2}
  NoConn = 0
  Listener = {"l1", "l2"}
  PORT_MIN = 7
  PORT_MAX = 7
  ACCEPT_QUEUE = 1
PROPERTIES
  PublishedResolves
CHECK_DEADLOCK FALSE
