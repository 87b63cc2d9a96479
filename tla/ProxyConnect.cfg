SPECIFICATION FairSpec
CONSTANTS
  BUF_CAP = 3
  MaxHttpReply = 6
  MaxSocks5Reply = 27
  MaxName = 3
INVARIANTS
  MessagesInOrder
PROPERTIES
  ImplementsTask
  Returns
CHECK_DEADLOCK FALSE
