SPECIFICATION FairSpec
CONSTANTS
  TCP_BUF_SIZE = 2
  KERNEL_BUF = 2
  MaxBytes = 5
  MaxPrefetch = 2
INVARIANTS
  BytesConserved
  DeliveredBeforeEnd
PROPERTIES
  WaitsExactly
  BytesAndEndsArrive
CHECK_DEADLOCK FALSE
