SPECIFICATION FairSpec
CONSTANTS
  NumProcs = 3
  Protected = {3}
  TermSignal = {"TERM"}
INVARIANTS
  TreeCollected
PROPERTIES
  TerminationEndsTree
  EndNoticed
