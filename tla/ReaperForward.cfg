SPECIFICATION Spec
CONSTANTS
  NumProcs = 3
  Protected = {}
  TermSignal = {"TERM"}
INVARIANT ForwardedToTree
