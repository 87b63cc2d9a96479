SPECIFICATION FairSpec
CONSTANTS
  Domain = {d1, d2, d3}
  POOL_START = 7
  POOL_END = 8
  UDP_META_COUNT = 2
  MaxPackets = 4
INVARIANTS
  RoutedAsAsked
  AnswersAgree
PROPERTY
  QuestionAnswered
