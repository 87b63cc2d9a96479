SPECIFICATION MCSpec
CONSTANTS
  Domain = {d1, d2, d3, d4, d5}
  POOL_START = 7
  POOL_END = 9
  WIDTH = 2
  Host <- Hosts
  fold <- UpToCase
  Proxy = {p1, p2}
  DEFAULT = x
  MaxRules = 3
  Byte = {0, 1, 2, 46, 97, 255}
  MaxName = 5
  MaxLen = 5
  Sample = {0, 1, 58, 170, 255}
INVARIANTS
  MapsInverse
  RulesDecide
  AcceptsExactly
  EchoesQuestion
  EncodesExactly
PROPERTIES
  ImplementsFifo
CHECK_DEADLOCK FALSE
