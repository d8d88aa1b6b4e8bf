SPECIFICATION FairSpec
CONSTANTS
  b1 = b1
  b2 = b2
  i1 = i1
  Nodes = {p1, p2}
  Messages = {m1, m2}
  Blocks = {b1, b2}
  Ids = {i1}
  IdOf <- MCIdOf
  InCap = 1
  ChainCap = 1
INVARIANTS TypeOK OnePlace OneBlockPerId
PROPERTIES Arrives
CHECK_DEADLOCK FALSE
