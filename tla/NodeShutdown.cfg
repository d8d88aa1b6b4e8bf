SPECIFICATION FairSpec
CONSTANTS
  Instances = {i1}
  Peers = {p1}
  OutCap = 1
  InCap = 1
  CmdCap = 1
  EvCap = 1
  ChanCap = 2
  Rounds = 1
  MaxRequests = 1
  MaxLists = 0
PROPERTIES ShutdownCompletes
CHECK_DEADLOCK FALSE
