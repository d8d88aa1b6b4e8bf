SPECIFICATION FairSpec
CONSTANTS
  Instances = {i1}
  Peers = {p1}
  OutCap = 1
  InCap = 1
  CmdCap = 1
  EvCap = 1
  ChanCap = 4
  Rounds = 2
  MaxRequests = 1
  MaxLists = 1
INVARIANTS TypeOK JoinedAll
PROPERTIES SendersGetOn OwnShareReturns QuietNodeStops
CHECK_DEADLOCK FALSE
