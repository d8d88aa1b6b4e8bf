SPECIFICATION Spec
CONSTANTS
  Ids = {i1, i2}
  Calls = {c1, c2, c3}
  Tags = {t1}
  BadTags = {}
  Kinds = {"sync", "async", "coin", "status"}
  NoResult = NoResult
  Capacity = 1
  ScanLength = 1
  CmdCap = 2
  ChanCap = 1
SYMMETRY Symmetry
INVARIANTS IInv TypeOK TerminatedAreFinished ResultsOfOwnExecutor WaiterHasRunner
PROPERTIES RunningStays
CHECK_DEADLOCK FALSE
