SPECIFICATION FairSpec
CONSTANTS
  Ids = {i1, i2}
  Calls = {c1, c2}
  Tags = {t1, t2}
  BadTags = {t2}
  Kinds = {"sync", "status"}
  NoResult = NoResult
  Capacity = 1
  ScanLength = 2
  CmdCap = 1
  ChanCap = 2
INVARIANTS BacklogOnlyForAbsent OneCopy
PROPERTIES CommandsAnswered ResultReachesCaller
CHECK_DEADLOCK FALSE
