SPECIFICATION FairSpec
CONSTANTS
  Nodes = {1, 2, 3, 4}
  Threshold = 3
  SignerGroups = {{2, 4, 6}}
  Faulty = {}
  Restarts = {{}}
  MaxStarts = 1
PROPERTIES AllFinish
CHECK_DEADLOCK FALSE
