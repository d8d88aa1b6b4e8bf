SPECIFICATION Spec
CONSTANTS
  Nodes = {1, 2}
  Threshold = 2
  SignerGroups = {{1, 2}}
  Faulty = {2}
  Restarts = {{}}
  MaxStarts = 1
INVARIANTS OutputVerifies
CHECK_DEADLOCK FALSE
