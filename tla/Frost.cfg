SPECIFICATION FairSpec
CONSTANTS
  Nodes = {1, 2, 3}
  Threshold = 2
  SignerGroups = {{1, 2}}
  Faulty = {}
  Restarts = {{}, {1, 2}}
  MaxStarts = 2
INVARIANTS IInv UndisturbedVerifies NeverFails NonceSignsOnce
PROPERTIES ImplementsService AllFinish
CHECK_DEADLOCK FALSE
