SPECIFICATION FairSpec
CONSTANTS
  Nodes = {n1, n2, n3}
  Threshold = 2
  Faulty = {n3}
  Forged = {n1}
INVARIANTS IInv ResultsCorrect
PROPERTIES ImplementsService RunningFinish
CHECK_DEADLOCK FALSE
