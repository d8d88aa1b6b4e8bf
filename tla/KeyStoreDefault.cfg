SPECIFICATION Spec
CONSTANTS
  k1 = k1
  k2 = k2
  k3 = k3
  Keys = {k1, k2, k3}
  Kinds = {"sg02", "bz03"}
  Kind <- MCKind
  Operation <- MCOperation
  N = 2
  MaxCommands = 3
INVARIANTS OneDefault
CHECK_DEADLOCK FALSE
