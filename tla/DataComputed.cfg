SPECIFICATION Spec
CONSTANTS
  Names = {n1, n2}
  Languages <- Computing
INVARIANTS
  PendingAlive
CHECK_DEADLOCK FALSE
