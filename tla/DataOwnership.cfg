SPECIFICATION Spec
CONSTANTS
  Names = {n1, n2}
  Languages <- AllLanguages
INVARIANTS
  IInv
  OwnedOnce
  PendingAlive
  BorrowsAlive
PROPERTIES
  LeaksKnown
  ValuesSpec
SYMMETRY Symmetry
CHECK_DEADLOCK FALSE
