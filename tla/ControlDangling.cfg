SPECIFICATION Spec
CONSTANTS
  Programs <- AllTables
  MaxDepth = 1
  Plain = {"stmt"}
  Callers = {}
  Blocks = {"if"}
  Testers = {}
  MaxCells = 4
INVARIANTS
  ListsEndAtEnd
CHECK_DEADLOCK FALSE
