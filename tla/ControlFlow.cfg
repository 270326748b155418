SPECIFICATION FairSpec
CONSTANTS
  Programs <- FlowTables
  MaxDepth = 1
  Plain = {"stmt", "return", "break", "continue"}
  Callers = {}
  Blocks = {"if", "while"}
  Testers = {}
  MaxCells = 4
INVARIANTS
  FetchesOwnTerms
  ListsEndAtEnd
PROPERTIES
  FlowSpec
  ReturnsEnd
CHECK_DEADLOCK FALSE
