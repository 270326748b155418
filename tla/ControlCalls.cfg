SPECIFICATION FairSpec
CONSTANTS
  Programs <- GoodTables
  MaxDepth = 3
  Plain = {"break"}
  Callers = {"stmt", "return"}
  Blocks = {"scope", "method"}
  Testers = {"if", "while"}
  MaxCells = 4
INVARIANTS
  ScopeIsLexical
PROPERTIES
  FlowSpec
CHECK_DEADLOCK FALSE
