SPECIFICATION Spec
CONSTANTS
  Seg <- AllSegs
  NoSeg = "none"
  NameStrings <- FrameNames
  FieldLists <- FrameLists
  MaxNodes = 10
  MaxDepth = 3
  MaxBlocks = 1
INVARIANTS
  ScopeRestored
PROPERTIES
  FrameRestores
  ScopedSpec
CHECK_DEADLOCK FALSE
