SPECIFICATION Spec
CONSTANTS
  Seg <- AllSegs
  NoSeg = "none"
  NameStrings <- PathNames
  FieldLists <- PathLists
  MaxNodes = 10
  MaxDepth = 2
  MaxBlocks = 1
INVARIANTS
  IInv
  NoDangling
  AliasResolved
  SiblingNamesUnique
  ListsExact
  DefinedIsFound
CHECK_DEADLOCK FALSE
