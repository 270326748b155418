SPECIFICATION Spec
CONSTANTS
  Lists <- TestFields
  Values <- TestValues
  Contents <- TestContents
INVARIANTS
  FieldsDisjoint
PROPERTIES
  RowsSpec
CHECK_DEADLOCK FALSE
