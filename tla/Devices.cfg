SPECIFICATION DevicesSpec
CONSTANTS
  o1 = o1
  o2 = o2
  v1 = v1
  v2 = v2
  Offset = {o1, o2}
  Value = {v1, v2}
  Sensors = {o2}
  Idle = Idle
  None = None
  Written = Written
  Ack = Ack
  Templates <- SomeTemplates
  Entries <- SomeEntries
  Addresses <- SomeAddresses
  NameSets <- SomeNames
  MaxDefined = 4
  MaxCalls = 2
  Inputs <- SomeInputs
  BufferSizes = {1, 9}
  MaxLength = 24
  MaxSteps = 4
INVARIANTS
  PollHolds
  QuietAtReturn
  DescriptorsInOrder
  RoutedAsDescribed
  ValuesSurvive
  RegionsResolved
  KeptOnce
  RoomSuffices
PROPERTIES
  CallsReturn
  RegistersSpec
CHECK_DEADLOCK FALSE
