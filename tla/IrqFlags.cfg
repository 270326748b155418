SPECIFICATION DevicesSpec
CONSTANTS
  o1 = o1
  o2 = o2
  v1 = v1
  v2 = v2
  Offset = {o1, o2}
  Value = {v1, v2}
  Sensors = {o2}
  Idle = Idle
  None = None
  Written = Written
  Ack = Ack
  Templates <- SomeTemplates
  Entries <- SomeEntries
  Addresses <- SomeAddresses
  NameSets <- SomeNames
  MaxDefined = 0
  MaxCalls = 0
  Inputs = {}
  BufferSizes = {}
  MaxLength = 0
  MaxSteps = 0
INVARIANT
  IrqFlagsDescribed
CHECK_DEADLOCK FALSE
