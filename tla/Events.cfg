SPECIFICATION FairSpec
CONSTANTS
  Event <- AllEvents
  Block <- TwoBlocks
  Wire <- Wiring
  Buttons = {"power", "sleep"}
  MaxPolls = 2
INVARIANTS
  StaleGone
PROPERTIES
  CallsReturn
  ButtonsReported
  BoxSpec
