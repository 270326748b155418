SPECIFICATION FairSpec
CONSTANTS
  Kind = {"other", "processor", "device", "bridge"}
  MaxNodes = 4
PROPERTIES
  WalkSpec
  WalksEnd
