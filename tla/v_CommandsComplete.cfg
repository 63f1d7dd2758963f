SPECIFICATION FairSpec
CONSTANTS
  Capacity = 2
  MaxOutput = 4
PROPERTY CommandsComplete
CHECK_DEADLOCK FALSE
