SPECIFICATION FocusSpec
CONSTANTS
  Boot <- TwoPools
  NSlots = 6
  MaxFreeRanges = 1
  MaxNodes = 2
  MaxDonated = 3
  MaxRefs = 2
  MaxMaps = 2
  Mortal = TRUE
INVARIANTS PoolInv Coalesced ReleasedInTime
PROPERTY KeepsPoolContract
CHECK_DEADLOCK FALSE
