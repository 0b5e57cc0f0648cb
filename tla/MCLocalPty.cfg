SPECIFICATION FairSpec
CONSTANTS
  InCap = 1
  OutCap = 1
  InputSize = 2
  MaxKeys = 1
  MaxOutput = 1
INVARIANTS  OwnershipKept 
PROPERTY ShutdownReturns
CHECK_DEADLOCK FALSE
