SPECIFICATION FairSpec
CONSTANTS
  InCap = 1
  OutCap = 1
  InputSize = 2
  MaxKeys = 1
  MaxOutput = 3
PROPERTY ReaderIndependent
CHECK_DEADLOCK FALSE
