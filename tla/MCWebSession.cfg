SPECIFICATION FairSpec
CONSTANTS
  InputCap = 1
  ControlCap = 1
  EventsCap = 1
  MaxOutput = 2
  MaxMessages = 2
INVARIANTS ExitIsComplete
PROPERTY SessionEnds
CHECK_DEADLOCK FALSE
