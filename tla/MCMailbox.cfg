SPECIFICATION FairSpec
CONSTANTS
  zero = zero
  one = one
  two = two
  over = over
  Producers = {p1, p2}
  Items <- MCItems
  NoItem = NoItem
  retained_bytes <- MCBytes
  MaxItems = 2
  MaxBytes = 2
  MaxCalls = 3
INVARIANTS
  TypeOK
  WithinBudget
  Conservation
  FifoDelivery
  GaugesExact
  NoLostWakeup
PROPERTIES
  CloseIsFinal
  CallersReturn
CHECK_DEADLOCK FALSE
