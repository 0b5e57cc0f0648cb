SPECIFICATION Spec
CONSTANTS
  InboxCap = 1
  NoticeCap = 1
  MaxOutput = 3
  MaxInput = 2
INVARIANTS OutputInOrder InputInOrder OutputComplete
PROPERTY ClosedIsLast
CHECK_DEADLOCK FALSE
