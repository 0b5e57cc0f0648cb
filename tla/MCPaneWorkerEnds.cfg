SPECIFICATION FairSpec
CONSTANTS
  InboxCap = 1
  NoticeCap = 1
  MaxOutput = 1
  MaxInput = 1
PROPERTIES PaneEnds PendingRetried
CHECK_DEADLOCK FALSE
