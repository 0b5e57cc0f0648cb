SPECIFICATION Spec
CONSTANTS
  InboxCap = 1
  NoticeCap = 1
  MaxOutput = 1
  MaxInput = 1
INVARIANT PollSurvivesClose
CHECK_DEADLOCK FALSE
