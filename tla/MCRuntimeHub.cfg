SPECIFICATION FairSpec
CONSTANTS
  Panes = {p1, p2}
  MaxGen = 2
  MaxWork = 2
INVARIANTS WorkersOwned HubMatchesWindow
PROPERTY ExitReported
CHECK_DEADLOCK FALSE
