SPECIFICATION FairSpec
CONSTANTS
  CandidateLists <- Lists
  HomePaths = {"home"}
  MaxWindows = 2
  MaxEdits = 2
  MaxRequests = 1
INVARIANTS ReportedEditsApplied SourceWatched
PROPERTIES GenerationsAreNew ReportedEditsRead
CHECK_DEADLOCK FALSE
