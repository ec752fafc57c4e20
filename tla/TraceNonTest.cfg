SPECIFICATION Spec
CONSTANTS
  Ids <- MCIds
  Level <- MCLevel
  Tests = {"test"}
  FirstTree <- MCFirstTree
  MaxEdits = 3
  None = None
INVARIANTS
  NonTestReportedAsSuch
CHECK_DEADLOCK FALSE
