SPECIFICATION Spec
CONSTANTS
  Ids <- MCIds
  Level <- MCLevel
  Tests = {"test"}
  FirstTree <- MCFirstTree
  MaxEdits = 3
  None = None
INVARIANTS
  TypeOK
  CoveredReference
  NoHiddenGap
PROPERTY
  EvidenceLossShown
CHECK_DEADLOCK FALSE
