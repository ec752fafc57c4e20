SPECIFICATION FairSpec
CONSTANTS
  nginx = nginx runtimeBase = runtimeBase
  InputOrder <- PackageOnly
  Jobs = {weekly, dispatched}
  NoIssue = NoIssue
  MaxMoves = 2
  MaxOutages = 1
  MaxRefreshes = 1
  MaxFailures = 1
INVARIANTS TypeOK DuplicatesBounded
PROPERTIES DriftEventuallyReported QuietEventuallyClosed
