SPECIFICATION Spec
CONSTANTS
  nginx = nginx runtimeBase = runtimeBase
  InputOrder <- PackageAndBase
  Jobs = {weekly}
  NoIssue = NoIssue
  MaxMoves = 1
  MaxOutages = 1
  MaxRefreshes = 0
  MaxFailures = 0
PROPERTY SilenceClosesNothing
