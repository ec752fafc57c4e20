SPECIFICATION FairSpec
CONSTANTS
  Inputs <- MCInputs
  FirstInputs <- MCFirst
  Closure <- MCClosure
  MaxSnapshot = 3
  MaxEdits = 1
  MaxFailures = 1
  Nothing = Nothing
  Broken = Broken
INVARIANTS
  TypeOK
  ValidCandidateWhole
  MainCoherent
  MainFollowsInputs
PROPERTY
  RefreshCompletes
