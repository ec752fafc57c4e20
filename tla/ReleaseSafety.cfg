SPECIFICATION Spec
CONSTANTS
  reviewed = reviewed later = later halfRefreshed = halfRefreshed
  v4 = v4 v5 = v5
  Commits = {reviewed, later, halfRefreshed}
  FirstMain = {reviewed, halfRefreshed}
  Versions = {v4, v5}
  LockOf <- MCLockOf
  MaxDay = 2
  MaxSequence = 2
  MaxRuns = 2
  MaxWithdrawals = 1
  NoManifest = NoManifest
INVARIANTS TypeOK AcceptedSequencesDistinct PublishedHonoursContract ReleaseHasEvidence TagsTraceable
PROPERTIES RejectedByNeighbourOnly KeepsRecord
CHECK_DEADLOCK FALSE
