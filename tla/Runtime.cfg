SPECIFICATION FairSpec
CONSTANTS
  Lives <- MCLives
  Unreadable = Unreadable
  Window = 2
  Interval = 4
  MaxTime = 8
  MaxEdits = 2
  MaxCrashes = 1
  Nothing = Nothing
INVARIANTS
  TypeOK
  NoSilentExpiry
PROPERTY
  Recovers
