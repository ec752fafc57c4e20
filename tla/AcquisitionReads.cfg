SPECIFICATION FairSpec
CONSTANTS
  lockA = lockA lockB = lockB broken = broken
  key = key rpmA = rpmA rpmB = rpmB meta = meta
  Names <- MCNames
  Digests = {key, rpmA, rpmB}
  Metas = {meta}
  SizeOf <- MCSizeOf
  Pins <- MCPins
  Strays = {}
  NoDirectory = NoDirectory
  NoOne = NoOne
  Locks = {lockA, lockB, broken}
  ValidLocks = {lockA, lockB}
  Acquirers = {a1}
  MaxEdits = 4
INVARIANT SettledLockExact
PROPERTY AcquisitionEnds
CHECK_DEADLOCK FALSE
