SPECIFICATION Spec
CONSTANTS
  lockA = lockA lockB = lockB broken = broken
  key = key rpmA = rpmA rpmB = rpmB meta = meta
  Names <- MCNames
  Digests = {key, rpmA, rpmB}
  Metas = {meta}
  SizeOf <- MCSizeOf
  Pins <- MCPins
  Strays = {}
  NoDirectory = NoDirectory
  NoOne = NoOne
  Locks = {lockA, lockB}
  ValidLocks = {lockA, lockB}
  Acquirers = {a1, a2}
  MaxEdits = 1
INVARIANTS TypeOK PublishedWhole NoLitter
PROPERTY PublishedNeverReplaced
SYMMETRY Symmetry
CHECK_DEADLOCK FALSE
