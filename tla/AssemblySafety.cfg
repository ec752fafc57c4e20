SPECIFICATION FairSpec
CONSTANTS
  lockA = lockA lockB = lockB broken = broken
  key = key rpmA = rpmA rpmB = rpmB lib = lib torn = torn
  signer = signer nevraA = nevraA nevraB = nevraB nevra = nevra nothing = nothing
  Locks = {lockA, lockB, broken}
  ValidLocks = {lockA, lockB}
  Names <- MCNames
  Digests = {key, rpmA, rpmB, lib, torn}
  Metas = {signer, nevraA, nevraB, nevra, nothing}
  SizeOf <- MCSizeOf
  Pins <- MCPins
  Strays = {link}
  NoDirectory = NoDirectory
  MetaOf <- MCMetaOf
  BaseOf <- MCBaseOf
  NoImage = NoImage
  NativeHost = TRUE
  MaxEdits = 1
  MaxSwaps = 1
  MaxDamage = 2
  StartSources = {FALSE}
INVARIANTS TypeOK PackagesMatchStamp ImageFromOneLock
PROPERTY UndisturbedBuildSucceeds
CHECK_DEADLOCK FALSE
