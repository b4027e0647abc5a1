SPECIFICATION Spec
CONSTANTS
  Channels = {"stable", "preview"}
  First = "stable"
  Release <- MCRelease
  MaxAttempts = 1
  MaxTroubles = 1
  MaxMounts = 1
CHECK_DEADLOCK FALSE
INVARIANTS
  OneJob
PROPERTIES
  InstalledOnce
  NothingQueuedAfterResolve
  PageSettles
