SPECIFICATION FairSpec
CONSTANTS
  Daemon = {d1, d2}
  NTarget = 1
  Ino = {i1, i2}
  NoInode = NoInode
  NoMarker = NoMarker
  Provisional = Provisional
  Missing = Missing
  Nobody = Nobody
  UserKinds = {"file"}
  HelperKills = TRUE
PROPERTY LockReleased
PROPERTY StopEnds
PROPERTY HeldPlaceholderKept
PROPERTY CrashLeavesMarker
