SPECIFICATION FairSpec
CONSTANTS
  Names <- MCNames
  MAX_DENY_MATCHES = 3
  Scenes <- MCScenes
  Cards <- MCCards
  Pci = {"p1", "p2"}
  Renders = {"r1", "r2"}
  Ino = {1, 2, 3, 4}
  Unseen = Unseen
INVARIANT TypeOK
INVARIANT PruningInvisible
INVARIANT MasksHide
INVARIANT OnlyWorkspaceWritable
INVARIANT RuntimeRootsReachable
INVARIANT NodesAuthorized
INVARIANT OnlyChangesFail
PROPERTY LostDeviceStops
PROPERTY QuietHostLaunches
CHECK_DEADLOCK FALSE
