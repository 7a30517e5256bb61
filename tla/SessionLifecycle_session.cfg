SPECIFICATION FairSpec
CONSTANTS
  Client = {c1, c2}
  Daemon = {d1, d2}
  None = None
  Other = Other
  KillsUnseen = FALSE
  SlowStart = FALSE
PROPERTY ClientEnds
PROPERTY ImplementsSession
INVARIANT TypeOK
INVARIANT StopLeavesNothing
INVARIANT RunJoinsHolder
INVARIANT OwnAcknowledgement
