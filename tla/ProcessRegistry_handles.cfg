CONSTANTS
  p1 = p1
  p2 = p2
  p3 = p3
  Proc = {p1,p2,p3}
  MaxProcesses = 2
  MaxCalls = 1
  Stubborn = {"leader"}
SPECIFICATION FairSpec
INVARIANTS TypeOK FoundAreGone
PROPERTIES ImplementsTable ForcedKillCompletes CloseReturns
CHECK_DEADLOCK FALSE
