CONSTANTS
  p1 = p1
  p2 = p2
  Proc = {p1,p2}
  MaxProcesses = 2
  MaxCalls = 1
  Stubborn = {"member"}
SPECIFICATION FairSpec
PROPERTIES CloseReturns
CHECK_DEADLOCK FALSE
