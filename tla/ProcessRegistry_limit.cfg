CONSTANTS
  p1 = p1
  p2 = p2
  p3 = p3
  Proc = {p1,p2,p3}
  MaxProcesses = 2
  MaxCalls = 2
  Stubborn = {}
SPECIFICATION Spec
INVARIANTS HandlesWithinLimit
CHECK_DEADLOCK FALSE
