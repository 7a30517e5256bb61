SPECIFICATION Spec
CONSTANTS
  Client = {c1, c2}
  Daemon = {d1, d2}
  None = None
  Other = Other
  KillsUnseen = TRUE
  SlowStart = FALSE
INVARIANT OneDaemon
