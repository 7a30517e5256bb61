CONSTANTS
  A = A
  Newline = Newline
  Replacement = Replacement
  Caller = {c1, c2}
  MaxChunk = 1
  Chunk <- Words
  Pattern <- Shortest
  Asked = {"both"}
  MaxChars = 2
  MaxEvents = 2
  MaxWritten = 1
SPECIFICATION FairSpec
INVARIANTS NoLostWakeup ExitReportedLast WaitTimeoutIsRunning
PROPERTIES ExitReturnsCalls
