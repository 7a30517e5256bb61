CONSTANTS
  A = A
  Newline = Newline
  Replacement = Replacement
  Caller = {c1}
  MaxChunk = 2
  Chunk <- Words
  Pattern <- Literal
  Asked = {"stdout", "stderr", "both"}
  MaxChars = 4
  MaxEvents = 4
  MaxWritten = 3
SPECIFICATION Spec
INVARIANTS TimeoutSkipsNothing
