CONSTANTS
  A = A
  Newline = Newline
  Replacement = Replacement
  Caller = {}
  MaxChunk = 3
  Chunk <- Texts
  Pattern <- Literals
  Asked = {"both"}
  MaxChars = 3
  MaxEvents = 2
  MaxWritten = 5
SPECIFICATION Spec
INVARIANTS TypeOK RetainedIsSuffix NothingDroppedNeedlessly SelectionsExact FindIsReference
CHECK_DEADLOCK FALSE
