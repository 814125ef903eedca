\* What is held back of a character of four bytes.
CONSTANTS
  Chars = {"a", "emoji", "garbage", "cr", "lf"}
  Width <- CharWidth
  CR = "cr"
  LF = "lf"
  Replacement = "replacement"
  Garbage = "garbage"
  Lines <- Said
  BufferSize = 6
  MaxLines = 2
  MaxRetries = 0
  Requests <- Asked
  MaxRequests = 0
SPECIFICATION Spec
INVARIANT HeldBackIsShort
CHECK_DEADLOCK FALSE
