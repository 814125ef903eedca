\* A character that is split between two reads.
CONSTANTS
  Chars = {"a", "emoji", "garbage", "cr", "lf"}
  Width <- CharWidth
  CR = "cr"
  LF = "lf"
  Replacement = "replacement"
  Garbage = "garbage"
  Lines <- Said
  BufferSize = 6
  MaxLines = 2
  MaxRetries = 0
  Requests <- Asked
  MaxRequests = 0
SPECIFICATION Spec
INVARIANT SplitCharactersArrive
CHECK_DEADLOCK FALSE
