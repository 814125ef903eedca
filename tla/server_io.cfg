\* Two lines each way, a buffer that a long one nearly fills.
CONSTANTS
  Chars = {"a", "emoji", "garbage", "cr", "lf"}
  Width <- CharWidth
  CR = "cr"
  LF = "lf"
  Replacement = "replacement"
  Garbage = "garbage"
  Lines <- Said
  BufferSize = 6
  MaxLines = 2
  MaxRetries = 5
  Requests <- Asked
  MaxRequests = 2
SPECIFICATION Spec
INVARIANTS
  TypeOK
  MessagesIntact
  NothingKeptBack
  RequestsArrive
  RetriesAreCounted
  LineEndsEndLines
CHECK_DEADLOCK FALSE
