\* A server that sends anything before 001.
CONSTANTS
  Channels = {c1}
  Nicks = {me}
  Status = Status
  InvalidName = InvalidName
  Server = Server
  NoSource = NoSource
  RequestedNick = me
  Names = {}
  Modes = {}
  NoModes = NoModes
  EarlyKinds <- MessageKinds
  LateKinds <- Chatting
  MaxList = 1
  MaxOutbox = 1
SPECIFICATION Spec
INVARIANT NeverUnreachable
CHECK_DEADLOCK FALSE
