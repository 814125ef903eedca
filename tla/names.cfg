\* Names and modes: two channels, one name, one mode string, two targets a message.
CONSTANTS
  Channels = {c1, c2}
  Nicks = {me}
  Status = Status
  InvalidName = InvalidName
  Server = Server
  NoSource = NoSource
  RequestedNick = me
  Names = {n1}
  Modes = {m}
  NoModes = NoModes
  EarlyKinds <- ConformingEarly
  LateKinds <- Naming
  MaxList = 2
  MaxOutbox = 0
SYMMETRY Symmetry
SPECIFICATION Spec
INVARIANTS
  NothingOfClosedChannels
CHECK_DEADLOCK FALSE
