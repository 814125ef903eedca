\* Our own PART.
CONSTANTS
  Channels = {c1}
  Nicks = {me}
  Status = Status
  InvalidName = InvalidName
  Server = Server
  NoSource = NoSource
  RequestedNick = me
  Names = {}
  Modes = {}
  NoModes = NoModes
  EarlyKinds <- ConformingEarly
  LateKinds <- Naming
  MaxList = 1
  MaxOutbox = 0
SPECIFICATION FairSpec
PROPERTY OwnPartLeaves
CHECK_DEADLOCK FALSE
