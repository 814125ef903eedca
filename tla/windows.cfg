\* Windows and messages: one channel, two users (ourselves among them).
CONSTANTS
  Channels = {c1}
  Nicks = {me, bob}
  Status = Status
  InvalidName = InvalidName
  Server = Server
  NoSource = NoSource
  RequestedNick = me
  Names = {}
  Modes = {}
  NoModes = NoModes
  EarlyKinds <- ConformingEarly
  LateKinds <- Chatting
  MaxList = 1
  MaxOutbox = 1
SPECIFICATION Spec
INVARIANTS
  TypeOK
  TargetsMatchWindows
  NeverUnreachable
  RegistrationIsBare
  ChatRouting
  OutboxWellAddressed
PROPERTIES
  FocusFollowsUser
  OwnLinesAreSent
  Implements
CHECK_DEADLOCK FALSE
