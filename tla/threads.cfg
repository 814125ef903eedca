\* The three threads, safety and liveness, without a PASS to send
CONSTANTS
  HasToken = FALSE
  Kinds = {"WELCOME", "PING", "FATAL", "GARBLED"}
  MaxIncoming = 2
  MaxTyped = 2
SPECIFICATION Spec
INVARIANTS
  TypeOK
  RegistrationFirst
  NothingTypedAfterQuit
  TerminalLeftAlone
  HandledInOrder
PROPERTIES
  QuitEndsProcess
  MessagesAreHandled
  OutboxIsWritten
