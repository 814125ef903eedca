\* Lines between the server and its clients, read and written.
CONSTANTS
  Numbers <- MCNumbers
  Lowercase <- MCLowercase
  Me <- MCMe
  Channel <- MCChannel
  Sources <- MCSources
  Names <- MCNames
  ParamLists <- MCParamLists
  Texts <- MCTexts
SPECIFICATION Spec
INVARIANTS
  TypeOK
  Understood
  SentAsMeant
