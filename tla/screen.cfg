\* Rendering: what the terminal shows is what it should, at every size
CONSTANTS
  Graphemes = {"a", "W", "0"}
  Columns <- MCColumns
  OverflowChecks = TRUE
  Windows = {"status", "chat"}
  First = "status"
  StatusLine <- MCStatusLine
  Texts <- MCTexts
  Keys = {"a", "W"}
  Sizes <- MCSizes
  MaxLines = 2
  MaxInput = 2
  MaxScrollback = 1
  SomeTexts <- MCSomeTexts
  SomeLayouts <- MCSomeLayouts
  Sections <- MCSections
SPECIFICATION Spec
INVARIANTS
  TypeOK
  ScreenIsCurrent
  AbortsOnlyIfSmall
  ScrambledOnlyIfWide
  LayoutsDivideWell
  TextsWrapWell
CHECK_DEADLOCK FALSE
