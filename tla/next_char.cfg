\* The key for the next character.
CONSTANTS
  Chars = {"a", "umlaut"}
  Marks = {}
  Width <- CharWidth
  MaxBytes = 4
SPECIFICATION Spec
INVARIANT NextCharacterMoves
