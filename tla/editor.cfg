\* Lines of up to six bytes.
CONSTANTS
  Chars = {"a", "umlaut", "accent"}
  Marks = {"accent"}
  Width <- CharWidth
  MaxBytes = 6
SPECIFICATION Spec
INVARIANTS
  TypeOK
  CursorOnBoundary
  CursorIsVisible
PROPERTY Implements
