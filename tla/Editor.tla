------------------------------- MODULE Editor -------------------------------
(***************************************************************************)
(* What a line editor promises, free of bytes and indices: characters to   *)
(* the left and to the right of the cursor, keys that change one of them   *)
(* or move the cursor, and Enter, which takes the whole line.              *)
(***************************************************************************)
EXTENDS Naturals, Sequences

CONSTANT Chars

VARIABLES
  left,       (* the text before the cursor                                *)
  right,      (* the text after it                                         *)
  line        (* the line entered last                                     *)

vars == <<left, right, line>>

Init == left = <<>> /\ right = <<>> /\ line = <<>>

Type(c) == left' = Append(left, c) /\ UNCHANGED <<right, line>>

Delete ==
  /\ right # <<>>
  /\ right' = Tail(right)
  /\ UNCHANGED <<left, line>>

Backspace ==
  /\ left # <<>>
  /\ left' = SubSeq(left, 1, Len(left) - 1)
  /\ UNCHANGED <<right, line>>

(* The cursor stands after the first n characters.                         *)
MoveTo(n) ==
  LET text == left \o right
  IN  /\ left' = SubSeq(text, 1, n)
      /\ right' = SubSeq(text, n + 1, Len(text))
      /\ UNCHANGED line

Move ==
  \/ Len(left) > 0 /\ MoveTo(Len(left) - 1)
  \/ Len(right) > 0 /\ MoveTo(Len(left) + 1)
  \/ MoveTo(0)
  \/ MoveTo(Len(left) + Len(right))

Enter ==
  /\ line' = left \o right
  /\ left' = <<>> /\ right' = <<>>

Next == (\E c \in Chars : Type(c)) \/ Delete \/ Backspace \/ Move \/ Enter

Spec == Init /\ [][Next]_vars
=============================================================================
