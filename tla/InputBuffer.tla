---------------------------- MODULE InputBuffer ----------------------------
(***************************************************************************)
(* The line the user is typing (src/src/ui/input_buffer.rs) and the keys   *)
(* that edit it (ClientState::input, src/src/state.rs).  The cursor is a   *)
(* byte index, and String::insert and String::remove panic off a character *)
(* boundary: that they are never called there is CursorOnBoundary.         *)
(***************************************************************************)
EXTENDS Utf8, FiniteSets

CONSTANTS
  Marks,      (* characters that combine with the one before them          *)
  MaxBytes    (* bound: the length of the line                             *)

ASSUME MarksAreChars == Marks \subseteq Chars
ASSUME MaxBytesIsNat == MaxBytes \in Nat

VARIABLES
  buffer,     (* the bytes of the line                                     *)
  cursor,     (* cursor_idx                                                *)
  line        (* the bytes of the line entered last                        *)

vars == <<buffer, cursor, line>>

Init == buffer = <<>> /\ cursor = 0 /\ line = <<>>

(* str::is_char_boundary and str::floor_char_boundary.                     *)
IsBoundary(i) == i \in {0, Len(buffer)} \/ (i \in 1 .. Len(buffer) - 1 /\ Leads(buffer[i + 1]))
FloorBoundary(i) ==
  CHOOSE j \in 0 .. i : IsBoundary(j) /\ \A k \in j + 1 .. i : ~IsBoundary(k)

(* String::insert and String::remove.                                      *)
Inserted(i, c) == SubSeq(buffer, 1, i) \o Encode(c) \o SubSeq(buffer, i + 1, Len(buffer))
(* Mutant: one byte is removed, not one character. *)
ByteRemoved(i) == SubSeq(buffer, 1, i) \o SubSeq(buffer, i + 2, Len(buffer))
Removed(i) ==
  SubSeq(buffer, 1, i)
    \o SubSeq(buffer, i + Width[buffer[i + 1].of] + 1, Len(buffer))

-----------------------------------------------------------------------------
(* The keys. *)

(* Mutant: the cursor advances by one, whatever was typed. *)
TypeByOne(c) ==
  /\ Len(buffer) + Width[c] <= MaxBytes
  /\ buffer' = Inserted(cursor, c)
  /\ cursor' = cursor + 1
  /\ UNCHANGED line

Type(c) ==
  /\ Len(buffer) + Width[c] <= MaxBytes
  /\ buffer' = Inserted(cursor, c)
  /\ cursor' = cursor + Width[c]
  /\ UNCHANGED line

Delete ==
  /\ cursor < Len(buffer)
  /\ buffer' = Removed(cursor)
  /\ UNCHANGED <<cursor, line>>

Backspace ==
  /\ cursor >= 1
  /\ LET prev == FloorBoundary(cursor - 1)
     IN  buffer' = Removed(prev) /\ cursor' = prev
  /\ UNCHANGED line

(* Mutant: the buffer is not taken. *)
EnterKeepsBuffer ==
  /\ line' = buffer
  /\ cursor' = 0
  /\ UNCHANGED buffer

Enter ==
  /\ line' = buffer
  /\ buffer' = <<>>
  /\ cursor' = 0

Moves == UNCHANGED <<buffer, line>>

(* offset(1) and offset(-1): the cursor steps over the next character only *)
(* if its first byte alone is a slice of the buffer, that is if there is   *)
(* no other byte to it.                                                    *)
OneForward ==
  IF cursor < Len(buffer) /\ IsBoundary(cursor + 1) THEN cursor + 1 ELSE cursor
OneBack == IF cursor > 0 THEN FloorBoundary(cursor - 1) ELSE cursor

NextCharacter == cursor' = OneForward /\ Moves
PreviousCharacter == cursor' = OneBack /\ Moves

(* select(0), and select(char_len()), which skips past the end.            *)
FirstCharacter == cursor' = 0 /\ Moves
LastCharacter == cursor' = Len(buffer) /\ Moves

Next ==
  \/ \E c \in Chars : Type(c)
  \/ Delete \/ Backspace \/ Enter
  \/ NextCharacter \/ PreviousCharacter \/ FirstCharacter \/ LastCharacter

Spec == Init /\ [][Next]_vars

-----------------------------------------------------------------------------
(* get_visible_area(): what of the line is drawn, and at which column the  *)
(* cursor.  Graphemes are known by the byte index they start at.           *)

Graphemes ==
  {i \in 0 .. Len(buffer) - 1 :
     Leads(buffer[i + 1]) /\ (i = 0 \/ buffer[i + 1].of \notin Marks)}
Before == {i \in Graphemes : i < cursor}
After == Graphemes \ Before

(* Iterator::nth, counted from 0, forwards and backwards.                  *)
Nth(S, n) == CHOOSE i \in S : Cardinality({j \in S : j < i}) = n
NthBack(S, n) == CHOOSE i \in S : Cardinality({j \in S : j > i}) = n

(* Where the text ends if n graphemes after the cursor are drawn.          *)
EndAfter(n) == IF n < Cardinality(After) THEN Nth(After, n) ELSE Len(buffer)

Least(m, n) == IF m < n THEN m ELSE n

(* saturating_sub(1) *)
Pred(n) == IF n = 0 THEN 0 ELSE n - 1

PinnedLeft(width) ==
  [from |-> 0,
   upto |-> EndAfter(Least(width - Cardinality(Before), Cardinality(After))),
   column |-> Cardinality(Before)]
(* Mutant: one grapheme more is drawn before the cursor. *)
CentredTooWide(half) ==
  [from |-> NthBack(Before, Least(half, Cardinality(Before) - 1)),
   upto |-> EndAfter(half), column |-> half]
Centred(half) ==
  [from |-> NthBack(Before, Pred(half)), upto |-> EndAfter(half), column |-> half]
PinnedRight(width) ==
  [from |-> NthBack(Before, Pred(Least(width - Cardinality(After), Cardinality(Before)))),
   upto |-> Len(buffer),
   column |-> width - Cardinality(After)]

(* For a width of 1 the middle one unwraps a grapheme that may not exist.  *)
VisibleArea(width) ==
  LET before == Cardinality(Before)
      after  == Cardinality(After)
      half   == width \div 2
  IN  CASE before < half -> PinnedLeft(width)
        [] before >= half /\ after >= half -> Centred(half)
        [] OTHER -> IF before + after >= width THEN PinnedRight(width) ELSE PinnedLeft(width)

-----------------------------------------------------------------------------
(* Properties. *)

(* The buffer is UTF-8: every byte is followed by the next of its          *)
(* character, if there is one, and else by the start of another.           *)
WellFormed(s) ==
  /\ s \in Seq(Bytes)
  /\ s # <<>> => Leads(s[1]) /\ Ends(s[Len(s)])
  /\ \A i \in 1 .. Len(s) - 1 :
       IF Ends(s[i]) THEN Leads(s[i + 1])
                     ELSE s[i + 1] = [of |-> s[i].of, nth |-> s[i].nth + 1]

(* Every variable has its type, lines are UTF-8.                           *)
TypeOK ==
  /\ WellFormed(buffer)
  /\ WellFormed(line)
  /\ cursor \in Nat

(* "INVARIANT: cursor_idx is at *most* equal to buffer.len()"              *)
(* (input_buffer.rs:9), and on a character boundary besides: else the next *)
(* insert or remove panics.                                                *)
CursorOnBoundary == cursor \in 0 .. Len(buffer) /\ IsBoundary(cursor)

(* Whatever the line, the cursor and the width of the input row, what is   *)
(* drawn is a slice of the line on character boundaries that fits the row, *)
(* wastes at most one column of it, and has the cursor in the column it is *)
(* drawn at (get_visible_area).                                            *)
CursorIsVisible ==
  \A width \in 2 .. MaxBytes :
    LET area  == VisibleArea(width)
        drawn == {i \in Graphemes : area.from <= i /\ i < area.upto}
    IN  /\ IsBoundary(area.from) /\ IsBoundary(area.upto)
        /\ area.from <= cursor /\ cursor <= area.upto
        /\ area.column = Cardinality(drawn \cap Before)
        /\ Cardinality(drawn) <= width
        /\ Cardinality(drawn) >= Least(width - 1, Cardinality(Graphemes))

(* The bytes edit as a line of characters would.                           *)
E == INSTANCE Editor WITH
  left  <- Characters(SubSeq(buffer, 1, cursor)),
  right <- Characters(SubSeq(buffer, cursor + 1, Len(buffer))),
  line  <- Characters(line)
Implements == E!Spec

-----------------------------------------------------------------------------
(* What the comments say and the code does not do.                         *)

(* "offset the selection index by `offset` *characters*", but for "at end, *)
(* cannot go farther" (input_buffer.rs:57 and 67): the key that moves to   *)
(* the next character moves, unless the cursor is at the end.              *)
NextCharacterMoves ==
  cursor < Len(buffer) => OneForward = cursor + Width[buffer[cursor + 1].of]
=============================================================================
