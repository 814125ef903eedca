------------------------------ MODULE TextWrap ------------------------------
(***************************************************************************)
(* How a line of text is cut into rows (Line::wrap, src/src/ui/text.rs).   *)
(* A text is the sequence of its words, as split_word_bounds cuts it, and  *)
(* a word a sequence of graphemes.  Styles are left out.                   *)
(***************************************************************************)
EXTENDS Integers, Sequences, SequencesExt

CONSTANTS
  Graphemes,
  Columns,        (* the columns each takes, display_width_char            *)
  OverflowChecks  (* whether the build panics where a subtraction wraps    *)

ASSUME ColumnsAreNat == Columns \in [Graphemes -> Nat]
ASSUME OverflowChecksIsBoolean == OverflowChecks \in BOOLEAN

AddColumns(n, g) == n + Columns[g]
ColumnsOf(s) == FoldLeft(AddColumns, 0, s)

(* u16 subtraction *)
Minus(m, n) == IF n <= m THEN m - n ELSE (m - n) % 65536

(* What has been laid out: the rows, the columns left in the last of them, *)
(* whether that went well, and the word handle_word is called with, if it  *)
(* is called.                                                              *)
BlankPage(width) ==
  [rows |-> << <<>> >>, width |-> width, left |-> width, fate |-> "ok", word |-> <<>>]
OnLastRow(page, s) == [page.rows EXCEPT ![Len(page.rows)] = @ \o s]

(* Mutant: one grapheme more is taken than there are columns. *)
TakeOneMore(word, left) ==
  [n |-> IF left < Len(word) THEN left + 1 ELSE Len(word), left |-> 0, fate |-> "ok"]

(* The partition of a word that is split: graphemes are taken as long as   *)
(* there is a column left, though they may need more than one.             *)
TakeGrapheme(taken, g) ==
  IF taken.left = 0 \/ taken.fate # "ok" THEN taken
  ELSE [n |-> taken.n + 1, left |-> Minus(taken.left, Columns[g]),
        fate |-> IF OverflowChecks /\ Columns[g] > taken.left THEN "aborted" ELSE "ok"]
TakeGraphemes(word, left) ==
  FoldLeft(TakeGrapheme, [n |-> 0, left |-> left, fate |-> "ok"], word)

(* A call of handle_word, which calls itself with what is left of a word   *)
(* that is split.  With no column at all it is passed on as it was, for    *)
(* ever: the stack overflows.                                              *)
Turn(page, n) ==
  LET word == page.word[1]
      len  == ColumnsOf(word)
      part == TakeGraphemes(word, page.left)
  IN  IF page.word = <<>> \/ page.fate # "ok" THEN page
      ELSE CASE len <= page.left ->
                  [page EXCEPT !.rows = OnLastRow(page, word), !.left = @ - len, !.word = <<>>]
             [] len > page.left /\ len < page.width ->
                  [page EXCEPT !.rows = Append(@, word), !.left = page.width - len, !.word = <<>>]
             [] len > page.left /\ len >= page.width /\ (page.width = 0 \/ part.fate # "ok") ->
                  [page EXCEPT !.fate = "aborted"]
             [] OTHER ->
                  [page EXCEPT !.rows = Append(OnLastRow(page, SubSeq(word, 1, part.n)), <<>>),
                               !.left = page.width,
                               !.word = <<SubSeq(word, part.n + 1, Len(word))>>]

(* A row may have no column left at first; every later call takes one      *)
(* grapheme at least, and the last puts what is left.                      *)
HandleWord(page, word) ==
  FoldLeft(Turn, [page EXCEPT !.word = <<word>>], [n \in 1 .. Len(word) + 2 |-> n])

WordWrap(text, width) == FoldLeft(HandleWord, BlankPage(width), text)

(* WrapMode::Truncate of a line of one span: as many graphemes as there    *)
(* are columns.                                                            *)
Truncate(s, width) == SubSeq(s, 1, IF width < Len(s) THEN width ELSE Len(s))

-----------------------------------------------------------------------------
(* What is expected of it. *)

(* A word has to be split, and a wide grapheme may meet a single column.   *)
SplitsWide(text, width) ==
  \E i \in DOMAIN text :
    ColumnsOf(text[i]) >= width /\ \E g \in ToSet(text[i]) : Columns[g] > 1

(* Every row after the first starts with a word the row before had no room *)
(* for.                                                                    *)
BreaksAreNeeded(rows, text, width) ==
  \A i \in 1 .. Len(rows) - 1 :
    \E n \in DOMAIN text :
      /\ FlattenSeq(SubSeq(rows, 1, i)) = FlattenSeq(SubSeq(text, 1, n - 1))
      /\ ColumnsOf(rows[i]) + ColumnsOf(text[n]) > width

WrapsWell(text, width) ==
  LET page == WordWrap(text, width)
  IN  /\ page.fate = "ok" => page.word = <<>> /\ FlattenSeq(page.rows) = FlattenSeq(text)
      /\ ~SplitsWide(text, width) =>
           /\ width > 0 => page.fate = "ok"
           /\ \A i \in DOMAIN page.rows : ColumnsOf(page.rows[i]) <= width
      /\ (\A i \in DOMAIN text : ColumnsOf(text[i]) < width) =>
           BreaksAreNeeded(page.rows, text, width)
=============================================================================
