------------------------------- MODULE Screen -------------------------------
(***************************************************************************)
(* What is drawn on the terminal (TerminalUi, src/src/ui/term.rs, and who  *)
(* calls its render in src/src/state.rs): the newest lines of the current  *)
(* window above the status line, and that above the line the user types,   *)
(* whose cursor is at its end here.                                        *)
(***************************************************************************)
EXTENDS TextWrap, Layout

CONSTANTS
  Windows, First,     (* the windows, and the one there is at the start    *)
  StatusLine,         (* the text of each one's status line                *)
  Texts,              (* the lines that are shown                          *)
  Keys,               (* the graphemes that are typed                      *)
  Sizes,              (* the sizes the terminal may have                   *)
  MaxLines,           (* bound: lines                                      *)
  MaxInput,           (* bound: graphemes typed                            *)
  MaxScrollback,      (* bound: scrollback                                 *)
  SomeTexts, SomeLayouts, (* what wrapping and layout are checked on       *)
  Sections            (* what there is in those layouts                    *)

IsText(text) == text \in Seq(Seq(Graphemes))

ASSUME FirstIsWindow == First \in Windows
ASSUME ScreenBoundsAreNat == {MaxLines, MaxInput, MaxScrollback} \subseteq Nat
ASSUME TheyAreTexts ==
  /\ \A text \in Texts \cup SomeTexts : IsText(text)
  /\ \A w \in Windows : IsText(StatusLine[w])
  /\ Keys \subseteq Graphemes
ASSUME SizesAreSizes == \A sz \in Sizes : sz.width \in Nat /\ sz.height \in Nat

(* Exact is a u16, Fill a u8.                                              *)
ASSUME SectionsAreSections ==
  \A s \in Sections :
    /\ s.kind \in {"exact", "fill"} /\ s.n \in IF s.kind = "fill" THEN 0 .. 255 ELSE Nat
    /\ s.places \in Nat
    /\ LET leaf == IF s.kind = "fill" THEN Fill(s.n) ELSE Exact(s.n)
       IN  s = IF IsLeaf(s) THEN leaf ELSE Node(leaf, s.inner[1].direction, s.inner[1].sections)
    /\ ~IsLeaf(s) => s.inner[1].sections \in Seq(Sections)
ASSUME LayoutsAreLayouts == \A layout \in SomeLayouts : layout.sections \in Seq(Sections)

VARIABLES
  size,       (* of the terminal                                           *)
  open,       (* the windows that are open                                 *)
  current,    (* the one that is selected                                  *)
  lines,      (* the lines of each                                         *)
  scrollback,
  input,      (* the line the user is typing                               *)
  screen,     (* what the terminal shows                                   *)
  fate,       (* "ok" until the process aborts                             *)
  unseen      (* why the screen may be behind: "join", "resize", or "no"   *)

vars == <<size, open, current, lines, scrollback, input, screen, fate, unseen>>

-----------------------------------------------------------------------------
(* The terminal: rows of text and the row the cursor is in.  What a text   *)
(* too wide for its row does to the others is left open (scrambled).       *)

Clear(sz) ==
  [rows |-> [y \in 0 .. sz.height - 1 |-> <<>>], y |-> 0, width |-> sz.width, scrambled |-> FALSE]

MoveTo(term, y) == [term EXCEPT !.y = y]

Write(term, s) ==
  [term EXCEPT !.rows[term.y] = s, !.scrambled = @ \/ ColumnsOf(s) > term.width]

(* At the bottom everything moves up. *)
NewLine(term) ==
  LET bottom == Cardinality(DOMAIN term.rows) - 1
  IN  IF term.y < bottom THEN MoveTo(term, term.y + 1)
      ELSE [term EXCEPT !.rows = [y \in 0 .. bottom |-> IF y < bottom THEN @[y + 1] ELSE <<>>]]

WriteBelow(term, row) == Write(NewLine(term), row)
DrawText(term, text) ==
  FoldLeft(WriteBelow, Write(MoveTo(term, text.y), text.rows[1]), Tail(text.rows))

-----------------------------------------------------------------------------
(* TerminalUi::render: fails where its parts do. *)

ClientLayout == <<Fill(1), Exact(1), Exact(1)>>

(* What a part draws, as texts and the row each starts in, or none if it  *)
(* fails.                                                                  *)
Drawn(texts) == [fate |-> "ok", texts |-> texts]
Failed == [fate |-> "aborted", texts |-> <<>>]

(* Mutant: the newest lines that are hidden are counted from the oldest. *)
HidesOldest(all, hidden) == SubSeq(all, hidden + 1, Len(all))
NotHidden(all, hidden) == SubSeq(all, 1, IF hidden < Len(all) THEN Len(all) - hidden ELSE 0)

(* From the newest line up, as long as a whole line fits. *)
DrawLine(above, text) ==
  LET page == WordWrap(text, above.rect.width)
      y    == above.y - Len(page.rows)
  IN  CASE above.full \/ (page.fate = "ok" /\ above.rect.y + Len(page.rows) > above.y) ->
             [above EXCEPT !.full = TRUE]
        [] ~above.full /\ page.fate # "ok" -> [above EXCEPT !.fate = "aborted", !.full = TRUE]
        [] OTHER -> [above EXCEPT !.texts = Append(@, [y |-> y, rows |-> page.rows]), !.y = y]
DrawMain(rect, all) ==
  FoldLeft(DrawLine,
           [texts |-> <<>>, fate |-> "ok", y |-> rect.y + rect.height, full |-> FALSE, rect |-> rect],
           Reverse(all))

(* A status line too wide for its row goes on below it. *)
DrawStatus(rect, text) ==
  LET page == WordWrap(text, rect.width)
  IN  IF page.fate = "ok" THEN Drawn(<<[y |-> rect.y, rows |-> page.rows]>>) ELSE Failed

(* get_visible_area with the cursor at the end: the last graphemes, as     *)
(* many as there are columns.                                              *)
Visible(typed, width) ==
  SubSeq(typed, 1 + (IF width < Len(typed) THEN Len(typed) - width ELSE 0), Len(typed))

(* Mutant: a column is left on either side. *)
PaddedWidth(rect) == IF rect.width < 2 THEN 0 ELSE rect.width - 2
InputWidth(rect) == IF rect.width = 0 THEN 0 ELSE rect.width - 1

(* A row of spaces and the text over it.  In a row of one column there is  *)
(* a grapheme to center, or get_visible_area panics.                       *)
DrawInput(rect, typed) ==
  LET width == InputWidth(rect)
  IN  IF width = 1 /\ typed = <<>> THEN Failed
      ELSE Drawn(<<[y |-> rect.y, rows |-> <<<<>>>>],
                   [y |-> rect.y, rows |-> <<Truncate(Visible(typed, width), rect.width)>>]>>)

Parts(layout, window, all, hidden, typed) ==
  IF layout.fate # "ok" THEN <<Failed>>
  ELSE <<DrawMain(layout.rects[1], NotHidden(all, hidden)),
         DrawStatus(layout.rects[2], StatusLine[window]),
         DrawInput(layout.rects[3], typed)>>

(* The parts are drawn in their order; with one that fails the process is  *)
(* gone, and what was on the screen is left open.                          *)
Put(sz, parts) ==
  LET fails == \E i \in DOMAIN parts : parts[i].fate # "ok"
  IN  [fate |-> IF fails THEN "aborted" ELSE "ok",
       term |-> FoldLeft(DrawText, Clear(sz),
                         IF fails THEN <<>> ELSE FlattenSeq([i \in DOMAIN parts |-> parts[i].texts]))]

(* The one rendering of this (a set, to give the layout and the parts a    *)
(* name that is evaluated once).                                           *)
Render(sz, window, all, hidden, typed) ==
  {Put(sz, parts) : parts \in
     {Parts(layout, window, all, hidden, typed) :
        layout \in {Calc("vertical", ClientLayout, sz.width, sz.height)}}}

(* render() of the client state as an action leaves it. *)
Redraw ==
  \E drawn \in Render(size', current', lines'[current'], scrollback', input') :
    screen' = drawn.term /\ fate' = drawn.fate /\ unseen' = "no"

-----------------------------------------------------------------------------
(* Who renders.  The first page is drawn before anything else happens. *)

Init ==
  /\ size \in Sizes
  /\ open = {First} /\ current = First
  /\ lines = [w \in Windows |-> <<>>]
  /\ scrollback = 0 /\ input = <<>>
  /\ unseen = "no"
  /\ \E drawn \in Render(size, First, <<>>, 0, <<>>) : screen = drawn.term /\ fate = drawn.fate

(* Mutant: the window is selected, but not added to the list. *)
SelectsOnly(w) == UNCHANGED open /\ current' = w
Opens(w) ==
  /\ open' = open \cup {w}
  /\ current' = IF w \in open THEN current ELSE w

AppendLine(w, text) ==
  /\ MapThenSumSet(LAMBDA v : Len(lines[v]), Windows) < MaxLines
  /\ lines' = [lines EXCEPT ![w] = Append(@, text)]

(* A handler adds a line. *)
AddLine ==
  /\ fate = "ok"
  /\ \E w \in Windows, text \in Texts : Opens(w) /\ AppendLine(w, text)
  /\ UNCHANGED <<size, scrollback, input>>
  /\ Redraw

Type ==
  /\ fate = "ok" /\ Len(input) < MaxInput
  /\ \E key \in Keys : input' = Append(input, key)
  /\ UNCHANGED <<size, open, current, lines, scrollback>>
  /\ Redraw

(* Enter clears the line and renders; then the line is handled. *)
Cleared == Render(size, current, lines[current], scrollback, <<>>)
EnterClears ==
  /\ fate = "ok" /\ \A drawn \in Cleared : drawn.fate = "ok"
  /\ input' = <<>>
  /\ UNCHANGED <<size, scrollback>>

EnterAborts ==
  /\ fate = "ok" /\ input' = <<>>
  /\ UNCHANGED <<size, open, current, lines, scrollback>>
  /\ Redraw /\ fate' = "aborted"

(* /raw, /quit *)
EnterUnseen == EnterClears /\ UNCHANGED <<open, current, lines>> /\ Redraw

(* /join selects a window it opens, and nothing draws it. *)
EnterJoin ==
  /\ EnterClears
  /\ \E w \in Windows : Opens(w)
  /\ \E drawn \in Cleared : screen' = drawn.term /\ fate' = drawn.fate
  /\ unseen' = IF current' = current THEN "no" ELSE "join"
  /\ UNCHANGED lines

(* /msg does. *)
EnterMsg ==
  /\ EnterClears
  /\ \E w \in Windows : Opens(w)
  /\ UNCHANGED lines
  /\ Redraw

(* A line that is sent, or an error. *)
EnterLine ==
  /\ EnterClears
  /\ \E text \in Texts : AppendLine(current, text)
  /\ UNCHANGED <<open, current>>
  /\ Redraw

Scroll ==
  /\ fate = "ok"
  /\ scrollback' \in {scrollback + 1, IF scrollback = 0 THEN 0 ELSE scrollback - 1}
  /\ scrollback' <= MaxScrollback
  /\ UNCHANGED <<size, open, current, lines, input>>
  /\ Redraw

SelectWindow ==
  /\ fate = "ok"
  /\ current' \in open
  /\ UNCHANGED <<size, open, lines, scrollback, input>>
  /\ Redraw

(* The terminal has another size, and the event that says so comes later. *)
TerminalResizes ==
  /\ fate = "ok"
  /\ size' \in Sizes \ {size}
  /\ unseen' = "resize"
  /\ UNCHANGED <<open, current, lines, scrollback, input, screen, fate>>

Resize ==
  /\ fate = "ok" /\ unseen = "resize"
  /\ UNCHANGED <<size, open, current, lines, scrollback, input>>
  /\ Redraw

Next ==
  \/ AddLine \/ Type
  \/ EnterAborts \/ EnterUnseen \/ EnterJoin \/ EnterMsg \/ EnterLine
  \/ Scroll \/ SelectWindow
  \/ TerminalResizes \/ Resize

Spec == Init /\ [][Next]_vars

-----------------------------------------------------------------------------
(* The selected window is open, only open windows have lines, and the      *)
(* terminal has as many rows as it had when it was drawn.                  *)
TypeOK ==
  /\ size \in Sizes
  /\ open \subseteq Windows /\ current \in open
  /\ lines \in [Windows -> Seq(Texts)]
  /\ \A w \in Windows \ open : lines[w] = <<>>
  /\ scrollback \in 0 .. MaxScrollback
  /\ input \in Seq(Keys)
  /\ unseen \in {"no", "join", "resize"} /\ fate \in {"ok", "aborted"}
  /\ unseen # "resize" => DOMAIN screen.rows = 0 .. size.height - 1

(* The picture a user expects: as many of the newest lines that are not    *)
(* hidden as fit whole, at the bottom of what is left by the status line   *)
(* and the end of the line that is typed.                                  *)
RowsOf(all) == FlattenSeq([i \in DOMAIN all |-> WordWrap(all[i], size.width).rows])
Newest(all) ==
  LET RowsOfLast(n) == RowsOf(SubSeq(all, Len(all) - n + 1, Len(all)))
      n == CHOOSE n \in 0 .. Len(all) :
             /\ Len(RowsOfLast(n)) <= size.height - 2
             /\ \A m \in n + 1 .. Len(all) : Len(RowsOfLast(m)) > size.height - 2
  IN  RowsOfLast(n)

Expected(y) ==
  LET kept  == [i \in {j \in DOMAIN lines[current] : j + scrollback <= Len(lines[current])}
                  |-> lines[current][i]]
      main  == Newest(kept)
      above == size.height - 2 - Len(main)
  IN  CASE y = size.height - 1 -> Visible(input, size.width - 1)
        [] y = size.height - 2 -> WordWrap(StatusLine[current], size.width).rows[1]
        [] y < above -> <<>>
        [] OTHER -> main[y - above + 1]

(* What the terminal shows is the picture of the current window, except    *)
(* after /join and before the event of a resize, or if a wide grapheme was *)
(* drawn past the right end or a status line of three rows moved the rest. *)
ScreenIsCurrent ==
  fate = "ok" /\ unseen = "no" /\ ~screen.scrambled
    /\ Len(WordWrap(StatusLine[current], size.width).rows) <= 2 =>
  \A y \in DOMAIN screen.rows : screen.rows[y] = Expected(y)

(* The size of the terminal and the texts decide whether it can be drawn:  *)
(* nothing aborts the process in a terminal of three rows and columns as   *)
(* long as there is no wide grapheme to cut in the window.                 *)
CutsWide ==
  \E text \in ToSet(lines[current]) \cup {StatusLine[current]} : SplitsWide(text, size.width)
AbortsOnlyIfSmall == fate = "aborted" => size.height <= 2 \/ size.width <= 2 \/ CutsWide

(* Nor is anything drawn past the right end then. *)
ScrambledOnlyIfWide ==
  screen.scrambled /\ unseen = "no" => CutsWide \/ \E key \in ToSet(input) : Columns[key] > 1

(* The next two depend on the size alone. *)
Untouched ==
  open = {First} /\ input = <<>> /\ scrollback = 0 /\ (\A w \in Windows : lines[w] = <<>>)

(* Any layout divides a terminal of this size without gap or overlap, by   *)
(* the weights, whenever there is room for it.                             *)
LayoutsDivideWell ==
  Untouched =>
    \A layout \in SomeLayouts :
      DividesWell(layout.direction, layout.sections,
                  [x |-> 0, y |-> 0, width |-> size.width, height |-> size.height])

(* Any text is cut into rows of this terminal's width without loss, breaks *)
(* only where it has to, and stays in its rows unless a wide grapheme is   *)
(* cut.                                                                    *)
TextsWrapWell ==
  Untouched =>
    \A text \in SomeTexts : WrapsWell(text, size.width)
=============================================================================
