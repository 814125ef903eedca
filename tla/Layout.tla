------------------------------- MODULE Layout -------------------------------
(***************************************************************************)
(* How a rectangle is divided among sections (Layout::calc,                *)
(* src/src/ui/layout.rs).  A section has a size along the axis of its      *)
(* layout, exact or a weight, and is a leaf or is divided itself.          *)
(***************************************************************************)
EXTENDS Naturals, Sequences, SequencesExt

Plus(m, n) == m + n
TotalOf(sizes) == FoldLeft(Plus, 0, sizes)

(* The sections that are placed for one: itself and all that are in it.    *)
Places(sections) == TotalOf([i \in DOMAIN sections |-> sections[i].places])

Exact(n) == [kind |-> "exact", n |-> n, inner |-> <<>>, places |-> 1]
Fill(weight) == [kind |-> "fill", n |-> weight, inner |-> <<>>, places |-> 1]
Node(section, direction, sections) ==
  [section EXCEPT !.inner = <<[direction |-> direction, sections |-> sections]>>,
                  !.places = 1 + Places(sections)]
IsLeaf(section) == section.inner = <<>>

Extent(direction, rect) == IF direction = "vertical" THEN rect.height ELSE rect.width
Start(direction, rect) == IF direction = "vertical" THEN rect.y ELSE rect.x
Part(direction, rect, pos, size) ==
  IF direction = "vertical" THEN [rect EXCEPT !.y = pos, !.height = size]
                            ELSE [rect EXCEPT !.x = pos, !.width = size]

AmountOf(kind, sections) ==
  TotalOf([i \in DOMAIN sections |-> IF sections[i].kind = kind THEN sections[i].n ELSE 0])
TotalWeight(sections) == AmountOf("fill", sections)

(* What the exact sections leave, which are served in their order: one     *)
(* that would use up all that is left does not fit.                        *)
Serve(left, section) ==
  IF section.kind = "exact" /\ section.n < left THEN left - section.n ELSE left
Remaining(sections, space) == FoldLeft(Serve, space, sections)
Fits(sections, space, i) ==
  sections[i].kind = "exact" =>
    sections[i].n < Remaining(SubSeq(sections, 1, i - 1), space)

(* Mutant: the remainder is not given to anybody. *)
PiecesWithoutRest(space, total) == [k \in 1 .. total |-> space \div total]

(* What is left is split into as many pieces as there is weight, the first *)
(* of them one larger if it does not divide; a section takes as many as it *)
(* has weight.                                                             *)
Pieces(space, total) ==
  [k \in 1 .. total |->
     (space \div total) + (IF k <= space % total THEN 1 ELSE 0)]

Size(sections, space, i) ==
  LET before == TotalWeight(SubSeq(sections, 1, i - 1))
      pieces == Pieces(Remaining(sections, space), TotalWeight(sections))
  IN  IF sections[i].kind = "exact" THEN sections[i].n
      ELSE TotalOf(SubSeq(pieces, before + 1, before + sections[i].n))

(* The total weight is a u8 that something is divided by, and what does    *)
(* not fit is todo!().  (A total that overflows panics without overflow    *)
(* checks too: there are fewer pieces than are taken then.)                *)
Aborts(sections, space) ==
  \/ TotalWeight(sections) \notin 1 .. 255
  \/ \E i \in DOMAIN sections : ~Fits(sections, space, i)

Divide(direction, sections, rect) ==
  LET space == Extent(direction, rect)
      sizes == [i \in DOMAIN sections |-> Size(sections, space, i)]
      pos   == [i \in DOMAIN sections |->
                  Start(direction, rect) + TotalOf(SubSeq(sizes, 1, i - 1))]
  IN  [i \in DOMAIN sections |->
         [section |-> sections[i], rect |-> Part(direction, rect, pos[i], sizes[i])]]

Aborted == [fate |-> "aborted", rects |-> <<>>, todo |-> <<>>]

(* The next section that has its rectangle (todo): a leaf is done, of any  *)
(* other what is in it comes next.                                         *)
Place(done, n) ==
  LET next  == Head(done.todo)
      inner == next.section.inner[1]
  IN  CASE done.todo = <<>> -> done
        [] done.todo # <<>> /\ IsLeaf(next.section) ->
             [done EXCEPT !.rects = Append(@, next.rect), !.todo = Tail(@)]
        [] done.todo # <<>> /\ ~IsLeaf(next.section) ->
             IF Aborts(inner.sections, Extent(inner.direction, next.rect)) THEN Aborted
             ELSE [done EXCEPT !.todo =
                     Divide(inner.direction, inner.sections, next.rect) \o Tail(@)]

CalcRecurse(direction, sections, rect) ==
  LET whole == Node(Fill(1), direction, sections)
  IN  FoldLeft(Place,
               [fate |-> "ok", rects |-> <<>>, todo |-> <<[section |-> whole, rect |-> rect]>>],
               [n \in 1 .. whole.places |-> n])

Calc(direction, sections, width, height) ==
  CalcRecurse(direction, sections, [x |-> 0, y |-> 0, width |-> width, height |-> height])

-----------------------------------------------------------------------------
(* What is expected of it. *)

Cells(rect) ==
  (rect.x .. rect.x + rect.width - 1) \X (rect.y .. rect.y + rect.height - 1)

(* Every cell belongs to one of the rectangles, and to no two of them.     *)
Tile(rects, area) ==
  /\ UNION {Cells(rects[i]) : i \in DOMAIN rects} = Cells(area)
  /\ \A i, j \in DOMAIN rects : i # j => Cells(rects[i]) \cap Cells(rects[j]) = {}

(* One row or column at least is to be left for the sections that fill.    *)
HasRoom(sections, space) ==
  /\ \E i \in DOMAIN sections : sections[i].kind = "fill" /\ sections[i].n > 0
  /\ (\E i \in DOMAIN sections : sections[i].kind = "exact") => AmountOf("exact", sections) < space

(* Exact sizes are kept, and of two sections that fill the one that comes  *)
(* first gets no less for its weight, and at most its weight more.         *)
SizesAreFair(sections, space) ==
  \A i, j \in DOMAIN sections :
    LET size == [k \in {i, j} |-> Size(sections, space, k)]
    IN  /\ sections[i].kind = "exact" => size[i] = sections[i].n
        /\ sections[i].kind = "fill" /\ sections[j].kind = "fill" /\ i < j =>
             /\ size[i] * sections[j].n >= size[j] * sections[i].n
             /\ size[i] * sections[j].n <= (size[j] + sections[j].n) * sections[i].n

DividesWell(direction, sections, area) ==
  LET space == Extent(direction, area)
      done  == CalcRecurse(direction, sections, area)
  IN  /\ (\A i \in DOMAIN sections : IsLeaf(sections[i])) /\ TotalWeight(sections) <= 255 =>
           (done.fate = "ok" <=> HasRoom(sections, space))
      /\ done.fate = "ok" => done.todo = <<>> /\ Tile(done.rects, area) /\ SizesAreFair(sections, space)
=============================================================================
