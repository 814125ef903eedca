--------------------------- MODULE Screen_proofs ---------------------------
(***************************************************************************)
(* What Screen, and the text wrapping and the layout it draws with,        *)
(* promise, for every instance.                                            *)
(***************************************************************************)
EXTENDS Screen, SequenceInduction, FiniteSetTheorems, TLAPS

ColumnsFold == INSTANCE FoldTheorems WITH Op <- AddColumns
TakeFold == INSTANCE FoldTheorems WITH Op <- TakeGrapheme
TurnFold == INSTANCE FoldTheorems WITH Op <- Turn
WordFold == INSTANCE FoldTheorems WITH Op <- HandleWord
TotalFold == INSTANCE FoldTheorems WITH Op <- Plus
ServeFold == INSTANCE FoldTheorems WITH Op <- Serve
PlaceFold == INSTANCE FoldTheorems WITH Op <- Place
WriteFold == INSTANCE FoldTheorems WITH Op <- WriteBelow
TextFold == INSTANCE FoldTheorems WITH Op <- DrawText
LineFold == INSTANCE FoldTheorems WITH Op <- DrawLine

-----------------------------------------------------------------------------
(* Sequences. *)

LEMMA AppendParts ==
  ASSUME NEW S, NEW s \in Seq(S), NEW e \in S
  PROVE  /\ Append(s, e) \in Seq(S) /\ Append(s, e) # <<>> /\ Len(Append(s, e)) = Len(s) + 1
         /\ DOMAIN Append(s, e) = 1 .. Len(s) + 1 /\ Len(s) \in Nat
         /\ Append(s, e)[Len(s) + 1] = e /\ \A i \in 1 .. Len(s) : Append(s, e)[i] = s[i]
OBVIOUS

LEMMA FunctionIsSeq ==
  ASSUME NEW S, NEW n \in Nat, NEW f \in [1 .. n -> S]
  PROVE  f \in Seq(S) /\ Len(f) = n
OBVIOUS

LEMMA SameElements ==
  ASSUME NEW S, NEW s \in Seq(S), NEW t \in Seq(S), Len(s) = Len(t), \A i \in 1 .. Len(s) : s[i] = t[i]
  PROVE  s = t
OBVIOUS

LEMMA PrefixParts ==
  ASSUME NEW S, NEW s \in Seq(S), NEW n \in 0 .. Len(s)
  PROVE  /\ SubSeq(s, 1, n) \in Seq(S) /\ Len(SubSeq(s, 1, n)) = n
         /\ \A i \in 1 .. n : SubSeq(s, 1, n)[i] = s[i]
OBVIOUS

LEMMA LastSplits ==
  ASSUME NEW S, NEW s \in Seq(S), s # <<>>
  PROVE  \E front \in Seq(S), last \in S :
           /\ s = Append(front, last) /\ last = s[Len(s)] /\ Len(s) = Len(front) + 1
           /\ \A i \in 1 .. Len(front) : front[i] = s[i]
<1>1. PICK n, front, last : n = Len(s) - 1 /\ front = SubSeq(s, 1, n) /\ last = s[Len(s)]
  OBVIOUS
<1>2. n \in 0 .. Len(s) /\ Len(s) = n + 1 /\ last \in S
  BY <1>1
<1>3. front \in Seq(S) /\ Len(front) = n /\ \A i \in 1 .. n : front[i] = s[i]
  BY ONLY <1>1, <1>2, s \in Seq(S), PrefixParts
<1>4. PICK t : t = Append(front, last)
  OBVIOUS
<1>5. t \in Seq(S) /\ Len(t) = n + 1 /\ t[n + 1] = last /\ \A i \in 1 .. n : t[i] = front[i]
  BY ONLY <1>2, <1>3, <1>4, AppendParts
<1>6. \A i \in 1 .. Len(s) : s[i] = t[i]
  BY <1>1, <1>2, <1>3, <1>5
<1>7. s = t
  BY <1>2, <1>5, <1>6, SameElements
<1> QED BY <1>2, <1>3, <1>4, <1>7, <1>1

LEMMA SplitAt ==
  ASSUME NEW S, NEW s \in Seq(S), NEW n \in 0 .. Len(s)
  PROVE  /\ SubSeq(s, 1, n) \in Seq(S) /\ SubSeq(s, n + 1, Len(s)) \in Seq(S)
         /\ Len(SubSeq(s, 1, n)) = n /\ Len(SubSeq(s, n + 1, Len(s))) = Len(s) - n
         /\ s = SubSeq(s, 1, n) \o SubSeq(s, n + 1, Len(s))
<1>1. /\ SubSeq(s, 1, n) \in Seq(S) /\ SubSeq(s, n + 1, Len(s)) \in Seq(S)
      /\ Len(SubSeq(s, 1, n)) = n /\ Len(SubSeq(s, n + 1, Len(s))) = Len(s) - n
      /\ \A i \in 1 .. n : SubSeq(s, 1, n)[i] = s[i]
      /\ \A i \in 1 .. Len(s) - n : SubSeq(s, n + 1, Len(s))[i] = s[n + i]
  OBVIOUS
<1>2. PICK x, y : x = SubSeq(s, 1, n) /\ y = SubSeq(s, n + 1, Len(s))
  OBVIOUS
<1>3. PICK t : t = x \o y
  OBVIOUS
<1>4. x \in Seq(S) /\ y \in Seq(S) /\ Len(x) = n /\ Len(y) = Len(s) - n /\ Len(s) \in Nat
      /\ (\A i \in 1 .. n : x[i] = s[i]) /\ \A i \in 1 .. Len(s) - n : y[i] = s[n + i]
  BY ONLY s \in Seq(S), <1>1, <1>2
<1>5. t \in Seq(S) /\ Len(t) = Len(s)
      /\ (\A i \in 1 .. n : t[i] = x[i]) /\ \A i \in 1 .. Len(s) - n : t[n + i] = y[i]
  BY ONLY n \in 0 .. Len(s), <1>3, <1>4
<1>6. ASSUME NEW i \in 1 .. Len(s) PROVE s[i] = t[i]
  <2>1. CASE i <= n
    BY <1>4, <1>5, <2>1
  <2>2. CASE i > n
    <3>1. i - n \in 1 .. Len(s) - n /\ n + (i - n) = i
      BY <1>4, <2>2
    <3>2. t[n + (i - n)] = y[i - n] /\ y[i - n] = s[n + (i - n)]
      BY <1>4, <1>5, <3>1
    <3> QED BY <3>1, <3>2
  <2> QED BY <1>4, <2>1, <2>2
<1>7. s = t
  BY <1>5, <1>6, SameElements
<1> QED BY <1>1, <1>2, <1>3, <1>7

LEMMA PrefixGrows ==
  ASSUME NEW S, NEW s \in Seq(S), NEW k \in 1 .. Len(s)
  PROVE  SubSeq(s, 1, k) = Append(SubSeq(s, 1, k - 1), s[k]) /\ SubSeq(s, 1, k - 1) \in Seq(S)
OBVIOUS

-----------------------------------------------------------------------------
(* The columns of a text. *)

LEMMA ColumnsFolded ==
  ASSUME NEW s
  PROVE  ColumnsOf(s) = ColumnsFold!Fold(0, s)
BY DEF ColumnsOf, FoldLeft, MapThenFoldSet, Max, ColumnsFold!Fold, ColumnsFold!MapThenFoldSet,
       ColumnsFold!Largest

LEMMA ColumnsType ==
  ASSUME NEW s \in Seq(Graphemes)
  PROVE  ColumnsOf(s) \in Nat
<1>1. \A n \in Nat, g \in Graphemes : AddColumns(n, g) \in Nat
  BY ColumnsAreNat DEF AddColumns
<1>2. ColumnsFold!Fold(0, s) \in Nat
  BY <1>1, ColumnsFold!FoldType
<1> QED BY <1>2, ColumnsFolded

LEMMA ColumnsEmpty == ColumnsOf(<<>>) = 0
BY ColumnsFolded, ColumnsFold!FoldEmpty

LEMMA ColumnsAppend ==
  ASSUME NEW s \in Seq(Graphemes), NEW g \in Graphemes
  PROVE  ColumnsOf(Append(s, g)) = ColumnsOf(s) + Columns[g]
<1>1. ColumnsFold!Fold(0, Append(s, g)) = AddColumns(ColumnsFold!Fold(0, s), g)
  BY ColumnsFold!FoldAppend
<1> QED BY <1>1, ColumnsFolded DEF AddColumns

LEMMA ColumnsConcat ==
  ASSUME NEW s \in Seq(Graphemes), NEW t \in Seq(Graphemes)
  PROVE  ColumnsOf(s \o t) = ColumnsOf(s) + ColumnsOf(t)
<1> DEFINE T == {u \in Seq(Graphemes) : ColumnsOf(s \o u) = ColumnsOf(s) + ColumnsOf(u)}
<1>1. <<>> \in T
  <2>1. s \o <<>> = s /\ ColumnsOf(s) \in Nat
    BY ColumnsType
  <2> QED BY <2>1, ColumnsEmpty
<1>2. ASSUME NEW u \in Seq(Graphemes), u \in T, NEW g \in Graphemes PROVE Append(u, g) \in T
  <2>1. s \o Append(u, g) = Append(s \o u, g) /\ s \o u \in Seq(Graphemes)
    BY ConcatAppend
  <2>2. ColumnsOf(s \o Append(u, g)) = ColumnsOf(s \o u) + Columns[g]
    BY <2>1, ColumnsAppend
  <2>3. ColumnsOf(s) \in Nat /\ ColumnsOf(u) \in Nat /\ Columns[g] \in Nat
    BY ColumnsType, ColumnsAreNat
  <2>4. ColumnsOf(s \o u) = ColumnsOf(s) + ColumnsOf(u)
    BY <1>2
  <2>5. ColumnsOf(Append(u, g)) = ColumnsOf(u) + Columns[g]
    BY ColumnsAppend
  <2> QED BY <2>2, <2>3, <2>4, <2>5
<1> HIDE DEF T
<1>3. Seq(Graphemes) \subseteq T
  BY <1>1, <1>2, SeqSetInduction
<1> QED BY <1>3 DEF T

(* Graphemes of a column at most.                                          *)
Narrow(s) == \A i \in DOMAIN s : Columns[s[i]] <= 1

LEMMA NarrowColumns ==
  ASSUME NEW s \in Seq(Graphemes), Narrow(s)
  PROVE  ColumnsOf(s) <= Len(s)
<1> DEFINE T == {u \in Seq(Graphemes) : Narrow(u) => ColumnsOf(u) <= Len(u)}
<1>1. <<>> \in T
  BY ColumnsEmpty
<1>2. ASSUME NEW u \in Seq(Graphemes), u \in T, NEW g \in Graphemes PROVE Append(u, g) \in T
  <2> SUFFICES ASSUME Narrow(Append(u, g)) PROVE ColumnsOf(Append(u, g)) <= Len(Append(u, g))
    OBVIOUS
  <2>1. Narrow(u) /\ Columns[g] <= 1
    <3>1. /\ \A i \in DOMAIN u : i \in DOMAIN Append(u, g) /\ Append(u, g)[i] = u[i]
          /\ Len(u) + 1 \in DOMAIN Append(u, g) /\ Append(u, g)[Len(u) + 1] = g
      OBVIOUS
    <3> QED BY <3>1 DEF Narrow
  <2>2. ColumnsOf(u) \in Nat /\ Columns[g] \in Nat /\ Len(Append(u, g)) = Len(u) + 1
    BY ColumnsType, ColumnsAreNat
  <2> QED BY <1>2, <2>1, <2>2, ColumnsAppend
<1> HIDE DEF T
<1>3. Seq(Graphemes) \subseteq T
  BY <1>1, <1>2, SeqSetInduction
<1> QED BY <1>3 DEF T

LEMMA NarrowPart ==
  ASSUME NEW s \in Seq(Graphemes), Narrow(s), NEW m \in Nat \ {0}, NEW n \in 0 .. Len(s)
  PROVE  Narrow(SubSeq(s, m, n))
BY DEF Narrow

-----------------------------------------------------------------------------
(* What is taken of a word that is split. *)

Taken == [n : Nat, left : Nat, fate : {"ok", "aborted"}]
TakenAfter(word, left, k) ==
  {t \in Taken :
     /\ t.n <= k
     /\ k = 0 => t.left = left /\ t.fate = "ok"
     /\ left > 0 /\ k > 0 => t.n > 0
     /\ t.left # 0 /\ t.fate = "ok" => t.n = k
     /\ Narrow(word) => t.fate = "ok" /\ ColumnsOf(SubSeq(word, 1, t.n)) + t.left = left}

LEMMA TakeOne ==
  ASSUME NEW word \in Seq(Graphemes), NEW left \in Nat, NEW k \in 1 .. Len(word),
         NEW t \in TakenAfter(word, left, k - 1)
  PROVE  TakeGrapheme(t, word[k]) \in TakenAfter(word, left, k)
<1> DEFINE g == word[k]
           u == TakeGrapheme(t, g)
<1>1. t \in Taken /\ g \in Graphemes /\ Columns[g] \in Nat
  BY ColumnsAreNat DEF TakenAfter
<1>2. CASE t.left = 0 \/ t.fate # "ok"
  <2>1. u = t
    BY <1>2 DEF TakeGrapheme
  <2>2. ASSUME left > 0 PROVE k > 1
    BY <1>2, <2>2 DEF TakenAfter
  <2> QED BY <1>1, <1>2, <2>1, <2>2 DEF TakenAfter, Taken
<1>3. CASE t.left # 0 /\ t.fate = "ok"
  <2>1. t.n = k - 1
    BY <1>3 DEF TakenAfter
  <2>2. u = [n |-> k, left |-> Minus(t.left, Columns[g]),
             fate |-> IF OverflowChecks /\ Columns[g] > t.left THEN "aborted" ELSE "ok"]
    BY <1>3, <2>1 DEF TakeGrapheme
  <2>3. u \in Taken
    BY <1>1, <2>2 DEF Taken, Minus
  <2>4. ASSUME Narrow(word) PROVE u.fate = "ok" /\ ColumnsOf(SubSeq(word, 1, k)) + u.left = left
    <3>1. Columns[g] <= 1 /\ t.left \in Nat
      BY <1>1, <2>4 DEF Narrow, Taken
    <3>2. u.fate = "ok" /\ u.left = t.left - Columns[g]
      BY <1>1, <1>3, <2>2, <3>1 DEF Minus
    <3>3. SubSeq(word, 1, k) = Append(SubSeq(word, 1, k - 1), g) /\ SubSeq(word, 1, k - 1) \in Seq(Graphemes)
      OBVIOUS
    <3>4. ColumnsOf(SubSeq(word, 1, k)) = ColumnsOf(SubSeq(word, 1, k - 1)) + Columns[g]
      BY <1>1, <3>3, ColumnsAppend
    <3>5. ColumnsOf(SubSeq(word, 1, k - 1)) + t.left = left /\ ColumnsOf(SubSeq(word, 1, k - 1)) \in Nat
      BY <2>1, <2>4, <3>3, ColumnsType DEF TakenAfter
    <3> QED BY <1>1, <3>1, <3>2, <3>4, <3>5
  <2> QED BY <2>2, <2>3, <2>4 DEF TakenAfter
<1> QED BY <1>1, <1>2, <1>3

LEMMA TakesGraphemes ==
  ASSUME NEW word \in Seq(Graphemes), NEW left \in Nat
  PROVE  TakeGraphemes(word, left) \in TakenAfter(word, left, Len(word))
<1> DEFINE base == [n |-> 0, left |-> left, fate |-> "ok"]
           I == [k \in 0 .. Len(word) |-> TakenAfter(word, left, k)]
<1>1. TakeGraphemes(word, left) = TakeFold!Fold(base, word)
  BY DEF TakeGraphemes, FoldLeft, MapThenFoldSet, Max, TakeFold!Fold, TakeFold!MapThenFoldSet,
         TakeFold!Largest
<1>2. base \in I[0]
  <2>1. SubSeq(word, 1, 0) = <<>>
    OBVIOUS
  <2>2. ColumnsOf(SubSeq(word, 1, 0)) = 0
    BY <2>1, ColumnsEmpty, Zenon
  <2>3. base \in TakenAfter(word, left, 0)
    BY <2>2 DEF TakenAfter, Taken
  <2> QED BY <2>3
<1>3. \A k \in 1 .. Len(word) : \A t \in I[k - 1] : TakeGrapheme(t, word[k]) \in I[k]
  BY TakeOne
<1>4. TakeFold!Fold(base, word) \in I[Len(word)]
  <2> HIDE DEF base, I
  <2> QED BY <1>2, <1>3, TakeFold!FoldInvariant
<1> QED BY <1>1, <1>4

-----------------------------------------------------------------------------
(* A call of handle_word. *)

LEMMA LastRow ==
  ASSUME NEW page, NEW rows \in Seq(Seq(Graphemes)), rows # <<>>, page.rows = rows,
         NEW s \in Seq(Graphemes)
  PROVE  /\ OnLastRow(page, s) \in Seq(Seq(Graphemes))
         /\ OnLastRow(page, s) # <<>>
         /\ Len(OnLastRow(page, s)) = Len(rows)
         /\ FlattenSeq(OnLastRow(page, s)) = FlattenSeq(rows) \o s
         /\ OnLastRow(page, s)[Len(rows)] = rows[Len(rows)] \o s
         /\ \A i \in 1 .. Len(rows) - 1 : OnLastRow(page, s)[i] = rows[i]
<1>0. SUFFICES ASSUME NEW after, after = [rows EXCEPT ![Len(rows)] = @ \o s]
             PROVE  /\ after \in Seq(Seq(Graphemes)) /\ after # <<>> /\ Len(after) = Len(rows)
                    /\ FlattenSeq(after) = FlattenSeq(rows) \o s
                    /\ after[Len(rows)] = rows[Len(rows)] \o s
                    /\ \A i \in 1 .. Len(rows) - 1 : after[i] = rows[i]
  BY DEF OnLastRow
<1> DEFINE n == Len(rows)
<1>1. PICK front \in Seq(Seq(Graphemes)), last \in Seq(Graphemes) :
        /\ rows = Append(front, last) /\ last = rows[n] /\ n = Len(front) + 1
        /\ \A i \in 1 .. Len(front) : front[i] = rows[i]
  BY LastSplits
<1>2. last \o s \in Seq(Graphemes)
  OBVIOUS
<1>3. after \in Seq(Seq(Graphemes)) /\ Len(after) = n /\ n \in Nat \ {0}
  <2>0. n \in Nat \ {0} /\ rows \in [1 .. n -> Seq(Graphemes)]
    OBVIOUS
  <2>1. n \in Nat \ {0} /\ rows \in [1 .. n -> Seq(Graphemes)] /\ rows[n] \o s \in Seq(Graphemes)
    BY ONLY <2>0, <1>1, <1>2
  <2>2. after \in [1 .. n -> Seq(Graphemes)]
    BY ONLY <1>0, <2>1
  <2> QED BY ONLY <2>1, <2>2, FunctionIsSeq
<1>4. after[n] = last \o s /\ \A i \in 1 .. n - 1 : after[i] = rows[i]
  <2>1. DOMAIN rows = 1 .. n
    OBVIOUS
  <2>2. n \in DOMAIN rows /\ \A i \in 1 .. n - 1 : i \in DOMAIN rows /\ i # n
    BY ONLY <1>3, <2>1
  <2> QED BY ONLY <1>0, <1>1, <2>2
<1> DEFINE other == Append(front, last \o s)
<1>5. /\ Len(other) = n /\ other \in Seq(Seq(Graphemes))
      /\ other[n] = last \o s /\ \A i \in 1 .. n - 1 : other[i] = front[i] /\ rows[i] = front[i]
  BY <1>1, <1>2, AppendParts
<1> HIDE DEF other
<1>6. after = other
  <2>1. ASSUME NEW i \in 1 .. n PROVE after[i] = other[i]
    <3>1. CASE i = n
      BY ONLY <1>4, <1>5, <3>1
    <3>2. CASE i \in 1 .. n - 1
      BY ONLY <1>4, <1>5, <3>2
    <3> QED BY <1>3, <3>1, <3>2
  <2> QED BY ONLY <1>3, <1>5, <2>1, SameElements
<1>7. FlattenSeq(rows) = FlattenSeq(front) \o last
  BY <1>1, FlattenAppend
<1>8. FlattenSeq(after) = FlattenSeq(front) \o (last \o s)
  BY <1>2, <1>6, FlattenAppend DEF other
<1>9. FlattenSeq(front) \in Seq(Graphemes)
  BY FlattenType
<1>10. (FlattenSeq(front) \o last) \o s = FlattenSeq(front) \o (last \o s)
  BY ONLY <1>9, last \in Seq(Graphemes), s \in Seq(Graphemes), ConcatAssociative
<1>11. FlattenSeq(after) = FlattenSeq(rows) \o s
  BY <1>7, <1>8, <1>10
<1> QED BY <1>1, <1>3, <1>4, <1>11

Pages(width) ==
  {p \in [rows : Seq(Seq(Graphemes)), width : {width}, left : Nat, fate : {"ok", "aborted"},
          word : {<<>>} \cup {<<w>> : w \in Seq(Graphemes)}] : p.rows # <<>>}

(* The last row has what columns are left, and none has more than it may.  *)
RowsFit(p) ==
  /\ p.left + ColumnsOf(p.rows[Len(p.rows)]) = p.width
  /\ \A i \in DOMAIN p.rows : ColumnsOf(p.rows[i]) <= p.width

(* A word that is not split, or can be.                                    *)
Easy(word, width) == ColumnsOf(word) < width \/ Narrow(word)

Unput(p) == IF p.word = <<>> THEN <<>> ELSE p.word[1]

(* What k calls may make of a page with a word to put on it.               *)
TurnedTo(page, word, k) ==
  {p \in Pages(page.width) :
     /\ p.word # <<>> /\ p.fate = "ok" =>
          Len(p.word[1]) + k <= Len(word) + 1 /\ Len(p.word[1]) <= Len(word) /\ (k > 0 => p.left > 0)
     /\ p.fate = "ok" => page.fate = "ok"
     /\ p.fate = "ok" => FlattenSeq(p.rows) \o Unput(p) = FlattenSeq(page.rows) \o word
     /\ RowsFit(page) /\ Easy(word, page.width) =>
          /\ RowsFit(p)
          /\ p.word # <<>> => Easy(p.word[1], page.width)
          /\ page.width > 0 /\ page.fate = "ok" => p.fate = "ok"}

(* What is put is at the end of the last row.                              *)
LEMMA RowTakesMore ==
  ASSUME NEW width \in Nat, NEW page, NEW rows \in Seq(Seq(Graphemes)), rows # <<>>,
         page.rows = rows, page.width = width, page.left \in Nat, RowsFit(page),
         NEW s \in Seq(Graphemes), NEW n \in Nat, ColumnsOf(s) + n = page.left
  PROVE  /\ n + ColumnsOf(OnLastRow(page, s)[Len(rows)]) = width
         /\ \A i \in 1 .. Len(rows) : ColumnsOf(OnLastRow(page, s)[i]) <= width
<1>0. PICK after : after = OnLastRow(page, s)
  OBVIOUS
<1>1. /\ Len(after) = Len(rows)
      /\ after[Len(rows)] = rows[Len(rows)] \o s
      /\ \A i \in 1 .. Len(rows) - 1 : after[i] = rows[i]
  BY <1>0, LastRow
<1>2. Len(rows) \in Nat \ {0} /\ rows[Len(rows)] \in Seq(Graphemes)
  OBVIOUS
<1>3. ColumnsOf(after[Len(rows)]) = ColumnsOf(rows[Len(rows)]) + ColumnsOf(s)
  BY <1>1, <1>2, ColumnsConcat
<1>4. ColumnsOf(rows[Len(rows)]) \in Nat /\ ColumnsOf(s) \in Nat
  BY <1>2, ColumnsType
<1>5. /\ page.left + ColumnsOf(rows[Len(rows)]) = width
      /\ \A i \in 1 .. Len(rows) : ColumnsOf(rows[i]) <= width
  BY DEF RowsFit
<1>6. n + ColumnsOf(after[Len(rows)]) = width /\ ColumnsOf(after[Len(rows)]) <= width
  BY <1>3, <1>4, <1>5
<1>7. ASSUME NEW i \in 1 .. Len(rows) PROVE ColumnsOf(after[i]) <= width
  <2>1. CASE i = Len(rows)
    BY <1>6, <2>1
  <2>2. CASE i \in 1 .. Len(rows) - 1
    BY <1>1, <1>5, <2>2
  <2> QED BY <1>2, <2>1, <2>2
<1> QED BY <1>0, <1>6, <1>7

(* What is known when a word is put on a page.                             *)
Putting(page, word, k, p, rows, w, left, width) ==
  /\ page.width = width /\ page.fate = "ok"
  /\ rows \in Seq(Seq(Graphemes)) /\ rows # <<>>
  /\ w \in Seq(Graphemes) /\ left \in Nat
  /\ p = [rows |-> rows, width |-> width, left |-> left, fate |-> "ok", word |-> <<w>>]
  /\ Len(w) + k <= Len(word) + 1 /\ Len(w) <= Len(word) /\ (k > 0 => left > 0)
  /\ FlattenSeq(rows) \o w = FlattenSeq(page.rows) \o word
  /\ RowsFit(page) /\ Easy(word, width) => RowsFit(p) /\ Easy(w, width)

LEMMA PutOnLastRow ==
  ASSUME NEW width \in Nat, NEW page, NEW word \in Seq(Graphemes), NEW k \in Nat, NEW p, NEW rows,
         NEW w, NEW left, Putting(page, word, k, p, rows, w, left, width), ColumnsOf(w) <= left
  PROVE  [rows |-> OnLastRow(p, w), width |-> width, left |-> left - ColumnsOf(w),
          fate |-> "ok", word |-> <<>>] \in TurnedTo(page, word, k + 1)
<1>1. PICK after, n : after = OnLastRow(p, w) /\ n = left - ColumnsOf(w)
  OBVIOUS
<1>2. PICK q : q = [rows |-> after, width |-> width, left |-> n, fate |-> "ok", word |-> <<>>]
  OBVIOUS
<1>3. n \in Nat /\ ColumnsOf(w) + n = left
  <2>1. w \in Seq(Graphemes) /\ left \in Nat
    BY DEF Putting
  <2> QED BY <1>1, <2>1, ColumnsType
<1>4. p.rows = rows /\ p.width = width /\ p.left = left /\ rows \in Seq(Seq(Graphemes)) /\ rows # <<>>
      /\ w \in Seq(Graphemes) /\ left \in Nat /\ page.width = width /\ page.fate = "ok"
  BY DEF Putting
<1>5. /\ after \in Seq(Seq(Graphemes)) /\ after # <<>> /\ Len(after) = Len(rows)
      /\ FlattenSeq(after) = FlattenSeq(rows) \o w
  BY <1>1, <1>4, LastRow
<1>6. q \in Pages(width) /\ q.word = <<>> /\ q.fate = "ok" /\ Unput(q) = <<>> /\ q.rows = after
  BY <1>2, <1>3, <1>5 DEF Pages, Unput
<1>7. FlattenSeq(after) \o <<>> = FlattenSeq(page.rows) \o word
  <2>1. FlattenSeq(after) \in Seq(Graphemes)
    BY <1>5, FlattenType
  <2>2. FlattenSeq(rows) \o w = FlattenSeq(page.rows) \o word
    BY DEF Putting
  <2>3. FlattenSeq(after) \o <<>> = FlattenSeq(after)
    BY <2>1
  <2> QED BY <1>5, <2>2, <2>3
<1>8. ASSUME RowsFit(page), Easy(word, width) PROVE RowsFit(q)
  <2>1. RowsFit(p)
    BY <1>8 DEF Putting
  <2>2. n + ColumnsOf(after[Len(rows)]) = width /\ \A i \in 1 .. Len(rows) : ColumnsOf(after[i]) <= width
    <3>1. p.rows = rows /\ p.width = width /\ p.left \in Nat /\ ColumnsOf(w) + n = p.left
          /\ rows \in Seq(Seq(Graphemes)) /\ rows # <<>> /\ w \in Seq(Graphemes)
      BY <1>3, <1>4
    <3>2. n + ColumnsOf(OnLastRow(p, w)[Len(rows)]) = width
          /\ \A i \in 1 .. Len(rows) : ColumnsOf(OnLastRow(p, w)[i]) <= width
      BY ONLY width \in Nat, <1>3, <2>1, <3>1, RowTakesMore
    <3> QED BY ONLY <1>1, <3>2, Zenon
  <2>3. q.left = n /\ q.width = width /\ DOMAIN after = 1 .. Len(rows)
    BY <1>2, <1>5
  <2> QED BY <1>5, <1>6, <2>2, <2>3 DEF RowsFit
<1>9. q \in TurnedTo(page, word, k + 1)
  BY <1>4, <1>6, <1>7, <1>8 DEF TurnedTo
<1> QED BY <1>1, <1>2, <1>9

LEMMA PutOnNewRow ==
  ASSUME NEW width \in Nat, NEW page, NEW word \in Seq(Graphemes), NEW k \in Nat, NEW p, NEW rows,
         NEW w, NEW left, Putting(page, word, k, p, rows, w, left, width), ColumnsOf(w) < width
  PROVE  [rows |-> Append(rows, w), width |-> width, left |-> width - ColumnsOf(w),
          fate |-> "ok", word |-> <<>>] \in TurnedTo(page, word, k + 1)
<1>1. PICK after, n : after = Append(rows, w) /\ n = width - ColumnsOf(w)
  OBVIOUS
<1>2. PICK q : q = [rows |-> after, width |-> width, left |-> n, fate |-> "ok", word |-> <<>>]
  OBVIOUS
<1>3. p.rows = rows /\ p.width = width /\ p.left = left /\ rows \in Seq(Seq(Graphemes)) /\ rows # <<>>
      /\ w \in Seq(Graphemes) /\ left \in Nat /\ page.width = width /\ page.fate = "ok"
  BY DEF Putting
<1>31. rows \in Seq(Seq(Graphemes)) /\ w \in Seq(Graphemes)
  BY <1>3
<1>4. n \in Nat /\ n + ColumnsOf(w) = width /\ ColumnsOf(w) <= width
  BY <1>1, <1>3, ColumnsType
<1>5. /\ after \in Seq(Seq(Graphemes)) /\ after # <<>> /\ Len(after) = Len(rows) + 1
      /\ after[Len(after)] = w /\ DOMAIN after = 1 .. Len(rows) + 1
      /\ \A i \in 1 .. Len(rows) : after[i] = rows[i]
  BY ONLY <1>1, <1>31, AppendParts
<1>6. q \in Pages(width) /\ q.word = <<>> /\ q.fate = "ok" /\ Unput(q) = <<>> /\ q.rows = after
  BY <1>2, <1>4, <1>5 DEF Pages, Unput
<1>7. FlattenSeq(after) \o <<>> = FlattenSeq(page.rows) \o word
  <2>1. FlattenSeq(after) = FlattenSeq(rows) \o w
    BY <1>1, <1>3, FlattenAppend
  <2>2. FlattenSeq(rows) \o w = FlattenSeq(page.rows) \o word
    BY DEF Putting
  <2>3. FlattenSeq(after) \in Seq(Graphemes)
    BY <1>5, FlattenType
  <2>4. FlattenSeq(after) \o <<>> = FlattenSeq(after)
    BY <2>3
  <2> QED BY <2>1, <2>2, <2>4
<1>8. ASSUME RowsFit(page), Easy(word, width) PROVE RowsFit(q)
  <2>1. \A i \in 1 .. Len(rows) : ColumnsOf(rows[i]) <= width
    BY <1>3, <1>8 DEF Putting, RowsFit
  <2>2. q.left = n /\ q.width = width
    BY <1>2
  <2>3. ASSUME NEW i \in 1 .. Len(rows) + 1 PROVE ColumnsOf(after[i]) <= width
    <3>1. CASE i = Len(rows) + 1
      BY <1>4, <1>5, <3>1
    <3>2. CASE i \in 1 .. Len(rows)
      BY <1>5, <2>1, <3>2
    <3>3. Len(rows) \in Nat
      BY <1>3
    <3> QED BY <3>1, <3>2, <3>3
  <2> QED BY <1>4, <1>5, <1>6, <2>2, <2>3 DEF RowsFit
<1>9. q \in TurnedTo(page, word, k + 1)
  BY <1>3, <1>6, <1>7, <1>8 DEF TurnedTo
<1> QED BY <1>1, <1>2, <1>9

LEMMA PutFails ==
  ASSUME NEW width \in Nat, NEW page, NEW word \in Seq(Graphemes), NEW k \in Nat, NEW p, NEW rows,
         NEW w, NEW left, Putting(page, word, k, p, rows, w, left, width), ColumnsOf(w) >= width,
         width = 0 \/ TakeGraphemes(w, left).fate # "ok"
  PROVE  [rows |-> rows, width |-> width, left |-> left, fate |-> "aborted", word |-> <<w>>]
           \in TurnedTo(page, word, k + 1)
<1>1. PICK q : q = [rows |-> rows, width |-> width, left |-> left, fate |-> "aborted", word |-> <<w>>]
  OBVIOUS
<1>2. p.rows = rows /\ p.width = width /\ p.left = left /\ rows \in Seq(Seq(Graphemes)) /\ rows # <<>>
      /\ w \in Seq(Graphemes) /\ left \in Nat /\ page.width = width /\ page.fate = "ok"
  BY DEF Putting
<1>3. q \in Pages(width) /\ q.fate = "aborted" /\ q.word[1] = w /\ q.rows = rows /\ q.width = width
      /\ q.left = left
  BY <1>1, <1>2 DEF Pages
<1>4. ASSUME RowsFit(page), Easy(word, width) PROVE RowsFit(q) /\ Easy(w, width) /\ ~(width > 0)
  <2>1. RowsFit(p) /\ Easy(w, width)
    BY <1>4 DEF Putting
  <2>2. RowsFit(q)
    BY <1>2, <1>3, <2>1 DEF RowsFit
  <2>3. Narrow(w)
    BY <1>2, <2>1, ColumnsType DEF Easy
  <2>4. TakeGraphemes(w, left).fate = "ok"
    BY <1>2, <2>3, TakesGraphemes DEF TakenAfter
  <2> QED BY <2>1, <2>2, <2>4
<1>5. q \in TurnedTo(page, word, k + 1)
  BY ONLY <1>2, <1>3, <1>4 DEF TurnedTo
<1> QED BY <1>1, <1>5

LEMMA PutSplits ==
  ASSUME NEW width \in Nat \ {0}, NEW page, NEW word \in Seq(Graphemes), NEW k \in Nat, NEW p, NEW rows,
         NEW w, NEW left, Putting(page, word, k, p, rows, w, left, width), ColumnsOf(w) >= width,
         NEW n, n = TakeGraphemes(w, left).n
  PROVE  [rows |-> Append(OnLastRow(p, SubSeq(w, 1, n)), <<>>), width |-> width, left |-> width,
          fate |-> "ok", word |-> <<SubSeq(w, n + 1, Len(w))>>] \in TurnedTo(page, word, k + 1)
<1>1. p.rows = rows /\ p.width = width /\ p.left = left /\ rows \in Seq(Seq(Graphemes)) /\ rows # <<>>
      /\ w \in Seq(Graphemes) /\ left \in Nat /\ page.width = width /\ page.fate = "ok"
  BY DEF Putting
<1>2. /\ n \in Nat /\ n <= Len(w) /\ TakeGraphemes(w, left).left \in Nat
      /\ left > 0 /\ Len(w) > 0 => n > 0
      /\ Narrow(w) => ColumnsOf(SubSeq(w, 1, n)) + TakeGraphemes(w, left).left = left
  <2>0. w \in Seq(Graphemes) /\ left \in Nat /\ Len(w) \in Nat
    BY <1>1
  <2>1. PICK tg : tg = TakeGraphemes(w, left)
    OBVIOUS
  <2>2. tg \in TakenAfter(w, left, Len(w))
    BY ONLY <2>0, <2>1, TakesGraphemes
  <2>3. tg.n = n
    BY <2>1
  <2>4. /\ tg.n \in Nat /\ tg.n <= Len(w) /\ tg.left \in Nat
        /\ left > 0 /\ Len(w) > 0 => tg.n > 0
        /\ Narrow(w) => ColumnsOf(SubSeq(w, 1, tg.n)) + tg.left = left
    BY ONLY <2>2 DEF TakenAfter, Taken
  <2> QED BY ONLY <2>1, <2>3, <2>4
<1>3. Len(w) \in Nat /\ Len(w) > 0
  BY <1>1, ColumnsEmpty
<1>4. PICK taken \in Seq(Graphemes), rest \in Seq(Graphemes) :
        /\ taken = SubSeq(w, 1, n) /\ rest = SubSeq(w, n + 1, Len(w))
        /\ Len(rest) = Len(w) - n /\ w = taken \o rest
  <2>1. n \in 0 .. Len(w)
    BY <1>2, <1>3
  <2>2. w \in Seq(Graphemes)
    BY <1>1
  <2>3. /\ SubSeq(w, 1, n) \in Seq(Graphemes) /\ SubSeq(w, n + 1, Len(w)) \in Seq(Graphemes)
        /\ Len(SubSeq(w, n + 1, Len(w))) = Len(w) - n
        /\ w = SubSeq(w, 1, n) \o SubSeq(w, n + 1, Len(w))
    BY ONLY <2>1, <2>2, SplitAt, Zenon
  <2> QED BY ONLY <2>3, Zenon
<1>50. PICK before, after : before = OnLastRow(p, taken) /\ after = Append(before, <<>>)
  OBVIOUS
<1>5. /\ before \in Seq(Seq(Graphemes)) /\ before # <<>> /\ Len(before) = Len(rows)
      /\ FlattenSeq(before) = FlattenSeq(rows) \o taken
  BY ONLY <1>1, <1>50, taken \in Seq(Graphemes), LastRow
<1>6. /\ after \in Seq(Seq(Graphemes)) /\ after # <<>> /\ Len(after) = Len(rows) + 1
        /\ after[Len(rows) + 1] = <<>> /\ \A i \in 1 .. Len(rows) : after[i] = before[i]
  <2>1. <<>> \in Seq(Graphemes)
    OBVIOUS
  <2>2. PICK x, e : x = Append(before, e) /\ e = <<>>
    OBVIOUS
  <2>6. e \in Seq(Graphemes)
    BY <2>1, <2>2
  <2>3. before \in Seq(Seq(Graphemes))
    BY <1>5
  <2>4. x \in Seq(Seq(Graphemes)) /\ x # <<>> /\ Len(x) = Len(before) + 1
        /\ x[Len(before) + 1] = e /\ \A i \in 1 .. Len(before) : x[i] = before[i]
    <3>1. PICK T : T = Seq(Graphemes)
      OBVIOUS
    <3>2. before \in Seq(T) /\ e \in T
      BY ONLY <2>3, <2>6, <3>1
    <3>3. x \in Seq(T) /\ x # <<>> /\ Len(x) = Len(before) + 1
          /\ x[Len(before) + 1] = e /\ \A i \in 1 .. Len(before) : x[i] = before[i]
      BY ONLY <2>2, <3>2, AppendParts
    <3> QED BY ONLY <3>1, <3>3
  <2>5. Len(before) = Len(rows) /\ after = x
    BY <1>5, <1>50, <2>2
  <2> QED BY ONLY <2>2, <2>4, <2>5
<1>7. PICK q : q = [rows |-> after, width |-> width, left |-> width, fate |-> "ok", word |-> <<rest>>]
  OBVIOUS
<1>8. q \in Pages(width) /\ q.word = <<rest>> /\ q.word # <<>> /\ q.word[1] = rest /\ q.fate = "ok"
      /\ Unput(q) = rest /\ q.rows = after /\ q.left = width /\ q.width = width
  BY <1>6, <1>7 DEF Pages, Unput
<1>9. FlattenSeq(after) \o rest = FlattenSeq(page.rows) \o word
  <2>1. FlattenSeq(after) = FlattenSeq(before) \o <<>>
    <3>1. <<>> \in Seq(Graphemes)
      OBVIOUS
    <3> QED BY <1>5, <1>50, <3>1, FlattenAppend
  <2>2. FlattenSeq(before) \in Seq(Graphemes) /\ FlattenSeq(rows) \in Seq(Graphemes)
    BY <1>1, <1>5, FlattenType
  <2>3. FlattenSeq(after) = FlattenSeq(rows) \o taken
    BY <1>5, <2>1, <2>2
  <2>4. (FlattenSeq(rows) \o taken) \o rest = FlattenSeq(rows) \o w
    <3>1. (FlattenSeq(rows) \o taken) \o rest = FlattenSeq(rows) \o (taken \o rest)
      BY ONLY <2>2, taken \in Seq(Graphemes), rest \in Seq(Graphemes), ConcatAssociative
    <3> QED BY ONLY <1>4, <3>1, Zenon
  <2>5. FlattenSeq(rows) \o w = FlattenSeq(page.rows) \o word
    BY DEF Putting
  <2> QED BY <2>3, <2>4, <2>5
<1>10. Len(rest) + (k + 1) <= Len(word) + 1
  <2>1. /\ Len(w) + k <= Len(word) + 1 /\ Len(w) <= Len(word) /\ (k > 0 => left > 0)
        /\ Len(word) \in Nat /\ left \in Nat
    BY DEF Putting
  <2>4. Len(rest) = Len(w) - n
    BY <1>4
  <2>2. CASE k = 0
    BY ONLY <1>2, <1>3, <2>1, <2>2, <2>4
  <2>3. CASE k > 0
    BY ONLY k \in Nat, <1>2, <1>3, <2>1, <2>3, <2>4
  <2> QED BY <2>2, <2>3
<1>11. ASSUME RowsFit(page), Easy(word, width) PROVE RowsFit(q) /\ Easy(rest, width)
  <2>1. RowsFit(p) /\ Easy(w, width)
    BY <1>11 DEF Putting
  <2>2. Narrow(w)
    BY <1>1, <2>1, ColumnsType DEF Easy
  <2>3. Narrow(rest)
    <3>1. n + 1 \in Nat \ {0} /\ Len(w) \in 0 .. Len(w)
      BY <1>2, <1>3
    <3> QED BY <1>1, <1>4, <2>2, <3>1, NarrowPart
  <2>4. ColumnsOf(taken) + TakeGraphemes(w, left).left = left
    BY <1>2, <1>4, <2>2
  <2>5. \A i \in 1 .. Len(rows) : ColumnsOf(before[i]) <= width
    BY ONLY width \in Nat, taken \in Seq(Graphemes), <1>1, <1>2, <1>50, <2>1, <2>4, RowTakesMore
  <2>6. ASSUME NEW i \in 1 .. Len(rows) + 1 PROVE ColumnsOf(after[i]) <= width
    <3>1. CASE i = Len(rows) + 1
      BY <1>6, <3>1, ColumnsEmpty
    <3>2. CASE i \in 1 .. Len(rows)
      BY <1>6, <2>5, <3>2
    <3>3. Len(rows) \in Nat
      BY <1>1
    <3> QED BY <3>1, <3>2, <3>3
  <2>7. width + ColumnsOf(after[Len(after)]) = width
    BY <1>6, ColumnsEmpty
  <2>8. DOMAIN after = 1 .. Len(rows) + 1
    BY <1>6
  <2> QED BY <1>8, <2>3, <2>6, <2>7, <2>8 DEF RowsFit, Easy
<1>13. Len(rest) <= Len(word)
  <2>1. Len(rest) = Len(w) - n
    BY <1>4
  <2>2. Len(w) <= Len(word) /\ Len(word) \in Nat
    BY DEF Putting
  <2> QED BY ONLY <1>2, <1>3, <2>1, <2>2
<1>14. width > 0
  OBVIOUS
<1>12. q \in TurnedTo(page, word, k + 1)
  BY ONLY width \in Nat \ {0}, <1>1, <1>8, <1>9, <1>10, <1>11, <1>13, <1>14 DEF TurnedTo
<1> QED BY <1>4, <1>50, <1>7, <1>12

LEMMA TurnDone ==
  ASSUME NEW p, NEW n, p.word = <<>> \/ p.fate # "ok"
  PROVE  Turn(p, n) = p
BY DEF Turn

LEMMA PageFields ==
  ASSUME NEW width, NEW p \in Pages(width)
  PROVE  /\ p = [rows |-> p.rows, width |-> width, left |-> p.left, fate |-> p.fate, word |-> p.word]
         /\ p.rows \in Seq(Seq(Graphemes)) /\ p.rows # <<>> /\ p.width = width /\ p.left \in Nat
         /\ p.fate \in {"ok", "aborted"}
         /\ p.word # <<>> => p.word = <<p.word[1]>> /\ p.word[1] \in Seq(Graphemes)
BY DEF Pages

LEMMA TurnPuts ==
  ASSUME NEW width \in Nat, NEW page, page.width = width, NEW word \in Seq(Graphemes),
         NEW k \in Nat, NEW n, NEW p \in TurnedTo(page, word, k)
  PROVE  Turn(p, n) \in TurnedTo(page, word, k + 1)
<1>1. CASE p.word = <<>> \/ p.fate # "ok"
  <2>1. Turn(p, n) = p
    BY <1>1, TurnDone
  <2> QED BY <1>1, <2>1 DEF TurnedTo
<1>2. CASE ~(p.word = <<>> \/ p.fate # "ok")
  <2>1. PICK rows, w, left, len, part :
          /\ rows = p.rows /\ w = p.word[1] /\ left = p.left /\ len = ColumnsOf(w)
          /\ part = TakeGraphemes(w, left)
    OBVIOUS
  <2>2. p \in Pages(width)
    BY DEF TurnedTo
  <2>3. /\ p = [rows |-> rows, width |-> width, left |-> left, fate |-> "ok", word |-> <<w>>]
        /\ rows \in Seq(Seq(Graphemes)) /\ rows # <<>> /\ left \in Nat /\ w \in Seq(Graphemes)
    BY <1>2, <2>1, <2>2, PageFields
  <2>4. Putting(page, word, k, p, rows, w, left, width)
    <3>1. Unput(p) = w
      BY <1>2, <2>1 DEF Unput
    <3>2. /\ page.fate = "ok"
          /\ Len(w) + k <= Len(word) + 1 /\ Len(w) <= Len(word) /\ (k > 0 => left > 0)
          /\ FlattenSeq(rows) \o w = FlattenSeq(page.rows) \o word
      BY <1>2, <2>1, <3>1 DEF TurnedTo
    <3>3. RowsFit(page) /\ Easy(word, width) => RowsFit(p) /\ Easy(w, width)
      BY <1>2, <2>1 DEF TurnedTo
    <3> QED BY ONLY page.width = width, <2>3, <3>2, <3>3 DEF Putting
  <2>5. len \in Nat
    BY <2>1, <2>3, ColumnsType
  <2>6. p.left = left /\ p.width = width /\ p.rows = rows /\ p.word[1] = w
    BY <2>3
  <2>7. /\ len <= left =>
             Turn(p, n) = [p EXCEPT !.rows = OnLastRow(p, w), !.left = left - len, !.word = <<>>]
        /\ len > left /\ len < width =>
             Turn(p, n) = [p EXCEPT !.rows = Append(rows, w), !.left = width - len, !.word = <<>>]
        /\ len > left /\ len >= width /\ (width = 0 \/ part.fate # "ok") =>
             Turn(p, n) = [p EXCEPT !.fate = "aborted"]
        /\ len > left /\ len >= width /\ width # 0 /\ part.fate = "ok" =>
             Turn(p, n) = [p EXCEPT !.rows = Append(OnLastRow(p, SubSeq(w, 1, part.n)), <<>>),
                                    !.left = width, !.word = <<SubSeq(w, part.n + 1, Len(w))>>]
    <3>1. p.left \in Nat /\ p.width \in Nat /\ part = TakeGraphemes(w, p.left)
      BY ONLY width \in Nat, <2>1, <2>3, <2>6
    <3>2. /\ len <= p.left =>
               Turn(p, n) = [p EXCEPT !.rows = OnLastRow(p, w), !.left = p.left - len, !.word = <<>>]
          /\ len > p.left /\ len < p.width =>
               Turn(p, n) = [p EXCEPT !.rows = Append(p.rows, w), !.left = p.width - len, !.word = <<>>]
          /\ len > p.left /\ len >= p.width /\ (p.width = 0 \/ part.fate # "ok") =>
               Turn(p, n) = [p EXCEPT !.fate = "aborted"]
          /\ len > p.left /\ len >= p.width /\ p.width # 0 /\ part.fate = "ok" =>
               Turn(p, n) = [p EXCEPT !.rows = Append(OnLastRow(p, SubSeq(w, 1, part.n)), <<>>),
                                      !.left = p.width, !.word = <<SubSeq(w, part.n + 1, Len(w))>>]
      BY ONLY <1>2, <2>1, <2>5, <3>1 DEF Turn
    <3> QED BY ONLY <2>6, <3>2, Zenon
  <2>8. CASE len <= left
    <3>1. Turn(p, n) = [rows |-> OnLastRow(p, w), width |-> width, left |-> left - len,
                        fate |-> "ok", word |-> <<>>]
      BY ONLY <2>3, <2>7, <2>8
    <3> QED BY <2>1, <2>4, <2>8, <3>1, PutOnLastRow
  <2>9. CASE len > left /\ len < width
    <3>1. Turn(p, n) = [rows |-> Append(rows, w), width |-> width, left |-> width - len,
                        fate |-> "ok", word |-> <<>>]
      BY ONLY <2>3, <2>7, <2>9
    <3> QED BY <2>1, <2>4, <2>9, <3>1, PutOnNewRow
  <2>10. CASE len > left /\ len >= width /\ (width = 0 \/ part.fate # "ok")
    <3>1. Turn(p, n) = [rows |-> rows, width |-> width, left |-> left, fate |-> "aborted", word |-> <<w>>]
      BY ONLY <2>3, <2>7, <2>10
    <3> QED BY <2>1, <2>4, <2>10, <3>1, PutFails
  <2>11. CASE len > left /\ len >= width /\ width # 0 /\ part.fate = "ok"
    <3>1. Turn(p, n) = [rows |-> Append(OnLastRow(p, SubSeq(w, 1, part.n)), <<>>), width |-> width,
                        left |-> width, fate |-> "ok", word |-> <<SubSeq(w, part.n + 1, Len(w))>>]
      BY ONLY <2>3, <2>7, <2>11
    <3>2. width \in Nat \ {0}
      BY <2>11
    <3>3. ColumnsOf(w) >= width
      BY <2>1, <2>11
    <3>4. part.n = TakeGraphemes(w, left).n
      BY <2>1
    <3>5. [rows |-> Append(OnLastRow(p, SubSeq(w, 1, part.n)), <<>>), width |-> width,
           left |-> width, fate |-> "ok", word |-> <<SubSeq(w, part.n + 1, Len(w))>>]
            \in TurnedTo(page, word, k + 1)
      BY ONLY word \in Seq(Graphemes), k \in Nat, <2>4, <3>2, <3>3, <3>4, PutSplits
    <3> QED BY ONLY <3>1, <3>5
  <2> QED BY ONLY width \in Nat, <2>3, <2>5, <2>8, <2>9, <2>10, <2>11
<1> QED BY <1>1, <1>2

(* A word is put on a page, or the process aborts.                         *)
LEMMA HandleWordPuts ==
  ASSUME NEW width \in Nat, NEW page \in Pages(width), NEW word \in Seq(Graphemes)
  PROVE  /\ HandleWord(page, word) \in TurnedTo(page, word, Len(word) + 2)
         /\ HandleWord(page, word).fate = "ok" => HandleWord(page, word).word = <<>>
<1> DEFINE n == Len(word) + 2
           s == [i \in 1 .. n |-> i]
           base == [page EXCEPT !.word = <<word>>]
           I == [k \in 0 .. n |-> TurnedTo(page, word, k)]
<1>1. HandleWord(page, word) = TurnFold!Fold(base, s)
  BY DEF HandleWord, FoldLeft, MapThenFoldSet, Max, TurnFold!Fold, TurnFold!MapThenFoldSet,
         TurnFold!Largest
<1>2. n \in Nat /\ Len(word) \in Nat
  OBVIOUS
<1>3. s \in Seq(Nat) /\ Len(s) = n
  <2>1. s \in [1 .. n -> Nat]
    BY <1>2
  <2> HIDE DEF s
  <2> QED BY ONLY <1>2, <2>1, FunctionIsSeq
<1>4. base \in I[0]
  <2>1. PICK rows, left, how, other :
          /\ page = [rows |-> rows, width |-> width, left |-> left, fate |-> how, word |-> other]
          /\ rows \in Seq(Seq(Graphemes)) /\ rows # <<>> /\ left \in Nat /\ how \in {"ok", "aborted"}
    BY PageFields
  <2>2. base = [rows |-> rows, width |-> width, left |-> left, fate |-> how, word |-> <<word>>]
    BY ONLY <2>1
  <2> HIDE DEF base
  <2>3. base \in Pages(width) /\ base.rows = rows /\ base.fate = how /\ base.word = <<word>>
        /\ base.left = left /\ base.width = width
    BY ONLY <2>1, <2>2, word \in Seq(Graphemes) DEF Pages
  <2>4. base.word # <<>> /\ base.word[1] = word /\ Unput(base) = word
    BY ONLY <2>3 DEF Unput
  <2>5. page.rows = rows /\ page.fate = how /\ page.left = left /\ page.width = width
    BY ONLY <2>1
  <2>7. RowsFit(page) => RowsFit(base)
    BY ONLY <2>3, <2>5 DEF RowsFit
  <2>8. Len(base.word[1]) + 0 <= Len(word) + 1 /\ Len(base.word[1]) <= Len(word) /\ ~(0 > 0)
    BY ONLY <1>2, <2>4
  <2>6. base \in TurnedTo(page, word, 0)
    BY ONLY <2>3, <2>4, <2>5, <2>7, <2>8 DEF TurnedTo
  <2> QED BY <1>2, <2>6
<1>5. \A k \in 1 .. Len(s) : \A p \in I[k - 1] : Turn(p, s[k]) \in I[k]
  <2> SUFFICES ASSUME NEW k \in 1 .. n, NEW p \in I[k - 1] PROVE Turn(p, s[k]) \in I[k]
    BY <1>3
  <2>1. k - 1 \in Nat /\ k - 1 \in 0 .. n /\ k \in 0 .. n /\ (k - 1) + 1 = k
    BY <1>2
  <2>2. p \in TurnedTo(page, word, k - 1)
    BY <2>1
  <2>3. page.width = width
    BY PageFields
  <2>4. Turn(p, s[k]) \in TurnedTo(page, word, (k - 1) + 1)
    <3> HIDE DEF s
    <3> QED BY <2>1, <2>2, <2>3, TurnPuts
  <2> QED BY <2>1, <2>4
<1>6. TurnFold!Fold(base, s) \in I[n]
  <2> HIDE DEF base, I, s, n
  <2> QED BY <1>3, <1>4, <1>5, TurnFold!FoldInvariant
<1>7. HandleWord(page, word) \in TurnedTo(page, word, n)
  <2>1. I[n] = TurnedTo(page, word, n)
    BY <1>2
  <2> QED BY <1>1, <1>6, <2>1
<1>8. ASSUME NEW p \in TurnedTo(page, word, n), p.fate = "ok", p.word # <<>> PROVE FALSE
  <2>1. Len(p.word[1]) + n <= Len(word) + 1
    BY <1>8 DEF TurnedTo
  <2>2. p \in Pages(page.width)
    BY DEF TurnedTo
  <2>3. p.word[1] \in Seq(Graphemes)
    BY <1>8, <2>2, PageFields
  <2>4. PICK m, l : m = Len(p.word[1]) /\ l = Len(word)
    OBVIOUS
  <2>5. m \in Nat /\ l \in Nat
    BY <2>3, <2>4
  <2>6. m + (l + 2) <= l + 1
    BY ONLY <2>1, <2>4
  <2> QED BY ONLY <2>5, <2>6
<1> HIDE DEF s, base, I
<1> QED BY <1>7, <1>8

-----------------------------------------------------------------------------
(* A text on a page. *)

(* What the pages look like that k words have been put on.                 *)
Short(text, width) == \A i \in DOMAIN text : ColumnsOf(text[i]) < width
WrappedTo(text, width, k) ==
  {p \in Pages(width) :
     /\ p.fate = "ok" => p.word = <<>> /\ FlattenSeq(p.rows) = FlattenSeq(SubSeq(text, 1, k))
     /\ ~SplitsWide(text, width) => RowsFit(p) /\ (width > 0 => p.fate = "ok")
     /\ Short(text, width) => p.fate = "ok" /\ BreaksAreNeeded(p.rows, text, width)}

LEMMA EasyWords ==
  ASSUME NEW width \in Nat, NEW text \in Seq(Seq(Graphemes)), ~SplitsWide(text, width),
         NEW i \in DOMAIN text
  PROVE  Easy(text[i], width)
<1> SUFFICES ASSUME ~(ColumnsOf(text[i]) < width) PROVE Narrow(text[i])
  BY DEF Easy
<1>1. text[i] \in Seq(Graphemes)
  OBVIOUS
<1>2. ColumnsOf(text[i]) >= width
  BY <1>1, ColumnsType
<1>3. \A g \in ToSet(text[i]) : ~(Columns[g] > 1)
  BY <1>2 DEF SplitsWide
<1>4. ASSUME NEW j \in DOMAIN text[i] PROVE Columns[text[i][j]] <= 1
  <2>1. text[i][j] \in ToSet(text[i]) /\ text[i][j] \in Graphemes
    BY <1>1 DEF ToSet
  <2> QED BY <1>3, <2>1, ColumnsAreNat
<1> QED BY <1>4 DEF Narrow

LEMMA ShortWords ==
  ASSUME NEW width \in Nat, NEW text \in Seq(Seq(Graphemes)), Short(text, width)
  PROVE  ~SplitsWide(text, width) /\ (text # <<>> => width > 0)
<1>1. ASSUME NEW i \in DOMAIN text PROVE ~(ColumnsOf(text[i]) >= width) /\ width > 0
  <2>1. text[i] \in Seq(Graphemes)
    OBVIOUS
  <2>2. ColumnsOf(text[i]) \in Nat /\ ColumnsOf(text[i]) < width
    BY <1>1, <2>1, ColumnsType DEF Short
  <2> QED BY <2>2
<1>2. text # <<>> => 1 \in DOMAIN text
  OBVIOUS
<1> QED BY <1>1, <1>2 DEF SplitsWide

(* A word that fits in a row starts a new one only where it has to.        *)
LEMMA ShortWordPuts ==
  ASSUME NEW width \in Nat, NEW page \in Pages(width), page.fate = "ok",
         NEW word \in Seq(Graphemes), ColumnsOf(word) < width
  PROVE  HandleWord(page, word).rows =
           IF ColumnsOf(word) <= page.left THEN OnLastRow(page, word) ELSE Append(page.rows, word)
<1> DEFINE n == Len(word) + 2
           s == [i \in 1 .. n |-> i]
           base == [page EXCEPT !.word = <<word>>]
           I == [k \in 0 .. n |-> IF k = 0 THEN {base} ELSE {Turn(base, 1)}]
<1>1. HandleWord(page, word) = TurnFold!Fold(base, s)
  BY DEF HandleWord, FoldLeft, MapThenFoldSet, Max, TurnFold!Fold, TurnFold!MapThenFoldSet,
         TurnFold!Largest
<1>2. n \in Nat /\ n > 0
  OBVIOUS
<1>3. s \in Seq(Nat) /\ Len(s) = n
  <2>1. s \in [1 .. n -> Nat]
    BY <1>2
  <2> HIDE DEF s
  <2> QED BY ONLY <1>2, <2>1, FunctionIsSeq
<1>4. PICK rows, left, other :
        /\ page = [rows |-> rows, width |-> width, left |-> left, fate |-> "ok", word |-> other]
        /\ rows \in Seq(Seq(Graphemes)) /\ rows # <<>> /\ left \in Nat
  BY PageFields
<1>5. /\ base = [rows |-> rows, width |-> width, left |-> left, fate |-> "ok", word |-> <<word>>]
      /\ page.rows = rows /\ page.left = left
  BY ONLY <1>4
<1> HIDE DEF base
<1>6. base.word # <<>> /\ base.word[1] = word /\ base.fate = "ok" /\ base.rows = rows
      /\ base.left = left /\ base.width = width
  BY ONLY <1>5
<1>7. PICK len : len = ColumnsOf(word) /\ len \in Nat /\ len < width
  BY ColumnsType
<1>8. OnLastRow(base, word) = OnLastRow(page, word)
  BY ONLY <1>5, <1>6 DEF OnLastRow
<1>9. /\ Turn(base, 1).word = <<>>
      /\ Turn(base, 1).rows =
           IF len <= left THEN OnLastRow(page, word) ELSE Append(rows, word)
  <2>1. CASE len <= left
    <3>1. Turn(base, 1) = [base EXCEPT !.rows = OnLastRow(base, word), !.left = left - len, !.word = <<>>]
      BY ONLY width \in Nat, <1>4, <1>6, <1>7, <2>1 DEF Turn
    <3> QED BY ONLY <1>5, <1>8, <2>1, <3>1
  <2>2. CASE ~(len <= left)
    <3>0. len > left
      BY ONLY <1>4, <1>7, <2>2
    <3>1. Turn(base, 1) = [base EXCEPT !.rows = Append(rows, word), !.left = width - len, !.word = <<>>]
      BY ONLY width \in Nat, <1>4, <1>6, <1>7, <3>0 DEF Turn
    <3> QED BY ONLY <1>5, <2>2, <3>1
  <2> QED BY <2>1, <2>2
<1>10. base \in I[0]
  BY <1>2
<1>11. \A k \in 1 .. Len(s) : \A p \in I[k - 1] : Turn(p, s[k]) \in I[k]
  <2> SUFFICES ASSUME NEW k \in 1 .. n, NEW p \in I[k - 1] PROVE Turn(p, s[k]) \in I[k]
    BY <1>3
  <2>1. k - 1 \in 0 .. n /\ k \in 0 .. n /\ k # 0 /\ (k - 1 = 0 => k = 1)
    BY <1>2
  <2>2. I[k] = {Turn(base, 1)}
    BY <2>1
  <2>3. CASE k = 1
    <3>1. p = base /\ s[k] = 1
      BY <1>2, <2>1, <2>3
    <3> HIDE DEF s, I
    <3> QED BY <2>2, <3>1, Zenon
  <2>4. CASE k # 1
    <3>1. p = Turn(base, 1)
      BY <2>1, <2>4
    <3>2. Turn(p, s[k]) = p
      <4> HIDE DEF s
      <4> QED BY ONLY <1>9, <3>1, TurnDone
    <3> HIDE DEF s, I
    <3> QED BY <2>2, <3>1, <3>2, Zenon
  <2> QED BY <2>3, <2>4
<1>12. TurnFold!Fold(base, s) \in I[n]
  <2> HIDE DEF I, s, n
  <2> QED BY <1>3, <1>10, <1>11, TurnFold!FoldInvariant
<1>13. TurnFold!Fold(base, s) = Turn(base, 1)
  <2>1. I[n] = {Turn(base, 1)}
    BY <1>2
  <2> HIDE DEF I, s, n
  <2> QED BY <1>12, <2>1
<1> HIDE DEF I, s, n
<1> QED BY ONLY <1>1, <1>5, <1>7, <1>9, <1>13

(* One word more.                                                          *)
LEMMA WordWraps ==
  ASSUME NEW width \in Nat, NEW text \in Seq(Seq(Graphemes)), NEW k \in 1 .. Len(text),
         NEW page \in WrappedTo(text, width, k - 1)
  PROVE  HandleWord(page, text[k]) \in WrappedTo(text, width, k)
<1>1. PICK word, p : word = text[k] /\ p = HandleWord(page, word)
  OBVIOUS
<1>2. word \in Seq(Graphemes) /\ k \in DOMAIN text /\ page \in Pages(width) /\ page.width = width
  BY <1>1, PageFields DEF WrappedTo
<1>3. p \in TurnedTo(page, word, Len(word) + 2) /\ (p.fate = "ok" => p.word = <<>>)
  BY <1>1, <1>2, HandleWordPuts
<1>4. /\ p \in Pages(width)
      /\ p.fate = "ok" => page.fate = "ok" /\ FlattenSeq(p.rows) \o Unput(p) = FlattenSeq(page.rows) \o word
      /\ RowsFit(page) /\ Easy(word, width) =>
           RowsFit(p) /\ (width > 0 /\ page.fate = "ok" => p.fate = "ok")
  BY <1>2, <1>3 DEF TurnedTo
<1>5. /\ SubSeq(text, 1, k) = Append(SubSeq(text, 1, k - 1), word)
      /\ SubSeq(text, 1, k - 1) \in Seq(Seq(Graphemes))
  BY <1>1, PrefixGrows
<1>6. ASSUME p.fate = "ok" PROVE p.word = <<>> /\ FlattenSeq(p.rows) = FlattenSeq(SubSeq(text, 1, k))
  <2>1. p.word = <<>> /\ Unput(p) = <<>>
    BY <1>3, <1>6 DEF Unput
  <2>2. FlattenSeq(p.rows) \o <<>> = FlattenSeq(page.rows) \o word
    BY <1>4, <1>6, <2>1
  <2>3. FlattenSeq(p.rows) \in Seq(Graphemes)
    BY <1>4, PageFields, FlattenType
  <2>4. FlattenSeq(p.rows) \o <<>> = FlattenSeq(p.rows)
    BY ONLY <2>3
  <2>5. FlattenSeq(page.rows) = FlattenSeq(SubSeq(text, 1, k - 1))
    BY <1>4, <1>6 DEF WrappedTo
  <2>6. FlattenSeq(SubSeq(text, 1, k)) = FlattenSeq(SubSeq(text, 1, k - 1)) \o word
    BY ONLY <1>2, <1>5, FlattenAppend
  <2> QED BY ONLY <2>1, <2>2, <2>4, <2>5, <2>6, Zenon
<1>7. ASSUME ~SplitsWide(text, width) PROVE RowsFit(p) /\ (width > 0 => p.fate = "ok")
  <2>1. Easy(word, width)
    BY <1>1, <1>2, <1>7, EasyWords
  <2>2. RowsFit(page) /\ (width > 0 => page.fate = "ok")
    BY <1>7 DEF WrappedTo
  <2> QED BY <1>4, <2>1, <2>2
<1>8. ASSUME Short(text, width) PROVE p.fate = "ok" /\ BreaksAreNeeded(p.rows, text, width)
  <2>1. ~SplitsWide(text, width) /\ width > 0
    BY <1>2, <1>8, ShortWords
  <2>2. p.fate = "ok" /\ page.fate = "ok" /\ RowsFit(page) /\ BreaksAreNeeded(page.rows, text, width)
    BY <1>7, <1>8, <2>1 DEF WrappedTo
  <2>3. ColumnsOf(word) < width
    BY <1>1, <1>2, <1>8 DEF Short
  <2>4. PICK rows, before, left :
          rows = p.rows /\ before = page.rows /\ left = page.left
    OBVIOUS
  <2>5. before \in Seq(Seq(Graphemes)) /\ before # <<>> /\ left \in Nat
    BY <1>2, <2>4, PageFields
  <2>6. rows = IF ColumnsOf(word) <= left THEN OnLastRow(page, word) ELSE Append(before, word)
    BY <1>1, <1>2, <2>2, <2>3, <2>4, ShortWordPuts
  <2>7. \A i \in 1 .. Len(before) - 1 :
          \E n \in DOMAIN text :
            /\ FlattenSeq(SubSeq(before, 1, i)) = FlattenSeq(SubSeq(text, 1, n - 1))
            /\ ColumnsOf(before[i]) + ColumnsOf(text[n]) > width
    BY <2>2, <2>4 DEF BreaksAreNeeded
  <2>8. /\ rows \in Seq(Seq(Graphemes)) /\ Len(rows) \in {Len(before), Len(before) + 1}
        /\ Len(rows) = Len(before) + 1 => ColumnsOf(word) > left
        /\ \A i \in 1 .. Len(rows) - 1 : rows[i] = before[i]
    <3>1. CASE ColumnsOf(word) <= left
      <4>1. page.rows = before /\ word \in Seq(Graphemes) /\ rows = OnLastRow(page, word)
        BY <1>2, <2>4, <2>6, <3>1
      <4>2. /\ rows \in Seq(Seq(Graphemes)) /\ Len(rows) = Len(before)
            /\ \A i \in 1 .. Len(before) - 1 : rows[i] = before[i]
        BY ONLY <2>5, <4>1, LastRow
      <4>3. Len(before) # Len(before) + 1
        BY <2>5
      <4> QED BY ONLY <4>2, <4>3
    <3>2. CASE ~(ColumnsOf(word) <= left)
      <4>1. rows = Append(before, word)
        BY <2>6, <3>2
      <4>2. rows \in Seq(Seq(Graphemes)) /\ Len(rows) = Len(before) + 1 /\ Len(before) \in Nat
            /\ \A i \in 1 .. Len(before) : rows[i] = before[i]
        BY ONLY <1>2, <2>5, <4>1, AppendParts
      <4>3. ColumnsOf(word) > left
        BY <1>2, <2>5, <3>2, ColumnsType
      <4> QED BY ONLY <4>2, <4>3
    <3> QED BY <3>1, <3>2
  <2>9. ASSUME NEW i \in 1 .. Len(rows) - 1
        PROVE  \E n \in DOMAIN text :
                 /\ FlattenSeq(SubSeq(rows, 1, i)) = FlattenSeq(SubSeq(text, 1, n - 1))
                 /\ ColumnsOf(rows[i]) + ColumnsOf(text[n]) > width
    <3>1. Len(before) \in Nat /\ i \in 1 .. Len(before) /\ i <= Len(rows)
      <4>1. PICK m, l : m = Len(rows) /\ l = Len(before)
        OBVIOUS
      <4>2. m \in Nat /\ l \in Nat /\ m \in {l, l + 1} /\ i \in 1 .. m - 1
        BY <2>5, <2>8, <4>1
      <4>3. i \in 1 .. l /\ i <= m
        BY ONLY <4>2
      <4> QED BY ONLY <4>1, <4>2, <4>3
    <3>2. rows[i] = before[i]
      BY <2>8
    <3>3. SubSeq(rows, 1, i) = SubSeq(before, 1, i)
      <4>1. i \in 0 .. Len(rows) /\ i \in 0 .. Len(before)
        BY <3>1
      <4>2. /\ SubSeq(rows, 1, i) \in Seq(Seq(Graphemes)) /\ Len(SubSeq(rows, 1, i)) = i
            /\ \A j \in 1 .. i : SubSeq(rows, 1, i)[j] = rows[j]
        BY ONLY <2>8, <4>1, PrefixParts
      <4>3. /\ SubSeq(before, 1, i) \in Seq(Seq(Graphemes)) /\ Len(SubSeq(before, 1, i)) = i
            /\ \A j \in 1 .. i : SubSeq(before, 1, i)[j] = before[j]
        BY ONLY <2>5, <4>1, PrefixParts
      <4>4. \A j \in 1 .. i : j \in 1 .. Len(rows) - 1
        BY <2>8
      <4>5. \A j \in 1 .. i : rows[j] = before[j]
        BY <2>8, <4>4
      <4> QED BY ONLY <4>2, <4>3, <4>5, SameElements
    <3>4. CASE i \in 1 .. Len(before) - 1
      BY <2>7, <3>2, <3>3, <3>4
    <3>5. CASE i = Len(before)
      <4>1. Len(rows) = Len(before) + 1
        BY <2>8, <3>1, <3>5
      <4>2. ColumnsOf(word) > left /\ ColumnsOf(word) \in Nat
        BY <1>2, <2>8, <4>1, ColumnsType
      <4>3. left + ColumnsOf(before[i]) = width
        BY <1>2, <2>2, <2>4, <3>5 DEF RowsFit
      <4>4. before[i] \in Seq(Graphemes)
        BY <2>5, <3>1
      <4>8. ColumnsOf(before[i]) \in Nat
        BY <4>4, ColumnsType
      <4>5. ColumnsOf(before[i]) + ColumnsOf(word) > width
        BY ONLY width \in Nat, <2>5, <4>2, <4>3, <4>8
      <4>6. SubSeq(before, 1, i) = before
        BY ONLY <2>5, <3>5
      <4>7. FlattenSeq(before) = FlattenSeq(SubSeq(text, 1, k - 1))
        BY <2>2, <2>4 DEF WrappedTo
      <4> QED BY <1>1, <1>2, <3>2, <3>3, <4>5, <4>6, <4>7
    <3> QED BY <3>1, <3>4, <3>5
  <2> QED BY <2>2, <2>4, <2>9 DEF BreaksAreNeeded
<1>9. p \in WrappedTo(text, width, k)
  BY <1>4, <1>6, <1>7, <1>8 DEF WrappedTo
<1> QED BY <1>1, <1>9

LEMMA WordWrapped ==
  ASSUME NEW width \in Nat, NEW text \in Seq(Seq(Graphemes))
  PROVE  WordWrap(text, width) \in WrappedTo(text, width, Len(text))
<1> DEFINE base == BlankPage(width)
           I == [k \in 0 .. Len(text) |-> WrappedTo(text, width, k)]
<1>1. WordWrap(text, width) = WordFold!Fold(base, text)
  BY DEF WordWrap, FoldLeft, MapThenFoldSet, Max, WordFold!Fold, WordFold!MapThenFoldSet,
         WordFold!Largest
<1>2. Len(text) \in Nat
  OBVIOUS
<1>3. base \in I[0]
  <2>1. PICK row, rows : row = <<>> /\ rows = <<row>>
    OBVIOUS
  <2>2. row \in Seq(Graphemes) /\ rows \in Seq(Seq(Graphemes)) /\ Len(rows) = 1 /\ rows # <<>>
        /\ DOMAIN rows = {1} /\ rows[1] = row
    BY <2>1
  <2>3. base = [rows |-> rows, width |-> width, left |-> width, fate |-> "ok", word |-> <<>>]
    BY <2>1 DEF BlankPage
  <2> HIDE DEF base
  <2>4. base \in Pages(width) /\ base.rows = rows /\ base.width = width /\ base.left = width
        /\ base.fate = "ok" /\ base.word = <<>>
    BY <2>2, <2>3 DEF Pages
  <2>5. FlattenSeq(rows) = <<>>
    <3>1. rows = Append(<<>>, row) /\ <<>> \in Seq(Seq(Graphemes))
      BY <2>1
    <3>2. FlattenSeq(rows) = FlattenSeq(<<>>) \o row
      BY ONLY <2>2, <3>1, FlattenAppend
    <3> QED BY <2>1, <3>2, FlattenEmpty
  <2>6. SubSeq(text, 1, 0) = <<>>
    OBVIOUS
  <2>7. ColumnsOf(row) = 0
    BY <2>1, ColumnsEmpty
  <2>8. RowsFit(base)
    <3>0. base.rows[Len(base.rows)] = row
      BY ONLY <2>2, <2>4
    <3>1. base.left + ColumnsOf(base.rows[Len(base.rows)]) = base.width
      BY ONLY width \in Nat, <2>4, <2>7, <3>0
    <3>2. \A i \in DOMAIN base.rows : ColumnsOf(base.rows[i]) <= base.width
      BY <2>2, <2>4, <2>7
    <3> QED BY ONLY <3>1, <3>2 DEF RowsFit
  <2>9. BreaksAreNeeded(rows, text, width)
    BY <2>2 DEF BreaksAreNeeded
  <2>10. base \in WrappedTo(text, width, 0)
    BY ONLY <2>4, <2>5, <2>6, <2>8, <2>9, FlattenEmpty DEF WrappedTo
  <2> QED BY <1>2, <2>10
<1>4. \A k \in 1 .. Len(text) : \A p \in I[k - 1] : HandleWord(p, text[k]) \in I[k]
  <2> SUFFICES ASSUME NEW k \in 1 .. Len(text), NEW p \in I[k - 1]
               PROVE  HandleWord(p, text[k]) \in I[k]
    OBVIOUS
  <2>1. k - 1 \in 0 .. Len(text) /\ k \in 0 .. Len(text)
    BY <1>2
  <2>2. p \in WrappedTo(text, width, k - 1) /\ I[k] = WrappedTo(text, width, k)
    BY <2>1
  <2> QED BY <2>2, WordWraps
<1>5. WordFold!Fold(base, text) \in I[Len(text)]
  <2> HIDE DEF base, I
  <2> QED BY <1>3, <1>4, WordFold!FoldInvariant
<1>6. I[Len(text)] = WrappedTo(text, width, Len(text))
  BY <1>2
<1> HIDE DEF base, I
<1> QED BY <1>1, <1>5, <1>6

(* Every text, in rows of every width.                                     *)
THEOREM AllTextsWrapWell ==
  ASSUME NEW width \in Nat, NEW text \in Seq(Seq(Graphemes))
  PROVE  WrapsWell(text, width)
<1>1. PICK p : p = WordWrap(text, width)
  OBVIOUS
<1>2. p \in WrappedTo(text, width, Len(text))
  BY <1>1, WordWrapped
<1>3. SubSeq(text, 1, Len(text)) = text
  OBVIOUS
<1>4. p.fate = "ok" => p.word = <<>> /\ FlattenSeq(p.rows) = FlattenSeq(text)
  BY <1>2, <1>3 DEF WrappedTo
<1>5. ~SplitsWide(text, width) =>
        /\ width > 0 => p.fate = "ok"
        /\ \A i \in DOMAIN p.rows : ColumnsOf(p.rows[i]) <= width
  <2>1. p.width = width
    BY <1>2, PageFields DEF WrappedTo
  <2> QED BY <1>2, <2>1 DEF WrappedTo, RowsFit
<1>6. Short(text, width) => BreaksAreNeeded(p.rows, text, width)
  BY <1>2 DEF WrappedTo
<1> QED BY <1>1, <1>4, <1>5, <1>6 DEF WrapsWell, Short

-----------------------------------------------------------------------------
(* Sums. *)

LEMMA TotalFolded ==
  ASSUME NEW s
  PROVE  TotalOf(s) = TotalFold!Fold(0, s)
BY DEF TotalOf, FoldLeft, MapThenFoldSet, Max, TotalFold!Fold, TotalFold!MapThenFoldSet,
       TotalFold!Largest

LEMMA TotalType ==
  ASSUME NEW s \in Seq(Nat)
  PROVE  TotalOf(s) \in Nat
<1>1. \A m \in Nat, n \in Nat : Plus(m, n) \in Nat
  BY DEF Plus
<1>2. TotalFold!Fold(0, s) \in Nat
  BY <1>1, TotalFold!FoldType
<1> QED BY <1>2, TotalFolded

LEMMA TotalEmpty == TotalOf(<<>>) = 0
BY TotalFolded, TotalFold!FoldEmpty

LEMMA TotalAppend ==
  ASSUME NEW s \in Seq(Nat), NEW n \in Nat
  PROVE  TotalOf(Append(s, n)) = TotalOf(s) + n
<1>1. TotalFold!Fold(0, Append(s, n)) = Plus(TotalFold!Fold(0, s), n)
  BY TotalFold!FoldAppend
<1> QED BY <1>1, TotalFolded DEF Plus

LEMMA TotalConcat ==
  ASSUME NEW s \in Seq(Nat), NEW t \in Seq(Nat)
  PROVE  TotalOf(s \o t) = TotalOf(s) + TotalOf(t)
<1> DEFINE T == {u \in Seq(Nat) : TotalOf(s \o u) = TotalOf(s) + TotalOf(u)}
<1>1. <<>> \in T
  <2>1. s \o <<>> = s /\ TotalOf(s) \in Nat
    BY TotalType
  <2> QED BY <2>1, TotalEmpty
<1>2. ASSUME NEW u \in Seq(Nat), u \in T, NEW n \in Nat PROVE Append(u, n) \in T
  <2>1. s \o Append(u, n) = Append(s \o u, n) /\ s \o u \in Seq(Nat)
    BY ConcatAppend
  <2>2. TotalOf(s \o Append(u, n)) = TotalOf(s \o u) + n
    BY <2>1, TotalAppend
  <2>3. TotalOf(s) \in Nat /\ TotalOf(u) \in Nat
    BY TotalType
  <2>4. TotalOf(s \o u) = TotalOf(s) + TotalOf(u)
    BY <1>2
  <2>5. TotalOf(Append(u, n)) = TotalOf(u) + n
    BY TotalAppend
  <2> QED BY <2>2, <2>3, <2>4, <2>5
<1> HIDE DEF T
<1>3. Seq(Nat) \subseteq T
  BY <1>1, <1>2, SeqSetInduction
<1> QED BY <1>3 DEF T

(* The sum of the first k.                                                 *)
SumTo(s, k) == TotalOf(SubSeq(s, 1, k))

LEMMA SumsTo ==
  ASSUME NEW s \in Seq(Nat)
  PROVE  /\ SumTo(s, 0) = 0
         /\ SumTo(s, Len(s)) = TotalOf(s)
         /\ \A k \in 0 .. Len(s) : SumTo(s, k) \in Nat
         /\ \A k \in 1 .. Len(s) : SumTo(s, k) = SumTo(s, k - 1) + s[k]
<1>1. SubSeq(s, 1, 0) = <<>> /\ SubSeq(s, 1, Len(s)) = s
  OBVIOUS
<1>2. ASSUME NEW k \in 0 .. Len(s) PROVE SumTo(s, k) \in Nat
  BY PrefixParts, TotalType DEF SumTo
<1>3. ASSUME NEW k \in 1 .. Len(s) PROVE SumTo(s, k) = SumTo(s, k - 1) + s[k]
  <2>1. SubSeq(s, 1, k) = Append(SubSeq(s, 1, k - 1), s[k]) /\ SubSeq(s, 1, k - 1) \in Seq(Nat)
    BY PrefixGrows
  <2>2. s[k] \in Nat
    OBVIOUS
  <2> QED BY <2>1, <2>2, TotalAppend DEF SumTo
<1> QED BY <1>1, <1>2, <1>3, TotalEmpty DEF SumTo

LEMMA SumsGrow ==
  ASSUME NEW s \in Seq(Nat), NEW k \in 0 .. Len(s), NEW l \in 0 .. Len(s), k <= l
  PROVE  SumTo(s, k) <= SumTo(s, l)
<1> DEFINE T == {d \in Nat : \A j \in 0 .. Len(s) : j + d <= Len(s) => SumTo(s, j) <= SumTo(s, j + d)}
<1>1. 0 \in T
  BY SumsTo
<1>2. ASSUME NEW d \in T PROVE d + 1 \in T
  <2> SUFFICES ASSUME NEW j \in 0 .. Len(s), j + (d + 1) <= Len(s)
               PROVE  SumTo(s, j) <= SumTo(s, j + (d + 1))
    OBVIOUS
  <2>1. j + (d + 1) \in 1 .. Len(s) /\ (j + (d + 1)) - 1 = j + d /\ j + d <= Len(s) /\ j + d \in 0 .. Len(s)
    OBVIOUS
  <2>2. SumTo(s, j) <= SumTo(s, j + d)
    BY <2>1
  <2>3. SumTo(s, j + (d + 1)) = SumTo(s, j + d) + s[j + (d + 1)]
    BY <2>1, SumsTo
  <2>4. SumTo(s, j) \in Nat /\ SumTo(s, j + d) \in Nat /\ s[j + (d + 1)] \in Nat
    BY <2>1, SumsTo
  <2> QED BY ONLY <2>2, <2>3, <2>4
<1> HIDE DEF T
<1>3. T = Nat
  <2>1. T \subseteq Nat
    BY DEF T
  <2> QED BY <1>1, <1>2, <2>1, NatSetInduction
<1>4. l - k \in T /\ k + (l - k) = l
  BY <1>3
<1> QED BY <1>4 DEF T

(* A part of a sequence sums to a difference.                              *)
LEMMA PartSums ==
  ASSUME NEW s \in Seq(Nat), NEW a \in Nat, NEW b \in Nat, a <= b, b <= Len(s)
  PROVE  TotalOf(SubSeq(s, a + 1, b)) + SumTo(s, a) = SumTo(s, b)
<1>1. PICK t : t = SubSeq(s, 1, b)
  OBVIOUS
<1>2. t \in Seq(Nat) /\ Len(t) = b /\ \A i \in 1 .. b : t[i] = s[i]
  BY <1>1, PrefixParts
<1>3. SubSeq(t, 1, a) = SubSeq(s, 1, a)
  BY <1>1
<1>4. SubSeq(t, a + 1, Len(t)) = SubSeq(s, a + 1, b)
  BY <1>1, <1>2
<1>a. a \in 0 .. Len(t) /\ t \in Seq(Nat)
  BY <1>2
<1>5. /\ SubSeq(t, 1, a) \in Seq(Nat) /\ SubSeq(t, a + 1, Len(t)) \in Seq(Nat)
      /\ t = SubSeq(t, 1, a) \o SubSeq(t, a + 1, Len(t))
  BY ONLY <1>a, SplitAt
<1>6. PICK x, y : x = SubSeq(t, 1, a) /\ y = SubSeq(t, a + 1, Len(t))
  OBVIOUS
<1>7. x \in Seq(Nat) /\ y \in Seq(Nat) /\ t = x \o y
  BY ONLY <1>5, <1>6
<1>8. TotalOf(t) = TotalOf(x) + TotalOf(y) /\ TotalOf(x) \in Nat /\ TotalOf(y) \in Nat
  BY ONLY <1>7, TotalConcat, TotalType
<1>9. SumTo(s, b) = TotalOf(t) /\ SumTo(s, a) = TotalOf(x)
  BY <1>1, <1>3, <1>6 DEF SumTo
<1>10. TotalOf(SubSeq(s, a + 1, b)) = TotalOf(y)
  BY <1>4, <1>6
<1> QED BY ONLY <1>8, <1>9, <1>10

-----------------------------------------------------------------------------
(* The sections of a layout. *)

(* What SectionsAreSections says of the sections there are.                *)
Sectional(S) ==
  \A s \in S :
    /\ s.kind \in {"exact", "fill"} /\ s.n \in Nat /\ s.places \in Nat
    /\ s.places = IF IsLeaf(s) THEN 1 ELSE 1 + Places(s.inner[1].sections)
    /\ ~IsLeaf(s) => s.inner[1].sections \in Seq(S)

Amounts(kind, sections) ==
  [i \in DOMAIN sections |-> IF sections[i].kind = kind THEN sections[i].n ELSE 0]

LEMMA AmountsType ==
  ASSUME NEW S, Sectional(S), NEW sections \in Seq(S), NEW kind
  PROVE  /\ Amounts(kind, sections) \in Seq(Nat) /\ Len(Amounts(kind, sections)) = Len(sections)
         /\ AmountOf(kind, sections) = SumTo(Amounts(kind, sections), Len(sections))
         /\ \A k \in 0 .. Len(sections) :
              AmountOf(kind, SubSeq(sections, 1, k)) = SumTo(Amounts(kind, sections), k)
         /\ \A i \in 1 .. Len(sections) :
              Amounts(kind, sections)[i] = IF sections[i].kind = kind THEN sections[i].n ELSE 0
<1>1. DOMAIN sections = 1 .. Len(sections) /\ Len(sections) \in Nat
  OBVIOUS
<1>2. \A i \in 1 .. Len(sections) : sections[i] \in S
  BY <1>1
<1>3. \A i \in 1 .. Len(sections) : (IF sections[i].kind = kind THEN sections[i].n ELSE 0) \in Nat
  BY <1>2 DEF Sectional
<1>4. PICK f : f = Amounts(kind, sections)
  OBVIOUS
<1>5. f \in [1 .. Len(sections) -> Nat]
  BY <1>1, <1>3, <1>4 DEF Amounts
<1>6. f \in Seq(Nat) /\ Len(f) = Len(sections)
  BY ONLY <1>1, <1>5, FunctionIsSeq
<1>7. \A i \in 1 .. Len(sections) : f[i] = IF sections[i].kind = kind THEN sections[i].n ELSE 0
  BY <1>1, <1>4 DEF Amounts
<1>8. ASSUME NEW k \in 0 .. Len(sections)
      PROVE  AmountOf(kind, SubSeq(sections, 1, k)) = SumTo(f, k)
  <2>1. PICK p : p = SubSeq(sections, 1, k)
    OBVIOUS
  <2>2. p \in Seq(S) /\ Len(p) = k /\ \A i \in 1 .. k : p[i] = sections[i]
    BY <2>1, PrefixParts
  <2>3. DOMAIN p = 1 .. k
    BY <2>2
  <2>4. PICK g : g = SubSeq(f, 1, k)
    OBVIOUS
  <2>5. g \in Seq(Nat) /\ Len(g) = k /\ \A i \in 1 .. k : g[i] = f[i]
    BY ONLY <1>6, <2>4, PrefixParts, k \in 0 .. Len(sections)
  <2>6. g = [i \in 1 .. k |-> g[i]]
    BY <2>5
  <2>7. \A i \in 1 .. k : g[i] = IF p[i].kind = kind THEN p[i].n ELSE 0
    BY <1>7, <2>2, <2>5
  <2>8. [i \in DOMAIN p |-> IF p[i].kind = kind THEN p[i].n ELSE 0] = g
    BY ONLY <2>3, <2>6, <2>7
  <2> QED BY <2>1, <2>4, <2>8 DEF AmountOf, SumTo
<1>9. AmountOf(kind, sections) = SumTo(f, Len(sections))
  BY <1>4, <1>6, SumsTo DEF AmountOf, Amounts
<1> QED BY <1>4, <1>6, <1>7, <1>8, <1>9

LEMMA RemainingFolded ==
  ASSUME NEW s, NEW space
  PROVE  Remaining(s, space) = ServeFold!Fold(space, s)
BY DEF Remaining, FoldLeft, MapThenFoldSet, Max, ServeFold!Fold, ServeFold!MapThenFoldSet,
       ServeFold!Largest

RemainingTo(sections, space, k) == Remaining(SubSeq(sections, 1, k), space)

LEMMA RemainingSteps ==
  ASSUME NEW S, Sectional(S), NEW sections \in Seq(S), NEW space \in Nat
  PROVE  /\ RemainingTo(sections, space, 0) = space
         /\ RemainingTo(sections, space, Len(sections)) = Remaining(sections, space)
         /\ \A k \in 0 .. Len(sections) : RemainingTo(sections, space, k) \in Nat
         /\ \A k \in 1 .. Len(sections) :
              RemainingTo(sections, space, k) = Serve(RemainingTo(sections, space, k - 1), sections[k])
<1>1. SubSeq(sections, 1, 0) = <<>> /\ SubSeq(sections, 1, Len(sections)) = sections
  OBVIOUS
<1>2. RemainingTo(sections, space, 0) = space
  BY <1>1, RemainingFolded, ServeFold!FoldEmpty DEF RemainingTo
<1>3. \A left \in Nat : \A s \in S : Serve(left, s) \in Nat
  BY DEF Serve, Sectional
<1>4. ASSUME NEW k \in 0 .. Len(sections) PROVE RemainingTo(sections, space, k) \in Nat
  <2>1. SubSeq(sections, 1, k) \in Seq(S)
    BY PrefixParts
  <2>2. ServeFold!Fold(space, SubSeq(sections, 1, k)) \in Nat
    BY <1>3, <2>1, ServeFold!FoldType
  <2> QED BY <2>2, RemainingFolded DEF RemainingTo
<1>5. ASSUME NEW k \in 1 .. Len(sections)
      PROVE  RemainingTo(sections, space, k) = Serve(RemainingTo(sections, space, k - 1), sections[k])
  <2>1. SubSeq(sections, 1, k) = Append(SubSeq(sections, 1, k - 1), sections[k])
        /\ SubSeq(sections, 1, k - 1) \in Seq(S) /\ sections[k] \in S
    BY PrefixGrows
  <2>2. ServeFold!Fold(space, Append(SubSeq(sections, 1, k - 1), sections[k]))
          = Serve(ServeFold!Fold(space, SubSeq(sections, 1, k - 1)), sections[k])
    BY <2>1, ServeFold!FoldAppend
  <2> QED BY <2>1, <2>2, RemainingFolded DEF RemainingTo
<1> QED BY <1>1, <1>2, <1>4, <1>5 DEF RemainingTo

LEMMA ServingSteps ==
  ASSUME NEW S, Sectional(S), NEW sections \in Seq(S), NEW space \in Nat
  PROVE  LET R(k) == RemainingTo(sections, space, k)
             E(k) == SumTo(Amounts("exact", sections), k)
         IN  /\ R(0) = space /\ E(0) = 0
             /\ \A k \in 0 .. Len(sections) : R(k) \in Nat /\ E(k) \in Nat
             /\ \A k \in 1 .. Len(sections) :
                  /\ R(k) = Serve(R(k - 1), sections[k])
                  /\ E(k) = E(k - 1) + (IF sections[k].kind = "exact" THEN sections[k].n ELSE 0)
<1> DEFINE A == Amounts("exact", sections)
<1>1. A \in Seq(Nat) /\ Len(A) = Len(sections)
      /\ \A i \in 1 .. Len(sections) : A[i] = IF sections[i].kind = "exact" THEN sections[i].n ELSE 0
  BY AmountsType
<1> HIDE DEF A
<1>2. /\ SumTo(A, 0) = 0
      /\ \A k \in 0 .. Len(sections) : SumTo(A, k) \in Nat
      /\ \A k \in 1 .. Len(sections) : SumTo(A, k) = SumTo(A, k - 1) + A[k]
  BY <1>1, SumsTo
<1>3. \A k \in 1 .. Len(sections) :
        SumTo(A, k) = SumTo(A, k - 1) + (IF sections[k].kind = "exact" THEN sections[k].n ELSE 0)
  BY <1>1, <1>2
<1> QED BY <1>2, <1>3, RemainingSteps DEF A

(* As long as the sections fit, what is left and what they took is the     *)
(* space, and something is left once one took some.                        *)
LEMMA FittingTakes ==
  ASSUME NEW S, Sectional(S), NEW sections \in Seq(S), NEW space \in Nat,
         \A i \in DOMAIN sections : Fits(sections, space, i)
  PROVE  \A k \in 0 .. Len(sections) :
           /\ RemainingTo(sections, space, k) + SumTo(Amounts("exact", sections), k) = space
           /\ (\E i \in 1 .. k : sections[i].kind = "exact") => RemainingTo(sections, space, k) > 0
<1> DEFINE R(k) == RemainingTo(sections, space, k)
           E(k) == SumTo(Amounts("exact", sections), k)
           T == {k \in Nat : k <= Len(sections) =>
                   /\ R(k) + E(k) = space
                   /\ (\E i \in 1 .. k : sections[i].kind = "exact") => R(k) > 0}
<1>1. /\ R(0) = space /\ E(0) = 0
      /\ \A k \in 0 .. Len(sections) : R(k) \in Nat /\ E(k) \in Nat
      /\ \A k \in 1 .. Len(sections) :
           /\ R(k) = Serve(R(k - 1), sections[k])
           /\ E(k) = E(k - 1) + (IF sections[k].kind = "exact" THEN sections[k].n ELSE 0)
  BY ServingSteps
<1>2. ASSUME NEW k \in 1 .. Len(sections)
      PROVE  sections[k] \in S /\ sections[k].n \in Nat
             /\ (sections[k].kind = "exact" => sections[k].n < R(k - 1))
  BY DEF Fits, Sectional, RemainingTo
<1> HIDE DEF R, E
<1>3. 0 \in T
  BY <1>1
<1>4. ASSUME NEW k \in T PROVE k + 1 \in T
  <2> SUFFICES ASSUME k + 1 <= Len(sections)
               PROVE  /\ R(k + 1) + E(k + 1) = space
                      /\ (\E i \in 1 .. k + 1 : sections[i].kind = "exact") => R(k + 1) > 0
    OBVIOUS
  <2>1. k + 1 \in 1 .. Len(sections) /\ (k + 1) - 1 = k /\ k \in 0 .. Len(sections) /\ k \in Nat
    OBVIOUS
  <2>2. /\ R(k) + E(k) = space /\ R(k) \in Nat /\ E(k) \in Nat
        /\ (\E i \in 1 .. k : sections[i].kind = "exact") => R(k) > 0
    BY <1>1, <2>1
  <2>3. /\ R(k + 1) = Serve(R(k), sections[k + 1])
        /\ E(k + 1) = E(k) + (IF sections[k + 1].kind = "exact" THEN sections[k + 1].n ELSE 0)
        /\ sections[k + 1].n \in Nat /\ (sections[k + 1].kind = "exact" => sections[k + 1].n < R(k))
    BY <1>1, <1>2, <2>1
  <2>4. CASE sections[k + 1].kind = "exact"
    <3>1. R(k + 1) = R(k) - sections[k + 1].n /\ E(k + 1) = E(k) + sections[k + 1].n
      BY <2>3, <2>4 DEF Serve
    <3> QED BY <2>2, <2>3, <2>4, <3>1
  <2>5. CASE sections[k + 1].kind # "exact"
    <3>1. R(k + 1) = R(k) /\ E(k + 1) = E(k)
      BY <2>2, <2>3, <2>5 DEF Serve
    <3>2. (\E i \in 1 .. k + 1 : sections[i].kind = "exact") => \E i \in 1 .. k : sections[i].kind = "exact"
      <4> SUFFICES ASSUME NEW i \in 1 .. k + 1, sections[i].kind = "exact"
                   PROVE  i \in 1 .. k
        OBVIOUS
      <4> QED BY <2>1, <2>5
    <3> QED BY <2>2, <3>1, <3>2
  <2> QED BY <2>4, <2>5
<1> HIDE DEF T
<1>5. T = Nat
  <2>1. T \subseteq Nat
    BY DEF T
  <2> QED BY <1>3, <1>4, <2>1, NatSetInduction
<1>6. ASSUME NEW k \in 0 .. Len(sections)
      PROVE  R(k) + E(k) = space /\ ((\E i \in 1 .. k : sections[i].kind = "exact") => R(k) > 0)
  <2>1. k \in T /\ k <= Len(sections)
    BY <1>5
  <2> QED BY <2>1 DEF T
<1> QED BY <1>6 DEF R, E

(* And they fit if there is more space than they ask for.                  *)
LEMMA RoomFits ==
  ASSUME NEW S, Sectional(S), NEW sections \in Seq(S), NEW space \in Nat,
         (\E i \in DOMAIN sections : sections[i].kind = "exact") => AmountOf("exact", sections) < space
  PROVE  \A i \in DOMAIN sections : Fits(sections, space, i)
<1> DEFINE R(k) == RemainingTo(sections, space, k)
           E(k) == SumTo(Amounts("exact", sections), k)
           T == {k \in Nat : k <= Len(sections) => R(k) + E(k) = space}
<1>1. /\ R(0) = space /\ E(0) = 0
      /\ \A k \in 0 .. Len(sections) : R(k) \in Nat /\ E(k) \in Nat
      /\ \A k \in 1 .. Len(sections) :
           /\ R(k) = Serve(R(k - 1), sections[k])
           /\ E(k) = E(k - 1) + (IF sections[k].kind = "exact" THEN sections[k].n ELSE 0)
  BY ServingSteps
<1>2. \A k \in 1 .. Len(sections) : sections[k] \in S /\ sections[k].n \in Nat
  BY DEF Sectional
<1>3. AmountOf("exact", sections) = E(Len(sections)) /\ Amounts("exact", sections) \in Seq(Nat)
      /\ Len(Amounts("exact", sections)) = Len(sections)
  BY AmountsType
<1>4. \A k \in 0 .. Len(sections) : E(k) <= E(Len(sections))
  BY <1>3, SumsGrow
<1> HIDE DEF R, E
<1>5. ASSUME NEW k \in 1 .. Len(sections), sections[k].kind = "exact", R(k - 1) + E(k - 1) = space
      PROVE  sections[k].n < R(k - 1)
  <2>1. E(Len(sections)) < space
    BY <1>3, <1>5
  <2>2. E(k) = E(k - 1) + sections[k].n /\ E(k) <= E(Len(sections)) /\ k - 1 \in 0 .. Len(sections)
    BY <1>1, <1>4, <1>5
  <2>3. E(k - 1) \in Nat /\ R(k - 1) \in Nat /\ sections[k].n \in Nat /\ E(k) \in Nat /\ E(Len(sections)) \in Nat
    BY <1>1, <1>2, <2>2
  <2> QED BY <1>5, <2>1, <2>2, <2>3
<1>6. 0 \in T
  BY <1>1
<1>7. ASSUME NEW k \in T PROVE k + 1 \in T
  <2> SUFFICES ASSUME k + 1 <= Len(sections)
               PROVE  R(k + 1) + E(k + 1) = space
    OBVIOUS
  <2>1. k + 1 \in 1 .. Len(sections) /\ (k + 1) - 1 = k /\ k \in 0 .. Len(sections) /\ k \in Nat
    OBVIOUS
  <2>2. R(k) + E(k) = space /\ R(k) \in Nat /\ E(k) \in Nat
    BY <1>1, <2>1
  <2>3. /\ R(k + 1) = Serve(R(k), sections[k + 1])
        /\ E(k + 1) = E(k) + (IF sections[k + 1].kind = "exact" THEN sections[k + 1].n ELSE 0)
        /\ sections[k + 1].n \in Nat /\ (sections[k + 1].kind = "exact" => sections[k + 1].n < R(k))
    BY <1>1, <1>2, <1>5, <2>1, <2>2
  <2>4. CASE sections[k + 1].kind = "exact"
    <3>1. R(k + 1) = R(k) - sections[k + 1].n /\ E(k + 1) = E(k) + sections[k + 1].n
      BY <2>3, <2>4 DEF Serve
    <3> QED BY <2>2, <2>3, <3>1
  <2>5. CASE sections[k + 1].kind # "exact"
    <3>1. R(k + 1) = R(k) /\ E(k + 1) = E(k)
      BY <2>2, <2>3, <2>5 DEF Serve
    <3> QED BY <2>2, <3>1
  <2> QED BY <2>4, <2>5
<1> HIDE DEF T
<1>8. T = Nat
  <2>1. T \subseteq Nat
    BY DEF T
  <2> QED BY <1>6, <1>7, <2>1, NatSetInduction
<1>9. ASSUME NEW i \in DOMAIN sections, sections[i].kind = "exact" PROVE sections[i].n < R(i - 1)
  <2>1. i \in 1 .. Len(sections) /\ i - 1 \in Nat /\ i - 1 <= Len(sections)
    OBVIOUS
  <2>2. R(i - 1) + E(i - 1) = space
    BY <1>8, <2>1 DEF T
  <2> QED BY <1>5, <1>9, <2>1, <2>2
<1> QED BY <1>9 DEF Fits, R, RemainingTo

(* The layout is not given up exactly if there is room for it.             *)
LEMMA RoomDecides ==
  ASSUME NEW S, Sectional(S), NEW sections \in Seq(S), NEW space \in Nat
  PROVE  /\ ~Aborts(sections, space) => HasRoom(sections, space)
         /\ TotalWeight(sections) <= 255 /\ HasRoom(sections, space) => ~Aborts(sections, space)
<1> DEFINE A == Amounts("fill", sections)
           W(k) == SumTo(A, k)
<1>1. /\ A \in Seq(Nat) /\ Len(A) = Len(sections) /\ TotalWeight(sections) = W(Len(sections))
      /\ \A i \in 1 .. Len(sections) : A[i] = IF sections[i].kind = "fill" THEN sections[i].n ELSE 0
  BY AmountsType DEF TotalWeight
<1>2. /\ W(0) = 0 /\ \A k \in 0 .. Len(sections) : W(k) \in Nat
      /\ \A k \in 1 .. Len(sections) : W(k) = W(k - 1) + A[k]
      /\ \A k \in 0 .. Len(sections) : W(k) <= W(Len(sections))
  BY <1>1, SumsTo, SumsGrow
<1>3. \A i \in 1 .. Len(sections) : sections[i].n \in Nat
  BY DEF Sectional
<1> HIDE DEF A, W
<1>4. DOMAIN sections = 1 .. Len(sections) /\ Len(sections) \in Nat
  OBVIOUS
<1>5. W(Len(sections)) > 0 <=> \E i \in DOMAIN sections : sections[i].kind = "fill" /\ sections[i].n > 0
  <2>1. ASSUME NEW i \in DOMAIN sections, sections[i].kind = "fill", sections[i].n > 0
        PROVE  W(Len(sections)) > 0
    <3>1. W(i) = W(i - 1) + sections[i].n /\ W(i - 1) \in Nat /\ W(i) <= W(Len(sections))
      BY <1>1, <1>2, <1>4, <2>1
    <3>2. sections[i].n \in Nat /\ W(i) \in Nat /\ W(Len(sections)) \in Nat
      BY <1>2, <1>3, <1>4
    <3> QED BY <2>1, <3>1, <3>2
  <2>2. ASSUME \A i \in DOMAIN sections : ~(sections[i].kind = "fill" /\ sections[i].n > 0)
        PROVE  W(Len(sections)) = 0
    <3> DEFINE Z == {k \in Nat : k <= Len(sections) => W(k) = 0}
    <3>1. 0 \in Z
      BY <1>2
    <3>2. ASSUME NEW k \in Z PROVE k + 1 \in Z
      <4> SUFFICES ASSUME k + 1 <= Len(sections) PROVE W(k + 1) = 0
        OBVIOUS
      <4>1. k + 1 \in DOMAIN sections /\ (k + 1) - 1 = k /\ k + 1 \in 1 .. Len(sections) /\ W(k) = 0
        BY <1>4
      <4>2. A[k + 1] = 0
        <5>1. A[k + 1] = IF sections[k + 1].kind = "fill" THEN sections[k + 1].n ELSE 0
          BY ONLY <1>1, <4>1
        <5>2. sections[k + 1].n \in Nat /\ ~(sections[k + 1].kind = "fill" /\ sections[k + 1].n > 0)
          BY ONLY <1>3, <2>2, <4>1
        <5> QED BY ONLY <5>1, <5>2
      <4> QED BY <1>2, <4>1, <4>2
    <3> HIDE DEF Z
    <3>3. Z = Nat
      <4>1. Z \subseteq Nat
        BY DEF Z
      <4> QED BY <3>1, <3>2, <4>1, NatSetInduction
    <3> QED BY <1>4, <3>3 DEF Z
  <2> QED BY <2>1, <2>2
<1>6. ASSUME \A i \in DOMAIN sections : Fits(sections, space, i),
             \E i \in DOMAIN sections : sections[i].kind = "exact"
      PROVE  AmountOf("exact", sections) < space
  <2> DEFINE R == RemainingTo(sections, space, Len(sections))
             E == SumTo(Amounts("exact", sections), Len(sections))
  <2>1. R + E = space /\ R > 0
    BY <1>4, <1>6, FittingTakes
  <2>2. R \in Nat /\ E \in Nat /\ AmountOf("exact", sections) = E
    BY <1>4, RemainingSteps, AmountsType, SumsTo
  <2> QED BY <2>1, <2>2
<1>7. (\A i \in DOMAIN sections : Fits(sections, space, i))
        <=> ((\E i \in DOMAIN sections : sections[i].kind = "exact") => AmountOf("exact", sections) < space)
  BY <1>6, RoomFits
<1>8. W(Len(sections)) \in Nat
  BY <1>2, <1>4
<1>9. PICK total : total = W(Len(sections))
  OBVIOUS
<1>10. total \in Nat /\ TotalWeight(sections) = total
  BY <1>1, <1>8, <1>9
<1>11. total \in 1 .. 255 <=> total <= 255 /\ total > 0
  BY <1>10
<1>12. Aborts(sections, space) <=> \/ ~(total <= 255 /\ total > 0)
                                   \/ ~(\A i \in DOMAIN sections : Fits(sections, space, i))
  BY ONLY <1>10, <1>11 DEF Aborts
<1>13. HasRoom(sections, space)
         <=> total > 0 /\ (\A i \in DOMAIN sections : Fits(sections, space, i))
  BY ONLY <1>5, <1>7, <1>9 DEF HasRoom
<1> QED BY ONLY <1>10, <1>12, <1>13

(* The first m of the pieces: the remainder goes to those that come first. *)
Dealt(space, total, m) ==
  m * (space \div total) + (IF m <= space % total THEN m ELSE space % total)

LEMMA PiecesSum ==
  ASSUME NEW space \in Nat, NEW total \in Nat \ {0}
  PROVE  /\ Pieces(space, total) \in Seq(Nat) /\ Len(Pieces(space, total)) = total
         /\ \A m \in 0 .. total : SumTo(Pieces(space, total), m) = Dealt(space, total, m)
         /\ Dealt(space, total, total) = space
<1>1. PICK q, r, p : q = space \div total /\ r = space % total /\ p = Pieces(space, total)
  OBVIOUS
<1>2. q \in Nat /\ r \in 0 .. total - 1 /\ total * q + r = space
  BY ONLY space \in Nat, total \in Nat \ {0}, <1>1
<1>3. \A k \in 1 .. total : q + (IF k <= r THEN 1 ELSE 0) \in Nat
  BY <1>2
<1>4. p = [k \in 1 .. total |-> q + (IF k <= r THEN 1 ELSE 0)]
  BY <1>1 DEF Pieces
<1>5. p \in [1 .. total -> Nat] /\ \A k \in 1 .. total : p[k] = q + (IF k <= r THEN 1 ELSE 0)
  BY <1>3, <1>4
<1>6. p \in Seq(Nat) /\ Len(p) = total
  <2>1. total \in Nat
    OBVIOUS
  <2> QED BY ONLY <1>5, <2>1, FunctionIsSeq
<1>7. /\ SumTo(p, 0) = 0
      /\ \A k \in 1 .. total : SumTo(p, k) = SumTo(p, k - 1) + p[k]
  BY ONLY <1>6, SumsTo
<1> DEFINE T == {m \in Nat : m <= total => SumTo(p, m) = m * q + (IF m <= r THEN m ELSE r)}
<1>8. 0 \in T
  BY <1>2, <1>7
<1>9. ASSUME NEW m \in T PROVE m + 1 \in T
  <2> SUFFICES ASSUME m + 1 <= total
               PROVE  SumTo(p, m + 1) = (m + 1) * q + (IF m + 1 <= r THEN m + 1 ELSE r)
    OBVIOUS
  <2>1. m \in Nat /\ m + 1 \in 1 .. total /\ (m + 1) - 1 = m /\ SumTo(p, m) = m * q + (IF m <= r THEN m ELSE r)
    OBVIOUS
  <2>2. SumTo(p, m + 1) = SumTo(p, m) + (q + (IF m + 1 <= r THEN 1 ELSE 0))
    BY <1>5, <1>7, <2>1
  <2>3. (m + 1) * q = m * q + q /\ m * q \in Nat
    BY <1>2, <2>1
  <2>4. PICK mq : mq = m * q
    OBVIOUS
  <2>5. SumTo(p, m + 1) = mq + q + (IF m + 1 <= r THEN m + 1 ELSE r)
    BY ONLY <2>1, <2>2, <2>3, <2>4, <1>2
  <2> QED BY ONLY <2>3, <2>4, <2>5
<1> HIDE DEF T
<1>10. T = Nat
  <2>1. T \subseteq Nat
    BY DEF T
  <2> QED BY <1>8, <1>9, <2>1, NatSetInduction
<1>11. ASSUME NEW m \in 0 .. total PROVE SumTo(p, m) = m * q + (IF m <= r THEN m ELSE r)
  <2>1. m \in T /\ m <= total
    BY <1>10
  <2> QED BY <2>1 DEF T
<1>12. ~(total <= r)
  BY <1>2
<1>13. Dealt(space, total, total) = space
  BY <1>1, <1>2, <1>12 DEF Dealt
<1> QED BY <1>1, <1>6, <1>11, <1>13 DEF Dealt

EachOf(space, total) == space \div total
RestOf(space, total) == space % total
ExtraOf(space, total, m, n) ==
  (IF m + n <= RestOf(space, total) THEN m + n ELSE RestOf(space, total))
    - (IF m <= RestOf(space, total) THEN m ELSE RestOf(space, total))

(* More pieces are no less, and the first of them are the larger ones.     *)
LEMMA DealtGrows ==
  ASSUME NEW space \in Nat, NEW total \in Nat \ {0}, NEW m \in Nat, NEW n \in Nat
  PROVE  /\ Dealt(space, total, m) \in Nat
         /\ LET o == ExtraOf(space, total, m, n)
            IN  /\ o \in Nat
                /\ Dealt(space, total, m + n) = Dealt(space, total, m) + (n * EachOf(space, total) + o)
                /\ o <= n
                /\ o < n => m + n > RestOf(space, total)
                /\ m >= RestOf(space, total) => o = 0
<1>1. PICK q, r : q = space \div total /\ r = space % total /\ q = EachOf(space, total) /\ r = RestOf(space, total)
  BY DEF EachOf, RestOf
<1>2. q \in Nat /\ r \in Nat
  <2>1. r \in 0 .. total - 1 /\ q \in Nat
    BY ONLY space \in Nat, total \in Nat \ {0}, <1>1
  <2> QED BY <2>1
<1>3. PICK a, b, c : /\ a = IF m <= r THEN m ELSE r
                     /\ b = IF m + n <= r THEN m + n ELSE r
                     /\ c = b - a
  OBVIOUS
<1>4. /\ a \in Nat /\ b \in Nat /\ c \in Nat /\ b = a + c
      /\ c <= n /\ (c < n => m + n > r) /\ (m >= r => c = 0)
  BY ONLY <1>2, <1>3, m \in Nat, n \in Nat
<1>5. (m + n) * q = m * q + n * q /\ m * q \in Nat /\ n * q \in Nat
  BY ONLY <1>2, m \in Nat, n \in Nat
<1>6. Dealt(space, total, m) = m * q + a /\ Dealt(space, total, m + n) = (m + n) * q + b
  BY ONLY <1>1, <1>3 DEF Dealt
<1>7. PICK mq, nq, mnq : mq = m * q /\ nq = n * q /\ mnq = (m + n) * q
  OBVIOUS
<1>8. mq + a \in Nat /\ mnq + b = (mq + a) + (nq + c)
  BY ONLY <1>4, <1>5, <1>7
<1>9. Dealt(space, total, m) \in Nat /\ Dealt(space, total, m + n) = Dealt(space, total, m) + (n * q + c)
  BY ONLY <1>6, <1>7, <1>8
<1>10. ExtraOf(space, total, m, n) = c
  BY ONLY <1>1, <1>3 DEF ExtraOf
<1> QED BY ONLY <1>1, <1>4, <1>9, <1>10

SizesOf(sections, space) == [i \in DOMAIN sections |-> Size(sections, space, i)]

(* What the sections get: an exact one what it asks for, and one that      *)
(* fills the pieces after those of the sections before it.                 *)
LEMMA SizesAre ==
  ASSUME NEW S, Sectional(S), NEW sections \in Seq(S), NEW space \in Nat, ~Aborts(sections, space)
  PROVE  LET T == TotalWeight(sections)
             R == Remaining(sections, space)
             W(k) == SumTo(Amounts("fill", sections), k)
         IN  /\ T \in Nat \ {0} /\ R \in Nat
             /\ \A k \in 0 .. Len(sections) : W(k) \in 0 .. T
             /\ W(0) = 0 /\ W(Len(sections)) = T
             /\ \A i \in 1 .. Len(sections) :
                  /\ sections[i].kind \in {"exact", "fill"} /\ sections[i].n \in Nat
                  /\ Size(sections, space, i) \in Nat
                  /\ sections[i].kind = "exact" => W(i) = W(i - 1) /\ Size(sections, space, i) = sections[i].n
                  /\ sections[i].kind = "fill" =>
                       /\ W(i) = W(i - 1) + sections[i].n
                       /\ Size(sections, space, i) + Dealt(R, T, W(i - 1)) = Dealt(R, T, W(i))
<1> DEFINE A == Amounts("fill", sections)
           W(k) == SumTo(A, k)
<1>1. PICK T, R : T = TotalWeight(sections) /\ R = Remaining(sections, space)
  OBVIOUS
<1>2. T \in 1 .. 255
  BY <1>1 DEF Aborts
<1>3. R \in Nat /\ Len(sections) \in Nat
  BY <1>1, RemainingSteps
<1>4. /\ A \in Seq(Nat) /\ Len(A) = Len(sections) /\ T = W(Len(sections))
      /\ \A i \in 1 .. Len(sections) :
           /\ A[i] = IF sections[i].kind = "fill" THEN sections[i].n ELSE 0
           /\ TotalWeight(SubSeq(sections, 1, i - 1)) = W(i - 1)
  BY <1>1, AmountsType DEF TotalWeight
<1>5. /\ W(0) = 0
      /\ \A k \in 0 .. Len(sections) : W(k) \in Nat
      /\ \A k \in 1 .. Len(sections) : W(k) = W(k - 1) + A[k]
      /\ \A k \in 0 .. Len(sections) : W(k) <= W(Len(sections))
  BY <1>4, SumsTo, SumsGrow
<1>6. \A i \in 1 .. Len(sections) : sections[i].kind \in {"exact", "fill"} /\ sections[i].n \in Nat
  BY DEF Sectional
<1> HIDE DEF A, W
<1>7. \A k \in 0 .. Len(sections) : W(k) \in 0 .. T
  BY <1>2, <1>4, <1>5
<1>8. ASSUME NEW i \in 1 .. Len(sections), sections[i].kind = "exact"
      PROVE  W(i) = W(i - 1) /\ Size(sections, space, i) = sections[i].n
  <2>1. A[i] = 0 /\ W(i - 1) \in Nat
    BY <1>4, <1>5, <1>8
  <2> QED BY <1>5, <1>8, <2>1 DEF Size
<1>9. ASSUME NEW i \in 1 .. Len(sections), sections[i].kind = "fill"
      PROVE  /\ W(i) = W(i - 1) + sections[i].n
             /\ Size(sections, space, i) + Dealt(R, T, W(i - 1)) = Dealt(R, T, W(i))
             /\ Size(sections, space, i) \in Nat
  <2>1. PICK a, b, p : a = W(i - 1) /\ b = W(i) /\ p = Pieces(R, T)
    OBVIOUS
  <2>2. i - 1 \in 0 .. Len(sections) /\ i \in 0 .. Len(sections)
    BY <1>3
  <2>3. a \in 0 .. T /\ b \in 0 .. T /\ b = a + sections[i].n /\ sections[i].n \in Nat
    BY <1>4, <1>5, <1>6, <1>7, <1>9, <2>1, <2>2
  <2>4. T \in Nat \ {0}
    BY <1>2
  <2>5. p \in Seq(Nat) /\ Len(p) = T /\ \A m \in 0 .. T : SumTo(p, m) = Dealt(R, T, m)
    BY ONLY <1>3, <2>1, <2>4, PiecesSum
  <2>6. Size(sections, space, i) = TotalOf(SubSeq(p, a + 1, b))
    BY <1>1, <1>4, <1>9, <2>1, <2>3 DEF Size
  <2>7. a \in Nat /\ b \in Nat /\ a <= b /\ b <= Len(p)
    BY ONLY <2>3, <2>4, <2>5
  <2>8. TotalOf(SubSeq(p, a + 1, b)) + SumTo(p, a) = SumTo(p, b)
    BY ONLY <2>5, <2>7, PartSums
  <2>9. SubSeq(p, a + 1, b) \in Seq(Nat)
    BY ONLY <2>5, <2>7
  <2>10. TotalOf(SubSeq(p, a + 1, b)) \in Nat
    BY ONLY <2>9, TotalType
  <2> QED BY ONLY <2>1, <2>3, <2>5, <2>6, <2>8, <2>10
<1>10. \A i \in 1 .. Len(sections) : Size(sections, space, i) \in Nat
  BY <1>6, <1>8, <1>9
<1>11. T \in Nat \ {0} /\ W(0) = 0 /\ W(Len(sections)) = T
  <2>1. T \in Nat \ {0}
    BY ONLY <1>2
  <2>2. W(0) = 0 /\ W(Len(sections)) = T
    BY <1>4, <1>5
  <2> QED BY ONLY <2>1, <2>2
<1> QED BY ONLY <1>1, <1>3, <1>6, <1>7, <1>8, <1>9, <1>10, <1>11 DEF A, W

(* Together they get the whole space.                                      *)
LEMMA SizesSum ==
  ASSUME NEW S, Sectional(S), NEW sections \in Seq(S), NEW space \in Nat, ~Aborts(sections, space)
  PROVE  /\ SizesOf(sections, space) \in Seq(Nat) /\ Len(SizesOf(sections, space)) = Len(sections)
         /\ SumTo(SizesOf(sections, space), Len(sections)) = space
<1> DEFINE W(k) == SumTo(Amounts("fill", sections), k)
           E(k) == SumTo(Amounts("exact", sections), k)
<1>1. PICK T, R, z : T = TotalWeight(sections) /\ R = Remaining(sections, space) /\ z = SizesOf(sections, space)
  OBVIOUS
<1>2. /\ T \in Nat \ {0} /\ R \in Nat
      /\ \A k \in 0 .. Len(sections) : W(k) \in 0 .. T
      /\ W(0) = 0 /\ W(Len(sections)) = T
      /\ \A i \in 1 .. Len(sections) :
           /\ sections[i].kind \in {"exact", "fill"} /\ sections[i].n \in Nat
           /\ Size(sections, space, i) \in Nat
           /\ sections[i].kind = "exact" => W(i) = W(i - 1) /\ Size(sections, space, i) = sections[i].n
           /\ sections[i].kind = "fill" =>
                /\ W(i) = W(i - 1) + sections[i].n
                /\ Size(sections, space, i) + Dealt(R, T, W(i - 1)) = Dealt(R, T, W(i))
  BY <1>1, SizesAre
<1>3. /\ E(0) = 0
      /\ \A k \in 0 .. Len(sections) : E(k) \in Nat
      /\ \A k \in 1 .. Len(sections) :
           E(k) = E(k - 1) + (IF sections[k].kind = "exact" THEN sections[k].n ELSE 0)
  BY ServingSteps
<1>4. R + E(Len(sections)) = space
  <2>1. \A i \in DOMAIN sections : Fits(sections, space, i)
    BY DEF Aborts
  <2>2. Len(sections) \in 0 .. Len(sections)
    OBVIOUS
  <2>3. RemainingTo(sections, space, Len(sections)) + E(Len(sections)) = space
    BY <2>1, <2>2, FittingTakes
  <2> QED BY <1>1, <2>3, RemainingSteps
<1> HIDE DEF W, E
<1>5. DOMAIN sections = 1 .. Len(sections) /\ Len(sections) \in Nat
  OBVIOUS
<1>6. z \in [1 .. Len(sections) -> Nat] /\ \A i \in 1 .. Len(sections) : z[i] = Size(sections, space, i)
  BY <1>1, <1>2, <1>5 DEF SizesOf
<1>7. z \in Seq(Nat) /\ Len(z) = Len(sections)
  BY ONLY <1>5, <1>6, FunctionIsSeq
<1>8. /\ SumTo(z, 0) = 0
      /\ \A k \in 1 .. Len(sections) : SumTo(z, k) = SumTo(z, k - 1) + z[k]
  BY ONLY <1>7, SumsTo
<1> DEFINE D(k) == Dealt(R, T, W(k))
           G == {k \in Nat : k <= Len(sections) => SumTo(z, k) = E(k) + D(k)}
<1>9. \A k \in 0 .. Len(sections) : D(k) \in Nat
  <2>1. ASSUME NEW k \in 0 .. Len(sections) PROVE D(k) \in Nat
    <3>1. W(k) \in Nat /\ 0 \in Nat
      BY <1>2
    <3> QED BY <1>2, <3>1, DealtGrows
  <2> QED BY <2>1
<1>10. D(0) = 0 /\ D(Len(sections)) = R
  <2>1. Dealt(R, T, T) = R /\ Dealt(R, T, 0) = SumTo(Pieces(R, T), 0) /\ Pieces(R, T) \in Seq(Nat)
    <3>1. R \in Nat
      BY <1>2
    <3>2. T \in Nat \ {0}
      BY <1>2
    <3>3. 0 \in 0 .. T
      BY <3>2
    <3> QED BY ONLY <3>1, <3>2, <3>3, PiecesSum
  <2> QED BY <1>2, <2>1, SumsTo
<1> HIDE DEF D
<1>11. 0 \in G
  BY <1>3, <1>8, <1>10
<1>12. ASSUME NEW k \in G PROVE k + 1 \in G
  <2> SUFFICES ASSUME k + 1 <= Len(sections) PROVE SumTo(z, k + 1) = E(k + 1) + D(k + 1)
    OBVIOUS
  <2>1. /\ k + 1 \in 1 .. Len(sections) /\ (k + 1) - 1 = k /\ SumTo(z, k) = E(k) + D(k)
        /\ k \in 0 .. Len(sections) /\ k + 1 \in 0 .. Len(sections)
    BY <1>5
  <2>2. /\ E(k) \in Nat /\ D(k) \in Nat /\ D(k + 1) \in Nat
        /\ E(k + 1) = E(k) + (IF sections[k + 1].kind = "exact" THEN sections[k + 1].n ELSE 0)
        /\ SumTo(z, k + 1) = SumTo(z, k) + z[k + 1]
    BY <1>3, <1>8, <1>9, <2>1
  <2>3. CASE sections[k + 1].kind = "exact"
    <3>1. W(k + 1) = W(k) /\ z[k + 1] = sections[k + 1].n /\ sections[k + 1].n \in Nat
      BY <1>2, <1>6, <2>1, <2>3
    <3>2. D(k + 1) = D(k)
      BY <3>1 DEF D
    <3> QED BY <2>1, <2>2, <2>3, <3>1, <3>2
  <2>4. CASE sections[k + 1].kind = "fill"
    <3>1. z[k + 1] + D(k) = D(k + 1) /\ z[k + 1] \in Nat
      BY <1>2, <1>6, <2>1, <2>4 DEF D
    <3> QED BY <2>1, <2>2, <2>4, <3>1
  <2> QED BY <1>2, <2>1, <2>3, <2>4
<1> HIDE DEF G
<1>13. G = Nat
  <2>1. G \subseteq Nat
    BY DEF G
  <2> QED BY <1>11, <1>12, <2>1, NatSetInduction
<1>14. SumTo(z, Len(sections)) = E(Len(sections)) + D(Len(sections))
  BY <1>5, <1>13 DEF G
<1>15. E(Len(sections)) \in Nat
  BY <1>3, <1>5
<1>16. SumTo(z, Len(sections)) = space
  BY ONLY <1>2, <1>4, <1>10, <1>14, <1>15
<1> QED BY ONLY <1>1, <1>7, <1>16

(* Sections that fill get what their weight is worth.                      *)
LEMMA FairSizes ==
  ASSUME NEW S, Sectional(S), NEW sections \in Seq(S), NEW space \in Nat, ~Aborts(sections, space)
  PROVE  SizesAreFair(sections, space)
<1> DEFINE W(k) == SumTo(Amounts("fill", sections), k)
<1>1. PICK T, R, q, r : /\ T = TotalWeight(sections) /\ R = Remaining(sections, space)
                        /\ q = EachOf(R, T) /\ r = RestOf(R, T)
  OBVIOUS
<1>2. /\ T \in Nat \ {0} /\ R \in Nat
      /\ \A k \in 0 .. Len(sections) : W(k) \in 0 .. T
      /\ \A i \in 1 .. Len(sections) :
           /\ sections[i].n \in Nat /\ Size(sections, space, i) \in Nat
           /\ sections[i].kind = "exact" => Size(sections, space, i) = sections[i].n
           /\ sections[i].kind = "fill" =>
                /\ W(i) = W(i - 1) + sections[i].n
                /\ Size(sections, space, i) + Dealt(R, T, W(i - 1)) = Dealt(R, T, W(i))
  BY <1>1, SizesAre
<1>3. \A k, l \in 0 .. Len(sections) : k <= l => W(k) <= W(l)
  BY AmountsType, SumsGrow
<1> HIDE DEF W
<1>4. q \in Nat /\ r \in Nat
  <2>1. R \in Nat /\ T \in Nat \ {0}
    BY <1>2
  <2>2. R % T \in 0 .. T - 1 /\ R \div T \in Nat
    BY ONLY <2>1
  <2> QED BY <1>1, <2>2 DEF EachOf, RestOf
<1>5. DOMAIN sections = 1 .. Len(sections) /\ Len(sections) \in Nat
  OBVIOUS
<1>6. ASSUME NEW i \in 1 .. Len(sections), sections[i].kind = "fill"
      PROVE  \E o \in Nat : /\ Size(sections, space, i) = sections[i].n * q + o
                            /\ o <= sections[i].n
                            /\ o < sections[i].n => W(i) > r
                            /\ W(i - 1) >= r => o = 0
  <2>1. i - 1 \in 0 .. Len(sections)
    BY <1>5
  <2>2. PICK m, n, s : m = W(i - 1) /\ n = sections[i].n /\ s = Size(sections, space, i)
    OBVIOUS
  <2>3. m \in Nat /\ n \in Nat /\ s \in Nat /\ W(i) = m + n
    BY <1>2, <1>6, <2>1, <2>2
  <2>4. s + Dealt(R, T, m) = Dealt(R, T, m + n)
    BY <1>2, <1>6, <2>2, <2>3
  <2>a. R \in Nat /\ T \in Nat \ {0}
    BY <1>2
  <2>5. PICK o : o = ExtraOf(R, T, m, n)
    OBVIOUS
  <2>6. /\ Dealt(R, T, m) \in Nat /\ o \in Nat
        /\ Dealt(R, T, m + n) = Dealt(R, T, m) + (n * q + o)
        /\ o <= n /\ (o < n => m + n > r) /\ (m >= r => o = 0)
    <3>0. m \in Nat /\ n \in Nat
      BY <2>3
    <3>1. /\ Dealt(R, T, m) \in Nat
          /\ LET x == ExtraOf(R, T, m, n)
             IN  /\ x \in Nat
                 /\ Dealt(R, T, m + n) = Dealt(R, T, m) + (n * EachOf(R, T) + x)
                 /\ x <= n
                 /\ x < n => m + n > RestOf(R, T)
                 /\ m >= RestOf(R, T) => x = 0
      BY ONLY <2>a, <3>0, DealtGrows
    <3> QED BY ONLY <1>1, <2>5, <3>1
  <2>7. n * q + o \in Nat
    BY ONLY <1>4, <2>3, <2>6
  <2>8. s = n * q + o
    <3>1. PICK d, x : d = Dealt(R, T, m) /\ x = n * q + o
      OBVIOUS
    <3> QED BY ONLY <2>3, <2>4, <2>5, <2>6, <2>7, <3>1
  <2> QED BY ONLY <2>2, <2>3, <2>6, <2>8
<1>7. ASSUME NEW i \in 1 .. Len(sections), NEW j \in 1 .. Len(sections), i < j,
             sections[i].kind = "fill", sections[j].kind = "fill"
      PROVE  LET a == Size(sections, space, i)
                 b == Size(sections, space, j)
                 n == sections[i].n
                 m == sections[j].n
             IN  a * m >= b * n /\ a * m <= (b + m) * n
  <2>1. PICK a, b, n, m : /\ a = Size(sections, space, i) /\ b = Size(sections, space, j)
                          /\ n = sections[i].n /\ m = sections[j].n
    OBVIOUS
  <2>2. PICK o \in Nat : a = n * q + o /\ o <= n /\ (o < n => W(i) > r)
    BY <1>6, <1>7, <2>1
  <2>3. PICK p \in Nat : b = m * q + p /\ p <= m /\ (W(j - 1) >= r => p = 0)
    BY <1>6, <1>7, <2>1
  <2>4. W(i) <= W(j - 1) /\ W(i) \in Nat /\ W(j - 1) \in Nat
    <3>1. i \in 0 .. Len(sections) /\ j - 1 \in 0 .. Len(sections) /\ i <= j - 1
      BY <1>5, <1>7
    <3> QED BY <1>2, <1>3, <3>1
  <2>5. o < n => p = 0
    BY <1>4, <2>2, <2>3, <2>4
  <2>6. n \in Nat /\ m \in Nat
    BY <1>2, <2>1
  <2>7. (n * q + o) * m >= (m * q + p) * n
    BY ONLY <1>4, <2>2, <2>3, <2>5, <2>6, o \in Nat, p \in Nat
  <2>8. (n * q + o) * m <= (m * q + p + m) * n
    BY ONLY <1>4, <2>2, <2>3, <2>6, o \in Nat, p \in Nat
  <2> QED BY ONLY <2>1, <2>2, <2>3, <2>7, <2>8
<1>8. ASSUME NEW i \in DOMAIN sections, NEW j \in DOMAIN sections
      PROVE  LET got == [k \in {i, j} |-> Size(sections, space, k)]
             IN  /\ sections[i].kind = "exact" => got[i] = sections[i].n
                 /\ sections[i].kind = "fill" /\ sections[j].kind = "fill" /\ i < j =>
                      /\ got[i] * sections[j].n >= got[j] * sections[i].n
                      /\ got[i] * sections[j].n <= (got[j] + sections[j].n) * sections[i].n
  <2>1. PICK got : got = [k \in {i, j} |-> Size(sections, space, k)]
    OBVIOUS
  <2>2. got[i] = Size(sections, space, i) /\ got[j] = Size(sections, space, j)
    BY <2>1
  <2> QED BY <1>2, <1>5, <1>7, <2>1, <2>2
<1> QED BY ONLY <1>8 DEF SizesAreFair

-----------------------------------------------------------------------------
(* Rectangles. *)

Rects == [x : Nat, y : Nat, width : Nat, height : Nat]
AreaOf(rects) == UNION {Cells(rects[i]) : i \in DOMAIN rects}
Apart(rects) == \A i, j \in DOMAIN rects : i # j => Cells(rects[i]) \cap Cells(rects[j]) = {}

LEMMA ConcatElements ==
  ASSUME NEW S, NEW s \in Seq(S), NEW t \in Seq(S)
  PROVE  /\ s \o t \in Seq(S) /\ Len(s \o t) = Len(s) + Len(t)
         /\ \A i \in 1 .. Len(s) : (s \o t)[i] = s[i]
         /\ \A i \in 1 .. Len(t) : (s \o t)[Len(s) + i] = t[i]
         /\ \A i \in Len(s) + 1 .. Len(s) + Len(t) : (s \o t)[i] = t[i - Len(s)]
OBVIOUS

LEMMA ConcatTiles ==
  ASSUME NEW s \in Seq(Rects), NEW t \in Seq(Rects)
  PROVE  /\ AreaOf(s \o t) = AreaOf(s) \cup AreaOf(t)
         /\ Apart(s \o t) <=> Apart(s) /\ Apart(t) /\ AreaOf(s) \cap AreaOf(t) = {}
<1>1. PICK u, m, n : u = s \o t /\ m = Len(s) /\ n = Len(t)
  OBVIOUS
<1>2. DOMAIN s = 1 .. m /\ DOMAIN t = 1 .. n /\ m \in Nat /\ n \in Nat
  BY <1>1
<1>3. /\ u \in Seq(Rects) /\ Len(u) = m + n
      /\ \A i \in 1 .. m : u[i] = s[i]
      /\ \A i \in 1 .. n : u[m + i] = t[i]
      /\ \A i \in m + 1 .. m + n : u[i] = t[i - m]
  BY ONLY <1>1, ConcatElements, s \in Seq(Rects), t \in Seq(Rects)
<1>4. DOMAIN u = 1 .. m + n
  BY <1>3
<1>5. \A i \in 1 .. m : i \in 1 .. m + n
  BY <1>2
<1>6. \A i \in 1 .. n : m + i \in 1 .. m + n
  BY <1>2
<1>7. \A i \in 1 .. m + n : i \in 1 .. m \/ (i - m \in 1 .. n /\ u[i] = t[i - m] /\ i = m + (i - m))
  BY <1>2, <1>3
<1>8. AreaOf(u) = AreaOf(s) \cup AreaOf(t)
  <2>1. ASSUME NEW c \in AreaOf(u) PROVE c \in AreaOf(s) \cup AreaOf(t)
    <3>1. PICK i \in 1 .. m + n : c \in Cells(u[i])
      BY <1>4 DEF AreaOf
    <3>2. CASE i \in 1 .. m
      BY <1>2, <1>3, <3>1, <3>2 DEF AreaOf
    <3>3. CASE i - m \in 1 .. n /\ u[i] = t[i - m]
      BY <1>2, <3>1, <3>3 DEF AreaOf
    <3> QED BY <1>7, <3>2, <3>3
  <2>2. ASSUME NEW c \in AreaOf(s) PROVE c \in AreaOf(u)
    <3>1. PICK i \in 1 .. m : c \in Cells(s[i])
      BY <1>2 DEF AreaOf
    <3> QED BY <1>3, <1>4, <1>5, <3>1 DEF AreaOf
  <2>3. ASSUME NEW c \in AreaOf(t) PROVE c \in AreaOf(u)
    <3>1. PICK i \in 1 .. n : c \in Cells(t[i])
      BY <1>2 DEF AreaOf
    <3> QED BY <1>3, <1>4, <1>6, <3>1 DEF AreaOf
  <2> QED BY <2>1, <2>2, <2>3
<1>9. ASSUME Apart(u) PROVE Apart(s) /\ Apart(t) /\ AreaOf(s) \cap AreaOf(t) = {}
  <2>1. \A i, j \in 1 .. m + n : i # j => Cells(u[i]) \cap Cells(u[j]) = {}
    BY <1>4, <1>9 DEF Apart
  <2>2. ASSUME NEW i \in 1 .. m, NEW j \in 1 .. m, i # j PROVE Cells(s[i]) \cap Cells(s[j]) = {}
    BY <1>3, <1>5, <2>1, <2>2
  <2>3. ASSUME NEW i \in 1 .. n, NEW j \in 1 .. n, i # j PROVE Cells(t[i]) \cap Cells(t[j]) = {}
    <3>1. m + i \in 1 .. m + n /\ m + j \in 1 .. m + n /\ m + i # m + j
      BY <1>2, <1>6, <2>3
    <3> QED BY <1>3, <2>1, <3>1
  <2>4. ASSUME NEW i \in 1 .. m, NEW j \in 1 .. n PROVE Cells(s[i]) \cap Cells(t[j]) = {}
    <3>1. i \in 1 .. m + n /\ m + j \in 1 .. m + n /\ i # m + j
      BY <1>2, <1>5, <1>6
    <3> QED BY <1>3, <2>1, <3>1
  <2> QED BY <1>2, <2>2, <2>3, <2>4 DEF Apart, AreaOf
<1>10. ASSUME Apart(s), Apart(t), AreaOf(s) \cap AreaOf(t) = {} PROVE Apart(u)
  <2>1. \A i, j \in 1 .. m : i # j => Cells(s[i]) \cap Cells(s[j]) = {}
    BY <1>2, <1>10 DEF Apart
  <2>2. \A i, j \in 1 .. n : i # j => Cells(t[i]) \cap Cells(t[j]) = {}
    BY <1>2, <1>10 DEF Apart
  <2>3. \A i \in 1 .. m, j \in 1 .. n : Cells(s[i]) \cap Cells(t[j]) = {}
    BY <1>2, <1>10 DEF AreaOf
  <2>4. ASSUME NEW i \in 1 .. m + n, NEW j \in 1 .. m + n, i # j PROVE Cells(u[i]) \cap Cells(u[j]) = {}
    <3>1. CASE i \in 1 .. m /\ j \in 1 .. m
      BY <1>3, <2>1, <2>4, <3>1
    <3>2. CASE i \in 1 .. m /\ j - m \in 1 .. n /\ u[j] = t[j - m]
      BY <1>3, <2>3, <3>2
    <3>3. CASE j \in 1 .. m /\ i - m \in 1 .. n /\ u[i] = t[i - m]
      BY <1>3, <2>3, <3>3
    <3>4. CASE i - m \in 1 .. n /\ j - m \in 1 .. n /\ u[i] = t[i - m] /\ u[j] = t[j - m]
      <4>1. i - m # j - m
        BY <1>2, <2>4
      <4> QED BY <2>2, <3>4, <4>1
    <3> QED BY <1>7, <3>1, <3>2, <3>3, <3>4
  <2> QED BY <1>4, <2>4 DEF Apart
<1> QED BY <1>1, <1>8, <1>9, <1>10

(* The parts that a sequence of sizes cuts a line into.                    *)
LEMMA Intervals ==
  ASSUME NEW z \in Seq(Nat)
  PROVE  /\ \A c \in 0 .. SumTo(z, Len(z)) - 1 :
              \E i \in 1 .. Len(z) : c \in SumTo(z, i - 1) .. SumTo(z, i - 1) + z[i] - 1
         /\ \A i \in 1 .. Len(z) : SumTo(z, i - 1) + z[i] <= SumTo(z, Len(z))
         /\ \A i, j \in 1 .. Len(z) : i < j => SumTo(z, i - 1) + z[i] <= SumTo(z, j - 1)
<1> DEFINE B(k) == SumTo(z, k)
<1>1. /\ B(0) = 0
      /\ \A k \in 0 .. Len(z) : B(k) \in Nat
      /\ \A k \in 1 .. Len(z) : B(k) = B(k - 1) + z[k]
      /\ \A k, l \in 0 .. Len(z) : k <= l => B(k) <= B(l)
      /\ \A k \in 1 .. Len(z) : z[k] \in Nat
  BY SumsTo, SumsGrow
<1>2. Len(z) \in Nat
  OBVIOUS
<1> HIDE DEF B
<1> DEFINE T == {k \in Nat : k <= Len(z) =>
                   \A c \in 0 .. B(k) - 1 : \E i \in 1 .. Len(z) : c \in B(i - 1) .. B(i - 1) + z[i] - 1}
<1>3. 0 \in T
  BY <1>1
<1>4. ASSUME NEW k \in T PROVE k + 1 \in T
  <2> SUFFICES ASSUME k + 1 <= Len(z), NEW c \in 0 .. B(k + 1) - 1
               PROVE  \E i \in 1 .. Len(z) : c \in B(i - 1) .. B(i - 1) + z[i] - 1
    OBVIOUS
  <2>1. k + 1 \in 1 .. Len(z) /\ (k + 1) - 1 = k /\ k \in 0 .. Len(z) /\ k \in Nat
    OBVIOUS
  <2>2. B(k + 1) = B(k) + z[k + 1] /\ B(k) \in Nat /\ z[k + 1] \in Nat
    BY <1>1, <2>1
  <2>3. CASE c < B(k)
    <3>1. c \in 0 .. B(k) - 1
      BY <2>2, <2>3
    <3> QED BY <2>1, <3>1
  <2>4. CASE c >= B(k)
    <3>1. c \in B(k) .. B(k) + z[k + 1] - 1
      BY <2>2, <2>4
    <3> QED BY <2>1, <3>1
  <2>5. c \in Int
    OBVIOUS
  <2> QED BY <2>2, <2>3, <2>4, <2>5
<1> HIDE DEF T
<1>5. T = Nat
  <2>1. T \subseteq Nat
    BY DEF T
  <2> QED BY <1>3, <1>4, <2>1, NatSetInduction
<1>6. \A c \in 0 .. B(Len(z)) - 1 : \E i \in 1 .. Len(z) : c \in B(i - 1) .. B(i - 1) + z[i] - 1
  BY <1>2, <1>5 DEF T
<1>7. ASSUME NEW i \in 1 .. Len(z) PROVE B(i - 1) + z[i] <= B(Len(z))
  <2>1. i \in 0 .. Len(z) /\ Len(z) \in 0 .. Len(z) /\ i <= Len(z)
    BY <1>2
  <2> QED BY <1>1, <2>1
<1>8. ASSUME NEW i \in 1 .. Len(z), NEW j \in 1 .. Len(z), i < j PROVE B(i - 1) + z[i] <= B(j - 1)
  <2>1. i \in 0 .. Len(z) /\ j - 1 \in 0 .. Len(z) /\ i <= j - 1
    BY <1>2, <1>8
  <2> QED BY <1>1, <2>1
<1> QED BY <1>6, <1>7, <1>8 DEF B

LEMMA InProduct ==
  ASSUME NEW A, NEW C, NEW c \in A \X C
  PROVE  \E a \in A, b \in C : c = <<a, b>>
OBVIOUS

LEMMA Shifted ==
  ASSUME NEW y \in Nat, NEW p \in Nat, NEW s \in Nat, NEW e \in Nat, p + s <= e
  PROVE  /\ \A b \in Int : b - y \in p .. p + s - 1 => b \in y + p .. y + p + s - 1
         /\ \A b \in y + p .. y + p + s - 1 : b \in y .. y + e - 1
OBVIOUS

LEMMA ShiftedApart ==
  ASSUME NEW y \in Nat, NEW p \in Nat, NEW s \in Nat, NEW q \in Nat, NEW r \in Nat, p + s <= q
  PROVE  (y + p .. y + p + s - 1) \cap (y + q .. y + q + r - 1) = {}
<1>1. ASSUME NEW b \in y + p .. y + p + s - 1, b \in y + q .. y + q + r - 1 PROVE FALSE
  BY <1>1
<1> QED BY <1>1

RectsOf(todo) == [i \in DOMAIN todo |-> todo[i].rect]

(* A rectangle cut along one direction into parts of these sizes.          *)
LEMMA PartsTile ==
  ASSUME NEW direction, NEW area \in Rects, NEW z \in Seq(Nat),
         SumTo(z, Len(z)) = Extent(direction, area), NEW rects \in Seq(Rects), Len(rects) = Len(z),
         \A i \in 1 .. Len(z) :
           rects[i] = Part(direction, area, Start(direction, area) + SumTo(z, i - 1), z[i])
  PROVE  AreaOf(rects) = Cells(area) /\ Apart(rects)
<1> DEFINE B(k) == SumTo(z, k)
<1>1. PICK x, y, w, h, n : /\ x = area.x /\ y = area.y /\ w = area.width /\ h = area.height
                           /\ n = Len(z)
  OBVIOUS
<1>a. x \in Nat /\ y \in Nat /\ w \in Nat /\ h \in Nat
  BY <1>1 DEF Rects
<1>2. x \in Nat /\ y \in Nat /\ w \in Nat /\ h \in Nat /\ n \in Nat /\ DOMAIN rects = 1 .. n
      /\ area = [x |-> x, y |-> y, width |-> w, height |-> h]
  BY <1>1 DEF Rects
<1>3. /\ \A k \in 1 .. n : B(k - 1) \in Nat /\ z[k] \in Nat
      /\ \A c \in 0 .. B(n) - 1 : \E i \in 1 .. n : c \in B(i - 1) .. B(i - 1) + z[i] - 1
      /\ \A i \in 1 .. n : B(i - 1) + z[i] <= B(n)
      /\ \A i, j \in 1 .. n : i < j => B(i - 1) + z[i] <= B(j - 1)
  <2>1. \A k \in 1 .. n : k - 1 \in 0 .. n /\ z[k] \in Nat
    BY <1>1, <1>2
  <2>2. \A k \in 0 .. n : B(k) \in Nat
    BY <1>1, SumsTo
  <2> QED BY <1>1, <2>1, <2>2, Intervals
<1> HIDE DEF B
<1>4. CASE direction = "vertical"
  <2>1. B(n) = h /\ B(n) \in Nat
    BY <1>1, <1>2, <1>4 DEF Extent, B
  <2>2. ASSUME NEW i \in 1 .. n
        PROVE  Cells(rects[i]) = (x .. x + w - 1) \X (y + B(i - 1) .. y + B(i - 1) + z[i] - 1)
    <3>1. rects[i] = [area EXCEPT !.y = y + B(i - 1), !.height = z[i]]
      BY <1>1, <1>4 DEF Part, Start, B
    <3>2. rects[i] = [x |-> x, y |-> y + B(i - 1), width |-> w, height |-> z[i]]
      BY ONLY <1>2, <3>1
    <3> QED BY ONLY <3>2 DEF Cells
  <2>3. Cells(area) = (x .. x + w - 1) \X (y .. y + h - 1)
    BY ONLY <1>2 DEF Cells
  <2>4. ASSUME NEW c \in Cells(area) PROVE c \in AreaOf(rects)
    <3>1. PICK a \in x .. x + w - 1, b \in y .. y + h - 1 : c = <<a, b>>
      BY <2>3, <2>4
    <3>2. b - y \in 0 .. B(n) - 1
      BY <1>2, <2>1
    <3>3. PICK i \in 1 .. n : b - y \in B(i - 1) .. B(i - 1) + z[i] - 1
      BY <1>3, <3>2
    <3>4. b \in y + B(i - 1) .. y + B(i - 1) + z[i] - 1
      <4>0. PICK p, s : p = B(i - 1) /\ s = z[i]
        OBVIOUS
      <4>1. p \in Nat /\ s \in Nat
        BY <1>3, <4>0
      <4>2. b - y \in p .. p + s - 1
        BY <3>3, <4>0
      <4>3. b \in Int
        BY <1>a
      <4>4. b \in y + p .. y + p + s - 1
        BY ONLY <1>a, <4>1, <4>2, <4>3
      <4> QED BY <4>0, <4>4
    <3>5. c \in Cells(rects[i])
      BY <2>2, <3>1, <3>4
    <3> QED BY <1>2, <3>5 DEF AreaOf
  <2>5. ASSUME NEW c \in AreaOf(rects) PROVE c \in Cells(area)
    <3>1. PICK i \in 1 .. n : c \in Cells(rects[i])
      BY <1>2, <2>5 DEF AreaOf
    <3>2. PICK a \in x .. x + w - 1, b \in y + B(i - 1) .. y + B(i - 1) + z[i] - 1 : c = <<a, b>>
      <4>1. i \in 1 .. n
        OBVIOUS
      <4>2. c \in Cells(rects[i])
        BY <3>1
      <4>3. PICK A, C : A = x .. x + w - 1 /\ C = y + B(i - 1) .. y + B(i - 1) + z[i] - 1
        OBVIOUS
      <4>4. c \in A \X C
        BY ONLY <2>2, <4>1, <4>2, <4>3
      <4>5. PICK a \in A, b \in C : c = <<a, b>>
        BY ONLY <4>4, InProduct
      <4>6. a \in x .. x + w - 1 /\ b \in y + B(i - 1) .. y + B(i - 1) + z[i] - 1
        BY ONLY <4>3, a \in A, b \in C
      <4> QED BY ONLY <4>5, <4>6, Zenon
    <3>3. b \in y .. y + h - 1
      <4>0. PICK p, s : p = B(i - 1) /\ s = z[i]
        OBVIOUS
      <4>1. p \in Nat /\ s \in Nat /\ p + s <= h
        BY <1>3, <2>1, <4>0
      <4>2. b \in y + p .. y + p + s - 1
        BY <4>0
      <4> QED BY ONLY <1>a, <4>1, <4>2
    <3> QED BY <2>3, <3>2, <3>3
  <2>6. ASSUME NEW i \in 1 .. n, NEW j \in 1 .. n, i < j
        PROVE  Cells(rects[i]) \cap Cells(rects[j]) = {}
    <3>1. /\ B(i - 1) \in Nat /\ z[i] \in Nat /\ B(j - 1) \in Nat /\ z[j] \in Nat
          /\ B(i - 1) + z[i] <= B(j - 1)
      BY <1>3, <2>6
    <3>2. (y + B(i - 1) .. y + B(i - 1) + z[i] - 1) \cap (y + B(j - 1) .. y + B(j - 1) + z[j] - 1) = {}
      BY ONLY <1>2, <3>1, ShiftedApart
    <3> QED BY <2>2, <3>2
  <2>7. ASSUME NEW i \in 1 .. n, NEW j \in 1 .. n, i # j
        PROVE  Cells(rects[i]) \cap Cells(rects[j]) = {}
    <3>1. i < j \/ j < i
      BY <2>7
    <3> QED BY <2>6, <3>1
  <2> QED BY <1>2, <2>4, <2>5, <2>7 DEF Apart
<1>5. CASE direction # "vertical"
  <2>1. B(n) = w /\ B(n) \in Nat
    BY <1>1, <1>2, <1>5 DEF Extent, B
  <2>2. ASSUME NEW i \in 1 .. n
        PROVE  Cells(rects[i]) = (x + B(i - 1) .. x + B(i - 1) + z[i] - 1) \X (y .. y + h - 1)
    <3>1. rects[i] = [area EXCEPT !.x = x + B(i - 1), !.width = z[i]]
      BY <1>1, <1>5 DEF Part, Start, B
    <3>2. rects[i] = [x |-> x + B(i - 1), y |-> y, width |-> z[i], height |-> h]
      BY ONLY <1>2, <3>1
    <3> QED BY ONLY <3>2 DEF Cells
  <2>3. Cells(area) = (x .. x + w - 1) \X (y .. y + h - 1)
    BY ONLY <1>2 DEF Cells
  <2>4. ASSUME NEW c \in Cells(area) PROVE c \in AreaOf(rects)
    <3>1. PICK a \in x .. x + w - 1, b \in y .. y + h - 1 : c = <<a, b>>
      BY <2>3, <2>4
    <3>2. a - x \in 0 .. B(n) - 1
      BY <1>2, <2>1
    <3>3. PICK i \in 1 .. n : a - x \in B(i - 1) .. B(i - 1) + z[i] - 1
      BY <1>3, <3>2
    <3>4. a \in x + B(i - 1) .. x + B(i - 1) + z[i] - 1
      <4>0. PICK p, s : p = B(i - 1) /\ s = z[i]
        OBVIOUS
      <4>1. p \in Nat /\ s \in Nat
        BY <1>3, <4>0
      <4>2. a - x \in p .. p + s - 1
        BY <3>3, <4>0
      <4>3. a \in Int
        BY <1>a
      <4>4. a \in x + p .. x + p + s - 1
        BY ONLY <1>a, <4>1, <4>2, <4>3
      <4> QED BY <4>0, <4>4
    <3>5. c \in Cells(rects[i])
      BY <2>2, <3>1, <3>4
    <3> QED BY <1>2, <3>5 DEF AreaOf
  <2>5. ASSUME NEW c \in AreaOf(rects) PROVE c \in Cells(area)
    <3>1. PICK i \in 1 .. n : c \in Cells(rects[i])
      BY <1>2, <2>5 DEF AreaOf
    <3>2. PICK a \in x + B(i - 1) .. x + B(i - 1) + z[i] - 1, b \in y .. y + h - 1 : c = <<a, b>>
      <4>1. i \in 1 .. n
        OBVIOUS
      <4>2. c \in Cells(rects[i])
        BY <3>1
      <4>3. PICK A, C : A = x + B(i - 1) .. x + B(i - 1) + z[i] - 1 /\ C = y .. y + h - 1
        OBVIOUS
      <4>4. c \in A \X C
        BY ONLY <2>2, <4>1, <4>2, <4>3
      <4>5. PICK a \in A, b \in C : c = <<a, b>>
        BY ONLY <4>4, InProduct
      <4>6. a \in x + B(i - 1) .. x + B(i - 1) + z[i] - 1 /\ b \in y .. y + h - 1
        BY ONLY <4>3, a \in A, b \in C
      <4> QED BY ONLY <4>5, <4>6, Zenon
    <3>3. a \in x .. x + w - 1
      <4>0. PICK p, s : p = B(i - 1) /\ s = z[i]
        OBVIOUS
      <4>1. p \in Nat /\ s \in Nat /\ p + s <= w
        BY <1>3, <2>1, <4>0
      <4>2. a \in x + p .. x + p + s - 1
        BY <4>0
      <4> QED BY ONLY <1>a, <4>1, <4>2
    <3> QED BY <2>3, <3>2, <3>3
  <2>6. ASSUME NEW i \in 1 .. n, NEW j \in 1 .. n, i < j
        PROVE  Cells(rects[i]) \cap Cells(rects[j]) = {}
    <3>1. /\ B(i - 1) \in Nat /\ z[i] \in Nat /\ B(j - 1) \in Nat /\ z[j] \in Nat
          /\ B(i - 1) + z[i] <= B(j - 1)
      BY <1>3, <2>6
    <3>2. (x + B(i - 1) .. x + B(i - 1) + z[i] - 1) \cap (x + B(j - 1) .. x + B(j - 1) + z[j] - 1) = {}
      BY ONLY <1>2, <3>1, ShiftedApart
    <3> QED BY <2>2, <3>2
  <2>7. ASSUME NEW i \in 1 .. n, NEW j \in 1 .. n, i # j
        PROVE  Cells(rects[i]) \cap Cells(rects[j]) = {}
    <3>1. i < j \/ j < i
      BY <2>7
    <3> QED BY <2>6, <3>1
  <2> QED BY <1>2, <2>4, <2>5, <2>7 DEF Apart
<1> QED BY <1>4, <1>5

-----------------------------------------------------------------------------
(* What is still to be placed. *)

Todos(S) == [section : S, rect : Rects]
PlacesOf(todo) == [i \in DOMAIN todo |-> todo[i].section.places]
Load(todo) == TotalOf(PlacesOf(todo))

LEMMA TodoParts ==
  ASSUME NEW S, Sectional(S), NEW todo \in Seq(Todos(S))
  PROVE  /\ RectsOf(todo) \in Seq(Rects) /\ Len(RectsOf(todo)) = Len(todo)
         /\ \A i \in 1 .. Len(todo) : RectsOf(todo)[i] = todo[i].rect
         /\ PlacesOf(todo) \in Seq(Nat) /\ Len(PlacesOf(todo)) = Len(todo)
         /\ \A i \in 1 .. Len(todo) : PlacesOf(todo)[i] = todo[i].section.places
<1>1. PICK n : n = Len(todo)
  OBVIOUS
<1>2. n \in Nat /\ DOMAIN todo = 1 .. n
  BY <1>1
<1>3. \A i \in 1 .. n : todo[i] \in Todos(S)
  BY <1>1
<1>4. \A i \in 1 .. n : todo[i].rect \in Rects /\ todo[i].section \in S
  BY <1>3 DEF Todos
<1>5. \A i \in 1 .. n : todo[i].section.places \in Nat
  BY <1>4 DEF Sectional
<1>6. PICK r, p : r = RectsOf(todo) /\ p = PlacesOf(todo)
  OBVIOUS
<1>7. r \in [1 .. n -> Rects] /\ \A i \in 1 .. n : r[i] = todo[i].rect
  BY <1>2, <1>4, <1>6 DEF RectsOf
<1>8. p \in [1 .. n -> Nat] /\ \A i \in 1 .. n : p[i] = todo[i].section.places
  BY <1>2, <1>5, <1>6 DEF PlacesOf
<1>9. r \in Seq(Rects) /\ Len(r) = n
  BY ONLY <1>2, <1>7, FunctionIsSeq
<1>10. p \in Seq(Nat) /\ Len(p) = n
  BY ONLY <1>2, <1>8, FunctionIsSeq
<1> QED BY ONLY <1>1, <1>6, <1>7, <1>8, <1>9, <1>10

LEMMA TodoConcat ==
  ASSUME NEW S, Sectional(S), NEW s \in Seq(Todos(S)), NEW t \in Seq(Todos(S))
  PROVE  /\ RectsOf(s \o t) = RectsOf(s) \o RectsOf(t)
         /\ PlacesOf(s \o t) = PlacesOf(s) \o PlacesOf(t)
<1>1. PICK u, m, n : u = s \o t /\ m = Len(s) /\ n = Len(t)
  OBVIOUS
<1>2. m \in Nat /\ n \in Nat
  BY <1>1
<1>3. /\ u \in Seq(Todos(S)) /\ Len(u) = m + n
      /\ \A i \in 1 .. m : u[i] = s[i]
      /\ \A i \in m + 1 .. m + n : u[i] = t[i - m]
  BY ONLY <1>1, ConcatElements, s \in Seq(Todos(S)), t \in Seq(Todos(S))
<1>4. /\ RectsOf(s) \in Seq(Rects) /\ Len(RectsOf(s)) = m
      /\ \A i \in 1 .. m : RectsOf(s)[i] = s[i].rect
      /\ PlacesOf(s) \in Seq(Nat) /\ Len(PlacesOf(s)) = m
      /\ \A i \in 1 .. m : PlacesOf(s)[i] = s[i].section.places
  BY ONLY <1>1, TodoParts, Sectional(S), s \in Seq(Todos(S))
<1>5. /\ RectsOf(t) \in Seq(Rects) /\ Len(RectsOf(t)) = n
      /\ \A i \in 1 .. n : RectsOf(t)[i] = t[i].rect
      /\ PlacesOf(t) \in Seq(Nat) /\ Len(PlacesOf(t)) = n
      /\ \A i \in 1 .. n : PlacesOf(t)[i] = t[i].section.places
  BY ONLY <1>1, TodoParts, Sectional(S), t \in Seq(Todos(S))
<1>6. /\ RectsOf(u) \in Seq(Rects) /\ Len(RectsOf(u)) = m + n
      /\ \A i \in 1 .. m + n : RectsOf(u)[i] = u[i].rect
      /\ PlacesOf(u) \in Seq(Nat) /\ Len(PlacesOf(u)) = m + n
      /\ \A i \in 1 .. m + n : PlacesOf(u)[i] = u[i].section.places
  BY ONLY <1>3, TodoParts, Sectional(S)
<1>7. PICK rs, rt, ru, ps, pt, pu :
        /\ rs = RectsOf(s) /\ rt = RectsOf(t) /\ ru = RectsOf(u)
        /\ ps = PlacesOf(s) /\ pt = PlacesOf(t) /\ pu = PlacesOf(u)
  OBVIOUS
<1>a. rs \in Seq(Rects) /\ rt \in Seq(Rects) /\ Len(rs) = m /\ Len(rt) = n
  BY ONLY <1>4, <1>5, <1>7
<1>8. /\ rs \o rt \in Seq(Rects) /\ Len(rs \o rt) = m + n
      /\ \A i \in 1 .. m : (rs \o rt)[i] = rs[i]
      /\ \A i \in m + 1 .. m + n : (rs \o rt)[i] = rt[i - m]
  BY ONLY <1>a, ConcatElements
<1>9. /\ ps \o pt \in Seq(Nat) /\ Len(ps \o pt) = m + n
      /\ \A i \in 1 .. m : (ps \o pt)[i] = ps[i]
      /\ \A i \in m + 1 .. m + n : (ps \o pt)[i] = pt[i - m]
  BY ONLY <1>4, <1>5, <1>7, ConcatElements
<1>10. PICK rv, pv : rv = rs \o rt /\ pv = ps \o pt
  OBVIOUS
<1>11. ASSUME NEW i \in 1 .. m + n PROVE ru[i] = rv[i] /\ pu[i] = pv[i]
  <2>1. CASE i \in 1 .. m
    <3>1. i \in 1 .. m + n
      BY ONLY <1>2, <2>1
    <3>2. u[i] = s[i] /\ rv[i] = rs[i] /\ pv[i] = ps[i]
      BY ONLY <1>3, <1>8, <1>9, <1>10, <2>1
    <3>3. rs[i] = s[i].rect /\ ps[i] = s[i].section.places
      BY ONLY <1>4, <1>7, <2>1
    <3>4. ru[i] = u[i].rect /\ pu[i] = u[i].section.places
      BY ONLY <1>6, <1>7, <3>1
    <3> QED BY ONLY <3>2, <3>3, <3>4
  <2>2. CASE i \in m + 1 .. m + n
    <3>1. i - m \in 1 .. n
      BY <1>2, <2>2
    <3>2. u[i] = t[i - m]
      BY <1>3, <2>2
    <3>3. rv[i] = rt[i - m] /\ pv[i] = pt[i - m]
      BY <1>8, <1>9, <1>10, <2>2
    <3> QED BY <1>5, <1>6, <1>7, <3>1, <3>2, <3>3
  <2> QED BY <1>2, <2>1, <2>2
<1>12. ru \in Seq(Rects) /\ rv \in Seq(Rects) /\ Len(ru) = m + n /\ Len(rv) = m + n
       /\ pu \in Seq(Nat) /\ pv \in Seq(Nat) /\ Len(pu) = m + n /\ Len(pv) = m + n
  BY ONLY <1>6, <1>7, <1>8, <1>9, <1>10
<1>13. ru = rv
  BY ONLY <1>11, <1>12, SameElements
<1>14. pu = pv
  BY ONLY <1>11, <1>12, SameElements
<1> QED BY ONLY <1>1, <1>7, <1>10, <1>13, <1>14

LEMMA PartIsRect ==
  ASSUME NEW direction, NEW rect \in Rects, NEW pos \in Nat, NEW got \in Nat
  PROVE  Part(direction, rect, pos, got) \in Rects
BY DEF Part, Rects

(* A rectangle that is divided is tiled by the parts, each with the        *)
(* section it is for.                                                      *)
LEMMA DivideTiles ==
  ASSUME NEW S, Sectional(S), NEW sections \in Seq(S), NEW direction, NEW rect \in Rects,
         ~Aborts(sections, Extent(direction, rect))
  PROVE  LET parts == Divide(direction, sections, rect)
         IN  /\ parts \in Seq(Todos(S)) /\ Len(parts) = Len(sections)
             /\ \A i \in 1 .. Len(sections) : parts[i].section = sections[i]
             /\ AreaOf(RectsOf(parts)) = Cells(rect) /\ Apart(RectsOf(parts))
             /\ Load(parts) = Places(sections)
<1>1. PICK space, start, n, z, parts :
        /\ space = Extent(direction, rect) /\ start = Start(direction, rect)
        /\ n = Len(sections) /\ z = SizesOf(sections, space)
        /\ parts = Divide(direction, sections, rect)
  OBVIOUS
<1>2. space \in Nat /\ start \in Nat /\ n \in Nat /\ DOMAIN sections = 1 .. n
  BY <1>1 DEF Extent, Start, Rects
<1>3. z \in Seq(Nat) /\ Len(z) = n /\ SumTo(z, n) = space
  BY <1>1, <1>2, SizesSum
<1>4. \A i \in 1 .. n : start + SumTo(z, i - 1) \in Nat /\ z[i] \in Nat
  <2>1. \A k \in 0 .. n : SumTo(z, k) \in Nat
    BY <1>3, SumsTo
  <2>2. \A i \in 1 .. n : i - 1 \in 0 .. n /\ z[i] \in Nat
    BY <1>2, <1>3
  <2> QED BY <1>2, <2>1, <2>2
<1>5. parts = [i \in 1 .. n |->
                 [section |-> sections[i],
                  rect |-> Part(direction, rect, start + SumTo(z, i - 1), z[i])]]
  <2> DEFINE sizes == [i \in DOMAIN sections |-> Size(sections, Extent(direction, rect), i)]
             pos == [i \in DOMAIN sections |->
                       Start(direction, rect) + TotalOf(SubSeq(sizes, 1, i - 1))]
  <2>1. sizes = z
    BY <1>1 DEF SizesOf
  <2>2. parts = [i \in DOMAIN sections |->
                   [section |-> sections[i], rect |-> Part(direction, rect, pos[i], sizes[i])]]
    BY <1>1 DEF Divide
  <2>3. pos = [i \in 1 .. n |-> start + SumTo(z, i - 1)]
    BY <1>1, <1>2, <2>1 DEF SumTo
  <2> HIDE DEF sizes, pos
  <2>4. \A i \in 1 .. n : pos[i] = start + SumTo(z, i - 1)
    BY <2>3
  <2> QED BY <1>2, <2>1, <2>2, <2>4
<1>6. ASSUME NEW i \in 1 .. n
      PROVE  /\ parts[i] \in Todos(S) /\ parts[i].section = sections[i]
             /\ parts[i].rect = Part(direction, rect, start + SumTo(z, i - 1), z[i])
  <2>1. PICK r : r = Part(direction, rect, start + SumTo(z, i - 1), z[i])
    OBVIOUS
  <2>2. r \in Rects
    BY <1>4, <2>1, PartIsRect
  <2>3. sections[i] \in S
    BY <1>1
  <2>4. parts[i] = [section |-> sections[i], rect |-> r]
    BY <1>5, <2>1
  <2> QED BY ONLY <2>1, <2>2, <2>3, <2>4 DEF Todos
<1>7. parts \in [1 .. n -> Todos(S)]
  <2>1. DOMAIN parts = 1 .. n /\ parts = [i \in 1 .. n |-> parts[i]]
    BY <1>5
  <2> QED BY ONLY <1>6, <2>1
<1>8. parts \in Seq(Todos(S)) /\ Len(parts) = n
  BY ONLY <1>2, <1>7, FunctionIsSeq
<1>9. PICK rects : rects = RectsOf(parts)
  OBVIOUS
<1>10. rects \in Seq(Rects) /\ Len(rects) = n /\ \A i \in 1 .. n : rects[i] = parts[i].rect
  BY ONLY <1>8, <1>9, TodoParts, Sectional(S)
<1>11. \A i \in 1 .. Len(z) : rects[i] = Part(direction, rect, Start(direction, rect) + SumTo(z, i - 1), z[i])
  BY ONLY <1>1, <1>3, <1>6, <1>10
<1>12. SumTo(z, Len(z)) = Extent(direction, rect) /\ Len(rects) = Len(z)
  BY ONLY <1>1, <1>3, <1>10
<1>13. AreaOf(rects) = Cells(rect) /\ Apart(rects)
  BY ONLY <1>3, <1>10, <1>11, <1>12, PartsTile, rect \in Rects
<1>14. Load(parts) = Places(sections)
  <2>1. DOMAIN parts = 1 .. n
    BY <1>5
  <2>2. PlacesOf(parts) = [i \in DOMAIN sections |-> sections[i].places]
    BY ONLY <1>2, <1>6, <2>1 DEF PlacesOf
  <2> QED BY <2>2 DEF Load, Places
<1> QED BY ONLY <1>1, <1>6, <1>8, <1>9, <1>13, <1>14

LEMMA HeadAndTail ==
  ASSUME NEW S, NEW s \in Seq(S), s # <<>>
  PROVE  /\ Head(s) \in S /\ Tail(s) \in Seq(S) /\ <<Head(s)>> \in Seq(S)
         /\ s = <<Head(s)>> \o Tail(s) /\ Len(<<Head(s)>>) = 1 /\ <<Head(s)>>[1] = Head(s)
         /\ Len(s) = Len(Tail(s)) + 1 /\ Len(Tail(s)) \in Nat
         /\ \A i \in 1 .. Len(Tail(s)) : Tail(s)[i] = s[i + 1]
OBVIOUS

LEMMA PlacesType ==
  ASSUME NEW S, Sectional(S), NEW sections \in Seq(S)
  PROVE  Places(sections) \in Nat
<1>1. PICK n, p : n = Len(sections) /\ p = [i \in DOMAIN sections |-> sections[i].places]
  OBVIOUS
<1>2. n \in Nat /\ DOMAIN sections = 1 .. n /\ \A i \in 1 .. n : sections[i] \in S
  BY <1>1
<1>3. p \in [1 .. n -> Nat]
  BY <1>1, <1>2 DEF Sectional
<1>4. p \in Seq(Nat)
  BY ONLY <1>2, <1>3, FunctionIsSeq
<1>5. TotalOf(p) \in Nat
  BY ONLY <1>4, TotalType
<1> QED BY <1>1, <1>5 DEF Places

LEMMA LoadConcat ==
  ASSUME NEW S, Sectional(S), NEW s \in Seq(Todos(S)), NEW t \in Seq(Todos(S))
  PROVE  Load(s \o t) = Load(s) + Load(t) /\ Load(s) \in Nat /\ Load(t) \in Nat
<1>1. PICK p, q : p = PlacesOf(s) /\ q = PlacesOf(t)
  OBVIOUS
<1>2. p \in Seq(Nat) /\ q \in Seq(Nat)
  BY <1>1, TodoParts
<1>3. PlacesOf(s \o t) = p \o q
  BY <1>1, TodoConcat
<1>4. TotalOf(p \o q) = TotalOf(p) + TotalOf(q) /\ TotalOf(p) \in Nat /\ TotalOf(q) \in Nat
  BY ONLY <1>2, TotalConcat, TotalType
<1> QED BY ONLY <1>1, <1>3, <1>4 DEF Load

(* The one that comes next counts for itself and what is in it.            *)
LEMMA LoadHead ==
  ASSUME NEW S, Sectional(S), NEW todo \in Seq(Todos(S)), todo # <<>>
  PROVE  /\ Head(todo) \in Todos(S) /\ Tail(todo) \in Seq(Todos(S))
         /\ Load(Tail(todo)) \in Nat
         /\ Load(todo) = (IF IsLeaf(Head(todo).section) THEN 1
                          ELSE 1 + Places(Head(todo).section.inner[1].sections)) + Load(Tail(todo))
         /\ ~IsLeaf(Head(todo).section) => Places(Head(todo).section.inner[1].sections) \in Nat
<1>1. PICK x, one, t : x = Head(todo) /\ one = <<x>> /\ t = Tail(todo)
  OBVIOUS
<1>2. x \in Todos(S) /\ t \in Seq(Todos(S)) /\ one \in Seq(Todos(S)) /\ todo = one \o t
      /\ Len(one) = 1 /\ one[1] = x
  BY ONLY <1>1, HeadAndTail, todo \in Seq(Todos(S)), todo # <<>>
<1>3. Load(todo) = Load(one) + Load(t) /\ Load(t) \in Nat
  BY ONLY <1>2, LoadConcat, Sectional(S)
<1>4. PlacesOf(one) = <<x.section.places>>
  <2>1. PICK p : p = PlacesOf(one)
    OBVIOUS
  <2>2. p \in Seq(Nat) /\ Len(p) = 1 /\ p[1] = x.section.places
    <3>1. 1 \in 1 .. Len(one)
      BY <1>2
    <3> QED BY ONLY <1>2, <2>1, <3>1, TodoParts, Sectional(S)
  <2>3. p = <<p[1]>>
    BY ONLY <2>2
  <2> QED BY <2>1, <2>2, <2>3
<1>5. x.section \in S
  BY <1>2 DEF Todos
<1>6. x.section.places \in Nat
      /\ x.section.places = (IF IsLeaf(x.section) THEN 1 ELSE 1 + Places(x.section.inner[1].sections))
      /\ (~IsLeaf(x.section) => x.section.inner[1].sections \in Seq(S))
  BY <1>5 DEF Sectional
<1>7. TotalOf(<<x.section.places>>) = x.section.places
  <2>1. PICK c : c = x.section.places
    OBVIOUS
  <2>2. c \in Nat
    BY <1>6, <2>1
  <2>3. <<>> \in Seq(Nat) /\ Append(<<>>, c) = <<c>>
    BY <2>2
  <2>4. TotalOf(<<c>>) = TotalOf(<<>>) + c
    BY ONLY <2>2, <2>3, TotalAppend
  <2> QED BY ONLY <2>1, <2>2, <2>4, TotalEmpty
<1>8. ~IsLeaf(x.section) => Places(x.section.inner[1].sections) \in Nat
  BY <1>6, PlacesType
<1>9. Load(one) = x.section.places
  BY <1>4, <1>7 DEF Load
<1> QED BY ONLY <1>1, <1>2, <1>3, <1>6, <1>8, <1>9

(* What was placed and what is still to be placed tiles the area.          *)
Placed(S, area) ==
  {d \in [fate : {"ok"}, rects : Seq(Rects), todo : Seq(Todos(S))] :
     /\ AreaOf(d.rects) \cup AreaOf(RectsOf(d.todo)) = Cells(area)
     /\ Apart(d.rects) /\ Apart(RectsOf(d.todo))
     /\ AreaOf(d.rects) \cap AreaOf(RectsOf(d.todo)) = {}}

LEMMA PlacedIs ==
  ASSUME NEW S, NEW area, NEW r \in Seq(Rects), NEW t \in Seq(Todos(S)),
         AreaOf(r) \cup AreaOf(RectsOf(t)) = Cells(area),
         Apart(r), Apart(RectsOf(t)), AreaOf(r) \cap AreaOf(RectsOf(t)) = {}
  PROVE  [fate |-> "ok", rects |-> r, todo |-> t] \in Placed(S, area)
BY DEF Placed

LEMMA OneRect ==
  ASSUME NEW r \in Rects
  PROVE  <<r>> \in Seq(Rects) /\ AreaOf(<<r>>) = Cells(r) /\ Apart(<<r>>)
<1>1. PICK s : s = <<r>>
  OBVIOUS
<1>2. s \in Seq(Rects) /\ DOMAIN s = {1} /\ s[1] = r
  BY <1>1
<1> QED BY ONLY <1>1, <1>2 DEF AreaOf, Apart

LEMMA RectsOfHead ==
  ASSUME NEW S, Sectional(S), NEW todo \in Seq(Todos(S)), todo # <<>>
  PROVE  LET x == Head(todo).rect
             t == RectsOf(Tail(todo))
         IN  /\ x \in Rects /\ t \in Seq(Rects)
             /\ AreaOf(RectsOf(todo)) = Cells(x) \cup AreaOf(t)
             /\ Apart(RectsOf(todo)) <=> Apart(t) /\ Cells(x) \cap AreaOf(t) = {}
<1>1. PICK x, one, t : x = Head(todo) /\ one = <<x>> /\ t = Tail(todo)
  OBVIOUS
<1>2. x \in Todos(S) /\ t \in Seq(Todos(S)) /\ one \in Seq(Todos(S)) /\ todo = one \o t
      /\ Len(one) = 1 /\ one[1] = x
  BY ONLY <1>1, HeadAndTail, todo \in Seq(Todos(S)), todo # <<>>
<1>3. RectsOf(todo) = RectsOf(one) \o RectsOf(t) /\ RectsOf(t) \in Seq(Rects) /\ RectsOf(one) \in Seq(Rects)
  BY ONLY <1>2, TodoConcat, TodoParts, Sectional(S)
<1>4. RectsOf(one) = <<x.rect>>
  <2>1. PICK p : p = RectsOf(one)
    OBVIOUS
  <2>2. p \in Seq(Rects) /\ Len(p) = 1 /\ p[1] = x.rect
    <3>1. 1 \in 1 .. Len(one)
      BY <1>2
    <3> QED BY ONLY <1>2, <2>1, <3>1, TodoParts, Sectional(S)
  <2>3. p = <<p[1]>>
    BY ONLY <2>2
  <2> QED BY <2>1, <2>2, <2>3
<1>5. x.rect \in Rects
  BY <1>2 DEF Todos
<1>6. AreaOf(RectsOf(one)) = Cells(x.rect) /\ Apart(RectsOf(one))
  BY <1>4, <1>5, OneRect
<1>7. PICK a, b : a = RectsOf(one) /\ b = RectsOf(t)
  OBVIOUS
<1>8. AreaOf(a \o b) = AreaOf(a) \cup AreaOf(b)
      /\ (Apart(a \o b) <=> Apart(a) /\ Apart(b) /\ AreaOf(a) \cap AreaOf(b) = {})
  BY ONLY <1>3, <1>7, ConcatTiles
<1> QED BY ONLY <1>1, <1>3, <1>5, <1>6, <1>7, <1>8

LEMMA Replaced ==
  ASSUME NEW f, NEW r, NEW t, NEW d, d = [fate |-> f, rects |-> r, todo |-> t], NEW p, NEW u
  PROVE  /\ [d EXCEPT !.rects = p, !.todo = u] = [fate |-> f, rects |-> p, todo |-> u]
         /\ [d EXCEPT !.todo = u] = [fate |-> f, rects |-> r, todo |-> u]
<1>1. [d EXCEPT !.rects = p, !.todo = u] = [fate |-> f, rects |-> p, todo |-> u]
  <2>1. PICK e : e = [d EXCEPT !.rects = p, !.todo = u]
    OBVIOUS
  <2>2. DOMAIN e = {"fate", "rects", "todo"} /\ e.fate = f /\ e.rects = p /\ e.todo = u
    BY <2>1
  <2>3. e = [x \in DOMAIN e |-> e[x]]
    BY <2>1
  <2> QED BY <2>1, <2>2, <2>3
<1>2. [d EXCEPT !.todo = u] = [fate |-> f, rects |-> r, todo |-> u]
  OBVIOUS
<1> QED BY <1>1, <1>2

(* One step: a leaf is placed, what is in another section takes its place, *)
(* and each step takes one off the load.                                   *)
PlacesOne(S, area, d, n) ==
  LET next  == Head(d.todo)
      inner == next.section.inner[1]
  IN  /\ Load(d.todo) \in Nat \ {0}
      /\ IsLeaf(next.section) =>
           /\ Place(d, n) \in Placed(S, area) /\ Place(d, n).todo = Tail(d.todo)
           /\ Load(d.todo) = 1 + Load(Place(d, n).todo)
      /\ ~IsLeaf(next.section) =>
           /\ Aborts(inner.sections, Extent(inner.direction, next.rect)) => Place(d, n) = Aborted
           /\ ~Aborts(inner.sections, Extent(inner.direction, next.rect)) =>
                /\ Place(d, n) \in Placed(S, area)
                /\ Place(d, n).todo = Divide(inner.direction, inner.sections, next.rect) \o Tail(d.todo)
                /\ Load(d.todo) = 1 + Load(Place(d, n).todo)

LEMMA PlaceOne ==
  ASSUME NEW S, Sectional(S), NEW area, NEW d \in Placed(S, area), NEW n, d.todo # <<>>
  PROVE  PlacesOne(S, area, d, n)
<1>1. PICK r, todo, x, t, rect, s :
        /\ r = d.rects /\ todo = d.todo /\ x = Head(todo) /\ t = Tail(todo)
        /\ rect = x.rect /\ s = x.section
  OBVIOUS
<1>2. /\ d = [fate |-> "ok", rects |-> r, todo |-> todo]
      /\ r \in Seq(Rects) /\ todo \in Seq(Todos(S)) /\ todo # <<>>
      /\ AreaOf(r) \cup AreaOf(RectsOf(todo)) = Cells(area)
      /\ Apart(r) /\ Apart(RectsOf(todo))
      /\ AreaOf(r) \cap AreaOf(RectsOf(todo)) = {}
  BY <1>1 DEF Placed
<1>3. /\ x \in Todos(S) /\ t \in Seq(Todos(S)) /\ Load(t) \in Nat
      /\ Load(todo) = (IF IsLeaf(s) THEN 1 ELSE 1 + Places(s.inner[1].sections)) + Load(t)
      /\ ~IsLeaf(s) => Places(s.inner[1].sections) \in Nat
  BY ONLY <1>1, <1>2, LoadHead, Sectional(S)
<1>4. /\ rect \in Rects /\ RectsOf(t) \in Seq(Rects)
      /\ AreaOf(RectsOf(todo)) = Cells(rect) \cup AreaOf(RectsOf(t))
      /\ Apart(RectsOf(t)) /\ Cells(rect) \cap AreaOf(RectsOf(t)) = {}
  BY ONLY <1>1, <1>2, RectsOfHead, Sectional(S)
<1>5. Load(todo) \in Nat \ {0}
  BY <1>3
<1>6. s \in S
  BY <1>1, <1>3 DEF Todos
<1>7. CASE IsLeaf(s)
  <2>1. PICK p : p = Append(r, rect)
    OBVIOUS
  <2>2. Place(d, n) = [fate |-> "ok", rects |-> p, todo |-> t]
    <3>1. Place(d, n) = [d EXCEPT !.rects = Append(d.rects, rect), !.todo = Tail(d.todo)]
      BY <1>1, <1>2, <1>7 DEF Place
    <3>2. Place(d, n) = [d EXCEPT !.rects = p, !.todo = t]
      BY <1>1, <2>1, <3>1
    <3>3. d = [fate |-> "ok", rects |-> r, todo |-> todo]
      BY <1>2
    <3> QED BY ONLY <3>2, <3>3, Replaced
  <2>3. p \in Seq(Rects) /\ p = r \o <<rect>>
    BY ONLY <1>2, <1>4, <2>1
  <2>4. <<rect>> \in Seq(Rects) /\ AreaOf(<<rect>>) = Cells(rect) /\ Apart(<<rect>>)
    BY <1>4, OneRect
  <2>5. PICK one : one = <<rect>>
    OBVIOUS
  <2>6. AreaOf(p) = AreaOf(r) \cup AreaOf(one)
        /\ (Apart(p) <=> Apart(r) /\ Apart(one) /\ AreaOf(r) \cap AreaOf(one) = {})
    BY ONLY <1>2, <2>3, <2>4, <2>5, ConcatTiles
  <2>7. /\ AreaOf(p) \cup AreaOf(RectsOf(t)) = Cells(area) /\ Apart(p)
        /\ AreaOf(p) \cap AreaOf(RectsOf(t)) = {}
    BY ONLY <1>2, <1>4, <2>4, <2>5, <2>6
  <2>8. Place(d, n) \in Placed(S, area)
    <3>1. t \in Seq(Todos(S)) /\ p \in Seq(Rects)
      BY <1>3, <2>3
    <3>2. Apart(RectsOf(t))
      BY <1>4
    <3>3. [fate |-> "ok", rects |-> p, todo |-> t] \in Placed(S, area)
      BY ONLY <2>7, <3>1, <3>2, PlacedIs
    <3> QED BY ONLY <2>2, <3>3
  <2>9. Place(d, n).todo = t
    BY <2>2
  <2> QED BY <1>1, <1>3, <1>5, <1>7, <2>8, <2>9 DEF PlacesOne
<1>8. CASE ~IsLeaf(s) /\ Aborts(s.inner[1].sections, Extent(s.inner[1].direction, rect))
  <2>1. Place(d, n) = Aborted
    BY <1>1, <1>2, <1>8 DEF Place
  <2> QED BY <1>1, <1>5, <1>8, <2>1 DEF PlacesOne
<1>9. CASE ~IsLeaf(s) /\ ~Aborts(s.inner[1].sections, Extent(s.inner[1].direction, rect))
  <2>1. PICK secs, dir, parts : /\ secs = s.inner[1].sections /\ dir = s.inner[1].direction
                                /\ parts = Divide(dir, secs, rect)
    OBVIOUS
  <2>2. secs \in Seq(S)
    BY <1>6, <1>9, <2>1 DEF Sectional
  <2>3. ~Aborts(secs, Extent(dir, rect))
    BY <1>9, <2>1
  <2>4. /\ parts \in Seq(Todos(S))
        /\ AreaOf(RectsOf(parts)) = Cells(rect) /\ Apart(RectsOf(parts))
        /\ Load(parts) = Places(secs)
    BY ONLY <1>4, <2>1, <2>2, <2>3, DivideTiles, Sectional(S)
  <2>5. PICK u : u = parts \o t
    OBVIOUS
  <2>6. Place(d, n) = [fate |-> "ok", rects |-> r, todo |-> u]
    <3>1. Place(d, n) = [d EXCEPT !.todo = parts \o Tail(d.todo)]
      BY <1>1, <1>2, <1>9, <2>1 DEF Place
    <3>2. Place(d, n) = [d EXCEPT !.todo = u]
      BY <1>1, <2>5, <3>1
    <3>3. d = [fate |-> "ok", rects |-> r, todo |-> todo]
      BY <1>2
    <3> QED BY ONLY <3>2, <3>3, Replaced
  <2>7. u \in Seq(Todos(S)) /\ RectsOf(u) = RectsOf(parts) \o RectsOf(t)
        /\ RectsOf(parts) \in Seq(Rects)
    BY ONLY <1>3, <2>4, <2>5, TodoConcat, TodoParts, ConcatElements, Sectional(S)
  <2>8. PICK a, b : a = RectsOf(parts) /\ b = RectsOf(t)
    OBVIOUS
  <2>9. AreaOf(a \o b) = AreaOf(a) \cup AreaOf(b)
        /\ (Apart(a \o b) <=> Apart(a) /\ Apart(b) /\ AreaOf(a) \cap AreaOf(b) = {})
    BY ONLY <1>4, <2>7, <2>8, ConcatTiles
  <2>10. /\ AreaOf(r) \cup AreaOf(RectsOf(u)) = Cells(area) /\ Apart(RectsOf(u))
         /\ AreaOf(r) \cap AreaOf(RectsOf(u)) = {}
    BY ONLY <1>2, <1>4, <2>4, <2>7, <2>8, <2>9
  <2>11. Place(d, n) \in Placed(S, area)
    <3>1. u \in Seq(Todos(S)) /\ r \in Seq(Rects)
      BY <1>2, <2>7
    <3>2. Apart(r)
      BY <1>2
    <3>3. [fate |-> "ok", rects |-> r, todo |-> u] \in Placed(S, area)
      BY ONLY <2>10, <3>1, <3>2, PlacedIs
    <3> QED BY ONLY <2>6, <3>3
  <2>12. Load(u) = Load(parts) + Load(t) /\ Load(parts) \in Nat
    BY ONLY <1>3, <2>4, <2>5, LoadConcat, Sectional(S)
  <2>13. Load(todo) = 1 + Load(u)
    BY <1>3, <1>9, <2>1, <2>4, <2>12
  <2>14. Place(d, n).todo = u
    BY <2>6
  <2> QED BY <1>1, <1>5, <1>9, <2>1, <2>5, <2>11, <2>13, <2>14 DEF PlacesOne
<1> QED BY <1>7, <1>8, <1>9

LEMMA PlaceFolded ==
  ASSUME NEW base, NEW s
  PROVE  FoldLeft(Place, base, s) = PlaceFold!Fold(base, s)
BY DEF FoldLeft, MapThenFoldSet, Max, PlaceFold!Fold, PlaceFold!MapThenFoldSet, PlaceFold!Largest

LEMMA WiderSeq ==
  ASSUME NEW S, NEW T, S \subseteq T, NEW s \in Seq(S)
  PROVE  s \in Seq(T)
OBVIOUS

(* The section that stands for the whole is one like the others.           *)
LEMMA WholeSection ==
  ASSUME NEW S, Sectional(S), NEW sections \in Seq(S), NEW direction
  PROVE  LET whole == Node(Fill(1), direction, sections)
         IN  /\ Sectional(S \cup {whole}) /\ sections \in Seq(S \cup {whole})
             /\ ~IsLeaf(whole) /\ whole.places = 1 + Places(sections)
             /\ whole.inner[1].sections = sections /\ whole.inner[1].direction = direction
<1>1. PICK whole, T : whole = Node(Fill(1), direction, sections) /\ T = S \cup {whole}
  OBVIOUS
<1>2. /\ whole.kind = "fill" /\ whole.n = 1 /\ whole.places = 1 + Places(sections)
      /\ whole.inner = <<[direction |-> direction, sections |-> sections]>>
  BY <1>1 DEF Node, Fill
<1>3. whole.inner[1] = [direction |-> direction, sections |-> sections] /\ whole.inner # <<>>
  BY <1>2
<1>4. whole.inner[1].sections = sections /\ whole.inner[1].direction = direction /\ ~IsLeaf(whole)
  BY <1>3 DEF IsLeaf
<1>5. Places(sections) \in Nat
  BY PlacesType
<1>6. S \subseteq T
  BY <1>1
<1>7. sections \in Seq(T)
  BY ONLY <1>6, sections \in Seq(S), WiderSeq
<1>8. ASSUME NEW s \in T
      PROVE  /\ s.kind \in {"exact", "fill"} /\ s.n \in Nat /\ s.places \in Nat
             /\ s.places = IF IsLeaf(s) THEN 1 ELSE 1 + Places(s.inner[1].sections)
             /\ ~IsLeaf(s) => s.inner[1].sections \in Seq(T)
  <2>1. CASE s \in S
    <3>1. /\ s.kind \in {"exact", "fill"} /\ s.n \in Nat /\ s.places \in Nat
          /\ s.places = IF IsLeaf(s) THEN 1 ELSE 1 + Places(s.inner[1].sections)
          /\ ~IsLeaf(s) => s.inner[1].sections \in Seq(S)
      BY ONLY <2>1, Sectional(S) DEF Sectional
    <3>2. PICK i : i = s.inner[1].sections
      OBVIOUS
    <3>3. ASSUME i \in Seq(S) PROVE i \in Seq(T)
      BY ONLY <1>6, <3>3, WiderSeq
    <3> QED BY ONLY <3>1, <3>2, <3>3
  <2>2. CASE s = whole
    BY <1>2, <1>4, <1>5, <1>7, <2>2
  <2> QED BY <1>1, <2>1, <2>2
<1>9. Sectional(T)
  BY ONLY <1>8 DEF Sectional
<1> QED BY ONLY <1>1, <1>2, <1>4, <1>7, <1>9

Flat(sections) == \A i \in DOMAIN sections : IsLeaf(sections[i])

(* After k steps: nothing but the whole at first; later it was divided,    *)
(* and there are steps enough for what is still to be placed.              *)
PlacedAfter(S, direction, sections, area, k) ==
  LET whole  == Node(Fill(1), direction, sections)
      top    == [section |-> whole, rect |-> area]
      aborts == Aborts(sections, Extent(direction, area))
  IN  {d \in Placed(S \cup {whole}, area) :
         /\ d.todo # <<>> => Load(d.todo) + k <= whole.places
         /\ k = 0 => d.todo = <<top>>
         /\ k > 0 => ~aborts /\ (Flat(sections) => \A i \in DOMAIN d.todo : IsLeaf(d.todo[i].section))}
      \cup {d \in {Aborted} : k > 0 /\ (Flat(sections) => aborts)}

LEMMA PlacedAtFirst ==
  ASSUME NEW S, Sectional(S), NEW sections \in Seq(S), NEW direction, NEW area \in Rects
  PROVE  LET whole == Node(Fill(1), direction, sections)
             top   == [section |-> whole, rect |-> area]
         IN  [fate |-> "ok", rects |-> <<>>, todo |-> <<top>>]
               \in PlacedAfter(S, direction, sections, area, 0)
<1>1. PICK whole, T, top, todo, d :
        /\ whole = Node(Fill(1), direction, sections) /\ T = S \cup {whole}
        /\ top = [section |-> whole, rect |-> area] /\ todo = <<top>>
        /\ d = [fate |-> "ok", rects |-> <<>>, todo |-> todo]
  OBVIOUS
<1>2. /\ Sectional(T) /\ ~IsLeaf(whole) /\ whole.places = 1 + Places(sections)
      /\ whole.inner[1].sections = sections
  BY <1>1, WholeSection
<1>3. top \in Todos(T)
  BY <1>1 DEF Todos
<1>4. todo \in Seq(Todos(T)) /\ todo # <<>> /\ Head(todo) = top /\ Tail(todo) = <<>>
  BY ONLY <1>1, <1>3
<1>5. top.section = whole /\ top.rect = area
  BY <1>1
<1>6. Load(<<>>) = 0 /\ RectsOf(<<>>) = <<>>
  <2>1. PlacesOf(<<>>) = <<>> /\ RectsOf(<<>>) = <<>>
    BY DEF PlacesOf, RectsOf
  <2> QED BY <2>1, TotalEmpty DEF Load
<1>7. AreaOf(<<>>) = {} /\ Apart(<<>>) /\ <<>> \in Seq(Rects)
  BY DEF AreaOf, Apart
<1>8. Load(todo) = 1 + Places(sections) /\ Places(sections) \in Nat
  <2>1. Load(todo) = (1 + Places(sections)) + Load(<<>>) /\ Places(sections) \in Nat
    BY ONLY <1>2, <1>4, <1>5, LoadHead
  <2> QED BY <1>6, <2>1
<1>9. AreaOf(RectsOf(todo)) = Cells(area) /\ Apart(RectsOf(todo))
  <2>1. AreaOf(RectsOf(todo)) = Cells(area) \cup AreaOf(RectsOf(<<>>))
        /\ (Apart(RectsOf(todo)) <=> Apart(RectsOf(<<>>)) /\ Cells(area) \cap AreaOf(RectsOf(<<>>)) = {})
    BY ONLY <1>2, <1>4, <1>5, RectsOfHead
  <2> QED BY <1>6, <1>7, <2>1
<1>10. PICK r : r = <<>>
  OBVIOUS
<1>11. /\ AreaOf(r) \cup AreaOf(RectsOf(todo)) = Cells(area) /\ Apart(r)
       /\ AreaOf(r) \cap AreaOf(RectsOf(todo)) = {} /\ r \in Seq(Rects)
  BY ONLY <1>7, <1>9, <1>10
<1>12. [fate |-> "ok", rects |-> r, todo |-> todo] \in Placed(T, area)
  BY ONLY <1>4, <1>9, <1>11, PlacedIs
<1>13. d \in Placed(T, area)
  BY ONLY <1>1, <1>10, <1>12
<1>14. d.todo = todo
  BY <1>1
<1>15. Load(d.todo) + 0 <= whole.places
  BY <1>2, <1>8, <1>14
<1> QED BY ONLY <1>1, <1>13, <1>14, <1>15 DEF PlacedAfter

LEMMA PlaceKeeps ==
  ASSUME NEW S, Sectional(S), NEW sections \in Seq(S), NEW direction, NEW area \in Rects,
         NEW k \in Nat, NEW d \in PlacedAfter(S, direction, sections, area, k), NEW n
  PROVE  Place(d, n) \in PlacedAfter(S, direction, sections, area, k + 1)
<1>1. PICK whole, T, top, space, e :
        /\ whole = Node(Fill(1), direction, sections) /\ T = S \cup {whole}
        /\ top = [section |-> whole, rect |-> area]
        /\ space = Extent(direction, area) /\ e = Place(d, n)
  OBVIOUS
<1>2. /\ Sectional(T) /\ ~IsLeaf(whole) /\ whole.places = 1 + Places(sections)
      /\ whole.inner[1].sections = sections /\ whole.inner[1].direction = direction
      /\ sections \in Seq(T)
  BY <1>1, WholeSection
<1>3. whole.places \in Nat
  BY <1>2, PlacesType
<1>4. top.section = whole /\ top.rect = area
  BY <1>1
<1>5. k + 1 > 0 /\ ~(k + 1 = 0)
  OBVIOUS
<1>6. ASSUME e \in Placed(T, area), e.todo # <<>> => Load(e.todo) + (k + 1) <= whole.places,
             ~Aborts(sections, space),
             Flat(sections) => \A i \in DOMAIN e.todo : IsLeaf(e.todo[i].section)
      PROVE  e \in PlacedAfter(S, direction, sections, area, k + 1)
  BY ONLY <1>1, <1>5, <1>6 DEF PlacedAfter
<1>7. ASSUME e = Aborted, Flat(sections) => Aborts(sections, space)
      PROVE  e \in PlacedAfter(S, direction, sections, area, k + 1)
  BY ONLY <1>1, <1>5, <1>7 DEF PlacedAfter
<1>8. CASE d = Aborted /\ (Flat(sections) => Aborts(sections, space))
  <2>1. d.todo = <<>>
    BY <1>8 DEF Aborted
  <2>2. e = d
    BY <1>1, <2>1 DEF Place
  <2> QED BY <1>1, <1>7, <1>8, <2>2
<1>9. CASE /\ d \in Placed(T, area)
           /\ d.todo # <<>> => Load(d.todo) + k <= whole.places
           /\ k = 0 => d.todo = <<top>>
           /\ k > 0 => ~Aborts(sections, space)
                       /\ (Flat(sections) => \A i \in DOMAIN d.todo : IsLeaf(d.todo[i].section))
  <2>1. k = 0 \/ k > 0
    OBVIOUS
  <2>2. CASE d.todo = <<>>
    <3>1. e = d
      BY <1>1, <2>2 DEF Place
    <3>2. k > 0
      BY <1>9, <2>1, <2>2
    <3> QED BY ONLY <1>1, <1>6, <1>9, <2>2, <3>1, <3>2
  <2>3. CASE d.todo # <<>>
    <3>1. PICK todo, x, t, s, rect : /\ todo = d.todo /\ x = Head(todo) /\ t = Tail(todo)
                                     /\ s = x.section /\ rect = x.rect
      OBVIOUS
    <3>2. todo \in Seq(Todos(T)) /\ todo # <<>>
      <4>1. d.todo \in Seq(Todos(T))
        BY <1>9 DEF Placed
      <4> QED BY <2>3, <3>1, <4>1
    <3>3. /\ x \in Todos(T) /\ t \in Seq(Todos(T)) /\ x = todo[1] /\ 1 \in DOMAIN todo
          /\ \A i \in DOMAIN t : t[i] = todo[i + 1] /\ i + 1 \in DOMAIN todo
      BY ONLY <3>1, <3>2
    <3>4. /\ Load(todo) \in Nat \ {0}
          /\ IsLeaf(s) => e \in Placed(T, area) /\ e.todo = t /\ Load(todo) = 1 + Load(e.todo)
          /\ ~IsLeaf(s) =>
               /\ Aborts(s.inner[1].sections, Extent(s.inner[1].direction, rect)) => e = Aborted
               /\ ~Aborts(s.inner[1].sections, Extent(s.inner[1].direction, rect)) =>
                    /\ e \in Placed(T, area)
                    /\ e.todo = Divide(s.inner[1].direction, s.inner[1].sections, rect) \o t
                    /\ Load(todo) = 1 + Load(e.todo)
      <4>1. d \in Placed(T, area)
        BY <1>9
      <4>2. PlacesOne(T, area, d, n)
        BY ONLY <1>2, <2>3, <4>1, PlaceOne
      <4>4. e = Place(d, n) /\ todo = d.todo /\ t = Tail(d.todo)
            /\ s = Head(d.todo).section /\ rect = Head(d.todo).rect
        BY <1>1, <3>1
      <4> QED BY ONLY <4>2, <4>4 DEF PlacesOne
    <3>5. ASSUME e \in Placed(T, area), Load(todo) = 1 + Load(e.todo)
          PROVE  Load(e.todo) + (k + 1) <= whole.places
      <4>1. Load(e.todo) \in Nat
        <5>1. e.todo \in Seq(Todos(T))
          BY <3>5 DEF Placed
        <5> QED BY ONLY <1>2, <5>1, LoadConcat
      <4> QED BY <1>3, <1>9, <2>3, <3>1, <3>5, <4>1
    <3>6. CASE k = 0
      <4>1. /\ x = top /\ t = <<>>
        <5>1. todo = <<top>> /\ top \in Todos(T)
          BY <1>9, <3>1, <3>3, <3>6
        <5> QED BY ONLY <3>1, <5>1
      <4>2. s = whole /\ rect = area
        BY <1>4, <3>1, <4>1
      <4>3. CASE Aborts(sections, space)
        <5>1. e = Aborted
          BY <1>1, <1>2, <3>4, <4>2, <4>3
        <5> QED BY <1>1, <1>7, <4>3, <5>1
      <4>4. CASE ~Aborts(sections, space)
        <5>1. PICK parts : parts = Divide(direction, sections, area)
          OBVIOUS
        <5>2. e \in Placed(T, area) /\ e.todo = parts \o <<>> /\ Load(todo) = 1 + Load(e.todo)
          BY <1>1, <1>2, <3>4, <4>1, <4>2, <4>4, <5>1
        <5>3. parts \in Seq(Todos(T)) /\ Len(parts) = Len(sections)
              /\ \A i \in 1 .. Len(sections) : parts[i].section = sections[i]
          BY ONLY <1>1, <1>2, <4>4, <5>1, DivideTiles, area \in Rects
        <5>4. e.todo = parts
          BY <5>2, <5>3
        <5>5. DOMAIN parts = 1 .. Len(sections) /\ DOMAIN sections = 1 .. Len(sections)
          BY <5>3
        <5>6. Flat(sections) => \A i \in DOMAIN e.todo : IsLeaf(e.todo[i].section)
          BY <5>3, <5>4, <5>5 DEF Flat
        <5> QED BY <1>1, <1>6, <3>5, <4>4, <5>2, <5>6
      <4> QED BY <4>3, <4>4
    <3>7. CASE k > 0
      <4>1. ~Aborts(sections, space)
            /\ (Flat(sections) => \A i \in DOMAIN todo : IsLeaf(todo[i].section))
        BY <1>9, <3>1, <3>7
      <4>2. CASE IsLeaf(s)
        <5>1. e \in Placed(T, area) /\ e.todo = t /\ Load(todo) = 1 + Load(e.todo)
          BY <3>4, <4>2
        <5>2. Flat(sections) => \A i \in DOMAIN e.todo : IsLeaf(e.todo[i].section)
          BY <3>3, <4>1, <5>1
        <5> QED BY <1>1, <1>6, <3>5, <4>1, <5>1, <5>2
      <4>3. CASE ~IsLeaf(s)
        <5>1. ~Flat(sections)
          BY <3>1, <3>3, <4>1, <4>3
        <5>2. CASE Aborts(s.inner[1].sections, Extent(s.inner[1].direction, rect))
          <6>1. e = Aborted
            BY <3>4, <4>3, <5>2
          <6> QED BY <1>1, <1>7, <5>1, <6>1
        <5>3. CASE ~Aborts(s.inner[1].sections, Extent(s.inner[1].direction, rect))
          <6>1. e \in Placed(T, area) /\ Load(todo) = 1 + Load(e.todo)
            BY <3>4, <4>3, <5>3
          <6> QED BY <1>1, <1>6, <3>5, <4>1, <5>1, <6>1
        <5> QED BY <5>2, <5>3
      <4> QED BY <4>2, <4>3
    <3> QED BY <2>1, <3>6, <3>7
  <2> QED BY <2>2, <2>3
<1> QED BY ONLY <1>1, <1>8, <1>9, d \in PlacedAfter(S, direction, sections, area, k) DEF PlacedAfter

(* calc comes to an end: as many steps as there are sections place all.    *)
LEMMA CalcPlaces ==
  ASSUME NEW S, Sectional(S), NEW sections \in Seq(S), NEW direction, NEW area \in Rects
  PROVE  LET done   == CalcRecurse(direction, sections, area)
             aborts == Aborts(sections, Extent(direction, area))
         IN  \/ /\ done.fate = "ok" /\ done.todo = <<>> /\ ~aborts /\ done.rects \in Seq(Rects)
                /\ AreaOf(done.rects) = Cells(area) /\ Apart(done.rects)
             \/ done = Aborted /\ (Flat(sections) => aborts)
<1> DEFINE whole == Node(Fill(1), direction, sections)
           top == [section |-> whole, rect |-> area]
           base == [fate |-> "ok", rects |-> <<>>, todo |-> <<top>>]
           N == whole.places
           s == [n \in 1 .. N |-> n]
           I == [k \in 0 .. N |-> PlacedAfter(S, direction, sections, area, k)]
<1>1. Sectional(S \cup {whole}) /\ N = 1 + Places(sections)
  BY WholeSection
<1>2. N \in Nat /\ N > 0
  BY <1>1, PlacesType
<1>3. s \in Seq(Nat) /\ Len(s) = N
  BY <1>2
<1>4. base \in I[0]
  <2>1. I[0] = PlacedAfter(S, direction, sections, area, 0)
    BY <1>2
  <2> QED BY <2>1, PlacedAtFirst
<1>5. ASSUME NEW k \in 1 .. Len(s), NEW d \in I[k - 1] PROVE Place(d, s[k]) \in I[k]
  <2>1. k - 1 \in 0 .. N /\ k - 1 \in Nat /\ k \in 0 .. N /\ (k - 1) + 1 = k
    BY <1>2, <1>3
  <2>2. d \in PlacedAfter(S, direction, sections, area, k - 1)
        /\ I[k] = PlacedAfter(S, direction, sections, area, k)
    BY <2>1
  <2>3. PICK m : m = s[k]
    OBVIOUS
  <2>4. Place(d, m) \in PlacedAfter(S, direction, sections, area, (k - 1) + 1)
    <3> HIDE DEF s, I, N, base, whole, top
    <3> QED BY <2>1, <2>2, PlaceKeeps
  <2> QED BY <2>1, <2>2, <2>3, <2>4
<1>6. PlaceFold!Fold(base, s) \in I[Len(s)]
  <2> HIDE DEF base, I, s, N
  <2> QED BY <1>3, <1>4, <1>5, PlaceFold!FoldInvariant
<1>7. PICK done : done = CalcRecurse(direction, sections, area)
  OBVIOUS
<1>8. done = PlaceFold!Fold(base, s)
  BY <1>7, PlaceFolded DEF CalcRecurse
<1>9. done \in PlacedAfter(S, direction, sections, area, N)
  <2>1. N \in 0 .. N
    BY <1>2
  <2>2. I[Len(s)] = PlacedAfter(S, direction, sections, area, N)
    BY <1>3, <2>1
  <2> QED BY <1>6, <1>8, <2>2
<1>10. PICK T, m : T = S \cup {whole} /\ m = N
  OBVIOUS
<1>11. \/ /\ done \in Placed(T, area)
          /\ done.todo # <<>> => Load(done.todo) + m <= m
          /\ ~Aborts(sections, Extent(direction, area))
       \/ done = Aborted /\ (Flat(sections) => Aborts(sections, Extent(direction, area)))
  BY <1>2, <1>9, <1>10 DEF PlacedAfter
<1>12. ASSUME done \in Placed(T, area), done.todo # <<>> => Load(done.todo) + m <= m,
              ~Aborts(sections, Extent(direction, area))
       PROVE  /\ done.fate = "ok" /\ done.todo = <<>> /\ done.rects \in Seq(Rects)
              /\ AreaOf(done.rects) = Cells(area) /\ Apart(done.rects)
  <2>1. PICK r, t : r = done.rects /\ t = done.todo
    OBVIOUS
  <2>2. /\ done.fate = "ok" /\ r \in Seq(Rects) /\ t \in Seq(Todos(T))
        /\ AreaOf(r) \cup AreaOf(RectsOf(t)) = Cells(area) /\ Apart(r)
    BY <1>12, <2>1 DEF Placed
  <2>3. t = <<>>
    <3>1. SUFFICES ASSUME t # <<>> PROVE FALSE
      OBVIOUS
    <3>2. Load(t) \in Nat \ {0}
      <4>1. PlacesOne(T, area, done, 0)
        BY ONLY <1>1, <1>10, <1>12, <2>1, <3>1, PlaceOne
      <4> QED BY ONLY <2>1, <4>1 DEF PlacesOne
    <3> QED BY <1>2, <1>10, <1>12, <2>1, <3>1, <3>2
  <2>4. AreaOf(RectsOf(t)) = {}
    <3>1. RectsOf(<<>>) = <<>> /\ AreaOf(<<>>) = {}
      BY DEF RectsOf, AreaOf
    <3> QED BY <2>3, <3>1
  <2> QED BY ONLY <2>1, <2>2, <2>3, <2>4
<1> QED BY ONLY <1>7, <1>11, <1>12

THEOREM AllLayoutsDivideWell ==
  ASSUME NEW S, Sectional(S), NEW sections \in Seq(S), NEW direction, NEW area \in Rects
  PROVE  DividesWell(direction, sections, area)
<1>1. PICK space, done : space = Extent(direction, area) /\ done = CalcRecurse(direction, sections, area)
  OBVIOUS
<1>2. space \in Nat
  BY <1>1 DEF Extent, Rects
<1>3. \/ /\ done.fate = "ok" /\ done.todo = <<>> /\ ~Aborts(sections, space)
         /\ AreaOf(done.rects) = Cells(area) /\ Apart(done.rects)
      \/ done.fate # "ok" /\ (Flat(sections) => Aborts(sections, space))
  <2>1. Aborted.fate # "ok"
    BY DEF Aborted
  <2> QED BY <1>1, <2>1, CalcPlaces
<1>4. /\ ~Aborts(sections, space) => HasRoom(sections, space)
      /\ TotalWeight(sections) <= 255 /\ HasRoom(sections, space) => ~Aborts(sections, space)
  BY <1>2, RoomDecides
<1>5. ~Aborts(sections, space) => SizesAreFair(sections, space)
  BY <1>2, FairSizes
<1>6. AreaOf(done.rects) = Cells(area) /\ Apart(done.rects) => Tile(done.rects, area)
  BY DEF Tile, AreaOf, Apart
<1> QED BY ONLY <1>1, <1>3, <1>4, <1>5, <1>6 DEF DividesWell, Flat

-----------------------------------------------------------------------------
(* What is drawn. *)

Rows == Seq(Graphemes)
Textual == [y : Int, rows : Seq(Rows) \ {<<>>}]

(* The terminal as it was cleared, with anything written on it.            *)
Terms(sz) ==
  [rows : [0 .. sz.height - 1 -> Rows], y : Int, width : {sz.width}, scrambled : BOOLEAN]
IsSize(sz) == sz.width \in Nat /\ sz.height \in Nat

LEMMA TermFields ==
  ASSUME NEW sz, NEW term \in Terms(sz)
  PROVE  /\ term = [rows |-> term.rows, y |-> term.y, width |-> sz.width, scrambled |-> term.scrambled]
         /\ term.rows \in [0 .. sz.height - 1 -> Rows] /\ term.y \in Int
         /\ term.width = sz.width /\ term.scrambled \in BOOLEAN
BY DEF Terms

LEMMA TermIs ==
  ASSUME NEW sz, NEW rows \in [0 .. sz.height - 1 -> Rows], NEW y \in Int, NEW b \in BOOLEAN
  PROVE  [rows |-> rows, y |-> y, width |-> sz.width, scrambled |-> b] \in Terms(sz)
BY DEF Terms

LEMMA ClearIsTerm ==
  ASSUME NEW sz
  PROVE  Clear(sz) \in Terms(sz) /\ ~Clear(sz).scrambled
<1>1. <<>> \in Rows
  BY DEF Rows
<1>2. PICK f : f = [y \in 0 .. sz.height - 1 |-> <<>>]
  OBVIOUS
<1>3. f \in [0 .. sz.height - 1 -> Rows]
  BY <1>1, <1>2
<1>4. Clear(sz) = [rows |-> f, y |-> 0, width |-> sz.width, scrambled |-> FALSE]
  BY <1>2 DEF Clear
<1>5. 0 \in Int /\ FALSE \in BOOLEAN
  OBVIOUS
<1>6. Clear(sz) \in Terms(sz)
  <2>1. [rows |-> f, y |-> 0, width |-> sz.width, scrambled |-> FALSE] \in Terms(sz)
    BY ONLY <1>3, <1>5, TermIs
  <2> QED BY ONLY <1>4, <2>1
<1>7. ~Clear(sz).scrambled
  BY <1>4
<1> QED BY ONLY <1>6, <1>7

LEMMA Moved ==
  ASSUME NEW sz, NEW term \in Terms(sz), NEW y \in Int
  PROVE  /\ MoveTo(term, y) \in Terms(sz) /\ MoveTo(term, y).y = y
         /\ MoveTo(term, y).rows = term.rows /\ MoveTo(term, y).scrambled = term.scrambled
<1>1. PICK r, x, w, b : term = [rows |-> r, y |-> x, width |-> w, scrambled |-> b]
                        /\ r \in [0 .. sz.height - 1 -> Rows] /\ w = sz.width /\ b \in BOOLEAN
  BY TermFields
<1>2. MoveTo(term, y) = [rows |-> r, y |-> y, width |-> w, scrambled |-> b]
  BY ONLY <1>1 DEF MoveTo
<1>3. term.rows = r /\ term.scrambled = b
  BY ONLY <1>1
<1> QED BY ONLY <1>1, <1>2, <1>3, y \in Int, TermIs

LEMMA Written ==
  ASSUME NEW sz, NEW term \in Terms(sz), NEW s \in Rows
  PROVE  /\ Write(term, s) \in Terms(sz) /\ Write(term, s).y = term.y
         /\ Write(term, s).rows = [term.rows EXCEPT ![term.y] = s]
         /\ Write(term, s).scrambled <=> term.scrambled \/ ColumnsOf(s) > sz.width
<1>1. PICK r, x, w, b : term = [rows |-> r, y |-> x, width |-> w, scrambled |-> b]
                        /\ r \in [0 .. sz.height - 1 -> Rows] /\ w = sz.width /\ b \in BOOLEAN /\ x \in Int
  BY TermFields
<1>2. PICK f, c : f = [r EXCEPT ![x] = s] /\ c = (b \/ ColumnsOf(s) > w)
  OBVIOUS
<1>3. f \in [0 .. sz.height - 1 -> Rows]
  BY <1>1, <1>2
<1>4. c \in BOOLEAN
  BY <1>2
<1>5. term.rows = r /\ term.scrambled = b /\ term.y = x /\ term.width = w
  BY ONLY <1>1
<1>6. PICK e : e = Write(term, s)
  OBVIOUS
<1>7. e = [term EXCEPT !.rows = f, !.scrambled = c]
  BY <1>2, <1>5, <1>6 DEF Write
<1>8. DOMAIN e = {"rows", "y", "width", "scrambled"}
      /\ e.rows = f /\ e.y = x /\ e.width = w /\ e.scrambled = c
  BY ONLY <1>1, <1>7
<1>9. e = [z \in DOMAIN e |-> e[z]]
  BY ONLY <1>1, <1>7
<1>10. e = [rows |-> f, y |-> x, width |-> w, scrambled |-> c]
  BY ONLY <1>8, <1>9
<1>11. e \in Terms(sz)
  BY ONLY <1>1, <1>3, <1>4, <1>10, TermIs
<1> QED BY <1>1, <1>2, <1>5, <1>6, <1>8, <1>11

LEMMA NewLined ==
  ASSUME NEW sz, IsSize(sz), NEW term \in Terms(sz)
  PROVE  /\ NewLine(term) \in Terms(sz) /\ NewLine(term).scrambled = term.scrambled
         /\ term.y < sz.height - 1 => NewLine(term).rows = term.rows /\ NewLine(term).y = term.y + 1
<1>1. PICK r, x, w, b : term = [rows |-> r, y |-> x, width |-> w, scrambled |-> b]
                        /\ r \in [0 .. sz.height - 1 -> Rows] /\ w = sz.width /\ b \in BOOLEAN /\ x \in Int
  BY TermFields
<1>2. PICK h, bottom : h = sz.height /\ bottom = Cardinality(DOMAIN term.rows) - 1
  OBVIOUS
<1>3. h \in Nat
  BY <1>2 DEF IsSize
<1>4. bottom = h - 1
  <2>1. DOMAIN term.rows = 0 .. h - 1
    BY <1>1, <1>2
  <2>2. Cardinality(0 .. h - 1) = IF 0 > h - 1 THEN 0 ELSE (h - 1) - 0 + 1
    BY <1>3, FS_Interval
  <2> QED BY <1>2, <1>3, <2>1, <2>2
<1>5. term.rows = r /\ term.scrambled = b /\ term.y = x /\ term.width = w
  BY ONLY <1>1
<1>6. CASE x < bottom
  <2>1. NewLine(term) = MoveTo(term, x + 1)
    BY <1>2, <1>5, <1>6 DEF NewLine
  <2>2. x + 1 \in Int
    BY <1>1
  <2> QED BY <1>2, <1>4, <1>5, <1>6, <2>1, <2>2, Moved
<1>7. CASE ~(x < bottom)
  <2>1. PICK f : f = [y \in 0 .. bottom |-> IF y < bottom THEN r[y + 1] ELSE <<>>]
    OBVIOUS
  <2>2. f \in [0 .. sz.height - 1 -> Rows]
    <3>1. \A y \in 0 .. bottom : y < bottom => y + 1 \in 0 .. sz.height - 1
      BY <1>2, <1>3, <1>4
    <3>2. <<>> \in Rows
      BY DEF Rows
    <3>3. \A y \in 0 .. bottom : (IF y < bottom THEN r[y + 1] ELSE <<>>) \in Rows
      BY <1>1, <3>1, <3>2
    <3> QED BY <1>2, <1>4, <2>1, <3>3
  <2>3. NewLine(term) = [term EXCEPT !.rows = f]
    BY <1>2, <1>5, <1>7, <2>1 DEF NewLine
  <2>4. NewLine(term) = [rows |-> f, y |-> x, width |-> w, scrambled |-> b]
    BY ONLY <1>1, <2>3
  <2>5. NewLine(term) \in Terms(sz)
    BY ONLY <1>1, <2>2, <2>4, TermIs
  <2>6. NewLine(term).scrambled = b
    BY <2>4
  <2> QED BY <1>2, <1>4, <1>5, <1>7, <2>5, <2>6
<1> QED BY <1>6, <1>7

(* Rows that stay within the width do not scramble anything.               *)
Calm(sz) == {term \in Terms(sz) : ~term.scrambled}
FittingRows(width) == {s \in Rows : ColumnsOf(s) <= width}
FittingTexts(width) == {t \in Textual : \A i \in DOMAIN t.rows : ColumnsOf(t.rows[i]) <= width}

LEMMA WriteFolded ==
  ASSUME NEW base, NEW s
  PROVE  FoldLeft(WriteBelow, base, s) = WriteFold!Fold(base, s)
BY DEF FoldLeft, MapThenFoldSet, Max, WriteFold!Fold, WriteFold!MapThenFoldSet, WriteFold!Largest

LEMMA TextFolded ==
  ASSUME NEW base, NEW s
  PROVE  FoldLeft(DrawText, base, s) = TextFold!Fold(base, s)
BY DEF FoldLeft, MapThenFoldSet, Max, TextFold!Fold, TextFold!MapThenFoldSet, TextFold!Largest

LEMMA LineFolded ==
  ASSUME NEW base, NEW s
  PROVE  FoldLeft(DrawLine, base, s) = LineFold!Fold(base, s)
BY DEF FoldLeft, MapThenFoldSet, Max, LineFold!Fold, LineFold!MapThenFoldSet, LineFold!Largest

LEMMA WriteBelowDraws ==
  ASSUME NEW sz, IsSize(sz), NEW term \in Terms(sz), NEW s \in Rows
  PROVE  /\ WriteBelow(term, s) \in Terms(sz)
         /\ term \in Calm(sz) /\ s \in FittingRows(sz.width) => WriteBelow(term, s) \in Calm(sz)
<1>1. PICK t : t = NewLine(term)
  OBVIOUS
<1>2. t \in Terms(sz) /\ t.scrambled = term.scrambled
  BY <1>1, NewLined
<1>3. WriteBelow(term, s) = Write(t, s)
  BY <1>1 DEF WriteBelow
<1>4. Write(t, s) \in Terms(sz) /\ (Write(t, s).scrambled <=> t.scrambled \/ ColumnsOf(s) > sz.width)
  BY <1>2, Written
<1>5. s \in FittingRows(sz.width) => ~(ColumnsOf(s) > sz.width)
  <2>1. ColumnsOf(s) \in Nat /\ sz.width \in Nat
    BY ColumnsType DEF Rows, IsSize
  <2> QED BY <2>1 DEF FittingRows
<1> QED BY <1>2, <1>3, <1>4, <1>5 DEF Calm

LEMMA DrawTextDraws ==
  ASSUME NEW sz, IsSize(sz), NEW term \in Terms(sz), NEW text \in Textual
  PROVE  /\ DrawText(term, text) \in Terms(sz)
         /\ term \in Calm(sz) /\ text \in FittingTexts(sz.width) => DrawText(term, text) \in Calm(sz)
<1>1. PICK rows, row, rest, base : /\ rows = text.rows /\ row = rows[1] /\ rest = Tail(rows)
                                   /\ base = Write(MoveTo(term, text.y), row)
  OBVIOUS
<1>2. rows \in Seq(Rows) /\ rows # <<>> /\ text.y \in Int
  BY <1>1 DEF Textual
<1>3. row \in Rows /\ rest \in Seq(Rows) /\ 1 \in DOMAIN rows
      /\ \A i \in DOMAIN rest : rest[i] = rows[i + 1] /\ i + 1 \in DOMAIN rows
  BY ONLY <1>1, <1>2
<1>4. MoveTo(term, text.y) \in Terms(sz) /\ MoveTo(term, text.y).scrambled = term.scrambled
  BY <1>2, Moved
<1>5. base \in Terms(sz) /\ (base.scrambled <=> term.scrambled \/ ColumnsOf(row) > sz.width)
  BY <1>1, <1>3, <1>4, Written
<1>6. DrawText(term, text) = WriteFold!Fold(base, rest)
  BY <1>1, WriteFolded DEF DrawText
<1>7. WriteFold!Fold(base, rest) \in Terms(sz)
  <2>1. \A t \in Terms(sz), s \in Rows : WriteBelow(t, s) \in Terms(sz)
    BY WriteBelowDraws
  <2> QED BY ONLY <1>3, <1>5, <2>1, WriteFold!FoldType
<1>8. ASSUME term \in Calm(sz), text \in FittingTexts(sz.width)
      PROVE  WriteFold!Fold(base, rest) \in Calm(sz)
  <2>1. \A i \in DOMAIN rows : ColumnsOf(rows[i]) <= sz.width
    BY <1>1, <1>8 DEF FittingTexts
  <2>2. ColumnsOf(row) \in Nat /\ sz.width \in Nat
    BY <1>3, ColumnsType DEF Rows, IsSize
  <2>3. base \in Calm(sz)
    BY <1>1, <1>3, <1>5, <1>8, <2>1, <2>2 DEF Calm
  <2>4. rest \in Seq(FittingRows(sz.width))
    <3>1. \A i \in 1 .. Len(rest) : rest[i] \in FittingRows(sz.width)
      BY <1>3, <2>1 DEF FittingRows
    <3>2. rest \in [1 .. Len(rest) -> FittingRows(sz.width)] /\ Len(rest) \in Nat
      BY <1>3, <3>1
    <3> QED BY ONLY <3>2, FunctionIsSeq
  <2>5. \A t \in Calm(sz), s \in FittingRows(sz.width) : WriteBelow(t, s) \in Calm(sz)
    BY WriteBelowDraws DEF Calm, FittingRows
  <2> QED BY ONLY <2>3, <2>4, <2>5, WriteFold!FoldType
<1> QED BY <1>6, <1>7, <1>8

-----------------------------------------------------------------------------
(* The rectangles of the client. *)

(* The sections of the client, however the terminal is divided.            *)
LEMMA ClientSections ==
  LET S == {Fill(1), Exact(1)}
  IN  /\ Sectional(S) /\ ClientLayout \in Seq(S) /\ Flat(ClientLayout)
      /\ Len(ClientLayout) = 3 /\ ClientLayout[1] = Fill(1)
      /\ ClientLayout[2] = Exact(1) /\ ClientLayout[3] = Exact(1)
<1>1. PICK a, b, S : a = Fill(1) /\ b = Exact(1) /\ S = {a, b}
  OBVIOUS
<1>2. /\ a.kind = "fill" /\ a.n = 1 /\ a.inner = <<>> /\ a.places = 1
      /\ b.kind = "exact" /\ b.n = 1 /\ b.inner = <<>> /\ b.places = 1
  BY <1>1 DEF Fill, Exact
<1>3. Sectional(S)
  BY ONLY <1>1, <1>2 DEF Sectional, IsLeaf
<1>4. PICK c : c = ClientLayout
  OBVIOUS
<1>5. c = <<a, b, b>>
  BY <1>1, <1>4 DEF ClientLayout
<1>6. a \in S /\ b \in S
  BY <1>1
<1>7. c \in Seq(S) /\ Len(c) = 3 /\ c[1] = a /\ c[2] = b /\ c[3] = b /\ DOMAIN c = 1 .. 3
  BY ONLY <1>5, <1>6
<1>8. \A i \in 1 .. 3 : i = 1 \/ i = 2 \/ i = 3
  OBVIOUS
<1>9. Flat(c)
  BY ONLY <1>2, <1>7, <1>8 DEF Flat, IsLeaf
<1> QED BY ONLY <1>1, <1>3, <1>4, <1>7, <1>9

LEMMA ThreeSums ==
  ASSUME NEW z \in Seq(Nat), Len(z) = 3
  PROVE  /\ z[1] \in Nat /\ z[2] \in Nat /\ z[3] \in Nat
         /\ SumTo(z, 0) = 0 /\ SumTo(z, 1) = z[1] /\ SumTo(z, 2) = z[1] + z[2]
         /\ SumTo(z, 3) = z[1] + z[2] + z[3]
<1>1. SumTo(z, 0) = 0 /\ \A k \in 1 .. 3 : SumTo(z, k) = SumTo(z, k - 1) + z[k]
  BY SumsTo
<1>2. 1 \in 1 .. 3 /\ 2 \in 1 .. 3 /\ 3 \in 1 .. 3 /\ 1 - 1 = 0 /\ 2 - 1 = 1 /\ 3 - 1 = 2
  OBVIOUS
<1>3. SumTo(z, 1) = SumTo(z, 0) + z[1] /\ SumTo(z, 2) = SumTo(z, 1) + z[2]
      /\ SumTo(z, 3) = SumTo(z, 2) + z[3]
  BY ONLY <1>1, <1>2
<1>4. z[1] \in Nat /\ z[2] \in Nat /\ z[3] \in Nat
  <2>1. \A i \in 1 .. 3 : z[i] \in Nat
    OBVIOUS
  <2> QED BY ONLY <1>2, <2>1
<1> QED BY ONLY <1>1, <1>3, <1>4

(* Three rows at least, and the parts are where they should be.            *)
LEMMA ClientSizes ==
  ASSUME NEW h \in Nat
  PROVE  /\ Aborts(ClientLayout, h) <=> h <= 2
         /\ h > 2 => /\ Size(ClientLayout, h, 1) = h - 2
                     /\ Size(ClientLayout, h, 2) = 1 /\ Size(ClientLayout, h, 3) = 1
<1>1. PICK S, c : S = {Fill(1), Exact(1)} /\ c = ClientLayout
  OBVIOUS
<1>2. /\ Sectional(S) /\ c \in Seq(S) /\ Len(c) = 3 /\ DOMAIN c = 1 .. 3
      /\ c[1].kind = "fill" /\ c[1].n = 1
      /\ c[2].kind = "exact" /\ c[2].n = 1 /\ c[3].kind = "exact" /\ c[3].n = 1
  BY <1>1, ClientSections DEF Fill, Exact
<1>3. ASSUME NEW kind PROVE AmountOf(kind, c) = (IF kind = "fill" THEN 1 ELSE 0) + (IF kind = "exact" THEN 2 ELSE 0)
  <2>1. PICK z : z = Amounts(kind, c)
    OBVIOUS
  <2>2. /\ z \in Seq(Nat) /\ Len(z) = 3 /\ AmountOf(kind, c) = SumTo(z, 3)
        /\ \A i \in 1 .. 3 : z[i] = IF c[i].kind = kind THEN c[i].n ELSE 0
    <3>1. /\ Amounts(kind, c) \in Seq(Nat) /\ Len(Amounts(kind, c)) = Len(c)
          /\ AmountOf(kind, c) = SumTo(Amounts(kind, c), Len(c))
          /\ \A i \in 1 .. Len(c) : Amounts(kind, c)[i] = IF c[i].kind = kind THEN c[i].n ELSE 0
      BY <1>2, AmountsType
    <3>2. Len(c) = 3
      BY <1>2
    <3> QED BY ONLY <2>1, <3>1, <3>2
  <2>4. SumTo(z, 3) = z[1] + z[2] + z[3] /\ z[1] \in Nat /\ z[2] \in Nat /\ z[3] \in Nat
    BY ONLY <2>2, ThreeSums
  <2> QED BY ONLY <1>2, <2>2, <2>4
<1>4. AmountOf("fill", c) = 1 /\ AmountOf("exact", c) = 2 /\ TotalWeight(c) = 1
  BY <1>3 DEF TotalWeight
<1>5. HasRoom(c, h) <=> h > 2
  <2>1. 1 \in DOMAIN c /\ 2 \in DOMAIN c
    BY <1>2
  <2>2. c[1].n > 0
    BY <1>2
  <2> QED BY ONLY <1>2, <1>4, <2>1, <2>2, h \in Nat DEF HasRoom
<1>6. Aborts(c, h) <=> h <= 2
  <2>1. /\ ~Aborts(c, h) => HasRoom(c, h)
        /\ TotalWeight(c) <= 255 /\ HasRoom(c, h) => ~Aborts(c, h)
    BY ONLY <1>2, h \in Nat, RoomDecides
  <2> QED BY ONLY <1>4, <1>5, <2>1, h \in Nat
<1>7. ASSUME h > 2 PROVE Size(c, h, 1) = h - 2 /\ Size(c, h, 2) = 1 /\ Size(c, h, 3) = 1
  <2>1. ~Aborts(c, h)
    BY <1>6, <1>7
  <2>2. PICK z : z = SizesOf(c, h)
    OBVIOUS
  <2>3. z \in Seq(Nat) /\ Len(z) = 3 /\ SumTo(z, 3) = h
    BY ONLY <1>2, <2>1, <2>2, h \in Nat, SizesSum
  <2>4. SizesAreFair(c, h)
    BY ONLY <1>2, <2>1, h \in Nat, FairSizes
  <2>5. \A i \in 1 .. 3 : z[i] = Size(c, h, i)
    BY ONLY <1>2, <2>2 DEF SizesOf
  <2>6. \A i \in 1 .. 3 : c[i].kind = "exact" => Size(c, h, i) = c[i].n
    BY ONLY <1>2, <2>4 DEF SizesAreFair
  <2>8. SumTo(z, 3) = z[1] + z[2] + z[3] /\ z[1] \in Nat /\ z[2] \in Nat /\ z[3] \in Nat
    BY ONLY <2>3, ThreeSums
  <2>9. z[2] = 1 /\ z[3] = 1
    BY <1>2, <2>5, <2>6
  <2> QED BY ONLY <2>3, <2>5, <2>8, <2>9, h \in Nat
<1> QED BY ONLY <1>1, <1>6, <1>7

ClientRects(sz) ==
  <<[x |-> 0, y |-> 0, width |-> sz.width, height |-> sz.height - 2],
    [x |-> 0, y |-> sz.height - 2, width |-> sz.width, height |-> 1],
    [x |-> 0, y |-> sz.height - 1, width |-> sz.width, height |-> 1]>>

LEMMA ClientDivided ==
  ASSUME NEW sz, IsSize(sz), sz.height > 2
  PROVE  LET area == [x |-> 0, y |-> 0, width |-> sz.width, height |-> sz.height]
             parts == Divide("vertical", ClientLayout, area)
             r == ClientRects(sz)
         IN  parts = <<[section |-> Fill(1), rect |-> r[1]], [section |-> Exact(1), rect |-> r[2]],
                       [section |-> Exact(1), rect |-> r[3]]>>
<1> DEFINE area == [x |-> 0, y |-> 0, width |-> sz.width, height |-> sz.height]
           r == ClientRects(sz)
<1>1. PICK w, h, c, z, parts :
        /\ w = sz.width /\ h = sz.height /\ c = ClientLayout /\ z = SizesOf(c, h)
        /\ parts = Divide("vertical", c, area)
  OBVIOUS
<1>2. w \in Nat /\ h \in Nat /\ h > 2 /\ ~(h <= 2)
  BY <1>1 DEF IsSize
<1>3. area.x = 0 /\ area.y = 0 /\ area.width = w /\ area.height = h
      /\ Extent("vertical", area) = h /\ Start("vertical", area) = 0
  BY <1>1 DEF Extent, Start
<1>4. Len(c) = 3 /\ DOMAIN c = 1 .. 3 /\ c[1] = Fill(1) /\ c[2] = Exact(1) /\ c[3] = Exact(1)
  BY <1>1, ClientSections
<1>5. z = [i \in 1 .. 3 |-> Size(c, h, i)]
  BY <1>1, <1>4 DEF SizesOf
<1>6. z[1] = h - 2 /\ z[2] = 1 /\ z[3] = 1
  BY <1>1, <1>2, <1>5, ClientSizes
<1>7. z \in Seq(Nat) /\ Len(z) = 3
  <2>1. ~Aborts(c, h)
    BY <1>1, <1>2, ClientSizes
  <2>2. Sectional({Fill(1), Exact(1)}) /\ c \in Seq({Fill(1), Exact(1)})
    BY <1>1, ClientSections
  <2> QED BY ONLY <1>1, <1>2, <1>4, <2>1, <2>2, SizesSum
<1>9. SumTo(z, 0) = 0 /\ SumTo(z, 1) = h - 2 /\ SumTo(z, 2) = h - 1
  BY ONLY <1>2, <1>6, <1>7, ThreeSums
<1>10. parts = [i \in 1 .. 3 |->
                  [section |-> c[i], rect |-> [area EXCEPT !.y = SumTo(z, i - 1), !.height = z[i]]]]
  <2> DEFINE sizes == [i \in DOMAIN c |-> Size(c, Extent("vertical", area), i)]
             pos == [i \in DOMAIN c |->
                       Start("vertical", area) + TotalOf(SubSeq(sizes, 1, i - 1))]
  <2>1. sizes = z
    BY <1>3, <1>4, <1>5
  <2>2. parts = [i \in DOMAIN c |->
                   [section |-> c[i], rect |-> Part("vertical", area, pos[i], sizes[i])]]
    BY <1>1 DEF Divide
  <2>3. \A i \in 1 .. 3 : pos[i] = 0 + SumTo(z, i - 1)
    BY <1>3, <1>4, <2>1 DEF SumTo
  <2>4. \A i \in 1 .. 3 : SumTo(z, i - 1) \in Nat
    <3>1. \A k \in 0 .. 3 : SumTo(z, k) \in Nat
      BY ONLY <1>7, SumsTo
    <3> QED BY <3>1
  <2>5. \A i \in 1 .. 3 : pos[i] = SumTo(z, i - 1)
    BY ONLY <2>3, <2>4
  <2> HIDE DEF sizes, pos
  <2>6. \A i \in 1 .. 3 : Part("vertical", area, pos[i], sizes[i])
                            = [area EXCEPT !.y = SumTo(z, i - 1), !.height = z[i]]
    BY <2>1, <2>5 DEF Part
  <2> HIDE DEF area
  <2> QED BY ONLY <1>4, <2>2, <2>6
<1>11. /\ [area EXCEPT !.y = SumTo(z, 0), !.height = z[1]] = r[1]
       /\ [area EXCEPT !.y = SumTo(z, 1), !.height = z[2]] = r[2]
       /\ [area EXCEPT !.y = SumTo(z, 2), !.height = z[3]] = r[3]
  <2>1. ASSUME NEW y, NEW d
        PROVE  [area EXCEPT !.y = y, !.height = d] = [x |-> 0, y |-> y, width |-> w, height |-> d]
    <3>1. PICK e : e = [area EXCEPT !.y = y, !.height = d]
      OBVIOUS
    <3>2. DOMAIN e = {"x", "y", "width", "height"} /\ e.x = 0 /\ e.y = y /\ e.width = w /\ e.height = d
      BY <1>1, <3>1
    <3>3. e = [i \in DOMAIN e |-> e[i]]
      BY <3>1
    <3> QED BY <3>1, <3>2, <3>3
  <2>2. /\ r[1] = [x |-> 0, y |-> 0, width |-> w, height |-> h - 2]
        /\ r[2] = [x |-> 0, y |-> h - 2, width |-> w, height |-> 1]
        /\ r[3] = [x |-> 0, y |-> h - 1, width |-> w, height |-> 1]
    BY <1>1 DEF ClientRects
  <2> HIDE DEF area, r
  <2>3. PICK s0, s1, s2, z1, z2, z3 :
          /\ s0 = SumTo(z, 0) /\ s1 = SumTo(z, 1) /\ s2 = SumTo(z, 2)
          /\ z1 = z[1] /\ z2 = z[2] /\ z3 = z[3]
    OBVIOUS
  <2>4. /\ [area EXCEPT !.y = s0, !.height = z1] = [x |-> 0, y |-> s0, width |-> w, height |-> z1]
        /\ [area EXCEPT !.y = s1, !.height = z2] = [x |-> 0, y |-> s1, width |-> w, height |-> z2]
        /\ [area EXCEPT !.y = s2, !.height = z3] = [x |-> 0, y |-> s2, width |-> w, height |-> z3]
    BY <2>1
  <2>5. s0 = 0 /\ s1 = h - 2 /\ s2 = h - 1 /\ z1 = h - 2 /\ z2 = 1 /\ z3 = 1
    BY ONLY <1>6, <1>9, <2>3
  <2> QED BY ONLY <2>2, <2>3, <2>4, <2>5
<1>12. /\ parts[1] = [section |-> Fill(1), rect |-> r[1]]
       /\ parts[2] = [section |-> Exact(1), rect |-> r[2]]
       /\ parts[3] = [section |-> Exact(1), rect |-> r[3]]
  <2> HIDE DEF area, r
  <2>1. 1 - 1 = 0 /\ 2 - 1 = 1 /\ 3 - 1 = 2
    OBVIOUS
  <2> QED BY ONLY <1>4, <1>10, <1>11, <2>1
<1>13. parts = <<parts[1], parts[2], parts[3]>>
  BY ONLY <1>10
<1> QED BY ONLY <1>1, <1>12, <1>13

(* Three elements. *)
LEMMA ThreeInRow ==
  ASSUME NEW a, NEW b, NEW c
  PROVE  /\ Head(<<a, b, c>>) = a /\ Tail(<<a, b, c>>) = <<b, c>> /\ <<a, b, c>> # <<>>
         /\ Head(<<b, c>>) = b /\ Tail(<<b, c>>) = <<c>> /\ <<b, c>> # <<>>
         /\ Head(<<c>>) = c /\ Tail(<<c>>) = <<>> /\ <<c>> # <<>>
<1>3. Head(<<a, b, c>>) = a /\ <<a, b, c>> # <<>> /\ Head(<<b, c>>) = b /\ <<b, c>> # <<>>
      /\ Head(<<c>>) = c /\ <<c>> # <<>>
  OBVIOUS
<1>4. Tail(<<a, b, c>>) = <<b, c>>
  OBVIOUS
<1>5. Tail(<<b, c>>) = <<c>>
  OBVIOUS
<1>6. Tail(<<c>>) = <<>>
  OBVIOUS
<1> QED BY <1>3, <1>4, <1>5, <1>6

LEMMA ThreeAppended ==
  ASSUME NEW a, NEW b, NEW c
  PROVE  Append(Append(Append(<<>>, a), b), c) = <<a, b, c>>
<1>1. PICK S : a \in S /\ b \in S /\ c \in S
  <2>1. a \in {a, b, c} /\ b \in {a, b, c} /\ c \in {a, b, c}
    OBVIOUS
  <2> QED BY <2>1
<1>2. PICK s, t, u : s = <<>> /\ t = <<a>> /\ u = <<a, b>>
  OBVIOUS
<1>3. Append(s, a) = t
  BY <1>2
<1>4. Append(t, b) = u
  <2>1. t \in Seq(S) /\ u \in Seq(S) /\ Len(t) = 1 /\ Len(u) = 2 /\ t[1] = a /\ u[1] = a /\ u[2] = b
    BY ONLY <1>1, <1>2
  <2>2. \A i \in 1 .. 2 : i = 1 \/ i = 2
    OBVIOUS
  <2>3. PICK v : v = Append(t, b)
    OBVIOUS
  <2>4. v \in Seq(S) /\ Len(v) = Len(t) + 1 /\ v[Len(t) + 1] = b /\ \A i \in 1 .. Len(t) : v[i] = t[i]
    <3>1. t \in Seq(S) /\ b \in S
      BY ONLY <1>1, <2>1
    <3>2. PICK x : x = t
      OBVIOUS
    <3>3. x \in Seq(S)
      BY ONLY <3>1, <3>2
    <3>4. v = Append(x, b)
      BY ONLY <2>3, <3>2
    <3>5. /\ Append(x, b) \in Seq(S) /\ Len(Append(x, b)) = Len(x) + 1 /\ Append(x, b)[Len(x) + 1] = b
          /\ \A i \in 1 .. Len(x) : Append(x, b)[i] = x[i]
      BY ONLY <3>1, <3>3, AppendParts
    <3> QED BY ONLY <3>2, <3>4, <3>5
  <2>5. Len(v) = 2 /\ v[1] = a /\ v[2] = b
    BY ONLY <2>1, <2>4
  <2>6. v = u
    BY ONLY <2>1, <2>2, <2>4, <2>5, SameElements
  <2> QED BY ONLY <2>3, <2>6
<1>5. Append(u, c) = <<a, b, c>>
  <2>1. PICK w : w = <<a, b, c>>
    OBVIOUS
  <2>2. u \in Seq(S) /\ w \in Seq(S) /\ Len(u) = 2 /\ Len(w) = 3 /\ u[1] = a /\ u[2] = b
        /\ w[1] = a /\ w[2] = b /\ w[3] = c
    BY ONLY <1>1, <1>2, <2>1
  <2>3. \A i \in 1 .. 3 : i = 1 \/ i = 2 \/ i = 3
    OBVIOUS
  <2>4. PICK v : v = Append(u, c)
    OBVIOUS
  <2>5. v \in Seq(S) /\ Len(v) = Len(u) + 1 /\ v[Len(u) + 1] = c /\ \A i \in 1 .. Len(u) : v[i] = u[i]
    BY ONLY <1>1, <2>2, <2>4, AppendParts
  <2>6. Len(v) = 3 /\ v[1] = a /\ v[2] = b /\ v[3] = c
    BY ONLY <2>2, <2>5
  <2>7. v = w
    BY ONLY <2>2, <2>3, <2>5, <2>6, SameElements
  <2> QED BY ONLY <2>1, <2>4, <2>7
<1> QED BY ONLY <1>2, <1>3, <1>4, <1>5

LEMMA PlaceSteps ==
  ASSUME NEW S, NEW s \in Seq(S), NEW base
  PROVE  \E h : /\ PlaceFold!Fold(base, s) = h[Len(s)]
                /\ h[0] = base
                /\ \A k \in 1 .. Len(s) : h[k] = Place(h[k - 1], s[k])
BY PlaceFold!FoldSteps

(* A leaf is done. *)
LEMMA LeafPlaced ==
  ASSUME NEW n, NEW out, NEW todo, todo # <<>>, IsLeaf(Head(todo).section)
  PROVE  Place([fate |-> "ok", rects |-> out, todo |-> todo], n)
           = [fate |-> "ok", rects |-> Append(out, Head(todo).rect), todo |-> Tail(todo)]
<1>1. PICK d, t, rest : d = [fate |-> "ok", rects |-> out, todo |-> todo] /\ t = Head(todo) /\ rest = Tail(todo)
  OBVIOUS
<1>2. d.todo = todo /\ d.rects = out
  BY <1>1
<1>3. Place(d, n) = [d EXCEPT !.rects = Append(out, t.rect), !.todo = rest]
  BY <1>1, <1>2 DEF Place
<1>4. Place(d, n) = [fate |-> "ok", rects |-> Append(out, t.rect), todo |-> rest]
  BY ONLY <1>1, <1>3, Replaced
<1> QED BY ONLY <1>1, <1>4

(* A client that has three rows is divided as its layout says, and one that *)
(* has fewer cannot be drawn.                                               *)
LEMMA ClientCalc ==
  ASSUME NEW sz, IsSize(sz)
  PROVE  LET done == Calc("vertical", ClientLayout, sz.width, sz.height)
         IN  /\ done.fate = "ok" <=> sz.height > 2
             /\ sz.height > 2 => done.rects = ClientRects(sz)
<1> DEFINE area == [x |-> 0, y |-> 0, width |-> sz.width, height |-> sz.height]
           r == ClientRects(sz)
<1>1. PICK S, c, dir, whole : /\ S = {Fill(1), Exact(1)} /\ c = ClientLayout
                              /\ dir = "vertical" /\ whole = Node(Fill(1), dir, c)
  OBVIOUS
<1>2. /\ Sectional(S) /\ c \in Seq(S) /\ Flat(c) /\ Len(c) = 3 /\ DOMAIN c = 1 .. 3
      /\ c[1] = Fill(1) /\ c[2] = Exact(1) /\ c[3] = Exact(1)
  BY <1>1, ClientSections
<1>3. area \in Rects /\ Extent("vertical", area) = sz.height
  BY DEF IsSize, Rects, Extent
<1>4. PICK done : done = CalcRecurse("vertical", c, area)
  OBVIOUS
<1>5. done = Calc("vertical", ClientLayout, sz.width, sz.height)
  BY <1>1, <1>4 DEF Calc
<1>6. \/ done.fate = "ok" /\ ~Aborts(c, sz.height)
      \/ done = Aborted /\ Aborts(c, sz.height)
  <2> HIDE DEF area
  <2> QED BY <1>2, <1>3, <1>4, CalcPlaces
<1>7. done.fate = "ok" <=> sz.height > 2
  <2>1. Aborts(c, sz.height) <=> sz.height <= 2
    BY <1>1, ClientSizes DEF IsSize
  <2>2. Aborted.fate # "ok"
    BY DEF Aborted
  <2>3. sz.height <= 2 <=> ~(sz.height > 2)
    BY DEF IsSize
  <2> QED BY ONLY <1>6, <2>1, <2>2, <2>3
<1>8. ASSUME sz.height > 2 PROVE done.rects = ClientRects(sz)
  <2> DEFINE base == [fate |-> "ok", rects |-> <<>>, todo |-> <<[section |-> whole, rect |-> area]>>]
             order == [n \in 1 .. whole.places |-> n]
  <2>1. /\ Places(c) = 3 /\ whole.places = 4 /\ ~IsLeaf(whole)
        /\ whole.inner[1].sections = c /\ whole.inner[1].direction = "vertical"
    <3>1. ~IsLeaf(whole) /\ whole.places = 1 + Places(c)
          /\ whole.inner[1].sections = c /\ whole.inner[1].direction = "vertical"
      <4>1. ~IsLeaf(whole) /\ whole.places = 1 + Places(c)
            /\ whole.inner[1].sections = c /\ whole.inner[1].direction = dir
        <5>1. Sectional(S) /\ c \in Seq(S)
          BY ONLY <1>2
        <5>2. whole = Node(Fill(1), dir, c)
          BY ONLY <1>1
        <5>3. PICK T : T = S \cup {whole}
          OBVIOUS
        <5>4. /\ Sectional(T) /\ ~IsLeaf(whole) /\ whole.places = 1 + Places(c)
              /\ whole.inner[1].sections = c /\ whole.inner[1].direction = dir
          BY ONLY <5>1, <5>2, <5>3, WholeSection
        <5> QED BY ONLY <5>4
      <4> QED BY ONLY <1>1, <4>1
    <3>2. PICK z : z = [i \in DOMAIN c |-> c[i].places]
      OBVIOUS
    <3>3. \A i \in 1 .. 3 : z[i] = 1
      BY <1>2, <3>2 DEF Fill, Exact
    <3>4. z \in Seq(Nat) /\ Len(z) = 3
      <4>1. z \in [1 .. 3 -> Nat] /\ 3 \in Nat
        BY ONLY <1>2, <3>2, <3>3
      <4> QED BY ONLY <4>1, FunctionIsSeq
    <3>5. SumTo(z, 3) = z[1] + z[2] + z[3]
      BY ONLY <3>4, ThreeSums
    <3>6. TotalOf(z) = 3
      <4>1. SumTo(z, Len(z)) = TotalOf(z)
        BY <3>4, SumsTo
      <4>2. z[1] = 1 /\ z[2] = 1 /\ z[3] = 1
        BY ONLY <3>3
      <4> QED BY ONLY <3>4, <3>5, <4>1, <4>2
    <3>7. Places(c) = 3
      BY <3>2, <3>6 DEF Places
    <3> QED BY ONLY <3>1, <3>7
  <2>2. done = FoldLeft(Place, base, order)
    BY <1>1, <1>4 DEF CalcRecurse
  <2>3. order \in Seq(Nat) /\ Len(order) = 4 /\ \A k \in 1 .. 4 : order[k] = k
    <3> QED BY <2>1
  <2>4. PICK h : /\ done = h[4] /\ h[0] = base
                 /\ \A k \in 1 .. 4 : h[k] = Place(h[k - 1], order[k])
    <3> HIDE DEF base, order
    <3>1. PICK s, d : s = order /\ d = base
      OBVIOUS
    <3>2. done = PlaceFold!Fold(d, s)
      BY <2>2, <3>1, PlaceFolded
    <3>3. s \in Seq(Nat) /\ Len(s) = 4 /\ \A k \in 1 .. 4 : s[k] = order[k]
      BY ONLY <2>3, <3>1
    <3>4. \E h : /\ PlaceFold!Fold(d, s) = h[Len(s)]
                 /\ h[0] = d
                 /\ \A k \in 1 .. Len(s) : h[k] = Place(h[k - 1], s[k])
      <4>1. s \in Seq(Nat)
        BY ONLY <3>3
      <4> QED BY ONLY <4>1, PlaceSteps
    <3> QED BY ONLY <3>1, <3>2, <3>3, <3>4
  <2>5. PICK t1, t2, t3, r1, r2, r3 :
          /\ r1 = r[1] /\ r2 = r[2] /\ r3 = r[3]
          /\ t1 = [section |-> Fill(1), rect |-> r1]
          /\ t2 = [section |-> Exact(1), rect |-> r2]
          /\ t3 = [section |-> Exact(1), rect |-> r3]
    OBVIOUS
  <2>6. Divide("vertical", c, area) = <<t1, t2, t3>>
    BY <1>1, <1>8, <2>5, ClientDivided
  <2>7. IsLeaf(t1.section) /\ IsLeaf(t2.section) /\ IsLeaf(t3.section)
    BY <2>5 DEF IsLeaf, Fill, Exact
  <2>8. t1.rect = r1 /\ t2.rect = r2 /\ t3.rect = r3
    BY ONLY <2>5
  <2>9. ~Aborts(c, Extent("vertical", area))
    BY <1>1, <1>3, <1>8, ClientSizes DEF IsSize
  <2>10. h[1] = [fate |-> "ok", rects |-> <<>>, todo |-> <<t1, t2, t3>>]
    <3> HIDE DEF area, r
    <3>1. h[1] = Place(base, order[1])
      BY <2>4
    <3>2. PICK top : top = [section |-> whole, rect |-> area]
      OBVIOUS
    <3>3. top.section = whole /\ top.rect = area
      BY ONLY <3>2
    <3>4. base.todo = <<top>> /\ base.todo # <<>> /\ Head(base.todo) = top /\ Tail(base.todo) = <<>>
      BY ONLY <3>2
    <3>5. Place(base, order[1]) = [base EXCEPT !.todo = <<t1, t2, t3>> \o <<>>]
      <4> HIDE DEF base
      <4> QED BY ONLY <2>1, <2>6, <2>9, <3>3, <3>4 DEF Place
    <3>6. <<t1, t2, t3>> \o <<>> = <<t1, t2, t3>>
      OBVIOUS
    <3> QED BY ONLY <3>1, <3>5, <3>6
  <2>12. PICK q1, q2, q3, none, e1, e2, e3 :
           /\ q1 = <<t1, t2, t3>> /\ q2 = <<t2, t3>> /\ q3 = <<t3>> /\ none = <<>>
           /\ e1 = Append(none, r1) /\ e2 = Append(e1, r2) /\ e3 = Append(e2, r3)
    OBVIOUS
  <2>13. /\ Head(q1) = t1 /\ Tail(q1) = q2 /\ q1 # <<>>
         /\ Head(q2) = t2 /\ Tail(q2) = q3 /\ q2 # <<>>
         /\ Head(q3) = t3 /\ Tail(q3) = none /\ q3 # <<>>
    <3>1. /\ Head(<<t1, t2, t3>>) = t1 /\ Tail(<<t1, t2, t3>>) = <<t2, t3>> /\ <<t1, t2, t3>> # <<>>
          /\ Head(<<t2, t3>>) = t2 /\ Tail(<<t2, t3>>) = <<t3>> /\ <<t2, t3>> # <<>>
          /\ Head(<<t3>>) = t3 /\ Tail(<<t3>>) = <<>> /\ <<t3>> # <<>>
      BY ONLY ThreeInRow
    <3>2. q1 = <<t1, t2, t3>> /\ q2 = <<t2, t3>> /\ q3 = <<t3>> /\ none = <<>>
      BY ONLY <2>12
    <3> QED BY ONLY <3>1, <3>2, Zenon
  <2>14. /\ h[2] = Place(h[1], order[2]) /\ h[3] = Place(h[2], order[3])
         /\ h[4] = Place(h[3], order[4])
    <3>1. 2 \in 1 .. 4 /\ 2 - 1 = 1 /\ 3 \in 1 .. 4 /\ 3 - 1 = 2 /\ 4 \in 1 .. 4 /\ 4 - 1 = 3
      OBVIOUS
    <3> QED BY ONLY <2>4, <3>1
  <2>15. h[1] = [fate |-> "ok", rects |-> none, todo |-> q1]
    BY ONLY <2>10, <2>12
  <2>16. h[2] = [fate |-> "ok", rects |-> e1, todo |-> q2]
    <3>1. Head(q1) = t1 /\ Tail(q1) = q2 /\ q1 # <<>> /\ IsLeaf(t1.section)
      BY ONLY <2>7, <2>13
    <3>2. Place([fate |-> "ok", rects |-> none, todo |-> q1], order[2])
            = [fate |-> "ok", rects |-> Append(none, Head(q1).rect), todo |-> Tail(q1)]
      BY ONLY <3>1, LeafPlaced
    <3>3. Append(none, Head(q1).rect) = e1
      BY ONLY <2>8, <2>12, <3>1
    <3> QED BY ONLY <2>14, <2>15, <3>1, <3>2, <3>3, Zenon
  <2>17. h[3] = [fate |-> "ok", rects |-> e2, todo |-> q3]
    <3>1. Head(q2) = t2 /\ Tail(q2) = q3 /\ q2 # <<>> /\ IsLeaf(t2.section)
      BY ONLY <2>7, <2>13
    <3>2. Place([fate |-> "ok", rects |-> e1, todo |-> q2], order[3])
            = [fate |-> "ok", rects |-> Append(e1, Head(q2).rect), todo |-> Tail(q2)]
      BY ONLY <3>1, LeafPlaced
    <3>3. Append(e1, Head(q2).rect) = e2
      BY ONLY <2>8, <2>12, <3>1
    <3> QED BY ONLY <2>14, <2>16, <3>1, <3>2, <3>3, Zenon
  <2>18. h[4] = [fate |-> "ok", rects |-> e3, todo |-> none]
    <3>1. Head(q3) = t3 /\ Tail(q3) = none /\ q3 # <<>> /\ IsLeaf(t3.section)
      BY ONLY <2>7, <2>13
    <3>2. Place([fate |-> "ok", rects |-> e2, todo |-> q3], order[4])
            = [fate |-> "ok", rects |-> Append(e2, Head(q3).rect), todo |-> Tail(q3)]
      BY ONLY <3>1, LeafPlaced
    <3>3. Append(e2, Head(q3).rect) = e3
      BY ONLY <2>8, <2>12, <3>1
    <3> QED BY ONLY <2>14, <2>17, <3>1, <3>2, <3>3, Zenon
  <2>19. done.rects = <<r1, r2, r3>>
    <3>1. e3 = <<r1, r2, r3>>
      BY ONLY <2>12, ThreeAppended
    <3> QED BY ONLY <2>4, <2>18, <3>1
  <2>20. ClientRects(sz) = <<r1, r2, r3>>
    BY ONLY <2>5 DEF ClientRects
  <2> QED BY ONLY <2>19, <2>20
<1> QED BY ONLY <1>5, <1>7, <1>8

-----------------------------------------------------------------------------
(* The parts. *)

(* A text is wrapped into one row at least, and the rows fit if no word is  *)
(* cut in a wide grapheme.                                                  *)
LEMMA WrapType ==
  ASSUME NEW width \in Nat, NEW text \in Seq(Rows)
  PROVE  LET page == WordWrap(text, width)
         IN  /\ page.fate \in {"ok", "aborted"} /\ page.rows \in Seq(Rows) \ {<<>>}
             /\ ~SplitsWide(text, width) =>
                  /\ width > 0 => page.fate = "ok"
                  /\ \A i \in DOMAIN page.rows : ColumnsOf(page.rows[i]) <= width
<1>1. PICK page : page = WordWrap(text, width)
  OBVIOUS
<1>2. page \in WrappedTo(text, width, Len(text))
  BY <1>1, WordWrapped DEF Rows
<1>3. page \in Pages(width) /\ (~SplitsWide(text, width) => RowsFit(page) /\ (width > 0 => page.fate = "ok"))
  BY ONLY <1>2 DEF WrappedTo
<1>4. page.fate \in {"ok", "aborted"} /\ page.rows \in Seq(Rows) /\ page.rows # <<>> /\ page.width = width
  BY ONLY <1>3, PageFields DEF Rows
<1>5. RowsFit(page) => \A i \in DOMAIN page.rows : ColumnsOf(page.rows[i]) <= width
  BY ONLY <1>4 DEF RowsFit
<1> QED BY ONLY <1>1, <1>3, <1>4, <1>5

(* What is drawn so far of the main part, if the texts it consists of are   *)
(* in X and the fates in F.                                                 *)
Above(rect, X, F) ==
  [texts : Seq(X), fate : F, y : Int, full : BOOLEAN, rect : {rect}]

LEMMA AboveIs ==
  ASSUME NEW rect, NEW X, NEW F, NEW t \in Seq(X), NEW f \in F, NEW y \in Int, NEW u \in BOOLEAN
  PROVE  [texts |-> t, fate |-> f, y |-> y, full |-> u, rect |-> rect] \in Above(rect, X, F)
BY DEF Above

LEMMA DrawLineKeeps ==
  ASSUME NEW rect, NEW X, NEW F, NEW text, NEW above \in Above(rect, X, F),
         LET page == WordWrap(text, rect.width)
         IN  /\ page.fate \in F /\ (page.fate # "ok" => page.fate = "aborted")
             /\ Len(page.rows) \in Nat /\ \A y \in Int : [y |-> y, rows |-> page.rows] \in X
  PROVE  DrawLine(above, text) \in Above(rect, X, F)
<1>1. PICK t, f, y, u, page, new :
        /\ above = [texts |-> t, fate |-> f, y |-> y, full |-> u, rect |-> rect]
        /\ t \in Seq(X) /\ f \in F /\ y \in Int /\ u \in BOOLEAN
        /\ page = WordWrap(text, rect.width) /\ new = [y |-> y - Len(page.rows), rows |-> page.rows]
  <2>1. /\ above = [texts |-> above.texts, fate |-> above.fate, y |-> above.y, full |-> above.full, rect |-> rect]
        /\ above.texts \in Seq(X) /\ above.fate \in F /\ above.y \in Int /\ above.full \in BOOLEAN
    BY DEF Above
  <2> QED BY <2>1
<1>2. /\ page.fate \in F /\ (page.fate # "ok" => page.fate = "aborted")
      /\ Len(page.rows) \in Nat /\ \A z \in Int : [y |-> z, rows |-> page.rows] \in X
  BY <1>1
<1>3. above.rect = rect /\ above.texts = t /\ above.y = y /\ above.full = u
  BY <1>1
<1>4. y - Len(page.rows) \in Int /\ new \in X
  BY <1>1, <1>2
<1>5. CASE above.full \/ (page.fate = "ok" /\ rect.y + Len(page.rows) > y)
  <2>1. DrawLine(above, text) = [above EXCEPT !.full = TRUE]
    BY <1>1, <1>3, <1>5 DEF DrawLine
  <2>2. DrawLine(above, text) = [texts |-> t, fate |-> f, y |-> y, full |-> TRUE, rect |-> rect]
    BY ONLY <1>1, <2>1
  <2>3. TRUE \in BOOLEAN
    OBVIOUS
  <2> QED BY ONLY <1>1, <2>2, <2>3, AboveIs
<1>6. CASE ~above.full /\ page.fate # "ok"
  <2>1. DrawLine(above, text) = [above EXCEPT !.fate = "aborted", !.full = TRUE]
    BY <1>1, <1>3, <1>6 DEF DrawLine
  <2>2. DrawLine(above, text) = [texts |-> t, fate |-> "aborted", y |-> y, full |-> TRUE, rect |-> rect]
    <3>1. PICK e : e = [above EXCEPT !.fate = "aborted", !.full = TRUE]
      OBVIOUS
    <3>2. DOMAIN e = {"texts", "fate", "y", "full", "rect"} /\ e.texts = t /\ e.fate = "aborted"
          /\ e.y = y /\ e.full = TRUE /\ e.rect = rect
      BY ONLY <1>1, <3>1
    <3>3. e = [i \in DOMAIN e |-> e[i]]
      BY ONLY <1>1, <3>1
    <3>4. e = [texts |-> t, fate |-> "aborted", y |-> y, full |-> TRUE, rect |-> rect]
      BY ONLY <3>2, <3>3
    <3> QED BY ONLY <2>1, <3>1, <3>4
  <2>3. "aborted" \in F
    BY <1>2, <1>6
  <2>4. TRUE \in BOOLEAN
    OBVIOUS
  <2> QED BY ONLY <1>1, <2>2, <2>3, <2>4, AboveIs
<1>7. CASE ~above.full /\ page.fate = "ok" /\ ~(rect.y + Len(page.rows) > y)
  <2>1. DrawLine(above, text) = [above EXCEPT !.texts = Append(t, new), !.y = y - Len(page.rows)]
    <3>1. /\ ~(above.full \/ (page.fate = "ok" /\ above.rect.y + Len(page.rows) > above.y))
          /\ ~(~above.full /\ page.fate # "ok")
      BY ONLY <1>3, <1>7
    <3> QED BY <1>1, <1>3, <3>1 DEF DrawLine
  <2>2. PICK a, z : a = Append(t, new) /\ z = y - Len(page.rows)
    OBVIOUS
  <2>3. DrawLine(above, text) = [texts |-> a, fate |-> f, y |-> z, full |-> u, rect |-> rect]
    <3>1. PICK e : e = [above EXCEPT !.texts = a, !.y = z]
      OBVIOUS
    <3>2. DOMAIN e = {"texts", "fate", "y", "full", "rect"} /\ e.texts = a /\ e.fate = f
          /\ e.y = z /\ e.full = u /\ e.rect = rect
      BY ONLY <1>1, <3>1
    <3>3. e = [i \in DOMAIN e |-> e[i]]
      BY ONLY <1>1, <3>1
    <3>4. e = [texts |-> a, fate |-> f, y |-> z, full |-> u, rect |-> rect]
      BY ONLY <3>2, <3>3
    <3> QED BY ONLY <2>1, <2>2, <3>1, <3>4
  <2>4. a \in Seq(X)
    BY ONLY <1>1, <1>4, <2>2, AppendParts
  <2> QED BY ONLY <1>1, <1>4, <2>2, <2>3, <2>4, AboveIs
<1> QED BY <1>5, <1>6, <1>7

LEMMA ReverseType ==
  ASSUME NEW S, NEW s \in Seq(S)
  PROVE  Reverse(s) \in Seq(S) /\ Len(Reverse(s)) = Len(s) /\ Len(s) \in Nat
         /\ \A i \in 1 .. Len(s) : Reverse(s)[i] = s[(Len(s) - i) + 1]
<1>1. Len(s) \in Nat /\ \A i \in 1 .. Len(s) : (Len(s) - i) + 1 \in 1 .. Len(s)
  OBVIOUS
<1>2. PICK r : r = [i \in 1 .. Len(s) |-> s[(Len(s) - i) + 1]]
  OBVIOUS
<1>3. r \in [1 .. Len(s) -> S]
  BY <1>1, <1>2
<1>4. r \in Seq(S) /\ Len(r) = Len(s)
  BY ONLY <1>1, <1>3, FunctionIsSeq
<1>5. Reverse(s) = r
  BY <1>2 DEF Reverse
<1> QED BY ONLY <1>1, <1>2, <1>4, <1>5

(* The lines that are not hidden. *)
LEMMA NotHiddenType ==
  ASSUME NEW S, NEW all \in Seq(S), NEW hidden \in Nat
  PROVE  NotHidden(all, hidden) \in Seq(S)
<1>1. Len(all) \in Nat
  OBVIOUS
<1>2. PICK n : n = IF hidden < Len(all) THEN Len(all) - hidden ELSE 0
  OBVIOUS
<1>3. n \in 0 .. Len(all)
  BY <1>1, <1>2
<1>4. NotHidden(all, hidden) = SubSeq(all, 1, n)
  BY <1>2 DEF NotHidden
<1> QED BY <1>3, <1>4, PrefixParts

LEMMA MainPart ==
  ASSUME NEW rect, rect.y \in Int, rect.height \in Int, NEW X, NEW F, "ok" \in F,
         NEW T, NEW all \in Seq(T), NEW hidden \in Nat,
         \A text \in T :
           LET page == WordWrap(text, rect.width)
           IN  /\ page.fate \in F /\ (page.fate # "ok" => page.fate = "aborted")
               /\ Len(page.rows) \in Nat /\ \A y \in Int : [y |-> y, rows |-> page.rows] \in X
  PROVE  LET part == DrawMain(rect, NotHidden(all, hidden))
         IN  part.fate \in F /\ part.texts \in Seq(X)
<1>1. PICK some, s, base : /\ some = NotHidden(all, hidden) /\ s = Reverse(some)
                           /\ base = [texts |-> <<>>, fate |-> "ok", y |-> rect.y + rect.height,
                                      full |-> FALSE, rect |-> rect]
  OBVIOUS
<1>2. s \in Seq(T)
  BY ONLY <1>1, all \in Seq(T), hidden \in Nat, NotHiddenType, ReverseType
<1>3. base \in Above(rect, X, F)
  BY <1>1 DEF Above
<1>4. \A a \in Above(rect, X, F), text \in T : DrawLine(a, text) \in Above(rect, X, F)
  BY DrawLineKeeps
<1>5. LineFold!Fold(base, s) \in Above(rect, X, F)
  BY ONLY <1>2, <1>3, <1>4, LineFold!FoldType
<1>6. DrawMain(rect, some) = LineFold!Fold(base, s)
  BY <1>1, LineFolded DEF DrawMain
<1> QED BY ONLY <1>1, <1>5, <1>6 DEF Above

(* One row of one row is a text. *)
LEMMA OneRow ==
  ASSUME NEW y \in Int, NEW s \in Rows
  PROVE  /\ [y |-> y, rows |-> <<s>>] \in Textual
         /\ \A width \in Int : ColumnsOf(s) <= width => [y |-> y, rows |-> <<s>>] \in FittingTexts(width)
<1>1. PICK r : r = <<s>>
  OBVIOUS
<1>2. r \in Seq(Rows) /\ r # <<>> /\ DOMAIN r = {1} /\ r[1] = s
  BY <1>1
<1>3. [y |-> y, rows |-> r] \in Textual
  BY ONLY <1>2, y \in Int DEF Textual
<1>4. ASSUME NEW width \in Int, ColumnsOf(s) <= width
      PROVE  [y |-> y, rows |-> r] \in FittingTexts(width)
  BY ONLY <1>2, <1>3, <1>4 DEF FittingTexts
<1> QED BY ONLY <1>1, <1>3, <1>4

LEMMA StatusPart ==
  ASSUME NEW rect, rect.y \in Int, rect.width \in Nat, NEW text \in Seq(Rows)
  PROVE  LET part == DrawStatus(rect, text)
         IN  /\ part.fate \in {"ok", "aborted"} /\ part.texts \in Seq(Textual)
             /\ ~SplitsWide(text, rect.width) =>
                  /\ rect.width > 0 => part.fate = "ok"
                  /\ part.texts \in Seq(FittingTexts(rect.width))
<1>1. PICK page, part, new : /\ page = WordWrap(text, rect.width) /\ part = DrawStatus(rect, text)
                             /\ new = [y |-> rect.y, rows |-> page.rows]
  OBVIOUS
<1>2. /\ page.fate \in {"ok", "aborted"} /\ page.rows \in Seq(Rows) \ {<<>>}
      /\ ~SplitsWide(text, rect.width) =>
           /\ rect.width > 0 => page.fate = "ok"
           /\ \A i \in DOMAIN page.rows : ColumnsOf(page.rows[i]) <= rect.width
  BY <1>1, WrapType
<1>3. new \in Textual /\ new.rows = page.rows
  BY ONLY <1>1, <1>2, rect.y \in Int DEF Textual
<1>4. ~SplitsWide(text, rect.width) => new \in FittingTexts(rect.width)
  BY ONLY <1>2, <1>3 DEF FittingTexts
<1>5. CASE page.fate = "ok"
  <2>1. part = [fate |-> "ok", texts |-> <<new>>]
    BY <1>1, <1>5 DEF DrawStatus, Drawn
  <2>2. \A S : new \in S => <<new>> \in Seq(S)
    OBVIOUS
  <2>3. part.fate = "ok" /\ part.texts = <<new>>
    BY ONLY <2>1
  <2> QED BY ONLY <1>1, <1>3, <1>4, <2>2, <2>3
<1>6. CASE page.fate # "ok"
  <2>1. part.fate = "aborted" /\ part.texts = <<>>
    BY <1>1, <1>6 DEF DrawStatus, Failed
  <2>2. \A S : <<>> \in Seq(S)
    OBVIOUS
  <2> QED BY ONLY <1>1, <1>2, <1>6, <2>1, <2>2
<1> QED BY <1>5, <1>6

LEMMA VisibleType ==
  ASSUME NEW typed \in Rows, NEW width \in Nat
  PROVE  /\ Visible(typed, width) \in Rows /\ Len(Visible(typed, width)) <= width
         /\ Narrow(typed) => Narrow(Visible(typed, width))
<1>1. PICK l, m : l = Len(typed) /\ m = 1 + (IF width < l THEN l - width ELSE 0)
  OBVIOUS
<1>2. typed \in Seq(Graphemes) /\ l \in Nat
  BY <1>1 DEF Rows
<1>3. m \in Nat \ {0} /\ m >= 1 /\ m <= l + 1 /\ l - m + 1 <= width
  BY ONLY <1>1, <1>2, width \in Nat
<1>4. Visible(typed, width) = SubSeq(typed, m, l)
  BY <1>1 DEF Visible
<1>5. SubSeq(typed, m, l) \in Seq(Graphemes)
  BY ONLY <1>1, <1>2, <1>3
<1>6. Len(SubSeq(typed, m, l)) <= width
  <2>1. PICK k : k = m - 1
    OBVIOUS
  <2>2. k \in 0 .. Len(typed) /\ m = k + 1 /\ Len(typed) - k <= width
    BY ONLY <1>1, <1>2, <1>3, <2>1
  <2>3. Len(SubSeq(typed, k + 1, Len(typed))) = Len(typed) - k
    BY ONLY <1>2, <2>2, SplitAt
  <2> QED BY ONLY <1>1, <2>2, <2>3
<1>7. Narrow(typed) => Narrow(SubSeq(typed, m, l))
  <2>1. l \in 0 .. Len(typed)
    BY <1>1, <1>2
  <2> QED BY ONLY <1>2, <1>3, <2>1, NarrowPart
<1> QED BY <1>3, <1>4, <1>5, <1>6, <1>7 DEF Rows

LEMMA TruncateType ==
  ASSUME NEW s \in Rows, NEW width \in Nat
  PROVE  /\ Truncate(s, width) \in Rows /\ Len(Truncate(s, width)) <= width
         /\ Len(s) <= width => Truncate(s, width) = s
         /\ Narrow(s) => Narrow(Truncate(s, width))
<1>1. PICK n : n = IF width < Len(s) THEN width ELSE Len(s)
  OBVIOUS
<1>2. s \in Seq(Graphemes) /\ Len(s) \in Nat
  BY DEF Rows
<1>3. n \in 0 .. Len(s) /\ n <= width /\ (Len(s) <= width => n = Len(s))
  BY ONLY <1>1, <1>2, width \in Nat
<1>4. Truncate(s, width) = SubSeq(s, 1, n)
  BY <1>1 DEF Truncate
<1>5. SubSeq(s, 1, n) \in Seq(Graphemes) /\ Len(SubSeq(s, 1, n)) = n
  BY ONLY <1>2, <1>3, PrefixParts
<1>6. SubSeq(s, 1, Len(s)) = s
  BY ONLY <1>2
<1>7. Narrow(s) => Narrow(SubSeq(s, 1, n))
  <2>1. 1 \in Nat \ {0}
    OBVIOUS
  <2> QED BY ONLY <1>2, <1>3, <2>1, NarrowPart
<1> QED BY ONLY <1>3, <1>4, <1>5, <1>6, <1>7 DEF Rows

LEMMA InputPart ==
  ASSUME NEW rect, rect.y \in Int, rect.width \in Nat, NEW typed \in Rows
  PROVE  LET part == DrawInput(rect, typed)
         IN  /\ part.fate \in {"ok", "aborted"} /\ part.texts \in Seq(Textual)
             /\ rect.width > 2 => part.fate = "ok"
             /\ Narrow(typed) => part.texts \in Seq(FittingTexts(rect.width))
<1>1. PICK width, s, part, one, two :
        /\ width = InputWidth(rect) /\ s = Truncate(Visible(typed, width), rect.width)
        /\ part = DrawInput(rect, typed)
        /\ one = [y |-> rect.y, rows |-> <<<<>>>>] /\ two = [y |-> rect.y, rows |-> <<s>>]
  OBVIOUS
<1>2. width \in Nat /\ (rect.width > 2 => width # 1)
  BY <1>1 DEF InputWidth
<1>3. s \in Rows /\ Len(s) <= rect.width /\ (Narrow(typed) => Narrow(s))
  BY <1>1, <1>2, VisibleType, TruncateType
<1>4. <<>> \in Rows /\ ColumnsOf(<<>>) <= rect.width
  BY ColumnsEmpty DEF Rows
<1>5. one \in Textual /\ one \in FittingTexts(rect.width)
  <2>1. rect.width \in Int
    OBVIOUS
  <2> QED BY ONLY <1>1, <1>4, <2>1, rect.y \in Int, OneRow
<1>6. two \in Textual /\ (ColumnsOf(s) <= rect.width => two \in FittingTexts(rect.width))
  <2>1. rect.width \in Int
    OBVIOUS
  <2> QED BY ONLY <1>1, <1>3, <2>1, rect.y \in Int, OneRow
<1>7. Narrow(s) => ColumnsOf(s) <= rect.width
  <2>1. s \in Seq(Graphemes) /\ Len(s) \in Nat /\ ColumnsOf(s) \in Nat
    BY <1>3, ColumnsType DEF Rows
  <2> QED BY <1>3, <2>1, NarrowColumns
<1>8. CASE width = 1 /\ typed = <<>>
  <2>1. part.fate = "aborted" /\ part.texts = <<>>
    BY <1>1, <1>8 DEF DrawInput, Failed
  <2>2. \A S : <<>> \in Seq(S)
    OBVIOUS
  <2> QED BY ONLY <1>1, <1>2, <1>8, <2>1, <2>2
<1>9. CASE ~(width = 1 /\ typed = <<>>)
  <2>1. part = [fate |-> "ok", texts |-> <<one, two>>]
    BY <1>1, <1>9 DEF DrawInput, Drawn
  <2>2. \A S : one \in S /\ two \in S => <<one, two>> \in Seq(S)
    OBVIOUS
  <2>3. part.fate = "ok" /\ part.texts = <<one, two>>
    BY ONLY <2>1
  <2> QED BY ONLY <1>1, <1>3, <1>5, <1>6, <1>7, <2>2, <2>3
<1> QED BY <1>8, <1>9

-----------------------------------------------------------------------------
(* A rendering. *)

(* What all the parts draw, if none fails.                                  *)
TextsOf(parts) == FlattenSeq([i \in DOMAIN parts |-> parts[i].texts])

LEMMA TextsType ==
  ASSUME NEW X, NEW n \in Nat, NEW parts, DOMAIN parts = 1 .. n,
         \A i \in 1 .. n : parts[i].texts \in Seq(X)
  PROVE  TextsOf(parts) \in Seq(X)
<1>1. PICK s : s = [i \in DOMAIN parts |-> parts[i].texts]
  OBVIOUS
<1>2. PICK Y : Y = Seq(X)
  OBVIOUS
<1>3. s \in [1 .. n -> Y]
  BY <1>1, <1>2
<1>4. s \in Seq(Y)
  BY ONLY <1>3, n \in Nat, FunctionIsSeq
<1>5. FlattenSeq(s) \in Seq(X)
  BY ONLY <1>2, <1>4, FlattenType
<1> QED BY <1>1, <1>5 DEF TextsOf

LEMMA TextsDraw ==
  ASSUME NEW sz, IsSize(sz), NEW texts \in Seq(Textual)
  PROVE  /\ FoldLeft(DrawText, Clear(sz), texts) \in Terms(sz)
         /\ texts \in Seq(FittingTexts(sz.width)) => FoldLeft(DrawText, Clear(sz), texts) \in Calm(sz)
<1>1. PICK base : base = Clear(sz)
  OBVIOUS
<1>2. FoldLeft(DrawText, Clear(sz), texts) = TextFold!Fold(base, texts)
  BY <1>1, TextFolded
<1>3. base \in Terms(sz) /\ base \in Calm(sz)
  BY <1>1, ClearIsTerm DEF Calm
<1>4. \A t \in Terms(sz), text \in Textual : DrawText(t, text) \in Terms(sz)
  BY DrawTextDraws
<1>5. TextFold!Fold(base, texts) \in Terms(sz)
  BY ONLY <1>3, <1>4, texts \in Seq(Textual), TextFold!FoldType
<1>6. ASSUME texts \in Seq(FittingTexts(sz.width))
      PROVE  TextFold!Fold(base, texts) \in Calm(sz)
  <2>1. \A t \in Calm(sz), text \in FittingTexts(sz.width) : DrawText(t, text) \in Calm(sz)
    BY DrawTextDraws DEF Calm, FittingTexts
  <2> QED BY ONLY <1>3, <1>6, <2>1, TextFold!FoldType
<1> QED BY ONLY <1>2, <1>5, <1>6

LEMMA PutDraws ==
  ASSUME NEW sz, IsSize(sz), NEW n \in Nat, NEW parts, DOMAIN parts = 1 .. n,
         \A i \in 1 .. n : parts[i].texts \in Seq(Textual)
  PROVE  LET drawn == Put(sz, parts)
         IN  /\ drawn.term \in Terms(sz) /\ drawn.fate \in {"ok", "aborted"}
             /\ drawn.fate = "ok" <=> \A i \in 1 .. n : parts[i].fate = "ok"
             /\ (\A i \in 1 .. n : parts[i].texts \in Seq(FittingTexts(sz.width)))
                  => ~drawn.term.scrambled
             /\ drawn.fate = "ok" => drawn.term = FoldLeft(DrawText, Clear(sz), TextsOf(parts))
<1>1. PICK drawn, fails, texts :
        /\ drawn = Put(sz, parts) /\ fails = (\E i \in DOMAIN parts : parts[i].fate # "ok")
        /\ texts = IF fails THEN <<>> ELSE TextsOf(parts)
  OBVIOUS
<1>2. drawn = [fate |-> IF fails THEN "aborted" ELSE "ok", term |-> FoldLeft(DrawText, Clear(sz), texts)]
  BY <1>1 DEF Put, TextsOf
<1>3. drawn.fate = (IF fails THEN "aborted" ELSE "ok") /\ drawn.term = FoldLeft(DrawText, Clear(sz), texts)
  BY ONLY <1>2
<1>4. texts \in Seq(Textual)
  <2>1. TextsOf(parts) \in Seq(Textual)
    BY TextsType
  <2>2. <<>> \in Seq(Textual)
    OBVIOUS
  <2> QED BY ONLY <1>1, <2>1, <2>2
<1>5. ASSUME \A i \in 1 .. n : parts[i].texts \in Seq(FittingTexts(sz.width))
      PROVE  texts \in Seq(FittingTexts(sz.width))
  <2>1. TextsOf(parts) \in Seq(FittingTexts(sz.width))
    BY <1>5, TextsType
  <2>2. <<>> \in Seq(FittingTexts(sz.width))
    OBVIOUS
  <2> QED BY ONLY <1>1, <2>1, <2>2
<1>6. fails <=> ~(\A i \in 1 .. n : parts[i].fate = "ok")
  BY <1>1
<1>7. drawn.term \in Terms(sz) /\ (texts \in Seq(FittingTexts(sz.width)) => ~drawn.term.scrambled)
  BY <1>3, <1>4, TextsDraw DEF Calm
<1>8. drawn.fate = "ok" => texts = TextsOf(parts)
  BY <1>1, <1>3
<1> QED BY <1>1, <1>3, <1>5, <1>6, <1>7, <1>8

(* No grapheme that takes more than a column is cut in what is drawn.       *)
NoneCut(window, all, width) ==
  /\ \A i \in DOMAIN all : ~SplitsWide(all[i], width)
  /\ ~SplitsWide(StatusLine[window], width)

LEMMA RenderDraws ==
  ASSUME NEW sz, IsSize(sz), NEW window \in Windows, NEW all \in Seq(Texts), NEW hidden \in Nat,
         NEW typed \in Rows, NEW drawn \in Render(sz, window, all, hidden, typed)
  PROVE  /\ drawn.term \in Terms(sz) /\ drawn.fate \in {"ok", "aborted"}
         /\ sz.height > 2 /\ sz.width > 2 /\ NoneCut(window, all, sz.width) => drawn.fate = "ok"
         /\ NoneCut(window, all, sz.width) /\ Narrow(typed) => ~drawn.term.scrambled
<1>1. PICK layout, parts, w, h :
        /\ layout = Calc("vertical", ClientLayout, sz.width, sz.height)
        /\ parts = Parts(layout, window, all, hidden, typed) /\ drawn = Put(sz, parts)
        /\ w = sz.width /\ h = sz.height
  BY DEF Render
<1>2. w \in Nat /\ h \in Nat
  BY <1>1 DEF IsSize
<1>3. (layout.fate = "ok" <=> h > 2) /\ (h > 2 => layout.rects = ClientRects(sz))
  BY <1>1, ClientCalc
<1>4. \A text \in Texts : text \in Seq(Rows)
  BY TheyAreTexts DEF IsText, Rows
<1>5. CASE h <= 2
  <2>1. parts = <<Failed>>
    <3>1. layout.fate # "ok"
      BY ONLY <1>2, <1>3, <1>5
    <3> QED BY <1>1, <3>1 DEF Parts
  <2>2. Failed.fate = "aborted" /\ Failed.texts = <<>>
    BY DEF Failed
  <2>3. 1 \in Nat /\ DOMAIN parts = 1 .. 1 /\ \A i \in 1 .. 1 : parts[i] = Failed
    BY ONLY <2>1
  <2>4. \A S : <<>> \in Seq(S)
    OBVIOUS
  <2>5. \A i \in 1 .. 1 : /\ parts[i].texts \in Seq(Textual)
                          /\ parts[i].texts \in Seq(FittingTexts(w))
    BY ONLY <2>2, <2>3, <2>4
  <2>6. drawn.term \in Terms(sz) /\ drawn.fate \in {"ok", "aborted"} /\ ~drawn.term.scrambled
    BY <1>1, <2>3, <2>5, PutDraws
  <2> QED BY ONLY <1>1, <1>2, <1>5, <2>6
<1>6. CASE h > 2
  <2> DEFINE p1 == DrawMain(layout.rects[1], NotHidden(all, hidden))
             p2 == DrawStatus(layout.rects[2], StatusLine[window])
             p3 == DrawInput(layout.rects[3], typed)
  <2>1. parts = <<p1, p2, p3>>
    <3>1. layout.fate = "ok"
      BY ONLY <1>3, <1>6
    <3> QED BY <1>1, <3>1 DEF Parts
  <2>2. PICK r1, r2, r3 : r1 = layout.rects[1] /\ r2 = layout.rects[2] /\ r3 = layout.rects[3]
    OBVIOUS
  <2>3. /\ r1 = [x |-> 0, y |-> 0, width |-> w, height |-> h - 2]
        /\ r2 = [x |-> 0, y |-> h - 2, width |-> w, height |-> 1]
        /\ r3 = [x |-> 0, y |-> h - 1, width |-> w, height |-> 1]
    BY <1>1, <1>3, <1>6, <2>2 DEF ClientRects
  <2>4. /\ r1.y \in Int /\ r1.height \in Int /\ r1.width = w
        /\ r2.y \in Int /\ r2.width = w /\ r3.y \in Int /\ r3.width = w
    BY ONLY <1>2, <2>3
  <2>5. p1.fate \in {"ok", "aborted"} /\ p1.texts \in Seq(Textual)
    <3>1. ASSUME NEW text \in Texts
          PROVE  LET page == WordWrap(text, r1.width)
                 IN  /\ page.fate \in {"ok", "aborted"} /\ (page.fate # "ok" => page.fate = "aborted")
                     /\ Len(page.rows) \in Nat /\ \A y \in Int : [y |-> y, rows |-> page.rows] \in Textual
      <4>1. PICK page : page = WordWrap(text, r1.width)
        OBVIOUS
      <4>2. page.fate \in {"ok", "aborted"} /\ page.rows \in Seq(Rows) \ {<<>>}
        BY <1>2, <1>4, <2>4, <4>1, WrapType
      <4>3. Len(page.rows) \in Nat
        BY ONLY <4>2
      <4>4. \A y \in Int : [y |-> y, rows |-> page.rows] \in Textual
        BY ONLY <4>2 DEF Textual
      <4> QED BY ONLY <4>1, <4>2, <4>3, <4>4
    <3>2. "ok" \in {"ok", "aborted"}
      OBVIOUS
    <3>3. PICK F : F = {"ok", "aborted"}
      OBVIOUS
    <3>4. LET part == DrawMain(r1, NotHidden(all, hidden))
          IN  part.fate \in F /\ part.texts \in Seq(Textual)
      BY ONLY <2>4, <3>1, <3>2, <3>3, all \in Seq(Texts), hidden \in Nat, MainPart
    <3> QED BY ONLY <2>2, <3>3, <3>4
  <2>6. ASSUME NoneCut(window, all, w)
        PROVE  (w > 0 => p1.fate = "ok") /\ p1.texts \in Seq(FittingTexts(w))
    <3>1. PICK T : T = {text \in Texts : ~SplitsWide(text, w)}
      OBVIOUS
    <3>2. all \in Seq(T)
      <4>1. all \in [1 .. Len(all) -> Texts] /\ Len(all) \in Nat /\ DOMAIN all = 1 .. Len(all)
        OBVIOUS
      <4>2. \A i \in 1 .. Len(all) : all[i] \in T
        BY ONLY <2>6, <3>1, <4>1 DEF NoneCut
      <4>3. all \in [1 .. Len(all) -> T]
        BY ONLY <4>1, <4>2
      <4> QED BY ONLY <4>1, <4>3, FunctionIsSeq
    <3>3. PICK F : F = IF w > 0 THEN {"ok"} ELSE {"ok", "aborted"}
      OBVIOUS
    <3>4. "ok" \in F
      BY <3>3
    <3>5. ASSUME NEW text \in T
          PROVE  LET page == WordWrap(text, r1.width)
                 IN  /\ page.fate \in F /\ (page.fate # "ok" => page.fate = "aborted")
                     /\ Len(page.rows) \in Nat
                     /\ \A y \in Int : [y |-> y, rows |-> page.rows] \in FittingTexts(w)
      <4>1. PICK page : page = WordWrap(text, r1.width)
        OBVIOUS
      <4>2. text \in Seq(Rows) /\ ~SplitsWide(text, r1.width)
        BY <1>4, <2>4, <3>1, <3>5
      <4>3. /\ page.fate \in {"ok", "aborted"} /\ page.rows \in Seq(Rows) \ {<<>>}
            /\ w > 0 => page.fate = "ok"
            /\ \A i \in DOMAIN page.rows : ColumnsOf(page.rows[i]) <= w
        BY <1>2, <2>4, <4>1, <4>2, WrapType
      <4>4. page.fate \in F
        BY ONLY <3>3, <4>3
      <4>5. Len(page.rows) \in Nat
        BY ONLY <4>3
      <4>6. ASSUME NEW y \in Int PROVE [y |-> y, rows |-> page.rows] \in FittingTexts(w)
        <5>1. [y |-> y, rows |-> page.rows] \in Textual
          BY ONLY <4>3, y \in Int DEF Textual
        <5>2. [y |-> y, rows |-> page.rows].rows = page.rows
          OBVIOUS
        <5> QED BY ONLY <4>3, <5>1, <5>2 DEF FittingTexts
      <4> QED BY ONLY <4>1, <4>3, <4>4, <4>5, <4>6
    <3>6. LET part == DrawMain(r1, NotHidden(all, hidden))
          IN  part.fate \in F /\ part.texts \in Seq(FittingTexts(w))
      BY ONLY <2>4, <3>2, <3>4, <3>5, hidden \in Nat, MainPart
    <3> QED BY ONLY <2>2, <3>3, <3>6
  <2>7. /\ p2.fate \in {"ok", "aborted"} /\ p2.texts \in Seq(Textual)
        /\ ~SplitsWide(StatusLine[window], w) =>
             /\ w > 0 => p2.fate = "ok"
             /\ p2.texts \in Seq(FittingTexts(w))
    <3>1. PICK text : text = StatusLine[window]
      OBVIOUS
    <3>2. text \in Seq(Rows)
      BY <3>1, TheyAreTexts DEF IsText, Rows
    <3>3. LET part == DrawStatus(r2, text)
          IN  /\ part.fate \in {"ok", "aborted"} /\ part.texts \in Seq(Textual)
              /\ ~SplitsWide(text, r2.width) =>
                   /\ r2.width > 0 => part.fate = "ok"
                   /\ part.texts \in Seq(FittingTexts(r2.width))
      BY ONLY <1>2, <2>4, <3>2, StatusPart
    <3> QED BY ONLY <2>2, <2>4, <3>1, <3>3
  <2>8. /\ p3.fate \in {"ok", "aborted"} /\ p3.texts \in Seq(Textual)
        /\ w > 2 => p3.fate = "ok"
        /\ Narrow(typed) => p3.texts \in Seq(FittingTexts(w))
    <3>1. LET part == DrawInput(r3, typed)
          IN  /\ part.fate \in {"ok", "aborted"} /\ part.texts \in Seq(Textual)
              /\ r3.width > 2 => part.fate = "ok"
              /\ Narrow(typed) => part.texts \in Seq(FittingTexts(r3.width))
      BY ONLY <1>2, <2>4, typed \in Rows, InputPart
    <3> QED BY ONLY <2>2, <2>4, <3>1
  <2> HIDE DEF p1, p2, p3
  <2>9. 3 \in Nat /\ DOMAIN parts = 1 .. 3 /\ parts[1] = p1 /\ parts[2] = p2 /\ parts[3] = p3
    BY ONLY <2>1
  <2>10. \A i \in 1 .. 3 : i = 1 \/ i = 2 \/ i = 3
    OBVIOUS
  <2>11. \A i \in 1 .. 3 : parts[i].texts \in Seq(Textual)
    BY ONLY <2>5, <2>7, <2>8, <2>9, <2>10
  <2>12. /\ drawn.term \in Terms(sz) /\ drawn.fate \in {"ok", "aborted"}
         /\ drawn.fate = "ok" <=> \A i \in 1 .. 3 : parts[i].fate = "ok"
         /\ (\A i \in 1 .. 3 : parts[i].texts \in Seq(FittingTexts(w))) => ~drawn.term.scrambled
    <3>1. PICK n, d : n = 3 /\ d = Put(sz, parts)
      OBVIOUS
    <3>2. n \in Nat /\ DOMAIN parts = 1 .. n /\ \A i \in 1 .. n : parts[i].texts \in Seq(Textual)
      BY ONLY <2>9, <2>11, <3>1
    <3>3. /\ d.term \in Terms(sz) /\ d.fate \in {"ok", "aborted"}
          /\ d.fate = "ok" <=> \A i \in 1 .. n : parts[i].fate = "ok"
          /\ (\A i \in 1 .. n : parts[i].texts \in Seq(FittingTexts(sz.width))) => ~d.term.scrambled
      BY ONLY <3>1, <3>2, IsSize(sz), PutDraws
    <3>4. d = drawn /\ sz.width = w
      BY ONLY <1>1, <3>1
    <3> QED BY ONLY <3>1, <3>3, <3>4
  <2>13. ASSUME w > 2, NoneCut(window, all, w) PROVE \A i \in 1 .. 3 : parts[i].fate = "ok"
    <3>1. w > 0
      BY ONLY <1>2, <2>13
    <3>2. p1.fate = "ok" /\ p2.fate = "ok" /\ p3.fate = "ok"
      BY ONLY <2>6, <2>7, <2>8, <2>13, <3>1 DEF NoneCut
    <3> QED BY ONLY <2>9, <2>10, <3>2
  <2>14. ASSUME NoneCut(window, all, w), Narrow(typed)
         PROVE  \A i \in 1 .. 3 : parts[i].texts \in Seq(FittingTexts(w))
    <3>1. /\ p1.texts \in Seq(FittingTexts(w)) /\ p2.texts \in Seq(FittingTexts(w))
          /\ p3.texts \in Seq(FittingTexts(w))
      BY ONLY <2>6, <2>7, <2>8, <2>14 DEF NoneCut
    <3> QED BY ONLY <2>9, <2>10, <3>1
  <2> QED BY ONLY <1>1, <2>12, <2>13, <2>14
<1> QED BY ONLY <1>2, <1>5, <1>6

-----------------------------------------------------------------------------
(* What a rendering shows. *)

(* The rows of a text are drawn from the row it starts in downwards, and    *)
(* the others stay.                                                         *)
Below(term, y0, rows, n) ==
  [y \in DOMAIN term.rows |-> IF y \in y0 .. y0 + n - 1 THEN rows[y - y0 + 1] ELSE term.rows[y]]

LEMMA WriteNext ==
  ASSUME NEW sz, IsSize(sz), NEW old \in Terms(sz), NEW rows \in Seq(Rows), NEW y0 \in Nat,
         NEW n \in Nat, n + 1 <= Len(rows), y0 + n < sz.height,
         NEW term \in Terms(sz), term.y = y0 + n, term.rows = Below(old, y0, rows, n)
  PROVE  Write(term, rows[n + 1]).rows = Below(old, y0, rows, n + 1)
<1>1. PICK f, r, h : f = old.rows /\ r = term.rows /\ h = sz.height
  OBVIOUS
<1>2. h \in Nat /\ f \in [0 .. h - 1 -> Rows] /\ y0 + n \in 0 .. h - 1
  <2>1. h \in Nat
    BY <1>1 DEF IsSize
  <2>2. f \in [0 .. h - 1 -> Rows]
    BY <1>1, TermFields
  <2> QED BY <1>1, <2>1, <2>2
<1>3. r = [y \in 0 .. h - 1 |-> IF y \in y0 .. y0 + n - 1 THEN rows[y - y0 + 1] ELSE f[y]]
  BY <1>1, <1>2 DEF Below
<1>4. PICK s, e, g : s = rows[n + 1] /\ e = [r EXCEPT ![y0 + n] = s]
        /\ g = [y \in 0 .. h - 1 |-> IF y \in y0 .. y0 + (n + 1) - 1 THEN rows[y - y0 + 1] ELSE f[y]]
  OBVIOUS
<1>5. ASSUME NEW y \in 0 .. h - 1 PROVE e[y] = g[y]
  <2>1. CASE y = y0 + n
    <3>1. e[y] = s
      BY ONLY <1>2, <1>3, <1>4, <2>1
    <3>2. y \in y0 .. y0 + (n + 1) - 1 /\ y - y0 + 1 = n + 1
      BY ONLY <1>2, <2>1, y0 \in Nat, n \in Nat
    <3> QED BY <1>4, <3>1, <3>2
  <2>2. CASE y # y0 + n
    <3>1. e[y] = r[y]
      BY ONLY <1>3, <1>4, <2>2
    <3>2. y \in y0 .. y0 + (n + 1) - 1 <=> y \in y0 .. y0 + n - 1
      BY ONLY <1>2, <2>2, y0 \in Nat, n \in Nat, y \in 0 .. h - 1
    <3> QED BY <1>3, <1>4, <3>1, <3>2
  <2> QED BY <2>1, <2>2
<1>6. e = g
  <2>1. DOMAIN e = 0 .. h - 1 /\ e = [y \in DOMAIN e |-> e[y]]
    BY ONLY <1>3, <1>4
  <2> QED BY ONLY <1>4, <1>5, <2>1
<1>7. Write(term, s).rows = e
  <2>1. s \in Rows
    BY <1>4
  <2>2. Write(term, s).rows = [term.rows EXCEPT ![term.y] = s]
    BY ONLY <2>1, term \in Terms(sz), Written
  <2> QED BY ONLY <1>1, <1>4, <2>2, term.y = y0 + n
<1> QED BY <1>1, <1>2, <1>4, <1>6, <1>7 DEF Below

LEMMA DrawTextShows ==
  ASSUME NEW sz, IsSize(sz), NEW term \in Terms(sz), NEW text \in Textual,
         text.y \in Nat, text.y + Len(text.rows) <= sz.height
  PROVE  DrawText(term, text).rows = Below(term, text.y, text.rows, Len(text.rows))
<1>1. PICK y0, rows, row, rest, m :
        y0 = text.y /\ rows = text.rows /\ row = rows[1] /\ rest = Tail(rows) /\ m = Len(rest)
  OBVIOUS
<1>2. /\ rows \in Seq(Rows) /\ rows # <<>> /\ y0 \in Nat /\ row \in Rows
      /\ rest \in Seq(Rows) /\ m \in Nat /\ Len(rows) = m + 1
      /\ \A i \in 1 .. m : rest[i] = rows[i + 1] /\ rest[i] \in Rows
  <2>1. rows \in Seq(Rows) /\ rows # <<>> /\ y0 \in Nat
    BY <1>1 DEF Textual
  <2> QED BY ONLY <1>1, <2>1
<1>3. y0 + m + 1 <= sz.height /\ sz.height \in Nat
  <2>1. y0 + (m + 1) <= sz.height
    BY <1>1, <1>2
  <2>2. sz.height \in Nat
    BY DEF IsSize
  <2> QED BY ONLY <1>2, <2>1, <2>2
<1> DEFINE T(n) == {t \in Terms(sz) : t.y = y0 + n /\ t.rows = Below(term, y0, rows, n + 1)}
<1>4. PICK I : I = [n \in 0 .. m |-> T(n)]
  OBVIOUS
<1>5. PICK moved, base : moved = MoveTo(term, y0) /\ base = Write(moved, row)
  OBVIOUS
<1>6. base \in I[0]
  <2>1. moved \in Terms(sz) /\ moved.y = y0 + 0 /\ moved.rows = term.rows
    <3>1. y0 \in Int /\ y0 = y0 + 0
      BY ONLY <1>2
    <3>2. MoveTo(term, y0) \in Terms(sz) /\ MoveTo(term, y0).y = y0 /\ MoveTo(term, y0).rows = term.rows
      BY ONLY <3>1, term \in Terms(sz), Moved
    <3> QED BY ONLY <1>5, <3>1, <3>2
  <2>2. moved.rows = Below(term, y0, rows, 0)
    <3>1. \A y \in DOMAIN term.rows : y \notin y0 .. y0 + 0 - 1
      BY ONLY <1>2
    <3>2. PICK f : f = term.rows
      OBVIOUS
    <3>3. f = [y \in DOMAIN f |-> f[y]]
      <4>1. f \in [0 .. sz.height - 1 -> Rows]
        BY <3>2, TermFields
      <4> QED BY ONLY <4>1
    <3> QED BY ONLY <2>1, <3>1, <3>2, <3>3 DEF Below
  <2>3. 0 \in Nat /\ 0 + 1 <= Len(rows) /\ y0 + 0 < sz.height /\ row = rows[0 + 1]
    BY ONLY <1>1, <1>2, <1>3
  <2>4. base.rows = Below(term, y0, rows, 0 + 1)
    <3>1. rows \in Seq(Rows) /\ y0 \in Nat /\ moved \in Terms(sz) /\ moved.y = y0 + 0
      BY ONLY <1>2, <2>1
    <3>2. Write(moved, rows[0 + 1]).rows = Below(term, y0, rows, 0 + 1)
      BY ONLY <2>2, <2>3, <3>1, IsSize(sz), term \in Terms(sz), WriteNext
    <3> QED BY ONLY <1>5, <2>3, <3>2
  <2>5. base \in Terms(sz) /\ base.y = y0 + 0
    <3>1. Write(moved, row) \in Terms(sz) /\ Write(moved, row).y = moved.y
      BY ONLY <1>2, <2>1, Written
    <3> QED BY ONLY <1>5, <2>1, <3>1
  <2>6. base \in T(0) /\ 0 \in 0 .. m
    BY ONLY <1>2, <2>4, <2>5
  <2> QED BY ONLY <1>4, <2>6
<1>7. ASSUME NEW k \in 1 .. Len(rest), NEW t \in I[k - 1] PROVE WriteBelow(t, rest[k]) \in I[k]
  <2>1. k \in 0 .. m /\ k - 1 \in 0 .. m /\ k \in Nat /\ (k - 1) + 1 = k /\ k - 1 \in Nat
    BY ONLY <1>1, <1>2, k \in 1 .. Len(rest)
  <2>2. t \in Terms(sz) /\ t.y = y0 + (k - 1) /\ t.rows = Below(term, y0, rows, k)
    <3>1. t \in T(k - 1)
      BY ONLY <1>4, <2>1, t \in I[k - 1]
    <3> QED BY ONLY <2>1, <3>1
  <2>3. t.y < sz.height - 1 /\ t.y + 1 = y0 + k /\ y0 + k < sz.height
    BY ONLY <1>2, <1>3, <2>1, <2>2
  <2>4. PICK u : u = NewLine(t)
    OBVIOUS
  <2>5. u \in Terms(sz) /\ u.rows = t.rows /\ u.y = y0 + k
    BY <2>2, <2>3, <2>4, NewLined
  <2>6. k + 1 <= Len(rows) /\ rest[k] = rows[k + 1] /\ rest[k] \in Rows
    BY ONLY <1>1, <1>2, <2>1, k \in 1 .. Len(rest)
  <2>7. PICK e : e = Write(u, rest[k])
    OBVIOUS
  <2>8. e.rows = Below(term, y0, rows, k + 1)
    <3>1. u.rows = Below(term, y0, rows, k)
      BY <2>2, <2>5
    <3>2. /\ rows \in Seq(Rows) /\ y0 \in Nat /\ k \in Nat /\ k + 1 <= Len(rows)
          /\ y0 + k < sz.height /\ u \in Terms(sz) /\ u.y = y0 + k
      BY ONLY <1>2, <2>1, <2>3, <2>5, <2>6
    <3>3. Write(u, rows[k + 1]).rows = Below(term, y0, rows, k + 1)
      BY ONLY <3>1, <3>2, IsSize(sz), term \in Terms(sz), WriteNext
    <3> QED BY ONLY <2>6, <2>7, <3>3
  <2>9. e \in Terms(sz) /\ e.y = y0 + k
    <3>1. Write(u, rest[k]) \in Terms(sz) /\ Write(u, rest[k]).y = u.y
      BY ONLY <2>5, <2>6, Written
    <3> QED BY ONLY <2>5, <2>7, <3>1
  <2>10. e \in I[k]
    BY ONLY <1>4, <2>1, <2>8, <2>9
  <2> QED BY <2>4, <2>7, <2>10 DEF WriteBelow
<1>8. WriteFold!Fold(base, rest) \in I[Len(rest)]
  BY ONLY <1>2, <1>6, <1>7, WriteFold!FoldInvariant
<1>9. DrawText(term, text) = WriteFold!Fold(base, rest)
  BY <1>1, <1>5, WriteFolded DEF DrawText
<1>10. DrawText(term, text).rows = Below(term, y0, rows, m + 1)
  <2>1. m \in 0 .. m
    BY <1>2
  <2> QED BY ONLY <1>1, <1>4, <1>8, <1>9, <2>1
<1> QED BY ONLY <1>1, <1>2, <1>10

(* The rows of the last n of some texts. *)
RowsAt(all, w) == FlattenSeq([i \in DOMAIN all |-> WordWrap(all[i], w).rows])
LastRows(all, w, n) == RowsAt(SubSeq(all, Len(all) - n + 1, Len(all)), w)

LEMMA WrappedEach ==
  ASSUME NEW w \in Nat, NEW s \in Seq(Seq(Rows))
  PROVE  LET each == [i \in DOMAIN s |-> WordWrap(s[i], w).rows]
         IN  /\ each \in Seq(Seq(Rows)) /\ Len(each) = Len(s)
             /\ \A i \in 1 .. Len(s) : each[i] = WordWrap(s[i], w).rows
<1>1. PICK each, n, R, X : /\ each = [i \in DOMAIN s |-> WordWrap(s[i], w).rows]
                           /\ n = Len(s) /\ R = Seq(Rows) /\ X = Seq(R)
  OBVIOUS
<1>2. n \in Nat /\ DOMAIN s = 1 .. n /\ \A i \in 1 .. n : s[i] \in R
  BY <1>1
<1>3. \A i \in 1 .. n : WordWrap(s[i], w).rows \in R
  BY ONLY <1>1, <1>2, w \in Nat, WrapType
<1>4. each \in [1 .. n -> R] /\ \A i \in 1 .. n : each[i] = WordWrap(s[i], w).rows
  BY ONLY <1>1, <1>2, <1>3
<1>5. each \in Seq(R) /\ Len(each) = n
  BY ONLY <1>2, <1>4, FunctionIsSeq
<1> QED BY ONLY <1>1, <1>4, <1>5

LEMMA LastPart ==
  ASSUME NEW S, NEW all \in Seq(S), NEW n \in 0 .. Len(all)
  PROVE  LET s == SubSeq(all, Len(all) - n + 1, Len(all))
         IN  /\ s \in Seq(S) /\ Len(s) = n
             /\ \A i \in 1 .. n : s[i] = all[Len(all) - n + i]
<1>1. PICK s, l, m : l = Len(all) /\ m = l - n /\ s = SubSeq(all, m + 1, l)
  OBVIOUS
<1>2. l \in Nat /\ m \in 0 .. l /\ n = l - m
  BY <1>1
<1>3. s \in Seq(S) /\ Len(s) = n
  BY ONLY <1>1, <1>2, all \in Seq(S), SplitAt
<1>4. \A i \in 1 .. n : s[i] = all[m + i]
  <2>1. \A i \in 1 .. l - m : SubSeq(all, m + 1, l)[i] = all[m + i]
    BY ONLY <1>1, <1>2, all \in Seq(S)
  <2> QED BY ONLY <1>1, <1>2, <2>1
<1> QED BY ONLY <1>1, <1>3, <1>4

LEMMA LastRowsType ==
  ASSUME NEW w \in Nat, NEW all \in Seq(Seq(Rows)), NEW n \in 0 .. Len(all)
  PROVE  /\ LastRows(all, w, n) \in Seq(Rows) /\ Len(LastRows(all, w, n)) \in Nat
         /\ n = 0 => LastRows(all, w, n) = <<>>
<1>1. PICK R, s, each : /\ R = Seq(Rows) /\ s = SubSeq(all, Len(all) - n + 1, Len(all))
                        /\ each = [i \in DOMAIN s |-> WordWrap(s[i], w).rows]
  OBVIOUS
<1>2. s \in Seq(R) /\ Len(s) = n
  BY ONLY <1>1, all \in Seq(Seq(Rows)), n \in 0 .. Len(all), LastPart
<1>3. each \in Seq(R) /\ Len(each) = n
  <2>1. s \in Seq(Seq(Rows))
    BY ONLY <1>1, <1>2, Zenon
  <2>2. LET e == [i \in DOMAIN s |-> WordWrap(s[i], w).rows]
        IN  e \in Seq(Seq(Rows)) /\ Len(e) = Len(s)
    BY ONLY <2>1, w \in Nat, WrappedEach
  <2> QED BY ONLY <1>1, <1>2, <2>2, Zenon
<1>4. LastRows(all, w, n) = FlattenSeq(each)
  BY <1>1 DEF LastRows, RowsAt
<1>5. FlattenSeq(each) \in Seq(Rows)
  BY ONLY <1>1, <1>3, FlattenType
<1>6. n = 0 => each = <<>>
  BY ONLY <1>3
<1>7. Len(FlattenSeq(each)) \in Nat
  BY ONLY <1>5
<1> QED BY ONLY <1>4, <1>5, <1>6, <1>7, FlattenEmpty

LEMMA LastRowsGrow ==
  ASSUME NEW w \in Nat, NEW all \in Seq(Seq(Rows)), NEW n \in 0 .. Len(all) - 1
  PROVE  LastRows(all, w, n + 1) = WordWrap(all[Len(all) - n], w).rows \o LastRows(all, w, n)
<1>1. PICK R, l, s, t, es, et, new :
        /\ R = Seq(Rows) /\ l = Len(all)
        /\ s = SubSeq(all, l - n + 1, l) /\ t = SubSeq(all, l - (n + 1) + 1, l)
        /\ es = [i \in DOMAIN s |-> WordWrap(s[i], w).rows]
        /\ et = [i \in DOMAIN t |-> WordWrap(t[i], w).rows]
        /\ new = WordWrap(all[l - n], w).rows
  OBVIOUS
<1>2. /\ l \in Nat /\ n \in 0 .. l /\ n \in Nat /\ n + 1 \in 0 .. l /\ l - n \in 1 .. l
      /\ l - (n + 1) + 1 = l - n
  <2>1. l \in Nat /\ n \in 0 .. l - 1
    BY <1>1
  <2> QED BY ONLY <2>1
<1>3. /\ s \in Seq(R) /\ Len(s) = n /\ \A i \in 1 .. n : s[i] = all[l - n + i]
      /\ t \in Seq(R) /\ Len(t) = n + 1 /\ \A i \in 1 .. n + 1 : t[i] = all[l - (n + 1) + i]
  BY ONLY <1>1, <1>2, all \in Seq(Seq(Rows)), LastPart
<1>4. /\ es \in Seq(R) /\ Len(es) = n /\ \A i \in 1 .. n : es[i] = WordWrap(s[i], w).rows
      /\ et \in Seq(R) /\ Len(et) = n + 1 /\ \A i \in 1 .. n + 1 : et[i] = WordWrap(t[i], w).rows
  <2>1. s \in Seq(Seq(Rows)) /\ t \in Seq(Seq(Rows))
    BY ONLY <1>1, <1>3, Zenon
  <2>2. LET e == [i \in DOMAIN s |-> WordWrap(s[i], w).rows]
        IN  /\ e \in Seq(Seq(Rows)) /\ Len(e) = Len(s)
            /\ \A i \in 1 .. Len(s) : e[i] = WordWrap(s[i], w).rows
    BY ONLY <2>1, w \in Nat, WrappedEach
  <2>3. LET e == [i \in DOMAIN t |-> WordWrap(t[i], w).rows]
        IN  /\ e \in Seq(Seq(Rows)) /\ Len(e) = Len(t)
            /\ \A i \in 1 .. Len(t) : e[i] = WordWrap(t[i], w).rows
    BY ONLY <2>1, w \in Nat, WrappedEach
  <2>4. es \in Seq(R) /\ Len(es) = n /\ \A i \in 1 .. n : es[i] = WordWrap(s[i], w).rows
    BY ONLY <1>1, <1>3, <2>2, Zenon
  <2>5. et \in Seq(R) /\ Len(et) = n + 1 /\ \A i \in 1 .. n + 1 : et[i] = WordWrap(t[i], w).rows
    BY ONLY <1>1, <1>3, <2>3, Zenon
  <2> QED BY ONLY <2>4, <2>5, Zenon
<1>5. new \in R
  <2>1. all[l - n] \in Seq(Rows)
    BY ONLY <1>1, <1>2, all \in Seq(Seq(Rows))
  <2> QED BY ONLY <1>1, <2>1, w \in Nat, WrapType
<1>6. et[1] = new /\ \A i \in 1 .. n : et[i + 1] = es[i]
  <2>1. 1 \in 1 .. n + 1 /\ l - (n + 1) + 1 = l - n
    BY ONLY <1>2
  <2>2. et[1] = new
    BY ONLY <1>1, <1>3, <1>4, <2>1
  <2>3. ASSUME NEW i \in 1 .. n PROVE et[i + 1] = es[i]
    <3>1. i + 1 \in 1 .. n + 1 /\ l - (n + 1) + (i + 1) = l - n + i
      BY ONLY <1>2, i \in 1 .. n
    <3>2. t[i + 1] = all[l - n + i] /\ s[i] = all[l - n + i]
      BY ONLY <1>3, <3>1, i \in 1 .. n
    <3>3. et[i + 1] = WordWrap(t[i + 1], w).rows /\ es[i] = WordWrap(s[i], w).rows
      BY ONLY <1>4, <3>1, i \in 1 .. n
    <3> QED BY ONLY <3>2, <3>3
  <2> QED BY ONLY <2>2, <2>3
<1>7. PICK one, u : one = <<new>> /\ u = one \o es
  OBVIOUS
<1>8. one \in Seq(R) /\ Len(one) = 1 /\ one[1] = new
  BY ONLY <1>5, <1>7
<1>9. /\ u \in Seq(R) /\ Len(u) = 1 + n /\ (\A i \in 1 .. 1 : u[i] = one[i])
      /\ \A i \in 1 + 1 .. 1 + n : u[i] = es[i - 1]
  BY ONLY <1>4, <1>7, <1>8, ConcatElements
<1>10. \A i \in 1 .. n + 1 : et[i] = u[i]
  <2> SUFFICES ASSUME NEW i \in 1 .. n + 1 PROVE et[i] = u[i]
    OBVIOUS
  <2>1. CASE i = 1
    BY ONLY <1>6, <1>8, <1>9, <2>1
  <2>2. CASE i # 1
    <3>1. i - 1 \in 1 .. n /\ (i - 1) + 1 = i /\ i \in 1 + 1 .. 1 + n
      BY ONLY <1>2, <2>2, i \in 1 .. n + 1
    <3> QED BY ONLY <1>6, <1>9, <3>1
  <2> QED BY ONLY <2>1, <2>2
<1>11. et = u
  <2>1. Len(u) = n + 1
    BY ONLY <1>2, <1>9
  <2> QED BY ONLY <1>4, <1>9, <1>10, <2>1, SameElements
<1>12. FlattenSeq(u) = new \o FlattenSeq(es)
  <2>1. new \in Seq(Rows) /\ es \in Seq(Seq(Rows))
    BY ONLY <1>1, <1>4, <1>5, Zenon
  <2>2. FlattenSeq(<<new>> \o es) = new \o FlattenSeq(es)
    BY ONLY <2>1, FlattenFirst
  <2> QED BY ONLY <1>7, <2>2, Zenon
<1>13. LastRows(all, w, n) = FlattenSeq(es) /\ LastRows(all, w, n + 1) = FlattenSeq(et)
  BY <1>1 DEF LastRows, RowsAt
<1> QED BY ONLY <1>1, <1>11, <1>12, <1>13

LEMMA MoreRows ==
  ASSUME NEW w \in Nat, NEW all \in Seq(Seq(Rows)), NEW n \in 0 .. Len(all), NEW m \in n .. Len(all)
  PROVE  Len(LastRows(all, w, n)) <= Len(LastRows(all, w, m))
<1> DEFINE T == {k \in Nat : n + k <= Len(all) =>
                               Len(LastRows(all, w, n)) <= Len(LastRows(all, w, n + k))}
<1>1. n \in Nat /\ m \in Nat /\ Len(all) \in Nat /\ n <= m /\ m <= Len(all)
  OBVIOUS
<1>2. 0 \in T
  <2>1. n + 0 = n /\ Len(LastRows(all, w, n)) \in Nat
    BY ONLY <1>1, LastRowsType, w \in Nat, all \in Seq(Seq(Rows)), n \in 0 .. Len(all)
  <2> QED BY <2>1
<1>3. ASSUME NEW k \in T PROVE k + 1 \in T
  <2> SUFFICES ASSUME n + (k + 1) <= Len(all)
               PROVE  Len(LastRows(all, w, n)) <= Len(LastRows(all, w, n + (k + 1)))
    OBVIOUS
  <2>1. /\ k \in Nat /\ n + k \in 0 .. Len(all) - 1 /\ n + k \in 0 .. Len(all)
        /\ n + (k + 1) = (n + k) + 1 /\ Len(all) - (n + k) \in 1 .. Len(all)
    BY <1>1
  <2>2. Len(LastRows(all, w, n)) <= Len(LastRows(all, w, n + k))
    BY <1>1, <2>1
  <2>3. PICK new, old : new = WordWrap(all[Len(all) - (n + k)], w).rows /\ old = LastRows(all, w, n + k)
    OBVIOUS
  <2>4. LastRows(all, w, (n + k) + 1) = new \o old
    BY ONLY <2>1, <2>3, LastRowsGrow, w \in Nat, all \in Seq(Seq(Rows))
  <2>5. old \in Seq(Rows)
    BY ONLY <2>1, <2>3, LastRowsType, w \in Nat, all \in Seq(Seq(Rows))
  <2>6. new \in Seq(Rows)
    <3>1. all[Len(all) - (n + k)] \in Seq(Rows)
      BY ONLY <2>1, all \in Seq(Seq(Rows))
    <3> QED BY ONLY <2>3, <3>1, w \in Nat, WrapType
  <2>7. Len(new \o old) >= Len(old) /\ Len(old) \in Nat /\ Len(new \o old) \in Nat
    BY ONLY <2>5, <2>6
  <2>8. Len(LastRows(all, w, n)) \in Nat
    BY ONLY LastRowsType, w \in Nat, all \in Seq(Seq(Rows)), n \in 0 .. Len(all)
  <2>9. Len(LastRows(all, w, n)) <= Len(new \o old)
    <3>1. PICK a, b, c : a = Len(LastRows(all, w, n)) /\ b = Len(old) /\ c = Len(new \o old)
      OBVIOUS
    <3>2. a <= b /\ c >= b /\ a \in Nat /\ b \in Nat /\ c \in Nat
      BY ONLY <2>2, <2>3, <2>7, <2>8, <3>1, Zenon
    <3>3. a <= c
      BY ONLY <3>2
    <3> QED BY ONLY <3>1, <3>3, Zenon
  <2>10. LastRows(all, w, n + (k + 1)) = new \o old
    BY ONLY <2>1, <2>4, Zenon
  <2> QED BY ONLY <2>9, <2>10, Zenon
<1> HIDE DEF T
<1>4. T = Nat
  <2>1. T \subseteq Nat
    BY DEF T
  <2> QED BY ONLY <1>2, <1>3, <2>1, NatSetInduction
<1>5. m - n \in Nat /\ n + (m - n) = m
  BY <1>1
<1> QED BY <1>1, <1>4, <1>5 DEF T

(* The terminal has these rows above the status line, and nothing else.     *)
Shows(sz, term, rows) ==
  LET top == sz.height - 2 - Len(rows)
  IN  /\ term \in Terms(sz) /\ rows \in Seq(Rows) /\ top \in Nat
      /\ \A y \in 0 .. sz.height - 1 :
           term.rows[y] = IF y \in top .. top + Len(rows) - 1 THEN rows[y - top + 1] ELSE <<>>

LEMMA ClearShows ==
  ASSUME NEW sz, IsSize(sz), sz.height > 2
  PROVE  Shows(sz, Clear(sz), <<>>)
<1>1. PICK h, term, rows, top :
        h = sz.height /\ term = Clear(sz) /\ rows = <<>> /\ top = h - 2 - Len(rows)
  OBVIOUS
<1>2. h \in Nat /\ h > 2
  BY <1>1 DEF IsSize
<1>3. Len(rows) = 0 /\ rows \in Seq(Rows)
  BY <1>1
<1>4. term \in Terms(sz)
  BY <1>1, ClearIsTerm
<1>5. term.rows = [y \in 0 .. h - 1 |-> <<>>]
  BY <1>1 DEF Clear
<1>6. top \in Nat /\ \A y \in 0 .. h - 1 : y \notin top .. top + Len(rows) - 1
  BY ONLY <1>1, <1>2, <1>3
<1>7. \A y \in 0 .. h - 1 :
        term.rows[y] = IF y \in top .. top + Len(rows) - 1 THEN rows[y - top + 1] ELSE <<>>
  BY ONLY <1>5, <1>6
<1>8. Shows(sz, term, rows)
  BY ONLY <1>1, <1>3, <1>4, <1>6, <1>7 DEF Shows
<1> QED BY ONLY <1>1, <1>8, Zenon

LEMMA TextAdds ==
  ASSUME NEW sz, IsSize(sz), NEW term, NEW rows, Shows(sz, term, rows),
         NEW new \in Seq(Rows), new # <<>>, NEW y0 \in Nat, y0 = sz.height - 2 - Len(rows) - Len(new)
  PROVE  Shows(sz, DrawText(term, [y |-> y0, rows |-> new]), new \o rows)
<1>1. PICK h, l, m, top, text, after, all, drawn :
        /\ h = sz.height /\ l = Len(rows) /\ m = Len(new) /\ top = h - 2 - l
        /\ text = [y |-> y0, rows |-> new] /\ after = DrawText(term, text) /\ all = new \o rows
        /\ drawn = after.rows
  OBVIOUS
<1>2. /\ term \in Terms(sz) /\ rows \in Seq(Rows) /\ top \in Nat
      /\ \A y \in 0 .. h - 1 :
           term.rows[y] = IF y \in top .. top + l - 1 THEN rows[y - top + 1] ELSE <<>>
  BY ONLY <1>1, Shows(sz, term, rows) DEF Shows
<1>3. h \in Nat /\ l \in Nat /\ m \in Nat /\ m >= 1
  <2>1. h \in Nat
    BY <1>1 DEF IsSize
  <2>2. l \in Nat /\ m \in Nat /\ m # 0
    BY ONLY <1>1, <1>2, new \in Seq(Rows), new # <<>>
  <2> QED BY ONLY <2>1, <2>2
<1>4. y0 = h - 2 - (l + m) /\ top = y0 + m /\ y0 + m <= h /\ h = top + l + 2
  <2>1. y0 = h - 2 - l - m /\ top = h - 2 - l
    BY ONLY <1>1, y0 = sz.height - 2 - Len(rows) - Len(new), Zenon
  <2> QED BY ONLY <1>3, <2>1, y0 \in Nat
<1>5. text \in Textual /\ text.y = y0 /\ text.rows = new
  BY ONLY <1>1, y0 \in Nat, new \in Seq(Rows), new # <<>> DEF Textual
<1>6. after \in Terms(sz)
  BY ONLY <1>1, <1>2, <1>5, IsSize(sz), DrawTextDraws
<1>7. drawn = Below(term, y0, new, m)
  <2>1. text.y \in Nat /\ text.y + Len(text.rows) <= sz.height
    BY ONLY <1>1, <1>4, <1>5, y0 \in Nat
  <2>2. DrawText(term, text).rows = Below(term, text.y, text.rows, Len(text.rows))
    BY ONLY <1>2, <1>5, <2>1, IsSize(sz), DrawTextShows
  <2> QED BY ONLY <1>1, <1>5, <2>2, Zenon
<1>8. DOMAIN term.rows = 0 .. h - 1
  <2>1. PICK f : f = term.rows
    OBVIOUS
  <2>2. f \in [0 .. h - 1 -> Rows]
    BY <1>1, <1>2, <2>1, TermFields
  <2> QED BY ONLY <2>1, <2>2
<1>9. /\ all \in Seq(Rows) /\ Len(all) = m + l /\ (\A i \in 1 .. m : all[i] = new[i])
      /\ \A i \in m + 1 .. m + l : all[i] = rows[i - m]
  BY ONLY <1>1, <1>2, new \in Seq(Rows), ConcatElements
<1>10. ASSUME NEW y \in 0 .. h - 1
       PROVE  drawn[y] = IF y \in y0 .. y0 + Len(all) - 1 THEN all[y - y0 + 1] ELSE <<>>
  <2>1. drawn[y] = IF y \in y0 .. y0 + m - 1 THEN new[y - y0 + 1] ELSE term.rows[y]
    BY ONLY <1>7, <1>8, y \in 0 .. h - 1 DEF Below
  <2>2. CASE y \in y0 .. y0 + m - 1
    <3>1. y - y0 + 1 \in 1 .. m /\ y \in y0 .. y0 + Len(all) - 1
      BY ONLY <1>3, <1>9, <2>2, y0 \in Nat
    <3> QED BY ONLY <1>9, <2>1, <2>2, <3>1
  <2>3. CASE y \in top .. top + l - 1
    <3>1. /\ y - y0 + 1 \in m + 1 .. m + l /\ (y - y0 + 1) - m = y - top + 1
          /\ y \in y0 .. y0 + Len(all) - 1 /\ y \notin y0 .. y0 + m - 1
      BY ONLY <1>2, <1>3, <1>4, <1>9, <2>3, y0 \in Nat
    <3>2. term.rows[y] = rows[y - top + 1]
      BY ONLY <1>2, <2>3, y \in 0 .. h - 1
    <3> QED BY ONLY <1>9, <2>1, <3>1, <3>2
  <2>4. CASE y \notin y0 .. y0 + m - 1 /\ y \notin top .. top + l - 1
    <3>1. y \notin y0 .. y0 + Len(all) - 1
      <4>1. Len(all) = m + l /\ top = y0 + m /\ y \in Int
        BY ONLY <1>3, <1>4, <1>9, y \in 0 .. h - 1
      <4> QED BY ONLY <1>3, <2>4, <4>1, y0 \in Nat
    <3>2. term.rows[y] = <<>>
      BY ONLY <1>2, <2>4, y \in 0 .. h - 1
    <3> QED BY ONLY <2>1, <2>4, <3>1, <3>2
  <2> QED BY ONLY <2>2, <2>3, <2>4
<1>11. y0 = h - 2 - Len(all)
  BY ONLY <1>3, <1>4, <1>9
<1>12. Shows(sz, after, all)
  BY ONLY <1>1, <1>6, <1>9, <1>10, <1>11, y0 \in Nat DEF Shows
<1> QED BY ONLY <1>1, <1>12, Zenon

(* What drawing a line does to each field. *)
LEMMA LineFields ==
  ASSUME NEW rect, NEW X, NEW F, NEW above \in Above(rect, X, F), NEW text
  PROVE  LET page == WordWrap(text, rect.width)
             next == DrawLine(above, text)
             over == page.fate = "ok" /\ rect.y + Len(page.rows) > above.y
         IN  /\ above.full \/ over =>
                  next.full /\ next.fate = above.fate /\ next.y = above.y /\ next.texts = above.texts
             /\ ~above.full /\ page.fate # "ok" => next.fate = "aborted"
             /\ ~above.full /\ page.fate = "ok" /\ ~over =>
                  /\ next.full = above.full /\ next.fate = above.fate
                  /\ next.y = above.y - Len(page.rows)
                  /\ next.texts = Append(above.texts, [y |-> above.y - Len(page.rows), rows |-> page.rows])
<1>1. PICK t, f, y, u, page, new, z, over :
        /\ above = [texts |-> t, fate |-> f, y |-> y, full |-> u, rect |-> rect]
        /\ page = WordWrap(text, rect.width) /\ z = y - Len(page.rows)
        /\ new = [y |-> z, rows |-> page.rows]
        /\ over = (page.fate = "ok" /\ rect.y + Len(page.rows) > y)
  <2>1. above = [texts |-> above.texts, fate |-> above.fate, y |-> above.y, full |-> above.full, rect |-> rect]
    BY DEF Above
  <2> QED BY <2>1
<1>2. above.rect = rect /\ above.texts = t /\ above.y = y /\ above.full = u /\ above.fate = f
  BY ONLY <1>1
<1>3. PICK next : next = DrawLine(above, text)
  OBVIOUS
<1>4. u \in BOOLEAN /\ over \in BOOLEAN
  <2>1. above.full \in BOOLEAN
    BY DEF Above
  <2> QED BY <1>1, <1>2, <2>1
<1>5. ASSUME u \/ over
      PROVE  next.full /\ next.fate = f /\ next.y = y /\ next.texts = t
  <2>1. next = [above EXCEPT !.full = TRUE]
    BY <1>1, <1>2, <1>3, <1>5 DEF DrawLine
  <2>2. next = [texts |-> t, fate |-> f, y |-> y, full |-> TRUE, rect |-> rect]
    BY ONLY <1>1, <2>1
  <2> QED BY ONLY <2>2
<1>6. ASSUME ~u, page.fate # "ok"
      PROVE  next.fate = "aborted"
  <2>1. next = [above EXCEPT !.fate = "aborted", !.full = TRUE]
    BY <1>1, <1>2, <1>3, <1>6 DEF DrawLine
  <2> QED BY ONLY <1>1, <2>1
<1>7. ASSUME ~u, page.fate = "ok", ~over
      PROVE  next.full = u /\ next.fate = f /\ next.y = z /\ next.texts = Append(t, new)
  <2>1. PICK a : a = Append(t, new)
    OBVIOUS
  <2>2. next = [above EXCEPT !.texts = a, !.y = z]
    <3>1. /\ ~(above.full \/ (page.fate = "ok" /\ above.rect.y + Len(page.rows) > above.y))
          /\ ~(~above.full /\ page.fate # "ok")
      BY ONLY <1>1, <1>2, <1>7
    <3> QED BY <1>1, <1>2, <1>3, <2>1, <3>1 DEF DrawLine
  <2>3. next.full = u /\ next.fate = f /\ next.y = z /\ next.texts = a
    BY ONLY <1>1, <2>2
  <2> QED BY ONLY <2>1, <2>3
<1> QED BY ONLY <1>1, <1>2, <1>3, <1>5, <1>6, <1>7

(* Drawing one text more. *)
LEMMA OneMoreText ==
  ASSUME NEW base, NEW texts \in Seq(Textual), NEW text \in Textual
  PROVE  FoldLeft(DrawText, base, Append(texts, text)) = DrawText(FoldLeft(DrawText, base, texts), text)
<1>1. PICK more : more = Append(texts, text)
  OBVIOUS
<1>2. FoldLeft(DrawText, base, more) = TextFold!Fold(base, more)
      /\ FoldLeft(DrawText, base, texts) = TextFold!Fold(base, texts)
  BY TextFolded
<1>3. TextFold!Fold(base, Append(texts, text)) = DrawText(TextFold!Fold(base, texts), text)
  BY ONLY texts \in Seq(Textual), text \in Textual, TextFold!FoldAppend
<1> QED BY ONLY <1>1, <1>2, <1>3, Zenon

(* After k lines the n newest are drawn: all of them, or as many as there   *)
(* was room for.                                                            *)
SoFar(sz, all, rect, k) ==
  {a \in Above(rect, Textual, {"ok", "aborted"}) :
     a.fate = "ok" =>
       \E n \in 0 .. k :
         LET rows == LastRows(all, rect.width, n)
         IN  /\ a.y = sz.height - 2 - Len(rows)
             /\ Shows(sz, FoldLeft(DrawText, Clear(sz), a.texts), rows)
             /\ IF a.full THEN n < Len(all) /\ Len(LastRows(all, rect.width, n + 1)) > sz.height - 2
                ELSE n = k}

LEMMA LineDraws ==
  ASSUME NEW sz, IsSize(sz), NEW rect, rect.y = 0, rect.width \in Nat, NEW all \in Seq(Seq(Rows)),
         NEW k \in 1 .. Len(all), NEW above \in SoFar(sz, all, rect, k - 1)
  PROVE  DrawLine(above, all[Len(all) - k + 1]) \in SoFar(sz, all, rect, k)
<1>1. PICK w, h, l, text, page, new, next, F :
        /\ w = rect.width /\ h = sz.height /\ l = Len(all) /\ text = all[l - k + 1]
        /\ page = WordWrap(text, w) /\ new = page.rows /\ next = DrawLine(above, text)
        /\ F = {"ok", "aborted"}
  OBVIOUS
<1>2. w \in Nat /\ h \in Nat /\ l \in Nat /\ k \in 1 .. l /\ k - 1 \in 0 .. l - 1 /\ l - k + 1 \in 1 .. l
      /\ l - (k - 1) = l - k + 1 /\ (k - 1) + 1 = k /\ k \in 0 .. l
  <2>1. h \in Nat
    BY <1>1 DEF IsSize
  <2>2. w \in Nat /\ l \in Nat /\ k \in 1 .. l
    BY <1>1
  <2> QED BY ONLY <2>1, <2>2
<1>3. above \in Above(rect, Textual, F) /\ above.y \in Int /\ above.full \in BOOLEAN
      /\ above.texts \in Seq(Textual)
  BY ONLY <1>1, above \in SoFar(sz, all, rect, k - 1) DEF SoFar, Above
<1>4. page.fate \in F /\ new \in Seq(Rows) /\ new # <<>> /\ Len(new) \in Nat
  <2>1. text \in Seq(Rows)
    BY ONLY <1>1, <1>2, all \in Seq(Seq(Rows))
  <2>2. page.fate \in {"ok", "aborted"} /\ page.rows \in Seq(Rows) \ {<<>>}
    BY ONLY <1>1, <1>2, <2>1, WrapType
  <2>3. new \in Seq(Rows) /\ new # <<>>
    BY ONLY <1>1, <2>2
  <2>4. Len(new) \in Nat
    BY ONLY <2>3
  <2> QED BY ONLY <1>1, <2>2, <2>3, <2>4
<1>5. next \in Above(rect, Textual, F)
  <2>1. \A y \in Int : [y |-> y, rows |-> new] \in Textual
    BY ONLY <1>4 DEF Textual
  <2>2. page.fate # "ok" => page.fate = "aborted"
    BY ONLY <1>1, <1>4
  <2>3. LET p == WordWrap(text, rect.width)
        IN  /\ p.fate \in F /\ (p.fate # "ok" => p.fate = "aborted")
            /\ Len(p.rows) \in Nat /\ \A y \in Int : [y |-> y, rows |-> p.rows] \in Textual
    BY ONLY <1>1, <1>4, <2>1, <2>2, Zenon
  <2> QED BY ONLY <1>1, <1>3, <2>3, DrawLineKeeps
<1>6. PICK over, z : over = (page.fate = "ok" /\ 0 + Len(new) > above.y) /\ z = above.y - Len(new)
  OBVIOUS
<1>7. /\ above.full \/ over =>
           next.full /\ next.fate = above.fate /\ next.y = above.y /\ next.texts = above.texts
      /\ ~above.full /\ page.fate # "ok" => next.fate = "aborted"
      /\ ~above.full /\ page.fate = "ok" /\ ~over =>
           /\ next.full = above.full /\ next.fate = above.fate /\ next.y = z
           /\ next.texts = Append(above.texts, [y |-> z, rows |-> new])
  <2>1. LET p == WordWrap(text, rect.width)
            nx == DrawLine(above, text)
            ov == p.fate = "ok" /\ rect.y + Len(p.rows) > above.y
        IN  /\ above.full \/ ov =>
                 nx.full /\ nx.fate = above.fate /\ nx.y = above.y /\ nx.texts = above.texts
            /\ ~above.full /\ p.fate # "ok" => nx.fate = "aborted"
            /\ ~above.full /\ p.fate = "ok" /\ ~ov =>
                 /\ nx.full = above.full /\ nx.fate = above.fate
                 /\ nx.y = above.y - Len(p.rows)
                 /\ nx.texts = Append(above.texts, [y |-> above.y - Len(p.rows), rows |-> p.rows])
    BY ONLY <1>3, LineFields
  <2>2. over <=> page.fate = "ok" /\ 0 + Len(new) > above.y
    BY ONLY <1>6
  <2>3. rect.width = w
    BY ONLY <1>1
  <2>4. WordWrap(text, rect.width) = page /\ DrawLine(above, text) = next
    BY ONLY <1>1, <2>3, Zenon
  <2> QED BY ONLY <1>1, <1>6, <2>1, <2>2, <2>4, rect.y = 0, Zenon
<1> SUFFICES ASSUME next.fate = "ok"
             PROVE  \E n \in 0 .. k :
                      LET rows == LastRows(all, w, n)
                      IN  /\ next.y = h - 2 - Len(rows)
                          /\ Shows(sz, FoldLeft(DrawText, Clear(sz), next.texts), rows)
                          /\ IF next.full THEN n < l /\ Len(LastRows(all, w, n + 1)) > h - 2
                             ELSE n = k
  <2>1. next \in SoFar(sz, all, rect, k)
    <3>1. next.fate = "ok" =>
               \E n \in 0 .. k :
                 LET rows == LastRows(all, rect.width, n)
                 IN  /\ next.y = sz.height - 2 - Len(rows)
                     /\ Shows(sz, FoldLeft(DrawText, Clear(sz), next.texts), rows)
                     /\ IF next.full THEN n < Len(all) /\ Len(LastRows(all, rect.width, n + 1)) > sz.height - 2
                        ELSE n = k
      BY <1>1, Zenon
    <3>2. next \in Above(rect, Textual, {"ok", "aborted"})
      BY ONLY <1>1, <1>5, Zenon
    <3> QED BY ONLY <3>1, <3>2 DEF SoFar
  <2>2. DrawLine(above, all[Len(all) - k + 1]) = next
    BY ONLY <1>1
  <2> QED BY ONLY <2>1, <2>2, Zenon
<1>8. above.fate = "ok"
  BY ONLY <1>7, next.fate = "ok"
<1>9. PICK n, rows :
        /\ n \in 0 .. k - 1 /\ rows = LastRows(all, w, n)
        /\ above.y = h - 2 - Len(rows)
        /\ Shows(sz, FoldLeft(DrawText, Clear(sz), above.texts), rows)
        /\ IF above.full THEN n < l /\ Len(LastRows(all, w, n + 1)) > h - 2 ELSE n = k - 1
  BY ONLY <1>1, <1>8, above \in SoFar(sz, all, rect, k - 1) DEF SoFar
<1>10. n \in 0 .. k /\ n \in 0 .. l
  BY ONLY <1>2, <1>9
<1>11. rows \in Seq(Rows) /\ Len(rows) \in Nat
  BY ONLY <1>2, <1>9, <1>10, <1>1, all \in Seq(Seq(Rows)), LastRowsType
<1>12. CASE above.full
  <2>1. next.full /\ next.y = above.y /\ next.texts = above.texts
    BY ONLY <1>7, <1>12
  <2>2. /\ next.y = h - 2 - Len(rows)
        /\ Shows(sz, FoldLeft(DrawText, Clear(sz), next.texts), rows)
        /\ IF next.full THEN n < l /\ Len(LastRows(all, w, n + 1)) > h - 2 ELSE n = k
    BY ONLY <1>9, <1>12, <2>1
  <2> QED BY ONLY <1>9, <1>10, <2>2
<1>13. ASSUME ~above.full
       PROVE  LastRows(all, w, n + 1) = new \o rows /\ n + 1 = k /\ n < l
              /\ Len(new \o rows) = Len(new) + Len(rows)
  <2>1. n = k - 1 /\ n + 1 = k /\ n < l /\ n \in 0 .. l - 1 /\ l - n = l - k + 1
    BY ONLY <1>2, <1>9, <1>13
  <2>2. LastRows(all, w, n + 1) = WordWrap(all[l - n], w).rows \o LastRows(all, w, n)
    BY ONLY <1>1, <1>2, <2>1, all \in Seq(Seq(Rows)), LastRowsGrow
  <2>3. LastRows(all, w, n + 1) = new \o rows
    BY ONLY <1>1, <1>9, <2>1, <2>2, Zenon
  <2>4. Len(new \o rows) = Len(new) + Len(rows)
    BY ONLY <1>4, <1>11
  <2> QED BY ONLY <2>1, <2>3, <2>4, Zenon
<1>14. CASE ~above.full /\ over
  <2>1. next.full /\ next.y = above.y /\ next.texts = above.texts
    BY ONLY <1>7, <1>14
  <2>2. Len(new) > above.y
    <3>1. 0 + Len(new) > above.y
      BY ONLY <1>6, <1>14
    <3> QED BY ONLY <1>3, <1>4, <3>1
  <2>3. Len(new) + Len(rows) > h - 2
    BY ONLY <1>2, <1>4, <1>9, <1>11, <2>2
  <2>4. n < l /\ Len(LastRows(all, w, n + 1)) > h - 2
    BY ONLY <1>13, <1>14, <2>3
  <2>5. /\ next.y = h - 2 - Len(rows)
        /\ Shows(sz, FoldLeft(DrawText, Clear(sz), next.texts), rows)
        /\ IF next.full THEN n < l /\ Len(LastRows(all, w, n + 1)) > h - 2 ELSE n = k
    BY ONLY <1>9, <2>1, <2>4
  <2> QED BY ONLY <1>9, <1>10, <2>5
<1>15. CASE ~above.full /\ ~over
  <2>1. page.fate = "ok"
    BY ONLY <1>7, <1>15, next.fate = "ok"
  <2>2. PICK t, drawn : t = [y |-> z, rows |-> new] /\ drawn = FoldLeft(DrawText, Clear(sz), above.texts)
    OBVIOUS
  <2>3. ~next.full /\ next.y = z /\ next.texts = Append(above.texts, t)
    BY ONLY <1>7, <1>15, <2>1, <2>2
  <2>4. z = h - 2 - Len(rows) - Len(new) /\ z \in Nat /\ z \in Int
    <3>1. ~(0 + Len(new) > above.y)
      BY ONLY <1>6, <1>15, <2>1
    <3> QED BY ONLY <1>2, <1>3, <1>4, <1>6, <1>9, <1>11, <3>1
  <2>5. t \in Textual
    BY ONLY <1>4, <2>2, <2>4 DEF Textual
  <2>6. FoldLeft(DrawText, Clear(sz), next.texts) = DrawText(drawn, t)
    BY ONLY <1>3, <2>2, <2>3, <2>5, OneMoreText
  <2>7. Shows(sz, DrawText(drawn, t), new \o rows)
    <3>1. Shows(sz, drawn, rows) /\ z = sz.height - 2 - Len(rows) - Len(new)
      BY ONLY <1>1, <1>9, <2>2, <2>4, Zenon
    <3>2. Shows(sz, DrawText(drawn, [y |-> z, rows |-> new]), new \o rows)
      BY ONLY <1>4, <2>4, <3>1, IsSize(sz), TextAdds
    <3> QED BY ONLY <2>2, <3>2, Zenon
  <2>8. LastRows(all, w, k) = new \o rows
    BY ONLY <1>13, <1>15
  <2>9. next.y = h - 2 - Len(new \o rows)
    BY ONLY <1>2, <1>4, <1>11, <1>13, <1>15, <2>3, <2>4
  <2>10. k \in 0 .. k
    BY <1>2
  <2> QED BY ONLY <2>3, <2>6, <2>7, <2>8, <2>9, <2>10
<1> QED BY ONLY <1>12, <1>14, <1>15

(* The main part shows the newest lines, as many as there is room for.      *)
LEMMA MainShows ==
  ASSUME NEW sz, IsSize(sz), sz.height > 2, NEW rect, rect.y = 0, rect.height = sz.height - 2,
         rect.width \in Nat, NEW all \in Seq(Seq(Rows))
  PROVE  LET part == DrawMain(rect, all)
         IN  /\ part.fate \in {"ok", "aborted"} /\ part.texts \in Seq(Textual)
             /\ part.fate = "ok" =>
                  \E n \in 0 .. Len(all) :
                    /\ Shows(sz, FoldLeft(DrawText, Clear(sz), part.texts), LastRows(all, rect.width, n))
                    /\ n < Len(all) => Len(LastRows(all, rect.width, n + 1)) > sz.height - 2
<1>1. PICK h, l, s, base, part, term :
        /\ h = sz.height /\ l = Len(all) /\ s = Reverse(all) /\ part = DrawMain(rect, all)
        /\ base = [texts |-> <<>>, fate |-> "ok", y |-> rect.y + rect.height,
                   full |-> FALSE, rect |-> rect]
        /\ term = FoldLeft(DrawText, Clear(sz), <<>>)
  OBVIOUS
<1>2. h \in Nat /\ h > 2 /\ l \in Nat
  <2>1. h \in Nat /\ h > 2
    BY <1>1 DEF IsSize
  <2>2. l \in Nat
    BY <1>1
  <2> QED BY <2>1, <2>2
<1>3. s \in Seq(Seq(Rows)) /\ Len(s) = l /\ \A i \in 1 .. l : s[i] = all[l - i + 1]
  BY ONLY <1>1, all \in Seq(Seq(Rows)), ReverseType
<1>4. PICK I : I = [k \in 0 .. l |-> SoFar(sz, all, rect, k)]
  OBVIOUS
<1>5. base \in I[0]
  <2>1. rect.y + rect.height = h - 2 /\ h - 2 \in Int
    BY ONLY <1>1, <1>2, rect.y = 0, rect.height = sz.height - 2
  <2>2. base \in Above(rect, Textual, {"ok", "aborted"})
    <3>1. <<>> \in Seq(Textual) /\ "ok" \in {"ok", "aborted"} /\ FALSE \in BOOLEAN
      OBVIOUS
    <3> QED BY ONLY <1>1, <2>1, <3>1, AboveIs
  <2>3. base.y = h - 2 /\ base.texts = <<>> /\ base.full = FALSE
    BY ONLY <1>1, <2>1
  <2>4. term = Clear(sz)
    <3>1. PICK clear : clear = Clear(sz)
      OBVIOUS
    <3>2. FoldLeft(DrawText, clear, <<>>) = TextFold!Fold(clear, <<>>)
      BY TextFolded
    <3>3. TextFold!Fold(clear, <<>>) = clear
      BY TextFold!FoldEmpty
    <3> QED BY ONLY <1>1, <3>1, <3>2, <3>3, Zenon
  <2>5. 0 \in 0 .. l /\ LastRows(all, rect.width, 0) = <<>>
    <3>1. 0 \in 0 .. Len(all) /\ 0 \in 0 .. l
      BY ONLY <1>1, <1>2
    <3> QED BY ONLY <3>1, rect.width \in Nat, all \in Seq(Seq(Rows)), LastRowsType
  <2>6. Shows(sz, term, <<>>)
    BY <1>1, <1>2, <2>4, ClearShows
  <2>7. PICK rows : rows = LastRows(all, rect.width, 0)
    OBVIOUS
  <2>8. /\ base.y = sz.height - 2 - Len(rows)
        /\ Shows(sz, FoldLeft(DrawText, Clear(sz), base.texts), rows)
    <3>1. rows = <<>>
      BY ONLY <2>5, <2>7
    <3>2. Len(rows) = 0
      BY ONLY <3>1
    <3>3. base.y = sz.height - 2 - Len(rows)
      BY ONLY <1>1, <1>2, <2>3, <3>2
    <3> QED BY ONLY <1>1, <2>3, <2>6, <3>1, <3>3, Zenon
  <2>9. 0 \in 0 .. 0
    OBVIOUS
  <2>10. base \in SoFar(sz, all, rect, 0)
    BY ONLY <2>2, <2>3, <2>7, <2>8, <2>9 DEF SoFar
  <2> QED BY ONLY <1>4, <2>5, <2>10
<1>6. ASSUME NEW k \in 1 .. Len(s), NEW a \in I[k - 1] PROVE DrawLine(a, s[k]) \in I[k]
  <2>1. k \in 1 .. Len(all) /\ k \in 0 .. l /\ k - 1 \in 0 .. l /\ k \in 1 .. l
    BY ONLY <1>1, <1>2, <1>3, k \in 1 .. Len(s)
  <2>2. a \in SoFar(sz, all, rect, k - 1)
    BY ONLY <1>4, <2>1, a \in I[k - 1]
  <2>3. DrawLine(a, all[Len(all) - k + 1]) \in SoFar(sz, all, rect, k)
    BY ONLY <2>1, <2>2, IsSize(sz), rect.y = 0, rect.width \in Nat, all \in Seq(Seq(Rows)), LineDraws
  <2>4. s[k] = all[Len(all) - k + 1]
    BY ONLY <1>1, <1>3, <2>1
  <2> QED BY ONLY <1>4, <2>1, <2>3, <2>4
<1>7. LineFold!Fold(base, s) \in I[Len(s)]
  BY ONLY <1>3, <1>5, <1>6, LineFold!FoldInvariant
<1>8. part = LineFold!Fold(base, s)
  BY <1>1, LineFolded DEF DrawMain
<1>9. part \in SoFar(sz, all, rect, l)
  <2>1. l \in 0 .. l
    BY <1>2
  <2> QED BY ONLY <1>3, <1>4, <1>7, <1>8, <2>1
<1>10. part.fate \in {"ok", "aborted"} /\ part.texts \in Seq(Textual)
  BY ONLY <1>9 DEF SoFar, Above
<1>11. ASSUME part.fate = "ok"
       PROVE  \E n \in 0 .. Len(all) :
                /\ Shows(sz, FoldLeft(DrawText, Clear(sz), part.texts), LastRows(all, rect.width, n))
                /\ n < Len(all) => Len(LastRows(all, rect.width, n + 1)) > sz.height - 2
  <2>1. PICK n \in 0 .. l :
          /\ Shows(sz, FoldLeft(DrawText, Clear(sz), part.texts), LastRows(all, rect.width, n))
          /\ IF part.full THEN n < Len(all) /\ Len(LastRows(all, rect.width, n + 1)) > sz.height - 2
             ELSE n = l
    BY ONLY <1>9, <1>11 DEF SoFar
  <2>2. n < Len(all) => n # l
    BY ONLY <1>1, <1>2, <2>1
  <2> QED BY ONLY <1>1, <2>1, <2>2, Zenon
<1> QED BY ONLY <1>1, <1>10, <1>11, Zenon

(* Then that is what the expected picture has there. *)
LEMMA NewestIs ==
  ASSUME NEW all \in Seq(Seq(Rows)), size.width \in Nat, NEW n \in 0 .. Len(all), size.height \in Nat,
         Len(LastRows(all, size.width, n)) <= size.height - 2,
         n < Len(all) => Len(LastRows(all, size.width, n + 1)) > size.height - 2
  PROVE  Newest(all) = LastRows(all, size.width, n)
<1>1. PICK w, h, l : w = size.width /\ h = size.height /\ l = Len(all)
  OBVIOUS
<1>2. w \in Nat /\ h \in Nat /\ l \in Nat /\ n \in 0 .. l
  BY ONLY <1>1, all \in Seq(Seq(Rows)), size.width \in Nat, size.height \in Nat, n \in 0 .. Len(all)
<1>3. PICK f, N : f = [i \in 0 .. l |-> Len(LastRows(all, w, i))] /\ N = 0 .. l
  OBVIOUS
<1>4. /\ \A i \in 0 .. l : f[i] \in Nat
      /\ \A i \in 0 .. l : \A j \in i .. l : f[i] <= f[j]
  <2>1. \A i \in 0 .. l : f[i] \in Nat
    BY ONLY <1>1, <1>2, <1>3, all \in Seq(Seq(Rows)), LastRowsType
  <2>2. ASSUME NEW i \in 0 .. l, NEW j \in i .. l PROVE f[i] <= f[j]
    <3>1. Len(LastRows(all, w, i)) <= Len(LastRows(all, w, j))
      BY ONLY <1>1, <1>2, all \in Seq(Seq(Rows)), i \in 0 .. l, j \in i .. l, MoreRows
    <3>2. j \in 0 .. l
      BY ONLY <1>2, i \in 0 .. l, j \in i .. l
    <3> QED BY ONLY <1>3, <3>1, <3>2
  <2> QED BY ONLY <2>1, <2>2
<1>5. f[n] <= h - 2 /\ (n < l => f[n + 1] > h - 2)
  <2>1. n < l => n + 1 \in 0 .. l
    BY ONLY <1>2
  <2>2. f[n] <= h - 2
    BY <1>1, <1>2, <1>3
  <2>3. ASSUME n < l PROVE f[n + 1] > h - 2
    BY <1>1, <1>3, <2>1, <2>3
  <2> QED BY ONLY <2>2, <2>3
<1> DEFINE P(i) == f[i] <= h - 2 /\ \A m \in i + 1 .. l : f[m] > h - 2
<1>6. P(n)
  <2> SUFFICES ASSUME NEW m \in n + 1 .. l PROVE f[m] > h - 2
    BY <1>5
  <2>1. n < l /\ n + 1 \in 0 .. l /\ m \in 0 .. l
    BY ONLY <1>2, m \in n + 1 .. l
  <2>2. f[n + 1] <= f[m] /\ f[n + 1] \in Nat /\ f[m] \in Nat
    BY ONLY <1>4, <2>1, m \in n + 1 .. l
  <2> QED BY ONLY <1>2, <1>5, <2>1, <2>2
<1>7. ASSUME NEW i \in 0 .. l, P(i) PROVE i = n
  <2>1. CASE i < n
    <3>1. n \in i + 1 .. l
      BY ONLY <1>2, <2>1, i \in 0 .. l
    <3>2. f[n] > h - 2 /\ f[n] \in Nat
      BY ONLY <1>2, <1>4, <1>7, <3>1
    <3> QED BY ONLY <1>2, <1>5, <3>2
  <2>2. CASE n < i
    <3>1. i \in n + 1 .. l
      BY ONLY <1>2, <2>2, i \in 0 .. l
    <3>2. f[i] > h - 2 /\ f[i] \in Nat /\ f[i] <= h - 2
      BY ONLY <1>4, <1>6, <1>7, <3>1, i \in 0 .. l
    <3> QED BY ONLY <1>2, <3>2
  <2> QED BY ONLY <1>2, <2>1, <2>2, i \in 0 .. l
<1> DEFINE LastOf(m) == RowsOf(SubSeq(all, Len(all) - m + 1, Len(all)))
<1>8. \A m : LastOf(m) = LastRows(all, w, m)
  BY <1>1 DEF RowsOf, LastRows, RowsAt
<1>9. PICK c : c = CHOOSE i \in 0 .. Len(all) :
                     /\ Len(LastOf(i)) <= size.height - 2
                     /\ \A m \in i + 1 .. Len(all) : Len(LastOf(m)) > size.height - 2
  OBVIOUS
<1>10. Newest(all) = LastOf(c)
  BY ONLY <1>9 DEF Newest
<1> HIDE DEF LastOf
<1>11. \A i \in 0 .. l : P(i) <=> /\ Len(LastOf(i)) <= size.height - 2
                                  /\ \A m \in i + 1 .. Len(all) : Len(LastOf(m)) > size.height - 2
  <2> SUFFICES ASSUME NEW i \in 0 .. l
               PROVE  P(i) <=> /\ Len(LastOf(i)) <= size.height - 2
                               /\ \A m \in i + 1 .. Len(all) : Len(LastOf(m)) > size.height - 2
    OBVIOUS
  <2>1. f[i] = Len(LastOf(i))
    BY ONLY <1>3, <1>8, i \in 0 .. l
  <2>2. \A m \in i + 1 .. l : f[m] = Len(LastOf(m))
    <3>1. \A m \in i + 1 .. l : m \in 0 .. l
      BY ONLY <1>2, i \in 0 .. l
    <3> QED BY ONLY <1>3, <1>8, <3>1
  <2> QED BY ONLY <1>1, <2>1, <2>2, Zenon
<1>12. c = n
  <2>1. c \in 0 .. l /\ P(c)
    <3>1. \E i \in 0 .. Len(all) :
             /\ Len(LastOf(i)) <= size.height - 2
             /\ \A m \in i + 1 .. Len(all) : Len(LastOf(m)) > size.height - 2
      BY ONLY <1>1, <1>2, <1>6, <1>11
    <3>2. /\ c \in 0 .. Len(all) /\ Len(LastOf(c)) <= size.height - 2
          /\ \A m \in c + 1 .. Len(all) : Len(LastOf(m)) > size.height - 2
      BY ONLY <1>9, <3>1, Zenon
    <3> QED BY ONLY <1>1, <1>11, <3>2
  <2> QED BY ONLY <1>7, <2>1
<1> QED BY ONLY <1>1, <1>8, <1>10, <1>12

(* The status line and the line that is typed are drawn below that.         *)
LEMMA LastTwoRows ==
  ASSUME NEW sz, IsSize(sz), sz.height > 2, NEW term \in Terms(sz),
         NEW stat \in Seq(Rows), stat # <<>>, Len(stat) <= 2, NEW s \in Rows
  PROVE  LET h == sz.height
             one == DrawText(term, [y |-> h - 2, rows |-> stat])
             two == DrawText(one, [y |-> h - 1, rows |-> <<<<>>>>])
             three == DrawText(two, [y |-> h - 1, rows |-> <<s>>])
         IN  /\ three.rows[h - 1] = s /\ three.rows[h - 2] = stat[1]
             /\ \A y \in 0 .. h - 3 : three.rows[y] = term.rows[y]
<1>1. PICK h, blank, line, t1, t2, t3, one, two, three :
        /\ h = sz.height /\ blank = <<<<>>>> /\ line = <<s>>
        /\ t1 = [y |-> h - 2, rows |-> stat] /\ t2 = [y |-> h - 1, rows |-> blank]
        /\ t3 = [y |-> h - 1, rows |-> line]
        /\ one = DrawText(term, t1) /\ two = DrawText(one, t2) /\ three = DrawText(two, t3)
  OBVIOUS
<1>2. h \in Nat /\ h > 2 /\ h - 2 \in Nat /\ h - 1 \in Nat /\ h - 2 \in Int /\ h - 1 \in Int
  <2>1. h \in Nat /\ h > 2
    BY <1>1 DEF IsSize
  <2> QED BY ONLY <2>1
<1>3. /\ blank \in Seq(Rows) /\ blank # <<>> /\ Len(blank) = 1
      /\ line \in Seq(Rows) /\ line # <<>> /\ Len(line) = 1 /\ line[1] = s
  <2>1. <<>> \in Rows
    BY DEF Rows
  <2> QED BY ONLY <1>1, <2>1, s \in Rows
<1>4. /\ t1 \in Textual /\ t1.y = h - 2 /\ t1.rows = stat
      /\ t2 \in Textual /\ t2.y = h - 1 /\ t2.rows = blank
      /\ t3 \in Textual /\ t3.y = h - 1 /\ t3.rows = line
  <2>1. t1 \in Textual /\ t1.y = h - 2 /\ t1.rows = stat
    BY ONLY <1>1, <1>2, stat \in Seq(Rows), stat # <<>> DEF Textual
  <2>2. t2 \in Textual /\ t2.y = h - 1 /\ t2.rows = blank
    BY ONLY <1>1, <1>2, <1>3 DEF Textual
  <2>3. t3 \in Textual /\ t3.y = h - 1 /\ t3.rows = line
    BY ONLY <1>1, <1>2, <1>3 DEF Textual
  <2> QED BY ONLY <2>1, <2>2, <2>3
<1>5. one \in Terms(sz) /\ two \in Terms(sz)
  <2>1. one \in Terms(sz)
    BY ONLY <1>1, <1>4, IsSize(sz), term \in Terms(sz), DrawTextDraws
  <2>2. two \in Terms(sz)
    BY ONLY <1>1, <1>4, <2>1, IsSize(sz), DrawTextDraws
  <2> QED BY ONLY <2>1, <2>2
<1>6. PICK m : m = Len(stat)
  OBVIOUS
<1>7. m \in Nat /\ m >= 1 /\ m <= 2
  <2>1. m \in Nat /\ m # 0
    BY ONLY <1>6, stat \in Seq(Rows), stat # <<>>
  <2> QED BY ONLY <1>6, <2>1, Len(stat) <= 2
<1>8. one.rows = Below(term, h - 2, stat, m)
  <2>1. t1.y \in Nat /\ t1.y + Len(t1.rows) <= sz.height
    <3>1. h - 2 + m <= h
      BY ONLY <1>2, <1>7
    <3> QED BY ONLY <1>1, <1>2, <1>4, <1>6, <3>1
  <2>2. DrawText(term, t1).rows = Below(term, t1.y, t1.rows, Len(t1.rows))
    BY ONLY <1>4, <2>1, IsSize(sz), term \in Terms(sz), DrawTextShows
  <2> QED BY ONLY <1>1, <1>4, <1>6, <2>2, Zenon
<1>9. two.rows = Below(one, h - 1, blank, 1) /\ three.rows = Below(two, h - 1, line, 1)
  <2>1. /\ t2.y \in Nat /\ t2.y + Len(t2.rows) <= sz.height
        /\ t3.y \in Nat /\ t3.y + Len(t3.rows) <= sz.height
    BY ONLY <1>1, <1>2, <1>3, <1>4
  <2>2. DrawText(one, t2).rows = Below(one, t2.y, t2.rows, Len(t2.rows))
    BY ONLY <1>4, <1>5, <2>1, IsSize(sz), DrawTextShows
  <2>3. DrawText(two, t3).rows = Below(two, t3.y, t3.rows, Len(t3.rows))
    BY ONLY <1>4, <1>5, <2>1, IsSize(sz), DrawTextShows
  <2> QED BY ONLY <1>1, <1>3, <1>4, <2>2, <2>3, Zenon
<1>10. \A t \in Terms(sz) : DOMAIN t.rows = 0 .. h - 1
  <2> SUFFICES ASSUME NEW t \in Terms(sz) PROVE DOMAIN t.rows = 0 .. h - 1
    OBVIOUS
  <2>1. PICK f : f = t.rows
    OBVIOUS
  <2>2. f \in [0 .. h - 1 -> Rows]
    BY <1>1, <2>1, TermFields
  <2> QED BY ONLY <2>1, <2>2
<1>11. /\ \A y \in 0 .. h - 1 :
            one.rows[y] = IF y \in h - 2 .. h - 2 + m - 1 THEN stat[y - (h - 2) + 1] ELSE term.rows[y]
       /\ \A y \in 0 .. h - 1 :
            two.rows[y] = IF y \in h - 1 .. h - 1 + 1 - 1 THEN blank[y - (h - 1) + 1] ELSE one.rows[y]
       /\ \A y \in 0 .. h - 1 :
            three.rows[y] = IF y \in h - 1 .. h - 1 + 1 - 1 THEN line[y - (h - 1) + 1] ELSE two.rows[y]
  BY ONLY <1>5, <1>8, <1>9, <1>10, term \in Terms(sz) DEF Below
<1>12. three.rows[h - 1] = s
  <2>1. h - 1 \in 0 .. h - 1 /\ h - 1 \in h - 1 .. h - 1 + 1 - 1 /\ (h - 1) - (h - 1) + 1 = 1
    BY ONLY <1>2
  <2> QED BY ONLY <1>3, <1>11, <2>1
<1>13. three.rows[h - 2] = stat[1]
  <2>1. /\ h - 2 \in 0 .. h - 1 /\ h - 2 \notin h - 1 .. h - 1 + 1 - 1 /\ (h - 2) - (h - 2) + 1 = 1
        /\ h - 2 \in h - 2 .. h - 2 + m - 1
    BY ONLY <1>2, <1>7
  <2> QED BY ONLY <1>11, <2>1
<1>14. ASSUME NEW y \in 0 .. h - 3 PROVE three.rows[y] = term.rows[y]
  <2>1. /\ y \in 0 .. h - 1 /\ y \notin h - 1 .. h - 1 + 1 - 1 /\ y \notin h - 2 .. h - 2 + m - 1
    BY ONLY <1>2, <1>7, y \in 0 .. h - 3
  <2> QED BY ONLY <1>11, <2>1
<1> QED BY ONLY <1>1, <1>12, <1>13, <1>14, Zenon

(* The texts of the three parts, one after the other. *)
LEMMA ThreeParts ==
  ASSUME NEW X, NEW s \in Seq(X), NEW a \in X, NEW b \in X, NEW c \in X,
         NEW parts, DOMAIN parts = 1 .. 3, parts[1].texts = s,
         parts[2].texts = <<a>>, parts[3].texts = <<b, c>>,
         NEW all, all = Append(Append(Append(s, a), b), c)
  PROVE  TextsOf(parts) = all
<1>1. PICK each, Y, u, v : /\ Y = Seq(X) /\ u = <<a>> /\ v = <<b, c>>
                           /\ each = [i \in 1 .. 3 |-> parts[i].texts]
  OBVIOUS
<1>2. s \in Y /\ u \in Y /\ v \in Y
  BY ONLY <1>1, s \in Seq(X), a \in X, b \in X, c \in X
<1>3. parts[2].texts = u /\ parts[3].texts = v
  BY ONLY <1>1, parts[2].texts = <<a>>, parts[3].texts = <<b, c>>
<1>4. /\ each \in [1 .. 3 -> Y] /\ each[1] = s /\ each[2] = u /\ each[3] = v
  <2>1. \A i \in 1 .. 3 : i = 1 \/ i = 2 \/ i = 3
    OBVIOUS
  <2>2. each[1] = s /\ each[2] = u /\ each[3] = v
    BY ONLY <1>1, <1>3, parts[1].texts = s
  <2> QED BY ONLY <1>1, <1>2, <2>1, <2>2
<1>5. PICK w : w = <<s, u, v>>
  OBVIOUS
<1>6. each = w
  <2>1. each \in Seq(Y) /\ Len(each) = 3
    BY ONLY <1>4, FunctionIsSeq
  <2>2. w \in Seq(Y) /\ Len(w) = 3 /\ w[1] = s /\ w[2] = u /\ w[3] = v
    BY ONLY <1>2, <1>5
  <2>3. \A i \in 1 .. 3 : i = 1 \/ i = 2 \/ i = 3
    OBVIOUS
  <2> QED BY ONLY <1>4, <2>1, <2>2, <2>3, SameElements
<1>7. PICK e0, e1, e2 : e0 = <<>> /\ e1 = Append(e0, s) /\ e2 = Append(e1, u)
  OBVIOUS
<1>8. e0 \in Seq(Y) /\ e1 \in Seq(Y) /\ e2 \in Seq(Y)
  <2>1. e0 \in Seq(Y)
    BY ONLY <1>7
  <2>2. e1 \in Seq(Y)
    BY ONLY <1>2, <1>7, <2>1, AppendParts
  <2>3. e2 \in Seq(Y)
    BY ONLY <1>2, <1>7, <2>2, AppendParts
  <2> QED BY ONLY <2>1, <2>2, <2>3
<1>9. w = Append(e2, v)
  BY ONLY <1>5, <1>7, ThreeAppended
<1>10. FlattenSeq(w) = ((FlattenSeq(e0) \o s) \o u) \o v
  <2>1. /\ e0 \in Seq(Seq(X)) /\ e1 \in Seq(Seq(X)) /\ e2 \in Seq(Seq(X))
        /\ s \in Seq(X) /\ u \in Seq(X) /\ v \in Seq(X)
    BY ONLY <1>1, <1>2, <1>8, Zenon
  <2>2. FlattenSeq(Append(e0, s)) = FlattenSeq(e0) \o s
    BY ONLY <2>1, FlattenAppend
  <2>3. FlattenSeq(Append(e1, u)) = FlattenSeq(e1) \o u
    BY ONLY <2>1, FlattenAppend
  <2>4. FlattenSeq(Append(e2, v)) = FlattenSeq(e2) \o v
    BY ONLY <2>1, FlattenAppend
  <2> QED BY ONLY <1>7, <1>9, <2>2, <2>3, <2>4, Zenon
<1>11. FlattenSeq(e0) = <<>>
  BY ONLY <1>7, FlattenEmpty
<1>12. <<>> \o s = s
  BY ONLY s \in Seq(X)
<1>13. PICK x, y : x = Append(s, a) /\ y = Append(x, b)
  OBVIOUS
<1>14. x \in Seq(X) /\ y \in Seq(X)
  <2>1. x \in Seq(X)
    BY ONLY <1>13, s \in Seq(X), a \in X, AppendParts
  <2> QED BY ONLY <1>13, <2>1, b \in X, AppendParts
<1>15. s \o u = x
  BY ONLY <1>1, <1>13, s \in Seq(X), a \in X
<1>16. x \o v = Append(y, c)
  <2>1. PICK k : k = <<b>>
    OBVIOUS
  <2>5. k \in Seq(X) /\ Len(k) = 1 /\ k[1] = b
    BY ONLY <2>1, b \in X
  <2>2. Append(k, c) = v
    <3>1. PICK z : z = Append(k, c)
      OBVIOUS
    <3>2. z \in Seq(X) /\ Len(z) = Len(k) + 1 /\ z[Len(k) + 1] = c /\ \A i \in 1 .. Len(k) : z[i] = k[i]
      <4>1. k \in Seq(X) /\ c \in X
        BY ONLY <2>5, c \in X
      <4>2. /\ Append(k, c) \in Seq(X) /\ Len(Append(k, c)) = Len(k) + 1 /\ Append(k, c)[Len(k) + 1] = c
            /\ \A i \in 1 .. Len(k) : Append(k, c)[i] = k[i]
        BY ONLY <4>1, AppendParts
      <4> QED BY ONLY <3>1, <4>2, Zenon
    <3>3. Len(z) = 2 /\ z[1] = b /\ z[2] = c
      BY ONLY <2>5, <3>2
    <3>4. v \in Seq(X) /\ Len(v) = 2 /\ v[1] = b /\ v[2] = c
      BY ONLY <1>1, b \in X, c \in X
    <3>5. \A i \in 1 .. 2 : i = 1 \/ i = 2
      OBVIOUS
    <3>6. z = v
      BY ONLY <3>2, <3>3, <3>4, <3>5, SameElements
    <3> QED BY ONLY <3>1, <3>6
  <2>3. x \o Append(k, c) = Append(x \o k, c)
    <3>1. x \in Seq(X) /\ k \in Seq(X) /\ c \in X
      BY ONLY <1>14, <2>5, c \in X
    <3> QED BY ONLY <3>1, ConcatAppend
  <2>4. x \o k = y
    BY ONLY <1>13, <1>14, <2>1, b \in X
  <2> QED BY ONLY <2>2, <2>3, <2>4, Zenon
<1>17. FlattenSeq(w) = Append(y, c)
  BY ONLY <1>10, <1>11, <1>12, <1>15, <1>16, Zenon
<1>18. TextsOf(parts) = FlattenSeq(each)
  BY <1>1 DEF TextsOf
<1>19. all = Append(y, c)
  BY ONLY <1>13, all = Append(Append(Append(s, a), b), c)
<1> QED BY ONLY <1>6, <1>17, <1>18, <1>19, Zenon

(* What is left of the line that is typed fits in front of its last column. *)
LEMMA TypedRow ==
  ASSUME NEW rect, rect.width \in Nat, NEW typed \in Rows
  PROVE  /\ Truncate(Visible(typed, InputWidth(rect)), rect.width) = Visible(typed, rect.width - 1)
         /\ Visible(typed, rect.width - 1) \in Rows
<1>1. PICK w, width, seen : w = rect.width /\ width = InputWidth(rect) /\ seen = Visible(typed, width)
  OBVIOUS
<1>2. w \in Nat /\ width = IF w = 0 THEN 0 ELSE w - 1
  BY <1>1 DEF InputWidth
<1>3. width \in Nat /\ width <= w
  BY ONLY <1>2
<1>4. seen \in Rows /\ Len(seen) <= width /\ Len(seen) \in Nat
  <2>1. seen \in Rows /\ Len(seen) <= width
    BY ONLY <1>1, <1>3, typed \in Rows, VisibleType
  <2>2. Len(seen) \in Nat
    BY ONLY <2>1 DEF Rows
  <2> QED BY ONLY <2>1, <2>2
<1>5. Truncate(seen, w) = seen
  <2>1. Len(seen) <= w
    BY ONLY <1>2, <1>3, <1>4
  <2> QED BY ONLY <1>2, <1>4, <2>1, TruncateType
<1>6. CASE w > 0
  <2>1. w - 1 = width
    BY ONLY <1>2, <1>6
  <2> QED BY ONLY <1>1, <1>4, <1>5, <2>1, Zenon
<1>7. CASE ~(w > 0)
  <2>1. w = 0 /\ w - 1 = -1
    BY ONLY <1>2, <1>7
  <2>2. seen = <<>>
    <3>1. Len(seen) = 0
      BY ONLY <1>2, <1>4, <2>1
    <3> QED BY ONLY <1>4, <3>1 DEF Rows
  <2>3. PICK l : l = Len(typed)
    OBVIOUS
  <2>4. l \in Nat /\ typed \in Seq(Graphemes)
    BY ONLY <2>3, typed \in Rows DEF Rows
  <2>5. 1 + (IF -1 < l THEN l - (-1) ELSE 0) = l + 2
    BY ONLY <2>4
  <2>6. Visible(typed, -1) = SubSeq(typed, l + 2, l)
    BY ONLY <2>3, <2>5 DEF Visible
  <2>7. SubSeq(typed, l + 2, l) = <<>>
    BY ONLY <2>3, <2>4
  <2> QED BY ONLY <1>1, <1>4, <1>5, <2>1, <2>2, <2>6, <2>7, Zenon
<1> QED BY ONLY <1>6, <1>7

(* The terminal shows as many of the newest of these lines as there is room *)
(* for, the status line below them, and below that the line that is typed.  *)
Pictured(sz, term, kept, line, typed) ==
  /\ sz.height > 2 /\ kept \in Seq(Seq(Rows))
  /\ term.rows[sz.height - 1] = Visible(typed, sz.width - 1)
  /\ term.rows[sz.height - 2] = WordWrap(line, sz.width).rows[1]
  /\ \E n \in 0 .. Len(kept) :
       /\ n < Len(kept) => Len(LastRows(kept, sz.width, n + 1)) > sz.height - 2
       /\ LET rows == LastRows(kept, sz.width, n)
              top == sz.height - 2 - Len(rows)
          IN  /\ top \in Nat
              /\ \A y \in 0 .. sz.height - 3 :
                   term.rows[y] = IF y \in top .. top + Len(rows) - 1 THEN rows[y - top + 1] ELSE <<>>

LEMMA RenderShows ==
  ASSUME NEW sz, IsSize(sz), NEW window \in Windows, NEW all \in Seq(Texts), NEW hidden \in Nat,
         NEW typed \in Rows, NEW drawn \in Render(sz, window, all, hidden, typed), drawn.fate = "ok",
         Len(WordWrap(StatusLine[window], sz.width).rows) <= 2
  PROVE  Pictured(sz, drawn.term, NotHidden(all, hidden), StatusLine[window], typed)
<1>1. PICK layout, parts, w, h, kept, line :
        /\ layout = Calc("vertical", ClientLayout, sz.width, sz.height)
        /\ parts = Parts(layout, window, all, hidden, typed) /\ drawn = Put(sz, parts)
        /\ w = sz.width /\ h = sz.height /\ kept = NotHidden(all, hidden) /\ line = StatusLine[window]
  BY DEF Render
<1>2. w \in Nat /\ h \in Nat
  BY <1>1 DEF IsSize
<1>3. (layout.fate = "ok" <=> h > 2) /\ (h > 2 => layout.rects = ClientRects(sz))
  BY <1>1, ClientCalc
<1>4. h > 2 /\ layout.fate = "ok"
  <2> SUFFICES ASSUME ~(layout.fate = "ok") PROVE FALSE
    BY <1>3
  <2>1. parts = <<Failed>>
    BY <1>1 DEF Parts
  <2>2. 1 \in DOMAIN parts /\ parts[1].fate # "ok"
    BY ONLY <2>1 DEF Failed
  <2>3. drawn.fate = "aborted"
    BY <1>1, <2>2 DEF Put
  <2> QED BY <2>3
<1>5. PICK r1, r2, r3, p1, p2, p3 :
        /\ r1 = layout.rects[1] /\ r2 = layout.rects[2] /\ r3 = layout.rects[3]
        /\ p1 = DrawMain(r1, kept) /\ p2 = DrawStatus(r2, line) /\ p3 = DrawInput(r3, typed)
  OBVIOUS
<1>6. parts = <<p1, p2, p3>>
  BY <1>1, <1>4, <1>5 DEF Parts
<1>7. /\ r1.y = 0 /\ r1.height = h - 2 /\ r1.width = w
      /\ r2.y = h - 2 /\ r2.width = w /\ r3.y = h - 1 /\ r3.width = w
  BY <1>1, <1>3, <1>4, <1>5 DEF ClientRects
<1>8. kept \in Seq(Seq(Rows)) /\ line \in Seq(Rows)
  <2>1. \A text \in Texts : text \in Seq(Rows)
    BY TheyAreTexts DEF IsText, Rows
  <2>2. kept \in Seq(Texts)
    BY ONLY <1>1, all \in Seq(Texts), hidden \in Nat, NotHiddenType
  <2>3. Texts \subseteq Seq(Rows)
    BY ONLY <2>1
  <2>4. kept \in Seq(Seq(Rows))
    BY ONLY <2>2, <2>3, WiderSeq
  <2>5. line \in Seq(Rows)
    BY <1>1, TheyAreTexts DEF IsText, Rows
  <2> QED BY ONLY <2>4, <2>5
<1>9. /\ p1.fate \in {"ok", "aborted"} /\ p1.texts \in Seq(Textual)
      /\ p1.fate = "ok" =>
           \E n \in 0 .. Len(kept) :
             /\ Shows(sz, FoldLeft(DrawText, Clear(sz), p1.texts), LastRows(kept, w, n))
             /\ n < Len(kept) => Len(LastRows(kept, w, n + 1)) > h - 2
  <2>1. sz.height > 2 /\ r1.y = 0 /\ r1.height = sz.height - 2 /\ r1.width \in Nat
    BY ONLY <1>1, <1>2, <1>4, <1>7
  <2>2. LET part == DrawMain(r1, kept)
        IN  /\ part.fate \in {"ok", "aborted"} /\ part.texts \in Seq(Textual)
            /\ part.fate = "ok" =>
                 \E n \in 0 .. Len(kept) :
                   /\ Shows(sz, FoldLeft(DrawText, Clear(sz), part.texts), LastRows(kept, r1.width, n))
                   /\ n < Len(kept) => Len(LastRows(kept, r1.width, n + 1)) > sz.height - 2
    BY ONLY <1>8, <2>1, IsSize(sz), MainShows
  <2> QED BY ONLY <1>1, <1>5, <1>7, <2>2, Zenon
<1>10. p2.texts \in Seq(Textual)
  <2>1. r2.y \in Int /\ r2.width \in Nat
    BY ONLY <1>2, <1>7
  <2>2. LET part == DrawStatus(r2, line) IN part.texts \in Seq(Textual)
    BY ONLY <1>8, <2>1, StatusPart
  <2> QED BY ONLY <1>5, <2>2, Zenon
<1>11. p3.texts \in Seq(Textual)
  <2>1. r3.y \in Int /\ r3.width \in Nat
    BY ONLY <1>2, <1>7
  <2>2. LET part == DrawInput(r3, typed) IN part.texts \in Seq(Textual)
    BY ONLY <2>1, typed \in Rows, InputPart
  <2> QED BY ONLY <1>5, <2>2, Zenon
<1>12. /\ p1.fate = "ok" /\ p2.fate = "ok" /\ p3.fate = "ok"
       /\ drawn.term = FoldLeft(DrawText, Clear(sz), TextsOf(parts))
  <2>1. DOMAIN parts = 1 .. 3 /\ parts[1] = p1 /\ parts[2] = p2 /\ parts[3] = p3
    BY ONLY <1>6
  <2>2. \A i \in 1 .. 3 : i = 1 \/ i = 2 \/ i = 3
    OBVIOUS
  <2>3. \A i \in 1 .. 3 : parts[i].texts \in Seq(Textual)
    BY ONLY <1>9, <1>10, <1>11, <2>1, <2>2
  <2>4. PICK n, d : n = 3 /\ d = Put(sz, parts)
    OBVIOUS
  <2>5. n \in Nat /\ DOMAIN parts = 1 .. n /\ \A i \in 1 .. n : parts[i].texts \in Seq(Textual)
    BY ONLY <2>1, <2>3, <2>4
  <2>6. /\ d.fate = "ok" <=> \A i \in 1 .. n : parts[i].fate = "ok"
        /\ d.fate = "ok" => d.term = FoldLeft(DrawText, Clear(sz), TextsOf(parts))
    BY ONLY <2>4, <2>5, IsSize(sz), PutDraws
  <2>7. \A i \in 1 .. 3 : parts[i].fate = "ok"
    BY ONLY <1>1, <2>4, <2>6, drawn.fate = "ok"
  <2>8. 1 \in 1 .. 3 /\ 2 \in 1 .. 3 /\ 3 \in 1 .. 3
    OBVIOUS
  <2> QED BY ONLY <1>1, <2>1, <2>4, <2>6, <2>7, <2>8, drawn.fate = "ok"
<1>13. PICK stat, s, t1, t2, t3 :
         /\ stat = WordWrap(line, w).rows /\ s = Visible(typed, w - 1)
         /\ t1 = [y |-> h - 2, rows |-> stat] /\ t2 = [y |-> h - 1, rows |-> <<<<>>>>]
         /\ t3 = [y |-> h - 1, rows |-> <<s>>]
  OBVIOUS
<1>14. stat \in Seq(Rows) /\ stat # <<>> /\ Len(stat) <= 2
  <2>1. WordWrap(line, w).rows \in Seq(Rows) \ {<<>>}
    BY ONLY <1>2, <1>8, WrapType
  <2>2. Len(stat) <= 2
    BY ONLY <1>1, <1>13, Len(WordWrap(StatusLine[window], sz.width).rows) <= 2, Zenon
  <2> QED BY ONLY <1>13, <2>1, <2>2
<1>15. s \in Rows /\ Truncate(Visible(typed, InputWidth(r3)), r3.width) = s
  <2>1. r3.width \in Nat
    BY ONLY <1>2, <1>7
  <2>2. /\ Truncate(Visible(typed, InputWidth(r3)), r3.width) = Visible(typed, r3.width - 1)
        /\ Visible(typed, r3.width - 1) \in Rows
    BY ONLY <2>1, typed \in Rows, TypedRow
  <2> QED BY ONLY <1>7, <1>13, <2>2, Zenon
<1>16. p2.texts = <<t1>>
  <2>1. WordWrap(line, r2.width).fate = "ok"
    <3> SUFFICES ASSUME WordWrap(line, r2.width).fate # "ok" PROVE FALSE
      OBVIOUS
    <3>1. p2.fate = "aborted"
      BY <1>5 DEF DrawStatus, Failed
    <3> QED BY <1>12, <3>1
  <2>2. p2 = [fate |-> "ok", texts |-> <<[y |-> r2.y, rows |-> WordWrap(line, r2.width).rows]>>]
    BY ONLY <1>5, <2>1 DEF DrawStatus, Drawn
  <2>3. p2.texts = <<[y |-> r2.y, rows |-> WordWrap(line, r2.width).rows]>>
    BY ONLY <2>2
  <2> QED BY ONLY <1>7, <1>13, <2>3, Zenon
<1>17. p3.texts = <<t2, t3>>
  <2>1. PICK one, two : /\ one = [y |-> r3.y, rows |-> <<<<>>>>]
          /\ two = [y |-> r3.y, rows |-> <<Truncate(Visible(typed, InputWidth(r3)), r3.width)>>]
    OBVIOUS
  <2>2. ~(InputWidth(r3) = 1 /\ typed = <<>>)
    <3> SUFFICES ASSUME InputWidth(r3) = 1 /\ typed = <<>> PROVE FALSE
      OBVIOUS
    <3>1. p3.fate = "aborted"
      BY <1>5 DEF DrawInput, Failed
    <3> QED BY <1>12, <3>1
  <2>3. p3 = [fate |-> "ok", texts |-> <<one, two>>]
    BY ONLY <1>5, <2>1, <2>2 DEF DrawInput, Drawn
  <2>4. p3.texts = <<one, two>>
    BY ONLY <2>3
  <2>5. one = t2 /\ two = t3
    BY ONLY <1>7, <1>13, <1>15, <2>1, Zenon
  <2> QED BY ONLY <2>4, <2>5, Zenon
<1>18. t1 \in Textual /\ t2 \in Textual /\ t3 \in Textual
  <2>1. <<t1>>[1] \in Textual
    BY ONLY <1>10, <1>16
  <2>2. <<t2, t3>>[1] \in Textual /\ <<t2, t3>>[2] \in Textual
    BY ONLY <1>11, <1>17
  <2> QED BY ONLY <2>1, <2>2
<1>19. PICK x1, x2, x3, d0, d1, d2, d3 :
         /\ x1 = Append(p1.texts, t1) /\ x2 = Append(x1, t2) /\ x3 = Append(x2, t3)
         /\ d0 = FoldLeft(DrawText, Clear(sz), p1.texts)
         /\ d1 = DrawText(d0, t1) /\ d2 = DrawText(d1, t2) /\ d3 = DrawText(d2, t3)
  OBVIOUS
<1>20. TextsOf(parts) = x3
  <2>1. PICK x0 : x0 = p1.texts
    OBVIOUS
  <2>2. x0 \in Seq(Textual)
    BY ONLY <1>9, <2>1
  <2>3. DOMAIN parts = 1 .. 3 /\ parts[1] = p1 /\ parts[2] = p2 /\ parts[3] = p3
    BY ONLY <1>6
  <2>4. parts[1].texts = x0 /\ parts[2].texts = <<t1>> /\ parts[3].texts = <<t2, t3>>
    BY ONLY <1>16, <1>17, <2>1, <2>3, Zenon
  <2>5. x3 = Append(Append(Append(x0, t1), t2), t3)
    BY ONLY <1>19, <2>1, Zenon
  <2> QED BY ONLY <1>18, <2>2, <2>3, <2>4, <2>5, ThreeParts
<1>21. drawn.term = d3
  <2>1. PICK base, x0 : base = Clear(sz) /\ x0 = p1.texts
    OBVIOUS
  <2>2. x0 \in Seq(Textual) /\ x1 = Append(x0, t1)
    BY ONLY <1>9, <1>19, <2>1
  <2>3. x1 \in Seq(Textual)
    BY ONLY <1>18, <2>2, AppendParts
  <2>4. x2 \in Seq(Textual)
    BY ONLY <1>18, <1>19, <2>3, AppendParts
  <2>5. FoldLeft(DrawText, base, Append(x0, t1)) = DrawText(FoldLeft(DrawText, base, x0), t1)
    BY ONLY <1>18, <2>2, OneMoreText
  <2>6. FoldLeft(DrawText, base, Append(x1, t2)) = DrawText(FoldLeft(DrawText, base, x1), t2)
    BY ONLY <1>18, <2>3, OneMoreText
  <2>7. FoldLeft(DrawText, base, Append(x2, t3)) = DrawText(FoldLeft(DrawText, base, x2), t3)
    BY ONLY <1>18, <2>4, OneMoreText
  <2>8. FoldLeft(DrawText, base, x3) = d3
    BY ONLY <1>19, <2>1, <2>2, <2>5, <2>6, <2>7, Zenon
  <2> QED BY ONLY <1>12, <1>20, <2>1, <2>8, Zenon
<1>22. PICK n \in 0 .. Len(kept) :
         /\ Shows(sz, d0, LastRows(kept, w, n))
         /\ n < Len(kept) => Len(LastRows(kept, w, n + 1)) > h - 2
  BY ONLY <1>9, <1>12, <1>19, Zenon
<1>23. PICK rows, top : rows = LastRows(kept, w, n) /\ top = h - 2 - Len(rows)
  OBVIOUS
<1>24. /\ d0 \in Terms(sz) /\ top \in Nat
       /\ \A y \in 0 .. h - 1 :
            d0.rows[y] = IF y \in top .. top + Len(rows) - 1 THEN rows[y - top + 1] ELSE <<>>
  BY ONLY <1>1, <1>22, <1>23 DEF Shows
<1>25. /\ d3.rows[h - 1] = s /\ d3.rows[h - 2] = stat[1]
       /\ \A y \in 0 .. h - 3 : d3.rows[y] = d0.rows[y]
  <2>1. sz.height > 2
    BY <1>1, <1>4
  <2>2. LET one == DrawText(d0, [y |-> sz.height - 2, rows |-> stat])
            two == DrawText(one, [y |-> sz.height - 1, rows |-> <<<<>>>>])
            three == DrawText(two, [y |-> sz.height - 1, rows |-> <<s>>])
        IN  /\ three.rows[sz.height - 1] = s /\ three.rows[sz.height - 2] = stat[1]
            /\ \A y \in 0 .. sz.height - 3 : three.rows[y] = d0.rows[y]
    <3>1. d0 \in Terms(sz) /\ stat \in Seq(Rows) /\ stat # <<>> /\ Len(stat) <= 2 /\ s \in Rows
      BY ONLY <1>14, <1>15, <1>24, Zenon
    <3> QED BY ONLY <2>1, <3>1, IsSize(sz), LastTwoRows, Zenon
  <2> QED BY ONLY <1>1, <1>13, <1>19, <2>2, Zenon
<1>26. \A y \in 0 .. h - 3 :
         d3.rows[y] = IF y \in top .. top + Len(rows) - 1 THEN rows[y - top + 1] ELSE <<>>
  <2>1. \A y \in 0 .. h - 3 : y \in 0 .. h - 1
    BY ONLY <1>2
  <2> QED BY ONLY <1>24, <1>25, <2>1
<1>27. \E m \in 0 .. Len(kept) :
         /\ m < Len(kept) => Len(LastRows(kept, w, m + 1)) > h - 2
         /\ LET r == LastRows(kept, w, m)
                z == h - 2 - Len(r)
            IN  /\ z \in Nat
                /\ \A y \in 0 .. h - 3 :
                     d3.rows[y] = IF y \in z .. z + Len(r) - 1 THEN r[y - z + 1] ELSE <<>>
  BY ONLY <1>22, <1>23, <1>24, <1>26, Zenon
<1>28. Pictured(sz, d3, kept, line, typed)
  BY ONLY <1>1, <1>4, <1>8, <1>13, <1>25, <1>27, Zenon DEF Pictured
<1> QED BY ONLY <1>1, <1>21, <1>28, Zenon

-----------------------------------------------------------------------------
(* The invariants. *)

(* The sections are what the lemmas about layouts ask for.                  *)
LEMMA SectionsAreSectional == Sectional(Sections)
<1> SUFFICES ASSUME NEW s \in Sections
             PROVE  /\ s.kind \in {"exact", "fill"} /\ s.n \in Nat /\ s.places \in Nat
                    /\ s.places = IF IsLeaf(s) THEN 1 ELSE 1 + Places(s.inner[1].sections)
                    /\ ~IsLeaf(s) => s.inner[1].sections \in Seq(Sections)
  BY DEF Sectional
<1>1. PICK k, n, leaf, dir, inner :
        /\ k = s.kind /\ n = s.n /\ leaf = (IF k = "fill" THEN Fill(n) ELSE Exact(n))
        /\ dir = s.inner[1].direction /\ inner = s.inner[1].sections
  OBVIOUS
<1>2. /\ k \in {"exact", "fill"} /\ n \in (IF k = "fill" THEN 0 .. 255 ELSE Nat) /\ s.places \in Nat
      /\ s = IF IsLeaf(s) THEN leaf ELSE Node(leaf, dir, inner)
      /\ ~IsLeaf(s) => inner \in Seq(Sections)
  BY <1>1, SectionsAreSections
<1>3. n \in Nat
  <2>1. n \in 0 .. 255 \/ n \in Nat
    BY ONLY <1>2
  <2> QED BY ONLY <2>1
<1>4. leaf.places = 1 /\ DOMAIN leaf = {"kind", "n", "inner", "places"}
  BY <1>1 DEF Fill, Exact
<1>5. s.places = IF IsLeaf(s) THEN 1 ELSE 1 + Places(inner)
  <2>1. IsLeaf(s) => s.places = 1
    BY ONLY <1>2, <1>4
  <2>2. Node(leaf, dir, inner).places = 1 + Places(inner)
    BY ONLY <1>4 DEF Node
  <2> QED BY ONLY <1>2, <2>1, <2>2
<1> QED BY ONLY <1>1, <1>2, <1>3, <1>5

LEMMA SizeIsSize ==
  ASSUME NEW sz \in Sizes
  PROVE  IsSize(sz)
BY SizesAreSizes DEF IsSize

(* What the client keeps, the screen apart.                                 *)
Client ==
  /\ size \in Sizes
  /\ open \subseteq Windows /\ current \in open
  /\ lines \in [Windows -> Seq(Texts)]
  /\ \A w \in Windows \ open : lines[w] = <<>>
  /\ scrollback \in 0 .. MaxScrollback
  /\ input \in Seq(Keys)

(* The process lives until a rendering aborts it, and the screen shows what *)
(* the last rendering drew.                                                 *)
JustDrawn ==
  IF unseen = "no"
  THEN \E drawn \in Render(size, current, lines[current], scrollback, input) :
         screen = drawn.term /\ fate = drawn.fate
  ELSE fate = "ok"

IInv == TypeOK /\ JustDrawn

LEMMA TypeParts ==
  TypeOK <=> /\ Client
             /\ unseen \in {"no", "join", "resize"} /\ fate \in {"ok", "aborted"}
             /\ unseen # "resize" => DOMAIN screen.rows = 0 .. size.height - 1
BY DEF TypeOK, Client

(* A rendering of a client.                                                 *)
LEMMA ClientDraws ==
  ASSUME NEW sz \in Sizes, NEW w \in Windows, NEW all \in [Windows -> Seq(Texts)],
         NEW hidden \in 0 .. MaxScrollback, NEW typed \in Seq(Keys),
         NEW drawn \in Render(sz, w, all[w], hidden, typed)
  PROVE  /\ DOMAIN drawn.term.rows = 0 .. sz.height - 1 /\ drawn.fate \in {"ok", "aborted"}
         /\ sz.height > 2 /\ sz.width > 2 /\ NoneCut(w, all[w], sz.width) => drawn.fate = "ok"
         /\ NoneCut(w, all[w], sz.width) /\ Narrow(typed) => ~drawn.term.scrambled
<1>1. IsSize(sz)
  BY SizeIsSize
<1>2. hidden \in Nat /\ all[w] \in Seq(Texts)
  BY ScreenBoundsAreNat
<1>3. typed \in Rows
  <2>1. Keys \subseteq Graphemes
    BY TheyAreTexts
  <2> QED BY ONLY <2>1, typed \in Seq(Keys), WiderSeq DEF Rows
<1>4. /\ drawn.term \in Terms(sz) /\ drawn.fate \in {"ok", "aborted"}
      /\ sz.height > 2 /\ sz.width > 2 /\ NoneCut(w, all[w], sz.width) => drawn.fate = "ok"
      /\ NoneCut(w, all[w], sz.width) /\ Narrow(typed) => ~drawn.term.scrambled
  <2>1. PICK a : a = all[w]
    OBVIOUS
  <2>2. a \in Seq(Texts) /\ drawn \in Render(sz, w, a, hidden, typed)
    BY <1>2, <2>1
  <2>3. /\ drawn.term \in Terms(sz) /\ drawn.fate \in {"ok", "aborted"}
        /\ sz.height > 2 /\ sz.width > 2 /\ NoneCut(w, a, sz.width) => drawn.fate = "ok"
        /\ NoneCut(w, a, sz.width) /\ Narrow(typed) => ~drawn.term.scrambled
    BY ONLY <1>1, <1>2, <1>3, <2>2, w \in Windows, RenderDraws
  <2> QED BY ONLY <2>1, <2>3
<1>5. DOMAIN drawn.term.rows = 0 .. sz.height - 1
  <2>1. PICK t : t = drawn.term
    OBVIOUS
  <2>2. t.rows \in [0 .. sz.height - 1 -> Rows]
    BY <1>4, <2>1, TermFields
  <2> QED BY ONLY <2>1, <2>2
<1> QED BY ONLY <1>4, <1>5

(* What redraws establishes the invariant afresh.                           *)
LEMMA RedrawShows ==
  ASSUME Client', Redraw
  PROVE  IInv'
<1>1. PICK drawn \in Render(size', current', lines'[current'], scrollback', input') :
        screen' = drawn.term /\ fate' = drawn.fate /\ unseen' = "no"
  BY DEF Redraw
<1>2. DOMAIN screen'.rows = 0 .. size'.height - 1 /\ fate' \in {"ok", "aborted"}
  <2>1. /\ size' \in Sizes /\ current' \in Windows /\ lines' \in [Windows -> Seq(Texts)]
        /\ scrollback' \in 0 .. MaxScrollback /\ input' \in Seq(Keys)
    BY DEF Client
  <2>2. PICK sz, w, all, hidden, typed :
          sz = size' /\ w = current' /\ all = lines' /\ hidden = scrollback' /\ typed = input'
    OBVIOUS
  <2>3. /\ sz \in Sizes /\ w \in Windows /\ all \in [Windows -> Seq(Texts)]
        /\ hidden \in 0 .. MaxScrollback /\ typed \in Seq(Keys)
        /\ drawn \in Render(sz, w, all[w], hidden, typed)
    BY ONLY <1>1, <2>1, <2>2
  <2>4. DOMAIN drawn.term.rows = 0 .. sz.height - 1 /\ drawn.fate \in {"ok", "aborted"}
    BY ONLY <2>3, ClientDraws
  <2> QED BY ONLY <1>1, <2>2, <2>4
<1>3. TypeOK'
  BY <1>1, <1>2 DEF TypeOK, Client
<1>4. JustDrawn'
  BY <1>1 DEF JustDrawn
<1> QED BY <1>3, <1>4 DEF IInv

LEMMA LineAppends ==
  ASSUME Client, NEW w \in Windows, NEW text \in Texts, AppendLine(w, text)
  PROVE  /\ lines' \in [Windows -> Seq(Texts)]
         /\ \A v \in Windows : v # w => lines'[v] = lines[v]
<1>1. lines' = [lines EXCEPT ![w] = Append(lines[w], text)] /\ lines \in [Windows -> Seq(Texts)]
  BY DEF AppendLine, Client
<1>2. Append(lines[w], text) \in Seq(Texts)
  <2>1. PICK s : s = lines[w]
    OBVIOUS
  <2>2. s \in Seq(Texts)
    BY <1>1, <2>1
  <2>3. Append(s, text) \in Seq(Texts)
    BY ONLY <2>2, text \in Texts, AppendParts
  <2> QED BY ONLY <2>1, <2>3
<1> QED BY ONLY <1>1, <1>2, w \in Windows

LEMMA IInvAtFirst == Init => IInv
<1> SUFFICES ASSUME Init PROVE IInv
  OBVIOUS
<1>1. <<>> \in Seq(Texts) /\ <<>> \in Seq(Keys)
  OBVIOUS
<1>2. lines = [w \in Windows |-> <<>>] /\ First \in Windows
  BY FirstIsWindow DEF Init
<1>3. lines \in [Windows -> Seq(Texts)] /\ lines[First] = <<>>
  BY ONLY <1>1, <1>2
<1>4. 0 \in 0 .. MaxScrollback
  BY ScreenBoundsAreNat
<1>5. Client
  BY <1>1, <1>2, <1>3, <1>4 DEF Init, Client
<1>6. PICK drawn \in Render(size, First, <<>>, 0, <<>>) : screen = drawn.term /\ fate = drawn.fate
  BY DEF Init
<1>7. drawn \in Render(size, current, lines[current], scrollback, input) /\ unseen = "no"
  <2>1. current = First /\ scrollback = 0 /\ input = <<>> /\ unseen = "no"
    BY DEF Init
  <2> QED BY ONLY <1>3, <1>6, <2>1
<1>8. DOMAIN drawn.term.rows = 0 .. size.height - 1 /\ drawn.fate \in {"ok", "aborted"}
  <2>1. /\ size \in Sizes /\ current \in Windows /\ lines \in [Windows -> Seq(Texts)]
        /\ scrollback \in 0 .. MaxScrollback /\ input \in Seq(Keys)
    BY <1>5 DEF Client
  <2> QED BY ONLY <1>7, <2>1, ClientDraws
<1>9. TypeOK
  BY <1>5, <1>6, <1>7, <1>8 DEF TypeOK, Client
<1>10. JustDrawn
  BY <1>6, <1>7 DEF JustDrawn
<1> QED BY <1>9, <1>10 DEF IInv

LEMMA IInvKept == IInv /\ [Next]_vars => IInv'
<1> SUFFICES ASSUME IInv, [Next]_vars PROVE IInv'
  OBVIOUS
<1>1. /\ Client /\ TypeOK /\ JustDrawn
      /\ unseen \in {"no", "join", "resize"} /\ fate \in {"ok", "aborted"}
      /\ unseen # "resize" => DOMAIN screen.rows = 0 .. size.height - 1
  BY TypeParts DEF IInv
<1>2. /\ size \in Sizes /\ open \subseteq Windows /\ current \in open
      /\ lines \in [Windows -> Seq(Texts)] /\ (\A w \in Windows \ open : lines[w] = <<>>)
      /\ scrollback \in 0 .. MaxScrollback /\ input \in Seq(Keys) /\ <<>> \in Seq(Keys)
  BY <1>1 DEF Client
<1>3. CASE AddLine
  <2>1. PICK w \in Windows, text \in Texts : Opens(w) /\ AppendLine(w, text)
    BY <1>3 DEF AddLine
  <2>2. lines' \in [Windows -> Seq(Texts)] /\ \A v \in Windows : v # w => lines'[v] = lines[v]
    BY <1>1, <2>1, LineAppends
  <2>3. Client'
    BY <1>2, <1>3, <2>1, <2>2 DEF Client, AddLine, Opens
  <2> QED BY <1>3, <2>3, RedrawShows DEF AddLine
<1>4. CASE Type
  <2>1. PICK key \in Keys : input' = Append(input, key)
    BY <1>4 DEF Type
  <2>2. input' \in Seq(Keys)
    BY <1>2, <2>1
  <2>3. Client'
    BY <1>2, <1>4, <2>2 DEF Client, Type
  <2> QED BY <1>4, <2>3, RedrawShows DEF Type
<1>5. CASE EnterAborts
  <2>1. Client'
    BY <1>2, <1>5 DEF Client, EnterAborts
  <2> QED BY <1>5, <2>1, RedrawShows DEF EnterAborts
<1>6. CASE EnterUnseen
  <2>1. Client'
    BY <1>2, <1>6 DEF Client, EnterUnseen, EnterClears
  <2> QED BY <1>6, <2>1, RedrawShows DEF EnterUnseen
<1>7. CASE EnterJoin
  <2>1. PICK w \in Windows : Opens(w)
    BY <1>7 DEF EnterJoin
  <2>2. Client'
    BY <1>2, <1>7, <2>1 DEF Client, EnterJoin, EnterClears, Opens
  <2>3. PICK drawn \in Cleared : screen' = drawn.term /\ fate' = drawn.fate
    BY <1>7 DEF EnterJoin
  <2>4. drawn.fate = "ok"
    BY <1>7, <2>3 DEF EnterJoin, EnterClears
  <2>5. drawn \in Render(size, current, lines[current], scrollback, <<>>)
    BY <2>3 DEF Cleared
  <2>6. DOMAIN drawn.term.rows = 0 .. size.height - 1
    <3>1. current \in Windows
      BY <1>2
    <3>2. PICK typed : typed = <<>>
      OBVIOUS
    <3>3. typed \in Seq(Keys) /\ drawn \in Render(size, current, lines[current], scrollback, typed)
      BY ONLY <1>2, <2>5, <3>2
    <3>4. PICK sz, window, all, hidden :
            sz = size /\ window = current /\ all = lines /\ hidden = scrollback
      OBVIOUS
    <3>5. /\ sz \in Sizes /\ window \in Windows /\ all \in [Windows -> Seq(Texts)]
          /\ hidden \in 0 .. MaxScrollback /\ drawn \in Render(sz, window, all[window], hidden, typed)
      BY ONLY <1>2, <3>1, <3>3, <3>4
    <3>6. DOMAIN drawn.term.rows = 0 .. sz.height - 1
      BY ONLY <3>3, <3>5, ClientDraws
    <3> QED BY ONLY <3>4, <3>6
  <2>7. /\ size' = size /\ scrollback' = scrollback /\ input' = <<>> /\ lines' = lines
        /\ unseen' = IF current' = current THEN "no" ELSE "join"
    BY <1>7 DEF EnterJoin, EnterClears
  <2>8. TypeOK'
    BY <2>2, <2>3, <2>4, <2>6, <2>7 DEF TypeOK, Client
  <2>9. JustDrawn'
    <3>1. CASE current' = current
      <4>1. drawn \in Render(size', current', lines'[current'], scrollback', input')
        BY ONLY <2>5, <2>7, <3>1
      <4> QED BY <2>3, <4>1, <2>7, <3>1 DEF JustDrawn
    <3>2. CASE current' # current
      BY <2>3, <2>4, <2>7, <3>2 DEF JustDrawn
    <3> QED BY <3>1, <3>2
  <2> QED BY <2>8, <2>9 DEF IInv
<1>8. CASE EnterMsg
  <2>1. PICK w \in Windows : Opens(w)
    BY <1>8 DEF EnterMsg
  <2>2. Client'
    BY <1>2, <1>8, <2>1 DEF Client, EnterMsg, EnterClears, Opens
  <2> QED BY <1>8, <2>2, RedrawShows DEF EnterMsg
<1>9. CASE EnterLine
  <2>1. PICK text \in Texts : AppendLine(current, text)
    BY <1>9 DEF EnterLine
  <2>2. current \in Windows
    BY <1>2
  <2>3. lines' \in [Windows -> Seq(Texts)] /\ \A v \in Windows : v # current => lines'[v] = lines[v]
    BY <1>1, <2>1, <2>2, LineAppends
  <2>4. Client'
    BY <1>2, <1>9, <2>3 DEF Client, EnterLine, EnterClears
  <2> QED BY <1>9, <2>4, RedrawShows DEF EnterLine
<1>10. CASE Scroll
  <2>1. scrollback' \in 0 .. MaxScrollback
    BY <1>2, <1>10, ScreenBoundsAreNat DEF Scroll
  <2>2. Client'
    BY <1>2, <1>10, <2>1 DEF Client, Scroll
  <2> QED BY <1>10, <2>2, RedrawShows DEF Scroll
<1>11. CASE SelectWindow
  <2>1. Client'
    BY <1>2, <1>11 DEF Client, SelectWindow
  <2> QED BY <1>11, <2>1, RedrawShows DEF SelectWindow
<1>12. CASE TerminalResizes
  <2>1. Client' /\ unseen' = "resize" /\ fate' = "ok"
    BY <1>2, <1>12 DEF Client, TerminalResizes
  <2>2. TypeOK'
    BY <2>1 DEF TypeOK, Client
  <2>3. JustDrawn'
    BY <2>1 DEF JustDrawn
  <2> QED BY <2>2, <2>3 DEF IInv
<1>13. CASE Resize
  <2>1. Client'
    BY <1>2, <1>13 DEF Client, Resize
  <2> QED BY <1>13, <2>1, RedrawShows DEF Resize
<1>14. CASE UNCHANGED vars
  BY <1>1, <1>14 DEF vars, IInv, TypeOK, JustDrawn
<1> QED BY <1>3, <1>4, <1>5, <1>6, <1>7, <1>8, <1>9, <1>10, <1>11, <1>12, <1>13, <1>14 DEF Next

(* In every reachable state the types hold, and the screen shows what the   *)
(* last rendering drew.                                                     *)
THEOREM InvariantHolds == Spec => []IInv
BY IInvAtFirst, IInvKept, PTL DEF Spec

(* The selected window is open, only open windows have lines, and the       *)
(* screen has the rows of the terminal it was drawn for.                    *)
THEOREM TypesHold == Spec => []TypeOK
<1>1. IInv => TypeOK
  BY DEF IInv
<1> QED BY <1>1, InvariantHolds, PTL

LEMMA NothingIsCut ==
  ASSUME ~CutsWide
  PROVE  NoneCut(current, lines[current], size.width)
<1>1. PICK all : all = lines[current]
  OBVIOUS
<1>2. \A i \in DOMAIN all : all[i] \in ToSet(all)
  BY DEF ToSet
<1>3. \A text \in ToSet(all) \cup {StatusLine[current]} : ~SplitsWide(text, size.width)
  BY <1>1 DEF CutsWide
<1> QED BY <1>1, <1>2, <1>3 DEF NoneCut

(* The process aborts in no terminal of three rows and columns, unless the  *)
(* window has a wide grapheme to cut.                                       *)
THEOREM NoAbortUnlessSmall == Spec => []AbortsOnlyIfSmall
<1>1. IInv => AbortsOnlyIfSmall
  <2> SUFFICES ASSUME IInv, fate = "aborted", ~CutsWide, ~(size.height <= 2), ~(size.width <= 2)
               PROVE  FALSE
    BY DEF AbortsOnlyIfSmall
  <2>1. PICK drawn \in Render(size, current, lines[current], scrollback, input) : fate = drawn.fate
    BY DEF IInv, JustDrawn
  <2>2. /\ size \in Sizes /\ current \in Windows /\ lines \in [Windows -> Seq(Texts)]
        /\ scrollback \in 0 .. MaxScrollback /\ input \in Seq(Keys)
    BY DEF IInv, TypeOK
  <2>3. NoneCut(current, lines[current], size.width)
    BY NothingIsCut
  <2>4. size.height > 2 /\ size.width > 2
    BY <2>2, SizesAreSizes
  <2>5. drawn.fate = "ok"
    BY ONLY <2>1, <2>2, <2>3, <2>4, ClientDraws
  <2> QED BY <2>1, <2>5
<1> QED BY <1>1, InvariantHolds, PTL

(* Nothing is drawn past the right end, unless the window has a wide        *)
(* grapheme to cut or one is typed.                                         *)
THEOREM NoScrambleUnlessWide == Spec => []ScrambledOnlyIfWide
<1>1. IInv => ScrambledOnlyIfWide
  <2> SUFFICES ASSUME IInv, screen.scrambled, unseen = "no", ~CutsWide,
                      ~(\E key \in ToSet(input) : Columns[key] > 1)
               PROVE  FALSE
    BY DEF ScrambledOnlyIfWide
  <2>1. PICK drawn \in Render(size, current, lines[current], scrollback, input) : screen = drawn.term
    BY DEF IInv, JustDrawn
  <2>2. /\ size \in Sizes /\ current \in Windows /\ lines \in [Windows -> Seq(Texts)]
        /\ scrollback \in 0 .. MaxScrollback /\ input \in Seq(Keys)
    BY DEF IInv, TypeOK
  <2>3. NoneCut(current, lines[current], size.width)
    BY NothingIsCut
  <2>4. Narrow(input)
    <3>1. \A i \in DOMAIN input : input[i] \in ToSet(input) /\ input[i] \in Graphemes
      BY <2>2, TheyAreTexts DEF ToSet
    <3>2. \A i \in DOMAIN input : Columns[input[i]] \in Nat /\ ~(Columns[input[i]] > 1)
      BY <3>1, ColumnsAreNat
    <3> QED BY ONLY <3>2 DEF Narrow
  <2>5. ~drawn.term.scrambled
    BY ONLY <2>1, <2>2, <2>3, <2>4, ClientDraws
  <2> QED BY <2>1, <2>5
<1> QED BY <1>1, InvariantHolds, PTL

(* Every layout divides every terminal as it should.                        *)
THEOREM LayoutsAlwaysDivideWell == Spec => []LayoutsDivideWell
<1>1. IInv => LayoutsDivideWell
  <2> SUFFICES ASSUME IInv, NEW layout \in SomeLayouts
               PROVE  DividesWell(layout.direction, layout.sections,
                        [x |-> 0, y |-> 0, width |-> size.width, height |-> size.height])
    BY DEF LayoutsDivideWell
  <2>1. PICK dir, sections, area :
          /\ dir = layout.direction /\ sections = layout.sections
          /\ area = [x |-> 0, y |-> 0, width |-> size.width, height |-> size.height]
    OBVIOUS
  <2>2. sections \in Seq(Sections)
    BY <2>1, LayoutsAreLayouts
  <2>3. area \in Rects
    <3>1. size.width \in Nat /\ size.height \in Nat
      BY SizesAreSizes DEF IInv, TypeOK
    <3> QED BY ONLY <2>1, <3>1 DEF Rects
  <2>4. DividesWell(dir, sections, area)
    BY ONLY <2>2, <2>3, SectionsAreSectional, AllLayoutsDivideWell
  <2> QED BY ONLY <2>1, <2>4
<1> QED BY <1>1, InvariantHolds, PTL

(* Every text is wrapped as it should be in every terminal.                 *)
THEOREM TextsAlwaysWrapWell == Spec => []TextsWrapWell
<1>1. IInv => TextsWrapWell
  <2> SUFFICES ASSUME IInv, NEW text \in SomeTexts
               PROVE  WrapsWell(text, size.width)
    BY DEF TextsWrapWell
  <2>1. size.width \in Nat
    BY SizesAreSizes DEF IInv, TypeOK
  <2>2. text \in Seq(Seq(Graphemes))
    BY TheyAreTexts DEF IsText
  <2> QED BY <2>1, <2>2, AllTextsWrapWell
<1> QED BY <1>1, InvariantHolds, PTL

(* The lines that are not hidden, as the picture names them. *)
LEMMA KeptIs ==
  ASSUME NEW S, NEW all \in Seq(S), NEW hidden \in Nat
  PROVE  [i \in {j \in DOMAIN all : j + hidden <= Len(all)} |-> all[i]] = NotHidden(all, hidden)
<1>1. PICK l, n, D, kept, f : /\ l = Len(all) /\ n = (IF hidden < l THEN l - hidden ELSE 0)
                              /\ D = {j \in DOMAIN all : j + hidden <= l}
                              /\ kept = SubSeq(all, 1, n) /\ f = [i \in D |-> all[i]]
  OBVIOUS
<1>2. l \in Nat /\ DOMAIN all = 1 .. l /\ n \in 0 .. l
  <2>1. l \in Nat /\ DOMAIN all = 1 .. l
    BY ONLY <1>1, all \in Seq(S)
  <2> QED BY ONLY <1>1, <2>1, hidden \in Nat
<1>3. D = 1 .. n
  BY ONLY <1>1, <1>2, hidden \in Nat
<1>4. kept \in Seq(S) /\ Len(kept) = n /\ \A i \in 1 .. n : kept[i] = all[i]
  BY ONLY <1>1, <1>2, all \in Seq(S), PrefixParts
<1>5. f \in [1 .. n -> S] /\ \A i \in 1 .. n : f[i] = all[i]
  <2>1. \A i \in 1 .. n : all[i] \in S
    <3>1. \A i \in 1 .. n : i \in 1 .. Len(all)
      BY ONLY <1>1, <1>2
    <3> QED BY ONLY <3>1, all \in Seq(S)
  <2> QED BY ONLY <1>1, <1>3, <2>1
<1>6. f \in Seq(S) /\ Len(f) = n
  <2>1. n \in Nat
    BY ONLY <1>2
  <2> QED BY ONLY <1>5, <2>1, FunctionIsSeq
<1>7. f = kept
  BY ONLY <1>4, <1>5, <1>6, SameElements
<1>8. NotHidden(all, hidden) = kept
  BY ONLY <1>1 DEF NotHidden
<1> QED BY ONLY <1>1, <1>7, <1>8, Zenon

(* The picture, row by row.                                                 *)
LEMMA ExpectedIs ==
  ASSUME NEW h, h = size.height, h \in Nat, h > 2, NEW main, NEW top, top = h - 2 - Len(main),
         main = Newest([i \in {j \in DOMAIN lines[current] : j + scrollback <= Len(lines[current])}
                          |-> lines[current][i]]),
         top \in Nat, Len(main) \in Nat
  PROVE  /\ Expected(h - 1) = Visible(input, size.width - 1)
         /\ Expected(h - 2) = WordWrap(StatusLine[current], size.width).rows[1]
         /\ \A y \in 0 .. h - 3 :
              Expected(y) = IF y \in top .. top + Len(main) - 1 THEN main[y - top + 1] ELSE <<>>
<1>1. \A y : Expected(y) = CASE y = h - 1 -> Visible(input, size.width - 1)
                             [] y = h - 2 -> WordWrap(StatusLine[current], size.width).rows[1]
                             [] y < top -> <<>>
                             [] OTHER -> main[y - top + 1]
  BY DEF Expected
<1>2. Expected(h - 1) = Visible(input, size.width - 1)
  <2>1. h - 1 # h - 2 /\ ~(h - 1 < top)
    BY ONLY h \in Nat, h > 2, top = h - 2 - Len(main), Len(main) \in Nat
  <2> QED BY ONLY <1>1, <2>1
<1>3. Expected(h - 2) = WordWrap(StatusLine[current], size.width).rows[1]
  <2>1. h - 2 # h - 1 /\ ~(h - 2 < top)
    BY ONLY h \in Nat, h > 2, top = h - 2 - Len(main), Len(main) \in Nat
  <2> QED BY ONLY <1>1, <2>1
<1>4. ASSUME NEW y \in 0 .. h - 3
      PROVE  Expected(y) = IF y \in top .. top + Len(main) - 1 THEN main[y - top + 1] ELSE <<>>
  <2>1. y # h - 1 /\ y # h - 2 /\ (y \in top .. top + Len(main) - 1 <=> ~(y < top))
    BY ONLY h \in Nat, h > 2, top = h - 2 - Len(main), top \in Nat, Len(main) \in Nat, y \in 0 .. h - 3
  <2>2. CASE y < top
    BY ONLY <1>1, <2>1, <2>2
  <2>3. CASE ~(y < top)
    BY ONLY <1>1, <2>1, <2>3
  <2> QED BY ONLY <2>2, <2>3
<1> QED BY ONLY <1>2, <1>3, <1>4

(* What the terminal shows is the picture of the current window: the newest *)
(* lines that fit, the status line and the end of what is typed, in any     *)
(* terminal, whatever the texts are and however far the user has scrolled.  *)
THEOREM ScreenAlwaysCurrent == Spec => []ScreenIsCurrent
<1>1. IInv => ScreenIsCurrent
  <2> SUFFICES ASSUME IInv, fate = "ok", unseen = "no",
                      Len(WordWrap(StatusLine[current], size.width).rows) <= 2,
                      NEW y \in DOMAIN screen.rows
               PROVE  screen.rows[y] = Expected(y)
    BY DEF ScreenIsCurrent
  <2>1. PICK drawn \in Render(size, current, lines[current], scrollback, input) :
          screen = drawn.term /\ fate = drawn.fate
    BY DEF IInv, JustDrawn
  <2>2. PICK all, h, w, kept : /\ all = lines[current] /\ h = size.height /\ w = size.width
                               /\ kept = NotHidden(all, scrollback)
    OBVIOUS
  <2>3. /\ IsSize(size) /\ current \in Windows /\ all \in Seq(Texts) /\ scrollback \in Nat
        /\ input \in Rows /\ DOMAIN screen.rows = 0 .. h - 1
    <3>1. /\ size \in Sizes /\ current \in Windows /\ lines \in [Windows -> Seq(Texts)]
          /\ scrollback \in 0 .. MaxScrollback /\ input \in Seq(Keys)
          /\ DOMAIN screen.rows = 0 .. size.height - 1
      BY DEF IInv, TypeOK
    <3>2. IsSize(size)
      BY <3>1, SizeIsSize
    <3>3. all \in Seq(Texts)
      BY <2>2, <3>1
    <3>4. scrollback \in Nat
      BY <3>1, ScreenBoundsAreNat
    <3>5. input \in Rows
      <4>1. Keys \subseteq Graphemes
        BY TheyAreTexts
      <4> QED BY ONLY <3>1, <4>1, WiderSeq DEF Rows
    <3> QED BY ONLY <2>2, <3>1, <3>2, <3>3, <3>4, <3>5
  <2>4. h \in Nat /\ w \in Nat
    BY ONLY <2>2, <2>3 DEF IsSize
  <2>5. Pictured(size, screen, kept, StatusLine[current], input)
    <3>1. drawn \in Render(size, current, all, scrollback, input) /\ drawn.fate = "ok"
      BY <2>1, <2>2
    <3>2. Pictured(size, drawn.term, NotHidden(all, scrollback), StatusLine[current], input)
      BY ONLY <2>3, <3>1, Len(WordWrap(StatusLine[current], size.width).rows) <= 2, RenderShows
    <3> QED BY ONLY <2>1, <2>2, <3>2, Zenon
  <2>a. /\ h > 2 /\ kept \in Seq(Seq(Rows))
        /\ screen.rows[h - 1] = Visible(input, size.width - 1)
        /\ screen.rows[h - 2] = WordWrap(StatusLine[current], size.width).rows[1]
    BY ONLY <2>2, <2>5, Zenon DEF Pictured
  <2>b. PICK n \in 0 .. Len(kept) :
          /\ n < Len(kept) => Len(LastRows(kept, w, n + 1)) > h - 2
          /\ LET rows == LastRows(kept, w, n)
                 z == h - 2 - Len(rows)
             IN  /\ z \in Nat
                 /\ \A x \in 0 .. h - 3 :
                      screen.rows[x] = IF x \in z .. z + Len(rows) - 1 THEN rows[x - z + 1] ELSE <<>>
    BY ONLY <2>2, <2>5, Zenon DEF Pictured
  <2>c. PICK main, top : main = LastRows(kept, w, n) /\ top = h - 2 - Len(main)
    OBVIOUS
  <2>6. /\ n \in 0 .. Len(kept) /\ main = LastRows(kept, w, n) /\ top = h - 2 - Len(main)
        /\ n < Len(kept) => Len(LastRows(kept, w, n + 1)) > h - 2
        /\ top \in Nat
        /\ \A x \in 0 .. h - 3 :
             screen.rows[x] = IF x \in top .. top + Len(main) - 1 THEN main[x - top + 1] ELSE <<>>
    BY ONLY <2>2, <2>b, <2>c, Zenon
  <2>7. Len(main) \in Nat
    BY ONLY <2>4, <2>a, <2>6, LastRowsType
  <2>8. Newest(kept) = main
    <3>1. Len(main) <= h - 2
      BY ONLY <2>4, <2>6, <2>7
    <3>2. /\ size.width \in Nat /\ size.height \in Nat
          /\ Len(LastRows(kept, size.width, n)) <= size.height - 2
          /\ n < Len(kept) => Len(LastRows(kept, size.width, n + 1)) > size.height - 2
      BY ONLY <2>2, <2>4, <2>6, <3>1, Zenon
    <3>3. Newest(kept) = LastRows(kept, size.width, n)
      BY ONLY <2>a, <2>6, <3>2, NewestIs
    <3> QED BY ONLY <2>2, <2>6, <3>3, Zenon
  <2>9. main = Newest([i \in {j \in DOMAIN lines[current] : j + scrollback <= Len(lines[current])}
                         |-> lines[current][i]])
    <3>1. [i \in {j \in DOMAIN all : j + scrollback <= Len(all)} |-> all[i]] = kept
      BY ONLY <2>2, <2>3, KeptIs
    <3> QED BY ONLY <2>2, <2>8, <3>1, Zenon
  <2>10. /\ Expected(h - 1) = Visible(input, size.width - 1)
         /\ Expected(h - 2) = WordWrap(StatusLine[current], size.width).rows[1]
         /\ \A x \in 0 .. h - 3 :
              Expected(x) = IF x \in top .. top + Len(main) - 1 THEN main[x - top + 1] ELSE <<>>
    <3>1. h = size.height /\ h \in Nat /\ h > 2 /\ top = h - 2 - Len(main) /\ top \in Nat /\ Len(main) \in Nat
      BY ONLY <2>2, <2>4, <2>a, <2>6, <2>7, Zenon
    <3> QED BY ONLY <2>9, <3>1, ExpectedIs
  <2>11. y = h - 1 \/ y = h - 2 \/ y \in 0 .. h - 3
    <3>1. y \in 0 .. h - 1
      BY ONLY <2>3, y \in DOMAIN screen.rows
    <3> QED BY ONLY <2>4, <3>1
  <2>12. CASE y \in 0 .. h - 3
    BY ONLY <2>6, <2>10, <2>12, Zenon
  <2>13. CASE y = h - 1 \/ y = h - 2
    BY ONLY <2>a, <2>10, <2>13, Zenon
  <2> QED BY ONLY <2>11, <2>12, <2>13
<1> QED BY <1>1, InvariantHolds, PTL
=============================================================================
