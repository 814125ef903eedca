---------------------------- MODULE Wire_proofs ----------------------------
(***************************************************************************)
(* What TLAPS proves about Wire: a line of the server is parsed to what it *)
(* means in every spelling, and what the client writes is a spelling of    *)
(* what its user means, for all names, texts and parameters, but for a     *)
(* USER whose username cannot be written without a colon, which is not     *)
(* read as it is meant, and a /join of several channels.                   *)
(***************************************************************************)
EXTENDS Wire, SequenceInduction

CutFold == INSTANCE FoldTheorems WITH Op <- Cut
NonEmptyFold == INSTANCE FoldTheorems WITH Op <- KeepNonEmpty
TargetFold == INSTANCE FoldTheorems WITH Op <- KeepTarget
ParamFold == INSTANCE FoldTheorems WITH Op <- TakeParam

-----------------------------------------------------------------------------
(* What is in a text. *)

LEMMA InText ==
  ASSUME NEW S, NEW s \in Seq(S)
  PROVE  /\ ToSet(s) \subseteq S
         /\ \A x : x \in ToSet(s) <=> \E i \in 1 .. Len(s) : s[i] = x
<1>1. DOMAIN s = 1 .. Len(s)
  BY LenProperties
<1>2. \A i \in 1 .. Len(s) : s[i] \in S
  BY ElementOfSeq
<1> QED BY <1>1, <1>2 DEF ToSet

LEMMA InConcat ==
  ASSUME NEW S, NEW s \in Seq(S), NEW u \in Seq(S)
  PROVE  ToSet(s \o u) = ToSet(s) \cup ToSet(u)
<1> DEFINE w == s \o u
<1>1. /\ w \in Seq(S) /\ Len(w) = Len(s) + Len(u) /\ Len(s) \in Nat /\ Len(u) \in Nat
      /\ \A i \in 1 .. Len(w) : w[i] = IF i <= Len(s) THEN s[i] ELSE u[i - Len(s)]
  BY ConcatProperties, LenProperties
<1> HIDE DEF w
<1>2. ASSUME NEW x \in ToSet(w) PROVE x \in ToSet(s) \cup ToSet(u)
  <2>1. PICK i \in 1 .. Len(w) : w[i] = x
    BY <1>1, InText
  <2>2. i <= Len(s) => i \in 1 .. Len(s)
    BY <1>1
  <2>3. ~(i <= Len(s)) => i - Len(s) \in 1 .. Len(u)
    BY <1>1
  <2> QED BY <1>1, <2>1, <2>2, <2>3, InText
<1>3. ASSUME NEW x \in ToSet(s) PROVE x \in ToSet(w)
  <2>1. PICK i \in 1 .. Len(s) : s[i] = x
    BY InText
  <2>2. i \in 1 .. Len(w) /\ i <= Len(s)
    BY <1>1
  <2>3. w[i] = x
    BY <1>1, <2>1, <2>2
  <2> QED BY <1>1, <2>2, <2>3, InText
<1>4. ASSUME NEW x \in ToSet(u) PROVE x \in ToSet(w)
  <2>1. PICK i \in 1 .. Len(u) : u[i] = x
    BY InText
  <2> DEFINE j == Len(s) + i
  <2>2. j \in 1 .. Len(w) /\ ~(j <= Len(s)) /\ j - Len(s) = i
    BY <1>1
  <2>3. w[j] = u[j - Len(s)]
    BY <1>1, <2>2
  <2> QED BY <1>1, <2>1, <2>2, <2>3, InText
<1> QED BY <1>2, <1>3, <1>4 DEF w

LEMMA InOne ==
  ASSUME NEW x
  PROVE  ToSet(<<x>>) = {x} /\ <<x>> \in Seq({x}) /\ Len(<<x>>) = 1 /\ <<x>>[1] = x /\ <<x>> # <<>>
<1>1. DOMAIN <<x>> = {1} /\ <<x>>[1] = x
  OBVIOUS
<1> QED BY <1>1 DEF ToSet

LEMMA InAppend ==
  ASSUME NEW S, NEW s \in Seq(S), NEW e \in S
  PROVE  ToSet(Append(s, e)) = ToSet(s) \cup {e}
<1> DEFINE u == <<e>>
<1>1. u \in Seq(S) /\ ToSet(u) = {e}
  BY InOne
<1>2. Append(s, e) = s \o u
  BY AppendIsConcat
<1> HIDE DEF u
<1>3. ToSet(s \o u) = ToSet(s) \cup ToSet(u)
  BY <1>1, InConcat
<1> QED BY <1>1, <1>2, <1>3

LEMMA InNone == ToSet(<<>>) = {}
BY DEF ToSet

LEMMA SeqOver ==
  ASSUME NEW S, NEW T, NEW s \in Seq(S), \A i \in 1 .. Len(s) : s[i] \in T
  PROVE  s \in Seq(T)
<1>1. Len(s) \in Nat /\ s \in [1 .. Len(s) -> S]
  BY LenProperties
<1>2. s \in [1 .. Len(s) -> T]
  BY <1>1
<1> QED BY <1>1, <1>2, SeqDef

(* A text without some characters is one over the others. *)
LEMMA WithoutChars ==
  ASSUME NEW S, NEW s \in Seq(S), NEW chars
  PROVE  s \in Seq(S \ chars) <=> ToSet(s) \cap chars = {}
<1>1. Len(s) \in Nat /\ DOMAIN s = 1 .. Len(s) /\ s \in [1 .. Len(s) -> S]
  BY LenProperties
<1>2. ASSUME ToSet(s) \cap chars = {} PROVE s \in Seq(S \ chars)
  <2>1. \A i \in 1 .. Len(s) : s[i] \in S \ chars
    BY <1>1, <1>2, InText
  <2>2. s \in [1 .. Len(s) -> S \ chars]
    BY <1>1, <2>1
  <2> QED BY <1>1, <2>2, SeqDef
<1>3. ASSUME s \in Seq(S \ chars) PROVE ToSet(s) \cap chars = {}
  BY <1>3, InText
<1> QED BY <1>2, <1>3

(* A text in two parts, seen from its first element. *)
LEMMA FirstOfConcat ==
  ASSUME NEW S, NEW s \in Seq(S), NEW u \in Seq(S), s # <<>>
  PROVE  s \o u # <<>> /\ (s \o u)[1] = s[1] /\ Tail(s \o u) = Tail(s) \o u
<1> DEFINE w == s \o u
<1>1. /\ w \in Seq(S) /\ Len(w) = Len(s) + Len(u) /\ Len(s) \in Nat /\ Len(u) \in Nat /\ Len(s) > 0
      /\ \A i \in 1 .. Len(w) : w[i] = IF i <= Len(s) THEN s[i] ELSE u[i - Len(s)]
  BY ConcatProperties, LenProperties, EmptySeq
<1> HIDE DEF w
<1>2. w # <<>>
  BY <1>1, EmptySeq
<1>3. w[1] = s[1]
  BY <1>1
<1>4. /\ Tail(w) \in Seq(S) /\ Len(Tail(w)) = Len(w) - 1
      /\ \A i \in 1 .. Len(w) - 1 : Tail(w)[i] = w[i + 1]
  BY <1>1, <1>2, HeadTailProperties
<1>5. /\ Tail(s) \in Seq(S) /\ Len(Tail(s)) = Len(s) - 1
      /\ \A i \in 1 .. Len(s) - 1 : Tail(s)[i] = s[i + 1]
  BY HeadTailProperties
<1> DEFINE v == Tail(s) \o u
<1>6. /\ v \in Seq(S) /\ Len(v) = Len(w) - 1
      /\ \A i \in 1 .. Len(w) - 1 : v[i] = IF i <= Len(s) - 1 THEN Tail(s)[i] ELSE u[i - (Len(s) - 1)]
  BY <1>1, <1>5, ConcatProperties
<1> HIDE DEF v
<1>7. ASSUME NEW i \in 1 .. Len(w) - 1 PROVE Tail(w)[i] = v[i]
  <2>1. i + 1 \in 1 .. Len(w) /\ (i + 1) - Len(s) = i - (Len(s) - 1) /\ (i + 1 <= Len(s) <=> i <= Len(s) - 1)
    BY <1>1
  <2>2. Tail(w)[i] = IF i + 1 <= Len(s) THEN s[i + 1] ELSE u[(i + 1) - Len(s)]
    BY <1>1, <1>4, <2>1
  <2>3. i <= Len(s) - 1 => i \in 1 .. Len(s) - 1
    BY <1>1
  <2> QED BY <1>5, <1>6, <2>1, <2>2, <2>3
<1>8. Tail(w) = v
  BY <1>4, <1>6, <1>7, SeqEqual
<1> QED BY <1>2, <1>3, <1>8 DEF w, v

LEMMA HeadAndTail ==
  ASSUME NEW S, NEW s \in Seq(S), s # <<>>
  PROVE  s[1] \in S /\ Tail(s) \in Seq(S) /\ s = <<s[1]>> \o Tail(s) /\ Len(Tail(s)) = Len(s) - 1
<1>1. Len(s) \in Nat /\ Len(s) > 0
  BY EmptySeq, LenProperties
<1>2. SubSeq(s, 1, Len(s)) = <<s[1]>> \o SubSeq(s, 1 + 1, Len(s))
  BY <1>1, SubSeqRecursiveFirst
<1>3. SubSeq(s, 1, Len(s)) = s /\ SubSeq(s, 2, Len(s)) = Tail(s)
  BY SubSeqFull, TailIsSubSeq
<1>4. s[1] \in S
  BY <1>1, ElementOfSeq
<1> QED BY <1>2, <1>3, <1>4, HeadTailProperties

LEMMA TailOfOne ==
  ASSUME NEW S, NEW x \in S, NEW s \in Seq(S)
  PROVE  /\ Tail(<<x>> \o s) = s /\ (<<x>> \o s)[1] = x /\ <<x>> \o s # <<>>
         /\ <<x>> \o s \in Seq(S) /\ Len(<<x>> \o s) = Len(s) + 1
<1>1. <<x>> \in Seq(S) /\ <<x>> # <<>> /\ Tail(<<x>>) = <<>> /\ Len(<<x>>) = 1 /\ <<x>>[1] = x
  OBVIOUS
<1>2. Tail(<<x>> \o s) = <<>> \o s /\ (<<x>> \o s)[1] = x /\ <<x>> \o s # <<>>
  BY <1>1, FirstOfConcat
<1> QED BY <1>1, <1>2, ConcatEmptySeq, ConcatProperties, LenProperties

-----------------------------------------------------------------------------
(* Looking for a character. *)

LEMMA FirstIndex ==
  ASSUME NEW s, NEW c, NEW k \in 1 .. Len(s), s[k] = c, \A i \in 1 .. k - 1 : s[i] # c
  PROVE  IndexOf(s, c) = k
<1> DEFINE I == {i \in 1 .. Len(s) : s[i] = c}
<1>1. k \in I /\ \A x \in I : k <= x
  OBVIOUS
<1>2. IndexOf(s, c) = Min(I)
  BY <1>1 DEF IndexOf, SelectInSeq
<1>3. Min(I) \in I /\ \A y \in I : Min(I) <= y
  BY <1>1 DEF Min
<1> QED BY <1>1, <1>2, <1>3

LEMMA NoIndex ==
  ASSUME NEW S, NEW s \in Seq(S), NEW c, c \notin ToSet(s)
  PROVE  Before(s, c) = s /\ After(s, c) = <<>> /\ ~Has(s, c)
<1>1. \A i \in 1 .. Len(s) : s[i] # c
  BY InText
<1>2. IndexOf(s, c) = 0
  BY <1>1 DEF IndexOf, SelectInSeq
<1> QED BY <1>2 DEF Before, After, Has

(* The first c of a text divides it. *)
LEMMA AtIndex ==
  ASSUME NEW S, NEW s \in Seq(S), NEW u \in Seq(S), NEW c \in S, c \notin ToSet(s)
  PROVE  /\ Before(s \o (<<c>> \o u), c) = s
         /\ After(s \o (<<c>> \o u), c) = u
         /\ Has(s \o (<<c>> \o u), c)
<1> DEFINE t == <<c>> \o u
           w == s \o t
           k == Len(s) + 1
<1>0. <<c>> \in Seq(S) /\ Len(<<c>>) = 1 /\ <<c>>[1] = c
  OBVIOUS
<1>1. t \in Seq(S) /\ Len(t) = 1 + Len(u) /\ t[1] = c /\ Len(s) \in Nat /\ Len(u) \in Nat
  BY <1>0, ConcatProperties, LenProperties, TailOfOne
<1>2. /\ w \in Seq(S) /\ Len(w) = Len(s) + Len(t)
      /\ \A i \in 1 .. Len(w) : w[i] = IF i <= Len(s) THEN s[i] ELSE t[i - Len(s)]
  BY <1>1, ConcatProperties
<1>3. w = (s \o <<c>>) \o u
  BY <1>0, ConcatAssociative
<1>4. s \o <<c>> \in Seq(S) /\ Len(s \o <<c>>) = k
  BY <1>0, ConcatProperties
<1>5. SubSeq(w, k + 1, Len(w)) = u
  BY <1>3, <1>4, ConcatParts
<1>6. SubSeq(w, 1, k - 1) = s
  <2>1. SubSeq(w, 1, Len(s)) = s
    BY <1>1, ConcatParts
  <2>2. k - 1 = Len(s)
    BY <1>1
  <2> QED BY <2>1, <2>2
<1> HIDE DEF w, t
<1>7. IndexOf(w, c) = k
  <2>1. k \in 1 .. Len(w) /\ ~(k <= Len(s)) /\ k - Len(s) = 1
    BY <1>1, <1>2
  <2>2. w[k] = c
    BY <1>1, <1>2, <2>1
  <2>3. ASSUME NEW i \in 1 .. k - 1 PROVE w[i] # c
    <3>1. i \in 1 .. Len(w) /\ i <= Len(s) /\ i \in 1 .. Len(s)
      BY <1>1, <1>2
    <3>2. w[i] = s[i]
      BY <1>2, <3>1
    <3> QED BY <3>1, <3>2, InText
  <2> QED BY <2>1, <2>2, <2>3, FirstIndex
<1>8. k # 0 /\ Has(w, c)
  <2>1. k \in 1 .. Len(w) /\ ~(k <= Len(s)) /\ k - Len(s) = 1
    BY <1>1, <1>2
  <2>2. w[k] = c
    BY <1>1, <1>2, <2>1
  <2>3. c \in ToSet(w)
    BY <1>2, <2>1, <2>2, InText
  <2> QED BY <1>1, <2>3 DEF Has
<1> QED BY <1>5, <1>6, <1>7, <1>8 DEF w, t, Before, After

(* What is before a space, if a space or nothing follows. *)
LEMMA BeforeNext ==
  ASSUME NEW S, NEW s \in Seq(S), NEW u \in Seq(S), NEW c \in S, c \notin ToSet(s),
         u # <<>> => u[1] = c
  PROVE  Before(s \o u, c) = s /\ After(s \o u, c) = IF u = <<>> THEN <<>> ELSE Tail(u)
<1>1. CASE u = <<>>
  BY <1>1, NoIndex, ConcatEmptySeq
<1>2. CASE u # <<>>
  <2>1. u = <<c>> \o Tail(u) /\ Tail(u) \in Seq(S)
    BY <1>2, HeadAndTail
  <2> QED BY <1>2, <2>1, AtIndex
<1> QED BY <1>1, <1>2

(* A character of a text has a first place in it. *)
LEMMA IndexIs ==
  ASSUME NEW S, NEW s \in Seq(S), NEW c, c \in ToSet(s)
  PROVE  \E k \in 1 .. Len(s) : IndexOf(s, c) = k /\ s[k] = c /\ \A i \in 1 .. k - 1 : s[i] # c
<1> DEFINE I == {i \in 1 .. Len(s) : s[i] = c}
           T == {n \in Nat : \A i \in 1 .. n : i \notin I}
<1>0. Len(s) \in Nat /\ I # {}
  BY InText, LenProperties
<1>1. PICK m \in I : \A i \in I : m <= i
  <2>1. 0 \in T
    OBVIOUS
  <2>2. CASE \A n \in T : n + 1 \in T
    <3> HIDE DEF T
    <3>1. T = Nat
      <4>1. T \subseteq Nat
        BY DEF T
      <4> QED BY <2>1, <2>2, <4>1, NatSetInduction
    <3>2. Len(s) \in T
      BY <1>0, <3>1
    <3> QED BY <1>0, <3>2 DEF T
  <2>3. CASE ~ \A n \in T : n + 1 \in T
    <3>1. PICK n \in T : n + 1 \notin T
      BY <2>3
    <3>2. n + 1 \in I
      BY <3>1
    <3>3. \A i \in I : n + 1 <= i
      BY <3>1, <3>2
    <3> QED BY <3>2, <3>3
  <2> QED BY <2>2, <2>3
<1>2. m \in 1 .. Len(s) /\ s[m] = c /\ \A i \in 1 .. m - 1 : s[i] # c
  <2>1. \A i \in 1 .. m - 1 : i \in 1 .. Len(s) /\ ~(m <= i)
    OBVIOUS
  <2> QED BY <1>1, <2>1
<1>3. IndexOf(s, c) = m
  BY <1>2, FirstIndex
<1> QED BY <1>2, <1>3

(* What is before a character is without it, and starts as the text does. *)
LEMMA BeforeLacks ==
  ASSUME NEW S, NEW s \in Seq(S), NEW c
  PROVE  /\ Before(s, c) \in Seq(S) /\ c \notin ToSet(Before(s, c))
         /\ s # <<>> /\ s[1] # c => Before(s, c) # <<>> /\ Before(s, c)[1] = s[1]
<1>0. Len(s) \in Nat /\ (s # <<>> => Len(s) > 0)
  BY EmptySeq, LenProperties
<1>1. CASE c \notin ToSet(s)
  BY <1>1, NoIndex
<1>2. CASE c \in ToSet(s)
  <2>1. PICK m \in 1 .. Len(s) : IndexOf(s, c) = m /\ s[m] = c /\ \A i \in 1 .. m - 1 : s[i] # c
    BY <1>2, IndexIs
  <2> DEFINE p == SubSeq(s, 1, m - 1)
  <2>2. Before(s, c) = p
    <3>1. m # 0
      BY <1>0
    <3> QED BY <2>1, <3>1 DEF Before
  <2>3. \A i \in 1 .. m - 1 : s[i] \in S
    BY <1>0, ElementOfSeq
  <2>4. /\ p \in Seq(S) /\ Len(p) = IF 1 <= m - 1 THEN m - 1 - 1 + 1 ELSE 0
        /\ \A i \in 1 .. m - 1 - 1 + 1 : p[i] = s[1 + i - 1]
    BY <1>0, <2>3, SubSeqProperties
  <2> HIDE DEF p
  <2>5. Len(p) = m - 1 /\ \A i \in 1 .. m - 1 : p[i] = s[i]
    BY <1>0, <2>4
  <2>6. c \notin ToSet(p)
    BY <2>1, <2>4, <2>5, InText
  <2>7. ASSUME s # <<>>, s[1] # c PROVE p # <<>> /\ p[1] = s[1]
    <3>1. m # 1
      BY <2>1, <2>7
    <3>2. m > 1 /\ 1 \in 1 .. m - 1
      BY <1>0, <3>1
    <3>3. Len(p) # 0
      BY <2>5, <3>2
    <3> QED BY <2>5, <3>2, <3>3, EmptySeq
  <2> QED BY <2>2, <2>4, <2>6, <2>7
<1> QED BY <1>1, <1>2

Blank(s) == \A i \in 1 .. Len(s) : s[i] = Space

(* Trimming leaves the text from its first character that is no space on.  *)
LEMMA TrimTo ==
  ASSUME NEW S, NEW s \in Seq(S), NEW u \in Seq(S), Blank(s),
         u # <<>> => u[1] # Space
  PROVE  TrimSpaces(s \o u) = u
<1> DEFINE w == s \o u
           I == {i \in 1 .. Len(w) : w[i] # Space}
<1>0. SubSeq(w, Len(s) + 1, Len(w)) = u
  BY ConcatParts
<1>1. /\ w \in Seq(S) /\ Len(w) = Len(s) + Len(u) /\ Len(s) \in Nat /\ Len(u) \in Nat
      /\ \A i \in 1 .. Len(w) : w[i] = IF i <= Len(s) THEN s[i] ELSE u[i - Len(s)]
  BY ConcatProperties, LenProperties
<1> HIDE DEF w
<1>2. ASSUME NEW i \in 1 .. Len(s) PROVE i \in 1 .. Len(w) /\ w[i] = Space
  BY <1>1 DEF Blank
<1>3. CASE u = <<>>
  <2>1. Len(w) = Len(s)
    BY <1>1, <1>3
  <2>2. I = {}
    BY <1>2, <2>1
  <2>3. TrimSpaces(w) = <<>>
    BY <2>2 DEF TrimSpaces, SelectInSeq
  <2> QED BY <1>3, <2>3 DEF w
<1>4. CASE u # <<>>
  <2> DEFINE m == Len(s) + 1
  <2>1. Len(u) > 0
    BY <1>1, <1>4, EmptySeq
  <2>2. m \in 1 .. Len(w) /\ ~(m <= Len(s)) /\ m - Len(s) = 1
    BY <1>1, <2>1
  <2>3. w[m] = u[1]
    BY <1>1, <2>2
  <2>4. m \in I /\ \A i \in I : m <= i
    <3>1. \A i \in I : ~(i \in 1 .. Len(s))
      BY <1>2
    <3>2. \A i \in 1 .. Len(w) : ~(i \in 1 .. Len(s)) => m <= i
      BY <1>1
    <3> QED BY <1>4, <2>2, <2>3, <3>1, <3>2
  <2> HIDE DEF m
  <2>5. Min(I) \in I /\ \A y \in I : Min(I) <= y
    BY <2>4 DEF Min
  <2>6. Min(I) = m /\ m # 0
    BY <2>2, <2>4, <2>5
  <2>7. TrimSpaces(w) = SubSeq(w, Min(I), Len(w))
    BY <2>4, <2>6 DEF TrimSpaces, SelectInSeq
  <2> QED BY <1>0, <2>6, <2>7 DEF m, w
<1> QED BY <1>3, <1>4

Trims(S, s) == {u \in Seq(S) : \E v \in Seq(S) : /\ s = v \o u
                                                 /\ Blank(v)
                                                 /\ u # <<>> => u[1] # Space}

(* Every text is some spaces and what trimming leaves.                     *)
LEMMA TrimExists ==
  ASSUME NEW S, NEW s \in Seq(S)
  PROVE  TrimSpaces(s) \in Trims(S, s)
<1> DEFINE T == {t \in Seq(S) :
                   \E v \in Seq(S), u \in Seq(S) :
                     /\ t = v \o u
                     /\ Blank(v)
                     /\ u # <<>> => u[1] # Space}
<1>1. <<>> \in T
  <2>1. <<>> \in Seq(S) /\ Len(<<>>) = 0
    BY EmptySeq
  <2>2. <<>> = <<>> \o <<>>
    BY <2>1, ConcatEmptySeq
  <2>3. Blank(<<>>)
    BY <2>1 DEF Blank
  <2> QED BY <2>1, <2>2, <2>3
<1>2. ASSUME NEW t \in Seq(S), t \in T, NEW e \in S PROVE Append(t, e) \in T
  <2>1. PICK v \in Seq(S), u \in Seq(S) :
           t = v \o u /\ Blank(v) /\ (u # <<>> => u[1] # Space)
    BY <1>2
  <2>2. Append(t, e) \in Seq(S)
    BY AppendProperties
  <2>3. CASE u = <<>> /\ e = Space
    <3> DEFINE a == Append(v, e)
    <3>1. a \in Seq(S) /\ Len(a) = Len(v) + 1 /\ (\A i \in 1 .. Len(v) : a[i] = v[i]) /\ a[Len(v) + 1] = e
      BY AppendProperties
    <3>2. Append(t, e) = a /\ Append(t, e) = a \o <<>>
      BY <2>1, <2>3, <3>1, ConcatEmptySeq
    <3>3. Len(v) \in Nat
      BY LenProperties
    <3> HIDE DEF a
    <3>4. Blank(a)
      BY <2>1, <2>3, <3>1, <3>3 DEF Blank
    <3> QED BY <2>2, <3>1, <3>2, <3>4, EmptySeq
  <2>4. CASE ~(u = <<>> /\ e = Space)
    <3> DEFINE b == Append(u, e)
    <3>1. Append(t, e) = v \o b
      <4>1. v \o Append(u, e) = Append(v \o u, e)
        BY ConcatAppend
      <4> QED BY <2>1, <4>1
    <3>3. b \in Seq(S)
      BY AppendProperties
    <3>2. b[1] # Space
      <4>1. CASE u = <<>>
        BY <4>1, <2>4
      <4>2. CASE u # <<>>
        <5>1. Len(u) \in Nat /\ Len(u) > 0
          BY <4>2, EmptySeq, LenProperties
        <5>2. b[1] = u[1]
          BY <5>1, AppendProperties
        <5> QED BY <2>1, <4>2, <5>2
      <4> QED BY <4>1, <4>2
    <3> HIDE DEF b
    <3> QED BY <2>1, <2>2, <3>1, <3>2, <3>3
  <2> QED BY <2>3, <2>4
<1>3. s \in T
  <2> HIDE DEF T
  <2>1. Seq(S) \subseteq T
    BY <1>1, <1>2, SeqSetInduction
  <2> QED BY <2>1
<1>4. PICK v \in Seq(S), u \in Seq(S) :
         s = v \o u /\ Blank(v) /\ (u # <<>> => u[1] # Space)
  BY <1>3
<1>5. TrimSpaces(s) = u
  BY <1>4, TrimTo
<1>6. u \in Trims(S, s)
  BY <1>4 DEF Trims
<1> QED BY <1>5, <1>6

LEMMA TrimEmpty == TrimSpaces(<<>>) = <<>>
<1>1. Len(<<>>) = 0
  BY EmptySeq
<1>2. \A i \in 1 .. Len(<<>>) : FALSE
  BY <1>1
<1> QED BY <1>2 DEF TrimSpaces, SelectInSeq

LEMMA Trimmed ==
  ASSUME NEW S, NEW s \in Seq(S)
  PROVE  /\ TrimSpaces(s) \in Seq(S)
         /\ Len(TrimSpaces(s)) <= Len(s)
         /\ s # <<>> /\ s[1] # Space => TrimSpaces(s) = s
         /\ s # <<>> /\ s[1] = Space => TrimSpaces(Tail(s)) = TrimSpaces(s)
<1>1. PICK v \in Seq(S) : /\ s = v \o TrimSpaces(s)
                          /\ Blank(v)
                          /\ TrimSpaces(s) \in Seq(S)
                          /\ TrimSpaces(s) # <<>> => TrimSpaces(s)[1] # Space
  <2>1. TrimSpaces(s) \in Trims(S, s)
    BY TrimExists
  <2> QED BY <2>1 DEF Trims
<1> DEFINE u == TrimSpaces(s)
<1>2. s = v \o u /\ u \in Seq(S) /\ (u # <<>> => u[1] # Space)
  BY <1>1
<1>3. Len(u) <= Len(s)
  <2>1. Len(s) = Len(v) + Len(u) /\ Len(v) \in Nat /\ Len(u) \in Nat
    BY <1>2, ConcatProperties, LenProperties
  <2> QED BY <2>1
<1>4. ASSUME s # <<>>, s[1] # Space PROVE u = s
  <2>1. <<>> \o s = s /\ <<>> \in Seq(S) /\ Len(<<>>) = 0
    BY ConcatEmptySeq, EmptySeq
  <2>3. Blank(<<>>)
    BY <2>1 DEF Blank
  <2>2. TrimSpaces(<<>> \o s) = s
    BY <1>4, <2>1, <2>3, TrimTo
  <2> QED BY <2>1, <2>2
<1>5. ASSUME s # <<>>, s[1] = Space PROVE TrimSpaces(Tail(s)) = u
  <2>1. v # <<>>
    BY <1>2, <1>5, ConcatEmptySeq
  <2>2. Tail(s) = Tail(v) \o u
    BY <1>2, <2>1, FirstOfConcat
  <2>3. /\ Tail(v) \in Seq(S) /\ Len(Tail(v)) = Len(v) - 1 /\ Len(v) \in Nat
        /\ \A i \in 1 .. Len(Tail(v)) : Tail(v)[i] = v[i + 1]
    BY <2>1, HeadTailProperties, LenProperties
  <2>4. Blank(Tail(v))
    <3>1. \A i \in 1 .. Len(Tail(v)) : i + 1 \in 1 .. Len(v)
      BY <2>3
    <3> QED BY <1>1, <2>3, <3>1 DEF Blank
  <2> HIDE DEF u
  <2> QED BY <1>2, <2>2, <2>3, <2>4, TrimTo
<1> QED BY <1>2, <1>3, <1>4, <1>5

-----------------------------------------------------------------------------
(* Texts that are joined by a character. *)

Led(parts, c) == FlattenSeq([i \in DOMAIN parts |-> <<c>> \o parts[i]])

LEMMA LedSteps ==
  ASSUME NEW S, NEW c \in S
  PROVE  /\ Led(<<>>, c) = <<>>
         /\ \A parts \in Seq(Seq(S)) :
              /\ Led(parts, c) \in Seq(S)
              /\ \A e \in Seq(S) : Led(Append(parts, e), c) = Led(parts, c) \o (<<c>> \o e)
<1> DEFINE f == [p \in Seq(S) |-> <<c>> \o p]
<1>1. f \in [Seq(S) -> Seq(S)]
  BY TailOfOne
<1>2. ASSUME NEW parts \in Seq(Seq(S)) PROVE Led(parts, c) = FlattenSeq(Mapped(f, parts))
  <2>1. DOMAIN parts = 1 .. Len(parts) /\ \A i \in 1 .. Len(parts) : parts[i] \in Seq(S)
    BY ElementOfSeq, LenProperties
  <2>2. \A i \in DOMAIN parts : f[parts[i]] = <<c>> \o parts[i]
    BY <2>1
  <2> HIDE DEF f
  <2>3. Mapped(f, parts) = [i \in DOMAIN parts |-> <<c>> \o parts[i]]
    BY <2>2 DEF Mapped
  <2> QED BY <2>3 DEF Led
<1>3. \A e \in Seq(S) : f[e] = <<c>> \o e
  OBVIOUS
<1> HIDE DEF f
<1>4. <<>> \in Seq(Seq(S)) /\ \A parts \in Seq(Seq(S)), e \in Seq(S) : Append(parts, e) \in Seq(Seq(S))
  BY EmptySeq, AppendProperties
<1>8. /\ FlattenSeq(Mapped(f, <<>>)) = <<>>
      /\ \A s \in Seq(Seq(S)) : /\ FlattenSeq(Mapped(f, s)) \in Seq(S)
                               /\ \A e \in Seq(S) : FlattenSeq(Mapped(f, Append(s, e)))
                                                    = FlattenSeq(Mapped(f, s)) \o f[e]
  <2> DEFINE P == Seq(S)
  <2>1. f \in [P -> Seq(S)]
    BY <1>1
  <2> HIDE DEF P
  <2>2. /\ FlattenSeq(Mapped(f, <<>>)) = <<>>
        /\ \A s \in Seq(P) : /\ FlattenSeq(Mapped(f, s)) \in Seq(S)
                             /\ \A e \in P : FlattenSeq(Mapped(f, Append(s, e)))
                                             = FlattenSeq(Mapped(f, s)) \o f[e]
    BY <2>1, FlattenMapped
  <2> QED BY <2>2 DEF P
<1>5. Led(<<>>, c) = <<>>
  BY <1>2, <1>4, <1>8
<1>6. ASSUME NEW parts \in Seq(Seq(S)) PROVE Led(parts, c) \in Seq(S)
  BY <1>2, <1>8
<1>7. ASSUME NEW parts \in Seq(Seq(S)), NEW e \in Seq(S)
      PROVE  Led(Append(parts, e), c) = Led(parts, c) \o (<<c>> \o e)
  <2>1. FlattenSeq(Mapped(f, Append(parts, e))) = FlattenSeq(Mapped(f, parts)) \o f[e]
    BY <1>8
  <2> QED BY <1>2, <1>3, <1>4, <2>1
<1> QED BY <1>5, <1>6, <1>7

LEMMA LedFirst ==
  ASSUME NEW S, NEW c \in S, NEW parts \in Seq(Seq(S)), parts # <<>>
  PROVE  /\ Led(parts, c) \in Seq(S)
         /\ Led(parts, c) # <<>>
         /\ Led(parts, c)[1] = c
         /\ Tail(Led(parts, c)) = Joined(parts, c)
<1> DEFINE T == {p \in Seq(Seq(S)) : p # <<>> => Led(p, c) # <<>> /\ Led(p, c)[1] = c}
<1>1. <<>> \in T
  BY EmptySeq
<1>2. ASSUME NEW p \in Seq(Seq(S)), p \in T, NEW e \in Seq(S) PROVE Append(p, e) \in T
  <2> DEFINE x == <<c>> \o e
  <2>1. Led(Append(p, e), c) = Led(p, c) \o x /\ Led(p, c) \in Seq(S) /\ Led(<<>>, c) = <<>>
    BY LedSteps
  <2>2. x \in Seq(S) /\ x # <<>> /\ x[1] = c
    BY TailOfOne
  <2> HIDE DEF x
  <2>3. Append(p, e) \in Seq(Seq(S))
    BY AppendProperties
  <2>4. CASE p = <<>>
    <3>1. Led(Append(p, e), c) = x
      BY <2>1, <2>2, <2>4, ConcatEmptySeq
    <3> QED BY <2>2, <2>3, <3>1
  <2>5. CASE p # <<>>
    <3>1. Led(p, c) # <<>> /\ Led(p, c)[1] = c
      BY <1>2, <2>5
    <3>2. Led(p, c) \o x # <<>> /\ (Led(p, c) \o x)[1] = c
      BY <2>1, <2>2, <3>1, FirstOfConcat
    <3> QED BY <2>1, <2>3, <3>2
  <2> QED BY <2>4, <2>5
<1>3. parts \in T
  <2> HIDE DEF T
  <2>1. Seq(Seq(S)) \subseteq T
    BY <1>1, <1>2, SeqSetInduction
  <2> QED BY <2>1
<1>4. Led(parts, c) \in Seq(S)
  BY LedSteps
<1> QED BY <1>3, <1>4 DEF Joined, Led

LEMMA JoinedType ==
  ASSUME NEW S, NEW c \in S, NEW parts \in Seq(Seq(S))
  PROVE  Joined(parts, c) \in Seq(S)
<1>1. CASE parts = <<>>
  BY <1>1, EmptySeq DEF Joined
<1>2. CASE parts # <<>>
  <2>1. Led(parts, c) \in Seq(S) /\ Led(parts, c) # <<>> /\ Tail(Led(parts, c)) = Joined(parts, c)
    BY <1>2, LedFirst
  <2> QED BY <2>1, HeadTailProperties
<1> QED BY <1>1, <1>2

LEMMA JoinedOne ==
  ASSUME NEW S, NEW c \in S, NEW e \in Seq(S)
  PROVE  Joined(<<e>>, c) = e
<1>1. <<e>> \in Seq(Seq(S)) /\ <<e>> # <<>>
  OBVIOUS
<1>2. Led(<<e>>, c) = <<>> \o (<<c>> \o e)
  <2>1. PICK p \in Seq(Seq(S)) : p = <<>>
    BY EmptySeq
  <2>2. Append(p, e) = <<e>>
    BY <2>1
  <2>3. Led(Append(p, e), c) = Led(p, c) \o (<<c>> \o e) /\ Led(<<>>, c) = <<>>
    BY LedSteps
  <2> QED BY <2>1, <2>2, <2>3
<1>3. <<c>> \o e \in Seq(S) /\ Tail(<<c>> \o e) = e
  BY TailOfOne
<1>4. Tail(Led(<<e>>, c)) = e
  BY <1>2, <1>3, ConcatEmptySeq
<1>5. Tail(Led(<<e>>, c)) = Joined(<<e>>, c)
  BY <1>1, LedFirst
<1> QED BY <1>4, <1>5

LEMMA JoinedAppend ==
  ASSUME NEW S, NEW c \in S, NEW parts \in Seq(Seq(S)), NEW e \in Seq(S), parts # <<>>
  PROVE  Joined(Append(parts, e), c) = Joined(parts, c) \o (<<c>> \o e)
<1> DEFINE x == <<c>> \o e
           more == Append(parts, e)
<1>1. /\ Led(parts, c) \in Seq(S) /\ Led(parts, c) # <<>>
      /\ Tail(Led(parts, c)) = Joined(parts, c)
  BY LedFirst
<1>2. more \in Seq(Seq(S)) /\ more # <<>>
  BY AppendProperties
<1>3. Led(more, c) = Led(parts, c) \o x
  BY LedSteps
<1>4. x \in Seq(S)
  BY TailOfOne
<1> HIDE DEF x, more
<1>5. Tail(Led(more, c)) = Joined(more, c)
  BY <1>2, LedFirst
<1>6. Tail(Led(parts, c) \o x) = Tail(Led(parts, c)) \o x
  BY <1>1, <1>4, FirstOfConcat
<1>7. Joined(more, c) = Joined(parts, c) \o x
  BY <1>1, <1>3, <1>5, <1>6
<1> QED BY <1>7 DEF x, more

-----------------------------------------------------------------------------
(* Splitting what was joined. *)

Parts(c, parts) == [at |-> c, parts |-> parts]

LEMMA SplitIsFold ==
  ASSUME NEW s, NEW c
  PROVE  SplitAll(s, c) = CutFold!Fold(Parts(c, << <<>> >>), s).parts
BY DEF SplitAll, Parts, FoldLeft, MapThenFoldSet, Max,
       CutFold!Fold, CutFold!MapThenFoldSet, CutFold!Largest

LEMMA CutAt ==
  ASSUME NEW c, NEW parts
  PROVE  Cut(Parts(c, parts), c) = Parts(c, Append(parts, <<>>))
BY DEF Cut, Parts

LEMMA CutWithin ==
  ASSUME NEW S, NEW c, NEW parts \in Seq(Seq(S)), NEW s \in Seq(S), NEW x \in S, x # c
  PROVE  Cut(Parts(c, Append(parts, s)), x) = Parts(c, Append(parts, Append(s, x)))
<1> DEFINE p == Append(parts, s)
           t == Append(s, x)
           q == Append(parts, t)
           n == Len(p)
           r == [p EXCEPT ![n] = Append(@, x)]
<1>0. t \in Seq(S)
  BY AppendProperties
<1>1. /\ p \in Seq(Seq(S)) /\ Len(p) = Len(parts) + 1 /\ Len(parts) \in Nat
      /\ \A i \in 1 .. Len(parts) : p[i] = parts[i]
      /\ p[Len(parts) + 1] = s
  BY AppendProperties, LenProperties
<1>2. /\ q \in Seq(Seq(S)) /\ Len(q) = Len(parts) + 1
      /\ \A i \in 1 .. Len(parts) : q[i] = parts[i]
      /\ q[Len(parts) + 1] = t
  BY <1>0, AppendProperties
<1>3. DOMAIN p = 1 .. Len(parts) + 1 /\ DOMAIN q = 1 .. Len(parts) + 1
  BY <1>1, <1>2, LenProperties
<1> HIDE DEF p, q
<1>4. DOMAIN r = DOMAIN p /\ \A i \in DOMAIN p : r[i] = IF i = n THEN t ELSE p[i]
  BY <1>1
<1>5. \A i \in DOMAIN p : r[i] = q[i]
  <2>1. ASSUME NEW i \in DOMAIN p, i = n PROVE r[i] = q[i]
    BY <1>1, <1>2, <1>4, <2>1
  <2>2. ASSUME NEW i \in DOMAIN p, i # n PROVE r[i] = q[i]
    <3>1. i \in 1 .. Len(parts)
      BY <1>1, <1>3, <2>2
    <3> QED BY <1>1, <1>2, <1>4, <2>2, <3>1
  <2> QED BY <2>1, <2>2
<1>6. r = q
  <2>1. \A i \in 1 .. Len(parts) + 1 : r[i] = q[i]
    BY <1>3, <1>5
  <2>2. r = [i \in 1 .. Len(parts) + 1 |-> r[i]] /\ q = [i \in 1 .. Len(parts) + 1 |-> q[i]]
    BY <1>2, <1>3, <1>4, LenProperties
  <2> HIDE DEF r
  <2> QED BY <2>1, <2>2
<1>7. Cut(Parts(c, p), x) = Parts(c, r)
  BY DEF Cut, Parts
<1> QED BY <1>6, <1>7 DEF p, q

LEMMA CutText ==
  ASSUME NEW S, NEW c \in S, NEW parts \in Seq(Seq(S)), NEW s \in Seq(S), c \notin ToSet(s)
  PROVE  CutFold!Fold(Parts(c, Append(parts, <<>>)), s) = Parts(c, Append(parts, s))
<1> DEFINE F(t) == CutFold!Fold(Parts(c, Append(parts, <<>>)), t)
           R == S \ {c}
           T == {t \in Seq(R) : F(t) = Parts(c, Append(parts, t))}
<1>0. ASSUME NEW t \in Seq(R), NEW x \in R
      PROVE F(Append(t, x)) = Cut(F(t), x) /\ Append(t, x) \in Seq(R) /\ t \in Seq(S)
  <2>1. Seq(R) \subseteq Seq(S)
    BY SeqMonotonic
  <2> QED BY <2>1, CutFold!FoldAppend, AppendProperties
<1>1. F(<<>>) = Parts(c, Append(parts, <<>>)) /\ <<>> \in Seq(R)
  BY CutFold!FoldEmpty, EmptySeq
<1> HIDE DEF F
<1>2. <<>> \in T
  BY <1>1
<1>3. ASSUME NEW t \in Seq(R), t \in T, NEW x \in R PROVE Append(t, x) \in T
  <2>1. F(Append(t, x)) = Cut(Parts(c, Append(parts, t)), x)
    BY <1>0, <1>3
  <2>2. Cut(Parts(c, Append(parts, t)), x) = Parts(c, Append(parts, Append(t, x)))
    <3>1. x \in S /\ x # c /\ t \in Seq(S)
      BY <1>0
    <3> QED BY <3>1, CutWithin
  <2> QED BY <1>0, <2>1, <2>2
<1>4. s \in T
  <2> HIDE DEF T
  <2>1. Seq(R) \subseteq T
    BY <1>2, <1>3, SeqSetInduction
  <2>2. s \in Seq(R)
    <3>1. ToSet(s) \cap {c} = {}
      OBVIOUS
    <3> QED BY <3>1, WithoutChars
  <2> QED BY <2>1, <2>2
<1> QED BY <1>4 DEF F

LEMMA SplitJoined ==
  ASSUME NEW S, NEW c \in S, NEW parts \in Seq(Seq(S)), parts # <<>>,
         \A i \in 1 .. Len(parts) : c \notin ToSet(parts[i])
  PROVE  SplitAll(Joined(parts, c), c) = parts
<1> DEFINE F(t) == CutFold!Fold(Parts(c, << <<>> >>), t)
           R == {p \in Seq(S) : c \notin ToSet(p)}
           T == {p \in Seq(R) : p # <<>> => F(Joined(p, c)) = Parts(c, p)}
<1>0. Seq(R) \subseteq Seq(Seq(S))
  BY SeqMonotonic
<1>1. <<>> \in T
  BY EmptySeq
<1>2. ASSUME NEW p \in Seq(R), p \in T, NEW e \in R PROVE Append(p, e) \in T
  <2>0. p \in Seq(Seq(S)) /\ Append(p, e) \in Seq(R) /\ e \in Seq(S) /\ c \notin ToSet(e)
    BY <1>0, AppendProperties
  <2>1. CASE p = <<>>
    <3>1. Append(p, e) = <<e>> /\ Append(p, <<>>) = << <<>> >>
      BY <2>1
    <3>2. Joined(<<e>>, c) = e
      BY <2>0, JoinedOne
    <3>3. CutFold!Fold(Parts(c, Append(p, <<>>)), e) = Parts(c, Append(p, e))
      BY <2>0, CutText
    <3>4. F(Joined(Append(p, e), c)) = Parts(c, Append(p, e))
      BY <3>1, <3>2, <3>3
    <3> HIDE DEF F
    <3> QED BY <2>0, <3>4
  <2>2. CASE p # <<>>
    <3> DEFINE j == Joined(p, c)
               b == Parts(c, p)
    <3>0. F(j) = b
      BY <1>2, <2>2
    <3>9. j \in Seq(S)
      BY <2>0, JoinedType
    <3>1. Joined(Append(p, e), c) = j \o (<<c>> \o e)
      BY <2>0, <2>2, JoinedAppend
    <3>2. <<c>> \in Seq(S) /\ <<c>> \o e \in Seq(S) /\ <<>> \in Seq(S) /\ <<c>> = Append(<<>>, c)
      BY <2>0, TailOfOne, EmptySeq
    <3> HIDE DEF j, b
    <3>3. F(j \o (<<c>> \o e)) = CutFold!Fold(F(j), <<c>> \o e)
      BY <3>9, <3>2, CutFold!FoldConcat
    <3>4. CutFold!Fold(b, <<c>> \o e) = CutFold!Fold(CutFold!Fold(b, <<c>>), e)
      BY <2>0, <3>2, CutFold!FoldConcat
    <3>5. CutFold!Fold(b, <<c>>) = Cut(b, c)
      <4>1. CutFold!Fold(b, Append(<<>>, c)) = Cut(CutFold!Fold(b, <<>>), c)
        BY <3>2, CutFold!FoldAppend
      <4>2. CutFold!Fold(b, <<>>) = b
        BY CutFold!FoldEmpty
      <4> QED BY <3>2, <4>1, <4>2
    <3>6. Cut(b, c) = Parts(c, Append(p, <<>>))
      BY CutAt DEF b
    <3>7. CutFold!Fold(Parts(c, Append(p, <<>>)), e) = Parts(c, Append(p, e))
      BY <2>0, CutText
    <3>8. F(Joined(Append(p, e), c)) = Parts(c, Append(p, e))
      BY <3>0, <3>1, <3>3, <3>4, <3>5, <3>6, <3>7
    <3> HIDE DEF F
    <3> QED BY <2>0, <3>8
  <2> QED BY <2>1, <2>2
<1>3. parts \in Seq(R)
  <2>1. \A i \in 1 .. Len(parts) : parts[i] \in Seq(S)
    BY ElementOfSeq
  <2>3. \A i \in 1 .. Len(parts) : parts[i] \in R
    BY <2>1
  <2> HIDE DEF R
  <2> QED BY <2>3, SeqOver
<1>4. F(Joined(parts, c)) = Parts(c, parts)
  <2> HIDE DEF T
  <2>1. Seq(R) \subseteq T
    BY <1>1, <1>2, SeqSetInduction
  <2> QED BY <1>3, <2>1 DEF T
<1>5. SplitAll(Joined(parts, c), c) = F(Joined(parts, c)).parts
  BY SplitIsFold
<1> HIDE DEF F
<1> QED BY <1>4, <1>5 DEF Parts

(* What else is in the joined text. *)
LEMMA JoinedFirst ==
  ASSUME NEW S, NEW c \in S, NEW parts \in Seq(Seq(S)), parts # <<>>, parts[1] # <<>>
  PROVE  Joined(parts, c) # <<>> /\ Joined(parts, c)[1] = parts[1][1]
<1> DEFINE T == {p \in Seq(Seq(S)) : p # <<>> /\ p[1] # <<>> =>
                                       Joined(p, c) # <<>> /\ Joined(p, c)[1] = p[1][1]}
<1>1. <<>> \in T
  BY EmptySeq
<1>2. ASSUME NEW p \in Seq(Seq(S)), p \in T, NEW e \in Seq(S) PROVE Append(p, e) \in T
  <2> DEFINE a == Append(p, e)
  <2>0. a \in Seq(Seq(S)) /\ (\A i \in 1 .. Len(p) : a[i] = p[i]) /\ a[Len(p) + 1] = e
    BY AppendProperties
  <2>1. CASE p = <<>>
    <3>1. a = <<e>> /\ a[1] = e
      BY <2>1
    <3>2. Joined(<<e>>, c) = e
      BY JoinedOne
    <3> QED BY <2>0, <3>1, <3>2
  <2>2. CASE p # <<>>
    <3> DEFINE j == Joined(p, c)
    <3>1. Len(p) \in Nat /\ Len(p) > 0
      BY <2>2, EmptySeq, LenProperties
    <3>2. a[1] = p[1]
      BY <2>0, <3>1
    <3>3. Joined(a, c) = j \o (<<c>> \o e)
      BY <2>2, JoinedAppend
    <3>7. j \in Seq(S) /\ <<c>> \o e \in Seq(S)
      BY JoinedType, TailOfOne
    <3>4. p[1] # <<>> => j # <<>> /\ j[1] = p[1][1]
      BY <1>2, <2>2
    <3> HIDE DEF j, a
    <3>5. j # <<>> => Joined(a, c) # <<>> /\ Joined(a, c)[1] = j[1]
      BY <3>3, <3>7, FirstOfConcat
    <3>6. a \in T
      BY <2>0, <3>2, <3>4, <3>5
    <3> QED BY <3>6 DEF a
  <2> QED BY <2>1, <2>2
<1> HIDE DEF T
<1>3. Seq(Seq(S)) \subseteq T
  BY <1>1, <1>2, SeqSetInduction
<1> QED BY <1>3 DEF T

LEMMA OneOrMore ==
  ASSUME NEW S, NEW s \in Seq(S), s # <<>>
  PROVE  \/ Len(s) = 1 /\ s[1] \in S /\ s = <<s[1]>>
         \/ Len(s) > 1 /\ \E t \in Seq(S), e \in S : t # <<>> /\ s = Append(t, e)
<1>1. PICK t \in Seq(S), e \in S : s = Append(t, e)
  BY SequenceEmptyOrAppend
<1>2. Len(s) = Len(t) + 1 /\ Len(t) \in Nat /\ s[Len(t) + 1] = e
  BY <1>1, AppendProperties, LenProperties
<1>3. CASE t = <<>>
  <2>1. s = <<e>>
    BY <1>1, <1>3
  <2> QED BY <2>1
<1>4. CASE t # <<>>
  <2>1. Len(t) > 0
    BY <1>2, <1>4, EmptySeq
  <2>2. Len(s) > 1
    BY <1>2, <2>1
  <2> QED BY <1>1, <1>4, <2>2
<1> QED BY <1>3, <1>4

LEMMA JoinedHas ==
  ASSUME NEW S, NEW c \in S, NEW parts \in Seq(Seq(S)), parts # <<>>,
         \A i \in 1 .. Len(parts) : c \notin ToSet(parts[i])
  PROVE  Has(Joined(parts, c), c) <=> Len(parts) # 1
<1>1. CASE Len(parts) = 1 /\ parts[1] \in Seq(S) /\ parts = <<parts[1]>>
  <2>1. Joined(<<parts[1]>>, c) = parts[1]
    BY <1>1, JoinedOne
  <2>2. c \notin ToSet(parts[1])
    BY <1>1
  <2> QED BY <1>1, <2>1, <2>2 DEF Has
<1>2. CASE Len(parts) > 1 /\ \E t \in Seq(Seq(S)), e \in Seq(S) : t # <<>> /\ parts = Append(t, e)
  <2>1. PICK t \in Seq(Seq(S)), e \in Seq(S) : t # <<>> /\ parts = Append(t, e)
    BY <1>2
  <2> DEFINE j == Joined(t, c)
             x == <<c>> \o e
  <2>2. Joined(parts, c) = j \o x
    BY <2>1, JoinedAppend
  <2>3. j \in Seq(S) /\ x \in Seq(S) /\ x # <<>> /\ x[1] = c
    BY JoinedType, TailOfOne
  <2> HIDE DEF j, x
  <2>4. Len(x) \in Nat /\ Len(x) > 0
    BY <2>3, EmptySeq, LenProperties
  <2>5. c \in ToSet(x)
    BY <2>3, <2>4, InText
  <2>6. c \in ToSet(j \o x)
    BY <2>3, <2>5, InConcat
  <2> QED BY <1>2, <2>2, <2>6 DEF Has
<1> QED BY <1>1, <1>2, OneOrMore

-----------------------------------------------------------------------------
(* What a list keeps. *)

LEMMA NonEmptySteps ==
  ASSUME NEW S
  PROVE  /\ NonEmpty(<<>>) = <<>>
         /\ \A parts \in Seq(S), e \in S : NonEmpty(Append(parts, e)) = KeepNonEmpty(NonEmpty(parts), e)
<1>1. ASSUME NEW p PROVE NonEmpty(p) = NonEmptyFold!Fold(<<>>, p)
  BY DEF NonEmpty, FoldLeft, MapThenFoldSet, Max, NonEmptyFold!Fold,
         NonEmptyFold!MapThenFoldSet, NonEmptyFold!Largest
<1>2. NonEmptyFold!Fold(<<>>, <<>>) = <<>>
  BY NonEmptyFold!FoldEmpty
<1>3. ASSUME NEW p \in Seq(S), NEW e \in S
      PROVE  NonEmptyFold!Fold(<<>>, Append(p, e)) = KeepNonEmpty(NonEmptyFold!Fold(<<>>, p), e)
  BY NonEmptyFold!FoldAppend
<1> QED BY <1>1, <1>2, <1>3

LEMMA AllKept ==
  ASSUME NEW S, NEW parts \in Seq(S), \A i \in 1 .. Len(parts) : parts[i] # <<>>
  PROVE  NonEmpty(parts) = parts
<1> DEFINE R == S \ {<<>>}
           T == {p \in Seq(R) : NonEmpty(p) = p}
<1>1. <<>> \in T
  BY NonEmptySteps, EmptySeq
<1>2. ASSUME NEW p \in Seq(R), p \in T, NEW e \in R PROVE Append(p, e) \in T
  <2>1. NonEmpty(Append(p, e)) = KeepNonEmpty(NonEmpty(p), e)
    BY NonEmptySteps
  <2>2. Append(p, e) \in Seq(R)
    BY AppendProperties
  <2> QED BY <1>2, <2>1, <2>2 DEF KeepNonEmpty
<1>3. parts \in Seq(R)
  <2>1. \A i \in 1 .. Len(parts) : parts[i] \in R
    BY ElementOfSeq
  <2> HIDE DEF R
  <2> QED BY <2>1, SeqOver
<1> HIDE DEF T
<1>4. Seq(R) \subseteq T
  BY <1>1, <1>2, SeqSetInduction
<1> QED BY <1>3, <1>4 DEF T

(* A list with a part that is not empty keeps something. *)
LEMMA SomeKept ==
  ASSUME NEW S, NEW parts \in Seq(S), NEW i \in 1 .. Len(parts), parts[i] # <<>>
  PROVE  NonEmpty(parts) # <<>>
<1> DEFINE T == {p \in Seq(S) : /\ NonEmpty(p) \in Seq(S)
                              /\ \A k \in 1 .. Len(p) : p[k] # <<>> => NonEmpty(p) # <<>>}
<1>1. <<>> \in T
  <2>1. NonEmpty(<<>>) = <<>> /\ <<>> \in Seq(S) /\ Len(<<>>) = 0
    BY NonEmptySteps, EmptySeq
  <2>2. 1 .. Len(<<>>) = {}
    BY <2>1
  <2> QED BY <2>1, <2>2
<1>2. ASSUME NEW p \in Seq(S), p \in T, NEW e \in S PROVE Append(p, e) \in T
  <2> DEFINE a == Append(p, e)
             k == NonEmpty(p)
             K == NonEmpty(a)
  <2>1. K = IF e = <<>> THEN k ELSE Append(k, e)
    BY NonEmptySteps DEF KeepNonEmpty
  <2>2. k \in Seq(S)
    BY <1>2
  <2>3. /\ a \in Seq(S) /\ Len(a) = Len(p) + 1 /\ Len(p) \in Nat
        /\ (\A j \in 1 .. Len(p) : a[j] = p[j]) /\ a[Len(p) + 1] = e
    BY AppendProperties, LenProperties
  <2>5. \A j \in 1 .. Len(p) : p[j] # <<>> => k # <<>>
    BY <1>2
  <2> HIDE DEF a, k, K
  <2>6. Append(k, e) \in Seq(S) /\ Append(k, e) # <<>>
    BY <2>2, AppendProperties
  <2>4. K \in Seq(S) /\ (e # <<>> => K # <<>>)
    BY <2>1, <2>2, <2>6
  <2>7. ASSUME NEW j \in 1 .. Len(a), a[j] # <<>> PROVE K # <<>>
    <3>1. CASE j = Len(p) + 1
      BY <2>3, <2>4, <2>7, <3>1
    <3>2. CASE j # Len(p) + 1
      <4>1. j \in 1 .. Len(p) /\ p[j] # <<>>
        BY <2>3, <2>7, <3>2
      <4> QED BY <2>1, <2>4, <2>5, <4>1
    <3> QED BY <3>1, <3>2
  <2> QED BY <2>3, <2>4, <2>7 DEF a, K
<1> HIDE DEF T
<1>3. Seq(S) \subseteq T
  BY <1>1, <1>2, SeqSetInduction
<1> QED BY <1>3 DEF T

LEMMA TargetsKept ==
  ASSUME NEW S, NEW items \in Seq(S)
  PROVE  Targets(items) \in Seq(S) /\ ToSet(Targets(items)) = {t \in ToSet(items) : IsTarget(t)}
<1> DEFINE T == {p \in Seq(S) : /\ Targets(p) \in Seq(S)
                              /\ ToSet(Targets(p)) = {t \in ToSet(p) : IsTarget(t)}}
<1>0. ASSUME NEW p PROVE Targets(p) = TargetFold!Fold(<<>>, p)
  BY DEF Targets, FoldLeft, MapThenFoldSet, Max, TargetFold!Fold,
         TargetFold!MapThenFoldSet, TargetFold!Largest
<1>1. <<>> \in T
  <2>1. Targets(<<>>) = <<>>
    BY <1>0, TargetFold!FoldEmpty
  <2> QED BY <2>1, InNone, EmptySeq
<1>2. ASSUME NEW p \in Seq(S), p \in T, NEW e \in S PROVE Append(p, e) \in T
  <2>1. Targets(Append(p, e)) = KeepTarget(Targets(p), e)
    BY <1>0, TargetFold!FoldAppend
  <2>2. ASSUME NEW s \in Seq(S) PROVE ToSet(Append(s, e)) = ToSet(s) \cup {e}
    BY InAppend
  <2>3. Append(p, e) \in Seq(S) /\ \A s \in Seq(S) : Append(s, e) \in Seq(S)
    BY AppendProperties
  <2>4. Targets(p) \in Seq(S) /\ ToSet(Targets(p)) = {t \in ToSet(p) : IsTarget(t)}
    BY <1>2
  <2>5. CASE IsTarget(e)
    <3>1. Targets(Append(p, e)) = Append(Targets(p), e)
      BY <2>1, <2>5 DEF KeepTarget
    <3> QED BY <2>2, <2>3, <2>4, <2>5, <3>1
  <2>6. CASE ~IsTarget(e)
    <3>1. Targets(Append(p, e)) = Targets(p)
      BY <2>1, <2>6 DEF KeepTarget
    <3> QED BY <2>2, <2>3, <2>4, <2>6, <3>1
  <2> QED BY <2>5, <2>6
<1> HIDE DEF T
<1>3. Seq(S) \subseteq T
  BY <1>1, <1>2, SeqSetInduction
<1> QED BY <1>3 DEF T

-----------------------------------------------------------------------------
(* Messages and their parts, over words and the characters the client uses. *)

Characters ==
  STRING \cup {Space, Comma, NoWord, ":", "@", "!", "/", "0", "*", "tag", "host", "^A", "ACTION",
               "CLIENTINFO", "PASS", "NICK", "USER", "PONG", "QUIT", "JOIN", "PRIVMSG", "NOTICE",
               "join", "raw", "msg", "quit", "nick"}
Strings == Seq(Characters)
Lists == Seq(Strings) \ {<<>>}

Without(s, chars) == s \in Strings /\ ToSet(s) \cap chars = {}

SomeSource(source) ==
  \/ source = NoSource
  \/ /\ source = ServerSource(source.name)
     /\ Without(source.name, {Space, "!", "@"})
  \/ /\ source = NickSource(source.nick, source.user, source.host)
     /\ source.user # <<>> \/ source.host # <<>>
     /\ Without(source.nick, {Space, "!", "@"})
     /\ source.user # <<>> =>
          source.user = <<source.user[1]>> /\ Without(source.user[1], {Space, "@"})
     /\ source.host # <<>> =>
          /\ source.host = <<source.host[1]>>
          /\ Without(source.host[1], {Space} \cup IF source.user = <<>> THEN {"!"} ELSE {})

IsName(name) == name \in Characters \ {NoWord, Space, ":", "@"}
IsMessage(m) ==
  /\ m = [tags |-> m.tags, source |-> m.source, name |-> m.name, params |-> m.params]
  /\ m.tags \in BOOLEAN
  /\ SomeSource(m.source)
  /\ IsName(m.name)
  /\ m.params \in Seq(Lists)

LEMMA StringsConcat ==
  ASSUME NEW s \in Strings, NEW t \in Strings
  PROVE  s \o t \in Strings /\ ToSet(s \o t) = ToSet(s) \cup ToSet(t)
BY ConcatProperties, InConcat DEF Strings

LEMMA StringsAssociate ==
  ASSUME NEW s \in Strings, NEW t \in Strings, NEW u \in Strings
  PROVE  (s \o t) \o u = s \o (t \o u)
BY ConcatAssociative DEF Strings

LEMMA AreCharacters ==
  /\ Space \in Characters /\ Comma \in Characters /\ ":" \in Characters /\ "@" \in Characters
  /\ "!" \in Characters /\ "tag" \in Characters
BY DEF Characters

LEMMA Distinct ==
  /\ Space # Comma /\ Space # ":" /\ Space # "@" /\ Space # "!" /\ Space # "/" /\ Space # NoWord
  /\ Comma # ":"
BY DEF Space, Comma, NoWord

-----------------------------------------------------------------------------
(* The loop that takes parameters. *)

State(params, left) == [params |-> params, left |-> left]

(* The parameter that is made of a list. *)
ArgOf(param) == IF Len(param) = 1 THEN Text(param[1]) ELSE List(param)

LEMMA TakeNothing ==
  ASSUME NEW params, NEW x
  PROVE  TakeParam(State(params, <<>>), x) = State(params, <<>>)
BY DEF TakeParam, State

LEMMA TakeMarked ==
  ASSUME NEW params, NEW x, NEW s \in Strings
  PROVE  TakeParam(State(params, <<":">> \o s), x) = State(Append(params, Text(s)), <<>>)
<1> DEFINE left == <<":">> \o s
           param == Before(left, Space)
<1>1. left \in Strings /\ left # <<>> /\ left[1] = ":" /\ Tail(left) = s
  BY AreCharacters, TailOfOne DEF Strings
<1>2. ":" # Space
  BY Distinct
<1> HIDE DEF left
<1>3. param # <<>> /\ param[1] = ":"
  BY <1>1, <1>2, BeforeLacks DEF Strings
<1>4. StartsWith(param, ":")
  BY <1>3 DEF StartsWith
<1> HIDE DEF param
<1>5. TakeParam(State(params, left), x) = State(Append(params, Text(Tail(left))), <<>>)
  BY <1>1, <1>4 DEF TakeParam, State, param
<1> QED BY <1>1, <1>5 DEF left

LEMMA TakeMiddle ==
  ASSUME NEW params, NEW x, NEW param \in Strings, NEW rest \in Strings,
         param # <<>>, param[1] # ":", Space \notin ToSet(param), rest # <<>> => rest[1] = Space
  PROVE  TakeParam(State(params, param \o rest), x)
           = State(Append(params, IF Has(param, Comma) THEN List(NonEmpty(SplitAll(param, Comma)))
                                  ELSE Text(param)),
                   TrimSpaces(rest))
<1> DEFINE left == param \o rest
           arg == IF Has(param, Comma) THEN List(NonEmpty(SplitAll(param, Comma))) ELSE Text(param)
<1>1. Before(left, Space) = param
  BY AreCharacters, BeforeNext DEF Strings
<1>2. SubSeq(left, Len(param) + 1, Len(left)) = rest
  BY ConcatParts DEF Strings
<1>3. left # <<>>
  BY FirstOfConcat DEF Strings
<1>4. ~StartsWith(param, ":")
  BY DEF StartsWith
<1> HIDE DEF left
<1> DEFINE Taken(p, after) == [params |-> Append(params, p), left |-> after]
<1>5. TakeParam(State(params, left), x)
        = IF Has(param, Comma) THEN Taken(List(NonEmpty(SplitAll(param, Comma))), TrimSpaces(rest))
          ELSE Taken(Text(param), TrimSpaces(rest))
  BY <1>1, <1>2, <1>3, <1>4 DEF TakeParam, State
<1>6. CASE Has(param, Comma)
  BY <1>5, <1>6 DEF State, left
<1>7. CASE ~Has(param, Comma)
  BY <1>5, <1>7 DEF State, left
<1> QED BY <1>6, <1>7

-----------------------------------------------------------------------------
(* What is spelled. *)

LEMMA SpacesAre ==
  ASSUME NEW n \in Nat
  PROVE  /\ Spaces(n) \in Strings /\ Len(Spaces(n)) = n /\ Blank(Spaces(n))
         /\ n = 0 => Spaces(n) = <<>>
         /\ n # 0 => Spaces(n) # <<>> /\ Spaces(n)[1] = Space
<1> DEFINE s == Spaces(n)
<1>1. s \in [1 .. n -> Characters] /\ \A i \in 1 .. n : s[i] = Space
  BY AreCharacters DEF Spaces
<1> HIDE DEF s
<1>2. s \in Strings /\ Len(s) = n
  BY <1>1, SeqDef DEF Strings
<1>3. Blank(s)
  BY <1>1, <1>2 DEF Blank
<1>4. n = 0 => s = <<>>
  BY <1>2, EmptySeq DEF Strings
<1>5. n # 0 => s # <<>> /\ s[1] = Space
  BY <1>1, <1>2, EmptySeq DEF Strings
<1> QED BY <1>2, <1>3, <1>4, <1>5 DEF s

Body(m, sp, i) ==
  (IF sp.mark /\ i = Len(m.params) THEN <<":">> ELSE <<>>) \o Joined(m.params[i], Comma)
SpelledParams(m, sp) == [i \in DOMAIN m.params |-> SpellParam(m, sp, i)]
Rest(m, sp, k) ==
  FlattenSeq(SubSeq(SpelledParams(m, sp), k + 1, Len(m.params))) \o Spaces(sp.after)

LEMMA SpellingHas ==
  ASSUME NEW sp \in Spellings
  PROVE  /\ sp.before \in Nat /\ sp.gap \in Nat /\ sp.gap >= 1 /\ sp.after \in Nat
         /\ sp.mark \in BOOLEAN
BY DEF Spellings

LEMMA ParamOf ==
  ASSUME NEW m, IsMessage(m), NEW i \in 1 .. Len(m.params)
  PROVE  /\ Len(m.params) \in Nat
         /\ m.params[i] \in Seq(Strings) /\ m.params[i] # <<>>
         /\ Len(m.params[i]) \in Nat /\ Len(m.params[i]) >= 1
         /\ \A j \in 1 .. Len(m.params[i]) : m.params[i][j] \in Strings
<1>1. m.params \in Seq(Lists)
  BY DEF IsMessage
<1> HIDE DEF Lists
<1>2. m.params[i] \in Lists
  BY <1>1, ElementOfSeq
<1>3. m.params[i] \in Seq(Strings) /\ m.params[i] # <<>>
  BY <1>2 DEF Lists
<1>4. Len(m.params[i]) \in Nat /\ Len(m.params[i]) # 0
  BY <1>3, EmptySeq, LenProperties
<1>5. \A j \in 1 .. Len(m.params[i]) : m.params[i][j] \in Strings
  BY <1>3, ElementOfSeq
<1> QED BY <1>1, <1>3, <1>4, <1>5, LenProperties

LEMMA BodyOf ==
  ASSUME NEW m, IsMessage(m), NEW sp \in Spellings, NEW i \in 1 .. Len(m.params)
  PROVE  Body(m, sp, i) \in Strings /\ SpellParam(m, sp, i) = Spaces(sp.gap) \o Body(m, sp, i)
<1> DEFINE mark == IF sp.mark /\ i = Len(m.params) THEN <<":">> ELSE <<>>
           j == Joined(m.params[i], Comma)
<1>1. mark \in Strings
  <2>1. <<":">> \in Strings /\ <<>> \in Strings
    BY AreCharacters, EmptySeq DEF Strings
  <2> QED BY <2>1
<1>2. j \in Strings
  BY ParamOf, AreCharacters, JoinedType DEF Strings
<1>3. Spaces(sp.gap) \in Strings
  BY SpellingHas, SpacesAre
<1>4. SpellParam(m, sp, i) = (Spaces(sp.gap) \o mark) \o j /\ Body(m, sp, i) = mark \o j
  BY DEF SpellParam, Body
<1> HIDE DEF mark, j
<1>5. (Spaces(sp.gap) \o mark) \o j = Spaces(sp.gap) \o (mark \o j)
  BY <1>1, <1>2, <1>3, ConcatAssociative DEF Strings
<1>6. mark \o j \in Strings
  BY <1>1, <1>2, ConcatProperties DEF Strings
<1> QED BY <1>4, <1>5, <1>6

(* An unmarked list has no space, and starts with its first item.          *)
LEMMA MiddleBody ==
  ASSUME NEW m, IsMessage(m), NEW sp \in Spellings, NEW i \in 1 .. Len(m.params),
         IsMiddle(m.params[i]), ~(sp.mark /\ i = Len(m.params))
  PROVE  LET body == Body(m, sp, i)
         IN  /\ body = Joined(m.params[i], Comma)
             /\ body # <<>> /\ body[1] # ":" /\ body[1] # Space /\ Space \notin ToSet(body)
             /\ Has(body, Comma) <=> Len(m.params[i]) # 1
             /\ Has(body, Comma) => NonEmpty(SplitAll(body, Comma)) = m.params[i]
             /\ ~Has(body, Comma) => body = m.params[i][1]
<1> DEFINE p == m.params[i]
           j == Joined(p, Comma)
<1>1. /\ p \in Seq(Strings) /\ p # <<>> /\ Len(p) \in Nat /\ Len(p) >= 1
      /\ \A k \in 1 .. Len(p) : p[k] \in Strings
  BY ParamOf
<1>2. \A k \in 1 .. Len(p) : p[k] # <<>> /\ Space \notin ToSet(p[k]) /\ Comma \notin ToSet(p[k]) /\ p[k][1] # ":"
  BY <1>1, LenProperties DEF IsMiddle
<1>3. j \in Strings /\ Body(m, sp, i) = j
  <2>1. j \in Strings
    BY <1>1, AreCharacters, JoinedType DEF Strings
  <2>2. Body(m, sp, i) = <<>> \o j
    BY DEF Body
  <2> QED BY <2>1, <2>2, ConcatEmptySeq DEF Strings
<1> HIDE DEF p
<1>4. j # <<>> /\ j[1] = p[1][1]
  <2>1. 1 \in 1 .. Len(p)
    BY <1>1
  <2>2. p[1] # <<>>
    BY <1>2, <2>1
  <2> QED BY <1>1, <2>2, AreCharacters, JoinedFirst DEF Strings
<1>5. Space \notin ToSet(j)
  <2> DEFINE C == Characters \ {Space}
  <2>1. Comma \in C
    BY AreCharacters, Distinct
  <2>2. \A k \in 1 .. Len(p) : p[k] \in Seq(C)
    <3>1. ASSUME NEW k \in 1 .. Len(p) PROVE p[k] \in Seq(C)
      <4>1. p[k] \in Seq(Characters) /\ ToSet(p[k]) \cap {Space} = {}
        BY <1>1, <1>2 DEF Strings
      <4> QED BY <4>1, WithoutChars
    <3> QED BY <3>1
  <2> HIDE DEF C
  <2>3. p \in Seq(Seq(C))
    BY <1>1, <2>2, SeqOver
  <2>4. j \in Seq(C)
    BY <2>1, <2>3, JoinedType
  <2>5. ToSet(j) \subseteq C
    BY <2>4, InText
  <2> QED BY <2>5 DEF C
<1>6. j[1] # Space
  <2>1. Len(j) \in Nat /\ Len(j) # 0
    BY <1>3, <1>4, EmptySeq, LenProperties DEF Strings
  <2>2. 1 \in 1 .. Len(j)
    BY <2>1
  <2>3. j[1] \in ToSet(j)
    BY <1>3, <2>2, InText DEF Strings
  <2> QED BY <1>5, <2>3
<1>7. j[1] # ":"
  BY <1>1, <1>2, <1>4
<1>8. Has(j, Comma) <=> Len(p) # 1
  BY <1>1, <1>2, AreCharacters, JoinedHas DEF Strings
<1>9. NonEmpty(SplitAll(j, Comma)) = p
  <2>1. SplitAll(j, Comma) = p
    BY <1>1, <1>2, AreCharacters, SplitJoined DEF Strings
  <2>2. NonEmpty(p) = p
    BY <1>1, <1>2, AllKept
  <2> QED BY <2>1, <2>2
<1>10. Len(p) = 1 => j = p[1]
  <2>1. ASSUME Len(p) = 1 PROVE j = p[1]
    <3>1. p = <<p[1]>> /\ p[1] \in Strings
      BY <1>1, <2>1, OneOrMore
    <3>2. Joined(<<p[1]>>, Comma) = p[1]
      BY <3>1, AreCharacters, JoinedOne DEF Strings
    <3> QED BY <3>1, <3>2
  <2> QED BY <2>1
<1> HIDE DEF j
<1> QED BY <1>3, <1>4, <1>5, <1>6, <1>7, <1>8, <1>9, <1>10 DEF p, j

LEMMA RestSteps ==
  ASSUME NEW m, IsMessage(m), NEW sp \in Spellings
  PROVE  /\ Rest(m, sp, Len(m.params)) = Spaces(sp.after)
         /\ Rest(m, sp, 0)
              = FlattenSeq([i \in DOMAIN m.params |-> SpellParam(m, sp, i)]) \o Spaces(sp.after)
         /\ FlattenSeq([i \in DOMAIN m.params |-> SpellParam(m, sp, i)]) \in Strings
         /\ \A k \in 0 .. Len(m.params) : Rest(m, sp, k) \in Strings
         /\ \A k \in 0 .. Len(m.params) - 1 :
              Rest(m, sp, k) = SpellParam(m, sp, k + 1) \o Rest(m, sp, k + 1)
<1> DEFINE P == SpelledParams(m, sp)
           n == Len(m.params)
           F(k) == FlattenSeq(SubSeq(P, k + 1, n))
           after == Spaces(sp.after)
<1>0. after \in Strings
  BY SpellingHas, SpacesAre
<1>1. n \in Nat /\ DOMAIN m.params = 1 .. n
  BY LenProperties DEF IsMessage
<1>2. \A i \in 1 .. n : P[i] = SpellParam(m, sp, i)
  BY <1>1 DEF SpelledParams
<1>3. \A i \in 1 .. n : SpellParam(m, sp, i) \in Strings
  <2>1. ASSUME NEW i \in 1 .. n PROVE SpellParam(m, sp, i) \in Strings
    <3>1. Body(m, sp, i) \in Strings /\ SpellParam(m, sp, i) = Spaces(sp.gap) \o Body(m, sp, i)
      BY BodyOf
    <3>2. Spaces(sp.gap) \in Strings
      BY SpellingHas, SpacesAre
    <3> QED BY <3>1, <3>2, ConcatProperties DEF Strings
  <2> QED BY <2>1
<1>4. P \in Seq(Strings) /\ Len(P) = n
  <2>1. P \in [1 .. n -> Strings]
    BY <1>1, <1>3 DEF SpelledParams
  <2> HIDE DEF P
  <2> QED BY <1>1, <2>1, SeqDef
<1>9. P = [i \in DOMAIN m.params |-> SpellParam(m, sp, i)]
  BY DEF SpelledParams
<1> HIDE DEF P
<1>5. ASSUME NEW k \in 0 .. n PROVE SubSeq(P, k + 1, n) \in Seq(Strings)
  <2>1. k + 1 \in Int /\ n \in Int /\ \A i \in k + 1 .. n : i \in 1 .. Len(P)
    BY <1>1, <1>4
  <2>2. \A i \in k + 1 .. n : P[i] \in Strings
    BY <1>4, <2>1, ElementOfSeq
  <2> QED BY <2>1, <2>2, SubSeqProperties
<1>6. ASSUME NEW k \in 0 .. n PROVE F(k) \in Strings /\ Rest(m, sp, k) \in Strings /\ Rest(m, sp, k) = F(k) \o after
  <2>1. F(k) \in Strings
    BY <1>5, FlattenType DEF Strings
  <2>2. Rest(m, sp, k) = F(k) \o after
    BY DEF Rest, P
  <2> HIDE DEF F, after
  <2> QED BY <1>0, <2>1, <2>2, ConcatProperties DEF Strings
<1>7. F(n) = <<>>
  <2>1. SubSeq(P, n + 1, n) = <<>>
    BY <1>1, SubSeqEmpty
  <2> QED BY <2>1, FlattenEmpty
<1>8. ASSUME NEW k \in 0 .. n - 1 PROVE F(k) = P[k + 1] \o F(k + 1) /\ P[k + 1] \in Strings
  <2>1. k + 1 \in 1 .. Len(P) /\ n \in k + 1 .. Len(P) /\ k + 1 \in 0 .. n
    BY <1>1, <1>4
  <2>2. SubSeq(P, k + 1, n) = <<P[k + 1]>> \o SubSeq(P, (k + 1) + 1, n)
    BY <1>4, <2>1, SubSeqRecursiveFirst
  <2>3. P[k + 1] \in Strings /\ SubSeq(P, (k + 1) + 1, n) \in Seq(Strings)
    BY <1>4, <1>5, <2>1, ElementOfSeq
  <2>4. FlattenSeq(<<P[k + 1]>> \o SubSeq(P, (k + 1) + 1, n)) = P[k + 1] \o FlattenSeq(SubSeq(P, (k + 1) + 1, n))
    BY <2>3, FlattenFirst DEF Strings
  <2> QED BY <2>2, <2>3, <2>4
<1>10. Rest(m, sp, n) = after
  <2>1. n \in 0 .. n
    BY <1>1
  <2>2. Rest(m, sp, n) = <<>> \o after
    BY <1>6, <1>7, <2>1
  <2> HIDE DEF after
  <2> QED BY <1>0, <2>2, ConcatEmptySeq DEF Strings
<1>11. Rest(m, sp, 0) = FlattenSeq(P) \o after
  <2>1. SubSeq(P, 0 + 1, n) = P
    BY <1>4, SubSeqFull
  <2>2. 0 \in 0 .. n
    BY <1>1
  <2>3. Rest(m, sp, 0) = F(0) \o after
    BY <1>6, <2>2
  <2> QED BY <2>1, <2>3
<1>13. FlattenSeq(P) \in Strings
  BY <1>4, FlattenType DEF Strings
<1>12. ASSUME NEW k \in 0 .. n - 1 PROVE Rest(m, sp, k) = SpellParam(m, sp, k + 1) \o Rest(m, sp, k + 1)
  <2>1. k + 1 \in 1 .. n /\ k + 1 \in 0 .. n /\ k \in 0 .. n
    BY <1>1
  <2>2. Rest(m, sp, k) = F(k) \o after /\ Rest(m, sp, k + 1) = F(k + 1) \o after /\ F(k + 1) \in Strings
    BY <1>6, <2>1
  <2>3. F(k) = P[k + 1] \o F(k + 1) /\ P[k + 1] \in Strings
    BY <1>8
  <2>4. P[k + 1] = SpellParam(m, sp, k + 1)
    BY <1>2, <2>1
  <2> HIDE DEF F, after
  <2>5. (P[k + 1] \o F(k + 1)) \o after = P[k + 1] \o (F(k + 1) \o after)
    <3>1. PICK a \in Strings, b \in Strings : a = P[k + 1] /\ b = F(k + 1)
      BY <2>2, <2>3
    <3>2. (a \o b) \o after = a \o (b \o after)
      BY <1>0, StringsAssociate
    <3> QED BY <3>1, <3>2
  <2> QED BY <2>2, <2>3, <2>4, <2>5
<1> QED BY <1>6, <1>9, <1>10, <1>11, <1>12, <1>13

(* Nothing or a space follows a parameter, and each is at least a space    *)
(* and a character long.                                                   *)
LEMMA BodyFirst ==
  ASSUME NEW m, IsMessage(m), NEW sp \in Spellings, CanSpell(m, sp), NEW i \in 1 .. Len(m.params)
  PROVE  /\ Body(m, sp, i) # <<>> /\ Body(m, sp, i)[1] # Space
         /\ sp.mark /\ i = Len(m.params) =>
              /\ Len(m.params[i]) = 1 /\ sp.after = 0
              /\ Body(m, sp, i) = <<":">> \o m.params[i][1]
         /\ ~(sp.mark /\ i = Len(m.params)) => IsMiddle(m.params[i])
<1>0. Len(m.params) \in Nat
  BY ParamOf
<1>1. CASE sp.mark /\ i = Len(m.params)
  <2>1. Len(m.params[i]) = 1 /\ sp.after = 0
    BY <1>1 DEF CanSpell
  <2>2. m.params[i] = <<m.params[i][1]>> /\ m.params[i][1] \in Strings
    <3>1. m.params[i] \in Seq(Strings) /\ m.params[i] # <<>>
      BY ParamOf
    <3> QED BY <2>1, <3>1, OneOrMore
  <2> DEFINE s == m.params[i][1]
  <2>3. Joined(<<s>>, Comma) = s
    BY <2>2, AreCharacters, JoinedOne DEF Strings
  <2>4. Body(m, sp, i) = <<":">> \o s
    BY <1>1, <2>2, <2>3 DEF Body
  <2>5. <<":">> \o s # <<>> /\ (<<":">> \o s)[1] = ":"
    BY <2>2, AreCharacters, TailOfOne DEF Strings
  <2> QED BY <1>1, <2>1, <2>4, <2>5, Distinct
<1>2. CASE ~(sp.mark /\ i = Len(m.params))
  <2>1. i \in 1 .. Len(m.params) - (IF sp.mark THEN 1 ELSE 0)
    BY <1>0, <1>2
  <2>2. IsMiddle(m.params[i])
    BY <2>1 DEF CanSpell
  <2> QED BY <1>2, <2>2, MiddleBody
<1> QED BY <1>1, <1>2

LEMMA RestFirst ==
  ASSUME NEW m, IsMessage(m), NEW sp \in Spellings, NEW k \in 0 .. Len(m.params)
  PROVE  Rest(m, sp, k) # <<>> => Rest(m, sp, k)[1] = Space
<1> DEFINE n == Len(m.params)
<1>0. n \in Nat
  BY LenProperties DEF IsMessage
<1>1. CASE k = n
  <2>1. Rest(m, sp, k) = Spaces(sp.after)
    BY <1>1, RestSteps
  <2> QED BY <2>1, SpellingHas, SpacesAre
<1>2. CASE k # n
  <2>1. k \in 0 .. n - 1 /\ k + 1 \in 1 .. n /\ k + 1 \in 0 .. n
    BY <1>0, <1>2
  <2> DEFINE gap == Spaces(sp.gap)
             body == Body(m, sp, k + 1)
             rest == Rest(m, sp, k + 1)
  <2>2. Rest(m, sp, k) = SpellParam(m, sp, k + 1) \o rest /\ rest \in Strings
    BY <2>1, RestSteps
  <2>3. body \in Strings /\ SpellParam(m, sp, k + 1) = gap \o body
    BY <2>1, BodyOf
  <2>4. gap \in Strings /\ gap # <<>> /\ gap[1] = Space
    BY SpellingHas, SpacesAre
  <2> HIDE DEF gap, body, rest
  <2>5. gap \o body # <<>> /\ (gap \o body)[1] = Space /\ gap \o body \in Strings
    BY <2>3, <2>4, FirstOfConcat, ConcatProperties DEF Strings
  <2>6. (gap \o body) \o rest # <<>> /\ ((gap \o body) \o rest)[1] = Space
    BY <2>2, <2>5, FirstOfConcat DEF Strings
  <2> QED BY <2>2, <2>3, <2>6
<1> QED BY <1>1, <1>2

LEMMA RestLength ==
  ASSUME NEW m, IsMessage(m), NEW sp \in Spellings, CanSpell(m, sp)
  PROVE  Len(Rest(m, sp, 0)) >= 2 * Len(m.params)
<1> DEFINE n == Len(m.params)
           T == {j \in Nat : j <= n => Len(Rest(m, sp, n - j)) >= 2 * j}
<1>0. n \in Nat
  BY LenProperties DEF IsMessage
<1>1. 0 \in T
  <2>1. Rest(m, sp, n) \in Strings /\ n - 0 = n
    <3>1. n \in 0 .. n /\ n - 0 = n
      BY <1>0
    <3> QED BY <3>1, RestSteps
  <2>2. Len(Rest(m, sp, n)) \in Nat
    BY <2>1, LenProperties DEF Strings
  <2> QED BY <2>1, <2>2
<1>2. ASSUME NEW j \in T PROVE j + 1 \in T
  <2> SUFFICES ASSUME j + 1 <= n PROVE Len(Rest(m, sp, n - (j + 1))) >= 2 * (j + 1)
    BY <1>0
  <2> DEFINE k == n - (j + 1)
             gap == Spaces(sp.gap)
             body == Body(m, sp, k + 1)
             rest == Rest(m, sp, k + 1)
  <2>1. k \in 0 .. n - 1 /\ k + 1 \in 1 .. n /\ k + 1 \in 0 .. n /\ k + 1 = n - j /\ j \in Nat
    BY <1>0
  <2>2. Rest(m, sp, k) = SpellParam(m, sp, k + 1) \o rest /\ rest \in Strings
    BY <2>1, RestSteps
  <2>3. body \in Strings /\ SpellParam(m, sp, k + 1) = gap \o body
    BY <2>1, BodyOf
  <2>4. body # <<>>
    BY <2>1, BodyFirst
  <2>5. gap \in Strings /\ Len(gap) >= 1 /\ Len(gap) \in Nat
    BY SpellingHas, SpacesAre
  <2>6. Len(rest) >= 2 * j /\ Len(rest) \in Nat
    BY <2>1, <2>2, LenProperties DEF Strings
  <2> HIDE DEF gap, body, rest, k
  <2>7. Len(body) \in Nat /\ Len(body) >= 1
    BY <2>3, <2>4, EmptySeq, LenProperties DEF Strings
  <2>8. gap \o body \in Strings /\ Len(gap \o body) = Len(gap) + Len(body)
    BY <2>3, <2>5, ConcatProperties DEF Strings
  <2>9. Len((gap \o body) \o rest) = Len(gap \o body) + Len(rest)
    BY <2>2, <2>8, ConcatProperties DEF Strings
  <2>10. Len(Rest(m, sp, k)) >= 2 * (j + 1)
    BY <2>1, <2>2, <2>3, <2>5, <2>6, <2>7, <2>8, <2>9
  <2> QED BY <2>10 DEF k
<1> HIDE DEF T
<1>3. T = Nat
  <2>1. T \subseteq Nat
    BY DEF T
  <2> QED BY <1>1, <1>2, <2>1, NatSetInduction
<1>4. n \in T /\ n - n = 0 /\ n <= n
  BY <1>0, <1>3
<1> QED BY <1>4 DEF T

-----------------------------------------------------------------------------
(* Parameters are parsed to what they are, however they are spelled. *)

Args(m) == [i \in DOMAIN m.params |-> ArgOf(m.params[i])]

LEMMA Turn ==
  ASSUME NEW m, IsMessage(m), NEW sp \in Spellings, CanSpell(m, sp),
         NEW k \in 0 .. Len(m.params) - 1, NEW params, NEW x
  PROVE  TakeParam(State(params, TrimSpaces(Rest(m, sp, k))), x)
           = State(Append(params, ArgOf(m.params[k + 1])), TrimSpaces(Rest(m, sp, k + 1)))
<1> DEFINE n == Len(m.params)
           i == k + 1
           p == m.params[i]
           gap == Spaces(sp.gap)
           body == Body(m, sp, i)
           rest == Rest(m, sp, i)
<1>0. n \in Nat
  BY LenProperties DEF IsMessage
<1>1. i \in 1 .. n /\ i \in 0 .. n
  BY <1>0
<1>2. Rest(m, sp, k) = SpellParam(m, sp, i) \o rest /\ rest \in Strings
  BY RestSteps, <1>1
<1>3. body \in Strings /\ SpellParam(m, sp, i) = gap \o body
  BY <1>1, BodyOf
<1>4. /\ body # <<>> /\ body[1] # Space
      /\ sp.mark /\ i = n => Len(p) = 1 /\ sp.after = 0 /\ body = <<":">> \o p[1]
      /\ ~(sp.mark /\ i = n) => IsMiddle(p)
  BY <1>1, BodyFirst
<1>5. gap \in Strings /\ Blank(gap)
  BY SpellingHas, SpacesAre
<1>6. rest # <<>> => rest[1] = Space
  BY <1>1, RestFirst
<1>7. p \in Seq(Strings) /\ Len(p) \in Nat /\ Len(p) >= 1 /\ (\A j \in 1 .. Len(p) : p[j] \in Strings)
  BY <1>1, ParamOf
<1>8. ~(sp.mark /\ i = n) =>
        /\ body[1] # ":" /\ Space \notin ToSet(body)
        /\ Has(body, Comma) <=> Len(p) # 1
        /\ Has(body, Comma) => NonEmpty(SplitAll(body, Comma)) = p
        /\ ~Has(body, Comma) => body = p[1]
  BY <1>1, <1>4, MiddleBody
<1>9. sp.mark /\ i = n => rest = <<>>
  <2>1. ASSUME sp.mark, i = n PROVE rest = <<>>
    <3>1. sp.after = 0 /\ rest = Rest(m, sp, n)
      BY <1>4, <2>1
    <3>2. Rest(m, sp, n) = Spaces(sp.after)
      BY RestSteps
    <3> QED BY <3>1, <3>2, SpacesAre
  <2> QED BY <2>1
<1> HIDE DEF gap, body, rest, i, p, n
<1>10. TrimSpaces(Rest(m, sp, k)) = body \o rest
  <2>1. Rest(m, sp, k) = gap \o (body \o rest)
    <3>1. (gap \o body) \o rest = gap \o (body \o rest)
      BY <1>2, <1>3, <1>5, StringsAssociate
    <3> QED BY <1>2, <1>3, <3>1
  <2>2. body \o rest \in Strings /\ (body \o rest)[1] # Space
    BY <1>2, <1>3, <1>4, FirstOfConcat, ConcatProperties DEF Strings
  <2> QED BY <1>5, <2>1, <2>2, TrimTo DEF Strings
<1>11. CASE sp.mark /\ i = n
  <2>1. p[1] \in Strings
    BY <1>7
  <2>2. body \o rest = <<":">> \o p[1]
    BY <1>3, <1>4, <1>9, <1>11, ConcatEmptySeq DEF Strings
  <2>3. TakeParam(State(params, <<":">> \o p[1]), x) = State(Append(params, Text(p[1])), <<>>)
    BY <2>1, TakeMarked
  <2>4. TrimSpaces(rest) = <<>>
    BY <1>9, <1>11, TrimEmpty
  <2>5. ArgOf(p) = Text(p[1])
    BY <1>4, <1>11 DEF ArgOf
  <2> QED BY <1>10, <2>2, <2>3, <2>4, <2>5 DEF p, rest, i
<1>12. CASE ~(sp.mark /\ i = n)
  <2>1. TakeParam(State(params, body \o rest), x)
          = State(Append(params, IF Has(body, Comma) THEN List(NonEmpty(SplitAll(body, Comma)))
                                 ELSE Text(body)),
                  TrimSpaces(rest))
    BY <1>2, <1>3, <1>4, <1>6, <1>8, <1>12, TakeMiddle
  <2>2. ArgOf(p) = IF Has(body, Comma) THEN List(NonEmpty(SplitAll(body, Comma))) ELSE Text(body)
    BY <1>8, <1>12 DEF ArgOf
  <2> QED BY <1>10, <2>1, <2>2 DEF p, rest, i
<1> QED BY <1>11, <1>12

LEMMA ParamsParsed ==
  ASSUME NEW m, IsMessage(m), NEW sp \in Spellings, CanSpell(m, sp), NEW s \in Strings,
         Len(s) >= Len(m.params), TrimSpaces(s) = TrimSpaces(Rest(m, sp, 0))
  PROVE  ParseParams(s) = Args(m)
<1> DEFINE n == Len(m.params)
           A == Args(m)
           At(k) == State(SubSeq(A, 1, k), TrimSpaces(Rest(m, sp, k)))
           Turns(t) == IF Len(t) < n THEN Len(t) ELSE n
           F(t) == ParamFold!Fold(State(<<>>, TrimSpaces(s)), t)
           T == {t \in Strings : F(t) = At(Turns(t))}
<1>0. n \in Nat /\ DOMAIN m.params = 1 .. n
  BY LenProperties DEF IsMessage
<1>1. A \in Seq({ArgOf(p) : p \in Lists}) /\ Len(A) = n /\ \A i \in 1 .. n : A[i] = ArgOf(m.params[i])
  <2> DEFINE R == {ArgOf(p) : p \in Lists}
  <2>1. \A i \in 1 .. n : m.params[i] \in Lists
    BY ElementOfSeq DEF IsMessage
  <2>2. A = [i \in 1 .. n |-> ArgOf(m.params[i])]
    BY <1>0 DEF Args
  <2>3. \A i \in 1 .. n : ArgOf(m.params[i]) \in R
    BY <2>1
  <2> HIDE DEF A, R
  <2>4. A \in [1 .. n -> R]
    BY <2>2, <2>3
  <2>5. A \in Seq(R) /\ Len(A) = n
    BY <1>0, <2>4, SeqDef
  <2> QED BY <2>2, <2>5 DEF R
<1> HIDE DEF A
<1>2. At(0) = State(<<>>, TrimSpaces(s))
  <2>1. SubSeq(A, 1, 0) = <<>>
    BY SubSeqEmpty
  <2> QED BY <2>1
<1>3. ASSUME NEW k \in 0 .. n - 1, NEW x PROVE TakeParam(At(k), x) = At(k + 1)
  <2>1. TakeParam(At(k), x) = State(Append(SubSeq(A, 1, k), ArgOf(m.params[k + 1])), TrimSpaces(Rest(m, sp, k + 1)))
    BY Turn
  <2>2. k + 1 \in 1 .. n /\ (k + 1) - 1 = k /\ 1 \in 1 .. Len(A) /\ k + 1 \in 1 .. Len(A)
    BY <1>0, <1>1
  <2>3. SubSeq(A, 1, k + 1) = SubSeq(A, 1, k) \o <<A[k + 1]>>
    BY <1>1, <2>2, SubSeqRecursiveSecond
  <2>4. Append(SubSeq(A, 1, k), A[k + 1]) = SubSeq(A, 1, k) \o <<A[k + 1]>>
    <3>1. A[k + 1] \in {ArgOf(p) : p \in Lists}
      BY <1>1, <2>2, ElementOfSeq
    <3>2. SubSeq(A, 1, k) \in Seq({ArgOf(p) : p \in Lists})
      <4>1. \A i \in 1 .. k : i \in 1 .. Len(A)
        BY <1>0, <1>1
      <4>2. \A i \in 1 .. k : A[i] \in {ArgOf(p) : p \in Lists}
        BY <1>1, <4>1, ElementOfSeq
      <4>3. 1 \in Int /\ k \in Int
        BY <1>0
      <4> QED BY <4>2, <4>3, SubSeqProperties
    <3> QED BY <3>1, <3>2, AppendIsConcat
  <2>5. A[k + 1] = ArgOf(m.params[k + 1])
    BY <1>1, <2>2
  <2> QED BY <2>1, <2>3, <2>4, <2>5
<1>4. ASSUME NEW x PROVE TakeParam(At(n), x) = At(n)
  <2>1. TrimSpaces(Rest(m, sp, n)) = <<>>
    <3> DEFINE after == Spaces(sp.after)
    <3>1. Rest(m, sp, n) = after
      BY RestSteps
    <3>2. after \in Strings /\ Blank(after) /\ <<>> \in Strings
      BY SpellingHas, SpacesAre, EmptySeq DEF Strings
    <3> HIDE DEF after
    <3>3. TrimSpaces(after \o <<>>) = <<>> /\ after \o <<>> = after
      BY <3>2, TrimTo, ConcatEmptySeq DEF Strings
    <3> QED BY <3>1, <3>3
  <2> QED BY <2>1, TakeNothing
<1> HIDE DEF At
<1>5. <<>> \in T
  <2>1. F(<<>>) = State(<<>>, TrimSpaces(s))
    BY ParamFold!FoldEmpty
  <2>2. <<>> \in Strings /\ Len(<<>>) = 0
    BY EmptySeq DEF Strings
  <2>3. Turns(<<>>) = 0
    BY <1>0, <2>2
  <2> HIDE DEF F, Turns
  <2> QED BY <1>2, <2>1, <2>2, <2>3
<1>6. ASSUME NEW t \in Strings, t \in T, NEW e \in Characters PROVE Append(t, e) \in T
  <2> DEFINE a == Append(t, e)
  <2>1. a \in Strings /\ Len(a) = Len(t) + 1 /\ Len(t) \in Nat
    BY AppendProperties, LenProperties DEF Strings
  <2>2. F(a) = TakeParam(F(t), e)
    BY ParamFold!FoldAppend DEF Strings
  <2>3. F(t) = At(Turns(t))
    BY <1>6
  <2> HIDE DEF F, a
  <2>4. CASE Len(t) < n
    <3>1. Turns(t) = Len(t) /\ Len(t) \in 0 .. n - 1
      BY <1>0, <2>1, <2>4
    <3>2. Turns(a) = Len(t) + 1
      BY <1>0, <2>1, <2>4
    <3> HIDE DEF Turns
    <3>3. F(a) = At(Turns(a))
      BY <1>3, <2>2, <2>3, <3>1, <3>2
    <3> QED BY <2>1, <3>3 DEF a
  <2>5. CASE ~(Len(t) < n)
    <3>1. Turns(t) = n
      BY <2>5
    <3>2. Turns(a) = n
      BY <1>0, <2>1, <2>5
    <3> HIDE DEF Turns
    <3>3. F(a) = At(Turns(a))
      BY <1>4, <2>2, <2>3, <3>1, <3>2
    <3> QED BY <2>1, <3>3 DEF a
  <2> QED BY <2>4, <2>5
<1>7. F(s) = At(n)
  <2> HIDE DEF T
  <2>1. Strings \subseteq T
    BY <1>5, <1>6, SeqSetInduction DEF Strings
  <2>2. F(s) = At(Turns(s))
    BY <2>1 DEF T
  <2>3. Len(s) \in Nat
    BY LenProperties DEF Strings
  <2>4. Turns(s) = n
    BY <1>0, <2>3
  <2> HIDE DEF Turns
  <2> QED BY <2>2, <2>4
<1>8. ParseParams(s) = F(s).params
  BY DEF ParseParams, State, FoldLeft, MapThenFoldSet, Max, ParamFold!Fold,
         ParamFold!MapThenFoldSet, ParamFold!Largest
<1> HIDE DEF F
<1>9. At(n).params = A
  <2>1. SubSeq(A, 1, n) = A
    BY <1>1, SubSeqFull
  <2> QED BY <2>1 DEF At, State
<1> QED BY <1>7, <1>8, <1>9 DEF A

-----------------------------------------------------------------------------
(* Whatever the text is, its first parameter is a list, can be written     *)
(* without a colon, or is all there is.                                    *)

LEMMA OneMiddle ==
  ASSUME NEW s \in Strings, s # <<>>, s[1] # ":", Space \notin ToSet(s), Comma \notin ToSet(s)
  PROVE  IsMiddle(<<s>>)
<1>1. DOMAIN <<s>> = {1} /\ <<s>>[1] = s
  OBVIOUS
<1> QED BY <1>1 DEF IsMiddle

Unmarkable(p) == p.list \/ IsMiddle(<<p.items[1]>>)
Holds(d, S) ==
  \/ d.params = <<>> /\ d.left \in Strings /\ (d.left # <<>> => d.left[1] # Space)
  \/ /\ d.params \in Seq(S) /\ d.params # <<>>
     /\ Unmarkable(d.params[1]) \/ (Len(d.params) = 1 /\ d.left = <<>>)
FirstHolds(d) == \E S : Holds(d, S)

LEMMA FirstKept ==
  ASSUME NEW d, FirstHolds(d), NEW x
  PROVE  FirstHolds(TakeParam(d, x))
<1> DEFINE left == d.left
           param == Before(left, Space)
           after == TrimSpaces(SubSeq(left, Len(param) + 1, Len(left)))
           marked == StartsWith(param, ":")
           p == IF marked THEN Text(Tail(left))
                ELSE IF Has(param, Comma) THEN List(NonEmpty(SplitAll(param, Comma)))
                ELSE Text(param)
           rest == IF marked THEN <<>> ELSE after
<1>1. left = <<>> => TakeParam(d, x) = d
  BY DEF TakeParam
<1>2. left # <<>> => TakeParam(d, x) = State(Append(d.params, p), rest)
  BY DEF TakeParam, State
<1>3. ~marked /\ ~Has(param, Comma) => p = Text(param)
  OBVIOUS
<1>4. ~marked /\ Has(param, Comma) => p.list
  BY DEF List
<1>5. marked => rest = <<>>
  OBVIOUS
<1> HIDE DEF p, rest, marked
<1>6. PICK S : Holds(d, S)
  BY DEF FirstHolds
<1>7. CASE left # <<>> /\ d.params = <<>>
  <2>1. left \in Strings /\ left[1] # Space
    BY <1>6, <1>7 DEF Holds
  <2>2. param \in Strings /\ Space \notin ToSet(param) /\ param # <<>>
    BY <1>7, <2>1, BeforeLacks DEF Strings
  <2> HIDE DEF param
  <2>3. ~marked => param[1] # ":"
    BY <2>2 DEF marked, StartsWith
  <2>4. ~marked => Unmarkable(p)
    <3>1. CASE ~marked /\ ~Has(param, Comma)
      <4>1. IsMiddle(<<param>>)
        BY <2>2, <2>3, <3>1, OneMiddle DEF Has
      <4> QED BY <1>3, <3>1, <4>1 DEF Unmarkable, Text
    <3>2. CASE ~marked /\ Has(param, Comma)
      BY <1>4, <3>2 DEF Unmarkable
    <3> QED BY <3>1, <3>2
  <2> DEFINE ps == Append(d.params, p)
  <2>5. ps = <<p>>
    BY <1>7
  <2>6. ps \in Seq({p}) /\ ps # <<>> /\ ps[1] = p /\ Len(ps) = 1
    BY <2>5
  <2> HIDE DEF ps
  <2>7. State(ps, rest).params = ps /\ State(ps, rest).left = rest
    BY DEF State
  <2>8. Holds(State(ps, rest), {p})
    BY <1>5, <2>4, <2>6, <2>7 DEF Holds
  <2> QED BY <1>2, <1>7, <2>8 DEF FirstHolds, ps
<1>8. CASE left # <<>> /\ d.params # <<>>
  <2> DEFINE ps == Append(d.params, p)
             R == S \cup {p}
  <2>1. d.params \in Seq(S) /\ Unmarkable(d.params[1])
    BY <1>6, <1>8 DEF Holds
  <2>2. d.params \in Seq(R) /\ p \in R
    BY <2>1, SeqMonotonic
  <2> HIDE DEF R
  <2>3. Len(d.params) \in Nat /\ Len(d.params) > 0
    BY <1>8, <2>2, EmptySeq, LenProperties
  <2>4. ps \in Seq(R) /\ Len(ps) = Len(d.params) + 1 /\ \A i \in 1 .. Len(d.params) : ps[i] = d.params[i]
    BY <2>2, AppendProperties
  <2> HIDE DEF ps
  <2>5. ps[1] = d.params[1] /\ ps # <<>>
    BY <2>3, <2>4, EmptySeq
  <2>6. State(ps, rest).params = ps
    BY DEF State
  <2>7. Holds(State(ps, rest), R)
    BY <2>1, <2>4, <2>5, <2>6 DEF Holds
  <2> QED BY <1>2, <1>8, <2>7 DEF FirstHolds, ps
<1> QED BY <1>1, <1>7, <1>8

LEMMA FirstParam ==
  ASSUME NEW s \in Strings
  PROVE  LET args == ParseParams(s)
         IN  /\ Len(args) \in Nat /\ DOMAIN args = 1 .. Len(args)
             /\ Len(args) >= 2 => Unmarkable(args[1])
<1> DEFINE F(t) == ParamFold!Fold(State(<<>>, TrimSpaces(s)), t)
           T == {t \in Strings : FirstHolds(F(t))}
<1>1. <<>> \in T
  <2>1. F(<<>>) = State(<<>>, TrimSpaces(s))
    BY ParamFold!FoldEmpty
  <2>2. <<>> \in Strings
    BY EmptySeq DEF Strings
  <2> HIDE DEF F
  <2>3. TrimSpaces(s) \in Trims(Characters, s)
    BY TrimExists DEF Strings
  <2>4. TrimSpaces(s) \in Strings /\ (TrimSpaces(s) # <<>> => TrimSpaces(s)[1] # Space)
    BY <2>3 DEF Trims, Strings
  <2>5. State(<<>>, TrimSpaces(s)).params = <<>> /\ State(<<>>, TrimSpaces(s)).left = TrimSpaces(s)
    BY DEF State
  <2>6. Holds(State(<<>>, TrimSpaces(s)), {})
    BY <2>4, <2>5 DEF Holds
  <2> QED BY <2>1, <2>2, <2>6 DEF FirstHolds
<1>2. ASSUME NEW t \in Strings, t \in T, NEW e \in Characters PROVE Append(t, e) \in T
  <2>1. F(Append(t, e)) = TakeParam(F(t), e)
    BY ParamFold!FoldAppend DEF Strings
  <2>2. Append(t, e) \in Strings
    BY AppendProperties DEF Strings
  <2>3. FirstHolds(F(t))
    BY <1>2
  <2> HIDE DEF F
  <2>4. FirstHolds(TakeParam(F(t), e))
    BY <2>3, FirstKept
  <2> QED BY <2>1, <2>2, <2>4
<1>3. FirstHolds(F(s))
  <2> HIDE DEF T
  <2>1. Strings \subseteq T
    BY <1>1, <1>2, SeqSetInduction DEF Strings
  <2> QED BY <2>1 DEF T
<1>4. ParseParams(s) = F(s).params
  BY DEF ParseParams, State, FoldLeft, MapThenFoldSet, Max, ParamFold!Fold,
         ParamFold!MapThenFoldSet, ParamFold!Largest
<1> HIDE DEF F
<1>5. PICK S : Holds(F(s), S)
  BY <1>3 DEF FirstHolds
<1> DEFINE args == F(s).params
<1>6. Len(args) \in Nat /\ DOMAIN args = 1 .. Len(args)
  <2>1. args = <<>> \/ args \in Seq(S)
    BY <1>5 DEF Holds
  <2>2. Len(<<>>) = 0 /\ DOMAIN <<>> = 1 .. 0
    OBVIOUS
  <2> HIDE DEF args
  <2>3. args \in Seq(S) => Len(args) \in Nat /\ DOMAIN args = 1 .. Len(args)
    BY LenProperties
  <2>4. CASE args = <<>>
    BY <2>2, <2>4
  <2> QED BY <2>1, <2>3, <2>4
<1>7. ASSUME Len(args) >= 2 PROVE args # <<>> /\ Len(args) # 1
  <2>1. Len(<<>>) = 0 /\ ~(0 >= 2) /\ ~(1 >= 2)
    BY EmptySeq
  <2> QED BY <1>7, <2>1, Zenon
<1>8. Len(args) >= 2 => Unmarkable(args[1])
  BY <1>5, <1>7 DEF Holds
<1> QED BY <1>4, <1>6, <1>8

-----------------------------------------------------------------------------
(* The source of a message is parsed to what it is. *)

LEMMA ServerParsed ==
  ASSUME NEW s, Without(s, {Space, "!", "@"})
  PROVE  ParseSource(s) = ServerSource(s)
<1>1. ~Has(s, "!") /\ ~Has(s, "@")
  BY DEF Has, Without
<1> QED BY <1>1 DEF ParseSource

LEMMA UserParsed ==
  ASSUME NEW nick, Without(nick, {"!"}), NEW user, Without(user, {"@"}),
         NEW host, host # <<>> => host = <<host[1]>> /\ host[1] \in Strings
  PROVE  ParseSource(nick \o (<<"!">> \o (user \o IF host = <<>> THEN <<>> ELSE <<"@">> \o host[1])))
           = NickSource(nick, <<user>>, host)
<1> DEFINE tail == IF host = <<>> THEN <<>> ELSE <<"@">> \o host[1]
           r == user \o tail
           s == nick \o (<<"!">> \o r)
<1>1. tail \in Strings /\ (tail # <<>> => tail[1] = "@")
  <2>1. host # <<>> => <<"@">> \o host[1] \in Strings /\ (<<"@">> \o host[1])[1] = "@"
    BY AreCharacters, TailOfOne DEF Strings
  <2>2. <<>> \in Strings
    BY EmptySeq DEF Strings
  <2> QED BY <2>1, <2>2
<1>2. nick \in Strings /\ "!" \notin ToSet(nick) /\ user \in Strings /\ "@" \notin ToSet(user)
  BY DEF Without
<1>3. Before(r, "@") = user
  <2> HIDE DEF tail
  <2> QED BY <1>1, <1>2, AreCharacters, BeforeNext DEF Strings
<1>4. Option(r, "@") = host
  <2>1. CASE host = <<>>
    <3>1. r = user
      BY <1>2, <2>1, ConcatEmptySeq DEF Strings
    <3> HIDE DEF r
    <3>2. ~Has(r, "@")
      BY <1>2, <3>1 DEF Has
    <3> QED BY <2>1, <3>2 DEF Option
  <2>2. CASE host # <<>>
    <3> DEFINE h == host[1]
    <3>1. host = <<h>> /\ h \in Strings /\ r = user \o (<<"@">> \o h)
      BY <2>2
    <3> HIDE DEF r, h
    <3>2. After(r, "@") = h /\ Has(r, "@")
      BY <1>2, <3>1, AreCharacters, AtIndex DEF Strings
    <3> QED BY <3>1, <3>2 DEF Option
  <2> QED BY <2>1, <2>2
<1>5. r \in Strings
  <2> HIDE DEF tail
  <2> QED BY <1>1, <1>2, StringsConcat
<1>8. s = nick \o (<<"!">> \o (user \o IF host = <<>> THEN <<>> ELSE <<"@">> \o host[1]))
  OBVIOUS
<1> HIDE DEF r
<1>6. Before(s, "!") = nick /\ After(s, "!") = r /\ Has(s, "!")
  BY <1>2, <1>5, AreCharacters, AtIndex DEF Strings
<1> HIDE DEF s
<1>7. ParseSource(s) = NickSource(nick, <<user>>, host)
  BY <1>3, <1>4, <1>6 DEF ParseSource
<1> QED BY <1>7, <1>8

LEMMA HostParsed ==
  ASSUME NEW nick, Without(nick, {"!", "@"}), NEW host, Without(host, {"!"})
  PROVE  ParseSource(nick \o (<<"@">> \o host)) = NickSource(nick, <<>>, <<host>>)
<1> DEFINE s == nick \o (<<"@">> \o host)
<1>1. /\ nick \in Strings /\ "!" \notin ToSet(nick) /\ "@" \notin ToSet(nick)
      /\ host \in Strings /\ "!" \notin ToSet(host)
  BY DEF Without
<1>2. Before(s, "@") = nick /\ After(s, "@") = host /\ Has(s, "@")
  BY <1>1, AreCharacters, AtIndex DEF Strings
<1>3. ~Has(s, "!")
  <2> DEFINE at == <<"@">>
  <2>1. at \in Strings /\ ToSet(at) = {"@"}
    BY AreCharacters, InOne DEF Strings
  <2> HIDE DEF at
  <2>2. ToSet(at \o host) = ToSet(at) \cup ToSet(host) /\ at \o host \in Strings
    BY <1>1, <2>1, InConcat, StringsConcat DEF Strings
  <2>3. ToSet(nick \o (at \o host)) = ToSet(nick) \cup ToSet(at \o host)
    BY <1>1, <2>2, StringsConcat
  <2>4. "!" \notin ToSet(nick \o (at \o host))
    BY <1>1, <2>1, <2>2, <2>3
  <2> QED BY <2>4 DEF Has, at
<1> HIDE DEF s
<1>4. ParseSource(s) = NickSource(nick, <<>>, <<host>>)
  BY <1>2, <1>3 DEF ParseSource, Option
<1> QED BY <1>4 DEF s

LEMMA SourceParsed ==
  ASSUME NEW source, SomeSource(source), source # NoSource
  PROVE  \E b \in Strings : /\ SourceText(source) = <<":">> \o b
                           /\ Space \notin ToSet(b)
                           /\ ParseSource(b) = source
<1>1. CASE source = ServerSource(source.name) /\ Without(source.name, {Space, "!", "@"})
  <2> DEFINE b == source.name
  <2>1. source.kind = "server"
    BY <1>1 DEF ServerSource
  <2>2. SourceText(source) = <<":">> \o b
    BY <2>1 DEF SourceText
  <2>3. b \in Strings /\ Space \notin ToSet(b) /\ ParseSource(b) = source
    BY <1>1, ServerParsed DEF Without
  <2> QED BY <2>2, <2>3
<1>2. ASSUME source = NickSource(source.nick, source.user, source.host),
             source.user # <<>> \/ source.host # <<>>,
             Without(source.nick, {Space, "!", "@"}),
             source.user # <<>> =>
               source.user = <<source.user[1]>> /\ Without(source.user[1], {Space, "@"}),
             source.host # <<>> =>
               /\ source.host = <<source.host[1]>>
               /\ Without(source.host[1], {Space} \cup IF source.user = <<>> THEN {"!"} ELSE {})
      PROVE  \E b \in Strings : /\ SourceText(source) = <<":">> \o b
                               /\ Space \notin ToSet(b)
                               /\ ParseSource(b) = source
  <2> DEFINE nick == source.nick
             user == source.user
             host == source.host
             U == IF user = <<>> THEN <<>> ELSE <<"!">> \o user[1]
             H == IF host = <<>> THEN <<>> ELSE <<"@">> \o host[1]
             b == nick \o (U \o H)
  <2>1. source.kind = "nick"
    BY <1>2 DEF NickSource
  <2>2. /\ nick \in Strings /\ Space \notin ToSet(nick)
        /\ user # <<>> => user[1] \in Strings /\ Space \notin ToSet(user[1])
        /\ host # <<>> => host[1] \in Strings /\ Space \notin ToSet(host[1])
    BY <1>2 DEF Without
  <2>3. ASSUME NEW c \in {"!", "@"}, NEW t \in Strings, Space \notin ToSet(t)
        PROVE  <<c>> \o t \in Strings /\ Space \notin ToSet(<<c>> \o t)
    <3> DEFINE one == <<c>>
    <3>1. one \in Strings /\ ToSet(one) = {c} /\ c # Space
      BY AreCharacters, InOne, Distinct DEF Strings
    <3> HIDE DEF one
    <3>2. ToSet(one \o t) = ToSet(one) \cup ToSet(t) /\ one \o t \in Strings
      BY <3>1, InConcat, StringsConcat DEF Strings
    <3>3. Space \notin ToSet(one \o t)
      BY <2>3, <3>1, <3>2
    <3> QED BY <3>2, <3>3 DEF one
  <2>4. <<>> \in Strings /\ Space \notin ToSet(<<>>)
    BY EmptySeq, InNone DEF Strings
  <2>5. U \in Strings /\ Space \notin ToSet(U) /\ H \in Strings /\ Space \notin ToSet(H)
    BY <2>2, <2>3, <2>4
  <2>6. SourceText(source) = ((<<":">> \o nick) \o U) \o H
    BY <2>1 DEF SourceText
  <2>7. <<":">> \in Strings
    BY AreCharacters DEF Strings
  <2>8. b \in Strings /\ Space \notin ToSet(b)
    <3> HIDE DEF nick, U, H
    <3>1. U \o H \in Strings /\ ToSet(U \o H) = ToSet(U) \cup ToSet(H)
      BY <2>5, StringsConcat
    <3>2. nick \o (U \o H) \in Strings /\ ToSet(nick \o (U \o H)) = ToSet(nick) \cup ToSet(U \o H)
      BY <2>2, <3>1, StringsConcat
    <3> QED BY <2>2, <2>5, <3>1, <3>2
  <2>9. SourceText(source) = <<":">> \o b
    <3> DEFINE colon == <<":">>
    <3> HIDE DEF nick, U, H, colon
    <3>0. colon \in Strings
      BY <2>7 DEF colon
    <3>1. (colon \o nick) \o U = colon \o (nick \o U)
      BY <2>2, <2>5, <3>0, StringsAssociate
    <3>4. nick \o U \in Strings
      BY <2>2, <2>5, StringsConcat
    <3>2. (colon \o (nick \o U)) \o H = colon \o ((nick \o U) \o H)
      BY <2>5, <3>0, <3>4, StringsAssociate
    <3>3. (nick \o U) \o H = nick \o (U \o H)
      BY <2>2, <2>5, StringsAssociate
    <3> QED BY <2>6, <3>1, <3>2, <3>3 DEF colon
  <2>10. ParseSource(b) = source
    <3>1. CASE user # <<>>
      <4> DEFINE u == user[1]
      <4>1. user = <<u>> /\ Without(u, {"@"}) /\ Without(nick, {"!"})
        BY <1>2, <3>1 DEF Without
      <4>2. host # <<>> => host = <<host[1]>> /\ host[1] \in Strings
        BY <1>2, <2>2
      <4>3. U = <<"!">> \o u
        BY <3>1
      <4>4. (<<"!">> \o u) \o H = <<"!">> \o (u \o H)
        <5>1. <<"!">> \in Strings /\ u \in Strings
          BY <2>2, <3>1, AreCharacters DEF Strings
        <5> DEFINE mark == <<"!">>
        <5> HIDE DEF H, u, mark
        <5>2. mark \in Strings
          BY <5>1 DEF mark
        <5>3. (mark \o u) \o H = mark \o (u \o H)
          BY <2>5, <5>1, <5>2, StringsAssociate
        <5> QED BY <5>3 DEF mark
      <4> HIDE DEF U, u
      <4>5. ParseSource(nick \o (<<"!">> \o (u \o H))) = NickSource(nick, <<u>>, host)
        BY <4>1, <4>2, UserParsed
      <4>6. source = NickSource(nick, user, host)
        BY <1>2
      <4> QED BY <4>1, <4>3, <4>4, <4>5, <4>6
    <3>2. CASE user = <<>>
      <4> DEFINE h == host[1]
      <4>1. host = <<h>> /\ Without(h, {"!"}) /\ Without(nick, {"!", "@"})
        BY <1>2, <3>2 DEF Without
      <4>2. U \o H = <<"@">> \o h
        <5>1. U = <<>> /\ H = <<"@">> \o h
          BY <1>2, <3>2
        <5> HIDE DEF U, H
        <5>2. <<>> \o H = H
          BY <2>5, ConcatEmptySeq DEF Strings
        <5> QED BY <5>1, <5>2
      <4> HIDE DEF U, H, h
      <4>3. ParseSource(nick \o (<<"@">> \o h)) = NickSource(nick, <<>>, <<h>>)
        BY <4>1, HostParsed
      <4>4. source = NickSource(nick, user, host)
        BY <1>2
      <4> QED BY <3>2, <4>1, <4>2, <4>3, <4>4
    <3> QED BY <3>1, <3>2
  <2> HIDE DEF b
  <2> QED BY <2>8, <2>9, <2>10
<1> QED BY <1>1, <1>2 DEF SomeSource

-----------------------------------------------------------------------------
(* A message is parsed to what it means, however it is spelled.            *)

(* What the parser makes of m. *)
Meant(m) ==
  IF m.tags \/ ~IsSource(m.source) THEN Aborted
  ELSE IF "fate" \in DOMAIN Command(m.name, Args(m)) THEN Command(m.name, Args(m))
  ELSE [fate |-> "ok", source |-> m.source, message |-> Command(m.name, Args(m))]

LEMMA HeadOf ==
  ASSUME NEW m, IsMessage(m), NEW sp \in Spellings
  PROVE  /\ SpellHead(m, sp) \in Strings
         /\ m.tags => \E t \in Strings : SpellHead(m, sp) = <<"@">> \o t /\ Space \in ToSet(t)
         /\ ~m.tags /\ m.source = NoSource => SpellHead(m, sp) = <<>>
         /\ ~m.tags /\ m.source # NoSource =>
              \E b \in Strings : /\ SpellHead(m, sp) = (<<":">> \o b) \o Spaces(sp.gap)
                                 /\ Space \notin ToSet(b)
                                 /\ ParseSource(b) = m.source
<1> DEFINE T == IF m.tags THEN <<"@", "tag", Space>> ELSE <<>>
           G == Spaces(sp.gap)
           S == IF m.source = NoSource THEN <<>> ELSE SourceText(m.source) \o G
<1>0. SpellHead(m, sp) = T \o S
  BY DEF SpellHead
<1>1. T \in Strings
  <2>1. <<"@", "tag", Space>> \in Strings /\ <<>> \in Strings
    BY AreCharacters, EmptySeq DEF Strings
  <2> QED BY <2>1
<1>2. G \in Strings
  BY SpellingHas, SpacesAre
<1>3. m.source # NoSource =>
        \E b \in Strings : /\ SourceText(m.source) = <<":">> \o b
                           /\ Space \notin ToSet(b)
                           /\ ParseSource(b) = m.source
  BY SourceParsed DEF IsMessage
<1>4. S \in Strings
  <2>1. CASE m.source = NoSource
    BY <2>1, EmptySeq DEF Strings
  <2>2. CASE m.source # NoSource
    <3>1. PICK b \in Strings : SourceText(m.source) = <<":">> \o b
      BY <1>3, <2>2
    <3>2. SourceText(m.source) \in Strings
      BY <3>1, AreCharacters, TailOfOne DEF Strings
    <3> HIDE DEF G
    <3>3. SourceText(m.source) \o G \in Strings
      BY <1>2, <3>2, StringsConcat
    <3> QED BY <2>2, <3>3
  <2> QED BY <2>1, <2>2
<1>5. SpellHead(m, sp) \in Strings
  <2> HIDE DEF T, S
  <2> QED BY <1>0, <1>1, <1>4, StringsConcat
<1>6. ASSUME m.tags PROVE \E t \in Strings : SpellHead(m, sp) = <<"@">> \o t /\ Space \in ToSet(t)
  <2> DEFINE a == <<"@">>
             w == <<"tag", Space>>
  <2>1. T = a \o w
    BY <1>6
  <2>2. a \in Strings /\ w \in Strings /\ Len(w) = 2 /\ w[2] = Space
    BY AreCharacters DEF Strings
  <2> HIDE DEF a, w, S, T
  <2>3. (a \o w) \o S = a \o (w \o S)
    BY <1>4, <2>2, StringsAssociate
  <2>4. w \o S \in Strings /\ ToSet(w \o S) = ToSet(w) \cup ToSet(S)
    BY <1>4, <2>2, StringsConcat
  <2>5. Space \in ToSet(w)
    BY <2>2, InText DEF Strings
  <2>6. SpellHead(m, sp) = a \o (w \o S) /\ Space \in ToSet(w \o S)
    BY <1>0, <2>1, <2>3, <2>4, <2>5
  <2> QED BY <2>4, <2>6 DEF a
<1>7. ASSUME ~m.tags PROVE SpellHead(m, sp) = S
  <2>1. T = <<>>
    BY <1>7
  <2> HIDE DEF T, S
  <2> QED BY <1>0, <1>4, <2>1, ConcatEmptySeq DEF Strings
<1>8. ASSUME ~m.tags, m.source # NoSource
      PROVE \E b \in Strings : /\ SpellHead(m, sp) = (<<":">> \o b) \o Spaces(sp.gap)
                                /\ Space \notin ToSet(b)
                                /\ ParseSource(b) = m.source
  <2>1. S = SourceText(m.source) \o G
    BY <1>8
  <2> HIDE DEF S
  <2> QED BY <1>3, <1>7, <1>8, <2>1
<1>9. ASSUME ~m.tags, m.source = NoSource PROVE SpellHead(m, sp) = <<>>
  BY <1>7, <1>9
<1> HIDE DEF S, T, G
<1> QED BY <1>5, <1>6, <1>8, <1>9

LEMMA SpellIs ==
  ASSUME NEW m, IsMessage(m), NEW sp \in Spellings
  PROVE  /\ Spell(m, sp) = Spaces(sp.before) \o (SpellHead(m, sp) \o (<<m.name>> \o Rest(m, sp, 0)))
         /\ <<m.name>> \o Rest(m, sp, 0) \in Strings
         /\ SpellHead(m, sp) \o (<<m.name>> \o Rest(m, sp, 0)) \in Strings
         /\ Rest(m, sp, 0) \in Strings
<1> DEFINE B == Spaces(sp.before)
           H == SpellHead(m, sp)
           N == <<m.name>>
           F == FlattenSeq([i \in DOMAIN m.params |-> SpellParam(m, sp, i)])
           A == Spaces(sp.after)
           R == Rest(m, sp, 0)
<1>0. B \in Strings /\ H \in Strings /\ N \in Strings /\ F \in Strings /\ A \in Strings
  <2>1. B \in Strings /\ A \in Strings
    BY SpellingHas, SpacesAre
  <2>2. H \in Strings
    BY HeadOf
  <2>3. N \in Strings
    BY DEF IsMessage, IsName, Strings
  <2>4. F \in Strings
    BY RestSteps
  <2> QED BY <2>1, <2>2, <2>3, <2>4
<1>12. R = F \o A
  BY RestSteps
<1>1. Spell(m, sp) = (((B \o H) \o N) \o F) \o A
  BY DEF Spell
<1> HIDE DEF B, H, N, F, A, R
<1>4. R \in Strings
  BY <1>0, <1>12, StringsConcat
<1> DEFINE M == N \o R
<1>5. M \in Strings
  BY <1>0, <1>4, StringsConcat
<1> HIDE DEF M
<1>6. (B \o H) \o M = B \o (H \o M)
  <2>1. B \in Strings /\ H \in Strings
    BY <1>0
  <2> QED BY <1>5, <2>1, StringsAssociate
<1>7. B \o H \in Strings
  BY <1>0, StringsConcat
<1> DEFINE D == B \o H
<1>2. D \in Strings /\ D \o M = B \o (H \o M) /\ Spell(m, sp) = ((D \o N) \o F) \o A
  BY <1>1, <1>6, <1>7
<1> HIDE DEF D
<1>8. (D \o N) \o R = D \o (N \o R)
  <2>1. D \in Strings /\ N \in Strings
    BY <1>0, <1>2
  <2> QED BY <1>4, <2>1, StringsAssociate
<1>9. D \o N \in Strings
  BY <1>0, <1>2, StringsConcat
<1> DEFINE E == D \o N
<1>3. E \in Strings /\ E \o R = D \o M /\ Spell(m, sp) = (E \o F) \o A
  BY <1>2, <1>8, <1>9 DEF M
<1> HIDE DEF E
<1>10. (E \o F) \o A = E \o (F \o A)
  <2>1. E \in Strings /\ F \in Strings /\ A \in Strings
    BY <1>0, <1>3
  <2> QED BY <2>1, StringsAssociate
<1>11. H \o M \in Strings
  BY <1>0, <1>5, StringsConcat
<1>13. Spell(m, sp) = B \o (H \o M)
  BY <1>2, <1>3, <1>10, <1>12
<1> QED BY <1>4, <1>5, <1>11, <1>13 DEF B, H, N, R, M

LEMMA CommandParsed ==
  ASSUME NEW m, IsMessage(m), NEW sp \in Spellings, CanSpell(m, sp)
  PROVE  ParseCommand(<<m.name>> \o Rest(m, sp, 0)) = Command(m.name, Args(m))
<1> DEFINE n == Len(m.params)
           N == <<m.name>>
           R == Rest(m, sp, 0)
           s == After(N \o R, Space)
<1>0. n \in Nat /\ 0 \in 0 .. n
  BY LenProperties DEF IsMessage
<1>1. N \in Strings /\ Space \notin ToSet(N) /\ Len(N) = 1 /\ N[1] = m.name
  BY InOne DEF IsMessage, IsName, Strings
<1>2. R \in Strings /\ (R # <<>> => R[1] = Space) /\ Len(R) >= 2 * n
  BY <1>0, RestSteps, RestFirst, RestLength
<1>3. ParseCommand(N \o R) = Command(IF Len(Before(N \o R, Space)) = 1 THEN Before(N \o R, Space)[1] ELSE NoWord,
                                     ParseParams(s))
  BY DEF ParseCommand
<1> HIDE DEF N, R
<1>4. Before(N \o R, Space) = N /\ s = IF R = <<>> THEN <<>> ELSE Tail(R)
  BY <1>1, <1>2, AreCharacters, BeforeNext DEF Strings
<1> HIDE DEF s
<1>5. s \in Strings /\ Len(s) >= n /\ TrimSpaces(s) = TrimSpaces(R)
  <2>1. CASE R = <<>>
    <3>1. Len(R) = 0
      BY <2>1, EmptySeq
    <3> QED BY <1>0, <1>2, <1>4, <2>1, <3>1
  <2>2. CASE R # <<>>
    <3>1. Tail(R) \in Strings /\ Len(Tail(R)) = Len(R) - 1 /\ Len(R) \in Nat /\ Len(R) > 0
      BY <1>2, <2>2, EmptySeq, HeadTailProperties, LenProperties DEF Strings
    <3>2. TrimSpaces(Tail(R)) = TrimSpaces(R)
      BY <1>2, <2>2, Trimmed DEF Strings
    <3>3. Len(R) - 1 >= n
      BY <1>0, <1>2, <3>1
    <3> QED BY <1>4, <2>2, <3>1, <3>2, <3>3
  <2> QED BY <2>1, <2>2
<1>6. ParseParams(s) = Args(m)
  BY <1>5, ParamsParsed DEF R
<1> QED BY <1>1, <1>3, <1>4, <1>6 DEF N, R

LEMMA MessageParsed ==
  ASSUME NEW m, IsMessage(m), NEW sp \in Spellings, CanSpell(m, sp)
  PROVE  Parse(Spell(m, sp)) = Meant(m)
<1> DEFINE H == SpellHead(m, sp)
           text == <<m.name>> \o Rest(m, sp, 0)
           s == H \o text
           gap == Spaces(sp.gap)
           B == Spaces(sp.before)
<1>0. m.name \in Characters /\ m.name # Space /\ m.name # ":" /\ m.name # "@"
  BY DEF IsMessage, IsName
<1>1. text \in Strings /\ text # <<>> /\ text[1] = m.name
  <2>1. text \in Strings /\ Rest(m, sp, 0) \in Strings
    BY SpellIs
  <2>2. text # <<>> /\ text[1] = m.name
    BY <1>0, <2>1, TailOfOne DEF Strings
  <2> QED BY <2>1, <2>2
<1>2. ParseCommand(text) = Command(m.name, Args(m))
  BY CommandParsed
<1>3. Spell(m, sp) = B \o s /\ s \in Strings /\ H \in Strings
  BY SpellIs, HeadOf
<1>4. B \in Strings /\ Blank(B) /\ gap \in Strings /\ Blank(gap) /\ gap # <<>> /\ gap[1] = Space
  BY SpellingHas, SpacesAre
<1> HIDE DEF text, B, gap, H
<1>5. TrimSpaces(text) = text
  BY <1>0, <1>1, Trimmed DEF Strings
<1>6. ASSUME s[1] # Space PROVE TrimSpaces(Spell(m, sp)) = s
  <2> HIDE DEF s
  <2> QED BY <1>3, <1>4, <1>6, TrimTo DEF Strings
<1>7. CASE m.tags
  <2>1. PICK t \in Strings : H = <<"@">> \o t /\ Space \in ToSet(t)
    BY <1>7, HeadOf DEF H
  <2> DEFINE a == <<"@">>
  <2>2. a \in Strings /\ a # <<>> /\ a[1] = "@"
    BY AreCharacters DEF Strings
  <2>3. H = a \o t
    BY <2>1
  <2> HIDE DEF a
  <2>4. t \o text \in Strings /\ Space \in ToSet(t \o text)
    BY <1>1, <2>1, StringsConcat
  <2>5. s = a \o (t \o text)
    BY <1>1, <2>2, <2>3, StringsAssociate
  <2>6. s # <<>> /\ s[1] = "@"
    BY <2>2, <2>4, <2>5, FirstOfConcat DEF Strings
  <2>7. Space \in ToSet(s)
    BY <2>2, <2>4, <2>5, StringsConcat
  <2>8. TrimSpaces(Spell(m, sp)) = s
    BY <1>6, <2>6, Distinct
  <2>9. StartsWith(s, "@") /\ Has(s, Space)
    BY <2>6, <2>7 DEF StartsWith, Has
  <2> HIDE DEF s
  <2>10. Parse(Spell(m, sp)) = Aborted
    BY <2>8, <2>9 DEF Parse
  <2> QED BY <1>7, <2>10 DEF Meant
<1>8. CASE ~m.tags /\ m.source = NoSource
  <2>1. H = <<>>
    BY <1>8, HeadOf DEF H
  <2>2. s = text
    BY <1>1, <2>1, ConcatEmptySeq DEF Strings
  <2>3. TrimSpaces(Spell(m, sp)) = text
    BY <1>0, <1>1, <1>6, <2>2
  <2>4. ~StartsWith(text, "@") /\ ~StartsWith(text, ":")
    BY <1>0, <1>1 DEF StartsWith
  <2>5. IsSource(NoSource)
    BY DEF IsSource, NoSource
  <2> DEFINE message == ParseCommand(text)
  <2>6. Parse(Spell(m, sp)) = IF "fate" \in DOMAIN message THEN message
                              ELSE [fate |-> "ok", source |-> NoSource, message |-> message]
    BY <1>1, <1>5, <2>3, <2>4, <2>5 DEF Parse
  <2> HIDE DEF message
  <2> QED BY <1>2, <1>8, <2>5, <2>6 DEF Meant, message
<1>9. CASE ~m.tags /\ m.source # NoSource
  <2>1. PICK b \in Strings : /\ H = (<<":">> \o b) \o gap
                             /\ Space \notin ToSet(b)
                             /\ ParseSource(b) = m.source
    BY <1>9, HeadOf DEF H, gap
  <2> DEFINE c == <<":">>
             r == gap \o text
  <2>2. c \in Strings /\ c # <<>> /\ c[1] = ":" /\ Tail(c) = <<>> /\ ":" # Space /\ ToSet(c) = {":"}
    BY AreCharacters, Distinct, InOne DEF Strings
  <2>3. H = (c \o b) \o gap
    BY <2>1
  <2> HIDE DEF c
  <2>4. c \o b \in Strings /\ Space \notin ToSet(c \o b) /\ b \o r \in Strings /\ r \in Strings
    <3>1. c \o b \in Strings /\ ToSet(c \o b) = ToSet(c) \cup ToSet(b)
      BY <2>2, StringsConcat
    <3>2. r \in Strings
      BY <1>1, <1>4, StringsConcat
    <3> HIDE DEF r
    <3>3. b \o r \in Strings
      BY <3>2, StringsConcat
    <3> QED BY <2>1, <2>2, <3>1, <3>2, <3>3
  <2>5. s = (c \o b) \o r
    <3> DEFINE d == c \o b
    <3>1. d \in Strings /\ s = (d \o gap) \o text
      BY <2>3, <2>4
    <3> HIDE DEF d
    <3>2. (d \o gap) \o text = d \o (gap \o text)
      BY <1>1, <1>4, <3>1, StringsAssociate
    <3> QED BY <3>1, <3>2 DEF d
  <2>6. r # <<>> /\ r[1] = Space /\ Tail(r) = Tail(gap) \o text
    BY <1>1, <1>4, FirstOfConcat DEF Strings
  <2> HIDE DEF r
  <2>7. s = c \o (b \o r)
    BY <2>2, <2>4, <2>5, StringsAssociate
  <2>8. s # <<>> /\ s[1] = ":" /\ Tail(s) = b \o r
    <3>1. /\ c \o (b \o r) # <<>> /\ (c \o (b \o r))[1] = c[1]
          /\ Tail(c \o (b \o r)) = Tail(c) \o (b \o r)
      BY <2>2, <2>4, FirstOfConcat DEF Strings
    <3>2. <<>> \o (b \o r) = b \o r
      BY <2>4, ConcatEmptySeq DEF Strings
    <3> QED BY <2>2, <2>7, <3>1, <3>2
  <2>9. After(s, Space) = Tail(gap) \o text
    <3> DEFINE d == c \o b
    <3>1. d \in Strings /\ Space \notin ToSet(d) /\ s = d \o r
      BY <2>4, <2>5
    <3> HIDE DEF d, s
    <3>2. After(d \o r, Space) = Tail(r)
      BY <2>4, <2>6, <3>1, AreCharacters, BeforeNext DEF Strings
    <3> QED BY <2>6, <3>1, <3>2
  <2>10. Before(Tail(s), Space) = b
    <3>1. Before(b \o r, Space) = b
      BY <2>1, <2>4, <2>6, AreCharacters, BeforeNext DEF Strings
    <3> HIDE DEF s
    <3> QED BY <2>8, <3>1
  <2>11. Has(s, Space)
    <3>1. Len(r) \in Nat /\ Len(r) # 0
      BY <2>4, <2>6, EmptySeq, LenProperties DEF Strings
    <3>2. Space \in ToSet(r)
      BY <2>4, <2>6, <3>1, InText DEF Strings
    <3>3. Space \in ToSet((c \o b) \o r)
      BY <2>4, <3>2, StringsConcat
    <3> QED BY <2>5, <3>3 DEF Has
  <2>12. TrimSpaces(Tail(gap) \o text) = text
    <3>1. Tail(gap) \in Strings /\ Blank(Tail(gap))
      <4>1. /\ Tail(gap) \in Strings /\ Len(Tail(gap)) = Len(gap) - 1 /\ Len(gap) \in Nat
            /\ \A i \in 1 .. Len(gap) - 1 : Tail(gap)[i] = gap[i + 1]
        BY <1>4, HeadTailProperties, LenProperties DEF Strings
      <4>2. \A i \in 1 .. Len(gap) - 1 : i + 1 \in 1 .. Len(gap)
        BY <4>1
      <4>3. \A i \in 1 .. Len(gap) : gap[i] = Space
        BY <1>4 DEF Blank
      <4> QED BY <4>1, <4>2, <4>3 DEF Blank
    <3> QED BY <1>0, <1>1, <3>1, TrimTo DEF Strings
  <2>13. TrimSpaces(Spell(m, sp)) = s
    BY <1>6, <2>2, <2>8
  <2>14. StartsWith(s, ":") /\ ~StartsWith(s, "@")
    BY <2>8 DEF StartsWith
  <2> DEFINE message == ParseCommand(text)
  <2> HIDE DEF s
  <2>15. Parse(Spell(m, sp)) = IF ~IsSource(m.source) THEN Aborted
                               ELSE IF "fate" \in DOMAIN message THEN message
                               ELSE [fate |-> "ok", source |-> m.source, message |-> message]
    BY <1>1, <2>1, <2>9, <2>10, <2>11, <2>12, <2>13, <2>14 DEF Parse
  <2> HIDE DEF message
  <2> QED BY <1>2, <1>9, <2>15 DEF Meant, message
<1> QED BY <1>7, <1>8, <1>9

-----------------------------------------------------------------------------
(* What a message means is what it says. *)

LEMMA ArgsAre ==
  ASSUME NEW m, IsMessage(m)
  PROVE  /\ Len(m.params) \in Nat /\ DOMAIN m.params = 1 .. Len(m.params)
         /\ DOMAIN Args(m) = 1 .. Len(m.params) /\ Len(Args(m)) = Len(m.params)
         /\ \A i \in 1 .. Len(m.params) :
              Args(m)[i].items = m.params[i] /\ (Args(m)[i].list <=> Len(m.params[i]) # 1)
<1> DEFINE n == Len(m.params)
           A == Args(m)
           R == {ArgOf(p) : p \in Lists}
<1>1. n \in Nat /\ DOMAIN m.params = 1 .. n /\ \A i \in 1 .. n : m.params[i] \in Lists
  BY ElementOfSeq, LenProperties DEF IsMessage
<1>2. A = [i \in 1 .. n |-> ArgOf(m.params[i])]
  BY <1>1 DEF Args
<1>3. A \in [1 .. n -> R]
  <2> HIDE DEF A, Lists
  <2> QED BY <1>1, <1>2
<1>4. Len(A) = n
  <2> HIDE DEF A, R
  <2>1. A \in Seq(R)
    BY <1>1, <1>3, SeqDef
  <2> QED BY <1>1, <1>3, <2>1, LenProperties
<1>5. ASSUME NEW i \in 1 .. n
      PROVE  ArgOf(m.params[i]).items = m.params[i] /\ (ArgOf(m.params[i]).list <=> Len(m.params[i]) # 1)
  <2> DEFINE p == m.params[i]
  <2>1. p \in Seq(Strings) /\ p # <<>>
    BY ParamOf
  <2> HIDE DEF p
  <2>2. CASE Len(p) = 1
    <3>1. p = <<p[1]>>
      BY <2>1, <2>2, OneOrMore
    <3>2. ArgOf(p) = [list |-> FALSE, items |-> <<p[1]>>]
      BY <2>2 DEF ArgOf, Text
    <3> QED BY <2>2, <3>1, <3>2 DEF p
  <2>3. CASE Len(p) # 1
    <3>1. ArgOf(p) = [list |-> TRUE, items |-> p]
      BY <2>3 DEF ArgOf, List
    <3> QED BY <2>3, <3>1 DEF p
  <2> QED BY <2>2, <2>3
<1> HIDE DEF A, Lists
<1> QED BY <1>1, <1>2, <1>4, <1>5 DEF A

LEMMA WellFormedIsAcceptable ==
  ASSUME NEW m, IsMessage(m), m.name \in DOMAIN Needs
  PROVE  WellFormed(m.name, Args(m)) <=> Acceptable(m)
<1> DEFINE n == Len(m.params)
           A == Args(m)
           p == m.params
           name == m.name
<1>1. /\ n \in Nat /\ DOMAIN p = 1 .. n /\ DOMAIN A = 1 .. n /\ Len(A) = n
      /\ \A i \in 1 .. n : A[i].items = p[i] /\ (A[i].list <=> Len(p[i]) # 1)
  BY ArgsAre
<1>2. (\A i \in Plain[name] \cap DOMAIN A : ~A[i].list)
        <=> (\A i \in Plain[name] \cap DOMAIN p : Len(p[i]) = 1)
  <2> HIDE DEF A, n, p, name
  <2> QED BY <1>1
<1>3. ASSUME name = "MODE", n >= Needs[name] PROVE A[1].items[1] = p[1][1]
  <2>1. 1 \in 1 .. n
    BY <1>1, <1>3 DEF Needs
  <2> QED BY <1>1, <2>1
<1>4. ASSUME name = "JOIN", n >= Needs[name]
      PROVE  Len(Items(A, 2)) <= Len(Items(A, 1)) <=> (n > 1 => Len(p[2]) <= Len(p[1]))
  <2>1. n >= 1
    BY <1>4 DEF Needs
  <2>2. Items(A, 1) = p[1] /\ Len(p[1]) \in Nat
    <3>1. 1 \in 1 .. n
      BY <1>1, <2>1
    <3> QED BY <1>1, <3>1, ParamOf DEF Items
  <2>3. CASE n > 1
    <3>1. 2 \in 1 .. n
      BY <1>1, <2>3
    <3>2. Items(A, 2) = p[2]
      BY <1>1, <3>1 DEF Items
    <3> QED BY <2>2, <2>3, <3>2
  <2>4. CASE ~(n > 1)
    <3>1. ~(2 \in 1 .. n)
      BY <1>1, <2>4
    <3>2. Items(A, 2) = <<>>
      BY <1>1, <3>1 DEF Items
    <3>3. Len(<<>>) = 0
      BY EmptySeq
    <3> QED BY <2>2, <2>4, <3>2, <3>3
  <2> QED BY <2>3, <2>4
<1>5. WellFormed(name, A) <=>
        /\ n >= Needs[name]
        /\ \A i \in Plain[name] \cap DOMAIN p : Len(p[i]) = 1
        /\ name = "MODE" => IsTarget(p[1][1])
        /\ name = "JOIN" /\ n > 1 => Len(p[2]) <= Len(p[1])
  <2> HIDE DEF A, n, p, name
  <2>1. CASE n >= Needs[name]
    BY <1>1, <1>2, <1>3, <1>4, <2>1 DEF WellFormed
  <2>2. CASE ~(n >= Needs[name])
    BY <1>1, <2>2 DEF WellFormed
  <2> QED BY <2>1, <2>2
<1> QED BY <1>5 DEF Acceptable

LEMMA MeaningIs ==
  ASSUME NEW name, NEW args
  PROVE  /\ name = "JOIN" =>
              Meaning(name, args) = [kind |-> name, pairs |-> WithKeys(Items(args, 1), Items(args, 2))]
         /\ name = "MODE" =>
              Meaning(name, args) =
                [kind |-> name, target |-> args[1].items[1],
                 mode |-> Joined([i \in 1 .. Len(args) - 1 |-> Joined(args[i + 1].items, Comma)], Space)]
         /\ name \in {"PRIVMSG", "NOTICE"} =>
              Meaning(name, args)
                = [kind |-> name, targets |-> Targets(args[1].items), msg |-> args[2].items[1]]
         /\ name = "PART" =>
              Meaning(name, args) = [kind |-> name, channels |-> args[1].items, reason |-> Items(args, 2)]
         /\ name \notin {"JOIN", "MODE", "PRIVMSG", "NOTICE", "PART"} =>
              Meaning(name, args)
                = [kind |-> name, texts |-> [i \in Plain[name] \cap DOMAIN args |-> args[i].items[1]]]
BY DEF Meaning

LEMMA MeaningSays ==
  ASSUME NEW m, IsMessage(m), m.name \in DOMAIN Needs, Acceptable(m)
  PROVE  LET message == Meaning(m.name, Args(m))
         IN  /\ "fate" \notin DOMAIN message
             /\ message.kind = m.name
             /\ Says(message, m)
             /\ m.name \in {"PRIVMSG", "NOTICE"} => message.targets \in Seq(Strings)
<1> DEFINE n == Len(m.params)
           A == Args(m)
           p == m.params
           name == m.name
           M == Meaning(name, A)
<1>1. /\ n \in Nat /\ DOMAIN p = 1 .. n /\ DOMAIN A = 1 .. n /\ Len(A) = n
      /\ \A i \in 1 .. n : A[i].items = p[i]
  BY ArgsAre
<1>2. n >= Needs[name]
  BY DEF Acceptable
<1>3. p \in Seq(Lists)
  BY DEF IsMessage
<1>4. \A i \in 1 .. n : p[i] \in Seq(Strings) /\ DOMAIN p[i] = 1 .. Len(p[i])
  BY ParamOf, LenProperties
<1>5. Says(M, m) =
        CASE name \in {"PRIVMSG", "NOTICE"} ->
               /\ M.msg = p[2][1]
               /\ ToSet(M.targets) = {t \in ToSet(p[1]) : IsTarget(t)}
          [] name = "JOIN" ->
               \A i \in DOMAIN p[1] :
                 M.pairs[i] = <<p[1][i], IF Len(p) > 1 /\ i <= Len(p[2]) THEN <<p[2][i]>> ELSE <<>>>>
          [] name = "PART" -> M.channels = p[1] /\ (Len(p) > 1 => M.reason = p[2])
          [] name = "MODE" ->
               /\ M.target = p[1][1]
               /\ M.mode = Joined([i \in DOMAIN Tail(p) |-> Joined(Tail(p)[i], Comma)], Space)
          [] name \in DOMAIN Needs \ {"PRIVMSG", "NOTICE", "JOIN", "PART", "MODE"} ->
               \A i \in DOMAIN M.texts : M.texts[i] = p[i][1]
          [] OTHER -> [i \in DOMAIN M.args |-> M.args[i].items] = p
  BY DEF Says
<1> HIDE DEF A, n, p, name, M
<1>6. CASE name \in {"PRIVMSG", "NOTICE"}
  <2>1. n >= 2
    BY <1>2, <1>6 DEF Needs
  <2>2. 1 \in 1 .. n /\ 2 \in 1 .. n
    BY <1>1, <2>1
  <2>3. M = [kind |-> name, targets |-> Targets(p[1]), msg |-> p[2][1]]
    <3>1. M = [kind |-> name, targets |-> Targets(A[1].items), msg |-> A[2].items[1]]
      BY <1>6, MeaningIs DEF M
    <3>2. A[1].items = p[1] /\ A[2].items = p[2]
      BY <1>1, <2>2
    <3> QED BY <3>1, <3>2
  <2>4. Targets(p[1]) \in Seq(Strings) /\ ToSet(Targets(p[1])) = {t \in ToSet(p[1]) : IsTarget(t)}
    BY <1>4, <2>2, TargetsKept
  <2>5. Says(M, m)
    BY <1>5, <1>6, <2>3, <2>4
  <2> QED BY <2>3, <2>4, <2>5 DEF M, name, A
<1>7. CASE name = "JOIN"
  <2>1. n >= 1
    BY <1>2, <1>7 DEF Needs
  <2>2. 1 \in 1 .. n
    BY <1>1, <2>1
  <2> DEFINE keys == Items(A, 2)
  <2>3. M = [kind |-> name, pairs |-> WithKeys(p[1], keys)]
    BY <1>1, <1>7, <2>2, MeaningIs DEF M, Items
  <2>4. ASSUME NEW i \in DOMAIN p[1]
        PROVE  (IF i \in DOMAIN keys THEN <<keys[i]>> ELSE <<>>)
                 = IF Len(p) > 1 /\ i <= Len(p[2]) THEN <<p[2][i]>> ELSE <<>>
    <3>1. CASE n > 1
      <4>1. 2 \in 1 .. n
        BY <1>1, <3>1
      <4>2. keys = p[2] /\ DOMAIN p[2] = 1 .. Len(p[2])
        BY <1>1, <1>4, <4>1 DEF Items
      <4>3. i \in Nat /\ i >= 1 /\ Len(p[2]) \in Nat
        BY <1>4, <2>2, <2>4, <4>1, LenProperties
      <4> QED BY <3>1, <4>2, <4>3 DEF n, p
    <3>2. CASE ~(n > 1)
      <4>1. ~(2 \in 1 .. n)
        BY <1>1, <3>2
      <4>2. keys = <<>>
        BY <1>1, <4>1 DEF Items
      <4>3. ~(i \in DOMAIN keys)
        BY <4>2
      <4> QED BY <3>2, <4>3 DEF n, p
    <3> QED BY <3>1, <3>2
  <2>5. \A i \in DOMAIN p[1] : WithKeys(p[1], keys)[i]
          = <<p[1][i], IF Len(p) > 1 /\ i <= Len(p[2]) THEN <<p[2][i]>> ELSE <<>>>>
    BY <2>4 DEF WithKeys
  <2>6. Says(M, m)
    <3> HIDE DEF keys
    <3> QED BY <1>5, <1>7, <2>3, <2>5
  <2> QED BY <1>7, <2>3, <2>6 DEF M, name, A
<1>8. CASE name = "PART"
  <2>1. n >= 1
    BY <1>2, <1>8 DEF Needs
  <2>2. 1 \in 1 .. n /\ (n > 1 => 2 \in 1 .. n)
    BY <1>1, <2>1
  <2>3. M = [kind |-> name, channels |-> p[1], reason |-> Items(A, 2)]
    <3>1. M = [kind |-> name, channels |-> A[1].items, reason |-> Items(A, 2)]
      BY <1>8, MeaningIs DEF M
    <3>2. A[1].items = p[1]
      BY <1>1, <2>2
    <3> QED BY <3>1, <3>2
  <2>4. n > 1 => Items(A, 2) = p[2]
    BY <1>1, <2>2 DEF Items
  <2>5. Says(M, m)
    BY <1>5, <1>8, <2>3, <2>4 DEF n, p
  <2> QED BY <1>8, <2>3, <2>5 DEF M, name, A
<1>9. CASE name = "MODE"
  <2>1. n >= 1
    BY <1>2, <1>9 DEF Needs
  <2>2. 1 \in 1 .. n
    BY <1>1, <2>1
  <2>3. M = [kind |-> name, target |-> p[1][1],
             mode |-> Joined([i \in 1 .. n - 1 |-> Joined(A[i + 1].items, Comma)], Space)]
    <3>1. M = [kind |-> name, target |-> A[1].items[1],
               mode |-> Joined([i \in 1 .. Len(A) - 1 |-> Joined(A[i + 1].items, Comma)], Space)]
      BY <1>9, MeaningIs DEF M
    <3>2. A[1].items = p[1] /\ Len(A) = n
      BY <1>1, <2>2
    <3> QED BY <3>1, <3>2
  <2>4. /\ Len(p) = n /\ p # <<>> /\ Tail(p) \in Seq(Lists) /\ Len(Tail(p)) = n - 1
        /\ \A i \in 1 .. n - 1 : Tail(p)[i] = p[i + 1]
    <3>1. Len(p) = n /\ p # <<>>
      <4>1. Len(p) = n
        BY DEF n, p
      <4> QED BY <1>3, <2>1, <4>1, EmptySeq
    <3> QED BY <1>3, <3>1, HeadTailProperties
  <2>5. DOMAIN Tail(p) = 1 .. n - 1
    BY <2>4, LenProperties
  <2>6. \A i \in 1 .. n - 1 : A[i + 1].items = Tail(p)[i]
    <3>1. \A i \in 1 .. n - 1 : i + 1 \in 1 .. n
      BY <1>1
    <3> QED BY <1>1, <2>4, <3>1
  <2>7. [i \in 1 .. n - 1 |-> Joined(A[i + 1].items, Comma)]
          = [i \in DOMAIN Tail(p) |-> Joined(Tail(p)[i], Comma)]
    BY <2>5, <2>6
  <2>8. Says(M, m)
    BY <1>5, <1>9, <2>3, <2>7
  <2> QED BY <1>9, <2>3, <2>8 DEF M, name, A
<1>10. CASE name \notin {"PRIVMSG", "NOTICE", "JOIN", "PART", "MODE"}
  <2>1. M = [kind |-> name, texts |-> [i \in Plain[name] \cap DOMAIN A |-> A[i].items[1]]]
    BY <1>10, MeaningIs DEF M
  <2>2. \A i \in Plain[name] \cap DOMAIN A : A[i].items[1] = p[i][1]
    BY <1>1
  <2>3. name \in DOMAIN Needs
    BY DEF name
  <2>4. Says(M, m)
    BY <1>5, <1>10, <2>1, <2>2, <2>3
  <2> QED BY <1>10, <2>1, <2>4 DEF M, name, A
<1> QED BY <1>6, <1>7, <1>8, <1>9, <1>10

LEMMA CommandIs ==
  ASSUME NEW name, NEW args
  PROVE  /\ name \in Unfinished => Command(name, args) = Aborted
         /\ name \notin Unfinished /\ name \in DOMAIN Needs =>
              Command(name, args) = IF WellFormed(name, args) THEN Meaning(name, args) ELSE Failed
         /\ name \notin Unfinished /\ name \notin DOMAIN Needs =>
              \E kind \in {"numeric", "unknown"} : Command(name, args) = [kind |-> kind, args |-> args]
<1>1. CASE name \in Unfinished
  BY <1>1 DEF Command
<1>2. CASE name \notin Unfinished /\ name \in DOMAIN Needs
  BY <1>2 DEF Command
<1>3. CASE name \notin Unfinished /\ name \notin DOMAIN Needs
  <2> DEFINE kind == IF name \in DOMAIN Numbers /\ Numbers[name] <= 999 THEN "numeric" ELSE "unknown"
  <2>1. Command(name, args) = [kind |-> kind, args |-> args]
    BY <1>3 DEF Command
  <2>2. kind \in {"numeric", "unknown"}
    OBVIOUS
  <2> HIDE DEF kind
  <2> QED BY <1>3, <2>1, <2>2
<1> QED BY <1>1, <1>2, <1>3

(* What a reader makes of a message that it understands. *)
IsUnderstood(parsed, m) ==
  IF Unreadable(m) THEN parsed.fate = "aborted"
  ELSE IF ~Acceptable(m) THEN parsed.fate = "error"
  ELSE /\ parsed.fate = "ok"
       /\ parsed.source = m.source
       /\ parsed.message.kind \in {m.name, "numeric", "unknown"}
       /\ Says(parsed.message, m)

LEMMA CommandUnderstood ==
  ASSUME NEW m, IsMessage(m), m.name \notin Unfinished
  PROVE  LET message == Command(m.name, Args(m))
         IN  /\ ~Acceptable(m) => message = Failed
             /\ Acceptable(m) => /\ "fate" \notin DOMAIN message
                                 /\ message.kind \in {m.name, "numeric", "unknown"}
                                 /\ Says(message, m)
             /\ Acceptable(m) /\ message.kind \in {"PRIVMSG", "NOTICE"} =>
                  /\ m.name \in {"PRIVMSG", "NOTICE"} /\ message.targets \in Seq(Strings)
             /\ Acceptable(m) /\ message.kind = "PING" => m.name = "PING"
<1> DEFINE message == Command(m.name, Args(m))
<1>1. CASE m.name \in DOMAIN Needs
  <2>1. message = IF Acceptable(m) THEN Meaning(m.name, Args(m)) ELSE Failed
    BY <1>1, CommandIs, WellFormedIsAcceptable
  <2>2. CASE Acceptable(m)
    <3> DEFINE M == Meaning(m.name, Args(m))
    <3>1. /\ "fate" \notin DOMAIN M
          /\ M.kind = m.name
          /\ Says(M, m)
          /\ m.name \in {"PRIVMSG", "NOTICE"} => M.targets \in Seq(Strings)
      BY <1>1, <2>2, MeaningSays
    <3>2. message = M
      BY <2>1, <2>2
    <3> HIDE DEF M, message
    <3> QED BY <2>2, <3>1, <3>2 DEF message
  <2>3. CASE ~Acceptable(m)
    <3>1. message = Failed
      BY <2>1, <2>3
    <3> QED BY <2>3, <3>1
  <2> QED BY <2>2, <2>3
<1>2. CASE m.name \notin DOMAIN Needs
  <2>1. PICK kind \in {"numeric", "unknown"} : message = [kind |-> kind, args |-> Args(m)]
    BY <1>2, CommandIs
  <2>2. Acceptable(m)
    BY <1>2 DEF Acceptable
  <2>3. m.name \notin {"PRIVMSG", "NOTICE", "JOIN", "PART", "MODE"}
    BY <1>2 DEF Needs
  <2>4. [i \in DOMAIN Args(m) |-> Args(m)[i].items] = m.params
    <3>1. m.params = [i \in 1 .. Len(m.params) |-> m.params[i]]
      BY LenProperties DEF IsMessage
    <3>2. /\ DOMAIN Args(m) = 1 .. Len(m.params)
          /\ \A i \in 1 .. Len(m.params) : Args(m)[i].items = m.params[i]
      BY ArgsAre
    <3> QED BY <3>1, <3>2
  <2> HIDE DEF message
  <2>5. message.args = Args(m) /\ message.kind = kind /\ "fate" \notin DOMAIN message
    BY <2>1
  <2>6. Says(message, m)
    BY <1>2, <2>3, <2>4, <2>5 DEF Says
  <2> QED BY <2>2, <2>5, <2>6 DEF message
<1> QED BY <1>1, <1>2

LEMMA MeantIsUnderstood ==
  ASSUME NEW m, IsMessage(m)
  PROVE  IsUnderstood(Meant(m), m)
<1> DEFINE message == Command(m.name, Args(m))
<1>0. ~IsSource(m.source) <=> m.source.kind = "nick" /\ ~IsNickname(m.source.nick)
  BY DEF IsSource
<1>1. CASE m.tags \/ ~IsSource(m.source)
  <2>1. Meant(m) = Aborted /\ Unreadable(m)
    BY <1>0, <1>1 DEF Meant, Unreadable
  <2> QED BY <2>1 DEF IsUnderstood, Aborted
<1>2. CASE ~(m.tags \/ ~IsSource(m.source)) /\ m.name \in Unfinished
  <2>1. message = Aborted /\ "fate" \in DOMAIN message
    <3>1. message = Aborted
      BY <1>2, CommandIs
    <3> QED BY <3>1 DEF Aborted
  <2>2. Meant(m) = Aborted /\ Unreadable(m)
    BY <1>2, <2>1 DEF Meant, Unreadable
  <2> QED BY <2>2 DEF IsUnderstood, Aborted
<1>3. CASE ~(m.tags \/ ~IsSource(m.source)) /\ m.name \notin Unfinished
  <2>1. ~Unreadable(m)
    BY <1>0, <1>3 DEF Unreadable
  <2>2. CASE ~Acceptable(m)
    <3>1. message = Failed
      BY <1>3, <2>2, CommandUnderstood
    <3>2. "fate" \in DOMAIN Failed
      BY DEF Failed
    <3> HIDE DEF message
    <3>3. Meant(m) = Failed
      BY <1>3, <3>1, <3>2 DEF Meant, message
    <3> QED BY <2>1, <2>2, <3>3 DEF IsUnderstood, Failed
  <2>3. CASE Acceptable(m)
    <3>1. /\ "fate" \notin DOMAIN message
          /\ message.kind \in {m.name, "numeric", "unknown"}
          /\ Says(message, m)
      BY <1>3, <2>3, CommandUnderstood
    <3> HIDE DEF message
    <3>2. Meant(m) = [fate |-> "ok", source |-> m.source, message |-> message]
      BY <1>3, <3>1 DEF Meant, message
    <3> QED BY <2>1, <2>3, <3>1, <3>2 DEF IsUnderstood
  <2> QED BY <2>2, <2>3
<1> QED BY <1>1, <1>2, <1>3

(* The names in what is parsed are valid. *)
HasValidNames(parsed) ==
  /\ parsed.fate \in {"ok", "error", "aborted"}
  /\ parsed.fate = "ok" =>
       /\ parsed.source.kind = "nick" => IsNickname(parsed.source.nick)
       /\ parsed.message.kind \in {"PRIVMSG", "NOTICE"} =>
            \A i \in DOMAIN parsed.message.targets : IsTarget(parsed.message.targets[i])

LEMMA MeantIsOk ==
  ASSUME NEW m, IsMessage(m), Meant(m).fate = "ok"
  PROVE  /\ ~m.tags /\ IsSource(m.source) /\ m.name \notin Unfinished /\ Acceptable(m)
         /\ Meant(m).source = m.source /\ Meant(m).message = Command(m.name, Args(m))
<1>1. IsUnderstood(Meant(m), m)
  BY MeantIsUnderstood
<1>2. ~Unreadable(m) /\ Acceptable(m)
  BY <1>1 DEF IsUnderstood
<1>3. ~m.tags /\ IsSource(m.source) /\ m.name \notin Unfinished
  BY <1>2 DEF Unreadable, IsSource
<1>4. "fate" \notin DOMAIN Command(m.name, Args(m))
  BY <1>2, <1>3, CommandUnderstood
<1>5. Meant(m) = [fate |-> "ok", source |-> m.source, message |-> Command(m.name, Args(m))]
  BY <1>3, <1>4 DEF Meant
<1> QED BY <1>2, <1>3, <1>5

LEMMA MeantHasValidNames ==
  ASSUME NEW m, IsMessage(m)
  PROVE  HasValidNames(Meant(m))
<1>1. Meant(m).fate \in {"ok", "error", "aborted"}
  BY MeantIsUnderstood DEF IsUnderstood
<1>2. ASSUME Meant(m).fate = "ok"
      PROVE  /\ Meant(m).source.kind = "nick" => IsNickname(Meant(m).source.nick)
             /\ Meant(m).message.kind \in {"PRIVMSG", "NOTICE"} =>
                  \A i \in DOMAIN Meant(m).message.targets : IsTarget(Meant(m).message.targets[i])
  <2> DEFINE message == Command(m.name, Args(m))
  <2>1. /\ IsSource(m.source) /\ m.name \notin Unfinished /\ Acceptable(m)
        /\ Meant(m).source = m.source /\ Meant(m).message = message
    BY <1>2, MeantIsOk
  <2>2. /\ Says(message, m)
        /\ message.kind \in {"PRIVMSG", "NOTICE"} =>
             m.name \in {"PRIVMSG", "NOTICE"} /\ message.targets \in Seq(Strings)
    BY <2>1, CommandUnderstood
  <2> HIDE DEF message
  <2>3. ASSUME message.kind \in {"PRIVMSG", "NOTICE"}, NEW i \in DOMAIN message.targets
        PROVE  IsTarget(message.targets[i])
    <3>1. ToSet(message.targets) = {t \in ToSet(m.params[1]) : IsTarget(t)}
      BY <2>2, <2>3 DEF Says
    <3>2. message.targets[i] \in ToSet(message.targets)
      BY <2>3 DEF ToSet
    <3> QED BY <3>1, <3>2
  <2> QED BY <2>1, <2>3 DEF IsSource
<1> QED BY <1>1, <1>2 DEF HasValidNames

-----------------------------------------------------------------------------
(* What the client writes is a spelling. *)

Sp(after, mark) == [before |-> 0, gap |-> 1, after |-> after, mark |-> mark]
IsSpelled(s, m) == \E sp \in Spellings : CanSpell(m, sp) /\ s = Spell(m, sp)

LEMMA NamesAre ==
  /\ \A name \in {"PASS", "NICK", "USER", "PONG", "QUIT", "JOIN", "PRIVMSG", "NOTICE"} : IsName(name)
  /\ \A word \in {"join", "raw", "msg", "quit", "nick", "JOIN"} :
       word \in Characters /\ word # Space /\ word # NoWord
  /\ \A word \in {"/", "0", "*", "host", "^A", "ACTION", "CLIENTINFO"} :
       word \in Characters /\ word # Space /\ word # Comma
BY DEF IsName, Characters, NoWord, Space, Comma

LEMMA IsWritten ==
  ASSUME NEW name, IsName(name), NEW params \in Seq(Lists)
  PROVE  /\ IsMessage(Message(NoSource, name, params))
         /\ Message(NoSource, name, params).params = params
         /\ Message(NoSource, name, params).name = name
         /\ Message(NoSource, name, params).source = NoSource
         /\ ~Message(NoSource, name, params).tags
BY DEF Message, IsMessage, SomeSource

LEMMA SpellingIs ==
  ASSUME NEW after \in 0 .. 1, NEW mark \in BOOLEAN
  PROVE  /\ Sp(after, mark) \in Spellings
         /\ Sp(after, mark).before = 0 /\ Sp(after, mark).gap = 1
         /\ Sp(after, mark).after = after /\ Sp(after, mark).mark = mark
BY DEF Sp, Spellings

LEMMA PlainlySpelled ==
  ASSUME NEW name, IsName(name), NEW params \in Seq(Lists), NEW after \in 0 .. 1, NEW mark \in BOOLEAN
  PROVE  LET m  == Message(NoSource, name, params)
             sp == Sp(after, mark)
         IN  /\ Spell(m, sp) = <<name>> \o Rest(m, sp, 0)
             /\ Rest(m, sp, Len(params)) = Spaces(after)
             /\ \A k \in 0 .. Len(params) : Rest(m, sp, k) \in Strings
             /\ \A k \in 0 .. Len(params) - 1 :
                  Rest(m, sp, k) = (<<Space>> \o Body(m, sp, k + 1)) \o Rest(m, sp, k + 1)
<1> DEFINE m  == Message(NoSource, name, params)
           sp == Sp(after, mark)
<1>1. /\ IsMessage(m) /\ m.params = params /\ m.name = name /\ m.source = NoSource /\ ~m.tags
      /\ sp \in Spellings /\ sp.before = 0 /\ sp.gap = 1 /\ sp.after = after
  BY IsWritten, SpellingIs
<1> HIDE DEF m, sp
<1>2. Spell(m, sp) = <<name>> \o Rest(m, sp, 0)
  <2>1. /\ Spell(m, sp) = Spaces(sp.before) \o (SpellHead(m, sp) \o (<<m.name>> \o Rest(m, sp, 0)))
        /\ <<m.name>> \o Rest(m, sp, 0) \in Strings
    BY <1>1, SpellIs
  <2>2. Spaces(sp.before) = <<>> /\ SpellHead(m, sp) = <<>>
    BY <1>1, SpacesAre, HeadOf
  <2> DEFINE t == <<m.name>> \o Rest(m, sp, 0)
  <2>3. t \in Strings /\ Spell(m, sp) = <<>> \o (<<>> \o t)
    BY <2>1, <2>2
  <2> HIDE DEF t
  <2>4. <<>> \o t = t
    BY <2>3, ConcatEmptySeq DEF Strings
  <2> QED BY <1>1, <2>3, <2>4 DEF t
<1>3. Spaces(1) = <<Space>>
  BY DEF Spaces
<1>4. ASSUME NEW k \in 0 .. Len(params) - 1
      PROVE  Rest(m, sp, k) = (<<Space>> \o Body(m, sp, k + 1)) \o Rest(m, sp, k + 1)
  <2>1. k + 1 \in 1 .. Len(m.params)
    BY <1>1, LenProperties
  <2>2. SpellParam(m, sp, k + 1) = Spaces(sp.gap) \o Body(m, sp, k + 1)
    BY <1>1, <2>1, BodyOf
  <2>3. Rest(m, sp, k) = SpellParam(m, sp, k + 1) \o Rest(m, sp, k + 1)
    BY <1>1, RestSteps
  <2> QED BY <1>1, <1>3, <2>2, <2>3
<1>5. Rest(m, sp, Len(params)) = Spaces(after) /\ \A k \in 0 .. Len(params) : Rest(m, sp, k) \in Strings
  BY <1>1, RestSteps
<1> QED BY <1>2, <1>4, <1>5 DEF m, sp

(* Texts put together *)

Three(s, t, u) == s \in Strings /\ t \in Strings /\ u \in Strings

LEMMA Regroup ==
  ASSUME NEW s, NEW t, NEW u, Three(s, t, u)
  PROVE  (s \o t) \o u = s \o (t \o u) /\ s \o t \in Strings /\ t \o u \in Strings
<1>1. s \in Strings /\ t \in Strings /\ u \in Strings
  BY DEF Three
<1>2. (s \o t) \o u = s \o (t \o u)
  BY <1>1, StringsAssociate
<1>3. s \o t \in Strings /\ t \o u \in Strings
  BY <1>1, StringsConcat
<1> QED BY <1>2, <1>3

LEMMA OneCharacter ==
  ASSUME NEW x \in Characters
  PROVE  <<x>> \in Strings
BY DEF Strings

LEMMA AddEmpty ==
  ASSUME NEW s \in Strings
  PROVE  <<>> \o s = s /\ s \o <<>> = s
BY ConcatEmptySeq DEF Strings

(* A text from its two parts, and the literals of the commands *)
LEMMA PutTogether ==
  ASSUME NEW S, NEW s \in Seq(S), NEW t \in Seq(S), NEW u \in Seq(S), Len(u) = Len(s) + Len(t),
         \A i \in 1 .. Len(s) : u[i] = s[i], \A i \in 1 .. Len(t) : u[Len(s) + i] = t[i]
  PROVE  s \o t = u
<1> DEFINE v == s \o t
<1>1. /\ v \in Seq(S) /\ Len(v) = Len(s) + Len(t) /\ Len(s) \in Nat /\ Len(t) \in Nat
      /\ \A i \in 1 .. Len(v) : v[i] = IF i <= Len(s) THEN s[i] ELSE t[i - Len(s)]
  BY ConcatProperties, LenProperties
<1> HIDE DEF v
<1>2. ASSUME NEW i \in 1 .. Len(v) PROVE v[i] = u[i]
  <2>1. CASE i <= Len(s)
    <3>1. i \in 1 .. Len(s)
      BY <1>1, <2>1
    <3> QED BY <1>1, <2>1, <3>1
  <2>2. CASE ~(i <= Len(s))
    <3> DEFINE j == i - Len(s)
    <3>1. j \in 1 .. Len(t) /\ Len(s) + j = i
      BY <1>1, <2>2
    <3>2. v[i] = t[j]
      BY <1>1, <2>2
    <3> HIDE DEF j
    <3>3. u[Len(s) + j] = t[j]
      BY <3>1
    <3> QED BY <3>1, <3>2, <3>3
  <2> QED BY <2>1, <2>2
<1>3. v = u
  BY <1>1, <1>2, SeqEqual
<1> QED BY <1>3 DEF v

LEMMA Pair ==
  ASSUME NEW x, NEW y
  PROVE  <<x>> \o <<y>> = <<x, y>>
<1> DEFINE S == {x, y}
           s == <<x>>
           t == <<y>>
           u == <<x, y>>
<1>1. /\ s \in Seq(S) /\ Len(s) = 1 /\ s[1] = x
      /\ t \in Seq(S) /\ Len(t) = 1 /\ t[1] = y
      /\ u \in Seq(S) /\ Len(u) = 2 /\ u[1] = x /\ u[2] = y
  OBVIOUS
<1> HIDE DEF S, s, t, u
<1>2. \A i \in 1 .. 1 : i = 1 /\ 1 + i = 2
  OBVIOUS
<1>3. /\ Len(u) = Len(s) + Len(t) /\ \A i \in 1 .. Len(s) : u[i] = s[i]
      /\ \A i \in 1 .. Len(t) : u[Len(s) + i] = t[i]
  BY <1>1, <1>2
<1>4. s \o t = u
  BY <1>1, <1>3, PutTogether
<1> QED BY <1>4 DEF s, t, u

LEMMA Triple ==
  ASSUME NEW x, NEW y, NEW z
  PROVE  <<x>> \o <<y, z>> = <<x, y, z>>
<1> DEFINE S == {x, y, z}
           s == <<x>>
           t == <<y, z>>
           u == <<x, y, z>>
<1>1. /\ s \in Seq(S) /\ Len(s) = 1 /\ s[1] = x
      /\ t \in Seq(S) /\ Len(t) = 2 /\ t[1] = y /\ t[2] = z
      /\ u \in Seq(S) /\ Len(u) = 3 /\ u[1] = x /\ u[2] = y /\ u[3] = z
  OBVIOUS
<1> HIDE DEF S, s, t, u
<1>2. (\A i \in 1 .. 1 : i = 1) /\ \A i \in 1 .. 2 : (i = 1 /\ 1 + i = 2) \/ (i = 2 /\ 1 + i = 3)
  OBVIOUS
<1>3. /\ Len(u) = Len(s) + Len(t) /\ \A i \in 1 .. Len(s) : u[i] = s[i]
      /\ \A i \in 1 .. Len(t) : u[Len(s) + i] = t[i]
  BY <1>1, <1>2
<1>4. s \o t = u
  BY <1>1, <1>3, PutTogether
<1> QED BY <1>4 DEF s, t, u

LEMMA Quadruple ==
  ASSUME NEW w, NEW x, NEW y, NEW z
  PROVE  <<w, x>> \o <<y, z>> = <<w, x, y, z>> /\ <<w, x, y>> \o <<z>> = <<w, x, y, z>>
<1> DEFINE S == {w, x, y, z}
           s == <<w, x>>
           t == <<y, z>>
           p == <<w, x, y>>
           q == <<z>>
           u == <<w, x, y, z>>
<1>1. /\ s \in Seq(S) /\ Len(s) = 2 /\ s[1] = w /\ s[2] = x
      /\ t \in Seq(S) /\ Len(t) = 2 /\ t[1] = y /\ t[2] = z
      /\ p \in Seq(S) /\ Len(p) = 3 /\ p[1] = w /\ p[2] = x /\ p[3] = y
      /\ q \in Seq(S) /\ Len(q) = 1 /\ q[1] = z
      /\ u \in Seq(S) /\ Len(u) = 4 /\ u[1] = w /\ u[2] = x /\ u[3] = y /\ u[4] = z
  OBVIOUS
<1> HIDE DEF S, s, t, p, q, u
<1>2. /\ \A i \in 1 .. 1 : i = 1 /\ 3 + i = 4
      /\ \A i \in 1 .. 2 : (i = 1 /\ 2 + i = 3) \/ (i = 2 /\ 2 + i = 4)
      /\ \A i \in 1 .. 3 : i = 1 \/ i = 2 \/ i = 3
  OBVIOUS
<1>3. s \o t = u
  <2>1. /\ Len(u) = Len(s) + Len(t) /\ \A i \in 1 .. Len(s) : u[i] = s[i]
        /\ \A i \in 1 .. Len(t) : u[Len(s) + i] = t[i]
    BY <1>1, <1>2
  <2> QED BY <1>1, <2>1, PutTogether
<1>4. p \o q = u
  <2>1. /\ Len(u) = Len(p) + Len(q) /\ \A i \in 1 .. Len(p) : u[i] = p[i]
        /\ \A i \in 1 .. Len(q) : u[Len(p) + i] = q[i]
    BY <1>1, <1>2
  <2> QED BY <1>1, <2>1, PutTogether
<1> QED BY <1>3, <1>4 DEF s, t, p, q, u

(* A list of one *)
LEMMA OneItem ==
  ASSUME NEW s \in Strings
  PROVE  <<s>> \in Lists /\ Joined(<<s>>, Comma) = s /\ Len(<<s>>) = 1
<1>1. <<s>> \in Lists /\ Len(<<s>>) = 1
  BY DEF Lists
<1>2. Joined(<<s>>, Comma) = s
  BY AreCharacters, JoinedOne DEF Strings
<1> QED BY <1>1, <1>2

LEMMA MarkedIs ==
  ASSUME NEW s \in Strings
  PROVE  Marked(s) \in Strings /\ <<Space>> \o (<<":">> \o s) = Marked(s)
<1> DEFINE a == <<Space>>
           c == <<":">>
<1>1. a \in Strings /\ c \in Strings
  BY AreCharacters, OneCharacter
<1>2. a \o c = <<Space, ":">>
  BY Pair
<1>3. Marked(s) = (a \o c) \o s
  BY <1>2 DEF Marked
<1> HIDE DEF a, c
<1>4. Three(a, c, s)
  BY <1>1 DEF Three
<1>5. (a \o c) \o s = a \o (c \o s) /\ a \o c \in Strings
  BY <1>4, Regroup
<1>6. (a \o c) \o s \in Strings
  <2> DEFINE d == a \o c
  <2>1. d \in Strings
    BY <1>5
  <2> HIDE DEF d
  <2>2. d \o s \in Strings
    BY <2>1, StringsConcat
  <2> QED BY <2>2 DEF d
<1> QED BY <1>3, <1>5, <1>6 DEF a, c

(* A parameter that is a text *)
LEMMA MiddleSpelled ==
  ASSUME NEW name, IsName(name), NEW params \in Seq(Lists), NEW after \in 0 .. 1, NEW mark \in BOOLEAN,
         NEW k \in 0 .. Len(params) - 1, NEW t \in Strings, params[k + 1] = <<t>>,
         ~(mark /\ k + 1 = Len(params))
  PROVE  LET m  == Message(NoSource, name, params)
             sp == Sp(after, mark)
         IN  Rest(m, sp, k) = (<<Space>> \o t) \o Rest(m, sp, k + 1)
<1> DEFINE m  == Message(NoSource, name, params)
           sp == Sp(after, mark)
<1>1. m.params = params
  BY IsWritten
<1>2. sp.mark = mark
  BY SpellingIs
<1>3. Rest(m, sp, k) = (<<Space>> \o Body(m, sp, k + 1)) \o Rest(m, sp, k + 1)
  BY PlainlySpelled
<1> HIDE DEF m, sp
<1>4. Joined(params[k + 1], Comma) = t
  BY OneItem
<1>5. Body(m, sp, k + 1) = <<>> \o t
  BY <1>1, <1>2, <1>4 DEF Body
<1>6. <<>> \o t = t
  BY AddEmpty
<1>7. Rest(m, sp, k) = (<<Space>> \o t) \o Rest(m, sp, k + 1)
  BY <1>3, <1>5, <1>6
<1> QED BY <1>7 DEF m, sp

(* A last parameter that is marked *)
LEMMA MarkedSpelled ==
  ASSUME NEW name, IsName(name), NEW params \in Seq(Lists), params # <<>>,
         NEW s \in Strings, params[Len(params)] = <<s>>,
         \A i \in 1 .. Len(params) - 1 : IsMiddle(params[i])
  PROVE  LET m  == Message(NoSource, name, params)
             sp == Sp(0, TRUE)
         IN  /\ IsMessage(m) /\ sp \in Spellings /\ CanSpell(m, sp)
             /\ Spell(m, sp) = <<name>> \o Rest(m, sp, 0)
             /\ Rest(m, sp, Len(params) - 1) = Marked(s)
<1> DEFINE m  == Message(NoSource, name, params)
           sp == Sp(0, TRUE)
<1>1. IsMessage(m) /\ m.params = params
  BY IsWritten
<1>2. 0 \in 0 .. 1 /\ TRUE \in BOOLEAN
  OBVIOUS
<1>3. sp \in Spellings /\ sp.after = 0 /\ sp.mark = TRUE
  BY <1>2, SpellingIs
<1>4. Spell(m, sp) = <<name>> \o Rest(m, sp, 0) /\ Rest(m, sp, Len(params)) = Spaces(0)
  BY <1>2, PlainlySpelled
<1>5. Len(params) \in Nat /\ Len(params) - 1 \in 0 .. Len(params) - 1 /\ Len(params) - 1 + 1 = Len(params)
  BY LenProperties, EmptySeq
<1>6. Rest(m, sp, Len(params) - 1)
        = (<<Space>> \o Body(m, sp, Len(params))) \o Rest(m, sp, Len(params))
  <2> DEFINE k == Len(params) - 1
  <2>1. k \in 0 .. Len(params) - 1 /\ k + 1 = Len(params)
    BY <1>5
  <2> HIDE DEF k
  <2>2. Rest(m, sp, k) = (<<Space>> \o Body(m, sp, k + 1)) \o Rest(m, sp, k + 1)
    BY <1>2, <2>1, PlainlySpelled
  <2> HIDE DEF m, sp
  <2>3. Rest(m, sp, k) = (<<Space>> \o Body(m, sp, Len(params))) \o Rest(m, sp, Len(params))
    BY <2>1, <2>2
  <2> QED BY <2>3 DEF k
<1> HIDE DEF m, sp
<1>7. Joined(params[Len(params)], Comma) = s /\ Len(params[Len(params)]) = 1
  BY OneItem
<1>8. Body(m, sp, Len(params)) = <<":">> \o s
  BY <1>1, <1>3, <1>7 DEF Body
<1>9. Spaces(0) = <<>>
  BY SpacesAre
<1>10. Rest(m, sp, Len(params) - 1) = Marked(s) \o <<>>
  <2>1. <<Space>> \o (<<":">> \o s) = Marked(s)
    BY MarkedIs
  <2> QED BY <1>4, <1>6, <1>8, <1>9, <2>1
<1>11. Marked(s) \o <<>> = Marked(s)
  BY MarkedIs, AddEmpty
<1>12. CanSpell(m, sp)
  <2>1. \A i \in 1 .. Len(m.params) - (IF sp.mark THEN 1 ELSE 0) : IsMiddle(m.params[i])
    BY <1>1, <1>3
  <2>2. m.params # <<>> /\ Len(m.params[Len(m.params)]) = 1 /\ sp.after = 0
    BY <1>1, <1>3, <1>7
  <2> QED BY <2>1, <2>2 DEF CanSpell
<1>13. Rest(m, sp, Len(params) - 1) = Marked(s)
  BY <1>10, <1>11
<1> QED BY <1>1, <1>3, <1>4, <1>12, <1>13 DEF m, sp

LEMMA TextIsSpelled ==
  ASSUME NEW name, IsName(name), NEW s \in Strings
  PROVE  /\ IsMessage(Message(NoSource, name, << <<s>> >>))
         /\ IsSpelled(<<name>> \o Marked(s), Message(NoSource, name, << <<s>> >>))
<1> DEFINE params == << <<s>> >>
           m  == Message(NoSource, name, params)
           sp == Sp(0, TRUE)
<1>1. <<s>> \in Lists
  BY OneItem
<1>2. params \in Seq(Lists) /\ Len(params) = 1 /\ params[1] = <<s>> /\ params # <<>>
  BY <1>1
<1> HIDE DEF params
<1>3. \A i \in 1 .. Len(params) - 1 : IsMiddle(params[i])
  BY <1>2
<1>4. /\ IsMessage(m) /\ sp \in Spellings /\ CanSpell(m, sp)
      /\ Spell(m, sp) = <<name>> \o Rest(m, sp, 0)
      /\ Rest(m, sp, Len(params) - 1) = Marked(s)
  BY <1>2, <1>3, MarkedSpelled
<1> HIDE DEF m, sp
<1>5. Rest(m, sp, 0) = Marked(s)
  <2>1. Len(params) - 1 = 0
    BY <1>2
  <2> QED BY <1>4, <2>1
<1>6. IsSpelled(<<name>> \o Marked(s), m)
  BY <1>4, <1>5 DEF IsSpelled
<1> QED BY <1>4, <1>6 DEF m, params

LEMMA PrivmsgIsSpelled ==
  ASSUME NEW name, IsName(name), NEW target \in Strings, IsMiddle(<<target>>), NEW s \in Strings
  PROVE  /\ IsMessage(Message(NoSource, name, << <<target>>, <<s>> >>))
         /\ IsSpelled(<<name, Space>> \o Joined(<<target>>, Comma) \o Marked(s),
                      Message(NoSource, name, << <<target>>, <<s>> >>))
<1> DEFINE params == << <<target>>, <<s>> >>
           m  == Message(NoSource, name, params)
           sp == Sp(0, TRUE)
<1>1. <<s>> \in Lists /\ <<target>> \in Lists /\ Joined(<<target>>, Comma) = target
  BY OneItem
<1>2. /\ params \in Seq(Lists) /\ Len(params) = 2 /\ params[1] = <<target>> /\ params[2] = <<s>>
      /\ params # <<>>
  BY <1>1
<1> HIDE DEF params
<1>3. \A i \in 1 .. Len(params) - 1 : IsMiddle(params[i])
  <2>1. \A i \in 1 .. 2 - 1 : i = 1
    OBVIOUS
  <2> QED BY <1>2, <2>1
<1>4. /\ IsMessage(m) /\ sp \in Spellings /\ CanSpell(m, sp)
      /\ Spell(m, sp) = <<name>> \o Rest(m, sp, 0)
      /\ Rest(m, sp, Len(params) - 1) = Marked(s)
  BY <1>2, <1>3, MarkedSpelled
<1>5. Rest(m, sp, 0) = (<<Space>> \o target) \o Rest(m, sp, 0 + 1)
  <2>1. /\ 0 \in 0 .. Len(params) - 1 /\ params[0 + 1] = <<target>>
        /\ ~(TRUE /\ 0 + 1 = Len(params)) /\ 0 \in 0 .. 1 /\ TRUE \in BOOLEAN
    BY <1>2
  <2> QED BY <1>2, <2>1, MiddleSpelled
<1> HIDE DEF m, sp
<1>6. Rest(m, sp, 0) = (<<Space>> \o target) \o Marked(s)
  <2>1. Len(params) - 1 = 1 /\ 0 + 1 = 1
    BY <1>2
  <2> QED BY <1>4, <1>5, <2>1
<1> DEFINE a == <<Space>>
           c == <<name>>
           d == Marked(s)
<1>7. a \in Strings /\ c \in Strings /\ d \in Strings
  BY AreCharacters, OneCharacter, MarkedIs DEF IsName
<1>8. c \o a = <<name, Space>>
  BY Pair
<1>9. <<name, Space>> \o Joined(<<target>>, Comma) \o Marked(s) = ((c \o a) \o target) \o d
  BY <1>1, <1>8
<1>10. Spell(m, sp) = c \o ((a \o target) \o d)
  BY <1>4, <1>6
<1> HIDE DEF a, c, d
<1>11. (c \o a) \o target = c \o (a \o target) /\ a \o target \in Strings
  <2>1. Three(c, a, target)
    BY <1>7 DEF Three
  <2> QED BY <2>1, Regroup
<1> DEFINE e == a \o target
<1>12. Three(c, e, d)
  BY <1>7, <1>11 DEF Three
<1>13. Spell(m, sp) = c \o (e \o d) /\ ((c \o a) \o target) \o d = (c \o e) \o d
  BY <1>10, <1>11
<1> HIDE DEF e
<1>14. (c \o e) \o d = c \o (e \o d)
  BY <1>12, Regroup
<1>15. IsSpelled(<<name, Space>> \o Joined(<<target>>, Comma) \o Marked(s), m)
  <2>1. Spell(m, sp) = <<name, Space>> \o Joined(<<target>>, Comma) \o Marked(s)
    BY <1>9, <1>13, <1>14
  <2> QED BY <1>4, <2>1 DEF IsSpelled
<1> QED BY <1>4, <1>15 DEF m, params

Five(c, e, f, g, d) == Three(c, e, f) /\ Three(f, g, d)
Reassociates(c, e, f, g, d) == ((c \o e) \o (f \o g)) \o d = c \o (e \o (f \o (g \o d)))

LEMMA FiveAssociate ==
  ASSUME NEW c, NEW e, NEW f, NEW g, NEW d, Five(c, e, f, g, d)
  PROVE  Reassociates(c, e, f, g, d)
<1> DEFINE h == f \o g
           k == g \o d
           l == f \o k
           n == c \o e
<1>0. Three(c, e, f) /\ Three(f, g, d)
  BY DEF Five
<1>1. c \in Strings /\ e \in Strings /\ f \in Strings /\ d \in Strings
  BY <1>0 DEF Three
<1>2. h \o d = l /\ h \in Strings /\ k \in Strings
  BY <1>0, Regroup
<1>3. n \in Strings
  BY <1>0, Regroup
<1> HIDE DEF h, k, n
<1>4. l \in Strings
  BY <1>1, <1>2, StringsConcat
<1> HIDE DEF l
<1>5. Three(n, h, d) /\ Three(c, e, l)
  BY <1>1, <1>2, <1>3, <1>4 DEF Three
<1>6. (n \o h) \o d = n \o (h \o d)
  BY <1>5, Regroup
<1>7. (c \o e) \o l = c \o (e \o l)
  BY <1>5, Regroup
<1>8. (n \o h) \o d = n \o l
  BY <1>2, <1>6
<1>9. n \o l = c \o (e \o l)
  BY <1>7 DEF n
<1> QED BY <1>8, <1>9 DEF h, k, l, n, Reassociates

LEMMA UserIsSpelled ==
  ASSUME NEW name, IsName(name), NEW user \in Strings, IsMiddle(<<user>>), NEW s \in Strings
  PROVE  LET m == Message(NoSource, name, << <<user>>, << <<"0">> >>, << <<"*">> >>, <<s>> >>)
         IN  /\ IsMessage(m)
             /\ IsSpelled(<<name, Space>> \o user \o <<Space, "0", Space, "*">> \o Marked(s), m)
<1> DEFINE zero == <<"0">>
           star == <<"*">>
           params == << <<user>>, <<zero>>, <<star>>, <<s>> >>
           m  == Message(NoSource, name, params)
           sp == Sp(0, TRUE)
<1>1. /\ zero \in Strings /\ zero # <<>> /\ zero[1] # ":" /\ ToSet(zero) = {"0"}
      /\ star \in Strings /\ star # <<>> /\ star[1] # ":" /\ ToSet(star) = {"*"}
  <2>1. "0" \in Characters /\ "*" \in Characters
    BY NamesAre
  <2>2. zero \in Strings /\ star \in Strings
    BY <2>1, OneCharacter
  <2> QED BY <2>2, InOne
<1>2. "0" # Space /\ "0" # Comma /\ "*" # Space /\ "*" # Comma
  BY NamesAre
<1> HIDE DEF zero, star
<1>3. IsMiddle(<<zero>>) /\ IsMiddle(<<star>>)
  <2>1. IsMiddle(<<zero>>)
    BY <1>1, <1>2, OneMiddle
  <2>2. IsMiddle(<<star>>)
    BY <1>1, <1>2, OneMiddle
  <2> QED BY <2>1, <2>2
<1>4. <<user>> \in Lists /\ <<zero>> \in Lists /\ <<star>> \in Lists /\ <<s>> \in Lists
  BY <1>1, OneItem
<1>5. /\ params \in Seq(Lists) /\ Len(params) = 4 /\ params # <<>>
      /\ params[1] = <<user>> /\ params[2] = <<zero>> /\ params[3] = <<star>> /\ params[4] = <<s>>
  BY <1>4
<1> HIDE DEF params
<1>6. \A i \in 1 .. Len(params) - 1 : IsMiddle(params[i])
  <2>1. \A i \in 1 .. 4 - 1 : i = 1 \/ i = 2 \/ i = 3
    OBVIOUS
  <2> QED BY <1>3, <1>5, <2>1
<1>7. /\ IsMessage(m) /\ sp \in Spellings /\ CanSpell(m, sp)
      /\ Spell(m, sp) = <<name>> \o Rest(m, sp, 0)
      /\ Rest(m, sp, Len(params) - 1) = Marked(s)
  BY <1>5, <1>6, MarkedSpelled
<1>8. 0 \in 0 .. 1 /\ TRUE \in BOOLEAN
  OBVIOUS
<1>20. zero \in Strings /\ star \in Strings
  BY <1>1
<1> DEFINE a == <<Space>>
<1>21. params \in Seq(Lists)
  BY <1>5
<1>22. ASSUME NEW k \in 0 .. Len(params) - 1, NEW t \in Strings, params[k + 1] = <<t>>,
              k + 1 # Len(params)
       PROVE  Rest(m, sp, k) = (a \o t) \o Rest(m, sp, k + 1)
  BY <1>8, <1>21, <1>22, MiddleSpelled
<1> HIDE DEF m, sp, a
<1>9. Rest(m, sp, 0) = (a \o user) \o Rest(m, sp, 0 + 1)
  <2>1. 0 \in 0 .. Len(params) - 1 /\ params[0 + 1] = <<user>> /\ 0 + 1 # Len(params)
    BY <1>5
  <2> QED BY <1>22, <2>1
<1>10. Rest(m, sp, 1) = (a \o zero) \o Rest(m, sp, 1 + 1)
  <2>1. 1 \in 0 .. Len(params) - 1 /\ params[1 + 1] = <<zero>> /\ 1 + 1 # Len(params)
    BY <1>5
  <2> QED BY <1>20, <1>22, <2>1
<1>11. Rest(m, sp, 2) = (a \o star) \o Rest(m, sp, 2 + 1)
  <2>1. 2 \in 0 .. Len(params) - 1 /\ params[2 + 1] = <<star>> /\ 2 + 1 # Len(params)
    BY <1>5
  <2> QED BY <1>20, <1>22, <2>1
<1> DEFINE c == <<name>>
           d == Marked(s)
           e == a \o user
           f == a \o zero
           g == a \o star
<1> HIDE DEF m, sp
<1>12. Spell(m, sp) = c \o (e \o (f \o (g \o d)))
  <2>1. 0 + 1 = 1 /\ 1 + 1 = 2 /\ 2 + 1 = 3 /\ Len(params) - 1 = 3
    BY <1>5
  <2>2. Rest(m, sp, 3) = d
    BY <1>7, <2>1
  <2> HIDE DEF c, d, e, f, g
  <2>3. Rest(m, sp, 2) = g \o d
    BY <1>11, <2>1, <2>2 DEF g
  <2>4. Rest(m, sp, 1) = f \o (g \o d)
    BY <1>10, <2>1, <2>3 DEF f
  <2>5. Rest(m, sp, 0) = e \o (f \o (g \o d))
    BY <1>9, <2>1, <2>4 DEF e
  <2> QED BY <1>7, <2>5 DEF c
<1>13. a \in Strings /\ c \in Strings /\ d \in Strings
  BY AreCharacters, OneCharacter, MarkedIs DEF IsName, a
<1>14. c \o a = <<name, Space>>
  BY Pair DEF a
<1>15. f \o g = <<Space, "0", Space, "*">>
  <2>1. f = <<Space, "0">>
    BY Pair DEF zero, a
  <2>2. g = <<Space, "*">>
    BY Pair DEF star, a
  <2> HIDE DEF f, g
  <2> QED BY <2>1, <2>2, Quadruple
<1> HIDE DEF a, c, d
<1>16. e \in Strings /\ f \in Strings /\ g \in Strings
  BY <1>1, <1>13, StringsConcat
<1>17. (c \o a) \o user = c \o e
  <2>1. Three(c, a, user)
    BY <1>13 DEF Three
  <2> QED BY <2>1, Regroup
<1> HIDE DEF e, f, g
<1>18. ((c \o e) \o (f \o g)) \o d = c \o (e \o (f \o (g \o d)))
  <2>1. Five(c, e, f, g, d)
    BY <1>13, <1>16 DEF Three, Five
  <2>2. Reassociates(c, e, f, g, d)
    BY <2>1, FiveAssociate
  <2> QED BY <2>2 DEF Reassociates
<1>19. <<name, Space>> \o user \o <<Space, "0", Space, "*">> \o Marked(s) = Spell(m, sp)
  <2>1. <<name, Space>> \o user \o <<Space, "0", Space, "*">> \o Marked(s)
          = (((c \o a) \o user) \o (f \o g)) \o d
    BY <1>14, <1>15 DEF d
  <2>2. (((c \o a) \o user) \o (f \o g)) \o d = ((c \o e) \o (f \o g)) \o d
    BY <1>17
  <2> QED BY <1>12, <1>18, <2>1, <2>2
<1> QED BY <1>7, <1>19 DEF m, params, IsSpelled, zero, star

LEMMA JoinIsSpelled ==
  ASSUME NEW name, IsName(name), NEW channel \in Strings, IsMiddle(<<channel>>)
  PROVE  /\ IsMessage(Message(NoSource, name, << <<channel>> >>))
         /\ IsSpelled(<<name, Space>> \o Joined(<<channel>>, Comma) \o <<Space>>,
                      Message(NoSource, name, << <<channel>> >>))
<1> DEFINE params == << <<channel>> >>
           m  == Message(NoSource, name, params)
           sp == Sp(1, FALSE)
           a == <<Space>>
           c == <<name>>
<1>1. <<channel>> \in Lists /\ Joined(<<channel>>, Comma) = channel
  BY OneItem
<1>2. params \in Seq(Lists) /\ Len(params) = 1 /\ params[1] = <<channel>>
  BY <1>1
<1> HIDE DEF params
<1>3. 1 \in 0 .. 1 /\ FALSE \in BOOLEAN
  OBVIOUS
<1>4. IsMessage(m) /\ m.params = params
  BY <1>2, IsWritten
<1>5. sp \in Spellings /\ sp.mark = FALSE
  BY <1>3, SpellingIs
<1>6. Spell(m, sp) = c \o Rest(m, sp, 0) /\ Rest(m, sp, Len(params)) = Spaces(1)
  BY <1>2, <1>3, PlainlySpelled
<1>7. Rest(m, sp, 0) = (a \o channel) \o Rest(m, sp, 0 + 1)
  <2>1. 0 \in 0 .. Len(params) - 1 /\ params[0 + 1] = <<channel>> /\ ~(FALSE /\ 0 + 1 = Len(params))
    BY <1>2
  <2> QED BY <1>2, <1>3, <2>1, MiddleSpelled
<1> HIDE DEF m, sp
<1>8. Spaces(1) = a
  BY DEF Spaces
<1>9. Spell(m, sp) = c \o ((a \o channel) \o a)
  <2>1. Len(params) = 0 + 1
    BY <1>2
  <2> HIDE DEF a, c
  <2>2. Rest(m, sp, 0) = (a \o channel) \o a
    BY <1>6, <1>7, <1>8, <2>1
  <2> QED BY <1>6, <2>2
<1>10. CanSpell(m, sp)
  <2>1. \A i \in 1 .. Len(m.params) - (IF sp.mark THEN 1 ELSE 0) : IsMiddle(m.params[i])
    <3>1. \A i \in 1 .. 1 - 0 : i = 1
      OBVIOUS
    <3> QED BY <1>2, <1>4, <1>5, <3>1
  <2> QED BY <1>5, <2>1 DEF CanSpell
<1>11. a \in Strings /\ c \in Strings
  BY AreCharacters, OneCharacter DEF IsName
<1>12. <<name, Space>> \o Joined(<<channel>>, Comma) \o <<Space>> = ((c \o a) \o channel) \o a
  <2>1. c \o a = <<name, Space>>
    BY Pair
  <2> QED BY <1>1, <2>1
<1> HIDE DEF a, c
<1>13. (c \o a) \o channel = c \o (a \o channel) /\ a \o channel \in Strings
  <2>1. Three(c, a, channel)
    BY <1>11 DEF Three
  <2> QED BY <2>1, Regroup
<1> DEFINE e == a \o channel
<1>14. Three(c, e, a)
  BY <1>11, <1>13 DEF Three
<1>15. Spell(m, sp) = c \o (e \o a) /\ ((c \o a) \o channel) \o a = (c \o e) \o a
  BY <1>9, <1>13
<1> HIDE DEF e
<1>16. (c \o e) \o a = c \o (e \o a)
  BY <1>14, Regroup
<1>17. IsSpelled(<<name, Space>> \o Joined(<<channel>>, Comma) \o <<Space>>, m)
  <2>1. Spell(m, sp) = <<name, Space>> \o Joined(<<channel>>, Comma) \o <<Space>>
    BY <1>12, <1>15, <1>16
  <2> QED BY <1>5, <1>10, <2>1 DEF IsSpelled
<1> QED BY <1>4, <1>17 DEF m, params

(* A USER is not read as what it is meant to say if its username cannot be *)
(* written without a colon.                                                *)
LEMMA UserIsCut ==
  ASSUME NEW user \in Strings, ~IsMiddle(<<user>>), NEW r \in Strings,
         NEW m, m.name = "USER", m.params[1] = <<user>>
  PROVE  ~ReadAs(<<"USER">> \o (<<Space>> \o r), m)
<1> DEFINE N == <<"USER">>
           a == <<Space>>
           s == N \o (a \o r)
           args == ParseParams(r)
           message == Command("USER", args)
<1>1. /\ N \in Strings /\ Space \notin ToSet(N) /\ Len(N) = 1 /\ N[1] = "USER" /\ N # <<>>
      /\ "USER" # Space /\ "USER" # ":" /\ "USER" # "@"
  BY NamesAre, InOne DEF IsName, Strings
<1>2. a \o r \in Strings
  BY AreCharacters, TailOfOne DEF Strings
<1>3. Before(s, Space) = N /\ After(s, Space) = r
  BY <1>1, AreCharacters, AtIndex DEF Strings
<1>4. ParseCommand(s) = message
  BY <1>1, <1>3 DEF ParseCommand
<1>5. s \in Strings /\ s # <<>> /\ s[1] = "USER"
  <2> HIDE DEF N
  <2> DEFINE w == a \o r
  <2>1. w \in Strings
    BY <1>2
  <2> HIDE DEF w
  <2>2. N \o w \in Strings /\ N \o w # <<>> /\ (N \o w)[1] = "USER"
    BY <1>1, <2>1, FirstOfConcat, StringsConcat DEF Strings
  <2> QED BY <2>2 DEF w
<1> HIDE DEF s, message
<1>6. TrimSpaces(s) = s /\ ~StartsWith(s, ":") /\ ~StartsWith(s, "@")
  BY <1>1, <1>5, Trimmed DEF StartsWith, Strings
<1>7. IsSource(NoSource)
  BY DEF IsSource, NoSource
<1>8. Parse(s) = IF "fate" \in DOMAIN message THEN message
                 ELSE [fate |-> "ok", source |-> NoSource, message |-> message]
  BY <1>4, <1>5, <1>6, <1>7 DEF Parse
<1>9. "USER" \in DOMAIN Needs /\ "USER" \notin Unfinished /\ Needs["USER"] = 4 /\ Plain["USER"] = {1, 4}
  BY DEF Needs, Unfinished, Plain
<1>10. message = IF WellFormed("USER", args) THEN Meaning("USER", args) ELSE Failed
  BY <1>9, CommandIs DEF message
<1>11. ASSUME ~WellFormed("USER", args) PROVE ~ReadAs(s, m)
  BY <1>8, <1>10, <1>11 DEF Failed, ReadAs
<1>12. ASSUME WellFormed("USER", args) PROVE ~ReadAs(s, m)
  <2> HIDE DEF args
  <2> DEFINE texts == [i \in {1, 4} \cap DOMAIN args |-> args[i].items[1]]
  <2>1. Len(args) \in Nat /\ DOMAIN args = 1 .. Len(args) /\ (Len(args) >= 2 => Unmarkable(args[1]))
    BY FirstParam DEF args
  <2>2. Len(args) >= 4 /\ \A i \in {1, 4} \cap DOMAIN args : ~args[i].list
    BY <1>9, <1>12 DEF WellFormed
  <2>3. 1 \in {1, 4} \cap DOMAIN args
    BY <2>1, <2>2
  <2>4. IsMiddle(<<args[1].items[1]>>)
    BY <2>1, <2>2, <2>3 DEF Unmarkable
  <2>5. message = [kind |-> "USER", texts |-> texts]
    <3>1. "USER" \notin {"JOIN", "MODE", "PRIVMSG", "NOTICE", "PART"}
      OBVIOUS
    <3>2. Meaning("USER", args)
            = [kind |-> "USER", texts |-> [i \in Plain["USER"] \cap DOMAIN args |-> args[i].items[1]]]
      BY ONLY <3>1, MeaningIs
    <3> QED BY <1>9, <1>10, <1>12, <3>2, Zenon
  <2>6. 1 \in DOMAIN texts /\ texts[1] = args[1].items[1]
    BY <2>3
  <2> HIDE DEF texts
  <2>7. "fate" \notin DOMAIN message /\ message.texts = texts
    BY <2>5
  <2>8. Parse(s).message = message
    BY <1>8, <2>7
  <2>9. Says(message, m) => texts[1] = m.params[1][1]
    <3>1. \A p : Says(message, m) =>
            \A i \in DOMAIN message.texts : message.texts[i] = m.params[i][1]
      BY <1>9 DEF Says
    <3> QED BY <2>6, <2>7, <3>1
  <2>10. m.params[1][1] = user
    OBVIOUS
  <2>11. texts[1] # user
    BY <2>4, <2>6
  <2> QED BY <2>8, <2>9, <2>10, <2>11 DEF ReadAs
<1> QED BY <1>11, <1>12 DEF s

LEMMA LineOfUser ==
  ASSUME NEW user \in Strings, NEW s \in Strings
  PROVE  \E r \in Strings :
           <<"USER", Space>> \o user \o <<Space, "0", Space, "*">> \o Marked(s)
             = <<"USER">> \o (<<Space>> \o r)
<1> DEFINE N == <<"USER">>
           a == <<Space>>
           w == <<"USER", Space>>
           z == <<Space, "0", Space, "*">>
           d == Marked(s)
           e == user \o z
           r == e \o d
<1>1. N \in Strings /\ a \in Strings /\ w \in Strings /\ z \in Strings /\ d \in Strings
  BY NamesAre, AreCharacters, OneCharacter, MarkedIs DEF IsName, Strings
<1>2. N \o a = w
  BY Pair
<1> HIDE DEF N, a, w, z, d
<1>3. (w \o user) \o z = w \o e /\ e \in Strings
  <2>1. Three(w, user, z)
    BY <1>1 DEF Three
  <2> QED BY <2>1, Regroup
<1> HIDE DEF e
<1>4. (w \o e) \o d = w \o r /\ r \in Strings
  <2>1. Three(w, e, d)
    BY <1>1, <1>3 DEF Three
  <2> QED BY <2>1, Regroup
<1> HIDE DEF r
<1>5. (N \o a) \o r = N \o (a \o r)
  <2>1. Three(N, a, r)
    BY <1>1, <1>4 DEF Three
  <2> QED BY <2>1, Regroup
<1>6. ((w \o user) \o z) \o d = N \o (a \o r)
  BY <1>2, <1>3, <1>4, <1>5
<1> QED BY <1>4, <1>6 DEF N, a, w, z, d

LEMMA QuitIsSpelled ==
  ASSUME NEW name, IsName(name)
  PROVE  IsMessage(Message(NoSource, name, <<>>)) /\ IsSpelled(<<name>>, Message(NoSource, name, <<>>))
<1> DEFINE params == <<>>
           m  == Message(NoSource, name, params)
           sp == Sp(0, FALSE)
<1>1. params \in Seq(Lists) /\ Len(params) = 0
  OBVIOUS
<1> HIDE DEF params
<1>2. 0 \in 0 .. 1 /\ FALSE \in BOOLEAN
  OBVIOUS
<1>3. IsMessage(m) /\ m.params = params
  BY <1>1, IsWritten
<1>4. sp \in Spellings /\ sp.mark = FALSE
  BY <1>2, SpellingIs
<1>5. Spell(m, sp) = <<name>> \o Rest(m, sp, 0) /\ Rest(m, sp, Len(params)) = Spaces(0)
  <2>1. params \in Seq(Lists)
    BY <1>1
  <2> QED BY <1>2, <2>1, PlainlySpelled
<1> HIDE DEF m, sp
<1>6. Spell(m, sp) = <<name>>
  <2>1. Spaces(0) = <<>>
    BY SpacesAre
  <2>2. <<name>> \in Strings
    BY OneCharacter DEF IsName
  <2>3. <<name>> \o <<>> = <<name>>
    BY <2>2, AddEmpty
  <2> QED BY <1>1, <1>5, <2>1, <2>3
<1>7. CanSpell(m, sp)
  <2>1. \A i \in 1 .. Len(m.params) - (IF sp.mark THEN 1 ELSE 0) : IsMiddle(m.params[i])
    <3>1. \A i \in 1 .. 0 - 0 : FALSE
      OBVIOUS
    <3> QED BY <1>1, <1>3, <1>4, <3>1
  <2> QED BY <1>4, <2>1 DEF CanSpell
<1> QED BY <1>3, <1>4, <1>6, <1>7 DEF m, params, IsSpelled

-----------------------------------------------------------------------------
(* What is typed: a word and its arguments. *)

ArgsOf(s) == NonEmpty(SplitAll(s, Space))

(* The arguments of a text with something that is not a space *)
LEMMA SomeArgs ==
  ASSUME NEW s \in Strings, \E x \in ToSet(s) : x # Space
  PROVE  ArgsOf(s) # <<>>
<1> DEFINE F(t) == CutFold!Fold(Parts(Space, << <<>> >>), t)
           Cuts(t, p, q) == /\ F(t) = Parts(Space, Append(p, q))
                            /\ (\E x \in ToSet(t) : x # Space) => NonEmpty(Append(p, q)) # <<>>
           Good(t) == \E p \in Seq(Strings), q \in Strings : Cuts(t, p, q)
           T == {t \in Strings : Good(t)}
<1>1. <<>> \in T
  <2>1. F(<<>>) = Parts(Space, << <<>> >>) /\ << <<>> >> = Append(<<>>, <<>>)
    BY CutFold!FoldEmpty
  <2>2. <<>> \in Seq(Strings) /\ <<>> \in Strings
    BY EmptySeq DEF Strings
  <2> HIDE DEF F
  <2>3. Cuts(<<>>, <<>>, <<>>)
    BY <2>1, InNone
  <2> QED BY <2>2, <2>3
<1>2. ASSUME NEW t \in Seq(Characters), t \in T, NEW x \in Characters
      PROVE  Append(t, x) \in T
  <2>1. PICK p \in Seq(Strings), q \in Strings : Cuts(t, p, q)
    BY <1>2
  <2>2. F(Append(t, x)) = Cut(Parts(Space, Append(p, q)), x)
    <3>1. F(Append(t, x)) = Cut(F(t), x)
      BY CutFold!FoldAppend
    <3> QED BY <2>1, <3>1
  <2> HIDE DEF F
  <2>3. ToSet(Append(t, x)) = ToSet(t) \cup {x} /\ Append(t, x) \in Strings
    BY InAppend, AppendProperties DEF Strings
  <2>4. Append(p, q) \in Seq(Strings) /\ <<>> \in Strings /\ Append(q, x) \in Strings
    BY AppendProperties, EmptySeq DEF Strings
  <2>5. CASE x = Space
    <3>1. F(Append(t, x)) = Parts(Space, Append(Append(p, q), <<>>))
      BY <2>2, <2>5, CutAt
    <3>2. NonEmpty(Append(Append(p, q), <<>>)) = NonEmpty(Append(p, q))
      BY <2>4, NonEmptySteps DEF KeepNonEmpty
    <3>3. Cuts(Append(t, x), Append(p, q), <<>>)
      BY <2>1, <2>3, <2>5, <3>1, <3>2
    <3> HIDE DEF Cuts
    <3> QED BY <2>3, <2>4, <3>3
  <2>6. CASE x # Space
    <3>1. F(Append(t, x)) = Parts(Space, Append(p, Append(q, x)))
      <4>1. p \in Seq(Seq(Characters)) /\ q \in Seq(Characters)
        BY DEF Strings
      <4>2. Cut(Parts(Space, Append(p, q)), x) = Parts(Space, Append(p, Append(q, x)))
        BY <2>6, <4>1, CutWithin
      <4> QED BY <2>2, <4>2
    <3>3. Append(q, x) # <<>>
      BY AppendProperties, EmptySeq DEF Strings
    <3>4. NonEmpty(Append(p, Append(q, x))) # <<>>
      <4> DEFINE e == Append(q, x)
                 parts == Append(p, e)
                 n == Len(p) + 1
      <4>1. e \in Strings /\ e # <<>>
        BY <2>4, <3>3
      <4> HIDE DEF e
      <4>2. parts \in Seq(Strings) /\ n \in 1 .. Len(parts) /\ parts[n] = e
        BY <4>1, AppendProperties, LenProperties
      <4> HIDE DEF parts, n
      <4>3. NonEmpty(parts) # <<>>
        BY <4>1, <4>2, SomeKept
      <4> QED BY <4>3 DEF parts, e
    <3>5. Cuts(Append(t, x), p, Append(q, x))
      BY <3>1, <3>4
    <3> HIDE DEF Cuts
    <3> QED BY <2>3, <2>4, <3>5
  <2> QED BY <2>5, <2>6
<1> HIDE DEF T
<1>3. s \in T
  <2>1. Seq(Characters) \subseteq T
    BY <1>1, <1>2, SeqSetInduction
  <2> QED BY <2>1 DEF Strings
<1>4. PICK p \in Seq(Strings), q \in Strings : Cuts(s, p, q)
  BY <1>3 DEF T
<1>5. SplitAll(s, Space) = Append(p, q)
  <2>1. SplitAll(s, Space) = F(s).parts
    BY SplitIsFold
  <2> HIDE DEF F
  <2> QED BY <1>4, <2>1 DEF Parts
<1> HIDE DEF F
<1> QED BY <1>4, <1>5 DEF ArgsOf

LEMMA SplitOne ==
  ASSUME NEW c \in Characters, NEW s \in Strings, c \notin ToSet(s)
  PROVE  SplitAll(s, c) = <<s>>
<1> DEFINE parts == <<s>>
<1>1. parts \in Seq(Strings) /\ parts # <<>> /\ Len(parts) = 1 /\ parts[1] = s
  OBVIOUS
<1>2. Joined(parts, c) = s
  BY JoinedOne DEF Strings
<1>3. parts \in Seq(Seq(Characters))
  BY <1>1 DEF Strings
<1> HIDE DEF parts
<1>4. \A i \in 1 .. Len(parts) : c \notin ToSet(parts[i])
  BY <1>1
<1>5. SplitAll(Joined(parts, c), c) = parts
  BY <1>1, <1>3, <1>4, SplitJoined
<1> QED BY <1>2, <1>5 DEF parts

LEMMA SplitTwo ==
  ASSUME NEW c \in Characters, NEW s \in Strings, c \notin ToSet(s), NEW t \in Strings, c \notin ToSet(t)
  PROVE  SplitAll(s \o (<<c>> \o t), c) = <<s, t>>
<1> DEFINE one == <<s>>
           parts == <<s, t>>
<1>1. /\ one \in Seq(Strings) /\ one # <<>>
      /\ parts \in Seq(Strings) /\ parts # <<>> /\ Len(parts) = 2 /\ parts[1] = s /\ parts[2] = t
  OBVIOUS
<1>2. Joined(one, c) = s
  BY JoinedOne DEF Strings
<1>3. Append(one, t) = parts
  <2>1. one \o <<t>> = parts
    BY Pair
  <2> HIDE DEF one, parts
  <2>2. Append(one, t) = one \o <<t>>
    BY <1>1, AppendIsConcat
  <2> QED BY <2>1, <2>2
<1> HIDE DEF one, parts
<1>4. one \in Seq(Seq(Characters)) /\ parts \in Seq(Seq(Characters)) /\ t \in Seq(Characters)
  BY <1>1 DEF Strings
<1>5. Joined(Append(one, t), c) = Joined(one, c) \o (<<c>> \o t)
  <2>1. one # <<>>
    BY <1>1
  <2> QED BY <1>4, <2>1, JoinedAppend
<1>6. \A i \in 1 .. Len(parts) : c \notin ToSet(parts[i])
  <2>1. \A i \in 1 .. 2 : i = 1 \/ i = 2
    OBVIOUS
  <2> QED BY <1>1, <2>1
<1>7. SplitAll(Joined(parts, c), c) = parts
  <2>1. parts # <<>>
    BY <1>1
  <2> QED BY <1>4, <1>6, <2>1, SplitJoined
<1>8. Joined(parts, c) = s \o (<<c>> \o t)
  BY <1>2, <1>3, <1>5
<1> QED BY <1>7, <1>8 DEF parts

(* No arguments, one and two *)
LEMMA ArgsAreThere ==
  ASSUME NEW s \in Strings, Space \notin ToSet(s), s # <<>>,
         NEW t \in Strings, Space \notin ToSet(t), t # <<>>
  PROVE  /\ ArgsOf(<<>>) = <<>> /\ ArgsOf(<<Space>>) = <<>>
         /\ ArgsOf(s) = <<s>>
         /\ ArgsOf(s \o (<<Space>> \o t)) = <<s, t>>
<1>1. Space \in Characters /\ <<>> \in Strings /\ Space \notin ToSet(<<>>)
  BY AreCharacters, InNone, EmptySeq DEF Strings
<1>2. /\ SplitAll(<<>>, Space) = << <<>> >>
      /\ SplitAll(<<>> \o (<<Space>> \o <<>>), Space) = << <<>>, <<>> >>
      /\ SplitAll(s, Space) = <<s>>
      /\ SplitAll(s \o (<<Space>> \o t), Space) = <<s, t>>
  BY <1>1, SplitOne, SplitTwo
<1>3. <<>> \o (<<Space>> \o <<>>) = <<Space>>
  BY <1>1 DEF Strings
<1>4. NonEmpty(<< <<>> >>) = <<>> /\ NonEmpty(<< <<>>, <<>> >>) = <<>>
  <2> DEFINE S == {<<>>}
  <2>1. <<>> \in S /\ <<>> \in Seq(S) /\ << <<>> >> \in Seq(S)
    OBVIOUS
  <2>2. << <<>> >> = Append(<<>>, <<>>) /\ << <<>>, <<>> >> = Append(<< <<>> >>, <<>>)
    OBVIOUS
  <2> HIDE DEF S
  <2>3. NonEmpty(Append(<<>>, <<>>)) = KeepNonEmpty(NonEmpty(<<>>), <<>>)
    BY <2>1, NonEmptySteps
  <2>4. NonEmpty(Append(<< <<>> >>, <<>>)) = KeepNonEmpty(NonEmpty(<< <<>> >>), <<>>)
    BY <2>1, NonEmptySteps
  <2> QED BY <2>2, <2>3, <2>4, NonEmptySteps DEF KeepNonEmpty
<1>5. NonEmpty(<<s>>) = <<s>> /\ NonEmpty(<<s, t>>) = <<s, t>>
  <2>1. /\ <<s>> \in Seq(Strings) /\ Len(<<s>>) = 1 /\ <<s>>[1] = s
        /\ <<s, t>> \in Seq(Strings) /\ Len(<<s, t>>) = 2 /\ <<s, t>>[1] = s /\ <<s, t>>[2] = t
    OBVIOUS
  <2>2. \A i \in 1 .. 1 : i = 1
    OBVIOUS
  <2>3. \A i \in 1 .. 2 : i = 1 \/ i = 2
    OBVIOUS
  <2>4. NonEmpty(<<s>>) = <<s>>
    <3>1. \A i \in 1 .. Len(<<s>>) : <<s>>[i] # <<>>
      BY <2>1, <2>2
    <3> QED BY <2>1, <3>1, AllKept
  <2>5. NonEmpty(<<s, t>>) = <<s, t>>
    <3>1. \A i \in 1 .. Len(<<s, t>>) : <<s, t>>[i] # <<>>
      BY <2>1, <2>3
    <3> QED BY <2>1, <3>1, AllKept
  <2> QED BY <2>4, <2>5
<1> QED BY <1>2, <1>3, <1>4, <1>5 DEF ArgsOf

(* A slash, a word and what comes after a space *)
LEMMA SlashWord ==
  ASSUME NEW w \in Characters, w # Space, NEW r \in Strings
  PROVE  LET s == <<"/", w, Space>> \o r
         IN  /\ StartsWith(s, "/") /\ Tail(s) \in Strings
             /\ Before(Tail(s), Space) = <<w>> /\ After(Tail(s), Space) = r
<1> DEFINE a == <<"/">>
           b == <<w>>
           c == <<Space>>
           s == <<"/", w, Space>> \o r
           t == b \o (c \o r)
<1>1. a \in Strings /\ b \in Strings /\ c \in Strings /\ "/" \in Characters
  BY AreCharacters, NamesAre, OneCharacter
<1>2. Before(t, Space) = b /\ After(t, Space) = r
  <2>1. /\ b \in Seq(Characters) /\ r \in Seq(Characters) /\ Space \in Characters
        /\ Space \notin ToSet(b)
    BY <1>1, InOne, AreCharacters DEF Strings
  <2> HIDE DEF b
  <2> QED BY <2>1, AtIndex
<1>3. s = (a \o (b \o c)) \o r
  <2>1. b \o c = <<w, Space>>
    BY Pair
  <2>2. a \o <<w, Space>> = <<"/", w, Space>>
    BY Triple
  <2> HIDE DEF a, b, c
  <2> QED BY <2>1, <2>2
<1> HIDE DEF a, b, c, s
<1>4. b \o c \in Strings /\ (b \o c) \o r = t /\ c \o r \in Strings
  <2>1. Three(b, c, r)
    BY <1>1 DEF Three
  <2> QED BY <2>1, Regroup
<1>5. (a \o (b \o c)) \o r = a \o ((b \o c) \o r)
  <2> DEFINE d == b \o c
  <2>1. Three(a, d, r)
    BY <1>1, <1>4 DEF Three
  <2> HIDE DEF d
  <2>2. (a \o d) \o r = a \o (d \o r)
    BY <2>1, Regroup
  <2> QED BY <2>2 DEF d
<1>6. t \in Strings
  <2> DEFINE d == c \o r
  <2>1. d \in Strings
    BY <1>4
  <2> HIDE DEF d
  <2>2. b \o d \in Strings
    BY <1>1, <2>1, StringsConcat
  <2> QED BY <2>2 DEF d
<1> HIDE DEF t
<1>7. s = a \o t
  BY <1>3, <1>4, <1>5
<1>8. Tail(s) = t /\ s[1] = "/" /\ s # <<>>
  BY <1>1, <1>6, <1>7, TailOfOne DEF Strings, a
<1> QED BY <1>2, <1>6, <1>8 DEF StartsWith, b, s

LEMMA WordAlone ==
  ASSUME NEW w \in Characters, w # Space
  PROVE  /\ StartsWith(<<"/", w>>, "/") /\ Tail(<<"/", w>>) = <<w>>
         /\ Before(<<w>>, Space) = <<w>> /\ After(<<w>>, Space) = <<>>
<1>1. <<w>> \in Seq(Characters) /\ Space \notin ToSet(<<w>>)
  BY InOne
<1>2. Before(<<w>>, Space) = <<w>> /\ After(<<w>>, Space) = <<>>
  BY <1>1, NoIndex
<1> QED BY <1>2 DEF StartsWith

(* UserCommand, command by command *)
LEMMA CommandCases ==
  ASSUME NEW s, NEW w, Before(s, Space) = <<w>>, NEW r, After(s, Space) = r
  PROVE  /\ LowercaseOf(w) = "join" =>
              UserCommand(s) =
                IF Len(ArgsOf(r)) = 1 /\ IsChannelName(SplitAll(ArgsOf(r)[1], Comma)[1])
                THEN Send([kind |-> "JOIN", channels |-> <<SplitAll(ArgsOf(r)[1], Comma)[1]>>])
                ELSE Failed
         /\ LowercaseOf(w) = "raw" =>
              UserCommand(s) = IF ArgsOf(r) # <<>> THEN Send([kind |-> "RAW", text |-> r]) ELSE Failed
         /\ LowercaseOf(w) = "msg" =>
              UserCommand(s) = IF Len(ArgsOf(r)) = 1 /\ IsNickname(ArgsOf(r)[1])
                               THEN [fate |-> "ok", send |-> <<>>] ELSE Failed
         /\ LowercaseOf(w) = "quit" => UserCommand(s) = Send([kind |-> "QUIT"])
         /\ LowercaseOf(w) \notin {"join", "raw", "msg", "quit"} => UserCommand(s) = Failed
<1> DEFINE name == IF Len(<<w>>) = 1 THEN LowercaseOf(<<w>>[1]) ELSE NoWord
           args == NonEmpty(SplitAll(r, Space))
           channel == SplitAll(args[1], Comma)[1]
<1>1. name = LowercaseOf(w)
  OBVIOUS
<1>2. UserCommand(s) =
        CASE name = "join" /\ Len(args) = 1 /\ IsChannelName(channel) ->
               Send([kind |-> "JOIN", channels |-> <<channel>>])
          [] name = "raw" /\ args # <<>> -> Send([kind |-> "RAW", text |-> r])
          [] name = "msg" /\ Len(args) = 1 /\ IsNickname(args[1]) -> [fate |-> "ok", send |-> <<>>]
          [] name = "quit" -> Send([kind |-> "QUIT"])
          [] OTHER -> Failed
  BY DEF UserCommand
<1>3. args = ArgsOf(r)
  BY DEF ArgsOf
<1> HIDE DEF name, args
<1>4. name = "join" => UserCommand(s) =
        IF Len(args) = 1 /\ IsChannelName(channel)
        THEN Send([kind |-> "JOIN", channels |-> <<channel>>]) ELSE Failed
  BY <1>2
<1>5. name = "raw" =>
        UserCommand(s) = IF args # <<>> THEN Send([kind |-> "RAW", text |-> r]) ELSE Failed
  BY <1>2
<1>6. name = "msg" =>
        UserCommand(s) = IF Len(args) = 1 /\ IsNickname(args[1])
                         THEN [fate |-> "ok", send |-> <<>>] ELSE Failed
  BY <1>2
<1>7. name = "quit" => UserCommand(s) = Send([kind |-> "QUIT"])
  BY <1>2
<1>8. name \notin {"join", "raw", "msg", "quit"} => UserCommand(s) = Failed
  BY <1>2
<1> QED BY <1>1, <1>3, <1>4, <1>5, <1>6, <1>7, <1>8

LEMMA NoCommand == UserCommand(<<>>) = Failed
<1>1. Before(<<>>, Space) = <<>>
  <2>1. <<>> \in Seq(Characters) /\ Space \notin ToSet(<<>>)
    BY InNone
  <2> QED BY <2>1, NoIndex
<1>2. LowercaseOf(NoWord) = LowercaseOf(NoWord) /\ Len(<<>>) # 1
  OBVIOUS
<1>3. NoWord # "join" /\ NoWord # "raw" /\ NoWord # "msg" /\ NoWord # "quit"
  BY DEF NoWord
<1> QED BY <1>1, <1>2, <1>3 DEF UserCommand

-----------------------------------------------------------------------------
(* The names of the instance, and what its lines are handled to. *)

LEMMA TextsAreStrings ==
  ASSUME NEW s, IsText(s)
  PROVE  s \in Strings
<1>1. STRING \subseteq Characters
  BY DEF Characters
<1> QED BY <1>1, SeqMonotonic DEF IsText, Strings

LEMMA MeAndChannel ==
  /\ Me \in Strings /\ IsMiddle(<<Me>>) /\ IsNickname(Me) /\ ~IsChannelName(Me)
  /\ Me # <<>> /\ ToSet(Me) \cap {Space, Comma, "!", "@"} = {}
  /\ Channel \in Strings /\ IsMiddle(<<Channel>>) /\ IsChannelName(Channel)
  /\ Channel # <<>> /\ ToSet(Channel) \cap {Space, Comma} = {}
<1>1. Me \in Strings /\ Channel \in Strings
  BY NamesAreValid, TextsAreStrings DEF Lacks
<1>2. /\ Me # <<>> /\ Me[1] # ":" /\ ToSet(Me) \cap {Space, Comma, "!", "@"} = {}
      /\ Space \notin ToSet(Me) /\ Comma \notin ToSet(Me)
  BY NamesAreValid DEF IsNickname
<1>3. /\ Channel # <<>> /\ Channel[1] # ":" /\ ToSet(Channel) \cap {Space, Comma} = {}
      /\ Space \notin ToSet(Channel) /\ Comma \notin ToSet(Channel)
  BY NamesAreValid DEF IsChannelName, Lacks
<1>4. IsMiddle(<<Me>>)
  BY <1>1, <1>2, OneMiddle
<1>5. IsMiddle(<<Channel>>)
  BY <1>1, <1>3, OneMiddle
<1> QED BY <1>1, <1>2, <1>3, <1>4, <1>5, NamesAreValid

LEMMA IrcStrIs ==
  ASSUME NEW cmd
  PROVE  /\ cmd.kind \in {"PASS", "NICK", "PONG"} => IrcStr(cmd) = <<cmd.kind>> \o Marked(cmd.text)
         /\ cmd.kind = "USER" =>
              IrcStr(cmd) = <<"USER", Space>> \o cmd.username \o <<Space, "0", Space, "*">>
                              \o Marked(cmd.realname)
         /\ cmd.kind = "QUIT" => IrcStr(cmd) = <<"QUIT">>
         /\ cmd.kind = "JOIN" =>
              IrcStr(cmd) = <<"JOIN", Space>> \o Joined(cmd.channels, Comma) \o <<Space>>
         /\ cmd.kind \in {"PRIVMSG", "NOTICE"} =>
              IrcStr(cmd) = <<cmd.kind, Space>> \o Joined(cmd.targets, Comma) \o Marked(cmd.msg)
         /\ cmd.kind = "RAW" => IrcStr(cmd) = cmd.text
<1>1. ASSUME cmd.kind \in {"PASS", "NICK", "PONG"}
      PROVE  IrcStr(cmd) = <<cmd.kind>> \o Marked(cmd.text)
  BY <1>1 DEF IrcStr
<1>2. ASSUME cmd.kind = "USER"
      PROVE  IrcStr(cmd) = <<"USER", Space>> \o cmd.username \o <<Space, "0", Space, "*">>
                              \o Marked(cmd.realname)
  BY <1>2 DEF IrcStr
<1>3. ASSUME cmd.kind = "QUIT" PROVE IrcStr(cmd) = <<"QUIT">>
  BY <1>3 DEF IrcStr
<1>4. ASSUME cmd.kind = "JOIN"
      PROVE  IrcStr(cmd) = <<"JOIN", Space>> \o Joined(cmd.channels, Comma) \o <<Space>>
  BY <1>4 DEF IrcStr
<1>5. ASSUME cmd.kind \in {"PRIVMSG", "NOTICE"}
      PROVE  IrcStr(cmd) = <<cmd.kind, Space>> \o Joined(cmd.targets, Comma) \o Marked(cmd.msg)
  BY <1>5 DEF IrcStr
<1>6. ASSUME cmd.kind = "RAW" PROVE IrcStr(cmd) = cmd.text
  BY <1>6 DEF IrcStr
<1> QED BY <1>1, <1>2, <1>3, <1>4, <1>5, <1>6

LEMMA SpellIsText ==
  ASSUME NEW m, IsMessage(m), NEW sp \in Spellings
  PROVE  Spell(m, sp) \in Strings /\ \E x \in ToSet(Spell(m, sp)) : x # Space
<1> DEFINE b == Spaces(sp.before)
           h == SpellHead(m, sp)
           n == <<m.name>>
           r == Rest(m, sp, 0)
<1>1. Spell(m, sp) = b \o (h \o (n \o r))
  BY SpellIs
<1>2. b \in Strings /\ h \in Strings /\ r \in Strings
  BY SpellingHas, SpacesAre, HeadOf, SpellIs
<1>3. n \in Strings /\ ToSet(n) = {m.name} /\ m.name # Space
  BY InOne DEF IsMessage, IsName, Strings
<1> HIDE DEF b, h, n, r
<1> DEFINE t == n \o r
<1>4. t \in Strings /\ ToSet(t) = ToSet(n) \cup ToSet(r)
  BY <1>2, <1>3, StringsConcat
<1> HIDE DEF t
<1> DEFINE u == h \o t
<1>5. u \in Strings /\ ToSet(u) = ToSet(h) \cup ToSet(t)
  BY <1>2, <1>4, StringsConcat
<1> HIDE DEF u
<1>6. b \o u \in Strings /\ ToSet(b \o u) = ToSet(b) \cup ToSet(u)
  BY <1>2, <1>5, StringsConcat
<1>7. Spell(m, sp) = b \o u
  BY <1>1 DEF t, u
<1> QED BY <1>3, <1>4, <1>5, <1>6, <1>7

Hows == {"none", "server", "start", "line", "join", "raw", "quit", "answer"}
SaidBy(how, m) == IF how = "join" THEN Message(NoSource, "JOIN", << <<m.params[1][1]>> >>) ELSE m
WritesFor(how, cmd, m) ==
  /\ how \in Hows /\ IsMessage(m) /\ IsMessage(SaidBy(how, m))
  /\ IF how = "start" /\ Misplaced(m) THEN ~ReadAs(IrcStr(cmd), m)
     ELSE IsSpelled(IrcStr(cmd), SaidBy(how, m))
Sends(how, text, target, m) ==
  \E cmd : HandleInput(text, target) = Send(cmd) /\ WritesFor(how, cmd, m)
Refuses(text, target) == HandleInput(text, target) = Failed

LEMMA WrittenFor ==
  ASSUME NEW how \in Hows \ {"join", "start"}, NEW cmd, NEW m, IsMessage(m), IsSpelled(IrcStr(cmd), m)
  PROVE  WritesFor(how, cmd, m)
BY DEF WritesFor, SaidBy

LEMMA PlainSent ==
  ASSUME NEW s, IsText(s), ~StartsWith(s, "/"), NEW target \in {Me, Channel}
  PROVE  Sends("line", s, target, Message(NoSource, "PRIVMSG", << <<target>>, <<s>> >>))
<1> DEFINE m == Message(NoSource, "PRIVMSG", << <<target>>, <<s>> >>)
<1>1. s \in Strings /\ target \in Strings /\ IsMiddle(<<target>>) /\ IsName("PRIVMSG")
  BY TextsAreStrings, MeAndChannel, NamesAre
<1>2. /\ IsMessage(m)
      /\ IsSpelled(<<"PRIVMSG", Space>> \o Joined(<<target>>, Comma) \o Marked(s), m)
  BY <1>1, PrivmsgIsSpelled
<1> HIDE DEF m
<1>3. HandleInput(s, target) = Send(Privmsg(target, s))
  BY DEF HandleInput
<1>4. IrcStr(Privmsg(target, s)) = <<"PRIVMSG", Space>> \o Joined(<<target>>, Comma) \o Marked(s)
  <2> DEFINE cmd == Privmsg(target, s)
  <2>1. cmd.kind = "PRIVMSG" /\ cmd.targets = <<target>> /\ cmd.msg = s
    BY DEF Privmsg
  <2> HIDE DEF cmd
  <2>2. IrcStr(cmd) = <<cmd.kind, Space>> \o Joined(cmd.targets, Comma) \o Marked(cmd.msg)
    BY <2>1, IrcStrIs
  <2> QED BY <2>1, <2>2 DEF cmd
<1>5. IsSpelled(IrcStr(Privmsg(target, s)), m)
  BY <1>2, <1>4
<1>6. Sends("line", s, target, m)
  BY <1>2, <1>3, <1>5, WrittenFor DEF Sends, Hows
<1> QED BY <1>6 DEF m

LEMMA ChannelListIs ==
  ASSUME NEW channels \in ChannelLists
  PROVE  /\ channels \in Lists /\ channels[1] = Channel
         /\ \A i \in 1 .. Len(channels) : Comma \notin ToSet(channels[i])
         /\ LET r == Joined(channels, Comma) IN r \in Strings /\ r # <<>> /\ Space \notin ToSet(r)
<1>1. /\ Me \in Strings /\ ToSet(Me) \cap {Space, Comma} = {}
      /\ Channel \in Strings /\ Channel # <<>> /\ ToSet(Channel) \cap {Space, Comma} = {}
  BY MeAndChannel
<1>2. OtherChannel \in Strings /\ ToSet(OtherChannel) \cap {Space, Comma} = {}
  BY <1>1, StringsConcat DEF OtherChannel
<1>3. CASE channels = <<Channel>>
  <2>1. channels \in Lists /\ Len(channels) = 1 /\ channels[1] = Channel /\ Joined(channels, Comma) = Channel
    BY <1>1, <1>3, OneItem
  <2>2. \A i \in 1 .. 1 : i = 1
    OBVIOUS
  <2> QED BY <1>1, <2>1, <2>2
<1>4. CASE channels = <<Channel, OtherChannel>>
  <2> DEFINE c == <<Comma>>
             r == Channel \o (c \o OtherChannel)
  <2>1. /\ channels \in Lists /\ Len(channels) = 2
        /\ channels[1] = Channel /\ channels[2] = OtherChannel
    BY <1>1, <1>2, <1>4 DEF Lists
  <2>2. \A i \in 1 .. 2 : i = 1 \/ i = 2
    OBVIOUS
  <2>3. Joined(channels, Comma) = r
    <3> DEFINE one == <<Channel>>
    <3>0. Append(one, OtherChannel) = channels
      <4>1. one \in Seq(Strings)
        BY <1>1
      <4>2. Append(one, OtherChannel) = one \o <<OtherChannel>>
        BY <1>2, <4>1, AppendIsConcat
      <4>3. <<Channel>> \o <<OtherChannel>> = <<Channel, OtherChannel>>
        BY Pair
      <4> QED BY <1>4, <4>2, <4>3
    <3>1. one \in Lists /\ Joined(one, Comma) = Channel
      BY <1>1, OneItem
    <3> HIDE DEF one
    <3>2. one \in Seq(Strings) /\ one # <<>>
      BY <3>1 DEF Lists
    <3>3. Joined(Append(one, OtherChannel), Comma) = Joined(one, Comma) \o (<<Comma>> \o OtherChannel)
      BY <1>2, <3>2, AreCharacters, JoinedAppend DEF Strings
    <3> QED BY <3>0, <3>1, <3>3
  <2>4. c \in Strings /\ ToSet(c) = {Comma} /\ Comma # Space
    BY AreCharacters, InOne, Distinct DEF Strings
  <2> HIDE DEF c
  <2> DEFINE d == c \o OtherChannel
  <2>5. d \in Strings /\ ToSet(d) = {Comma} \cup ToSet(OtherChannel)
    BY <1>2, <2>4, StringsConcat
  <2> HIDE DEF d
  <2>6. Channel \o d \in Strings /\ ToSet(Channel \o d) = ToSet(Channel) \cup ToSet(d)
    BY <1>1, <2>5, StringsConcat
  <2>7. Channel \o d # <<>>
    BY <1>1, <2>5, FirstOfConcat DEF Strings
  <2>8. r \in Strings /\ r # <<>> /\ Space \notin ToSet(r)
    BY <1>1, <1>2, <2>4, <2>5, <2>6, <2>7 DEF d
  <2> HIDE DEF r
  <2> QED BY <1>1, <1>2, <2>1, <2>2, <2>3, <2>8
<1> QED BY <1>3, <1>4 DEF ChannelLists

LEMMA JoinSent ==
  ASSUME NEW join \in {"join", "JOIN"}, NEW channels \in ChannelLists
  PROVE  Sends("join", <<"/", join, Space>> \o Joined(channels, Comma), Me,
               Message(NoSource, "JOIN", <<channels>>))
<1> DEFINE r == Joined(channels, Comma)
           s == <<"/", join, Space>> \o r
           cmd == [kind |-> "JOIN", channels |-> <<Channel>>]
<1>1. join \in Characters /\ join # Space /\ Comma \in Characters
  BY NamesAre, AreCharacters
<1>2. r \in Strings /\ r # <<>> /\ Space \notin ToSet(r) /\ channels \in Lists /\ channels[1] = Channel
  BY ChannelListIs
<1>3. SplitAll(r, Comma) = channels
  <2>1. channels \in Seq(Seq(Characters)) /\ channels # <<>>
    BY <1>2 DEF Lists, Strings
  <2> QED BY <1>1, <2>1, ChannelListIs, SplitJoined
<1> HIDE DEF r
<1>4. StartsWith(s, "/") /\ Before(Tail(s), Space) = <<join>> /\ After(Tail(s), Space) = r
  BY <1>1, <1>2, SlashWord
<1> HIDE DEF s
<1>5. ArgsOf(r) = <<r>>
  BY <1>2, ArgsAreThere
<1>6. LowercaseOf(join) = "join"
  BY LowercaseIsValid
<1>7. SplitAll(ArgsOf(r)[1], Comma)[1] = Channel
  BY <1>2, <1>3, <1>5
<1>8. UserCommand(Tail(s)) = Send([kind |-> "JOIN", channels |-> <<SplitAll(ArgsOf(r)[1], Comma)[1]>>])
  <2>1. Len(ArgsOf(r)) = 1 /\ IsChannelName(SplitAll(ArgsOf(r)[1], Comma)[1])
    BY <1>5, <1>7, MeAndChannel
  <2> QED BY <1>4, <1>6, <2>1, CommandCases
<1>9. HandleInput(s, Me) = Send(cmd)
  BY <1>4, <1>7, <1>8 DEF HandleInput
<1>10. IrcStr(cmd) = <<"JOIN", Space>> \o Joined(<<Channel>>, Comma) \o <<Space>>
  <2>1. cmd.kind = "JOIN" /\ cmd.channels = <<Channel>>
    OBVIOUS
  <2> HIDE DEF cmd
  <2> QED BY <2>1, IrcStrIs
<1> HIDE DEF cmd
<1> DEFINE m == Message(NoSource, "JOIN", <<channels>>)
           first == Message(NoSource, "JOIN", << <<Channel>> >>)
<1>11. IsMessage(first) /\ IsSpelled(IrcStr(cmd), first)
  BY <1>10, MeAndChannel, NamesAre, JoinIsSpelled
<1>12. IsMessage(m) /\ m.params[1] = channels
  <2>1. <<channels>> \in Seq(Lists) /\ IsName("JOIN") /\ <<channels>>[1] = channels
    BY <1>2, NamesAre
  <2> QED BY <2>1, IsWritten
<1>13. SaidBy("join", m) = first
  <2>1. m.params[1][1] = Channel
    BY <1>2, <1>12
  <2> HIDE DEF m
  <2> QED BY <2>1 DEF SaidBy
<1> HIDE DEF m, first
<1>14. WritesFor("join", cmd, m)
  BY <1>11, <1>12, <1>13 DEF WritesFor, Hows
<1>15. Sends("join", s, Me, m)
  BY <1>9, <1>14 DEF Sends
<1> QED BY <1>15 DEF s, m, r

LEMMA RawSent ==
  ASSUME NEW m, IsMessage(m), NEW sp \in Spellings, CanSpell(m, sp)
  PROVE  Sends("raw", <<"/", "raw", Space>> \o Spell(m, sp), Me, m)
<1> DEFINE r == Spell(m, sp)
           s == <<"/", "raw", Space>> \o r
           cmd == [kind |-> "RAW", text |-> r]
<1>1. r \in Strings /\ ArgsOf(r) # <<>>
  BY SpellIsText, SomeArgs
<1>2. "raw" \in Characters /\ "raw" # Space
  BY NamesAre
<1>3. IsSpelled(r, m)
  BY DEF IsSpelled
<1> HIDE DEF r
<1>4. /\ StartsWith(s, "/") /\ Before(Tail(s), Space) = <<"raw">> /\ After(Tail(s), Space) = r
  BY <1>1, <1>2, SlashWord
<1> HIDE DEF s
<1>5. LowercaseOf("raw") = "raw"
  BY LowercaseIsValid
<1>6. UserCommand(Tail(s)) = Send(cmd)
  BY <1>1, <1>4, <1>5, CommandCases
<1>7. HandleInput(s, Me) = Send(cmd)
  BY <1>4, <1>6 DEF HandleInput
<1>8. IrcStr(cmd) = r
  <2>1. cmd.kind = "RAW" /\ cmd.text = r
    OBVIOUS
  <2> HIDE DEF cmd
  <2> QED BY <2>1, IrcStrIs
<1> HIDE DEF cmd
<1>9. Sends("raw", s, Me, m)
  BY <1>3, <1>7, <1>8, WrittenFor DEF Sends, Hows
<1> QED BY <1>9 DEF s, r

LEMMA QuitSent == Sends("quit", <<"/", "quit">>, Me, Message(NoSource, "QUIT", <<>>))
<1> DEFINE s == <<"/", "quit">>
           cmd == [kind |-> "QUIT"]
           m == Message(NoSource, "QUIT", <<>>)
<1>1. "quit" \in Characters /\ "quit" # Space
  BY NamesAre
<1>2. /\ StartsWith(s, "/") /\ Before(Tail(s), Space) = <<"quit">> /\ After(Tail(s), Space) = <<>>
  BY <1>1, WordAlone
<1> HIDE DEF s
<1>3. LowercaseOf("quit") = "quit"
  BY LowercaseIsValid
<1>4. UserCommand(Tail(s)) = Send(cmd)
  BY <1>2, <1>3, CommandCases
<1>5. HandleInput(s, Me) = Send(cmd)
  BY <1>2, <1>4 DEF HandleInput
<1>6. IrcStr(cmd) = <<"QUIT">>
  <2>1. cmd.kind = "QUIT"
    OBVIOUS
  <2> HIDE DEF cmd
  <2> QED BY <2>1, IrcStrIs
<1> HIDE DEF cmd
<1>7. IsMessage(m) /\ IsSpelled(IrcStr(cmd), m)
  BY <1>6, NamesAre, QuitIsSpelled
<1> HIDE DEF m
<1>8. Sends("quit", s, Me, m)
  BY <1>5, <1>7, WrittenFor DEF Sends, Hows
<1> QED BY <1>8 DEF s, m

LEMMA WordRefused ==
  /\ Refuses(<<"/">>, Me)
  /\ Refuses(<<"/", "join">>, Me)
<1> DEFINE e == <<"/">>
           s == <<"/", "join">>
<1>1. StartsWith(e, "/") /\ Tail(e) = <<>>
  BY DEF StartsWith
<1> HIDE DEF e
<1>2. Refuses(e, Me)
  BY <1>1, NoCommand DEF Refuses, HandleInput
<1>3. "join" \in Characters /\ "join" # Space
  BY NamesAre
<1>4. /\ StartsWith(s, "/") /\ Before(Tail(s), Space) = <<"join">> /\ After(Tail(s), Space) = <<>>
  BY <1>3, WordAlone
<1> HIDE DEF s
<1>5. LowercaseOf("join") = "join"
  BY LowercaseIsValid
<1>6. Len(ArgsOf(<<>>)) # 1
  BY MeAndChannel, ArgsAreThere
<1>7. UserCommand(Tail(s)) = Failed
  BY <1>4, <1>5, <1>6, CommandCases
<1>8. Refuses(s, Me)
  BY <1>4, <1>7 DEF Refuses, HandleInput
<1> QED BY <1>2, <1>8 DEF e, s

(* Other arguments than the command takes *)
LEMMA ArgsRefused ==
  ASSUME NEW word \in {"join", "raw", "msg", "nick"}, NEW r \in Strings,
         \/ word = "join" /\ Len(ArgsOf(r)) # 1
         \/ word = "join" /\ ~IsChannelName(SplitAll(ArgsOf(r)[1], Comma)[1])
         \/ word = "raw" /\ ArgsOf(r) = <<>>
         \/ word = "msg" /\ ~IsNickname(ArgsOf(r)[1])
         \/ word = "nick"
  PROVE  Refuses(<<"/", word, Space>> \o r, Me)
<1> DEFINE s == <<"/", word, Space>> \o r
<1>1. word \in Characters /\ word # Space
  BY NamesAre
<1>2. /\ StartsWith(s, "/") /\ Before(Tail(s), Space) = <<word>> /\ After(Tail(s), Space) = r
  BY <1>1, SlashWord
<1> HIDE DEF s
<1>3. LowercaseOf(word) = word
  BY LowercaseIsValid
<1>4. UserCommand(Tail(s)) = Failed
  BY <1>2, <1>3, CommandCases
<1>5. Refuses(s, Me)
  BY <1>2, <1>4 DEF Refuses, HandleInput
<1> QED BY <1>5 DEF s

LEMMA Refused ==
  ASSUME NEW text \in {<<"/">>, <<"/", "join">>, <<"/", "join", Space>> \o Me,
                       <<"/", "join", Space>> \o Channel \o <<Space>> \o Channel,
                       <<"/", "raw", Space, Space>>, <<"/", "msg", Space>> \o Channel \o <<Comma>>,
                       <<"/", "nick", Space>> \o Me}
  PROVE  Refuses(text, Me)
<1>1. /\ Me \in Strings /\ Me # <<>> /\ Space \notin ToSet(Me) /\ Comma \notin ToSet(Me)
      /\ Channel \in Strings /\ Channel # <<>> /\ Space \notin ToSet(Channel)
      /\ Comma \in Characters /\ Space \in Characters /\ Space # Comma
  BY MeAndChannel, AreCharacters, Distinct
<1>2. Refuses(<<"/", "join", Space>> \o Me, Me)
  <2>1. ArgsOf(Me) = <<Me>> /\ SplitAll(Me, Comma) = <<Me>>
    BY <1>1, ArgsAreThere, SplitOne
  <2>2. ~IsChannelName(SplitAll(ArgsOf(Me)[1], Comma)[1])
    BY <2>1, MeAndChannel
  <2> QED BY <1>1, <2>2, ArgsRefused
<1>3. Refuses(<<"/", "join", Space>> \o Channel \o <<Space>> \o Channel, Me)
  <2> DEFINE a == <<"/", "join", Space>>
             c == <<Space>>
             r == c \o Channel
             t == Channel \o r
  <2>1. a \in Strings /\ c \in Strings
    BY NamesAre, <1>1 DEF Strings
  <2>2. ArgsOf(t) = <<Channel, Channel>>
    BY <1>1, ArgsAreThere
  <2> HIDE DEF a, c
  <2>3. (a \o Channel) \o c = a \o (Channel \o c) /\ Channel \o c \in Strings
    <3>1. Three(a, Channel, c)
      BY <1>1, <2>1 DEF Three
    <3> QED BY <3>1, Regroup
  <2>8. (Channel \o c) \o Channel = t /\ r \in Strings
    <3>1. Three(Channel, c, Channel)
      BY <1>1, <2>1 DEF Three
    <3> QED BY <3>1, Regroup
  <2>4. (a \o (Channel \o c)) \o Channel = a \o ((Channel \o c) \o Channel)
    <3> DEFINE d == Channel \o c
    <3>1. Three(a, d, Channel)
      BY <1>1, <2>1, <2>3 DEF Three
    <3> HIDE DEF d
    <3>2. (a \o d) \o Channel = a \o (d \o Channel)
      BY <3>1, Regroup
    <3> QED BY <3>2 DEF d
  <2>5. t \in Strings
    <3>1. r \in Strings
      BY <2>8
    <3> HIDE DEF r
    <3> QED BY <1>1, <3>1, StringsConcat
  <2> HIDE DEF t
  <2>6. Refuses(<<"/", "join", Space>> \o t, Me)
    <3>1. Len(ArgsOf(t)) # 1
      BY <2>2
    <3> QED BY <2>5, <3>1, ArgsRefused
  <2>7. ((a \o Channel) \o c) \o Channel = a \o t
    BY <2>3, <2>4, <2>8
  <2> QED BY <2>6, <2>7 DEF a, c
<1>4. Refuses(<<"/", "raw", Space, Space>>, Me)
  <2>1. <<Space>> \in Strings
    BY <1>1, OneCharacter
  <2>4. ArgsOf(<<Space>>) = <<>>
    BY <1>1, ArgsAreThere
  <2>2. Refuses(<<"/", "raw", Space>> \o <<Space>>, Me)
    BY <2>1, <2>4, ArgsRefused
  <2>3. <<"/", "raw", Space>> \o <<Space>> = <<"/", "raw", Space, Space>>
    BY Quadruple
  <2> QED BY <2>2, <2>3
<1>5. Refuses(<<"/", "msg", Space>> \o Channel \o <<Comma>>, Me)
  <2> DEFINE a == <<"/", "msg", Space>>
             c == <<Comma>>
             r == Channel \o c
  <2>1. a \in Strings /\ c \in Strings /\ ToSet(c) = {Comma}
    BY NamesAre, <1>1, InOne DEF Strings
  <2> HIDE DEF a, c
  <2>2. r \in Strings /\ ToSet(r) = ToSet(Channel) \cup {Comma} /\ (a \o Channel) \o c = a \o r
    <3>1. Three(a, Channel, c)
      BY <1>1, <2>1 DEF Three
    <3>2. (a \o Channel) \o c = a \o r
      BY <3>1, Regroup
    <3>3. r \in Strings /\ ToSet(r) = ToSet(Channel) \cup ToSet(c)
      BY <1>1, <2>1, StringsConcat
    <3> QED BY <2>1, <3>2, <3>3
  <2> HIDE DEF r
  <2>3. Space \notin ToSet(r) /\ Comma \in ToSet(r)
    BY <1>1, <2>2
  <2>4. r # <<>> /\ ~IsNickname(r)
    BY <2>3, InNone DEF IsNickname
  <2>5. ArgsOf(r) = <<r>>
    BY <2>2, <2>3, <2>4, ArgsAreThere
  <2>6. ~IsNickname(ArgsOf(r)[1])
    BY <2>4, <2>5
  <2>7. Refuses(<<"/", "msg", Space>> \o r, Me)
    BY <2>2, <2>6, ArgsRefused
  <2> QED BY <2>2, <2>7 DEF a, c
<1>6. Refuses(<<"/", "nick", Space>> \o Me, Me)
  BY <1>1, ArgsRefused
<1> QED BY <1>2, <1>3, <1>4, <1>5, <1>6, WordRefused

-----------------------------------------------------------------------------
(* What the instance sends. *)

LEMMA SentSource ==
  ASSUME NEW source, CanBeSource(source)
  PROVE  SomeSource(source)
<1>1. \A s, chars : Lacks(s, chars) => Without(s, chars)
  BY TextsAreStrings DEF Lacks, Without
<1>2. CASE source = NoSource
  BY <1>2 DEF SomeSource
<1>3. CASE source.kind = "server"
  <2>1. source = ServerSource(source.name) /\ Lacks(source.name, {Space, "!", "@"})
    BY <1>3 DEF CanBeSource, NoSource
  <2>2. Without(source.name, {Space, "!", "@"})
    BY <1>1, <2>1
  <2> QED BY <2>1, <2>2 DEF SomeSource
<1>4. CASE source.kind = "nick"
  <2>1. /\ source = NickSource(source.nick, source.user, source.host)
        /\ source.user # <<>> \/ source.host # <<>>
        /\ Lacks(source.nick, {Space, "!", "@"})
        /\ source.user # <<>> =>
             source.user = <<source.user[1]>> /\ Lacks(source.user[1], {Space, "@"})
        /\ source.host # <<>> =>
             /\ source.host = <<source.host[1]>>
             /\ Lacks(source.host[1], {Space} \cup IF source.user = <<>> THEN {"!"} ELSE {})
    BY <1>4 DEF CanBeSource, NoSource
  <2> DEFINE nick == source.nick
             user == source.user
             host == source.host
             before == {Space} \cup IF user = <<>> THEN {"!"} ELSE {}
  <2> HIDE DEF nick, user, host, before
  <2>2. Without(nick, {Space, "!", "@"})
    BY <1>1, <2>1 DEF nick
  <2>3. user # <<>> => user = <<user[1]>> /\ Without(user[1], {Space, "@"})
    BY <1>1, <2>1 DEF user
  <2>4. host # <<>> => host = <<host[1]>> /\ Without(host[1], before)
    BY <1>1, <2>1 DEF host, before, user
  <2> QED BY <2>1, <2>2, <2>3, <2>4 DEF SomeSource, nick, user, host, before
<1> QED BY <1>2, <1>3, <1>4 DEF CanBeSource

LEMMA SentName ==
  ASSUME NEW name \in Names
  PROVE  IsName(name)
BY PartsAreValid DEF Words, IsName, Characters

LEMMA SentParams ==
  ASSUME NEW params \in ParamLists
  PROVE  params \in Seq(Lists)
<1>1. STRING \subseteq Characters
  BY DEF Characters
<1>2. Seq(STRING) \subseteq Strings
  BY <1>1, SeqMonotonic DEF Strings
<1>3. Seq(Seq(STRING)) \subseteq Seq(Strings)
  BY <1>2, SeqMonotonic
<1>4. Params \subseteq Lists
  BY <1>3 DEF Params, Lists
<1>5. Seq(Params) \subseteq Seq(Lists)
  BY <1>4, SeqMonotonic
<1> QED BY <1>5, PartsAreValid

LEMMA SentMessage ==
  ASSUME NEW source \in Sources, NEW name \in Names, NEW params \in ParamLists, NEW tags \in BOOLEAN
  PROVE  IsMessage([Message(source, name, params) EXCEPT !.tags = tags])
<1>1. SomeSource(source) /\ IsName(name) /\ params \in Seq(Lists)
  BY SentSource, SentName, SentParams, PartsAreValid
<1>2. [Message(source, name, params) EXCEPT !.tags = tags]
        = [tags |-> tags, source |-> source, name |-> name, params |-> params]
  BY DEF Message
<1> QED BY <1>1, <1>2 DEF IsMessage

LEMMA RelayedMessage ==
  ASSUME NEW m, IsMessage(m)
  PROVE  IsMessage([m EXCEPT !.source = NickSource(Me, <<Me>>, << <<"host">> >>)])
<1> DEFINE source == NickSource(Me, <<Me>>, << <<"host">> >>)
<1>1. <<"host">> \in Strings /\ ToSet(<<"host">>) = {"host"} /\ "host" # Space
  BY NamesAre, InOne DEF Strings
<1>2. /\ Without(Me, {Space, "!", "@"}) /\ Without(Me, {Space, "@"})
      /\ Without(<<"host">>, {Space})
  BY <1>1, MeAndChannel DEF Without
<1>3. /\ source.nick = Me
      /\ source.user = <<Me>> /\ source.user # <<>> /\ source.user[1] = Me
      /\ source.host = << <<"host">> >> /\ source.host[1] = <<"host">>
      /\ source = NickSource(source.nick, source.user, source.host)
  BY DEF NickSource
<1> HIDE DEF source
<1>4. SomeSource(source)
  <2>1. {Space} \cup (IF source.user = <<>> THEN {"!"} ELSE {}) = {Space}
    BY <1>3
  <2> QED BY <1>2, <1>3, <2>1 DEF SomeSource
<1>5. [m EXCEPT !.source = source]
        = [tags |-> m.tags, source |-> source, name |-> m.name, params |-> m.params]
  BY DEF IsMessage
<1>6. IsMessage([m EXCEPT !.source = source])
  BY <1>4, <1>5 DEF IsMessage
<1> QED BY <1>6 DEF source

-----------------------------------------------------------------------------
(* The invariant: a message at the server is spelled as its line, but for  *)
(* a USER that is not read as it is meant, and one at a client is what     *)
(* that has parsed, whatever its spelling was.                             *)

AtServer ==
  hop = "server" =>
    /\ IsMessage(Said)
    /\ IF by = "start" /\ Misplaced(meant) THEN ~ReadAs(line, meant) ELSE IsSpelled(line, Said)
AtClient == hop = "client" => got = Meant(meant)
WireInv ==
  /\ hop \in {"idle", "server", "client", "refused"} /\ by \in Hows
  /\ hop \in {"server", "client"} => IsMessage(meant)
  /\ hop \in {"idle", "refused"} => meant = Nothing
  /\ HasValidNames(got)
  /\ AtServer
  /\ AtClient

LEMMA FailedIsValid == HasValidNames(Failed)
BY DEF HasValidNames, Failed

LEMMA Arrived ==
  ASSUME NEW m, IsMessage(m), Arrives(m)
  PROVE  WireInv'
<1>1. PICK sp \in Spellings :
        /\ CanSpell(m, sp)
        /\ meant' = m /\ line' = Spell(m, sp) /\ got' = Parse(line') /\ hop' = "client"
        /\ by' = "server"
  BY DEF Arrives
<1>2. got' = Meant(m)
  BY <1>1, MessageParsed
<1>3. HasValidNames(got')
  BY <1>2, MeantHasValidNames
<1> QED BY <1>1, <1>2, <1>3 DEF WireInv, AtServer, AtClient, Hows

LEMMA Written ==
  ASSUME WireInv, NEW how, NEW cmd, NEW m, WritesFor(how, cmd, m), Writes(how, cmd, m)
  PROVE  WireInv'
<1>1. meant' = m /\ line' = IrcStr(cmd) /\ by' = how /\ hop' = "server" /\ got' = got
  BY DEF Writes
<1>2. Said' = SaidBy(how, m)
  BY <1>1 DEF Said, SaidBy
<1>3. ReadAs(line, meant)' = ReadAs(IrcStr(cmd), m) /\ Misplaced(meant)' = Misplaced(m)
  BY <1>1
<1>4. how \in Hows /\ IsMessage(m)
  BY DEF WritesFor
<1>5. AtServer'
  BY <1>1, <1>2, <1>3 DEF AtServer, WritesFor
<1> QED BY <1>1, <1>4, <1>5 DEF WireInv, AtClient

LEMMA TypedAndSent ==
  ASSUME WireInv, NEW how, NEW text, NEW target, NEW m,
         Sends(how, text, target, m), Types(how, text, target, m)
  PROVE  WireInv'
<1>1. PICK cmd : HandleInput(text, target) = Send(cmd) /\ WritesFor(how, cmd, m)
  BY DEF Sends
<1>2. Send(cmd).fate = "ok" /\ Send(cmd).send[1] = cmd
  BY DEF Send
<1>3. Writes(how, cmd, m)
  BY <1>1, <1>2 DEF Types
<1> QED BY <1>1, <1>3, Written

LEMMA TypedAndRefused ==
  ASSUME WireInv, NEW text, NEW target, Refuses(text, target), Types("none", text, target, Nothing)
  PROVE  WireInv'
<1>1. HandleInput(text, target).fate = "error"
  BY DEF Refuses, Failed
<1>2. hop' = "refused" /\ meant' = Nothing /\ UNCHANGED <<line, by, got>>
  BY <1>1 DEF Types
<1> QED BY <1>2 DEF WireInv, AtServer, AtClient

LEMMA RegisterStep ==
  ASSUME WireInv, ClientRegisters
  PROVE  WireInv'
<1>1. PICK text \in Texts :
        \/ \E kind \in {"PASS", "NICK"} :
             Writes("start", [kind |-> kind, text |-> text], Message(NoSource, kind, << <<text>> >>))
        \/ Writes("start", [kind |-> "USER", username |-> text, realname |-> text],
                  Message(NoSource, "USER", << <<text>>, << <<"0">> >>, << <<"*">> >>, <<text>> >>))
  BY DEF ClientRegisters
<1>2. text \in Strings
  BY PartsAreValid, TextsAreStrings
<1>3. ASSUME NEW kind \in {"PASS", "NICK"},
             Writes("start", [kind |-> kind, text |-> text], Message(NoSource, kind, << <<text>> >>))
      PROVE  WireInv'
  <2> DEFINE m == Message(NoSource, kind, << <<text>> >>)
             cmd == [kind |-> kind, text |-> text]
  <2>1. IrcStr(cmd) = <<kind>> \o Marked(text)
    <3>1. cmd.kind = kind /\ cmd.text = text
      OBVIOUS
    <3> HIDE DEF cmd
    <3> QED BY <3>1, IrcStrIs
  <2>2. Writes("start", cmd, m)
    BY <1>3
  <2>3. IsMessage(m) /\ IsSpelled(<<kind>> \o Marked(text), m)
    BY <1>2, NamesAre, TextIsSpelled
  <2>4. ~Misplaced(m)
    BY DEF Misplaced, Message
  <2> HIDE DEF m, cmd
  <2>5. WritesFor("start", cmd, m)
    BY <2>1, <2>3, <2>4 DEF WritesFor, SaidBy, Hows
  <2> QED BY <2>2, <2>5, Written
<1>4. ASSUME Writes("start", [kind |-> "USER", username |-> text, realname |-> text],
                    Message(NoSource, "USER",
                            << <<text>>, << <<"0">> >>, << <<"*">> >>, <<text>> >>))
      PROVE  WireInv'
  <2> DEFINE params == << <<text>>, << <<"0">> >>, << <<"*">> >>, <<text>> >>
             m == Message(NoSource, "USER", params)
             cmd == [kind |-> "USER", username |-> text, realname |-> text]
             s == <<"USER", Space>> \o text \o <<Space, "0", Space, "*">> \o Marked(text)
  <2>1. IrcStr(cmd) = s
    <3>1. cmd.kind = "USER" /\ cmd.username = text /\ cmd.realname = text
      OBVIOUS
    <3> HIDE DEF cmd
    <3> QED BY <3>1, IrcStrIs
  <2>2. Writes("start", cmd, m)
    BY <1>4
  <2>3. IsMessage(m) /\ m.name = "USER" /\ m.params[1] = <<text>>
    <3>1. <<text>> \in Lists /\ << <<"0">> >> \in Lists /\ << <<"*">> >> \in Lists
      <4>1. <<"0">> \in Strings /\ <<"*">> \in Strings
        BY NamesAre, OneCharacter
      <4>2. \A u \in Strings : <<u>> \in Lists
        BY OneItem
      <4> QED BY <1>2, <4>1, <4>2
    <3>2. params \in Seq(Lists) /\ params[1] = <<text>> /\ IsName("USER")
      BY <3>1, NamesAre
    <3> HIDE DEF params
    <3> QED BY <3>2, IsWritten
  <2>4. ASSUME IsMiddle(<<text>>) PROVE IsSpelled(s, m) /\ ~Misplaced(m)
    <3>1. IsName("USER")
      BY NamesAre
    <3>2. IsSpelled(s, m)
      BY <1>2, <2>4, <3>1, UserIsSpelled
    <3>3. ~Misplaced(m)
      BY <2>3, <2>4 DEF Misplaced
    <3> QED BY <3>2, <3>3
  <2>5. ASSUME ~IsMiddle(<<text>>) PROVE ~ReadAs(s, m) /\ Misplaced(m)
    <3>1. Len(m.params) = 4
      BY DEF Message
    <3>2. PICK r \in Strings : s = <<"USER">> \o (<<Space>> \o r)
      BY <1>2, LineOfUser
    <3> HIDE DEF m, s
    <3>3. ~ReadAs(<<"USER">> \o (<<Space>> \o r), m)
      BY <1>2, <2>3, <2>5, UserIsCut
    <3> QED BY <2>3, <2>5, <3>1, <3>2, <3>3 DEF Misplaced
  <2> HIDE DEF m, cmd, s
  <2>6. WritesFor("start", cmd, m)
    BY <2>1, <2>3, <2>4, <2>5 DEF WritesFor, SaidBy, Hows
  <2> QED BY <2>2, <2>6, Written
<1> QED BY <1>1, <1>3, <1>4

LEMMA TypeStep ==
  ASSUME WireInv, UserTypes
  PROVE  WireInv'
<1>1. ASSUME NEW text \in Texts, NEW target \in {Me, Channel}, ~StartsWith(text, "/"),
             Types("line", text, target, Message(NoSource, "PRIVMSG", << <<target>>, <<text>> >>))
      PROVE  WireInv'
  <2>1. Sends("line", text, target, Message(NoSource, "PRIVMSG", << <<target>>, <<text>> >>))
    BY <1>1, PartsAreValid, PlainSent
  <2> QED BY <1>1, <2>1, TypedAndSent
<1>2. ASSUME NEW join \in {"join", "JOIN"}, NEW channels \in ChannelLists,
             Types("join", <<"/", join, Space>> \o Joined(channels, Comma), Me,
                   Message(NoSource, "JOIN", <<channels>>))
      PROVE  WireInv'
  BY <1>2, JoinSent, TypedAndSent
<1>3. ASSUME NEW name \in Names, NEW params \in ParamLists, NEW sp \in Spellings,
             CanSpell(Message(NoSource, name, params), sp),
             Types("raw", <<"/", "raw", Space>> \o Spell(Message(NoSource, name, params), sp), Me,
                   Message(NoSource, name, params))
      PROVE  WireInv'
  <2> DEFINE m == Message(NoSource, name, params)
             text == <<"/", "raw", Space>> \o Spell(m, sp)
  <2>1. IsMessage(m)
    BY SentName, SentParams, IsWritten
  <2>2. CanSpell(m, sp) /\ Types("raw", text, Me, m)
    BY <1>3
  <2>3. Sends("raw", text, Me, m)
    <3> HIDE DEF m
    <3> QED BY <2>1, <2>2, RawSent
  <2> HIDE DEF m, text
  <2> QED BY <2>2, <2>3, TypedAndSent
<1>4. ASSUME Types("quit", <<"/", "quit">>, Me, Message(NoSource, "QUIT", <<>>))
      PROVE  WireInv'
  BY <1>4, QuitSent, TypedAndSent
<1>5. ASSUME NEW text \in {<<"/">>, <<"/", "join">>, <<"/", "join", Space>> \o Me,
                           <<"/", "join", Space>> \o Channel \o <<Space>> \o Channel,
                           <<"/", "raw", Space, Space>>,
                           <<"/", "msg", Space>> \o Channel \o <<Comma>>,
                           <<"/", "nick", Space>> \o Me},
             Types("none", text, Me, Nothing)
      PROVE  WireInv'
  BY <1>5, Refused, TypedAndRefused
<1> QED BY <1>1, <1>2, <1>3, <1>4, <1>5 DEF UserTypes

LEMMA NoticeParts ==
  ASSUME NEW source, SomeSource(source), source.kind = "nick", IsSource(source)
  PROVE  source.nick \in Strings /\ IsMiddle(<<source.nick>>)
<1>1. source.kind = "nick" => Without(source.nick, {Space, "!", "@"})
  BY DEF SomeSource, NoSource, ServerSource
<1>2. source.nick \in Strings /\ IsNickname(source.nick)
  BY <1>1 DEF Without, IsSource
<1>3. /\ source.nick # <<>> /\ source.nick[1] # ":"
      /\ Space \notin ToSet(source.nick) /\ Comma \notin ToSet(source.nick)
  BY <1>2 DEF IsNickname
<1> QED BY <1>2, <1>3, OneMiddle

LEMMA AnswerStep ==
  ASSUME WireInv, ClientAnswers
  PROVE  WireInv'
<1>1. /\ IsMessage(meant) /\ got = Meant(meant) /\ Meant(meant).fate = "ok"
  BY DEF WireInv, AtClient, ClientAnswers
<1> DEFINE message == Command(meant.name, Args(meant))
<1>2. /\ IsSource(meant.source) /\ meant.name \notin Unfinished /\ Acceptable(meant)
      /\ got.source = meant.source /\ got.message = message
  BY <1>1, MeantIsOk
<1>3. CASE /\ got.message.kind = "PING"
           /\ Writes("answer", [kind |-> "PONG", text |-> got.message.texts[1]],
                     Message(NoSource, "PONG", <<meant.params[1]>>))
  <2>1. meant.name = "PING"
    BY <1>1, <1>2, <1>3, CommandUnderstood
  <2>2. message = Meaning("PING", Args(meant))
    <3>1. "PING" \in DOMAIN Needs
      BY DEF Needs
    <3>2. WellFormed("PING", Args(meant))
      BY <1>1, <1>2, <2>1, <3>1, WellFormedIsAcceptable
    <3> QED BY <1>2, <2>1, <3>1, <3>2, CommandIs
  <2>3. Len(meant.params) >= 1 /\ \A i \in {1} \cap DOMAIN meant.params : Len(meant.params[i]) = 1
    <3>1. "PING" \in DOMAIN Needs /\ Needs["PING"] = 1 /\ Plain["PING"] = {1}
      BY DEF Needs, Plain
    <3> QED BY <1>2, <2>1, <3>1 DEF Acceptable
  <2>4. /\ 1 \in 1 .. Len(meant.params) /\ DOMAIN meant.params = 1 .. Len(meant.params)
        /\ DOMAIN Args(meant) = 1 .. Len(meant.params) /\ Args(meant)[1].items = meant.params[1]
    BY <1>1, <2>3, ArgsAre
  <2> DEFINE text == meant.params[1][1]
             params == meant.params[1]
  <2>5. text \in Strings /\ params = <<text>>
    <3>1. params \in Seq(Strings) /\ Len(params) = 1
      BY <1>1, <2>3, <2>4, ParamOf
    <3> QED BY <3>1
  <2>6. message.texts[1] = text
    <3>1. Plain["PING"] = {1}
      BY DEF Plain
    <3>2. Meaning("PING", Args(meant))
            = [kind |-> "PING",
               texts |-> [i \in Plain["PING"] \cap DOMAIN Args(meant) |-> Args(meant)[i].items[1]]]
      BY MeaningIs
    <3>3. 1 \in Plain["PING"] \cap DOMAIN Args(meant)
      BY <2>4, <3>1
    <3> QED BY <2>2, <2>4, <3>2, <3>3
  <2> DEFINE m == Message(NoSource, "PONG", << <<text>> >>)
             cmd == [kind |-> "PONG", text |-> text]
  <2>7. Writes("answer", cmd, m)
    BY <1>2, <1>3, <2>5, <2>6
  <2>8. IrcStr(cmd) = <<"PONG">> \o Marked(text)
    <3>1. cmd.kind = "PONG" /\ cmd.text = text
      OBVIOUS
    <3> HIDE DEF cmd
    <3> QED BY <3>1, IrcStrIs
  <2>9. IsMessage(m) /\ IsSpelled(<<"PONG">> \o Marked(text), m)
    BY <2>5, NamesAre, TextIsSpelled
  <2> HIDE DEF m, cmd, text
  <2>10. WritesFor("answer", cmd, m)
    BY <2>8, <2>9, WrittenFor DEF Hows
  <2> QED BY <2>7, <2>10, Written
<1>4. CASE /\ got.source.kind = "nick"
           /\ Writes("answer", [kind |-> "NOTICE", targets |-> <<got.source.nick>>, msg |-> CtcpInfo],
                     Message(NoSource, "NOTICE", << <<meant.source.nick>>, <<CtcpInfo>> >>))
  <2> DEFINE nick == meant.source.nick
             m == Message(NoSource, "NOTICE", << <<nick>>, <<CtcpInfo>> >>)
             cmd == [kind |-> "NOTICE", targets |-> <<nick>>, msg |-> CtcpInfo]
             s == <<"NOTICE", Space>> \o Joined(<<nick>>, Comma) \o Marked(CtcpInfo)
  <2>1. nick \in Strings /\ IsMiddle(<<nick>>)
    BY <1>1, <1>2, <1>4, NoticeParts DEF IsMessage
  <2>2. CtcpInfo \in Strings
    BY NamesAre, AreCharacters DEF CtcpInfo, Strings
  <2>3. Writes("answer", cmd, m)
    BY <1>2, <1>4
  <2>4. IrcStr(cmd) = s
    <3>1. cmd.kind = "NOTICE" /\ cmd.targets = <<nick>> /\ cmd.msg = CtcpInfo
      OBVIOUS
    <3> HIDE DEF cmd
    <3> QED BY <3>1, IrcStrIs
  <2>5. IsMessage(m) /\ IsSpelled(s, m)
    <3>1. IsName("NOTICE")
      BY NamesAre
    <3> HIDE DEF nick
    <3> QED BY <2>1, <2>2, <3>1, PrivmsgIsSpelled
  <2> HIDE DEF m, cmd, s
  <2>6. WritesFor("answer", cmd, m)
    BY <2>4, <2>5, WrittenFor DEF Hows
  <2> QED BY <2>3, <2>6, Written
<1> QED BY <1>3, <1>4 DEF ClientAnswers

LEMMA WireStep ==
  ASSUME WireInv, [Next]_vars
  PROVE  WireInv'
<1>1. CASE ServerSends
  <2>1. PICK source \in Sources, name \in Names, params \in ParamLists, tags \in BOOLEAN :
          Arrives([Message(source, name, params) EXCEPT !.tags = tags])
    BY <1>1 DEF ServerSends
  <2>2. IsMessage([Message(source, name, params) EXCEPT !.tags = tags])
    BY SentMessage
  <2> QED BY <2>1, <2>2, Arrived
<1>2. CASE ServerRelays
  <2> DEFINE m == [Said EXCEPT !.source = NickSource(Me, <<Me>>, << <<"host">> >>)]
  <2>1. hop = "server" /\ Arrives(m)
    BY <1>2 DEF ServerRelays
  <2>2. IsMessage(m)
    BY <2>1, RelayedMessage DEF WireInv, AtServer
  <2> HIDE DEF m
  <2> QED BY <2>1, <2>2, Arrived
<1>3. CASE ClientRegisters
  BY <1>3, RegisterStep
<1>4. CASE UserTypes
  BY <1>4, TypeStep
<1>5. CASE ClientAnswers
  BY <1>5, AnswerStep
<1>6. CASE Done
  BY <1>6, FailedIsValid DEF Done, WireInv, AtServer, AtClient, Hows
<1>7. CASE UNCHANGED vars
  <2>1. /\ hop' = hop /\ meant' = meant /\ line' = line /\ by' = by /\ got' = got
    BY <1>7 DEF vars
  <2>2. Said' = Said
    BY <2>1 DEF Said
  <2>3. ReadAs(line, meant)' = ReadAs(line, meant) /\ Misplaced(meant)' = Misplaced(meant)
    BY <2>1
  <2> QED BY <2>1, <2>2, <2>3 DEF WireInv, AtServer, AtClient
<1> QED BY <1>1, <1>2, <1>3, <1>4, <1>5, <1>6, <1>7 DEF Next

LEMMA WireInvariant == Spec => []WireInv
<1>1. Init => WireInv
  BY FailedIsValid DEF Init, WireInv, AtServer, AtClient, Hows
<1>2. WireInv /\ [Next]_vars => WireInv'
  BY WireStep
<1> QED BY <1>1, <1>2, PTL DEF Spec

-----------------------------------------------------------------------------
(* Every message of the server is parsed to what it means, whatever spaces *)
(* the spelling has and whether the last parameter is marked: the source,  *)
(* the name and each parameter, its list cut at the commas and its text    *)
(* left as it is (IrcMessage::parse, parse_params, parse_source).          *)
THEOREM EverySpellingIsParsed ==
  ASSUME NEW m, IsMessage(m), NEW sp \in Spellings, CanSpell(m, sp)
  PROVE  Parse(Spell(m, sp)) = Meant(m) /\ IsUnderstood(Parse(Spell(m, sp)), m)
BY MessageParsed, MeantIsUnderstood

(* The nick in a parsed source and the targets of a parsed PRIVMSG or      *)
(* NOTICE are valid names (Nickname::new, Target::new).                    *)
THEOREM TypeCorrect == Spec => []TypeOK
<1>1. WireInv => TypeOK
  BY DEF WireInv, HasValidNames, TypeOK, Hows
<1> QED BY <1>1, WireInvariant, PTL

(* What the client has parsed is what the server meant, and what it cannot *)
(* read ends the process, nothing else.                                    *)
THEOREM MessagesAreUnderstood == Spec => []Understood
<1>1. WireInv => Understood
  BY MeantIsUnderstood DEF WireInv, AtClient, Understood, IsUnderstood
<1> QED BY <1>1, WireInvariant, PTL

(* Every line the client writes (ClientMessage::irc_str) is a spelling of  *)
(* what it or its user means, of a /join its first channel alone, except   *)
(* that USER, which is given --nick as it is (main.rs:87), is for every    *)
(* nick that needs a colon not read as it is meant; and a command is       *)
(* refused only if it cannot be done (Command::parse).                     *)
THEOREM LinesAreSentAsMeant == Spec => []SentAsMeant
<1>1. ASSUME IsMessage(meant) PROVE meant # Nothing
  BY <1>1 DEF IsMessage, IsName, Nothing, Message
<1>2. WireInv => SentAsMeant
  BY <1>1 DEF WireInv, AtServer, IsSpelled, SentAsMeant
<1> QED BY <1>2, WireInvariant, PTL
=============================================================================
