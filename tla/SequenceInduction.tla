------------------------- MODULE SequenceInduction -------------------------
(***************************************************************************)
(* Induction over the naturals and over sequences, and what FlattenSeq     *)
(* computes.  The induction theorems of the library take the statement as  *)
(* an operator; these take the set of what it holds for.                   *)
(***************************************************************************)
EXTENDS Integers, SequencesExt, SequenceTheorems, WellFoundedInduction, TLAPS

(* A set of naturals with 0 and the successor of each member is Nat.       *)
LEMMA NatSetInduction ==
  ASSUME NEW T, T \subseteq Nat, 0 \in T, \A n \in T : n + 1 \in T
  PROVE  T = Nat
<1> DEFINE U == Nat \ T
<1> SUFFICES ASSUME U # {} PROVE FALSE
  OBVIOUS
<1>1. PICK x \in U : \A y \in U : ~(<<y, x>> \in OpToRel(<, Nat))
  <2>1. IsWellFoundedOn(OpToRel(<, Nat), Nat)
    BY NatLessThanWellFounded
  <2> QED BY <2>1, WFMin
<1>2. \A y \in U : ~(y < x)
  BY <1>1 DEF OpToRel
<1>3. x \in Nat /\ x # 0 /\ x - 1 \in Nat /\ x - 1 < x /\ x = (x - 1) + 1
  OBVIOUS
<1>4. x - 1 \in T
  BY <1>2, <1>3
<1> QED BY <1>3, <1>4

(* A set of sequences over S with the empty one and, with each, those one  *)
(* element longer, is Seq(S).                                              *)
LEMMA SeqSetInduction ==
  ASSUME NEW S, NEW T, <<>> \in T, \A s \in Seq(S) : s \in T => \A e \in S : Append(s, e) \in T
  PROVE  Seq(S) \subseteq T
<1> DEFINE N == {n \in Nat : \A s \in Seq(S) : Len(s) = n => s \in T}
<1>1. 0 \in N
  BY EmptySeq
<1>2. ASSUME NEW n \in N PROVE n + 1 \in N
  <2> SUFFICES ASSUME NEW s \in Seq(S), Len(s) = n + 1 PROVE s \in T
    OBVIOUS
  <2>1. s # <<>>
    BY EmptySeq
  <2>2. PICK t \in Seq(S), e \in S : s = Append(t, e)
    BY <2>1, SequenceEmptyOrAppend
  <2>3. Len(t) = n
    BY <2>2, AppendProperties, LenProperties
  <2> QED BY <2>2, <2>3
<1> HIDE DEF N
<1>3. N = Nat
  <2>1. N \subseteq Nat
    BY DEF N
  <2> QED BY <1>1, <1>2, <2>1, NatSetInduction
<1> QED BY <1>3, LenProperties DEF N

LEMMA ConcatAppend ==
  ASSUME NEW S, NEW s \in Seq(S), NEW t \in Seq(S), NEW e \in S
  PROVE  s \o Append(t, e) = Append(s \o t, e)
<1>1. <<e>> \in Seq(S)
  OBVIOUS
<1>2. Append(t, e) = t \o <<e>>
  BY AppendIsConcat
<1>3. Append(s \o t, e) = (s \o t) \o <<e>>
  BY AppendIsConcat, ConcatProperties
<1> QED BY <1>1, <1>2, <1>3, ConcatAssociative

(* The parts of a concatenation. *)
LEMMA ConcatParts ==
  ASSUME NEW S, NEW s \in Seq(S), NEW u \in Seq(S)
  PROVE  /\ SubSeq(s \o u, 1, Len(s)) = s
         /\ SubSeq(s \o u, Len(s) + 1, Len(s \o u)) = u
<1> DEFINE w == s \o u
<1>1. /\ w \in Seq(S) /\ Len(w) = Len(s) + Len(u) /\ Len(s) \in Nat /\ Len(u) \in Nat
      /\ \A i \in 1 .. Len(w) : w[i] = IF i <= Len(s) THEN s[i] ELSE u[i - Len(s)]
  BY ConcatProperties, LenProperties
<1>2. \A i \in 1 .. Len(w) : w[i] \in S
  BY <1>1, ElementOfSeq
<1> HIDE DEF w
<1>3. SubSeq(w, 1, Len(s)) = s
  <2> DEFINE p == SubSeq(w, 1, Len(s))
  <2>1. p \in Seq(S) /\ Len(p) = Len(s) /\ \A i \in 1 .. Len(s) : p[i] = w[i]
    <3>1. \A i \in 1 .. Len(s) : w[i] \in S
      BY <1>1, <1>2
    <3> QED BY <1>1, <3>1, SubSeqProperties
  <2> HIDE DEF p
  <2>2. \A i \in 1 .. Len(p) : p[i] = s[i]
    BY <1>1, <2>1
  <2>3. p = s
    BY <2>1, <2>2, SeqEqual
  <2> QED BY <2>3 DEF p
<1>4. SubSeq(w, Len(s) + 1, Len(w)) = u
  <2> DEFINE p == SubSeq(w, Len(s) + 1, Len(w))
  <2>1. p \in Seq(S) /\ Len(p) = Len(u) /\ \A i \in 1 .. Len(u) : p[i] = w[Len(s) + i]
    <3>1. \A i \in Len(s) + 1 .. Len(w) : w[i] \in S
      BY <1>1, <1>2
    <3> QED BY <1>1, <3>1, SubSeqProperties
  <2> HIDE DEF p
  <2>2. ASSUME NEW i \in 1 .. Len(p) PROVE p[i] = u[i]
    <3> DEFINE j == Len(s) + i
    <3>1. i \in 1 .. Len(u) /\ j \in 1 .. Len(w) /\ ~(j <= Len(s)) /\ j - Len(s) = i
      BY <1>1, <2>1
    <3>2. w[j] = u[j - Len(s)]
      BY <1>1, <3>1
    <3> QED BY <2>1, <3>1, <3>2
  <2>3. p = u
    BY <2>1, <2>2, SeqEqual
  <2> QED BY <2>3 DEF p
<1> QED BY <1>3, <1>4 DEF w

-----------------------------------------------------------------------------
(* FlattenSeq. *)

(* The function FlattenSeq defines on 1 .. n.                              *)
IsFlatten(g, s, n) == g = [i \in 1 .. n |-> IF i = 1 THEN s[i] ELSE g[i - 1] \o s[i]]

LEMMA FlattenExists ==
  ASSUME NEW s, NEW n \in Nat
  PROVE  \E g : IsFlatten(g, s, n)
<1> DEFINE T == {m \in Nat : \E g : IsFlatten(g, s, m)}
<1>1. 0 \in T
  <2> DEFINE g == [i \in 1 .. 0 |-> s[i]]
  <2>1. IsFlatten(g, s, 0)
    BY DEF IsFlatten
  <2> QED BY <2>1
<1>2. ASSUME NEW m \in T PROVE m + 1 \in T
  <2>1. PICK g : IsFlatten(g, s, m)
    OBVIOUS
  <2> DEFINE last == IF m = 0 THEN s[m + 1] ELSE g[m] \o s[m + 1]
             h == [i \in 1 .. m + 1 |-> IF i = m + 1 THEN last ELSE g[i]]
  <2>2. IsFlatten(h, s, m + 1)
    <3> SUFFICES ASSUME NEW i \in 1 .. m + 1
                 PROVE  h[i] = IF i = 1 THEN s[i] ELSE h[i - 1] \o s[i]
      BY DEF IsFlatten
    <3>1. CASE i = m + 1
      <4>1. h[i] = last
        BY <3>1
      <4>2. m # 0 => h[m] = g[m]
        OBVIOUS
      <4> HIDE DEF h
      <4> QED BY <3>1, <4>1, <4>2
    <3>2. CASE i # m + 1
      <4>1. i \in 1 .. m /\ h[i] = g[i]
        BY <3>2
      <4>2. g[i] = IF i = 1 THEN s[i] ELSE g[i - 1] \o s[i]
        BY <2>1, <4>1 DEF IsFlatten
      <4>3. i # 1 => h[i - 1] = g[i - 1]
        BY <4>1
      <4> HIDE DEF h
      <4> QED BY <4>1, <4>2, <4>3
    <3> QED BY <3>1, <3>2
  <2> HIDE DEF h
  <2> QED BY <2>2
<1> HIDE DEF T
<1>3. T = Nat
  <2>1. T \subseteq Nat
    BY DEF T
  <2> QED BY <1>1, <1>2, <2>1, NatSetInduction
<1> QED BY <1>3 DEF T

LEMMA FlattenStep ==
  ASSUME NEW g, NEW s, NEW n \in Nat, IsFlatten(g, s, n), NEW k \in Nat, k + 1 <= n
  PROVE  g[k + 1] = IF k = 0 THEN s[k + 1] ELSE g[k] \o s[k + 1]
<1> DEFINE i == k + 1
<1>1. i \in 1 .. n /\ i - 1 = k /\ (i = 1 <=> k = 0)
  OBVIOUS
<1> HIDE DEF i
<1>2. g[i] = IF i = 1 THEN s[i] ELSE g[i - 1] \o s[i]
  BY <1>1 DEF IsFlatten
<1>3. g[i] = IF k = 0 THEN s[i] ELSE g[k] \o s[i]
  BY <1>1, <1>2
<1> QED BY <1>3 DEF i

LEMMA FlattenSteps ==
  ASSUME NEW S, NEW s \in Seq(S), s # <<>>
  PROVE  \E g : IsFlatten(g, s, Len(s)) /\ FlattenSeq(s) = g[Len(s)]
<1> DEFINE n == Len(s)
           flatten == CHOOSE g : IsFlatten(g, s, n)
<1>1. n \in Nat /\ n # 0
  BY LenProperties, EmptySeq
<1>2. IsFlatten(flatten, s, n)
  BY <1>1, FlattenExists
<1>3. FlattenSeq(s) = flatten[n]
  BY <1>1 DEF FlattenSeq, IsFlatten
<1> HIDE DEF flatten
<1> QED BY <1>2, <1>3

LEMMA FlattenEmpty == FlattenSeq(<<>>) = <<>>
<1>1. Len(<<>>) = 0
  BY EmptySeq
<1> QED BY <1>1 DEF FlattenSeq

(* The functions of two sequences agree as far as these do.                *)
LEMMA FlattenAgrees ==
  ASSUME NEW s, NEW t, NEW g, NEW h, NEW n \in Nat, NEW m \in Nat, n <= m,
         IsFlatten(g, s, n), IsFlatten(h, t, m), \A i \in 1 .. n : s[i] = t[i]
  PROVE  \A i \in 1 .. n : g[i] = h[i]
<1> DEFINE T == {i \in Nat : i \in 1 .. n => g[i] = h[i]}
<1>1. 0 \in T
  OBVIOUS
<1>2. ASSUME NEW i \in T PROVE i + 1 \in T
  <2> SUFFICES ASSUME i + 1 \in 1 .. n PROVE g[i + 1] = h[i + 1]
    OBVIOUS
  <2>0. i \in Nat /\ i + 1 <= n /\ i + 1 <= m
    OBVIOUS
  <2>1. g[i + 1] = IF i = 0 THEN s[i + 1] ELSE g[i] \o s[i + 1]
    BY <2>0, FlattenStep
  <2>2. h[i + 1] = IF i = 0 THEN t[i + 1] ELSE h[i] \o t[i + 1]
    BY <2>0, FlattenStep
  <2>3. i # 0 => g[i] = h[i]
    OBVIOUS
  <2> QED BY <2>1, <2>2, <2>3
<1> HIDE DEF T
<1>3. T = Nat
  <2>1. T \subseteq Nat
    BY DEF T
  <2> QED BY <1>1, <1>2, <2>1, NatSetInduction
<1> QED BY <1>3 DEF T

(* The last of the sequences comes last.                                   *)
LEMMA FlattenAppend ==
  ASSUME NEW S, NEW s \in Seq(Seq(S)), NEW e \in Seq(S)
  PROVE  FlattenSeq(Append(s, e)) = FlattenSeq(s) \o e
<1> DEFINE n == Len(s)
           t == Append(s, e)
<1>1. /\ n \in Nat
      /\ t \in Seq(Seq(S))
      /\ t # <<>>
      /\ Len(t) = n + 1
      /\ \A i \in 1 .. n : t[i] = s[i]
      /\ t[n + 1] = e
  BY LenProperties, AppendProperties
<1> HIDE DEF t
<1>2. PICK h : IsFlatten(h, t, n + 1) /\ FlattenSeq(t) = h[n + 1]
  BY <1>1, FlattenSteps
<1>3. h[n + 1] = IF n = 0 THEN e ELSE h[n] \o e
  <2>1. n + 1 \in Nat /\ n + 1 <= n + 1
    BY <1>1
  <2>2. h[n + 1] = IF n = 0 THEN t[n + 1] ELSE h[n] \o t[n + 1]
    BY <1>1, <1>2, <2>1, FlattenStep
  <2> QED BY <1>1, <2>2
<1>4. CASE n = 0
  <2>1. s = <<>>
    BY <1>4, EmptySeq
  <2> QED BY <1>2, <1>3, <1>4, <2>1, FlattenEmpty, ConcatEmptySeq DEF t
<1>5. CASE n # 0
  <2>1. s # <<>>
    BY <1>5, EmptySeq
  <2>2. PICK g : IsFlatten(g, s, n) /\ FlattenSeq(s) = g[n]
    BY <2>1, FlattenSteps
  <2>3. \A i \in 1 .. n : g[i] = h[i]
    <3>1. n + 1 \in Nat /\ n <= n + 1 /\ \A i \in 1 .. n : s[i] = t[i]
      BY <1>1
    <3>2. n \in Nat /\ IsFlatten(g, s, n) /\ IsFlatten(h, t, n + 1)
      BY <1>1, <1>2, <2>2
    <3> HIDE DEF n
    <3> QED BY ONLY <3>1, <3>2, FlattenAgrees
  <2>4. n \in 1 .. n
    BY <1>1, <1>5
  <2>5. FlattenSeq(t) = g[n] \o e
    BY <1>2, <1>3, <1>5, <2>3, <2>4
  <2> QED BY <2>2, <2>5 DEF t
<1> QED BY <1>4, <1>5

LEMMA FlattenFirst ==
  ASSUME NEW S, NEW x \in Seq(S), NEW s \in Seq(Seq(S))
  PROVE  FlattenSeq(<<x>> \o s) = x \o FlattenSeq(s)
<1> DEFINE T == {t \in Seq(Seq(S)) : /\ FlattenSeq(t) \in Seq(S)
                                    /\ FlattenSeq(<<x>> \o t) = x \o FlattenSeq(t)}
<1>0. <<x>> \in Seq(Seq(S))
  OBVIOUS
<1>1. <<>> \in T
  <2>1. PICK t \in Seq(Seq(S)) : t = <<>>
    BY EmptySeq
  <2>2. Append(t, x) = <<x>>
    BY <2>1
  <2>3. FlattenSeq(Append(t, x)) = FlattenSeq(t) \o x
    BY FlattenAppend
  <2>4. FlattenSeq(<<x>>) = x
    BY <2>1, <2>2, <2>3, FlattenEmpty, ConcatEmptySeq
  <2>5. <<x>> \o <<>> = <<x>> /\ x \o <<>> = x /\ <<>> \in Seq(S)
    BY <1>0, ConcatEmptySeq, EmptySeq
  <2> QED BY <2>1, <2>4, <2>5, FlattenEmpty
<1>2. ASSUME NEW t \in Seq(Seq(S)), t \in T, NEW e \in Seq(S) PROVE Append(t, e) \in T
  <2> DEFINE u == <<x>> \o t
  <2>1. <<x>> \o Append(t, e) = Append(u, e)
    BY <1>0, ConcatAppend
  <2>2. u \in Seq(Seq(S)) /\ Append(t, e) \in Seq(Seq(S))
    BY <1>0, ConcatProperties, AppendProperties
  <2>3. FlattenSeq(u) = x \o FlattenSeq(t) /\ FlattenSeq(t) \in Seq(S)
    BY <1>2
  <2> HIDE DEF u
  <2>4. FlattenSeq(Append(u, e)) = FlattenSeq(u) \o e
    BY <2>2, FlattenAppend
  <2>5. FlattenSeq(Append(t, e)) = FlattenSeq(t) \o e
    BY FlattenAppend
  <2>6. (x \o FlattenSeq(t)) \o e = x \o (FlattenSeq(t) \o e)
    BY <2>3, ConcatAssociative
  <2>7. FlattenSeq(t) \o e \in Seq(S)
    BY <2>3, ConcatProperties
  <2> QED BY <2>1, <2>2, <2>3, <2>4, <2>5, <2>6, <2>7
<1>3. s \in T
  <2> HIDE DEF T
  <2>1. Seq(Seq(S)) \subseteq T
    BY <1>1, <1>2, SeqSetInduction
  <2> QED BY <2>1
<1> QED BY <1>3

LEMMA FlattenType ==
  ASSUME NEW S, NEW s \in Seq(Seq(S))
  PROVE  FlattenSeq(s) \in Seq(S)
<1> DEFINE T == {t \in Seq(Seq(S)) : FlattenSeq(t) \in Seq(S)}
<1>1. <<>> \in T
  BY FlattenEmpty, EmptySeq
<1>2. ASSUME NEW t \in Seq(Seq(S)), t \in T, NEW e \in Seq(S) PROVE Append(t, e) \in T
  BY <1>2, FlattenAppend, AppendProperties, ConcatProperties
<1> HIDE DEF T
<1>3. Seq(Seq(S)) \subseteq T
  BY <1>1, <1>2, SeqSetInduction
<1> QED BY <1>3 DEF T

-----------------------------------------------------------------------------
(* The sequences that f maps the elements of s to, one after the other.    *)

Mapped(f, s) == [i \in DOMAIN s |-> f[s[i]]]

LEMMA MappedType ==
  ASSUME NEW S, NEW T, NEW f \in [S -> T], NEW s \in Seq(S)
  PROVE  Mapped(f, s) \in Seq(T) /\ Len(Mapped(f, s)) = Len(s)
<1>1. Len(s) \in Nat /\ DOMAIN s = 1 .. Len(s)
  BY LenProperties
<1>2. \A i \in 1 .. Len(s) : f[s[i]] \in T
  BY ElementOfSeq
<1> QED BY <1>1, <1>2 DEF Mapped

LEMMA MappedAppend ==
  ASSUME NEW S, NEW T, NEW f \in [S -> T], NEW s \in Seq(S), NEW e \in S
  PROVE  Mapped(f, Append(s, e)) = Append(Mapped(f, s), f[e])
<1> DEFINE more == Append(s, e)
           each == Append(Mapped(f, s), f[e])
<1>1. more \in Seq(S) /\ Len(more) = Len(s) + 1 /\ Len(s) \in Nat
  BY AppendProperties, LenProperties
<1>0. ASSUME NEW u \in Seq(S) PROVE Mapped(f, u) \in Seq(T) /\ Len(Mapped(f, u)) = Len(u)
  <2>1. Len(u) \in Nat /\ DOMAIN u = 1 .. Len(u)
    BY LenProperties
  <2>2. \A i \in 1 .. Len(u) : f[u[i]] \in T
    BY ElementOfSeq
  <2> QED BY <2>1, <2>2 DEF Mapped
<1>2. Mapped(f, s) \in Seq(T) /\ Len(Mapped(f, s)) = Len(s) /\ f[e] \in T
  BY <1>0
<1>3. each \in Seq(T) /\ Len(each) = Len(s) + 1
  BY <1>2, AppendProperties
<1>4. Mapped(f, more) \in Seq(T) /\ Len(Mapped(f, more)) = Len(s) + 1
  BY <1>0, <1>1
<1>5. ASSUME NEW i \in 1 .. Len(s) + 1 PROVE Mapped(f, more)[i] = each[i]
  <2>1. DOMAIN more = 1 .. Len(s) + 1 /\ DOMAIN s = 1 .. Len(s)
    BY <1>1, LenProperties
  <2>2. Mapped(f, more)[i] = f[more[i]]
    BY <2>1 DEF Mapped
  <2>3. CASE i = Len(s) + 1
    BY <1>2, <2>2, <2>3, AppendProperties
  <2>4. CASE i # Len(s) + 1
    <3>1. i \in 1 .. Len(s)
      BY <1>1, <2>4
    <3>2. more[i] = s[i] /\ each[i] = Mapped(f, s)[i]
      BY <1>2, <3>1, AppendProperties
    <3> QED BY <2>1, <2>2, <3>1, <3>2 DEF Mapped
  <2> QED BY <2>3, <2>4
<1> HIDE DEF more, each
<1>6. Mapped(f, more) = each
  BY <1>3, <1>4, <1>5, SeqEqual
<1> QED BY <1>6 DEF more, each

LEMMA FlattenMapped ==
  ASSUME NEW S, NEW T, NEW f \in [S -> Seq(T)]
  PROVE  /\ FlattenSeq(Mapped(f, <<>>)) = <<>>
         /\ \A s \in Seq(S) : /\ FlattenSeq(Mapped(f, s)) \in Seq(T)
                              /\ \A e \in S : FlattenSeq(Mapped(f, Append(s, e)))
                                                = FlattenSeq(Mapped(f, s)) \o f[e]
<1>1. Mapped(f, <<>>) = <<>>
  BY DEF Mapped
<1>2. ASSUME NEW s \in Seq(S) PROVE FlattenSeq(Mapped(f, s)) \in Seq(T)
  BY MappedType, FlattenType
<1>3. ASSUME NEW s \in Seq(S), NEW e \in S
      PROVE  FlattenSeq(Mapped(f, Append(s, e))) = FlattenSeq(Mapped(f, s)) \o f[e]
  <2>1. Mapped(f, Append(s, e)) = Append(Mapped(f, s), f[e])
    BY MappedAppend
  <2>2. Mapped(f, s) \in Seq(Seq(T)) /\ f[e] \in Seq(T)
    BY MappedType
  <2> QED BY <2>1, <2>2, FlattenAppend
<1> QED BY <1>1, <1>2, <1>3, FlattenEmpty

LEMMA FlattenMappedConcat ==
  ASSUME NEW S, NEW T, NEW f \in [S -> Seq(T)]
  PROVE  \A s, u, v \in Seq(S) : v = s \o u =>
           FlattenSeq(Mapped(f, v)) = FlattenSeq(Mapped(f, s)) \o FlattenSeq(Mapped(f, u))
<1> SUFFICES ASSUME NEW s \in Seq(S), NEW u \in Seq(S)
             PROVE  FlattenSeq(Mapped(f, s \o u))
                      = FlattenSeq(Mapped(f, s)) \o FlattenSeq(Mapped(f, u))
  OBVIOUS
<1> DEFINE G(x) == FlattenSeq(Mapped(f, x))
           D == {t \in Seq(S) : G(s \o t) = G(s) \o G(t)}
<1>1. /\ G(<<>>) = <<>>
      /\ \A x \in Seq(S) : G(x) \in Seq(T)
      /\ \A x \in Seq(S), e \in S : G(Append(x, e)) = G(x) \o f[e]
  BY FlattenMapped
<1> HIDE DEF G
<1>2. <<>> \in D
  BY <1>1, EmptySeq, ConcatEmptySeq
<1>3. ASSUME NEW t \in Seq(S), t \in D, NEW e \in S PROVE Append(t, e) \in D
  <2>1. s \o Append(t, e) = Append(s \o t, e)
    BY ConcatAppend
  <2>2. G(Append(s \o t, e)) = G(s \o t) \o f[e]
    BY <1>1, ConcatProperties
  <2>3. G(Append(t, e)) = G(t) \o f[e]
    BY <1>1
  <2>4. (G(s) \o G(t)) \o f[e] = G(s) \o (G(t) \o f[e])
    <3>1. G(s) \in Seq(T) /\ G(t) \in Seq(T) /\ f[e] \in Seq(T)
      BY <1>1
    <3> QED BY ONLY <3>1, ConcatAssociative, SMTT(60)
  <2> QED BY <1>3, <2>1, <2>2, <2>3, <2>4, AppendProperties
<1> HIDE DEF D
<1>4. Seq(S) \subseteq D
  BY <1>2, <1>3, SeqSetInduction
<1> QED BY <1>4 DEF D, G
=============================================================================
