---------------------------- MODULE FoldTheorems ----------------------------
(***************************************************************************)
(* What FoldLeft computes, for any operator: instantiate it with the one   *)
(* that is folded.                                                         *)
(***************************************************************************)
EXTENDS Integers, Sequences, Folds, WellFoundedInduction, TLAPS

CONSTANT Op(_, _)

(* FoldLeft of SequencesExt, written out: each instance of this module     *)
(* brings with it all that the module extends.                             *)
Largest(S) == CHOOSE x \in S : \A y \in S : x >= y
Fold(base, s) ==
  MapThenFoldSet(LAMBDA x, y : Op(y, x), base, LAMBDA i : s[i], LAMBDA S : Largest(S), DOMAIN s)

(* The function FoldLeft defines on the subsets of 1 .. n.                 *)
IsIter(g, base, s, n) ==
  g = [d \in SUBSET (1 .. n) |->
         IF d = {} THEN base ELSE Op(g[d \ {Largest(d)}], s[Largest(d)])]

(* A set of naturals with 0 and the successor of each member is Nat.       *)
LEMMA NatSetInduction ==
  ASSUME NEW T, T \subseteq Nat, 0 \in T, \A n \in T : n + 1 \in T
  PROVE  T = Nat
<1> DEFINE U == Nat \ T
<1> SUFFICES ASSUME U # {} PROVE FALSE
  OBVIOUS
<1>1. PICK x \in U : \A y \in U : ~(<<y, x>> \in OpToRel(<, Nat))
  <2>1. IsWellFoundedOn(OpToRel(<, Nat), Nat)
    BY NatLessThanWellFounded
  <2> QED BY <2>1, WFMin
<1>2. \A y \in U : ~(y < x)
  BY <1>1 DEF OpToRel
<1>3. x \in Nat /\ x # 0 /\ x - 1 \in Nat /\ x - 1 < x /\ x = (x - 1) + 1
  OBVIOUS
<1>4. x - 1 \in T
  BY <1>2, <1>3
<1> QED BY <1>3, <1>4

LEMMA MaxOfInterval ==
  ASSUME NEW n \in Nat, NEW d \in SUBSET (1 .. n + 1), n + 1 \in d
  PROVE  Largest(d) = n + 1
<1>1. \A y \in d : n + 1 >= y
  OBVIOUS
<1>2. Largest(d) \in d /\ \A y \in d : Largest(d) >= y
  BY <1>1 DEF Largest
<1>3. Largest(d) \in 1 .. n + 1
  BY <1>2
<1>4. Largest(d) >= n + 1 /\ n + 1 >= Largest(d)
  BY <1>1, <1>2
<1> HIDE DEF Largest
<1> QED BY <1>3, <1>4

LEMMA MaxExists ==
  ASSUME NEW n \in Nat, NEW d \in SUBSET (1 .. n), d # {}
  PROVE  Largest(d) \in d
<1> DEFINE T == {m \in Nat : \A e \in SUBSET (1 .. m) : e # {} => Largest(e) \in e}
<1>1. 0 \in T
  <2>1. 1 .. 0 = {}
    OBVIOUS
  <2> QED BY <2>1
<1>2. ASSUME NEW m \in T PROVE m + 1 \in T
  <2> SUFFICES ASSUME NEW e \in SUBSET (1 .. m + 1), e # {} PROVE Largest(e) \in e
    OBVIOUS
  <2>1. CASE m + 1 \in e
    BY <2>1, MaxOfInterval
  <2>2. CASE m + 1 \notin e
    <3>1. e \in SUBSET (1 .. m)
      BY <2>2
    <3> QED BY <3>1
  <2> QED BY <2>1, <2>2
<1> HIDE DEF T
<1>3. T = Nat
  <2>1. T \subseteq Nat
    BY DEF T
  <2> QED BY <1>1, <1>2, <2>1, NatSetInduction
<1> QED BY <1>3 DEF T

LEMMA IterExists ==
  ASSUME NEW base, NEW s, NEW n \in Nat
  PROVE  \E g : IsIter(g, base, s, n)
<1> DEFINE T == {m \in Nat : \E g : IsIter(g, base, s, m)}
<1>1. 0 \in T
  <2> DEFINE g == [d \in SUBSET (1 .. 0) |-> base]
  <2>1. IsIter(g, base, s, 0)
    BY DEF IsIter
  <2> QED BY <2>1
<1>2. ASSUME NEW m \in T PROVE m + 1 \in T
  <2>1. PICK g : IsIter(g, base, s, m)
    OBVIOUS
  <2> DEFINE h == [d \in SUBSET (1 .. m + 1) |->
                     IF m + 1 \in d THEN Op(g[d \ {m + 1}], s[m + 1]) ELSE g[d]]
  <2>2. IsIter(h, base, s, m + 1)
    <3> SUFFICES ASSUME NEW d \in SUBSET (1 .. m + 1)
                 PROVE  h[d] = IF d = {} THEN base ELSE Op(h[d \ {Largest(d)}], s[Largest(d)])
      BY DEF IsIter
    <3>1. CASE m + 1 \in d
      <4>1. Largest(d) = m + 1
        BY <3>1, MaxOfInterval
      <4>2. d \ {m + 1} \in SUBSET (1 .. m + 1) /\ m + 1 \notin d \ {m + 1}
        OBVIOUS
      <4>3. h[d \ {m + 1}] = g[d \ {m + 1}]
        BY <4>2
      <4>4. h[d] = Op(g[d \ {m + 1}], s[m + 1])
        BY <3>1
      <4> HIDE DEF h
      <4> QED BY <3>1, <4>1, <4>3, <4>4
    <3>2. CASE m + 1 \notin d
      <4>1. d \in SUBSET (1 .. m) /\ h[d] = g[d]
        BY <3>2
      <4>2. g[d] = IF d = {} THEN base ELSE Op(g[d \ {Largest(d)}], s[Largest(d)])
        BY <2>1, <4>1 DEF IsIter
      <4>3. h[d \ {Largest(d)}] = g[d \ {Largest(d)}]
        BY <3>2
      <4> HIDE DEF h
      <4> QED BY <4>1, <4>2, <4>3
    <3> QED BY <3>1, <3>2
  <2> HIDE DEF h
  <2>3. m + 1 \in Nat
    OBVIOUS
  <2> QED BY <2>2, <2>3
<1> HIDE DEF T
<1>3. T = Nat
  <2>1. T \subseteq Nat
    BY DEF T
  <2> QED BY <1>1, <1>2, <2>1, NatSetInduction
<1> QED BY <1>3 DEF T

(* FoldLeft goes through the sequence: h[k] is what k elements give.       *)
LEMMA FoldSteps ==
  ASSUME NEW S, NEW s \in Seq(S), NEW base
  PROVE  \E h : /\ Fold(base, s) = h[Len(s)]
                /\ h[0] = base
                /\ \A k \in 1 .. Len(s) : h[k] = Op(h[k - 1], s[k])
<1> DEFINE n == Len(s)
           iter == CHOOSE g : IsIter(g, base, s, n)
           h == [k \in 0 .. n |-> iter[1 .. k]]
<1>1. n \in Nat /\ DOMAIN s = 1 .. n
  OBVIOUS
<1>2. IsIter(iter, base, s, n)
  BY <1>1, IterExists
<1>3. Fold(base, s) = iter[1 .. n]
  BY <1>1 DEF Fold, MapThenFoldSet, IsIter
<1> HIDE DEF iter
<1>4. h[0] = base
  <2>1. 1 .. 0 = {} /\ {} \in SUBSET (1 .. n)
    OBVIOUS
  <2>2. iter[{}] = base
    BY <1>2, <2>1 DEF IsIter
  <2> QED BY <1>1, <2>1, <2>2
<1>5. ASSUME NEW k \in 1 .. n PROVE h[k] = Op(h[k - 1], s[k])
  <2>1. 1 .. k \in SUBSET (1 .. n) /\ 1 .. k # {}
    BY <1>1
  <2>2. Largest(1 .. k) = k
    BY <1>1 DEF Largest
  <2>3. (1 .. k) \ {k} = 1 .. k - 1
    BY <1>1
  <2>4. iter[1 .. k] = Op(iter[1 .. k - 1], s[k])
    BY <1>2, <2>1, <2>2, <2>3 DEF IsIter
  <2>5. k \in 0 .. n /\ k - 1 \in 0 .. n
    BY <1>1
  <2> QED BY <2>4, <2>5
<1>6. h[n] = iter[1 .. n]
  BY <1>1
<1> HIDE DEF h
<1> QED BY <1>3, <1>4, <1>5, <1>6

(* Folding nothing gives the base.                                         *)
LEMMA FoldEmpty ==
  ASSUME NEW base
  PROVE  Fold(base, <<>>) = base
<1>1. ASSUME NEW S, NEW s \in Seq(S), Len(s) = 0 PROVE Fold(base, s) = base
  <2>1. PICK h : /\ Fold(base, s) = h[Len(s)]
                 /\ h[0] = base
                 /\ \A k \in 1 .. Len(s) : h[k] = Op(h[k - 1], s[k])
    BY FoldSteps
  <2> QED BY <1>1, <2>1
<1>2. <<>> \in Seq({}) /\ Len(<<>>) = 0
  OBVIOUS
<1> QED BY <1>1, <1>2

(* The last element is folded last.                                        *)
LEMMA FoldAppend ==
  ASSUME NEW S, NEW s \in Seq(S), NEW e \in S, NEW base
  PROVE  Fold(base, Append(s, e)) = Op(Fold(base, s), e)
<1> DEFINE n == Len(s)
           t == Append(s, e)
<1>1. /\ n \in Nat
      /\ t \in Seq(S)
      /\ Len(t) = n + 1
      /\ \A i \in 1 .. n : t[i] = s[i]
      /\ t[n + 1] = e
  OBVIOUS
<1> HIDE DEF t
<1>2. PICK h : /\ Fold(base, s) = h[n]
               /\ h[0] = base
               /\ \A k \in 1 .. n : h[k] = Op(h[k - 1], s[k])
  BY FoldSteps
<1>3. PICK g : /\ Fold(base, t) = g[n + 1]
               /\ g[0] = base
               /\ \A k \in 1 .. n + 1 : g[k] = Op(g[k - 1], t[k])
  BY <1>1, FoldSteps
<1> DEFINE T == {k \in Nat : k <= n => g[k] = h[k]}
<1>4. 0 \in T
  BY <1>2, <1>3
<1>5. ASSUME NEW k \in T PROVE k + 1 \in T
  <2> SUFFICES ASSUME k + 1 <= n PROVE g[k + 1] = h[k + 1]
    OBVIOUS
  <2>1. k + 1 \in 1 .. n /\ k + 1 \in 1 .. n + 1 /\ (k + 1) - 1 = k /\ k <= n
    BY <1>1
  <2>2. g[k + 1] = Op(g[k], t[k + 1])
    BY <1>3, <2>1
  <2>3. h[k + 1] = Op(h[k], s[k + 1])
    BY <1>2, <2>1
  <2> QED BY <1>1, <2>1, <2>2, <2>3
<1> HIDE DEF T
<1>6. T = Nat
  <2>1. T \subseteq Nat
    BY DEF T
  <2> QED BY <1>4, <1>5, <2>1, NatSetInduction
<1>7. g[n] = h[n]
  BY <1>1, <1>6 DEF T
<1>8. n + 1 \in 1 .. n + 1 /\ (n + 1) - 1 = n
  BY <1>1
<1>9. g[n + 1] = Op(g[n], e)
  BY <1>1, <1>3, <1>8
<1> QED BY <1>2, <1>3, <1>7, <1>9 DEF t

(* A set that holds the base and is closed under Op holds the result.      *)
LEMMA FoldType ==
  ASSUME NEW S, NEW I, NEW base \in I, \A a \in I, e \in S : Op(a, e) \in I,
         NEW s \in Seq(S)
  PROVE  Fold(base, s) \in I
<1> DEFINE n == Len(s)
<1>1. n \in Nat /\ \A k \in 1 .. n : s[k] \in S
  OBVIOUS
<1>2. PICK h : /\ Fold(base, s) = h[n]
               /\ h[0] = base
               /\ \A k \in 1 .. n : h[k] = Op(h[k - 1], s[k])
  BY FoldSteps
<1> DEFINE T == {k \in Nat : k <= n => h[k] \in I}
<1>3. 0 \in T
  BY <1>2
<1>4. ASSUME NEW k \in T PROVE k + 1 \in T
  <2> SUFFICES ASSUME k + 1 <= n PROVE h[k + 1] \in I
    OBVIOUS
  <2>1. k + 1 \in 1 .. n /\ (k + 1) - 1 = k /\ k <= n
    BY <1>1
  <2>2. h[k + 1] = Op(h[k], s[k + 1])
    BY <1>2, <2>1
  <2>3. h[k] \in I /\ s[k + 1] \in S
    BY <1>1, <2>1
  <2> QED BY <2>2, <2>3
<1> HIDE DEF T
<1>5. T = Nat
  <2>1. T \subseteq Nat
    BY DEF T
  <2> QED BY <1>3, <1>4, <2>1, NatSetInduction
<1> QED BY <1>1, <1>2, <1>5 DEF T

(* Of two parts, the second is folded onto what the first gives.           *)
LEMMA FoldConcat ==
  ASSUME NEW S, NEW s \in Seq(S), NEW u \in Seq(S), NEW base
  PROVE  Fold(base, s \o u) = Fold(Fold(base, s), u)
<1> DEFINE n == Len(s)
           m == Len(u)
           t == s \o u
<1>1. /\ n \in Nat /\ m \in Nat
      /\ t \in Seq(S)
      /\ Len(t) = n + m
      /\ \A i \in 1 .. n : t[i] = s[i]
      /\ \A i \in 1 .. m : t[n + i] = u[i]
  OBVIOUS
<1> HIDE DEF t
<1>2. PICK h : /\ Fold(base, s) = h[n]
               /\ h[0] = base
               /\ \A k \in 1 .. n : h[k] = Op(h[k - 1], s[k])
  BY FoldSteps
<1>3. PICK f : /\ Fold(h[n], u) = f[m]
               /\ f[0] = h[n]
               /\ \A k \in 1 .. m : f[k] = Op(f[k - 1], u[k])
  BY FoldSteps
<1>4. PICK g : /\ Fold(base, t) = g[n + m]
               /\ g[0] = base
               /\ \A k \in 1 .. n + m : g[k] = Op(g[k - 1], t[k])
  <2>1. \E g : /\ Fold(base, t) = g[Len(t)]
              /\ g[0] = base
              /\ \A k \in 1 .. Len(t) : g[k] = Op(g[k - 1], t[k])
    <3>1. ASSUME NEW w \in Seq(S)
          PROVE  \E g : /\ Fold(base, w) = g[Len(w)]
                       /\ g[0] = base
                       /\ \A k \in 1 .. Len(w) : g[k] = Op(g[k - 1], w[k])
      BY FoldSteps
    <3>2. t \in Seq(S)
      BY <1>1
    <3> QED BY <3>1, <3>2
  <2> QED BY <1>1, <2>1, Zenon
<1> DEFINE T == {k \in Nat : k <= n => g[k] = h[k]}
<1>5. 0 \in T
  BY <1>2, <1>4
<1>6. ASSUME NEW k \in T PROVE k + 1 \in T
  <2> SUFFICES ASSUME k + 1 <= n PROVE g[k + 1] = h[k + 1]
    OBVIOUS
  <2>1. k + 1 \in 1 .. n /\ k + 1 \in 1 .. n + m /\ (k + 1) - 1 = k /\ k <= n
    BY <1>1
  <2>2. g[k + 1] = Op(g[k], t[k + 1])
    BY <1>4, <2>1
  <2>3. h[k + 1] = Op(h[k], s[k + 1])
    BY <1>2, <2>1
  <2> QED BY <1>1, <2>1, <2>2, <2>3
<1> HIDE DEF T
<1>7. g[n] = h[n]
  <2>1. T \subseteq Nat
    BY DEF T
  <2>2. T = Nat
    BY <1>5, <1>6, <2>1, NatSetInduction
  <2> QED BY <1>1, <2>2 DEF T
<1> DEFINE U == {k \in Nat : k <= m => g[n + k] = f[k]}
<1>8. 0 \in U
  BY <1>1, <1>3, <1>7
<1>9. ASSUME NEW k \in U PROVE k + 1 \in U
  <2> SUFFICES ASSUME k + 1 <= m PROVE g[n + (k + 1)] = f[k + 1]
    OBVIOUS
  <2>1. /\ k + 1 \in 1 .. m /\ n + (k + 1) \in 1 .. n + m
        /\ (n + (k + 1)) - 1 = n + k /\ (k + 1) - 1 = k /\ k <= m
    BY <1>1
  <2>2. g[n + (k + 1)] = Op(g[n + k], t[n + (k + 1)])
    BY <1>4, <2>1
  <2>3. f[k + 1] = Op(f[k], u[k + 1])
    BY <1>3, <2>1
  <2> QED BY <1>1, <2>1, <2>2, <2>3
<1> HIDE DEF U
<1>10. g[n + m] = f[m]
  <2>1. U \subseteq Nat
    BY DEF U
  <2>2. U = Nat
    BY <1>8, <1>9, <2>1, NatSetInduction
  <2>3. m \in U
    BY <1>1, <2>2
  <2> QED BY <1>1, <2>3 DEF U
<1> QED BY <1>2, <1>3, <1>4, <1>10 DEF t

(* After k elements the result is in I[k], if each step takes it on.       *)
LEMMA FoldInvariant ==
  ASSUME NEW S, NEW s \in Seq(S), NEW base, NEW I, base \in I[0],
         \A k \in 1 .. Len(s) : \A a \in I[k - 1] : Op(a, s[k]) \in I[k]
  PROVE  Fold(base, s) \in I[Len(s)]
<1> DEFINE n == Len(s)
<1>1. n \in Nat
  OBVIOUS
<1>2. PICK h : /\ Fold(base, s) = h[n]
               /\ h[0] = base
               /\ \A k \in 1 .. n : h[k] = Op(h[k - 1], s[k])
  BY FoldSteps
<1> DEFINE T == {k \in Nat : k <= n => h[k] \in I[k]}
<1>3. 0 \in T
  BY <1>2
<1>4. ASSUME NEW k \in T PROVE k + 1 \in T
  <2> SUFFICES ASSUME k + 1 <= n PROVE h[k + 1] \in I[k + 1]
    OBVIOUS
  <2>1. k + 1 \in 1 .. n /\ (k + 1) - 1 = k /\ k <= n
    BY <1>1
  <2>2. h[k + 1] = Op(h[k], s[k + 1])
    BY <1>2, <2>1
  <2>3. h[k] \in I[k]
    BY <2>1
  <2> QED BY <2>1, <2>2, <2>3
<1> HIDE DEF T
<1>5. T = Nat
  <2>1. T \subseteq Nat
    BY DEF T
  <2> QED BY <1>3, <1>4, <2>1, NatSetInduction
<1> QED BY <1>1, <1>2, <1>5 DEF T
=============================================================================
