------------------------ MODULE InputBuffer_proofs ------------------------
(***************************************************************************)
(* What TLAPS proves about InputBuffer for every set of characters of one  *)
(* to four bytes: the buffer stays UTF-8 and the cursor on a boundary of   *)
(* it, so that no key makes String::insert or String::remove panic.        *)
(* Every key does what it does to a line of characters (Editor), and what  *)
(* is drawn of the line holds the cursor.                                  *)
(***************************************************************************)
EXTENDS InputBuffer, SequenceInduction, FiniteSetTheorems

CharactersFold == INSTANCE FoldTheorems WITH Op <- AddCharacter

(* A boundary of any text, not only of the buffer. *)
Boundary(s, i) ==
  i \in 0 .. Len(s) /\ (i \in {0, Len(s)} \/ (i \in 1 .. Len(s) - 1 /\ Leads(s[i + 1])))

Prefix(s, i) == SubSeq(s, 1, i)
Suffix(s, i) == SubSeq(s, i + 1, Len(s))

-----------------------------------------------------------------------------
(* Well-formed text. *)

(* The bytes of a well-formed text and their widths. *)
LEMMA ByteFacts ==
  ASSUME NEW s, WellFormed(s), NEW p \in 1 .. Len(s)
  PROVE  /\ s \in Seq(Bytes) /\ Len(s) \in Nat
         /\ s[p] \in Bytes
         /\ s[p].of \in Chars /\ s[p].nth \in 1 .. 4
         /\ Width[s[p].of] \in 1 .. 4
<1>1. s \in Seq(Bytes)
  BY DEF WellFormed
<1>2. Len(s) \in Nat /\ s[p] \in Bytes
  BY <1>1, ElementOfSeq
<1>3. s[p].of \in Chars /\ s[p].nth \in 1 .. 4
  BY <1>2 DEF Bytes
<1> QED BY <1>1, <1>2, <1>3, WidthsAreUtf8

(* A byte that starts no character has its predecessor before it, a byte   *)
(* that ends none its successor after it.                                  *)
LEMMA Neighbours ==
  ASSUME NEW s, WellFormed(s), NEW p \in 1 .. Len(s)
  PROVE  /\ ~Leads(s[p]) => /\ p - 1 \in 1 .. Len(s)
                            /\ s[p - 1].of = s[p].of /\ s[p - 1].nth = s[p].nth - 1
         /\ ~Ends(s[p]) => /\ p + 1 \in 1 .. Len(s)
                           /\ s[p + 1].of = s[p].of /\ s[p + 1].nth = s[p].nth + 1
<1>1. s # <<>> /\ Len(s) \in Nat
  BY ByteFacts, EmptySeq
<1>2. ASSUME ~Leads(s[p])
      PROVE  /\ p - 1 \in 1 .. Len(s)
             /\ s[p - 1].of = s[p].of /\ s[p - 1].nth = s[p].nth - 1
  <2>1. p # 1
    BY <1>1, <1>2 DEF WellFormed
  <2>2. p - 1 \in 1 .. Len(s) - 1 /\ p - 1 \in 1 .. Len(s) /\ p = (p - 1) + 1
    BY <2>1, <1>1
  <2>3. s[p] = [of |-> s[p - 1].of, nth |-> s[p - 1].nth + 1]
    BY <2>2, <1>2 DEF WellFormed
  <2>4. s[p - 1].nth \in 1 .. 4
    BY <2>2, ByteFacts
  <2> QED BY <2>2, <2>3, <2>4
<1>3. ASSUME ~Ends(s[p])
      PROVE  /\ p + 1 \in 1 .. Len(s)
             /\ s[p + 1].of = s[p].of /\ s[p + 1].nth = s[p].nth + 1
  <2>1. p # Len(s)
    BY <1>1, <1>3 DEF WellFormed
  <2>2. p \in 1 .. Len(s) - 1 /\ p + 1 \in 1 .. Len(s)
    BY <2>1, <1>1
  <2>3. s[p + 1] = [of |-> s[p].of, nth |-> s[p].nth + 1]
    BY <2>2, <1>3 DEF WellFormed
  <2> QED BY <2>2, <2>3
<1> QED BY <1>2, <1>3

(* What is before a boundary is well formed, and what is after it. *)
LEMMA SplitWellFormed ==
  ASSUME NEW s, WellFormed(s), NEW i, Boundary(s, i)
  PROVE  /\ WellFormed(Prefix(s, i)) /\ Len(Prefix(s, i)) = i
         /\ WellFormed(Suffix(s, i)) /\ Len(Suffix(s, i)) = Len(s) - i
<1>0. s \in Seq(Bytes) /\ Len(s) \in Nat /\ i \in 0 .. Len(s)
  BY DEF WellFormed, Boundary
<1>1. \A p \in 1 .. Len(s) : s[p] \in Bytes
  BY <1>0, ElementOfSeq
<1>2. /\ Prefix(s, i) \in Seq(Bytes) /\ Len(Prefix(s, i)) = i
      /\ \A p \in 1 .. i : Prefix(s, i)[p] = s[p]
  <2>1. \A p \in 1 .. i : s[p] \in Bytes
    BY <1>0, <1>1
  <2> QED BY <2>1, <1>0, SubSeqProperties DEF Prefix
<1>3. /\ Suffix(s, i) \in Seq(Bytes) /\ Len(Suffix(s, i)) = Len(s) - i
      /\ \A p \in 1 .. Len(s) - i : Suffix(s, i)[p] = s[i + p]
  <2>1. \A p \in i + 1 .. Len(s) : s[p] \in Bytes
    BY <1>0, <1>1
  <2>2. /\ Suffix(s, i) \in Seq(Bytes)
        /\ Len(Suffix(s, i)) = IF i + 1 <= Len(s) THEN Len(s) - (i + 1) + 1 ELSE 0
        /\ \A p \in 1 .. Len(s) - (i + 1) + 1 : Suffix(s, i)[p] = s[(i + 1) + p - 1]
    BY <2>1, <1>0, SubSeqProperties DEF Suffix
  <2> QED BY <2>2, <1>0
<1>4. i > 0 => Ends(s[i])
  <2> SUFFICES ASSUME i > 0, ~Ends(s[i]) PROVE FALSE
    OBVIOUS
  <2>1. i \in 1 .. Len(s)
    BY <1>0
  <2>2. i + 1 \in 1 .. Len(s) /\ s[i + 1].nth = s[i].nth + 1 /\ s[i].nth \in 1 .. 4
    BY <2>1, Neighbours, ByteFacts
  <2>3. Leads(s[i + 1])
    BY <2>1, <2>2, <1>0 DEF Boundary
  <2> QED BY <2>2, <2>3 DEF Leads
<1>5. i < Len(s) => Leads(s[i + 1])
  <2>1. CASE i = 0
    BY <2>1, <1>0, EmptySeq DEF WellFormed
  <2>2. CASE i # 0
    BY <2>2, <1>0 DEF Boundary
  <2> QED BY <2>1, <2>2
<1>6. WellFormed(Prefix(s, i))
  <2>1. Prefix(s, i) # <<>> => Leads(Prefix(s, i)[1]) /\ Ends(Prefix(s, i)[i])
    BY <1>0, <1>2, <1>4, EmptySeq DEF WellFormed
  <2>2. \A p \in 1 .. i - 1 :
          /\ p \in 1 .. Len(s) - 1
          /\ Prefix(s, i)[p] = s[p] /\ Prefix(s, i)[p + 1] = s[p + 1]
    BY <1>0, <1>2
  <2> QED BY <1>2, <2>1, <2>2 DEF WellFormed
<1>7. WellFormed(Suffix(s, i))
  <2>1. ASSUME Suffix(s, i) # <<>>
        PROVE  Leads(Suffix(s, i)[1]) /\ Ends(Suffix(s, i)[Len(s) - i])
    <3>1. Len(s) - i > 0
      BY <1>0, <1>3, <2>1, EmptySeq
    <3>2. s # <<>> /\ Suffix(s, i)[1] = s[i + 1] /\ Suffix(s, i)[Len(s) - i] = s[Len(s)]
      BY <1>0, <1>3, <3>1, EmptySeq
    <3> QED BY <3>1, <3>2, <1>5, <1>0 DEF WellFormed
  <2>2. \A p \in 1 .. Len(s) - i - 1 :
          /\ i + p \in 1 .. Len(s) - 1
          /\ Suffix(s, i)[p] = s[i + p] /\ Suffix(s, i)[p + 1] = s[(i + p) + 1]
    BY <1>0, <1>3
  <2> DEFINE w == Suffix(s, i)
  <2>3. ASSUME NEW p \in 1 .. Len(w) - 1
        PROVE  IF Ends(w[p]) THEN Leads(w[p + 1])
               ELSE w[p + 1] = [of |-> w[p].of, nth |-> w[p].nth + 1]
    <3>1. i + p \in 1 .. Len(s) - 1 /\ w[p] = s[i + p] /\ w[p + 1] = s[(i + p) + 1]
      BY <1>3, <2>2
    <3>2. IF Ends(s[i + p]) THEN Leads(s[(i + p) + 1])
          ELSE s[(i + p) + 1] = [of |-> s[i + p].of, nth |-> s[i + p].nth + 1]
      BY <3>1 DEF WellFormed
    <3> HIDE DEF w
    <3> QED BY <3>1, <3>2
  <2>4. w \in Seq(Bytes) /\ (w # <<>> => Leads(w[1]) /\ Ends(w[Len(w)]))
    BY <1>3, <2>1
  <2> QED BY <2>3, <2>4, Zenon DEF WellFormed
<1> QED BY <1>2, <1>3, <1>6, <1>7

(* Two well-formed texts join to one, with a boundary where they meet. *)
LEMMA JoinWellFormed ==
  ASSUME NEW s, NEW t, WellFormed(s), WellFormed(t)
  PROVE  /\ WellFormed(s \o t)
         /\ Len(s \o t) = Len(s) + Len(t)
         /\ Boundary(s \o t, Len(s))
<1>0. s \in Seq(Bytes) /\ t \in Seq(Bytes) /\ Len(s) \in Nat /\ Len(t) \in Nat
  BY DEF WellFormed
<1> DEFINE u == s \o t
<1>1. /\ u \in Seq(Bytes) /\ Len(u) = Len(s) + Len(t)
      /\ \A p \in 1 .. Len(s) : u[p] = s[p]
      /\ \A p \in 1 .. Len(t) : u[Len(s) + p] = t[p]
  <2>1. /\ u \in Seq(Bytes) /\ Len(u) = Len(s) + Len(t)
        /\ \A p \in 1 .. Len(s) + Len(t) : u[p] = IF p <= Len(s) THEN s[p] ELSE t[p - Len(s)]
    BY <1>0, ConcatProperties
  <2> QED BY <2>1, <1>0
<1> HIDE DEF u
<1>2. Len(s) > 0 => Leads(u[1]) /\ Ends(u[Len(s)])
  BY <1>0, <1>1, EmptySeq DEF WellFormed
<1>3. Len(t) > 0 => Leads(u[Len(s) + 1]) /\ Ends(u[Len(u)])
  <2> SUFFICES ASSUME Len(t) > 0 PROVE Leads(u[Len(s) + 1]) /\ Ends(u[Len(u)])
    OBVIOUS
  <2>1. t # <<>> /\ u[Len(s) + 1] = t[1] /\ u[Len(s) + Len(t)] = t[Len(t)]
    BY <1>0, <1>1, EmptySeq
  <2> QED BY <2>1, <1>1 DEF WellFormed
<1>4. u # <<>> => Leads(u[1]) /\ Ends(u[Len(u)])
  <2> SUFFICES ASSUME u # <<>> PROVE Leads(u[1]) /\ Ends(u[Len(u)])
    OBVIOUS
  <2>1. Len(u) > 0
    BY <1>1, EmptySeq
  <2>2. CASE Len(s) = 0
    BY <2>1, <2>2, <1>0, <1>1, <1>3
  <2>3. CASE Len(t) = 0 /\ Len(s) > 0
    BY <2>3, <1>0, <1>1, <1>2
  <2>4. CASE Len(t) > 0 /\ Len(s) > 0
    BY <2>4, <1>2, <1>3
  <2> QED BY <2>2, <2>3, <2>4, <1>0
<1>5. ASSUME NEW p \in 1 .. Len(u) - 1
      PROVE  IF Ends(u[p]) THEN Leads(u[p + 1])
                           ELSE u[p + 1] = [of |-> u[p].of, nth |-> u[p].nth + 1]
  <2>1. CASE p < Len(s)
    <3>1. p \in 1 .. Len(s) - 1 /\ u[p] = s[p] /\ u[p + 1] = s[p + 1]
      BY <2>1, <1>0, <1>1
    <3> QED BY <3>1 DEF WellFormed
  <2>2. CASE p = Len(s)
    <3>1. Len(s) > 0 /\ Len(t) > 0
      BY <2>2, <1>0, <1>1
    <3> QED BY <3>1, <2>2, <1>2, <1>3
  <2>3. CASE p > Len(s)
    <3>1. PICK q \in 1 .. Len(t) - 1 : p = Len(s) + q
      <4>1. p - Len(s) \in 1 .. Len(t) - 1 /\ p = Len(s) + (p - Len(s))
        BY <2>3, <1>0, <1>1
      <4> QED BY <4>1
    <3>2. u[p] = t[q] /\ u[p + 1] = t[q + 1]
      <4>1. q \in 1 .. Len(t) /\ q + 1 \in 1 .. Len(t) /\ p + 1 = Len(s) + (q + 1)
        BY <3>1, <1>0
      <4> QED BY <4>1, <3>1, <1>1
    <3> QED BY <3>1, <3>2 DEF WellFormed
  <2> QED BY <2>1, <2>2, <2>3, <1>0, <1>1
<1>6. WellFormed(u)
  BY <1>1, <1>4, <1>5 DEF WellFormed
<1>7. Boundary(u, Len(s))
  <2>1. CASE Len(t) = 0
    BY <2>1, <1>0, <1>1 DEF Boundary
  <2>2. CASE Len(t) > 0
    BY <2>2, <1>0, <1>1, <1>3 DEF Boundary
  <2> QED BY <2>1, <2>2, <1>0
<1> QED BY <1>1, <1>6, <1>7 DEF u

(* The encoding of one character. *)
LEMMA EncodeWellFormed ==
  ASSUME NEW c \in Chars
  PROVE  WellFormed(Encode(c)) /\ Len(Encode(c)) = Width[c]
<1>1. Width[c] \in 1 .. 4
  BY WidthsAreUtf8
<1>2. \A k \in 1 .. Width[c] : [of |-> c, nth |-> k] \in Bytes
  BY <1>1 DEF Bytes
<1>3. /\ Encode(c) \in Seq(Bytes) /\ Len(Encode(c)) = Width[c]
      /\ \A k \in 1 .. Width[c] : Encode(c)[k] = [of |-> c, nth |-> k]
  BY <1>1, <1>2 DEF Encode
<1>4. Leads(Encode(c)[1]) /\ Ends(Encode(c)[Width[c]])
  <2>1. /\ Encode(c)[1] = [of |-> c, nth |-> 1]
        /\ Encode(c)[Width[c]] = [of |-> c, nth |-> Width[c]]
    BY <1>1, <1>3
  <2> QED BY <2>1 DEF Leads, Ends
<1>5. \A k \in 1 .. Width[c] - 1 :
        /\ ~Ends(Encode(c)[k])
        /\ Encode(c)[k + 1] = [of |-> Encode(c)[k].of, nth |-> Encode(c)[k].nth + 1]
  <2> SUFFICES ASSUME NEW k \in 1 .. Width[c] - 1
      PROVE  /\ ~Ends(Encode(c)[k])
             /\ Encode(c)[k + 1] = [of |-> Encode(c)[k].of, nth |-> Encode(c)[k].nth + 1]
    OBVIOUS
  <2>1. k \in 1 .. Width[c] /\ k + 1 \in 1 .. Width[c] /\ k # Width[c]
    BY <1>1
  <2>2. Encode(c)[k] = [of |-> c, nth |-> k] /\ Encode(c)[k + 1] = [of |-> c, nth |-> k + 1]
    BY <2>1, <1>3
  <2> QED BY <2>1, <2>2 DEF Ends
<1> QED BY <1>3, <1>4, <1>5 DEF WellFormed

(* The bytes after a boundary are those of one character. *)
LEMMA CharacterBytes ==
  ASSUME NEW s, WellFormed(s), NEW i \in 0 .. Len(s) - 1, Boundary(s, i)
  PROVE  \A k \in 1 .. Width[s[i + 1].of] :
           i + k \in 1 .. Len(s) /\ s[i + k].of = s[i + 1].of /\ s[i + k].nth = k
<1> DEFINE c == s[i + 1].of
           w == Width[c]
           At(k) == i + k \in 1 .. Len(s) /\ s[i + k].of = c /\ s[i + k].nth = k
<1>0. Len(s) \in Nat /\ i + 1 \in 1 .. Len(s) /\ s # <<>>
  BY EmptySeq DEF WellFormed
<1>1. w \in 1 .. 4
  BY <1>0, ByteFacts
<1>2. At(1)
  <2>1. CASE i = 0
    BY <2>1, <1>0 DEF WellFormed, Leads
  <2>2. CASE i # 0
    BY <2>2, <1>0 DEF Boundary, Leads
  <2> QED BY <2>1, <2>2
<1>3. ASSUME NEW k \in 1 .. 3, At(k), k # w PROVE At(k + 1)
  <2>1. ~Ends(s[i + k])
    BY <1>3 DEF Ends
  <2>2. i + k \in 1 .. Len(s)
    BY <1>3
  <2>3. (i + k) + 1 \in 1 .. Len(s) /\ s[(i + k) + 1].of = c /\ s[(i + k) + 1].nth = k + 1
    BY <2>1, <2>2, <1>3, Neighbours
  <2>4. (i + k) + 1 = i + (k + 1)
    BY <1>3
  <2> QED BY <2>3, <2>4
<1>4. \A k \in 1 .. w : At(k)
  <2> HIDE DEF At, c, w
  <2>1. w # 1 => At(2)
    BY <1>2, <1>3
  <2>2. w # 1 /\ w # 2 => At(3)
    BY <2>1, <1>3
  <2>3. w # 1 /\ w # 2 /\ w # 3 => At(4)
    BY <2>2, <1>3
  <2>4. CASE w = 1
    BY <2>4, <1>2
  <2>5. CASE w = 2
    BY <2>5, <1>2, <2>1
  <2>6. CASE w = 3
    BY <2>6, <1>2, <2>1, <2>2
  <2>7. CASE w = 4
    BY <2>7, <1>2, <2>1, <2>2, <2>3
  <2> QED BY <1>1, <2>4, <2>5, <2>6, <2>7
<1> QED BY <1>4

(* A character whose first byte is at a boundary ends at one. *)
LEMMA CharacterEnds ==
  ASSUME NEW s, WellFormed(s), NEW i \in 0 .. Len(s) - 1, Boundary(s, i)
  PROVE  Boundary(s, i + Width[s[i + 1].of])
<1> DEFINE c == s[i + 1].of
           w == Width[c]
<1>0. Len(s) \in Nat /\ i + 1 \in 1 .. Len(s) /\ s # <<>>
  BY EmptySeq DEF WellFormed
<1>1. w \in 1 .. 4
  BY <1>0, ByteFacts
<1>2. i + w \in 1 .. Len(s) /\ s[i + w].of = c /\ s[i + w].nth = w
  <2>1. \A k \in 1 .. w : i + k \in 1 .. Len(s) /\ s[i + k].of = c /\ s[i + k].nth = k
    BY CharacterBytes
  <2>2. w \in 1 .. w
    BY <1>1
  <2> QED BY <2>1, <2>2
<1>3. Ends(s[i + w])
  BY <1>2 DEF Ends
<1> HIDE DEF c, w
<1>4. i + w < Len(s) => Leads(s[(i + w) + 1])
  <2> SUFFICES ASSUME i + w < Len(s) PROVE Leads(s[(i + w) + 1])
    OBVIOUS
  <2>1. i + w \in 1 .. Len(s) - 1
    BY <1>0, <1>1
  <2> QED BY <2>1, <1>3 DEF WellFormed
<1>5. Boundary(s, i + w)
  BY <1>0, <1>1, <1>2, <1>4 DEF Boundary
<1> QED BY <1>5 DEF c, w

(* There is no boundary within a character. *)
LEMMA NoneWithin ==
  ASSUME NEW s, WellFormed(s), NEW i \in 0 .. Len(s) - 1, Boundary(s, i),
         NEW j, Boundary(s, j), i < j
  PROVE  i + Width[s[i + 1].of] <= j
<1> DEFINE w == Width[s[i + 1].of]
<1>0. Len(s) \in Nat /\ i + 1 \in 1 .. Len(s) /\ j \in 0 .. Len(s)
  BY DEF WellFormed, Boundary
<1>1. w \in 1 .. 4
  BY <1>0, ByteFacts
<1>2. \A k \in 1 .. w : i + k \in 1 .. Len(s) /\ s[i + k].nth = k
  BY CharacterBytes
<1> HIDE DEF w
<1> SUFFICES ASSUME j < i + w PROVE FALSE
  BY <1>0, <1>1 DEF w
<1>3. /\ (j - i) + 1 \in 1 .. w /\ (j - i) + 1 # 1
      /\ i + ((j - i) + 1) = j + 1
  BY <1>0, <1>1
<1>4. j + 1 \in 1 .. Len(s) /\ s[j + 1].nth # 1
  BY <1>2, <1>3
<1> QED BY <1>0, <1>4 DEF Boundary, Leads

(* There is a last boundary up to i: a byte is at most three after the     *)
(* first of its character.                                                 *)
LEMMA LastBoundary ==
  ASSUME NEW s, WellFormed(s), NEW i \in 0 .. Len(s)
  PROVE  \E j \in 0 .. i : Boundary(s, j) /\ \A k \in j + 1 .. i : ~Boundary(s, k)
<1> DEFINE Found(j) == Boundary(s, j) /\ \A k \in j + 1 .. i : ~Boundary(s, k)
           (* The byte after j is the one with place n in its character. *)
           At(j, n) == /\ j \in 0 .. i /\ j < Len(s) /\ s[j + 1].nth = n
                       /\ \A k \in j + 1 .. i : ~Boundary(s, k)
<1>0. Len(s) \in Nat /\ i \in 0 .. Len(s)
  BY DEF WellFormed
<1>1. CASE i = Len(s)
  <2>1. Found(i) /\ i \in 0 .. i
    BY <1>1, <1>0 DEF Boundary
  <2> QED BY <2>1
<1>2. CASE i < Len(s)
  <2>1. ASSUME NEW j, At(j, 1) PROVE j \in 0 .. i /\ Found(j)
    BY <2>1, <1>0 DEF Boundary, Leads
  <2>2. ASSUME NEW j, NEW n \in 2 .. 4, At(j, n) PROVE At(j - 1, n - 1)
    <3>1. j + 1 \in 1 .. Len(s) /\ ~Leads(s[j + 1])
      BY <2>2, <1>0 DEF Leads
    <3>2. (j + 1) - 1 \in 1 .. Len(s) /\ s[(j + 1) - 1].nth = n - 1
      BY <3>1, <2>2, Neighbours
    <3>3. (j + 1) - 1 = j /\ (j - 1) + 1 = j /\ j - 1 \in 0 .. i /\ j - 1 < Len(s) /\ j < Len(s)
      BY <3>2, <2>2, <1>0
    <3>4. ~Boundary(s, j)
      BY <3>1, <3>2, <3>3 DEF Boundary
    <3>5. \A k \in j .. i : ~Boundary(s, k)
      BY <3>4, <2>2
    <3> QED BY <3>2, <3>3, <3>5
  <2>3. i + 1 \in 1 .. Len(s) /\ s[i + 1].nth \in 1 .. 4
    BY <1>0, <1>2, ByteFacts
  <2>4. At(i, s[i + 1].nth)
    BY <1>0, <1>2
  <2> HIDE DEF At, Found
  <2>5. CASE s[i + 1].nth = 1
    BY <2>5, <2>4, <2>1 DEF Found
  <2>6. CASE s[i + 1].nth = 2
    <3>1. At(i - 1, 1)
      BY <2>6, <2>4, <2>2
    <3> QED BY <3>1, <2>1 DEF Found
  <2>7. CASE s[i + 1].nth = 3
    <3>1. At(i - 1, 2)
      BY <2>7, <2>4, <2>2
    <3>2. At((i - 1) - 1, 1)
      BY <3>1, <2>2
    <3> QED BY <3>2, <2>1 DEF Found
  <2>8. CASE s[i + 1].nth = 4
    <3>1. At(i - 1, 3)
      BY <2>8, <2>4, <2>2
    <3>2. At((i - 1) - 1, 2)
      BY <3>1, <2>2
    <3>3. At(((i - 1) - 1) - 1, 1)
      BY <3>2, <2>2
    <3> QED BY <3>3, <2>1 DEF Found
  <2> QED BY <2>3, <2>5, <2>6, <2>7, <2>8
<1> QED BY <1>0, <1>1, <1>2

-----------------------------------------------------------------------------
(* The buffer. *)

(* Inductive as it stands. *)
Inv == TypeOK /\ CursorOnBoundary

LEMMA BoundaryOfBuffer ==
  ASSUME TypeOK
  PROVE  \A i \in 0 .. Len(buffer) : IsBoundary(i) <=> Boundary(buffer, i)
BY DEF TypeOK, WellFormed, IsBoundary, Boundary

(* floor_char_boundary() finds a boundary. *)
LEMMA FloorIsBoundary ==
  ASSUME TypeOK, NEW i \in 0 .. Len(buffer)
  PROVE  FloorBoundary(i) \in 0 .. i /\ Boundary(buffer, FloorBoundary(i))
<1>0. Len(buffer) \in Nat
  BY DEF TypeOK, WellFormed
<1>1. \E j \in 0 .. i : Boundary(buffer, j) /\ \A k \in j + 1 .. i : ~Boundary(buffer, k)
  BY LastBoundary DEF TypeOK
<1>2. \E j \in 0 .. i : IsBoundary(j) /\ \A k \in j + 1 .. i : ~IsBoundary(k)
  <2>1. PICK j \in 0 .. i : Boundary(buffer, j) /\ \A k \in j + 1 .. i : ~Boundary(buffer, k)
    BY <1>1
  <2>2. IsBoundary(j)
    BY <2>1, <1>0, BoundaryOfBuffer
  <2>3. \A k \in j + 1 .. i : ~IsBoundary(k)
    BY <2>1, <1>0, BoundaryOfBuffer
  <2> QED BY <2>2, <2>3
<1>3. FloorBoundary(i) \in 0 .. i /\ IsBoundary(FloorBoundary(i))
  BY <1>2 DEF FloorBoundary
<1> QED BY <1>3, <1>0, BoundaryOfBuffer

(* ... and the last one.                                                   *)
LEMMA FloorIsLast ==
  ASSUME TypeOK, NEW i \in 0 .. Len(buffer)
  PROVE  \A k \in FloorBoundary(i) + 1 .. i : ~Boundary(buffer, k)
<1>0. Len(buffer) \in Nat
  BY DEF TypeOK, WellFormed
<1>1. PICK j \in 0 .. i : Boundary(buffer, j) /\ \A k \in j + 1 .. i : ~Boundary(buffer, k)
  BY LastBoundary DEF TypeOK
<1>2. \A k \in 0 .. i : IsBoundary(k) <=> Boundary(buffer, k)
  BY <1>0, BoundaryOfBuffer
<1>3. IsBoundary(j) /\ \A k \in j + 1 .. i : ~IsBoundary(k)
  BY <1>0, <1>1, <1>2
<1>4. \A k \in FloorBoundary(i) + 1 .. i : ~IsBoundary(k)
  BY <1>3 DEF FloorBoundary
<1>5. FloorBoundary(i) \in 0 .. i
  BY FloorIsBoundary
<1> QED BY <1>0, <1>2, <1>4, <1>5

(* Insertion at a boundary, and removal at one that is not the end, leave  *)
(* well-formed text; the boundary stays, and the end of what was inserted  *)
(* is one.                                                                 *)
LEMMA InsertKeeps ==
  ASSUME TypeOK, NEW i, Boundary(buffer, i), NEW c \in Chars
  PROVE  WellFormed(Inserted(i, c)) /\ Boundary(Inserted(i, c), i + Width[c])
<1>1. /\ WellFormed(Prefix(buffer, i)) /\ Len(Prefix(buffer, i)) = i
      /\ WellFormed(Suffix(buffer, i))
  BY SplitWellFormed DEF TypeOK
<1>2. WellFormed(Encode(c)) /\ Len(Encode(c)) = Width[c]
  BY EncodeWellFormed
<1>3. /\ WellFormed(Prefix(buffer, i) \o Encode(c))
      /\ Len(Prefix(buffer, i) \o Encode(c)) = i + Width[c]
  BY <1>1, <1>2, JoinWellFormed
<1>4. Inserted(i, c) = (Prefix(buffer, i) \o Encode(c)) \o Suffix(buffer, i)
  BY DEF Inserted, Prefix, Suffix
<1> QED BY <1>1, <1>3, <1>4, JoinWellFormed

LEMMA RemoveKeeps ==
  ASSUME TypeOK, NEW i \in 0 .. Len(buffer) - 1, Boundary(buffer, i)
  PROVE  WellFormed(Removed(i)) /\ Boundary(Removed(i), i)
<1> DEFINE e == i + Width[buffer[i + 1].of]
<1>1. WellFormed(Prefix(buffer, i)) /\ Len(Prefix(buffer, i)) = i
  BY SplitWellFormed DEF TypeOK
<1>2. Boundary(buffer, e)
  BY CharacterEnds DEF TypeOK
<1>3. WellFormed(Suffix(buffer, e))
  BY <1>2, SplitWellFormed DEF TypeOK
<1>4. Removed(i) = Prefix(buffer, i) \o Suffix(buffer, e)
  BY DEF Removed, Prefix, Suffix
<1> QED BY <1>1, <1>3, <1>4, JoinWellFormed

LEMMA EmptyWellFormed == WellFormed(<<>>) /\ Boundary(<<>>, 0)
BY EmptySeq DEF WellFormed, Boundary

(* The goal of each key. *)
LEMMA Goal ==
  ASSUME WellFormed(buffer'), WellFormed(line'), Boundary(buffer', cursor')
  PROVE  Inv'
BY DEF Inv, TypeOK, CursorOnBoundary, IsBoundary, Boundary, WellFormed

LEMMA CursorBoundary ==
  ASSUME Inv
  PROVE  /\ Len(buffer) \in Nat /\ cursor \in 0 .. Len(buffer)
         /\ Boundary(buffer, cursor)
BY BoundaryOfBuffer DEF Inv, TypeOK, CursorOnBoundary, WellFormed

LEMMA NextInv == Inv /\ [Next]_vars => Inv'
<1> SUFFICES ASSUME Inv, [Next]_vars PROVE Inv'
  OBVIOUS
<1> USE DEF Inv
<1>0. /\ TypeOK /\ WellFormed(buffer) /\ WellFormed(line)
      /\ Len(buffer) \in Nat /\ cursor \in 0 .. Len(buffer) /\ Boundary(buffer, cursor)
  BY CursorBoundary DEF TypeOK
<1>1. ASSUME NEW c \in Chars, Type(c) PROVE Inv'
  BY <1>0, <1>1, InsertKeeps, Goal DEF Type
<1>2. CASE Delete
  <2>1. cursor \in 0 .. Len(buffer) - 1
    BY <1>0, <1>2 DEF Delete
  <2> QED BY <2>1, <1>0, <1>2, RemoveKeeps, Goal DEF Delete
<1>3. ASSUME cursor >= 1 PROVE /\ FloorBoundary(cursor - 1) \in 0 .. Len(buffer) - 1
                               /\ Boundary(buffer, FloorBoundary(cursor - 1))
  <2>1. cursor - 1 \in 0 .. Len(buffer)
    BY <1>0, <1>3
  <2>2. FloorBoundary(cursor - 1) \in 0 .. cursor - 1 /\ Boundary(buffer, FloorBoundary(cursor - 1))
    BY <1>0, <2>1, FloorIsBoundary
  <2> QED BY <2>2, <1>0
<1>4. CASE Backspace
  BY <1>0, <1>3, <1>4, RemoveKeeps, Goal DEF Backspace
<1>5. CASE Enter
  BY <1>0, <1>5, EmptyWellFormed, Goal DEF Enter
<1>6. ASSUME Moves, Boundary(buffer, cursor') PROVE Inv'
  BY <1>0, <1>6, Goal DEF Moves
<1>7. CASE NextCharacter
  <2>1. CASE cursor < Len(buffer) /\ IsBoundary(cursor + 1)
    <3>1. cursor + 1 \in 0 .. Len(buffer) /\ cursor' = cursor + 1
      BY <2>1, <1>0, <1>7 DEF NextCharacter, OneForward
    <3> QED BY <3>1, <2>1, <1>0, <1>6, <1>7, BoundaryOfBuffer DEF NextCharacter
  <2>2. CASE ~(cursor < Len(buffer) /\ IsBoundary(cursor + 1))
    BY <2>2, <1>0, <1>6, <1>7 DEF NextCharacter, OneForward
  <2> QED BY <2>1, <2>2
<1>8. CASE PreviousCharacter
  <2>1. CASE cursor > 0
    BY <2>1, <1>0, <1>3, <1>6, <1>8 DEF PreviousCharacter, OneBack
  <2>2. CASE cursor = 0
    BY <2>2, <1>0, <1>6, <1>8 DEF PreviousCharacter, OneBack
  <2> QED BY <2>1, <2>2, <1>0
<1>9. CASE FirstCharacter
  BY <1>0, <1>6, <1>9 DEF FirstCharacter, Boundary
<1>10. CASE LastCharacter
  BY <1>0, <1>6, <1>10 DEF LastCharacter, Boundary
<1>11. CASE UNCHANGED vars
  BY <1>0, <1>11, Goal DEF vars
<1> QED BY <1>1, <1>2, <1>4, <1>5, <1>7, <1>8, <1>9, <1>10, <1>11 DEF Next

(* The line is UTF-8, and the cursor at a character boundary of it: no key *)
(* makes String::insert or String::remove panic.                           *)
THEOREM Invariance == Spec => []Inv
<1>1. Init => Inv
  BY EmptyWellFormed DEF Init, Inv, TypeOK, CursorOnBoundary, IsBoundary
<1> QED BY <1>1, NextInv, PTL DEF Spec

(* TypeOK: the buffer and the line entered last are UTF-8.                 *)
THEOREM TypeCorrect == Spec => []TypeOK
<1>1. Inv => TypeOK
  BY DEF Inv
<1> QED BY <1>1, Invariance, PTL

(* CursorOnBoundary: what String::insert and String::remove ask of an      *)
(* index (input_buffer.rs:9).                                              *)
THEOREM CursorStaysOnBoundary == Spec => []CursorOnBoundary
<1>1. Inv => CursorOnBoundary
  BY DEF Inv
<1> QED BY <1>1, Invariance, PTL

-----------------------------------------------------------------------------
(* The characters of a text. *)

LEMMA CharactersIsFold ==
  ASSUME NEW s
  PROVE  Characters(s) = CharactersFold!Fold(<<>>, s)
BY DEF Characters, FoldLeft, MapThenFoldSet, Max, CharactersFold!Fold,
       CharactersFold!MapThenFoldSet, CharactersFold!Largest

LEMMA AddCharacterType ==
  ASSUME NEW chars \in Seq(Chars), NEW b \in Bytes
  PROVE  AddCharacter(chars, b) \in Seq(Chars)
<1>1. b.of \in Chars
  BY DEF Bytes
<1>2. Append(chars, b.of) \in Seq(Chars)
  BY <1>1, AppendProperties
<1> QED BY <1>2 DEF AddCharacter

LEMMA CharactersStep ==
  /\ Characters(<<>>) = <<>>
  /\ \A s \in Seq(Bytes) : /\ Characters(s) \in Seq(Chars)
                           /\ \A b \in Bytes :
                                Characters(Append(s, b)) = AddCharacter(Characters(s), b)
<1>1. CharactersFold!Fold(<<>>, <<>>) = <<>>
  BY CharactersFold!FoldEmpty
<1>2. ASSUME NEW s \in Seq(Bytes) PROVE CharactersFold!Fold(<<>>, s) \in Seq(Chars)
  <2>1. <<>> \in Seq(Chars)
    BY EmptySeq
  <2>2. \A a \in Seq(Chars), e \in Bytes : AddCharacter(a, e) \in Seq(Chars)
    BY AddCharacterType
  <2> QED BY <2>1, <2>2, CharactersFold!FoldType
<1>3. ASSUME NEW s \in Seq(Bytes), NEW b \in Bytes
      PROVE  CharactersFold!Fold(<<>>, Append(s, b))
               = AddCharacter(CharactersFold!Fold(<<>>, s), b)
  BY CharactersFold!FoldAppend
<1> QED BY <1>1, <1>2, <1>3, CharactersIsFold

(* The characters of two texts put together are those of the one and then  *)
(* those of the other.                                                     *)
LEMMA CharactersConcat ==
  ASSUME NEW s \in Seq(Bytes), NEW t \in Seq(Bytes)
  PROVE  Characters(s \o t) = Characters(s) \o Characters(t)
<1> DEFINE T == {u \in Seq(Bytes) : Characters(s \o u) = Characters(s) \o Characters(u)}
<1>0. Characters(s) \in Seq(Chars)
  BY CharactersStep
<1>1. <<>> \in T
  BY <1>0, CharactersStep, EmptySeq, ConcatEmptySeq
<1>2. ASSUME NEW u \in Seq(Bytes), u \in T, NEW b \in Bytes PROVE Append(u, b) \in T
  <2>1. Characters(s \o Append(u, b)) = AddCharacter(Characters(s \o u), b)
    <3>1. s \o Append(u, b) = Append(s \o u, b)
      BY ConcatAppend
    <3>2. s \o u \in Seq(Bytes)
      BY ConcatProperties
    <3> QED BY <3>1, <3>2, CharactersStep
  <2>2. Characters(Append(u, b)) = AddCharacter(Characters(u), b)
    BY CharactersStep
  <2>3. Characters(s) \o Append(Characters(u), b.of)
          = Append(Characters(s) \o Characters(u), b.of)
    <3>1. Characters(u) \in Seq(Chars) /\ b.of \in Chars
      BY CharactersStep DEF Bytes
    <3> QED BY <1>0, <3>1, ConcatAppend
  <2>4. Characters(s \o u) = Characters(s) \o Characters(u)
    BY <1>2
  <2>5. Append(u, b) \in Seq(Bytes)
    BY AppendProperties
  <2> QED BY <2>1, <2>2, <2>3, <2>4, <2>5 DEF AddCharacter
<1> HIDE DEF T
<1>3. Seq(Bytes) \subseteq T
  BY <1>1, <1>2, SeqSetInduction
<1> QED BY <1>3 DEF T

(* The encoding of a character is one character. *)
LEMMA CharactersOfOne ==
  ASSUME NEW c \in Chars
  PROVE  Characters(Encode(c)) = <<c>>
<1> DEFINE byte(k) == [of |-> c, nth |-> k]
           first(n) == [k \in 1 .. n |-> byte(k)]
<1>1. \A k \in 1 .. 4 : byte(k) \in Bytes /\ byte(k).of = c /\ (Leads(byte(k)) <=> k = 1)
  BY DEF Bytes, Leads
<1>2. ASSUME NEW n \in 0 .. 3
      PROVE  first(n) \in Seq(Bytes) /\ first(n + 1) = Append(first(n), byte(n + 1))
  <2> HIDE DEF byte
  <2>1. first(n) \in Seq(Bytes) /\ Len(first(n)) = n
    BY <1>1
  <2> QED BY <2>1
<1>3. first(0) = <<>>
  OBVIOUS
<1> HIDE DEF first
<1>4. Characters(first(1)) = <<c>>
  <2>1. Characters(first(1)) = AddCharacter(Characters(first(0)), byte(1))
    <3>1. byte(1) \in Bytes /\ first(0) \in Seq(Bytes) /\ first(1) = Append(first(0), byte(1))
      BY <1>1, <1>2
    <3> HIDE DEF byte
    <3> QED BY <3>1, CharactersStep
  <2>2. Leads(byte(1)) /\ byte(1).of = c
    BY <1>1
  <2>3. Characters(first(0)) = <<>>
    BY <1>3, CharactersStep
  <2>4. Append(<<>>, c) = <<c>>
    OBVIOUS
  <2> HIDE DEF byte
  <2> QED BY <2>1, <2>2, <2>3, <2>4 DEF AddCharacter
<1>5. ASSUME NEW n \in 1 .. 3, Characters(first(n)) = <<c>>
      PROVE  Characters(first(n + 1)) = <<c>>
  <2>1. n + 1 \in 1 .. 4 /\ n + 1 # 1 /\ n \in 0 .. 3
    OBVIOUS
  <2> HIDE DEF byte
  <2>2. /\ first(n) \in Seq(Bytes) /\ first(n + 1) = Append(first(n), byte(n + 1))
        /\ byte(n + 1) \in Bytes /\ ~Leads(byte(n + 1))
    BY <1>1, <1>2, <2>1
  <2>3. Characters(first(n + 1)) = AddCharacter(Characters(first(n)), byte(n + 1))
    BY <2>2, CharactersStep
  <2> QED BY <1>5, <2>2, <2>3 DEF AddCharacter
<1> HIDE DEF byte
<1>6. /\ Characters(first(2)) = <<c>> /\ Characters(first(3)) = <<c>>
      /\ Characters(first(4)) = <<c>>
  <2>1. Characters(first(2)) = <<c>>
    BY <1>4, <1>5
  <2>2. Characters(first(3)) = <<c>>
    BY <2>1, <1>5
  <2>3. Characters(first(4)) = <<c>>
    BY <2>2, <1>5
  <2> QED BY <2>1, <2>2, <2>3
<1>7. \A n \in 1 .. 4 : Characters(first(n)) = <<c>>
  BY <1>4, <1>6
<1>8. Encode(c) = first(Width[c]) /\ Width[c] \in 1 .. 4
  BY WidthsAreUtf8 DEF Encode, first, byte
<1> QED BY <1>7, <1>8

-----------------------------------------------------------------------------
(* The bytes implement the editor of characters. *)

(* What the refinement mapping gives the editor, for any text and index.   *)
Left(s, i) == Characters(Prefix(s, i))
Right(s, i) == Characters(Suffix(s, i))

LEMMA PartsOfText ==
  ASSUME NEW s, WellFormed(s), NEW i, Boundary(s, i)
  PROVE  /\ s = Prefix(s, i) \o Suffix(s, i)
         /\ Left(s, i) \in Seq(Chars) /\ Right(s, i) \in Seq(Chars)
         /\ Characters(s) = Left(s, i) \o Right(s, i)
<1>0. s \in Seq(Bytes) /\ Len(s) \in Nat /\ i \in 0 .. Len(s)
  BY DEF WellFormed, Boundary
<1>1. /\ Prefix(s, i) \in Seq(Bytes) /\ Len(Prefix(s, i)) = i
      /\ Suffix(s, i) \in Seq(Bytes) /\ Len(Suffix(s, i)) = Len(s) - i
  BY SplitWellFormed DEF WellFormed
<1>2. s = Prefix(s, i) \o Suffix(s, i)
  <2>1. /\ 1 \in 1 .. Len(s) + 1 /\ i \in 1 - 1 .. Len(s) /\ Len(s) \in i .. Len(s)
    BY <1>0
  <2>2. SubSeq(s, 1, i) \o SubSeq(s, i + 1, Len(s)) = SubSeq(s, 1, Len(s))
    BY <1>0, <2>1, ConcatAdjacentSubSeq
  <2> QED BY <1>0, <2>2, SubSeqFull DEF Prefix, Suffix
<1>3. Characters(Prefix(s, i) \o Suffix(s, i)) = Left(s, i) \o Right(s, i)
  BY <1>1, CharactersConcat DEF Left, Right
<1> QED BY <1>1, <1>2, <1>3, CharactersStep DEF Left, Right

(* The character at a boundary is the first to the right of it, and the    *)
(* last to the left of its end.                                            *)
LEMMA CharacterAt ==
  ASSUME NEW s, WellFormed(s), NEW i \in 0 .. Len(s) - 1, Boundary(s, i),
         NEW e, e = i + Width[s[i + 1].of]
  PROVE  /\ s[i + 1].of \in Chars
         /\ Left(s, e) = Append(Left(s, i), s[i + 1].of)
         /\ Right(s, i) = <<s[i + 1].of>> \o Right(s, e)
<1> DEFINE c == s[i + 1].of
           p == Prefix(s, i)
           q == Encode(c)
           r == Suffix(s, e)
<1>0. s \in Seq(Bytes) /\ Len(s) \in Nat /\ i + 1 \in 1 .. Len(s)
  BY DEF WellFormed
<1>1. c \in Chars /\ Width[c] \in 1 .. 4 /\ i + Width[c] = e
  BY <1>0, ByteFacts
<1>2. Boundary(s, e)
  BY CharacterEnds
<1>3. \A k \in 1 .. Width[c] :
        i + k \in 1 .. Len(s) /\ s[i + k].of = c /\ s[i + k].nth = k
  BY CharacterBytes
<1>4. /\ p \in Seq(Bytes) /\ Len(p) = i
      /\ r \in Seq(Bytes) /\ Len(r) = Len(s) - e
  BY <1>2, SplitWellFormed DEF WellFormed
<1>5. /\ q \in Seq(Bytes) /\ Len(q) = Width[c]
      /\ \A k \in 1 .. Width[c] : q[k] = [of |-> c, nth |-> k]
  BY <1>1, EncodeWellFormed DEF WellFormed, Encode
<1>6. \A k \in 1 .. Width[c] : s[i + k] = q[k]
  <2> TAKE k \in 1 .. Width[c]
  <2>1. s[i + k] \in Bytes
    BY <1>0, <1>3, ElementOfSeq
  <2> HIDE DEF c, q
  <2>2. s[i + k] = [of |-> c, nth |-> k]
    BY <2>1, <1>3 DEF Bytes
  <2> QED BY <2>2, <1>5
<1> HIDE DEF c, q
<1>7. e \in 0 .. Len(s)
  BY <1>2 DEF Boundary
<1>8. SubSeq(s, i + 1, e) = q
  <2> DEFINE m == SubSeq(s, i + 1, e)
  <2>1. \A j \in i + 1 .. e : s[j] \in Bytes
    BY <1>0, <1>7, ElementOfSeq
  <2>2. /\ m \in Seq(Bytes) /\ Len(m) = e - (i + 1) + 1
        /\ \A k \in 1 .. e - (i + 1) + 1 : m[k] = s[(i + 1) + k - 1]
    BY <1>0, <1>1, <1>7, <2>1, SubSeqProperties, SMTT(60)
  <2> HIDE DEF m
  <2>3. Len(m) = Len(q) /\ Len(m) = Width[c]
    BY <2>2, <1>0, <1>1, <1>5
  <2>4. ASSUME NEW k \in 1 .. Len(m) PROVE m[k] = q[k]
    <3>1. (i + 1) + k - 1 = i + k /\ k \in 1 .. e - (i + 1) + 1 /\ k \in 1 .. Width[c]
      BY <2>3, <1>0, <1>1, <1>7
    <3> QED BY <3>1, <2>2, <1>6
  <2> QED BY <2>2, <2>3, <2>4, <1>5, SeqEqual DEF m
<1>9. Prefix(s, e) = p \o q /\ Suffix(s, i) = q \o r
  <2>1. /\ 1 \in 1 .. Len(s) + 1 /\ i \in 1 - 1 .. Len(s) /\ e \in i .. Len(s)
        /\ i + 1 \in 1 .. Len(s) + 1 /\ e \in (i + 1) - 1 .. Len(s) /\ Len(s) \in e .. Len(s)
    BY <1>0, <1>1, <1>7
  <2>2. SubSeq(s, 1, i) \o SubSeq(s, i + 1, e) = SubSeq(s, 1, e)
    BY <1>0, <2>1, ConcatAdjacentSubSeq
  <2>3. SubSeq(s, i + 1, e) \o SubSeq(s, e + 1, Len(s)) = SubSeq(s, i + 1, Len(s))
    BY <1>0, <2>1, ConcatAdjacentSubSeq
  <2> QED BY <2>2, <2>3, <1>8 DEF Prefix, Suffix
<1>10. Characters(q) = <<c>>
  BY <1>1, CharactersOfOne DEF q
<1>11. Left(s, e) = Append(Left(s, i), c)
  <2>1. Left(s, e) = Characters(p) \o Characters(q)
    BY <1>4, <1>5, <1>9, CharactersConcat DEF Left
  <2>2. Characters(p) \in Seq(Chars)
    BY <1>4, CharactersStep
  <2>3. Characters(p) \o <<c>> = Append(Characters(p), c)
    BY <1>1, <2>2, AppendIsConcat
  <2> QED BY <2>1, <2>3, <1>10 DEF Left
<1>12. Right(s, i) = <<c>> \o Right(s, e)
  BY <1>4, <1>5, <1>9, <1>10, CharactersConcat DEF Right
<1> QED BY <1>1, <1>11, <1>12 DEF c

LEMMA JoinedParts ==
  ASSUME NEW s, NEW t, WellFormed(s), WellFormed(t), NEW i, i = Len(s)
  PROVE  Left(s \o t, i) = Characters(s) /\ Right(s \o t, i) = Characters(t)
<1>1. s \in Seq(Bytes) /\ t \in Seq(Bytes)
  BY DEF WellFormed
<1> QED BY <1>1, ConcatParts DEF Left, Right, Prefix, Suffix

(* Insertion adds a character to the left of the cursor, and removal takes *)
(* the first one to the right of it.                                       *)
LEMMA InsertedParts ==
  ASSUME WellFormed(buffer), NEW i, Boundary(buffer, i), NEW c \in Chars
  PROVE  /\ Left(Inserted(i, c), i + Width[c]) = Append(Left(buffer, i), c)
         /\ Right(Inserted(i, c), i + Width[c]) = Right(buffer, i)
<1> DEFINE p == Prefix(buffer, i)
           q == Encode(c)
           r == Suffix(buffer, i)
<1>1. /\ WellFormed(p) /\ Len(p) = i /\ WellFormed(r)
      /\ WellFormed(q) /\ Len(q) = Width[c] /\ Characters(q) = <<c>>
      /\ p \in Seq(Bytes) /\ q \in Seq(Bytes)
  <2>1. WellFormed(p) /\ Len(p) = i /\ WellFormed(r)
    BY SplitWellFormed
  <2>2. WellFormed(q) /\ Len(q) = Width[c]
    BY EncodeWellFormed
  <2>3. Characters(q) = <<c>>
    BY CharactersOfOne
  <2> HIDE DEF p, q, r
  <2> QED BY <2>1, <2>2, <2>3 DEF WellFormed
<1>2. Inserted(i, c) = (p \o q) \o r
  BY DEF Inserted, Prefix, Suffix
<1>3. Characters(p) = Left(buffer, i) /\ Characters(r) = Right(buffer, i)
  BY DEF Left, Right
<1> HIDE DEF p, q, r
<1>4. WellFormed(p \o q) /\ i + Width[c] = Len(p \o q)
  BY <1>1, JoinWellFormed
<1>5. /\ Left((p \o q) \o r, i + Width[c]) = Characters(p \o q)
      /\ Right((p \o q) \o r, i + Width[c]) = Characters(r)
  <2> DEFINE u == p \o q
             j == i + Width[c]
  <2>1. WellFormed(u) /\ WellFormed(r) /\ j = Len(u)
    BY <1>1, <1>4
  <2> HIDE DEF u, j
  <2>2. Left(u \o r, j) = Characters(u) /\ Right(u \o r, j) = Characters(r)
    BY <2>1, JoinedParts
  <2> QED BY <2>2 DEF u, j
<1>6. Characters(p \o q) = Append(Characters(p), c)
  <2>1. Characters(p) \in Seq(Chars)
    BY <1>1, CharactersStep
  <2>2. Append(Characters(p), c) = Characters(p) \o <<c>>
    BY <2>1, AppendIsConcat
  <2>3. Characters(p \o q) = Characters(p) \o Characters(q)
    BY <1>1, CharactersConcat
  <2> QED BY <2>2, <2>3, <1>1
<1> QED BY <1>2, <1>3, <1>5, <1>6

LEMMA RemovedParts ==
  ASSUME WellFormed(buffer), NEW i \in 0 .. Len(buffer) - 1, Boundary(buffer, i)
  PROVE  /\ Left(Removed(i), i) = Left(buffer, i)
         /\ \E c \in Chars : Right(buffer, i) = <<c>> \o Right(Removed(i), i)
<1> DEFINE e == i + Width[buffer[i + 1].of]
<1>1. WellFormed(Prefix(buffer, i)) /\ i = Len(Prefix(buffer, i))
  BY SplitWellFormed
<1>2. Boundary(buffer, e)
  BY CharacterEnds
<1>3. WellFormed(Suffix(buffer, e))
  BY <1>2, SplitWellFormed
<1>4. Removed(i) = Prefix(buffer, i) \o Suffix(buffer, e)
  BY DEF Removed, Prefix, Suffix
<1>5. buffer[i + 1].of \in Chars /\ Right(buffer, i) = <<buffer[i + 1].of>> \o Right(buffer, e)
  BY CharacterAt
<1> HIDE DEF e
<1>6. Left(Removed(i), i) = Left(buffer, i) /\ Right(Removed(i), i) = Right(buffer, e)
  <2> DEFINE p == Prefix(buffer, i)
             r == Suffix(buffer, e)
  <2>1. Characters(p) = Left(buffer, i) /\ Characters(r) = Right(buffer, e)
    BY DEF Left, Right
  <2>2. WellFormed(p) /\ WellFormed(r) /\ i = Len(p) /\ Removed(i) = p \o r
    BY <1>1, <1>3, <1>4
  <2> HIDE DEF p, r
  <2>3. Left(p \o r, i) = Characters(p) /\ Right(p \o r, i) = Characters(r)
    BY <2>2, JoinedParts
  <2> QED BY <2>1, <2>2, <2>3
<1> QED BY <1>5, <1>6

(* The character that ends at the cursor starts at the boundary before it. *)
LEMMA FloorParts ==
  ASSUME Inv, cursor > 0, NEW i, i = FloorBoundary(cursor - 1)
  PROVE  /\ i \in 0 .. Len(buffer) - 1 /\ Boundary(buffer, i)
         /\ cursor = i + Width[buffer[i + 1].of]
         /\ \E c \in Chars : /\ Left(buffer, cursor) = Append(Left(buffer, i), c)
                             /\ Right(buffer, i) = <<c>> \o Right(buffer, cursor)
<1> DEFINE w == Width[buffer[i + 1].of]
<1>0. /\ WellFormed(buffer) /\ TypeOK
      /\ Len(buffer) \in Nat /\ cursor \in 0 .. Len(buffer) /\ Boundary(buffer, cursor)
  BY CursorBoundary DEF Inv, TypeOK
<1>1. cursor - 1 \in 0 .. Len(buffer)
  BY <1>0
<1>2. i \in 0 .. cursor - 1 /\ Boundary(buffer, i)
  BY <1>0, <1>1, FloorIsBoundary
<1>3. i \in 0 .. Len(buffer) - 1 /\ i < cursor /\ i + 1 \in 1 .. Len(buffer)
  BY <1>0, <1>2
<1>4. w \in 1 .. 4 /\ Boundary(buffer, i + w) /\ i + w <= cursor
  BY <1>0, <1>2, <1>3, ByteFacts, CharacterEnds, NoneWithin
<1>5. \A k \in i + 1 .. cursor - 1 : ~Boundary(buffer, k)
  BY <1>0, <1>1, FloorIsLast
<1> HIDE DEF w
<1>6. cursor = i + w
  BY <1>0, <1>3, <1>4, <1>5
<1>7. /\ buffer[i + 1].of \in Chars
      /\ Left(buffer, cursor) = Append(Left(buffer, i), buffer[i + 1].of)
      /\ Right(buffer, i) = <<buffer[i + 1].of>> \o Right(buffer, cursor)
  BY <1>0, <1>2, <1>3, <1>6, CharacterAt DEF w
<1> QED BY <1>2, <1>3, <1>6, <1>7 DEF w

(* Wherever the cursor goes, it divides the same text. *)
LEMMA MovedParts ==
  ASSUME NEW s, WellFormed(s), NEW i, Boundary(s, i), NEW j, Boundary(s, j)
  PROVE  LET text == Left(s, i) \o Right(s, i)
             n    == Len(Left(s, j))
         IN  Left(s, j) = SubSeq(text, 1, n) /\ Right(s, j) = SubSeq(text, n + 1, Len(text))
<1> DEFINE text == Left(s, i) \o Right(s, i)
           l == Left(s, j)
           r == Right(s, j)
<1>1. l \in Seq(Chars) /\ r \in Seq(Chars) /\ text = l \o r
  BY PartsOfText
<1> HIDE DEF text, l, r
<1>2. SubSeq(text, 1, Len(l)) = l /\ SubSeq(text, Len(l) + 1, Len(text)) = r
  BY <1>1, ConcatParts
<1> QED BY <1>2 DEF text, l, r

(* A key that moves the cursor moves it by a character, to the start, to   *)
(* the end, or leaves it.                                                  *)
Moved(l, r, n) ==
  \/ Len(l) > 0 /\ n = Len(l) - 1
  \/ Len(r) > 0 /\ n = Len(l) + 1
  \/ n = 0
  \/ n = Len(l) + Len(r)

LEMMA MoveImplements ==
  ASSUME Inv, Moves, Boundary(buffer, cursor'),
         Moved(Left(buffer, cursor), Right(buffer, cursor), Len(Left(buffer, cursor')))
  PROVE  E!Move
<1> DEFINE text == Left(buffer, cursor) \o Right(buffer, cursor)
           n == Len(Left(buffer, cursor'))
<1>1. WellFormed(buffer) /\ Boundary(buffer, cursor)
  BY CursorBoundary DEF Inv, TypeOK
<1>2. /\ Left(buffer, cursor') = SubSeq(text, 1, n)
      /\ Right(buffer, cursor') = SubSeq(text, n + 1, Len(text))
  BY <1>1, MovedParts
<1>3. buffer' = buffer /\ line' = line
  BY DEF Moves
<1> HIDE DEF n
<1>4. E!MoveTo(n)
  BY <1>2, <1>3 DEF E!MoveTo, Left, Right, Prefix, Suffix
<1>5. Moved(Left(buffer, cursor), Right(buffer, cursor), n)
  BY DEF n
<1> QED BY <1>4, <1>5 DEF E!Move, Moved, Left, Right, Prefix, Suffix

LEMMA EndParts ==
  ASSUME NEW s, WellFormed(s)
  PROVE  /\ Left(s, 0) = <<>> /\ Right(s, 0) = Characters(s)
         /\ Left(s, Len(s)) = Characters(s) /\ Right(s, Len(s)) = <<>>
<1>1. s \in Seq(Bytes) /\ Len(s) \in Nat
  BY DEF WellFormed
<1>2. SubSeq(s, 1, 0) = <<>> /\ SubSeq(s, Len(s) + 1, Len(s)) = <<>>
  BY <1>1, SubSeqEmpty
<1>3. SubSeq(s, 1, Len(s)) = s /\ SubSeq(s, 0 + 1, Len(s)) = s
  BY <1>1, SubSeqFull
<1> QED BY <1>2, <1>3, CharactersStep DEF Left, Right, Prefix, Suffix

LEMMA FirstAndRest ==
  ASSUME NEW S, NEW rest \in Seq(S)
  PROVE  \A c \in S : <<c>> \o rest # <<>> /\ rest = Tail(<<c>> \o rest)
<1> TAKE c \in S
<1> DEFINE s == <<c>> \o rest
<1>1. /\ s \in Seq(S) /\ Len(s) = 1 + Len(rest) /\ Len(rest) \in Nat
      /\ \A i \in 1 .. Len(s) : s[i] = IF i <= 1 THEN c ELSE rest[i - 1]
  <2>1. <<c>> \in Seq(S) /\ Len(<<c>>) = 1 /\ <<c>>[1] = c
    OBVIOUS
  <2> QED BY <2>1, ConcatProperties, LenProperties
<1> HIDE DEF s
<1>2. s # <<>>
  BY <1>1, EmptySeq
<1>3. /\ Tail(s) \in Seq(S) /\ Len(Tail(s)) = Len(rest)
      /\ \A i \in 1 .. Len(rest) : Tail(s)[i] = s[i + 1]
  BY <1>1, <1>2, HeadTailProperties
<1>4. \A i \in 1 .. Len(rest) : rest[i] = Tail(s)[i]
  BY <1>1, <1>3
<1>5. rest = Tail(s)
  BY <1>3, <1>4, SeqEqual
<1> QED BY <1>2, <1>5 DEF s

LEMMA BoundaryAfter ==
  ASSUME Inv'
  PROVE  WellFormed(buffer') /\ cursor' \in 0 .. Len(buffer') /\ Boundary(buffer', cursor')
BY DEF Inv, TypeOK, CursorOnBoundary, IsBoundary, Boundary, WellFormed

LEMMA NextImplements ==
  ASSUME Inv, Boundary(buffer, cursor'), NextCharacter, cursor' # cursor
  PROVE  Moved(Left(buffer, cursor), Right(buffer, cursor), Len(Left(buffer, cursor')))
<1> DEFINE w == Width[buffer[cursor + 1].of]
           c == buffer[cursor + 1].of
<1>0. /\ WellFormed(buffer) /\ Len(buffer) \in Nat
      /\ cursor \in 0 .. Len(buffer) /\ Boundary(buffer, cursor)
  BY CursorBoundary DEF Inv, TypeOK
<1>1. cursor \in 0 .. Len(buffer) - 1 /\ cursor' = cursor + 1 /\ cursor < cursor'
  BY <1>0 DEF NextCharacter, OneForward
<1>2. w \in 1 .. 4 /\ cursor + w <= cursor'
  <2>1. cursor + 1 \in 1 .. Len(buffer)
    BY <1>0, <1>1
  <2> QED BY <2>1, <1>0, <1>1, ByteFacts, NoneWithin
<1>3. cursor' = cursor + w
  <2> HIDE DEF w
  <2> QED BY <1>0, <1>1, <1>2
<1>4. /\ c \in Chars /\ Left(buffer, cursor') = Append(Left(buffer, cursor), c)
      /\ Right(buffer, cursor) = <<c>> \o Right(buffer, cursor')
  BY <1>0, <1>1, <1>3, CharacterAt
<1>5. /\ Left(buffer, cursor) \in Seq(Chars) /\ Right(buffer, cursor) \in Seq(Chars)
      /\ Right(buffer, cursor') \in Seq(Chars)
  BY <1>0, PartsOfText
<1> HIDE DEF c, w
<1>6. Len(Left(buffer, cursor')) = Len(Left(buffer, cursor)) + 1
  BY <1>4, <1>5, AppendProperties
<1>7. Len(Right(buffer, cursor)) > 0
  <2>1. <<c>> \in Seq(Chars) /\ Len(<<c>>) = 1
    BY <1>4
  <2> QED BY <2>1, <1>4, <1>5, ConcatProperties, LenProperties
<1> QED BY <1>6, <1>7 DEF Moved

LEMMA PreviousImplements ==
  ASSUME Inv, cursor > 0, cursor' = FloorBoundary(cursor - 1)
  PROVE  Moved(Left(buffer, cursor), Right(buffer, cursor), Len(Left(buffer, cursor')))
<1>0. WellFormed(buffer)
  BY DEF Inv, TypeOK
<1>1. /\ Boundary(buffer, cursor')
      /\ \E c \in Chars : Left(buffer, cursor) = Append(Left(buffer, cursor'), c)
  BY FloorParts
<1>2. PICK c \in Chars : Left(buffer, cursor) = Append(Left(buffer, cursor'), c)
  BY <1>1
<1>3. Left(buffer, cursor') \in Seq(Chars)
  BY <1>0, <1>1, PartsOfText
<1>4. /\ Len(Left(buffer, cursor')) \in Nat
      /\ Len(Left(buffer, cursor)) = Len(Left(buffer, cursor')) + 1
  BY <1>2, <1>3, AppendProperties, LenProperties
<1> QED BY <1>4 DEF Moved

(* Every key of the byte editor is a key of the editor of characters, or   *)
(* changes nothing of it.                                                  *)
LEMMA StepImplements == Inv /\ Inv' /\ [Next]_vars => [E!Next]_(E!vars)
<1> SUFFICES ASSUME Inv, Inv', [Next]_vars PROVE [E!Next]_(E!vars)
  OBVIOUS
<1>0. /\ TypeOK /\ WellFormed(buffer) /\ Len(buffer) \in Nat
      /\ cursor \in 0 .. Len(buffer) /\ Boundary(buffer, cursor)
  BY CursorBoundary DEF Inv, TypeOK
<1>1. Left(buffer, cursor) \in Seq(Chars) /\ Right(buffer, cursor) \in Seq(Chars)
  BY <1>0, PartsOfText
<1>2. ASSUME NEW c \in Chars, Type(c) PROVE E!Type(c)
  BY <1>0, <1>2, InsertedParts DEF Type, E!Type, Left, Right, Prefix, Suffix
<1>3. CASE Delete
  <2>1. cursor \in 0 .. Len(buffer) - 1
    BY <1>0, <1>3 DEF Delete
  <2>2. /\ Left(Removed(cursor), cursor) = Left(buffer, cursor)
        /\ \E c \in Chars : Right(buffer, cursor) = <<c>> \o Right(Removed(cursor), cursor)
    BY <1>0, <2>1, RemovedParts
  <2>3. Right(buffer, cursor) # <<>> /\ Right(Removed(cursor), cursor) = Tail(Right(buffer, cursor))
    <3>1. Right(Removed(cursor), cursor) \in Seq(Chars)
      BY <1>0, <2>1, RemoveKeeps, PartsOfText
    <3> QED BY <2>2, <3>1, FirstAndRest
  <2>4. E!Delete
    BY <1>3, <2>2, <2>3 DEF Delete, E!Delete, Left, Right, Prefix, Suffix
  <2> QED BY <2>4 DEF E!Next
<1>4. CASE Backspace
  <2> DEFINE i == FloorBoundary(cursor - 1)
  <2>1. cursor > 0 /\ buffer' = Removed(i) /\ cursor' = i /\ line' = line
    BY <1>0, <1>4 DEF Backspace
  <2>2. /\ i \in 0 .. Len(buffer) - 1 /\ Boundary(buffer, i)
        /\ \E c \in Chars : /\ Left(buffer, cursor) = Append(Left(buffer, i), c)
                            /\ Right(buffer, i) = <<c>> \o Right(buffer, cursor)
    BY <2>1, FloorParts
  <2> HIDE DEF i
  <2>3. /\ Left(Removed(i), i) = Left(buffer, i)
        /\ \E c \in Chars : Right(buffer, i) = <<c>> \o Right(Removed(i), i)
    BY <1>0, <2>2, RemovedParts
  <2>4. WellFormed(Removed(i)) /\ Boundary(Removed(i), i)
    BY <1>0, <2>2, RemoveKeeps
  <2>5. Right(Removed(i), i) \in Seq(Chars) /\ Left(buffer, i) \in Seq(Chars)
    BY <1>0, <2>2, <2>4, PartsOfText
  <2>6. Right(Removed(i), i) = Right(buffer, cursor)
    BY <1>1, <2>2, <2>3, <2>5, FirstAndRest
  <2>7. /\ Left(buffer, cursor) # <<>>
        /\ Left(buffer, i) = SubSeq(Left(buffer, cursor), 1, Len(Left(buffer, cursor)) - 1)
    BY <2>2, <2>5, AppendProperties
  <2>8. E!Backspace
    BY <2>1, <2>3, <2>6, <2>7 DEF E!Backspace, Left, Right, Prefix, Suffix
  <2> QED BY <2>8 DEF E!Next
<1>5. CASE Enter
  <2>1. Characters(buffer) = Left(buffer, cursor) \o Right(buffer, cursor)
    BY <1>0, PartsOfText
  <2>2. Left(<<>>, 0) = <<>> /\ Right(<<>>, 0) = <<>>
    BY EmptyWellFormed, EndParts, CharactersStep
  <2>3. E!Enter
    BY <1>5, <2>1, <2>2 DEF Enter, E!Enter, Left, Right, Prefix, Suffix
  <2> QED BY <2>3 DEF E!Next
<1>6. ASSUME Moves, Moved(Left(buffer, cursor), Right(buffer, cursor), Len(Left(buffer, cursor')))
      PROVE  E!Next
  <2>1. WellFormed(buffer') /\ cursor' \in 0 .. Len(buffer') /\ Boundary(buffer', cursor')
    BY BoundaryAfter
  <2>2. Boundary(buffer, cursor')
    BY <1>6, <2>1 DEF Moves
  <2> QED BY <1>6, <2>2, MoveImplements DEF E!Next
<1>7. ASSUME Moves, cursor' = cursor PROVE UNCHANGED E!vars
  BY <1>7 DEF Moves, E!vars
<1>8. CASE NextCharacter
  <2>1. Moves /\ Boundary(buffer, cursor')
    BY <1>8, BoundaryAfter DEF NextCharacter, Moves
  <2>2. CASE cursor' = cursor
    BY <1>7, <2>1, <2>2
  <2>3. CASE cursor' # cursor
    BY <1>6, <1>8, <2>1, <2>3, NextImplements
  <2> QED BY <2>2, <2>3
<1>9. CASE PreviousCharacter
  <2>1. CASE cursor > 0
    BY <1>6, <1>9, <2>1, PreviousImplements DEF PreviousCharacter, OneBack
  <2>2. CASE ~(cursor > 0)
    BY <1>7, <1>9, <2>2 DEF PreviousCharacter, OneBack
  <2> QED BY <2>1, <2>2
<1>10. CASE FirstCharacter
  <2>1. Left(buffer, cursor') = <<>>
    BY <1>0, <1>10, EndParts DEF FirstCharacter
  <2> QED BY <1>6, <1>10, <2>1 DEF FirstCharacter, Moved
<1>11. CASE LastCharacter
  <2>1. Left(buffer, cursor') = Left(buffer, cursor) \o Right(buffer, cursor)
    BY <1>0, <1>11, EndParts, PartsOfText DEF LastCharacter
  <2>2. Len(Left(buffer, cursor')) = Len(Left(buffer, cursor)) + Len(Right(buffer, cursor))
    BY <1>1, <2>1, ConcatProperties
  <2> QED BY <1>6, <1>11, <2>2 DEF LastCharacter, Moved
<1>12. CASE UNCHANGED vars
  BY <1>7, <1>12 DEF vars, Moves
<1> QED
  BY <1>2, <1>3, <1>4, <1>5, <1>8, <1>9, <1>10, <1>11, <1>12 DEF Next, E!Next

(* Implements: to type, delete and move by bytes is to do so by characters,*)
(* whatever their widths.                                                  *)
THEOREM Refinement == Spec => Implements
<1>1. Init => E!Init
  <2>1. /\ WellFormed(<<>>) /\ Characters(<<>>) = <<>>
        /\ Left(<<>>, 0) = <<>> /\ Right(<<>>, 0) = <<>>
    BY EmptyWellFormed, EndParts, CharactersStep
  <2> QED BY <2>1 DEF Init, E!Init, Left, Right, Prefix, Suffix
<1>2. Inv /\ Inv' /\ [Next]_vars => [E!Next]_(E!vars)
  BY StepImplements
<1> QED BY <1>1, <1>2, Invariance, PTL DEF Spec, Implements, E!Spec

-----------------------------------------------------------------------------
(* What is drawn. *)

LEMMA Apart ==
  ASSUME NEW S, IsFiniteSet(S), NEW U, IsFiniteSet(U), S \cap U = {}
  PROVE  /\ IsFiniteSet(S \cup U)
         /\ Cardinality(S \cup U) = Cardinality(S) + Cardinality(U)
<1>1. Cardinality(S \cup U) = Cardinality(S) + Cardinality(U) - Cardinality(S \cap U)
  BY FS_Union
<1>2. Cardinality(S \cap U) = 0
  BY FS_EmptySet
<1>3. Cardinality(S) \in Nat /\ Cardinality(U) \in Nat
  BY FS_CardinalityType
<1> QED BY <1>1, <1>2, <1>3, FS_Union

LEMMA FiniteIndices ==
  ASSUME NEW m \in Nat, NEW S \in SUBSET (0 .. m - 1)
  PROVE  IsFiniteSet(S) /\ Cardinality(S) \in Nat
<1>1. m - 1 \in Int
  OBVIOUS
<1>2. IsFiniteSet(0 .. m - 1)
  BY <1>1, FS_Interval
<1>3. IsFiniteSet(S)
  BY <1>2, FS_Subset
<1> QED BY <1>3, FS_CardinalityType

(* The n-th of a set of indices, and the n-th from its end, exist if there *)
(* are more than n of them.                                                *)
LEMMA NthExists ==
  ASSUME NEW m \in Nat, NEW S \in SUBSET (0 .. m - 1), NEW n \in 0 .. Cardinality(S) - 1
  PROVE  \E i \in S : Cardinality({j \in S : j < i}) = n
<1> DEFINE T == {k \in Nat : \A U \in SUBSET (0 .. k - 1) : \A l \in 0 .. Cardinality(U) - 1 :
                  \E i \in U : Cardinality({j \in U : j < i}) = l}
<1>1. 0 \in T
  <2>1. \A U \in SUBSET (0 .. 0 - 1) : Cardinality(U) = 0
    <3> SUFFICES ASSUME NEW U \in SUBSET (0 .. 0 - 1) PROVE Cardinality(U) = 0
      OBVIOUS
    <3>1. U = {}
      OBVIOUS
    <3> QED BY <3>1, FS_EmptySet
  <2> QED BY <2>1
<1>2. ASSUME NEW k \in T PROVE k + 1 \in T
  <2> SUFFICES ASSUME NEW U \in SUBSET (0 .. k), NEW l \in 0 .. Cardinality(U) - 1
               PROVE  \E i \in U : Cardinality({j \in U : j < i}) = l
    <3>1. k \in Nat /\ k + 1 \in Nat /\ (k + 1) - 1 = k
      OBVIOUS
    <3> QED BY <3>1
  <2> DEFINE V == U \ {k}
  <2>1. k \in Nat /\ V \in SUBSET (0 .. k - 1)
    OBVIOUS
  <2>2. IsFiniteSet(U) /\ Cardinality(U) \in Nat
    <3>1. k + 1 \in Nat /\ U \in SUBSET (0 .. (k + 1) - 1)
      BY <2>1
    <3> QED BY <3>1, FiniteIndices
  <2>3. Cardinality(V) = IF k \in U THEN Cardinality(U) - 1 ELSE Cardinality(U)
    BY <2>2, FS_RemoveElement
  <2>4. CASE l \in 0 .. Cardinality(V) - 1
    <3>1. PICK i \in V : Cardinality({j \in V : j < i}) = l
      BY <2>1, <2>4
    <3>2. {j \in U : j < i} = {j \in V : j < i}
      BY <2>1
    <3> QED BY <3>1, <3>2
  <2>5. CASE l \notin 0 .. Cardinality(V) - 1
    <3>1. k \in U /\ l = Cardinality(V)
      BY <2>2, <2>3, <2>5
    <3>2. \A j \in U : j < k <=> j # k
      BY <2>1
    <3>3. {j \in U : j < k} = V
      BY <3>2
    <3> QED BY <3>1, <3>3
  <2> QED BY <2>4, <2>5
<1> HIDE DEF T
<1>3. T = Nat
  <2>1. T \subseteq Nat
    BY DEF T
  <2> QED BY <1>1, <1>2, <2>1, NatSetInduction
<1> QED BY <1>3 DEF T

LEMMA NthProperty ==
  ASSUME NEW m \in Nat, NEW S \in SUBSET (0 .. m - 1), NEW n \in 0 .. Cardinality(S) - 1
  PROVE  Nth(S, n) \in S /\ Cardinality({j \in S : j < Nth(S, n)}) = n
<1>1. \E i \in S : Cardinality({j \in S : j < i}) = n
  BY NthExists
<1> QED BY <1>1 DEF Nth

LEMMA NthBackProperty ==
  ASSUME NEW m \in Nat, NEW S \in SUBSET (0 .. m - 1), NEW n \in 0 .. Cardinality(S) - 1
  PROVE  NthBack(S, n) \in S /\ Cardinality({j \in S : j >= NthBack(S, n)}) = n + 1
<1>1. IsFiniteSet(S) /\ Cardinality(S) \in Nat
  BY FiniteIndices
<1>2. ASSUME NEW i \in S
      PROVE  LET below == {j \in S : j < i}
                 above == {j \in S : j > i}
                 from  == {j \in S : j >= i}
             IN  /\ Cardinality(below) \in Nat /\ Cardinality(above) \in Nat
                 /\ Cardinality(from) = Cardinality(above) + 1
                 /\ Cardinality(S) = Cardinality(below) + Cardinality(above) + 1
  <2> DEFINE below == {j \in S : j < i}
             above == {j \in S : j > i}
             from  == {j \in S : j >= i}
  <2>0. \A j \in S : j \in Int /\ (j >= i <=> j > i \/ j = i) /\ (j < i <=> ~(j >= i))
    OBVIOUS
  <2>1. /\ below \in SUBSET S /\ above \in SUBSET S /\ from \in SUBSET S
        /\ i \notin above
    BY <2>0
  <2>5. from = above \cup {i}
    BY <2>0
  <2>6. S = below \cup from /\ below \cap from = {}
    BY <2>0
  <2> HIDE DEF below, above, from
  <2>2. /\ IsFiniteSet(below) /\ IsFiniteSet(above) /\ IsFiniteSet(from)
        /\ Cardinality(below) \in Nat /\ Cardinality(above) \in Nat
    BY <1>1, <2>1, FS_Subset, FS_CardinalityType
  <2>3. Cardinality(from) = Cardinality(above) + 1
    BY <2>1, <2>2, <2>5, FS_AddElement
  <2>4. Cardinality(S) = Cardinality(below) + Cardinality(from)
    BY <2>2, <2>6, Apart
  <2> QED BY <2>2, <2>3, <2>4 DEF below, above, from
<1>3. \E i \in S : Cardinality({j \in S : j > i}) = n
  <2>1. (Cardinality(S) - 1) - n \in 0 .. Cardinality(S) - 1
    BY <1>1
  <2>2. PICK i \in S : Cardinality({j \in S : j < i}) = (Cardinality(S) - 1) - n
    BY <2>1, NthExists
  <2>3. Cardinality({j \in S : j > i}) = n
    <3> DEFINE b == Cardinality({j \in S : j < i})
               a == Cardinality({j \in S : j > i})
    <3>1. a \in Nat /\ b \in Nat /\ Cardinality(S) = b + a + 1
      BY <1>2
    <3>2. b = (Cardinality(S) - 1) - n
      BY <2>2
    <3> HIDE DEF a, b
    <3>3. a = n
      BY <3>1, <3>2, <1>1
    <3> QED BY <3>3 DEF a
  <2> QED BY <2>3
<1>4. NthBack(S, n) \in S /\ Cardinality({j \in S : j > NthBack(S, n)}) = n
  BY <1>3 DEF NthBack
<1> QED BY <1>2, <1>4

LEMMA GraphemeFacts ==
  ASSUME Inv
  PROVE  /\ Len(buffer) \in Nat /\ cursor \in 0 .. Len(buffer)
         /\ IsBoundary(0) /\ IsBoundary(Len(buffer))
         /\ Graphemes \in SUBSET (0 .. Len(buffer) - 1)
         /\ Before \in SUBSET (0 .. Len(buffer) - 1)
         /\ After \in SUBSET (0 .. Len(buffer) - 1)
         /\ \A i \in Graphemes : IsBoundary(i)
         /\ Graphemes = Before \cup After
         /\ \A i \in Before : i < cursor
         /\ \A i \in After : cursor <= i
         /\ Cardinality(Before) \in Nat /\ Cardinality(After) \in Nat
         /\ Cardinality(Graphemes) = Cardinality(Before) + Cardinality(After)
<1>1. Len(buffer) \in Nat /\ cursor \in 0 .. Len(buffer)
  BY CursorBoundary
<1>2. IsBoundary(0) /\ IsBoundary(Len(buffer))
  BY DEF IsBoundary
<1>3. /\ Graphemes \in SUBSET (0 .. Len(buffer) - 1)
      /\ \A i \in Graphemes : Leads(buffer[i + 1])
  BY DEF Graphemes
<1>4. \A i \in Graphemes : IsBoundary(i)
  BY <1>1, <1>3 DEF IsBoundary
<1>5. /\ Before \in SUBSET Graphemes /\ After \in SUBSET Graphemes
      /\ Graphemes = Before \cup After /\ Before \cap After = {}
      /\ \A i \in Before : i < cursor
      /\ \A i \in After : ~(i < cursor)
  BY DEF Before, After
<1>6. \A i \in After : cursor <= i
  BY <1>1, <1>3, <1>5
<1>7. /\ Before \in SUBSET (0 .. Len(buffer) - 1)
      /\ After \in SUBSET (0 .. Len(buffer) - 1)
  BY <1>3, <1>5
<1>8. /\ IsFiniteSet(Before) /\ Cardinality(Before) \in Nat
      /\ IsFiniteSet(After) /\ Cardinality(After) \in Nat
  BY <1>1, <1>7, FiniteIndices
<1>9. Cardinality(Graphemes) = Cardinality(Before) + Cardinality(After)
  BY <1>5, <1>8, Apart
<1> QED BY <1>1, <1>2, <1>3, <1>4, <1>5, <1>6, <1>7, <1>8, <1>9

(* What is drawn from the cursor on, and what up to it.                    *)
LEMMA DrawnAfter ==
  ASSUME Inv, NEW n \in Nat
  PROVE  /\ EndAfter(n) \in cursor .. Len(buffer) /\ IsBoundary(EndAfter(n))
         /\ Cardinality({i \in After : i < EndAfter(n)}) = Least(n, Cardinality(After))
<1>1. /\ Len(buffer) \in Nat /\ cursor \in 0 .. Len(buffer) /\ IsBoundary(Len(buffer))
      /\ After \in SUBSET (0 .. Len(buffer) - 1)
      /\ \A i \in After : cursor <= i /\ IsBoundary(i)
      /\ Cardinality(After) \in Nat
  BY GraphemeFacts
<1>2. CASE n < Cardinality(After)
  <2>1. n \in 0 .. Cardinality(After) - 1
    BY <1>1, <1>2
  <2>2. Nth(After, n) \in After /\ Cardinality({i \in After : i < Nth(After, n)}) = n
    BY <1>1, <2>1, NthProperty
  <2>3. EndAfter(n) = Nth(After, n) /\ Least(n, Cardinality(After)) = n
    BY <1>2 DEF EndAfter, Least
  <2> DEFINE e == Nth(After, n)
  <2> HIDE DEF e
  <2>4. e \in After
    BY <2>2 DEF e
  <2>5. e \in 0 .. Len(buffer) - 1 /\ cursor <= e /\ IsBoundary(e)
    BY <1>1, <2>4
  <2>6. e \in cursor .. Len(buffer)
    BY <1>1, <2>5
  <2>7. EndAfter(n) \in cursor .. Len(buffer) /\ IsBoundary(EndAfter(n))
    BY <2>3, <2>5, <2>6 DEF e
  <2>8. Cardinality({i \in After : i < EndAfter(n)}) = Least(n, Cardinality(After))
    BY <2>2, <2>3
  <2> QED BY <2>7, <2>8
<1>3. CASE ~(n < Cardinality(After))
  <2>1. EndAfter(n) = Len(buffer) /\ Least(n, Cardinality(After)) = Cardinality(After)
    BY <1>3 DEF EndAfter, Least
  <2>2. {i \in After : i < Len(buffer)} = After
    <3>1. \A i \in After : i < Len(buffer)
      BY <1>1
    <3> QED BY <3>1
  <2>3. EndAfter(n) \in cursor .. Len(buffer) /\ IsBoundary(EndAfter(n))
    BY <1>1, <2>1
  <2>4. Cardinality({i \in After : i < EndAfter(n)}) = Least(n, Cardinality(After))
    BY <2>1, <2>2
  <2> QED BY <2>3, <2>4
<1> QED BY <1>2, <1>3

LEMMA DrawnBefore ==
  ASSUME Inv, NEW n \in 0 .. Cardinality(Before) - 1
  PROVE  /\ NthBack(Before, n) \in 0 .. cursor /\ IsBoundary(NthBack(Before, n))
         /\ Cardinality({i \in Before : i >= NthBack(Before, n)}) = n + 1
<1>1. /\ Len(buffer) \in Nat /\ cursor \in 0 .. Len(buffer)
      /\ Before \in SUBSET (0 .. Len(buffer) - 1)
      /\ \A i \in Before : i < cursor /\ IsBoundary(i)
  BY GraphemeFacts
<1> DEFINE f == NthBack(Before, n)
<1>2. f \in Before /\ Cardinality({i \in Before : i >= f}) = n + 1
  BY <1>1, NthBackProperty
<1> HIDE DEF f
<1>3. f \in 0 .. Len(buffer) - 1 /\ f < cursor /\ IsBoundary(f)
  BY <1>1, <1>2
<1>4. f \in 0 .. cursor
  BY <1>1, <1>3
<1> QED BY <1>2, <1>3, <1>4 DEF f

(* What CursorIsVisible says of an area. *)
Visible(area, width) ==
  LET drawn == {i \in Graphemes : area.from <= i /\ i < area.upto}
  IN  /\ IsBoundary(area.from) /\ IsBoundary(area.upto)
      /\ area.from <= cursor /\ cursor <= area.upto
      /\ area.column = Cardinality(drawn \cap Before)
      /\ Cardinality(drawn) <= width
      /\ Cardinality(drawn) >= Least(width - 1, Cardinality(Graphemes))

LEMMA AreaVisible ==
  ASSUME Inv, NEW area, NEW width,
         area.from \in 0 .. cursor, IsBoundary(area.from),
         area.upto \in cursor .. Len(buffer), IsBoundary(area.upto),
         NEW k, k = Cardinality({i \in Before : i >= area.from}),
         NEW l, l = Cardinality({i \in After : i < area.upto}),
         area.column = k, k + l <= width,
         k + l >= Least(width - 1, Cardinality(Graphemes))
  PROVE  Visible(area, width)
<1> DEFINE drawn == {i \in Graphemes : area.from <= i /\ i < area.upto}
           left == {i \in Before : i >= area.from}
           right == {i \in After : i < area.upto}
<1>1. /\ Len(buffer) \in Nat /\ cursor \in 0 .. Len(buffer)
      /\ Graphemes = Before \cup After
      /\ Before \in SUBSET (0 .. Len(buffer) - 1) /\ After \in SUBSET (0 .. Len(buffer) - 1)
      /\ \A i \in Before : i < cursor
      /\ \A i \in After : cursor <= i
  BY GraphemeFacts
<1>2. /\ left \in SUBSET (0 .. Len(buffer) - 1)
      /\ right \in SUBSET (0 .. Len(buffer) - 1)
  BY <1>1
<1>3. left \cap right = {}
  <2>1. \A i \in left : i \in Int /\ i < cursor
    BY <1>1
  <2>2. \A i \in right : i \in Int /\ cursor <= i
    BY <1>1
  <2> HIDE DEF left, right
  <2> QED BY <1>1, <2>1, <2>2
<1>4. \A i \in Before : i < area.upto /\ (i >= area.from <=> area.from <= i)
  BY <1>1
<1>5. \A i \in After : area.from <= i
  BY <1>1
<1>6. drawn = left \cup right
  BY <1>1, <1>4, <1>5
<1>7. drawn \cap Before = left
  <2>1. \A i \in After : i \notin Before
    BY <1>1
  <2> QED BY <1>1, <1>4, <2>1
<1> HIDE DEF left, right
<1>8. Cardinality(drawn) = Cardinality(left) + Cardinality(right)
  BY <1>1, <1>2, <1>3, <1>6, FiniteIndices, Apart
<1>9. k = Cardinality(left) /\ l = Cardinality(right)
  BY DEF left, right
<1>10. area.from <= cursor /\ cursor <= area.upto
  BY <1>1
<1>11. area.column = Cardinality(drawn \cap Before)
  BY <1>7, <1>9
<1>12. /\ Cardinality(drawn) <= width
       /\ Cardinality(drawn) >= Least(width - 1, Cardinality(Graphemes))
  <2> HIDE DEF drawn
  <2> QED BY <1>8, <1>9
<1> QED BY <1>10, <1>11, <1>12 DEF Visible

(* The three layouts, each where get_visible_area() chooses it.            *)
LEMMA PinnedLeftVisible ==
  ASSUME Inv, NEW width \in Nat, width >= 2, Cardinality(Before) <= width
  PROVE  Visible(PinnedLeft(width), width)
<1> DEFINE b == Cardinality(Before)
           a == Cardinality(After)
           n == Least(width - b, a)
           area == PinnedLeft(width)
<1>1. /\ cursor \in 0 .. Len(buffer) /\ Len(buffer) \in Nat /\ IsBoundary(0)
      /\ Before \in SUBSET (0 .. Len(buffer) - 1)
      /\ b \in Nat /\ a \in Nat /\ Cardinality(Graphemes) = b + a
  BY GraphemeFacts
<1>2. area.from = 0 /\ area.upto = EndAfter(n) /\ area.column = b
  BY DEF PinnedLeft
<1>3. b = Cardinality({i \in Before : i >= 0})
  <2>1. \A i \in Before : i >= 0
    BY <1>1
  <2>2. {i \in Before : i >= 0} = Before
    BY <2>1
  <2> QED BY <2>2
<1> HIDE DEF b, a
<1>4. n \in Nat /\ Least(n, a) = n /\ b + n <= width /\ b + n >= Least(width - 1, b + a)
  BY <1>1 DEF Least, b
<1> HIDE DEF n, area
<1>5. /\ EndAfter(n) \in cursor .. Len(buffer) /\ IsBoundary(EndAfter(n))
      /\ Cardinality({i \in After : i < EndAfter(n)}) = n
  BY <1>4, DrawnAfter DEF a
<1>6. Visible(area, width)
  <2>1. /\ area.from \in 0 .. cursor /\ IsBoundary(area.from)
        /\ area.upto \in cursor .. Len(buffer) /\ IsBoundary(area.upto)
    BY <1>1, <1>2, <1>5
  <2>2. /\ b = Cardinality({i \in Before : i >= area.from})
        /\ n = Cardinality({i \in After : i < area.upto})
    BY <1>2, <1>3, <1>5
  <2>3. b + n >= Least(width - 1, Cardinality(Graphemes))
    BY <1>1, <1>4
  <2> QED BY <2>1, <2>2, <2>3, <1>2, <1>4, AreaVisible
<1> QED BY <1>6 DEF area

LEMMA CentredVisible ==
  ASSUME Inv, NEW width \in Nat, width >= 2, NEW half, half = width \div 2,
         Cardinality(Before) >= half, Cardinality(After) >= half
  PROVE  Visible(Centred(half), width)
<1> DEFINE b == Cardinality(Before)
           a == Cardinality(After)
           area == Centred(half)
<1>1. /\ cursor \in 0 .. Len(buffer) /\ Len(buffer) \in Nat
      /\ b \in Nat /\ a \in Nat /\ Cardinality(Graphemes) = b + a
  BY GraphemeFacts
<1>2. /\ half \in Nat /\ half >= 1 /\ half + half <= width /\ half + half >= width - 1
      /\ Pred(half) = half - 1
  BY DEF Pred
<1>3. area.from = NthBack(Before, half - 1) /\ area.upto = EndAfter(half) /\ area.column = half
  BY <1>2 DEF Centred
<1> HIDE DEF b, a, area
<1>4. /\ NthBack(Before, half - 1) \in 0 .. cursor /\ IsBoundary(NthBack(Before, half - 1))
      /\ Cardinality({i \in Before : i >= NthBack(Before, half - 1)}) = half
  <2>1. half - 1 \in 0 .. Cardinality(Before) - 1 /\ (half - 1) + 1 = half
    BY <1>1, <1>2 DEF b
  <2> QED BY <2>1, DrawnBefore
<1>5. /\ EndAfter(half) \in cursor .. Len(buffer) /\ IsBoundary(EndAfter(half))
      /\ Cardinality({i \in After : i < EndAfter(half)}) = half
  <2>1. Least(half, Cardinality(After)) = half
    BY <1>1, <1>2 DEF Least, a
  <2> QED BY <2>1, <1>2, DrawnAfter
<1>6. Visible(area, width)
  <2>1. /\ area.from \in 0 .. cursor /\ IsBoundary(area.from)
        /\ area.upto \in cursor .. Len(buffer) /\ IsBoundary(area.upto)
    BY <1>3, <1>4, <1>5
  <2>2. /\ half = Cardinality({i \in Before : i >= area.from})
        /\ half = Cardinality({i \in After : i < area.upto})
    BY <1>3, <1>4, <1>5
  <2>3. half + half >= Least(width - 1, Cardinality(Graphemes))
    BY <1>1, <1>2 DEF Least
  <2> QED BY <2>1, <2>2, <2>3, <1>2, <1>3, AreaVisible
<1> QED BY <1>6 DEF area

LEMMA PinnedRightVisible ==
  ASSUME Inv, NEW width \in Nat, width >= 2, Cardinality(After) < width,
         Cardinality(Before) + Cardinality(After) >= width
  PROVE  Visible(PinnedRight(width), width)
<1> DEFINE b == Cardinality(Before)
           a == Cardinality(After)
           k == width - a
           area == PinnedRight(width)
<1>1. /\ cursor \in 0 .. Len(buffer) /\ Len(buffer) \in Nat /\ IsBoundary(Len(buffer))
      /\ After \in SUBSET (0 .. Len(buffer) - 1)
      /\ b \in Nat /\ a \in Nat /\ Cardinality(Graphemes) = b + a
  BY GraphemeFacts
<1>2. k \in Nat /\ k >= 1 /\ k <= b /\ Pred(Least(k, b)) = k - 1
  <2> HIDE DEF a, b
  <2> QED BY <1>1 DEF Pred, Least, a, b
<1>3. /\ area.from = NthBack(Before, k - 1) /\ area.upto = Len(buffer) /\ area.column = k
  BY <1>2 DEF PinnedRight
<1> HIDE DEF b, k, area
<1>4. /\ NthBack(Before, k - 1) \in 0 .. cursor /\ IsBoundary(NthBack(Before, k - 1))
      /\ Cardinality({i \in Before : i >= NthBack(Before, k - 1)}) = k
  <2>1. k - 1 \in 0 .. Cardinality(Before) - 1 /\ (k - 1) + 1 = k
    BY <1>1, <1>2 DEF b
  <2> QED BY <2>1, DrawnBefore
<1>5. a = Cardinality({i \in After : i < Len(buffer)})
  <2>1. \A i \in After : i < Len(buffer)
    BY <1>1
  <2>2. {i \in After : i < Len(buffer)} = After
    BY <2>1
  <2> QED BY <2>2
<1> HIDE DEF a
<1>6. Visible(area, width)
  <2>1. /\ area.from \in 0 .. cursor /\ IsBoundary(area.from)
        /\ area.upto \in cursor .. Len(buffer) /\ IsBoundary(area.upto)
    BY <1>1, <1>3, <1>4
  <2>2. /\ k = Cardinality({i \in Before : i >= area.from})
        /\ a = Cardinality({i \in After : i < area.upto})
    BY <1>3, <1>4, <1>5
  <2>3. k + a <= width /\ k + a >= Least(width - 1, Cardinality(Graphemes))
    BY <1>1 DEF Least, k
  <2> QED BY <2>1, <2>2, <2>3, <1>3, AreaVisible
<1> QED BY <1>6 DEF area

LEMMA InvIsVisible == Inv => CursorIsVisible
<1> SUFFICES ASSUME Inv, NEW width \in 2 .. MaxBytes PROVE Visible(VisibleArea(width), width)
  BY DEF CursorIsVisible, Visible
<1> DEFINE b == Cardinality(Before)
           a == Cardinality(After)
           half == width \div 2
<1>1. b \in Nat /\ a \in Nat
  BY GraphemeFacts
<1>2. width \in Nat /\ width >= 2 /\ half \in Nat /\ half + half <= width
  BY MaxBytesIsNat
<1> HIDE DEF a, b, half
<1>3. CASE b < half
  <2>1. VisibleArea(width) = PinnedLeft(width)
    BY <1>1, <1>2, <1>3 DEF VisibleArea, a, b, half
  <2>2. b <= width
    BY <1>1, <1>2, <1>3
  <2> QED BY <2>1, <2>2, <1>2, PinnedLeftVisible DEF b
<1>4. CASE b >= half /\ a >= half
  <2>1. VisibleArea(width) = Centred(half)
    BY <1>1, <1>2, <1>4 DEF VisibleArea, a, b, half
  <2> QED BY <2>1, <1>2, <1>4, CentredVisible DEF a, b, half
<1>5. CASE b >= half /\ a < half /\ b + a >= width
  <2>1. VisibleArea(width) = PinnedRight(width)
    BY <1>1, <1>2, <1>5 DEF VisibleArea, a, b, half
  <2>2. a < width
    BY <1>1, <1>2, <1>5
  <2> QED BY <2>1, <2>2, <1>2, <1>5, PinnedRightVisible DEF a, b
<1>6. CASE b >= half /\ a < half /\ b + a < width
  <2>1. VisibleArea(width) = PinnedLeft(width)
    BY <1>1, <1>2, <1>6 DEF VisibleArea, a, b, half
  <2>2. b <= width
    BY <1>1, <1>2, <1>6
  <2> QED BY <2>1, <2>2, <1>2, PinnedLeftVisible DEF b
<1> QED BY <1>1, <1>2, <1>3, <1>4, <1>5, <1>6

(* CursorIsVisible: whatever the graphemes of the line, what               *)
(* get_visible_area() chooses of it fits the row, fills it up to a column  *)
(* and has the cursor where it is drawn.                                   *)
THEOREM CursorStaysVisible == Spec => []CursorIsVisible
BY InvIsVisible, Invariance, PTL
=============================================================================
