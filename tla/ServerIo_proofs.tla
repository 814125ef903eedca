-------------------------- MODULE ServerIo_proofs --------------------------
(***************************************************************************)
(* Proofs about the server connection: for every set of characters, every  *)
(* encoding of up to four bytes, every buffer and whatever is written,     *)
(* sent and read in whatever pieces.                                       *)
(***************************************************************************)
EXTENDS ServerIo, SequenceInduction

FeedFold == INSTANCE FoldTheorems WITH Op <- Feed
CutFold == INSTANCE FoldTheorems WITH Op <- CutLine
KeepFold == INSTANCE FoldTheorems WITH Op <- KeepMessage

-----------------------------------------------------------------------------
(* The number of interruptions. *)

(* No turn starts with the interruptions of another.                       *)
LEMMA RetriesStep ==
  ASSUME retries \in Nat, RetriesAreCounted, [Next]_vars
  PROVE  retries' \in Nat /\ RetriesAreCounted'
<1> USE LimitsAreNat DEF RetriesAreCounted, readVars, writeVars
<1>1. ASSUME NEW text \in Requests, Write(text) PROVE retries' \in Nat /\ RetriesAreCounted'
  BY <1>1 DEF Write
<1>2. CASE NothingToWrite
  BY <1>2 DEF NothingToWrite
<1>3. ASSUME NEW n \in 1 .. Len(unwritten), WriteBytes(n)
      PROVE  retries' \in Nat /\ RetriesAreCounted'
  BY <1>3 DEF WriteBytes
<1>4. CASE WriteFails
  BY <1>4 DEF WriteFails, Fails
<1>5. ASSUME NEW n \in 1 .. BufferSize, Recv(n) PROVE retries' \in Nat /\ RetriesAreCounted'
  BY <1>5 DEF Recv
<1>6. CASE NothingArrived
  BY <1>6 DEF NothingArrived
<1>7. CASE Interrupted
  BY <1>7 DEF Interrupted, Fails
<1>8. CASE RecvFails
  BY <1>8 DEF RecvFails, Fails
<1>9. ASSUME NEW l \in Lines, ServerSends(l) PROVE retries' \in Nat /\ RetriesAreCounted'
  BY <1>9 DEF ServerSends
<1>10. CASE UNCHANGED vars
  BY <1>10 DEF vars
<1> QED BY <1>1, <1>2, <1>3, <1>4, <1>5, <1>6, <1>7, <1>8, <1>9, <1>10 DEF Next

(* The interruptions of a read are counted and given up at a limit.        *)
THEOREM RetriesCounted == Spec => []RetriesAreCounted
<1> DEFINE Inv == retries \in Nat /\ RetriesAreCounted
<1>1. Init => Inv
  BY LimitsAreNat DEF Init, RetriesAreCounted
<1>2. Inv /\ [Next]_vars => Inv'
  BY RetriesStep
<1>3. Inv => RetriesAreCounted
  OBVIOUS
<1> HIDE DEF Inv
<1> QED BY <1>1, <1>2, <1>3, PTL DEF Spec

-----------------------------------------------------------------------------
(* Bytes and characters. *)

(* The bytes that occur: those of an encoding.                             *)
Utf8Bytes == {b \in Bytes : b.nth <= Width[b.of]}

LEMMA EncodeType ==
  ASSUME NEW c \in Chars
  PROVE  /\ Encode(c) \in Seq(Utf8Bytes)
         /\ Len(Encode(c)) = Width[c]
         /\ Width[c] \in 1 .. 4
         /\ \A k \in 1 .. Width[c] : Encode(c)[k] = [of |-> c, nth |-> k]
<1>1. Width[c] \in 1 .. 4
  BY WidthsAreUtf8
<1>2. \A k \in 1 .. Width[c] : [of |-> c, nth |-> k] \in Utf8Bytes
  BY <1>1 DEF Utf8Bytes, Bytes
<1>3. Encode(c) \in [1 .. Width[c] -> Utf8Bytes]
  BY <1>2 DEF Encode
<1>4. Encode(c) \in Seq(Utf8Bytes) /\ Len(Encode(c)) = Width[c]
  BY <1>1, <1>3
<1> QED BY <1>1, <1>4 DEF Encode

LEMMA EncodeTextType ==
  /\ EncodeText(<<>>) = <<>>
  /\ \A text \in Seq(Chars) :
       /\ EncodeText(text) \in Seq(Utf8Bytes)
       /\ \A c \in Chars : EncodeText(Append(text, c)) = EncodeText(text) \o Encode(c)
       /\ \A more \in Seq(Chars) :
            EncodeText(text \o more) = EncodeText(text) \o EncodeText(more)
<1> DEFINE f == [c \in Chars |-> Encode(c)]
<1>1. f \in [Chars -> Seq(Utf8Bytes)]
  BY EncodeType
<1>2. ASSUME NEW text \in Seq(Chars) PROVE EncodeText(text) = FlattenSeq(Mapped(f, text))
  <2>1. \A i \in DOMAIN text : text[i] \in Chars
    BY ElementOfSeq, LenProperties
  <2>2. [i \in DOMAIN text |-> Encode(text[i])] = Mapped(f, text)
    BY <2>1 DEF Mapped
  <2> QED BY <2>2 DEF EncodeText
<1>3. <<>> \in Seq(Chars)
  BY EmptySeq
<1>4. \A c \in Chars : f[c] = Encode(c)
  OBVIOUS
<1> HIDE DEF f
<1>8. /\ FlattenSeq(Mapped(f, <<>>)) = <<>>
      /\ \A s \in Seq(Chars) : /\ FlattenSeq(Mapped(f, s)) \in Seq(Utf8Bytes)
                             /\ \A e \in Chars : FlattenSeq(Mapped(f, Append(s, e)))
                                               = FlattenSeq(Mapped(f, s)) \o f[e]
  BY <1>1, FlattenMapped
<1>9. \A s, u, v \in Seq(Chars) : v = s \o u =>
        FlattenSeq(Mapped(f, v)) = FlattenSeq(Mapped(f, s)) \o FlattenSeq(Mapped(f, u))
  BY <1>1, FlattenMappedConcat
<1>5. EncodeText(<<>>) = <<>>
  BY <1>8, <1>2, <1>3
<1>6. ASSUME NEW text \in Seq(Chars)
      PROVE  /\ EncodeText(text) \in Seq(Utf8Bytes)
             /\ \A c \in Chars : EncodeText(Append(text, c)) = EncodeText(text) \o Encode(c)
             /\ \A more \in Seq(Chars) :
                  EncodeText(text \o more) = EncodeText(text) \o EncodeText(more)
  <2>1. EncodeText(text) \in Seq(Utf8Bytes)
    BY <1>2, <1>8
  <2>2. ASSUME NEW c \in Chars
        PROVE  EncodeText(Append(text, c)) = EncodeText(text) \o Encode(c)
    <3>1. Append(text, c) \in Seq(Chars)
      BY AppendProperties
    <3>2. FlattenSeq(Mapped(f, Append(text, c))) = FlattenSeq(Mapped(f, text)) \o f[c]
      BY <1>8
    <3> QED BY <1>2, <1>4, <3>1, <3>2
  <2>3. ASSUME NEW more \in Seq(Chars)
        PROVE  EncodeText(text \o more) = EncodeText(text) \o EncodeText(more)
    <3>1. PICK v : v = text \o more
      OBVIOUS
    <3>2. v \in Seq(Chars)
      BY <3>1, ConcatProperties
    <3>3. FlattenSeq(Mapped(f, v)) = FlattenSeq(Mapped(f, text)) \o FlattenSeq(Mapped(f, more))
      BY <1>9, <3>1, <3>2
    <3>4. EncodeText(v) = EncodeText(text) \o EncodeText(more)
      BY <1>2, <3>2, <3>3
    <3> QED BY <3>1, <3>4
  <2> QED BY <2>1, <2>2, <2>3
<1> QED BY <1>5, <1>6

-----------------------------------------------------------------------------
(* What is decoded, and the bytes that are held back. *)

Text == Chars \cup {Replacement}

(* What may be undecided: at most three bytes, and if they lead a          *)
(* character, fewer than it has.                                           *)
Undecided ==
  {t \in Seq(Utf8Bytes) : Len(t) <= 3 /\ (t # <<>> /\ Leads(t[1]) => Len(t) < Width[t[1].of])}
Decoded == [text : Seq(Text), tail : Undecided]

LEMMA FeedType ==
  ASSUME NEW acc \in Decoded, NEW b \in Utf8Bytes
  PROVE  Feed(acc, b) \in Decoded
<1> DEFINE continues == /\ acc.tail # <<>> /\ Leads(acc.tail[1])
                        /\ b = [of |-> acc.tail[1].of, nth |-> Len(acc.tail) + 1]
           flushed == IF acc.tail = <<>> \/ continues THEN acc.text
                                                      ELSE Append(acc.text, Replacement)
           bytes == IF continues THEN Append(acc.tail, b) ELSE <<b>>
<1>1. /\ acc.text \in Seq(Text)
      /\ acc.tail \in Seq(Utf8Bytes)
      /\ Len(acc.tail) \in Nat
      /\ Len(acc.tail) <= 3
      /\ acc.tail # <<>> /\ Leads(acc.tail[1]) => Len(acc.tail) < Width[acc.tail[1].of]
  BY LenProperties DEF Decoded, Undecided
<1>2. /\ b.of \in Chars
      /\ b.nth \in 1 .. 4
      /\ b.nth <= Width[b.of]
      /\ Width[b.of] \in 1 .. 4
  BY WidthsAreUtf8 DEF Utf8Bytes, Bytes
<1>3. flushed \in Seq(Text)
  BY <1>1, AppendProperties DEF Text
<1>4. bytes \in Seq(Utf8Bytes)
  BY <1>1, AppendProperties
<1>5. Append(flushed, b.of) \in Seq(Text)
  <2>1. b.of \in Text
    BY <1>2 DEF Text
  <2> QED BY <1>3, <2>1, AppendProperties
<1>6. ~(Leads(bytes[1]) /\ Ends(b)) => bytes \in Undecided
  <2>1. CASE continues
    <3>1. bytes = Append(acc.tail, b) /\ Len(bytes) = Len(acc.tail) + 1
      BY <1>1, <2>1, AppendProperties
    <3>2. bytes[1] = acc.tail[1]
      <4>1. 1 \in 1 .. Len(acc.tail)
        BY <1>1, <2>1, EmptySeq
      <4> QED BY <1>1, <2>1, <4>1, AppendProperties
    <3>3. b.of = bytes[1].of /\ b.nth = Len(bytes)
      BY <2>1, <3>1, <3>2
    <3>4. Leads(bytes[1])
      BY <2>1, <3>2
    <3> HIDE DEF bytes, continues
    <3>5. ASSUME ~Ends(b) PROVE Len(bytes) < Width[bytes[1].of] /\ Len(bytes) <= 3
      BY <1>2, <3>3, <3>5 DEF Ends
    <3> QED BY <1>4, <3>4, <3>5 DEF Undecided
  <2>2. CASE ~continues
    <3>1. bytes = <<b>> /\ Len(bytes) = 1 /\ bytes[1] = b
      BY <2>2
    <3> HIDE DEF bytes, continues
    <3>2. ASSUME ~(Leads(b) /\ Ends(b)), Leads(b) PROVE Len(bytes) < Width[bytes[1].of]
      BY <1>2, <3>1, <3>2 DEF Ends, Leads
    <3> QED BY <1>4, <3>1, <3>2 DEF Undecided
  <2> QED BY <2>1, <2>2
<1>7. <<>> \in Undecided
  BY EmptySeq DEF Undecided
<1>8. Feed(acc, b) = IF Leads(bytes[1]) /\ Ends(b)
                       THEN [text |-> Append(flushed, b.of), tail |-> <<>>]
                       ELSE [text |-> flushed, tail |-> bytes]
  BY DEF Feed
<1> HIDE DEF bytes, continues, flushed
<1> QED BY <1>3, <1>5, <1>6, <1>7, <1>8 DEF Decoded

LEMMA DecodeIsFold ==
  ASSUME NEW bytes
  PROVE  Decode(bytes) = FeedFold!Fold([text |-> <<>>, tail |-> <<>>], bytes)
BY DEF Decode, FoldLeft, MapThenFoldSet, Max,
       FeedFold!Fold, FeedFold!MapThenFoldSet, FeedFold!Largest

(* However the bytes are damaged, at most three are held back.             *)
LEMMA DecodeType ==
  ASSUME NEW bytes \in Seq(Utf8Bytes)
  PROVE  Decode(bytes) \in Decoded
<1> DEFINE base == [text |-> <<>>, tail |-> <<>>]
<1>1. base \in Decoded
  BY EmptySeq DEF Decoded, Undecided
<1>2. \A a \in Decoded, b \in Utf8Bytes : Feed(a, b) \in Decoded
  BY FeedType
<1> HIDE DEF base
<1>3. FeedFold!Fold(base, bytes) \in Decoded
  BY <1>1, <1>2, FeedFold!FoldType
<1> QED BY <1>3, DecodeIsFold DEF base

-----------------------------------------------------------------------------
(* The lines that are taken of a text. *)

HasEnd(text) == \E i \in 1 .. Len(text) - 1 : text[i] = CR /\ text[i + 1] = LF
Whole == {text \in Seq(Text) : ~HasEnd(text)}
Taken == [lines : Seq(Whole), rest : Seq(Text), failed : BOOLEAN]
(* Of what is taken, no line holds a line end, nor does the rest.          *)
CleanlyTaken == {acc \in Taken : ~acc.failed => ~HasEnd(acc.rest)}

LEMMA CutType ==
  ASSUME NEW acc \in CleanlyTaken, NEW c \in Text
  PROVE  CutLine(acc, c) \in CleanlyTaken
<1>1. /\ acc.lines \in Seq(Whole)
      /\ acc.rest \in Seq(Text)
      /\ Len(acc.rest) \in Nat
      /\ acc.failed \in BOOLEAN
      /\ ~acc.failed => ~HasEnd(acc.rest)
  BY LenProperties DEF CleanlyTaken, Taken
<1>2. CASE EndsLine(acc, c)
  <2> DEFINE l == Front(acc.rest)
  <2>1. ~acc.failed /\ acc.rest # <<>>
    BY <1>2 DEF EndsLine
  <2>2. /\ l \in Seq(Text)
        /\ Len(l) = Len(acc.rest) - 1
        /\ \A i \in 1 .. Len(l) : l[i] = acc.rest[i]
    <3>1. Len(acc.rest) >= 1
      BY <1>1, <2>1, EmptySeq
    <3>2. \A i \in 1 .. Len(acc.rest) - 1 : acc.rest[i] \in Text
      BY <1>1, ElementOfSeq
    <3> QED BY <1>1, <3>1, <3>2, SubSeqProperties DEF Front
  <2>3. l \in Whole
    <3> HIDE DEF l
    <3>1. ASSUME NEW i \in 1 .. Len(l) - 1, l[i] = CR, l[i + 1] = LF PROVE FALSE
      <4>1. i \in 1 .. Len(l) /\ i + 1 \in 1 .. Len(l) /\ i \in 1 .. Len(acc.rest) - 1
        BY <1>1, <2>2
      <4>2. acc.rest[i] = CR /\ acc.rest[i + 1] = LF
        BY <2>2, <3>1, <4>1
      <4> QED BY <1>1, <2>1, <4>1, <4>2 DEF HasEnd
    <3> QED BY <2>2, <3>1 DEF Whole, HasEnd
  <2>4. (IF l = <<>> THEN acc.lines ELSE Append(acc.lines, l)) \in Seq(Whole)
    BY <1>1, <2>3, AppendProperties
  <2>5. <<>> \in Seq(Text) /\ ~HasEnd(<<>>)
    BY EmptySeq DEF HasEnd
  <2>6. Parses(l) \in BOOLEAN
    BY DEF Parses
  <2>7. CutLine(acc, c) = [lines |-> IF l = <<>> THEN acc.lines ELSE Append(acc.lines, l),
                           rest |-> <<>>, failed |-> ~Parses(l)]
    BY <1>2 DEF CutLine
  <2> HIDE DEF l
  <2> QED BY <2>4, <2>5, <2>6, <2>7 DEF CleanlyTaken, Taken
<1>3. CASE ~EndsLine(acc, c)
  <2> DEFINE more == Append(acc.rest, c)
  <2>1. /\ more \in Seq(Text)
        /\ Len(more) = Len(acc.rest) + 1
        /\ \A i \in 1 .. Len(acc.rest) : more[i] = acc.rest[i]
        /\ more[Len(acc.rest) + 1] = c
    BY <1>1, AppendProperties
  <2>2. CutLine(acc, c) = [lines |-> acc.lines, rest |-> more, failed |-> acc.failed]
    BY <1>3 DEF CutLine, CleanlyTaken, Taken
  <2> HIDE DEF more
  <2>3. ASSUME ~acc.failed, HasEnd(more) PROVE FALSE
    <3>1. PICK i \in 1 .. Len(more) - 1 : more[i] = CR /\ more[i + 1] = LF
      BY <2>3 DEF HasEnd
    <3>2. i \in 1 .. Len(acc.rest) /\ acc.rest[i] = CR
      BY <1>1, <2>1, <3>1
    <3>3. CASE i = Len(acc.rest)
      BY <1>1, <1>3, <2>1, <2>3, <3>1, <3>2, <3>3, EmptySeq DEF EndsLine, Last
    <3>4. CASE i # Len(acc.rest)
      <4>1. i + 1 \in 1 .. Len(acc.rest) /\ i \in 1 .. Len(acc.rest) - 1
        BY <1>1, <3>2, <3>4
      <4> QED BY <1>1, <2>1, <2>3, <3>1, <3>2, <4>1 DEF HasEnd
    <3> QED BY <3>3, <3>4
  <2> QED BY <1>1, <2>1, <2>2, <2>3 DEF CleanlyTaken, Taken
<1> QED BY <1>2, <1>3

Start == [lines |-> <<>>, rest |-> <<>>, failed |-> FALSE]

LEMMA StartType == Start \in CleanlyTaken
BY EmptySeq DEF Start, CleanlyTaken, Taken, HasEnd

LEMMA TakeIsFold ==
  ASSUME NEW text
  PROVE  TakeLines(text) = CutFold!Fold(Start, text)
BY DEF TakeLines, Start, FoldLeft, MapThenFoldSet, Max,
       CutFold!Fold, CutFold!MapThenFoldSet, CutFold!Largest

LEMMA CutFoldType ==
  ASSUME NEW acc \in CleanlyTaken, NEW text \in Seq(Text)
  PROVE  CutFold!Fold(acc, text) \in CleanlyTaken
<1>1. \A a \in CleanlyTaken, c \in Text : CutLine(a, c) \in CleanlyTaken
  BY CutType
<1> QED BY <1>1, CutFold!FoldType

LEMMA TakeType ==
  ASSUME NEW text \in Seq(Text)
  PROVE  TakeLines(text) \in CleanlyTaken
BY StartType, CutFoldType, TakeIsFold

-----------------------------------------------------------------------------
(* Every variable has its type. *)

EncodedType ==
  /\ unwritten \in Seq(Utf8Bytes) /\ delivered \in Seq(Utf8Bytes)
  /\ wire \in Seq(Utf8Bytes)
  /\ held \in Undecided
  /\ ~failed => ~HasEnd(messageBuffer)
  /\ returned \in Seq(Whole)

LEMMA LineEncodes ==
  ASSUME NEW l \in Lines \cup Requests
  PROVE  /\ l \in Seq(Chars)
         /\ l \o <<CR, LF>> \in Seq(Chars)
         /\ EncodeLine(l) \in Seq(Utf8Bytes)
<1>1. l \in Seq(Chars)
  BY LinesAreText, SeqMonotonic
<1>2. <<CR, LF>> \in Seq(Chars)
  BY LineEnd
<1>3. l \o <<CR, LF>> \in Seq(Chars)
  BY <1>1, <1>2, ConcatProperties
<1> QED BY <1>1, <1>3, EncodeTextType DEF EncodeLine

(* What is decoded is as much of the buffer as was read.                   *)
LEMMA ReceivedType ==
  ASSUME held \in Seq(Utf8Bytes), wire \in Seq(Utf8Bytes), NEW n \in 1 .. Len(wire)
  PROVE  Received(n) \in Seq(Utf8Bytes)
<1> DEFINE new == SubSeq(wire, 1, n)
           buffer == held \o new
<1>1. new \in Seq(Utf8Bytes) /\ Len(new) = n
  <2>1. \A i \in 1 .. n : wire[i] \in Utf8Bytes
    BY ElementOfSeq, LenProperties
  <2> QED BY <2>1, SubSeqProperties, LenProperties
<1>2. buffer \in Seq(Utf8Bytes) /\ Len(buffer) = Len(held) + n
  BY <1>1, ConcatProperties
<1>3. \A i \in 1 .. n : buffer[i] \in Utf8Bytes
  <2>1. \A i \in 1 .. n : i \in 1 .. Len(buffer)
    BY <1>2, LenProperties
  <2> HIDE DEF buffer
  <2> QED BY <1>2, <2>1, ElementOfSeq
<1> HIDE DEF new
<1> QED BY <1>3, SubSeqProperties DEF Received, new

LEMMA SuffixType ==
  ASSUME NEW S, NEW s \in Seq(S), NEW n \in 1 .. Len(s)
  PROVE  /\ SubSeq(s, 1, n) \in Seq(S) /\ Len(SubSeq(s, 1, n)) = n
         /\ SubSeq(s, n + 1, Len(s)) \in Seq(S) /\ Len(SubSeq(s, n + 1, Len(s))) = Len(s) - n
         /\ SubSeq(s, 1, n) \o SubSeq(s, n + 1, Len(s)) = s
<1>1. Len(s) \in Nat /\ n \in Nat /\ n <= Len(s)
  BY LenProperties
<1>2. \A i \in 1 .. Len(s) : s[i] \in S
  BY ElementOfSeq
<1>3. SubSeq(s, 1, n) \in Seq(S) /\ Len(SubSeq(s, 1, n)) = n
  BY <1>1, <1>2, SubSeqProperties
<1>4. SubSeq(s, n + 1, Len(s)) \in Seq(S) /\ Len(SubSeq(s, n + 1, Len(s))) = Len(s) - n
  <2>1. \A i \in n + 1 .. Len(s) : s[i] \in S
    BY <1>1, <1>2
  <2> QED BY <1>1, <2>1, SubSeqProperties
<1>5. SubSeq(s, 1, n) \o SubSeq(s, n + 1, Len(s)) = SubSeq(s, 1, Len(s))
  <2>1. 1 \in 1 .. Len(s) + 1 /\ n \in 1 - 1 .. Len(s) /\ Len(s) \in n .. Len(s)
    BY <1>1
  <2> QED BY <2>1, ConcatAdjacentSubSeq
<1> QED BY <1>3, <1>4, <1>5, SubSeqFull

(* The type invariant, of the bytes that occur, and what the lines hold.   *)
Typed ==
  /\ at \in {"write", "writing", "read"}
  /\ asked \in Seq(Requests)
  /\ retries \in Nat
  /\ sent \in Seq(Lines)
  /\ messageBuffer \in Seq(Text)
  /\ cut \in BOOLEAN /\ failed \in BOOLEAN
  /\ EncodedType

LEMMA TypedInit == Init => Typed
<1>1. ~HasEnd(<<>>) /\ <<>> \in Undecided
  BY EmptySeq DEF HasEnd, Undecided
<1>2. /\ <<>> \in Seq(Requests) /\ <<>> \in Seq(Lines) /\ <<>> \in Seq(Text)
      /\ <<>> \in Seq(Utf8Bytes) /\ <<>> \in Seq(Whole)
  BY EmptySeq
<1> SUFFICES ASSUME Init PROVE Typed
  OBVIOUS
<1>3. EncodedType
  BY <1>1, <1>2 DEF Init, EncodedType
<1>4. /\ at \in {"write", "writing", "read"} /\ retries \in Nat
      /\ cut \in BOOLEAN /\ failed \in BOOLEAN
  BY DEF Init
<1>5. asked \in Seq(Requests) /\ sent \in Seq(Lines) /\ messageBuffer \in Seq(Text)
  BY <1>2 DEF Init
<1> QED BY <1>3, <1>4, <1>5 DEF Typed

LEMMA TypedRecv ==
  ASSUME Typed, NEW n \in 1 .. BufferSize, Recv(n)
  PROVE  Typed'
<1> DEFINE decoded == Decode(Received(n))
           text == messageBuffer \o decoded.text
           taken == TakeLines(text)
<1>1. n \in 1 .. Len(wire)
  BY DEF Recv
<1>2. wire \in Seq(Utf8Bytes) /\ held \in Seq(Utf8Bytes)
  BY DEF Typed, EncodedType, Undecided
<1>3. decoded \in Decoded
  BY <1>1, <1>2, ReceivedType, DecodeType
<1>4. text \in Seq(Text)
  BY <1>3, ConcatProperties DEF Decoded, Typed
<1>5. taken \in CleanlyTaken
  BY <1>4, TakeType
<1>6. /\ wire' = SubSeq(wire, n + 1, Len(wire))
      /\ held' = decoded.tail
      /\ messageBuffer' = taken.rest
      /\ failed' = taken.failed
      /\ returned' = IF taken.failed THEN returned ELSE returned \o taken.lines
      /\ at' = "write" /\ retries' = 0 /\ cut' = (cut \/ ~Ends(wire[n]))
      /\ UNCHANGED <<asked, unwritten, delivered, sent>>
  BY DEF Recv, writeVars
<1> HIDE DEF decoded, text, taken
<1>7. wire' \in Seq(Utf8Bytes)
  BY <1>1, <1>2, <1>6, SuffixType
<1>8. held' \in Undecided
  BY <1>3, <1>6 DEF Decoded
<1>9. messageBuffer' \in Seq(Text) /\ failed' \in BOOLEAN /\ (~failed' => ~HasEnd(messageBuffer'))
  BY <1>5, <1>6 DEF CleanlyTaken, Taken
<1>10. returned' \in Seq(Whole)
  <2>1. taken.lines \in Seq(Whole)
    BY <1>5 DEF CleanlyTaken, Taken
  <2> QED BY <1>6, <2>1, ConcatProperties DEF Typed, EncodedType
<1>11. cut' \in BOOLEAN
  BY <1>6 DEF Typed, Ends
<1> QED BY <1>6, <1>7, <1>8, <1>9, <1>10, <1>11 DEF Typed, EncodedType

LEMMA TypedStep ==
  ASSUME Typed, [Next]_vars
  PROVE  Typed'
<1> USE DEF Typed, EncodedType, readVars, writeVars
<1>1. ASSUME NEW text \in Requests, Write(text) PROVE Typed'
  <2>1. Append(asked, text) \in Seq(Requests)
    BY AppendProperties
  <2>2. EncodeLine(text) \in Seq(Utf8Bytes)
    BY LineEncodes
  <2> QED BY <1>1, <2>1, <2>2 DEF Write
<1>2. CASE NothingToWrite
  BY <1>2 DEF NothingToWrite
<1>3. ASSUME NEW n \in 1 .. Len(unwritten), WriteBytes(n) PROVE Typed'
  <2>1. /\ SubSeq(unwritten, 1, n) \in Seq(Utf8Bytes)
        /\ SubSeq(unwritten, n + 1, Len(unwritten)) \in Seq(Utf8Bytes)
    BY SuffixType
  <2>2. delivered \o SubSeq(unwritten, 1, n) \in Seq(Utf8Bytes)
    BY <2>1, ConcatProperties
  <2> QED BY <1>3, <2>1, <2>2 DEF WriteBytes
<1>4. CASE WriteFails
  BY <1>4 DEF WriteFails, Fails
<1>5. ASSUME NEW n \in 1 .. BufferSize, Recv(n) PROVE Typed'
  BY <1>5, TypedRecv
<1>6. CASE NothingArrived
  BY <1>6 DEF NothingArrived
<1>7. CASE Interrupted
  <2>1. CASE Fails
    BY <2>1 DEF Fails
  <2>2. CASE retries' = retries + 1 /\ UNCHANGED <<at, failed, writeVars, readVars>>
    BY <2>2
  <2> QED BY <1>7, <2>1, <2>2 DEF Interrupted
<1>8. CASE RecvFails
  BY <1>8 DEF RecvFails, Fails
<1>9. ASSUME NEW l \in Lines, ServerSends(l) PROVE Typed'
  <2>1. Append(sent, l) \in Seq(Lines)
    BY AppendProperties
  <2>2. wire \o EncodeLine(l) \in Seq(Utf8Bytes)
    BY LineEncodes, ConcatProperties
  <2> QED BY <1>9, <2>1, <2>2 DEF ServerSends
<1>10. CASE UNCHANGED vars
  BY <1>10 DEF vars
<1> QED BY <1>1, <1>2, <1>3, <1>4, <1>5, <1>6, <1>7, <1>8, <1>9, <1>10 DEF Next

LEMMA TypedAlways == Spec => []Typed
BY TypedInit, TypedStep, PTL DEF Spec

LEMMA TypedIsTypeOK == Typed => TypeOK
<1> SUFFICES ASSUME Typed PROVE TypeOK
  OBVIOUS
<1>1. Utf8Bytes \subseteq Bytes
  BY DEF Utf8Bytes
<1>2. unwritten \in Seq(Bytes) /\ delivered \in Seq(Bytes) /\ wire \in Seq(Bytes)
  BY <1>1, SeqMonotonic DEF Typed, EncodedType
<1>3. held \in Seq(Bytes) /\ Len(held) <= 3
  BY <1>1, SeqMonotonic DEF Typed, EncodedType, Undecided
<1>4. returned \in Seq(Seq(Text))
  BY SeqMonotonic DEF Typed, EncodedType, Whole
<1> QED BY <1>2, <1>3, <1>4 DEF Typed, TypeOK, Text

(* Every variable has its type, and the next read has room in the buffer.  *)
THEOREM TypeCorrect == Spec => []TypeOK
BY TypedAlways, TypedIsTypeOK, PTL

LEMMA TypedIsClean == Typed => LineEndsEndLines
<1> SUFFICES ASSUME Typed PROVE LineEndsEndLines
  OBVIOUS
<1>1. \A i \in DOMAIN returned : ~HasEnd(returned[i])
  BY LenProperties, ElementOfSeq DEF Typed, EncodedType, Whole
<1> QED BY <1>1 DEF LineEndsEndLines, HasEnd, Typed, EncodedType

(* No line end gets into a message or stays in message_buffer, whatever    *)
(* is received.                                                            *)
THEOREM LineEndsEnd == Spec => []LineEndsEndLines
BY TypedAlways, TypedIsClean, PTL

-----------------------------------------------------------------------------
(* What is written. *)

(* The bytes of the lines that were to be written.                         *)
AskedBytes(lines) == FlattenSeq([i \in DOMAIN lines |-> EncodeLine(lines[i])])

LEMMA AskedAppend ==
  /\ AskedBytes(<<>>) = <<>>
  /\ \A lines \in Seq(Requests) :
       /\ AskedBytes(lines) \in Seq(Utf8Bytes)
       /\ \A l \in Requests : AskedBytes(Append(lines, l)) = AskedBytes(lines) \o EncodeLine(l)
<1> DEFINE f == [l \in Requests |-> EncodeLine(l)]
<1>1. f \in [Requests -> Seq(Utf8Bytes)]
  BY LineEncodes
<1>2. ASSUME NEW lines \in Seq(Requests) PROVE AskedBytes(lines) = FlattenSeq(Mapped(f, lines))
  <2>1. \A i \in DOMAIN lines : lines[i] \in Requests
    BY ElementOfSeq, LenProperties
  <2>2. [i \in DOMAIN lines |-> EncodeLine(lines[i])] = Mapped(f, lines)
    BY <2>1 DEF Mapped
  <2> QED BY <2>2 DEF AskedBytes
<1>3. <<>> \in Seq(Requests)
  BY EmptySeq
<1>4. \A l \in Requests : f[l] = EncodeLine(l)
  OBVIOUS
<1> HIDE DEF f
<1>8. /\ FlattenSeq(Mapped(f, <<>>)) = <<>>
      /\ \A s \in Seq(Requests) : /\ FlattenSeq(Mapped(f, s)) \in Seq(Utf8Bytes)
                             /\ \A e \in Requests : FlattenSeq(Mapped(f, Append(s, e)))
                                               = FlattenSeq(Mapped(f, s)) \o f[e]
  BY <1>1, FlattenMapped
<1>5. AskedBytes(<<>>) = <<>>
  BY <1>8, <1>2, <1>3
<1>6. ASSUME NEW lines \in Seq(Requests), NEW l \in Requests
      PROVE  AskedBytes(Append(lines, l)) = AskedBytes(lines) \o EncodeLine(l)
  <2>1. Append(lines, l) \in Seq(Requests)
    BY AppendProperties
  <2>2. FlattenSeq(Mapped(f, Append(lines, l))) = FlattenSeq(Mapped(f, lines)) \o f[l]
    BY <1>8
  <2> QED BY <1>2, <1>4, <2>1, <2>2
<1>7. ASSUME NEW lines \in Seq(Requests) PROVE AskedBytes(lines) \in Seq(Utf8Bytes)
  BY <1>2, <1>8
<1> QED BY <1>5, <1>6, <1>7

(* What has been taken of a message and what has not make it up.           *)
LEMMA RequestsStep ==
  ASSUME Typed, RequestsArrive, [Next]_vars
  PROVE  RequestsArrive'
<1> USE DEF RequestsArrive, AskedBytes, readVars, writeVars
<1>0. /\ unwritten \in Seq(Utf8Bytes) /\ delivered \in Seq(Utf8Bytes)
      /\ asked \in Seq(Requests)
  BY DEF Typed, EncodedType
<1>1. ASSUME NEW text \in Requests, Write(text) PROVE RequestsArrive'
  <2>1. /\ asked' = Append(asked, text)
        /\ unwritten' = EncodeLine(text) /\ delivered' = delivered
        /\ unwritten = <<>> /\ at' = "writing"
    BY <1>1 DEF Write
  <2>2. delivered = AskedBytes(asked)
    BY <1>0, <2>1, ConcatEmptySeq
  <2>3. delivered' \o unwritten' = AskedBytes(Append(asked, text))
    BY <1>0, <2>1, <2>2, AskedAppend
  <2> QED BY <2>1, <2>3
<1>2. CASE NothingToWrite
  BY <1>2 DEF NothingToWrite
<1>3. ASSUME NEW n \in 1 .. Len(unwritten), WriteBytes(n) PROVE RequestsArrive'
  <2> DEFINE now == SubSeq(unwritten, 1, n)
             later == SubSeq(unwritten, n + 1, Len(unwritten))
  <2>1. /\ delivered' = delivered \o now /\ unwritten' = later /\ asked' = asked
        /\ at' = IF n = Len(unwritten) THEN "read" ELSE "writing"
    BY <1>3 DEF WriteBytes
  <2>2. /\ now \in Seq(Utf8Bytes) /\ later \in Seq(Utf8Bytes) /\ now \o later = unwritten
        /\ Len(later) = Len(unwritten) - n
    BY <1>0, SuffixType
  <2> HIDE DEF now, later
  <2>3. (delivered \o now) \o later = delivered \o unwritten
    <3>1. (delivered \o now) \o later = delivered \o (now \o later)
      <4>1. delivered \in Seq(Utf8Bytes) /\ now \in Seq(Utf8Bytes) /\ later \in Seq(Utf8Bytes)
        BY <1>0, <2>2
      <4> QED BY ONLY <4>1, ConcatAssociative
    <3> QED BY <2>2, <3>1
  <2>4. n = Len(unwritten) => later = <<>>
    BY <1>0, <2>2, LenProperties, EmptySeq
  <2> QED BY <2>1, <2>3, <2>4
<1>4. CASE WriteFails
  BY <1>4 DEF WriteFails, Fails
<1>5. ASSUME NEW n \in 1 .. BufferSize, Recv(n) PROVE RequestsArrive'
  BY <1>5 DEF Recv
<1>6. CASE NothingArrived
  BY <1>6 DEF NothingArrived
<1>7. CASE Interrupted
  BY <1>7 DEF Interrupted, Fails
<1>8. CASE RecvFails
  BY <1>8 DEF RecvFails, Fails
<1>9. ASSUME NEW l \in Lines, ServerSends(l) PROVE RequestsArrive'
  BY <1>9 DEF ServerSends
<1>10. CASE UNCHANGED vars
  BY <1>10 DEF vars
<1> QED BY <1>1, <1>2, <1>3, <1>4, <1>5, <1>6, <1>7, <1>8, <1>9, <1>10 DEF Next

(* The server gets the lines that were to be written, whole and in order,  *)
(* in however many pieces the connection takes them.                       *)
THEOREM RequestsDelivered == Spec => []RequestsArrive
<1>1. Init => RequestsArrive
  <2>1. Init => asked = <<>> /\ unwritten = <<>> /\ delivered = <<>>
    BY DEF Init
  <2>2. <<>> \o <<>> = AskedBytes(<<>>)
    BY AskedAppend
  <2> QED BY <2>1, <2>2 DEF RequestsArrive, AskedBytes
<1> QED BY <1>1, RequestsStep, TypedAlways, PTL DEF Spec

-----------------------------------------------------------------------------
(* What is not damaged is decoded as it was encoded. *)

(* The first k bytes of a character.                                       *)
FirstBytes(c, k) == [i \in 1 .. k |-> [of |-> c, nth |-> i]]

LEMMA FirstBytesType ==
  ASSUME NEW c \in Chars
  PROVE  /\ FirstBytes(c, 0) = <<>>
         /\ FirstBytes(c, Width[c]) = Encode(c)
         /\ \A k \in 0 .. Width[c] : /\ FirstBytes(c, k) \in Seq(Utf8Bytes)
                                     /\ Len(FirstBytes(c, k)) = k
                                     /\ k # 0 => FirstBytes(c, k)[1] = [of |-> c, nth |-> 1]
         /\ \A k \in 0 .. Width[c] - 1 : FirstBytes(c, k + 1)
                                           = Append(FirstBytes(c, k), [of |-> c, nth |-> k + 1])
<1>1. Width[c] \in 1 .. 4
  BY WidthsAreUtf8
<1>2. FirstBytes(c, 0) = <<>>
  BY DEF FirstBytes
<1>3. FirstBytes(c, Width[c]) = Encode(c)
  BY DEF FirstBytes, Encode
<1>4. ASSUME NEW k \in 0 .. Width[c]
      PROVE  /\ FirstBytes(c, k) \in Seq(Utf8Bytes)
             /\ Len(FirstBytes(c, k)) = k
             /\ k # 0 => FirstBytes(c, k)[1] = [of |-> c, nth |-> 1]
  <2>1. k \in Nat /\ \A i \in 1 .. k : [of |-> c, nth |-> i] \in Utf8Bytes
    BY <1>1 DEF Utf8Bytes, Bytes
  <2> QED BY <2>1 DEF FirstBytes
<1>5. ASSUME NEW k \in 0 .. Width[c] - 1
      PROVE  FirstBytes(c, k + 1) = Append(FirstBytes(c, k), [of |-> c, nth |-> k + 1])
  <2> DEFINE b == [of |-> c, nth |-> k + 1]
             s == FirstBytes(c, k)
             u == FirstBytes(c, k + 1)
  <2>1. k \in 0 .. Width[c] /\ k + 1 \in 0 .. Width[c] /\ b \in Utf8Bytes
    BY <1>1 DEF Utf8Bytes, Bytes
  <2>2. s \in Seq(Utf8Bytes) /\ Len(s) = k /\ u \in Seq(Utf8Bytes) /\ Len(u) = k + 1
    BY <1>4, <2>1
  <2>3. /\ \A i \in 1 .. k : s[i] = [of |-> c, nth |-> i]
        /\ \A i \in 1 .. k + 1 : u[i] = [of |-> c, nth |-> i]
    BY DEF FirstBytes
  <2> HIDE DEF s, u
  <2>4. /\ Append(s, b) \in Seq(Utf8Bytes)
        /\ Len(Append(s, b)) = k + 1
        /\ \A i \in 1 .. k : Append(s, b)[i] = s[i]
        /\ Append(s, b)[k + 1] = b
    BY <2>1, <2>2, AppendProperties
  <2>5. ASSUME NEW i \in 1 .. k + 1 PROVE u[i] = Append(s, b)[i]
    <3>1. i \in 1 .. k \/ i = k + 1
      BY <1>1
    <3> QED BY <2>3, <2>4, <3>1
  <2>6. u = Append(s, b)
    BY <2>2, <2>4, <2>5, SeqEqual
  <2> QED BY <2>6 DEF s, u
<1> QED BY <1>2, <1>3, <1>4, <1>5

LEMMA FeedNext ==
  ASSUME NEW text \in Seq(Text), NEW c \in Chars, NEW k \in 0 .. Width[c] - 1
  PROVE  Feed([text |-> text, tail |-> FirstBytes(c, k)], [of |-> c, nth |-> k + 1])
           = IF k + 1 = Width[c] THEN [text |-> Append(text, c), tail |-> <<>>]
                                 ELSE [text |-> text, tail |-> FirstBytes(c, k + 1)]
<1> DEFINE acc == [text |-> text, tail |-> FirstBytes(c, k)]
           b == [of |-> c, nth |-> k + 1]
           continues == /\ acc.tail # <<>> /\ Leads(acc.tail[1])
                        /\ b = [of |-> acc.tail[1].of, nth |-> Len(acc.tail) + 1]
           flushed == IF acc.tail = <<>> \/ continues THEN acc.text
                                                      ELSE Append(acc.text, Replacement)
           bytes == IF continues THEN Append(acc.tail, b) ELSE <<b>>
<1>1. /\ Width[c] \in 1 .. 4
      /\ k \in 0 .. Width[c] /\ k + 1 \in 0 .. Width[c] /\ k + 1 # 0
  BY WidthsAreUtf8
<1>2. acc.text = text /\ acc.tail = FirstBytes(c, k) /\ Len(acc.tail) = k
  BY <1>1, FirstBytesType
<1>3. flushed = text /\ bytes = FirstBytes(c, k + 1)
  <2>1. CASE k = 0
    <3>1. acc.tail = <<>>
      BY <1>2, <2>1, FirstBytesType
    <3>2. FirstBytes(c, k + 1) = <<b>>
      BY <2>1 DEF FirstBytes
    <3> QED BY <1>2, <3>1, <3>2
  <2>2. CASE k # 0
    <3>1. acc.tail # <<>> /\ acc.tail[1] = [of |-> c, nth |-> 1]
      BY <1>1, <1>2, <2>2, FirstBytesType, EmptySeq
    <3>2. continues
      BY <1>2, <3>1 DEF Leads
    <3>3. Append(acc.tail, b) = FirstBytes(c, k + 1)
      BY <1>2, FirstBytesType
    <3> HIDE DEF acc, b
    <3> QED BY <1>2, <3>2, <3>3
  <2> QED BY <2>1, <2>2
<1>4. bytes[1] = [of |-> c, nth |-> 1]
  BY <1>1, <1>3, FirstBytesType
<1>5. Leads(bytes[1]) /\ (Ends(b) <=> k + 1 = Width[c]) /\ b.of = c
  BY <1>4 DEF Leads, Ends
<1>6. Feed(acc, b) = IF Leads(bytes[1]) /\ Ends(b)
                       THEN [text |-> Append(flushed, b.of), tail |-> <<>>]
                       ELSE [text |-> flushed, tail |-> bytes]
  BY DEF Feed
<1> HIDE DEF bytes, flushed, continues
<1> QED BY <1>3, <1>5, <1>6

LEMMA FeedCharacter ==
  ASSUME NEW text \in Seq(Text), NEW c \in Chars
  PROVE  FeedFold!Fold([text |-> text, tail |-> <<>>], Encode(c))
           = [text |-> Append(text, c), tail |-> <<>>]
<1> DEFINE base == [text |-> text, tail |-> <<>>]
           F(s) == FeedFold!Fold(base, s)
           T == {k \in Nat : k < Width[c] =>
                   F(FirstBytes(c, k)) = [text |-> text, tail |-> FirstBytes(c, k)]}
<1>1. Width[c] \in 1 .. 4
  BY WidthsAreUtf8
<1>2. ASSUME NEW k \in 0 .. Width[c] - 1
      PROVE  F(FirstBytes(c, k + 1)) = Feed(F(FirstBytes(c, k)), [of |-> c, nth |-> k + 1])
  <2>1. FirstBytes(c, k) \in Seq(Utf8Bytes) /\ [of |-> c, nth |-> k + 1] \in Utf8Bytes
    <3>1. k \in 0 .. Width[c] /\ k + 1 \in 1 .. 4 /\ k + 1 <= Width[c]
      BY <1>1
    <3> QED BY <3>1, FirstBytesType DEF Utf8Bytes, Bytes
  <2> HIDE DEF base
  <2>2. F(Append(FirstBytes(c, k), [of |-> c, nth |-> k + 1]))
          = Feed(F(FirstBytes(c, k)), [of |-> c, nth |-> k + 1])
    BY <2>1, FeedFold!FoldAppend
  <2> QED BY <2>2, FirstBytesType
<1>3. 0 \in T
  BY FirstBytesType, FeedFold!FoldEmpty
<1>4. ASSUME NEW k \in T PROVE k + 1 \in T
  <2> SUFFICES ASSUME k + 1 < Width[c]
               PROVE  F(FirstBytes(c, k + 1)) = [text |-> text, tail |-> FirstBytes(c, k + 1)]
    OBVIOUS
  <2>1. k \in 0 .. Width[c] - 1 /\ k < Width[c] /\ k + 1 # Width[c]
    BY <1>1
  <2>2. F(FirstBytes(c, k)) = [text |-> text, tail |-> FirstBytes(c, k)]
    BY <2>1
  <2> HIDE DEF F, T
  <2> QED BY <1>2, <2>1, <2>2, FeedNext
<1> HIDE DEF T
<1>5. T = Nat
  <2>1. T \subseteq Nat
    BY DEF T
  <2> QED BY <1>3, <1>4, <2>1, NatSetInduction
<1>6. F(FirstBytes(c, Width[c])) = [text |-> Append(text, c), tail |-> <<>>]
  <2> DEFINE k == Width[c] - 1
  <2>1. k \in 0 .. Width[c] - 1 /\ k \in Nat /\ k < Width[c] /\ k + 1 = Width[c]
    BY <1>1
  <2>2. F(FirstBytes(c, k)) = [text |-> text, tail |-> FirstBytes(c, k)]
    BY <1>5, <2>1 DEF T
  <2> HIDE DEF F, k
  <2> QED BY <1>2, <2>1, <2>2, FeedNext
<1> QED BY <1>6, FirstBytesType

(* Whole characters are decoded to themselves, and nothing is held back.   *)
LEMMA DecodeEncoded ==
  ASSUME NEW text \in Seq(Chars)
  PROVE  Decode(EncodeText(text)) = [text |-> text, tail |-> <<>>]
<1> DEFINE base == [text |-> <<>>, tail |-> <<>>]
           T == {t \in Seq(Chars) :
                   FeedFold!Fold(base, EncodeText(t)) = [text |-> t, tail |-> <<>>]}
<1>1. <<>> \in T
  BY EncodeTextType, EmptySeq, FeedFold!FoldEmpty
<1>2. ASSUME NEW t \in Seq(Chars), t \in T, NEW c \in Chars PROVE Append(t, c) \in T
  <2>1. EncodeText(t) \in Seq(Utf8Bytes) /\ Encode(c) \in Seq(Utf8Bytes)
    BY EncodeTextType, EncodeType
  <2>2. FeedFold!Fold(base, EncodeText(t)) = [text |-> t, tail |-> <<>>]
    BY <1>2
  <2> HIDE DEF base
  <2>3. FeedFold!Fold(base, EncodeText(t) \o Encode(c))
          = FeedFold!Fold(FeedFold!Fold(base, EncodeText(t)), Encode(c))
    BY <2>1, FeedFold!FoldConcat
  <2>4. t \in Seq(Text)
    BY SeqMonotonic DEF Text
  <2>5. FeedFold!Fold([text |-> t, tail |-> <<>>], Encode(c))
          = [text |-> Append(t, c), tail |-> <<>>]
    BY <2>4, FeedCharacter
  <2>6. EncodeText(Append(t, c)) = EncodeText(t) \o Encode(c)
    BY EncodeTextType
  <2>7. Append(t, c) \in Seq(Chars)
    BY AppendProperties
  <2> QED BY <2>2, <2>3, <2>5, <2>6, <2>7
<1> HIDE DEF T
<1>3. Seq(Chars) \subseteq T
  BY <1>1, <1>2, SeqSetInduction
<1> QED BY <1>3, DecodeIsFold DEF T

(* The bytes up to one that ends a character are those of a part of the    *)
(* text.                                                                   *)
LEMMA SplitAtCharacter ==
  ASSUME NEW text \in Seq(Chars), NEW n \in 1 .. Len(EncodeText(text)), Ends(EncodeText(text)[n])
  PROVE  \E a, b \in Seq(Chars) : text = a \o b /\ Len(EncodeText(a)) = n
<1> DEFINE Split(t, k) == \E a, b \in Seq(Chars) : t = a \o b /\ Len(EncodeText(a)) = k
           T == {t \in Seq(Chars) :
                   \A k \in 1 .. Len(EncodeText(t)) : Ends(EncodeText(t)[k]) => Split(t, k)}
<1>1. <<>> \in T
  <2>1. EncodeText(<<>>) = <<>> /\ <<>> \in Seq(Chars) /\ Len(<<>>) = 0
    BY EncodeTextType, EmptySeq
  <2>2. 1 .. Len(EncodeText(<<>>)) = {}
    BY <2>1
  <2> QED BY <2>1, <2>2
<1>2. ASSUME NEW t \in Seq(Chars), t \in T, NEW c \in Chars PROVE Append(t, c) \in T
  <2> DEFINE e == EncodeText(t)
             w == Width[c]
             all == EncodeText(Append(t, c))
  <2>1. /\ e \in Seq(Utf8Bytes) /\ Encode(c) \in Seq(Utf8Bytes) /\ Len(Encode(c)) = w
        /\ Len(e) \in Nat /\ w \in 1 .. 4
    BY EncodeTextType, EncodeType, LenProperties
  <2>2. /\ all = e \o Encode(c)
        /\ Len(all) = Len(e) + w
        /\ \A i \in 1 .. Len(e) + w : all[i] = IF i <= Len(e) THEN e[i] ELSE Encode(c)[i - Len(e)]
    <3>1. all = e \o Encode(c)
      BY EncodeTextType
    <3> HIDE DEF all, e, w
    <3> QED BY <2>1, <3>1, ConcatProperties
  <2>3. Append(t, c) \in Seq(Chars)
    BY AppendProperties
  <2>4. ASSUME NEW k \in 1 .. Len(all), Ends(all[k]) PROVE Split(Append(t, c), k)
    <3> HIDE DEF e, all, w
    <3>1. CASE k <= Len(e)
      <4>1. k \in 1 .. Len(e) /\ Ends(e[k])
        BY <2>1, <2>2, <2>4, <3>1
      <4>2. PICK a \in Seq(Chars), b \in Seq(Chars) : t = a \o b /\ Len(EncodeText(a)) = k
        BY <1>2, <4>1 DEF e
      <4>3. Append(b, c) \in Seq(Chars)
        BY AppendProperties
      <4>4. a \o Append(b, c) = Append(t, c)
        BY <4>2, ConcatAppend
      <4> QED BY <4>2, <4>3, <4>4
    <3>2. CASE ~(k <= Len(e))
      <4> DEFINE i == k - Len(e)
      <4>1. i \in 1 .. w /\ k \in 1 .. Len(e) + w
        BY <2>1, <2>2, <3>2
      <4>2. all[k] = [of |-> c, nth |-> i]
        <5>1. all[k] = Encode(c)[i]
          BY <2>2, <3>2, <4>1
        <5> HIDE DEF i
        <5> QED BY <4>1, <5>1, EncodeType DEF w
      <4>3. i = w
        BY <2>4, <4>2 DEF Ends, w
      <4>4. k = Len(all)
        BY <2>1, <2>2, <4>1, <4>3
      <4>5. Append(t, c) \o <<>> = Append(t, c) /\ <<>> \in Seq(Chars)
        BY <2>3, ConcatEmptySeq, EmptySeq
      <4> QED BY <2>3, <4>4, <4>5 DEF all
    <3> QED BY <3>1, <3>2
  <2> HIDE DEF Split
  <2> QED BY <2>3, <2>4
<1> HIDE DEF T
<1>3. Seq(Chars) \subseteq T
  BY <1>1, <1>2, SeqSetInduction
<1> QED BY <1>3 DEF T

-----------------------------------------------------------------------------
(* The lines of a text that comes in parts. *)

(* After a line that does not parse nothing more is taken.                 *)
LEMMA FailedStays ==
  ASSUME NEW acc \in CleanlyTaken, acc.failed, NEW text \in Seq(Text)
  PROVE  LET r == CutFold!Fold(acc, text) IN r.failed /\ r.lines = acc.lines
<1> DEFINE T == {t \in Seq(Text) : LET r == CutFold!Fold(acc, t)
                                   IN  r.failed /\ r.lines = acc.lines}
<1>1. <<>> \in T
  BY EmptySeq, CutFold!FoldEmpty
<1>2. ASSUME NEW t \in Seq(Text), t \in T, NEW c \in Text PROVE Append(t, c) \in T
  <2> DEFINE r == CutFold!Fold(acc, t)
  <2>1. r \in CleanlyTaken
    BY CutFoldType
  <2>2. r.failed /\ r.lines = acc.lines
    BY <1>2
  <2>3. CutFold!Fold(acc, Append(t, c)) = CutLine(r, c)
    BY CutFold!FoldAppend
  <2> HIDE DEF r
  <2>4. CutLine(r, c).failed /\ CutLine(r, c).lines = acc.lines
    BY <2>1, <2>2 DEF CutLine, EndsLine, CleanlyTaken, Taken
  <2> QED BY <2>3, <2>4, AppendProperties
<1> HIDE DEF T
<1>3. Seq(Text) \subseteq T
  BY <1>1, <1>2, SeqSetInduction
<1> QED BY <1>3 DEF T

(* acc with the lines before its own.                                      *)
After(lines, acc) == [lines |-> lines \o acc.lines, rest |-> acc.rest, failed |-> acc.failed]

LEMMA CutAfter ==
  ASSUME NEW lines \in Seq(Whole), NEW acc \in CleanlyTaken, NEW c \in Text
  PROVE  CutLine(After(lines, acc), c) = After(lines, CutLine(acc, c))
<1>1. acc = [lines |-> acc.lines, rest |-> acc.rest, failed |-> acc.failed]
  BY DEF CleanlyTaken, Taken
<1>2. CASE ~EndsLine(acc, c)
  BY <1>1, <1>2 DEF CutLine, EndsLine, After
<1>3. CASE EndsLine(acc, c)
  <2> DEFINE l == Front(acc.rest)
  <2>1. EndsLine(After(lines, acc), c) /\ After(lines, acc).rest = acc.rest
    BY <1>3 DEF EndsLine, After
  <2>2. CutLine(acc, c) \in CleanlyTaken
    BY CutType
  <2>3. CutLine(acc, c) = [lines |-> IF l = <<>> THEN acc.lines ELSE Append(acc.lines, l),
                           rest |-> <<>>, failed |-> ~Parses(l)]
    BY <1>3 DEF CutLine
  <2>4. CutLine(After(lines, acc), c)
          = [lines |-> IF l = <<>> THEN lines \o acc.lines ELSE Append(lines \o acc.lines, l),
             rest |-> <<>>, failed |-> ~Parses(l)]
    BY <2>1 DEF CutLine, After
  <2>5. acc.lines \in Seq(Whole)
    BY DEF CleanlyTaken, Taken
  <2>6. l # <<>> => Append(lines \o acc.lines, l) = lines \o Append(acc.lines, l)
    <3> SUFFICES ASSUME l # <<>> PROVE Append(lines \o acc.lines, l) = lines \o Append(acc.lines, l)
      OBVIOUS
    <3>1. Append(acc.lines, l) \in Seq(Whole) /\ Len(Append(acc.lines, l)) = Len(acc.lines) + 1
      <4>1. Append(acc.lines, l) \in Seq(Whole)
        BY <2>2, <2>3 DEF CleanlyTaken, Taken
      <4> HIDE DEF l
      <4> QED BY <2>5, <4>1
    <3>2. l \in Whole
      <4> HIDE DEF l
      <4>1. Append(acc.lines, l)[Len(acc.lines) + 1] = l /\ Len(acc.lines) \in Nat
        BY <2>5
      <4> QED BY <3>1, <4>1, ElementOfSeq
    <3>3. \A old \in Seq(Whole), k \in Whole : lines \o Append(old, k) = Append(lines \o old, k)
      BY ConcatAppend
    <3> HIDE DEF l
    <3> QED BY <2>5, <3>2, <3>3
  <2> DEFINE cutAcc == CutLine(acc, c)
             cutAfter == CutLine(After(lines, acc), c)
  <2> HIDE DEF l, cutAcc, cutAfter
  <2>7. /\ cutAcc = [lines |-> IF l = <<>> THEN acc.lines ELSE Append(acc.lines, l),
                      rest |-> <<>>, failed |-> ~Parses(l)]
        /\ cutAfter = [lines |-> IF l = <<>> THEN lines \o acc.lines ELSE Append(lines \o acc.lines, l),
                        rest |-> <<>>, failed |-> ~Parses(l)]
    BY <2>3, <2>4 DEF cutAcc, cutAfter
  <2>8. cutAfter = After(lines, cutAcc)
    BY <2>6, <2>7 DEF After
  <2> QED BY <2>8 DEF cutAcc, cutAfter
<1> QED BY <1>2, <1>3

LEMMA AfterType ==
  ASSUME NEW lines \in Seq(Whole), NEW acc \in CleanlyTaken
  PROVE  After(lines, acc) \in CleanlyTaken
BY ConcatProperties DEF After, CleanlyTaken, Taken

LEMMA FoldAfter ==
  ASSUME NEW lines \in Seq(Whole), NEW acc \in CleanlyTaken, NEW text \in Seq(Text)
  PROVE  CutFold!Fold(After(lines, acc), text) = After(lines, CutFold!Fold(acc, text))
<1> DEFINE F(t) == CutFold!Fold(acc, t)
           G(t) == CutFold!Fold(After(lines, acc), t)
           T == {t \in Seq(Text) : G(t) = After(lines, F(t))}
<1>1. <<>> \in T
  BY EmptySeq, CutFold!FoldEmpty
<1>2. ASSUME NEW t \in Seq(Text), t \in T, NEW c \in Text PROVE Append(t, c) \in T
  <2>1. F(t) \in CleanlyTaken
    BY CutFoldType
  <2>2. F(Append(t, c)) = CutLine(F(t), c) /\ G(Append(t, c)) = CutLine(G(t), c)
    BY CutFold!FoldAppend
  <2>3. G(t) = After(lines, F(t))
    BY <1>2
  <2>4. Append(t, c) \in Seq(Text)
    BY AppendProperties
  <2> HIDE DEF F, G
  <2> QED BY <2>1, <2>2, <2>3, <2>4, CutAfter
<1> HIDE DEF T
<1>3. Seq(Text) \subseteq T
  BY <1>1, <1>2, SeqSetInduction
<1> QED BY <1>3 DEF T

LEMMA CutNothing ==
  ASSUME NEW acc, NEW c, ~EndsLine(acc, c),
         acc = [lines |-> acc.lines, rest |-> acc.rest, failed |-> FALSE]
  PROVE  CutLine(acc, c) = [lines |-> acc.lines, rest |-> Append(acc.rest, c), failed |-> FALSE]
<1> DEFINE lines == acc.lines
           rest == acc.rest
<1>1. acc = [lines |-> lines, rest |-> rest, failed |-> FALSE] /\ ~EndsLine(acc, c)
  OBVIOUS
<1> HIDE DEF lines, rest
<1>2. CutLine(acc, c) = [lines |-> lines, rest |-> Append(rest, c), failed |-> FALSE]
  BY <1>1 DEF CutLine
<1> QED BY <1>2 DEF lines, rest

(* The rest of a text is one without a line in it.                         *)
LEMMA RestIsRest ==
  ASSUME NEW text \in Seq(Text), ~TakeLines(text).failed
  PROVE  TakeLines(TakeLines(text).rest)
           = [lines |-> <<>>, rest |-> TakeLines(text).rest, failed |-> FALSE]
<1> DEFINE F(t) == CutFold!Fold(Start, t)
           T == {t \in Seq(Text) : ~F(t).failed =>
                   F(F(t).rest) = [lines |-> <<>>, rest |-> F(t).rest, failed |-> FALSE]}
<1>1. F(<<>>) = Start
  BY CutFold!FoldEmpty
<1>2. <<>> \in T
  <2>1. <<>> \in Seq(Text)
    BY EmptySeq
  <2>2. F(<<>>).rest = <<>>
    BY <1>1 DEF Start
  <2>3. F(F(<<>>).rest) = Start
    BY <1>1, <2>2
  <2> HIDE DEF F
  <2> QED BY <2>1, <2>2, <2>3 DEF Start
<1>3. ASSUME NEW t \in Seq(Text), t \in T, NEW c \in Text PROVE Append(t, c) \in T
  <2> DEFINE r == F(t)
  <2>1. r \in CleanlyTaken
    BY StartType, CutFoldType
  <2>2. F(Append(t, c)) = CutLine(r, c)
    BY CutFold!FoldAppend
  <2>3. ~r.failed => F(r.rest) = [lines |-> <<>>, rest |-> r.rest, failed |-> FALSE]
    BY <1>3
  <2>4. r.rest \in Seq(Text)
    BY <2>1 DEF CleanlyTaken, Taken
  <2>5. F(Append(r.rest, c)) = CutLine(F(r.rest), c)
    <3> HIDE DEF r
    <3> QED BY <2>4, CutFold!FoldAppend
  <2> HIDE DEF F, r
  <2>6. ASSUME ~CutLine(r, c).failed
        PROVE  F(CutLine(r, c).rest)
                 = [lines |-> <<>>, rest |-> CutLine(r, c).rest, failed |-> FALSE]
    <3>1. CASE EndsLine(r, c)
      <4>1. CutLine(r, c).rest = <<>>
        BY <3>1 DEF CutLine
      <4> QED BY <1>1, <4>1 DEF Start
    <3>2. CASE ~EndsLine(r, c)
      <4>1. CutLine(r, c).rest = Append(r.rest, c) /\ ~r.failed
        BY <2>1, <2>6, <3>2 DEF CutLine, CleanlyTaken, Taken
      <4>2. F(r.rest) = [lines |-> <<>>, rest |-> r.rest, failed |-> FALSE]
        BY <2>3, <4>1
      <4>3. ~EndsLine(F(r.rest), c)
        BY <3>2, <4>1, <4>2 DEF EndsLine
      <4>4. CutLine(F(r.rest), c)
              = [lines |-> <<>>, rest |-> Append(r.rest, c), failed |-> FALSE]
        <5> DEFINE g == F(r.rest)
        <5>1. g = [lines |-> <<>>, rest |-> r.rest, failed |-> FALSE] /\ ~EndsLine(g, c)
          BY <4>2, <4>3
        <5> HIDE DEF g
        <5>2. g.lines = <<>> /\ g.rest = r.rest
          BY <5>1
        <5>3. CutLine(g, c) = [lines |-> g.lines, rest |-> Append(g.rest, c), failed |-> FALSE]
          BY ONLY <5>1, <5>2, CutNothing
        <5> QED BY <5>2, <5>3 DEF g
      <4> QED BY <2>5, <4>1, <4>4
    <3> QED BY <3>1, <3>2
  <2> QED BY <2>2, <2>6, AppendProperties
<1> HIDE DEF T
<1>4. Seq(Text) \subseteq T
  BY <1>2, <1>3, SeqSetInduction
<1> QED BY <1>4, TakeIsFold DEF T

(* What is taken of a text that comes in two parts.                        *)
LEMMA TakeMore ==
  ASSUME NEW text \in Seq(Text), NEW more \in Seq(Text), ~TakeLines(text).failed
  PROVE  TakeLines(text \o more)
           = After(TakeLines(text).lines, TakeLines(TakeLines(text).rest \o more))
<1> DEFINE F(t) == CutFold!Fold(Start, t)
           r == TakeLines(text)
           alone == [lines |-> <<>>, rest |-> r.rest, failed |-> FALSE]
<1>1. r \in CleanlyTaken /\ r.rest \in Seq(Text) /\ r.lines \in Seq(Whole)
  BY TakeType DEF CleanlyTaken, Taken
<1>2. TakeLines(text \o more) = CutFold!Fold(r, more)
  BY TakeIsFold, CutFold!FoldConcat
<1>3. TakeLines(r.rest \o more) = CutFold!Fold(TakeLines(r.rest), more)
  <2> HIDE DEF r
  <2> QED BY <1>1, TakeIsFold, CutFold!FoldConcat
<1>4. TakeLines(r.rest) = alone
  BY RestIsRest
<1> HIDE DEF r
<1>5. alone \in CleanlyTaken
  BY <1>1, EmptySeq DEF CleanlyTaken, Taken, r
<1>6. After(r.lines, alone) = r
  <2>1. r.lines \o <<>> = r.lines
    BY <1>1, ConcatEmptySeq
  <2>2. r = [lines |-> r.lines, rest |-> r.rest, failed |-> FALSE]
    BY <1>1 DEF CleanlyTaken, Taken, r
  <2> QED BY <2>1, <2>2 DEF After
<1>7. CutFold!Fold(After(r.lines, alone), more) = After(r.lines, CutFold!Fold(alone, more))
  <2> HIDE DEF alone
  <2> QED BY <1>1, <1>5, FoldAfter
<1> QED BY <1>2, <1>3, <1>4, <1>6, <1>7 DEF r

(* A line and its end, taken where nothing is left of the one before.      *)
LEMMA TakeLine ==
  ASSUME NEW acc \in CleanlyTaken, ~acc.failed, acc.rest = <<>>, NEW l \in Lines
  PROVE  CutFold!Fold(acc, l \o <<CR, LF>>)
           = [lines |-> KeepMessage(acc.lines, l), rest |-> <<>>, failed |-> ~Parses(l)]
<1> DEFINE Plain == Chars \ {CR, LF}
           F(t) == CutFold!Fold(acc, t)
           T == {t \in Seq(Plain) : F(t) = [lines |-> acc.lines, rest |-> t, failed |-> FALSE]}
<1>1. l \in Seq(Plain)
  BY LinesAreText
<1>2. <<>> \in T
  <2>1. acc = [lines |-> acc.lines, rest |-> <<>>, failed |-> FALSE]
    BY DEF CleanlyTaken, Taken
  <2> QED BY <2>1, EmptySeq, CutFold!FoldEmpty
<1>3. ASSUME NEW t \in Seq(Plain), t \in T, NEW c \in Plain PROVE Append(t, c) \in T
  <2>1. F(Append(t, c)) = CutLine(F(t), c)
    BY CutFold!FoldAppend
  <2>2. ~EndsLine(F(t), c)
    BY DEF EndsLine
  <2>3. F(t) = [lines |-> acc.lines, rest |-> t, failed |-> FALSE]
    BY <1>3
  <2>4. Append(t, c) \in Seq(Plain)
    BY AppendProperties
  <2> HIDE DEF F
  <2> QED BY <2>1, <2>2, <2>3, <2>4 DEF CutLine
<1> HIDE DEF T
<1>4. F(l) = [lines |-> acc.lines, rest |-> l, failed |-> FALSE]
  <2>1. Seq(Plain) \subseteq T
    BY <1>2, <1>3, SeqSetInduction
  <2> QED BY <1>1, <2>1 DEF T
<1>5. /\ l \in Seq(Chars) /\ CR \in Chars /\ LF \in Chars
      /\ Append(l, CR) \in Seq(Chars)
      /\ Len(Append(l, CR)) = Len(l) + 1
      /\ Append(l, CR)[Len(l) + 1] = CR
      /\ Append(l, CR) # <<>>
  <2>1. l \in Seq(Chars) /\ CR \in Chars /\ LF \in Chars
    BY LineEncodes, LineEnd
  <2> QED BY <2>1, AppendProperties
<1>6. F(Append(l, CR)) = [lines |-> acc.lines, rest |-> Append(l, CR), failed |-> FALSE]
  <2>1. F(Append(l, CR)) = CutLine(F(l), CR)
    BY <1>5, CutFold!FoldAppend
  <2>2. l # <<>> => Last(l) # CR
    <3> SUFFICES ASSUME l # <<>> PROVE Last(l) # CR
      OBVIOUS
    <3>1. Len(l) \in 1 .. Len(l)
      BY <1>1, EmptySeq
    <3> QED BY <1>1, <3>1, ElementOfSeq DEF Last
  <2> HIDE DEF F
  <2>3. ~EndsLine(F(l), CR)
    BY <1>4, <2>2 DEF EndsLine
  <2>4. CutLine(F(l), CR) = [lines |-> acc.lines, rest |-> Append(l, CR), failed |-> FALSE]
    <3> DEFINE g == F(l)
    <3>1. g = [lines |-> acc.lines, rest |-> l, failed |-> FALSE]
      BY <1>4
    <3>2. ~EndsLine(g, CR)
      BY <2>3
    <3> HIDE DEF g
    <3>3. g.lines = acc.lines /\ g.rest = l
      BY <3>1
    <3>4. CutLine(g, CR) = [lines |-> g.lines, rest |-> Append(g.rest, CR), failed |-> FALSE]
      BY ONLY <3>1, <3>2, <3>3, CutNothing
    <3> QED BY <3>3, <3>4 DEF g
  <2> QED BY <2>1, <2>4
<1>7. F(Append(Append(l, CR), LF)) = CutLine(F(Append(l, CR)), LF)
  BY <1>5, CutFold!FoldAppend
<1>8. Front(Append(l, CR)) = l
  <2>1. Append(l, CR) = l \o <<CR>> /\ <<CR>> \in Seq(Chars)
    BY <1>5, AppendIsConcat
  <2>2. SubSeq(l \o <<CR>>, 1, Len(l)) = l
    BY <1>5, <2>1, ConcatParts
  <2>3. Len(Append(l, CR)) - 1 = Len(l)
    BY <1>5, LenProperties
  <2> QED BY <2>1, <2>2, <2>3 DEF Front
<1>9. CutLine(F(Append(l, CR)), LF)
        = [lines |-> KeepMessage(acc.lines, l), rest |-> <<>>, failed |-> ~Parses(l)]
  <2>1. Last(Append(l, CR)) = CR
    BY <1>5 DEF Last
  <2> HIDE DEF F
  <2> QED BY <1>5, <1>6, <1>8, <2>1 DEF CutLine, EndsLine, KeepMessage
<1>10. Append(Append(l, CR), LF) = l \o <<CR, LF>>
  BY <1>5
<1> QED BY <1>7, <1>9, <1>10

-----------------------------------------------------------------------------
(* What is returned of what was sent. *)

SentText(lines) == FlattenSeq([i \in DOMAIN lines |-> lines[i] \o <<CR, LF>>])

LEMMA SentAppend ==
  /\ SentText(<<>>) = <<>>
  /\ \A lines \in Seq(Lines) :
       /\ SentText(lines) \in Seq(Chars)
       /\ \A l \in Lines : SentText(Append(lines, l)) = SentText(lines) \o (l \o <<CR, LF>>)
<1> DEFINE f == [l \in Lines |-> l \o <<CR, LF>>]
<1>1. f \in [Lines -> Seq(Chars)]
  BY LineEncodes
<1>2. ASSUME NEW lines \in Seq(Lines) PROVE SentText(lines) = FlattenSeq(Mapped(f, lines))
  <2>1. \A i \in DOMAIN lines : lines[i] \in Lines
    BY ElementOfSeq, LenProperties
  <2>2. [i \in DOMAIN lines |-> lines[i] \o <<CR, LF>>] = Mapped(f, lines)
    BY <2>1 DEF Mapped
  <2> QED BY <2>2 DEF SentText
<1>3. <<>> \in Seq(Lines)
  BY EmptySeq
<1>4. \A l \in Lines : f[l] = l \o <<CR, LF>>
  OBVIOUS
<1> HIDE DEF f
<1>5. /\ FlattenSeq(Mapped(f, <<>>)) = <<>>
      /\ \A s \in Seq(Lines) : /\ FlattenSeq(Mapped(f, s)) \in Seq(Chars)
                               /\ \A e \in Lines : FlattenSeq(Mapped(f, Append(s, e)))
                                                     = FlattenSeq(Mapped(f, s)) \o f[e]
  BY <1>1, FlattenMapped
<1>6. SentText(<<>>) = <<>>
  BY <1>2, <1>3, <1>5
<1>7. ASSUME NEW lines \in Seq(Lines), NEW l \in Lines
      PROVE  SentText(Append(lines, l)) = SentText(lines) \o (l \o <<CR, LF>>)
  <2>1. Append(lines, l) \in Seq(Lines)
    BY AppendProperties
  <2>2. FlattenSeq(Mapped(f, Append(lines, l))) = FlattenSeq(Mapped(f, lines)) \o f[l]
    BY <1>5
  <2> QED BY <1>2, <1>4, <2>1, <2>2
<1>8. ASSUME NEW lines \in Seq(Lines) PROVE SentText(lines) \in Seq(Chars)
  BY <1>2, <1>5
<1> QED BY <1>6, <1>7, <1>8

LEMMA MessagesAppend ==
  /\ Messages(<<>>) = <<>>
  /\ \A lines \in Seq(Lines) :
       /\ Messages(lines) \in Seq(Lines)
       /\ \A l \in Lines : Messages(Append(lines, l)) = KeepMessage(Messages(lines), l)
<1> DEFINE F(lines) == KeepFold!Fold(<<>>, lines)
<1>1. \A lines : Messages(lines) = F(lines)
  BY DEF Messages, FoldLeft, MapThenFoldSet, Max,
         KeepFold!Fold, KeepFold!MapThenFoldSet, KeepFold!Largest
<1>2. F(<<>>) = <<>>
  BY KeepFold!FoldEmpty
<1>3. ASSUME NEW lines \in Seq(Lines) PROVE F(lines) \in Seq(Lines)
  <2>1. \A kept \in Seq(Lines), l \in Lines : KeepMessage(kept, l) \in Seq(Lines)
    BY AppendProperties DEF KeepMessage
  <2>2. <<>> \in Seq(Lines)
    BY EmptySeq
  <2> QED BY <2>1, <2>2, KeepFold!FoldType
<1>4. ASSUME NEW lines \in Seq(Lines), NEW l \in Lines
      PROVE  F(Append(lines, l)) = KeepMessage(F(lines), l)
  BY KeepFold!FoldAppend
<1> HIDE DEF F
<1> QED BY <1>1, <1>2, <1>3, <1>4

(* One sequence goes on where the other ends.                              *)
Extends(s, t) == \E more \in Seq(Seq(Text)) : t = s \o more

LEMMA ExtendsAgain ==
  ASSUME NEW s \in Seq(Seq(Text)), NEW t \in Seq(Seq(Text)), NEW u \in Seq(Seq(Text))
  PROVE  /\ Extends(s, s)
         /\ \A e \in Seq(Text) : Extends(s, Append(s, e))
         /\ Extends(s, t) /\ Extends(t, u) => Extends(s, u)
         /\ Extends(s, t) => IsPrefix(s, t)
<1>1. Extends(s, s)
  BY ConcatEmptySeq, EmptySeq DEF Extends
<1>2. ASSUME NEW e \in Seq(Text) PROVE Extends(s, Append(s, e))
  <2>1. Append(s, e) = s \o <<e>>
    BY AppendIsConcat
  <2>2. <<e>> \in Seq(Seq(Text))
    OBVIOUS
  <2> QED BY <2>1, <2>2 DEF Extends
<1>3. ASSUME Extends(s, t), Extends(t, u) PROVE Extends(s, u)
  <2>1. PICK x \in Seq(Seq(Text)) : t = s \o x
    BY <1>3 DEF Extends
  <2>2. PICK y \in Seq(Seq(Text)) : u = t \o y
    BY <1>3 DEF Extends
  <2>3. (s \o x) \o y = s \o (x \o y)
    BY ONLY s \in Seq(Seq(Text)), x \in Seq(Seq(Text)), y \in Seq(Seq(Text)), ConcatAssociative, SMTT(60)
  <2>4. x \o y \in Seq(Seq(Text))
    BY ConcatProperties
  <2> QED BY <2>1, <2>2, <2>3, <2>4 DEF Extends
<1>4. ASSUME Extends(s, t) PROVE IsPrefix(s, t)
  <2>1. PICK x \in Seq(Seq(Text)) : t = s \o x
    BY <1>4 DEF Extends
  <2>2. Len(t) = Len(s) + Len(x) /\ Len(s) \in Nat /\ Len(x) \in Nat
    BY <2>1, ConcatProperties, LenProperties
  <2>3. SubSeq(s \o x, 1, Len(s)) = s /\ SubSeq(s, 1, Len(s)) = s
    BY ConcatParts, SubSeqFull
  <2> QED BY <2>1, <2>2, <2>3 DEF IsPrefix
<1> QED BY <1>1, <1>2, <1>3, <1>4

LEMMA CutGrows ==
  ASSUME NEW acc \in CleanlyTaken, NEW text \in Seq(Text)
  PROVE  Extends(acc.lines, CutFold!Fold(acc, text).lines)
<1> DEFINE F(t) == CutFold!Fold(acc, t)
           T == {t \in Seq(Text) : Extends(acc.lines, F(t).lines)}
<1>1. \A a \in CleanlyTaken : a.lines \in Seq(Seq(Text)) /\ a.rest \in Seq(Text)
  BY SeqMonotonic DEF CleanlyTaken, Taken, Whole
<1>2. <<>> \in T
  <2>1. F(<<>>) = acc
    BY CutFold!FoldEmpty
  <2>2. Extends(acc.lines, acc.lines)
    BY <1>1, ExtendsAgain
  <2> QED BY <2>1, <2>2, EmptySeq
<1>3. ASSUME NEW t \in Seq(Text), t \in T, NEW c \in Text PROVE Append(t, c) \in T
  <2> DEFINE r == F(t)
  <2>1. r \in CleanlyTaken
    BY CutFoldType
  <2>2. F(Append(t, c)) = CutLine(r, c) /\ CutLine(r, c) \in CleanlyTaken
    BY <2>1, CutFold!FoldAppend, CutType
  <2>3. Extends(acc.lines, r.lines)
    BY <1>3
  <2> HIDE DEF F, r
  <2>4. r.lines \in Seq(Seq(Text)) /\ CutLine(r, c).lines \in Seq(Seq(Text))
    BY <1>1, <2>1, <2>2
  <2>5. Extends(r.lines, CutLine(r, c).lines)
    <3>1. CASE CutLine(r, c).lines = r.lines
      BY <2>4, <3>1, ExtendsAgain
    <3>2. CASE CutLine(r, c).lines # r.lines
      <4>1. EndsLine(r, c) /\ CutLine(r, c).lines = Append(r.lines, Front(r.rest))
        BY <3>2 DEF CutLine
      <4>2. Front(r.rest) \in Seq(Text)
        <5>1. r.rest \in Seq(Text) /\ r.rest # <<>> /\ Len(r.rest) \in Nat
          BY <1>1, <2>1, <4>1, LenProperties DEF EndsLine
        <5>2. \A i \in 1 .. Len(r.rest) - 1 : r.rest[i] \in Text
          BY <5>1, ElementOfSeq
        <5> QED BY <5>1, <5>2, SubSeqProperties DEF Front
      <4> QED BY <2>4, <4>1, <4>2, ExtendsAgain
    <3> QED BY <3>1, <3>2
  <2>6. Extends(acc.lines, CutLine(r, c).lines)
    BY <1>1, <2>3, <2>4, <2>5, ExtendsAgain
  <2> QED BY <2>2, <2>6, AppendProperties
<1> HIDE DEF T
<1>4. Seq(Text) \subseteq T
  BY <1>2, <1>3, SeqSetInduction
<1> QED BY <1>4 DEF T

(* Of whole lines the messages are taken, up to one that does not parse.   *)
LEMMA TakeSent ==
  ASSUME NEW lines \in Seq(Lines)
  PROVE  LET r == TakeLines(SentText(lines))
         IN  /\ Extends(r.lines, Messages(lines))
             /\ ~r.failed => r.lines = Messages(lines) /\ r.rest = <<>>
<1> DEFINE R(ls) == CutFold!Fold(Start, SentText(ls))
           T == {ls \in Seq(Lines) :
                   /\ Extends(R(ls).lines, Messages(ls))
                   /\ ~R(ls).failed => R(ls).lines = Messages(ls) /\ R(ls).rest = <<>>}
<1>1. \A s \in Seq(Lines) : s \in Seq(Seq(Text))
  <2>1. Lines \subseteq Seq(Text)
    BY LinesAreText, SeqMonotonic DEF Text
  <2> QED BY <2>1, SeqMonotonic
<1>2. \A s \in Seq(Chars) : s \in Seq(Text)
  BY SeqMonotonic DEF Text
<1>3. <<>> \in T
  <2>1. R(<<>>) = Start
    BY SentAppend, CutFold!FoldEmpty
  <2>2. <<>> \in Seq(Lines) /\ <<>> \in Seq(Seq(Text))
    BY EmptySeq
  <2>3. Extends(<<>>, <<>>)
    BY <2>2, ExtendsAgain
  <2> HIDE DEF R
  <2> QED BY <2>1, <2>2, <2>3, MessagesAppend DEF Start
<1>4. ASSUME NEW ls \in Seq(Lines), ls \in T, NEW l \in Lines PROVE Append(ls, l) \in T
  <2> DEFINE r == R(ls)
             q == R(Append(ls, l))
             line == l \o <<CR, LF>>
  <2>1. SentText(ls) \in Seq(Text) /\ line \in Seq(Text)
    BY <1>2, SentAppend, LineEncodes
  <2>2. r \in CleanlyTaken
    BY <2>1, StartType, CutFoldType
  <2>3. q = CutFold!Fold(r, line)
    <3>1. SentText(Append(ls, l)) = SentText(ls) \o line
      BY SentAppend
    <3> HIDE DEF line
    <3> QED BY <2>1, <3>1, CutFold!FoldConcat
  <2>4. /\ Extends(r.lines, Messages(ls))
        /\ ~r.failed => r.lines = Messages(ls) /\ r.rest = <<>>
    BY <1>4
  <2>5. /\ Messages(ls) \in Seq(Seq(Text)) /\ Messages(Append(ls, l)) \in Seq(Seq(Text))
        /\ Messages(Append(ls, l)) = KeepMessage(Messages(ls), l)
        /\ r.lines \in Seq(Seq(Text))
        /\ Append(ls, l) \in Seq(Lines)
    <3>1. Append(ls, l) \in Seq(Lines)
      BY AppendProperties
    <3>2. r.lines \in Seq(Seq(Text))
      BY <2>2, SeqMonotonic DEF CleanlyTaken, Taken, Whole
    <3> QED BY <1>1, <3>1, <3>2, MessagesAppend
  <2> HIDE DEF R, r, q
  <2>6. CASE r.failed
    <3>1. q.failed /\ q.lines = r.lines
      BY <2>1, <2>2, <2>3, <2>6, FailedStays
    <3>2. Extends(Messages(ls), Messages(Append(ls, l)))
      <4>1. l \in Seq(Text)
        BY LineEncodes, <1>2
      <4> QED BY <2>5, <4>1, ExtendsAgain DEF KeepMessage
    <3>3. Extends(r.lines, Messages(Append(ls, l)))
      BY <2>4, <2>5, <3>2, ExtendsAgain
    <3> QED BY <2>5, <3>1, <3>3 DEF q
  <2>7. CASE ~r.failed
    <3>1. q = [lines |-> KeepMessage(r.lines, l), rest |-> <<>>, failed |-> ~Parses(l)]
      BY <2>2, <2>3, <2>4, <2>7, TakeLine
    <3>2. q.lines = Messages(Append(ls, l)) /\ q.rest = <<>>
      BY <2>4, <2>5, <2>7, <3>1
    <3>3. Extends(q.lines, Messages(Append(ls, l)))
      BY <2>5, <3>2, ExtendsAgain
    <3> QED BY <2>5, <3>2, <3>3 DEF q
  <2> QED BY <2>6, <2>7
<1> HIDE DEF T
<1>5. Seq(Lines) \subseteq T
  BY <1>3, <1>4, SeqSetInduction
<1> QED BY <1>5, TakeIsFold DEF T

(* As long as no read has ended within a character: what was read and what *)
(* is on its way make up what was sent, nothing is held back, and what was *)
(* returned is what the text read so far gives when taken all at once.     *)
Midway(lines, bytes, back, buffer, messages) ==
  \E read, pending \in Seq(Chars) :
    /\ SentText(lines) = read \o pending
    /\ bytes = EncodeText(pending)
    /\ back = <<>>
    /\ TakeLines(read) = [lines |-> messages, rest |-> buffer, failed |-> FALSE]
Progress == Midway(sent, wire, held, messageBuffer, returned)
Intact == MessagesIntact /\ (~cut /\ ~failed => Progress)

LEMMA MidwayIntact ==
  ASSUME NEW lines \in Seq(Lines), NEW bytes, NEW back, NEW buffer, NEW messages,
         Midway(lines, bytes, back, buffer, messages)
  PROVE  /\ IsPrefix(messages, Messages(lines))
         /\ bytes = <<>> => messages = Messages(lines)
<1>1. PICK read \in Seq(Chars), pending \in Seq(Chars) :
             /\ SentText(lines) = read \o pending
             /\ bytes = EncodeText(pending)
             /\ TakeLines(read) = [lines |-> messages, rest |-> buffer, failed |-> FALSE]
  BY DEF Midway
<1> DEFINE r == TakeLines(read)
           all == TakeLines(SentText(lines))
<1>2. /\ read \in Seq(Text) /\ pending \in Seq(Text)
      /\ SentText(lines) \in Seq(Text)
  BY SentAppend, SeqMonotonic DEF Text
<1>3. r \in CleanlyTaken /\ all \in CleanlyTaken
  BY <1>2, TakeType
<1>4. r.lines = messages /\ ~r.failed
  BY <1>1
<1>5. Extends(r.lines, all.lines)
  <2>1. all = CutFold!Fold(r, pending)
    <3>1. r = CutFold!Fold(Start, read) /\ all = CutFold!Fold(Start, SentText(lines))
      BY TakeIsFold
    <3>2. CutFold!Fold(Start, read \o pending) = CutFold!Fold(CutFold!Fold(Start, read), pending)
      BY <1>2, CutFold!FoldConcat
    <3> QED BY <1>1, <3>1, <3>2
  <2> HIDE DEF r, all
  <2> QED BY <1>2, <1>3, <2>1, CutGrows
<1>6. /\ Extends(all.lines, Messages(lines))
      /\ ~all.failed => all.lines = Messages(lines)
  BY TakeSent
<1>7. /\ r.lines \in Seq(Seq(Text)) /\ all.lines \in Seq(Seq(Text))
      /\ Messages(lines) \in Seq(Seq(Text))
  <2>1. Lines \subseteq Seq(Text)
    BY LinesAreText, SeqMonotonic DEF Text
  <2>2. Messages(lines) \in Seq(Seq(Text))
    BY <2>1, MessagesAppend, SeqMonotonic
  <2> HIDE DEF r, all
  <2> QED BY <1>3, <2>2, SeqMonotonic DEF CleanlyTaken, Taken, Whole
<1> HIDE DEF r, all
<1>8. IsPrefix(messages, Messages(lines))
  BY <1>4, <1>5, <1>6, <1>7, ExtendsAgain
<1>9. ASSUME bytes = <<>> PROVE messages = Messages(lines)
  <2>1. pending = <<>>
    <3> SUFFICES ASSUME pending # <<>> PROVE FALSE
      OBVIOUS
    <3>1. PICK t \in Seq(Chars), c \in Chars : pending = Append(t, c)
      BY SequenceEmptyOrAppend
    <3>2. EncodeText(t) \in Seq(Utf8Bytes) /\ Encode(c) \in Seq(Utf8Bytes)
      BY EncodeTextType, EncodeType
    <3>3. bytes = EncodeText(t) \o Encode(c)
      BY <1>1, <3>1, EncodeTextType
    <3>4. Len(EncodeText(t) \o Encode(c)) = Len(EncodeText(t)) + Len(Encode(c))
      BY <3>2, ConcatProperties
    <3>5. Len(EncodeText(t)) \in Nat /\ Len(Encode(c)) \in 1 .. 4
      BY <3>2, EncodeType, LenProperties
    <3>6. Len(EncodeText(t) \o Encode(c)) = 0
      BY <1>9, <3>3, EmptySeq
    <3>7. \A x \in Nat, y \in 1 .. 4 : x + y # 0
      OBVIOUS
    <3> QED BY <3>4, <3>5, <3>6, <3>7, Zenon
  <2>2. SentText(lines) = read
    BY <1>1, <2>1, ConcatEmptySeq
  <2>3. all = r
    BY <2>2 DEF all, r
  <2> QED BY <1>4, <1>6, <2>3
<1> QED BY <1>8, <1>9

LEMMA IntactRecv ==
  ASSUME Typed, Intact, NEW n \in 1 .. BufferSize, Recv(n)
  PROVE  Intact'
<1>0. /\ n \in 1 .. Len(wire) /\ ~failed
      /\ wire' = SubSeq(wire, n + 1, Len(wire))
      /\ cut' = (cut \/ ~Ends(wire[n]))
      /\ sent' = sent
      /\ LET decoded == Decode(Received(n))
             taken   == TakeLines(messageBuffer \o decoded.text)
         IN  /\ held' = decoded.tail
             /\ messageBuffer' = taken.rest
             /\ failed' = taken.failed
             /\ returned' = IF taken.failed THEN returned ELSE returned \o taken.lines
  BY DEF Recv
<1> SUFFICES ASSUME ~cut' PROVE IsPrefix(returned', Messages(sent')) /\ (~failed' => Progress')
  BY DEF Intact, MessagesIntact
<1>1. ~cut /\ Ends(wire[n])
  BY <1>0
<1>2. PICK read \in Seq(Chars), pending \in Seq(Chars) :
             /\ SentText(sent) = read \o pending
             /\ wire = EncodeText(pending)
             /\ held = <<>>
             /\ TakeLines(read) = [lines |-> returned, rest |-> messageBuffer, failed |-> FALSE]
  BY <1>0, <1>1 DEF Intact, Progress, Midway
<1>3. PICK a \in Seq(Chars), b \in Seq(Chars) : pending = a \o b /\ Len(EncodeText(a)) = n
  BY <1>0, <1>1, <1>2, SplitAtCharacter
<1>4. /\ EncodeText(a) \in Seq(Utf8Bytes) /\ EncodeText(b) \in Seq(Utf8Bytes)
      /\ wire = EncodeText(a) \o EncodeText(b)
  BY <1>2, <1>3, EncodeTextType
<1>5. SubSeq(wire, 1, n) = EncodeText(a) /\ wire' = EncodeText(b)
  BY <1>0, <1>3, <1>4, ConcatParts
<1>6. Received(n) = EncodeText(a)
  <2>1. <<>> \o EncodeText(a) = EncodeText(a) /\ SubSeq(EncodeText(a), 1, n) = EncodeText(a)
    BY <1>3, <1>4, ConcatEmptySeq, SubSeqFull
  <2> QED BY <1>2, <1>5, <2>1 DEF Received
<1>7. Decode(Received(n)) = [text |-> a, tail |-> <<>>]
  BY <1>6, DecodeEncoded
<1> DEFINE taken == TakeLines(messageBuffer \o a)
<1>8. /\ held' = <<>>
      /\ messageBuffer' = taken.rest
      /\ failed' = taken.failed
      /\ returned' = IF taken.failed THEN returned ELSE returned \o taken.lines
  BY <1>0, <1>7
<1>9. CASE failed'
  BY <1>0, <1>1, <1>8, <1>9 DEF Intact, MessagesIntact
<1>10. CASE ~failed'
  <2>1. read \in Seq(Text) /\ a \in Seq(Text) /\ read \o a \in Seq(Chars)
    BY SeqMonotonic, ConcatProperties DEF Text
  <2>2. ~TakeLines(read).failed /\ TakeLines(read).lines = returned
          /\ TakeLines(read).rest = messageBuffer
    BY <1>2
  <2>3. TakeLines(read \o a) = After(returned, taken)
    BY <2>1, <2>2, TakeMore
  <2>4. SentText(sent') = (read \o a) \o b
    <3>1. (read \o a) \o b = read \o (a \o b)
      BY ONLY read \in Seq(Chars), a \in Seq(Chars), b \in Seq(Chars), ConcatAssociative, SMTT(60)
    <3> QED BY <1>0, <1>2, <1>3, <3>1
  <2>5. TakeLines(read \o a) = [lines |-> returned', rest |-> messageBuffer', failed |-> FALSE]
    <3> HIDE DEF taken
    <3>1. taken.failed = FALSE
      <4>1. taken \in CleanlyTaken
        <5>1. messageBuffer \o a \in Seq(Text)
          BY <2>1, ConcatProperties DEF Typed
        <5> QED BY <5>1, TakeType DEF taken
      <4> QED BY <1>8, <1>10, <4>1 DEF CleanlyTaken, Taken
    <3> QED BY <1>8, <2>3, <3>1 DEF After
  <2>6. Progress'
    BY <1>5, <1>8, <2>1, <2>4, <2>5 DEF Progress, Midway
  <2>7. sent' \in Seq(Lines)
    BY <1>0 DEF Typed
  <2>8. IsPrefix(returned', Messages(sent'))
    BY <2>6, <2>7, MidwayIntact DEF Progress
  <2> QED BY <2>6, <2>8
<1> QED BY <1>9, <1>10

LEMMA IntactSends ==
  ASSUME Typed, Intact, NEW l \in Lines, ServerSends(l)
  PROVE  Intact'
<1>1. /\ ~failed /\ sent' = Append(sent, l) /\ wire' = wire \o EncodeLine(l)
      /\ UNCHANGED <<failed, held, messageBuffer, returned, cut>>
  BY DEF ServerSends
<1> SUFFICES ASSUME ~cut PROVE IsPrefix(returned', Messages(sent')) /\ Progress'
  BY <1>1 DEF Intact, MessagesIntact
<1>2. PICK read \in Seq(Chars), pending \in Seq(Chars) :
             /\ SentText(sent) = read \o pending
             /\ wire = EncodeText(pending)
             /\ held = <<>>
             /\ TakeLines(read) = [lines |-> returned, rest |-> messageBuffer, failed |-> FALSE]
  BY <1>1 DEF Intact, Progress, Midway
<1> DEFINE line == l \o <<CR, LF>>
<1>3. line \in Seq(Chars)
  BY LineEncodes
<1>4. EncodeLine(l) = EncodeText(line)
  BY DEF EncodeLine
<1>5. sent \in Seq(Lines) /\ sent' \in Seq(Lines)
  BY <1>1, AppendProperties DEF Typed
<1>6. SentText(sent') = SentText(sent) \o line
  BY <1>1, <1>5, SentAppend
<1> HIDE DEF line
<1>7. pending \o line \in Seq(Chars)
  BY <1>3, ConcatProperties
<1>8. SentText(sent') = read \o (pending \o line)
  <2>1. (read \o pending) \o line = read \o (pending \o line)
    BY ONLY <1>3, read \in Seq(Chars), pending \in Seq(Chars), ConcatAssociative
  <2> QED BY <1>2, <1>6, <2>1
<1>9. wire' = EncodeText(pending \o line)
  BY <1>1, <1>2, <1>3, <1>4, EncodeTextType
<1>10. Progress'
  BY <1>1, <1>2, <1>7, <1>8, <1>9 DEF Progress, Midway
<1>11. IsPrefix(returned', Messages(sent'))
  BY <1>5, <1>10, MidwayIntact DEF Progress
<1> QED BY <1>10, <1>11

LEMMA IntactStep ==
  ASSUME Typed, Intact, [Next]_vars
  PROVE  Intact'
<1>1. ASSUME UNCHANGED readVars, failed => failed' PROVE Intact'
  BY <1>1 DEF Intact, MessagesIntact, Progress, readVars
<1>2. ASSUME NEW text \in Requests, Write(text) PROVE Intact'
  BY <1>1, <1>2 DEF Write
<1>3. CASE NothingToWrite
  BY <1>1, <1>3 DEF NothingToWrite
<1>4. ASSUME NEW n \in 1 .. Len(unwritten), WriteBytes(n) PROVE Intact'
  BY <1>1, <1>4 DEF WriteBytes
<1>5. CASE WriteFails
  BY <1>1, <1>5 DEF WriteFails, Fails
<1>6. ASSUME NEW n \in 1 .. BufferSize, Recv(n) PROVE Intact'
  BY <1>6, IntactRecv
<1>7. CASE NothingArrived
  BY <1>1, <1>7 DEF NothingArrived
<1>8. CASE Interrupted
  BY <1>1, <1>8 DEF Interrupted, Fails
<1>9. CASE RecvFails
  BY <1>1, <1>9 DEF RecvFails, Fails
<1>10. ASSUME NEW l \in Lines, ServerSends(l) PROVE Intact'
  BY <1>10, IntactSends
<1>11. CASE UNCHANGED vars
  BY <1>1, <1>11 DEF vars
<1> QED BY <1>2, <1>3, <1>4, <1>5, <1>6, <1>7, <1>8, <1>9, <1>10, <1>11 DEF Next

LEMMA IntactInit == Init => Intact
<1> SUFFICES ASSUME Init PROVE Intact
  OBVIOUS
<1>1. /\ sent = <<>> /\ wire = <<>> /\ held = <<>> /\ messageBuffer = <<>> /\ returned = <<>>
  BY DEF Init
<1>2. TakeLines(<<>>) = Start
  BY TakeIsFold, CutFold!FoldEmpty
<1>3. <<>> \in Seq(Chars) /\ <<>> \in Seq(Lines) /\ <<>> \o <<>> = <<>>
  BY EmptySeq, ConcatEmptySeq
<1>4. Progress
  BY <1>1, <1>2, <1>3, SentAppend, EncodeTextType DEF Progress, Midway, Start
<1>5. IsPrefix(returned, Messages(sent))
  BY <1>1, <1>3, <1>4, MidwayIntact DEF Progress
<1> QED BY <1>4, <1>5 DEF Intact, MessagesIntact

LEMMA IntactAlways == Spec => [](Typed /\ Intact)
BY TypedInit, TypedStep, IntactInit, IntactStep, PTL DEF Spec

(* The messages are the server's lines, whole, in order and each once,     *)
(* however the bytes arrive, if no read ends within a character.           *)
THEOREM MessagesAreIntact == Spec => []MessagesIntact
<1>1. Intact => MessagesIntact
  BY DEF Intact
<1> QED BY <1>1, IntactAlways, PTL

(* And once all has been read, none of them is kept back.                  *)
THEOREM NothingIsKeptBack == Spec => []NothingKeptBack
<1>1. Typed /\ Intact => NothingKeptBack
  BY MidwayIntact DEF Typed, Intact, Progress, NothingKeptBack
<1> QED BY <1>1, IntactAlways, PTL
=============================================================================
