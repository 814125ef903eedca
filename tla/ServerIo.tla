------------------------------ MODULE ServerIo ------------------------------
(***************************************************************************)
(* Between the messages and the bytes of the connection: write and recv in *)
(* src/src/net/server_io.rs, called by the net thread in every turn.  TCP  *)
(* takes and delivers bytes in pieces of any size.                         *)
(***************************************************************************)
EXTENDS Utf8, SequencesExt

CONSTANTS
  CR, LF,       (* the two characters that end a line                      *)
  Replacement,  (* U+FFFD, which the server never sends itself             *)
  Garbage,      (* what makes a line one that does not parse               *)
  Lines,        (* the lines the server sends                              *)
  BufferSize,   (* BUFFER_SIZE                                             *)
  MaxRetries,   (* MAX_RETRIES                                             *)
  Requests,     (* the lines the client writes                             *)
  MaxLines,     (* bound: how many lines the server sends                  *)
  MaxRequests   (* bound: how many lines the client writes                 *)

ASSUME LineEnd == {CR, LF} \subseteq Chars /\ Width[CR] = 1 /\ Width[LF] = 1
ASSUME LinesAreText == Lines \cup Requests \subseteq Seq(Chars \ {CR, LF})
ASSUME OthersAreOther == Replacement \notin Chars /\ Garbage \notin {CR, LF}
ASSUME BufferHoldsACharacter == BufferSize \in Nat /\ BufferSize > 3
ASSUME LimitsAreNat == {MaxRetries, MaxLines, MaxRequests} \subseteq Nat

VARIABLES
  at,           (* where the turn is: it may "write", goes on "writing" a
                   message, or is to "read"                                *)
  asked,        (* the lines it was given to write                         *)
  unwritten,    (* the bytes that are left of the last one                 *)
  delivered,    (* the bytes the server has got                            *)
  retries,      (* retry_count                                             *)
  wire,         (* bytes sent and not yet read                             *)
  sent,         (* the lines the server has sent                           *)
  held,         (* buffer[..recv_idx]                                      *)
  messageBuffer,(* message_buffer                                          *)
  returned,     (* the lines of the messages recv has returned             *)
  cut,          (* whether a read has ever ended within a character        *)
  failed        (* whether recv has returned an error                      *)

writeVars == <<asked, unwritten, delivered>>
readVars == <<sent, wire, held, messageBuffer, returned, cut>>
vars == <<at, retries, failed, writeVars, readVars>>

Init ==
  /\ at = "write" /\ asked = <<>> /\ unwritten = <<>> /\ delivered = <<>>
  /\ retries = 0
  /\ wire = <<>> /\ sent = <<>>
  /\ held = <<>> /\ messageBuffer = <<>> /\ returned = <<>>
  /\ cut = FALSE /\ failed = FALSE

EncodeText(text) == FlattenSeq([i \in DOMAIN text |-> Encode(text[i])])
EncodeLine(text) == EncodeText(text \o <<CR, LF>>)

Fails == failed' = TRUE /\ UNCHANGED <<at, retries, writeVars, readVars>>

-----------------------------------------------------------------------------
(* The first half of a turn: a message is written if there is one.         *)

Write(text) ==
  /\ ~failed /\ at = "write" /\ Len(asked) < MaxRequests
  /\ at' = "writing"
  /\ asked' = Append(asked, text)
  /\ unwritten' = EncodeLine(text)
  /\ UNCHANGED <<delivered, retries, failed, readVars>>

NothingToWrite ==
  /\ ~failed /\ at = "write"
  /\ at' = "read"
  /\ UNCHANGED <<retries, failed, writeVars, readVars>>

(* Mutant: what is written after a part of the message is all of it again. *)
WriteAllAgain(n) ==
  /\ ~failed /\ at = "writing" /\ n \in 1 .. Len(unwritten)
  /\ delivered' = delivered \o SubSeq(unwritten, 1, n)
  /\ unwritten' = IF n = Len(unwritten) THEN <<>> ELSE unwritten
  /\ at' = IF n = Len(unwritten) THEN "read" ELSE "writing"
  /\ UNCHANGED <<asked, retries, failed, readVars>>

(* write_all_blocking(): the connection takes n bytes.  One that takes     *)
(* none, or is interrupted, is tried again at once, which changes nothing. *)
WriteBytes(n) ==
  /\ ~failed /\ at = "writing" /\ n \in 1 .. Len(unwritten)
  /\ delivered' = delivered \o SubSeq(unwritten, 1, n)
  /\ unwritten' = SubSeq(unwritten, n + 1, Len(unwritten))
  /\ at' = IF n = Len(unwritten) THEN "read" ELSE "writing"
  /\ UNCHANGED <<asked, retries, failed, readVars>>

(* It is closed, or another error. *)
WriteFails == ~failed /\ at = "writing" /\ Fails

-----------------------------------------------------------------------------
(* from_utf8_lossy_split(): bytes that form no character are replaced, but *)
(* for those at the end, which are kept.  `tail' is what is undecided.     *)
(* Mutant: a byte that does not fit is kept with the others. *)
FeedKeepsAll(acc, b) ==
  LET bytes == Append(acc.tail, b)
  IN  IF Leads(bytes[1]) /\ Ends(b)
        THEN [text |-> Append(acc.text, b.of), tail |-> <<>>]
        ELSE [text |-> acc.text, tail |-> bytes]
Feed(acc, b) ==
  LET continues == /\ acc.tail # <<>> /\ Leads(acc.tail[1])
                   /\ b = [of |-> acc.tail[1].of, nth |-> Len(acc.tail) + 1]
      flushed   == IF acc.tail = <<>> \/ continues THEN acc.text
                                                   ELSE Append(acc.text, Replacement)
      bytes     == IF continues THEN Append(acc.tail, b) ELSE <<b>>
  IN  IF Leads(bytes[1]) /\ Ends(b)
        THEN [text |-> Append(flushed, b.of), tail |-> <<>>]
        ELSE [text |-> flushed, tail |-> bytes]
Decode(bytes) == FoldLeft(Feed, [text |-> <<>>, tail |-> <<>>], bytes)

(* The loop over the lines: those that are empty are skipped, the first    *)
(* that does not parse ends it, and the text that follows is left.         *)
Parses(l) == ~Contains(l, Garbage)
EndsLine(acc, c) == ~acc.failed /\ c = LF /\ acc.rest # <<>> /\ Last(acc.rest) = CR
(* Mutant: one line is taken of what a read returns. *)
CutOneLine(acc, c) ==
  IF EndsLine(acc, c) /\ acc.lines = <<>>
    THEN LET l == Front(acc.rest)
         IN  [lines |-> IF l = <<>> THEN acc.lines ELSE Append(acc.lines, l),
              rest |-> <<>>, failed |-> ~Parses(l)]
    ELSE [acc EXCEPT !.rest = Append(@, c)]
CutLine(acc, c) ==
  IF EndsLine(acc, c)
    THEN LET l == Front(acc.rest)
         IN  [lines |-> IF l = <<>> THEN acc.lines ELSE Append(acc.lines, l),
              rest |-> <<>>, failed |-> ~Parses(l)]
    ELSE [acc EXCEPT !.rest = Append(@, c)]
TakeLines(text) == FoldLeft(CutLine, [lines |-> <<>>, rest |-> <<>>, failed |-> FALSE], text)

(* The bytes read are stored after those held back, but as many as were    *)
(* read are decoded from the start of the buffer.                          *)
Received(n) == SubSeq(held \o SubSeq(wire, 1, n), 1, n)

(* Mutant: the text of earlier reads is gone. *)
RecvAfresh(n) ==
  /\ ~failed /\ at = "read" /\ n \in 1 .. Len(wire) /\ n <= BufferSize - Len(held)
  /\ at' = "write" /\ retries' = 0
  /\ wire' = SubSeq(wire, n + 1, Len(wire))
  /\ cut' = (cut \/ ~Ends(wire[n]))
  /\ LET decoded == Decode(Received(n))
         taken   == TakeLines(decoded.text)
     IN  /\ held' = decoded.tail
         /\ messageBuffer' = taken.rest
         /\ failed' = taken.failed
         /\ returned' = IF taken.failed THEN returned ELSE returned \o taken.lines
  /\ UNCHANGED <<writeVars, sent>>

(* recv() with n bytes read.  If a line does not parse, the messages       *)
(* parsed before it are lost with it.                                      *)
Recv(n) ==
  /\ ~failed /\ at = "read" /\ n \in 1 .. Len(wire) /\ n <= BufferSize - Len(held)
  /\ at' = "write" /\ retries' = 0
  /\ wire' = SubSeq(wire, n + 1, Len(wire))
  /\ cut' = (cut \/ ~Ends(wire[n]))
  /\ LET decoded == Decode(Received(n))
         taken   == TakeLines(messageBuffer \o decoded.text)
     IN  /\ held' = decoded.tail
         /\ messageBuffer' = taken.rest
         /\ failed' = taken.failed
         /\ returned' = IF taken.failed THEN returned ELSE returned \o taken.lines
  /\ UNCHANGED <<writeVars, sent>>

(* There is nothing to read. *)
NothingArrived ==
  /\ ~failed /\ at = "read"
  /\ at' = "write" /\ retries' = 0
  /\ UNCHANGED <<failed, writeVars, readVars>>

(* Mutant: the interruptions are not counted against the limit. *)
KeepsTrying ==
  /\ ~failed /\ at = "read"
  /\ retries' = IF retries > 2 * MaxRetries THEN retries ELSE retries + 1
  /\ UNCHANGED <<at, failed, writeVars, readVars>>

(* A read that is interrupted is tried again, one time more than           *)
(* MAX_RETRIES says, as it is compared before it is counted.               *)
Interrupted ==
  /\ ~failed /\ at = "read"
  /\ \/ retries > MaxRetries /\ Fails
     \/ /\ retries <= MaxRetries
        /\ retries' = retries + 1
        /\ UNCHANGED <<at, failed, writeVars, readVars>>

(* The peer is gone, or another error. *)
RecvFails == ~failed /\ at = "read" /\ Fails

ServerSends(l) ==
  /\ ~failed /\ Len(sent) < MaxLines
  /\ sent' = Append(sent, l)
  /\ wire' = wire \o EncodeLine(l)
  /\ UNCHANGED <<at, retries, failed, writeVars, held, messageBuffer, returned, cut>>

Next ==
  \/ \E text \in Requests : Write(text)
  \/ NothingToWrite
  \/ \E n \in 1 .. Len(unwritten) : WriteBytes(n)
  \/ WriteFails
  \/ \E n \in 1 .. BufferSize : Recv(n)
  \/ NothingArrived \/ Interrupted \/ RecvFails
  \/ \E l \in Lines : ServerSends(l)

Spec == Init /\ [][Next]_vars

-----------------------------------------------------------------------------
(* Properties. *)

(* Every variable has its type; the read always has room in the buffer     *)
(* (with none it would return 0, which recv takes for the end).            *)
TypeOK ==
  /\ at \in {"write", "writing", "read"}
  /\ asked \in Seq(Requests)
  /\ unwritten \in Seq(Bytes) /\ delivered \in Seq(Bytes)
  /\ retries \in Nat
  /\ wire \in Seq(Bytes)
  /\ sent \in Seq(Lines)
  /\ held \in Seq(Bytes) /\ Len(held) <= 3
  /\ messageBuffer \in Seq(Chars \cup {Replacement})
  /\ returned \in Seq(Seq(Chars \cup {Replacement}))
  /\ cut \in BOOLEAN /\ failed \in BOOLEAN

(* The lines that hold a message: clients ignore the empty ones.           *)
KeepMessage(kept, l) == IF l = <<>> THEN kept ELSE Append(kept, l)
Messages(lines) == FoldLeft(KeepMessage, <<>>, lines)

(* However the bytes arrive, a line split between CR and LF included, the  *)
(* messages are the server's non-empty lines, in order and unchanged, if   *)
(* no read ends within a character.                                        *)
MessagesIntact == ~cut => IsPrefix(returned, Messages(sent))

(* And none is kept back: what has been read is returned up to the last    *)
(* line end, unless recv has failed.                                       *)
NothingKeptBack == ~cut /\ ~failed /\ wire = <<>> => returned = Messages(sent)

(* However often the connection takes a part only, the server gets the     *)
(* lines that were to be written, whole and in order: before the next one, *)
(* or a read, begins it has got all of the last, unless writing failed.    *)
RequestsArrive ==
  LET lines == FlattenSeq([i \in DOMAIN asked |-> EncodeLine(asked[i])])
  IN  /\ delivered \o unwritten = lines
      /\ at # "writing" => unwritten = <<>>

(* A read is given up while there is a limit to its interruptions; no turn *)
(* starts with those of another.                                           *)
RetriesAreCounted ==
  /\ retries <= MaxRetries + 1
  /\ at # "read" => retries = 0

(* Even when text was damaged, no line end stays in message_buffer, where  *)
(* it would join two messages, nor gets into a message.                    *)
LineEndsEndLines ==
  LET hasEnd(text) == \E i \in 1 .. Len(text) - 1 : text[i] = CR /\ text[i + 1] = LF
  IN  /\ ~failed => ~hasEnd(messageBuffer)
      /\ \A i \in DOMAIN returned : ~hasEnd(returned[i])

-----------------------------------------------------------------------------
(* What the comments say and the code does not do.                         *)

(* "sometimes, a UTF8 character can be split across the end of a buffer    *)
(* during a receive call. when this happens, the remaining bytes of the    *)
(* character are copied to the start of the buffer" (server_io.rs:42): a   *)
(* character that is split arrives all the same.                           *)
SplitCharactersArrive == IsPrefix(returned, Messages(sent))

(* "debug_assert!(invalid_len < 3)" (server_io.rs:103): no more than two   *)
(* bytes are ever held back.                                               *)
HeldBackIsShort == Len(held) < 3
=============================================================================
