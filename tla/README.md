# irc_client in TLA+

A specification of the terminal IRC client under `src/`, checked with TLC and, but for what must
happen eventually, proved with TLAPS. Paths below are relative to `src/src/`.

## The system

The client is one process with three threads (`client.rs`):

* the **net thread** owns the non-blocking connection (`net/server_io.rs`); in every turn it looks
  at `QUIT_REQUESTED`, writes at most one message and reads what has arrived, which it parses
  (`irc/`) and passes on;
* the **input thread** takes the mutex around the client state, polls the terminal for at most one
  event, and sleeps ten milliseconds; a finished line is a command or goes to the current window;
* the **main thread** registers (`main.rs`), then takes one message at a time and handles it with
  the mutex held (`handlers/`).

They share two unbounded channels (messages to write, messages to handle), the flag and the mutex.
A panic anywhere aborts the process (`main.rs:56`). Nothing is persisted. There are no tests, so
the intentions the specification quotes are comments, assertions and `UNWRAP` notes.

| component | state | operations | correct if |
|---|---|---|---|
| client state and windows (`state.rs`) | connection state, window list and selection, maps of channels and users with their lines, active NAMES replies | `add_line`, `ensure_target_exists`, `warn`, `error`, `render`, window keys | list and maps agree, the selection is an open window, nothing before registration touches a window |
| message handlers (`handlers/`) | (the client state) | one arm per command or numeric; CTCP | each message ends in the right window; a NAMES reply is collected and stored once |
| user commands (`command.rs`, `client.rs`) | (the client state) | `/join`, `/raw`, `/msg`, `/quit`, a line | what is shown is sent, what cannot be done is refused |
| threads (`client.rs`, `main.rs`) | queues, mutex, flag, terminal mode | the steps of the three loops, registration, exit | registration comes first, order is kept, quitting ends everything, nobody starves |
| server connection (`net/server_io.rs`, `ext.rs`) | bytes held back, text without a line end, retries | `write`, `recv` | the messages are the server's lines, and the server gets the client's, whatever TCP does to them |
| input line (`ui/input_buffer.rs`) | bytes, byte cursor | the editing keys, `get_visible_area` | edits as a line of characters, is drawn with its cursor |
| layout, wrapping (`ui/layout.rs`, `ui/text.rs`) | none | `Layout::calc`, `Line::wrap`, `draw_text` | sections fill the area; no text is lost or drawn outside |
| terminal (`ui/term.rs`) | what it shows, its size, raw mode, the scrollback | `render`, `disable`, `input` | it shows the current window as it is, at every size that can hold it |
| parser and writer (`irc/`) | none | `IrcMessage::parse`, `ClientMessage::irc_str`, `Command::parse` | every message is read, and every command written, as it was meant |
| logging | none | | not modelled |

The hard parts are the three threads around one mutex (who may draw, what overtakes a quit), the
window bookkeeping kept by hand in a list and two maps, messages in orders the handlers do not
expect (before 001, for channels that are not open, NAMES for `*`), TCP boundaries, and byte indices
into UTF-8, widths of graphemes against sizes of the terminal, and a text format in which the same
characters separate and are said. `PROJECT.json` lists each of them as a hazard at its line.

## Modules

| module | models |
|---|---|
| `WindowList` | abstract: windows open, never close, one has the focus |
| `ClientState` | `state.rs`, `handlers/`, `command.rs`, `handle_input`: everything done with the mutex held |
| `ClientState_proofs` | the theorems about `ClientState` |
| `ClientThreads` | the loops of the three threads, the queues, mutex, flag, terminal mode, and the server |
| `ClientThreads_proofs` | the theorems about `ClientThreads` |
| `Utf8` | text as bytes |
| `Editor` | abstract: a line of characters with a cursor |
| `InputBuffer` | `ui/input_buffer.rs` with the keys of `state.rs` and `ui/keybinds.rs` |
| `InputBuffer_proofs` | the theorems about `InputBuffer` |
| `ServerIo` | a turn of the net thread at the connection: `write` and `recv` of `net/server_io.rs`, `ext.rs` |
| `ServerIo_proofs` | the theorems about `ServerIo` |
| `Layout` | `ui/layout.rs`: how an area is divided, and what a good division is |
| `TextWrap` | `ui/text.rs`: how a text is cut into rows, and what a good cut is |
| `Screen` | `TerminalUi::render` (`ui/term.rs`) on both, and everything in `state.rs` and `command.rs` that calls it |
| `Screen_proofs` | the theorems about `Layout`, `TextWrap` and `Screen` |
| `IrcMessages` | `irc/`, `irc/client/` and `Command::parse`: text to messages and back |
| `Wire` | a client, the server and another client exchanging lines; extends `IrcMessages` |
| `Wire_proofs` | the theorems about `Wire` and `IrcMessages` |
| `SequenceInduction` | lemmas for the proofs: induction over numbers and sequences, `FlattenSeq` |
| `FoldTheorems` | lemmas for the proofs: what `FoldLeft` computes, for any operator |
| `MCClientState`, `MCInputBuffer`, `MCServerIo`, `MCScreen`, `MCWire` | instances for TLC |

**`ClientState`.** An action is a whole handler or command with all its calls: `add_line` is its
conjuncts `EnsureTargetExists`, `Show` and `Redraw` (what `render` does to the selection), and its
abort before registration. A handler that loops over the targets of its message takes one action
per target (`AnnounceNext`, `ShowNext`, `ReplyNext`, `DropNext`); nothing else happens between
them (`rest = <<>>` guards everything else), as the mutex is held. `HashMap`s are the sets of
their keys and functions of their values. Lines are only pushed, so of all lines the
model keeps the last (`shown`): which window took it, whether it was a user's message, a line of our
own or information, and from whom. Text is whether the arguments are well formed. Handlers
that do the same share an action: 002-004 are `INFO`; MOTD and the LUSER texts `TEXT`; the
LUSER counts `COUNT`; PRIVMSG and NOTICE, which differ in wording only, `HandleMessage`; what is only
warned about in the current window `WARNED`. Which kinds the server sends before and after 001 are
the constants `EarlyKinds` and `LateKinds`. Before 001 a PRIVMSG or NOTICE is taken to be the
server's own and addressed to us.

**`ClientThreads`.** Each thread has a program counter; a step is what happens between two accesses
of shared state. What the main and the input thread do under the mutex is seen as far as it matters
to the others: sends, failures, the end of registration. One sleep of the input thread is long
enough for a thread that is waiting for the mutex to get it, which is what `INPUT_POLL_DELAY` is for
(`InputWakes`). `Ended` is the stutter of a process that is gone; so TLC's deadlock check is on.

**`InputBuffer`.** Bytes are known by their character and their place in it, so insertion, removal
and boundaries are exactly those of `String`. Graphemes are characters that do not combine.

**`ServerIo`.** A turn of the net thread writes at most one message and then reads once. `WriteBytes(n)`
is a write that took n bytes of what is left, `Recv(n)` a call of `recv` whose read returned n bytes.
A write that would block or is interrupted is repeated by `write_all_blocking` with nothing changed
and is no step; an interrupted read is counted (`Interrupted`) until `recv` gives up. The server
writes whole lines, at any time. With one character of several bytes in the instance, a continuation
byte that follows another character's lead cannot form a third character.

**`Layout`, `TextWrap`, `Screen`.** The first two are functions, each with a reference definition: a
division tiles its area and shares what is left by weight (`DividesWell`); rows lose nothing, are as
wide as allowed and break only where they must (`WrapsWell`). The two recursions of the code are
loops here. `handle_word` calls itself in its last step only, with what is left of the word: `Turn`
is one call, and a word of n graphemes needs at most n + 2, as every call but the first takes one at
least. `calc_recurse` pushes the rectangles in the order a work list (`todo`) gives: `Place` takes
its head, and puts the parts of one that is divided in its place; it is done after as many steps as
there are sections, which each section knows of itself (`places`). `Screen` applies them as `render`
does, to a terminal that is a row of graphemes for each line; a grapheme has the number of columns
`Columns` says, which stands for `util/unicode_width.rs`. An action is a key, a handler's line or a
command with the renderings it makes. `unseen` says why the screen may be behind: `/join` opens and
selects a window and nothing draws it, and a terminal is resized before the event that says so is
read. `ScreenIsCurrent` compares the screen to the picture a user expects, computed without
`DrawMain`; the exceptions it names are what the code really does. What a text too wide for its row
does to the rows around it depends on the terminal, so it is left open (`scrambled`), and a property
of its own says when that can happen. `OverflowChecks` is whether an unsigned subtraction below zero
panics (a debug build) or wraps; the run has it `TRUE`. `AbortsOnlyIfSmall` says when rendering
panics or reaches a `todo!()`.

**`IrcMessages`, `Wire`.** A text is a sequence of the characters that mean something to the parser
(space, colon, comma, `@`, `!`, ...) and of words without them. `IrcMessages` is what the client
does: parse a line of the server, parse what the user types, write a command. Loops are folds: `Cut`
is what `split` does with a character, `TakeParam` a turn of the loop of `parse_params`, which is
over a line that has at least as many characters as parameters. `Wire` has the other side, from the
grammar of IRC and not from this code (external in the map): a message has several spellings,
differing in spaces and in whether the last parameter has a colon, and the server may choose any
(`CanSpell`: what holds a space, a comma or a colon in front has to be marked, a list may not be).
`Understood` is about what the client reads, `SentAsMeant` about what it writes. What the client
writes is compared to what was meant: at the start `--nick`, which nothing checks, as nick, username
and realname; then what the user types. `by` remembers what has written the line, as in two cases the
code writes something else, and `SentAsMeant` says which and what. The username of `USER` is written
without a colon and is not the last parameter, so one that is empty, has a space or a comma or begins
with a colon (`Misplaced`) is not what the server reads; every other is. Of the channels of a
`/join`, `Command::parse` takes the first without refusing the others (`Said`). The lines of one
client are sent on to another, which may answer them (`PONG`, and a `NOTICE` for a CTCP query), so
what one writes another reads.

`ClientThreads` and `ClientState` meet in the queues: `ClientState`'s `outbox` is `writeQ`, its
`writer` and `input` are what the other two threads' ends mean to the state. `ServerIo` is the
detail of the steps `NetWrites` and `NetReads`; a `GARBLED` message is a line for which
`IrcMessages`'s `Parse` is an error. `ClientState`'s messages are what `Parse` returns, with the
text reduced to what the handlers look at, and `Screen` draws the windows that `ClientState` keeps.
These connections are by name and not checked.

## Runs

| run | shows | bounds |
|---|---|---|
| `windows` | `ClientState`'s invariants, action properties and its refinement of `WindowList` | one channel, we and one user, lists of one target, one message to be written |
| `names` | names and modes belong to open channels and active replies only | two channels, one name, one mode string, lists of two targets, nothing written |
| `threads` | order and safety of the threads, no deadlock; quitting, handling and writing get done | two messages of the server, of four kinds; two lines typed; no PASS |
| `editor` | cursor on boundaries, refinement of `Editor`, what is drawn | lines of six bytes: one letter of one byte, one of two, an accent; widths 2 to 6 |
| `server_io` | lines survive TCP in both directions, retries end | two lines each way; of the server one of four: plain, with a four byte character, empty, garbage; a buffer of six bytes; `MAX_RETRIES` as it is, 5 |
| `screen` | the terminal shows what it should, rendering fails only if it is small or a wide grapheme is cut, layout and wrapping are good | two windows, two lines of three texts, two graphemes typed, a scrollback of one; five sizes of 1 to 5 columns and 2 to 5 rows; 400 texts and 176 layouts at each size |
| `parser` | messages are read and written as meant, whatever their spelling | every command of the parser and those it lacks; up to 4 parameters, the last of 12 values; eight sources; with and without tags; 16 spellings; `--nick` any of these texts; `/join` of one channel and of two |
| `unreachable`, `own_part`, `next_char`, `split`, `held_back` | what a comment or an assertion says and the code does not do, see below | |

Why the bounds are enough. Windows interact in pairs (the current one and the one a message is for);
one channel and two nicks, one of them ours, with the status window give every pair of kinds, and
the loop over targets handles each independently. NAMES replies interact with the opening of their
own channel; a second channel shows that they do not mix. One message in the outbox suffices since
each property relates it to the step that appends it. In `ClientThreads` the quit flag, one PING
after the net thread's end and one batch with garbage need no more than two messages and two lines,
and they are all that can overtake each other; its safety is proved for every number of them, and
with a PASS. Six bytes hold three wide characters, one on each side of the cursor and one under it,
and an accent after either. A buffer of six bytes makes a read end within the character, between CR
and LF, and after a line. The layout of the client has three sections, so those of two levels and up
to three sections, with weights up to the eight bits they are added in, go beyond it; texts of three
words of up to three graphemes, of no, one and two columns, in rows of one to five columns meet
every case of a word that fits, just fits, fits the next row only, or none. Two lines are one that
is drawn and one that is not. A line of the server is parsed by itself, so one at a time is enough.
`MaxList`, `MaxOutbox`, `MaxIncoming`, `MaxTyped`, `MaxBytes`, `MaxLines`, `MaxRequests`, `MaxInput`
and `MaxScrollback` bound what the code leaves unbounded.

`CHECK_DEADLOCK FALSE` appears where the system may stop: a client that failed, aborted or quit, a
server that has sent all its lines.

Every property has a mutant, an operator of the same module marked `Mutant` next to the definition
it replaces: the same code with one plausible mistake, which the run then finds.

### Fairness

`threads` assumes weak fairness of each thread: the operating system runs a thread that can run.
It assumes nothing of the server or the user, and no strong fairness of the mutex; that the mutex is
got is the work of `INPUT_POLL_DELAY`, as the mutant `InputWakesAtOnce` shows. `own_part` is checked
under `FairSpec`: a handler finishes, the writer thread writes.

## What disagrees with the source

1. `unreachable`: a line added before 001 (QUIT, PART, 002-004, MOTD, LUSER...) reaches
   `unreachable!("should not be joining a channel when not connected")` (`state.rs:124`).
   `windows` and the theorem `ConformingNeverUnreachable` show that no other message does, given
   that a PRIVMSG or NOTICE before 001 is the server's own and addressed to us.
2. `own_part`: "currently connected channels" (`state.rs:365`) keeps a channel we have left.
   (Likewise the comment at `handlers/mod.rs:77` wants JOIN to tell ourselves from others; it does not.)
3. `next_char`: "offset the selection index by `offset` *characters*" (`ui/input_buffer.rs:57`)
   does not move forward over a character of several bytes.
4. `split`: the bytes of a character cut by a read (`net/server_io.rs:42`) are put in front of the
   next read, which then decodes too few bytes (`:101`), losing as many as were held back.
5. `held_back`: `debug_assert!(invalid_len < 3)` fails for a character of four bytes.

Seen while modelling, and in the model as the code has it, without a run of their own:

* "a list of channels with active NAMES replies" (`state.rs:387`) keeps the reply for `*` for ever,
  and adds every later one to it, as RPL_ENDOFNAMES refuses what is no channel before it removes it
  (`handlers/mod.rs:475`);
* `--nick` is sent as it is (`main.rs:87`): with a space in it, for instance, `USER` has a parameter
  more and the username is another one;
* `/join` of several channels joins the first and says nothing of the others (`command.rs:62` has a
  TODO);
* `MAX_RETRIES` is compared before it is counted, so there are six retries (`RetriesAreCounted` has
  the bound that holds);
* `/join` opens and selects a window that is not drawn until something else happens; all windows
  share one scrollback (`ui/keybinds.rs:13`);
* "always send exactly enough" (`ui/term.rs:209`) is not so in a narrow terminal: the status line
  may have several rows; an exact section does not fit a space of its size (`ui/layout.rs:87`);
* a word longer than what is left of a row is "never" going to fit (`ui/text.rs:118`) if it is wider
  than a row; one that would just fit the next row is moved there. Truncation counts graphemes where
  it means columns and bytes where it means graphemes (`ui/text.rs:85`);
* a parameter with a comma is a list, or a text, by its colon alone (`irc/param.rs:55`): a server that
  marks a list, or leaves a text of one word with a comma unmarked, is misread. `CanSpell` leaves
  these two out.

## Proofs

`ClientState_proofs` proves, for all sets of channels, nicks, names and modes, all bounds and all
choices of what the server sends:

* `TypeCorrect`, `WindowsMatch`, `BareRegistration`: the invariants `TypeOK`,
  `TargetsMatchWindows` and `RegistrationIsBare`;
* `ConformingNeverUnreachable`: `NeverUnreachable`, if no kind that adds a line comes before 001
  (`EarlyKinds` and `LineKinds` are disjoint);
* `ChatIsRouted`, `OutboxHasWindows`, `ClosedChannelsAreBare`: the invariants `ChatRouting`,
  `OutboxWellAddressed` and `NothingOfClosedChannels`;
* `FocusStays` and `TypedLinesAreSent`: the action properties `FocusFollowsUser` (the opening of a
  window takes the focus, whoever opened it: that is what the code does) and `OwnLinesAreSent` (a line
  that is shown is sent; the one that cannot be, as the net thread is gone, ends the input thread);
* `Refinement`: `ClientState` implements `WindowList`.

The assumptions are those `ClientState` states of its constants: the names are distinct, the bounds
naturals. The invariant that is inductive, `IInv`, adds to type and window consistency that before
registration there is nothing but the status window and no loop over targets other than of messages
to us from the server: these are what a loop started before 001 needs to keep away from `add_line`.
`TargetsMatchWindows` needs `TypeOK` (the selection has to be in range for
`render`'s lookup) and `RegistrationIsBare` (001 replaces both maps by empty ones, which keeps them
in step with the list only because no window can be open). The lemmas say what the helpers do:
`EnsureTargetExists` keeps list and maps in step, `Redraw` keeps the selection (no window of the list
lacks an entry, so the fall-back of `render` is never taken), `AddLine` does both.

`ChatRouting`, `OutboxWellAddressed` and `NothingOfClosedChannels` are inductive relative to `IInv`;
the second because windows never close (`WindowsStay`), so what was well addressed when it was
appended stays so.

`ClientThreads_proofs` proves the safety of the three threads for any kinds and numbers of messages
and lines, with a PASS and without: `ThreadsTypeCorrect` (`TypeOK`, with who holds the mutex),
`TerminalIsLeftAlone` (`TerminalLeftAlone`), `MessagesInOrder` (`HandledInOrder`),
`QuitIsTheLastWord` (`NothingTypedAfterQuit`) and `RegistrationComesFirst` (`RegistrationFirst`).
Three invariants are behind them:

* `Control` says where the threads can be once the flag is set: the input thread past its last
  poll. That is why nothing is drawn on a terminal that was given back, and why nothing is typed
  after a QUIT;
* `Delivery`: what was handled, is held by the main thread and is queued, then what was lost, then
  what is on the wire, is all the server sent; something is lost only with a line that does not parse
  in it, and then the net thread is past its loop and reads no more. So nothing is handled after
  what is missing;
* `StreamInv`, of all that was or can still be written: what is left to register is an end of the
  registration and none of it was sent, all before it was, and a QUIT is followed by the flag or a
  thread about to set it. Each step leaves the stream, ends it or adds one message to it
  (`StreamStep`), and `AddKeeps` looks at what may be added when.

`RegistrationFirst` and the invariants speak of positions in the stream, rather than of the stream
without its QUITs, which keeps the proofs free of filters.

`ServerIo_proofs` proves all six properties of the run `server_io`, for any characters, CR and LF among
them, any lines, any server, any buffer of more than three bytes, and any number of retries. The direction to the server
(`RequestsDelivered`) and the retries (`RetriesCounted`) are inductive as they stand. The direction
from the server has two invariants:

* `Typed`, behind `TypeCorrect` and `LineEndsEnd`: what is held back are at most the first three
  bytes of one character, and neither a message nor what is buffered has a line end in it, whatever
  bytes were lost;
* `Intact`, behind `MessagesAreIntact` and `NothingIsKeptBack`: as long as nothing was cut or
  failed, what the server sent can be divided into text that was read and text whose bytes are still
  on the wire, and the messages and the buffer are what `TakeLines` makes of the first (`Progress`).
  A read that ends on a character moves characters over (`SplitAtCharacter`, `DecodeEncoded`), and
  taking lines off what was left together with what is new is the same as taking them off the whole
  (`TakeMore`): this is why it does not matter where TCP cuts.

`InputBuffer_proofs` proves all of the run `editor` for all characters of one to four bytes
(`WidthsAreUtf8`) and lines of any length. `TypeOK` and `CursorOnBoundary` together are inductive:
the cursor stays on a boundary only because the text is UTF-8, and removing at the cursor leaves
UTF-8 only because the cursor is on a boundary. The lemmas are about text: it can be cut at a
boundary (`SplitWellFormed`) and joined (`JoinWellFormed`), a character that starts at one ends at
one (`CharacterEnds`), and there is one at most three bytes back (`LastBoundary`, which is why
`floor_char_boundary` has a result). `Refinement` shows that every key does to the characters left
and right of the cursor what `Editor` does: the characters of two texts in a row are those of the
first and those of the second (`CharactersConcat`), so that all happens at the cut (`InsertedParts`,
`RemovedParts`, `MovedParts`). `CursorStaysVisible` goes through the three ways `get_visible_area`
has of placing its window of graphemes; each places it around the cursor and within the line
(`AreaVisible`).

`Wire_proofs` proves all of the run `parser`, for any texts, names, sources and lists of parameters.
It assumes of its constants what `Wire` states: our nick and the channel are valid
(`NamesAreValid`); what the server says is made of texts that its grammar can spell, for instance a
nick has neither `!` nor `@` (`PartsAreValid`); the lower case of the commands is known
(`LowercaseIsValid`). `EverySpellingIsParsed` is about the parser alone: the line of a message,
spelled in any way, is parsed to what the message means (`Meant`), and that is what `Understood`
asks. It follows the parser through the line: `Trimmed`, `HeadOf` and `SourceParsed` for what is
before the name, and for the parameters an induction over the turns of the loop (`ParamsParsed`):
after k turns the first k parameters are taken, and what is left is the spelling of the others
(`Turn`). Lists are split where they were joined (`SplitJoined`). In the other direction each line
that `irc_str` writes is a spelling of its message (`TextIsSpelled`, `PrivmsgIsSpelled`,
`UserIsSpelled`, `JoinIsSpelled`, `QuitIsSpelled`), and each command of the user is told apart from
the others and refused only if it cannot be done (`CommandCases`, `Refused`). A `USER` whose username
is `Misplaced` is cut elsewhere: whatever such a line is parsed to, its first parameter is not that
text (`FirstParam`, `UserIsCut`); of a list only the first channel is taken (`ChannelListIs`), and
that is what is sent (`JoinSent`). The invariant,
`WireInv`, says that a line at the server is a spelling of what is meant, and what a client has got
is what is meant; it is inductive because a client answers, and the server relays, only what can be
said again (`AnswerStep`, `RelayedMessage`).

`Screen_proofs` is about what is drawn, for graphemes of any number of columns, any texts, layouts,
windows and sizes of the terminal, with overflow checks and without. Its assumptions are those of
`TextWrap` and `Screen`: columns and sizes are naturals, texts are sequences of words, sections are
what the constructors of `Layout` make (`SectionsAreSections`).

* `AllTextsWrapWell` says `WrapsWell` of every text and width. Between two calls of `handle_word`
  nothing is lost, what is left in the last row is the width less its columns, and what is left of
  the word is short or narrow if the word was (`TurnedTo`); `HandleWordPuts` is that n + 2 calls
  suffice. Over the words of a text the invariant is `WrappedTo`.
* `AllLayoutsDivideWell` says `DividesWell` of every layout and area. Sums of parts are differences
  of sums (`PartSums`), so that the sizes add up to the space (`SizesSum`) and each is what its
  weight is dealt (`SizesAre`, `FairSizes`); exact sections fit exactly if one row is left besides
  (`FittingTakes`, `RoomDecides`). The parts of a division tile its area (`DivideTiles`), and so, at
  every step, do the rectangles that are done with those to do (`Placed`); what is to do has less
  sections every time (`Load`).
* `NoAbortUnlessSmall` and `NoScrambleUnlessWide`: the invariants `AbortsOnlyIfSmall` and
  `ScrambledOnlyIfWide`; `TypesHold`, `TextsAlwaysWrapWell` and `LayoutsAlwaysDivideWell`:
  `TypeOK`, `TextsWrapWell` and `LayoutsDivideWell`. The inductive invariant, `IInv`, adds to the
  types that the screen is what `render` draws of the state as it is, unless `unseen` says that it
  is not, in which case nothing has aborted (`JustDrawn`). Every action renders anew, so all follows from
  what one rendering is (`RenderDraws`): the client's three parts are where they should be in three
  rows or more, and there is no division in fewer (`ClientCalc`); each part fails, or is too wide,
  only for the reasons given (`MainPart`, `StatusPart`, `InputPart`).
* `ScreenAlwaysCurrent`: the invariant `ScreenIsCurrent`, from the same `JustDrawn`. A text that is
  drawn takes the rows it has room for, from the top or to the bottom, and leaves the others as they
  were (`DrawTextShows`). After k steps of the fold over the lines, newest first, the n newest are at
  the bottom of the main part, where n is k or as many as there was room for (`SoFar`, `LineDraws`,
  `MainShows`); as more lines are never fewer rows (`LastRowsGrow`, `MoreRows`), that n is the one
  that the picture expected chooses (`NewestIs`). The status line and what is typed then take the last
  two rows (`LastTwoRows`, `TypedRow`), and that is the whole screen (`RenderShows`).

The library's induction theorems take the statement as an operator, and none of the installed
provers can instantiate those. `SequenceInduction` has them for sets instead: a set of naturals with
0 and the successor of each member is `Nat`, and a set of sequences with the empty one and all that
are one element longer is `Seq(S)`; a proof by induction is about the set of the values for which
its statement holds. `FoldTheorems` proves from the first that `FoldLeft` is what it is meant to be
(`FoldEmpty`, `FoldAppend`, `FoldConcat`, `FoldType`, `FoldInvariant`), for an operator that is its constant:
`INSTANCE FoldTheorems WITH Op <- Cut` has them for `split`. Both hold lemmas only: they say nothing
of this program by themselves. This is why the definitions that are
proved about are folds of named operators.

Left to TLC: the liveness properties `QuitEndsProcess`, `MessagesAreHandled` and `OutboxIsWritten`
(fairness and `ENABLED` are out of the prover's reach). Every other property of a run that passes is
the subject of a theorem.

## Not modelled, and the plan

Not modelled: logging; reading the command line and setting up TLS (`main.rs`); the styles of a text
and the wrapping at characters, which nothing uses (`ui/text.rs`); the table of widths
(`util/unicode_width.rs`), of which a constant has the result; the commands of `irc/client` that are
never constructed; `IrcCommand::to_irc_string`, which is never called; the topic and the parsing of
modes in `channel/`, likewise; a connection that takes no bytes because the peer reads none
(`ext.rs:29`), as the bytes under way are unbounded in the model; a single CR or LF within a line.

1. (done) `ClientState` with `WindowList`; `ClientThreads`; `InputBuffer` with `Editor`; `ServerIo`.
2. (done) `Layout`, `TextWrap` and `Screen`; `IrcMessages` and `Wire`; both directions of `ServerIo`.
3. (done) The proofs of `ClientState`, of the safety of `ClientThreads`, of `InputBuffer` with its
   refinement of `Editor`, of `ServerIo`, and of `Wire` with the parser.
4. (done) Wrapping and layout as folds, and the proofs of both and of `Screen`.
5. `ServerIo` as the implementation of the net thread's reads and writes in `ClientThreads`.
