---------------------------- MODULE ClientState ----------------------------
(***************************************************************************)
(* The state behind the client's mutex (src/src/state.rs) and every        *)
(* operation on it: the handlers of server messages                        *)
(* (src/src/handlers), the user's commands (src/src/command.rs) and the    *)
(* dispatch of a typed line (handle_input in src/src/client.rs).  Each     *)
(* runs to its end with the mutex held, so each is one action.  The only   *)
(* exception is a handler that loops over the targets of its message: the  *)
(* loop is one action per target, and nothing else touches the state until *)
(* it is over (`rest' is empty again).                                     *)
(*                                                                         *)
(* A HashMap is the set of its keys and a total function of its values,    *)
(* the values of absent keys being those of a fresh entry.  The lines of a *)
(* window are only ever pushed, so of all of them the model keeps the last *)
(* one pushed anywhere (`shown') and the window that took it.              *)
(***************************************************************************)
EXTENDS Naturals, Sequences

CONSTANTS
  Channels,     (* valid channel names                                     *)
  Nicks,        (* valid nicknames, our own included                       *)
  Status,       (* Target::Status                                          *)
  InvalidName,  (* a string that names neither a channel nor a user        *)
  Server,       (* Source::Server                                          *)
  NoSource,     (* the source of a message that came without one           *)
  RequestedNick,(* the --nick of the command line                          *)
  Names,        (* entries of a NAMES reply                                *)
  Modes,        (* mode strings                                            *)
  NoModes,      (* the empty mode string of a fresh channel                *)
  EarlyKinds,   (* the kinds of message the server sends before 001        *)
  LateKinds,    (* and after it                                            *)
  MaxList,      (* bound: targets of one JOIN, PART, PRIVMSG or NOTICE     *)
  MaxOutbox     (* bound: messages waiting for the writer thread           *)

Windows == {Status} \cup Channels \cup Nicks
ArgNames == Channels \cup Nicks \cup {InvalidName}
ReplyNames == Channels \cup {InvalidName}
Sources == Nicks \cup {Server, NoSource}

(* The kinds of message whose handler adds a line to a window without      *)
(* having checked that the client is registered.                           *)
LineKinds == {"QUIT", "PART", "INFO", "TEXT", "COUNT", "NOMOTD"}
MessageKinds == LineKinds \cup {"PRIVMSG", "NOTICE",
  "PING", "ERROR", "WARNED", "UNKNOWN", "JOIN", "MODE", "001", "005", "353", "366"}

ASSUME DistinctNames ==
  /\ Status \notin Channels \cup Nicks \cup {InvalidName}
  /\ Channels \cap Nicks = {}
  /\ InvalidName \notin Channels \cup Nicks
  /\ Server \notin Nicks
  /\ NoSource \notin Nicks \cup {Server}
ASSUME RequestedNickIsNick == RequestedNick \in Nicks
ASSUME NoModesIsNoMode == NoModes \notin Modes
ASSUME KindsAreKinds == EarlyKinds \cup LateKinds \subseteq MessageKinds
ASSUME Bounds == MaxList \in Nat /\ MaxOutbox \in Nat

VARIABLES
  conn,         (* conn_state: "registration" or "connected"               *)
  nick,         (* requested_nick, then ConnectedState.nick                *)
  targets,      (* all_targets                                             *)
  selected,     (* selected_target_idx, counted from 1                     *)
  channels,     (* keys of ConnectedState.channels                         *)
  userMessages, (* keys of ConnectedState.user_messages                    *)
  modes, users, (* Channel.modes and Channel.users                         *)
  replying,     (* keys of MessagesState.active_names                      *)
  activeNames,  (* values of active_names                                  *)
  shown,        (* the line pushed last, and the window that took it       *)
  outbox,       (* the mpsc channel to the writer thread                   *)
  writer,       (* "open" while the writer thread holds the receiver       *)
  input,        (* "open" while the input thread runs                      *)
  quit,         (* QUIT_REQUESTED                                          *)
  handling,     (* the message whose targets are being looped over         *)
  rest,         (* the targets of that message still to come               *)
  result        (* how the process stands                                  *)

netVars  == <<writer, input, quit>>
chanVars == <<modes, users, replying, activeNames>>
winVars  == <<targets, selected, channels, userMessages>>
loopVars == <<handling, rest>>
vars == <<conn, nick, winVars, chanVars, shown, outbox, netVars, loopVars, result>>

StatusIdx == 1
(* A message of a user, a line typed here, everything else.                *)
LineMarks == {"chat", "own", "info"}
OutMessages == [cmd : {"PONG", "QUIT", "JOIN", "PRIVMSG", "RAW", "NOTICE"}, to : Windows]
Idle == [kind |-> "NONE", src |-> NoSource, body |-> "plain"]
(* Text, CTCP ACTION included; the CTCP query that is answered; another.   *)
Bodies == {"plain", "CLIENTINFO", "OTHERCTCP"}

(* The targets of a message, those that name nothing already filtered out. *)
Lists(S) == UNION {[1 .. n -> S] : n \in 0 .. MaxList}

Init ==
  /\ conn = "registration"
  /\ nick = RequestedNick
  /\ targets = <<Status>>
  /\ selected = StatusIdx
  /\ channels = {}
  /\ userMessages = {}
  /\ modes = [c \in Channels |-> NoModes]
  /\ users = [c \in Channels |-> {}]
  /\ replying = {}
  /\ activeNames = [c \in ReplyNames |-> {}]
  /\ shown = [window |-> Status, mark |-> "info", from |-> NoSource]
  /\ outbox = <<>>
  /\ writer = "open"
  /\ input = "open"
  /\ quit = FALSE
  /\ handling = Idle
  /\ rest = <<>>
  /\ result = "running"

-----------------------------------------------------------------------------
(* The helpers of ClientState, as conjuncts of the actions that call them. *)

CurrentTarget == targets[selected]
(* Mutant: only channels are looked up. *)
HasChannelOnly(t) == t \in {Status} \cup channels
HasWindow(t) == t \in {Status} \cup channels \cup userMessages

(* render() of a connected client falls back to the status window when the *)
(* selected channel has no entry; it reads the windows as the caller has   *)
(* left them.                                                              *)
Redraw(sel) ==
  selected' = IF conn = "connected" /\ targets'[sel] \in Channels \ channels'
                THEN StatusIdx ELSE sel

(* Mutant: the window is listed, its map entry forgotten. *)
EnsureWithoutEntry(t) ==
  /\ targets' = IF HasWindow(t) THEN targets ELSE Append(targets, t)
  /\ UNCHANGED <<channels, userMessages>>

(* ensure_target_exists() of a connected client: a target without a window *)
(* gets one, and the focus.  `sel' is the selection it leaves behind.      *)
EnsureTargetExists(t) ==
  IF HasWindow(t)
    THEN UNCHANGED <<targets, channels, userMessages>>
    ELSE /\ targets' = Append(targets, t)
         /\ channels' = IF t \in Channels THEN channels \cup {t} ELSE channels
         /\ userMessages' = IF t \in Nicks THEN userMessages \cup {t} ELSE userMessages
(* Mutants: a window keeps the focus whatever opens; any use of a window   *)
(* gives it the focus.                                                     *)
SelectedStays(t) == selected
SelectedAlways(t) ==
  IF HasWindow(t) THEN CHOOSE i \in DOMAIN targets : targets[i] = t ELSE Len(targets) + 1
SelectedAfter(t) == IF HasWindow(t) THEN selected ELSE Len(targets) + 1

Show(w, mark, from) == shown' = [window |-> w, mark |-> mark, from |-> from]

(* add_line() before registration runs into the unreachable!() of          *)
(* ensure_target_exists(), whatever the target: the panic hook aborts.     *)
AddLine(t, mark, from) ==
  IF conn = "registration"
    THEN /\ result' = "unreachable"
         /\ UNCHANGED <<winVars, shown>>
    ELSE /\ EnsureTargetExists(t)
         /\ Show(t, mark, from)
         /\ Redraw(SelectedAfter(t))
         /\ UNCHANGED result

(* warn_in(&Target::Status, ..): the status lines always exist. *)
WarnInStatus ==
  /\ Show(Status, "info", NoSource)
  /\ UNCHANGED <<targets, channels, userMessages>>
  /\ Redraw(selected)
  /\ UNCHANGED result

(* warn() and error(): a line in the current window, if it has lines. *)
Report ==
  /\ UNCHANGED <<targets, channels, userMessages>>
  /\ IF HasWindow(CurrentTarget)
       THEN Show(CurrentTarget, "info", NoSource) /\ Redraw(selected)
       ELSE UNCHANGED <<shown, selected>>
  /\ UNCHANGED result

(* A handler that returns an error ends start(), and with it the process. *)
Fail ==
  /\ result' = "failed"
  /\ UNCHANGED <<winVars, shown>>

Nothing == UNCHANGED <<winVars, shown, result>>

(* Sending fails once the receiver is gone; the bound stands for nothing   *)
(* in the code, whose channel is unbounded.                                *)
CanSend == writer = "open"
Send(cmd, to) ==
  /\ Len(outbox) < MaxOutbox
  /\ outbox' = Append(outbox, [cmd |-> cmd, to |-> to])

-----------------------------------------------------------------------------
(* IrcMessage::handle, one action per arm.  Messages come one at a time    *)
(* (the main thread receives the next after it has handled the last), and  *)
(* before registration only of the kinds the server sends that early.      *)

Receives(kind) ==
  /\ result = "running"
  /\ rest = <<>>
  /\ kind \in IF conn = "registration" THEN EarlyKinds ELSE LateKinds

UserIdle == UNCHANGED <<netVars, loopVars>>

(* PING: the only handler whose send error is fatal. *)
HandlePing ==
  /\ Receives("PING")
  /\ \/ CanSend /\ Send("PONG", Status) /\ Nothing
     \/ ~CanSend /\ Fail /\ UNCHANGED outbox
  /\ UNCHANGED <<conn, nick, chanVars>> /\ UserIdle

(* QUIT of some user is announced in the status window. *)
HandleQuit(src) ==
  /\ Receives("QUIT")
  /\ IF src = NoSource THEN Fail ELSE AddLine(Status, "info", NoSource)
  /\ UNCHANGED <<conn, nick, chanVars, outbox>> /\ UserIdle

(* MODE replaces the mode string of a channel that has an entry; every     *)
(* other MODE, one without a mode string (NoModes) too, is warned about.   *)
HandleMode(t, mode) ==
  /\ Receives("MODE")
  /\ IF mode # NoModes /\ conn = "connected" /\ t \in channels
       THEN modes' = [modes EXCEPT ![t] = mode] /\ Nothing
       ELSE UNCHANGED modes /\ WarnInStatus
  /\ UNCHANGED <<conn, nick, users, replying, activeNames, outbox>> /\ UserIdle

(* RPL_WELCOME ends registration with the nick the server granted.  The    *)
(* warning about another nick than the requested one is pushed before the  *)
(* welcome text.                                                           *)
HandleWelcome(granted, wellFormed) ==
  /\ Receives("001")
  /\ IF conn = "connected" THEN WarnInStatus /\ UNCHANGED <<conn, nick, chanVars>>
     ELSE IF ~wellFormed THEN Fail /\ UNCHANGED <<conn, nick, chanVars>>
     ELSE /\ conn' = "connected"
          /\ nick' = granted
          /\ channels' = {}
          /\ userMessages' = {}
          /\ modes' = [c \in Channels |-> NoModes]
          /\ users' = [c \in Channels |-> {}]
          /\ replying' = {}
          /\ activeNames' = [c \in ReplyNames |-> {}]
          /\ Show(Status, "info", NoSource)
          /\ selected' = IF CurrentTarget \in Channels THEN StatusIdx ELSE selected
          /\ UNCHANGED <<targets, result>>
  /\ UNCHANGED outbox /\ UserIdle

(* RPL_YOURHOST, RPL_CREATED and RPL_MYINFO must carry their text. *)
HandleInfo(wellFormed) ==
  /\ Receives("INFO")
  /\ IF wellFormed THEN AddLine(Status, "info", NoSource) ELSE Fail
  /\ UNCHANGED <<conn, nick, chanVars, outbox>> /\ UserIdle

(* The MOTD and the LUSER texts are shown if there is a text to show. *)
HandleText(hasText) ==
  /\ Receives("TEXT")
  /\ IF hasText THEN AddLine(Status, "info", NoSource) ELSE Nothing
  /\ UNCHANGED <<conn, nick, chanVars, outbox>> /\ UserIdle

(* The LUSER counts: too few arguments are ignored, what is not a number   *)
(* is warned about.                                                        *)
HandleCount(args) ==
  /\ Receives("COUNT")
  /\ \/ args = "ok" /\ AddLine(Status, "info", NoSource)
     \/ args = "not a number" /\ WarnInStatus
     \/ args = "missing" /\ Nothing
  /\ UNCHANGED <<conn, nick, chanVars, outbox>> /\ UserIdle

(* ERR_NOMOTD always shows a line. *)
HandleNoMotd ==
  /\ Receives("NOMOTD")
  /\ AddLine(Status, "info", NoSource)
  /\ UNCHANGED <<conn, nick, chanVars, outbox>> /\ UserIdle

(* RPL_ISUPPORT is ignored; ERROR only reaches the terminal's own history, *)
(* which nothing draws.                                                    *)
HandleIgnored(kind) ==
  /\ kind \in {"005", "ERROR"}
  /\ Receives(kind)
  /\ Nothing
  /\ UNCHANGED <<conn, nick, chanVars, outbox>> /\ UserIdle

(* What the client does not handle, or a server may not send, is warned    *)
(* about in the current window; an unknown command in the status window.   *)
HandleUnhandled(kind) ==
  /\ kind \in {"WARNED", "UNKNOWN"}
  /\ Receives(kind)
  /\ IF kind = "WARNED" THEN Report ELSE WarnInStatus
  /\ UNCHANGED <<conn, nick, chanVars, outbox>> /\ UserIdle

(* RPL_NAMREPLY collects names under the name it came with, joined or not, *)
(* valid or not.                                                           *)
HandleNamReply(c, names, wellFormed) ==
  /\ Receives("353")
  /\ IF conn = "registration" THEN Fail /\ UNCHANGED chanVars
     ELSE IF ~wellFormed THEN WarnInStatus /\ UNCHANGED chanVars
     ELSE /\ replying' = replying \cup {c}
          /\ activeNames' = [activeNames EXCEPT ![c] = @ \cup names]
          /\ UNCHANGED <<modes, users>>
          /\ Nothing
  /\ UNCHANGED <<conn, nick, outbox>> /\ UserIdle

(* Mutant: the names are stored without looking for the channel. *)
EndOfAnyNames(c, wellFormed) ==
  /\ Receives("366")
  /\ conn = "connected" /\ wellFormed /\ c \in Channels \cap replying
  /\ replying' = replying \ {c}
  /\ users' = [users EXCEPT ![c] = @ \cup activeNames[c]]
  /\ activeNames' = [activeNames EXCEPT ![c] = {}]
  /\ WarnInStatus
  /\ UNCHANGED <<conn, nick, modes, outbox>> /\ UserIdle

(* RPL_ENDOFNAMES takes what was collected, then looks for the channel:    *)
(* names of a channel that is not open are gone.                           *)
HandleEndOfNames(c, wellFormed) ==
  /\ Receives("366")
  /\ IF conn = "registration" THEN Fail /\ UNCHANGED chanVars
     ELSE IF ~wellFormed \/ c \notin Channels \/ c \notin replying
       THEN WarnInStatus /\ UNCHANGED chanVars
     ELSE /\ replying' = replying \ {c}
          /\ activeNames' = [activeNames EXCEPT ![c] = {}]
          /\ UNCHANGED modes
          /\ IF c \in channels
               THEN /\ users' = [users EXCEPT ![c] = @ \cup activeNames[c]]
                    /\ AddLine(c, "info", NoSource)
               ELSE UNCHANGED users /\ WarnInStatus
  /\ UNCHANGED <<conn, nick, outbox>> /\ UserIdle

(* JOIN, PART, PRIVMSG and NOTICE loop over their targets: this is the     *)
(* part before the loop.  PRIVMSG and NOTICE differ in wording only.       *)
StartLoop(kind, src, body, list) ==
  /\ rest' = list
  /\ handling' = IF list = <<>> THEN Idle ELSE [kind |-> kind, src |-> src, body |-> body]
  /\ Nothing

HandleJoin(src, list) ==
  /\ Receives("JOIN")
  /\ IF conn = "registration" THEN Fail /\ UNCHANGED loopVars
     ELSE IF src = NoSource THEN WarnInStatus /\ UNCHANGED loopVars
     ELSE StartLoop("JOIN", NoSource, "plain", list)
  /\ UNCHANGED <<conn, nick, chanVars, outbox, netVars>>

HandlePart(src, list) ==
  /\ Receives("PART")
  /\ IF src = NoSource THEN Fail /\ UNCHANGED loopVars
     ELSE StartLoop("PART", src, "plain", list)
  /\ UNCHANGED <<conn, nick, chanVars, outbox, netVars>>

(* Before registration no user can reach the client: what comes then is    *)
(* the server's own, addressed to the client itself.                       *)
FromServerToUs(src, list) == src \notin Nicks /\ list \in Seq(Nicks)

HandleMessage(src, body, list) ==
  /\ Receives("PRIVMSG") \/ Receives("NOTICE")
  /\ conn = "registration" => FromServerToUs(src, list)
  /\ StartLoop("MESSAGE", src, body, list)
  /\ UNCHANGED <<conn, nick, chanVars, outbox, netVars>>

-----------------------------------------------------------------------------
(* The body of those loops, for the next target. *)

NextTarget(kinds) ==
  /\ result = "running"
  /\ rest # <<>>
  /\ handling.kind \in kinds
  /\ rest' = Tail(rest)
  /\ handling' = IF Len(rest) = 1 THEN Idle ELSE handling
  /\ UNCHANGED <<conn, nick, chanVars, netVars>>

(* Someone's JOIN or PART is announced in the window of the channel, which *)
(* opens for it if need be.                                                *)
AnnounceNext ==
  /\ NextTarget({"JOIN", "PART"})
  /\ AddLine(Head(rest), "info", NoSource)
  /\ UNCHANGED outbox

(* handle_message(): what is sent to us goes to the window of its sender,  *)
(* and is dropped when no user sent it.                                    *)
(* Mutant: the receiver is not turned into the sender. *)
ReceiverWindow(t) == t
MessageTarget(t) == IF t \in Nicks THEN handling.src ELSE t
(* Mutant: a message to us is shown whoever sent it. *)
DroppedForItsBodyOnly(t) == handling.body # "plain" /\ handling.src \notin Nicks
Dropped(t) ==
  \/ t \in Nicks /\ handling.src \notin Nicks
  \/ handling.body = "OTHERCTCP"
  \/ handling.body = "CLIENTINFO" /\ handling.src \notin Nicks

DropNext ==
  /\ NextTarget({"MESSAGE"})
  /\ Dropped(Head(rest))
  /\ Nothing
  /\ UNCHANGED outbox

ShowNext ==
  /\ NextTarget({"MESSAGE"})
  /\ ~Dropped(Head(rest))
  /\ handling.body = "plain"
  /\ AddLine(MessageTarget(Head(rest)), "chat", handling.src)
  /\ UNCHANGED outbox

(* CTCP CLIENTINFO is answered by a NOTICE, even if it came in a NOTICE;   *)
(* send_msg ignores a send error.                                          *)
ReplyNext ==
  /\ NextTarget({"MESSAGE"})
  /\ ~Dropped(Head(rest))
  /\ handling.body = "CLIENTINFO"
  /\ IF CanSend THEN Send("NOTICE", handling.src) ELSE UNCHANGED outbox
  /\ Nothing

-----------------------------------------------------------------------------
(* The input thread: window keys and lines typed, each handled under the   *)
(* mutex.  It ends when sending fails for a typed message, and starts      *)
(* nothing more once QUIT_REQUESTED is set.                                *)

UserActs ==
  /\ result = "running"
  /\ rest = <<>>
  /\ input = "open"
  /\ ~quit
  /\ UNCHANGED <<conn, nick, chanVars, writer, loopVars, result>>

MoveTo(idx) ==
  /\ UserActs
  /\ UNCHANGED <<targets, channels, userMessages, shown, outbox, input, quit>>
  /\ Redraw(idx)

PreviousWindow == MoveTo(IF selected > StatusIdx THEN selected - 1 ELSE Len(targets))
NextWindow == MoveTo(IF selected < Len(targets) THEN selected + 1 ELSE StatusIdx)

(* What is reported to the user instead of being done: an unknown command, *)
(* a bad argument, a command or a line that needs a registered client, a   *)
(* line typed in the status window, a command whose message cannot be sent.*)
(* Mutant: the commands do not ask for a registered client. *)
RefuseRegardless(cmd, arg) ==
  \/ cmd = "bad"
  \/ cmd = "line" /\ CurrentTarget = Status
  \/ cmd = "join" /\ arg \notin Channels
  \/ cmd = "msg" /\ arg \notin Nicks
Refuse(cmd, arg) ==
  \/ cmd = "bad"
  \/ conn = "registration" /\ cmd # "quit"
  \/ cmd = "line" /\ CurrentTarget = Status
  \/ cmd = "join" /\ arg \notin Channels
  \/ cmd = "msg" /\ arg \notin Nicks
  \/ cmd \in {"join", "raw", "quit"} /\ ~CanSend

CommandRefused(cmd, arg) ==
  /\ UserActs
  /\ Refuse(cmd, arg)
  /\ Report
  /\ UNCHANGED <<outbox, input, quit>>

(* Mutant: a typed line is sent but not shown. *)
SendWithoutEcho ==
  /\ UserActs
  /\ ~Refuse("line", Status)
  /\ CanSend /\ Send("PRIVMSG", CurrentTarget)
  /\ UNCHANGED <<winVars, shown, input, quit>>

(* A typed line is shown in the current window, then sent.  Unlike a       *)
(* command's, its send error ends the input thread.                        *)
SendLine ==
  /\ UserActs
  /\ ~Refuse("line", Status)
  /\ AddLine(CurrentTarget, "own", nick)
  /\ \/ CanSend /\ Send("PRIVMSG", CurrentTarget) /\ UNCHANGED input
     \/ ~CanSend /\ input' = "closed" /\ UNCHANGED outbox
  /\ UNCHANGED quit

(* /join opens the window without waiting for the server's JOIN, and       *)
(* without drawing it.                                                     *)
JoinCommand(c) ==
  /\ UserActs
  /\ ~Refuse("join", c)
  /\ Send("JOIN", c)
  /\ EnsureTargetExists(c)
  /\ selected' = SelectedAfter(c)
  /\ UNCHANGED <<shown, input, quit>>

RawCommand ==
  /\ UserActs
  /\ ~Refuse("raw", Status)
  /\ Send("RAW", Status)
  /\ UNCHANGED <<winVars, shown, input, quit>>

MsgCommand(n) ==
  /\ UserActs
  /\ ~Refuse("msg", n)
  /\ EnsureTargetExists(n)
  /\ Redraw(SelectedAfter(n))
  /\ UNCHANGED <<shown, outbox, input, quit>>

(* /quit sets QUIT_REQUESTED only after its QUIT has been sent. *)
QuitCommand ==
  /\ UserActs
  /\ ~Refuse("quit", Status)
  /\ Send("QUIT", Status)
  /\ quit' = TRUE
  /\ UNCHANGED <<winVars, shown, input>>

-----------------------------------------------------------------------------
(* The other threads, as far as the state sees them. *)

(* The writer thread takes a message, or returns and drops its receiver    *)
(* with everything still in it.                                            *)
WriterTakes ==
  /\ result = "running"
  /\ outbox # <<>>
  /\ outbox' = Tail(outbox)
  /\ UNCHANGED <<conn, nick, winVars, chanVars, shown, netVars, loopVars, result>>

WriterCloses ==
  /\ result = "running"
  /\ writer = "open"
  /\ writer' = "closed"
  /\ outbox' = <<>>
  /\ UNCHANGED <<conn, nick, winVars, chanVars, shown, input, quit, loopVars, result>>

(* The main thread leaves its loop once QUIT_REQUESTED is set. *)
MainQuits ==
  /\ result = "running"
  /\ rest = <<>>
  /\ quit
  /\ result' = "quit"
  /\ UNCHANGED <<conn, nick, winVars, chanVars, shown, outbox, netVars, loopVars>>

ServerStep ==
  \/ HandlePing
  \/ \E src \in Sources : HandleQuit(src)
  \/ \E t \in Channels \cup Nicks, mode \in Modes \cup {NoModes} : HandleMode(t, mode)
  \/ \E granted \in Nicks, ok \in BOOLEAN : HandleWelcome(granted, ok)
  \/ \E ok \in BOOLEAN : HandleInfo(ok) \/ HandleText(ok)
  \/ \E args \in {"ok", "not a number", "missing"} : HandleCount(args)
  \/ HandleNoMotd
  \/ \E kind \in MessageKinds : HandleIgnored(kind) \/ HandleUnhandled(kind)
  \/ \E c \in ReplyNames, names \in SUBSET Names, ok \in BOOLEAN : HandleNamReply(c, names, ok)
  \/ \E c \in ReplyNames, ok \in BOOLEAN : HandleEndOfNames(c, ok)
  \/ \E src \in Sources, list \in Lists(Channels) :
       HandleJoin(src, list) \/ HandlePart(src, list)
  \/ \E src \in Sources, body \in Bodies, list \in Lists(Channels \cup Nicks) :
       HandleMessage(src, body, list)

LoopStep == AnnounceNext \/ DropNext \/ ShowNext \/ ReplyNext

UserStep ==
  \/ PreviousWindow \/ NextWindow
  \/ \E cmd \in {"bad", "line", "join", "raw", "msg", "quit"}, arg \in ArgNames :
       CommandRefused(cmd, arg)
  \/ SendLine
  \/ \E c \in Channels : JoinCommand(c)
  \/ RawCommand
  \/ \E n \in Nicks : MsgCommand(n)
  \/ QuitCommand

ThreadStep == WriterTakes \/ WriterCloses \/ MainQuits

Next == ServerStep \/ LoopStep \/ UserStep \/ ThreadStep

Spec == Init /\ [][Next]_vars

-----------------------------------------------------------------------------
(* Properties. *)

(* Every variable has its type.                                            *)
TypeOK ==
  /\ conn \in {"registration", "connected"}
  /\ nick \in Nicks
  /\ targets \in Seq(Windows)
  /\ selected \in 1 .. Len(targets)
  /\ channels \subseteq Channels
  /\ userMessages \subseteq Nicks
  /\ modes \in [Channels -> Modes \cup {NoModes}]
  /\ users \in [Channels -> SUBSET Names]
  /\ replying \subseteq ReplyNames
  /\ activeNames \in [ReplyNames -> SUBSET Names]
  /\ shown \in [window : Windows, mark : LineMarks, from : Sources]
  /\ outbox \in Seq(OutMessages)
  /\ writer \in {"open", "closed"}
  /\ input \in {"open", "closed"}
  /\ quit \in BOOLEAN
  /\ handling \in [kind : {"NONE", "JOIN", "PART", "MESSAGE"},
                   src : Sources, body : Bodies]
  /\ rest \in Seq(Channels \cup Nicks)
  /\ result \in {"running", "unreachable", "failed", "quit"}

(* The list the window keys walk through (all_targets) and the two maps    *)
(* that hold the lines name the same windows, each of them once, and the   *)
(* status window comes first: what the UNWRAPs of add_line and render      *)
(* (state.rs:71, 76 and 202) and the index of current_target rely on.      *)
TargetsMatchWindows ==
  /\ targets[StatusIdx] = Status
  /\ {targets[i] : i \in DOMAIN targets} = {Status} \cup channels \cup userMessages
  /\ \A i, j \in DOMAIN targets : targets[i] = targets[j] => i = j

(* No server that keeps to what may be said before 001 drives the client   *)
(* into `unreachable!("should not be joining a channel when not            *)
(* connected")' (state.rs:124), whatever the user types meanwhile.         *)
NeverUnreachable == result # "unreachable"

(* Before 001 nothing exists that only a registered client may have: no    *)
(* window, no names reply, and nothing to be sent but PONG and QUIT.       *)
RegistrationIsBare ==
  conn = "registration" =>
    /\ targets = <<Status>> /\ channels = {} /\ userMessages = {}
    /\ replying = {}
    /\ \A i \in DOMAIN outbox : outbox[i].cmd \in {"PONG", "QUIT"}

(* A message of a user is shown in that user's own window or in the window *)
(* of a channel, never in another user's (handle_message turns the target, *)
(* which is the receiver, into the sender).                                *)
ChatRouting ==
  shown.mark = "chat" /\ shown.window \in Nicks => shown.from = shown.window

(* What waits for the writer thread has a window to be followed in: JOIN   *)
(* and PRIVMSG are addressed to a window that is open, and the answer to a *)
(* CTCP query goes to a user.                                              *)
OutboxWellAddressed ==
  \A i \in DOMAIN outbox :
    /\ outbox[i].cmd = "JOIN" => outbox[i].to \in channels
    /\ outbox[i].cmd = "PRIVMSG" => outbox[i].to \in channels \cup userMessages
    /\ outbox[i].cmd = "NOTICE" => outbox[i].to \in Nicks

(* The names and modes of a channel are known only while it has an entry,  *)
(* and names are collected only under an active reply: a names reply that  *)
(* crosses the opening of its channel leaves nothing behind.               *)
NothingOfClosedChannels ==
  /\ \A c \in Channels \ channels : modes[c] = NoModes /\ users[c] = {}
  /\ \A c \in ReplyNames \ replying : activeNames[c] = {}

(* No server message moves the focus but to a window that opens in the     *)
(* same step: between windows that are open only the window keys do, and   *)
(* /join and /msg of an open window leave it where it is.  In particular   *)
(* the fall-backs of render and current_lines (state.rs:186 and 296) are   *)
(* never taken.                                                            *)
FocusFollowsUser ==
  [][selected' # selected =>
       \/ targets' # targets /\ selected' = Len(targets')
       \/ targets' = targets /\ (PreviousWindow \/ NextWindow)]_vars

(* What is typed goes to the window it is shown in: a PRIVMSG is handed to *)
(* the writer thread only with a line of our own, in the window on the     *)
(* screen, and for that window; and a line that is shown but not sent, the *)
(* writer thread being gone, is the last one: no more is taken from the    *)
(* user than one line nobody will get.                                     *)
OwnLinesAreSent ==
  [][/\ \A w \in Windows :
          Len(outbox') > Len(outbox) /\ outbox'[Len(outbox')] = [cmd |-> "PRIVMSG", to |-> w] =>
            shown' = [window |-> w, mark |-> "own", from |-> nick] /\ targets[selected] = w
     /\ shown' # shown /\ shown'.mark = "own" =>
          IF writer = "open"
            THEN outbox' = Append(outbox, [cmd |-> "PRIVMSG", to |-> shown'.window])
            ELSE outbox' = outbox /\ input' = "closed"]_vars

(* The windows behave as the window list promises: never closed, opened    *)
(* one at a time, with the focus on exactly one that is open.              *)
WL == INSTANCE WindowList WITH
  open <- {targets[i] : i \in DOMAIN targets},
  focus <- targets[selected]
Implements == WL!Spec

-----------------------------------------------------------------------------
(* What the comments say and the code does not do. *)

(* A handler finishes its loop, and the writer thread keeps writing.       *)
FairSpec == Spec /\ WF_vars(LoopStep) /\ WF_vars(WriterTakes)

(* "currently connected channels" (state.rs:365): after our own PART of a  *)
(* channel it is no longer among them.                                     *)
OwnPartLeaves ==
  [][\A c \in Channels :
       /\ AnnounceNext /\ handling.kind = "PART" /\ handling.src = nick
       /\ Head(rest) = c /\ c \in channels
       => c \notin channels']_vars
=============================================================================
