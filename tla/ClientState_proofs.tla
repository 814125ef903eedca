------------------------ MODULE ClientState_proofs ------------------------
(***************************************************************************)
(* What TLAPS proves about ClientState for every set of channels, users,   *)
(* names and modes and every bound.                                        *)
(***************************************************************************)
EXTENDS ClientState, TLAPS

(* The part of TypeOK that speaks of the windows, with the invariant that  *)
(* ties the list to the maps.                                              *)
WindowsOK ==
  /\ targets \in Seq(Windows)
  /\ selected \in 1 .. Len(targets)
  /\ channels \subseteq Channels
  /\ userMessages \subseteq Nicks
  /\ TargetsMatchWindows

(* The rest of it. *)
OthersOK ==
  /\ conn \in {"registration", "connected"}
  /\ nick \in Nicks
  /\ modes \in [Channels -> Modes \cup {NoModes}]
  /\ users \in [Channels -> SUBSET Names]
  /\ replying \subseteq ReplyNames
  /\ activeNames \in [ReplyNames -> SUBSET Names]
  /\ outbox \in Seq(OutMessages)
  /\ writer \in {"open", "closed"}
  /\ input \in {"open", "closed"}
  /\ quit \in BOOLEAN
  /\ handling \in [kind : {"NONE", "JOIN", "PART", "MESSAGE"}, src : Sources, body : Bodies]
  /\ rest \in Seq(Channels \cup Nicks)
ShownOK == shown \in [window : Windows, mark : LineMarks, from : Sources]
ResultOK == result \in {"running", "unreachable", "failed", "quit"}

LEMMA TypeParts == TypeOK /\ TargetsMatchWindows <=> WindowsOK /\ OthersOK /\ ShownOK /\ ResultOK
  BY DEF TypeOK, WindowsOK, OthersOK, ShownOK, ResultOK

-----------------------------------------------------------------------------
(* The window helpers. *)

(* Opening a window keeps the list and the maps together, and the selected *)
(* index in the list.                                                      *)
LEMMA EnsureTargetExistsOK ==
  ASSUME WindowsOK, NEW t \in Windows, EnsureTargetExists(t)
  PROVE  /\ targets' \in Seq(Windows)
         /\ SelectedAfter(t) \in 1 .. Len(targets')
         /\ channels' \subseteq Channels
         /\ userMessages' \subseteq Nicks
         /\ TargetsMatchWindows'
  <1>1. CASE HasWindow(t)
    BY <1>1 DEF WindowsOK, EnsureTargetExists, SelectedAfter, TargetsMatchWindows
  <1>2. CASE ~HasWindow(t)
    <2>1. /\ targets' = Append(targets, t)
          /\ channels' = IF t \in Channels THEN channels \cup {t} ELSE channels
          /\ userMessages' = IF t \in Nicks THEN userMessages \cup {t} ELSE userMessages
          /\ SelectedAfter(t) = Len(targets) + 1
      BY <1>2 DEF EnsureTargetExists, SelectedAfter
    <2>2. t # Status /\ t \in Channels \cup Nicks /\ t \notin channels \cup userMessages
      BY <1>2 DEF HasWindow, Windows
    <2>3. /\ targets \in Seq(Windows)
          /\ Len(targets) \in Nat \ {0}
          /\ DOMAIN targets = 1 .. Len(targets)
      BY DEF WindowsOK
    <2>4. /\ targets' \in Seq(Windows)
          /\ Len(targets') = Len(targets) + 1
          /\ DOMAIN targets' = 1 .. Len(targets) + 1
          /\ \A i \in 1 .. Len(targets) : targets'[i] = targets[i]
          /\ targets'[Len(targets) + 1] = t
      BY <2>1, <2>3
    <2>5. SelectedAfter(t) \in 1 .. Len(targets')
      BY <2>1, <2>3, <2>4
    <2>6. channels' \subseteq Channels /\ userMessages' \subseteq Nicks
      BY <2>1 DEF WindowsOK
    <2>7. channels' \cup userMessages' = channels \cup userMessages \cup {t}
      BY <2>1, <2>2
    <2>8. t \notin {targets[i] : i \in 1 .. Len(targets)}
      BY <2>2, <2>3 DEF WindowsOK, TargetsMatchWindows
    <2>9. {targets'[i] : i \in DOMAIN targets'} = {targets[i] : i \in DOMAIN targets} \cup {t}
      BY <2>3, <2>4
    <2>10. {targets'[i] : i \in DOMAIN targets'} = {Status} \cup channels' \cup userMessages'
      BY <2>7, <2>9 DEF WindowsOK, TargetsMatchWindows
    <2>11. targets'[StatusIdx] = Status
      BY <2>3, <2>4 DEF WindowsOK, TargetsMatchWindows, StatusIdx
    <2>12. \A i, j \in DOMAIN targets' : targets'[i] = targets'[j] => i = j
      BY <2>3, <2>4, <2>8 DEF WindowsOK, TargetsMatchWindows
    <2> QED BY <2>4, <2>5, <2>6, <2>10, <2>11, <2>12 DEF TargetsMatchWindows
  <1> QED BY <1>1, <1>2

(* A list that goes with the maps never makes render() fall back.          *)
LEMMA RedrawKeeps ==
  ASSUME targets' \in Seq(Windows), channels' \subseteq Channels,
         userMessages' \subseteq Nicks, TargetsMatchWindows',
         NEW sel \in 1 .. Len(targets'), Redraw(sel)
  PROVE  selected' = sel
  <1>1. targets'[sel] \in {Status} \cup channels' \cup userMessages'
    BY DEF TargetsMatchWindows
  <1>2. targets'[sel] \notin Channels \ channels'
    BY <1>1, DistinctNames
  <1> QED BY <1>2 DEF Redraw

LEMMA RedrawSelected ==
  ASSUME WindowsOK, UNCHANGED <<targets, channels, userMessages>>, Redraw(selected)
  PROVE  UNCHANGED winVars
  <1>1. targets' \in Seq(Windows) /\ channels' \subseteq Channels /\ userMessages' \subseteq Nicks
        /\ TargetsMatchWindows' /\ selected \in 1 .. Len(targets')
    BY DEF WindowsOK, TargetsMatchWindows
  <1>2. selected' = selected
    BY <1>1, RedrawKeeps
  <1> QED BY <1>2 DEF winVars

-----------------------------------------------------------------------------
(* What one step does to the windows: nothing, or it opens one window and  *)
(* moves the focus there, or it turns to another open window.              *)
Opens(t) ==
  /\ t \in Windows /\ ~HasWindow(t)
  /\ EnsureTargetExists(t)
  /\ selected' = Len(targets) + 1
Turns ==
  /\ UNCHANGED <<targets, channels, userMessages>>
  /\ selected' \in 1 .. Len(targets)
  /\ PreviousWindow \/ NextWindow
WindowStep == UNCHANGED winVars \/ (\E t \in Windows : Opens(t)) \/ Turns

LEMMA WindowStepOK ==
  ASSUME WindowsOK, WindowStep
  PROVE  WindowsOK'
  <1>1. CASE UNCHANGED winVars
    BY <1>1 DEF WindowsOK, TargetsMatchWindows, winVars
  <1>2. ASSUME NEW t \in Windows, Opens(t) PROVE WindowsOK'
    <2>1. EnsureTargetExists(t) /\ selected' = SelectedAfter(t)
      BY <1>2 DEF Opens, SelectedAfter
    <2> QED BY <2>1, EnsureTargetExistsOK DEF WindowsOK
  <1>3. CASE Turns
    BY <1>3 DEF Turns, WindowsOK, TargetsMatchWindows
  <1> QED BY <1>1, <1>2, <1>3 DEF WindowStep

(* A window that gets the focus by ensure_target_exists and is then drawn. *)
LEMMA EnsureStep ==
  ASSUME WindowsOK, NEW t \in Windows, EnsureTargetExists(t),
         selected' = SelectedAfter(t) \/ Redraw(SelectedAfter(t))
  PROVE  WindowStep
  <1>1. selected' = SelectedAfter(t)
    BY EnsureTargetExistsOK, RedrawKeeps
  <1>2. CASE HasWindow(t)
    BY <1>1, <1>2 DEF EnsureTargetExists, SelectedAfter, WindowStep, winVars
  <1>3. CASE ~HasWindow(t)
    BY <1>1, <1>3 DEF SelectedAfter, WindowStep, Opens
  <1> QED BY <1>2, <1>3

(* add_line, warn_in, warn, error, a failing handler and one that does     *)
(* nothing: each keeps the types of what it touches.                       *)
Kept == WindowStep /\ ShownOK' /\ ResultOK'

LEMMA AddLineKeeps ==
  ASSUME WindowsOK, ShownOK, ResultOK, NEW t \in Windows, NEW mark \in LineMarks,
         NEW from \in Sources, AddLine(t, mark, from)
  PROVE  Kept
  <1>1. CASE conn = "registration"
    BY <1>1 DEF AddLine, Kept, WindowStep, ShownOK, ResultOK
  <1>2. CASE conn # "registration"
    <2>1. EnsureTargetExists(t) /\ Redraw(SelectedAfter(t)) /\ UNCHANGED result
          /\ shown' = [window |-> t, mark |-> mark, from |-> from]
      BY <1>2 DEF AddLine, Show
    <2>2. WindowStep
      BY <2>1, EnsureStep
    <2> QED BY <2>1, <2>2 DEF Kept, ShownOK, ResultOK
  <1> QED BY <1>1, <1>2

LEMMA StatusInfoOK == [window |-> Status, mark |-> "info", from |-> NoSource]
                      \in [window : Windows, mark : LineMarks, from : Sources]
  BY DEF Windows, LineMarks, Sources

LEMMA WarnInStatusKeeps ==
  ASSUME WindowsOK, ShownOK, ResultOK, WarnInStatus
  PROVE  Kept
  <1>1. UNCHANGED winVars
    BY RedrawSelected DEF WarnInStatus
  <1>2. ShownOK' /\ ResultOK'
    BY StatusInfoOK DEF WarnInStatus, Show, ShownOK, ResultOK
  <1> QED BY <1>1, <1>2 DEF Kept, WindowStep

LEMMA ReportKeeps ==
  ASSUME WindowsOK, ShownOK, ResultOK, Report
  PROVE  Kept /\ UNCHANGED <<winVars, result>>
  <1>1. UNCHANGED winVars
    <2>1. CASE HasWindow(CurrentTarget)
      BY <2>1, RedrawSelected DEF Report
    <2>2. CASE ~HasWindow(CurrentTarget)
      BY <2>2 DEF Report, winVars
    <2> QED BY <2>1, <2>2
  <1>2. CurrentTarget \in Windows
    BY DEF CurrentTarget, WindowsOK
  <1>3. ShownOK' /\ ResultOK' /\ UNCHANGED result
    BY <1>2 DEF Report, Show, ShownOK, ResultOK, LineMarks, Sources
  <1> QED BY <1>1, <1>3 DEF Kept, WindowStep

LEMMA FailKeeps ==
  ASSUME ShownOK, Fail PROVE Kept
  BY DEF Fail, Kept, WindowStep, ShownOK, ResultOK

LEMMA NothingKeeps ==
  ASSUME ShownOK, ResultOK, Nothing PROVE Kept
  BY DEF Nothing, Kept, WindowStep, ShownOK, ResultOK

-----------------------------------------------------------------------------
(* The inductive invariant.  Welcome empties the maps but not the list, so *)
(* the windows stay in step only because nothing was opened before it      *)
(* (RegistrationIsBare); and a CTCP query is not answered before it only   *)
(* because the loop that is on then is over the server's own words to us.  *)
EarlyLoop ==
  conn = "registration" /\ handling.kind = "MESSAGE" =>
    handling.src \notin Nicks /\ rest \in Seq(Nicks)

IInv == WindowsOK /\ OthersOK /\ ShownOK /\ ResultOK /\ RegistrationIsBare /\ EarlyLoop

LEMMA ListsAreSeqs ==
  ASSUME NEW S, NEW list \in Lists(S)
  PROVE  list \in Seq(S)
  BY Bounds DEF Lists

LEMMA InitIInv == Init => IInv
  <1> SUFFICES ASSUME Init PROVE IInv
    OBVIOUS
  <1>1. WindowsOK
    BY DEF Init, WindowsOK, TargetsMatchWindows, Windows, StatusIdx
  <1>2. OthersOK
    <2>1. /\ modes \in [Channels -> Modes \cup {NoModes}]
          /\ users \in [Channels -> SUBSET Names]
          /\ activeNames \in [ReplyNames -> SUBSET Names]
      BY DEF Init
    <2>2. handling \in [kind : {"NONE", "JOIN", "PART", "MESSAGE"}, src : Sources, body : Bodies]
      BY DEF Init, Idle, Sources, Bodies
    <2>3. outbox \in Seq(OutMessages) /\ rest \in Seq(Channels \cup Nicks)
      BY DEF Init
    <2>4. /\ conn = "registration" /\ nick \in Nicks /\ replying = {}
          /\ writer = "open" /\ input = "open" /\ quit = FALSE
      BY RequestedNickIsNick DEF Init
    <2> QED BY <2>1, <2>2, <2>3, <2>4 DEF OthersOK
  <1>3. ShownOK /\ ResultOK
    BY StatusInfoOK DEF Init, ShownOK, ResultOK
  <1>4. RegistrationIsBare /\ EarlyLoop
    BY DEF Init, RegistrationIsBare, EarlyLoop, Idle
  <1> QED BY <1>1, <1>2, <1>3, <1>4 DEF IInv

(* Each handler of a server message keeps the windows. *)
LEMMA ServerWindows ==
  ASSUME IInv, ServerStep
  PROVE  Kept
  <1> USE DEF IInv
  <1>0. Status \in Windows /\ "info" \in LineMarks /\ NoSource \in Sources
    BY DEF Windows, LineMarks, Sources
  <1>1. CASE HandlePing
    BY <1>1, FailKeeps, NothingKeeps DEF HandlePing
  <1>2. ASSUME NEW src \in Sources, HandleQuit(src) PROVE Kept
    BY <1>0, <1>2, FailKeeps, AddLineKeeps DEF HandleQuit
  <1>3. ASSUME NEW t \in Channels \cup Nicks, NEW mode \in Modes \cup {NoModes}, HandleMode(t, mode)
        PROVE Kept
    BY <1>3, NothingKeeps, WarnInStatusKeeps DEF HandleMode
  <1>4. ASSUME NEW granted \in Nicks, NEW ok \in BOOLEAN, HandleWelcome(granted, ok) PROVE Kept
    <2>1. CASE conn = "connected" \/ ~ok
      BY <1>4, <2>1, WarnInStatusKeeps, FailKeeps DEF HandleWelcome
    <2>2. CASE conn # "connected" /\ ok
      <3>1. conn = "registration"
        BY <2>2 DEF OthersOK
      <3>2. channels = {} /\ userMessages = {} /\ CurrentTarget = Status
        <4>1. targets = <<Status>> /\ channels = {} /\ userMessages = {}
          BY <3>1 DEF RegistrationIsBare
        <4>2. selected \in 1 .. Len(targets)
          BY DEF WindowsOK
        <4>3. selected = 1
          BY <4>1, <4>2
        <4> QED BY <4>1, <4>3 DEF CurrentTarget
      <3>3. UNCHANGED winVars
        BY <1>4, <2>2, <3>2, DistinctNames DEF HandleWelcome, winVars
      <3>4. ShownOK' /\ ResultOK'
        BY <1>4, <2>2, StatusInfoOK DEF HandleWelcome, Show, ShownOK, ResultOK
      <3> QED BY <3>3, <3>4 DEF Kept, WindowStep
    <2> QED BY <2>1, <2>2
  <1>5. ASSUME NEW ok \in BOOLEAN, HandleInfo(ok) \/ HandleText(ok) PROVE Kept
    BY <1>0, <1>5, AddLineKeeps, FailKeeps, NothingKeeps DEF HandleInfo, HandleText
  <1>6. ASSUME NEW args \in {"ok", "not a number", "missing"}, HandleCount(args) PROVE Kept
    <2>1. AddLine(Status, "info", NoSource) \/ WarnInStatus \/ Nothing
      BY <1>6 DEF HandleCount
    <2> QED BY <1>0, <2>1, AddLineKeeps, WarnInStatusKeeps, NothingKeeps
  <1>7. CASE HandleNoMotd
    BY <1>0, <1>7, AddLineKeeps DEF HandleNoMotd
  <1>8. ASSUME NEW kind \in MessageKinds, HandleIgnored(kind) \/ HandleUnhandled(kind) PROVE Kept
    BY <1>8, NothingKeeps, ReportKeeps, WarnInStatusKeeps DEF HandleIgnored, HandleUnhandled
  <1>9. ASSUME NEW c \in ReplyNames, NEW names \in SUBSET Names, NEW ok \in BOOLEAN,
               HandleNamReply(c, names, ok)
        PROVE Kept
    BY <1>9, FailKeeps, WarnInStatusKeeps, NothingKeeps DEF HandleNamReply
  <1>10. ASSUME NEW c \in ReplyNames, NEW ok \in BOOLEAN, HandleEndOfNames(c, ok) PROVE Kept
    <2>1. Fail \/ WarnInStatus \/ (c \in Channels /\ AddLine(c, "info", NoSource))
      BY <1>10 DEF HandleEndOfNames
    <2>2. c \in Channels => c \in Windows
      BY DEF Windows
    <2> QED BY <1>0, <2>1, <2>2, FailKeeps, WarnInStatusKeeps, AddLineKeeps
  <1>11. ASSUME NEW src \in Sources, NEW list \in Lists(Channels),
                HandleJoin(src, list) \/ HandlePart(src, list)
         PROVE Kept
    BY <1>11, FailKeeps, WarnInStatusKeeps, NothingKeeps DEF HandleJoin, HandlePart, StartLoop
  <1>12. ASSUME NEW src \in Sources, NEW body \in Bodies, NEW list \in Lists(Channels \cup Nicks),
                HandleMessage(src, body, list)
         PROVE Kept
    BY <1>12, NothingKeeps DEF HandleMessage, StartLoop
  <1> QED BY <1>1, <1>2, <1>3, <1>4, <1>5, <1>6, <1>7, <1>8, <1>9, <1>10, <1>11, <1>12 DEF ServerStep

(* The target a message is shown in is a window. *)
LEMMA MessageTargetOK ==
  ASSUME IInv, rest # <<>>, ~Dropped(Head(rest))
  PROVE  /\ Head(rest) \in Channels \cup Nicks
         /\ MessageTarget(Head(rest)) \in Channels \cup Nicks
         /\ MessageTarget(Head(rest)) \in Nicks => MessageTarget(Head(rest)) = handling.src
  <1>1. rest \in Seq(Channels \cup Nicks) /\ Head(rest) \in Channels \cup Nicks
    BY DEF IInv, OthersOK
  <1> QED BY <1>1, DistinctNames DEF MessageTarget, Dropped

LEMMA LoopWindows ==
  ASSUME IInv, LoopStep
  PROVE  Kept
  <1> USE DEF IInv
  <1>1. handling.src \in Sources
    BY DEF OthersOK
  <1>2. CASE AnnounceNext
    <2>1. Head(rest) \in Windows
      BY <1>2 DEF AnnounceNext, NextTarget, OthersOK, Windows
    <2> QED BY <1>2, <2>1, AddLineKeeps DEF AnnounceNext, LineMarks, Sources
  <1>3. CASE ShowNext
    <2>1. MessageTarget(Head(rest)) \in Windows
      BY <1>3, MessageTargetOK DEF ShowNext, NextTarget, Windows
    <2> QED BY <1>1, <1>3, <2>1, AddLineKeeps DEF ShowNext, LineMarks
  <1>4. CASE DropNext \/ ReplyNext
    BY <1>4, NothingKeeps DEF DropNext, ReplyNext
  <1> QED BY <1>2, <1>3, <1>4 DEF LoopStep

(* The window keys. *)
LEMMA KeysTurn ==
  ASSUME IInv, PreviousWindow \/ NextWindow
  PROVE  Kept
  <1> USE DEF IInv
  <1>1. PICK idx \in 1 .. Len(targets) : MoveTo(idx)
    BY DEF PreviousWindow, NextWindow, WindowsOK, StatusIdx
  <1>2. UNCHANGED <<targets, channels, userMessages, shown, result>> /\ Redraw(idx)
    BY <1>1 DEF MoveTo, UserActs
  <1>3. selected' = idx
    <2>1. targets' \in Seq(Windows) /\ channels' \subseteq Channels
          /\ userMessages' \subseteq Nicks /\ TargetsMatchWindows' /\ idx \in 1 .. Len(targets')
      BY <1>2 DEF WindowsOK, TargetsMatchWindows
    <2> QED BY <1>2, <2>1, RedrawKeeps
  <1>4. Turns
    BY <1>2, <1>3 DEF Turns
  <1> QED BY <1>2, <1>4 DEF Kept, WindowStep, ShownOK, ResultOK

LEMMA UserWindows ==
  ASSUME IInv, UserStep
  PROVE  Kept
  <1> USE DEF IInv
  <1>1. CASE PreviousWindow \/ NextWindow
    BY <1>1, KeysTurn
  <1>2. ASSUME NEW cmd, NEW arg, CommandRefused(cmd, arg) PROVE Kept
    BY <1>2, ReportKeeps DEF CommandRefused
  <1>3. CASE SendLine
    <2>1. CurrentTarget \in Windows /\ nick \in Sources
      BY DEF CurrentTarget, WindowsOK, OthersOK, Sources
    <2> QED BY <1>3, <2>1, AddLineKeeps DEF SendLine, LineMarks
  <1>4. ASSUME NEW c \in Channels, JoinCommand(c) PROVE Kept
    <2>1. WindowStep
      BY <1>4, EnsureStep DEF JoinCommand, Windows
    <2> QED BY <1>4, <2>1 DEF JoinCommand, UserActs, Kept, ShownOK, ResultOK
  <1>5. CASE RawCommand \/ QuitCommand
    BY <1>5 DEF RawCommand, QuitCommand, UserActs, Kept, WindowStep, ShownOK, ResultOK
  <1>6. ASSUME NEW n \in Nicks, MsgCommand(n) PROVE Kept
    <2>1. WindowStep
      BY <1>6, EnsureStep DEF MsgCommand, Windows
    <2> QED BY <1>6, <2>1 DEF MsgCommand, UserActs, Kept, ShownOK, ResultOK
  <1> QED BY <1>1, <1>2, <1>3, <1>4, <1>5, <1>6 DEF UserStep

LEMMA NextWindows ==
  ASSUME IInv, [Next]_vars
  PROVE  Kept
  <1>1. CASE ThreadStep
    BY <1>1 DEF ThreadStep, WriterTakes, WriterCloses, MainQuits, Kept, WindowStep, IInv,
                ShownOK, ResultOK
  <1>2. CASE UNCHANGED vars
    BY <1>2 DEF vars, Kept, WindowStep, IInv, ShownOK, ResultOK
  <1> QED BY <1>1, <1>2, ServerWindows, LoopWindows, UserWindows DEF Next

-----------------------------------------------------------------------------
(* The types of the other variables. *)

LEMMA SendOK ==
  ASSUME outbox \in Seq(OutMessages), NEW to \in Windows,
         NEW cmd \in {"PONG", "QUIT", "JOIN", "PRIVMSG", "RAW", "NOTICE"}, Send(cmd, to)
  PROVE  outbox' \in Seq(OutMessages)
  <1>1. [cmd |-> cmd, to |-> to] \in OutMessages
    BY DEF OutMessages
  <1> QED BY <1>1 DEF Send

LEMMA StartLoopOK ==
  ASSUME OthersOK, NEW kind \in {"JOIN", "PART", "MESSAGE"}, NEW src \in Sources,
         NEW body \in Bodies, NEW list \in Seq(Channels \cup Nicks),
         StartLoop(kind, src, body, list)
  PROVE  /\ rest' \in Seq(Channels \cup Nicks)
         /\ handling' \in [kind : {"NONE", "JOIN", "PART", "MESSAGE"}, src : Sources, body : Bodies]
  <1>1. rest' = list
    BY DEF StartLoop
  <1>2. handling' = Idle \/ handling' = [kind |-> kind, src |-> src, body |-> body]
    BY DEF StartLoop
  <1>3. Idle \in [kind : {"NONE", "JOIN", "PART", "MESSAGE"}, src : Sources, body : Bodies]
    BY DEF Idle, Sources, Bodies
  <1> QED BY <1>1, <1>2, <1>3

LEMMA ServerOthers ==
  ASSUME IInv, ServerStep
  PROVE  OthersOK'
  <1> USE DEF IInv
  <1>0. Status \in Windows /\ "plain" \in Bodies /\ NoSource \in Sources
    BY DEF Windows, Bodies, Sources
  <1>1. CASE HandlePing
    <2>1. outbox' \in Seq(OutMessages)
      BY <1>0, <1>1, SendOK DEF HandlePing, OthersOK
    <2> QED BY <1>1, <2>1 DEF HandlePing, UserIdle, netVars, loopVars, chanVars, OthersOK
  <1>2. ASSUME NEW src \in Sources, HandleQuit(src) PROVE OthersOK'
    BY <1>2 DEF HandleQuit, UserIdle, netVars, loopVars, chanVars, OthersOK
  <1>3. ASSUME NEW t \in Channels \cup Nicks, NEW mode \in Modes \cup {NoModes}, HandleMode(t, mode)
        PROVE OthersOK'
    BY <1>3 DEF HandleMode, UserIdle, netVars, loopVars, OthersOK
  <1>4. ASSUME NEW granted \in Nicks, NEW ok \in BOOLEAN, HandleWelcome(granted, ok) PROVE OthersOK'
    <2>1. CASE conn = "connected" \/ ~ok
      BY <1>4, <2>1 DEF HandleWelcome, UserIdle, netVars, loopVars, chanVars, OthersOK
    <2>2. CASE conn # "connected" /\ ok
      <3>1. /\ conn' = "connected" /\ nick' = granted /\ replying' = {}
            /\ modes' = [c \in Channels |-> NoModes]
            /\ users' = [c \in Channels |-> {}]
            /\ activeNames' = [c \in ReplyNames |-> {}]
            /\ UNCHANGED <<outbox, writer, input, quit, handling, rest>>
        BY <1>4, <2>2 DEF HandleWelcome, UserIdle, netVars, loopVars
      <3>2. /\ modes' \in [Channels -> Modes \cup {NoModes}]
            /\ users' \in [Channels -> SUBSET Names]
            /\ activeNames' \in [ReplyNames -> SUBSET Names]
        BY <3>1
      <3> QED BY <3>1, <3>2 DEF OthersOK
    <2> QED BY <2>1, <2>2
  <1>5. ASSUME NEW ok \in BOOLEAN, HandleInfo(ok) \/ HandleText(ok) PROVE OthersOK'
    BY <1>5 DEF HandleInfo, HandleText, UserIdle, netVars, loopVars, chanVars, OthersOK
  <1>6. ASSUME NEW args \in {"ok", "not a number", "missing"}, HandleCount(args) PROVE OthersOK'
    BY <1>6 DEF HandleCount, UserIdle, netVars, loopVars, chanVars, OthersOK
  <1>7. CASE HandleNoMotd
    BY <1>7 DEF HandleNoMotd, UserIdle, netVars, loopVars, chanVars, OthersOK
  <1>8. ASSUME NEW kind \in MessageKinds, HandleIgnored(kind) \/ HandleUnhandled(kind) PROVE OthersOK'
    BY <1>8 DEF HandleIgnored, HandleUnhandled, UserIdle, netVars, loopVars, chanVars, OthersOK
  <1>9. ASSUME NEW c \in ReplyNames, NEW names \in SUBSET Names, NEW ok \in BOOLEAN,
               HandleNamReply(c, names, ok)
        PROVE OthersOK'
    BY <1>9 DEF HandleNamReply, UserIdle, netVars, loopVars, chanVars, OthersOK
  <1>10. ASSUME NEW c \in ReplyNames, NEW ok \in BOOLEAN, HandleEndOfNames(c, ok) PROVE OthersOK'
    BY <1>10 DEF HandleEndOfNames, UserIdle, netVars, loopVars, chanVars, OthersOK
  <1>11. ASSUME NEW src \in Sources, NEW list \in Lists(Channels),
                HandleJoin(src, list) \/ HandlePart(src, list)
         PROVE OthersOK'
    <2>1. list \in Seq(Channels \cup Nicks)
      <3>1. list \in Seq(Channels)
        BY ListsAreSeqs
      <3> QED BY <3>1
    <2>2. /\ rest' \in Seq(Channels \cup Nicks)
          /\ handling' \in [kind : {"NONE", "JOIN", "PART", "MESSAGE"}, src : Sources, body : Bodies]
      BY <1>0, <1>11, <2>1, StartLoopOK DEF HandleJoin, HandlePart, loopVars, OthersOK
    <2> QED BY <1>11, <2>2 DEF HandleJoin, HandlePart, chanVars, netVars, OthersOK
  <1>12. ASSUME NEW src \in Sources, NEW body \in Bodies, NEW list \in Lists(Channels \cup Nicks),
                HandleMessage(src, body, list)
         PROVE OthersOK'
    <2>1. list \in Seq(Channels \cup Nicks)
      BY ListsAreSeqs
    <2>2. /\ rest' \in Seq(Channels \cup Nicks)
          /\ handling' \in [kind : {"NONE", "JOIN", "PART", "MESSAGE"}, src : Sources, body : Bodies]
      BY <1>12, <2>1, StartLoopOK DEF HandleMessage
    <2> QED BY <1>12, <2>2 DEF HandleMessage, chanVars, netVars, OthersOK
  <1> QED BY <1>1, <1>2, <1>3, <1>4, <1>5, <1>6, <1>7, <1>8, <1>9, <1>10, <1>11, <1>12 DEF ServerStep

LEMMA LoopOthers ==
  ASSUME IInv, LoopStep
  PROVE  OthersOK'
  <1> USE DEF IInv
  <1>1. ASSUME NEW kinds, NextTarget(kinds)
        PROVE  /\ rest' \in Seq(Channels \cup Nicks)
               /\ handling' \in [kind : {"NONE", "JOIN", "PART", "MESSAGE"}, src : Sources, body : Bodies]
               /\ UNCHANGED <<conn, nick, modes, users, replying, activeNames, writer, input, quit>>
    <2>1. Idle \in [kind : {"NONE", "JOIN", "PART", "MESSAGE"}, src : Sources, body : Bodies]
      BY DEF Idle, Sources, Bodies
    <2>2. rest' \in Seq(Channels \cup Nicks)
      BY <1>1 DEF NextTarget, OthersOK
    <2> QED BY <1>1, <2>1, <2>2 DEF NextTarget, chanVars, netVars, OthersOK
  <1>2. PICK kinds : NextTarget(kinds)
    BY DEF LoopStep, AnnounceNext, DropNext, ShowNext, ReplyNext
  <1>3. outbox' \in Seq(OutMessages)
    <2>1. CASE AnnounceNext \/ DropNext \/ ShowNext
      BY <2>1 DEF AnnounceNext, DropNext, ShowNext, OthersOK
    <2>2. CASE ReplyNext
      <3>1. handling.src \in Windows
        BY <2>2 DEF ReplyNext, Dropped, Windows
      <3> QED BY <2>2, <3>1, SendOK DEF ReplyNext, OthersOK
    <2> QED BY <2>1, <2>2 DEF LoopStep
  <1> QED BY <1>1, <1>2, <1>3 DEF OthersOK

LEMMA UserOthers ==
  ASSUME IInv, UserStep
  PROVE  OthersOK'
  <1> USE DEF IInv
  <1>0. Status \in Windows /\ CurrentTarget \in Windows /\ Channels \subseteq Windows
    BY DEF Windows, CurrentTarget, WindowsOK
  <1>1. UNCHANGED <<conn, nick, modes, users, replying, activeNames, writer, handling, rest>>
    BY DEF UserStep, PreviousWindow, NextWindow, MoveTo, CommandRefused, SendLine, JoinCommand,
           RawCommand, MsgCommand, QuitCommand, UserActs, chanVars, loopVars
  <1>2. input' \in {"open", "closed"} /\ quit' \in BOOLEAN
    BY DEF UserStep, PreviousWindow, NextWindow, MoveTo, CommandRefused, SendLine, JoinCommand,
           RawCommand, MsgCommand, QuitCommand, OthersOK
  <1>3. outbox' \in Seq(OutMessages)
    <2>1. CASE \/ PreviousWindow \/ NextWindow \/ (\E n \in Nicks : MsgCommand(n))
               \/ \E cmd \in {"bad", "line", "join", "raw", "msg", "quit"}, arg \in ArgNames :
                    CommandRefused(cmd, arg)
      BY <2>1 DEF PreviousWindow, NextWindow, MoveTo, MsgCommand, CommandRefused, OthersOK
    <2>2. CASE SendLine
      BY <1>0, <2>2, SendOK DEF SendLine, OthersOK
    <2>3. ASSUME NEW c \in Channels, JoinCommand(c) PROVE outbox' \in Seq(OutMessages)
      BY <1>0, <2>3, SendOK DEF JoinCommand, OthersOK
    <2>4. CASE RawCommand \/ QuitCommand
      BY <1>0, <2>4, SendOK DEF RawCommand, QuitCommand, OthersOK
    <2> QED BY <2>1, <2>2, <2>3, <2>4 DEF UserStep
  <1> QED BY <1>1, <1>2, <1>3 DEF OthersOK

LEMMA ThreadOthers ==
  ASSUME IInv, ThreadStep
  PROVE  OthersOK'
  <1> USE DEF IInv
  <1>1. outbox' \in Seq(OutMessages) /\ writer' \in {"open", "closed"}
    <2>1. CASE WriterTakes
      BY <2>1 DEF WriterTakes, OthersOK, netVars
    <2>2. CASE WriterCloses
      BY <2>2 DEF WriterCloses
    <2>3. CASE MainQuits
      BY <2>3 DEF MainQuits, OthersOK, netVars
    <2> QED BY <2>1, <2>2, <2>3 DEF ThreadStep
  <1> QED BY <1>1 DEF ThreadStep, WriterTakes, WriterCloses, MainQuits, OthersOK, netVars,
                      chanVars, loopVars

LEMMA NextOthers ==
  ASSUME IInv, [Next]_vars
  PROVE  OthersOK'
  <1>1. CASE UNCHANGED vars
    BY <1>1 DEF vars, chanVars, netVars, loopVars, IInv, OthersOK
  <1> QED BY <1>1, ServerOthers, LoopOthers, UserOthers, ThreadOthers DEF Next

-----------------------------------------------------------------------------
(* The inductive invariant is preserved. *)

(* Before registration a loop over a message that is not dropped is a PART *)
(* (or a JOIN), and none of the user's commands is accepted but /quit.     *)
LEMMA EarlyMessagesAreDropped ==
  ASSUME IInv, conn = "registration", handling.kind = "MESSAGE", rest # <<>>
  PROVE  Dropped(Head(rest))
  <1>1. handling.src \notin Nicks /\ rest \in Seq(Nicks)
    BY DEF IInv, EarlyLoop
  <1> QED BY <1>1 DEF Dropped

LEMMA EarlyLoopStep ==
  ASSUME IInv, [Next]_vars
  PROVE  EarlyLoop'
  <1> USE DEF IInv
  <1>1. SUFFICES ASSUME conn' = "registration", handling'.kind = "MESSAGE"
                 PROVE  handling'.src \notin Nicks /\ rest' \in Seq(Nicks)
    BY DEF EarlyLoop
  <1>2. CASE UNCHANGED loopVars /\ conn = "registration"
    BY <1>1, <1>2 DEF loopVars, EarlyLoop
  <1>3. ASSUME NEW src \in Sources, NEW list \in Lists(Channels),
               HandleJoin(src, list) \/ HandlePart(src, list)
        PROVE  handling'.src \notin Nicks /\ rest' \in Seq(Nicks)
    <2>1. CASE UNCHANGED loopVars
      <3>1. conn = "registration"
        BY <1>1, <1>3 DEF HandleJoin, HandlePart
      <3> QED BY <1>2, <2>1, <3>1
    <2>2. CASE ~UNCHANGED loopVars
      <3>1. handling' = Idle \/ handling'.kind \in {"JOIN", "PART"}
        BY <1>3, <2>2 DEF HandleJoin, HandlePart, StartLoop
      <3> QED BY <1>1, <3>1 DEF Idle
    <2> QED BY <2>1, <2>2
  <1>4. ASSUME NEW src \in Sources, NEW body \in Bodies, NEW list \in Lists(Channels \cup Nicks),
               HandleMessage(src, body, list)
        PROVE  handling'.src \notin Nicks /\ rest' \in Seq(Nicks)
    <2>1. conn = "registration" /\ FromServerToUs(src, list)
      BY <1>1, <1>4 DEF HandleMessage
    <2>2. /\ rest' = list
          /\ handling' \in {Idle, [kind |-> "MESSAGE", src |-> src, body |-> body]}
      BY <1>4 DEF HandleMessage, StartLoop
    <2>3. handling'.src = src
      BY <1>1, <2>2 DEF Idle
    <2> QED BY <2>1, <2>2, <2>3 DEF FromServerToUs
  <1>5. CASE LoopStep
    <2>1. PICK kinds : NextTarget(kinds)
      BY <1>5 DEF LoopStep, AnnounceNext, DropNext, ShowNext, ReplyNext
    <2>2. conn = "registration" /\ rest # <<>> /\ rest' = Tail(rest)
          /\ (handling' = Idle \/ handling' = handling)
      BY <1>1, <2>1 DEF NextTarget
    <2>3. handling' = handling
      BY <1>1, <2>2 DEF Idle
    <2>4. handling.src \notin Nicks /\ rest \in Seq(Nicks)
      BY <1>1, <2>2, <2>3 DEF EarlyLoop
    <2> QED BY <2>2, <2>3, <2>4
  <1>6. CASE UserStep \/ ThreadStep \/ UNCHANGED vars
    <2>1. UNCHANGED loopVars /\ conn' = conn
      BY <1>6 DEF UserStep, PreviousWindow, NextWindow, MoveTo, CommandRefused, SendLine, JoinCommand,
           RawCommand, MsgCommand, QuitCommand, UserActs, ThreadStep, WriterTakes, WriterCloses,
           MainQuits, vars
    <2> QED BY <1>1, <1>2, <2>1
  <1>7. CASE ServerStep
    <2>1. \/ UNCHANGED loopVars /\ conn = "registration"
          \/ \E src \in Sources, list \in Lists(Channels) : HandleJoin(src, list) \/ HandlePart(src, list)
          \/ \E src \in Sources, body \in Bodies, list \in Lists(Channels \cup Nicks) :
               HandleMessage(src, body, list)
      BY <1>1, <1>7 DEF ServerStep, HandlePing, HandleQuit, HandleMode, HandleWelcome, HandleInfo,
           HandleText, HandleCount, HandleNoMotd, HandleIgnored, HandleUnhandled, HandleNamReply,
           HandleEndOfNames, UserIdle
    <2> QED BY <1>2, <1>3, <1>4, <2>1
  <1> QED BY <1>5, <1>6, <1>7 DEF Next

LEMMA RegistrationStep ==
  ASSUME IInv, [Next]_vars
  PROVE  RegistrationIsBare'
  <1> USE DEF IInv
  <1>1. SUFFICES ASSUME conn' = "registration" PROVE RegistrationIsBare'
    BY DEF RegistrationIsBare
  <1>2. conn = "registration"
    BY <1>1 DEF Next, ServerStep, HandlePing, HandleQuit, HandleMode, HandleWelcome, HandleInfo,
         HandleText, HandleCount, HandleNoMotd, HandleIgnored, HandleUnhandled, HandleNamReply,
         HandleEndOfNames, HandleJoin, HandlePart, HandleMessage, LoopStep, AnnounceNext, DropNext,
         ShowNext, ReplyNext, NextTarget, UserStep, PreviousWindow, NextWindow, MoveTo, CommandRefused,
         SendLine, JoinCommand, RawCommand, MsgCommand, QuitCommand, UserActs, ThreadStep, WriterTakes,
         WriterCloses, MainQuits, vars
  <1>3. /\ targets = <<Status>> /\ channels = {} /\ userMessages = {} /\ replying = {}
        /\ \A i \in DOMAIN outbox : outbox[i].cmd \in {"PONG", "QUIT"}
    BY <1>2 DEF RegistrationIsBare
  <1>4. replying' = {}
    BY <1>2, <1>3 DEF Next, ServerStep, HandlePing, HandleQuit, HandleMode, HandleWelcome, HandleInfo,
         HandleText, HandleCount, HandleNoMotd, HandleIgnored, HandleUnhandled, HandleNamReply,
         HandleEndOfNames, HandleJoin, HandlePart, HandleMessage, LoopStep, AnnounceNext, DropNext,
         ShowNext, ReplyNext, NextTarget, UserStep, PreviousWindow, NextWindow, MoveTo, CommandRefused,
         SendLine, JoinCommand, RawCommand, MsgCommand, QuitCommand, UserActs, ThreadStep, WriterTakes,
         WriterCloses, MainQuits, vars, chanVars
  <1>5. \A i \in DOMAIN outbox' : outbox'[i].cmd \in {"PONG", "QUIT"}
    <2>0. outbox \in Seq(OutMessages)
      BY DEF OthersOK
    <2>1. ASSUME NEW to, NEW cmd \in {"PONG", "QUIT"}, Send(cmd, to)
          PROVE  \A i \in DOMAIN outbox' : outbox'[i].cmd \in {"PONG", "QUIT"}
      <3>1. outbox' = Append(outbox, [cmd |-> cmd, to |-> to])
        BY <2>1 DEF Send
      <3>2. /\ DOMAIN outbox' = 1 .. Len(outbox) + 1
            /\ \A i \in 1 .. Len(outbox) : i \in DOMAIN outbox /\ outbox'[i] = outbox[i]
            /\ outbox'[Len(outbox) + 1] = [cmd |-> cmd, to |-> to]
        BY <2>0, <3>1
      <3>3. Len(outbox) \in Nat
        BY <2>0
      <3> QED BY <1>3, <3>2, <3>3
    <2>2. CASE ServerStep
      <3>1. UNCHANGED outbox \/ Send("PONG", Status)
        BY <2>2 DEF ServerStep, HandlePing, HandleQuit, HandleMode, HandleWelcome, HandleInfo,
           HandleText, HandleCount, HandleNoMotd, HandleIgnored, HandleUnhandled, HandleNamReply,
           HandleEndOfNames, HandleJoin, HandlePart, HandleMessage
      <3> QED BY <1>3, <2>1, <3>1
    <2>3. CASE LoopStep
      <3>1. UNCHANGED outbox
        BY <1>2, <2>3, EarlyMessagesAreDropped
        DEF LoopStep, AnnounceNext, DropNext, ShowNext, ReplyNext, NextTarget
      <3> QED BY <1>3, <3>1
    <2>4. CASE UserStep
      <3>1. UNCHANGED outbox \/ Send("QUIT", Status)
        BY <1>2, <2>4 DEF UserStep, PreviousWindow, NextWindow, MoveTo, CommandRefused, SendLine,
           JoinCommand, RawCommand, MsgCommand, QuitCommand, Refuse
      <3> QED BY <1>3, <2>1, <3>1
    <2>5. CASE WriterTakes
      <3>1. outbox # <<>> /\ outbox' = Tail(outbox)
        BY <2>5 DEF WriterTakes
      <3>2. \A i \in DOMAIN outbox' : i + 1 \in DOMAIN outbox /\ outbox'[i] = outbox[i + 1]
        BY <2>0, <3>1
      <3> QED BY <1>3, <3>2
    <2>6. CASE WriterCloses \/ MainQuits \/ UNCHANGED vars
      <3>1. outbox' = <<>> \/ UNCHANGED outbox
        BY <2>6 DEF WriterCloses, MainQuits, vars
      <3> QED BY <1>3, <3>1
    <2> QED BY <2>2, <2>3, <2>4, <2>5, <2>6 DEF Next, ThreadStep
  <1>6. UNCHANGED <<targets, channels, userMessages>>
    <2>1. CASE ServerStep
      BY <1>1, <1>2, <1>3, <2>1 DEF ServerStep, HandlePing, HandleQuit, HandleMode, HandleWelcome,
         HandleInfo, HandleText, HandleCount, HandleNoMotd, HandleIgnored, HandleUnhandled,
         HandleNamReply, HandleEndOfNames, HandleJoin, HandlePart, HandleMessage, AddLine,
         WarnInStatus, Report, Fail, Nothing, StartLoop, winVars
    <2>2. CASE LoopStep
      BY <1>2, <2>2 DEF LoopStep, AnnounceNext, DropNext, ShowNext, ReplyNext, AddLine, Nothing, winVars
    <2>3. CASE UserStep
      BY <1>2, <2>3 DEF UserStep, PreviousWindow, NextWindow, MoveTo, CommandRefused, SendLine,
         JoinCommand, RawCommand, MsgCommand, QuitCommand, Refuse, Report, winVars
    <2>4. CASE ThreadStep \/ UNCHANGED vars
      BY <2>4 DEF ThreadStep, WriterTakes, WriterCloses, MainQuits, vars, winVars
    <2> QED BY <2>1, <2>2, <2>3, <2>4 DEF Next
  <1> QED BY <1>3, <1>4, <1>5, <1>6 DEF RegistrationIsBare

LEMMA NextIInv == IInv /\ [Next]_vars => IInv'
  <1> SUFFICES ASSUME IInv, [Next]_vars PROVE IInv'
    OBVIOUS
  <1>1. WindowsOK' /\ ShownOK' /\ ResultOK'
    BY NextWindows, WindowStepOK DEF Kept, IInv
  <1> QED BY <1>1, NextOthers, EarlyLoopStep, RegistrationStep DEF IInv

LEMMA Invariance == Spec => []IInv
  BY InitIInv, NextIInv, PTL DEF Spec

-----------------------------------------------------------------------------
(* What rests on the inductive invariant, each by a step of its own.       *)

(* No step but the end of registration closes a window, and before that    *)
(* none is open.                                                           *)
LEMMA WindowsStay ==
  ASSUME IInv, [Next]_vars
  PROVE  channels \subseteq channels' /\ userMessages \subseteq userMessages'
  <1>1. WindowStep
    BY NextWindows DEF Kept
  <1>2. ASSUME NEW t \in Windows, Opens(t)
        PROVE  channels \subseteq channels' /\ userMessages \subseteq userMessages'
    BY <1>2 DEF Opens, EnsureTargetExists
  <1> QED BY <1>1, <1>2 DEF WindowStep, Turns, winVars

(* Only the loop over a message's targets shows a line as a user's.        *)
LEMMA OnlyMessagesAreChat ==
  ASSUME IInv, [Next]_vars
  PROVE  shown' = shown \/ shown'.mark # "chat" \/ ShowNext
  <1>1. CASE ServerStep
    BY <1>1 DEF ServerStep, HandlePing, HandleQuit, HandleMode, HandleWelcome, HandleInfo,
       HandleText, HandleCount, HandleNoMotd, HandleIgnored, HandleUnhandled, HandleNamReply,
       HandleEndOfNames, HandleJoin, HandlePart, HandleMessage, StartLoop, AddLine, WarnInStatus,
       Report, Fail, Nothing, Show
  <1>2. CASE LoopStep
    BY <1>2 DEF LoopStep, AnnounceNext, DropNext, ReplyNext, AddLine, Nothing, Show
  <1>3. CASE UserStep
    BY <1>3 DEF UserStep, PreviousWindow, NextWindow, MoveTo, CommandRefused, SendLine, JoinCommand,
       RawCommand, MsgCommand, QuitCommand, Report, AddLine, Show
  <1>4. CASE ThreadStep \/ UNCHANGED vars
    BY <1>4 DEF ThreadStep, WriterTakes, WriterCloses, MainQuits, vars
  <1> QED BY <1>1, <1>2, <1>3, <1>4 DEF Next

LEMMA ChatRoutingStep ==
  ASSUME IInv, ChatRouting, [Next]_vars
  PROVE  ChatRouting'
  <1>1. CASE shown' = shown \/ shown'.mark # "chat"
    BY <1>1 DEF ChatRouting
  <1>2. CASE ShowNext
    <2>1. /\ MessageTarget(Head(rest)) \in Nicks => MessageTarget(Head(rest)) = handling.src
          /\ AddLine(MessageTarget(Head(rest)), "chat", handling.src)
      BY <1>2, MessageTargetOK DEF ShowNext, NextTarget
    <2>2. shown' = shown \/ shown' = [window |-> MessageTarget(Head(rest)), mark |-> "chat",
                                      from |-> handling.src]
      BY <2>1 DEF AddLine, Show
    <2> QED BY <2>1, <2>2 DEF ChatRouting
  <1> QED BY <1>1, <1>2, OnlyMessagesAreChat

(* Where a message in the outbox may go while these windows are open.      *)
WellAddressed(m, chans, nicks) ==
  /\ m.cmd = "JOIN" => m.to \in chans
  /\ m.cmd = "PRIVMSG" => m.to \in chans \cup nicks
  /\ m.cmd = "NOTICE" => m.to \in Nicks

(* What each step does to the outbox. *)
LEMMA OutboxStep ==
  ASSUME IInv, [Next]_vars
  PROVE  \/ UNCHANGED outbox \/ outbox' = <<>>
         \/ outbox # <<>> /\ outbox' = Tail(outbox)
         \/ \E m \in OutMessages : outbox' = Append(outbox, m) /\ WellAddressed(m, channels', userMessages')
  <1>0. ASSUME NEW cmd \in {"PONG", "QUIT", "JOIN", "PRIVMSG", "RAW", "NOTICE"}, NEW to \in Windows,
               Send(cmd, to),
               cmd = "JOIN" => to \in channels',
               cmd = "PRIVMSG" => to \in channels' \cup userMessages',
               cmd = "NOTICE" => to \in Nicks
        PROVE  \E m \in OutMessages : outbox' = Append(outbox, m) /\ WellAddressed(m, channels', userMessages')
    <2>1. [cmd |-> cmd, to |-> to] \in OutMessages
      BY DEF OutMessages
    <2>2. outbox' = Append(outbox, [cmd |-> cmd, to |-> to])
      BY <1>0 DEF Send
    <2>3. WellAddressed([cmd |-> cmd, to |-> to], channels', userMessages')
      BY <1>0 DEF WellAddressed
    <2> QED BY <2>1, <2>2, <2>3
  <1>s. Status \in Windows
    BY DEF Windows
  <1>1. CASE ServerStep
    <2>1. UNCHANGED outbox \/ Send("PONG", Status)
      BY <1>1 DEF ServerStep, HandlePing, HandleQuit, HandleMode, HandleWelcome, HandleInfo,
         HandleText, HandleCount, HandleNoMotd, HandleIgnored, HandleUnhandled, HandleNamReply,
         HandleEndOfNames, HandleJoin, HandlePart, HandleMessage
    <2> QED BY <1>0, <1>s, <2>1
  <1>2. CASE LoopStep
    <2>1. UNCHANGED outbox \/ (ReplyNext /\ Send("NOTICE", handling.src))
      BY <1>2 DEF LoopStep, AnnounceNext, DropNext, ShowNext, ReplyNext
    <2>2. ReplyNext => handling.src \in Nicks
      BY DEF ReplyNext, Dropped
    <2> QED BY <1>0, <2>1, <2>2 DEF Windows
  <1>3. CASE UserStep
    <2>1. CASE SendLine
      <3>1. CurrentTarget \in channels \cup userMessages
        BY <2>1 DEF SendLine, Refuse, CurrentTarget, IInv, WindowsOK, TargetsMatchWindows
      <3>2. CurrentTarget \in channels' \cup userMessages' /\ CurrentTarget \in Windows
        BY <3>1, WindowsStay DEF IInv, WindowsOK, Windows
      <3> QED BY <1>0, <2>1, <3>2 DEF SendLine
    <2>2. ASSUME NEW c \in Channels, JoinCommand(c)
          PROVE  \E m \in OutMessages : outbox' = Append(outbox, m) /\ WellAddressed(m, channels', userMessages')
      <3>1. c \in channels'
        BY <2>2, DistinctNames DEF JoinCommand, EnsureTargetExists, HasWindow, IInv, WindowsOK
      <3> QED BY <1>0, <2>2, <3>1 DEF JoinCommand, Windows
    <2>3. CASE RawCommand \/ QuitCommand
      BY <1>0, <1>s, <2>3 DEF RawCommand, QuitCommand
    <2>4. UNCHANGED outbox \/ SendLine \/ (\E c \in Channels : JoinCommand(c)) \/ RawCommand \/ QuitCommand
      BY <1>3 DEF UserStep, PreviousWindow, NextWindow, MoveTo, CommandRefused, MsgCommand
    <2> QED BY <2>1, <2>2, <2>3, <2>4
  <1>4. CASE ThreadStep \/ UNCHANGED vars
    BY <1>4 DEF ThreadStep, WriterTakes, WriterCloses, MainQuits, vars
  <1> QED BY <1>1, <1>2, <1>3, <1>4 DEF Next

LEMMA OutboxWellAddressedStep ==
  ASSUME IInv, OutboxWellAddressed, [Next]_vars
  PROVE  OutboxWellAddressed'
  <1>1. OutboxWellAddressed <=> \A i \in DOMAIN outbox : WellAddressed(outbox[i], channels, userMessages)
    BY DEF OutboxWellAddressed, WellAddressed
  <1>2. OutboxWellAddressed' <=> \A i \in DOMAIN outbox' : WellAddressed(outbox'[i], channels', userMessages')
    BY DEF OutboxWellAddressed, WellAddressed
  <1>3. outbox \in Seq(OutMessages)
    BY DEF IInv, OthersOK
  <1>4. ASSUME NEW m, WellAddressed(m, channels, userMessages)
        PROVE  WellAddressed(m, channels', userMessages')
    BY <1>4, WindowsStay DEF WellAddressed
  <1>5. CASE UNCHANGED outbox \/ outbox' = <<>>
    BY <1>1, <1>2, <1>4, <1>5
  <1>6. CASE outbox # <<>> /\ outbox' = Tail(outbox)
    <2>1. \A i \in DOMAIN outbox' : i + 1 \in DOMAIN outbox /\ outbox'[i] = outbox[i + 1]
      BY <1>3, <1>6
    <2> QED BY <1>1, <1>2, <1>4, <2>1
  <1>7. ASSUME NEW m \in OutMessages, outbox' = Append(outbox, m), WellAddressed(m, channels', userMessages')
        PROVE  OutboxWellAddressed'
    <2>1. /\ DOMAIN outbox' = 1 .. Len(outbox) + 1
          /\ \A i \in 1 .. Len(outbox) : i \in DOMAIN outbox /\ outbox'[i] = outbox[i]
          /\ outbox'[Len(outbox) + 1] = m
      BY <1>3, <1>7
    <2>2. Len(outbox) \in Nat
      BY <1>3
    <2>3. ASSUME NEW i \in DOMAIN outbox' PROVE WellAddressed(outbox'[i], channels', userMessages')
      <3>1. CASE i \in 1 .. Len(outbox)
        BY <1>1, <1>4, <2>1, <3>1
      <3>2. CASE i = Len(outbox) + 1
        BY <1>7, <2>1, <3>2
      <3> QED BY <2>1, <2>2, <3>1, <3>2
    <2> QED BY <1>2, <2>3
  <1> QED BY <1>5, <1>6, <1>7, OutboxStep

(* Names and modes change for an open channel only, and what was collected *)
(* under an active reply.                                                  *)
LEMMA ClosedChannelsStep ==
  ASSUME IInv, NothingOfClosedChannels, [Next]_vars
  PROVE  NothingOfClosedChannels'
  <1>0. channels \subseteq channels' /\ OthersOK
    BY WindowsStay DEF IInv
  <1>u. CASE UNCHANGED chanVars
    BY <1>0, <1>u DEF NothingOfClosedChannels, chanVars
  <1>1. ASSUME NEW t \in Channels \cup Nicks, NEW mode \in Modes \cup {NoModes}, HandleMode(t, mode)
        PROVE  NothingOfClosedChannels'
    <2>1. /\ modes' = modes \/ (t \in channels /\ modes' = [modes EXCEPT ![t] = mode])
          /\ UNCHANGED <<users, replying, activeNames>>
      BY <1>1 DEF HandleMode
    <2> QED BY <1>0, <2>1 DEF NothingOfClosedChannels, OthersOK
  <1>2. ASSUME NEW granted \in Nicks, NEW ok \in BOOLEAN, HandleWelcome(granted, ok)
        PROVE  NothingOfClosedChannels'
    <2>1. \/ UNCHANGED chanVars
          \/ /\ modes' = [c \in Channels |-> NoModes]
             /\ users' = [c \in Channels |-> {}]
             /\ replying' = {}
             /\ activeNames' = [c \in ReplyNames |-> {}]
      BY <1>2 DEF HandleWelcome
    <2> QED BY <1>u, <2>1 DEF NothingOfClosedChannels
  <1>3. ASSUME NEW c \in ReplyNames, NEW names \in SUBSET Names, NEW ok \in BOOLEAN,
               HandleNamReply(c, names, ok)
        PROVE  NothingOfClosedChannels'
    <2>1. \/ UNCHANGED chanVars
          \/ /\ replying' = replying \cup {c}
             /\ activeNames' = [activeNames EXCEPT ![c] = @ \cup names]
             /\ UNCHANGED <<modes, users>>
      BY <1>3 DEF HandleNamReply
    <2> QED BY <1>0, <1>u, <2>1 DEF NothingOfClosedChannels, OthersOK
  <1>4. ASSUME NEW c \in ReplyNames, NEW ok \in BOOLEAN, HandleEndOfNames(c, ok)
        PROVE  NothingOfClosedChannels'
    <2>1. \/ UNCHANGED chanVars
          \/ /\ replying' = replying \ {c}
             /\ activeNames' = [activeNames EXCEPT ![c] = {}]
             /\ UNCHANGED modes
             /\ \/ UNCHANGED users
                \/ c \in channels /\ users' = [users EXCEPT ![c] = @ \cup activeNames[c]]
      BY <1>4 DEF HandleEndOfNames
    <2> QED BY <1>0, <1>u, <2>1 DEF NothingOfClosedChannels, OthersOK
  <1>5. CASE ServerStep
    <2>1. \/ UNCHANGED chanVars
          \/ \E t \in Channels \cup Nicks, mode \in Modes \cup {NoModes} : HandleMode(t, mode)
          \/ \E granted \in Nicks, ok \in BOOLEAN : HandleWelcome(granted, ok)
          \/ \E c \in ReplyNames, names \in SUBSET Names, ok \in BOOLEAN : HandleNamReply(c, names, ok)
          \/ \E c \in ReplyNames, ok \in BOOLEAN : HandleEndOfNames(c, ok)
      BY <1>5 DEF ServerStep, HandlePing, HandleQuit, HandleInfo, HandleText, HandleCount,
         HandleNoMotd, HandleIgnored, HandleUnhandled, HandleJoin, HandlePart, HandleMessage
    <2> QED BY <1>u, <1>1, <1>2, <1>3, <1>4, <2>1
  <1>6. CASE LoopStep \/ UserStep \/ ThreadStep \/ UNCHANGED vars
    <2>1. UNCHANGED chanVars
      BY <1>6 DEF LoopStep, AnnounceNext, DropNext, ShowNext, ReplyNext, NextTarget, UserStep,
         PreviousWindow, NextWindow, MoveTo, CommandRefused, SendLine, JoinCommand, RawCommand,
         MsgCommand, QuitCommand, UserActs, ThreadStep, WriterTakes, WriterCloses, MainQuits, vars
    <2> QED BY <1>u, <2>1
  <1> QED BY <1>5, <1>6 DEF Next

-----------------------------------------------------------------------------
(* The theorems. *)

(* Every variable keeps its type. *)
THEOREM TypeCorrect == Spec => []TypeOK
  <1>1. IInv => TypeOK
    BY TypeParts DEF IInv
  <1> QED BY <1>1, Invariance, PTL

(* The window list and the maps of lines never disagree, so the UNWRAPs of *)
(* state.rs:71, 76 and 202 never fail.                                     *)
THEOREM WindowsMatch == Spec => []TargetsMatchWindows
  <1>1. IInv => TargetsMatchWindows
    BY DEF IInv, WindowsOK
  <1> QED BY <1>1, Invariance, PTL

(* Nothing that only a registered client may have exists before 001, and   *)
(* nothing but PONG and QUIT is sent besides the registration itself.      *)
THEOREM BareRegistration == Spec => []RegistrationIsBare
  <1>1. IInv => RegistrationIsBare
    BY DEF IInv
  <1> QED BY <1>1, Invariance, PTL

(* A private message is shown in the window of the user it is from.        *)
THEOREM ChatIsRouted == Spec => []ChatRouting
  <1>1. Init => ChatRouting
    BY DEF Init, ChatRouting
  <1>2. IInv /\ ChatRouting /\ [Next]_vars => ChatRouting'
    BY ChatRoutingStep
  <1> QED BY <1>1, <1>2, Invariance, PTL DEF Spec

(* What waits to be written is for a window that is open, an answer to a   *)
(* CTCP query for a user.                                                  *)
THEOREM OutboxHasWindows == Spec => []OutboxWellAddressed
  <1>1. Init => OutboxWellAddressed
    BY DEF Init, OutboxWellAddressed
  <1>2. IInv /\ OutboxWellAddressed /\ [Next]_vars => OutboxWellAddressed'
    BY OutboxWellAddressedStep
  <1> QED BY <1>1, <1>2, Invariance, PTL DEF Spec

(* In whatever order JOIN, MODE and the NAMES replies arrive, nothing is   *)
(* kept of a channel that is not open or under a reply that is not active. *)
THEOREM ClosedChannelsAreBare == Spec => []NothingOfClosedChannels
  <1>1. Init => NothingOfClosedChannels
    BY DEF Init, NothingOfClosedChannels
  <1>2. IInv /\ NothingOfClosedChannels /\ [Next]_vars => NothingOfClosedChannels'
    BY ClosedChannelsStep
  <1> QED BY <1>1, <1>2, Invariance, PTL DEF Spec

(* The client's windows implement WindowList: every step opens one window  *)
(* that was not open and gives it the focus, moves the focus to an open    *)
(* window, or leaves both alone.                                           *)
THEOREM Refinement == Spec => Implements
  <1>1. Init => WL!Init
    BY DEF Init, WL!Init, StatusIdx
  <1>2. IInv /\ [Next]_vars => [WL!Next]_(WL!vars)
    <2> SUFFICES ASSUME IInv, [Next]_vars PROVE [WL!Next]_(WL!vars)
      OBVIOUS
    <2>0. /\ targets \in Seq(Windows) /\ selected \in 1 .. Len(targets)
          /\ DOMAIN targets = 1 .. Len(targets) /\ Len(targets) \in Nat
      BY DEF IInv, WindowsOK
    <2>1. CASE UNCHANGED winVars
      BY <2>1 DEF winVars, WL!vars
    <2>2. ASSUME NEW t \in Windows, Opens(t) PROVE WL!Open(t)
      <3>1. targets' = Append(targets, t) /\ selected' = Len(targets) + 1
        BY <2>2 DEF Opens, EnsureTargetExists
      <3>2. /\ DOMAIN targets' = 1 .. Len(targets) + 1
            /\ \A i \in 1 .. Len(targets) : targets'[i] = targets[i]
            /\ targets'[Len(targets) + 1] = t
        BY <2>0, <3>1
      <3>3. t \notin {targets[i] : i \in DOMAIN targets}
        BY <2>2 DEF Opens, HasWindow, IInv, WindowsOK, TargetsMatchWindows
      <3>4. {targets'[i] : i \in DOMAIN targets'} = {targets[i] : i \in DOMAIN targets} \cup {t}
        BY <2>0, <3>2
      <3> QED BY <3>1, <3>2, <3>3, <3>4 DEF WL!Open
    <2>3. CASE Turns
      <3>1. targets' = targets /\ selected' \in DOMAIN targets
        BY <2>0, <2>3 DEF Turns
      <3>2. targets[selected'] \in {targets[i] : i \in DOMAIN targets}
        BY <3>1
      <3>3. WL!Focus(targets[selected'])
        BY <3>1, <3>2 DEF WL!Focus
      <3>4. targets[selected'] \in Windows
        BY <2>0, <3>1
      <3> QED BY <3>3, <3>4 DEF WL!Next
    <2>4. WindowStep
      BY NextWindows DEF Kept
    <2> QED BY <2>1, <2>2, <2>3, <2>4 DEF WindowStep, WL!Next
  <1> QED BY <1>1, <1>2, Invariance, PTL DEF Spec, Implements, WL!Spec

(* No message of the server takes the focus from the window the user is in *)
(* but for a window that opens with it.                                    *)
THEOREM FocusStays == Spec => FocusFollowsUser
  <1> DEFINE Moves == selected' # selected =>
               \/ targets' # targets /\ selected' = Len(targets')
               \/ targets' = targets /\ (PreviousWindow \/ NextWindow)
  <1>1. IInv /\ [Next]_vars => [Moves]_vars
    <2> SUFFICES ASSUME IInv, [Next]_vars PROVE Moves
      OBVIOUS
    <2>1. WindowStep
      BY NextWindows DEF Kept
    <2>2. ASSUME NEW t \in Windows, Opens(t) PROVE Moves
      <3>1. targets \in Seq(Windows) /\ targets' = Append(targets, t)
        BY <2>2 DEF Opens, EnsureTargetExists, IInv, WindowsOK
      <3>2. Len(targets') = Len(targets) + 1 /\ targets' # targets
        BY <3>1
      <3> QED BY <2>2, <3>2 DEF Opens
    <2> QED BY <2>1, <2>2 DEF WindowStep, Turns, winVars
  <1> QED BY <1>1, Invariance, PTL DEF Spec, FocusFollowsUser

(* Only a typed line is shown as our own, and only it sends a PRIVMSG.     *)
LEMMA OnlyTypedIsOwn ==
  ASSUME IInv, [Next]_vars
  PROVE  shown' = shown \/ shown'.mark # "own" \/ SendLine
  <1>1. CASE ServerStep
    BY <1>1 DEF ServerStep, HandlePing, HandleQuit, HandleMode, HandleWelcome, HandleInfo,
       HandleText, HandleCount, HandleNoMotd, HandleIgnored, HandleUnhandled, HandleNamReply,
       HandleEndOfNames, HandleJoin, HandlePart, HandleMessage, StartLoop, AddLine, WarnInStatus,
       Report, Fail, Nothing, Show
  <1>2. CASE LoopStep
    BY <1>2 DEF LoopStep, AnnounceNext, ShowNext, DropNext, ReplyNext, AddLine, Nothing, Show
  <1>3. CASE UserStep
    BY <1>3 DEF UserStep, PreviousWindow, NextWindow, MoveTo, CommandRefused, JoinCommand,
       RawCommand, MsgCommand, QuitCommand, Report, Show
  <1>4. CASE ThreadStep \/ UNCHANGED vars
    BY <1>4 DEF ThreadStep, WriterTakes, WriterCloses, MainQuits, vars
  <1> QED BY <1>1, <1>2, <1>3, <1>4 DEF Next

LEMMA OnlyTypedIsPrivmsg ==
  ASSUME IInv, [Next]_vars
  PROVE  \/ UNCHANGED outbox \/ outbox' = <<>>
         \/ outbox # <<>> /\ outbox' = Tail(outbox)
         \/ \E cmd \in {"PONG", "QUIT", "JOIN", "RAW", "NOTICE"}, to \in Windows : Send(cmd, to)
         \/ SendLine
  <1>s. Status \in Windows
    BY DEF Windows
  <1>1. CASE ServerStep
    <2>1. UNCHANGED outbox \/ Send("PONG", Status)
      BY <1>1 DEF ServerStep, HandlePing, HandleQuit, HandleMode, HandleWelcome, HandleInfo,
         HandleText, HandleCount, HandleNoMotd, HandleIgnored, HandleUnhandled, HandleNamReply,
         HandleEndOfNames, HandleJoin, HandlePart, HandleMessage
    <2> QED BY <1>s, <2>1
  <1>2. CASE LoopStep
    <2>1. UNCHANGED outbox \/ (ReplyNext /\ Send("NOTICE", handling.src))
      BY <1>2 DEF LoopStep, AnnounceNext, DropNext, ShowNext, ReplyNext
    <2>2. ReplyNext => handling.src \in Windows
      BY DEF ReplyNext, Dropped, Windows
    <2> QED BY <2>1, <2>2
  <1>3. CASE UserStep
    <2>1. ASSUME NEW c \in Channels, JoinCommand(c) PROVE c \in Windows /\ Send("JOIN", c)
      BY <2>1 DEF JoinCommand, Windows
    <2>2. CASE RawCommand \/ QuitCommand
      BY <1>s, <2>2 DEF RawCommand, QuitCommand
    <2>3. UNCHANGED outbox \/ SendLine \/ (\E c \in Channels : JoinCommand(c)) \/ RawCommand \/ QuitCommand
      BY <1>3 DEF UserStep, PreviousWindow, NextWindow, MoveTo, CommandRefused, MsgCommand
    <2> QED BY <2>1, <2>2, <2>3
  <1>4. CASE ThreadStep \/ UNCHANGED vars
    BY <1>4 DEF ThreadStep, WriterTakes, WriterCloses, MainQuits, vars
  <1> QED BY <1>1, <1>2, <1>3, <1>4 DEF Next

(* What is shown as typed here is what is sent, and to the same window.    *)
THEOREM TypedLinesAreSent == Spec => OwnLinesAreSent
  <1> DEFINE Sent == \A w \in Windows :
               Len(outbox') > Len(outbox) /\ outbox'[Len(outbox')] = [cmd |-> "PRIVMSG", to |-> w] =>
                 shown' = [window |-> w, mark |-> "own", from |-> nick] /\ targets[selected] = w
             Own == shown' # shown /\ shown'.mark = "own" =>
               IF writer = "open"
                 THEN outbox' = Append(outbox, [cmd |-> "PRIVMSG", to |-> shown'.window])
                 ELSE outbox' = outbox /\ input' = "closed"
  <1>1. ASSUME IInv, [Next]_vars PROVE Sent /\ Own
    <2>1. outbox \in Seq(OutMessages) /\ Len(outbox) \in Nat
      BY <1>1 DEF IInv, OthersOK
    <2>2. CASE SendLine
      <3>1. /\ shown' = [window |-> CurrentTarget, mark |-> "own", from |-> nick]
            /\ targets[selected] = CurrentTarget
        BY <2>2 DEF SendLine, Refuse, AddLine, Show, CurrentTarget
      <3>2. UNCHANGED outbox \/ Send("PRIVMSG", CurrentTarget)
        BY <2>2 DEF SendLine
      <3>3. writer = "open" => Send("PRIVMSG", CurrentTarget)
        BY <2>2 DEF SendLine, CanSend
      <3>4. Send("PRIVMSG", CurrentTarget) =>
              outbox' = Append(outbox, [cmd |-> "PRIVMSG", to |-> CurrentTarget])
        BY DEF Send
      <3>5. outbox' = Append(outbox, [cmd |-> "PRIVMSG", to |-> CurrentTarget]) =>
              outbox'[Len(outbox')] = [cmd |-> "PRIVMSG", to |-> CurrentTarget]
        BY <2>1
      <3>6. Sent
        <4>1. UNCHANGED outbox => Sent
          BY <2>1
        <4>2. Send("PRIVMSG", CurrentTarget) => Sent
          BY <3>1, <3>4, <3>5
        <4> QED BY <3>2, <4>1, <4>2
      <3>7. Own
        <4>1. writer # "open" => outbox' = outbox /\ input' = "closed"
          BY <2>2 DEF SendLine, CanSend
        <4> QED BY <3>1, <3>3, <3>4, <4>1
      <3> QED BY <3>6, <3>7
    <2>3. CASE ~SendLine
      <3>1. Own
        BY <1>1, <2>3, OnlyTypedIsOwn
      <3>2. ASSUME UNCHANGED outbox \/ outbox' = <<>> \/ (outbox # <<>> /\ outbox' = Tail(outbox))
            PROVE  Sent
        <4>1. Len(outbox') <= Len(outbox)
          BY <2>1, <3>2
        <4> QED BY <2>1, <4>1, <3>2
      <3>3. ASSUME NEW cmd \in {"PONG", "QUIT", "JOIN", "RAW", "NOTICE"}, NEW to \in Windows,
                   Send(cmd, to)
            PROVE  Sent
        <4>1. outbox' = Append(outbox, [cmd |-> cmd, to |-> to])
          BY <3>3 DEF Send
        <4>2. outbox'[Len(outbox')].cmd = cmd
          BY <2>1, <4>1
        <4> QED BY <4>2
      <3>4. Sent
        BY <1>1, <2>3, <3>2, <3>3, OnlyTypedIsPrivmsg
      <3> QED BY <3>1, <3>4
    <2> HIDE DEF Sent, Own
    <2> QED BY <2>2, <2>3
  <1>2. IInv /\ [Next]_vars => [Sent /\ Own]_vars
    BY <1>1
  <1> QED BY <1>2, Invariance, PTL DEF Spec, OwnLinesAreSent

-----------------------------------------------------------------------------
(* A server that sends none of the kinds that add a line before 001.       *)
Conforming == EarlyKinds \cap LineKinds = {}

(* No loop that adds a line is on before registration, and the process has *)
(* not been aborted.                                                       *)
QuietRegistration ==
  /\ result # "unreachable"
  /\ conn = "registration" => handling.kind \notin {"JOIN", "PART"}

LEMMA LoopKindStep ==
  ASSUME Conforming, IInv, QuietRegistration, [Next]_vars
  PROVE  conn' = "registration" => handling'.kind \notin {"JOIN", "PART"}
  <1> SUFFICES ASSUME conn' = "registration" PROVE handling'.kind \notin {"JOIN", "PART"}
    OBVIOUS
  <1>1. conn = "registration"
    BY DEF Next, ServerStep, HandlePing, HandleQuit, HandleMode, HandleWelcome, HandleInfo,
         HandleText, HandleCount, HandleNoMotd, HandleIgnored, HandleUnhandled, HandleNamReply,
         HandleEndOfNames, HandleJoin, HandlePart, HandleMessage, LoopStep, AnnounceNext, DropNext,
         ShowNext, ReplyNext, NextTarget, UserStep, PreviousWindow, NextWindow, MoveTo, CommandRefused,
         SendLine, JoinCommand, RawCommand, MsgCommand, QuitCommand, UserActs, ThreadStep, WriterTakes,
         WriterCloses, MainQuits, vars
  <1>2. handling.kind \notin {"JOIN", "PART"}
    BY <1>1 DEF QuietRegistration
  <1>3. CASE ServerStep
    <2>1. \/ UNCHANGED handling
          \/ \E src \in Sources, list \in Lists(Channels) : HandlePart(src, list)
          \/ \E src \in Sources, body \in Bodies, list \in Lists(Channels \cup Nicks) :
               HandleMessage(src, body, list)
      BY <1>1, <1>3 DEF ServerStep, HandlePing, HandleQuit, HandleMode, HandleWelcome, HandleInfo,
           HandleText, HandleCount, HandleNoMotd, HandleIgnored, HandleUnhandled, HandleNamReply,
           HandleEndOfNames, HandleJoin, UserIdle, loopVars
    <2>2. ASSUME NEW src, NEW list, HandlePart(src, list) PROVE FALSE
      BY <1>1, <2>2 DEF HandlePart, Receives, Conforming, LineKinds
    <2>3. ASSUME NEW src, NEW body, NEW list, HandleMessage(src, body, list)
          PROVE  handling'.kind \notin {"JOIN", "PART"}
      <3>1. handling' \in {Idle, [kind |-> "MESSAGE", src |-> src, body |-> body]}
        BY <2>3 DEF HandleMessage, StartLoop
      <3> QED BY <3>1 DEF Idle
    <2> QED BY <1>2, <2>1, <2>2, <2>3
  <1>4. CASE LoopStep
    <2>1. handling' = Idle \/ handling' = handling
      BY <1>4 DEF LoopStep, AnnounceNext, DropNext, ShowNext, ReplyNext, NextTarget
    <2> QED BY <1>2, <2>1 DEF Idle
  <1>5. CASE UserStep \/ ThreadStep \/ UNCHANGED vars
    <2>1. UNCHANGED handling
      BY <1>5 DEF UserStep, PreviousWindow, NextWindow, MoveTo, CommandRefused, SendLine, JoinCommand,
           RawCommand, MsgCommand, QuitCommand, UserActs, ThreadStep, WriterTakes, WriterCloses,
           MainQuits, vars, loopVars
    <2> QED BY <1>2, <2>1
  <1> QED BY <1>3, <1>4, <1>5 DEF Next

(* Only add_line before registration aborts the process. *)
LEMMA ConnectedAddLine ==
  ASSUME conn # "registration", NEW t, NEW mark, NEW from, AddLine(t, mark, from)
  PROVE  UNCHANGED result
  BY DEF AddLine

LEMMA QuietStep ==
  ASSUME Conforming, IInv, QuietRegistration, [Next]_vars
  PROVE  QuietRegistration'
  <1>1. result # "unreachable"
    BY DEF QuietRegistration
  <1>2. CASE ServerStep
    <2>1. \/ result' \in {result, "failed"}
          \/ conn # "registration" /\ \E t \in Windows : AddLine(t, "info", NoSource)
      <3>0. Status \in Windows /\ Channels \subseteq Windows
        BY DEF Windows
      <3>1. ASSUME NEW kind \in LineKinds, Receives(kind) PROVE conn # "registration"
        BY <3>1 DEF Receives, Conforming
      <3>2. CASE HandlePing
        BY <3>2 DEF HandlePing, Fail, Nothing
      <3>3. ASSUME NEW src \in Sources, HandleQuit(src)
            PROVE \/ result' \in {result, "failed"}
                  \/ conn # "registration" /\ \E t \in Windows : AddLine(t, "info", NoSource)
        BY <3>0, <3>1, <3>3 DEF HandleQuit, Fail, LineKinds
      <3>4. ASSUME NEW ok \in BOOLEAN, HandleInfo(ok) \/ HandleText(ok)
            PROVE \/ result' \in {result, "failed"}
                  \/ conn # "registration" /\ \E t \in Windows : AddLine(t, "info", NoSource)
        BY <3>0, <3>1, <3>4 DEF HandleInfo, HandleText, Fail, Nothing, LineKinds
      <3>5. ASSUME NEW args, HandleCount(args)
            PROVE \/ result' \in {result, "failed"}
                  \/ conn # "registration" /\ \E t \in Windows : AddLine(t, "info", NoSource)
        BY <3>0, <3>1, <3>5 DEF HandleCount, WarnInStatus, Nothing, LineKinds
      <3>6. CASE HandleNoMotd
        BY <3>0, <3>1, <3>6 DEF HandleNoMotd, LineKinds
      <3>7. ASSUME NEW c \in ReplyNames, NEW ok \in BOOLEAN, HandleEndOfNames(c, ok)
            PROVE \/ result' \in {result, "failed"}
                  \/ conn # "registration" /\ \E t \in Windows : AddLine(t, "info", NoSource)
        BY <3>0, <3>7 DEF HandleEndOfNames, WarnInStatus, Fail
      <3> QED BY <1>2, <3>2, <3>3, <3>4, <3>5, <3>6, <3>7 DEF ServerStep, HandleMode, HandleWelcome,
                 HandleIgnored, HandleUnhandled, HandleNamReply, HandleJoin, HandlePart, HandleMessage,
                 StartLoop, WarnInStatus, Report, Fail, Nothing
    <2> QED BY <1>1, <2>1, ConnectedAddLine, LoopKindStep DEF QuietRegistration
  <1>3. CASE LoopStep
    <2>1. CASE AnnounceNext
      <3>1. conn # "registration"
        BY <2>1 DEF AnnounceNext, NextTarget, QuietRegistration
      <3> QED BY <1>1, <2>1, <3>1, ConnectedAddLine, LoopKindStep DEF AnnounceNext, QuietRegistration
    <2>2. CASE ShowNext
      <3>1. conn # "registration"
        BY <2>2, EarlyMessagesAreDropped DEF ShowNext, NextTarget
      <3> QED BY <1>1, <2>2, <3>1, ConnectedAddLine, LoopKindStep DEF ShowNext, QuietRegistration
    <2>3. CASE DropNext \/ ReplyNext
      BY <1>1, <2>3, LoopKindStep DEF DropNext, ReplyNext, Nothing, QuietRegistration
    <2> QED BY <1>3, <2>1, <2>2, <2>3 DEF LoopStep
  <1>4. CASE UserStep \/ ThreadStep \/ UNCHANGED vars
    <2>1. result' \in {result, "quit"}
      BY <1>4 DEF UserStep, PreviousWindow, NextWindow, MoveTo, CommandRefused, SendLine, JoinCommand,
           RawCommand, MsgCommand, QuitCommand, UserActs, ThreadStep, WriterTakes, WriterCloses,
           MainQuits, vars
    <2> QED BY <1>1, <2>1, LoopKindStep DEF QuietRegistration
  <1> QED BY <1>2, <1>3, <1>4 DEF Next

(* With a server that keeps to the protocol before 001 the unreachable!()  *)
(* of state.rs:124 is not reached, whatever is typed or sent.              *)
THEOREM ConformingNeverUnreachable ==
  ASSUME Conforming
  PROVE  Spec => []NeverUnreachable
  <1>1. Init => QuietRegistration
    BY DEF Init, QuietRegistration, Idle
  <1>2. IInv /\ QuietRegistration /\ [Next]_vars => QuietRegistration'
    BY QuietStep
  <1>3. QuietRegistration => NeverUnreachable
    BY DEF QuietRegistration, NeverUnreachable
  <1> QED BY <1>1, <1>2, <1>3, Invariance, PTL DEF Spec

=============================================================================
