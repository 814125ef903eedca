--------------------------- MODULE ClientThreads ---------------------------
(***************************************************************************)
(* The three threads of the client (start in src/src/client.rs): the net   *)
(* thread owns the connection, the input thread polls the terminal, the    *)
(* main thread registers and then handles the server's messages.  They     *)
(* share two unbounded channels, the flag QUIT_REQUESTED and the mutex     *)
(* around the client state.  Every step between two accesses of what is    *)
(* shared is an action; what happens under the mutex is ClientState's, and *)
(* only its sends, its failures and the end of registration are seen here. *)
(***************************************************************************)
EXTENDS Naturals, Sequences, SequencesExt

CONSTANTS
  HasToken,     (* whether a PASS is sent (twitch_token)                   *)
  Kinds,        (* the kinds of message the server sends                   *)
  MaxIncoming,  (* bound: messages the server sends                        *)
  MaxTyped      (* bound: lines the user enters                            *)

ASSUME BoundsAreNat == MaxIncoming \in Nat /\ MaxTyped \in Nat

Registration == IF HasToken THEN <<"PASS", "NICK", "USER">> ELSE <<"NICK", "USER">>

(* PING is answered; WELCOME is 001; FATAL is any message whose handler    *)
(* returns an error; GARBLED does not parse.                               *)
Incoming == {"PING", "WELCOME", "TEXT", "FATAL", "GARBLED"}
Outgoing == {"PASS", "NICK", "USER", "PONG", "LINE", "QUIT"}

ASSUME HasTokenIsBoolean == HasToken \in BOOLEAN
ASSUME KindsAreIncoming == Kinds \subseteq Incoming

VARIABLES
  quitRequested,(* QUIT_REQUESTED                                          *)
  holder,       (* the thread that holds the mutex, or "none"              *)
  writeQ,       (* write_sender .. write_receiver                          *)
  msgQ,         (* msg_sender .. msg_receiver                              *)
  netPc, inputPc, mainPc,
  toRegister,   (* what the init function has still to send                *)
  msg,          (* the message the main thread has received                *)
  registered,   (* conn_state is Connected                                 *)
  terminal,     (* "raw" from TerminalUi::new until disable()              *)
  typed,        (* lines the user has entered                              *)
  wire, peer,   (* bytes from the server, and whether it is still there    *)
  served, sent, (* what the server has sent, and what was written to it    *)
  handled       (* what the main thread has handled                        *)

queues  == <<writeQ, msgQ>>
client  == <<quitRequested, holder, toRegister, msg, registered, terminal, typed, handled>>
pcs     == <<netPc, inputPc, mainPc>>
network == <<wire, peer, served, sent>>
vars    == <<queues, client, pcs, network>>

Init ==
  /\ quitRequested = FALSE /\ holder = "none"
  /\ writeQ = <<>> /\ msgQ = <<>>
  /\ netPc = "check" /\ inputPc = "check" /\ mainPc = "register"
  /\ toRegister = Registration
  /\ msg = "none" /\ registered = FALSE /\ terminal = "raw" /\ typed = 0
  /\ wire = <<>> /\ peer = "open" /\ served = <<>> /\ sent = <<>> /\ handled = <<>>

(* The process is there until main returns. *)
Alive == mainPc # "exited"

(* The receiver lives as long as the net thread: a send fails after it.    *)
CanWrite == netPc # "ended"

Enqueue(m) == writeQ' = Append(writeQ, m)

(* A thread takes the mutex, or gives it back. *)
Lock(thread) == holder = "none" /\ holder' = thread
Unlock == holder' = "none"

-----------------------------------------------------------------------------
(* The net thread: in every turn it looks at the flag, writes at most one  *)
(* message and reads what there is.                                        *)

NetStep(from, to) == Alive /\ netPc = from /\ netPc' = to /\ UNCHANGED <<inputPc, mainPc>>

NetChecks ==
  /\ NetStep("check", IF quitRequested THEN "returning" ELSE "write")
  /\ UNCHANGED <<queues, client, network>>

NetWrites ==
  /\ writeQ # <<>>
  /\ NetStep("write", "read")
  /\ writeQ' = Tail(writeQ)
  /\ sent' = Append(sent, Head(writeQ))
  /\ UNCHANGED <<msgQ, client, wire, peer, served>>

(* A write to a peer that is gone may fail; the message is lost.           *)
NetFailsToWrite ==
  /\ writeQ # <<>> /\ peer = "closed"
  /\ NetStep("write", "failing")
  /\ writeQ' = Tail(writeQ)
  /\ UNCHANGED <<msgQ, client, network>>

NetHasNothingToWrite ==
  /\ writeQ = <<>>
  /\ NetStep("write", "read")
  /\ UNCHANGED <<queues, client, network>>

(* Mutant: a message that does not parse is skipped. *)
NetSkipsGarbled(n) ==
  /\ n \in 1 .. Len(wire)
  /\ wire' = SubSeq(wire, n + 1, Len(wire))
  /\ NetStep("read", "check")
  /\ msgQ' = msgQ \o SelectSeq(SubSeq(wire, 1, n), LAMBDA m : m # "GARBLED")
  /\ UNCHANGED <<writeQ, client, peer, served, sent>>

(* recv() returns the messages of what has arrived, some at least; one     *)
(* that does not parse fails it, and those parsed before it are lost.      *)
NetReads(n) ==
  /\ n \in 1 .. Len(wire)
  /\ wire' = SubSeq(wire, n + 1, Len(wire))
  /\ IF Contains(SubSeq(wire, 1, n), "GARBLED")
       THEN NetStep("read", "failing") /\ UNCHANGED msgQ
       ELSE NetStep("read", "check") /\ msgQ' = msgQ \o SubSeq(wire, 1, n)
  /\ UNCHANGED <<writeQ, client, peer, served, sent>>

(* Mutant: the socket blocks until something arrives. *)
NetBlocksOnRead ==
  /\ wire = <<>> /\ peer = "closed"
  /\ NetStep("read", "failing")
  /\ UNCHANGED <<queues, client, network>>

(* Nothing has arrived: WouldBlock, or the end of the stream.              *)
NetReadsNothing ==
  /\ wire = <<>>
  /\ NetStep("read", IF peer = "open" THEN "check" ELSE "failing")
  /\ UNCHANGED <<queues, client, network>>

(* The error is left in a history that is never drawn.                     *)
NetReports ==
  /\ NetStep("failing", "returning")
  /\ holder = "none"
  /\ UNCHANGED <<queues, client, network>>

(* The thread ends: both its channel ends are dropped, and with the        *)
(* receiver all that was not written.                                      *)
NetEnds ==
  /\ NetStep("returning", "ended")
  /\ writeQ' = <<>>
  /\ UNCHANGED <<msgQ, client, network>>

-----------------------------------------------------------------------------
(* The input thread. *)

InputStep(from, to) == Alive /\ inputPc = from /\ inputPc' = to /\ UNCHANGED <<netPc, mainPc>>

(* What a turn of the input thread leaves alone. *)
InputFrame == UNCHANGED <<msgQ, toRegister, msg, registered, terminal, handled, network>>

(* Mutant: the thread does not look at the flag. *)
InputNeverStops ==
  /\ InputStep("check", "locking")
  /\ UNCHANGED <<writeQ, quitRequested, holder, typed>> /\ InputFrame

InputChecks ==
  /\ InputStep("check", IF quitRequested THEN "ended" ELSE "locking")
  /\ UNCHANGED <<writeQ, quitRequested, holder, typed>> /\ InputFrame

InputLocks ==
  /\ InputStep("locking", "polling")
  /\ Lock("input")
  /\ UNCHANGED <<writeQ, quitRequested, typed>> /\ InputFrame

(* No input, a key that only edits or redraws, or a line that is refused   *)
(* with an error in the window.                                            *)
InputPolls ==
  /\ InputStep("polling", "sleeping")
  /\ Unlock
  /\ UNCHANGED <<writeQ, quitRequested, typed>> /\ InputFrame

Enters == typed < MaxTyped /\ typed' = typed + 1

(* Mutant: what is typed before registration is sent as well. *)
InputSendsEarly ==
  /\ Enters /\ CanWrite
  /\ InputStep("polling", "sleeping")
  /\ Enqueue("LINE")
  /\ Unlock
  /\ UNCHANGED quitRequested /\ InputFrame

(* A line, or a command, that sends: only a registered client's do.        *)
InputSends ==
  /\ Enters /\ registered /\ CanWrite
  /\ InputStep("polling", "sleeping")
  /\ Enqueue("LINE")
  /\ Unlock
  /\ UNCHANGED quitRequested /\ InputFrame

(* Mutant: the thread ends with the mutex held. *)
InputFailsLocked ==
  /\ Enters /\ registered /\ ~CanWrite
  /\ InputStep("polling", "failing")
  /\ UNCHANGED <<writeQ, quitRequested, holder>> /\ InputFrame

(* The send error of a line ends the thread; a command's is only shown.    *)
InputFailsToSend ==
  /\ Enters /\ registered /\ ~CanWrite
  /\ InputStep("polling", "failing")
  /\ Unlock
  /\ UNCHANGED <<writeQ, quitRequested>> /\ InputFrame

(* /quit: the QUIT is sent first, then the flag is set.                    *)
InputSendsQuit ==
  /\ Enters /\ CanWrite
  /\ InputStep("polling", "quitting")
  /\ Enqueue("QUIT")
  /\ UNCHANGED <<quitRequested, holder>> /\ InputFrame

(* Mutant: the mutex is not given back. *)
InputQuitsLocked ==
  /\ InputStep("quitting", "sleeping")
  /\ quitRequested' = TRUE
  /\ UNCHANGED <<writeQ, holder, typed>> /\ InputFrame

InputSetsQuit ==
  /\ InputStep("quitting", "sleeping")
  /\ quitRequested' = TRUE
  /\ Unlock
  /\ UNCHANGED <<writeQ, typed>> /\ InputFrame

(* Mutant: no delay between two polls. *)
InputWakesAtOnce ==
  /\ InputStep("sleeping", "check")
  /\ UNCHANGED <<writeQ, quitRequested, holder, typed>> /\ InputFrame

(* Ten milliseconds are time enough for whoever waits for the mutex to     *)
(* take it: INPUT_POLL_DELAY is there so that the others get a turn.       *)
Waiting == mainPc \in {"locking", "disabling"} \/ netPc = "failing"
InputWakes ==
  /\ ~(holder = "none" /\ Waiting)
  /\ InputStep("sleeping", "check")
  /\ UNCHANGED <<writeQ, quitRequested, holder, typed>> /\ InputFrame

InputReports ==
  /\ InputStep("failing", "ended")
  /\ holder = "none"
  /\ UNCHANGED <<writeQ, quitRequested, holder, typed>> /\ InputFrame

-----------------------------------------------------------------------------
(* The main thread. *)

MainStep(from, to) == Alive /\ mainPc = from /\ mainPc' = to /\ UNCHANGED <<netPc, inputPc>>

(* PASS, NICK and USER are sent one by one; a failure ends the process.    *)
MainRegisters ==
  /\ IF toRegister = <<>> THEN MainStep("register", "check") /\ UNCHANGED <<writeQ, toRegister>>
     ELSE IF ~CanWrite THEN MainStep("register", "exiting") /\ UNCHANGED <<writeQ, toRegister>>
     ELSE /\ MainStep("register", "register")
          /\ Enqueue(Head(toRegister))
          /\ toRegister' = Tail(toRegister)
  /\ UNCHANGED <<msgQ, quitRequested, holder, msg, registered, terminal, typed, handled, network>>

MainChecks ==
  /\ MainStep("check", IF quitRequested THEN "disabling" ELSE "receive")
  /\ UNCHANGED <<queues, client, network>>

(* Without a message, or with a sender that is gone, the loop starts over. *)
MainReceives ==
  /\ IF msgQ = <<>>
       THEN MainStep("receive", "check") /\ UNCHANGED <<msgQ, msg>>
       ELSE MainStep("receive", "locking") /\ msg' = Head(msgQ) /\ msgQ' = Tail(msgQ)
  /\ UNCHANGED <<writeQ, quitRequested, holder, toRegister, registered, terminal, typed,
                 handled, network>>

MainLocks ==
  /\ MainStep("locking", "handling")
  /\ Lock("main")
  /\ UNCHANGED <<queues, quitRequested, toRegister, msg, registered, terminal, typed,
                 handled, network>>

(* The handler: PING is answered if that can be sent, and what fails ends  *)
(* the process without disable().                                          *)
MainHandles ==
  /\ LET fails == msg = "FATAL" \/ (msg = "PING" /\ ~CanWrite)
     IN  /\ MainStep("handling", IF fails THEN "exiting" ELSE "check")
         /\ IF msg = "PING" /\ CanWrite THEN Enqueue("PONG") ELSE UNCHANGED writeQ
  /\ Unlock
  /\ registered' = (registered \/ msg = "WELCOME")
  /\ handled' = Append(handled, msg)
  /\ msg' = "none"
  /\ UNCHANGED <<msgQ, quitRequested, toRegister, terminal, typed, network>>

MainDisables ==
  /\ MainStep("disabling", "exiting")
  /\ holder = "none"
  /\ terminal' = "restored"
  /\ UNCHANGED <<queues, quitRequested, holder, toRegister, msg, registered, typed, handled, network>>

(* start() has returned: main returns, and no thread outlives it.          *)
MainExits ==
  /\ MainStep("exiting", "exited")
  /\ UNCHANGED <<queues, client, network>>

-----------------------------------------------------------------------------
(* The server: it welcomes the client once, after its USER, and may close  *)
(* the connection at any time.                                             *)

Serve(m) ==
  /\ Alive /\ peer = "open"
  /\ Len(served) < MaxIncoming
  /\ m = "WELCOME" => Contains(sent, "USER") /\ ~Contains(served, "WELCOME")
  /\ wire' = Append(wire, m)
  /\ served' = Append(served, m)
  /\ UNCHANGED <<queues, client, pcs, peer, sent>>

PeerCloses ==
  /\ Alive /\ peer = "open"
  /\ peer' = "closed"
  /\ UNCHANGED <<queues, client, pcs, wire, served, sent>>

Net == \/ NetChecks \/ NetWrites \/ NetFailsToWrite \/ NetHasNothingToWrite
       \/ \E n \in 1 .. MaxIncoming : NetReads(n)
       \/ NetReadsNothing \/ NetReports \/ NetEnds
Input == \/ InputChecks \/ InputLocks \/ InputPolls \/ InputSends \/ InputFailsToSend
         \/ InputSendsQuit \/ InputSetsQuit \/ InputWakes \/ InputReports
Main == \/ MainRegisters \/ MainChecks \/ MainReceives \/ MainLocks \/ MainHandles
        \/ MainDisables \/ MainExits
Server == (\E m \in Kinds : Serve(m)) \/ PeerCloses

(* A process that has ended stays ended. *)
Ended == ~Alive /\ UNCHANGED vars

Next == Net \/ Input \/ Main \/ Server \/ Ended

(* The scheduler runs every thread that can run.  Nothing more is assumed  *)
(* of the mutex, nor that the server or the user ever does anything.       *)
Spec == Init /\ [][Next]_vars /\ WF_vars(Net) /\ WF_vars(Input) /\ WF_vars(Main)

-----------------------------------------------------------------------------
(* Properties. *)

(* Every variable has its type, a thread holds the mutex exactly while it  *)
(* is inside, and the main thread a message while it is not done with it.  *)
TypeOK ==
  /\ quitRequested \in BOOLEAN
  /\ holder \in {"none", "input", "main"}
  /\ writeQ \in Seq(Outgoing)
  /\ msgQ \in Seq(Incoming)
  /\ netPc \in {"check", "write", "read", "failing", "returning", "ended"}
  /\ inputPc \in {"check", "locking", "polling", "quitting", "sleeping", "failing", "ended"}
  /\ mainPc \in {"register", "check", "receive", "locking", "handling", "disabling",
                 "exiting", "exited"}
  /\ toRegister \in Seq(Outgoing)
  /\ msg \in Incoming \cup {"none"}
  /\ registered \in BOOLEAN
  /\ terminal \in {"raw", "restored"}
  /\ typed \in 0 .. MaxTyped
  /\ wire \in Seq(Incoming)
  /\ peer \in {"open", "closed"}
  /\ served \in Seq(Incoming)
  /\ sent \in Seq(Outgoing)
  /\ handled \in Seq(Incoming)
  /\ (holder = "input") <=> (inputPc \in {"polling", "quitting"})
  /\ (holder = "main") <=> (mainPc = "handling")
  /\ (msg = "none") <=> (mainPc \notin {"locking", "handling"})

(* What was written and what still can be, in the order of the writing:    *)
(* a net thread that is past its loop writes nothing more.                 *)
Stream == sent \o (IF netPc \in {"check", "write", "read"} THEN writeQ ELSE <<>>)

(* The messages of the registration that come before m: all of them, if m  *)
(* is not of the registration.                                             *)
NeededBefore(m) ==
  {Registration[k] : k \in {k \in DOMAIN Registration : \A l \in 1 .. k : Registration[l] # m}}

(* Whatever the user types while the client registers, PASS, NICK and USER *)
(* reach the server in this order, each once, and no PONG and no line      *)
(* before them: only a /quit can get in between (client_on_start runs      *)
(* while the input thread is already there).                               *)
RegistrationFirst ==
  /\ \A i \in DOMAIN Stream :
       Stream[i] # "QUIT" => NeededBefore(Stream[i]) \subseteq {Stream[j] : j \in 1 .. i - 1}
  /\ \A i, j \in DOMAIN Stream :
       i # j /\ Stream[i] = Stream[j] => Stream[i] \in {"QUIT", "PONG", "LINE"}

(* Nothing the user typed follows a QUIT to the server, and there is only  *)
(* one QUIT: the input thread ends with the flag it has set.               *)
NothingTypedAfterQuit ==
  \A i, j \in DOMAIN Stream :
    i < j /\ Stream[i] = "QUIT" => Stream[j] \notin {"QUIT", "LINE"}

(* Once disable() has given the terminal back nobody draws on it, though   *)
(* the other threads run until main returns.                               *)
TerminalLeftAlone ==
  terminal = "restored" =>
    inputPc \notin {"polling", "quitting"} /\ mainPc \notin {"locking", "handling"}

(* What the main thread has had from the net thread, or still has to take. *)
Received == handled \o (IF msg = "none" THEN <<>> ELSE <<msg>>) \o msgQ

(* The server's messages are handled in the order they were sent, each     *)
(* once and without a gap.  One that has left the wire and was not passed  *)
(* on is lost with one that does not parse, read with it, and then the net *)
(* thread has left its loop: no message is skipped and later ones handled. *)
HandledInOrder ==
  /\ IsPrefix(Received, served)
  /\ Received \o wire # served =>
       /\ netPc \in {"failing", "returning", "ended"}
       /\ \E k \in Len(Received) + 1 .. Len(served) - Len(wire) : served[k] = "GARBLED"

(* A /quit that was accepted ends the process, whatever else is going on.  *)
QuitEndsProcess == quitRequested ~> ~Alive

(* A message the net thread has passed on is handled: the input thread,    *)
(* polling under the mutex, does not starve the main thread.               *)
MessagesAreHandled ==
  \A n \in 1 .. MaxIncoming :
    Len(handled) + Len(msgQ) >= n ~> Len(handled) >= n \/ ~Alive \/ quitRequested

(* What is sent to the net thread is written, as long as it runs.          *)
OutboxIsWritten ==
  \A n \in 1 .. Len(Registration) + MaxTyped + MaxIncoming :
    Len(Stream) >= n ~> Len(sent) >= n \/ netPc = "ended" \/ ~Alive
=============================================================================
