------------------------ MODULE ClientThreads_proofs ------------------------
(***************************************************************************)
(* What TLAPS proves about ClientThreads for every kind and number of      *)
(* messages the server sends and of lines the user enters.                 *)
(***************************************************************************)
EXTENDS ClientThreads, SequenceTheorems, TLAPS

(* The three steps of the net thread's loop. *)
Writing == netPc \in {"check", "write", "read"}

-----------------------------------------------------------------------------
(* Types. *)

LEMMA RegistrationType ==
  /\ Registration \in Seq(Outgoing)
  /\ HasToken => Registration = <<"PASS", "NICK", "USER">>
  /\ ~HasToken => Registration = <<"NICK", "USER">>
  <1>1. <<"PASS", "NICK", "USER">> \in Seq(Outgoing) /\ <<"NICK", "USER">> \in Seq(Outgoing)
    BY DEF Outgoing
  <1> QED BY <1>1 DEF Registration

LEMMA InitType == Init => TypeOK
  <1> SUFFICES ASSUME Init PROVE TypeOK
    OBVIOUS
  <1>1. toRegister \in Seq(Outgoing)
    BY RegistrationType DEF Init
  <1>2. /\ writeQ \in Seq(Outgoing) /\ sent \in Seq(Outgoing)
        /\ msgQ \in Seq(Incoming) /\ wire \in Seq(Incoming)
        /\ served \in Seq(Incoming) /\ handled \in Seq(Incoming)
    BY DEF Init
  <1>3. typed \in 0 .. MaxTyped
    BY BoundsAreNat DEF Init
  <1> QED BY <1>1, <1>2, <1>3 DEF Init, TypeOK

LEMMA NetType ==
  ASSUME TypeOK, Net
  PROVE  TypeOK'
  <1>1. CASE NetChecks
    BY <1>1 DEF NetChecks, NetStep, TypeOK, queues, client, network
  <1>2. CASE NetWrites
    <2>1. writeQ' \in Seq(Outgoing) /\ sent' \in Seq(Outgoing)
      BY <1>2 DEF NetWrites, TypeOK
    <2> QED BY <1>2, <2>1 DEF NetWrites, NetStep, TypeOK, client
  <1>3. CASE NetFailsToWrite
    <2>1. writeQ' \in Seq(Outgoing)
      BY <1>3 DEF NetFailsToWrite, TypeOK
    <2> QED BY <1>3, <2>1 DEF NetFailsToWrite, NetStep, TypeOK, client, network
  <1>4. CASE NetHasNothingToWrite
    BY <1>4 DEF NetHasNothingToWrite, NetStep, TypeOK, queues, client, network
  <1>5. ASSUME NEW n \in 1 .. MaxIncoming, NetReads(n) PROVE TypeOK'
    <2>1. n \in 1 .. Len(wire) /\ wire \in Seq(Incoming) /\ msgQ \in Seq(Incoming)
      BY <1>5 DEF NetReads, TypeOK
    <2>2. SubSeq(wire, 1, n) \in Seq(Incoming) /\ wire' \in Seq(Incoming)
      <3>1. \A i \in 1 .. Len(wire) : wire[i] \in Incoming
        BY <2>1, ElementOfSeq
      <3>2. n \in Int /\ n + 1 \in Int /\ Len(wire) \in Int
        BY <2>1
      <3>3. /\ \A i \in 1 .. n : wire[i] \in Incoming
            /\ \A i \in n + 1 .. Len(wire) : wire[i] \in Incoming
        BY <2>1, <3>1, <3>2
      <3>4. SubSeq(wire, 1, n) \in Seq(Incoming)
        BY <3>2, <3>3, SubSeqProperties
      <3>5. SubSeq(wire, n + 1, Len(wire)) \in Seq(Incoming)
        BY <3>2, <3>3, SubSeqProperties
      <3> QED BY <1>5, <3>4, <3>5 DEF NetReads
    <2>3. msgQ' \in Seq(Incoming)
      <3>1. msgQ \o SubSeq(wire, 1, n) \in Seq(Incoming)
        BY <2>1, <2>2, ConcatProperties
      <3>2. msgQ' = msgQ \/ msgQ' = msgQ \o SubSeq(wire, 1, n)
        BY <1>5 DEF NetReads
      <3> QED BY <2>1, <3>1, <3>2
    <2>4. netPc' \in {"check", "failing"} /\ UNCHANGED <<inputPc, mainPc, writeQ, client, peer, served, sent>>
      BY <1>5 DEF NetReads, NetStep
    <2> QED BY <2>2, <2>3, <2>4 DEF TypeOK, client
  <1>6. CASE NetReadsNothing
    BY <1>6 DEF NetReadsNothing, NetStep, TypeOK, queues, client, network
  <1>7. CASE NetReports
    BY <1>7 DEF NetReports, NetStep, TypeOK, queues, client, network
  <1>8. CASE NetEnds
    <2>1. writeQ' \in Seq(Outgoing)
      BY <1>8 DEF NetEnds
    <2> QED BY <1>8, <2>1 DEF NetEnds, NetStep, TypeOK, client, network
  <1> QED BY <1>1, <1>2, <1>3, <1>4, <1>5, <1>6, <1>7, <1>8 DEF Net

LEMMA EnqueueType ==
  ASSUME TypeOK, NEW m \in Outgoing, Enqueue(m)
  PROVE  writeQ' \in Seq(Outgoing)
  BY DEF TypeOK, Enqueue

LEMMA InputType ==
  ASSUME TypeOK, Input
  PROVE  TypeOK'
  <1> USE DEF InputStep, InputFrame, TypeOK, network
  <1>1. CASE InputChecks \/ InputWakes
    BY <1>1 DEF InputChecks, InputWakes
  <1>2. CASE InputLocks
    BY <1>2 DEF InputLocks, Lock
  <1>3. CASE InputPolls
    BY <1>3 DEF InputPolls, Unlock
  <1>4. CASE InputSends
    <2>1. writeQ' \in Seq(Outgoing)
      BY <1>4, EnqueueType DEF InputSends, Outgoing
    <2>2. typed' \in 0 .. MaxTyped
      BY <1>4, BoundsAreNat DEF InputSends, Enters
    <2> QED BY <1>4, <2>1, <2>2 DEF InputSends, Unlock
  <1>5. CASE InputFailsToSend
    <2>1. typed' \in 0 .. MaxTyped
      BY <1>5, BoundsAreNat DEF InputFailsToSend, Enters
    <2> QED BY <1>5, <2>1 DEF InputFailsToSend, Unlock
  <1>6. CASE InputSendsQuit
    <2>1. writeQ' \in Seq(Outgoing)
      BY <1>6, EnqueueType DEF InputSendsQuit, Outgoing
    <2>2. typed' \in 0 .. MaxTyped
      BY <1>6, BoundsAreNat DEF InputSendsQuit, Enters
    <2> QED BY <1>6, <2>1, <2>2 DEF InputSendsQuit
  <1>7. CASE InputSetsQuit
    BY <1>7 DEF InputSetsQuit, Unlock
  <1>8. CASE InputReports
    BY <1>8 DEF InputReports
  <1> QED BY <1>1, <1>2, <1>3, <1>4, <1>5, <1>6, <1>7, <1>8 DEF Input

LEMMA MainType ==
  ASSUME TypeOK, Main
  PROVE  TypeOK'
  <1> USE DEF MainStep, TypeOK, network
  <1>1. CASE MainRegisters
    <2>1. CASE toRegister = <<>> \/ ~CanWrite
      BY <1>1, <2>1 DEF MainRegisters
    <2>2. CASE toRegister # <<>> /\ CanWrite
      <3>1. toRegister' \in Seq(Outgoing) /\ Head(toRegister) \in Outgoing
        BY <1>1, <2>2, HeadTailProperties DEF MainRegisters
      <3>2. writeQ' \in Seq(Outgoing)
        BY <1>1, <2>2, <3>1, EnqueueType DEF MainRegisters
      <3> QED BY <1>1, <2>2, <3>1, <3>2 DEF MainRegisters
    <2> QED BY <2>1, <2>2
  <1>2. CASE MainChecks \/ MainExits
    BY <1>2 DEF MainChecks, MainExits, queues, client
  <1>3. CASE MainReceives
    <2>1. CASE msgQ = <<>>
      BY <1>3, <2>1 DEF MainReceives
    <2>2. CASE msgQ # <<>>
      <3>1. msg' \in Incoming /\ msgQ' \in Seq(Incoming)
        BY <1>3, <2>2, HeadTailProperties DEF MainReceives
      <3>2. msg' # "none"
        BY <3>1 DEF Incoming
      <3> QED BY <1>3, <2>2, <3>1, <3>2 DEF MainReceives
    <2> QED BY <2>1, <2>2
  <1>4. CASE MainLocks
    BY <1>4 DEF MainLocks, Lock, queues
  <1>5. CASE MainHandles
    <2>1. msg \in Incoming /\ handled' \in Seq(Incoming)
      BY <1>5 DEF MainHandles
    <2>2. writeQ' \in Seq(Outgoing)
      BY <1>5, EnqueueType DEF MainHandles, Outgoing
    <2> QED BY <1>5, <2>1, <2>2 DEF MainHandles, Unlock
  <1>6. CASE MainDisables
    BY <1>6 DEF MainDisables, queues
  <1> QED BY <1>1, <1>2, <1>3, <1>4, <1>5, <1>6 DEF Main

LEMMA ServerType ==
  ASSUME TypeOK, Server
  PROVE  TypeOK'
  <1>1. ASSUME NEW m \in Kinds, Serve(m) PROVE TypeOK'
    <2>1. m \in Incoming
      BY KindsAreIncoming
    <2>2. wire' \in Seq(Incoming) /\ served' \in Seq(Incoming)
      BY <1>1, <2>1 DEF Serve, TypeOK
    <2> QED BY <1>1, <2>2 DEF Serve, TypeOK, queues, client, pcs
  <1>2. CASE PeerCloses
    BY <1>2 DEF PeerCloses, TypeOK, queues, client, pcs
  <1> QED BY <1>1, <1>2 DEF Server

LEMMA NextType == TypeOK /\ [Next]_vars => TypeOK'
  <1> SUFFICES ASSUME TypeOK, [Next]_vars PROVE TypeOK'
    OBVIOUS
  <1>1. CASE UNCHANGED vars
    BY <1>1 DEF vars, queues, client, pcs, network, TypeOK
  <1> QED BY <1>1, NetType, InputType, MainType, ServerType DEF Next, Ended

(* Every variable keeps its type, and the mutex is held exactly while its  *)
(* holder is inside.                                                       *)
THEOREM ThreadsTypeCorrect == Spec => []TypeOK
  BY InitType, NextType, PTL DEF Spec

-----------------------------------------------------------------------------
(* The flag and the registration.  Only the input thread sets the flag,    *)
(* and it is past its last poll then: this is why nothing is drawn on, or  *)
(* typed into, a terminal that was given back.                             *)
Control ==
  /\ quitRequested => inputPc \in {"check", "sleeping", "ended"}
  /\ mainPc = "disabling" => quitRequested
  /\ terminal = "restored" => quitRequested /\ mainPc \in {"exiting", "exited"}
  /\ mainPc \in {"check", "receive", "locking", "handling", "disabling"} => toRegister = <<>>
  /\ registered => toRegister = <<>>

LEMMA InitControl == Init => Control
  BY DEF Init, Control

LEMMA NextControl ==
  ASSUME TypeOK, Control, [Next]_vars
  PROVE  Control'
  <1>1. CASE Net
    <2>1. UNCHANGED <<inputPc, mainPc, client>>
      BY <1>1 DEF Net, NetChecks, NetWrites, NetFailsToWrite, NetHasNothingToWrite, NetReads,
         NetReadsNothing, NetReports, NetEnds, NetStep
    <2> QED BY <2>1 DEF Control, client
  <1>2. CASE Input
    <2>1. CASE InputSetsQuit
      BY <2>1 DEF InputSetsQuit, InputStep, InputFrame, Control
    <2>2. CASE InputChecks \/ InputWakes \/ InputReports \/ InputLocks
      BY <2>2 DEF InputChecks, InputWakes, InputReports, InputLocks, InputStep, InputFrame, Control
    <2>3. CASE InputPolls \/ InputSends \/ InputFailsToSend \/ InputSendsQuit
      <3>1. inputPc = "polling" /\ UNCHANGED <<quitRequested, mainPc, terminal, toRegister, registered>>
        BY <2>3 DEF InputPolls, InputSends, InputFailsToSend, InputSendsQuit, InputStep, InputFrame
      <3> QED BY <3>1 DEF Control
    <2> QED BY <1>2, <2>1, <2>2, <2>3 DEF Input
  <1>3. CASE Main
    <2>1. CASE MainRegisters
      BY <2>1 DEF MainRegisters, MainStep, Control
    <2>2. CASE MainChecks
      BY <2>2 DEF MainChecks, MainStep, Control, client
    <2>3. CASE MainReceives
      BY <2>3 DEF MainReceives, MainStep, Control
    <2>4. CASE MainLocks \/ MainDisables
      BY <2>4 DEF MainLocks, MainDisables, MainStep, Control
    <2>5. CASE MainHandles
      BY <2>5 DEF MainHandles, MainStep, Control
    <2>6. CASE MainExits
      BY <2>6 DEF MainExits, MainStep, Control, client
    <2> QED BY <1>3, <2>1, <2>2, <2>3, <2>4, <2>5, <2>6 DEF Main
  <1>4. CASE Server \/ UNCHANGED vars
    BY <1>4 DEF Server, Serve, PeerCloses, client, pcs, vars, Control
  <1> QED BY <1>1, <1>2, <1>3, <1>4 DEF Next, Ended

(* Once disable() has restored the terminal, no thread is, or gets, where  *)
(* it draws.                                                               *)
THEOREM TerminalIsLeftAlone == Spec => []TerminalLeftAlone
  <1>1. TypeOK /\ Control => TerminalLeftAlone
    BY DEF Control, TerminalLeftAlone
  <1>2. TypeOK /\ Control /\ [Next]_vars => Control'
    BY NextControl
  <1> QED BY <1>1, <1>2, InitControl, ThreadsTypeCorrect, PTL DEF Spec

-----------------------------------------------------------------------------
(* The messages of the server.  What was passed on and what is still on    *)
(* the wire are all that was served, but for what a line that did not      *)
(* parse has taken with it, and then the net thread is past its loop.      *)
Held == IF msg = "none" THEN <<>> ELSE <<msg>>
Passed == (handled \o Held) \o msgQ
IsLost(lost) ==
  /\ (Passed \o lost) \o wire = served
  /\ lost # <<>> => ~Writing /\ \E k \in 1 .. Len(lost) : lost[k] = "GARBLED"
Delivery == \E lost \in Seq(Incoming) : IsLost(lost)

LEMMA PrefixOfConcat ==
  ASSUME NEW S, NEW s \in Seq(S), NEW t \in Seq(S)
  PROVE  IsPrefix(s, s \o t)
  <1>1. /\ s \o t \in Seq(S) /\ Len(s \o t) = Len(s) + Len(t)
        /\ \A i \in 1 .. Len(s) : (s \o t)[i] = s[i]
        /\ Len(s) \in Nat /\ Len(t) \in Nat
    BY ConcatProperties, LenProperties
  <1>2. /\ SubSeq(s \o t, 1, Len(s)) \in Seq(S)
        /\ Len(SubSeq(s \o t, 1, Len(s))) = Len(s)
        /\ \A i \in 1 .. Len(s) : SubSeq(s \o t, 1, Len(s))[i] = s[i]
    <2>1. \A i \in 1 .. Len(s) : (s \o t)[i] \in S
      BY <1>1, ElementOfSeq
    <2>2. 1 \in Int /\ Len(s) \in Int
      BY <1>1
    <2> HIDE <1>1
    <2>3. /\ SubSeq(s \o t, 1, Len(s)) \in Seq(S)
          /\ Len(SubSeq(s \o t, 1, Len(s))) = IF 1 <= Len(s) THEN Len(s) - 1 + 1 ELSE 0
          /\ \A i \in 1 .. Len(s) - 1 + 1 : SubSeq(s \o t, 1, Len(s))[i] = (s \o t)[1 + i - 1]
      BY <2>1, <2>2, SubSeqProperties
    <2> QED BY <1>1, <2>3
  <1>3. SubSeq(s \o t, 1, Len(s)) = s
    BY <1>2, SeqEqual
  <1>4. SubSeq(s, 1, Len(s)) = s
    BY SubSeqFull
  <1> QED BY <1>1, <1>3, <1>4 DEF IsPrefix

LEMMA PassedType ==
  ASSUME TypeOK
  PROVE  /\ Held \in Seq(Incoming) /\ handled \o Held \in Seq(Incoming)
         /\ Passed \in Seq(Incoming)
  <1>1. Held \in Seq(Incoming)
    BY DEF TypeOK, Held
  <1>2. handled \o Held \in Seq(Incoming)
    BY <1>1, ConcatProperties DEF TypeOK
  <1> QED BY <1>1, <1>2, ConcatProperties DEF TypeOK, Passed

LEMMA InitDelivery == Init => Delivery
  <1> SUFFICES ASSUME Init PROVE Delivery
    OBVIOUS
  <1>1. /\ handled = <<>> /\ Held = <<>> /\ msgQ = <<>> /\ wire = <<>> /\ served = <<>>
    BY DEF Init, Held
  <1>2. <<>> \in Seq(Incoming) /\ <<>> \o <<>> = <<>>
    BY ConcatEmptySeq, EmptySeq
  <1> QED BY <1>1, <1>2 DEF Delivery, IsLost, Passed

(* Taking a message from the queue and being done with it keep the order.  *)
LEMMA MainPasses ==
  ASSUME TypeOK, Main
  PROVE  Passed' = Passed /\ UNCHANGED <<netPc, wire, served>>
  <1>1. CASE MainReceives /\ msgQ # <<>>
    <2>1. Held = <<>> /\ Held' = <<Head(msgQ)>> /\ handled' = handled /\ msgQ' = Tail(msgQ)
      <3>1. Head(msgQ) \in Incoming
        BY <1>1, HeadTailProperties DEF TypeOK
      <3>2. Head(msgQ) # "none"
        BY <3>1 DEF Incoming
      <3>3. msg = "none" /\ msg' = Head(msgQ)
        BY <1>1 DEF MainReceives, MainStep, TypeOK
      <3> QED BY <1>1, <3>2, <3>3 DEF MainReceives, Held
    <2>2. Head(msgQ) \in Incoming /\ Tail(msgQ) \in Seq(Incoming) /\ handled \in Seq(Incoming)
      BY <1>1, HeadTailProperties DEF TypeOK
    <2>3. <<Head(msgQ)>> \in Seq(Incoming)
      BY <2>2
    <2>4. (handled \o <<Head(msgQ)>>) \o Tail(msgQ) = handled \o (<<Head(msgQ)>> \o Tail(msgQ))
      BY <2>2, <2>3, ConcatAssociative
    <2>5. <<Head(msgQ)>> \o Tail(msgQ) = msgQ
      <3>1. SubSeq(msgQ, 1, Len(msgQ)) = <<msgQ[1]>> \o SubSeq(msgQ, 2, Len(msgQ))
        <4>1. msgQ \in Seq(Incoming) /\ 1 \in 1 .. Len(msgQ) /\ Len(msgQ) \in 1 .. Len(msgQ)
          BY <1>1 DEF TypeOK
        <4> QED BY <4>1, SubSeqRecursiveFirst
      <3>2. SubSeq(msgQ, 1, Len(msgQ)) = msgQ /\ Tail(msgQ) = SubSeq(msgQ, 2, Len(msgQ))
        BY <1>1, SubSeqFull, TailIsSubSeq DEF TypeOK
      <3>3. Head(msgQ) = msgQ[1]
        BY <1>1 DEF TypeOK
      <3> QED BY <3>1, <3>2, <3>3
    <2>6. handled \o <<>> = handled
      BY <2>2, ConcatEmptySeq
    <2> QED BY <1>1, <2>1, <2>4, <2>5, <2>6 DEF Passed, MainReceives, MainStep, network
  <1>2. CASE MainHandles
    <2>1. /\ msg \in Incoming /\ Held = <<msg>> /\ Held' = <<>>
          /\ handled' = Append(handled, msg) /\ msgQ' = msgQ
      BY <1>2 DEF MainHandles, MainStep, TypeOK, Held, Incoming
    <2>2. handled \in Seq(Incoming) /\ handled' \in Seq(Incoming)
      BY <2>1 DEF TypeOK
    <2>3. handled' \o <<>> = handled' /\ handled' = handled \o <<msg>>
      BY <2>1, <2>2, ConcatEmptySeq, AppendIsConcat
    <2> QED BY <1>2, <2>1, <2>3 DEF Passed, MainHandles, MainStep, network
  <1>3. CASE MainRegisters \/ MainChecks \/ (MainReceives /\ msgQ = <<>>) \/ MainLocks
             \/ MainDisables \/ MainExits
    BY <1>3 DEF MainRegisters, MainChecks, MainReceives, MainLocks, MainDisables, MainExits, MainStep,
         Passed, Held, queues, client, network
  <1> QED BY <1>1, <1>2, <1>3 DEF Main

(* A batch that parses goes to the end of the queue, one that does not is  *)
(* lost, and with it the net thread's turns.                               *)
LEMMA NetDelivers ==
  ASSUME TypeOK, Delivery, Net
  PROVE  Delivery'
  <1>1. UNCHANGED <<handled, msg, served>> /\ UNCHANGED Held
    BY DEF Net, NetChecks, NetWrites, NetFailsToWrite, NetHasNothingToWrite, NetReads,
         NetReadsNothing, NetReports, NetEnds, client, network, Held
  <1> PICK lost \in Seq(Incoming) : IsLost(lost)
    BY DEF Delivery
  <1>2. ASSUME NEW n \in 1 .. MaxIncoming, NetReads(n) PROVE Delivery'
    <2> PICK batch, left : batch = SubSeq(wire, 1, n) /\ left = SubSeq(wire, n + 1, Len(wire))
      OBVIOUS
    <2>1. /\ n \in 1 .. Len(wire) /\ wire \in Seq(Incoming) /\ msgQ \in Seq(Incoming)
          /\ wire' = left /\ Writing
      BY <1>2 DEF NetReads, NetStep, TypeOK, Writing
    <2>2. batch \in Seq(Incoming) /\ left \in Seq(Incoming)
      <3>1. \A i \in 1 .. Len(wire) : wire[i] \in Incoming
        BY <2>1, ElementOfSeq
      <3>2. 1 \in Int /\ n \in Int /\ n + 1 \in Int /\ Len(wire) \in Int
        BY <2>1
      <3>3. /\ \A i \in 1 .. n : wire[i] \in Incoming
            /\ \A i \in n + 1 .. Len(wire) : wire[i] \in Incoming
        BY <2>1, <3>1, <3>2
      <3> QED BY <3>2, <3>3, SubSeqProperties
    <2>3. batch \o left = wire
      <3>1. /\ 1 \in 1 .. Len(wire) + 1 /\ n \in 1 - 1 .. Len(wire) /\ Len(wire) \in n .. Len(wire)
        BY <2>1
      <3>2. batch \o left = SubSeq(wire, 1, Len(wire))
        BY <2>1, <3>1, ConcatAdjacentSubSeq
      <3> QED BY <2>1, <3>2, SubSeqFull
    <2>4. handled \o Held \in Seq(Incoming) /\ Passed \in Seq(Incoming)
      BY PassedType
    <2>5. (Passed \o batch) \o left = served
      <3>1. lost = <<>> /\ Passed \o <<>> = Passed
        BY <2>1, <2>4, ConcatEmptySeq DEF IsLost
      <3>2. Passed \o wire = served
        BY <3>1 DEF IsLost
      <3>3. (Passed \o batch) \o left = Passed \o (batch \o left)
        <4>1. \A s, t, u \in Seq(Incoming) : (s \o t) \o u = s \o (t \o u)
          BY ConcatAssociative
        <4>2. Passed \in Seq(Incoming) /\ batch \in Seq(Incoming) /\ left \in Seq(Incoming)
          BY <2>2, <2>4
        <4> QED BY <4>1, <4>2
      <3> QED BY <2>3, <3>2, <3>3
    <2>6. CASE UNCHANGED msgQ /\ netPc' = "failing" /\ Contains(batch, "GARBLED")
      <3>1. Passed' = Passed /\ ~Writing'
        BY <1>1, <2>6 DEF Passed, Writing
      <3>2. \E k \in 1 .. Len(batch) : batch[k] = "GARBLED"
        BY <2>6 DEF Contains
      <3>3. IsLost(batch)'
        BY <1>1, <2>1, <2>5, <3>1, <3>2 DEF IsLost
      <3> QED BY <2>2, <3>3 DEF Delivery
    <2>7. CASE msgQ' = msgQ \o batch
      <3>1. Passed' = Passed \o batch
        <4>1. handled' = handled /\ Held' = Held /\ msgQ' = msgQ \o batch
          BY <1>1, <2>7
        <4>2. ((handled \o Held) \o msgQ) \o batch = (handled \o Held) \o (msgQ \o batch)
          <5>1. msgQ \in Seq(Incoming) /\ batch \in Seq(Incoming) /\ handled \o Held \in Seq(Incoming)
            BY <2>1, <2>2, <2>4
          <5>2. \A s, t, u \in Seq(Incoming) : (s \o t) \o u = s \o (t \o u)
            BY ConcatAssociative
          <5> QED BY <5>1, <5>2
        <4>3. Passed' = (handled' \o Held') \o msgQ'
          BY DEF Passed
        <4> QED BY <4>1, <4>2, <4>3 DEF Passed
      <3>2. Passed \o batch \in Seq(Incoming)
        BY <2>2, <2>4, ConcatProperties
      <3>3. (Passed \o batch) \o <<>> = Passed \o batch
        BY <3>2, ConcatEmptySeq
      <3>4. IsLost(<<>>)'
        BY <1>1, <2>1, <2>5, <3>1, <3>3 DEF IsLost
      <3> QED BY <3>4, EmptySeq DEF Delivery
    <2> QED BY <1>2, <2>6, <2>7 DEF NetReads, NetStep
  <1>3. ASSUME UNCHANGED <<msgQ, wire>>, Writing' => Writing PROVE Delivery'
    <2>1. IsLost(lost)'
      BY <1>1, <1>3 DEF IsLost, Passed
    <2> QED BY <2>1 DEF Delivery
  <1>4. CASE NetChecks \/ NetWrites \/ NetFailsToWrite \/ NetHasNothingToWrite \/ NetReadsNothing
             \/ NetReports \/ NetEnds
    BY <1>3, <1>4 DEF NetChecks, NetWrites, NetFailsToWrite, NetHasNothingToWrite,
         NetReadsNothing, NetReports, NetEnds, NetStep, Writing, queues, network
  <1> QED BY <1>2, <1>4 DEF Net

LEMMA NextDelivery ==
  ASSUME TypeOK, Delivery, [Next]_vars
  PROVE  Delivery'
  <1> PICK lost \in Seq(Incoming) : IsLost(lost)
    BY DEF Delivery
  <1>1. CASE Main
    <2>1. IsLost(lost)'
      BY <1>1, MainPasses DEF IsLost, Writing
    <2> QED BY <2>1 DEF Delivery
  <1>2. CASE Input \/ PeerCloses \/ UNCHANGED vars
    <2>1. UNCHANGED <<handled, msg, msgQ, netPc, wire, served>>
      BY <1>2 DEF Input, InputChecks, InputLocks, InputPolls, InputSends, InputFailsToSend,
         InputSendsQuit, InputSetsQuit, InputWakes, InputReports, InputStep, InputFrame,
         PeerCloses, vars, queues, client, pcs, network
    <2>2. IsLost(lost)'
      BY <2>1 DEF IsLost, Passed, Held, Writing
    <2> QED BY <2>2 DEF Delivery
  <1>3. ASSUME NEW m \in Kinds, Serve(m) PROVE Delivery'
    <2>1. /\ m \in Incoming /\ wire' = Append(wire, m) /\ served' = Append(served, m)
          /\ Passed' = Passed /\ (Writing' <=> Writing)
      BY <1>3, KindsAreIncoming DEF Serve, queues, client, pcs, Passed, Held, Writing
    <2>2. /\ Passed \o lost \in Seq(Incoming) /\ wire \in Seq(Incoming)
          /\ <<m>> \in Seq(Incoming) /\ served \in Seq(Incoming)
      BY <2>1, PassedType, ConcatProperties DEF TypeOK
    <2>3. ((Passed \o lost) \o wire) \o <<m>> = (Passed \o lost) \o (wire \o <<m>>)
      <3>1. \A s, t, u \in Seq(Incoming) : (s \o t) \o u = s \o (t \o u)
        BY ConcatAssociative
      <3> QED BY <2>2, <3>1
    <2>4. Append(wire, m) = wire \o <<m>> /\ Append(served, m) = served \o <<m>>
      BY <2>1, <2>2, AppendIsConcat
    <2>5. IsLost(lost)'
      BY <2>1, <2>3, <2>4 DEF IsLost
    <2> QED BY <2>5 DEF Delivery
  <1> QED BY <1>1, <1>2, <1>3, NetDelivers DEF Next, Server, Ended

(* The messages that are handled are those the server sent first, in the   *)
(* order in which it sent them; what is lost is lost at the end, and only  *)
(* with a line that does not parse.                                        *)
THEOREM MessagesInOrder == Spec => []HandledInOrder
  <1>1. TypeOK /\ Delivery => HandledInOrder
    <2> SUFFICES ASSUME TypeOK, Delivery PROVE HandledInOrder
      OBVIOUS
    <2>1. PICK lost \in Seq(Incoming) : IsLost(lost)
      BY DEF Delivery
    <2>2. Received = Passed
      BY DEF Received, Passed, Held
    <2>3. /\ Passed \in Seq(Incoming) /\ wire \in Seq(Incoming) /\ lost \o wire \in Seq(Incoming)
          /\ Passed \o lost \in Seq(Incoming)
      BY <2>1, PassedType, ConcatProperties DEF TypeOK
    <2>4. Passed \o (lost \o wire) = served
      <3>1. \A s, t, u \in Seq(Incoming) : (s \o t) \o u = s \o (t \o u)
        BY ConcatAssociative
      <3> QED BY <2>1, <2>3, <3>1 DEF IsLost
    <2>5. IsPrefix(Received, served)
      BY <2>2, <2>3, <2>4, PrefixOfConcat
    <2>6. ASSUME Received \o wire # served
          PROVE  /\ netPc \in {"failing", "returning", "ended"}
                 /\ \E k \in Len(Received) + 1 .. Len(served) - Len(wire) : served[k] = "GARBLED"
      <3>1. lost # <<>>
        BY <2>1, <2>2, <2>3, <2>6, ConcatEmptySeq DEF IsLost
      <3>2. netPc \in {"failing", "returning", "ended"}
        BY <2>1, <3>1 DEF IsLost, Writing, TypeOK
      <3>3. PICK k \in 1 .. Len(lost) : lost[k] = "GARBLED"
        BY <2>1, <3>1 DEF IsLost
      <3>4. /\ Len(Passed \o lost) = Len(Passed) + Len(lost)
            /\ (Passed \o lost)[Len(Passed) + k] = lost[k]
            /\ Len(Passed) \in Nat /\ Len(lost) \in Nat /\ Len(wire) \in Nat
        BY <2>1, <2>3, <3>3, ConcatProperties, LenProperties
      <3>5. /\ Len(served) = Len(Passed \o lost) + Len(wire)
            /\ \A i \in 1 .. Len(Passed \o lost) : served[i] = (Passed \o lost)[i]
        BY <2>1, <2>3, ConcatProperties DEF IsLost
      <3>6. /\ Len(Passed) + k \in Len(Passed) + 1 .. Len(served) - Len(wire)
            /\ served[Len(Passed) + k] = "GARBLED"
        BY <3>3, <3>4, <3>5
      <3> QED BY <2>2, <3>2, <3>6
    <2> QED BY <2>5, <2>6 DEF HandledInOrder
  <1>2. TypeOK /\ Delivery /\ [Next]_vars => Delivery'
    BY NextDelivery
  <1> QED BY <1>1, <1>2, InitDelivery, ThreadsTypeCorrect, PTL DEF Spec

-----------------------------------------------------------------------------
(* What is written, as properties of a sequence of messages. *)

SetOf(s) == {s[i] : i \in 1 .. Len(s)}

QuitIsLast(s) ==
  \A i, j \in 1 .. Len(s) : i < j /\ s[i] = "QUIT" => s[j] \notin {"QUIT", "LINE"}
InOrder(s) ==
  /\ \A i \in 1 .. Len(s) : s[i] # "QUIT" => NeededBefore(s[i]) \subseteq {s[j] : j \in 1 .. i - 1}
  /\ \A i, j \in 1 .. Len(s) : i # j /\ s[i] = s[j] => s[i] \in {"QUIT", "PONG", "LINE"}

(* They hold of the first part of a sequence they hold of, and of one that *)
(* grows by a message it may grow by.                                      *)
LEMMA Truncation ==
  ASSUME NEW s \in Seq(Outgoing), NEW t \in Seq(Outgoing)
  PROVE  /\ SetOf(s) \subseteq SetOf(s \o t)
         /\ QuitIsLast(s \o t) => QuitIsLast(s)
         /\ InOrder(s \o t) => InOrder(s)
  <1>1. /\ Len(s \o t) = Len(s) + Len(t) /\ Len(s) \in Nat /\ Len(t) \in Nat
        /\ \A i \in 1 .. Len(s) : (s \o t)[i] = s[i]
    BY ConcatProperties, LenProperties
  <1>2. \A i \in 1 .. Len(s) : i \in 1 .. Len(s \o t)
    BY <1>1
  <1>3. SetOf(s) \subseteq SetOf(s \o t)
    BY <1>1, <1>2 DEF SetOf
  <1>4. QuitIsLast(s \o t) => QuitIsLast(s)
    BY <1>1, <1>2 DEF QuitIsLast
  <1>5. ASSUME InOrder(s \o t) PROVE InOrder(s)
    <2>1. ASSUME NEW i \in 1 .. Len(s), s[i] # "QUIT"
          PROVE  NeededBefore(s[i]) \subseteq {s[j] : j \in 1 .. i - 1}
      <3>1. NeededBefore(s[i]) \subseteq {(s \o t)[j] : j \in 1 .. i - 1}
        BY <1>1, <1>2, <1>5, <2>1 DEF InOrder
      <3>2. \A j \in 1 .. i - 1 : (s \o t)[j] = s[j]
        BY <1>1
      <3> QED BY <3>1, <3>2
    <2> QED BY <1>1, <1>2, <1>5, <2>1 DEF InOrder
  <1> QED BY <1>3, <1>4, <1>5

LEMMA QuitAppend ==
  ASSUME NEW s \in Seq(Outgoing), NEW m \in Outgoing, QuitIsLast(s),
         "QUIT" \in SetOf(s) => m \notin {"QUIT", "LINE"}
  PROVE  QuitIsLast(Append(s, m))
  <1>1. /\ Len(Append(s, m)) = Len(s) + 1 /\ Len(s) \in Nat
        /\ \A i \in 1 .. Len(s) : Append(s, m)[i] = s[i]
        /\ Append(s, m)[Len(s) + 1] = m
    BY AppendProperties, LenProperties
  <1> QED BY <1>1 DEF QuitIsLast, SetOf

LEMMA OrderAppend ==
  ASSUME NEW s \in Seq(Outgoing), NEW m \in Outgoing, InOrder(s),
         m # "QUIT" => NeededBefore(m) \subseteq SetOf(s),
         m \in SetOf(s) => m \in {"QUIT", "PONG", "LINE"}
  PROVE  InOrder(Append(s, m))
  <1> DEFINE u == Append(s, m)
  <1>1. /\ Len(u) = Len(s) + 1 /\ Len(s) \in Nat
        /\ \A i \in 1 .. Len(s) : u[i] = s[i]
        /\ u[Len(s) + 1] = m
    BY AppendProperties, LenProperties
  <1> HIDE DEF u
  <1>2. ASSUME NEW i \in 1 .. Len(u), u[i] # "QUIT"
        PROVE  NeededBefore(u[i]) \subseteq {u[j] : j \in 1 .. i - 1}
    <2>1. CASE i \in 1 .. Len(s)
      <3>1. NeededBefore(s[i]) \subseteq {s[j] : j \in 1 .. i - 1} /\ u[i] = s[i]
        BY <1>1, <1>2, <2>1 DEF InOrder
      <3>2. \A j \in 1 .. i - 1 : u[j] = s[j]
        BY <1>1, <2>1
      <3> QED BY <3>1, <3>2
    <2>2. CASE i = Len(s) + 1
      <3>1. NeededBefore(u[i]) \subseteq {s[j] : j \in 1 .. Len(s)}
        BY <1>1, <1>2, <2>2 DEF SetOf
      <3>2. \A j \in 1 .. Len(s) : u[j] = s[j] /\ j \in 1 .. i - 1
        BY <1>1, <2>2
      <3> QED BY <3>1, <3>2
    <2> QED BY <1>1, <2>1, <2>2
  <1>3. ASSUME NEW i \in 1 .. Len(u), NEW j \in 1 .. Len(u), i # j, u[i] = u[j]
        PROVE  u[i] \in {"QUIT", "PONG", "LINE"}
    BY <1>1, <1>3 DEF InOrder, SetOf
  <1> QED BY <1>2, <1>3 DEF InOrder, u

LEMMA SetOfAppend ==
  ASSUME NEW s \in Seq(Outgoing), NEW m \in Outgoing
  PROVE  SetOf(Append(s, m)) = SetOf(s) \cup {m}
  <1>1. /\ Len(Append(s, m)) = Len(s) + 1 /\ Len(s) \in Nat
        /\ \A i \in 1 .. Len(s) : Append(s, m)[i] = s[i]
        /\ Append(s, m)[Len(s) + 1] = m
    BY AppendProperties, LenProperties
  <1> QED BY <1>1 DEF SetOf

-----------------------------------------------------------------------------
(* What one step does to the stream: nothing; or it ends it, dropping what *)
(* was not written; or it adds a message.                                  *)

LEMMA StreamType ==
  ASSUME TypeOK
  PROVE  Stream \in Seq(Outgoing) /\ sent \in Seq(Outgoing) /\ writeQ \in Seq(Outgoing)
  <1>1. sent \in Seq(Outgoing) /\ writeQ \in Seq(Outgoing)
    BY DEF TypeOK
  <1>2. sent \o writeQ \in Seq(Outgoing) /\ sent \o <<>> \in Seq(Outgoing)
    BY <1>1, ConcatProperties, ConcatEmptySeq
  <1> QED BY <1>1, <1>2 DEF Stream

LEMMA StreamIs ==
  ASSUME TypeOK
  PROVE  /\ Writing => Stream = sent \o writeQ
         /\ ~Writing => Stream = sent
  <1>1. sent \o <<>> = sent
    BY StreamType, ConcatEmptySeq
  <1> QED BY <1>1 DEF Stream, Writing

(* When a message may be added. *)
Adds(m) ==
  /\ Writing
  /\ m \in {"PASS", "NICK", "USER"} =>
       toRegister # <<>> /\ m = Head(toRegister) /\ toRegister' = Tail(toRegister)
  /\ m \notin {"PASS", "NICK", "USER"} => UNCHANGED toRegister
  /\ m \in {"PONG", "LINE"} => toRegister = <<>>
  /\ m \in {"LINE", "QUIT"} => inputPc = "polling"
  /\ m = "QUIT" => inputPc' = "quitting"

StreamStep ==
  \/ Stream' = Stream /\ (UNCHANGED toRegister \/ (~Writing /\ toRegister # <<>> /\ toRegister' = Tail(toRegister)))
  \/ ~Writing' /\ UNCHANGED toRegister /\ \E t \in Seq(Outgoing) : Stream = Stream' \o t
  \/ \E m \in Outgoing : Stream' = Append(Stream, m) /\ Adds(m)

LEMMA EnqueueStream ==
  ASSUME TypeOK, TypeOK', NEW m \in Outgoing, Enqueue(m), UNCHANGED <<netPc, sent>>
  PROVE  IF Writing THEN Stream' = Append(Stream, m) ELSE Stream' = Stream
  <1>1. sent \in Seq(Outgoing) /\ writeQ \in Seq(Outgoing) /\ <<m>> \in Seq(Outgoing)
    BY StreamType
  <1>2. Writing' <=> Writing
    BY DEF Writing
  <1>3. CASE Writing
    <2>1. Stream = sent \o writeQ /\ Stream' = sent' \o writeQ'
      BY <1>2, <1>3 DEF Stream, Writing
    <2>2. writeQ' = writeQ \o <<m>> /\ sent' = sent
      BY <1>1, AppendIsConcat DEF Enqueue
    <2>3. (sent \o writeQ) \o <<m>> = sent \o (writeQ \o <<m>>)
      BY <1>1, ConcatAssociative
    <2>4. Append(Stream, m) = Stream \o <<m>>
      BY StreamType, AppendIsConcat
    <2> QED BY <1>3, <2>1, <2>2, <2>3, <2>4
  <1>4. CASE ~Writing
    BY <1>2, <1>4 DEF Stream, Writing
  <1> QED BY <1>3, <1>4

LEMMA NetStream ==
  ASSUME TypeOK, TypeOK', Net
  PROVE  StreamStep
  <1>0. UNCHANGED toRegister
    BY DEF Net, NetChecks, NetWrites, NetFailsToWrite, NetHasNothingToWrite, NetReads,
       NetReadsNothing, NetReports, NetEnds, client
  <1>1. sent \in Seq(Outgoing) /\ writeQ \in Seq(Outgoing)
    BY StreamType
  <1>2. CASE NetWrites
    <2>1. /\ writeQ # <<>> /\ writeQ' = Tail(writeQ) /\ sent' = Append(sent, Head(writeQ))
          /\ Writing /\ Writing'
      BY <1>2 DEF NetWrites, NetStep, Writing
    <2>2. Head(writeQ) \in Outgoing /\ Tail(writeQ) \in Seq(Outgoing)
      BY <1>1, <2>1, HeadTailProperties
    <2>3. <<Head(writeQ)>> \in Seq(Outgoing)
      BY <2>2
    <2>4. (sent \o <<Head(writeQ)>>) \o Tail(writeQ) = sent \o (<<Head(writeQ)>> \o Tail(writeQ))
      BY <1>1, <2>2, <2>3, ConcatAssociative
    <2>5. <<Head(writeQ)>> \o Tail(writeQ) = writeQ
      <3>1. SubSeq(writeQ, 1, Len(writeQ)) = <<writeQ[1]>> \o SubSeq(writeQ, 2, Len(writeQ))
        <4>1. 1 \in 1 .. Len(writeQ) /\ Len(writeQ) \in 1 .. Len(writeQ)
          BY <1>1, <2>1
        <4> QED BY <1>1, <4>1, SubSeqRecursiveFirst
      <3>2. SubSeq(writeQ, 1, Len(writeQ)) = writeQ /\ Tail(writeQ) = SubSeq(writeQ, 2, Len(writeQ))
        BY <1>1, <2>1, SubSeqFull, TailIsSubSeq
      <3>3. Head(writeQ) = writeQ[1]
        BY <1>1, <2>1
      <3> QED BY <3>1, <3>2, <3>3
    <2>6. sent' = sent \o <<Head(writeQ)>>
      BY <1>1, <2>1, <2>2, AppendIsConcat
    <2>7. Stream = sent \o writeQ /\ Stream' = sent' \o writeQ'
      BY <2>1 DEF Stream, Writing
    <2> QED BY <1>0, <2>1, <2>4, <2>5, <2>6, <2>7 DEF StreamStep
  <1>3. ASSUME UNCHANGED sent, ~Writing' PROVE StreamStep
    <2>1. sent \o <<>> = sent /\ <<>> \in Seq(Outgoing)
      BY <1>1, ConcatEmptySeq, EmptySeq
    <2>2. Stream' = sent
      BY <1>3, <2>1 DEF Stream, Writing
    <2>3. \E t \in Seq(Outgoing) : Stream = sent \o t
      BY <1>1, <2>1 DEF Stream
    <2> QED BY <1>0, <1>3, <2>2, <2>3 DEF StreamStep
  <1>4. ASSUME UNCHANGED <<sent, writeQ>>, Writing, Writing' PROVE StreamStep
    BY <1>0, <1>4 DEF Stream, StreamStep, Writing
  <1>5. CASE NetChecks \/ NetHasNothingToWrite \/ NetReadsNothing \/ (\E n \in 1 .. MaxIncoming : NetReads(n))
    BY <1>3, <1>4, <1>5 DEF NetChecks, NetHasNothingToWrite, NetReadsNothing, NetReads, NetStep,
       Writing, queues, network
  <1>6. CASE NetFailsToWrite \/ NetReports \/ NetEnds
    BY <1>3, <1>6 DEF NetFailsToWrite, NetReports, NetEnds, NetStep, Writing, network
  <1> QED BY <1>2, <1>5, <1>6 DEF Net

LEMMA InputStream ==
  ASSUME TypeOK, TypeOK', Control, Input
  PROVE  StreamStep
  <1>0. UNCHANGED <<netPc, sent, toRegister>>
    BY DEF Input, InputChecks, InputLocks, InputPolls, InputSends, InputFailsToSend,
       InputSendsQuit, InputSetsQuit, InputWakes, InputReports, InputStep, InputFrame, network
  <1>1. CASE InputSends
    <2>1. Enqueue("LINE") /\ toRegister = <<>> /\ inputPc = "polling" /\ "LINE" \in Outgoing
      BY <1>1 DEF InputSends, InputStep, Control, Outgoing
    <2> QED BY <1>0, <2>1, EnqueueStream DEF StreamStep, Adds
  <1>2. CASE InputSendsQuit
    <2>1. Enqueue("QUIT") /\ inputPc = "polling" /\ inputPc' = "quitting" /\ "QUIT" \in Outgoing
      BY <1>2 DEF InputSendsQuit, InputStep, Outgoing
    <2> QED BY <1>0, <2>1, EnqueueStream DEF StreamStep, Adds
  <1>3. CASE UNCHANGED writeQ
    BY <1>0, <1>3 DEF Stream, StreamStep
  <1> QED BY <1>1, <1>2, <1>3 DEF Input, InputChecks, InputLocks, InputPolls, InputFailsToSend,
             InputSetsQuit, InputWakes, InputReports

LEMMA MainStream ==
  ASSUME TypeOK, TypeOK', Control, Main,
         \A i \in 1 .. Len(toRegister) : toRegister[i] \in {"PASS", "NICK", "USER"}
  PROVE  StreamStep
  <1>0. UNCHANGED <<netPc, sent>>
    BY DEF Main, MainRegisters, MainChecks, MainReceives, MainLocks, MainHandles, MainDisables,
       MainExits, MainStep, network
  <1>1. CASE MainRegisters /\ toRegister # <<>> /\ CanWrite
    <2>1. Enqueue(Head(toRegister)) /\ toRegister' = Tail(toRegister)
      BY <1>1 DEF MainRegisters
    <2>2. Head(toRegister) \in {"PASS", "NICK", "USER"}
      BY <1>1 DEF TypeOK
    <2>3. Head(toRegister) \in Outgoing
      BY <2>2 DEF Outgoing
    <2> QED BY <1>0, <1>1, <2>1, <2>2, <2>3, EnqueueStream DEF StreamStep, Adds
  <1>2. CASE MainHandles /\ msg = "PING" /\ CanWrite
    <2>1. Enqueue("PONG") /\ toRegister = <<>> /\ UNCHANGED toRegister /\ "PONG" \in Outgoing
      BY <1>2 DEF MainHandles, MainStep, Control, Outgoing
    <2> QED BY <1>0, <2>1, EnqueueStream DEF StreamStep, Adds
  <1>3. CASE UNCHANGED <<writeQ, toRegister>>
    BY <1>0, <1>3 DEF Stream, StreamStep
  <1> QED BY <1>1, <1>2, <1>3 DEF Main, MainRegisters, MainChecks, MainReceives, MainLocks, MainHandles,
             MainDisables, MainExits, queues, client

-----------------------------------------------------------------------------
(* The invariant of the stream: what is still to be registered is an end   *)
(* of the registration and none of it was sent; the rest of it was, as     *)
(* long as the net thread can write; a QUIT is followed by the flag.       *)
RegistrationEnds ==
  {s \in {<<"PASS", "NICK", "USER">>, <<"NICK", "USER">>, <<"USER">>, <<>>} :
     "PASS" \in SetOf(s) => HasToken}

Registering ==
  /\ toRegister \in RegistrationEnds
  /\ \A m \in SetOf(toRegister) : m \notin SetOf(Stream)
  /\ Writing => SetOf(Registration) \ SetOf(toRegister) \subseteq SetOf(Stream)

QuitKnown == "QUIT" \in SetOf(Stream) => quitRequested \/ inputPc = "quitting"

StreamInv == QuitKnown /\ QuitIsLast(Stream) /\ InOrder(Stream) /\ Registering

LEMMA SetsOfEnds ==
  /\ SetOf(<<"PASS", "NICK", "USER">>) = {"PASS", "NICK", "USER"}
  /\ SetOf(<<"NICK", "USER">>) = {"NICK", "USER"}
  /\ SetOf(<<"USER">>) = {"USER"}
  /\ SetOf(<<>>) = {}
  BY DEF SetOf

LEMMA NeededOfRegistration ==
  ASSUME NEW m
  PROVE  NeededBefore(m) \subseteq SetOf(Registration)
  <1>1. DOMAIN Registration = 1 .. Len(Registration)
    BY RegistrationType
  <1> QED BY <1>1 DEF NeededBefore, SetOf

LEMMA NextToRegister ==
  ASSUME NEW s \in RegistrationEnds, s # <<>>
  PROVE  /\ Tail(s) \in RegistrationEnds
         /\ Head(s) \in {"PASS", "NICK", "USER"}
         /\ Head(s) \in SetOf(s)
         /\ SetOf(Tail(s)) = SetOf(s) \ {Head(s)}
         /\ NeededBefore(Head(s)) \subseteq SetOf(Registration) \ SetOf(s)
  <1>1. CASE s = <<"PASS", "NICK", "USER">>
    <2>1. HasToken /\ Registration = <<"PASS", "NICK", "USER">>
      BY <1>1, SetsOfEnds, RegistrationType DEF RegistrationEnds
    <2>2. NeededBefore("PASS") = {}
      BY <2>1 DEF NeededBefore
    <2>3. Tail(s) = <<"NICK", "USER">> /\ Head(s) = "PASS"
      BY <1>1
    <2> QED BY <1>1, <2>2, <2>3, SetsOfEnds DEF RegistrationEnds
  <1>2. CASE s = <<"NICK", "USER">>
    <2>1. NeededBefore("NICK") \subseteq {"PASS"}
      BY RegistrationType DEF NeededBefore
    <2>2. Tail(s) = <<"USER">> /\ Head(s) = "NICK"
      BY <1>2
    <2> QED BY <1>2, <2>1, <2>2, SetsOfEnds, NeededOfRegistration DEF RegistrationEnds
  <1>3. CASE s = <<"USER">>
    <2>1. NeededBefore("USER") \subseteq {"PASS", "NICK"}
      BY RegistrationType DEF NeededBefore
    <2>2. Tail(s) = <<>> /\ Head(s) = "USER"
      BY <1>3
    <2> QED BY <1>3, <2>1, <2>2, SetsOfEnds, NeededOfRegistration DEF RegistrationEnds
  <1> QED BY <1>1, <1>2, <1>3 DEF RegistrationEnds

LEMMA InitStreamInv == Init => StreamInv
  <1> SUFFICES ASSUME Init PROVE StreamInv
    OBVIOUS
  <1>1. Stream = <<>>
    <2>1. <<>> \in Seq(Outgoing) /\ <<>> \o <<>> = <<>>
      BY ConcatEmptySeq, EmptySeq
    <2> QED BY <2>1 DEF Init, Stream
  <1>2. Registering
    BY <1>1, RegistrationType, SetsOfEnds DEF Init, Registering, RegistrationEnds
  <1>3. QuitKnown /\ QuitIsLast(Stream) /\ InOrder(Stream)
    BY <1>1 DEF QuitKnown, QuitIsLast, InOrder, SetOf
  <1> QED BY <1>2, <1>3 DEF StreamInv

(* A message that may be added keeps the invariant. *)
LEMMA AddKeeps ==
  ASSUME TypeOK, Control, StreamInv, NEW m \in Outgoing, Adds(m), Stream' = Append(Stream, m),
         "QUIT" \in SetOf(Stream) => quitRequested' \/ inputPc' = "quitting"
  PROVE  StreamInv'
  <1>1. Stream \in Seq(Outgoing)
    BY StreamType
  <1>2. SetOf(Stream') = SetOf(Stream) \cup {m}
    BY <1>1, SetOfAppend
  <1>3. m \in {"LINE", "QUIT"} => "QUIT" \notin SetOf(Stream)
    BY DEF Adds, StreamInv, QuitKnown, Control
  <1>4. QuitIsLast(Stream')
    BY <1>1, <1>3, QuitAppend DEF StreamInv
  <1>5. /\ toRegister \in RegistrationEnds /\ \A k \in SetOf(toRegister) : k \notin SetOf(Stream)
        /\ SetOf(Registration) \ SetOf(toRegister) \subseteq SetOf(Stream)
    BY DEF StreamInv, Registering, Adds
  <1>6. CASE m \in {"PASS", "NICK", "USER"}
    <2>1. toRegister # <<>> /\ m = Head(toRegister) /\ toRegister' = Tail(toRegister)
      BY <1>6 DEF Adds
    <2>2. /\ toRegister' \in RegistrationEnds /\ m \in SetOf(toRegister)
          /\ SetOf(toRegister') = SetOf(toRegister) \ {m}
          /\ NeededBefore(m) \subseteq SetOf(Registration) \ SetOf(toRegister)
      BY <1>5, <2>1, NextToRegister
    <2>3. InOrder(Stream')
      BY <1>1, <1>5, <2>2, OrderAppend DEF StreamInv
    <2>4. Registering'
      <3>1. \A k \in SetOf(toRegister') : k \notin SetOf(Stream')
        BY <1>2, <1>5, <2>2
      <3>2. SetOf(Registration) \ SetOf(toRegister') \subseteq SetOf(Stream')
        BY <1>2, <1>5, <2>2
      <3> QED BY <2>2, <3>1, <3>2 DEF Registering, RegistrationEnds
    <2> QED BY <1>2, <1>4, <1>6, <2>3, <2>4 DEF StreamInv, QuitKnown
  <1>7. CASE m \notin {"PASS", "NICK", "USER"}
    <2>1. toRegister' = toRegister /\ m \in {"PONG", "LINE", "QUIT"}
      BY <1>7 DEF Adds, Outgoing
    <2>2. m # "QUIT" => NeededBefore(m) \subseteq SetOf(Stream)
      BY <1>5, <2>1, NeededOfRegistration, SetsOfEnds DEF Adds
    <2>3. InOrder(Stream')
      BY <1>1, <2>1, <2>2, OrderAppend DEF StreamInv
    <2>4. SetOf(toRegister) \subseteq {"PASS", "NICK", "USER"}
      BY <1>5, SetsOfEnds DEF RegistrationEnds
    <2>5. Registering'
      BY <1>2, <1>5, <1>7, <2>1, <2>4 DEF Registering, RegistrationEnds
    <2>6. QuitKnown'
      BY <1>2, <2>1 DEF Adds, QuitKnown
    <2> QED BY <1>4, <2>3, <2>5, <2>6 DEF StreamInv
  <1> QED BY <1>6, <1>7

LEMMA StreamStepKeeps ==
  ASSUME TypeOK, TypeOK', Control, StreamInv, StreamStep, Writing' => Writing,
         quitRequested => quitRequested',
         inputPc = "quitting" => inputPc' = "quitting" \/ quitRequested'
  PROVE  StreamInv'
  <1>1. "QUIT" \in SetOf(Stream) => quitRequested' \/ inputPc' = "quitting"
    BY DEF StreamInv, QuitKnown
  <1>2. CASE Stream' = Stream /\ UNCHANGED toRegister
    BY <1>1, <1>2 DEF StreamInv, QuitKnown, Registering, RegistrationEnds
  <1>3. CASE Stream' = Stream /\ ~Writing /\ toRegister # <<>> /\ toRegister' = Tail(toRegister)
    <2>1. toRegister' \in RegistrationEnds /\ SetOf(toRegister') \subseteq SetOf(toRegister)
      BY <1>3, NextToRegister DEF StreamInv, Registering
    <2> QED BY <1>1, <1>3, <2>1 DEF StreamInv, QuitKnown, Registering, RegistrationEnds
  <1>4. ASSUME ~Writing', UNCHANGED toRegister, NEW t \in Seq(Outgoing), Stream = Stream' \o t
        PROVE  StreamInv'
    <2>1. Stream' \in Seq(Outgoing)
      <3>1. sent' \in Seq(Outgoing) /\ sent' \o <<>> = sent'
        BY ConcatEmptySeq DEF TypeOK
      <3>2. Stream' = sent' \o <<>>
        BY <1>4 DEF Stream, Writing
      <3> QED BY <3>1, <3>2
    <2>2. /\ SetOf(Stream') \subseteq SetOf(Stream)
          /\ QuitIsLast(Stream) => QuitIsLast(Stream')
          /\ InOrder(Stream) => InOrder(Stream')
      BY <1>4, <2>1, Truncation
    <2> QED BY <1>1, <1>4, <2>2 DEF StreamInv, QuitKnown, Registering, RegistrationEnds
  <1>5. ASSUME NEW m \in Outgoing, Stream' = Append(Stream, m), Adds(m) PROVE StreamInv'
    BY <1>1, <1>5, AddKeeps
  <1> QED BY <1>2, <1>3, <1>4, <1>5 DEF StreamStep

LEMMA NextStreamInv ==
  ASSUME TypeOK, TypeOK', Control, StreamInv, [Next]_vars
  PROVE  StreamInv'
  <1>1. CASE Net
    <2>1. UNCHANGED client /\ UNCHANGED inputPc /\ (Writing' => Writing)
      BY <1>1 DEF Net, NetChecks, NetWrites, NetFailsToWrite, NetHasNothingToWrite, NetReads,
         NetReadsNothing, NetReports, NetEnds, NetStep, Writing
    <2> QED BY <1>1, <2>1, NetStream, StreamStepKeeps DEF client
  <1>2. CASE Input
    <2>1. /\ quitRequested => quitRequested'
          /\ Writing' => Writing
          /\ inputPc = "quitting" => quitRequested'
      BY <1>2 DEF Input, InputChecks, InputLocks, InputPolls, InputSends, InputFailsToSend,
         InputSendsQuit, InputSetsQuit, InputWakes, InputReports, InputStep, InputFrame, Writing
    <2>2. StreamStep
      BY <1>2, InputStream
    <2>3. inputPc = "quitting" => inputPc' = "quitting" \/ quitRequested'
      BY <2>1
    <2> QED BY <2>1, <2>2, <2>3, StreamStepKeeps
  <1>3. CASE Main
    <2>1. UNCHANGED <<quitRequested, inputPc, netPc>>
      BY <1>3 DEF Main, MainRegisters, MainChecks, MainReceives, MainLocks, MainHandles,
         MainDisables, MainExits, MainStep, client
    <2>2. \A i \in 1 .. Len(toRegister) : toRegister[i] \in {"PASS", "NICK", "USER"}
      BY SetsOfEnds DEF StreamInv, Registering, RegistrationEnds
    <2>3. StreamStep
      BY <1>3, <2>2, MainStream
    <2>4. (Writing' => Writing) /\ (quitRequested => quitRequested')
          /\ (inputPc = "quitting" => inputPc' = "quitting")
      BY <2>1 DEF Writing
    <2> QED BY <2>3, <2>4, StreamStepKeeps
  <1>4. CASE Server \/ UNCHANGED vars
    <2>1. UNCHANGED <<quitRequested, inputPc, netPc, sent, writeQ, toRegister>>
      BY <1>4 DEF Server, Serve, PeerCloses, vars, queues, client, pcs, network
    <2> QED BY <2>1 DEF StreamInv, QuitKnown, Registering, RegistrationEnds, Stream, Writing
  <1> QED BY <1>1, <1>2, <1>3, <1>4 DEF Next, Ended

(* The stream keeps its invariant, whatever is served, typed and lost. *)
THEOREM StreamKept == Spec => []StreamInv
  <1>1. TypeOK /\ TypeOK' /\ Control /\ StreamInv /\ [Next]_vars => StreamInv'
    BY NextStreamInv
  <1>2. TypeOK /\ Control /\ [Next]_vars => Control'
    BY NextControl
  <1> QED BY <1>1, <1>2, InitControl, InitStreamInv, ThreadsTypeCorrect, PTL DEF Spec

(* Nothing the user types follows a QUIT, and no second QUIT either.       *)
THEOREM QuitIsTheLastWord == Spec => []NothingTypedAfterQuit
  <1>1. TypeOK /\ StreamInv => NothingTypedAfterQuit
    <2> SUFFICES ASSUME TypeOK, StreamInv PROVE NothingTypedAfterQuit
      OBVIOUS
    <2>1. DOMAIN Stream = 1 .. Len(Stream)
      BY StreamType
    <2> QED BY <2>1 DEF StreamInv, QuitIsLast, NothingTypedAfterQuit
  <1> QED BY <1>1, StreamKept, ThreadsTypeCorrect, PTL

(* The registration is sent in its order, each message once, before any    *)
(* PONG and any line, with and without a PASS.                             *)
THEOREM RegistrationComesFirst == Spec => []RegistrationFirst
  <1>1. TypeOK /\ StreamInv => RegistrationFirst
    <2> SUFFICES ASSUME TypeOK, StreamInv PROVE RegistrationFirst
      OBVIOUS
    <2>1. DOMAIN Stream = 1 .. Len(Stream)
      BY StreamType
    <2> QED BY <2>1 DEF StreamInv, InOrder, RegistrationFirst
  <1> QED BY <1>1, StreamKept, ThreadsTypeCorrect, PTL
=============================================================================
