-------------------------------- MODULE Wire --------------------------------
(***************************************************************************)
(* One line at a time between a client, the server and another client:     *)
(* what the writer of a line means and what its reader makes of it.        *)
(* IrcMessages is what the clients do; the server writes and reads by the  *)
(* grammar of IRC, and sends on what is for others.                        *)
(***************************************************************************)
EXTENDS IrcMessages

CONSTANTS
  Me, Channel,  (* the nick of the client that writes, a channel           *)
  Sources, Names, ParamLists, (* the parts of what a server sends          *)
  Texts         (* what a user types or configures                         *)

VARIABLES
  hop,    (* whether the line is at the "server" or a "client"; else "idle"
             or, if what was typed is not sent, "refused"                  *)
  meant,  (* the message its writer means                                  *)
  line,
  by,     (* history: what has written the line, "none" if it is not sent  *)
  got     (* what the client that reads it has parsed                      *)

vars == <<hop, meant, line, by, got>>

-----------------------------------------------------------------------------
(* The grammar.  A message has a name and parameters, each a list of items *)
(* that commas separate.                                                   *)

Message(source, name, params) ==
  [tags |-> FALSE, source |-> source, name |-> name, params |-> params]
Nothing == Message(NoSource, NoWord, <<>>)

(* A spelling chooses the spaces before, between and after the parts, and  *)
(* whether the last parameter is marked with a colon.                      *)
Spellings == [before : 0 .. 1, gap : 1 .. 2, after : 0 .. 1, mark : BOOLEAN]

Spaces(n) == [i \in 1 .. n |-> Space]
SourceText(source) ==
  CASE source.kind = "none" -> <<>>
    [] source.kind = "server" -> <<":">> \o source.name
    [] source.kind = "nick" ->
         <<":">> \o source.nick \o (IF source.user = <<>> THEN <<>> ELSE <<"!">> \o source.user[1])
                 \o (IF source.host = <<>> THEN <<>> ELSE <<"@">> \o source.host[1])

SpellHead(m, sp) ==
  (IF m.tags THEN <<"@", "tag", Space>> ELSE <<>>)
    \o (IF m.source = NoSource THEN <<>> ELSE SourceText(m.source) \o Spaces(sp.gap))
SpellParam(m, sp, i) ==
  Spaces(sp.gap) \o (IF sp.mark /\ i = Len(m.params) THEN <<":">> ELSE <<>>)
    \o Joined(m.params[i], Comma)
Spell(m, sp) ==
  Spaces(sp.before) \o SpellHead(m, sp) \o <<m.name>>
    \o FlattenSeq([i \in DOMAIN m.params |-> SpellParam(m, sp, i)]) \o Spaces(sp.after)

(* A list is not marked, and a text with a space, a comma or a colon in    *)
(* front is.                                                               *)
IsMiddle(param) ==
  \A i \in DOMAIN param :
    param[i] # <<>> /\ ToSet(param[i]) \cap {Space, Comma} = {} /\ param[i][1] # ":"
CanSpell(m, sp) ==
  /\ \A i \in 1 .. Len(m.params) - (IF sp.mark THEN 1 ELSE 0) : IsMiddle(m.params[i])
  /\ sp.mark => m.params # <<>> /\ Len(m.params[Len(m.params)]) = 1 /\ sp.after = 0

-----------------------------------------------------------------------------
(* What can be said: texts are made of words and characters, the parts of  *)
(* a source are without the characters in front of the next one, a         *)
(* parameter is a list of at least one item, and a name is a word.         *)

IsText(s) == s \in Seq(STRING)
Lacks(s, chars) == IsText(s) /\ ToSet(s) \cap chars = {}
CanBeSource(source) ==
  \/ source = NoSource
  \/ /\ source.kind = "server" /\ source = ServerSource(source.name)
     /\ Lacks(source.name, {Space, "!", "@"})
  \/ /\ source.kind = "nick" /\ source = NickSource(source.nick, source.user, source.host)
     /\ source.user # <<>> \/ source.host # <<>>
     /\ Lacks(source.nick, {Space, "!", "@"})
     /\ source.user # <<>> =>
          source.user = <<source.user[1]>> /\ Lacks(source.user[1], {Space, "@"})
     /\ source.host # <<>> =>
          /\ source.host = <<source.host[1]>>
          /\ Lacks(source.host[1], {Space} \cup IF source.user = <<>> THEN {"!"} ELSE {})
Words == STRING \ {NoWord, Space, ":", "@"}
Params == Seq(Seq(STRING)) \ {<<>>}

ASSUME NamesAreValid ==
  /\ IsText(Me) /\ IsNickname(Me) /\ ~IsChannelName(Me)
  /\ Lacks(Channel, {Space, Comma}) /\ IsChannelName(Channel)
ASSUME PartsAreValid ==
  /\ \A source \in Sources : CanBeSource(source)
  /\ Names \subseteq Words
  /\ \A params \in ParamLists : params \in Seq(Params)
  /\ \A text \in Texts : IsText(text)
ASSUME LowercaseIsValid ==
  /\ LowercaseOf("JOIN") = "join"
  /\ \A word \in {"join", "raw", "msg", "quit", "nick"} : LowercaseOf(word) = word

-----------------------------------------------------------------------------
Init == hop = "idle" /\ meant = Nothing /\ line = <<>> /\ by = "none" /\ got = Failed

Arrives(m) ==
  \E sp \in Spellings :
    /\ CanSpell(m, sp)
    /\ meant' = m
    /\ line' = Spell(m, sp)
    /\ by' = "server"
    /\ got' = Parse(line')
    /\ hop' = "client"

ServerSends ==
  /\ hop = "idle"
  /\ \E source \in Sources, name \in Names, params \in ParamLists, tags \in BOOLEAN :
       Arrives([Message(source, name, params) EXCEPT !.tags = tags])

Writes(how, cmd, m) ==
  /\ meant' = m /\ line' = IrcStr(cmd) /\ by' = how /\ hop' = "server"
  /\ UNCHANGED got

(* PASS, NICK and USER at the start: --nick is any text, and is the nick,  *)
(* the username and the realname.                                          *)
ClientRegisters ==
  /\ hop = "idle"
  /\ \E text \in Texts :
       \/ \E kind \in {"PASS", "NICK"} :
            Writes("start", [kind |-> kind, text |-> text], Message(NoSource, kind, << <<text>> >>))
       \/ Writes("start", [kind |-> "USER", username |-> text, realname |-> text],
                 Message(NoSource, "USER", << <<text>>, << <<"0">> >>, << <<"*">> >>, <<text>> >>))

Types(how, text, target, m) ==
  LET done == HandleInput(text, target)
  IN  \/ done.fate = "ok" /\ done.send # <<>> /\ Writes(how, done.send[1], m)
      \/ done.fate = "error" /\ hop' = "refused" /\ meant' = m /\ UNCHANGED <<line, by, got>>

OtherChannel == Channel \o Me
ChannelLists == {<<Channel>>, <<Channel, OtherChannel>>}

(* A line to the current window, each of the commands as it should be, and *)
(* commands that cannot be done.                                           *)
UserTypes ==
  /\ hop = "idle"
  /\ \/ \E text \in Texts, target \in {Me, Channel} :
          /\ ~StartsWith(text, "/")
          /\ Types("line", text, target, Message(NoSource, "PRIVMSG", << <<target>>, <<text>> >>))
     \/ \E join \in {"join", "JOIN"}, channels \in ChannelLists :
          Types("join", <<"/", join, Space>> \o Joined(channels, Comma), Me,
                Message(NoSource, "JOIN", <<channels>>))
     \/ \E name \in Names, params \in ParamLists, sp \in Spellings :
          LET m == Message(NoSource, name, params)
          IN  CanSpell(m, sp) /\ Types("raw", <<"/", "raw", Space>> \o Spell(m, sp), Me, m)
     \/ Types("quit", <<"/", "quit">>, Me, Message(NoSource, "QUIT", <<>>))
     \/ \E text \in {<<"/">>, <<"/", "join">>, <<"/", "join", Space>> \o Me,
                     <<"/", "join", Space>> \o Channel \o <<Space>> \o Channel,
                     <<"/", "raw", Space, Space>>, <<"/", "msg", Space>> \o Channel \o <<Comma>>,
                     <<"/", "nick", Space>> \o Me} :
          Types("none", text, Me, Nothing)

(* Of a list of channels /join sends the first.                            *)
Said ==
  IF by = "join" THEN Message(NoSource, "JOIN", << <<meant.params[1][1]>> >>) ELSE meant

(* The server sends on what is for other clients. *)
ServerRelays ==
  /\ hop = "server" /\ meant.name \in {"JOIN", "PRIVMSG", "NOTICE"}
  /\ Arrives([Said EXCEPT !.source = NickSource(Me, <<Me>>, << <<"host">> >>)])

(* parse_ctcp: the word behind the delimiter. *)
CtcpInfo ==
  <<"^A", "CLIENTINFO", Space, "ACTION", Space, "CLIENTINFO", "^A">>
IsCtcpInfo(msg) ==
  StartsWith(msg, "^A") /\ Before(Before(Tail(msg), Space), "^A") = <<"CLIENTINFO">>

(* PONG for PING, and a NOTICE for a query, if that came in a NOTICE too.  *)
ClientAnswers ==
  /\ hop = "client" /\ got.fate = "ok"
  /\ \/ /\ got.message.kind = "PING"
        /\ Writes("answer", [kind |-> "PONG", text |-> got.message.texts[1]],
                  Message(NoSource, "PONG", <<meant.params[1]>>))
     \/ /\ got.message.kind \in {"PRIVMSG", "NOTICE"} /\ got.source.kind = "nick"
        /\ got.message.targets # <<>> /\ IsCtcpInfo(got.message.msg)
        /\ Writes("answer", [kind |-> "NOTICE", targets |-> <<got.source.nick>>, msg |-> CtcpInfo],
                  Message(NoSource, "NOTICE", <<<<meant.source.nick>>, <<CtcpInfo>>>>))

Done ==
  /\ hop # "idle" /\ hop' = "idle"
  /\ meant' = Nothing /\ line' = <<>> /\ by' = "none" /\ got' = Failed

Next ==
  \/ ServerSends \/ ServerRelays
  \/ ClientRegisters \/ UserTypes \/ ClientAnswers
  \/ Done

Spec == Init /\ [][Next]_vars

-----------------------------------------------------------------------------
(* The nick in a source and the targets of a message are what their types  *)
(* promise, valid names.                                                   *)
TypeOK ==
  /\ hop \in {"idle", "server", "client", "refused"}
  /\ by \in {"none", "server", "start", "line", "join", "raw", "quit", "answer"}
  /\ got.fate \in {"ok", "error", "aborted"}
  /\ got.fate = "ok" =>
       /\ got.source.kind = "nick" => IsNickname(got.source.nick)
       /\ got.message.kind \in {"PRIVMSG", "NOTICE"} =>
            \A i \in DOMAIN got.message.targets : IsTarget(got.message.targets[i])

(* What the client cannot read, and what it need not take.                 *)
Unreadable(m) ==
  m.tags \/ m.name \in Unfinished \/ (m.source.kind = "nick" /\ ~IsNickname(m.source.nick))
Acceptable(m) ==
  m.name \in DOMAIN Needs =>
    /\ Len(m.params) >= Needs[m.name]
    /\ \A i \in Plain[m.name] \cap DOMAIN m.params : Len(m.params[i]) = 1
    /\ m.name = "MODE" => IsTarget(m.params[1][1])
    /\ m.name = "JOIN" /\ Len(m.params) > 1 => Len(m.params[2]) <= Len(m.params[1])

(* A message says what its parameters say, in their order and unchanged.   *)
Says(message, m) ==
  LET p == m.params
  IN  CASE m.name \in {"PRIVMSG", "NOTICE"} ->
             /\ message.msg = p[2][1]
             /\ ToSet(message.targets) = {t \in ToSet(p[1]) : IsTarget(t)}
        [] m.name = "JOIN" ->
             \A i \in DOMAIN p[1] :
               message.pairs[i] =
                 <<p[1][i], IF Len(p) > 1 /\ i <= Len(p[2]) THEN <<p[2][i]>> ELSE <<>>>>
        [] m.name = "PART" -> message.channels = p[1] /\ (Len(p) > 1 => message.reason = p[2])
        [] m.name = "MODE" ->
             /\ message.target = p[1][1]
             /\ message.mode = Joined([i \in DOMAIN Tail(p) |-> Joined(Tail(p)[i], Comma)], Space)
        [] m.name \in DOMAIN Needs \ {"PRIVMSG", "NOTICE", "JOIN", "PART", "MODE"} ->
             \A i \in DOMAIN message.texts : message.texts[i] = p[i][1]
        [] OTHER -> [i \in DOMAIN message.args |-> message.args[i].items] = p

(* The client reads every message as it was meant, however it is spelled:  *)
(* no text is cut, trimmed or split, no parameter lost or moved.  What it  *)
(* cannot read ends the process, and nothing else does.                    *)
Understood ==
  hop = "client" =>
    IF Unreadable(meant) THEN got.fate = "aborted"
    ELSE IF ~Acceptable(meant) THEN got.fate = "error"
    ELSE /\ got.fate = "ok"
         /\ got.source = meant.source
         /\ got.message.kind \in {meant.name, "numeric", "unknown"}
         /\ Says(got.message, meant)

(* A first parameter that is no parameter unless it is the last one.       *)
Misplaced(m) == Len(m.params) > 1 /\ ~IsMiddle(m.params[1])
ReadAs(text, m) == Parse(text).fate = "ok" /\ Says(Parse(text).message, m)

(* Every line the client writes is a spelling of what it, or its user, has *)
(* to say, the answer to a PING of the token of that PING, but for two: of *)
(* the channels of a /join only the first is sent, whatever the others     *)
(* are, and a --nick that is empty, or has a space, a comma or a colon in  *)
(* front, is not read as the username that USER is to carry, and no other  *)
(* is not.  A command is refused only if it cannot be done.                *)
SentAsMeant ==
  /\ hop = "server" =>
       IF by = "start" /\ Misplaced(meant) THEN ~ReadAs(line, meant)
       ELSE \E sp \in Spellings : CanSpell(Said, sp) /\ line = Spell(Said, sp)
  /\ hop = "refused" <=> hop # "idle" /\ meant = Nothing
=============================================================================
