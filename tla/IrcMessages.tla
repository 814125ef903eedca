---------------------------- MODULE IrcMessages ----------------------------
(***************************************************************************)
(* The text of IRC: what the client makes of a line of the server          *)
(* (IrcMessage::parse, src/src/irc) and of a line of its user              *)
(* (handle_input, Command::parse), and the lines it writes                 *)
(* (ClientMessage::irc_str, src/src/irc/client).  A text is a sequence of  *)
(* the characters that have a meaning to it and of words without them.     *)
(***************************************************************************)
EXTENDS Naturals, Sequences, SequencesExt

CONSTANTS
  Numbers,    (* what the words that are numbers of 16 bits stand for      *)
  Lowercase   (* of the words that have another lower case                 *)

Space == " "
Comma == ","
NoWord == ""

(* Functions of str *)
IndexOf(s, c) == SelectInSeq(s, LAMBDA x : x = c)
Before(s, c) == IF IndexOf(s, c) = 0 THEN s ELSE SubSeq(s, 1, IndexOf(s, c) - 1)
After(s, c) == IF IndexOf(s, c) = 0 THEN <<>> ELSE SubSeq(s, IndexOf(s, c) + 1, Len(s))
Has(s, c) == c \in ToSet(s)
StartsWith(s, c) == s # <<>> /\ s[1] = c
TrimSpaces(s) ==
  LET i == SelectInSeq(s, LAMBDA x : x # Space) IN IF i = 0 THEN <<>> ELSE SubSeq(s, i, Len(s))
Cut(split, x) ==
  LET n == Len(split.parts)
  IN  [at |-> split.at,
       parts |-> IF x = split.at THEN Append(split.parts, <<>>)
                 ELSE [split.parts EXCEPT ![n] = Append(@, x)]]
SplitAll(s, c) == FoldLeft(Cut, [at |-> c, parts |-> << <<>> >>], s).parts
Joined(parts, c) ==
  IF parts = <<>> THEN <<>> ELSE Tail(FlattenSeq([i \in DOMAIN parts |-> <<c>> \o parts[i]]))
KeepNonEmpty(parts, part) == IF part = <<>> THEN parts ELSE Append(parts, part)
NonEmpty(parts) == FoldLeft(KeepNonEmpty, <<>>, parts)

-----------------------------------------------------------------------------
(* Names *)

IsChannelName(s) == s # <<>> /\ s[1] \in {"#", "&"}
IsNickname(s) ==
  /\ s # <<>>
  /\ s[1] \notin {"$", ":"} \cup {"~", "&", "@", "%", "+"}
  /\ ToSet(s) \cap {Space, Comma, "*", "?", "!", "@"} = {}
IsTarget(s) == IsChannelName(s) \/ IsNickname(s)

KeepTarget(targets, s) == IF IsTarget(s) THEN Append(targets, s) ELSE targets
Targets(items) == FoldLeft(KeepTarget, <<>>, items)

-----------------------------------------------------------------------------
(* Parsing: a message, an error, or the end of the process at a todo!() or *)
(* an unwrap().                                                            *)

Failed == [fate |-> "error"]
Aborted == [fate |-> "aborted"]

(* Param: a list if it has a comma and is not marked with a colon. *)
Text(s) == [list |-> FALSE, items |-> <<s>>]
List(parts) == [list |-> TRUE, items |-> parts]

(* Mutant: a colon is looked for after the whole line is cut at its spaces. *)
CutParams(s) ==
  LET parts == NonEmpty(SplitAll(s, Space))
  IN  [i \in DOMAIN parts |->
        CASE StartsWith(parts[i], ":") -> Text(Tail(parts[i]))
          [] ~StartsWith(parts[i], ":") /\ Has(parts[i], Comma) ->
               List(NonEmpty(SplitAll(parts[i], Comma)))
          [] OTHER -> Text(parts[i])]

(* A turn of the loop takes a parameter off what is left.  A line has at   *)
(* least as many characters as parameters.                                 *)
TakeParam(done, x) ==
  LET left  == done.left
      param == Before(left, Space)
      after == TrimSpaces(SubSeq(left, Len(param) + 1, Len(left)))
      Taken(p, rest) == [params |-> Append(done.params, p), left |-> rest]
  IN  IF left = <<>> THEN done
      ELSE IF StartsWith(param, ":") THEN Taken(Text(Tail(left)), <<>>)
      ELSE IF Has(param, Comma) THEN Taken(List(NonEmpty(SplitAll(param, Comma))), after)
      ELSE Taken(Text(param), after)
ParseParams(s) == FoldLeft(TakeParam, [params |-> <<>>, left |-> TrimSpaces(s)], s).params

NoSource == [kind |-> "none"]
ServerSource(s) == [kind |-> "server", name |-> s]
NickSource(nick, user, host) == [kind |-> "nick", nick |-> nick, user |-> user, host |-> host]

(* What is absent is <<>>, what is there <<it>>. *)
Option(s, c) == IF Has(s, c) THEN <<After(s, c)>> ELSE <<>>

(* A name with neither '!' nor '@' is a server's; Nickname::new is         *)
(* unwrapped.                                                              *)
ParseSource(s) ==
  IF Has(s, "!") THEN
    NickSource(Before(s, "!"), <<Before(After(s, "!"), "@")>>, Option(After(s, "!"), "@"))
  ELSE IF Has(s, "@") THEN NickSource(Before(s, "@"), <<>>, Option(s, "@"))
  ELSE ServerSource(s)
(* Mutant: the nick is not checked. *)
AnySource(source) == source.kind \in {"none", "server", "nick"}
IsSource(source) == source.kind = "nick" => IsNickname(source.nick)

(* The arms that are todo!() *)
Unfinished ==
  {"CAP", "PASS", "OPER", "NAMES", "LIST", "INVITE", "KICK", "MOTD", "VERSION", "ADMIN",
   "CONNECT", "LUSERS", "TIME", "STATS", "HELP", "INFO", "WHO", "WHOIS", "WHOWAS", "KILL",
   "REHASH", "RESTART", "SQUIT", "AWAY", "LINKS"}

(* The others: how many parameters they need, and which, of those there    *)
(* are, must not be lists.                                                 *)
Needs ==
  [AUTHENTICATE |-> 0, NICK |-> 1, USER |-> 4, PING |-> 1, PONG |-> 2, QUIT |-> 0, ERROR |-> 1,
   JOIN |-> 1, PART |-> 1, TOPIC |-> 1, MODE |-> 1, PRIVMSG |-> 2, NOTICE |-> 2]
Plain ==
  [AUTHENTICATE |-> {}, NICK |-> {1}, USER |-> {1, 4}, PING |-> {1}, PONG |-> {2}, QUIT |-> {1},
   ERROR |-> {1}, JOIN |-> {}, PART |-> {2}, TOPIC |-> {1, 2}, MODE |-> {1},
   PRIVMSG |-> {2}, NOTICE |-> {2}]
Items(args, i) == IF i \in DOMAIN args THEN args[i].items ELSE <<>>

WellFormed(name, args) ==
  /\ Len(args) >= Needs[name]
  /\ \A i \in Plain[name] \cap DOMAIN args : ~args[i].list
  /\ name = "JOIN" => Len(Items(args, 2)) <= Len(Items(args, 1))
  /\ name = "MODE" => IsTarget(args[1].items[1])

WithKeys(channels, keys) ==
  [i \in DOMAIN channels |-> <<channels[i], IF i \in DOMAIN keys THEN <<keys[i]>> ELSE <<>>>>]

Meaning(name, args) ==
  CASE name = "JOIN" -> [kind |-> name, pairs |-> WithKeys(Items(args, 1), Items(args, 2))]
    [] name = "MODE" ->
         [kind |-> name, target |-> args[1].items[1],
          mode |-> Joined([i \in 1 .. Len(args) - 1 |-> Joined(args[i + 1].items, Comma)], Space)]
    [] name \in {"PRIVMSG", "NOTICE"} ->
         [kind |-> name, targets |-> Targets(args[1].items), msg |-> args[2].items[1]]
    [] name = "PART" -> [kind |-> name, channels |-> args[1].items, reason |-> Items(args, 2)]
    [] OTHER ->
         [kind |-> name, texts |-> [i \in Plain[name] \cap DOMAIN args |-> args[i].items[1]]]

Command(name, args) ==
  IF name \in Unfinished THEN Aborted
  ELSE IF name \in DOMAIN Needs THEN
    IF WellFormed(name, args) THEN Meaning(name, args) ELSE Failed
  ELSE [kind |-> IF name \in DOMAIN Numbers /\ Numbers[name] <= 999 THEN "numeric" ELSE "unknown",
        args |-> args]

ParseCommand(s) ==
  LET name == Before(s, Space)
  IN  Command(IF Len(name) = 1 THEN name[1] ELSE NoWord, ParseParams(After(s, Space)))

(* IrcMessage::parse.  Tags are todo!(). *)
Parse(line) ==
  LET s       == TrimSpaces(line)
      sourced == StartsWith(s, ":")
      source  == IF sourced THEN ParseSource(Before(Tail(s), Space)) ELSE NoSource
      text    == TrimSpaces(IF sourced THEN After(s, Space) ELSE s)
      message == ParseCommand(text)
  IN  IF StartsWith(s, "@") THEN IF Has(s, Space) THEN Aborted ELSE Failed
      ELSE IF sourced /\ ~Has(s, Space) THEN Failed
      ELSE IF ~IsSource(source) THEN Aborted
      ELSE IF text = <<>> THEN Failed
      ELSE IF "fate" \in DOMAIN message THEN message
      ELSE [fate |-> "ok", source |-> source, message |-> message]

-----------------------------------------------------------------------------
(* What the user types: a command or a line to the current window. *)

Send(cmd) == [fate |-> "ok", send |-> <<cmd>>]
Privmsg(target, text) == [kind |-> "PRIVMSG", targets |-> <<target>>, msg |-> text]

LowercaseOf(word) == IF word \in DOMAIN Lowercase THEN Lowercase[word] ELSE word

(* Command::parse and Command::handle.  Of a list of channels only the     *)
(* first is joined; /msg only opens a window.                              *)
UserCommand(s) ==
  LET word == Before(s, Space)
      name == IF Len(word) = 1 THEN LowercaseOf(word[1]) ELSE NoWord
      args == NonEmpty(SplitAll(After(s, Space), Space))
      channel == SplitAll(args[1], Comma)[1]
  IN  CASE name = "join" /\ Len(args) = 1 /\ IsChannelName(channel) ->
             Send([kind |-> "JOIN", channels |-> <<channel>>])
        [] name = "raw" /\ args # <<>> -> Send([kind |-> "RAW", text |-> After(s, Space)])
        [] name = "msg" /\ Len(args) = 1 /\ IsNickname(args[1]) -> [fate |-> "ok", send |-> <<>>]
        [] name = "quit" -> Send([kind |-> "QUIT"])
        [] OTHER -> Failed

HandleInput(s, target) ==
  IF StartsWith(s, "/") THEN UserCommand(Tail(s)) ELSE Send(Privmsg(target, s))

-----------------------------------------------------------------------------
(* What the client writes, without its CRLF: the commands that are ever    *)
(* made.                                                                   *)

(* Mutant: texts are written without a colon. *)
Unmarked(text) == <<Space>> \o text
Marked(text) == <<Space, ":">> \o text

IrcStr(cmd) ==
  CASE cmd.kind \in {"PASS", "NICK", "PONG"} -> <<cmd.kind>> \o Marked(cmd.text)
    [] cmd.kind = "USER" ->
         <<"USER", Space>> \o cmd.username \o <<Space, "0", Space, "*">> \o Marked(cmd.realname)
    [] cmd.kind = "QUIT" -> <<"QUIT">>
    [] cmd.kind = "JOIN" -> <<"JOIN", Space>> \o Joined(cmd.channels, Comma) \o <<Space>>
    [] cmd.kind \in {"PRIVMSG", "NOTICE"} ->
         <<cmd.kind, Space>> \o Joined(cmd.targets, Comma) \o Marked(cmd.msg)
    [] cmd.kind = "RAW" -> cmd.text
=============================================================================
