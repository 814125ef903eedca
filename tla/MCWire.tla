------------------------------- MODULE MCWire -------------------------------
(* An instance of Wire: every command, with few but difficult parameters.  *)
EXTENDS Wire

MCMe == <<"bob">>
MCChannel == <<"#", "c">>
MCNumbers == [x \in {"001", "1000"} |-> IF x = "001" THEN 1 ELSE 1000]
MCLowercase == [x \in {"JOIN"} |-> "join"]

MCSources ==
  {NoSource, ServerSource(<<"irc">>), ServerSource(MCMe)}
    \cup {NickSource(nick, user, host) :
            nick \in {MCMe, <<"$", "bob">>}, user \in {<<>>, <<<<"u">>>>}, host \in {<<<<"h">>>>}}
    \cup {NickSource(MCMe, <<<<"u">>>>, <<>>)}
MCNames == DOMAIN Needs \cup Unfinished \cup {"001", "1000", "FOO"}

MCTexts ==
  {<<>>, <<"w">>, <<"w", ",", "w">>, <<"w", " ", " ", "w">>, <<" ", "w", ",", "w">>,
   <<":", "w">>, <<"w", " ", ":", "w", " ">>, <<"^A", "CLIENTINFO", "^A">>, <<"/", "w">>}
Middles == {<<MCMe>>, <<MCChannel, MCMe>>, <<<<"$", "w">>, MCChannel, MCChannel>>}
Lasts == {<<t>> : t \in MCTexts} \cup Middles
MCParamLists ==
  {<<>>} \cup {<<p>> : p \in Lasts} \cup {<<m, p>> : m \in Middles, p \in Lasts}
    \cup {<<m, m, <<<<"w">>>>, p>> : m \in Middles, p \in Lasts}
=============================================================================
