----------------------------- MODULE MCServerIo -----------------------------
(***************************************************************************)
(* A small instance of ServerIo for TLC.  With one character of several    *)
(* bytes no continuation byte can be taken for another character's.        *)
(***************************************************************************)
EXTENDS ServerIo

CharWidth == [c \in Chars |-> IF c = "emoji" THEN 4 ELSE 1]

Said == {<<"a">>, <<"emoji", "a">>, <<>>, <<"garbage">>}
Asked == {<<"a">>, <<"emoji">>}
=============================================================================
