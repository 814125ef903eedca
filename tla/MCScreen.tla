------------------------------ MODULE MCScreen ------------------------------
(* An instance of Screen: a letter, a wide grapheme and one of no width.   *)
EXTENDS Screen

MCColumns == [g \in Graphemes |-> CASE g = "a" -> 1 [] g = "W" -> 2 [] OTHER -> 0]
MCStatusLine == [w \in Windows |-> IF w = First THEN <<<<"a">>>> ELSE <<<<"a", "a">>, <<"a">>, <<"a">>>>]
MCSizes == {[width |-> 3, height |-> 4], [width |-> 5, height |-> 5]}
             \cup {[width |-> 1, height |-> 3], [width |-> 2, height |-> 4], [width |-> 4, height |-> 2]}

Words == {<<"a">>, <<"a", "a">>, <<"a", "a", "a">>, <<"W">>, <<"a", "W">>, <<"W", "0", "W">>, <<"0">>}
MCTexts == {<<<<"a">>, <<"a", "a">>, <<"0">>>>, <<<<"a", "a", "a", "a", "a">>>>, <<<<"a">>, <<"W", "W">>>>}
MCSomeTexts == UNION {[1 .. n -> Words] : n \in 0 .. 3}

Leaves == {Exact(1), Exact(2), Fill(1), Fill(2)}
Nested == Node(Fill(1), "horizontal", <<Fill(2), Exact(1), Fill(1)>>)
MCSections == Leaves \cup {Fill(200), Nested}
MCSomeLayouts ==
  [direction : {"vertical", "horizontal"},
   sections : UNION {[1 .. n -> Leaves] : n \in 0 .. 3}
                \cup {<<Nested, Exact(1)>>, <<Fill(200), Fill(200)>>, <<Exact(1), Nested, Fill(2)>>}]
=============================================================================
