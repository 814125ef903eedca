--------------------------- MODULE MCInputBuffer ---------------------------
(***************************************************************************)
(* A small instance of InputBuffer for TLC: a letter of one byte, one of   *)
(* two, and an accent of two that combines with the letter before it.      *)
(***************************************************************************)
EXTENDS InputBuffer

CharWidth == [c \in Chars |-> IF c = "a" THEN 1 ELSE 2]
=============================================================================
