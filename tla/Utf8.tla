-------------------------------- MODULE Utf8 --------------------------------
(***************************************************************************)
(* Text as bytes, for the parts of the client that index bytes (String     *)
(* indices in src/src/ui/input_buffer.rs) or receive them one piece at a   *)
(* time (src/src/net/server_io.rs).  A byte is known by the character it   *)
(* belongs to and its place in that character's encoding.                  *)
(***************************************************************************)
EXTENDS Naturals, Sequences, SequencesExt

CONSTANTS
  Chars,      (* characters                                                *)
  Width       (* the bytes each takes in UTF-8                             *)

ASSUME WidthsAreUtf8 == Width \in [Chars -> 1 .. 4]

Bytes == [of : Chars, nth : 1 .. 4]

Encode(c) == [k \in 1 .. Width[c] |-> [of |-> c, nth |-> k]]

(* A byte that starts a character, and one that ends it.                   *)
Leads(b) == b.nth = 1
Ends(b) == b.nth = Width[b.of]

(* The characters that start in s. *)
AddCharacter(chars, b) == IF Leads(b) THEN Append(chars, b.of) ELSE chars
Characters(s) == FoldLeft(AddCharacter, <<>>, s)
=============================================================================
