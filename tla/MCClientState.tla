--------------------------- MODULE MCClientState ---------------------------
(***************************************************************************)
(* Small instances of ClientState for TLC.                                 *)
(***************************************************************************)
EXTENDS ClientState, TLC

(* What a server that keeps to the protocol may send before 001: PING,     *)
(* NOTICE and ERROR, CAP and the error numerics (unhandled), 001 itself.   *)
ConformingEarly == {"PING", "NOTICE", "ERROR", "WARNED", "UNKNOWN", "001"}

(* After it: what opens windows and what is shown in them...               *)
Chatting == {"PING", "INFO", "WARNED", "JOIN", "PRIVMSG", "001"}
(* ...and what the names and modes of a channel depend on, with all that   *)
(* only adds to the status window.                                         *)
Naming == {"353", "366", "MODE", "JOIN", "PART", "QUIT", "UNKNOWN",
           "TEXT", "COUNT", "NOMOTD", "005", "ERROR"}

Symmetry == Permutations(Channels)
=============================================================================
