----------------------------- MODULE WindowList -----------------------------
(***************************************************************************)
(* What the client promises about its windows, free of how it keeps them:  *)
(* there is always a status window, windows are opened and never closed,   *)
(* exactly one open window has the focus, and the focus moves only to a    *)
(* window the user picks or to the window that has just been opened.       *)
(***************************************************************************)

CONSTANTS
  Windows,    (* every window that could ever be open                      *)
  Status      (* the status window, open from the start                    *)

VARIABLES
  open,       (* the open windows                                          *)
  focus       (* the window on the screen                                  *)

vars == <<open, focus>>

Init ==
  /\ open = {Status}
  /\ focus = Status

(* A window is opened and takes the focus. *)
Open(w) ==
  /\ w \notin open
  /\ open' = open \cup {w}
  /\ focus' = w

(* The user moves the focus to an open window. *)
Focus(w) ==
  /\ w \in open
  /\ focus' = w
  /\ UNCHANGED open

Next == \E w \in Windows : Open(w) \/ Focus(w)

Spec == Init /\ [][Next]_vars

=============================================================================
