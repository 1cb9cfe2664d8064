--------------------------- MODULE MCTwoSwitches ---------------------------
(* Two switches of the mode, no REPL and no crash. *)
EXTENDS HomeBox
=============================================================================
