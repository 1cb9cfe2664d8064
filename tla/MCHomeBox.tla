----------------------------- MODULE MCHomeBox -----------------------------
(***************************************************************************)
(* Two script runs and two REPL sessions, one crash, with the unit         *)
(* installed and without it: both REPLs beside runs one after the other,   *)
(* and one REPL beside runs that overlap.                                  *)
(***************************************************************************)
EXTENDS HomeBox
=============================================================================
