---------------------------- MODULE MCWebSession ----------------------------
(***************************************************************************)
(* Clicks that may overtake each other anywhere, a socket for each, and    *)
(* up to two frames a line.                                                *)
(***************************************************************************)
EXTENDS WebSession
=============================================================================
