---------------------------- MODULE MCRespawn ----------------------------
(* The unit, started by one script run; the watchdog ends its server. *)
EXTENDS HomeBox
=============================================================================
