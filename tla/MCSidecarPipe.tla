---------------------------- MODULE MCSidecarPipe ---------------------------
(***************************************************************************)
(* Calls one after the other, as the GPU slot has them, over three         *)
(* sidecars of which two may die at any moment, and a response pipe that   *)
(* fills before the response is complete.                                  *)
(***************************************************************************)
EXTENDS SidecarPipe
=============================================================================
