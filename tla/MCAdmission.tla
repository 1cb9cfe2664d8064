---------------------------- MODULE MCAdmission -----------------------------
(***************************************************************************)
(* Admission with one request more than the queue admits, so that the cap, *)
(* waits behind a holder and cancellations in every order all happen.      *)
(***************************************************************************)
EXTENDS Admission
=============================================================================
