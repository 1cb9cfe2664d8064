--------------------------- MODULE MCReplSession ----------------------------
(***************************************************************************)
(* A preset, the two character voices and a recording that may bear any    *)
(* name but the preset's; knobs given below, on and above their scale.     *)
(* Utterances of up to four samples over a lead of two, in chunks of any   *)
(* size, which may break off at any byte, over players that may die.       *)
(***************************************************************************)
EXTENDS ReplSession
=============================================================================
