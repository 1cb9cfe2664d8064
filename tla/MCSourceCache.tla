--------------------------- MODULE MCSourceCache ---------------------------
(***************************************************************************)
(* Two worker threads, two keys and two versions: the disk tier holds one  *)
(* large value and a small one, so that puts of new and of replaced keys   *)
(* evict none, one or two blobs, and the RAM tier holds less.              *)
(***************************************************************************)
EXTENDS SourceCache
=============================================================================
