----------------------------- MODULE MCTextPath -----------------------------
(***************************************************************************)
(* The lexicon: one word, in it or not, and two runs of the sync script,   *)
(* which may overlap at every stage.                                       *)
(*                                                                         *)
(* The split: texts of up to five tokens, words shorter and longer than    *)
(* the caps, the ends of sentences and clauses with and without white      *)
(* space after them, dashes of every length the code tells apart.          *)
(***************************************************************************)
EXTENDS TextPath

Token ==
    {<<"a">>, <<"b", "c", "d">>, <<" ">>, <<"\n">>, <<".">>, <<".", " ">>, <<",">>,
     <<"-">>, <<"-", "-">>, <<"mdash">>}

MCTexts == {FlattenSeq(ts) : ts \in UNION {[1..n -> Token] : n \in 0..5}}
=============================================================================
