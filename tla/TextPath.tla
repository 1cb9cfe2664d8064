------------------------------ MODULE TextPath ------------------------------
(***************************************************************************)
(* What a text goes through before an engine speaks it: the lexicon that   *)
(* respells its words (Lexicon), then the split into fragments (Fragments),*)
(* in one expression of each route of hosaka/server/app.py.  The two share *)
(* no state and do not disturb each other, so the bound is that a text is  *)
(* split beside a lexicon at rest, and that the lexicon moves while there  *)
(* is no text.                                                             *)
(***************************************************************************)
EXTENDS Lexicon, Fragments

pathVars == <<vars, splitVars>>

PathInit ==
    /\ Init
    /\ SplitInit
    /\ \/ text = <<>> /\ ~ramp
       \/ text # <<>> /\ \A s \in Server : file[s] = Whole({})

LexiconMoves(A) == text = <<>> /\ A /\ UNCHANGED splitVars

PathNext ==
    \/ LexiconMoves(Next)
    \/ SplitNext /\ UNCHANGED vars

PathFairness ==
    \A s \in Server :
        WF_pathVars(LexiconMoves(Stat(s))) /\ WF_pathVars(LexiconMoves(Load(s)))

PathSpec == PathInit /\ [][PathNext]_pathVars /\ PathFairness
=============================================================================
