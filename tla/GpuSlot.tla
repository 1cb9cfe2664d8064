------------------------------- MODULE GpuSlot ------------------------------
(***************************************************************************)
(* What the admission queue in front of the GPU promises its callers: at   *)
(* most MaxDepth of them stand in one line, only the head of the line has  *)
(* the GPU, callers join at the back, and the line moves up in order.  A   *)
(* caller may give up its place.  Every caller's turn comes as long as     *)
(* each head eventually leaves.                                            *)
(***************************************************************************)
EXTENDS Naturals, Sequences, FiniteSets

CONSTANTS Request, MaxDepth

VARIABLE line

InLine == {line[i] : i \in DOMAIN line}

Init == line = <<>>

Join(r) ==
    /\ r \notin InLine
    /\ Len(line) < MaxDepth
    /\ line' = Append(line, r)

\* The head is done with the GPU, or never used its turn.
HeadLeaves ==
    /\ line # <<>>
    /\ line' = Tail(line)

\* Somebody behind the head gives up waiting.
QuitWaiting(i) ==
    /\ i \in 2..Len(line)
    /\ line' = SubSeq(line, 1, i - 1) \o SubSeq(line, i + 1, Len(line))

Next ==
    \/ \E r \in Request : Join(r)
    \/ HeadLeaves
    \/ \E i \in DOMAIN line : QuitWaiting(i)

InOrder == Init /\ [][Next]_line
MovesUp == WF_line(HeadLeaves)

Spec == InOrder /\ MovesUp
=============================================================================
