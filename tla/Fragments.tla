----------------------------- MODULE Fragments ------------------------------
(***************************************************************************)
(* How the server breaks a text into the fragments an engine speaks and    *)
(* the pauses between them: split_fragments of hosaka/chunking.py, as      *)
(* _fragments_for of hosaka/server/app.py calls it, one loop pass a step.  *)
(*                                                                         *)
(* A text is a sequence of characters.  Only the classes the code tells    *)
(* apart matter: spaces and other white space, the end of a sentence, the  *)
(* end of a clause, the hyphen, the long dash, and all the rest.  Parts    *)
(* and sentences are taken off the text as they are needed; the code       *)
(* splits them all first, with the same outcome.                           *)
(***************************************************************************)
EXTENDS Naturals, Sequences, FiniteSets, SequencesExt

CONSTANTS
    Texts,         \* the texts a request may bring
    MaxChars,      \* max_chars, the cap of every fragment (280 in the code)
    First,         \* first_max_chars of the ramp (64)
    GrowthNum,     \* growth, the ramp's factor, as a fraction (1.1)
    GrowthDen

ASSUME FragmentsAssumption ==
    /\ Texts \subseteq Seq(STRING)
    /\ MaxChars \in Nat \ {0}
    /\ First \in Nat \ {0}
    /\ GrowthDen \in Nat \ {0}
    /\ GrowthNum \in Nat
    /\ GrowthNum >= GrowthDen

VARIABLES
    text,          \* the text
    ramp,          \* whether the ramp is used: backend chatterbox
    parts,         \* what follows the current part
    segment,       \* what follows the current sentence, in its part
    sentence,      \* what is left of the sentence
    nth,           \* how many sentences of the part were started
    fresh,         \* no piece of the sentence has been emitted
    spoken,        \* how many spoken fragments there are so far
    out            \* the fragments so far

splitVars == <<text, ramp, parts, segment, sentence, nth, fresh, spoken, out>>

White == {" ", "\n"}
SentenceEnd == {".", "!", "?"}
ClauseEnd == {",", ";", ":"}
LongDash == {"mdash", "ndash"}

\* A spoken fragment has beats = 0; a pause lasts so many beats and has no text.
Spoken(t) == [beats |-> 0, text |-> t]
Pause(n) == [beats |-> n, text |-> <<>>]

IsSpoken(f) == f.beats = 0

SplitInit ==
    /\ text \in Texts
    /\ ramp \in BOOLEAN
    /\ parts = text
    /\ segment = <<>>
    /\ sentence = <<>>
    /\ nth = 0
    /\ fresh = FALSE
    /\ spoken = 0
    /\ out = <<>>

-----------------------------------------------------------------------------
(* Strings                                                                 *)

From(t, i) == SubSeq(t, i, Len(t))

\* Without the white space at its two ends.
Strip(t) ==
    LET ink == {i \in 1..Len(t) : t[i] \notin White}
    IN  IF ink = {} THEN <<>> ELSE SubSeq(t, Min(ink), Max(ink))

\* A dash begins at i: two hyphens or more, or one long dash.
DashAt(t, i) ==
    \/ t[i] \in LongDash
    \/ i < Len(t) /\ t[i] = "-" /\ t[i + 1] = "-"

\* The length of the dash that t begins with.
DashLen(t) ==
    IF t[1] \in LongDash
      THEN 1
      ELSE Max({n \in 1..Len(t) : \A i \in 1..n : t[i] = "-"})

\* _dash_ms, in beats.
Beats(t) == IF t[1] \in LongDash THEN 1 ELSE Min({3, DashLen(t) - 1})

\* A sentence ends at i, where white space follows.
EndsAt(t, i) == i < Len(t) /\ t[i] \in SentenceEnd /\ t[i + 1] \in White

\* What comes before the first place with the property, and what after.
Upto(t, Places) == IF Places = {} THEN t ELSE SubSeq(t, 1, Min(Places))
After(t, Places) == IF Places = {} THEN <<>> ELSE From(t, Min(Places) + 1)

-----------------------------------------------------------------------------
(* Caps and cuts                                                           *)

CeilDiv(a, b) == (a + b - 1) \div b

\* a to the power of k.
Power(a, k) ==
    LET p[i \in 0..k] == IF i = 0 THEN 1 ELSE a * p[i - 1]
    IN  p[k]

\* The cap of the k-th spoken fragment, from 0.
Cap(k) ==
    IF ramp
      THEN Min({MaxChars, CeilDiv(First * Power(GrowthNum, k), Power(GrowthDen, k))})
      ELSE MaxChars

\* A fault: the ramp starts anew after a pause.
CapAfterPause ==
    LET pauses == {i \in 1..Len(out) : ~IsSpoken(out[i])}
    IN  Cap(Len(out) - Max(pauses \cup {0}))

\* The cap of the fragment to come: a pause does not reset the ramp.
CapNow == Cap(spoken)

\* A fault: a clause mark counts without the white space after it.
BoundaryInNumber(t, limit) ==
    LET spaces == {i \in 2..limit : t[i] = " "}
        clauses == {i \in 1..limit : t[i] \in ClauseEnd /\ i - 1 >= limit \div 2}
    IN  IF clauses # {} THEN Max(clauses)
        ELSE IF spaces # {} THEN Max(spaces) - 1
        ELSE limit

\* A fault: no space found is -1, which cuts the last character off.
BoundaryUnchecked(t, limit) ==
    LET spaces == {i \in 1..limit : t[i] = " "}
    IN  IF spaces = {} THEN Len(t) - 1 ELSE Max(spaces) - 1

(***************************************************************************)
(* _boundary: how many characters to cut off a sentence longer than the    *)
(* limit.  The last clause mark wins, if white space follows it within the *)
(* limit and it is past the halfway point; then the last space; then a     *)
(* hard cut.                                                               *)
(***************************************************************************)
Boundary(t, limit) ==
    LET spaces == {i \in 2..limit : t[i] = " "}
        clauses == {i \in 1..(limit - 1) :
                       t[i] \in ClauseEnd /\ t[i + 1] \in White /\ i - 1 >= limit \div 2}
    IN  IF clauses # {} THEN Max(clauses)
        ELSE IF spaces # {} THEN Max(spaces) - 1
        ELSE limit

-----------------------------------------------------------------------------
(* The loops                                                               *)

\* The next sentence of the part.
NextSentence ==
    /\ sentence = <<>>
    /\ segment # <<>>
    /\ LET ends == {i \in 1..Len(segment) : EndsAt(segment, i)}
       IN  /\ sentence' = Strip(Upto(segment, ends))
           /\ segment' = Strip(After(segment, ends))
    /\ nth' = nth + 1
    /\ fresh' = TRUE
    /\ UNCHANGED <<text, ramp, parts, spoken, out>>

\* The next piece of the sentence; the first one of a later sentence begins
\* with the space between the two.
Piece ==
    /\ sentence # <<>>
    /\ LET cut == IF Len(sentence) <= CapNow THEN Len(sentence)
                  ELSE Boundary(sentence, CapNow)
           join == IF nth > 1 /\ fresh THEN <<" ">> ELSE <<>>
       IN  /\ out' = Append(out, Spoken(join \o Strip(SubSeq(sentence, 1, cut))))
           /\ sentence' = Strip(From(sentence, cut + 1))
    /\ fresh' = FALSE
    /\ spoken' = spoken + 1
    /\ UNCHANGED <<text, ramp, parts, segment, nth>>

PartDone == sentence = <<>> /\ segment = <<>>

\* The next part is a stretch without dashes.
NextSegment ==
    /\ PartDone
    /\ parts # <<>>
    /\ ~DashAt(parts, 1)
    /\ LET dashes == {i \in 1..(Len(parts) - 1) : DashAt(parts, i + 1)}
       IN  /\ segment' = Strip(Upto(parts, dashes))
           /\ parts' = After(parts, dashes)
    /\ nth' = 0
    /\ UNCHANGED <<text, ramp, sentence, fresh, spoken, out>>

\* A fault: a dash at the beginning of the text is a pause too.
DashAlways ==
    /\ PartDone
    /\ parts # <<>>
    /\ DashAt(parts, 1)
    /\ out' = Append(out, Pause(Beats(parts)))
    /\ parts' = From(parts, DashLen(parts) + 1)
    /\ UNCHANGED <<text, ramp, segment, sentence, nth, fresh, spoken>>

\* The next part is a dash: a pause, unless nothing was spoken before it.
Dash ==
    /\ PartDone
    /\ parts # <<>>
    /\ DashAt(parts, 1)
    /\ out' = IF spoken = 0 THEN out ELSE Append(out, Pause(Beats(parts)))
    /\ parts' = From(parts, DashLen(parts) + 1)
    /\ UNCHANGED <<text, ramp, segment, sentence, nth, fresh, spoken>>

Exhausted == PartDone /\ parts = <<>>

Ends(fs) == fs # <<>> /\ ~IsSpoken(fs[Len(fs)])

\* The pauses of trailing dashes are dropped.
DropTrailing ==
    /\ Exhausted
    /\ Ends(out)
    /\ out' = SubSeq(out, 1, Len(out) - 1)
    /\ UNCHANGED <<text, ramp, parts, segment, sentence, nth, fresh, spoken>>

Done == Exhausted /\ ~Ends(out)

SplitNext ==
    \/ NextSegment
    \/ Dash
    \/ NextSentence
    \/ Piece
    \/ DropTrailing
    \/ Done /\ UNCHANGED splitVars

SplitSpec == SplitInit /\ [][SplitNext]_splitVars

-----------------------------------------------------------------------------
(* What the text says, read off it as a whole                              *)

\* Place i lies in a dash.
InDash(i) ==
    \/ text[i] \in LongDash
    \/ /\ text[i] = "-"
       /\ \/ i > 1 /\ text[i - 1] = "-"
          \/ i < Len(text) /\ text[i + 1] = "-"

\* The places that are spoken.
Ink == {i \in 1..Len(text) : text[i] \notin White /\ ~InDash(i)}

\* A dash begins at place i.
DashStart(i) ==
    InDash(i) /\ ~(text[i] = "-" /\ i > 1 /\ text[i - 1] = "-")

\* A dash is heard when there is speech on both sides.
HeardDash(i) ==
    /\ DashStart(i)
    /\ \E j, k \in Ink : j < i /\ i < k

Written ==
    FlattenSeq([i \in 1..Len(text) |->
        IF i \in Ink THEN <<Spoken(<<text[i]>>)>>
        ELSE IF HeardDash(i) THEN <<Pause(Beats(From(text, i)))>>
        ELSE <<>>])

\* The same of a stretch of speech and of the fragments.
Said(t) ==
    FlattenSeq([i \in 1..Len(t) |-> IF t[i] \in White THEN <<>> ELSE <<Spoken(<<t[i]>>)>>])

Heard ==
    FlattenSeq([i \in 1..Len(out) |-> IF IsSpoken(out[i]) THEN Said(out[i].text) ELSE <<out[i]>>])

\* How many fragments before the i-th are spoken.
SpokenBefore(i) == Cardinality({j \in 1..(i - 1) : IsSpoken(out[j])})

\* How many characters the fragments up to the i-th speak.
CharsUpto(i) == Len(FlattenSeq([j \in 1..i |-> Said(out[j].text)]))

\* The place of the n-th spoken character.
Place(n) == FlattenSeq([i \in 1..Len(text) |-> IF i \in Ink THEN <<i>> ELSE <<>>])[n]

(***************************************************************************)
(* The places where the code cut a sentence: the cap in force, the text's  *)
(* places of the fragment's first and last characters and of the first one *)
(* after the cut, and the fragment.                                        *)
(***************************************************************************)
Cuts ==
    {[cap |-> Cap(SpokenBefore(i)),
      from |-> Place(CharsUpto(i - 1) + 1),
      to |-> Place(CharsUpto(i)),
      next |-> Place(CharsUpto(i) + 1),
      piece |-> Strip(out[i].text)] :
        i \in {i \in 1..(Len(out) - 1) : IsSpoken(out[i]) /\ IsSpoken(out[i + 1])}}

\* No sentence ends and no dash begins from place i up to place j.
SameSentence(i, j) ==
    \A m \in i..(j - 1) : ~EndsAt(text, m) /\ ~DashAt(text, m)

-----------------------------------------------------------------------------
(* Properties                                                              *)

(***************************************************************************)
(* What is spoken is what was written: every character that is not white   *)
(* space or part of a dash, once and in order; and a pause of the dash's   *)
(* length where a dash has speech on both sides, and nowhere else.         *)
(***************************************************************************)
SpokenAsWritten == Done => Heard = Written

(***************************************************************************)
(* No fragment is empty or longer than its cap, wherever it stands in the  *)
(* ramp: the docstring of split_fragments says that an engine that gets a  *)
(* longer one corrupts its CUDA context.  The code does not count the      *)
(* space before the first piece of a later sentence, so that such a        *)
(* fragment may be one character longer than the cap.                      *)
(***************************************************************************)
WithinCap ==
    \A i \in 1..Len(out) :
        IsSpoken(out[i]) =>
            LET t == out[i].text
                join == IF t[1] = " " THEN 1 ELSE 0
            IN  Len(t) \in (1 + join)..(Cap(SpokenBefore(i)) + join)

(***************************************************************************)
(* A word is cut only where the cap leaves no choice: from the fragment's  *)
(* first character the cap's stretch has no space.  Other white space does *)
(* not count as a place to cut, so short words on lines of their own are   *)
(* cut as if they were one.                                                *)
(***************************************************************************)
WholeWords ==
    \A c \in Cuts :
        c.next = c.to + 1 =>
            Len(c.piece) = c.cap /\ \A i \in c.from..c.to : text[i] # " "

(***************************************************************************)
(* No needless seam: a sentence is cut only when what is left of it does   *)
(* not fit under the cap in force (the ramp goes on across sentences and   *)
(* pauses), and then at a clause past half the cap or at the last space    *)
(* the cap allows.                                                         *)
(***************************************************************************)
FullFragments ==
    \A c \in Cuts :
        SameSentence(c.from, c.next) =>
            /\ \E i \in Ink : i >= c.from + c.cap /\ SameSentence(c.next, i)
            /\ \/ text[c.to] \in ClauseEnd /\ c.to - c.from >= c.cap \div 2
               \/ \A i \in c.next..(c.from + c.cap - 1) : text[i] # " "
=============================================================================
