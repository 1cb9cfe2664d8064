-------------------------- MODULE TextPath_proofs ---------------------------
(***************************************************************************)
(* What TLAPS proves of the two components that a text goes through before *)
(* an engine speaks it: the lexicon that respells its words, for any set   *)
(* of words and any number of runs of the sync script, and the split into  *)
(* fragments, for all texts, every cap and every ramp.                     *)
(***************************************************************************)
EXTENDS Lexicon, Fragments, FiniteSetTheorems, SequenceTheorems, WellFoundedInduction, TLAPS

-----------------------------------------------------------------------------
(* The lexicon.  Coherent needs to know that a server between stat and     *)
(* load has not yet the file's mtime on record; HomeSavedWhole is          *)
(* inductive with the types.                                               *)

\* While a server looks, what it has on record is not the file's mtime.
LookingIsBehind ==
    \A s \in Server : seen[s] # "none" => ~known[s]

\* Coherent, between stat and load too.
UpToDate ==
    \A s \in Server : known[s] /\ file[s].ok => lookup[s] = file[s].words

IInv == TypeOK /\ LookingIsBehind /\ UpToDate /\ HomeSavedWhole

-----------------------------------------------------------------------------
LEMMA WholeType == \A m \in SUBSET Word : Whole(m) \in Content
BY DEF Whole, Content

LEMMA TornType == Torn \in Content
BY DEF Torn, Content

LEMMA InitIInv == Init => IInv
<1> SUFFICES ASSUME Init PROVE IInv
  OBVIOUS
<1>1. file \in [Server -> Content]
  BY WholeType DEF Init
<1>2. \A s \in Server : file[s].ok
  BY DEF Init, Whole
<1>3. "home" \in Server
  BY DEF Server
<1> QED
  BY <1>1, <1>2, <1>3, WholeType
     DEF Init, IInv, TypeOK, LookingIsBehind, UpToDate, HomeSavedWhole

\* What a write does to a server: its record of the mtime is out of date.
LEMMA WriteStep ==
    ASSUME IInv, NEW s \in Server, NEW content \in Content, Write(s, content)
    PROVE  /\ file' \in [Server -> Content]
           /\ known' \in [Server -> BOOLEAN]
           /\ seen' \in [Server -> {"none", "same", "older"}]
           /\ lookup' \in [Server -> SUBSET Word]
           /\ LookingIsBehind'
           /\ UpToDate'
           /\ file'[s] = content
           /\ \A t \in Server : t # s => file'[t] = file[t]
<1>1. /\ file' \in [Server -> Content]
      /\ file'[s] = content
      /\ \A t \in Server : t # s => file'[t] = file[t]
  BY DEF IInv, TypeOK, Write
<1>2. /\ known' \in [Server -> BOOLEAN]
      /\ ~known'[s]
      /\ \A t \in Server : t # s => known'[t] = known[t]
  BY DEF IInv, TypeOK, Write, NewMtime
<1>3. /\ seen' \in [Server -> {"none", "same", "older"}]
      /\ \A t \in Server : t # s => seen'[t] = seen[t]
  BY DEF IInv, TypeOK, Write, NewMtime
<1>4. lookup' = lookup
  BY DEF Write
<1> QED
  BY <1>1, <1>2, <1>3, <1>4 DEF IInv, TypeOK, LookingIsBehind, UpToDate

-----------------------------------------------------------------------------
LEMMA EditStep == IInv /\ EditNext => IInv'
<1> SUFFICES ASSUME IInv, EditNext PROVE IInv'
  OBVIOUS
<1> "home" \in Server
  BY DEF Server
<1>1. ASSUME NEW w \in Word, LoadMap(w) PROVE IInv'
  <2>1. draft' \subseteq Word
    BY <1>1 DEF LoadMap, IInv, TypeOK, Content
  <2> QED
    BY <1>1, <2>1
       DEF LoadMap, IInv, TypeOK, LookingIsBehind, UpToDate, HomeSavedWhole, copyVars, serverVars
<1>2. CASE SaveMap
  <2>1. Whole(draft) \in Content /\ Whole(draft).ok
    BY WholeType DEF IInv, TypeOK, Whole
  <2>2. Write("home", Whole(draft))
    BY <1>2 DEF SaveMap
  <2>3. TypeOK'
    BY <1>2, <2>1, <2>2, WriteStep DEF SaveMap, IInv, TypeOK, copyVars
  <2>4. LookingIsBehind' /\ UpToDate' /\ file'["home"].ok
    BY <2>1, <2>2, WriteStep
  <2> QED
    BY <2>3, <2>4 DEF IInv, HomeSavedWhole
<1>3. CASE Abandon
  BY <1>3 DEF Abandon, IInv, TypeOK, LookingIsBehind, UpToDate, HomeSavedWhole, copyVars, serverVars
<1>4. ASSUME NEW c \in Copy, Push(c) PROVE IInv'
  BY <1>4 DEF Push, IInv, TypeOK, LookingIsBehind, UpToDate, HomeSavedWhole, serverVars
<1>5. CASE HandOpen
  <2>1. Write("home", Torn)
    BY <1>5 DEF HandOpen
  <2>2. TypeOK' /\ LookingIsBehind' /\ UpToDate'
    BY <1>5, <2>1, TornType, WriteStep DEF HandOpen, IInv, TypeOK, copyVars
  <2> QED
    BY <1>5, <2>2 DEF HandOpen, IInv, HomeSavedWhole
<1>6. CASE HandSave
  <2>1. PICK m \in SUBSET Word : Write("home", Whole(m))
    BY <1>6 DEF HandSave
  <2>2. Whole(m) \in Content /\ Whole(m).ok
    BY WholeType DEF Whole
  <2>3. TypeOK' /\ LookingIsBehind' /\ UpToDate' /\ file'["home"].ok
    BY <1>6, <2>1, <2>2, WriteStep DEF HandSave, IInv, TypeOK, copyVars
  <2> QED
    BY <2>3 DEF IInv, HomeSavedWhole
<1>7. CASE HandLost
  BY <1>7 DEF HandLost, IInv, TypeOK, LookingIsBehind, UpToDate, HomeSavedWhole, copyVars, serverVars
<1> QED
  BY <1>1, <1>2, <1>3, <1>4, <1>5, <1>6, <1>7 DEF EditNext

LEMMA SyncStep == IInv /\ SyncNext => IInv'
<1> SUFFICES ASSUME IInv, NEW c \in Copy,
                    \/ SyncRun(c) \/ ReadSource(c) \/ WriteInPlace(c)
                    \/ Finish(c) \/ SyncFails(c)
             PROVE  IInv'
  BY DEF SyncNext
<1> "home" \in Server /\ "droplet" \in Server /\ "home" # "droplet"
  BY DEF Server
<1>0. Whole({}) \in Content
  BY WholeType
<1>1. CASE SyncRun(c)
  BY <1>1 DEF SyncRun, IInv, TypeOK, LookingIsBehind, UpToDate, HomeSavedWhole, homeVars, serverVars
<1>2. CASE ReadSource(c)
  BY <1>2 DEF ReadSource, IInv, TypeOK, LookingIsBehind, UpToDate, HomeSavedWhole, homeVars, serverVars
<1>3. CASE WriteInPlace(c)
  <2>1. Write("droplet", Torn)
    BY <1>3 DEF WriteInPlace
  <2>2. copy' \in [Copy -> {"off", "started", "read", "writing", "mixed"}]
    BY <1>3 DEF WriteInPlace, IInv, TypeOK
  <2>3. TypeOK' /\ LookingIsBehind' /\ UpToDate' /\ file'["home"] = file["home"]
    BY <1>3, <2>1, <2>2, TornType, WriteStep DEF WriteInPlace, IInv, TypeOK, homeVars
  <2> QED
    BY <1>3, <2>3 DEF WriteInPlace, IInv, HomeSavedWhole, homeVars
<1>4. CASE Finish(c)
  <2>1. PICK content \in Content : Write("droplet", content)
    BY <1>4, TornType DEF Finish, IInv, TypeOK
  <2>2. TypeOK' /\ LookingIsBehind' /\ UpToDate' /\ file'["home"] = file["home"]
    BY <1>0, <1>4, <2>1, WriteStep DEF Finish, IInv, TypeOK, homeVars
  <2> QED
    BY <1>4, <2>2 DEF Finish, IInv, HomeSavedWhole, homeVars
<1>5. CASE SyncFails(c)
  BY <1>0, <1>5
     DEF SyncFails, IInv, TypeOK, LookingIsBehind, UpToDate, HomeSavedWhole, homeVars, serverVars
<1> QED
  BY <1>1, <1>2, <1>3, <1>4, <1>5

LEMMA ServerStep == IInv /\ ServerNext => IInv'
<1> SUFFICES ASSUME IInv, NEW s \in Server, Stat(s) \/ Load(s) PROVE IInv'
  BY DEF ServerNext
<1>1. CASE Stat(s)
  BY <1>1 DEF Stat, IInv, TypeOK, LookingIsBehind, UpToDate, HomeSavedWhole, homeVars, copyVars
<1>2. CASE Load(s)
  <2>1. /\ known' \in [Server -> BOOLEAN]
        /\ \A t \in Server : t # s => known'[t] = known[t]
    BY <1>2 DEF Load, IInv, TypeOK
  <2>2. /\ seen' \in [Server -> {"none", "same", "older"}]
        /\ seen'[s] = "none"
        /\ \A t \in Server : t # s => seen'[t] = seen[t]
    BY <1>2 DEF Load, IInv, TypeOK
  <2>3. /\ lookup' \in [Server -> SUBSET Word]
        /\ file[s].ok => lookup'[s] = file[s].words
        /\ \A t \in Server : t # s => lookup'[t] = lookup[t]
    BY <1>2 DEF Load, IInv, TypeOK, Content
  <2>4. UNCHANGED <<file, homeVars, copyVars>>
    BY <1>2 DEF Load
  <2> QED
    BY <2>1, <2>2, <2>3, <2>4
       DEF IInv, TypeOK, LookingIsBehind, UpToDate, HomeSavedWhole, homeVars, copyVars
<1> QED
  BY <1>1, <1>2

-----------------------------------------------------------------------------
\* The inductive invariant holds, with failed loads, edits in place and
\* overlapping pushes.
THEOREM LexiconInvariance == Spec => []IInv
<1>1. IInv /\ [Next]_vars => IInv'
  <2>1. IInv /\ UNCHANGED vars => IInv'
    BY DEF IInv, TypeOK, LookingIsBehind, UpToDate, HomeSavedWhole,
           vars, homeVars, copyVars, serverVars
  <2> QED
    BY <2>1, EditStep, SyncStep, ServerStep DEF Next
<1> QED
  BY <1>1, InitIInv, PTL DEF Spec

\* The cache of Lexicon._refresh is never stale under a recorded mtime,
\* however its stat and its load interleave with writes.
THEOREM CacheCoherent == Spec => []Coherent
<1>1. IInv => Coherent
  BY DEF IInv, UpToDate, Coherent
<1> QED
  BY <1>1, LexiconInvariance, PTL

\* save_map is all or nothing for every reader of the home file.
THEOREM SavedWhole == Spec => []HomeSavedWhole
<1>1. IInv => HomeSavedWhole
  BY DEF IInv
<1> QED
  BY <1>1, LexiconInvariance, PTL

-----------------------------------------------------------------------------
(* Induction over the natural numbers, with a set in the place of a        *)
(* property.                                                               *)

LEMMA Least ==
    ASSUME NEW T, T \subseteq Nat, T # {}
    PROVE  \E m \in T : \A n \in T : m <= n
<1> DEFINE R == OpToRel(<, Nat)
<1>1. IsWellFoundedOn(R, Nat)
  BY NatLessThanWellFounded, Zenon
<1>2. \A x, y \in Nat : x < y <=> <<x, y>> \in R
  BY DEF OpToRel
<1> HIDE DEF R
<1>3. PICK m \in T : \A n \in T : <<n, m>> \notin R
  BY <1>1, WFMin
<1>4. ASSUME NEW n \in T PROVE m <= n
  <2>1. m \in Nat /\ n \in Nat
    OBVIOUS
  <2>2. ~(n < m)
    BY <1>2, <1>3, <2>1
  <2> QED
    BY <2>1, <2>2
<1> QED
  BY <1>4

LEMMA Induct ==
    ASSUME NEW S, 0 \in S, \A n \in Nat : n \in S => n + 1 \in S
    PROVE  Nat \subseteq S
<1> SUFFICES ASSUME Nat \ S # {} PROVE FALSE
  OBVIOUS
<1>1. PICK m \in Nat \ S : \A n \in Nat \ S : m <= n
  BY Least
<1>2. m # 0
  BY <1>1
<1>3. m - 1 \in Nat /\ m - 1 \in S
  BY <1>1, <1>2
<1>4. (m - 1) + 1 \in S
  BY <1>3
<1> QED
  BY <1>4, <1>1

\* The least and the greatest of a set of numbers.
LEMMA MinIs ==
    ASSUME NEW S, S \subseteq Nat, S # {}
    PROVE  Min(S) \in S /\ \A n \in S : Min(S) <= n
BY Least DEF Min

LEMMA MaxIs ==
    ASSUME NEW S, S \subseteq Nat, S # {}, NEW b \in Nat, \A n \in S : n <= b
    PROVE  Max(S) \in S /\ \A n \in S : n <= Max(S)
<1> DEFINE T == {b - n : n \in S}
<1>1. T \subseteq Nat
  <2> SUFFICES ASSUME NEW n \in S PROVE b - n \in Nat
    OBVIOUS
  <2> QED
    OBVIOUS
<1>2. PICK m \in T : \A k \in T : m <= k
  <2>1. T # {}
    OBVIOUS
  <2> QED
    BY <1>1, <2>1, Least
<1>3. PICK x \in S : m = b - x
  BY <1>2
<1>4. \A n \in S : x >= n
  <2> SUFFICES ASSUME NEW n \in S PROVE x >= n
    OBVIOUS
  <2>1. b - n \in T
    OBVIOUS
  <2>2. b - x <= b - n
    BY <1>2, <1>3, <2>1
  <2> QED
    BY <2>2
<1>5. Max(S) \in S /\ \A n \in S : Max(S) >= n
  BY <1>4 DEF Max
<1> QED
  BY <1>5

-----------------------------------------------------------------------------
(* Concatenations                                                          *)

\* g[i] is the concatenation of the first i elements of s.
Joins(s, g) ==
    /\ g[0] = <<>>
    /\ \A i \in 1..Len(s) : g[i] = g[i - 1] \o s[i]

LEMMA JoinsExist ==
    ASSUME NEW S, NEW s \in Seq(Seq(S))
    PROVE  \E g \in [0..Len(s) -> Seq(S)] : Joins(s, g)
<1> DEFINE JoinsTo(n, g) ==
              /\ g[0] = <<>>
              /\ \A i \in 1..n : g[i] = g[i - 1] \o s[i]
           Reached(n) == n <= Len(s) => \E g \in [0..n -> Seq(S)] : JoinsTo(n, g)
           T == {n \in Nat : Reached(n)}
<1>1. Len(s) \in Nat
  BY LenProperties
<1>2. 0 \in T
  <2> DEFINE g == [i \in 0..0 |-> <<>>]
  <2>1. g \in [0..0 -> Seq(S)] /\ JoinsTo(0, g)
    BY EmptySeq
  <2> QED
    BY <2>1
<1>3. ASSUME NEW n \in Nat, n \in T PROVE n + 1 \in T
  <2> SUFFICES ASSUME n + 1 <= Len(s)
               PROVE  \E g \in [0..(n + 1) -> Seq(S)] : JoinsTo(n + 1, g)
    <3>1. n + 1 \in Nat
      OBVIOUS
    <3>2. ASSUME Reached(n + 1) PROVE n + 1 \in T
      BY <3>1, <3>2, Zenon
    <3> QED
      BY <3>2, Zenon
  <2>1. n <= Len(s)
    BY <1>1
  <2>2. PICK g \in [0..n -> Seq(S)] : JoinsTo(n, g)
    BY <1>3, <2>1, Zenon
  <2>3. s[n + 1] \in Seq(S)
    BY <1>1, ElementOfSeq
  <2>4. g[n] \o s[n + 1] \in Seq(S)
    BY <2>2, <2>3, ConcatProperties
  <2> DEFINE x == g[n] \o s[n + 1]
             h == [i \in 0..(n + 1) |-> IF i = n + 1 THEN x ELSE g[i]]
  <2> HIDE DEF x
  <2>5. h \in [0..(n + 1) -> Seq(S)]
    BY <2>2, <2>4 DEF x
  <2>6. h[0] = <<>>
    BY <2>2
  <2>7. ASSUME NEW i \in 1..(n + 1) PROVE h[i] = h[i - 1] \o s[i]
    <3>1. CASE i = n + 1
      <4>1. h[i] = x /\ h[i - 1] = g[n]
        BY <3>1
      <4> QED
        BY <3>1, <4>1 DEF x
    <3>2. CASE i # n + 1
      <4>1. i \in 1..n /\ i - 1 \in 0..n /\ i \in 0..n
        BY <3>2
      <4>2. g[i] = g[i - 1] \o s[i]
        BY <2>2, <4>1
      <4>3. h[i] = g[i] /\ h[i - 1] = g[i - 1]
        BY <4>1, <3>2
      <4> QED
        BY <4>2, <4>3
    <3> QED
      BY <3>1, <3>2
  <2> HIDE DEF h
  <2>8. JoinsTo(n + 1, h)
    BY <2>6, <2>7, Zenon
  <2> QED
    BY <2>5, <2>8, Zenon
<1> HIDE DEF T
<1>4. Len(s) \in T
  BY <1>1, <1>2, <1>3, Induct
<1>5. PICK g \in [0..Len(s) -> Seq(S)] : JoinsTo(Len(s), g)
  <2>1. Len(s) <= Len(s)
    BY <1>1
  <2> QED
    BY <1>4, <2>1, Zenon DEF T
<1>6. Joins(s, g)
  BY <1>5, Zenon DEF Joins
<1> QED
  BY <1>6

\* FlattenSeq is where any such function ends.
LEMMA FlattenIs ==
    ASSUME NEW S, NEW s \in Seq(Seq(S)), NEW g \in [0..Len(s) -> Seq(S)], Joins(s, g)
    PROVE  FlattenSeq(s) = g[Len(s)]
<1> DEFINE n == Len(s)
           Eqn(f) == f = [i \in 1..n |-> IF i = 1 THEN s[i] ELSE f[i - 1] \o s[i]]
           flat == CHOOSE f : Eqn(f)
<1>1. n \in Nat
  BY LenProperties
<1>2. CASE n = 0
  <2>1. s = <<>>
    BY <1>2, EmptySeq
  <2>2. FlattenSeq(s) = s
    BY <1>2 DEF FlattenSeq
  <2> QED
    BY <1>2, <2>1, <2>2 DEF Joins
<1>3. CASE n # 0
  <2>1. FlattenSeq(s) = flat[n]
    BY <1>3 DEF FlattenSeq
  <2> DEFINE f == [i \in 1..n |-> g[i]]
  <2>2. \A i \in 1..n : s[i] \in Seq(S)
    BY ElementOfSeq
  <2>3. g[1] = s[1]
    <3>1. g[1] = <<>> \o s[1]
      <4>1. 1 \in 1..n /\ 1 - 1 = 0
        BY <1>1, <1>3
      <4>2. g[1] = g[1 - 1] \o s[1]
        BY <4>1, Zenon DEF Joins
      <4>3. g[0] = <<>>
        BY Zenon DEF Joins
      <4> QED
        BY <4>1, <4>2, <4>3, Zenon
    <3>2. s[1] \in Seq(S)
      BY <1>1, <1>3, <2>2
    <3> QED
      BY <3>1, <3>2, ConcatEmptySeq
  <2>4. \A i \in 1..n : f[i] = IF i = 1 THEN s[i] ELSE f[i - 1] \o s[i]
    <3> SUFFICES ASSUME NEW i \in 1..n, i # 1 PROVE f[i] = f[i - 1] \o s[i]
      BY <2>3
    <3>1. i - 1 \in 1..n
      BY <1>1
    <3> QED
      BY <3>1 DEF Joins
  <2>5. Eqn(f)
    BY <2>4
  <2>6. Eqn(flat)
    BY <2>5
  <2> HIDE DEF flat, f
  <2> DEFINE T == {k \in Nat : k + 1 <= n => flat[k + 1] = g[k + 1]}
  <2>7. 0 \in T
    <3>1. flat[1] = s[1]
      BY <1>1, <1>3, <2>6
    <3> QED
      BY <2>3, <3>1
  <2>8. ASSUME NEW k \in Nat, k \in T PROVE k + 1 \in T
    <3> SUFFICES ASSUME k + 2 <= n PROVE flat[k + 2] = g[k + 2]
      OBVIOUS
    <3>1. k + 2 \in 1..n /\ (k + 2) - 1 = k + 1 /\ k + 2 # 1
      BY <1>1
    <3>2. flat[k + 2] = flat[k + 1] \o s[k + 2]
      BY <2>6, <3>1
    <3>3. flat[k + 1] = g[k + 1]
      BY <2>8, <1>1
    <3>4. g[k + 2] = g[k + 1] \o s[k + 2]
      BY <3>1 DEF Joins
    <3> QED
      BY <3>2, <3>3, <3>4
  <2> HIDE DEF T
  <2>9. n - 1 \in T
    <3>1. n - 1 \in Nat
      BY <1>1, <1>3
    <3>2. Nat \subseteq T
      BY <2>7, <2>8, Induct, Zenon
    <3> QED
      BY <3>1, <3>2
  <2>10. flat[n] = g[n]
    BY <1>1, <2>9 DEF T
  <2> QED
    BY <2>1, <2>10
<1> QED
  BY <1>2, <1>3

LEMMA FlattenType ==
    ASSUME NEW S, NEW s \in Seq(Seq(S))
    PROVE  FlattenSeq(s) \in Seq(S)
<1>1. PICK g \in [0..Len(s) -> Seq(S)] : Joins(s, g)
  BY JoinsExist
<1>2. Len(s) \in 0..Len(s)
  BY LenProperties
<1> QED
  BY <1>1, <1>2, FlattenIs

LEMMA FlattenEmpty == FlattenSeq(<<>>) = <<>>
BY DEF FlattenSeq

LEMMA FlattenConcat ==
    ASSUME NEW S, NEW s \in Seq(Seq(S)), NEW t \in Seq(Seq(S))
    PROVE  FlattenSeq(s \o t) = FlattenSeq(s) \o FlattenSeq(t)
<1> DEFINE m == Len(s)
           n == Len(t)
<1>1. m \in Nat /\ n \in Nat
  BY LenProperties
<1>2. PICK g \in [0..m -> Seq(S)] : Joins(s, g)
  BY JoinsExist
<1>3. PICK h \in [0..n -> Seq(S)] : Joins(t, h)
  BY JoinsExist
<1>4. /\ s \o t \in Seq(Seq(S))
      /\ Len(s \o t) = m + n
      /\ \A i \in 1..(m + n) : (s \o t)[i] = IF i <= m THEN s[i] ELSE t[i - m]
  BY ConcatProperties
<1> HIDE DEF m, n
<1> DEFINE f == [i \in 0..(m + n) |-> IF i <= m THEN g[i] ELSE g[m] \o h[i - m]]
<1>5. \A i \in 0..m : g[i] \in Seq(S)
  OBVIOUS
<1>6. \A i \in 0..n : h[i] \in Seq(S)
  OBVIOUS
<1>7. f \in [0..(m + n) -> Seq(S)]
  <2> SUFFICES ASSUME NEW i \in 0..(m + n)
               PROVE  (IF i <= m THEN g[i] ELSE g[m] \o h[i - m]) \in Seq(S)
    OBVIOUS
  <2>1. CASE i <= m
    BY <1>1, <1>5, <2>1
  <2>2. CASE ~(i <= m)
    <3>1. i - m \in 0..n /\ m \in 0..m
      BY <1>1, <2>2
    <3> QED
      BY <1>5, <1>6, <2>2, <3>1, ConcatProperties
  <2> QED
    BY <2>1, <2>2
<1>8. f[0] = <<>>
  BY <1>1, <1>2 DEF Joins
<1>9. ASSUME NEW i \in 1..(m + n) PROVE f[i] = f[i - 1] \o (s \o t)[i]
  <2>1. i \in 0..(m + n) /\ i - 1 \in 0..(m + n)
    BY <1>1
  <2>2. CASE i <= m
    <3>1. i \in 1..m /\ i - 1 <= m
      BY <1>1, <2>2
    <3>2. g[i] = g[i - 1] \o s[i]
      BY <1>2, <3>1 DEF Joins, m
    <3> QED
      BY <1>4, <2>1, <2>2, <3>1, <3>2
  <2>3. CASE i > m
    <3> DEFINE j == i - m
    <3>1. j \in 1..n /\ j - 1 \in 0..n /\ j \in 0..n /\ ~(i <= m)
      BY <1>1, <2>3
    <3>2. h[j] = h[j - 1] \o t[j]
      BY <1>3, <3>1 DEF Joins, n
    <3>3. f[i] = g[m] \o h[j]
      BY <2>1, <3>1
    <3>4. f[i - 1] = g[m] \o h[j - 1]
      <4>1. CASE i - 1 = m
        <5>1. j - 1 = 0
          BY <1>1, <4>1
        <5>2. h[j - 1] = <<>>
          BY <1>3, <5>1 DEF Joins
        <5>3. g[m] \o <<>> = g[m]
          BY <1>1, <1>5, ConcatEmptySeq
        <5>4. f[i - 1] = g[i - 1]
          BY <2>1, <4>1, <1>1
        <5> QED
          BY <4>1, <5>2, <5>3, <5>4
      <4>2. CASE i - 1 # m
        <5>1. ~(i - 1 <= m) /\ (i - 1) - m = j - 1
          BY <1>1, <2>3, <4>2
        <5> QED
          BY <2>1, <5>1
      <4> QED
        BY <4>1, <4>2
    <3>5. (s \o t)[i] = t[j]
      BY <1>4, <3>1
    <3>6. t[j] \in Seq(S)
      BY <3>1, ElementOfSeq DEF n
    <3>7. g[m] \in Seq(S) /\ h[j - 1] \in Seq(S)
      BY <1>1, <1>5, <1>6, <3>1
    <3>8. (g[m] \o h[j - 1]) \o t[j] = g[m] \o (h[j - 1] \o t[j])
      <4>1. PICK u \in Seq(S), v \in Seq(S), w \in Seq(S) : u = g[m] /\ v = h[j - 1] /\ w = t[j]
        BY <3>6, <3>7, Zenon
      <4>2. (u \o v) \o w = u \o (v \o w)
        BY ConcatAssociative
      <4> QED
        BY <4>1, <4>2, Zenon
    <3> HIDE DEF f, j
    <3> QED
      BY <3>2, <3>3, <3>4, <3>5, <3>8
  <2>4. i <= m \/ i > m
    BY <1>1
  <2> QED
    BY <2>2, <2>3, <2>4, Zenon
<1>10. Joins(s \o t, f)
  BY <1>4, <1>8, <1>9 DEF Joins
<1>11. FlattenSeq(s \o t) = f[m + n]
  BY <1>4, <1>7, <1>10, FlattenIs
<1>12. FlattenSeq(s) = g[m] /\ FlattenSeq(t) = h[n]
  BY <1>2, <1>3, FlattenIs DEF m, n
<1>13. f[m + n] = g[m] \o h[n]
  <2>1. CASE n = 0
    <3>1. h[n] = <<>> /\ g[m] \in Seq(S)
      BY <1>1, <1>3, <1>5, <2>1 DEF Joins
    <3>2. g[m] \o <<>> = g[m]
      BY <3>1, ConcatEmptySeq
    <3> QED
      BY <1>1, <2>1, <3>1, <3>2
  <2>2. CASE n # 0
    BY <1>1, <2>2
  <2> QED
    BY <2>1, <2>2
<1> QED
  BY <1>11, <1>12, <1>13

LEMMA FlattenOne ==
    ASSUME NEW S, NEW x \in Seq(S)
    PROVE  FlattenSeq(<<x>>) = x
<1> DEFINE s == <<x>>
<1>1. s \in Seq(Seq(S)) /\ Len(s) = 1 /\ s[1] = x
  OBVIOUS
<1> DEFINE g == [i \in 0..1 |-> IF i = 0 THEN <<>> ELSE x]
<1>2. g \in [0..Len(s) -> Seq(S)]
  BY <1>1, EmptySeq
<1>3. <<>> \o x = x
  BY ConcatEmptySeq
<1>4. Joins(s, g)
  BY <1>1, <1>3 DEF Joins
<1> QED
  BY <1>1, <1>2, <1>4, FlattenIs

\* h[m], ..., h[n] as a sequence, and its concatenation.
Row(h, m, n) == [i \in 1..(n - m + 1) |-> h[m + i - 1]]
Over(h, m, n) == FlattenSeq(Row(h, m, n))

Elements(S, h, m, n) == \A i \in m..n : h[i] \in Seq(S)

LEMMA RowIs ==
    ASSUME NEW S, NEW h, NEW m \in Nat, NEW n \in Nat, m <= n + 1, Elements(S, h, m, n)
    PROVE  /\ Row(h, m, n) \in Seq(Seq(S))
           /\ Len(Row(h, m, n)) = n - m + 1
           /\ \A i \in 1..(n - m + 1) : Row(h, m, n)[i] = h[m + i - 1]
<1> DEFINE k == n - m + 1
<1>1. k \in Nat
  OBVIOUS
<1>2. \A i \in 1..k : h[m + i - 1] \in Seq(S)
  <2> SUFFICES ASSUME NEW i \in 1..k PROVE h[m + i - 1] \in Seq(S)
    OBVIOUS
  <2>1. m + i - 1 \in m..n
    BY <1>1
  <2> QED
    BY <2>1 DEF Elements
<1> HIDE DEF k
<1>3. [i \in 1..k |-> h[m + i - 1]] \in [1..k -> Seq(S)]
  BY <1>2
<1>4. \A T : \A f \in [1..k -> T] : f \in Seq(T) /\ Len(f) = k
  BY <1>1
<1>5. Row(h, m, n) = [i \in 1..k |-> h[m + i - 1]]
  BY DEF Row, k
<1>6. \A i \in 1..k : Row(h, m, n)[i] = h[m + i - 1]
  BY <1>5
<1> QED
  BY <1>3, <1>4, <1>5, <1>6, Zenon DEF k

\* The same, one fact at a time.
LEMMA RowType ==
    ASSUME NEW S, NEW h, NEW m \in Nat, NEW n \in Nat, m <= n + 1, Elements(S, h, m, n)
    PROVE  Row(h, m, n) \in Seq(Seq(S))
BY RowIs, Zenon

LEMMA RowLen ==
    ASSUME NEW S, NEW h, NEW m \in Nat, NEW n \in Nat, m <= n + 1, Elements(S, h, m, n)
    PROVE  Len(Row(h, m, n)) = n - m + 1
BY RowIs, Zenon

LEMMA RowAt ==
    ASSUME NEW S, NEW h, NEW m \in Nat, NEW n \in Nat, m <= n + 1, Elements(S, h, m, n),
           NEW i \in 1..(n - m + 1)
    PROVE  Row(h, m, n)[i] = h[m + i - 1]
BY RowIs, Zenon

LEMMA OverType ==
    ASSUME NEW S, NEW h, NEW m \in Nat, NEW n \in Nat, m <= n + 1, Elements(S, h, m, n)
    PROVE  Over(h, m, n) \in Seq(S)
BY RowIs, FlattenType DEF Over

LEMMA OverEmpty ==
    ASSUME NEW h, NEW m \in Nat, NEW n \in Nat, n + 1 = m
    PROVE  Over(h, m, n) = <<>>
<1>1. 1..(n - m + 1) = {}
  OBVIOUS
<1>2. Row(h, m, n) = <<>>
  BY <1>1 DEF Row
<1> QED
  BY <1>2, FlattenEmpty DEF Over

LEMMA OverOne ==
    ASSUME NEW S, NEW h, NEW m \in Nat, h[m] \in Seq(S)
    PROVE  Over(h, m, m) = h[m]
<1>1. m - m + 1 = 1 /\ m + 1 - 1 = m
  OBVIOUS
<1>2. Row(h, m, m) = <<h[m]>>
  <2>1. \A i \in 1..1 : m + i - 1 = m
    OBVIOUS
  <2> QED
    BY <1>1, <2>1 DEF Row
<1> QED
  BY <1>1, <1>2, FlattenOne DEF Over

\* One after the other: opaque, so that the provers see no more than they need.
Cat(s, t) == s \o t

LEMMA CatType ==
    ASSUME NEW S, NEW s \in Seq(S), NEW t \in Seq(S)
    PROVE  Cat(s, t) \in Seq(S)
BY ConcatProperties DEF Cat

LEMMA CatEmpty ==
    ASSUME NEW S, NEW s \in Seq(S)
    PROVE  Cat(s, <<>>) = s /\ Cat(<<>>, s) = s
BY ConcatEmptySeq DEF Cat

LEMMA CatAssoc ==
    ASSUME NEW S, NEW s \in Seq(S), NEW t \in Seq(S), NEW u \in Seq(S)
    PROVE  Cat(Cat(s, t), u) = Cat(s, Cat(t, u))
BY ConcatAssociative DEF Cat

LEMMA OverSplit ==
    ASSUME NEW S, NEW h, NEW m \in Nat, NEW n \in Nat, Elements(S, h, m, n),
           NEW k \in Nat, m <= k + 1, k <= n
    PROVE  Over(h, m, n) = Cat(Over(h, m, k), Over(h, k + 1, n))
<1>1. Elements(S, h, m, k) /\ Elements(S, h, k + 1, n)
  <2>1. m..k \subseteq m..n /\ (k + 1)..n \subseteq m..n
    OBVIOUS
  <2> QED
    BY <2>1 DEF Elements
<1>2. PICK s \in Seq(Seq(S)) : s = Row(h, m, k)
  BY <1>1, RowType
<1>3. PICK t \in Seq(Seq(S)) : t = Row(h, k + 1, n)
  BY <1>1, RowType
<1>4. PICK u \in Seq(Seq(S)) : u = Row(h, m, n)
  <2>1. m <= n + 1
    OBVIOUS
  <2> QED
    BY <2>1, RowType
<1>5. Len(s) = k - m + 1
  BY <1>1, <1>2, RowLen
<1>6. Len(t) = n - k
  <2>1. k + 1 \in Nat /\ k + 1 <= n + 1
    OBVIOUS
  <2>2. Len(Row(h, k + 1, n)) = n - (k + 1) + 1
    BY <1>1, <2>1, RowLen, Zenon
  <2> QED
    BY <1>3, <2>2
<1>7. Len(u) = n - m + 1
  <2>1. m <= n + 1
    OBVIOUS
  <2> QED
    BY <1>4, <2>1, RowLen
<1>8. ASSUME NEW i \in 1..(k - m + 1) PROVE s[i] = h[m + i - 1]
  <2>1. i \in 1..(k - m + 1)
    OBVIOUS
  <2>2. \A j \in 1..(k - m + 1) : Row(h, m, k)[j] = h[m + j - 1]
    BY <1>1, RowAt
  <2>3. Row(h, m, k)[i] = h[m + i - 1]
    BY <2>1, <2>2
  <2> QED
    BY <1>2, <2>3
<1>9. ASSUME NEW i \in 1..(n - k) PROVE t[i] = h[k + i]
  <2>1. /\ i \in 1..(n - (k + 1) + 1) /\ (k + 1) + i - 1 = k + i
        /\ k + 1 \in Nat /\ k + 1 <= n + 1
    OBVIOUS
  <2>2. Row(h, k + 1, n)[i] = h[(k + 1) + i - 1]
    <3>1. PICK j \in Nat : j = k + 1
      OBVIOUS
    <3>2. Elements(S, h, j, n) /\ j <= n + 1 /\ i \in 1..(n - j + 1)
      BY <1>1, <2>1, <3>1
    <3>3. Row(h, j, n)[i] = h[j + i - 1]
      BY <3>2, RowAt
    <3> QED
      BY <3>1, <3>3
  <2> QED
    BY <1>3, <2>1, <2>2
<1>10. ASSUME NEW i \in 1..(n - m + 1) PROVE u[i] = h[m + i - 1]
  <2>1. m <= n + 1
    OBVIOUS
  <2> QED
    <3>1. Row(h, m, n)[i] = h[m + i - 1]
      BY <2>1, RowAt
    <3> QED
      BY <1>4, <3>1
<1>11. Len(s \o t) = Len(s) + Len(t) /\ s \o t \in Seq(Seq(S))
  BY ConcatProperties
<1>12. Len(s \o t) = Len(u)
  BY <1>5, <1>6, <1>7, <1>11
<1>13. ASSUME NEW i \in 1..Len(s \o t) PROVE (s \o t)[i] = u[i]
  <2>1. i \in 1..(n - m + 1) /\ i \in 1..(Len(s) + Len(t))
    BY <1>7, <1>11, <1>12
  <2>2. (s \o t)[i] = IF i <= Len(s) THEN s[i] ELSE t[i - Len(s)]
    BY <2>1, ConcatProperties, Zenon
  <2>3. u[i] = h[m + i - 1]
    BY <1>10, <2>1
  <2>4. CASE i <= k - m + 1
    <3>1. i \in 1..(k - m + 1)
      BY <2>1, <2>4
    <3>2. s[i] = h[m + i - 1]
      BY <1>8, <3>1
    <3> QED
      BY <1>5, <2>2, <2>3, <2>4, <3>2
  <2>5. CASE ~(i <= k - m + 1)
    <3>1. i - (k - m + 1) \in 1..(n - k) /\ k + (i - (k - m + 1)) = m + i - 1
      BY <2>1, <2>5
    <3>2. t[i - (k - m + 1)] = h[k + (i - (k - m + 1))]
      BY <1>9, <3>1
    <3> QED
      BY <1>5, <2>2, <2>3, <2>5, <3>1, <3>2
  <2> QED
    BY <2>4, <2>5
<1>14. s \o t = u
  BY <1>11, <1>12, <1>13, SeqEqual
<1>15. FlattenSeq(s \o t) = FlattenSeq(s) \o FlattenSeq(t)
  BY FlattenConcat
<1> QED
  BY <1>2, <1>3, <1>4, <1>14, <1>15, Zenon DEF Over, Cat

LEMMA OverLast ==
    ASSUME NEW S, NEW h, NEW m \in Nat, NEW n \in Nat, m <= n + 1, Elements(S, h, m, n + 1)
    PROVE  Over(h, m, n + 1) = Cat(Over(h, m, n), h[n + 1])
<1>1. Over(h, m, n + 1) = Cat(Over(h, m, n), Over(h, n + 1, n + 1))
  BY OverSplit
<1>2. h[n + 1] \in Seq(S)
  BY DEF Elements
<1>3. Over(h, n + 1, n + 1) = h[n + 1]
  BY <1>2, OverOne
<1> QED
  BY <1>1, <1>3

\* Only h[m], ..., h[n] matter.
LEMMA OverSame ==
    ASSUME NEW g, NEW h, NEW m \in Nat, NEW n \in Nat, \A i \in m..n : g[i] = h[i]
    PROVE  Over(g, m, n) = Over(h, m, n)
<1>1. \A i \in 1..(n - m + 1) : g[m + i - 1] = h[m + i - 1]
  <2> SUFFICES ASSUME NEW i \in 1..(n - m + 1) PROVE g[m + i - 1] = h[m + i - 1]
    OBVIOUS
  <2>1. m + i - 1 \in m..n
    OBVIOUS
  <2> QED
    BY <2>1
<1>2. Row(g, m, n) = Row(h, m, n)
  BY <1>1 DEF Row
<1> QED
  BY <1>2, Zenon DEF Over

\* Nothing is written where every h[i] is empty.
LEMMA OverNothing ==
    ASSUME NEW h, NEW m \in Nat \ {0}, NEW n \in Nat, m <= n + 1,
           \A i \in m..n : h[i] = <<>>
    PROVE  Over(h, m, n) = <<>>
<1> DEFINE T == {k \in Nat : m + k <= n + 1 => Over(h, m, m + k - 1) = <<>>}
<1>1. 0 \in T
  <2>1. m - 1 \in Nat /\ (m - 1) + 1 = m /\ m + 0 - 1 = m - 1
    OBVIOUS
  <2>2. Over(h, m, m - 1) = <<>>
    BY <2>1, OverEmpty
  <2> QED
    BY <2>1, <2>2
<1>2. ASSUME NEW k \in Nat, k \in T PROVE k + 1 \in T
  <2> SUFFICES ASSUME m + (k + 1) <= n + 1 PROVE Over(h, m, m + (k + 1) - 1) = <<>>
    OBVIOUS
  <2> DEFINE j == m + k - 1
  <2>1. j \in Nat /\ j + 1 = m + (k + 1) - 1 /\ m <= j + 1 /\ j + 1 \in m..n
    OBVIOUS
  <2>2. h[j + 1] = <<>> /\ Over(h, m, j) = <<>>
    BY <1>2, <2>1
  <2>3. Elements({}, h, m, j + 1)
    <3>1. m..(j + 1) \subseteq m..n
      BY <2>1
    <3> QED
      BY <3>1, EmptySeq DEF Elements
  <2> HIDE DEF j
  <2>4. Over(h, m, j + 1) = Cat(Over(h, m, j), h[j + 1])
    BY <2>1, <2>3, OverLast
  <2>5. Cat(<<>>, <<>>) = <<>>
    BY CatEmpty, EmptySeq
  <2> QED
    BY <2>1, <2>2, <2>4, <2>5
<1> HIDE DEF T
<1>3. n + 1 - m \in Nat
  OBVIOUS
<1>4. n + 1 - m \in T
  BY <1>1, <1>2, <1>3, Induct
<1>5. m + (n + 1 - m) - 1 = n /\ m + (n + 1 - m) <= n + 1
  OBVIOUS
<1> QED
  BY <1>4, <1>5 DEF T

-----------------------------------------------------------------------------
(* Stretches of a sequence                                                 *)

LEMMA SubType ==
    ASSUME NEW S, NEW s \in Seq(S), NEW m \in Nat \ {0}, NEW n \in Nat, n <= Len(s)
    PROVE  SubSeq(s, m, n) \in Seq(S)
<1>1. \A i \in m..n : s[i] \in S
  <2> SUFFICES ASSUME NEW i \in m..n PROVE s[i] \in S
    OBVIOUS
  <2>1. i \in 1..Len(s)
    BY LenProperties
  <2> QED
    BY <2>1, ElementOfSeq
<1>2. m \in Int /\ n \in Int
  OBVIOUS
<1> QED
  BY <1>1, <1>2, SubSeqProperties

LEMMA SubLen ==
    ASSUME NEW S, NEW s \in Seq(S), NEW m \in Nat \ {0}, NEW n \in Nat,
           m <= n + 1, n <= Len(s)
    PROVE  Len(SubSeq(s, m, n)) = n - m + 1
<1>1. \A i \in m..n : s[i] \in S
  <2> SUFFICES ASSUME NEW i \in m..n PROVE s[i] \in S
    OBVIOUS
  <2>1. i \in 1..Len(s)
    BY LenProperties
  <2> QED
    BY <2>1, ElementOfSeq
<1>2. m \in Int /\ n \in Int
  OBVIOUS
<1>3. Len(SubSeq(s, m, n)) = IF m <= n THEN n - m + 1 ELSE 0
  BY <1>1, <1>2, SubSeqProperties
<1> QED
  BY <1>3

LEMMA SubAt ==
    ASSUME NEW S, NEW s \in Seq(S), NEW m \in Nat \ {0}, NEW n \in Nat, n <= Len(s),
           NEW i \in 1..(n - m + 1)
    PROVE  SubSeq(s, m, n)[i] = s[m + i - 1]
<1>1. \A j \in m..n : s[j] \in S
  <2> SUFFICES ASSUME NEW j \in m..n PROVE s[j] \in S
    OBVIOUS
  <2>1. j \in 1..Len(s)
    BY LenProperties
  <2> QED
    BY <2>1, ElementOfSeq
<1>2. m \in Int /\ n \in Int
  OBVIOUS
<1> QED
  BY <1>1, <1>2, SubSeqProperties

\* A stretch of a stretch.
LEMMA SubSub ==
    ASSUME NEW S, NEW s \in Seq(S), NEW m \in Nat \ {0}, NEW n \in Nat, m <= n + 1, n <= Len(s),
           NEW x \in Nat \ {0}, NEW y \in Nat, x <= y + 1, y <= n - m + 1
    PROVE  SubSeq(SubSeq(s, m, n), x, y) = SubSeq(s, m + x - 1, m + y - 1)
<1>1. PICK t \in Seq(S) : t = SubSeq(s, m, n)
  BY SubType
<1>2. Len(t) = n - m + 1
  BY <1>1, SubLen
<1>3. PICK x1 \in Nat \ {0}, y1 \in Nat : x1 = m + x - 1 /\ y1 = m + y - 1
  <2>1. m + x - 1 \in Nat \ {0} /\ m + y - 1 \in Nat
    OBVIOUS
  <2> QED
    BY <2>1
<1>4. x1 <= y1 + 1 /\ y1 <= Len(s) /\ y <= Len(t)
  <2>1. Len(s) \in Nat
    BY LenProperties
  <2> QED
    BY <1>2, <1>3, <2>1
<1>5. PICK u \in Seq(S) : u = SubSeq(t, x, y)
  BY <1>4, SubType
<1>6. PICK v \in Seq(S) : v = SubSeq(s, x1, y1)
  BY <1>4, SubType
<1>7. Len(u) = y - x + 1
  BY <1>4, <1>5, SubLen
<1>8. Len(v) = y - x + 1
  <2>1. Len(v) = y1 - x1 + 1
    BY <1>4, <1>6, SubLen
  <2> QED
    BY <1>3, <2>1
<1>9. ASSUME NEW i \in 1..Len(u) PROVE u[i] = v[i]
  <2>1. i \in 1..(y - x + 1) /\ i \in 1..(y1 - x1 + 1)
    BY <1>3, <1>7
  <2>2. u[i] = t[x + i - 1]
    BY <1>4, <1>5, <2>1, SubAt
  <2>3. v[i] = s[x1 + i - 1]
    BY <1>4, <1>6, <2>1, SubAt
  <2>4. PICK j \in 1..(n - m + 1) : j = x + i - 1
    BY <2>1
  <2>5. t[j] = s[m + j - 1]
    BY <1>1, SubAt
  <2>6. m + j - 1 = x1 + i - 1
    BY <1>3, <2>4
  <2> QED
    BY <2>2, <2>3, <2>4, <2>5, <2>6
<1> QED
  BY <1>1, <1>3, <1>5, <1>6, <1>7, <1>8, <1>9, SeqEqual

LEMMA SubNone ==
    ASSUME NEW s, NEW m \in Nat, NEW n \in Nat, n < m
    PROVE  SubSeq(s, m, n) = <<>>
BY SubSeqEmpty

LEMMA SubSome ==
    ASSUME NEW S, NEW s \in Seq(S), NEW m \in Nat \ {0}, NEW n \in Nat, m <= n + 1, n <= Len(s)
    PROVE  SubSeq(s, m, n) = <<>> <=> n < m
<1>1. Len(SubSeq(s, m, n)) = n - m + 1
  BY SubLen
<1>2. SubSeq(s, m, n) = <<>> => Len(SubSeq(s, m, n)) = 0
  BY EmptySeq
<1>3. n < m => SubSeq(s, m, n) = <<>>
  BY SubNone
<1> QED
  BY <1>1, <1>2, <1>3

-----------------------------------------------------------------------------
(* More of concatenations                                                  *)

LEMMA CatLen ==
    ASSUME NEW S, NEW s \in Seq(S), NEW t \in Seq(S)
    PROVE  Len(Cat(s, t)) = Len(s) + Len(t)
BY ConcatProperties DEF Cat

LEMMA CatAt ==
    ASSUME NEW S, NEW s \in Seq(S), NEW t \in Seq(S), NEW i \in 1..(Len(s) + Len(t))
    PROVE  Cat(s, t)[i] = IF i <= Len(s) THEN s[i] ELSE t[i - Len(s)]
BY ConcatProperties, Zenon DEF Cat

LEMMA SeqMore ==
    ASSUME NEW S, NEW T, S \subseteq T, NEW s \in Seq(S)
    PROVE  s \in Seq(T)
BY SeqMonotonic

\* A sequence in S of lengths that agree place by place.
LEMMA OverLen ==
    ASSUME NEW S, NEW T, NEW g, NEW h, NEW m \in Nat \ {0}, NEW n \in Nat, m <= n + 1,
           Elements(S, g, m, n), Elements(T, h, m, n),
           \A i \in m..n : Len(g[i]) = Len(h[i])
    PROVE  Len(Over(g, m, n)) = Len(Over(h, m, n))
<1> DEFINE K == {k \in Nat : m + k <= n + 1 => Len(Over(g, m, m + k - 1)) = Len(Over(h, m, m + k - 1))}
<1>1. 0 \in K
  <2>1. PICK j \in Nat : j = m - 1
    OBVIOUS
  <2>2. Over(g, m, j) = <<>> /\ Over(h, m, j) = <<>>
    BY <2>1, OverEmpty
  <2>3. m + 0 - 1 = j
    BY <2>1
  <2> QED
    BY <2>2, <2>3
<1>2. ASSUME NEW k \in Nat, k \in K PROVE k + 1 \in K
  <2> SUFFICES ASSUME m + (k + 1) <= n + 1
               PROVE  Len(Over(g, m, m + (k + 1) - 1)) = Len(Over(h, m, m + (k + 1) - 1))
    OBVIOUS
  <2>1. PICK j \in Nat : j = m + k - 1
    OBVIOUS
  <2>2. /\ j + 1 = m + (k + 1) - 1 /\ m <= j + 1 /\ j + 1 \in m..n /\ j <= n
        /\ m..(j + 1) \subseteq m..n /\ m..j \subseteq m..n
    BY <2>1
  <2>3. Len(Over(g, m, j)) = Len(Over(h, m, j))
    BY <1>2, <2>1
  <2>4. /\ Elements(S, g, m, j) /\ Elements(S, g, m, j + 1)
        /\ Elements(T, h, m, j) /\ Elements(T, h, m, j + 1)
    BY <2>2 DEF Elements
  <2>5. Over(g, m, j + 1) = Cat(Over(g, m, j), g[j + 1])
    BY <2>2, <2>4, OverLast
  <2>6. Over(h, m, j + 1) = Cat(Over(h, m, j), h[j + 1])
    BY <2>2, <2>4, OverLast
  <2>7. Over(g, m, j) \in Seq(S) /\ g[j + 1] \in Seq(S)
    BY <2>2, <2>4, OverType DEF Elements
  <2>8. Over(h, m, j) \in Seq(T) /\ h[j + 1] \in Seq(T)
    BY <2>2, <2>4, OverType DEF Elements
  <2>9. Len(Over(g, m, j + 1)) = Len(Over(g, m, j)) + Len(g[j + 1])
    BY <2>5, <2>7, CatLen
  <2>10. Len(Over(h, m, j + 1)) = Len(Over(h, m, j)) + Len(h[j + 1])
    BY <2>6, <2>8, CatLen
  <2>11. Len(g[j + 1]) = Len(h[j + 1])
    BY <2>2
  <2> QED
    BY <2>2, <2>3, <2>9, <2>10, <2>11
<1> HIDE DEF K
<1>3. PICK k \in Nat : k = n + 1 - m
  OBVIOUS
<1>4. k \in K
  BY <1>1, <1>2, Induct
<1>5. m + k - 1 = n /\ m + k <= n + 1
  BY <1>3
<1> QED
  BY <1>4, <1>5 DEF K

\* A concatenation from the first element on.
LEMMA OverAll ==
    ASSUME NEW f, NEW n \in Nat, f = [i \in 1..n |-> f[i]]
    PROVE  FlattenSeq(f) = Over(f, 1, n)
<1>1. n - 1 + 1 = n /\ \A i \in 1..n : 1 + i - 1 = i
  OBVIOUS
<1>2. Row(f, 1, n) = [i \in 1..n |-> f[i]]
  BY <1>1 DEF Row
<1> QED
  BY <1>2, Zenon DEF Over

\* Two sequences are the same if they differ only by what follows them, and do
\* not end in what follows.
LEMMA SameFront ==
    ASSUME NEW U, NEW T, T \subseteq U,
           NEW s \in Seq(U), NEW t \in Seq(U), NEW x \in Seq(T), NEW y \in Seq(T),
           Cat(s, x) = Cat(t, y),
           Len(s) > 0 => s[Len(s)] \notin T,
           Len(t) > 0 => t[Len(t)] \notin T
    PROVE  s = t
<1>1. PICK k \in Nat, l \in Nat, m \in Nat, n \in Nat :
         k = Len(s) /\ l = Len(t) /\ m = Len(x) /\ n = Len(y)
  BY LenProperties
<1>2. x \in Seq(U) /\ y \in Seq(U)
  BY SeqMore
<1>3. k + m = l + n
  BY <1>1, <1>2, CatLen
<1>4. ASSUME NEW i \in 1..(k + m)
      PROVE  (IF i <= k THEN s[i] ELSE x[i - k]) = (IF i <= l THEN t[i] ELSE y[i - l])
  <2>1. Cat(s, x)[i] = IF i <= k THEN s[i] ELSE x[i - k]
    BY <1>1, <1>2, CatAt
  <2>2. i \in 1..(l + n)
    BY <1>3
  <2>3. Cat(t, y)[i] = IF i <= l THEN t[i] ELSE y[i - l]
    BY <1>1, <1>2, <2>2, CatAt
  <2> QED
    BY <2>1, <2>3
<1>5. ~(k < l)
  <2> SUFFICES ASSUME k < l PROVE FALSE
    OBVIOUS
  <2>1. l \in 1..(k + m) /\ ~(l <= k) /\ l - k \in 1..m
    BY <1>3
  <2>2. x[l - k] = t[l]
    BY <1>4, <2>1
  <2>3. x[l - k] \in T
    BY <1>1, <2>1, ElementOfSeq
  <2> QED
    BY <1>1, <2>2, <2>3
<1>6. ~(l < k)
  <2> SUFFICES ASSUME l < k PROVE FALSE
    OBVIOUS
  <2>1. k \in 1..(k + m) /\ ~(k <= l) /\ k - l \in 1..n
    BY <1>3
  <2>2. y[k - l] = s[k]
    BY <1>4, <2>1
  <2>3. y[k - l] \in T
    BY <1>1, <2>1, ElementOfSeq
  <2> QED
    BY <1>1, <2>2, <2>3
<1>7. k = l
  BY <1>5, <1>6
<1>8. ASSUME NEW i \in 1..Len(s) PROVE s[i] = t[i]
  <2>1. i \in 1..(k + m) /\ i <= k /\ i <= l
    BY <1>1, <1>7
  <2> QED
    BY <1>4, <2>1
<1> QED
  BY <1>1, <1>7, <1>8, SeqEqual

-----------------------------------------------------------------------------
(* Strip, Upto and After                                                   *)

\* Strip is the stretch from the first to the last character that is not white.
LEMMA StripIs ==
    ASSUME NEW S, NEW t \in Seq(S)
    PROVE  \E x \in Nat \ {0}, y \in Nat :
              /\ x <= y + 1 /\ y <= Len(t)
              /\ Strip(t) = SubSeq(t, x, y)
              /\ \A i \in 1..Len(t) : i < x \/ y < i => t[i] \in White
              /\ x <= y => t[x] \notin White /\ t[y] \notin White
<1> DEFINE ink == {i \in 1..Len(t) : t[i] \notin White}
<1>1. PICK n \in Nat : n = Len(t)
  BY LenProperties
<1>2. CASE ink = {}
  <2>1. Strip(t) = <<>>
    BY <1>2 DEF Strip
  <2>2. SubSeq(t, n + 1, n) = <<>>
    BY <1>1, SubNone
  <2>3. \A i \in 1..n : t[i] \in White
    BY <1>1, <1>2
  <2>4. n + 1 \in Nat \ {0} /\ n + 1 <= n + 1 /\ n <= n /\ ~(n + 1 <= n)
    OBVIOUS
  <2> HIDE DEF ink
  <2> QED
    BY <1>1, <2>1, <2>2, <2>3, <2>4
<1>3. CASE ink # {}
  <2>1. ink \subseteq Nat /\ \A i \in ink : i <= n
    BY <1>1
  <2>2. Strip(t) = SubSeq(t, Min(ink), Max(ink))
    BY <1>3 DEF Strip
  <2>3. PICK x \in ink : x = Min(ink) /\ \A i \in ink : x <= i
    <3> HIDE DEF ink
    <3> QED
      BY <1>3, <2>1, MinIs
  <2>4. PICK y \in ink : y = Max(ink) /\ \A i \in ink : i <= y
    <3> HIDE DEF ink
    <3> QED
      BY <1>3, <2>1, MaxIs
  <2>5. x \in Nat \ {0} /\ y \in Nat /\ x <= y + 1 /\ y <= n /\ t[x] \notin White /\ t[y] \notin White
    BY <1>1, <2>3, <2>4
  <2>6. ASSUME NEW i \in 1..n, i < x \/ y < i PROVE t[i] \in White
    <3>1. i \notin ink
      BY <2>3, <2>4, <2>5, <2>6
    <3> QED
      BY <1>1, <3>1
  <2> HIDE DEF ink
  <2> QED
    BY <1>1, <2>2, <2>3, <2>4, <2>5, <2>6
<1> QED
  BY <1>2, <1>3

Blank(t, i, j) == \A k \in i..j : t[k] \in White
Trim(t, i, j) == i <= j => t[i] \notin White /\ t[j] \notin White

\* The same of a stretch of s: a stretch of it is left, with white space around.
LEMMA StripAt ==
    ASSUME NEW S, NEW s \in Seq(S), NEW m \in Nat \ {0}, NEW n \in Nat, m <= n + 1, n <= Len(s)
    PROVE  \E x \in Nat \ {0}, y \in Nat :
              /\ m <= x /\ x <= y + 1 /\ y <= n
              /\ Strip(SubSeq(s, m, n)) = SubSeq(s, x, y)
              /\ Blank(s, m, x - 1) /\ Blank(s, y + 1, n) /\ Trim(s, x, y)
<1>1. PICK t \in Seq(S) : t = SubSeq(s, m, n)
  BY SubType
<1>2. Len(t) = n - m + 1
  BY <1>1, SubLen
<1>3. PICK x \in Nat \ {0}, y \in Nat :
         /\ x <= y + 1 /\ y <= Len(t)
         /\ Strip(t) = SubSeq(t, x, y)
         /\ \A i \in 1..Len(t) : i < x \/ y < i => t[i] \in White
         /\ x <= y => t[x] \notin White /\ t[y] \notin White
  BY StripIs
<1>4. ASSUME NEW i \in 1..Len(t) PROVE t[i] = s[m + i - 1]
  BY <1>1, <1>2, SubAt
<1>5. PICK u \in Nat \ {0}, v \in Nat : u = m + x - 1 /\ v = m + y - 1
  <2>1. m + x - 1 \in Nat \ {0} /\ m + y - 1 \in Nat
    OBVIOUS
  <2> QED
    BY <2>1
<1>6. Strip(t) = SubSeq(s, u, v)
  BY <1>1, <1>2, <1>3, <1>5, SubSub
<1>7. m <= u /\ u <= v + 1 /\ v <= n
  BY <1>2, <1>3, <1>5
<1>8. ASSUME NEW k \in m..n, k < u \/ v < k PROVE s[k] \in White
  <2>1. PICK i \in 1..Len(t) : k = m + i - 1
    <3>1. k - m + 1 \in 1..Len(t) /\ m + (k - m + 1) - 1 = k
      BY <1>2
    <3> QED
      BY <3>1
  <2>2. i < x \/ y < i
    BY <1>5, <1>8, <2>1
  <2> QED
    BY <1>3, <1>4, <2>1, <2>2
<1>9. Blank(s, m, u - 1)
  <2> SUFFICES ASSUME NEW k \in m..(u - 1) PROVE s[k] \in White
    BY DEF Blank
  <2>1. k \in m..n /\ k < u
    BY <1>7
  <2> QED
    BY <1>8, <2>1
<1>10. Blank(s, v + 1, n)
  <2> SUFFICES ASSUME NEW k \in (v + 1)..n PROVE s[k] \in White
    BY DEF Blank
  <2>1. k \in m..n /\ v < k
    BY <1>7
  <2> QED
    BY <1>8, <2>1
<1>11. Trim(s, u, v)
  <2> SUFFICES ASSUME u <= v PROVE s[u] \notin White /\ s[v] \notin White
    BY DEF Trim
  <2>1. x <= y /\ x \in 1..Len(t) /\ y \in 1..Len(t)
    BY <1>3, <1>2, <1>5
  <2>2. t[x] = s[u] /\ t[y] = s[v]
    BY <1>4, <1>5, <2>1
  <2> QED
    BY <1>3, <2>1, <2>2
<1> QED
  BY <1>1, <1>6, <1>7, <1>9, <1>10, <1>11

\* A stretch with no white space at its ends is left as it is.
LEMMA StripTrimmed ==
    ASSUME NEW S, NEW t \in Seq(S), Len(t) > 0, t[1] \notin White, t[Len(t)] \notin White
    PROVE  Strip(t) = t
<1>1. PICK x \in Nat \ {0}, y \in Nat :
         /\ x <= y + 1 /\ y <= Len(t)
         /\ Strip(t) = SubSeq(t, x, y)
         /\ \A i \in 1..Len(t) : i < x \/ y < i => t[i] \in White
         /\ x <= y => t[x] \notin White /\ t[y] \notin White
  BY StripIs
<1>2. PICK n \in Nat : n = Len(t)
  BY LenProperties
<1>3. x = 1
  BY <1>1, <1>2
<1>4. y = n
  BY <1>1, <1>2
<1> QED
  BY <1>1, <1>2, <1>3, <1>4, SubSeqFull

-----------------------------------------------------------------------------
(* The split into fragments: what is written and what is heard, place by   *)
(* place                                                                   *)

\* The characters: the space is named because the provers do not know of a literal
\* that it is a string.
Char == STRING \cup {" "}

Frag == {f \in [beats : Nat, text : Seq(Char)] : IsSpoken(f) \/ f.text = <<>>}
SpokenFrag == {f \in Frag : IsSpoken(f)}
PauseFrag == {f \in Frag : ~IsSpoken(f)}

\* The parts of Said.
SaidBy(t) == [i \in 1..Len(t) |-> IF t[i] \in White THEN <<>> ELSE <<Spoken(<<t[i]>>)>>]

\* The parts of Written, and of the same with the pauses of trailing dashes.
WrittenAt ==
    [i \in 1..Len(text) |->
        IF i \in Ink THEN <<Spoken(<<text[i]>>)>>
        ELSE IF HeardDash(i) THEN <<Pause(Beats(From(text, i)))>>
        ELSE <<>>]
SoftAt ==
    [i \in 1..Len(text) |->
        IF i \in Ink THEN <<Spoken(<<text[i]>>)>>
        ELSE IF DashStart(i) /\ \E j \in Ink : j < i THEN <<Pause(Beats(From(text, i)))>>
        ELSE <<>>]

\* The parts of Place, and the number of spoken places up to i.
PlaceAt == [i \in 1..Len(text) |-> IF i \in Ink THEN <<i>> ELSE <<>>]
Rank(i) == Len(Over(PlaceAt, 1, i))

LEMMA SpokenIs ==
    ASSUME NEW t \in Seq(Char)
    PROVE  Spoken(t) \in SpokenFrag
BY DEF Spoken, SpokenFrag, Frag, IsSpoken

LEMMA PauseIs ==
    ASSUME NEW n \in Nat \ {0}
    PROVE  Pause(n) \in PauseFrag
<1>1. <<>> \in Seq(Char)
  BY EmptySeq
<1> QED
  BY <1>1 DEF Pause, PauseFrag, Frag, IsSpoken

LEMMA SaidByType ==
    ASSUME NEW t \in Seq(Char), NEW i \in 1..Len(t)
    PROVE  SaidBy(t)[i] \in Seq(SpokenFrag)
<1>1. t[i] \in Char
  BY ElementOfSeq
<1>2. <<t[i]>> \in Seq(Char)
  BY <1>1
<1>3. Spoken(<<t[i]>>) \in SpokenFrag
  BY <1>2, SpokenIs
<1>4. <<Spoken(<<t[i]>>)>> \in Seq(SpokenFrag)
  BY <1>3
<1>5. <<>> \in Seq(SpokenFrag)
  BY EmptySeq
<1> QED
  BY <1>4, <1>5 DEF SaidBy

LEMMA SaidByElements ==
    ASSUME NEW t \in Seq(Char), NEW m \in Nat \ {0}, NEW n \in Nat, n <= Len(t)
    PROVE  Elements(SpokenFrag, SaidBy(t), m, n)
<1> SUFFICES ASSUME NEW i \in m..n PROVE SaidBy(t)[i] \in Seq(SpokenFrag)
  BY DEF Elements
<1>1. i \in 1..Len(t)
  BY LenProperties
<1> QED
  BY <1>1, SaidByType

LEMMA SaidIs ==
    ASSUME NEW t \in Seq(Char)
    PROVE  Said(t) = Over(SaidBy(t), 1, Len(t)) /\ Said(t) \in Seq(SpokenFrag)
<1>1. PICK n \in Nat : n = Len(t)
  BY LenProperties
<1>2. SaidBy(t) = [i \in 1..n |-> SaidBy(t)[i]]
  BY <1>1 DEF SaidBy
<1>3. Said(t) = FlattenSeq(SaidBy(t))
  BY DEF Said, SaidBy
<1>4. FlattenSeq(SaidBy(t)) = Over(SaidBy(t), 1, n)
  BY <1>2, OverAll
<1>5. Elements(SpokenFrag, SaidBy(t), 1, n)
  BY <1>1, SaidByElements
<1>6. Over(SaidBy(t), 1, n) \in Seq(SpokenFrag)
  BY <1>5, OverType
<1> QED
  BY <1>1, <1>3, <1>4, <1>6

\* What a stretch says.
LEMMA SaidStretch ==
    ASSUME NEW s \in Seq(Char), NEW m \in Nat \ {0}, NEW n \in Nat, m <= n + 1, n <= Len(s)
    PROVE  Said(SubSeq(s, m, n)) = Over(SaidBy(s), m, n)
<1>1. PICK t \in Seq(Char) : t = SubSeq(s, m, n)
  BY SubType
<1>2. PICK k \in Nat : k = Len(t)
  BY LenProperties
<1>3. k = n - m + 1
  BY <1>1, <1>2, SubLen
<1>4. ASSUME NEW i \in 1..k PROVE SaidBy(t)[i] = SaidBy(s)[m + i - 1]
  <2>1. t[i] = s[m + i - 1]
    BY <1>1, <1>3, SubAt
  <2>2. m + i - 1 \in 1..Len(s) /\ i \in 1..Len(t)
    <3>1. Len(s) \in Nat
      BY LenProperties
    <3> QED
      BY <1>2, <1>3, <3>1
  <2> QED
    BY <2>1, <2>2 DEF SaidBy
<1>5. Row(SaidBy(s), m, n) = SaidBy(t)
  <2>1. SaidBy(t) = [i \in 1..k |-> SaidBy(t)[i]]
    BY <1>2 DEF SaidBy
  <2>2. SaidBy(t) = [i \in 1..k |-> SaidBy(s)[m + i - 1]]
    BY <1>4, <2>1
  <2> QED
    BY <1>3, <2>2 DEF Row
<1>6. Said(t) = FlattenSeq(SaidBy(t))
  BY DEF Said, SaidBy
<1> QED
  BY <1>1, <1>5, <1>6, Zenon DEF Over

\* With one more element in front.
LEMMA OverFirst ==
    ASSUME NEW S, NEW h, NEW m \in Nat \ {0}, NEW n \in Nat, m <= n, Elements(S, h, m, n)
    PROVE  Over(h, m, n) = Cat(h[m], Over(h, m + 1, n))
<1>1. h[m] \in Seq(S)
  BY DEF Elements
<1>2. Over(h, m, m) = h[m]
  BY <1>1, OverOne
<1>3. Over(h, m, n) = Cat(Over(h, m, m), Over(h, m + 1, n))
  BY OverSplit
<1> QED
  BY <1>2, <1>3

\* A character in front.
LEMMA JoinIs ==
    ASSUME NEW S, NEW x \in S, NEW t \in Seq(S)
    PROVE  /\ <<x>> \o t \in Seq(S)
           /\ Len(<<x>> \o t) = Len(t) + 1
           /\ (<<x>> \o t)[1] = x
           /\ \A i \in 1..Len(t) : (<<x>> \o t)[i + 1] = t[i]
<1>1. PICK s \in Seq(S) : s = <<x>>
  <2>1. <<x>> \in Seq(S)
    OBVIOUS
  <2> QED
    BY <2>1, Zenon
<1>2. Len(s) = 1 /\ s[1] = x
  BY <1>1
<1>3. PICK n \in Nat : n = Len(t)
  BY LenProperties
<1>4. s \o t \in Seq(S) /\ Len(s \o t) = Len(s) + Len(t)
  BY ConcatProperties
<1>5. ASSUME NEW i \in 1..(1 + n)
      PROVE  (s \o t)[i] = IF i <= 1 THEN s[i] ELSE t[i - 1]
  <2>1. \A j \in 1..(Len(s) + Len(t)) :
           (s \o t)[j] = IF j <= Len(s) THEN s[j] ELSE t[j - Len(s)]
    BY ConcatProperties, Zenon
  <2> QED
    BY <1>2, <1>3, <2>1
<1>6. (s \o t)[1] = x
  BY <1>2, <1>5
<1>7. ASSUME NEW i \in 1..n PROVE (s \o t)[i + 1] = t[i]
  <2>1. i + 1 \in 1..(1 + n) /\ ~(i + 1 <= 1) /\ (i + 1) - 1 = i
    OBVIOUS
  <2> QED
    BY <1>5, <2>1
<1>8. Len(s \o t) = n + 1
  BY <1>2, <1>3, <1>4
<1> QED
  BY <1>1, <1>3, <1>4, <1>6, <1>7, <1>8, Zenon

\* White space in front says nothing.
LEMMA SaidJoined ==
    ASSUME NEW x \in Char, x \in White, NEW t \in Seq(Char)
    PROVE  Said(<<x>> \o t) = Said(t)
<1>1. PICK u \in Seq(Char) : u = <<x>> \o t
  BY JoinIs
<1>2. PICK n \in Nat : n = Len(t)
  BY LenProperties
<1>3. Len(u) = n + 1
  BY <1>1, <1>2, JoinIs
<1>4. u[1] = x
  BY <1>1, JoinIs
<1>5. \A i \in 1..n : u[i + 1] = t[i]
  BY <1>1, <1>2, JoinIs
<1>6. PICK o \in Nat \ {0}, l \in Nat : o = 1 /\ l = n + 1
  OBVIOUS
<1>7. Said(u) = Over(SaidBy(u), o, l)
  BY <1>3, <1>6, SaidIs
<1>8. Elements(SpokenFrag, SaidBy(u), o, l)
  BY <1>3, <1>6, SaidByElements
<1>9. Over(SaidBy(u), o, l) = Cat(SaidBy(u)[o], Over(SaidBy(u), o + 1, l))
  BY <1>6, <1>8, OverFirst
<1>10. SaidBy(u)[o] = <<>>
  <2>1. o \in 1..Len(u)
    BY <1>3, <1>6
  <2>2. u[o] = x
    BY <1>4, <1>6, Zenon
  <2> QED
    BY <2>1, <2>2 DEF SaidBy
<1>11. PICK m \in Nat \ {0} : m = o + 1
  BY <1>6
<1>12. Over(SaidBy(u), m, l) = Said(SubSeq(u, m, l))
  BY <1>3, <1>6, <1>11, SaidStretch
<1>13. SubSeq(u, m, l) = t
  <2>1. l <= Len(u)
    BY <1>3, <1>6
  <2>2. PICK v \in Seq(Char) : v = SubSeq(u, m, l)
    <3>1. SubSeq(u, m, l) \in Seq(Char)
      BY <2>1, SubType
    <3> QED
      BY <3>1, Zenon
  <2>3. Len(v) = l - m + 1
    BY <1>3, <1>6, <1>11, <2>2, SubLen
  <2>4. ASSUME NEW i \in 1..n PROVE v[i] = t[i]
    <3>1. i \in 1..(l - m + 1) /\ m + i - 1 = i + 1
      BY <1>6, <1>11
    <3>2. v[i] = u[m + i - 1]
      BY <1>3, <1>6, <2>2, <3>1, SubAt
    <3> QED
      BY <1>5, <3>1, <3>2
  <2>5. Len(v) = n
    BY <1>6, <1>11, <2>3
  <2> QED
    BY <1>2, <2>2, <2>4, <2>5, SeqEqual
<1>14. Cat(<<>>, Said(t)) = Said(t)
  BY SaidIs, CatEmpty
<1> QED
  BY <1>1, <1>7, <1>9, <1>10, <1>11, <1>12, <1>13, <1>14

-----------------------------------------------------------------------------
(* Dashes and the ends of sentences                                        *)

\* They are where they are in the text that the stretch was taken from.
LEMMA DashPart ==
    ASSUME NEW S, NEW s \in Seq(S), NEW m \in Nat \ {0}, m <= Len(s) + 1,
           NEW i \in 1..(Len(s) - m + 1)
    PROVE  DashAt(From(s, m), i) <=> DashAt(s, m + i - 1)
<1>1. PICK n \in Nat : n = Len(s)
  BY LenProperties
<1>2. PICK t \in Seq(S) : t = From(s, m)
  <2>1. SubSeq(s, m, n) \in Seq(S)
    BY <1>1, SubType
  <2> QED
    BY <1>1, <2>1 DEF From
<1>3. Len(t) = n - m + 1
  BY <1>1, <1>2, SubLen DEF From
<1>4. ASSUME NEW j \in 1..(n - m + 1) PROVE t[j] = s[m + j - 1]
  BY <1>1, <1>2, SubAt DEF From
<1>5. t[i] = s[m + i - 1]
  BY <1>1, <1>4
<1>6. i < Len(t) <=> m + i - 1 < n
  BY <1>1, <1>3
<1>7. i < Len(t) => t[i + 1] = s[(m + i - 1) + 1]
  <2> SUFFICES ASSUME i < Len(t) PROVE t[i + 1] = s[(m + i - 1) + 1]
    OBVIOUS
  <2>1. i + 1 \in 1..(n - m + 1) /\ m + (i + 1) - 1 = (m + i - 1) + 1
    BY <1>1, <1>3
  <2> QED
    BY <1>4, <2>1
<1> QED
  BY <1>1, <1>2, <1>5, <1>6, <1>7 DEF DashAt

LEMMA EndsPart ==
    ASSUME NEW S, NEW s \in Seq(S), NEW m \in Nat \ {0}, NEW n \in Nat, m <= n + 1, n <= Len(s),
           NEW i \in 1..(n - m + 1)
    PROVE  EndsAt(SubSeq(s, m, n), i) <=> m + i - 1 < n /\ EndsAt(s, m + i - 1)
<1>1. Len(s) \in Nat
  BY LenProperties
<1>2. PICK t \in Seq(S) : t = SubSeq(s, m, n)
  <2>1. SubSeq(s, m, n) \in Seq(S)
    BY SubType
  <2> QED
    BY <2>1
<1>3. Len(t) = n - m + 1
  BY <1>2, SubLen
<1>4. ASSUME NEW j \in 1..(n - m + 1) PROVE t[j] = s[m + j - 1]
  BY <1>2, SubAt
<1>5. t[i] = s[m + i - 1]
  BY <1>4
<1>6. i < Len(t) <=> m + i - 1 < n
  BY <1>3
<1>7. m + i - 1 < n => m + i - 1 < Len(s)
  BY <1>1
<1>8. i < Len(t) => t[i + 1] = s[(m + i - 1) + 1]
  <2> SUFFICES ASSUME i < Len(t) PROVE t[i + 1] = s[(m + i - 1) + 1]
    OBVIOUS
  <2>1. i + 1 \in 1..(n - m + 1) /\ m + (i + 1) - 1 = (m + i - 1) + 1
    BY <1>3
  <2> QED
    BY <1>4, <2>1
<1> QED
  BY <1>2, <1>5, <1>6, <1>7, <1>8 DEF EndsAt

\* The length of a dash, and of its pause.
LEMMA DashLenIs ==
    ASSUME NEW S, NEW t \in Seq(S), Len(t) > 0, DashAt(t, 1)
    PROVE  /\ DashLen(t) \in 1..Len(t)
           /\ t[1] \in LongDash => DashLen(t) = 1
           /\ t[1] \notin LongDash =>
                 /\ DashLen(t) >= 2
                 /\ \A i \in 1..DashLen(t) : t[i] = "-"
                 /\ DashLen(t) < Len(t) => t[DashLen(t) + 1] # "-"
<1>1. PICK l \in Nat \ {0} : l = Len(t)
  <2>1. Len(t) \in Nat
    BY LenProperties
  <2> QED
    BY <2>1
<1>2. CASE t[1] \in LongDash
  BY <1>1, <1>2 DEF DashLen
<1>3. CASE t[1] \notin LongDash
  <2> DEFINE runs == {n \in 1..Len(t) : \A i \in 1..n : t[i] = "-"}
  <2>1. DashLen(t) = Max(runs)
    BY <1>3 DEF DashLen
  <2>2. runs \subseteq Nat /\ \A n \in runs : n <= l
    BY <1>1
  <2>3. 1 < l /\ t[1] = "-" /\ t[2] = "-"
    BY <1>1, <1>3 DEF DashAt
  <2>4. 2 \in runs
    <3>1. \A i \in 1..2 : i = 1 \/ i = 2
      OBVIOUS
    <3>2. \A i \in 1..2 : t[i] = "-"
      BY <2>3, <3>1
    <3> QED
      BY <1>1, <2>3, <3>2
  <2>5. \A n \in runs : n \in 1..l /\ \A i \in 1..n : t[i] = "-"
    BY <1>1
  <2>6. \A n \in 1..l : (\A i \in 1..n : t[i] = "-") => n \in runs
    BY <1>1
  <2> HIDE DEF runs
  <2>7. PICK k \in runs : k = Max(runs) /\ \A n \in runs : n <= k
    BY <2>2, <2>4, MaxIs
  <2>8. k \in 1..l /\ \A i \in 1..k : t[i] = "-"
    BY <2>5
  <2>9. k >= 2
    BY <2>4, <2>7, <2>8
  <2>10. k < l => t[k + 1] # "-"
    <3> SUFFICES ASSUME k < l, t[k + 1] = "-" PROVE FALSE
      OBVIOUS
    <3>1. k + 1 \in 1..l /\ ~(k + 1 <= k)
      BY <2>8
    <3>2. \A i \in 1..(k + 1) : t[i] = "-"
      BY <2>8
    <3> QED
      BY <2>6, <2>7, <3>1, <3>2
  <2> QED
    BY <1>1, <1>3, <2>1, <2>7, <2>8, <2>9, <2>10
<1> QED
  BY <1>2, <1>3

LEMMA BeatsIs ==
    ASSUME NEW S, NEW t \in Seq(S), Len(t) > 0, DashAt(t, 1)
    PROVE  Beats(t) \in Nat \ {0}
<1>1. CASE t[1] \in LongDash
  BY <1>1 DEF Beats
<1>2. CASE t[1] \notin LongDash
  <2>1. PICK n \in Nat : n = DashLen(t) /\ n >= 2
    <3>1. DashLen(t) \in 1..Len(t) /\ DashLen(t) >= 2
      BY <1>2, DashLenIs
    <3>2. Len(t) \in Nat
      BY LenProperties
    <3> QED
      BY <3>1, <3>2
  <2>2. {3, n - 1} \subseteq Nat /\ {3, n - 1} # {}
    BY <2>1
  <2>3. Min({3, n - 1}) \in {3, n - 1}
    BY <2>2, MinIs
  <2>4. Beats(t) = Min({3, n - 1})
    BY <1>2, <2>1 DEF Beats
  <2> QED
    BY <2>1, <2>3, <2>4
<1> QED
  BY <1>1, <1>2

\* Where a dash begins, and what lies in it.
LEMMA DashInside ==
    ASSUME text \in Seq(Char), NEW i \in 1..Len(text), DashAt(text, i)
    PROVE  InDash(i)
BY DEF DashAt, InDash

LEMMA DashBegins ==
    ASSUME text \in Seq(Char), NEW i \in 1..Len(text), DashStart(i)
    PROVE  DashAt(text, i)
<1>1. Len(text) \in Nat
  BY LenProperties
<1> QED
  BY <1>1 DEF DashAt, InDash, DashStart

LEMMA DashPause ==
    ASSUME text \in Seq(Char), NEW i \in 1..Len(text), DashStart(i)
    PROVE  Pause(Beats(From(text, i))) \in PauseFrag
<1>1. PICK n \in Nat : n = Len(text) /\ i \in 1..n
  BY LenProperties
<1>2. DashAt(text, i)
  BY DashBegins
<1>3. PICK t \in Seq(Char) : t = From(text, i)
  <2>1. SubSeq(text, i, n) \in Seq(Char)
    BY <1>1, SubType
  <2> QED
    BY <1>1, <2>1 DEF From
<1>4. Len(t) = n - i + 1
  BY <1>1, <1>3, SubLen DEF From
<1>5. DashAt(t, 1)
  <2>1. i \in Nat \ {0} /\ i <= n + 1 /\ 1 \in 1..(n - i + 1) /\ i + 1 - 1 = i
    BY <1>1
  <2>2. DashAt(From(text, i), 1) <=> DashAt(text, i + 1 - 1)
    BY <1>1, <2>1, DashPart
  <2> QED
    BY <1>2, <1>3, <2>1, <2>2
<1>6. Len(t) > 0
  BY <1>1, <1>4
<1>7. Beats(t) \in Nat \ {0}
  BY <1>5, <1>6, BeatsIs
<1> QED
  BY <1>3, <1>7, PauseIs

-----------------------------------------------------------------------------
(* What is written                                                         *)

LEMMA InkType ==
    ASSUME text \in Seq(Char)
    PROVE  /\ Ink \subseteq 1..Len(text)
           /\ \A i \in Ink : text[i] \notin White /\ ~InDash(i)
           /\ \A i \in 1..Len(text) : text[i] \notin White /\ ~InDash(i) => i \in Ink
BY DEF Ink

LEMMA InkIs ==
    ASSUME text \in Seq(Char), NEW i \in Ink
    PROVE  <<Spoken(<<text[i]>>)>> \in Seq(SpokenFrag)
<1>1. text[i] \in Char
  BY InkType, ElementOfSeq
<1>2. <<text[i]>> \in Seq(Char)
  BY <1>1
<1>3. Spoken(<<text[i]>>) \in SpokenFrag
  BY <1>2, SpokenIs
<1> QED
  BY <1>3

LEMMA FragKinds ==
    /\ SpokenFrag \subseteq Frag /\ PauseFrag \subseteq Frag
    /\ \A f \in SpokenFrag : f \notin PauseFrag
    /\ \A f \in Frag : f \in SpokenFrag \/ f \in PauseFrag
BY DEF SpokenFrag, PauseFrag

LEMMA SoftElements ==
    ASSUME text \in Seq(Char), NEW m \in Nat \ {0}, NEW n \in Nat, n <= Len(text)
    PROVE  Elements(Frag, SoftAt, m, n)
<1> SUFFICES ASSUME NEW i \in m..n PROVE SoftAt[i] \in Seq(Frag)
  BY DEF Elements
<1>1. i \in 1..Len(text)
  BY LenProperties
<1>2. CASE i \in Ink
  <2>1. <<Spoken(<<text[i]>>)>> \in Seq(Frag)
    BY <1>2, InkIs, FragKinds, SeqMore
  <2> QED
    BY <1>1, <1>2, <2>1 DEF SoftAt
<1>3. CASE i \notin Ink /\ DashStart(i) /\ \E j \in Ink : j < i
  <2>1. Pause(Beats(From(text, i))) \in Frag
    BY <1>1, <1>3, DashPause, FragKinds
  <2>2. <<Pause(Beats(From(text, i)))>> \in Seq(Frag)
    BY <2>1
  <2>3. SoftAt[i] = <<Pause(Beats(From(text, i)))>>
    BY <1>1, <1>3 DEF SoftAt
  <2> QED
    BY <2>2, <2>3
<1>4. CASE i \notin Ink /\ ~(DashStart(i) /\ \E j \in Ink : j < i)
  <2>1. SoftAt[i] = <<>>
    BY <1>1, <1>4 DEF SoftAt
  <2> QED
    BY <2>1, EmptySeq
<1> QED
  BY <1>2, <1>3, <1>4

\* Where there is nothing to speak there are pauses only.
LEMMA SoftPauses ==
    ASSUME text \in Seq(Char), NEW m \in Nat \ {0}, NEW n \in Nat, n <= Len(text),
           \A i \in m..n : i \notin Ink
    PROVE  Elements(PauseFrag, SoftAt, m, n)
<1> SUFFICES ASSUME NEW i \in m..n PROVE SoftAt[i] \in Seq(PauseFrag)
  BY DEF Elements
<1>1. i \in 1..Len(text) /\ i \notin Ink
  BY LenProperties
<1>2. CASE DashStart(i) /\ \E j \in Ink : j < i
  <2>1. Pause(Beats(From(text, i))) \in PauseFrag
    BY <1>1, <1>2, DashPause
  <2>2. <<Pause(Beats(From(text, i)))>> \in Seq(PauseFrag)
    BY <2>1
  <2>3. SoftAt[i] = <<Pause(Beats(From(text, i)))>>
    BY <1>1, <1>2 DEF SoftAt
  <2> QED
    BY <2>2, <2>3
<1>3. CASE ~(DashStart(i) /\ \E j \in Ink : j < i)
  <2>1. SoftAt[i] = <<>>
    BY <1>1, <1>3 DEF SoftAt
  <2> QED
    BY <2>1, EmptySeq
<1> QED
  BY <1>2, <1>3

\* What is written is the same up to the last place that is spoken.
LEMMA WrittenIs ==
    ASSUME text \in Seq(Char)
    PROVE  \E w \in Seq(Frag), x \in Seq(PauseFrag) :
              /\ w = Written
              /\ Over(SoftAt, 1, Len(text)) = Cat(w, x)
              /\ Len(w) > 0 => w[Len(w)] \notin PauseFrag
<1>1. PICK n \in Nat : n = Len(text)
  BY LenProperties
<1>2. Written = Over(WrittenAt, 1, n)
  <2>1. WrittenAt = [i \in 1..n |-> WrittenAt[i]]
    BY <1>1 DEF WrittenAt
  <2>2. Written = FlattenSeq(WrittenAt)
    BY DEF Written, WrittenAt
  <2> QED
    BY <2>1, <2>2, OverAll
<1>3. Ink \subseteq Nat /\ \A i \in Ink : 1 <= i /\ i <= n
  BY <1>1, InkType
<1>4. Elements(Frag, SoftAt, 1, n)
  BY <1>1, SoftElements
<1>5. CASE Ink = {}
  <2>1. \A i \in 1..n : WrittenAt[i] = <<>>
    BY <1>1, <1>5 DEF WrittenAt, HeardDash
  <2>2. Written = <<>>
    <3>1. PICK z \in Nat \ {0} : z = 1 /\ z <= n + 1
      OBVIOUS
    <3>2. Over(WrittenAt, z, n) = <<>>
      BY <2>1, <3>1, OverNothing
    <3> QED
      BY <1>2, <3>1, <3>2
  <2>3. Elements(PauseFrag, SoftAt, 1, n)
    BY <1>1, <1>5, SoftPauses
  <2>4. PICK x \in Seq(PauseFrag) : x = Over(SoftAt, 1, n)
    <3>1. Over(SoftAt, 1, n) \in Seq(PauseFrag)
      BY <2>3, OverType
    <3> QED
      BY <3>1
  <2>5. Cat(<<>>, x) = x
    BY CatEmpty
  <2>6. <<>> \in Seq(Frag) /\ ~(Len(<<>>) > 0)
    BY EmptySeq
  <2> QED
    BY <1>1, <2>2, <2>4, <2>5, <2>6
<1>6. CASE Ink # {}
  <2>1. PICK q \in Ink : \A i \in Ink : i <= q
    BY <1>3, <1>6, MaxIs
  <2>2. q \in Nat \ {0} /\ q <= n
    BY <1>3
  <2>3. ASSUME NEW i \in 1..q PROVE SoftAt[i] = WrittenAt[i]
    <3>1. i \in 1..Len(text)
      BY <1>1, <2>2
    <3>2. CASE i \in Ink
      BY <3>1, <3>2 DEF SoftAt, WrittenAt
    <3>3. CASE i \notin Ink
      <4>1. i < q
        BY <2>2, <3>3
      <4>2. HeardDash(i) <=> DashStart(i) /\ \E j \in Ink : j < i
        BY <2>1, <4>1 DEF HeardDash
      <4> QED
        BY <3>1, <3>3, <4>2 DEF SoftAt, WrittenAt
    <3> QED
      BY <3>2, <3>3
  <2>4. PICK p \in Nat : q = p + 1
    <3>1. q - 1 \in Nat /\ q = (q - 1) + 1
      BY <2>2
    <3> QED
      BY <3>1
  <2>5. Elements(Frag, WrittenAt, 1, q) /\ Elements(Frag, WrittenAt, 1, p)
    <3>1. Elements(Frag, SoftAt, 1, q)
      BY <1>1, <2>2, SoftElements
    <3> QED
      BY <2>2, <2>3, <2>4, <3>1 DEF Elements
  <2>6. PICK w \in Seq(Frag) : w = Over(WrittenAt, 1, q)
    <3>1. Over(WrittenAt, 1, q) \in Seq(Frag)
      BY <2>2, <2>5, OverType
    <3> QED
      BY <3>1
  <2>7. ASSUME NEW i \in (q + 1)..n PROVE i \notin Ink /\ WrittenAt[i] = <<>>
    <3>1. i \in 1..Len(text) /\ i > q
      BY <1>1, <2>2
    <3>2. i \notin Ink
      BY <1>3, <2>1, <2>2, <3>1
    <3>3. ~HeardDash(i)
      BY <1>3, <2>1, <2>2, <3>1 DEF HeardDash
    <3> QED
      BY <3>1, <3>2, <3>3 DEF WrittenAt
  <2>8. q + 1 \in Nat \ {0} /\ q + 1 <= n + 1
    BY <2>2
  <2>9. Over(WrittenAt, q + 1, n) = <<>>
    BY <2>7, <2>8, OverNothing
  <2>10. Elements(Frag, WrittenAt, 1, n)
    <3> SUFFICES ASSUME NEW i \in 1..n PROVE WrittenAt[i] \in Seq(Frag)
      BY DEF Elements
    <3>1. i \in 1..q \/ i \in (q + 1)..n
      BY <2>2
    <3> QED
      BY <2>5, <2>7, <3>1, EmptySeq DEF Elements
  <2>11. Written = w
    <3>1. Over(WrittenAt, 1, n) = Cat(Over(WrittenAt, 1, q), Over(WrittenAt, q + 1, n))
      BY <2>2, <2>10, OverSplit
    <3> QED
      BY <1>2, <2>6, <2>9, <3>1, CatEmpty
  <2>12. Over(SoftAt, 1, n) = Cat(w, Over(SoftAt, q + 1, n))
    <3>1. Over(SoftAt, 1, n) = Cat(Over(SoftAt, 1, q), Over(SoftAt, q + 1, n))
      BY <1>4, <2>2, OverSplit
    <3>2. Over(SoftAt, 1, q) = Over(WrittenAt, 1, q)
      BY <2>2, <2>3, OverSame
    <3> QED
      BY <2>6, <3>1, <3>2
  <2>13. PICK x \in Seq(PauseFrag) : x = Over(SoftAt, q + 1, n)
    <3>1. Elements(PauseFrag, SoftAt, q + 1, n)
      BY <1>1, <2>7, <2>8, SoftPauses
    <3>2. Over(SoftAt, q + 1, n) \in Seq(PauseFrag)
      BY <2>8, <3>1, OverType
    <3> QED
      BY <3>2
  <2>14. w[Len(w)] \notin PauseFrag
    <3>1. PICK u \in Seq(Frag), f \in SpokenFrag :
             /\ u = Over(WrittenAt, 1, p)
             /\ f = Spoken(<<text[q]>>)
             /\ <<f>> \in Seq(Frag)
      <4>1. Over(WrittenAt, 1, p) \in Seq(Frag)
        BY <2>5, OverType
      <4>2. Spoken(<<text[q]>>) \in SpokenFrag
        <5>1. text[q] \in Char
          BY InkType, ElementOfSeq
        <5>2. <<text[q]>> \in Seq(Char)
          BY <5>1
        <5> QED
          BY <5>2, SpokenIs
      <4>3. <<Spoken(<<text[q]>>)>> \in Seq(Frag)
        BY <4>2, FragKinds
      <4> QED
        BY <4>1, <4>2, <4>3
    <3>2. WrittenAt[q] = <<f>>
      BY <1>1, <2>2, <3>1 DEF WrittenAt
    <3>3. Over(WrittenAt, 1, p + 1) = Cat(Over(WrittenAt, 1, p), WrittenAt[p + 1])
      BY <2>4, <2>5, OverLast
    <3>4. w = Cat(u, <<f>>)
      BY <2>4, <2>6, <3>1, <3>2, <3>3
    <3>5. PICK k \in Nat : k = Len(u)
      BY LenProperties
    <3>6. Len(<<f>>) = 1 /\ <<f>>[1] = f
      OBVIOUS
    <3>7. Len(w) = k + 1
      BY <3>1, <3>4, <3>5, <3>6, CatLen
    <3>8. w[k + 1] = f
      <4>1. k + 1 \in 1..(Len(u) + Len(<<f>>)) /\ ~(k + 1 <= Len(u)) /\ (k + 1) - Len(u) = 1
        BY <3>5, <3>6
      <4>2. Cat(u, <<f>>)[k + 1] = <<f>>[(k + 1) - Len(u)]
        BY <3>1, <4>1, CatAt
      <4> QED
        BY <3>4, <3>6, <4>1, <4>2
    <3> QED
      BY <3>7, <3>8, FragKinds
  <2> QED
    BY <1>1, <2>11, <2>12, <2>13, <2>14
<1> QED
  BY <1>5, <1>6

-----------------------------------------------------------------------------
(* The places that are spoken, counted                                     *)

LEMMA PlaceElements ==
    ASSUME text \in Seq(Char), NEW m \in Nat \ {0}, NEW n \in Nat, n <= Len(text)
    PROVE  Elements(Nat, PlaceAt, m, n)
<1> SUFFICES ASSUME NEW i \in m..n PROVE PlaceAt[i] \in Seq(Nat)
  BY DEF Elements
<1>1. i \in 1..Len(text) /\ i \in Nat
  BY LenProperties
<1>2. <<i>> \in Seq(Nat) /\ <<>> \in Seq(Nat)
  BY <1>1
<1> QED
  BY <1>1, <1>2 DEF PlaceAt

LEMMA RankType ==
    ASSUME text \in Seq(Char), NEW n \in Nat, n <= Len(text)
    PROVE  Over(PlaceAt, 1, n) \in Seq(Nat) /\ Rank(n) \in Nat
<1>1. Elements(Nat, PlaceAt, 1, n)
  BY PlaceElements
<1>2. Over(PlaceAt, 1, n) \in Seq(Nat)
  BY <1>1, OverType
<1> QED
  BY <1>2, LenProperties DEF Rank

LEMMA RankStep ==
    ASSUME text \in Seq(Char), NEW p \in Nat, p < Len(text)
    PROVE  Rank(p + 1) = IF p + 1 \in Ink THEN Rank(p) + 1 ELSE Rank(p)
<1>1. PICK n \in Nat : n = Len(text)
  BY LenProperties
<1>2. Elements(Nat, PlaceAt, 1, p + 1)
  BY <1>1, PlaceElements
<1>3. Over(PlaceAt, 1, p + 1) = Cat(Over(PlaceAt, 1, p), PlaceAt[p + 1])
  BY <1>2, OverLast
<1>4. Over(PlaceAt, 1, p) \in Seq(Nat)
  BY <1>1, RankType
<1>5. p + 1 \in 1..Len(text) /\ p + 1 \in 1..(p + 1)
  BY <1>1
<1>6. PlaceAt[p + 1] \in Seq(Nat)
  BY <1>2, <1>5 DEF Elements
<1>7. Rank(p + 1) = Rank(p) + Len(PlaceAt[p + 1])
  BY <1>3, <1>4, <1>6, CatLen DEF Rank
<1>8. Rank(p) \in Nat
  BY <1>1, RankType
<1>9. CASE p + 1 \in Ink
  <2>1. PlaceAt[p + 1] = <<p + 1>>
    BY <1>5, <1>9 DEF PlaceAt
  <2>2. Len(PlaceAt[p + 1]) = 1
    BY <2>1
  <2> QED
    BY <1>7, <1>9, <2>2
<1>10. CASE p + 1 \notin Ink
  <2>1. PlaceAt[p + 1] = <<>>
    BY <1>5, <1>10 DEF PlaceAt
  <2>2. Len(PlaceAt[p + 1]) = 0
    BY <2>1
  <2> QED
    BY <1>7, <1>8, <1>10, <2>2
<1> QED
  BY <1>9, <1>10

\* Place i is the one of its rank.
LEMMA PlaceRank ==
    ASSUME text \in Seq(Char), NEW i \in Ink
    PROVE  Place(Rank(i)) = i /\ Rank(i) = Rank(i - 1) + 1
<1>1. PICK n \in Nat : n = Len(text)
  BY LenProperties
<1>2. PICK p \in Nat : i = p + 1 /\ p < n
  <2>1. i \in 1..n
    BY <1>1, InkType
  <2>2. i - 1 \in Nat /\ i = (i - 1) + 1 /\ i - 1 < n
    BY <2>1
  <2> QED
    BY <2>2
<1>3. Rank(i) = Rank(p) + 1
  BY <1>1, <1>2, RankStep
<1>4. Rank(i - 1) = Rank(p)
  BY <1>2
<1>5. Elements(Nat, PlaceAt, 1, n) /\ Elements(Nat, PlaceAt, 1, i) /\ Elements(Nat, PlaceAt, i + 1, n)
  BY <1>1, <1>2, PlaceElements
<1>6. Over(PlaceAt, 1, n) = Cat(Over(PlaceAt, 1, i), Over(PlaceAt, i + 1, n))
  <2>1. i \in Nat /\ 1 <= i + 1 /\ i <= n
    BY <1>2
  <2> QED
    BY <1>5, <2>1, OverSplit
<1>7. Over(PlaceAt, 1, p + 1) = Cat(Over(PlaceAt, 1, p), PlaceAt[p + 1])
  BY <1>2, <1>5, OverLast
<1>8. PICK u \in Seq(Nat), v \in Seq(Nat), w \in Seq(Nat) :
         u = Over(PlaceAt, 1, p) /\ v = Over(PlaceAt, 1, i) /\ w = Over(PlaceAt, i + 1, n)
  <2>1. Over(PlaceAt, 1, p) \in Seq(Nat) /\ Over(PlaceAt, 1, i) \in Seq(Nat)
    BY <1>1, <1>2, RankType
  <2>2. i + 1 \in Nat /\ i + 1 <= n + 1
    BY <1>2
  <2>3. Over(PlaceAt, i + 1, n) \in Seq(Nat)
    BY <1>5, <2>2, OverType
  <2> QED
    BY <2>1, <2>3
<1>9. PICK x \in Seq(Nat) : x = <<i>> /\ Len(x) = 1 /\ x[1] = i
  <2>1. i \in Nat
    BY <1>2
  <2>2. <<i>> \in Seq(Nat)
    BY <2>1
  <2>3. Len(<<i>>) = 1 /\ <<i>>[1] = i
    OBVIOUS
  <2> QED
    BY <2>2, <2>3
<1>10. PlaceAt[p + 1] = x
  <2>1. i \in 1..Len(text)
    BY InkType
  <2> QED
    BY <1>2, <1>9, <2>1 DEF PlaceAt
<1>11. v = Cat(u, x)
  BY <1>2, <1>7, <1>8, <1>10
<1>12. PICK k \in Nat, l \in Nat : k = Len(u) /\ l = Len(w)
  BY LenProperties
<1>13. Len(v) = k + 1
  BY <1>9, <1>11, <1>12, CatLen
<1>14. v[k + 1] = i
  <2>1. k + 1 \in 1..(Len(u) + Len(x)) /\ ~(k + 1 <= Len(u)) /\ (k + 1) - Len(u) = 1
    BY <1>9, <1>12
  <2>2. Cat(u, x)[k + 1] = x[(k + 1) - Len(u)]
    BY <2>1, CatAt
  <2> QED
    BY <1>9, <1>11, <2>1, <2>2
<1>15. Cat(v, w)[k + 1] = v[k + 1]
  <2>1. k + 1 \in 1..(Len(v) + Len(w)) /\ k + 1 <= Len(v)
    BY <1>12, <1>13
  <2> QED
    BY <2>1, CatAt
<1>16. Place(k + 1) = Over(PlaceAt, 1, n)[k + 1]
  <2>1. PlaceAt = [j \in 1..n |-> PlaceAt[j]]
    BY <1>1 DEF PlaceAt
  <2>2. FlattenSeq(PlaceAt) = Over(PlaceAt, 1, n)
    BY <2>1, OverAll
  <2> QED
    BY <2>2, Zenon DEF Place, PlaceAt
<1>17. Rank(i) = k + 1
  BY <1>8, <1>13 DEF Rank
<1> QED
  BY <1>3, <1>4, <1>6, <1>8, <1>14, <1>15, <1>16, <1>17

\* Without dashes all that is not white is spoken.
LEMMA PlainAt ==
    ASSUME text \in Seq(Char), NEW i \in 1..Len(text), ~InDash(i)
    PROVE  SoftAt[i] = SaidBy(text)[i] /\ Len(PlaceAt[i]) = Len(SaidBy(text)[i])
<1>1. i \in Ink <=> text[i] \notin White
  BY InkType
<1>2. CASE i \in Ink
  <2>1. SoftAt[i] = <<Spoken(<<text[i]>>)>>
    BY <1>2 DEF SoftAt
  <2>2. SaidBy(text)[i] = <<Spoken(<<text[i]>>)>>
    BY <1>1, <1>2 DEF SaidBy
  <2>3. PlaceAt[i] = <<i>>
    BY <1>2 DEF PlaceAt
  <2>4. Len(<<i>>) = 1 /\ Len(<<Spoken(<<text[i]>>)>>) = 1
    OBVIOUS
  <2> QED
    BY <2>1, <2>2, <2>3, <2>4
<1>3. CASE i \notin Ink
  <2>1. ~DashStart(i)
    BY DEF DashStart
  <2>2. SoftAt[i] = <<>>
    BY <1>3, <2>1 DEF SoftAt
  <2>3. SaidBy(text)[i] = <<>>
    BY <1>1, <1>3 DEF SaidBy
  <2>4. PlaceAt[i] = <<>>
    BY <1>3 DEF PlaceAt
  <2> QED
    BY <2>2, <2>3, <2>4
<1> QED
  BY <1>2, <1>3

LEMMA PlainStretch ==
    ASSUME text \in Seq(Char), NEW p \in Nat, NEW n \in Nat, p <= n, n <= Len(text),
           \A i \in (p + 1)..n : ~InDash(i)
    PROVE  /\ Over(SoftAt, 1, n) = Cat(Over(SoftAt, 1, p), Said(SubSeq(text, p + 1, n)))
           /\ Rank(n) = Rank(p) + Len(Said(SubSeq(text, p + 1, n)))
<1>1. Len(text) \in Nat
  BY LenProperties
<1>2. PICK m \in Nat \ {0} : m = p + 1
  OBVIOUS
<1>3. m <= n + 1 /\ m..n \subseteq 1..Len(text) /\ \A i \in m..n : ~InDash(i)
  BY <1>1, <1>2
<1>4. \A i \in m..n : SoftAt[i] = SaidBy(text)[i] /\ Len(PlaceAt[i]) = Len(SaidBy(text)[i])
  BY <1>3, PlainAt
<1>5. Over(SoftAt, m, n) = Over(SaidBy(text), m, n)
  BY <1>4, OverSame
<1>6. Elements(SpokenFrag, SaidBy(text), m, n) /\ Elements(Nat, PlaceAt, m, n)
  BY SaidByElements, PlaceElements
<1>7. Len(Over(PlaceAt, m, n)) = Len(Over(SaidBy(text), m, n))
  BY <1>3, <1>4, <1>6, OverLen
<1>8. Said(SubSeq(text, m, n)) = Over(SaidBy(text), m, n)
  BY <1>3, SaidStretch
<1>9. Over(SoftAt, 1, n) = Cat(Over(SoftAt, 1, p), Over(SoftAt, p + 1, n))
  BY SoftElements, OverSplit
<1>10. Over(PlaceAt, 1, n) = Cat(Over(PlaceAt, 1, p), Over(PlaceAt, p + 1, n))
  BY PlaceElements, OverSplit
<1>11. Over(PlaceAt, 1, p) \in Seq(Nat) /\ Over(PlaceAt, m, n) \in Seq(Nat)
  BY <1>1, <1>3, <1>6, RankType, OverType
<1>12. Rank(n) = Rank(p) + Len(Over(PlaceAt, m, n))
  BY <1>2, <1>10, <1>11, CatLen DEF Rank
<1> QED
  BY <1>2, <1>5, <1>7, <1>8, <1>9, <1>12

\* White space is not spoken.
LEMMA BlankStretch ==
    ASSUME text \in Seq(Char), NEW p \in Nat, NEW n \in Nat, p <= n, n <= Len(text),
           Blank(text, p + 1, n)
    PROVE  /\ Over(SoftAt, 1, n) = Over(SoftAt, 1, p)
           /\ Rank(n) = Rank(p)
           /\ \A i \in (p + 1)..n : ~InDash(i) /\ i \notin Ink
<1>1. \A i \in (p + 1)..n : ~InDash(i) /\ i \notin Ink
  <2> SUFFICES ASSUME NEW i \in (p + 1)..n PROVE ~InDash(i) /\ i \notin Ink
    OBVIOUS
  <2>1. text[i] \in White
    BY DEF Blank
  <2> QED
    BY <2>1, InkType DEF InDash, White, LongDash
<1>2. PICK t \in Seq(Char) : t = SubSeq(text, p + 1, n)
  <2>1. SubSeq(text, p + 1, n) \in Seq(Char)
    BY SubType
  <2> QED
    BY <2>1
<1>3. Said(t) = <<>>
  <2>1. PICK m \in Nat \ {0} : m = p + 1
    OBVIOUS
  <2>2. \A i \in m..n : SaidBy(text)[i] = <<>>
    <3> SUFFICES ASSUME NEW i \in m..n PROVE SaidBy(text)[i] = <<>>
      OBVIOUS
    <3>1. text[i] \in White
      BY <2>1 DEF Blank
    <3>2. i \in 1..Len(text)
      BY <2>1, LenProperties
    <3> QED
      BY <3>1, <3>2 DEF SaidBy
  <2>3. m <= n + 1
    BY <2>1
  <2>4. Over(SaidBy(text), m, n) = <<>>
    BY <2>2, <2>3, OverNothing
  <2> QED
    BY <1>2, <2>1, <2>3, <2>4, SaidStretch
<1>4. Over(SoftAt, 1, n) = Cat(Over(SoftAt, 1, p), <<>>)
  BY <1>1, <1>2, <1>3, PlainStretch
<1>5. Over(SoftAt, 1, p) \in Seq(Frag)
  <2>1. p <= Len(text)
    BY LenProperties
  <2>2. Elements(Frag, SoftAt, 1, p)
    BY <2>1, SoftElements
  <2> QED
    BY <2>2, OverType
<1>6. Cat(Over(SoftAt, 1, p), <<>>) = Over(SoftAt, 1, p)
  BY <1>5, CatEmpty
<1>7. Rank(n) = Rank(p) + Len(<<>>)
  BY <1>1, <1>2, <1>3, PlainStretch
<1>8. Rank(p) \in Nat /\ Len(<<>>) = 0
  BY RankType, LenProperties, EmptySeq
<1> QED
  BY <1>1, <1>4, <1>6, <1>7, <1>8

-----------------------------------------------------------------------------
(* What the fragments say                                                  *)

HeardBy(o) == [i \in 1..Len(o) |-> IF IsSpoken(o[i]) THEN Said(o[i].text) ELSE <<o[i]>>]
HeardOf(o) == FlattenSeq(HeardBy(o))

\* How many of those before the i-th are spoken, and how many characters those up
\* to the i-th speak.
CountOf(o, i) == Cardinality({j \in 1..(i - 1) : IsSpoken(o[j])})
CharsOf(o, i) == Len(FlattenSeq([j \in 1..i |-> Said(o[j].text)]))

LEMMA AppendIs ==
    ASSUME NEW S, NEW s \in Seq(S), NEW x \in S
    PROVE  /\ Append(s, x) \in Seq(S)
           /\ Len(Append(s, x)) = Len(s) + 1
           /\ \A i \in 1..Len(s) : Append(s, x)[i] = s[i]
           /\ Append(s, x)[Len(s) + 1] = x
BY AppendProperties, LenProperties

\* Any sequence is its front and its last element.
LEMMA FrontLast ==
    ASSUME NEW S, NEW s \in Seq(S), Len(s) > 0
    PROVE  \E t \in Seq(S), x \in S :
              /\ t = SubSeq(s, 1, Len(s) - 1)
              /\ x = s[Len(s)]
              /\ s = Append(t, x)
              /\ Len(s) = Len(t) + 1
<1>1. PICK k \in Nat : Len(s) = k + 1
  <2>1. Len(s) \in Nat
    BY LenProperties
  <2>2. Len(s) - 1 \in Nat /\ Len(s) = (Len(s) - 1) + 1
    BY <2>1
  <2> QED
    BY <2>2
<1>2. PICK t \in Seq(S) : t = SubSeq(s, 1, k)
  <2>1. SubSeq(s, 1, k) \in Seq(S)
    BY <1>1, SubType
  <2> QED
    BY <2>1
<1>3. Len(t) = k
  <2>1. Len(t) = k - 1 + 1
    BY <1>1, <1>2, SubLen
  <2> QED
    BY <2>1
<1>4. ASSUME NEW i \in 1..k PROVE t[i] = s[i]
  <2>1. i \in 1..(k - 1 + 1) /\ 1 + i - 1 = i /\ k <= Len(s)
    BY <1>1
  <2>2. t[i] = s[1 + i - 1]
    BY <1>2, <2>1, SubAt
  <2> QED
    BY <2>1, <2>2
<1>5. PICK x \in S : x = s[k + 1]
  <2>1. k + 1 \in 1..Len(s)
    BY <1>1
  <2> QED
    BY <2>1, ElementOfSeq
<1>6. PICK u \in Seq(S) : u = Append(t, x)
  BY AppendIs
<1>7. Len(u) = k + 1 /\ u[k + 1] = x /\ \A i \in 1..k : u[i] = t[i]
  BY <1>3, <1>6, AppendIs
<1>8. ASSUME NEW i \in 1..Len(s) PROVE s[i] = u[i]
  <2>1. i \in 1..k \/ i = k + 1
    BY <1>1
  <2> QED
    BY <1>4, <1>5, <1>7, <2>1
<1>9. s = u
  BY <1>1, <1>7, <1>8, SeqEqual
<1>10. Len(s) - 1 = k
  BY <1>1
<1> QED
  BY <1>1, <1>2, <1>3, <1>5, <1>6, <1>9, <1>10

LEMMA FragIs ==
    ASSUME NEW f \in Frag
    PROVE  /\ f.text \in Seq(Char) /\ Said(f.text) \in Seq(SpokenFrag)
           /\ Said(f.text) \in Seq(Frag)
           /\ <<f>> \in Seq(Frag)
<1>1. f.text \in Seq(Char)
  BY DEF Frag
<1>2. Said(f.text) \in Seq(SpokenFrag)
  BY <1>1, SaidIs
<1>3. Said(f.text) \in Seq(Frag)
  BY <1>2, FragKinds, SeqMore
<1>4. <<f>> \in Seq(Frag)
  OBVIOUS
<1> QED
  BY <1>1, <1>2, <1>3, <1>4

LEMMA HeardByElements ==
    ASSUME NEW o \in Seq(Frag), NEW m \in Nat \ {0}, NEW n \in Nat, n <= Len(o)
    PROVE  Elements(Frag, HeardBy(o), m, n)
<1> SUFFICES ASSUME NEW i \in m..n PROVE HeardBy(o)[i] \in Seq(Frag)
  BY DEF Elements
<1>1. i \in 1..Len(o) /\ o[i] \in Frag
  BY LenProperties, ElementOfSeq
<1>2. Said(o[i].text) \in Seq(Frag) /\ <<o[i]>> \in Seq(Frag)
  BY <1>1, FragIs
<1> QED
  BY <1>1, <1>2 DEF HeardBy

LEMMA HeardIs ==
    ASSUME NEW o \in Seq(Frag)
    PROVE  HeardOf(o) = Over(HeardBy(o), 1, Len(o)) /\ HeardOf(o) \in Seq(Frag)
<1>1. PICK n \in Nat : n = Len(o)
  BY LenProperties
<1>2. HeardBy(o) = [i \in 1..n |-> HeardBy(o)[i]]
  BY <1>1 DEF HeardBy
<1>3. HeardOf(o) = Over(HeardBy(o), 1, n)
  BY <1>2, OverAll DEF HeardOf
<1>4. Elements(Frag, HeardBy(o), 1, n)
  BY <1>1, HeardByElements
<1>5. Over(HeardBy(o), 1, n) \in Seq(Frag)
  BY <1>4, OverType
<1> QED
  BY <1>1, <1>3, <1>5

\* One more fragment says one more thing.
LEMMA HeardAppend ==
    ASSUME NEW o \in Seq(Frag), NEW f \in Frag
    PROVE  /\ IsSpoken(f) => HeardOf(Append(o, f)) = Cat(HeardOf(o), Said(f.text))
           /\ ~IsSpoken(f) => HeardOf(Append(o, f)) = Cat(HeardOf(o), <<f>>)
<1>1. PICK n \in Nat : n = Len(o)
  BY LenProperties
<1>2. PICK q \in Seq(Frag) : q = Append(o, f)
  BY AppendIs
<1>3. Len(q) = n + 1 /\ q[n + 1] = f /\ \A i \in 1..n : q[i] = o[i]
  BY <1>1, <1>2, AppendIs
<1>4. HeardOf(q) = Over(HeardBy(q), 1, n + 1) /\ HeardOf(o) = Over(HeardBy(o), 1, n)
  BY <1>1, <1>3, HeardIs
<1>5. Elements(Frag, HeardBy(q), 1, n + 1)
  BY <1>3, HeardByElements
<1>6. Over(HeardBy(q), 1, n + 1) = Cat(Over(HeardBy(q), 1, n), HeardBy(q)[n + 1])
  BY <1>5, OverLast
<1>7. Over(HeardBy(q), 1, n) = Over(HeardBy(o), 1, n)
  <2>1. ASSUME NEW i \in 1..n PROVE HeardBy(q)[i] = HeardBy(o)[i]
    <3>1. i \in 1..Len(q) /\ i \in 1..Len(o)
      BY <1>1, <1>3
    <3> QED
      BY <1>3, <3>1 DEF HeardBy
  <2> QED
    BY <2>1, OverSame
<1>8. n + 1 \in 1..Len(q)
  BY <1>3
<1>9. CASE IsSpoken(f)
  <2>1. HeardBy(q)[n + 1] = Said(f.text)
    BY <1>3, <1>8, <1>9 DEF HeardBy
  <2> QED
    BY <1>2, <1>4, <1>6, <1>7, <1>9, <2>1
<1>10. CASE ~IsSpoken(f)
  <2>1. HeardBy(q)[n + 1] = <<f>>
    BY <1>3, <1>8, <1>10 DEF HeardBy
  <2> QED
    BY <1>2, <1>4, <1>6, <1>7, <1>10, <2>1
<1> QED
  BY <1>9, <1>10

LEMMA HeardNothing == HeardOf(<<>>) = <<>>
<1>1. Len(<<>>) = 0
  BY EmptySeq
<1>2. HeardBy(<<>>) = <<>>
  BY <1>1 DEF HeardBy
<1> QED
  BY <1>2, FlattenEmpty DEF HeardOf

LEMMA CountIs ==
    ASSUME NEW o, NEW i \in Nat \ {0}
    PROVE  /\ CountOf(o, i) \in Nat
           /\ CountOf(o, i + 1) = IF IsSpoken(o[i]) THEN CountOf(o, i) + 1 ELSE CountOf(o, i)
<1> DEFINE J(k) == {j \in 1..(k - 1) : IsSpoken(o[j])}
<1>1. IsFiniteSet(1..(i - 1))
  BY FS_Interval
<1>2. J(i) \in SUBSET (1..(i - 1))
  OBVIOUS
<1>3. IsFiniteSet(J(i))
  BY <1>1, <1>2, FS_Subset
<1>4. Cardinality(J(i)) \in Nat
  BY <1>3, FS_CardinalityType
<1>5. CASE IsSpoken(o[i])
  <2>1. J(i + 1) = J(i) \cup {i}
    BY <1>5
  <2>2. i \notin J(i)
    OBVIOUS
  <2> HIDE DEF J
  <2>3. Cardinality(J(i + 1)) = Cardinality(J(i)) + 1
    BY <1>3, <2>1, <2>2, FS_AddElement
  <2> QED
    BY <1>4, <1>5, <2>3 DEF CountOf, J
<1>6. CASE ~IsSpoken(o[i])
  <2>1. J(i + 1) = J(i)
    <3>1. \A j \in 1..((i + 1) - 1) : j \in 1..(i - 1) \/ j = i
      OBVIOUS
    <3>2. 1..(i - 1) \subseteq 1..((i + 1) - 1)
      OBVIOUS
    <3> QED
      BY <1>6, <3>1, <3>2
  <2> HIDE DEF J
  <2> QED
    BY <1>4, <1>6, <2>1 DEF CountOf, J
<1> QED
  BY <1>5, <1>6

LEMMA CountSame ==
    ASSUME NEW o, NEW q, NEW i \in Nat \ {0}, \A j \in 1..(i - 1) : o[j] = q[j]
    PROVE  CountOf(o, i) = CountOf(q, i)
<1>1. {j \in 1..(i - 1) : IsSpoken(o[j])} = {j \in 1..(i - 1) : IsSpoken(q[j])}
  OBVIOUS
<1> QED
  BY <1>1 DEF CountOf

LEMMA CountNone ==
    ASSUME NEW o
    PROVE  CountOf(o, 1) = 0
<1>1. {j \in 1..(1 - 1) : IsSpoken(o[j])} = {}
  OBVIOUS
<1> QED
  BY <1>1, FS_EmptySet DEF CountOf

LEMMA CharsSame ==
    ASSUME NEW o, NEW q, NEW i \in Nat, \A j \in 1..i : o[j] = q[j]
    PROVE  CharsOf(o, i) = CharsOf(q, i)
<1>1. [j \in 1..i |-> Said(o[j].text)] = [j \in 1..i |-> Said(q[j].text)]
  OBVIOUS
<1> QED
  BY <1>1, Zenon DEF CharsOf

LEMMA CharsNone ==
    ASSUME NEW o
    PROVE  CharsOf(o, 0) = 0
<1>1. [j \in 1..0 |-> Said(o[j].text)] = <<>>
  OBVIOUS
<1> QED
  BY <1>1, FlattenEmpty, EmptySeq DEF CharsOf

LEMMA CharsIs ==
    ASSUME NEW o \in Seq(Frag), NEW i \in Nat, i < Len(o)
    PROVE  /\ CharsOf(o, i) \in Nat
           /\ CharsOf(o, i + 1) = CharsOf(o, i) + Len(Said(o[i + 1].text))
<1>1. PICK n \in Nat : n = Len(o)
  BY LenProperties
<1> DEFINE h == [j \in 1..n |-> Said(o[j].text)]
<1>2. ASSUME NEW j \in 1..n PROVE h[j] = Said(o[j].text) /\ h[j] \in Seq(SpokenFrag)
  <2>1. o[j] \in Frag
    BY <1>1, ElementOfSeq
  <2> QED
    BY <2>1, FragIs
<1>3. ASSUME NEW k \in Nat, k <= n PROVE CharsOf(o, k) = Len(Over(h, 1, k))
  <2>1. k - 1 + 1 = k /\ \A j \in 1..k : 1 + j - 1 = j /\ j \in 1..n
    BY <1>3
  <2>2. Row(h, 1, k) = [j \in 1..k |-> Said(o[j].text)]
    BY <1>2, <2>1 DEF Row
  <2> QED
    BY <2>2, Zenon DEF CharsOf, Over
<1> HIDE DEF h
<1>4. i + 1 \in Nat /\ i + 1 <= n /\ i <= n /\ i + 1 \in 1..n
  BY <1>1
<1>5. Elements(SpokenFrag, h, 1, i) /\ Elements(SpokenFrag, h, 1, i + 1)
  BY <1>2, <1>4 DEF Elements
<1>6. Over(h, 1, i + 1) = Cat(Over(h, 1, i), h[i + 1])
  BY <1>5, OverLast
<1>7. Over(h, 1, i) \in Seq(SpokenFrag)
  BY <1>5, OverType
<1>8. Len(Over(h, 1, i + 1)) = Len(Over(h, 1, i)) + Len(h[i + 1])
  BY <1>2, <1>4, <1>6, <1>7, CatLen
<1>9. Len(Over(h, 1, i)) \in Nat
  BY <1>7, LenProperties
<1> QED
  BY <1>2, <1>3, <1>4, <1>8, <1>9

-----------------------------------------------------------------------------
(* Caps and cuts                                                           *)

LEMMA Products ==
    ASSUME NEW a \in Nat \ {0}, NEW b \in Nat \ {0}
    PROVE  a * b \in Nat \ {0}
OBVIOUS

Powers(a, k, g) ==
    g = [i \in 0..k |-> IF i = 0 THEN 1 ELSE a * g[i - 1]]

LEMMA PowersExist ==
    ASSUME NEW a \in Nat \ {0}, NEW k \in Nat
    PROVE  \E g : Powers(a, k, g)
<1> DEFINE K == {n \in Nat : \E g : Powers(a, n, g)}
<1>1. 0 \in K
  <2> DEFINE g == [i \in 0..0 |-> 1]
  <2>1. g = [i \in 0..0 |-> IF i = 0 THEN 1 ELSE a * g[i - 1]]
    OBVIOUS
  <2>2. Powers(a, 0, g)
    BY <2>1, Zenon DEF Powers
  <2> QED
    BY <2>2
<1>2. ASSUME NEW n \in Nat, n \in K PROVE n + 1 \in K
  <2>1. PICK g : Powers(a, n, g)
    BY <1>2
  <2> DEFINE h == [i \in 0..(n + 1) |-> IF i = n + 1 THEN a * g[n] ELSE g[i]]
  <2>2. ASSUME NEW i \in 0..(n + 1) PROVE h[i] = IF i = 0 THEN 1 ELSE a * h[i - 1]
    <3>1. \A j \in 0..n : g[j] = IF j = 0 THEN 1 ELSE a * g[j - 1]
      BY <2>1 DEF Powers
    <3>2. CASE i = 0
      <4>1. 0 \in 0..n /\ 0 # n + 1
        OBVIOUS
      <4> QED
        BY <3>1, <3>2, <4>1
    <3>3. CASE i = n + 1
      <4>1. i # 0 /\ i - 1 = n /\ n \in 0..(n + 1) /\ n # n + 1
        BY <3>3
      <4> QED
        BY <3>3, <4>1
    <3>4. CASE i # 0 /\ i # n + 1
      <4>1. i \in 0..n /\ i - 1 \in 0..(n + 1) /\ i - 1 # n + 1
        BY <3>4
      <4>2. g[i] = a * g[i - 1]
        BY <3>1, <3>4, <4>1
      <4>3. h[i] = g[i] /\ h[i - 1] = g[i - 1]
        BY <3>4, <4>1
      <4> QED
        BY <3>4, <4>2, <4>3
    <3> QED
      BY <3>2, <3>3, <3>4
  <2>3. h = [i \in 0..(n + 1) |-> h[i]]
    OBVIOUS
  <2> HIDE DEF h
  <2>4. Powers(a, n + 1, h)
    BY <2>2, <2>3 DEF Powers
  <2>5. n + 1 \in Nat
    OBVIOUS
  <2> QED
    BY <2>4, <2>5
<1> HIDE DEF K
<1>3. k \in K
  BY <1>1, <1>2, Induct
<1> QED
  BY <1>3 DEF K

LEMMA PowerIs ==
    ASSUME NEW a \in Nat \ {0}, NEW k \in Nat
    PROVE  Power(a, k) \in Nat \ {0}
<1> DEFINE p == CHOOSE g : Powers(a, k, g)
<1>1. Powers(a, k, p)
  BY PowersExist
<1>2. Power(a, k) = p[k]
  BY Zenon DEF Power, Powers
<1> HIDE DEF p
<1>3. \A i \in 0..k : p[i] = IF i = 0 THEN 1 ELSE a * p[i - 1]
  BY <1>1 DEF Powers
<1> DEFINE K == {n \in Nat : n <= k => p[n] \in Nat \ {0}}
<1>4. 0 \in K
  BY <1>3
<1>5. ASSUME NEW n \in Nat, n \in K PROVE n + 1 \in K
  <2> SUFFICES ASSUME n + 1 <= k PROVE p[n + 1] \in Nat \ {0}
    OBVIOUS
  <2>1. n + 1 \in 0..k /\ n + 1 # 0 /\ (n + 1) - 1 = n
    OBVIOUS
  <2>2. p[n + 1] = a * p[n]
    BY <1>3, <2>1
  <2>3. p[n] \in Nat \ {0}
    BY <1>5
  <2> QED
    BY <2>2, <2>3, Products
<1> HIDE DEF K
<1>6. k \in K
  BY <1>4, <1>5, Induct
<1> QED
  BY <1>2, <1>6 DEF K

LEMMA CeilDivIs ==
    ASSUME NEW a \in Nat \ {0}, NEW b \in Nat \ {0}
    PROVE  CeilDiv(a, b) \in Nat \ {0}
<1>1. PICK c \in Nat \ {0} : c = a + b - 1 /\ c >= b
  <2>1. a + b - 1 \in Nat \ {0} /\ a + b - 1 >= b
    OBVIOUS
  <2> QED
    BY <2>1
<1>2. c \div b \in Nat \ {0}
  BY <1>1
<1> QED
  BY <1>1, <1>2 DEF CeilDiv

\* No cap is zero or above max_chars.
LEMMA CapIs ==
    ASSUME NEW k \in Nat
    PROVE  Cap(k) \in 1..MaxChars
<1> USE FragmentsAssumption
<1>1. CASE ~ramp
  BY <1>1 DEF Cap
<1>2. CASE ramp
  <2>1. GrowthNum \in Nat \ {0}
    OBVIOUS
  <2>2. Power(GrowthNum, k) \in Nat \ {0} /\ Power(GrowthDen, k) \in Nat \ {0}
    BY <2>1, PowerIs
  <2>3. First * Power(GrowthNum, k) \in Nat \ {0}
    BY <2>2, Products
  <2>4. PICK c \in Nat \ {0} : c = CeilDiv(First * Power(GrowthNum, k), Power(GrowthDen, k))
    BY <2>2, <2>3, CeilDivIs
  <2>5. {MaxChars, c} \subseteq Nat /\ {MaxChars, c} # {}
    OBVIOUS
  <2>6. Min({MaxChars, c}) \in {MaxChars, c} /\ \A n \in {MaxChars, c} : Min({MaxChars, c}) <= n
    BY <2>5, MinIs
  <2>7. Cap(k) = Min({MaxChars, c})
    BY <1>2, <2>4 DEF Cap
  <2> QED
    BY <2>6, <2>7
<1> QED
  BY <1>1, <1>2

(***************************************************************************)
(* What a cut leaves whole: it falls before white space, unless the limit  *)
(* has no space; and it falls after a clause or at the last space.         *)
(***************************************************************************)
LEMMA BoundaryIs ==
    ASSUME NEW S, NEW t \in Seq(S), NEW limit \in Nat \ {0}, limit < Len(t)
    PROVE  \E k \in 1..limit :
              /\ Boundary(t, limit) = k
              /\ \/ /\ k < limit
                    /\ t[k] \in ClauseEnd /\ t[k + 1] \in White
                    /\ k - 1 >= limit \div 2
                 \/ /\ t[k + 1] = " "
                    /\ \A i \in (k + 2)..limit : t[i] # " "
                 \/ /\ k = limit
                    /\ \A i \in 2..limit : t[i] # " "
<1> DEFINE spaces == {i \in 2..limit : t[i] = " "}
           clauses == {i \in 1..(limit - 1) :
                          t[i] \in ClauseEnd /\ t[i + 1] \in White /\ i - 1 >= limit \div 2}
<1>1. Boundary(t, limit) = IF clauses # {} THEN Max(clauses)
                           ELSE IF spaces # {} THEN Max(spaces) - 1
                           ELSE limit
  BY Zenon DEF Boundary
<1>2. spaces \subseteq 2..limit
  OBVIOUS
<1>3. \A i \in spaces : t[i] = " "
  OBVIOUS
<1>4. \A i \in 2..limit : t[i] = " " => i \in spaces
  OBVIOUS
<1>5. \A i \in clauses :
         /\ i \in 1..(limit - 1)
         /\ t[i] \in ClauseEnd /\ t[i + 1] \in White
         /\ i - 1 >= limit \div 2
  BY Zenon
<1> HIDE DEF clauses, spaces
<1>6. CASE clauses # {}
  <2>1. clauses \subseteq Nat /\ \A i \in clauses : i <= limit
    BY <1>5
  <2>2. PICK k \in clauses : k = Max(clauses)
    BY <1>6, <2>1, MaxIs
  <2>3. k \in 1..(limit - 1) /\ t[k] \in ClauseEnd /\ t[k + 1] \in White /\ k - 1 >= limit \div 2
    BY <1>5, Zenon
  <2>4. Boundary(t, limit) = k
    BY <1>1, <1>6, <2>2, Zenon
  <2>5. k \in 1..limit /\ k < limit
    BY <2>3
  <2> QED
    BY <2>3, <2>4, <2>5, Zenon
<1>7. CASE clauses = {} /\ spaces # {}
  <2>1. spaces \subseteq Nat /\ \A i \in spaces : i <= limit
    BY <1>2
  <2>2. PICK m \in spaces : m = Max(spaces) /\ \A i \in spaces : i <= m
    BY <1>7, <2>1, MaxIs
  <2>3. m \in 2..limit
    BY <1>2
  <2>4. t[m] = " "
    BY <1>3, Zenon
  <2>5. PICK k \in 1..limit : m = k + 1 /\ k = m - 1
    <3>1. m - 1 \in 1..limit /\ m = (m - 1) + 1
      BY <2>3
    <3> QED
      BY <3>1
  <2>6. Boundary(t, limit) = k
    BY <1>1, <1>7, <2>2, <2>5, Zenon
  <2>7. t[k + 1] = " "
    BY <2>5, <2>4, Zenon
  <2>8. ASSUME NEW i \in (k + 2)..limit, t[i] = " " PROVE FALSE
    <3>1. i \in 2..limit /\ ~(i <= m)
      BY <2>5
    <3>2. i \in spaces
      BY <1>4, <2>8, <3>1
    <3> QED
      BY <2>2, <3>1, <3>2
  <2>9. \A i \in (k + 2)..limit : t[i] # " "
    BY <2>8
  <2> QED
    BY <2>6, <2>7, <2>9, Zenon
<1>8. CASE clauses = {} /\ spaces = {}
  <2>1. \A i \in 2..limit : t[i] # " "
    BY <1>4, <1>8
  <2>2. Boundary(t, limit) = limit
    BY <1>1, <1>8, Zenon
  <2>3. limit \in 1..limit
    OBVIOUS
  <2> QED
    BY <2>1, <2>2, <2>3, Zenon
<1> QED
  BY <1>6, <1>7, <1>8, Zenon

\* Place e of the text is the first of those at Places in the stretch from m to n.
FirstPlace(Places, m, n, e) ==
    /\ (Places = {} /\ e = n) \/ e - m + 1 \in Places
    /\ \A i \in Places : e - m + 1 <= i

\* A stretch is taken up to the first of the places, and the rest goes on there.
LEMMA UptoIs ==
    ASSUME NEW S, NEW s \in Seq(S), NEW m \in Nat \ {0}, NEW n \in Nat, m <= n + 1, n <= Len(s),
           NEW Places \in SUBSET (1..(n - m + 1))
    PROVE  \E e \in Nat :
              /\ m <= e + 1 /\ e <= n
              /\ Upto(SubSeq(s, m, n), Places) = SubSeq(s, m, e)
              /\ After(SubSeq(s, m, n), Places) = SubSeq(s, e + 1, n)
              /\ FirstPlace(Places, m, n, e)
<1>1. PICK t \in Seq(S) : t = SubSeq(s, m, n)
  <2>1. SubSeq(s, m, n) \in Seq(S)
    BY SubType
  <2> QED
    BY <2>1
<1>2. Len(t) = n - m + 1
  BY <1>1, SubLen
<1>3. CASE Places = {}
  <2>1. Upto(t, Places) = t /\ After(t, Places) = <<>>
    BY <1>3 DEF Upto, After
  <2>2. SubSeq(s, n + 1, n) = <<>>
    BY SubNone
  <2>3. n <= n /\ FirstPlace(Places, m, n, n)
    BY <1>3 DEF FirstPlace
  <2> QED
    BY <1>1, <1>3, <2>1, <2>2, <2>3, Zenon
<1>4. CASE Places # {}
  <2>1. Places \subseteq Nat
    OBVIOUS
  <2>2. PICK k \in Places : k = Min(Places) /\ \A i \in Places : k <= i
    BY <1>4, <2>1, MinIs
  <2>3. k \in 1..(n - m + 1)
    OBVIOUS
  <2>4. PICK e \in Nat : e = m + k - 1
    BY <2>3
  <2>5. m <= e /\ e <= n /\ e - m + 1 = k
    BY <2>3, <2>4
  <2>6. Upto(t, Places) = SubSeq(t, 1, k)
    BY <1>4, <2>2 DEF Upto
  <2>7. After(t, Places) = SubSeq(t, k + 1, n - m + 1)
    BY <1>2, <1>4, <2>2 DEF After, From
  <2>8. SubSeq(t, 1, k) = SubSeq(s, m, e)
    <3>1. PICK o \in Nat \ {0} : o = 1
      OBVIOUS
    <3>2. o <= k + 1 /\ k <= n - m + 1 /\ m + o - 1 = m /\ m + k - 1 = e /\ k \in Nat
      BY <2>3, <2>4, <3>1
    <3>3. SubSeq(SubSeq(s, m, n), o, k) = SubSeq(s, m + o - 1, m + k - 1)
      BY <3>2, SubSub
    <3> QED
      BY <1>1, <3>1, <3>2, <3>3
  <2>9. SubSeq(t, k + 1, n - m + 1) = SubSeq(s, e + 1, n)
    <3>1. PICK x \in Nat \ {0}, y \in Nat : x = k + 1 /\ y = n - m + 1
      BY <2>3
    <3>2. x <= y + 1 /\ y <= n - m + 1 /\ m + x - 1 = e + 1 /\ m + y - 1 = n
      BY <2>3, <2>4, <3>1
    <3>3. SubSeq(SubSeq(s, m, n), x, y) = SubSeq(s, m + x - 1, m + y - 1)
      BY <3>2, SubSub
    <3> QED
      BY <1>1, <3>1, <3>2, <3>3
  <2>10. m <= e + 1 /\ FirstPlace(Places, m, n, e)
    BY <2>2, <2>5 DEF FirstPlace
  <2> QED
    BY <1>1, <2>2, <2>5, <2>6, <2>7, <2>8, <2>9, <2>10
<1> QED
  BY <1>3, <1>4

\* Where no dash begins there is none, unless one comes from before.
LEMMA NoDash ==
    ASSUME text \in Seq(Char), NEW p \in Nat \ {0}, NEW e \in Nat, e <= Len(text),
           \A i \in p..e : ~DashAt(text, i),
           ~(p \in 2..Len(text) /\ text[p - 1] = "-" /\ text[p] = "-")
    PROVE  \A i \in p..e : ~InDash(i)
<1> SUFFICES ASSUME NEW i \in p..e, InDash(i) PROVE FALSE
  OBVIOUS
<1>1. PICK n \in Nat : n = Len(text)
  BY LenProperties
<1>2. ~DashAt(text, i) /\ i \in Nat \ {0} /\ p <= i /\ i <= n
  BY <1>1
<1>3. text[i] \notin LongDash
  BY <1>2 DEF DashAt
<1>4. ~(i < n /\ text[i] = "-" /\ text[i + 1] = "-")
  BY <1>1, <1>2 DEF DashAt
<1>5. i > 1 /\ text[i] = "-" /\ text[i - 1] = "-"
  BY <1>1, <1>3, <1>4 DEF InDash
<1>6. CASE i = p
  <2>1. p \in 2..Len(text)
    BY <1>1, <1>2, <1>5, <1>6
  <2> QED
    BY <1>5, <1>6, <2>1
<1>7. CASE i # p
  <2>1. PICK j \in p..e : i = j + 1 /\ j = i - 1
    <3>1. i - 1 \in p..e /\ i = (i - 1) + 1
      BY <1>2, <1>7
    <3> QED
      BY <3>1
  <2>2. j < n /\ text[j] = "-" /\ text[j + 1] = "-"
    BY <1>2, <1>5, <2>1
  <2>3. DashAt(text, j)
    BY <1>1, <2>2 DEF DashAt
  <2> QED
    BY <2>3
<1> QED
  BY <1>6, <1>7

\* Where none counts, none is spoken.
LEMMA CountZero ==
    ASSUME NEW o, NEW n \in Nat, CountOf(o, n + 1) = 0
    PROVE  \A i \in 1..n : ~IsSpoken(o[i])
<1> DEFINE J == {j \in 1..((n + 1) - 1) : IsSpoken(o[j])}
<1>1. J \in SUBSET (1..n) /\ 1..((n + 1) - 1) = 1..n
  OBVIOUS
<1>2. IsFiniteSet(1..n)
  BY FS_Interval
<1>3. IsFiniteSet(J)
  BY <1>1, <1>2, FS_Subset
<1>4. Cardinality(J) = 0
  BY DEF CountOf
<1>5. J = {}
  <2> HIDE DEF J
  <2> QED
    BY <1>3, <1>4, FS_EmptySet
<1> QED
  BY <1>1, <1>5

-----------------------------------------------------------------------------
(* The inductive invariant of the split                                    *)

DashFrom(i) == i <= Len(text) /\ DashAt(text, i)

(***************************************************************************)
(* What is left to do are three stretches of the text: the rest of the     *)
(* sentence from c to d, the rest of the part from a to b, and all the     *)
(* text from p on.  Only white space lies between them.                    *)
(***************************************************************************)
Ordered(c, d, a, b, p) ==
    /\ c \in Nat \ {0} /\ d \in Nat /\ a \in Nat \ {0} /\ b \in Nat /\ p \in Nat \ {0}
    /\ c <= d + 1 /\ d + 1 <= a /\ a <= b + 1 /\ b + 1 <= p /\ p <= Len(text) + 1

Stretches(sen, seg, par, c, d, a, b, p) ==
    /\ sen = SubSeq(text, c, d) /\ seg = SubSeq(text, a, b) /\ par = SubSeq(text, p, Len(text))
    /\ Blank(text, d + 1, a - 1) /\ Blank(text, b + 1, p - 1)
    /\ Trim(text, c, d) /\ Trim(text, a, b)

\* There is no dash from c up to p, none lies across p, and one begins at p or the
\* text ends there while a part is unfinished.
DashesApart(c, d, a, b, p) ==
    /\ \A i \in c..(p - 1) : ~InDash(i)
    /\ ~(p \in 2..Len(text) /\ text[p - 1] = "-" /\ text[p] = "-")
    /\ c <= d \/ a <= b => p = Len(text) + 1 \/ DashFrom(p)

\* What is left of the sentence is one sentence, and it ends where the rest of the
\* part goes on.
OneSentence(c, d, a, b) ==
    c <= d =>
        /\ \A m \in c..(d - 1) : ~EndsAt(text, m)
        /\ a <= b => EndsAt(text, d)

\* The sentence was cut as it should after a fragment from f to t, and goes on at g.
CutAt(cap, f, t, g) ==
    /\ g = t + 1 => t - f + 1 = cap /\ \A i \in f..t : text[i] # " "
    /\ SameSentence(f, g) =>
          /\ \E i \in Ink : i >= f + cap /\ SameSentence(g, i)
          /\ \/ text[t] \in ClauseEnd /\ t - f >= cap \div 2
             \/ \A i \in g..(f + cap - 1) : text[i] # " "

\* The i-th fragment speaks the text from f to t.
Span(o, i, f, t) ==
    /\ f \in Ink /\ t \in Ink /\ f <= t
    /\ t - f + 1 <= Cap(CountOf(o, i))
    /\ \/ o[i].text = SubSeq(text, f, t)
       \/ o[i].text = <<" ">> \o SubSeq(text, f, t)
    /\ CharsOf(o, i - 1) = Rank(f - 1)
    /\ CharsOf(o, i) = Rank(t)

\* What is to come after the last fragment, with its cap, spoken from f to t: the
\* rest of its sentence, another sentence of the part, or a dash.
Follows(cap, f, t, c, d, a, b, p) ==
    /\ t < c
    /\ \/ c <= d /\ CutAt(cap, f, t, c)
       \/ (c <= d \/ a <= b) /\ EndsAt(text, t)
       \/ ~(c <= d) /\ ~(a <= b) /\ (p = Len(text) + 1 \/ DashFrom(p))

\* What came after the i-th fragment, spoken from f to t.
Followed(o, i, f, t) ==
    IsSpoken(o[i + 1]) =>
        \E g \in Ink : CharsOf(o, i) = Rank(g - 1) /\ CutAt(Cap(CountOf(o, i)), f, t, g)

Emitted(o, n, c, d, a, b, p) ==
    /\ o \in Seq(Frag)
    /\ n = CountOf(o, Len(o) + 1)
    /\ n > 0 <=> \E j \in Ink : j < c
    /\ CharsOf(o, Len(o)) = Rank(c - 1)
    /\ \A i \in 1..Len(o) :
          IsSpoken(o[i]) =>
              \E f, t \in Nat :
                 /\ Span(o, i, f, t)
                 /\ i < Len(o) => Followed(o, i, f, t)
                 /\ i = Len(o) => Follows(Cap(CountOf(o, i)), f, t, c, d, a, b, p)

\* What was heard is what was written before c, but for the pauses dropped at the end.
HeardSoFar(o, c, d, a, b, p) ==
    \E trail \in Seq(PauseFrag) :
        /\ Cat(HeardOf(o), trail) = Over(SoftAt, 1, c - 1)
        /\ c <= d \/ a <= b \/ p <= Len(text) => trail = <<>>

At(sen, seg, par, o, n, c, d, a, b, p) ==
    /\ Ordered(c, d, a, b, p)
    /\ Stretches(sen, seg, par, c, d, a, b, p)
    /\ DashesApart(c, d, a, b, p)
    /\ OneSentence(c, d, a, b)
    /\ Emitted(o, n, c, d, a, b, p)
    /\ HeardSoFar(o, c, d, a, b, p)

Reached(sen, seg, par, o, n) ==
    \E c, d, a, b, p \in Nat : At(sen, seg, par, o, n, c, d, a, b, p)

SplitInv ==
    /\ text \in Seq(Char)
    /\ Reached(sentence, segment, parts, out, spoken)

-----------------------------------------------------------------------------
(* What each step does to what is left of the text                         *)

\* A stretch is empty when its ends have crossed.
LEMMA StretchesAre ==
    ASSUME text \in Seq(Char), NEW sen, NEW seg, NEW par,
           NEW c, NEW d, NEW a, NEW b, NEW p,
           Ordered(c, d, a, b, p), Stretches(sen, seg, par, c, d, a, b, p)
    PROVE  /\ sen = <<>> <=> ~(c <= d)
           /\ seg = <<>> <=> ~(a <= b)
           /\ par = <<>> <=> ~(p <= Len(text))
<1>1. PICK n \in Nat : n = Len(text)
  BY LenProperties
<1>2. /\ c \in Nat \ {0} /\ d \in Nat /\ a \in Nat \ {0} /\ b \in Nat /\ p \in Nat \ {0}
      /\ c <= d + 1 /\ d + 1 <= a /\ a <= b + 1 /\ b + 1 <= p /\ p <= n + 1
  BY <1>1 DEF Ordered
<1>3. sen = SubSeq(text, c, d) /\ seg = SubSeq(text, a, b) /\ par = SubSeq(text, p, n)
  BY <1>1 DEF Stretches
<1>4. d <= n /\ b <= n /\ n <= n
  BY <1>2
<1>5. SubSeq(text, c, d) = <<>> <=> d < c
  BY <1>1, <1>2, <1>4, SubSome
<1>6. SubSeq(text, a, b) = <<>> <=> b < a
  BY <1>1, <1>2, <1>4, SubSome
<1>7. SubSeq(text, p, n) = <<>> <=> n < p
  BY <1>1, <1>2, <1>4, SubSome
<1>8. (d < c <=> ~(c <= d)) /\ (b < a <=> ~(a <= b)) /\ (n < p <=> ~(p <= n))
  BY <1>2
<1> QED
  BY <1>1, <1>3, <1>5, <1>6, <1>7, <1>8, Zenon

LEMMA BlankJoin ==
    ASSUME NEW t, NEW i \in Nat, NEW j \in Nat, NEW k \in Nat, NEW l \in Nat,
           Blank(t, i, j), Blank(t, j + 1, k), l >= i
    PROVE  Blank(t, l, k)
<1> SUFFICES ASSUME NEW x \in l..k PROVE t[x] \in White
  BY DEF Blank
<1>1. x \in i..j \/ x \in (j + 1)..k
  OBVIOUS
<1> QED
  BY <1>1 DEF Blank

\* The next part is a stretch without dashes.
LEMMA SegmentKeeps ==
    ASSUME text \in Seq(Char), NEW sen, NEW seg, NEW par, NEW o, NEW n,
           Reached(sen, seg, par, o, n),
           sen = <<>>, seg = <<>>, par # <<>>, ~DashAt(par, 1),
           NEW dashes, dashes = {i \in 1..(Len(par) - 1) : DashAt(par, i + 1)}
    PROVE  Reached(sen, Strip(Upto(par, dashes)), After(par, dashes), o, n)
<1>1. PICK c, d, a, b, p \in Nat : At(sen, seg, par, o, n, c, d, a, b, p)
  BY DEF Reached
<1>2. PICK l \in Nat : l = Len(text)
  BY LenProperties
<1>3. /\ c \in Nat \ {0} /\ d \in Nat /\ a \in Nat \ {0} /\ b \in Nat /\ p \in Nat \ {0}
      /\ c <= d + 1 /\ d + 1 <= a /\ a <= b + 1 /\ b + 1 <= p /\ p <= l + 1
  BY <1>1, <1>2 DEF At, Ordered
<1>4. ~(c <= d) /\ ~(a <= b) /\ p <= l
  BY <1>1, <1>2, StretchesAre DEF At
<1>5. c = d + 1 /\ a = b + 1
  BY <1>3, <1>4
<1>6. par = SubSeq(text, p, l) /\ Blank(text, d + 1, a - 1) /\ Blank(text, b + 1, p - 1)
  BY <1>1, <1>2 DEF At, Stretches
<1>7. Len(par) = l - p + 1
  BY <1>2, <1>3, <1>6, SubLen
<1>8. ASSUME NEW i \in 1..(l - p + 1) PROVE DashAt(par, i) <=> DashAt(text, p + i - 1)
  <2>1. par = From(text, p)
    BY <1>2, <1>6 DEF From
  <2> QED
    BY <1>2, <1>3, <2>1, DashPart
<1>9. dashes \subseteq 1..(l - p + 1)
  BY <1>7
<1>10. PICK e \in Nat :
          /\ p <= e + 1 /\ e <= l
          /\ Upto(par, dashes) = SubSeq(text, p, e)
          /\ After(par, dashes) = SubSeq(text, e + 1, l)
          /\ FirstPlace(dashes, p, l, e)
  <2>1. p <= l + 1 /\ l <= Len(text)
    BY <1>2, <1>3
  <2> QED
    BY <1>3, <1>6, <1>9, <2>1, UptoIs
<1>11. p <= e
  <2>1. CASE e = l
    BY <1>4, <2>1
  <2>2. CASE e - p + 1 \in dashes
    <3>1. e - p + 1 \in 1..(l - p + 1)
      BY <1>9, <2>2
    <3> QED
      BY <1>3, <3>1
  <2> QED
    BY <1>10, <2>1, <2>2 DEF FirstPlace
<1>12. e = l \/ DashFrom(e + 1)
  <2> SUFFICES ASSUME e - p + 1 \in dashes, e # l PROVE DashFrom(e + 1)
    BY <1>10 DEF FirstPlace
  <2>1. PICK i \in dashes : i = e - p + 1
    OBVIOUS
  <2>2. i \in 1..(Len(par) - 1) /\ DashAt(par, i + 1)
    OBVIOUS
  <2>3. i + 1 \in 1..(l - p + 1) /\ p + (i + 1) - 1 = e + 1
    BY <1>3, <1>7, <2>1, <2>2
  <2>4. DashAt(text, e + 1)
    BY <1>8, <2>2, <2>3
  <2>5. e + 1 <= l
    BY <1>10
  <2> QED
    BY <1>2, <2>4, <2>5 DEF DashFrom
<1>13. ASSUME NEW i \in p..e, DashAt(text, i) PROVE FALSE
  <2>1. CASE i = p
    <3>1. 1 \in 1..(l - p + 1) /\ p + 1 - 1 = p
      BY <1>4
    <3> QED
      BY <1>8, <1>13, <2>1, <3>1
  <2>2. CASE i # p
    <3>1. PICK j \in Nat : j = i - p
      BY <1>3
    <3>2. j \in 1..(Len(par) - 1) /\ j + 1 \in 1..(l - p + 1) /\ p + (j + 1) - 1 = i
      BY <1>3, <1>7, <1>10, <2>2, <3>1
    <3>3. DashAt(par, j + 1)
      BY <1>8, <1>13, <3>2
    <3>4. j \in dashes
      BY <3>2, <3>3
    <3>5. e - p + 1 <= j
      BY <1>10, <3>4 DEF FirstPlace
    <3> QED
      BY <1>3, <3>1, <3>5
  <2> QED
    BY <2>1, <2>2
<1>14. PICK x \in Nat \ {0}, y \in Nat :
          /\ p <= x /\ x <= y + 1 /\ y <= e
          /\ Strip(SubSeq(text, p, e)) = SubSeq(text, x, y)
          /\ Blank(text, p, x - 1) /\ Blank(text, y + 1, e) /\ Trim(text, x, y)
  BY <1>2, <1>3, <1>10, StripAt
<1>15. PICK q \in Nat \ {0} : q = e + 1 /\ q - 1 = e
  <2>1. e + 1 \in Nat \ {0} /\ (e + 1) - 1 = e
    OBVIOUS
  <2> QED
    BY <2>1
<1>16. Ordered(c, d, x, y, q)
  BY <1>2, <1>3, <1>5, <1>10, <1>14, <1>15 DEF Ordered
<1>17. Blank(text, d + 1, p - 1)
  <2>1. PICK j \in Nat : j = a - 1
    BY <1>3
  <2>2. j = b /\ d + 1 \in Nat /\ p - 1 \in Nat
    BY <1>3, <1>5, <2>1
  <2>3. Blank(text, d + 1, j) /\ Blank(text, j + 1, p - 1)
    BY <1>6, <2>1, <2>2
  <2> QED
    BY <2>2, <2>3, BlankJoin
<1>18. Blank(text, d + 1, x - 1)
  <2>1. PICK j \in Nat : j = p - 1 /\ j + 1 = p
    BY <1>3
  <2>2. d + 1 \in Nat /\ x - 1 \in Nat
    BY <1>3
  <2>3. Blank(text, d + 1, j) /\ Blank(text, j + 1, x - 1)
    BY <1>14, <1>17, <2>1
  <2> QED
    BY <2>2, <2>3, BlankJoin
<1>19. Stretches(sen, Strip(Upto(par, dashes)), After(par, dashes), c, d, x, y, q)
  <2>1. sen = SubSeq(text, c, d) /\ Trim(text, c, d)
    BY <1>1 DEF At, Stretches
  <2>2. Blank(text, y + 1, q - 1)
    BY <1>14, <1>15
  <2>3. Strip(Upto(par, dashes)) = SubSeq(text, x, y)
    BY <1>10, <1>14
  <2>4. After(par, dashes) = SubSeq(text, q, Len(text))
    BY <1>2, <1>10, <1>15
  <2> QED
    BY <1>14, <1>18, <2>1, <2>2, <2>3, <2>4 DEF Stretches
<1>20. ~(p \in 2..Len(text) /\ text[p - 1] = "-" /\ text[p] = "-")
  BY <1>1 DEF At, DashesApart
<1>21. \A i \in c..(p - 1) : ~InDash(i)
  BY <1>1 DEF At, DashesApart
<1>22. \A i \in p..e : ~InDash(i)
  BY <1>2, <1>3, <1>10, <1>13, <1>20, NoDash
<1>23. DashesApart(c, d, x, y, q)
  <2>1. ASSUME NEW i \in c..(q - 1) PROVE ~InDash(i)
    <3>1. i \in c..(p - 1) \/ i \in p..e
      BY <1>3, <1>15
    <3> QED
      BY <1>21, <1>22, <3>1
  <2>2. ~(q \in 2..Len(text) /\ text[q - 1] = "-" /\ text[q] = "-")
    <3> SUFFICES ASSUME q <= l, text[e] = "-", text[e + 1] = "-" PROVE FALSE
      BY <1>2, <1>15
    <3>1. e < Len(text) /\ e \in p..e
      BY <1>2, <1>11, <1>15
    <3>2. DashAt(text, e)
      BY <3>1 DEF DashAt
    <3> QED
      BY <1>13, <3>1, <3>2
  <2>3. q = Len(text) + 1 \/ DashFrom(q)
    BY <1>2, <1>12, <1>15
  <2> QED
    BY <2>1, <2>2, <2>3 DEF DashesApart
<1>24. OneSentence(c, d, x, y)
  BY <1>4 DEF OneSentence
<1>25. Emitted(o, n, c, d, x, y, q)
  <2>1. ASSUME NEW f \in Nat, NEW t \in Nat, NEW cap, Follows(cap, f, t, c, d, a, b, p)
        PROVE  FALSE
    <3>1. p = l + 1 \/ DashFrom(p)
      BY <1>2, <1>4, <2>1 DEF Follows
    <3>2. DashAt(text, p)
      BY <1>4, <3>1 DEF DashFrom
    <3>3. p \in p..e
      BY <1>11
    <3> QED
      BY <1>13, <3>2, <3>3
  <2>2. Emitted(o, n, c, d, a, b, p)
    BY <1>1 DEF At
  <2> QED
    BY <2>1, <2>2 DEF Emitted
<1>26. HeardSoFar(o, c, d, x, y, q)
  <2>1. PICK trail \in Seq(PauseFrag) :
           /\ Cat(HeardOf(o), trail) = Over(SoftAt, 1, c - 1)
           /\ c <= d \/ a <= b \/ p <= Len(text) => trail = <<>>
    BY <1>1 DEF At, HeardSoFar
  <2>2. trail = <<>>
    BY <1>2, <1>4, <2>1
  <2> QED
    BY <2>1, <2>2 DEF HeardSoFar
<1>27. At(sen, Strip(Upto(par, dashes)), After(par, dashes), o, n, c, d, x, y, q)
  BY <1>16, <1>19, <1>23, <1>24, <1>25, <1>26 DEF At
<1> QED
  BY <1>27 DEF Reached

\* A sentence ends in a character that is not white.
LEMMA EndIsInk ==
    ASSUME NEW S, NEW s \in Seq(S), NEW i \in Nat, EndsAt(s, i)
    PROVE  s[i] \notin White /\ s[i + 1] \in White /\ i < Len(s)
BY DEF EndsAt, SentenceEnd, White

\* The number of spoken places and what is written do not change over white space.
LEMMA EmittedOver ==
    ASSUME text \in Seq(Char), NEW o, NEW n,
           NEW c \in Nat \ {0}, NEW d, NEW a, NEW b, NEW p,
           NEW x \in Nat \ {0}, NEW d1, NEW a1, NEW b1, NEW p1,
           c <= x, x <= Len(text) + 1, Blank(text, c, x - 1),
           Emitted(o, n, c, d, a, b, p),
           \A cap \in Nat, f \in Nat, t \in Nat :
              f <= t /\ Follows(cap, f, t, c, d, a, b, p) => Follows(cap, f, t, x, d1, a1, b1, p1)
    PROVE  Emitted(o, n, x, d1, a1, b1, p1)
<1>1. PICK l \in Nat, c0 \in Nat, x0 \in Nat :
         l = Len(text) /\ c = c0 + 1 /\ x = x0 + 1 /\ c - 1 = c0 /\ x - 1 = x0
  <2>1. Len(text) \in Nat
    BY LenProperties
  <2>2. /\ c - 1 \in Nat /\ c = (c - 1) + 1 /\ x - 1 \in Nat /\ x = (x - 1) + 1
    OBVIOUS
  <2> QED
    BY <2>1, <2>2
<1>2. c0 <= x0 /\ x0 <= l /\ Blank(text, c0 + 1, x0)
  BY <1>1
<1>3. Rank(x0) = Rank(c0) /\ \A i \in (c0 + 1)..x0 : i \notin Ink
  BY <1>1, <1>2, BlankStretch
<1>4. (\E j \in Ink : j < x) <=> (\E j \in Ink : j < c)
  <2>1. ASSUME NEW j \in Ink, j < x PROVE j < c
    <3>1. j \in 1..l
      BY <1>1, InkType
    <3>2. j \notin (c0 + 1)..x0
      BY <1>3
    <3> QED
      BY <1>1, <2>1, <3>1, <3>2
  <2>2. ASSUME NEW j \in Ink, j < c PROVE j < x
    <3>1. j \in 1..l
      BY <1>1, InkType
    <3> QED
      BY <2>2, <3>1
  <2> QED
    BY <2>1, <2>2
<1>5. /\ o \in Seq(Frag)
      /\ n = CountOf(o, Len(o) + 1)
      /\ n > 0 <=> \E j \in Ink : j < c
      /\ CharsOf(o, Len(o)) = Rank(c - 1)
  BY DEF Emitted
<1>6. n > 0 <=> \E j \in Ink : j < x
  BY <1>4, <1>5
<1>7. CharsOf(o, Len(o)) = Rank(x - 1)
  BY <1>1, <1>3, <1>5
<1>8. ASSUME NEW i \in 1..Len(o), IsSpoken(o[i])
      PROVE  \E f, t \in Nat :
                 /\ Span(o, i, f, t)
                 /\ i < Len(o) => Followed(o, i, f, t)
                 /\ i = Len(o) => Follows(Cap(CountOf(o, i)), f, t, x, d1, a1, b1, p1)
  <2>1. PICK f, t \in Nat :
                 /\ Span(o, i, f, t)
                 /\ i < Len(o) => Followed(o, i, f, t)
                 /\ i = Len(o) => Follows(Cap(CountOf(o, i)), f, t, c, d, a, b, p)
    BY <1>8 DEF Emitted
  <2>2. Cap(CountOf(o, i)) \in Nat
    <3>1. i \in Nat \ {0}
      BY <1>5, LenProperties
    <3>2. CountOf(o, i) \in Nat
      BY <3>1, CountIs
    <3>3. Cap(CountOf(o, i)) \in 1..MaxChars
      BY <3>2, CapIs
    <3> QED
      BY <3>3, FragmentsAssumption
  <2>3. f <= t
    BY <2>1 DEF Span
  <2>4. i = Len(o) => Follows(Cap(CountOf(o, i)), f, t, x, d1, a1, b1, p1)
    BY <2>1, <2>2, <2>3
  <2> QED
    BY <2>1, <2>4
<1> QED
  BY <1>5, <1>6, <1>7, <1>8 DEF Emitted

LEMMA HeardOver ==
    ASSUME text \in Seq(Char), NEW o,
           NEW c \in Nat \ {0}, NEW d, NEW a, NEW b, NEW p,
           NEW x \in Nat \ {0}, NEW d1, NEW a1, NEW b1, NEW p1,
           c <= x, x <= Len(text) + 1, Blank(text, c, x - 1),
           HeardSoFar(o, c, d, a, b, p),
           c <= d \/ a <= b \/ p <= Len(text)
    PROVE  HeardSoFar(o, x, d1, a1, b1, p1)
<1>1. PICK l \in Nat, c0 \in Nat, x0 \in Nat :
         l = Len(text) /\ c = c0 + 1 /\ x = x0 + 1 /\ c - 1 = c0 /\ x - 1 = x0
  <2>1. Len(text) \in Nat
    BY LenProperties
  <2>2. /\ c - 1 \in Nat /\ c = (c - 1) + 1 /\ x - 1 \in Nat /\ x = (x - 1) + 1
    OBVIOUS
  <2> QED
    BY <2>1, <2>2
<1>2. c0 <= x0 /\ x0 <= l /\ Blank(text, c0 + 1, x0)
  BY <1>1
<1>3. Over(SoftAt, 1, x0) = Over(SoftAt, 1, c0)
  BY <1>1, <1>2, BlankStretch
<1>4. PICK trail \in Seq(PauseFrag) :
         Cat(HeardOf(o), trail) = Over(SoftAt, 1, c - 1) /\ trail = <<>>
  BY DEF HeardSoFar
<1> QED
  BY <1>1, <1>3, <1>4 DEF HeardSoFar

\* The next sentence of the part.
LEMMA SentenceKeeps ==
    ASSUME text \in Seq(Char), NEW sen, NEW seg, NEW par, NEW o, NEW n,
           Reached(sen, seg, par, o, n),
           sen = <<>>, seg # <<>>,
           NEW ends, ends = {i \in 1..Len(seg) : EndsAt(seg, i)}
    PROVE  Reached(Strip(Upto(seg, ends)), Strip(After(seg, ends)), par, o, n)
<1>1. PICK c, d, a, b, p \in Nat : At(sen, seg, par, o, n, c, d, a, b, p)
  BY DEF Reached
<1>2. PICK l \in Nat : l = Len(text)
  BY LenProperties
<1>3. /\ c \in Nat \ {0} /\ d \in Nat /\ a \in Nat \ {0} /\ b \in Nat /\ p \in Nat \ {0}
      /\ c <= d + 1 /\ d + 1 <= a /\ a <= b + 1 /\ b + 1 <= p /\ p <= l + 1
  BY <1>1, <1>2 DEF At, Ordered
<1>4. ~(c <= d) /\ a <= b
  BY <1>1, StretchesAre DEF At
<1>5. c = d + 1 /\ b <= l
  BY <1>3, <1>4
<1>6. seg = SubSeq(text, a, b) /\ Blank(text, d + 1, a - 1) /\ Blank(text, b + 1, p - 1)
  BY <1>1 DEF At, Stretches
<1>7. text[a] \notin White /\ text[b] \notin White
  BY <1>1, <1>4 DEF At, Stretches, Trim
<1>8. Len(seg) = b - a + 1
  BY <1>2, <1>3, <1>5, <1>6, SubLen
<1>9. ASSUME NEW i \in 1..(b - a + 1)
      PROVE  EndsAt(seg, i) <=> a + i - 1 < b /\ EndsAt(text, a + i - 1)
  BY <1>2, <1>3, <1>5, <1>6, EndsPart
<1>10. ends \subseteq 1..(b - a + 1)
  BY <1>8
<1>11. PICK e \in Nat :
          /\ a <= e + 1 /\ e <= b
          /\ Upto(seg, ends) = SubSeq(text, a, e)
          /\ After(seg, ends) = SubSeq(text, e + 1, b)
          /\ FirstPlace(ends, a, b, e)
  <2>1. a <= b + 1 /\ b <= Len(text)
    BY <1>2, <1>3, <1>5
  <2> QED
    BY <1>3, <1>6, <1>10, <2>1, UptoIs
<1>12. (ends = {} /\ e = b) \/ e - a + 1 \in ends
  BY <1>11 DEF FirstPlace
<1>13. a <= e
  <2>1. CASE e = b
    BY <1>4, <2>1
  <2>2. CASE e - a + 1 \in ends
    <3>1. e - a + 1 \in 1..(b - a + 1)
      BY <1>10, <2>2
    <3> QED
      BY <1>3, <3>1
  <2> QED
    BY <1>12, <2>1, <2>2
<1>14. e = b \/ EndsAt(text, e)
  <2> SUFFICES ASSUME e - a + 1 \in ends PROVE EndsAt(text, e)
    BY <1>12
  <2>1. PICK i \in ends : i = e - a + 1
    OBVIOUS
  <2>2. i \in 1..Len(seg) /\ EndsAt(seg, i)
    OBVIOUS
  <2>3. i \in 1..(b - a + 1) /\ a + i - 1 = e
    BY <1>3, <1>8, <2>1, <2>2
  <2> QED
    BY <1>9, <2>2, <2>3
<1>15. ASSUME NEW m \in a..(e - 1), EndsAt(text, m) PROVE FALSE
  <2>1. PICK i \in 1..(b - a + 1) : m = a + i - 1
    <3>1. m - a + 1 \in 1..(b - a + 1) /\ m = a + (m - a + 1) - 1
      BY <1>3, <1>11
    <3> QED
      BY <3>1
  <2>2. m < b
    BY <1>3, <1>11
  <2>3. EndsAt(seg, i)
    BY <1>9, <1>15, <2>1, <2>2
  <2>4. i \in ends
    BY <1>8, <2>3
  <2>5. e - a + 1 <= i
    BY <1>11, <2>4 DEF FirstPlace
  <2> QED
    BY <1>3, <2>1, <2>5
<1>16. text[e] \notin White
  BY <1>2, <1>7, <1>14, EndIsInk
<1>17. PICK x \in Nat \ {0}, y \in Nat :
          /\ a <= x /\ x <= y + 1 /\ y <= e
          /\ Strip(SubSeq(text, a, e)) = SubSeq(text, x, y)
          /\ Blank(text, a, x - 1) /\ Blank(text, y + 1, e) /\ Trim(text, x, y)
  <2>1. a <= e + 1 /\ e <= Len(text)
    BY <1>2, <1>5, <1>11
  <2> QED
    BY <1>3, <2>1, StripAt
<1>18. PICK u \in Nat \ {0}, v \in Nat :
          /\ e + 1 <= u /\ u <= v + 1 /\ v <= b
          /\ Strip(SubSeq(text, e + 1, b)) = SubSeq(text, u, v)
          /\ Blank(text, e + 1, u - 1) /\ Blank(text, v + 1, b) /\ Trim(text, u, v)
  <2>1. PICK e1 \in Nat \ {0} : e1 = e + 1
    OBVIOUS
  <2>2. e1 <= b + 1 /\ b <= Len(text)
    BY <1>2, <1>5, <1>11, <2>1
  <2>3. \E u \in Nat \ {0}, v \in Nat :
          /\ e1 <= u /\ u <= v + 1 /\ v <= b
          /\ Strip(SubSeq(text, e1, b)) = SubSeq(text, u, v)
          /\ Blank(text, e1, u - 1) /\ Blank(text, v + 1, b) /\ Trim(text, u, v)
    BY <2>2, StripAt
  <2> QED
    BY <2>1, <2>3
<1>19. x = a
  <2>1. a \notin a..(x - 1)
    BY <1>7, <1>17 DEF Blank
  <2> QED
    BY <1>3, <1>17, <2>1
<1>20. y = e
  <2>1. e \notin (y + 1)..e
    BY <1>16, <1>17 DEF Blank
  <2> QED
    BY <1>17, <2>1
<1>21. Ordered(x, y, u, v, p)
  BY <1>2, <1>3, <1>11, <1>17, <1>18, <1>20 DEF Ordered
<1>22. Stretches(Strip(Upto(seg, ends)), Strip(After(seg, ends)), par, x, y, u, v, p)
  <2>1. Strip(Upto(seg, ends)) = SubSeq(text, x, y)
    BY <1>11, <1>17
  <2>2. Strip(After(seg, ends)) = SubSeq(text, u, v)
    BY <1>11, <1>18
  <2>3. Blank(text, y + 1, u - 1)
    BY <1>18, <1>20
  <2>4. Blank(text, v + 1, p - 1)
    <3>1. v + 1 \in Nat /\ p - 1 \in Nat
      BY <1>3
    <3>2. v + 1 >= v + 1
      OBVIOUS
    <3> QED
      BY <1>6, <1>18, <3>1, <3>2, BlankJoin
  <2>5. par = SubSeq(text, p, Len(text))
    BY <1>1 DEF At, Stretches
  <2> QED
    BY <1>17, <1>18, <2>1, <2>2, <2>3, <2>4, <2>5 DEF Stretches
<1>23. DashesApart(x, y, u, v, p)
  <2>1. DashesApart(c, d, a, b, p)
    BY <1>1 DEF At
  <2>2. x..(p - 1) \subseteq c..(p - 1)
    BY <1>3, <1>19
  <2>3. p = Len(text) + 1 \/ DashFrom(p)
    BY <1>4, <2>1 DEF DashesApart
  <2>4. \A i \in x..(p - 1) : ~InDash(i)
    BY <2>1, <2>2 DEF DashesApart
  <2> QED
    BY <2>1, <2>3, <2>4 DEF DashesApart
<1>24. OneSentence(x, y, u, v)
  <2>1. \A m \in x..(y - 1) : ~EndsAt(text, m)
    BY <1>15, <1>19, <1>20
  <2>2. u <= v => EndsAt(text, y)
    BY <1>14, <1>18, <1>20
  <2> QED
    BY <2>1, <2>2 DEF OneSentence
<1>25. Blank(text, c, x - 1) /\ c <= x /\ x <= Len(text) + 1
  BY <1>2, <1>3, <1>5, <1>6, <1>19
<1>26. ASSUME NEW cap \in Nat, NEW f \in Nat, NEW t \in Nat, Follows(cap, f, t, c, d, a, b, p)
       PROVE  Follows(cap, f, t, x, y, u, v, p)
  <2>1. t < x
    BY <1>3, <1>25, <1>26 DEF Follows
  <2>2. EndsAt(text, t)
    BY <1>4, <1>26 DEF Follows
  <2>3. x <= y
    BY <1>13, <1>19, <1>20
  <2> QED
    BY <2>1, <2>2, <2>3 DEF Follows
<1>27. Emitted(o, n, x, y, u, v, p)
  <2>1. Emitted(o, n, c, d, a, b, p)
    BY <1>1 DEF At
  <2> QED
    BY <1>3, <1>25, <1>26, <2>1, EmittedOver
<1>28. HeardSoFar(o, x, y, u, v, p)
  <2>1. HeardSoFar(o, c, d, a, b, p)
    BY <1>1 DEF At
  <2> QED
    BY <1>3, <1>4, <1>25, <2>1, HeardOver
<1>29. At(Strip(Upto(seg, ends)), Strip(After(seg, ends)), par, o, n, x, y, u, v, p)
  BY <1>21, <1>22, <1>23, <1>24, <1>27, <1>28 DEF At
<1> QED
  BY <1>29 DEF Reached

\* One more fragment, x after the l there are, leaves what is said of the others.
More(o, x, q, l) ==
    /\ q \in Seq(Frag) /\ Len(q) = l + 1 /\ q[l + 1] = x
    /\ \A i \in 1..l : q[i] = o[i]
    /\ \A i \in 1..(l + 1) : CountOf(q, i) = CountOf(o, i)
    /\ \A i \in 0..l : CharsOf(q, i) = CharsOf(o, i)

LEMMA OneMore ==
    ASSUME NEW o \in Seq(Frag), NEW x \in Frag, NEW q, q = Append(o, x), NEW l \in Nat, l = Len(o)
    PROVE  More(o, x, q, l)
<1>1. q \in Seq(Frag) /\ Len(q) = l + 1 /\ q[l + 1] = x
  BY AppendIs
<1>2. \A i \in 1..l : q[i] = o[i]
  BY AppendIs
<1>3. ASSUME NEW i \in 1..(l + 1) PROVE CountOf(q, i) = CountOf(o, i)
  <2>1. i \in Nat \ {0} /\ \A j \in 1..(i - 1) : q[j] = o[j]
    BY <1>2
  <2> QED
    BY <2>1, CountSame
<1>4. ASSUME NEW i \in 0..l PROVE CharsOf(q, i) = CharsOf(o, i)
  <2>1. i \in Nat /\ \A j \in 1..i : q[j] = o[j]
    BY <1>2
  <2> QED
    BY <2>1, CharsSame
<1> QED
  BY <1>1, <1>2, <1>3, <1>4 DEF More

\* What the next piece of a sentence is: the text from c to t, and the sentence goes
\* on at u.
Taken(cap, c, d, t, u) ==
    /\ c <= t /\ t < u /\ t - c + 1 <= cap
    /\ text[t] \notin White
    /\ Blank(text, t + 1, u - 1)
    /\ Trim(text, u, d)
    /\ u <= d => CutAt(cap, c, t, u)

\* Where a sentence is cut.
CutIs(cut, sen, cap) == cut = IF Len(sen) <= cap THEN Len(sen) ELSE Boundary(sen, cap)

\* How the cut fell, after the k-th of the m characters left.
CutKind(s, m, cap, k) ==
    \/ k = m
    \/ /\ cap < m /\ k < cap
       /\ s[k] \in ClauseEnd /\ s[k + 1] \in White
       /\ k - 1 >= cap \div 2
    \/ /\ cap < m /\ s[k + 1] = " "
       /\ \A i \in (k + 2)..cap : s[i] # " "
    \/ /\ cap < m /\ k = cap
       /\ \A i \in 2..cap : s[i] # " "

\* So the sentence, the text from c to d, is cut there.
TakenFrom(sen, cut, cap, c, d) ==
    \E t \in Nat \ {0}, u \in Nat \ {0} :
        /\ u <= d + 1
        /\ Strip(SubSeq(sen, 1, cut)) = SubSeq(text, c, t)
        /\ Strip(From(sen, cut + 1)) = SubSeq(text, u, d)
        /\ Taken(cap, c, d, t, u)

\* The text from c to d is of one sentence.
Unbroken(c, d) ==
    /\ \A i \in c..d : ~InDash(i)
    /\ \A m \in c..(d - 1) : ~EndsAt(text, m)

LEMMA TakenIs ==
    ASSUME text \in Seq(Char), NEW sen,
           NEW c \in Nat \ {0}, NEW d \in Nat, c <= d, d <= Len(text),
           NEW cap \in Nat \ {0},
           sen = SubSeq(text, c, d), Trim(text, c, d),
           Unbroken(c, d),
           NEW cut, CutIs(cut, sen, cap)
    PROVE  TakenFrom(sen, cut, cap, c, d)
<1>1. PICK l \in Nat, m \in Nat : l = Len(text) /\ m = d - c + 1
  BY LenProperties
<1>2. Len(sen) = m
  <2>1. c <= d + 1 /\ d <= Len(text)
    OBVIOUS
  <2> QED
    BY <1>1, <2>1, SubLen
<1>3. sen \in Seq(Char)
  BY SubType
<1>4. ASSUME NEW i \in 1..m PROVE sen[i] = text[c + i - 1]
  BY <1>1, <1>4, SubAt
<1>5. PICK k \in Nat :
         /\ k = cut /\ 1 <= k /\ k <= m /\ k <= cap
         /\ CutKind(sen, m, cap, k)
  <2>1. CASE m <= cap
    <3>1. m \in Nat /\ m = cut /\ 1 <= m /\ m <= m
      BY <1>1, <1>2, <2>1 DEF CutIs
    <3>2. CutKind(sen, m, cap, m)
      BY DEF CutKind
    <3> QED
      BY <2>1, <3>1, <3>2
  <2>2. CASE cap < m
    <3>1. cut = Boundary(sen, cap)
      BY <1>2, <2>2 DEF CutIs
    <3>2. PICK k \in 1..cap :
              /\ Boundary(sen, cap) = k
              /\ \/ /\ k < cap
                    /\ sen[k] \in ClauseEnd /\ sen[k + 1] \in White
                    /\ k - 1 >= cap \div 2
                 \/ /\ sen[k + 1] = " "
                    /\ \A i \in (k + 2)..cap : sen[i] # " "
                 \/ /\ k = cap
                    /\ \A i \in 2..cap : sen[i] # " "
      BY <1>2, <1>3, <2>2, BoundaryIs
    <3>3. k \in Nat /\ 1 <= k /\ k <= cap /\ k <= m
      BY <1>1, <2>2
    <3>4. CutKind(sen, m, cap, k)
      BY <2>2, <3>2 DEF CutKind
    <3> QED
      BY <3>1, <3>2, <3>3, <3>4
  <2> QED
    BY <1>1, <2>1, <2>2
<1>6. k \in Nat /\ 1 <= k /\ k <= m /\ k <= cap
  BY <1>5
<1>7. PICK e \in Nat, e1 \in Nat \ {0} : e = c + k - 1 /\ e1 = e + 1
  BY <1>6
<1>8. c <= e /\ e <= d /\ (e = d <=> k = m)
  BY <1>1, <1>6, <1>7
<1>9. SubSeq(sen, 1, cut) = SubSeq(text, c, e)
  <2>1. PICK y \in Nat \ {0} : y = 1
    OBVIOUS
  <2>2. y <= k + 1 /\ k <= d - c + 1 /\ c <= d + 1 /\ c + y - 1 = c
    BY <1>1, <1>6, <2>1
  <2>3. SubSeq(SubSeq(text, c, d), y, k) = SubSeq(text, c + y - 1, c + k - 1)
    BY <2>2, SubSub
  <2> QED
    BY <1>5, <1>7, <2>1, <2>2, <2>3
<1>10. From(sen, cut + 1) = SubSeq(text, e1, d)
  <2>1. PICK y \in Nat \ {0} : y = k + 1
    OBVIOUS
  <2>2. y <= m + 1 /\ m <= d - c + 1 /\ c <= d + 1 /\ c + y - 1 = e1 /\ c + m - 1 = d
    BY <1>1, <1>6, <1>7, <2>1
  <2>3. SubSeq(SubSeq(text, c, d), y, m) = SubSeq(text, c + y - 1, c + m - 1)
    BY <2>2, SubSub
  <2> QED
    BY <1>2, <1>5, <2>1, <2>2, <2>3 DEF From
<1>11. text[c] \notin White /\ text[d] \notin White
  BY DEF Trim
<1>12. PICK x \in Nat \ {0}, t \in Nat :
          /\ c <= x /\ x <= t + 1 /\ t <= e
          /\ Strip(SubSeq(text, c, e)) = SubSeq(text, x, t)
          /\ Blank(text, c, x - 1) /\ Blank(text, t + 1, e) /\ Trim(text, x, t)
  <2>1. c <= e + 1 /\ e <= Len(text)
    BY <1>8
  <2> QED
    BY <2>1, StripAt
<1>13. x = c
  <2>1. c \notin c..(x - 1)
    BY <1>11, <1>12 DEF Blank
  <2> QED
    BY <1>12, <2>1
<1>14. c <= t
  <2>1. c \notin (t + 1)..e
    BY <1>11, <1>12 DEF Blank
  <2> QED
    BY <1>8, <1>12, <2>1
<1>15. text[t] \notin White
  BY <1>12, <1>13, <1>14 DEF Trim
<1>16. PICK u \in Nat \ {0}, v \in Nat :
          /\ e1 <= u /\ u <= v + 1 /\ v <= d
          /\ Strip(SubSeq(text, e1, d)) = SubSeq(text, u, v)
          /\ Blank(text, e1, u - 1) /\ Blank(text, v + 1, d) /\ Trim(text, u, v)
  <2>1. e1 <= d + 1 /\ d <= Len(text)
    BY <1>7, <1>8
  <2> QED
    BY <2>1, StripAt
<1>17. v = d
  <2>1. d \notin (v + 1)..d
    BY <1>11, <1>16 DEF Blank
  <2> QED
    BY <1>16, <2>1
<1>18. Blank(text, t + 1, u - 1)
  <2>1. t + 1 \in Nat /\ u - 1 \in Nat /\ t + 1 >= t + 1
    BY <1>16
  <2>2. Blank(text, t + 1, e) /\ Blank(text, e + 1, u - 1)
    BY <1>7, <1>12, <1>16
  <2> QED
    BY <2>1, <2>2, BlankJoin
<1>19. ASSUME u <= d PROVE CutAt(cap, c, t, u)
  <2>1. /\ cap < m /\ text[u] \notin White
        /\ \/ /\ k < cap
              /\ sen[k] \in ClauseEnd /\ sen[k + 1] \in White
              /\ k - 1 >= cap \div 2
           \/ /\ sen[k + 1] = " "
              /\ \A i \in (k + 2)..cap : sen[i] # " "
           \/ /\ k = cap
              /\ \A i \in 2..cap : sen[i] # " "
    <3>1. k # m
      BY <1>7, <1>8, <1>16, <1>17, <1>19
    <3> QED
      BY <1>5, <1>16, <1>17, <1>19, <3>1 DEF Trim, CutKind
  <2>2. cap < m
    BY <2>1
  <2>3. k # m
    BY <1>6, <2>2
  <2>4. text[u] \notin White
    BY <2>1
  <2>5. k # m /\ cap < m /\ text[u] \notin White
    BY <2>2, <2>3, <2>4
  <2>6. e < d /\ sen[k] = text[e] /\ sen[k + 1] = text[e1]
    <3>1. k \in 1..m /\ k + 1 \in 1..m /\ c + (k + 1) - 1 = e1
      BY <1>6, <1>7, <2>5
    <3>2. e < d
      BY <1>8, <2>5
    <3> QED
      BY <1>4, <1>7, <3>1, <3>2
  <2>7. ASSUME NEW j \in Nat, NEW w \in Nat, w = j - c + 1, w \in 1..m PROVE sen[w] = text[j]
    <3>1. c + w - 1 = j
      BY <2>7
    <3>2. sen[w] = text[c + w - 1]
      BY <1>4, <2>7
    <3> QED
      BY <3>1, <3>2
  <2>8. t < u
    BY <1>7, <1>12, <1>16
  <2>9. ASSUME u = t + 1
        PROVE  t - c + 1 = cap /\ \A i \in c..t : text[i] # " "
    <3>1. t = e /\ u = e1
      BY <1>7, <1>12, <1>16, <2>9
    <3>2. text[e1] \notin White
      BY <2>5, <3>1
    <3>3. k = cap /\ \A i \in 2..cap : sen[i] # " "
      BY <2>1, <2>6, <3>2 DEF White
    <3>4. k = cap
      BY <3>3
    <3>5. t - c + 1 = cap
      BY <1>6, <1>7, <3>1, <3>4
    <3>6. ASSUME NEW i \in c..t PROVE text[i] # " "
      <4>1. CASE i = c
        BY <1>11, <4>1 DEF White
      <4>2. CASE i # c
        <5>1. PICK w \in Nat : w = i - c + 1
          OBVIOUS
        <5>2. w \in 2..cap
          BY <3>5, <4>2, <5>1
        <5>3. w \in 1..m
          BY <2>5, <5>2
        <5>4. sen[w] = text[i]
          <6>1. i \in Nat
            OBVIOUS
          <6> QED
            BY <2>7, <5>1, <5>3, <6>1
        <5> QED
          BY <3>3, <5>2, <5>4
      <4> QED
        BY <4>1, <4>2
    <3> QED
      BY <3>5, <3>6
  <2>10. \E i \in Ink : i >= c + cap /\ SameSentence(u, i)
    <3>1. d \in Ink
      <4>1. d \in 1..Len(text) /\ d \in c..d
        OBVIOUS
      <4> QED
        BY <1>11, <4>1, InkType DEF Unbroken
    <3>2. d >= c + cap
      BY <1>1, <2>5
    <3>3. ASSUME NEW z \in u..(d - 1) PROVE ~EndsAt(text, z) /\ ~DashAt(text, z)
      <4>1. z \in c..(d - 1) /\ z \in c..d /\ z \in 1..Len(text)
        BY <1>12, <1>14, <2>8
      <4> QED
        BY <4>1, DashInside DEF Unbroken
    <3> QED
      BY <3>1, <3>2, <3>3 DEF SameSentence
  <2>11. ASSUME ~(text[t] \in ClauseEnd /\ t - c >= cap \div 2)
         PROVE  \A i \in u..(c + cap - 1) : text[i] # " "
    <3>1. CASE /\ sen[k] \in ClauseEnd
               /\ k - 1 >= cap \div 2
      <4>1. text[e] \notin White
        BY <2>6, <3>1 DEF ClauseEnd, White
      <4>2. e \notin (t + 1)..e
        BY <1>12, <4>1 DEF Blank
      <4>3. t = e
        BY <1>12, <4>2
      <4>4. t - c = k - 1
        BY <1>7, <4>3
      <4>5. k - 1 >= cap \div 2
        BY <3>1
      <4>6. t - c >= cap \div 2
        BY <4>4, <4>5
      <4>7. text[t] \in ClauseEnd
        BY <2>6, <3>1, <4>3
      <4> QED
        BY <2>11, <4>6, <4>7
    <3>2. CASE /\ sen[k + 1] = " "
               /\ \A i \in (k + 2)..cap : sen[i] # " "
      <4>1. u # e1
        BY <2>5, <2>6, <3>2 DEF White
      <4>2. ASSUME NEW i \in u..(c + cap - 1) PROVE text[i] # " "
        <5>1. PICK w \in Nat : w = i - c + 1
          BY <1>12, <1>14, <2>8
        <5>2. w \in (k + 2)..cap
          BY <1>7, <1>16, <4>1, <5>1
        <5>3. w \in 1..m
          BY <2>5, <5>2
        <5>4. i \in Nat
          OBVIOUS
        <5>5. sen[w] = text[i]
          BY <2>7, <5>1, <5>3, <5>4
        <5> QED
          BY <3>2, <5>2, <5>5
      <4> QED
        BY <4>2
    <3>3. CASE k = cap
      <4> SUFFICES ASSUME NEW i \in u..(c + cap - 1) PROVE FALSE
        OBVIOUS
      <4> QED
        BY <1>7, <1>16, <3>3
    <3>4. \/ sen[k] \in ClauseEnd /\ k - 1 >= cap \div 2
          \/ sen[k + 1] = " " /\ \A i \in (k + 2)..cap : sen[i] # " "
          \/ k = cap
      BY <2>1, Zenon
    <3> QED
      BY <3>1, <3>2, <3>3, <3>4, Zenon
  <2>12. \/ text[t] \in ClauseEnd /\ t - c >= cap \div 2
         \/ \A i \in u..(c + cap - 1) : text[i] # " "
    BY <2>11, Zenon
  <2> QED
    BY <2>9, <2>10, <2>12 DEF CutAt
<1>20. t < u /\ t - c + 1 <= cap /\ u <= d + 1 /\ t \in Nat \ {0}
  BY <1>6, <1>7, <1>12, <1>14, <1>16
<1>21. Taken(cap, c, d, t, u)
  BY <1>14, <1>15, <1>16, <1>17, <1>18, <1>19, <1>20 DEF Taken
<1> QED
  BY <1>9, <1>10, <1>12, <1>13, <1>16, <1>17, <1>20, <1>21 DEF TakenFrom

\* A fragment that was spoken is followed as it should once the next one is there.
LEMMA NowFollowed ==
    ASSUME text \in Seq(Char),
           NEW cap \in Nat, NEW f \in Nat, NEW t \in Nat, f <= t,
           NEW c \in Nat \ {0}, NEW d, NEW a, NEW b, NEW p,
           c <= d, c <= Len(text), text[c] \notin White,
           Follows(cap, f, t, c, d, a, b, p)
    PROVE  CutAt(cap, f, t, c)
<1>1. CASE CutAt(cap, f, t, c)
  BY <1>1
<1>2. CASE EndsAt(text, t)
  <2>1. text[t + 1] \in White /\ t < c
    BY <1>2, EndIsInk DEF Follows
  <2>2. c # t + 1
    BY <2>1
  <2>3. ~SameSentence(f, c)
    <3>1. t \in f..(c - 1)
      BY <2>1
    <3> QED
      BY <1>2, <3>1 DEF SameSentence
  <2> QED
    BY <2>2, <2>3 DEF CutAt
<1> QED
  BY <1>1, <1>2 DEF Follows

\* A fragment speaks the text from c to t.
Speaks(x, c, t) ==
    /\ IsSpoken(x)
    /\ Said(x.text) = Said(SubSeq(text, c, t))
    /\ \/ x.text = SubSeq(text, c, t)
       \/ x.text = <<" ">> \o SubSeq(text, c, t)

\* The next piece of the sentence, and what is said of the fragments then.
LEMMA PieceEmitted ==
    ASSUME text \in Seq(Char), NEW o, NEW n,
           NEW c \in Nat \ {0}, NEW d \in Nat, NEW a, NEW b, NEW p,
           c <= d, d <= Len(text), text[c] \notin White,
           Trim(text, c, d), \A i \in c..d : ~InDash(i),
           OneSentence(c, d, a, b),
           p = Len(text) + 1 \/ DashFrom(p),
           Emitted(o, n, c, d, a, b, p),
           NEW t \in Nat \ {0}, NEW u \in Nat \ {0}, u <= d + 1, Taken(Cap(n), c, d, t, u),
           NEW x \in Frag, Speaks(x, c, t)
    PROVE  Emitted(Append(o, x), n + 1, u, d, a, b, p)
<1>1. /\ o \in Seq(Frag)
      /\ n = CountOf(o, Len(o) + 1)
      /\ CharsOf(o, Len(o)) = Rank(c - 1)
  BY DEF Emitted
<1>2. PICK q : q = Append(o, x)
  OBVIOUS
<1>3. PICK l \in Nat : l = Len(o)
  BY <1>1, LenProperties
<1>4. /\ q \in Seq(Frag) /\ Len(q) = l + 1 /\ q[l + 1] = x
      /\ \A i \in 1..l : q[i] = o[i]
      /\ \A i \in 1..(l + 1) : CountOf(q, i) = CountOf(o, i)
      /\ \A i \in 0..l : CharsOf(q, i) = CharsOf(o, i)
  <2>1. More(o, x, q, l)
    BY <1>1, <1>2, <1>3, OneMore
  <2> QED
    BY <2>1 DEF More
<1>5. /\ c <= t /\ t < u /\ t - c + 1 <= Cap(n)
      /\ text[t] \notin White
      /\ Blank(text, t + 1, u - 1)
      /\ Trim(text, u, d)
      /\ u <= d => CutAt(Cap(n), c, t, u)
  BY DEF Taken
<1>6. t <= d /\ t <= Len(text)
  BY <1>5
<1>7. c \in Ink /\ t \in Ink
  <2>1. c \in 1..Len(text) /\ t \in 1..Len(text) /\ c \in c..d /\ t \in c..d
    BY <1>5, <1>6
  <2> QED
    BY <1>5, <2>1, InkType
<1>8. CountOf(q, l + 1) = n /\ CharsOf(q, l) = Rank(c - 1)
  <2>1. l + 1 \in 1..(l + 1) /\ l \in 0..l
    OBVIOUS
  <2> QED
    BY <1>1, <1>2, <1>3, <1>4, <2>1
<1>9. n \in Nat /\ CountOf(q, (l + 1) + 1) = n + 1
  <2>1. PICK z \in Nat \ {0} : z = l + 1
    OBVIOUS
  <2>2. CountOf(q, z) \in Nat /\ CountOf(q, z + 1) = CountOf(q, z) + 1
    BY <1>4, <2>1, CountIs DEF Speaks
  <2> QED
    BY <1>8, <2>1, <2>2
<1>10. Rank(t) = Rank(c - 1) + Len(Said(x.text))
  <2>1. PICK c0 \in Nat : c = c0 + 1 /\ c - 1 = c0
    <3>1. c - 1 \in Nat /\ c = (c - 1) + 1
      OBVIOUS
    <3> QED
      BY <3>1
  <2>2. c0 <= t /\ \A i \in (c0 + 1)..t : ~InDash(i)
    BY <1>5, <1>6, <2>1
  <2>3. Rank(t) = Rank(c0) + Len(Said(SubSeq(text, c0 + 1, t)))
    BY <1>6, <2>2, PlainStretch
  <2>4. Said(x.text) = Said(SubSeq(text, c0 + 1, t))
    BY <2>1 DEF Speaks
  <2> QED
    BY <2>1, <2>3, <2>4
<1>11. CharsOf(q, l + 1) = Rank(t)
  <2>1. CharsOf(q, l + 1) = CharsOf(q, l) + Len(Said(q[l + 1].text))
    <3>1. l < Len(q) /\ q \in Seq(Frag)
      BY <1>4
    <3> QED
      BY <3>1, CharsIs
  <2> QED
    BY <1>4, <1>8, <1>10, <2>1
<1>12. Rank(u - 1) = Rank(t)
  <2>1. PICK w \in Nat : w = u - 1
    BY <1>5
  <2>2. t <= w /\ w <= Len(text)
    BY <1>5, <2>1
  <2> QED
    BY <1>5, <2>1, <2>2, BlankStretch
<1>13. \E j \in Ink : j < u
  BY <1>5, <1>7
<1>14. Follows(Cap(n), c, t, u, d, a, b, p)
  <2>1. CASE u <= d
    BY <1>5, <2>1 DEF Follows
  <2>2. CASE ~(u <= d)
    <3>1. u = d + 1
      BY <2>2
    <3>2. t = d
      <4>1. d \notin (t + 1)..(u - 1)
        BY <1>5 DEF Blank, Trim
      <4> QED
        BY <1>5, <1>6, <3>1, <4>1
    <3>3. CASE a <= b
      <4>1. EndsAt(text, t)
        BY <3>2, <3>3 DEF OneSentence
      <4> QED
        BY <1>5, <3>3, <4>1 DEF Follows
    <3>4. CASE ~(a <= b)
      BY <1>5, <2>2, <3>4 DEF Follows
    <3> QED
      BY <3>3, <3>4
  <2> QED
    BY <2>1, <2>2
<1>15. Span(q, l + 1, c, t)
  <2>1. (l + 1) - 1 = l
    OBVIOUS
  <2>2. CharsOf(q, (l + 1) - 1) = Rank(c - 1)
    BY <1>8, <2>1
  <2> QED
    BY <1>4, <1>5, <1>7, <1>8, <1>11, <2>2 DEF Span, Speaks
<1>16. ASSUME NEW i \in 1..(l + 1), IsSpoken(q[i])
       PROVE  \E f, g \in Nat :
                 /\ Span(q, i, f, g)
                 /\ i < l + 1 => Followed(q, i, f, g)
                 /\ i = l + 1 => Follows(Cap(CountOf(q, i)), f, g, u, d, a, b, p)
  <2>1. CASE i = l + 1
    <3>1. ~(i < l + 1)
      BY <2>1
    <3>2. Span(q, i, c, t) /\ Follows(Cap(CountOf(q, i)), c, t, u, d, a, b, p)
      BY <1>8, <1>14, <1>15, <2>1
    <3>3. c \in Nat /\ t \in Nat
      OBVIOUS
    <3> QED
      BY <3>1, <3>2, <3>3
  <2>2. CASE i # l + 1
    <3>1. i \in 1..l /\ i \in 1..(l + 1) /\ i \in 0..l /\ i - 1 \in 0..l /\ i \in Nat \ {0}
      BY <2>2
    <3>2. q[i] = o[i] /\ CountOf(q, i) = CountOf(o, i)
      BY <1>4, <3>1
    <3>3. CharsOf(q, i) = CharsOf(o, i) /\ CharsOf(q, i - 1) = CharsOf(o, i - 1)
      BY <1>4, <3>1
    <3>4. PICK f, g \in Nat :
                 /\ Span(o, i, f, g)
                 /\ i < Len(o) => Followed(o, i, f, g)
                 /\ i = Len(o) => Follows(Cap(CountOf(o, i)), f, g, c, d, a, b, p)
      BY <1>2, <1>3, <1>16, <3>1, <3>2 DEF Emitted
    <3>5. Span(q, i, f, g)
      BY <3>2, <3>3, <3>4 DEF Span
    <3>6. Followed(q, i, f, g)
      <4>1. CASE i < l
        <5>1. i + 1 \in 1..l
          BY <3>1, <4>1
        <5>2. q[i + 1] = o[i + 1]
          BY <1>4, <5>1
        <5>3. Followed(o, i, f, g)
          BY <1>2, <1>3, <3>4, <4>1
        <5> QED
          BY <3>2, <3>3, <5>2, <5>3 DEF Followed
      <4>2. CASE i = l
        <5>1. Follows(Cap(CountOf(o, i)), f, g, c, d, a, b, p)
          BY <1>2, <1>3, <3>4, <4>2
        <5>2. Cap(CountOf(o, i)) \in Nat
          <6>1. CountOf(o, i) \in Nat
            BY <3>1, CountIs
          <6>2. Cap(CountOf(o, i)) \in 1..MaxChars
            BY <6>1, CapIs
          <6> QED
            BY <6>2, FragmentsAssumption
        <5>3. f <= g
          BY <3>4 DEF Span
        <5>4. c <= Len(text)
          OBVIOUS
        <5>5. CutAt(Cap(CountOf(o, i)), f, g, c)
          BY <5>1, <5>2, <5>3, <5>4, NowFollowed
        <5>6. CharsOf(q, i) = Rank(c - 1)
          BY <1>8, <4>2
        <5> QED
          BY <1>7, <3>2, <5>5, <5>6 DEF Followed
      <4> QED
        BY <3>1, <4>1, <4>2
    <3>7. i # l + 1
      BY <2>2
    <3> QED
      BY <3>5, <3>6, <3>7
  <2> QED
    BY <2>1, <2>2
<1>17. Emitted(q, n + 1, u, d, a, b, p)
  <2>1. n + 1 = CountOf(q, Len(q) + 1)
    BY <1>4, <1>9
  <2>2. n + 1 > 0
    BY <1>9
  <2>3. CharsOf(q, Len(q)) = Rank(u - 1)
    BY <1>4, <1>11, <1>12
  <2> QED
    BY <1>4, <1>13, <1>16, <2>1, <2>2, <2>3 DEF Emitted
<1> QED
  BY <1>2, <1>3, <1>17

LEMMA SpaceIs == " " \in Char /\ " " \in White
<1>1. " " \in White
  BY DEF White
<1>2. " " \in Char
  BY DEF Char
<1> QED
  BY <1>1, <1>2

LEMMA NothingBefore ==
    ASSUME NEW S, NEW s \in Seq(S)
    PROVE  <<>> \o s = s
BY ConcatEmptySeq

\* What may join a fragment to the one before.
Joint(join) == join = <<>> \/ join = <<" ">>

\* What the next fragment is, with or without the space in front.
LEMMA PieceSpeaks ==
    ASSUME text \in Seq(Char),
           NEW c \in Nat \ {0}, NEW t \in Nat \ {0}, t <= Len(text),
           NEW w, w = SubSeq(text, c, t),
           NEW join, Joint(join)
    PROVE  Spoken(join \o w) \in SpokenFrag /\ Speaks(Spoken(join \o w), c, t)
<1>1. w \in Seq(Char)
  BY SubType
<1>2. PICK y : y = join \o w
  OBVIOUS
<1>3. /\ y \in Seq(Char) /\ Said(y) = Said(w)
      /\ y = w \/ y = <<" ">> \o w
  <2>1. CASE join = <<>>
    <3>1. <<>> \o w = w
      BY <1>1, NothingBefore
    <3>2. y = w
      BY <1>2, <2>1, <3>1, Zenon
    <3> QED
      BY <1>1, <3>2
  <2>2. CASE join = <<" ">>
    <3>1. y = <<" ">> \o w
      BY <1>2, <2>2, Zenon
    <3>2. " " \in Char /\ " " \in White
      BY SpaceIs
    <3>3. <<" ">> \o w \in Seq(Char)
      BY <1>1, <3>2, JoinIs
    <3>4. Said(<<" ">> \o w) = Said(w)
      BY <1>1, <3>2, SaidJoined
    <3> QED
      BY <3>1, <3>3, <3>4, Zenon
  <2> QED
    BY <2>1, <2>2 DEF Joint
<1>4. PICK f : f = Spoken(y)
  OBVIOUS
<1>5. f \in SpokenFrag /\ f.text = y /\ IsSpoken(f)
  BY <1>3, <1>4, SpokenIs DEF Spoken, SpokenFrag
<1>6. Speaks(f, c, t)
  BY <1>3, <1>5, Zenon DEF Speaks
<1> QED
  BY <1>2, <1>4, <1>5, <1>6, Zenon

\* What is heard then.
LEMMA PieceHeard ==
    ASSUME text \in Seq(Char), NEW o \in Seq(Frag),
           NEW c \in Nat \ {0}, NEW d, NEW a, NEW b, NEW p, c <= d,
           NEW t \in Nat \ {0}, NEW u \in Nat \ {0}, c <= t, t < u, u <= Len(text) + 1,
           \A i \in c..t : ~InDash(i), Blank(text, t + 1, u - 1),
           HeardSoFar(o, c, d, a, b, p),
           NEW x \in Frag, Speaks(x, c, t),
           NEW d1, NEW a1, NEW b1, NEW p1
    PROVE  HeardSoFar(Append(o, x), u, d1, a1, b1, p1)
<1>1. PICK c0 \in Nat : c = c0 + 1 /\ c - 1 = c0
  <2>1. c - 1 \in Nat /\ c = (c - 1) + 1
    OBVIOUS
  <2> QED
    BY <2>1
<1>2. PICK w \in Nat : w = u - 1 /\ t <= w /\ w <= Len(text) /\ t <= Len(text)
  BY LenProperties
<1>3. Cat(HeardOf(o), <<>>) = Over(SoftAt, 1, c0)
  BY <1>1 DEF HeardSoFar
<1>4. HeardOf(o) = Over(SoftAt, 1, c0)
  <2>1. HeardOf(o) \in Seq(Frag)
    BY HeardIs
  <2> QED
    BY <1>3, <2>1, CatEmpty
<1>5. Over(SoftAt, 1, t) = Cat(Over(SoftAt, 1, c0), Said(x.text))
  <2>1. c0 <= t /\ \A i \in (c0 + 1)..t : ~InDash(i)
    BY <1>1
  <2>2. Over(SoftAt, 1, t) = Cat(Over(SoftAt, 1, c0), Said(SubSeq(text, c0 + 1, t)))
    BY <1>2, <2>1, PlainStretch
  <2>3. Said(x.text) = Said(SubSeq(text, c0 + 1, t))
    BY <1>1 DEF Speaks
  <2> QED
    BY <2>2, <2>3
<1>6. Over(SoftAt, 1, w) = Over(SoftAt, 1, t)
  BY <1>2, BlankStretch
<1>7. HeardOf(Append(o, x)) = Cat(HeardOf(o), Said(x.text))
  BY HeardAppend DEF Speaks
<1>8. HeardOf(Append(o, x)) = Over(SoftAt, 1, u - 1)
  BY <1>2, <1>4, <1>5, <1>6, <1>7
<1>9. Cat(HeardOf(Append(o, x)), <<>>) = Over(SoftAt, 1, u - 1)
  <2>1. Append(o, x) \in Seq(Frag)
    BY AppendIs
  <2>2. HeardOf(Append(o, x)) \in Seq(Frag)
    BY <2>1, HeardIs
  <2> QED
    BY <1>8, <2>2, CatEmpty
<1>10. <<>> \in Seq(PauseFrag)
  OBVIOUS
<1> QED
  BY <1>9, <1>10 DEF HeardSoFar

\* The next piece of the sentence.
LEMMA PieceKeeps ==
    ASSUME text \in Seq(Char), NEW sen, NEW seg, NEW par, NEW o, NEW n,
           Reached(sen, seg, par, o, n), sen # <<>>,
           NEW cut, CutIs(cut, sen, Cap(n)),
           NEW join, Joint(join)
    PROVE  Reached(Strip(From(sen, cut + 1)), seg, par,
                   Append(o, Spoken(join \o Strip(SubSeq(sen, 1, cut)))), n + 1)
<1>1. PICK c, d, a, b, p \in Nat : At(sen, seg, par, o, n, c, d, a, b, p)
  BY DEF Reached
<1>2. PICK l \in Nat : l = Len(text)
  BY LenProperties
<1>3. /\ c \in Nat \ {0} /\ d \in Nat /\ a \in Nat \ {0} /\ b \in Nat /\ p \in Nat \ {0}
      /\ c <= d + 1 /\ d + 1 <= a /\ a <= b + 1 /\ b + 1 <= p /\ p <= l + 1
  BY <1>1, <1>2 DEF At, Ordered
<1>4. c <= d
  BY <1>1, StretchesAre DEF At
<1>5. d <= l /\ d < p
  BY <1>3
<1>6. sen = SubSeq(text, c, d) /\ Trim(text, c, d) /\ Blank(text, d + 1, a - 1)
  BY <1>1 DEF At, Stretches
<1>7. ASSUME NEW i \in c..d PROVE ~InDash(i)
  <2>1. i \in c..(p - 1)
    BY <1>3, <1>5
  <2> QED
    BY <1>1, <2>1 DEF At, DashesApart
<1>8. n \in Nat /\ o \in Seq(Frag)
  <2>1. o \in Seq(Frag) /\ n = CountOf(o, Len(o) + 1)
    BY <1>1 DEF At, Emitted
  <2>2. Len(o) + 1 \in Nat \ {0}
    BY <2>1, LenProperties
  <2> QED
    BY <2>1, <2>2, CountIs
<1>9. Cap(n) \in Nat \ {0}
  <2>1. Cap(n) \in 1..MaxChars
    BY <1>8, CapIs
  <2> QED
    BY <2>1, FragmentsAssumption
<1>10. \A m \in c..(d - 1) : ~EndsAt(text, m)
  BY <1>1, <1>4 DEF At, OneSentence
<1>11. PICK t \in Nat \ {0}, u \in Nat \ {0} :
              /\ u <= d + 1
              /\ Strip(SubSeq(sen, 1, cut)) = SubSeq(text, c, t)
              /\ Strip(From(sen, cut + 1)) = SubSeq(text, u, d)
              /\ Taken(Cap(n), c, d, t, u)
  <2>1. d <= Len(text) /\ c \in Nat \ {0} /\ d \in Nat
    BY <1>2, <1>3, <1>5
  <2>2. Unbroken(c, d)
    BY <1>7, <1>10 DEF Unbroken
  <2>3. TakenFrom(sen, cut, Cap(n), c, d)
    BY <1>4, <1>6, <1>9, <2>1, <2>2, TakenIs
  <2> QED
    BY <2>3 DEF TakenFrom
<1>12. c <= t /\ t < u /\ t <= d /\ t <= l
  BY <1>3, <1>5, <1>11 DEF Taken
<1>13. PICK x : x = Spoken(join \o Strip(SubSeq(sen, 1, cut)))
  OBVIOUS
<1>14. x \in Frag /\ IsSpoken(x) /\ Speaks(x, c, t)
  <2>1. t <= Len(text)
    BY <1>2, <1>12
  <2>2. x \in SpokenFrag /\ Speaks(x, c, t)
    BY <1>3, <1>11, <1>13, <2>1, PieceSpeaks
  <2> QED
    BY <2>2 DEF SpokenFrag
<1>15. Ordered(u, d, a, b, p)
  BY <1>2, <1>3, <1>11 DEF Ordered
<1>16. Stretches(Strip(From(sen, cut + 1)), seg, par, u, d, a, b, p)
  BY <1>1, <1>11 DEF At, Stretches, Taken
<1>17. DashesApart(c, d, a, b, p)
  BY <1>1 DEF At
<1>18. DashesApart(u, d, a, b, p)
  <2>1. u..(p - 1) \subseteq c..(p - 1)
    BY <1>3, <1>12
  <2> QED
    BY <1>4, <1>17, <2>1 DEF DashesApart
<1>19. OneSentence(c, d, a, b)
  BY <1>1 DEF At
<1>20. OneSentence(u, d, a, b)
  <2>1. u..(d - 1) \subseteq c..(d - 1)
    BY <1>3, <1>12
  <2> QED
    BY <1>4, <1>19, <2>1 DEF OneSentence
<1>21. Emitted(Append(o, x), n + 1, u, d, a, b, p)
  <2>1. Emitted(o, n, c, d, a, b, p)
    BY <1>1 DEF At
  <2>2. d <= Len(text) /\ text[c] \notin White
    BY <1>2, <1>4, <1>5, <1>6 DEF Trim
  <2>3. p = Len(text) + 1 \/ DashFrom(p)
    BY <1>4, <1>17 DEF DashesApart
  <2> QED
    BY <1>3, <1>4, <1>6, <1>7, <1>11, <1>14, <1>19, <2>1, <2>2, <2>3, PieceEmitted
<1>22. HeardSoFar(Append(o, x), u, d, a, b, p)
  <2>1. HeardSoFar(o, c, d, a, b, p)
    BY <1>1 DEF At
  <2>2. u <= Len(text) + 1
    BY <1>2, <1>5, <1>11
  <2>3. \A i \in c..t : ~InDash(i)
    BY <1>7, <1>12
  <2>4. Blank(text, t + 1, u - 1)
    BY <1>11 DEF Taken
  <2> QED
    BY <1>3, <1>4, <1>8, <1>12, <1>14, <2>1, <2>2, <2>3, <2>4, PieceHeard
<1>23. At(Strip(From(sen, cut + 1)), seg, par, Append(o, x), n + 1, u, d, a, b, p)
  BY <1>15, <1>16, <1>18, <1>20, <1>21, <1>22 DEF At
<1>24. Reached(Strip(From(sen, cut + 1)), seg, par, Append(o, x), n + 1)
  BY <1>23 DEF Reached
<1> QED
  BY <1>13, <1>24, Zenon

\* A dash lies across p.
Across(p) == p \in 2..Len(text) /\ text[p - 1] = "-" /\ text[p] = "-"

\* One dash from p up to e.
DashOver(p, e) ==
    /\ p <= e /\ e <= Len(text)
    /\ DashStart(p)
    /\ \A i \in p..e : InDash(i)
    /\ \A i \in (p + 1)..e : ~DashStart(i)
    /\ ~Across(e + 1)

LEMMA DashCovers ==
    ASSUME text \in Seq(Char), NEW p \in Nat \ {0}, p <= Len(text), DashAt(text, p), ~Across(p),
           NEW par, par = From(text, p)
    PROVE  \E e \in Nat :
              /\ DashOver(p, e)
              /\ From(par, DashLen(par) + 1) = SubSeq(text, e + 1, Len(text))
<1>1. PICK l \in Nat, m \in Nat : l = Len(text) /\ m = l - p + 1
  BY LenProperties
<1>2. par = SubSeq(text, p, l)
  BY <1>1 DEF From
<1>3. par \in Seq(Char) /\ Len(par) = m
  <2>1. p <= l + 1 /\ l <= Len(text)
    BY <1>1
  <2> QED
    BY <1>1, <1>2, <2>1, SubType, SubLen
<1>4. ASSUME NEW i \in 1..m PROVE par[i] = text[p + i - 1]
  BY <1>1, <1>2, <1>4, SubAt
<1>5. m > 0 /\ 1 \in 1..m /\ p + 1 - 1 = p
  BY <1>1
<1>6. par[1] = text[p]
  BY <1>4, <1>5
<1>7. DashAt(par, 1)
  <2>1. p <= Len(text) + 1 /\ 1 \in 1..(Len(text) - p + 1)
    BY <1>1, <1>5
  <2> QED
    BY <1>5, <2>1, DashPart
<1>8. PICK k \in Nat :
         /\ k = DashLen(par) /\ k >= 1 /\ k <= m
         /\ par[1] \in LongDash => k = 1
         /\ par[1] \notin LongDash =>
               /\ k >= 2
               /\ \A i \in 1..k : par[i] = "-"
               /\ k < m => par[k + 1] # "-"
  <2>1. DashLen(par) \in 1..m
    BY <1>3, <1>5, <1>7, DashLenIs
  <2>2. /\ par[1] \in LongDash => DashLen(par) = 1
        /\ par[1] \notin LongDash =>
               /\ DashLen(par) >= 2
               /\ \A i \in 1..DashLen(par) : par[i] = "-"
               /\ DashLen(par) < Len(par) => par[DashLen(par) + 1] # "-"
    BY <1>3, <1>5, <1>7, DashLenIs
  <2> QED
    BY <1>3, <2>1, <2>2
<1>9. PICK e \in Nat : e = p + k - 1
  BY <1>8
<1>10. p <= e /\ e <= l
  BY <1>1, <1>8, <1>9
<1>11. From(par, DashLen(par) + 1) = SubSeq(text, e + 1, Len(text))
  <2>1. PICK y \in Nat \ {0} : y = k + 1
    OBVIOUS
  <2>2. y <= m + 1 /\ m <= l - p + 1 /\ p <= l + 1 /\ l <= Len(text)
    BY <1>1, <1>8, <2>1
  <2>3. p + y - 1 = e + 1 /\ p + m - 1 = l
    BY <1>1, <1>9, <2>1
  <2>4. SubSeq(SubSeq(text, p, l), y, m) = SubSeq(text, p + y - 1, p + m - 1)
    BY <2>2, SubSub
  <2>5. From(par, y) = SubSeq(text, e + 1, l)
    BY <1>2, <1>3, <2>3, <2>4 DEF From
  <2> QED
    BY <1>1, <1>8, <2>1, <2>5
<1>12. CASE text[p] \in LongDash
  <2>1. e = p
    BY <1>6, <1>8, <1>9, <1>12
  <2>2. text[p] # "-"
    BY <1>12 DEF LongDash
  <2>3. InDash(p) /\ DashStart(p)
    BY <1>12, <2>2 DEF InDash, DashStart
  <2>4. ~Across(e + 1)
    <3>1. (p + 1) - 1 = p
      OBVIOUS
    <3> QED
      BY <2>1, <2>2, <3>1 DEF Across
  <2>5. \A i \in p..e : i = p
    BY <2>1
  <2>6. \A i \in (p + 1)..e : ~DashStart(i)
    BY <2>1
  <2>7. DashOver(p, e)
    BY <1>1, <1>10, <2>3, <2>4, <2>5, <2>6 DEF DashOver
  <2> QED
    BY <1>11, <2>7
<1>13. CASE text[p] \notin LongDash
  <2>1. /\ k >= 2
        /\ \A i \in 1..k : par[i] = "-"
        /\ k < m => par[k + 1] # "-"
    BY <1>6, <1>8, <1>13
  <2>2. ASSUME NEW i \in p..e PROVE text[i] = "-"
    <3>1. PICK w \in Nat : w = i - p + 1
      OBVIOUS
    <3>2. w \in 1..k /\ w \in 1..m /\ p + w - 1 = i
      BY <1>8, <1>9, <3>1
    <3>3. par[w] = "-"
      BY <2>1, <3>2
    <3> QED
      BY <1>4, <3>2, <3>3
  <2>3. ASSUME NEW i \in (p + 1)..e PROVE i > 1 /\ text[i - 1] = "-" /\ text[i] = "-"
    <3>1. i \in p..e /\ i - 1 \in p..e /\ i > 1
      BY <1>10
    <3> QED
      BY <2>2, <3>1
  <2>4. p < e
    BY <1>9, <2>1
  <2>5. ASSUME NEW i \in p..e PROVE InDash(i)
    <3>1. CASE i = p
      <4>1. p + 1 \in p..e /\ p < Len(text)
        BY <1>1, <1>10, <2>4
      <4>2. text[p + 1] = "-" /\ text[p] = "-"
        BY <2>2, <2>5, <3>1, <4>1
      <4> QED
        BY <3>1, <4>1, <4>2 DEF InDash
    <3>2. CASE i # p
      <4>1. i \in (p + 1)..e
        BY <3>2
      <4> QED
        BY <2>3, <4>1 DEF InDash
    <3> QED
      BY <3>1, <3>2
  <2>6. ASSUME NEW i \in (p + 1)..e PROVE ~DashStart(i)
    BY <2>3, <2>6 DEF DashStart
  <2>7. DashStart(p)
    <3>1. InDash(p)
      <4>1. p \in p..e
        BY <1>10
      <4> QED
        BY <2>5, <4>1
    <3>2. ~(p > 1 /\ text[p - 1] = "-" /\ text[p] = "-")
      BY <1>1, <1>10 DEF Across
    <3> QED
      BY <3>1, <3>2 DEF DashStart
  <2>8. ~Across(e + 1)
    <3> SUFFICES ASSUME e + 1 <= l, text[e + 1] = "-" PROVE FALSE
      BY <1>1 DEF Across
    <3>1. k < m /\ k + 1 \in 1..m /\ p + (k + 1) - 1 = e + 1
      BY <1>1, <1>8, <1>9
    <3>2. par[k + 1] = text[e + 1]
      BY <1>4, <3>1
    <3> QED
      BY <2>1, <3>1, <3>2
  <2>9. DashOver(p, e)
    BY <1>1, <1>10, <2>5, <2>6, <2>7, <2>8 DEF DashOver
  <2> QED
    BY <1>11, <2>9
<1> QED
  BY <1>12, <1>13

\* What a dash is in the text: a pause, if something was spoken before it.
LEMMA DashSoft ==
    ASSUME text \in Seq(Char), NEW p \in Nat \ {0}, NEW e \in Nat, DashOver(p, e)
    PROVE  /\ \A i \in p..e : i \notin Ink
           /\ Over(SoftAt, p, e) = IF \E j \in Ink : j < p THEN <<Pause(Beats(From(text, p)))>> ELSE <<>>
<1>1. PICK l \in Nat : l = Len(text)
  BY LenProperties
<1>2. p <= e /\ e <= l /\ DashStart(p)
  BY <1>1 DEF DashOver
<1>3. ASSUME NEW i \in p..e PROVE i \notin Ink
  BY <1>3, InkType DEF DashOver
<1>4. SoftAt[p] = IF \E j \in Ink : j < p THEN <<Pause(Beats(From(text, p)))>> ELSE <<>>
  <2>1. p \in 1..Len(text) /\ p \in p..e
    BY <1>1, <1>2
  <2>2. p \notin Ink
    BY <1>3, <2>1
  <2> QED
    BY <1>2, <2>1, <2>2 DEF SoftAt
<1>5. PICK p1 \in Nat \ {0} : p1 = p + 1
  OBVIOUS
<1>6. ASSUME NEW i \in p1..e PROVE SoftAt[i] = <<>>
  <2>1. i \in 1..Len(text) /\ i \in p..e /\ i \in (p + 1)..e
    BY <1>1, <1>2, <1>5
  <2>2. i \notin Ink /\ ~DashStart(i)
    BY <1>3, <2>1 DEF DashOver
  <2> QED
    BY <2>1, <2>2 DEF SoftAt
<1>7. Over(SoftAt, p1, e) = <<>>
  <2>1. p1 <= e + 1
    BY <1>2, <1>5
  <2> QED
    BY <1>6, <2>1, OverNothing
<1>8. Over(SoftAt, p, e) = Cat(SoftAt[p], Over(SoftAt, p + 1, e))
  <2>1. Elements(Frag, SoftAt, p, e)
    BY <1>1, <1>2, SoftElements
  <2> QED
    BY <1>2, <2>1, OverFirst
<1>9. SoftAt[p] \in Seq(Frag)
  <2>1. Elements(Frag, SoftAt, p, e)
    BY <1>1, <1>2, SoftElements
  <2>2. p \in p..e
    BY <1>2
  <2> QED
    BY <2>1, <2>2 DEF Elements
<1>10. Over(SoftAt, p, e) = SoftAt[p]
  BY <1>5, <1>7, <1>8, <1>9, CatEmpty
<1> QED
  BY <1>3, <1>4, <1>10

LEMMA SaidNothing == Said(<<>>) = <<>>
<1>1. <<>> \in Seq(Char) /\ Len(<<>>) = 0
  OBVIOUS
<1>2. Said(<<>>) = Over(SaidBy(<<>>), 1, 0)
  BY <1>1, SaidIs
<1>3. Over(SaidBy(<<>>), 1, 0) = <<>>
  BY OverEmpty
<1> QED
  BY <1>2, <1>3

\* A pause after the last fragment.
LEMMA PauseEmitted ==
    ASSUME text \in Seq(Char), NEW o, NEW n,
           NEW c, NEW d, NEW a, NEW b, NEW p,
           Emitted(o, n, c, d, a, b, p),
           NEW q, NEW d1, NEW a1, NEW b1, NEW p1,
           (\E j \in Ink : j < q) <=> (\E j \in Ink : j < c),
           Rank(q - 1) = Rank(c - 1),
           NEW x \in PauseFrag, x.text = <<>>
    PROVE  Emitted(Append(o, x), n, q, d1, a1, b1, p1)
<1>1. /\ o \in Seq(Frag)
      /\ n = CountOf(o, Len(o) + 1)
      /\ n > 0 <=> \E j \in Ink : j < c
      /\ CharsOf(o, Len(o)) = Rank(c - 1)
  BY DEF Emitted
<1>2. PICK w : w = Append(o, x)
  OBVIOUS
<1>3. PICK l \in Nat : l = Len(o)
  BY <1>1, LenProperties
<1>4. x \in Frag /\ ~IsSpoken(x)
  BY DEF PauseFrag
<1>5. /\ w \in Seq(Frag) /\ Len(w) = l + 1 /\ w[l + 1] = x
      /\ \A i \in 1..l : w[i] = o[i]
      /\ \A i \in 1..(l + 1) : CountOf(w, i) = CountOf(o, i)
      /\ \A i \in 0..l : CharsOf(w, i) = CharsOf(o, i)
  <2>1. More(o, x, w, l)
    BY <1>1, <1>2, <1>3, <1>4, OneMore
  <2> QED
    BY <2>1 DEF More
<1>6. CountOf(w, (l + 1) + 1) = n
  <2>1. PICK z \in Nat \ {0} : z = l + 1
    OBVIOUS
  <2>2. CountOf(w, z + 1) = CountOf(w, z)
    BY <1>4, <1>5, <2>1, CountIs
  <2>3. z \in 1..(l + 1)
    BY <2>1
  <2> QED
    BY <1>1, <1>3, <1>5, <2>1, <2>2, <2>3
<1>7. CharsOf(w, l + 1) = Rank(c - 1)
  <2>1. l < Len(w) /\ l \in 0..l
    BY <1>5
  <2>2. CharsOf(w, l) \in Nat /\ CharsOf(w, l + 1) = CharsOf(w, l) + Len(Said(w[l + 1].text))
    BY <1>5, <2>1, CharsIs
  <2>3. Len(Said(w[l + 1].text)) = 0
    BY <1>5, SaidNothing
  <2>4. CharsOf(w, l + 1) = CharsOf(w, l)
    BY <2>2, <2>3
  <2> QED
    BY <1>1, <1>3, <1>5, <2>1, <2>4
<1>8. ASSUME NEW i \in 1..(l + 1), IsSpoken(w[i])
      PROVE  \E f, g \in Nat :
                 /\ Span(w, i, f, g)
                 /\ i < l + 1 => Followed(w, i, f, g)
                 /\ i = l + 1 => Follows(Cap(CountOf(w, i)), f, g, q, d1, a1, b1, p1)
  <2>1. i # l + 1
    BY <1>4, <1>5, <1>8
  <2>2. i \in 1..l /\ i \in 1..(l + 1) /\ i \in 0..l /\ i - 1 \in 0..l /\ i \in Nat \ {0}
    BY <2>1
  <2>3. w[i] = o[i] /\ CountOf(w, i) = CountOf(o, i)
    BY <1>5, <2>2
  <2>4. CharsOf(w, i) = CharsOf(o, i) /\ CharsOf(w, i - 1) = CharsOf(o, i - 1)
    BY <1>5, <2>2
  <2>5. PICK f, g \in Nat :
               /\ Span(o, i, f, g)
               /\ i < Len(o) => Followed(o, i, f, g)
               /\ i = Len(o) => Follows(Cap(CountOf(o, i)), f, g, c, d, a, b, p)
    BY <1>3, <1>8, <2>2, <2>3 DEF Emitted
  <2>6. Span(w, i, f, g)
    BY <2>3, <2>4, <2>5 DEF Span
  <2>7. Followed(w, i, f, g)
    <3>1. CASE i < l
      <4>1. i + 1 \in 1..l
        BY <2>2, <3>1
      <4>2. w[i + 1] = o[i + 1]
        BY <1>5, <4>1
      <4>3. Followed(o, i, f, g)
        BY <1>3, <2>5, <3>1
      <4> QED
        BY <2>3, <2>4, <4>2, <4>3 DEF Followed
    <3>2. CASE i = l
      <4>1. ~IsSpoken(w[i + 1])
        BY <1>4, <1>5, <3>2
      <4> QED
        BY <4>1 DEF Followed
    <3> QED
      BY <2>2, <3>1, <3>2
  <2> QED
    BY <2>1, <2>6, <2>7
<1>9. Emitted(w, n, q, d1, a1, b1, p1)
  <2>1. n = CountOf(w, Len(w) + 1)
    BY <1>5, <1>6
  <2>2. CharsOf(w, Len(w)) = Rank(q - 1)
    BY <1>5, <1>7
  <2>3. n > 0 <=> \E j \in Ink : j < q
    BY <1>1
  <2> QED
    BY <1>5, <1>8, <2>1, <2>2, <2>3 DEF Emitted
<1> QED
  BY <1>2, <1>9

\* Nothing was spoken yet, and nothing comes after it.
LEMMA NothingEmitted ==
    ASSUME text \in Seq(Char), NEW o,
           NEW c, NEW d, NEW a, NEW b, NEW p,
           Emitted(o, 0, c, d, a, b, p),
           NEW q, NEW d1, NEW a1, NEW b1, NEW p1,
           (\E j \in Ink : j < q) <=> (\E j \in Ink : j < c),
           Rank(q - 1) = Rank(c - 1)
    PROVE  Emitted(o, 0, q, d1, a1, b1, p1)
<1>1. /\ o \in Seq(Frag)
      /\ 0 = CountOf(o, Len(o) + 1)
      /\ 0 > 0 <=> \E j \in Ink : j < c
      /\ CharsOf(o, Len(o)) = Rank(c - 1)
  BY DEF Emitted
<1>2. Len(o) \in Nat
  BY <1>1, LenProperties
<1>3. \A i \in 1..Len(o) : ~IsSpoken(o[i])
  BY <1>1, <1>2, CountZero
<1>4. 0 > 0 <=> \E j \in Ink : j < q
  BY <1>1
<1> QED
  BY <1>1, <1>3, <1>4 DEF Emitted

\* The next part is a dash.
LEMMA DashKeeps ==
    ASSUME text \in Seq(Char), NEW sen, NEW seg, NEW par, NEW o, NEW n,
           Reached(sen, seg, par, o, n),
           sen = <<>>, seg = <<>>, par # <<>>, DashAt(par, 1)
    PROVE  Reached(sen, seg, From(par, DashLen(par) + 1),
                   IF n = 0 THEN o ELSE Append(o, Pause(Beats(par))), n)
<1>1. PICK c, d, a, b, p \in Nat : At(sen, seg, par, o, n, c, d, a, b, p)
  BY DEF Reached
<1>2. PICK l \in Nat : l = Len(text)
  BY LenProperties
<1>3. /\ c \in Nat \ {0} /\ d \in Nat /\ a \in Nat \ {0} /\ b \in Nat /\ p \in Nat \ {0}
      /\ c <= d + 1 /\ d + 1 <= a /\ a <= b + 1 /\ b + 1 <= p /\ p <= l + 1
  BY <1>1, <1>2 DEF At, Ordered
<1>4. ~(c <= d) /\ ~(a <= b) /\ p <= l
  BY <1>1, <1>2, StretchesAre DEF At
<1>5. c = d + 1 /\ a = b + 1 /\ c <= p
  BY <1>3, <1>4
<1>6. par = SubSeq(text, p, l) /\ Blank(text, d + 1, a - 1) /\ Blank(text, b + 1, p - 1)
  BY <1>1, <1>2 DEF At, Stretches
<1>7. par = From(text, p)
  BY <1>2, <1>6 DEF From
<1>8. PICK c0 \in Nat, p0 \in Nat : c = c0 + 1 /\ c - 1 = c0 /\ p = p0 + 1 /\ p - 1 = p0
  <2>1. c - 1 \in Nat /\ c = (c - 1) + 1 /\ p - 1 \in Nat /\ p = (p - 1) + 1
    BY <1>3
  <2> QED
    BY <2>1
<1>9. Blank(text, c0 + 1, p0)
  <2>1. PICK j \in Nat : j = a - 1
    BY <1>3
  <2>2. j = b /\ d + 1 \in Nat /\ p0 \in Nat /\ d + 1 = c0 + 1
    BY <1>3, <1>5, <1>8, <2>1
  <2>3. Blank(text, d + 1, j) /\ Blank(text, j + 1, p0)
    BY <1>6, <1>8, <2>1, <2>2
  <2>4. Blank(text, d + 1, p0)
    BY <2>2, <2>3, BlankJoin
  <2> QED
    BY <2>2, <2>4
<1>10. ~Across(p)
  BY <1>1 DEF At, DashesApart, Across
<1>11. DashAt(text, p)
  <2>1. 1 \in 1..(Len(text) - p + 1) /\ p <= Len(text) + 1 /\ p + 1 - 1 = p
    BY <1>2, <1>3, <1>4
  <2>2. DashAt(From(text, p), 1) <=> DashAt(text, p + 1 - 1)
    BY <1>3, <2>1, DashPart
  <2> QED
    BY <1>7, <2>1, <2>2
<1>12. PICK e \in Nat :
          /\ DashOver(p, e)
          /\ From(par, DashLen(par) + 1) = SubSeq(text, e + 1, Len(text))
  <2>1. p <= Len(text)
    BY <1>2, <1>4
  <2> QED
    BY <1>3, <1>7, <1>10, <1>11, <2>1, DashCovers
<1>13. PICK q \in Nat \ {0} : q = e + 1 /\ q - 1 = e
  <2>1. e + 1 \in Nat \ {0} /\ (e + 1) - 1 = e
    OBVIOUS
  <2> QED
    BY <2>1
<1>14. p <= e /\ e <= l /\ p < q /\ c < q
  BY <1>2, <1>5, <1>12, <1>13 DEF DashOver
<1>15. \A i \in p..e : i \notin Ink
  BY <1>3, <1>12, DashSoft
<1>16. Over(SoftAt, 1, p0) = Over(SoftAt, 1, c0) /\ Rank(p0) = Rank(c0)
  <2>1. c0 <= p0 /\ p0 <= Len(text)
    BY <1>2, <1>4, <1>5, <1>8
  <2> QED
    BY <1>9, <2>1, BlankStretch
<1>17. \A i \in c..(p - 1) : i \notin Ink
  <2>1. c0 <= p0 /\ p0 <= Len(text)
    BY <1>2, <1>4, <1>5, <1>8
  <2>2. \A i \in (c0 + 1)..p0 : i \notin Ink
    BY <1>9, <2>1, BlankStretch
  <2> QED
    BY <1>8, <2>2
<1>18. (\E j \in Ink : j < p) <=> (\E j \in Ink : j < c)
  <2>1. ASSUME NEW j \in Ink, j < p PROVE j < c
    <3>1. j \in Nat
      BY InkType
    <3>2. j \notin c..(p - 1)
      BY <1>17
    <3> QED
      BY <1>3, <2>1, <3>1, <3>2
  <2>2. ASSUME NEW j \in Ink, j < c PROVE j < p
    <3>1. j \in Nat
      BY InkType
    <3> QED
      BY <1>3, <1>5, <2>2, <3>1
  <2> QED
    BY <2>1, <2>2
<1>19. (\E j \in Ink : j < q) <=> (\E j \in Ink : j < p)
  <2>1. ASSUME NEW j \in Ink, j < q PROVE j < p
    <3>1. j \in Nat
      BY InkType
    <3>2. j \notin p..e
      BY <1>15
    <3> QED
      BY <1>3, <1>13, <2>1, <3>1, <3>2
  <2>2. ASSUME NEW j \in Ink, j < p PROVE j < q
    <3>1. j \in Nat
      BY InkType
    <3> QED
      BY <1>3, <1>14, <2>2, <3>1
  <2> QED
    BY <2>1, <2>2
<1>20. (\E j \in Ink : j < q) <=> (\E j \in Ink : j < c)
  BY <1>18, <1>19
<1>21. Rank(e) = Rank(p0)
  <2>1. ASSUME NEW i \in p..e PROVE PlaceAt[i] = <<>>
    <3>1. i \in 1..Len(text) /\ i \notin Ink
      BY <1>2, <1>3, <1>14, <1>15
    <3> QED
      BY <3>1 DEF PlaceAt
  <2>2. Over(PlaceAt, p, e) = <<>>
    <3>1. p <= e + 1
      BY <1>14
    <3> QED
      BY <1>3, <2>1, <3>1, OverNothing
  <2>3. PICK z \in Nat \ {0} : z = 1
    OBVIOUS
  <2>4. Elements(Nat, PlaceAt, z, e)
    BY <1>2, <1>14, PlaceElements
  <2>5. z <= p0 + 1 /\ p0 <= e
    BY <1>8, <1>14, <2>3
  <2>6. Over(PlaceAt, z, e) = Cat(Over(PlaceAt, z, p0), Over(PlaceAt, p0 + 1, e))
    BY <2>4, <2>5, OverSplit
  <2>7. Over(PlaceAt, 1, p0) \in Seq(Nat)
    <3>1. p0 <= Len(text)
      BY <1>2, <1>4, <1>8
    <3> QED
      BY <3>1, RankType
  <2>8. Over(PlaceAt, 1, e) = Over(PlaceAt, 1, p0)
    BY <1>8, <2>2, <2>3, <2>6, <2>7, CatEmpty
  <2> QED
    BY <2>8 DEF Rank
<1>22. Rank(q - 1) = Rank(c - 1)
  BY <1>8, <1>13, <1>16, <1>21
<1>23. PICK x : x = Pause(Beats(par))
  OBVIOUS
<1>24. x \in PauseFrag /\ x.text = <<>>
  <2>1. x \in PauseFrag
    <3>1. p \in 1..Len(text)
      BY <1>2, <1>3, <1>4
    <3>2. DashStart(p)
      BY <1>12 DEF DashOver
    <3> QED
      BY <1>7, <1>23, <3>1, <3>2, DashPause
  <2> QED
    BY <1>23, <2>1 DEF Pause
<1>25. Emitted(o, n, c, d, a, b, p) /\ HeardSoFar(o, c, d, a, b, p)
  BY <1>1 DEF At
<1>26. o \in Seq(Frag) /\ (n > 0 <=> \E j \in Ink : j < c) /\ n \in Nat
  <2>1. o \in Seq(Frag) /\ n = CountOf(o, Len(o) + 1) /\ (n > 0 <=> \E j \in Ink : j < c)
    BY <1>25 DEF Emitted
  <2>2. Len(o) + 1 \in Nat \ {0}
    BY <2>1, LenProperties
  <2>3. CountOf(o, Len(o) + 1) \in Nat
    BY <2>2, CountIs
  <2> QED
    BY <2>1, <2>3
<1>27. HeardOf(o) = Over(SoftAt, 1, c0) /\ HeardOf(o) \in Seq(Frag)
  <2>1. Cat(HeardOf(o), <<>>) = Over(SoftAt, 1, c - 1)
    BY <1>2, <1>4, <1>25 DEF HeardSoFar
  <2>2. HeardOf(o) \in Seq(Frag)
    BY <1>26, HeardIs
  <2> QED
    BY <1>8, <2>1, <2>2, CatEmpty
<1>28. Over(SoftAt, 1, e) = Cat(HeardOf(o), Over(SoftAt, p, e))
  <2>1. PICK z \in Nat \ {0} : z = 1
    OBVIOUS
  <2>2. Elements(Frag, SoftAt, z, e)
    BY <1>2, <1>14, SoftElements
  <2>3. z <= p0 + 1 /\ p0 <= e
    BY <1>8, <1>14, <2>1
  <2>4. Over(SoftAt, z, e) = Cat(Over(SoftAt, z, p0), Over(SoftAt, p0 + 1, e))
    BY <2>2, <2>3, OverSplit
  <2> QED
    BY <1>8, <1>16, <1>27, <2>1, <2>4
<1>29. Over(SoftAt, p, e) = IF \E j \in Ink : j < p THEN <<x>> ELSE <<>>
  BY <1>3, <1>7, <1>12, <1>23, DashSoft
<1>30. PICK w : w = IF n = 0 THEN o ELSE Append(o, x)
  OBVIOUS
<1>31. Emitted(w, n, q, e, q, e, q) /\ w \in Seq(Frag) /\ HeardOf(w) = Over(SoftAt, 1, e)
  <2>1. CASE n = 0
    <3>1. Over(SoftAt, p, e) = <<>>
      BY <1>18, <1>26, <1>29, <2>1
    <3>2. HeardOf(o) = Over(SoftAt, 1, e)
      BY <1>27, <1>28, <3>1, CatEmpty
    <3>3. Emitted(o, 0, q, e, q, e, q)
      BY <1>20, <1>22, <1>25, <2>1, NothingEmitted
    <3> QED
      BY <1>26, <1>30, <2>1, <3>2, <3>3
  <2>2. CASE n # 0
    <3>1. n > 0
      BY <1>26, <2>2
    <3>2. Over(SoftAt, p, e) = <<x>>
      BY <1>18, <1>26, <1>29, <3>1
    <3>3. x \in Frag /\ ~IsSpoken(x)
      BY <1>24 DEF PauseFrag
    <3>4. HeardOf(Append(o, x)) = Over(SoftAt, 1, e)
      BY <1>26, <1>28, <3>2, <3>3, HeardAppend
    <3>5. Emitted(Append(o, x), n, q, e, q, e, q)
      BY <1>20, <1>22, <1>24, <1>25, PauseEmitted
    <3>6. Append(o, x) \in Seq(Frag)
      BY <1>26, <3>3, AppendIs
    <3> QED
      BY <1>30, <2>2, <3>4, <3>5, <3>6
  <2> QED
    BY <2>1, <2>2
<1>32. HeardSoFar(w, q, e, q, e, q)
  <2>1. HeardOf(w) \in Seq(Frag)
    BY <1>31, HeardIs
  <2>2. Cat(HeardOf(w), <<>>) = Over(SoftAt, 1, q - 1)
    BY <1>13, <1>31, <2>1, CatEmpty
  <2>3. <<>> \in Seq(PauseFrag)
    OBVIOUS
  <2> QED
    BY <2>2, <2>3 DEF HeardSoFar
<1>33. Ordered(q, e, q, e, q)
  BY <1>2, <1>13, <1>14 DEF Ordered
<1>34. Stretches(sen, seg, From(par, DashLen(par) + 1), q, e, q, e, q)
  <2>1. e < q
    BY <1>13
  <2>2. SubSeq(text, q, e) = <<>>
    BY <2>1, SubNone
  <2>3. Blank(text, e + 1, q - 1)
    BY <1>13 DEF Blank
  <2>4. Trim(text, q, e)
    BY <2>1 DEF Trim
  <2>5. From(par, DashLen(par) + 1) = SubSeq(text, q, Len(text))
    BY <1>12, <1>13
  <2> QED
    BY <2>2, <2>3, <2>4, <2>5 DEF Stretches
<1>35. DashesApart(q, e, q, e, q)
  <2>1. ~(q <= e)
    BY <1>13
  <2>2. \A i \in q..(q - 1) : ~InDash(i)
    BY <1>13
  <2>3. ~Across(q)
    BY <1>12, <1>13 DEF DashOver
  <2> QED
    BY <2>1, <2>2, <2>3 DEF DashesApart, Across
<1>36. OneSentence(q, e, q, e)
  BY <1>13 DEF OneSentence
<1>37. At(sen, seg, From(par, DashLen(par) + 1), w, n, q, e, q, e, q)
  BY <1>31, <1>32, <1>33, <1>34, <1>35, <1>36 DEF At
<1>38. Reached(sen, seg, From(par, DashLen(par) + 1), w, n)
  BY <1>37 DEF Reached
<1> QED
  BY <1>23, <1>30, <1>38, Zenon

\* A pause says nothing.
LEMMA PauseSays ==
    ASSUME NEW x \in PauseFrag
    PROVE  x \in Frag /\ ~IsSpoken(x) /\ x.text = <<>>
BY DEF PauseFrag, Frag

\* When nothing is left, only white space lies from c to the end.
LEMMA AllSaid ==
    ASSUME text \in Seq(Char), NEW sen, NEW seg, NEW par, NEW o, NEW n,
           NEW c \in Nat, NEW d \in Nat, NEW a \in Nat, NEW b \in Nat, NEW p \in Nat,
           At(sen, seg, par, o, n, c, d, a, b, p),
           sen = <<>>, seg = <<>>, par = <<>>
    PROVE  /\ ~(c <= d) /\ ~(a <= b) /\ p = Len(text) + 1
           /\ c \in Nat \ {0} /\ c <= Len(text) + 1
           /\ Blank(text, c, Len(text))
<1>1. PICK l \in Nat : l = Len(text)
  BY LenProperties
<1>2. /\ c \in Nat \ {0} /\ d \in Nat /\ a \in Nat \ {0} /\ b \in Nat /\ p \in Nat \ {0}
      /\ c <= d + 1 /\ d + 1 <= a /\ a <= b + 1 /\ b + 1 <= p /\ p <= l + 1
  BY <1>1 DEF At, Ordered
<1>3. ~(c <= d) /\ ~(a <= b) /\ ~(p <= l)
  BY <1>1, StretchesAre DEF At
<1>4. c = d + 1 /\ a = b + 1 /\ p = l + 1 /\ c <= l + 1
  BY <1>2, <1>3
<1>5. Blank(text, d + 1, a - 1) /\ Blank(text, b + 1, p - 1)
  BY DEF At, Stretches
<1>6. Blank(text, c, l)
  <2>1. PICK j \in Nat : j = a - 1
    BY <1>2
  <2>2. j = b /\ c = d + 1 /\ p - 1 = l /\ c >= c
    BY <1>2, <1>4, <2>1
  <2>3. Blank(text, c, j) /\ Blank(text, j + 1, l)
    BY <1>5, <2>1, <2>2
  <2> QED
    BY <2>2, <2>3, BlankJoin
<1> QED
  BY <1>1, <1>2, <1>3, <1>4, <1>6

\* A pause at the end is taken off.
LEMMA DropKeeps ==
    ASSUME text \in Seq(Char), NEW sen, NEW seg, NEW par, NEW o, NEW n,
           Reached(sen, seg, par, o, n),
           sen = <<>>, seg = <<>>, par = <<>>, Ends(o)
    PROVE  Reached(sen, seg, par, SubSeq(o, 1, Len(o) - 1), n)
<1>1. PICK c, d, a, b, p \in Nat : At(sen, seg, par, o, n, c, d, a, b, p)
  BY DEF Reached
<1>2. /\ ~(c <= d) /\ ~(a <= b) /\ p = Len(text) + 1
      /\ c \in Nat \ {0} /\ c <= Len(text) + 1
      /\ Blank(text, c, Len(text))
  BY <1>1, AllSaid
<1>3. Emitted(o, n, c, d, a, b, p) /\ HeardSoFar(o, c, d, a, b, p)
  BY <1>1 DEF At
<1>4. /\ o \in Seq(Frag)
      /\ n = CountOf(o, Len(o) + 1)
      /\ n > 0 <=> \E j \in Ink : j < c
      /\ CharsOf(o, Len(o)) = Rank(c - 1)
  BY <1>3 DEF Emitted
<1>5. PICK w \in Seq(Frag), x \in Frag :
         /\ w = SubSeq(o, 1, Len(o) - 1)
         /\ x = o[Len(o)]
         /\ o = Append(w, x)
         /\ Len(o) = Len(w) + 1
  <2>1. Len(o) > 0
    BY <1>4, LenProperties, EmptySeq DEF Ends
  <2> QED
    BY <1>4, <2>1, FrontLast
<1>6. PICK l \in Nat : l = Len(w)
  BY LenProperties
<1>7. Len(o) = l + 1
  BY <1>5, <1>6
<1>8. /\ o[l + 1] = x
      /\ \A i \in 1..l : o[i] = w[i]
      /\ \A i \in 1..(l + 1) : CountOf(o, i) = CountOf(w, i)
      /\ \A i \in 0..l : CharsOf(o, i) = CharsOf(w, i)
  <2>1. More(w, x, o, l)
    BY <1>5, <1>6, OneMore
  <2> QED
    BY <2>1 DEF More
<1>9. x \in PauseFrag /\ x.text = <<>> /\ ~IsSpoken(x)
  <2>1. x \in PauseFrag
    BY <1>5 DEF Ends, PauseFrag
  <2> QED
    BY <2>1, PauseSays
<1>10. n = CountOf(w, l + 1)
  <2>1. PICK z \in Nat \ {0} : z = l + 1
    OBVIOUS
  <2>2. CountOf(o, z + 1) = CountOf(o, z)
    BY <1>8, <1>9, <2>1, CountIs
  <2>3. z \in 1..(l + 1)
    BY <2>1
  <2> QED
    BY <1>4, <1>7, <1>8, <2>1, <2>2, <2>3
<1>11. CharsOf(w, l) = Rank(c - 1)
  <2>1. l < Len(o) /\ l \in 0..l
    BY <1>7
  <2>2. CharsOf(o, l) \in Nat /\ CharsOf(o, l + 1) = CharsOf(o, l) + Len(Said(o[l + 1].text))
    BY <1>4, <2>1, CharsIs
  <2>3. Len(Said(o[l + 1].text)) = 0
    BY <1>8, <1>9, SaidNothing
  <2>4. CharsOf(o, l + 1) = CharsOf(o, l)
    BY <2>2, <2>3
  <2> QED
    BY <1>4, <1>7, <1>8, <2>1, <2>4
<1>12. ASSUME NEW t \in Ink PROVE t < c
  <2>1. PICK k \in Nat : k = Len(text)
    BY LenProperties
  <2>2. t \in 1..k /\ text[t] \notin White
    BY <2>1, InkType
  <2>3. t \notin c..k
    BY <1>2, <2>1, <2>2 DEF Blank
  <2> QED
    BY <1>2, <2>2, <2>3
<1>13. ASSUME NEW i \in 1..l, IsSpoken(w[i])
       PROVE  \E f, g \in Nat :
                 /\ Span(w, i, f, g)
                 /\ i < l => Followed(w, i, f, g)
                 /\ i = l => Follows(Cap(CountOf(w, i)), f, g, c, d, a, b, p)
  <2>1. i \in 1..(l + 1) /\ i \in 0..l /\ i - 1 \in 0..l /\ i < l + 1 /\ i \in 1..Len(o)
    BY <1>7
  <2>2. w[i] = o[i] /\ CountOf(w, i) = CountOf(o, i)
    BY <1>8, <2>1
  <2>3. CharsOf(w, i) = CharsOf(o, i) /\ CharsOf(w, i - 1) = CharsOf(o, i - 1)
    BY <1>8, <2>1
  <2>4. PICK f, g \in Nat : Span(o, i, f, g) /\ (i < Len(o) => Followed(o, i, f, g))
    BY <1>3, <1>13, <2>1, <2>2 DEF Emitted
  <2>5. Span(w, i, f, g)
    BY <2>2, <2>3, <2>4 DEF Span
  <2>6. ASSUME i < l PROVE Followed(w, i, f, g)
    <3>1. i + 1 \in 1..l
      BY <2>1, <2>6
    <3>2. w[i + 1] = o[i + 1]
      BY <1>8, <3>1
    <3>3. Followed(o, i, f, g)
      BY <1>7, <2>1, <2>4
    <3> QED
      BY <2>2, <2>3, <3>2, <3>3 DEF Followed
  <2>7. Follows(Cap(CountOf(w, i)), f, g, c, d, a, b, p)
    <3>1. g < c
      BY <1>12, <2>4 DEF Span
    <3> QED
      BY <1>2, <3>1 DEF Follows
  <2> QED
    BY <2>5, <2>6, <2>7
<1>14. Emitted(w, n, c, d, a, b, p)
  <2>1. n = CountOf(w, Len(w) + 1) /\ CharsOf(w, Len(w)) = Rank(c - 1)
    BY <1>6, <1>10, <1>11
  <2> QED
    BY <1>4, <1>5, <1>6, <1>13, <2>1 DEF Emitted
<1>15. HeardSoFar(w, c, d, a, b, p)
  <2>1. PICK trail \in Seq(PauseFrag) : Cat(HeardOf(o), trail) = Over(SoftAt, 1, c - 1)
    BY <1>3 DEF HeardSoFar
  <2>2. HeardOf(o) = Cat(HeardOf(w), <<x>>)
    BY <1>5, <1>9, HeardAppend
  <2>3. <<x>> \in Seq(PauseFrag)
    BY <1>9
  <2>4. PICK y \in Seq(PauseFrag) : y = Cat(<<x>>, trail)
    BY <2>3, CatType
  <2>5. HeardOf(w) \in Seq(Frag) /\ <<x>> \in Seq(Frag) /\ trail \in Seq(Frag)
    <3>1. HeardOf(w) \in Seq(Frag)
      BY HeardIs
    <3>2. PauseFrag \subseteq Frag
      BY FragKinds
    <3>3. <<x>> \in Seq(Frag)
      OBVIOUS
    <3>4. trail \in Seq(Frag)
      BY <3>2, SeqMore
    <3> QED
      BY <3>1, <3>3, <3>4
  <2>6. Cat(HeardOf(w), y) = Over(SoftAt, 1, c - 1)
    <3>1. PICK h \in Seq(Frag), z \in Seq(Frag) : h = HeardOf(w) /\ z = <<x>>
      BY <2>5
    <3>2. Cat(Cat(h, z), trail) = Cat(h, Cat(z, trail))
      BY <2>5, CatAssoc
    <3> QED
      BY <2>1, <2>2, <2>4, <3>1, <3>2, Zenon
  <2>7. ~(c <= d \/ a <= b \/ p <= Len(text))
    BY <1>2, LenProperties
  <2> QED
    BY <2>6, <2>7 DEF HeardSoFar
<1>16. At(sen, seg, par, w, n, c, d, a, b, p)
  BY <1>1, <1>14, <1>15 DEF At
<1>17. Reached(sen, seg, par, w, n)
  BY <1>16 DEF Reached
<1> QED
  BY <1>5, <1>17

LEMMA StartEmpty ==
    ASSUME NEW h
    PROVE  Over(h, 1, 0) = <<>>
<1>1. 1 \in Nat /\ 0 \in Nat /\ 0 + 1 = 1
  OBVIOUS
<1> QED
  BY <1>1, OverEmpty

\* At the start all the text is left.
LEMMA StartReached ==
    ASSUME text \in Seq(Char)
    PROVE  Reached(<<>>, <<>>, text, <<>>, 0)
<1>1. PICK l \in Nat : l = Len(text)
  BY LenProperties
<1>2. PICK z \in Nat \ {0}, y \in Nat : z = 1 /\ y = 0 /\ z - 1 = y /\ y + 1 = z
  OBVIOUS
<1>3. Ordered(z, y, z, y, z)
  BY <1>1, <1>2 DEF Ordered
<1>4. Stretches(<<>>, <<>>, text, z, y, z, y, z)
  <2>1. SubSeq(text, z, y) = <<>>
    BY <1>2, SubNone
  <2>2. SubSeq(text, z, l) = text
    BY <1>1, <1>2
  <2>3. Blank(text, y + 1, z - 1)
    BY <1>2 DEF Blank
  <2>4. Trim(text, z, y)
    BY <1>2 DEF Trim
  <2> QED
    BY <1>1, <2>1, <2>2, <2>3, <2>4 DEF Stretches
<1>5. DashesApart(z, y, z, y, z)
  <2>1. ~(z <= y) /\ \A i \in z..(z - 1) : ~InDash(i)
    BY <1>2
  <2>2. z \notin 2..Len(text)
    BY <1>1, <1>2
  <2> QED
    BY <2>1, <2>2 DEF DashesApart
<1>6. OneSentence(z, y, z, y)
  BY <1>2 DEF OneSentence
<1>7. Emitted(<<>>, 0, z, y, z, y, z)
  <2>1. <<>> \in Seq(Frag) /\ Len(<<>>) = 0
    OBVIOUS
  <2>2. CountOf(<<>>, 1) = 0 /\ CharsOf(<<>>, 0) = 0
    BY CountNone, CharsNone
  <2>3. Rank(0) = 0
    <3>1. Over(PlaceAt, 1, 0) = <<>>
      BY StartEmpty
    <3> QED
      BY <3>1 DEF Rank
  <2>4. ~\E j \in Ink : j < z
    BY <1>2, InkType
  <2>5. 0 = CountOf(<<>>, Len(<<>>) + 1)
    BY <2>1, <2>2
  <2>6. CharsOf(<<>>, Len(<<>>)) = Rank(z - 1)
    BY <1>2, <2>1, <2>2, <2>3
  <2>7. 0 > 0 <=> \E j \in Ink : j < z
    BY <2>4
  <2>8. \A i \in 1..Len(<<>>) : FALSE
    BY <2>1
  <2> QED
    BY <2>1, <2>5, <2>6, <2>7, <2>8 DEF Emitted
<1>8. HeardSoFar(<<>>, z, y, z, y, z)
  <2>1. Over(SoftAt, 1, 0) = <<>>
    BY StartEmpty
  <2>2. <<>> \in Seq(PauseFrag) /\ Cat(<<>>, <<>>) = <<>>
    <3>1. <<>> \in Seq(PauseFrag)
      OBVIOUS
    <3> QED
      BY <3>1, CatEmpty
  <2>3. Cat(HeardOf(<<>>), <<>>) = Over(SoftAt, 1, z - 1)
    BY <1>2, <2>1, <2>2, HeardNothing
  <2> QED
    BY <2>2, <2>3 DEF HeardSoFar
<1>9. At(<<>>, <<>>, text, <<>>, 0, z, y, z, y, z)
  BY <1>3, <1>4, <1>5, <1>6, <1>7, <1>8 DEF At
<1> QED
  BY <1>9 DEF Reached

(***************************************************************************)
(* The text and its ramp do not change, and so nothing that is said of     *)
(* them does.                                                              *)
(***************************************************************************)
LEMMA SameText ==
    ASSUME text' = text, ramp' = ramp
    PROVE  /\ \A i : InDash(i)' <=> InDash(i)
           /\ \A i : DashStart(i)' <=> DashStart(i)
           /\ \A i : DashFrom(i)' <=> DashFrom(i)
           /\ \A i, j : SameSentence(i, j)' <=> SameSentence(i, j)
           /\ Ink' = Ink
           /\ SoftAt' = SoftAt
           /\ PlaceAt' = PlaceAt
           /\ \A i : Rank(i)' = Rank(i)
           /\ \A k : Cap(k)' = Cap(k)
<1>1. \A i : InDash(i)' <=> InDash(i)
  BY DEF InDash
<1>2. \A i : DashStart(i)' <=> DashStart(i)
  BY <1>1 DEF DashStart
<1>3. \A i : DashFrom(i)' <=> DashFrom(i)
  BY DEF DashFrom
<1>4. \A i, j : SameSentence(i, j)' <=> SameSentence(i, j)
  BY DEF SameSentence
<1>5. Ink' = Ink
  BY <1>1 DEF Ink
<1>6. SoftAt' = SoftAt
  BY <1>2, <1>5 DEF SoftAt
<1>7. PlaceAt' = PlaceAt
  BY <1>5 DEF PlaceAt
<1>8. \A i : Rank(i)' = Rank(i)
  BY <1>7 DEF Rank
<1>9. \A k : Cap(k)' = Cap(k)
  BY DEF Cap
<1> QED
  BY <1>1, <1>2, <1>3, <1>4, <1>5, <1>6, <1>7, <1>8, <1>9

LEMMA SameLayout ==
    ASSUME text' = text, ramp' = ramp,
           NEW c, NEW d, NEW a, NEW b, NEW p
    PROVE  /\ Ordered(c, d, a, b, p)' <=> Ordered(c, d, a, b, p)
           /\ DashesApart(c, d, a, b, p)' <=> DashesApart(c, d, a, b, p)
           /\ OneSentence(c, d, a, b)' <=> OneSentence(c, d, a, b)
<1>1. Ordered(c, d, a, b, p)' <=> Ordered(c, d, a, b, p)
  BY DEF Ordered
<1>2. DashesApart(c, d, a, b, p)' <=> DashesApart(c, d, a, b, p)
  BY SameText DEF DashesApart
<1>3. OneSentence(c, d, a, b)' <=> OneSentence(c, d, a, b)
  BY DEF OneSentence
<1> QED
  BY <1>1, <1>2, <1>3

LEMMA SameCuts ==
    ASSUME text' = text, ramp' = ramp
    PROVE  /\ \A cap, f, t, g : CutAt(cap, f, t, g)' <=> CutAt(cap, f, t, g)
           /\ \A cap, f, t, c, d, a, b, p :
                 Follows(cap, f, t, c, d, a, b, p)' <=> Follows(cap, f, t, c, d, a, b, p)
           /\ \A o, i, f, t : Span(o, i, f, t)' <=> Span(o, i, f, t)
           /\ \A o, i, f, t : Followed(o, i, f, t)' <=> Followed(o, i, f, t)
<1>1. ASSUME NEW cap, NEW f, NEW t, NEW g
      PROVE  CutAt(cap, f, t, g)' <=> CutAt(cap, f, t, g)
  <2>1. Ink' = Ink /\ \A i, j : SameSentence(i, j)' <=> SameSentence(i, j)
    BY SameText
  <2>2. \A i : SameSentence(g, i)' <=> SameSentence(g, i)
    BY <2>1
  <2>3. SameSentence(f, g)' <=> SameSentence(f, g)
    BY <2>1
  <2>4. (\E i \in Ink : i >= f + cap /\ SameSentence(g, i))'
           <=> \E i \in Ink : i >= f + cap /\ SameSentence(g, i)
    BY <2>1, <2>2, Zenon
  <2> QED
    BY <2>3, <2>4, Zenon DEF CutAt
<1>2. \A cap, f, t, c, d, a, b, p :
         Follows(cap, f, t, c, d, a, b, p)' <=> Follows(cap, f, t, c, d, a, b, p)
  BY SameText, <1>1 DEF Follows
<1>3. ASSUME NEW o, NEW i, NEW f, NEW t
      PROVE  Span(o, i, f, t)' <=> Span(o, i, f, t)
  <2>1. Ink' = Ink /\ Rank(f - 1)' = Rank(f - 1) /\ Rank(t)' = Rank(t)
    BY SameText
  <2>2. Cap(CountOf(o, i))' = Cap(CountOf(o, i))
    BY SameText
  <2> QED
    BY <2>1, <2>2, Zenon DEF Span
<1>4. \A o, i, f, t : Followed(o, i, f, t)' <=> Followed(o, i, f, t)
  BY SameText, <1>1 DEF Followed
<1> QED
  BY <1>1, <1>2, <1>3, <1>4

LEMMA SameFragments ==
    ASSUME text' = text, ramp' = ramp,
           NEW sen, NEW seg, NEW par, NEW o, NEW n,
           Reached(sen, seg, par, o, n)
    PROVE  Reached(sen, seg, par, o, n)'
<1>1. PICK c, d, a, b, p \in Nat : At(sen, seg, par, o, n, c, d, a, b, p)
  BY DEF Reached
<1>2. Ordered(c, d, a, b, p)' /\ DashesApart(c, d, a, b, p)' /\ OneSentence(c, d, a, b)'
  BY <1>1, SameLayout DEF At
<1>3. Stretches(sen, seg, par, c, d, a, b, p)'
  BY <1>1 DEF At, Stretches
<1>4. Emitted(o, n, c, d, a, b, p)'
  <2>1. Emitted(o, n, c, d, a, b, p)
    BY <1>1 DEF At
  <2> QED
    BY <2>1, SameText, SameCuts DEF Emitted
<1>5. HeardSoFar(o, c, d, a, b, p)'
  <2>1. HeardSoFar(o, c, d, a, b, p)
    BY <1>1 DEF At
  <2> QED
    BY <2>1, SameText DEF HeardSoFar
<1>6. At(sen, seg, par, o, n, c, d, a, b, p)'
  BY <1>2, <1>3, <1>4, <1>5 DEF At
<1> QED
  BY <1>6 DEF Reached

LEMMA NextReached ==
    ASSUME text' = text, ramp' = ramp, text \in Seq(Char),
           Reached(sentence', segment', parts', out', spoken')
    PROVE  SplitInv'
<1>1. PICK sen, seg, par, o, n :
         sen = sentence' /\ seg = segment' /\ par = parts' /\ o = out' /\ n = spoken'
  OBVIOUS
<1>2. Reached(sen, seg, par, o, n)
  BY <1>1
<1>3. Reached(sen, seg, par, o, n)'
  BY <1>2, SameFragments
<1>4. text' \in Seq(Char)
  OBVIOUS
<1> QED
  BY <1>1, <1>3, <1>4 DEF SplitInv

LEMMA SplitStarts ==
    ASSUME SplitInit
    PROVE  SplitInv
<1>1. text \in Seq(Char)
  <2>1. text \in Seq(STRING)
    BY FragmentsAssumption DEF SplitInit
  <2>2. STRING \subseteq Char
    BY DEF Char
  <2> QED
    BY <2>1, <2>2, SeqMore
<1>2. sentence = <<>> /\ segment = <<>> /\ parts = text /\ out = <<>> /\ spoken = 0
  BY DEF SplitInit
<1> QED
  BY <1>1, <1>2, StartReached DEF SplitInv

\* Each pass of the loops.
LEMMA SplitStep ==
    ASSUME SplitInv, [SplitNext]_splitVars
    PROVE  SplitInv'
<1>1. text \in Seq(Char) /\ Reached(sentence, segment, parts, out, spoken)
  BY DEF SplitInv
<1>2. ASSUME NextSegment PROVE SplitInv'
  <2>1. PICK dashes : dashes = {i \in 1..(Len(parts) - 1) : DashAt(parts, i + 1)}
    OBVIOUS
  <2>2. /\ sentence = <<>> /\ segment = <<>> /\ parts # <<>> /\ ~DashAt(parts, 1)
        /\ segment' = Strip(Upto(parts, dashes)) /\ parts' = After(parts, dashes)
        /\ text' = text /\ ramp' = ramp
        /\ sentence' = sentence /\ out' = out /\ spoken' = spoken
    BY <1>2, <2>1 DEF NextSegment, PartDone
  <2>3. Reached(sentence, Strip(Upto(parts, dashes)), After(parts, dashes), out, spoken)
    BY <1>1, <2>1, <2>2, SegmentKeeps
  <2>4. Reached(sentence', segment', parts', out', spoken')
    BY <2>2, <2>3
  <2> QED
    BY <1>1, <2>2, <2>4, NextReached
<1>3. ASSUME Dash PROVE SplitInv'
  <2>1. /\ sentence = <<>> /\ segment = <<>> /\ parts # <<>> /\ DashAt(parts, 1)
        /\ out' = IF spoken = 0 THEN out ELSE Append(out, Pause(Beats(parts)))
        /\ parts' = From(parts, DashLen(parts) + 1)
        /\ text' = text /\ ramp' = ramp
        /\ sentence' = sentence /\ segment' = segment /\ spoken' = spoken
    BY <1>3 DEF Dash, PartDone
  <2>2. Reached(sentence, segment, From(parts, DashLen(parts) + 1),
                IF spoken = 0 THEN out ELSE Append(out, Pause(Beats(parts))), spoken)
    BY <1>1, <2>1, DashKeeps
  <2>3. Reached(sentence', segment', parts', out', spoken')
    BY <2>1, <2>2
  <2> QED
    BY <1>1, <2>1, <2>3, NextReached
<1>4. ASSUME NextSentence PROVE SplitInv'
  <2>1. PICK ends : ends = {i \in 1..Len(segment) : EndsAt(segment, i)}
    OBVIOUS
  <2>2. /\ sentence = <<>> /\ segment # <<>>
        /\ sentence' = Strip(Upto(segment, ends)) /\ segment' = Strip(After(segment, ends))
        /\ text' = text /\ ramp' = ramp
        /\ parts' = parts /\ out' = out /\ spoken' = spoken
    BY <1>4, <2>1 DEF NextSentence
  <2>3. Reached(Strip(Upto(segment, ends)), Strip(After(segment, ends)), parts, out, spoken)
    BY <1>1, <2>1, <2>2, SentenceKeeps
  <2>4. Reached(sentence', segment', parts', out', spoken')
    BY <2>2, <2>3
  <2> QED
    BY <1>1, <2>2, <2>4, NextReached
<1>5. ASSUME Piece PROVE SplitInv'
  <2>1. PICK cut : cut = IF Len(sentence) <= CapNow THEN Len(sentence)
                         ELSE Boundary(sentence, CapNow)
    OBVIOUS
  <2>2. PICK join : join = IF nth > 1 /\ fresh THEN <<" ">> ELSE <<>>
    OBVIOUS
  <2>3. /\ sentence # <<>>
        /\ out' = Append(out, Spoken(join \o Strip(SubSeq(sentence, 1, cut))))
        /\ sentence' = Strip(From(sentence, cut + 1))
        /\ spoken' = spoken + 1
        /\ text' = text /\ ramp' = ramp /\ parts' = parts /\ segment' = segment
    BY <1>5, <2>1, <2>2, Zenon DEF Piece
  <2>4. CutIs(cut, sentence, Cap(spoken))
    BY <2>1 DEF CutIs, CapNow
  <2>5. Joint(join)
    BY <2>2, Zenon DEF Joint
  <2>6. Reached(Strip(From(sentence, cut + 1)), segment, parts,
                Append(out, Spoken(join \o Strip(SubSeq(sentence, 1, cut)))), spoken + 1)
    BY <1>1, <2>3, <2>4, <2>5, PieceKeeps, Zenon
  <2>7. Reached(sentence', segment', parts', out', spoken')
    BY <2>3, <2>6, Zenon
  <2>8. text' = text /\ ramp' = ramp
    BY <2>3, Zenon
  <2> QED
    BY <1>1, <2>7, <2>8, NextReached
<1>6. ASSUME DropTrailing PROVE SplitInv'
  <2>1. /\ sentence = <<>> /\ segment = <<>> /\ parts = <<>> /\ Ends(out)
        /\ out' = SubSeq(out, 1, Len(out) - 1)
        /\ text' = text /\ ramp' = ramp /\ parts' = parts
        /\ sentence' = sentence /\ segment' = segment /\ spoken' = spoken
    BY <1>6 DEF DropTrailing, Exhausted, PartDone
  <2>2. Reached(sentence, segment, parts, SubSeq(out, 1, Len(out) - 1), spoken)
    BY <1>1, <2>1, DropKeeps
  <2>3. Reached(sentence', segment', parts', out', spoken')
    BY <2>1, <2>2
  <2> QED
    BY <1>1, <2>1, <2>3, NextReached
<1>7. ASSUME UNCHANGED splitVars PROVE SplitInv'
  <2>1. /\ text' = text /\ ramp' = ramp /\ parts' = parts /\ out' = out
        /\ sentence' = sentence /\ segment' = segment /\ spoken' = spoken
    BY <1>7 DEF splitVars
  <2>2. Reached(sentence', segment', parts', out', spoken')
    BY <1>1, <2>1
  <2> QED
    BY <1>1, <2>1, <2>2, NextReached
<1> QED
  BY <1>2, <1>3, <1>4, <1>5, <1>6, <1>7 DEF SplitNext

\* What is left of a text at any moment of the split, and what is said of the fragments
\* so far, for every text, cap and ramp.
THEOREM SplitInvariance == SplitSpec => []SplitInv
<1>1. SplitInit => SplitInv
  BY SplitStarts
<1>2. SplitInv /\ [SplitNext]_splitVars => SplitInv'
  BY SplitStep
<1> QED
  BY <1>1, <1>2, PTL DEF SplitSpec

-----------------------------------------------------------------------------
(* The properties of the split                                             *)

\* A stretch that is spoken, with or without the space in front.
Stretch(u, f, t) ==
    /\ u \in Seq(Char) /\ u = SubSeq(text, f, t)
    /\ Len(u) = t - f + 1 /\ Len(u) > 0
    /\ u[1] \notin White /\ u[Len(u)] \notin White

LEMMA SpanText ==
    ASSUME text \in Seq(Char), NEW o, NEW i, NEW f \in Nat, NEW t \in Nat, Span(o, i, f, t)
    PROVE  Stretch(SubSeq(text, f, t), f, t)
<1>1. PICK l \in Nat : l = Len(text)
  BY LenProperties
<1>2. f \in 1..l /\ t \in 1..l /\ text[f] \notin White /\ text[t] \notin White /\ f <= t
  BY <1>1, InkType DEF Span
<1>3. PICK u : u = SubSeq(text, f, t)
  OBVIOUS
<1>4. PICK n \in Nat : n = t - f + 1 /\ n > 0
  BY <1>2
<1>5. u \in Seq(Char) /\ Len(u) = n
  <2>1. f \in Nat \ {0} /\ f <= t + 1 /\ t <= Len(text)
    BY <1>1, <1>2
  <2> QED
    BY <1>3, <1>4, <2>1, SubType, SubLen
<1>6. ASSUME NEW j \in 1..n PROVE u[j] = text[f + j - 1]
  <2>1. f \in Nat \ {0} /\ t <= Len(text)
    BY <1>1, <1>2
  <2> QED
    BY <1>3, <1>4, <2>1, SubAt
<1>7. u[1] = text[f]
  <2>1. 1 \in 1..n /\ f + 1 - 1 = f
    BY <1>4
  <2> QED
    BY <1>6, <2>1
<1>8. u[n] = text[t]
  <2>1. n \in 1..n /\ f + n - 1 = t
    BY <1>4
  <2> QED
    BY <1>6, <2>1
<1> QED
  BY <1>2, <1>3, <1>4, <1>5, <1>7, <1>8 DEF Stretch

LEMMA Capped ==
    ASSUME SplitInv
    PROVE  WithinCap
<1>1. text \in Seq(Char) /\ Reached(sentence, segment, parts, out, spoken)
  BY DEF SplitInv
<1>2. PICK c, d, a, b, p \in Nat : Emitted(out, spoken, c, d, a, b, p)
  BY <1>1 DEF Reached, At
<1>3. ASSUME NEW i \in 1..Len(out), IsSpoken(out[i])
      PROVE  \E n \in Nat :
                /\ n > 0 /\ n <= Cap(SpokenBefore(i))
                /\ \/ out[i].text[1] # " " /\ Len(out[i].text) = n
                   \/ out[i].text[1] = " " /\ Len(out[i].text) = n + 1
  <2>1. PICK f, g \in Nat : Span(out, i, f, g)
    BY <1>2, <1>3 DEF Emitted
  <2>2. PICK u \in Seq(Char) :
              /\ Len(u) = g - f + 1 /\ Len(u) > 0
              /\ u[1] \notin White /\ u[Len(u)] \notin White
              /\ u = SubSeq(text, f, g)
    <3>1. Stretch(SubSeq(text, f, g), f, g)
      BY <1>1, <2>1, SpanText
    <3> QED
      BY <3>1 DEF Stretch
  <2>3. PICK n \in Nat : n = Len(u) /\ n > 0 /\ n = g - f + 1
    BY <2>2, LenProperties
  <2>4. n <= Cap(SpokenBefore(i))
    <3>1. SpokenBefore(i) = CountOf(out, i)
      BY DEF SpokenBefore, CountOf
    <3>2. g - f + 1 <= Cap(CountOf(out, i))
      BY <2>1 DEF Span
    <3> QED
      BY <2>3, <3>1, <3>2
  <2>5. PICK t : t = out[i].text
    OBVIOUS
  <2>6. CASE t = u
    <3>1. t[1] # " " /\ Len(t) = n
      BY <2>2, <2>3, <2>6 DEF White
    <3> QED
      BY <2>3, <2>4, <2>5, <3>1
  <2>7. CASE t = <<" ">> \o u
    <3>1. Len(<<" ">> \o u) = Len(u) + 1 /\ (<<" ">> \o u)[1] = " "
      BY SpaceIs, JoinIs
    <3>2. Len(t) = n + 1 /\ t[1] = " "
      BY <2>3, <2>7, <3>1, Zenon
    <3> QED
      BY <2>3, <2>4, <2>5, <3>2
  <2>8. t = u \/ t = <<" ">> \o u
    BY <2>1, <2>2, <2>5, Zenon DEF Span
  <2> QED
    BY <2>6, <2>7, <2>8
<1>4. ASSUME NEW i \in 1..Len(out), IsSpoken(out[i])
      PROVE  /\ Cap(SpokenBefore(i)) \in Nat
             /\ Len(out[i].text)
                   \in (1 + (IF out[i].text[1] = " " THEN 1 ELSE 0))
                       ..(Cap(SpokenBefore(i)) + (IF out[i].text[1] = " " THEN 1 ELSE 0))
  <2>1. PICK n \in Nat :
                /\ n > 0 /\ n <= Cap(SpokenBefore(i))
                /\ \/ out[i].text[1] # " " /\ Len(out[i].text) = n
                   \/ out[i].text[1] = " " /\ Len(out[i].text) = n + 1
    BY <1>3, <1>4
  <2>2. PICK k \in Nat : k = Cap(SpokenBefore(i))
    <3>1. SpokenBefore(i) = CountOf(out, i)
      BY DEF SpokenBefore, CountOf
    <3>2. out \in Seq(Frag)
      BY <1>2 DEF Emitted
    <3>3. i \in Nat \ {0}
      BY <3>2, LenProperties
    <3>4. Cap(CountOf(out, i)) \in 1..MaxChars
      BY <3>3, CountIs, CapIs
    <3>5. Cap(CountOf(out, i)) \in Nat
      BY <3>4, FragmentsAssumption
    <3> QED
      BY <3>1, <3>5
  <2>3. n > 0 /\ n <= k
    BY <2>1, <2>2
  <2>4. n \in (1 + 0)..(k + 0) /\ n + 1 \in (1 + 1)..(k + 1)
    BY <2>3
  <2> QED
    BY <2>1, <2>2, <2>4, Zenon
<1> QED
  BY <1>4, Zenon DEF WithinCap

\* What begins with ink says something.
LEMMA SaidSome ==
    ASSUME NEW u \in Seq(Char), Len(u) > 0, u[1] \notin White
    PROVE  Len(Said(u)) > 0
<1>1. PICK n \in Nat, z \in Nat \ {0} : n = Len(u) /\ z = 1 /\ z <= n /\ z + 1 \in Nat
  BY LenProperties
<1>2. Elements(SpokenFrag, SaidBy(u), z, n)
  BY <1>1, SaidByElements
<1>3. Over(SaidBy(u), z, n) = Cat(SaidBy(u)[z], Over(SaidBy(u), z + 1, n))
  BY <1>1, <1>2, OverFirst
<1>4. PICK s \in Seq(SpokenFrag) : s = SaidBy(u)[z]
  BY <1>1, SaidByType
<1>5. Len(s) = 1
  <2>1. z \in 1..Len(u) /\ u[z] \notin White
    BY <1>1
  <2>2. SaidBy(u)[z] = <<Spoken(<<u[z]>>)>>
    BY <2>1 DEF SaidBy
  <2> QED
    BY <1>4, <2>2
<1>6. PICK r \in Seq(SpokenFrag) : r = Over(SaidBy(u), z + 1, n)
  <2>1. PICK y \in Nat \ {0} : y = z + 1 /\ y <= n + 1
    BY <1>1
  <2>2. Elements(SpokenFrag, SaidBy(u), y, n)
    BY <1>1, SaidByElements
  <2>3. Over(SaidBy(u), y, n) \in Seq(SpokenFrag)
    BY <2>1, <2>2, OverType
  <2> QED
    BY <2>1, <2>3
<1>7. Len(Cat(s, r)) = 1 + Len(r) /\ Len(r) \in Nat
  BY <1>5, CatLen, LenProperties
<1>8. Said(u) = Cat(s, r)
  BY <1>1, <1>3, <1>4, <1>6, SaidIs
<1> QED
  BY <1>7, <1>8

\* What is heard does not end in a pause if the fragments do not.
LEMMA HeardEnds ==
    ASSUME text \in Seq(Char), NEW o, NEW n, NEW c, NEW d, NEW a, NEW b, NEW p,
           Emitted(o, n, c, d, a, b, p), ~Ends(o), Len(HeardOf(o)) > 0
    PROVE  HeardOf(o)[Len(HeardOf(o))] \notin PauseFrag
<1>1. o \in Seq(Frag)
  BY DEF Emitted
<1>2. Len(o) > 0 /\ o # <<>>
  <2>1. o # <<>>
    <3>1. Len(<<>>) = 0
      OBVIOUS
    <3> QED
      BY <3>1, HeardNothing
  <2> QED
    BY <1>1, <2>1, LenProperties, EmptySeq
<1>3. PICK w \in Seq(Frag), x \in Frag :
         /\ x = o[Len(o)]
         /\ o = Append(w, x)
         /\ Len(o) = Len(w) + 1
  BY <1>1, <1>2, FrontLast
<1>4. IsSpoken(x)
  BY <1>2, <1>3 DEF Ends
<1>5. PICK i \in 1..Len(o) : i = Len(o)
  BY <1>1, <1>2, LenProperties
<1>6. PICK f, t \in Nat : Span(o, i, f, t)
  BY <1>3, <1>4, <1>5 DEF Emitted
<1>7. PICK u \in Seq(Char) : Len(u) > 0 /\ u[1] \notin White /\ u = SubSeq(text, f, t)
  <2>1. Stretch(SubSeq(text, f, t), f, t)
    BY <1>6, SpanText
  <2> QED
    BY <2>1 DEF Stretch
<1>8. Len(Said(u)) > 0
  BY <1>7, SaidSome
<1>9. Said(x.text) = Said(u)
  <2>1. x.text = u \/ x.text = <<" ">> \o u
    BY <1>3, <1>5, <1>6, <1>7, Zenon DEF Span
  <2>2. Said(<<" ">> \o u) = Said(u)
    BY SpaceIs, SaidJoined
  <2> QED
    BY <2>1, <2>2, Zenon
<1>10. PICK s \in Seq(Frag), r \in Seq(SpokenFrag) :
          s = HeardOf(w) /\ r = Said(u) /\ HeardOf(o) = Cat(s, r)
  <2>1. HeardOf(w) \in Seq(Frag)
    BY HeardIs
  <2>2. Said(u) \in Seq(SpokenFrag)
    BY SaidIs
  <2>3. HeardOf(o) = Cat(HeardOf(w), Said(u))
    BY <1>3, <1>4, <1>9, HeardAppend
  <2> QED
    BY <2>1, <2>2, <2>3
<1>11. PICK m \in Nat, k \in Nat : m = Len(s) /\ k = Len(r) /\ k > 0
  BY <1>8, <1>10, LenProperties
<1>12. r \in Seq(Frag) /\ r[k] \in SpokenFrag
  <2>1. r \in Seq(Frag)
    BY FragKinds, SeqMore
  <2>2. r[k] \in SpokenFrag
    BY <1>11, ElementOfSeq
  <2> QED
    BY <2>1, <2>2
<1>13. Len(Cat(s, r)) = m + k
  BY <1>11, <1>12, CatLen
<1>14. Cat(s, r)[m + k] = r[k]
  <2>1. PICK j \in Nat : j = m + k
    OBVIOUS
  <2>2. j >= 1 /\ ~(j <= m) /\ j - m = k
    BY <1>11, <2>1
  <2>3. j \in 1..(Len(s) + Len(r))
    BY <1>11, <2>1, <2>2
  <2>4. Cat(s, r)[j] = IF j <= Len(s) THEN s[j] ELSE r[j - Len(s)]
    BY <1>12, <2>3, CatAt
  <2> QED
    BY <1>11, <2>1, <2>4, <2>2
<1>15. r[k] \notin PauseFrag
  BY <1>12, FragKinds
<1> QED
  BY <1>10, <1>13, <1>14, <1>15

LEMMA AllHeard ==
    ASSUME SplitInv
    PROVE  SpokenAsWritten
<1> SUFFICES ASSUME Done PROVE Heard = Written
  BY DEF SpokenAsWritten
<1>1. text \in Seq(Char) /\ Reached(sentence, segment, parts, out, spoken)
  BY DEF SplitInv
<1>2. sentence = <<>> /\ segment = <<>> /\ parts = <<>> /\ ~Ends(out)
  BY DEF Done, Exhausted, PartDone
<1>3. PICK c, d, a, b, p \in Nat : At(sentence, segment, parts, out, spoken, c, d, a, b, p)
  BY <1>1 DEF Reached
<1>4. c \in Nat \ {0} /\ c <= Len(text) + 1 /\ Blank(text, c, Len(text))
  BY <1>1, <1>2, <1>3, AllSaid
<1>5. Emitted(out, spoken, c, d, a, b, p) /\ HeardSoFar(out, c, d, a, b, p)
  BY <1>3 DEF At
<1>6. PICK trail \in Seq(PauseFrag) : Cat(HeardOf(out), trail) = Over(SoftAt, 1, c - 1)
  BY <1>5 DEF HeardSoFar
<1>7. Over(SoftAt, 1, Len(text)) = Over(SoftAt, 1, c - 1)
  <2>1. PICK c0 \in Nat, l \in Nat : c = c0 + 1 /\ c - 1 = c0 /\ l = Len(text)
    <3>1. c - 1 \in Nat /\ c = (c - 1) + 1 /\ Len(text) \in Nat
      BY <1>1, <1>4, LenProperties
    <3> QED
      BY <3>1
  <2>2. c0 <= l /\ l <= Len(text) /\ Blank(text, c0 + 1, l)
    BY <1>4, <2>1
  <2> QED
    BY <1>1, <2>1, <2>2, BlankStretch
<1>8. PICK w \in Seq(Frag), x \in Seq(PauseFrag) :
              /\ w = Written
              /\ Over(SoftAt, 1, Len(text)) = Cat(w, x)
              /\ Len(w) > 0 => w[Len(w)] \notin PauseFrag
  BY <1>1, WrittenIs
<1>9. PICK h \in Seq(Frag) : h = HeardOf(out)
  <2>1. out \in Seq(Frag)
    BY <1>5 DEF Emitted
  <2> QED
    BY <2>1, HeardIs
<1>10. Len(h) > 0 => h[Len(h)] \notin PauseFrag
  BY <1>1, <1>2, <1>5, <1>9, HeardEnds
<1>11. Cat(h, trail) = Cat(w, x)
  BY <1>6, <1>7, <1>8, <1>9
<1>12. PauseFrag \subseteq Frag
  BY FragKinds
<1>13. h = w
  BY <1>8, <1>10, <1>11, <1>12, SameFront
<1>14. Heard = HeardOf(out)
  BY DEF Heard, HeardOf, HeardBy
<1> QED
  BY <1>8, <1>9, <1>13, <1>14

\* The space in front is taken off again.
LEMMA StripJoined ==
    ASSUME NEW u \in Seq(Char), Len(u) > 0, u[1] \notin White, u[Len(u)] \notin White
    PROVE  Len(Strip(<<" ">> \o u)) = Len(u)
<1>1. PICK n \in Nat : n = Len(u) /\ n > 0
  BY LenProperties
<1>2. PICK y : y = <<" ">> \o u
  OBVIOUS
<1>3. /\ y \in Seq(Char) /\ Len(y) = n + 1 /\ y[1] = " "
      /\ \A j \in 1..n : y[j + 1] = u[j]
  <2>1. PICK b \in Char : b = " "
    BY SpaceIs
  <2>2. y = <<b>> \o u
    BY <1>2, <2>1
  <2>3. /\ <<b>> \o u \in Seq(Char)
        /\ Len(<<b>> \o u) = Len(u) + 1
        /\ (<<b>> \o u)[1] = b
        /\ \A j \in 1..Len(u) : (<<b>> \o u)[j + 1] = u[j]
    BY JoinIs
  <2> QED
    BY <1>1, <2>1, <2>2, <2>3, Zenon
<1>4. PICK x \in Nat \ {0}, z \in Nat :
         /\ x <= z + 1 /\ z <= Len(y)
         /\ Strip(y) = SubSeq(y, x, z)
         /\ \A j \in 1..Len(y) : j < x \/ z < j => y[j] \in White
         /\ x <= z => y[x] \notin White /\ y[z] \notin White
  BY <1>3, StripIs
<1>5. y[1] \in White
  BY <1>3, SpaceIs
<1>6. y[2] \notin White
  <2>1. 1 \in 1..n /\ 1 + 1 = 2
    BY <1>1
  <2>2. y[1 + 1] = u[1]
    BY <1>3, <2>1
  <2> QED
    BY <2>1, <2>2
<1>7. y[n + 1] \notin White
  <2>1. n \in 1..n
    BY <1>1
  <2>2. y[n + 1] = u[n]
    BY <1>3, <2>1
  <2> QED
    BY <1>1, <2>2
<1>8. x <= 2 /\ n + 1 <= z
  <2>1. Len(y) = n + 1
    BY <1>3
  <2>2. 2 \in 1..Len(y) /\ n + 1 \in 1..Len(y)
    BY <1>1, <2>1
  <2>3. ~(2 < x) /\ ~(z < n + 1)
    BY <1>4, <1>6, <1>7, <2>2
  <2> QED
    BY <2>3
<1>9. x = 2 /\ z = n + 1
  <2>1. x # 1
    BY <1>1, <1>4, <1>5, <1>8
  <2>2. z <= n + 1
    BY <1>3, <1>4
  <2> QED
    BY <1>8, <2>1, <2>2
<1>10. Len(SubSeq(y, x, z)) = z - x + 1
  BY <1>3, <1>4, SubLen
<1>11. Len(Strip(y)) = n
  BY <1>4, <1>9, <1>10
<1> QED
  BY <1>1, <1>2, <1>11, Zenon

\* The places where the code cut a sentence are those that the invariant names.
LEMMA CutsAre ==
    ASSUME SplitInv, NEW x \in Cuts
    PROVE  \E f, t, g \in Nat :
              /\ x.from = f /\ x.to = t /\ x.next = g
              /\ Len(x.piece) = t - f + 1
              /\ CutAt(x.cap, f, t, g)
<1>1. text \in Seq(Char) /\ Reached(sentence, segment, parts, out, spoken)
  BY DEF SplitInv
<1>2. PICK c, d, a, b, p \in Nat : Emitted(out, spoken, c, d, a, b, p)
  BY <1>1 DEF Reached, At
<1>3. PICK i \in 1..(Len(out) - 1) :
         /\ IsSpoken(out[i]) /\ IsSpoken(out[i + 1])
         /\ x.cap = Cap(SpokenBefore(i))
         /\ x.from = Place(CharsUpto(i - 1) + 1)
         /\ x.to = Place(CharsUpto(i))
         /\ x.next = Place(CharsUpto(i) + 1)
         /\ x.piece = Strip(out[i].text)
  BY DEF Cuts
<1>4. out \in Seq(Frag)
  BY <1>2 DEF Emitted
<1>5. i \in 1..Len(out) /\ i < Len(out)
  BY <1>4, LenProperties
<1>6. PICK f, t \in Nat : Span(out, i, f, t) /\ Followed(out, i, f, t)
  BY <1>2, <1>3, <1>5 DEF Emitted
<1>7. PICK g \in Ink : CharsOf(out, i) = Rank(g - 1) /\ CutAt(Cap(CountOf(out, i)), f, t, g)
  BY <1>3, <1>6 DEF Followed
<1>8. f \in Ink /\ t \in Ink /\ CharsOf(out, i - 1) = Rank(f - 1) /\ CharsOf(out, i) = Rank(t)
  BY <1>6 DEF Span
<1>9. x.from = f
  <2>1. Place(Rank(f)) = f /\ Rank(f) = Rank(f - 1) + 1
    BY <1>1, <1>8, PlaceRank
  <2>2. CharsUpto(i - 1) = CharsOf(out, i - 1)
    BY DEF CharsUpto, CharsOf
  <2> QED
    BY <1>3, <1>8, <2>1, <2>2
<1>10. x.to = t
  <2>1. Place(Rank(t)) = t
    BY <1>1, <1>8, PlaceRank
  <2>2. CharsUpto(i) = CharsOf(out, i)
    BY DEF CharsUpto, CharsOf
  <2> QED
    BY <1>3, <1>8, <2>1, <2>2
<1>11. x.next = g
  <2>1. Place(Rank(g)) = g /\ Rank(g) = Rank(g - 1) + 1
    BY <1>1, <1>7, PlaceRank
  <2>2. CharsUpto(i) = CharsOf(out, i)
    BY DEF CharsUpto, CharsOf
  <2> QED
    BY <1>3, <1>7, <2>1, <2>2
<1>12. CutAt(x.cap, f, t, g)
  <2>1. SpokenBefore(i) = CountOf(out, i)
    BY DEF SpokenBefore, CountOf
  <2> QED
    BY <1>3, <1>7, <2>1
<1>13. Len(x.piece) = t - f + 1
  <2>1. PICK u \in Seq(Char) :
              /\ Len(u) = t - f + 1 /\ Len(u) > 0
              /\ u[1] \notin White /\ u[Len(u)] \notin White
              /\ u = SubSeq(text, f, t)
    <3>1. Stretch(SubSeq(text, f, t), f, t)
      BY <1>1, <1>6, SpanText
    <3> QED
      BY <3>1 DEF Stretch
  <2>2. Strip(u) = u
    BY <2>1, StripTrimmed
  <2>3. Len(Strip(<<" ">> \o u)) = Len(u)
    BY <2>1, StripJoined
  <2>4. out[i].text = u \/ out[i].text = <<" ">> \o u
    BY <1>6, <2>1, Zenon DEF Span
  <2>5. Len(Strip(out[i].text)) = Len(u)
    BY <2>2, <2>3, <2>4, Zenon
  <2> QED
    BY <1>3, <2>1, <2>5, Zenon
<1>14. g \in Nat
  BY <1>1, <1>7, InkType
<1> QED
  BY <1>9, <1>10, <1>11, <1>12, <1>13, <1>14, Zenon

LEMMA WordsWhole ==
    ASSUME SplitInv
    PROVE  WholeWords
<1> SUFFICES ASSUME NEW x \in Cuts, x.next = x.to + 1
             PROVE  Len(x.piece) = x.cap /\ \A i \in x.from..x.to : text[i] # " "
  BY DEF WholeWords
<1>1. PICK f, t, g \in Nat :
              /\ x.from = f /\ x.to = t /\ x.next = g
              /\ Len(x.piece) = t - f + 1
              /\ CutAt(x.cap, f, t, g)
  BY CutsAre
<1>2. g = t + 1
  BY <1>1
<1> QED
  BY <1>1, <1>2 DEF CutAt

LEMMA FragmentsFull ==
    ASSUME SplitInv
    PROVE  FullFragments
<1> SUFFICES ASSUME NEW x \in Cuts, SameSentence(x.from, x.next)
             PROVE  /\ \E i \in Ink : i >= x.from + x.cap /\ SameSentence(x.next, i)
                    /\ \/ text[x.to] \in ClauseEnd /\ x.to - x.from >= x.cap \div 2
                       \/ \A i \in x.next..(x.from + x.cap - 1) : text[i] # " "
  BY DEF FullFragments
<1>1. PICK f, t, g \in Nat :
              /\ x.from = f /\ x.to = t /\ x.next = g
              /\ Len(x.piece) = t - f + 1
              /\ CutAt(x.cap, f, t, g)
  BY CutsAre
<1>2. CutAt(x.cap, x.from, x.to, x.next)
  BY <1>1
<1> QED
  BY <1>2, Zenon DEF CutAt

(***************************************************************************)
(* What is spoken is what was written, for every text: no character is     *)
(* lost, doubled or moved by _split_sentences, _split_dashes and           *)
(* _ramp_wrap, and a dash is a pause of its length just where there is     *)
(* speech on both sides.                                                   *)
(***************************************************************************)
THEOREM SplitSpeaksAsWritten == SplitSpec => []SpokenAsWritten
<1>1. SplitInv => SpokenAsWritten
  BY AllHeard
<1> QED
  BY <1>1, SplitInvariance, PTL

\* No fragment is empty or longer than its cap and the space in front, for every cap and
\* every ramp.
THEOREM SplitWithinCap == SplitSpec => []WithinCap
<1>1. SplitInv => WithinCap
  BY Capped
<1> QED
  BY <1>1, SplitInvariance, PTL

\* _boundary cuts a word only where the cap's stretch of the text has no space.
THEOREM SplitWholeWords == SplitSpec => []WholeWords
<1>1. SplitInv => WholeWords
  BY WordsWhole
<1> QED
  BY <1>1, SplitInvariance, PTL

\* _ramp_wrap cuts a sentence only when the rest of it is over the cap in force, and
\* then at a clause past half the cap or as late as the spaces allow.
THEOREM SplitFullFragments == SplitSpec => []FullFragments
<1>1. SplitInv => FullFragments
  BY FragmentsFull
<1> QED
  BY <1>1, SplitInvariance, PTL

-----------------------------------------------------------------------------
(* The split ends                                                          *)

\* What is in front of the three loops, and the pauses that may have to go, each
\* counted with the steps it may still cost.
StepsLeft == 4 * Len(parts) + 3 * Len(segment) + 2 * Len(sentence) + Len(out)

\* Every pass of one of the loops leaves less to do: none of them goes round in place.
SplitProgresses == [][StepsLeft' < StepsLeft]_splitVars

LEMMA FromLen ==
    ASSUME NEW S, NEW s \in Seq(S), NEW k \in 1..Len(s)
    PROVE  Len(From(s, k + 1)) = Len(s) - k /\ From(s, k + 1) \in Seq(S)
<1>1. PICK m \in Nat \ {0}, n \in Nat : m = k + 1 /\ n = Len(s)
  BY LenProperties
<1>2. m <= n + 1 /\ n - m + 1 = Len(s) - k
  BY <1>1
<1>3. SubSeq(s, m, n) \in Seq(S) /\ Len(SubSeq(s, m, n)) = n - m + 1
  BY <1>1, <1>2, SubType, SubLen
<1> QED
  BY <1>1, <1>2, <1>3 DEF From

LEMMA StripLen ==
    ASSUME NEW S, NEW t \in Seq(S)
    PROVE  Strip(t) \in Seq(S) /\ Len(Strip(t)) <= Len(t)
<1>1. PICK x \in Nat \ {0}, y \in Nat :
         x <= y + 1 /\ y <= Len(t) /\ Strip(t) = SubSeq(t, x, y)
  BY StripIs
<1>2. SubSeq(t, x, y) \in Seq(S) /\ Len(SubSeq(t, x, y)) = y - x + 1
  BY <1>1, SubType, SubLen
<1>3. Len(t) \in Nat
  BY LenProperties
<1> QED
  BY <1>1, <1>2, <1>3

\* At least one character is taken, and none is taken twice.
LEMMA UptoLen ==
    ASSUME NEW S, NEW s \in Seq(S), s # <<>>, NEW Places \in SUBSET (1..Len(s))
    PROVE  /\ Upto(s, Places) \in Seq(S) /\ After(s, Places) \in Seq(S)
           /\ Len(Upto(s, Places)) > 0
           /\ Len(Upto(s, Places)) + Len(After(s, Places)) = Len(s)
<1>1. Len(s) \in Nat \ {0}
  BY LenProperties, EmptySeq
<1>2. CASE Places = {}
  <2>1. Upto(s, Places) = s /\ After(s, Places) = <<>>
    BY <1>2 DEF Upto, After
  <2>2. <<>> \in Seq(S) /\ Len(<<>>) = 0
    BY EmptySeq
  <2> QED
    BY <1>1, <2>1, <2>2
<1>3. CASE Places # {}
  <2>1. Places \subseteq Nat
    OBVIOUS
  <2>2. PICK k \in Places : k = Min(Places)
    BY <1>3, <2>1, MinIs
  <2>3. k \in 1..Len(s)
    OBVIOUS
  <2>4. Upto(s, Places) = SubSeq(s, 1, k) /\ After(s, Places) = From(s, k + 1)
    BY <1>3, <2>2 DEF Upto, After
  <2>5. SubSeq(s, 1, k) \in Seq(S) /\ Len(SubSeq(s, 1, k)) = k
    <3>1. PICK o \in Nat \ {0} : o = 1
      OBVIOUS
    <3>2. k \in Nat /\ o <= k + 1 /\ k <= Len(s) /\ k - o + 1 = k
      BY <1>1, <2>3, <3>1
    <3>3. SubSeq(s, o, k) \in Seq(S) /\ Len(SubSeq(s, o, k)) = k - o + 1
      BY <3>2, SubType, SubLen
    <3> QED
      BY <3>1, <3>2, <3>3
  <2>6. From(s, k + 1) \in Seq(S) /\ Len(From(s, k + 1)) = Len(s) - k
    BY <2>3, FromLen
  <2> QED
    BY <1>1, <2>3, <2>4, <2>5, <2>6
<1> QED
  BY <1>2, <1>3

\* What is left at any moment are sequences, and fragments are counted.
LEMMA LeftType ==
    ASSUME SplitInv
    PROVE  /\ parts \in Seq(Char) /\ segment \in Seq(Char) /\ sentence \in Seq(Char)
           /\ out \in Seq(Frag) /\ spoken \in Nat
<1>1. text \in Seq(Char)
  BY DEF SplitInv
<1>2. PICK c, d, a, b, p \in Nat :
         /\ Ordered(c, d, a, b, p)
         /\ Stretches(sentence, segment, parts, c, d, a, b, p)
         /\ Emitted(out, spoken, c, d, a, b, p)
  BY DEF SplitInv, Reached, At
<1>3. Len(text) \in Nat
  BY <1>1, LenProperties
<1>4. /\ c \in Nat \ {0} /\ a \in Nat \ {0} /\ p \in Nat \ {0}
      /\ d <= Len(text) /\ b <= Len(text)
  BY <1>2, <1>3 DEF Ordered
<1>5. SubSeq(text, c, d) \in Seq(Char) /\ SubSeq(text, a, b) \in Seq(Char)
  BY <1>1, <1>4, SubType
<1>6. SubSeq(text, p, Len(text)) \in Seq(Char)
  BY <1>1, <1>3, <1>4, SubType
<1>7. out \in Seq(Frag) /\ spoken = CountOf(out, Len(out) + 1)
  BY <1>2, Zenon DEF Emitted
<1>8. spoken \in Nat
  <2>1. Len(out) + 1 \in Nat \ {0}
    BY <1>7, LenProperties
  <2> QED
    BY <1>7, <2>1, CountIs
<1> QED
  BY <1>2, <1>5, <1>6, <1>7, <1>8, Zenon DEF Stretches

\* A fragment takes at least one character off the sentence: no cut is at 0.
LEMMA CutLen ==
    ASSUME NEW s \in Seq(Char), s # <<>>, NEW cap \in Nat \ {0}, NEW cut, CutIs(cut, s, cap)
    PROVE  cut \in 1..Len(s)
<1>1. Len(s) \in Nat \ {0}
  BY LenProperties, EmptySeq
<1>2. CASE Len(s) <= cap
  BY <1>1, <1>2 DEF CutIs
<1>3. CASE ~(Len(s) <= cap)
  <2>1. cap < Len(s)
    BY <1>1, <1>3
  <2>2. PICK k \in 1..cap : Boundary(s, cap) = k
    BY <2>1, BoundaryIs
  <2>3. cut = k
    BY <1>3, <2>2 DEF CutIs
  <2> QED
    BY <1>1, <2>1, <2>2, <2>3
<1> QED
  BY <1>2, <1>3

LEMMA StepProgresses ==
    ASSUME SplitInv, SplitNext, ~UNCHANGED splitVars
    PROVE  StepsLeft' < StepsLeft
<1>1. /\ parts \in Seq(Char) /\ segment \in Seq(Char) /\ sentence \in Seq(Char)
      /\ out \in Seq(Frag) /\ spoken \in Nat
  BY LeftType
<1>2. Len(parts) \in Nat /\ Len(segment) \in Nat /\ Len(sentence) \in Nat /\ Len(out) \in Nat
  BY <1>1, LenProperties
<1>3. Len(<<>>) = 0
  BY EmptySeq
<1>4. CASE NextSegment
  <2>1. PICK dashes : dashes = {i \in 1..(Len(parts) - 1) : DashAt(parts, i + 1)}
    OBVIOUS
  <2>2. /\ segment = <<>> /\ sentence = <<>> /\ parts # <<>>
        /\ segment' = Strip(Upto(parts, dashes)) /\ parts' = After(parts, dashes)
        /\ sentence' = sentence /\ out' = out
    BY <1>4, <2>1 DEF NextSegment, PartDone
  <2>3. dashes \in SUBSET (1..Len(parts))
    BY <1>2, <2>1
  <2>4. PICK u \in Seq(Char), v \in Seq(Char) :
           /\ u = Upto(parts, dashes) /\ v = After(parts, dashes)
           /\ Len(u) > 0 /\ Len(u) + Len(v) = Len(parts)
    BY <1>1, <2>2, <2>3, UptoLen
  <2>5. Strip(u) \in Seq(Char) /\ Len(Strip(u)) <= Len(u)
    BY StripLen
  <2>6. Len(u) \in Nat /\ Len(v) \in Nat /\ Len(Strip(u)) \in Nat
    BY <2>5, LenProperties
  <2>7. /\ Len(segment) = 0 /\ Len(segment') = Len(Strip(u)) /\ Len(parts') = Len(v)
        /\ Len(sentence') = Len(sentence) /\ Len(out') = Len(out)
    BY <1>3, <2>2, <2>4, Zenon
  <2> QED
    BY <1>2, <2>4, <2>5, <2>6, <2>7 DEF StepsLeft
<1>5. CASE Dash
  <2>1. /\ parts # <<>> /\ DashAt(parts, 1)
        /\ out' = (IF spoken = 0 THEN out ELSE Append(out, Pause(Beats(parts))))
        /\ parts' = From(parts, DashLen(parts) + 1)
        /\ segment' = segment /\ sentence' = sentence
    BY <1>5 DEF Dash
  <2>2. Len(parts) > 0
    BY <1>1, <1>2, <2>1, EmptySeq
  <2>3. PICK k \in 1..Len(parts) : k = DashLen(parts)
    BY <1>1, <2>1, <2>2, DashLenIs
  <2>4. Len(parts') = Len(parts) - k
    BY <1>1, <2>1, <2>3, FromLen
  <2>5. Len(out') = Len(out) \/ Len(out') = Len(out) + 1
    <3>1. Pause(Beats(parts)) \in Frag
      BY <1>1, <2>1, <2>2, BeatsIs, PauseIs, FragKinds
    <3>2. Len(Append(out, Pause(Beats(parts)))) = Len(out) + 1
      BY <1>1, <3>1, AppendIs
    <3> QED
      BY <2>1, <3>2
  <2>6. Len(segment') = Len(segment) /\ Len(sentence') = Len(sentence)
    BY <2>1
  <2> QED
    <3>1. k >= 1 /\ k <= Len(parts) /\ k \in Nat
      BY <1>2, <2>3
    <3> QED
      BY <1>2, <2>4, <2>5, <2>6, <3>1 DEF StepsLeft
<1>6. CASE NextSentence
  <2>1. PICK ends : ends = {i \in 1..Len(segment) : EndsAt(segment, i)}
    OBVIOUS
  <2>2. /\ sentence = <<>> /\ segment # <<>>
        /\ sentence' = Strip(Upto(segment, ends)) /\ segment' = Strip(After(segment, ends))
        /\ parts' = parts /\ out' = out
    BY <1>6, <2>1 DEF NextSentence
  <2>3. ends \in SUBSET (1..Len(segment))
    BY <2>1
  <2>4. PICK u \in Seq(Char), v \in Seq(Char) :
           /\ u = Upto(segment, ends) /\ v = After(segment, ends)
           /\ Len(u) > 0 /\ Len(u) + Len(v) = Len(segment)
    BY <1>1, <2>2, <2>3, UptoLen
  <2>5. /\ Strip(u) \in Seq(Char) /\ Len(Strip(u)) <= Len(u)
        /\ Strip(v) \in Seq(Char) /\ Len(Strip(v)) <= Len(v)
    BY StripLen
  <2>6. Len(u) \in Nat /\ Len(v) \in Nat /\ Len(Strip(u)) \in Nat /\ Len(Strip(v)) \in Nat
    BY <2>5, LenProperties
  <2>7. /\ Len(sentence) = 0 /\ Len(sentence') = Len(Strip(u)) /\ Len(segment') = Len(Strip(v))
        /\ Len(parts') = Len(parts) /\ Len(out') = Len(out)
    BY <1>3, <2>2, <2>4, Zenon
  <2> QED
    BY <1>2, <2>4, <2>5, <2>6, <2>7 DEF StepsLeft
<1>7. CASE Piece
  <2>1. PICK cut : cut = IF Len(sentence) <= CapNow THEN Len(sentence)
                         ELSE Boundary(sentence, CapNow)
    OBVIOUS
  <2>2. PICK fragment : Piece /\ out' = Append(out, fragment)
    BY <1>7, Zenon DEF Piece
  <2>3. /\ sentence # <<>> /\ sentence' = Strip(From(sentence, cut + 1))
        /\ parts' = parts /\ segment' = segment
    BY <1>7, <2>1, Zenon DEF Piece
  <2>4. CutIs(cut, sentence, Cap(spoken)) /\ Cap(spoken) \in Nat \ {0}
    <3>1. Cap(spoken) \in 1..MaxChars /\ MaxChars \in Nat
      BY <1>1, CapIs, FragmentsAssumption
    <3> QED
      BY <2>1, <3>1 DEF CutIs, CapNow
  <2>5. cut \in 1..Len(sentence)
    BY <1>1, <2>3, <2>4, CutLen
  <2>6. PICK v \in Seq(Char) : v = From(sentence, cut + 1) /\ Len(v) = Len(sentence) - cut
    BY <1>1, <2>5, FromLen
  <2>7. Strip(v) \in Seq(Char) /\ Len(Strip(v)) <= Len(v)
    BY StripLen
  <2>8. Len(Strip(v)) \in Nat
    BY <2>7, LenProperties
  <2>9. Len(out') = Len(out) + 1
    BY <1>1, <2>2, LenProperties
  <2>10. /\ Len(sentence') = Len(Strip(v))
         /\ Len(parts') = Len(parts) /\ Len(segment') = Len(segment)
    BY <2>3, <2>6, Zenon
  <2> QED
    BY <1>2, <2>5, <2>6, <2>7, <2>8, <2>9, <2>10 DEF StepsLeft
<1>8. CASE DropTrailing
  <2>1. /\ Ends(out) /\ out' = SubSeq(out, 1, Len(out) - 1)
        /\ parts' = parts /\ segment' = segment /\ sentence' = sentence
    BY <1>8 DEF DropTrailing
  <2>2. Len(out) \in Nat \ {0}
    BY <1>1, <1>2, <2>1, EmptySeq DEF Ends
  <2>3. Len(out') = Len(out) - 1
    <3>1. PICK n \in Nat : n = Len(out) - 1
      BY <2>2
    <3>2. PICK o \in Nat \ {0} : o = 1
      OBVIOUS
    <3>3. o <= n + 1 /\ n <= Len(out) /\ n - o + 1 = Len(out) - 1
      BY <2>2, <3>1, <3>2
    <3>4. Len(SubSeq(out, o, n)) = n - o + 1
      BY <1>1, <3>3, SubLen
    <3> QED
      BY <2>1, <3>1, <3>2, <3>3, <3>4
  <2>4. Len(parts') = Len(parts) /\ Len(segment') = Len(segment) /\ Len(sentence') = Len(sentence)
    BY <2>1
  <2> QED
    BY <1>2, <2>2, <2>3, <2>4 DEF StepsLeft
<1> QED
  BY <1>4, <1>5, <1>6, <1>7, <1>8 DEF SplitNext

\* The loops of split_fragments end, for every text, cap and ramp: every pass of
\* one leaves less to do, so that a text of n characters is done after 4 * n passes.
THEOREM SplitEnds == SplitSpec => SplitProgresses
<1>1. SplitInv /\ [SplitNext]_splitVars => [StepsLeft' < StepsLeft]_splitVars
  BY StepProgresses
<1> QED
  BY <1>1, SplitInvariance, PTL DEF SplitSpec, SplitProgresses
=============================================================================
