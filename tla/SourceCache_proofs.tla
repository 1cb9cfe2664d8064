-------------------------- MODULE SourceCache_proofs --------------------------
(***************************************************************************)
(* What TLAPS proves of SourceCache, for any number of worker threads,     *)
(* keys and versions and any budgets: the RAM tier counts its bytes        *)
(* exactly and keeps to its budget, no value crosses from one version to   *)
(* another, and a put() that completes leaves the disk within its budget   *)
(* and not empty.  All three rest on what the sum of the sizes of a        *)
(* sequence does when an entry is appended, removed, or cut off.           *)
(***************************************************************************)
EXTENDS SourceCache, SequenceTheorems, WellFoundedInduction, TLAPS

Hot == [key : Key, val : Value]
Durable == [name : Name, val : Value]

-----------------------------------------------------------------------------
(* The inductive invariant                                                 *)

\* A key occurs once in RAM, where every value is the running version's.
RamInv ==
    /\ RamBudget
    /\ \A i, j \in DOMAIN ram : ram[i].key = ram[j].key => i = j
    /\ \A i \in DOMAIN ram : ram[i].val.made = version

\* A name occurs once on disk, with a value of the version it names that is
\* not larger than the whole budget.
DiskInv ==
    /\ \A i, j \in DOMAIN disk : disk[i].name = disk[j].name => i = j
    /\ \A i \in DOMAIN disk : disk[i].val.made = disk[i].name[1]
    /\ \A i \in DOMAIN disk : disk[i].val.size <= DiskMax

\* What w has yet to unlink is what is left on disk, which is over its budget.
Evicting(w) ==
    /\ Total(disk) > DiskMax
    /\ \A i, j \in DOMAIN victims[w] : victims[w][i] = victims[w][j] => i = j
    /\ \A n \in Name : OnDisk(n) <=> \E i \in DOMAIN victims[w] : victims[w][i] = n

\* The lock has one holder, and a worker's value is the running version's.
WorkerInv(w) ==
    /\ pc[w] \in {"rename", "scan", "unlink"} <=> lock = {w}
    /\ pc[w] \in {"touch", "fill", "put", "store", "rename"} => val[w].made = version
    /\ pc[w] \in {"store", "rename"} => val[w].size <= DiskMax
    /\ pc[w] = "scan" => disk # <<>>
    /\ pc[w] = "unlink" => Evicting(w)

IInv == TypeOK /\ RamInv /\ DiskInv /\ \A w \in Worker : WorkerInv(w)

-----------------------------------------------------------------------------
(* Induction over the natural numbers, with a set in the place of a        *)
(* property.                                                               *)

LEMMA Least ==
    ASSUME NEW T, T \subseteq Nat, T # {}
    PROVE  \E m \in T : \A n \in T : m <= n
<1> DEFINE R == OpToRel(<, Nat)
<1>1. IsWellFoundedOn(R, Nat)
  BY NatLessThanWellFounded, Zenon
<1>2. \A x, y \in Nat : x < y <=> <<x, y>> \in R
  BY DEF OpToRel
<1> HIDE DEF R
<1>3. PICK m \in T : \A n \in T : <<n, m>> \notin R
  BY <1>1, WFMin
<1>4. ASSUME NEW n \in T PROVE m <= n
  <2>1. m \in Nat /\ n \in Nat
    OBVIOUS
  <2>2. ~(n < m)
    BY <1>2, <1>3, <2>1
  <2> QED
    BY <2>1, <2>2
<1> QED
  BY <1>4

LEMMA Induct ==
    ASSUME NEW S, 0 \in S, \A n \in Nat : n \in S => n + 1 \in S
    PROVE  Nat \subseteq S
<1> SUFFICES ASSUME Nat \ S # {} PROVE FALSE
  OBVIOUS
<1>1. PICK m \in Nat \ S : \A n \in Nat \ S : m <= n
  BY Least
<1>2. m # 0
  BY <1>1
<1>3. m - 1 \in Nat /\ m - 1 \in S
  BY <1>1, <1>2
<1>4. (m - 1) + 1 \in S
  BY <1>3
<1> QED
  BY <1>4, <1>1

-----------------------------------------------------------------------------
(* The sizes of a sequence, added up                                       *)

\* Entries of a tier.
Sized(s) ==
    /\ Len(s) \in Nat
    /\ \A i \in 1..Len(s) : s[i].val.size \in Nat

\* g[i] is the size of the first i entries.
Sums(s, g) ==
    /\ g[0] = 0
    /\ \A i \in 1..Len(s) : g[i] = g[i - 1] + s[i].val.size

LEMMA SumsExist ==
    ASSUME NEW s, Sized(s)
    PROVE  \E g \in [0..Len(s) -> Nat] :
              /\ Sums(s, g)
              /\ g = [i \in 0..Len(s) |-> IF i = 0 THEN 0 ELSE g[i - 1] + s[i].val.size]
<1> DEFINE Upto(n, g) ==
              /\ g[0] = 0
              /\ \A i \in 1..n : g[i] = g[i - 1] + s[i].val.size
           S == {n \in Nat : n <= Len(s) => \E g \in [0..n -> Nat] : Upto(n, g)}
<1>1. 0 \in S
  <2> DEFINE g == [i \in 0..0 |-> 0]
  <2>1. g \in [0..0 -> Nat] /\ Upto(0, g)
    OBVIOUS
  <2> QED
    BY <2>1
<1>2. ASSUME NEW n \in Nat, n \in S PROVE n + 1 \in S
  <2> DEFINE Reached(m) == m <= Len(s) => \E g \in [0..m -> Nat] : Upto(m, g)
  <2> SUFFICES ASSUME n + 1 <= Len(s) PROVE \E g \in [0..(n + 1) -> Nat] : Upto(n + 1, g)
    <3>1. n + 1 \in Nat
      OBVIOUS
    <3>2. ASSUME Reached(n + 1) PROVE n + 1 \in S
      BY <3>1, <3>2, Zenon
    <3> QED
      BY <3>2, Zenon
  <2>0. Len(s) \in Nat
    BY DEF Sized
  <2>1. PICK g \in [0..n -> Nat] : Upto(n, g)
    BY <1>2, <2>0
  <2> DEFINE h == [i \in 0..(n + 1) |-> IF i = n + 1 THEN g[n] + s[n + 1].val.size ELSE g[i]]
  <2>2. s[n + 1].val.size \in Nat
    BY <2>0 DEF Sized
  <2>3. h \in [0..(n + 1) -> Nat]
    BY <2>1, <2>2
  <2>4. h[0] = 0
    BY <2>1
  <2>5. ASSUME NEW i \in 1..(n + 1) PROVE h[i] = h[i - 1] + s[i].val.size
    <3>1. CASE i = n + 1
      BY <3>1
    <3>2. CASE i # n + 1
      <4>1. i \in 1..n /\ i - 1 \in 0..n /\ i \in 0..n
        BY <3>2
      <4>2. g[i] = g[i - 1] + s[i].val.size
        BY <2>1, <4>1
      <4>3. h[i] = g[i] /\ h[i - 1] = g[i - 1]
        BY <4>1, <3>2
      <4> QED
        BY <4>2, <4>3
    <3> QED
      BY <3>1, <3>2
  <2>6. Upto(n + 1, h)
    BY <2>4, <2>5
  <2> HIDE DEF h
  <2> QED
    BY <2>3, <2>6
<1> HIDE DEF S
<1>3. Len(s) \in S
  BY <1>1, <1>2, Induct DEF Sized
<1>4. PICK g \in [0..Len(s) -> Nat] : Upto(Len(s), g)
  BY <1>3 DEF S, Sized
<1>5. Sums(s, g)
  BY <1>4 DEF Sums
<1>6. g = [i \in 0..Len(s) |-> IF i = 0 THEN 0 ELSE g[i - 1] + s[i].val.size]
  <2>1. ASSUME NEW i \in 0..Len(s)
        PROVE  g[i] = IF i = 0 THEN 0 ELSE g[i - 1] + s[i].val.size
    BY <1>4 DEF Sized
  <2> QED
    BY <2>1
<1> QED
  BY <1>5, <1>6

\* Two sums of the same sequence agree.
LEMMA SumsAgree ==
    ASSUME NEW s, Sized(s), NEW f, NEW g, Sums(s, f), Sums(s, g)
    PROVE  f[Len(s)] = g[Len(s)]
<1> DEFINE S == {n \in Nat : n <= Len(s) => f[n] = g[n]}
<1>1. 0 \in S
  BY DEF Sums
<1>2. ASSUME NEW n \in Nat, n \in S PROVE n + 1 \in S
  <2> SUFFICES ASSUME n + 1 <= Len(s) PROVE f[n + 1] = g[n + 1]
    OBVIOUS
  <2>1. n + 1 \in 1..Len(s) /\ (n + 1) - 1 = n /\ n <= Len(s)
    BY DEF Sized
  <2> QED
    BY <2>1, <1>2 DEF Sums
<1> HIDE DEF S
<1>3. Len(s) \in S
  BY <1>1, <1>2, Induct DEF Sized
<1> QED
  BY <1>3 DEF S, Sized

\* Total is what any function that adds up the sizes ends in.
LEMMA TotalIs ==
    ASSUME NEW s, Sized(s), NEW g, Sums(s, g)
    PROVE  Total(s) = g[Len(s)]
<1> DEFINE Eqn(f) == f = [i \in 0..Len(s) |-> IF i = 0 THEN 0 ELSE f[i - 1] + s[i].val.size]
           sum == CHOOSE f : Eqn(f)
<1>1. Total(s) = sum[Len(s)]
  BY DEF Total
<1>2. \E f : Eqn(f)
  BY SumsExist
<1>3. Eqn(sum)
  BY <1>2
<1> HIDE DEF sum
<1>4. Sums(s, sum)
  <2>1. sum[0] = 0
    BY <1>3 DEF Sized
  <2>2. ASSUME NEW i \in 1..Len(s) PROVE sum[i] = sum[i - 1] + s[i].val.size
    <3>1. i \in 0..Len(s) /\ i # 0
      BY DEF Sized
    <3> QED
      BY <1>3, <3>1
  <2> QED
    BY <2>1, <2>2 DEF Sums
<1> QED
  BY <1>1, <1>4, SumsAgree

\* What the tiers are sequences of.
Weighed(S) == \A e \in S : e.val.size \in Nat

LEMMA SeqSized ==
    ASSUME NEW S, Weighed(S), NEW s \in Seq(S)
    PROVE  Sized(s)
BY LenProperties, ElementOfSeq DEF Sized, Weighed

LEMMA TotalInNat ==
    ASSUME NEW S, Weighed(S), NEW s \in Seq(S)
    PROVE  /\ Total(s) \in Nat
           /\ s = <<>> => Total(s) = 0
<1>1. Sized(s)
  BY SeqSized
<1>2. PICK g \in [0..Len(s) -> Nat] : Sums(s, g)
  BY <1>1, SumsExist
<1>3. Total(s) = g[Len(s)]
  BY <1>1, <1>2, TotalIs
<1>4. Len(s) \in 0..Len(s)
  BY <1>1 DEF Sized
<1>5. s = <<>> => Len(s) = 0
  BY EmptySeq
<1> QED
  BY <1>2, <1>3, <1>4, <1>5 DEF Sums

LEMMA TotalConcat ==
    ASSUME NEW S, Weighed(S), NEW s \in Seq(S), NEW t \in Seq(S)
    PROVE  Total(s \o t) = Total(s) + Total(t)
<1> DEFINE m == Len(s)
           n == Len(t)
<1>1. s \o t \in Seq(S) /\ Sized(s) /\ Sized(t) /\ Sized(s \o t)
  BY SeqSized, ConcatProperties
<1>2. PICK g \in [0..m -> Nat] : Sums(s, g)
  BY <1>1, SumsExist
<1>3. PICK h \in [0..n -> Nat] : Sums(t, h)
  BY <1>1, SumsExist
<1>4. m \in Nat /\ n \in Nat
  BY LenProperties
<1>5. /\ Len(s \o t) = m + n
      /\ \A i \in 1..(m + n) : (s \o t)[i] = IF i <= m THEN s[i] ELSE t[i - m]
  BY ConcatProperties
<1> DEFINE f == [i \in 0..(m + n) |-> IF i <= m THEN g[i] ELSE g[m] + h[i - m]]
<1>6. Sums(s \o t, f)
  <2>1. f[0] = 0
    BY <1>2, <1>4 DEF Sums
  <2>2. ASSUME NEW i \in 1..(m + n)
        PROVE  f[i] = f[i - 1] + (s \o t)[i].val.size
    <3>1. i \in 0..(m + n) /\ i - 1 \in 0..(m + n)
      BY <1>4
    <3>2. CASE i <= m
      <4>1. i \in 1..m /\ i - 1 <= m
        BY <3>2, <1>4
      <4>2. f[i] = g[i] /\ f[i - 1] = g[i - 1]
        BY <3>1, <3>2, <4>1
      <4> QED
        BY <4>1, <4>2, <1>2, <1>5, <3>2 DEF Sums
    <3>3. CASE i = m + 1
      <4>1. f[i] = g[m] + h[1] /\ f[i - 1] = g[m] /\ 1 \in 1..n
        BY <3>1, <3>3, <1>4
      <4>2. (s \o t)[i] = t[1]
        BY <1>4, <1>5, <3>3
      <4>3. h[1] = h[0] + t[1].val.size /\ h[0] = 0
        BY <1>3, <4>1 DEF Sums
      <4>4. t[1].val.size \in Nat /\ g[m] \in Nat
        BY <1>1, <1>2, <1>4, <4>1 DEF Sized
      <4> QED
        BY <4>1, <4>2, <4>3, <4>4
    <3>4. CASE i > m + 1
      <4>1. i - m \in 1..n /\ (i - m) - 1 = (i - 1) - m /\ ~(i <= m) /\ ~(i - 1 <= m)
        BY <3>4, <1>4
      <4>2. f[i] = g[m] + h[i - m] /\ f[i - 1] = g[m] + h[(i - 1) - m]
        BY <3>1, <4>1
      <4>3. (s \o t)[i] = t[i - m]
        BY <1>5, <4>1
      <4>4. h[i - m] = h[(i - 1) - m] + t[i - m].val.size
        BY <1>3, <4>1 DEF Sums
      <4>5. g[m] \in Nat /\ h[(i - 1) - m] \in Nat /\ t[i - m].val.size \in Nat
        <5>1. (i - 1) - m \in 0..n /\ m \in 0..m
          BY <4>1, <1>4
        <5> QED
          BY <5>1, <1>1, <1>2, <1>3, <4>1 DEF Sized
      <4> QED
        BY <4>2, <4>3, <4>4, <4>5
    <3> QED
      BY <3>2, <3>3, <3>4, <1>4
  <2> QED
    BY <2>1, <2>2, <1>5 DEF Sums
<1>7. f[m + n] = g[m] + h[n]
  <2>1. CASE n = 0
    BY <2>1, <1>2, <1>3, <1>4 DEF Sums
  <2>2. CASE n # 0
    BY <2>2, <1>4
  <2> QED
    BY <2>1, <2>2
<1> HIDE DEF f
<1>8. Total(s \o t) = f[m + n]
  BY <1>1, <1>5, <1>6, TotalIs
<1>9. Total(s) = g[m] /\ Total(t) = h[n]
  BY <1>1, <1>2, <1>3, TotalIs
<1> QED
  BY <1>7, <1>8, <1>9

LEMMA TotalOne ==
    ASSUME NEW S, Weighed(S), NEW e \in S
    PROVE  Total(<<e>>) = e.val.size
<1> DEFINE g == [i \in 0..1 |-> IF i = 0 THEN 0 ELSE e.val.size]
<1>1. Len(<<e>>) = 1 /\ <<e>>[1] = e /\ e.val.size \in Nat
  BY DEF Weighed
<1>2. Sized(<<e>>) /\ Sums(<<e>>, g)
  BY <1>1 DEF Sized, Sums
<1>3. Total(<<e>>) = g[Len(<<e>>)]
  BY <1>2, TotalIs
<1> QED
  BY <1>1, <1>3

LEMMA TotalAppend ==
    ASSUME NEW S, Weighed(S), NEW s \in Seq(S), NEW e \in S
    PROVE  Total(Append(s, e)) = Total(s) + e.val.size
<1>1. Append(s, e) = s \o <<e>> /\ <<e>> \in Seq(S)
  BY AppendIsConcat
<1> QED
  BY <1>1, TotalConcat, TotalOne

\* Cutting a sequence in two.
LEMMA TotalCut ==
    ASSUME NEW S, Weighed(S), NEW s \in Seq(S), NEW n \in 0..Len(s)
    PROVE  /\ SubSeq(s, 1, n) \in Seq(S)
           /\ SubSeq(s, n + 1, Len(s)) \in Seq(S)
           /\ Total(s) = Total(SubSeq(s, 1, n)) + Total(SubSeq(s, n + 1, Len(s)))
<1>1. Len(s) \in Nat /\ \A i \in 1..Len(s) : s[i] \in S
  BY LenProperties, ElementOfSeq
<1>2. SubSeq(s, 1, n) \in Seq(S) /\ SubSeq(s, n + 1, Len(s)) \in Seq(S)
  BY <1>1, SubSeqProperties
<1>3. SubSeq(s, 1, n) \o SubSeq(s, n + 1, Len(s)) = SubSeq(s, 1, Len(s))
  <2>1. /\ 1 \in 1..(Len(s) + 1)
        /\ n \in (1 - 1)..Len(s)
        /\ Len(s) \in n..Len(s)
    BY <1>1
  <2> QED
    BY <2>1, ConcatAdjacentSubSeq
<1>4. SubSeq(s, 1, Len(s)) = s
  BY SubSeqFull
<1> QED
  BY <1>2, <1>3, <1>4, TotalConcat

\* RemoveAt: the entry is gone, with its size, and the others keep their order.
LEMMA Removed ==
    ASSUME NEW S, Weighed(S), NEW s \in Seq(S), NEW p \in 1..Len(s)
    PROVE  LET r == RemoveAt(s, p)
           IN  /\ r \in Seq(S)
               /\ Len(r) = Len(s) - 1
               /\ \A i \in 1..(Len(s) - 1) : r[i] = s[IF i < p THEN i ELSE i + 1]
               /\ Total(r) = Total(s) - s[p].val.size
<1> DEFINE a == SubSeq(s, 1, p - 1)
           b == SubSeq(s, p + 1, Len(s))
           c == SubSeq(s, 1, p)
<1>1. Len(s) \in Nat /\ \A i \in 1..Len(s) : s[i] \in S
  BY LenProperties, ElementOfSeq
<1>2. /\ a \in Seq(S) /\ Len(a) = p - 1 /\ \A i \in 1..(p - 1) : a[i] = s[i]
      /\ b \in Seq(S) /\ Len(b) = Len(s) - p /\ \A i \in 1..(Len(s) - p) : b[i] = s[p + i]
  <2>1. \A i \in 1..(p - 1) : s[i] \in S
    BY <1>1
  <2>2. \A i \in (p + 1)..Len(s) : s[i] \in S
    BY <1>1
  <2>3. /\ a \in Seq(S) /\ Len(a) = IF 1 <= p - 1 THEN (p - 1) - 1 + 1 ELSE 0
        /\ \A i \in 1..((p - 1) - 1 + 1) : a[i] = s[1 + i - 1]
    BY <2>1, <1>1, SubSeqProperties
  <2>4. /\ b \in Seq(S) /\ Len(b) = IF p + 1 <= Len(s) THEN Len(s) - (p + 1) + 1 ELSE 0
        /\ \A i \in 1..(Len(s) - (p + 1) + 1) : b[i] = s[(p + 1) + i - 1]
    BY <2>2, <1>1, SubSeqProperties
  <2> QED
    BY <2>3, <2>4, <1>1
<1>3. RemoveAt(s, p) = a \o b
  BY DEF RemoveAt
<1>4. /\ a \o b \in Seq(S) /\ Len(a \o b) = Len(a) + Len(b)
      /\ \A i \in 1..(Len(a) + Len(b)) : (a \o b)[i] = IF i <= Len(a) THEN a[i] ELSE b[i - Len(a)]
  BY <1>2, ConcatProperties
<1> HIDE DEF a, b
<1>5. Len(a) + Len(b) = Len(s) - 1
  BY <1>1, <1>2
<1>6. ASSUME NEW i \in 1..(Len(s) - 1)
      PROVE  (a \o b)[i] = s[IF i < p THEN i ELSE i + 1]
  <2>1. (a \o b)[i] = IF i <= Len(a) THEN a[i] ELSE b[i - Len(a)]
    BY <1>4, <1>5
  <2>2. CASE i < p
    <3>1. i \in 1..(p - 1) /\ i <= Len(a)
      BY <2>2, <1>1, <1>2
    <3> QED
      BY <3>1, <2>1, <2>2, <1>2
  <2>3. CASE ~(i < p)
    <3>1. i - (p - 1) \in 1..(Len(s) - p) /\ ~(i <= Len(a)) /\ p + (i - (p - 1)) = i + 1
      BY <2>3, <1>1, <1>2
    <3> QED
      BY <3>1, <2>1, <2>3, <1>2
  <2> QED
    BY <2>2, <2>3
<1>7. Total(a \o b) = Total(s) - s[p].val.size
  <2>1. Total(a \o b) = Total(a) + Total(b)
    BY <1>2, TotalConcat
  <2>2. c \in Seq(S) /\ Total(s) = Total(c) + Total(b)
    BY <1>1, TotalCut DEF b
  <2>3. c = Append(a, s[p])
    <3>1. /\ Len(c) = p
          /\ \A i \in 1..p : c[i] = s[i]
      <4>1. \A i \in 1..p : s[i] \in S
        BY <1>1
      <4>2. /\ Len(c) = IF 1 <= p THEN p - 1 + 1 ELSE 0
            /\ \A i \in 1..(p - 1 + 1) : c[i] = s[1 + i - 1]
        BY <4>1, SubSeqProperties
      <4> QED
        BY <4>2
    <3>2. /\ Append(a, s[p]) \in Seq(S) /\ Len(Append(a, s[p])) = p
          /\ \A i \in 1..(p - 1) : Append(a, s[p])[i] = s[i]
          /\ Append(a, s[p])[p] = s[p]
      <4>1. s[p] \in S
        BY <1>1
      <4>2. /\ Append(a, s[p]) \in Seq(S) /\ Len(Append(a, s[p])) = Len(a) + 1
            /\ \A i \in 1..Len(a) : Append(a, s[p])[i] = a[i]
            /\ Append(a, s[p])[Len(a) + 1] = s[p]
        BY <4>1, <1>2, AppendProperties
      <4> QED
        BY <4>2, <1>2
    <3>3. \A i \in 1..p : i \in 1..(p - 1) \/ i = p
      OBVIOUS
    <3> QED
      BY <3>1, <3>2, <3>3, <2>2, SeqEqual
  <2>4. Total(c) = Total(a) + s[p].val.size
    BY <2>3, <1>1, <1>2, TotalAppend
  <2>5. Total(a) \in Nat /\ Total(b) \in Nat /\ s[p].val.size \in Nat
    BY <1>1, <1>2, TotalInNat DEF Weighed
  <2> QED
    BY <2>1, <2>2, <2>4, <2>5
<1> QED
  BY <1>3, <1>4, <1>5, <1>6, <1>7

\* An entry is no larger than the whole.
LEMMA EntryWithinTotal ==
    ASSUME NEW S, Weighed(S), NEW s \in Seq(S), NEW p \in 1..Len(s)
    PROVE  s[p].val.size <= Total(s)
<1>1. RemoveAt(s, p) \in Seq(S) /\ Total(RemoveAt(s, p)) = Total(s) - s[p].val.size
  BY Removed
<1>2. Total(RemoveAt(s, p)) \in Nat /\ Total(s) \in Nat
  BY <1>1, TotalInNat
<1>3. s[p].val.size \in Nat
  BY SeqSized DEF Sized
<1> QED
  BY <1>1, <1>2, <1>3

-----------------------------------------------------------------------------
(* The tiers                                                               *)

LEMMA EntriesWeighed ==
    /\ Weighed(Hot) /\ Weighed(Durable)
    /\ \A v \in Value : v.size \in Nat /\ v.made \in Version
BY CacheAssumption DEF Weighed, Hot, Durable, Value

\* RamWithout and RamEntry take out the one entry of a key.
LEMMA WithoutKey ==
    ASSUME ram \in Seq(Hot), RamInv, NEW k \in Key
    PROVE  LET r == RamWithout(k)
           IN  /\ r \in Seq(Hot)
               /\ \A i \in 1..Len(r) : r[i].key # k /\ r[i].val.made = version
               /\ \A i, j \in 1..Len(r) : r[i].key = r[j].key => i = j
               /\ Total(r) = Total(ram) - ReplacedBytes(k)
               /\ InRam(k) => /\ RamEntry(k) \in Hot
                              /\ RamEntry(k).key = k
                              /\ RamEntry(k).val.made = version
<1>1. Len(ram) \in Nat /\ DOMAIN ram = 1..Len(ram) /\ \A i \in 1..Len(ram) : ram[i] \in Hot
  BY LenProperties, ElementOfSeq
<1>2. CASE ~InRam(k)
  <2>1. RamWithout(k) = ram /\ ReplacedBytes(k) = 0 /\ Total(ram) \in Nat
    BY <1>2, EntriesWeighed, TotalInNat DEF RamWithout, ReplacedBytes
  <2> QED
    BY <2>1, <1>1, <1>2 DEF InRam, RamInv
<1>3. CASE InRam(k)
  <2> DEFINE p == RamPlace(k)
             r == RemoveAt(ram, p)
  <2>1. p \in 1..Len(ram) /\ ram[p].key = k
    BY <1>1, <1>3 DEF InRam, RamPlace
  <2>2. RamEntry(k) = ram[p] /\ RamWithout(k) = r /\ ReplacedBytes(k) = ram[p].val.size
    BY <1>3 DEF RamEntry, RamWithout, ReplacedBytes
  <2> HIDE DEF p
  <2>3. /\ r \in Seq(Hot) /\ Len(r) = Len(ram) - 1
        /\ \A i \in 1..(Len(ram) - 1) : r[i] = ram[IF i < p THEN i ELSE i + 1]
        /\ Total(r) = Total(ram) - ram[p].val.size
    BY <2>1, EntriesWeighed, Removed
  <2> HIDE DEF r
  <2>4. \A i, j \in 1..Len(ram) : ram[i].key = ram[j].key => i = j
    BY <1>1 DEF RamInv
  <2>5. \A i \in 1..Len(ram) : ram[i].val.made = version
    BY <1>1 DEF RamInv
  <2>6. ASSUME NEW i \in 1..Len(r) PROVE r[i].key # k /\ r[i].val.made = version
    BY <1>1, <2>1, <2>3, <2>4, <2>5
  <2>7. ASSUME NEW i \in 1..Len(r), NEW j \in 1..Len(r), r[i].key = r[j].key PROVE i = j
    BY <1>1, <2>1, <2>3, <2>4, <2>7
  <2> QED
    BY <1>1, <2>1, <2>2, <2>3, <2>5, <2>6, <2>7
<1> QED
  BY <1>2, <1>3

\* Storing an entry for k as the most recently used one.
LEMMA StoredLast ==
    ASSUME ram \in Seq(Hot), RamInv, NEW k \in Key,
           NEW e \in Hot, e.key = k, e.val.made = version
    PROVE  LET store == Append(RamWithout(k), e)
           IN  /\ store \in Seq(Hot)
               /\ Len(store) \in Nat \ {0} /\ store[Len(store)] = e
               /\ \A i, j \in 1..Len(store) : store[i].key = store[j].key => i = j
               /\ \A i \in 1..Len(store) : store[i].val.made = version
               /\ Total(store) = ramBytes - ReplacedBytes(k) + e.val.size
<1> DEFINE r == RamWithout(k)
           store == Append(r, e)
<1>1. /\ r \in Seq(Hot)
      /\ \A i \in 1..Len(r) : r[i].key # k /\ r[i].val.made = version
      /\ \A i, j \in 1..Len(r) : r[i].key = r[j].key => i = j
      /\ Total(r) = Total(ram) - ReplacedBytes(k)
  BY WithoutKey
<1> HIDE DEF r
<1>2. Len(r) \in Nat
  BY <1>1, LenProperties
<1>3. /\ store \in Seq(Hot) /\ Len(store) = Len(r) + 1
      /\ \A i \in 1..Len(r) : store[i] = r[i]
      /\ store[Len(r) + 1] = e
  BY <1>1, AppendProperties
<1>4. Total(store) = Total(r) + e.val.size
  BY <1>1, EntriesWeighed, TotalAppend
<1> HIDE DEF store
<1>5. ASSUME NEW i \in 1..Len(store), NEW j \in 1..Len(store), store[i].key = store[j].key
      PROVE  i = j
  BY <1>1, <1>2, <1>3, <1>5
<1>6. ASSUME NEW i \in 1..Len(store) PROVE store[i].val.made = version
  BY <1>1, <1>2, <1>3
<1>7. Total(store) = ramBytes - ReplacedBytes(k) + e.val.size
  BY <1>1, <1>4 DEF RamInv, RamBudget
<1> QED
  BY <1>2, <1>3, <1>5, <1>6, <1>7 DEF store, r

\* A get() that RAM answers.
LEMMA Touched ==
    ASSUME TypeOK, RamInv, NEW k \in Key, InRam(k), RamTouch(k), UNCHANGED version
    PROVE  ram' \in Seq(Hot) /\ RamInv'
<1> DEFINE e == RamEntry(k)
<1>0. ram \in Seq(Hot)
  BY DEF TypeOK, Hot
<1>1. e \in Hot /\ e.key = k /\ e.val.made = version
  BY <1>0, WithoutKey
<1>2. ReplacedBytes(k) = e.val.size /\ ramBytes \in Nat
  BY CacheAssumption DEF ReplacedBytes, TypeOK
<1>3. e.val.size \in Nat
  BY <1>1, EntriesWeighed DEF Weighed
<1>4. ram' = Append(RamWithout(k), e) /\ ramBytes' = ramBytes
  BY DEF RamTouch
<1> HIDE DEF e
<1>5. /\ ram' \in Seq(Hot)
      /\ \A i, j \in 1..Len(ram') : ram'[i].key = ram'[j].key => i = j
      /\ \A i \in 1..Len(ram') : ram'[i].val.made = version
      /\ Total(ram') = ramBytes - ReplacedBytes(k) + e.val.size
  BY <1>0, <1>1, <1>4, StoredLast
<1>6. Total(ram') = ramBytes'
  BY <1>2, <1>3, <1>4, <1>5
<1>7. DOMAIN ram' = 1..Len(ram')
  BY <1>5, LenProperties
<1>8. RamBudget'
  BY <1>4, <1>6 DEF RamBudget, RamInv
<1> QED
  BY <1>5, <1>7, <1>8 DEF RamInv

\* A put(): eviction stops in time, for the last entry alone fits.
LEMMA Filled ==
    ASSUME TypeOK, RamInv, NEW k \in Key, NEW v \in Value, v.made = version,
           RamPut(k, v), UNCHANGED version
    PROVE  ram' \in Seq(Hot) /\ RamInv'
<1>0. ram \in Seq(Hot)
  BY DEF TypeOK, Hot
<1>1. CASE v.size > RamMax
  <2>1. ram' = ram /\ ramBytes' = ramBytes
    BY <1>1 DEF RamPut
  <2> QED
    BY <2>1, <1>0 DEF RamInv, RamBudget, Total
<1>2. CASE ~(v.size > RamMax)
  <2> DEFINE e == [key |-> k, val |-> v]
             store == Append(RamWithout(k), e)
             bytes == ramBytes - ReplacedBytes(k) + v.size
             Left(i) == bytes - Total(SubSeq(store, 1, i))
             Enough(i) == Left(i) <= RamMax \/ i = Len(store) - 1
             First(i) == Enough(i) /\ \A j \in 0..(i - 1) : ~Enough(j)
             n == CHOOSE i \in 0..(Len(store) - 1) : First(i)
  <2>1. ram' = SubSeq(store, n + 1, Len(store)) /\ ramBytes' = Left(n)
    BY <1>2 DEF RamPut
  <2>2. e \in Hot /\ e.key = k /\ e.val = v
    BY DEF Hot
  <2>3. /\ store \in Seq(Hot)
        /\ Len(store) \in Nat \ {0} /\ store[Len(store)] = e
        /\ \A i, j \in 1..Len(store) : store[i].key = store[j].key => i = j
        /\ \A i \in 1..Len(store) : store[i].val.made = version
        /\ Total(store) = bytes
    BY <1>0, <2>2, StoredLast
  <2> HIDE DEF store, bytes, e
  <2>4. ASSUME NEW i \in 0..Len(store)
        PROVE  Left(i) = Total(SubSeq(store, i + 1, Len(store))) /\ Left(i) \in Nat
    <3>1. /\ SubSeq(store, 1, i) \in Seq(Hot)
          /\ SubSeq(store, i + 1, Len(store)) \in Seq(Hot)
          /\ Total(store) = Total(SubSeq(store, 1, i)) + Total(SubSeq(store, i + 1, Len(store)))
      BY <2>3, EntriesWeighed, TotalCut
    <3>2. Total(SubSeq(store, 1, i)) \in Nat /\ Total(SubSeq(store, i + 1, Len(store))) \in Nat
      BY <3>1, EntriesWeighed, TotalInNat
    <3> QED
      BY <3>1, <3>2, <2>3
  <2> HIDE DEF Left
  <2>5. \E i \in 0..(Len(store) - 1) : First(i)
    <3> DEFINE T == {i \in 0..(Len(store) - 1) : Enough(i)}
    <3>1. Len(store) - 1 \in T /\ T \subseteq Nat
      BY <2>3
    <3>2. PICK m \in T : \A j \in T : m <= j
      BY <3>1, Least
    <3>3. ASSUME NEW j \in 0..(m - 1) PROVE ~Enough(j)
      BY <3>2, <2>3
    <3> QED
      BY <3>2, <3>3
  <2>6. n \in 0..(Len(store) - 1) /\ First(n)
    BY <2>5
  <2> HIDE DEF n
  <2>7. n \in 0..Len(store) /\ n + 1 \in 1..Len(store)
    BY <2>3, <2>6
  <2>8. /\ ram' \in Seq(Hot) /\ Len(ram') = Len(store) - n
        /\ \A i \in 1..(Len(store) - n) : ram'[i] = store[n + i]
    <3>1. \A i \in (n + 1)..Len(store) : store[i] \in Hot
      BY <2>3, <2>7, ElementOfSeq
    <3>2. /\ ram' \in Seq(Hot)
          /\ Len(ram') = IF n + 1 <= Len(store) THEN Len(store) - (n + 1) + 1 ELSE 0
          /\ \A i \in 1..(Len(store) - (n + 1) + 1) : ram'[i] = store[(n + 1) + i - 1]
      BY <2>1, <2>3, <2>7, <3>1, SubSeqProperties
    <3> QED
      BY <3>2, <2>3, <2>7
  <2>9. Left(n) <= RamMax
    <3>1. CASE Left(n) <= RamMax
      BY <3>1
    <3>2. CASE n = Len(store) - 1
      <4>1. /\ Len(ram') = 1 /\ ram'[1] = e
        BY <2>3, <2>7, <2>8, <3>2
      <4>2. Len(<<e>>) = 1 /\ <<e>>[1] = e /\ <<e>> \in Seq(Hot)
        BY <2>2
      <4>3. ram' = <<e>>
        BY <4>1, <4>2, <2>8, SeqEqual
      <4>4. Total(ram') = v.size
        BY <4>3, <2>2, EntriesWeighed, TotalOne
      <4>5. v.size \in Nat
        BY EntriesWeighed
      <4> QED
        BY <4>4, <4>5, <2>1, <2>4, <2>7, <1>2, CacheAssumption
    <3> QED
      BY <2>6, <3>1, <3>2
  <2>10. RamBudget'
    BY <2>1, <2>4, <2>7, <2>9 DEF RamBudget
  <2>11. DOMAIN ram' = 1..Len(ram')
    BY <2>8, LenProperties
  <2>12. ASSUME NEW i \in DOMAIN ram', NEW j \in DOMAIN ram', ram'[i].key = ram'[j].key
         PROVE  i = j
    BY <2>3, <2>7, <2>8, <2>11, <2>12
  <2>13. ASSUME NEW i \in DOMAIN ram' PROVE ram'[i].val.made = version'
    BY <2>3, <2>7, <2>8, <2>11
  <2> QED
    BY <2>8, <2>10, <2>12, <2>13 DEF RamInv
<1> QED
  BY <1>1, <1>2

\* DiskWithout and Blob take out the one blob of a name.
LEMMA WithoutName ==
    ASSUME disk \in Seq(Durable), DiskInv, NEW n \in Name
    PROVE  LET r == DiskWithout(n)
           IN  /\ r \in Seq(Durable)
               /\ \A i \in 1..Len(r) : /\ r[i].name # n
                                       /\ r[i].val.made = r[i].name[1]
                                       /\ r[i].val.size <= DiskMax
               /\ \A i, j \in 1..Len(r) : r[i].name = r[j].name => i = j
               /\ \A m \in Name : (OnDisk(m) /\ m # n) <=> \E i \in 1..Len(r) : r[i].name = m
               /\ OnDisk(n) => /\ Blob(n) \in Durable
                               /\ Blob(n).name = n
                               /\ Blob(n).val.made = n[1]
                               /\ Blob(n).val.size <= DiskMax
               /\ Total(r) = Total(disk) - (IF OnDisk(n) THEN Blob(n).val.size ELSE 0)
<1>1. Len(disk) \in Nat /\ DOMAIN disk = 1..Len(disk) /\ \A i \in 1..Len(disk) : disk[i] \in Durable
  BY LenProperties, ElementOfSeq
<1>2. CASE ~OnDisk(n)
  <2>1. DiskWithout(n) = disk /\ Total(disk) \in Nat
    BY <1>2, EntriesWeighed, TotalInNat DEF DiskWithout
  <2> QED
    BY <2>1, <1>1, <1>2 DEF OnDisk, DiskInv
<1>3. CASE OnDisk(n)
  <2> DEFINE p == DiskPlace(n)
             r == RemoveAt(disk, p)
  <2>1. p \in 1..Len(disk) /\ disk[p].name = n
    BY <1>1, <1>3 DEF OnDisk, DiskPlace
  <2>2. Blob(n) = disk[p] /\ DiskWithout(n) = r
    BY <1>3 DEF Blob, DiskWithout
  <2> HIDE DEF p
  <2>3. /\ r \in Seq(Durable) /\ Len(r) = Len(disk) - 1
        /\ \A i \in 1..(Len(disk) - 1) : r[i] = disk[IF i < p THEN i ELSE i + 1]
        /\ Total(r) = Total(disk) - disk[p].val.size
    BY <2>1, EntriesWeighed, Removed
  <2> HIDE DEF r
  <2>4. \A i, j \in 1..Len(disk) : disk[i].name = disk[j].name => i = j
    BY <1>1 DEF DiskInv
  <2>5. \A i \in 1..Len(disk) : /\ disk[i].val.made = disk[i].name[1]
                                /\ disk[i].val.size <= DiskMax
    BY <1>1 DEF DiskInv
  <2>6. ASSUME NEW i \in 1..Len(r)
        PROVE  \E j \in 1..Len(disk) : j # p /\ r[i] = disk[j]
    BY <1>1, <2>1, <2>3
  <2>7. ASSUME NEW j \in 1..Len(disk), j # p
        PROVE  \E i \in 1..Len(r) : r[i] = disk[j]
    <3>1. CASE j < p
      BY <1>1, <2>1, <2>3, <3>1
    <3>2. CASE j > p
      <4>1. j - 1 \in 1..Len(r) /\ ~(j - 1 < p) /\ (j - 1) + 1 = j
        BY <1>1, <2>1, <2>3, <3>2
      <4> QED
        BY <4>1, <2>3
    <3> QED
      BY <1>1, <2>1, <2>7, <3>1, <3>2
  <2>8. ASSUME NEW i \in 1..Len(r), NEW j \in 1..Len(r), r[i].name = r[j].name PROVE i = j
    BY <1>1, <2>1, <2>3, <2>4, <2>8
  <2>9. \A i \in 1..Len(r) : /\ r[i].name # n
                             /\ r[i].val.made = r[i].name[1]
                             /\ r[i].val.size <= DiskMax
    BY <2>1, <2>4, <2>5, <2>6
  <2>10. ASSUME NEW m \in Name
         PROVE  (OnDisk(m) /\ m # n) <=> \E i \in 1..Len(r) : r[i].name = m
    <3>1. ASSUME OnDisk(m), m # n PROVE \E i \in 1..Len(r) : r[i].name = m
      <4>1. PICK j \in 1..Len(disk) : disk[j].name = m
        BY <1>1, <3>1 DEF OnDisk
      <4> QED
        BY <4>1, <2>1, <2>7, <3>1
    <3>2. ASSUME NEW i \in 1..Len(r), r[i].name = m PROVE OnDisk(m) /\ m # n
      BY <1>1, <2>6, <2>9, <3>2 DEF OnDisk
    <3> QED
      BY <3>1, <3>2
  <2>11. /\ disk[p] \in Durable /\ disk[p].name = n
         /\ disk[p].val.made = n[1] /\ disk[p].val.size <= DiskMax
    BY <1>1, <2>1, <2>5
  <2> QED
    BY <1>3, <2>2, <2>3, <2>8, <2>9, <2>10, <2>11
<1> QED
  BY <1>2, <1>3

\* A blob stored, or touched, is the newest.
LEMMA StoredBlob ==
    ASSUME disk \in Seq(Durable), DiskInv, NEW n \in Name,
           NEW e \in Durable, e.name = n, e.val.made = n[1], e.val.size <= DiskMax,
           disk' = Append(DiskWithout(n), e)
    PROVE  /\ disk' \in Seq(Durable)
           /\ disk' # <<>>
           /\ DiskInv'
           /\ \A m \in Name : OnDisk(m)' <=> OnDisk(m) \/ m = n
           /\ Total(disk') = Total(DiskWithout(n)) + e.val.size
<1> DEFINE r == DiskWithout(n)
<1>1. /\ r \in Seq(Durable)
      /\ \A i \in 1..Len(r) : /\ r[i].name # n
                              /\ r[i].val.made = r[i].name[1]
                              /\ r[i].val.size <= DiskMax
      /\ \A i, j \in 1..Len(r) : r[i].name = r[j].name => i = j
      /\ \A m \in Name : (OnDisk(m) /\ m # n) <=> \E i \in 1..Len(r) : r[i].name = m
  BY WithoutName
<1> HIDE DEF r
<1>2. Len(r) \in Nat
  BY <1>1, LenProperties
<1>3. disk' = Append(r, e)
  BY DEF r
<1>4. /\ disk' \in Seq(Durable) /\ disk' # <<>> /\ Len(disk') = Len(r) + 1
      /\ \A i \in 1..Len(r) : disk'[i] = r[i]
      /\ disk'[Len(r) + 1] = e
  BY <1>1, <1>3, AppendProperties
<1>5. Total(disk') = Total(r) + e.val.size
  BY <1>1, <1>3, EntriesWeighed, TotalAppend
<1>6. DOMAIN disk' = 1..(Len(r) + 1)
  BY <1>4, LenProperties
<1>7. ASSUME NEW i \in DOMAIN disk'
      PROVE  /\ disk'[i].val.made = disk'[i].name[1]
             /\ disk'[i].val.size <= DiskMax
  BY <1>1, <1>2, <1>4, <1>6
<1>8. ASSUME NEW i \in DOMAIN disk', NEW j \in DOMAIN disk', disk'[i].name = disk'[j].name
      PROVE  i = j
  BY <1>1, <1>2, <1>4, <1>6, <1>8
<1>9. ASSUME NEW m \in Name PROVE OnDisk(m)' <=> OnDisk(m) \/ m = n
  <2>1. OnDisk(m)' <=> \E i \in 1..(Len(r) + 1) : disk'[i].name = m
    BY <1>6 DEF OnDisk
  <2>2. (\E i \in 1..(Len(r) + 1) : disk'[i].name = m)
          <=> (\E i \in 1..Len(r) : r[i].name = m) \/ m = n
    BY <1>2, <1>4
  <2> QED
    BY <2>1, <2>2, <1>1
<1> QED
  BY <1>4, <1>5, <1>7, <1>8, <1>9 DEF DiskInv, r

\* A blob unlinked, by the eviction of w, whose oldest victim it is.
LEMMA Unlinked ==
    ASSUME IInv, NEW w \in Worker, pc[w] = "unlink", disk' = DiskWithout(Head(victims[w]))
    PROVE  LET n == Head(victims[w])
           IN  /\ n \in Name /\ OnDisk(n)
               /\ Tail(victims[w]) \in Seq(Name)
               /\ disk' \in Seq(Durable)
               /\ DiskInv'
               /\ Total(disk') = Total(disk) - Blob(n).val.size
               /\ disk' # <<>>
               /\ Tail(victims[w]) # <<>>
               /\ LET t == Tail(victims[w])
                  IN  /\ \A i, j \in DOMAIN t : t[i] = t[j] => i = j
                      /\ \A m \in Name : OnDisk(m)' <=> \E i \in DOMAIN t : t[i] = m
<1> DEFINE v == victims[w]
           n == Head(v)
           t == Tail(v)
<1>1. /\ v \in Seq(Name) /\ disk \in Seq(Durable) /\ DiskInv
      /\ Total(disk) > DiskMax
      /\ \A i, j \in DOMAIN v : v[i] = v[j] => i = j
      /\ \A m \in Name : OnDisk(m) <=> \E i \in DOMAIN v : v[i] = m
  BY DEF IInv, TypeOK, Durable, WorkerInv, Evicting
<1>2. Len(disk) \in Nat /\ DOMAIN disk = 1..Len(disk) /\ \A i \in 1..Len(disk) : disk[i] \in Durable
  BY <1>1, LenProperties, ElementOfSeq
<1>3. disk # <<>>
  BY <1>1, EntriesWeighed, TotalInNat, CacheAssumption
<1>4. v # <<>>
  <2>1. Len(disk) # 0
    BY <1>1, <1>3, EmptySeq
  <2>2. disk[1] \in Durable /\ 1 \in DOMAIN disk
    BY <1>2, <2>1
  <2>3. disk[1].name \in Name /\ OnDisk(disk[1].name)
    BY <2>2 DEF Durable, OnDisk
  <2>4. DOMAIN v # {}
    BY <1>1, <2>3
  <2>5. DOMAIN v = 1..Len(v)
    BY <1>1, LenProperties
  <2> QED
    BY <2>4, <2>5, EmptySeq
<1>5. /\ n \in Name /\ t \in Seq(Name) /\ Len(t) = Len(v) - 1
      /\ \A i \in 1..Len(t) : t[i] = v[i + 1]
      /\ Len(v) \in Nat \ {0} /\ DOMAIN v = 1..Len(v) /\ DOMAIN t = 1..Len(t)
  BY <1>1, <1>4, HeadTailProperties, EmptySeq, LenProperties
<1>6. n = v[1]
  BY <1>1, <1>4
<1> HIDE DEF v, n, t
<1>7. OnDisk(n)
  BY <1>1, <1>5, <1>6
<1>8. /\ disk' \in Seq(Durable)
      /\ \A i \in 1..Len(disk') : /\ disk'[i].name # n
                                  /\ disk'[i].val.made = disk'[i].name[1]
                                  /\ disk'[i].val.size <= DiskMax
      /\ \A i, j \in 1..Len(disk') : disk'[i].name = disk'[j].name => i = j
      /\ \A m \in Name : (OnDisk(m) /\ m # n) <=> \E i \in 1..Len(disk') : disk'[i].name = m
      /\ Blob(n) \in Durable /\ Blob(n).val.size <= DiskMax
      /\ Total(disk') = Total(disk) - Blob(n).val.size
  <2> DEFINE r == DiskWithout(n)
  <2>1. disk' = r
    BY DEF n, v
  <2>2. /\ r \in Seq(Durable)
        /\ \A i \in 1..Len(r) : /\ r[i].name # n
                                /\ r[i].val.made = r[i].name[1]
                                /\ r[i].val.size <= DiskMax
        /\ \A i, j \in 1..Len(r) : r[i].name = r[j].name => i = j
        /\ \A m \in Name : (OnDisk(m) /\ m # n) <=> \E i \in 1..Len(r) : r[i].name = m
        /\ Blob(n) \in Durable /\ Blob(n).val.size <= DiskMax
    BY <1>1, <1>5, <1>7, WithoutName
  <2>3. Total(r) = Total(disk) - (IF OnDisk(n) THEN Blob(n).val.size ELSE 0)
    BY <1>1, <1>5, WithoutName
  <2> HIDE DEF r
  <2> QED
    BY <2>1, <2>2, <2>3, <1>7
<1>9. DOMAIN disk' = 1..Len(disk')
  BY <1>8, LenProperties
<1>10. DiskInv'
  BY <1>8, <1>9 DEF DiskInv
<1>11. disk' # <<>>
  <2>1. Total(disk) \in Nat /\ Blob(n).val.size \in Nat
    BY <1>1, <1>8, EntriesWeighed, TotalInNat DEF Weighed
  <2>2. Total(disk') # 0
    BY <2>1, <1>1, <1>8, CacheAssumption
  <2> QED
    BY <2>2, <1>8, EntriesWeighed, TotalInNat
<1>12. ASSUME NEW m \in Name PROVE OnDisk(m)' <=> \E i \in DOMAIN t : t[i] = m
  <2>1. OnDisk(m)' <=> OnDisk(m) /\ m # n
    BY <1>8, <1>9 DEF OnDisk
  <2>2. OnDisk(m) <=> \E i \in 1..Len(v) : v[i] = m
    BY <1>1, <1>5
  <2>3. ASSUME NEW i \in 1..Len(v), v[i] = m, m # n PROVE \E j \in DOMAIN t : t[j] = m
    <3>1. i - 1 \in 1..Len(t) /\ (i - 1) + 1 = i
      BY <1>5, <1>6, <2>3
    <3> QED
      BY <3>1, <1>5, <2>3
  <2>4. ASSUME NEW j \in DOMAIN t, t[j] = m PROVE (\E i \in 1..Len(v) : v[i] = m) /\ m # n
    <3>1. j + 1 \in 1..Len(v) /\ v[j + 1] = m /\ j + 1 # 1
      BY <1>5, <2>4
    <3> QED
      BY <3>1, <1>1, <1>5, <1>6
  <2> QED
    BY <2>1, <2>2, <2>3, <2>4
<1>13. ASSUME NEW i \in DOMAIN t, NEW j \in DOMAIN t, t[i] = t[j] PROVE i = j
  <2>1. i + 1 \in 1..Len(v) /\ j + 1 \in 1..Len(v) /\ v[i + 1] = v[j + 1]
    BY <1>5, <1>13
  <2>2. i + 1 = j + 1
    BY <2>1, <1>1, <1>5
  <2> QED
    BY <2>2, <1>5
<1>14. t # <<>>
  <2>1. Len(disk') # 0
    BY <1>8, <1>11, EmptySeq
  <2>2. disk'[1] \in Durable /\ 1 \in DOMAIN disk'
    BY <2>1, <1>8, <1>9, LenProperties, ElementOfSeq
  <2>3. \E m \in Name : OnDisk(m)'
    BY <2>2 DEF Durable, OnDisk
  <2>4. DOMAIN t # {}
    BY <1>12, <2>3
  <2> QED
    BY <2>4, <1>5, EmptySeq
<1> QED
  BY <1>5, <1>7, <1>8, <1>10, <1>11, <1>12, <1>13, <1>14 DEF v, n, t

-----------------------------------------------------------------------------
(* The steps                                                               *)

LEMMA Locals ==
    ASSUME IInv
    PROVE  /\ AnyKey \in Key /\ AnyValue \in Value
           /\ ram \in Seq(Hot) /\ disk \in Seq(Durable)
           /\ \A w \in Worker : /\ key[w] \in Key
                                /\ val[w] \in Value
                                /\ PathFor(key[w]) \in Name
                                /\ PathFor(key[w])[1] = version
<1>1. \E v \in Value : TRUE
  <2>1. [made |-> version, size |-> 1] \in Value
    BY CacheAssumption DEF Value, IInv, TypeOK
  <2> QED
    BY <2>1
<1>2. AnyKey \in Key /\ AnyValue \in Value
  BY <1>1, CacheAssumption DEF AnyKey, AnyValue
<1> QED
  BY <1>2 DEF IInv, TypeOK, Hot, Durable, PathFor, Name

\* A worker that does nothing, while the disk stays, or its blobs are only
\* reordered, or other workers change it under a lock this one does not hold.
LEMMA Bystander ==
    ASSUME IInv, NEW v \in Worker,
           pc'[v] = pc[v], val'[v] = val[v], victims'[v] = victims[v],
           UNCHANGED version, lock' = {v} <=> lock = {v},
           \/ disk' = disk
           \/ /\ disk' # <<>> /\ Total(disk') = Total(disk)
              /\ \A n \in Name : OnDisk(n)' <=> OnDisk(n)
           \/ lock # {v}
    PROVE  WorkerInv(v)'
<1>1. WorkerInv(v)
  BY DEF IInv
<1>2. pc[v] = "unlink" => Evicting(v)'
  <2>1. CASE disk' = disk
    BY <1>1, <2>1 DEF WorkerInv, Evicting, OnDisk, Total
  <2>2. CASE /\ Total(disk') = Total(disk)
             /\ \A n \in Name : OnDisk(n)' <=> OnDisk(n)
    BY <1>1, <2>2 DEF WorkerInv, Evicting
  <2>3. CASE lock # {v}
    BY <1>1, <2>3 DEF WorkerInv
  <2> QED
    BY <2>1, <2>2, <2>3
<1>3. pc[v] = "scan" => disk' # <<>>
  BY <1>1 DEF WorkerInv
<1> QED
  BY <1>1, <1>2, <1>3 DEF WorkerInv

\* Nothing that the tiers' invariants speak of changes.
LEMMA RamKept ==
    ASSUME IInv, UNCHANGED <<ram, ramBytes, version>>
    PROVE  ram' \in Seq(Hot) /\ RamInv'
BY DEF IInv, TypeOK, Hot, RamInv, RamBudget, Total

LEMMA DiskKept ==
    ASSUME IInv, UNCHANGED disk
    PROVE  disk' \in Seq(Durable) /\ DiskInv'
BY DEF IInv, TypeOK, Durable, DiskInv

\* The types of the rest.
LocalsOK ==
    /\ lock \subseteq Worker
    /\ version \in Version
    /\ pc \in [Worker -> PC]
    /\ key \in [Worker -> Key]
    /\ val \in [Worker -> Value]
    /\ victims \in [Worker -> Seq(Name)]

LEMMA IInvOfParts ==
    ASSUME ram' \in Seq(Hot), RamInv', disk' \in Seq(Durable), DiskInv', LocalsOK',
           \A w \in Worker : WorkerInv(w)'
    PROVE  IInv'
<1>1. ramBytes' \in 0..RamMax
  BY EntriesWeighed, TotalInNat, CacheAssumption DEF RamInv, RamBudget
<1>2. TypeOK'
  BY <1>1 DEF TypeOK, LocalsOK, Hot, Durable
<1> QED
  BY <1>2 DEF IInv

LEMMA InitIInv == Init => IInv
<1> SUFFICES ASSUME Init PROVE IInv
  OBVIOUS
<1>1. ram \in Seq(Hot) /\ disk \in Seq(Durable)
  BY DEF Init
<1>2. DOMAIN ram = {} /\ DOMAIN disk = {}
  BY DEF Init
<1>3. RamInv
  <2>1. Total(ram) = 0
    BY <1>1, EntriesWeighed, TotalInNat DEF Init
  <2> QED
    BY <2>1, <1>2, CacheAssumption DEF Init, RamInv, RamBudget
<1>4. DiskInv
  BY <1>2 DEF DiskInv
<1>5. LocalsOK
  <2>1. [made |-> version, size |-> 1] \in Value
    BY CacheAssumption DEF Value, Init
  <2>2. AnyKey \in Key /\ AnyValue \in Value
    BY <2>1, CacheAssumption DEF AnyKey, AnyValue
  <2> QED
    BY <2>2 DEF Init, LocalsOK, PC
<1>6. TypeOK
  BY <1>1, <1>5, CacheAssumption DEF TypeOK, LocalsOK, Hot, Durable, Init
<1>7. \A w \in Worker : WorkerInv(w)
  BY DEF Init, WorkerInv
<1> QED
  BY <1>3, <1>4, <1>6, <1>7 DEF IInv

LEMMA StayIInv ==
    ASSUME IInv, UNCHANGED vars
    PROVE  IInv'
<1>1. ram' \in Seq(Hot) /\ RamInv' /\ disk' \in Seq(Durable) /\ DiskInv'
  BY RamKept, DiskKept DEF vars, tiers
<1>2. LocalsOK'
  BY DEF IInv, TypeOK, LocalsOK, vars, tiers
<1>3. \A v \in Worker : WorkerInv(v)'
  BY Bystander DEF vars, tiers
<1> QED
  BY <1>1, <1>2, <1>3, IInvOfParts

LEMMA RestartIInv ==
    ASSUME IInv, Restart
    PROVE  IInv'
<1>1. disk' \in Seq(Durable) /\ DiskInv'
  BY DiskKept DEF Restart
<1>2. ram' = <<>> /\ ramBytes' = 0 /\ ram' \in Seq(Hot) /\ DOMAIN ram' = {}
  BY DEF Restart
<1>3. RamInv'
  <2>1. Total(ram') = 0
    BY <1>2, EntriesWeighed, TotalInNat
  <2> QED
    BY <2>1, <1>2, CacheAssumption DEF RamInv, RamBudget
<1>4. LocalsOK'
  BY Locals DEF Restart, LocalsOK, PC
<1>5. \A v \in Worker : WorkerInv(v)'
  BY DEF Restart, WorkerInv
<1> QED
  BY <1>1, <1>2, <1>3, <1>4, <1>5, IInvOfParts

\* One worker's step: the tiers, then this worker, then the others.
LEMMA WorkerIInv ==
    ASSUME IInv, NEW w \in Worker, WorkerStep(w)
    PROVE  IInv'
<1> USE DEF PC
<1>0. /\ ram \in Seq(Hot) /\ disk \in Seq(Durable) /\ LocalsOK
      /\ RamInv /\ DiskInv /\ WorkerInv(w) /\ TypeOK
      /\ \A v \in Worker : WorkerInv(v)
      /\ key[w] \in Key /\ val[w] \in Value
      /\ PathFor(key[w]) \in Name /\ PathFor(key[w])[1] = version
      /\ AnyKey \in Key /\ AnyValue \in Value
  BY Locals DEF IInv, TypeOK, LocalsOK
<1>1. CASE \E k \in Key : GetHot(w, k)
  <2>1. PICK k \in Key : GetHot(w, k)
    BY <1>1
  <2>2. ram' \in Seq(Hot) /\ RamInv'
    BY <2>1, <1>0, Touched DEF GetHot
  <2>3. disk' \in Seq(Durable) /\ DiskInv'
    BY <2>1, DiskKept DEF GetHot
  <2>4. LocalsOK'
    BY <2>1, <1>0 DEF GetHot, LocalsOK
  <2>5. \A v \in Worker : WorkerInv(v)'
    BY <2>1, Bystander DEF GetHot
  <2> QED
    BY <2>2, <2>3, <2>4, <2>5, IInvOfParts
<1>2. CASE \E k \in Key : GetCold(w, k)
  <2>1. PICK k \in Key : GetCold(w, k)
    BY <1>2
  <2>2. ram' \in Seq(Hot) /\ RamInv' /\ disk' \in Seq(Durable) /\ DiskInv'
    BY <2>1, RamKept, DiskKept DEF GetCold, tiers
  <2>3. LocalsOK'
    BY <2>1, <1>0 DEF GetCold, LocalsOK
  <2>4. WorkerInv(w)'
    BY <2>1, <1>0 DEF GetCold, LocalsOK, WorkerInv
  <2>5. ASSUME NEW v \in Worker, v # w PROVE WorkerInv(v)'
    BY <2>1, <2>5, <1>0, Bystander DEF GetCold, LocalsOK, tiers
  <2> QED
    BY <2>2, <2>3, <2>4, <2>5, IInvOfParts
<1>3. CASE Read(w)
  <2>1. ram' \in Seq(Hot) /\ RamInv' /\ disk' \in Seq(Durable) /\ DiskInv'
    BY <1>3, RamKept, DiskKept DEF Read, tiers
  <2> DEFINE n == PathFor(key[w])
  <2>2. OnDisk(n) => Blob(n) \in Durable /\ Blob(n).val.made = version
    BY <1>0, WithoutName
  <2>3. OnDisk(n) => Blob(n).val \in Value
    BY <2>2 DEF Durable
  <2>4. LocalsOK'
    BY <1>3, <1>0, <2>3 DEF Read, Go, LocalsOK
  <2>5. WorkerInv(w)'
    BY <1>3, <1>0, <2>2 DEF Read, Go, LocalsOK, WorkerInv
  <2>6. ASSUME NEW v \in Worker, v # w PROVE WorkerInv(v)'
    BY <1>3, <2>6, <1>0, Bystander DEF Read, Go, LocalsOK, tiers
  <2> QED
    BY <2>1, <2>4, <2>5, <2>6, IInvOfParts
<1>4. CASE Touch(w)
  <2> DEFINE n == PathFor(key[w])
             e == Blob(n)
  <2>1. ram' \in Seq(Hot) /\ RamInv'
    BY <1>4, RamKept DEF Touch
  <2>2. LocalsOK'
    BY <1>4, <1>0 DEF Touch, Go, LocalsOK
  <2>3. CASE ~OnDisk(n)
    <3>1. disk' = disk
      BY <1>4, <2>3 DEF Touch
    <3>2. disk' \in Seq(Durable) /\ DiskInv'
      BY <3>1, DiskKept
    <3>3. WorkerInv(w)'
      BY <1>4, <1>0 DEF Touch, Go, LocalsOK, WorkerInv
    <3>4. ASSUME NEW v \in Worker, v # w PROVE WorkerInv(v)'
      BY <1>4, <3>1, <3>4, <1>0, Bystander DEF Touch, Go, LocalsOK
    <3> QED
      BY <2>1, <2>2, <3>2, <3>3, <3>4, IInvOfParts
  <2>4. CASE OnDisk(n)
    <3>1. disk' = Append(DiskWithout(n), e)
      BY <1>4, <2>4 DEF Touch
    <3>2. /\ e \in Durable /\ e.name = n /\ e.val.made = n[1] /\ e.val.size <= DiskMax
          /\ Total(DiskWithout(n)) = Total(disk) - e.val.size
      BY <1>0, <2>4, WithoutName
    <3>3. e.val.size \in Nat /\ Total(disk) \in Nat
      BY <1>0, <3>2, EntriesWeighed, TotalInNat DEF Weighed
    <3>4. n \in Name /\ OnDisk(n)
      BY <1>0, <2>4
    <3> HIDE DEF e, n
    <3>5. /\ disk' \in Seq(Durable) /\ DiskInv' /\ disk' # <<>>
          /\ \A m \in Name : OnDisk(m)' <=> OnDisk(m) \/ m = n
          /\ Total(disk') = Total(DiskWithout(n)) + e.val.size
      BY <1>0, <3>1, <3>2, <3>4, StoredBlob
    <3>6. Total(disk') = Total(disk)
      BY <3>2, <3>3, <3>5
    <3>7. \A m \in Name : OnDisk(m)' <=> OnDisk(m)
      BY <3>4, <3>5
    <3>8. WorkerInv(w)'
      BY <1>4, <1>0 DEF Touch, Go, LocalsOK, WorkerInv
    <3>9. ASSUME NEW v \in Worker, v # w PROVE WorkerInv(v)'
      <4>1. /\ pc'[v] = pc[v] /\ val'[v] = val[v] /\ victims'[v] = victims[v]
            /\ UNCHANGED version /\ UNCHANGED lock
        BY <1>4, <1>0, <3>9 DEF Touch, Go, LocalsOK
      <4> QED
        BY <4>1, <3>5, <3>6, <3>7, Bystander
    <3> QED
      BY <2>1, <2>2, <3>5, <3>8, <3>9, IInvOfParts
  <2> QED
    BY <2>3, <2>4
<1>5. CASE Fill(w)
  <2>1. ram' \in Seq(Hot) /\ RamInv'
    BY <1>5, <1>0, Filled DEF Fill, WorkerInv
  <2>2. disk' \in Seq(Durable) /\ DiskInv'
    BY <1>5, DiskKept DEF Fill
  <2>3. LocalsOK'
    BY <1>5, <1>0 DEF Fill, Done, LocalsOK
  <2>4. WorkerInv(w)'
    BY <1>5, <1>0 DEF Fill, Done, LocalsOK, WorkerInv
  <2>5. ASSUME NEW v \in Worker, v # w PROVE WorkerInv(v)'
    BY <1>5, <2>5, <1>0, Bystander DEF Fill, Done, LocalsOK
  <2> QED
    BY <2>1, <2>2, <2>3, <2>4, <2>5, IInvOfParts
<1>6. CASE Generate(w)
  <2>1. ram' \in Seq(Hot) /\ RamInv' /\ disk' \in Seq(Durable) /\ DiskInv'
    BY <1>6, RamKept, DiskKept DEF Generate, tiers
  <2>2. \A s \in 1..MaxSize : [made |-> version, size |-> s] \in Value
    BY <1>0 DEF Value, LocalsOK
  <2>3. LocalsOK'
    BY <1>6, <1>0, <2>2 DEF Generate, Done, LocalsOK
  <2>4. WorkerInv(w)'
    BY <1>6, <1>0 DEF Generate, Done, LocalsOK, WorkerInv
  <2>5. ASSUME NEW v \in Worker, v # w PROVE WorkerInv(v)'
    BY <1>6, <2>5, <1>0, Bystander DEF Generate, Done, LocalsOK, tiers
  <2> QED
    BY <2>1, <2>3, <2>4, <2>5, IInvOfParts
<1>7. CASE Put(w)
  <2>1. ram' \in Seq(Hot) /\ RamInv'
    BY <1>7, <1>0, Filled DEF Put, WorkerInv
  <2>2. disk' \in Seq(Durable) /\ DiskInv'
    BY <1>7, DiskKept DEF Put
  <2>3. LocalsOK'
    BY <1>7, <1>0 DEF Put, Go, Done, LocalsOK
  <2>4. WorkerInv(w)'
    <3>1. CASE val[w].size > DiskMax
      BY <1>7, <1>0, <3>1 DEF Put, Done, LocalsOK, WorkerInv
    <3>2. CASE ~(val[w].size > DiskMax)
      <4>1. val[w].size <= DiskMax
        BY <3>2, <1>0, EntriesWeighed, CacheAssumption
      <4> QED
        BY <1>7, <1>0, <3>2, <4>1 DEF Put, Go, LocalsOK, WorkerInv
    <3> QED
      BY <3>1, <3>2
  <2>5. ASSUME NEW v \in Worker, v # w PROVE WorkerInv(v)'
    BY <1>7, <2>5, <1>0, Bystander DEF Put, Go, Done, LocalsOK
  <2> QED
    BY <2>1, <2>2, <2>3, <2>4, <2>5, IInvOfParts
<1>8. CASE Store(w)
  <2>1. ram' \in Seq(Hot) /\ RamInv' /\ disk' \in Seq(Durable) /\ DiskInv'
    BY <1>8, RamKept, DiskKept DEF Store
  <2>2. LocalsOK'
    BY <1>8, <1>0 DEF Store, Go, LocalsOK
  <2>3. WorkerInv(w)'
    BY <1>8, <1>0 DEF Store, Go, LocalsOK, WorkerInv
  <2>4. ASSUME NEW v \in Worker, v # w PROVE WorkerInv(v)'
    <3>1. lock' # {v} /\ lock # {v}
      BY <1>8, <2>4 DEF Store
    <3> QED
      BY <1>8, <2>4, <3>1, <1>0, Bystander DEF Store, Go, LocalsOK
  <2> QED
    BY <2>1, <2>2, <2>3, <2>4, IInvOfParts
<1>9. CASE StoreFails(w)
  <2>1. ram' \in Seq(Hot) /\ RamInv' /\ disk' \in Seq(Durable) /\ DiskInv'
    BY <1>9, RamKept, DiskKept DEF StoreFails, tiers
  <2>2. LocalsOK'
    BY <1>9, <1>0 DEF StoreFails, Done, LocalsOK
  <2>3. WorkerInv(w)'
    BY <1>9, <1>0 DEF StoreFails, Done, LocalsOK, WorkerInv
  <2>4. ASSUME NEW v \in Worker, v # w PROVE WorkerInv(v)'
    <3>1. lock' # {v} /\ lock # {v}
      BY <1>9, <2>4, <1>0 DEF StoreFails, WorkerInv
    <3> QED
      BY <1>9, <2>4, <3>1, <1>0, Bystander DEF StoreFails, Done, LocalsOK, tiers
  <2> QED
    BY <2>1, <2>2, <2>3, <2>4, IInvOfParts
<1>10. CASE Rename(w)
  <2> DEFINE n == PathFor(key[w])
             e == [name |-> n, val |-> val[w]]
  <2>1. ram' \in Seq(Hot) /\ RamInv'
    BY <1>10, RamKept DEF Rename
  <2>2. /\ e \in Durable /\ e.name = n /\ e.val.made = n[1] /\ e.val.size <= DiskMax
        /\ disk' = Append(DiskWithout(n), e) /\ n \in Name
    BY <1>10, <1>0 DEF Rename, WorkerInv, Durable
  <2> HIDE DEF e, n
  <2>3. disk' \in Seq(Durable) /\ DiskInv' /\ disk' # <<>>
    BY <2>2, <1>0, StoredBlob
  <2>4. LocalsOK'
    BY <1>10, <1>0 DEF Rename, Go, LocalsOK
  <2>5. WorkerInv(w)'
    BY <1>10, <1>0, <2>3 DEF Rename, Go, LocalsOK, WorkerInv
  <2>6. ASSUME NEW v \in Worker, v # w PROVE WorkerInv(v)'
    <3>1. lock # {v} /\ UNCHANGED lock
      BY <1>10, <2>6, <1>0 DEF Rename, WorkerInv
    <3> QED
      BY <1>10, <2>6, <3>1, <1>0, Bystander DEF Rename, Go, LocalsOK
  <2> QED
    BY <2>1, <2>3, <2>4, <2>5, <2>6, IInvOfParts
<1>11. CASE Scan(w)
  <2>1. ram' \in Seq(Hot) /\ RamInv' /\ disk' \in Seq(Durable) /\ DiskInv'
    BY <1>11, RamKept, DiskKept DEF Scan, tiers
  <2>2. lock = {w}
    BY <1>11, <1>0 DEF Scan, WorkerInv
  <2>3. ASSUME NEW v \in Worker, v # w PROVE WorkerInv(v)'
    <3>1. lock' # {v} /\ lock # {v}
      BY <1>11, <2>2, <2>3 DEF Scan, Done, Go
    <3> QED
      BY <1>11, <2>3, <3>1, <1>0, Bystander DEF Scan, Done, Go, LocalsOK, tiers
  <2>4. CASE Total(disk) <= DiskMax
    <3>1. LocalsOK'
      BY <1>11, <1>0, <2>4 DEF Scan, Done, LocalsOK
    <3>2. WorkerInv(w)'
      BY <1>11, <1>0, <2>4 DEF Scan, Done, LocalsOK, WorkerInv
    <3> QED
      BY <2>1, <2>3, <3>1, <3>2, IInvOfParts
  <2>5. CASE ~(Total(disk) <= DiskMax)
    <3> DEFINE names == [i \in DOMAIN disk |-> disk[i].name]
    <3>1. names \in Seq(Name) /\ DOMAIN names = DOMAIN disk
      <4>1. /\ Len(disk) \in Nat /\ DOMAIN disk = 1..Len(disk)
            /\ \A i \in 1..Len(disk) : disk[i] \in Durable
        BY <1>0, LenProperties, ElementOfSeq
      <4>2. \A i \in 1..Len(disk) : disk[i].name \in Name
        BY <4>1 DEF Durable
      <4>3. [i \in 1..Len(disk) |-> disk[i].name] \in Seq(Name)
        BY <4>1, <4>2, IsASeq
      <4> QED
        BY <4>1, <4>3
    <3>2. Total(disk) > DiskMax
      BY <2>5, <1>0, EntriesWeighed, TotalInNat, CacheAssumption
    <3>3. /\ victims' = [victims EXCEPT ![w] = names] /\ pc' = [pc EXCEPT ![w] = "unlink"]
          /\ UNCHANGED <<key, val, lock, disk, version>>
      BY <1>11, <2>5 DEF Scan, Go, tiers
    <3>4. LocalsOK'
      BY <3>1, <3>3, <1>0 DEF LocalsOK
    <3>5. victims'[w] = names
      BY <3>3, <1>0 DEF LocalsOK
    <3>6. Evicting(w)'
      <4>1. Total(disk') > DiskMax
        BY <3>2, <3>3
      <4>2. \A i, j \in DOMAIN names : names[i] = names[j] => i = j
        BY <1>0, <3>1 DEF DiskInv
      <4>3. \A n \in Name : OnDisk(n)' <=> \E i \in DOMAIN names : names[i] = n
        BY <3>1, <3>3 DEF OnDisk
      <4> HIDE DEF names
      <4> QED
        BY <4>1, <4>2, <4>3, <3>5 DEF Evicting
    <3>7. WorkerInv(w)'
      BY <2>2, <3>3, <3>6, <1>0 DEF LocalsOK, WorkerInv
    <3> QED
      BY <2>1, <2>3, <3>4, <3>7, IInvOfParts
  <2> QED
    BY <2>4, <2>5
<1>12. CASE Unlink(w)
  <2> DEFINE t == Tail(victims[w])
  <2>1. pc[w] = "unlink" /\ disk' = DiskWithout(Head(victims[w]))
    BY <1>12 DEF Unlink
  <2>2. /\ t \in Seq(Name) /\ disk' \in Seq(Durable) /\ DiskInv' /\ t # <<>>
        /\ \A i, j \in DOMAIN t : t[i] = t[j] => i = j
        /\ \A m \in Name : OnDisk(m)' <=> \E i \in DOMAIN t : t[i] = m
    BY <2>1, Unlinked
  <2>3. ram' \in Seq(Hot) /\ RamInv'
    BY <1>12, RamKept DEF Unlink
  <2>4. lock = {w}
    BY <1>0, <2>1 DEF WorkerInv
  <2>5. ASSUME NEW v \in Worker, v # w PROVE WorkerInv(v)'
    <3>1. lock' # {v} /\ lock # {v}
      BY <1>12, <2>4, <2>5 DEF Unlink, Done
    <3> QED
      BY <1>12, <2>5, <3>1, <1>0, Bystander DEF Unlink, Done, LocalsOK
  <2>6. CASE Total(disk') <= DiskMax
    <3>0. Done(w) /\ victims' = [victims EXCEPT ![w] = <<>>] /\ lock' = {} /\ UNCHANGED version
      BY <1>12, <2>6 DEF Unlink
    <3>1. LocalsOK'
      BY <3>0, <1>0 DEF Done, LocalsOK
    <3>2. WorkerInv(w)'
      BY <1>12, <1>0, <2>6 DEF Unlink, Done, LocalsOK, WorkerInv
    <3> QED
      BY <2>2, <2>3, <2>5, <3>1, <3>2, IInvOfParts
  <2>7. CASE ~(Total(disk') <= DiskMax)
    <3>1. Total(disk') > DiskMax
      BY <2>7, <2>2, EntriesWeighed, TotalInNat, CacheAssumption
    <3>2. /\ victims' = [victims EXCEPT ![w] = t]
          /\ UNCHANGED <<pc, lock, key, val, version>>
      BY <1>12, <2>2, <2>7 DEF Unlink
    <3> HIDE DEF t
    <3>3. LocalsOK' /\ victims'[w] = t
      BY <2>2, <3>2, <1>0 DEF LocalsOK
    <3>4. Evicting(w)'
      BY <2>2, <3>1, <3>3 DEF Evicting
    <3>5. WorkerInv(w)'
      BY <2>1, <3>2, <3>4, <1>0 DEF WorkerInv
    <3> QED
      BY <2>2, <2>3, <2>5, <3>3, <3>5, IInvOfParts
  <2> QED
    BY <2>6, <2>7
<1> QED
  BY <1>1, <1>2, <1>3, <1>4, <1>5, <1>6, <1>7, <1>8, <1>9, <1>10, <1>11, <1>12 DEF WorkerStep

-----------------------------------------------------------------------------
(* The results                                                             *)

\* The inductive invariant, with every variable's type, holds of SourceCache.
THEOREM CacheInvariance == Spec => []IInv
<1>1. IInv /\ [Next]_vars => IInv'
  BY WorkerIInv, RestartIInv, StayIInv DEF Next
<1> QED
  BY <1>1, InitIInv, PTL DEF Spec

\* PcmCache's byte count is the size of what it holds and never exceeds its
\* budget, after any sequence of get() and put(), a replaced key and any
\* number of evicted entries included.
THEOREM RamWithinBudget == Spec => []RamBudget
<1>1. IInv => RamBudget
  BY DEF IInv, RamInv
<1> QED
  BY <1>1, CacheInvariance, PTL

\* No value of another version reaches a caller, from RAM or from disk,
\* whatever versions have run before over the same directory.
THEOREM NoStaleVersion == Spec => []VersionsApart
<1>1. IInv => VersionsApart
  BY DEF IInv, RamInv, WorkerInv, VersionsApart
<1> QED
  BY <1>1, CacheInvariance, PTL

\* A put() that runs to its end leaves the blobs within the disk budget, and
\* at least one of them, whatever get()s touch meanwhile and however far over
\* budget earlier processes left the directory.
THEOREM PutEvicts == Spec => PutLeavesRoom
<1> DEFINE Room == \A w \in Worker :
                      (Scan(w) \/ Unlink(w)) /\ pc'[w] = "idle"
                      => Total(disk') <= DiskMax /\ disk' # <<>>
<1>1. ASSUME IInv, [Next]_vars PROVE [Room]_vars
  <2> SUFFICES ASSUME NEW w \in Worker, Scan(w) \/ Unlink(w), pc'[w] = "idle"
               PROVE  Total(disk') <= DiskMax /\ disk' # <<>>
    OBVIOUS
  <2>1. WorkerInv(w) /\ pc \in [Worker -> PC]
    BY <1>1 DEF IInv, TypeOK
  <2>2. CASE Scan(w)
    <3>1. disk' = disk /\ pc[w] = "scan"
      BY <2>2 DEF Scan, tiers
    <3>2. Total(disk) <= DiskMax
      BY <2>1, <2>2 DEF Scan, Go
    <3> QED
      BY <3>1, <3>2, <2>1 DEF WorkerInv
  <2>3. CASE Unlink(w)
    <3>1. disk' # <<>> /\ Tail(victims[w]) # <<>>
      BY <1>1, <2>3, Unlinked DEF Unlink
    <3>2. Total(disk') <= DiskMax
      BY <2>1, <2>3, <3>1 DEF Unlink
    <3> QED
      BY <3>1, <3>2
  <2> QED
    BY <2>2, <2>3
<1>2. Spec => [][Room]_vars
  BY <1>1, CacheInvariance, PTL DEF Spec
<1> QED
  BY <1>2 DEF PutLeavesRoom
=============================================================================
