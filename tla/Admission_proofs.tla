-------------------------- MODULE Admission_proofs --------------------------
(***************************************************************************)
(* Proofs about the admission queue for any set of requests and any cap.   *)
(*                                                                         *)
(* None of TypeOK, SlotConserved, NoIdleSlot and DepthIsExact is inductive *)
(* alone: that the unit is conserved needs the deque and the futures to    *)
(* agree, that value stays in {0, 1} needs the unit to be conserved, and   *)
(* that depth stays in its bounds needs it to be the number of admitted    *)
(* requests.  IInv is their conjunction.                                   *)
(*                                                                         *)
(* The second half shows that the queue implements the line of GpuSlot.    *)
(* Pending is computed by recursion over the deque, so its laws - what it  *)
(* makes of an append, of two deques in a row, of a cut - are proved by    *)
(* induction over sequences; each action is then one step of the line.     *)
(***************************************************************************)
EXTENDS Admission, FiniteSetTheorems, SequenceTheorems, TLAPS

-----------------------------------------------------------------------------
(* The deque                                                               *)

\* The elements of a deque, and that none occurs twice.
Elements(w) == {w[i] : i \in DOMAIN w}
NoRepeat(w) == \A i, j \in DOMAIN w : w[i] = w[j] => i = j

\* Taking out the k-th element.
Cut(w, k) == SubSeq(w, 1, k - 1) \o SubSeq(w, k + 1, Len(w))

LEMMA CutIs ==
    ASSUME NEW S, NEW w \in Seq(S), NEW k \in 1..Len(w)
    PROVE  /\ Cut(w, k) \in Seq(S)
           /\ Len(Cut(w, k)) = Len(w) - 1
           /\ \A i \in 1..(Len(w) - 1) : Cut(w, k)[i] = IF i < k THEN w[i] ELSE w[i + 1]
<1> DEFINE left == SubSeq(w, 1, k - 1)
           right == SubSeq(w, k + 1, Len(w))
<1>1. k \in 1..Len(w) /\ Len(w) \in Nat /\ DOMAIN w = 1..Len(w)
  OBVIOUS
<1>2. /\ left \in Seq(S)
      /\ Len(left) = k - 1
      /\ \A i \in 1..(k - 1) : left[i] = w[i]
  <2>1. \A i \in 1..(k - 1) : w[i] \in S
    BY <1>1
  <2>2. 1 \in Int /\ k - 1 \in Int
    BY <1>1
  <2>3. /\ SubSeq(w, 1, k - 1) \in Seq(S)
        /\ Len(SubSeq(w, 1, k - 1)) = IF 1 <= k - 1 THEN (k - 1) - 1 + 1 ELSE 0
        /\ \A i \in 1..((k - 1) - 1 + 1) : SubSeq(w, 1, k - 1)[i] = w[1 + i - 1]
    BY <2>1, <2>2, SubSeqProperties
  <2> QED
    BY <2>3, <1>1
<1>3. /\ right \in Seq(S)
      /\ Len(right) = Len(w) - k
      /\ \A i \in 1..(Len(w) - k) : right[i] = w[k + i]
  <2>1. \A i \in (k + 1)..Len(w) : w[i] \in S
    BY <1>1
  <2>2. k + 1 \in Int /\ Len(w) \in Int
    BY <1>1
  <2>3. /\ SubSeq(w, k + 1, Len(w)) \in Seq(S)
        /\ Len(SubSeq(w, k + 1, Len(w)))
             = IF k + 1 <= Len(w) THEN Len(w) - (k + 1) + 1 ELSE 0
        /\ \A i \in 1..(Len(w) - (k + 1) + 1) :
             SubSeq(w, k + 1, Len(w))[i] = w[(k + 1) + i - 1]
    BY <2>1, <2>2, SubSeqProperties
  <2>4. Len(right) = Len(w) - k
    <3>1. Len(right) = IF k + 1 <= Len(w) THEN Len(w) - (k + 1) + 1 ELSE 0
      BY <2>3
    <3>2. k \in Nat /\ k <= Len(w) /\ Len(w) \in Nat
      BY <1>1
    <3> HIDE DEF right
    <3> QED
      BY <3>1, <3>2
  <2>5. ASSUME NEW i \in 1..(Len(w) - k)
        PROVE  right[i] = w[k + i]
    <3>1. (k + 1) + i - 1 = k + i /\ i \in 1..(Len(w) - (k + 1) + 1)
      BY <1>1
    <3> QED
      BY <2>3, <3>1
  <2> QED
    BY <2>3, <2>4, <2>5
<1> HIDE DEF left, right
<1>4. Cut(w, k) = left \o right
  BY DEF Cut, left, right
<1>5. /\ left \o right \in Seq(S)
      /\ Len(left \o right) = Len(w) - 1
      /\ \A i \in 1..(Len(w) - 1) :
           (left \o right)[i] = IF i < k THEN w[i] ELSE w[i + 1]
  <2>1. /\ left \o right \in Seq(S)
        /\ Len(left \o right) = Len(left) + Len(right)
        /\ \A i \in 1..(Len(left) + Len(right)) :
             (left \o right)[i] = IF i <= Len(left) THEN left[i] ELSE right[i - Len(left)]
    BY <1>2, <1>3, ConcatProperties
  <2>2. Len(left \o right) = Len(w) - 1
    BY <2>1, <1>1, <1>2, <1>3
  <2>3. ASSUME NEW i \in 1..(Len(w) - 1)
        PROVE  (left \o right)[i] = IF i < k THEN w[i] ELSE w[i + 1]
    <3>1. CASE i < k
      BY <3>1, <2>1, <1>1, <1>2, <1>3
    <3>2. CASE ~(i < k)
      <4>1. (left \o right)[i] = right[i - (k - 1)]
        BY <3>2, <2>1, <1>1, <1>2, <1>3
      <4>2. i - (k - 1) \in 1..(Len(w) - k)
        BY <3>2, <1>1
      <4>3. right[i - (k - 1)] = w[k + (i - (k - 1))]
        BY <4>2, <1>3
      <4>4. k + (i - (k - 1)) = i + 1
        BY <1>1
      <4> QED
        BY <4>1, <4>3, <4>4, <3>2
    <3> QED
      BY <3>1, <3>2
  <2> QED
    BY <2>1, <2>2, <2>3
<1> QED
  BY <1>4, <1>5

LEMMA WithoutIs ==
    ASSUME NEW w, NEW r, r \in Elements(w)
    PROVE  \E k \in DOMAIN w : w[k] = r /\ Without(w, r) = Cut(w, k)
<1> DEFINE k == CHOOSE i \in DOMAIN w : w[i] = r
<1>1. k \in DOMAIN w /\ w[k] = r
  BY DEF Elements
<1>2. Without(w, r) = Cut(w, k)
  BY DEF Without, Cut
<1> QED
  BY <1>1, <1>2

\* deque.remove takes out the one occurrence of r and nothing else.
LEMMA WithoutElements ==
    ASSUME NEW S, NEW w \in Seq(S), NEW r, NoRepeat(w), r \in Elements(w)
    PROVE  /\ Without(w, r) \in Seq(S)
           /\ NoRepeat(Without(w, r))
           /\ Elements(Without(w, r)) = Elements(w) \ {r}
<1>1. PICK k \in DOMAIN w : w[k] = r /\ Without(w, r) = Cut(w, k)
  BY WithoutIs
<1>2. k \in 1..Len(w) /\ Len(w) \in Nat /\ DOMAIN w = 1..Len(w)
  BY <1>1
<1>3. /\ Without(w, r) \in Seq(S)
      /\ Len(Without(w, r)) = Len(w) - 1
      /\ \A i \in 1..(Len(w) - 1) :
           Without(w, r)[i] = IF i < k THEN w[i] ELSE w[i + 1]
  BY <1>1, <1>2, CutIs
<1> DEFINE v == Without(w, r)
<1>4. DOMAIN v = 1..(Len(w) - 1)
  BY <1>3
<1>5. \A i \in DOMAIN v : v[i] = IF i < k THEN w[i] ELSE w[i + 1]
  BY <1>3, <1>4
<1> HIDE DEF v
<1>6. NoRepeat(v)
  <2> SUFFICES ASSUME NEW i \in DOMAIN v, NEW j \in DOMAIN v, v[i] = v[j]
               PROVE  i = j
    BY DEF NoRepeat
  <2>1. /\ i \in DOMAIN w /\ i + 1 \in DOMAIN w
        /\ j \in DOMAIN w /\ j + 1 \in DOMAIN w
        /\ i \in Nat /\ j \in Nat /\ k \in Nat
    BY <1>2, <1>4
  <2> QED
    BY <2>1, <1>5 DEF NoRepeat
<1>7. Elements(v) = Elements(w) \ {r}
  <2>1. ASSUME NEW i \in DOMAIN v
        PROVE  v[i] \in Elements(w) \ {r}
    <3>1. i \in DOMAIN w /\ i + 1 \in DOMAIN w /\ i \in Nat /\ k \in Nat
      BY <1>2, <1>4
    <3>2. CASE i < k
      BY <3>1, <3>2, <1>1, <1>5 DEF NoRepeat, Elements
    <3>3. CASE ~(i < k)
      BY <3>1, <3>3, <1>1, <1>5 DEF NoRepeat, Elements
    <3> QED
      BY <3>2, <3>3
  <2>2. ASSUME NEW j \in DOMAIN w, w[j] # r
        PROVE  w[j] \in Elements(v)
    <3>1. j # k /\ j \in 1..Len(w)
      BY <2>2, <1>1, <1>2
    <3>2. CASE j < k
      <4>1. j \in DOMAIN v /\ v[j] = w[j]
        BY <3>1, <3>2, <1>2, <1>4, <1>5
      <4> QED
        BY <4>1 DEF Elements
    <3>3. CASE j > k
      <4>1. j - 1 \in DOMAIN v
        BY <3>1, <3>3, <1>2, <1>4
      <4>2. ~(j - 1 < k) /\ (j - 1) + 1 = j
        BY <3>1, <3>3, <1>2
      <4>3. v[j - 1] = w[j]
        BY <4>1, <4>2, <1>5
      <4> QED
        BY <4>1, <4>3 DEF Elements
    <3> QED
      BY <3>1, <3>2, <3>3, <1>2
  <2> QED
    BY <2>1, <2>2 DEF Elements
<1> QED
  BY <1>3, <1>6, <1>7 DEF v

\* If some waiter is pending, one of them is the first.
LEMMA FirstPendingExists ==
    ASSUME NEW S, NEW w \in Seq(S), NEW f,
           NEW i \in DOMAIN w, f[w[i]] = "pending"
    PROVE  \E j \in DOMAIN w : IsFirstPending(w, f, j)
<1> DEFINE T == {j \in DOMAIN w : f[w[j]] = "pending"}
<1>1. T \subseteq Nat /\ T # {}
  OBVIOUS
<1>2. PICK j \in T : \A y \in T : ~(<<y, j>> \in OpToRel(<, Nat))
  BY <1>1, WFMin, NatLessThanWellFounded
<1>3. \A y \in T : ~(y < j)
  BY <1>1, <1>2 DEF OpToRel
<1>4. \A y \in 1..(j - 1) : f[w[y]] # "pending"
  <2> SUFFICES ASSUME NEW y \in 1..(j - 1), f[w[y]] = "pending"
               PROVE  FALSE
    OBVIOUS
  <2>1. y \in DOMAIN w /\ y < j
    BY <1>1
  <2> QED
    BY <2>1, <1>3
<1> QED
  BY <1>2, <1>4 DEF IsFirstPending

-----------------------------------------------------------------------------
(* The invariant without the counter, for a semaphore at v, the deque w,   *)
(* the futures f and the phases p.                                         *)

Own(f, p) ==
    {r \in Request : p[r] = "holding"} \cup {r \in Request : f[r] \in {"granted", "dropped"}}

Sound(v, w, f, p) ==
    /\ v \in {0, 1}
    /\ w \in Seq(Request)
    /\ f \in [Request -> FutState]
    /\ p \in [Request -> Phase]
    /\ NoRepeat(w)
    /\ \A r \in Request : f[r] # "none" <=> p[r] = "waiting"
    /\ \A r \in Request : f[r] # "none" <=> r \in Elements(w)
    /\ v = 1 => Own(f, p) = {}
    /\ v = 0 => \E r \in Request : Own(f, p) = {r}

NonePending(f) == \A r \in Request : f[r] # "pending"

\* The inductive invariant.
IInv ==
    /\ Sound(value, waiters, fut, phase)
    /\ value = 1 => NonePending(fut)
    /\ depth \in 0..MaxDepth
    /\ IsFiniteSet(Admitted)
    /\ DepthIsExact

LEMMA IInvImplies ==
    ASSUME IInv
    PROVE  TypeOK /\ SlotConserved /\ NoIdleSlot /\ DepthIsExact
<1>1. Owners = Own(fut, phase)
  BY DEF Owners, Holders, Own
<1> QED
  BY <1>1 DEF IInv, Sound, TypeOK, QueueTypeOK, SlotConserved, NoIdleSlot, NonePending

\* _wake_up_next hands a free unit to a pending waiter if there is one, and
\* otherwise changes nothing: no unit is lost and no wake-up is missed.
LEMMA WakeUpKeepsSound ==
    ASSUME NEW v, NEW w, NEW f, NEW p, Sound(v, w, f, p), WakeUpNext(v, w, f)
    PROVE  /\ Sound(value', w, fut', p)
           /\ value' = 1 => NonePending(fut')
<1> DEFINE Some == \E i \in DOMAIN w : IsFirstPending(w, f, i)
           i0 == CHOOSE i \in DOMAIN w : IsFirstPending(w, f, i)
<1>1. CASE v > 0 /\ Some
  <2>1. i0 \in DOMAIN w /\ IsFirstPending(w, f, i0)
    BY <1>1
  <2>2. value' = v - 1 /\ fut' = [f EXCEPT ![w[i0]] = "granted"]
    BY <1>1 DEF WakeUpNext
  <2> HIDE DEF i0
  <2>3. w[i0] \in Request /\ f[w[i0]] = "pending" /\ v = 1
    BY <2>1, <1>1 DEF Sound, IsFirstPending
  <2>4. PICK r \in Request : r = w[i0]
    BY <2>3
  <2>5. f \in [Request -> FutState] /\ fut' = [f EXCEPT ![r] = "granted"] /\ value' = 0
    BY <2>2, <2>3, <2>4 DEF Sound
  <2>6. fut' \in [Request -> FutState]
    BY <2>5 DEF FutState
  <2>7. \A q \in Request : fut'[q] # "none" <=> f[q] # "none"
    BY <2>3, <2>4, <2>5
  <2>8. Own(fut', p) = {r}
    BY <2>3, <2>4, <2>5 DEF Own, Sound
  <2> QED
    BY <2>5, <2>6, <2>7, <2>8 DEF Sound
<1>2. CASE ~(v > 0 /\ Some)
  <2>1. value' = v /\ fut' = f
    BY <1>2 DEF WakeUpNext
  <2>2. ASSUME v = 1, NEW q \in Request, f[q] = "pending"
        PROVE  FALSE
    <3>1. PICK i \in DOMAIN w : w[i] = q
      BY <2>2 DEF Sound, Elements
    <3>2. Some
      BY <3>1, <2>2, FirstPendingExists DEF Sound
    <3> QED
      BY <3>2, <2>2, <1>2
  <2> QED
    BY <2>1, <2>2 DEF NonePending
<1> QED
  BY <1>1, <1>2

-----------------------------------------------------------------------------
(* The counter: a request enters or leaves the set it counts.              *)

LEMMA AdmittedGrows ==
    ASSUME IInv, phase' \in [Request -> Phase],
           NEW r \in Request, phase[r] = "out", phase'[r] # "out",
           \A q \in Request \ {r} : phase'[q] = phase[q],
           TryAdmit
    PROVE  /\ depth' \in 0..MaxDepth
           /\ IsFiniteSet(Admitted)'
           /\ DepthIsExact'
<1>1. Admitted' = Admitted \cup {r} /\ r \notin Admitted
  BY DEF Admitted
<1>2. /\ IsFiniteSet(Admitted')
      /\ Cardinality(Admitted') = Cardinality(Admitted) + 1
  BY <1>1, FS_AddElement DEF IInv
<1>3. depth \in 0..MaxDepth /\ MaxDepth \in Nat /\ depth' = depth + 1 /\ depth < MaxDepth
  BY MaxDepthAssumption DEF IInv, TryAdmit
<1> QED
  BY <1>2, <1>3 DEF IInv, DepthIsExact

LEMMA AdmittedShrinks ==
    ASSUME IInv, phase' \in [Request -> Phase],
           NEW r \in Request, phase[r] # "out", phase'[r] = "out",
           \A q \in Request \ {r} : phase'[q] = phase[q],
           depth' = depth - 1
    PROVE  /\ depth' \in 0..MaxDepth
           /\ IsFiniteSet(Admitted)'
           /\ DepthIsExact'
<1>1. Admitted' = Admitted \ {r} /\ r \in Admitted
  BY DEF Admitted
<1>2. /\ IsFiniteSet(Admitted')
      /\ Cardinality(Admitted') = Cardinality(Admitted) - 1
  BY <1>1, FS_RemoveElement DEF IInv
<1>3. Cardinality(Admitted') \in Nat
  BY <1>2, FS_CardinalityType
<1>4. depth \in 0..MaxDepth /\ MaxDepth \in Nat
  BY MaxDepthAssumption DEF IInv
<1> QED
  BY <1>2, <1>3, <1>4 DEF IInv, DepthIsExact

-----------------------------------------------------------------------------
(* Each action preserves the invariant.                                    *)

LEMMA InitIInv == Init => IInv
<1> SUFFICES ASSUME Init PROVE IInv
  OBVIOUS
<1>1. Elements(waiters) = {} /\ NoRepeat(waiters) /\ waiters \in Seq(Request)
  BY DEF Init, QueueInit, Elements, NoRepeat
<1>2. Own(fut, phase) = {}
  BY DEF Own, Init, QueueInit
<1>3. Sound(value, waiters, fut, phase)
  BY <1>1, <1>2 DEF Sound, Init, QueueInit, FutState, Phase
<1>4. NonePending(fut)
  BY DEF NonePending, Init, QueueInit
<1>5. Admitted = {}
  BY DEF Admitted, Init
<1>6. IsFiniteSet(Admitted) /\ DepthIsExact
  BY <1>5, FS_EmptySet DEF DepthIsExact, Init, QueueInit
<1> QED
  BY <1>3, <1>4, <1>6, MaxDepthAssumption DEF IInv, Init, QueueInit

\* A request that owns the slot is its only owner, and the semaphore is at 0.
LEMMA SoleOwner ==
    ASSUME NEW v, NEW w, NEW f, NEW p, Sound(v, w, f, p), NEW r \in Own(f, p)
    PROVE  v = 0 /\ Own(f, p) = {r}
BY DEF Sound

LEMMA AdmitNowStep ==
    ASSUME IInv, NEW r \in Request, AdmitNow(r)
    PROVE  IInv'
<1>1. /\ Sound(value, waiters, fut, phase)
      /\ phase \in [Request -> Phase] /\ phase[r] = "out"
      /\ phase' = [phase EXCEPT ![r] = "holding"]
  BY DEF IInv, AdmitNow, Sound
<1>2. value = 1 /\ value' = 0 /\ waiters' = waiters /\ fut' = fut
  BY <1>1 DEF AdmitNow, AcquireNow, Locked, Sound
<1>3. phase' \in [Request -> Phase]
  BY <1>1 DEF Phase
<1>4. Own(fut', phase') = {r}
  BY <1>1, <1>2 DEF Own, Sound
<1>5. \A q \in Request : phase'[q] = "waiting" <=> phase[q] = "waiting"
  BY <1>1
<1>6. Sound(value', waiters', fut', phase')
  BY <1>1, <1>2, <1>3, <1>4, <1>5 DEF Sound
<1>7. /\ depth' \in 0..MaxDepth
      /\ IsFiniteSet(Admitted)'
      /\ DepthIsExact'
  BY <1>1, <1>3, AdmittedGrows DEF AdmitNow
<1> QED
  BY <1>2, <1>6, <1>7 DEF IInv

LEMMA AdmitWaitStep ==
    ASSUME IInv, NEW r \in Request, AdmitWait(r)
    PROVE  IInv'
<1>1. /\ Sound(value, waiters, fut, phase)
      /\ value = 1 => NonePending(fut)
      /\ phase \in [Request -> Phase] /\ phase[r] = "out"
      /\ phase' = [phase EXCEPT ![r] = "waiting"]
  BY DEF IInv, AdmitWait, Sound
<1>2. /\ value' = value /\ waiters' = Append(waiters, r)
      /\ fut' = [fut EXCEPT ![r] = "pending"]
      /\ waiters \in Seq(Request) /\ fut \in [Request -> FutState]
  BY <1>1 DEF AdmitWait, AcquireWait, Sound
<1>3. value = 0
  <2> SUFFICES ASSUME value = 1 PROVE FALSE
    BY <1>1 DEF Sound
  <2>1. PICK i \in DOMAIN waiters : fut[waiters[i]] # "cancelled"
    BY DEF AdmitWait, AcquireWait, Locked
  <2>2. waiters[i] \in Request /\ waiters[i] \in Elements(waiters)
    BY <1>2, <2>1 DEF Elements
  <2>3. fut[waiters[i]] \in FutState \ {"none", "pending", "cancelled"}
    BY <1>1, <1>2, <2>1, <2>2 DEF Sound, NonePending
  <2> QED
    BY <1>1, <2>2, <2>3 DEF Sound, Own, FutState
<1>4. phase' \in [Request -> Phase] /\ fut' \in [Request -> FutState]
  BY <1>1, <1>2 DEF Phase, FutState
<1>5. fut[r] = "none" /\ r \notin Elements(waiters)
  BY <1>1 DEF Sound
<1>6. /\ waiters' \in Seq(Request)
      /\ Elements(waiters') = Elements(waiters) \cup {r}
      /\ NoRepeat(waiters')
  <2>1. /\ waiters' \in Seq(Request)
        /\ Len(waiters') = Len(waiters) + 1
        /\ \A i \in 1..Len(waiters) : waiters'[i] = waiters[i]
        /\ waiters'[Len(waiters) + 1] = r
    BY <1>2, AppendProperties
  <2>2. /\ DOMAIN waiters = 1..Len(waiters) /\ DOMAIN waiters' = 1..(Len(waiters) + 1)
        /\ Len(waiters) \in Nat
    BY <1>2, <2>1
  <2>3. Elements(waiters') = Elements(waiters) \cup {r}
    BY <2>1, <2>2 DEF Elements
  <2>4. ASSUME NEW i \in DOMAIN waiters', NEW j \in DOMAIN waiters',
               waiters'[i] = waiters'[j]
        PROVE  i = j
    <3>1. CASE i \in DOMAIN waiters /\ j \in DOMAIN waiters
      BY <3>1, <2>1, <2>2, <2>4, <1>1 DEF Sound, NoRepeat
    <3>2. CASE ~(i \in DOMAIN waiters) \/ ~(j \in DOMAIN waiters)
      BY <3>2, <2>1, <2>2, <2>4, <1>5 DEF Elements
    <3> QED
      BY <3>1, <3>2
  <2> QED
    BY <2>1, <2>3, <2>4 DEF NoRepeat
<1>7. Own(fut', phase') = Own(fut, phase)
  BY <1>1, <1>2, <1>5 DEF Own
<1>8. \A q \in Request : /\ fut'[q] # "none" <=> phase'[q] = "waiting"
                         /\ fut'[q] # "none" <=> q \in Elements(waiters')
  BY <1>1, <1>2, <1>6 DEF Sound
<1>9. Sound(value', waiters', fut', phase')
  BY <1>1, <1>2, <1>4, <1>6, <1>7, <1>8 DEF Sound
<1>10. /\ depth' \in 0..MaxDepth
       /\ IsFiniteSet(Admitted)'
       /\ DepthIsExact'
  BY <1>1, <1>4, AdmittedGrows DEF AdmitWait
<1> QED
  BY <1>2, <1>3, <1>9, <1>10 DEF IInv

\* A suspended task takes its own future, and no other, out of the deque.
LEMMA LeaveDeque ==
    ASSUME NEW v, NEW w, NEW f, NEW p, Sound(v, w, f, p),
           NEW r \in Request, f[r] # "none"
    PROVE  /\ Without(w, r) \in Seq(Request)
           /\ NoRepeat(Without(w, r))
           /\ \A q \in Request : q \in Elements(Without(w, r)) <=> q # r /\ f[q] # "none"
<1>1. w \in Seq(Request) /\ NoRepeat(w) /\ r \in Elements(w)
  BY DEF Sound
<1>2. /\ Without(w, r) \in Seq(Request)
      /\ NoRepeat(Without(w, r))
      /\ Elements(Without(w, r)) = Elements(w) \ {r}
  BY <1>1, WithoutElements
<1> QED
  BY <1>2 DEF Sound

LEMMA TakeTurnSound ==
    ASSUME IInv, NEW r \in Request, TakeTurn(r)
    PROVE  LET f2 == [fut EXCEPT ![r] = "none"]
           IN  /\ Sound(value, Without(waiters, r), f2, phase')
               /\ WakeUpNext(value, Without(waiters, r), f2)
               /\ value = 0 /\ Own(fut, phase) = {r} /\ Own(f2, phase') = {r}
<1> DEFINE f2 == [fut EXCEPT ![r] = "none"]
<1>1. /\ Sound(value, waiters, fut, phase)
      /\ fut \in [Request -> FutState] /\ phase \in [Request -> Phase]
      /\ fut[r] = "granted" /\ phase[r] = "waiting"
      /\ phase' = [phase EXCEPT ![r] = "holding"]
  BY DEF IInv, TakeTurn, Granted, Sound
<1>2. WakeUpNext(value, Without(waiters, r), f2)
  BY DEF TakeTurn, Granted
<1>3. value = 0 /\ Own(fut, phase) = {r}
  BY <1>1, SoleOwner DEF Own
<1>4. phase' \in [Request -> Phase]
  BY <1>1 DEF Phase
<1>5. Own(f2, phase') = {r}
  BY <1>1, <1>3 DEF Own
<1>6. Sound(value, Without(waiters, r), f2, phase')
  <2>1. /\ Without(waiters, r) \in Seq(Request)
        /\ NoRepeat(Without(waiters, r))
        /\ \A q \in Request :
             q \in Elements(Without(waiters, r)) <=> q # r /\ fut[q] # "none"
    BY <1>1, LeaveDeque
  <2>2. f2 \in [Request -> FutState]
    BY <1>1 DEF FutState
  <2>3. \A q \in Request : /\ f2[q] # "none" <=> q # r /\ fut[q] # "none"
                           /\ phase'[q] = "waiting" <=> q # r /\ fut[q] # "none"
    BY <1>1 DEF Sound
  <2> HIDE DEF f2
  <2> QED
    BY <1>3, <1>4, <1>5, <2>1, <2>2, <2>3 DEF Sound
<1> QED
  BY <1>2, <1>3, <1>5, <1>6

LEMMA TakeTurnStep ==
    ASSUME IInv, NEW r \in Request, TakeTurn(r)
    PROVE  IInv'
<1> DEFINE f2 == [fut EXCEPT ![r] = "none"]
<1>1. /\ phase \in [Request -> Phase] /\ phase[r] = "waiting"
      /\ phase' = [phase EXCEPT ![r] = "holding"]
      /\ waiters' = Without(waiters, r) /\ depth' = depth
  BY DEF IInv, TakeTurn, Granted, Sound
<1>2. /\ Sound(value, waiters', f2, phase')
      /\ WakeUpNext(value, waiters', f2)
  BY <1>1, TakeTurnSound
<1>3. /\ Sound(value', waiters', fut', phase')
      /\ value' = 1 => NonePending(fut')
  BY <1>2, WakeUpKeepsSound
<1>4. Admitted' = Admitted
  BY <1>1 DEF Admitted
<1>5. /\ depth' \in 0..MaxDepth
      /\ IsFiniteSet(Admitted)'
      /\ DepthIsExact'
  BY <1>1, <1>4 DEF IInv, DepthIsExact
<1> QED
  BY <1>3, <1>5 DEF IInv

LEMMA CancelStep ==
    ASSUME IInv, NEW r \in Request, Cancel(r)
    PROVE  IInv'
<1>1. /\ Sound(value, waiters, fut, phase)
      /\ value = 1 => NonePending(fut)
      /\ fut \in [Request -> FutState]
      /\ value' = value /\ waiters' = waiters /\ phase' = phase /\ depth' = depth
  BY DEF IInv, Cancel, CancelWait, Sound
<1>2. /\ fut[r] \in {"pending", "granted"}
      /\ fut' = [fut EXCEPT ![r] = IF fut[r] = "pending" THEN "cancelled" ELSE "dropped"]
  BY DEF Cancel, CancelWait
<1>3. fut' \in [Request -> FutState]
  BY <1>1, <1>2 DEF FutState
<1>4. Own(fut', phase') = Own(fut, phase)
  BY <1>1, <1>2 DEF Own
<1>5. \A q \in Request : fut'[q] # "none" <=> fut[q] # "none"
  BY <1>1, <1>2
<1>6. Sound(value', waiters', fut', phase')
  BY <1>1, <1>3, <1>4, <1>5 DEF Sound
<1>7. value' = 1 => NonePending(fut')
  BY <1>1, <1>2 DEF NonePending
<1>8. Admitted' = Admitted
  BY <1>1 DEF Admitted
<1>9. /\ depth' \in 0..MaxDepth
      /\ IsFiniteSet(Admitted)'
      /\ DepthIsExact'
  BY <1>1, <1>8 DEF IInv, DepthIsExact
<1> QED
  BY <1>6, <1>7, <1>9 DEF IInv

\* The value a cancelled waiter leaves the semaphore at.
Freed(r) == IF fut[r] = "dropped" THEN value + 1 ELSE value

LEMMA GiveUpSound ==
    ASSUME IInv, NEW r \in Request, GiveUp(r)
    PROVE  LET f2 == [fut EXCEPT ![r] = "none"]
           IN  /\ Sound(Freed(r), Without(waiters, r), f2, phase')
               /\ WakeUpNext(Freed(r), Without(waiters, r), f2)
<1> DEFINE f2 == [fut EXCEPT ![r] = "none"]
           u == Freed(r)
<1>1. /\ Sound(value, waiters, fut, phase)
      /\ fut \in [Request -> FutState] /\ phase \in [Request -> Phase]
      /\ fut[r] \in {"cancelled", "dropped"} /\ phase[r] = "waiting"
      /\ phase' = [phase EXCEPT ![r] = "out"]
  BY DEF IInv, GiveUp, Cancelled, Sound
<1>2. WakeUpNext(u, Without(waiters, r), f2)
  BY DEF GiveUp, Cancelled, Freed
<1>3. phase' \in [Request -> Phase]
  BY <1>1 DEF Phase
<1>4. /\ u \in {0, 1}
      /\ u = 1 => Own(f2, phase') = {}
      /\ u = 0 => \E q \in Request : Own(f2, phase') = {q}
  <2>1. CASE fut[r] = "dropped"
    <3>1. value = 0 /\ Own(fut, phase) = {r}
      BY <1>1, <2>1, SoleOwner DEF Own
    <3>2. Own(f2, phase') = {}
      BY <1>1, <3>1 DEF Own
    <3>3. u = 1
      BY <2>1, <3>1 DEF Freed
    <3> HIDE DEF f2, u
    <3> QED
      BY <3>2, <3>3
  <2>2. CASE fut[r] = "cancelled"
    <3>1. Own(f2, phase') = Own(fut, phase)
      BY <1>1, <2>2 DEF Own
    <3> QED
      BY <1>1, <2>2, <3>1 DEF Sound, Freed
  <2> QED
    BY <1>1, <2>1, <2>2
<1> HIDE DEF u
<1>5. Sound(u, Without(waiters, r), f2, phase')
  <2>1. /\ Without(waiters, r) \in Seq(Request)
        /\ NoRepeat(Without(waiters, r))
        /\ \A q \in Request :
             q \in Elements(Without(waiters, r)) <=> q # r /\ fut[q] # "none"
    BY <1>1, LeaveDeque
  <2>2. f2 \in [Request -> FutState]
    BY <1>1 DEF FutState
  <2>3. \A q \in Request : /\ f2[q] # "none" <=> q # r /\ fut[q] # "none"
                           /\ phase'[q] = "waiting" <=> q # r /\ fut[q] # "none"
    BY <1>1 DEF Sound
  <2> HIDE DEF f2
  <2> QED
    BY <1>3, <1>4, <2>1, <2>2, <2>3 DEF Sound
<1> QED
  BY <1>2, <1>5 DEF u

LEMMA GiveUpStep ==
    ASSUME IInv, NEW r \in Request, GiveUp(r)
    PROVE  IInv'
<1> DEFINE f2 == [fut EXCEPT ![r] = "none"]
<1>1. /\ phase \in [Request -> Phase] /\ phase[r] = "waiting"
      /\ phase' = [phase EXCEPT ![r] = "out"] /\ phase' \in [Request -> Phase]
      /\ waiters' = Without(waiters, r) /\ depth' = depth - 1
  BY DEF IInv, GiveUp, Cancelled, UndoAdmit, Sound, Phase
<1>2. /\ Sound(Freed(r), waiters', f2, phase')
      /\ WakeUpNext(Freed(r), waiters', f2)
  BY <1>1, GiveUpSound
<1>3. /\ Sound(value', waiters', fut', phase')
      /\ value' = 1 => NonePending(fut')
  BY <1>2, WakeUpKeepsSound
<1>4. /\ depth' \in 0..MaxDepth
      /\ IsFiniteSet(Admitted)'
      /\ DepthIsExact'
  BY <1>1, AdmittedShrinks
<1> QED
  BY <1>3, <1>4 DEF IInv

LEMMA FinishSound ==
    ASSUME IInv, NEW r \in Request, Finish(r)
    PROVE  /\ Sound(1, waiters, fut, phase')
           /\ WakeUpNext(1, waiters, fut)
           /\ value = 0 /\ Own(fut, phase) = {r}
<1>1. /\ Sound(value, waiters, fut, phase)
      /\ fut \in [Request -> FutState] /\ phase \in [Request -> Phase]
      /\ phase[r] = "holding"
      /\ phase' = [phase EXCEPT ![r] = "out"]
  BY DEF IInv, Finish, Sound
<1>2. WakeUpNext(value + 1, waiters, fut)
  BY DEF Finish, Release
<1>3. value = 0 /\ Own(fut, phase) = {r}
  BY <1>1, SoleOwner DEF Own
<1>4. phase' \in [Request -> Phase]
  BY <1>1 DEF Phase
<1>5. Own(fut, phase') = {}
  BY <1>1, <1>3 DEF Own, Sound
<1>6. \A q \in Request : phase'[q] = "waiting" <=> phase[q] = "waiting"
  BY <1>1
<1>7. Sound(1, waiters, fut, phase')
  BY <1>1, <1>4, <1>5, <1>6 DEF Sound
<1>8. value + 1 = 1
  BY <1>3
<1> QED
  BY <1>2, <1>3, <1>7, <1>8

LEMMA FinishStep ==
    ASSUME IInv, NEW r \in Request, Finish(r)
    PROVE  IInv'
<1>1. /\ phase \in [Request -> Phase] /\ phase[r] = "holding"
      /\ phase' = [phase EXCEPT ![r] = "out"] /\ phase' \in [Request -> Phase]
      /\ waiters' = waiters /\ depth' = depth - 1
  BY DEF IInv, Finish, Release, Sound, Phase
<1>2. /\ Sound(1, waiters', fut, phase')
      /\ WakeUpNext(1, waiters', fut)
  BY <1>1, FinishSound
<1>3. /\ Sound(value', waiters', fut', phase')
      /\ value' = 1 => NonePending(fut')
  BY <1>2, WakeUpKeepsSound
<1>4. /\ depth' \in 0..MaxDepth
      /\ IsFiniteSet(Admitted)'
      /\ DepthIsExact'
  BY <1>1, AdmittedShrinks
<1> QED
  BY <1>3, <1>4 DEF IInv

LEMMA StutterStep ==
    ASSUME IInv, UNCHANGED vars
    PROVE  IInv'
BY DEF vars, IInv, Sound, Own, NonePending, NoRepeat, Elements, Admitted, DepthIsExact

-----------------------------------------------------------------------------
(* The theorems                                                            *)

LEMMA NextIInv == IInv /\ [Next]_vars => IInv'
BY AdmitNowStep, AdmitWaitStep, TakeTurnStep, CancelStep, GiveUpStep, FinishStep,
   StutterStep DEF Next

\* The strengthened invariant holds in every reachable state.
THEOREM Invariance == Spec => []IInv
BY InitIInv, NextIInv, PTL DEF Spec

\* The semaphore, the deque, the futures and the counter keep their types;
\* value never exceeds 1 and depth never exceeds MAX_QUEUE nor drops below 0.
THEOREM TypeCorrect == Spec => []TypeOK
<1>1. IInv => TypeOK
  BY IInvImplies
<1> QED
  BY Invariance, <1>1, PTL

\* The GPU slot is free or has exactly one owner, whatever the cancellations.
THEOREM Conservation == Spec => []SlotConserved
<1>1. IInv => SlotConserved
  BY IInvImplies
<1> QED
  BY Invariance, <1>1, PTL

\* No request waits in the queue while the slot is free.
THEOREM NoLostWakeup == Spec => []NoIdleSlot
<1>1. IInv => NoIdleSlot
  BY IInvImplies
<1> QED
  BY Invariance, <1>1, PTL

\* _depth always equals the number of admitted requests.
THEOREM ExactDepth == Spec => []DepthIsExact
<1>1. IInv => DepthIsExact
  BY IInvImplies
<1> QED
  BY Invariance, <1>1, PTL

-----------------------------------------------------------------------------
(* Induction over the natural numbers, with a set in the place of a        *)
(* property.                                                               *)

LEMMA Induct ==
    ASSUME NEW S, 0 \in S, \A n \in Nat : n \in S => n + 1 \in S
    PROVE  Nat \subseteq S
<1> DEFINE T == Nat \ S
           R == OpToRel(<, Nat)
<1> SUFFICES ASSUME T # {} PROVE FALSE
  OBVIOUS
<1>1. IsWellFoundedOn(R, Nat)
  BY NatLessThanWellFounded, Zenon
<1>2. \A x, y \in Nat : x < y <=> <<x, y>> \in R
  BY DEF OpToRel
<1> HIDE DEF R
<1>3. PICK m \in T : \A n \in T : <<n, m>> \notin R
  BY <1>1, WFMin
<1>4. m \in Nat /\ m \notin S /\ m # 0
  BY <1>3
<1>5. m - 1 \in Nat /\ m - 1 < m /\ (m - 1) + 1 = m
  BY <1>4
<1>6. m - 1 \in S
  BY <1>2, <1>3, <1>4, <1>5
<1> QED
  BY <1>4, <1>5, <1>6

-----------------------------------------------------------------------------
(* The pending waiters, in order                                           *)

\* g[i] are the pending ones among the first i.
Chain(w, f, g) ==
    /\ g[0] = <<>>
    /\ \A i \in 1..Len(w) :
          g[i] = IF f[w[i]] = "pending" THEN Append(g[i - 1], w[i]) ELSE g[i - 1]

\* The same as the equation that Pending chooses a solution of.
IsUpTo(w, f, g) ==
    g = [i \in 0..Len(w) |->
            IF i = 0 THEN <<>>
            ELSE IF f[w[i]] = "pending" THEN Append(g[i - 1], w[i]) ELSE g[i - 1]]

LEMMA ChainExists ==
    ASSUME NEW S, NEW w \in Seq(S), NEW f
    PROVE  \E g \in [0..Len(w) -> Seq(S)] : Chain(w, f, g) /\ IsUpTo(w, f, g)
<1> DEFINE Upto(n, g) ==
              /\ g[0] = <<>>
              /\ \A i \in 1..n :
                    g[i] = IF f[w[i]] = "pending" THEN Append(g[i - 1], w[i]) ELSE g[i - 1]
           T == {n \in Nat : n <= Len(w) => \E g \in [0..n -> Seq(S)] : Upto(n, g)}
<1>1. Len(w) \in Nat /\ \A i \in 1..Len(w) : w[i] \in S
  BY LenProperties, ElementOfSeq
<1>2. 0 \in T
  <2> DEFINE g == [i \in 0..0 |-> <<>>]
  <2>1. g \in [0..0 -> Seq(S)] /\ Upto(0, g)
    OBVIOUS
  <2> QED
    BY <2>1
<1>3. ASSUME NEW n \in Nat, n \in T PROVE n + 1 \in T
  <2> DEFINE Reached(m) == m <= Len(w) => \E g \in [0..m -> Seq(S)] : Upto(m, g)
  <2> SUFFICES ASSUME n + 1 <= Len(w)
               PROVE  \E g \in [0..(n + 1) -> Seq(S)] : Upto(n + 1, g)
    <3>1. n + 1 \in Nat
      OBVIOUS
    <3>2. ASSUME Reached(n + 1) PROVE n + 1 \in T
      BY <3>1, <3>2, Zenon
    <3> QED
      BY <3>2, Zenon
  <2>1. PICK g \in [0..n -> Seq(S)] : Upto(n, g)
    BY <1>1, <1>3
  <2> DEFINE last == IF f[w[n + 1]] = "pending" THEN Append(g[n], w[n + 1]) ELSE g[n]
             h == [i \in 0..(n + 1) |-> IF i = n + 1 THEN last ELSE g[i]]
  <2>2. last \in Seq(S)
    <3>1. g[n] \in Seq(S) /\ w[n + 1] \in S
      BY <1>1, <2>1
    <3> QED
      BY <3>1, AppendProperties
  <2> HIDE DEF last
  <2>3. h \in [0..(n + 1) -> Seq(S)]
    BY <2>1, <2>2
  <2>4. h[0] = <<>>
    BY <2>1
  <2>5. ASSUME NEW i \in 1..(n + 1)
        PROVE  h[i] = IF f[w[i]] = "pending" THEN Append(h[i - 1], w[i]) ELSE h[i - 1]
    <3>1. CASE i = n + 1
      <4>1. h[i] = last /\ h[i - 1] = g[n] /\ w[i] = w[n + 1]
        BY <3>1
      <4> HIDE DEF h
      <4> QED
        BY <4>1 DEF last
    <3>2. CASE i # n + 1
      <4>1. i \in 1..n /\ i - 1 \in 0..n /\ i \in 0..n /\ i \in 0..(n + 1)
            /\ i - 1 \in 0..(n + 1) /\ i - 1 # n + 1
        BY <3>2
      <4>2. h[i] = g[i] /\ h[i - 1] = g[i - 1]
        BY <4>1, <3>2
      <4> HIDE DEF h
      <4> QED
        BY <2>1, <4>1, <4>2
    <3> QED
      BY <3>1, <3>2
  <2>6. Upto(n + 1, h)
    BY <2>4, <2>5
  <2> HIDE DEF h
  <2> QED
    BY <2>3, <2>6
<1> HIDE DEF T
<1>4. Len(w) \in T
  BY <1>1, <1>2, <1>3, Induct
<1>5. PICK g \in [0..Len(w) -> Seq(S)] : Upto(Len(w), g)
  BY <1>1, <1>4 DEF T
<1>6. Chain(w, f, g)
  BY <1>5 DEF Chain
<1>7. ASSUME NEW i \in 0..Len(w)
      PROVE  g[i] = IF i = 0 THEN <<>>
                    ELSE IF f[w[i]] = "pending" THEN Append(g[i - 1], w[i])
                    ELSE g[i - 1]
  <2>1. CASE i = 0
    BY <2>1, <1>6 DEF Chain
  <2>2. CASE i # 0
    <3>1. i \in 1..Len(w)
      BY <1>1, <2>2
    <3>2. g[i] = IF f[w[i]] = "pending" THEN Append(g[i - 1], w[i]) ELSE g[i - 1]
      BY <3>1, <1>6 DEF Chain
    <3> QED
      BY <2>2, <3>2
  <2> QED
    BY <2>1, <2>2
<1> HIDE DEF Upto
<1>8. IsUpTo(w, f, g)
  BY <1>7 DEF IsUpTo
<1> QED
  BY <1>6, <1>8

LEMMA ChainsAgree ==
    ASSUME NEW w, Len(w) \in Nat, NEW f, NEW g, NEW h, Chain(w, f, g), Chain(w, f, h)
    PROVE  g[Len(w)] = h[Len(w)]
<1> DEFINE T == {n \in Nat : n <= Len(w) => g[n] = h[n]}
<1>1. 0 \in T
  BY DEF Chain
<1>2. ASSUME NEW n \in Nat, n \in T PROVE n + 1 \in T
  <2> SUFFICES ASSUME n + 1 <= Len(w) PROVE g[n + 1] = h[n + 1]
    OBVIOUS
  <2>1. n + 1 \in 1..Len(w) /\ (n + 1) - 1 = n /\ n <= Len(w)
    OBVIOUS
  <2> QED
    BY <2>1, <1>2 DEF Chain
<1> HIDE DEF T
<1>3. Len(w) \in T
  BY <1>1, <1>2, Induct
<1> QED
  BY <1>3 DEF T

\* Pending is where any chain ends.
LEMMA PendingIs ==
    ASSUME NEW S, NEW w \in Seq(S), NEW f, NEW g, Chain(w, f, g)
    PROVE  Pending(w, f) = g[Len(w)]
<1> DEFINE upTo == CHOOSE u : IsUpTo(w, f, u)
<1>1. Len(w) \in Nat
  BY LenProperties
<1>2. Pending(w, f) = upTo[Len(w)]
  BY DEF Pending, IsUpTo
<1>3. \E u : IsUpTo(w, f, u)
  BY ChainExists
<1>4. IsUpTo(w, f, upTo)
  BY <1>3
<1> HIDE DEF upTo
<1>5. Chain(w, f, upTo)
  <2>1. upTo[0] = <<>>
    BY <1>1, <1>4 DEF IsUpTo
  <2>2. ASSUME NEW i \in 1..Len(w)
        PROVE  upTo[i] = IF f[w[i]] = "pending" THEN Append(upTo[i - 1], w[i])
                         ELSE upTo[i - 1]
    <3>1. i \in 0..Len(w) /\ i # 0
      BY <1>1
    <3> QED
      BY <1>4, <3>1 DEF IsUpTo
  <2> QED
    BY <2>1, <2>2 DEF Chain
<1> QED
  BY <1>1, <1>2, <1>5, ChainsAgree

\* Induction over sequences, appending one element at a time.
LEMMA SeqInduct ==
    ASSUME NEW S, NEW T, <<>> \in T,
           \A s \in Seq(S), x \in S : s \in T => Append(s, x) \in T
    PROVE  Seq(S) \subseteq T
<1> DEFINE N == {n \in Nat : \A s \in Seq(S) : Len(s) = n => s \in T}
<1>1. 0 \in N
  <2> SUFFICES ASSUME NEW s \in Seq(S), Len(s) = 0 PROVE s \in T
    OBVIOUS
  <2>1. s = <<>>
    BY EmptySeq
  <2> QED
    BY <2>1
<1>2. ASSUME NEW n \in Nat, n \in N PROVE n + 1 \in N
  <2> SUFFICES ASSUME NEW s \in Seq(S), Len(s) = n + 1 PROVE s \in T
    OBVIOUS
  <2> DEFINE t == [i \in 1..n |-> s[i]]
             x == s[n + 1]
  <2>1. x \in S /\ t \in Seq(S) /\ Len(t) = n
    BY ElementOfSeq
  <2>2. /\ Append(t, x) \in Seq(S) /\ Len(Append(t, x)) = n + 1
        /\ \A i \in 1..n : Append(t, x)[i] = t[i]
        /\ Append(t, x)[n + 1] = x
    BY <2>1, AppendProperties
  <2>3. \A i \in 1..n : Append(t, x)[i] = s[i]
    BY <2>2
  <2>4. Append(t, x)[n + 1] = s[n + 1]
    BY <2>2
  <2> HIDE DEF t, x
  <2>5. \A i \in 1..(n + 1) : Append(t, x)[i] = s[i]
    <3> SUFFICES ASSUME NEW i \in 1..(n + 1) PROVE Append(t, x)[i] = s[i]
      OBVIOUS
    <3>1. i \in 1..n \/ i = n + 1
      OBVIOUS
    <3> QED
      BY <2>3, <2>4, <3>1
  <2>6. Append(t, x) = s
    BY <2>2, <2>5, SeqEqual
  <2> QED
    BY <1>2, <2>1, <2>6
<1> HIDE DEF N
<1>3. Nat \subseteq N
  BY <1>1, <1>2, Induct
<1> QED
  BY <1>3, LenProperties DEF N

LEMMA PendingEmpty ==
    ASSUME NEW f
    PROVE  Pending(<<>>, f) = <<>>
<1> DEFINE w == <<>>
<1>1. w \in Seq({}) /\ Len(w) = 0
  OBVIOUS
<1> HIDE DEF w
<1>2. PICK g \in [0..Len(w) -> Seq({})] : Chain(w, f, g)
  BY <1>1, ChainExists
<1>3. Pending(w, f) = g[Len(w)]
  BY <1>1, <1>2, PendingIs
<1>4. Pending(w, f) = <<>>
  BY <1>1, <1>2, <1>3 DEF Chain
<1> QED
  BY <1>4 DEF w

LEMMA PendingAppend ==
    ASSUME NEW S, NEW w \in Seq(S), NEW x \in S, NEW f
    PROVE  Pending(Append(w, x), f) =
              IF f[x] = "pending" THEN Append(Pending(w, f), x) ELSE Pending(w, f)
<1> DEFINE v == Append(w, x)
<1>1. /\ v \in Seq(S) /\ Len(v) = Len(w) + 1 /\ Len(w) \in Nat
      /\ v[Len(w) + 1] = x
      /\ \A i \in 1..Len(w) : v[i] = w[i]
  BY AppendProperties, LenProperties
<1> HIDE DEF v
<1>2. PICK g \in [0..Len(v) -> Seq(S)] : Chain(v, f, g)
  BY <1>1, ChainExists
<1>3. Pending(v, f) = g[Len(w) + 1]
  BY <1>1, <1>2, PendingIs
<1>4. Chain(w, f, g)
  BY <1>1, <1>2 DEF Chain
<1>5. Pending(w, f) = g[Len(w)]
  BY <1>4, PendingIs
<1>6. Len(w) + 1 \in 1..Len(v) /\ (Len(w) + 1) - 1 = Len(w)
  BY <1>1
<1>7. g[Len(w) + 1] = IF f[x] = "pending" THEN Append(g[Len(w)], x) ELSE g[Len(w)]
  BY <1>1, <1>2, <1>6 DEF Chain
<1> QED
  BY <1>3, <1>5, <1>7 DEF v

\* The pending waiters of two deques in a row.
LEMMA PendingConcat ==
    ASSUME NEW S, NEW u \in Seq(S), NEW v \in Seq(S), NEW f
    PROVE  Pending(u \o v, f) = Pending(u, f) \o Pending(v, f)
<1>1. Pending(<<>>, f) = <<>> /\ <<>> \in Seq(S)
  <2>1. <<>> \in Seq(S)
    OBVIOUS
  <2> QED
    BY <2>1, PendingEmpty, Zenon
<1>2. \A w \in Seq(S) : Pending(w, f) \in Seq(S)
  <2> DEFINE T == {w \in Seq(S) : Pending(w, f) \in Seq(S)}
  <2>1. <<>> \in T
    BY <1>1
  <2>2. ASSUME NEW w \in Seq(S), NEW x \in S, w \in T PROVE Append(w, x) \in T
    <3>1. Append(w, x) \in Seq(S) /\ Append(Pending(w, f), x) \in Seq(S)
      BY <2>2, AppendProperties
    <3> QED
      BY <2>2, <3>1, PendingAppend
  <2> HIDE DEF T
  <2>3. Seq(S) \subseteq T
    BY <2>1, <2>2, SeqInduct
  <2> QED
    BY <2>3 DEF T
<1> DEFINE T == {w \in Seq(S) : Pending(u \o w, f) = Pending(u, f) \o Pending(w, f)}
<1>3. <<>> \in T
  <2>1. u \o <<>> = u /\ Pending(u, f) \o <<>> = Pending(u, f)
    BY <1>2, ConcatEmptySeq
  <2> QED
    BY <1>1, <2>1
<1>4. ASSUME NEW w \in Seq(S), NEW x \in S, w \in T PROVE Append(w, x) \in T
  <2>1. /\ u \o Append(w, x) = Append(u \o w, x)
        /\ u \o w \in Seq(S) /\ Append(w, x) \in Seq(S)
    BY AppendIsConcat, ConcatAssociative, ConcatProperties, AppendProperties
  <2>2. /\ Pending(u, f) \o Append(Pending(w, f), x)
             = Append(Pending(u, f) \o Pending(w, f), x)
        /\ Pending(u, f) \in Seq(S) /\ Pending(w, f) \in Seq(S)
    BY <1>2, AppendIsConcat, ConcatAssociative, ConcatProperties
  <2>3. Pending(u \o w, f) = Pending(u, f) \o Pending(w, f)
    BY <1>4
  <2>4. Pending(u \o Append(w, x), f) = Pending(u, f) \o Pending(Append(w, x), f)
    <3>1. Pending(Append(u \o w, x), f) =
              IF f[x] = "pending" THEN Append(Pending(u \o w, f), x)
              ELSE Pending(u \o w, f)
      BY <2>1, PendingAppend
    <3>2. Pending(Append(w, x), f) =
              IF f[x] = "pending" THEN Append(Pending(w, f), x) ELSE Pending(w, f)
      BY PendingAppend
    <3> QED
      BY <2>1, <2>2, <2>3, <3>1, <3>2
  <2> QED
    BY <2>1, <2>4
<1> HIDE DEF T
<1>5. Seq(S) \subseteq T
  BY <1>3, <1>4, SeqInduct
<1> QED
  BY <1>5 DEF T

\* What the pending waiters of a deque are.
LEMMA AppendElements ==
    ASSUME NEW S, NEW w \in Seq(S), NEW x \in S
    PROVE  /\ Elements(Append(w, x)) = Elements(w) \cup {x}
           /\ NoRepeat(w) /\ x \notin Elements(w) => NoRepeat(Append(w, x))
           /\ NoRepeat(Append(w, x)) => NoRepeat(w) /\ x \notin Elements(w)
<1> DEFINE v == Append(w, x)
<1>1. /\ Len(w) \in Nat /\ DOMAIN w = 1..Len(w) /\ DOMAIN v = 1..(Len(w) + 1)
      /\ v[Len(w) + 1] = x
      /\ \A i \in 1..Len(w) : v[i] = w[i]
  BY AppendProperties, LenProperties
<1> HIDE DEF v
<1>2. \A i \in DOMAIN v : i \in DOMAIN w \/ i = Len(w) + 1
  BY <1>1
<1>3. /\ Len(w) + 1 \in DOMAIN v /\ Len(w) + 1 \notin DOMAIN w
      /\ \A i \in DOMAIN w : i \in DOMAIN v /\ v[i] = w[i]
  BY <1>1
<1>4. Elements(v) = Elements(w) \cup {x}
  BY <1>1, <1>2, <1>3 DEF Elements
<1>5. NoRepeat(w) /\ x \notin Elements(w) => NoRepeat(v)
  BY <1>1, <1>2, <1>3 DEF NoRepeat, Elements
<1>6. NoRepeat(v) => NoRepeat(w) /\ x \notin Elements(w)
  BY <1>1, <1>3 DEF NoRepeat, Elements
<1> QED
  BY <1>4, <1>5, <1>6 DEF v

LEMMA PendingAre ==
    ASSUME NEW S, NEW w \in Seq(S), NEW f
    PROVE  /\ Pending(w, f) \in Seq(S)
           /\ \A q \in Elements(Pending(w, f)) : q \in Elements(w) /\ f[q] = "pending"
           /\ NoRepeat(w) => NoRepeat(Pending(w, f))
<1> DEFINE Fine(v) ==
              /\ Pending(v, f) \in Seq(S)
              /\ \A q \in Elements(Pending(v, f)) : q \in Elements(v) /\ f[q] = "pending"
              /\ NoRepeat(v) => NoRepeat(Pending(v, f))
           T == {v \in Seq(S) : Fine(v)}
<1>1. <<>> \in T
  <2>1. /\ <<>> \in Seq(S) /\ Elements(<<>>) = {} /\ NoRepeat(<<>>)
    BY DEF Elements, NoRepeat
  <2>2. Pending(<<>>, f) = <<>>
    BY PendingEmpty, Zenon
  <2> QED
    BY <2>1, <2>2
<1>2. ASSUME NEW v \in Seq(S), NEW x \in S, v \in T PROVE Append(v, x) \in T
  <2>1. Fine(v)
    BY <1>2
  <2>2. /\ Append(v, x) \in Seq(S)
        /\ Elements(Append(v, x)) = Elements(v) \cup {x}
        /\ NoRepeat(Append(v, x)) => NoRepeat(v) /\ x \notin Elements(v)
    BY AppendElements, AppendProperties
  <2>3. CASE f[x] = "pending"
    <3>1. Pending(Append(v, x), f) = Append(Pending(v, f), x)
      BY <2>3, PendingAppend
    <3>2. /\ Append(Pending(v, f), x) \in Seq(S)
          /\ Elements(Append(Pending(v, f), x)) = Elements(Pending(v, f)) \cup {x}
          /\ NoRepeat(Pending(v, f)) /\ x \notin Elements(Pending(v, f))
               => NoRepeat(Append(Pending(v, f), x))
      BY <2>1, AppendElements, AppendProperties
    <3>3. Fine(Append(v, x))
      BY <2>1, <2>2, <2>3, <3>1, <3>2
    <3> QED
      BY <2>2, <3>3
  <2>4. CASE f[x] # "pending"
    <3>1. Pending(Append(v, x), f) = Pending(v, f)
      BY <2>4, PendingAppend
    <3>2. Fine(Append(v, x))
      BY <2>1, <2>2, <3>1
    <3> QED
      BY <2>2, <3>2
  <2> QED
    BY <2>3, <2>4
<1>3. w \in T => Fine(w)
  OBVIOUS
<1> HIDE DEF T
<1>4. w \in T
  BY <1>1, <1>2, SeqInduct
<1> QED
  BY <1>3, <1>4

\* A deque with no pending waiter.
LEMMA PendingNone ==
    ASSUME NEW S, NEW w \in Seq(S), NEW f, \A q \in Elements(w) : f[q] # "pending"
    PROVE  Pending(w, f) = <<>>
<1>1. Pending(w, f) \in Seq(S) /\ Elements(Pending(w, f)) = {}
  BY PendingAre
<1> DEFINE P == Pending(w, f)
<1>2. Len(P) \in Nat /\ DOMAIN P = 1..Len(P) /\ Elements(P) = {} /\ P \in Seq(S)
  BY <1>1, LenProperties
<1> HIDE DEF P
<1>3. P = <<>>
  <2> SUFFICES ASSUME P # <<>> PROVE FALSE
    OBVIOUS
  <2>1. Len(P) \in Nat \ {0}
    BY <1>2, EmptySeq
  <2>2. 1 \in DOMAIN P
    BY <1>2, <2>1
  <2> QED
    BY <1>2, <2>2 DEF Elements
<1> QED
  BY <1>3 DEF P

\* Only who is pending matters.
LEMMA PendingSame ==
    ASSUME NEW S, NEW w \in Seq(S), NEW f, NEW h,
           \A q \in Elements(w) : f[q] = "pending" <=> h[q] = "pending"
    PROVE  Pending(w, f) = Pending(w, h)
<1> DEFINE Same(v) ==
              (\A q \in Elements(v) : f[q] = "pending" <=> h[q] = "pending")
                 => Pending(v, f) = Pending(v, h)
           T == {v \in Seq(S) : Same(v)}
<1>1. <<>> \in T
  <2>1. Pending(<<>>, f) = <<>> /\ Pending(<<>>, h) = <<>>
    BY PendingEmpty, Zenon
  <2>2. Same(<<>>) /\ <<>> \in Seq(S)
    BY <2>1
  <2> QED
    BY <2>2
<1>2. ASSUME NEW v \in Seq(S), NEW x \in S, v \in T PROVE Append(v, x) \in T
  <2>1. /\ Append(v, x) \in Seq(S)
        /\ Elements(Append(v, x)) = Elements(v) \cup {x}
    BY AppendElements, AppendProperties
  <2>2. /\ Pending(Append(v, x), f) =
              IF f[x] = "pending" THEN Append(Pending(v, f), x) ELSE Pending(v, f)
        /\ Pending(Append(v, x), h) =
              IF h[x] = "pending" THEN Append(Pending(v, h), x) ELSE Pending(v, h)
    BY PendingAppend
  <2>3. Same(v)
    BY <1>2
  <2>4. Same(Append(v, x))
    BY <2>1, <2>2, <2>3
  <2> QED
    BY <2>1, <2>4
<1>3. w \in T => Pending(w, f) = Pending(w, h)
  OBVIOUS
<1> HIDE DEF T
<1>4. w \in T
  BY <1>1, <1>2, SeqInduct
<1> QED
  BY <1>3, <1>4

\* A deque around its k-th element.
Around(w, k, u, v) ==
    /\ w = Append(u, w[k]) \o v
    /\ Cut(w, k) = u \o v
    /\ Len(u) = k - 1
    /\ \A i \in 1..Len(u) : u[i] = w[i]
    /\ \A i \in 1..Len(v) : k + i \in 1..Len(w) /\ v[i] = w[k + i]

LEMMA SplitAt ==
    ASSUME NEW S, NEW w \in Seq(S), NEW k \in 1..Len(w)
    PROVE  \E u \in Seq(S) : \E v \in Seq(S) : Around(w, k, u, v)
<1> DEFINE u == SubSeq(w, 1, k - 1)
           v == SubSeq(w, k + 1, Len(w))
<1>1. /\ Len(w) \in Nat /\ k \in Nat /\ 1 <= k /\ k <= Len(w)
      /\ \A i \in 1..Len(w) : w[i] \in S
  BY ElementOfSeq, LenProperties
<1>2. u \in Seq(S) /\ Len(u) = k - 1 /\ \A i \in 1..(k - 1) : u[i] = w[i]
  <2>1. \A i \in 1..(k - 1) : w[i] \in S
    BY <1>1
  <2>2. 1 \in Int /\ k - 1 \in Int
    BY <1>1
  <2>3. /\ SubSeq(w, 1, k - 1) \in Seq(S)
        /\ Len(SubSeq(w, 1, k - 1)) = IF 1 <= k - 1 THEN (k - 1) - 1 + 1 ELSE 0
        /\ \A i \in 1..((k - 1) - 1 + 1) : SubSeq(w, 1, k - 1)[i] = w[1 + i - 1]
    BY <2>1, <2>2, SubSeqProperties
  <2> QED
    BY <1>1, <2>3
<1>3. /\ v \in Seq(S)
      /\ Len(v) = Len(w) - k
      /\ \A i \in 1..(Len(w) - k) : v[i] = w[k + i]
  <2>1. \A i \in (k + 1)..Len(w) : w[i] \in S
    BY <1>1
  <2>2. k + 1 \in Int /\ Len(w) \in Int
    BY <1>1
  <2>3. /\ SubSeq(w, k + 1, Len(w)) \in Seq(S)
        /\ Len(SubSeq(w, k + 1, Len(w)))
             = IF k + 1 <= Len(w) THEN Len(w) - (k + 1) + 1 ELSE 0
        /\ \A i \in 1..(Len(w) - (k + 1) + 1) :
             SubSeq(w, k + 1, Len(w))[i] = w[(k + 1) + i - 1]
    BY <2>1, <2>2, SubSeqProperties
  <2> HIDE DEF u
  <2>4. Len(v) = IF k + 1 <= Len(w) THEN Len(w) - (k + 1) + 1 ELSE 0
    BY <2>3
  <2>5. ASSUME NEW i \in 1..(Len(w) - k)
        PROVE  v[i] = w[k + i]
    <3>1. (k + 1) + i - 1 = k + i /\ i \in 1..(Len(w) - (k + 1) + 1)
      BY <1>1
    <3> QED
      BY <2>3, <3>1
  <2>6. v \in Seq(S)
    BY <2>3
  <2> HIDE DEF v
  <2>7. Len(v) = Len(w) - k
    BY <1>1, <2>4
  <2> QED
    BY <2>5, <2>6, <2>7
<1>4. Cut(w, k) = u \o v
  BY DEF Cut
<1>5. w = Append(u, w[k]) \o v
  <2>1. SubSeq(w, 1, k) = u \o <<w[k]>>
    BY <1>1, SubSeqRecursiveSecond
  <2>2. SubSeq(w, 1, k) \o v = SubSeq(w, 1, Len(w))
    <3>1. /\ 1 \in 1..(Len(w) + 1) /\ k \in (1 - 1)..Len(w) /\ Len(w) \in k..Len(w)
      BY <1>1
    <3> QED
      BY <3>1, ConcatAdjacentSubSeq
  <2> HIDE DEF v
  <2>3. SubSeq(w, 1, Len(w)) = w
    BY SubSeqFull
  <2>4. Append(u, w[k]) = u \o <<w[k]>>
    BY <1>1, <1>2, AppendIsConcat
  <2> QED
    BY <2>1, <2>2, <2>3, <2>4
<1> HIDE DEF u, v
<1>6. \A i \in 1..Len(u) : u[i] = w[i]
  BY <1>2
<1>7. \A i \in 1..Len(v) : k + i \in 1..Len(w) /\ v[i] = w[k + i]
  BY <1>1, <1>3
<1>8. Around(w, k, u, v)
  BY <1>2, <1>4, <1>5, <1>6, <1>7 DEF Around
<1> QED
  BY <1>2, <1>3, <1>8

LEMMA CutMiddle ==
    ASSUME NEW S, NEW u \in Seq(S), NEW v \in Seq(S), NEW x \in S
    PROVE  /\ Len(u) + 1 \in 1..Len(Append(u, x) \o v)
           /\ Cut(Append(u, x) \o v, Len(u) + 1) = u \o v
<1> DEFINE a == Append(u, x)
           w == a \o v
           k == Len(u) + 1
<1>1. /\ Len(u) \in Nat /\ Len(v) \in Nat
      /\ a \in Seq(S) /\ Len(a) = k /\ a[k] = x
      /\ \A i \in 1..Len(u) : a[i] = u[i]
  BY AppendProperties, LenProperties
<1> HIDE DEF a
<1>2. /\ w \in Seq(S) /\ Len(w) = k + Len(v)
      /\ \A i \in 1..(k + Len(v)) : w[i] = IF i <= k THEN a[i] ELSE v[i - k]
  <2>1. /\ w \in Seq(S) /\ Len(w) = Len(a) + Len(v)
        /\ \A i \in 1..(Len(a) + Len(v)) : w[i] = IF i <= Len(a) THEN a[i] ELSE v[i - Len(a)]
    BY <1>1, ConcatProperties
  <2> QED
    BY <1>1, <2>1
<1>3. /\ u \o v \in Seq(S) /\ Len(u \o v) = Len(u) + Len(v)
      /\ \A i \in 1..(Len(u) + Len(v)) :
            (u \o v)[i] = IF i <= Len(u) THEN u[i] ELSE v[i - Len(u)]
  BY ConcatProperties
<1> HIDE DEF w
<1>4. k \in 1..Len(w)
  BY <1>1, <1>2
<1>5. /\ Cut(w, k) \in Seq(S)
      /\ Len(Cut(w, k)) = Len(w) - 1
      /\ \A i \in 1..(Len(w) - 1) : Cut(w, k)[i] = IF i < k THEN w[i] ELSE w[i + 1]
  BY <1>2, <1>4, CutIs
<1>6. ASSUME NEW i \in 1..(Len(u) + Len(v))
      PROVE  Cut(w, k)[i] = (u \o v)[i]
  <2>1. CASE i <= Len(u)
    BY <2>1, <1>1, <1>2, <1>3, <1>5
  <2>2. CASE ~(i <= Len(u))
    <3>1. /\ i \in 1..(Len(w) - 1) /\ ~(i < k)
          /\ i + 1 \in 1..(k + Len(v)) /\ ~(i + 1 <= k)
          /\ (i + 1) - k = i - Len(u)
      BY <2>2, <1>1, <1>2
    <3>2. Cut(w, k)[i] = w[i + 1]
      BY <3>1, <1>5
    <3>3. w[i + 1] = v[(i + 1) - k]
      BY <3>1, <1>2
    <3>4. (u \o v)[i] = v[i - Len(u)]
      BY <2>2, <1>3
    <3> QED
      BY <3>1, <3>2, <3>3, <3>4
  <2> QED
    BY <2>1, <2>2
<1>7. Len(Cut(w, k)) = Len(u \o v) /\ Len(u \o v) = Len(u) + Len(v)
  BY <1>1, <1>2, <1>3, <1>5
<1>8. Cut(w, k) = u \o v
  <2> DEFINE c == Cut(w, k)
             d == u \o v
  <2>1. /\ c \in Seq(S) /\ d \in Seq(S) /\ Len(c) = Len(d)
        /\ \A i \in 1..Len(c) : c[i] = d[i]
    BY <1>3, <1>5, <1>6, <1>7
  <2> HIDE DEF c, d
  <2>2. c = d
    BY <2>1, SeqEqual
  <2> QED
    BY <2>2 DEF c, d
<1> QED
  BY <1>4, <1>8 DEF w, a

LEMMA PendingAround ==
    ASSUME NEW S, NEW w \in Seq(S), NEW k \in 1..Len(w), NEW f,
           NEW u \in Seq(S), NEW v \in Seq(S), Around(w, k, u, v)
    PROVE  Pending(w, f) = (IF f[w[k]] = "pending" THEN Append(Pending(u, f), w[k])
                            ELSE Pending(u, f)) \o Pending(v, f)
<1> DEFINE x == w[k]
           c == Append(u, x)
<1>1. x \in S
  BY ElementOfSeq
<1>2. c \in Seq(S) /\ w = c \o v
  BY <1>1, AppendProperties DEF Around
<1>3. Pending(c, f) = IF f[x] = "pending" THEN Append(Pending(u, f), x) ELSE Pending(u, f)
  BY <1>1, PendingAppend
<1> HIDE DEF c
<1>4. Pending(c \o v, f) = Pending(c, f) \o Pending(v, f)
  BY <1>2, PendingConcat
<1> QED
  BY <1>2, <1>3, <1>4

\* Taking a waiter that is not pending out of the deque changes nothing.
LEMMA PendingWithout ==
    ASSUME NEW S, NEW w \in Seq(S), NEW r, r \in Elements(w), NEW f, f[r] # "pending"
    PROVE  Pending(Without(w, r), f) = Pending(w, f)
<1>1. PICK k \in DOMAIN w : w[k] = r /\ Without(w, r) = Cut(w, k)
  BY WithoutIs
<1>2. k \in 1..Len(w)
  BY <1>1, LenProperties
<1>3. PICK u \in Seq(S) : \E v \in Seq(S) : Around(w, k, u, v)
  BY <1>2, SplitAt
<1>4. PICK v \in Seq(S) : Around(w, k, u, v)
  BY <1>3
<1>5. Pending(w, f) = Pending(u, f) \o Pending(v, f)
  BY <1>1, <1>2, <1>4, PendingAround
<1>6. Pending(u \o v, f) = Pending(u, f) \o Pending(v, f)
  BY PendingConcat
<1> QED
  BY <1>1, <1>4, <1>5, <1>6 DEF Around

\* q is p without one of its elements.
OneLess(p, q) == \E m \in 1..Len(p) : q = Cut(p, m)

\* When the waiter at position k stops being pending, it leaves its place
\* among the pending ones, and that is the first place if k was the first.
LEMMA PendingDrop ==
    ASSUME NEW S, NEW w \in Seq(S), NoRepeat(w), NEW k \in 1..Len(w),
           NEW f, NEW h, f[w[k]] = "pending", h[w[k]] # "pending",
           \A q \in Elements(w) : q # w[k] => (f[q] = "pending" <=> h[q] = "pending")
    PROVE  /\ OneLess(Pending(w, f), Pending(w, h))
           /\ IsFirstPending(w, f, k) => Pending(w, f) = <<w[k]>> \o Pending(w, h)
<1> DEFINE r == w[k]
<1>1. r \in S /\ Len(w) \in Nat /\ DOMAIN w = 1..Len(w)
  BY ElementOfSeq, LenProperties
<1>2. PICK u \in Seq(S) : \E v \in Seq(S) : Around(w, k, u, v)
  BY SplitAt
<1>3. PICK v \in Seq(S) : Around(w, k, u, v)
  BY <1>2
<1>4. /\ w = Append(u, r) \o v
      /\ Len(u) = k - 1
      /\ \A i \in 1..Len(u) : u[i] = w[i]
      /\ \A i \in 1..Len(v) : k + i \in 1..Len(w) /\ v[i] = w[k + i]
  BY <1>3 DEF Around
<1>5. /\ DOMAIN u = 1..Len(u) /\ DOMAIN v = 1..Len(v)
      /\ Len(u) \in Nat /\ Len(v) \in Nat
  BY LenProperties
<1>6. \A q \in Elements(u) : \E i \in 1..(k - 1) : i \in DOMAIN w /\ q = w[i] /\ q # r
  <2> SUFFICES ASSUME NEW i \in DOMAIN u
               PROVE  i \in 1..(k - 1) /\ i \in DOMAIN w /\ u[i] = w[i] /\ u[i] # r
    BY DEF Elements
  <2>1. i \in 1..(k - 1) /\ i \in DOMAIN w /\ u[i] = w[i] /\ k \in DOMAIN w /\ i # k
    BY <1>1, <1>4, <1>5
  <2> QED
    BY <2>1 DEF NoRepeat
<1>7. \A q \in Elements(v) : q \in Elements(w) /\ q # r
  <2> SUFFICES ASSUME NEW i \in DOMAIN v
               PROVE  v[i] \in Elements(w) /\ v[i] # r
    BY DEF Elements
  <2>1. k + i \in DOMAIN w /\ v[i] = w[k + i] /\ k \in DOMAIN w /\ k + i # k
    BY <1>1, <1>4, <1>5
  <2> QED
    BY <2>1 DEF NoRepeat, Elements
<1>8. Pending(u, h) = Pending(u, f) /\ Pending(v, h) = Pending(v, f)
  <2>1. \A q \in Elements(u) : f[q] = "pending" <=> h[q] = "pending"
    BY <1>6 DEF Elements
  <2>2. \A q \in Elements(v) : f[q] = "pending" <=> h[q] = "pending"
    BY <1>7
  <2> QED
    BY <2>1, <2>2, PendingSame
<1> DEFINE a == Pending(u, f)
           b == Pending(v, f)
<1>9. a \in Seq(S) /\ b \in Seq(S)
  BY PendingAre
<1>10. Pending(w, f) = Append(a, r) \o b
  BY <1>3, PendingAround
<1>11. Pending(w, h) = a \o b
  <2>1. Pending(w, h) = Pending(u, h) \o Pending(v, h)
    BY <1>3, PendingAround
  <2> QED
    BY <1>8, <2>1
<1>12. IsFirstPending(w, f, k) => a = <<>>
  <2> SUFFICES ASSUME IsFirstPending(w, f, k) PROVE a = <<>>
    OBVIOUS
  <2>1. \A q \in Elements(u) : f[q] # "pending"
    BY <1>6 DEF IsFirstPending
  <2> QED
    BY <2>1, PendingNone
<1> HIDE DEF a, b, r
<1>13. OneLess(Append(a, r) \o b, a \o b)
  <2>1. /\ Len(a) + 1 \in 1..Len(Append(a, r) \o b)
        /\ Cut(Append(a, r) \o b, Len(a) + 1) = a \o b
    BY <1>1, <1>9, CutMiddle
  <2> QED
    BY <2>1 DEF OneLess
<1>14. a = <<>> => Append(a, r) \o b = <<r>> \o (a \o b)
  <2> SUFFICES ASSUME a = <<>> PROVE Append(a, r) \o b = <<r>> \o (a \o b)
    OBVIOUS
  <2>1. Append(a, r) = <<r>>
    OBVIOUS
  <2>2. a \o b = b
    BY <1>9, ConcatEmptySeq
  <2> QED
    BY <2>1, <2>2
<1> QED
  BY <1>10, <1>11, <1>12, <1>13, <1>14 DEF r

-----------------------------------------------------------------------------
(* The line of GpuSlot                                                     *)

Front(owners) == IF owners = {} THEN <<>> ELSE <<CHOOSE r \in owners : TRUE>>

LineOf(w, f, p) == Front(Own(f, p)) \o Pending(w, f)

LEMMA LineIs == Line = LineOf(waiters, fut, phase)
BY DEF Line, LineOf, Front, Own, Owners, Holders

LEMMA LineIsPrime == Line' = LineOf(waiters', fut', phase')
BY DEF Line, LineOf, Front, Own, Owners, Holders, Pending

LEMMA FrontIs ==
    /\ Front({}) = <<>>
    /\ \A r : Front({r}) = <<r>>
<1>1. Front({}) = <<>>
  BY DEF Front
<1>2. ASSUME NEW r PROVE Front({r}) = <<r>>
  <2>1. {r} # {} /\ (CHOOSE q \in {r} : TRUE) = r
    OBVIOUS
  <2> QED
    BY <2>1 DEF Front
<1> QED
  BY <1>1, <1>2

\* Handing the unit to the first pending waiter moves nobody in the line.
LEMMA WakeLine ==
    ASSUME NEW v, NEW w, NEW f, NEW p, Sound(v, w, f, p), WakeUpNext(v, w, f)
    PROVE  LineOf(w, fut', p) = LineOf(w, f, p)
<1> DEFINE Some == \E i \in DOMAIN w : IsFirstPending(w, f, i)
           i0 == CHOOSE i \in DOMAIN w : IsFirstPending(w, f, i)
<1>1. CASE v > 0 /\ Some
  <2>1. i0 \in DOMAIN w /\ IsFirstPending(w, f, i0)
    BY <1>1
  <2>2. fut' = [f EXCEPT ![w[i0]] = "granted"]
    BY <1>1 DEF WakeUpNext
  <2> HIDE DEF i0
  <2>3. i0 \in 1..Len(w) /\ w \in Seq(Request) /\ NoRepeat(w)
    BY <2>1, LenProperties DEF Sound
  <2>4. /\ w[i0] \in Request /\ f[w[i0]] = "pending" /\ v = 1
        /\ f \in [Request -> FutState]
    BY <2>1, <2>3, <1>1, ElementOfSeq DEF Sound, IsFirstPending
  <2>5. fut'[w[i0]] = "granted" /\ \A q \in Request : q # w[i0] => fut'[q] = f[q]
    BY <2>2, <2>4
  <2>6. Own(f, p) = {} /\ Own(fut', p) = {w[i0]}
    BY <2>4, <2>5 DEF Own, Sound
  <2>7. \A q \in Elements(w) : q # w[i0] => (f[q] = "pending" <=> fut'[q] = "pending")
    BY <2>3, <2>5, ElementOfSeq DEF Elements
  <2>8. Pending(w, f) = <<w[i0]>> \o Pending(w, fut')
    BY <2>1, <2>3, <2>4, <2>5, <2>7, PendingDrop
  <2>9. Pending(w, f) \in Seq(Request)
    BY <2>3, PendingAre
  <2>10. LineOf(w, f, p) = Pending(w, f)
    BY <2>6, <2>9, FrontIs, ConcatEmptySeq DEF LineOf
  <2>11. LineOf(w, fut', p) = <<w[i0]>> \o Pending(w, fut')
    BY <2>6, FrontIs DEF LineOf
  <2> QED
    BY <2>8, <2>10, <2>11
<1>2. CASE ~(v > 0 /\ Some)
  <2>1. fut' = f
    BY <1>2 DEF WakeUpNext
  <2> QED
    BY <2>1
<1> QED
  BY <1>1, <1>2

\* The line's facts: no caller stands in it twice, and all are admitted.
LEMMA LineFacts ==
    ASSUME IInv
    PROVE  /\ Line \in Seq(Request)
           /\ NoRepeat(Line)
           /\ Elements(Line) \subseteq Admitted
           /\ Len(Line) <= depth
<1> DEFINE P == Pending(waiters, fut)
<1>1. /\ waiters \in Seq(Request) /\ fut \in [Request -> FutState] /\ NoRepeat(waiters)
      /\ \A r \in Request : fut[r] # "none" <=> phase[r] = "waiting"
      /\ Own(fut, phase) = {} \/ \E r \in Request : Own(fut, phase) = {r}
  BY DEF IInv, Sound
<1>2. P \in Seq(Request) /\ NoRepeat(P) /\ \A q \in Elements(P) : fut[q] = "pending"
  BY <1>1, PendingAre
<1>3. /\ Len(P) \in Nat /\ DOMAIN P = 1..Len(P)
      /\ Elements(P) \subseteq Request
  BY <1>2, LenProperties, ElementOfSeq DEF Elements
<1>4. Elements(P) \subseteq Admitted
  BY <1>1, <1>2, <1>3 DEF Admitted
<1>5. Line = Front(Own(fut, phase)) \o P
  BY LineIs DEF LineOf
<1> HIDE DEF P
<1>6. /\ Line \in Seq(Request)
      /\ NoRepeat(Line)
      /\ Elements(Line) \subseteq Admitted
  <2>1. CASE Own(fut, phase) = {}
    <3>1. Line = P
      BY <2>1, <1>2, <1>5, FrontIs, ConcatEmptySeq
    <3> QED
      BY <3>1, <1>2, <1>4
  <2>2. ASSUME NEW r \in Request, Own(fut, phase) = {r}
        PROVE  /\ Line \in Seq(Request)
               /\ NoRepeat(Line)
               /\ Elements(Line) \subseteq Admitted
    <3>1. r \in Own(fut, phase) /\ r \in Admitted /\ r \notin Elements(P)
      BY <2>2, <1>1, <1>2 DEF Own, Admitted
    <3> DEFINE o == <<r>>
    <3>2. Line = o \o P
      BY <2>2, <1>5, FrontIs
    <3>3. o \in Seq(Request) /\ Len(o) = 1 /\ o[1] = r
      OBVIOUS
    <3> HIDE DEF o
    <3> DEFINE L == o \o P
    <3>4. /\ L \in Seq(Request) /\ Len(L) = 1 + Len(P)
          /\ \A i \in 1..(1 + Len(P)) : L[i] = IF i <= 1 THEN o[i] ELSE P[i - 1]
      <4>1. /\ L \in Seq(Request) /\ Len(L) = Len(o) + Len(P)
            /\ \A i \in 1..(Len(o) + Len(P)) :
                  L[i] = IF i <= Len(o) THEN o[i] ELSE P[i - Len(o)]
        BY <1>2, <3>3, ConcatProperties
      <4> QED
        BY <3>3, <4>1
    <3> HIDE DEF L
    <3>5. DOMAIN L = 1..(1 + Len(P)) /\ L[1] = r
      BY <1>3, <3>3, <3>4, LenProperties
    <3>6. ASSUME NEW i \in DOMAIN L, i # 1
          PROVE  i - 1 \in DOMAIN P /\ L[i] = P[i - 1] /\ L[i] \in Elements(P)
      <4>1. i - 1 \in DOMAIN P /\ L[i] = P[i - 1]
        BY <1>3, <3>4, <3>5, <3>6
      <4> QED
        BY <4>1 DEF Elements
    <3>7. NoRepeat(L)
      <4> SUFFICES ASSUME NEW i \in DOMAIN L, NEW j \in DOMAIN L, L[i] = L[j]
                   PROVE  i = j
        BY DEF NoRepeat
      <4>1. CASE i = 1 \/ j = 1
        BY <4>1, <3>1, <3>5, <3>6
      <4>2. CASE i # 1 /\ j # 1
        <5>1. P[i - 1] = P[j - 1] /\ i - 1 \in DOMAIN P /\ j - 1 \in DOMAIN P
          BY <4>2, <3>6
        <5>2. i - 1 = j - 1 /\ i \in Nat /\ j \in Nat
          BY <5>1, <1>2, <3>5 DEF NoRepeat
        <5> QED
          BY <5>2
      <4> QED
        BY <4>1, <4>2
    <3>8. Elements(L) \subseteq Admitted
      BY <1>4, <3>1, <3>5, <3>6 DEF Elements
    <3> QED
      BY <3>2, <3>4, <3>7, <3>8 DEF L
  <2> QED
    BY <1>1, <2>1, <2>2
<1>7. Len(Line) <= depth
  <2> DEFINE L == Line
             g == [i \in 1..Len(L) |-> L[i]]
  <2>1. Len(L) \in Nat /\ DOMAIN L = 1..Len(L) /\ Elements(L) \subseteq Admitted /\ NoRepeat(L)
    BY <1>6, LenProperties
  <2> HIDE DEF L
  <2>2. g \in Injection(1..Len(L), Admitted)
    <3>1. \A i \in 1..Len(L) : L[i] \in Admitted
      BY <2>1 DEF Elements
    <3>2. g \in [1..Len(L) -> Admitted]
      BY <3>1
    <3>3. \A i, j \in 1..Len(L) : g[i] = g[j] => i = j
      BY <2>1 DEF NoRepeat
    <3> HIDE DEF g
    <3> QED
      BY <3>2, <3>3 DEF Injection, IsInjective
  <2>3. IsFiniteSet(Admitted) /\ Cardinality(Admitted) = depth
    BY DEF IInv, DepthIsExact
  <2> HIDE DEF g
  <2>4. Cardinality(1..Len(L)) <= depth
    BY <2>2, <2>3, FS_Injection
  <2>5. 1 \in Int /\ Len(L) \in Int
    BY <2>1
  <2>6. Cardinality(1..Len(L)) = IF 1 > Len(L) THEN 0 ELSE Len(L) - 1 + 1
    BY <2>5, FS_Interval
  <2>7. Cardinality(1..Len(L)) = Len(L)
    BY <2>1, <2>6
  <2> QED
    BY <2>4, <2>7 DEF L
<1> QED
  BY <1>6, <1>7

Regrouped(S, x, u, y, v) ==
    /\ <<x>> \o u \in Seq(S)
    /\ Len(<<x>> \o u) = Len(u) + 1
    /\ <<x>> \o (Append(u, y) \o v) = Append(<<x>> \o u, y) \o v
    /\ <<x>> \o (u \o v) = (<<x>> \o u) \o v

LEMMA Regroup ==
    ASSUME NEW S, NEW x \in S, NEW u \in Seq(S), NEW y \in S, NEW v \in Seq(S)
    PROVE  Regrouped(S, x, u, y, v)
<1>1. PICK o : o = <<x>>
  OBVIOUS
<1>2. PICK z : z = <<y>>
  OBVIOUS
<1>3. o \in Seq(S) /\ Len(o) = 1
  BY <1>1
<1>4. z \in Seq(S)
  BY <1>2
<1>5. Len(u) \in Nat
  BY LenProperties
<1>6. o \o u \in Seq(S) /\ Len(o \o u) = Len(o) + Len(u) /\ u \o z \in Seq(S)
  BY <1>3, <1>4, ConcatProperties
<1>7. o \o (u \o v) = (o \o u) \o v
  BY <1>3, ConcatAssociative
<1>8. o \o (u \o z) = (o \o u) \o z
  BY <1>3, <1>4, ConcatAssociative
<1>9. o \o ((u \o z) \o v) = (o \o (u \o z)) \o v
  <2>1. PICK c : c = u \o z
    OBVIOUS
  <2>2. c \in Seq(S)
    BY <1>6, <2>1
  <2>3. o \o (c \o v) = (o \o c) \o v
    BY <1>3, <2>2, ConcatAssociative
  <2> QED
    BY <2>1, <2>3
<1>10. Append(u, y) = u \o z /\ Append(o \o u, y) = (o \o u) \o z
  BY <1>2, <1>6, AppendIsConcat
<1>11. Len(o \o u) = Len(u) + 1
  BY <1>3, <1>5, <1>6
<1>12. o \o (Append(u, y) \o v) = Append(o \o u, y) \o v
  BY <1>8, <1>9, <1>10
<1> QED
  BY <1>1, <1>6, <1>7, <1>11, <1>12 DEF Regrouped

\* Cutting behind the head.
LEMMA CutBehind ==
    ASSUME NEW S, NEW x \in S, NEW P \in Seq(S), NEW m \in 1..Len(P)
    PROVE  /\ m + 1 \in 2..Len(<<x>> \o P)
           /\ <<x>> \o Cut(P, m) = Cut(<<x>> \o P, m + 1)
<1>1. PICK u \in Seq(S) : \E v \in Seq(S) : Around(P, m, u, v)
  BY SplitAt
<1>2. PICK v \in Seq(S) : Around(P, m, u, v)
  BY <1>1
<1>3. PICK y \in S : y = P[m]
  BY ElementOfSeq
<1>4. P = Append(u, y) \o v /\ Cut(P, m) = u \o v /\ Len(u) = m - 1
  BY <1>2, <1>3 DEF Around
<1>5. PICK t : t = <<x>> \o u
  OBVIOUS
<1>6. /\ t \in Seq(S) /\ Len(t) = Len(u) + 1
      /\ <<x>> \o (Append(u, y) \o v) = Append(t, y) \o v
      /\ <<x>> \o (u \o v) = t \o v
  <2>1. Regrouped(S, x, u, y, v)
    BY Regroup
  <2> QED
    BY <1>5, <2>1 DEF Regrouped
<1>7. /\ Len(t) + 1 \in 1..Len(Append(t, y) \o v)
      /\ Cut(Append(t, y) \o v, Len(t) + 1) = t \o v
  <2>1. t \in Seq(S)
    BY <1>6
  <2> QED
    BY <2>1, CutMiddle, Zenon
<1>8. Len(t) = m
  BY <1>4, <1>6
<1>9. <<x>> \o P = Append(t, y) \o v /\ <<x>> \o Cut(P, m) = t \o v
  BY <1>4, <1>6
<1>10. m + 1 \in 1..Len(<<x>> \o P) /\ Cut(<<x>> \o P, m + 1) = <<x>> \o Cut(P, m)
  BY <1>7, <1>8, <1>9
<1>11. m \in Nat \ {0}
  BY LenProperties
<1>12. ASSUME NEW n, m + 1 \in 1..n PROVE m + 1 \in 2..n
  BY <1>11, <1>12
<1> QED
  BY <1>10, <1>12

LEMMA AdmitNowJoins ==
    ASSUME IInv, NEW r \in Request, AdmitNow(r)
    PROVE  Abstract!Join(r)
<1>1. /\ Sound(value, waiters, fut, phase)
      /\ value = 1 => NonePending(fut)
      /\ phase \in [Request -> Phase] /\ phase[r] = "out"
      /\ phase' = [phase EXCEPT ![r] = "holding"]
  BY DEF IInv, AdmitNow, Sound
<1>2. value = 1 /\ waiters' = waiters /\ fut' = fut
  BY <1>1 DEF AdmitNow, AcquireNow, Locked, Sound
<1>3. Own(fut, phase) = {} /\ Own(fut', phase') = {r}
  BY <1>1, <1>2 DEF Own, Sound
<1>4. Pending(waiters, fut) = <<>>
  <2>1. waiters \in Seq(Request) /\ \A q \in Elements(waiters) : fut[q] # "pending"
    BY <1>1, <1>2, ElementOfSeq, LenProperties DEF Sound, NonePending, Elements
  <2> QED
    BY <2>1, PendingNone
<1>5. Line = <<>>
  BY <1>3, <1>4, LineIs, FrontIs DEF LineOf
<1>6. Line' = <<r>>
  <2>1. Line' = LineOf(waiters, fut, phase')
    BY <1>2, LineIsPrime
  <2>2. Own(fut, phase') = {r}
    BY <1>2, <1>3
  <2>3. LineOf(waiters, fut, phase') = <<r>> \o <<>>
    BY <1>4, <2>2, FrontIs DEF LineOf
  <2> QED
    BY <2>1, <2>3
<1>7. depth < MaxDepth /\ depth \in Nat /\ MaxDepth \in Nat
  BY MaxDepthAssumption DEF AdmitNow, TryAdmit, IInv
<1>8. Len(Line) < MaxDepth /\ r \notin Abstract!InLine /\ Line' = Append(Line, r)
  BY <1>5, <1>6, <1>7 DEF Abstract!InLine
<1> QED
  BY <1>8 DEF Abstract!Join

LEMMA AdmitWaitJoins ==
    ASSUME IInv, NEW r \in Request, AdmitWait(r)
    PROVE  Abstract!Join(r)
<1>1. /\ Sound(value, waiters, fut, phase)
      /\ phase \in [Request -> Phase] /\ phase[r] = "out"
      /\ phase' = [phase EXCEPT ![r] = "waiting"]
  BY DEF IInv, AdmitWait, Sound
<1>2. /\ waiters' = Append(waiters, r)
      /\ fut' = [fut EXCEPT ![r] = "pending"]
      /\ waiters \in Seq(Request) /\ fut \in [Request -> FutState]
      /\ fut[r] = "none" /\ r \notin Elements(waiters)
  BY <1>1 DEF AdmitWait, AcquireWait, Sound
<1>3. Own(fut', phase') = Own(fut, phase)
  BY <1>1, <1>2 DEF Own
<1>4. Pending(waiters', fut') = Append(Pending(waiters, fut), r)
  <2>1. \A q \in Elements(waiters) : q \in Request /\ q # r
    BY <1>2, ElementOfSeq, LenProperties DEF Elements
  <2>2. PICK h : h = fut'
    OBVIOUS
  <2>3. h[r] = "pending" /\ \A q \in Elements(waiters) : h[q] = "pending" <=> fut[q] = "pending"
    BY <1>2, <2>1, <2>2
  <2>4. waiters \in Seq(Request)
    BY <1>2
  <2>5. Pending(waiters, h) = Pending(waiters, fut)
    BY <2>3, <2>4, PendingSame
  <2>6. Pending(Append(waiters, r), h) = Append(Pending(waiters, h), r)
    BY <2>3, <2>4, PendingAppend
  <2> QED
    BY <1>2, <2>2, <2>5, <2>6
<1>5. Line' = Append(Line, r)
  <2> DEFINE a == Front(Own(fut, phase))
             b == Pending(waiters, fut)
  <2>1. a \in Seq(Request) /\ b \in Seq(Request)
    <3>1. Own(fut, phase) = {} \/ \E q \in Request : Own(fut, phase) = {q}
      BY <1>1 DEF Sound
    <3>2. a = <<>> \/ \E q \in Request : a = <<q>>
      BY <3>1, FrontIs
    <3>3. a \in Seq(Request)
      <4>1. CASE a = <<>>
        BY <4>1
      <4>2. ASSUME NEW q \in Request, a = <<q>> PROVE a \in Seq(Request)
        BY <4>2
      <4> QED
        BY <3>2, <4>1, <4>2
    <3>4. b \in Seq(Request)
      BY <1>2, PendingAre
    <3> QED
      BY <3>3, <3>4
  <2>2. Line = a \o b /\ Line' = a \o Append(b, r)
    BY <1>3, <1>4, LineIs, LineIsPrime DEF LineOf
  <2> HIDE DEF a, b
  <2>3. a \o Append(b, r) = Append(a \o b, r)
    <3>1. Append(b, r) = b \o <<r>> /\ <<r>> \in Seq(Request)
      BY <2>1, AppendIsConcat
    <3>2. a \o b \in Seq(Request)
      BY <2>1, ConcatProperties
    <3>3. Append(a \o b, r) = (a \o b) \o <<r>>
      BY <3>2, AppendIsConcat
    <3> QED
      BY <2>1, <3>1, <3>3, ConcatAssociative
  <2> QED
    BY <2>2, <2>3
<1>6. r \notin Abstract!InLine
  <2>1. r \notin Admitted
    BY <1>1 DEF Admitted
  <2>2. Elements(Line) \subseteq Admitted
    BY LineFacts
  <2> QED
    BY <2>1, <2>2 DEF Abstract!InLine, Elements
<1>7. Len(Line) < MaxDepth
  <2>1. Line \in Seq(Request) /\ Len(Line) <= depth
    BY LineFacts
  <2>2. depth < MaxDepth /\ depth \in Nat /\ MaxDepth \in Nat
    BY MaxDepthAssumption DEF AdmitWait, TryAdmit, IInv
  <2> DEFINE n == Len(Line)
  <2>3. n \in Nat /\ n <= depth
    BY <2>1, LenProperties
  <2> HIDE DEF n
  <2>4. n < MaxDepth
    BY <2>2, <2>3
  <2> QED
    BY <2>4 DEF n
<1> QED
  BY <1>5, <1>6, <1>7 DEF Abstract!Join

\* The one who was woken was the head already.
LEMMA TakeTurnStays ==
    ASSUME IInv, NEW r \in Request, TakeTurn(r)
    PROVE  Line' = Line
<1> DEFINE f2 == [fut EXCEPT ![r] = "none"]
           w2 == Without(waiters, r)
<1>1. /\ waiters \in Seq(Request) /\ fut \in [Request -> FutState]
      /\ fut[r] = "granted" /\ r \in Elements(waiters)
      /\ waiters' = w2
  BY DEF IInv, TakeTurn, Granted, Sound
<1>2. /\ Sound(value, w2, f2, phase') /\ WakeUpNext(value, w2, f2)
      /\ Own(fut, phase) = {r} /\ Own(f2, phase') = {r}
  BY TakeTurnSound
<1>3. Line' = LineOf(w2, f2, phase')
  BY <1>1, <1>2, WakeLine, LineIsPrime
<1>4. Pending(w2, f2) = Pending(waiters, fut)
  <2>1. f2[r] = "none" /\ \A q \in Request : f2[q] = "pending" <=> fut[q] = "pending"
    BY <1>1
  <2>2. \A q \in Elements(waiters) : f2[q] = "pending" <=> fut[q] = "pending"
    BY <1>1, <2>1, ElementOfSeq, LenProperties DEF Elements
  <2> HIDE DEF f2
  <2>3. Pending(w2, f2) = Pending(waiters, f2)
    BY <1>1, <2>1, PendingWithout
  <2> QED
    BY <1>1, <2>2, <2>3, PendingSame
<1> HIDE DEF f2, w2
<1> QED
  BY <1>2, <1>3, <1>4, LineIs DEF LineOf

\* A caller that gives up leaves its place at once, if it has one behind the head.
LEMMA CancelQuits ==
    ASSUME IInv, NEW r \in Request, Cancel(r)
    PROVE  Line' = Line \/ \E i \in DOMAIN Line : Abstract!QuitWaiting(i)
<1>1. /\ Sound(value, waiters, fut, phase)
      /\ value = 1 => NonePending(fut)
      /\ waiters \in Seq(Request) /\ NoRepeat(waiters) /\ r \in Elements(waiters)
      /\ fut \in [Request -> FutState]
      /\ waiters' = waiters /\ phase' = phase
      /\ fut[r] \in {"pending", "granted"}
      /\ fut' = [fut EXCEPT ![r] = IF fut[r] = "pending" THEN "cancelled" ELSE "dropped"]
  BY DEF IInv, Cancel, CancelWait, Sound
<1>2. Own(fut', phase') = Own(fut, phase)
  BY <1>1 DEF Own
<1>3. \A q \in Elements(waiters) : q \in Request
  BY <1>1, ElementOfSeq, LenProperties DEF Elements
<1>4. CASE fut[r] = "granted"
  <2>1. PICK h : h = fut'
    OBVIOUS
  <2>2. \A q \in Elements(waiters) : h[q] = "pending" <=> fut[q] = "pending"
    BY <1>1, <1>3, <1>4, <2>1
  <2>3. waiters \in Seq(Request)
    BY <1>1
  <2>4. Pending(waiters, h) = Pending(waiters, fut)
    BY <2>2, <2>3, PendingSame
  <2> QED
    BY <1>1, <1>2, <2>1, <2>4, LineIs, LineIsPrime DEF LineOf
<1>5. CASE fut[r] = "pending"
  <2>1. PICK k \in 1..Len(waiters) : waiters[k] = r
    BY <1>1, LenProperties DEF Elements
  <2>2. PICK h : h = fut'
    OBVIOUS
  <2>3. /\ fut[waiters[k]] = "pending" /\ h[waiters[k]] # "pending"
        /\ \A q \in Elements(waiters) : q # waiters[k] =>
              (fut[q] = "pending" <=> h[q] = "pending")
    <3>1. fut'[r] = "cancelled" /\ \A q \in Request : q # r => fut'[q] = fut[q]
      BY <1>1, <1>3, <1>5
    <3> QED
      BY <1>3, <1>5, <2>1, <2>2, <3>1
  <2>4. waiters \in Seq(Request) /\ NoRepeat(waiters)
    BY <1>1
  <2> DEFINE P == Pending(waiters, fut)
  <2>5. OneLess(P, Pending(waiters, h))
    BY <2>3, <2>4, PendingDrop
  <2>6. PICK m \in 1..Len(P) : Pending(waiters, fut') = Cut(P, m)
    BY <2>2, <2>5 DEF OneLess
  <2>7. PICK o \in Request : Own(fut, phase) = {o}
    BY <1>1, <1>5 DEF Sound, NonePending
  <2>8. Line = <<o>> \o P /\ Line' = <<o>> \o Cut(P, m)
    BY <1>1, <1>2, <2>6, <2>7, FrontIs, LineIs, LineIsPrime DEF LineOf
  <2>9. P \in Seq(Request)
    BY <1>1, PendingAre
  <2> HIDE DEF P
  <2>10. m + 1 \in 2..Len(<<o>> \o P) /\ <<o>> \o Cut(P, m) = Cut(<<o>> \o P, m + 1)
    BY <2>9, CutBehind
  <2>11. Line \in Seq(Request)
    BY LineFacts
  <2>12. m + 1 \in DOMAIN Line /\ m + 1 \in 2..Len(Line) /\ Line' = Cut(Line, m + 1)
    <3>1. DOMAIN Line = 1..Len(Line)
      BY <2>11, LenProperties
    <3>2. m + 1 \in 2..Len(Line) /\ Line' = Cut(Line, m + 1)
      BY <2>8, <2>10
    <3>3. m + 1 \in 1..Len(Line)
      BY <3>2
    <3> QED
      BY <3>1, <3>2, <3>3
  <2>13. Abstract!QuitWaiting(m + 1)
    BY <2>12 DEF Abstract!QuitWaiting, Cut
  <2> QED
    BY <2>12, <2>13
<1> QED
  BY <1>1, <1>4, <1>5

\* The end of a turn: the unit goes to the next in the line.
LEMMA OwnerLeaves ==
    ASSUME IInv, NEW r \in Request, Own(fut, phase) = {r},
           NEW w, NEW f, NEW p, Sound(1, w, f, p), WakeUpNext(1, w, f),
           Pending(w, f) = Pending(waiters, fut),
           waiters' = w, phase' = p
    PROVE  Abstract!HeadLeaves
<1> DEFINE P == Pending(waiters, fut)
<1>1. Line = <<r>> \o P
  BY LineIs, FrontIs DEF LineOf
<1>2. Line' = LineOf(w, f, p)
  BY WakeLine, LineIsPrime
<1>3. Own(f, p) = {} /\ P \in Seq(Request)
  BY PendingAre DEF Sound, IInv
<1>4. Line' = P
  BY <1>2, <1>3, FrontIs, ConcatEmptySeq DEF LineOf
<1> HIDE DEF P
<1>5. <<r>> \o P # <<>> /\ Tail(<<r>> \o P) = P
  BY <1>3
<1> QED
  BY <1>1, <1>4, <1>5 DEF Abstract!HeadLeaves

LEMMA GiveUpLeaves ==
    ASSUME IInv, NEW r \in Request, GiveUp(r)
    PROVE  Line' = Line \/ Abstract!HeadLeaves
<1> DEFINE f2 == [fut EXCEPT ![r] = "none"]
           w2 == Without(waiters, r)
<1>1. /\ Sound(value, waiters, fut, phase)
      /\ waiters \in Seq(Request) /\ fut \in [Request -> FutState]
      /\ phase \in [Request -> Phase]
      /\ fut[r] \in {"cancelled", "dropped"} /\ r \in Elements(waiters)
      /\ waiters' = w2 /\ phase[r] = "waiting" /\ phase' = [phase EXCEPT ![r] = "out"]
  BY DEF IInv, GiveUp, Cancelled, Sound
<1>2. Sound(Freed(r), w2, f2, phase') /\ WakeUpNext(Freed(r), w2, f2)
  BY GiveUpSound
<1>3. Pending(w2, f2) = Pending(waiters, fut)
  <2>1. f2[r] = "none" /\ \A q \in Request : f2[q] = "pending" <=> fut[q] = "pending"
    BY <1>1
  <2>2. \A q \in Elements(waiters) : f2[q] = "pending" <=> fut[q] = "pending"
    BY <1>1, <2>1, ElementOfSeq, LenProperties DEF Elements
  <2> HIDE DEF f2
  <2>3. Pending(w2, f2) = Pending(waiters, f2)
    BY <1>1, <2>1, PendingWithout
  <2> QED
    BY <1>1, <2>2, <2>3, PendingSame
<1>4. CASE fut[r] = "dropped"
  <2>1. value = 0 /\ Own(fut, phase) = {r}
    BY <1>1, <1>4, SoleOwner DEF Own
  <2>2. Freed(r) = 1
    BY <1>4, <2>1 DEF Freed
  <2> HIDE DEF f2, w2
  <2> QED
    BY <1>1, <1>2, <1>3, <2>1, <2>2, OwnerLeaves
<1>5. CASE fut[r] = "cancelled"
  <2>1. Own(f2, phase') = Own(fut, phase)
    BY <1>1, <1>5 DEF Own
  <2> HIDE DEF f2, w2
  <2>2. Line' = LineOf(w2, f2, phase')
    BY <1>1, <1>2, WakeLine, LineIsPrime
  <2> QED
    BY <1>3, <2>1, <2>2, LineIs DEF LineOf
<1> QED
  BY <1>1, <1>4, <1>5

LEMMA FinishLeaves ==
    ASSUME IInv, NEW r \in Request, Finish(r)
    PROVE  Abstract!HeadLeaves
<1>1. /\ Sound(1, waiters, fut, phase') /\ WakeUpNext(1, waiters, fut)
      /\ Own(fut, phase) = {r}
  BY FinishSound
<1>2. waiters' = waiters
  BY DEF Finish, Release
<1> QED
  BY <1>1, <1>2, OwnerLeaves

\* Every step of the queue is a step of the abstract line, or none.
LEMMA StepInOrder ==
    ASSUME IInv, [Next]_vars
    PROVE  [Abstract!Next]_Line
<1> SUFFICES Line' = Line \/ Abstract!Next
  OBVIOUS
<1>1. ASSUME NEW r \in Request, AdmitNow(r) PROVE Abstract!Next
  BY <1>1, AdmitNowJoins DEF Abstract!Next
<1>2. ASSUME NEW r \in Request, AdmitWait(r) PROVE Abstract!Next
  BY <1>2, AdmitWaitJoins DEF Abstract!Next
<1>3. ASSUME NEW r \in Request, TakeTurn(r) PROVE Line' = Line
  BY <1>3, TakeTurnStays
<1>4. ASSUME NEW r \in Request, Cancel(r) PROVE Line' = Line \/ Abstract!Next
  BY <1>4, CancelQuits DEF Abstract!Next
<1>5. ASSUME NEW r \in Request, GiveUp(r) PROVE Line' = Line \/ Abstract!Next
  BY <1>5, GiveUpLeaves DEF Abstract!Next
<1>6. ASSUME NEW r \in Request, Finish(r) PROVE Abstract!Next
  BY <1>6, FinishLeaves DEF Abstract!Next
<1>7. CASE UNCHANGED vars
  BY <1>7, LineIs, LineIsPrime DEF vars
<1> QED
  BY <1>1, <1>2, <1>3, <1>4, <1>5, <1>6, <1>7 DEF Next

LEMMA NextInOrder == IInv /\ [Next]_vars => [Abstract!Next]_Line
BY StepInOrder

LEMMA InitInOrder == Init => Abstract!Init
<1> SUFFICES ASSUME Init PROVE Line = <<>>
  BY DEF Abstract!Init
<1>1. waiters = <<>> /\ Own(fut, phase) = {}
  BY DEF Init, QueueInit, Own
<1>2. Pending(<<>>, fut) = <<>>
  BY PendingEmpty, Zenon
<1>3. Pending(waiters, fut) = <<>>
  BY <1>1, <1>2, Zenon
<1> QED
  BY <1>1, <1>3, LineIs, FrontIs DEF LineOf

\* The semaphore, its deque and the counter implement the line of GpuSlot:
\* callers get the GPU first come, first served, at most MAX_QUEUE of them
\* stand in the line, and a cancelled one leaves it without disturbing the
\* others, whatever the order of releases, wake-ups and cancellations.
THEOREM FirstComeFirstServed == Spec => ServedInOrder
BY InitInOrder, NextInOrder, Invariance, PTL DEF Spec, ServedInOrder, Abstract!InOrder
=============================================================================
