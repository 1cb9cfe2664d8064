-------------------------- MODULE SidecarPipe_proofs --------------------------
(***************************************************************************)
(* Proofs about an engine and its sidecars, for any calls, any number of   *)
(* sidecars and frames and any size of the pipe, when calls follow one     *)
(* another (Overlap is FALSE): no call gets frames of another one, a       *)
(* response that ends as complete is complete, and a dead sidecar costs    *)
(* one call.                                                               *)
(*                                                                         *)
(* None of the three is inductive: each says what a call reads next or has *)
(* read, and rests on what is in the pipes and in the sidecar.  IInv says  *)
(* that all of it is about the one call under way, and that nothing is     *)
(* left over when there is none.                                           *)
(***************************************************************************)
EXTENDS SidecarPipe, SequenceTheorems, TLAPS

\* Calls follow one another.
OneCall ==
    \A c, d \in Call : pc[c] # "idle" /\ pc[d] # "idle" => c = d

\* Only the engine's own process is used, and those to come are untouched.
ProcsInOrder ==
    /\ current <= spawned
    /\ \A c \in Call : pc[c] # "idle" => current # 0 /\ on[c] = current
    /\ \A n \in Proc : n > spawned => life[n] = "unborn"
    /\ \A n \in Proc : n <= spawned => life[n] # "unborn"
    /\ \A n \in Proc : lost[n] <= 1
    /\ \A n \in Proc : n = current \/ n > spawned => lost[n] = 0

Quiet(n) == inbox[n] = <<>> /\ job[n] = {} /\ outbox[n] = <<>>

\* Nothing is left over from an earlier call.
QuietElsewhere ==
    \A n \in Proc : (\A c \in Call : pc[c] = "read" => on[c] # n) => Quiet(n)

Finished(s) == s # <<>> /\ s[Len(s)].tag # "A"
AudioIn(s) == IF Finished(s) THEN Len(s) - 1 ELSE Len(s)

\* The pipe holds the call's own frames, audio but for the last one.
Frames(c, s) ==
    \A i \in 1..Len(s) : s[i].of = c /\ (i < Len(s) => s[i].tag = "A")

\* Where the request is: written, being worked on, or answered or lost.
Place(c, n) ==
    \/ /\ inbox[n] = <<c>> /\ job[n] = {} /\ outbox[n] = <<>>
       /\ life[n] = "up"
       /\ got[c] = 0 /\ made[c] = 0
    \/ /\ inbox[n] = <<>> /\ job[n] = {c}
       /\ life[n] = "up"
       /\ ~Finished(outbox[n])
    \/ /\ inbox[n] = <<>> /\ job[n] = {}
       /\ Finished(outbox[n]) \/ life[n] # "up"

\* What is read and what is still in the pipe is what was made.
Response(c, n) ==
    /\ Frames(c, outbox[n])
    /\ got[c] + AudioIn(outbox[n]) = made[c]
    /\ made[c] <= due[c]
    /\ Finished(outbox[n]) /\ outbox[n][Len(outbox[n])].tag = "E" => made[c] = due[c]

Answers ==
    \A c \in Call : pc[c] = "read" => Place(c, on[c]) /\ Response(c, on[c])

\* A call that has yet to write its request has nothing of an answer.
Unasked ==
    \A c \in Call : pc[c] = "write" => got[c] = 0 /\ made[c] = 0 /\ due[c] = 0

Results ==
    /\ \A c \in Call : pc[c] # "idle" => result[c] = "none"
    /\ NeverTruncated

IInv ==
    /\ TypeOK
    /\ OneCall
    /\ ProcsInOrder
    /\ QuietElsewhere
    /\ Answers
    /\ Unasked
    /\ Results


-----------------------------------------------------------------------------
LEMMA InitIInv == Init => IInv
<1> SUFFICES ASSUME Init PROVE IInv
  OBVIOUS
<1> USE PipeAssumption DEF Init, Proc
<1>1. TypeOK
  BY DEF TypeOK, Frame
<1>2. OneCall /\ ProcsInOrder /\ QuietElsewhere
  BY DEF OneCall, ProcsInOrder, QuietElsewhere, Quiet
<1>3. Answers /\ Unasked /\ Results
  BY DEF Answers, Unasked, Results, NeverTruncated
<1> QED
  BY <1>1, <1>2, <1>3 DEF IInv

\* What the invariant says of the call under way.
LEMMA UnderWay ==
    ASSUME IInv, NEW c \in Call, pc[c] # "idle"
    PROVE  /\ on[c] = current /\ current \in Proc /\ current <= spawned
           /\ \A d \in Call : d # c => pc[d] = "idle"
           /\ pc[c] = "write" => \A n \in Proc : Quiet(n)
           /\ \A n \in Proc : n # current => Quiet(n)
           /\ pc[c] = "read" => Place(c, current) /\ Response(c, current)
           /\ result[c] = "none"
<1> USE PipeAssumption DEF IInv
<1>1. on[c] = current /\ current # 0 /\ current <= spawned
  BY DEF ProcsInOrder
<1>2. current \in Proc
  BY <1>1 DEF TypeOK, Proc
<1>3. \A d \in Call : d # c => pc[d] = "idle"
  BY DEF OneCall
<1>4. pc[c] = "write" => \A n \in Proc : Quiet(n)
  BY <1>3 DEF QuietElsewhere
<1>5. \A n \in Proc : n # current => Quiet(n)
  BY <1>1, <1>3 DEF QuietElsewhere
<1>6. pc[c] = "read" => Place(c, current) /\ Response(c, current)
  BY <1>1 DEF Answers
<1>7. result[c] = "none"
  BY DEF Results
<1> QED
  BY <1>1, <1>2, <1>3, <1>4, <1>5, <1>6, <1>7

-----------------------------------------------------------------------------
(* A call begins                                                           *)

LEMMA BeginKeeps ==
    ASSUME IInv, ~Overlap, NEW c \in Call, NEW n \in Proc, Begin(c, n),
           current' = n, spawned' \in 0..MaxProc, n <= spawned',
           life' \in [Proc -> {"unborn", "up", "dying", "dead"}],
           \A m \in Proc : m > spawned' => life'[m] = "unborn" /\ lost[m] = 0,
           \A m \in Proc : m <= spawned' => life'[m] # "unborn",
           lost[n] = 0,
           UNCHANGED <<inbox, outbox, job, lost>>
    PROVE  IInv'
<1> USE PipeAssumption DEF IInv
<1>1. /\ pc' = [pc EXCEPT ![c] = "write"]
      /\ on' = [on EXCEPT ![c] = n]
      /\ got' = [got EXCEPT ![c] = 0]
      /\ due' = [due EXCEPT ![c] = 0]
      /\ made' = [made EXCEPT ![c] = 0]
      /\ result' = [result EXCEPT ![c] = "none"]
      /\ \A d \in Call : pc[d] = "idle"
  BY DEF Begin
<1>2. TypeOK'
  <2>1. /\ pc' \in [Call -> {"idle", "write", "read"}]
        /\ on' \in [Call -> Proc]
        /\ result' \in [Call -> {"none", "ok", "error", "broken"}]
    BY <1>1 DEF TypeOK
  <2>2. /\ got' \in [Call -> Nat]
        /\ due' \in [Call -> 0..MaxFrame] /\ made' \in [Call -> 0..MaxFrame]
    BY <1>1 DEF TypeOK
  <2>3. current' \in 0..MaxProc
    BY DEF Proc
  <2> QED
    BY <2>1, <2>2, <2>3 DEF TypeOK
<1>3. OneCall' /\ Unasked'
  BY <1>1 DEF OneCall, Unasked, TypeOK
<1>4. ProcsInOrder'
  <2>1. \A d \in Call : pc'[d] # "idle" => d = c
    BY <1>1 DEF TypeOK
  <2>2. on'[c] = n /\ n # 0
    BY <1>1 DEF TypeOK, Proc
  <2>3. \A m \in Proc : m = current' \/ m > spawned' => lost'[m] = 0
    OBVIOUS
  <2>4. \A m \in Proc : lost'[m] <= 1
    BY DEF ProcsInOrder
  <2> QED
    BY <2>1, <2>2, <2>3, <2>4 DEF ProcsInOrder
<1>5. QuietElsewhere'
  BY <1>1 DEF QuietElsewhere, Quiet, TypeOK
<1>6. Answers'
  BY <1>1 DEF Answers, TypeOK
<1>7. Results'
  BY <1>1 DEF Results, NeverTruncated, TypeOK
<1> QED
  BY <1>2, <1>3, <1>4, <1>5, <1>6, <1>7

LEMMA BeginStep ==
    ASSUME IInv, ~Overlap, NEW c \in Call, Reuse(c) \/ Spawn(c)
    PROVE  IInv'
<1> USE PipeAssumption DEF IInv
<1>1. CASE Reuse(c)
  <2>1. current \in Proc /\ Begin(c, current)
        /\ UNCHANGED <<current, spawned, life, inbox, outbox, job, lost>>
    BY <1>1 DEF Reuse, NotReaped, TypeOK, Proc
  <2>2. spawned \in 0..MaxProc /\ current <= spawned /\ lost[current] = 0
    BY <2>1 DEF TypeOK, ProcsInOrder
  <2> QED
    BY <2>1, <2>2, BeginKeeps DEF TypeOK, ProcsInOrder
<1>2. CASE Spawn(c)
  <2> DEFINE n == spawned + 1
  <2>1. /\ n \in Proc /\ Begin(c, n) /\ current' = n /\ spawned' = n
        /\ life' = [life EXCEPT ![n] = "up"]
        /\ UNCHANGED <<inbox, outbox, job, lost>>
    BY <1>2 DEF Spawn, TypeOK, Proc
  <2>2. /\ spawned \in Nat /\ n > spawned
        /\ \A m \in Proc : m > n => m > spawned
        /\ \A m \in Proc : m <= n => m = n \/ m <= spawned
        /\ n \in 0..MaxProc
    BY <2>1 DEF TypeOK, Proc
  <2> HIDE DEF n
  <2>3. life' \in [Proc -> {"unborn", "up", "dying", "dead"}]
    BY <2>1 DEF TypeOK
  <2>4. \A m \in Proc : m > n => life'[m] = "unborn" /\ lost[m] = 0
    <3> SUFFICES ASSUME NEW m \in Proc, m > n
                 PROVE  life'[m] = "unborn" /\ lost[m] = 0
      OBVIOUS
    <3>1. m > spawned /\ m # n
      BY <2>2 DEF Proc
    <3> QED
      BY <2>1, <3>1 DEF TypeOK, ProcsInOrder
  <2>5. \A m \in Proc : m <= n => life'[m] # "unborn"
    BY <2>1, <2>2 DEF TypeOK, ProcsInOrder
  <2>6. lost[n] = 0
    BY <2>1, <2>2 DEF ProcsInOrder
  <2>7. n <= n
    BY <2>2
  <2> QED
    BY <2>1, <2>2, <2>3, <2>4, <2>5, <2>6, <2>7, BeginKeeps
<1> QED
  BY <1>1, <1>2

-----------------------------------------------------------------------------
(* Frames in the pipe                                                      *)

\* Reading takes an audio frame, or the last frame of the response.
LEMMA HeadFrame ==
    ASSUME NEW c \in Call, NEW s \in Seq(Frame), s # <<>>, Frames(c, s)
    PROVE  /\ Tail(s) \in Seq(Frame) /\ Frames(c, Tail(s))
           /\ Len(Tail(s)) = Len(s) - 1
           /\ Head(s).of = c
           /\ Head(s).tag = "A" => /\ Finished(Tail(s)) <=> Finished(s)
                                   /\ AudioIn(Tail(s)) = AudioIn(s) - 1
                                   /\ Finished(s) =>
                                        Tail(s)[Len(Tail(s))] = s[Len(s)]
           /\ Head(s).tag # "A" => /\ Tail(s) = <<>>
                                   /\ AudioIn(s) = 0
                                   /\ Finished(s) /\ s[Len(s)] = Head(s)
<1>1. /\ Tail(s) \in Seq(Frame) /\ Len(Tail(s)) = Len(s) - 1 /\ Len(s) \in Nat \ {0}
      /\ \A i \in 1..Len(Tail(s)) : Tail(s)[i] = s[i + 1]
      /\ Head(s) = s[1]
  BY HeadTailProperties, LenProperties, EmptySeq
<1>2. Tail(s) = <<>> <=> Len(s) = 1
  <2>1. Tail(s) = <<>> <=> Len(Tail(s)) = 0
    BY <1>1, EmptySeq
  <2> QED
    BY <1>1, <2>1
<1>3. Head(s).of = c /\ Frames(c, Tail(s))
  BY <1>1 DEF Frames
<1>4. ASSUME Head(s).tag = "A"
      PROVE  /\ Finished(Tail(s)) <=> Finished(s)
             /\ AudioIn(Tail(s)) = AudioIn(s) - 1
             /\ Finished(s) => Tail(s)[Len(Tail(s))] = s[Len(s)]
  <2>1. CASE Len(s) = 1
    <3>1. Tail(s) = <<>> /\ ~Finished(s)
      BY <1>2, <1>1, <1>4, <2>1 DEF Finished
    <3> QED
      BY <1>1, <2>1, <3>1 DEF Finished, AudioIn
  <2>2. CASE Len(s) # 1
    <3>1. Len(s) - 1 \in 1..Len(Tail(s))
      BY <1>1, <2>2
    <3>2. Tail(s) # <<>> /\ Tail(s)[Len(Tail(s))] = s[Len(s)]
      BY <1>2, <1>1, <2>2, <3>1
    <3>3. Finished(Tail(s)) <=> Finished(s)
      BY <3>2 DEF Finished
    <3> QED
      BY <1>1, <3>2, <3>3 DEF AudioIn
  <2> QED
    BY <2>1, <2>2
<1>5. ASSUME Head(s).tag # "A"
      PROVE  Tail(s) = <<>> /\ AudioIn(s) = 0 /\ Finished(s) /\ s[Len(s)] = Head(s)
  <2>1. Len(s) = 1
    BY <1>1, <1>5 DEF Frames
  <2> QED
    BY <1>2, <1>1, <1>5, <2>1 DEF Finished, AudioIn
<1> QED
  BY <1>1, <1>3, <1>4, <1>5

\* Writing adds to a response that is not finished.
LEMMA AppendFrame ==
    ASSUME NEW c \in Call, NEW s \in Seq(Frame), Frames(c, s), ~Finished(s),
           NEW tag \in {"A", "X", "E"}
    PROVE  LET t == Append(s, [tag |-> tag, of |-> c])
           IN  /\ t \in Seq(Frame) /\ Frames(c, t)
               /\ Len(t) = Len(s) + 1 /\ t[Len(t)].tag = tag
               /\ tag = "A" => ~Finished(t) /\ AudioIn(t) = AudioIn(s) + 1
               /\ tag # "A" => Finished(t) /\ AudioIn(t) = AudioIn(s)
<1> DEFINE f == [tag |-> tag, of |-> c]
           t == Append(s, f)
<1>1. f \in Frame /\ f.of = c /\ f.tag = tag
  BY DEF Frame
<1> HIDE DEF f
<1>2. /\ t \in Seq(Frame) /\ Len(t) = Len(s) + 1 /\ Len(s) \in Nat
      /\ \A i \in 1..Len(s) : t[i] = s[i]
      /\ t[Len(t)] = f /\ t # <<>>
  BY <1>1, AppendProperties
<1> HIDE DEF t
<1>3. \A i \in 1..Len(s) : s[i].tag = "A"
  <2> SUFFICES ASSUME NEW i \in 1..Len(s) PROVE s[i].tag = "A"
    OBVIOUS
  <2>1. CASE i = Len(s)
    BY <2>1 DEF Finished
  <2>2. CASE i # Len(s)
    BY <1>2, <2>2 DEF Frames
  <2> QED
    BY <2>1, <2>2
<1>4. Frames(c, t)
  <2> SUFFICES ASSUME NEW i \in 1..Len(t)
               PROVE  t[i].of = c /\ (i < Len(t) => t[i].tag = "A")
    BY DEF Frames
  <2>1. CASE i = Len(t)
    BY <1>1, <1>2, <2>1
  <2>2. CASE i # Len(t)
    <3>1. i \in 1..Len(s)
      BY <1>2, <2>2
    <3> QED
      BY <1>2, <1>3, <3>1 DEF Frames
  <2> QED
    BY <2>1, <2>2
<1>5. Finished(t) <=> tag # "A"
  BY <1>1, <1>2 DEF Finished
<1>6. /\ tag = "A" => AudioIn(t) = AudioIn(s) + 1
      /\ tag # "A" => AudioIn(t) = AudioIn(s)
  BY <1>2, <1>5 DEF AudioIn
<1> QED
  BY <1>1, <1>2, <1>4, <1>5, <1>6 DEF t, f

-----------------------------------------------------------------------------
(* The call under way                                                      *)

\* A step of the call or of its sidecar in mid-response.
LEMMA ExchangeKeeps ==
    ASSUME IInv, NEW c \in Call, pc[c] = "read", TypeOK',
           UNCHANGED <<current, spawned, pc, on, result, lost>>,
           \A n \in Proc : life'[n] = "unborn" <=> life[n] = "unborn",
           \A n \in Proc : n # current =>
               inbox'[n] = inbox[n] /\ job'[n] = job[n] /\ outbox'[n] = outbox[n],
           \A d \in Call : d # c =>
               got'[d] = got[d] /\ made'[d] = made[d] /\ due'[d] = due[d],
           Place(c, current)', Response(c, current)'
    PROVE  IInv'
<1>1. /\ on[c] = current /\ \A d \in Call : d # c => pc[d] = "idle"
      /\ result[c] = "none"
  BY UnderWay
<1> USE DEF IInv
<1>2. OneCall'
  BY DEF OneCall
<1>3. ProcsInOrder'
  BY DEF ProcsInOrder
<1>4. QuietElsewhere'
  BY <1>1 DEF QuietElsewhere, Quiet
<1>5. Answers' /\ Unasked'
  BY <1>1 DEF Answers, Unasked
<1>6. Results'
  BY <1>1 DEF Results, NeverTruncated
<1> QED
  BY <1>2, <1>3, <1>4, <1>5, <1>6

LEMMA ReadAudioStep ==
    ASSUME IInv, NEW c \in Call, ReadAudio(c)
    PROVE  IInv'
<1> DEFINE s == outbox[current]
<1>1. s = outbox[current]
  OBVIOUS
<1> HIDE DEF s
<1>2. /\ pc[c] = "read" /\ on[c] = current /\ current \in Proc
      /\ Place(c, current) /\ Response(c, current)
  BY UnderWay DEF ReadAudio, NextFrame
<1>3. /\ s # <<>> /\ Head(s).tag = "A"
      /\ outbox' = [outbox EXCEPT ![current] = Tail(s)]
      /\ got' = [got EXCEPT ![c] = got[c] + 1]
      /\ UNCHANGED <<current, spawned, pc, on, result, lost, life, inbox, job, due, made>>
  BY <1>1, <1>2 DEF ReadAudio, NextFrame
<1>4. s \in Seq(Frame) /\ Frames(c, s) /\ Len(s) <= PipeFrames
  BY <1>1, <1>2 DEF IInv, TypeOK, Response
<1>5. /\ outbox \in [Proc -> Seq(Frame)] /\ got \in [Call -> Nat]
      /\ \A n \in Proc : Len(outbox[n]) <= PipeFrames
  BY DEF IInv, TypeOK
<1>6. /\ Tail(s) \in Seq(Frame) /\ Frames(c, Tail(s)) /\ Len(Tail(s)) = Len(s) - 1
      /\ Finished(Tail(s)) <=> Finished(s)
      /\ AudioIn(Tail(s)) = AudioIn(s) - 1
      /\ Finished(s) => Tail(s)[Len(Tail(s))] = s[Len(s)]
  BY <1>3, <1>4, HeadFrame
<1>7. Len(s) \in Nat
  BY <1>4, LenProperties
<1>8. /\ outbox'[current] = Tail(s) /\ got'[c] = got[c] + 1
      /\ outbox' \in [Proc -> Seq(Frame)]
      /\ got' \in [Call -> Nat]
  BY <1>2, <1>3, <1>5, <1>6
<1>9. \A n \in Proc : Len(outbox'[n]) <= PipeFrames
  BY <1>1, <1>2, <1>3, <1>4, <1>5, <1>6, <1>7, PipeAssumption
<1>10. TypeOK'
  BY <1>3, <1>8, <1>9 DEF IInv, TypeOK
<1>11. Place(c, current)'
  BY <1>1, <1>2, <1>3, <1>6, <1>8 DEF Place
<1>12. AudioIn(s) \in Int /\ got[c] \in Nat /\ made[c] \in Nat
  BY <1>4, <1>5, <1>6, <1>7 DEF AudioIn, IInv, TypeOK
<1>13. got'[c] + AudioIn(outbox'[current]) = made'[c]
  BY <1>1, <1>2, <1>3, <1>6, <1>8, <1>12 DEF Response
<1>14. Response(c, current)'
  BY <1>1, <1>2, <1>3, <1>6, <1>8, <1>13 DEF Response
<1> QED
  BY <1>2, <1>3, <1>5, <1>10, <1>11, <1>14, ExchangeKeeps

\* A call ends and leaves nothing behind.
LEMMA EndKeeps ==
    ASSUME IInv, NEW c \in Call, pc[c] # "idle",
           NEW how \in {"ok", "error", "broken"}, End(c, how), TypeOK',
           UNCHANGED <<spawned, on, got, due, made>>,
           how = "ok" => got[c] = due[c] /\ made[c] = due[c],
           \A n \in Proc : Quiet(n)',
           \A n \in Proc : life'[n] = "unborn" <=> life[n] = "unborn",
           \/ UNCHANGED <<current, lost>>
           \/ current' = 0 /\ lost' = [lost EXCEPT ![current] = @ + 1]
    PROVE  IInv'
<1>1. /\ on[c] = current /\ \A d \in Call : d # c => pc[d] = "idle"
      /\ current \in Proc /\ current <= spawned
  BY UnderWay
<1>2. /\ pc' = [pc EXCEPT ![c] = "idle"] /\ result' = [result EXCEPT ![c] = how]
  BY DEF End
<1> USE DEF IInv
<1>3. \A d \in Call : pc'[d] = "idle"
  BY <1>1, <1>2 DEF TypeOK
<1>4. OneCall' /\ QuietElsewhere' /\ Answers' /\ Unasked'
  BY <1>3 DEF OneCall, QuietElsewhere, Answers, Unasked
<1>5. ProcsInOrder'
  <2>1. CASE UNCHANGED <<current, lost>>
    BY <1>3, <2>1 DEF ProcsInOrder
  <2>2. CASE current' = 0 /\ lost' = [lost EXCEPT ![current] = @ + 1]
    <3>1. current' <= spawned' /\ \A n \in Proc : n # 0
      BY <2>2, PipeAssumption DEF TypeOK, Proc
    <3>2. ~(current > spawned) /\ lost[current] = 0
      BY <1>1, PipeAssumption DEF ProcsInOrder, TypeOK, Proc
    <3>3. \A n \in Proc : lost'[n] = IF n = current THEN 1 ELSE lost[n]
      BY <1>1, <2>2, <3>2 DEF TypeOK
    <3>4. \A n \in Proc : lost'[n] <= 1
      BY <3>3 DEF ProcsInOrder
    <3>5. \A n \in Proc : n = current' \/ n > spawned' => lost'[n] = 0
      BY <2>2, <3>1, <3>2, <3>3 DEF ProcsInOrder
    <3> QED
      BY <1>3, <3>1, <3>4, <3>5 DEF ProcsInOrder
  <2> QED
    BY <2>1, <2>2
<1>6. Results'
  BY <1>2, <1>3 DEF Results, NeverTruncated, TypeOK
<1> QED
  BY <1>4, <1>5, <1>6

\* The end marker or the error frame was the last thing in the pipes.
LEMMA ReadLastStep ==
    ASSUME IInv, NEW c \in Call, ReadEnd(c) \/ ReadError(c)
    PROVE  IInv'
<1> DEFINE s == outbox[current]
<1>1. s = outbox[current]
  OBVIOUS
<1> HIDE DEF s
<1>2. /\ pc[c] = "read" /\ on[c] = current /\ current \in Proc
      /\ Place(c, current) /\ Response(c, current)
      /\ \A n \in Proc : n # current => Quiet(n)
  BY UnderWay DEF ReadEnd, ReadError, NextFrame
<1>3. PICK how \in {"ok", "error"} :
        /\ End(c, how)
        /\ s # <<>> /\ Head(s).tag = (IF how = "ok" THEN "E" ELSE "X")
        /\ outbox' = [outbox EXCEPT ![current] = Tail(s)]
        /\ UNCHANGED <<current, spawned, on, got, lost, life, inbox, job, due, made>>
  BY <1>1, <1>2 DEF ReadEnd, ReadError, NextFrame
<1>4. s \in Seq(Frame) /\ Frames(c, s)
  BY <1>1, <1>2 DEF IInv, TypeOK, Response
<1>5. /\ Tail(s) = <<>> /\ AudioIn(s) = 0 /\ Finished(s) /\ s[Len(s)] = Head(s)
  BY <1>3, <1>4, HeadFrame
<1>6. /\ outbox \in [Proc -> Seq(Frame)]
      /\ pc \in [Call -> {"idle", "write", "read"}]
      /\ result \in [Call -> {"none", "ok", "error", "broken"}]
      /\ got[c] \in Nat
  BY DEF IInv, TypeOK
<1>7. inbox[current] = <<>> /\ job[current] = {}
  BY <1>1, <1>2, <1>3, <1>5 DEF Place
<1>8. \A n \in Proc : Quiet(n)'
  BY <1>2, <1>3, <1>5, <1>6, <1>7 DEF Quiet
<1>9. how = "ok" => got[c] = due[c] /\ made[c] = due[c]
  BY <1>1, <1>2, <1>3, <1>5, <1>6 DEF Response
<1>10. TypeOK'
  <2>1. /\ pc' \in [Call -> {"idle", "write", "read"}]
        /\ result' \in [Call -> {"none", "ok", "error", "broken"}]
    BY <1>3, <1>6 DEF End
  <2>2. Tail(s) \in Seq(Frame)
    BY <1>3, <1>4, HeadFrame
  <2>3. outbox' \in [Proc -> Seq(Frame)]
    BY <1>3, <1>6, <2>2
  <2>4. \A n \in Proc : Len(outbox'[n]) <= PipeFrames
    BY <1>8, EmptySeq, PipeAssumption DEF Quiet
  <2> QED
    BY <1>3, <2>1, <2>4, <2>3 DEF IInv, TypeOK
<1> QED
  BY <1>2, <1>3, <1>8, <1>9, <1>10, EndKeeps

\* A sidecar that is lost takes its pipes with it.
LEMMA BrokenStep ==
    ASSUME IInv, NEW c \in Call, WriteFails(c) \/ ReadEof(c)
    PROVE  IInv'
<1>1. /\ pc[c] # "idle" /\ on[c] = current /\ current \in Proc
      /\ pc[c] = "write" => \A n \in Proc : Quiet(n)
      /\ pc[c] = "read" => Place(c, current)
      /\ \A n \in Proc : n # current => Quiet(n)
  BY UnderWay DEF WriteFails, ReadEof
<1>2. /\ Broken(c) /\ UNCHANGED <<spawned, on, got, outbox, due, made>>
      /\ life[current] # "up"
      /\ pc[c] = "write" \/ (pc[c] = "read" /\ outbox[current] = <<>>)
  BY <1>1 DEF WriteFails, ReadEof
<1>3. Quiet(current)
  BY <1>1, <1>2 DEF Place, Quiet
<1>4. /\ End(c, "broken") /\ current' = 0
      /\ lost' = [lost EXCEPT ![current] = @ + 1]
  BY <1>1, <1>2 DEF Broken, Close
<1>5. /\ inbox' = inbox /\ job' = job
      /\ life' \in [Proc -> {"unborn", "up", "dying", "dead"}]
      /\ \A n \in Proc : life'[n] = "unborn" <=> life[n] = "unborn"
  <2>1. CASE NotReaped(current)
    <3>1. /\ life' = [life EXCEPT ![current] = "dying"]
          /\ inbox' = [inbox EXCEPT ![current] = <<>>]
          /\ job' = [job EXCEPT ![current] = {}]
          /\ life[current] = "dying"
      BY <1>2, <2>1 DEF Broken, Close, NotReaped
    <3> QED
      BY <1>1, <1>3, <3>1 DEF Quiet, IInv, TypeOK
  <2>2. CASE ~NotReaped(current)
    BY <1>2, <2>2 DEF Broken, Close, IInv, TypeOK
  <2> QED
    BY <2>1, <2>2
<1>6. \A n \in Proc : Quiet(n)'
  BY <1>1, <1>2, <1>3, <1>5 DEF Quiet
<1>7. TypeOK'
  <2>1. /\ pc' \in [Call -> {"idle", "write", "read"}]
        /\ result' \in [Call -> {"none", "ok", "error", "broken"}]
        /\ lost' \in [Proc -> Nat]
    BY <1>1, <1>4 DEF End, IInv, TypeOK
  <2>2. current' \in 0..MaxProc
    BY <1>4, PipeAssumption
  <2> QED
    BY <1>2, <1>5, <2>1, <2>2 DEF IInv, TypeOK
<1> QED
  BY <1>1, <1>2, <1>4, <1>5, <1>6, <1>7, EndKeeps

LEMMA WriteRequestStep ==
    ASSUME IInv, NEW c \in Call, WriteRequest(c)
    PROVE  IInv'
<1>1. /\ on[c] = current /\ current \in Proc /\ \A n \in Proc : Quiet(n)
      /\ \A d \in Call : d # c => pc[d] = "idle"
      /\ pc[c] = "write" /\ result[c] = "none"
  BY UnderWay DEF WriteRequest
<1>2. Append(<<>>, c) = <<c>> /\ inbox[current] = <<>>
  BY <1>1 DEF Quiet
<1>3. /\ life[current] = "up"
      /\ inbox' = [inbox EXCEPT ![current] = <<c>>]
      /\ pc' = [pc EXCEPT ![c] = "read"]
      /\ UNCHANGED <<current, spawned, on, got, result, lost, life, outbox, job, due, made>>
  BY <1>2, <1>1 DEF WriteRequest
<1> USE DEF IInv
<1>4. TypeOK'
  <2>1. <<c>> \in Seq(Call)
    OBVIOUS
  <2> QED
    BY <1>1, <1>3, <2>1 DEF TypeOK
<1>5. pc'[c] = "read" /\ \A d \in Call : d # c => pc'[d] = pc[d]
  BY <1>3 DEF TypeOK
<1>6. OneCall' /\ Unasked' /\ ProcsInOrder'
  BY <1>1, <1>3, <1>5 DEF OneCall, Unasked, ProcsInOrder
<1>7. inbox'[current] = <<c>> /\ \A n \in Proc : n # current => inbox'[n] = inbox[n]
  BY <1>1, <1>3 DEF TypeOK
<1>8. QuietElsewhere'
  <2> SUFFICES ASSUME NEW n \in Proc, n # current PROVE Quiet(n)'
    BY <1>1, <1>3, <1>5 DEF QuietElsewhere
  <2> QED
    BY <1>1, <1>3, <1>7 DEF Quiet
<1>9. Answers'
  <2>1. got[c] = 0 /\ made[c] = 0 /\ due[c] = 0
    BY <1>1 DEF Unasked
  <2>2. Place(c, current)'
    BY <1>1, <1>3, <1>7, <2>1 DEF Place, Quiet
  <2>3. outbox[current] = <<>> /\ Len(<<>>) = 0 /\ ~Finished(<<>>)
    BY <1>1 DEF Quiet, Finished
  <2>4. Response(c, current)'
    BY <1>3, <2>1, <2>3 DEF Response, Frames, AudioIn, Finished
  <2> QED
    BY <1>1, <1>3, <1>5, <2>2, <2>4 DEF Answers
<1>10. Results'
  BY <1>1, <1>3, <1>5 DEF Results, NeverTruncated
<1> QED
  BY <1>4, <1>6, <1>8, <1>9, <1>10

-----------------------------------------------------------------------------
(* The sidecar                                                             *)

\* Who works, works for the call under way.
LEMMA WorksForReader ==
    ASSUME IInv, NEW n \in Proc, inbox[n] # <<>> \/ job[n] # {}
    PROVE  /\ n = current
           /\ \E c \in Call : /\ pc[c] = "read" /\ on[c] = n
                              /\ Place(c, n) /\ Response(c, n)
                              /\ inbox[n] # <<>> => inbox[n] = <<c>>
                              /\ job[n] \subseteq {c}
<1>1. PICK c \in Call : pc[c] = "read" /\ on[c] = n
  BY DEF IInv, QuietElsewhere, Quiet
<1>2. n = current /\ Place(c, n) /\ Response(c, n)
  BY <1>1, UnderWay
<1> QED
  BY <1>1, <1>2 DEF Place

LEMMA TakeRequestStep ==
    ASSUME IInv, NEW n \in Proc, TakeRequest(n)
    PROVE  IInv'
<1>1. PICK c \in Call :
        /\ n = current /\ pc[c] = "read" /\ on[c] = n
        /\ Place(c, n) /\ Response(c, n)
        /\ inbox[n] = <<c>>
  BY WorksForReader DEF TakeRequest
<1>2. Head(inbox[n]) = c /\ Tail(inbox[n]) = <<>> /\ inbox[n] # <<>>
  BY <1>1
<1>3. PICK k \in 0..MaxFrame : due' = [due EXCEPT ![c] = k]
  BY <1>2 DEF TakeRequest
<1>4. /\ job' = [job EXCEPT ![n] = {c}]
      /\ inbox' = [inbox EXCEPT ![n] = <<>>]
      /\ UNCHANGED <<current, spawned, pc, on, got, result, lost, life, outbox, made>>
  BY <1>1, <1>2 DEF TakeRequest, engineVars
<1>5. /\ life[n] = "up" /\ outbox[n] = <<>> /\ got[c] = 0 /\ made[c] = 0
  BY <1>1, <1>2 DEF Place, TakeRequest
<1>6. TypeOK'
  BY <1>1, <1>3, <1>4 DEF IInv, TypeOK
<1>7. inbox'[n] = <<>> /\ job'[n] = {c} /\ due'[c] = k
  BY <1>3, <1>4 DEF IInv, TypeOK
<1>8. ~Finished(<<>>) /\ Len(<<>>) = 0
  BY DEF Finished
<1>9. Place(c, current)'
  BY <1>1, <1>4, <1>5, <1>7, <1>8 DEF Place
<1>10. Response(c, current)'
  BY <1>1, <1>3, <1>4, <1>5, <1>7, <1>8, PipeAssumption DEF Response, Frames, AudioIn, Finished
<1>11. /\ \A m \in Proc : m # current =>
             inbox'[m] = inbox[m] /\ job'[m] = job[m] /\ outbox'[m] = outbox[m]
       /\ \A d \in Call : d # c =>
             got'[d] = got[d] /\ made'[d] = made[d] /\ due'[d] = due[d]
  BY <1>1, <1>3, <1>4 DEF IInv, TypeOK
<1> QED
  BY <1>1, <1>4, <1>6, <1>9, <1>10, <1>11, ExchangeKeeps

\* A frame is written for the job: audio, or the last frame.
LEMMA EmitStep ==
    ASSUME IInv, NEW n \in Proc, NEW c \in Call,
           EmitAudio(n, c) \/ EmitEnd(n, c) \/ EmitError(n, c)
    PROVE  IInv'
<1> DEFINE s == outbox[n]
<1>1. s = outbox[n]
  OBVIOUS
<1> HIDE DEF s
<1>2. /\ n = current /\ pc[c] = "read" /\ on[c] = n
      /\ Place(c, n) /\ Response(c, n) /\ c \in job[n]
  BY WorksForReader DEF EmitAudio, EmitEnd, EmitError, Emit
<1>3. PICK tag \in {"A", "X", "E"} :
        /\ life[n] = "up" /\ Len(s) < PipeFrames
        /\ outbox' = [outbox EXCEPT ![n] = Append(s, [tag |-> tag, of |-> c])]
        /\ tag = "A" => made[c] < due[c]
        /\ tag = "E" => made[c] = due[c]
        /\ made' = (IF tag = "A" THEN [made EXCEPT ![c] = made[c] + 1] ELSE made)
        /\ job' = (IF tag = "A" THEN job ELSE [job EXCEPT ![n] = {}])
        /\ UNCHANGED <<current, spawned, pc, on, got, result, lost, life, inbox, due>>
  BY <1>1 DEF EmitAudio, EmitEnd, EmitError, Emit, engineVars
<1> DEFINE t == Append(s, [tag |-> tag, of |-> c])
<1>4. s \in Seq(Frame) /\ Frames(c, s) /\ ~Finished(s) /\ Len(s) \in Nat
  BY <1>1, <1>2 DEF IInv, TypeOK, Response, Place
<1>5. /\ t \in Seq(Frame) /\ Frames(c, t)
      /\ Len(t) = Len(s) + 1 /\ t[Len(t)].tag = tag
      /\ tag = "A" => ~Finished(t) /\ AudioIn(t) = AudioIn(s) + 1
      /\ tag # "A" => Finished(t) /\ AudioIn(t) = AudioIn(s)
  BY <1>4, AppendFrame
<1>6. outbox' = [outbox EXCEPT ![n] = t]
  BY <1>3
<1> HIDE DEF t
<1>7. /\ made[c] \in 0..MaxFrame /\ due[c] \in 0..MaxFrame /\ got[c] \in Nat
      /\ AudioIn(s) \in Int /\ AudioIn(s) + got[c] = made[c]
      /\ inbox[n] = <<>> /\ job[n] = {c}
  BY <1>1, <1>2, <1>4 DEF IInv, TypeOK, Place, Response, AudioIn
<1>8. /\ outbox' \in [Proc -> Seq(Frame)] /\ outbox'[n] = t
      /\ \A m \in Proc : m # n => outbox'[m] = outbox[m]
  BY <1>5, <1>6 DEF IInv, TypeOK
<1>9. \A m \in Proc : Len(outbox'[m]) <= PipeFrames
  <2>1. Len(t) <= PipeFrames
    BY <1>3, <1>4, <1>5, PipeAssumption
  <2> QED
    BY <1>8, <2>1 DEF IInv, TypeOK
<1>10. /\ made' \in [Call -> 0..MaxFrame]
      /\ made'[c] = (IF tag = "A" THEN made[c] + 1 ELSE made[c])
      /\ \A d \in Call : d # c => made'[d] = made[d]
  <2>1. CASE tag = "A"
    <3>1. made[c] + 1 \in 0..MaxFrame
      BY <1>3, <1>7, <2>1, PipeAssumption
    <3> QED
      BY <1>3, <2>1, <3>1 DEF IInv, TypeOK
  <2>2. CASE tag # "A"
    BY <1>3, <2>2 DEF IInv, TypeOK
  <2> QED
    BY <2>1, <2>2
<1>11. /\ job' \in [Proc -> SUBSET Call]
       /\ job'[n] = (IF tag = "A" THEN {c} ELSE {})
       /\ \A m \in Proc : m # n => job'[m] = job[m]
  BY <1>3, <1>7 DEF IInv, TypeOK
<1>12. TypeOK'
  BY <1>3, <1>8, <1>9, <1>10, <1>11 DEF IInv, TypeOK
<1>13. Place(c, current)'
  BY <1>2, <1>3, <1>5, <1>7, <1>8, <1>11 DEF Place
<1>14. got'[c] + AudioIn(outbox'[n]) = made'[c] /\ made'[c] <= due'[c]
  <2>1. made[c] <= due[c]
    BY <1>2 DEF Response
  <2>2. made[c] \in Nat /\ due[c] \in Nat
    BY <1>7, PipeAssumption
  <2>3. got'[c] = got[c] /\ due'[c] = due[c] /\ AudioIn(outbox'[n]) = AudioIn(t)
    BY <1>3, <1>8
  <2>4. CASE tag = "A"
    <3>1. AudioIn(t) = AudioIn(s) + 1 /\ made'[c] = made[c] + 1 /\ made[c] < due[c]
      BY <1>3, <1>5, <1>10, <2>4
    <3> QED
      BY <1>7, <2>1, <2>2, <2>3, <3>1
  <2>5. CASE tag # "A"
    <3>1. AudioIn(t) = AudioIn(s) /\ made'[c] = made[c]
      BY <1>5, <1>10, <2>5
    <3> QED
      BY <1>7, <2>1, <2>2, <2>3, <3>1
  <2> QED
    BY <2>4, <2>5
<1>15. Response(c, current)'
  BY <1>2, <1>3, <1>5, <1>8, <1>10, <1>14 DEF Response
<1> QED
  BY <1>2, <1>3, <1>8, <1>10, <1>11, <1>12, <1>13, <1>15, ExchangeKeeps

\* The process ends; a response under way is what was written of it.
LEMMA LifeStep ==
    ASSUME IInv, NEW n \in Proc, Die(n) \/ BecomeWaitable(n)
    PROVE  IInv'
<1>1. PICK gone \in {"dying", "dead"} :
      /\ life[n] \in {"up", "dying"} /\ life' = [life EXCEPT ![n] = gone]
      /\ UNCHANGED <<current, spawned, pc, on, got, result, lost, outbox, due, made>>
      /\ \/ life[n] = "dying" /\ UNCHANGED <<inbox, job>>
         \/ /\ inbox' = [inbox EXCEPT ![n] = <<>>]
            /\ job' = [job EXCEPT ![n] = {}]
  BY DEF Die, BecomeWaitable, engineVars
<1>2. /\ life' \in [Proc -> {"unborn", "up", "dying", "dead"}]
      /\ life'[n] = gone
      /\ \A m \in Proc : life'[m] = "unborn" <=> life[m] = "unborn"
      /\ \A m \in Proc : m # n => life'[m] = life[m]
  BY <1>1 DEF IInv, TypeOK
<1>3. \A m \in Proc : m # n => inbox'[m] = inbox[m] /\ job'[m] = job[m]
  BY <1>1 DEF IInv, TypeOK
<1>4. TypeOK'
  <2>1. inbox' \in [Proc -> Seq(Call)] /\ job' \in [Proc -> SUBSET Call]
    <3>1. CASE UNCHANGED <<inbox, job>>
      BY <3>1 DEF IInv, TypeOK
    <3>2. CASE inbox' = [inbox EXCEPT ![n] = <<>>] /\ job' = [job EXCEPT ![n] = {}]
      <4>1. <<>> \in Seq(Call) /\ {} \in SUBSET Call
        OBVIOUS
      <4> QED
        BY <3>2, <4>1 DEF IInv, TypeOK
    <3> QED
      BY <1>1, <3>1, <3>2
  <2> QED
    BY <1>1, <1>2, <2>1 DEF IInv, TypeOK
<1>5. CASE \E c \in Call : pc[c] = "read" /\ on[c] = n
  <2>1. PICK c \in Call : pc[c] = "read" /\ on[c] = n
    BY <1>5
  <2>2. n = current /\ Place(c, n) /\ Response(c, n)
    BY <2>1, UnderWay
  <2>3. inbox'[n] = <<>> /\ job'[n] = {}
    <3>1. CASE UNCHANGED <<inbox, job>> /\ life[n] = "dying"
      BY <2>2, <3>1 DEF Place
    <3>2. CASE /\ inbox' = [inbox EXCEPT ![n] = <<>>]
               /\ job' = [job EXCEPT ![n] = {}]
      BY <3>2 DEF IInv, TypeOK
    <3> QED
      BY <1>1, <3>1, <3>2
  <2>4. Place(c, current)'
    BY <1>1, <1>2, <2>2, <2>3 DEF Place
  <2>5. Response(c, current)'
    BY <1>1, <2>2 DEF Response
  <2> QED
    BY <1>1, <1>2, <1>3, <1>4, <2>1, <2>2, <2>4, <2>5, ExchangeKeeps
<1>6. CASE ~\E c \in Call : pc[c] = "read" /\ on[c] = n
  <2> USE DEF IInv
  <2>1. Quiet(n)
    BY <1>6 DEF QuietElsewhere
  <2>2. inbox' = inbox /\ job' = job
    <3>1. inbox = [inbox EXCEPT ![n] = <<>>]
      BY <2>1 DEF Quiet, TypeOK
    <3>2. job = [job EXCEPT ![n] = {}]
      BY <2>1 DEF Quiet, TypeOK
    <3> QED
      BY <1>1, <3>1, <3>2
  <2>3. OneCall' /\ Unasked' /\ Results' /\ QuietElsewhere'
    BY <1>1, <2>2 DEF OneCall, Unasked, Results, NeverTruncated, QuietElsewhere, Quiet
  <2>4. ProcsInOrder'
    BY <1>1, <1>2 DEF ProcsInOrder
  <2>5. Answers'
    <3> SUFFICES ASSUME NEW c \in Call, pc[c] = "read"
                 PROVE  Place(c, on[c])' /\ Response(c, on[c])'
      BY <1>1 DEF Answers
    <3>1. on[c] # n /\ on[c] \in Proc
      BY <1>6 DEF TypeOK
    <3> QED
      BY <1>1, <1>2, <2>2, <3>1 DEF Answers, Place, Response
  <2> QED
    BY <1>4, <2>3, <2>4, <2>5
<1> QED
  BY <1>5, <1>6

-----------------------------------------------------------------------------
LEMMA StepIInv == ~Overlap /\ IInv /\ [Next]_vars => IInv'
<1> SUFFICES ASSUME ~Overlap, IInv, [Next]_vars PROVE IInv'
  OBVIOUS
<1>1. ASSUME NEW c \in Call, Reuse(c) \/ Spawn(c) \/ Reading(c) PROVE IInv'
  BY <1>1, BeginStep, WriteRequestStep, BrokenStep, ReadAudioStep, ReadLastStep DEF Reading
<1>2. ASSUME NEW n \in Proc, Working(n) \/ Die(n) \/ BecomeWaitable(n) PROVE IInv'
  BY <1>2, TakeRequestStep, EmitStep, LifeStep DEF Working
<1>3. CASE UNCHANGED vars
  BY <1>3 DEF vars, engineVars, sidecarVars, IInv, TypeOK, OneCall, ProcsInOrder,
              QuietElsewhere, Quiet, Answers, Place, Response, Unasked, Results,
              NeverTruncated
<1> QED
  BY <1>1, <1>2, <1>3 DEF Next

\* Whatever dies when, the pipes and the sidecar hold nothing but what belongs
\* to the one call under way, and nothing at all when there is none.
THEOREM PipesBelongToTheCall == ~Overlap => (Spec => []IInv)
<1> SUFFICES ASSUME ~Overlap PROVE Spec => []IInv
  OBVIOUS
<1>1. IInv /\ [Next]_vars => IInv'
  BY StepIInv
<1> QED
  BY <1>1, InitIInv, PTL DEF Spec

\* No call ever gets audio, an error or an end marker of another one, although
\* the pipes carry no request identifiers.
THEOREM FramesAreOwn == ~Overlap => (Spec => []OwnFrames)
<1>1. IInv => OwnFrames
  <2> SUFFICES ASSUME IInv, NEW c \in Call, pc[c] = "read", outbox[on[c]] # <<>>
               PROVE  Head(outbox[on[c]]).of = c
    BY DEF OwnFrames
  <2>1. outbox[on[c]] \in Seq(Frame) /\ Frames(c, outbox[on[c]])
    BY DEF IInv, TypeOK, Answers, Response
  <2> QED
    BY <2>1, HeadFrame
<1> QED
  BY <1>1, PipesBelongToTheCall, PTL

\* A response that ends as complete is complete: wherever in it the sidecar
\* dies, the call ends with an error.
THEOREM CompleteOrError == ~Overlap => (Spec => []NeverTruncated)
<1>1. IInv => NeverTruncated
  BY DEF IInv, Results
<1> QED
  BY <1>1, PipesBelongToTheCall, PTL

\* One dead sidecar breaks at most one call; the next call finds another one.
THEOREM OneCallPerDeath == ~Overlap => (Spec => []DeathCostsOneCall)
<1>1. IInv => DeathCostsOneCall
  BY DEF IInv, ProcsInOrder, DeathCostsOneCall
<1> QED
  BY <1>1, PipesBelongToTheCall, PTL
=============================================================================
