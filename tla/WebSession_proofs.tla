--------------------------- MODULE WebSession_proofs ---------------------------
(***************************************************************************)
(* What TLAPS proves of WebSession's safety, for any number of clicks,     *)
(* sockets and frames: a click is lost for a cause, the answers on a       *)
(* socket come in the order of its lines, and lines are heard one after    *)
(* another in the order they were sent.                                    *)
(***************************************************************************)
EXTENDS WebSession, FiniteSetTheorems, SequenceTheorems, TLAPS

Message == [type : {"start", "frame", "end", "error", "close"}, line : Line]
PortMessages == [type : {"flush"}] \cup [type : {"frame"}, line : Line]
Session ==
    {Idle, Over} \cup [at : {"queued"}, line : Line]
                 \cup [at : {"speaking"}, line : Line, left : Nat]
                 \cup [at : {"wedged"}, line : Line]

TypeOK ==
    /\ audio \in {"none", "loading", "ready", "failed"}
    /\ task \in [Line -> {"none", "loading", "checking", "opening",
                          "sent", "failed", "lost", "refused"}]
    /\ waiting \in [Line -> Socket \cup {0}]
    /\ ws \in Socket \cup {0}
    /\ socket \in [Socket -> {"unused", "connecting", "open", "closed"}]
    /\ up \in [Socket -> Seq(Line)]
    /\ down \in [Socket -> Seq(Message)]
    /\ session \in [Socket -> Session]
    /\ port \in Seq(PortMessages)
    /\ queue \in Seq(Line)
    /\ overlapped \subseteq Line
    /\ sent \in Seq(Line)
    /\ via \in [Socket -> Seq(Line)]
    /\ log \in [Socket -> Seq(Message)]
    /\ played \in Seq(Line)

-----------------------------------------------------------------------------
(* The page's clicks and sockets                                           *)

\* Two clicks under way at once are both in the history; one click loads the
\* worklet; an opening click awaits a socket of its own, the current one but
\* for a click that was overtaken.
ClickInv ==
    /\ audio = "none" => \A l \in Line : task[l] = "none"
    /\ audio = "loading" => \E l \in Line : task[l] = "loading"
    /\ \A l \in Line : task[l] = "loading" => audio = "loading"
    /\ \A l, m \in Line : task[l] = "loading" /\ task[m] = "loading" => l = m
    /\ \A l, m \in UnderWay : l # m => l \in overlapped
    /\ \A l \in Line : task[l] = "opening" =>
          /\ waiting[l] \in Socket
          /\ socket[waiting[l]] = "connecting"
          /\ ws \in Socket
          /\ ws = waiting[l] \/ l \in overlapped
    /\ \A l, m \in Line :
          task[l] = "opening" /\ task[m] = "opening" /\ waiting[l] = waiting[m] => l = m

\* What becomes of a click that fails or is discarded has a cause.
ForCause ==
    \A l \in Line : task[l] \in {"failed", "lost"} => audio = "failed" \/ l \in overlapped

\* The socket of a refused click was never open.
RefusedInv == \A l \in Line : task[l] = "refused" => NeverOpened(l)

\* Only the current socket is open and has lines; one that never opened is
\* untouched.
SocketInv ==
    \A s \in Socket :
        /\ socket[s] \in {"unused", "connecting"} =>
              /\ via[s] = <<>> /\ log[s] = <<>> /\ up[s] = <<>> /\ down[s] = <<>>
              /\ session[s] = Over
        /\ socket[s] = "open" /\ via[s] # <<>> => s = ws
        /\ socket[s] = "closed" => up[s] = <<>>

\* A click is sent once, on one socket.
SentInv ==
    /\ \A i, j \in 1..Len(sent) : sent[i] = sent[j] => i = j
    /\ \A i \in 1..Len(sent) : task[sent[i]] = "sent"
    /\ \A s \in Socket : \A i \in 1..Len(via[s]) :
          \E m \in 1..Len(sent) : sent[m] = via[s][i]

Place(q, l) == CHOOSE i \in 1..Len(q) : q[i] = l
Ord(l) == Place(sent, l)

\* The lines of a socket are in the order of their send().
ViaInv ==
    \A s \in Socket : \A i, j \in 1..Len(via[s]) :
        i < j => Ord(via[s][i]) < Ord(via[s][j])

-----------------------------------------------------------------------------
(* The answers on a socket                                                 *)

\* How many of the first n messages end an answer.
Count(st, n) == Cardinality({j \in 1..n : Closes(st[j].type)})

Started(st, n, l) == \E j \in 1..n : st[j] = [type |-> "start", line |-> l]

\* What the page has got of a socket and what is still to come.
Stream(s) == log[s] \o down[s]

Answers(st, lines) ==
    \A i \in 1..Len(st) :
        /\ Count(st, i - 1) < Len(lines)
        /\ st[i].line = lines[Count(st, i - 1) + 1]
        /\ Started(st, i - 1, st[i].line) <=> st[i].type \in {"frame", "end", "close"}

\* A session x with these lines pending is at the one after the answered ones,
\* which the others follow, and has started it only if it speaks it.
AtLine(x, pending, lines, st) ==
    LET c == Count(st, Len(st))
    IN  /\ x = Idle =>
              /\ Len(pending) = Len(lines) - c
              /\ \A k \in 1..Len(pending) : pending[k] = lines[c + k]
        /\ x.at \in {"queued", "speaking"} =>
              /\ x.line = lines[c + 1]
              /\ Len(pending) = Len(lines) - (c + 1)
              /\ \A k \in 1..Len(pending) : pending[k] = lines[(c + 1) + k]
        /\ x.at \in {"idle", "queued"} => \A i \in 1..Len(st) : Count(st, i - 1) < c
        /\ x.at = "speaking" => Started(st, Len(st), x.line)

AnswersOn(s) ==
    /\ Answers(log[s], via[s])
    /\ \A i \in 1..Len(log[s]) : log[s][i].type # "close"
    /\ socket[s] = "open" =>
          /\ Answers(Stream(s), via[s])
          /\ AtLine(session[s], up[s], via[s], Stream(s))

AnswerInv == \A s \in Socket : AnswersOn(s)

-----------------------------------------------------------------------------
(* The frames on their way                                                 *)

IsSent(l) == Contains(sent, l)

\* What has been played (pl), is queued (qu) and is on its way to the worklet
\* (po) was sent, and was sent in this order (q).
FlowSent(q, pl, qu, po) ==
    /\ \A i \in 1..Len(pl) : Contains(q, pl[i])
    /\ \A i \in 1..Len(qu) : Contains(q, qu[i])
    /\ \A i \in 1..Len(po) : po[i].type = "frame" => Contains(q, po[i].line)

FlowOrder(q, pl, qu, po) ==
    /\ \A i, j \in 1..Len(pl) : i < j => Place(q, pl[i]) < Place(q, pl[j])
    /\ \A i \in 1..Len(pl), j \in 1..Len(qu) : Place(q, pl[i]) <= Place(q, qu[j])
    /\ \A i, j \in 1..Len(qu) : i < j => Place(q, qu[i]) <= Place(q, qu[j])
    /\ \A j \in 1..Len(po) : po[j].type = "frame" =>
          /\ \A i \in 1..Len(pl) : Place(q, pl[i]) <= Place(q, po[j].line)
          /\ \A i \in 1..Len(qu) : Place(q, qu[i]) <= Place(q, po[j].line)
          /\ \A i \in 1..(j - 1) :
                po[i].type = "frame" => Place(q, po[i].line) <= Place(q, po[j].line)

\* None of it is of a later line than l.
Past(q, pl, qu, po, l) ==
    /\ \A i \in 1..Len(pl) : Place(q, pl[i]) <= Place(q, l)
    /\ \A i \in 1..Len(qu) : Place(q, qu[i]) <= Place(q, l)
    /\ \A i \in 1..Len(po) : po[i].type = "frame" => Place(q, po[i].line) <= Place(q, l)

\* The lines that are not answered yet are of this sort.
PastOn(s) ==
    socket[s] = "open" =>
        \A k \in (Count(log[s], Len(log[s])) + 1)..Len(via[s]) :
            Past(sent, played, queue, port, via[s][k])

FlowInv ==
    /\ FlowSent(sent, played, queue, port)
    /\ FlowOrder(sent, played, queue, port)
    /\ \A s \in Socket : PastOn(s)

IInv ==
    /\ TypeOK /\ ClickInv /\ SocketInv /\ SentInv /\ ViaInv
    /\ ForCause /\ RefusedInv
    /\ AnswerInv
    /\ FlowInv

-----------------------------------------------------------------------------
(* Counting the messages that end an answer                                *)

LEMMA CountIsFinite ==
    ASSUME NEW st, NEW n \in Nat
    PROVE  /\ IsFiniteSet({j \in 1..n : Closes(st[j].type)})
           /\ Count(st, n) \in Nat
<1>1. IsFiniteSet(1..n)
  BY FS_Interval
<1>2. {j \in 1..n : Closes(st[j].type)} \in SUBSET (1..n)
  OBVIOUS
<1>3. IsFiniteSet({j \in 1..n : Closes(st[j].type)})
  BY <1>1, <1>2, FS_Subset
<1> QED
  BY <1>3, FS_CardinalityType DEF Count

LEMMA CountZero ==
    ASSUME NEW st
    PROVE  Count(st, 0) = 0
<1>1. {j \in 1..0 : Closes(st[j].type)} = {}
  OBVIOUS
<1> QED
  BY <1>1, FS_EmptySet DEF Count

LEMMA CountNext ==
    ASSUME NEW st, NEW n \in Nat
    PROVE  Count(st, n + 1) =
               IF Closes(st[n + 1].type) THEN Count(st, n) + 1 ELSE Count(st, n)
<1> DEFINE T == {j \in 1..n : Closes(st[j].type)}
<1>1. IsFiniteSet(T)
  BY CountIsFinite
<1>2. n + 1 \notin T
  OBVIOUS
<1>3. {j \in 1..(n + 1) : Closes(st[j].type)} =
          IF Closes(st[n + 1].type) THEN T \cup {n + 1} ELSE T
  <2>1. 1..(n + 1) = (1..n) \cup {n + 1}
    OBVIOUS
  <2> QED
    BY <2>1
<1> HIDE DEF T
<1>4. Cardinality(T \cup {n + 1}) = Cardinality(T) + 1
  BY <1>1, <1>2, FS_AddElement
<1>5. Count(st, n) = Cardinality(T)
  BY DEF Count, T
<1> QED
  BY <1>3, <1>4, <1>5 DEF Count

LEMMA CountGrows ==
    ASSUME NEW st, NEW m \in Nat, NEW n \in Nat, m <= n
    PROVE  Count(st, m) <= Count(st, n)
<1>1. {j \in 1..m : Closes(st[j].type)} \in SUBSET {j \in 1..n : Closes(st[j].type)}
  OBVIOUS
<1>2. IsFiniteSet({j \in 1..n : Closes(st[j].type)})
  BY CountIsFinite
<1> QED
  BY <1>1, <1>2, FS_Subset DEF Count

LEMMA CountOfPrefix ==
    ASSUME NEW st, NEW tt, NEW n \in Nat, \A j \in 1..n : st[j] = tt[j]
    PROVE  Count(st, n) = Count(tt, n)
<1>1. {j \in 1..n : Closes(st[j].type)} = {j \in 1..n : Closes(tt[j].type)}
  OBVIOUS
<1> QED
  BY <1>1 DEF Count

\* One more message.
LEMMA CountOfAppend ==
    ASSUME NEW st \in Seq(Message), NEW msg \in Message
    PROVE  /\ \A i \in 0..Len(st) : Count(Append(st, msg), i) = Count(st, i)
           /\ Count(Append(st, msg), Len(st) + 1) =
                  IF Closes(msg.type) THEN Count(st, Len(st)) + 1 ELSE Count(st, Len(st))
<1> DEFINE nst == Append(st, msg)
<1>1. /\ nst[Len(st) + 1] = msg
      /\ Len(st) \in Nat
      /\ \A i \in 1..Len(st) : nst[i] = st[i]
  BY AppendProperties, LenProperties
<1> HIDE DEF nst
<1>2. ASSUME NEW i \in 0..Len(st) PROVE Count(nst, i) = Count(st, i)
  <2>1. i \in Nat /\ \A j \in 1..i : nst[j] = st[j]
    BY <1>1
  <2> QED
    BY <2>1, CountOfPrefix
<1>3. Count(nst, Len(st) + 1) =
          IF Closes(msg.type) THEN Count(nst, Len(st)) + 1 ELSE Count(nst, Len(st))
  BY <1>1, CountNext
<1>4. Len(st) \in 0..Len(st)
  BY <1>1
<1> QED
  BY <1>2, <1>3, <1>4 DEF nst

-----------------------------------------------------------------------------
(* Answers                                                                 *)

LEMMA StartedOfAppend ==
    ASSUME NEW st \in Seq(Message), NEW msg \in Message, NEW l
    PROVE  /\ \A i \in 0..Len(st) : Started(Append(st, msg), i, l) <=> Started(st, i, l)
           /\ Started(Append(st, msg), Len(st) + 1, l) <=>
                  Started(st, Len(st), l) \/ msg = [type |-> "start", line |-> l]
<1> DEFINE nst == Append(st, msg)
<1>1. /\ nst[Len(st) + 1] = msg
      /\ Len(st) \in Nat
      /\ \A i \in 1..Len(st) : nst[i] = st[i]
  BY AppendProperties, LenProperties
<1> HIDE DEF nst
<1>2. ASSUME NEW i \in 0..Len(st) PROVE Started(nst, i, l) <=> Started(st, i, l)
  BY <1>1 DEF Started
<1>3. Started(nst, Len(st) + 1, l) <=>
          Started(st, Len(st), l) \/ msg = [type |-> "start", line |-> l]
  BY <1>1 DEF Started
<1> QED
  BY <1>2, <1>3 DEF nst

\* The server adds a message that answers the line it is at.
LEMMA AnswersOfAppend ==
    ASSUME NEW st \in Seq(Message), NEW msg \in Message, NEW lines \in Seq(Line),
           Answers(st, lines),
           Count(st, Len(st)) < Len(lines),
           msg.line = lines[Count(st, Len(st)) + 1],
           Started(st, Len(st), msg.line) <=> msg.type \in {"frame", "end", "close"}
    PROVE  Answers(Append(st, msg), lines)
<1> DEFINE nst == Append(st, msg)
<1>1. /\ Len(nst) = Len(st) + 1
      /\ nst[Len(st) + 1] = msg
      /\ Len(st) \in Nat
      /\ \A i \in 1..Len(st) : nst[i] = st[i]
  BY AppendProperties, LenProperties
<1>2. \A i \in 0..Len(st) : Count(nst, i) = Count(st, i)
  BY CountOfAppend
<1>3. \A l : \A i \in 0..Len(st) : Started(nst, i, l) <=> Started(st, i, l)
  BY StartedOfAppend
<1> HIDE DEF nst
<1> SUFFICES ASSUME NEW i \in 1..Len(nst)
             PROVE  /\ Count(nst, i - 1) < Len(lines)
                    /\ nst[i].line = lines[Count(nst, i - 1) + 1]
                    /\ Started(nst, i - 1, nst[i].line) <=>
                           nst[i].type \in {"frame", "end", "close"}
  BY DEF Answers, nst
<1>4. i - 1 \in 0..Len(st)
  BY <1>1
<1>5. CASE i = Len(st) + 1
  BY <1>1, <1>2, <1>3, <1>4, <1>5
<1>6. CASE i \in 1..Len(st)
  BY <1>1, <1>2, <1>3, <1>4, <1>6 DEF Answers
<1> QED
  BY <1>1, <1>5, <1>6

LEMMA AnswersOfPrefix ==
    ASSUME NEW st, NEW tt, NEW lines, Len(st) \in Nat, Len(tt) \in Nat,
           Answers(st, lines), Len(tt) <= Len(st), \A i \in 1..Len(tt) : tt[i] = st[i]
    PROVE  Answers(tt, lines)
<1> SUFFICES ASSUME NEW i \in 1..Len(tt)
             PROVE  /\ Count(tt, i - 1) < Len(lines)
                    /\ tt[i].line = lines[Count(tt, i - 1) + 1]
                    /\ Started(tt, i - 1, tt[i].line) <=>
                           tt[i].type \in {"frame", "end", "close"}
  BY DEF Answers
<1>1. i - 1 \in Nat /\ \A j \in 1..(i - 1) : tt[j] = st[j]
  OBVIOUS
<1>2. Count(tt, i - 1) = Count(st, i - 1)
  BY <1>1, CountOfPrefix
<1>3. Started(tt, i - 1, tt[i].line) <=> Started(st, i - 1, tt[i].line)
  BY <1>1 DEF Started
<1>4. i \in 1..Len(st) /\ tt[i] = st[i]
  OBVIOUS
<1> QED
  BY <1>2, <1>3, <1>4 DEF Answers

\* One more line to answer.
LEMMA AnswersOfMore ==
    ASSUME NEW st \in Seq(Message), NEW lines \in Seq(Line), NEW l \in Line,
           Answers(st, lines)
    PROVE  Answers(st, Append(lines, l))
<1> DEFINE more == Append(lines, l)
<1>1. /\ Len(more) = Len(lines) + 1
      /\ Len(lines) \in Nat
      /\ \A i \in 1..Len(lines) : more[i] = lines[i]
  BY AppendProperties, LenProperties
<1> HIDE DEF more
<1>2. Len(st) \in Nat
  BY LenProperties
<1> SUFFICES ASSUME NEW i \in 1..Len(st)
             PROVE  /\ Count(st, i - 1) < Len(more)
                    /\ st[i].line = more[Count(st, i - 1) + 1]
                    /\ Started(st, i - 1, st[i].line) <=>
                           st[i].type \in {"frame", "end", "close"}
  BY DEF Answers, more
<1>3. i - 1 \in Nat
  BY <1>2
<1>4. Count(st, i - 1) \in Nat
  BY <1>3, CountIsFinite
<1>5. Count(st, i - 1) < Len(lines) /\ st[i].line = lines[Count(st, i - 1) + 1]
  BY DEF Answers
<1> QED
  BY <1>1, <1>4, <1>5 DEF Answers

\* The first n messages are those of the first line that is not yet answered,
\* and of answered ones before it.
LEMMA AtMostAllAnswered ==
    ASSUME NEW st \in Seq(Message), NEW lines \in Seq(Line), Answers(st, lines)
    PROVE  Count(st, Len(st)) <= Len(lines)
<1>1. Len(st) \in Nat /\ Len(lines) \in Nat
  BY LenProperties
<1>2. CASE Len(st) = 0
  BY <1>1, <1>2, CountZero
<1>3. CASE Len(st) # 0
  <2>1. Len(st) - 1 \in Nat /\ Len(st) \in 1..Len(st)
    BY <1>1, <1>3
  <2>2. Count(st, Len(st) - 1) < Len(lines)
    BY <2>1 DEF Answers
  <2>3. Count(st, Len(st) - 1) \in Nat
    BY <2>1, CountIsFinite
  <2>4. (Len(st) - 1) + 1 = Len(st)
    BY <1>1
  <2>5. Count(st, Len(st)) <= Count(st, Len(st) - 1) + 1
    BY <2>1, <2>3, <2>4, CountNext
  <2>6. Count(st, Len(st)) \in Nat
    BY <1>1, CountIsFinite
  <2> QED
    BY <1>1, <2>2, <2>3, <2>5, <2>6
<1> QED
  BY <1>2, <1>3

-----------------------------------------------------------------------------
(* The place of a line in a sequence                                       *)

LEMMA PlaceIs ==
    ASSUME NEW q, NEW l, NEW i \in 1..Len(q), q[i] = l
    PROVE  Place(q, l) \in 1..Len(q) /\ q[Place(q, l)] = l
BY DEF Place

\* A line that was in the sequence keeps its place when another is appended,
\* whose place is the last.
LEMMA PlaceOfAppend ==
    ASSUME NEW q \in Seq(Line), NEW l \in Line,
           \A i, j \in 1..Len(q) : q[i] = q[j] => i = j,
           \A i \in 1..Len(q) : q[i] # l
    PROVE  /\ Place(Append(q, l), l) = Len(q) + 1
           /\ \A m : (\E i \in 1..Len(q) : q[i] = m) =>
                 /\ Place(Append(q, l), m) = Place(q, m)
                 /\ Place(q, m) \in 1..Len(q)
<1> DEFINE nq == Append(q, l)
<1>1. /\ Len(nq) = Len(q) + 1
      /\ nq[Len(q) + 1] = l
      /\ Len(q) \in Nat
      /\ \A i \in 1..Len(q) : nq[i] = q[i]
  BY AppendProperties, LenProperties
<1> HIDE DEF nq
<1>2. Place(nq, l) = Len(q) + 1
  <2>1. Len(q) + 1 \in 1..Len(nq)
    BY <1>1
  <2>2. Place(nq, l) \in 1..Len(nq) /\ nq[Place(nq, l)] = l
    BY <1>1, <2>1, PlaceIs
  <2> QED
    BY <1>1, <2>2
<1>3. ASSUME NEW m, NEW i \in 1..Len(q), q[i] = m
      PROVE  Place(nq, m) = Place(q, m) /\ Place(q, m) \in 1..Len(q)
  <2>1. i \in 1..Len(nq) /\ nq[i] = m
    BY <1>1, <1>3
  <2>2. Place(nq, m) \in 1..Len(nq) /\ nq[Place(nq, m)] = m
    BY <2>1, PlaceIs
  <2>3. Place(q, m) \in 1..Len(q) /\ q[Place(q, m)] = m
    BY <1>3, PlaceIs
  <2>4. m # l
    BY <1>3
  <2>5. Place(nq, m) \in 1..Len(q)
    BY <1>1, <2>2, <2>4
  <2> QED
    BY <1>1, <2>2, <2>3, <2>5
<1> QED
  BY <1>2, <1>3 DEF nq

-----------------------------------------------------------------------------
(* The types                                                               *)

LEMMA SessionCases ==
    ASSUME NEW x \in Session
    PROVE  /\ x.at \in {"idle", "over", "queued", "speaking", "wedged"}
           /\ x.at = "idle" <=> x = Idle
           /\ x.at = "over" <=> x = Over
           /\ x.at = "queued" => x.line \in Line
           /\ x.at = "speaking" => x.line \in Line /\ x.left \in Nat
BY DEF Session, Idle, Over

\* The end of a click: it fails, it is sent, or it is not heard.
LEMMA FinishCases ==
    ASSUME TypeOK, NEW l \in Line, Finish(l)
    PROVE  \/ /\ audio # "ready"
              /\ task' = [task EXCEPT ![l] = "failed"]
              /\ UNCHANGED <<port, up, sent, via>>
           \/ /\ audio = "ready"
              /\ socket'[ws] = "open"
              /\ task' = [task EXCEPT ![l] = "sent"]
              /\ port' = Append(port, [type |-> "flush"])
              /\ up' = [up EXCEPT ![ws] = Append(@, l)]
              /\ sent' = Append(sent, l)
              /\ via' = [via EXCEPT ![ws] = Append(@, l)]
           \/ /\ audio = "ready"
              /\ socket'[ws] # "open"
              /\ \E r \in {"lost", "failed"} : task' = [task EXCEPT ![l] = r]
              /\ port' = Append(port, [type |-> "flush"])
              /\ UNCHANGED <<up, sent, via>>
<1>1. CASE audio # "ready"
  BY <1>1 DEF Finish
<1>2. CASE audio = "ready" /\ socket'[ws] = "open"
  BY <1>2 DEF Finish
<1>3. CASE audio = "ready" /\ socket'[ws] = "closed"
  BY <1>3 DEF Finish
<1>4. CASE audio = "ready" /\ socket'[ws] # "closed" /\ socket'[ws] # "open"
  BY <1>4 DEF Finish
<1> QED
  BY <1>1, <1>2, <1>3, <1>4

LEMMA FinishTypes ==
    ASSUME TypeOK, NEW l \in Line, Finish(l), ws \in Socket
    PROVE  /\ task' \in [Line -> {"none", "loading", "checking", "opening",
                                  "sent", "failed", "lost", "refused"}]
           /\ port' \in Seq(PortMessages)
           /\ up' \in [Socket -> Seq(Line)]
           /\ sent' \in Seq(Line)
           /\ via' \in [Socket -> Seq(Line)]
<1>1. [type |-> "flush"] \in PortMessages
  BY DEF PortMessages
<1>2. /\ Append(port, [type |-> "flush"]) \in Seq(PortMessages)
      /\ Append(sent, l) \in Seq(Line)
      /\ Append(up[ws], l) \in Seq(Line)
      /\ Append(via[ws], l) \in Seq(Line)
  BY <1>1, AppendProperties DEF TypeOK
<1> QED
  BY <1>2, FinishCases DEF TypeOK

LEMMA AnswerTypes ==
    ASSUME TypeOK, NEW s \in Socket, NEW l \in Line,
           NEW type \in {"start", "frame", "end", "error", "close"}
    PROVE  Answer(s, type, l) \in Seq(Message)
<1>1. [type |-> type, line |-> l] \in Message
  BY DEF Message
<1> QED
  BY <1>1, AppendProperties DEF TypeOK, Answer

LEMMA TypeStep ==
    ASSUME TypeOK, ClickInv, [Next]_vars
    PROVE  TypeOK'
<1> USE DEF TypeOK
<1>1. ASSUME NEW l \in Line, Click(l) PROVE TypeOK'
  BY <1>1 DEF Click, UnderWay, serverVars, workletVars
<1>2. ASSUME NEW l \in Line, Load(l) PROVE TypeOK'
  BY <1>2 DEF Load, serverVars, workletVars
<1>3. ASSUME NEW l \in Line, SendAtOnce(l) PROVE TypeOK'
  <2>1. Finish(l) /\ ws \in Socket
    BY <1>3 DEF SendAtOnce, CurrentOpen
  <2> QED
    BY <1>3, <2>1, FinishTypes DEF SendAtOnce, serverVars
<1>4. ASSUME NEW l \in Line, NEW s \in Socket, OpenSocket(l, s) PROVE TypeOK'
  BY <1>4 DEF OpenSocket, serverVars, workletVars
<1>5. ASSUME NEW l \in Line, Opened(l) PROVE TypeOK'
  <2>1. Finish(l) /\ ws \in Socket
    BY <1>5 DEF Opened, ClickInv
  <2>2. Idle \in Session
    BY DEF Session
  <2> QED
    BY <1>5, <2>1, <2>2, FinishTypes DEF Opened
<1>6. ASSUME NEW l \in Line, OpenFails(l) PROVE TypeOK'
  BY <1>6 DEF OpenFails, serverVars, workletVars
<1>7. ASSUME NEW s \in Socket, Refuse(s) PROVE TypeOK'
  <2>1. Head(up[s]) \in Line /\ Tail(up[s]) \in Seq(Line)
    BY <1>7, HeadTailProperties DEF Refuse
  <2>2. Answer(s, "error", Head(up[s])) \in Seq(Message)
    BY <2>1, AnswerTypes
  <2> QED
    BY <1>7, <2>1, <2>2 DEF Refuse, pageVars, serverVars, workletVars
<1>8. ASSUME NEW s \in Socket, Admit(s) PROVE TypeOK'
  <2>1. Head(up[s]) \in Line /\ Tail(up[s]) \in Seq(Line)
    BY <1>8, HeadTailProperties DEF Admit
  <2>2. [at |-> "queued", line |-> Head(up[s])] \in Session
    BY <2>1 DEF Session
  <2> QED
    BY <1>8, <2>1, <2>2 DEF Admit, pageVars, workletVars
<1>9. ASSUME NEW s \in Socket, Start(s) PROVE TypeOK'
  <2>1. session[s].line \in Line
    BY <1>9, SessionCases DEF Start
  <2>2. Answer(s, "start", session[s].line) \in Seq(Message)
    BY <2>1, AnswerTypes
  <2>3. \A n \in 0..MaxFrames :
            [at |-> "speaking", line |-> session[s].line, left |-> n] \in Session
    BY <2>1, WebAssumption DEF Session
  <2> QED
    BY <1>9, <2>2, <2>3 DEF Start, pageVars, workletVars
<1>10. ASSUME NEW s \in Socket, Frame(s) PROVE TypeOK'
  <2>1. session[s].line \in Line /\ session[s].left \in Nat
    BY <1>10, SessionCases DEF Frame
  <2>2. Answer(s, "frame", session[s].line) \in Seq(Message)
    BY <2>1, AnswerTypes
  <2>3. [session[s] EXCEPT !.left = @ - 1] \in Session
    <3>1. session[s] \in [at : {"speaking"}, line : Line, left : Nat]
      BY <1>10 DEF Frame, Session, Idle, Over
    <3>2. session[s].left - 1 \in Nat
      BY <1>10, <2>1 DEF Frame
    <3> QED
      BY <3>1, <3>2 DEF Session
  <2> QED
    BY <1>10, <2>2, <2>3 DEF Frame, pageVars, workletVars
<1>11. ASSUME NEW s \in Socket, End(s) PROVE TypeOK'
  <2>1. session[s].line \in Line
    BY <1>11, SessionCases DEF End
  <2>2. Answer(s, "end", session[s].line) \in Seq(Message)
    BY <2>1, AnswerTypes
  <2>3. Idle \in Session
    BY DEF Session
  <2> QED
    BY <1>11, <2>2, <2>3 DEF End, pageVars, workletVars
<1>12. ASSUME NEW s \in Socket, EngineFails(s) PROVE TypeOK'
  <2>1. session[s].line \in Line
    BY <1>12, SessionCases DEF EngineFails
  <2>2. Answer(s, "close", session[s].line) \in Seq(Message)
    BY <2>1, AnswerTypes
  <2>3. Over \in Session
    BY DEF Session
  <2> QED
    BY <1>12, <2>2, <2>3 DEF EngineFails, pageVars, workletVars
<1>13. ASSUME NEW s \in Socket, Abandon(s) PROVE TypeOK'
  BY <1>13 DEF Abandon, Session, pageVars, workletVars
<1>14. ASSUME NEW s \in Socket, Wedge(s) PROVE TypeOK'
  <2>1. session[s].line \in Line
    BY <1>14, SessionCases DEF Wedge
  <2>2. [at |-> "wedged", line |-> session[s].line] \in Session
    BY <2>1 DEF Session
  <2> QED
    BY <1>14, <2>2 DEF Wedge, pageVars, workletVars
<1>15. ASSUME NEW s \in Socket, Deliver(s) PROVE TypeOK'
  <2> DEFINE msg == Head(down[s])
  <2>1. msg \in Message /\ Tail(down[s]) \in Seq(Message)
    BY <1>15, HeadTailProperties DEF Deliver
  <2>2. ASSUME msg.type = "frame" PROVE Append(port, msg) \in Seq(PortMessages)
    <3>1. msg \in PortMessages
      BY <2>1, <2>2 DEF Message, PortMessages
    <3> QED
      BY <3>1, AppendProperties
  <2>3. Append(log[s], msg) \in Seq(Message)
    BY <2>1, AppendProperties
  <2>4. <<>> \in Seq(Line)
    OBVIOUS
  <2> HIDE DEF msg
  <2>5. /\ port' = IF msg.type = "frame" THEN Append(port, msg) ELSE port
        /\ socket' = [socket EXCEPT ![s] = IF msg.type = "close" THEN "closed" ELSE @]
        /\ up' = [up EXCEPT ![s] = IF msg.type = "close" THEN <<>> ELSE @]
        /\ log' = [log EXCEPT ![s] = IF msg.type = "close" THEN @ ELSE Append(@, msg)]
        /\ down' = [down EXCEPT ![s] = Tail(@)]
        /\ UNCHANGED <<pageVars, serverVars, queue, played>>
    BY <1>15 DEF Deliver, msg
  <2> QED
    BY <2>1, <2>2, <2>3, <2>4, <2>5 DEF pageVars, serverVars
<1>16. ASSUME NEW s \in Socket, Drop(s) PROVE TypeOK'
  BY <1>16 DEF Drop, pageVars, serverVars, workletVars
<1>17. CASE PortMessage
  <2>1. Head(port) \in PortMessages /\ Tail(port) \in Seq(PortMessages)
    BY <1>17, HeadTailProperties DEF PortMessage
  <2>2. ASSUME Head(port).type # "flush"
        PROVE  Append(queue, Head(port).line) \in Seq(Line)
    <3>1. Head(port).line \in Line
      BY <2>1, <2>2 DEF PortMessages
    <3> QED
      BY <3>1, AppendProperties
  <2> QED
    BY <1>17, <2>1, <2>2 DEF PortMessage, pageVars, serverVars
<1>18. CASE Play
  <2>1. Head(queue) \in Line /\ Tail(queue) \in Seq(Line)
    BY <1>18, HeadTailProperties DEF Play
  <2>2. Append(played, Head(queue)) \in Seq(Line)
    BY <2>1, AppendProperties
  <2> QED
    BY <1>18, <2>1, <2>2 DEF Play, pageVars, serverVars
<1>19. CASE Settled \/ UNCHANGED vars
  BY <1>19 DEF Settled, vars, pageVars, serverVars, workletVars
<1> QED
  BY <1>1, <1>2, <1>3, <1>4, <1>5, <1>6, <1>7, <1>8, <1>9, <1>10, <1>11, <1>12, <1>13,
     <1>14, <1>15, <1>16, <1>17, <1>18, <1>19
  DEF Next, PageStep, SessionStep

-----------------------------------------------------------------------------
(* Clicks                                                                  *)

\* A click that finishes without being sent has a cause.
LEMMA FinishedForCause ==
    ASSUME TypeOK, ClickInv, NEW l \in Line, task[l] \in {"checking", "opening"}, Finish(l),
           socket'[ws] = "open" \/ l \in overlapped
    PROVE  task'[l] \in {"failed", "lost"} => audio = "failed" \/ l \in overlapped
<1>1. CASE audio = "loading"
  <2>1. PICK m \in Line : task[m] = "loading"
    BY <1>1 DEF ClickInv
  <2>2. l \in UnderWay /\ m \in UnderWay /\ l # m
    BY <2>1 DEF UnderWay
  <2> QED
    BY <2>2 DEF ClickInv
<1>2. CASE audio = "none"
  BY <1>2 DEF ClickInv
<1>3. CASE audio \in {"ready", "failed"}
  BY <1>3, FinishCases DEF TypeOK
<1> QED
  BY <1>1, <1>2, <1>3 DEF TypeOK

\* A step that only finishes clicks, without touching a connecting socket.
LEMMA ClickFinished ==
    ASSUME TypeOK, ClickInv, ForCause,
           NEW l \in Line, task[l] \in {"checking", "opening"},
           NEW r \in {"sent", "failed", "lost", "refused"},
           task' = [task EXCEPT ![l] = r],
           r \in {"failed", "lost"} => audio = "failed" \/ l \in overlapped,
           \A s \in Socket : socket[s] = "connecting" =>
               socket'[s] = "connecting" \/ (task[l] = "opening" /\ s = waiting[l]),
           UNCHANGED <<audio, waiting, ws, overlapped>>
    PROVE  ClickInv' /\ ForCause'
<1>1. audio # "none"
  BY DEF ClickInv
<1>2. audio = "loading" => \E m \in Line : task'[m] = "loading"
  <2> SUFFICES ASSUME audio = "loading" PROVE \E m \in Line : task'[m] = "loading"
    OBVIOUS
  <2>1. PICK m \in Line : task[m] = "loading"
    BY DEF ClickInv
  <2> QED
    BY <2>1 DEF TypeOK
<1>3. \A m \in Line : m # l => task'[m] = task[m]
  BY DEF TypeOK
<1>4. task'[l] = r
  BY DEF TypeOK
<1>5. \A m, n \in UnderWay' : m \in UnderWay /\ n \in UnderWay
  BY <1>3, <1>4 DEF UnderWay
<1>6. \A m, n \in UnderWay' : m # n => m \in overlapped'
  BY <1>5 DEF ClickInv
<1>7. ASSUME NEW m \in Line, task'[m] = "opening"
      PROVE  /\ waiting'[m] \in Socket
             /\ socket'[waiting'[m]] = "connecting"
             /\ ws' \in Socket
             /\ ws' = waiting'[m] \/ m \in overlapped'
  <2>1. m # l /\ task[m] = "opening"
    BY <1>3, <1>4, <1>7
  <2>2. task[l] = "opening" => waiting[m] # waiting[l]
    BY <2>1 DEF ClickInv
  <2> QED
    BY <2>1, <2>2 DEF ClickInv
<1>8. ClickInv'
  BY <1>1, <1>2, <1>3, <1>4, <1>6, <1>7 DEF ClickInv
<1>9. ForCause'
  BY <1>3, <1>4 DEF ForCause
<1> QED
  BY <1>8, <1>9

LEMMA FinishResult ==
    ASSUME TypeOK, NEW l \in Line, Finish(l)
    PROVE  \E r \in {"sent", "failed", "lost", "refused"} : task' = [task EXCEPT ![l] = r]
BY FinishCases

LEMMA ClickStep ==
    ASSUME TypeOK, ClickInv, ForCause, [Next]_vars
    PROVE  ClickInv' /\ ForCause'
<1>1. ASSUME NEW l \in Line, Click(l) PROVE ClickInv' /\ ForCause'
  <2>1. /\ task[l] = "none"
        /\ task' = [task EXCEPT ![l] = IF audio = "none" THEN "loading" ELSE "checking"]
        /\ audio' = IF audio = "none" THEN "loading" ELSE audio
        /\ overlapped' = IF UnderWay = {} THEN overlapped
                         ELSE overlapped \cup UnderWay \cup {l}
        /\ UNCHANGED <<waiting, ws, socket>>
    BY <1>1 DEF Click
  <2>2. UnderWay' = UnderWay \cup {l}
    BY <2>1 DEF UnderWay, TypeOK
  <2>3. \A m, n \in UnderWay' : m # n => m \in overlapped'
    BY <2>1, <2>2 DEF ClickInv
  <2>4. audio' # "none"
    BY <2>1
  <2>5. audio' = "loading" => \E m \in Line : task'[m] = "loading"
    <3>1. CASE audio = "none"
      BY <2>1, <3>1 DEF TypeOK
    <3>2. CASE audio = "loading"
      <4>1. PICK m \in Line : task[m] = "loading"
        BY <3>2 DEF ClickInv
      <4> QED
        BY <2>1, <4>1 DEF TypeOK
    <3> QED
      BY <2>1, <3>1, <3>2
  <2>6. \A m \in Line : task'[m] = "loading" => audio' = "loading"
    BY <2>1 DEF TypeOK, ClickInv
  <2>7. \A m, n \in Line : task'[m] = "loading" /\ task'[n] = "loading" => m = n
    BY <2>1 DEF TypeOK, ClickInv
  <2>8. \A m \in Line : task'[m] = "opening" => task[m] = "opening"
    BY <2>1 DEF TypeOK
  <2>9. overlapped \subseteq overlapped'
    BY <2>1
  <2>10. ClickInv'
    <3>1. ASSUME NEW m \in Line, task'[m] = "opening"
          PROVE  /\ task[m] = "opening"
                 /\ waiting'[m] \in Socket
                 /\ socket'[waiting'[m]] = "connecting"
                 /\ ws' \in Socket
                 /\ ws' = waiting'[m] \/ m \in overlapped'
      BY <2>1, <2>8, <2>9, <3>1 DEF ClickInv
    <3>2. \A m, n \in Line : task'[m] = "opening" /\ task'[n] = "opening"
                               /\ waiting'[m] = waiting'[n] => m = n
      BY <2>1, <2>8 DEF ClickInv
    <3> QED
      BY <2>3, <2>4, <2>5, <2>6, <2>7, <3>1, <3>2 DEF ClickInv
  <2>11. ForCause'
    BY <2>1, <2>9 DEF ForCause, TypeOK
  <2> QED
    BY <2>10, <2>11
<1>2. ASSUME NEW l \in Line, Load(l) PROVE ClickInv' /\ ForCause'
  <2>1. /\ task[l] = "loading" /\ audio = "loading"
        /\ UNCHANGED <<waiting, ws, socket, overlapped>>
    BY <1>2 DEF Load, ClickInv
  <2>2. \A m \in Line : m # l => task[m] # "loading" /\ task'[m] = task[m]
    BY <1>2, <2>1 DEF Load, ClickInv, TypeOK
  <2>3. \/ audio' = "ready" /\ task'[l] = "checking"
        \/ audio' = "failed" /\ task'[l] = "failed"
    BY <1>2 DEF Load, TypeOK
  <2>4. UnderWay' \subseteq UnderWay
    BY <2>1, <2>2 DEF UnderWay
  <2>5. \A m \in Line : task'[m] = "opening" => task[m] = "opening"
    BY <2>2, <2>3
  <2>6. ClickInv'
    BY <2>1, <2>2, <2>3, <2>4, <2>5 DEF ClickInv
  <2>7. ForCause'
    BY <2>1, <2>2, <2>3 DEF ForCause
  <2> QED
    BY <2>6, <2>7
<1>3. ASSUME NEW l \in Line, SendAtOnce(l) PROVE ClickInv' /\ ForCause'
  <2>1. /\ Finish(l) /\ task[l] = "checking" /\ socket'[ws] = "open"
        /\ UNCHANGED <<audio, waiting, ws, overlapped, socket>>
    BY <1>3 DEF SendAtOnce, CurrentOpen
  <2>2. PICK r \in {"sent", "failed", "lost", "refused"} : task' = [task EXCEPT ![l] = r]
    BY <2>1, FinishResult
  <2>3. r \in {"failed", "lost"} => audio = "failed" \/ l \in overlapped
    BY <2>1, <2>2, FinishedForCause DEF TypeOK
  <2> QED
    BY <2>1, <2>2, <2>3, ClickFinished
<1>4. ASSUME NEW l \in Line, NEW s \in Socket, OpenSocket(l, s)
      PROVE  ClickInv' /\ ForCause'
  <2>1. /\ task[l] = "checking" /\ socket[s] = "unused"
        /\ task' = [task EXCEPT ![l] = "opening"]
        /\ waiting' = [waiting EXCEPT ![l] = s]
        /\ ws' = s
        /\ socket' = [socket EXCEPT ![s] = "connecting"]
        /\ UNCHANGED <<audio, overlapped>>
    BY <1>4 DEF OpenSocket, Fresh
  <2>2. UnderWay' = UnderWay /\ l \in UnderWay
    BY <2>1 DEF UnderWay, TypeOK
  <2>3. /\ task'[l] = "opening" /\ waiting'[l] = s /\ socket'[s] = "connecting"
        /\ \A m \in Line : m # l => task'[m] = task[m] /\ waiting'[m] = waiting[m]
        /\ \A t \in Socket : t # s => socket'[t] = socket[t]
    BY <2>1 DEF TypeOK
  <2>4. \A m \in Line : task[m] = "opening" =>
            /\ m \in overlapped
            /\ waiting[m] \in Socket /\ waiting[m] # s
            /\ socket[waiting[m]] = "connecting"
    <3> SUFFICES ASSUME NEW m \in Line, task[m] = "opening"
                 PROVE  /\ m \in overlapped
                        /\ waiting[m] \in Socket /\ waiting[m] # s
                        /\ socket[waiting[m]] = "connecting"
      OBVIOUS
    <3>1. m \in UnderWay /\ m # l
      BY <2>1 DEF UnderWay
    <3> QED
      BY <2>1, <2>2, <3>1 DEF ClickInv
  <2>5. audio # "none"
    BY <2>1 DEF ClickInv
  <2>6. \A m \in Line : task'[m] = "loading" <=> task[m] = "loading"
    BY <2>1, <2>3
  <2>7. /\ audio = "loading" => \E m \in Line : task'[m] = "loading"
        /\ \A m \in Line : task'[m] = "loading" => audio = "loading"
        /\ \A m, n \in Line : task'[m] = "loading" /\ task'[n] = "loading" => m = n
    BY <2>6 DEF ClickInv
  <2>8. \A m, n \in UnderWay' : m # n => m \in overlapped'
    BY <2>1, <2>2 DEF ClickInv
  <2>9. \A m \in Line : task'[m] = "opening" =>
            /\ waiting'[m] \in Socket
            /\ socket'[waiting'[m]] = "connecting"
            /\ ws' \in Socket
            /\ ws' = waiting'[m] \/ m \in overlapped'
    BY <2>1, <2>3, <2>4
  <2>10. \A m, n \in Line : task'[m] = "opening" /\ task'[n] = "opening"
                              /\ waiting'[m] = waiting'[n] => m = n
    <3> SUFFICES ASSUME NEW m \in Line, NEW n \in Line, task'[m] = "opening",
                        task'[n] = "opening", waiting'[m] = waiting'[n]
                 PROVE  m = n
      OBVIOUS
    <3>1. CASE m # l /\ n # l
      BY <2>3, <3>1 DEF ClickInv
    <3>2. CASE m = l \/ n = l
      BY <2>3, <2>4, <3>2
    <3> QED
      BY <3>1, <3>2
  <2>11. ClickInv'
    BY <2>1, <2>5, <2>7, <2>8, <2>9, <2>10 DEF ClickInv
  <2>12. ForCause'
    BY <2>1, <2>3 DEF ForCause
  <2> QED
    BY <2>11, <2>12
<1>5. ASSUME NEW l \in Line, Opened(l) PROVE ClickInv' /\ ForCause'
  <2>1. /\ Finish(l) /\ task[l] = "opening"
        /\ socket' = [socket EXCEPT ![waiting[l]] = "open"]
        /\ UNCHANGED <<audio, waiting, ws, overlapped>>
    BY <1>5 DEF Opened
  <2>2. waiting[l] \in Socket /\ (ws = waiting[l] \/ l \in overlapped)
    BY <2>1 DEF ClickInv
  <2>3. socket'[ws] = "open" \/ l \in overlapped
    BY <2>1, <2>2 DEF TypeOK
  <2>4. PICK r \in {"sent", "failed", "lost", "refused"} : task' = [task EXCEPT ![l] = r]
    BY <2>1, FinishResult
  <2>5. r \in {"failed", "lost"} => audio = "failed" \/ l \in overlapped
    BY <2>1, <2>3, <2>4, FinishedForCause DEF TypeOK
  <2>6. \A s \in Socket : socket[s] = "connecting" =>
            socket'[s] = "connecting" \/ (task[l] = "opening" /\ s = waiting[l])
    BY <2>1 DEF TypeOK
  <2> QED
    BY <2>1, <2>4, <2>5, <2>6, ClickFinished
<1>6. ASSUME NEW l \in Line, OpenFails(l) PROVE ClickInv' /\ ForCause'
  <2>1. /\ task[l] = "opening"
        /\ task' = [task EXCEPT ![l] = "refused"]
        /\ UNCHANGED <<audio, waiting, ws, overlapped>>
    BY <1>6 DEF OpenFails
  <2>2. \A s \in Socket : socket[s] = "connecting" =>
            socket'[s] = "connecting" \/ (task[l] = "opening" /\ s = waiting[l])
    BY <1>6 DEF OpenFails, TypeOK
  <2> QED
    BY <2>1, <2>2, ClickFinished
<1>7. ASSUME NEW s \in Socket, Deliver(s) \/ Drop(s) PROVE ClickInv' /\ ForCause'
  <2>1. /\ socket[s] = "open"
        /\ UNCHANGED <<audio, task, waiting, ws, overlapped>>
        /\ \A t \in Socket : t # s => socket'[t] = socket[t]
    BY <1>7 DEF Deliver, Drop, pageVars, TypeOK
  <2>2. \A t \in Socket : socket[t] = "connecting" => socket'[t] = "connecting"
    BY <2>1
  <2> QED
    BY <2>1, <2>2 DEF ClickInv, ForCause, UnderWay
<1>8. ASSUME NEW s \in Socket, SessionStep(s) PROVE ClickInv' /\ ForCause'
  <2>1. UNCHANGED <<pageVars, socket>>
    BY <1>8 DEF SessionStep, Refuse, Admit, Start, Frame, End, EngineFails, Abandon, Wedge
  <2> QED
    BY <2>1 DEF ClickInv, ForCause, UnderWay, pageVars
<1>9. CASE PortMessage \/ Play \/ Settled \/ UNCHANGED vars
  <2>1. UNCHANGED <<pageVars, socket>>
    BY <1>9 DEF PortMessage, Play, Settled, vars
  <2> QED
    BY <2>1 DEF ClickInv, ForCause, UnderWay, pageVars
<1> QED
  BY <1>1, <1>2, <1>3, <1>4, <1>5, <1>6, <1>7, <1>8, <1>9 DEF Next, PageStep

-----------------------------------------------------------------------------
(* Sockets                                                                 *)

\* A session's step concerns a socket that has been opened, and takes a line
\* only from one that is still open.
LEMMA SessionFrame ==
    ASSUME TypeOK, SocketInv, NEW s \in Socket, SessionStep(s)
    PROVE  /\ socket[s] \in {"open", "closed"}
           /\ UNCHANGED <<pageVars, socket, workletVars, log>>
           /\ up'[s] # up[s] => socket[s] = "open"
           /\ \A t \in Socket : t # s =>
                 up'[t] = up[t] /\ down'[t] = down[t] /\ session'[t] = session[t]
<1>1. session[s] # Over
  BY SessionCases
  DEF SessionStep, Refuse, Admit, Start, Frame, End, EngineFails, Abandon, Wedge,
      Idle, Over, TypeOK
<1>2. socket[s] \in {"open", "closed"}
  BY <1>1 DEF SocketInv, TypeOK
<1>3. UNCHANGED <<pageVars, socket, workletVars, log>>
  BY DEF SessionStep, Refuse, Admit, Start, Frame, End, EngineFails, Abandon, Wedge
<1>4. socket[s] = "closed" => up[s] = <<>>
  BY DEF SocketInv
<1>5. up'[s] # up[s] => up[s] # <<>>
  BY DEF SessionStep, Refuse, Admit, Start, Frame, End, EngineFails, Abandon, Wedge,
         TypeOK
<1>6. ASSUME NEW t \in Socket, t # s
      PROVE  up'[t] = up[t] /\ down'[t] = down[t] /\ session'[t] = session[t]
  BY <1>6
  DEF SessionStep, Refuse, Admit, Start, Frame, End, EngineFails, Abandon, Wedge,
      TypeOK, serverVars
<1> QED
  BY <1>2, <1>3, <1>4, <1>5, <1>6

\* The end of a click adds its line to the current socket, if that is open.
LEMMA FinishSocket ==
    ASSUME TypeOK, NEW l \in Line, Finish(l), ws \in Socket, NEW s \in Socket
    PROVE  \/ up'[s] = up[s] /\ via'[s] = via[s]
           \/ /\ s = ws /\ socket'[s] = "open"
              /\ up'[s] = Append(up[s], l) /\ via'[s] = Append(via[s], l)
              /\ task'[l] = "sent"
              /\ sent' = Append(sent, l)
BY FinishCases DEF TypeOK

LEMMA SocketStep ==
    ASSUME TypeOK, ClickInv, SocketInv, [Next]_vars
    PROVE  SocketInv'
<1>1. ASSUME NEW l \in Line, SendAtOnce(l) PROVE SocketInv'
  <2>1. /\ Finish(l) /\ ws \in Socket
        /\ UNCHANGED <<ws, socket, down, session, log>>
    BY <1>1 DEF SendAtOnce, CurrentOpen, TypeOK, serverVars
  <2> SUFFICES ASSUME NEW s \in Socket
               PROVE  /\ socket'[s] \in {"unused", "connecting"} =>
                            /\ via'[s] = <<>> /\ log'[s] = <<>> /\ up'[s] = <<>>
                            /\ down'[s] = <<>> /\ session'[s] = Over
                      /\ socket'[s] = "open" /\ via'[s] # <<>> => s = ws'
                      /\ socket'[s] = "closed" => up'[s] = <<>>
    BY DEF SocketInv
  <2> QED
    BY <2>1, FinishSocket DEF SocketInv
<1>2. ASSUME NEW l \in Line, Opened(l) PROVE SocketInv'
  <2>1. /\ Finish(l) /\ ws \in Socket /\ waiting[l] \in Socket
        /\ socket[waiting[l]] = "connecting"
        /\ socket' = [socket EXCEPT ![waiting[l]] = "open"]
        /\ session' = [session EXCEPT ![waiting[l]] = Idle]
        /\ UNCHANGED <<ws, down, log>>
    BY <1>2 DEF Opened, ClickInv
  <2> SUFFICES ASSUME NEW s \in Socket
               PROVE  /\ socket'[s] \in {"unused", "connecting"} =>
                            /\ via'[s] = <<>> /\ log'[s] = <<>> /\ up'[s] = <<>>
                            /\ down'[s] = <<>> /\ session'[s] = Over
                      /\ socket'[s] = "open" /\ via'[s] # <<>> => s = ws'
                      /\ socket'[s] = "closed" => up'[s] = <<>>
    BY DEF SocketInv
  <2>2. CASE s = waiting[l]
    BY <2>1, <2>2, FinishSocket DEF SocketInv, TypeOK
  <2>3. CASE s # waiting[l]
    BY <2>1, <2>3, FinishSocket DEF SocketInv, TypeOK
  <2> QED
    BY <2>2, <2>3
<1>3. ASSUME NEW l \in Line, NEW t \in Socket, OpenSocket(l, t) PROVE SocketInv'
  <2>1. \A s \in Socket : socket[s] = "open" => via[s] = <<>>
    BY <1>3, WebAssumption DEF OpenSocket, CurrentOpen, SocketInv
  <2>2. /\ socket[t] = "unused"
        /\ socket' = [socket EXCEPT ![t] = "connecting"]
        /\ UNCHANGED <<via, up, down, session, log>>
    BY <1>3 DEF OpenSocket, Fresh, serverVars
  <2> QED
    BY <2>1, <2>2 DEF SocketInv, TypeOK
<1>4. ASSUME NEW l \in Line, OpenFails(l) PROVE SocketInv'
  <2>1. /\ waiting[l] \in Socket /\ socket[waiting[l]] = "connecting"
        /\ socket' = [socket EXCEPT ![waiting[l]] = "closed"]
        /\ UNCHANGED <<ws, via, up, down, session, log>>
    BY <1>4 DEF OpenFails, ClickInv, serverVars
  <2> QED
    BY <2>1 DEF SocketInv, TypeOK
<1>5. ASSUME NEW t \in Socket, SessionStep(t) PROVE SocketInv'
  <2>1. socket[t] = "closed" => up'[t] = <<>>
    BY <1>5, SessionFrame DEF SocketInv
  <2> QED
    BY <1>5, <2>1, SessionFrame DEF SocketInv, pageVars
<1>6. ASSUME NEW t \in Socket, Deliver(t) \/ Drop(t) PROVE SocketInv'
  <2>1. /\ socket[t] = "open" /\ socket'[t] \in {"open", "closed"}
        /\ socket'[t] = "closed" => up'[t] = <<>>
        /\ \A s \in Socket : s # t =>
              /\ socket'[s] = socket[s] /\ up'[s] = up[s]
              /\ down'[s] = down[s] /\ log'[s] = log[s]
        /\ UNCHANGED <<ws, via, session>>
    BY <1>6 DEF Deliver, Drop, TypeOK, pageVars, serverVars
  <2> QED
    BY <2>1 DEF SocketInv, TypeOK
<1>7. ASSUME NEW l \in Line, Click(l) \/ Load(l) PROVE SocketInv'
  BY <1>7 DEF Click, Load, SocketInv, serverVars
<1>8. CASE PortMessage \/ Play \/ Settled \/ UNCHANGED vars
  BY <1>8 DEF PortMessage, Play, Settled, vars, SocketInv, serverVars, pageVars
<1> QED
  BY <1>1, <1>2, <1>3, <1>4, <1>5, <1>6, <1>7, <1>8 DEF Next, PageStep

\* A socket that closed before it opened stays as it is.
LEMMA NeverOpens ==
    ASSUME TypeOK, ClickInv, SocketInv, [Next]_vars,
           NEW s \in Socket, socket[s] = "closed", session[s] = Over
    PROVE  /\ socket'[s] = "closed" /\ session'[s] = Over
           /\ via'[s] = via[s] /\ log'[s] = log[s]
<1>1. ASSUME NEW l \in Line, SendAtOnce(l) PROVE via'[s] = via[s]
  <2>1. Finish(l) /\ ws \in Socket /\ socket'[s] = "closed"
    BY <1>1 DEF SendAtOnce, CurrentOpen, TypeOK
  <2> QED
    BY <2>1, FinishSocket
<1>2. ASSUME NEW l \in Line, Opened(l)
      PROVE  /\ socket'[s] = "closed" /\ session'[s] = Over
             /\ via'[s] = via[s]
  <2>1. /\ Finish(l) /\ ws \in Socket /\ waiting[l] # s
        /\ socket' = [socket EXCEPT ![waiting[l]] = "open"]
        /\ session' = [session EXCEPT ![waiting[l]] = Idle]
    BY <1>2 DEF Opened, ClickInv
  <2>2. socket'[s] = "closed" /\ session'[s] = Over
    BY <2>1 DEF TypeOK
  <2> QED
    BY <2>1, <2>2, FinishSocket
<1>3. ASSUME NEW t \in Socket, SessionStep(t) PROVE session'[s] = Over
  <2>1. session[t] # Over
    BY <1>3, SessionCases
    DEF SessionStep, Refuse, Admit, Start, Frame, End, EngineFails, Abandon, Wedge,
        Idle, Over, TypeOK
  <2> QED
    BY <1>3, <2>1, SessionFrame
<1>4. ASSUME NEW t \in Socket, Deliver(t) \/ Drop(t)
      PROVE  socket'[s] = "closed" /\ log'[s] = log[s]
  BY <1>4 DEF Deliver, Drop, TypeOK
<1>5. ASSUME NEW l \in Line, NEW t \in Socket, OpenSocket(l, t) PROVE socket'[s] = "closed"
  BY <1>5 DEF OpenSocket, Fresh, TypeOK
<1>6. ASSUME NEW l \in Line, OpenFails(l) PROVE socket'[s] = "closed"
  BY <1>6 DEF OpenFails, TypeOK
<1>7. socket'[s] = "closed"
  BY <1>2, <1>4, <1>5, <1>6
  DEF Next, PageStep, Click, Load, SendAtOnce, SessionStep, Refuse, Admit, Start, Frame,
      End, EngineFails, Abandon, Wedge, PortMessage, Play, Settled, vars
<1>8. session'[s] = Over
  BY <1>2, <1>3
  DEF Next, PageStep, Click, Load, SendAtOnce, OpenSocket, OpenFails, Deliver, Drop,
      PortMessage, Play, Settled, vars, serverVars
<1>9. via'[s] = via[s]
  <2>1. ASSUME NEW t \in Socket, SessionStep(t) PROVE via' = via
    BY <2>1, SessionFrame DEF pageVars
  <2> QED
    BY <1>1, <1>2, <2>1
    DEF Next, PageStep, Click, Load, OpenSocket, OpenFails, Deliver, Drop,
        PortMessage, Play, Settled, vars, pageVars
<1>10. log'[s] = log[s]
  BY <1>4
  DEF Next, PageStep, Click, Load, SendAtOnce, OpenSocket, Opened, OpenFails, SessionStep,
      Refuse, Admit, Start, Frame, End, EngineFails, Abandon, Wedge,
      PortMessage, Play, Settled, vars
<1> QED
  BY <1>7, <1>8, <1>9, <1>10

\* What becomes of a click is settled once.
LEMMA StaysRefused ==
    ASSUME TypeOK, NEW m \in Line, task[m] = "refused", [Next]_vars
    PROVE  waiting'[m] = waiting[m]
BY DEF Next, PageStep, Click, Load, SendAtOnce, OpenSocket, Opened, OpenFails, SessionStep,
       Refuse, Admit, Start, Frame, End, EngineFails, Abandon, Wedge, Deliver, Drop,
       PortMessage, Play, Settled, vars, pageVars, TypeOK

\* Only the failure of its own socket refuses a click.
LEMMA RefusedByItsSocket ==
    ASSUME TypeOK, NEW m \in Line, task[m] # "refused", task'[m] = "refused", [Next]_vars
    PROVE  OpenFails(m)
<1>1. ASSUME NEW l \in Line, SendAtOnce(l) \/ Opened(l) PROVE FALSE
  <2>1. Finish(l)
    BY <1>1 DEF SendAtOnce, Opened
  <2> QED
    BY <2>1, FinishCases DEF TypeOK
<1>2. ASSUME NEW l \in Line, Click(l) \/ Load(l) \/ \E s \in Socket : OpenSocket(l, s)
      PROVE  FALSE
  BY <1>2 DEF Click, Load, OpenSocket, TypeOK
<1>3. ASSUME task' = task PROVE FALSE
  BY <1>3
<1>4. ASSUME NEW l \in Line, OpenFails(l) PROVE OpenFails(m)
  BY <1>4 DEF OpenFails, TypeOK
<1>5. ASSUME NEW s \in Socket, SessionStep(s) \/ Deliver(s) \/ Drop(s) PROVE FALSE
  BY <1>3, <1>5
  DEF SessionStep, Refuse, Admit, Start, Frame, End, EngineFails, Abandon, Wedge,
      Deliver, Drop, pageVars
<1>6. CASE PortMessage \/ Play \/ Settled \/ UNCHANGED vars
  BY <1>3, <1>6 DEF PortMessage, Play, Settled, vars, pageVars
<1> QED
  BY <1>1, <1>2, <1>4, <1>5, <1>6 DEF Next, PageStep

LEMMA RefusedStep ==
    ASSUME TypeOK, ClickInv, SocketInv, RefusedInv, [Next]_vars
    PROVE  RefusedInv'
<1> SUFFICES ASSUME NEW m \in Line, task'[m] = "refused"
             PROVE  /\ waiting'[m] # 0 /\ socket'[waiting'[m]] = "closed"
                    /\ via'[waiting'[m]] = <<>> /\ log'[waiting'[m]] = <<>>
                    /\ session'[waiting'[m]] = Over
  BY DEF RefusedInv, NeverOpened
<1>1. CASE task[m] = "refused"
  <2>1. /\ waiting[m] \in Socket /\ socket[waiting[m]] = "closed"
        /\ via[waiting[m]] = <<>> /\ log[waiting[m]] = <<>> /\ session[waiting[m]] = Over
        /\ waiting[m] # 0
    BY <1>1 DEF RefusedInv, NeverOpened, TypeOK
  <2> QED
    BY <1>1, <2>1, NeverOpens, StaysRefused
<1>2. CASE task[m] # "refused"
  <2>1. OpenFails(m)
    BY <1>2, RefusedByItsSocket
  <2>2. /\ waiting[m] \in Socket /\ waiting[m] # 0 /\ socket[waiting[m]] = "connecting"
    BY <2>1, WebAssumption DEF OpenFails, ClickInv
  <2> QED
    BY <2>1, <2>2 DEF OpenFails, SocketInv, TypeOK, serverVars
<1> QED
  BY <1>1, <1>2

-----------------------------------------------------------------------------
(* The order of the lines                                                  *)

LEMMA OrdOfSent ==
    ASSUME TypeOK, NEW l, IsSent(l)
    PROVE  Ord(l) \in 1..Len(sent) /\ sent[Ord(l)] = l
BY PlaceIs DEF IsSent, Ord, Contains

\* Sending a line changes the place of no line that was sent, and comes last.
LEMMA OrdOfNew ==
    ASSUME TypeOK, SentInv, NEW l \in Line, task[l] # "sent", sent' = Append(sent, l)
    PROVE  /\ Len(sent) \in Nat
           /\ Place(sent', l) = Len(sent) + 1
           /\ \A m : IsSent(m) =>
                 /\ Contains(sent', m)
                 /\ Place(sent', m) = Ord(m)
                 /\ Ord(m) \in 1..Len(sent)
           /\ Contains(sent', l)
<1>1. /\ Len(sent') = Len(sent) + 1
      /\ sent'[Len(sent) + 1] = l
      /\ Len(sent) \in Nat
      /\ \A i \in 1..Len(sent) : sent'[i] = sent[i]
  BY AppendProperties, LenProperties DEF TypeOK
<1>2. /\ sent \in Seq(Line)
      /\ \A i, j \in 1..Len(sent) : sent[i] = sent[j] => i = j
      /\ \A i \in 1..Len(sent) : sent[i] # l
  BY DEF TypeOK, SentInv
<1>3. /\ Place(Append(sent, l), l) = Len(sent) + 1
      /\ \A m : (\E i \in 1..Len(sent) : sent[i] = m) =>
            /\ Place(Append(sent, l), m) = Place(sent, m)
            /\ Place(sent, m) \in 1..Len(sent)
  BY <1>2, PlaceOfAppend
<1>4. \A m : IsSent(m) => Contains(sent', m)
  BY <1>1 DEF IsSent, Contains
<1>5. Contains(sent', l)
  <2>1. Len(sent) + 1 \in 1..Len(sent')
    BY <1>1
  <2> QED
    BY <1>1, <2>1 DEF Contains
<1> QED
  BY <1>1, <1>3, <1>4, <1>5 DEF IsSent, Ord, Contains

LEMMA ViaIsSent ==
    ASSUME SentInv, NEW s \in Socket, NEW i \in 1..Len(via[s])
    PROVE  IsSent(via[s][i])
BY DEF SentInv, IsSent, Contains

LEMMA FinishSent ==
    ASSUME TypeOK, SentInv, ViaInv, NEW l \in Line, task[l] # "sent",
           Finish(l), ws \in Socket
    PROVE  SentInv' /\ ViaInv'
<1>1. CASE sent' = sent /\ via' = via
  <2>1. \A i \in 1..Len(sent) : task'[sent[i]] = task[sent[i]]
    <3> SUFFICES ASSUME NEW i \in 1..Len(sent) PROVE task'[sent[i]] = task[sent[i]]
      OBVIOUS
    <3>1. sent[i] \in Line /\ sent[i] # l
      BY ElementOfSeq DEF SentInv, TypeOK
    <3>2. PICK r \in {"sent", "failed", "lost", "refused"} : task' = [task EXCEPT ![l] = r]
      BY FinishResult
    <3> QED
      BY <3>1, <3>2 DEF TypeOK
  <2> QED
    BY <1>1, <2>1 DEF SentInv, ViaInv, Ord
<1>2. CASE /\ task' = [task EXCEPT ![l] = "sent"]
           /\ sent' = Append(sent, l)
           /\ via' = [via EXCEPT ![ws] = Append(@, l)]
  <2>1. /\ Len(sent') = Len(sent) + 1
        /\ sent'[Len(sent) + 1] = l
        /\ Len(sent) \in Nat
        /\ \A i \in 1..Len(sent) : sent'[i] = sent[i] /\ sent[i] # l /\ sent[i] \in Line
    BY <1>2, AppendProperties, LenProperties, ElementOfSeq DEF TypeOK, SentInv
  <2>2. \A i \in 1..Len(sent') : i \in 1..Len(sent) \/ i = Len(sent) + 1
    BY <2>1
  <2>3. \A i, j \in 1..Len(sent') : sent'[i] = sent'[j] => i = j
    BY <2>1, <2>2 DEF SentInv
  <2>4. \A i \in 1..Len(sent') : task'[sent'[i]] = "sent"
    BY <1>2, <2>1, <2>2 DEF SentInv, TypeOK
  <2>5. /\ Len(sent) \in Nat
        /\ Place(sent', l) = Len(sent) + 1
        /\ \A m : IsSent(m) =>
              /\ Contains(sent', m)
              /\ Place(sent', m) = Ord(m)
              /\ Ord(m) \in 1..Len(sent)
        /\ Contains(sent', l)
    BY <1>2, OrdOfNew
  <2>6. ASSUME NEW s \in Socket
        PROVE  /\ \A i \in 1..Len(via'[s]) : Contains(sent', via'[s][i])
               /\ \A i, j \in 1..Len(via'[s]) :
                     i < j => Place(sent', via'[s][i]) < Place(sent', via'[s][j])
    <3>1. \A i \in 1..Len(via[s]) : IsSent(via[s][i])
      BY ViaIsSent
    <3>2. CASE via'[s] = via[s]
      BY <2>5, <3>1, <3>2 DEF ViaInv
    <3>3. CASE via'[s] = Append(via[s], l)
      <4>1. /\ Len(via'[s]) = Len(via[s]) + 1
            /\ via'[s][Len(via[s]) + 1] = l
            /\ Len(via[s]) \in Nat
            /\ \A i \in 1..Len(via[s]) : via'[s][i] = via[s][i]
        BY <3>3, AppendProperties, LenProperties DEF TypeOK
      <4>2. \A i \in 1..Len(via'[s]) : i \in 1..Len(via[s]) \/ i = Len(via[s]) + 1
        BY <4>1
      <4>3. \A i \in 1..Len(via'[s]) : Contains(sent', via'[s][i])
        BY <2>5, <3>1, <4>1, <4>2
      <4>4. ASSUME NEW i \in 1..Len(via'[s]), NEW j \in 1..Len(via'[s]), i < j
            PROVE  Place(sent', via'[s][i]) < Place(sent', via'[s][j])
        <5>1. i \in 1..Len(via[s])
          BY <4>1, <4>4
        <5>2. CASE j \in 1..Len(via[s])
          BY <2>5, <3>1, <4>1, <4>4, <5>1, <5>2 DEF ViaInv
        <5>3. CASE j = Len(via[s]) + 1
          BY <2>5, <3>1, <4>1, <5>1, <5>3
        <5> QED
          BY <4>2, <5>2, <5>3
      <4> QED
        BY <4>3, <4>4
    <3> QED
      BY <1>2, <3>2, <3>3 DEF TypeOK
  <2> QED
    BY <2>3, <2>4, <2>6 DEF SentInv, ViaInv, Ord, Contains
<1> QED
  BY <1>1, <1>2, FinishCases

LEMMA SentStep ==
    ASSUME TypeOK, ClickInv, SocketInv, SentInv, ViaInv, [Next]_vars
    PROVE  SentInv' /\ ViaInv'
<1>1. ASSUME NEW l \in Line, SendAtOnce(l) \/ Opened(l) PROVE SentInv' /\ ViaInv'
  <2>1. Finish(l) /\ ws \in Socket /\ task[l] # "sent"
    BY <1>1 DEF SendAtOnce, Opened, CurrentOpen, ClickInv, TypeOK
  <2> QED
    BY <2>1, FinishSent
<1>2. ASSUME \A l \in Line : task[l] = "sent" => task'[l] = "sent",
             UNCHANGED <<sent, via>>
      PROVE  SentInv' /\ ViaInv'
  <2>1. \A i \in 1..Len(sent) : task'[sent[i]] = "sent"
    BY <1>2, ElementOfSeq DEF SentInv, TypeOK
  <2> QED
    BY <1>2, <2>1 DEF SentInv, ViaInv, Ord
<1>3. ASSUME NEW l \in Line,
             Click(l) \/ Load(l) \/ (\E s \in Socket : OpenSocket(l, s)) \/ OpenFails(l)
      PROVE  SentInv' /\ ViaInv'
  <2>1. \A m \in Line : task[m] = "sent" => task'[m] = "sent"
    BY <1>3 DEF Click, Load, OpenSocket, OpenFails, TypeOK
  <2>2. UNCHANGED <<sent, via>>
    BY <1>3 DEF Click, Load, OpenSocket, OpenFails
  <2> QED
    BY <1>2, <2>1, <2>2
<1>4. ASSUME NEW s \in Socket, SessionStep(s) \/ Deliver(s) \/ Drop(s)
      PROVE  SentInv' /\ ViaInv'
  <2>1. UNCHANGED pageVars
    BY <1>4, SessionFrame DEF Deliver, Drop
  <2> QED
    BY <1>2, <2>1 DEF pageVars
<1>5. CASE PortMessage \/ Play \/ Settled \/ UNCHANGED vars
  <2>1. UNCHANGED pageVars
    BY <1>5 DEF PortMessage, Play, Settled, vars
  <2> QED
    BY <1>2, <2>1 DEF pageVars
<1> QED
  BY <1>1, <1>3, <1>4, <1>5 DEF Next, PageStep

-----------------------------------------------------------------------------
(* The answers on a socket, as the session gives them                      *)

\* No line occurs twice.
Once(lines) == \A i, j \in 1..Len(lines) : lines[i] = lines[j] => i = j

LEMMA ViaOnce ==
    ASSUME TypeOK, SentInv, ViaInv, NEW s \in Socket
    PROVE  Once(via[s])
<1> SUFFICES ASSUME NEW i \in 1..Len(via[s]), NEW j \in 1..Len(via[s]),
                    via[s][i] = via[s][j], i < j
             PROVE  FALSE
  BY LenProperties DEF Once, TypeOK
<1>1. Ord(via[s][i]) \in 1..Len(sent)
  BY ViaIsSent, OrdOfSent
<1>2. Ord(via[s][i]) < Ord(via[s][j])
  BY DEF ViaInv
<1>3. Len(sent) \in Nat
  BY LenProperties DEF TypeOK
<1> QED
  BY <1>1, <1>2, <1>3

\* A session that is not speaking has started no answer to its next line.
LEMMA NotStarted ==
    ASSUME NEW st \in Seq(Message), NEW lines \in Seq(Line), Once(lines),
           Answers(st, lines),
           Count(st, Len(st)) < Len(lines),
           \A i \in 1..Len(st) : Count(st, i - 1) < Count(st, Len(st))
    PROVE  ~Started(st, Len(st), lines[Count(st, Len(st)) + 1])
<1> DEFINE c == Count(st, Len(st))
<1>1. Len(st) \in Nat /\ Len(lines) \in Nat
  BY LenProperties
<1>2. c \in Nat
  BY <1>1, CountIsFinite
<1> SUFFICES ASSUME NEW i \in 1..Len(st), st[i] = [type |-> "start", line |-> lines[c + 1]]
             PROVE  FALSE
  BY DEF Started
<1>3. Count(st, i - 1) \in Nat /\ Count(st, i - 1) < c
  <2>1. i - 1 \in Nat
    BY <1>1
  <2> QED
    BY <2>1, CountIsFinite
<1>4. lines[Count(st, i - 1) + 1] = lines[c + 1]
  BY DEF Answers
<1> HIDE DEF c
<1>5. Count(st, i - 1) + 1 \in 1..Len(lines) /\ c + 1 \in 1..Len(lines)
  BY <1>1, <1>2, <1>3 DEF c
<1> QED
  BY <1>2, <1>3, <1>4, <1>5 DEF Once

\* After a message that ends an answer, none of what came before is of the next.
LEMMA AllBefore ==
    ASSUME NEW st \in Seq(Message), NEW msg \in Message, Closes(msg.type)
    PROVE  LET nst == Append(st, msg)
           IN  /\ Len(nst) = Len(st) + 1
               /\ Count(nst, Len(nst)) = Count(st, Len(st)) + 1
               /\ \A i \in 1..Len(nst) : Count(nst, i - 1) < Count(nst, Len(nst))
<1> DEFINE nst == Append(st, msg)
<1>1. Len(nst) = Len(st) + 1 /\ Len(st) \in Nat
  BY AppendProperties, LenProperties
<1>2. /\ \A i \in 0..Len(st) : Count(nst, i) = Count(st, i)
      /\ Count(nst, Len(st) + 1) = Count(st, Len(st)) + 1
  BY CountOfAppend
<1>3. Count(st, Len(st)) \in Nat
  BY <1>1, CountIsFinite
<1> HIDE DEF nst
<1>4. ASSUME NEW i \in 1..Len(nst) PROVE Count(nst, i - 1) < Count(nst, Len(nst))
  <2>1. i - 1 \in 0..Len(st) /\ i - 1 \in Nat /\ i - 1 <= Len(st)
    BY <1>1
  <2>2. Count(st, i - 1) <= Count(st, Len(st))
    BY <1>1, <2>1, CountGrows
  <2>3. Count(st, i - 1) \in Nat
    BY <2>1, CountIsFinite
  <2> QED
    BY <1>1, <1>2, <1>3, <2>1, <2>2, <2>3
<1> QED
  BY <1>1, <1>2, <1>4 DEF nst

\* A refusal answers the next line.
LEMMA Refused ==
    ASSUME NEW st \in Seq(Message), NEW lines \in Seq(Line), NEW pending \in Seq(Line),
           Once(lines), Answers(st, lines), AtLine(Idle, pending, lines, st),
           pending # <<>>
    PROVE  LET nst == Append(st, [type |-> "error", line |-> Head(pending)])
           IN  Answers(nst, lines) /\ AtLine(Idle, Tail(pending), lines, nst)
<1> DEFINE c == Count(st, Len(st))
           msg == [type |-> "error", line |-> Head(pending)]
           nst == Append(st, msg)
<1>1. /\ Head(pending) \in Line /\ Head(pending) = pending[1]
      /\ Len(Tail(pending)) = Len(pending) - 1
      /\ \A k \in 1..Len(Tail(pending)) : Tail(pending)[k] = pending[k + 1]
      /\ Len(pending) \in Nat \ {0}
      /\ Len(st) \in Nat /\ Len(lines) \in Nat
  BY HeadTailProperties, LenProperties, EmptySeq
<1>2. c \in Nat
  BY <1>1, CountIsFinite
<1>3. /\ Len(pending) = Len(lines) - c
      /\ \A k \in 1..Len(pending) : pending[k] = lines[c + k]
      /\ \A i \in 1..Len(st) : Count(st, i - 1) < c
  BY DEF AtLine, Idle
<1>4. msg \in Message /\ msg.line = Head(pending) /\ msg.type = "error" /\ Closes(msg.type)
  BY <1>1 DEF Message, Closes
<1> HIDE DEF c, msg
<1>5. c < Len(lines) /\ msg.line = lines[c + 1]
  BY <1>1, <1>2, <1>3, <1>4
<1>6. ~Started(st, Len(st), msg.line)
  BY <1>3, <1>5, NotStarted DEF c
<1>7. Answers(nst, lines)
  BY <1>4, <1>5, <1>6, AnswersOfAppend DEF c
<1>8. /\ Len(nst) = Len(st) + 1
      /\ Count(nst, Len(nst)) = c + 1
      /\ \A i \in 1..Len(nst) : Count(nst, i - 1) < Count(nst, Len(nst))
  BY <1>4, AllBefore DEF c
<1> HIDE DEF nst
<1>9. AtLine(Idle, Tail(pending), lines, nst)
  <2>1. Len(Tail(pending)) = Len(lines) - (c + 1)
    BY <1>1, <1>2, <1>3
  <2>2. ASSUME NEW k \in 1..Len(Tail(pending))
        PROVE  Tail(pending)[k] = lines[(c + 1) + k]
    <3>1. k + 1 \in 1..Len(pending) /\ c + (k + 1) = (c + 1) + k
      BY <1>1, <1>2
    <3> QED
      BY <1>1, <1>3, <3>1
  <2> QED
    BY <1>8, <2>1, <2>2 DEF AtLine, Idle
<1> QED
  BY <1>7, <1>9 DEF nst, msg

\* A session that takes a line takes the next one.
LEMMA Admitted ==
    ASSUME NEW st \in Seq(Message), NEW lines \in Seq(Line), NEW pending \in Seq(Line),
           AtLine(Idle, pending, lines, st), pending # <<>>
    PROVE  AtLine([at |-> "queued", line |-> Head(pending)], Tail(pending), lines, st)
<1> DEFINE c == Count(st, Len(st))
           x == [at |-> "queued", line |-> Head(pending)]
<1>1. /\ Head(pending) = pending[1]
      /\ Len(Tail(pending)) = Len(pending) - 1
      /\ \A k \in 1..Len(Tail(pending)) : Tail(pending)[k] = pending[k + 1]
      /\ Len(pending) \in Nat \ {0}
      /\ Len(st) \in Nat /\ Len(lines) \in Nat
  BY HeadTailProperties, LenProperties, EmptySeq
<1>2. c \in Nat
  BY <1>1, CountIsFinite
<1>3. /\ Len(pending) = Len(lines) - c
      /\ \A k \in 1..Len(pending) : pending[k] = lines[c + k]
      /\ \A i \in 1..Len(st) : Count(st, i - 1) < c
  BY DEF AtLine, Idle
<1>4. x # Idle /\ x.at = "queued" /\ x.line = Head(pending)
  BY DEF Idle
<1> HIDE DEF c, x
<1>5. x.line = lines[c + 1] /\ Len(Tail(pending)) = Len(lines) - (c + 1)
  BY <1>1, <1>2, <1>3, <1>4
<1>6. ASSUME NEW k \in 1..Len(Tail(pending))
      PROVE  Tail(pending)[k] = lines[(c + 1) + k]
  <2>1. k + 1 \in 1..Len(pending) /\ c + (k + 1) = (c + 1) + k
    BY <1>1, <1>2
  <2> QED
    BY <1>1, <1>3, <2>1
<1>7. AtLine(x, Tail(pending), lines, st)
  BY <1>3, <1>4, <1>5, <1>6 DEF AtLine, c
<1> QED
  BY <1>7 DEF x

LEMMA AtItsLine ==
    ASSUME NEW st \in Seq(Message), NEW lines \in Seq(Line), NEW pending \in Seq(Line),
           NEW x \in Session, x.at \in {"queued", "speaking"},
           AtLine(x, pending, lines, st)
    PROVE  /\ Count(st, Len(st)) < Len(lines)
           /\ x.line = lines[Count(st, Len(st)) + 1]
           /\ x.line \in Line
<1>1. Len(pending) \in Nat /\ Len(st) \in Nat /\ Len(lines) \in Nat
  BY LenProperties
<1>2. Count(st, Len(st)) \in Nat
  BY <1>1, CountIsFinite
<1>3. /\ x.line = lines[Count(st, Len(st)) + 1]
      /\ Len(pending) = Len(lines) - (Count(st, Len(st)) + 1)
  BY DEF AtLine
<1> QED
  BY <1>1, <1>2, <1>3, SessionCases

\* The start marker begins an answer and a frame goes on with it.
LEMMA Spoken ==
    ASSUME NEW st \in Seq(Message), NEW lines \in Seq(Line), NEW pending \in Seq(Line),
           NEW x \in Session, NEW y \in Session, NEW type \in {"start", "frame"},
           Once(lines), Answers(st, lines), AtLine(x, pending, lines, st),
           x.at = IF type = "start" THEN "queued" ELSE "speaking",
           y.at = "speaking", y.line = x.line
    PROVE  LET nst == Append(st, [type |-> type, line |-> x.line])
           IN  Answers(nst, lines) /\ AtLine(y, pending, lines, nst)
<1> DEFINE c == Count(st, Len(st))
           msg == [type |-> type, line |-> x.line]
           nst == Append(st, msg)
<1>1. c < Len(lines) /\ x.line = lines[c + 1] /\ x.line \in Line
  BY AtItsLine
<1>2. msg \in Message /\ msg.line = x.line /\ msg.type = type /\ ~Closes(msg.type)
  BY <1>1 DEF Message, Closes
<1>3. Len(st) \in Nat
  BY LenProperties
<1>4. Len(nst) = Len(st) + 1
  BY <1>2, AppendProperties
<1>5. Count(nst, Len(nst)) = c
  BY <1>2, <1>4, CountOfAppend
<1>6. Started(st, Len(st), x.line) <=> type = "frame"
  <2>1. CASE type = "start"
    <3>1. \A i \in 1..Len(st) : Count(st, i - 1) < c
      BY <2>1 DEF AtLine
    <3> QED
      BY <1>1, <2>1, <3>1, NotStarted
  <2>2. CASE type = "frame"
    BY <2>2 DEF AtLine
  <2> QED
    BY <2>1, <2>2
<1>7. Answers(nst, lines)
  BY <1>1, <1>2, <1>6, AnswersOfAppend
<1>8. Started(nst, Len(nst), x.line)
  <2> DEFINE l == x.line
  <2> HIDE DEF msg, l
  <2>1. Started(nst, Len(st) + 1, l) <=>
            Started(st, Len(st), l) \/ msg = [type |-> "start", line |-> l]
    BY <1>2, StartedOfAppend
  <2> USE DEF msg, l
  <2>2. type = "start" => msg = [type |-> "start", line |-> x.line]
    OBVIOUS
  <2> QED
    BY <1>4, <1>6, <2>1, <2>2
<1>9. AtLine(y, pending, lines, nst)
  <2>1. /\ x.line = lines[c + 1]
        /\ Len(pending) = Len(lines) - (c + 1)
        /\ \A k \in 1..Len(pending) : pending[k] = lines[(c + 1) + k]
    BY DEF AtLine
  <2>2. y # Idle
    BY DEF Idle
  <2> HIDE DEF c, nst
  <2> QED
    BY <1>5, <1>8, <2>1, <2>2 DEF AtLine
<1> QED
  BY <1>7, <1>9

\* An end marker and a closing come after the start of the line's answer.
LEMMA Finished ==
    ASSUME NEW st \in Seq(Message), NEW lines \in Seq(Line), NEW pending \in Seq(Line),
           NEW x \in Session, NEW type \in {"end", "close"},
           Answers(st, lines), AtLine(x, pending, lines, st), x.at = "speaking"
    PROVE  LET nst == Append(st, [type |-> type, line |-> x.line])
           IN  /\ Answers(nst, lines)
               /\ type = "end" => AtLine(Idle, pending, lines, nst)
<1> DEFINE c == Count(st, Len(st))
           msg == [type |-> type, line |-> x.line]
           nst == Append(st, msg)
<1>1. c < Len(lines) /\ x.line = lines[c + 1] /\ x.line \in Line
  BY AtItsLine
<1>2. msg \in Message /\ msg.line = x.line /\ msg.type = type
  BY <1>1 DEF Message
<1>3. Started(st, Len(st), x.line)
  BY DEF AtLine
<1>4. Answers(nst, lines)
  BY <1>1, <1>2, <1>3, AnswersOfAppend
<1>5. ASSUME type = "end" PROVE AtLine(Idle, pending, lines, nst)
  <2>1. Closes(msg.type)
    BY <1>5 DEF Closes
  <2>2. /\ Count(nst, Len(nst)) = c + 1
        /\ \A i \in 1..Len(nst) : Count(nst, i - 1) < Count(nst, Len(nst))
    BY <1>2, <2>1, AllBefore
  <2>3. /\ Len(pending) = Len(lines) - (c + 1)
        /\ \A k \in 1..Len(pending) : pending[k] = lines[(c + 1) + k]
    BY DEF AtLine
  <2> HIDE DEF c, nst
  <2> QED
    BY <2>2, <2>3 DEF AtLine, Idle
<1> QED
  BY <1>4, <1>5

\* A line that is sent waits behind those that were.
LEMMA MoreToAnswer ==
    ASSUME NEW st \in Seq(Message), NEW lines \in Seq(Line), NEW pending \in Seq(Line),
           NEW x \in Session, NEW l \in Line,
           Answers(st, lines), AtLine(x, pending, lines, st)
    PROVE  /\ Answers(st, Append(lines, l))
           /\ AtLine(x, Append(pending, l), Append(lines, l), st)
<1> DEFINE c == Count(st, Len(st))
           np == Append(pending, l)
           nl == Append(lines, l)
<1>1. /\ Len(np) = Len(pending) + 1 /\ np[Len(pending) + 1] = l
      /\ \A k \in 1..Len(pending) : np[k] = pending[k]
      /\ Len(nl) = Len(lines) + 1 /\ nl[Len(lines) + 1] = l
      /\ \A k \in 1..Len(lines) : nl[k] = lines[k]
      /\ Len(pending) \in Nat /\ Len(lines) \in Nat /\ Len(st) \in Nat
  BY AppendProperties, LenProperties
<1>2. c \in Nat
  BY <1>1, CountIsFinite
<1> HIDE DEF c, np, nl
<1>3. ASSUME NEW d \in Nat, Len(pending) = Len(lines) - d,
             \A k \in 1..Len(pending) : pending[k] = lines[d + k]
      PROVE  /\ Len(np) = Len(nl) - d
             /\ \A k \in 1..Len(np) : np[k] = nl[d + k]
  <2>1. Len(np) = Len(nl) - d
    BY <1>1, <1>3
  <2>2. ASSUME NEW k \in 1..Len(np) PROVE np[k] = nl[d + k]
    <3>1. CASE k \in 1..Len(pending)
      <4>1. d + k \in 1..Len(lines)
        BY <1>1, <1>3, <3>1
      <4> QED
        BY <1>1, <1>3, <3>1, <4>1
    <3>2. CASE k = Len(pending) + 1
      <4>1. d + k = Len(lines) + 1
        BY <1>1, <1>3, <3>2
      <4> QED
        BY <1>1, <3>2, <4>1
    <3> QED
      BY <1>1, <3>1, <3>2
  <2> QED
    BY <2>1, <2>2
<1>4. AtLine(x, np, nl, st)
  <2>1. x = Idle => /\ Len(np) = Len(nl) - c
                    /\ \A k \in 1..Len(np) : np[k] = nl[c + k]
    BY <1>2, <1>3 DEF AtLine, c
  <2>2. x.at \in {"queued", "speaking"} =>
            /\ x.line = nl[c + 1]
            /\ Len(np) = Len(nl) - (c + 1)
            /\ \A k \in 1..Len(np) : np[k] = nl[(c + 1) + k]
    <3> SUFFICES ASSUME x.at \in {"queued", "speaking"}
                 PROVE  /\ x.line = nl[c + 1]
                        /\ Len(np) = Len(nl) - (c + 1)
                        /\ \A k \in 1..Len(np) : np[k] = nl[(c + 1) + k]
      OBVIOUS
    <3>1. c < Len(lines) /\ x.line = lines[c + 1]
      BY AtItsLine DEF c
    <3>2. x.line = nl[c + 1]
      BY <1>1, <1>2, <3>1
    <3>3. /\ Len(pending) = Len(lines) - (c + 1)
          /\ \A k \in 1..Len(pending) : pending[k] = lines[(c + 1) + k]
      BY DEF AtLine, c
    <3>4. c + 1 \in Nat
      BY <1>2
    <3> QED
      BY <1>3, <3>2, <3>3, <3>4
  <2> QED
    BY <2>1, <2>2 DEF AtLine, c
<1> QED
  BY <1>4, AnswersOfMore DEF np, nl

-----------------------------------------------------------------------------
(* The answers on a socket, step by step                                   *)

LEMMA StreamType ==
    ASSUME TypeOK, NEW s \in Socket
    PROVE  Stream(s) \in Seq(Message)
BY ConcatProperties DEF TypeOK, Stream

\* What a step leaves alone, but for a socket it may close.
LEMMA AnswersKept ==
    ASSUME NEW s \in Socket, AnswersOn(s),
           via'[s] = via[s], log'[s] = log[s],
           socket'[s] = "open" =>
               /\ socket[s] = "open"
               /\ up'[s] = up[s] /\ down'[s] = down[s] /\ session'[s] = session[s]
    PROVE  AnswersOn(s)'
BY DEF AnswersOn, Stream

LEMMA ConcatOfAppend ==
    ASSUME NEW p \in Seq(Message), NEW q \in Seq(Message), NEW msg \in Message
    PROVE  p \o Append(q, msg) = Append(p \o q, msg)
<1>1. <<msg>> \in Seq(Message) /\ p \o q \in Seq(Message)
  BY ConcatProperties
<1>2. Append(q, msg) = q \o <<msg>>
  BY AppendIsConcat
<1>3. Append(p \o q, msg) = (p \o q) \o <<msg>>
  BY <1>1, AppendIsConcat
<1>4. (p \o q) \o <<msg>> = p \o (q \o <<msg>>)
  BY <1>1, ConcatAssociative
<1> QED
  BY <1>2, <1>3, <1>4

\* What the session of an open socket sends.
LEMMA StreamOfAnswer ==
    ASSUME TypeOK, NEW s \in Socket, NEW l \in Line,
           NEW type \in {"start", "frame", "end", "error", "close"},
           socket[s] = "open", down'[s] = Answer(s, type, l), log'[s] = log[s]
    PROVE  log'[s] \o down'[s] = Append(Stream(s), [type |-> type, line |-> l])
<1> DEFINE msg == [type |-> type, line |-> l]
<1>1. msg \in Message
  BY DEF Message
<1>2. log[s] \in Seq(Message) /\ down[s] \in Seq(Message)
  BY DEF TypeOK
<1>3. down'[s] = Append(down[s], msg)
  BY DEF Answer
<1> HIDE DEF msg
<1>4. log[s] \o Append(down[s], msg) = Append(log[s] \o down[s], msg)
  BY <1>1, <1>2, ConcatOfAppend
<1> QED
  BY <1>3, <1>4 DEF Stream, msg

LEMMA AnswersSession ==
    ASSUME TypeOK, SocketInv, SentInv, ViaInv, AnswerInv, NEW s \in Socket, SessionStep(s)
    PROVE  AnswersOn(s)'
<1>1. UNCHANGED <<pageVars, socket, workletVars, log>>
  BY SessionFrame
<1>2. /\ via'[s] = via[s] /\ log'[s] = log[s] /\ socket'[s] = socket[s]
      /\ AnswersOn(s)
  BY <1>1 DEF pageVars, AnswerInv
<1>3. CASE socket[s] # "open"
  BY <1>2, <1>3, AnswersKept
<1>4. CASE socket[s] = "open"
  <2> DEFINE st == Stream(s)
  <2>1. /\ st \in Seq(Message) /\ via[s] \in Seq(Line) /\ up[s] \in Seq(Line)
        /\ session[s] \in Session
    BY StreamType DEF TypeOK
  <2>2. Once(via[s])
    BY ViaOnce
  <2>3. Answers(st, via[s]) /\ AtLine(session[s], up[s], via[s], st)
    BY <1>2, <1>4 DEF AnswersOn
  <2> HIDE DEF st
  <2>4. SUFFICES /\ Answers(log'[s] \o down'[s], via[s])
                 /\ AtLine(session'[s], up'[s], via[s], log'[s] \o down'[s])
    BY <1>2, <1>4 DEF AnswersOn, Stream
  <2>5. CASE Refuse(s)
    <3>1. session[s] = Idle /\ up[s] # <<>> /\ Head(up[s]) \in Line
      BY <2>1, <2>5, SessionCases, HeadTailProperties DEF Refuse
    <3>2. /\ down'[s] = Answer(s, "error", Head(up[s]))
          /\ up'[s] = Tail(up[s]) /\ session'[s] = Idle
      BY <2>5, <3>1 DEF Refuse, TypeOK, serverVars
    <3>3. log'[s] \o down'[s] = Append(st, [type |-> "error", line |-> Head(up[s])])
      BY <1>2, <1>4, <3>1, <3>2, StreamOfAnswer DEF st
    <3> QED
      BY <2>1, <2>2, <2>3, <3>1, <3>2, <3>3, Refused
  <2>6. CASE Admit(s)
    <3>1. session[s] = Idle /\ up[s] # <<>>
      BY <2>1, <2>6, SessionCases DEF Admit
    <3>2. /\ down'[s] = down[s] /\ up'[s] = Tail(up[s])
          /\ session'[s] = [at |-> "queued", line |-> Head(up[s])]
      BY <2>6 DEF Admit, TypeOK
    <3>3. log'[s] \o down'[s] = st
      BY <1>2, <3>2 DEF st, Stream
    <3> QED
      BY <2>1, <2>3, <3>1, <3>2, <3>3, Admitted
  <2>7. CASE Start(s)
    <3>1. session[s].at = "queued" /\ session[s].line \in Line
      BY <2>1, <2>7, SessionCases DEF Start
    <3>2. PICK n \in 0..MaxFrames :
              session'[s] = [at |-> "speaking", line |-> session[s].line, left |-> n]
      BY <2>7 DEF Start, TypeOK
    <3>3. session'[s] \in Session
      BY <3>1, <3>2, WebAssumption DEF Session
    <3>4. down'[s] = Answer(s, "start", session[s].line) /\ up'[s] = up[s]
      BY <2>7 DEF Start, TypeOK
    <3>5. log'[s] \o down'[s] = Append(st, [type |-> "start", line |-> session[s].line])
      BY <1>2, <1>4, <3>1, <3>4, StreamOfAnswer DEF st
    <3>6. session'[s].at = "speaking" /\ session'[s].line = session[s].line
      BY <3>2
    <3> QED
      BY <2>1, <2>2, <2>3, <3>1, <3>3, <3>4, <3>5, <3>6, Spoken
  <2>8. CASE Frame(s)
    <3>1. session[s].at = "speaking" /\ session[s].line \in Line
      BY <2>1, <2>8, SessionCases DEF Frame
    <3>2. session'[s] = [session[s] EXCEPT !.left = @ - 1]
      BY <2>8 DEF Frame, TypeOK
    <3>3. session[s] \in [at : {"speaking"}, line : Line, left : Nat] /\ session[s].left > 0
      BY <2>1, <2>8 DEF Frame, Session, Idle, Over
    <3>4. session'[s] \in [at : {"speaking"}, line : Line, left : Nat]
      BY <3>2, <3>3
    <3>5. session'[s] \in Session
      BY <3>4 DEF Session
    <3>6. session'[s].at = "speaking" /\ session'[s].line = session[s].line
      BY <3>2, <3>3
    <3>7. down'[s] = Answer(s, "frame", session[s].line) /\ up'[s] = up[s]
      BY <2>8 DEF Frame, TypeOK
    <3>8. log'[s] \o down'[s] = Append(st, [type |-> "frame", line |-> session[s].line])
      BY <1>2, <1>4, <3>1, <3>7, StreamOfAnswer DEF st
    <3> QED
      BY <2>1, <2>2, <2>3, <3>1, <3>5, <3>6, <3>7, <3>8, Spoken
  <2>9. CASE End(s)
    <3>1. session[s].at = "speaking" /\ session[s].line \in Line
      BY <2>1, <2>9, SessionCases DEF End
    <3>2. /\ down'[s] = Answer(s, "end", session[s].line)
          /\ up'[s] = up[s] /\ session'[s] = Idle
      BY <2>9 DEF End, TypeOK
    <3>3. log'[s] \o down'[s] = Append(st, [type |-> "end", line |-> session[s].line])
      BY <1>2, <1>4, <3>1, <3>2, StreamOfAnswer DEF st
    <3> QED
      BY <2>1, <2>3, <3>1, <3>2, <3>3, Finished
  <2>10. CASE EngineFails(s)
    <3>1. session[s].at = "speaking" /\ session[s].line \in Line
      BY <2>1, <2>10, SessionCases DEF EngineFails
    <3>2. down'[s] = Answer(s, "close", session[s].line) /\ session'[s] = Over
      BY <2>10 DEF EngineFails, TypeOK
    <3>3. log'[s] \o down'[s] = Append(st, [type |-> "close", line |-> session[s].line])
      BY <1>2, <1>4, <3>1, <3>2, StreamOfAnswer DEF st
    <3>4. Answers(log'[s] \o down'[s], via[s])
      BY <2>1, <2>3, <3>1, <3>3, Finished
    <3>5. AtLine(Over, up'[s], via[s], log'[s] \o down'[s])
      BY DEF AtLine, Over, Idle
    <3> QED
      BY <3>2, <3>4, <3>5
  <2>11. CASE Abandon(s)
    BY <1>4, <2>11 DEF Abandon
  <2>12. CASE Wedge(s)
    BY <1>4, <2>12 DEF Wedge
  <2> QED
    BY <2>5, <2>6, <2>7, <2>8, <2>9, <2>10, <2>11, <2>12 DEF SessionStep
<1> QED
  BY <1>3, <1>4

LEMMA AnswersFinish ==
    ASSUME TypeOK, SocketInv, AnswerInv, NEW l \in Line, Finish(l), ws \in Socket,
           NEW s \in Socket,
           \/ socket'[s] = socket[s] /\ session'[s] = session[s]
           \/ socket[s] = "connecting" /\ session'[s] = Idle,
           UNCHANGED <<log, down>>
    PROVE  AnswersOn(s)'
<1>1. AnswersOn(s)
  BY DEF AnswerInv
<1>2. /\ log'[s] = log[s] /\ down'[s] = down[s]
      /\ log[s] \in Seq(Message) /\ via[s] \in Seq(Line) /\ up[s] \in Seq(Line)
      /\ Stream(s) \in Seq(Message) /\ session[s] \in Session /\ Idle \in Session
  BY StreamType DEF TypeOK, Session
<1>3. log'[s] \o down'[s] = Stream(s)
  BY <1>2 DEF Stream
<1>4. socket'[s] = "open" =>
          Answers(Stream(s), via[s]) /\ AtLine(session'[s], up[s], via[s], Stream(s))
  <2>1. CASE socket'[s] = socket[s] /\ session'[s] = session[s]
    BY <1>1, <2>1 DEF AnswersOn
  <2>2. CASE socket[s] = "connecting" /\ session'[s] = Idle
    <3>1. log[s] = <<>> /\ down[s] = <<>> /\ via[s] = <<>> /\ up[s] = <<>>
      BY <2>2 DEF SocketInv
    <3>2. <<>> \in Seq(Message) /\ Len(<<>>) = 0
      BY EmptySeq
    <3>3. Stream(s) = <<>>
      BY <3>1, <3>2, ConcatEmptySeq DEF Stream
    <3>4. Count(<<>>, 0) = 0
      BY CountZero
    <3>5. Answers(<<>>, <<>>)
      BY <3>2 DEF Answers
    <3>6. AtLine(Idle, <<>>, <<>>, <<>>)
      BY <3>2, <3>4 DEF AtLine, Idle
    <3> QED
      BY <2>2, <3>1, <3>3, <3>5, <3>6
  <2> QED
    BY <2>1, <2>2
<1>5. CASE up'[s] = up[s] /\ via'[s] = via[s]
  BY <1>1, <1>2, <1>3, <1>4, <1>5 DEF AnswersOn, Stream
<1>6. CASE up'[s] = Append(up[s], l) /\ via'[s] = Append(via[s], l) /\ socket'[s] = "open"
  <2>1. Answers(log[s], Append(via[s], l))
    BY <1>1, <1>2, AnswersOfMore DEF AnswersOn
  <2>2. session'[s] \in Session
    BY <1>2
  <2>3. /\ Answers(Stream(s), Append(via[s], l))
        /\ AtLine(session'[s], Append(up[s], l), Append(via[s], l), Stream(s))
    BY <1>2, <1>4, <1>6, <2>2, MoreToAnswer
  <2> QED
    BY <1>1, <1>2, <1>3, <1>6, <2>1, <2>3 DEF AnswersOn, Stream
<1> QED
  BY <1>5, <1>6, FinishSocket

\* What the page gets is taken from what is on its way.
LEMMA MoveHead ==
    ASSUME NEW p \in Seq(Message), NEW q \in Seq(Message), q # <<>>
    PROVE  LET np == Append(p, Head(q))
           IN  /\ np \o Tail(q) = p \o q
               /\ Len(p \o q) \in Nat /\ Len(p) + 1 <= Len(p \o q)
               /\ \A i \in 1..(Len(p) + 1) : (p \o q)[i] = np[i]
<1> DEFINE np == Append(p, Head(q))
<1>1. /\ Head(q) \in Message /\ Tail(q) \in Seq(Message) /\ <<Head(q)>> \in Seq(Message)
      /\ Len(Tail(q)) \in Nat /\ Len(p) \in Nat
  BY HeadTailProperties, LenProperties
<1>2. np \in Seq(Message) /\ Len(np) = Len(p) + 1
  BY <1>1, AppendProperties
<1>3. q = <<Head(q)>> \o Tail(q)
  OBVIOUS
<1>4. np = p \o <<Head(q)>>
  BY <1>1, AppendIsConcat
<1>5. (p \o <<Head(q)>>) \o Tail(q) = p \o (<<Head(q)>> \o Tail(q))
  BY <1>1, ConcatAssociative
<1>6. np \o Tail(q) = p \o q
  BY <1>3, <1>4, <1>5
<1> HIDE DEF np
<1>7. /\ Len(np \o Tail(q)) = Len(np) + Len(Tail(q))
      /\ \A i \in 1..(Len(np) + Len(Tail(q))) : (np \o Tail(q))[i] =
            IF i <= Len(np) THEN np[i] ELSE Tail(q)[i - Len(np)]
  BY <1>1, <1>2, ConcatProperties
<1>8. \A i \in 1..Len(np) : i \in 1..(Len(np) + Len(Tail(q))) /\ i <= Len(np)
  BY <1>1, <1>2
<1> QED
  BY <1>1, <1>2, <1>6, <1>7, <1>8 DEF np

\* The page gets the next message of an open socket: the line it is of and
\* what it means are fixed already.
LEMMA AnswersDeliver ==
    ASSUME TypeOK, AnswerInv, NEW s \in Socket, Deliver(s), Head(down[s]).type # "close"
    PROVE  /\ AnswersOn(s)'
           /\ Count(log[s], Len(log[s])) < Len(via[s])
           /\ Head(down[s]).line = via[s][Count(log[s], Len(log[s])) + 1]
<1> DEFINE msg == Head(down[s])
<1>1. /\ log[s] \in Seq(Message) /\ down[s] \in Seq(Message) /\ down[s] # <<>>
      /\ socket[s] = "open" /\ AnswersOn(s)
  BY DEF TypeOK, Deliver, AnswerInv
<1>2. /\ msg \in Message /\ Tail(down[s]) \in Seq(Message)
      /\ msg = down[s][1]
      /\ Len(Tail(down[s])) = Len(down[s]) - 1
      /\ Len(down[s]) \in Nat \ {0} /\ Len(log[s]) \in Nat
  BY <1>1, HeadTailProperties, EmptySeq, LenProperties
<1>3. /\ log'[s] = Append(log[s], msg) /\ down'[s] = Tail(down[s])
      /\ via'[s] = via[s] /\ up'[s] = up[s] /\ session'[s] = session[s]
  BY <1>1 DEF Deliver, TypeOK, pageVars, serverVars
<1> HIDE DEF msg
<1>4. log'[s] \o down'[s] = Stream(s)
  BY <1>1, <1>3, MoveHead DEF Stream, msg
<1>5. Answers(Stream(s), via[s]) /\ AtLine(session[s], up[s], via[s], Stream(s))
  BY <1>1 DEF AnswersOn
<1>6. /\ Len(Stream(s)) \in Nat /\ Len(log[s]) + 1 <= Len(Stream(s))
      /\ \A i \in 1..(Len(log[s]) + 1) : Stream(s)[i] = log'[s][i]
  BY <1>1, <1>3, MoveHead DEF Stream, msg
<1>7. /\ Len(log'[s]) = Len(log[s]) + 1
      /\ log'[s][Len(log[s]) + 1] = msg
      /\ \A i \in 1..Len(log[s]) : log'[s][i] = log[s][i]
  BY <1>1, <1>2, <1>3, AppendProperties
<1>8. Answers(log'[s], via[s])
  <2>1. Len(log'[s]) \in Nat
    BY <1>2, <1>7
  <2> QED
    BY <1>5, <1>6, <1>7, <2>1, AnswersOfPrefix
<1>9. \A i \in 1..Len(log'[s]) : log'[s][i].type # "close"
  BY <1>1, <1>2, <1>7 DEF AnswersOn, msg
<1>10. AnswersOn(s)'
  BY <1>3, <1>4, <1>5, <1>8, <1>9 DEF AnswersOn, Stream
<1>11. Count(log'[s], Len(log[s])) = Count(log[s], Len(log[s]))
  BY <1>2, <1>7, CountOfPrefix
<1>12. Len(log[s]) + 1 \in 1..Len(log'[s]) /\ (Len(log[s]) + 1) - 1 = Len(log[s])
  BY <1>2, <1>7
<1>13. /\ Count(log[s], Len(log[s])) < Len(via[s])
       /\ msg.line = via[s][Count(log[s], Len(log[s])) + 1]
  BY <1>7, <1>8, <1>11, <1>12 DEF Answers
<1> QED
  BY <1>10, <1>13 DEF msg

LEMMA AnswerStep ==
    ASSUME TypeOK, ClickInv, SocketInv, SentInv, ViaInv, AnswerInv, [Next]_vars
    PROVE  AnswerInv'
<1> SUFFICES ASSUME NEW s \in Socket PROVE AnswersOn(s)'
  BY DEF AnswerInv
<1>1. AnswersOn(s)
  BY DEF AnswerInv
<1>2. ASSUME NEW l \in Line, SendAtOnce(l) PROVE AnswersOn(s)'
  <2>1. /\ Finish(l) /\ ws \in Socket
        /\ socket'[s] = socket[s] /\ session'[s] = session[s]
        /\ UNCHANGED <<log, down>>
    BY <1>2 DEF SendAtOnce, CurrentOpen, TypeOK, serverVars
  <2> QED
    BY <2>1, AnswersFinish
<1>3. ASSUME NEW l \in Line, Opened(l) PROVE AnswersOn(s)'
  <2>1. /\ Finish(l) /\ ws \in Socket /\ waiting[l] \in Socket
        /\ socket[waiting[l]] = "connecting"
        /\ socket' = [socket EXCEPT ![waiting[l]] = "open"]
        /\ session' = [session EXCEPT ![waiting[l]] = Idle]
        /\ UNCHANGED <<log, down>>
    BY <1>3 DEF Opened, ClickInv
  <2>2. \/ socket'[s] = socket[s] /\ session'[s] = session[s]
        \/ socket[s] = "connecting" /\ session'[s] = Idle
    BY <2>1 DEF TypeOK
  <2> QED
    BY <2>1, <2>2, AnswersFinish
<1>4. ASSUME NEW t \in Socket, SessionStep(t) PROVE AnswersOn(s)'
  <2>1. CASE t = s
    BY <1>4, <2>1, AnswersSession
  <2>2. CASE t # s
    <3>1. /\ via'[s] = via[s] /\ log'[s] = log[s] /\ socket'[s] = socket[s]
          /\ up'[s] = up[s] /\ down'[s] = down[s] /\ session'[s] = session[s]
      BY <1>4, <2>2, SessionFrame DEF pageVars
    <3> QED
      BY <1>1, <3>1, AnswersKept
  <2> QED
    BY <2>1, <2>2
<1>5. ASSUME NEW t \in Socket, Deliver(t) PROVE AnswersOn(s)'
  <2>1. CASE t = s /\ Head(down[s]).type # "close"
    BY <1>5, <2>1, AnswersDeliver
  <2>2. CASE t # s \/ Head(down[s]).type = "close"
    <3>1. /\ via'[s] = via[s] /\ log'[s] = log[s]
          /\ t # s => /\ socket'[s] = socket[s] /\ up'[s] = up[s]
                      /\ down'[s] = down[s] /\ session'[s] = session[s]
          /\ t = s => socket'[s] = "closed"
      BY <1>5, <2>2 DEF Deliver, TypeOK, pageVars, serverVars
    <3> QED
      BY <1>1, <3>1, AnswersKept
  <2> QED
    BY <2>1, <2>2
<1>6. ASSUME NEW t \in Socket, Drop(t) PROVE AnswersOn(s)'
  <2>1. /\ via'[s] = via[s] /\ log'[s] = log[s]
        /\ t # s => /\ socket'[s] = socket[s] /\ up'[s] = up[s]
                    /\ down'[s] = down[s] /\ session'[s] = session[s]
        /\ t = s => socket'[s] = "closed"
    BY <1>6 DEF Drop, TypeOK, pageVars, serverVars
  <2> QED
    BY <1>1, <2>1, AnswersKept
<1>7. ASSUME NEW l \in Line, (\E t \in Socket : OpenSocket(l, t)) \/ OpenFails(l)
      PROVE  AnswersOn(s)'
  <2>1. /\ UNCHANGED <<via, log, up, down, session>>
        /\ socket'[s] = "open" => socket[s] = "open"
    BY <1>7 DEF OpenSocket, OpenFails, TypeOK, serverVars
  <2> QED
    BY <1>1, <2>1, AnswersKept
<1>8. CASE \/ \E l \in Line : Click(l) \/ Load(l)
           \/ PortMessage \/ Play \/ Settled \/ UNCHANGED vars
  <2>1. UNCHANGED <<via, log, up, down, session, socket>>
    BY <1>8 DEF Click, Load, PortMessage, Play, Settled, vars, pageVars, serverVars
  <2> QED
    BY <1>1, <2>1, AnswersKept
<1> QED
  BY <1>2, <1>3, <1>4, <1>5, <1>6, <1>7, <1>8 DEF Next, PageStep

-----------------------------------------------------------------------------
(* The frames on their way, as sequences                                   *)

\* A new line is of a later place than everything under way.
LEMMA FlowOfSend ==
    ASSUME NEW q \in Seq(Line), NEW l \in Line,
           \A i, j \in 1..Len(q) : q[i] = q[j] => i = j,
           \A i \in 1..Len(q) : q[i] # l,
           NEW po \in Seq(PortMessages), NEW pl, NEW qu,
           FlowSent(q, pl, qu, po), FlowOrder(q, pl, qu, po)
    PROVE  LET nq == Append(q, l)
           IN  /\ FlowSent(nq, pl, qu, po) /\ FlowOrder(nq, pl, qu, po)
               /\ Past(nq, pl, qu, po, l)
               /\ \A m : Contains(q, m) /\ Past(q, pl, qu, po, m) => Past(nq, pl, qu, po, m)
<1> DEFINE nq == Append(q, l)
<1>1. /\ Place(nq, l) = Len(q) + 1
      /\ Len(q) \in Nat
      /\ \A m : Contains(q, m) =>
            /\ Place(nq, m) = Place(q, m)
            /\ Place(q, m) \in 1..Len(q)
  BY PlaceOfAppend, LenProperties DEF Contains
<1>2. \A m : Contains(q, m) => Contains(nq, m)
  <2>1. Len(nq) = Len(q) + 1 /\ \A i \in 1..Len(q) : nq[i] = q[i]
    BY AppendProperties
  <2> HIDE DEF nq
  <2> QED
    BY <1>1, <2>1 DEF Contains
<1> HIDE DEF nq
<1>3. FlowSent(nq, pl, qu, po)
  BY <1>2 DEF FlowSent
<1>4. /\ \A i \in 1..Len(pl) : Place(nq, pl[i]) = Place(q, pl[i])
      /\ \A i \in 1..Len(qu) : Place(nq, qu[i]) = Place(q, qu[i])
      /\ \A i \in 1..Len(po) :
            po[i].type = "frame" => Place(nq, po[i].line) = Place(q, po[i].line)
  BY <1>1 DEF FlowSent
<1>5. FlowOrder(nq, pl, qu, po)
  <2>1. /\ \A i, j \in 1..Len(pl) : i < j => Place(nq, pl[i]) < Place(nq, pl[j])
        /\ \A i \in 1..Len(pl), j \in 1..Len(qu) : Place(nq, pl[i]) <= Place(nq, qu[j])
        /\ \A i, j \in 1..Len(qu) : i < j => Place(nq, qu[i]) <= Place(nq, qu[j])
    BY <1>4 DEF FlowOrder
  <2>2. ASSUME NEW j \in 1..Len(po), po[j].type = "frame"
        PROVE  /\ \A i \in 1..Len(pl) : Place(nq, pl[i]) <= Place(nq, po[j].line)
               /\ \A i \in 1..Len(qu) : Place(nq, qu[i]) <= Place(nq, po[j].line)
               /\ \A i \in 1..(j - 1) : po[i].type = "frame" =>
                     Place(nq, po[i].line) <= Place(nq, po[j].line)
    <3>1. \A i \in 1..(j - 1) : i \in 1..Len(po)
      BY LenProperties
    <3> QED
      BY <1>4, <2>2, <3>1 DEF FlowOrder
  <2> QED
    BY <2>1, <2>2 DEF FlowOrder
<1>6. Past(nq, pl, qu, po, l)
  BY <1>1, <1>4 DEF FlowSent, Past
<1>7. ASSUME NEW m, Contains(q, m), Past(q, pl, qu, po, m) PROVE Past(nq, pl, qu, po, m)
  <2>1. Place(nq, m) = Place(q, m)
    BY <1>1, <1>7
  <2> QED
    BY <1>4, <1>7, <2>1 DEF Past
<1> QED
  BY <1>3, <1>5, <1>6, <1>7 DEF nq

\* A flush is nothing heard.
LEMMA FlowOfFlush ==
    ASSUME NEW po \in Seq(PortMessages), NEW q, NEW pl, NEW qu,
           FlowSent(q, pl, qu, po), FlowOrder(q, pl, qu, po)
    PROVE  LET np == Append(po, [type |-> "flush"])
           IN  /\ FlowSent(q, pl, qu, np) /\ FlowOrder(q, pl, qu, np)
               /\ \A m : Past(q, pl, qu, po, m) => Past(q, pl, qu, np, m)
<1> DEFINE flush == [type |-> "flush"]
           np == Append(po, flush)
<1>1. flush \in PortMessages /\ flush.type # "frame"
  BY DEF PortMessages
<1>2. /\ Len(np) = Len(po) + 1 /\ Len(po) \in Nat /\ np[Len(po) + 1] = flush
      /\ \A i \in 1..Len(po) : np[i] = po[i]
  BY <1>1, AppendProperties, LenProperties
<1> HIDE DEF np, flush
<1>3. \A i \in 1..Len(np) : np[i].type = "frame" => i \in 1..Len(po) /\ np[i] = po[i]
  BY <1>1, <1>2
<1>4. FlowSent(q, pl, qu, np)
  BY <1>3 DEF FlowSent
<1>5. FlowOrder(q, pl, qu, np)
  <2>1. ASSUME NEW j \in 1..Len(np), np[j].type = "frame"
        PROVE  /\ \A i \in 1..Len(pl) : Place(q, pl[i]) <= Place(q, np[j].line)
               /\ \A i \in 1..Len(qu) : Place(q, qu[i]) <= Place(q, np[j].line)
               /\ \A i \in 1..(j - 1) : np[i].type = "frame" =>
                     Place(q, np[i].line) <= Place(q, np[j].line)
    <3>1. j \in 1..Len(po) /\ np[j] = po[j]
      BY <1>3, <2>1
    <3>2. \A i \in 1..(j - 1) : np[i] = po[i]
      BY <1>2, <3>1
    <3> QED
      BY <2>1, <3>1, <3>2 DEF FlowOrder
  <2> QED
    BY <2>1 DEF FlowOrder
<1>6. \A m : Past(q, pl, qu, po, m) => Past(q, pl, qu, np, m)
  BY <1>3 DEF Past
<1> QED
  BY <1>4, <1>5, <1>6 DEF np, flush

\* A frame of the line that everything under way is not later than.
LEMMA FlowOfFrame ==
    ASSUME NEW po \in Seq(PortMessages), NEW msg \in PortMessages, msg.type = "frame",
           NEW q, NEW pl, NEW qu,
           FlowSent(q, pl, qu, po), FlowOrder(q, pl, qu, po),
           Contains(q, msg.line), Past(q, pl, qu, po, msg.line)
    PROVE  LET np == Append(po, msg)
           IN  /\ FlowSent(q, pl, qu, np) /\ FlowOrder(q, pl, qu, np)
               /\ \A m : Past(q, pl, qu, po, m) /\ Place(q, msg.line) <= Place(q, m) =>
                     Past(q, pl, qu, np, m)
<1> DEFINE np == Append(po, msg)
<1>1. /\ Len(np) = Len(po) + 1 /\ Len(po) \in Nat /\ np[Len(po) + 1] = msg
      /\ \A i \in 1..Len(po) : np[i] = po[i]
  BY AppendProperties, LenProperties
<1> HIDE DEF np
<1>2. \A i \in 1..Len(np) : i = Len(po) + 1 \/ (i \in 1..Len(po) /\ np[i] = po[i])
  BY <1>1
<1>3. FlowSent(q, pl, qu, np)
  BY <1>1, <1>2 DEF FlowSent
<1>4. FlowOrder(q, pl, qu, np)
  <2>1. ASSUME NEW j \in 1..Len(np), np[j].type = "frame"
        PROVE  /\ \A i \in 1..Len(pl) : Place(q, pl[i]) <= Place(q, np[j].line)
               /\ \A i \in 1..Len(qu) : Place(q, qu[i]) <= Place(q, np[j].line)
               /\ \A i \in 1..(j - 1) : np[i].type = "frame" =>
                     Place(q, np[i].line) <= Place(q, np[j].line)
    <3>1. \A i \in 1..(j - 1) : i \in 1..Len(po) /\ np[i] = po[i]
      BY <1>1
    <3>2. CASE j = Len(po) + 1
      <4>1. np[j].line = msg.line
        BY <1>1, <3>2
      <4> QED
        BY <3>1, <4>1 DEF Past
    <3>3. CASE j \in 1..Len(po)
      <4>1. np[j] = po[j] /\ po[j].type = "frame"
        BY <1>1, <2>1, <3>3
      <4> QED
        BY <3>1, <3>3, <4>1 DEF FlowOrder
    <3>4. j = Len(po) + 1 \/ j \in 1..Len(po)
      BY <1>2
    <3> QED
      BY <3>2, <3>3, <3>4
  <2> QED
    BY <2>1 DEF FlowOrder
<1>5. \A m : Past(q, pl, qu, po, m) /\ Place(q, msg.line) <= Place(q, m) =>
          Past(q, pl, qu, np, m)
  BY <1>1, <1>2 DEF Past
<1> QED
  BY <1>3, <1>4, <1>5 DEF np

\* The worklet takes a message.
LEMMA FlowOfMessage ==
    ASSUME NEW po \in Seq(PortMessages), po # <<>>, NEW qu \in Seq(Line),
           NEW q, NEW pl, FlowSent(q, pl, qu, po), FlowOrder(q, pl, qu, po)
    PROVE  LET nu == IF Head(po).type = "flush" THEN <<>> ELSE Append(qu, Head(po).line)
           IN  /\ FlowSent(q, pl, nu, Tail(po)) /\ FlowOrder(q, pl, nu, Tail(po))
               /\ \A m : Past(q, pl, qu, po, m) => Past(q, pl, nu, Tail(po), m)
<1> DEFINE np == Tail(po)
           msg == Head(po)
           nu == IF msg.type = "flush" THEN <<>> ELSE Append(qu, msg.line)
<1>1. /\ msg \in PortMessages /\ msg = po[1]
      /\ Len(np) = Len(po) - 1 /\ Len(po) \in Nat \ {0}
      /\ \A i \in 1..Len(np) : np[i] = po[i + 1]
  BY HeadTailProperties, LenProperties, EmptySeq
<1> HIDE DEF np, msg
<1>2. msg.type # "flush" => msg.type = "frame" /\ msg.line \in Line
  BY <1>1 DEF PortMessages
<1>3. msg.type = "flush" => Len(nu) = 0
  BY EmptySeq
<1>4. Len(qu) \in Nat
  BY LenProperties
<1>5. msg.type # "flush" => /\ Len(nu) = Len(qu) + 1
                            /\ nu[Len(qu) + 1] = msg.line
                            /\ \A i \in 1..Len(qu) : nu[i] = qu[i]
  BY <1>2, AppendProperties
<1> HIDE DEF nu
<1>6. 1 \in 1..Len(po)
  BY <1>1
<1>7. \A i \in 1..Len(nu) :
          \/ i \in 1..Len(qu) /\ nu[i] = qu[i]
          \/ i = Len(qu) + 1 /\ nu[i] = po[1].line /\ po[1].type = "frame"
  BY <1>1, <1>2, <1>3, <1>4, <1>5
<1>8. \A i \in 1..Len(np) : i + 1 \in 1..Len(po) /\ np[i] = po[i + 1]
  BY <1>1
<1>9. FlowSent(q, pl, nu, np)
  BY <1>6, <1>7, <1>8 DEF FlowSent
<1>10. FlowOrder(q, pl, nu, np)
  <2>1. \A i, j \in 1..Len(pl) : i < j => Place(q, pl[i]) < Place(q, pl[j])
    BY DEF FlowOrder
  <2>2. \A i \in 1..Len(pl), j \in 1..Len(nu) : Place(q, pl[i]) <= Place(q, nu[j])
    BY <1>6, <1>7 DEF FlowOrder
  <2>3. \A i, j \in 1..Len(nu) : i < j => Place(q, nu[i]) <= Place(q, nu[j])
    <3> SUFFICES ASSUME NEW i \in 1..Len(nu), NEW j \in 1..Len(nu), i < j
                 PROVE  Place(q, nu[i]) <= Place(q, nu[j])
      OBVIOUS
    <3>1. i \in 1..Len(qu) /\ nu[i] = qu[i]
      BY <1>4, <1>7
    <3> QED
      BY <1>6, <1>7, <3>1 DEF FlowOrder
  <2>4. ASSUME NEW j \in 1..Len(np), np[j].type = "frame"
        PROVE  /\ \A i \in 1..Len(pl) : Place(q, pl[i]) <= Place(q, np[j].line)
               /\ \A i \in 1..Len(nu) : Place(q, nu[i]) <= Place(q, np[j].line)
               /\ \A i \in 1..(j - 1) : np[i].type = "frame" =>
                     Place(q, np[i].line) <= Place(q, np[j].line)
    <3>1. j + 1 \in 1..Len(po) /\ np[j] = po[j + 1] /\ 1 \in 1..((j + 1) - 1)
      BY <1>8
    <3>2. \A i \in 1..(j - 1) : i + 1 \in 1..((j + 1) - 1) /\ np[i] = po[i + 1]
      BY <1>1
    <3>3. \A i \in 1..Len(nu) : Place(q, nu[i]) <= Place(q, np[j].line)
      BY <1>7, <2>4, <3>1 DEF FlowOrder
    <3>4. \A i \in 1..(j - 1) : np[i].type = "frame" =>
              Place(q, np[i].line) <= Place(q, np[j].line)
      BY <2>4, <3>1, <3>2 DEF FlowOrder
    <3>5. \A i \in 1..Len(pl) : Place(q, pl[i]) <= Place(q, np[j].line)
      BY <2>4, <3>1 DEF FlowOrder
    <3> QED
      BY <3>3, <3>4, <3>5
  <2> QED
    BY <2>1, <2>2, <2>3, <2>4 DEF FlowOrder
<1>11. \A m : Past(q, pl, qu, po, m) => Past(q, pl, nu, np, m)
  BY <1>6, <1>7, <1>8 DEF Past
<1> QED
  BY <1>9, <1>10, <1>11 DEF nu, np, msg

\* The player plays a chunk.
LEMMA FlowOfPlay ==
    ASSUME NEW q \in Seq(Line), NEW pl \in Seq(Line), NEW qu \in Seq(Line), qu # <<>>,
           NEW po, FlowSent(q, pl, qu, po), FlowOrder(q, pl, qu, po)
    PROVE  LET nl == IF pl # <<>> /\ Last(pl) = Head(qu) THEN pl ELSE Append(pl, Head(qu))
           IN  /\ FlowSent(q, nl, Tail(qu), po) /\ FlowOrder(q, nl, Tail(qu), po)
               /\ \A m : Past(q, pl, qu, po, m) => Past(q, nl, Tail(qu), po, m)
<1> DEFINE nu == Tail(qu)
           h == Head(qu)
           nl == IF pl # <<>> /\ Last(pl) = h THEN pl ELSE Append(pl, h)
<1>1. /\ h \in Line /\ h = qu[1] /\ nu \in Seq(Line)
      /\ Len(nu) = Len(qu) - 1 /\ Len(qu) \in Nat \ {0} /\ Len(pl) \in Nat
      /\ \A i \in 1..Len(nu) : nu[i] = qu[i + 1]
  BY HeadTailProperties, LenProperties, EmptySeq
<1> HIDE DEF nu, h
<1>2. /\ 1 \in 1..Len(qu)
      /\ \A i \in 1..Len(nu) : i + 1 \in 1..Len(qu) /\ 1 < i + 1 /\ nu[i] = qu[i + 1]
  BY <1>1
<1>3. FlowOrder(q, pl, nu, po) /\ FlowSent(q, pl, nu, po)
  <2>1. \A i, j \in 1..Len(nu) : i < j => Place(q, nu[i]) <= Place(q, nu[j])
    <3> SUFFICES ASSUME NEW i \in 1..Len(nu), NEW j \in 1..Len(nu), i < j
                 PROVE  Place(q, nu[i]) <= Place(q, nu[j])
      OBVIOUS
    <3>1. i + 1 < j + 1
      BY <1>1
    <3> QED
      BY <1>2, <3>1 DEF FlowOrder
  <2> QED
    BY <1>2, <2>1 DEF FlowOrder, FlowSent
<1>4. CASE pl # <<>> /\ Last(pl) = h
  <2>1. \A m : Past(q, pl, qu, po, m) => Past(q, pl, nu, po, m)
    BY <1>2 DEF Past
  <2> QED
    BY <1>3, <1>4, <2>1 DEF nu, h
<1>5. CASE ~(pl # <<>> /\ Last(pl) = h)
  <2>1. /\ Len(nl) = Len(pl) + 1 /\ nl[Len(pl) + 1] = h
        /\ \A i \in 1..Len(pl) : nl[i] = pl[i]
    BY <1>1, <1>5, AppendProperties
  <2> HIDE DEF nl
  <2>2. \A i \in 1..Len(nl) : i = Len(pl) + 1 \/ (i \in 1..Len(pl) /\ nl[i] = pl[i])
    BY <1>1, <2>1
  <2>3. FlowSent(q, nl, nu, po)
    BY <1>1, <1>2, <1>3, <2>1, <2>2 DEF FlowSent
  <2>4. ASSUME NEW i \in 1..Len(pl) PROVE Place(q, pl[i]) < Place(q, h)
    <3>1. Place(q, pl[i]) <= Place(q, h)
      BY <1>1, <1>2 DEF FlowOrder
    <3>2. /\ Place(q, pl[i]) \in 1..Len(q) /\ q[Place(q, pl[i])] = pl[i]
          /\ Place(q, h) \in 1..Len(q) /\ q[Place(q, h)] = h
      BY <1>1, <1>2, PlaceIs DEF FlowSent, Contains
    <3>3. CASE i = Len(pl)
      <4>1. pl[i] = Last(pl) /\ pl # <<>>
        BY <1>1, <3>3, EmptySeq DEF Last
      <4>2. pl[i] # h
        BY <1>5, <4>1
      <4> QED
        BY <3>1, <3>2, <4>2, LenProperties
    <3>4. CASE i < Len(pl)
      <4>1. Len(pl) \in 1..Len(pl)
        BY <1>1
      <4>2. Place(q, pl[i]) < Place(q, pl[Len(pl)])
        BY <3>4, <4>1 DEF FlowOrder
      <4>3. Place(q, pl[Len(pl)]) <= Place(q, h)
        BY <1>1, <1>2, <4>1 DEF FlowOrder
      <4>4. Place(q, pl[Len(pl)]) \in 1..Len(q)
        BY <4>1, PlaceIs DEF FlowSent, Contains
      <4> QED
        BY <3>2, <4>2, <4>3, <4>4, LenProperties
    <3> QED
      BY <1>1, <3>3, <3>4
  <2>5. FlowOrder(q, nl, nu, po)
    <3>1. \A i, j \in 1..Len(nl) : i < j => Place(q, nl[i]) < Place(q, nl[j])
      <4> SUFFICES ASSUME NEW i \in 1..Len(nl), NEW j \in 1..Len(nl), i < j
                   PROVE  Place(q, nl[i]) < Place(q, nl[j])
        OBVIOUS
      <4>1. i \in 1..Len(pl) /\ nl[i] = pl[i]
        BY <1>1, <2>1, <2>2
      <4>2. CASE j = Len(pl) + 1
        BY <2>1, <2>4, <4>1, <4>2
      <4>3. CASE j \in 1..Len(pl)
        BY <2>1, <4>1, <4>3 DEF FlowOrder
      <4> QED
        BY <2>2, <4>2, <4>3
    <3>2. \A j \in 1..Len(nu) : Place(q, h) <= Place(q, nu[j])
      BY <1>1, <1>2 DEF FlowOrder
    <3>3. \A j \in 1..Len(po) : po[j].type = "frame" => Place(q, h) <= Place(q, po[j].line)
      BY <1>1, <1>2 DEF FlowOrder
    <3>4. \A i \in 1..Len(nl), j \in 1..Len(nu) : Place(q, nl[i]) <= Place(q, nu[j])
      BY <1>3, <2>1, <2>2, <3>2 DEF FlowOrder
    <3>5. \A j \in 1..Len(po) : po[j].type = "frame" =>
              \A i \in 1..Len(nl) : Place(q, nl[i]) <= Place(q, po[j].line)
      BY <2>1, <2>2, <3>3 DEF FlowOrder
    <3> QED
      BY <1>3, <3>1, <3>4, <3>5 DEF FlowOrder
  <2>6. \A m : Past(q, pl, qu, po, m) => Past(q, nl, nu, po, m)
    BY <1>1, <1>2, <2>1, <2>2 DEF Past
  <2> QED
    BY <2>3, <2>5, <2>6 DEF nl, nu, h
<1> QED
  BY <1>4, <1>5

-----------------------------------------------------------------------------
(* The frames on their way, step by step                                   *)

\* What is under way is kept, whether the click is sent or not.
LEMMA FlowFinish ==
    ASSUME TypeOK, SocketInv, SentInv, FlowInv, NEW l \in Line, task[l] # "sent",
           Finish(l), ws \in Socket,
           \A s \in Socket : socket'[s] = "open" =>
               socket[s] = "open" \/ socket[s] = "connecting",
           UNCHANGED <<log, queue, played>>
    PROVE  FlowInv'
<1>1. /\ FlowSent(sent, played, queue, port) /\ FlowOrder(sent, played, queue, port)
      /\ port \in Seq(PortMessages) /\ sent \in Seq(Line)
  BY DEF FlowInv, TypeOK
<1>2. \/ port' = port
      \/ port' = Append(port, [type |-> "flush"])
  BY FinishCases
<1>3. /\ FlowSent(sent, played, queue, port') /\ FlowOrder(sent, played, queue, port')
      /\ \A m : Past(sent, played, queue, port, m) => Past(sent, played, queue, port', m)
  BY <1>1, <1>2, FlowOfFlush
<1>4. port' \in Seq(PortMessages)
  BY FinishTypes
<1>5. ASSUME NEW s \in Socket, socket'[s] = "open",
             NEW k \in (Count(log[s], Len(log[s])) + 1)..Len(via[s])
      PROVE  /\ Contains(sent, via[s][k])
             /\ Past(sent, played, queue, port', via[s][k])
  <2>1. via[s] \in Seq(Line) /\ log[s] \in Seq(Message)
    BY DEF TypeOK
  <2>2. Len(log[s]) \in Nat /\ Len(via[s]) \in Nat
    BY <2>1, LenProperties
  <2>3. Count(log[s], Len(log[s])) \in Nat
    BY <2>2, CountIsFinite
  <2>4. k \in 1..Len(via[s])
    BY <2>2, <2>3
  <2>5. Contains(sent, via[s][k])
    BY <2>4, ViaIsSent DEF IsSent
  <2>6. via[s] # <<>>
    BY <2>4, EmptySeq
  <2>7. socket[s] = "open"
    BY <1>5, <2>6 DEF SocketInv
  <2> QED
    BY <1>3, <2>5, <2>7 DEF FlowInv, PastOn
<1>6. CASE sent' = sent /\ via' = via
  BY <1>3, <1>5, <1>6 DEF FlowInv, PastOn
<1>7. CASE sent' = Append(sent, l) /\ via' = [via EXCEPT ![ws] = Append(@, l)]
  <2>1. /\ \A i, j \in 1..Len(sent) : sent[i] = sent[j] => i = j
        /\ \A i \in 1..Len(sent) : sent[i] # l
    BY DEF SentInv
  <2>2. /\ FlowSent(sent', played, queue, port') /\ FlowOrder(sent', played, queue, port')
        /\ Past(sent', played, queue, port', l)
        /\ \A m : Contains(sent, m) /\ Past(sent, played, queue, port', m) =>
              Past(sent', played, queue, port', m)
    BY <1>1, <1>3, <1>4, <1>7, <2>1, FlowOfSend
  <2>3. ASSUME NEW s \in Socket, socket'[s] = "open",
               NEW k \in (Count(log[s], Len(log[s])) + 1)..Len(via'[s])
        PROVE  Past(sent', played, queue, port', via'[s][k])
    <3>1. CASE via'[s] = via[s]
      BY <1>5, <2>2, <2>3, <3>1
    <3>2. CASE via'[s] = Append(via[s], l)
      <4>1. /\ Len(via'[s]) = Len(via[s]) + 1 /\ Len(via[s]) \in Nat
            /\ via'[s][Len(via[s]) + 1] = l
            /\ \A i \in 1..Len(via[s]) : via'[s][i] = via[s][i]
        BY <3>2, AppendProperties, LenProperties DEF TypeOK
      <4>2. Count(log[s], Len(log[s])) \in Nat
        BY CountIsFinite, LenProperties DEF TypeOK
      <4>3. \/ k = Len(via[s]) + 1
            \/ /\ k \in (Count(log[s], Len(log[s])) + 1)..Len(via[s])
               /\ k \in 1..Len(via[s])
        BY <4>1, <4>2
      <4>4. CASE k = Len(via[s]) + 1
        BY <2>2, <4>1, <4>4
      <4>5. CASE /\ k \in (Count(log[s], Len(log[s])) + 1)..Len(via[s])
                 /\ k \in 1..Len(via[s])
        BY <1>5, <2>2, <2>3, <4>1, <4>5
      <4> QED
        BY <4>3, <4>4, <4>5
    <3> QED
      BY <1>7, <3>1, <3>2 DEF TypeOK
  <2> QED
    BY <2>2, <2>3 DEF FlowInv, PastOn
<1> QED
  BY <1>6, <1>7, FinishCases

LEMMA FlowDeliver ==
    ASSUME TypeOK, SocketInv, SentInv, ViaInv, AnswerInv, FlowInv,
           NEW t \in Socket, Deliver(t), Head(down[t]).type # "close"
    PROVE  FlowInv'
<1> DEFINE msg == Head(down[t])
           c == Count(log[t], Len(log[t]))
<1>1. /\ FlowSent(sent, played, queue, port) /\ FlowOrder(sent, played, queue, port)
      /\ port \in Seq(PortMessages) /\ log[t] \in Seq(Message) /\ via[t] \in Seq(Line)
      /\ \A s \in Socket : PastOn(s)
      /\ socket[t] = "open"
  BY DEF FlowInv, TypeOK, Deliver
<1>2. msg \in Message
  BY HeadTailProperties DEF Deliver, TypeOK
<1>3. c < Len(via[t]) /\ msg.line = via[t][c + 1]
  BY AnswersDeliver
<1>4. /\ port' = IF msg.type = "frame" THEN Append(port, msg) ELSE port
      /\ log' = [log EXCEPT ![t] = Append(log[t], msg)]
      /\ socket'[t] = "open"
      /\ \A s \in Socket : socket'[s] = socket[s]
      /\ UNCHANGED <<sent, via, queue, played>>
  BY DEF Deliver, pageVars, TypeOK
<1>5. /\ Len(via[t]) \in Nat /\ Len(log[t]) \in Nat
      /\ c \in Nat
  BY <1>1, LenProperties, CountIsFinite
<1>6. Len(log'[t]) = Len(log[t]) + 1 /\ Count(log'[t], Len(log'[t])) \in {c, c + 1}
  <2>1. log'[t] = Append(log[t], msg)
    BY <1>4 DEF TypeOK
  <2>2. Len(Append(log[t], msg)) = Len(log[t]) + 1
    BY <1>1, <1>2, AppendProperties
  <2>3. Count(Append(log[t], msg), Len(log[t]) + 1) =
            IF Closes(msg.type) THEN c + 1 ELSE c
    BY <1>1, <1>2, CountOfAppend
  <2> QED
    BY <2>1, <2>2, <2>3
<1>7. \A s \in Socket : s # t => log'[s] = log[s]
  BY <1>4 DEF TypeOK
<1> HIDE DEF msg, c
<1>8. c + 1 \in 1..Len(via[t]) /\ c + 1 \in (c + 1)..Len(via[t])
  BY <1>3, <1>5
<1>9. /\ Contains(sent, msg.line)
      /\ Past(sent, played, queue, port, msg.line)
  <2>1. Contains(sent, via[t][c + 1])
    BY <1>8, ViaIsSent DEF IsSent
  <2>2. Past(sent, played, queue, port, via[t][c + 1])
    BY <1>1, <1>8 DEF PastOn, c
  <2> QED
    BY <1>3, <2>1, <2>2
<1>10. via[t] # <<>>
  BY <1>8, EmptySeq
<1>11. ASSUME NEW k \in (c + 1)..Len(via[t])
       PROVE  Place(sent, msg.line) <= Place(sent, via[t][k])
  <2>1. k \in 1..Len(via[t]) /\ (c + 1 < k \/ c + 1 = k)
    BY <1>5
  <2>2. Place(sent, via[t][k]) \in 1..Len(sent) /\ Place(sent, msg.line) \in 1..Len(sent)
    BY <1>3, <1>8, <2>1, ViaIsSent, OrdOfSent DEF Ord
  <2>3. Len(sent) \in Nat
    BY LenProperties DEF TypeOK
  <2>4. CASE c + 1 < k
    <3>1. Place(sent, via[t][c + 1]) < Place(sent, via[t][k])
      BY <1>8, <2>1, <2>4 DEF ViaInv, Ord
    <3> QED
      BY <1>3, <2>2, <2>3, <3>1
  <2>5. CASE c + 1 = k
    BY <1>3, <2>2, <2>3, <2>5
  <2> QED
    BY <2>1, <2>4, <2>5
<1>12. /\ FlowSent(sent, played, queue, port') /\ FlowOrder(sent, played, queue, port')
       /\ \A m : /\ Past(sent, played, queue, port, m)
                 /\ Place(sent, msg.line) <= Place(sent, m)
                 => Past(sent, played, queue, port', m)
  <2>1. CASE msg.type = "frame"
    <3>1. msg \in PortMessages
      BY <1>2, <2>1 DEF Message, PortMessages
    <3>2. port' = Append(port, msg)
      BY <1>4, <2>1
    <3> QED
      BY <1>1, <1>9, <2>1, <3>1, <3>2, FlowOfFrame
  <2>2. CASE msg.type # "frame"
    BY <1>1, <1>4, <2>2
  <2> QED
    BY <2>1, <2>2
<1>13. ASSUME NEW s \in Socket, socket'[s] = "open",
              NEW k \in (Count(log'[s], Len(log'[s])) + 1)..Len(via[s])
       PROVE  Past(sent, played, queue, port', via[s][k])
  <2>1. CASE s = t
    <3>1. k \in (c + 1)..Len(via[t])
      BY <1>5, <1>6, <2>1
    <3>2. Past(sent, played, queue, port, via[t][k])
      BY <1>1, <3>1 DEF PastOn, c
    <3> QED
      BY <1>11, <1>12, <2>1, <3>1, <3>2
  <2>2. CASE s # t
    <3>1. socket[s] = "open" /\ log'[s] = log[s]
      BY <1>4, <1>7, <1>13, <2>2
    <3>2. via[s] # <<>> => s = t
      BY <1>1, <1>10, <3>1 DEF SocketInv
    <3>3. via[s] = <<>> /\ Len(via[s]) = 0
      BY <2>2, <3>2, EmptySeq
    <3>4. Count(log[s], Len(log[s])) \in Nat
      BY CountIsFinite, LenProperties DEF TypeOK
    <3> QED
      BY <1>13, <3>1, <3>3, <3>4
  <2> QED
    BY <2>1, <2>2
<1> QED
  BY <1>4, <1>12, <1>13 DEF FlowInv, PastOn

LEMMA FlowStep ==
    ASSUME TypeOK, ClickInv, SocketInv, SentInv, ViaInv, AnswerInv, FlowInv, [Next]_vars
    PROVE  FlowInv'
<1>1. ASSUME NEW l \in Line, SendAtOnce(l) PROVE FlowInv'
  <2>1. /\ Finish(l) /\ ws \in Socket /\ task[l] # "sent"
        /\ \A s \in Socket : socket'[s] = "open" =>
              socket[s] = "open" \/ socket[s] = "connecting"
        /\ UNCHANGED <<log, queue, played>>
    BY <1>1 DEF SendAtOnce, CurrentOpen, TypeOK
  <2> QED
    BY <2>1, FlowFinish
<1>2. ASSUME NEW l \in Line, Opened(l) PROVE FlowInv'
  <2>1. /\ Finish(l) /\ ws \in Socket /\ task[l] # "sent"
        /\ \A s \in Socket : socket'[s] = "open" =>
              socket[s] = "open" \/ socket[s] = "connecting"
        /\ UNCHANGED <<log, queue, played>>
    BY <1>2 DEF Opened, ClickInv, TypeOK
  <2> QED
    BY <2>1, FlowFinish
<1>3. ASSUME UNCHANGED <<sent, via, log, port, queue, played>>,
             \A s \in Socket : socket'[s] = "open" => socket[s] = "open"
      PROVE  FlowInv'
  BY <1>3 DEF FlowInv, PastOn
<1>4. ASSUME NEW l \in Line,
             Click(l) \/ Load(l) \/ (\E s \in Socket : OpenSocket(l, s)) \/ OpenFails(l)
      PROVE  FlowInv'
  <2>1. UNCHANGED <<sent, via, log, port, queue, played>>
    BY <1>4 DEF Click, Load, OpenSocket, OpenFails, workletVars
  <2>2. \A s \in Socket : socket'[s] = "open" => socket[s] = "open"
    BY <1>4 DEF Click, Load, OpenSocket, OpenFails, TypeOK
  <2> QED
    BY <1>3, <2>1, <2>2
<1>5. ASSUME NEW s \in Socket, SessionStep(s) PROVE FlowInv'
  <2>1. UNCHANGED <<pageVars, socket, workletVars, log>>
    BY <1>5, SessionFrame
  <2> QED
    BY <1>3, <2>1 DEF pageVars, workletVars
<1>6. ASSUME NEW s \in Socket, Drop(s) \/ (Deliver(s) /\ Head(down[s]).type = "close")
      PROVE  FlowInv'
  <2>1. UNCHANGED <<sent, via, log, port, queue, played>>
    BY <1>6 DEF Drop, Deliver, pageVars, workletVars, TypeOK
  <2>2. \A t \in Socket : socket'[t] = "open" => socket[t] = "open"
    BY <1>6 DEF Drop, Deliver, TypeOK
  <2> QED
    BY <1>3, <2>1, <2>2
<1>7. ASSUME NEW s \in Socket, Deliver(s), Head(down[s]).type # "close" PROVE FlowInv'
  BY <1>7, FlowDeliver
<1>8. CASE PortMessage
  <2>1. /\ port # <<>> /\ port' = Tail(port)
        /\ queue' = IF Head(port).type = "flush" THEN <<>>
                    ELSE Append(queue, Head(port).line)
        /\ UNCHANGED <<sent, via, log, socket, played>>
    BY <1>8 DEF PortMessage, pageVars
  <2>2. /\ FlowSent(sent, played, queue', port') /\ FlowOrder(sent, played, queue', port')
        /\ \A m : Past(sent, played, queue, port, m) => Past(sent, played, queue', port', m)
    BY <2>1, FlowOfMessage DEF FlowInv, TypeOK
  <2> QED
    BY <2>1, <2>2 DEF FlowInv, PastOn
<1>9. CASE Play
  <2>1. /\ queue # <<>> /\ queue' = Tail(queue)
        /\ played' = IF played # <<>> /\ Last(played) = Head(queue) THEN played
                     ELSE Append(played, Head(queue))
        /\ UNCHANGED <<sent, via, log, socket, port>>
    BY <1>9 DEF Play, pageVars
  <2>2. /\ FlowSent(sent, played', queue', port) /\ FlowOrder(sent, played', queue', port)
        /\ \A m : Past(sent, played, queue, port, m) => Past(sent, played', queue', port, m)
    BY <2>1, FlowOfPlay DEF FlowInv, TypeOK
  <2> QED
    BY <2>1, <2>2 DEF FlowInv, PastOn
<1>10. CASE Settled \/ UNCHANGED vars
  BY <1>3, <1>10 DEF Settled, vars, pageVars, workletVars
<1> QED
  BY <1>1, <1>2, <1>4, <1>5, <1>6, <1>7, <1>8, <1>9, <1>10 DEF Next, PageStep

-----------------------------------------------------------------------------
(* The invariant                                                           *)

LEMMA InitIInv ==
    ASSUME Init
    PROVE  IInv
<1> USE DEF Init
<1>1. TypeOK
  BY DEF TypeOK, Session
<1>2. ClickInv /\ ForCause /\ RefusedInv
  BY DEF ClickInv, UnderWay, ForCause, RefusedInv
<1>3. SocketInv
  BY DEF SocketInv
<1>4. Len(<<>>) = 0
  BY EmptySeq
<1>5. SentInv /\ ViaInv
  BY <1>4 DEF SentInv, ViaInv
<1>6. AnswerInv
  BY <1>4 DEF AnswerInv, AnswersOn, Answers
<1>7. FlowInv
  BY <1>4 DEF FlowInv, FlowSent, FlowOrder, PastOn
<1> QED
  BY <1>1, <1>2, <1>3, <1>5, <1>6, <1>7 DEF IInv

\* What the page's clicks, its sockets, the sessions and the worklet keep
\* together at every moment.
THEOREM WebInvariance == Spec => []IInv
<1>1. Init => IInv
  BY InitIInv
<1>2. IInv /\ [Next]_vars => IInv'
  BY TypeStep, ClickStep, SocketStep, RefusedStep, SentStep, AnswerStep, FlowStep DEF IInv
<1> QED
  BY <1>1, <1>2, PTL DEF Spec

\* speak() and openSocket() of app.js: a click whose line is not sent fails, or
\* is discarded, because the worklet could not be loaded or another click was
\* under way; or, also if it is alone, its own socket never opened.
THEOREM ClicksLostForCause == Spec => []LostForCause
<1>1. IInv => LostForCause
  BY DEF IInv, ForCause, RefusedInv, LostForCause
<1> QED
  BY <1>1, WebInvariance, PTL

\* The messages of a socket carry no identifier: the n-th answer that the page
\* counts is to the n-th line it sent there, whole and in its order.
THEOREM CountingIsEnough == Spec => []AnswersInOrder
<1>1. IInv => AnswersInOrder
  <2> SUFFICES ASSUME IInv, NEW s \in Socket, NEW i \in 1..Len(log[s])
               PROVE  /\ AnswersBefore(s, i) < Len(via[s])
                      /\ log[s][i].line = via[s][AnswersBefore(s, i) + 1]
                      /\ (\E j \in 1..(i - 1) :
                             log[s][j] = [type |-> "start", line |-> log[s][i].line])
                         <=> log[s][i].type \in {"frame", "end"}
    BY DEF AnswersInOrder
  <2>1. Answers(log[s], via[s]) /\ log[s][i].type # "close"
    BY DEF IInv, AnswerInv, AnswersOn
  <2>2. AnswersBefore(s, i) = Count(log[s], i - 1)
    BY DEF AnswersBefore, Count
  <2>3. Started(log[s], i - 1, log[s][i].line) <=> log[s][i].type \in {"frame", "end"}
    BY <2>1 DEF Answers
  <2>4. (\E j \in 1..(i - 1) : log[s][j] = [type |-> "start", line |-> log[s][i].line])
            <=> log[s][i].type \in {"frame", "end"}
    BY <2>3 DEF Started
  <2>5. /\ Count(log[s], i - 1) < Len(via[s])
        /\ log[s][i].line = via[s][Count(log[s], i - 1) + 1]
    BY <2>1 DEF Answers
  <2> QED
    BY <2>2, <2>4, <2>5
<1> QED
  BY <1>1, WebInvariance, PTL

\* One player for all sockets: lines are heard one after another, never one
\* among another's frames, in the order they were sent.
THEOREM HeardOneAfterAnother == Spec => []OneVoice
<1>1. IInv => OneVoice
  <2> SUFFICES ASSUME IInv, NEW i \in 1..Len(played), NEW j \in 1..Len(played), i < j
               PROVE  \E m, n \in 1..Len(sent) :
                          m < n /\ sent[m] = played[i] /\ sent[n] = played[j]
    BY DEF OneVoice
  <2>1. /\ FlowSent(sent, played, queue, port)
        /\ Place(sent, played[i]) < Place(sent, played[j])
    BY DEF IInv, FlowInv, FlowOrder
  <2>2. /\ Place(sent, played[i]) \in 1..Len(sent) /\ sent[Place(sent, played[i])] = played[i]
        /\ Place(sent, played[j]) \in 1..Len(sent) /\ sent[Place(sent, played[j])] = played[j]
    BY <2>1, PlaceIs DEF FlowSent, Contains
  <2> QED
    BY <2>1, <2>2
<1> QED
  BY <1>1, WebInvariance, PTL
=============================================================================
