----------------------------- MODULE WebSession -----------------------------
(***************************************************************************)
(* The browser client and the WebSocket sessions it talks to: speak() of   *)
(* hosaka/web/app.js, one task per click that other clicks overtake at     *)
(* every await; the worklet of pcm-player.js; and the loop of the route    *)
(* /v1/audio/stream in hosaka/server/app.py, one per socket.  A click is   *)
(* known by its line.                                                      *)
(*                                                                         *)
(* Sockets are FIFO each way and unordered among each other.  What the     *)
(* server does with a line between its start and end is SpeechServer's;    *)
(* here a line is refused, or takes the one slot and sends some frames, or *)
(* ends its socket, or never gives the slot back.  Messages carry their    *)
(* line for the properties only.                                           *)
(***************************************************************************)
EXTENDS Naturals, FiniteSets, Sequences, SequencesExt

CONSTANTS
    Line,          \* the clicks on Speak
    Socket,        \* a set of numbers: the sockets the page may open, in this order
    MaxFrames      \* bound: frames of a line

ASSUME WebAssumption ==
    /\ Socket \subseteq Nat \ {0}
    /\ MaxFrames \in Nat

VARIABLES
    audio,         \* ctx and node: "none"; "loading": ctx without node; "ready"; "failed"
    task,          \* where the click's task is
    waiting,       \* the socket whose opening it awaits
    ws,            \* the page's current socket, 0 for null
    socket,        \* what the page sees of each socket
    up, down,      \* messages on their way to the server, to the page
    session,       \* the server's session of each socket
    slot,          \* the socket whose session is being served, 0 for none
    port,          \* messages on their way to the worklet
    queue,         \* the worklet's _queue and _cur
    overlapped,    \* history: the clicks made while another was under way, and those others
    sent,          \* history: the lines in the order of their send()
    via,           \* history: the lines sent on each socket
    log,           \* history: the messages the page got on each socket
    played         \* history: the lines heard, in order, runs of frames as one

pageVars == <<audio, task, waiting, ws, overlapped, sent, via>>
serverVars == <<session, slot>>
workletVars == <<port, queue, played>>
vars == <<pageVars, socket, up, down, serverVars, workletVars, log>>

\* "idle": in receive_json(); "queued": admitted; "speaking": has sent the
\* start marker; "wedged": closes its generator behind a hung engine; "over":
\* the coroutine has ended.
Idle == [at |-> "idle"]
Over == [at |-> "over"]

UnderWay == {l \in Line : task[l] \in {"loading", "checking", "opening"}}

Init ==
    /\ audio = "none"
    /\ task = [l \in Line |-> "none"]
    /\ waiting = [l \in Line |-> 0]
    /\ ws = 0
    /\ socket = [s \in Socket |-> "unused"]
    /\ up = [s \in Socket |-> <<>>]
    /\ down = [s \in Socket |-> <<>>]
    /\ session = [s \in Socket |-> Over]
    /\ slot = 0
    /\ port = <<>>
    /\ queue = <<>>
    /\ overlapped = {}
    /\ sent = <<>>
    /\ via = [s \in Socket |-> <<>>]
    /\ log = [s \in Socket |-> <<>>]
    /\ played = <<>>

-----------------------------------------------------------------------------
(* A click                                                                 *)

\* speak() up to its first await: only the first click loads the worklet,
\* and the next ones do not wait for it.
Click(l) ==
    /\ task[l] = "none"
    /\ task' = [task EXCEPT ![l] = IF audio = "none" THEN "loading" ELSE "checking"]
    /\ audio' = IF audio = "none" THEN "loading" ELSE audio
    /\ overlapped' = IF UnderWay = {} THEN overlapped ELSE overlapped \cup UnderWay \cup {l}
    /\ UNCHANGED <<waiting, ws, sent, via, socket, up, down, serverVars, workletVars, log>>

\* addModule() resolves, or rejects; then ctx stays set and node null for good.
Load(l) ==
    /\ task[l] = "loading"
    /\ \/ audio' = "ready" /\ task' = [task EXCEPT ![l] = "checking"]
       \/ audio' = "failed" /\ task' = [task EXCEPT ![l] = "failed"]
    /\ UNCHANGED <<waiting, ws, overlapped, sent, via, socket, up, down,
                   serverVars, workletVars, log>>

(***************************************************************************)
(* The end of speak(), after its last await: flush the worklet, and send   *)
(* on the current socket as it then is.  Without a node postMessage raises *)
(* before anything is done; on a connecting socket send() raises after the *)
(* flush; on a closed one it discards the line and raises nothing.         *)
(***************************************************************************)
Finish(l) ==
    IF audio # "ready"
      THEN /\ task' = [task EXCEPT ![l] = "failed"]
           /\ UNCHANGED <<port, up, sent, via>>
      ELSE /\ port' = Append(port, [type |-> "flush"])
           /\ task' = [task EXCEPT ![l] = CASE socket'[ws] = "open" -> "sent"
                                            [] socket'[ws] = "closed" -> "lost"
                                            [] OTHER -> "failed"]
           /\ IF socket'[ws] = "open"
                THEN /\ up' = [up EXCEPT ![ws] = Append(@, l)]
                     /\ sent' = Append(sent, l)
                     /\ via' = [via EXCEPT ![ws] = Append(@, l)]
                ELSE UNCHANGED <<up, sent, via>>

CurrentOpen == ws # 0 /\ socket[ws] = "open"

\* The current socket is open: the click goes through to its end.
SendAtOnce(l) ==
    /\ task[l] = "checking"
    /\ CurrentOpen
    /\ UNCHANGED socket
    /\ Finish(l)
    /\ UNCHANGED <<audio, waiting, ws, overlapped, down, serverVars, queue, played, log>>

\* The sockets are used in order.
Fresh(s) == socket[s] = "unused" /\ \A t \in Socket : t < s => socket[t] # "unused"

\* A fault: a socket is opened for every line.
OpenAlways(l, s) ==
    /\ task[l] = "checking"
    /\ Fresh(s)
    /\ task' = [task EXCEPT ![l] = "opening"]
    /\ waiting' = [waiting EXCEPT ![l] = s]
    /\ ws' = s
    /\ socket' = [socket EXCEPT ![s] = "connecting"]
    /\ UNCHANGED <<audio, overlapped, sent, via, up, down, serverVars, workletVars, log>>

\* It is not: openSocket() replaces it, also if it is only connecting.
OpenSocket(l, s) ==
    /\ task[l] = "checking"
    /\ ~CurrentOpen
    /\ Fresh(s)
    /\ task' = [task EXCEPT ![l] = "opening"]
    /\ waiting' = [waiting EXCEPT ![l] = s]
    /\ ws' = s
    /\ socket' = [socket EXCEPT ![s] = "connecting"]
    /\ UNCHANGED <<audio, overlapped, sent, via, up, down, serverVars, workletVars, log>>

\* A fault: speak() goes on before the socket is open.
OpenedTooSoon(l) ==
    /\ task[l] = "opening"
    /\ socket' = socket
    /\ session' = session
    /\ Finish(l)
    /\ UNCHANGED <<audio, waiting, ws, overlapped, down, slot, queue, played, log>>

\* onopen: the session begins, and the click goes through to its end.
Opened(l) ==
    /\ task[l] = "opening"
    /\ socket' = [socket EXCEPT ![waiting[l]] = "open"]
    /\ session' = [session EXCEPT ![waiting[l]] = Idle]
    /\ Finish(l)
    /\ UNCHANGED <<audio, waiting, ws, overlapped, down, slot, queue, played, log>>

\* onerror of a socket that was connecting.
OpenFails(l) ==
    /\ task[l] = "opening"
    /\ socket' = [socket EXCEPT ![waiting[l]] = "closed"]
    /\ task' = [task EXCEPT ![l] = "refused"]
    /\ UNCHANGED <<audio, waiting, ws, overlapped, sent, via, up, down,
                   serverVars, workletVars, log>>

-----------------------------------------------------------------------------
(* The server's session of a socket                                        *)

\* A send to a client that is gone goes nowhere before it raises (Abandon).
Answer(s, type, l) ==
    IF socket[s] = "open" THEN Append(down[s], [type |-> type, line |-> l]) ELSE down[s]

\* A fault: the session goes on after it has refused.
RefusedGoesOn(s) ==
    /\ session[s].at = "idle"
    /\ up[s] # <<>>
    /\ up' = [up EXCEPT ![s] = Tail(@)]
    /\ down' = [down EXCEPT ![s] = Answer(s, "error", Head(up[s]))]
    /\ session' = [session EXCEPT ![s] = [at |-> "queued", line |-> Head(up[s])]]
    /\ UNCHANGED <<pageVars, socket, slot, workletVars, log>>

\* Not an object, not valid, an unknown voice, or busy.
Refuse(s) ==
    /\ session[s].at = "idle"
    /\ up[s] # <<>>
    /\ up' = [up EXCEPT ![s] = Tail(@)]
    /\ down' = [down EXCEPT ![s] = Answer(s, "error", Head(up[s]))]
    /\ UNCHANGED <<pageVars, socket, serverVars, workletVars, log>>

Admit(s) ==
    /\ session[s].at = "idle"
    /\ up[s] # <<>>
    /\ up' = [up EXCEPT ![s] = Tail(@)]
    /\ session' = [session EXCEPT ![s] = [at |-> "queued", line |-> Head(up[s])]]
    /\ UNCHANGED <<pageVars, socket, down, slot, workletVars, log>>

Start(s) ==
    /\ session[s].at = "queued"
    /\ slot = 0
    /\ slot' = s
    /\ down' = [down EXCEPT ![s] = Answer(s, "start", session[s].line)]
    /\ \E n \in 0..MaxFrames :
          session' = [session EXCEPT ![s] =
                         [at |-> "speaking", line |-> session[s].line, left |-> n]]
    /\ UNCHANGED <<pageVars, socket, up, workletVars, log>>

Frame(s) ==
    /\ session[s].at = "speaking"
    /\ session[s].left > 0
    /\ session' = [session EXCEPT ![s].left = @ - 1]
    /\ down' = [down EXCEPT ![s] = Answer(s, "frame", session[s].line)]
    /\ UNCHANGED <<pageVars, socket, up, slot, workletVars, log>>

\* A fault: the slot is kept after the end marker.
EndKeepsSlot(s) ==
    /\ session[s].at = "speaking"
    /\ session[s].left = 0
    /\ session' = [session EXCEPT ![s] = Idle]
    /\ down' = [down EXCEPT ![s] = Answer(s, "end", session[s].line)]
    /\ UNCHANGED <<pageVars, socket, up, slot, workletVars, log>>

End(s) ==
    /\ session[s].at = "speaking"
    /\ session[s].left = 0
    /\ session' = [session EXCEPT ![s] = Idle]
    /\ slot' = 0
    /\ down' = [down EXCEPT ![s] = Answer(s, "end", session[s].line)]
    /\ UNCHANGED <<pageVars, socket, up, workletVars, log>>

\* An engine error goes through the route: uvicorn closes the socket.
EngineFails(s) ==
    /\ session[s].at = "speaking"
    /\ socket[s] = "open"
    /\ session' = [session EXCEPT ![s] = Over]
    /\ slot' = 0
    /\ down' = [down EXCEPT ![s] = Answer(s, "close", session[s].line)]
    /\ UNCHANGED <<pageVars, socket, up, workletVars, log>>

\* The connection was lost: receive_json() or the next send raises, and the
\* slot comes back.  A queued session notices nothing until it has the slot.
Abandon(s) ==
    /\ socket[s] = "closed"
    /\ session[s].at \in {"idle", "speaking"}
    /\ session' = [session EXCEPT ![s] = Over]
    /\ slot' = IF slot = s THEN 0 ELSE slot
    /\ UNCHANGED <<pageVars, socket, up, down, workletVars, log>>

(***************************************************************************)
(* ... or the send of a frame raises, and the engine hangs on what it      *)
(* makes next: aclosing() closes the generator, whose finally awaits the   *)
(* worker without a limit.  The session never ends and keeps the slot.     *)
(***************************************************************************)
Wedge(s) ==
    /\ socket[s] = "closed"
    /\ session[s].at = "speaking"
    /\ session[s].left > 0
    /\ session' = [session EXCEPT ![s] = [at |-> "wedged", line |-> session[s].line]]
    /\ UNCHANGED <<pageVars, socket, up, down, slot, workletVars, log>>

-----------------------------------------------------------------------------
(* The page and its worklet                                                *)

\* onmessage and onclose.
Deliver(s) ==
    /\ socket[s] = "open"
    /\ down[s] # <<>>
    /\ LET msg == Head(down[s])
       IN  /\ port' = IF msg.type = "frame" THEN Append(port, msg) ELSE port
           /\ socket' = [socket EXCEPT ![s] = IF msg.type = "close" THEN "closed" ELSE @]
           /\ up' = [up EXCEPT ![s] = IF msg.type = "close" THEN <<>> ELSE @]
           /\ log' = [log EXCEPT ![s] = IF msg.type = "close" THEN @ ELSE Append(@, msg)]
    /\ down' = [down EXCEPT ![s] = Tail(@)]
    /\ UNCHANGED <<pageVars, serverVars, queue, played>>

\* The connection is lost, and what was on its way.
Drop(s) ==
    /\ socket[s] = "open"
    /\ socket' = [socket EXCEPT ![s] = "closed"]
    /\ up' = [up EXCEPT ![s] = <<>>]
    /\ down' = [down EXCEPT ![s] = <<>>]
    /\ UNCHANGED <<pageVars, serverVars, workletVars, log>>

\* port.onmessage
PortMessage ==
    /\ port # <<>>
    /\ queue' = IF Head(port).type = "flush" THEN <<>> ELSE Append(queue, Head(port).line)
    /\ port' = Tail(port)
    /\ UNCHANGED <<pageVars, socket, up, down, serverVars, played, log>>

\* process(): the next chunk is played.
Play ==
    /\ queue # <<>>
    /\ queue' = Tail(queue)
    /\ played' = IF played # <<>> /\ Last(played) = Head(queue) THEN played
                 ELSE Append(played, Head(queue))
    /\ UNCHANGED <<pageVars, socket, up, down, serverVars, port, log>>

\* The session keeps the slot for ever, or waits for it for ever.
BehindWedge(s) ==
    /\ session[s].at \in {"queued", "wedged"}
    /\ \E t \in Socket : session[t].at = "wedged"

Settled ==
    /\ \A l \in Line : task[l] \notin {"none", "loading", "checking", "opening"}
    /\ \A s \in Socket :
          /\ down[s] = <<>>
          /\ \/ up[s] = <<>> /\ session[s] \in {Idle, Over}
             \/ BehindWedge(s)
    /\ port = <<>> /\ queue = <<>>
    /\ UNCHANGED vars

-----------------------------------------------------------------------------
PageStep(l) ==
    \/ Load(l)
    \/ SendAtOnce(l)
    \/ \E s \in Socket : OpenSocket(l, s)
    \/ Opened(l)
    \/ OpenFails(l)

SessionStep(s) ==
    \/ Refuse(s) \/ Admit(s) \/ Start(s) \/ Frame(s) \/ End(s)
    \/ EngineFails(s)
    \/ Abandon(s) \/ Wedge(s)

Next ==
    \/ \E l \in Line : Click(l) \/ PageStep(l)
    \/ \E s \in Socket : SessionStep(s) \/ Deliver(s) \/ Drop(s)
    \/ PortMessage
    \/ Play
    \/ Settled

(***************************************************************************)
(* The browser resolves or rejects what it was asked for and runs the      *)
(* task; a socket delivers or is lost; a session goes on as long as it can *)
(* (SpeechServer): it serves its lines in order (Admission), and one whose *)
(* socket is lost ends or is wedged.  Nothing ends a wedged one, and a     *)
(* queued one goes on only once the slot is free.                          *)
(***************************************************************************)
Fairness ==
    /\ \A l \in Line : WF_vars(PageStep(l))
    /\ \A s \in Socket : WF_vars(SessionStep(s)) /\ WF_vars(Deliver(s))
    /\ WF_vars(PortMessage)

Spec == Init /\ [][Next]_vars /\ Fairness

-----------------------------------------------------------------------------
(* Properties                                                              *)

Closes(type) == type \in {"end", "error"}

\* How many of a socket's messages before the i-th ended an answer.
AnswersBefore(s, i) == Cardinality({j \in 1..(i - 1) : Closes(log[s][j].type)})

(***************************************************************************)
(* The messages carry no identifier, so a client counts: the n-th answer   *)
(* on a socket is to the n-th line sent on it, and is an error alone, or a *)
(* start marker, frames and an end marker, whatever was refused, was busy  *)
(* or was sent meanwhile.                                                  *)
(***************************************************************************)
AnswersInOrder ==
    \A s \in Socket : \A i \in 1..Len(log[s]) :
        LET m == log[s][i]
            started == \E j \in 1..(i - 1) : log[s][j] = [type |-> "start", line |-> m.line]
        IN  /\ AnswersBefore(s, i) < Len(via[s])
            /\ m.line = via[s][AnswersBefore(s, i) + 1]
            /\ started <=> m.type \in {"frame", "end"}

(***************************************************************************)
(* Lines are heard one after another in the order they were sent, also     *)
(* across a lost and a new socket and when two clicks open a socket each:  *)
(* all frames go to one player, and sockets are not ordered, so it must    *)
(* never happen that two of them carry lines at once.  The frames of an    *)
(* old line may still come after the flush of a new one, but never among   *)
(* its own.                                                                *)
(***************************************************************************)
OneVoice ==
    \A i, j \in 1..Len(played) : i < j =>
        \E m, n \in 1..Len(sent) : m < n /\ sent[m] = played[i] /\ sent[n] = played[j]

\* The socket that was opened for the click never opened: nobody's line went
\* out on it, nothing came back, and the server has no session of it.
NeverOpened(l) ==
    LET s == waiting[l]
    IN  s # 0 /\ socket[s] = "closed" /\ via[s] = <<>> /\ log[s] = <<>> /\ session[s] = Over

(***************************************************************************)
(* A click whose line is not sent has one of three causes.  It ends in an  *)
(* exception, or its line is discarded without one, because the worklet    *)
(* could not be loaded or because another click was under way; or, also    *)
(* if it is alone, it ends in "ws error" because its own socket did not    *)
(* open.                                                                   *)
(***************************************************************************)
LostForCause ==
    \A l \in Line :
        /\ task[l] \in {"failed", "lost"} => audio = "failed" \/ l \in overlapped
        /\ task[l] = "refused" => NeverOpened(l)

Answered(l) ==
    \E s \in Socket :
        \/ l \in ToSet(via[s]) /\ socket[s] = "closed"
        \/ \E i \in 1..Len(log[s]) : log[s][i].line = l /\ Closes(log[s][i].type)

(***************************************************************************)
(* Every click comes to an end the user sees, an error, an answer to its   *)
(* line or its socket closing, with the one exception the code has: the    *)
(* slot is kept by a session whose own socket was lost and whose engine    *)
(* hangs, and the line's session waits for it (speech_wedge_unseen).       *)
(***************************************************************************)
EveryClickEnds ==
    \A l \in Line :
        task[l] \in {"loading", "checking", "opening", "sent"} ~>
            \/ task[l] \in {"failed", "lost", "refused"}
            \/ Answered(l)
            \/ \E s \in Socket : l \in ToSet(via[s]) /\ BehindWedge(s)
=============================================================================
