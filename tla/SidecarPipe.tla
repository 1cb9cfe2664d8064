----------------------------- MODULE SidecarPipe -----------------------------
(***************************************************************************)
(* The out-of-process engines, PiperEngine and RvcEngine, and their        *)
(* sidecars: one resident child process per engine, driven over a pair of  *)
(* pipes.  A call of stream() writes one request and reads frames until    *)
(* the terminator.  The pipes carry no request identifiers, so what keeps  *)
(* a response from reaching the wrong call is that every call leaves them  *)
(* empty or gives the process up.                                          *)
(*                                                                         *)
(* The two engines differ in what a request holds and in how many audio    *)
(* frames answer it (RVC: at most one); both are instances of this module. *)
(* A frame is not cut up into bytes: a process that dies within a frame    *)
(* is, for _read_exact as for read(1), a stream that ends.                 *)
(***************************************************************************)
EXTENDS Naturals, Sequences

CONSTANTS
    Call,        \* calls of stream(), each usable again once it has ended
    Overlap,     \* whether two worker threads may be in stream() at once
    MaxProc,     \* bound: sidecar processes spawned; the last one does not die
    MaxFrame,    \* bound: audio frames per response
    PipeFrames   \* bound: frames the response pipe holds before writes block

ASSUME PipeAssumption ==
    /\ Overlap \in BOOLEAN
    /\ MaxProc \in Nat \ {0}
    /\ MaxFrame \in Nat
    /\ PipeFrames \in Nat \ {0}

VARIABLES
    current,     \* the engine's _proc; 0 is None
    spawned,     \* sidecars spawned so far, numbered from 1
    life,        \* each sidecar: "unborn", "up", "dying", "dead"
    inbox,       \* requests in the sidecar's stdin
    outbox,      \* frames in its stdout
    job,         \* the request the sidecar works on: a set of at most one
    pc,          \* each call: "idle", "write", "read"
    on,          \* the local variable proc of the call
    got,         \* audio frames the call has yielded
    due,         \* history: audio frames the full response has
    made,        \* history: audio frames made for it so far
    result,      \* how the call last ended: "none", "ok", "error", "broken"
    lost         \* history: calls that ended "broken" on each sidecar

engineVars == <<current, spawned, pc, on, got, result, lost>>
sidecarVars == <<life, inbox, outbox, job, due, made>>
vars == <<engineVars, sidecarVars>>

Proc == 1..MaxProc

\* "A" audio, "X" error, "E" end; "of" is history, the pipe does not carry it.
Frame == [tag : {"A", "X", "E"}, of : Call]

TypeOK ==
    /\ current \in 0..MaxProc
    /\ spawned \in 0..MaxProc
    /\ life \in [Proc -> {"unborn", "up", "dying", "dead"}]
    /\ inbox \in [Proc -> Seq(Call)]
    /\ outbox \in [Proc -> Seq(Frame)]
    /\ \A n \in Proc : Len(outbox[n]) <= PipeFrames
    /\ job \in [Proc -> SUBSET Call]
    /\ pc \in [Call -> {"idle", "write", "read"}]
    /\ on \in [Call -> Proc]
    /\ got \in [Call -> Nat]
    /\ due \in [Call -> 0..MaxFrame]
    /\ made \in [Call -> 0..MaxFrame]
    /\ result \in [Call -> {"none", "ok", "error", "broken"}]
    /\ lost \in [Proc -> Nat]

Init ==
    /\ current = 0
    /\ spawned = 0
    /\ life = [n \in Proc |-> "unborn"]
    /\ inbox = [n \in Proc |-> <<>>]
    /\ outbox = [n \in Proc |-> <<>>]
    /\ job = [n \in Proc |-> {}]
    /\ pc = [c \in Call |-> "idle"]
    /\ on = [c \in Call |-> 1]
    /\ got = [c \in Call |-> 0]
    /\ due = [c \in Call |-> 0]
    /\ made = [c \in Call |-> 0]
    /\ result = [c \in Call |-> "none"]
    /\ lost = [n \in Proc |-> 0]

-----------------------------------------------------------------------------
(* stream()                                                                *)

\* poll() is None: the process has not been waited for.
NotReaped(n) == n # 0 /\ life[n] \in {"up", "dying"}

Begin(c, n) ==
    /\ pc[c] = "idle"
    /\ Overlap \/ \A d \in Call : pc[d] = "idle"
    /\ pc' = [pc EXCEPT ![c] = "write"]
    /\ on' = [on EXCEPT ![c] = n]
    /\ got' = [got EXCEPT ![c] = 0]
    /\ due' = [due EXCEPT ![c] = 0]
    /\ made' = [made EXCEPT ![c] = 0]
    /\ result' = [result EXCEPT ![c] = "none"]

\* _ensure_proc() finds the sidecar running.
Reuse(c) ==
    /\ NotReaped(current)
    /\ Begin(c, current)
    /\ UNCHANGED <<current, spawned, life, inbox, outbox, job, lost>>

\* _ensure_proc() spawns one.
Spawn(c) ==
    /\ ~NotReaped(current)
    /\ spawned < MaxProc
    /\ Begin(c, spawned + 1)
    /\ spawned' = spawned + 1
    /\ current' = spawned + 1
    /\ life' = [life EXCEPT ![spawned + 1] = "up"]
    /\ UNCHANGED <<inbox, outbox, job, lost>>

\* The call's stream has ended, in one of three ways.
End(c, how) ==
    /\ pc' = [pc EXCEPT ![c] = "idle"]
    /\ result' = [result EXCEPT ![c] = how]

\* close(): the engine gives up its _proc, which is another one than the
\* caller's when calls overlap, and has it terminated if it still runs.
Close ==
    /\ current' = 0
    /\ IF NotReaped(current)
         THEN /\ life' = [life EXCEPT ![current] = "dying"]
              /\ inbox' = [inbox EXCEPT ![current] = <<>>]
              /\ job' = [job EXCEPT ![current] = {}]
         ELSE UNCHANGED <<life, inbox, job>>

\* A fault: a broken sidecar is kept for the next call.
BrokenKeepsProc(c) ==
    /\ End(c, "broken")
    /\ lost' = [lost EXCEPT ![on[c]] = @ + 1]
    /\ UNCHANGED <<current, life, inbox, job>>

\* A protocol error or OSError: drop the sidecar, re-raise.
Broken(c) ==
    /\ End(c, "broken")
    /\ lost' = [lost EXCEPT ![on[c]] = @ + 1]
    /\ Close

WriteRequest(c) ==
    /\ pc[c] = "write"
    /\ life[on[c]] = "up"
    /\ inbox' = [inbox EXCEPT ![on[c]] = Append(@, c)]
    /\ pc' = [pc EXCEPT ![c] = "read"]
    /\ UNCHANGED <<current, spawned, on, got, result, lost, life, outbox, job, due, made>>

\* EPIPE: the sidecar's end of its stdin is closed.
WriteFails(c) ==
    /\ pc[c] = "write"
    /\ life[on[c]] # "up"
    /\ Broken(c)
    /\ UNCHANGED <<spawned, on, got, outbox, due, made>>

NextFrame(c, tag) ==
    /\ pc[c] = "read"
    /\ outbox[on[c]] # <<>>
    /\ Head(outbox[on[c]]).tag = tag
    /\ outbox' = [outbox EXCEPT ![on[c]] = Tail(@)]

ReadAudio(c) ==
    /\ NextFrame(c, "A")
    /\ got' = [got EXCEPT ![c] = @ + 1]
    /\ UNCHANGED <<current, spawned, pc, on, result, lost, life, inbox, job, due, made>>

ReadEnd(c) ==
    /\ NextFrame(c, "E")
    /\ End(c, "ok")
    /\ UNCHANGED <<current, spawned, on, got, lost, life, inbox, job, due, made>>

\* The sidecar reports a failure of this request; it is still in order.
ReadError(c) ==
    /\ NextFrame(c, "X")
    /\ End(c, "error")
    /\ UNCHANGED <<current, spawned, on, got, lost, life, inbox, job, due, made>>

\* A fault: the end of the stream is taken for the end of the response.
EofAsEnd(c) ==
    /\ pc[c] = "read"
    /\ outbox[on[c]] = <<>>
    /\ life[on[c]] # "up"
    /\ End(c, "ok")
    /\ UNCHANGED <<current, spawned, on, got, lost, life, inbox, outbox, job, due, made>>

\* The stream ends before its end marker.
ReadEof(c) ==
    /\ pc[c] = "read"
    /\ outbox[on[c]] = <<>>
    /\ life[on[c]] # "up"
    /\ Broken(c)
    /\ UNCHANGED <<spawned, on, got, outbox, due, made>>

-----------------------------------------------------------------------------
(* The sidecar's main loop                                                 *)

TakeRequest(n) ==
    /\ life[n] = "up"
    /\ job[n] = {}
    /\ inbox[n] # <<>>
    /\ job' = [job EXCEPT ![n] = {Head(inbox[n])}]
    /\ inbox' = [inbox EXCEPT ![n] = Tail(@)]
    /\ \E k \in 0..MaxFrame : due' = [due EXCEPT ![Head(inbox[n])] = k]
    /\ UNCHANGED <<engineVars, life, outbox, made>>

Emit(n, c, tag) ==
    /\ life[n] = "up"
    /\ c \in job[n]
    /\ Len(outbox[n]) < PipeFrames
    /\ outbox' = [outbox EXCEPT ![n] = Append(@, [tag |-> tag, of |-> c])]

EmitAudio(n, c) ==
    /\ made[c] < due[c]
    /\ Emit(n, c, "A")
    /\ made' = [made EXCEPT ![c] = @ + 1]
    /\ UNCHANGED <<engineVars, life, inbox, job, due>>

EmitEnd(n, c) ==
    /\ made[c] = due[c]
    /\ Emit(n, c, "E")
    /\ job' = [job EXCEPT ![n] = {}]
    /\ UNCHANGED <<engineVars, life, inbox, due, made>>

\* A fault: the exception is swallowed and the request goes unanswered.
SwallowError(n, c) ==
    /\ life[n] = "up"
    /\ c \in job[n]
    /\ job' = [job EXCEPT ![n] = {}]
    /\ UNCHANGED <<engineVars, life, inbox, outbox, due, made>>

\* A fault: the end marker follows the error frame, as from a finally.
ErrorThenEnd(n, c) ==
    /\ life[n] = "up"
    /\ c \in job[n]
    /\ Len(outbox[n]) < PipeFrames
    /\ outbox' = [outbox EXCEPT ![n] = @ \o <<[tag |-> "X", of |-> c], [tag |-> "E", of |-> c]>>]
    /\ job' = [job EXCEPT ![n] = {}]
    /\ UNCHANGED <<engineVars, life, inbox, due, made>>

\* Synthesis raises, before, between or after the audio frames.
EmitError(n, c) ==
    /\ Emit(n, c, "X")
    /\ job' = [job EXCEPT ![n] = {}]
    /\ UNCHANGED <<engineVars, life, inbox, due, made>>

\* The process dies: its ends of the pipes close; what it wrote can be read.
Die(n) ==
    /\ life[n] = "up"
    /\ n < MaxProc
    /\ life' = [life EXCEPT ![n] = "dying"]
    /\ inbox' = [inbox EXCEPT ![n] = <<>>]
    /\ job' = [job EXCEPT ![n] = {}]
    /\ UNCHANGED <<engineVars, outbox, due, made>>

\* A moment later poll() can tell.
BecomeWaitable(n) ==
    /\ life[n] = "dying"
    /\ life' = [life EXCEPT ![n] = "dead"]
    /\ UNCHANGED <<engineVars, inbox, outbox, job, due, made>>

-----------------------------------------------------------------------------
Reading(c) ==
    \/ WriteRequest(c) \/ WriteFails(c)
    \/ ReadAudio(c) \/ ReadEnd(c) \/ ReadError(c) \/ ReadEof(c)

Working(n) ==
    \/ TakeRequest(n)
    \/ \E c \in Call : EmitAudio(n, c) \/ EmitEnd(n, c) \/ EmitError(n, c)

Next ==
    \/ \E c \in Call : Reuse(c) \/ Spawn(c) \/ Reading(c)
    \/ \E n \in Proc : Working(n) \/ Die(n) \/ BecomeWaitable(n)

\* A worker thread and a live sidecar go on; no synthesis hangs here (that is
\* SpeechServer's watchdog).
Fairness ==
    /\ \A c \in Call : WF_vars(Reading(c))
    /\ \A n \in Proc : WF_vars(Working(n)) /\ WF_vars(BecomeWaitable(n))

Spec == Init /\ [][Next]_vars /\ Fairness

-----------------------------------------------------------------------------
\* The next frame a call will read was made for it: no call ever gets audio,
\* an error or an end marker of another one.
OwnFrames ==
    \A c \in Call :
        pc[c] = "read" /\ outbox[on[c]] # <<>> => Head(outbox[on[c]]).of = c

\* A response that ends as complete is complete, whenever the sidecar died: a
\* dead sidecar is an error, "never a silently truncated success".
NeverTruncated ==
    \A c \in Call : result[c] = "ok" => got[c] = due[c] /\ made[c] = due[c]

\* One dead sidecar breaks at most one call; the next one gets a new sidecar.
DeathCostsOneCall ==
    \A n \in Proc : lost[n] <= 1

\* Every call ends, with its audio or with an error.
EveryCallEnds ==
    \A c \in Call : pc[c] # "idle" ~> pc[c] = "idle"
=============================================================================
