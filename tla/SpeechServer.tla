---------------------------- MODULE SpeechServer ----------------------------
(***************************************************************************)
(* One request's way through hosaka/server/app.py: admission, the slot     *)
(* lease, the streaming generator _pcm_frames with one worker thread per   *)
(* fragment, the watchdog on the worker, the client going away, and the    *)
(* process shutting down.  HTTP and WebSocket share all of it but how a    *)
(* lost client is noticed: a WebSocket send raises, an HTTP send does not, *)
(* and Starlette cancels the HTTP response instead.                        *)
(*                                                                         *)
(* A request is an HTTP POST or one utterance of a WebSocket session; its  *)
(* identifier is free for another one when it is out, except that it waits *)
(* for a worker thread the request may have left behind, so that a thread  *)
(* keeps its name.                                                         *)
(***************************************************************************)
EXTENDS GpuQueue

CONSTANTS
    WsRequest,      \* the requests that come over a WebSocket
    Leaver,         \* the requests whose client may go away
    MayHang,        \* whether an engine call may hang (a wedged GPU call)
    MaxFragments,   \* bound: fragments per text
    MaxChunks       \* bound: PCM chunks per fragment

ASSUME SpeechAssumption ==
    /\ WsRequest \subseteq Request
    /\ Leaver \subseteq Request
    /\ MayHang \in BOOLEAN
    /\ MaxFragments \in Nat
    /\ MaxChunks \in Nat

VARIABLES
    pc,          \* where the request's task is suspended
    taken,       \* _SlotLease.taken
    gone,        \* the client's connection is lost
    frags,       \* fragments _pcm_frames has yet to start
    why,         \* what _pcm_frames does once its worker has finished
    worker,      \* the worker thread of the current (or a left) fragment
    budget,      \* PCM chunks the engine may still produce for the fragment
    items,       \* the fragment's asyncio.Queue
    failed,      \* history: an engine call failed during this request
    server       \* the process

requestVars == <<pc, taken, gone, frags, why>>
threadVars == <<worker, budget, items, failed>>
vars == <<queueVars, requestVars, threadVars, server>>

HttpRequest == Request \ WsRequest

(***************************************************************************)
(* "out"; "queued": in acquire(); "prepared": acquire() returned, the      *)
(* lease exists; "starting": about to send the start marker or response    *)
(* head; "fragment": top of the loop over fragments; "get": awaiting the   *)
(* worker's next item; "sending": a chunk is yielded and being sent;       *)
(* "draining": awaiting shield(fut); "ending": the generator has ended,    *)
(* the end marker or the end of the body is to be sent.                    *)
(***************************************************************************)
PC == {"out", "queued", "prepared", "starting", "fragment", "get", "sending",
       "draining", "ending"}

\* "next": go on with the next fragment; "raise": the engine's exception goes
\* on to the route; "close": aclose() ends the generator.
Why == {"next", "raise", "close"}

\* "busy": in engine.stream(); "hung": there forever; "leaving": it has put
\* the None and is about to return; "returned": fut is done.
WorkerState == {"none", "busy", "hung", "leaving", "returned"}

\* What produce() puts: PCM, an exception, a fatal CUDA error, the final None.
Item == {"chunk", "error", "fatal", "none"}

\* "stopping": SIGTERM was raised and uvicorn has not looked yet; "closing":
\* it accepts nothing and lets the requests finish; "exited".
ServerState == {"up", "stopping", "closing", "exited"}

TypeOK ==
    /\ QueueTypeOK
    /\ pc \in [Request -> PC]
    /\ taken \in [Request -> BOOLEAN]
    /\ gone \in [Request -> BOOLEAN]
    /\ frags \in [Request -> 0..MaxFragments]
    /\ why \in [Request -> Why]
    /\ worker \in [Request -> WorkerState]
    /\ budget \in [Request -> 0..MaxChunks]
    /\ items \in [Request -> Seq(Item)]
    /\ failed \in [Request -> BOOLEAN]
    /\ server \in ServerState

Init ==
    /\ QueueInit
    /\ pc = [r \in Request |-> "out"]
    /\ taken = [r \in Request |-> FALSE]
    /\ gone = [r \in Request |-> FALSE]
    /\ frags = [r \in Request |-> 0]
    /\ why = [r \in Request |-> "next"]
    /\ worker = [r \in Request |-> "none"]
    /\ budget = [r \in Request |-> 0]
    /\ items = [r \in Request |-> <<>>]
    /\ failed = [r \in Request |-> FALSE]
    /\ server = "up"

-----------------------------------------------------------------------------
(* Helpers                                                                 *)

ThreadRuns(r) == worker[r] \in {"busy", "hung", "leaving"}

Goto(r, where) == pc' = [pc EXCEPT ![r] = where]

\* The request is over: its task, its lease and its generator are gone.  A
\* thread it leaves behind goes on; nobody reads its queue any more.
Forget(r) ==
    /\ Goto(r, "out")
    /\ taken' = [taken EXCEPT ![r] = FALSE]
    /\ gone' = [gone EXCEPT ![r] = FALSE]
    /\ frags' = [frags EXCEPT ![r] = 0]
    /\ why' = [why EXCEPT ![r] = "next"]
    /\ items' = [items EXCEPT ![r] = <<>>]
    /\ budget' = [budget EXCEPT ![r] = 0]
    /\ failed' = [failed EXCEPT ![r] = FALSE]
    /\ worker' = [worker EXCEPT ![r] = IF ThreadRuns(r) THEN @ ELSE "none"]

\* _do_shutdown(): SIGTERM to this process, whose handler only sets a flag.
RequestShutdown == server' = IF server = "up" THEN "stopping" ELSE server

\* A fault: the route gives up on a failed stream without looking at the lease.
NoLeaseRelease(r) == UNCHANGED queueVars

\* _SlotLease.release_if_untaken().
ReleaseIfUntaken(r) == IF taken[r] THEN UNCHANGED queueVars ELSE Release

-----------------------------------------------------------------------------
(* Admission                                                               *)

MayArrive(r) ==
    /\ pc[r] = "out"
    /\ server \in {"up", "stopping"}
    /\ ~ThreadRuns(r)

\* A request with a known voice is admitted and the slot is free.
ArriveNow(r) ==
    /\ MayArrive(r)
    /\ TryAdmit
    /\ AcquireNow
    /\ Goto(r, "prepared")
    /\ UNCHANGED <<taken, gone, frags, why, threadVars, server>>

\* It is admitted and waits.
ArriveWait(r) ==
    /\ MayArrive(r)
    /\ TryAdmit
    /\ AcquireWait(r)
    /\ Goto(r, "queued")
    /\ UNCHANGED <<taken, gone, frags, why, threadVars, server>>

\* acquire() returns: the slot is this request's.
TakeTurn(r) ==
    /\ pc[r] = "queued"
    /\ Granted(r)
    /\ Goto(r, "prepared")
    /\ UNCHANGED <<depth, taken, gone, frags, why, threadVars, server>>

\* Parameters clamped, lexicon applied, text split: n fragments.
Prepare(r) ==
    /\ pc[r] = "prepared"
    /\ \E n \in 0..MaxFragments : frags' = [frags EXCEPT ![r] = n]
    /\ Goto(r, "starting")
    /\ UNCHANGED <<queueVars, taken, gone, why, threadVars, server>>

\* Any of it raises, the lexicon file being unreadable for one.
PrepareFails(r) ==
    /\ pc[r] = "prepared"
    /\ ReleaseIfUntaken(r)
    /\ Forget(r)
    /\ UNCHANGED server

-----------------------------------------------------------------------------
(* The response starts                                                     *)

\* The start marker (response head) is out and _pcm_frames runs its first
\* statement.  To a lost HTTP client sending silently does nothing.
Start(r) ==
    /\ pc[r] = "starting"
    /\ r \in WsRequest => ~gone[r]
    /\ taken' = [taken EXCEPT ![r] = TRUE]
    /\ Goto(r, "fragment")
    /\ UNCHANGED <<queueVars, gone, frags, why, threadVars, server>>

\* The start marker raises WebSocketDisconnect: the generator never runs.
StartFails(r) ==
    /\ pc[r] = "starting"
    /\ r \in WsRequest
    /\ gone[r]
    /\ ReleaseIfUntaken(r)
    /\ Forget(r)
    /\ UNCHANGED server

-----------------------------------------------------------------------------
(* _pcm_frames                                                             *)

\* A dash pause: silence, without the engine.
PauseFragment(r) ==
    /\ pc[r] = "fragment"
    /\ frags[r] > 0
    /\ frags' = [frags EXCEPT ![r] = @ - 1]
    /\ worker' = [worker EXCEPT ![r] = "none"]
    /\ Goto(r, "sending")
    /\ UNCHANGED <<queueVars, taken, gone, why, budget, items, failed, server>>

\* Text: a worker thread and a fresh queue.
SpeechFragment(r) ==
    /\ pc[r] = "fragment"
    /\ frags[r] > 0
    /\ frags' = [frags EXCEPT ![r] = @ - 1]
    /\ worker' = [worker EXCEPT ![r] = "busy"]
    /\ budget' = [budget EXCEPT ![r] = MaxChunks]
    /\ items' = [items EXCEPT ![r] = <<>>]
    /\ Goto(r, "get")
    /\ UNCHANGED <<queueVars, taken, gone, why, failed, server>>

\* No fragment is left: the generator returns and its finally releases.
Exhausted(r) ==
    /\ pc[r] = "fragment"
    /\ frags[r] = 0
    /\ Release
    /\ Goto(r, "ending")
    /\ UNCHANGED <<taken, gone, frags, why, threadVars, server>>

GetChunk(r) ==
    /\ pc[r] = "get"
    /\ items[r] # <<>>
    /\ Head(items[r]) = "chunk"
    /\ items' = [items EXCEPT ![r] = Tail(@)]
    /\ Goto(r, "sending")
    /\ UNCHANGED <<queueVars, taken, gone, frags, why, worker, budget, failed, server>>

\* The worker's None: the fragment is complete.
GetNone(r) ==
    /\ pc[r] = "get"
    /\ items[r] # <<>>
    /\ Head(items[r]) = "none"
    /\ items' = [items EXCEPT ![r] = Tail(@)]
    /\ why' = [why EXCEPT ![r] = "next"]
    /\ Goto(r, "draining")
    /\ UNCHANGED <<queueVars, taken, gone, frags, worker, budget, failed, server>>

\* A fault: an exception ends the fragment as the None does.
GetErrorAsEnd(r) ==
    /\ pc[r] = "get"
    /\ items[r] # <<>>
    /\ Head(items[r]) \in {"error", "fatal"}
    /\ items' = [items EXCEPT ![r] = Tail(@)]
    /\ why' = [why EXCEPT ![r] = "next"]
    /\ Goto(r, "draining")
    /\ UNCHANGED <<queueVars, taken, gone, frags, worker, budget, failed, server>>

\* The worker's exception is raised here; a CUDA error also ends the process.
GetError(r) ==
    /\ pc[r] = "get"
    /\ items[r] # <<>>
    /\ Head(items[r]) \in {"error", "fatal"}
    /\ IF Head(items[r]) = "fatal" THEN RequestShutdown ELSE UNCHANGED server
    /\ items' = [items EXCEPT ![r] = Tail(@)]
    /\ why' = [why EXCEPT ![r] = "raise"]
    /\ Goto(r, "draining")
    /\ UNCHANGED <<queueVars, taken, gone, frags, worker, budget, failed>>

\* A fault: the watchdog gives up on the worker and awaits it all the same.
WatchdogDrains(r) ==
    /\ pc[r] = "get"
    /\ items[r] = <<>>
    /\ why' = [why EXCEPT ![r] = "next"]
    /\ Goto(r, "draining")
    /\ UNCHANGED <<queueVars, taken, gone, frags, threadVars, server>>

\* A fault: the stuck worker is left and the process serves on.
WatchdogServesOn(r) ==
    /\ pc[r] = "get"
    /\ items[r] = <<>>
    /\ Release
    /\ Goto(r, "ending")
    /\ UNCHANGED <<taken, gone, frags, why, threadVars, server>>

\* No item for GEN_TIMEOUT_S: shut down, leave the worker, release the slot
\* and end the stream as if it were complete.
Watchdog(r) ==
    /\ pc[r] = "get"
    /\ items[r] = <<>>
    /\ RequestShutdown
    /\ Release
    /\ Goto(r, "ending")
    /\ UNCHANGED <<taken, gone, frags, why, threadVars>>

\* The chunk is sent and the generator runs again.
Send(r) ==
    /\ pc[r] = "sending"
    /\ r \in WsRequest => ~gone[r]
    /\ Goto(r, IF worker[r] = "none" THEN "fragment" ELSE "get")
    /\ UNCHANGED <<queueVars, taken, gone, frags, why, threadVars, server>>

\* A fault: a lost client's generator is closed without awaiting the worker.
SendFailsAtOnce(r) ==
    /\ pc[r] = "sending"
    /\ gone[r]
    /\ Release
    /\ Forget(r)
    /\ UNCHANGED server

\* The client is lost and the generator is closed at its yield: by aclosing
\* when the WebSocket send raises; by the event loop's generator finalizer,
\* in a task of its own, when the HTTP send is cancelled.
SendFails(r) ==
    /\ pc[r] = "sending"
    /\ gone[r]
    /\ why' = [why EXCEPT ![r] = "close"]
    /\ Goto(r, "draining")
    /\ UNCHANGED <<queueVars, taken, gone, frags, threadVars, server>>

\* A fault: the None is taken for the end of the thread.
WorkerUnawaited(r) == TRUE

WorkerDone(r) == worker[r] \in {"none", "returned"}

\* shield(fut) returns and the next fragment's turn comes.
DrainedNext(r) ==
    /\ pc[r] = "draining"
    /\ why[r] = "next"
    /\ WorkerDone(r)
    /\ Goto(r, "fragment")
    /\ UNCHANGED <<queueVars, taken, gone, frags, why, threadVars, server>>

\* shield(fut) returns and the generator ends by an exception.
DrainedEnd(r) ==
    /\ pc[r] = "draining"
    /\ why[r] # "next"
    /\ WorkerDone(r)
    /\ Release
    /\ Forget(r)
    /\ UNCHANGED server

\* The end marker or the end of the body; to a lost client it goes nowhere.
SendEnd(r) ==
    /\ pc[r] = "ending"
    /\ Forget(r)
    /\ UNCHANGED <<queueVars, server>>

-----------------------------------------------------------------------------
(* The client goes away                                                    *)

Leave(r) ==
    /\ r \in Leaver
    /\ pc[r] # "out"
    /\ ~gone[r]
    /\ gone' = [gone EXCEPT ![r] = TRUE]
    /\ UNCHANGED <<queueVars, pc, taken, frags, why, threadVars, server>>

\* Starlette cancels the response before the generator has started.
CancelStart(r) ==
    /\ r \in HttpRequest
    /\ gone[r]
    /\ pc[r] = "starting"
    /\ ReleaseIfUntaken(r)
    /\ Forget(r)
    /\ UNCHANGED server

(***************************************************************************)
(* Starlette cancels the response in the generator.  anyio cancels a task  *)
(* again at every await until it has left the cancelled scope: the first   *)
(* CancelledError reaches the finally, the next one ends the await of      *)
(* shield(fut), and the outer finally releases the slot, whatever the      *)
(* worker is doing.                                                        *)
(***************************************************************************)
CancelStream(r) ==
    /\ r \in HttpRequest
    /\ gone[r]
    /\ \/ pc[r] = "get"
       \/ pc[r] = "draining" /\ why[r] # "close"
    /\ Release
    /\ Forget(r)
    /\ UNCHANGED server

-----------------------------------------------------------------------------
(* The worker thread: produce()                                            *)

ProduceChunk(r) ==
    /\ worker[r] = "busy"
    /\ budget[r] > 0
    /\ budget' = [budget EXCEPT ![r] = @ - 1]
    /\ items' = [items EXCEPT ![r] = Append(@, "chunk")]
    /\ UNCHANGED <<queueVars, requestVars, worker, failed, server>>

\* engine.stream() ends, or raises: the exception is put before the None.
ProduceEnd(r, outcome) ==
    /\ worker[r] = "busy"
    /\ worker' = [worker EXCEPT ![r] = "leaving"]
    /\ budget' = [budget EXCEPT ![r] = 0]
    /\ IF pc[r] = "out"
         THEN UNCHANGED <<items, failed>>
         ELSE /\ items' = [items EXCEPT ![r] = @ \o outcome \o <<"none">>]
              /\ failed' = [failed EXCEPT ![r] = @ \/ outcome # <<>>]
    /\ UNCHANGED <<queueVars, requestVars, server>>

Hang(r) ==
    /\ MayHang
    /\ worker[r] = "busy"
    /\ worker' = [worker EXCEPT ![r] = "hung"]
    /\ budget' = [budget EXCEPT ![r] = 0]
    /\ UNCHANGED <<queueVars, requestVars, items, failed, server>>

Return(r) ==
    /\ worker[r] = "leaving"
    /\ worker' = [worker EXCEPT ![r] = IF pc[r] = "out" THEN "none" ELSE "returned"]
    /\ UNCHANGED <<queueVars, requestVars, budget, items, failed, server>>

-----------------------------------------------------------------------------
(* The process                                                             *)

\* POST /shutdown, or SIGTERM from outside.
Stop ==
    /\ server = "up"
    /\ RequestShutdown
    /\ UNCHANGED <<queueVars, requestVars, threadVars>>

\* uvicorn sees the flag: it accepts nothing more and fails its WebSockets.
StopAccepting ==
    /\ server = "stopping"
    /\ server' = "closing"
    /\ gone' = [r \in Request |-> gone[r] \/ (r \in WsRequest /\ pc[r] # "out")]
    /\ UNCHANGED <<queueVars, pc, taken, frags, why, threadVars>>

\* Every request has finished: the process ends, its worker threads with it.
Exit ==
    /\ server = "closing"
    /\ \A r \in Request : pc[r] = "out"
    /\ server' = "exited"
    /\ worker' = [r \in Request |-> "none"]
    /\ UNCHANGED <<queueVars, requestVars, budget, items, failed>>

Exited == server = "exited" /\ UNCHANGED vars

-----------------------------------------------------------------------------
\* The event loop's steps for one request that need nothing from its client.
LoopStep(r) ==
    \/ TakeTurn(r)
    \/ Prepare(r) \/ PrepareFails(r)
    \/ StartFails(r)
    \/ PauseFragment(r) \/ SpeechFragment(r) \/ Exhausted(r)
    \/ GetChunk(r) \/ GetNone(r) \/ GetError(r) \/ Watchdog(r)
    \/ SendFails(r)
    \/ DrainedNext(r) \/ DrainedEnd(r)
    \/ CancelStart(r) \/ CancelStream(r)

\* Its steps that wait for the client to read.
ClientStep(r) == Start(r) \/ Send(r) \/ SendEnd(r)

WorkerStep(r) ==
    \/ ProduceChunk(r)
    \/ ProduceEnd(r, <<>>) \/ ProduceEnd(r, <<"error">>) \/ ProduceEnd(r, <<"fatal">>)
    \/ Return(r)

Arrive(r) == ArriveNow(r) \/ ArriveWait(r)

Next ==
    \/ \E r \in Request :
          \/ Arrive(r)
          \/ LoopStep(r)
          \/ ClientStep(r)
          \/ WorkerStep(r)
          \/ Leave(r)
          \/ Hang(r)
    \/ Stop
    \/ StopAccepting
    \/ Exit
    \/ Exited

(***************************************************************************)
(* The event loop runs every task that can run; a thread that does not     *)
(* hang goes on; uvicorn polls its flag; and a client reads or goes away   *)
(* (nothing in the server times a client that does neither).               *)
(***************************************************************************)
Fairness ==
    /\ \A r \in Request :
          /\ WF_vars(LoopStep(r))
          /\ WF_vars(ClientStep(r))
          /\ WF_vars(WorkerStep(r))
    /\ WF_vars(StopAccepting)
    /\ WF_vars(Exit)

Spec == Init /\ [][Next]_vars /\ Fairness
-----------------------------------------------------------------------------
(* Safety                                                                  *)

HoldsSlot(r) == pc[r] \in {"prepared", "starting", "fragment", "get", "sending", "draining"}

\* One request touches the GPU at a time, counting the worker threads that a
\* request left behind: what ARCHITECTURE.md promises of the slot.  A lost
\* HTTP client breaks it.
OneAtATime ==
    server = "up" =>
        \A r, s \in Request : ThreadRuns(r) /\ ThreadRuns(s) => r = s

(***************************************************************************)
(* What the code keeps of that promise.  The slot is taken from under a    *)
(* running thread in two ways only: the watchdog gives the process up, or  *)
(* the response of a lost HTTP client is cancelled.  An engine that fails, *)
(* a lost WebSocket, the next fragment and the end of the text all wait    *)
(* for the thread.                                                         *)
(***************************************************************************)
SlotFollowsThread ==
    [][\A r \in Request :
         ThreadRuns(r) /\ HoldsSlot(r) /\ ThreadRuns(r)' /\ ~HoldsSlot(r)' =>
             server' # "up" \/ (r \in HttpRequest /\ gone[r])]_vars

\* A WebSocket utterance has the slot for as long as its worker thread runs,
\* whenever its client goes away: closing the generator awaits the thread.
WsSlotCoversThread ==
    server = "up" => \A r \in WsRequest : ThreadRuns(r) => HoldsSlot(r)

(***************************************************************************)
(* A stream that ends as complete is complete: every fragment was started, *)
(* every item the engine produced was taken, and no engine call failed --  *)
(* an engine error is never passed off as the end of the speech.  The      *)
(* watchdog's truncated stream is the exception, in a process on its way   *)
(* out.                                                                    *)
(***************************************************************************)
CleanEndIsComplete ==
    server = "up" =>
        \A r \in Request :
            pc[r] = "ending" => frags[r] = 0 /\ items[r] = <<>> /\ ~failed[r]

(***************************************************************************)
(* What the queue sees of a request.  Every step of the server is a step   *)
(* of Admission or leaves the queue alone: on every path (a preparation    *)
(* that raises, a client lost before, at or after the start marker, an     *)
(* engine error, the watchdog, the end of the text) an admitted request    *)
(* releases the slot exactly once, and only after it has acquired it.      *)
(***************************************************************************)
PhaseOf(r) ==
    IF pc[r] = "queued" THEN "waiting" ELSE IF HoldsSlot(r) THEN "holding" ELSE "out"

Queue == INSTANCE Admission WITH phase <- [r \in Request |-> PhaseOf(r)]

IsAdmission == Queue!Init /\ [][Queue!Next]_(Queue!vars)

-----------------------------------------------------------------------------
(* Liveness                                                                *)

\* A wedged engine call is noticed: the watchdog shuts the process down.  So
\* ARCHITECTURE.md and config.py say; a lost WebSocket client breaks it.
WedgeIsNoticed ==
    \A r \in Request : worker[r] = "hung" ~> server # "up"

\* It is noticed as long as the client of the hung call stays.
WedgeIsNoticedIfHeard ==
    \A r \in Request :
        worker[r] = "hung" /\ HoldsSlot(r) ~> server # "up" \/ gone[r]

\* The one way a request is stuck: its client was lost at a yield, and the
\* closing of its generator awaits an engine call that hangs.
Stuck == \E r \in Request :
             pc[r] = "draining" /\ why[r] = "close" /\ worker[r] = "hung"

\* As long as none is stuck, every request that was admitted ends, whatever
\* happens to the others, and a process told to stop finishes its requests
\* and exits.
EverythingEnds ==
    /\ \A r \in Request : pc[r] # "out" ~> pc[r] = "out" \/ Stuck
    /\ server = "stopping" ~> server = "exited" \/ Stuck
=============================================================================
