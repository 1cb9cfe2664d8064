------------------------ MODULE SpeechServer_proofs -------------------------
(***************************************************************************)
(* Proofs about the request's life cycle for any set of requests, any cap, *)
(* any division into HTTP and WebSocket, any clients that leave and any    *)
(* engine: that the server's use of the queue is that of Admission, and    *)
(* that a WebSocket utterance keeps the slot while its worker runs.        *)
(***************************************************************************)
EXTENDS SpeechServer, SequenceTheorems, TLAPS

\* Before the generator's first statement the lease is not taken, so that
\* release_if_untaken does release.
LeaseInv ==
    /\ pc \in [Request -> PC]
    /\ why \in [Request -> Why]
    /\ taken \in [Request -> BOOLEAN]
    /\ \A r \in Request : pc[r] \in {"out", "queued", "prepared", "starting"} => ~taken[r]

-----------------------------------------------------------------------------
(* The operators of the queue mean the same in both modules.               *)

LEMMA SameRelease == Release => Queue!Release
BY DEF Release, Queue!Release, WakeUpNext, Queue!WakeUpNext,
       IsFirstPending, Queue!IsFirstPending

LEMMA SameAdmit ==
    /\ TryAdmit => Queue!TryAdmit
    /\ AcquireNow => Queue!AcquireNow
    /\ \A r \in Request : AcquireWait(r) => Queue!AcquireWait(r)
BY DEF TryAdmit, Queue!TryAdmit, AcquireNow, Queue!AcquireNow,
       AcquireWait, Queue!AcquireWait, Locked, Queue!Locked

LEMMA SameGranted == \A r \in Request : Granted(r) => Queue!Granted(r)
BY DEF Granted, Queue!Granted, Without, Queue!Without, WakeUpNext, Queue!WakeUpNext,
       IsFirstPending, Queue!IsFirstPending

-----------------------------------------------------------------------------
(* The phases seen through the mapping                                     *)

PhaseAt(x) ==
    IF x = "queued"
      THEN "waiting"
      ELSE IF x \in {"prepared", "starting", "fragment", "get", "sending", "draining"}
             THEN "holding"
             ELSE "out"

Phases == [r \in Request |-> PhaseOf(r)]

LEMMA PhaseByPc == Phases = [r \in Request |-> PhaseAt(pc[r])]
BY DEF Phases, PhaseOf, PhaseAt, HoldsSlot

LEMMA PhaseByPcNext == Phases' = [r \in Request |-> PhaseAt(pc'[r])]
BY DEF Phases, PhaseOf, PhaseAt, HoldsSlot

LEMMA PhasesStay ==
    ASSUME pc \in [Request -> PC], NEW r \in Request, NEW x \in PC,
           pc' = [pc EXCEPT ![r] = x], PhaseAt(x) = PhaseAt(pc[r])
    PROVE  Phases' = Phases
BY PhaseByPc, PhaseByPcNext

LEMMA PhaseMoves ==
    ASSUME pc \in [Request -> PC], NEW r \in Request, NEW x \in PC,
           pc' = [pc EXCEPT ![r] = x]
    PROVE  /\ Phases[r] = PhaseAt(pc[r])
           /\ Phases' = [Phases EXCEPT ![r] = PhaseAt(x)]
BY PhaseByPc, PhaseByPcNext

-----------------------------------------------------------------------------
(* The lease                                                               *)

LEMMA InitLease == Init => LeaseInv
BY DEF Init, LeaseInv, PC, Why

LEMMA ForgetLease ==
    ASSUME LeaseInv, NEW r \in Request, Forget(r)
    PROVE  LeaseInv'
BY DEF LeaseInv, Forget, Goto, PC, Why

LEMMA LeaseStep == LeaseInv /\ [Next]_vars => LeaseInv'
<1> SUFFICES ASSUME LeaseInv, [Next]_vars PROVE LeaseInv'
  OBVIOUS
<1> USE DEF LeaseInv
<1>1. ASSUME NEW r \in Request, Arrive(r) PROVE LeaseInv'
  BY <1>1 DEF Arrive, ArriveNow, ArriveWait, MayArrive, Goto, PC, threadVars
<1>2. ASSUME NEW r \in Request, LoopStep(r) PROVE LeaseInv'
  <2>1. CASE TakeTurn(r)
    BY <2>1 DEF TakeTurn, Goto, PC, threadVars
  <2>2. CASE Prepare(r)
    BY <2>2 DEF Prepare, Goto, PC, threadVars
  <2>3. CASE PrepareFails(r)
    BY <2>3, ForgetLease DEF PrepareFails
  <2>4. CASE StartFails(r)
    BY <2>4, ForgetLease DEF StartFails
  <2>5. CASE PauseFragment(r)
    BY <2>5 DEF PauseFragment, Goto, PC
  <2>6. CASE SpeechFragment(r)
    BY <2>6 DEF SpeechFragment, Goto, PC
  <2>7. CASE Exhausted(r)
    BY <2>7 DEF Exhausted, Goto, PC, threadVars
  <2>8. CASE GetChunk(r)
    BY <2>8 DEF GetChunk, Goto, PC
  <2>9. CASE GetNone(r)
    BY <2>9 DEF GetNone, Goto, PC, Why
  <2>10. CASE GetError(r)
    BY <2>10 DEF GetError, Goto, PC, Why
  <2>11. CASE Watchdog(r)
    BY <2>11 DEF Watchdog, Goto, PC, threadVars
  <2>12. CASE SendFails(r)
    BY <2>12 DEF SendFails, Goto, PC, Why, threadVars
  <2>13. CASE DrainedNext(r)
    BY <2>13 DEF DrainedNext, Goto, PC, threadVars
  <2>14. CASE DrainedEnd(r)
    BY <2>14, ForgetLease DEF DrainedEnd
  <2>15. CASE CancelStart(r)
    BY <2>15, ForgetLease DEF CancelStart
  <2>16. CASE CancelStream(r)
    BY <2>16, ForgetLease DEF CancelStream
  <2> QED
    BY <1>2, <2>1, <2>2, <2>3, <2>4, <2>5, <2>6, <2>7, <2>8, <2>9, <2>10, <2>11,
       <2>12, <2>13, <2>14, <2>15, <2>16 DEF LoopStep
<1>3. ASSUME NEW r \in Request, ClientStep(r) PROVE LeaseInv'
  <2>1. CASE Start(r)
    BY <2>1 DEF Start, Goto, PC, threadVars
  <2>2. CASE Send(r)
    BY <2>2 DEF Send, Goto, PC, threadVars
  <2>3. CASE SendEnd(r)
    BY <2>3, ForgetLease DEF SendEnd
  <2> QED
    BY <1>3, <2>1, <2>2, <2>3 DEF ClientStep
<1>4. ASSUME NEW r \in Request, WorkerStep(r) PROVE LeaseInv'
  BY <1>4 DEF WorkerStep, ProduceChunk, ProduceEnd, Return, requestVars
<1>5. ASSUME NEW r \in Request, Leave(r) PROVE LeaseInv'
  BY <1>5 DEF Leave
<1>6. ASSUME NEW r \in Request, Hang(r) PROVE LeaseInv'
  BY <1>6 DEF Hang, requestVars
<1>7. CASE Stop \/ StopAccepting \/ Exit \/ Exited \/ UNCHANGED vars
  BY <1>7 DEF Stop, StopAccepting, Exit, Exited, vars, requestVars
<1> QED
  BY <1>1, <1>2, <1>3, <1>4, <1>5, <1>6, <1>7 DEF Next

-----------------------------------------------------------------------------
(* The refinement: every step is a step of Admission or stutters.          *)

LEMMA InitQueue == Init => Queue!Init
BY DEF Init, Queue!Init, QueueInit, Queue!QueueInit, PhaseOf, HoldsSlot

\* Steps that leave the queue alone and the phases as they are.
LEMMA QueueStutter ==
    ASSUME UNCHANGED queueVars, Phases' = Phases
    PROVE  UNCHANGED Queue!vars
BY DEF queueVars, Queue!vars, Phases

\* Every release in the server is the one a holding request owes.
LEMMA FinishImplements ==
    ASSUME pc \in [Request -> PC], NEW r \in Request, HoldsSlot(r), Release,
           NEW x \in {"out", "ending"}, Goto(r, x)
    PROVE  Queue!Next
<1>1. Phases[r] = "holding" /\ Phases' = [Phases EXCEPT ![r] = "out"]
  BY PhaseMoves DEF PhaseAt, HoldsSlot, Goto, PC
<1>2. Queue!Release
  BY SameRelease
<1>3. Queue!Finish(r)
  BY <1>1, <1>2 DEF Queue!Finish, Phases
<1> QED
  BY <1>3 DEF Queue!Next

LEMMA ArriveImplements ==
    ASSUME LeaseInv, NEW r \in Request, Arrive(r)
    PROVE  Queue!Next
<1>1. pc \in [Request -> PC] /\ pc[r] = "out"
  BY DEF LeaseInv, Arrive, ArriveNow, ArriveWait, MayArrive
<1>2. CASE ArriveNow(r)
  <2>1. Phases[r] = "out" /\ Phases' = [Phases EXCEPT ![r] = "holding"]
    BY <1>1, <1>2, PhaseMoves DEF ArriveNow, Goto, PhaseAt, PC
  <2>2. Queue!TryAdmit /\ Queue!AcquireNow
    BY <1>2, SameAdmit DEF ArriveNow
  <2>3. Queue!AdmitNow(r)
    BY <2>1, <2>2 DEF Queue!AdmitNow, Phases
  <2> QED
    BY <2>3 DEF Queue!Next
<1>3. CASE ArriveWait(r)
  <2>1. Phases[r] = "out" /\ Phases' = [Phases EXCEPT ![r] = "waiting"]
    BY <1>1, <1>3, PhaseMoves DEF ArriveWait, Goto, PhaseAt, PC
  <2>2. Queue!TryAdmit /\ Queue!AcquireWait(r)
    BY <1>3, SameAdmit DEF ArriveWait
  <2>3. Queue!AdmitWait(r)
    BY <2>1, <2>2 DEF Queue!AdmitWait, Phases
  <2> QED
    BY <2>3 DEF Queue!Next
<1> QED
  BY <1>2, <1>3 DEF Arrive

LEMMA TakeTurnImplements ==
    ASSUME LeaseInv, NEW r \in Request, TakeTurn(r)
    PROVE  Queue!Next
<1>1. Phases[r] = "waiting" /\ Phases' = [Phases EXCEPT ![r] = "holding"]
  BY PhaseMoves DEF LeaseInv, TakeTurn, Goto, PhaseAt, PC
<1>2. Queue!Granted(r) /\ depth' = depth
  BY SameGranted DEF TakeTurn
<1>3. Queue!TakeTurn(r)
  BY <1>1, <1>2 DEF Queue!TakeTurn, Phases
<1> QED
  BY <1>3 DEF Queue!Next

\* The releases: by the generator's finally or by the untaken lease.
LEMMA ReleaseImplements ==
    ASSUME LeaseInv, NEW r \in Request,
           \/ PrepareFails(r) \/ StartFails(r) \/ CancelStart(r)
           \/ Exhausted(r) \/ Watchdog(r) \/ DrainedEnd(r) \/ CancelStream(r)
    PROVE  Queue!Next
<1>1. pc \in [Request -> PC]
  BY DEF LeaseInv
<1>2. CASE PrepareFails(r) \/ StartFails(r) \/ CancelStart(r)
  <2>1. pc[r] \in {"prepared", "starting"} /\ ~taken[r]
    BY <1>2 DEF LeaseInv, PrepareFails, StartFails, CancelStart
  <2>2. Release /\ Goto(r, "out") /\ HoldsSlot(r)
    BY <1>2, <2>1 DEF PrepareFails, StartFails, CancelStart, ReleaseIfUntaken, Forget,
                      HoldsSlot
  <2> QED
    BY <1>1, <2>2, FinishImplements
<1>3. CASE Exhausted(r) \/ Watchdog(r)
  <2>1. Release /\ Goto(r, "ending") /\ HoldsSlot(r)
    BY <1>3 DEF Exhausted, Watchdog, HoldsSlot
  <2> QED
    BY <1>1, <2>1, FinishImplements
<1>4. CASE DrainedEnd(r) \/ CancelStream(r)
  <2>1. Release /\ Goto(r, "out") /\ HoldsSlot(r)
    BY <1>4 DEF DrainedEnd, CancelStream, Forget, HoldsSlot
  <2> QED
    BY <1>1, <2>1, FinishImplements
<1> QED
  BY <1>2, <1>3, <1>4

\* All other steps of a request move it within its phase.
LEMMA WithinPhase ==
    ASSUME LeaseInv, NEW r \in Request,
           \/ Prepare(r) \/ Start(r) \/ PauseFragment(r) \/ SpeechFragment(r)
           \/ GetChunk(r) \/ GetNone(r) \/ GetError(r) \/ Send(r) \/ SendFails(r)
           \/ DrainedNext(r) \/ SendEnd(r)
    PROVE  UNCHANGED Queue!vars
<1>1. pc \in [Request -> PC]
  BY DEF LeaseInv
<1>2. UNCHANGED queueVars
  BY DEF Prepare, Start, PauseFragment, SpeechFragment, GetChunk, GetNone, GetError,
         Send, SendFails, DrainedNext, SendEnd
<1>3. CASE SendEnd(r)
  <2>1. pc' = [pc EXCEPT ![r] = "out"] /\ pc[r] = "ending"
    BY <1>3 DEF SendEnd, Forget, Goto
  <2>2. PhaseAt("out") = PhaseAt(pc[r]) /\ "out" \in PC
    BY <2>1 DEF PhaseAt, PC
  <2> QED
    BY <1>1, <1>2, <2>1, <2>2, PhasesStay, QueueStutter
<1>4. CASE ~SendEnd(r)
  <2>1. PICK x \in {"starting", "fragment", "sending", "get", "draining"} :
          pc' = [pc EXCEPT ![r] = x]
    BY <1>4 DEF Prepare, Start, PauseFragment, SpeechFragment, GetChunk, GetNone,
                GetError, Send, SendFails, DrainedNext, Goto
  <2>2. pc[r] \in {"prepared", "starting", "fragment", "get", "sending", "draining"}
    BY <1>4 DEF Prepare, Start, PauseFragment, SpeechFragment, GetChunk, GetNone,
                GetError, Send, SendFails, DrainedNext
  <2>3. PhaseAt(x) = PhaseAt(pc[r]) /\ x \in PC
    BY <2>2 DEF PhaseAt, PC
  <2> QED
    BY <1>1, <1>2, <2>1, <2>3, PhasesStay, QueueStutter
<1> QED
  BY <1>3, <1>4

\* Clients, threads and the process's own steps are nothing to the queue.
LEMMA OutsideSteps ==
    ASSUME UNCHANGED queueVars, UNCHANGED pc
    PROVE  UNCHANGED Queue!vars
BY QueueStutter, PhaseByPc, PhaseByPcNext

LEMMA StepImplements == LeaseInv /\ [Next]_vars => [Queue!Next]_(Queue!vars)
<1> SUFFICES ASSUME LeaseInv, [Next]_vars
             PROVE  Queue!Next \/ UNCHANGED Queue!vars
  OBVIOUS
<1>1. ASSUME NEW r \in Request, Arrive(r) PROVE Queue!Next
  BY <1>1, ArriveImplements
<1>2. ASSUME NEW r \in Request, LoopStep(r) PROVE Queue!Next \/ UNCHANGED Queue!vars
  BY <1>2, TakeTurnImplements, ReleaseImplements, WithinPhase DEF LoopStep
<1>3. ASSUME NEW r \in Request, ClientStep(r) PROVE UNCHANGED Queue!vars
  BY <1>3, WithinPhase DEF ClientStep
<1>4. ASSUME NEW r \in Request, WorkerStep(r) \/ Leave(r) \/ Hang(r)
      PROVE  UNCHANGED Queue!vars
  <2>1. UNCHANGED queueVars /\ UNCHANGED pc
    BY <1>4 DEF WorkerStep, ProduceChunk, ProduceEnd, Return, Leave, Hang, requestVars
  <2> QED
    BY <2>1, OutsideSteps
<1>5. CASE Stop \/ StopAccepting \/ Exit \/ Exited \/ UNCHANGED vars
  <2>1. UNCHANGED queueVars /\ UNCHANGED pc
    BY <1>5 DEF Stop, StopAccepting, Exit, Exited, vars, requestVars
  <2> QED
    BY <2>1, OutsideSteps
<1> QED
  BY <1>1, <1>2, <1>3, <1>4, <1>5 DEF Next

\* On every path through the server an admitted request gives the slot back
\* exactly once: the server implements the admission protocol.
THEOREM ServerImplementsAdmission == Spec => IsAdmission
<1>1. Spec => []LeaseInv
  BY InitLease, LeaseStep, PTL DEF Spec
<1> QED
  BY <1>1, InitQueue, StepImplements, PTL DEF Spec, IsAdmission

-----------------------------------------------------------------------------
(* The worker threads                                                      *)

\* Where a request can be while its thread runs: in the generator's loop, or
\* gone, if it was an HTTP request.
ThreadInv ==
    /\ pc \in [Request -> PC]
    /\ worker \in [Request -> WorkerState]
    /\ server = "up" =>
          \A r \in Request : ThreadRuns(r) =>
              \/ pc[r] \in {"get", "sending", "draining"}
              \/ r \notin WsRequest /\ pc[r] = "out"

LEMMA InitThread == Init => ThreadInv
BY SpeechAssumption DEF Init, ThreadInv, PC, WorkerState, ThreadRuns

\* A step of one request that leaves its thread as it is, or ends or starts
\* it, says nothing about the others.
LEMMA ThreadLocal ==
    ASSUME ThreadInv, NEW r \in Request,
           NEW x \in PC, pc' = [pc EXCEPT ![r] = x],
           NEW y \in WorkerState, worker' = [worker EXCEPT ![r] = y],
           server' = "up" => server = "up",
           \/ x \in {"get", "sending", "draining"}
           \/ y \in {"none", "returned"}
           \/ r \notin WsRequest /\ x = "out"
           \/ server' # "up"
    PROVE  ThreadInv'
BY SpeechAssumption DEF ThreadInv, ThreadRuns

LEMMA ThreadStay ==
    ASSUME ThreadInv, NEW r \in Request,
           NEW x \in PC, Goto(r, x), UNCHANGED worker,
           server' = "up" => server = "up",
           \/ x \in {"get", "sending", "draining"}
           \/ worker[r] \in {"none", "returned"}
           \/ server' # "up"
    PROVE  ThreadInv'
<1>1. worker' = [worker EXCEPT ![r] = worker[r]] /\ worker[r] \in WorkerState
  BY DEF ThreadInv
<1> QED
  BY <1>1, ThreadLocal DEF Goto

\* A request ends with its thread ended, unless it is an HTTP request.
LEMMA ForgetThread ==
    ASSUME ThreadInv, NEW r \in Request, Forget(r), UNCHANGED server,
           ThreadRuns(r) => r \notin WsRequest \/ server # "up"
    PROVE  ThreadInv'
<1> DEFINE y == IF ThreadRuns(r) THEN worker[r] ELSE "none"
<1>1. y \in WorkerState /\ worker' = [worker EXCEPT ![r] = y]
  BY DEF ThreadInv, Forget, WorkerState
<1>2. "out" \in PC /\ pc' = [pc EXCEPT ![r] = "out"]
  BY DEF Forget, Goto, PC
<1>3. y = "none" \/ r \notin WsRequest \/ server' # "up"
  OBVIOUS
<1> HIDE DEF y
<1> QED
  BY <1>1, <1>2, <1>3, ThreadLocal

\* A request under way that is not in the generator's loop has no thread.
LEMMA NoThreadElsewhere ==
    ASSUME ThreadInv, NEW r \in Request,
           pc[r] \notin {"get", "sending", "draining", "out"}
    PROVE  worker[r] \in {"none", "returned"} \/ server # "up"
BY DEF ThreadInv, ThreadRuns, WorkerState

LEMMA LoopThread ==
    ASSUME ThreadInv, NEW r \in Request, LoopStep(r)
    PROVE  ThreadInv'
<1>1. CASE TakeTurn(r) \/ Prepare(r) \/ Exhausted(r)
  <2>1. PICK x \in {"prepared", "starting", "ending"} : pc' = [pc EXCEPT ![r] = x]
    BY <1>1 DEF TakeTurn, Prepare, Exhausted, Goto
  <2>2. pc[r] \in {"queued", "prepared", "fragment"} /\ UNCHANGED <<worker, server>>
    BY <1>1 DEF TakeTurn, Prepare, Exhausted, threadVars
  <2>3. worker' = [worker EXCEPT ![r] = worker[r]] /\ worker[r] \in WorkerState
    BY <2>2 DEF ThreadInv
  <2>4. x \in PC
    BY DEF PC
  <2> QED
    BY <2>1, <2>2, <2>3, <2>4, NoThreadElsewhere, ThreadLocal
<1>2. CASE PrepareFails(r) \/ StartFails(r) \/ CancelStart(r)
  <2>1. /\ Forget(r) /\ UNCHANGED server
        /\ pc[r] \in {"prepared", "starting"}
    BY <1>2 DEF PrepareFails, StartFails, CancelStart
  <2> QED
    BY <2>1, NoThreadElsewhere, ForgetThread DEF ThreadRuns
<1>3. CASE PauseFragment(r)
  BY <1>3, ThreadLocal DEF PauseFragment, Goto, PC, WorkerState
<1>4. CASE SpeechFragment(r)
  BY <1>4, ThreadLocal DEF SpeechFragment, Goto, PC, WorkerState
<1>5. CASE GetChunk(r) \/ GetNone(r) \/ GetError(r) \/ SendFails(r)
  <2>1. PICK x \in {"sending", "draining"} : Goto(r, x)
    BY <1>5 DEF GetChunk, GetNone, GetError, SendFails
  <2>2. UNCHANGED worker /\ (server' = "up" => server = "up")
    BY <1>5 DEF GetChunk, GetNone, GetError, SendFails, RequestShutdown, threadVars
  <2>3. x \in PC
    BY DEF PC
  <2> QED
    BY <2>1, <2>2, <2>3, ThreadStay
<1>6. CASE Watchdog(r)
  <2>1. server' # "up" /\ UNCHANGED worker /\ Goto(r, "ending")
    BY <1>6 DEF Watchdog, RequestShutdown, threadVars
  <2> QED
    BY <2>1, ThreadStay DEF PC
<1>7. CASE DrainedNext(r)
  <2>1. worker[r] \in {"none", "returned"} /\ UNCHANGED worker /\ UNCHANGED server
        /\ Goto(r, "fragment")
    BY <1>7 DEF DrainedNext, WorkerDone, threadVars
  <2> QED
    BY <2>1, ThreadStay DEF PC
<1>8. CASE DrainedEnd(r)
  BY <1>8, ForgetThread DEF DrainedEnd, WorkerDone, ThreadRuns
<1>9. CASE CancelStream(r)
  BY <1>9, ForgetThread DEF CancelStream, HttpRequest
<1> QED
  BY <1>1, <1>2, <1>3, <1>4, <1>5, <1>6, <1>7, <1>8, <1>9 DEF LoopStep

LEMMA ThreadStep == ThreadInv /\ [Next]_vars => ThreadInv'
<1> SUFFICES ASSUME ThreadInv, [Next]_vars PROVE ThreadInv'
  OBVIOUS
<1>1. ASSUME NEW r \in Request, Arrive(r) PROVE ThreadInv'
  <2>1. PICK x \in {"prepared", "queued"} : Goto(r, x)
    BY <1>1 DEF Arrive, ArriveNow, ArriveWait
  <2>2. ~ThreadRuns(r) /\ UNCHANGED worker /\ UNCHANGED server
    BY <1>1 DEF Arrive, ArriveNow, ArriveWait, MayArrive, threadVars
  <2>3. x \in PC
    BY DEF PC
  <2>4. worker[r] \in {"none", "returned"}
    BY <2>2 DEF ThreadInv, ThreadRuns, WorkerState
  <2> QED
    BY <2>1, <2>2, <2>3, <2>4, ThreadStay
<1>2. ASSUME NEW r \in Request, LoopStep(r) PROVE ThreadInv'
  BY <1>2, LoopThread
<1>3. ASSUME NEW r \in Request, ClientStep(r) PROVE ThreadInv'
  <2>1. CASE Start(r)
    <3>1. pc[r] = "starting" /\ Goto(r, "fragment") /\ UNCHANGED worker /\ UNCHANGED server
      BY <2>1 DEF Start, threadVars
    <3>2. worker' = [worker EXCEPT ![r] = worker[r]] /\ worker[r] \in WorkerState
      BY <3>1 DEF ThreadInv
    <3> QED
      BY <3>1, <3>2, NoThreadElsewhere, ThreadLocal DEF Goto, PC
  <2>2. CASE Send(r)
    <3>1. CASE worker[r] = "none"
      BY <2>2, <3>1, ThreadStay DEF Send, PC, threadVars
    <3>2. CASE worker[r] # "none"
      BY <2>2, <3>2, ThreadStay DEF Send, PC, threadVars
    <3> QED
      BY <3>1, <3>2
  <2>3. CASE SendEnd(r)
    <3>1. pc[r] = "ending" /\ Forget(r) /\ UNCHANGED server
      BY <2>3 DEF SendEnd
    <3> QED
      BY <3>1, NoThreadElsewhere, ForgetThread DEF ThreadRuns
  <2> QED
    BY <1>3, <2>1, <2>2, <2>3 DEF ClientStep
<1>4. ASSUME NEW r \in Request, WorkerStep(r) \/ Hang(r) PROVE ThreadInv'
  <2>1. UNCHANGED <<pc, server>>
    BY <1>4 DEF WorkerStep, ProduceChunk, ProduceEnd, Return, Hang, requestVars
  <2>2. PICK y \in WorkerState :
          /\ worker' = [worker EXCEPT ![r] = y]
          /\ ThreadRuns(r) \/ y = worker[r]
    <3>1. CASE ProduceChunk(r)
      <4>1. worker' = [worker EXCEPT ![r] = worker[r]] /\ worker[r] \in WorkerState
        BY <3>1 DEF ProduceChunk, ThreadInv
      <4> QED
        BY <4>1
    <3>2. CASE ~ProduceChunk(r)
      <4>1. ThreadRuns(r) /\ \E y \in WorkerState : worker' = [worker EXCEPT ![r] = y]
        BY <1>4, <3>2 DEF WorkerStep, ProduceEnd, Return, Hang, ThreadRuns, WorkerState
      <4> QED
        BY <4>1
    <3> QED
      BY <3>1, <3>2
  <2> QED
    BY <2>1, <2>2 DEF ThreadInv, ThreadRuns
<1>5. ASSUME NEW r \in Request, Leave(r) PROVE ThreadInv'
  BY <1>5 DEF Leave, threadVars, ThreadInv, ThreadRuns
<1>6. CASE Stop \/ StopAccepting \/ UNCHANGED vars
  BY <1>6 DEF Stop, StopAccepting, RequestShutdown, vars, requestVars, threadVars,
              ThreadInv, ThreadRuns
<1>7. CASE Exit \/ Exited
  BY <1>7 DEF Exit, Exited, vars, requestVars, threadVars, ThreadInv, ThreadRuns,
              WorkerState
<1> QED
  BY <1>1, <1>2, <1>3, <1>4, <1>5, <1>6, <1>7 DEF Next

\* While the process is up, a WebSocket utterance holds the slot for as long
\* as its worker thread runs, however and whenever its client goes away.
THEOREM WsThreadCovered == Spec => []WsSlotCoversThread
<1>1. Spec => []ThreadInv
  BY InitThread, ThreadStep, PTL DEF Spec
<1>2. ThreadInv => WsSlotCoversThread
  BY SpeechAssumption DEF ThreadInv, WsSlotCoversThread, HoldsSlot
<1> QED
  BY <1>1, <1>2, PTL

-----------------------------------------------------------------------------
(* Who may take the slot from under a running thread                       *)

\* A request that ends with its thread running and the slot held was cancelled.
LEMMA EndsRunning ==
    ASSUME ThreadInv, Next, server = "up", NEW r \in Request,
           ThreadRuns(r), HoldsSlot(r), pc'[r] = "out"
    PROVE  gone[r]
<1>1. pc[r] \in {"get", "sending", "draining"}
  BY DEF ThreadInv, HoldsSlot
<1>2. pc \in [Request -> PC]
  BY DEF ThreadInv
<1>3. ASSUME NEW q \in Request, Arrive(q) PROVE FALSE
  BY <1>1, <1>2, <1>3 DEF Arrive, ArriveNow, ArriveWait, Goto
<1>4. ASSUME NEW q \in Request, LoopStep(q) PROVE gone[r]
  <2>1. CASE \/ TakeTurn(q) \/ Prepare(q) \/ Exhausted(q)
             \/ PauseFragment(q) \/ SpeechFragment(q) \/ DrainedNext(q)
    BY <2>1, <1>1, <1>2
    DEF TakeTurn, Prepare, Exhausted, PauseFragment, SpeechFragment, DrainedNext, Goto
  <2>2. CASE \/ GetChunk(q) \/ GetNone(q) \/ GetError(q) \/ Watchdog(q) \/ SendFails(q)
    BY <2>2, <1>1, <1>2 DEF GetChunk, GetNone, GetError, Watchdog, SendFails, Goto
  <2>3. CASE PrepareFails(q) \/ StartFails(q) \/ CancelStart(q)
    BY <2>3, <1>1, <1>2 DEF PrepareFails, StartFails, CancelStart, Forget, Goto
  <2>4. CASE DrainedEnd(q)
    BY <2>4, <1>1, <1>2 DEF DrainedEnd, WorkerDone, ThreadRuns, Forget, Goto
  <2>5. CASE CancelStream(q)
    BY <2>5, <1>1, <1>2 DEF CancelStream, Forget, Goto
  <2> QED
    BY <1>4, <2>1, <2>2, <2>3, <2>4, <2>5 DEF LoopStep
<1>5. ASSUME NEW q \in Request, ClientStep(q) PROVE FALSE
  BY <1>1, <1>2, <1>5 DEF ClientStep, Start, Send, SendEnd, Forget, Goto
<1>6. ASSUME NEW q \in Request, WorkerStep(q) \/ Leave(q) \/ Hang(q) PROVE FALSE
  BY <1>1, <1>6
  DEF WorkerStep, ProduceChunk, ProduceEnd, Return, Leave, Hang, requestVars
<1>7. CASE Stop \/ StopAccepting \/ Exit \/ Exited
  BY <1>1, <1>7 DEF Stop, StopAccepting, Exit, Exited, vars, requestVars
<1> QED
  BY <1>3, <1>4, <1>5, <1>6, <1>7 DEF Next

LEMMA ServerGoesDown == [Next]_vars /\ server' = "up" => server = "up"
<1> SUFFICES ASSUME [Next]_vars, server' = "up" PROVE server = "up"
  OBVIOUS
<1>1. ASSUME NEW r \in Request, LoopStep(r) PROVE server = "up"
  BY <1>1
  DEF LoopStep, TakeTurn, Prepare, PrepareFails, StartFails, PauseFragment,
      SpeechFragment, Exhausted, GetChunk, GetNone, GetError, Watchdog, SendFails,
      DrainedNext, DrainedEnd, CancelStart, CancelStream, RequestShutdown
<1>2. ASSUME NEW r \in Request, Arrive(r) \/ ClientStep(r) PROVE server = "up"
  BY <1>2 DEF Arrive, ArriveNow, ArriveWait, ClientStep, Start, Send, SendEnd
<1>3. ASSUME NEW r \in Request, WorkerStep(r) \/ Leave(r) \/ Hang(r) PROVE server = "up"
  BY <1>3 DEF WorkerStep, ProduceChunk, ProduceEnd, Return, Leave, Hang
<1>4. CASE Stop \/ StopAccepting \/ Exit \/ Exited \/ UNCHANGED vars
  BY <1>4 DEF Stop, StopAccepting, Exit, Exited, RequestShutdown, vars
<1> QED
  BY <1>1, <1>2, <1>3, <1>4 DEF Next

\* While the process is up, only the cancellation of a lost HTTP client's
\* response takes the slot from under a running worker thread.
THEOREM OnlyCancellationOvertakes == Spec => SlotFollowsThread
<1> DEFINE Kept(r) ==
      ThreadRuns(r) /\ HoldsSlot(r) /\ ThreadRuns(r)' /\ ~HoldsSlot(r)' =>
          server' # "up" \/ (r \in HttpRequest /\ gone[r])
<1>1. Spec => []ThreadInv
  BY InitThread, ThreadStep, PTL DEF Spec
<1>2. ThreadInv /\ [Next]_vars => [\A r \in Request : Kept(r)]_vars
  <2> SUFFICES ASSUME ThreadInv, Next, NEW r \in Request, server' = "up",
                      ThreadRuns(r), HoldsSlot(r), ThreadRuns(r)', ~HoldsSlot(r)'
               PROVE  r \in HttpRequest /\ gone[r]
    OBVIOUS
  <2>1. ThreadInv' /\ server = "up"
    BY ThreadStep, ServerGoesDown
  <2>2. r \notin WsRequest /\ pc'[r] = "out"
    BY <2>1 DEF ThreadInv, HoldsSlot
  <2> QED
    BY <2>1, <2>2, EndsRunning DEF HttpRequest
<1> QED
  BY <1>1, <1>2, PTL DEF Spec, SlotFollowsThread

-----------------------------------------------------------------------------
(* What a fragment's queue holds                                           *)

Broken(q) == \E i \in DOMAIN q : q[i] \in {"error", "fatal"}

\* The None is the queue's last item and ends it.
Closed(q) ==
    /\ q # <<>>
    /\ \A i \in DOMAIN q : q[i] = "none" <=> i = Len(q)

(***************************************************************************)
(* One request with its task at x, its thread at w, the items q in its     *)
(* queue, failure f, b chunks to come, and y to follow the drain: a thread *)
(* that has not finished has put chunks only and has not failed; one that  *)
(* has finished has put a None last, and an error before it if it failed;  *)
(* between two fragments the queue is empty and nothing has failed.        *)
(***************************************************************************)
Unsent(x, w, q, f, b, y) ==
    /\ x \in {"out", "queued", "prepared", "starting", "fragment"} =>
         /\ q = <<>> /\ ~f
         /\ x = "out" \/ w \in {"none", "returned"}
    /\ x = "out" => b = 0
    /\ x = "get" => w # "none"
    /\ x \in {"get", "sending"} =>
         /\ w = "none" => q = <<>> /\ ~f
         /\ w \in {"busy", "hung"} => ~f /\ \A i \in DOMAIN q : q[i] = "chunk"
         /\ w \in {"leaving", "returned"} => Closed(q) /\ (f => Broken(q))
    /\ x = "draining" /\ y = "next" => q = <<>> /\ ~f /\ w \in {"leaving", "returned"}

StreamTypeOK ==
    /\ pc \in [Request -> PC]
    /\ worker \in [Request -> WorkerState]
    /\ items \in [Request -> Seq(Item)]
    /\ failed \in [Request -> BOOLEAN]
    /\ budget \in [Request -> 0..MaxChunks]
    /\ why \in [Request -> Why]
    /\ frags \in [Request -> 0..MaxFragments]

StreamInv ==
    /\ StreamTypeOK
    /\ \A r \in Request : Unsent(pc[r], worker[r], items[r], failed[r], budget[r], why[r])
    /\ ThreadInv
    /\ CleanEndIsComplete

LEMMA InitStream == Init => StreamInv
<1> SUFFICES ASSUME Init PROVE StreamInv
  OBVIOUS
<1>1. StreamTypeOK
  BY SpeechAssumption DEF Init, StreamTypeOK, PC, WorkerState, Why
<1>2. CleanEndIsComplete
  BY DEF Init, CleanEndIsComplete
<1>3. ASSUME NEW r \in Request
      PROVE  Unsent(pc[r], worker[r], items[r], failed[r], budget[r], why[r])
  BY DEF Init, Unsent
<1> QED
  BY <1>1, <1>2, <1>3, InitThread DEF StreamInv

\* A step of one request leaves the others' streams alone.
LEMMA StreamOthers ==
    ASSUME StreamInv, StreamTypeOK', ThreadInv', NEW r \in Request,
           \A s \in Request \ {r} :
              /\ pc'[s] = pc[s] /\ worker'[s] = worker[s] /\ items'[s] = items[s]
              /\ failed'[s] = failed[s] /\ budget'[s] = budget[s]
              /\ why'[s] = why[s] /\ frags'[s] = frags[s],
           server' = "up" => server = "up",
           Unsent(pc[r], worker[r], items[r], failed[r], budget[r], why[r])',
           pc'[r] = "ending" /\ server' = "up" =>
               frags'[r] = 0 /\ items'[r] = <<>> /\ ~failed'[r]
    PROVE  StreamInv'
<1>1. ASSUME NEW s \in Request
      PROVE  Unsent(pc[s], worker[s], items[s], failed[s], budget[s], why[s])'
  <2>1. CASE s = r
    BY <2>1
  <2>2. CASE s # r
    <3>1. /\ pc'[s] = pc[s] /\ worker'[s] = worker[s] /\ items'[s] = items[s]
          /\ failed'[s] = failed[s] /\ budget'[s] = budget[s] /\ why'[s] = why[s]
      BY <2>2
    <3>2. Unsent(pc[s], worker[s], items[s], failed[s], budget[s], why[s])
      BY DEF StreamInv
    <3> QED
      BY <3>1, <3>2 DEF Unsent
  <2> QED
    BY <2>1, <2>2
<1>2. CleanEndIsComplete'
  <2> SUFFICES ASSUME server' = "up", NEW s \in Request, pc'[s] = "ending"
               PROVE  frags'[s] = 0 /\ items'[s] = <<>> /\ ~failed'[s]
    BY DEF CleanEndIsComplete
  <2>1. CASE s = r
    BY <2>1
  <2>2. CASE s # r
    BY <2>2 DEF StreamInv, CleanEndIsComplete
  <2> QED
    BY <2>1, <2>2
<1> QED
  BY <1>1, <1>2 DEF StreamInv

LEMMA StreamLocal ==
    ASSUME StreamInv, ThreadInv', NEW r \in Request,
           NEW x \in PC, pc' = [pc EXCEPT ![r] = x],
           NEW w \in WorkerState, worker' = [worker EXCEPT ![r] = w],
           NEW q \in Seq(Item), items' = [items EXCEPT ![r] = q],
           NEW f \in BOOLEAN, failed' = [failed EXCEPT ![r] = f],
           NEW b \in 0..MaxChunks, budget' = [budget EXCEPT ![r] = b],
           NEW y \in Why, why' = [why EXCEPT ![r] = y],
           NEW n \in 0..MaxFragments, frags' = [frags EXCEPT ![r] = n],
           server' = "up" => server = "up",
           Unsent(x, w, q, f, b, y),
           x # "ending" \/ server' # "up"
    PROVE  StreamInv'
<1>1. StreamTypeOK'
  BY DEF StreamInv, StreamTypeOK
<1>2. /\ pc'[r] = x /\ worker'[r] = w /\ items'[r] = q
      /\ failed'[r] = f /\ budget'[r] = b /\ why'[r] = y
  BY DEF StreamInv, StreamTypeOK
<1>3. Unsent(pc[r], worker[r], items[r], failed[r], budget[r], why[r])'
  BY <1>2 DEF Unsent
<1>4. \A s \in Request \ {r} :
        /\ pc'[s] = pc[s] /\ worker'[s] = worker[s] /\ items'[s] = items[s]
        /\ failed'[s] = failed[s] /\ budget'[s] = budget[s]
        /\ why'[s] = why[s] /\ frags'[s] = frags[s]
  BY DEF StreamInv, StreamTypeOK
<1> QED
  BY <1>1, <1>2, <1>3, <1>4, StreamOthers

\* Each variable of a request is its own value at that request.
LEMMA StreamValues ==
    ASSUME StreamInv, NEW r \in Request
    PROVE  /\ pc[r] \in PC /\ pc = [pc EXCEPT ![r] = pc[r]]
           /\ worker[r] \in WorkerState /\ worker = [worker EXCEPT ![r] = worker[r]]
           /\ items[r] \in Seq(Item) /\ items = [items EXCEPT ![r] = items[r]]
           /\ failed[r] \in BOOLEAN /\ failed = [failed EXCEPT ![r] = failed[r]]
           /\ budget[r] \in 0..MaxChunks /\ budget = [budget EXCEPT ![r] = budget[r]]
           /\ why[r] \in Why /\ why = [why EXCEPT ![r] = why[r]]
           /\ frags[r] \in 0..MaxFragments /\ frags = [frags EXCEPT ![r] = frags[r]]
           /\ Unsent(pc[r], worker[r], items[r], failed[r], budget[r], why[r])
BY DEF StreamInv, StreamTypeOK

\* The task goes on to x and, it may be, to other fragments or another reason.
LEMMA StreamGoto ==
    ASSUME StreamInv, ThreadInv', NEW r \in Request,
           NEW x \in PC, Goto(r, x), UNCHANGED threadVars,
           NEW y \in Why, why' = [why EXCEPT ![r] = y],
           NEW n \in 0..MaxFragments, frags' = [frags EXCEPT ![r] = n],
           server' = "up" => server = "up",
           Unsent(x, worker[r], items[r], failed[r], budget[r], y),
           x = "ending" /\ server' = "up" => n = 0 /\ items[r] = <<>> /\ ~failed[r]
    PROVE  StreamInv'
<1>1. /\ UNCHANGED <<worker, items, failed, budget>>
      /\ pc' = [pc EXCEPT ![r] = x]
  BY DEF threadVars, Goto
<1>2. StreamTypeOK'
  BY <1>1 DEF StreamInv, StreamTypeOK
<1>3. pc'[r] = x /\ why'[r] = y /\ frags'[r] = n
  BY <1>1 DEF StreamInv, StreamTypeOK
<1>4. Unsent(pc[r], worker[r], items[r], failed[r], budget[r], why[r])'
  BY <1>1, <1>3 DEF Unsent
<1>5. \A s \in Request \ {r} : pc'[s] = pc[s] /\ why'[s] = why[s] /\ frags'[s] = frags[s]
  BY <1>1 DEF StreamInv, StreamTypeOK
<1> QED
  BY <1>1, <1>2, <1>3, <1>4, <1>5, StreamOthers

LEMMA StreamForget ==
    ASSUME StreamInv, ThreadInv', NEW r \in Request, Forget(r),
           server' = "up" => server = "up"
    PROVE  StreamInv'
<1> DEFINE w == IF ThreadRuns(r) THEN worker[r] ELSE "none"
<1>1. /\ pc' = [pc EXCEPT ![r] = "out"] /\ "out" \in PC
      /\ worker' = [worker EXCEPT ![r] = w] /\ w \in WorkerState
      /\ items' = [items EXCEPT ![r] = <<>>] /\ <<>> \in Seq(Item)
      /\ failed' = [failed EXCEPT ![r] = FALSE]
      /\ budget' = [budget EXCEPT ![r] = 0] /\ 0 \in 0..MaxChunks
      /\ why' = [why EXCEPT ![r] = "next"] /\ "next" \in Why
      /\ frags' = [frags EXCEPT ![r] = 0] /\ 0 \in 0..MaxFragments
  BY SpeechAssumption, StreamValues DEF Forget, Goto, PC, WorkerState, Why
<1> HIDE DEF w
<1>2. Unsent("out", w, <<>>, FALSE, 0, "next")
  BY DEF Unsent
<1> QED
  BY <1>1, <1>2, StreamLocal

-----------------------------------------------------------------------------
(* The steps of a stream                                                   *)

LEMMA ArriveStream ==
    ASSUME StreamInv, ThreadInv', NEW r \in Request, Arrive(r)
    PROVE  StreamInv'
<1>1. PICK x \in {"prepared", "queued"} : Goto(r, x)
  BY DEF Arrive, ArriveNow, ArriveWait
<1>2. /\ pc[r] = "out" /\ ~ThreadRuns(r)
      /\ UNCHANGED <<why, frags, threadVars, server>>
  BY DEF Arrive, ArriveNow, ArriveWait, MayArrive
<1>3. Unsent(x, worker[r], items[r], failed[r], budget[r], why[r])
  BY <1>2, StreamValues DEF Unsent, ThreadRuns, WorkerState
<1>4. x \in PC /\ x # "ending"
  BY DEF PC
<1> QED
  BY <1>1, <1>2, <1>3, <1>4, StreamValues, StreamGoto

\* Up to the loop over the fragments nothing is produced.
LEMMA PrefaceStream ==
    ASSUME StreamInv, ThreadInv', NEW r \in Request,
           TakeTurn(r) \/ Prepare(r) \/ Start(r)
    PROVE  StreamInv'
<1>1. PICK x \in {"prepared", "starting", "fragment"} : Goto(r, x)
  BY DEF TakeTurn, Prepare, Start
<1>2. /\ pc[r] \in {"queued", "prepared", "starting"}
      /\ UNCHANGED <<why, threadVars, server>>
  BY DEF TakeTurn, Prepare, Start
<1>3. PICK n \in 0..MaxFragments : frags' = [frags EXCEPT ![r] = n]
  <2>1. CASE Prepare(r)
    BY <2>1 DEF Prepare
  <2>2. CASE TakeTurn(r) \/ Start(r)
    BY <2>2, StreamValues DEF TakeTurn, Start
  <2> QED
    BY <2>1, <2>2
<1>4. Unsent(x, worker[r], items[r], failed[r], budget[r], why[r])
  BY <1>2, StreamValues DEF Unsent
<1>5. x \in PC /\ x # "ending"
  BY DEF PC
<1> QED
  BY <1>1, <1>2, <1>3, <1>4, <1>5, StreamValues, StreamGoto

LEMMA FragmentStream ==
    ASSUME StreamInv, ThreadInv', NEW r \in Request,
           PauseFragment(r) \/ SpeechFragment(r) \/ Exhausted(r)
    PROVE  StreamInv'
<1>1. pc[r] = "fragment" /\ items[r] = <<>> /\ ~failed[r] /\ failed[r] \in BOOLEAN
  BY StreamValues DEF PauseFragment, SpeechFragment, Exhausted, Unsent
<1>2. CASE PauseFragment(r)
  <2>1. /\ frags[r] - 1 \in 0..MaxFragments
        /\ frags' = [frags EXCEPT ![r] = frags[r] - 1]
    BY <1>2, SpeechAssumption, StreamValues DEF PauseFragment
  <2>2. /\ pc' = [pc EXCEPT ![r] = "sending"]
        /\ worker' = [worker EXCEPT ![r] = "none"]
        /\ UNCHANGED server
    BY <1>2 DEF PauseFragment, Goto
  <2>3. Unsent("sending", "none", items[r], failed[r], budget[r], why[r])
    BY <1>1 DEF Unsent
  <2>4. /\ why' = [why EXCEPT ![r] = why[r]] /\ why[r] \in Why
        /\ budget' = [budget EXCEPT ![r] = budget[r]] /\ budget[r] \in 0..MaxChunks
        /\ items' = [items EXCEPT ![r] = items[r]] /\ items[r] \in Seq(Item)
        /\ failed' = [failed EXCEPT ![r] = failed[r]] /\ failed[r] \in BOOLEAN
        /\ "sending" \in PC /\ "none" \in WorkerState
    BY <1>2, StreamValues DEF PauseFragment, PC, WorkerState
  <2> QED
    BY <2>1, <2>2, <2>3, <2>4, StreamLocal
<1>3. CASE SpeechFragment(r)
  <2>1. /\ frags[r] - 1 \in 0..MaxFragments
        /\ frags' = [frags EXCEPT ![r] = frags[r] - 1]
    BY <1>3, SpeechAssumption, StreamValues DEF SpeechFragment
  <2>2. /\ pc' = [pc EXCEPT ![r] = "get"]
        /\ worker' = [worker EXCEPT ![r] = "busy"]
        /\ budget' = [budget EXCEPT ![r] = MaxChunks]
        /\ items' = [items EXCEPT ![r] = <<>>]
        /\ UNCHANGED server
    BY <1>3 DEF SpeechFragment, Goto
  <2>3. Unsent("get", "busy", <<>>, failed[r], MaxChunks, why[r])
    BY <1>1 DEF Unsent
  <2>4. /\ "get" \in PC /\ "busy" \in WorkerState
        /\ MaxChunks \in 0..MaxChunks /\ <<>> \in Seq(Item)
    BY SpeechAssumption DEF PC, WorkerState
  <2>5. /\ why' = [why EXCEPT ![r] = why[r]] /\ why[r] \in Why
        /\ failed' = [failed EXCEPT ![r] = failed[r]] /\ failed[r] \in BOOLEAN
    BY <1>3, StreamValues DEF SpeechFragment
  <2> QED
    BY <2>1, <2>2, <2>3, <2>4, <2>5, StreamLocal
<1>4. CASE Exhausted(r)
  <2>1. /\ frags[r] = 0 /\ Goto(r, "ending") /\ "ending" \in PC
        /\ UNCHANGED <<why, frags, threadVars, server>>
    BY <1>4 DEF Exhausted, PC
  <2>2. Unsent("ending", worker[r], items[r], failed[r], budget[r], why[r])
    BY DEF Unsent
  <2> QED
    BY <1>1, <2>1, <2>2, StreamValues, StreamGoto
<1> QED
  BY <1>2, <1>3, <1>4

-----------------------------------------------------------------------------
(* The queue while it is read and written                                  *)

LEMMA TailItems ==
    ASSUME NEW q \in Seq(Item), q # <<>>
    PROVE  /\ Tail(q) \in Seq(Item) /\ Head(q) = q[1] /\ Len(Tail(q)) = Len(q) - 1
           /\ Len(q) \in Nat \ {0} /\ DOMAIN q = 1..Len(q)
           /\ DOMAIN Tail(q) = 1..(Len(q) - 1)
           /\ \A i \in 1..(Len(q) - 1) : Tail(q)[i] = q[i + 1]
<1>1. /\ Tail(q) \in Seq(Item) /\ Len(Tail(q)) = Len(q) - 1
      /\ \A i \in 1..Len(Tail(q)) : Tail(q)[i] = q[i + 1]
  BY HeadTailProperties
<1>2. Len(q) \in Nat \ {0}
  BY EmptySeq
<1> QED
  BY <1>1, <1>2

\* Taking a chunk leaves a finished queue finished and a broken one broken.
LEMMA ClosedTail ==
    ASSUME NEW q \in Seq(Item), Closed(q), Head(q) = "chunk"
    PROVE  Closed(Tail(q)) /\ (Broken(q) => Broken(Tail(q)))
<1>1. q # <<>>
  BY DEF Closed
<1>2. /\ Tail(q) \in Seq(Item) /\ q[1] = "chunk" /\ Len(Tail(q)) = Len(q) - 1
      /\ Len(q) \in Nat \ {0} /\ DOMAIN q = 1..Len(q)
      /\ DOMAIN Tail(q) = 1..(Len(q) - 1)
      /\ \A i \in 1..(Len(q) - 1) : Tail(q)[i] = q[i + 1]
  BY <1>1, TailItems
<1>3. Len(q) # 1
  BY <1>2 DEF Closed
<1>4. Tail(q) # <<>>
  <2>1. Len(Tail(q)) # 0
    BY <1>2, <1>3
  <2> QED
    BY <2>1, EmptySeq
<1>5. \A i \in DOMAIN Tail(q) : Tail(q)[i] = "none" <=> i = Len(Tail(q))
  BY <1>2 DEF Closed
<1>6. ASSUME NEW i \in DOMAIN q, q[i] \in {"error", "fatal"}
      PROVE  Broken(Tail(q))
  <2>1. i \in 1..Len(q) /\ i # 1
    BY <1>2, <1>6
  <2>2. i - 1 \in 1..(Len(q) - 1) /\ (i - 1) + 1 = i
    BY <1>2, <2>1
  <2>3. i - 1 \in DOMAIN Tail(q) /\ Tail(q)[i - 1] = q[i]
    BY <1>2, <2>2
  <2> QED
    BY <2>3, <1>6 DEF Broken
<1> QED
  BY <1>4, <1>5, <1>6 DEF Closed, Broken

\* A None at the head is all there is.
LEMMA ClosedEnd ==
    ASSUME NEW q \in Seq(Item), Closed(q), Head(q) = "none"
    PROVE  Tail(q) = <<>> /\ ~Broken(q)
<1>1. q # <<>>
  BY DEF Closed
<1>2. /\ Tail(q) \in Seq(Item) /\ q[1] = "none"
      /\ Len(q) \in Nat \ {0} /\ DOMAIN q = 1..Len(q)
      /\ DOMAIN Tail(q) = 1..(Len(q) - 1)
  BY <1>1, TailItems
<1>3. Len(q) = 1
  BY <1>2 DEF Closed
<1>4. Tail(q) = <<>>
  <2>1. Len(Tail(q)) = 0
    BY <1>2, <1>3
  <2> QED
    BY <2>1, <1>2, EmptySeq
<1> QED
  BY <1>2, <1>3, <1>4 DEF Broken

\* produce() puts its error, if any, and then the None behind the chunks.
LEMMA ProducedCloses ==
    ASSUME NEW q \in Seq(Item), \A i \in DOMAIN q : q[i] = "chunk",
           NEW o \in {<<>>, <<"error">>, <<"fatal">>}
    PROVE  /\ q \o o \o <<"none">> \in Seq(Item)
           /\ Closed(q \o o \o <<"none">>)
           /\ o # <<>> => Broken(q \o o \o <<"none">>)
<1>1. /\ "none" \in Item /\ <<"none">> \in Seq(Item)
      /\ Len(q) \in Nat /\ DOMAIN q = 1..Len(q)
  BY DEF Item
<1>2. CASE o = <<>>
  <2>1. q \o o = q
    BY <1>2
  <2>2. /\ q \o <<"none">> \in Seq(Item)
        /\ Len(q \o <<"none">>) = Len(q) + 1
        /\ \A i \in 1..(Len(q) + 1) :
             (q \o <<"none">>)[i] = IF i <= Len(q) THEN q[i] ELSE "none"
    BY <1>1
  <2>3. DOMAIN (q \o <<"none">>) = 1..(Len(q) + 1) /\ q \o <<"none">> # <<>>
    BY <1>1, <2>2, EmptySeq
  <2> QED
    BY <1>1, <1>2, <2>1, <2>2, <2>3 DEF Closed
<1>3. CASE o # <<>>
  <2>1. PICK e \in {"error", "fatal"} : o = <<e>>
    BY <1>3
  <2> e \in Item
    BY DEF Item
  <2>2. /\ q \o o \in Seq(Item)
        /\ Len(q \o o) = Len(q) + 1
        /\ \A i \in 1..(Len(q) + 1) : (q \o o)[i] = IF i <= Len(q) THEN q[i] ELSE e
    BY <1>1, <2>1
  <2> DEFINE s == q \o o
  <2>3. /\ s \o <<"none">> \in Seq(Item)
        /\ Len(s \o <<"none">>) = Len(q) + 2
        /\ \A i \in 1..(Len(q) + 2) :
             (s \o <<"none">>)[i] = IF i <= Len(q) + 1 THEN s[i] ELSE "none"
    <3>1. s \in Seq(Item) /\ Len(s) = Len(q) + 1
      BY <2>2
    <3> HIDE DEF s
    <3>2. /\ s \o <<"none">> \in Seq(Item)
          /\ Len(s \o <<"none">>) = Len(s) + Len(<<"none">>)
          /\ \A i \in 1..(Len(s) + Len(<<"none">>)) :
               (s \o <<"none">>)[i] =
                 IF i <= Len(s) THEN s[i] ELSE <<"none">>[i - Len(s)]
      BY <1>1, <3>1, ConcatProperties
    <3>3. Len(<<"none">>) = 1 /\ <<"none">>[1] = "none"
      OBVIOUS
    <3>4. Len(s) + 1 = Len(q) + 2
      BY <1>1, <3>1
    <3>5. ASSUME NEW i \in 1..(Len(q) + 2)
          PROVE  (s \o <<"none">>)[i] = IF i <= Len(q) + 1 THEN s[i] ELSE "none"
      <4>1. i <= Len(s) \/ i - Len(s) = 1
        BY <1>1, <3>1
      <4> QED
        BY <1>1, <3>1, <3>2, <3>3, <3>4, <4>1
    <3> QED
      BY <3>2, <3>3, <3>4, <3>5
  <2>4. \A i \in 1..(Len(q) + 1) : s[i] = IF i <= Len(q) THEN q[i] ELSE e
    BY <2>2
  <2> HIDE DEF s
  <2> DEFINE z == s \o <<"none">>
  <2>5. /\ z \in Seq(Item) /\ DOMAIN z = 1..(Len(q) + 2) /\ Len(z) = Len(q) + 2
        /\ z # <<>>
    BY <1>1, <2>3, EmptySeq
  <2>6. \A i \in 1..(Len(q) + 2) :
          z[i] = IF i <= Len(q) THEN "chunk" ELSE IF i = Len(q) + 1 THEN e ELSE "none"
    BY <1>1, <2>3, <2>4
  <2>7. q \o o \o <<"none">> = z
    BY DEF s
  <2> HIDE DEF z
  <2>8. Closed(z)
    BY <1>1, <2>1, <2>5, <2>6 DEF Closed
  <2>9. Broken(z)
    <3>1. Len(q) + 1 \in DOMAIN z /\ z[Len(q) + 1] = e
      BY <1>1, <2>5, <2>6
    <3> QED
      BY <3>1, <2>1 DEF Broken
  <2> QED
    BY <2>5, <2>7, <2>8, <2>9
<1> QED
  BY <1>2, <1>3

-----------------------------------------------------------------------------
(* Items taken, chunks sent, threads awaited                               *)

LEMMA GetStream ==
    ASSUME StreamInv, ThreadInv', NEW r \in Request,
           GetChunk(r) \/ GetNone(r) \/ GetError(r)
    PROVE  StreamInv'
<1> DEFINE q == items[r]
<1>1. /\ pc[r] = "get" /\ q # <<>> /\ q \in Seq(Item) /\ Head(q) = q[1]
      /\ items' = [items EXCEPT ![r] = Tail(q)] /\ Tail(q) \in Seq(Item)
      /\ 1 \in DOMAIN q
      /\ UNCHANGED <<worker, failed, budget, frags>>
      /\ server' = "up" => server = "up"
  <2>1. /\ pc[r] = "get" /\ q # <<>>
        /\ items' = [items EXCEPT ![r] = Tail(q)]
        /\ UNCHANGED <<worker, failed, budget, frags>>
    BY DEF GetChunk, GetNone, GetError
  <2>2. server' = "up" => server = "up"
    BY DEF GetChunk, GetNone, GetError, RequestShutdown
  <2>3. q \in Seq(Item)
    BY StreamValues
  <2> HIDE DEF q
  <2> QED
    BY <2>1, <2>2, <2>3, TailItems
<1>2. /\ worker[r] \in {"busy", "hung"} =>
            ~failed[r] /\ \A i \in DOMAIN q : q[i] = "chunk"
      /\ worker[r] \in {"leaving", "returned"} => Closed(q) /\ (failed[r] => Broken(q))
      /\ worker[r] # "none"
      /\ worker[r] \in {"busy", "hung", "leaving", "returned"}
  BY <1>1, StreamValues DEF Unsent, WorkerState
<1>3. StreamTypeOK /\ failed[r] \in BOOLEAN
  BY StreamValues DEF StreamInv
<1>4. CASE GetChunk(r)
  <2>1. /\ Head(q) = "chunk" /\ pc' = [pc EXCEPT ![r] = "sending"] /\ UNCHANGED why
    BY <1>4 DEF GetChunk, Goto
  <2>2. /\ worker[r] \in {"busy", "hung"} =>
             ~failed[r] /\ \A i \in DOMAIN Tail(q) : Tail(q)[i] = "chunk"
        /\ worker[r] \in {"leaving", "returned"} =>
             Closed(Tail(q)) /\ (failed[r] => Broken(Tail(q)))
    <3> HIDE DEF q
    <3>1. ASSUME worker[r] \in {"busy", "hung"}
          PROVE  ~failed[r] /\ \A i \in DOMAIN Tail(q) : Tail(q)[i] = "chunk"
      BY <1>1, <1>2, <3>1, TailItems
    <3>2. ASSUME worker[r] \in {"leaving", "returned"}
          PROVE  Closed(Tail(q)) /\ (failed[r] => Broken(Tail(q)))
      BY <1>1, <1>2, <2>1, <3>2, ClosedTail
    <3> QED
      BY <3>1, <3>2
  <2>3. Unsent("sending", worker[r], Tail(q), failed[r], budget[r], why[r])
    BY <1>2, <2>2 DEF Unsent
  <2>4. StreamTypeOK'
    BY <1>1, <1>3, <2>1 DEF StreamTypeOK, PC
  <2>5. /\ pc'[r] = "sending" /\ items'[r] = Tail(q)
        /\ \A s \in Request \ {r} : pc'[s] = pc[s] /\ items'[s] = items[s]
    BY <1>1, <1>3, <2>1 DEF StreamTypeOK
  <2>6. Unsent(pc[r], worker[r], items[r], failed[r], budget[r], why[r])'
    BY <1>1, <2>1, <2>3, <2>5 DEF Unsent
  <2> QED
    BY <1>1, <2>1, <2>4, <2>5, <2>6, StreamOthers
<1>5. CASE GetNone(r)
  <2>1. /\ Head(q) = "none" /\ pc' = [pc EXCEPT ![r] = "draining"]
        /\ why' = [why EXCEPT ![r] = "next"]
    BY <1>5 DEF GetNone, Goto
  <2>2. worker[r] \in {"leaving", "returned"}
    BY <1>1, <1>2, <2>1
  <2>3. Tail(q) = <<>> /\ ~failed[r]
    BY <1>1, <1>2, <2>1, <2>2, ClosedEnd
  <2>4. StreamTypeOK'
    BY <1>1, <1>3, <2>1 DEF StreamTypeOK, PC, Why
  <2>5. /\ pc'[r] = "draining" /\ items'[r] = Tail(q) /\ why'[r] = "next"
        /\ \A s \in Request \ {r} :
             pc'[s] = pc[s] /\ items'[s] = items[s] /\ why'[s] = why[s]
    BY <1>1, <1>3, <2>1 DEF StreamTypeOK
  <2>6. Unsent(pc[r], worker[r], items[r], failed[r], budget[r], why[r])'
    BY <1>1, <2>2, <2>3, <2>5 DEF Unsent
  <2> QED
    BY <1>1, <2>4, <2>5, <2>6, StreamOthers
<1>6. CASE GetError(r)
  <2>1. pc' = [pc EXCEPT ![r] = "draining"] /\ why' = [why EXCEPT ![r] = "raise"]
    BY <1>6 DEF GetError, Goto
  <2>2. StreamTypeOK'
    BY <1>1, <1>3, <2>1 DEF StreamTypeOK, PC, Why
  <2>3. /\ pc'[r] = "draining" /\ why'[r] = "raise"
        /\ \A s \in Request \ {r} :
             pc'[s] = pc[s] /\ items'[s] = items[s] /\ why'[s] = why[s]
    BY <1>1, <1>3, <2>1 DEF StreamTypeOK
  <2>4. Unsent(pc[r], worker[r], items[r], failed[r], budget[r], why[r])'
    BY <2>3 DEF Unsent
  <2> QED
    BY <1>1, <2>2, <2>3, <2>4, StreamOthers
<1> QED
  BY <1>4, <1>5, <1>6

LEMMA SendStream ==
    ASSUME StreamInv, ThreadInv', NEW r \in Request, Send(r)
    PROVE  StreamInv'
<1> DEFINE x == IF worker[r] = "none" THEN "fragment" ELSE "get"
<1>1. /\ pc[r] = "sending" /\ Goto(r, x)
      /\ UNCHANGED <<why, frags, threadVars, server>>
  BY DEF Send
<1>2. x \in PC /\ x # "ending"
  BY DEF PC
<1>3. Unsent(x, worker[r], items[r], failed[r], budget[r], why[r])
  <2>1. CASE worker[r] = "none"
    BY <1>1, <2>1, StreamValues DEF Unsent
  <2>2. CASE worker[r] # "none"
    BY <1>1, <2>2, StreamValues DEF Unsent
  <2> QED
    BY <2>1, <2>2
<1> HIDE DEF x
<1> QED
  BY <1>1, <1>2, <1>3, StreamValues, StreamGoto

\* The ways out of the loop but for the last fragment's.
LEMMA DrainStream ==
    ASSUME StreamInv, ThreadInv', NEW r \in Request,
           Watchdog(r) \/ SendFails(r) \/ DrainedNext(r)
    PROVE  StreamInv'
<1>1. CASE Watchdog(r)
  <2>1. /\ Goto(r, "ending") /\ server' # "up" /\ "ending" \in PC
        /\ UNCHANGED <<why, frags, threadVars>>
    BY <1>1 DEF Watchdog, RequestShutdown, PC
  <2>2. Unsent("ending", worker[r], items[r], failed[r], budget[r], why[r])
    BY DEF Unsent
  <2> QED
    BY <2>1, <2>2, StreamValues, StreamGoto
<1>2. CASE SendFails(r)
  <2>1. /\ Goto(r, "draining") /\ why' = [why EXCEPT ![r] = "close"]
        /\ UNCHANGED <<frags, threadVars, server>>
        /\ "draining" \in PC /\ "close" \in Why
    BY <1>2 DEF SendFails, PC, Why
  <2>2. Unsent("draining", worker[r], items[r], failed[r], budget[r], "close")
    BY DEF Unsent
  <2> QED
    BY <2>1, <2>2, StreamValues, StreamGoto
<1>3. CASE DrainedNext(r)
  <2>1. /\ pc[r] = "draining" /\ why[r] = "next" /\ WorkerDone(r)
        /\ Goto(r, "fragment") /\ "fragment" \in PC
        /\ UNCHANGED <<why, frags, threadVars, server>>
    BY <1>3 DEF DrainedNext, PC
  <2>2. Unsent("fragment", worker[r], items[r], failed[r], budget[r], why[r])
    BY <2>1, StreamValues DEF Unsent, WorkerDone
  <2> QED
    BY <2>1, <2>2, StreamValues, StreamGoto
<1> QED
  BY <1>1, <1>2, <1>3

LEMMA OverStream ==
    ASSUME StreamInv, ThreadInv', NEW r \in Request,
           \/ PrepareFails(r) \/ StartFails(r) \/ DrainedEnd(r)
           \/ CancelStart(r) \/ CancelStream(r) \/ SendEnd(r)
    PROVE  StreamInv'
<1>1. Forget(r) /\ UNCHANGED server
  BY DEF PrepareFails, StartFails, DrainedEnd, CancelStart, CancelStream, SendEnd
<1> QED
  BY <1>1, StreamForget

-----------------------------------------------------------------------------
(* The thread's own steps                                                  *)

LEMMA ProduceStream ==
    ASSUME StreamInv, ThreadInv', NEW r \in Request, ProduceChunk(r)
    PROVE  StreamInv'
<1> DEFINE q == items[r]
<1>1. /\ worker[r] = "busy" /\ budget[r] \in 0..MaxChunks /\ budget[r] > 0
      /\ budget' = [budget EXCEPT ![r] = budget[r] - 1]
      /\ items' = [items EXCEPT ![r] = Append(q, "chunk")]
      /\ UNCHANGED <<pc, worker, failed, why, frags, server>>
      /\ q \in Seq(Item)
  BY StreamValues DEF ProduceChunk, requestVars
<1>2. /\ pc[r] \in {"get", "sending", "draining", "ending"}
      /\ pc[r] = "draining" => why[r] # "next"
      /\ pc[r] \in {"get", "sending"} => ~failed[r] /\ \A i \in DOMAIN q : q[i] = "chunk"
  BY <1>1, StreamValues DEF Unsent, PC
<1>3. /\ Append(q, "chunk") \in Seq(Item)
      /\ (\A i \in DOMAIN q : q[i] = "chunk") =>
            \A i \in DOMAIN Append(q, "chunk") : Append(q, "chunk")[i] = "chunk"
  <2> HIDE DEF q
  <2>1. "chunk" \in Item
    BY DEF Item
  <2>2. /\ Append(q, "chunk") \in Seq(Item)
        /\ Len(Append(q, "chunk")) = Len(q) + 1
        /\ \A i \in 1..Len(q) : Append(q, "chunk")[i] = q[i]
        /\ Append(q, "chunk")[Len(q) + 1] = "chunk"
    BY <1>1, <2>1, AppendProperties
  <2> QED
    BY <1>1, <2>2
<1>4. budget[r] - 1 \in 0..MaxChunks
  BY <1>1, SpeechAssumption
<1>5. StreamTypeOK'
  BY <1>1, <1>3, <1>4 DEF StreamInv, StreamTypeOK
<1>6. /\ items'[r] = Append(q, "chunk")
      /\ \A s \in Request \ {r} : items'[s] = items[s] /\ budget'[s] = budget[s]
  BY <1>1 DEF StreamInv, StreamTypeOK
<1> HIDE DEF q
<1>7. Unsent(pc[r], worker[r], items[r], failed[r], budget[r], why[r])'
  BY <1>1, <1>2, <1>3, <1>6 DEF Unsent
<1>8. ~(pc'[r] = "ending" /\ server' = "up")
  BY <1>1 DEF StreamInv, ThreadInv, ThreadRuns
<1> QED
  BY <1>1, <1>5, <1>6, <1>7, <1>8, StreamOthers

LEMMA EndStream ==
    ASSUME StreamInv, ThreadInv', NEW r \in Request,
           NEW o \in {<<>>, <<"error">>, <<"fatal">>}, ProduceEnd(r, o)
    PROVE  StreamInv'
<1> DEFINE q == items[r]
           z == q \o o \o <<"none">>
<1>1. /\ worker[r] = "busy" /\ worker' = [worker EXCEPT ![r] = "leaving"]
      /\ budget' = [budget EXCEPT ![r] = 0]
      /\ UNCHANGED <<pc, why, frags, server>>
      /\ q \in Seq(Item) /\ failed[r] \in BOOLEAN
  BY StreamValues DEF ProduceEnd, requestVars
<1>2. /\ pc[r] \in {"out", "get", "sending", "draining", "ending"}
      /\ pc[r] = "draining" => why[r] # "next"
      /\ pc[r] \in {"get", "sending"} => ~failed[r] /\ \A i \in DOMAIN q : q[i] = "chunk"
      /\ pc[r] = "out" => q = <<>> /\ ~failed[r]
  BY <1>1, StreamValues DEF Unsent, PC
<1>3. "leaving" \in WorkerState /\ 0 \in 0..MaxChunks /\ StreamTypeOK
  BY SpeechAssumption DEF WorkerState, StreamInv
<1>4. ~(pc'[r] = "ending" /\ server' = "up")
  BY <1>1 DEF StreamInv, ThreadInv, ThreadRuns
<1>5. CASE pc[r] = "out"
  <2>1. UNCHANGED <<items, failed>>
    BY <1>5 DEF ProduceEnd
  <2>2. StreamTypeOK'
    BY <1>1, <1>3, <2>1 DEF StreamTypeOK
  <2>3. /\ worker'[r] = "leaving" /\ budget'[r] = 0
        /\ \A s \in Request \ {r} : worker'[s] = worker[s] /\ budget'[s] = budget[s]
    BY <1>1, <1>3 DEF StreamTypeOK
  <2>4. Unsent(pc[r], worker[r], items[r], failed[r], budget[r], why[r])'
    BY <1>1, <1>2, <1>5, <2>1, <2>3 DEF Unsent
  <2> QED
    BY <1>1, <1>4, <2>1, <2>2, <2>3, <2>4, StreamOthers
<1>6. CASE pc[r] # "out"
  <2>1. /\ items' = [items EXCEPT ![r] = z]
        /\ failed' = [failed EXCEPT ![r] = failed[r] \/ o # <<>>]
    BY <1>6 DEF ProduceEnd
  <2>2. z \in Seq(Item)
    <3>1. "none" \in Item /\ "error" \in Item /\ "fatal" \in Item
      BY DEF Item
    <3>2. <<"none">> \in Seq(Item) /\ o \in Seq(Item)
      <4>1. /\ <<"none">> \in Seq(Item) /\ <<>> \in Seq(Item)
            /\ <<"error">> \in Seq(Item) /\ <<"fatal">> \in Seq(Item)
        BY <3>1
      <4> QED
        BY <4>1
    <3> HIDE DEF q
    <3>3. q \o o \in Seq(Item)
      BY <1>1, <3>2, ConcatProperties
    <3> QED
      BY <3>2, <3>3, ConcatProperties
  <2>3. pc[r] \in {"get", "sending"} => Closed(z) /\ (o # <<>> => Broken(z))
    <3> HIDE DEF q
    <3> QED
      BY <1>1, <1>2, ProducedCloses
  <2> HIDE DEF q, z
  <2>4. StreamTypeOK'
    BY <1>1, <1>3, <2>1, <2>2 DEF StreamTypeOK
  <2>5. /\ worker'[r] = "leaving" /\ budget'[r] = 0 /\ items'[r] = z
        /\ failed'[r] = (failed[r] \/ o # <<>>)
        /\ \A s \in Request \ {r} :
             /\ worker'[s] = worker[s] /\ budget'[s] = budget[s]
             /\ items'[s] = items[s] /\ failed'[s] = failed[s]
    BY <1>1, <1>3, <2>1 DEF StreamTypeOK
  <2>6. Unsent(pc[r], worker[r], items[r], failed[r], budget[r], why[r])'
    <3>1. pc'[r] \in {"get", "sending", "draining", "ending"}
      BY <1>1, <1>2, <1>6
    <3>2. CASE pc'[r] \in {"get", "sending"}
      <4>1. Closed(z) /\ (failed'[r] => Broken(z))
        BY <1>1, <1>2, <2>3, <2>5, <3>2
      <4> QED
        BY <2>5, <3>2, <4>1 DEF Unsent
    <3>3. CASE pc'[r] \in {"draining", "ending"}
      BY <1>1, <1>2, <3>3 DEF Unsent
    <3> QED
      BY <3>1, <3>2, <3>3
  <2> QED
    BY <1>1, <1>4, <2>4, <2>5, <2>6, StreamOthers
<1> QED
  BY <1>5, <1>6

LEMMA ThreadStream ==
    ASSUME StreamInv, ThreadInv', NEW r \in Request, Hang(r) \/ Return(r)
    PROVE  StreamInv'
<1>1. UNCHANGED <<pc, why, frags, items, failed, server>>
  BY DEF Hang, Return, requestVars
<1>2. PICK w \in WorkerState :
        /\ worker' = [worker EXCEPT ![r] = w]
        /\ \/ worker[r] = "busy" /\ w = "hung"
           \/ worker[r] = "leaving" /\ w = (IF pc[r] = "out" THEN "none" ELSE "returned")
  BY DEF Hang, Return, WorkerState
<1>3. PICK b \in 0..MaxChunks : budget' = [budget EXCEPT ![r] = b] /\ b \in {0, budget[r]}
  BY SpeechAssumption, StreamValues DEF Hang, Return
<1>4. StreamTypeOK'
  BY <1>1, <1>2, <1>3 DEF StreamInv, StreamTypeOK
<1>5. /\ worker'[r] = w /\ budget'[r] = b
      /\ \A s \in Request \ {r} : worker'[s] = worker[s] /\ budget'[s] = budget[s]
  BY <1>2, <1>3 DEF StreamInv, StreamTypeOK
<1>6. Unsent(pc[r], w, items[r], failed[r], b, why[r])
  BY <1>2, <1>3, StreamValues DEF Unsent
<1>7. Unsent(pc[r], worker[r], items[r], failed[r], budget[r], why[r])'
  BY <1>1, <1>5, <1>6 DEF Unsent
<1>8. ~(pc'[r] = "ending" /\ server' = "up")
  BY <1>1, <1>2 DEF StreamInv, ThreadInv, ThreadRuns
<1> QED
  BY <1>1, <1>4, <1>5, <1>7, <1>8, StreamOthers

LEMMA StreamStep == StreamInv /\ [Next]_vars => StreamInv'
<1> SUFFICES ASSUME StreamInv, [Next]_vars PROVE StreamInv'
  OBVIOUS
<1>1. ThreadInv'
  BY ThreadStep DEF StreamInv
<1>2. ASSUME NEW r \in Request, LoopStep(r) \/ ClientStep(r) PROVE StreamInv'
  BY <1>1, <1>2, PrefaceStream, FragmentStream, GetStream, SendStream, DrainStream,
     OverStream DEF LoopStep, ClientStep
<1>3. ASSUME NEW r \in Request, WorkerStep(r) \/ Hang(r) PROVE StreamInv'
  BY <1>1, <1>3, ProduceStream, EndStream, ThreadStream DEF WorkerStep
<1>4. ASSUME NEW r \in Request, Arrive(r) PROVE StreamInv'
  BY <1>1, <1>4, ArriveStream
<1>5. ASSUME \/ \E r \in Request : Leave(r)
             \/ Stop \/ StopAccepting \/ Exited \/ UNCHANGED vars
      PROVE  StreamInv'
  <2>1. /\ UNCHANGED <<pc, why, frags, worker, items, failed, budget>>
        /\ server' = "up" => server = "up"
    BY <1>5 DEF Leave, Stop, StopAccepting, Exited, RequestShutdown, vars,
                requestVars, threadVars
  <2> QED
    BY <1>1, <2>1 DEF StreamInv, StreamTypeOK, Unsent, CleanEndIsComplete
<1>6. ASSUME Exit PROVE StreamInv'
  <2>1. /\ UNCHANGED <<pc, why, frags, items, failed, budget>>
        /\ \A r \in Request : pc[r] = "out"
        /\ worker' = [r \in Request |-> "none"] /\ server' # "up"
    BY <1>6 DEF Exit, requestVars
  <2>2. StreamTypeOK' /\ CleanEndIsComplete'
    BY <2>1 DEF StreamInv, StreamTypeOK, WorkerState, CleanEndIsComplete
  <2>3. ASSUME NEW r \in Request
        PROVE  Unsent(pc[r], worker[r], items[r], failed[r], budget[r], why[r])'
    BY <2>1, StreamValues DEF Unsent
  <2> QED
    BY <1>1, <2>2, <2>3 DEF StreamInv
<1> QED
  BY <1>2, <1>3, <1>4, <1>5, <1>6 DEF Next

\* A stream that ends as complete had every fragment started, every item of
\* its queues taken and no engine call failed.
THEOREM CleanEnds == Spec => []CleanEndIsComplete
<1>1. Spec => []StreamInv
  BY InitStream, StreamStep, PTL DEF Spec
<1>2. StreamInv => CleanEndIsComplete
  BY DEF StreamInv
<1> QED
  BY <1>1, <1>2, PTL

-----------------------------------------------------------------------------
(* One worker at a time, as long as HTTP clients stay                      *)

\* The proofs about Admission, through the mapping.
QueueProofs == INSTANCE Admission_proofs WITH phase <- [r \in Request |-> PhaseOf(r)]

LEMMA SameInit == Queue!Init => QueueProofs!Init
BY DEF Queue!Init, QueueProofs!Init, Queue!QueueInit, QueueProofs!QueueInit

LEMMA SameNext == [Queue!Next]_(Queue!vars) => [QueueProofs!Next]_(QueueProofs!vars)
<1>1. UNCHANGED Queue!vars => UNCHANGED QueueProofs!vars
  BY DEF Queue!vars, QueueProofs!vars
<1>2. Queue!Next => QueueProofs!Next
  BY DEF Queue!Next, QueueProofs!Next,
         Queue!AdmitNow, QueueProofs!AdmitNow, Queue!AdmitWait, QueueProofs!AdmitWait,
         Queue!TakeTurn, QueueProofs!TakeTurn, Queue!Cancel, QueueProofs!Cancel,
         Queue!GiveUp, QueueProofs!GiveUp, Queue!Finish, QueueProofs!Finish,
         Queue!TryAdmit, QueueProofs!TryAdmit, Queue!AcquireNow, QueueProofs!AcquireNow,
         Queue!AcquireWait, QueueProofs!AcquireWait, Queue!Locked, QueueProofs!Locked,
         Queue!Granted, QueueProofs!Granted, Queue!Without, QueueProofs!Without,
         Queue!CancelWait, QueueProofs!CancelWait,
         Queue!Cancelled, QueueProofs!Cancelled,
         Queue!UndoAdmit, QueueProofs!UndoAdmit, Queue!Release, QueueProofs!Release,
         Queue!WakeUpNext, QueueProofs!WakeUpNext,
         Queue!IsFirstPending, QueueProofs!IsFirstPending
<1> QED
  BY <1>1, <1>2

\* The server keeps the queue's invariant.
LEMMA QueueInvariance == Spec => []QueueProofs!IInv
<1>1. QueueProofs!Init => QueueProofs!IInv
  BY QueueProofs!InitIInv, MaxDepthAssumption
<1>2. QueueProofs!IInv /\ [QueueProofs!Next]_(QueueProofs!vars) => QueueProofs!IInv'
  BY QueueProofs!NextIInv, MaxDepthAssumption
<1> QED
  BY <1>1, <1>2, SameInit, SameNext, ServerImplementsAdmission, PTL DEF IsAdmission

\* The server, composed of the queue and its requests, keeps the order of the
\* line too: whatever the workers, the clients and the watchdogs do, admitted
\* requests get the GPU first come, first served.
THEOREM ServerServesInOrder == Spec => QueueProofs!ServedInOrder
<1>1. QueueProofs!Init => QueueProofs!Abstract!Init
  BY QueueProofs!InitInOrder, MaxDepthAssumption
<1>2. QueueProofs!IInv /\ [QueueProofs!Next]_(QueueProofs!vars)
         => [QueueProofs!Abstract!Next]_(QueueProofs!Line)
  BY QueueProofs!NextInOrder, MaxDepthAssumption
<1> QED
  BY <1>1, <1>2, SameInit, SameNext, QueueInvariance, ServerImplementsAdmission, PTL
  DEF IsAdmission, QueueProofs!ServedInOrder, QueueProofs!Abstract!InOrder

\* Nobody but a leaver is lost, and every running thread has its slot.
StayInv ==
    /\ gone \in [Request -> BOOLEAN]
    /\ server = "up" => \A r \in Request : /\ gone[r] => r \in Leaver
                                           /\ ThreadRuns(r) => HoldsSlot(r)

LEMMA InitStay == Init => StayInv
BY DEF Init, StayInv, ThreadRuns

\* A connection is lost by Leave only, while the process is up.
LEMMA GoneByLeave ==
    ASSUME StayInv, [Next]_vars
    PROVE  /\ gone' \in [Request -> BOOLEAN]
           /\ server' = "up" => \A r \in Request : gone'[r] => gone[r] \/ r \in Leaver
<1> USE DEF StayInv
<1>1. ASSUME NEW r \in Request, Forget(r)
      PROVE  /\ gone' \in [Request -> BOOLEAN]
             /\ \A q \in Request : gone'[q] => gone[q]
  BY <1>1 DEF Forget
<1>2. ASSUME NEW r \in Request, LoopStep(r) \/ ClientStep(r)
      PROVE  UNCHANGED gone \/ Forget(r)
  BY <1>2
  DEF LoopStep, TakeTurn, Prepare, PrepareFails, StartFails, PauseFragment,
      SpeechFragment, Exhausted, GetChunk, GetNone, GetError, Watchdog, SendFails,
      DrainedNext, DrainedEnd, CancelStart, CancelStream, ClientStep, Start, Send, SendEnd
<1>3. ASSUME NEW r \in Request, Arrive(r) \/ WorkerStep(r) \/ Hang(r)
      PROVE  UNCHANGED gone
  BY <1>3 DEF Arrive, ArriveNow, ArriveWait, WorkerStep, ProduceChunk, ProduceEnd,
              Return, Hang, requestVars
<1>4. ASSUME NEW r \in Request, Leave(r)
      PROVE  /\ gone' \in [Request -> BOOLEAN]
             /\ \A q \in Request : gone'[q] => gone[q] \/ q \in Leaver
  BY <1>4 DEF Leave
<1>5. CASE StopAccepting
  BY <1>5 DEF StopAccepting
<1>6. CASE Stop \/ Exit \/ Exited \/ UNCHANGED vars
  BY <1>6 DEF Stop, Exit, Exited, vars, requestVars
<1> QED
  BY <1>1, <1>2, <1>3, <1>4, <1>5, <1>6 DEF Next

\* A thread is started by its own request, which then awaits its items.
LEMMA StartedBySlot ==
    ASSUME ThreadInv, Next, NEW r \in Request, ~ThreadRuns(r), ThreadRuns(r)'
    PROVE  pc'[r] = "get"
<1>1. pc \in [Request -> PC] /\ worker \in [Request -> WorkerState]
  BY DEF ThreadInv
<1>2. ASSUME NEW q \in Request, SpeechFragment(q) PROVE pc'[r] = "get"
  BY <1>1, <1>2 DEF SpeechFragment, Goto, ThreadRuns
<1>3. ASSUME NEW q \in Request, Forget(q) PROVE FALSE
  BY <1>1, <1>3 DEF Forget, ThreadRuns
<1>4. ASSUME NEW q \in Request, LoopStep(q) \/ ClientStep(q)
      PROVE  pc'[r] = "get"
  <2>1. \/ UNCHANGED worker \/ Forget(q) \/ SpeechFragment(q)
        \/ worker' = [worker EXCEPT ![q] = "none"]
    BY <1>4
    DEF LoopStep, TakeTurn, Prepare, PrepareFails, StartFails, PauseFragment,
        Exhausted, GetChunk, GetNone, GetError, Watchdog, SendFails, DrainedNext,
        DrainedEnd, CancelStart, CancelStream, ClientStep, Start, Send, SendEnd,
        threadVars
  <2> QED
    BY <1>1, <1>2, <1>3, <2>1 DEF ThreadRuns
<1>5. ASSUME NEW q \in Request, WorkerStep(q) \/ Hang(q) PROVE FALSE
  BY <1>1, <1>5 DEF WorkerStep, ProduceChunk, ProduceEnd, Return, Hang, ThreadRuns
<1>6. ASSUME NEW q \in Request, Arrive(q) \/ Leave(q) PROVE FALSE
  BY <1>6 DEF Arrive, ArriveNow, ArriveWait, Leave, ThreadRuns, threadVars
<1>7. CASE Stop \/ StopAccepting \/ Exit \/ Exited
  BY <1>7 DEF Stop, StopAccepting, Exit, Exited, vars, ThreadRuns, threadVars
<1> QED
  BY <1>4, <1>5, <1>6, <1>7 DEF Next

LEMMA StayStep ==
    ASSUME Leaver \subseteq WsRequest, ThreadInv, StayInv, [Next]_vars
    PROVE  StayInv'
<1>1. ThreadInv' /\ (server' = "up" => server = "up")
  BY ThreadStep, ServerGoesDown
<1>2. gone' \in [Request -> BOOLEAN]
  BY GoneByLeave
<1> SUFFICES ASSUME server' = "up", NEW r \in Request
             PROVE  (gone'[r] => r \in Leaver) /\ (ThreadRuns(r)' => HoldsSlot(r)')
  BY <1>2 DEF StayInv
<1>3. gone'[r] => r \in Leaver
  BY <1>1, GoneByLeave DEF StayInv
<1>4. ASSUME ThreadRuns(r)', ~HoldsSlot(r)' PROVE FALSE
  <2>1. r \notin WsRequest /\ pc'[r] = "out"
    BY <1>1, <1>4 DEF ThreadInv, HoldsSlot
  <2>2. CASE UNCHANGED vars
    BY <1>1, <1>4, <2>2 DEF vars, StayInv, ThreadRuns, HoldsSlot, requestVars, threadVars
  <2>3. CASE Next
    <3>1. ThreadRuns(r)
      BY <1>4, <2>1, <2>3, StartedBySlot
    <3>2. gone[r]
      BY <1>1, <2>1, <2>3, <3>1, EndsRunning DEF StayInv
    <3> QED
      BY <1>1, <2>1, <3>2 DEF StayInv
  <2> QED
    BY <2>2, <2>3
<1> QED
  BY <1>3, <1>4

\* Two requests never hold the slot at once.
LEMMA OneHolder ==
    ASSUME QueueProofs!IInv, NEW r \in Request, NEW s \in Request,
           HoldsSlot(r), HoldsSlot(s)
    PROVE  r = s
<1>1. QueueProofs!SlotConserved /\ value \in {0, 1}
  BY QueueProofs!IInvImplies, MaxDepthAssumption
     DEF QueueProofs!TypeOK, QueueProofs!QueueTypeOK
<1>2. r \in QueueProofs!Owners /\ s \in QueueProofs!Owners
  BY DEF QueueProofs!Owners, QueueProofs!Holders, PhaseOf, HoldsSlot
<1> QED
  BY <1>1, <1>2 DEF QueueProofs!SlotConserved

\* As long as no HTTP client leaves, one worker thread at a time touches the
\* GPU, whatever fails, hangs or is refused and whichever WebSocket is lost.
THEOREM OneThreadAtATime == Leaver \subseteq WsRequest => (Spec => []OneAtATime)
<1> SUFFICES ASSUME Leaver \subseteq WsRequest PROVE Spec => []OneAtATime
  OBVIOUS
<1>1. Spec => []ThreadInv
  BY InitThread, ThreadStep, PTL DEF Spec
<1>2. ThreadInv /\ StayInv /\ [Next]_vars => StayInv'
  BY StayStep
<1>3. Spec => []StayInv
  BY InitStay, <1>1, <1>2, PTL DEF Spec
<1>4. StayInv /\ QueueProofs!IInv => OneAtATime
  BY OneHolder DEF StayInv, OneAtATime
<1> QED
  BY <1>3, <1>4, QueueInvariance, PTL
=============================================================================
