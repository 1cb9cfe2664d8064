----------------------------- MODULE Admission ------------------------------
(***************************************************************************)
(* The callers of _GpuQueue: _admit_or, and the release() that every       *)
(* admitted request owes.  One request is "out" (not admitted), "waiting"  *)
(* (admitted, suspended in acquire()) or "holding" (acquire() returned,    *)
(* release() not yet called).  What a holder does with the slot is         *)
(* SpeechServer's subject; here it only gives it back.                     *)
(*                                                                         *)
(* A request refused by try_admit() gets its 503 or error message and      *)
(* leaves no trace in this state, so a refusal is a stuttering step.       *)
(***************************************************************************)
EXTENDS GpuQueue

VARIABLE phase

vars == <<value, waiters, fut, depth, phase>>

Phase == {"out", "waiting", "holding"}

TypeOK ==
    /\ QueueTypeOK
    /\ phase \in [Request -> Phase]

Init ==
    /\ QueueInit
    /\ phase = [r \in Request |-> "out"]

-----------------------------------------------------------------------------
\* _admit_or: admitted, and the slot is free.
AdmitNow(r) ==
    /\ phase[r] = "out"
    /\ TryAdmit
    /\ AcquireNow
    /\ phase' = [phase EXCEPT ![r] = "holding"]

\* _admit_or: admitted, and suspended behind the others.
AdmitWait(r) ==
    /\ phase[r] = "out"
    /\ TryAdmit
    /\ AcquireWait(r)
    /\ phase' = [phase EXCEPT ![r] = "waiting"]

\* _admit_or returns True after its wait.
TakeTurn(r) ==
    /\ phase[r] = "waiting"
    /\ Granted(r)
    /\ phase' = [phase EXCEPT ![r] = "holding"]
    /\ UNCHANGED depth

\* The task of a waiting request is cancelled ...
Cancel(r) ==
    /\ phase[r] = "waiting"
    /\ CancelWait(r)
    /\ UNCHANGED <<depth, phase>>

\* A fault: the except clause of _admit_or is missing.
GiveUpKeepsDepth(r) ==
    /\ phase[r] = "waiting"
    /\ Cancelled(r)
    /\ phase' = [phase EXCEPT ![r] = "out"]
    /\ UNCHANGED depth

\* ... and _admit_or undoes the admission once the task runs.
GiveUp(r) ==
    /\ phase[r] = "waiting"
    /\ Cancelled(r)
    /\ UndoAdmit
    /\ phase' = [phase EXCEPT ![r] = "out"]

\* The one release() an admitted request owes.
Finish(r) ==
    /\ phase[r] = "holding"
    /\ Release
    /\ phase' = [phase EXCEPT ![r] = "out"]

Next ==
    \E r \in Request :
        \/ AdmitNow(r)
        \/ AdmitWait(r)
        \/ TakeTurn(r)
        \/ Cancel(r)
        \/ GiveUp(r)
        \/ Finish(r)

(***************************************************************************)
(* The event loop runs every task whose future is done, and a holder       *)
(* finishes (SpeechServer says when that is so).  Nothing makes a client   *)
(* come or a task be cancelled.                                            *)
(***************************************************************************)
Fairness ==
    \A r \in Request :
        /\ WF_vars(TakeTurn(r))
        /\ WF_vars(GiveUp(r))
        /\ WF_vars(Finish(r))

Spec == Init /\ [][Next]_vars /\ Fairness

-----------------------------------------------------------------------------
(* Requests by what they owe the queue                                     *)

Admitted == {r \in Request : phase[r] # "out"}
Holders == {r \in Request : phase[r] = "holding"}

\* Who has the slot's one unit: a holder, or a waiter it was promised to.
Owners == Holders \cup {r \in Request : fut[r] \in {"granted", "dropped"}}

-----------------------------------------------------------------------------
(* Safety                                                                  *)

\* No request touches the GPU beside another one, and the unit is neither
\* lost nor doubled: it is in the semaphore or with exactly one request,
\* through every order of releases, wake-ups and cancellations.
SlotConserved ==
    /\ value = 1 => Owners = {}
    /\ value = 0 => \E r \in Request : Owners = {r}

\* No lost wake-up: nobody waits for a slot that is free.
NoIdleSlot ==
    value = 1 => \A r \in Request : fut[r] # "pending"

\* _depth is the number of admitted requests, so the cap is exact: no spot
\* leaks when a waiter is cancelled, and none is given back twice.
DepthIsExact ==
    depth = Cardinality(Admitted)

-----------------------------------------------------------------------------
(* The line that callers see: the owner, then the waiters in FIFO order.   *)

\* Those in the deque w whose futures are pending, oldest first.
Pending(w, f) ==
    LET upTo[i \in 0..Len(w)] ==
          IF i = 0 THEN <<>>
          ELSE IF f[w[i]] = "pending" THEN Append(upTo[i - 1], w[i]) ELSE upTo[i - 1]
    IN  upTo[Len(w)]

Line ==
    (IF Owners = {} THEN <<>> ELSE <<CHOOSE r \in Owners : TRUE>>) \o Pending(waiters, fut)

Abstract == INSTANCE GpuSlot WITH line <- Line

\* The semaphore and the counter implement the abstract line: at most
\* MAX_QUEUE callers, first come, first served, through every order of
\* wake-ups and cancellations.
ServedInOrder == Abstract!InOrder

\* The line moves up as long as somebody stands in it: no waiter starves.
LineMovesUp == Abstract!MovesUp
=============================================================================
