------------------------------ MODULE GpuQueue ------------------------------
(***************************************************************************)
(* The class _GpuQueue of hosaka/server/app.py: a counter of admitted      *)
(* requests in front of an asyncio.Semaphore(1), the single GPU slot.      *)
(*                                                                         *)
(* The module holds the state of one _GpuQueue and one operator per        *)
(* method; Admission and SpeechServer put callers around it.  Everything   *)
(* runs on one event loop, so a step is what happens between two awaits.   *)
(*                                                                         *)
(* asyncio.Semaphore is a library class, modelled from CPython's own: a    *)
(* value and a deque of futures, one per task suspended in acquire().  A   *)
(* future stays in the deque until its task runs again, whether it was     *)
(* granted or cancelled, and each task removes its own.                    *)
(***************************************************************************)
EXTENDS Naturals, Sequences, FiniteSets

CONSTANTS
    Request,     \* requests (HTTP) and utterances (WebSocket) that may be in flight
    MaxDepth     \* max_depth: config.MAX_QUEUE

ASSUME MaxDepthAssumption == MaxDepth \in Nat

VARIABLES
    value,       \* Semaphore._value: 1 when the slot is free
    waiters,     \* Semaphore._waiters, oldest first
    fut,         \* the future of each task suspended in acquire()
    depth        \* _depth: admitted = waiting + the one currently running

queueVars == <<value, waiters, fut, depth>>

(***************************************************************************)
(* "none": the task is not suspended in acquire(); "pending": waiting;     *)
(* "granted": set_result() was called and the task has yet to run;         *)
(* "cancelled": the task was cancelled while the future was pending;       *)
(* "dropped": the task was cancelled after the future was granted.         *)
(***************************************************************************)
FutState == {"none", "pending", "granted", "cancelled", "dropped"}

QueueTypeOK ==
    /\ value \in {0, 1}
    /\ waiters \in Seq(Request)
    /\ fut \in [Request -> FutState]
    /\ depth \in 0..MaxDepth

QueueInit ==
    /\ value = 1
    /\ waiters = <<>>
    /\ fut = [r \in Request |-> "none"]
    /\ depth = 0

-----------------------------------------------------------------------------
(* asyncio.Semaphore                                                       *)

\* deque.remove(fut): a task has one future in the deque at a time.
Without(w, r) ==
    LET i == CHOOSE i \in DOMAIN w : w[i] = r
    IN  SubSeq(w, 1, i - 1) \o SubSeq(w, i + 1, Len(w))

Locked ==
    \/ value = 0
    \/ \E i \in DOMAIN waiters : fut[waiters[i]] # "cancelled"

IsFirstPending(w, f, i) ==
    /\ i \in DOMAIN w
    /\ f[w[i]] = "pending"
    /\ \A j \in 1..(i - 1) : f[w[j]] # "pending"

\* A fault: the newest waiter is served first.
WakeUpLast(v, w, f) ==
    LET pending == {i \in DOMAIN w : f[w[i]] = "pending"}
    IN  IF v > 0 /\ pending # {}
          THEN /\ value' = v - 1
               /\ fut' = [f EXCEPT ![w[CHOOSE i \in pending : \A j \in pending : j <= i]]
                                   = "granted"]
          ELSE value' = v /\ fut' = f

\* _wake_up_next() when the semaphore would be at v, the deque w and the
\* futures f.  Its callers that loop `while value > 0` find value at most 1.
WakeUpNext(v, w, f) ==
    IF v > 0 /\ \E i \in DOMAIN w : IsFirstPending(w, f, i)
      THEN /\ value' = v - 1
           /\ fut' = [f EXCEPT ![w[CHOOSE i \in DOMAIN w : IsFirstPending(w, f, i)]]
                               = "granted"]
      ELSE value' = v /\ fut' = f

-----------------------------------------------------------------------------
(* The methods of _GpuQueue                                                *)

\* A fault: off by one at the cap.
TryAdmitAtCap ==
    /\ depth <= MaxDepth
    /\ depth' = depth + 1

\* try_admit() returning True; False changes nothing.
TryAdmit ==
    /\ depth < MaxDepth
    /\ depth' = depth + 1

\* acquire() when it returns without suspending.
AcquireNow ==
    /\ ~Locked
    /\ value' = value - 1
    /\ UNCHANGED <<waiters, fut>>

\* acquire() up to its await.
AcquireWait(r) ==
    /\ Locked
    /\ waiters' = Append(waiters, r)
    /\ fut' = [fut EXCEPT ![r] = "pending"]
    /\ UNCHANGED value

\* acquire() from its await to its return, the future having been granted.
Granted(r) ==
    /\ fut[r] = "granted"
    /\ waiters' = Without(waiters, r)
    /\ WakeUpNext(value, waiters', [fut EXCEPT ![r] = "none"])

\* task.cancel() on a task suspended in acquire().
CancelWait(r) ==
    /\ fut[r] \in {"pending", "granted"}
    /\ fut' = [fut EXCEPT ![r] = IF @ = "pending" THEN "cancelled" ELSE "dropped"]
    /\ UNCHANGED <<value, waiters>>

\* A fault: the CancelledError of a granted waiter does not give its unit back.
CancelledKeepsUnit(r) ==
    /\ fut[r] \in {"cancelled", "dropped"}
    /\ waiters' = Without(waiters, r)
    /\ WakeUpNext(value, waiters', [fut EXCEPT ![r] = "none"])

\* acquire() from its await to the CancelledError it raises.
Cancelled(r) ==
    /\ fut[r] \in {"cancelled", "dropped"}
    /\ waiters' = Without(waiters, r)
    /\ WakeUpNext(IF fut[r] = "dropped" THEN value + 1 ELSE value,
                  waiters', [fut EXCEPT ![r] = "none"])

UndoAdmit == depth' = depth - 1

\* A fault: the freed unit is offered to nobody.
ReleaseWithoutWake ==
    /\ value' = value + 1
    /\ depth' = depth - 1
    /\ UNCHANGED <<waiters, fut>>

\* release(): semaphore first, then the counter.
Release ==
    /\ WakeUpNext(value + 1, waiters, fut)
    /\ depth' = depth - 1
    /\ UNCHANGED waiters
=============================================================================
