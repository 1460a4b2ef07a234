--------------------------- MODULE DeadlineWorker ---------------------------
(***************************************************************************)
(* The deadline worker of SafeHttpClient: one daemon thread with a queue   *)
(* of one slot runs the blocking operations of the callers, who wait for   *)
(* the result only until their deadline.  An operation cannot be           *)
(* interrupted: it may finish long after its caller gave up, and the       *)
(* response it opened must then be closed by late_cleanup, exactly once.   *)
(*                                                                         *)
(* A critical section of _lock that can block (put with a timeout) is      *)
(* split; one of state_lock, or of the Future's own condition, is a step.  *)
(* The clock is abstracted to one bit per call: its deadline has passed.   *)
(***************************************************************************)
EXTENDS Naturals, Sequences

CONSTANTS
    Calls,      \* executions of _call_with_deadline on one client
    Opening,    \* the calls that pass a late_cleanup (they open a response)
    Closers,    \* threads that close the client
    None,       \* nobody holds _lock, or the worker has no task
    Stop        \* _WORKER_STOP

ASSUME CallsAssumption ==
    /\ Opening \subseteq Calls
    /\ None \notin Calls \cup Closers
    /\ Stop \notin Calls
    /\ Calls \cap Closers = {}

VARIABLES
    lock,       \* holder of _BoundedDeadlineWorker._lock
    closed,     \* _closed
    queue,      \* _queue, maxsize 1
    worker,     \* control state of the daemon thread
    task,       \* the task it took from the queue
    pc,         \* control state of each call and each closer
    late,       \* calls whose deadline has passed
    future,     \* state of the Future of each call
    outcome,    \* what the operation of each call produced
    callback,   \* calls whose done callback is registered with the Future
    expired, claimed, cleanup,  \* calls whose local flag expired,
                \* result_claimed, cleanup_started is set
    releases    \* how often late_cleanup ran for each call

flags == <<expired, claimed, cleanup>>
vars == <<lock, closed, queue, worker, task, pc, late, future, outcome, callback,
          flags, releases>>

Done(c) == future[c] \in {"CANCELLED", "FINISHED"}
Ended == {"returned", "raised"}
Goto(t, label) == pc' = [pc EXCEPT ![t] = label]

Init ==
    /\ lock = None
    /\ closed = FALSE
    /\ queue = <<>>
    /\ worker = "absent"
    /\ task = None
    /\ pc = [t \in Calls \cup Closers |-> "idle"]
    /\ late = {}
    /\ future = [c \in Calls |-> "PENDING"]
    /\ outcome = [c \in Calls |-> "none"]
    /\ callback = {}
    /\ expired = {} /\ claimed = {} /\ cleanup = {}
    /\ releases = [c \in Calls |-> 0]

\* Time passes for a call in progress; only the moments at which the code looks
\* at the clock or waits on it are distinguished.
Expire(c) ==
    /\ pc[c] \in {"idle", "putting", "waiting", "checking"}
    /\ c \notin late
    /\ late' = late \cup {c}
    /\ UNCHANGED <<lock, closed, queue, worker, task, pc, future, outcome, callback,
                   flags, releases>>

-----------------------------------------------------------------------------
(* submit *)

\* remaining <= 0 raises before anything is submitted.
Start(c) ==
    /\ pc[c] = "idle"
    /\ Goto(c, IF c \in late THEN "raised" ELSE "locking")
    /\ UNCHANGED <<lock, closed, queue, worker, task, late, future, outcome, callback,
                   flags, releases>>

\* Under _lock: a closed worker refuses, the first call starts the thread.
Acquire(c) ==
    /\ pc[c] = "locking"
    /\ lock = None
    /\ \/ /\ closed
          /\ Goto(c, "raised")
          /\ UNCHANGED <<lock, worker>>
       \/ /\ ~closed
          /\ lock' = c
          /\ worker' = IF worker = "absent" THEN "waiting" ELSE worker
          /\ Goto(c, "putting")
    /\ UNCHANGED <<closed, queue, task, late, future, outcome, callback, flags, releases>>

\* _queue.put succeeds as soon as the slot is free, and _lock is released.
Put(c) ==
    /\ pc[c] = "putting"
    /\ queue = <<>>
    /\ queue' = Append(queue, c)
    /\ lock' = None
    /\ Goto(c, "submitted")
    /\ UNCHANGED <<closed, worker, task, late, future, outcome, callback, flags, releases>>

\* queue.Full after the remaining time becomes HttpTimeoutError.
PutTimeout(c) ==
    /\ pc[c] = "putting"
    /\ queue # <<>>
    /\ c \in late
    /\ lock' = None
    /\ Goto(c, "raised")
    /\ UNCHANGED <<closed, queue, worker, task, late, future, outcome, callback,
                   flags, releases>>

-----------------------------------------------------------------------------
(* _call_with_deadline after submit *)

Releasable_Unguarded(c) ==
    /\ c \in Opening
    /\ c \in expired
    /\ future[c] = "FINISHED"

\* The test of cleanup_expired_result that does not return early.
Releasable(c) ==
    /\ c \in Opening
    /\ c \in expired
    /\ c \notin claimed
    /\ c \notin cleanup
    /\ future[c] = "FINISHED"

\* cleanup_expired_result, by whichever thread calls it.
CleanupExpiredResult(c) ==
    IF Releasable(c)
    THEN /\ cleanup' = cleanup \cup {c}
         /\ releases' = [releases EXCEPT ![c] = @ + (IF outcome[c] = "result" THEN 1 ELSE 0)]
    ELSE UNCHANGED <<cleanup, releases>>

\* add_done_callback; on a future that is done it calls back at once, which
\* does nothing since the call has not expired yet.
AddDoneCallback(c) ==
    /\ pc[c] = "submitted"
    /\ callback' = IF Done(c) THEN callback ELSE callback \cup {c}
    /\ Goto(c, "waiting")
    /\ UNCHANGED <<lock, closed, queue, worker, task, late, future, outcome, flags, releases>>

\* future.result: the value, the exception of the operation, or CancelledError.
ResultReady(c) ==
    /\ pc[c] = "waiting"
    /\ Done(c)
    /\ Goto(c, IF outcome[c] = "result" THEN "checking" ELSE "raised")
    /\ UNCHANGED <<lock, closed, queue, worker, task, late, future, outcome, callback,
                   flags, releases>>

ResultTimeout_OnlyQueued(c) ==
    /\ pc[c] = "waiting"
    /\ c \in late
    /\ future[c] = "PENDING"
    /\ Goto(c, "expiring")
    /\ UNCHANGED <<lock, closed, queue, worker, task, late, future, outcome, callback,
                   flags, releases>>

\* future.result raises FutureTimeoutError: the future was not done just now.
ResultTimeout(c) ==
    /\ pc[c] = "waiting"
    /\ c \in late
    /\ ~Done(c)
    /\ Goto(c, "expiring")
    /\ UNCHANGED <<lock, closed, queue, worker, task, late, future, outcome, callback,
                   flags, releases>>

\* Under state_lock: the result is the caller's, or it came too late.
Claim(c) ==
    /\ pc[c] = "checking"
    /\ \/ /\ c \in late
          /\ expired' = expired \cup {c}
          /\ Goto(c, "cleaning")
          /\ UNCHANGED claimed
       \/ /\ c \notin late
          /\ claimed' = claimed \cup {c}
          /\ Goto(c, "returned")
          /\ UNCHANGED expired
    /\ UNCHANGED <<lock, closed, queue, worker, task, late, future, outcome, callback,
                   cleanup, releases>>

SetExpired(c) ==
    /\ pc[c] = "expiring"
    /\ expired' = expired \cup {c}
    /\ Goto(c, "cancelling")
    /\ UNCHANGED <<lock, closed, queue, worker, task, late, future, outcome, callback,
                   claimed, cleanup, releases>>

\* future.cancel succeeds only before the worker has begun the operation; the
\* callback it triggers finds a cancelled future and does nothing.
Cancelled(c) == [future EXCEPT ![c] = IF @ = "PENDING" THEN "CANCELLED" ELSE @]

Cancel(c) ==
    /\ pc[c] = "cancelling"
    /\ future' = Cancelled(c)
    /\ Goto(c, "cleaning")
    /\ UNCHANGED <<lock, closed, queue, worker, task, late, outcome, callback, flags, releases>>

Clean_Skipped(c) ==
    /\ pc[c] = "cleaning"
    /\ Goto(c, "raised")
    /\ UNCHANGED <<lock, closed, queue, worker, task, late, future, outcome, callback,
                   flags, releases>>

\* The caller's own cleanup, then HttpTimeoutError.
Clean(c) ==
    /\ pc[c] = "cleaning"
    /\ CleanupExpiredResult(c)
    /\ Goto(c, "raised")
    /\ UNCHANGED <<lock, closed, queue, worker, task, late, future, outcome, callback,
                   expired, claimed>>

-----------------------------------------------------------------------------
(* The daemon thread *)

WorkerGet ==
    /\ worker = "waiting"
    /\ queue # <<>>
    /\ queue' = Tail(queue)
    /\ IF Head(queue) = Stop
       THEN worker' = "stopped" /\ UNCHANGED task
       ELSE worker' = "dequeued" /\ task' = Head(queue)
    /\ UNCHANGED <<lock, closed, pc, late, future, outcome, callback, flags, releases>>

WorkerBegin_Always ==
    /\ worker = "dequeued"
    /\ future' = [future EXCEPT ![task] = "RUNNING"]
    /\ worker' = "running"
    /\ UNCHANGED <<lock, closed, queue, task, pc, late, outcome, callback, flags, releases>>

\* set_running_or_notify_cancel: a cancelled task is skipped.
WorkerBegin ==
    /\ worker = "dequeued"
    /\ \/ /\ future[task] = "PENDING"
          /\ future' = [future EXCEPT ![task] = "RUNNING"]
          /\ worker' = "running"
          /\ UNCHANGED task
       \/ /\ future[task] = "CANCELLED"
          /\ worker' = "waiting"
          /\ task' = None
          /\ UNCHANGED future
    /\ UNCHANGED <<lock, closed, queue, pc, late, outcome, callback, flags, releases>>

\* The operation returns or raises: set_result / set_exception.
WorkerFinish ==
    /\ worker = "running"
    /\ \E o \in {"result", "error"} : outcome' = [outcome EXCEPT ![task] = o]
    /\ future' = [future EXCEPT ![task] = "FINISHED"]
    /\ worker' = "notifying"
    /\ UNCHANGED <<lock, closed, queue, task, pc, late, callback, flags, releases>>

\* The callbacks registered before the future was done, then the next task.
WorkerCallback ==
    /\ worker = "notifying"
    /\ IF task \in callback THEN CleanupExpiredResult(task) ELSE UNCHANGED <<cleanup, releases>>
    /\ worker' = "waiting"
    /\ task' = None
    /\ UNCHANGED <<lock, closed, queue, pc, late, future, outcome, callback, expired, claimed>>

-----------------------------------------------------------------------------
(* close *)

CloseAcquire(t) ==
    /\ pc[t] = "idle"
    /\ lock = None
    /\ \/ /\ closed
          /\ Goto(t, "returned")
          /\ UNCHANGED <<lock, closed>>
       \/ /\ ~closed
          /\ closed' = TRUE
          /\ lock' = t
          /\ Goto(t, "draining")
    /\ UNCHANGED <<queue, worker, task, late, future, outcome, callback, flags, releases>>

\* Drain the queue, cancelling; get_nowait may race with the worker's get.
CloseDrain(t) ==
    /\ pc[t] = "draining"
    /\ queue # <<>>
    /\ queue' = Tail(queue)
    /\ future' = Cancelled(Head(queue))
    /\ UNCHANGED <<lock, closed, worker, task, pc, late, outcome, callback, flags, releases>>

CloseStop_NoStop(t) ==
    /\ pc[t] = "draining"
    /\ queue = <<>>
    /\ lock' = None
    /\ Goto(t, "returned")
    /\ UNCHANGED <<closed, queue, worker, task, late, future, outcome, callback, flags, releases>>

\* No call can put while the closer holds _lock, so put_nowait never finds the
\* queue full.
CloseStop(t) ==
    /\ pc[t] = "draining"
    /\ queue = <<>>
    /\ queue' = Append(queue, Stop)
    /\ lock' = None
    /\ Goto(t, "returned")
    /\ UNCHANGED <<closed, worker, task, late, future, outcome, callback, flags, releases>>

-----------------------------------------------------------------------------

CallStep(c) ==
    \/ Start(c) \/ Acquire(c) \/ Put(c) \/ PutTimeout(c) \/ AddDoneCallback(c)
    \/ ResultReady(c) \/ ResultTimeout(c) \/ Claim(c) \/ SetExpired(c) \/ Cancel(c) \/ Clean(c)

CloseStep(t) == CloseAcquire(t) \/ CloseDrain(t) \/ CloseStop(t)

WorkerStep == WorkerGet \/ WorkerBegin \/ WorkerCallback

Next ==
    \/ \E c \in Calls : CallStep(c) \/ Expire(c)
    \/ \E t \in Closers : CloseStep(t)
    \/ WorkerStep
    \/ WorkerFinish

\* Runnable threads run and time passes.  Nothing is assumed of the operation:
\* a name resolution or a read may block for ever.  A call may never be made,
\* and the client may never be closed.
Fairness ==
    /\ \A c \in Calls : WF_vars(CallStep(c) /\ pc[c] # "idle") /\ WF_vars(Expire(c))
    /\ \A t \in Closers : WF_vars(CloseStep(t) /\ pc[t] # "idle")
    /\ WF_vars(WorkerStep)

Spec == Init /\ [][Next]_vars /\ Fairness

-----------------------------------------------------------------------------
(* Properties *)

\* The types of the worker's state; the queue never holds more than its slot.
TypeOK ==
    /\ lock \in Calls \cup Closers \cup {None}
    /\ closed \in BOOLEAN
    /\ queue \in Seq(Calls \cup {Stop}) /\ Len(queue) <= 1
    /\ worker \in {"absent", "waiting", "dequeued", "running", "notifying", "stopped"}
    /\ task \in Calls \cup {None}
    /\ pc \in [Calls \cup Closers ->
                 {"idle", "locking", "putting", "submitted", "waiting", "checking", "expiring",
                  "cancelling", "cleaning", "draining", "returned", "raised"}]
    /\ late \subseteq Calls
    /\ future \in [Calls -> {"PENDING", "RUNNING", "CANCELLED", "FINISHED"}]
    /\ outcome \in [Calls -> {"none", "result", "error"}]
    /\ callback \subseteq Calls
    /\ expired \subseteq Calls /\ claimed \subseteq Calls /\ cleanup \subseteq Calls
    /\ releases \in [Calls -> Nat]

\* A response has one owner: late_cleanup runs at most once for it, by the
\* caller or by the worker, and never after the caller was given the response.
OneOwner ==
    \A c \in Calls :
        /\ releases[c] <= 1
        /\ releases[c] = 1 => c \notin claimed /\ pc[c] # "returned"
        /\ pc[c] = "returned" => c \in claimed

\* A call that gave up before its turn is never executed: the operation of a
\* cancelled future does not run.
CancelledNeverRuns ==
    [][\A c \in Calls : future[c] = "CANCELLED" => future'[c] = "CANCELLED" /\ outcome'[c] = "none"]_vars

\* No response leaks: one that an operation opened, however late, ends up with
\* the caller or is released.
NoLeak ==
    \A c \in Opening :
        outcome[c] = "result" ~> (c \in claimed \/ releases[c] = 1)

\* Every call ends, whatever the operations do: an operation that hangs in the
\* worker, a full queue or a lock held by a blocked put only delay it.
EveryCallEnds ==
    \A c \in Calls : pc[c] = "locking" ~> pc[c] \in Ended

\* Closing ends the daemon thread as soon as the operations it has begun end.
WorkerStops ==
    WF_vars(WorkerFinish) => (closed ~> worker \in {"absent", "stopped"})
=============================================================================
