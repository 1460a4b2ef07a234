------------------------ MODULE DeadlineWorkerProofs ------------------------
(***************************************************************************)
(* OneOwner for any number of calls and closers.  It is not inductive by   *)
(* itself: what excludes two owners is that expired and result_claimed are *)
(* set at different labels of the caller and never both, and that          *)
(* cleanup_started is only set once expired is.  CancelledNeverRuns rests  *)
(* on the one thread: what it runs has a future in the state RUNNING,      *)
(* which cancel does not touch.                                            *)
(***************************************************************************)
EXTENDS DeadlineWorker, TLAPS

\* How the three flags and the release counter of one call hang together.
Ownership(c) ==
    /\ c \in claimed <=> pc[c] = "returned"
    /\ c \in expired => pc[c] \in {"cancelling", "cleaning", "raised"}
    /\ c \in cleanup => c \in expired
    /\ releases[c] <= 1
    /\ releases[c] = 1 => c \in cleanup

Inv == TypeOK /\ \A c \in Calls : Ownership(c)

\* The initial state has the types of TypeOK.
LEMMA InitType == Init => TypeOK
<1> SUFFICES ASSUME Init PROVE TypeOK
    OBVIOUS
<1>1. queue \in Seq(Calls \cup {Stop}) /\ Len(queue) <= 1
    BY DEF Init
<1>2. /\ pc \in [Calls \cup Closers ->
                 {"idle", "locking", "putting", "submitted", "waiting", "checking", "expiring",
                  "cancelling", "cleaning", "draining", "returned", "raised"}]
      /\ future \in [Calls -> {"PENDING", "RUNNING", "CANCELLED", "FINISHED"}]
      /\ outcome \in [Calls -> {"none", "result", "error"}]
      /\ releases \in [Calls -> Nat]
    BY DEF Init
<1> QED
    BY <1>1, <1>2 DEF Init, TypeOK

\* Every step of the client keeps the types, and the queue within its one slot.
LEMMA NextType == TypeOK /\ [Next]_vars => TypeOK'
<1> SUFFICES ASSUME TypeOK, [Next]_vars PROVE TypeOK'
    OBVIOUS
<1> USE CallsAssumption
<1>1. ASSUME NEW c \in Calls, Expire(c) \/ Start(c) \/ Acquire(c) \/ AddDoneCallback(c)
      PROVE TypeOK'
    BY <1>1 DEF TypeOK, Expire, Start, Acquire, AddDoneCallback, Goto, flags
<1>2. ASSUME NEW c \in Calls, Put(c) \/ PutTimeout(c)
      PROVE TypeOK'
    BY <1>2 DEF TypeOK, Put, PutTimeout, Goto, flags
<1>3. ASSUME NEW c \in Calls, ResultReady(c) \/ ResultTimeout(c) \/ Claim(c) \/ SetExpired(c)
                              \/ Cancel(c)
      PROVE TypeOK'
    BY <1>3 DEF TypeOK, ResultReady, ResultTimeout, Claim, SetExpired, Cancel, Cancelled, Goto,
                flags
<1>4. ASSUME NEW c \in Calls, Clean(c)
      PROVE TypeOK'
    BY <1>4 DEF TypeOK, Clean, CleanupExpiredResult, Goto, flags
<1>5. ASSUME NEW t \in Closers, CloseStep(t)
      PROVE TypeOK'
  <2>1. CASE CloseAcquire(t)
    <3>1. /\ closed' \in BOOLEAN
          /\ lock' \in Calls \cup Closers \cup {None}
        BY <2>1 DEF TypeOK, CloseAcquire
    <3> QED
        BY <2>1, <3>1 DEF TypeOK, CloseAcquire, Goto, flags
  <2>2. CASE CloseDrain(t)
    <3>1. Tail(queue) \in Seq(Calls \cup {Stop}) /\ Len(Tail(queue)) <= 1
        BY <2>2 DEF CloseDrain, TypeOK
    <3>2. future' \in [Calls -> {"PENDING", "RUNNING", "CANCELLED", "FINISHED"}]
        BY <2>2 DEF CloseDrain, TypeOK, Cancelled
    <3> QED
        BY <2>2, <3>1, <3>2 DEF TypeOK, CloseDrain, flags
  <2>3. CASE CloseStop(t)
      BY <2>3 DEF TypeOK, CloseStop, Goto, flags
  <2> QED
      BY <1>5, <2>1, <2>2, <2>3 DEF CloseStep
<1>6. CASE WorkerGet \/ WorkerBegin \/ WorkerFinish
  <2>1. CASE WorkerGet
    <3>1. /\ Tail(queue) \in Seq(Calls \cup {Stop}) /\ Len(Tail(queue)) <= 1
          /\ Head(queue) # Stop => Head(queue) \in Calls
        BY <2>1 DEF WorkerGet, TypeOK
    <3> QED
        BY <2>1, <3>1 DEF TypeOK, WorkerGet, flags
  <2>2. CASE WorkerBegin \/ WorkerFinish
      BY <2>2 DEF TypeOK, WorkerBegin, WorkerFinish, flags
  <2> QED
      BY <1>6, <2>1, <2>2
<1>7. CASE WorkerCallback
    BY <1>7 DEF TypeOK, WorkerCallback, CleanupExpiredResult, flags
<1>8. CASE UNCHANGED vars
    BY <1>8 DEF TypeOK, vars, flags
<1> QED
    BY <1>1, <1>2, <1>3, <1>4, <1>5, <1>6, <1>7, <1>8 DEF Next, CallStep, WorkerStep

\* cleanup_expired_result, whoever runs it, keeps the ownership of every call.
LEMMA CleanupKeepsOwnership ==
    ASSUME TypeOK, NEW c \in Calls, Ownership(c), NEW d \in Calls,
           CleanupExpiredResult(d), UNCHANGED <<claimed, expired>>,
           pc'[c] = pc[c] \/ (pc[c] = "cleaning" /\ pc'[c] = "raised")
    PROVE  Ownership(c)'
BY DEF TypeOK, Ownership, CleanupExpiredResult, Releasable

\* Every step of the client keeps the ownership of every call.
LEMMA NextOwnership == Inv /\ [Next]_vars => (\A c \in Calls : Ownership(c))'
<1> SUFFICES ASSUME Inv, [Next]_vars, NEW c \in Calls PROVE Ownership(c)'
    OBVIOUS
<1>t. TypeOK /\ Ownership(c)
    BY DEF Inv
<1>1. ASSUME NEW d \in Calls, Expire(d) \/ Start(d) \/ Acquire(d) \/ AddDoneCallback(d)
                              \/ Put(d) \/ PutTimeout(d)
      PROVE Ownership(c)'
    BY <1>1, <1>t DEF TypeOK, Ownership, Expire, Start, Acquire, AddDoneCallback, Put, PutTimeout,
                      Goto, flags
<1>2. ASSUME NEW d \in Calls, ResultReady(d) \/ ResultTimeout(d) \/ Claim(d) \/ SetExpired(d)
                              \/ Cancel(d)
      PROVE Ownership(c)'
    BY <1>2, <1>t DEF TypeOK, Ownership, ResultReady, ResultTimeout, Claim, SetExpired, Cancel,
                      Goto, flags
<1>3. ASSUME NEW d \in Calls, Clean(d)
      PROVE Ownership(c)'
  <2>1. pc'[c] = pc[c] \/ (pc[c] = "cleaning" /\ pc'[c] = "raised")
      BY <1>3, <1>t DEF TypeOK, Clean, Goto
  <2>2. CleanupExpiredResult(d) /\ UNCHANGED <<claimed, expired>>
      BY <1>3 DEF Clean
  <2> QED
      BY <2>1, <2>2, <1>t, CleanupKeepsOwnership
<1>4. ASSUME NEW t \in Closers, CloseStep(t)
      PROVE Ownership(c)'
  <2>1. t # c
      BY CallsAssumption
  <2> QED
      BY <1>4, <2>1, <1>t DEF TypeOK, Ownership, CloseStep, CloseAcquire, CloseDrain, CloseStop,
                              Goto, flags
<1>5. CASE WorkerGet \/ WorkerBegin \/ WorkerFinish
    BY <1>5, <1>t DEF Ownership, WorkerGet, WorkerBegin, WorkerFinish, flags
<1>6. CASE WorkerCallback
  <2>1. CASE task \in callback
    <3>1. task \in Calls
        BY <2>1, <1>t DEF TypeOK
    <3>2. CleanupExpiredResult(task) /\ UNCHANGED <<claimed, expired, pc>>
        BY <2>1, <1>6 DEF WorkerCallback
    <3> QED
        BY <3>1, <3>2, <1>t, CleanupKeepsOwnership
  <2>2. CASE task \notin callback
      BY <2>2, <1>6, <1>t DEF Ownership, WorkerCallback
  <2> QED
      BY <2>1, <2>2
<1>7. CASE UNCHANGED vars
    BY <1>7, <1>t DEF Ownership, vars, flags
<1> QED
    BY <1>1, <1>2, <1>3, <1>4, <1>5, <1>6, <1>7 DEF Next, CallStep, WorkerStep

\* The state of _BoundedDeadlineWorker keeps its types, and its queue its one
\* slot, for any number of concurrent callers and closers.
THEOREM WorkerTypes == Spec => []TypeOK
<1>1. Init => TypeOK
    BY InitType
<1>2. TypeOK /\ [Next]_vars => TypeOK'
    BY NextType
<1> QED
    BY <1>1, <1>2, PTL DEF Spec

\* A response opened by a late operation is never both handed to the caller of
\* _call_with_deadline and released, and never released twice.
THEOREM ResponseHasOneOwner == Spec => []OneOwner
<1>1. Init => Inv
    BY InitType DEF Init, Inv, Ownership
<1>2. Inv /\ [Next]_vars => Inv'
    BY NextType, NextOwnership DEF Inv
<1>3. Inv => OneOwner
    BY DEF Inv, Ownership, OneOwner
<1> QED
    BY <1>1, <1>2, <1>3, PTL DEF Spec

\* What the daemon thread knows of the task it has taken: the operation it runs
\* belongs to a future that says so, and only a finished one has an outcome.
Executing ==
    /\ worker \in {"dequeued", "running"} => task \in Calls
    /\ worker = "running" => future[task] = "RUNNING"
    /\ \A c \in Calls : future[c] # "FINISHED" => outcome[c] = "none"

\* Every step keeps what the daemon thread knows: cancelling, by the caller or by
\* close, leaves a running future alone.
LEMMA NextExecuting == TypeOK /\ Executing /\ [Next]_vars => Executing'
<1> SUFFICES ASSUME TypeOK, Executing, [Next]_vars PROVE Executing'
    OBVIOUS
<1>1. ASSUME NEW c \in Calls, CallStep(c) \/ Expire(c), UNCHANGED future PROVE Executing'
    BY <1>1 DEF TypeOK, Executing, CallStep, Expire, Start, Acquire, Put, PutTimeout,
                AddDoneCallback, ResultReady, ResultTimeout, Claim, SetExpired, Cancel, Clean, flags
<1>2. ASSUME NEW c \in Calls, Cancel(c) PROVE Executing'
    BY <1>2 DEF TypeOK, Executing, Cancel, Cancelled, flags
<1>3. ASSUME NEW t \in Closers, CloseStep(t) PROVE Executing'
  <2>1. CASE CloseDrain(t)
    <3>1. PICK h : h = Head(queue)
        OBVIOUS
    <3>2. /\ future' = [future EXCEPT ![h] = IF @ = "PENDING" THEN "CANCELLED" ELSE @]
          /\ UNCHANGED <<worker, task, outcome>>
        BY <2>1, <3>1 DEF CloseDrain, Cancelled
    <3> QED
        BY <3>2 DEF TypeOK, Executing
  <2>2. CASE CloseAcquire(t) \/ CloseStop(t)
      BY <2>2 DEF Executing, CloseAcquire, CloseStop
  <2> QED
      BY <1>3, <2>1, <2>2 DEF CloseStep
<1>4. CASE WorkerGet
  <2>1. Head(queue) \in Calls \cup {Stop}
      BY <1>4 DEF WorkerGet, TypeOK
  <2> QED
      BY <1>4, <2>1 DEF WorkerGet, Executing
<1>5. CASE WorkerBegin
    BY <1>5 DEF WorkerBegin, TypeOK, Executing
<1>6. CASE WorkerFinish
    BY <1>6 DEF WorkerFinish, TypeOK, Executing
<1>7. CASE WorkerCallback
    BY <1>7 DEF WorkerCallback, Executing
<1>8. CASE UNCHANGED vars
    BY <1>8 DEF vars, Executing
<1>9. ASSUME NEW c \in Calls, CallStep(c) \/ Expire(c) PROVE UNCHANGED future \/ Cancel(c)
    BY <1>9 DEF CallStep, Expire, Start, Acquire, Put, PutTimeout, AddDoneCallback,
                ResultReady, ResultTimeout, Claim, SetExpired, Clean
<1> QED
    BY <1>1, <1>2, <1>3, <1>4, <1>5, <1>6, <1>7, <1>8, <1>9 DEF Next, WorkerStep

\* The operation of a call that gave up before its turn never runs: once
\* future.cancel has succeeded, neither a worker that had already dequeued the
\* task nor a client that is being closed revives it.
THEOREM CancelledStaysIdle == Spec => CancelledNeverRuns
<1> DEFINE Kept == \A c \in Calls : future[c] = "CANCELLED" =>
                                       future'[c] = "CANCELLED" /\ outcome'[c] = "none"
<1>1. Init => TypeOK /\ Executing
    BY InitType DEF Init, Executing
<1>2. TypeOK /\ Executing /\ [Next]_vars => (TypeOK /\ Executing)'
    BY NextType, NextExecuting
<1>3. TypeOK /\ Executing /\ [Next]_vars => [Kept]_vars
  <2> SUFFICES ASSUME TypeOK, Executing, [Next]_vars, NEW c \in Calls, future[c] = "CANCELLED"
               PROVE  future'[c] = "CANCELLED"
      BY <1>2 DEF Executing
  <2>1. ASSUME NEW d \in Calls, CallStep(d) \/ Expire(d) PROVE future'[c] = "CANCELLED"
      BY <2>1 DEF TypeOK, CallStep, Expire, Start, Acquire, Put, PutTimeout, AddDoneCallback,
                  ResultReady, ResultTimeout, Claim, SetExpired, Cancel, Cancelled, Clean
  <2>2. ASSUME NEW t \in Closers, CloseStep(t) PROVE future'[c] = "CANCELLED"
      BY <2>2 DEF TypeOK, CloseStep, CloseAcquire, CloseDrain, CloseStop, Cancelled
  <2>3. CASE WorkerStep \/ WorkerFinish
      BY <2>3 DEF TypeOK, Executing, WorkerStep, WorkerGet, WorkerBegin, WorkerFinish,
                  WorkerCallback
  <2>4. CASE UNCHANGED vars
      BY <2>4 DEF vars
  <2> QED
      BY <2>1, <2>2, <2>3, <2>4 DEF Next
<1>4. CancelledNeverRuns <=> [][Kept]_vars
    BY DEF CancelledNeverRuns
<1> QED
    BY <1>1, <1>2, <1>3, <1>4, PTL DEF Spec
=============================================================================
