----------------------------- MODULE ExecutorStd -----------------------------
(***************************************************************************)
(* AsyncQueue over ExecutorStd: a thread takes entries off a Schedule, a   *)
(* deque sorted by due time behind a mutex and a condition variable.  Any  *)
(* thread enqueues; the operation that runs on the queue also schedules    *)
(* and cancels timers, as the streams, the backoff and the online state    *)
(* tracker do.  What happens under the mutex is one action.                *)
(***************************************************************************)
EXTENDS Integers, Sequences, SequencesExt

CONSTANTS
    Tasks,      \* immediate operations; each is enqueued once
    Timers,     \* TimerId
    None,       \* no operation, no tag, no handle
    Delays,     \* the delays that are asked for
    MaxIds      \* bound: operations that get an id

ASSUME ExecutorStdAssumption ==
    /\ None \notin Tasks \cup Timers \cup Nat
    /\ Tasks \cap Timers = {}
    /\ Delays \subseteq Nat
    /\ MaxIds \in Nat

VARIABLES
    scheduled,      \* scheduled_: Seq([op, id, left]); left = -1 stands for Immediate()
    currentId,      \* current_id_
    handle,         \* [Timers -> the id in the DelayedOperation the owner holds, or None]
    worker,         \* where the thread is: loop, wait, waitUntil, run, exited
    until,          \* the time until the due time PopBlocking waits for
    signalled,      \* cv_ was notified while the thread waited
    running,        \* the operation that is run
    inProgress,     \* is_operation_in_progress_
    shuttingDown,   \* shutting_down_
    unblocked       \* the destructor has called UnblockQueue

vars == <<scheduled, currentId, handle, worker, until, signalled, running, inProgress,
          shuttingDown, unblocked>>

Immediate == -1
NoOp == None        \* the operation of UnblockQueue

Entry(op, id, left) == [op |-> op, id |-> id, left |-> left]

IsWaiting == worker \in {"wait", "waitUntil"}

\* Mutant: a new entry goes before the entries of the same due time.
LowerBound(s, left) == CHOOSE i \in 1 .. Len(s) + 1 :
    /\ \A j \in 1 .. i - 1 : s[j].left < left
    /\ \A j \in i .. Len(s) : s[j].left >= left
\* std::upper_bound by due time.
InsertionPoint(s, left) == CHOOSE i \in 1 .. Len(s) + 1 :
    /\ \A j \in 1 .. i - 1 : s[j].left <= left
    /\ \A j \in i .. Len(s) : s[j].left > left

InsertPreservingOrder(s, e) == InsertAt(s, InsertionPoint(s, e.left), e)

\* Mutant: the change of the schedule is not notified.
Unnotified == signalled
\* cv_.notify_one(): nothing is remembered when nobody waits.
Notified == signalled \/ IsWaiting

\* NextId, where the wrap around of the unsigned counter is out of the bound.
NextId == currentId + 1

\* RemoveIf with the predicate of TryCancel: the first entry with the id.
TryCancel(s, id) ==
    IF \E i \in DOMAIN s : s[i].id = id
    THEN RemoveAt(s, CHOOSE i \in DOMAIN s : s[i].id = id /\ \A j \in 1 .. i - 1 : s[j].id # id)
    ELSE s

IsScheduled(s, t) == \E i \in DOMAIN s : s[i].op = t

-----------------------------------------------------------------------------

Init ==
    /\ scheduled = <<>>
    /\ currentId = 0
    /\ handle = [t \in Timers |-> None]
    /\ worker = "loop"
    /\ until = 0
    /\ signalled = FALSE
    /\ running = None
    /\ inProgress = FALSE
    /\ shuttingDown = FALSE
    /\ unblocked = FALSE

\* Enqueue from another thread, EnqueueRelaxed from any: Execute puts the wrapped
\* operation on the schedule.
Enqueue(x) ==
    /\ ~shuttingDown
    /\ currentId < MaxIds
    /\ ~IsScheduled(scheduled, x) /\ running # x
    /\ scheduled' = InsertPreservingOrder(scheduled, Entry(x, currentId, Immediate))
    /\ currentId' = NextId
    /\ signalled' = Notified
    /\ UNCHANGED <<handle, worker, until, running, inProgress, shuttingDown, unblocked>>

\* The running operation calls EnqueueAfterDelay for a timer, with or without a
\* Cancel of the owner's handle before (BackoffAndRun has it, the owners of the
\* other timers ask for an empty handle).
EnqueueAfterDelay(t, delay) ==
    /\ inProgress
    /\ currentId < MaxIds
    /\ LET rest == IF handle[t] = None THEN scheduled ELSE TryCancel(scheduled, handle[t]) IN
        scheduled' = InsertPreservingOrder(rest, Entry(t, currentId, delay))
    /\ handle' = [handle EXCEPT ![t] = currentId]
    /\ currentId' = NextId
    /\ signalled' = Notified
    /\ UNCHANGED <<worker, until, running, inProgress, shuttingDown, unblocked>>

\* DelayedOperation::Cancel by the running operation; the handle may be that of an
\* operation that has run.
Cancel(t) ==
    /\ inProgress
    /\ handle[t] # None
    /\ scheduled' = TryCancel(scheduled, handle[t])
    /\ handle' = [handle EXCEPT ![t] = None]
    /\ signalled' = (IF scheduled' = scheduled THEN signalled ELSE Notified)
    /\ UNCHANGED <<currentId, worker, until, running, inProgress, shuttingDown, unblocked>>

\* The operation of a timer forgets its own handle, as the online state tracker's does.
ForgetHandle(t) ==
    /\ inProgress
    /\ running = t
    /\ handle[t] # None
    /\ ~\E i \in DOMAIN scheduled : scheduled[i].id = handle[t]
    /\ handle' = [handle EXCEPT ![t] = None]
    /\ UNCHANGED <<scheduled, currentId, worker, until, signalled, running, inProgress,
                   shuttingDown, unblocked>>

\* ~ExecutorStd sets the flag, and then makes sure that the thread sees it.
BeginShutdown ==
    /\ ~shuttingDown
    /\ shuttingDown' = TRUE
    /\ UNCHANGED <<scheduled, currentId, handle, worker, until, signalled, running, inProgress,
                   unblocked>>

UnblockQueue ==
    /\ shuttingDown /\ ~unblocked
    /\ unblocked' = TRUE
    /\ scheduled' = InsertPreservingOrder(scheduled, Entry(NoOp, 0, Immediate))
    /\ signalled' = Notified
    /\ UNCHANGED <<currentId, handle, worker, until, running, inProgress, shuttingDown>>

-----------------------------------------------------------------------------
(* The thread of the executor.                                             *)

\* PopBlocking with the mutex held: it takes the first entry if that is due, and
\* waits for an entry or for the first one's time otherwise.
PopOrWait ==
    /\ signalled' = FALSE
    /\ CASE scheduled = <<>> ->
                worker' = "wait" /\ until' = 0 /\ UNCHANGED <<scheduled, running>>
         [] scheduled # <<>> /\ Head(scheduled).left > 0 ->
                worker' = "waitUntil" /\ until' = Head(scheduled).left
                /\ UNCHANGED <<scheduled, running>>
         [] scheduled # <<>> /\ Head(scheduled).left <= 0 ->
                worker' = "run" /\ until' = 0
                /\ running' = Head(scheduled).op /\ scheduled' = Tail(scheduled)

PollingThread ==
    /\ worker = "loop"
    /\ IF shuttingDown
       THEN worker' = "exited" /\ UNCHANGED <<scheduled, until, signalled, running>>
       ELSE PopOrWait
    /\ UNCHANGED <<currentId, handle, inProgress, shuttingDown, unblocked>>

\* cv_.wait returns when it is notified and its predicate holds.
WakeUp ==
    /\ worker = "wait"
    /\ signalled
    /\ PopOrWait
    /\ UNCHANGED <<currentId, handle, inProgress, shuttingDown, unblocked>>

\* cv_.wait_until returns at its time, or when it is notified and its predicate holds.
FrontHasChanged == scheduled = <<>> \/ Head(scheduled).left # until

WakeUpInTime ==
    /\ worker = "waitUntil"
    /\ until = 0 \/ signalled
    /\ IF until = 0 \/ FrontHasChanged THEN PopOrWait
       ELSE signalled' = FALSE /\ UNCHANGED <<scheduled, worker, until, running>>
    /\ UNCHANGED <<currentId, handle, inProgress, shuttingDown, unblocked>>

\* The wrapped operation: AsyncQueue::ExecuteBlocking.
BeginOperation ==
    /\ worker = "run"
    /\ ~inProgress
    /\ running # NoOp
    /\ inProgress' = TRUE
    /\ UNCHANGED <<scheduled, currentId, handle, worker, until, signalled, running, shuttingDown,
                   unblocked>>

EndOperation ==
    /\ worker = "run"
    /\ inProgress \/ running = NoOp
    /\ inProgress' = FALSE
    /\ running' = None
    /\ worker' = "loop"
    /\ UNCHANGED <<scheduled, currentId, handle, until, signalled, shuttingDown, unblocked>>

\* Time passes.
Earlier(left) == IF left > 0 THEN left - 1 ELSE left

Tick ==
    /\ \E i \in DOMAIN scheduled : scheduled[i].left > 0
    /\ scheduled' = [i \in DOMAIN scheduled |-> [scheduled[i] EXCEPT !.left = Earlier(@)]]
    /\ until' = Earlier(until)
    /\ UNCHANGED <<currentId, handle, worker, signalled, running, inProgress, shuttingDown,
                   unblocked>>

Worker == PollingThread \/ WakeUp \/ WakeUpInTime \/ BeginOperation \/ EndOperation

Next ==
    \/ \E x \in Tasks : Enqueue(x)
    \/ \E t \in Timers : Cancel(t) \/ ForgetHandle(t) \/ \E delay \in Delays : EnqueueAfterDelay(t, delay)
    \/ BeginShutdown \/ UnblockQueue
    \/ Worker
    \/ Tick

Spec == Init /\ [][Next]_vars

\* The thread runs, operations end, time passes, and the destructor goes on.
FairSpec == Spec /\ WF_vars(Worker) /\ WF_vars(EndOperation) /\ WF_vars(Tick) /\ WF_vars(UnblockQueue)

-----------------------------------------------------------------------------
(* Properties.                                                             *)

\* The schedule is sorted: the tasks are in front, the no-op of UnblockQueue follows
\* them, and the delayed operations come last.
CountTasks(s) == CHOOSE n \in 0 .. Len(s) :
    \A i \in 1 .. Len(s) : i <= n <=> s[i].left = Immediate /\ s[i].op # NoOp
CountImmediate(s) == CHOOSE n \in 0 .. Len(s) :
    \A i \in 1 .. Len(s) : i <= n <=> s[i].left = Immediate

TasksOf(s) == [i \in 1 .. CountTasks(s) |-> s[i].op]
DelayedOf(s) == [i \in 1 .. Len(s) - CountImmediate(s) |->
    [timer |-> s[CountImmediate(s) + i].op, left |-> s[CountImmediate(s) + i].left]]

Promise == INSTANCE Executor WITH
    InOrder <- TRUE, immediate <- TasksOf(scheduled), delayed <- DelayedOf(scheduled)

\* The thread, the deque and the condition variable together keep the promises of
\* executor.h: FIFO order, no operation early, twice, or lost, and no effect of a
\* handle on any operation but its own; and the HARD_ASSERT of EnqueueAfterDelay holds,
\* no timer is on the schedule twice.
ImplementsExecutor == Promise!Spec

\* A thread that sleeps wakes up for everything that is put on the schedule: what is
\* enqueued, or due, is run or cancelled, until the executor is destroyed; and the join
\* of the destructor returns, wherever the thread was.
NoWakeUpIsLost ==
    /\ \A op \in Tasks \cup Timers :
        (\E i \in DOMAIN scheduled : scheduled[i].op = op /\ scheduled[i].left <= 0)
            ~> shuttingDown \/ ~IsScheduled(scheduled, op) \/ running = op
    /\ shuttingDown ~> worker = "exited"
=============================================================================
