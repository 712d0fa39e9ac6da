------------------------- MODULE ExecutorLibdispatch -------------------------
(***************************************************************************)
(* AsyncQueue over ExecutorLibdispatch, with the owners of its delayed     *)
(* operations: the ExponentialBackoff of a stream, and timers whose owner  *)
(* lets go of the handle when the operation has run (the idle timer, the   *)
(* online state timer).  A TimeSlot belongs to libdispatch; the executor   *)
(* and the handles know it by its address, and the allocator may give the  *)
(* address of a deleted slot to a new one.                                 *)
(***************************************************************************)
EXTENDS ExponentialBackoff, Sequences, SequencesExt

CONSTANTS
    Tasks,      \* immediate operations
    Backoffs,   \* timers of an ExponentialBackoff
    Others,     \* the other timers
    Delay,      \* the delay of the other timers
    Addresses,  \* where a TimeSlot may be; bound: slots that exist at a time
    None,       \* no operation, no handle
    MaxQueue    \* bound: immediate operations that wait

ASSUME ExecutorLibdispatchAssumption ==
    /\ Backoffs \cap Others = {} /\ Tasks \cap (Backoffs \cup Others) = {}
    /\ None \notin Tasks \cup Backoffs \cup Others \cup Addresses
    /\ Tasks \cap Addresses = {}
    /\ Delay \in Nat /\ MaxQueue \in Nat

Timers == Backoffs \cup Others

VARIABLES
    slots,      \* the TimeSlots that exist: address -> [timer, left, done]
    schedule,   \* schedule_: Seq(Addresses)
    queue,      \* the serial dispatch queue: Seq(Tasks \cup Addresses)
    running,    \* the operation that runs: a task, a timer, or None
    invoked,    \* the address of the slot whose operation runs
    handle,     \* the DelayedOperation of each timer's owner: an address or None
    waiting,    \* timers whose owner has scheduled an operation, neither run nor cancelled
    base,       \* current_base_ of each backoff
    soFar,      \* the time since last_attempt_time_
    gap,        \* the least time that must pass between the last attempt and the next
    destroyed   \* the destructor of the executor has run

vars == <<slots, schedule, queue, running, invoked, handle, waiting, base, soFar, gap,
          destroyed>>

executorVars == <<slots, schedule, queue, running, invoked>>
backoffVars == <<base, soFar, gap>>

\* The longest delay, after which the exact time since an attempt does not matter.
LongestDelay == MaxDelay + MaxDelay \div 2

Without(f, a) == [b \in DOMAIN f \ {a} |-> f[b]]
With(f, a, v) == [b \in DOMAIN f \cup {a} |-> IF b = a THEN v ELSE f[b]]

Init ==
    /\ slots = [a \in {} |-> 0]
    /\ schedule = <<>>
    /\ queue = <<>>
    /\ running = None
    /\ invoked = None
    /\ handle = [t \in Timers |-> None]
    /\ waiting = {}
    /\ base = [b \in Backoffs |-> 0]
    /\ soFar = [b \in Backoffs |-> 0]
    /\ gap = [b \in Backoffs |-> 0]
    /\ destroyed = FALSE

-----------------------------------------------------------------------------
(* The executor.                                                           *)

\* The entry that find_if finds is erased.
Erase(seq, a) == RemoveAt(seq, CHOOSE i \in 1..Len(seq) : seq[i] = a)

\* [slots, schedule] without the entry at an address, which is marked done.
\* Mutant: the slot is taken off the schedule and not marked.
KeepSlot(s, a) ==
    IF Contains(s.schedule, a) THEN [s EXCEPT !.schedule = Erase(@, a)] ELSE s
RemoveFromSchedule(s, a) ==
    IF Contains(s.schedule, a)
    THEN [slots |-> [s.slots EXCEPT ![a].done = TRUE], schedule |-> Erase(s.schedule, a)]
    ELSE s

\* DelayedOperation::Cancel; an empty handle is left alone.
CancelHandle(s, a) == IF a = None THEN s ELSE RemoveFromSchedule(s, a)

\* AsyncQueue::EnqueueAfterDelay and Schedule put a new slot at the address.
NewSlot(s, a, t, delay) ==
    [slots |-> With(s.slots, a, [timer |-> t, left |-> delay, done |-> FALSE]),
     schedule |-> Append(s.schedule, a)]

State == [slots |-> slots, schedule |-> schedule]

Become(s) == slots' = s.slots /\ schedule' = s.schedule

Execute(x) ==
    /\ ~destroyed
    /\ Len(queue) < MaxQueue
    /\ queue' = Append(queue, x)
    /\ UNCHANGED <<slots, schedule, running, invoked, handle, waiting, backoffVars, destroyed>>

\* libdispatch puts a slot on the queue when its time has come, in any order.
SlotIsDue(a) ==
    /\ a \in DOMAIN slots
    /\ slots[a].left = 0
    /\ ~Contains(queue, a) /\ invoked # a
    /\ queue' = Append(queue, a)
    /\ UNCHANGED <<slots, schedule, running, invoked, handle, waiting, backoffVars, destroyed>>

RunTask ==
    /\ running = None
    /\ queue # <<>> /\ Head(queue) \in Tasks
    /\ running' = Head(queue)
    /\ queue' = Tail(queue)
    /\ UNCHANGED <<slots, schedule, invoked, handle, waiting, backoffVars, destroyed>>

\* InvokedByLibdispatch and Execute of a slot that is done: it is deleted.
SkipSlot ==
    /\ running = None
    /\ queue # <<>> /\ Head(queue) \in Addresses
    /\ slots[Head(queue)].done
    /\ slots' = Without(slots, Head(queue))
    /\ queue' = Tail(queue)
    /\ UNCHANGED <<schedule, running, invoked, handle, waiting, backoffVars, destroyed>>

\* ... and of one that is not: its operation starts.  That of a backoff notes the
\* time, that of another timer lets go of the handle.
ForgottenBy(t) == IF t \in Others THEN None ELSE handle[t]

RunSlot ==
    /\ running = None
    /\ queue # <<>> /\ Head(queue) \in Addresses
    /\ LET a == Head(queue)  t == slots[a].timer IN
        /\ ~slots[a].done
        /\ Become(RemoveFromSchedule(State, a))
        /\ running' = t
        /\ invoked' = a
        /\ waiting' = waiting \ {t}
        /\ handle' = [handle EXCEPT ![t] = ForgottenBy(t)]
        /\ soFar' = [b \in Backoffs |-> IF b = t THEN 0 ELSE soFar[b]]
        /\ gap' = [b \in Backoffs |-> IF b = t THEN 0 ELSE gap[b]]
    /\ queue' = Tail(queue)
    /\ UNCHANGED <<base, destroyed>>

\* The operation ends, and InvokedByLibdispatch deletes the slot.
EndOperation ==
    /\ running # None
    /\ running' = None
    /\ invoked' = None
    /\ slots' = IF invoked = None THEN slots ELSE Without(slots, invoked)
    /\ UNCHANGED <<schedule, queue, handle, waiting, backoffVars, destroyed>>

\* ~ExecutorLibdispatch, on any thread: an operation may be running and others may be on
\* the dispatch queue, which outlives the executor; the slots stay with libdispatch.
MarkAll(s) == [a \in DOMAIN s |-> IF Contains(schedule, a)
                                  THEN [s[a] EXCEPT !.done = TRUE] ELSE s[a]]

Destroy ==
    /\ ~destroyed
    /\ destroyed' = TRUE
    /\ slots' = MarkAll(slots)
    /\ schedule' = <<>>
    /\ UNCHANGED <<queue, running, invoked, handle, waiting, backoffVars>>

\* Time passes.
Tick ==
    /\ \/ \E a \in DOMAIN slots : slots[a].left > 0
       \/ \E b \in Backoffs : soFar[b] < LongestDelay
    /\ slots' = [a \in DOMAIN slots |-> [slots[a] EXCEPT !.left = IF @ = 0 THEN 0 ELSE @ - 1]]
    /\ soFar' = [b \in Backoffs |-> IF soFar[b] < LongestDelay THEN soFar[b] + 1 ELSE soFar[b]]
    /\ UNCHANGED <<schedule, queue, running, invoked, handle, waiting, base, gap, destroyed>>

-----------------------------------------------------------------------------
(* The owners, called by the operation that runs.  An owner keeps the      *)
(* AsyncQueue, and with it the executor, alive (shared_ptr), so what it    *)
(* asks of the executor comes before the destructor.                       *)

ScheduleTimer(s, t, delay) == \E a \in Addresses \ DOMAIN slots :
    /\ Become(NewSlot(s, a, t, delay))
    /\ handle' = [handle EXCEPT ![t] = a]
    /\ waiting' = waiting \cup {t}

\* A stream that failed is started again.
BackoffAndRun(b) ==
    /\ running # None /\ ~destroyed
    /\ \E jitter \in DelayWithJitter(base[b]) :
        LET desired == base[b] + jitter IN
        ScheduleTimer(CancelHandle(State, handle[b]), b, RemainingDelay(desired, soFar[b]))
    /\ gap' = [gap EXCEPT ![b] = base[b] - base[b] \div 2]
    /\ base' = [base EXCEPT ![b] = NextBase(base[b])]
    /\ UNCHANGED <<queue, running, invoked, soFar, destroyed>>

\* Reset by the first message, ResetToMax for RESOURCE_EXHAUSTED.
ResetBase(b) ==
    /\ running # None
    /\ \E next \in {0, MaxDelay} \ {base[b]} : base' = [base EXCEPT ![b] = next]
    /\ UNCHANGED <<executorVars, handle, waiting, soFar, gap, destroyed>>

\* MarkIdle, HandleWatchStreamStart: the owner asks whether it has a handle.
StartTimer(t) ==
    /\ running # None /\ ~destroyed
    /\ handle[t] = None
    /\ ScheduleTimer(State, t, Delay)
    /\ UNCHANGED <<queue, running, invoked, backoffVars, destroyed>>

\* Cancel by the owner: Stream::Close, CancelIdleCheck, ClearOnlineStateTimer.
Cancel(t) ==
    /\ running # None /\ ~destroyed
    /\ handle[t] # None
    /\ Become(CancelHandle(State, handle[t]))
    /\ handle' = [handle EXCEPT ![t] = None]
    /\ waiting' = waiting \ {t}
    /\ UNCHANGED <<queue, running, invoked, backoffVars, destroyed>>

-----------------------------------------------------------------------------

Next ==
    \/ \E x \in Tasks : Execute(x)
    \/ \E a \in Addresses : SlotIsDue(a)
    \/ RunTask \/ SkipSlot \/ RunSlot \/ EndOperation
    \/ Destroy \/ Tick
    \/ \E b \in Backoffs : BackoffAndRun(b) \/ ResetBase(b)
    \/ \E t \in Others : StartTimer(t)
    \/ \E t \in Timers : Cancel(t)

Spec == Init /\ [][Next]_vars

-----------------------------------------------------------------------------
(* Properties.                                                             *)

\* An operation that its owner has cancelled, or that libdispatch still holds when the
\* executor is destroyed, does not run, although libdispatch cannot take it back and
\* its address may be in use again; and none runs twice.
CancelledNeverRuns ==
    [][\A t \in Timers : running # t /\ running' = t => t \in waiting /\ ~destroyed]_vars

\* A stream that fails again and again, and is not reset, makes no two attempts
\* closer to each other than half of the delay the backoff has grown to, however
\* timers are cancelled and restarted.
AttemptsAreSpaced ==
    [][\A b \in Backoffs : running # b /\ running' = b => soFar[b] >= gap[b]]_vars
=============================================================================
