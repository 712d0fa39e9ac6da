------------------------------ MODULE Executor ------------------------------
(***************************************************************************)
(* What an executor promises (util/executor.h) to AsyncQueue and its       *)
(* users: operations run one at a time, immediate ones in FIFO order,      *)
(* delayed ones not before they are due; a delayed operation leaves the    *)
(* schedule by running or by the Cancel of its own handle, and in no other *)
(* way.                                                                    *)
(***************************************************************************)
EXTENDS Naturals, Sequences

CONSTANTS
    Tasks,      \* immediate operations; each is enqueued once
    Timers,     \* TimerId: there is at most one delayed operation for each
    None,       \* no operation
    Delays,     \* the delays that are asked for
    InOrder     \* TRUE: overdue operations run in the order of their due times

VARIABLES
    immediate,  \* Seq(Tasks) that wait
    delayed,    \* Seq([timer, left]), by due time; left is the time until then
    running     \* the operation that is run

vars == <<immediate, delayed, running>>

Init == immediate = <<>> /\ delayed = <<>> /\ running = None

IsScheduled(t) == \E i \in DOMAIN delayed : delayed[i].timer = t

Insert(s, i, e) == SubSeq(s, 1, i - 1) \o <<e>> \o SubSeq(s, i, Len(s))

Delete(s, i) == SubSeq(s, 1, i - 1) \o SubSeq(s, i + 1, Len(s))

Execute(x) ==
    /\ immediate' = Append(immediate, x)
    /\ UNCHANGED <<delayed, running>>

\* Behind everything that is due at the same time or before.
Schedule(t, delay) ==
    /\ running # None
    /\ ~IsScheduled(t)
    /\ \E i \in 1 .. Len(delayed) + 1 :
        /\ \A j \in 1 .. i - 1 : delayed[j].left <= delay
        /\ \A j \in i .. Len(delayed) : delayed[j].left > delay
        /\ delayed' = Insert(delayed, i, [timer |-> t, left |-> delay])
    /\ UNCHANGED <<immediate, running>>

Cancel(t) ==
    /\ running # None
    /\ \E i \in DOMAIN delayed : delayed[i].timer = t /\ delayed' = Delete(delayed, i)
    /\ UNCHANGED <<immediate, running>>

\* BackoffAndRun: a timer is cancelled and scheduled again.
Reschedule(t, delay) ==
    /\ running # None
    /\ \E k \in DOMAIN delayed :
        /\ delayed[k].timer = t
        /\ LET rest == Delete(delayed, k) IN
            \E i \in 1 .. Len(rest) + 1 :
                /\ \A j \in 1 .. i - 1 : rest[j].left <= delay
                /\ \A j \in i .. Len(rest) : rest[j].left > delay
                /\ delayed' = Insert(rest, i, [timer |-> t, left |-> delay])
    /\ UNCHANGED <<immediate, running>>

StartImmediate ==
    /\ running = None
    /\ immediate # <<>>
    /\ running' = Head(immediate)
    /\ immediate' = Tail(immediate)
    /\ UNCHANGED delayed

StartDelayed ==
    /\ running = None
    /\ \E i \in DOMAIN delayed :
        /\ delayed[i].left = 0
        /\ InOrder => i = 1
        /\ running' = delayed[i].timer
        /\ delayed' = Delete(delayed, i)
    /\ UNCHANGED immediate

Finish ==
    /\ running # None
    /\ running' = None
    /\ UNCHANGED <<immediate, delayed>>

\* Time passes for everything that waits.
Tick ==
    /\ delayed' = [i \in DOMAIN delayed |->
                    [delayed[i] EXCEPT !.left = IF @ = 0 THEN 0 ELSE @ - 1]]
    /\ UNCHANGED <<immediate, running>>

Next ==
    \/ \E x \in Tasks : Execute(x)
    \/ \E t \in Timers : Cancel(t) \/ \E delay \in Delays : Schedule(t, delay) \/ Reschedule(t, delay)
    \/ StartImmediate \/ StartDelayed \/ Finish \/ Tick

Spec == Init /\ [][Next]_vars
=============================================================================
