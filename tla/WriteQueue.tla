----------------------------- MODULE WriteQueue -----------------------------
(***************************************************************************)
(* What the write path promises, without streams, pipelines, batch ids or  *)
(* sign-ins: every user has a queue of writes; the backend handles the     *)
(* writes of a queue in order, possibly more than once while they are      *)
(* queued; a write leaves the queue from the front, after it was handled.  *)
(***************************************************************************)
EXTENDS Integers, Sequences

CONSTANTS Users, Writes

VARIABLES
    pending,    \* [Users -> Seq(Writes)]
    log,        \* the writes the backend committed, in order
    refused     \* the writes the backend refused

vars == <<pending, log, refused>>

InLog(w) == \E i \in 1 .. Len(log) : log[i] = w

Handled(w) == w \in refused \/ InLog(w)

Pending(w) == \E u \in Users : \E i \in 1 .. Len(pending[u]) : pending[u][i] = w

Init ==
    /\ pending = [u \in Users |-> <<>>]
    /\ log = <<>>
    /\ refused = {}

\* A write is made once.
Make(u, w) ==
    /\ ~Pending(w)
    /\ ~Handled(w)
    /\ pending' = [pending EXCEPT ![u] = Append(@, w)]
    /\ UNCHANGED <<log, refused>>

\* The write at position i of the queue is next when all before it are handled.
IsNext(u, i) == \A j \in 1 .. i - 1 : Handled(pending[u][j])

Commit(u, i) ==
    /\ IsNext(u, i)
    /\ log' = Append(log, pending[u][i])
    /\ UNCHANGED <<pending, refused>>

Refuse(u, i) ==
    /\ IsNext(u, i)
    /\ refused' = refused \cup {pending[u][i]}
    /\ UNCHANGED <<pending, log>>

Resolve(u) ==
    /\ pending[u] # <<>>
    /\ Handled(Head(pending[u]))
    /\ pending' = [pending EXCEPT ![u] = Tail(@)]
    /\ UNCHANGED <<log, refused>>

Next ==
    \E u \in Users :
        \/ \E w \in Writes : Make(u, w)
        \/ \E i \in 1 .. Len(pending[u]) : Commit(u, i) \/ Refuse(u, i)
        \/ Resolve(u)

Spec == Init /\ [][Next]_vars
=============================================================================
