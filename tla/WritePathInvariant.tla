-------------------------- MODULE WritePathInvariant --------------------------
(***************************************************************************)
(* The inductive invariants of WritePath.  IInv is the one behind          *)
(* OnlyGracefulEndAborts and PipelineIsQueuePrefix; SafetyInv, inductive   *)
(* together with IInv, is the one behind the other safety properties and   *)
(* the refinement of WriteQueue.  TLC checks them on the instances of      *)
(* MCWritePath, WritePathProof proves them for all of them.                *)
(***************************************************************************)
EXTENDS WritePath

\* Batch ids grow along a queue: by one in the memory queue, whose index
\* arithmetic relies on it; by any amount in LevelDB, where ids are shared by
\* the users.
QueueOrdered(q) ==
    IF Durable
    THEN \A i, j \in 1 .. Len(q) : i < j => q[i].id < q[j].id
    ELSE \A i \in 1 .. Len(q) : q[i].id = q[1].id + i - 1

\* The next batch id continues the queue.
NextIdContinues ==
    IF Durable
    THEN \A i \in 1 .. Len(queue[user]) : queue[user][i].id < nextBatchId[user]
    ELSE \A u \in Users : queue[u] # <<>> => nextBatchId[u] = queue[u][1].id + Len(queue[u])

\* In LevelDB a batch id is smaller than the number of the write, so that the
\* bound on writes bounds the ids that LoadNextBatchIdFromDb looks through.
IdsBounded ==
    Durable =>
        /\ \A u \in Users : \A i \in 1 .. Len(queue[u]) :
              queue[u][i].id < queue[u][i].w /\ owner[queue[u][i].w] # NoUser
        /\ \A v, w \in Writes : (owner[v] # NoUser /\ owner[w] = NoUser) => v < w
        /\ \A w \in Writes : owner[w] = NoUser => nextBatchId[user] < w

QueuesOrdered ==
    /\ \A u \in Users : QueueOrdered(queue[u])
    /\ NextIdContinues
    /\ IdsBounded

\* The gRPC call c, the handshake flag h and the timers go with the state of
\* the stream s, for the pipeline p and the network flag net.
StreamOK(net, p, s, h, c) ==
    /\ IsOpen(s) <=> c.user # NoUser
    /\ ~IsOpen(s) => c.toServer = <<>> /\ c.toClient = <<>> /\ c.status = "ok" /\ ~h
    /\ "idle" \in s.timers => h /\ p = <<>>
    /\ "backoff" \in s.timers <=> s.state = "Backoff"
    /\ ~net => ~IsStarted(s)
    /\ (IsStarted(s) /\ ~h) => p # <<>>

\* A GetToken call or a queued token callback of the present close count is the
\* only one, and the stream waits for it.
IsTokenCallback(wq, i) == wq[i].op = "token"

TokensOK(s, wq) ==
    /\ \A r \in s.requests :
          /\ r.closeCount <= s.closeCount
          /\ r.closeCount = s.closeCount => s.state = "Starting"
    /\ \A r1, r2 \in s.requests :
          (r1.closeCount = s.closeCount /\ r2.closeCount = s.closeCount) => r1 = r2
    /\ \A i \in 1 .. Len(wq) : IsTokenCallback(wq, i) =>
          /\ wq[i].closeCount <= s.closeCount
          /\ wq[i].closeCount = s.closeCount =>
                /\ s.state = "Starting"
                /\ \A r \in s.requests : r.closeCount # s.closeCount
                /\ \A j \in 1 .. Len(wq) :
                      (IsTokenCallback(wq, j) /\ wq[j].closeCount = s.closeCount) => i = j

\* As many responses and requests are in flight as there are batches in the
\* pipeline; before the handshake, just the handshake is.
InFlightOK(p, s, h, c) ==
    IsOpen(s) => Len(c.toClient) + Len(c.toServer) = IF h THEN Len(p) ELSE 1

\* The conjunction is inductive: a late token callback finds its stream waiting
\* or a larger close count, a result finds a batch in the pipeline and the same
\* batch at the front of the queue, and the idle timer finds nothing to send.
IInv ==
    /\ TypeOK
    /\ OnlyGracefulEndAborts
    /\ PipelineIsQueuePrefix
    /\ QueuesOrdered
    /\ StreamOK(isNetworkEnabled, pipeline, stream, handshake, call)
    /\ TokensOK(stream, workQueue)
    /\ InFlightOK(pipeline, stream, handshake, call)

-----------------------------------------------------------------------------
(* The second invariant: which write, which user, which block.             *)

IsCommitted(w) == \E j \in 1 .. Len(committed) : committed[j].w = w

\* A queued write is queued once, in the queue of the user who made it.
QueuesOwned ==
    /\ \A u \in Users : \A i \in 1 .. Len(queue[u]) : owner[queue[u][i].w] = u
    /\ \A u \in Users : \A i, j \in 1 .. Len(queue[u]) : queue[u][i].w = queue[u][j].w => i = j

\* What the backend has handled was made by someone.
HandledOwned ==
    /\ CredentialsNeverCross
    /\ \A j \in 1 .. Len(committed) : committed[j].w \notin BadWrites
    /\ \A w \in refused : w \in BadWrites /\ owner[w] # NoUser

\* The completion blocks that were called.
CallsOK ==
    /\ \A i \in 1 .. Len(calls) : owner[calls[i].w] # NoUser
    /\ SuccessWasCommitted
    /\ WriteMayFailFirst \/ ErrorWasRefused
    /\ MaxRestarts = 0 =>
          \A i \in 1 .. Len(calls) : \A u \in Users : \A k \in 1 .. Len(queue[u]) :
              queue[u][k].w # calls[i].w

\* v is the user once the first n items of the work queue wq have run, when it is u now.
UserAfter(u, wq, n, v) ==
    \/ v = u /\ \A i \in 1 .. n : wq[i].op # "credential"
    \/ \E i \in 1 .. n : /\ wq[i].op = "credential" /\ wq[i].user = v
                         /\ \A j \in i + 1 .. n : wq[j].op # "credential"

\* A token callback runs as the user whose token it brings, and in the end the
\* sync engine has the provider's user: credential changes and tokens go through
\* the same queue.
CredentialsInOrder(u, wq, v) ==
    /\ UserAfter(u, wq, Len(wq), v)
    /\ \A n \in 1 .. Len(wq) : IsTokenCallback(wq, n) => UserAfter(u, wq, n - 1, wq[n].user)

\* The call c is the current user u's.  Before the handshake is complete (h) just
\* the handshake is in flight, then the pipeline p; answers are about committed
\* writes, and a call that a write has ended still holds that write.
CallOK(u, p, h, c) ==
    /\ c.user # NoUser =>
          c.user = u /\ c.toClient \o c.toServer = IF h THEN Requests(p) ELSE <<Handshake>>
    /\ \A i \in 1 .. Len(c.toClient) : c.toClient[i] # Handshake => IsCommitted(c.toClient[i])
    /\ c.status = "permanent" => c.toServer # <<>> /\ (h => Head(c.toServer) \in refused)

SafetyInv ==
    /\ QueuesOwned
    /\ BlocksMatchQueue
    /\ HandledOwned
    /\ CallsOK
    /\ CredentialsInOrder(user, workQueue, provider.user)
    /\ CallOK(user, pipeline, handshake, call)

=============================================================================
