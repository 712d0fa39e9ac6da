------------------------------ MODULE WritePath ------------------------------
(***************************************************************************)
(* The path of a local write: SyncEngine.writeMutations puts a batch in    *)
(* the current user's mutation queue and remembers the completion block,   *)
(* RemoteStore moves a prefix of the queue into its write pipeline and     *)
(* sends it on the write stream, and the backend's answers take batches    *)
(* off the pipeline and the queue again.                                   *)
(*                                                                         *)
(* All of it runs on one worker queue, so every operation is one action.   *)
(* What interleaves with it are the application, Firebase Auth, the gRPC   *)
(* transport, timers and the backend.                                      *)
(***************************************************************************)
EXTENDS Stream, Sequences

CONSTANTS
    Users,              \* the users that may be signed in
    NoUser,             \* not a user: no call, no token
    kMaxPendingWrites,  \* capacity of the write pipeline
    Durable,            \* TRUE: LevelDB mutation queue; FALSE: memory mutation queue
    WriteMayFailFirst,  \* TRUE: a failed gRPC write may be seen before pending reads
    BadWrites,          \* the writes the backend refuses
    MaxWrites,          \* bound: writes the application makes
    MaxFaults,          \* bound: transport, backend and token faults
    MaxAuthEvents,      \* bound: auth state notifications
    MaxToggles,         \* bound: disableNetwork and enableNetwork calls
    MaxRestarts         \* bound: process restarts

Writes == 1 .. MaxWrites

ASSUME WritePathAssumption ==
    /\ NoUser \notin Users
    /\ Users # {}
    /\ kMaxPendingWrites \in Nat \ {0}
    /\ Durable \in BOOLEAN
    /\ WriteMayFailFirst \in BOOLEAN
    /\ MaxWrites \in Nat
    /\ BadWrites \subseteq Writes
    /\ MaxFaults \in Nat
    /\ MaxAuthEvents \in Nat
    /\ MaxToggles \in Nat
    /\ MaxRestarts \in Nat

VARIABLES
    \* FSTLocalStore and its mutation queues
    queue,              \* [Users -> Seq(batch)], a batch is [id, w]
    nextBatchId,        \* [Users -> Nat], next_batch_id_ of each user's queue
    savedToken,         \* [Users -> the persisted last stream token]
    \* FSTSyncEngine
    user,               \* _currentUser
    completions,        \* _mutationCompletionBlocks: set of [user, id, w]
    \* RemoteStore and WriteStream
    isNetworkEnabled,
    pipeline,           \* write_pipeline_
    stream,             \* the fields of Stream
    handshake,          \* handshake_complete_
    streamToken,        \* last stream token of the write stream
    failed,             \* failed assertions of RemoteStore and the mutation queue
    \* the worker queue: credential changes and token callbacks, in FIFO order
    workQueue,
    \* FirebaseCredentialsProvider and Firebase Auth
    provider,           \* [user, counter, refresh, cache]
    \* the gRPC call and the backend
    call,               \* [user, token, toServer, toClient, status]
    committed,          \* the writes the backend has committed: Seq([w, user])
    refused,            \* the writes the backend has refused
    \* what the application did and saw
    owner,              \* [Writes -> the user who made the write]
    calls,              \* the completion blocks that were called: Seq([w, result])
    \* bounds
    budget              \* [faults, auth, toggles, restarts] spent so far

localStore == <<queue, nextBatchId, savedToken>>
engine == <<user, completions>>
remote == <<isNetworkEnabled, pipeline, stream, handshake, streamToken, failed>>
outside == <<workQueue, provider>>
backend == <<call, committed, refused>>
application == <<owner, calls>>

vars == <<localStore, engine, remote, outside, backend, application, budget>>

kBatchIdUnknown == -1

Handshake == 0          \* the handshake request and its response

\* Classes of status codes that the code tells apart.
Errors == {"unavailable", "unauthenticated", "aborted", "permanent"}

\* Datastore::IsPermanentError and IsPermanentWriteError.
IsPermanentError(status) == status \in {"aborted", "permanent"}
\* Mutant: "aborted" is not exempt.
EveryPermanentError(status) == status \in {"aborted", "permanent"}

IsPermanentWriteError(status) == IsPermanentError(status) /\ status # "aborted"

Range1(q) == {q[i] : i \in 1 .. Len(q)}

Last1(q) == q[Len(q)]

Lesser(a, b) == IF a < b THEN a ELSE b

NoCall == [user |-> NoUser, token |-> "expired",
           toServer |-> <<>>, toClient |-> <<>>, status |-> "ok"]

-----------------------------------------------------------------------------
(* Mutation queues.                                                        *)

\* Mutant: the queue starts over although it is not empty.
StartsOver(u, q, n) == 1

\* One more than the largest id of any user's batches on disk.
LoadNextBatchIdFromDb(q) ==
    CHOOSE m \in 0 .. MaxWrites :
        /\ \A v \in Users : \A i \in 1 .. Len(q[v]) : q[v][i].id < m
        /\ m = 0 \/ \E v \in Users : \E i \in 1 .. Len(q[v]) : q[v][i].id = m - 1

\* Start: the first batch id the queue of user u hands out.  The memory queue
\* starts over when it is empty.
NextBatchIdAtStart(u, q, n) ==
    IF Durable THEN LoadNextBatchIdFromDb(q)
    ELSE IF q[u] = <<>> THEN 1 ELSE n[u]

\* Mutant: the batch with the id itself is returned.
IndexFrom(q, id) == IF q = <<>> \/ id < q[1].id THEN 1 ELSE id - q[1].id + 1

\* The first row past the id in the key order of LevelDB.
SeekAfter(q, id) ==
    CHOOSE n \in 1 .. Len(q) + 1 : \A i \in 1 .. Len(q) : (i < n) <=> (q[i].id <= id)

\* IndexOfBatchId of the memory queue, from 0; it may be negative.
IndexOfBatchId(q, id) == IF q = <<>> THEN 0 ELSE id - q[1].id

\* NextMutationBatchAfterBatchId: the position of the batch it returns (past the
\* end when there is none).
IndexAfter(q, id) ==
    LET rawIndex == IndexOfBatchId(q, id + 1)
    IN  IF Durable THEN SeekAfter(q, id)
        ELSE IF rawIndex < 0 THEN 1 ELSE rawIndex + 1

\* Mutants: the batch stays in the queue; the last one is removed.
KeepBatch(q, id) == q
RemoveLast(q, id) == SubSeq(q, 1, Len(q) - 1)

\* RemoveMutationBatch: the memory queue erases its first entry, LevelDB the row
\* with this id; each checks first that it removes the batch it was given.
RemoveBatch(q, id) ==
    LET k == IF Durable THEN CHOOSE n \in 1 .. Len(q) : q[n].id = id ELSE 1
    IN  SubSeq(q, 1, k - 1) \o SubSeq(q, k + 1, Len(q))

RemoveAsserts(q, id) ==
    HardAssert(IF Durable THEN \E n \in 1 .. Len(q) : q[n].id = id
                          ELSE q # <<>> /\ q[1].id = id,
               "batch to remove is not in its place")

-----------------------------------------------------------------------------
(* RemoteStore.  net: CanUseNetwork(); q: the current user's queue;        *)
(* p: write_pipeline_; s: the stream; h: handshake_complete().             *)

\* The GetToken call that RequestCredentials makes.
Request(s) == [closeCount |-> s.closeCount,
               counter    |-> provider.counter,
               refresh    |-> provider.refresh]

ShouldStartWriteStream(net, p, s) == net /\ ~IsStarted(s) /\ p # <<>>

StartWriteStreamIfNeeded(net, p, s) ==
    IF ShouldStartWriteStream(net, p, s) THEN Start(s, Request(s)) ELSE s

\* The batches that the loop of FillWritePipeline adds to the pipeline.
Added(net, q, p) ==
    LET first == IndexAfter(q, IF p = <<>> THEN kBatchIdUnknown ELSE Last1(p).id)
        room  == IF net THEN kMaxPendingWrites - Len(p) ELSE 0
    IN  SubSeq(q, first, Lesser(Len(q), first + room - 1))

\* write_pipeline_ after FillWritePipeline.
FillPipeline(net, q, p) == p \o Added(net, q, p)

\* The stream after FillWritePipeline: AddToWritePipeline sends a batch once
\* the handshake is complete, an empty pipeline marks the stream idle, and a
\* stream that is needed is started.
FillStream(net, q, p, s, h) ==
    LET filled == FillPipeline(net, q, p)
        sent   == IF Added(net, q, p) # <<>> /\ IsOpen(s) /\ h THEN WriteTo(s) ELSE s
        marked == IF net /\ filled = <<>> THEN MarkIdle(sent) ELSE sent
    IN  StartWriteStreamIfNeeded(net, filled, marked)

Requests(batches) == [i \in 1 .. Len(batches) |-> batches[i].w]

\* Mutant: a batch is sent before the handshake is complete.
SentEarly(net, q, p, s, h) ==
    IF IsOpen(s) THEN Requests(Added(net, q, p)) ELSE <<>>

\* The requests that FillWritePipeline writes to the call.
FillSent(net, q, p, s, h) ==
    IF IsOpen(s) /\ h THEN Requests(Added(net, q, p)) ELSE <<>>

\* InvalidateToken sets force_refresh, GetToken clears it.
Refreshed(before, after, status) ==
    [provider EXCEPT !.refresh =
        IF after.requests # before.requests THEN "cached"
        ELSE IF status = "unauthenticated" THEN "forced" ELSE @]

-----------------------------------------------------------------------------
(* FSTSyncEngine.                                                          *)

\* processUserCallbacksForBatchID: a batch restored from disk has no block.
ProcessUserCallbacks(id, result) ==
    LET blocks == {c \in completions : c.user = user /\ c.id = id}
    IN  /\ completions' = completions \ blocks
        /\ calls' = IF blocks = {}
                    THEN calls
                    ELSE Append(calls, [w |-> (CHOOSE c \in blocks : TRUE).w, result |-> result])

\* The assertion of the memory queue's AddMutationBatch.
AddAsserts(q, batch) ==
    HardAssert(Durable \/ q = <<>> \/ Last1(q).id < batch.id, "batch ids must increase")

\* locallyWriteMutations: AddMutationBatch of the current user's queue.
LocallyWriteMutations(batch) ==
    /\ queue' = [queue EXCEPT ![user] = Append(@, batch)]
    /\ nextBatchId' = [nextBatchId EXCEPT ![user] = @ + 1]
    /\ failed' = failed \cup AddAsserts(queue[user], batch)

\* A block that waits under the same user and id is replaced.
AddMutationCompletionBlock(batch) ==
    completions' = {c \in completions : ~(c.user = user /\ c.id = batch.id)}
                     \cup {[user |-> user, id |-> batch.id, w |-> batch.w]}

\* writeMutations: the batch is added, the completion block is kept under its id,
\* and the write pipeline is filled.
WriteMutations(w) ==
    LET batch == [id |-> nextBatchId[user], w |-> w]
        q     == Append(queue[user], batch)
    IN  /\ owner[w] = NoUser
        /\ \A v \in Writes : v < w => owner[v] # NoUser
        /\ owner' = [owner EXCEPT ![w] = user]
        /\ LocallyWriteMutations(batch)
        /\ AddMutationCompletionBlock(batch)
        /\ pipeline' = FillPipeline(isNetworkEnabled, q, pipeline)
        /\ stream' = FillStream(isNetworkEnabled, q, pipeline, stream, handshake)
        /\ call' = [call EXCEPT !.toServer =
                        @ \o FillSent(isNetworkEnabled, q, pipeline, stream, handshake)]
        /\ provider' = Refreshed(stream, stream', "ok")
        /\ UNCHANGED <<savedToken, user, isNetworkEnabled, handshake, streamToken, workQueue,
                       committed, refused, calls, budget>>

-----------------------------------------------------------------------------
(* Closing the write stream: Stream::Close, WriteStream::NotifyStreamClose *)
(* and RemoteStore::OnWriteStreamClose.  The handshake flag is cleared     *)
(* only after the callback.                                                *)

\* rejectBatchID of the local store.
RejectBatch(batch) ==
    /\ queue' = [queue EXCEPT ![user] = RemoveBatch(@, batch.id)]
    /\ failed' = failed \cup RemoveAsserts(queue[user], batch.id)

\* rejectFailedWriteWithBatchID.
RejectFailedWrite(batch) ==
    /\ RejectBatch(batch)
    /\ ProcessUserCallbacks(batch.id, "error")

\* HandleWriteError for an error that will not go away: the first batch is
\* rejected and the pipeline refilled.
RejectFirstBatch(status) ==
    LET batch  == Head(pipeline)
        rest   == Tail(pipeline)
        q      == RemoveBatch(queue[user], batch.id)
        closed == InhibitBackoff(Close(stream, status))
    IN  /\ RejectFailedWrite(batch)
        /\ pipeline' = FillPipeline(isNetworkEnabled, q, rest)
        /\ stream' = StartWriteStreamIfNeeded(isNetworkEnabled, pipeline',
                         FillStream(isNetworkEnabled, q, rest, closed, handshake))
        /\ UNCHANGED <<savedToken, streamToken>>

\* Mutant: the stream is not started again.
NoRetryAfterError(status) ==
    /\ stream' = Close(stream, status)
    /\ UNCHANGED <<savedToken, streamToken, queue, failed, completions, calls, pipeline>>

\* HandleHandshakeError, or an error after the handshake that is retried.
RetryAfterError(status) ==
    LET resetToken == pipeline # <<>> /\ ~handshake /\ IsPermanentError(status)
    IN  /\ streamToken' = IF resetToken THEN NoUser ELSE streamToken
        /\ savedToken' = IF resetToken THEN [savedToken EXCEPT ![user] = NoUser] ELSE savedToken
        /\ stream' = StartWriteStreamIfNeeded(isNetworkEnabled, pipeline, Close(stream, status))
        /\ UNCHANGED <<queue, failed, completions, calls, pipeline>>

\* OnStreamFinish with an error.
OnStreamFinish(status) ==
    /\ IF pipeline # <<>> /\ handshake /\ IsPermanentWriteError(status)
       THEN RejectFirstBatch(status)
       ELSE RetryAfterError(status)
    /\ handshake' = FALSE
    /\ call' = NoCall
    /\ provider' = Refreshed(stream, stream', status)
    /\ UNCHANGED <<nextBatchId, user, isNetworkEnabled, committed, refused, owner>>

\* Close with OK: OnWriteStreamClose asserts that nothing needs the stream; when
\* something does, the process ends there.
CloseGracefully ==
    /\ IF ShouldStartWriteStream(isNetworkEnabled, pipeline, Close(stream, "ok"))
       THEN /\ failed' = failed \cup {"stopped gracefully while still needed"}
            /\ UNCHANGED <<stream, handshake, call>>
       ELSE /\ stream' = Close(stream, "ok")
            /\ handshake' = FALSE
            /\ call' = NoCall
            /\ UNCHANGED failed
    /\ UNCHANGED <<localStore, engine, isNetworkEnabled, pipeline, streamToken, outside,
                   committed, refused, application, budget>>

\* The idle timer stops the stream gracefully.
IdleTimeout ==
    /\ "idle" \in stream.timers
    /\ CloseGracefully

\* The backoff timer.
BackoffTimeout ==
    /\ "backoff" \in stream.timers
    /\ stream' = BackoffElapsed(stream, Request(stream))
    /\ provider' = Refreshed(stream, stream', "ok")
    /\ UNCHANGED <<localStore, engine, isNetworkEnabled, pipeline, handshake, streamToken,
                   failed, workQueue, backend, application, budget>>

-----------------------------------------------------------------------------
(* Enabling and disabling the network.                                     *)

Stop(s) == IF StopIsNoOp(s) THEN s ELSE Close(s, "ok")
HandshakeAfterStop == IF StopIsNoOp(stream) THEN handshake ELSE FALSE
CallAfterStop == IF StopIsNoOp(stream) THEN call ELSE NoCall

\* EnableNetwork for the queue of user u, with the pipeline p and the stream s.
Enable(u, p, s, h, live) ==
    /\ isNetworkEnabled' = TRUE
    /\ streamToken' = savedToken[u]
    /\ pipeline' = FillPipeline(TRUE, queue[u], p)
    /\ stream' = FillStream(TRUE, queue[u], p, s, h)
    /\ call' = [live EXCEPT !.toServer = @ \o FillSent(TRUE, queue[u], p, s, h)]

EnableNetwork ==
    /\ budget.toggles < MaxToggles
    /\ budget' = [budget EXCEPT !.toggles = @ + 1]
    /\ Enable(user, pipeline, stream, handshake, call)
    /\ provider' = Refreshed(stream, stream', "ok")
    /\ UNCHANGED <<localStore, engine, handshake, failed, workQueue, committed, refused,
                   application>>

DisableNetwork ==
    /\ budget.toggles < MaxToggles
    /\ budget' = [budget EXCEPT !.toggles = @ + 1]
    /\ isNetworkEnabled' = FALSE
    /\ stream' = Stop(stream)
    /\ handshake' = HandshakeAfterStop
    /\ pipeline' = <<>>
    /\ call' = CallAfterStop
    /\ UNCHANGED <<localStore, engine, streamToken, failed, outside, committed, refused,
                   application>>

-----------------------------------------------------------------------------
(* Credentials.                                                            *)

\* The auth state notification: the provider counts it and puts
\* credentialDidChange on the worker queue.
AuthStateDidChange(u) ==
    /\ budget.auth < MaxAuthEvents
    /\ budget' = [budget EXCEPT !.auth = @ + 1]
    /\ provider' = [provider EXCEPT !.user = u,
                                    !.counter = @ + 1,
                                    !.cache = "valid"]
    /\ workQueue' = Append(workQueue, [op |-> "credential", user |-> u])
    /\ UNCHANGED <<localStore, engine, remote, backend, application>>

\* The cached auth token expires.
TokenExpires ==
    /\ budget.faults < MaxFaults
    /\ provider.cache = "valid"
    /\ budget' = [budget EXCEPT !.faults = @ + 1]
    /\ provider' = [provider EXCEPT !.cache = "expired"]
    /\ UNCHANGED <<localStore, engine, remote, workQueue, backend, application>>

\* Firebase Auth answers GetToken; the answer goes through the worker queue.
\* It is an error when the user changed in between.
TokenArrives(r) ==
    /\ r \in stream.requests
    /\ stream' = [stream EXCEPT !.requests = @ \ {r}]
    /\ provider' = [provider EXCEPT !.cache = IF r.refresh = "forced" THEN "valid" ELSE @]
    /\ workQueue' = Append(workQueue,
          [op         |-> "token",
           closeCount |-> r.closeCount,
           status     |-> IF r.counter = provider.counter THEN "ok" ELSE "aborted",
           user       |-> provider.user,
           token      |-> IF r.refresh = "forced" THEN "valid" ELSE provider.cache])
    /\ UNCHANGED <<localStore, engine, isNetworkEnabled, pipeline, handshake, streamToken,
                   failed, backend, application, budget>>

\* Firebase Auth cannot get a token.
TokenFails(r) ==
    /\ r \in stream.requests
    /\ budget.faults < MaxFaults
    /\ budget' = [budget EXCEPT !.faults = @ + 1]
    /\ stream' = [stream EXCEPT !.requests = @ \ {r}]
    /\ workQueue' = Append(workQueue,
          [op         |-> "token",
           closeCount |-> r.closeCount,
           status     |-> IF r.counter = provider.counter THEN "unavailable" ELSE "aborted",
           user       |-> provider.user,
           token      |-> "expired"])
    /\ UNCHANGED <<localStore, engine, isNetworkEnabled, pipeline, handshake, streamToken,
                   failed, provider, backend, application>>

\* userDidChange of the local store: the queue of u is swapped in and started.
UserDidChange(u) ==
    nextBatchId' = [nextBatchId EXCEPT ![u] = NextBatchIdAtStart(u, queue, nextBatchId)]

\* Mutant: the streams are not stopped for the new user.
CredentialChangeKeepsStream ==
    /\ workQueue # <<>>
    /\ Head(workQueue).op = "credential"
    /\ workQueue' = Tail(workQueue)
    /\ LET u == Head(workQueue).user
       IN  /\ user' = u
           /\ IF u = user THEN UNCHANGED nextBatchId ELSE UserDidChange(u)
           /\ IF isNetworkEnabled
              THEN /\ Enable(u, <<>>, stream, handshake, call)
                   /\ provider' = Refreshed(stream, stream', "ok")
                   /\ UNCHANGED handshake
              ELSE UNCHANGED <<isNetworkEnabled, pipeline, stream, handshake, streamToken,
                               provider, call>>
    /\ UNCHANGED <<queue, savedToken, completions, failed, committed, refused, application, budget>>

\* credentialDidChangeWithUser on the worker queue: the local store swaps the
\* mutation queue and RemoteStore::HandleCredentialChange restarts the streams.
CredentialDidChange ==
    /\ workQueue # <<>>
    /\ Head(workQueue).op = "credential"
    /\ workQueue' = Tail(workQueue)
    /\ LET u == Head(workQueue).user
       IN  /\ user' = u
           /\ IF u = user THEN UNCHANGED nextBatchId ELSE UserDidChange(u)
           /\ IF isNetworkEnabled
              THEN /\ Enable(u, <<>>, Stop(stream), HandshakeAfterStop, CallAfterStop)
                   /\ handshake' = HandshakeAfterStop
                   /\ provider' = Refreshed(stream, stream', "ok")
              ELSE UNCHANGED <<isNetworkEnabled, pipeline, stream, handshake, streamToken,
                               provider, call>>
    /\ UNCHANGED <<queue, savedToken, completions, failed, committed, refused, application, budget>>

\* The token callback of a stream that was closed since does nothing.
StaleTokenCallback ==
    /\ workQueue # <<>>
    /\ Head(workQueue).op = "token"
    /\ CallbackIsStale(stream, Head(workQueue))
    /\ workQueue' = Tail(workQueue)
    /\ UNCHANGED <<localStore, engine, remote, provider, backend, application, budget>>

\* ResumeStartWithCredentials with a token: the gRPC call is created with it,
\* the stream opens and OnWriteStreamOpen writes the handshake.
TokenCallback ==
    /\ workQueue # <<>>
    /\ Head(workQueue).op = "token"
    /\ ~CallbackIsStale(stream, Head(workQueue))
    /\ Head(workQueue).status = "ok"
    /\ workQueue' = Tail(workQueue)
    /\ stream' = WriteTo(ResumeStartWithCredentials(stream))
    /\ failed' = failed \cup HardAssert(~handshake, "handshake already completed")
    /\ call' = [NoCall EXCEPT !.user     = Head(workQueue).user,
                              !.token    = Head(workQueue).token,
                              !.toServer = <<Handshake>>]
    /\ UNCHANGED <<localStore, engine, isNetworkEnabled, pipeline, handshake, streamToken,
                   provider, committed, refused, application, budget>>

\* ResumeStartWithCredentials without a token closes the stream.
TokenErrorCallback ==
    /\ workQueue # <<>>
    /\ Head(workQueue).op = "token"
    /\ ~CallbackIsStale(stream, Head(workQueue))
    /\ Head(workQueue).status # "ok"
    /\ workQueue' = Tail(workQueue)
    /\ OnStreamFinish(Head(workQueue).status)
    /\ UNCHANGED budget

-----------------------------------------------------------------------------
(* The backend and the transport (external).  The backend answers requests *)
(* in order and stops at the first one it refuses.                         *)

Serving == call.user # NoUser /\ call.status = "ok" /\ call.toServer # <<>>

ServerHandshake ==
    /\ Serving
    /\ Head(call.toServer) = Handshake
    /\ call' = IF call.token = "valid"
               THEN [call EXCEPT !.toServer = Tail(@), !.toClient = Append(@, Handshake)]
               ELSE [call EXCEPT !.status = "unauthenticated"]
    /\ UNCHANGED <<localStore, engine, remote, outside, committed, refused, application, budget>>

ServerCommit ==
    /\ Serving
    /\ Head(call.toServer) \in Writes \ BadWrites
    /\ committed' = Append(committed, [w |-> Head(call.toServer), user |-> call.user])
    /\ call' = [call EXCEPT !.toServer = Tail(@), !.toClient = Append(@, Head(call.toServer))]
    /\ UNCHANGED <<localStore, engine, remote, outside, refused, application, budget>>

ServerRefuse ==
    /\ Serving
    /\ Head(call.toServer) \in BadWrites
    /\ refused' = refused \cup {Head(call.toServer)}
    /\ call' = [call EXCEPT !.status = "permanent"]
    /\ UNCHANGED <<localStore, engine, remote, outside, committed, application, budget>>

\* The backend ends the call for a reason of its own, with an error or with OK
\* ("ended"); a permanent error that is not about a write only answers the handshake.
ServerFault(status) ==
    /\ budget.faults < MaxFaults
    /\ call.user # NoUser
    /\ call.status = "ok"
    /\ status = "permanent" => Serving /\ Head(call.toServer) = Handshake
    /\ budget' = [budget EXCEPT !.faults = @ + 1]
    /\ call' = [call EXCEPT !.status = status]
    /\ UNCHANGED <<localStore, engine, remote, outside, committed, refused, application>>

-----------------------------------------------------------------------------
(* Reading from the call.                                                  *)

\* NotifyStreamResponse before the handshake is complete: the response is the
\* handshake's, and OnWriteStreamHandshakeComplete sends the whole pipeline.
HandshakeResponse ==
    /\ call.toClient # <<>>
    /\ ~handshake
    /\ handshake' = TRUE
    /\ streamToken' = call.user
    /\ savedToken' = [savedToken EXCEPT ![user] = call.user]
    /\ stream' = IF pipeline = <<>> THEN stream ELSE WriteTo(stream)
    /\ call' = [call EXCEPT !.toClient = Tail(@), !.toServer = @ \o Requests(pipeline)]
    /\ failed' = failed \cup HardAssert(IsStarted(stream), "read on a stopped stream")
    /\ UNCHANGED <<queue, nextBatchId, engine, isNetworkEnabled, pipeline, outside,
                   committed, refused, application, budget>>

\* AcknowledgeBatch and RemoveMutationBatch of the mutation queue.
AcknowledgeBatch(batch) ==
    /\ queue' = [queue EXCEPT ![user] = RemoveBatch(@, batch.id)]
    /\ savedToken' = [savedToken EXCEPT ![user] = call.user]
    /\ failed' = failed \cup RemoveAsserts(queue[user], batch.id)
                        \cup HardAssert(IsStarted(stream), "read on a stopped stream")

\* NotifyStreamResponse after the handshake: OnWriteStreamMutationResult takes
\* the response to be about the first batch of the pipeline.
MutationResult ==
    /\ call.toClient # <<>>
    /\ handshake
    /\ streamToken' = call.user
    /\ IF pipeline = <<>>
       THEN /\ failed' = failed \cup {"result for an empty write pipeline"}
            /\ call' = [call EXCEPT !.toClient = Tail(@)]
            /\ UNCHANGED <<queue, savedToken, completions, calls, pipeline, stream, provider>>
       ELSE /\ ProcessUserCallbacks(Head(pipeline).id, "ok")
            /\ AcknowledgeBatch(Head(pipeline))
            /\ pipeline' = FillPipeline(isNetworkEnabled, queue'[user], Tail(pipeline))
            /\ stream' = FillStream(isNetworkEnabled, queue'[user], Tail(pipeline), stream, handshake)
            /\ call' = [call EXCEPT
                   !.toClient = Tail(@),
                   !.toServer = @ \o FillSent(isNetworkEnabled, queue'[user], Tail(pipeline),
                                              stream, handshake)]
            /\ provider' = Refreshed(stream, stream', "ok")
    /\ UNCHANGED <<nextBatchId, user, isNetworkEnabled, handshake, workQueue, committed, refused,
                   owner, budget>>

\* A response that cannot be parsed ends the stream.
MalformedResponse ==
    /\ call.toClient # <<>>
    /\ budget.faults < MaxFaults
    /\ budget' = [budget EXCEPT !.faults = @ + 1]
    /\ OnStreamFinish("unavailable")
    /\ UNCHANGED workQueue

\* The call ended with an error and its responses have been read.
CallFinished ==
    /\ call.status \in Errors
    /\ call.toClient = <<>>
    /\ OnStreamFinish(call.status)
    /\ UNCHANGED <<workQueue, budget>>

\* The call ended with OK: GrpcStream::OnOperationFailed asks for the status, after
\* the last response or when a write fails, and OnStreamFinish closes the stream with it.
CallEnded ==
    /\ call.status = "ended"
    /\ call.toClient = <<>> \/ (WriteMayFailFirst /\ Len(call.toServer) > 1)
    /\ CloseGracefully

\* A write fails because the call ended.  GrpcStream::OnOperationFailed then
\* cancels the pending read, whose response is lost, and asks for the status.
WriteFailed ==
    /\ WriteMayFailFirst
    /\ call.status \in Errors
    /\ call.toClient # <<>>
    /\ Len(call.toServer) > 1
    /\ OnStreamFinish(call.status)
    /\ UNCHANGED <<workQueue, budget>>

\* The connection is lost, or the connectivity monitor reports a change:
\* GrpcConnection finishes every call.
ConnectionLost ==
    /\ call.user # NoUser
    /\ budget.faults < MaxFaults
    /\ budget' = [budget EXCEPT !.faults = @ + 1]
    /\ OnStreamFinish("unavailable")
    /\ UNCHANGED workQueue

-----------------------------------------------------------------------------
(* Restarting the process on a durable mutation queue.                     *)

\* initializeWithUser: LocalStore start, then RemoteStore start.
Boot(q) ==
    /\ user' = provider.user
    /\ queue' = q
    /\ nextBatchId' = [nextBatchId EXCEPT ![user'] = NextBatchIdAtStart(user', q, nextBatchId)]
    /\ completions' = {}
    /\ isNetworkEnabled' = TRUE
    /\ streamToken' = savedToken[user']
    /\ pipeline' = FillPipeline(TRUE, q[user'], <<>>)
    /\ stream' = IF pipeline' = <<>> THEN NewStream
                 ELSE Start(NewStream, [closeCount |-> 0, counter |-> provider.counter,
                                        refresh |-> "cached"])
    /\ handshake' = FALSE
    /\ call' = NoCall
    /\ workQueue' = <<>>
    /\ provider' = [provider EXCEPT !.refresh = "cached"]
    /\ budget' = [budget EXCEPT !.restarts = @ + 1]
    /\ failed' = {}
    /\ UNCHANGED <<savedToken, committed, refused, owner>>

Restart ==
    /\ Durable
    /\ budget.restarts < MaxRestarts
    /\ Boot(queue)
    /\ UNCHANGED calls

\* The process dies in applySuccessfulWrite between the completion block and
\* the transaction that takes the batch off the queue.
CrashBeforeAcknowledge ==
    /\ Durable
    /\ budget.restarts < MaxRestarts
    /\ call.toClient # <<>>
    /\ handshake
    /\ pipeline # <<>>
    /\ calls' = IF \E c \in completions : c.user = user /\ c.id = Head(pipeline).id
                THEN Append(calls, [w |-> Head(pipeline).w, result |-> "ok"])
                ELSE calls
    /\ Boot(queue)

-----------------------------------------------------------------------------
Init ==
    /\ user \in Users
    /\ queue = [u \in Users |-> <<>>]
    /\ nextBatchId = [u \in Users |-> IF Durable THEN 0 ELSE 1]
    /\ savedToken = [u \in Users |-> NoUser]
    /\ completions = {}
    /\ isNetworkEnabled = TRUE
    /\ pipeline = <<>>
    /\ stream = NewStream
    /\ handshake = FALSE
    /\ streamToken = NoUser
    /\ failed = {}
    /\ workQueue = <<>>
    /\ provider = [user |-> user, counter |-> 0, refresh |-> "cached", cache |-> "valid"]
    /\ call = NoCall
    /\ committed = <<>>
    /\ refused = {}
    /\ owner = [w \in Writes |-> NoUser]
    /\ calls = <<>>
    /\ budget = [faults |-> 0, auth |-> 0, toggles |-> 0, restarts |-> 0]

\* What the application, the auth system and failures may do at any time.
Environment ==
    \/ \E w \in Writes : WriteMutations(w)
    \/ EnableNetwork
    \/ DisableNetwork
    \/ \E u \in Users : AuthStateDidChange(u)
    \/ TokenExpires
    \/ \E r \in stream.requests : TokenFails(r)
    \/ \E status \in (Errors \ {"unauthenticated"}) \cup {"ended"} : ServerFault(status)
    \/ MalformedResponse
    \/ WriteFailed
    \/ ConnectionLost
    \/ CrashBeforeAcknowledge

\* What the client, the transport and the backend do by themselves.
System ==
    \/ \E r \in stream.requests : TokenArrives(r)
    \/ CredentialDidChange
    \/ StaleTokenCallback
    \/ TokenCallback
    \/ TokenErrorCallback
    \/ ServerHandshake
    \/ ServerCommit
    \/ ServerRefuse
    \/ HandshakeResponse
    \/ MutationResult
    \/ CallFinished
    \/ CallEnded
    \/ BackoffTimeout
    \/ IdleTimeout

\* No HARD_ASSERT of Stream, WriteStream, RemoteStore's write half or the mutation
\* queue has failed, as the comment at remote_store.mm:442 has it of the graceful
\* stop: "Make sure that's desirable".
NoHardAssertFails == failed = {} /\ stream.failed = {}

\* A failed assertion ends the process.
Next == (NoHardAssertFails /\ (Environment \/ System)) \/ Restart

Spec == Init /\ [][Next]_vars

\* The worker queue, timers, Auth, the transport and the backend all make
\* progress.  They never compete for ever: each takes finitely many steps
\* between two steps of the environment.
FairSpec == Spec /\ WF_vars(NoHardAssertFails /\ System)

-----------------------------------------------------------------------------
(* Properties.                                                             *)

UserOrNone == Users \cup {NoUser}
Batch == [id : Nat, w : Writes]

TokenRequest == [closeCount : Nat, counter : Nat, refresh : {"cached", "forced"}]

StreamType == [state      : States,
               closeCount : Nat,
               timers     : SUBSET {"idle", "backoff"},
               requests   : SUBSET TokenRequest,
               failed     : SUBSET STRING]

WorkItem ==
    [op : {"credential"}, user : Users]
    \cup [op : {"token"}, closeCount : Nat, status : {"ok", "unavailable", "aborted"},
          user : Users, token : {"valid", "expired"}]

CallType == [user     : UserOrNone,
             token    : {"valid", "expired"},
             toServer : Seq({Handshake} \cup Writes),
             toClient : Seq({Handshake} \cup Writes),
             status   : Errors \cup {"ok", "ended"}]

AssertMessages == {"batch to remove is not in its place", "batch ids must increase",
                   "stopped gracefully while still needed", "handshake already completed",
                   "read on a stopped stream", "result for an empty write pipeline"}

\* Every variable holds a value of the type of the C++ or Objective-C field it
\* stands for.
TypeOK ==
    /\ queue \in [Users -> Seq(Batch)]
    /\ nextBatchId \in [Users -> Nat]
    /\ savedToken \in [Users -> UserOrNone]
    /\ user \in Users
    /\ completions \subseteq [user : Users, id : Nat, w : Writes]
    /\ isNetworkEnabled \in BOOLEAN
    /\ pipeline \in Seq(Batch)
    /\ stream \in StreamType
    /\ handshake \in BOOLEAN
    /\ streamToken \in UserOrNone
    /\ failed \subseteq AssertMessages
    /\ workQueue \in Seq(WorkItem)
    /\ provider \in [user : Users, counter : Nat, refresh : {"cached", "forced"},
                    cache : {"valid", "expired"}]
    /\ call \in CallType
    /\ committed \in Seq([w : Writes, user : Users])
    /\ refused \subseteq Writes
    /\ owner \in [Writes -> UserOrNone]
    /\ calls \in Seq([w : Writes, result : {"ok", "error"}])
    /\ budget \in [faults : Nat, auth : Nat, toggles : Nat, restarts : Nat]

\* One thing alone makes a HARD_ASSERT of Stream, WriteStream, RemoteStore's write half
\* or the mutation queue fail: the backend ends the call with OK while writes are
\* in the pipeline.  No order of timers, late token callbacks, errors, user changes
\* and network toggles does.
OnlyGracefulEndAborts ==
    /\ stream.failed = {}
    /\ failed # {} => /\ failed = {"stopped gracefully while still needed"}
                      /\ call.status = "ended" /\ pipeline # <<>>

\* The write pipeline is a prefix of the current user's mutation queue, within
\* its capacity, and empty while the network is disabled
\* (FillWritePipeline, DisableNetworkInternal, HandleCredentialChange).
PipelineIsQueuePrefix ==
    /\ Len(pipeline) <= Len(queue[user])
    /\ pipeline = SubSeq(queue[user], 1, Len(pipeline))
    /\ Len(pipeline) <= kMaxPendingWrites
    /\ ~isNetworkEnabled => pipeline = <<>>

\* Once the handshake is complete, the responses and requests in flight are
\* exactly the pipeline, in order.  OnWriteStreamMutationResult correlates a
\* response with the first batch of the pipeline and has nothing else to go by.
InFlightIsPipeline ==
    handshake => call.toClient \o call.toServer = Requests(pipeline)

\* A write's completion block waits under a batch that is still queued for its
\* user, and it is the block of that very write: batch ids that the queue hands
\* out again never replace a waiting block (addMutationCompletionBlock).
BlocksMatchQueue ==
    /\ \A c \in completions : \E i \in 1 .. Len(queue[c.user]) :
          queue[c.user][i].id = c.id /\ queue[c.user][i].w = c.w
    /\ MaxRestarts = 0 =>
          \A u \in Users : \A i \in 1 .. Len(queue[u]) :
              [user |-> u, id |-> queue[u][i].id, w |-> queue[u][i].w] \in completions

\* A completion block that reports success is the block of a write that the
\* backend committed.
SuccessWasCommitted ==
    \A i \in 1 .. Len(calls) :
        calls[i].result = "ok" => \E j \in 1 .. Len(committed) : committed[j].w = calls[i].w

\* A completion block that reports an error is the block of a write that the
\* backend refused and never committed: HandleWriteError rejects the write that
\* "was the problem" (remote_store.mm:501).
ErrorWasRefused ==
    \A i \in 1 .. Len(calls) :
        calls[i].result = "error" =>
            /\ calls[i].w \in refused
            /\ \A j \in 1 .. Len(committed) : committed[j].w # calls[i].w

\* A write is committed with the credentials of the user who made it, and a
\* stream token is saved with the queue of the user it was issued to, however
\* auth notifications, token requests and restarts of the stream interleave.
CredentialsNeverCross ==
    /\ \A j \in 1 .. Len(committed) : committed[j].user = owner[committed[j].w]
    /\ \A u \in Users : savedToken[u] \in {u, NoUser}

\* After its completion block was called (processUserCallbacksForBatchID), the backend
\* does not commit a write, or not again.
NotResentAfterCallback ==
    [][\A i \in 1 .. Len(calls) :
          Len(committed') > Len(committed) => Last1(committed').w # calls[i].w]_vars

\* While the network stays enabled and the process runs, the current user's queue is
\* emptied again and again: no write waits for ever behind a dead stream, a lost timer
\* or a callback that was dropped.
QueueDrains == <>[](isNetworkEnabled /\ NoHardAssertFails) => []<>(queue[user] = <<>>)

\* The write path implements the abstract queue of WriteQueue: the queue of
\* each user is its mutation queue, the log what the backend committed.
Q == INSTANCE WriteQueue WITH
        pending <- [u \in Users |-> Requests(queue[u])],
        log     <- [j \in 1 .. Len(committed) |-> committed[j].w]

ImplementsWriteQueue == Q!Spec

=============================================================================
