------------------------------ MODULE WatchPath ------------------------------
(***************************************************************************)
(* The path of a listen: FSTSyncEngine starts and stops listening to       *)
(* queries, RemoteStore watches their targets on the watch stream, the     *)
(* aggregator turns the backend's messages into one event per global       *)
(* snapshot, and the event moves the views and the persisted query data    *)
(* forward.                                                                *)
(*                                                                         *)
(* Every operation of the client runs on the worker queue and is one       *)
(* action.  Targets keep their ids when they are listened to again, as     *)
(* they do with LRU garbage collection; limbo targets are left out.        *)
(***************************************************************************)
EXTENDS Stream, OnlineStateTracker, WatchChangeAggregator, SequencesExt

CONSTANTS
    Targets,            \* target ids, each of one query
    kResumeTokenMaxAge, \* age of a persisted resume token that is replaced, in versions
    MaxLag,             \* bound: versions that the server of a new call is behind
    MaxVersions,        \* bound: changes of the backend's results
    MaxListens,         \* bound: listens of the application
    MaxFaults,          \* bound: failures of the stream and of tokens
    MaxElisions,        \* bound: removals that the backend leaves to an existence filter
    MaxResets,          \* bound: targets that the backend resets
    MaxErrors,          \* bound: targets that the backend rejects
    MaxToggles,         \* bound: network toggles and credential changes
    MaxRestarts,        \* bound: process restarts
    MaxInFlight         \* bound: responses in flight

ASSUME WatchPathAssumption ==
    /\ IsFiniteSet(Targets) /\ IsFiniteSet(Docs)
    /\ \A n \in {kResumeTokenMaxAge, MaxLag, MaxVersions, MaxListens, MaxFaults, MaxElisions,
                  MaxResets, MaxErrors, MaxToggles, MaxRestarts, MaxInFlight} : n \in Nat

VARIABLES
    \* FSTLocalStore and the persisted query cache
    saved,              \* [Targets -> [token, version, keys]], on disk
    lastRemoteVersion,  \* lastRemoteSnapshotVersion, on disk
    query,              \* [Targets -> [token, version]], _targetIDs
    \* FSTSyncEngine
    view,               \* [Targets -> [keys, current, version]], of the queries
                        \* listened to; version is that of the last event applied
    \* RemoteStore
    isNetworkEnabled,
    listening,          \* the keys of listen_targets_
    resume,             \* [Targets -> the resume token in listen_targets_]
    hasAggregator,      \* watch_change_aggregator_ is set
    targetState,        \* [Targets -> target state], of the aggregator
    resets,             \* pending_target_resets_
    stream,             \* the fields of Stream
    online,             \* the fields of OnlineStateTracker
    failed,             \* failed assertions of RemoteStore and the views
    \* the Listen call and the backend
    toServer, toClient, \* requests and responses in flight
    server,             \* [Targets -> what the backend has sent on this call]
    news,               \* the backend has something to take a snapshot of
    history,            \* Seq([Targets -> SUBSET Docs]): the results at every version
    seen,               \* the version up to which the server of this call has read
    budget              \* what was spent of each bound

disk == <<saved, lastRemoteVersion>>
local == <<query, view>>
remote == <<isNetworkEnabled, listening, resume, hasAggregator, targetState, resets, stream,
            online, failed>>
backend == <<toServer, toClient, server, news, history, seen>>

vars == <<disk, local, remote, backend, budget>>

NoTargets == [t \in Targets |-> NoTarget]

Unserved == [stage |-> "none", sent |-> {}, filterDue |-> FALSE]

NoView == [keys |-> {}, current |-> FALSE, version |-> 0]

Version == Len(history)

\* What the server of this call sends.
Results(t) == history[seen][t]

Spend(what) ==
    /\ budget[what] > 0
    /\ budget' = [budget EXCEPT ![what] = @ - 1]

-----------------------------------------------------------------------------
(* RemoteStore.                                                            *)

\* The GetToken call that RequestCredentials makes.
Request(s) == [closeCount |-> s.closeCount]

ShouldStartWatchStream(net, targets, s) == net /\ ~IsStarted(s) /\ targets # {}

\* Mutant: answers that are due to an earlier listen do not matter.
IsListenedTo(t) == t \in listening

IsActiveTarget(t) == t \in listening /\ ~IsPending(targetState[t])

Watch(t, token) == [op |-> "watch", target |-> t, token |-> token]
Unwatch(t) == [op |-> "unwatch", target |-> t, token |-> 0]

\* OnlineState::Offline makes every view from cache (applyChangedOnlineState).
Broadcast(o) ==
    LET offline == o.state = "Offline" /\ online.state # "Offline"
    IN  view' = [t \in Targets |-> [view[t] EXCEPT !.current = @ /\ ~offline]]

\* StartWatchStream if the stream is needed: a new aggregator, the stream, the
\* tracker.  agg: the aggregator that is there otherwise.
StartWatchStreamIfNeeded(net, targets, s, o, agg) ==
    LET start == ShouldStartWatchStream(net, targets, s)
    IN  /\ stream' = IF start THEN Start(s, Request(s)) ELSE s
        /\ online' = IF start THEN HandleWatchStreamStart(o) ELSE o
        /\ hasAggregator' = (start \/ agg)
        /\ IF start \/ ~agg
           THEN targetState' = NoTargets /\ resets' = {}
           ELSE UNCHANGED <<targetState, resets>>

NoCall ==
    /\ toServer' = <<>>
    /\ toClient' = <<>>
    /\ server' = [t \in Targets |-> Unserved]
    /\ news' = FALSE

\* SendWatchRequest, SendUnwatchRequest through the aggregator that must exist.
Send(t, request) ==
    /\ targetState' = [targetState EXCEPT ![t] = RecordPendingTargetRequest(@)]
    /\ toServer' = Append(toServer, request)
    /\ failed' = failed \cup HardAssert(hasAggregator, "no aggregator")

-----------------------------------------------------------------------------
(* Listening.                                                              *)

\* allocateQuery: the query data in memory is what was saved.
AllocateQuery(t) ==
    query' = [query EXCEPT ![t] = [token |-> saved[t].token, version |-> saved[t].version]]

\* The first view of a query, from cache, with the keys that were saved.
InitializeView(t) == view' = [view EXCEPT ![t] = [NoView EXCEPT !.keys = saved[t].keys]]

\* listenToQuery: allocateQuery, the first view, RemoteStore::Listen.
Listen(t) ==
    /\ t \notin listening
    /\ Spend("listens")
    /\ listening' = listening \cup {t}
    /\ AllocateQuery(t)
    /\ resume' = [resume EXCEPT ![t] = saved[t].token]
    /\ InitializeView(t)
    /\ IF ShouldStartWatchStream(isNetworkEnabled, listening', stream)
       THEN /\ StartWatchStreamIfNeeded(isNetworkEnabled, listening', stream, online, hasAggregator)
            /\ UNCHANGED <<toServer, failed>>
       ELSE IF IsOpen(stream)
       THEN /\ Send(t, Watch(t, saved[t].token))
            /\ stream' = WriteTo(stream)
            /\ UNCHANGED <<online, hasAggregator, resets>>
       ELSE UNCHANGED <<stream, online, hasAggregator, targetState, resets, toServer, failed>>
    /\ UNCHANGED <<disk, isNetworkEnabled, toClient, server, news, history, seen>>

\* releaseQuery: the query data in memory is written back when it is newer.
ReleaseQuery(t) ==
    /\ saved' = [saved EXCEPT ![t] = IF query[t].version > @.version
                                     THEN [@ EXCEPT !.token   = query[t].token,
                                                    !.version = query[t].version]
                                     ELSE @]
    /\ query' = [query EXCEPT ![t] = [token |-> 0, version |-> 0]]

\* removeAndCleanupQuery.
RemoveAndCleanupQuery(t) == view' = [view EXCEPT ![t] = NoView]

\* stopListeningToQuery: releaseQuery, RemoteStore::StopListening, no more view.
StopListening(t) ==
    /\ t \in listening
    /\ listening' = listening \ {t}
    /\ ReleaseQuery(t)
    /\ resume' = [resume EXCEPT ![t] = 0]
    /\ RemoveAndCleanupQuery(t)
    /\ IF IsOpen(stream)
       THEN /\ Send(t, Unwatch(t))
            /\ stream' = IF listening' = {} THEN MarkIdle(WriteTo(stream)) ELSE WriteTo(stream)
       ELSE UNCHANGED <<targetState, toServer, failed, stream>>
    /\ online' = IF listening' = {} /\ ~IsOpen(stream) /\ isNetworkEnabled
                 THEN UpdateState(online, "Unknown") ELSE online
    /\ UNCHANGED <<lastRemoteVersion, isNetworkEnabled, hasAggregator, resets, toClient, server,
                   news, history, seen, budget>>

-----------------------------------------------------------------------------
(* The life of the stream.                                                 *)

GracefulEnd == "stopped gracefully while still needed"

\* Mutant: the stream is not started again.
StaysClosed(status) ==
    LET s == Close(stream, status)
        o == HandleWatchStreamFailure(online)
    IN  /\ StartWatchStreamIfNeeded(FALSE, listening, s, o, FALSE)
        /\ failed' = failed
        /\ Broadcast(o)
        /\ NoCall

\* Stream::Close and RemoteStore::OnWatchStreamClose.  It asserts that a stream that
\* closes with OK is not needed; when it is, the process ends there.
CloseWatchStream(status) ==
    LET s      == Close(stream, status)
        needed == ShouldStartWatchStream(isNetworkEnabled, listening, s)
        o      == IF needed THEN HandleWatchStreamFailure(online)
                            ELSE UpdateState(online, "Unknown")
    IN  IF status = "ok" /\ needed
        THEN /\ failed' = failed \cup {GracefulEnd}
             /\ UNCHANGED <<view, hasAggregator, targetState, resets, stream, online,
                            toServer, toClient, server, news>>
        ELSE /\ failed' = failed
             /\ StartWatchStreamIfNeeded(isNetworkEnabled, listening, s, o, FALSE)
             /\ Broadcast(o)
             /\ NoCall

\* The answer to a GetToken call reaches the stream.  Answers are taken in any
\* order, so those of the worker queue are among them.
StaleTokenCallback(r) ==
    /\ CallbackIsStale(stream, r)
    /\ stream' = [stream EXCEPT !.requests = @ \ {r}]
    /\ UNCHANGED <<disk, local, isNetworkEnabled, listening, resume, hasAggregator, targetState,
                   resets, online, failed, backend, budget>>

\* The stream opens and OnWatchStreamOpen watches every target again, in the
\* order of an unordered map.
TokenCallback(r) ==
    /\ ~CallbackIsStale(stream, r)
    /\ LET opened == ResumeStartWithCredentials([stream EXCEPT !.requests = @ \ {r}])
       IN  stream' = IF listening = {} THEN opened ELSE WriteTo(opened)
    /\ \E targets \in SetToSeqs(listening) :
           toServer' = [i \in 1 .. Len(targets) |-> Watch(targets[i], resume[targets[i]])]
    /\ targetState' = [t \in Targets |->
           IF t \in listening THEN RecordPendingTargetRequest(targetState[t]) ELSE targetState[t]]
    /\ failed' = failed \cup HardAssert(hasAggregator, "no aggregator")
    /\ seen' \in {v \in Version - MaxLag .. Version :
                    v > 0 /\ \A t \in listening : resume[t] <= v}
    /\ UNCHANGED <<disk, local, isNetworkEnabled, listening, resume, hasAggregator, resets,
                   online, toClient, server, news, history, budget>>

TokenErrorCallback(r) ==
    /\ ~CallbackIsStale(stream, r)
    /\ Spend("faults")
    /\ CloseWatchStream("unavailable")
    /\ UNCHANGED <<disk, query, isNetworkEnabled, listening, resume, history, seen>>

\* The call ends with an error or with OK, or a response cannot be parsed.
\* GrpcStream::OnOperationFailed passes on whatever status the call has.
StreamFails(status) ==
    /\ IsOpen(stream)
    /\ Spend("faults")
    /\ CloseWatchStream(status)
    /\ UNCHANGED <<disk, query, isNetworkEnabled, listening, resume, history, seen>>

IdleTimeout ==
    /\ "idle" \in stream.timers
    /\ CloseWatchStream("ok")
    /\ UNCHANGED <<disk, query, isNetworkEnabled, listening, resume, history, seen, budget>>

BackoffTimeout ==
    /\ "backoff" \in stream.timers
    /\ stream' = BackoffElapsed(stream, Request(stream))
    /\ UNCHANGED <<disk, local, isNetworkEnabled, listening, resume, hasAggregator, targetState,
                   resets, online, failed, backend, budget>>

OnlineStateTimeout ==
    /\ online.timer
    /\ online' = OnlineStateTimerElapsed(online)
    /\ Broadcast(online')
    /\ UNCHANGED <<disk, query, isNetworkEnabled, listening, resume, hasAggregator, targetState,
                   resets, stream, failed, backend, budget>>

-----------------------------------------------------------------------------
(* The network.                                                            *)

Stopped == IF StopIsNoOp(stream) THEN stream ELSE Close(stream, "ok")

EnableNetwork ==
    LET start == ShouldStartWatchStream(TRUE, listening, stream)
        o     == IF start THEN online ELSE UpdateState(online, "Unknown")
    IN  /\ Spend("toggles")
        /\ isNetworkEnabled' = TRUE
        /\ StartWatchStreamIfNeeded(TRUE, listening, stream, o, hasAggregator)
        /\ UNCHANGED <<disk, local, listening, resume, failed, backend>>

\* DisableNetwork and DisableNetworkInternal.
DisableNetwork ==
    /\ Spend("toggles")
    /\ isNetworkEnabled' = FALSE
    /\ StartWatchStreamIfNeeded(FALSE, listening, Stopped, UpdateState(online, "Offline"), FALSE)
    /\ Broadcast(online')
    /\ NoCall
    /\ UNCHANGED <<disk, query, listening, resume, failed, history, seen>>

\* HandleCredentialChange.
HandleCredentialChange ==
    /\ isNetworkEnabled
    /\ Spend("toggles")
    /\ StartWatchStreamIfNeeded(TRUE, listening, Stopped, UpdateState(online, "Unknown"), FALSE)
    /\ NoCall
    /\ UNCHANGED <<disk, local, isNetworkEnabled, listening, resume, failed, history, seen>>

\* The process starts again from what is on disk.
Restart ==
    /\ Spend("restarts")
    /\ listening' = {}
    /\ query' = [t \in Targets |-> [token |-> 0, version |-> 0]]
    /\ view' = [t \in Targets |-> NoView]
    /\ resume' = [t \in Targets |-> 0]
    /\ isNetworkEnabled' = TRUE
    /\ hasAggregator' = FALSE
    /\ targetState' = NoTargets
    /\ resets' = {}
    /\ stream' = NewStream
    /\ online' = NewTracker
    /\ failed' = {}
    /\ NoCall
    /\ UNCHANGED <<disk, history, seen>>

-----------------------------------------------------------------------------
(* Responses: OnWatchStreamChange.                                         *)

Response == Head(toClient)

\* A message of one of these kinds is read; the connection is online.
Read(ops) ==
    /\ toClient # <<>>
    /\ Response.op \in ops
    /\ toClient' = Tail(toClient)
    /\ online' = UpdateState(online, "Online")

OnTargetChange ==
    /\ Read({"added", "removed", "current", "reset"})
    /\ LET t == Response.target
           s == EnsureTargetState(targetState[t])
       IN  targetState' = [targetState EXCEPT ![t] =
              CASE Response.op = "added"   -> TargetAdded(s)
                [] Response.op = "removed" -> TargetRemoved(s)
                [] Response.op = "current" /\ IsActiveTarget(t)
                                           -> UpdateResumeToken(MarkCurrent(s), Response.n)
                [] Response.op = "reset" /\ IsActiveTarget(t)
                                           -> ResetTarget(view[t].keys)
                [] OTHER                   -> s]
    /\ UNCHANGED <<disk, local, isNetworkEnabled, listening, resume, hasAggregator, resets,
                   stream, failed, toServer, server, news, history, seen, budget>>

OnDocumentChange ==
    /\ Read({"add", "remove"})
    /\ LET t == Response.target
           s == EnsureTargetState(targetState[t])
       IN  targetState' = [targetState EXCEPT ![t] =
              IF ~IsActiveTarget(t) THEN @
              ELSE IF Response.op = "add" THEN AddDocumentToTarget(s, Response.doc, view[t].keys)
              ELSE RemoveDocumentFromTarget(s, Response.doc, view[t].keys)]
    /\ UNCHANGED <<disk, local, isNetworkEnabled, listening, resume, hasAggregator, resets,
                   stream, failed, toServer, server, news, history, seen, budget>>

\* A mismatch resets the target; the next snapshot watches it again.
OnExistenceFilter ==
    /\ Read({"filter"})
    /\ LET t        == Response.target
           count    == GetCurrentDocumentCountForTarget(targetState[t], view[t].keys)
           mismatch == IsActiveTarget(t) /\ count # Response.n
       IN  /\ targetState' = [targetState EXCEPT ![t] =
                 IF mismatch THEN ResetTarget(view[t].keys)
                 ELSE IF IsActiveTarget(t) THEN EnsureTargetState(@) ELSE @]
           /\ resets' = IF mismatch THEN resets \cup {t} ELSE resets
    /\ UNCHANGED <<disk, local, isNetworkEnabled, listening, resume, hasAggregator, stream,
                   failed, toServer, server, news, history, seen, budget>>

\* rejectListenWithTargetID for a query.
RejectListen(t) == ReleaseQuery(t) /\ RemoveAndCleanupQuery(t)

\* ProcessTargetError; a target that is not listened to any more is ignored.
OnTargetError ==
    /\ Read({"error"})
    /\ LET t == Response.target
       IN  IF t \in listening
           THEN /\ listening' = listening \ {t}
                /\ targetState' = [targetState EXCEPT ![t] = NoTarget]
                /\ resume' = [resume EXCEPT ![t] = 0]
                /\ RejectListen(t)
           ELSE UNCHANGED <<listening, targetState, saved, query, resume, view>>
    /\ UNCHANGED <<lastRemoteVersion, isNetworkEnabled, hasAggregator, resets, stream, failed,
                   toServer, server, news, history, seen, budget>>

\* shouldPersistQueryData, for a change s of a target whose query data was old.
ShouldPersistQueryData(old, s, version) ==
    \/ old.token = 0
    \/ version - old.version >= kResumeTokenMaxAge
    \/ s.changes # NoChanges

\* HandleTargetChange, NoChange, for all targets: the message that carries a
\* global snapshot has a resume token for every active one.
TokensNoted ==
    [t \in Targets |->
        IF targetState[t].known /\ IsActiveTarget(t)
        THEN UpdateResumeToken(targetState[t], Response.n) ELSE targetState[t]]

\* A global snapshot that is older than the last one is not raised.
IgnoredSnapshot ==
    /\ Read({"snapshot"})
    /\ Response.n < lastRemoteVersion
    /\ targetState' = TokensNoted
    /\ UNCHANGED <<disk, local, isNetworkEnabled, listening, resume, hasAggregator, resets,
                   stream, failed, toServer, server, news, history, seen, budget>>

\* The targets for which CreateRemoteEvent makes a target change.
ChangedTargets(state) == {t \in Targets : IsActiveTarget(t) /\ state[t].dirty}

\* applyRemoteEvent of the local store: the keys of a changed target are saved at
\* once, its token in memory always and on disk when it is worth it.
ApplyRemoteEvent(state, v) ==
    LET tokens     == {t \in ChangedTargets(state) : state[t].token # 0}
        data(t)    == [token |-> state[t].token, version |-> v]
        persist(t) == t \in tokens /\ ShouldPersistQueryData(query[t], state[t], v)
    IN  /\ query' = [t \in Targets |-> IF t \in tokens THEN data(t) ELSE query[t]]
        /\ saved' = [t \in Targets |->
              IF t \notin ChangedTargets(state) THEN saved[t]
              ELSE [token   |-> IF persist(t) THEN state[t].token ELSE saved[t].token,
                    version |-> IF persist(t) THEN v ELSE saved[t].version,
                    keys    |-> KeysAfter(state[t], saved[t].keys)]]
        /\ lastRemoteVersion' = v

\* emitNewSnapshotsAndNotifyLocalStoreWithChanges: every view takes its change.
EmitNewSnapshots(state, v) ==
    /\ view' = [t \in Targets |->
          IF t \notin ChangedTargets(state) THEN view[t]
          ELSE [keys    |-> KeysAfter(state[t], view[t].keys),
                current |-> state[t].current,
                version |-> v]]
    /\ failed' = failed
          \cup HardAssert(\A t \in ChangedTargets(state) :
                             Having(state[t], "modified") \subseteq view[t].keys,
                          "modified document not found in view")

\* An unwatch and a watch request for each target in turn.
WatchAgain(order) ==
    [i \in 1 .. 2 * Len(order) |->
        IF i % 2 = 1 THEN Unwatch(order[(i + 1) \div 2]) ELSE Watch(order[i \div 2], 0)]

\* RaiseWatchSnapshot: CreateRemoteEvent, the resume tokens in memory, a new
\* watch for every mismatch, and then the event is applied.
RaiseWatchSnapshot ==
    LET v       == Response.n
        state   == TokensNoted
        changed == ChangedTargets(state)
        rewatch == resets \cap listening
    IN  /\ Read({"snapshot"})
        /\ v >= lastRemoteVersion
        /\ resume' = [t \in Targets |->
              IF t \in rewatch THEN 0
              ELSE IF t \in changed /\ state[t].token # 0 THEN state[t].token
              ELSE resume[t]]
        /\ targetState' = [t \in Targets |->
              LET s == IF t \in changed THEN ClearPendingChanges(state[t]) ELSE state[t]
              IN  IF t \in rewatch
                  THEN RecordPendingTargetRequest(RecordPendingTargetRequest(s))
                  ELSE s]
        /\ \E order \in SetToSeqs(rewatch) : toServer' = toServer \o WatchAgain(order)
        /\ stream' = IF rewatch = {} THEN stream ELSE WriteTo(stream)
        /\ resets' = {}
        /\ ApplyRemoteEvent(state, v)
        /\ EmitNewSnapshots(state, v)
        /\ UNCHANGED <<isNetworkEnabled, listening, hasAggregator, server, news, history, seen,
                       budget>>

-----------------------------------------------------------------------------
(* The backend (external).  It answers requests in order.  For a watched   *)
(* target it sends the difference between what it has sent and the present *)
(* results, then CURRENT.  A global snapshot is consistent: every target   *)
(* has been sent all it has at that version.  The backend may leave a      *)
(* removal to an existence filter, and it sends a filter for a target that *)
(* it resumes; the snapshot follows the filters.                           *)

Message(op, t, d, n) == [op |-> op, target |-> t, doc |-> d, n |-> n]

Reply(messages) ==
    /\ IsOpen(stream)
    /\ Len(toClient) < MaxInFlight
    /\ toClient' = toClient \o messages

Answer(op, t, d, n) ==
    /\ Reply(<<Message(op, t, d, n)>>)
    /\ news' = TRUE
    /\ UNCHANGED <<disk, local, remote, history, seen>>

NoOne == "none"       \* of a message that is not about a target or a document

ServerWatch ==
    /\ toServer # <<>>
    /\ Head(toServer).op = "watch"
    /\ Head(toServer).token <= seen
    /\ toServer' = Tail(toServer)
    /\ LET t     == Head(toServer).target
           token == Head(toServer).token
           had   == IF token = 0 THEN {} ELSE history[token][t]
       IN  /\ Answer("added", t, NoOne, 0)
           /\ server' = [server EXCEPT ![t] = [Unserved EXCEPT !.stage = "loading",
                                                               !.sent = had,
                                                               !.filterDue = token # 0]]
    /\ UNCHANGED budget

ServerReject ==
    /\ toServer # <<>>
    /\ Head(toServer).op = "watch"
    /\ toServer' = Tail(toServer)
    /\ Spend("errors")
    /\ Answer("error", Head(toServer).target, NoOne, 0)
    /\ UNCHANGED server

ServerUnwatch ==
    /\ toServer # <<>>
    /\ Head(toServer).op = "unwatch"
    /\ toServer' = Tail(toServer)
    /\ Answer("removed", Head(toServer).target, NoOne, 0)
    /\ server' = [server EXCEPT ![Head(toServer).target] = Unserved]
    /\ UNCHANGED budget

Served(t) == server[t].stage # "none"
Synced(t) == server[t].sent = Results(t)

ServerAdd(t, d) ==
    /\ Served(t)
    /\ d \in Results(t) \ server[t].sent
    /\ Answer("add", t, d, 0)
    /\ server' = [server EXCEPT ![t].sent = @ \cup {d}]
    /\ UNCHANGED <<toServer, budget>>

ServerRemove(t, d) ==
    /\ Served(t)
    /\ d \in server[t].sent \ Results(t)
    /\ Answer("remove", t, d, 0)
    /\ server' = [server EXCEPT ![t].sent = @ \ {d}]
    /\ UNCHANGED <<toServer, budget>>

\* The backend leaves a removal to an existence filter.
ServerElide(t, d) ==
    /\ Served(t)
    /\ d \in server[t].sent \ Results(t)
    /\ Spend("elisions")
    /\ server' = [server EXCEPT ![t].sent = @ \ {d}, ![t].filterDue = TRUE]
    /\ UNCHANGED <<disk, local, remote, toServer, toClient, news, history, seen>>

ServerCurrent(t) ==
    /\ server[t].stage = "loading"
    /\ Synced(t)
    /\ ~server[t].filterDue
    /\ Answer("current", t, NoOne, seen)
    /\ server' = [server EXCEPT ![t].stage = "current"]
    /\ UNCHANGED <<toServer, budget>>

ServerReset(t) ==
    /\ Served(t)
    /\ Spend("resets")
    /\ Answer("reset", t, NoOne, 0)
    /\ server' = [server EXCEPT ![t] = [Unserved EXCEPT !.stage = "loading"]]
    /\ UNCHANGED toServer

\* The filters that are due and a global snapshot.
ServerSnapshot ==
    LET Filter(t) == Message("filter", t, NoOne, Cardinality(Results(t)))
    IN  /\ news
        /\ \E t \in Targets : Served(t)
        /\ \A t \in Targets : Served(t) => Synced(t)
        /\ \E due \in SetToSeqs({t \in Targets : server[t].filterDue}) :
              Reply([i \in 1 .. Len(due) |-> Filter(due[i])]
                    \o <<Message("snapshot", NoOne, NoOne, seen)>>)
        /\ server' = [t \in Targets |-> [server[t] EXCEPT !.filterDue = FALSE]]
        /\ news' = FALSE
        /\ UNCHANGED <<disk, local, remote, toServer, history, seen, budget>>

\* A document enters or leaves the results of a query.
BackendChange(t, d) ==
    /\ Spend("versions")
    /\ history' = Append(history, [history[Version] EXCEPT ![t] =
                                      IF d \in @ THEN @ \ {d} ELSE @ \cup {d}])
    /\ seen' = IF seen = Version THEN Version + 1 ELSE seen
    /\ news' = TRUE
    /\ UNCHANGED <<disk, local, remote, toServer, toClient, server>>

\* A server that was behind reads on.
ServerCatchUp ==
    /\ seen < Version
    /\ seen' = seen + 1
    /\ news' = TRUE
    /\ UNCHANGED <<disk, local, remote, toServer, toClient, server, history, budget>>

-----------------------------------------------------------------------------
Init ==
    /\ saved = [t \in Targets |-> [token |-> 0, version |-> 0, keys |-> {}]]
    /\ lastRemoteVersion = 0
    /\ query = [t \in Targets |-> [token |-> 0, version |-> 0]]
    /\ view = [t \in Targets |-> NoView]
    /\ isNetworkEnabled = TRUE
    /\ listening = {}
    /\ resume = [t \in Targets |-> 0]
    /\ hasAggregator = FALSE
    /\ targetState = NoTargets
    /\ resets = {}
    /\ stream = NewStream
    /\ online = NewTracker
    /\ failed = {}
    /\ toServer = <<>>
    /\ toClient = <<>>
    /\ server = [t \in Targets |-> Unserved]
    /\ news = FALSE
    /\ history = <<[t \in Targets |-> {}]>>
    /\ seen = 1
    /\ budget = [versions |-> MaxVersions, listens |-> MaxListens, faults |-> MaxFaults,
                 elisions |-> MaxElisions, resets |-> MaxResets, errors |-> MaxErrors,
                 toggles |-> MaxToggles, restarts |-> MaxRestarts]

Environment ==
    \/ \E t \in Targets : Listen(t) \/ StopListening(t)
    \/ EnableNetwork
    \/ DisableNetwork
    \/ HandleCredentialChange
    \/ \E r \in stream.requests : TokenErrorCallback(r)
    \/ \E status \in {"unavailable", "ok"} : StreamFails(status)
    \/ OnlineStateTimeout
    \/ ServerReject
    \/ \E t \in Targets : ServerReset(t)
    \/ \E t \in Targets, d \in Docs : ServerElide(t, d) \/ BackendChange(t, d)

System ==
    \/ \E r \in stream.requests : StaleTokenCallback(r) \/ TokenCallback(r)
    \/ IdleTimeout
    \/ BackoffTimeout
    \/ OnTargetChange
    \/ OnDocumentChange
    \/ OnExistenceFilter
    \/ OnTargetError
    \/ IgnoredSnapshot
    \/ RaiseWatchSnapshot
    \/ ServerWatch
    \/ ServerUnwatch
    \/ \E t \in Targets, d \in Docs : ServerAdd(t, d) \/ ServerRemove(t, d)
    \/ \E t \in Targets : ServerCurrent(t)
    \/ ServerSnapshot
    \/ ServerCatchUp

\* No HARD_ASSERT of Stream, OnlineStateTracker, RemoteStore's watch half, the
\* aggregator or FSTView has failed, as the comment at remote_store.mm:216 has it of the
\* graceful stop: "Make sure that's desirable".
NoHardAssertFails == failed = {} /\ stream.failed = {} /\ online.failed = {}

\* A failed assertion ends the process.
Next == (NoHardAssertFails /\ (Environment \/ System)) \/ Restart

Spec == Init /\ [][Next]_vars

\* The worker queue, the timers of the stream, Auth, the transport and the
\* backend make progress.
FairSpec == Spec /\ WF_vars(NoHardAssertFails /\ System)

-----------------------------------------------------------------------------
(* Properties.                                                             *)

\* One thing alone makes a HARD_ASSERT of Stream, OnlineStateTracker, RemoteStore's watch
\* half, the aggregator or FSTView fail: the backend, and not the idle timer, ends the call
\* with OK while targets are listened to.  The aggregator is there whenever it is used, and
\* a view has every document that an event modifies, also after rejected targets, resets
\* and answers to an earlier listen.
OnlyGracefulEndAborts ==
    /\ stream.failed = {} /\ online.failed = {}
    /\ failed # {} => /\ failed = {GracefulEnd}
                      /\ IsOpen(stream) /\ listening # {} /\ "idle" \notin stream.timers

\* A view that is current (not "from cache") shows exactly the results that the
\* backend had at the version of a global snapshot: never a part of an update,
\* and never changes of an earlier listen, an earlier stream or a reset target.
CurrentViewsAreSnapshots ==
    \A t \in listening : view[t].current => view[t].keys = history[view[t].version][t]

Count(seq, t, ops) ==
    Cardinality({i \in 1 .. Len(seq) : seq[i].target = t /\ seq[i].op \in ops})

\* "The number of outstanding responses (adds or removes) that we are waiting on"
\* (remote_event.h): the count is the number of requests and answers in flight,
\* so that a target is active again when the last answer has been read.
OutstandingIsInFlight ==
    IsOpen(stream) => \A t \in Targets :
        targetState[t].outstanding = Count(toServer, t, {"watch", "unwatch"})
                                     + Count(toClient, t, {"added", "removed", "error"})

\* The connection is online only while the stream is open, offline while the
\* network is disabled, and the timer that gives up waits only while it is unknown.
OnlineStateMatchesStream ==
    /\ online.state = "Online" => IsOpen(stream)
    /\ ~isNetworkEnabled => online.state = "Offline"
    /\ online.timer => online.state = "Unknown" /\ IsStarted(stream)

\* The resume token on disk goes with the keys on disk: a document that has been
\* in the results ever since the token's version is among the keys, so that
\* resuming from the token misses nothing.
SavedTokenMissesNothing ==
    \A t \in Targets : saved[t].token # 0 =>
        \A d \in Docs :
            (\A v \in saved[t].token .. Version : d \in history[v][t]) => d \in saved[t].keys

\* Once the application and the network leave it in peace, every listener ends up with the
\* backend's present results, and knows that it has, as long as the process runs.
ListenersCatchUp ==
    <>[](isNetworkEnabled /\ NoHardAssertFails) =>
        <>[](\A t \in listening : view[t].current /\ view[t].keys = history[Version][t])
=============================================================================
