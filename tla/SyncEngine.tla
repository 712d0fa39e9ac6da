------------------------------ MODULE SyncEngine ------------------------------
(***************************************************************************)
(* FSTSyncEngine, FSTEventManager and the listeners over the documents of  *)
(* FSTLocalStore: views are kept up to date with local writes and remote   *)
(* events, documents in limbo are resolved by targets of their own, and    *)
(* listeners are told.  Everything runs on the worker queue; an action is  *)
(* a whole operation on it.                                                *)
(*                                                                         *)
(* The backend is a content for every key as the watch service knows it,   *)
(* and a commit of ours that the watch service has not seen yet.  The      *)
(* target of a query is the query, the limbo target of a key is the key:   *)
(* the ids of the generators are fresh, and an id that is no longer        *)
(* watched is not mentioned again.                                         *)
(***************************************************************************)
EXTENDS QueryListener

CONSTANTS
    Queries,    \* the queries, with their targets
    LimitOf,    \* [Queries -> limit]
    Listeners,  \* the application's listeners
    OptionsOf,  \* [Listeners -> options]
    Cached,     \* what an earlier session may have left in the cache for a key
    Stored,     \* what the backend may have for a key at the start
    MaxInputs   \* bound: inputs that the rest of the world does not owe us

OnlineStates == {"Unknown", "Online", "Offline"}

Options == [documentMetadata : BOOLEAN, queryMetadata : BOOLEAN, waitForSync : BOOLEAN]

\* QueryListener, with what its application has heard.
Listener == [query : Queries, options : Options, raised : BOOLEAN, online : OnlineStates,
             snapshot : Snapshot \cup {None}, heard : Documents, fromCache : BOOLEAN \cup {None}]

\* The content of a key, FSTMutationBatch, and a commit.
Contents == Values \cup {NoDoc}
Batch == [val : Contents, stage : {"queued", "committed", "seen"}, result : Contents \cup {None}]
Committed == [val : Contents]

ASSUME SyncEngineAssumption ==
    /\ Queries \cap Keys = {} /\ IsFiniteSet(Queries)
    /\ LimitOf \in [Queries -> Nat \cup {NoLimit}]
    /\ OptionsOf \in [Listeners -> Options]
    /\ Cached \cup Stored \subseteq Contents
    /\ MaxInputs \in Nat
    /\ None \notin Contents /\ None \notin Listener /\ None \notin Batch /\ None \notin Committed

VARIABLES
    watch,          \* [Keys -> content, or NoDoc] as the watch service knows it
    owed,           \* [Keys -> None, or the commit the watch service has not seen]
    cache,          \* the remote document cache: [Keys -> [val, committed]]
    pending,        \* [Keys -> the batch in the mutation queue, or None]
    remoteKeys,     \* the query cache: [Queries -> SUBSET Keys]
    views,          \* queryViewsByQuery: [Queries -> view, or None]
    limboTargets,   \* _limboTargetsByKey
    resolutions,    \* _limboResolutionsByTarget: key -> document_received
    limboRefs,      \* _limboDocumentRefs: SUBSET (Keys \X Queries)
    watched,        \* RemoteStore's listen_targets_
    caughtUp,       \* the targets that are current on this watch stream
    online,         \* onlineState
    snapshots,      \* the last snapshot of each query in _queries
    listeners,      \* [Listeners -> listener, or None]
    inputs,         \* inputs so far
    failed          \* failed assertions

backendVars == <<watch, owed>>
storeVars == <<cache, pending, remoteKeys>>
limboVars == <<limboTargets, resolutions, limboRefs, watched, caughtUp>>
engineVars == <<views, snapshots, listeners, limboVars, failed>>
vars == <<backendVars, storeVars, engineVars, online, inputs>>

\* The active queries: the keys of queryViewsByQuery.
Active == {q \in Queries : views[q] # None}

\* q is a key of _queries.
IsTracked(ls, q) == \E l \in Listeners : ls[l] # None /\ ls[l].query = q

\* What the sync engine and the remote store know of the targets that are watched.
Books == [limboTargets |-> limboTargets, resolutions |-> resolutions, limboRefs |-> limboRefs,
          watched |-> watched, caughtUp |-> caughtUp, failed |-> failed]

KeepBooks(books) == \E b \in {books} :
    /\ limboTargets' = b.limboTargets /\ resolutions' = b.resolutions /\ limboRefs' = b.limboRefs
    /\ watched' = b.watched /\ caughtUp' = b.caughtUp /\ failed' = b.failed

Fail(b, fails) == [b EXCEPT !.failed = @ \cup fails]

\* StopListening of the remote store, or the end of targets by the backend.
Unwatch(b, targets) == [b EXCEPT !.watched = @ \ targets, !.caughtUp = @ \ targets]

-----------------------------------------------------------------------------
(* The documents of the local store.                                       *)

\* LocalDocumentsView: the pending write on top of the cached document.
LocalDoc(c, p) ==
    CASE p # None /\ p.val = NoDoc -> NoDoc
      [] p # None /\ p.val # NoDoc -> [val |-> p.val, local |-> TRUE, committed |-> FALSE]
      [] p = None /\ c.val = NoDoc -> NoDoc
      [] p = None /\ c.val # NoDoc -> [val |-> c.val, local |-> FALSE, committed |-> c.committed]

LocalDocs(c, p, keys) == [k \in keys |-> LocalDoc(c[k], p[k])]

\* executeQuery: the documents that match, without the limit.
ExecuteQuery(c, p, q) ==
    LET docs == LocalDocs(c, p, Keys)
    IN  [k \in {j \in KeysOf(docs) : Matches(q, docs[j].val)} |-> docs[k]]

\* The content of a key in a remote event is applied unless the cached document is
\* the result of a commit that the event does not know of.
IsOutdated(k) == owed[k] # None /\ cache[k].committed

ApplyUpdates(c, updates) ==
    [k \in Keys |-> IF k \in DOMAIN updates THEN [val |-> updates[k], committed |-> FALSE] ELSE c[k]]

\* The commit of a batch has come back by the watch service.
MarkSeen(p, keys) ==
    [k \in Keys |-> IF p[k] # None /\ k \in keys /\ owed[k] = None /\ p[k].stage = "committed"
                    THEN [p[k] EXCEPT !.stage = "seen"] ELSE p[k]]

-----------------------------------------------------------------------------
(* Limbo resolution.                                                       *)

\* removeLimboTargetForKey for the keys.
RemoveLimboTargets(b, keys) ==
    LET ended == keys \cap b.limboTargets
    IN  Fail([Unwatch(b, ended) EXCEPT !.limboTargets = @ \ ended,
                                       !.resolutions = [k \in DOMAIN @ \ ended |-> @[k]]],
             HardAssert(ended \subseteq b.watched, "StopListening: target not watched"))

\* The books after the keys have got targets, which are to be new.
Listen(b, keys) ==
    Fail([b EXCEPT !.watched = @ \cup keys, !.limboTargets = @ \cup keys,
                   !.resolutions = [k \in DOMAIN @ \cup keys |-> IF k \in keys THEN FALSE ELSE @[k]]],
         HardAssert(keys \cap b.watched = {}, "Listen: duplicate target"))

\* Mutant: the target is listened to for every view that needs it.
TrackAlways(b, keys) == Listen(b, keys)
\* trackLimboChange for the keys.
TrackLimboChanges(b, keys) == Listen(b, keys \ b.limboTargets)

\* The orders in which a dictionary of the queries may be enumerated.
Orders == {order \in [Queries -> 1..Cardinality(Queries)] :
            \A q, r \in Queries : order[q] = order[r] => q = r}

\* The keys that lose their last reference: no view that keeps it holds one, and
\* the views that ask for the key come later in the enumeration.
Orphans(kept, released, requested, order) ==
    {k \in Keys : /\ \E q \in Queries : <<k, q>> \in released
                  /\ \A q \in Queries : <<k, q>> \notin kept
                  /\ \A q, r \in Queries :
                        <<k, q>> \in released /\ <<k, r>> \in requested => order[q] < order[r]}

\* updateTrackedLimboDocumentsWithChanges for the views, given the orphans.
UpdateTrackedLimbo(b, released, requested, orphans) ==
    TrackLimboChanges(
        RemoveLimboTargets([b EXCEPT !.limboRefs = (@ \ released) \cup requested], orphans),
        {k \in Keys : \E q \in Queries : <<k, q>> \in requested})

\* removeAndCleanupQuery.
\* Mutant: the references are forgotten, not released.
DropReferences(b, q) == [b EXCEPT !.limboRefs = {r \in @ : r[2] # q}]
RemoveAndCleanupQuery(b, q) ==
    LET kept == {r \in b.limboRefs : r[2] # q}
    IN  RemoveLimboTargets([b EXCEPT !.limboRefs = kept],
                           {k \in Keys : /\ <<k, q>> \in b.limboRefs
                                         /\ \A r \in Queries : <<k, r>> \notin kept})

-----------------------------------------------------------------------------
(* Snapshots.                                                              *)

\* handleViewSnapshots, given the listeners and, for some queries, a snapshot or None.
IsShown(shots, q) == q \in DOMAIN shots /\ shots[q] # None

Shown(ls, shots) ==
    [q \in Queries |-> IF IsShown(shots, q) /\ IsTracked(ls, q) THEN shots[q] ELSE snapshots[q]]

Told(ls, shots) ==
    [l \in Listeners |-> IF ls[l] # None /\ IsShown(shots, ls[l].query)
                         THEN OnViewSnapshot(ls[l], shots[ls[l].query]) ELSE ls[l]]

HandleViewSnapshots(ls, shots) ==
    /\ snapshots' = Shown(ls, shots)
    /\ listeners' = Told(ls, shots)

\* The assertions of OnViewSnapshot.
ShowFails(ls, shots) ==
    HardAssert(\A l \in Listeners : ls[l] # None /\ IsShown(shots, ls[l].query)
                                        => ~IsEmptySnapshot(shots[ls[l].query]),
               "new snapshot with no changes")

\* The body of the loop of emitNewSnapshotsAndNotifyLocalStore up to the snapshot,
\* given the cache and the batches after the change, the changed keys and the target
\* changes of the event: [view, snapshot, fails].
\* Mutant: a view with a limit is not refilled.
NewSnapshotWithoutRefill(q, c, p, keys, targetChanges) ==
    LET computed == ComputeChanges(views[q], q, LimitOf[q], LocalDocs(c, p, keys), Unchanged(views[q]))
        change == IF q \in DOMAIN targetChanges THEN targetChanges[q] ELSE None
    IN  ApplyChanges(views[q], computed, change)
NewSnapshot(q, c, p, keys, targetChanges) ==
    LET view == views[q]
        first == ComputeChanges(view, q, LimitOf[q], LocalDocs(c, p, keys), Unchanged(view))
        computed == IF first.refill
                    THEN ComputeChanges(view, q, LimitOf[q], ExecuteQuery(c, p, q), first)
                    ELSE first
        change == IF q \in DOMAIN targetChanges THEN targetChanges[q] ELSE None
    IN  ApplyChanges(view, computed, change)

\* emitNewSnapshotsAndNotifyLocalStore: the loop over the views, in any order, and the
\* snapshots after it.
Emit(b, c, p, keys, targetChanges) ==
    \E new \in {[q \in Active |-> NewSnapshot(q, c, p, keys, targetChanges)]} :
        LET shots == [q \in Active |-> new[q].snapshot]
            released == {r \in Keys \X Active : r[1] \in views[r[2]].limbo \ new[r[2]].view.limbo}
            requested == {r \in Keys \X Active : r[1] \in new[r[2]].view.limbo \ views[r[2]].limbo}
            fails == (UNION {new[q].fails : q \in Active}) \cup ShowFails(listeners, shots)
        IN  /\ views' = [q \in Queries |-> IF q \in Active THEN new[q].view ELSE None]
            /\ HandleViewSnapshots(listeners, shots)
            /\ \E orphans \in {Orphans(b.limboRefs \ released, released, requested, order) : order \in Orders} :
                    KeepBooks(Fail(UpdateTrackedLimbo(b, released, requested, orphans), fails))

NoTargets == [q \in {} |-> None]

-----------------------------------------------------------------------------
(* The application.                                                        *)

Input == inputs < MaxInputs /\ inputs' = inputs + 1

\* initializeViewAndComputeSnapshot, handleViewSnapshots and Listen.
ListenToQuery(ls, q) ==
    LET view == NewView(remoteKeys[q])
        computed == ComputeChanges(view, q, LimitOf[q], ExecuteQuery(cache, pending, q), Unchanged(view))
        applied == ApplyChanges(view, computed, None)
        shots == [r \in {q} |-> applied.snapshot]
    IN  /\ views' = [views EXCEPT ![q] = applied.view]
        /\ HandleViewSnapshots(ls, shots)
        /\ KeepBooks(Fail([Books EXCEPT !.watched = @ \cup {q}],
             applied.fails \cup ShowFails(ls, shots)
             \cup HardAssert(views[q] = None, "we already listen to the query")
             \cup HardAssert(applied.view.limbo = {}, "limbo before target ack")
             \cup HardAssert(applied.snapshot # None, "no snapshot for a new view")
             \cup HardAssert(q \notin watched, "Listen: duplicate target")))

\* FSTEventManager addListener.
\* Mutant: a second listener waits for the next snapshot.
AddListenerQuietly(l, q) ==
    /\ Input
    /\ listeners[l] = None
    /\ LET new == OnOnlineStateChanged(NewListener(q, OptionsOf[l]), online)
       IN  IF IsTracked(listeners, q)
           THEN /\ listeners' = [listeners EXCEPT ![l] = new]
                /\ UNCHANGED <<views, snapshots, limboVars, failed>>
           ELSE ListenToQuery([listeners EXCEPT ![l] = new], q)
    /\ UNCHANGED <<backendVars, storeVars, online>>
AddListener(l, q) ==
    /\ Input
    /\ listeners[l] = None
    /\ LET new == OnOnlineStateChanged(NewListener(q, OptionsOf[l]), online)
           told == IF snapshots[q] = None THEN new ELSE OnViewSnapshot(new, snapshots[q])
           added == [listeners EXCEPT ![l] = told]
       IN  IF IsTracked(listeners, q)
           THEN /\ listeners' = added
                /\ failed' = failed \cup ShowFails(added, [r \in {q} |-> snapshots[q]])
                /\ UNCHANGED <<views, snapshots, limboVars>>
           ELSE ListenToQuery(added, q)
    /\ UNCHANGED <<backendVars, storeVars, online>>

\* removeListener, and stopListeningToQuery after the last one.
RemoveListener(l) ==
    /\ Input
    /\ listeners[l] # None
    /\ listeners' = [listeners EXCEPT ![l] = None]
    /\ LET q == listeners[l].query
       IN  IF IsTracked(listeners', q) THEN UNCHANGED <<views, snapshots, limboVars, failed>>
           ELSE /\ snapshots' = [snapshots EXCEPT ![q] = None]
                /\ views' = [views EXCEPT ![q] = None]
                /\ KeepBooks(Fail(RemoveAndCleanupQuery(Unwatch(Books, {q}), q),
                                  HardAssert(views[q] # None, "query not found")
                                  \cup HardAssert(q \in watched, "StopListening: target not watched")))
    /\ UNCHANGED <<backendVars, storeVars, online>>

\* writeMutations: a batch that sets or deletes one document.
WriteMutation(k, v) ==
    /\ Input
    /\ pending[k] = None
    /\ pending' = [pending EXCEPT ![k] = [val |-> v, stage |-> "queued", result |-> None]]
    /\ Emit(Books, cache, pending', {k}, NoTargets)
    /\ UNCHANGED <<backendVars, cache, remoteKeys, online>>

\* The backend commits the batch; a transform may give another content than the
\* local estimate.
Commit(k, v) ==
    /\ pending[k] # None /\ pending[k].stage = "queued"
    /\ owed[k] = None
    /\ IF pending[k].val = NoDoc THEN v = NoDoc ELSE v # NoDoc
    /\ owed' = [owed EXCEPT ![k] = [val |-> v]]
    /\ pending' = [pending EXCEPT ![k].stage = "committed", ![k].result = v]
    /\ UNCHANGED <<watch, cache, remoteKeys, engineVars, online, inputs>>

\* The response to the write of k can arrive.
IsAnswered(k) == pending[k] # None /\ pending[k].stage # "queued"

\* applySuccessfulWrite: the result is cached unless the watch service was faster.
Acknowledge(k) ==
    /\ IsAnswered(k)
    /\ pending' = [pending EXCEPT ![k] = None]
    /\ cache' = IF pending[k].stage = "seen" THEN cache
                ELSE [cache EXCEPT ![k] = [val |-> pending[k].result, committed |-> TRUE]]
    /\ Emit(Books, cache', pending', {k}, NoTargets)
    /\ UNCHANGED <<backendVars, remoteKeys, online, inputs>>

\* rejectFailedWrite.
RejectWrite(k) ==
    /\ Input
    /\ pending[k] # None /\ pending[k].stage = "queued"
    /\ pending' = [pending EXCEPT ![k] = None]
    /\ Emit(Books, cache, pending', {k}, NoTargets)
    /\ UNCHANGED <<backendVars, cache, remoteKeys, online>>

-----------------------------------------------------------------------------
(* The backend.                                                            *)

\* The watch service sees our commit.
CatchUp(k) ==
    /\ owed[k] # None
    /\ watch' = [watch EXCEPT ![k] = owed[k].val]
    /\ owed' = [owed EXCEPT ![k] = None]
    /\ UNCHANGED <<storeVars, engineVars, online, inputs>>

\* A commit of ours has not come back by the watch service.
IsUndelivered(k) == cache[k].committed \/ (pending[k] # None /\ pending[k].stage = "committed")

\* Another client writes.  FSTView relies on the watch service to send our own
\* commits again, so none is overwritten before it is delivered.
OtherWrite(k, v) ==
    /\ Input
    /\ owed[k] = None /\ ~IsUndelivered(k)
    /\ watch[k] # v
    /\ watch' = [watch EXCEPT ![k] = v]
    /\ UNCHANGED <<owed, storeVars, engineVars, online>>

\* The result of a query for the watch service.
BackendResult(q) ==
    LET all == [k \in Keys |-> IF watch[k] # NoDoc /\ Matches(q, watch[k])
                               THEN [val |-> watch[k], local |-> FALSE, committed |-> FALSE]
                               ELSE NoDoc]
    IN  KeysOf(all) \ PastLimit(all, LimitOf[q])

TargetChange(added, modified, removed, current) ==
    [added |-> added, modified |-> modified, removed |-> removed, current |-> current]

\* The change of a target that is current, against remoteKeysForTarget.
QueryChange(q) ==
    LET result == BackendResult(q)  known == views[q].synced
    IN  TargetChange(result \ known, result \cap known, known \ result, TRUE)

LimboChange(k) ==
    LET exists == watch[k] # NoDoc  known == resolutions[k]
    IN  TargetChange(IF exists /\ ~known THEN {k} ELSE {}, IF exists /\ known THEN {k} ELSE {},
                     IF ~exists /\ known THEN {k} ELSE {}, TRUE)

\* The documents the aggregator puts into an event: results, deletions, and perhaps
\* documents that left the result because they do not match any more.
MustUpdate(targets) ==
    (targets \cap Keys)
    \cup (UNION {BackendResult(q) : q \in targets \cap Queries})
    \cup {k \in UNION {QueryChange(q).removed : q \in targets \cap Queries} : watch[k] = NoDoc}
MayUpdate(targets) ==
    {k \in Keys : \E q \in targets \cap Queries :
        k \in QueryChange(q).removed /\ watch[k] # NoDoc /\ ~Matches(q, watch[k])}

\* The first loop of applyRemoteEvent.
UpdateReceived(b, changes) ==
    LET limbo == DOMAIN changes \cap DOMAIN b.resolutions
    IN  Fail([b EXCEPT !.resolutions = [k \in DOMAIN @ |->
                IF k \in limbo /\ changes[k].added # {} THEN TRUE
                ELSE IF k \in limbo /\ changes[k].removed # {} THEN FALSE ELSE @[k]]],
             HardAssert(\A k \in limbo : changes[k].modified \cup changes[k].removed # {}
                                            => b.resolutions[k],
                        "limbo document without add"))

\* applyRemoteEvent, with the targets that are current after it, the target changes
\* and the keys whose documents it brings.
ApplyRemoteEvent(current, changes, updated) ==
    LET applied == {k \in updated : ~IsOutdated(k)}
        received == UpdateReceived([Books EXCEPT !.caughtUp = current], changes)
    IN  /\ cache' = ApplyUpdates(cache, [k \in applied |-> watch[k]])
        /\ pending' = MarkSeen(pending, updated)
        /\ remoteKeys' = [q \in Queries |->
                            IF q \in DOMAIN changes
                            THEN (remoteKeys[q] \ changes[q].removed) \cup changes[q].added
                            ELSE remoteKeys[q]]
        /\ Emit(received, cache', pending', applied, changes)

CurrentChange(t) == IF t \in Queries THEN QueryChange(t) ELSE LimboChange(t)

\* The watch service has something to send for the targets.
IsDue(targets) ==
    \/ targets # caughtUp
    \/ \E t \in targets : CurrentChange(t).added \cup CurrentChange(t).removed # {}
    \/ \E k \in MustUpdate(targets) : ~IsOutdated(k) /\ cache[k] # [val |-> watch[k], committed |-> FALSE]

\* A snapshot: the targets that are current have all changes up to now, and some
\* more become current.
Deliver(more) ==
    LET targets == caughtUp \cup more IN
    /\ online = "Online" /\ IsDue(targets)
    /\ \E left \in SUBSET MayUpdate(targets) :
        ApplyRemoteEvent(targets, [t \in targets |-> CurrentChange(t)], MustUpdate(targets) \cup left)
    /\ UNCHANGED <<backendVars, online, inputs>>

\* A snapshot that brings a document of a target before it is current.
DeliverPart(q) ==
    /\ online = "Online" /\ q \in watched \ caughtUp
    /\ \E k \in QueryChange(q).added :
        ApplyRemoteEvent(caughtUp,
                         [t \in caughtUp \cup {q} |->
                            IF t = q THEN TargetChange({k}, {}, {}, FALSE) ELSE CurrentChange(t)],
                         MustUpdate(caughtUp) \cup {k})
    /\ UNCHANGED <<backendVars, online, inputs>>

\* An existence filter mismatch: the target starts again without documents.
ResetTarget(q) ==
    /\ Input
    /\ online = "Online" /\ q \in watched
    /\ ApplyRemoteEvent(caughtUp \ {q}, [t \in {q} |-> TargetChange({}, {}, views[q].synced, FALSE)], {})
    /\ UNCHANGED <<backendVars, online>>

\* rejectListen of a query: FSTEventManager handleError takes all its listeners off.
RejectQuery(q) ==
    /\ Input
    /\ online = "Online" /\ q \in watched
    /\ views' = [views EXCEPT ![q] = None]
    /\ snapshots' = [snapshots EXCEPT ![q] = None]
    /\ listeners' = [l \in Listeners |->
                        IF listeners[l] # None /\ listeners[l].query = q THEN None ELSE listeners[l]]
    /\ KeepBooks(Fail(RemoveAndCleanupQuery(Unwatch(Books, {q}), q),
                      HardAssert(views[q] # None, "unknown target")))
    /\ UNCHANGED <<backendVars, storeVars, online>>

\* rejectListen of a limbo target: the document is taken to be deleted.
RejectLimbo(k) ==
    /\ Input
    /\ online = "Online" /\ k \in watched
    /\ cache' = [cache EXCEPT ![k] = [val |-> NoDoc, committed |-> FALSE]]
    /\ Emit([Unwatch(Books, {k}) EXCEPT !.limboTargets = @ \ {k},
                                        !.resolutions = [j \in DOMAIN @ \ {k} |-> @[j]]],
            cache', pending, {k}, NoTargets)
    /\ UNCHANGED <<backendVars, pending, remoteKeys, online>>

\* applyChangedOnlineState of the sync engine, and of the event manager.
ChangeOnlineState(state) ==
    /\ online # state
    /\ \E new \in {[q \in Active |-> ApplyOnlineState(views[q], state)]} :
        LET shots == [q \in Active |-> new[q].snapshot]
        IN  /\ views' = [q \in Queries |-> IF q \in Active THEN new[q].view ELSE None]
            /\ snapshots' = Shown(listeners, shots)
            /\ listeners' = [l \in Listeners |-> IF listeners[l] = None THEN None
                                ELSE OnOnlineStateChanged(Told(listeners, shots)[l], state)]
            /\ failed' = failed \cup (UNION {new[q].fails : q \in Active}) \cup ShowFails(listeners, shots)
                         \cup HardAssert(\A q \in Active : new[q].view.limbo = views[q].limbo,
                                         "online state affects limbo documents")
    /\ caughtUp' = {}
    /\ UNCHANGED <<limboTargets, resolutions, limboRefs, watched>>
    /\ online' = state
    /\ UNCHANGED <<backendVars, storeVars>>

GoOnline == watched # {} /\ ChangeOnlineState("Online") /\ UNCHANGED inputs

LoseConnection == Input /\ \E state \in {"Offline", "Unknown"} : ChangeOnlineState(state)

-----------------------------------------------------------------------------

\* The cache may hold documents of an earlier session, older than the backend's.
Init ==
    /\ watch \in [Keys -> Stored]
    /\ owed = [k \in Keys |-> None]
    /\ cache \in [Keys -> [val : Cached, committed : {FALSE}]]
    /\ pending = [k \in Keys |-> None]
    /\ remoteKeys = [q \in Queries |-> {}]
    /\ views = [q \in Queries |-> None]
    /\ limboTargets = {}
    /\ resolutions = [k \in {} |-> FALSE]
    /\ limboRefs = {}
    /\ watched = {}
    /\ caughtUp = {}
    /\ online = "Unknown"
    /\ snapshots = [q \in Queries |-> None]
    /\ listeners = [l \in Listeners |-> None]
    /\ inputs = 0
    /\ failed = {}

DeliverAll == Deliver(watched)

Next ==
    \/ \E l \in Listeners : RemoveListener(l) \/ \E q \in Queries : AddListener(l, q)
    \/ \E k \in Keys : \E v \in Values \cup {NoDoc} :
            WriteMutation(k, v) \/ Commit(k, v) \/ OtherWrite(k, v)
    \/ \E k \in Keys : Acknowledge(k) \/ RejectWrite(k) \/ CatchUp(k) \/ RejectLimbo(k)
    \/ DeliverAll
    \/ Deliver({})
    \/ \E t \in watched \ caughtUp : Deliver({t})
    \/ \E q \in Queries : DeliverPart(q) \/ ResetTarget(q) \/ RejectQuery(q)
    \/ GoOnline \/ LoseConnection

Spec == Init /\ [][Next]_vars

\* The backend commits, acknowledges and sends; the connection comes back.  Weak
\* fairness of the actions that compute snapshots is written with what enables them,
\* and with what only they do.
FairSpec ==
    /\ Spec
    /\ \A k \in Keys : WF_vars(\E v \in Values \cup {NoDoc} : Commit(k, v)) /\ WF_vars(CatchUp(k))
    /\ \A k \in Keys : []<>~IsAnswered(k) \/ []<><<IsAnswered(k) /\ pending'[k] = None>>_vars
    /\ []<>~(online = "Online" /\ IsDue(watched)) \/ []<><<DeliverAll>>_vars
    /\ []<>~(online # "Online" /\ watched # {}) \/ []<><<online # "Online" /\ online' = "Online">>_vars

-----------------------------------------------------------------------------
(* Properties.                                                             *)

\* No HARD_ASSERT of the views, the sync engine and the remote store's listens
\* fails: no target is listened to twice or stopped twice, no change set meets a
\* combination it does not know, a refill needs no refill.
NoHardAssertFails == failed = {}

\* Computed change by change, with refills, a view shows what running the query and
\* the limit over all local documents gives, but for the time in which a commit of
\* ours is awaited from the watch service: the view may show the estimate instead.
ViewIsQueryResult ==
    \A q \in Queries : views[q] # None /\ (\A k \in Keys : ~cache[k].committed) =>
        LET docs == LocalDocs(cache, pending, Keys)
            matching == [k \in Keys |-> IF docs[k] # NoDoc /\ Matches(q, docs[k].val)
                                        THEN docs[k] ELSE NoDoc]
            past == PastLimit(matching, LimitOf[q])
        IN  \A k \in Keys :
                /\ (views[q].docs[k] # NoDoc) = (matching[k] # NoDoc /\ k \notin past)
                /\ views[q].docs[k] # NoDoc => views[q].docs[k].val = docs[k].val

\* Who adds up the changes of the events has the documents of the view, whenever
\* the listener came, whatever it was not told, and in whatever order snapshots and
\* online states arrived.
EventsAddUpToView ==
    \A l \in Listeners : listeners[l] # None /\ listeners[l].raised =>
        LET docs == views[listeners[l].query].docs  heard == listeners[l].heard
        IN  \A k \in Keys : /\ (heard[k] = NoDoc) = (docs[k] = NoDoc)
                            /\ docs[k] # NoDoc => heard[k].val = docs[k].val

\* A listener that has heard nothing yet is one that has nothing to hear: the
\* snapshot it holds back may not be raised in the present online state.
FirstEventIsNotMissed ==
    \A l \in Listeners : listeners[l] # None /\ ~listeners[l].raised =>
        /\ views[listeners[l].query] # None
        /\ listeners[l].snapshot # None
        /\ LET view == views[listeners[l].query]
           IN  /\ view.syncState # "Synced"
               /\ listeners[l].options.waitForSync \/ KeysOf(view.docs) = {}
               /\ online # "Offline"

\* The books of limbo resolution agree: what is listened to is what is resolved,
\* every resolution is needed by a view, and the references are the limbo documents of the views.
LimboBooksAgree ==
    /\ limboTargets = DOMAIN resolutions
    /\ limboTargets = watched \cap Keys
    /\ watched \cap Queries = {q \in Queries : views[q] # None}
    /\ \A k \in limboTargets : \E q \in Queries : <<k, q>> \in limboRefs
    /\ limboRefs = {r \in Keys \X Queries : views[r[2]] # None /\ r[1] \in views[r[2]].limbo}

\* A view shows the estimate of a write that was acknowledged.
ShowsEstimate(q) ==
    views[q] # None /\ \E k \in Keys :
        views[q].docs[k] # NoDoc /\ views[q].docs[k].local /\ pending[k] = None

\* What the application knows is what the backend has.
Converged(l) ==
    /\ listeners[l].raised
    /\ KeysOf(listeners[l].heard) = BackendResult(listeners[l].query)
    /\ \A k \in KeysOf(listeners[l].heard) : listeners[l].heard[k].val = watch[k]
    /\ views[listeners[l].query].syncState = "Synced"

\* When the world is quiet and the connection holds, every listener converges to
\* the backend's result, limbo documents resolved and local writes settled, unless
\* its view waits for the watch service to send a write of ours again, which it need
\* not do when the write has left the backend's limit (shouldWaitForSyncedDocument).
ListenersConverge ==
    <>[](\A l \in Listeners : listeners[l] # None =>
            Converged(l) \/ ShowsEstimate(listeners[l].query))
===============================================================================
