------------------------------ MODULE LocalStore ------------------------------
(***************************************************************************)
(* What FSTLocalStore keeps in the remote document cache and for how long: *)
(* the references of targets, mutations and local views, and the two       *)
(* collectors of the product, the eager one of memory persistence and the  *)
(* LRU one of LevelDB.  An action is one task of the worker queue: a       *)
(* transaction of the local store, the view changes of the sync engine,    *)
(* and the transaction of notifyLocalViewChanges.                          *)
(*                                                                         *)
(* A document is abstracted to the set of queries that it matches; {} also *)
(* stands for a document that is known not to exist.  Versions are         *)
(* abstracted to whether an update is older than what is cached.           *)
(***************************************************************************)
EXTENDS Integers, Sequences, FiniteSets

CONSTANTS
    Keys, Queries,
    Contents,       \* the contents documents may have: sets of queries
    None,
    Percentile,     \* percentileToCollect
    MaxCollected,   \* maximumSequenceNumbersToCollect
    MaxInputs       \* bound: actions of the application, the backend and the collector

ASSUME LocalStoreAssumption ==
    /\ Contents \subseteq SUBSET Queries
    /\ Percentile \in 0 .. 100
    /\ MaxCollected \in Nat /\ MaxInputs \in Nat
    /\ None \notin Nat
    /\ None \notin [matches : SUBSET Queries, committed : BOOLEAN]
    /\ None \notin [seq : Nat, keys : SUBSET Keys]

VARIABLES
    delegate,   \* "eager" or "lru": the reference delegate
    cache,      \* the remote document cache: [Keys -> None or [matches, committed]]
    batches,    \* the mutation queue: Seq([key, matches])
    targets,    \* the query cache: [Queries -> None or [seq, keys]]
    sentinel,   \* the sentinel rows of LevelDB: [Keys -> a sequence number or None]
    highest,    \* metadata_.highestListenSequenceNumber
    clock,      \* _listenSequence
    active,     \* _targetIDs of the local store
    localRefs,  \* _localViewReferences: pairs of a key and a query
    views,      \* the documents of each active view
    released,   \* whether a query was released since the start
    inputs      \* the inputs so far

vars == <<delegate, cache, batches, targets, sentinel, highest, clock, active, localRefs, views,
          released, inputs>>

\* The state as a record; `orphaned' is that of the eager delegate's transaction.
Store ==
    [cache |-> cache, batches |-> batches, targets |-> targets, sentinel |-> sentinel,
     highest |-> highest, clock |-> clock, active |-> active, localRefs |-> localRefs,
     views |-> views, orphaned |-> {}]

Become(store) == \E s \in {store} :
    /\ cache' = s.cache /\ batches' = s.batches
    /\ targets' = s.targets /\ sentinel' = s.sentinel
    /\ highest' = s.highest /\ clock' = s.clock
    /\ active' = s.active /\ localRefs' = s.localRefs /\ views' = s.views
    /\ UNCHANGED delegate

Init ==
    /\ delegate \in {"eager", "lru"}
    /\ cache = [k \in Keys |-> None]
    /\ batches = <<>>
    /\ targets = [q \in Queries |-> None]
    /\ sentinel = [k \in Keys |-> None]
    /\ highest = 0 /\ clock = 0
    /\ active = {} /\ localRefs = {}
    /\ views = [q \in Queries |-> {}]
    /\ released = FALSE
    /\ inputs = 0

IsEager == delegate = "eager"

-----------------------------------------------------------------------------
(* Documents and references.                                               *)

IsCached(s, k) == s.cache[k] # None

\* Overlays of the local documents view: the last write wins.
LocalDocument(s, k) ==
    LET mine == {i \in DOMAIN s.batches : s.batches[i].key = k}
    IN  IF mine # {} THEN s.batches[CHOOSE i \in mine : \A j \in mine : j <= i].matches
        ELSE IF IsCached(s, k) THEN s.cache[k].matches ELSE {}

ExecuteQuery(s, q) == {k \in Keys : q \in LocalDocument(s, k)}

IsTarget(s, q) == s.targets[q] # None

\* QueryCache::Contains
Contained(s, k) == \E q \in Queries : IsTarget(s, q) /\ k \in s.targets[q].keys

\* Mutant: only the first batch is looked at.
FirstBatchContains(s, k) == s.batches # <<>> /\ Head(s.batches).key = k
MutationQueuesContain(s, k) == \E i \in DOMAIN s.batches : s.batches[i].key = k

InLocalView(s, k) == \E q \in Queries : <<k, q>> \in s.localRefs

IsReferenced(s, k) == Contained(s, k) \/ MutationQueuesContain(s, k) \/ InLocalView(s, k)

-----------------------------------------------------------------------------
(* The reference delegates.                                                *)

WriteSentinels(s, keys) ==
    [s EXCEPT !.sentinel = [k \in Keys |-> IF k \in keys THEN s.clock ELSE s.sentinel[k]]]

AddReferences(s, keys) ==
    IF IsEager THEN [s EXCEPT !.orphaned = @ \ keys] ELSE WriteSentinels(s, keys)

RemoveReferences(s, keys) ==
    IF IsEager THEN [s EXCEPT !.orphaned = @ \cup keys] ELSE WriteSentinels(s, keys)

\* Mutant: the end of a mutation is not noticed.
IgnoreMutationReference(s, k) == s
RemoveMutationReference(s, k) == RemoveReferences(s, {k})

LimboDocumentUpdated(s, k) ==
    IF IsEager /\ IsReferenced(s, k) THEN [s EXCEPT !.orphaned = @ \ {k}]
    ELSE RemoveReferences(s, {k})

\* QueryCache::AddTarget, UpdateTarget
SaveTarget(s, q, target) ==
    [s EXCEPT !.targets[q] = target, !.highest = IF target.seq > @ THEN target.seq ELSE @]

\* Mutant: a target that was released is kept, whatever the delegate.
KeepReleasedTarget(s, q) == SaveTarget(s, q, [s.targets[q] EXCEPT !.seq = s.clock])
\* The LRU delegate keeps a target that was released, as the most recently used.
RemoveTarget(s, q) ==
    IF IsEager THEN [s EXCEPT !.orphaned = @ \cup s.targets[q].keys, !.targets[q] = None]
    ELSE SaveTarget(s, q, [s.targets[q] EXCEPT !.seq = s.clock])

StartTransaction(s) == [s EXCEPT !.clock = IF IsEager THEN @ ELSE @ + 1, !.orphaned = {}]

CommitTransaction(s) ==
    [s EXCEPT !.cache = [k \in Keys |->
        IF k \in s.orphaned /\ ~IsReferenced(s, k) THEN None ELSE s.cache[k]], !.orphaned = {}]

-----------------------------------------------------------------------------
(* Views.                                                                  *)

\* The view changes of the sync engine for documents whose local state was read in
\* the transaction, before its commit.
NewView(s, q, changed) ==
    IF q \in s.active
    THEN (s.views[q] \ changed) \cup {k \in changed : q \in LocalDocument(s, k)}
    ELSE {}

\* notifyLocalViewChanges: the keys that left a view lose a reference and are then
\* added to the references of the local views, like those that entered it.
NotifyLocalViewChanges(s, newViews) ==
    LET Added(q) == newViews[q] \ s.views[q]
        Removed(q) == s.views[q] \ newViews[q]
        t == RemoveReferences(s, UNION {Removed(q) : q \in Queries})
    IN  [t EXCEPT !.views = newViews,
                  !.localRefs = @ \cup {r \in Keys \X Queries :
                                            r[1] \in Added(r[2]) \cup Removed(r[2])}]

\* Both transactions, where `s' is the state before the first one's commit.
CommitAndEmit(s, changed) ==
    LET newViews == [q \in Queries |-> NewView(s, q, changed)]
    IN  CommitTransaction(NotifyLocalViewChanges(StartTransaction(CommitTransaction(s)), newViews))

-----------------------------------------------------------------------------
(* The operations of the application.                                      *)

Input ==
    /\ inputs < MaxInputs
    /\ inputs' = inputs + 1

\* allocateQuery, and the first snapshot of the view, which is not notified.
AllocateQuery(q) ==
    /\ Input
    /\ q \notin active
    /\ LET s == StartTransaction(Store)
           t == IF IsTarget(s, q) THEN s ELSE SaveTarget(s, q, [seq |-> s.clock, keys |-> {}])
       IN  Become([t EXCEPT !.active = @ \cup {q}, !.views[q] = ExecuteQuery(t, q)])
    /\ UNCHANGED released

\* releaseQuery, for a listener that left or a listen that was rejected.
ReleaseQuery(q) ==
    /\ Input
    /\ q \in active
    /\ LET s == StartTransaction(Store)
           removed == {k \in Keys : <<k, q>> \in localRefs}
           t == [RemoveReferences(s, removed) EXCEPT
                    !.localRefs = @ \ (Keys \X {q}), !.active = @ \ {q}, !.views[q] = {}]
       IN  Become(CommitTransaction(RemoveTarget(t, q)))
    /\ released' = TRUE

LocallyWriteMutations(k, content) ==
    /\ Input
    /\ LET s == [StartTransaction(Store) EXCEPT
                    !.batches = Append(@, [key |-> k, matches |-> content])]
       IN  Become(CommitAndEmit(s, {k}))
    /\ UNCHANGED released

-----------------------------------------------------------------------------
(* The answers of the backend.                                             *)

\* RemoveMutationBatch
RemoveBatch(s) ==
    RemoveMutationReference([s EXCEPT !.batches = Tail(@)], Head(s.batches).key)

\* applyBatchResult: the result of the write is cached, unless watch was ahead of it.
ApplyBatchResult(s, content, isNewer) ==
    LET k == Head(s.batches).key IN
    RemoveBatch(IF isNewer
                THEN [s EXCEPT !.cache[k] = [matches |-> content, committed |-> TRUE]]
                ELSE s)

AcknowledgeBatch ==
    /\ Input
    /\ batches # <<>>
    /\ \E content \in Contents, isNewer \in BOOLEAN :
        /\ ~IsCached(Store, Head(batches).key) => isNewer
        /\ Become(CommitAndEmit(ApplyBatchResult(StartTransaction(Store), content, isNewer),
                                {Head(batches).key}))
    /\ UNCHANGED released

RejectBatch ==
    /\ Input
    /\ batches # <<>>
    /\ Become(CommitAndEmit(RemoveBatch(StartTransaction(Store)), {Head(batches).key}))
    /\ UNCHANGED released

\* The target changes of an event: RemoveMatchingKeys, AddMatchingKeys, and with a
\* resume token UpdateTarget.  `change[q]' are the keys of the target afterwards.
ApplyTargetChanges(s, change, hasToken) ==
    LET Removed == UNION {s.targets[q].keys \ change[q] : q \in DOMAIN change}
        Added == UNION {change[q] \ s.targets[q].keys : q \in DOMAIN change}
        t == AddReferences(RemoveReferences(s, Removed), Added)
    IN  [t EXCEPT
            !.targets = [q \in Queries |->
                IF q \notin DOMAIN change THEN @[q]
                ELSE [keys |-> change[q], seq |-> IF hasToken THEN s.clock ELSE @[q].seq]],
            !.highest = IF hasToken /\ s.clock > @ THEN s.clock ELSE @]

\* The document of an event is cached, unless it is outdated.
ApplyDocumentUpdate(s, k, content, isOutdated) ==
    IF isOutdated THEN s
    ELSE [s EXCEPT !.cache[k] = [matches |-> content, committed |-> FALSE]]

\* An update may be ignored when it is not authoritative, or when a write of ours that
\* is newer was acknowledged before.
MayBeOutdated(k, isAuthoritative) ==
    IsCached(Store, k) /\ (isAuthoritative => cache[k].committed)

\* applyRemoteEvent for a document that watch has sent for some active targets.  Those in
\* `kept' have it afterwards, and it is authoritative for them; the others do not: it left
\* them, or it came and went between two snapshots, or it is the one document of the query
\* and does not exist.
ApplyDocumentChange(k, content) ==
    /\ Input
    /\ \E changed \in SUBSET active, hasToken \in BOOLEAN, isOutdated \in BOOLEAN :
        \E kept \in SUBSET (changed \cap content) :
            /\ changed # {}
            /\ isOutdated => MayBeOutdated(k, kept # {})
            /\ LET change == [q \in changed |-> IF q \in kept THEN targets[q].keys \cup {k}
                                                ELSE targets[q].keys \ {k}]
                   s == ApplyTargetChanges(StartTransaction(Store), change, hasToken)
               IN  Become(CommitAndEmit(ApplyDocumentUpdate(s, k, content, isOutdated),
                                        IF isOutdated THEN {} ELSE {k}))
    /\ UNCHANGED released

\* ... for a target that loses keys without an update of their documents (a DocumentRemove,
\* a reset, an existence filter that does not match), or that only gets a resume token
\* that is worth an UpdateTarget.
ApplyTargetChange(q) ==
    /\ Input
    /\ q \in active
    /\ \E keys \in SUBSET targets[q].keys, hasToken \in BOOLEAN :
        /\ keys = targets[q].keys => hasToken
        /\ Become(CommitAndEmit(
                ApplyTargetChanges(StartTransaction(Store), [r \in {q} |-> keys], hasToken), {}))
    /\ UNCHANGED released

\* ... for a document whose update is due to no active query: one in limbo, that a view
\* shows and its target does not have, or one that was sent for a target that was
\* released before the snapshot.
InLimbo(k) ==
    /\ ~MutationQueuesContain(Store, k)
    /\ \E q \in active : k \in views[q] \ targets[q].keys

ApplyLimboChange(k, content) ==
    /\ Input
    /\ InLimbo(k) \/ released
    /\ \E isOutdated \in BOOLEAN :
        /\ isOutdated => MayBeOutdated(k, FALSE)
        /\ LET s == ApplyDocumentUpdate(StartTransaction(Store), k, content, isOutdated)
           IN  Become(CommitAndEmit(LimboDocumentUpdated(s, k),
                                    IF isOutdated THEN {} ELSE {k}))
    /\ UNCHANGED released

-----------------------------------------------------------------------------
(* The LRU collector.                                                      *)

\* Mutant: documents of targets are orphaned, too.
AllSentinels(s) == {k \in Keys : s.sentinel[k] # None}
\* EnumerateOrphanedDocuments
Orphaned(s) == {k \in Keys : s.sentinel[k] # None /\ ~Contained(s, k)}

\* The number `count' in the order of size, among those of all targets and orphaned
\* documents (RollingSequenceNumberBuffer); nothing is below it when count is 0.
SequenceNumberForQueryCount(s, count) ==
    LET owners == {q \in Queries : IsTarget(s, q)} \cup Orphaned(s)
        Number(o) == IF o \in Queries THEN s.targets[o].seq ELSE s.sentinel[o]
        numbers == {Number(o) : o \in owners}
    IN  IF count = 0 THEN -1
        ELSE CHOOSE n \in numbers :
                /\ Cardinality({o \in owners : Number(o) <= n}) >= count
                /\ Cardinality({o \in owners : Number(o) < n}) < count

QueryCountForPercentile(s) ==
    (Percentile * Cardinality({q \in Queries : IsTarget(s, q)} \cup Orphaned(s))) \div 100

RemoveTargets(s, bound) ==
    [s EXCEPT !.targets = [q \in Queries |->
        IF IsTarget(s, q) /\ s.targets[q].seq <= bound /\ q \notin s.active THEN None ELSE @[q]]]

RemoveOrphanedDocuments(s, bound) ==
    LET removed == {k \in Orphaned(s) : s.sentinel[k] <= bound
                                        /\ ~MutationQueuesContain(s, k) /\ ~InLocalView(s, k)}
    IN  [s EXCEPT !.cache = [k \in Keys |-> IF k \in removed THEN None ELSE @[k]],
                  !.sentinel = [k \in Keys |-> IF k \in removed THEN None ELSE @[k]]]

CollectGarbage ==
    /\ Input
    /\ ~IsEager
    /\ LET s == StartTransaction(Store)
           n == QueryCountForPercentile(s)
           bound == SequenceNumberForQueryCount(s, IF n > MaxCollected THEN MaxCollected ELSE n)
       IN  Become(RemoveOrphanedDocuments(RemoveTargets(s, bound), bound))
    /\ UNCHANGED released

\* The process ends and starts again; sequence numbers go on from those of targets.
Restart ==
    /\ Input
    /\ ~IsEager
    /\ Become([Store EXCEPT !.active = {}, !.localRefs = {}, !.clock = highest,
                            !.views = [q \in Queries |-> {}]])
    /\ released' = FALSE

-----------------------------------------------------------------------------

Next ==
    \/ \E q \in Queries : AllocateQuery(q) \/ ReleaseQuery(q) \/ ApplyTargetChange(q)
    \/ \E k \in Keys, content \in Contents :
        LocallyWriteMutations(k, content) \/ ApplyDocumentChange(k, content)
        \/ ApplyLimboChange(k, content)
    \/ AcknowledgeBatch \/ RejectBatch
    \/ CollectGarbage \/ Restart

Spec == Init /\ [][Next]_vars

-----------------------------------------------------------------------------
(* Properties.                                                             *)

\* A cached document that its collector never looks at: with eager collection nothing
\* refers to it, so that nothing will orphan it; with LRU collection it has no sentinel
\* row, by which EnumerateOrphanedDocuments finds it.
IsLeaked(s, k) ==
    IsCached(s, k) /\ IF IsEager THEN ~IsReferenced(s, k) ELSE s.sentinel[k] = None

\* What pins documents goes away: the references of local views, and with eager collection
\* the targets, are those of active queries.
OnlyActiveQueriesPin ==
    /\ \A r \in localRefs : r[2] \in active
    /\ IsEager => \A q \in Queries : IsTarget(Store, q) => q \in active

\* The one way to leak a document is an update of it for an active query, when it was not
\* cached and is in no target afterwards: applyRemoteEvent caches it and tells neither
\* AddMatchingKeys nor limboDocumentUpdated.  Nothing else that ends a reference, of a
\* write, a target or a view, in whatever order, leaves a document behind.
OnlyStraysAreLeaked ==
    [][\A k \in Keys : IsLeaked(Store', k) /\ ~IsLeaked(Store, k) =>
            /\ ~IsCached(Store, k) /\ ~Contained(Store', k)
            /\ \E content \in Contents : ApplyDocumentChange(k, content)]_vars

\* A target that can be resumed, which makes watch leave out what it has sent before,
\* has all its documents in the cache, whatever was collected since; and an active
\* query has a target, which releaseQuery asserts.
ResumableTargetsAreComplete ==
    /\ \A q \in Queries : IsTarget(Store, q) =>
        \A k \in targets[q].keys : IsCached(Store, k)
    /\ \A q \in active : IsTarget(Store, q)

\* A document is not taken from under a write that waits to be applied to it, nor from
\* under a view that has pinned it.
PinnedIsKept ==
    [][\A k \in Keys : IsCached(Store, k) /\ cache'[k] = None =>
            /\ ~\E i \in DOMAIN batches' : batches'[i].key = k
            /\ ~\E q \in active' : <<k, q>> \in localRefs /\ <<k, q>> \in localRefs']_vars
===============================================================================
