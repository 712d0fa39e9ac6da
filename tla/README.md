# Firestore client: TLA+ models, checks and proofs

This directory holds TLA+ models of the Firestore client in this repository, the TLC
configurations that check them on small instances, and proofs that TLAPS checks for every
instance. `PROJECT.json` maps every definition that stands for code to the lines it models, and
lists runs, mutants, findings, hazards and theorems.

Paths below are relative to `src/`. **FS** is `Firestore/core/src/firebase/firestore/`, **S** is
`Firestore/Source/`.

## 1. The system

The repository is the Firebase SDK for Apple platforms: some fifteen products that share little
more than configuration. Firestore is the one whose core is a protocol: a client that keeps
working offline, queues writes, listens to queries, and reconciles what it has with a backend over
two long-lived streams. The project is about Firestore. The other products are listed in
`PROJECT.json` with the reason they are left out.

Everything in the Firestore client that changes state runs on one serial **worker queue**
(FS`util/async_queue.cc`). Concurrency comes from what puts operations on it: the application's
threads, Firebase Auth's callbacks, gRPC completions, timers. So an operation is atomic, and the
orders of operations are what is hard. Between asking for something (a token, a read, a timer) and
its answer, any other operation may run.

### Inventory

| Component | State it keeps | Operations | What makes it correct |
|---|---|---|---|
| `Stream` (FS`remote/stream.mm`) | state, close count, idle timer, backoff, outstanding token request | Start, credentials callback, MarkIdle, Write, Stop, Close, backoff | a late callback or timer never acts on another life of the stream; no method is called in a state it forbids |
| `WriteStream`, write half of `RemoteStore` (FS`remote/`) | handshake flag, stream token, write pipeline | FillWritePipeline, handshake, mutation result, close and error handling | a response, which names no batch, is about the first batch of the pipeline; the pipeline is a prefix of the queue; the stream runs while there is something to send |
| Mutation queues (FS`local/{memory,leveldb}_mutation_queue.mm`) | batches, next batch id, stream token | Start, Add, Next-after, Acknowledge, Remove | ids grow, are never shared by two waiting batches, and survive sign-ins and restarts |
| `FirebaseCredentialsProvider` (FS`auth/`) | user, token counter, force-refresh flag | auth notification, GetToken, InvalidateToken | a write never goes out with another user's token |
| `WatchStream`, watch half of `RemoteStore` | listened targets, their resume tokens | Listen, StopListening, open, close, change | every target is watched exactly once per stream; old snapshots are not raised |
| `WatchChangeAggregator` (FS`remote/remote_event.mm`) | per target: outstanding answers, current flag, document changes, resume token; pending resets | target change, document change, existence filter, CreateRemoteEvent | an event is exactly the difference between two global snapshots; messages of an earlier listen do not leak into the next |
| `OnlineStateTracker` | state, failures, timer | start, failure, update, timeout | agrees with the stream; a listener is not left in the unknown |
| `FSTSyncEngine` (S`Core/`) | views, completion blocks, limbo targets, current user | listen, unlisten, write, transaction, remote event, rejections, online state, user change | each completion block is called once, for its write; views follow the events |
| `FSTLocalStore` (S`Local/`) | mutation queue, query data, remote documents, references | write, acknowledge, reject, remote event, allocate and release query, user change | what is on disk is consistent at every crash point |
| `FSTView`, `FSTEventManager`, `QueryListener` | documents, synced and limbo keys; listeners | compute changes, apply, raise | the first event is raised once, metadata changes are not lost |
| `FSTFirestoreClient` | lifecycle | initialize, toggle the network, shutdown | no operation reaches a closed persistence |
| `GrpcStream`, `GrpcConnection`, completions (FS`remote/grpc_*.cc`) | buffered writes, pending completions | write, read, finish, cancel | no completion outlives its stream; nothing blocks for ever |
| Executors, `AsyncQueue` (FS`util/`) | scheduled operations | enqueue, schedule, cancel, shutdown | order is kept; cancelling after the fact does nothing |
| `Transaction` (FS`core/transaction.mm`), retries in the sync engine | read versions, written documents, mutations, retries left | Lookup, Set, Update, Delete, Commit, retry | a commit is carried out only on what was read; the completion gets the result of the commit; the retries end |
| Reference delegates, query caches, LRU collector (S`Local/`, FS`local/`) | references of targets, writes and views; sentinel rows; sequence numbers | add and remove references, save and remove targets, collect | nothing in use is collected, nothing is kept for good |
| `ExponentialBackoff` | base, last attempt, pending operation | BackoffAndRun, Reset, Cancel | attempts after failures keep their distance |

How they interact: the application calls the client, which puts the operation on the worker queue;
the sync engine calls the local store (disk) and then the remote store; the remote store owns the
two streams; a stream asks the credentials provider for a token and is called back through the
worker queue; gRPC answers arrive on the worker queue and go stream -> remote store -> sync engine
-> local store -> views. Auth notifications restart both streams. The online state tracker hears of
the watch stream and tells the views.

Three places are concurrent in the narrow sense. gRPC completions are taken off their queue by a
polling thread while the worker may be blocked waiting for them; the executors have threads of
their own; a transaction's block runs on a queue of the application and waits for the worker.

Hard: late token callbacks; the idle timer against new work; a user change between a token request
and its answer; errors that carry no batch id; a write committed whose acknowledgement is lost;
batch ids that start over; a crash between a completion block and its transaction; answers to
requests of an earlier listen; existence filters; resume tokens that are persisted at other times
than the keys they vouch for; limbo resolutions that end in several ways; events held back or
merged; calls finished while their completions are on the way; timers cancelled after the fact;
a transaction retried while its first commit is still under way. `PROJECT.json` lists these under
`hazards`, at the lines where they bite.

## 2. Modules

| Module | Models | Lines it stands for |
|---|---|---|
| `Assertions` | `HARD_ASSERT`: a failed assertion is recorded, not executed | FS`util/hard_assert.h` |
| `Stream` | the life cycle of a stream, as functions on its fields | FS`remote/stream.{h,mm}` |
| `WritePath` | application, sync engine, mutation queues, write half of the remote store, write stream, credentials, call and backend | see `map` |
| `WriteQueue` | abstract: what the write path promises | (specification) |
| `WritePathInvariant` | the two inductive invariants of the write path | (specification) |
| `WritePathProof` | theorems and proofs about the write path | (proofs) |
| `OnlineStateTracker` | the tracker, as functions on its fields | FS`remote/online_state_tracker.cc` |
| `WatchChangeAggregator` | the state of one target, as functions on its fields | FS`remote/remote_event.mm` |
| `WatchPath` | listens, views, query data on disk, watch half of the remote store, watch stream, call and backend | see `map` |
| `WatchPathProof` | theorems and proofs about the watch path | (proofs) |
| `View` | a query's view, as functions on its fields | S`Core/FSTView.mm`, FS`core/view_snapshot.mm` |
| `QueryListener` | which snapshots a listener hears of | FS`core/query_listener.mm` |
| `SyncEngine` | listens, views, limbo resolution, local writes and remote events over the documents | S`Core/FSTSyncEngine.mm`, S`Core/FSTEventManager.mm` |
| `SyncEngineProof` | theorems and proofs about views, listeners and limbo resolution | (proofs) |
| `LocalStore` | the remote document cache, references, both collectors | S`Local/*.mm`, FS`local/*query_cache.mm` |
| `Transactions` | one transaction with its retries, calls, block and shutdown | FS`core/transaction.mm`, FS`remote/datastore.mm`, S`Core/FSTSyncEngine.mm` |
| `GrpcCalls` | the three classes of calls, completions, polling thread, connection | FS`remote/grpc_*.cc`, FS`remote/datastore.mm` |
| `Executor` | abstract: what an executor promises | FS`util/executor.h` |
| `ExecutorStd` | worker queue over a thread with a schedule | FS`util/async_queue.cc`, FS`util/executor_std.*` |
| `ExponentialBackoff` | the delays of a backoff | FS`remote/exponential_backoff.*` |
| `ExecutorLibdispatch` | worker queue over libdispatch, with a backoff and other timers as owners | FS`util/executor_libdispatch.mm` |
| `LocalStoreProof`, `TransactionsProof`, `GrpcCallsProof`, `ExecutorStdProof`, `ExecutorLibdispatchProof` | theorems and proofs about the modules of those names | (proofs) |
| `MC...` | symmetry sets and constants for TLC | |

`SyncEngine` extends `QueryListener`, which extends `View`; `ExecutorLibdispatch` extends
`ExponentialBackoff`. The modules overlap where the code is shared: `SyncEngine` takes the streams
and the aggregation of `WatchPath` for granted and gets consistent snapshots; `WatchPath` keeps of
views what a resume token depends on; `LocalStore` takes any content the backend may send; the call
of `WritePath` and `WatchPath` is what an owner sees of a call of `GrpcCalls`.

`Stream` is used by both paths: a method of the code is an operator from the fields to the new
fields, and `WritePath` and `WatchPath` compose the operators in the order in which the code calls
the methods, within one action per operation on the worker queue. A failed `HARD_ASSERT` ends the
process; the models put its message into a `failed` set, and `NoHardAssertFails` says that the sets
are empty. In `WritePath` and `WatchPath` a failed assertion can really happen (*Graceful end*,
section 5): nothing but a restart follows it.

### The write path

*State.* `queue`, `nextBatchId` and `savedToken` are the mutation queues (`Durable` chooses LevelDB
or memory); `user` and `completions` the sync engine's; `isNetworkEnabled`, `pipeline`, `stream`,
`handshake`, `streamToken` the remote store's and the write stream's. `workQueue` holds what other
threads have put on the worker queue and is not done yet: credential changes and token callbacks.
`provider` is the credentials provider with Auth's cached token. `call`, `committed`, `refused` are
the gRPC call and the backend. `owner` and `calls` record what the application did and was told.

*Actions.*

| Action | Code |
|---|---|
| `WriteMutations` | `writeMutations:completion:` with `locallyWriteMutations:`, `AddMutationBatch`, `addMutationCompletionBlock:`, `FillWritePipeline` |
| `EnableNetwork`, `DisableNetwork` | the toggles of the client and `RemoteStore` |
| `AuthStateDidChange`, `CredentialDidChange` | the notification on Auth's thread; `credentialDidChangeWithUser:` on the worker queue, with `userDidChange:` and `HandleCredentialChange` |
| `TokenArrives`, `TokenFails`, `TokenExpires` | Auth's answers to `GetToken`, checked against the token counter |
| `TokenCallback`, `TokenErrorCallback`, `StaleTokenCallback` | the continuation of `RequestCredentials`, behind its close-count check |
| `HandshakeResponse`, `MutationResult`, `MalformedResponse` | `NotifyStreamResponse` and what follows down to the queue and the completion block |
| `CallFinished`, `WriteFailed`, `ConnectionLost` | `OnStreamFinish` with an error: `HandleHandshakeError`, `HandleWriteError`, restart |
| `CallEnded` | `OnStreamFinish` with OK, when the backend ends the call: `OnWriteStreamClose` and its assertion |
| `IdleTimeout`, `BackoffTimeout` | the two timers of `Stream` |
| `Restart`, `CrashBeforeAcknowledge` | the process starts again from disk; it dies in `applySuccessfulWriteWithResult:` between the completion block and the transaction |
| `ServerHandshake`, `ServerCommit`, `ServerRefuse`, `ServerFault` | the backend (external) |

*Abstractions.* A batch is its id and the number of the write; document contents, local views and
the document index do not influence any guard here. A status code is one of the classes the code
tells apart: `ok` while the call is open, `ended` when the backend ended it with OK, `unavailable`
(any transient error), `unauthenticated` (invalidates the token),
`aborted` (permanent, but not for a write) and `permanent`. A stream token is the user it was issued
to. Counters of timers and delays are left out: a timer that is set may fire.

*The backend, external.* It answers the requests of a call in order and stops at the first it
refuses. It may end the call at any time, with an error or with OK. Requests of a call the client
has closed are not processed after the close (a commit that races with the close is a commit before
it). A write the backend refuses is refused whenever it is sent. `WriteMayFailFirst` chooses whether
gRPC may report a failed write before a read that is pending; the interface allows both.

### The watch path

*State.* `saved`, `lastRemoteVersion` are on disk; `query` is the query data in memory; `view` the
synced documents and the current flag of each query's view. `listening`, `resume`, `hasAggregator`,
`targetState`, `resets`, `stream`, `online` belong to the remote store. `toServer`, `toClient`,
`server`, `news`, `history`, `seen` are the call and the backend.

*Actions.* `Listen` and `StopListening` are the sync engine's `listenToQuery:` and
`stopListeningToQuery:` down to the request on the stream. `TokenCallback` opens the stream and
watches every target again. `CloseWatchStream` is used by `TokenErrorCallback`, `StreamFails` (the
call ends with an error or with OK) and `IdleTimeout`; a stream that closes with OK and is still
needed fails the assertion of `OnWatchStreamClose`, and the process ends. `OnTargetChange`,
`OnDocumentChange`, `OnExistenceFilter`, `OnTargetError`, `IgnoredSnapshot` and `RaiseWatchSnapshot`
are the branches of `OnWatchStreamChange`; the last one includes `CreateRemoteEvent`,
`applyRemoteEvent:` and `emitNewSnapshotsAndNotifyLocalStoreWithChanges:`. `EnableNetwork`,
`DisableNetwork`, `HandleCredentialChange`, `OnlineStateTimeout`, `BackoffTimeout` and `Restart`
complete the client. Requests and re-watches go out in the order of an unordered map, so every order
is taken.

*Abstractions.* Of a document only its membership in a target is kept. Versions count the changes
of the backend's results; a resume token is the version it was issued at, 0 is none.
`kResumeTokenMaxAge` is a number of versions where the code has five minutes. A target id stands
for one query and is the same when it is listened to again, as with LRU garbage collection.
Document queries (the targets of limbo resolution) are in `SyncEngine` instead.

*The backend, external.* It answers watch and unwatch requests in order. For a watched target it
sends the difference between what it has sent and the results at its version, then CURRENT. A
global snapshot goes out when every watched target has been sent all it has, and carries a resume
token for every target. It may leave a removal to an existence filter, sends a filter for every
target it resumes, and sends due filters right before the snapshot. It may reject or reset a
target. The server behind a new call may lag behind the previous one by `MaxLag` versions, never
behind a token it is given.

### Views, listeners and limbo resolution

*State of `SyncEngine`.* `cache` and `pending` are the local store: the remote document and the
pending write of each key. `views`, `resolutions`, `limboTargets`, `limboRefs` belong to the sync
engine, `snapshots` and `listeners` to the event manager. `watched` and `caughtUp` say what the watch
service was asked for and which targets are current; `watch` is its state of the documents, behind
the commits of ours (`owed`).

*Actions.* `AddListener`, `RemoveListener` (`addListener:`, `removeListener:` with
`listenToQuery:`, `stopListeningToQuery:`, `removeAndCleanupQuery:`); `WriteMutation`,
`Acknowledge`, `RejectWrite`; `Deliver`, `DeliverPart`, `DeliverAll`, `ResetTarget`
(`applyRemoteEvent:` for events of different extent); `RejectQuery`, `RejectLimbo`
(`rejectListenWithTargetID:`); `GoOnline`, `LoseConnection` (`applyChangedOnlineState:`). Each ends
with `emitNewSnapshotsAndNotifyLocalStoreWithChanges:` and `updateTrackedLimboDocuments`.

The loops of the code are written as what they compute. Popping the last document until a set is
within its limit takes away the documents that have `limit` others before them (`PastLimit`). The
loop over the views reads only the local store and the view it is at, but the bookkeeping of limbo
documents is shared by the views: a key that one view releases and another asks for loses its target
only if the first comes earlier. `Orphans` says which keys that are for an order of the views, and
`Emit` takes any order, as an `NSDictionary` promises none.

*Abstractions.* A document is its content, a number that also orders it, and two flags. At most
one write of ours is pending for a key. Ids of targets are fresh, so the target of a query is the
query. *Assumed of the backend:* an event is consistent for all targets that are caught up; another
client does not write a key whose commit of ours the watch service has still to send (otherwise
"Watch will send us the same document again", S`Core/FSTView.mm:382`, would be about a content that
no longer exists).

### The local store

`LocalStore` has the eager delegate of memory persistence and the LRU delegate of LevelDB in one
module: `delegate` chooses at the start. An action is a task of the worker queue: the transaction of
the local store, then the view changes of the sync engine and the transaction of
`notifyLocalViewChanges:`, in the order of the code, so that a collection by the first transaction
is seen by the second. A document is the set of queries it matches. `ApplyDocumentChange` is an
event about a document that watch sent for active queries: each of them has it afterwards or has
not, in the latter case also when it never had it, because the document came and went between two
snapshots or is the missing document of its query. `ApplyLimboChange` is an update that no active
query asked for: that of a document in limbo, or of a target that was released before the snapshot.
Versions are reduced to whether an update is older than what is cached. There is one user, and no
limits. `CollectGarbage` may run at any time; `Restart` keeps what is on disk, and starts the
sequence numbers from the highest number of a target, as `FSTLevelDBLRUDelegate start` does.

### Transactions

`Transactions` is one call of `runTransactionWithBlock:`. `phase` says where it is: on the worker
queue, in the block, waiting for a token, waiting for a call. The block is arbitrary: any sequence
of reads and writes, ended with a result, an error of its own or one of Firestore. A commit request
stays with the backend until it is carried out or refused, also when the client has given it up, so
that a late commit meets the next attempt. Transactions share nothing in the client; the others are
`OtherWrite`. *Assumed of the backend:* a commit is atomic, and an update time of zero demands that
the document is missing, which is what `CreatePrecondition` relies on for a document read as missing.

### gRPC calls and executors

In `GrpcCalls` the worker blocks within an operation, so an action is what happens up to the next
blocking point. `todo` are the operations on calls that the worker has still to do, `blockedIn` says
where it is in the first of them (nothing, the last write, the finish, the drain of completions),
and `shutdown` how far `RemoteStore::Shutdown` is. The polling thread and gRPC are actions of their
own. A call is a record with the fields of `GrpcStream`, `GrpcStreamingReader` or `GrpcUnaryCall`;
`ops` are its operations on the gRPC queue, `completions` the list the code keeps of them.

`ExecutorStd` takes what happens under the mutex as one action; the thread's position (waiting for
an entry, waiting for a time, running) is explicit, with the notification of the condition
variable. It is shown to implement `Executor`. In `ExecutorLibdispatch` time slots have addresses
that are given out again, since handles are compared by address. The destructor may run while an
operation is running and others are on the dispatch queue, which outlives the executor. What stays
one step is the check of `done_` with the start of the operation, which both are on the dispatch
queue; the destructor falls before or after it. Owners do not ask anything of an executor that is
gone, as they hold the `AsyncQueue`, and with it the executor, by a `shared_ptr`.

## 3. Runs

All bounds are the `Max...` constants of the configurations; each bounds the number of events of
one kind in a behaviour. They are chosen so that the smallest instance of every hazard fits: two
users and two sign-ins (there and back) for the reuse of ids; three writes for one acknowledged,
one refused and one behind it; in one run a pipeline smaller than the number of writes, so that it
fills, in the other one that holds them all, so that a write can fail with two others unanswered;
one fault that may fall anywhere; for the watch path two toggles, to go off and on again, for the
write path one, because every sign-in there goes off and on again. Deadlock is not checked: when the
bounds are spent and the queue is empty, the system rightly rests; that it does not rest earlier
is what `QueueDrains` and `ListenersCatchUp` say.

| Run | Instance | Shows |
|---|---|---|
| `write_path_memory` | memory queue, 2 users, 3 writes (1 refused), pipeline 3, 2 sign-ins, 1 toggle, 1 fault (errors and an end with OK) | `OnlyGracefulEndAborts`: no assertion fails but that of a call ended by the backend with OK while writes are pending; `PipelineIsQueuePrefix`; `InFlightIsPipeline`: after the handshake responses and requests in flight are the pipeline, in order; `BlocksMatchQueue`: no completion block is lost or replaced although ids start over; `CredentialsNeverCross`; `NotResentAfterCallback` |
| `write_path_durable` | LevelDB queue, 2 users, 3 writes (1 refused), pipeline 2, restarts and a crash inside an acknowledgement, 1 fault, 1 sign-in, 1 toggle | `SuccessWasCommitted`; `ErrorWasRefused` as long as responses are read before the status; `ImplementsWriteQueue`; `QueueDrains`, as long as the process runs. (`NotResentAfterCallback` is not claimed: the crash resends, the code is at-least-once there) |
| `watch_path_listens` | 2 targets, 2 listens, 2 changes, a server that lags, 1 fault (an error or an end with OK), 1 restart | `OnlyGracefulEndAborts`, `CurrentViewsAreSnapshots`, `OutstandingIsInFlight`, `SavedTokenMissesNothing` |
| `watch_path_filters` | 1 target, 1 listen, 2 changes, a removal left to a filter, a reset, a rejection, 1 fault, 2 toggles | `OnlineStateMatchesStream`, `CurrentViewsAreSnapshots`, `ListenersCatchUp` |
| `sync_engine` | 2 documents, 2 queries (one with a limit of 1), 2 listeners with different options, 3 inputs | `NoHardAssertFails`; `ViewIsQueryResult`: change by change, views are what the query gives, but while a commit of ours is awaited; `EventsAddUpToView`; `FirstEventIsNotMissed`; `LimboBooksAgree`; `ListenersConverge` |
| `local_store` | 2 documents, 2 queries, both delegates, 6 inputs | `OnlyStraysAreLeaked`; `OnlyActiveQueriesPin`; `ResumableTargetsAreComplete`; `PinnedIsKept` |
| `transactions` | 2 documents (1 exists), 2 attempts, 4 operations of the block, 1 write of others, 1 fault, a shutdown | `CommitsSeeTheirReads`; `ResultIsThatOfTheCommit`; `TransactionEnds` |
| `grpc_calls` | 2 calls of any class, 1 buffered message, 1 unread message, 1 network change | `NoHardAssertFails`; `CompletionsAreTracked`; `WaitsOnlyForDoomedCalls`; `CallsFollowGrpcRules`; `WorkerReturns`; `EndIsReported` |
| `executor_std` | 2 tasks, 2 timers, delays 0 to 2 | `ImplementsExecutor`; `NoWakeUpIsLost` |
| `executor_libdispatch` | a backoff and a timer, 3 addresses | `CancelledNeverRuns`; `AttemptsAreSpaced` |
| `write_path_lost_response`, `watch_path_mismatch` | the smallest instance that shows it | expected violations, the findings of section 5 |

*Why the bounds are enough.* Three inputs of `sync_engine` are a listen, a write and the listen or
failure that meets it; commits, answers and deliveries are not counted, they are owed. Six inputs of
`local_store` are two listens, a write, its answer, an event and a release or collection; a document
matches both queries or none there, and which targets have it is chosen by the events. Two
attempts of a transaction are the smallest number with a retry; the step from one retry to five adds
no state that attempts share. Two calls of `grpc_calls` are one that is finished and one whose
callbacks run meanwhile.

Where a passing run leaves a kind of event out, it is because the code breaks the property there
(section 5):

| Passing run | Property | Leaves out | See |
|---|---|---|---|
| `write_path_durable` | `ErrorWasRefused` | writes that fail before a pending read | *Lost response*, `write_path_lost_response` |
| `watch_path_filters` | `CurrentViewsAreSnapshots`, `ListenersCatchUp` | a second listen | *Mismatch*, `watch_path_mismatch` |
| `watch_path_listens` | `OutstandingIsInFlight` | rejected targets | *Target error* |
| `watch_path_listens` | `SavedTokenMissesNothing` | removals left to a filter | *Token after a mismatch* |

`NoWakeUpIsLost` is about the wake-up of the thread. That an operation which is due is not put off
for ever by tasks that are executed meanwhile is not claimed: immediate operations come first in
the schedule of `ExecutorStd`, and only the number of tasks in the run ends them.

*Fairness.* `FairSpec` adds weak fairness of `System`: worker queue operations, timers, answers of
Auth and of the backend. The code schedules none of them conditionally: a posted operation is run,
a timer that is not cancelled fires, and a request that got no answer ends in an error of the call.
One conjunct for all of them is enough, because between two environment events only finitely many
system steps are possible, so none can be starved by the others. The application, sign-ins, faults,
toggles and restarts are not fair: they need never happen.

`SyncEngine` asks for the backend's commits, acknowledgements and snapshots and for the return of
the connection while something is watched; `Transactions` for the worker queue, the block (an
application's block that never returns has no completion) and the backend. Both have actions that
are expensive to test for being enabled, so weak fairness is written there with the enabling
condition spelled out. `GrpcCalls` asks for the worker and the polling thread, and for the
completions of each call that is cancelled or has ended, the ones gRPC promises to return quickly.
The last is strong fairness, because a completion can only be returned while the polling thread is
free, and it is taken by other completions in between. A call that the backend leaves open owes
nothing. `ExecutorStd` asks for its thread, for operations to end, for time to pass and for the
destructor.

Every property of a passing run has a mutant in `PROJECT.json`: a variation of one mapped
definition, as a plausible bug in that code would make it, under which the run fails. The mutated
forms stand right before the definitions they replace.

## 4. Proofs

Every theorem holds for all values of the constants: any users, documents, targets, timers,
capacities, delays and bounds. What is assumed of the constants is in the named `ASSUME` of each
module and says no more than that special values (`None`, `NoUser`, the handshake) are not ordinary
ones, that bounds are numbers and that the targets, documents and queries of the watch path and of
the sync engine are finitely many; TLC evaluates it on every run. Where a theorem needs more, the
table has the hypothesis.

| Module | Theorem | Statement |
|---|---|---|
| `WritePathProof` | `WritePathInv` | `Spec => []IInv` |
| | `WritePathType` | `Spec => []TypeOK` |
| | `AssertsHold` | `Spec => []OnlyGracefulEndAborts` |
| | `PipelineIsPrefix` | `Spec => []PipelineIsQueuePrefix` |
| | `WritePathSafety` | `Spec => []SafetyInv` |
| | `ResponsesMatchPipeline` | `Spec => []InFlightIsPipeline` |
| | `BlocksFollowQueue` | `Spec => []BlocksMatchQueue` |
| | `CredentialsStaySeparate` | `Spec => []CredentialsNeverCross` |
| | `SuccessIsTrue` | `Spec => []SuccessWasCommitted` |
| | `ErrorIsTrue` | `~WriteMayFailFirst /\ Spec => []ErrorWasRefused` |
| | `NeverResent` | `MaxRestarts = 0 /\ Spec => NotResentAfterCallback` |
| | `RefinesWriteQueue` | `Spec => ImplementsWriteQueue` |
| `WatchPathProof` | `WatchInvariant` | `Spec => []WatchInv` |
| | `OnlineStateIsThatOfStream` | `Spec => []OnlineStateMatchesStream` |
| | `OnlyGracefulEnd` | `Spec => []OnlyGracefulEndAborts` |
| | `CountInvariant` | `MaxErrors = 0`: `Spec => [](WatchInv /\ CountInv)` |
| | `OutstandingIsExact` | `MaxErrors = 0`: `Spec => []OutstandingIsInFlight` |
| | `SnapshotInvariant` | `MaxErrors = 0`, `MaxElisions = 0`: `Spec => [](WatchInv /\ CountInv /\ SnapshotInv)` |
| | `CurrentViewsShowSnapshots` | `MaxErrors = 0`, `MaxElisions = 0`: `Spec => []CurrentViewsAreSnapshots` |
| | `SavedTokensMissNothing` | `MaxErrors = 0`, `MaxElisions = 0`: `Spec => []SavedTokenMissesNothing` |
| `SyncEngineProof` | `SyncInvariant` | `Spec => []SyncInv` |
| | `NoAssertionFails` | `Spec => []NoHardAssertFails` |
| | `ViewsAreQueryResults` | `Spec => []ViewIsQueryResult` |
| | `EventsAddUp` | `Spec => []EventsAddUpToView` |
| | `FirstEventsAreNotMissed` | `Spec => []FirstEventIsNotMissed` |
| | `BooksOfLimboAgree` | `Spec => []LimboBooksAgree` |
| `LocalStoreProof` | `LocalStoreSafety` | `Spec => []StoreInv` |
| | `OnlyStraysLeak` | `Spec => OnlyStraysAreLeaked` |
| | `PinsEnd` | `Spec => []OnlyActiveQueriesPin` |
| | `TargetsStayComplete` | `Spec => []ResumableTargetsAreComplete` |
| | `PinnedStays` | `Spec => PinnedIsKept` |
| `TransactionsProof` | `TransactionsSafety` | `Spec => []TransactionsInv` |
| | `ResultIsTrue` | `Spec => []ResultIsThatOfTheCommit` |
| | `ReadsAreCurrent` | `Spec => CommitsSeeTheirReads` |
| `GrpcCallsProof` | `GrpcInvariant` | `Spec => []GrpcInv` |
| | `GrpcAssertionsHold` | `Spec => []NoHardAssertFails` |
| | `CompletionsStayTracked` | `Spec => []CompletionsAreTracked` |
| | `WorkerWaitsForDoomedCalls` | `Spec => []WaitsOnlyForDoomedCalls` |
| | `GrpcRulesAreFollowed` | `Spec => []CallsFollowGrpcRules` |
| `ExecutorStdProof` | `ScheduleSafety` | `Spec => []ScheduleInv` |
| | `RefinesExecutor` | `Spec => ImplementsExecutor` |
| `ExecutorLibdispatchProof` | `ExecutorSafety` | `Spec => []ExecutorInv` |
| | `CancelledStaysCancelled` | `Spec => CancelledNeverRuns` |
| | `AttemptsKeepDistance` | `Spec => AttemptsAreSpaced` |

### The write path

*`IInv`.* Neither `OnlyGracefulEndAborts` nor `PipelineIsQueuePrefix` is inductive. A result is safe
to apply only if there is a batch in the pipeline for it: that needs `InFlightOK`, which counts what
is in flight. The batch must be the first of the queue: that needs the prefix, and the prefix is
kept by `NextMutationBatchAfterBatchId` only if ids grow along the queue, by exactly one in memory,
where an index is computed from ids: `QueuesOrdered`, with the next id in it. LevelDB looks for the
largest id on disk when it starts; `IdsBounded` shows that the search stays within the bound of the
model. The streams' assertions need `StreamOK` (timers, call and handshake go with the state; an
idle timer only runs when there is nothing to send; a stream is only started for something to send)
and `TokensOK` (a token callback with the present close count is the only one, and the stream waits
for it), which is what the close count is for. After the one assertion that can fail, everything but
that assertion still holds, and what a restart needs is on disk: the lemmas about actions are for a
process that runs (`InvParts`), that about the restart for any state (`DurableParts`).

*`SafetyInv`* is inductive relative to `IInv` and says *which* write and *which* user. `CallOK`:
what is in flight, answers then requests, is the pipeline itself and not only as long, every answer
is about a committed write, and a call that ended with a permanent error still holds the refused
write at the head of its requests. That is why the first batch of the pipeline is the right one to
acknowledge or reject, although a response names no batch. `CredentialsInOrder`: a token callback
on the worker queue brings the token of the user who will be current when it runs. Credential
changes and token callbacks go through the same queue, and this is what carries
`CredentialsNeverCross` through any order of sign-ins and late tokens. `QueuesOwned`, `HandledOwned`
and `CallsOK` say whose each queued, handled and reported write is. `ErrorIsTrue` is under
`~WriteMayFailFirst`, because otherwise it is false (section 5), `NeverResent` under no restart,
because a crash between a completion block and its transaction resends.

*Refinement.* `WriteQueue` is shown step by step: a lemma for each action says which abstract step
it is, or that it is none.

The proofs are laid out bottom up: facts about sequences; the queue operators (`RemoveBatch`,
`IndexAfter`, `NextBatchIdAtStart`); what `FillWritePipeline` does to pipeline, stream and requests;
what each stream operator preserves; one lemma per action; one that combines them. The invariants
are grouped into what the store, the records and the remote store say, so that each action only
re-proves the groups it touches.

### The watch path

*`WatchInv`* holds whatever the backend does. `StreamOK` says what a state of the stream implies:
the backoff timer runs exactly in the backoff, the idle timer only on an open stream with nothing to
listen to, a token callback with the present close count is the one the stream waits for, and a
started stream has an aggregator and an enabled network. `OnlineOK` ties the tracker to it: the state
is online only on an open stream, and the timer of the tracker runs only while the state is unknown
on a started stream; `OnlineStateMatchesStream` is not inductive without the failure count, which
decides whether the next failure changes the state. `QuietOK` says that without an open stream
nothing is in flight and nothing is aggregated: this is why a reconnect may watch every target again
and count from zero. `KnownOK` is about `target_states_`: a target that it does not hold has none of
a state's fields.

*`KeysInv`* is inductive relative to `WatchInv`, also when targets are rejected and reset. It says
that the keys of the view of a target that is listened to are the keys on disk, and that those
changes of a target which are of type "modified" are about keys on disk. A target that was left
keeps its changes until the answers to its requests have come, and its keys stay on disk meanwhile;
a target that is listened to again gets its view from these keys. This is why no event modifies a
document that FSTView does not have, the only assertion that `WatchInv` does not give.
`OnlyGracefulEnd` follows from both: of all assertions one can fail, and that only in a step in
which the backend ends the call with OK.

*`CountInv`* is inductive relative to `WatchInv` when the backend rejects no target. The outstanding
responses of a target are the number of positions of the requests and answers about it that are in
flight. The lemmas say what appending, taking the head and `WatchAgain` do to such a number; the
order in which a reconnect watches the targets is any sequence that has each of them once, so the
number of its requests about a target is 1 or 0. An exact count is what makes a target active
exactly when the last answer about it has arrived. The hypothesis is needed: the error answer of a
target that was left is not counted (*Target error*, section 5).

*`SnapshotInv`* is inductive relative to both when, besides, the backend leaves no removal to an
existence filter. It names the results that the keys of a target are, wherever a client of this
backend keeps or sends something about it. On disk, in the view and in memory, the keys are the
results at the version of the token next to them (`StoredOK`). Of the requests on their way the last
one about a target decides what the target will be, and its token names the keys of the view
(`RequestsOK`). Of the messages on their way the last one about a document decides: read after what
the view has and the aggregator has noted, they lead to what the backend has sent, and, up to a
global snapshot, to the results at its version (`Played`, `InFlightOK`); the lemmas carry this over
appending a message and taking one off. A filter counts the results of the snapshot that follows it
(`FiltersOK`), so no filter finds a mismatch. That is what rules out *Token after a mismatch*
(section 5), where a token is persisted with keys it does not vouch for, and why the theorems have
the hypothesis `MaxElisions = 0`. Resets by the backend, reconnects to servers that lag behind,
restarts and any number of listens are covered.

### Views, listeners and limbo resolution

*`SyncInv`* has four parts, and they depend on each other only in the order given here.

`ResultInv` says of a view, at any time, what `ViewIsQueryResult` says of it when no commit of ours
is awaited. Two things stand in the way of that being inductive. A view may show the estimate of a
write whose commit differs (`shouldWaitForSyncedDocument`): `IsFresh` allows exactly that. And a
document whose estimate is popped off the limit while its commit is awaited may belong within the
limit by the committed content, which nothing tells the view before the watch service sends it. So
the limit is said to choose from `Candidates`: the documents the view shows, and of the others the
local documents that no commit is awaited for. A pass of `computeChangesWithDocuments` that does not
ask for a refill keeps this, for a view that is full and for one that is not; a refill over the
whole query result restores it, and never asks for another, which is an assertion of the code.

`EventsInv` says that the last snapshot of a query agrees with its view but for metadata, and of each
listener that it holds that snapshot, that the documents its application has by adding up changes
agree with the view if it was told anything, and otherwise that the snapshot may not be raised in
the present online state. The changes of a snapshot are said to lead from the documents of the view
before to those after (`Tells`); `Merge` keeps this over the two passes and the popped documents,
and meets none of the combinations that `AddChange` does not know.

`BooksInv` is `LimboBooksAgree` with types. The lemmas carry it over any order in which the views are
enumerated: references change view by view, but the targets of orphans end and those of requested
keys begin in the way `Orphans` says. `NoHardAssertFails` follows from the three others, one assertion
at a time.

*Limits* are by cardinality. That a set is cut to its first `limit` documents, that cutting depends
only on the documents and not on the rest, and that a document is past the limit whenever one before
it is, rests on the order of documents being total and on finite sets having a last element. The
latter is proved from least counterexamples: a set of naturals that is not empty has a least member.

### The local store

An operation of the local store is a composition of functions on a store, so the invariant is about
a store. Inside a transaction parts of it do not hold: keys whose references are gone, and whose end
of use the delegate has yet to hear of, and keys that a target has gained before the document is
cached, are exceptions. `KeptOK(s, X)` and `TargetsOK(s, Y)` carry these sets. `Y` is empty again at
the commit, which gives `StoreInv`. `X` ends as the keys that were leaked before and, after
`ApplyDocumentChange` alone, the key of the event if it was not cached and no target has it: that
is `OnlyStraysLeak`, an action property, as the leak itself cannot be excluded (*Strays*, section
5). `ViewsOK` (only active queries have views and pins) is what makes `releaseQuery` complete, and is
`PinsEnd`.

### Transactions

`AttemptsOK` orders attempts by the retries that were left, and says of every request at the backend
that it is the current one's or one whose answer is lost; `PhaseOK` says what each phase knows about
the commit; `ReadsOK` and `RequestsOK` that the *first* mutation of every document that was shown is
checked against the version shown. What the backend makes of a commit is a recursive function over
the mutations, and `ReadsAreCurrent` needs an induction over it: the mutation that is first for a
document meets the document as it was before the commit. The induction rule itself is derived from
facts of the library without an operator parameter: inclusion is well-founded on finite sets, hence
every non-empty set of naturals has a least member (`LeastNumber`), hence a set of naturals that has
0 and is closed under successor is everything (`NatSetInduction`).

### gRPC calls

`GrpcInv` says of each call, with the completions of it that are on their way to the worker:
`BooksOK`, that `completions_` holds what gRPC has and what is on its way and was not cancelled, and
that no two completions share an address; `SingleOK`, that there is at most one operation of a type
until its callback has run or is cancelled, which is gRPC's rule and is what the buffered writer and
the one pending read are for; `LifeOK`, what each class of call keeps between construction and
deletion. These hold at every blocking point, but one thing changes there: while the worker waits
for a call in `FinishCall` or the drain, all its completions are cancelled and still listed
(`WaitedOK`); at any other time none of those listed is (`FreeOK`). A callback that runs meanwhile
is then of another call or of no effect. `ActiveOK` says that the connection's list has exactly the
registered calls, each once. `TodoOK` and `PhaseOK` say which operations the worker may still have
before it in each phase of the shutdown, and that every live call is taken care of by one of them:
this is why no call is destroyed with a completion left.

The lemmas go from the operators of the model on a call's fields (`NewCompletionIs` and those after
it), over what each operation on one call leaves of the invariant when the other calls, the list and
the completions on their way are as they were, to one lemma per action.

### The executors

*`ExecutorLibdispatch`.* libdispatch cannot take an operation back, and handles are addresses that
are given out again; the destructor runs at any time. `ScheduleOK` says that the schedule has
exactly the slots that are not done, each once; `LiveSlots` that such a slot is the one its owner
holds and waits for, so a stale handle of another owner meets either a slot that is done or none;
`QueuedSlots` that a slot on the dispatch queue is there once and is deleted only after it ran. For
backoffs `LiveSlots` adds that the time waited and the time left reach the distance between
attempts.

*`ExecutorStd`.* `ScheduleInv` says that the deque is tasks, then no-ops, then timers by due time
(`Shape`), and that ids go with handles (`IdsOK`). The abstract FIFO and the abstract list of timers
are two pieces of the deque, `TasksOf` and `DelayedOf`; the refinement is a lemma for each insertion
(where `upper_bound` puts a task, a no-op, a timer) and each removal, and one for each action.

### Only model-checked

- Liveness (`QueueDrains`, `ListenersCatchUp`, `ListenersConverge`, `TransactionEnds`,
  `WorkerReturns`, `EndIsReported`, `NoWakeUpIsLost`): fairness and `ENABLED` are out of the
  prover's reach.

## 5. Findings and remarks

Each finding has a run that TLC expects to fail, and quotes the line it contradicts.

- *Lost response* (FS`remote/remote_store.mm:501`, `write_path_lost_response`). A permanent error
  rejects the first batch of the pipeline, although a failed gRPC write makes `GrpcStream` throw away
  a pending read that may hold that batch's acknowledgement. A committed write is then reported as
  failed.
- *Mismatch* (FS`remote/remote_event.mm:159`, `watch_path_mismatch`). An existence filter mismatch
  notes the removal of every document of the target. If the application leaves the target and
  listens again before the next snapshot, the target is pending then, so the removals are not
  raised, and the last answer clears them: the view becomes current and keeps a removed document.

What follows was seen with the same modules and other bounds or properties. It is recorded for the
reader of the code; the runs above state their properties so that they hold with it.

- *Graceful end* (FS`remote/remote_store.mm:444` and `:218`). `GrpcStream::OnOperationFailed` hands
  on whatever status the call ended with. The remote store takes OK for a stop of its own and
  asserts that the stream is not needed; a backend that ends a call with OK while writes are pending
  or targets are listened to ends the process. Both models have this, so `NoHardAssertFails` is not
  an invariant of them; `OnlyGracefulEndAborts`, checked and proved, says that no other assertion
  fails.
- *Strays* (S`Local/FSTLocalStore.mm:318`). The update of a document that no target has, before or
  after the event, is cached without telling the delegate: no reference will end that could orphan
  it, and no sentinel row shows it to the LRU collector. `OnlyStraysAreLeaked`, checked and proved,
  says that nothing else is leaked.
- *Relisten* (FS`remote/remote_event.mm:159`). "We have a freshly added target, so we need to reset
  any state that we had previously" clears the document changes only; the current flag and the
  pending reset of the earlier listen stay.
- *Token after a mismatch* (S`Local/FSTLocalStore.mm:298`). The event of an existence filter
  mismatch empties the keys of the target on disk and persists the token of the snapshot with it,
  while `RaiseWatchSnapshot` clears it only in `listen_targets_`; after a restart the target resumes
  from the token without the documents, until an existence filter finds out. Seen with
  `SavedTokenMissesNothing`, two documents, three changes and a removal left to a filter.
- *Target error* (FS`remote/remote_store.mm:342`). The error answer of a target that was left is not
  counted as an answer; a target with the same id that is listened to meanwhile never becomes active
  on that stream. Seen with `ListenersCatchUp`, two listens and a rejected target.
- *Pins* (S`Local/FSTLocalStore.mm:408`). Keys that leave a view are added to its references, not
  removed, so a document stays pinned until the query is released.
- *Stale handle* (FS`util/executor_libdispatch.mm:252`). `ExponentialBackoff` keeps the handle of an
  operation that has run. Its next `Cancel` looks for the address of that time slot, which may by
  then be the slot of another owner, whose operation is lost; `executor.h` promises that cancelling
  has no effect then. `ExecutorStd` compares ids and keeps the promise.
- *Suppressed change* (S`Core/FSTView.mm:380`). The change of an acknowledged write is held back
  until watch sends the document. If the write has moved the document out of the backend's limit,
  watch does not send it for this query, and the view keeps the estimate. `ListenersConverge`
  exempts this.
- *Limbo after a rejection* (S`Core/FSTView.mm:501`). Limbo documents are only computed while the
  view is current. A limbo listen that is rejected between a reset of the query's target and its
  next CURRENT leaves the key in the view's limbo set without a resolution; seen with one document,
  two queries, two listeners and six inputs, beyond the bound of `sync_engine`.
- *First snapshot* (S`Core/FSTSyncEngine.mm:232`). The documents of a view's first snapshot are not
  pinned at all, so a collection may take a document that a view shows; what the view has in memory
  stays.
- *Sequence numbers* (S`Local/FSTLevelDB.mm:145`). They restart from the highest number of a target;
  sentinels may have higher ones, so after a restart the order of use is not strictly kept.
- *Completions* (FS`remote/grpc_stream.cc:201`). A comment says that all completions but finish have
  been drained when a call is finished; completions that were already handed to the worker queue are
  still there, and are safe because they were cancelled (`CompletionsAreTracked`).
- *Transactions.* A commit that fails with a transient error is retried although the backend may
  have carried it out; both attempts may then be applied. Retries follow each other without a delay.
  A shutdown drops the callbacks of calls: a block in `getDocument` waits for ever, and a block that
  returns with an error makes `verifyNotShutdown` throw on the worker queue.
- *Shutdown* (S`Core/FSTFirestoreClient.mm:331`). `enableNetwork` and others test for a shutdown on
  the caller's thread and run later; `listenToQuery:` does not test at all.

## 6. Not modelled, and the plan

Not modelled at all: the other products of the repository, serializers, queries and values as such
(pure functions with unit tests), LevelDB and gRPC themselves (libraries), the connectivity
monitor's operating system callbacks (their effect on calls is modelled), migrations and key
encodings of LevelDB, arguments of the public API. Of the local store, `userDidChange:` is in
`WritePath` only; of the aggregator, existence filters of single documents are left out.

Of the lines of C and C++ in the repository the map covers a small share: most of them are generated
protocol buffer code and other products, and most of what is modelled is Objective-C++. What the map
does cover of Firestore is the code that decides something: streams, stores, queues, views, calls,
executors, transactions. What is left there converts, compares and formats.

Every safety invariant and action property that a passing run checks is a theorem, under the
hypotheses of the table in section 4. What would come next:

1. The hypotheses of the watch path's theorems, `MaxErrors = 0` and `MaxElisions = 0`. They stand for
   places of the code (section 5: *Target error*, *Mismatch*, *Token after a mismatch*); with
   these changed, the theorems should be proved without them.
2. `userDidChange:` in `SyncEngine`, so that views are shown to follow the mutation queue of another
   user.
