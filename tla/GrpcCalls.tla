------------------------------ MODULE GrpcCalls ------------------------------
(***************************************************************************)
(* The gRPC calls of the client: GrpcStream, GrpcStreamingReader and       *)
(* GrpcUnaryCall, their completions, GrpcConnection and the polling loop   *)
(* of Datastore.  Three parties run concurrently: the worker queue, which  *)
(* owns the calls; the polling thread, which takes completions off the     *)
(* gRPC completion queue and puts their callbacks on the worker queue; and *)
(* gRPC with the backend.                                                  *)
(*                                                                         *)
(* The worker blocks in the middle of an operation, in WaitUntilOffQueue   *)
(* and in the final ExecuteBlocking.  An action is what it does up to the  *)
(* next such point.  What is left to do is the sequence todo of operations *)
(* on calls; blockedIn says where the worker is in the first of them.      *)
(***************************************************************************)
EXTENDS Assertions, Naturals, Sequences, FiniteSets, SequencesExt

CONSTANTS
    Calls,              \* the calls that may be made
    KindsOf,            \* [Calls -> the classes a call may have]
    MaxBuffered,        \* bound: messages waiting in a BufferedWriter
    MaxMessages,        \* bound: messages of the backend that were not read yet
    MaxNetworkChanges   \* bound: changes of the network status

\* A GrpcStream of the watch or write stream; a GrpcStreamingReader and a
\* GrpcUnaryCall of Datastore.
Kinds == {"stream", "reader", "unary"}

ASSUME GrpcCallsAssumption ==
    /\ Calls # {}
    /\ KindsOf \in [Calls -> SUBSET Kinds]
    /\ MaxBuffered \in Nat
    /\ MaxMessages \in Nat
    /\ MaxNetworkChanges \in Nat

VARIABLES
    call,           \* [Calls -> the fields of the call and of the gRPC objects it owns]
    activeCalls,    \* active_calls_ of GrpcConnection
    todo,           \* the operations on calls that the worker has still to do
    blockedIn,      \* where it is in the first of them: nothing, lastWrite, finish, drain
    workQueue,      \* completions that wait for the worker queue
    poller,         \* the completion the polling thread is at, in Complete()
    shutdown,       \* how far RemoteStore::Shutdown is: no, streams, calls, queue
    failed,         \* failed assertions
    networkChanges  \* changes of the network status so far

vars == <<call, activeCalls, todo, blockedIn, workQueue, poller, shutdown, failed,
          networkChanges>>

NewCall ==
    [kind |-> "stream",          \* its class
     life |-> "none",            \* none, live, dead: not created, there, destroyed
     observer |-> FALSE,         \* observer_ (callback_ of a unary call) is set
     registered |-> FALSE,       \* grpc_connection_ is set
     isCallFinished |-> FALSE,   \* is_grpc_call_finished_
     hasActiveWrite |-> FALSE,   \* has_active_write_
     buffer |-> 0,               \* length of queue_ of the BufferedWriter
     completions |-> {},         \* completions_ (finish_completion_ of a unary call)
     cancelled |-> {},           \* completions whose callback_ was cleared
     ops |-> {},                 \* operations that gRPC has not given back
     contextCancelled |-> FALSE, \* TryCancel was called
     unread |-> 0,               \* messages of the backend that no read has taken
     owed |-> 0,                 \* messages of the backend the observer was not given
     ended |-> "no",             \* how the call ended on the backend: no, ok, error
     result |-> "none"]          \* what OnStreamFinish or the callback reported

-----------------------------------------------------------------------------
(* Methods, as functions on the fields of a call.                          *)

\* Where a new completion is allocated: an address that no completion has.
FreeAddress(s) ==
    LET used == s.completions \cup s.cancelled \cup {op.n : op \in s.ops}
    IN  CHOOSE n \in 1 .. Cardinality(used) + 1 : n \notin used

\* NewCompletion, and the gRPC operation that is given the completion as its tag.
NewCompletion(s, type) ==
    LET n == FreeAddress(s) IN
    [s EXCEPT !.completions = @ \cup {n}, !.ops = @ \cup {[n |-> n, type |-> type]}]

Read(s) == IF s.observer THEN NewCompletion(s, "Read") ELSE s

\* Mutant: a write is started although another one is active.
StartsAnyWrite(s) ==
    IF s.buffer = 0 THEN s
    ELSE NewCompletion([s EXCEPT !.hasActiveWrite = TRUE, !.buffer = @ - 1], "Write")
\* BufferedWriter::TryStartWrite and, with the write it returns, MaybeWrite.
TryStartWrite(s) ==
    IF s.buffer = 0 \/ s.hasActiveWrite THEN s
    ELSE NewCompletion([s EXCEPT !.hasActiveWrite = TRUE, !.buffer = @ - 1], "Write")

\* EnqueueWrite, and MaybeWrite with what it returns.
Write(s) == TryStartWrite([s EXCEPT !.buffer = @ + 1])

OnWrite(s) == IF s.observer THEN TryStartWrite([s EXCEPT !.hasActiveWrite = FALSE]) ELSE s

OnRead(s) == IF s.observer THEN [Read(s) EXCEPT !.owed = @ - 1] ELSE s

\* Start of a stream, of a reader, which also writes its request, and of a unary
\* call, which waits for its end.
StartStream(s) == Read(s)
StartReader(s) == Write(Read(s))
StartUnaryCall(s) == NewCompletion(s, "Finish")

\* The constructor, with Register, and Start.
Started(kind) ==
    LET s == [NewCall EXCEPT !.kind = kind, !.life = "live", !.observer = TRUE,
                             !.registered = TRUE]
    IN  CASE kind = "stream" -> StartStream(s)
          [] kind = "reader" -> StartReader(s)
          [] kind = "unary" -> StartUnaryCall(s)

\* The fields are gone; completions that are on their way remain.
Destroyed(s) ==
    [NewCall EXCEPT !.kind = s.kind, !.life = "dead", !.isCallFinished = s.isCallFinished,
                    !.completions = s.completions, !.cancelled = s.cancelled, !.ops = s.ops,
                    !.owed = s.owed, !.result = s.result]

\* Mutant: the callbacks stay.
CancelsNothing(s) == s
\* Cancel() of every completion.
CancelCompletions(s) == [s EXCEPT !.cancelled = @ \cup s.completions]

\* Every completion has come off the gRPC queue.
AllOffQueue(s) == \A op \in s.ops : op.n \notin s.completions

\* The call is over for gRPC, so what is pending comes back quickly.
IsDoomed(s) == s.contextCancelled \/ s.ended # "no"

\* Mutant: the context is not cancelled.
FinishesOnly(s) == s
TryCancel(s) == [s EXCEPT !.contextCancelled = TRUE]

-----------------------------------------------------------------------------
(* The operations of the worker.                                           *)

\* What the worker is to do with call c.  Close is FinishImmediately and the end of
\* the call's life; WriteAndFinish is a last write before that.
Operation(op, c, status) == [op |-> op, call |-> c, status |-> status]

Alive(s) == HardAssert(s.life = "live", "use of a destroyed call")
ProperlyShutDown(s) == HardAssert(s.completions = {}, "destroyed without proper shutdown")

\* The operation with call c has made s of its fields.
Becomes(c, s, asserts) ==
    /\ call' = [call EXCEPT ![c] = s]
    /\ failed' = failed \cup Alive(call[c]) \cup asserts

\* MaybeUnregister, with GrpcConnection::Unregister.
MaybeUnregister(c) ==
    activeCalls' = IF call[c].registered THEN RemoveFirst(activeCalls, c) ELSE activeCalls

IsRegistered(c) ==
    HardAssert(call[c].registered => c \in Range(activeCalls), "Missing a gRPC call")

\* FinishGrpcCall up to its wait.
FinishGrpcCall(s) == CancelCompletions([s EXCEPT !.isCallFinished = TRUE])

NotFinished(s) == HardAssert(~s.isCallFinished, "FinishGrpcCall called twice")

\* Shutdown finishes a stream that was started and is not finished.
MustFinish(s) == s.kind # "unary" /\ s.completions # {} /\ ~s.isCallFinished

-----------------------------------------------------------------------------

Init ==
    /\ call = [c \in Calls |-> NewCall]
    /\ activeCalls = <<>>
    /\ todo = <<>>
    /\ blockedIn = "nothing"
    /\ workQueue = <<>>
    /\ poller = <<>>
    /\ shutdown = "no"
    /\ failed = {}
    /\ networkChanges = 0

\* grpc_queue_.Next returns FALSE: the queue is closed and every tag was taken.
PollerIsDone == shutdown = "queue" /\ poller = <<>> /\ \A c \in Calls : call[c].ops = {}

\* The worker may start another operation: it is not within one, and not in the
\* ExecuteBlocking with which Datastore::Shutdown waits for PollGrpcQueue to return.
IsIdle == todo = <<>> /\ (shutdown # "no" => PollerIsDone)

(* Operations that start on the worker queue.                              *)

\* ResumeStartWithCredentials, LookupDocumentsWithCredentials and
\* CommitMutationsWithCredentials.
StartCall(c) ==
    /\ IsIdle
    /\ shutdown = "no"
    /\ call[c].life = "none"
    /\ \E kind \in KindsOf[c] : call' = [call EXCEPT ![c] = Started(kind)]
    /\ activeCalls' = Append(activeCalls, c)
    /\ UNCHANGED <<todo, blockedIn, workQueue, poller, shutdown, failed, networkChanges>>

IsOpenStream(c) == call[c].life = "live" /\ call[c].kind = "stream"

\* Stream::Write.
WriteMessage(c) ==
    /\ IsIdle
    /\ IsOpenStream(c)
    /\ call[c].buffer < MaxBuffered
    /\ call' = [call EXCEPT ![c] = Write(@)]
    /\ UNCHANGED <<activeCalls, todo, blockedIn, workQueue, poller, shutdown, failed,
                   networkChanges>>

\* Stream::Close on a graceful stop: the watch stream finishes, the write stream may
\* try a last write first; then the call is destroyed.
StopStream(c) ==
    /\ IsIdle
    /\ IsOpenStream(c)
    /\ \E op \in {"Close", "WriteAndFinish"} : todo' = <<Operation(op, c, "none")>>
    /\ UNCHANGED <<call, activeCalls, blockedIn, workQueue, poller, shutdown, failed,
                   networkChanges>>

\* The callback of RegisterConnectivityMonitor, over a copy of the active calls.
ConnectivityChanged ==
    /\ IsIdle
    /\ shutdown = "no"
    /\ networkChanges < MaxNetworkChanges
    /\ networkChanges' = networkChanges + 1
    /\ todo' = [i \in 1 .. Len(activeCalls) |->
                    Operation("FinishAndNotify", activeCalls[i], "error")]
    /\ UNCHANGED <<call, activeCalls, blockedIn, workQueue, poller, shutdown, failed>>

\* RemoteStore::Shutdown: the streams are stopped,
Shutdown ==
    /\ IsIdle
    /\ shutdown = "no"
    /\ shutdown' = "streams"
    /\ \E order \in SetToSeqs({c \in Range(activeCalls) : IsOpenStream(c)}) :
       \E op \in {"Close", "WriteAndFinish"} :
        todo' = [i \in 1 .. Len(order) |-> Operation(op, order[i], "none")]
    /\ UNCHANGED <<call, activeCalls, blockedIn, workQueue, poller, failed, networkChanges>>

\* then Datastore::Shutdown finishes a copy of the active calls,
ShutdownDatastore ==
    /\ todo = <<>>
    /\ shutdown = "streams"
    /\ shutdown' = "calls"
    /\ todo' = [i \in 1 .. Len(activeCalls) |->
                    Operation("FinishImmediately", activeCalls[i], "none")]
    /\ UNCHANGED <<call, activeCalls, blockedIn, workQueue, poller, failed, networkChanges>>

\* then it closes the gRPC queue, and waits for the polling thread.
CloseGrpcQueue ==
    /\ todo = <<>>
    /\ shutdown = "calls"
    /\ shutdown' = "queue"
    /\ UNCHANGED <<call, activeCalls, todo, blockedIn, workQueue, poller, failed, networkChanges>>

\* ~Datastore releases a call of its active_calls_.
DestroyDatastore(c) ==
    /\ IsIdle
    /\ shutdown = "queue"
    /\ call[c].life = "live"
    /\ Becomes(c, Destroyed(call[c]), ProperlyShutDown(call[c]) \cup IsRegistered(c))
    /\ MaybeUnregister(c)
    /\ UNCHANGED <<todo, blockedIn, workQueue, poller, shutdown, networkChanges>>

-----------------------------------------------------------------------------
(* The worker goes on with its operation.                                  *)

\* It is at this point of the first operation.
At(place) == todo # <<>> /\ blockedIn = place

Current == Head(todo)

\* TryLastWrite of WriteAndFinish, up to its wait; without a wait when a write is active.
TryLastWrite ==
    /\ At("nothing")
    /\ Current.op = "WriteAndFinish"
    /\ ~call[Current.call].isCallFinished
    /\ Becomes(Current.call, Write(call[Current.call]), {})
    /\ todo' = <<Operation("Close", Current.call, "none")>> \o Tail(todo)
    /\ blockedIn' = IF call[Current.call].hasActiveWrite THEN "nothing" ELSE "lastWrite"
    /\ UNCHANGED <<activeCalls, workQueue, poller, shutdown, networkChanges>>

\* WaitUntilOffQueue(500 ms) returns, because the write is off the queue or by the timeout.
LastWriteAwaited ==
    /\ At("lastWrite")
    /\ blockedIn' = "nothing"
    /\ UNCHANGED <<call, activeCalls, todo, workQueue, poller, shutdown, failed, networkChanges>>

\* Shutdown of a call: it is unregistered, and a stream is finished, up to the wait.
ShutdownFinishes ==
    /\ At("nothing")
    /\ Current.op = "WriteAndFinish" => call[Current.call].isCallFinished
    /\ LET c == Current.call
           s == [call[c] EXCEPT !.registered = FALSE]
       IN  /\ MustFinish(s)
           /\ Becomes(c, FinishGrpcCall(TryCancel(s)), IsRegistered(c) \cup NotFinished(s))
           /\ MaybeUnregister(c)
    /\ blockedIn' = "finish"
    /\ UNCHANGED <<todo, workQueue, poller, shutdown, networkChanges>>

\* A stream that is finished or was never started, and a unary call, of which only the
\* completion is left.
ShutdownDrains ==
    /\ At("nothing")
    /\ Current.op = "WriteAndFinish" => call[Current.call].isCallFinished
    /\ LET c == Current.call
           s == [call[c] EXCEPT !.registered = FALSE]
       IN  /\ ~MustFinish(s)
           /\ Becomes(c, CancelCompletions(IF s.kind = "unary" /\ s.completions # {}
                                           THEN TryCancel(s) ELSE s), IsRegistered(c))
           /\ MaybeUnregister(c)
    /\ blockedIn' = "drain"
    /\ UNCHANGED <<todo, workQueue, poller, shutdown, networkChanges>>

\* WaitUntilOffQueue has returned for every completion; completions_.clear().
Drained(s) == [s EXCEPT !.completions = {}]

\* FinishGrpcCall goes on and ends; Shutdown, if it was the caller, drains the completion.
EnqueueFinish ==
    /\ At("finish")
    /\ AllOffQueue(call[Current.call])
    /\ LET t == NewCompletion(Drained(call[Current.call]), "Finish") IN
        \/ /\ Current.op = "FinishGrpcCall"
           /\ Becomes(Current.call, t, {})
           /\ todo' = Tail(todo)
           /\ blockedIn' = "nothing"
        \/ /\ Current.op # "FinishGrpcCall"
           /\ Becomes(Current.call, CancelCompletions(t), {})
           /\ blockedIn' = "drain"
           /\ UNCHANGED todo
    /\ UNCHANGED <<activeCalls, workQueue, poller, shutdown, networkChanges>>

\* What follows Shutdown: FinishImmediately unsets the observer; FinishAndNotify calls it,
\* and it releases the call.
Ended(s, o) ==
    CASE o.op = "FinishImmediately" -> [s EXCEPT !.observer = (s.kind = "unary" /\ @)]
      [] o.op = "FinishAndNotify" ->
            IF s.observer THEN Destroyed([s EXCEPT !.result = o.status]) ELSE s
      [] o.op \in {"Close", "WriteAndFinish"} -> Destroyed(s)

ShutdownEnds ==
    /\ At("drain")
    /\ AllOffQueue(call[Current.call])
    /\ Becomes(Current.call, Ended(Drained(call[Current.call]), Current), {})
    /\ todo' = Tail(todo)
    /\ blockedIn' = "nothing"
    /\ UNCHANGED <<activeCalls, workQueue, poller, shutdown, networkChanges>>

GoOn ==
    \/ TryLastWrite \/ LastWriteAwaited \/ ShutdownFinishes \/ ShutdownDrains
    \/ EnqueueFinish \/ ShutdownEnds \/ ShutdownDatastore \/ CloseGrpcQueue

-----------------------------------------------------------------------------
(* Callbacks of completions.                                               *)

\* The callback that Complete() put on the worker queue is e.  Cancel() has made it
\* a no-op, or it removes the completion and goes on as below.
CallbackIsCancelled(e) == e.n \in call[e.call].cancelled

RunCompletion(e) ==
    /\ IsIdle
    /\ workQueue # <<>>
    /\ e = Head(workQueue)
    /\ workQueue' = Tail(workQueue)
    /\ UNCHANGED <<activeCalls, poller, shutdown, networkChanges>>

\* Nothing but delete this.
CancelledCallback(e) ==
    /\ RunCompletion(e)
    /\ CallbackIsCancelled(e)
    /\ call' = [call EXCEPT ![e.call].cancelled = @ \ {e.n}]
    /\ UNCHANGED <<todo, blockedIn, failed>>

\* The fields after RemoveCompletion, and its assertion.
RemoveCompletion(e) == [call[e.call] EXCEPT !.completions = @ \ {e.n}]
IsTracked(e) == HardAssert(e.n \in call[e.call].completions, "Missing GrpcCompletion")

\* OnRead.  The observer takes the message; or it cannot parse it, and
\* Stream::OnStreamRead finishes and closes the stream.
ReadCompleted(e) ==
    /\ RunCompletion(e)
    /\ ~CallbackIsCancelled(e)
    /\ e.type = "Read" /\ e.ok
    /\ Becomes(e.call, OnRead(RemoveCompletion(e)), IsTracked(e))
    /\ \/ UNCHANGED todo
       \/ /\ call[e.call].kind = "stream"
          /\ todo' = <<Operation("Close", e.call, "none")>>
    /\ UNCHANGED blockedIn

WriteCompleted(e) ==
    /\ RunCompletion(e)
    /\ ~CallbackIsCancelled(e)
    /\ e.type = "Write" /\ e.ok
    /\ Becomes(e.call, OnWrite(RemoveCompletion(e)), IsTracked(e))
    /\ UNCHANGED <<todo, blockedIn>>

\* Mutant: a second failure finishes the call again.
AlwaysFinishes(s) == TRUE
\* Mutant: a failure is not followed up.
IgnoresFailure(s) == FALSE
\* OnOperationFailed has nothing to do for a call that is finished.
FailureFinishes(s) == ~s.isCallFinished

OperationFailed(e) ==
    /\ RunCompletion(e)
    /\ ~CallbackIsCancelled(e)
    /\ ~e.ok
    /\ LET s == RemoveCompletion(e) IN
        \/ /\ FailureFinishes(s)
           /\ Becomes(e.call, FinishGrpcCall(s), IsTracked(e) \cup NotFinished(s))
           /\ todo' = <<Operation("FinishGrpcCall", e.call, "none")>>
           /\ blockedIn' = "finish"
        \/ /\ ~FailureFinishes(s)
           /\ Becomes(e.call, s, IsTracked(e))
           /\ UNCHANGED <<todo, blockedIn>>

FinishCompleted(e) ==
    /\ RunCompletion(e)
    /\ ~CallbackIsCancelled(e)
    /\ e.type = "Finish" /\ e.ok
    /\ Becomes(e.call, RemoveCompletion(e), IsTracked(e))
    /\ todo' = <<Operation("FinishAndNotify", e.call, e.status)>>
    /\ UNCHANGED blockedIn

RunCallback ==
    \E e \in Range(workQueue) :
        \/ CancelledCallback(e) \/ ReadCompleted(e) \/ WriteCompleted(e)
        \/ OperationFailed(e) \/ FinishCompleted(e)

-----------------------------------------------------------------------------
(* The polling thread.                                                     *)

\* How gRPC may end an operation: the values of ok.  Messages that arrived before
\* a call ended well are read first, and the backend answers a reader only after
\* its request was written.
Outcomes(s, op) ==
    CASE op.type = "Read" ->
            {ok \in BOOLEAN : IF ok THEN s.unread > 0
                              ELSE \/ s.contextCancelled
                                   \/ s.ended = "error"
                                   \/ s.ended = "ok" /\ s.unread = 0}
      [] op.type = "Write" ->
            {IsDoomed(s) => s.kind = "reader" /\ (s.owed > 0 \/ s.ended = "ok")}
      [] op.type = "Finish" -> {ok \in BOOLEAN : ok /\ IsDoomed(s)}

\* gRPC has given back an operation; one that is a read has taken a message.
Taken(s, op, ok) ==
    [s EXCEPT !.ops = @ \ {op}, !.unread = IF op.type = "Read" /\ ok THEN @ - 1 ELSE @]

\* Next returns a tag, and Complete() fulfils its promise.
NextCompletion(c) ==
    /\ poller = <<>>
    /\ \E op \in call[c].ops : \E ok \in Outcomes(call[c], op) :
        /\ poller' = <<[call |-> c, n |-> op.n, type |-> op.type, ok |-> ok,
                        status |-> IF call[c].ended = "ok" THEN "ok" ELSE "error"]>>
        /\ call' = [call EXCEPT ![c] = Taken(@, op, ok)]
    /\ UNCHANGED <<activeCalls, todo, blockedIn, workQueue, shutdown, failed, networkChanges>>

\* Complete() puts the callback on the worker queue.
EnqueueCallback ==
    /\ poller # <<>>
    /\ workQueue' = workQueue \o poller
    /\ poller' = <<>>
    /\ UNCHANGED <<call, activeCalls, todo, blockedIn, shutdown, failed, networkChanges>>

-----------------------------------------------------------------------------
(* gRPC and the backend.                                                   *)

CanAnswer(c) == call[c].life = "live" /\ call[c].ended = "no" /\ ~call[c].contextCancelled

ServerSends(c) ==
    /\ CanAnswer(c)
    /\ call[c].kind # "unary"
    /\ call[c].owed < MaxMessages
    /\ call' = [call EXCEPT ![c].owed = @ + 1, ![c].unread = @ + 1]
    /\ UNCHANGED <<activeCalls, todo, blockedIn, workQueue, poller, shutdown, failed,
                   networkChanges>>

ServerEnds(c) ==
    /\ CanAnswer(c)
    /\ \E ended \in {"ok", "error"} : call' = [call EXCEPT ![c].ended = ended]
    /\ UNCHANGED <<activeCalls, todo, blockedIn, workQueue, poller, shutdown, failed,
                   networkChanges>>

Next ==
    \/ \E c \in Calls :
        \/ StartCall(c) \/ WriteMessage(c) \/ StopStream(c)
        \/ NextCompletion(c) \/ ServerSends(c) \/ ServerEnds(c)
    \/ \E c \in Calls : DestroyDatastore(c)
    \/ ConnectivityChanged \/ Shutdown
    \/ RunCallback \/ GoOn
    \/ EnqueueCallback

Spec == Init /\ [][Next]_vars

\* The worker queue and the polling thread keep running, and gRPC gives back the
\* operations of a call that is over.  Nothing is assumed of the backend.
Fairness ==
    /\ WF_vars(GoOn)
    /\ WF_vars(RunCallback)
    /\ WF_vars(EnqueueCallback)
    /\ \A c \in Calls : SF_vars(IsDoomed(call[c]) /\ NextCompletion(c))

FairSpec == Spec /\ Fairness

-----------------------------------------------------------------------------
(* Properties.                                                             *)

\* No HARD_ASSERT of GrpcStream, GrpcStreamingReader, GrpcUnaryCall or
\* GrpcConnection fails, and no callback runs on a call that was destroyed.
NoHardAssertFails == failed = {}

\* The completions on their way to the worker queue.
InTransit(c) == {e.n : e \in {f \in Range(workQueue \o poller) : f.call = c}}

\* completions_ holds exactly the completions that exist and were not cancelled,
\* whatever the polling thread is doing: a pointer to a completion that deleted
\* itself would be followed by Cancel, a completion that is not in the list would
\* run its callback on a destroyed stream.
CompletionsAreTracked ==
    \A c \in Calls :
        LET there == {op.n : op \in call[c].ops} \cup InTransit(c) IN
        /\ there \ call[c].cancelled \subseteq call[c].completions
        /\ call[c].completions \subseteq there

\* "Important: before calling this function, the caller must be sure that any
\* pending completions on the gRPC completion queue will come back quickly (either
\* because the call has failed, or because the call has been canceled)"
\* (grpc_stream.h): the worker never blocks on a call that may go on for ever.
WaitsOnlyForDoomedCalls ==
    At("finish") \/ At("drain") =>
        IsDoomed(call[Current.call]) \/ AllOffQueue(call[Current.call])

\* gRPC's terms: one read and one write at a time; a call that was started is finished
\* before it is destroyed; and "gRPC requires the context_ and call_ objects to be valid
\* until the last gRPC operation associated with this stream finishes" (grpc_stream.h).
CallsFollowGrpcRules ==
    \A c \in Calls :
        /\ call[c].life = "dead" => call[c].ops = {}
        /\ \A op1, op2 \in call[c].ops : op1.type = op2.type => op1 = op2
        /\ call[c].kind # "unary" /\ call[c].life = "dead" => call[c].isCallFinished

\* The worker queue is never blocked for good.
WorkerReturns == ~IsIdle ~> IsIdle

\* The end of a call is reported, or the owner has finished the call itself.
EndIsReported == \A c \in Calls : call[c].ended # "no" ~> call[c].life = "dead" \/ shutdown # "no"
=============================================================================
