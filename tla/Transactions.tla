----------------------------- MODULE Transactions -----------------------------
(***************************************************************************)
(* One call of runTransactionWithBlock: the retries of FSTSyncEngine, the  *)
(* Transaction object of each attempt, the unary calls of Datastore, the   *)
(* application's block on its own queue, and FSTFirestoreClient's shutdown *)
(* on the worker queue.  Transactions share no state of the client, so the *)
(* others are part of OtherWrite, with all other writers of the backend.   *)
(*                                                                         *)
(* A version is 0 (SnapshotVersion::None) for a document that does not     *)
(* exist; the values written are left out.                                 *)
(***************************************************************************)
EXTENDS Integers, Sequences, FiniteSets

CONSTANTS
    Docs,
    Existing,    \* the documents that exist at the start
    kRetries,    \* the retries RunTransaction asks for (5 in the product)
    MaxOps,      \* bound: operations of the block, in all attempts
    MaxOthers,   \* bound: writes of others
    MaxFaults    \* bound: calls and tokens that fail

ASSUME TransactionsAssumption ==
    /\ Existing \subseteq Docs
    /\ kRetries \in Nat /\ MaxOps \in Nat /\ MaxOthers \in Nat /\ MaxFaults \in Nat

VARIABLES
    \* The backend.
    version,     \* the version of every document
    clock,       \* the last version given out
    requests,    \* the commits it has not yet carried out: [attempt, mutations, shown]
    applied,     \* the attempts whose commit it carried out
    \* The client.
    phase,       \* where the transaction is
    retries,     \* the retries left; it also names the attempt
    tx,          \* the Transaction object: read_versions_, mutations_, ...
    arg,         \* what the phase waits with: a key, the block's result or an answer
    result,      \* what the completion was called with, or "none"
    isShutdown,
    \* The block, and history.
    shown,       \* the versions of each document that the block has been shown in this attempt
    lost,        \* the attempts that failed in the client by a fault, whatever the backend did
    ops, others, faults

backend == <<version, clock, requests, applied>>
vars == <<version, clock, requests, applied, phase, retries, tx, arg, result, isShutdown, shown,
          lost, ops, others, faults>>

\* Datastore::IsPermanentError, for the errors that occur here, and
\* isRetryableTransactionError.
IsPermanentError(code) ==
    code \in {"InvalidArgument", "NotFound", "FailedPrecondition", "Aborted"}

IsRetryableTransactionError(code) ==
    code \in {"Aborted", "FailedPrecondition"} \/ ~IsPermanentError(code)

\* A new Transaction object.
NewTransaction ==
    [read_versions |-> <<>>, written_docs |-> {}, mutations |-> <<>>, last_write_error |-> "ok",
     permanentError |-> FALSE]

NothingShown == [k \in Docs |-> {}]

Init ==
    /\ version = [k \in Docs |-> IF k \in Existing THEN 1 ELSE 0] /\ clock = 1
    /\ requests = {} /\ applied = {}
    /\ phase = "idle" /\ retries = kRetries /\ tx = NewTransaction
    /\ arg = "none" /\ result = "none" /\ isShutdown = FALSE
    /\ shown = NothingShown
    /\ lost = {} /\ ops = 0 /\ others = 0 /\ faults = 0

\* Bound: what others do is left out when it can no longer matter to the transaction.
IsOpen == phase \notin {"idle", "reported", "threw", "abandoned"}

-----------------------------------------------------------------------------
(* FSTFirestoreClient and FSTSyncEngine, on the worker queue.              *)

\* transactionWithRetries: the object of a new attempt; the block is dispatched.
TransactionWithRetries(n) ==
    /\ retries' = n /\ tx' = NewTransaction /\ phase' = "block" /\ arg' = "none"
    /\ shown' = NothingShown
    /\ UNCHANGED <<result, ops>>

\* async_callback: verifyNotShutdown throws on the worker queue, or the completion is
\* handed to the user executor.  The Transaction object is released.
ResultCallback(res) ==
    /\ phase' = IF isShutdown THEN "threw" ELSE "reported"
    /\ result' = IF isShutdown THEN "none" ELSE res
    /\ arg' = "none" /\ tx' = NewTransaction /\ shown' = NothingShown
    /\ UNCHANGED <<retries, ops>>

\* The callback of a call is dropped, and the Transaction object is never used again.
Abandon == phase' = "abandoned" /\ arg' = "none" /\ tx' = NewTransaction /\ shown' = NothingShown

\* (mutant) The retries are not counted down.
KeepsRetries(code) ==
    IF retries > 0 /\ IsRetryableTransactionError(code) /\ ~tx.permanentError
    THEN TransactionWithRetries(retries)
    ELSE ResultCallback(code)

\* An attempt has failed, in the block, in Commit or at the backend.
RetryOrFail(code) ==
    IF retries > 0 /\ IsRetryableTransactionError(code) /\ ~tx.permanentError
    THEN TransactionWithRetries(retries - 1)
    ELSE ResultCallback(code)

\* The application calls runTransactionWithBlock, and the worker queue runs the task.
RunTransaction ==
    /\ phase = "idle"
    /\ phase' = "queued"
    /\ UNCHANGED <<backend, retries, tx, arg, result, isShutdown, shown, lost, ops,
                   others, faults>>

StartTransaction ==
    /\ phase = "queued"
    /\ TransactionWithRetries(kRetries)
    /\ UNCHANGED <<backend, isShutdown, lost, others, faults>>

\* Transaction::Commit: the status it fails with before anything is sent, or "ok".
CommitStatus ==
    LET unwritten == DOMAIN tx.read_versions \ {tx.mutations[i].key : i \in DOMAIN tx.mutations}
    IN  IF tx.last_write_error # "ok" THEN tx.last_write_error
        ELSE IF unwritten # {} THEN "InvalidArgument" ELSE "ok"

\* The task that the block's result callback has enqueued.
BlockReturned ==
    /\ phase = "returned"
    /\ \/ arg # "ok" /\ RetryOrFail(arg)
       \/ arg = "ok" /\ CommitStatus # "ok" /\ RetryOrFail(CommitStatus)
       \/ /\ arg = "ok" /\ CommitStatus = "ok"
          /\ phase' = "commitToken"
          /\ UNCHANGED <<retries, tx, arg, result, shown, ops>>
    /\ UNCHANGED <<backend, isShutdown, lost, others, faults>>

\* shutdownWithCallback: Datastore::Shutdown finishes the calls without telling their
\* owners, then _isShutdown is set.  A block that waits for a call waits for ever.
Shutdown ==
    /\ IsOpen /\ ~isShutdown
    /\ isShutdown' = TRUE
    /\ IF phase \in {"lookupCall", "lookupAnswered", "commitCall", "commitAnswered"}
       THEN Abandon ELSE UNCHANGED <<phase, tx, arg, shown>>
    /\ UNCHANGED <<backend, retries, result, lost, ops, others, faults>>

-----------------------------------------------------------------------------
(* The block, on its own queue: FIRTransaction and Transaction.            *)

InBlock == phase = "block" /\ UNCHANGED <<backend, result, isShutdown, lost, others, faults>>

\* The block gets an error from getDocument, and may return it or go on.
LookupFailed ==
    /\ phase' = "block" /\ arg' = "none"
    /\ UNCHANGED <<tx, shown>>

\* Transaction::Lookup; getDocument waits for its callback.
Lookup(k) ==
    /\ InBlock /\ ops < MaxOps /\ ops' = ops + 1
    /\ \/ tx.mutations # <<>> /\ LookupFailed
       \/ /\ tx.mutations = <<>>
          /\ phase' = "lookupToken" /\ arg' = k
          /\ UNCHANGED <<tx, shown>>
    /\ UNCHANGED retries

\* Preconditions: [type |-> "None"], [type |-> "Exists"] (true) or [type |-> "UpdateTime", ...].
\* GetVersion has a value, and the document is written for the first time.
IsFirstWriteOfRead(k) == k \notin tx.written_docs /\ k \in DOMAIN tx.read_versions

UpdateTime(k) == [type |-> "UpdateTime", version |-> tx.read_versions[k]]

CreatePrecondition(k) == IF IsFirstWriteOfRead(k) THEN UpdateTime(k) ELSE [type |-> "None"]

Write(k, mutations, error) ==
    /\ InBlock /\ ops < MaxOps /\ ops' = ops + 1
    /\ tx' = [tx EXCEPT !.mutations = @ \o mutations,
                        !.written_docs = @ \union {k},
                        !.last_write_error = IF error = "ok" THEN @ ELSE error]
    /\ UNCHANGED <<phase, retries, arg, shown>>

Set(k) == Write(k, <<[key |-> k, op |-> "set", pre |-> CreatePrecondition(k)]>>, "ok")

\* CreateUpdatePrecondition: a document that was read as missing cannot be updated.
Update(k) ==
    IF IsFirstWriteOfRead(k) /\ tx.read_versions[k] = 0
    THEN Write(k, <<>>, "InvalidArgument")
    ELSE Write(k, <<[key |-> k, op |-> "set",
                     pre |-> IF IsFirstWriteOfRead(k) THEN UpdateTime(k)
                             ELSE [type |-> "Exists"]]>>, "ok")

Delete(k) == Write(k, <<[key |-> k, op |-> "delete", pre |-> CreatePrecondition(k)]>>, "ok")

\* The block returns: a result; an error of its own, which is never retried and whose
\* status is Unknown; or an error of Firestore, given to it by getDocument or made up
\* (Aborted stands for all of them: the others end the transaction or are retried like it).
ReturnFromBlock ==
    /\ InBlock
    /\ phase' = "returned"
    /\ \E res \in {"ok", "Unknown", "Aborted"} :
        /\ arg' = res
        /\ tx' = [tx EXCEPT !.permanentError = res = "Unknown"]
    /\ UNCHANGED <<retries, shown, ops>>

-----------------------------------------------------------------------------
(* Datastore's calls, and their callbacks on the worker queue.             *)

\* (mutant) The second read of a document replaces the version of the first.
KeepsLastVersion(k, v) ==
    [status |-> "ok",
     reads |-> [d \in DOMAIN tx.read_versions \union {k} |-> IF d = k THEN v ELSE tx.read_versions[d]]]

\* Transaction::RecordVersion.
RecordVersion(k, v) ==
    IF k \in DOMAIN tx.read_versions
    THEN [status |-> IF tx.read_versions[k] = v THEN "ok" ELSE "Aborted", reads |-> tx.read_versions]
    ELSE [status |-> "ok",
          reads |-> [d \in DOMAIN tx.read_versions \union {k} |->
                        IF d = k THEN v ELSE tx.read_versions[d]]]

\* The token has arrived: ResumeRpcWithCredentials drops the call after a shutdown, the
\* callback gets the error of GetToken, or the call starts.
LookupDocuments ==
    /\ phase = "lookupToken"
    /\ \/ isShutdown /\ Abandon /\ UNCHANGED faults
       \/ /\ ~isShutdown /\ phase' = "lookupCall"
          /\ UNCHANGED <<tx, arg, shown, faults>>
       \/ /\ ~isShutdown /\ faults < MaxFaults /\ faults' = faults + 1
          /\ LookupFailed
    /\ UNCHANGED <<backend, retries, result, isShutdown, lost, ops, others>>

\* The backend reads the document; the answer is on its way.
BackendLookup ==
    /\ phase = "lookupCall"
    /\ phase' = "lookupAnswered" /\ arg' = [key |-> arg, version |-> version[arg]]
    /\ UNCHANGED <<backend, retries, tx, result, isShutdown, shown, lost, ops, others,
                   faults>>

\* OnLookupDocumentsResponse, and the callback of Lookup.
OnLookupResponse ==
    /\ phase = "lookupAnswered"
    /\ \E r \in {RecordVersion(arg.key, arg.version)} :
        \/ r.status # "ok" /\ LookupFailed
        \/ /\ r.status = "ok"
           /\ tx' = [tx EXCEPT !.read_versions = r.reads]
           /\ shown' = [shown EXCEPT ![arg.key] = @ \union {arg.version}]
           /\ phase' = "block" /\ arg' = "none"
    /\ UNCHANGED <<backend, retries, result, isShutdown, lost, ops, others, faults>>

\* CommitMutations, when the token has arrived.
CommitMutations ==
    /\ phase = "commitToken"
    /\ \/ isShutdown /\ Abandon /\ UNCHANGED <<requests, retries, result, lost, ops, faults>>
       \/ /\ ~isShutdown /\ phase' = "commitCall" /\ arg' = "none"
          /\ requests' = requests \union
                {[attempt |-> retries, mutations |-> tx.mutations, shown |-> shown]}
          /\ UNCHANGED <<retries, tx, result, shown, lost, ops, faults>>
       \/ /\ ~isShutdown /\ faults < MaxFaults /\ faults' = faults + 1
          /\ RetryOrFail("Unavailable")
          /\ UNCHANGED <<requests, lost>>
    /\ UNCHANGED <<version, clock, applied, isShutdown, others>>

\* What the backend makes of the mutations of a commit, one after the other: the versions,
\* and the first precondition that failed.
IsValidFor(pre, v) ==
    CASE pre.type = "None" -> TRUE
      [] pre.type = "Exists" -> v # 0
      [] pre.type = "UpdateTime" -> v = pre.version

CarryOut(o, mu) ==
    IF o.status # "ok" THEN o
    ELSE IF ~IsValidFor(mu.pre, o.version[mu.key])
    THEN [o EXCEPT !.status = IF mu.pre.type = "Exists" THEN "NotFound" ELSE "FailedPrecondition"]
    ELSE [o EXCEPT !.version[mu.key] = IF mu.op = "delete" THEN 0 ELSE clock + 1]

Outcome(mutations) ==
    LET upTo[n \in 0 .. Len(mutations)] ==
            IF n = 0 THEN [version |-> version, status |-> "ok"]
            ELSE CarryOut(upTo[n - 1], mutations[n])
    IN  upTo[Len(mutations)]

\* The backend carries out a commit, or refuses it (for a precondition, or for contention
\* with other transactions), all at once; also one that the client has given up.  The
\* client is told when it still waits for this call.
BackendCommit(r) ==
    /\ requests' = requests \ {r}
    /\ \E o \in {Outcome(r.mutations), [version |-> version, status |-> "Aborted"]} :
        /\ faults' = IF o.status = "Aborted" THEN faults + 1 ELSE faults
        /\ faults' <= MaxFaults
        /\ clock' = IF o.status = "ok" THEN clock + 1 ELSE clock
        /\ version' = IF o.status = "ok" THEN o.version ELSE version
        /\ applied' = IF o.status = "ok" THEN applied \union {r.attempt} ELSE applied
        /\ IF phase = "commitCall" /\ r.attempt = retries
           THEN phase' = "commitAnswered" /\ arg' = o.status
           ELSE UNCHANGED <<phase, arg>>
    /\ UNCHANGED <<retries, tx, result, isShutdown, shown, lost, ops, others>>

\* (mutant) The status of the commit is not looked at.
IgnoresStatus ==
    /\ phase = "commitAnswered"
    /\ ResultCallback("ok")
    /\ UNCHANGED <<backend, isShutdown, lost, others, faults>>

\* The callback that transactionWithRetries gives to Commit.
OnCommitResponse ==
    /\ phase = "commitAnswered"
    /\ IF arg = "ok" THEN ResultCallback("ok") ELSE RetryOrFail(arg)
    /\ UNCHANGED <<backend, isShutdown, lost, others, faults>>

\* The call fails, or the connectivity changes and GrpcConnection finishes it: the
\* callback gets Unavailable, whatever the backend has done or will do.
FailCall ==
    /\ faults < MaxFaults /\ faults' = faults + 1
    /\ \/ /\ phase \in {"lookupCall", "lookupAnswered"} /\ LookupFailed
          /\ UNCHANGED <<retries, result, lost, ops>>
       \/ /\ phase \in {"commitCall", "commitAnswered"} /\ RetryOrFail("Unavailable")
          /\ lost' = lost \union {retries}
    /\ UNCHANGED <<backend, isShutdown, others>>

\* Another client, or another transaction of this one, creates, changes or deletes a
\* document.
OtherWrite(k) ==
    /\ IsOpen \/ requests # {}
    /\ others < MaxOthers /\ others' = others + 1
    /\ \/ version' = [version EXCEPT ![k] = clock + 1] /\ clock' = clock + 1
       \/ version[k] # 0 /\ version' = [version EXCEPT ![k] = 0] /\ UNCHANGED clock
    /\ UNCHANGED <<requests, applied, phase, retries, tx, arg, result, isShutdown, shown,
                   lost, ops, faults>>

BlockStep == (\E k \in Docs : Lookup(k) \/ Set(k) \/ Update(k) \/ Delete(k)) \/ ReturnFromBlock

WorkerStep ==
    StartTransaction \/ BlockReturned \/ LookupDocuments \/ OnLookupResponse
    \/ CommitMutations \/ OnCommitResponse

BackendStep == BackendLookup \/ \E r \in requests : BackendCommit(r)

Next ==
    \/ RunTransaction \/ BlockStep \/ WorkerStep \/ BackendStep
    \/ FailCall \/ Shutdown
    \/ \E k \in Docs : OtherWrite(k)

Spec == Init /\ [][Next]_vars

\* The worker queue runs its tasks, GetToken calls back, the block returns (its operations
\* are bounded by MaxOps), and the backend answers.
FairSpec == Spec /\ WF_vars(WorkerStep) /\ WF_vars(BlockStep) /\ WF_vars(BackendStep)

-----------------------------------------------------------------------------
(* Properties.                                                             *)

\* A commit is carried out only while every document the block was shown in that attempt
\* is as it was shown, in every read: no update of others is lost between a read and the
\* write that depends on it, although a document may be read twice, written several
\* times, or the request may reach the backend after the client has given up the attempt.
CommitsSeeTheirReads ==
    [][\A r \in requests :
        r.attempt \in applied' \ applied => \A k \in Docs : r.shown[k] \subseteq {version[k]}]_vars

\* A commit that was carried out, and whose answer was not lost, is that of the last
\* attempt, and its result is the one the completion gets: a success is never run again
\* or reported as an error, and no success is reported for what was not committed.
ResultIsThatOfTheCommit ==
    /\ \A a \in applied \ lost : a = retries /\ result \in {"none", "ok"}
    /\ result = "ok" => retries \in applied \ lost

\* The completion of a transaction is called, or the client is shut down: the retries
\* end, and no call is dropped.
TransactionEnds == phase = "queued" ~> phase = "reported" \/ isShutdown
===============================================================================
