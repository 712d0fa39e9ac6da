------------------------- MODULE WatchChangeAggregator -------------------------
(***************************************************************************)
(* What the client has heard about one watch target since the last global  *)
(* snapshot (TargetState and WatchChangeAggregator, remote/remote_event.mm).*)
(* A method is a function from the fields of a target state to its new     *)
(* fields.  The fields:                                                    *)
(*   known        target_states_ has an entry for the target               *)
(*   outstanding  outstanding_responses_                                   *)
(*   current      current_                                                 *)
(*   dirty        has_pending_changes_                                     *)
(*   changes      document_changes_, as [Docs -> type of change]           *)
(*   token        resume_token_; tokens are snapshot versions, 0 is none   *)
(* Of a document only its membership in the target is kept: the documents  *)
(* themselves go to the remote document cache unchanged.                   *)
(***************************************************************************)
EXTENDS Integers, FiniteSets

CONSTANT Docs

ChangeTypes == {"none", "added", "modified", "removed"}

NoChanges == [d \in Docs |-> "none"]

NewTarget == [known       |-> TRUE,
              outstanding |-> 0,
              current     |-> FALSE,
              dirty       |-> TRUE,
              changes     |-> NoChanges,
              token       |-> 0]

\* RemoveTarget: no entry in target_states_.
NoTarget == [NewTarget EXCEPT !.known = FALSE, !.dirty = FALSE]

EnsureTargetState(s) == IF s.known THEN s ELSE NewTarget

IsPending(s) == s.outstanding # 0

RecordPendingTargetRequest(s) == [EnsureTargetState(s) EXCEPT !.outstanding = @ + 1]

UpdateResumeToken(s, token) ==
    IF token = 0 THEN s ELSE [s EXCEPT !.token = token, !.dirty = TRUE]

ClearPendingChanges(s) == [s EXCEPT !.dirty = FALSE, !.changes = NoChanges]

\* Mutant: changes of an earlier listen survive the answer to a new one.
AddedKeepsChanges(s) == [s EXCEPT !.outstanding = @ - 1]

\* HandleTargetChange, Added: the answer to a watch request.
TargetAdded(s) ==
    LET answered == [s EXCEPT !.outstanding = @ - 1]
    IN  IF IsPending(answered) THEN answered ELSE ClearPendingChanges(answered)

\* Mutant: the target is forgotten although more answers are due.
RemovedForgets(s) == NoTarget

\* HandleTargetChange, Removed: the answer to an unwatch request.
TargetRemoved(s) ==
    LET answered == [s EXCEPT !.outstanding = @ - 1]
    IN  IF IsPending(answered) THEN answered ELSE NoTarget

MarkCurrent(s) == [s EXCEPT !.current = TRUE, !.dirty = TRUE]

\* AddDocumentChange; "none" is RemoveDocumentChange.
AddDocumentChange(s, d, type) ==
    [s EXCEPT !.changes = [@ EXCEPT ![d] = type], !.dirty = TRUE]

\* keys: GetRemoteKeysForTarget, the documents of the target at the last snapshot.
AddDocumentToTarget(s, d, keys) ==
    AddDocumentChange(s, d, IF d \in keys THEN "modified" ELSE "added")

RemoveDocumentFromTarget(s, d, keys) ==
    AddDocumentChange(s, d, IF d \in keys THEN "removed" ELSE "none")

\* ResetTarget: forgets the target and removes the documents it had.
ResetTarget(keys) ==
    [NewTarget EXCEPT !.changes = [d \in Docs |-> IF d \in keys THEN "removed" ELSE "none"]]

Having(s, type) == {d \in Docs : s.changes[d] = type}

\* Mutant: the filter is held against the last snapshot.
CountsLastSnapshot(s, keys) == Cardinality(keys)

GetCurrentDocumentCountForTarget(s, keys) ==
    Cardinality(keys) + Cardinality(Having(s, "added")) - Cardinality(Having(s, "removed"))

\* The documents of the target once the change is applied (FSTView
\* applyTargetChange, QueryCache Remove- and AddMatchingKeys).
KeysAfter(s, keys) == (keys \ Having(s, "removed")) \cup Having(s, "added")
=============================================================================
