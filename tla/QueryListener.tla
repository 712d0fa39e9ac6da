----------------------------- MODULE QueryListener -----------------------------
(***************************************************************************)
(* core/query_listener.mm: which of the snapshots of a view a listener     *)
(* hears of.  A listener is a record; heard is what the application knows  *)
(* by adding up the changes of the events it was given.                    *)
(***************************************************************************)
EXTENDS View

\* A listener for a query, with the options
\* [documentMetadata, queryMetadata, waitForSync].
NewListener(query, options) ==
    [query |-> query, options |-> options, raised |-> FALSE, online |-> "Unknown",
     snapshot |-> None, heard |-> NoDocs, fromCache |-> None]

HasPendingWrites(snapshot) == snapshot.mutated # {}

ShouldRaiseInitialEvent(listener, snapshot, online) ==
    \/ ~snapshot.fromCache
    \/ /\ ~(listener.options.waitForSync /\ online # "Offline")
       /\ KeysOf(snapshot.docs) # {} \/ online = "Offline"

\* Without the option, changes of metadata only are taken out of a snapshot.
WithoutMetadata(listener, snapshot) ==
    IF listener.options.documentMetadata THEN snapshot
    ELSE [snapshot EXCEPT !.changes =
            [k \in Keys |-> IF @[k] # None /\ @[k].type = "metadata" THEN None ELSE @[k]]]

ShouldRaiseEvent(listener, snapshot) ==
    \/ \E k \in Keys : snapshot.changes[k] # None
    \/ /\ \/ snapshot.syncStateChanged
          \/ /\ listener.snapshot # None
             /\ HasPendingWrites(listener.snapshot) # HasPendingWrites(snapshot)
       /\ listener.options.queryMetadata

\* listener_->OnEvent: the changes are added up.
OnEvent(listener, snapshot) ==
    [listener EXCEPT
        !.heard = [k \in Keys |->
            LET c == snapshot.changes[k]
            IN  IF c = None THEN @[k] ELSE IF c.type = "removed" THEN NoDoc ELSE c.doc],
        !.fromCache = snapshot.fromCache]

\* RaiseInitialEvent: everything is added.
RaiseInitialEvent(listener, snapshot) ==
    [listener EXCEPT !.raised = TRUE, !.heard = snapshot.docs, !.fromCache = snapshot.fromCache]

\* What OnViewSnapshot asserts never to be given.
IsEmptySnapshot(snapshot) ==
    ~snapshot.syncStateChanged /\ \A k \in Keys : snapshot.changes[k] = None

OnViewSnapshot(listener, given) ==
    LET snapshot == WithoutMetadata(listener, given)
        told == CASE ~listener.raised /\ ShouldRaiseInitialEvent(listener, snapshot, listener.online) ->
                        RaiseInitialEvent(listener, snapshot)
                  [] listener.raised /\ ShouldRaiseEvent(listener, snapshot) ->
                        OnEvent(listener, snapshot)
                  [] OTHER -> listener
    IN  [told EXCEPT !.snapshot = snapshot]

\* Mutant: the snapshot that is held back is not looked at again.
ForgetHeldSnapshot(listener, online) == [listener EXCEPT !.online = online]
OnOnlineStateChanged(listener, online) ==
    LET changed == [listener EXCEPT !.online = online] IN
    IF changed.snapshot # None /\ ~changed.raised
       /\ ShouldRaiseInitialEvent(changed, changed.snapshot, online)
    THEN RaiseInitialEvent(changed, changed.snapshot)
    ELSE changed
===============================================================================
