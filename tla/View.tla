--------------------------------- MODULE View ---------------------------------
(***************************************************************************)
(* FSTView with the DocumentViewChangeSet of core/view_snapshot.mm: the    *)
(* documents a query shows, computed change by change from what the local  *)
(* store reports.  A document set is a function from keys to documents.    *)
(***************************************************************************)
EXTENDS Assertions, Naturals, FiniteSets

CONSTANTS
    Keys,           \* document keys, ordered as numbers
    Values,         \* document contents, ordered as numbers
    NoDoc,          \* no document
    None,           \* nothing
    NoLimit,        \* Query::kNoLimit
    Matches(_, _)   \* Matches(query, value): matchesDocument

\* FSTDocument: its content, hasLocalMutations and hasCommittedMutations.
Document == [val : Values, local : BOOLEAN, committed : BOOLEAN]

\* DocumentSet, as a function of the keys.
Documents == [Keys -> Document \cup {NoDoc}]

\* DocumentViewChange; "bad" is none of the code's.
ChangeTypes == {"added", "modified", "removed", "metadata", "bad"}
Changes == [type : ChangeTypes, doc : Document]

\* FSTView.
ViewState == [docs : Documents, synced : SUBSET Keys, limbo : SUBSET Keys, mutated : SUBSET Keys,
              current : BOOLEAN, syncState : {"None", "Local", "Synced"}]

\* ViewSnapshot.
Snapshot == [docs : Documents, mutated : SUBSET Keys, changes : [Keys -> Changes \cup {None}],
             fromCache : BOOLEAN, syncStateChanged : BOOLEAN]

ASSUME ViewAssumption ==
    /\ Keys \subseteq Nat /\ IsFiniteSet(Keys)
    /\ Values \subseteq Nat
    /\ NoDoc \notin Document
    /\ None \notin ChangeTypes /\ None \notin Changes
    /\ None \notin ViewState /\ None \notin Snapshot

NoDocs == [k \in Keys |-> NoDoc]

KeysOf(docs) == {k \in Keys : docs[k] # NoDoc}

\* The comparator of the query: by content, then by key.
ComesAfter(k1, d1, k2, d2) == d1.val > d2.val \/ (d1.val = d2.val /\ k1 > k2)

\* GetLastDocument.
LastKey(docs) == CHOOSE k \in KeysOf(docs) :
    \A j \in KeysOf(docs) \ {k} : ComesAfter(k, docs[k], j, docs[j])

\* The keys whose documents come before that of k.
Before(docs, k) == {j \in KeysOf(docs) \ {k} : ComesAfter(k, docs[k], j, docs[j])}

\* The keys that are popped off the end of a set that is larger than the limit.
PastLimit(docs, limit) ==
    {k \in KeysOf(docs) : limit # NoLimit /\ Cardinality(Before(docs, k)) >= limit}

-----------------------------------------------------------------------------
(* DocumentViewChangeSet: at most one change for a key, None or            *)
(* [type, doc].                                                            *)

NoChanges == [k \in Keys |-> None]

Change(type, doc) == [type |-> type, doc |-> doc]

\* The change that stands for one change after another, or "bad" for a
\* combination that HARD_FAILs.
\* Mutant: an addition after a removal is an addition.
MergeReAdded(old, new) ==
    CASE old = None -> new
      [] old # None /\ new.type = "removed" /\ old.type = "added" -> None
      [] OTHER -> new
Merge(old, new) ==
    CASE old = None -> new
      [] old # None /\ new.type # "added" /\ old.type = "metadata" -> new
      [] old # None /\ new.type = "metadata" /\ old.type \notin {"removed", "metadata"} ->
            Change(old.type, new.doc)
      [] old # None /\ new.type = "modified" /\ old.type \in {"modified", "added"} ->
            Change(old.type, new.doc)
      [] old # None /\ new.type = "removed" /\ old.type = "added" -> None
      [] old # None /\ new.type = "removed" /\ old.type = "modified" ->
            Change("removed", old.doc)
      [] old # None /\ new.type = "added" /\ old.type = "removed" ->
            Change("modified", new.doc)
      [] OTHER -> Change("bad", new.doc)

-----------------------------------------------------------------------------
(* FSTView.                                                                *)

\* A view of a query whose target has the given remote keys.
NewView(remoteKeys) ==
    [docs |-> NoDocs, synced |-> remoteKeys, limbo |-> {}, mutated |-> {},
     current |-> FALSE, syncState |-> "None"]

\* The suppressed change of a write that was acknowledged and not yet watched.
ShouldWaitForSyncedDocument(new, old) == old.local /\ new.committed /\ ~new.local

\* FSTViewDocumentChanges of a view that is as it was.
Unchanged(view) ==
    [docs |-> view.docs, changes |-> NoChanges, refill |-> FALSE, mutated |-> view.mutated]

\* The document of an update if the query shows it.
Selected(query, doc) == IF doc # NoDoc /\ Matches(query, doc.val) THEN doc ELSE NoDoc

\* The type of the change from one document to another, or None for one that is not
\* applied; mutated tells whether the view has the key in its mutated keys.
ChangeType(old, new, mutated) ==
    LET newPending == new.local \/ (mutated /\ new.committed) IN
    CASE old # NoDoc /\ new # NoDoc /\ old.val # new.val ->
            IF ShouldWaitForSyncedDocument(new, old) THEN None ELSE "modified"
      [] old # NoDoc /\ new # NoDoc /\ old.val = new.val ->
            IF mutated # newPending THEN "metadata" ELSE None
      [] old = NoDoc /\ new # NoDoc -> "added"
      [] old # NoDoc /\ new = NoDoc -> "removed"
      [] old = NoDoc /\ new = NoDoc -> None

\* computeChangesWithDocuments; updates is a function from the changed keys to the
\* document, or NoDoc; before is what the call starts from: the view as it is, or,
\* for a refill, the changes that need it.
ComputeChanges(view, query, limit, updates, before) ==
    LET Old(k) == before.docs[k]
        New(k) == Selected(query, updates[k])
        Type(k) == ChangeType(Old(k), New(k), k \in view.mutated)
        applied == {k \in DOMAIN updates : Type(k) # None}
        isFull == limit # NoLimit /\ Cardinality(KeysOf(before.docs)) = limit
        MovedPastLimit(k) ==
            LET last == LastKey(before.docs)
            IN  Type(k) = "modified" /\ ComesAfter(k, New(k), last, before.docs[last])
        docs == [k \in Keys |-> IF k \in applied THEN New(k) ELSE Old(k)]
        popped == PastLimit(docs, limit)
        mutated == (before.mutated \ applied)
                    \cup {k \in applied : New(k) # NoDoc /\ New(k).local}
        Applied(k) == IF k \notin applied THEN before.changes[k]
                      ELSE Merge(before.changes[k],
                                 Change(Type(k), IF Type(k) = "removed" THEN Old(k) ELSE New(k)))
    IN  [docs    |-> [k \in Keys |-> IF k \in popped THEN NoDoc ELSE docs[k]],
         mutated |-> mutated \ popped,
         changes |-> [k \in Keys |-> IF k \in popped
                                     THEN Merge(Applied(k), Change("removed", docs[k]))
                                     ELSE Applied(k)],
         refill  |-> isFull /\ \E k \in applied : Type(k) = "removed" \/ MovedPastLimit(k)]

\* applyTargetChange: None, or [added, modified, removed, current].
ApplyTargetChange(view, change) ==
    IF change = None THEN view
    ELSE [view EXCEPT !.synced = (@ \cup change.added) \ change.removed,
                      !.current = change.current]

\* shouldBeLimboDocumentKey.
ShouldBeLimbo(view, k) ==
    k \notin view.synced /\ view.docs[k] # NoDoc /\ ~view.docs[k].local

\* updateLimboDocuments: the limbo documents can only be told when the view is current.
UpdateLimbo(view) ==
    IF view.current THEN [view EXCEPT !.limbo = {k \in Keys : ShouldBeLimbo(view, k)}]
    ELSE view

\* applyChangesToDocuments: [view, snapshot, fails], where a view that does not
\* change has no snapshot.
ApplyChanges(view, docChanges, targetChange) ==
    LET changed == [view EXCEPT !.docs = docChanges.docs, !.mutated = docChanges.mutated]
        limboed == UpdateLimbo(ApplyTargetChange(changed, targetChange))
        state == IF limboed.limbo = {} /\ limboed.current THEN "Synced" ELSE "Local"
        hasChanges == \E k \in Keys : docChanges.changes[k] # None
    IN  [view |-> [limboed EXCEPT !.syncState = state],
         snapshot |->
            IF ~hasChanges /\ state = view.syncState THEN None
            ELSE [docs |-> docChanges.docs, mutated |-> docChanges.mutated,
                  changes |-> docChanges.changes, fromCache |-> state = "Local",
                  syncStateChanged |-> state # view.syncState],
         fails |->
            HardAssert(~docChanges.refill, "needs a refill")
            \cup HardAssert(\A k \in Keys : docChanges.changes[k] = None
                                            \/ docChanges.changes[k].type # "bad",
                            "unsupported combination of changes")
            \cup HardAssert(targetChange # None => targetChange.modified
                                \subseteq view.synced \cup targetChange.added,
                            "modified document not found in view")]

\* applyChangedOnlineState.
ApplyOnlineState(view, state) ==
    IF view.current /\ state = "Offline"
    THEN ApplyChanges([view EXCEPT !.current = FALSE], Unchanged(view), None)
    ELSE [view |-> view, snapshot |-> None, fails |-> {}]
===============================================================================
