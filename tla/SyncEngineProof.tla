---------------------------- MODULE SyncEngineProof ----------------------------
(***************************************************************************)
(* Theorems about the sync engine: its views, its listeners and its limbo  *)
(* resolutions, for any documents, queries, limits, listeners and bounds.  *)
(***************************************************************************)
EXTENDS SyncEngine, FiniteSetTheorems, WellFoundedInduction, TLAPS

-----------------------------------------------------------------------------
(* The inductive invariant.                                                *)

\* The types of the variables.
TypeOK ==
    /\ watch \in [Keys -> Contents]
    /\ owed \in [Keys -> Committed \cup {None}]
    /\ cache \in [Keys -> [val : Contents, committed : BOOLEAN]]
    /\ pending \in [Keys -> Batch \cup {None}]
    /\ remoteKeys \in [Queries -> SUBSET Keys]
    /\ views \in [Queries -> ViewState \cup {None}]
    /\ online \in OnlineStates
    /\ snapshots \in [Queries -> Snapshot \cup {None}]
    /\ listeners \in [Listeners -> Listener \cup {None}]

\* A batch that was committed has its result.
BatchesOK ==
    \A k \in Keys : pending[k] # None /\ pending[k].stage # "queued" => pending[k].result # None

\* Two documents that the application cannot tell apart, and two sets of them.
Same(doc1, doc2) == (doc1 = NoDoc <=> doc2 = NoDoc) /\ (doc1 # NoDoc => doc1.val = doc2.val)
Agree(docs1, docs2) == \A k \in Keys : Same(docs1[k], docs2[k])

\* A snapshot of a view: as of now but for metadata.
IsSnapshotOf(snapshot, view) ==
    /\ snapshot \in Snapshot
    /\ Agree(snapshot.docs, view.docs)
    /\ snapshot.fromCache <=> view.syncState = "Local"

\* A query is active as long as it is tracked, and its last snapshot is kept.
QueryOK(q) ==
    /\ views[q] # None <=> IsTracked(listeners, q)
    /\ views[q] = None => snapshots[q] = None
    /\ views[q] # None => /\ views[q].syncState # "None"
                          /\ IsSnapshotOf(snapshots[q], views[q])
                          /\ ~IsEmptySnapshot(snapshots[q])

\* What a listener holds and its application has heard is the view; what it has not
\* told must not be told yet.
ListenerOK(listener, view, state) ==
    /\ listener.online = state
    /\ IsSnapshotOf(listener.snapshot, view)
    /\ listener.raised => Agree(listener.heard, view.docs)
    /\ ~listener.raised => ~ShouldRaiseInitialEvent(listener, listener.snapshot, state)

EventsInv ==
    /\ \A q \in Queries : QueryOK(q)
    /\ \A l \in Listeners : listeners[l] # None =>
            ListenerOK(listeners[l], views[listeners[l].query], online)

\* The document of a key as the query selects it.
LocalResult(c, p, q, k) == Selected(q, LocalDoc(c[k], p[k]))

\* A document of a view is up to date, or waits for the watch service.
IsFresh(doc, result) ==
    result # NoDoc /\ (doc.val = result.val \/ ShouldWaitForSyncedDocument(result, doc))

\* The documents the limit of a view chooses from.  A result of a commit that the
\* watch service has not sent yet need not be one.
Candidates(docs, c, p, q) ==
    [k \in Keys |-> IF docs[k] # NoDoc THEN docs[k]
                    ELSE LET result == LocalResult(c, p, q, k)
                         IN  IF result # NoDoc /\ ~result.committed THEN result ELSE NoDoc]

\* A view shows up-to-date documents, the first candidates up to its limit.
ShowsResult(docs, c, p, q) ==
    /\ \A k \in KeysOf(docs) : IsFresh(docs[k], LocalResult(c, p, q, k))
    /\ KeysOf(docs) = KeysOf(Candidates(docs, c, p, q))
                        \ PastLimit(Candidates(docs, c, p, q), LimitOf[q])

ResultInv == \A q \in Queries : views[q] # None => ShowsResult(views[q].docs, cache, pending, q)

\* The books agree, and a target that is current is watched.
BooksInv ==
    /\ limboTargets \in SUBSET Keys
    /\ caughtUp \subseteq watched
    /\ resolutions \in [limboTargets -> BOOLEAN]
    /\ LimboBooksAgree

SyncInv == TypeOK /\ BatchesOK /\ EventsInv /\ ResultInv /\ BooksInv /\ NoHardAssertFails

-----------------------------------------------------------------------------
(* The order of the documents, and limits.                                 *)

\* A set of natural numbers that is not empty has a least element.
LEMMA LeastNumber ==
    ASSUME NEW T, T \subseteq Nat, T # {}
    PROVE  \E n \in T : \A m \in T : n <= m
<1>1. PICK R : R = OpToRel(<, Nat)
  OBVIOUS
<1>2. \A x, y \in Nat : <<x, y>> \in R <=> x < y
  BY <1>1 DEF OpToRel
<1>3. PICK x \in T : \A y \in T : ~ (<<y, x>> \in R)
  BY <1>1, NatLessThanWellFounded, WFMin
<1>4. ASSUME NEW y \in T PROVE x <= y
  <2>1. x \in Nat /\ y \in Nat /\ ~ (<<y, x>> \in R)
    BY <1>3
  <2>2. ~ (y < x)
    BY <1>2, <2>1
  <2> QED
    BY <2>1, <2>2
<1> QED
  BY <1>4

\* A document of a document set has a number for its content.
LEMMA DocumentTypes ==
    ASSUME NEW docs \in Documents, NEW k \in KeysOf(docs)
    PROVE  /\ k \in Keys /\ k \in Nat
           /\ docs[k] \in Document /\ docs[k] # NoDoc /\ docs[k].val \in Nat
<1>1. k \in Keys /\ docs[k] # NoDoc
  BY DEF KeysOf
<1>2. docs[k] \in Document
  BY <1>1 DEF Documents
<1>3. docs[k].val \in Values
  BY <1>2 DEF Document
<1> QED
  BY <1>1, <1>2, <1>3, ViewAssumption

\* The comparator of a query is a strict total order on documents of different keys.
LEMMA ComesAfterIsTotal ==
    ASSUME NEW docs \in Documents, NEW a \in KeysOf(docs), NEW b \in KeysOf(docs), a # b
    PROVE  /\ a \in Before(docs, b) \/ b \in Before(docs, a)
           /\ ~ (a \in Before(docs, b) /\ b \in Before(docs, a))
<1>1. /\ a \in Nat /\ docs[a].val \in Nat
      /\ b \in Nat /\ docs[b].val \in Nat
  BY DocumentTypes
<1> QED
  BY <1>1 DEF Before, ComesAfter

LEMMA BeforeIsTransitive ==
    ASSUME NEW docs \in Documents, NEW c \in KeysOf(docs), NEW b \in Before(docs, c),
           NEW a \in Before(docs, b)
    PROVE  a \in Before(docs, c)
<1>1. a \in KeysOf(docs) /\ b \in KeysOf(docs)
  BY DEF Before
<1>2. /\ a \in Nat /\ docs[a].val \in Nat
      /\ b \in Nat /\ docs[b].val \in Nat
      /\ c \in Nat /\ docs[c].val \in Nat
  BY <1>1, DocumentTypes
<1> QED
  BY <1>1, <1>2 DEF Before, ComesAfter

\* Sets of keys are finite.
LEMMA KeySetsAreFinite ==
    ASSUME NEW S, S \subseteq Keys
    PROVE  IsFiniteSet(S) /\ Cardinality(S) \in Nat
BY ViewAssumption, FS_Subset, FS_CardinalityType

LEMMA CountsAreMonotone ==
    ASSUME NEW S, NEW T, S \subseteq T, T \subseteq Keys
    PROVE  Cardinality(S) <= Cardinality(T) /\ (Cardinality(S) = Cardinality(T) => S = T)
BY KeySetsAreFinite, FS_Subset

LEMMA BeforeIsFinite ==
    ASSUME NEW docs, NEW k
    PROVE  /\ Before(docs, k) \subseteq KeysOf(docs) /\ Before(docs, k) \subseteq Keys
           /\ Cardinality(Before(docs, k)) \in Nat
<1>1. Before(docs, k) \subseteq KeysOf(docs) /\ KeysOf(docs) \subseteq Keys
  BY DEF Before, KeysOf
<1> QED
  BY <1>1, KeySetsAreFinite

\* A document that comes earlier has fewer before it.
LEMMA EarlierHasFewer ==
    ASSUME NEW docs \in Documents, NEW b \in KeysOf(docs), NEW a \in Before(docs, b)
    PROVE  Cardinality(Before(docs, a)) < Cardinality(Before(docs, b))
<1>1. a \in KeysOf(docs) /\ a \notin Before(docs, a)
  BY DEF Before
<1>2. Before(docs, a) \subseteq Before(docs, b)
  BY BeforeIsTransitive
<1>3. Before(docs, a) # Before(docs, b)
  BY <1>1
<1>4. /\ Cardinality(Before(docs, a)) <= Cardinality(Before(docs, b))
      /\ Cardinality(Before(docs, a)) # Cardinality(Before(docs, b))
  BY <1>2, <1>3, BeforeIsFinite, CountsAreMonotone
<1> QED
  BY <1>4, BeforeIsFinite

\* ... and the converse.
LEMMA FewerIsEarlier ==
    ASSUME NEW docs \in Documents, NEW a \in KeysOf(docs), NEW b \in KeysOf(docs),
           Cardinality(Before(docs, a)) < Cardinality(Before(docs, b))
    PROVE  a \in Before(docs, b)
<1>1. Cardinality(Before(docs, a)) \in Nat /\ Cardinality(Before(docs, b)) \in Nat
  BY BeforeIsFinite
<1>2. a # b
  BY <1>1
<1>3. b \notin Before(docs, a)
  BY <1>1, EarlierHasFewer
<1> QED
  BY <1>2, <1>3, ComesAfterIsTotal

\* The first n documents.
FirstKeys(docs, n) == {k \in KeysOf(docs) : Cardinality(Before(docs, k)) < n}

\* One more document than the first m is the first of the others.
LEMMA NextDocument ==
    ASSUME NEW docs \in Documents, NEW m \in Nat, Cardinality(FirstKeys(docs, m)) = m,
           m < Cardinality(KeysOf(docs))
    PROVE  Cardinality(FirstKeys(docs, m + 1)) = m + 1
<1> DEFINE rest == KeysOf(docs) \ FirstKeys(docs, m)
           Rank(k) == Cardinality(Before(docs, k))
           ranks == {Rank(k) : k \in rest}
<1>1. \A k : Rank(k) \in Nat
  BY BeforeIsFinite
<1>2. FirstKeys(docs, m) \subseteq KeysOf(docs) /\ KeysOf(docs) \subseteq Keys
  BY DEF FirstKeys, KeysOf
<1>3. rest # {}
  <2>1. FirstKeys(docs, m) # KeysOf(docs)
    BY <1>2, KeySetsAreFinite
  <2> QED
    BY <1>2, <2>1
<1>4. ranks \subseteq Nat /\ ranks # {}
  BY <1>1, <1>3
<1> HIDE DEF ranks
<1>5. PICK r \in ranks : \A s \in ranks : r <= s
  BY <1>4, LeastNumber
<1>6. PICK e \in rest : r = Rank(e)
  BY <1>5 DEF ranks
<1>7. \A k \in rest : Rank(e) <= Rank(k)
  BY <1>5, <1>6 DEF ranks
<1>8. e \in KeysOf(docs) /\ e \notin FirstKeys(docs, m) /\ m <= Rank(e)
  BY <1>1, <1>6 DEF FirstKeys
<1>9. Before(docs, e) \subseteq FirstKeys(docs, m)
  <2> SUFFICES ASSUME NEW k \in Before(docs, e) PROVE k \in FirstKeys(docs, m)
    OBVIOUS
  <2>1. k \in KeysOf(docs) /\ Rank(k) < Rank(e)
    BY <1>8, BeforeIsFinite, EarlierHasFewer
  <2>2. ~ (Rank(e) <= Rank(k))
    BY <1>1, <2>1
  <2> QED
    BY <1>7, <2>1, <2>2
<1>10. Rank(e) = m
  <2>1. Rank(e) <= m
    BY <1>2, <1>9, CountsAreMonotone
  <2> QED
    BY <1>1, <1>8, <2>1
<1>11. FirstKeys(docs, m + 1) = FirstKeys(docs, m) \cup {e}
  <2>1. ASSUME NEW k \in KeysOf(docs), Rank(k) = m PROVE k = e
    <3>1. ASSUME k # e PROVE FALSE
      <4>1. k \in Before(docs, e) \/ e \in Before(docs, k)
        BY <1>8, <3>1, ComesAfterIsTotal
      <4>2. Rank(k) < Rank(e) \/ Rank(e) < Rank(k)
        BY <1>8, <4>1, EarlierHasFewer
      <4> QED
        BY <1>10, <2>1, <4>2
    <3> QED
      BY <3>1
  <2>2. ASSUME NEW k \in KeysOf(docs) PROVE Rank(k) < m + 1 <=> (Rank(k) < m \/ k = e)
    <3>1. Rank(k) \in Nat
      BY <1>1
    <3> QED
      BY <1>10, <2>1, <3>1
  <2> QED
    BY <1>8, <2>2 DEF FirstKeys
<1>12. IsFiniteSet(FirstKeys(docs, m))
  BY <1>2, KeySetsAreFinite
<1> QED
  BY <1>8, <1>11, <1>12, FS_AddElement

\* The first n documents are n, if there are as many.
LEMMA FirstKeysCount ==
    ASSUME NEW docs \in Documents, NEW n \in Nat, n <= Cardinality(KeysOf(docs))
    PROVE  Cardinality(FirstKeys(docs, n)) = n
<1> DEFINE bad == {m \in Nat : m <= Cardinality(KeysOf(docs)) /\ Cardinality(FirstKeys(docs, m)) # m}
<1>1. Cardinality(KeysOf(docs)) \in Nat
  BY KeySetsAreFinite DEF KeysOf
<1>2. SUFFICES ASSUME bad # {} PROVE FALSE
  OBVIOUS
<1>3. PICK m \in bad : \A j \in bad : m <= j
  BY <1>2, LeastNumber
<1>4. m # 0
  <2>1. FirstKeys(docs, 0) = {}
    <3>1. \A k : Cardinality(Before(docs, k)) \in Nat
      BY BeforeIsFinite
    <3> QED
      BY <3>1 DEF FirstKeys
  <2>2. Cardinality(FirstKeys(docs, 0)) = 0
    BY <2>1, FS_EmptySet
  <2> QED
    BY <2>2
<1>5. m - 1 \in Nat /\ m - 1 < Cardinality(KeysOf(docs)) /\ m - 1 <= Cardinality(KeysOf(docs))
  BY <1>1, <1>4
<1>6. m - 1 \notin bad
  BY <1>3, <1>5
<1>7. Cardinality(FirstKeys(docs, m - 1)) = m - 1
  BY <1>5, <1>6
<1>8. Cardinality(FirstKeys(docs, (m - 1) + 1)) = (m - 1) + 1
  BY <1>5, <1>7, NextDocument
<1>9. (m - 1) + 1 = m
  OBVIOUS
<1> QED
  BY <1>3, <1>8, <1>9

LEMMA WithinLimit ==
    ASSUME NEW docs \in Documents, NEW limit \in Nat, limit # NoLimit
    PROVE  KeysOf(docs) \ PastLimit(docs, limit) = FirstKeys(docs, limit)
<1>1. \A k : Cardinality(Before(docs, k)) \in Nat
  BY BeforeIsFinite
<1> QED
  BY <1>1 DEF PastLimit, FirstKeys

\* A set that has documents past its limit is full without them.
LEMMA FullWhenPast ==
    ASSUME NEW docs \in Documents, NEW limit \in Nat \cup {NoLimit}, PastLimit(docs, limit) # {}
    PROVE  /\ limit \in Nat /\ limit # NoLimit
           /\ Cardinality(KeysOf(docs) \ PastLimit(docs, limit)) = limit
<1>1. PICK k \in KeysOf(docs) : limit # NoLimit /\ Cardinality(Before(docs, k)) >= limit
  BY DEF PastLimit
<1>2. limit \in Nat /\ limit # NoLimit
  BY <1>1
<1>3. limit <= Cardinality(KeysOf(docs))
  <2>1. Before(docs, k) \subseteq KeysOf(docs) /\ KeysOf(docs) \subseteq Keys
    BY DEF Before, KeysOf
  <2>2. Cardinality(Before(docs, k)) <= Cardinality(KeysOf(docs))
    BY <2>1, CountsAreMonotone
  <2>3. Cardinality(Before(docs, k)) \in Nat /\ Cardinality(KeysOf(docs)) \in Nat
    BY <2>1, KeySetsAreFinite
  <2> QED
    BY <1>1, <1>2, <2>2, <2>3
<1>4. Cardinality(FirstKeys(docs, limit)) = limit
  BY <1>2, <1>3, FirstKeysCount
<1> QED
  BY <1>2, <1>4, WithinLimit

\* The documents within the limit are also those of a set that lacks some of the
\* documents past it.
LEMMA LimitOfFewer ==
    ASSUME NEW docs \in Documents, NEW fewer \in Documents, NEW limit \in Nat \cup {NoLimit},
           \A k \in KeysOf(fewer) : k \in KeysOf(docs) /\ fewer[k].val = docs[k].val,
           \A k \in KeysOf(docs) : k \in PastLimit(docs, limit) \/ k \in KeysOf(fewer)
    PROVE  KeysOf(fewer) \ PastLimit(fewer, limit) = KeysOf(docs) \ PastLimit(docs, limit)
<1>1. ASSUME NEW k \in KeysOf(fewer)
      PROVE  Before(fewer, k) = Before(docs, k) \cap KeysOf(fewer)
  BY <1>1 DEF Before, ComesAfter
<1>2. ASSUME NEW k \in KeysOf(fewer), k \notin PastLimit(docs, limit)
      PROVE  k \notin PastLimit(fewer, limit)
  <2>1. Cardinality(Before(fewer, k)) <= Cardinality(Before(docs, k))
    BY <1>1, BeforeIsFinite, CountsAreMonotone
  <2>2. Cardinality(Before(fewer, k)) \in Nat /\ Cardinality(Before(docs, k)) \in Nat
    BY BeforeIsFinite
  <2>3. k \in KeysOf(docs)
    OBVIOUS
  <2>4. limit = NoLimit \/ ~ (Cardinality(Before(docs, k)) >= limit)
    BY <1>2, <2>3 DEF PastLimit
  <2>5. limit = NoLimit \/ ~ (Cardinality(Before(fewer, k)) >= limit)
    BY <2>1, <2>2, <2>4
  <2> QED
    BY <2>5 DEF PastLimit
<1>3. ASSUME NEW k \in KeysOf(fewer), k \in PastLimit(docs, limit)
      PROVE  k \in PastLimit(fewer, limit)
  <2>1. /\ limit \in Nat /\ limit # NoLimit
        /\ Cardinality(KeysOf(docs) \ PastLimit(docs, limit)) = limit
    BY <1>3, FullWhenPast
  <2> DEFINE within == KeysOf(docs) \ PastLimit(docs, limit)
  <2>2. within \subseteq Before(fewer, k)
    <3> SUFFICES ASSUME NEW j \in within PROVE j \in Before(fewer, k)
      OBVIOUS
    <3>1. j \in KeysOf(docs) /\ j \in KeysOf(fewer) /\ k \in KeysOf(docs)
      OBVIOUS
    <3>2. /\ Cardinality(Before(docs, j)) \in Nat /\ Cardinality(Before(docs, k)) \in Nat
          /\ ~ (Cardinality(Before(docs, j)) >= limit) /\ Cardinality(Before(docs, k)) >= limit
      BY <1>3, <2>1, <3>1, BeforeIsFinite DEF PastLimit
    <3>3. Cardinality(Before(docs, j)) < Cardinality(Before(docs, k))
      BY <2>1, <3>2
    <3> QED
      BY <1>1, <3>1, <3>3, FewerIsEarlier
  <2>3. Cardinality(within) <= Cardinality(Before(fewer, k))
    BY <2>2, BeforeIsFinite, CountsAreMonotone
  <2>4. Cardinality(Before(fewer, k)) \in Nat
    BY BeforeIsFinite
  <2> QED
    BY <2>1, <2>3, <2>4 DEF PastLimit
<1>4. PastLimit(docs, limit) \subseteq KeysOf(docs)
  BY DEF PastLimit
<1> QED
  BY <1>2, <1>3, <1>4

\* Documents that come after as many as the limit allows do not change what is within.
LEMMA LimitOfMore ==
    ASSUME NEW docs \in Documents, NEW more \in Documents, NEW limit \in Nat, limit # NoLimit,
           \A k \in KeysOf(docs) : more[k] = docs[k],
           NEW full, full \subseteq KeysOf(docs), Cardinality(full) = limit,
           \A k \in KeysOf(more) : k \in KeysOf(docs) \/ full \subseteq Before(more, k)
    PROVE  KeysOf(more) \ PastLimit(more, limit) = KeysOf(docs) \ PastLimit(docs, limit)
<1>1. KeysOf(docs) \subseteq KeysOf(more)
  BY DEF KeysOf
<1>2. ASSUME NEW k \in KeysOf(docs) PROVE Before(docs, k) = Before(more, k) \cap KeysOf(docs)
  BY <1>1, <1>2 DEF Before
<1>3. ASSUME NEW k \in KeysOf(more), full \subseteq Before(more, k) PROVE k \in PastLimit(more, limit)
  <2>1. Cardinality(full) <= Cardinality(Before(more, k))
    BY <1>3, BeforeIsFinite, CountsAreMonotone
  <2>2. Cardinality(Before(more, k)) \in Nat
    BY BeforeIsFinite
  <2> QED
    BY <2>1, <2>2 DEF PastLimit
<1>4. ASSUME NEW k \in KeysOf(docs) PROVE k \in PastLimit(more, limit) <=> k \in PastLimit(docs, limit)
  <2>1. CASE Before(more, k) \subseteq KeysOf(docs)
    <3>1. Before(docs, k) = Before(more, k)
      BY <1>2, <2>1
    <3> QED
      BY <1>1, <3>1 DEF PastLimit
  <2>2. CASE ~ (Before(more, k) \subseteq KeysOf(docs))
    <3>1. PICK j \in Before(more, k) : j \notin KeysOf(docs)
      BY <2>2
    <3>2. j \in KeysOf(more) /\ k \in KeysOf(more)
      BY <1>1, BeforeIsFinite
    <3>3. full \subseteq Before(more, j)
      BY <3>1, <3>2
    <3>4. full \subseteq Before(more, k)
      BY <3>2, <3>3, BeforeIsTransitive
    <3>5. full \subseteq Before(docs, k)
      BY <1>2, <3>4
    <3>6. Cardinality(full) <= Cardinality(Before(docs, k))
      BY <3>5, BeforeIsFinite, CountsAreMonotone
    <3>7. Cardinality(Before(docs, k)) \in Nat
      BY BeforeIsFinite
    <3>8. k \in PastLimit(docs, limit)
      BY <3>6, <3>7 DEF PastLimit
    <3> QED
      BY <1>3, <3>2, <3>4, <3>8
  <2> QED
    BY <2>1, <2>2
<1> QED
  BY <1>1, <1>3, <1>4

-----------------------------------------------------------------------------
(* Change sets.                                                            *)

\* A change tells the difference between two documents to who does not see metadata.
Tells(change, old, new) ==
    \/ change = None /\ Same(old, new)
    \/ /\ change \in Changes
       /\ \/ change.type = "added" /\ old = NoDoc /\ new # NoDoc /\ change.doc.val = new.val
          \/ change.type = "modified" /\ old # NoDoc /\ new # NoDoc /\ change.doc.val = new.val
          \/ /\ change.type = "metadata" /\ old # NoDoc /\ new # NoDoc
             /\ old.val = new.val /\ change.doc.val = new.val
          \/ change.type = "removed" /\ old # NoDoc /\ new = NoDoc

\* AddChange: the merged change tells the difference over both, and is never one of
\* the combinations that fail.
LEMMA MergeTells ==
    ASSUME NEW x \in Document \cup {NoDoc}, NEW y \in Document \cup {NoDoc},
           NEW z \in Document \cup {NoDoc}, NEW first, NEW second,
           Tells(first, x, y), Tells(second, y, z), second # None
    PROVE  Tells(Merge(first, second), x, z)
<1>1. second \in Changes
  BY DEF Tells
<1>2. CASE first = None
  <2>1. Merge(first, second) = second
    BY <1>2 DEF Merge
  <2>2. Same(x, y)
    BY <1>2, ViewAssumption DEF Tells
  <2> QED
    BY <1>1, <2>1, <2>2, ViewAssumption DEF Tells, Same
<1>3. CASE first # None
  <2>1. first \in Changes
    BY <1>3 DEF Tells
  <2>2. /\ first.doc \in Document /\ second.doc \in Document
        /\ first.type \in ChangeTypes /\ second.type \in ChangeTypes
    BY <1>1, <2>1 DEF Changes
  <2>3. ASSUME NEW t \in ChangeTypes, NEW d \in Document
        PROVE  /\ Change(t, d) \in Changes /\ Change(t, d) # None
               /\ Change(t, d).type = t /\ Change(t, d).doc = d
    <3>1. Change(t, d) \in Changes
      BY DEF Change, Changes
    <3> QED
      BY <3>1, ViewAssumption DEF Change
  <2>4. CASE first.type = "metadata"
    BY <1>1, <1>3, <2>1, <2>4 DEF Merge, Tells
  <2>5. CASE first.type = "removed"
    <3>1. second.type = "added"
      BY <1>3, <2>5 DEF Tells
    <3>2. Merge(first, second) = Change("modified", second.doc)
      BY <1>3, <2>5, <3>1 DEF Merge
    <3> QED
      BY <1>1, <1>3, <2>2, <2>3, <2>5, <3>1, <3>2 DEF Tells, ChangeTypes
  <2>6. CASE first.type \in {"added", "modified"}
    <3>1. second.type \in {"modified", "metadata", "removed"}
      BY <1>3, <2>6 DEF Tells
    <3>2. CASE second.type \in {"modified", "metadata"}
      <4>1. Merge(first, second) = Change(first.type, second.doc)
        BY <1>3, <2>6, <3>2 DEF Merge
      <4> QED
        BY <1>1, <1>3, <2>2, <2>3, <2>6, <3>2, <4>1 DEF Tells
    <3>3. CASE second.type = "removed" /\ first.type = "added"
      <4>1. Merge(first, second) = None
        BY <1>3, <3>3 DEF Merge
      <4> QED
        BY <1>3, <3>3, <4>1 DEF Tells, Same
    <3>4. CASE second.type = "removed" /\ first.type = "modified"
      <4>1. Merge(first, second) = Change("removed", first.doc)
        BY <1>3, <3>4 DEF Merge
      <4> QED
        BY <1>1, <1>3, <2>2, <2>3, <3>4, <4>1 DEF Tells, ChangeTypes
    <3> QED
      BY <2>6, <3>1, <3>2, <3>3, <3>4
  <2> QED
    BY <1>3, <2>1, <2>4, <2>5, <2>6 DEF Tells
<1> QED
  BY <1>2, <1>3

-----------------------------------------------------------------------------
(* computeChangesWithDocuments.                                            *)

\* FSTViewDocumentChanges.
DocumentChanges == [docs : Documents, changes : [Keys -> Changes \cup {None}], refill : BOOLEAN,
                    mutated : SUBSET Keys]

\* The updates that are applied, and the documents with them, before the limit.
TypeAt(view, q, updates, before, k) ==
    ChangeType(before.docs[k], Selected(q, updates[k]), k \in view.mutated)
AppliedKeys(view, q, updates, before) ==
    {k \in DOMAIN updates : TypeAt(view, q, updates, before, k) # None}
WithUpdates(view, q, updates, before) ==
    [k \in Keys |-> IF k \in AppliedKeys(view, q, updates, before)
                    THEN Selected(q, updates[k]) ELSE before.docs[k]]

\* What the types of change mean.
LEMMA AppliedChangeTells ==
    ASSUME NEW view, NEW q, NEW updates, NEW before, NEW k,
           NEW type, type = TypeAt(view, q, updates, before, k), type # None,
           NEW old \in Document \cup {NoDoc}, old = before.docs[k],
           NEW new \in Document \cup {NoDoc}, new = Selected(q, updates[k]),
           NEW change, change = Change(type, IF type = "removed" THEN old ELSE new)
    PROVE  Tells(change, old, new) /\ change # None
<1>2. type \in ChangeTypes /\ (type = "removed" => old \in Document) /\ (type # "removed" => new \in Document)
  BY DEF TypeAt, ChangeType, ChangeTypes
<1>3. change \in Changes /\ change.type = type /\ change.doc = IF type = "removed" THEN old ELSE new
  BY <1>2 DEF Change, Changes
<1>4. CASE old # NoDoc /\ new # NoDoc
  <2>1. type = "modified" \/ (type = "metadata" /\ old.val = new.val)
    BY <1>4 DEF TypeAt, ChangeType
  <2> QED
    BY <1>3, <1>4, <2>1, ViewAssumption DEF Tells
<1>5. CASE old = NoDoc /\ new # NoDoc
  <2>1. type = "added"
    BY <1>5 DEF TypeAt, ChangeType
  <2> QED
    BY <1>3, <1>5, <2>1, ViewAssumption DEF Tells
<1>6. CASE old # NoDoc /\ new = NoDoc
  <2>1. type = "removed"
    BY <1>6 DEF TypeAt, ChangeType
  <2> QED
    BY <1>3, <1>6, <2>1, ViewAssumption DEF Tells
<1>7. CASE old = NoDoc /\ new = NoDoc
  BY <1>7 DEF TypeAt, ChangeType
<1> QED
  BY <1>4, <1>5, <1>6, <1>7

LEMMA ChangeTypeMeaning ==
    ASSUME NEW view, NEW q, NEW updates, NEW before, NEW k,
           NEW type, type = TypeAt(view, q, updates, before, k),
           NEW old \in Document \cup {NoDoc}, old = before.docs[k],
           NEW new \in Document \cup {NoDoc}, new = Selected(q, updates[k])
    PROVE  /\ type = None => /\ (old = NoDoc <=> new = NoDoc)
                             /\ old # NoDoc => old.val = new.val \/ ShouldWaitForSyncedDocument(new, old)
           /\ (type = "removed" <=> old # NoDoc /\ new = NoDoc)
           /\ (type = "modified" <=> /\ old # NoDoc /\ new # NoDoc
                                     /\ old.val # new.val /\ ~ShouldWaitForSyncedDocument(new, old))
           /\ (old # NoDoc /\ new # NoDoc /\ type # None /\ type # "modified" => old.val = new.val)
<1>1. \A t \in ChangeTypes : t # None
  BY ViewAssumption
<1> QED
  BY <1>1 DEF TypeAt, ChangeType, ChangeTypes

LEMMA NotAppliedMeaning ==
    ASSUME NEW view, NEW q, NEW updates, NEW before, NEW k,
           TypeAt(view, q, updates, before, k) = None,
           NEW old \in Document \cup {NoDoc}, old = before.docs[k],
           NEW new \in Document \cup {NoDoc}, new = Selected(q, updates[k])
    PROVE  /\ (old = NoDoc <=> new = NoDoc)
           /\ (old # NoDoc => old.val = new.val \/ ShouldWaitForSyncedDocument(new, old))
BY ChangeTypeMeaning

LEMMA KeptMeaning ==
    ASSUME NEW view, NEW q, NEW updates, NEW before, NEW k,
           NEW old \in Document, old = before.docs[k],
           NEW new \in Document \cup {NoDoc}, new = Selected(q, updates[k]),
           TypeAt(view, q, updates, before, k) \notin {None, "removed"}
    PROVE  new # NoDoc /\ (old.val = new.val \/ TypeAt(view, q, updates, before, k) = "modified")
<1>1. old # NoDoc
  BY ViewAssumption
<1> QED
  BY <1>1 DEF TypeAt, ChangeType

\* The fields of the result.
LEMMA ComputedDocs ==
    ASSUME NEW view, NEW q, NEW limit, NEW updates, NEW before, NEW result,
           result = ComputeChanges(view, q, limit, updates, before),
           NEW docs, docs = WithUpdates(view, q, updates, before)
    PROVE  result.docs = [k \in Keys |-> IF k \in PastLimit(docs, limit) THEN NoDoc ELSE docs[k]]
BY DEF ComputeChanges, WithUpdates, AppliedKeys, TypeAt

LEMMA ComputedMutated ==
    ASSUME NEW view, NEW q, NEW limit, NEW updates, NEW before, NEW result,
           result = ComputeChanges(view, q, limit, updates, before),
           NEW applied, applied = AppliedKeys(view, q, updates, before)
    PROVE  result.mutated \subseteq before.mutated \cup applied
BY DEF ComputeChanges, AppliedKeys, TypeAt

LEMMA ComputedRefill ==
    ASSUME NEW view, NEW q, NEW limit, NEW updates, NEW before, NEW result,
           result = ComputeChanges(view, q, limit, updates, before),
           NEW applied, applied = AppliedKeys(view, q, updates, before),
           NEW last, last = LastKey(before.docs)
    PROVE  /\ result.refill \in BOOLEAN
           /\ result.refill <=> /\ limit # NoLimit /\ Cardinality(KeysOf(before.docs)) = limit
                               /\ \E k \in applied :
                                    \/ TypeAt(view, q, updates, before, k) = "removed"
                                    \/ /\ TypeAt(view, q, updates, before, k) = "modified"
                                       /\ ComesAfter(k, Selected(q, updates[k]), last, before.docs[last])
BY DEF ComputeChanges, AppliedKeys, TypeAt

LEMMA ComputedRecord ==
    ASSUME NEW view, NEW q, NEW limit, NEW updates, NEW before, NEW result,
           result = ComputeChanges(view, q, limit, updates, before)
    PROVE  result.changes = [k \in Keys |-> result.changes[k]]
BY DEF ComputeChanges

LEMMA ComputedChanges ==
    ASSUME NEW view, NEW q, NEW limit, NEW updates, NEW before, NEW result,
           result = ComputeChanges(view, q, limit, updates, before),
           NEW docs, docs = WithUpdates(view, q, updates, before),
           NEW applied, applied = AppliedKeys(view, q, updates, before),
           NEW k \in Keys, NEW type, type = TypeAt(view, q, updates, before, k),
           NEW change, change = IF k \notin applied THEN before.changes[k]
                                ELSE Merge(before.changes[k],
                                           Change(type, IF type = "removed" THEN before.docs[k]
                                                        ELSE Selected(q, updates[k])))
    PROVE  result.changes[k] = IF k \in PastLimit(docs, limit)
                               THEN Merge(change, Change("removed", docs[k])) ELSE change
BY DEF ComputeChanges, WithUpdates, AppliedKeys, TypeAt

LEMMA SelectedType ==
    ASSUME NEW q, NEW doc \in Document \cup {NoDoc}
    PROVE  Selected(q, doc) \in Document \cup {NoDoc}
BY DEF Selected

LEMMA WithUpdatesType ==
    ASSUME NEW view, NEW q, NEW S \in SUBSET Keys, NEW updates \in [S -> Document \cup {NoDoc}],
           NEW before \in DocumentChanges
    PROVE  /\ WithUpdates(view, q, updates, before) \in Documents
           /\ AppliedKeys(view, q, updates, before) \subseteq S
<1>1. before.docs \in Documents
  BY DEF DocumentChanges
<1>2. AppliedKeys(view, q, updates, before) \subseteq S
  BY DEF AppliedKeys
<1>3. ASSUME NEW k \in S PROVE Selected(q, updates[k]) \in Document \cup {NoDoc}
  BY SelectedType
<1> QED
  BY <1>1, <1>2, <1>3 DEF WithUpdates, Documents

\* The changes tell the difference from the base that the earlier changes start from.
LEMMA ComputedTells ==
    ASSUME NEW view, NEW q, NEW limit, NEW S \in SUBSET Keys,
           NEW updates \in [S -> Document \cup {NoDoc}], NEW before \in DocumentChanges,
           NEW base \in Documents, \A k \in Keys : Tells(before.changes[k], base[k], before.docs[k]),
           NEW result, result = ComputeChanges(view, q, limit, updates, before)
    PROVE  \A k \in Keys : Tells(result.changes[k], base[k], result.docs[k])
<1> SUFFICES ASSUME NEW k \in Keys PROVE Tells(result.changes[k], base[k], result.docs[k])
  OBVIOUS
<1>1. PICK docs : docs = WithUpdates(view, q, updates, before)
  OBVIOUS
<1>2. PICK applied : applied = AppliedKeys(view, q, updates, before)
  OBVIOUS
<1>3. PICK type : type = TypeAt(view, q, updates, before, k)
  OBVIOUS
<1>4. PICK change : change = IF k \notin applied THEN before.changes[k]
                             ELSE Merge(before.changes[k],
                                        Change(type, IF type = "removed" THEN before.docs[k]
                                                     ELSE Selected(q, updates[k])))
  OBVIOUS
<1>5. result.changes[k] = IF k \in PastLimit(docs, limit)
                          THEN Merge(change, Change("removed", docs[k])) ELSE change
  BY <1>1, <1>2, <1>3, <1>4, ComputedChanges
<1>6. result.docs[k] = IF k \in PastLimit(docs, limit) THEN NoDoc ELSE docs[k]
  <2>1. result.docs = [j \in Keys |-> IF j \in PastLimit(docs, limit) THEN NoDoc ELSE docs[j]]
    BY <1>1, ComputedDocs
  <2> QED
    BY <2>1
<1>7. /\ before.docs[k] \in Document \cup {NoDoc} /\ base[k] \in Document \cup {NoDoc}
      /\ docs \in Documents /\ docs[k] \in Document \cup {NoDoc} /\ applied \subseteq S
  BY <1>1, <1>2, WithUpdatesType DEF DocumentChanges, Documents
<1>8. Tells(change, base[k], docs[k])
  <2>1. CASE k \notin applied
    BY <1>1, <1>2, <1>4, <2>1 DEF WithUpdates
  <2>2. CASE k \in applied
    <3>1. type # None /\ docs[k] = Selected(q, updates[k])
      BY <1>1, <1>2, <1>3, <2>2 DEF AppliedKeys, WithUpdates, TypeAt
    <3>3. PICK new : new = Change(type, IF type = "removed" THEN before.docs[k] ELSE docs[k])
      OBVIOUS
    <3>4. Tells(new, before.docs[k], docs[k]) /\ new # None
      <4>1. PICK old \in Document \cup {NoDoc} : old = before.docs[k]
        BY <1>7
      <4>2. PICK doc \in Document \cup {NoDoc} : doc = Selected(q, updates[k]) /\ doc = docs[k]
        BY <1>7, <3>1
      <4>3. new = Change(type, IF type = "removed" THEN old ELSE doc)
        BY <3>3, <4>1, <4>2
      <4>4. Tells(new, old, doc) /\ new # None
        BY <1>3, <3>1, <4>1, <4>2, <4>3, AppliedChangeTells
      <4> QED
        BY <4>1, <4>2, <4>4
    <3>6. change = Merge(before.changes[k], new)
      BY <1>4, <2>2, <3>1, <3>3
    <3>7. Tells(before.changes[k], base[k], before.docs[k])
      OBVIOUS
    <3> QED
      BY <1>7, <3>4, <3>6, <3>7, MergeTells
  <2> QED
    BY <2>1, <2>2
<1>9. CASE k \in PastLimit(docs, limit)
  <2>1. docs[k] # NoDoc /\ docs[k] \in Document
    BY <1>7, <1>9, DocumentTypes DEF PastLimit
  <2>2. PICK new : new = Change("removed", docs[k])
    OBVIOUS
  <2>3. new \in Changes /\ new.type = "removed" /\ new # None
    BY <2>1, <2>2, ViewAssumption DEF Change, Changes, ChangeTypes
  <2>4. Tells(new, docs[k], NoDoc)
    BY <2>1, <2>3 DEF Tells
  <2>5. Tells(Merge(change, new), base[k], NoDoc)
    BY <1>7, <1>8, <2>3, <2>4, MergeTells
  <2> QED
    BY <1>5, <1>6, <1>9, <2>2, <2>5
<1>10. CASE k \notin PastLimit(docs, limit)
  BY <1>5, <1>6, <1>8, <1>10
<1> QED
  BY <1>9, <1>10

LEMMA ComputedType ==
    ASSUME NEW view, NEW q, NEW limit, NEW S \in SUBSET Keys,
           NEW updates \in [S -> Document \cup {NoDoc}], NEW before \in DocumentChanges,
           NEW base \in Documents, \A k \in Keys : Tells(before.changes[k], base[k], before.docs[k]),
           NEW result, result = ComputeChanges(view, q, limit, updates, before)
    PROVE  result \in DocumentChanges
<1>1. PICK docs : docs = WithUpdates(view, q, updates, before)
  OBVIOUS
<1>2. PICK applied : applied = AppliedKeys(view, q, updates, before)
  OBVIOUS
<1>3. docs \in Documents /\ applied \subseteq Keys
  BY <1>1, <1>2, WithUpdatesType
<1>4. result.docs \in Documents
  <2>1. result.docs = [k \in Keys |-> IF k \in PastLimit(docs, limit) THEN NoDoc ELSE docs[k]]
    BY <1>1, ComputedDocs
  <2> QED
    BY <1>3, <2>1 DEF Documents
<1>5. result.mutated \in SUBSET Keys
  <2>1. result.mutated \subseteq before.mutated \cup applied
    BY <1>2, ComputedMutated
  <2> QED
    BY <1>3, <2>1 DEF DocumentChanges
<1>6. result.refill \in BOOLEAN
  BY <1>2, ComputedRefill
<1>7. result.changes \in [Keys -> Changes \cup {None}]
  <2>1. ASSUME NEW k \in Keys PROVE result.changes[k] \in Changes \cup {None}
    <3>1. Tells(result.changes[k], base[k], result.docs[k])
      BY ComputedTells
    <3> QED
      BY <3>1 DEF Tells
  <2>2. result.changes = [k \in Keys |-> result.changes[k]]
    BY ComputedRecord
  <2> QED
    BY <2>1, <2>2
<1>8. result = [docs |-> result.docs, mutated |-> result.mutated, changes |-> result.changes,
                refill |-> result.refill]
  BY DEF ComputeChanges
<1> QED
  BY <1>4, <1>5, <1>6, <1>7, <1>8 DEF DocumentChanges

-----------------------------------------------------------------------------
(* Local documents, and the result of a query.                             *)

\* The types of the cache and of the batches.
CacheType == [Keys -> [val : Contents, committed : BOOLEAN]]
PendingType == [Keys -> Batch \cup {None}]

LEMMA LocalDocType ==
    ASSUME NEW c \in CacheType, NEW p \in PendingType, NEW k \in Keys
    PROVE  LocalDoc(c[k], p[k]) \in Document \cup {NoDoc}
<1>1. c[k].val \in Values \cup {NoDoc} /\ c[k].committed \in BOOLEAN
  BY DEF CacheType, Contents
<1>2. CASE p[k] = None
  BY <1>1, <1>2 DEF LocalDoc, Document
<1>3. CASE p[k] # None
  <2>1. p[k].val \in Values \cup {NoDoc}
    BY <1>3 DEF PendingType, Batch, Contents
  <2> QED
    BY <1>3, <2>1 DEF LocalDoc, Document
<1> QED
  BY <1>2, <1>3

LEMMA LocalResultType ==
    ASSUME NEW c \in CacheType, NEW p \in PendingType, NEW q, NEW k \in Keys
    PROVE  LocalResult(c, p, q, k) \in Document \cup {NoDoc}
BY LocalDocType, SelectedType DEF LocalResult

\* A document set from which a limit takes what is past it shows the result, if its
\* documents are up to date and the other candidates are past the limit as well.
LEMMA LimitShows ==
    ASSUME NEW c \in CacheType, NEW p \in PendingType, NEW q \in Queries,
           NEW docs \in Documents,
           \A k \in KeysOf(docs) : IsFresh(docs[k], LocalResult(c, p, q, k)),
           NEW more, more = Candidates(docs, c, p, q),
           KeysOf(more) \ PastLimit(more, LimitOf[q]) = KeysOf(docs) \ PastLimit(docs, LimitOf[q]),
           NEW shown, shown = [k \in Keys |-> IF k \in PastLimit(docs, LimitOf[q])
                                              THEN NoDoc ELSE docs[k]]
    PROVE  ShowsResult(shown, c, p, q)
<1>1. KeysOf(shown) = KeysOf(docs) \ PastLimit(docs, LimitOf[q])
  BY DEF KeysOf
<1>2. PICK fewer : fewer = Candidates(shown, c, p, q)
  OBVIOUS
<1>3. \A k \in Keys : LocalResult(c, p, q, k) \in Document \cup {NoDoc}
  BY LocalResultType
<1>4. ASSUME NEW k \in Keys
      PROVE  /\ fewer[k] = IF shown[k] # NoDoc THEN shown[k]
                           ELSE IF LocalResult(c, p, q, k) # NoDoc /\ ~LocalResult(c, p, q, k).committed
                                THEN LocalResult(c, p, q, k) ELSE NoDoc
             /\ more[k] = IF docs[k] # NoDoc THEN docs[k]
                          ELSE IF LocalResult(c, p, q, k) # NoDoc /\ ~LocalResult(c, p, q, k).committed
                               THEN LocalResult(c, p, q, k) ELSE NoDoc
             /\ shown[k] = IF k \in PastLimit(docs, LimitOf[q]) THEN NoDoc ELSE docs[k]
  BY <1>2 DEF Candidates
<1>5. shown \in Documents /\ fewer \in Documents /\ more \in Documents
  <2>1. shown \in Documents
    BY DEF Documents
  <2>2. /\ fewer = [k \in Keys |-> fewer[k]] /\ more = [k \in Keys |-> more[k]]
    BY <1>2 DEF Candidates
  <2>3. \A k \in Keys : fewer[k] \in Document \cup {NoDoc} /\ more[k] \in Document \cup {NoDoc}
    BY <1>3, <1>4, <2>1 DEF Documents
  <2> QED
    BY <2>1, <2>2, <2>3 DEF Documents
<1>6. LimitOf[q] \in Nat \cup {NoLimit}
  BY SyncEngineAssumption
<1>7. ASSUME NEW k \in KeysOf(fewer) PROVE k \in KeysOf(more) /\ fewer[k].val = more[k].val
  <2>1. k \in Keys /\ fewer[k] # NoDoc
    BY DEF KeysOf
  <2>2. CASE shown[k] # NoDoc
    BY <1>4, <2>1, <2>2 DEF KeysOf
  <2>3. CASE shown[k] = NoDoc /\ docs[k] # NoDoc
    <3>1. IsFresh(docs[k], LocalResult(c, p, q, k))
      BY <2>1, <2>3 DEF KeysOf
    <3> QED
      BY <1>4, <2>1, <2>3, <3>1 DEF IsFresh, ShouldWaitForSyncedDocument, KeysOf
  <2>4. CASE shown[k] = NoDoc /\ docs[k] = NoDoc
    BY <1>4, <2>1, <2>4 DEF KeysOf
  <2> QED
    BY <2>2, <2>3, <2>4
<1>8. ASSUME NEW k \in KeysOf(more) PROVE k \in PastLimit(more, LimitOf[q]) \/ k \in KeysOf(fewer)
  <2>1. ASSUME k \notin PastLimit(more, LimitOf[q]) PROVE k \in KeysOf(fewer)
    <3>1. k \in KeysOf(docs) \ PastLimit(docs, LimitOf[q])
      BY <2>1
    <3> QED
      BY <1>4, <3>1 DEF KeysOf
  <2> QED
    BY <2>1
<1>9. KeysOf(fewer) \ PastLimit(fewer, LimitOf[q]) = KeysOf(more) \ PastLimit(more, LimitOf[q])
  <2>1. PICK limit \in Nat \cup {NoLimit} : limit = LimitOf[q]
    BY <1>6
  <2>2. \A k \in KeysOf(more) : k \in PastLimit(more, limit) \/ k \in KeysOf(fewer)
    BY <1>8, <2>1
  <2>3. KeysOf(fewer) \ PastLimit(fewer, limit) = KeysOf(more) \ PastLimit(more, limit)
    BY <1>5, <1>7, <2>2, LimitOfFewer
  <2> QED
    BY <2>1, <2>3
<1>10. KeysOf(shown) = KeysOf(fewer) \ PastLimit(fewer, LimitOf[q])
  BY <1>1, <1>9
<1>11. ASSUME NEW k \in KeysOf(shown) PROVE IsFresh(shown[k], LocalResult(c, p, q, k))
  BY <1>1, <1>4 DEF KeysOf
<1> QED
  BY <1>2, <1>10, <1>11 DEF ShowsResult

\* The last document of a set comes after the others.
LEMMA LastKeyIsLast ==
    ASSUME NEW docs \in Documents, KeysOf(docs) # {}
    PROVE  /\ LastKey(docs) \in KeysOf(docs)
           /\ \A k \in KeysOf(docs) \ {LastKey(docs)} : k \in Before(docs, LastKey(docs))
<1> DEFINE Rank(k) == Cardinality(Before(docs, k))
           size == Cardinality(KeysOf(docs))
           distances == {size - Rank(k) : k \in KeysOf(docs)}
<1>1. /\ size \in Nat /\ \A k : Rank(k) \in Nat
      /\ \A k : Rank(k) <= size
  <2>1. KeysOf(docs) \subseteq Keys
    BY DEF KeysOf
  <2> QED
    BY <2>1, BeforeIsFinite, KeySetsAreFinite, CountsAreMonotone
<1>2. distances \subseteq Nat /\ distances # {}
  BY <1>1
<1> HIDE DEF distances
<1>3. PICK d \in distances : \A e \in distances : d <= e
  BY <1>2, LeastNumber
<1>4. PICK k \in KeysOf(docs) : d = size - Rank(k)
  BY <1>3 DEF distances
<1>5. ASSUME NEW j \in KeysOf(docs) \ {k} PROVE j \in Before(docs, k)
  <2>1. size - Rank(k) <= size - Rank(j)
    BY <1>3, <1>4 DEF distances
  <2>2. ~ (Rank(k) < Rank(j))
    BY <1>1, <2>1
  <2>3. k \notin Before(docs, j)
    BY <2>2, EarlierHasFewer
  <2> QED
    BY <2>3, ComesAfterIsTotal
<1>6. \E last \in KeysOf(docs) : \A j \in KeysOf(docs) \ {last} :
            ComesAfter(last, docs[last], j, docs[j])
  BY <1>5 DEF Before
<1>7. /\ LastKey(docs) \in KeysOf(docs)
      /\ \A j \in KeysOf(docs) \ {LastKey(docs)} :
            ComesAfter(LastKey(docs), docs[LastKey(docs)], j, docs[j])
  BY <1>6 DEF LastKey
<1> QED
  BY <1>7 DEF Before

\* executeQuery gives the result for every key that has one.
LEMMA ExecuteQueryGives ==
    ASSUME NEW c \in CacheType, NEW p \in PendingType, NEW q,
           NEW updates, updates = ExecuteQuery(c, p, q)
    PROVE  /\ DOMAIN updates = {k \in Keys : LocalResult(c, p, q, k) # NoDoc}
           /\ \A k \in DOMAIN updates : /\ Selected(q, updates[k]) = LocalResult(c, p, q, k)
                                        /\ updates[k] \in Document \cup {NoDoc}
           /\ updates \in [DOMAIN updates -> Document \cup {NoDoc}]
<1>1. \A k \in Keys : LocalDoc(c[k], p[k]) \in Document \cup {NoDoc}
  BY LocalDocType
<1>2. updates = [k \in {j \in Keys : LocalDoc(c[j], p[j]) # NoDoc /\ Matches(q, LocalDoc(c[j], p[j]).val)} |->
                    LocalDoc(c[k], p[k])]
  BY DEF ExecuteQuery, LocalDocs, KeysOf
<1>3. \A k \in Keys : LocalResult(c, p, q, k) # NoDoc
                        <=> LocalDoc(c[k], p[k]) # NoDoc /\ Matches(q, LocalDoc(c[k], p[k]).val)
  BY DEF LocalResult, Selected
<1>4. DOMAIN updates = {k \in Keys : LocalResult(c, p, q, k) # NoDoc}
  BY <1>2, <1>3
<1>5. ASSUME NEW k \in DOMAIN updates
      PROVE  Selected(q, updates[k]) = LocalResult(c, p, q, k) /\ updates[k] \in Document \cup {NoDoc}
  BY <1>1, <1>2, <1>4 DEF LocalResult
<1>6. updates = [k \in DOMAIN updates |-> updates[k]]
  BY <1>2
<1> QED
  BY <1>4, <1>5, <1>6

LEMMA ExecuteQueryType ==
    ASSUME NEW c \in CacheType, NEW p \in PendingType, NEW q
    PROVE  \E T \in SUBSET Keys : ExecuteQuery(c, p, q) \in [T -> Document \cup {NoDoc}]
<1>1. PICK updates : updates = ExecuteQuery(c, p, q)
  OBVIOUS
<1>2. DOMAIN updates = {k \in Keys : LocalResult(c, p, q, k) # NoDoc}
  BY <1>1, ExecuteQueryGives
<1>3. updates \in [DOMAIN updates -> Document \cup {NoDoc}]
  BY <1>1, ExecuteQueryGives
<1> QED
  BY <1>1, <1>2, <1>3

\* A pass over all results, after which no other is needed: the refill of a view
\* whose documents are up to date, and the first pass of a new view.
LEMMA QueryPass ==
    ASSUME NEW c \in CacheType, NEW p \in PendingType, NEW q \in Queries,
           NEW view, NEW before \in DocumentChanges,
           \A k \in KeysOf(before.docs) : IsFresh(before.docs[k], LocalResult(c, p, q, k)),
           NEW updates, updates = ExecuteQuery(c, p, q),
           NEW result, result = ComputeChanges(view, q, LimitOf[q], updates, before)
    PROVE  ShowsResult(result.docs, c, p, q) /\ ~result.refill
<1>1. /\ DOMAIN updates = {k \in Keys : LocalResult(c, p, q, k) # NoDoc}
      /\ \A k \in DOMAIN updates : Selected(q, updates[k]) = LocalResult(c, p, q, k)
      /\ updates \in [DOMAIN updates -> Document \cup {NoDoc}]
  BY ExecuteQueryGives
<1>2. PICK docs : docs = WithUpdates(view, q, updates, before)
  OBVIOUS
<1>3. PICK applied : applied = AppliedKeys(view, q, updates, before)
  OBVIOUS
<1>4. DOMAIN updates \in SUBSET Keys
  BY <1>1
<1>5. docs \in Documents /\ applied \subseteq DOMAIN updates
  BY <1>1, <1>2, <1>3, <1>4, WithUpdatesType
<1>6. \A k \in Keys : /\ before.docs[k] \in Document \cup {NoDoc}
                      /\ LocalResult(c, p, q, k) \in Document \cup {NoDoc}
  BY LocalResultType DEF DocumentChanges, Documents
<1>7. ASSUME NEW k \in Keys
      PROVE  /\ docs[k] = NoDoc <=> LocalResult(c, p, q, k) = NoDoc
             /\ docs[k] # NoDoc => IsFresh(docs[k], LocalResult(c, p, q, k))
  <2>1. CASE k \in applied
    <3>1. docs[k] = LocalResult(c, p, q, k)
      BY <1>1, <1>2, <1>3, <1>5, <2>1 DEF WithUpdates
    <3> QED
      BY <3>1 DEF IsFresh
  <2>2. CASE k \in DOMAIN updates /\ k \notin applied
    <3>1. docs[k] = before.docs[k] /\ TypeAt(view, q, updates, before, k) = None
      BY <1>2, <1>3, <2>2 DEF WithUpdates, AppliedKeys
    <3>2. PICK old \in Document \cup {NoDoc} : old = before.docs[k]
      BY <1>6
    <3>3. PICK new \in Document \cup {NoDoc} : new = LocalResult(c, p, q, k) /\ new = Selected(q, updates[k])
      BY <1>1, <1>6, <2>2
    <3>4. /\ old = NoDoc <=> new = NoDoc
          /\ old # NoDoc => old.val = new.val \/ ShouldWaitForSyncedDocument(new, old)
      BY <3>1, <3>2, <3>3, ChangeTypeMeaning
    <3> QED
      BY <3>1, <3>2, <3>3, <3>4 DEF IsFresh
  <2>3. CASE k \notin DOMAIN updates
    <3>1. docs[k] = before.docs[k] /\ LocalResult(c, p, q, k) = NoDoc
      BY <1>1, <1>2, <1>5, <1>3, <2>3 DEF WithUpdates
    <3>2. before.docs[k] = NoDoc
      BY <3>1 DEF IsFresh, KeysOf
    <3> QED
      BY <3>1, <3>2
  <2> QED
    BY <2>1, <2>2, <2>3
<1>8. ~result.refill
  <2>1. PICK last : last = LastKey(before.docs)
    OBVIOUS
  <2> SUFFICES ASSUME NEW k \in applied,
                      TypeAt(view, q, updates, before, k) \in {"removed", "modified"}
               PROVE  FALSE
    BY <1>3, <2>1, ComputedRefill
  <2>2. k \in DOMAIN updates /\ k \in Keys
    BY <1>4, <1>5
  <2>3. PICK old \in Document \cup {NoDoc} : old = before.docs[k]
    BY <1>6, <2>2
  <2>4. PICK new \in Document \cup {NoDoc} : new = LocalResult(c, p, q, k) /\ new = Selected(q, updates[k])
    BY <1>1, <1>6, <2>2
  <2>5. PICK type : type = TypeAt(view, q, updates, before, k)
    OBVIOUS
  <2>6. /\ (type = "removed" <=> old # NoDoc /\ new = NoDoc)
        /\ (type = "modified" <=> /\ old # NoDoc /\ new # NoDoc
                                  /\ old.val # new.val /\ ~ShouldWaitForSyncedDocument(new, old))
    BY <2>3, <2>4, <2>5, ChangeTypeMeaning
  <2>7. new # NoDoc
    BY <1>1, <2>2, <2>4
  <2>8. old # NoDoc => IsFresh(old, new)
    BY <2>2, <2>3, <2>4 DEF KeysOf
  <2> QED
    BY <2>5, <2>6, <2>7, <2>8 DEF IsFresh
<1>9. ShowsResult(result.docs, c, p, q)
  <2>1. result.docs = [k \in Keys |-> IF k \in PastLimit(docs, LimitOf[q]) THEN NoDoc ELSE docs[k]]
    BY <1>2, ComputedDocs
  <2>2. Candidates(docs, c, p, q) = docs
    <3>1. \A k \in Keys : docs[k] = NoDoc => LocalResult(c, p, q, k) = NoDoc
      BY <1>7
    <3>2. docs = [k \in Keys |-> docs[k]]
      BY <1>5 DEF Documents
    <3> QED
      BY <3>1, <3>2 DEF Candidates
  <2>3. \A k \in KeysOf(docs) : IsFresh(docs[k], LocalResult(c, p, q, k))
    BY <1>7 DEF KeysOf
  <2> QED
    BY <1>5, <2>1, <2>2, <2>3, LimitShows
<1> QED
  BY <1>8, <1>9

\* What the first pass over the changed keys is given: a view that showed the result
\* before the local documents of these keys changed.
FirstPassGiven(view, q, S, c, p, oldCache, oldPending) ==
    /\ view \in ViewState
    /\ S \in SUBSET Keys
    /\ \A k \in Keys \ S : LocalDoc(c[k], p[k]) = LocalDoc(oldCache[k], oldPending[k])
    /\ ShowsResult(view.docs, oldCache, oldPending, q)

LEMMA LocalDocsGive ==
    ASSUME NEW c \in CacheType, NEW p \in PendingType, NEW q, NEW S \in SUBSET Keys,
           NEW updates, updates = LocalDocs(c, p, S)
    PROVE  /\ DOMAIN updates = S /\ updates \in [S -> Document \cup {NoDoc}]
           /\ \A k \in S : Selected(q, updates[k]) = LocalResult(c, p, q, k)
<1>1. \A k \in S : LocalDoc(c[k], p[k]) \in Document \cup {NoDoc}
  BY LocalDocType
<1> QED
  BY <1>1 DEF LocalDocs, LocalResult

LEMMA UnchangedType ==
    ASSUME NEW view \in ViewState
    PROVE  /\ Unchanged(view) \in DocumentChanges /\ Unchanged(view).docs = view.docs
           /\ \A k \in Keys : Tells(Unchanged(view).changes[k], view.docs[k], Unchanged(view).docs[k])
<1>1. view.docs \in Documents /\ view.mutated \in SUBSET Keys
  BY DEF ViewState
<1>2. Unchanged(view) \in DocumentChanges
  BY <1>1 DEF Unchanged, DocumentChanges, NoChanges
<1> QED
  BY <1>2 DEF Unchanged, NoChanges, Tells, Same

\* The documents after the first pass and before the limit.
LEMMA FirstPassDocs ==
    ASSUME NEW c \in CacheType, NEW p \in PendingType, NEW oldCache \in CacheType,
           NEW oldPending \in PendingType, NEW q \in Queries, NEW view, NEW S,
           FirstPassGiven(view, q, S, c, p, oldCache, oldPending),
           NEW updates, updates = LocalDocs(c, p, S),
           NEW docs, docs = WithUpdates(view, q, updates, Unchanged(view))
    PROVE  /\ docs \in Documents
           /\ \A k \in KeysOf(docs) : IsFresh(docs[k], LocalResult(c, p, q, k))
           /\ \A k \in S : docs[k] = NoDoc <=> LocalResult(c, p, q, k) = NoDoc
           /\ \A k \in Keys \ S : docs[k] = view.docs[k]
           /\ \A k \in Keys \ S : LocalResult(c, p, q, k) = LocalResult(oldCache, oldPending, q, k)
<1>1. view \in ViewState /\ S \in SUBSET Keys /\ view.docs \in Documents
  BY DEF FirstPassGiven, ViewState
<1>2. PICK before \in DocumentChanges : before = Unchanged(view)
  BY <1>1, UnchangedType
<1>3. before.docs = view.docs
  BY <1>1, <1>2, UnchangedType
<1>4. /\ DOMAIN updates = S /\ updates \in [S -> Document \cup {NoDoc}]
      /\ \A k \in S : Selected(q, updates[k]) = LocalResult(c, p, q, k)
  BY <1>1, LocalDocsGive
<1>5. PICK applied : applied = AppliedKeys(view, q, updates, before)
  OBVIOUS
<1>6. docs \in Documents /\ applied \subseteq S
  BY <1>1, <1>2, <1>4, <1>5, WithUpdatesType
<1>7. \A k \in Keys : docs[k] = IF k \in applied THEN Selected(q, updates[k]) ELSE view.docs[k]
  BY <1>2, <1>3, <1>5 DEF WithUpdates
<1>8. \A k \in Keys \ S : LocalResult(c, p, q, k) = LocalResult(oldCache, oldPending, q, k)
  BY DEF LocalResult, FirstPassGiven
<1>9. \A k \in Keys : LocalResult(c, p, q, k) \in Document \cup {NoDoc}
  BY LocalResultType
<1>10. ASSUME NEW k \in S
       PROVE  /\ docs[k] = NoDoc <=> LocalResult(c, p, q, k) = NoDoc
              /\ docs[k] # NoDoc => IsFresh(docs[k], LocalResult(c, p, q, k))
  <2>1. CASE k \in applied
    BY <1>1, <1>4, <1>7, <2>1 DEF IsFresh
  <2>2. CASE k \notin applied
    <3>1. docs[k] = view.docs[k] /\ TypeAt(view, q, updates, before, k) = None
      BY <1>1, <1>4, <1>5, <1>7, <2>2 DEF AppliedKeys
    <3>2. PICK old \in Document \cup {NoDoc} : old = before.docs[k] /\ old = docs[k]
      BY <1>1, <1>3, <3>1 DEF Documents
    <3>3. PICK new \in Document \cup {NoDoc} : new = LocalResult(c, p, q, k) /\ new = Selected(q, updates[k])
      BY <1>1, <1>4, <1>9
    <3>4. /\ (old = NoDoc <=> new = NoDoc)
          /\ (old # NoDoc => old.val = new.val \/ ShouldWaitForSyncedDocument(new, old))
      <4>1. PICK type : type = TypeAt(view, q, updates, before, k)
        OBVIOUS
      <4>2. type = None
        BY <3>1, <4>1
      <4> QED
        BY <3>2, <3>3, <4>1, <4>2, NotAppliedMeaning
    <3> QED
      BY <3>2, <3>3, <3>4 DEF IsFresh
  <2> QED
    BY <2>1, <2>2
<1>11. \A k \in Keys \ S : docs[k] = view.docs[k]
  BY <1>6, <1>7
<1>12. ASSUME NEW k \in KeysOf(docs) PROVE IsFresh(docs[k], LocalResult(c, p, q, k))
  <2>1. k \in Keys /\ docs[k] # NoDoc
    BY DEF KeysOf
  <2>2. CASE k \in S
    BY <1>10, <2>1, <2>2
  <2>3. CASE k \notin S
    <3>1. k \in KeysOf(view.docs)
      BY <1>11, <2>1, <2>3 DEF KeysOf
    <3>2. IsFresh(view.docs[k], LocalResult(oldCache, oldPending, q, k))
      BY <3>1 DEF FirstPassGiven, ShowsResult
    <3>3. docs[k] = view.docs[k] /\ LocalResult(c, p, q, k) = LocalResult(oldCache, oldPending, q, k)
      BY <1>8, <1>11, <2>1, <2>3
    <3> QED
      BY <3>2, <3>3
  <2> QED
    BY <2>2, <2>3
<1> QED
  BY <1>6, <1>8, <1>10, <1>11, <1>12

\* A view that is not full has all candidates.
LEMMA FirstPassNotFull ==
    ASSUME NEW c \in CacheType, NEW p \in PendingType, NEW oldCache \in CacheType,
           NEW oldPending \in PendingType, NEW q \in Queries, NEW view, NEW S,
           FirstPassGiven(view, q, S, c, p, oldCache, oldPending),
           NEW updates, updates = LocalDocs(c, p, S),
           NEW docs, docs = WithUpdates(view, q, updates, Unchanged(view)),
           LimitOf[q] = NoLimit \/ Cardinality(KeysOf(view.docs)) # LimitOf[q]
    PROVE  Candidates(docs, c, p, q) = docs
<1>1. /\ docs \in Documents
      /\ \A k \in S : docs[k] = NoDoc <=> LocalResult(c, p, q, k) = NoDoc
      /\ \A k \in Keys \ S : docs[k] = view.docs[k]
      /\ \A k \in Keys \ S : LocalResult(c, p, q, k) = LocalResult(oldCache, oldPending, q, k)
  BY FirstPassDocs
<1>2. PICK cands : cands = Candidates(view.docs, oldCache, oldPending, q)
  OBVIOUS
<1>3. \A k \in Keys : LocalResult(oldCache, oldPending, q, k) \in Document \cup {NoDoc}
  BY LocalResultType
<1>4. view.docs \in Documents
  BY DEF FirstPassGiven, ViewState
<1>5. cands \in Documents
  BY <1>2, <1>3, <1>4 DEF Candidates, Documents
<1>6. PICK limit \in Nat \cup {NoLimit} : limit = LimitOf[q]
  BY SyncEngineAssumption
<1>7. KeysOf(view.docs) = KeysOf(cands) \ PastLimit(cands, limit)
  BY <1>2, <1>6 DEF FirstPassGiven, ShowsResult
<1>8. PastLimit(cands, limit) = {}
  BY <1>5, <1>6, <1>7, FullWhenPast
<1>9. ASSUME NEW k \in Keys, docs[k] = NoDoc
      PROVE  ~ (LocalResult(c, p, q, k) # NoDoc /\ ~LocalResult(c, p, q, k).committed)
  <2>1. CASE k \in S
    BY <1>1, <1>9, <2>1
  <2>2. CASE k \notin S
    <3>1. view.docs[k] = NoDoc
      BY <1>1, <1>9, <2>2
    <3>2. cands[k] = NoDoc
      BY <1>7, <1>8, <3>1 DEF KeysOf
    <3> QED
      BY <1>1, <1>2, <2>2, <3>1, <3>2 DEF Candidates
  <2> QED
    BY <2>1, <2>2
<1>10. docs = [k \in Keys |-> docs[k]]
  BY <1>1 DEF Documents
<1> QED
  BY <1>9, <1>10 DEF Candidates

\* A full view from which no document goes keeps the candidates it does not show past
\* its limit.
LEMMA FirstPassFull ==
    ASSUME NEW c \in CacheType, NEW p \in PendingType, NEW oldCache \in CacheType,
           NEW oldPending \in PendingType, NEW q \in Queries, NEW view, NEW S,
           FirstPassGiven(view, q, S, c, p, oldCache, oldPending),
           NEW updates, updates = LocalDocs(c, p, S),
           NEW before, before = Unchanged(view),
           NEW docs, docs = WithUpdates(view, q, updates, before),
           NEW limit, limit = LimitOf[q], limit # NoLimit,
           Cardinality(KeysOf(view.docs)) = limit,
           NEW last, last = LastKey(view.docs),
           \A k \in AppliedKeys(view, q, updates, before) :
                /\ TypeAt(view, q, updates, before, k) # "removed"
                /\ TypeAt(view, q, updates, before, k) = "modified"
                        => ~ComesAfter(k, docs[k], last, view.docs[last]),
           NEW more, more = Candidates(docs, c, p, q)
    PROVE  KeysOf(more) \ PastLimit(more, limit) = KeysOf(docs) \ PastLimit(docs, limit)
<1>1. /\ docs \in Documents
      /\ \A k \in S : docs[k] = NoDoc <=> LocalResult(c, p, q, k) = NoDoc
      /\ \A k \in Keys \ S : docs[k] = view.docs[k]
      /\ \A k \in Keys \ S : LocalResult(c, p, q, k) = LocalResult(oldCache, oldPending, q, k)
  BY FirstPassDocs
<1>2. PICK cands : cands = Candidates(view.docs, oldCache, oldPending, q)
  OBVIOUS
<1>3. \A k \in Keys : /\ LocalResult(oldCache, oldPending, q, k) \in Document \cup {NoDoc}
                      /\ LocalResult(c, p, q, k) \in Document \cup {NoDoc}
  BY LocalResultType
<1>4. view \in ViewState /\ view.docs \in Documents /\ S \in SUBSET Keys
  BY DEF FirstPassGiven, ViewState
<1>5. cands \in Documents
  BY <1>2, <1>3, <1>4 DEF Candidates, Documents
<1>6. more \in Documents
  BY <1>1, <1>3 DEF Candidates, Documents
<1>7. limit \in Nat
  BY SyncEngineAssumption
<1>8. KeysOf(view.docs) = KeysOf(cands) \ PastLimit(cands, limit)
  BY <1>2 DEF FirstPassGiven, ShowsResult
<1>9. /\ before \in DocumentChanges /\ before.docs = view.docs
  BY <1>4, UnchangedType
<1>10. PICK applied : applied = AppliedKeys(view, q, updates, before)
  OBVIOUS
<1>11. \A k \in Keys : docs[k] = IF k \in applied THEN Selected(q, updates[k]) ELSE view.docs[k]
  BY <1>9, <1>10 DEF WithUpdates
<1>12. ASSUME NEW j \in KeysOf(view.docs)
       PROVE  /\ docs[j] # NoDoc
              /\ \/ docs[j].val = view.docs[j].val
                 \/ ~ComesAfter(j, docs[j], last, view.docs[last])
  <2>1. j \in Keys /\ view.docs[j] # NoDoc /\ view.docs[j] \in Document
    BY <1>4, DocumentTypes
  <2>2. CASE j \notin applied
    BY <1>11, <2>1, <2>2
  <2>3. CASE j \in applied
    <3>1. PICK type : type = TypeAt(view, q, updates, before, j)
      OBVIOUS
    <3>2. /\ type # None /\ type # "removed"
          /\ type = "modified" => ~ComesAfter(j, docs[j], last, view.docs[last])
      BY <1>10, <2>3, <3>1 DEF AppliedKeys
    <3>3. PICK old \in Document : old = before.docs[j] /\ old = view.docs[j]
      BY <1>9, <2>1
    <3>4. PICK new \in Document \cup {NoDoc} : new = docs[j]
      BY <1>1, <2>1 DEF Documents
    <3>5. new = Selected(q, updates[j])
      BY <1>11, <2>1, <2>3, <3>4
    <3>6. new # NoDoc /\ (old.val = new.val \/ type = "modified")
      BY <3>1, <3>2, <3>3, <3>5, KeptMeaning
    <3> QED
      BY <3>2, <3>3, <3>4, <3>6
  <2> QED
    BY <2>2, <2>3
<1>13. PICK full : full = KeysOf(view.docs)
  OBVIOUS
<1>14. full \subseteq KeysOf(docs)
  BY <1>12, <1>13 DEF KeysOf
<1>15. \A k \in KeysOf(docs) : more[k] = docs[k]
  BY DEF KeysOf, Candidates
<1>16. ASSUME NEW k \in KeysOf(more), k \notin KeysOf(docs) PROVE full \subseteq Before(more, k)
  <2>1. k \in Keys /\ docs[k] = NoDoc /\ more[k] # NoDoc
    BY <1>16 DEF KeysOf
  <2>2. /\ LocalResult(c, p, q, k) # NoDoc /\ ~LocalResult(c, p, q, k).committed
        /\ more[k] = LocalResult(c, p, q, k)
    BY <2>1 DEF Candidates
  <2>3. k \notin S
    BY <1>1, <2>1, <2>2
  <2>4. view.docs[k] = NoDoc /\ cands[k] = more[k]
    BY <1>1, <1>2, <2>1, <2>2, <2>3 DEF Candidates
  <2>5. k \in KeysOf(cands) /\ k \in PastLimit(cands, limit)
    BY <1>8, <2>1, <2>4 DEF KeysOf
  <2>6. ASSUME NEW j \in full PROVE j \in Before(cands, k) /\ cands[j] = view.docs[j]
    <3>1. j \in KeysOf(cands) /\ j \notin PastLimit(cands, limit)
      BY <1>8, <1>13
    <3>2. /\ Cardinality(Before(cands, j)) \in Nat /\ Cardinality(Before(cands, k)) \in Nat
          /\ ~ (Cardinality(Before(cands, j)) >= limit) /\ Cardinality(Before(cands, k)) >= limit
      BY <2>5, <3>1, BeforeIsFinite DEF PastLimit
    <3>3. Cardinality(Before(cands, j)) < Cardinality(Before(cands, k))
      BY <1>7, <3>2
    <3>4. j \in Before(cands, k)
      BY <1>5, <2>5, <3>1, <3>3, FewerIsEarlier
    <3>5. j \in Keys /\ view.docs[j] # NoDoc
      BY <1>13 DEF KeysOf
    <3>6. cands[j] = view.docs[j]
      BY <1>2, <3>5 DEF Candidates
    <3> QED
      BY <3>4, <3>6
  <2> SUFFICES ASSUME NEW j \in full PROVE j \in Before(more, k)
    OBVIOUS
  <2>7. last \in full
    BY <1>4, <1>13, LastKeyIsLast
  <2>8. /\ ComesAfter(k, more[k], last, view.docs[last])
        /\ ComesAfter(k, more[k], j, view.docs[j])
    BY <2>4, <2>6, <2>7 DEF Before
  <2>9. j \in KeysOf(docs) /\ j # k /\ more[j] = docs[j] /\ j \in KeysOf(more)
    <3>1. j \in KeysOf(docs)
      BY <1>14
    <3>2. more[j] = docs[j] /\ j \in Keys /\ docs[j] # NoDoc
      BY <1>15, <3>1 DEF KeysOf
    <3> QED
      BY <1>16, <3>1, <3>2 DEF KeysOf
  <2>10. /\ j \in Nat /\ k \in Nat /\ last \in Nat
         /\ more[k].val \in Nat /\ docs[j].val \in Nat /\ view.docs[j].val \in Nat
         /\ view.docs[last].val \in Nat
    <3>1. k \in Nat /\ more[k].val \in Nat
      BY <1>6, DocumentTypes
    <3>2. j \in Nat /\ docs[j].val \in Nat
      BY <1>1, <2>9, DocumentTypes
    <3>3. view.docs[j].val \in Nat /\ last \in Nat /\ view.docs[last].val \in Nat
      BY <1>4, <1>13, <2>7, DocumentTypes
    <3> QED
      BY <3>1, <3>2, <3>3
  <2>11. \/ docs[j].val = view.docs[j].val
         \/ ~ComesAfter(j, docs[j], last, view.docs[last])
    BY <1>12, <1>13
  <2>12. ComesAfter(k, more[k], j, docs[j])
    BY <2>8, <2>10, <2>11 DEF ComesAfter
  <2> QED
    BY <2>9, <2>12 DEF Before
<1>17. \A k \in KeysOf(more) : k \in KeysOf(docs) \/ full \subseteq Before(more, k)
  BY <1>16
<1> QED
  BY <1>1, <1>6, <1>7, <1>13, <1>14, <1>15, <1>17, LimitOfMore

\* A first pass that needs no refill shows the result.
LEMMA FirstPassShows ==
    ASSUME NEW c \in CacheType, NEW p \in PendingType, NEW oldCache \in CacheType,
           NEW oldPending \in PendingType, NEW q \in Queries, NEW view, NEW S,
           FirstPassGiven(view, q, S, c, p, oldCache, oldPending),
           NEW updates, updates = LocalDocs(c, p, S),
           NEW first, first = ComputeChanges(view, q, LimitOf[q], updates, Unchanged(view)),
           ~first.refill
    PROVE  ShowsResult(first.docs, c, p, q)
<1>1. PICK before : before = Unchanged(view)
  OBVIOUS
<1>2. PICK docs : docs = WithUpdates(view, q, updates, before)
  OBVIOUS
<1>3. PICK limit : limit = LimitOf[q]
  OBVIOUS
<1>4. first = ComputeChanges(view, q, limit, updates, before)
  BY <1>1, <1>3
<1>5. first.docs = [k \in Keys |-> IF k \in PastLimit(docs, limit) THEN NoDoc ELSE docs[k]]
  BY <1>2, <1>4, ComputedDocs
<1>6. /\ docs \in Documents
      /\ \A k \in KeysOf(docs) : IsFresh(docs[k], LocalResult(c, p, q, k))
  BY <1>1, <1>2, FirstPassDocs
<1>7. PICK more : more = Candidates(docs, c, p, q)
  OBVIOUS
<1>8. KeysOf(more) \ PastLimit(more, limit) = KeysOf(docs) \ PastLimit(docs, limit)
  <2>1. CASE limit = NoLimit \/ Cardinality(KeysOf(view.docs)) # limit
    BY <1>1, <1>2, <1>3, <1>7, <2>1, FirstPassNotFull
  <2>2. CASE limit # NoLimit /\ Cardinality(KeysOf(view.docs)) = limit
    <3>1. before.docs = view.docs
      BY <1>1 DEF Unchanged
    <3>2. PICK last : last = LastKey(view.docs)
      OBVIOUS
    <3>3. PICK applied : applied = AppliedKeys(view, q, updates, before)
      OBVIOUS
    <3>4. ASSUME NEW k \in applied
          PROVE  /\ TypeAt(view, q, updates, before, k) # "removed"
                 /\ TypeAt(view, q, updates, before, k) = "modified"
                        => ~ComesAfter(k, docs[k], last, view.docs[last])
      <4>1. last = LastKey(before.docs)
        BY <3>1, <3>2
      <4>2. ~ (\/ TypeAt(view, q, updates, before, k) = "removed"
               \/ /\ TypeAt(view, q, updates, before, k) = "modified"
                  /\ ComesAfter(k, Selected(q, updates[k]), last, before.docs[last]))
        BY <1>4, <2>2, <3>1, <3>3, <4>1, ComputedRefill
      <4>3. docs[k] = Selected(q, updates[k])
        <5>1. view \in ViewState /\ S \in SUBSET Keys
          BY DEF FirstPassGiven
        <5>2. before \in DocumentChanges /\ updates \in [S -> Document \cup {NoDoc}]
          BY <1>1, <5>1, UnchangedType, LocalDocsGive
        <5>3. k \in Keys
          BY <3>3, <5>1, <5>2, WithUpdatesType
        <5> QED
          BY <1>2, <3>3, <5>3 DEF WithUpdates
      <4> QED
        BY <3>1, <4>2, <4>3
    <3> QED
      BY <1>1, <1>2, <1>3, <1>7, <2>2, <3>2, <3>3, <3>4, FirstPassFull
  <2> QED
    BY <2>1, <2>2
<1> QED
  BY <1>3, <1>5, <1>6, <1>7, <1>8, LimitShows
-----------------------------------------------------------------------------
(* The new snapshot of a view.                                             *)

\* What a view is given to show: changes from its documents to the result.
IsComputed(computed, base, c, p, q) ==
    /\ computed \in DocumentChanges /\ ~computed.refill
    /\ \A k \in Keys : Tells(computed.changes[k], base[k], computed.docs[k])
    /\ ShowsResult(computed.docs, c, p, q)

\* The changes after a refill, if there is one.
LEMMA RefilledChanges ==
    ASSUME NEW c \in CacheType, NEW p \in PendingType, NEW oldCache \in CacheType,
           NEW oldPending \in PendingType, NEW q \in Queries, NEW view, NEW S,
           FirstPassGiven(view, q, S, c, p, oldCache, oldPending),
           NEW first, first = ComputeChanges(view, q, LimitOf[q], LocalDocs(c, p, S), Unchanged(view)),
           NEW computed, computed = IF first.refill
                                    THEN ComputeChanges(view, q, LimitOf[q], ExecuteQuery(c, p, q), first)
                                    ELSE first
    PROVE  IsComputed(computed, view.docs, c, p, q)
<1>1. view \in ViewState /\ S \in SUBSET Keys
  BY DEF FirstPassGiven
<1>2. PICK base \in Documents : base = view.docs
  BY <1>1 DEF ViewState
<1>3. PICK before \in DocumentChanges :
            before = Unchanged(view) /\ \A k \in Keys : Tells(before.changes[k], base[k], before.docs[k])
  BY <1>1, <1>2, UnchangedType
<1>4. PICK updates : updates = LocalDocs(c, p, S)
  OBVIOUS
<1>5. updates \in [S -> Document \cup {NoDoc}]
  BY <1>1, <1>4, LocalDocsGive
<1>6. PICK limit : limit = LimitOf[q]
  OBVIOUS
<1>7. first = ComputeChanges(view, q, limit, updates, before)
  BY <1>3, <1>4, <1>6
<1>8. first \in DocumentChanges /\ \A k \in Keys : Tells(first.changes[k], base[k], first.docs[k])
  <2>1. first \in DocumentChanges
    BY <1>1, <1>3, <1>5, <1>7, ComputedType, ZenonT(60)
  <2>2. \A k \in Keys : Tells(first.changes[k], base[k], first.docs[k])
    BY <1>1, <1>3, <1>5, <1>7, ComputedTells, ZenonT(60)
  <2> QED
    BY <2>1, <2>2
<1>9. CASE first.refill
  <2>1. PICK all : all = ExecuteQuery(c, p, q)
    OBVIOUS
  <2>2. PICK T \in SUBSET Keys : all \in [T -> Document \cup {NoDoc}]
    BY <2>1, ExecuteQueryType
  <2>3. computed = ComputeChanges(view, q, limit, all, first)
    BY <1>6, <1>9, <2>1
  <2>4. computed \in DocumentChanges /\ \A k \in Keys : Tells(computed.changes[k], base[k], computed.docs[k])
    <3>1. computed \in DocumentChanges
      BY <1>8, <2>2, <2>3, ComputedType, ZenonT(60)
    <3>2. \A k \in Keys : Tells(computed.changes[k], base[k], computed.docs[k])
      BY <1>8, <2>2, <2>3, ComputedTells, ZenonT(60)
    <3> QED
      BY <3>1, <3>2
  <2>5. \A k \in KeysOf(first.docs) : IsFresh(first.docs[k], LocalResult(c, p, q, k))
    <3>1. PICK docs : docs = WithUpdates(view, q, updates, before)
      OBVIOUS
    <3>2. \A k \in KeysOf(docs) : IsFresh(docs[k], LocalResult(c, p, q, k))
      BY <1>3, <1>4, <3>1, FirstPassDocs
    <3>3. first.docs = [k \in Keys |-> IF k \in PastLimit(docs, limit) THEN NoDoc ELSE docs[k]]
      BY <1>7, <3>1, ComputedDocs
    <3>4. \A k \in KeysOf(first.docs) : k \in KeysOf(docs) /\ first.docs[k] = docs[k]
      BY <3>3 DEF KeysOf
    <3> QED
      BY <3>2, <3>4
  <2>6. ShowsResult(computed.docs, c, p, q) /\ ~computed.refill
    <3>1. computed = ComputeChanges(view, q, LimitOf[q], all, first)
      BY <1>6, <2>3
    <3> QED
      BY <1>8, <2>1, <2>5, <3>1, QueryPass
  <2> QED
    BY <1>2, <2>4, <2>6 DEF IsComputed
<1>10. CASE ~first.refill
  <2>1. ShowsResult(first.docs, c, p, q)
    BY <1>10, FirstPassShows
  <2> QED
    BY <1>2, <1>8, <1>10, <2>1 DEF IsComputed
<1> QED
  BY <1>9, <1>10

LEMMA NewViewType ==
    ASSUME NEW keys \in SUBSET Keys
    PROVE  NewView(keys) \in ViewState
BY DEF NewView, ViewState, Documents, NoDocs

\* The changes of a new view.
LEMMA FirstChanges ==
    ASSUME NEW c \in CacheType, NEW p \in PendingType, NEW q \in Queries,
           NEW keys \in SUBSET Keys, NEW view, view = NewView(keys),
           NEW computed, computed = ComputeChanges(view, q, LimitOf[q], ExecuteQuery(c, p, q), Unchanged(view))
    PROVE  IsComputed(computed, view.docs, c, p, q)
<1>1. view \in ViewState /\ view.docs = NoDocs
  BY NewViewType DEF NewView
<1>2. PICK base \in Documents : base = view.docs
  BY <1>1 DEF ViewState
<1>3. PICK before \in DocumentChanges :
            /\ before = Unchanged(view) /\ before.docs = view.docs
            /\ \A k \in Keys : Tells(before.changes[k], base[k], before.docs[k])
  BY <1>1, <1>2, UnchangedType
<1>4. PICK limit : limit = LimitOf[q]
  OBVIOUS
<1>5. PICK all : all = ExecuteQuery(c, p, q)
  OBVIOUS
<1>6. PICK T \in SUBSET Keys : all \in [T -> Document \cup {NoDoc}]
  BY <1>5, ExecuteQueryType
<1>7. computed = ComputeChanges(view, q, limit, all, before)
  BY <1>3, <1>4, <1>5
<1>8. computed \in DocumentChanges /\ \A k \in Keys : Tells(computed.changes[k], base[k], computed.docs[k])
  <2>1. computed \in DocumentChanges
    BY <1>3, <1>6, <1>7, ComputedType, ZenonT(60)
  <2>2. \A k \in Keys : Tells(computed.changes[k], base[k], computed.docs[k])
    BY <1>3, <1>6, <1>7, ComputedTells, ZenonT(60)
  <2> QED
    BY <2>1, <2>2
<1>9. KeysOf(before.docs) = {}
  BY <1>1, <1>3 DEF KeysOf, NoDocs
<1>10. ShowsResult(computed.docs, c, p, q) /\ ~computed.refill
  <2>1. computed = ComputeChanges(view, q, LimitOf[q], all, before)
    BY <1>4, <1>7
  <2> QED
    BY <1>5, <1>9, <2>1, QueryPass
<1> QED
  BY <1>2, <1>8, <1>10 DEF IsComputed

\* A target change that the view can take.
IsTargetChange(change, view) ==
    \/ change = None
    \/ /\ change.added \in SUBSET Keys /\ change.current \in BOOLEAN
       /\ change.modified \subseteq view.synced \cup change.added

\* The step from a view to the next, with its snapshot.
ViewStep(view, next, snapshot) ==
    /\ next \in ViewState /\ next.syncState # "None"
    /\ snapshot = None => Agree(view.docs, next.docs) /\ next.syncState = view.syncState
    /\ snapshot # None =>
          /\ snapshot \in Snapshot /\ snapshot.docs = next.docs
          /\ snapshot.fromCache <=> next.syncState = "Local"
          /\ \A k \in Keys : Tells(snapshot.changes[k], view.docs[k], next.docs[k])
          /\ ~IsEmptySnapshot(snapshot)

LEMMA AppliedTargetChange ==
    ASSUME NEW view \in ViewState, NEW change, NEW base, base.synced = view.synced,
           IsTargetChange(change, base), NEW next, next = ApplyTargetChange(view, change)
    PROVE  /\ next \in ViewState /\ next.docs = view.docs /\ next.mutated = view.mutated
           /\ next.limbo = view.limbo
           /\ change = None => next.current = view.current
<1>1. CASE change = None
  BY <1>1 DEF ApplyTargetChange
<1>2. CASE change # None
  <2>1. next = [view EXCEPT !.synced = (@ \cup change.added) \ change.removed, !.current = change.current]
    BY <1>2 DEF ApplyTargetChange
  <2>2. change.added \in SUBSET Keys /\ change.current \in BOOLEAN /\ view.synced \in SUBSET Keys
    BY <1>2 DEF IsTargetChange, ViewState
  <2> QED
    BY <1>2, <2>1, <2>2 DEF ViewState
<1> QED
  BY <1>1, <1>2

LEMMA UpdatedLimbo ==
    ASSUME NEW view \in ViewState, NEW next, next = UpdateLimbo(view)
    PROVE  /\ next \in ViewState /\ next.docs = view.docs /\ next.mutated = view.mutated
           /\ next.current = view.current /\ (~view.current => next.limbo = view.limbo)
BY DEF UpdateLimbo, ViewState

\* applyChangesToDocuments.
LEMMA AppliedChanges ==
    ASSUME NEW view \in ViewState, NEW computed \in DocumentChanges, ~computed.refill,
           \A k \in Keys : Tells(computed.changes[k], view.docs[k], computed.docs[k]),
           NEW change, IsTargetChange(change, view),
           NEW r, r = ApplyChanges(view, computed, change)
    PROVE  /\ ViewStep(view, r.view, r.snapshot)
           /\ r.view.docs = computed.docs /\ r.fails = {}
           /\ change = None /\ ~view.current =>
                r.view.limbo = view.limbo /\ r.view.syncState = "Local"
<1>1. PICK changed : changed = [view EXCEPT !.docs = computed.docs, !.mutated = computed.mutated]
  OBVIOUS
<1>2. /\ computed.docs \in Documents /\ computed.mutated \in SUBSET Keys
      /\ computed.changes \in [Keys -> Changes \cup {None}]
  BY DEF DocumentChanges
<1>3. /\ changed \in ViewState /\ changed.docs = computed.docs /\ changed.mutated = computed.mutated
      /\ changed.synced = view.synced /\ changed.current = view.current /\ changed.limbo = view.limbo
  BY <1>1, <1>2 DEF ViewState
<1>4. PICK target : target = ApplyTargetChange(changed, change)
  OBVIOUS
<1>5. /\ target \in ViewState /\ target.docs = computed.docs /\ target.limbo = view.limbo
      /\ change = None => target.current = view.current
  BY <1>3, <1>4, AppliedTargetChange
<1>6. PICK limboed : limboed = UpdateLimbo(target)
  OBVIOUS
<1>7. /\ limboed \in ViewState /\ limboed.docs = computed.docs
      /\ limboed.current = target.current /\ (~target.current => limboed.limbo = target.limbo)
  BY <1>5, <1>6, UpdatedLimbo
<1>8. PICK state : state = IF limboed.limbo = {} /\ limboed.current THEN "Synced" ELSE "Local"
  OBVIOUS
<1>9. state \in {"Synced", "Local"}
  BY <1>8
<1>10. r.view = [limboed EXCEPT !.syncState = state]
  BY <1>1, <1>4, <1>6, <1>8 DEF ApplyChanges
<1>11. /\ r.view \in ViewState /\ r.view.docs = computed.docs /\ r.view.syncState = state
       /\ r.view.limbo = limboed.limbo
  BY <1>7, <1>9, <1>10 DEF ViewState
<1>12. r.snapshot = IF ~ (\E k \in Keys : computed.changes[k] # None) /\ state = view.syncState THEN None
                    ELSE [docs |-> computed.docs, mutated |-> computed.mutated,
                          changes |-> computed.changes, fromCache |-> state = "Local",
                          syncStateChanged |-> state # view.syncState]
  BY <1>1, <1>4, <1>6, <1>8 DEF ApplyChanges
<1>13. r.fails = {}
  <2>1. \A k \in Keys : computed.changes[k] = None \/ computed.changes[k].type # "bad"
    BY DEF Tells
  <2>2. change # None => change.modified \subseteq view.synced \cup change.added
    BY DEF IsTargetChange
  <2> QED
    BY <2>1, <2>2 DEF ApplyChanges, HardAssert
<1>14. CASE ~ (\E k \in Keys : computed.changes[k] # None) /\ state = view.syncState
  <2>1. r.snapshot = None
    BY <1>12, <1>14
  <2>2. Agree(view.docs, computed.docs)
    <3>1. ASSUME NEW k \in Keys PROVE Same(view.docs[k], computed.docs[k])
      BY <1>14, ViewAssumption DEF Tells
    <3> QED
      BY <3>1 DEF Agree
  <2>3. ViewStep(view, r.view, r.snapshot)
    BY <1>9, <1>11, <1>14, <2>1, <2>2 DEF ViewStep
  <2> QED
    BY <1>5, <1>7, <1>8, <1>11, <1>13, <2>3
<1>15. CASE ~ (~ (\E k \in Keys : computed.changes[k] # None) /\ state = view.syncState)
  <2>1. PICK snapshot : snapshot = r.snapshot
    OBVIOUS
  <2>2. snapshot = [docs |-> computed.docs, mutated |-> computed.mutated,
                    changes |-> computed.changes, fromCache |-> state = "Local",
                    syncStateChanged |-> state # view.syncState]
    BY <1>12, <1>15, <2>1
  <2>3. /\ snapshot \in Snapshot /\ snapshot.docs = computed.docs /\ snapshot.changes = computed.changes
        /\ snapshot.fromCache <=> state = "Local"
        /\ snapshot.syncStateChanged <=> state # view.syncState
    BY <1>2, <2>2 DEF Snapshot
  <2>4. snapshot # None
    BY <2>3, ViewAssumption
  <2>5. ~IsEmptySnapshot(snapshot)
    BY <1>15, <2>3 DEF IsEmptySnapshot
  <2>6. ViewStep(view, r.view, snapshot)
    BY <1>9, <1>11, <2>3, <2>4, <2>5 DEF ViewStep
  <2> QED
    BY <1>5, <1>7, <1>8, <1>11, <1>13, <2>1, <2>6
<1> QED
  BY <1>14, <1>15
LEMMA NewSnapshotStep ==
    ASSUME NEW c \in CacheType, NEW p \in PendingType, NEW oldCache \in CacheType,
           NEW oldPending \in PendingType, NEW q \in Queries, NEW S,
           FirstPassGiven(views[q], q, S, c, p, oldCache, oldPending),
           NEW targetChanges, NEW change, change = IF q \in DOMAIN targetChanges THEN targetChanges[q] ELSE None,
           IsTargetChange(change, views[q]),
           NEW r, r = NewSnapshot(q, c, p, S, targetChanges)
    PROVE  /\ ViewStep(views[q], r.view, r.snapshot)
           /\ ShowsResult(r.view.docs, c, p, q) /\ r.fails = {}
<1>1. PICK view \in ViewState : view = views[q]
  BY DEF FirstPassGiven
<1>2. PICK first : first = ComputeChanges(view, q, LimitOf[q], LocalDocs(c, p, S), Unchanged(view))
  OBVIOUS
<1>3. PICK computed : computed = IF first.refill
                                 THEN ComputeChanges(view, q, LimitOf[q], ExecuteQuery(c, p, q), first)
                                 ELSE first
  OBVIOUS
<1>4. FirstPassGiven(view, q, S, c, p, oldCache, oldPending) /\ IsTargetChange(change, view)
  BY <1>1
<1>5. IsComputed(computed, view.docs, c, p, q)
  BY <1>2, <1>3, <1>4, RefilledChanges
<1>6. r = ApplyChanges(view, computed, change)
  BY <1>1, <1>2, <1>3 DEF NewSnapshot
<1>7. /\ computed \in DocumentChanges /\ ~computed.refill
      /\ \A k \in Keys : Tells(computed.changes[k], view.docs[k], computed.docs[k])
      /\ ShowsResult(computed.docs, c, p, q)
  BY <1>5 DEF IsComputed
<1>8. /\ ViewStep(view, r.view, r.snapshot)
      /\ r.view.docs = computed.docs /\ r.fails = {}
  BY <1>4, <1>6, <1>7, AppliedChanges
<1> QED
  BY <1>1, <1>7, <1>8

\* applyChangedOnlineState of a view.
LEMMA OnlineStep ==
    ASSUME NEW view \in ViewState, view.syncState # "None", NEW state,
           NEW r, r = ApplyOnlineState(view, state)
    PROVE  /\ ViewStep(view, r.view, r.snapshot)
           /\ r.view.docs = view.docs /\ r.view.limbo = view.limbo /\ r.fails = {}
<1>1. CASE view.current /\ state = "Offline"
  <2>1. PICK left : left = [view EXCEPT !.current = FALSE]
    OBVIOUS
  <2>2. /\ left \in ViewState /\ left.docs = view.docs /\ left.syncState = view.syncState
        /\ ~left.current /\ left.limbo = view.limbo
    BY <2>1 DEF ViewState
  <2>3. PICK computed \in DocumentChanges :
            /\ computed = Unchanged(view) /\ computed.docs = view.docs
            /\ \A k \in Keys : Tells(computed.changes[k], view.docs[k], computed.docs[k])
    BY UnchangedType
  <2>4. ~computed.refill
    BY <2>3 DEF Unchanged
  <2>5. r = ApplyChanges(left, computed, None)
    BY <1>1, <2>1, <2>3 DEF ApplyOnlineState
  <2>6. \A k \in Keys : Tells(computed.changes[k], left.docs[k], computed.docs[k])
    BY <2>2, <2>3
  <2>7. /\ ViewStep(left, r.view, r.snapshot)
        /\ r.view.docs = computed.docs /\ r.fails = {} /\ r.view.limbo = left.limbo
    BY <2>2, <2>4, <2>5, <2>6, AppliedChanges DEF IsTargetChange
  <2>8. ViewStep(view, r.view, r.snapshot)
    BY <2>2, <2>7 DEF ViewStep
  <2> QED
    BY <2>2, <2>3, <2>7, <2>8
<1>2. CASE ~ (view.current /\ state = "Offline")
  <2>1. r = [view |-> view, snapshot |-> None, fails |-> {}]
    BY <1>2 DEF ApplyOnlineState
  <2>2. Agree(view.docs, view.docs)
    BY DEF Agree, Same
  <2> QED
    BY <2>1, <2>2 DEF ViewStep
<1> QED
  BY <1>1, <1>2

-----------------------------------------------------------------------------
(* Listeners.                                                              *)

LEMMA AgreeIsTransitive ==
    ASSUME NEW docs1, NEW docs2, NEW docs3, Agree(docs1, docs2), Agree(docs2, docs3)
    PROVE  Agree(docs1, docs3)
BY DEF Agree, Same

LEMMA AgreeIsReflexive ==
    ASSUME NEW docs
    PROVE  Agree(docs, docs)
BY DEF Agree, Same

\* Who hears the changes of a snapshot, with or without metadata, has its documents.
LEMMA HearChanges ==
    ASSUME NEW heard \in Documents, NEW base, NEW docs \in Documents, Agree(heard, base),
           NEW given, \A k \in Keys : Tells(given[k], base[k], docs[k]),
           NEW changes, \A k \in Keys : changes[k] = given[k]
                            \/ (changes[k] = None /\ given[k] # None /\ given[k].type = "metadata"),
           NEW now, now = [k \in Keys |-> IF changes[k] = None THEN heard[k]
                                          ELSE IF changes[k].type = "removed" THEN NoDoc
                                          ELSE changes[k].doc]
    PROVE  now \in Documents /\ Agree(now, docs)
<1>1. ASSUME NEW k \in Keys PROVE now[k] \in Document \cup {NoDoc} /\ Same(now[k], docs[k])
  <2>1. /\ now[k] = IF changes[k] = None THEN heard[k]
                    ELSE IF changes[k].type = "removed" THEN NoDoc ELSE changes[k].doc
        /\ Same(heard[k], base[k]) /\ Tells(given[k], base[k], docs[k])
        /\ heard[k] \in Document \cup {NoDoc} /\ docs[k] \in Document \cup {NoDoc}
    BY DEF Agree, Documents
  <2>2. CASE changes[k] = None
    <3>1. Same(base[k], docs[k])
      <4>1. CASE given[k] = None
        BY <2>1, <4>1, ViewAssumption DEF Tells
      <4>2. CASE given[k] # None
        <5>1. given[k].type = "metadata"
          BY <2>2, <4>2
        <5> QED
          BY <2>1, <4>2, <5>1 DEF Tells, Same
      <4> QED
        BY <4>1, <4>2
    <3> QED
      BY <2>1, <2>2, <3>1 DEF Same
  <2>3. CASE changes[k] # None
    <3>1. changes[k] = given[k] /\ given[k] \in Changes
      BY <2>1, <2>3 DEF Tells
    <3>2. given[k].doc \in Document /\ given[k].doc # NoDoc
      BY <3>1, ViewAssumption DEF Changes
    <3>3. CASE given[k].type = "removed"
      BY <2>1, <2>3, <3>1, <3>3, ViewAssumption DEF Tells, Same
    <3>4. CASE given[k].type # "removed"
      <4>1. now[k] = given[k].doc
        BY <2>1, <2>3, <3>1, <3>4
      <4>2. docs[k] # NoDoc /\ given[k].doc.val = docs[k].val
        BY <2>1, <2>3, <3>1, <3>4, ViewAssumption DEF Tells
      <4> QED
        BY <3>2, <4>1, <4>2 DEF Same
    <3> QED
      BY <3>3, <3>4
  <2> QED
    BY <2>2, <2>3
<1> QED
  BY <1>1 DEF Documents, Agree

LEMMA WithoutMetadataType ==
    ASSUME NEW listener, NEW given \in Snapshot, NEW snapshot, snapshot = WithoutMetadata(listener, given)
    PROVE  /\ snapshot \in Snapshot /\ snapshot.docs = given.docs /\ snapshot.fromCache = given.fromCache
           /\ \A k \in Keys : snapshot.changes[k] = given.changes[k]
                \/ (snapshot.changes[k] = None /\ given.changes[k] # None /\ given.changes[k].type = "metadata")
<1>1. CASE listener.options.documentMetadata
  BY <1>1 DEF WithoutMetadata
<1>2. CASE ~listener.options.documentMetadata
  <2>1. PICK changes : changes = [k \in Keys |-> IF given.changes[k] # None /\ given.changes[k].type = "metadata"
                                                 THEN None ELSE given.changes[k]]
    OBVIOUS
  <2>2. snapshot = [given EXCEPT !.changes = changes]
    BY <1>2, <2>1 DEF WithoutMetadata
  <2>3. changes \in [Keys -> Changes \cup {None}]
    BY <2>1 DEF Snapshot
  <2> QED
    BY <2>1, <2>2, <2>3 DEF Snapshot
<1> QED
  BY <1>1, <1>2

\* OnViewSnapshot: a listener that is told of a snapshot of the view has it.
LEMMA ToldListener ==
    ASSUME NEW listener \in Listener, NEW state, listener.online = state,
           NEW given, NEW view \in ViewState, IsSnapshotOf(given, view),
           NEW base, listener.raised =>
                /\ Agree(listener.heard, base)
                /\ \A k \in Keys : Tells(given.changes[k], base[k], view.docs[k]),
           NEW next, next = OnViewSnapshot(listener, given)
    PROVE  /\ next \in Listener /\ next.query = listener.query
           /\ ListenerOK(next, view, state)
<1>1. PICK snapshot : snapshot = WithoutMetadata(listener, given)
  OBVIOUS
<1>2. given \in Snapshot /\ Agree(given.docs, view.docs) /\ (given.fromCache <=> view.syncState = "Local")
  BY DEF IsSnapshotOf
<1>3. /\ snapshot \in Snapshot /\ snapshot.docs = given.docs /\ snapshot.fromCache = given.fromCache
      /\ \A k \in Keys : snapshot.changes[k] = given.changes[k]
            \/ (snapshot.changes[k] = None /\ given.changes[k] # None /\ given.changes[k].type = "metadata")
  BY <1>1, <1>2, WithoutMetadataType
<1>4. IsSnapshotOf(snapshot, view)
  BY <1>2, <1>3 DEF IsSnapshotOf
<1>5. /\ snapshot.docs \in Documents /\ snapshot.fromCache \in BOOLEAN /\ view.docs \in Documents
      /\ listener.heard \in Documents /\ listener.raised \in BOOLEAN
  BY <1>3 DEF Snapshot, ViewState, Listener
<1>6. CASE ~listener.raised /\ ShouldRaiseInitialEvent(listener, snapshot, listener.online)
  <2>1. next = [RaiseInitialEvent(listener, snapshot) EXCEPT !.snapshot = snapshot]
    BY <1>1, <1>6 DEF OnViewSnapshot
  <2>2. /\ next \in Listener /\ next.raised /\ next.heard = snapshot.docs /\ next.online = listener.online
        /\ next.snapshot = snapshot /\ next.query = listener.query
    <3>1. PICK fromCache : fromCache = snapshot.fromCache
      OBVIOUS
    <3>2. PICK docs : docs = snapshot.docs
      OBVIOUS
    <3>3. /\ listener \in Listener /\ snapshot \in Snapshot /\ docs \in Documents /\ fromCache \in BOOLEAN
          /\ next = [[listener EXCEPT !.raised = TRUE, !.heard = docs, !.fromCache = fromCache]
                        EXCEPT !.snapshot = snapshot]
      BY <1>3, <1>5, <2>1, <3>1, <3>2 DEF RaiseInitialEvent
    <3>4. /\ next \in Listener /\ next.raised /\ next.heard = docs /\ next.online = listener.online
          /\ next.snapshot = snapshot /\ next.query = listener.query
      BY ONLY <3>3 DEF Listener
    <3> QED
      BY <3>2, <3>4
  <2> QED
    BY <1>2, <1>3, <1>4, <2>2 DEF ListenerOK
<1>7. CASE listener.raised /\ ShouldRaiseEvent(listener, snapshot)
  <2>1. next = [OnEvent(listener, snapshot) EXCEPT !.snapshot = snapshot]
    BY <1>1, <1>7 DEF OnViewSnapshot
  <2>2. PICK now : now = [k \in Keys |-> IF snapshot.changes[k] = None THEN listener.heard[k]
                                         ELSE IF snapshot.changes[k].type = "removed" THEN NoDoc
                                         ELSE snapshot.changes[k].doc]
    OBVIOUS
  <2>3. now \in Documents /\ Agree(now, view.docs)
    <3>1. PICK heard \in Documents : heard = listener.heard
      BY <1>5
    <3>2. PICK changes : changes = snapshot.changes
      OBVIOUS
    <3>3. PICK docs \in Documents : docs = view.docs
      BY <1>5
    <3>4. PICK all : all = given.changes
      OBVIOUS
    <3>5. /\ \A k \in Keys : Tells(all[k], base[k], docs[k])
          /\ \A k \in Keys : changes[k] = all[k]
                \/ (changes[k] = None /\ all[k] # None /\ all[k].type = "metadata")
          /\ now = [k \in Keys |-> IF changes[k] = None THEN heard[k]
                                   ELSE IF changes[k].type = "removed" THEN NoDoc ELSE changes[k].doc]
          /\ Agree(heard, base)
      BY <1>3, <1>7, <2>2, <3>1, <3>2, <3>3, <3>4
    <3> QED
      BY <3>3, <3>5, HearChanges
  <2>4. OnEvent(listener, snapshot) = [listener EXCEPT !.heard = now, !.fromCache = snapshot.fromCache]
    BY <2>2 DEF OnEvent
  <2>5. next = [listener EXCEPT !.heard = now, !.fromCache = snapshot.fromCache, !.snapshot = snapshot]
    BY <2>1, <2>4
  <2>6. /\ next \in Listener /\ next.raised = listener.raised /\ next.heard = now
        /\ next.online = listener.online /\ next.snapshot = snapshot /\ next.query = listener.query
    <3>1. PICK fromCache : fromCache = snapshot.fromCache
      OBVIOUS
    <3>2. /\ listener \in Listener /\ snapshot \in Snapshot /\ now \in Documents /\ fromCache \in BOOLEAN
          /\ next = [listener EXCEPT !.heard = now, !.fromCache = fromCache, !.snapshot = snapshot]
      BY <1>3, <1>5, <2>3, <2>5, <3>1
    <3> QED
      BY ONLY <3>2 DEF Listener
  <2> QED
    BY <1>4, <1>7, <2>3, <2>6 DEF ListenerOK
<1>8. CASE /\ ~ (~listener.raised /\ ShouldRaiseInitialEvent(listener, snapshot, listener.online))
           /\ ~ (listener.raised /\ ShouldRaiseEvent(listener, snapshot))
  <2>1. next = [listener EXCEPT !.snapshot = snapshot]
    BY <1>1, <1>8 DEF OnViewSnapshot
  <2>2. /\ next \in Listener /\ next.raised = listener.raised /\ next.heard = listener.heard
        /\ next.online = listener.online /\ next.options = listener.options
        /\ next.snapshot = snapshot /\ next.query = listener.query
    BY <1>3, <2>1 DEF Listener
  <2>3. CASE ~listener.raised
    <3>1. ~ShouldRaiseInitialEvent(next, snapshot, state)
      BY <1>8, <2>2, <2>3 DEF ShouldRaiseInitialEvent
    <3> QED
      BY <1>4, <2>2, <2>3, <3>1 DEF ListenerOK
  <2>4. CASE listener.raised
    <3>1. \A k \in Keys : snapshot.changes[k] = None
      BY <1>8, <2>4 DEF ShouldRaiseEvent
    <3>2. ASSUME NEW k \in Keys PROVE Same(base[k], view.docs[k])
      <4>1. given.changes[k] = None \/ (given.changes[k] # None /\ given.changes[k].type = "metadata")
        BY <1>3, <3>1
      <4>2. Tells(given.changes[k], base[k], view.docs[k])
        BY <2>4
      <4> QED
        BY <4>1, <4>2, ViewAssumption DEF Tells, Same
    <3>3. Agree(listener.heard, view.docs)
      BY <2>4, <3>2 DEF Agree, Same
    <3> QED
      BY <1>4, <2>2, <2>4, <3>3 DEF ListenerOK
  <2> QED
    BY <2>3, <2>4
<1> QED
  BY <1>6, <1>7, <1>8
\* A listener of a view that makes a step.
LEMMA StepListener ==
    ASSUME NEW listener \in Listener, NEW state, NEW view, NEW next, NEW snapshot,
           ListenerOK(listener, view, state), ViewStep(view, next, snapshot),
           NEW told, told = IF snapshot # None THEN OnViewSnapshot(listener, snapshot) ELSE listener
    PROVE  told \in Listener /\ told.query = listener.query /\ ListenerOK(told, next, state)
<1>1. CASE snapshot = None
  <2>1. told = listener
    BY <1>1
  <2>2. Agree(view.docs, next.docs) /\ next.syncState = view.syncState
    BY <1>1 DEF ViewStep
  <2>3. IsSnapshotOf(listener.snapshot, next)
    BY <2>2, AgreeIsTransitive DEF ListenerOK, IsSnapshotOf
  <2>4. listener.raised => Agree(listener.heard, next.docs)
    BY <2>2, AgreeIsTransitive DEF ListenerOK
  <2> QED
    BY <2>1, <2>3, <2>4 DEF ListenerOK
<1>2. CASE snapshot # None
  <2>1. /\ next \in ViewState /\ snapshot \in Snapshot /\ snapshot.docs = next.docs
        /\ snapshot.fromCache <=> next.syncState = "Local"
    BY <1>2 DEF ViewStep
  <2>2. PICK base : base = view.docs
    OBVIOUS
  <2>3. \A k \in Keys : Tells(snapshot.changes[k], base[k], next.docs[k])
    BY <1>2, <2>2 DEF ViewStep
  <2>4. IsSnapshotOf(snapshot, next)
    BY <2>1, AgreeIsReflexive DEF IsSnapshotOf
  <2>5. listener.online = state /\ (listener.raised => Agree(listener.heard, base))
    BY <2>2 DEF ListenerOK
  <2>6. told = OnViewSnapshot(listener, snapshot)
    BY <1>2
  <2> QED
    BY <2>1, <2>3, <2>4, <2>5, <2>6, ToldListener
<1> QED
  BY <1>1, <1>2

\* OnOnlineStateChanged.
LEMMA OnlineListener ==
    ASSUME NEW listener \in Listener, NEW state \in OnlineStates, NEW view, NEW old,
           ListenerOK(listener, view, old),
           NEW next, next = OnOnlineStateChanged(listener, state)
    PROVE  next \in Listener /\ next.query = listener.query /\ ListenerOK(next, view, state)
<1>1. PICK changed : changed = [listener EXCEPT !.online = state]
  OBVIOUS
<1>2. /\ changed \in Listener /\ changed.query = listener.query /\ changed.online = state
      /\ changed.snapshot = listener.snapshot /\ changed.raised = listener.raised
      /\ changed.heard = listener.heard /\ changed.options = listener.options
  BY <1>1 DEF Listener
<1>3. IsSnapshotOf(changed.snapshot, view) /\ (changed.raised => Agree(changed.heard, view.docs))
  BY <1>2 DEF ListenerOK
<1>4. PICK snapshot \in Snapshot : snapshot = changed.snapshot
  BY <1>3 DEF IsSnapshotOf
<1>5. snapshot # None /\ snapshot.docs \in Documents /\ snapshot.fromCache \in BOOLEAN
  BY ViewAssumption DEF Snapshot
<1>6. CASE ~changed.raised /\ ShouldRaiseInitialEvent(changed, snapshot, state)
  <2>1. next = RaiseInitialEvent(changed, snapshot)
    BY <1>1, <1>4, <1>5, <1>6 DEF OnOnlineStateChanged
  <2>2. /\ next \in Listener /\ next.query = changed.query /\ next.online = changed.online
        /\ next.snapshot = changed.snapshot /\ next.raised /\ next.heard = snapshot.docs
    BY <1>2, <1>5, <2>1 DEF RaiseInitialEvent, Listener
  <2>3. Agree(snapshot.docs, view.docs)
    BY <1>3, <1>4 DEF IsSnapshotOf
  <2> QED
    BY <1>2, <1>3, <2>2, <2>3 DEF ListenerOK
<1>7. CASE ~ (~changed.raised /\ ShouldRaiseInitialEvent(changed, snapshot, state))
  <2>1. next = changed
    BY <1>1, <1>4, <1>7 DEF OnOnlineStateChanged
  <2> QED
    BY <1>2, <1>3, <1>4, <1>7, <2>1 DEF ListenerOK
<1> QED
  BY <1>6, <1>7

\* A listener before it is told of anything.
LEMMA FirstListener ==
    ASSUME NEW q \in Queries, NEW options \in Options, NEW state \in OnlineStates,
           NEW new, new = OnOnlineStateChanged(NewListener(q, options), state)
    PROVE  new \in Listener /\ new.query = q /\ ~new.raised /\ new.online = state
<1>1. PICK first : first = NewListener(q, options)
  OBVIOUS
<1>2. first \in Listener /\ first.query = q /\ ~first.raised /\ first.snapshot = None
  BY <1>1 DEF NewListener, Listener, Documents, NoDocs, OnlineStates
<1>3. new = [first EXCEPT !.online = state]
  BY <1>1, <1>2 DEF OnOnlineStateChanged
<1> QED
  BY <1>2, <1>3 DEF Listener

-----------------------------------------------------------------------------
(* A step of all views.                                                    *)

\* The views make a step, each with its snapshot or without one.
ViewsStep(next, shots) ==
    /\ next \in [Queries -> ViewState \cup {None}]
    /\ DOMAIN shots = Active
    /\ \A q \in Queries : IF q \in Active THEN next[q] # None /\ ViewStep(views[q], next[q], shots[q])
                          ELSE next[q] = None

LEMMA ToldListeners ==
    ASSUME TypeOK, EventsInv, NEW next, NEW shots, ViewsStep(next, shots),
           NEW l \in Listeners, listeners[l] # None, NEW told, told = Told(listeners, shots)[l]
    PROVE  /\ told \in Listener /\ told # None /\ told.query = listeners[l].query
           /\ ListenerOK(told, next[told.query], online)
<1>1. PICK listener \in Listener : listener = listeners[l]
  BY DEF TypeOK
<1>2. PICK q \in Queries : q = listener.query
  BY DEF Listener
<1>3. ListenerOK(listener, views[q], online) /\ QueryOK(q)
  BY <1>1, <1>2 DEF EventsInv
<1>4. views[q] # None
  <2>1. IsTracked(listeners, q)
    BY <1>1, <1>2 DEF IsTracked
  <2> QED
    BY <1>3, <2>1 DEF QueryOK
<1>5. q \in Active
  BY <1>4 DEF Active
<1>6. DOMAIN shots = Active /\ ViewStep(views[q], next[q], shots[q])
  BY <1>5 DEF ViewsStep
<1>7. PICK snapshot : snapshot = shots[q]
  OBVIOUS
<1>8. told = IF snapshot # None THEN OnViewSnapshot(listener, snapshot) ELSE listener
  BY <1>1, <1>2, <1>5, <1>6, <1>7 DEF Told, IsShown
<1>9. told \in Listener /\ told.query = listener.query /\ ListenerOK(told, next[q], online)
  BY <1>3, <1>6, <1>7, <1>8, StepListener
<1> QED
  BY <1>1, <1>2, <1>9, SyncEngineAssumption

LEMMA ShownSnapshots ==
    ASSUME TypeOK, EventsInv, NEW next, NEW shots, ViewsStep(next, shots), NEW q \in Queries,
           NEW shown, shown = Shown(listeners, shots)[q]
    PROVE  /\ next[q] = None => shown = None
           /\ next[q] # None => /\ views[q] # None /\ next[q].syncState # "None"
                                /\ shown \in Snapshot
                                /\ IsSnapshotOf(shown, next[q]) /\ ~IsEmptySnapshot(shown)
<1>1. QueryOK(q) /\ DOMAIN shots = Active
  BY DEF EventsInv, ViewsStep
<1>2. CASE q \notin Active
  <2>1. views[q] = None /\ next[q] = None
    BY <1>2 DEF Active, ViewsStep
  <2>2. shown = snapshots[q]
    BY <1>1, <1>2 DEF Shown, IsShown
  <2> QED
    BY <1>1, <2>1, <2>2 DEF QueryOK
<1>3. CASE q \in Active
  <2>1. views[q] # None /\ next[q] # None /\ ViewStep(views[q], next[q], shots[q])
    BY <1>3 DEF Active, ViewsStep
  <2>2. IsTracked(listeners, q) /\ IsSnapshotOf(snapshots[q], views[q]) /\ ~IsEmptySnapshot(snapshots[q])
    BY <1>1, <2>1 DEF QueryOK
  <2>3. shown = IF shots[q] # None THEN shots[q] ELSE snapshots[q]
    BY <1>1, <1>3, <2>2 DEF Shown, IsShown
  <2>4. next[q].syncState # "None"
    BY <2>1 DEF ViewStep
  <2>5. CASE shots[q] = None
    <3>1. Agree(views[q].docs, next[q].docs) /\ next[q].syncState = views[q].syncState
      BY <2>1, <2>5 DEF ViewStep
    <3>2. IsSnapshotOf(shown, next[q])
      BY <2>2, <2>3, <2>5, <3>1, AgreeIsTransitive DEF IsSnapshotOf
    <3> QED
      BY <2>1, <2>2, <2>3, <2>4, <2>5, <3>2 DEF IsSnapshotOf
  <2>6. CASE shots[q] # None
    <3>1. /\ shots[q] \in Snapshot /\ shots[q].docs = next[q].docs
          /\ shots[q].fromCache <=> next[q].syncState = "Local"
          /\ ~IsEmptySnapshot(shots[q])
      BY <2>1, <2>6 DEF ViewStep
    <3>2. IsSnapshotOf(shots[q], next[q])
      BY <3>1, AgreeIsReflexive DEF IsSnapshotOf
    <3> QED
      BY <2>1, <2>3, <2>4, <2>6, <3>1, <3>2
  <2> QED
    BY <2>5, <2>6
<1> QED
  BY <1>2, <1>3

LEMMA NoShowFails ==
    ASSUME NEW ls, NEW shots, \A q \in DOMAIN shots : shots[q] # None => ~IsEmptySnapshot(shots[q])
    PROVE  ShowFails(ls, shots) = {}
BY DEF ShowFails, IsShown, HardAssert
-----------------------------------------------------------------------------
(* The books of limbo resolution.                                          *)

\* The books as a record whose limbo targets are watched, without a failure.
TargetsOK(b) ==
    /\ b = [limboTargets |-> b.limboTargets, resolutions |-> b.resolutions, limboRefs |-> b.limboRefs,
            watched |-> b.watched, caughtUp |-> b.caughtUp, failed |-> b.failed]
    /\ b.limboTargets \in SUBSET Keys
    /\ b.resolutions \in [b.limboTargets -> BOOLEAN]
    /\ b.limboTargets = b.watched \cap Keys
    /\ b.caughtUp \subseteq b.watched
    /\ b.failed = {}

\* The references of the limbo documents of views.
LimboOf(vs) == {r \in Keys \X Queries : vs[r[2]] # None /\ r[1] \in vs[r[2]].limbo}

\* The books agree with views.
BooksOK(b, vs) ==
    /\ TargetsOK(b)
    /\ b.watched \cap Queries = {q \in Queries : vs[q] # None}
    /\ \A k \in b.limboTargets : \E q \in Queries : <<k, q>> \in b.limboRefs
    /\ b.limboRefs = LimboOf(vs)

LEMMA BooksAgree ==
    ASSUME BooksInv, NoHardAssertFails
    PROVE  BooksOK(Books, views)
<1>1. TargetsOK(Books)
  BY DEF Books, TargetsOK, BooksInv, LimboBooksAgree, NoHardAssertFails
<1> QED
  BY <1>1 DEF BooksOK, Books, LimboOf, BooksInv, LimboBooksAgree

LEMMA KeptBooks ==
    ASSUME NEW b, BooksOK(b, views'), KeepBooks(b)
    PROVE  BooksInv' /\ NoHardAssertFails'
<1>1. /\ limboTargets' = b.limboTargets /\ resolutions' = b.resolutions /\ limboRefs' = b.limboRefs
      /\ watched' = b.watched /\ caughtUp' = b.caughtUp /\ failed' = b.failed
  BY DEF KeepBooks
<1>2. NoHardAssertFails'
  BY <1>1 DEF BooksOK, TargetsOK, NoHardAssertFails
<1>3. /\ limboTargets' \in SUBSET Keys /\ resolutions' \in [limboTargets' -> BOOLEAN]
      /\ caughtUp' \subseteq watched' /\ limboTargets' = watched' \cap Keys
  BY <1>1 DEF BooksOK, TargetsOK
<1>4. limboTargets' = DOMAIN resolutions'
  BY <1>3
<1>5. LimboBooksAgree'
  BY <1>1, <1>3, <1>4 DEF BooksOK, LimboBooksAgree, LimboOf
<1> QED
  BY <1>2, <1>3, <1>5 DEF BooksInv

LEMMA NothingFails ==
    ASSUME NEW b, TargetsOK(b), NEW fails, fails = {}
    PROVE  Fail(b, fails) = b
BY DEF TargetsOK, Fail

LEMMA OtherReferences ==
    ASSUME NEW b, TargetsOK(b), NEW refs, NEW r, r = [b EXCEPT !.limboRefs = refs]
    PROVE  /\ TargetsOK(r) /\ r.limboRefs = refs /\ r.watched = b.watched
           /\ r.limboTargets = b.limboTargets
BY DEF TargetsOK

\* The books without limbo targets.
WithoutTargets(b, ended) ==
    [Unwatch(b, ended) EXCEPT !.limboTargets = @ \ ended,
                              !.resolutions = [k \in DOMAIN @ \ ended |-> @[k]]]

LEMMA FewerTargets ==
    ASSUME NEW b, TargetsOK(b), NEW ended, ended \subseteq Keys,
           NEW r, r = WithoutTargets(b, ended)
    PROVE  /\ TargetsOK(r) /\ r.limboRefs = b.limboRefs
           /\ r.limboTargets = b.limboTargets \ ended
           /\ r.watched \cap Queries = b.watched \cap Queries
<1> DEFINE left == [k \in DOMAIN b.resolutions \ ended |-> b.resolutions[k]]
<1>1. r = [limboTargets |-> b.limboTargets \ ended, resolutions |-> left,
           limboRefs |-> b.limboRefs, watched |-> b.watched \ ended,
           caughtUp |-> b.caughtUp \ ended, failed |-> b.failed]
  BY DEF WithoutTargets, Unwatch, TargetsOK
<1> HIDE DEF left
<1>2. /\ r.limboTargets = b.limboTargets \ ended /\ r.resolutions = left
      /\ r.limboRefs = b.limboRefs /\ r.watched = b.watched \ ended
      /\ r.caughtUp = b.caughtUp \ ended /\ r.failed = b.failed
  BY <1>1
<1>3. r.resolutions \in [r.limboTargets -> BOOLEAN]
  BY <1>2 DEF TargetsOK, left
<1>4. r.watched \cap Queries = b.watched \cap Queries
  BY <1>2, SyncEngineAssumption
<1>5. TargetsOK(r)
  BY <1>1, <1>2, <1>3 DEF TargetsOK
<1> QED
  BY <1>2, <1>4, <1>5

LEMMA RemovedLimboTargets ==
    ASSUME NEW b, TargetsOK(b), NEW keys, NEW r, r = RemoveLimboTargets(b, keys)
    PROVE  /\ TargetsOK(r) /\ r.limboRefs = b.limboRefs
           /\ r.limboTargets = b.limboTargets \ keys
           /\ r.watched \cap Queries = b.watched \cap Queries
<1>1. PICK ended : ended = keys \cap b.limboTargets
  OBVIOUS
<1>2. ended \subseteq Keys /\ ended \subseteq b.watched /\ b.limboTargets \ ended = b.limboTargets \ keys
  BY <1>1 DEF TargetsOK
<1>3. PICK fewer : fewer = WithoutTargets(b, ended)
  OBVIOUS
<1>4. /\ TargetsOK(fewer) /\ fewer.limboRefs = b.limboRefs
      /\ fewer.limboTargets = b.limboTargets \ ended
      /\ fewer.watched \cap Queries = b.watched \cap Queries
  BY <1>2, <1>3, FewerTargets
<1>5. HardAssert(ended \subseteq b.watched, "StopListening: target not watched") = {}
  BY <1>2 DEF HardAssert
<1>6. r = Fail(fewer, {})
  BY <1>1, <1>3, <1>5 DEF RemoveLimboTargets, WithoutTargets
<1> QED
  BY <1>2, <1>4, <1>6, NothingFails

LEMMA TrackedLimboChanges ==
    ASSUME NEW b, TargetsOK(b), NEW keys \in SUBSET Keys, NEW r, r = TrackLimboChanges(b, keys)
    PROVE  /\ TargetsOK(r) /\ r.limboRefs = b.limboRefs
           /\ r.limboTargets = b.limboTargets \cup keys
           /\ r.watched \cap Queries = b.watched \cap Queries
<1>1. PICK fresh : fresh = keys \ b.limboTargets
  OBVIOUS
<1>2. fresh \subseteq Keys /\ fresh \cap b.watched = {} /\ b.limboTargets \cup fresh = b.limboTargets \cup keys
  BY <1>1 DEF TargetsOK
<1>3. PICK listened : listened =
            [b EXCEPT !.watched = @ \cup fresh, !.limboTargets = @ \cup fresh,
                      !.resolutions = [k \in DOMAIN @ \cup fresh |-> IF k \in fresh THEN FALSE ELSE @[k]]]
  OBVIOUS
<1>4. listened = [limboTargets |-> b.limboTargets \cup fresh,
                  resolutions |-> [k \in DOMAIN b.resolutions \cup fresh |->
                                        IF k \in fresh THEN FALSE ELSE b.resolutions[k]],
                  limboRefs |-> b.limboRefs, watched |-> b.watched \cup fresh,
                  caughtUp |-> b.caughtUp, failed |-> b.failed]
  BY <1>3 DEF TargetsOK
<1>5. /\ listened.limboTargets = b.limboTargets \cup fresh
      /\ listened.resolutions = [k \in DOMAIN b.resolutions \cup fresh |->
                                        IF k \in fresh THEN FALSE ELSE b.resolutions[k]]
      /\ listened.limboRefs = b.limboRefs /\ listened.watched = b.watched \cup fresh
      /\ listened.caughtUp = b.caughtUp /\ listened.failed = b.failed
  BY <1>4
<1>6. listened.resolutions \in [listened.limboTargets -> BOOLEAN]
  BY <1>5 DEF TargetsOK
<1>7. listened.watched \cap Queries = b.watched \cap Queries
  BY <1>2, <1>5, SyncEngineAssumption
<1>8. TargetsOK(listened)
  BY <1>2, <1>4, <1>5, <1>6 DEF TargetsOK
<1>9. HardAssert(fresh \cap b.watched = {}, "Listen: duplicate target") = {}
  BY <1>2 DEF HardAssert
<1>10. r = Fail(listened, {})
  BY <1>1, <1>3, <1>9 DEF TrackLimboChanges, Listen
<1> QED
  BY <1>2, <1>5, <1>7, <1>8, <1>10, NothingFails

\* updateTrackedLimboDocumentsWithChanges for the views that make a step.
LEMMA UpdatedTrackedLimbo ==
    ASSUME NEW vs, NEW next, NEW b, BooksOK(b, vs),
           \A q \in Queries : next[q] = None <=> vs[q] = None,
           NEW released, released = {r \in Keys \X Queries : vs[r[2]] # None
                                        /\ r[1] \in vs[r[2]].limbo \ next[r[2]].limbo},
           NEW requested, requested = {r \in Keys \X Queries : vs[r[2]] # None
                                        /\ r[1] \in next[r[2]].limbo \ vs[r[2]].limbo},
           NEW order, NEW orphans, orphans = Orphans(b.limboRefs \ released, released, requested, order),
           NEW new, new = UpdateTrackedLimbo(b, released, requested, orphans)
    PROVE  BooksOK(new, next)
<1>1. /\ TargetsOK(b) /\ b.limboRefs = LimboOf(vs)
      /\ b.watched \cap Queries = {q \in Queries : vs[q] # None}
      /\ \A k \in b.limboTargets : \E q \in Queries : <<k, q>> \in b.limboRefs
  BY DEF BooksOK
<1>2. PICK refs : refs = (b.limboRefs \ released) \cup requested
  OBVIOUS
<1>3. refs = LimboOf(next)
  <2>1. ASSUME NEW r \in Keys \X Queries PROVE r \in refs <=> r \in LimboOf(next)
    <3>1. r[1] \in Keys /\ r[2] \in Queries /\ (next[r[2]] = None <=> vs[r[2]] = None)
      OBVIOUS
    <3>2. /\ (r \in LimboOf(next) <=> next[r[2]] # None /\ r[1] \in next[r[2]].limbo)
          /\ (r \in LimboOf(vs) <=> vs[r[2]] # None /\ r[1] \in vs[r[2]].limbo)
          /\ (r \in released <=> vs[r[2]] # None /\ r[1] \in vs[r[2]].limbo /\ r[1] \notin next[r[2]].limbo)
          /\ (r \in requested <=> vs[r[2]] # None /\ r[1] \in next[r[2]].limbo /\ r[1] \notin vs[r[2]].limbo)
      BY DEF LimboOf
    <3>3. r \in refs <=> (r \in LimboOf(vs) /\ r \notin released) \/ r \in requested
      BY <1>1, <1>2
    <3> QED
      BY <3>1, <3>2, <3>3
  <2>2. refs \subseteq Keys \X Queries /\ LimboOf(next) \subseteq Keys \X Queries
    BY <1>1, <1>2 DEF LimboOf
  <2> QED
    BY <2>1, <2>2
<1>4. PICK noted : noted = [b EXCEPT !.limboRefs = refs]
  OBVIOUS
<1>5. /\ TargetsOK(noted) /\ noted.limboRefs = refs /\ noted.watched = b.watched
      /\ noted.limboTargets = b.limboTargets
  BY ONLY <1>1, <1>4, OtherReferences
<1>6. PICK removed : removed = RemoveLimboTargets(noted, orphans)
  OBVIOUS
<1>7. /\ TargetsOK(removed) /\ removed.limboRefs = refs
      /\ removed.limboTargets = b.limboTargets \ orphans
      /\ removed.watched \cap Queries = b.watched \cap Queries
  <2>1. /\ TargetsOK(removed) /\ removed.limboRefs = noted.limboRefs
        /\ removed.limboTargets = noted.limboTargets \ orphans
        /\ removed.watched \cap Queries = noted.watched \cap Queries
    BY ONLY <1>5, <1>6, RemovedLimboTargets
  <2> QED
    BY <1>5, <2>1
<1>8. PICK keys \in SUBSET Keys : keys = {k \in Keys : \E q \in Queries : <<k, q>> \in requested}
  OBVIOUS
<1>9. new = TrackLimboChanges(removed, keys)
  BY <1>2, <1>4, <1>6, <1>8 DEF UpdateTrackedLimbo
<1>10. /\ TargetsOK(new) /\ new.limboRefs = refs
       /\ new.limboTargets = (b.limboTargets \ orphans) \cup keys
       /\ new.watched \cap Queries = b.watched \cap Queries
  <2>1. /\ TargetsOK(new) /\ new.limboRefs = removed.limboRefs
        /\ new.limboTargets = removed.limboTargets \cup keys
        /\ new.watched \cap Queries = removed.watched \cap Queries
    BY <1>7, <1>9, TrackedLimboChanges, ZenonT(60)
  <2> QED
    BY <1>7, <2>1
<1>11. ASSUME NEW k \in new.limboTargets PROVE \E q \in Queries : <<k, q>> \in refs
  <2>1. CASE k \in keys
    BY <1>2, <1>8, <2>1
  <2>2. CASE k \notin keys
    <3>1. k \in b.limboTargets /\ k \notin orphans /\ k \in Keys
      BY <1>1, <1>10, <2>2 DEF TargetsOK
    <3>2. PICK q \in Queries : <<k, q>> \in b.limboRefs
      BY <1>1, <3>1
    <3>3. SUFFICES ASSUME \A r \in Queries : <<k, r>> \notin b.limboRefs \ released PROVE FALSE
      BY <1>2
    <3>4. <<k, q>> \in released
      BY <3>2, <3>3
    <3>5. \A r \in Queries : <<k, r>> \notin requested
      BY <1>8, <2>2, <3>1
    <3> QED
      BY <3>1, <3>3, <3>4, <3>5 DEF Orphans
  <2> QED
    BY <2>1, <2>2
<1>12. {q \in Queries : vs[q] # None} = {q \in Queries : next[q] # None}
  OBVIOUS
<1> QED
  BY <1>1, <1>3, <1>10, <1>11, <1>12 DEF BooksOK

\* removeAndCleanupQuery after the target of the query has ended.
LEMMA CleanedUp ==
    ASSUME BooksOK(Books, views), NEW q \in Queries, NEW vs,
           \A r \in Queries : vs[r] = IF r = q THEN None ELSE views[r],
           NEW new, new = RemoveAndCleanupQuery(Unwatch(Books, {q}), q)
    PROVE  BooksOK(new, vs)
<1>1. PICK b : b = Unwatch(Books, {q})
  OBVIOUS
<1>2. /\ b = [limboTargets |-> limboTargets, resolutions |-> resolutions, limboRefs |-> limboRefs,
              watched |-> watched \ {q}, caughtUp |-> caughtUp \ {q}, failed |-> failed]
  BY <1>1 DEF Unwatch, Books
<1>3. /\ b.limboTargets = limboTargets /\ b.resolutions = resolutions /\ b.limboRefs = limboRefs
      /\ b.watched = watched \ {q} /\ b.caughtUp = caughtUp \ {q} /\ b.failed = failed
  BY <1>2
<1>4. /\ limboTargets \in SUBSET Keys /\ resolutions \in [limboTargets -> BOOLEAN]
      /\ limboTargets = watched \cap Keys /\ caughtUp \subseteq watched /\ failed = {}
  BY DEF BooksOK, TargetsOK, Books
<1>5. TargetsOK(b)
  <2>1. limboTargets = (watched \ {q}) \cap Keys
    BY <1>4, SyncEngineAssumption
  <2> QED
    BY <1>2, <1>3, <1>4, <2>1 DEF TargetsOK
<1>6. PICK kept : kept = {r \in limboRefs : r[2] # q}
  OBVIOUS
<1>7. kept = LimboOf(vs)
  <2>1. limboRefs = LimboOf(views)
    BY DEF BooksOK, Books
  <2>2. ASSUME NEW r \in Keys \X Queries PROVE r \in kept <=> r \in LimboOf(vs)
    <3>1. r[1] \in Keys /\ r[2] \in Queries
      OBVIOUS
    <3>2. /\ (r \in LimboOf(vs) <=> vs[r[2]] # None /\ r[1] \in vs[r[2]].limbo)
          /\ (r \in LimboOf(views) <=> views[r[2]] # None /\ r[1] \in views[r[2]].limbo)
          /\ vs[r[2]] = IF r[2] = q THEN None ELSE views[r[2]]
      BY <3>1 DEF LimboOf
    <3> QED
      BY <1>6, <2>1, <3>2
  <2>3. kept \subseteq Keys \X Queries /\ LimboOf(vs) \subseteq Keys \X Queries
    BY <1>6, <2>1 DEF LimboOf
  <2> QED
    BY <2>2, <2>3
<1>8. PICK noted : noted = [b EXCEPT !.limboRefs = kept]
  OBVIOUS
<1>9. /\ TargetsOK(noted) /\ noted.limboRefs = kept /\ noted.watched = b.watched
      /\ noted.limboTargets = b.limboTargets
  BY <1>5, <1>8, OtherReferences
<1>10. PICK keys : keys = {k \in Keys : <<k, q>> \in limboRefs /\ \A r \in Queries : <<k, r>> \notin kept}
  OBVIOUS
<1>11. new = RemoveLimboTargets(noted, keys)
  BY <1>1, <1>3, <1>6, <1>8, <1>10 DEF RemoveAndCleanupQuery
<1>12. /\ TargetsOK(new) /\ new.limboRefs = kept
       /\ new.limboTargets = limboTargets \ keys
       /\ new.watched \cap Queries = (watched \ {q}) \cap Queries
  <2>1. /\ TargetsOK(new) /\ new.limboRefs = noted.limboRefs
        /\ new.limboTargets = noted.limboTargets \ keys
        /\ new.watched \cap Queries = noted.watched \cap Queries
    BY ONLY <1>9, <1>11, RemovedLimboTargets
  <2> QED
    BY <1>3, <1>9, <2>1
<1>13. ASSUME NEW k \in new.limboTargets PROVE \E r \in Queries : <<k, r>> \in kept
  <2>1. k \in limboTargets /\ k \notin keys /\ k \in Keys
    BY <1>4, <1>12
  <2>2. PICK r \in Queries : <<k, r>> \in limboRefs
    BY <2>1 DEF BooksOK, Books
  <2>3. r # q => <<k, r>> \in kept
    BY <1>6, <2>2
  <2> QED
    BY <1>10, <2>1, <2>2, <2>3
<1>14. (watched \ {q}) \cap Queries = {r \in Queries : vs[r] # None}
  BY DEF BooksOK, Books
<1> QED
  BY <1>7, <1>12, <1>13, <1>14 DEF BooksOK
-----------------------------------------------------------------------------
(* emitNewSnapshotsAndNotifyLocalStore.                                    *)

\* The invariant of the events after a step of all views.
LEMMA EventsKept ==
    ASSUME TypeOK, EventsInv, NEW next, next = views', NEW shots, ViewsStep(next, shots),
           snapshots' = Shown(listeners, shots),
           NEW ls, ls = listeners', DOMAIN ls = Listeners,
           \A l \in Listeners :
                /\ listeners[l] = None => ls[l] = None
                /\ listeners[l] # None =>
                    /\ ls[l] \in Listener /\ ls[l] # None /\ ls[l].query = listeners[l].query
                    /\ ListenerOK(ls[l], next[ls[l].query], online'),
           ls = [l \in Listeners |-> ls[l]]
    PROVE  /\ views' \in [Queries -> ViewState \cup {None}]
           /\ snapshots' \in [Queries -> Snapshot \cup {None}]
           /\ listeners' \in [Listeners -> Listener \cup {None}]
           /\ EventsInv'
<1>1. views' \in [Queries -> ViewState \cup {None}]
  BY DEF ViewsStep
<1>2. \A l \in Listeners : ls[l] \in Listener \cup {None}
  OBVIOUS
<1>3. listeners' \in [Listeners -> Listener \cup {None}]
  BY <1>2
<1>4. PICK shown : shown = Shown(listeners, shots)
  OBVIOUS
<1>5. ASSUME NEW q \in Queries
      PROVE  /\ next[q] = None => shown[q] = None
             /\ next[q] # None => /\ views[q] # None /\ next[q].syncState # "None"
                                  /\ shown[q] \in Snapshot
                                  /\ IsSnapshotOf(shown[q], next[q]) /\ ~IsEmptySnapshot(shown[q])
  BY <1>4, ShownSnapshots
<1>6. shown \in [Queries -> Snapshot \cup {None}]
  <2>1. shown = [q \in Queries |-> shown[q]]
    BY <1>4 DEF Shown
  <2> QED
    BY <1>5, <2>1
<1>7. ASSUME NEW q \in Queries PROVE QueryOK(q)'
  <2>1. IsTracked(ls, q) <=> IsTracked(listeners, q)
    BY DEF IsTracked
  <2>2. next[q] # None <=> views[q] # None
    BY DEF ViewsStep, Active
  <2>3. views[q] # None <=> IsTracked(listeners, q)
    BY DEF EventsInv, QueryOK
  <2>4. views'[q] # None <=> IsTracked(listeners', q)
    BY <2>1, <2>2, <2>3
  <2> QED
    BY <1>4, <1>5, <2>4 DEF QueryOK
<1>8. ASSUME NEW l \in Listeners, listeners'[l] # None
      PROVE  ListenerOK(listeners'[l], views'[listeners'[l].query], online')
  BY <1>8
<1>9. EventsInv'
  BY <1>7, <1>8 DEF EventsInv
<1> QED
  BY <1>1, <1>3, <1>4, <1>6, <1>9

\* The loop over the views, and the snapshots after it.
LEMMA EmitStep ==
    ASSUME TypeOK, EventsInv, ResultInv, NEW b, BooksOK(b, views),
           NEW c \in CacheType, c = cache', NEW p \in PendingType, p = pending',
           NEW S \in SUBSET Keys,
           \A k \in Keys \ S : LocalDoc(c[k], p[k]) = LocalDoc(cache[k], pending[k]),
           NEW changes,
           \A q \in Active : IsTargetChange(IF q \in DOMAIN changes THEN changes[q] ELSE None, views[q]),
           Emit(b, c, p, S, changes), online' = online
    PROVE  /\ views' \in [Queries -> ViewState \cup {None}]
           /\ snapshots' \in [Queries -> Snapshot \cup {None}]
           /\ listeners' \in [Listeners -> Listener \cup {None}]
           /\ EventsInv' /\ ResultInv' /\ BooksInv' /\ NoHardAssertFails'
<1>1. PICK new \in {[q \in Active |-> NewSnapshot(q, c, p, S, changes)]} :
        LET shots == [q \in Active |-> new[q].snapshot]
            released == {r \in Keys \X Active : r[1] \in views[r[2]].limbo \ new[r[2]].view.limbo}
            requested == {r \in Keys \X Active : r[1] \in new[r[2]].view.limbo \ views[r[2]].limbo}
            fails == (UNION {new[q].fails : q \in Active}) \cup ShowFails(listeners, shots)
        IN  /\ views' = [q \in Queries |-> IF q \in Active THEN new[q].view ELSE None]
            /\ HandleViewSnapshots(listeners, shots)
            /\ \E orphans \in {Orphans(b.limboRefs \ released, released, requested, order) : order \in Orders} :
                    KeepBooks(Fail(UpdateTrackedLimbo(b, released, requested, orphans), fails))
  BY Zenon DEF Emit
<1> DEFINE shots == [q \in Active |-> new[q].snapshot]
           released == {r \in Keys \X Active : r[1] \in views[r[2]].limbo \ new[r[2]].view.limbo}
           requested == {r \in Keys \X Active : r[1] \in new[r[2]].view.limbo \ views[r[2]].limbo}
           fails == (UNION {new[q].fails : q \in Active}) \cup ShowFails(listeners, shots)
<1>2. PICK orphans \in {Orphans(b.limboRefs \ released, released, requested, order) : order \in Orders} :
            KeepBooks(Fail(UpdateTrackedLimbo(b, released, requested, orphans), fails))
  BY <1>1, Zenon
<1>3. HandleViewSnapshots(listeners, shots)
  BY <1>1, Zenon
<1>4. views' = [q \in Queries |-> IF q \in Active THEN new[q].view ELSE None]
  BY <1>1, Zenon
<1> HIDE DEF shots, released, requested, fails
<1>5. PICK order : orphans = Orphans(b.limboRefs \ released, released, requested, order)
  BY <1>2
<1>6. snapshots' = Shown(listeners, shots) /\ listeners' = Told(listeners, shots)
  BY <1>3 DEF HandleViewSnapshots
<1>7. new = [q \in Active |-> NewSnapshot(q, c, p, S, changes)]
  BY <1>1
<1>8. PICK next : next = views'
  OBVIOUS
<1>9. ASSUME NEW q \in Active
      PROVE  /\ ViewStep(views[q], next[q], shots[q]) /\ next[q] # None
             /\ ShowsResult(next[q].docs, c, p, q) /\ new[q].fails = {}
  <2>1. q \in Queries /\ views[q] # None
    BY DEF Active
  <2>2. PICK r : r = NewSnapshot(q, c, p, S, changes)
    OBVIOUS
  <2>3. new[q] = r /\ next[q] = r.view /\ shots[q] = r.snapshot
    BY <1>4, <1>7, <1>8, <2>1, <2>2 DEF shots
  <2>4. cache \in CacheType /\ pending \in PendingType /\ views[q] \in ViewState
    BY <2>1 DEF TypeOK, CacheType, PendingType
  <2>5. FirstPassGiven(views[q], q, S, c, p, cache, pending)
    BY <2>1, <2>4 DEF FirstPassGiven, ResultInv
  <2>6. PICK change : change = IF q \in DOMAIN changes THEN changes[q] ELSE None
    OBVIOUS
  <2>7. IsTargetChange(change, views[q])
    BY <2>6
  <2>8. PICK oldCache \in CacheType, oldPending \in PendingType : oldCache = cache /\ oldPending = pending
    BY <2>4
  <2>9. FirstPassGiven(views[q], q, S, c, p, oldCache, oldPending)
    BY <2>5, <2>8
  <2>10. /\ ViewStep(views[q], r.view, r.snapshot)
         /\ ShowsResult(r.view.docs, c, p, q) /\ r.fails = {}
    BY ONLY <2>1, <2>2, <2>6, <2>7, <2>9, NewSnapshotStep, c \in CacheType, p \in PendingType,
            oldCache \in CacheType, oldPending \in PendingType
  <2>11. r.view # None
    BY <2>10, ViewAssumption DEF ViewStep
  <2> QED
    BY <2>3, <2>10, <2>11
<1>10. Active \subseteq Queries /\ \A q \in Queries : q \in Active <=> views[q] # None
  BY DEF Active
<1>11. ViewsStep(next, shots)
  <2>1. DOMAIN shots = Active
    BY DEF shots
  <2>2. \A q \in Active : next[q] \in ViewState
    BY <1>9 DEF ViewStep
  <2>3. \A q \in Queries : q \notin Active => next[q] = None
    BY <1>4, <1>8
  <2>4. next \in [Queries -> ViewState \cup {None}]
    <3>1. \A q \in Queries : next[q] \in ViewState \cup {None}
      BY <2>2, <2>3
    <3>2. next = [q \in Queries |-> next[q]]
      BY <1>4, <1>8
    <3> QED
      BY <3>1, <3>2
  <2> QED
    BY <1>9, <2>1, <2>3, <2>4 DEF ViewsStep
<1>12. /\ views' \in [Queries -> ViewState \cup {None}]
       /\ snapshots' \in [Queries -> Snapshot \cup {None}]
       /\ listeners' \in [Listeners -> Listener \cup {None}]
       /\ EventsInv'
  <2>1. PICK ls : ls = Told(listeners, shots)
    OBVIOUS
  <2>2. DOMAIN ls = Listeners /\ ls = [l \in Listeners |-> ls[l]]
    BY <2>1 DEF Told
  <2>3. ASSUME NEW l \in Listeners
        PROVE  /\ listeners[l] = None => ls[l] = None
               /\ listeners[l] # None =>
                    /\ ls[l] \in Listener /\ ls[l] # None /\ ls[l].query = listeners[l].query
                    /\ ListenerOK(ls[l], next[ls[l].query], online')
    <3>1. CASE listeners[l] = None
      BY <2>1, <3>1 DEF Told
    <3>2. CASE listeners[l] # None
      <4>1. PICK told : told = ls[l]
        OBVIOUS
      <4>2. /\ told \in Listener /\ told # None /\ told.query = listeners[l].query
            /\ ListenerOK(told, next[told.query], online)
        BY <1>11, <2>1, <3>2, <4>1, ToldListeners
      <4> QED
        BY <3>2, <4>1, <4>2
    <3> QED
      BY <3>1, <3>2
  <2>4. ls = listeners' /\ snapshots' = Shown(listeners, shots)
    BY <1>6, <2>1
  <2> QED
    BY ONLY TypeOK, EventsInv, <1>8, <1>11, <2>2, <2>3, <2>4, EventsKept
<1>13. ResultInv'
  <2>1. ASSUME NEW q \in Queries, views'[q] # None PROVE ShowsResult(views'[q].docs, cache', pending', q)
    <3>1. q \in Active
      BY <1>4, <2>1
    <3> QED
      BY <1>8, <1>9, <3>1
  <2> QED
    BY <2>1 DEF ResultInv, ShowsResult, Candidates, LocalResult
<1>14. fails = {}
  <2>1. \A q \in Active : new[q].fails = {}
    BY <1>9
  <2>2. UNION {new[q].fails : q \in Active} = {}
    BY <2>1
  <2>3. \A q \in DOMAIN shots : shots[q] # None => ~IsEmptySnapshot(shots[q])
    <3>1. DOMAIN shots = Active
      BY DEF shots
    <3> QED
      BY <1>9, <3>1 DEF ViewStep
  <2>4. ShowFails(listeners, shots) = {}
    BY <2>3, NoShowFails
  <2> QED
    BY <2>2, <2>4 DEF fails
<1>15. /\ released = {r \in Keys \X Queries : views[r[2]] # None /\ r[1] \in views[r[2]].limbo \ next[r[2]].limbo}
       /\ requested = {r \in Keys \X Queries : views[r[2]] # None /\ r[1] \in next[r[2]].limbo \ views[r[2]].limbo}
  <2>1. \A q \in Active : next[q] = new[q].view
    BY <1>4, <1>8, <1>10
  <2>2. \A r : r \in Keys \X Active <=> r \in Keys \X Queries /\ views[r[2]] # None
    BY <1>10
  <2>3. \A r \in Keys \X Active : r[2] \in Active /\ next[r[2]] = new[r[2]].view
    BY <2>1
  <2> QED
    BY <2>2, <2>3 DEF released, requested
<1>17. PICK books : books = UpdateTrackedLimbo(b, released, requested, orphans)
  OBVIOUS
<1>18. BooksOK(books, next)
  <2>1. PICK vs : vs = views
    OBVIOUS
  <2>2. BooksOK(b, vs) /\ \A q \in Queries : next[q] = None <=> vs[q] = None
    BY <1>4, <1>8, <1>9, <1>10, <2>1
  <2>3. /\ released = {r \in Keys \X Queries : vs[r[2]] # None /\ r[1] \in vs[r[2]].limbo \ next[r[2]].limbo}
        /\ requested = {r \in Keys \X Queries : vs[r[2]] # None /\ r[1] \in next[r[2]].limbo \ vs[r[2]].limbo}
    BY <1>15, <2>1
  <2> QED
    BY ONLY <1>5, <1>17, <2>2, <2>3, UpdatedTrackedLimbo, ZenonT(60)
<1>19. Fail(books, fails) = books
  BY <1>14, <1>18, NothingFails DEF BooksOK
<1>20. KeepBooks(books)
  BY <1>2, <1>17, <1>19
<1>21. BooksInv' /\ NoHardAssertFails'
  BY <1>8, <1>18, <1>20, KeptBooks
<1> QED
  BY <1>12, <1>13, <1>21
-----------------------------------------------------------------------------
(* The actions of the application.                                         *)

\* A part of the store that the views see.
LEMMA SameResult ==
    ASSUME ResultInv, views' = views,
           \A k \in Keys : LocalDoc(cache'[k], pending'[k]) = LocalDoc(cache[k], pending[k])
    PROVE  ResultInv'
<1>1. ASSUME NEW q \in Queries, NEW k \in Keys
      PROVE  LocalResult(cache', pending', q, k) = LocalResult(cache, pending, q, k)
  BY DEF LocalResult
<1>2. ASSUME NEW q \in Queries, NEW docs
      PROVE  Candidates(docs, cache', pending', q) = Candidates(docs, cache, pending, q)
  BY <1>1 DEF Candidates
<1>3. ASSUME NEW q \in Queries, views'[q] # None PROVE ShowsResult(views'[q].docs, cache', pending', q)
  <2>1. ShowsResult(views[q].docs, cache, pending, q)
    BY <1>3 DEF ResultInv
  <2>2. PICK docs : docs = views[q].docs
    OBVIOUS
  <2>3. ShowsResult(docs, cache', pending', q)
    BY <1>1, <1>2, <2>1, <2>2 DEF ShowsResult, KeysOf
  <2> QED
    BY <2>2, <2>3
<1> QED
  BY <1>3 DEF ResultInv

\* The books after a query of which nothing is in limbo is listened to.
LEMMA ListenedBooks ==
    ASSUME BooksOK(Books, views), NEW q \in Queries, views[q] = None, NEW vs,
           \A r \in Queries : r # q => vs[r] = views[r], vs[q] # None, vs[q].limbo = {},
           NEW b, b = [Books EXCEPT !.watched = @ \cup {q}]
    PROVE  BooksOK(b, vs)
<1>1. b = [limboTargets |-> limboTargets, resolutions |-> resolutions, limboRefs |-> limboRefs,
           watched |-> watched \cup {q}, caughtUp |-> caughtUp, failed |-> failed]
  BY DEF Books
<1>2. /\ b.limboTargets = limboTargets /\ b.resolutions = resolutions /\ b.limboRefs = limboRefs
      /\ b.watched = watched \cup {q} /\ b.caughtUp = caughtUp /\ b.failed = failed
  BY <1>1
<1>3. /\ limboTargets \in SUBSET Keys /\ resolutions \in [limboTargets -> BOOLEAN]
      /\ limboTargets = watched \cap Keys /\ caughtUp \subseteq watched /\ failed = {}
  BY DEF BooksOK, TargetsOK, Books
<1>4. TargetsOK(b)
  <2>1. limboTargets = (watched \cup {q}) \cap Keys
    BY <1>3, SyncEngineAssumption
  <2> QED
    BY <1>1, <1>2, <1>3, <2>1 DEF TargetsOK
<1>5. limboRefs = LimboOf(vs)
  <2>1. limboRefs = LimboOf(views)
    BY DEF BooksOK, Books
  <2>2. ASSUME NEW r \in Keys \X Queries PROVE r \in LimboOf(views) <=> r \in LimboOf(vs)
    <3>1. r[1] \in Keys /\ r[2] \in Queries
      OBVIOUS
    <3>2. /\ (r \in LimboOf(vs) <=> vs[r[2]] # None /\ r[1] \in vs[r[2]].limbo)
          /\ (r \in LimboOf(views) <=> views[r[2]] # None /\ r[1] \in views[r[2]].limbo)
      BY <3>1 DEF LimboOf
    <3>3. CASE r[2] = q
      BY <3>2, <3>3
    <3>4. CASE r[2] # q
      BY <3>1, <3>2, <3>4
    <3> QED
      BY <3>3, <3>4
  <2>3. LimboOf(views) \subseteq Keys \X Queries /\ LimboOf(vs) \subseteq Keys \X Queries
    BY DEF LimboOf
  <2> QED
    BY <2>1, <2>2, <2>3
<1>6. (watched \cup {q}) \cap Queries = {r \in Queries : vs[r] # None}
  BY DEF BooksOK, Books
<1>7. \A k \in limboTargets : \E r \in Queries : <<k, r>> \in limboRefs
  BY DEF BooksOK, Books
<1> QED
  BY <1>2, <1>4, <1>5, <1>6, <1>7 DEF BooksOK

\* What initializeViewAndComputeSnapshot gives.
LEMMA FirstSnapshot ==
    ASSUME TypeOK, NEW q \in Queries,
           NEW view, view = NewView(remoteKeys[q]),
           NEW computed, computed = ComputeChanges(view, q, LimitOf[q], ExecuteQuery(cache, pending, q), Unchanged(view)),
           NEW applied, applied = ApplyChanges(view, computed, None)
    PROVE  /\ ViewStep(view, applied.view, applied.snapshot)
           /\ applied.snapshot # None /\ applied.view.limbo = {} /\ applied.fails = {}
           /\ ShowsResult(applied.view.docs, cache, pending, q)
<1>1. PICK keys \in SUBSET Keys : keys = remoteKeys[q]
  BY DEF TypeOK
<1>2. view \in ViewState /\ view.limbo = {} /\ ~view.current /\ view.syncState = "None"
  BY <1>1, NewViewType DEF NewView
<1>3. PICK c \in CacheType, p \in PendingType : c = cache /\ p = pending
  BY DEF TypeOK, CacheType, PendingType
<1>4. IsComputed(computed, view.docs, c, p, q)
  BY <1>1, <1>3, FirstChanges
<1>5. /\ computed \in DocumentChanges /\ ~computed.refill
      /\ \A k \in Keys : Tells(computed.changes[k], view.docs[k], computed.docs[k])
      /\ ShowsResult(computed.docs, c, p, q)
  BY <1>4 DEF IsComputed
<1>6. IsTargetChange(None, view)
  BY DEF IsTargetChange
<1>7. /\ ViewStep(view, applied.view, applied.snapshot)
      /\ applied.view.docs = computed.docs /\ applied.fails = {}
      /\ applied.view.limbo = view.limbo /\ applied.view.syncState = "Local"
  BY <1>2, <1>5, <1>6, AppliedChanges
<1>8. applied.snapshot # None
  BY <1>2, <1>7 DEF ViewStep
<1> QED
  BY <1>2, <1>3, <1>5, <1>7, <1>8

LEMMA ListenToQueryStep ==
    ASSUME SyncInv, NEW l \in Listeners, NEW q \in Queries, listeners[l] = None,
           ~IsTracked(listeners, q),
           NEW new \in Listener, new.query = q, ~new.raised, new.online = online,
           NEW added, added = [listeners EXCEPT ![l] = new],
           ListenToQuery(added, q), UNCHANGED <<backendVars, storeVars, online>>
    PROVE  SyncInv'
<1>1. /\ TypeOK /\ BatchesOK /\ EventsInv /\ ResultInv /\ BooksInv /\ NoHardAssertFails
      /\ watch' = watch /\ owed' = owed /\ cache' = cache /\ pending' = pending
      /\ remoteKeys' = remoteKeys /\ online' = online
  BY DEF SyncInv, backendVars, storeVars
<1>2. PICK view : view = NewView(remoteKeys[q])
  OBVIOUS
<1>3. PICK computed : computed = ComputeChanges(view, q, LimitOf[q], ExecuteQuery(cache, pending, q), Unchanged(view))
  OBVIOUS
<1>4. PICK applied : applied = ApplyChanges(view, computed, None)
  OBVIOUS
<1>5. /\ ViewStep(view, applied.view, applied.snapshot)
      /\ applied.snapshot # None /\ applied.view.limbo = {} /\ applied.fails = {}
      /\ ShowsResult(applied.view.docs, cache, pending, q)
  BY <1>1, <1>2, <1>3, <1>4, FirstSnapshot
<1>6. PICK shots : shots = [r \in {q} |-> applied.snapshot]
  OBVIOUS
<1>7. /\ views' = [views EXCEPT ![q] = applied.view]
      /\ snapshots' = Shown(added, shots) /\ listeners' = Told(added, shots)
      /\ KeepBooks(Fail([Books EXCEPT !.watched = @ \cup {q}],
             applied.fails \cup ShowFails(added, shots)
             \cup HardAssert(views[q] = None, "we already listen to the query")
             \cup HardAssert(applied.view.limbo = {}, "limbo before target ack")
             \cup HardAssert(applied.snapshot # None, "no snapshot for a new view")
             \cup HardAssert(q \notin watched, "Listen: duplicate target")))
  BY <1>2, <1>3, <1>4, <1>6, ZenonT(60) DEF ListenToQuery, HandleViewSnapshots
<1>8. views[q] = None /\ snapshots[q] = None /\ BooksOK(Books, views) /\ q \notin watched
  <2>1. QueryOK(q)
    BY <1>1 DEF EventsInv
  <2>2. views[q] = None /\ snapshots[q] = None
    BY <2>1 DEF QueryOK
  <2>3. BooksOK(Books, views)
    BY <1>1, BooksAgree
  <2> QED
    BY <2>2, <2>3 DEF BooksOK, Books
<1>9. PICK next \in ViewState : next = applied.view
  BY <1>5 DEF ViewStep
<1>10. PICK shot \in Snapshot : shot = applied.snapshot
  BY <1>5 DEF ViewStep
<1>11. /\ next # None /\ next.syncState # "None" /\ shot # None /\ IsSnapshotOf(shot, next)
       /\ ~IsEmptySnapshot(shot)
  <2>1. /\ next.syncState # "None" /\ shot.docs = next.docs
        /\ (shot.fromCache <=> next.syncState = "Local") /\ ~IsEmptySnapshot(shot)
    BY <1>5, <1>9, <1>10 DEF ViewStep
  <2> QED
    BY <2>1, AgreeIsReflexive, ViewAssumption DEF IsSnapshotOf
<1>12. \A r \in Queries : views'[r] = IF r = q THEN next ELSE views[r]
  BY <1>1, <1>7, <1>9 DEF TypeOK
<1>13. added \in [Listeners -> Listener \cup {None}] /\ added[l] = new
       /\ \A m \in Listeners : m # l => added[m] = listeners[m]
  BY <1>1 DEF TypeOK
<1>14. new # None
  BY SyncEngineAssumption
<1>15. \A r \in Queries : IsTracked(added, r) <=> IsTracked(listeners, r) \/ r = q
  BY <1>13, <1>14 DEF IsTracked
<1>16. \A r \in Queries : snapshots'[r] = IF r = q THEN shot ELSE snapshots[r]
  BY <1>6, <1>7, <1>10, <1>11, <1>15 DEF Shown, IsShown
<1>17. PICK told : told = OnViewSnapshot(new, shot)
  OBVIOUS
<1>18. told \in Listener /\ told.query = q /\ ListenerOK(told, next, online)
  BY <1>11, <1>17, ToldListener
<1>19. \A m \in Listeners : listeners'[m] = IF m = l THEN told ELSE listeners[m]
  <2>1. \A r : IsShown(shots, r) <=> r = q
    BY <1>6, <1>10, <1>11 DEF IsShown
  <2>2. shots[q] = shot
    BY <1>6, <1>10
  <2>3. \A m \in Listeners : m # l /\ listeners[m] # None => listeners[m].query # q
    BY DEF IsTracked
  <2> QED
    BY <1>7, <1>13, <1>14, <1>17, <2>1, <2>2, <2>3 DEF Told
<1>20. TypeOK'
  <2>1. views' \in [Queries -> ViewState \cup {None}]
    BY <1>1, <1>7, <1>9 DEF TypeOK
  <2>2. snapshots' \in [Queries -> Snapshot \cup {None}]
    <3>1. snapshots' = [r \in Queries |-> snapshots'[r]]
      BY <1>7 DEF Shown
    <3> QED
      BY <1>1, <1>16, <3>1 DEF TypeOK
  <2>3. listeners' \in [Listeners -> Listener \cup {None}]
    <3>1. PICK ls : ls = listeners'
      OBVIOUS
    <3>2. ls = Told(added, shots)
      BY <1>7, <3>1
    <3>3. ls = [m \in Listeners |-> ls[m]]
      BY ONLY <3>2 DEF Told
    <3>4. \A m \in Listeners : ls[m] \in Listener \cup {None}
      BY <1>1, <1>18, <1>19, <3>1 DEF TypeOK
    <3> QED
      BY <3>1, <3>3, <3>4
  <2> QED
    BY <1>1, <2>1, <2>2, <2>3 DEF TypeOK
<1>21. EventsInv'
  <2>1. told # None
    BY <1>18, SyncEngineAssumption
  <2>2. ASSUME NEW r \in Queries PROVE QueryOK(r)'
    <3>1. IsTracked(listeners', r) <=> IsTracked(listeners, r) \/ r = q
      BY <1>18, <1>19, <2>1 DEF IsTracked
    <3>2. CASE r = q
      BY <1>11, <1>12, <1>16, <3>1, <3>2 DEF QueryOK
    <3>3. CASE r # q
      <4>1. QueryOK(r)
        BY <1>1 DEF EventsInv
      <4> QED
        BY <1>12, <1>16, <3>1, <3>3, <4>1 DEF QueryOK
    <3> QED
      BY <3>2, <3>3
  <2>3. ASSUME NEW m \in Listeners, listeners'[m] # None
        PROVE  ListenerOK(listeners'[m], views'[listeners'[m].query], online')
    <3>1. CASE m = l
      BY <1>1, <1>12, <1>18, <1>19, <3>1
    <3>2. CASE m # l
      <4>1. listeners'[m] = listeners[m] /\ listeners[m] # None /\ listeners[m].query \in Queries
        BY <1>1, <1>19, <2>3, <3>2 DEF TypeOK, Listener
      <4>2. listeners[m].query # q
        BY <4>1 DEF IsTracked
      <4>3. ListenerOK(listeners[m], views[listeners[m].query], online)
        BY <1>1, <4>1 DEF EventsInv
      <4> QED
        BY <1>1, <1>12, <4>1, <4>2, <4>3
    <3> QED
      BY <3>1, <3>2
  <2> QED
    BY <2>2, <2>3 DEF EventsInv
<1>22. ResultInv'
  <2>1. ASSUME NEW r \in Queries, views'[r] # None PROVE ShowsResult(views'[r].docs, cache, pending, r)
    BY <1>1, <1>5, <1>9, <1>12, <2>1 DEF ResultInv
  <2>2. \A r \in Queries : views'[r] # None => ShowsResult(views'[r].docs, cache', pending', r)
    BY <1>1, <2>1
  <2> QED
    BY <2>2 DEF ResultInv, ShowsResult, Candidates, LocalResult
<1>23. BooksInv' /\ NoHardAssertFails'
  <2>1. PICK b : b = [Books EXCEPT !.watched = @ \cup {q}]
    OBVIOUS
  <2>2. PICK vs : vs = views'
    OBVIOUS
  <2>3. BooksOK(b, vs)
    <3>1. (\A r \in Queries : r # q => vs[r] = views[r]) /\ vs[q] # None /\ vs[q].limbo = {}
      BY <1>5, <1>9, <1>11, <1>12, <2>2
    <3> QED
      BY <1>8, <2>1, <3>1, ListenedBooks
  <2>4. ShowFails(added, shots) = {}
    <3>1. \A r \in DOMAIN shots : shots[r] # None => ~IsEmptySnapshot(shots[r])
      BY <1>6, <1>10, <1>11
    <3> QED
      BY <3>1, NoShowFails
  <2>5. KeepBooks(Fail(b, {}))
    BY <1>5, <1>7, <1>8, <2>1, <2>4 DEF HardAssert
  <2>6. KeepBooks(b)
    BY <2>3, <2>5, NothingFails DEF BooksOK
  <2> QED
    BY <2>2, <2>3, <2>6, KeptBooks
<1>24. BatchesOK'
  BY <1>1 DEF BatchesOK
<1> QED
  BY <1>20, <1>21, <1>22, <1>23, <1>24 DEF SyncInv
LEMMA AddListenerStep ==
    ASSUME SyncInv, NEW l \in Listeners, NEW q \in Queries, AddListener(l, q)
    PROVE  SyncInv'
<1>1. /\ TypeOK /\ BatchesOK /\ EventsInv /\ ResultInv /\ BooksInv /\ NoHardAssertFails
  BY DEF SyncInv
<1>2. PICK new : new = OnOnlineStateChanged(NewListener(q, OptionsOf[l]), online)
  OBVIOUS
<1>3. PICK told : told = IF snapshots[q] = None THEN new ELSE OnViewSnapshot(new, snapshots[q])
  OBVIOUS
<1>4. PICK added : added = [listeners EXCEPT ![l] = told]
  OBVIOUS
<1>5. /\ listeners[l] = None /\ UNCHANGED <<backendVars, storeVars, online>>
      /\ IF IsTracked(listeners, q)
         THEN /\ listeners' = added
              /\ failed' = failed \cup ShowFails(added, [r \in {q} |-> snapshots[q]])
              /\ UNCHANGED <<views, snapshots, limboVars>>
         ELSE ListenToQuery(added, q)
  BY <1>2, <1>3, <1>4 DEF AddListener
<1>6. new \in Listener /\ new.query = q /\ ~new.raised /\ new.online = online
  <2>1. OptionsOf[l] \in Options /\ online \in OnlineStates
    BY <1>1, SyncEngineAssumption DEF TypeOK
  <2> QED
    BY <1>2, <2>1, FirstListener
<1>7. QueryOK(q)
  BY <1>1 DEF EventsInv
<1>8. CASE ~IsTracked(listeners, q)
  <2>1. snapshots[q] = None
    BY <1>7, <1>8 DEF QueryOK
  <2>2. added = [listeners EXCEPT ![l] = new]
    BY <1>3, <1>4, <2>1
  <2>3. ListenToQuery(added, q)
    BY <1>5, <1>8
  <2> QED
    BY <1>5, <1>6, <1>8, <2>2, <2>3, ListenToQueryStep
<1>9. CASE IsTracked(listeners, q)
  <2>1. views[q] # None /\ views[q] \in ViewState
    BY <1>1, <1>7, <1>9 DEF QueryOK, TypeOK
  <2>2. IsSnapshotOf(snapshots[q], views[q]) /\ ~IsEmptySnapshot(snapshots[q])
    BY <1>7, <2>1 DEF QueryOK
  <2>3. PICK given : given = snapshots[q]
    OBVIOUS
  <2>4. given \in Snapshot /\ given # None
    BY <2>2, <2>3, ViewAssumption DEF IsSnapshotOf
  <2>5. told = OnViewSnapshot(new, given)
    BY <1>3, <2>3, <2>4
  <2>6. PICK view \in ViewState : view = views[q]
    BY <2>1
  <2>7. told \in Listener /\ told.query = new.query /\ ListenerOK(told, view, online)
    BY <1>6, <2>2, <2>3, <2>5, <2>6, ToldListener
  <2>8. told \in Listener /\ told # None /\ told.query = q /\ ListenerOK(told, views[q], online)
    BY <1>6, <2>6, <2>7, SyncEngineAssumption
  <2>9. /\ listeners' = [listeners EXCEPT ![l] = told]
        /\ failed' = failed \cup ShowFails(added, [r \in {q} |-> snapshots[q]])
        /\ views' = views /\ snapshots' = snapshots /\ online' = online
        /\ watch' = watch /\ owed' = owed /\ cache' = cache /\ pending' = pending
        /\ remoteKeys' = remoteKeys /\ limboTargets' = limboTargets /\ resolutions' = resolutions
        /\ limboRefs' = limboRefs /\ watched' = watched /\ caughtUp' = caughtUp
    BY <1>4, <1>5, <1>9 DEF backendVars, storeVars, limboVars
  <2>10. \A m \in Listeners : listeners'[m] = IF m = l THEN told ELSE listeners[m]
    BY <1>1, <2>9 DEF TypeOK
  <2>11. TypeOK'
    BY <1>1, <2>8, <2>9 DEF TypeOK
  <2>12. EventsInv'
    <3>1. ASSUME NEW r \in Queries PROVE QueryOK(r)'
      <4>1. IsTracked(listeners', r) <=> IsTracked(listeners, r)
        BY <1>5, <1>9, <2>8, <2>10 DEF IsTracked
      <4>2. QueryOK(r)
        BY <1>1 DEF EventsInv
      <4> QED
        BY <2>9, <4>1, <4>2 DEF QueryOK
    <3>2. ASSUME NEW m \in Listeners, listeners'[m] # None
          PROVE  ListenerOK(listeners'[m], views'[listeners'[m].query], online')
      BY <1>1, <2>8, <2>9, <2>10, <3>2 DEF EventsInv
    <3> QED
      BY <3>1, <3>2 DEF EventsInv
  <2>13. ResultInv'
    BY <1>1, <2>9, SameResult
  <2>14. BooksInv'
    BY <1>1, <2>9 DEF BooksInv, LimboBooksAgree
  <2>15. NoHardAssertFails'
    <3>1. PICK shots : shots = [r \in {q} |-> snapshots[q]]
      OBVIOUS
    <3>2. ShowFails(added, shots) = {}
      BY <2>2, <3>1, NoShowFails
    <3> QED
      BY <1>1, <2>9, <3>1, <3>2 DEF NoHardAssertFails
  <2>16. BatchesOK'
    BY <1>1, <2>9 DEF BatchesOK
  <2> QED
    BY <2>11, <2>12, <2>13, <2>14, <2>15, <2>16 DEF SyncInv
<1> QED
  BY <1>8, <1>9

\* The end of a query, whose listeners all go.
LEMMA EndOfQuery ==
    ASSUME SyncInv, NEW q \in Queries, UNCHANGED <<backendVars, storeVars, online>>,
           listeners' \in [Listeners -> Listener \cup {None}],
           \A l \in Listeners : listeners'[l] = IF listeners[l] # None /\ listeners[l].query = q
                                                THEN None ELSE listeners[l],
           views' = [views EXCEPT ![q] = None], snapshots' = [snapshots EXCEPT ![q] = None],
           KeepBooks(Fail(RemoveAndCleanupQuery(Unwatch(Books, {q}), q), {}))
    PROVE  SyncInv'
<1>1. /\ TypeOK /\ BatchesOK /\ EventsInv /\ ResultInv /\ BooksInv /\ NoHardAssertFails
      /\ watch' = watch /\ owed' = owed /\ cache' = cache /\ pending' = pending
      /\ remoteKeys' = remoteKeys /\ online' = online
  BY DEF SyncInv, backendVars, storeVars
<1>2. \A r \in Queries : /\ views'[r] = IF r = q THEN None ELSE views[r]
                         /\ snapshots'[r] = IF r = q THEN None ELSE snapshots[r]
  BY <1>1 DEF TypeOK
<1>3. TypeOK'
  BY <1>1 DEF TypeOK
<1>4. EventsInv'
  <2>1. ASSUME NEW r \in Queries PROVE QueryOK(r)'
    <3>1. IsTracked(listeners', r) <=> IsTracked(listeners, r) /\ r # q
      BY DEF IsTracked
    <3>2. QueryOK(r)
      BY <1>1 DEF EventsInv
    <3> QED
      BY <1>2, <3>1, <3>2 DEF QueryOK
  <2>2. ASSUME NEW m \in Listeners, listeners'[m] # None
        PROVE  ListenerOK(listeners'[m], views'[listeners'[m].query], online')
    <3>1. listeners'[m] = listeners[m] /\ listeners[m] # None /\ listeners[m].query # q
      BY <2>2
    <3>2. listeners[m].query \in Queries
      BY <1>1, <3>1 DEF TypeOK, Listener
    <3>3. ListenerOK(listeners[m], views[listeners[m].query], online)
      BY <1>1, <3>1 DEF EventsInv
    <3> QED
      BY <1>1, <1>2, <3>1, <3>2, <3>3
  <2> QED
    BY <2>1, <2>2 DEF EventsInv
<1>5. ResultInv'
  <2>1. ASSUME NEW r \in Queries, views'[r] # None PROVE ShowsResult(views'[r].docs, cache, pending, r)
    BY <1>1, <1>2, <2>1 DEF ResultInv
  <2>2. \A r \in Queries : views'[r] # None => ShowsResult(views'[r].docs, cache', pending', r)
    BY <1>1, <2>1
  <2> QED
    BY <2>2 DEF ResultInv, ShowsResult, Candidates, LocalResult
<1>6. BooksInv' /\ NoHardAssertFails'
  <2>1. PICK b : b = RemoveAndCleanupQuery(Unwatch(Books, {q}), q)
    OBVIOUS
  <2>2. PICK vs : vs = views'
    OBVIOUS
  <2>3. BooksOK(b, vs)
    <3>1. \A r \in Queries : vs[r] = IF r = q THEN None ELSE views[r]
      BY <1>2, <2>2
    <3>2. BooksOK(Books, views)
      BY <1>1, BooksAgree
    <3> QED
      BY ONLY q \in Queries, <2>1, <3>1, <3>2, CleanedUp
  <2>4. KeepBooks(b)
    BY <2>1, <2>3, NothingFails DEF BooksOK
  <2> QED
    BY <2>2, <2>3, <2>4, KeptBooks
<1>7. BatchesOK'
  BY <1>1 DEF BatchesOK
<1> QED
  BY <1>3, <1>4, <1>5, <1>6, <1>7 DEF SyncInv

LEMMA RemoveListenerStep ==
    ASSUME SyncInv, NEW l \in Listeners, RemoveListener(l)
    PROVE  SyncInv'
<1>1. /\ TypeOK /\ BatchesOK /\ EventsInv /\ ResultInv /\ BooksInv /\ NoHardAssertFails
  BY DEF SyncInv
<1>2. PICK q : q = listeners[l].query
  OBVIOUS
<1>3. /\ listeners[l] # None /\ listeners' = [listeners EXCEPT ![l] = None]
      /\ UNCHANGED <<backendVars, storeVars, online>>
      /\ IF IsTracked(listeners', q) THEN UNCHANGED <<views, snapshots, limboVars, failed>>
         ELSE /\ snapshots' = [snapshots EXCEPT ![q] = None]
              /\ views' = [views EXCEPT ![q] = None]
              /\ KeepBooks(Fail(RemoveAndCleanupQuery(Unwatch(Books, {q}), q),
                                HardAssert(views[q] # None, "query not found")
                                \cup HardAssert(q \in watched, "StopListening: target not watched")))
  BY <1>2 DEF RemoveListener
<1>4. q \in Queries
  BY <1>1, <1>2, <1>3 DEF TypeOK, Listener
<1>5. IsTracked(listeners, q)
  BY <1>2, <1>3 DEF IsTracked
<1>6. views[q] # None /\ q \in watched
  <2>1. QueryOK(q)
    BY <1>1, <1>4 DEF EventsInv
  <2>2. views[q] # None
    BY <1>5, <2>1 DEF QueryOK
  <2> QED
    BY <1>1, <1>4, <2>2 DEF BooksInv, LimboBooksAgree
<1>7. /\ listeners' \in [Listeners -> Listener \cup {None}]
      /\ \A m \in Listeners : listeners'[m] = IF m = l THEN None ELSE listeners[m]
  BY <1>1, <1>3 DEF TypeOK
<1>8. CASE IsTracked(listeners', q)
  <2>1. /\ views' = views /\ snapshots' = snapshots /\ online' = online /\ failed' = failed
        /\ watch' = watch /\ owed' = owed /\ cache' = cache /\ pending' = pending
        /\ remoteKeys' = remoteKeys /\ limboTargets' = limboTargets /\ resolutions' = resolutions
        /\ limboRefs' = limboRefs /\ watched' = watched /\ caughtUp' = caughtUp
    BY <1>3, <1>8 DEF backendVars, storeVars, limboVars
  <2>2. TypeOK'
    BY <1>1, <1>7, <2>1 DEF TypeOK
  <2>3. EventsInv'
    <3>1. ASSUME NEW r \in Queries PROVE QueryOK(r)'
      <4>1. IsTracked(listeners', r) <=> IsTracked(listeners, r)
        BY <1>2, <1>5, <1>7, <1>8 DEF IsTracked
      <4>2. QueryOK(r)
        BY <1>1 DEF EventsInv
      <4> QED
        BY <2>1, <4>1, <4>2 DEF QueryOK
    <3>2. ASSUME NEW m \in Listeners, listeners'[m] # None
          PROVE  ListenerOK(listeners'[m], views'[listeners'[m].query], online')
      BY <1>1, <1>7, <2>1, <3>2 DEF EventsInv
    <3> QED
      BY <3>1, <3>2 DEF EventsInv
  <2>4. ResultInv'
    BY <1>1, <2>1, SameResult
  <2>5. BooksInv' /\ NoHardAssertFails' /\ BatchesOK'
    BY <1>1, <2>1 DEF BooksInv, LimboBooksAgree, NoHardAssertFails, BatchesOK
  <2> QED
    BY <2>2, <2>3, <2>4, <2>5 DEF SyncInv
<1>9. CASE ~IsTracked(listeners', q)
  <2>1. \A m \in Listeners : listeners'[m] = IF listeners[m] # None /\ listeners[m].query = q
                                             THEN None ELSE listeners[m]
    <3>1. \A m \in Listeners : m # l /\ listeners[m] # None => listeners[m].query # q
      BY <1>7, <1>9 DEF IsTracked
    <3> QED
      BY <1>2, <1>3, <1>7, <3>1
  <2>2. KeepBooks(Fail(RemoveAndCleanupQuery(Unwatch(Books, {q}), q), {}))
    BY <1>3, <1>6, <1>9 DEF HardAssert
  <2> QED
    BY <1>3, <1>4, <1>7, <1>9, <2>1, <2>2, EndOfQuery
<1> QED
  BY <1>8, <1>9

LEMMA RejectQueryStep ==
    ASSUME SyncInv, NEW q \in Queries, RejectQuery(q)
    PROVE  SyncInv'
<1>1. TypeOK /\ BooksInv
  BY DEF SyncInv
<1>2. /\ q \in watched
      /\ views' = [views EXCEPT ![q] = None]
      /\ snapshots' = [snapshots EXCEPT ![q] = None]
      /\ listeners' = [l \in Listeners |->
                        IF listeners[l] # None /\ listeners[l].query = q THEN None ELSE listeners[l]]
      /\ KeepBooks(Fail(RemoveAndCleanupQuery(Unwatch(Books, {q}), q),
                        HardAssert(views[q] # None, "unknown target")))
      /\ UNCHANGED <<backendVars, storeVars, online>>
  BY DEF RejectQuery
<1>3. views[q] # None
  BY <1>1, <1>2 DEF BooksInv, LimboBooksAgree
<1>4. KeepBooks(Fail(RemoveAndCleanupQuery(Unwatch(Books, {q}), q), {}))
  BY <1>2, <1>3 DEF HardAssert
<1>5. listeners' \in [Listeners -> Listener \cup {None}]
  BY <1>1, <1>2 DEF TypeOK
<1>6. \A l \in Listeners : listeners'[l] = IF listeners[l] # None /\ listeners[l].query = q
                                           THEN None ELSE listeners[l]
  BY <1>2
<1> QED
  BY <1>2, <1>4, <1>5, <1>6, EndOfQuery
LEMMA ChangeOnlineStateStep ==
    ASSUME SyncInv, NEW state \in OnlineStates, ChangeOnlineState(state)
    PROVE  SyncInv'
<1>1. /\ TypeOK /\ BatchesOK /\ EventsInv /\ ResultInv /\ BooksInv /\ NoHardAssertFails
  BY DEF SyncInv
<1>2. /\ caughtUp' = {} /\ limboTargets' = limboTargets /\ resolutions' = resolutions
      /\ limboRefs' = limboRefs /\ watched' = watched /\ online' = state
      /\ watch' = watch /\ owed' = owed /\ cache' = cache /\ pending' = pending
      /\ remoteKeys' = remoteKeys
  BY DEF ChangeOnlineState, backendVars, storeVars
<1>3. PICK new \in {[q \in Active |-> ApplyOnlineState(views[q], state)]} :
        LET shots == [q \in Active |-> new[q].snapshot]
        IN  /\ views' = [q \in Queries |-> IF q \in Active THEN new[q].view ELSE None]
            /\ snapshots' = Shown(listeners, shots)
            /\ listeners' = [l \in Listeners |-> IF listeners[l] = None THEN None
                                ELSE OnOnlineStateChanged(Told(listeners, shots)[l], state)]
            /\ failed' = failed \cup (UNION {new[q].fails : q \in Active}) \cup ShowFails(listeners, shots)
                         \cup HardAssert(\A q \in Active : new[q].view.limbo = views[q].limbo,
                                         "online state affects limbo documents")
  BY Zenon DEF ChangeOnlineState
<1> DEFINE shots == [q \in Active |-> new[q].snapshot]
<1>4. /\ views' = [q \in Queries |-> IF q \in Active THEN new[q].view ELSE None]
      /\ snapshots' = Shown(listeners, shots)
      /\ listeners' = [l \in Listeners |-> IF listeners[l] = None THEN None
                          ELSE OnOnlineStateChanged(Told(listeners, shots)[l], state)]
      /\ failed' = failed \cup (UNION {new[q].fails : q \in Active}) \cup ShowFails(listeners, shots)
                   \cup HardAssert(\A q \in Active : new[q].view.limbo = views[q].limbo,
                                   "online state affects limbo documents")
  BY <1>3, Zenon
<1> HIDE DEF shots
<1>5. PICK next : next = views'
  OBVIOUS
<1>6. Active \subseteq Queries /\ \A q \in Queries : q \in Active <=> views[q] # None
  BY DEF Active
<1>7. ASSUME NEW q \in Active
      PROVE  /\ ViewStep(views[q], next[q], shots[q]) /\ next[q] # None /\ next[q] = new[q].view
             /\ next[q].docs = views[q].docs /\ next[q].limbo = views[q].limbo /\ new[q].fails = {}
  <2>1. q \in Queries /\ views[q] # None
    BY <1>6
  <2>2. PICK view \in ViewState : view = views[q] /\ view.syncState # "None"
    BY <1>1, <2>1 DEF TypeOK, EventsInv, QueryOK
  <2>3. PICK r : r = ApplyOnlineState(view, state)
    OBVIOUS
  <2>4. new[q] = r /\ next[q] = r.view /\ shots[q] = r.snapshot
    BY <1>3, <1>4, <1>5, <2>1, <2>2, <2>3 DEF shots
  <2>5. /\ ViewStep(view, r.view, r.snapshot)
        /\ r.view.docs = view.docs /\ r.view.limbo = view.limbo /\ r.fails = {}
    BY <2>2, <2>3, OnlineStep
  <2>6. r.view # None
    BY <2>5, ViewAssumption DEF ViewStep
  <2> QED
    BY <2>2, <2>4, <2>5, <2>6
<1>8. ViewsStep(next, shots)
  <2>1. DOMAIN shots = Active
    BY DEF shots
  <2>2. \A q \in Active : next[q] \in ViewState
    BY <1>7 DEF ViewStep
  <2>3. \A q \in Queries : q \notin Active => next[q] = None
    BY <1>4, <1>5
  <2>4. next \in [Queries -> ViewState \cup {None}]
    <3>1. \A q \in Queries : next[q] \in ViewState \cup {None}
      BY <2>2, <2>3
    <3>2. next = [q \in Queries |-> next[q]]
      BY <1>4, <1>5
    <3> QED
      BY <3>1, <3>2
  <2> QED
    BY <1>7, <2>1, <2>3, <2>4 DEF ViewsStep
<1>9. /\ views' \in [Queries -> ViewState \cup {None}]
      /\ snapshots' \in [Queries -> Snapshot \cup {None}]
      /\ listeners' \in [Listeners -> Listener \cup {None}]
      /\ EventsInv'
  <2>1. PICK ls : ls = listeners'
    OBVIOUS
  <2>2. DOMAIN ls = Listeners /\ ls = [l \in Listeners |-> ls[l]]
    BY <1>4, <2>1
  <2>3. ASSUME NEW l \in Listeners
        PROVE  /\ listeners[l] = None => ls[l] = None
               /\ listeners[l] # None =>
                    /\ ls[l] \in Listener /\ ls[l] # None /\ ls[l].query = listeners[l].query
                    /\ ListenerOK(ls[l], next[ls[l].query], online')
    <3>1. CASE listeners[l] = None
      BY <1>4, <2>1, <3>1
    <3>2. CASE listeners[l] # None
      <4>1. PICK told : told = Told(listeners, shots)[l]
        OBVIOUS
      <4>2. /\ told \in Listener /\ told # None /\ told.query = listeners[l].query
            /\ ListenerOK(told, next[told.query], online)
        BY <1>1, <1>8, <3>2, <4>1, ToldListeners
      <4>3. PICK after : after = OnOnlineStateChanged(told, state)
        OBVIOUS
      <4>4. PICK view : view = next[told.query]
        OBVIOUS
      <4>5. after \in Listener /\ after.query = told.query /\ ListenerOK(after, view, state)
        BY <4>2, <4>3, <4>4, OnlineListener
      <4>6. ls[l] = after /\ after # None
        BY <1>4, <2>1, <3>2, <4>1, <4>3, <4>5, SyncEngineAssumption
      <4> QED
        BY <1>2, <3>2, <4>2, <4>4, <4>5, <4>6
    <3> QED
      BY <3>1, <3>2
  <2>4. snapshots' = Shown(listeners, shots)
    BY <1>4
  <2> QED
    BY ONLY <1>1, <1>5, <1>8, <2>1, <2>2, <2>3, <2>4, EventsKept
<1>10. TypeOK'
  BY <1>1, <1>2, <1>9 DEF TypeOK
<1>11. ResultInv'
  <2>1. ASSUME NEW q \in Queries, views'[q] # None PROVE ShowsResult(views'[q].docs, cache, pending, q)
    <3>1. q \in Active
      BY <1>4, <2>1
    <3>2. views'[q].docs = views[q].docs /\ views[q] # None
      BY <1>5, <1>6, <1>7, <3>1
    <3> QED
      BY <1>1, <3>2 DEF ResultInv
  <2>2. \A r \in Queries : views'[r] # None => ShowsResult(views'[r].docs, cache', pending', r)
    BY <1>2, <2>1
  <2> QED
    BY <2>2 DEF ResultInv, ShowsResult, Candidates, LocalResult
<1>12. NoHardAssertFails'
  <2>1. \A q \in Active : new[q].fails = {} /\ new[q].view.limbo = views[q].limbo
    BY <1>7
  <2>2. UNION {new[q].fails : q \in Active} = {}
    BY <2>1
  <2>3. \A q \in DOMAIN shots : shots[q] # None => ~IsEmptySnapshot(shots[q])
    <3>1. DOMAIN shots = Active
      BY DEF shots
    <3> QED
      BY <1>7, <3>1 DEF ViewStep
  <2>4. ShowFails(listeners, shots) = {}
    BY <2>3, NoShowFails
  <2>5. HardAssert(\A q \in Active : new[q].view.limbo = views[q].limbo,
                   "online state affects limbo documents") = {}
    BY <2>1 DEF HardAssert
  <2> QED
    BY <1>1, <1>4, <2>2, <2>4, <2>5 DEF NoHardAssertFails
<1>13. BooksInv'
  <2>1. \A q \in Queries : /\ (next[q] # None <=> views[q] # None)
                           /\ next[q] # None => next[q].limbo = views[q].limbo
    BY <1>4, <1>5, <1>6, <1>7
  <2>2. {q \in Queries : next[q] # None} = {q \in Queries : views[q] # None}
    BY <2>1
  <2>3. LimboOf(next) = LimboOf(views)
    <3>1. \A r \in Keys \X Queries : r[2] \in Queries
      OBVIOUS
    <3> QED
      BY <2>1, <3>1 DEF LimboOf
  <2>4. limboRefs = LimboOf(views)
    BY <1>1 DEF BooksInv, LimboBooksAgree, LimboOf
  <2>5. limboRefs' = {r \in Keys \X Queries : views'[r[2]] # None /\ r[1] \in views'[r[2]].limbo}
    BY <1>2, <1>5, <2>3, <2>4 DEF LimboOf
  <2> QED
    BY <1>1, <1>2, <1>5, <2>2, <2>5 DEF BooksInv, LimboBooksAgree
<1>14. BatchesOK'
  BY <1>1, <1>2 DEF BatchesOK
<1> QED
  BY <1>9, <1>10, <1>11, <1>12, <1>13, <1>14 DEF SyncInv

-----------------------------------------------------------------------------
(* Writes.                                                                 *)

\* An action that changes the documents and emits snapshots.
LEMMA EmitKeepsInvariant ==
    ASSUME SyncInv, NEW b, BooksOK(b, views),
           cache' \in CacheType, pending' \in PendingType, BatchesOK', NEW S \in SUBSET Keys,
           \A k \in Keys \ S : LocalDoc(cache'[k], pending'[k]) = LocalDoc(cache[k], pending[k]),
           NEW changes,
           \A q \in Active : IsTargetChange(IF q \in DOMAIN changes THEN changes[q] ELSE None, views[q]),
           Emit(b, cache', pending', S, changes),
           remoteKeys' \in [Queries -> SUBSET Keys], UNCHANGED <<backendVars, online>>
    PROVE  SyncInv'
<1>1. /\ TypeOK /\ EventsInv /\ ResultInv /\ online' = online /\ watch' = watch /\ owed' = owed
  BY DEF SyncInv, backendVars
<1>2. PICK c \in CacheType, p \in PendingType : c = cache' /\ p = pending'
  OBVIOUS
<1>3. /\ \A k \in Keys \ S : LocalDoc(c[k], p[k]) = LocalDoc(cache[k], pending[k])
      /\ Emit(b, c, p, S, changes)
  BY <1>2
<1>4. /\ views' \in [Queries -> ViewState \cup {None}]
      /\ snapshots' \in [Queries -> Snapshot \cup {None}]
      /\ listeners' \in [Listeners -> Listener \cup {None}]
      /\ EventsInv' /\ ResultInv' /\ BooksInv' /\ NoHardAssertFails'
  BY <1>1, <1>2, <1>3, EmitStep
<1>5. TypeOK'
  BY <1>1, <1>4 DEF TypeOK, CacheType, PendingType
<1> QED
  BY <1>4, <1>5 DEF SyncInv

\* An action on one key without target changes.
LEMMA EmitForKey ==
    ASSUME SyncInv, NEW b, BooksOK(b, views),
           cache' \in CacheType, pending' \in PendingType, BatchesOK', NEW k \in Keys,
           \A j \in Keys : j # k => cache'[j] = cache[j] /\ pending'[j] = pending[j],
           Emit(b, cache', pending', {k}, NoTargets), UNCHANGED <<backendVars, remoteKeys, online>>
    PROVE  SyncInv'
<1>1. \A j \in Keys \ {k} : LocalDoc(cache'[j], pending'[j]) = LocalDoc(cache[j], pending[j])
  OBVIOUS
<1>2. PICK changes : changes = NoTargets
  OBVIOUS
<1>3. DOMAIN changes = {}
  BY <1>2 DEF NoTargets
<1>4. ASSUME NEW q \in Active
      PROVE  IsTargetChange(IF q \in DOMAIN changes THEN changes[q] ELSE None, views[q])
  BY <1>3 DEF IsTargetChange
<1>5. PICK S \in SUBSET Keys : S = {k}
  OBVIOUS
<1>6. remoteKeys' \in [Queries -> SUBSET Keys]
  BY DEF SyncInv, TypeOK
<1>7. /\ \A j \in Keys \ S : LocalDoc(cache'[j], pending'[j]) = LocalDoc(cache[j], pending[j])
      /\ Emit(b, cache', pending', S, changes)
  BY <1>1, <1>2, <1>5
<1> QED
  BY <1>4, <1>6, <1>7, EmitKeepsInvariant

LEMMA WriteMutationStep ==
    ASSUME SyncInv, NEW k \in Keys, NEW v \in Contents, WriteMutation(k, v)
    PROVE  SyncInv'
<1>1. TypeOK /\ BatchesOK /\ BooksInv /\ NoHardAssertFails
  BY DEF SyncInv
<1>2. PICK batch \in Batch : batch = [val |-> v, stage |-> "queued", result |-> None]
  BY DEF Batch
<1>3. /\ pending' = [pending EXCEPT ![k] = batch]
      /\ Emit(Books, cache, pending', {k}, NoTargets)
      /\ UNCHANGED <<backendVars, cache, remoteKeys, online>> /\ cache' = cache
  BY <1>2 DEF WriteMutation
<1>4. /\ pending' \in PendingType /\ cache' \in CacheType
      /\ \A j \in Keys : pending'[j] = IF j = k THEN batch ELSE pending[j]
  BY <1>1, <1>3 DEF TypeOK, PendingType, CacheType
<1>5. BatchesOK'
  BY <1>1, <1>2, <1>4 DEF BatchesOK
<1>6. PICK b : b = Books
  OBVIOUS
<1>7. BooksOK(b, views)
  BY <1>1, <1>6, BooksAgree
<1>8. Emit(b, cache', pending', {k}, NoTargets) /\ UNCHANGED <<backendVars, remoteKeys, online>>
  BY <1>3, <1>6
<1> QED
  BY <1>3, <1>4, <1>5, <1>7, <1>8, EmitForKey

LEMMA AcknowledgeStep ==
    ASSUME SyncInv, NEW k \in Keys, Acknowledge(k)
    PROVE  SyncInv'
<1>1. TypeOK /\ BatchesOK /\ BooksInv /\ NoHardAssertFails
  BY DEF SyncInv
<1>2. /\ pending[k] # None /\ pending[k].stage # "queued"
      /\ pending' = [pending EXCEPT ![k] = None]
      /\ cache' = IF pending[k].stage = "seen" THEN cache
                  ELSE [cache EXCEPT ![k] = [val |-> pending[k].result, committed |-> TRUE]]
      /\ Emit(Books, cache', pending', {k}, NoTargets)
      /\ UNCHANGED <<backendVars, remoteKeys, online>>
  BY DEF Acknowledge, IsAnswered
<1>3. pending[k].result \in Contents
  <2>1. pending[k] \in Batch /\ pending[k].result # None
    BY <1>1, <1>2 DEF TypeOK, BatchesOK
  <2> QED
    BY <2>1 DEF Batch
<1>4. /\ pending' \in PendingType
      /\ \A j \in Keys : pending'[j] = IF j = k THEN None ELSE pending[j]
  BY <1>1, <1>2 DEF TypeOK, PendingType
<1>5. /\ cache' \in CacheType
      /\ \A j \in Keys : j # k => cache'[j] = cache[j]
  <2>1. [val |-> pending[k].result, committed |-> TRUE] \in [val : Contents, committed : BOOLEAN]
    BY <1>3
  <2> QED
    BY <1>1, <1>2, <2>1 DEF TypeOK, CacheType
<1>6. BatchesOK'
  BY <1>1, <1>4 DEF BatchesOK
<1>7. PICK b : b = Books
  OBVIOUS
<1>8. BooksOK(b, views)
  BY <1>1, <1>7, BooksAgree
<1>9. Emit(b, cache', pending', {k}, NoTargets)
  BY <1>2, <1>7
<1>10. /\ \A j \in Keys : j # k => cache'[j] = cache[j] /\ pending'[j] = pending[j]
       /\ pending' \in PendingType /\ cache' \in CacheType
  BY <1>4, <1>5
<1>11. UNCHANGED <<backendVars, remoteKeys, online>>
  BY <1>2
<1> QED
  BY ONLY SyncInv, k \in Keys, <1>6, <1>8, <1>9, <1>10, <1>11, EmitForKey

LEMMA RejectWriteStep ==
    ASSUME SyncInv, NEW k \in Keys, RejectWrite(k)
    PROVE  SyncInv'
<1>1. TypeOK /\ BatchesOK /\ BooksInv /\ NoHardAssertFails
  BY DEF SyncInv
<1>2. /\ pending' = [pending EXCEPT ![k] = None]
      /\ Emit(Books, cache, pending', {k}, NoTargets) /\ cache' = cache
      /\ UNCHANGED <<backendVars, remoteKeys, online>>
  BY DEF RejectWrite
<1>3. /\ pending' \in PendingType /\ cache' \in CacheType
      /\ \A j \in Keys : pending'[j] = IF j = k THEN None ELSE pending[j]
  BY <1>1, <1>2 DEF TypeOK, PendingType, CacheType
<1>4. BatchesOK'
  BY <1>1, <1>3 DEF BatchesOK
<1>5. PICK b : b = Books
  OBVIOUS
<1>6. BooksOK(b, views)
  BY <1>1, <1>5, BooksAgree
<1>7. Emit(b, cache', pending', {k}, NoTargets)
  BY <1>2, <1>5
<1> QED
  BY <1>2, <1>3, <1>4, <1>6, <1>7, EmitForKey

\* rejectListen of a limbo target.
LEMMA RejectLimboStep ==
    ASSUME SyncInv, NEW k \in Keys, RejectLimbo(k)
    PROVE  SyncInv'
<1>1. TypeOK /\ BatchesOK /\ BooksInv /\ NoHardAssertFails
  BY DEF SyncInv
<1>2. PICK doc : doc = [val |-> NoDoc, committed |-> FALSE]
  OBVIOUS
<1>3. PICK b : b = WithoutTargets(Books, {k})
  OBVIOUS
<1>4. /\ cache' = [cache EXCEPT ![k] = doc] /\ pending' = pending
      /\ Emit(b, cache', pending, {k}, NoTargets)
      /\ UNCHANGED <<backendVars, remoteKeys, online>>
  BY <1>2, <1>3 DEF RejectLimbo, WithoutTargets
<1>5. doc \in [val : Contents, committed : BOOLEAN]
  BY <1>2 DEF Contents
<1>6. /\ pending' \in PendingType /\ cache' \in CacheType
      /\ \A j \in Keys : cache'[j] = IF j = k THEN doc ELSE cache[j]
  BY <1>1, <1>4, <1>5 DEF TypeOK, PendingType, CacheType
<1>7. BatchesOK'
  BY <1>1, <1>4 DEF BatchesOK
<1>8. BooksOK(b, views)
  <2>1. PICK books : books = Books
    OBVIOUS
  <2>2. BooksOK(books, views)
    BY <1>1, <2>1, BooksAgree
  <2>3. PICK ended : ended = {k}
    OBVIOUS
  <2>4. TargetsOK(books) /\ ended \subseteq Keys /\ b = WithoutTargets(books, ended)
    BY <1>3, <2>1, <2>2, <2>3 DEF BooksOK
  <2>5. /\ TargetsOK(b) /\ b.limboRefs = books.limboRefs
        /\ b.limboTargets = books.limboTargets \ ended
        /\ b.watched \cap Queries = books.watched \cap Queries
    BY ONLY <2>4, FewerTargets
  <2> QED
    BY <2>2, <2>5 DEF BooksOK
<1>9. Emit(b, cache', pending', {k}, NoTargets)
  BY <1>4
<1> QED
  BY <1>4, <1>6, <1>7, <1>8, <1>9, EmitForKey
-----------------------------------------------------------------------------
(* The backend.                                                            *)

\* An action that the views, the listeners and the books do not see.
LEMMA EngineUnchanged ==
    ASSUME SyncInv, UNCHANGED engineVars, UNCHANGED <<cache, remoteKeys, online>>,
           watch' \in [Keys -> Contents], owed' \in [Keys -> Committed \cup {None}],
           pending' \in PendingType, BatchesOK',
           \A k \in Keys : LocalDoc(cache'[k], pending'[k]) = LocalDoc(cache[k], pending[k])
    PROVE  SyncInv'
<1>1. /\ TypeOK /\ EventsInv /\ ResultInv /\ BooksInv /\ NoHardAssertFails
      /\ views' = views /\ snapshots' = snapshots /\ listeners' = listeners /\ failed' = failed
      /\ cache' = cache /\ remoteKeys' = remoteKeys /\ online' = online
      /\ limboTargets' = limboTargets /\ resolutions' = resolutions
      /\ limboRefs' = limboRefs /\ watched' = watched /\ caughtUp' = caughtUp
  BY DEF SyncInv, engineVars, limboVars
<1>2. TypeOK'
  BY <1>1 DEF TypeOK, PendingType
<1>3. EventsInv'
  BY <1>1 DEF EventsInv, QueryOK, IsTracked
<1>4. ResultInv'
  BY <1>1, SameResult
<1>5. BooksInv' /\ NoHardAssertFails'
  BY <1>1 DEF BooksInv, LimboBooksAgree, NoHardAssertFails
<1> QED
  BY <1>2, <1>3, <1>4, <1>5 DEF SyncInv

LEMMA CommitStep ==
    ASSUME SyncInv, NEW k \in Keys, NEW v \in Contents, Commit(k, v)
    PROVE  SyncInv'
<1>1. TypeOK /\ BatchesOK
  BY DEF SyncInv
<1>2. /\ pending[k] # None
      /\ owed' = [owed EXCEPT ![k] = [val |-> v]]
      /\ pending' = [pending EXCEPT ![k].stage = "committed", ![k].result = v]
      /\ watch' = watch /\ UNCHANGED engineVars /\ UNCHANGED <<cache, remoteKeys, online>>
  BY DEF Commit
<1>3. pending[k] \in Batch
  BY <1>1, <1>2 DEF TypeOK
<1>4. PICK batch : batch = [pending[k] EXCEPT !.stage = "committed", !.result = v]
  OBVIOUS
<1>5. batch \in Batch /\ batch.val = pending[k].val /\ batch.result = v
  BY <1>3, <1>4 DEF Batch
<1>6. pending' = [pending EXCEPT ![k] = batch]
  BY <1>1, <1>2, <1>4 DEF TypeOK
<1>7. /\ pending' \in PendingType
      /\ \A j \in Keys : pending'[j] = IF j = k THEN batch ELSE pending[j]
  BY <1>1, <1>5, <1>6 DEF TypeOK, PendingType
<1>8. batch # None /\ v # None
  BY <1>5, SyncEngineAssumption
<1>9. BatchesOK'
  BY <1>1, <1>5, <1>7, <1>8 DEF BatchesOK
<1>10. ASSUME NEW j \in Keys PROVE LocalDoc(cache'[j], pending'[j]) = LocalDoc(cache[j], pending[j])
  <2>1. CASE j = k
    BY <1>2, <1>5, <1>7, <1>8, <2>1 DEF LocalDoc
  <2>2. CASE j # k
    BY <1>2, <1>7, <2>2
  <2> QED
    BY <2>1, <2>2
<1>11. owed' \in [Keys -> Committed \cup {None}] /\ watch' \in [Keys -> Contents]
  <2>1. [val |-> v] \in Committed
    BY DEF Committed
  <2> QED
    BY <1>1, <1>2, <2>1 DEF TypeOK
<1>12. UNCHANGED engineVars /\ UNCHANGED <<cache, remoteKeys, online>>
  BY <1>2
<1>13. pending' \in PendingType
  BY <1>7
<1> QED
  BY ONLY SyncInv, <1>9, <1>10, <1>11, <1>12, <1>13, EngineUnchanged

LEMMA BackendStep ==
    ASSUME SyncInv, NEW k \in Keys, NEW v \in Contents, CatchUp(k) \/ OtherWrite(k, v)
    PROVE  SyncInv'
<1>1. TypeOK /\ BatchesOK
  BY DEF SyncInv
<1>2. /\ UNCHANGED engineVars /\ UNCHANGED <<cache, remoteKeys, online>> /\ pending' = pending
  BY DEF CatchUp, OtherWrite, storeVars
<1>3. owed' \in [Keys -> Committed \cup {None}] /\ watch' \in [Keys -> Contents]
  <2>1. CASE CatchUp(k)
    <3>1. /\ owed[k] # None /\ watch' = [watch EXCEPT ![k] = owed[k].val]
          /\ owed' = [owed EXCEPT ![k] = None]
      BY <2>1 DEF CatchUp
    <3>2. owed[k].val \in Contents
      BY <1>1, <3>1 DEF TypeOK, Committed
    <3> QED
      BY <1>1, <3>1, <3>2 DEF TypeOK
  <2>2. CASE OtherWrite(k, v)
    BY <1>1, <2>2 DEF TypeOK, OtherWrite
  <2> QED
    BY <2>1, <2>2
<1>4. pending' \in PendingType /\ BatchesOK'
  BY <1>1, <1>2 DEF TypeOK, PendingType, BatchesOK
<1>5. \A j \in Keys : LocalDoc(cache'[j], pending'[j]) = LocalDoc(cache[j], pending[j])
  BY <1>2
<1>6. UNCHANGED engineVars /\ UNCHANGED <<cache, remoteKeys, online>>
  BY <1>2
<1> QED
  BY ONLY SyncInv, <1>3, <1>4, <1>5, <1>6, EngineUnchanged
\* The first loop of applyRemoteEvent.
LEMMA UpdatedReceived ==
    ASSUME BooksInv, NoHardAssertFails, NEW current, current \subseteq watched, NEW changes,
           \A k \in DOMAIN changes \cap DOMAIN resolutions :
                changes[k].modified \cup changes[k].removed # {} => resolutions[k],
           NEW b, b = UpdateReceived([Books EXCEPT !.caughtUp = current], changes)
    PROVE  BooksOK(b, views)
<1>1. PICK books : books = [Books EXCEPT !.caughtUp = current]
  OBVIOUS
<1>2. books = [limboTargets |-> limboTargets, resolutions |-> resolutions, limboRefs |-> limboRefs,
               watched |-> watched, caughtUp |-> current, failed |-> failed]
  BY <1>1 DEF Books
<1>3. /\ books.limboTargets = limboTargets /\ books.resolutions = resolutions
      /\ books.limboRefs = limboRefs /\ books.watched = watched /\ books.caughtUp = current
      /\ books.failed = failed
  BY <1>2
<1>4. PICK limbo : limbo = DOMAIN changes \cap DOMAIN resolutions
  OBVIOUS
<1>5. PICK received : received = [k \in DOMAIN resolutions |->
                IF k \in limbo /\ changes[k].added # {} THEN TRUE
                ELSE IF k \in limbo /\ changes[k].removed # {} THEN FALSE ELSE resolutions[k]]
  OBVIOUS
<1>6. PICK updated : updated = [books EXCEPT !.resolutions = received]
  OBVIOUS
<1>7. HardAssert(\A k \in limbo : changes[k].modified \cup changes[k].removed # {} => resolutions[k],
                 "limbo document without add") = {}
  BY <1>4 DEF HardAssert
<1>8. b = Fail(updated, {})
  <2>1. b = Fail([books EXCEPT !.resolutions = received],
                 HardAssert(\A k \in limbo : changes[k].modified \cup changes[k].removed # {} => resolutions[k],
                            "limbo document without add"))
    BY <1>1, <1>3, <1>4, <1>5 DEF UpdateReceived
  <2> QED
    BY <1>6, <1>7, <2>1
<1>9. /\ limboTargets \in SUBSET Keys /\ resolutions \in [limboTargets -> BOOLEAN]
      /\ limboTargets = watched \cap Keys /\ failed = {}
      /\ watched \cap Queries = {q \in Queries : views[q] # None}
      /\ \A k \in limboTargets : \E q \in Queries : <<k, q>> \in limboRefs
      /\ limboRefs = LimboOf(views)
  BY DEF BooksInv, LimboBooksAgree, NoHardAssertFails, LimboOf
<1>10. updated = [limboTargets |-> limboTargets, resolutions |-> received, limboRefs |-> limboRefs,
                  watched |-> watched, caughtUp |-> current, failed |-> failed]
  BY <1>2, <1>6
<1>11. /\ updated.limboTargets = limboTargets /\ updated.resolutions = received
       /\ updated.limboRefs = limboRefs /\ updated.watched = watched /\ updated.caughtUp = current
       /\ updated.failed = failed
  BY <1>10
<1>12. received \in [limboTargets -> BOOLEAN]
  BY <1>5, <1>9
<1>13. TargetsOK(updated)
  BY <1>9, <1>10, <1>11, <1>12 DEF TargetsOK
<1>14. b = updated
  BY <1>8, <1>13, NothingFails
<1> QED
  BY <1>9, <1>11, <1>13, <1>14 DEF BooksOK

\* The store after the documents of an event.
LEMMA UpdatedStore ==
    ASSUME TypeOK, BatchesOK, NEW updated, updated \subseteq Keys, NEW applied, applied \subseteq Keys,
           cache' = ApplyUpdates(cache, [k \in applied |-> watch[k]]), pending' = MarkSeen(pending, updated)
    PROVE  /\ cache' \in CacheType /\ pending' \in PendingType /\ BatchesOK'
           /\ \A k \in Keys \ applied : LocalDoc(cache'[k], pending'[k]) = LocalDoc(cache[k], pending[k])
<1>1. \A k \in Keys : cache'[k] = IF k \in applied THEN [val |-> watch[k], committed |-> FALSE] ELSE cache[k]
  BY DEF ApplyUpdates
<1>2. cache' \in CacheType
  <2>1. ASSUME NEW k \in Keys PROVE cache'[k] \in [val : Contents, committed : BOOLEAN]
    <3>1. watch[k] \in Contents /\ cache[k] \in [val : Contents, committed : BOOLEAN]
      BY DEF TypeOK
    <3>2. [val |-> watch[k], committed |-> FALSE] \in [val : Contents, committed : BOOLEAN]
      BY <3>1
    <3> QED
      BY <1>1, <3>1, <3>2, Zenon
  <2>2. cache' = [k \in Keys |-> cache'[k]]
    BY DEF ApplyUpdates
  <2> QED
    BY <2>1, <2>2 DEF CacheType
<1>3. ASSUME NEW k \in Keys
      PROVE  /\ pending[k] = None => pending'[k] = None
             /\ pending[k] # None => /\ pending'[k] \in Batch /\ pending'[k].val = pending[k].val
                                     /\ pending'[k].result = pending[k].result
                                     /\ pending'[k].stage # "queued" => pending[k].stage # "queued"
  <2>1. pending'[k] = IF pending[k] # None /\ k \in updated /\ owed[k] = None /\ pending[k].stage = "committed"
                      THEN [pending[k] EXCEPT !.stage = "seen"] ELSE pending[k]
    BY DEF MarkSeen
  <2>2. CASE pending[k] # None /\ pending[k].stage = "committed"
    <3>1. pending[k] \in Batch
      BY <2>2 DEF TypeOK
    <3>2. PICK seen : seen = [pending[k] EXCEPT !.stage = "seen"]
      OBVIOUS
    <3>3. seen \in Batch /\ seen.val = pending[k].val /\ seen.result = pending[k].result
      BY <3>1, <3>2 DEF Batch
    <3> QED
      BY <2>1, <2>2, <3>1, <3>2, <3>3
  <2>3. CASE ~ (pending[k] # None /\ pending[k].stage = "committed")
    <3>1. pending'[k] = pending[k]
      BY <2>1, <2>3
    <3> QED
      BY <3>1 DEF TypeOK
  <2> QED
    BY <2>2, <2>3
<1>4. \A k \in Keys : pending[k] # None => pending'[k] # None
  BY <1>3, SyncEngineAssumption
<1>5. pending' \in PendingType
  <2>1. pending' = [k \in Keys |-> pending'[k]]
    BY DEF MarkSeen
  <2> QED
    BY <1>3, <2>1 DEF PendingType
<1>6. BatchesOK'
  BY <1>3 DEF BatchesOK
<1>7. ASSUME NEW k \in Keys \ applied
      PROVE  LocalDoc(cache'[k], pending'[k]) = LocalDoc(cache[k], pending[k])
  <2>1. cache'[k] = cache[k]
    BY <1>1
  <2>2. CASE pending[k] = None
    BY <1>3, <2>1, <2>2
  <2>3. CASE pending[k] # None
    <3>1. pending'[k] # None /\ pending'[k].val = pending[k].val
      BY <1>3, <1>4, <2>3
    <3> QED
      BY <2>1, <2>3, <3>1 DEF LocalDoc
  <2> QED
    BY <2>2, <2>3
<1> QED
  BY <1>2, <1>5, <1>6, <1>7

\* Target changes that the views and the limbo resolutions can take.
ChangesOK(changes) ==
    /\ \A q \in Queries \cap DOMAIN changes :
            /\ changes[q].added \in SUBSET Keys /\ changes[q].current \in BOOLEAN
            /\ changes[q].modified \subseteq views[q].synced \cup changes[q].added
    /\ \A k \in DOMAIN changes \cap DOMAIN resolutions :
            changes[k].modified \cup changes[k].removed # {} => resolutions[k]

LEMMA ApplyRemoteEventStep ==
    ASSUME SyncInv, NEW current, current \subseteq watched, NEW changes, ChangesOK(changes),
           NEW updated, updated \subseteq Keys,
           ApplyRemoteEvent(current, changes, updated), UNCHANGED <<backendVars, online>>
    PROVE  SyncInv'
<1>1. TypeOK /\ BatchesOK /\ BooksInv /\ NoHardAssertFails
  BY DEF SyncInv
<1>2. PICK applied : applied = {k \in updated : ~IsOutdated(k)}
  OBVIOUS
<1>3. PICK b : b = UpdateReceived([Books EXCEPT !.caughtUp = current], changes)
  OBVIOUS
<1>4. /\ cache' = ApplyUpdates(cache, [k \in applied |-> watch[k]])
      /\ pending' = MarkSeen(pending, updated)
      /\ remoteKeys' = [q \in Queries |->
                            IF q \in DOMAIN changes
                            THEN (remoteKeys[q] \ changes[q].removed) \cup changes[q].added
                            ELSE remoteKeys[q]]
      /\ Emit(b, cache', pending', applied, changes)
  BY <1>2, <1>3 DEF ApplyRemoteEvent
<1>5. applied \subseteq Keys
  BY <1>2
<1>6. /\ cache' \in CacheType /\ pending' \in PendingType /\ BatchesOK'
      /\ \A k \in Keys \ applied : LocalDoc(cache'[k], pending'[k]) = LocalDoc(cache[k], pending[k])
  <2>1. /\ cache' = ApplyUpdates(cache, [k \in applied |-> watch[k]])
        /\ pending' = MarkSeen(pending, updated) /\ updated \subseteq Keys
    BY <1>4
  <2> QED
    BY ONLY <1>1, <1>5, <2>1, UpdatedStore
<1>7. remoteKeys' \in [Queries -> SUBSET Keys]
  <2>1. ASSUME NEW q \in Queries PROVE remoteKeys'[q] \in SUBSET Keys
    <3>1. remoteKeys[q] \in SUBSET Keys
      BY <1>1 DEF TypeOK
    <3>2. remoteKeys'[q] = IF q \in DOMAIN changes
                           THEN (remoteKeys[q] \ changes[q].removed) \cup changes[q].added
                           ELSE remoteKeys[q]
      BY <1>4
    <3>3. q \in DOMAIN changes => changes[q].added \in SUBSET Keys
      BY DEF ChangesOK
    <3> QED
      BY <3>1, <3>2, <3>3
  <2>2. remoteKeys' = [q \in Queries |-> remoteKeys'[q]]
    BY <1>4
  <2> QED
    BY <2>1, <2>2
<1>8. BooksOK(b, views)
  <2>1. \A k \in DOMAIN changes \cap DOMAIN resolutions :
                changes[k].modified \cup changes[k].removed # {} => resolutions[k]
    BY DEF ChangesOK
  <2>2. BooksInv /\ NoHardAssertFails /\ current \subseteq watched
    BY <1>1
  <2> QED
    BY ONLY <1>3, <2>1, <2>2, UpdatedReceived
<1>9. ASSUME NEW q \in Active
      PROVE  IsTargetChange(IF q \in DOMAIN changes THEN changes[q] ELSE None, views[q])
  <2>1. q \in Queries
    BY DEF Active
  <2>2. CASE q \in DOMAIN changes
    BY <2>1, <2>2 DEF ChangesOK, IsTargetChange
  <2>3. CASE q \notin DOMAIN changes
    BY <2>3 DEF IsTargetChange
  <2> QED
    BY <2>2, <2>3
<1>10. applied \in SUBSET Keys /\ Emit(b, cache', pending', applied, changes)
       /\ UNCHANGED <<backendVars, online>>
  BY <1>4, <1>5
<1> QED
  BY ONLY SyncInv, <1>6, <1>7, <1>8, <1>9, <1>10, EmitKeepsInvariant

LEMMA BackendResultType ==
    ASSUME NEW q
    PROVE  BackendResult(q) \subseteq Keys
BY DEF BackendResult, KeysOf

LEMMA QueryChangeFields ==
    ASSUME NEW q
    PROVE  /\ QueryChange(q).added = BackendResult(q) \ views[q].synced
           /\ QueryChange(q).modified = BackendResult(q) \cap views[q].synced
           /\ QueryChange(q).removed = views[q].synced \ BackendResult(q)
           /\ QueryChange(q).current \in BOOLEAN
BY DEF QueryChange, TargetChange

\* The changes of targets that are current.
LEMMA CurrentChangeOK ==
    ASSUME BooksInv, NEW t
    PROVE  /\ t \in Queries => /\ CurrentChange(t).added \in SUBSET Keys
                               /\ CurrentChange(t).current \in BOOLEAN
                               /\ CurrentChange(t).modified \subseteq views[t].synced \cup CurrentChange(t).added
           /\ t \in DOMAIN resolutions =>
                (CurrentChange(t).modified \cup CurrentChange(t).removed # {} => resolutions[t])
<1>1. CASE t \in Queries
  <2>1. CurrentChange(t) = QueryChange(t)
    BY <1>1 DEF CurrentChange
  <2>2. PICK result : result = BackendResult(t)
    OBVIOUS
  <2>3. PICK known : known = views[t].synced
    OBVIOUS
  <2>4. /\ QueryChange(t).added = result \ known /\ QueryChange(t).modified = result \cap known
        /\ QueryChange(t).current \in BOOLEAN
    BY <2>2, <2>3, QueryChangeFields
  <2>5. result \subseteq Keys
    BY <2>2, BackendResultType
  <2>6. t \notin DOMAIN resolutions
    BY <1>1, SyncEngineAssumption DEF BooksInv
  <2> QED
    BY <2>1, <2>3, <2>4, <2>5, <2>6
<1>2. CASE t \notin Queries
  <2>1. CurrentChange(t) = LimboChange(t)
    BY <1>2 DEF CurrentChange
  <2>2. ASSUME t \in DOMAIN resolutions, ~resolutions[t]
        PROVE  LimboChange(t).modified = {} /\ LimboChange(t).removed = {}
    BY <2>2 DEF LimboChange, TargetChange
  <2> QED
    BY <1>2, <2>1, <2>2
<1> QED
  BY <1>1, <1>2

LEMMA UpdatesAreKeys ==
    ASSUME TypeOK, BooksInv, NEW targets, targets \subseteq watched
    PROVE  MustUpdate(targets) \subseteq Keys /\ MayUpdate(targets) \subseteq Keys
<1>1. ASSUME NEW q \in targets \cap Queries PROVE QueryChange(q).removed \subseteq Keys
  <2>1. views[q] # None
    BY DEF BooksInv, LimboBooksAgree
  <2>2. views[q].synced \in SUBSET Keys
    BY <2>1 DEF TypeOK, ViewState
  <2>3. QueryChange(q).removed = views[q].synced \ BackendResult(q)
    BY QueryChangeFields
  <2> QED
    BY <2>2, <2>3
<1>2. \A q \in targets \cap Queries : BackendResult(q) \subseteq Keys
  BY BackendResultType
<1> QED
  BY <1>1, <1>2 DEF MustUpdate, MayUpdate

LEMMA DeliverStep ==
    ASSUME SyncInv, NEW more, more \subseteq watched, Deliver(more)
    PROVE  SyncInv'
<1>1. TypeOK /\ BooksInv
  BY DEF SyncInv
<1>2. PICK targets : targets = caughtUp \cup more
  OBVIOUS
<1>3. PICK left \in SUBSET MayUpdate(targets) :
        ApplyRemoteEvent(targets, [t \in targets |-> CurrentChange(t)], MustUpdate(targets) \cup left)
  BY <1>2 DEF Deliver
<1>4. UNCHANGED <<backendVars, online>>
  BY DEF Deliver
<1>5. targets \subseteq watched
  BY <1>1, <1>2 DEF BooksInv
<1>6. PICK changes : changes = [t \in targets |-> CurrentChange(t)]
  OBVIOUS
<1>7. PICK updated : updated = MustUpdate(targets) \cup left
  OBVIOUS
<1>8. updated \subseteq Keys
  BY <1>1, <1>5, <1>7, UpdatesAreKeys
<1>9. ChangesOK(changes)
  <2>1. DOMAIN changes = targets /\ \A t \in targets : changes[t] = CurrentChange(t)
    BY <1>6
  <2> QED
    BY <1>1, <2>1, CurrentChangeOK DEF ChangesOK
<1>10. ApplyRemoteEvent(targets, changes, updated)
  BY <1>3, <1>6, <1>7
<1> QED
  BY ONLY SyncInv, <1>4, <1>5, <1>8, <1>9, <1>10, ApplyRemoteEventStep

LEMMA DeliverPartStep ==
    ASSUME SyncInv, NEW q \in Queries, DeliverPart(q)
    PROVE  SyncInv'
<1>1. TypeOK /\ BooksInv
  BY DEF SyncInv
<1>2. PICK k \in QueryChange(q).added :
        ApplyRemoteEvent(caughtUp,
                         [t \in caughtUp \cup {q} |->
                            IF t = q THEN TargetChange({k}, {}, {}, FALSE) ELSE CurrentChange(t)],
                         MustUpdate(caughtUp) \cup {k})
  BY DEF DeliverPart
<1>3. UNCHANGED <<backendVars, online>>
  BY DEF DeliverPart
<1>4. k \in Keys
  <2>1. k \in BackendResult(q)
    BY QueryChangeFields
  <2> QED
    BY <2>1, BackendResultType
<1>5. PICK changes : changes = [t \in caughtUp \cup {q} |->
                            IF t = q THEN TargetChange({k}, {}, {}, FALSE) ELSE CurrentChange(t)]
  OBVIOUS
<1>6. PICK updated : updated = MustUpdate(caughtUp) \cup {k}
  OBVIOUS
<1>7. caughtUp \subseteq watched
  BY <1>1 DEF BooksInv
<1>8. updated \subseteq Keys
  BY <1>1, <1>4, <1>6, <1>7, UpdatesAreKeys
<1>9. ChangesOK(changes)
  <2>1. DOMAIN changes = caughtUp \cup {q} /\ \A t \in caughtUp : t # q => changes[t] = CurrentChange(t)
    BY <1>5
  <2>2. changes[q].added = {k} /\ changes[q].modified = {} /\ changes[q].current = FALSE
    BY <1>5 DEF TargetChange
  <2>3. q \notin DOMAIN resolutions
    BY <1>1, SyncEngineAssumption DEF BooksInv
  <2>4. ASSUME NEW r \in Queries \cap DOMAIN changes
        PROVE  /\ changes[r].added \in SUBSET Keys /\ changes[r].current \in BOOLEAN
               /\ changes[r].modified \subseteq views[r].synced \cup changes[r].added
    <3>1. CASE r = q
      BY <1>4, <2>2, <3>1
    <3>2. CASE r # q
      BY <1>1, <2>1, <3>2, CurrentChangeOK
    <3> QED
      BY <3>1, <3>2
  <2>5. ASSUME NEW j \in DOMAIN changes \cap DOMAIN resolutions
        PROVE  changes[j].modified \cup changes[j].removed # {} => resolutions[j]
    BY <1>1, <2>1, <2>3, CurrentChangeOK
  <2> QED
    BY <2>4, <2>5 DEF ChangesOK
<1>10. ApplyRemoteEvent(caughtUp, changes, updated)
  BY <1>2, <1>5, <1>6
<1>11. PICK current : current = caughtUp
  OBVIOUS
<1>12. current \subseteq watched /\ ApplyRemoteEvent(current, changes, updated)
  BY <1>7, <1>10, <1>11
<1> QED
  BY ONLY SyncInv, <1>3, <1>8, <1>9, <1>12, ApplyRemoteEventStep

LEMMA ResetTargetStep ==
    ASSUME SyncInv, NEW q \in Queries, ResetTarget(q)
    PROVE  SyncInv'
<1>1. TypeOK /\ BooksInv
  BY DEF SyncInv
<1>2. PICK changes : changes = [t \in {q} |-> TargetChange({}, {}, views[q].synced, FALSE)]
  OBVIOUS
<1>3. PICK current : current = caughtUp \ {q}
  OBVIOUS
<1>4. PICK updated : updated = {}
  OBVIOUS
<1>5. ApplyRemoteEvent(current, changes, updated) /\ UNCHANGED <<backendVars, online>>
  BY <1>2, <1>3, <1>4 DEF ResetTarget
<1>6. current \subseteq watched /\ updated \subseteq Keys
  BY <1>1, <1>3, <1>4 DEF BooksInv
<1>7. ChangesOK(changes)
  <2>1. DOMAIN changes = {q} /\ changes[q].added = {} /\ changes[q].modified = {} /\ changes[q].current = FALSE
    BY <1>2 DEF TargetChange
  <2>2. q \notin DOMAIN resolutions
    BY <1>1, SyncEngineAssumption DEF BooksInv
  <2> QED
    BY <2>1, <2>2 DEF ChangesOK
<1> QED
  BY ONLY SyncInv, <1>5, <1>6, <1>7, ApplyRemoteEventStep

-----------------------------------------------------------------------------
(* The invariant holds.                                                    *)

LEMMA InitInvariant == Init => SyncInv
<1> SUFFICES ASSUME Init PROVE SyncInv
  OBVIOUS
<1>1. /\ views = [q \in Queries |-> None] /\ snapshots = [q \in Queries |-> None]
      /\ listeners = [l \in Listeners |-> None] /\ pending = [k \in Keys |-> None]
      /\ limboTargets = {} /\ resolutions = [k \in {} |-> FALSE] /\ limboRefs = {}
      /\ watched = {} /\ caughtUp = {} /\ failed = {}
  BY DEF Init
<1>2. TypeOK
  <2>1. watch \in [Keys -> Contents]
    BY SyncEngineAssumption DEF Init
  <2>2. cache \in [Keys -> [val : Contents, committed : BOOLEAN]]
    <3>1. cache \in [Keys -> [val : Cached, committed : {FALSE}]]
      BY DEF Init
    <3>2. Cached \subseteq Contents
      BY SyncEngineAssumption
    <3>3. [val : Cached, committed : {FALSE}] \subseteq [val : Contents, committed : BOOLEAN]
      BY <3>2
    <3> QED
      BY <3>1, <3>3
  <2>3. online \in OnlineStates /\ owed = [k \in Keys |-> None] /\ remoteKeys = [q \in Queries |-> {}]
    BY DEF Init, OnlineStates
  <2> QED
    BY <1>1, <2>1, <2>2, <2>3 DEF TypeOK
<1>3. BatchesOK
  BY <1>1 DEF BatchesOK
<1>4. EventsInv
  BY <1>1 DEF EventsInv, QueryOK, IsTracked
<1>5. ResultInv
  BY <1>1 DEF ResultInv
<1>6. BooksInv
  <2>1. resolutions \in [limboTargets -> BOOLEAN] /\ DOMAIN resolutions = {}
    BY <1>1
  <2>2. {r \in Keys \X Queries : views[r[2]] # None /\ r[1] \in views[r[2]].limbo} = {}
    BY <1>1
  <2>3. {q \in Queries : views[q] # None} = {}
    BY <1>1
  <2> QED
    BY <1>1, <2>1, <2>2, <2>3 DEF BooksInv, LimboBooksAgree
<1> QED
  BY <1>1, <1>2, <1>3, <1>4, <1>5, <1>6 DEF SyncInv, NoHardAssertFails

LEMMA StutterStep ==
    ASSUME SyncInv, UNCHANGED vars
    PROVE  SyncInv'
<1>1. /\ UNCHANGED engineVars /\ UNCHANGED <<cache, remoteKeys, online>>
      /\ watch' = watch /\ owed' = owed /\ pending' = pending /\ cache' = cache
  BY DEF vars, backendVars, storeVars
<1>2. TypeOK /\ BatchesOK
  BY DEF SyncInv
<1>3. watch' \in [Keys -> Contents] /\ owed' \in [Keys -> Committed \cup {None}] /\ pending' \in PendingType
  BY <1>1, <1>2 DEF TypeOK, PendingType
<1>4. BatchesOK'
  BY <1>1, <1>2 DEF BatchesOK
<1>5. \A k \in Keys : LocalDoc(cache'[k], pending'[k]) = LocalDoc(cache[k], pending[k])
  BY <1>1
<1> QED
  BY ONLY SyncInv, <1>1, <1>3, <1>4, <1>5, EngineUnchanged

LEMMA NextStep ==
    ASSUME SyncInv, Next
    PROVE  SyncInv'
<1>1. CASE \E l \in Listeners : RemoveListener(l) \/ \E q \in Queries : AddListener(l, q)
  BY <1>1, RemoveListenerStep, AddListenerStep
<1>2. CASE \E k \in Keys : \E v \in Values \cup {NoDoc} :
            WriteMutation(k, v) \/ Commit(k, v) \/ OtherWrite(k, v)
  <2>1. PICK k \in Keys : \E v \in Values \cup {NoDoc} :
            WriteMutation(k, v) \/ Commit(k, v) \/ OtherWrite(k, v)
    BY <1>2
  <2>2. PICK v \in Contents : WriteMutation(k, v) \/ Commit(k, v) \/ OtherWrite(k, v)
    BY <2>1 DEF Contents
  <2> QED
    BY <2>2, WriteMutationStep, CommitStep, BackendStep
<1>3. CASE \E k \in Keys : Acknowledge(k) \/ RejectWrite(k) \/ CatchUp(k) \/ RejectLimbo(k)
  <2>1. NoDoc \in Contents
    BY DEF Contents
  <2>2. PICK k \in Keys : Acknowledge(k) \/ RejectWrite(k) \/ CatchUp(k) \/ RejectLimbo(k)
    BY <1>3
  <2> QED
    BY <2>1, <2>2, AcknowledgeStep, RejectWriteStep, BackendStep, RejectLimboStep
<1>4. CASE DeliverAll
  BY <1>4, DeliverStep DEF DeliverAll
<1>5. CASE Deliver({})
  BY <1>5, DeliverStep
<1>6. CASE \E t \in watched \ caughtUp : Deliver({t})
  <2>1. PICK t \in watched \ caughtUp : Deliver({t})
    BY <1>6
  <2>2. {t} \subseteq watched
    OBVIOUS
  <2> QED
    BY <2>1, <2>2, DeliverStep
<1>7. CASE \E q \in Queries : DeliverPart(q) \/ ResetTarget(q) \/ RejectQuery(q)
  BY <1>7, DeliverPartStep, ResetTargetStep, RejectQueryStep
<1>8. CASE GoOnline
  <2>1. "Online" \in OnlineStates
    BY DEF OnlineStates
  <2> QED
    BY <1>8, <2>1, ChangeOnlineStateStep DEF GoOnline
<1>9. CASE LoseConnection
  <2>1. {"Offline", "Unknown"} \subseteq OnlineStates
    BY DEF OnlineStates
  <2> QED
    BY <1>9, <2>1, ChangeOnlineStateStep DEF LoseConnection
<1> QED
  BY <1>1, <1>2, <1>3, <1>4, <1>5, <1>6, <1>7, <1>8, <1>9 DEF Next

\* Every operation of the sync engine keeps the inductive invariant: views, limbo
\* documents and listeners are consistent with each other and with the local store
\* whenever the worker queue is between two operations.
THEOREM SyncInvariant == Spec => []SyncInv
<1>1. Init => SyncInv
  BY InitInvariant
<1>2. SyncInv /\ [Next]_vars => SyncInv'
  BY NextStep, StutterStep
<1> QED
  BY <1>1, <1>2, PTL DEF Spec

\* No HARD_ASSERT of FSTView, DocumentViewChangeSet, FSTSyncEngine and the listens of
\* RemoteStore fails, whatever the documents, the limits and the order of events are.
THEOREM NoAssertionFails == Spec => []NoHardAssertFails
<1>1. SyncInv => NoHardAssertFails
  BY DEF SyncInv
<1> QED
  BY <1>1, SyncInvariant, PTL

\* What is listened to is what is resolved, every limbo resolution is needed by a view,
\* and the references are the limbo documents of the views (FSTSyncEngine).
THEOREM BooksOfLimboAgree == Spec => []LimboBooksAgree
<1>1. SyncInv => LimboBooksAgree
  BY DEF SyncInv, BooksInv
<1> QED
  BY <1>1, SyncInvariant, PTL

\* The limit chooses the same documents of a view and of the query's result.
LEMMA ViewOfResult ==
    ASSUME SyncInv, NEW q \in Queries, views[q] # None, \A k \in Keys : ~cache[k].committed,
           NEW docs, docs = views[q].docs,
           NEW matching, matching = [k \in Keys |-> LocalResult(cache, pending, q, k)]
    PROVE  /\ KeysOf(docs) = KeysOf(matching) \ PastLimit(matching, LimitOf[q])
           /\ \A k \in KeysOf(docs) : docs[k].val = matching[k].val
<1>1. TypeOK /\ BatchesOK /\ ShowsResult(docs, cache, pending, q)
  BY DEF SyncInv, ResultInv
<1>2. docs \in Documents /\ LimitOf[q] \in Nat \cup {NoLimit}
  BY <1>1, SyncEngineAssumption DEF TypeOK, ViewState
<1>3. ASSUME NEW k \in Keys
      PROVE  /\ matching[k] = LocalResult(cache, pending, q, k)
             /\ matching[k] \in Document \cup {NoDoc}
             /\ matching[k] # NoDoc => ~matching[k].committed
  <2>1. matching[k] = LocalResult(cache, pending, q, k)
    OBVIOUS
  <2>2. /\ cache[k] \in [val : Contents, committed : BOOLEAN] /\ pending[k] \in Batch \cup {None}
        /\ ~cache[k].committed
    BY <1>1 DEF TypeOK
  <2>3. PICK c : c = cache[k]
    OBVIOUS
  <2>4. PICK p : p = pending[k]
    OBVIOUS
  <2>5. PICK doc : doc = LocalDoc(c, p)
    OBVIOUS
  <2>6. doc \in Document \cup {NoDoc} /\ (doc # NoDoc => ~doc.committed)
    BY ONLY <2>2, <2>3, <2>4, <2>5, ViewAssumption DEF LocalDoc, Document, Contents, Batch
  <2>7. matching[k] = Selected(q, doc)
    BY <2>1, <2>3, <2>4, <2>5 DEF LocalResult
  <2> QED
    BY <2>1, <2>6, <2>7 DEF Selected
<1>4. matching \in Documents
  <2>1. matching = [k \in Keys |-> matching[k]]
    OBVIOUS
  <2> QED
    BY <1>3, <2>1 DEF Documents
<1>5. PICK candidates : candidates = Candidates(docs, cache, pending, q)
  OBVIOUS
<1>6. \A k \in Keys : candidates[k] = IF docs[k] # NoDoc THEN docs[k] ELSE matching[k]
  <2>1. ASSUME NEW k \in Keys
        PROVE candidates[k] = IF docs[k] # NoDoc THEN docs[k]
                              ELSE IF matching[k] # NoDoc /\ ~matching[k].committed THEN matching[k] ELSE NoDoc
    BY <1>3, <1>5 DEF Candidates
  <2> QED
    BY <1>3, <2>1
<1>7. ASSUME NEW k \in KeysOf(docs)
      PROVE  k \in Keys /\ docs[k] # NoDoc /\ matching[k] # NoDoc /\ docs[k].val = matching[k].val
  <2>1. k \in Keys /\ docs[k] # NoDoc
    BY DEF KeysOf
  <2>2. IsFresh(docs[k], matching[k])
    BY <1>1, <1>3, <2>1 DEF ShowsResult
  <2> QED
    BY <1>3, <2>1, <2>2 DEF IsFresh, ShouldWaitForSyncedDocument
<1>8. candidates \in Documents
  <2>1. candidates = [k \in Keys |-> candidates[k]]
    BY <1>5 DEF Candidates
  <2>2. \A k \in Keys : candidates[k] \in Document \cup {NoDoc}
    BY <1>2, <1>3, <1>6 DEF Documents
  <2> QED
    BY <2>1, <2>2 DEF Documents
<1>9. \A k \in Keys : /\ candidates[k] # NoDoc <=> matching[k] # NoDoc
                      /\ matching[k] # NoDoc => candidates[k].val = matching[k].val
  BY <1>6, <1>7 DEF KeysOf
<1>10. KeysOf(candidates) = KeysOf(matching)
  BY <1>9 DEF KeysOf
<1>11. \A k \in KeysOf(candidates) : k \in KeysOf(matching) /\ candidates[k].val = matching[k].val
  BY <1>9, <1>10 DEF KeysOf
<1>12. KeysOf(candidates) \ PastLimit(candidates, LimitOf[q]) = KeysOf(matching) \ PastLimit(matching, LimitOf[q])
  <2>1. PICK limit \in Nat \cup {NoLimit} : limit = LimitOf[q]
    BY <1>2
  <2>2. \A k \in KeysOf(matching) : k \in PastLimit(matching, limit) \/ k \in KeysOf(candidates)
    BY <1>10
  <2>3. KeysOf(candidates) \ PastLimit(candidates, limit) = KeysOf(matching) \ PastLimit(matching, limit)
    BY ONLY <1>4, <1>8, <1>11, <2>2, LimitOfFewer
  <2> QED
    BY ONLY <2>1, <2>3, Zenon
<1>13. KeysOf(docs) = KeysOf(candidates) \ PastLimit(candidates, LimitOf[q])
  BY <1>1, <1>5 DEF ShowsResult
<1> QED
  BY <1>7, <1>12, <1>13

\* Computed change by change, with refills, a view of FSTView shows what the query and
\* its limit select of the local documents, while no commit of ours is awaited.
THEOREM ViewsAreQueryResults == Spec => []ViewIsQueryResult
<1>1. ASSUME SyncInv PROVE ViewIsQueryResult
  <2>1. SUFFICES ASSUME NEW q \in Queries, views[q] # None, \A k \in Keys : ~cache[k].committed
                 PROVE  LET docs == LocalDocs(cache, pending, Keys)
                            matching == [k \in Keys |-> IF docs[k] # NoDoc /\ Matches(q, docs[k].val)
                                                        THEN docs[k] ELSE NoDoc]
                            past == PastLimit(matching, LimitOf[q])
                        IN  \A k \in Keys :
                                /\ (views[q].docs[k] # NoDoc) = (matching[k] # NoDoc /\ k \notin past)
                                /\ views[q].docs[k] # NoDoc => views[q].docs[k].val = docs[k].val
    BY Zenon DEF ViewIsQueryResult
  <2> DEFINE docs == LocalDocs(cache, pending, Keys)
             matching == [k \in Keys |-> IF docs[k] # NoDoc /\ Matches(q, docs[k].val)
                                         THEN docs[k] ELSE NoDoc]
             past == PastLimit(matching, LimitOf[q])
  <2>2. PICK shown : shown = views[q].docs
    OBVIOUS
  <2>3. matching = [k \in Keys |-> LocalResult(cache, pending, q, k)]
    BY DEF LocalDocs, LocalResult, Selected
  <2>4. \A k \in Keys : matching[k] # NoDoc => matching[k] = docs[k]
    OBVIOUS
  <2>5. PICK m : m = matching
    OBVIOUS
  <2>6. /\ KeysOf(shown) = KeysOf(m) \ PastLimit(m, LimitOf[q])
        /\ \A k \in KeysOf(shown) : shown[k].val = m[k].val
    BY ONLY <1>1, <2>1, <2>2, <2>3, <2>5, ViewOfResult
  <2>7. ASSUME NEW k \in Keys
        PROVE  /\ shown[k] # NoDoc <=> m[k] # NoDoc /\ k \notin PastLimit(m, LimitOf[q])
               /\ shown[k] # NoDoc => shown[k].val = m[k].val
    BY <2>6 DEF KeysOf
  <2>8. \A k \in Keys : /\ shown[k] # NoDoc <=> matching[k] # NoDoc /\ k \notin past
                        /\ shown[k] # NoDoc => shown[k].val = docs[k].val
    BY ONLY <2>4, <2>5, <2>7
  <2> HIDE DEF docs, matching, past
  <2>9. \A k \in Keys : /\ (views[q].docs[k] # NoDoc) = (matching[k] # NoDoc /\ k \notin past)
                        /\ views[q].docs[k] # NoDoc => views[q].docs[k].val = docs[k].val
    BY ONLY <2>2, <2>8
  <2> QED
    BY ONLY <2>9, Zenon DEF docs, matching, past
<1> QED
  BY <1>1, SyncInvariant, PTL

\* Who adds up the changes of the events that QueryListener raises has the documents of
\* the view, whatever it was not told and in whatever order things came.
THEOREM EventsAddUp == Spec => []EventsAddUpToView
<1>1. ASSUME SyncInv PROVE EventsAddUpToView
  <2>1. SUFFICES ASSUME NEW l \in Listeners, listeners[l] # None, listeners[l].raised, NEW k \in Keys
                 PROVE  LET docs == views[listeners[l].query].docs  heard == listeners[l].heard
                        IN  /\ (heard[k] = NoDoc) = (docs[k] = NoDoc)
                            /\ docs[k] # NoDoc => heard[k].val = docs[k].val
    BY Zenon DEF EventsAddUpToView
  <2>2. ListenerOK(listeners[l], views[listeners[l].query], online)
    BY <1>1, <2>1 DEF SyncInv, EventsInv
  <2>3. Agree(listeners[l].heard, views[listeners[l].query].docs)
    BY <2>1, <2>2 DEF ListenerOK
  <2>4. Same(listeners[l].heard[k], views[listeners[l].query].docs[k])
    BY <2>3 DEF Agree
  <2> QED
    BY ONLY <2>4 DEF Same
<1> QED
  BY <1>1, SyncInvariant, PTL

\* A QueryListener that has raised nothing holds back a snapshot that may not be raised
\* in the present online state.
THEOREM FirstEventsAreNotMissed == Spec => []FirstEventIsNotMissed
<1>1. ASSUME SyncInv, NEW l \in Listeners, listeners[l] # None, ~listeners[l].raised
      PROVE  /\ views[listeners[l].query] # None
             /\ listeners[l].snapshot # None
             /\ views[listeners[l].query].syncState # "Synced"
             /\ listeners[l].options.waitForSync \/ KeysOf(views[listeners[l].query].docs) = {}
             /\ online # "Offline"
  <2>1. TypeOK /\ EventsInv
    BY <1>1 DEF SyncInv
  <2>2. PICK listener : listener = listeners[l]
    OBVIOUS
  <2>3. listener \in Listener /\ listener.query \in Queries
    BY <1>1, <2>1, <2>2 DEF TypeOK, Listener
  <2>4. PICK q \in Queries : q = listener.query
    BY <2>3
  <2>5. IsTracked(listeners, q)
    BY <1>1, <2>2, <2>4 DEF IsTracked
  <2>6. QueryOK(q)
    BY <2>1 DEF EventsInv
  <2>7. views[q] # None
    BY <2>5, <2>6 DEF QueryOK
  <2>8. PICK view : view = views[q]
    OBVIOUS
  <2>9. PICK snapshot : snapshot = listener.snapshot
    OBVIOUS
  <2>10. /\ IsSnapshotOf(snapshot, view)
         /\ ~ShouldRaiseInitialEvent(listener, snapshot, online)
    BY <1>1, <2>1, <2>2, <2>4, <2>8, <2>9 DEF EventsInv, ListenerOK
  <2>11. /\ snapshot \in Snapshot /\ Agree(snapshot.docs, view.docs)
         /\ (snapshot.fromCache <=> view.syncState = "Local")
    BY <2>10 DEF IsSnapshotOf
  <2>12. KeysOf(snapshot.docs) = KeysOf(view.docs)
    BY <2>11 DEF Agree, Same, KeysOf
  <2>13. snapshot.fromCache /\ online # "Offline" /\ (listener.options.waitForSync \/ KeysOf(snapshot.docs) = {})
    BY <2>10 DEF ShouldRaiseInitialEvent
  <2>14. snapshot # None
    BY <2>11, ViewAssumption
  <2> QED
    BY ONLY <2>2, <2>4, <2>7, <2>8, <2>9, <2>11, <2>12, <2>13, <2>14
<1>2. ASSUME SyncInv PROVE FirstEventIsNotMissed
  BY <1>1, <1>2 DEF FirstEventIsNotMissed
<1> QED
  BY <1>2, SyncInvariant, PTL
===============================================================================
