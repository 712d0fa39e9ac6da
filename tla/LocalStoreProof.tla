--------------------------- MODULE LocalStoreProof ---------------------------
(***************************************************************************)
(* Proofs about LocalStore, for any keys, queries, contents and settings   *)
(* of the collector: what is leaked is a stray update of watch and nothing *)
(* else, no target loses a document, and what a write or a view has pinned *)
(* is kept.                                                                *)
(*                                                                         *)
(* The operations are compositions of functions on a store, so the         *)
(* invariant is a predicate of a store.  In the middle of a transaction it *)
(* holds but for some keys: X, whose end of use the delegate has yet to    *)
(* hear of or never will, and Y, whose document is yet to be cached.       *)
(***************************************************************************)
EXTENDS LocalStore, TLAPS, SequenceTheorems

-----------------------------------------------------------------------------
(* The inductive invariant.                                                *)

Document == [matches : SUBSET Queries, committed : BOOLEAN]
Target == [seq : Nat, keys : SUBSET Keys]
Batch == [key : Keys, matches : SUBSET Queries]

Stores ==
    [cache : [Keys -> Document \cup {None}], batches : Seq(Batch),
     targets : [Queries -> Target \cup {None}], sentinel : [Keys -> Nat \cup {None}],
     highest : Nat, clock : Nat, active : SUBSET Queries,
     localRefs : SUBSET (Keys \X Queries), views : [Queries -> SUBSET Keys],
     orphaned : SUBSET Keys]

\* Only active queries have views and references of views.
ViewsOK(s) ==
    /\ \A r \in s.localRefs : r[2] \in s.active
    /\ \A q \in Queries \ s.active : s.views[q] = {}

\* Active queries have targets, with eager collection no other query has one, and the
\* documents of a target, but for Y, are cached.
TargetsOK(s, Y) ==
    /\ \A q \in s.active : IsTarget(s, q)
    /\ IsEager => \A q \in Queries : IsTarget(s, q) => q \in s.active
    /\ \A q \in Queries : IsTarget(s, q) => \A k \in s.targets[q].keys \ Y : IsCached(s, k)

\* A cached document, but for X, is referenced, or the delegate knows that it may not be;
\* the LRU delegate has a row for it.
KeptOK(s, X) ==
    \A k \in Keys \ X : IsCached(s, k) =>
        IF IsEager THEN IsReferenced(s, k) \/ k \in s.orphaned ELSE s.sentinel[k] # None

StoreOK(s, X) == s \in Stores /\ ViewsOK(s) /\ TargetsOK(s, {}) /\ KeptOK(s, X)

StoreInv ==
    /\ delegate \in {"eager", "lru"}
    /\ Store \in Stores /\ ViewsOK(Store) /\ TargetsOK(Store, {})

-----------------------------------------------------------------------------
(* The reference delegates.                                                *)

LEMMA NoneIsNothing ==
    /\ None \notin Nat /\ None \notin Document /\ None \notin Target
BY LocalStoreAssumption DEF Document, Target

\* The fields of a store.
LEMMA StoreFields ==
    ASSUME NEW s \in Stores
    PROVE  /\ s.cache \in [Keys -> Document \cup {None}] /\ s.batches \in Seq(Batch)
           /\ s.targets \in [Queries -> Target \cup {None}]
           /\ s.sentinel \in [Keys -> Nat \cup {None}]
           /\ s.highest \in Nat /\ s.clock \in Nat /\ s.active \in SUBSET Queries
           /\ s.localRefs \in SUBSET (Keys \X Queries)
           /\ s.views \in [Queries -> SUBSET Keys] /\ s.orphaned \in SUBSET Keys
BY DEF Stores

\* All but what the delegate keeps is the same.
SameButDelegate(s, t) ==
    /\ t.cache = s.cache /\ t.batches = s.batches /\ t.targets = s.targets
    /\ t.highest = s.highest /\ t.clock = s.clock /\ t.active = s.active
    /\ t.localRefs = s.localRefs /\ t.views = s.views

LEMMA WriteSentinelsFields ==
    ASSUME NEW s \in Stores, NEW ks, NEW t, t = WriteSentinels(s, ks)
    PROVE  /\ t \in Stores /\ SameButDelegate(s, t) /\ t.orphaned = s.orphaned
           /\ \A k \in Keys : t.sentinel[k] = IF k \in ks THEN s.clock ELSE s.sentinel[k]
<1>1. PICK f \in [Keys -> Nat \cup {None}] :
        f = [k \in Keys |-> IF k \in ks THEN s.clock ELSE s.sentinel[k]]
  BY StoreFields
<1>2. t = [s EXCEPT !.sentinel = f]
  BY <1>1 DEF WriteSentinels
<1>3. t \in Stores /\ t.sentinel = f
  BY <1>2 DEF Stores
<1>4. SameButDelegate(s, t) /\ t.orphaned = s.orphaned
  BY <1>2 DEF Stores, SameButDelegate
<1>5. QED BY <1>1, <1>3, <1>4

LEMMA RemoveReferencesFields ==
    ASSUME NEW s \in Stores, NEW ks \in SUBSET Keys, NEW t, t = RemoveReferences(s, ks)
    PROVE  /\ t \in Stores /\ SameButDelegate(s, t)
           /\ IsEager => t.sentinel = s.sentinel /\ t.orphaned = s.orphaned \cup ks
           /\ ~IsEager =>
                /\ t.orphaned = s.orphaned
                /\ \A k \in Keys : t.sentinel[k] = IF k \in ks THEN s.clock ELSE s.sentinel[k]
<1>1. CASE IsEager
  <2>1. t = [s EXCEPT !.orphaned = s.orphaned \cup ks]
    BY <1>1 DEF RemoveReferences
  <2>2. QED BY <1>1, <2>1, StoreFields DEF Stores, SameButDelegate
<1>2. CASE ~IsEager
  BY <1>2, WriteSentinelsFields DEF RemoveReferences
<1>3. QED BY <1>1, <1>2

LEMMA AddReferencesFields ==
    ASSUME NEW s \in Stores, NEW ks \in SUBSET Keys, NEW t, t = AddReferences(s, ks)
    PROVE  /\ t \in Stores /\ SameButDelegate(s, t)
           /\ IsEager => t.sentinel = s.sentinel /\ t.orphaned = s.orphaned \ ks
           /\ ~IsEager =>
                /\ t.orphaned = s.orphaned
                /\ \A k \in Keys : t.sentinel[k] = IF k \in ks THEN s.clock ELSE s.sentinel[k]
<1>1. CASE IsEager
  <2>1. t = [s EXCEPT !.orphaned = s.orphaned \ ks]
    BY <1>1 DEF AddReferences
  <2>2. QED BY <1>1, <2>1, StoreFields DEF Stores, SameButDelegate
<1>2. CASE ~IsEager
  BY <1>2, WriteSentinelsFields DEF AddReferences
<1>3. QED BY <1>1, <1>2

LEMMA KeptWeaker ==
    ASSUME NEW s, NEW X, NEW W, X \subseteq W, KeptOK(s, X)
    PROVE  KeptOK(s, W)
BY DEF KeptOK

\* The delegate is told of keys that may have lost their last reference.
LEMMA RemoveReferencesOK ==
    ASSUME NEW s \in Stores, NEW ks \in SUBSET Keys, NEW t, t = RemoveReferences(s, ks),
           NEW X, KeptOK(s, X)
    PROVE  /\ t \in Stores /\ SameButDelegate(s, t)
           /\ KeptOK(t, X \ ks)
           /\ ViewsOK(s) => ViewsOK(t)
           /\ \A Y : TargetsOK(s, Y) => TargetsOK(t, Y)
<1>1. /\ t \in Stores /\ SameButDelegate(s, t)
      /\ IsEager => t.sentinel = s.sentinel /\ t.orphaned = s.orphaned \cup ks
      /\ ~IsEager =>
            /\ t.orphaned = s.orphaned
            /\ \A k \in Keys : t.sentinel[k] = IF k \in ks THEN s.clock ELSE s.sentinel[k]
  BY RemoveReferencesFields
<1>2. s.clock # None
  BY StoreFields, NoneIsNothing
<1>3. KeptOK(t, X \ ks)
  <2>1. \A k : IsReferenced(t, k) <=> IsReferenced(s, k)
    BY <1>1 DEF SameButDelegate, IsReferenced, Contained, IsTarget, MutationQueuesContain, InLocalView
  <2>2. SUFFICES ASSUME NEW k \in Keys \ (X \ ks), IsCached(t, k)
                 PROVE  IF IsEager THEN IsReferenced(t, k) \/ k \in t.orphaned
                        ELSE t.sentinel[k] # None
    BY DEF KeptOK
  <2>3. IsCached(s, k)
    BY <1>1, <2>2 DEF IsCached, SameButDelegate
  <2>4. k \notin ks => IF IsEager THEN IsReferenced(s, k) \/ k \in s.orphaned
                       ELSE s.sentinel[k] # None
    BY <2>2, <2>3 DEF KeptOK
  <2>5. QED BY <1>1, <1>2, <2>1, <2>2, <2>4
<1>4. ViewsOK(s) => ViewsOK(t)
  BY <1>1 DEF SameButDelegate, ViewsOK
<1>5. \A Y : TargetsOK(s, Y) => TargetsOK(t, Y)
  BY <1>1 DEF SameButDelegate, TargetsOK, IsTarget, IsCached
<1>6. QED BY <1>1, <1>3, <1>4, <1>5

-----------------------------------------------------------------------------
(* Transactions.                                                           *)

LEMMA StartTransactionOK ==
    ASSUME NEW s \in Stores, s.orphaned = {}, NEW t, t = StartTransaction(s)
    PROVE  /\ t \in Stores /\ t.clock \in Nat /\ t.orphaned = {}
           /\ t.cache = s.cache /\ t.batches = s.batches /\ t.targets = s.targets
           /\ t.sentinel = s.sentinel /\ t.highest = s.highest /\ t.active = s.active
           /\ t.localRefs = s.localRefs /\ t.views = s.views
           /\ \A X : StoreOK(s, X) => StoreOK(t, X)
<1>1. PICK n \in Nat : n = IF IsEager THEN s.clock ELSE s.clock + 1
  BY StoreFields
<1>2. t = [s EXCEPT !.clock = n, !.orphaned = {}]
  BY <1>1 DEF StartTransaction
<1>3. /\ t \in Stores /\ t.clock \in Nat /\ t.orphaned = {}
      /\ t.cache = s.cache /\ t.batches = s.batches /\ t.targets = s.targets
      /\ t.sentinel = s.sentinel /\ t.highest = s.highest /\ t.active = s.active
      /\ t.localRefs = s.localRefs /\ t.views = s.views
  BY <1>2 DEF Stores
<1>4. ViewsOK(s) => ViewsOK(t)
  BY <1>3 DEF ViewsOK
<1>5. TargetsOK(s, {}) => TargetsOK(t, {})
  BY <1>3 DEF TargetsOK, IsTarget, IsCached
<1>6. \A X : KeptOK(s, X) => KeptOK(t, X)
  BY <1>3 DEF KeptOK, IsCached, IsReferenced, Contained, IsTarget, MutationQueuesContain, InLocalView
<1>7. QED BY <1>3, <1>4, <1>5, <1>6 DEF StoreOK

\* The eager delegate removes what is orphaned and not referenced: this completes the
\* invariant, and takes no document from a write or a view.
LEMMA CommitTransactionOK ==
    ASSUME NEW s \in Stores, NEW X, StoreOK(s, X), NEW t, t = CommitTransaction(s)
    PROVE  /\ StoreOK(t, X) /\ t.orphaned = {} /\ t.targets = s.targets
           /\ t.batches = s.batches /\ t.active = s.active /\ t.localRefs = s.localRefs
           /\ t.views = s.views
           /\ \A k \in Keys : IsCached(s, k) /\ ~IsCached(t, k) => ~IsReferenced(s, k)
<1>1. PICK f \in [Keys -> Document \cup {None}] :
        f = [k \in Keys |-> IF k \in s.orphaned /\ ~IsReferenced(s, k) THEN None ELSE s.cache[k]]
  BY StoreFields
<1>2. t = [s EXCEPT !.cache = f, !.orphaned = {}]
  BY <1>1 DEF CommitTransaction
<1>3. /\ t \in Stores /\ t.orphaned = {} /\ t.cache = f
      /\ t.batches = s.batches /\ t.targets = s.targets
      /\ t.sentinel = s.sentinel /\ t.active = s.active
      /\ t.localRefs = s.localRefs /\ t.views = s.views
  BY <1>2 DEF Stores
<1>4. \A k : IsReferenced(t, k) <=> IsReferenced(s, k)
  BY <1>3 DEF IsReferenced, Contained, IsTarget, MutationQueuesContain, InLocalView
<1>5. \A k \in Keys : IsCached(t, k) <=> IsCached(s, k) /\ ~(k \in s.orphaned /\ ~IsReferenced(s, k))
  BY <1>1, <1>3 DEF IsCached
<1>6. KeptOK(t, X)
  BY <1>3, <1>4, <1>5 DEF StoreOK, KeptOK
<1>7. TargetsOK(t, {})
  <2>1. ASSUME NEW q \in Queries, IsTarget(s, q), NEW k \in s.targets[q].keys
        PROVE  IsCached(t, k)
    <3>1. k \in Keys
      BY <2>1, StoreFields DEF Target, IsTarget
    <3>2. IsCached(s, k) /\ IsReferenced(s, k)
      BY <2>1 DEF StoreOK, TargetsOK, IsReferenced, Contained
    <3>3. QED BY <1>5, <3>1, <3>2
  <2>2. QED BY <1>3, <2>1 DEF StoreOK, TargetsOK, IsTarget
<1>8. ViewsOK(t)
  BY <1>3 DEF StoreOK, ViewsOK
<1>9. QED BY <1>3, <1>5, <1>6, <1>7, <1>8 DEF StoreOK

-----------------------------------------------------------------------------
(* Views.                                                                  *)

\* The changes of views become references, and keys that left a view are reported.
LEMMA NotifyLocalViewChangesOK ==
    ASSUME NEW s \in Stores, NEW X, StoreOK(s, X), NEW newViews \in [Queries -> SUBSET Keys],
           \A q \in Queries \ s.active : newViews[q] = {},
           NEW t, t = NotifyLocalViewChanges(s, newViews)
    PROVE  /\ StoreOK(t, X)
           /\ t.cache = s.cache /\ t.batches = s.batches /\ t.active = s.active
           /\ t.targets = s.targets /\ s.localRefs \subseteq t.localRefs
<1> DEFINE Removed(q) == s.views[q] \ newViews[q]
           Added(q) == newViews[q] \ s.views[q]
           gone == UNION {Removed(q) : q \in Queries}
           refs == {r \in Keys \X Queries : r[1] \in Added(r[2]) \cup Removed(r[2])}
<1>1. gone \in SUBSET Keys
  BY StoreFields
<1>2. \A r \in refs : r \in Keys \X Queries /\ r[2] \in s.active
  BY DEF StoreOK, ViewsOK
<1>3. PICK u : u = RemoveReferences(s, gone)
  OBVIOUS
<1>4. t = [u EXCEPT !.views = newViews, !.localRefs = u.localRefs \cup refs]
  BY <1>3 DEF NotifyLocalViewChanges
<1> HIDE DEF gone, refs
<1>5. u \in Stores /\ SameButDelegate(s, u) /\ KeptOK(u, X) /\ TargetsOK(u, {}) /\ ViewsOK(u)
  <2>1. /\ u \in Stores /\ SameButDelegate(s, u) /\ KeptOK(u, X \ gone)
        /\ TargetsOK(u, {}) /\ ViewsOK(u)
    BY <1>1, <1>3, RemoveReferencesOK DEF StoreOK
  <2>2. X \ gone \subseteq X
    OBVIOUS
  <2>3. KeptOK(u, X)
    BY <2>1, <2>2, KeptWeaker
  <2>4. QED BY <2>1, <2>3
<1>6. u.localRefs \cup refs \in SUBSET (Keys \X Queries)
  BY <1>2, <1>5, StoreFields
<1>7. t \in Stores
  BY <1>4, <1>5, <1>6 DEF Stores
<1>8. /\ t.cache = u.cache /\ t.batches = u.batches /\ t.targets = u.targets
      /\ t.sentinel = u.sentinel /\ t.active = u.active /\ t.orphaned = u.orphaned
      /\ t.views = newViews /\ t.localRefs = u.localRefs \cup refs
  BY <1>4, <1>5 DEF Stores
<1>9. ViewsOK(t)
  BY <1>2, <1>5, <1>8 DEF ViewsOK, SameButDelegate
<1>10. TargetsOK(t, {})
  BY <1>5, <1>8 DEF TargetsOK, IsTarget, IsCached
<1>11. KeptOK(t, X)
  <2>1. \A k : IsReferenced(u, k) => IsReferenced(t, k)
    BY <1>8 DEF IsReferenced, Contained, IsTarget, MutationQueuesContain, InLocalView
  <2>2. QED BY <1>5, <1>8, <2>1 DEF KeptOK, IsCached
<1>12. QED BY <1>5, <1>7, <1>8, <1>9, <1>10, <1>11 DEF StoreOK, SameButDelegate

\* Both transactions keep the invariant, and what they take from the cache was not
\* referenced at the commit of the first.
LEMMA CommitAndEmitOK ==
    ASSUME NEW s \in Stores, NEW X, StoreOK(s, X), NEW changed \in SUBSET Keys,
           NEW t, t = CommitAndEmit(s, changed)
    PROVE  /\ StoreOK(t, X) /\ t.orphaned = {} /\ t.targets = s.targets
           /\ t.batches = s.batches /\ t.active = s.active
           /\ \A k \in Keys : IsCached(s, k) /\ ~IsCached(t, k) =>
                ~MutationQueuesContain(s, k) /\ ~InLocalView(s, k)
<1>1. PICK newViews : newViews = [q \in Queries |-> NewView(s, q, changed)]
  OBVIOUS
<1>2. newViews \in [Queries -> SUBSET Keys] /\ \A q \in Queries \ s.active : newViews[q] = {}
  BY <1>1, StoreFields DEF NewView
<1>3. PICK a : a = CommitTransaction(s)
  OBVIOUS
<1>4. PICK b : b = StartTransaction(a)
  OBVIOUS
<1>5. PICK c : c = NotifyLocalViewChanges(b, newViews)
  OBVIOUS
<1>6. t = CommitTransaction(c)
  BY <1>1, <1>3, <1>4, <1>5 DEF CommitAndEmit
<1>7. /\ StoreOK(a, X) /\ a.orphaned = {} /\ a \in Stores /\ a.targets = s.targets
      /\ a.batches = s.batches /\ a.active = s.active /\ a.localRefs = s.localRefs
      /\ \A k \in Keys : IsCached(s, k) /\ ~IsCached(a, k) => ~IsReferenced(s, k)
  BY <1>3, CommitTransactionOK DEF StoreOK
<1>8. /\ StoreOK(b, X) /\ b \in Stores /\ b.cache = a.cache /\ b.targets = a.targets
      /\ b.batches = a.batches /\ b.active = a.active /\ b.localRefs = a.localRefs
  BY <1>4, <1>7, StartTransactionOK
<1>9. /\ StoreOK(c, X) /\ c \in Stores /\ c.cache = b.cache /\ c.targets = b.targets
      /\ c.batches = b.batches /\ c.active = b.active /\ b.localRefs \subseteq c.localRefs
  <2>1. \A q \in Queries \ b.active : newViews[q] = {}
    BY <1>2, <1>7, <1>8
  <2>2. QED BY <1>2, <1>5, <1>8, <2>1, NotifyLocalViewChangesOK DEF StoreOK
<1>10. /\ StoreOK(t, X) /\ t.orphaned = {} /\ t.targets = c.targets
       /\ t.batches = c.batches /\ t.active = c.active
       /\ \A k \in Keys : IsCached(c, k) /\ ~IsCached(t, k) => ~IsReferenced(c, k)
  BY <1>6, <1>9, CommitTransactionOK
<1>11. ASSUME NEW k \in Keys, IsCached(s, k), ~IsCached(t, k)
       PROVE  ~MutationQueuesContain(s, k) /\ ~InLocalView(s, k)
  <2>1. CASE ~IsCached(a, k)
    BY <1>7, <1>11, <2>1 DEF IsReferenced
  <2>2. CASE IsCached(a, k)
    <3>1. IsCached(c, k)
      BY <1>8, <1>9, <2>2 DEF IsCached
    <3>2. ~MutationQueuesContain(c, k) /\ ~InLocalView(c, k)
      BY <1>10, <1>11, <3>1 DEF IsReferenced
    <3>3. c.batches = s.batches /\ s.localRefs \subseteq c.localRefs
      BY <1>7, <1>8, <1>9
    <3>4. QED BY <3>2, <3>3 DEF MutationQueuesContain, InLocalView
  <2>3. QED BY <2>1, <2>2
<1>12. QED BY <1>7, <1>8, <1>9, <1>10, <1>11

-----------------------------------------------------------------------------
(* Every step keeps the invariant and what is pinned.                      *)

\* What a step does to a document that it takes from the cache.
PinnedStep ==
    \A k \in Keys : IsCached(Store, k) /\ cache'[k] = None =>
        /\ ~\E i \in DOMAIN batches' : batches'[i].key = k
        /\ ~\E q \in active' : <<k, q>> \in localRefs /\ <<k, q>> \in localRefs'

\* The keys that are leaked, and that a step leaks no others than those of X.
Leaked == {k \in Keys : IsLeaked(Store, k)}
LeaksStayIn(X) == \A k \in Keys \ X : ~IsLeaked(Store', k)

LEMMA StoreIs ==
    /\ Store.cache = cache /\ Store.batches = batches /\ Store.targets = targets
    /\ Store.sentinel = sentinel /\ Store.highest = highest /\ Store.clock = clock
    /\ Store.active = active /\ Store.localRefs = localRefs /\ Store.views = views
    /\ Store.orphaned = {}
BY DEF Store

LEMMA BecomeOK ==
    ASSUME StoreInv, NEW X, NEW t, Become(t), StoreOK(t, X), t.orphaned = {},
           \A k \in Keys : cache[k] # None /\ t.cache[k] = None =>
                /\ ~MutationQueuesContain(t, k)
                /\ \A q \in t.active : ~(<<k, q>> \in localRefs /\ <<k, q>> \in t.localRefs)
    PROVE  StoreInv' /\ PinnedStep /\ LeaksStayIn(X)
<1>1. /\ cache' = t.cache /\ batches' = t.batches
      /\ targets' = t.targets /\ sentinel' = t.sentinel
      /\ highest' = t.highest /\ clock' = t.clock
      /\ active' = t.active /\ localRefs' = t.localRefs /\ views' = t.views
      /\ delegate' = delegate
  BY DEF Become
<1>2. t \in Stores
  BY DEF StoreOK
<1>3. [cache |-> cache', batches |-> batches', targets |-> targets', sentinel |-> sentinel',
       highest |-> highest', clock |-> clock', active |-> active', localRefs |-> localRefs',
       views |-> views', orphaned |-> {}] = t
  BY <1>1, <1>2 DEF Stores
<1>4. Store' = t /\ (IsEager' <=> IsEager)
  BY <1>1, <1>3 DEF Store, IsEager
<1>5. StoreInv'
  <2>1. ViewsOK(Store)'
    BY <1>4 DEF ViewsOK, StoreOK
  <2>2. TargetsOK(Store, {})'
    BY <1>4 DEF TargetsOK, StoreOK, IsTarget, IsCached
  <2>3. (Store \in Stores)'
    BY <1>2, <1>4 DEF Stores, Document, Target, Batch
  <2>4. QED BY <1>1, <2>1, <2>2, <2>3 DEF StoreInv
<1>6. PinnedStep
  BY <1>1, StoreIs DEF PinnedStep, IsCached, MutationQueuesContain
<1>7. LeaksStayIn(X)
  <2>1. ASSUME NEW k \in Keys \ X PROVE ~IsLeaked(t, k)
    BY DEF StoreOK, KeptOK, IsLeaked
  <2>2. QED BY <1>4, <2>1 DEF LeaksStayIn
<1>8. QED BY <1>5, <1>6, <1>7

\* An operation that ends with the commit and the changes of views.
LEMMA EmitStep ==
    ASSUME StoreInv, NEW X, NEW s, StoreOK(s, X), s.localRefs = localRefs,
           \A k \in Keys : cache[k] # None => s.cache[k] # None,
           NEW changed \in SUBSET Keys, Become(CommitAndEmit(s, changed))
    PROVE  StoreInv' /\ PinnedStep /\ LeaksStayIn(X) /\ targets' = s.targets
<1>1. PICK t : t = CommitAndEmit(s, changed)
  OBVIOUS
<1>2. /\ StoreOK(t, X) /\ t.orphaned = {} /\ t.batches = s.batches
      /\ t.targets = s.targets
      /\ \A k \in Keys : IsCached(s, k) /\ ~IsCached(t, k) =>
            ~MutationQueuesContain(s, k) /\ ~InLocalView(s, k)
  BY <1>1, CommitAndEmitOK DEF StoreOK
<1>3. ASSUME NEW k \in Keys, cache[k] # None, t.cache[k] = None
      PROVE  /\ ~MutationQueuesContain(t, k)
             /\ \A q \in t.active : ~(<<k, q>> \in localRefs /\ <<k, q>> \in t.localRefs)
  <2>1. ~MutationQueuesContain(s, k) /\ ~InLocalView(s, k)
    BY <1>2, <1>3 DEF IsCached
  <2>2. t.active \subseteq Queries
    BY <1>2, StoreFields DEF StoreOK
  <2>3. QED BY <1>2, <2>1, <2>2 DEF MutationQueuesContain, InLocalView
<1>4. Become(t)
  BY <1>1
<1>5. targets' = t.targets
  BY <1>4 DEF Become
<1>6. QED BY <1>2, <1>3, <1>4, <1>5, BecomeOK

\* The store at the start of a transaction.
LEMMA Started ==
    ASSUME StoreInv, NEW X, KeptOK(Store, X), NEW s, s = StartTransaction(Store)
    PROVE  /\ StoreOK(s, X) /\ s \in Stores /\ s.orphaned = {}
           /\ s.cache = cache /\ s.batches = batches /\ s.targets = targets
           /\ s.sentinel = sentinel /\ s.highest = highest /\ s.active = active
           /\ s.localRefs = localRefs /\ s.views = views
BY StartTransactionOK, StoreIs DEF StoreInv, StoreOK

LEMMA AllocateQueryStep ==
    ASSUME StoreInv, NEW X, KeptOK(Store, X), NEW q \in Queries, AllocateQuery(q)
    PROVE  StoreInv' /\ PinnedStep /\ LeaksStayIn(X)
<1>1. PICK s : s = StartTransaction(Store)
  OBVIOUS
<1>2. /\ StoreOK(s, X) /\ s \in Stores /\ s.orphaned = {}
      /\ s.cache = cache /\ s.batches = batches /\ s.targets = targets
      /\ s.sentinel = sentinel /\ s.highest = highest /\ s.active = active
      /\ s.localRefs = localRefs /\ s.views = views
  BY <1>1, Started
<1>3. PICK t : t = IF IsTarget(s, q) THEN s ELSE SaveTarget(s, q, [seq |-> s.clock, keys |-> {}])
  OBVIOUS
<1>4. /\ t \in Stores /\ t.orphaned = {} /\ t.cache = s.cache /\ t.batches = s.batches
      /\ t.sentinel = s.sentinel /\ t.active = s.active /\ t.localRefs = s.localRefs
      /\ t.views = s.views
      /\ IsTarget(t, q)
      /\ \A r \in Queries : r # q => t.targets[r] = s.targets[r]
      /\ t.targets[q] = s.targets[q] \/ t.targets[q].keys = {}
      /\ IsTarget(s, q) => t.targets = s.targets
  <2>1. CASE IsTarget(s, q)
    BY <1>2, <1>3, <2>1
  <2>2. CASE ~IsTarget(s, q)
    <3>1. PICK n \in Nat : n = IF s.clock > s.highest THEN s.clock ELSE s.highest
      BY <1>2, StoreFields
    <3>2. PICK target \in Target : target = [seq |-> s.clock, keys |-> {}]
      BY <1>2, StoreFields DEF Target
    <3>3. t = [s EXCEPT !.targets[q] = target, !.highest = n]
      BY <1>3, <2>2, <3>1, <3>2 DEF SaveTarget
    <3>4. PICK f : f = [s.targets EXCEPT ![q] = target]
      OBVIOUS
    <3>5. f \in [Queries -> Target \cup {None}] /\ f[q] = target
          /\ \A r \in Queries : r # q => f[r] = s.targets[r]
      BY <1>2, <3>4, StoreFields
    <3>6. t = [s EXCEPT !.targets = f, !.highest = n]
      BY <3>3, <3>4
    <3>7. t \in Stores /\ t.targets = f
      BY <1>2, <3>5, <3>6 DEF Stores
    <3>8. /\ t.orphaned = {} /\ t.cache = s.cache /\ t.batches = s.batches
          /\ t.sentinel = s.sentinel /\ t.active = s.active /\ t.localRefs = s.localRefs
          /\ t.views = s.views
      BY <1>2, <3>6 DEF Stores
    <3>9. target # None /\ target.keys = {}
      BY <3>2, NoneIsNothing
    <3>10. QED BY <2>2, <3>5, <3>7, <3>8, <3>9 DEF IsTarget
  <2>3. QED BY <2>1, <2>2
<1>5. PICK u : u = [t EXCEPT !.active = @ \cup {q}, !.views[q] = ExecuteQuery(t, q)]
  OBVIOUS
<1>6. Become(u)
  BY <1>1, <1>3, <1>5 DEF AllocateQuery
<1>7. /\ u \in Stores /\ u.orphaned = {} /\ u.cache = t.cache /\ u.batches = t.batches
      /\ u.targets = t.targets /\ u.sentinel = t.sentinel /\ u.localRefs = t.localRefs
      /\ u.active = t.active \cup {q}
      /\ \A r \in Queries : r # q => u.views[r] = t.views[r]
  <2>1. PICK f : f = [t.views EXCEPT ![q] = ExecuteQuery(t, q)]
    OBVIOUS
  <2>2. f \in [Queries -> SUBSET Keys] /\ \A r \in Queries : r # q => f[r] = t.views[r]
    BY <1>4, <2>1, StoreFields DEF ExecuteQuery
  <2>3. u = [t EXCEPT !.active = t.active \cup {q}, !.views = f]
    BY <1>5, <2>1
  <2>4. t.active \cup {q} \in SUBSET Queries
    BY <1>4, StoreFields
  <2>5. u \in Stores /\ u.views = f
    BY <1>4, <2>2, <2>3, <2>4 DEF Stores
  <2>6. /\ u.orphaned = {} /\ u.cache = t.cache /\ u.batches = t.batches
        /\ u.targets = t.targets /\ u.sentinel = t.sentinel /\ u.localRefs = t.localRefs
        /\ u.active = t.active \cup {q}
    BY <1>4, <2>3 DEF Stores
  <2>7. QED BY <2>2, <2>5, <2>6
<1>8. ViewsOK(u)
  BY <1>2, <1>4, <1>7 DEF StoreOK, ViewsOK
<1>9. TargetsOK(u, {})
  <2>1. \A r \in u.active : IsTarget(u, r)
    BY <1>2, <1>4, <1>7, StoreFields DEF StoreOK, TargetsOK, IsTarget
  <2>2. IsEager => \A r \in Queries : IsTarget(u, r) => r \in u.active
    BY <1>2, <1>4, <1>7 DEF StoreOK, TargetsOK, IsTarget
  <2>3. \A r \in Queries : IsTarget(u, r) => \A k \in u.targets[r].keys : IsCached(u, k)
    BY <1>2, <1>4, <1>7 DEF StoreOK, TargetsOK, IsTarget, IsCached
  <2>4. QED BY <2>1, <2>2, <2>3 DEF TargetsOK
<1>10. KeptOK(u, X)
  <2>1. \A k : Contained(s, k) => Contained(u, k)
    BY <1>4, <1>7 DEF Contained, IsTarget
  <2>2. \A k : IsReferenced(s, k) => IsReferenced(u, k)
    BY <1>4, <1>7, <2>1 DEF IsReferenced, MutationQueuesContain, InLocalView
  <2>3. QED BY <1>2, <1>4, <1>7, <2>2 DEF StoreOK, KeptOK, IsCached
<1>11. QED BY <1>2, <1>4, <1>6, <1>7, <1>8, <1>9, <1>10, BecomeOK DEF StoreOK

\* What a query leaves behind when it is released is reported to the delegate.
LEMMA ReleaseQueryStep ==
    ASSUME StoreInv, NEW X, KeptOK(Store, X), NEW q \in Queries, ReleaseQuery(q)
    PROVE  StoreInv' /\ PinnedStep /\ LeaksStayIn(X)
<1>1. PICK s : s = StartTransaction(Store)
  OBVIOUS
<1>2. /\ StoreOK(s, X) /\ s \in Stores /\ s.orphaned = {}
      /\ s.cache = cache /\ s.batches = batches /\ s.targets = targets
      /\ s.sentinel = sentinel /\ s.highest = highest /\ s.active = active
      /\ s.localRefs = localRefs /\ s.views = views
  BY <1>1, Started
<1>3. q \in s.active /\ IsTarget(s, q)
  BY <1>2 DEF ReleaseQuery, StoreOK, TargetsOK
<1>4. PICK removed \in SUBSET Keys : removed = {k \in Keys : <<k, q>> \in localRefs}
  OBVIOUS
<1>5. PICK r : r = RemoveReferences(s, removed)
  OBVIOUS
<1>6. /\ r \in Stores /\ SameButDelegate(s, r)
      /\ IsEager => r.orphaned = removed
      /\ ~IsEager => r.orphaned = {}
      /\ KeptOK(r, X)
  <2>1. KeptOK(r, X \ removed)
    BY <1>2, <1>5, RemoveReferencesOK DEF StoreOK
  <2>2. KeptOK(r, X)
    BY <2>1, KeptWeaker
  <2>3. QED BY <1>2, <1>5, <2>2, RemoveReferencesFields
<1>7. PICK t : t = [r EXCEPT !.localRefs = @ \ (Keys \X {q}), !.active = @ \ {q}, !.views[q] = {}]
  OBVIOUS
<1>8. /\ t \in Stores /\ t.cache = s.cache /\ t.batches = s.batches /\ t.targets = s.targets
      /\ t.sentinel = r.sentinel /\ t.orphaned = r.orphaned
      /\ t.localRefs = s.localRefs \ (Keys \X {q}) /\ t.active = s.active \ {q}
      /\ t.views[q] = {} /\ \A p \in Queries : p # q => t.views[p] = s.views[p]
  <2>1. PICK f : f = [r.views EXCEPT ![q] = {}]
    OBVIOUS
  <2>2. /\ f \in [Queries -> SUBSET Keys] /\ f[q] = {}
        /\ \A p \in Queries : p # q => f[p] = s.views[p]
    BY <1>6, <2>1, StoreFields DEF SameButDelegate
  <2>3. t = [r EXCEPT !.localRefs = r.localRefs \ (Keys \X {q}), !.active = r.active \ {q}, !.views = f]
    BY <1>7, <2>1
  <2>4. r.localRefs \ (Keys \X {q}) \in SUBSET (Keys \X Queries) /\ r.active \ {q} \in SUBSET Queries
    BY <1>6, StoreFields
  <2>5. t \in Stores /\ t.views = f
    BY <1>6, <2>2, <2>3, <2>4 DEF Stores
  <2>6. /\ t.cache = r.cache /\ t.batches = r.batches /\ t.targets = r.targets
        /\ t.sentinel = r.sentinel /\ t.orphaned = r.orphaned
        /\ t.localRefs = r.localRefs \ (Keys \X {q}) /\ t.active = r.active \ {q}
    BY <1>6, <2>3 DEF Stores
  <2>7. QED BY <1>6, <2>2, <2>5, <2>6 DEF SameButDelegate
<1>9. PICK u : u = RemoveTarget(t, q)
  OBVIOUS
<1>10. /\ u \in Stores /\ u.cache = s.cache /\ u.batches = s.batches
       /\ u.sentinel = r.sentinel
       /\ u.localRefs = t.localRefs /\ u.active = t.active /\ u.views = t.views
       /\ \A p \in Queries : p # q => u.targets[p] = s.targets[p]
       /\ IsEager => ~IsTarget(u, q) /\ u.orphaned = t.orphaned \cup s.targets[q].keys
       /\ ~IsEager => IsTarget(u, q) /\ u.targets[q].keys = s.targets[q].keys
  <2>1. s.targets[q] \in Target /\ s.targets[q].keys \in SUBSET Keys /\ t.clock \in Nat
    BY <1>2, <1>3, <1>8, StoreFields DEF IsTarget, Target
  <2>2. PICK target \in Target \cup {None} :
           target = IF IsEager THEN None ELSE [s.targets[q] EXCEPT !.seq = t.clock]
    BY <2>1 DEF Target
  <2>3. ~IsEager => target # None /\ target.keys = s.targets[q].keys
    BY <2>1, <2>2, NoneIsNothing DEF Target
  <2>4. PICK f : f = [t.targets EXCEPT ![q] = target]
    OBVIOUS
  <2>5. /\ f \in [Queries -> Target \cup {None}] /\ f[q] = target
        /\ \A p \in Queries : p # q => f[p] = s.targets[p]
    BY <1>8, <2>4, StoreFields
  <2>6. CASE IsEager
    <3>1. u = [t EXCEPT !.orphaned = t.orphaned \cup s.targets[q].keys, !.targets = f]
      BY <1>8, <1>9, <2>2, <2>4, <2>6 DEF RemoveTarget
    <3>2. t.orphaned \cup s.targets[q].keys \in SUBSET Keys
      BY <1>8, <2>1, StoreFields
    <3>3. u \in Stores /\ u.targets = f /\ u.orphaned = t.orphaned \cup s.targets[q].keys
      BY <1>8, <2>5, <3>1, <3>2 DEF Stores
    <3>4. /\ u.cache = t.cache /\ u.batches = t.batches /\ u.sentinel = t.sentinel
          /\ u.localRefs = t.localRefs /\ u.active = t.active /\ u.views = t.views
      BY <1>8, <3>1 DEF Stores
    <3>5. QED BY <1>8, <2>2, <2>5, <2>6, <3>3, <3>4 DEF IsTarget
  <2>7. CASE ~IsEager
    <3>1. PICK n \in Nat : n = IF target.seq > t.highest THEN target.seq ELSE t.highest
      <4>1. target.seq \in Nat /\ t.highest \in Nat
        BY <1>8, <2>1, <2>2, <2>3, <2>7, StoreFields DEF Target
      <4>2. QED BY <4>1
    <3>2. u = [t EXCEPT !.targets = f, !.highest = n]
      BY <1>8, <1>9, <2>2, <2>4, <2>7, <3>1 DEF RemoveTarget, SaveTarget
    <3>3. u \in Stores /\ u.targets = f
      BY <1>8, <2>5, <3>2 DEF Stores
    <3>4. /\ u.cache = t.cache /\ u.batches = t.batches /\ u.sentinel = t.sentinel
          /\ u.localRefs = t.localRefs /\ u.active = t.active /\ u.views = t.views
      BY <1>8, <3>2 DEF Stores
    <3>5. QED BY <1>8, <2>3, <2>5, <2>7, <3>3, <3>4 DEF IsTarget
  <2>8. QED BY <2>6, <2>7
<1>11. ViewsOK(u)
  <2>1. ASSUME NEW e \in u.localRefs PROVE e[2] \in u.active
    <3>1. e \in s.localRefs /\ e \in Keys \X Queries /\ e \notin Keys \X {q}
      BY <1>2, <1>8, <1>10, StoreFields
    <3>2. e[2] # q
      BY <3>1
    <3>3. QED BY <1>2, <1>8, <1>10, <3>1, <3>2 DEF StoreOK, ViewsOK
  <2>2. QED BY <1>2, <1>8, <1>10, <2>1 DEF StoreOK, ViewsOK
<1>12. TargetsOK(u, {})
  <2>1. \A p \in u.active : IsTarget(u, p)
    BY <1>2, <1>8, <1>10, StoreFields DEF StoreOK, TargetsOK, IsTarget
  <2>2. IsEager => \A p \in Queries : IsTarget(u, p) => p \in u.active
    BY <1>2, <1>8, <1>10 DEF StoreOK, TargetsOK, IsTarget
  <2>3. ASSUME NEW p \in Queries, IsTarget(u, p) PROVE \A k \in u.targets[p].keys : IsCached(u, k)
    <3>1. IsTarget(s, p) /\ u.targets[p].keys = s.targets[p].keys
      BY <1>3, <1>10, <2>3 DEF IsTarget
    <3>2. QED BY <1>2, <1>10, <3>1 DEF StoreOK, TargetsOK, IsCached
  <2>4. QED BY <2>1, <2>2, <2>3 DEF TargetsOK
<1>13. KeptOK(u, X)
  <2>1. SUFFICES ASSUME NEW k \in Keys \ X, IsCached(u, k)
                 PROVE  IF IsEager THEN IsReferenced(u, k) \/ k \in u.orphaned
                        ELSE u.sentinel[k] # None
    BY DEF KeptOK
  <2>2. IsCached(r, k) /\ IsCached(s, k)
    BY <1>6, <1>10, <2>1 DEF IsCached, SameButDelegate
  <2>3. CASE ~IsEager
    BY <1>6, <1>10, <2>1, <2>2, <2>3 DEF KeptOK
  <2>4. CASE IsEager
    <3>1. IsReferenced(s, k)
      BY <1>2, <2>1, <2>2, <2>4 DEF StoreOK, KeptOK
    <3>2. CASE MutationQueuesContain(s, k)
      BY <1>10, <2>4, <3>2 DEF IsReferenced, MutationQueuesContain
    <3>3. CASE Contained(s, k)
      <4>1. PICK p \in Queries : IsTarget(s, p) /\ k \in s.targets[p].keys
        BY <3>3 DEF Contained
      <4>2. CASE p = q
        BY <1>10, <2>4, <4>1, <4>2
      <4>3. CASE p # q
        BY <1>10, <2>4, <4>1, <4>3 DEF IsReferenced, Contained, IsTarget
      <4>4. QED BY <4>2, <4>3
    <3>4. CASE InLocalView(s, k)
      <4>1. PICK p \in Queries : <<k, p>> \in s.localRefs
        BY <3>4 DEF InLocalView
      <4>2. CASE p = q
        BY <1>2, <1>4, <1>6, <1>8, <1>10, <2>4, <4>1, <4>2
      <4>3. CASE p # q
        <5>1. <<k, p>> \in u.localRefs
          BY <1>8, <1>10, <4>1, <4>3
        <5>2. QED BY <2>4, <5>1 DEF IsReferenced, InLocalView
      <4>4. QED BY <4>2, <4>3
    <3>5. QED BY <3>1, <3>2, <3>3, <3>4 DEF IsReferenced
  <2>5. QED BY <2>3, <2>4
<1>14. PICK v : v = CommitTransaction(u)
  OBVIOUS
<1>15. /\ StoreOK(v, X) /\ v.orphaned = {} /\ v.batches = u.batches /\ v.active = u.active
       /\ v.localRefs = u.localRefs
       /\ \A k \in Keys : IsCached(u, k) /\ ~IsCached(v, k) => ~IsReferenced(u, k)
  BY <1>10, <1>11, <1>12, <1>13, <1>14, CommitTransactionOK DEF StoreOK
<1>16. Become(v)
  BY <1>1, <1>4, <1>5, <1>7, <1>9, <1>14 DEF ReleaseQuery
<1>17. ASSUME NEW k \in Keys, cache[k] # None, v.cache[k] = None
       PROVE  /\ ~MutationQueuesContain(v, k)
              /\ \A p \in v.active : ~(<<k, p>> \in localRefs /\ <<k, p>> \in v.localRefs)
  <2>1. ~MutationQueuesContain(u, k) /\ ~InLocalView(u, k)
    BY <1>2, <1>10, <1>15, <1>17 DEF IsCached, IsReferenced
  <2>2. v.active \subseteq Queries
    BY <1>15, StoreFields DEF StoreOK
  <2>3. QED BY <1>15, <2>1, <2>2 DEF MutationQueuesContain, InLocalView
<1>18. QED BY <1>15, <1>16, <1>17, BecomeOK

LEMMA LocallyWriteMutationsStep ==
    ASSUME StoreInv, NEW X, KeptOK(Store, X), NEW k \in Keys, NEW content \in Contents,
           LocallyWriteMutations(k, content)
    PROVE  StoreInv' /\ PinnedStep /\ LeaksStayIn(X)
<1>1. PICK r : r = StartTransaction(Store)
  OBVIOUS
<1>2. /\ StoreOK(r, X) /\ r \in Stores /\ r.cache = cache /\ r.localRefs = localRefs
  BY <1>1, Started
<1>3. PICK b \in Batch : b = [key |-> k, matches |-> content]
  BY LocalStoreAssumption DEF Batch
<1>4. PICK s : s = [r EXCEPT !.batches = Append(r.batches, b)]
  OBVIOUS
<1>5. Become(CommitAndEmit(s, {k}))
  BY <1>1, <1>3, <1>4 DEF LocallyWriteMutations
<1>6. PICK bs \in Seq(Batch) : bs = Append(r.batches, b)
  BY <1>2, StoreFields, AppendProperties
<1>7. \A d : (\E i \in DOMAIN r.batches : r.batches[i].key = d) =>
             (\E i \in DOMAIN bs : bs[i].key = d)
  <2>1. PICK n \in Nat : n = Len(r.batches)
    BY <1>2, StoreFields, LenProperties
  <2>2. DOMAIN r.batches = 1 .. n /\ DOMAIN bs = 1 .. n + 1 /\ \A i \in 1 .. n : bs[i] = r.batches[i]
    BY <1>2, <1>6, <2>1, StoreFields, AppendProperties, LenProperties
  <2>3. \A i \in 1 .. n : i \in 1 .. n + 1
    OBVIOUS
  <2>4. QED BY <2>2, <2>3
<1>8. /\ s \in Stores /\ s.cache = r.cache /\ s.batches = bs /\ s.targets = r.targets
      /\ s.sentinel = r.sentinel /\ s.active = r.active /\ s.localRefs = r.localRefs
      /\ s.views = r.views /\ s.orphaned = r.orphaned
  BY <1>2, <1>4, <1>6 DEF Stores
<1>9. ViewsOK(s) /\ TargetsOK(s, {})
  BY <1>2, <1>8 DEF StoreOK, ViewsOK, TargetsOK, IsTarget, IsCached
<1>10. KeptOK(s, X)
  <2>1. \A d : IsReferenced(r, d) => IsReferenced(s, d)
    BY <1>7, <1>8 DEF IsReferenced, Contained, IsTarget, MutationQueuesContain, InLocalView
  <2>2. QED BY <1>2, <1>8, <2>1 DEF StoreOK, KeptOK, IsCached
<1>11. QED BY <1>2, <1>5, <1>8, <1>9, <1>10, EmitStep DEF StoreOK

\* Putting a document into the cache.
LEMMA CacheDocument ==
    ASSUME NEW s \in Stores, NEW k \in Keys, NEW doc \in Document,
           NEW t, t = [s EXCEPT !.cache[k] = doc]
    PROVE  /\ t \in Stores
           /\ ViewsOK(s) => ViewsOK(t)
           /\ \A Y : TargetsOK(s, Y) => TargetsOK(t, Y \ {k})
           /\ \A X : KeptOK(s, X) => KeptOK(t, X \cup {k})
           /\ t.batches = s.batches /\ t.targets = s.targets /\ t.sentinel = s.sentinel
           /\ t.active = s.active /\ t.localRefs = s.localRefs /\ t.orphaned = s.orphaned
           /\ t.clock = s.clock
           /\ IsCached(t, k) /\ \A d \in Keys : d # k => t.cache[d] = s.cache[d]
<1>1. PICK f : f = [s.cache EXCEPT ![k] = doc]
  OBVIOUS
<1>2. /\ f \in [Keys -> Document \cup {None}] /\ f[k] # None
      /\ \A d \in Keys : d # k => f[d] = s.cache[d]
  BY <1>1, StoreFields, NoneIsNothing
<1>3. t = [s EXCEPT !.cache = f]
  BY <1>1
<1>4. t \in Stores /\ t.cache = f
  BY <1>2, <1>3 DEF Stores
<1>5. /\ t.batches = s.batches /\ t.targets = s.targets /\ t.sentinel = s.sentinel
      /\ t.active = s.active /\ t.localRefs = s.localRefs /\ t.orphaned = s.orphaned
      /\ t.clock = s.clock /\ t.views = s.views
  BY <1>3 DEF Stores
<1>6. ViewsOK(s) => ViewsOK(t)
  BY <1>5 DEF ViewsOK
<1>7. ASSUME NEW Y, TargetsOK(s, Y) PROVE TargetsOK(t, Y \ {k})
  <2>1. ASSUME NEW q \in Queries, IsTarget(t, q), NEW d \in t.targets[q].keys \ (Y \ {k})
        PROVE  IsCached(t, d)
    <3>1. d \in Keys
      BY <1>4, <2>1, StoreFields DEF Target, IsTarget
    <3>2. QED BY <1>2, <1>4, <1>5, <1>7, <2>1, <3>1 DEF TargetsOK, IsTarget, IsCached
  <2>2. QED BY <1>5, <1>7, <2>1 DEF TargetsOK, IsTarget
<1>8. ASSUME NEW X, KeptOK(s, X) PROVE KeptOK(t, X \cup {k})
  <2>1. \A d : IsReferenced(t, d) <=> IsReferenced(s, d)
    BY <1>5 DEF IsReferenced, Contained, IsTarget, MutationQueuesContain, InLocalView
  <2>2. QED BY <1>2, <1>4, <1>5, <1>8, <2>1 DEF KeptOK, IsCached
<1>9. QED BY <1>2, <1>4, <1>5, <1>6, <1>7, <1>8 DEF IsCached

\* The first batch goes, and the delegate hears of its key.
LEMMA RemoveBatchOK ==
    ASSUME NEW s \in Stores, s.batches # <<>>, NEW k, k = Head(s.batches).key,
           NEW X, ViewsOK(s), TargetsOK(s, {}), KeptOK(s, X \cup {k}), NEW t, t = RemoveBatch(s)
    PROVE  StoreOK(t, X) /\ t.cache = s.cache /\ t.localRefs = s.localRefs
<1>1. k \in Keys
  <2>1. s.batches \in Seq(Batch)
    BY StoreFields
  <2>2. Head(s.batches) \in Batch
    BY <2>1, HeadTailProperties
  <2>3. QED BY <2>2 DEF Batch
<1>2. PICK bs : bs = Tail(s.batches)
  OBVIOUS
<1>3. bs \in Seq(Batch)
  BY <1>2, StoreFields, HeadTailProperties
<1>4. \A d : d # k /\ (\E i \in DOMAIN s.batches : s.batches[i].key = d)
             => \E i \in DOMAIN bs : bs[i].key = d
  <2>1. PICK n \in Nat : n = Len(s.batches)
    BY StoreFields, LenProperties
  <2>2. /\ DOMAIN s.batches = 1 .. n /\ DOMAIN bs = 1 .. n - 1
        /\ Head(s.batches) = s.batches[1] /\ \A i \in 1 .. n - 1 : bs[i] = s.batches[i + 1]
    BY <1>2, <1>3, <2>1, StoreFields, HeadTailProperties, LenProperties
  <2>3. ASSUME NEW d, d # k, NEW i \in 1 .. n, s.batches[i].key = d
        PROVE  \E j \in 1 .. n - 1 : bs[j].key = d
    <3>1. i # 1
      BY <2>2, <2>3
    <3>2. i - 1 \in 1 .. n - 1 /\ (i - 1) + 1 = i
      BY <3>1
    <3>3. bs[i - 1] = s.batches[i]
      BY <2>2, <3>2
    <3>4. QED BY <2>3, <3>2, <3>3
  <2>4. QED BY <2>2, <2>3
<1>5. PICK r : r = [s EXCEPT !.batches = bs]
  OBVIOUS
<1>6. /\ r \in Stores /\ r.cache = s.cache /\ r.batches = bs /\ r.targets = s.targets
      /\ r.sentinel = s.sentinel /\ r.active = s.active /\ r.localRefs = s.localRefs
      /\ r.views = s.views /\ r.orphaned = s.orphaned
  BY <1>3, <1>5 DEF Stores
<1>7. ViewsOK(r) /\ TargetsOK(r, {})
  BY <1>6 DEF ViewsOK, TargetsOK, IsTarget, IsCached
<1>8. KeptOK(r, X \cup {k})
  <2>1. \A d : d # k /\ IsReferenced(s, d) => IsReferenced(r, d)
    BY <1>4, <1>6 DEF IsReferenced, Contained, IsTarget, MutationQueuesContain, InLocalView
  <2>2. QED BY <1>6, <2>1 DEF KeptOK, IsCached
<1>9. t = RemoveReferences(r, {k})
  BY <1>2, <1>5 DEF RemoveBatch, RemoveMutationReference
<1>10. /\ t \in Stores /\ SameButDelegate(r, t) /\ KeptOK(t, (X \cup {k}) \ {k})
       /\ ViewsOK(t) /\ TargetsOK(t, {})
  <2>1. {k} \in SUBSET Keys
    BY <1>1
  <2>2. QED BY <1>6, <1>7, <1>8, <1>9, <2>1, RemoveReferencesOK
<1>11. KeptOK(t, X)
  BY <1>10, KeptWeaker
<1>12. QED BY <1>6, <1>10, <1>11 DEF StoreOK, SameButDelegate

LEMMA RejectBatchStep ==
    ASSUME StoreInv, NEW X, KeptOK(Store, X), RejectBatch
    PROVE  StoreInv' /\ PinnedStep /\ LeaksStayIn(X)
<1>1. PICK s : s = StartTransaction(Store)
  OBVIOUS
<1>2. /\ StoreOK(s, X) /\ s \in Stores /\ s.cache = cache /\ s.localRefs = localRefs
      /\ s.batches = batches
  BY <1>1, Started
<1>3. PICK k : k = Head(batches).key
  OBVIOUS
<1>4. k \in Keys
  <2>1. batches \in Seq(Batch) /\ batches # <<>>
    BY <1>2, StoreFields DEF RejectBatch
  <2>2. Head(batches) \in Batch
    BY <2>1, HeadTailProperties
  <2>3. QED BY <1>3, <2>1, <2>2 DEF Batch
<1>5. PICK t : t = RemoveBatch(s)
  OBVIOUS
<1>6. StoreOK(t, X) /\ t.cache = s.cache /\ t.localRefs = s.localRefs
  <2>1. ViewsOK(s) /\ TargetsOK(s, {}) /\ KeptOK(s, X)
    BY <1>2 DEF StoreOK
  <2>2. KeptOK(s, X \cup {k})
    BY <2>1, KeptWeaker
  <2>3. s.batches # <<>> /\ k = Head(s.batches).key
    BY <1>2, <1>3 DEF RejectBatch
  <2>4. QED BY <1>2, <1>5, <2>1, <2>2, <2>3, RemoveBatchOK
<1>7. Become(CommitAndEmit(t, {k}))
  BY <1>1, <1>3, <1>5 DEF RejectBatch
<1>8. QED BY <1>2, <1>4, <1>6, <1>7, EmitStep

LEMMA AcknowledgeBatchStep ==
    ASSUME StoreInv, NEW X, KeptOK(Store, X), AcknowledgeBatch
    PROVE  StoreInv' /\ PinnedStep /\ LeaksStayIn(X)
<1>1. PICK s : s = StartTransaction(Store)
  OBVIOUS
<1>2. /\ StoreOK(s, X) /\ s \in Stores /\ s.cache = cache /\ s.localRefs = localRefs
      /\ s.batches = batches
  BY <1>1, Started
<1>3. PICK k : k = Head(batches).key
  OBVIOUS
<1>4. k \in Keys /\ batches # <<>>
  <2>1. batches \in Seq(Batch) /\ batches # <<>>
    BY <1>2, StoreFields DEF AcknowledgeBatch
  <2>2. Head(batches) \in Batch
    BY <2>1, HeadTailProperties
  <2>3. QED BY <1>3, <2>1, <2>2 DEF Batch
<1>5. PICK content \in Contents, isNewer \in BOOLEAN :
        Become(CommitAndEmit(ApplyBatchResult(s, content, isNewer), {k}))
  BY <1>1, <1>3 DEF AcknowledgeBatch
<1>6. PICK doc \in Document : doc = [matches |-> content, committed |-> TRUE]
  BY LocalStoreAssumption DEF Document
<1>7. PICK r : r = IF isNewer THEN [s EXCEPT !.cache[k] = doc] ELSE s
  OBVIOUS
<1>8. /\ r \in Stores /\ ViewsOK(r) /\ TargetsOK(r, {}) /\ KeptOK(r, X \cup {k})
      /\ r.batches = s.batches /\ r.localRefs = s.localRefs
      /\ \A d \in Keys : s.cache[d] # None => r.cache[d] # None
  <2>1. CASE isNewer
    <3>1. r = [s EXCEPT !.cache[k] = doc]
      BY <1>7, <2>1
    <3>2. /\ r \in Stores /\ ViewsOK(r) /\ TargetsOK(r, {} \ {k}) /\ KeptOK(r, X \cup {k})
          /\ r.batches = s.batches /\ r.localRefs = s.localRefs
          /\ IsCached(r, k) /\ \A d \in Keys : d # k => r.cache[d] = s.cache[d]
      <4>1. ViewsOK(s) /\ TargetsOK(s, {}) /\ KeptOK(s, X)
        BY <1>2 DEF StoreOK
      <4>2. QED BY <1>2, <1>4, <3>1, <4>1, CacheDocument
    <3>3. {} \ {k} = {}
      OBVIOUS
    <3>4. QED BY <3>2, <3>3 DEF IsCached
  <2>2. CASE ~isNewer
    BY <1>2, <1>7, <2>2, KeptWeaker DEF StoreOK
  <2>3. QED BY <2>1, <2>2
<1>9. PICK t : t = RemoveBatch(r)
  OBVIOUS
<1>10. t = ApplyBatchResult(s, content, isNewer)
  BY <1>2, <1>3, <1>6, <1>7, <1>9 DEF ApplyBatchResult
<1>11. StoreOK(t, X) /\ t.cache = r.cache /\ t.localRefs = r.localRefs
  BY <1>2, <1>3, <1>4, <1>8, <1>9, RemoveBatchOK
<1>12. Become(CommitAndEmit(t, {k}))
  BY <1>5, <1>10
<1>13. \A d \in Keys : cache[d] # None => t.cache[d] # None
  BY <1>2, <1>8, <1>11
<1>14. t.localRefs = localRefs
  BY <1>2, <1>8, <1>11
<1>15. QED BY <1>4, <1>11, <1>12, <1>13, <1>14, EmitStep

\* The keys that the targets of an event lose, and those they gain.
Lost(s, change) == UNION {s.targets[q].keys \ change[q] : q \in DOMAIN change}
Gained(s, change) == UNION {change[q] \ s.targets[q].keys : q \in DOMAIN change}

\* The targets change, and documents that they gain are yet to be cached.
LEMMA ApplyTargetChangesOK ==
    ASSUME NEW s \in Stores, NEW X, StoreOK(s, X), s.orphaned = {},
           NEW D \in SUBSET s.active, NEW change \in [D -> SUBSET Keys], NEW hasToken \in BOOLEAN,
           NEW t, t = ApplyTargetChanges(s, change, hasToken)
    PROVE  /\ t \in Stores /\ ViewsOK(t) /\ TargetsOK(t, Gained(s, change)) /\ KeptOK(t, X)
           /\ t.cache = s.cache /\ t.localRefs = s.localRefs /\ t.batches = s.batches
           /\ t.active = s.active
           /\ \A q \in D : IsTarget(t, q) /\ t.targets[q].keys = change[q]
           /\ ~IsEager => \A k \in Lost(s, change) \cup Gained(s, change) : t.sentinel[k] # None
           /\ IsEager => Lost(s, change) \ Gained(s, change) \subseteq t.orphaned
<1>1. DOMAIN change = D /\ D \subseteq Queries
  BY StoreFields
<1>2. \A q \in D : IsTarget(s, q) /\ s.targets[q] \in Target
  BY <1>1, StoreFields DEF StoreOK, TargetsOK, IsTarget
<1>3. PICK L \in SUBSET Keys : L = Lost(s, change)
  <2>1. \A q \in D : s.targets[q].keys \subseteq Keys
    BY <1>2 DEF Target
  <2>2. QED BY <1>1, <2>1 DEF Lost
<1>4. PICK G \in SUBSET Keys : G = Gained(s, change)
  BY <1>1 DEF Gained
<1>5. /\ \A k : k \in L <=> \E q \in D : k \in s.targets[q].keys \ change[q]
      /\ \A k : k \in G <=> \E q \in D : k \in change[q] \ s.targets[q].keys
  BY <1>1, <1>3, <1>4 DEF Lost, Gained
<1>6. PICK a : a = RemoveReferences(s, L)
  OBVIOUS
<1>7. /\ a \in Stores /\ SameButDelegate(s, a)
      /\ IsEager => a.orphaned = L
      /\ ~IsEager => \A k \in Keys : a.sentinel[k] = IF k \in L THEN s.clock ELSE s.sentinel[k]
  <2>1. a \in Stores /\ SameButDelegate(s, a)
    BY <1>6, RemoveReferencesFields
  <2>2. IsEager => \A k : k \in a.orphaned <=> k \in s.orphaned \/ k \in L
    BY <1>6, RemoveReferencesFields
  <2>3. ~IsEager => \A k \in Keys : a.sentinel[k] = IF k \in L THEN s.clock ELSE s.sentinel[k]
    BY <1>6, RemoveReferencesFields
  <2>4. QED BY <2>1, <2>2, <2>3
<1>8. PICK b : b = AddReferences(a, G)
  OBVIOUS
<1>9. /\ b \in Stores /\ SameButDelegate(s, b)
      /\ IsEager => b.orphaned = L \ G
      /\ ~IsEager => \A k \in Keys : b.sentinel[k] = IF k \in L \cup G THEN s.clock ELSE s.sentinel[k]
  <2>1. /\ b \in Stores /\ SameButDelegate(a, b)
        /\ IsEager => b.orphaned = a.orphaned \ G
        /\ ~IsEager => \A k \in Keys : b.sentinel[k] = IF k \in G THEN a.clock ELSE a.sentinel[k]
    BY <1>7, <1>8, AddReferencesFields
  <2>2. QED BY <1>7, <2>1 DEF SameButDelegate
<1>10. PICK f : f = [q \in Queries |->
                        IF q \notin D THEN b.targets[q]
                        ELSE [keys |-> change[q],
                              seq |-> IF hasToken THEN s.clock ELSE b.targets[q].seq]]
  OBVIOUS
<1>11. f \in [Queries -> Target \cup {None}]
  <2>1. ASSUME NEW q \in D PROVE f[q] \in Target
    <3>1. PICK n \in Nat : n = IF hasToken THEN s.clock ELSE b.targets[q].seq
      BY <1>2, <1>9, StoreFields DEF SameButDelegate, Target
    <3>2. f[q] = [keys |-> change[q], seq |-> n]
      BY <1>1, <1>10, <3>1
    <3>3. QED BY <3>1, <3>2 DEF Target
  <2>2. ASSUME NEW q \in Queries \ D PROVE f[q] \in Target \cup {None}
    BY <1>9, <1>10, StoreFields
  <2>3. f = [q \in Queries |-> f[q]]
    BY <1>10
  <2>4. QED BY <2>1, <2>2, <2>3
<1>12. /\ \A q \in D : f[q] # None /\ f[q].keys = change[q]
       /\ \A q \in Queries \ D : f[q] = s.targets[q]
  <2>1. ASSUME NEW q \in D PROVE f[q] # None /\ f[q].keys = change[q]
    <3>1. PICK n \in Nat : n = IF hasToken THEN s.clock ELSE b.targets[q].seq
      BY <1>2, <1>9, StoreFields DEF SameButDelegate, Target
    <3>2. f[q] = [keys |-> change[q], seq |-> n]
      BY <1>1, <1>10, <3>1
    <3>3. f[q] \in Target
      BY <3>1, <3>2 DEF Target
    <3>4. QED BY <3>2, <3>3, NoneIsNothing
  <2>2. QED BY <1>9, <1>10, <2>1 DEF SameButDelegate
<1>13. PICK n \in Nat : n = IF hasToken /\ s.clock > b.highest THEN s.clock ELSE b.highest
  BY <1>9, StoreFields
<1>14. t = [b EXCEPT !.targets = f, !.highest = n]
  BY <1>1, <1>3, <1>4, <1>6, <1>8, <1>10, <1>13 DEF ApplyTargetChanges, Lost, Gained
<1>15. t \in Stores /\ t.targets = f
  BY <1>9, <1>11, <1>14 DEF Stores
<1>16. /\ t.cache = b.cache /\ t.batches = b.batches /\ t.sentinel = b.sentinel
       /\ t.active = b.active /\ t.localRefs = b.localRefs /\ t.views = b.views
       /\ t.orphaned = b.orphaned
  BY <1>9, <1>14 DEF Stores
<1>17. ViewsOK(t)
  BY <1>9, <1>16 DEF StoreOK, ViewsOK, SameButDelegate
<1>18. \A q \in Queries : IsTarget(t, q) <=> IsTarget(s, q)
  BY <1>2, <1>12, <1>15 DEF IsTarget
<1>19. TargetsOK(t, G)
  <2>1. \A q \in t.active : IsTarget(t, q)
    BY <1>9, <1>16, <1>18, StoreFields DEF StoreOK, TargetsOK, SameButDelegate
  <2>2. IsEager => \A q \in Queries : IsTarget(t, q) => q \in t.active
    BY <1>9, <1>16, <1>18 DEF StoreOK, TargetsOK, SameButDelegate
  <2>3. ASSUME NEW q \in Queries, IsTarget(t, q), NEW k \in t.targets[q].keys \ G
        PROVE  IsCached(t, k)
    <3>1. k \in s.targets[q].keys
      BY <1>5, <1>12, <1>15, <2>3
    <3>2. IsCached(s, k)
      BY <1>18, <2>3, <3>1 DEF StoreOK, TargetsOK
    <3>3. QED BY <1>9, <1>16, <3>2 DEF IsCached, SameButDelegate
  <2>4. QED BY <2>1, <2>2, <2>3 DEF TargetsOK
<1>20. KeptOK(t, X)
  <2>1. SUFFICES ASSUME NEW k \in Keys \ X, IsCached(t, k)
                 PROVE  IF IsEager THEN IsReferenced(t, k) \/ k \in t.orphaned
                        ELSE t.sentinel[k] # None
    BY DEF KeptOK
  <2>2. IsCached(s, k)
    BY <1>9, <1>16, <2>1 DEF IsCached, SameButDelegate
  <2>3. CASE ~IsEager
    <3>1. s.clock # None
      BY StoreFields, NoneIsNothing
    <3>2. s.sentinel[k] # None
      BY <2>1, <2>2, <2>3 DEF StoreOK, KeptOK
    <3>3. QED BY <1>9, <1>16, <2>3, <3>1, <3>2
  <2>4. CASE IsEager
    <3>1. IsReferenced(s, k)
      BY <2>1, <2>2, <2>4 DEF StoreOK, KeptOK
    <3>2. CASE MutationQueuesContain(s, k) \/ InLocalView(s, k)
      <4>1. t.batches = s.batches /\ t.localRefs = s.localRefs
        BY <1>9, <1>16 DEF SameButDelegate
      <4>2. MutationQueuesContain(t, k) \/ InLocalView(t, k)
        BY <3>2, <4>1 DEF MutationQueuesContain, InLocalView
      <4>3. QED BY <2>4, <4>2 DEF IsReferenced
    <3>3. CASE Contained(s, k)
      <4>1. PICK p \in Queries : IsTarget(s, p) /\ k \in s.targets[p].keys
        BY <3>3 DEF Contained
      <4>2. CASE p \notin D
        BY <1>12, <1>15, <2>4, <4>1, <4>2 DEF IsReferenced, Contained, IsTarget
      <4>3. CASE p \in D /\ k \in change[p]
        BY <1>12, <1>15, <2>4, <4>1, <4>3 DEF IsReferenced, Contained, IsTarget
      <4>4. CASE p \in D /\ k \notin change[p]
        <5>1. k \in L
          BY <1>5, <4>1, <4>4
        <5>2. CASE k \notin G
          BY <1>9, <1>16, <2>4, <5>1, <5>2
        <5>3. CASE k \in G
          <6>1. PICK q \in D : k \in change[q]
            BY <1>5, <5>3
          <6>2. QED BY <1>1, <1>12, <1>15, <2>4, <6>1 DEF IsReferenced, Contained, IsTarget
        <5>4. QED BY <5>2, <5>3
      <4>5. QED BY <4>2, <4>3, <4>4
    <3>4. QED BY <3>1, <3>2, <3>3 DEF IsReferenced
  <2>5. QED BY <2>3, <2>4
<1>21. ~IsEager => \A k \in L \cup G : t.sentinel[k] # None
  <2>1. s.clock # None
    BY StoreFields, NoneIsNothing
  <2>2. QED BY <1>9, <1>16, <2>1
<1>22. IsEager => L \ G \subseteq t.orphaned
  BY <1>9, <1>16
<1>23. /\ t.cache = s.cache /\ t.localRefs = s.localRefs /\ t.batches = s.batches
       /\ t.active = s.active
  BY <1>9, <1>16 DEF SameButDelegate
<1>24. \A q \in D : IsTarget(t, q) /\ t.targets[q].keys = change[q]
  BY <1>12, <1>15 DEF IsTarget
<1>25. QED BY <1>3, <1>4, <1>15, <1>17, <1>19, <1>20, <1>21, <1>22, <1>23, <1>24

\* A document that enters, changes in, leaves or never was in some targets.  It is leaked
\* only when it was not cached before and is in no target afterwards.
LEMMA ApplyDocumentChangeStep ==
    ASSUME StoreInv, NEW X, KeptOK(Store, X), NEW k \in Keys, NEW content \in Contents,
           ApplyDocumentChange(k, content)
    PROVE  /\ StoreInv' /\ PinnedStep /\ LeaksStayIn(X \cup {k})
           /\ LeaksStayIn(X) \/ (~IsCached(Store, k) /\ ~Contained(Store', k))
<1>1. PICK s : s = StartTransaction(Store)
  OBVIOUS
<1>2. /\ StoreOK(s, X) /\ s \in Stores /\ s.orphaned = {} /\ s.cache = cache
      /\ s.targets = targets /\ s.sentinel = sentinel /\ s.active = active
      /\ s.localRefs = localRefs
  BY <1>1, Started
<1>30. PICK D \in SUBSET active, hasToken \in BOOLEAN, isOutdated \in BOOLEAN :
        \E kept \in SUBSET (D \cap content) :
            /\ isOutdated => MayBeOutdated(k, kept # {})
            /\ Become(CommitAndEmit(
                    ApplyDocumentUpdate(
                        ApplyTargetChanges(s, [q \in D |-> IF q \in kept
                                                           THEN targets[q].keys \cup {k}
                                                           ELSE targets[q].keys \ {k}], hasToken),
                        k, content, isOutdated),
                    IF isOutdated THEN {} ELSE {k}))
  BY <1>1 DEF ApplyDocumentChange
<1>31. PICK kept \in SUBSET (D \cap content) :
        /\ isOutdated => MayBeOutdated(k, kept # {})
        /\ Become(CommitAndEmit(
                ApplyDocumentUpdate(
                    ApplyTargetChanges(s, [q \in D |-> IF q \in kept
                                                       THEN targets[q].keys \cup {k}
                                                       ELSE targets[q].keys \ {k}], hasToken),
                    k, content, isOutdated),
                IF isOutdated THEN {} ELSE {k}))
  BY <1>30
<1>32. PICK change : change = [q \in D |-> IF q \in kept THEN targets[q].keys \cup {k}
                                          ELSE targets[q].keys \ {k}]
  OBVIOUS
<1>3. /\ isOutdated => MayBeOutdated(k, kept # {})
      /\ Become(CommitAndEmit(
                ApplyDocumentUpdate(ApplyTargetChanges(s, change, hasToken), k, content, isOutdated),
                IF isOutdated THEN {} ELSE {k}))
  BY <1>31, <1>32
<1>4. D \subseteq Queries /\ \A q \in D : IsTarget(s, q) /\ targets[q].keys \subseteq Keys
  BY <1>2, StoreFields DEF StoreOK, TargetsOK, IsTarget, Target
<1>5. /\ change \in [D -> SUBSET Keys]
      /\ \A q \in D : change[q] = IF q \in kept THEN targets[q].keys \cup {k}
                                  ELSE targets[q].keys \ {k}
  BY <1>4, <1>32
<1>6. PICK t : t = ApplyTargetChanges(s, change, hasToken)
  OBVIOUS
<1>7. /\ t \in Stores /\ ViewsOK(t) /\ TargetsOK(t, Gained(s, change)) /\ KeptOK(t, X)
      /\ t.cache = s.cache /\ t.localRefs = s.localRefs
      /\ \A q \in D : IsTarget(t, q) /\ t.targets[q].keys = change[q]
      /\ ~IsEager => \A d \in Lost(s, change) \cup Gained(s, change) : t.sentinel[d] # None
  <2>1. D \in SUBSET s.active
    BY <1>2
  <2>2. /\ t \in Stores /\ ViewsOK(t) /\ TargetsOK(t, Gained(s, change)) /\ KeptOK(t, X)
        /\ t.cache = s.cache /\ t.localRefs = s.localRefs
    BY <1>2, <1>5, <1>6, <2>1, ApplyTargetChangesOK
  <2>3. \A q \in D : IsTarget(t, q) /\ t.targets[q].keys = change[q]
    <3>1. s \in Stores /\ StoreOK(s, X) /\ s.orphaned = {}
      BY <1>2
    <3>2. change \in [D -> SUBSET Keys]
      BY <1>5
    <3>3. QED BY <1>6, <2>1, <3>1, <3>2, ApplyTargetChangesOK, SMTT(60)
  <2>4. ~IsEager => \A d \in Lost(s, change) \cup Gained(s, change) : t.sentinel[d] # None
    BY <1>2, <1>5, <1>6, <2>1, ApplyTargetChangesOK
  <2>5. QED BY <2>2, <2>3, <2>4
<1>8. DOMAIN change = D
  BY <1>5
<1>9. Gained(s, change) \subseteq {k}
  BY <1>2, <1>5, <1>8 DEF Gained
<1>10. PICK u : u = ApplyDocumentUpdate(t, k, content, isOutdated)
  OBVIOUS
<1>11. PICK changed \in SUBSET Keys : changed = IF isOutdated THEN {} ELSE {k}
  OBVIOUS
<1>12. Become(CommitAndEmit(u, changed))
  BY <1>3, <1>6, <1>10, <1>11
<1>13. CASE isOutdated
  <2>1. u = t /\ IsCached(t, k)
    BY <1>2, <1>3, <1>7, <1>10, <1>13, StoreIs DEF ApplyDocumentUpdate, MayBeOutdated, IsCached
  <2>2. TargetsOK(t, {})
    BY <1>7, <1>9, <2>1 DEF TargetsOK
  <2>3. StoreOK(u, X) /\ u.localRefs = localRefs /\ \A d \in Keys : cache[d] # None => u.cache[d] # None
    BY <1>2, <1>7, <2>1, <2>2 DEF StoreOK
  <2>4. StoreInv' /\ PinnedStep /\ LeaksStayIn(X)
    BY <1>12, <2>3, EmitStep
  <2>5. QED BY <2>4 DEF LeaksStayIn
<1>14. CASE ~isOutdated
  <2>1. PICK doc \in Document : doc = [matches |-> content, committed |-> FALSE]
    BY LocalStoreAssumption DEF Document
  <2>2. u = [t EXCEPT !.cache[k] = doc]
    BY <1>10, <1>14, <2>1 DEF ApplyDocumentUpdate
  <2>3. /\ u \in Stores /\ ViewsOK(u) /\ TargetsOK(u, Gained(s, change) \ {k})
        /\ KeptOK(u, X \cup {k})
        /\ u.targets = t.targets /\ u.sentinel = t.sentinel /\ u.orphaned = t.orphaned
        /\ u.localRefs = t.localRefs /\ u.batches = t.batches
        /\ IsCached(u, k) /\ \A d \in Keys : d # k => u.cache[d] = t.cache[d]
    BY <1>7, <2>2, CacheDocument
  <2>4. Gained(s, change) \ {k} = {}
    BY <1>9
  <2>5. StoreOK(u, X \cup {k})
    BY <2>3, <2>4 DEF StoreOK
  <2>6. u.localRefs = localRefs /\ \A d \in Keys : cache[d] # None => u.cache[d] # None
    BY <1>2, <1>7, <2>3 DEF IsCached
  <2>7. StoreInv' /\ PinnedStep /\ LeaksStayIn(X \cup {k}) /\ targets' = u.targets
    BY <1>12, <2>5, <2>6, EmitStep
  <2>8. \A d : IsReferenced(u, d) <=> IsReferenced(t, d)
    BY <2>3 DEF IsReferenced, Contained, IsTarget, MutationQueuesContain, InLocalView
  <2>9. \/ k \in X
        \/ IF IsEager THEN IsReferenced(u, k) \/ k \in u.orphaned ELSE u.sentinel[k] # None
        \/ ~IsCached(s, k) /\ ~Contained(u, k)
    <3>1. CASE \E q \in D : q \in kept
      <4>1. PICK q \in D : k \in change[q]
        BY <1>5, <3>1
      <4>2. IsEager => IsReferenced(u, k)
        BY <1>4, <1>7, <2>3, <4>1 DEF IsReferenced, Contained, IsTarget
      <4>3. CASE ~IsEager
        <5>1. CASE k \in targets[q].keys
          <6>1. IsCached(t, k)
            BY <1>2, <1>4, <1>7, <5>1 DEF StoreOK, TargetsOK, IsCached
          <6>2. QED BY <1>7, <2>3, <4>3, <6>1 DEF KeptOK
        <5>2. CASE k \notin targets[q].keys
          <6>1. k \in Gained(s, change)
            BY <1>2, <1>8, <4>1, <5>2 DEF Gained
          <6>2. QED BY <1>7, <2>3, <4>3, <6>1
        <5>3. QED BY <5>1, <5>2
      <4>4. QED BY <4>2, <4>3
    <3>2. CASE \A q \in D : q \notin kept
      <4>1. k \notin Gained(s, change)
        BY <1>5, <1>8, <3>2 DEF Gained
      <4>2. CASE IsCached(s, k)
        <5>1. IsCached(t, k)
          BY <1>7, <4>2 DEF IsCached
        <5>2. QED BY <1>7, <2>3, <2>8, <5>1 DEF KeptOK
      <4>3. CASE ~IsCached(s, k)
        <5>1. ~Contained(t, k)
          BY <1>7, <4>1, <4>3 DEF Contained, TargetsOK, IsCached
        <5>2. QED BY <2>3, <4>3, <5>1 DEF Contained, IsTarget
      <4>4. QED BY <4>2, <4>3
    <3>3. QED BY <3>1, <3>2
  <2>10. CASE \/ k \in X
              \/ IF IsEager THEN IsReferenced(u, k) \/ k \in u.orphaned ELSE u.sentinel[k] # None
    <3>1. KeptOK(u, X)
      BY <2>3, <2>10 DEF KeptOK
    <3>2. StoreOK(u, X)
      BY <2>5, <3>1 DEF StoreOK
    <3>3. LeaksStayIn(X)
      BY <1>12, <2>6, <3>2, EmitStep
    <3>4. QED BY <2>7, <3>3
  <2>11. CASE ~IsCached(s, k) /\ ~Contained(u, k)
    <3>1. ~IsCached(Store, k)
      BY <1>2, <2>11, StoreIs DEF IsCached
    <3>2. Store'.targets = u.targets
      BY <2>7 DEF Store
    <3>3. ~Contained(Store', k)
      BY <2>11, <3>2 DEF Contained, IsTarget
    <3>4. QED BY <2>7, <3>1, <3>3
  <2>12. QED BY <2>9, <2>10, <2>11
<1>15. QED BY <1>13, <1>14

LEMMA ApplyTargetChangeStep ==
    ASSUME StoreInv, NEW X, KeptOK(Store, X), NEW q \in Queries, ApplyTargetChange(q)
    PROVE  StoreInv' /\ PinnedStep /\ LeaksStayIn(X)
<1>1. PICK s : s = StartTransaction(Store)
  OBVIOUS
<1>2. /\ StoreOK(s, X) /\ s \in Stores /\ s.orphaned = {} /\ s.cache = cache
      /\ s.targets = targets /\ s.active = active /\ s.localRefs = localRefs
  BY <1>1, Started
<1>3. q \in s.active /\ IsTarget(s, q) /\ targets[q].keys \subseteq Keys
  BY <1>2, StoreFields DEF ApplyTargetChange, StoreOK, TargetsOK, IsTarget, Target
<1>40. PICK keys \in SUBSET targets[q].keys, hasToken \in BOOLEAN :
        Become(CommitAndEmit(ApplyTargetChanges(s, [r \in {q} |-> keys], hasToken), {}))
  BY <1>1 DEF ApplyTargetChange
<1>41. PICK change : change = [r \in {q} |-> keys]
  OBVIOUS
<1>4. change = [r \in {q} |-> keys]
      /\ Become(CommitAndEmit(ApplyTargetChanges(s, change, hasToken), {}))
  BY <1>40, <1>41
<1>5. {q} \in SUBSET s.active /\ change \in [{q} -> SUBSET Keys] /\ DOMAIN change = {q}
      /\ change[q] = keys
  BY <1>3, <1>4
<1>6. PICK t : t = ApplyTargetChanges(s, change, hasToken)
  OBVIOUS
<1>7. /\ t \in Stores /\ ViewsOK(t) /\ TargetsOK(t, Gained(s, change)) /\ KeptOK(t, X)
      /\ t.cache = s.cache /\ t.localRefs = s.localRefs
  BY <1>2, <1>5, <1>6, ApplyTargetChangesOK
<1>8. Gained(s, change) = {}
  BY <1>2, <1>4, <1>5 DEF Gained
<1>9. StoreOK(t, X)
  BY <1>7, <1>8 DEF StoreOK
<1>10. Become(CommitAndEmit(t, {}))
  BY <1>4, <1>6
<1>11. {} \in SUBSET Keys
  OBVIOUS
<1>12. QED BY <1>2, <1>7, <1>9, <1>10, <1>11, EmitStep

\* The answer for a document in limbo: the delegate hears of it unless it is referenced.
LEMMA ApplyLimboChangeStep ==
    ASSUME StoreInv, NEW X, KeptOK(Store, X), NEW k \in Keys, NEW content \in Contents,
           ApplyLimboChange(k, content)
    PROVE  StoreInv' /\ PinnedStep /\ LeaksStayIn(X)
<1>1. PICK s : s = StartTransaction(Store)
  OBVIOUS
<1>2. /\ StoreOK(s, X) /\ s \in Stores /\ s.orphaned = {} /\ s.cache = cache
      /\ s.localRefs = localRefs
  BY <1>1, Started
<1>3. PICK isOutdated \in BOOLEAN :
        Become(CommitAndEmit(LimboDocumentUpdated(ApplyDocumentUpdate(s, k, content, isOutdated), k),
                             IF isOutdated THEN {} ELSE {k}))
  BY <1>1 DEF ApplyLimboChange
<1>4. PICK t : t = ApplyDocumentUpdate(s, k, content, isOutdated)
  OBVIOUS
<1>5. /\ t \in Stores /\ ViewsOK(t) /\ TargetsOK(t, {}) /\ KeptOK(t, X \cup {k})
      /\ t.localRefs = localRefs /\ t.orphaned = {}
      /\ \A d \in Keys : cache[d] # None => t.cache[d] # None
  <2>1. CASE isOutdated
    BY <1>2, <1>4, <2>1, KeptWeaker DEF ApplyDocumentUpdate, StoreOK
  <2>2. CASE ~isOutdated
    <3>1. PICK doc \in Document : doc = [matches |-> content, committed |-> FALSE]
      BY LocalStoreAssumption DEF Document
    <3>2. t = [s EXCEPT !.cache[k] = doc]
      BY <1>4, <2>2, <3>1 DEF ApplyDocumentUpdate
    <3>3. ViewsOK(s) /\ TargetsOK(s, {}) /\ KeptOK(s, X)
      BY <1>2 DEF StoreOK
    <3>4. /\ t \in Stores /\ ViewsOK(t) /\ TargetsOK(t, {} \ {k}) /\ KeptOK(t, X \cup {k})
          /\ t.localRefs = s.localRefs /\ t.orphaned = s.orphaned
          /\ IsCached(t, k) /\ \A d \in Keys : d # k => t.cache[d] = s.cache[d]
      BY <1>2, <3>2, <3>3, CacheDocument
    <3>5. {} \ {k} = {}
      OBVIOUS
    <3>6. QED BY <1>2, <3>4, <3>5 DEF IsCached
  <2>3. QED BY <2>1, <2>2
<1>6. PICK u : u = LimboDocumentUpdated(t, k)
  OBVIOUS
<1>7. StoreOK(u, X) /\ u.localRefs = t.localRefs /\ u.cache = t.cache
  <2>1. CASE IsEager /\ IsReferenced(t, k)
    <3>1. u = [t EXCEPT !.orphaned = t.orphaned \ {k}]
      BY <1>6, <2>1 DEF LimboDocumentUpdated
    <3>2. /\ u \in Stores /\ u.cache = t.cache /\ u.batches = t.batches /\ u.targets = t.targets
          /\ u.active = t.active /\ u.localRefs = t.localRefs /\ u.views = t.views
          /\ u.orphaned = t.orphaned \ {k}
      BY <1>5, <3>1, StoreFields DEF Stores
    <3>3. ViewsOK(u) /\ TargetsOK(u, {})
      BY <1>5, <3>2 DEF ViewsOK, TargetsOK, IsTarget, IsCached
    <3>4. \A d : IsReferenced(u, d) <=> IsReferenced(t, d)
      BY <3>2 DEF IsReferenced, Contained, IsTarget, MutationQueuesContain, InLocalView
    <3>5. KeptOK(u, X)
      BY <1>5, <2>1, <3>2, <3>4 DEF KeptOK, IsCached
    <3>6. QED BY <3>2, <3>3, <3>5 DEF StoreOK
  <2>2. CASE ~(IsEager /\ IsReferenced(t, k))
    <3>1. u = RemoveReferences(t, {k}) /\ {k} \in SUBSET Keys
      BY <1>6, <2>2 DEF LimboDocumentUpdated
    <3>2. /\ u \in Stores /\ SameButDelegate(t, u) /\ KeptOK(u, (X \cup {k}) \ {k})
          /\ ViewsOK(u) /\ TargetsOK(u, {})
      BY <1>5, <3>1, RemoveReferencesOK
    <3>3. KeptOK(u, X)
      BY <3>2, KeptWeaker
    <3>4. QED BY <3>2, <3>3 DEF StoreOK, SameButDelegate
  <2>3. QED BY <2>1, <2>2
<1>8. PICK changed \in SUBSET Keys : changed = IF isOutdated THEN {} ELSE {k}
  OBVIOUS
<1>9. Become(CommitAndEmit(u, changed))
  BY <1>3, <1>4, <1>6, <1>8
<1>10. QED BY <1>5, <1>7, <1>9, EmitStep

\* The LRU collector: whatever its bound, it takes targets that are not active and then
\* documents that no target, write or view has.
LEMMA CollectGarbageStep ==
    ASSUME StoreInv, NEW X, KeptOK(Store, X), CollectGarbage
    PROVE  StoreInv' /\ PinnedStep /\ LeaksStayIn(X)
<1>1. PICK s : s = StartTransaction(Store)
  OBVIOUS
<1>2. /\ StoreOK(s, X) /\ s \in Stores /\ s.orphaned = {} /\ s.cache = cache
      /\ s.localRefs = localRefs
  BY <1>1, Started
<1>3. ~IsEager /\ \E bound : Become(RemoveOrphanedDocuments(RemoveTargets(s, bound), bound))
  BY <1>1 DEF CollectGarbage
<1>4. PICK bound : Become(RemoveOrphanedDocuments(RemoveTargets(s, bound), bound))
  BY <1>3
<1>5. PICK t : t = RemoveTargets(s, bound)
  OBVIOUS
<1>6. PICK f : f = [q \in Queries |->
        IF IsTarget(s, q) /\ s.targets[q].seq <= bound /\ q \notin s.active THEN None
        ELSE s.targets[q]]
  OBVIOUS
<1>7. /\ f \in [Queries -> Target \cup {None}]
      /\ \A q \in Queries : f[q] # None => f[q] = s.targets[q]
      /\ \A q \in s.active : f[q] = s.targets[q]
  BY <1>2, <1>6, StoreFields
<1>8. t = [s EXCEPT !.targets = f]
  BY <1>5, <1>6 DEF RemoveTargets
<1>9. /\ t \in Stores /\ t.targets = f /\ t.cache = s.cache /\ t.batches = s.batches
      /\ t.sentinel = s.sentinel /\ t.active = s.active /\ t.localRefs = s.localRefs
      /\ t.views = s.views /\ t.orphaned = {}
  BY <1>2, <1>7, <1>8 DEF Stores
<1>10. TargetsOK(t, {})
  BY <1>2, <1>3, <1>7, <1>9 DEF StoreOK, TargetsOK, IsTarget, IsCached
<1>11. PICK removed : removed = {k \in Orphaned(t) : t.sentinel[k] <= bound
                                    /\ ~MutationQueuesContain(t, k) /\ ~InLocalView(t, k)}
  OBVIOUS
<1>12. \A k \in removed : k \in Keys /\ ~Contained(t, k) /\ ~MutationQueuesContain(t, k)
                          /\ ~InLocalView(t, k)
  BY <1>11 DEF Orphaned
<1>13. PICK u : u = RemoveOrphanedDocuments(t, bound)
  OBVIOUS
<1>14. PICK g, h : /\ g = [k \in Keys |-> IF k \in removed THEN None ELSE t.cache[k]]
                   /\ h = [k \in Keys |-> IF k \in removed THEN None ELSE t.sentinel[k]]
  OBVIOUS
<1>15. g \in [Keys -> Document \cup {None}] /\ h \in [Keys -> Nat \cup {None}]
  BY <1>9, <1>14, StoreFields
<1>16. u = [t EXCEPT !.cache = g, !.sentinel = h]
  BY <1>11, <1>13, <1>14 DEF RemoveOrphanedDocuments
<1>17. /\ u \in Stores /\ u.cache = g /\ u.sentinel = h
       /\ u.targets = t.targets /\ u.batches = t.batches
       /\ u.active = t.active /\ u.localRefs = t.localRefs /\ u.views = t.views
       /\ u.orphaned = {}
  BY <1>9, <1>15, <1>16 DEF Stores
<1>18. ViewsOK(u)
  BY <1>2, <1>9, <1>17 DEF StoreOK, ViewsOK
<1>19. TargetsOK(u, {})
  <2>1. ASSUME NEW q \in Queries, IsTarget(u, q), NEW k \in u.targets[q].keys
        PROVE  IsCached(u, k)
    <3>1. k \in Keys
      BY <1>17, <2>1, StoreFields DEF IsTarget, Target
    <3>2. IsTarget(t, q) /\ k \in t.targets[q].keys
      BY <1>17, <2>1 DEF IsTarget
    <3>3. IsCached(t, k) /\ k \notin removed
      BY <1>10, <1>12, <3>2 DEF TargetsOK, Contained
    <3>4. QED BY <1>14, <1>17, <3>1, <3>3 DEF IsCached
  <2>2. QED BY <1>10, <1>17, <2>1 DEF TargetsOK, IsTarget
<1>20. KeptOK(u, X)
  <2>1. SUFFICES ASSUME NEW k \in Keys \ X, IsCached(u, k) PROVE u.sentinel[k] # None
    BY <1>3 DEF KeptOK
  <2>2. k \notin removed /\ IsCached(s, k)
    BY <1>9, <1>14, <1>17, <2>1 DEF IsCached
  <2>3. s.sentinel[k] # None
    BY <1>2, <1>3, <2>1, <2>2 DEF StoreOK, KeptOK
  <2>4. QED BY <1>9, <1>14, <1>17, <2>2, <2>3
<1>21. ASSUME NEW k \in Keys, cache[k] # None, u.cache[k] = None
       PROVE  /\ ~MutationQueuesContain(u, k)
              /\ \A q \in u.active : ~(<<k, q>> \in localRefs /\ <<k, q>> \in u.localRefs)
  <2>1. k \in removed
    BY <1>2, <1>9, <1>14, <1>17, <1>21
  <2>2. u.active \subseteq Queries
    BY <1>17, StoreFields
  <2>3. QED BY <1>12, <1>17, <2>1, <2>2 DEF MutationQueuesContain, InLocalView
<1>22. Become(u)
  BY <1>4, <1>5, <1>13
<1>23. QED BY <1>17, <1>18, <1>19, <1>20, <1>21, <1>22, BecomeOK DEF StoreOK

LEMMA RestartStep ==
    ASSUME StoreInv, NEW X, KeptOK(Store, X), Restart
    PROVE  StoreInv' /\ PinnedStep /\ LeaksStayIn(X)
<1>1. ~IsEager /\ StoreOK(Store, X) /\ Store \in Stores
  BY DEF Restart, StoreInv, StoreOK
<1>2. PICK f : f = [q \in Queries |-> {}]
  OBVIOUS
<1>3. PICK t : t = [Store EXCEPT !.active = {}, !.localRefs = {}, !.clock = highest, !.views = f]
  OBVIOUS
<1>4. Become(t)
  BY <1>2, <1>3 DEF Restart
<1>5. f \in [Queries -> SUBSET Keys] /\ highest \in Nat
  BY <1>1, <1>2, StoreFields, StoreIs
<1>6. /\ t \in Stores /\ t.active = {} /\ t.localRefs = {} /\ t.views = f
      /\ t.cache = cache /\ t.targets = targets /\ t.sentinel = sentinel /\ t.orphaned = {}
  <2> DEFINE s == Store
  <2>1. s \in Stores /\ t = [s EXCEPT !.active = {}, !.localRefs = {}, !.clock = highest, !.views = f]
    BY <1>1, <1>3
  <2>2. s.cache = cache /\ s.targets = targets /\ s.sentinel = sentinel /\ s.orphaned = {}
    BY StoreIs
  <2> HIDE DEF s
  <2>3. QED BY <1>5, <2>1, <2>2 DEF Stores
<1>7. ViewsOK(t)
  BY <1>2, <1>6 DEF ViewsOK
<1>8. TargetsOK(t, {})
  BY <1>1, <1>6, StoreIs DEF StoreOK, TargetsOK, IsTarget, IsCached
<1>9. KeptOK(t, X)
  BY <1>1, <1>6, StoreIs DEF StoreOK, KeptOK, IsCached
<1>10. QED BY <1>4, <1>6, <1>7, <1>8, <1>9, BecomeOK DEF StoreOK

-----------------------------------------------------------------------------
(* The theorems.                                                           *)

LEMMA InitHolds ==
    ASSUME Init
    PROVE  StoreInv
<1>1. Store \in Stores
  <2>1. /\ cache \in [Keys -> Document \cup {None}] /\ batches \in Seq(Batch)
        /\ targets \in [Queries -> Target \cup {None}]
        /\ sentinel \in [Keys -> Nat \cup {None}]
        /\ highest \in Nat /\ clock \in Nat /\ active \in SUBSET Queries
        /\ localRefs \in SUBSET (Keys \X Queries) /\ views \in [Queries -> SUBSET Keys]
    BY DEF Init
  <2>2. QED BY <2>1 DEF Store, Stores
<1>2. ViewsOK(Store)
  BY StoreIs DEF Init, ViewsOK
<1>3. TargetsOK(Store, {})
  BY StoreIs DEF Init, TargetsOK, IsTarget
<1>4. QED BY <1>1, <1>2, <1>3 DEF Init, StoreInv

\* The step of OnlyStraysAreLeaked.
StrayStep ==
    \A k \in Keys : IsLeaked(Store', k) /\ ~IsLeaked(Store, k) =>
        /\ ~IsCached(Store, k) /\ ~Contained(Store', k)
        /\ \E content \in Contents : ApplyDocumentChange(k, content)

LEMMA NextHolds ==
    ASSUME StoreInv, Next
    PROVE  StoreInv' /\ PinnedStep /\ StrayStep
<1>1. PICK X : X = Leaked
  OBVIOUS
<1>2. KeptOK(Store, X) /\ \A k \in Keys : k \in X <=> IsLeaked(Store, k)
  BY <1>1 DEF KeptOK, Leaked, IsLeaked, Store
<1>3. LeaksStayIn(X) => StrayStep
  BY <1>2 DEF LeaksStayIn, StrayStep
<1>4. CASE \E q \in Queries : AllocateQuery(q) \/ ReleaseQuery(q) \/ ApplyTargetChange(q)
  BY <1>2, <1>3, <1>4, AllocateQueryStep, ReleaseQueryStep, ApplyTargetChangeStep
<1>5. CASE \E k \in Keys, content \in Contents :
              LocallyWriteMutations(k, content) \/ ApplyLimboChange(k, content)
  BY <1>2, <1>3, <1>5, LocallyWriteMutationsStep, ApplyLimboChangeStep
<1>6. CASE \E k \in Keys, content \in Contents : ApplyDocumentChange(k, content)
  <2>1. PICK k \in Keys, content \in Contents : ApplyDocumentChange(k, content)
    BY <1>6
  <2>2. /\ StoreInv' /\ PinnedStep /\ LeaksStayIn(X \cup {k})
        /\ LeaksStayIn(X) \/ (~IsCached(Store, k) /\ ~Contained(Store', k))
    BY <1>2, <2>1, ApplyDocumentChangeStep
  <2>3. CASE ~IsCached(Store, k) /\ ~Contained(Store', k)
    <3>1. ASSUME NEW d \in Keys, IsLeaked(Store', d), ~IsLeaked(Store, d)
          PROVE  d = k
      BY <1>2, <2>2, <3>1 DEF LeaksStayIn
    <3>2. StrayStep
      BY <2>1, <2>3, <3>1 DEF StrayStep
    <3>3. QED BY <2>2, <3>2
  <2>4. QED BY <1>3, <2>2, <2>3
<1>7. CASE AcknowledgeBatch \/ RejectBatch
  BY <1>2, <1>3, <1>7, AcknowledgeBatchStep, RejectBatchStep
<1>8. CASE CollectGarbage \/ Restart
  BY <1>2, <1>3, <1>8, CollectGarbageStep, RestartStep
<1>9. QED BY <1>4, <1>5, <1>6, <1>7, <1>8 DEF Next

LEMMA StutterHolds ==
    ASSUME StoreInv, UNCHANGED vars
    PROVE  StoreInv'
<1>1. UNCHANGED <<delegate, cache, batches, targets, sentinel, highest, clock, active, localRefs, views>>
  BY DEF vars
<1>2. Store' = Store /\ (IsEager' <=> IsEager)
  BY <1>1 DEF Store, IsEager
<1>3. ViewsOK(Store)' /\ TargetsOK(Store, {})'
  BY <1>2 DEF StoreInv, ViewsOK, TargetsOK, IsTarget, IsCached
<1>4. (Store \in Stores)'
  BY <1>2 DEF StoreInv, Stores, Document, Target, Batch
<1>5. QED BY <1>1, <1>3, <1>4 DEF StoreInv

\* Every reachable state of the local store satisfies the invariant, for either reference
\* delegate and any settings of the collector: views, and with eager collection targets,
\* are those of active queries, and what a target has is cached.
THEOREM LocalStoreSafety == Spec => []StoreInv
<1>1. Init => StoreInv
  BY InitHolds
<1>2. StoreInv /\ [Next]_vars => StoreInv'
  BY NextHolds, StutterHolds
<1>3. QED BY <1>1, <1>2, PTL DEF Spec

\* A document that the collector will never look at got there by one kind of step: a remote
\* event with an update of it for an active query, when it was not cached and is in no
\* target afterwards.  No end of a write, a target or a view leaves one behind.
THEOREM OnlyStraysLeak == Spec => OnlyStraysAreLeaked
<1>1. StoreInv /\ [Next]_vars => [StrayStep]_vars
  BY NextHolds
<1>2. QED BY <1>1, LocalStoreSafety, PTL DEF Spec, OnlyStraysAreLeaked, StrayStep

\* What pins documents is given back: no reference of a view, and with eager collection no
\* target, outlives the release of its query.
THEOREM PinsEnd == Spec => []OnlyActiveQueriesPin
<1>1. StoreInv => OnlyActiveQueriesPin
  BY StoreIs DEF StoreInv, ViewsOK, TargetsOK, OnlyActiveQueriesPin
<1>2. QED BY <1>1, LocalStoreSafety, PTL

\* A target that can be resumed has all its documents in the cache, whatever was collected
\* since, and an active query has a target.
THEOREM TargetsStayComplete == Spec => []ResumableTargetsAreComplete
<1>1. StoreInv => ResumableTargetsAreComplete
  BY StoreIs DEF StoreInv, TargetsOK, ResumableTargetsAreComplete
<1>2. QED BY <1>1, LocalStoreSafety, PTL

\* No step takes a document from the cache while a write waits to be applied to it or a
\* view that stays has pinned it: CommitTransaction of the eager delegate, and the
\* LRU collector's RemoveOrphanedDocuments.
THEOREM PinnedStays == Spec => PinnedIsKept
<1>1. StoreInv /\ [Next]_vars => [PinnedStep]_vars
  BY NextHolds
<1>2. QED BY <1>1, LocalStoreSafety, PTL DEF Spec, PinnedIsKept, PinnedStep
===============================================================================
