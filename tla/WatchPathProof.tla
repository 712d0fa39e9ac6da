--------------------------- MODULE WatchPathProof ---------------------------
(***************************************************************************)
(* Proofs about WatchPath, for any targets, documents and bounds.          *)
(***************************************************************************)
EXTENDS WatchPath, TLAPS, SequenceTheorems, FiniteSetTheorems, FunctionTheorems

-----------------------------------------------------------------------------
(* The inductive invariant.                                                *)

TargetRequests == [op : {"watch", "unwatch"}, target : Targets, token : Nat]

\* What a target may be sent, and a snapshot.
DocumentMessages == [op : {"add", "remove"}, target : Targets, doc : Docs, n : Nat]
TargetMessages == [op : {"added", "removed", "error", "current", "reset", "filter"},
                   target : Targets, doc : {NoOne}, n : Nat]
Snapshots == [op : {"snapshot"}, target : {NoOne}, doc : {NoOne}, n : Nat \ {0}]
Messages == DocumentMessages \cup TargetMessages \cup Snapshots

TargetStates ==
    [known : BOOLEAN, outstanding : Int, current : BOOLEAN, dirty : BOOLEAN,
     changes : [Docs -> ChangeTypes], token : Nat]

Saved == [token : Nat, version : Nat, keys : SUBSET Docs]
QueryData == [token : Nat, version : Nat]
Views == [keys : SUBSET Docs, current : BOOLEAN, version : Nat]
Service == [stage : {"none", "loading", "current"}, sent : SUBSET Docs, filterDue : BOOLEAN]
Budget == [versions : Nat, listens : Nat, faults : Nat, elisions : Nat, resets : Nat,
           errors : Nat, toggles : Nat, restarts : Nat]

StoreType ==
    /\ saved \in [Targets -> Saved] /\ lastRemoteVersion \in Nat
    /\ query \in [Targets -> QueryData] /\ view \in [Targets -> Views]

RemoteType ==
    /\ isNetworkEnabled \in BOOLEAN /\ hasAggregator \in BOOLEAN
    /\ listening \in SUBSET Targets /\ resume \in [Targets -> Nat]
    /\ targetState \in [Targets -> TargetStates] /\ resets \in SUBSET Targets

CallType ==
    /\ toServer \in Seq(TargetRequests) /\ toClient \in Seq(Messages)
    /\ server \in [Targets -> Service] /\ news \in BOOLEAN
    /\ history \in Seq([Targets -> SUBSET Docs]) /\ seen \in 1 .. Len(history)
    /\ budget \in Budget

Streams == [state : States, closeCount : Nat, timers : SUBSET {"idle", "backoff"},
            requests : SUBSET [closeCount : Nat], failed : {{}}]

\* Timers go with the state, an idle timer runs only when nothing is listened to, a token
\* callback with the present close count is the one that the stream waits for, and a
\* started stream has an aggregator and an enabled network.
StreamOK(s, net, targets, agg) ==
    /\ s \in Streams
    /\ "backoff" \in s.timers <=> s.state = "Backoff"
    /\ "idle" \in s.timers => s.state = "Open" /\ targets = {}
    /\ \A r \in s.requests :
        r.closeCount <= s.closeCount /\ (r.closeCount = s.closeCount => s.state = "Starting")
    /\ IsStarted(s) => net /\ agg

Trackers == [state : OnlineStates, failures : Nat, timer : BOOLEAN, failed : {{}}]

OnlineOK(o, s, net) ==
    /\ o \in Trackers
    /\ o.state = "Online" => IsOpen(s) /\ o.failures = 0
    /\ ~net => o.state = "Offline"
    /\ o.timer => o.state = "Unknown" /\ IsStarted(s)

\* Without an open stream nothing is in flight and nothing is aggregated.
QuietOK ==
    ~IsOpen(stream) => /\ toServer = <<>> /\ toClient = <<>>
                       /\ targetState = NoTargets /\ resets = {}

\* What target_states_ holds for a target.
StateOK(s) == s \in TargetStates /\ (~s.known => s = NoTarget)
KnownOK == \A t \in Targets : StateOK(targetState[t])

\* The assertion of FSTView and that of OnWatchStreamClose; WatchInv says that no other one
\* fails, KeysInv when these do.
ViewAssertion == "modified document not found in view"

FailedOK == failed \subseteq {ViewAssertion, GracefulEnd}

WatchInv ==
    /\ StoreType /\ RemoteType /\ CallType
    /\ StreamOK(stream, isNetworkEnabled, listening, hasAggregator)
    /\ OnlineOK(online, stream, isNetworkEnabled)
    /\ QuietOK
    /\ KnownOK
    /\ FailedOK

-----------------------------------------------------------------------------
(* Counting what is in flight.                                             *)

Hit(e, t, ops) == e.target = t /\ e.op \in ops

Hits(seq, t, ops) == {i \in 1 .. Len(seq) : Hit(seq[i], t, ops)}

LEMMA CountIs ==
    ASSUME NEW S, NEW seq \in Seq(S), NEW t, NEW ops
    PROVE  /\ IsFiniteSet(Hits(seq, t, ops)) /\ Hits(seq, t, ops) \subseteq 1 .. Len(seq)
           /\ Count(seq, t, ops) = Cardinality(Hits(seq, t, ops))
           /\ Count(seq, t, ops) \in Nat
<1>1. IsFiniteSet(1 .. Len(seq))
  BY FS_Interval, Len(seq) \in Int, 1 \in Int
<1>2. Hits(seq, t, ops) \in SUBSET (1 .. Len(seq))
  BY DEF Hits
<1>3. IsFiniteSet(Hits(seq, t, ops))
  BY <1>1, <1>2, FS_Subset
<1>4. Count(seq, t, ops) = Cardinality(Hits(seq, t, ops))
  BY DEF Count, Hits, Hit
<1> QED
  BY <1>2, <1>3, <1>4, FS_CardinalityType

LEMMA CountNone ==
    ASSUME NEW S, NEW seq \in Seq(S), NEW t, NEW ops,
           \A i \in 1 .. Len(seq) : ~Hit(seq[i], t, ops)
    PROVE  Count(seq, t, ops) = 0
<1>1. Hits(seq, t, ops) = {}
  BY DEF Hits
<1> QED
  BY <1>1, CountIs, FS_EmptySet

\* Moving the positions leaves their number as it is.
LEMMA ShiftCount ==
    ASSUME NEW A \in SUBSET Nat, IsFiniteSet(A), NEW B \in SUBSET Nat, NEW k \in Nat,
           \A i \in Nat : i \in B <=> i + k \in A,
           \A i \in A : i - k \in Nat
    PROVE  IsFiniteSet(B) /\ Cardinality(B) = Cardinality(A)
<1>1. PICK f : f = [i \in A |-> i - k]
  OBVIOUS
<1>2. \A i \in A : i - k \in B
  <2>1. \A i \in A : (i - k) + k = i /\ i - k \in Nat
    OBVIOUS
  <2> QED
    BY <2>1
<1>3. f \in [A -> B]
  BY <1>1, <1>2
<1>4. \A i, j \in A : f[i] = f[j] => i = j
  BY <1>1
<1>5. \A j \in B : \E i \in A : f[i] = j
  <2>1. \A j \in B : j + k \in A /\ f[j + k] = j
    BY <1>1
  <2> QED
    BY <2>1
<1>6. f \in Bijection(A, B)
  BY <1>3, <1>4, <1>5 DEF Bijection, Injection, Surjection, IsInjective
<1>7. ExistsBijection(A, B)
  BY <1>6 DEF ExistsBijection
<1> QED
  BY <1>7, FS_Bijection

LEMMA CountConcat ==
    ASSUME NEW S, NEW a \in Seq(S), NEW b \in Seq(S), NEW t, NEW ops
    PROVE  Count(a \o b, t, ops) = Count(a, t, ops) + Count(b, t, ops)
<1>1. PICK n \in Nat : n = Len(a)
  OBVIOUS
<1>2. PICK m \in Nat : m = Len(b)
  OBVIOUS
<1>3. PICK c : c = a \o b
  OBVIOUS
<1>4. c \in Seq(S) /\ Len(c) = n + m
  BY <1>1, <1>2, <1>3, ConcatProperties
<1>5. \A i \in 1 .. n : c[i] = a[i]
  BY <1>1, <1>3
<1>6. \A i \in 1 .. m : c[n + i] = b[i]
  BY <1>1, <1>2, <1>3
<1>7. PICK A : A = Hits(a, t, ops)
  OBVIOUS
<1>8. PICK B : B = Hits(b, t, ops)
  OBVIOUS
<1>9. PICK C : C = Hits(c, t, ops)
  OBVIOUS
<1>10. /\ IsFiniteSet(A) /\ A \subseteq 1 .. n /\ Count(a, t, ops) = Cardinality(A)
       /\ Count(a, t, ops) \in Nat
  BY <1>1, <1>7, CountIs
<1>11. /\ IsFiniteSet(B) /\ B \subseteq 1 .. m /\ Count(b, t, ops) = Cardinality(B)
  BY <1>2, <1>8, CountIs
<1>12. /\ IsFiniteSet(C) /\ C \subseteq 1 .. n + m /\ Count(c, t, ops) = Cardinality(C)
  BY <1>4, <1>9, CountIs
<1>13. PICK D : D = C \ A
  OBVIOUS
<1>14. \A i \in 1 .. n : i \in C <=> i \in A
  BY <1>1, <1>4, <1>5, <1>7, <1>9 DEF Hits
<1>15. \A i \in 1 .. m : n + i \in C <=> i \in B
  <2>1. \A i \in 1 .. m : n + i \in 1 .. n + m
    OBVIOUS
  <2> QED
    BY <1>2, <1>4, <1>6, <1>8, <1>9, <2>1 DEF Hits
<1>16. IsFiniteSet(D) /\ \A i \in D : i \in n + 1 .. n + m
  <2>1. D \in SUBSET C
    BY <1>13
  <2>2. IsFiniteSet(D)
    BY <1>12, <2>1, FS_Subset
  <2> QED
    BY <1>12, <1>13, <1>14, <2>2
<1>17. IsFiniteSet(B) /\ Cardinality(B) = Cardinality(D)
  <2>1. \A i \in D : i - n \in Nat
    BY <1>16
  <2>2. ASSUME NEW i \in Nat PROVE i \in B <=> i + n \in D
    <3>1. CASE i \in 1 .. m
      <4>1. n + i \notin A /\ n + i = i + n
        BY <1>10, <3>1
      <4> QED
        BY <1>13, <1>15, <3>1, <4>1
    <3>2. CASE i \notin 1 .. m
      <4>1. i + n \notin n + 1 .. n + m
        BY <3>2
      <4> QED
        BY <1>11, <1>16, <3>2, <4>1
    <3> QED
      BY <3>1, <3>2
  <2>3. D \in SUBSET Nat /\ B \in SUBSET Nat
    BY <1>11, <1>16
  <2> QED
    BY <1>16, <2>1, <2>2, <2>3, ShiftCount
<1>18. C = A \cup D /\ A \cap D = {}
  <2>1. A \subseteq C
    BY <1>10, <1>14
  <2> QED
    BY <1>13, <2>1
<1>19. Cardinality(C) = Cardinality(A) + Cardinality(D) - Cardinality(A \cap D)
  BY <1>10, <1>16, <1>18, FS_Union
<1>20. Cardinality(A \cap D) = 0
  BY <1>18, FS_EmptySet
<1>21. Cardinality(A) \in Nat /\ Cardinality(D) \in Nat
  BY <1>10, <1>16, FS_CardinalityType
<1> QED
  BY <1>3, <1>10, <1>11, <1>12, <1>17, <1>19, <1>20, <1>21

Hit1(e, t, ops) == IF Hit(e, t, ops) THEN 1 ELSE 0

LEMMA OneSeq ==
    ASSUME NEW S, NEW e \in S
    PROVE  <<e>> \in Seq(S) /\ Len(<<e>>) = 1 /\ <<e>>[1] = e
<1>1. <<e>> \in Seq(S)
  OBVIOUS
<1>2. Len(<<e>>) = 1
  OBVIOUS
<1>3. <<e>>[1] = e
  OBVIOUS
<1> QED
  BY <1>1, <1>2, <1>3, Zenon

LEMMA CountOne ==
    ASSUME NEW S, NEW e \in S, NEW t, NEW ops
    PROVE  Count(<<e>>, t, ops) = Hit1(e, t, ops)
<1>1. PICK c : c = <<e>> /\ c \in Seq(S) /\ Len(c) = 1 /\ c[1] = e
  BY OneSeq, Zenon
<1>2. Count(c, t, ops) = Cardinality(Hits(c, t, ops))
  BY <1>1, CountIs
<1>4. CASE Hit(e, t, ops)
  <2>1. Hits(c, t, ops) = {1}
    BY <1>1, <1>4 DEF Hits
  <2>2. Cardinality({1}) = 1
    BY FS_Singleton
  <2>3. Hit1(e, t, ops) = 1
    BY <1>4 DEF Hit1
  <2> QED
    BY <1>1, <1>2, <2>1, <2>2, <2>3, Zenon
<1>5. CASE ~Hit(e, t, ops)
  <2>1. Hits(c, t, ops) = {}
    BY <1>1, <1>5 DEF Hits
  <2>2. Hit1(e, t, ops) = 0
    BY <1>5 DEF Hit1
  <2> QED
    BY <1>1, <1>2, <2>1, <2>2, FS_EmptySet, Zenon
<1> QED
  BY <1>4, <1>5

LEMMA CountAppend ==
    ASSUME NEW S, NEW seq \in Seq(S), NEW e \in S, NEW t, NEW ops
    PROVE  Count(Append(seq, e), t, ops) = Count(seq, t, ops) + Hit1(e, t, ops)
<1>1. PICK c : c = <<e>> /\ c \in Seq(S) /\ Len(c) = 1 /\ c[1] = e
  BY OneSeq, Zenon
<1>2. Append(seq, e) = seq \o c
  BY <1>1
<1>3. Count(seq \o c, t, ops) = Count(seq, t, ops) + Count(c, t, ops)
  <2>1. c \in Seq(S)
    BY <1>1
  <2> QED
    BY <2>1, CountConcat
<1>4. Count(<<e>>, t, ops) = Hit1(e, t, ops)
  BY CountOne
<1> QED
  BY <1>1, <1>2, <1>3, <1>4, Zenon

LEMMA CountTail ==
    ASSUME NEW S, NEW seq \in Seq(S), seq # <<>>, NEW t, NEW ops
    PROVE  Count(Tail(seq), t, ops) = Count(seq, t, ops) - Hit1(Head(seq), t, ops)
<1>1. Head(seq) \in S /\ Tail(seq) \in Seq(S)
  BY HeadTailProperties
<1>2. PICK e \in S : e = Head(seq)
  BY <1>1
<1>3. PICK r \in Seq(S) : r = Tail(seq)
  BY <1>1
<1>4. PICK c : c = <<e>> /\ c \in Seq(S) /\ Len(c) = 1 /\ c[1] = e
  BY OneSeq, Zenon
<1>5. seq = c \o r
  <2>1. Len(c) = 1 /\ c[1] = e
    BY <1>4
  <2>2. Len(seq) \in Nat \ {0} /\ seq[1] = e
    BY <1>2, EmptySeq
  <2>3. Len(r) = Len(seq) - 1 /\ \A i \in 1 .. Len(r) : r[i] = seq[i + 1]
    BY <1>3, HeadTailProperties
  <2>4. PICK w : w = c \o r
    OBVIOUS
  <2>5. /\ w \in Seq(S) /\ Len(w) = 1 + Len(r)
        /\ \A i \in 1 .. 1 + Len(r) : w[i] = IF i <= 1 THEN c[i] ELSE r[i - 1]
    <3>1. Len(c) = 1
      BY <2>1
    <3> QED
      BY <1>4, <3>1, <2>4, ConcatProperties
  <2>6. ASSUME NEW i \in 1 .. Len(seq) PROVE seq[i] = w[i]
    <3>1. CASE i = 1
      BY <2>1, <2>2, <2>3, <2>5, <3>1
    <3>2. CASE i # 1
      <4>1. i - 1 \in 1 .. Len(r) /\ (i - 1) + 1 = i /\ ~(i <= 1) /\ i \in 1 .. 1 + Len(r)
        BY <2>2, <2>3, <3>2
      <4> QED
        BY <2>3, <2>5, <4>1
    <3> QED
      BY <3>1, <3>2
  <2>7. Len(w) = Len(seq)
    BY <2>2, <2>3, <2>5
  <2> QED
    BY <2>4, <2>5, <2>6, <2>7, SeqEqual
<1>6. Count(seq, t, ops) = Count(c, t, ops) + Count(r, t, ops)
  <2>1. c \in Seq(S)
    BY <1>4
  <2> QED
    BY <1>5, <2>1, CountConcat
<1>7. Count(<<e>>, t, ops) = Hit1(e, t, ops)
  BY CountOne
<1>8. Count(r, t, ops) \in Nat /\ Hit1(e, t, ops) \in Nat
  BY CountIs DEF Hit1
<1> QED
  BY <1>2, <1>3, <1>4, <1>6, <1>7, <1>8

LEMMA CountSingle ==
    ASSUME NEW S, NEW seq \in Seq(S), NEW t, NEW ops, NEW k \in 1 .. Len(seq),
           \A i \in 1 .. Len(seq) : Hit(seq[i], t, ops) <=> i = k
    PROVE  Count(seq, t, ops) = 1
<1>1. Hits(seq, t, ops) = {k}
  BY DEF Hits
<1>2. Cardinality({k}) = 1
  BY FS_Singleton
<1>3. Count(seq, t, ops) = Cardinality(Hits(seq, t, ops))
  BY CountIs
<1> QED
  BY <1>1, <1>2, <1>3, Zenon

LEMMA CountPair ==
    ASSUME NEW S, NEW seq \in Seq(S), NEW t, NEW ops,
           NEW k \in 1 .. Len(seq), NEW l \in 1 .. Len(seq), k # l,
           \A i \in 1 .. Len(seq) : Hit(seq[i], t, ops) <=> i = k \/ i = l
    PROVE  Count(seq, t, ops) = 2
<1>1. Hits(seq, t, ops) = {k} \cup {l}
  BY DEF Hits
<1>2. Cardinality({k}) = 1 /\ IsFiniteSet({k})
  BY FS_Singleton
<1>3. Cardinality({k} \cup {l}) = Cardinality({k}) + 1
  <2>1. l \notin {k}
    OBVIOUS
  <2> QED
    BY <1>2, <2>1, FS_AddElement
<1>4. Count(seq, t, ops) = Cardinality(Hits(seq, t, ops))
  BY CountIs
<1>5. 1 + 1 = 2
  OBVIOUS
<1> QED
  BY <1>1, <1>2, <1>3, <1>4, <1>5, Zenon

\* An order of a finite set has every element once.
LEMMA OrderProps ==
    ASSUME NEW L, IsFiniteSet(L), NEW order \in SetToSeqs(L)
    PROVE  /\ order \in Seq(L)
           /\ \A i, j \in 1 .. Len(order) : order[i] = order[j] => i = j
           /\ \A x \in L : \E i \in 1 .. Len(order) : order[i] = x
<1>1. PICK n \in Nat : n = Cardinality(L)
  BY FS_CardinalityType
<1>2. order \in [1 .. n -> L] /\ \A i, j \in 1 .. n : i # j => order[i] # order[j]
  BY <1>1 DEF SetToSeqs
<1>3. order \in Seq(L) /\ Len(order) = n
  BY <1>2
<1>4. IsFiniteSet(1 .. n) /\ Cardinality(1 .. n) = n
  <2>1. 1 \in Int /\ n \in Int
    OBVIOUS
  <2>2. Cardinality(1 .. n) = IF 1 > n THEN 0 ELSE n - 1 + 1
    BY <2>1, FS_Interval
  <2>3. IsFiniteSet(1 .. n)
    BY <2>1, FS_Interval
  <2> QED
    BY <2>2, <2>3
<1>5. order \in Injection(1 .. n, L)
  BY <1>2 DEF Injection, IsInjective
<1>6. order \in Surjection(1 .. n, L)
  BY <1>1, <1>4, <1>5, FS_Injection
<1>7. \A x \in L : \E i \in 1 .. n : order[i] = x
  BY <1>6 DEF Surjection
<1> QED
  BY <1>2, <1>3, <1>7

Requests == {"watch", "unwatch"}

\* OnWatchStreamOpen sends one watch request for every target listened to.
LEMMA CountOrder ==
    ASSUME NEW L \in SUBSET Targets, NEW order \in SetToSeqs(L), NEW r \in [Targets -> Nat],
           NEW seq, seq = [i \in 1 .. Len(order) |-> Watch(order[i], r[order[i]])],
           NEW t \in Targets
    PROVE  /\ seq \in Seq(TargetRequests)
           /\ Count(seq, t, Requests) = IF t \in L THEN 1 ELSE 0
<1>1. IsFiniteSet(L)
  BY WatchPathAssumption, FS_Subset
<1>2. order \in Seq(L)
  BY <1>1, OrderProps
<1>3. PICK n \in Nat : n = Len(order)
  BY <1>2
<1>4. \A i, j \in 1 .. n : order[i] = order[j] => i = j
  BY <1>1, <1>3, OrderProps
<1>5. \A x \in L : \E i \in 1 .. n : order[i] = x
  BY <1>1, <1>3, OrderProps
<1>6. \A i \in 1 .. n : order[i] \in L
  BY <1>2, <1>3, ElementOfSeq
<1>7. \A i \in 1 .. n : seq[i] = Watch(order[i], r[order[i]])
  BY <1>3
<1>8. \A i \in 1 .. n : /\ seq[i] \in TargetRequests
                        /\ Hit(seq[i], t, Requests) <=> order[i] = t
  <2>1. ASSUME NEW i \in 1 .. n
        PROVE  /\ seq[i] \in TargetRequests
               /\ Hit(seq[i], t, Requests) <=> order[i] = t
    <3>1. order[i] \in Targets /\ r[order[i]] \in Nat
      BY <1>6
    <3>2. PICK x \in Targets, y \in Nat : seq[i] = Watch(x, y) /\ x = order[i]
      BY <1>7, <3>1
    <3> QED
      BY <3>2 DEF Watch, TargetRequests, Hit, Requests
  <2> QED
    BY <2>1
<1>9. seq \in Seq(TargetRequests) /\ Len(seq) = n
  <2>1. seq \in [1 .. n -> TargetRequests]
    BY <1>3, <1>8
  <2> QED
    BY <2>1
<1>10. CASE t \in L
  <2>1. PICK k \in 1 .. n : order[k] = t
    BY <1>5, <1>10
  <2>2. \A i \in 1 .. n : Hit(seq[i], t, Requests) <=> i = k
    BY <1>4, <1>8, <2>1
  <2> QED
    BY <1>9, <1>10, <2>2, CountSingle
<1>11. CASE t \notin L
  <2>1. \A i \in 1 .. n : ~Hit(seq[i], t, Requests)
    BY <1>6, <1>8, <1>11
  <2> QED
    BY <1>9, <1>11, <2>1, CountNone
<1> QED
  BY <1>9, <1>10, <1>11

\* RaiseWatchSnapshot sends two requests for every target that is watched again.
LEMMA CountWatchAgain ==
    ASSUME NEW L \in SUBSET Targets, NEW order \in SetToSeqs(L), NEW t \in Targets
    PROVE  /\ WatchAgain(order) \in Seq(TargetRequests)
           /\ Count(WatchAgain(order), t, Requests) = IF t \in L THEN 2 ELSE 0
<1>1. IsFiniteSet(L)
  BY WatchPathAssumption, FS_Subset
<1>2. order \in Seq(L)
  BY <1>1, OrderProps
<1>3. PICK n \in Nat : n = Len(order)
  BY <1>2
<1>4. \A i, j \in 1 .. n : order[i] = order[j] => i = j
  BY <1>1, <1>3, OrderProps
<1>5. \A x \in L : \E i \in 1 .. n : order[i] = x
  BY <1>1, <1>3, OrderProps
<1>6. \A i \in 1 .. n : order[i] \in L
  BY <1>2, <1>3, ElementOfSeq
<1>7. PICK seq : seq = WatchAgain(order)
  OBVIOUS
<1>8. ASSUME NEW i \in 1 .. 2 * n
      PROVE  \E k \in 1 .. n : /\ i = 2 * k - 1 \/ i = 2 * k
                               /\ seq[i] \in TargetRequests
                               /\ Hit(seq[i], t, Requests) <=> order[k] = t
  <2>1. CASE i % 2 = 1
    <3>1. (i + 1) \div 2 \in 1 .. n /\ i = 2 * ((i + 1) \div 2) - 1
      BY <2>1
    <3>2. PICK k \in 1 .. n : k = (i + 1) \div 2 /\ i = 2 * k - 1
      BY <3>1
    <3>3. seq[i] = Unwatch(order[k])
      BY <1>3, <1>7, <2>1, <3>2 DEF WatchAgain
    <3>4. order[k] \in Targets
      BY <1>6
    <3>5. seq[i] \in TargetRequests /\ (Hit(seq[i], t, Requests) <=> order[k] = t)
      BY <3>3, <3>4 DEF Unwatch, TargetRequests, Hit, Requests
    <3> QED
      BY <3>2, <3>5
  <2>2. CASE i % 2 # 1
    <3>1. i \div 2 \in 1 .. n /\ i = 2 * (i \div 2)
      BY <2>2
    <3>2. PICK k \in 1 .. n : k = i \div 2 /\ i = 2 * k
      BY <3>1
    <3>3. seq[i] = Watch(order[k], 0)
      BY <1>3, <1>7, <2>2, <3>2 DEF WatchAgain
    <3>4. order[k] \in Targets
      BY <1>6
    <3>5. seq[i] \in TargetRequests /\ (Hit(seq[i], t, Requests) <=> order[k] = t)
      BY <3>3, <3>4 DEF Watch, TargetRequests, Hit, Requests
    <3> QED
      BY <3>2, <3>5
  <2> QED
    BY <2>1, <2>2
<1>9. seq \in Seq(TargetRequests) /\ Len(seq) = 2 * n
  <2>1. seq \in [1 .. 2 * n -> TargetRequests]
    BY <1>3, <1>7, <1>8 DEF WatchAgain
  <2> QED
    BY <2>1
<1>10. CASE t \in L
  <2>1. PICK k \in 1 .. n : order[k] = t
    BY <1>5, <1>10
  <2>2. 2 * k - 1 \in 1 .. 2 * n /\ 2 * k \in 1 .. 2 * n /\ 2 * k - 1 # 2 * k
    OBVIOUS
  <2>3. ASSUME NEW i \in 1 .. 2 * n
        PROVE  Hit(seq[i], t, Requests) <=> i = 2 * k - 1 \/ i = 2 * k
    <3>1. PICK l \in 1 .. n : /\ i = 2 * l - 1 \/ i = 2 * l
                              /\ Hit(seq[i], t, Requests) <=> order[l] = t
      BY <1>8
    <3>2. order[l] = t <=> l = k
      BY <1>4, <2>1
    <3>3. l = k <=> (i = 2 * k - 1 \/ i = 2 * k)
      BY <3>1
    <3> QED
      BY <3>1, <3>2, <3>3
  <2>4. PICK a \in 1 .. Len(seq), b \in 1 .. Len(seq) :
            a # b /\ \A i \in 1 .. Len(seq) : Hit(seq[i], t, Requests) <=> i = a \/ i = b
    <3>1. PICK m \in Nat : m = Len(seq) /\ m = 2 * n
      BY <1>9
    <3>2. PICK a \in 1 .. m, b \in 1 .. m : a = 2 * k - 1 /\ b = 2 * k /\ a # b
      BY <2>2, <3>1
    <3>3. \A i \in 1 .. m : Hit(seq[i], t, Requests) <=> i = a \/ i = b
      BY <2>3, <3>1, <3>2
    <3>4. a \in 1 .. Len(seq) /\ b \in 1 .. Len(seq)
      BY <3>1
    <3>5. \A i \in 1 .. Len(seq) : Hit(seq[i], t, Requests) <=> i = a \/ i = b
      BY <3>1, <3>3
    <3> QED
      BY <3>2, <3>4, <3>5, Zenon
  <2>5. Count(seq, t, Requests) = 2
    BY <1>9, <2>4, CountPair
  <2> QED
    BY <1>7, <1>9, <1>10, <2>5
<1>11. CASE t \notin L
  <2>1. \A i \in 1 .. 2 * n : ~Hit(seq[i], t, Requests)
    BY <1>6, <1>8, <1>11
  <2>2. Count(seq, t, Requests) = 0
    BY <1>9, <2>1, CountNone
  <2> QED
    BY <1>7, <1>9, <1>11, <2>2
<1> QED
  BY <1>10, <1>11

-----------------------------------------------------------------------------
(* The methods of TargetState.                                             *)

LEMMA NoTargetOK ==
    /\ StateOK(NoTarget) /\ StateOK(NewTarget) /\ NoChanges \in [Docs -> ChangeTypes]
    /\ NewTarget.known /\ ~NoTarget.known
    /\ NewTarget.outstanding = 0 /\ NoTarget.outstanding = 0
    /\ NewTarget.changes = NoChanges /\ NoTarget.changes = NoChanges
<1>1. NoChanges \in [Docs -> ChangeTypes]
  BY DEF NoChanges, ChangeTypes
<1>2. PICK c \in [Docs -> ChangeTypes] : c = NoChanges
  BY <1>1
<1>3. NewTarget = [known |-> TRUE, outstanding |-> 0, current |-> FALSE, dirty |-> TRUE,
                   changes |-> c, token |-> 0]
  BY <1>2 DEF NewTarget
<1>4. NewTarget \in TargetStates
  BY <1>3 DEF TargetStates
<1>5. /\ NewTarget.known /\ NewTarget.outstanding = 0 /\ NewTarget.changes = c
  BY <1>3
<1>6. NoTarget \in TargetStates
  BY <1>4 DEF NoTarget, TargetStates
<1>7. ~NoTarget.known /\ NoTarget.outstanding = 0 /\ NoTarget.changes = c
  BY <1>4, <1>5 DEF NoTarget, TargetStates
<1> QED
  BY <1>2, <1>4, <1>5, <1>6, <1>7 DEF StateOK

LEMMA EnsureOK ==
    ASSUME NEW s, StateOK(s)
    PROVE  /\ StateOK(EnsureTargetState(s)) /\ EnsureTargetState(s).known
           /\ EnsureTargetState(s).outstanding = s.outstanding
           /\ EnsureTargetState(s).changes = s.changes
<1>1. CASE s.known
  BY <1>1 DEF EnsureTargetState
<1>2. CASE ~s.known
  <2>1. s = NoTarget
    BY <1>2 DEF StateOK
  <2>2. EnsureTargetState(s) = NewTarget
    BY <1>2 DEF EnsureTargetState
  <2> QED
    BY <2>1, <2>2, NoTargetOK
<1> QED
  BY <1>1, <1>2

LEMMA RecordOK ==
    ASSUME NEW s, StateOK(s)
    PROVE  /\ StateOK(RecordPendingTargetRequest(s)) /\ RecordPendingTargetRequest(s).known
           /\ RecordPendingTargetRequest(s).outstanding = s.outstanding + 1
           /\ RecordPendingTargetRequest(s).changes = s.changes
<1>1. PICK u : u = EnsureTargetState(s)
  OBVIOUS
<1>2. /\ u \in TargetStates /\ u.known /\ u.outstanding = s.outstanding
      /\ u.changes = s.changes
  BY <1>1, EnsureOK DEF StateOK
<1>3. u.outstanding + 1 \in Int
  BY <1>2 DEF TargetStates
<1>4. StateOK([u EXCEPT !.outstanding = u.outstanding + 1])
  BY <1>2, <1>3 DEF StateOK, TargetStates
<1>5. /\ [u EXCEPT !.outstanding = u.outstanding + 1].known
      /\ [u EXCEPT !.outstanding = u.outstanding + 1].outstanding = u.outstanding + 1
      /\ [u EXCEPT !.outstanding = u.outstanding + 1].changes = u.changes
  BY <1>2 DEF TargetStates
<1> QED
  BY <1>1, <1>2, <1>4, <1>5 DEF RecordPendingTargetRequest

LEMMA TokenOK ==
    ASSUME NEW s, StateOK(s), s.known, NEW n \in Nat
    PROVE  /\ StateOK(UpdateResumeToken(s, n)) /\ UpdateResumeToken(s, n).known
           /\ UpdateResumeToken(s, n).outstanding = s.outstanding
           /\ UpdateResumeToken(s, n).changes = s.changes
<1>1. s \in TargetStates
  BY DEF StateOK
<1>2. PICK u : u = [s EXCEPT !.token = n, !.dirty = TRUE]
  OBVIOUS
<1>3. StateOK(u) /\ u.known /\ u.outstanding = s.outstanding /\ u.changes = s.changes
  <2>1. StateOK(u)
    BY <1>1, <1>2 DEF StateOK, TargetStates
  <2>2. u.known /\ u.outstanding = s.outstanding /\ u.changes = s.changes
    BY <1>1, <1>2 DEF TargetStates
  <2> QED
    BY <2>1, <2>2
<1>4. UpdateResumeToken(s, n) = s \/ UpdateResumeToken(s, n) = u
  BY <1>2 DEF UpdateResumeToken
<1> QED
  BY <1>3, <1>4

LEMMA ClearOK ==
    ASSUME NEW s, StateOK(s), s.known
    PROVE  /\ StateOK(ClearPendingChanges(s)) /\ ClearPendingChanges(s).known
           /\ ClearPendingChanges(s).outstanding = s.outstanding
           /\ ClearPendingChanges(s).changes = NoChanges
<1>1. s \in TargetStates
  BY DEF StateOK
<1>2. PICK c \in [Docs -> ChangeTypes] : c = NoChanges
  BY NoTargetOK
<1>3. PICK u : u = [s EXCEPT !.dirty = FALSE, !.changes = c]
  OBVIOUS
<1>4. StateOK(u)
  BY <1>1, <1>3 DEF StateOK, TargetStates
<1>5. u.known /\ u.outstanding = s.outstanding /\ u.changes = c
  BY <1>1, <1>3 DEF TargetStates
<1>6. ClearPendingChanges(s) = u
  BY <1>2, <1>3 DEF ClearPendingChanges
<1> QED
  BY <1>2, <1>4, <1>5, <1>6

LEMMA CurrentOK ==
    ASSUME NEW s, StateOK(s), s.known
    PROVE  /\ StateOK(MarkCurrent(s)) /\ MarkCurrent(s).known
           /\ MarkCurrent(s).outstanding = s.outstanding
           /\ MarkCurrent(s).changes = s.changes
<1>1. s \in TargetStates
  BY DEF StateOK
<1>2. PICK u : u = [s EXCEPT !.current = TRUE, !.dirty = TRUE]
  OBVIOUS
<1>3. StateOK(u)
  BY <1>1, <1>2 DEF StateOK, TargetStates
<1>4. u.known /\ u.outstanding = s.outstanding /\ u.changes = s.changes
  BY <1>1, <1>2 DEF TargetStates
<1>5. MarkCurrent(s) = u
  BY <1>2 DEF MarkCurrent
<1> QED
  BY <1>3, <1>4, <1>5

\* The answers: one response less is outstanding.
LEMMA AnswerOK ==
    ASSUME NEW s, StateOK(s), s.known
    PROVE  /\ StateOK(TargetAdded(s)) /\ StateOK(TargetRemoved(s))
           /\ TargetAdded(s).outstanding = s.outstanding - 1
           /\ TargetRemoved(s).outstanding = s.outstanding - 1
           /\ TargetAdded(s).outstanding = 0 => TargetAdded(s).changes = NoChanges
           /\ TargetRemoved(s).outstanding = 0 => TargetRemoved(s).changes = NoChanges
           /\ TargetAdded(s).changes \in {s.changes, NoChanges}
           /\ TargetRemoved(s).changes \in {s.changes, NoChanges}
<1>1. s \in TargetStates /\ s.outstanding - 1 \in Int
  BY DEF StateOK, TargetStates
<1>2. PICK u : u = [s EXCEPT !.outstanding = @ - 1]
  OBVIOUS
<1>3. StateOK(u) /\ u.known /\ u.outstanding = s.outstanding - 1 /\ u.changes = s.changes
  <2>1. StateOK([s EXCEPT !.outstanding = s.outstanding - 1])
    BY <1>1 DEF StateOK, TargetStates
  <2>2. u = [s EXCEPT !.outstanding = s.outstanding - 1]
    BY <1>1, <1>2 DEF TargetStates
  <2> QED
    BY <1>1, <2>1, <2>2 DEF TargetStates
<1>4. /\ TargetAdded(s) = IF IsPending(u) THEN u ELSE ClearPendingChanges(u)
      /\ TargetRemoved(s) = IF IsPending(u) THEN u ELSE NoTarget
  BY <1>2 DEF TargetAdded, TargetRemoved
<1>5. CASE IsPending(u)
  <2>1. u.outstanding # 0
    BY <1>5 DEF IsPending
  <2>2. TargetAdded(s) = u /\ TargetRemoved(s) = u
    BY <1>4, <1>5, Zenon
  <2> QED
    BY <1>3, <2>1, <2>2
<1>6. CASE ~IsPending(u)
  <2>1. u.outstanding = 0
    BY <1>6 DEF IsPending
  <2>2. TargetAdded(s) = ClearPendingChanges(u) /\ TargetRemoved(s) = NoTarget
    BY <1>4, <1>6, Zenon
  <2>3. /\ StateOK(ClearPendingChanges(u)) /\ ClearPendingChanges(u).outstanding = u.outstanding
        /\ ClearPendingChanges(u).changes = NoChanges
    BY <1>3, ClearOK
  <2>4. s.outstanding - 1 = 0
    BY <1>3, <2>1
  <2> QED
    BY <1>3, <2>1, <2>2, <2>3, <2>4, NoTargetOK
<1> QED
  BY <1>5, <1>6

LEMMA ChangeOK ==
    ASSUME NEW s, StateOK(s), s.known, NEW d \in Docs, NEW keys \in SUBSET Docs
    PROVE  /\ StateOK(AddDocumentToTarget(s, d, keys))
           /\ StateOK(RemoveDocumentFromTarget(s, d, keys))
           /\ AddDocumentToTarget(s, d, keys).outstanding = s.outstanding
           /\ RemoveDocumentFromTarget(s, d, keys).outstanding = s.outstanding
           /\ Having(AddDocumentToTarget(s, d, keys), "modified") \subseteq
                  Having(s, "modified") \cup keys
           /\ Having(RemoveDocumentFromTarget(s, d, keys), "modified") \subseteq
                  Having(s, "modified") \cup keys
<1>1. s \in TargetStates
  BY DEF StateOK
<1>2. s.changes \in [Docs -> ChangeTypes]
  BY <1>1 DEF TargetStates
<1>3. ASSUME NEW type \in ChangeTypes, type = "modified" => d \in keys
      PROVE  /\ StateOK(AddDocumentChange(s, d, type))
             /\ AddDocumentChange(s, d, type).outstanding = s.outstanding
             /\ Having(AddDocumentChange(s, d, type), "modified") \subseteq
                    Having(s, "modified") \cup keys
  <2>1. PICK c \in [Docs -> ChangeTypes] :
            /\ c = [s.changes EXCEPT ![d] = type]
            /\ c[d] = type /\ \A e \in Docs \ {d} : c[e] = s.changes[e]
    <3>1. PICK b \in [Docs -> ChangeTypes] : b = s.changes
      BY <1>2
    <3>2. PICK c : c = [b EXCEPT ![d] = type]
      OBVIOUS
    <3>3. c \in [Docs -> ChangeTypes] /\ c[d] = type /\ \A e \in Docs \ {d} : c[e] = b[e]
      BY <3>2
    <3> QED
      BY <3>1, <3>2, <3>3
  <2>2. PICK u : u = [s EXCEPT !.changes = c, !.dirty = TRUE]
    OBVIOUS
  <2>3. AddDocumentChange(s, d, type) = u
    BY <1>1, <2>1, <2>2 DEF AddDocumentChange, TargetStates
  <2>4. StateOK(u)
    BY <1>1, <2>2 DEF StateOK, TargetStates
  <2>5. u.outstanding = s.outstanding /\ u.changes = c
    BY <1>1, <2>2 DEF TargetStates
  <2>6. Having(u, "modified") \subseteq Having(s, "modified") \cup keys
    <3>1. ASSUME NEW e \in Docs, c[e] = "modified"
          PROVE  e \in Having(s, "modified") \cup keys
      <4>1. CASE e = d
        BY <1>3, <2>1, <3>1, <4>1
      <4>2. CASE e # d
        BY <2>1, <3>1, <4>2 DEF Having
      <4> QED
        BY <4>1, <4>2
    <3> QED
      BY <2>5, <3>1 DEF Having
  <2> QED
    BY <2>3, <2>4, <2>5, <2>6
<1>4. {"added", "modified", "removed", "none"} \subseteq ChangeTypes
  BY DEF ChangeTypes
<1>5. /\ d \in keys => AddDocumentToTarget(s, d, keys) = AddDocumentChange(s, d, "modified")
      /\ d \notin keys => AddDocumentToTarget(s, d, keys) = AddDocumentChange(s, d, "added")
      /\ d \in keys => RemoveDocumentFromTarget(s, d, keys) = AddDocumentChange(s, d, "removed")
      /\ d \notin keys => RemoveDocumentFromTarget(s, d, keys) = AddDocumentChange(s, d, "none")
  BY DEF AddDocumentToTarget, RemoveDocumentFromTarget
<1> QED
  BY <1>3, <1>4, <1>5

LEMMA ResetOK ==
    ASSUME NEW keys \in SUBSET Docs
    PROVE  /\ StateOK(ResetTarget(keys)) /\ ResetTarget(keys).known
           /\ ResetTarget(keys).outstanding = 0 /\ Having(ResetTarget(keys), "modified") = {}
<1>1. PICK c \in [Docs -> ChangeTypes] :
          c = [d \in Docs |-> IF d \in keys THEN "removed" ELSE "none"]
  BY DEF ChangeTypes
<1>2. ResetTarget(keys) = [NewTarget EXCEPT !.changes = c]
  BY <1>1 DEF ResetTarget
<1>3. NewTarget \in TargetStates
  BY NoTargetOK DEF StateOK
<1>4. StateOK([NewTarget EXCEPT !.changes = c])
  BY <1>3, NoTargetOK DEF StateOK, TargetStates
<1>5. /\ [NewTarget EXCEPT !.changes = c].known
      /\ [NewTarget EXCEPT !.changes = c].outstanding = 0
      /\ [NewTarget EXCEPT !.changes = c].changes = c
  BY <1>3, NoTargetOK DEF TargetStates
<1>6. \A d \in Docs : c[d] # "modified"
  BY <1>1
<1> QED
  BY <1>2, <1>4, <1>5, <1>6 DEF Having

LEMMA NothingModified ==
    ASSUME NEW s, s.changes = NoChanges
    PROVE  Having(s, "modified") = {}
BY DEF Having, NoChanges

-----------------------------------------------------------------------------
(* The methods of Stream and OnlineStateTracker.                           *)

\* A stream that is not started has no timer, and its close count has passed that of
\* every token callback.
Resting(s) ==
    /\ s \in Streams /\ s.state \in {"Initial", "Error"} /\ s.timers = {}
    /\ \A r \in s.requests : r.closeCount < s.closeCount

LEMMA NotStartedRests ==
    ASSUME NEW s, NEW net, NEW targets, NEW agg, StreamOK(s, net, targets, agg), ~IsStarted(s)
    PROVE  Resting(s)
<1>1. s \in Streams /\ s.state \in {"Initial", "Error"}
  BY DEF StreamOK, Streams, IsStarted, States
<1>2. s.timers = {}
  <2>1. s.timers \subseteq {"idle", "backoff"} /\ "idle" \notin s.timers /\ "backoff" \notin s.timers
    BY <1>1 DEF StreamOK, Streams
  <2> QED
    BY <2>1
<1>3. ASSUME NEW r \in s.requests PROVE r.closeCount < s.closeCount
  <2>1. r.closeCount \in Nat /\ s.closeCount \in Nat
    BY <1>1 DEF Streams
  <2> QED
    BY <1>1, <2>1 DEF StreamOK
<1> QED
  BY <1>1, <1>2, <1>3 DEF Resting

LEMMA RestingOK ==
    ASSUME NEW s, Resting(s), NEW net, NEW targets, NEW agg
    PROVE  StreamOK(s, net, targets, agg) /\ ~IsStarted(s) /\ ~IsOpen(s)
<1>1. \A r \in s.requests : r.closeCount \in Nat /\ s.closeCount \in Nat
  BY DEF Resting, Streams
<1> QED
  BY <1>1 DEF Resting, StreamOK, IsStarted, IsOpen

LEMMA NewStreamRests == Resting(NewStream)
<1>1. NewStream \in Streams
  BY DEF NewStream, Streams, States
<1> QED
  BY <1>1 DEF NewStream, Resting

LEMMA ClosedRests ==
    ASSUME NEW s, NEW net, NEW targets, NEW agg, StreamOK(s, net, targets, agg), IsStarted(s),
           NEW status
    PROVE  Resting(Close(s, status))
<1>1. s \in Streams
  BY DEF StreamOK
<1>2. PICK u : u = Close(s, status)
  OBVIOUS
<1>3. HardAssert(IsStarted(s), "close of a stopped stream") = {}
  BY DEF HardAssert
<1>4. /\ u.state \in {"Initial", "Error"} /\ u.closeCount = s.closeCount + 1
      /\ u.timers = {} /\ u.requests = s.requests /\ u.failed = {}
  BY <1>1, <1>2, <1>3 DEF Close, Streams
<1>5. u \in Streams
  <2>1. PICK n \in Nat, st \in States : n = s.closeCount + 1 /\ st = u.state
    BY <1>1, <1>4 DEF Streams, States
  <2>2. u = [s EXCEPT !.state = st, !.closeCount = n, !.timers = {}, !.failed = {}]
    BY <1>1, <1>2, <1>3, <1>4, <2>1 DEF Close, Streams
  <2> QED
    BY <1>1, <2>2 DEF Streams
<1>6. ASSUME NEW r \in u.requests PROVE r.closeCount < u.closeCount
  <2>1. r \in s.requests
    BY <1>4
  <2>2. r.closeCount \in Nat /\ s.closeCount \in Nat
    BY <1>1, <2>1 DEF Streams
  <2>3. r.closeCount <= s.closeCount
    BY <2>1 DEF StreamOK
  <2> QED
    BY <1>4, <2>2, <2>3
<1> QED
  BY <1>2, <1>4, <1>5, <1>6 DEF Resting

LEMMA StartOK ==
    ASSUME NEW s, Resting(s), NEW targets
    PROVE  /\ StreamOK(Start(s, Request(s)), TRUE, targets, TRUE)
           /\ IsStarted(Start(s, Request(s))) /\ ~IsOpen(Start(s, Request(s)))
<1>1. s \in Streams /\ s.timers = {}
  BY DEF Resting
<1>2. PICK u : u = Start(s, Request(s))
  OBVIOUS
<1>3. CASE s.state = "Error"
  <2>1. HardAssert(s.state = "Error", "backoff without an error") = {}
    BY <1>3 DEF HardAssert
  <2>2. /\ u \in Streams /\ u.state = "Backoff" /\ u.timers = {"backoff"}
        /\ u.requests = s.requests /\ u.closeCount = s.closeCount
    BY <1>1, <1>2, <1>3, <2>1 DEF Start, BackoffAndTryRestarting, Streams, States
  <2>3. \A r \in u.requests : r.closeCount <= u.closeCount /\ r.closeCount # u.closeCount
    <3>1. ASSUME NEW r \in s.requests
          PROVE  r.closeCount <= s.closeCount /\ r.closeCount # s.closeCount
      <4>1. r.closeCount \in Nat /\ s.closeCount \in Nat
        BY <1>1 DEF Streams
      <4> QED
        BY <4>1 DEF Resting
    <3> QED
      BY <2>2, <3>1
  <2> QED
    BY <1>2, <2>2, <2>3 DEF StreamOK, IsStarted, IsOpen
<1>4. CASE s.state # "Error"
  <2>1. s.state = "Initial"
    BY <1>4 DEF Resting
  <2>2. HardAssert(s.state = "Initial", "already started") = {}
    BY <2>1 DEF HardAssert
  <2>3. PICK q : q = [closeCount |-> s.closeCount]
    OBVIOUS
  <2>4. q \in [closeCount : Nat] /\ q.closeCount = s.closeCount /\ q = Request(s)
    BY <1>1, <2>3 DEF Request, Streams
  <2>5. /\ u \in Streams /\ u.state = "Starting" /\ u.timers = {}
        /\ u.requests = s.requests \cup {q} /\ u.closeCount = s.closeCount
    BY <1>1, <1>2, <1>4, <2>2, <2>4 DEF Start, Streams, States
  <2>6. \A r \in u.requests : r.closeCount <= u.closeCount
    <3>1. ASSUME NEW r \in s.requests PROVE r.closeCount <= s.closeCount
      <4>1. r.closeCount \in Nat /\ s.closeCount \in Nat
        BY <1>1 DEF Streams
      <4> QED
        BY <4>1 DEF Resting
    <3>2. q.closeCount <= s.closeCount
      BY <1>1, <2>4 DEF Streams
    <3> QED
      BY <2>5, <3>1, <3>2
  <2> QED
    BY <1>2, <2>5, <2>6 DEF StreamOK, IsStarted, IsOpen
<1> QED
  BY <1>3, <1>4

\* Writing to an open stream stops its idle timer.
LEMMA WriteOK ==
    ASSUME NEW s, NEW net, NEW targets, NEW agg, StreamOK(s, net, targets, agg), IsOpen(s),
           NEW new
    PROVE  /\ StreamOK(WriteTo(s), net, new, agg) /\ IsOpen(WriteTo(s))
           /\ StreamOK(MarkIdle(WriteTo(s)), net, {}, agg) /\ IsOpen(MarkIdle(WriteTo(s)))
<1>1. s \in Streams /\ s.state = "Open"
  BY DEF StreamOK, IsOpen
<1>2. HardAssert(IsOpen(s), "write to a stream that is not open") = {}
  BY DEF HardAssert
<1>3. PICK u : u = WriteTo(s)
  OBVIOUS
<1>4. /\ u.state = "Open" /\ u.closeCount = s.closeCount
      /\ u.requests = s.requests /\ u.timers = s.timers \ {"idle"}
  BY <1>1, <1>2, <1>3 DEF WriteTo, Streams
<1>5. u \in Streams
  BY <1>1, <1>2, <1>3 DEF WriteTo, Streams
<1>6. "backoff" \notin u.timers /\ "idle" \notin u.timers
  BY <1>1, <1>4 DEF StreamOK
<1>7. \A r \in u.requests : r.closeCount <= u.closeCount /\ r.closeCount # u.closeCount
  BY <1>1, <1>4 DEF StreamOK
<1>8. IsStarted(s) => net /\ agg
  BY DEF StreamOK
<1>9. net /\ agg
  BY <1>1, <1>8 DEF IsStarted
<1>10. StreamOK(u, net, new, agg) /\ IsOpen(u)
  BY <1>4, <1>5, <1>6, <1>7, <1>9 DEF StreamOK, IsOpen
<1>11. PICK w : w = MarkIdle(u)
  OBVIOUS
<1>12. /\ w.state = "Open" /\ w.closeCount = u.closeCount /\ w.requests = u.requests
       /\ w.timers = u.timers \cup {"idle"}
  BY <1>4, <1>5, <1>10, <1>11 DEF MarkIdle, Streams
<1>13. w \in Streams
  BY <1>5, <1>10, <1>11 DEF MarkIdle, Streams
<1>14. StreamOK(w, net, {}, agg) /\ IsOpen(w)
  BY <1>6, <1>7, <1>9, <1>12, <1>13 DEF StreamOK, IsOpen
<1> QED
  BY <1>3, <1>10, <1>11, <1>14

LEMMA UpdateStateOK ==
    ASSUME NEW o \in Trackers, NEW new \in OnlineStates, NEW s, NEW net,
           new = "Online" => IsOpen(s), ~net => new = "Offline"
    PROVE  OnlineOK(UpdateState(o, new), s, net)
<1>1. PICK p : p = UpdateState(o, new)
  OBVIOUS
<1>2. p \in Trackers /\ p.state = new /\ p.failures = 0 /\ p.timer = FALSE
  BY <1>1 DEF UpdateState, Trackers
<1> QED
  BY <1>1, <1>2 DEF OnlineOK

LEMMA FailureOK ==
    ASSUME NEW o, NEW s, OnlineOK(o, s, TRUE), NEW u
    PROVE  OnlineOK(HandleWatchStreamFailure(o), u, TRUE)
<1>1. o \in Trackers
  BY DEF OnlineOK
<1>2. PICK p : p = HandleWatchStreamFailure(o)
  OBVIOUS
<1>3. CASE o.state = "Online"
  <2>1. o.failures = 0 /\ o.timer = FALSE
    BY <1>1, <1>3 DEF OnlineOK, Trackers
  <2>2. /\ HardAssert(o.failures = 0, "failures while online") = {}
        /\ HardAssert(~o.timer, "timer set while online") = {}
    BY <2>1 DEF HardAssert
  <2>3. p = [o EXCEPT !.state = "Unknown"]
    BY <1>1, <1>2, <1>3, <2>2 DEF HandleWatchStreamFailure, Trackers
  <2>4. p \in Trackers /\ p.state = "Unknown" /\ p.timer = FALSE
    BY <1>1, <2>1, <2>3 DEF Trackers, OnlineStates
  <2> QED
    BY <1>2, <2>4 DEF OnlineOK
<1>4. CASE o.state # "Online"
  <2>1. PICK n \in Nat : n = o.failures + 1
    BY <1>1 DEF Trackers
  <2>2. p = [o EXCEPT !.state = "Offline", !.failures = n, !.timer = FALSE]
    BY <1>1, <1>2, <1>4, <2>1 DEF HandleWatchStreamFailure, Trackers
  <2>3. p \in Trackers /\ p.state = "Offline" /\ p.timer = FALSE
    BY <1>1, <2>2 DEF Trackers, OnlineStates
  <2> QED
    BY <1>2, <2>3 DEF OnlineOK
<1> QED
  BY <1>3, <1>4

LEMMA WatchStreamStartOK ==
    ASSUME NEW o, NEW s, OnlineOK(o, s, TRUE), ~IsStarted(s), NEW u, IsStarted(u)
    PROVE  OnlineOK(HandleWatchStreamStart(o), u, TRUE)
<1>1. o \in Trackers /\ o.timer = FALSE /\ o.state # "Online"
  BY DEF OnlineOK, Trackers, IsStarted, IsOpen
<1>2. PICK p : p = HandleWatchStreamStart(o)
  OBVIOUS
<1>3. CASE o.failures # 0
  <2>1. p = o
    BY <1>2, <1>3 DEF HandleWatchStreamStart
  <2> QED
    BY <1>1, <1>2, <2>1 DEF OnlineOK
<1>4. CASE o.failures = 0
  <2>1. HardAssert(~o.timer, "online state timer already started") = {}
    BY <1>1 DEF HardAssert
  <2>2. p = [o EXCEPT !.state = "Unknown", !.timer = TRUE]
    BY <1>1, <1>2, <1>4, <2>1 DEF HandleWatchStreamStart, Trackers
  <2>3. p \in Trackers /\ p.state = "Unknown"
    BY <1>1, <2>2 DEF Trackers, OnlineStates
  <2> QED
    BY <1>2, <2>3 DEF OnlineOK
<1> QED
  BY <1>3, <1>4

\* StartWatchStreamIfNeeded never opens a stream, and gives it what it needs.
LEMMA StartIfNeeded ==
    ASSUME NEW net \in BOOLEAN, NEW targets, NEW agg \in BOOLEAN, NEW s, NEW o,
           StreamOK(s, net, targets, agg), OnlineOK(o, s, net),
           StartWatchStreamIfNeeded(net, targets, s, o, agg)
    PROVE  /\ StreamOK(stream', net, targets, hasAggregator')
           /\ OnlineOK(online', stream', net)
           /\ hasAggregator' \in BOOLEAN
           /\ IsOpen(stream') <=> IsOpen(s)
           /\ \/ targetState' = NoTargets /\ resets' = {}
              \/ UNCHANGED <<targetState, resets>> /\ agg
           /\ IsOpen(s) => UNCHANGED <<targetState, resets>>
<1>1. CASE ShouldStartWatchStream(net, targets, s)
  <2>1. net = TRUE /\ ~IsStarted(s)
    BY <1>1 DEF ShouldStartWatchStream
  <2>2. /\ stream' = Start(s, Request(s)) /\ online' = HandleWatchStreamStart(o)
        /\ hasAggregator' = TRUE /\ targetState' = NoTargets /\ resets' = {}
    BY <1>1 DEF StartWatchStreamIfNeeded
  <2>3. Resting(s)
    BY <2>1, NotStartedRests
  <2>4. StreamOK(stream', TRUE, targets, TRUE) /\ IsStarted(stream') /\ ~IsOpen(stream')
    BY <2>2, <2>3, StartOK
  <2>5. OnlineOK(online', stream', TRUE)
    BY <2>1, <2>2, <2>4, WatchStreamStartOK
  <2>6. ~IsOpen(s)
    BY <2>3, RestingOK
  <2> QED
    BY <2>1, <2>2, <2>4, <2>5, <2>6
<1>2. CASE ~ShouldStartWatchStream(net, targets, s)
  <2>1. /\ stream' = s /\ online' = o /\ hasAggregator' = agg
        /\ ~agg => targetState' = NoTargets /\ resets' = {}
        /\ agg => UNCHANGED <<targetState, resets>>
    BY <1>2 DEF StartWatchStreamIfNeeded
  <2>2. IsOpen(s) => agg
    BY DEF StreamOK, IsOpen, IsStarted
  <2> QED
    BY <2>1, <2>2
<1> QED
  BY <1>1, <1>2

-----------------------------------------------------------------------------
(* Steps keep the invariant.                                               *)

Bounds == {"versions", "listens", "faults", "elisions", "resets", "errors", "toggles",
           "restarts"}

LEMMA SpendOK ==
    ASSUME budget \in Budget, NEW what \in Bounds, Spend(what)
    PROVE  budget' \in Budget /\ (budget'.errors = budget.errors \/ what = "errors")
<1>1. CASE what = "versions"
  BY <1>1 DEF Spend, Budget
<1>2. CASE what = "listens"
  BY <1>2 DEF Spend, Budget
<1>3. CASE what = "faults"
  BY <1>3 DEF Spend, Budget
<1>4. CASE what = "elisions"
  BY <1>4 DEF Spend, Budget
<1>5. CASE what = "resets"
  BY <1>5 DEF Spend, Budget
<1>6. CASE what = "errors"
  BY <1>6 DEF Spend, Budget
<1>7. CASE what = "toggles"
  BY <1>7 DEF Spend, Budget
<1>8. CASE what = "restarts"
  BY <1>8 DEF Spend, Budget
<1> QED
  BY <1>1, <1>2, <1>3, <1>4, <1>5, <1>6, <1>7, <1>8 DEF Bounds

LEMMA BroadcastOK ==
    ASSUME view \in [Targets -> Views], NEW o, Broadcast(o)
    PROVE  view' \in [Targets -> Views] /\ \A t \in Targets : view'[t].keys = view[t].keys
<1>1. PICK b \in BOOLEAN : b = (o.state = "Offline" /\ online.state # "Offline")
  OBVIOUS
<1>2. view' = [t \in Targets |-> [view[t] EXCEPT !.current = @ /\ ~b]]
  BY <1>1 DEF Broadcast
<1>3. ASSUME NEW t \in Targets PROVE view'[t] \in Views /\ view'[t].keys = view[t].keys
  <2>1. PICK w \in Views : w = view[t]
    OBVIOUS
  <2>2. PICK c \in BOOLEAN : c = (w.current /\ ~b)
    OBVIOUS
  <2>3. view'[t] = [w EXCEPT !.current = c]
    BY <1>2, <2>1, <2>2 DEF Views
  <2> QED
    BY <2>1, <2>3 DEF Views
<1> QED
  BY <1>2, <1>3

LEMMA NoTargetsOK ==
    ASSUME targetState' = NoTargets
    PROVE  KnownOK' /\ targetState' \in [Targets -> TargetStates]
<1>1. NoTarget \in TargetStates
  BY NoTargetOK DEF StateOK
<1>2. \A t \in Targets : targetState'[t] = NoTarget
  BY DEF NoTargets
<1> QED
  BY <1>1, <1>2, NoTargetOK DEF KnownOK, NoTargets

LEMMA NoCallOK ==
    ASSUME CallType, NoCall, UNCHANGED history, seen' \in 1 .. Len(history), budget' \in Budget
    PROVE  CallType'
<1>1. Unserved \in Service
  BY DEF Unserved, Service
<1>2. toServer' \in Seq(TargetRequests) /\ toClient' \in Seq(Messages)
  BY EmptySeq DEF NoCall
<1>3. server' \in [Targets -> Service] /\ news' \in BOOLEAN
  BY <1>1 DEF NoCall
<1> QED
  BY <1>2, <1>3 DEF CallType

\* Every way in which the stream closes and perhaps starts again.
LEMMA ClosedStep ==
    ASSUME WatchInv, NoCall, NEW s, Resting(s), NEW o, NEW net \in BOOLEAN,
           OnlineOK(o, s, net), isNetworkEnabled' = net,
           StartWatchStreamIfNeeded(net, listening, s, o, FALSE),
           view' \in [Targets -> Views], FailedOK', budget' \in Budget,
           UNCHANGED <<disk, query, listening, resume, history, seen>>
    PROVE  WatchInv' /\ ~IsOpen(stream')
<1>1. StreamOK(s, net, listening, FALSE) /\ ~IsOpen(s)
  BY RestingOK
<1>2. /\ StreamOK(stream', net, listening, hasAggregator') /\ OnlineOK(online', stream', net)
      /\ hasAggregator' \in BOOLEAN /\ ~IsOpen(stream')
      /\ targetState' = NoTargets /\ resets' = {}
  BY <1>1, StartIfNeeded
<1>3. KnownOK' /\ targetState' \in [Targets -> TargetStates]
  BY <1>2, NoTargetsOK
<1>4. StoreType'
  BY DEF WatchInv, StoreType, disk
<1>5. RemoteType'
  BY <1>2, <1>3 DEF WatchInv, RemoteType
<1>6. CallType'
  BY NoCallOK DEF WatchInv, CallType
<1>7. QuietOK'
  BY <1>2 DEF QuietOK, NoCall, NoTargets
<1> QED
  BY <1>2, <1>3, <1>4, <1>5, <1>6, <1>7 DEF WatchInv

LEMMA CloseStep ==
    ASSUME WatchInv, IsStarted(stream), NEW status, status = "ok" => listening = {},
           CloseWatchStream(status), budget' \in Budget,
           UNCHANGED <<disk, query, isNetworkEnabled, listening, resume, history, seen>>
    PROVE  WatchInv' /\ ~IsOpen(stream') /\ failed' = failed
           /\ \A t \in Targets : view'[t].keys = view[t].keys
<1>1. StreamOK(stream, isNetworkEnabled, listening, hasAggregator)
  BY DEF WatchInv
<1>2. isNetworkEnabled = TRUE
  BY <1>1 DEF StreamOK, WatchInv, RemoteType
<1>3. PICK s : s = Close(stream, status)
  OBVIOUS
<1>4. Resting(s)
  BY <1>1, <1>3, ClosedRests
<1>5. PICK o : /\ o = IF ShouldStartWatchStream(isNetworkEnabled, listening, s)
                      THEN HandleWatchStreamFailure(online) ELSE UpdateState(online, "Unknown")
  OBVIOUS
<1>6. /\ failed' = failed
      /\ StartWatchStreamIfNeeded(isNetworkEnabled, listening, s, o, FALSE)
      /\ Broadcast(o) /\ NoCall
  <2>1. ~(status = "ok" /\ ShouldStartWatchStream(isNetworkEnabled, listening, s))
    BY DEF ShouldStartWatchStream
  <2> QED
    BY <1>3, <1>5, <2>1 DEF CloseWatchStream
<1>7. OnlineOK(online, stream, TRUE) /\ online \in Trackers
  BY <1>2 DEF WatchInv, OnlineOK
<1>8. OnlineOK(o, s, TRUE)
  <2>1. OnlineOK(HandleWatchStreamFailure(online), s, TRUE)
    BY <1>7, FailureOK
  <2>2. OnlineOK(UpdateState(online, "Unknown"), s, TRUE)
    BY <1>7, UpdateStateOK DEF OnlineStates
  <2> QED
    BY <1>5, <2>1, <2>2
<1>10. FailedOK'
  BY <1>6 DEF WatchInv, FailedOK
<1>11. view' \in [Targets -> Views] /\ \A t \in Targets : view'[t].keys = view[t].keys
  BY <1>6, BroadcastOK DEF WatchInv, StoreType
<1>12. WatchInv' /\ ~IsOpen(stream')
  <2>1. PICK net \in BOOLEAN : net = TRUE /\ isNetworkEnabled = net
    BY <1>2
  <2>2. OnlineOK(o, s, net) /\ isNetworkEnabled' = net
    BY <1>8, <2>1
  <2>3. StartWatchStreamIfNeeded(net, listening, s, o, FALSE)
    BY <1>6, <2>1
  <2> QED
    BY <1>4, <1>6, <1>10, <1>11, <2>2, <2>3, ClosedStep
<1> QED
  BY <1>6, <1>11, <1>12

\* The ends of the call that close the stream, and the one that ends the process.
CallEnds ==
    \E status \in {"unavailable", "ok"} : (status = "ok" => listening = {}) /\ StreamFails(status)
CallAborts == listening # {} /\ StreamFails("ok")

LEMMA EndsOrAborts ==
    (\E status \in {"unavailable", "ok"} : StreamFails(status)) => CallEnds \/ CallAborts
BY DEF CallEnds, CallAborts

LEMMA FailStep ==
    ASSUME WatchInv,
           \/ \E r \in stream.requests : TokenErrorCallback(r)
           \/ CallEnds
           \/ IdleTimeout
    PROVE  WatchInv' /\ ~IsOpen(stream') /\ failed' = failed /\ budget'.errors = budget.errors
           /\ \A t \in Targets : view'[t].keys = view[t].keys
<1>1. StreamOK(stream, isNetworkEnabled, listening, hasAggregator) /\ budget \in Budget
  BY DEF WatchInv, CallType
<1>2. "faults" \in Bounds
  BY DEF Bounds
<1>3. CASE \E r \in stream.requests : TokenErrorCallback(r)
  <2>1. PICK r \in stream.requests : TokenErrorCallback(r)
    BY <1>3
  <2>2. IsStarted(stream)
    BY <1>1, <2>1 DEF TokenErrorCallback, CallbackIsStale, StreamOK, IsStarted
  <2>3. /\ Spend("faults") /\ CloseWatchStream("unavailable")
        /\ UNCHANGED <<disk, query, isNetworkEnabled, listening, resume, history, seen>>
    BY <2>1 DEF TokenErrorCallback
  <2>4. budget' \in Budget /\ budget'.errors = budget.errors
    BY <1>1, <1>2, <2>3, SpendOK
  <2> QED
    BY <2>2, <2>3, <2>4, CloseStep
<1>4. CASE CallEnds
  <2>0. PICK status \in {"unavailable", "ok"} :
           (status = "ok" => listening = {}) /\ StreamFails(status)
    BY <1>4 DEF CallEnds
  <2>1. IsStarted(stream)
    BY <2>0 DEF StreamFails, IsOpen, IsStarted
  <2>2. /\ Spend("faults") /\ CloseWatchStream(status)
        /\ UNCHANGED <<disk, query, isNetworkEnabled, listening, resume, history, seen>>
    BY <2>0 DEF StreamFails
  <2>3. budget' \in Budget /\ budget'.errors = budget.errors
    BY <1>1, <1>2, <2>2, SpendOK
  <2> QED
    BY <2>0, <2>1, <2>2, <2>3, CloseStep
<1>5. CASE IdleTimeout
  <2>1. IsStarted(stream) /\ listening = {}
    BY <1>1, <1>5 DEF IdleTimeout, StreamOK, IsStarted
  <2>2. /\ CloseWatchStream("ok") /\ budget' = budget
        /\ UNCHANGED <<disk, query, isNetworkEnabled, listening, resume, history, seen>>
    BY <1>5 DEF IdleTimeout
  <2>3. budget' \in Budget
    BY <1>1, <2>2
  <2> QED
    BY <2>1, <2>2, <2>3, CloseStep
<1> QED
  BY <1>3, <1>4, <1>5

\* The backend ends the call with OK while targets are listened to: the assertion fails and
\* nothing else happens.
LEMMA AbortStep ==
    ASSUME WatchInv, CallAborts
    PROVE  /\ WatchInv' /\ IsOpen(stream) /\ listening # {}
           /\ failed' = failed \cup {GracefulEnd} /\ budget'.errors = budget.errors
           /\ Spend("faults")
           /\ UNCHANGED <<disk, local, isNetworkEnabled, listening, resume, hasAggregator,
                          targetState, resets, stream, online, backend>>
<1>1. /\ IsOpen(stream) /\ listening # {} /\ Spend("faults") /\ CloseWatchStream("ok")
      /\ UNCHANGED <<disk, query, isNetworkEnabled, listening, resume, history, seen>>
  BY DEF CallAborts, StreamFails
<1>2. StreamOK(stream, isNetworkEnabled, listening, hasAggregator) /\ IsStarted(stream)
  BY <1>1 DEF WatchInv, IsOpen, IsStarted
<1>3. ~IsStarted(Close(stream, "ok"))
  <2>1. Resting(Close(stream, "ok"))
    BY <1>2, ClosedRests
  <2> QED
    BY <2>1, RestingOK DEF Resting
<1>4. ShouldStartWatchStream(isNetworkEnabled, listening, Close(stream, "ok"))
  BY <1>1, <1>2, <1>3 DEF ShouldStartWatchStream, StreamOK
<1>5. /\ failed' = failed \cup {GracefulEnd}
      /\ UNCHANGED <<view, hasAggregator, targetState, resets, stream, online, toServer,
                     toClient, server, news>>
  BY <1>1, <1>4 DEF CloseWatchStream
<1>6. budget' \in Budget /\ budget'.errors = budget.errors
  BY <1>1, SpendOK DEF Bounds, WatchInv, CallType
<1>7. UNCHANGED <<disk, local, isNetworkEnabled, listening, resume, hasAggregator, targetState,
                  resets, stream, online, backend>>
  BY <1>1, <1>5 DEF local, backend
<1>8. StoreType' /\ RemoteType' /\ KnownOK'
  BY <1>7 DEF WatchInv, StoreType, RemoteType, KnownOK, disk, local
<1>9. CallType'
  BY <1>6, <1>7 DEF WatchInv, CallType, backend
<1>10. FailedOK'
  BY <1>5 DEF WatchInv, FailedOK
<1>11. QuietOK'
  BY <1>1, <1>7 DEF QuietOK
<1>12. /\ StreamOK(stream', isNetworkEnabled', listening', hasAggregator')
       /\ OnlineOK(online', stream', isNetworkEnabled')
  BY <1>7 DEF WatchInv
<1> QED
  BY <1>1, <1>5, <1>6, <1>7, <1>8, <1>9, <1>10, <1>11, <1>12 DEF WatchInv

\* A step of the stream alone.
LEMMA StreamStep ==
    ASSUME WatchInv, StreamOK(stream', isNetworkEnabled, listening, hasAggregator),
           IsOpen(stream') <=> IsOpen(stream), IsStarted(stream') <=> IsStarted(stream),
           UNCHANGED <<disk, local, isNetworkEnabled, listening, resume, hasAggregator,
                       targetState, resets, online, failed, backend, budget>>
    PROVE  WatchInv'
<1>1. StoreType'
  BY DEF WatchInv, StoreType, disk, local
<1>2. RemoteType' /\ KnownOK' /\ FailedOK'
  BY DEF WatchInv, RemoteType, KnownOK, FailedOK
<1>3. CallType'
  BY DEF WatchInv, CallType, backend
<1>4. QuietOK'
  BY DEF WatchInv, QuietOK, backend, NoTargets
<1>5. OnlineOK(online', stream', isNetworkEnabled)
  BY DEF WatchInv, OnlineOK
<1> QED
  BY <1>1, <1>2, <1>3, <1>4, <1>5 DEF WatchInv

LEMMA StaleTokenStep ==
    ASSUME WatchInv, NEW r \in stream.requests, StaleTokenCallback(r)
    PROVE  WatchInv' /\ (IsOpen(stream') <=> IsOpen(stream))
<1>1. StreamOK(stream, isNetworkEnabled, listening, hasAggregator) /\ stream \in Streams
  BY DEF WatchInv, StreamOK
<1>2. stream' = [stream EXCEPT !.requests = @ \ {r}]
  BY DEF StaleTokenCallback
<1>3. /\ stream'.state = stream.state /\ stream'.closeCount = stream.closeCount
      /\ stream'.timers = stream.timers /\ stream'.requests = stream.requests \ {r}
      /\ stream' \in Streams
  BY <1>1, <1>2 DEF Streams
<1>4. StreamOK(stream', isNetworkEnabled, listening, hasAggregator)
  BY <1>1, <1>3 DEF StreamOK, IsStarted
<1>5. (IsOpen(stream') <=> IsOpen(stream)) /\ (IsStarted(stream') <=> IsStarted(stream))
  BY <1>3 DEF IsOpen, IsStarted
<1>6. UNCHANGED <<disk, local, isNetworkEnabled, listening, resume, hasAggregator,
                  targetState, resets, online, failed, backend, budget>>
  BY DEF StaleTokenCallback
<1> QED
  BY <1>4, <1>5, <1>6, StreamStep

LEMMA BackoffStep ==
    ASSUME WatchInv, BackoffTimeout
    PROVE  WatchInv' /\ (IsOpen(stream') <=> IsOpen(stream))
<1>1. StreamOK(stream, isNetworkEnabled, listening, hasAggregator) /\ stream \in Streams
  BY DEF WatchInv, StreamOK
<1>2. stream.state = "Backoff" /\ stream.timers = {"backoff"}
  <2>1. stream.state = "Backoff" /\ "backoff" \in stream.timers /\ "idle" \notin stream.timers
    BY <1>1 DEF BackoffTimeout, StreamOK
  <2> QED
    BY <1>1, <2>1 DEF Streams
<1>3. PICK u : u = [stream EXCEPT !.state  = "Initial",
                    !.timers = @ \ {"backoff"},
                    !.failed = @ \cup HardAssert(stream.state = "Backoff", "not in backoff")]
  OBVIOUS
<1>4. HardAssert(stream.state = "Backoff", "not in backoff") = {}
  BY <1>2 DEF HardAssert
<1>5. /\ u \in Streams /\ u.state = "Initial" /\ u.timers = {}
      /\ u.requests = stream.requests /\ u.closeCount = stream.closeCount
  BY <1>1, <1>2, <1>3, <1>4 DEF Streams, States
<1>6. Resting(u)
  <2>1. ASSUME NEW r \in stream.requests PROVE r.closeCount < stream.closeCount
    <3>1. r.closeCount \in Nat /\ stream.closeCount \in Nat
      BY <1>1 DEF Streams
    <3> QED
      BY <1>1, <1>2, <3>1 DEF StreamOK
  <2> QED
    BY <1>5, <2>1 DEF Resting
<1>7. stream' = Start(u, Request(u))
  <2>1. Request(u) = Request(stream)
    BY <1>5 DEF Request
  <2> QED
    BY <1>3, <2>1 DEF BackoffTimeout, BackoffElapsed
<1>8. StreamOK(stream', TRUE, listening, TRUE) /\ IsStarted(stream') /\ ~IsOpen(stream')
  BY <1>6, <1>7, StartOK
<1>9. isNetworkEnabled = TRUE /\ hasAggregator = TRUE /\ IsStarted(stream) /\ ~IsOpen(stream)
  BY <1>1, <1>2 DEF StreamOK, IsStarted, IsOpen, WatchInv, RemoteType
<1>10. UNCHANGED <<disk, local, isNetworkEnabled, listening, resume, hasAggregator,
                   targetState, resets, online, failed, backend, budget>>
  BY DEF BackoffTimeout
<1>11. StreamOK(stream', isNetworkEnabled, listening, hasAggregator)
  BY <1>8, <1>9
<1> QED
  BY <1>8, <1>9, <1>10, <1>11, StreamStep

LEMMA OnlineTimeoutStep ==
    ASSUME WatchInv, OnlineStateTimeout
    PROVE  WatchInv' /\ \A t \in Targets : view'[t].keys = view[t].keys
<1>1. online \in Trackers /\ online.state = "Unknown"
  BY DEF WatchInv, OnlineOK, OnlineStateTimeout
<1>2. HardAssert(online.state = "Unknown", "timer elapsed in another state") = {}
  BY <1>1 DEF HardAssert
<1>3. online' \in Trackers /\ online'.state = "Offline" /\ online'.timer = FALSE
  BY <1>1, <1>2 DEF OnlineStateTimeout, OnlineStateTimerElapsed, Trackers, OnlineStates
<1>4. view' \in [Targets -> Views] /\ \A t \in Targets : view'[t].keys = view[t].keys
  <2>1. Broadcast(online')
    BY DEF OnlineStateTimeout
  <2> QED
    BY <2>1, BroadcastOK DEF WatchInv, StoreType
<1>5. /\ UNCHANGED <<disk, query, isNetworkEnabled, listening, resume, hasAggregator,
                     targetState, resets, stream, failed, backend, budget>>
  BY DEF OnlineStateTimeout
<1>6. StoreType'
  BY <1>4, <1>5 DEF WatchInv, StoreType, disk
<1>7. RemoteType' /\ KnownOK' /\ FailedOK'
  BY <1>5 DEF WatchInv, RemoteType, KnownOK, FailedOK
<1>8. CallType' /\ QuietOK'
  BY <1>5 DEF WatchInv, CallType, QuietOK, backend, NoTargets
<1>9. OnlineOK(online', stream', isNetworkEnabled')
  BY <1>3 DEF OnlineOK
<1>10. StreamOK(stream, isNetworkEnabled, listening, hasAggregator)'
  BY <1>5 DEF WatchInv
<1> QED
  BY <1>4, <1>6, <1>7, <1>8, <1>9, <1>10 DEF WatchInv

LEMMA TokenStep ==
    ASSUME WatchInv, NEW r \in stream.requests, TokenCallback(r)
    PROVE  WatchInv' /\ ~IsOpen(stream) /\ failed' = failed
<1>1. StreamOK(stream, isNetworkEnabled, listening, hasAggregator) /\ stream \in Streams
  BY DEF WatchInv, StreamOK
<1>2. stream.state = "Starting" /\ r.closeCount = stream.closeCount
  BY <1>1 DEF TokenCallback, CallbackIsStale, StreamOK
<1>3. ~IsOpen(stream) /\ IsStarted(stream)
  BY <1>2 DEF IsOpen, IsStarted
<1>4. isNetworkEnabled = TRUE /\ hasAggregator = TRUE
  BY <1>1, <1>3 DEF StreamOK, WatchInv, RemoteType
<1>5. stream.timers = {}
  <2>1. "idle" \notin stream.timers /\ "backoff" \notin stream.timers
    BY <1>1, <1>2 DEF StreamOK
  <2> QED
    BY <1>1, <2>1 DEF Streams
<1>6. PICK u : u = ResumeStartWithCredentials([stream EXCEPT !.requests = @ \ {r}])
  OBVIOUS
<1>7. /\ u \in Streams /\ u.state = "Open" /\ u.timers = {}
      /\ u.closeCount = stream.closeCount /\ u.requests = stream.requests \ {r}
  <2>1. PICK v : v = [stream EXCEPT !.requests = @ \ {r}]
    OBVIOUS
  <2>2. /\ v \in Streams /\ v.state = "Starting" /\ v.timers = {}
        /\ v.closeCount = stream.closeCount /\ v.requests = stream.requests \ {r}
    BY <1>1, <1>2, <1>5, <2>1 DEF Streams
  <2>3. HardAssert(v.state = "Starting", "not starting") = {}
    BY <2>2 DEF HardAssert
  <2>4. u = [v EXCEPT !.state = "Open", !.failed = @ \cup {}]
    BY <1>6, <2>1, <2>3 DEF ResumeStartWithCredentials
  <2> QED
    BY <2>2, <2>4 DEF Streams, States
<1>8. StreamOK(u, TRUE, {}, TRUE) /\ IsOpen(u)
  <2>1. ASSUME NEW q \in u.requests PROVE q.closeCount <= u.closeCount /\ q.closeCount # u.closeCount
    <3>1. q \in stream.requests /\ q # r /\ q \in [closeCount : Nat] /\ r \in [closeCount : Nat]
      BY <1>1, <1>7 DEF Streams
    <3>2. q.closeCount # r.closeCount
      BY <3>1
    <3> QED
      BY <1>1, <1>2, <1>7, <3>1, <3>2 DEF StreamOK
  <2> QED
    BY <1>7, <2>1 DEF StreamOK, IsOpen
<1>9. StreamOK(stream', TRUE, listening, TRUE) /\ IsOpen(stream')
  <2>1. stream' = IF listening = {} THEN u ELSE WriteTo(u)
    BY <1>6 DEF TokenCallback
  <2>2. StreamOK(WriteTo(u), TRUE, listening, TRUE) /\ IsOpen(WriteTo(u))
    BY <1>8, WriteOK
  <2> QED
    BY <1>8, <2>1, <2>2
<1>10. /\ UNCHANGED <<disk, local, isNetworkEnabled, listening, resume, hasAggregator, resets,
                      online, toClient, server, news, history, budget>>
       /\ failed' = failed \cup HardAssert(hasAggregator, "no aggregator")
  BY DEF TokenCallback
<1>11. failed' = failed
  BY <1>4, <1>10 DEF HardAssert
<1>12. toServer' \in Seq(TargetRequests)
  <2>1. PICK order \in SetToSeqs(listening) :
            toServer' = [i \in 1 .. Len(order) |-> Watch(order[i], resume[order[i]])]
    BY DEF TokenCallback
  <2>2. listening \in SUBSET Targets /\ resume \in [Targets -> Nat]
    BY DEF WatchInv, RemoteType
  <2>3. CASE Targets = {}
    <3>1. listening = {}
      BY <2>2, <2>3
    <3>2. order \in Seq(listening)
      BY <3>1, <2>1, OrderProps, FS_EmptySet
    <3>3. Len(order) = 0
      BY <3>1, <3>2
    <3> QED
      BY <2>1, <3>3, EmptySeq
  <2>4. CASE Targets # {}
    BY <2>1, <2>2, <2>4, CountOrder
  <2> QED
    BY <2>3, <2>4
<1>13. /\ targetState' \in [Targets -> TargetStates] /\ KnownOK'
  <2>1. targetState' = [t \in Targets |->
            IF t \in listening THEN RecordPendingTargetRequest(targetState[t])
            ELSE targetState[t]]
    BY DEF TokenCallback
  <2>2. ASSUME NEW t \in Targets PROVE StateOK(targetState'[t])
    <3>1. StateOK(targetState[t])
      BY DEF WatchInv, KnownOK
    <3>2. StateOK(RecordPendingTargetRequest(targetState[t]))
      BY <3>1, RecordOK
    <3> QED
      BY <2>1, <3>1, <3>2
  <2> QED
    BY <2>1, <2>2 DEF KnownOK, StateOK
<1>14. seen' \in 1 .. Len(history)
  <2>1. seen' \in {v \in Len(history) - MaxLag .. Len(history) : v > 0}
    BY DEF TokenCallback, Version
  <2>2. MaxLag \in Nat /\ Len(history) \in Nat
    BY WatchPathAssumption DEF WatchInv, CallType
  <2> QED
    BY <2>1, <2>2
<1>15. StoreType'
  BY <1>10 DEF WatchInv, StoreType, disk, local
<1>16. RemoteType' /\ FailedOK'
  BY <1>10, <1>11, <1>13 DEF WatchInv, RemoteType, FailedOK
<1>17. CallType'
  BY <1>10, <1>12, <1>14 DEF WatchInv, CallType
<1>18. QuietOK'
  BY <1>9 DEF QuietOK
<1>19. OnlineOK(online', stream', isNetworkEnabled')
  <2>1. OnlineOK(online, stream, isNetworkEnabled)
    BY DEF WatchInv
  <2>2. IsStarted(stream')
    BY <1>9 DEF IsOpen, IsStarted
  <2> QED
    BY <1>9, <1>10, <2>1, <2>2 DEF OnlineOK
<1>20. StreamOK(stream', isNetworkEnabled', listening', hasAggregator')
  BY <1>4, <1>9, <1>10
<1> QED
  BY <1>3, <1>11, <1>13, <1>15, <1>16, <1>17, <1>18, <1>19, <1>20 DEF WatchInv

LEMMA EnableStep ==
    ASSUME WatchInv, EnableNetwork
    PROVE  WatchInv' /\ budget'.errors = budget.errors /\ (IsOpen(stream') <=> IsOpen(stream))
           /\ (IsOpen(stream) => UNCHANGED targetState)
<1>1. StreamOK(stream, isNetworkEnabled, listening, hasAggregator)
  BY DEF WatchInv
<1>2. StreamOK(stream, TRUE, listening, hasAggregator)
  BY <1>1 DEF StreamOK
<1>3. OnlineOK(online, stream, isNetworkEnabled) /\ online \in Trackers
  BY DEF WatchInv, OnlineOK
<1>4. OnlineOK(online, stream, TRUE)
  BY <1>3 DEF OnlineOK
<1>5. PICK o : o = IF ShouldStartWatchStream(TRUE, listening, stream) THEN online
                   ELSE UpdateState(online, "Unknown")
  OBVIOUS
<1>6. OnlineOK(o, stream, TRUE)
  <2>1. OnlineOK(UpdateState(online, "Unknown"), stream, TRUE)
    BY <1>3, UpdateStateOK DEF OnlineStates
  <2> QED
    BY <1>4, <1>5, <2>1
<1>7. StartWatchStreamIfNeeded(TRUE, listening, stream, o, hasAggregator)
  BY <1>5 DEF EnableNetwork
<1>8. hasAggregator \in BOOLEAN
  BY DEF WatchInv, RemoteType
<1>9. /\ StreamOK(stream', TRUE, listening, hasAggregator')
      /\ OnlineOK(online', stream', TRUE) /\ hasAggregator' \in BOOLEAN
      /\ IsOpen(stream') <=> IsOpen(stream)
      /\ \/ targetState' = NoTargets /\ resets' = {}
         \/ UNCHANGED <<targetState, resets>>
      /\ IsOpen(stream) => UNCHANGED <<targetState, resets>>
  BY <1>2, <1>6, <1>7, <1>8, StartIfNeeded
<1>10. /\ Spend("toggles") /\ isNetworkEnabled' = TRUE
       /\ UNCHANGED <<disk, local, listening, resume, failed, backend>>
  BY DEF EnableNetwork
<1>11. budget' \in Budget /\ budget'.errors = budget.errors
  BY <1>10, SpendOK DEF Bounds, WatchInv, CallType
<1>12. StoreType' /\ FailedOK'
  BY <1>10 DEF WatchInv, StoreType, FailedOK, disk, local
<1>13. KnownOK' /\ targetState' \in [Targets -> TargetStates] /\ resets' \in SUBSET Targets
  <2>1. CASE targetState' = NoTargets /\ resets' = {}
    BY <2>1, NoTargetsOK
  <2>2. CASE UNCHANGED <<targetState, resets>>
    BY <2>2 DEF WatchInv, KnownOK, RemoteType
  <2> QED
    BY <1>9, <2>1, <2>2
<1>14. RemoteType'
  BY <1>9, <1>10, <1>13 DEF WatchInv, RemoteType
<1>15. CallType'
  BY <1>10, <1>11 DEF WatchInv, CallType, backend
<1>16. QuietOK'
  BY <1>9, <1>10 DEF WatchInv, QuietOK, backend, NoTargets
<1> QED
  BY <1>9, <1>10, <1>11, <1>12, <1>13, <1>14, <1>15, <1>16 DEF WatchInv

LEMMA StoppedRests ==
    ASSUME WatchInv
    PROVE  Resting(Stopped)
<1>1. StreamOK(stream, isNetworkEnabled, listening, hasAggregator)
  BY DEF WatchInv
<1>2. CASE IsStarted(stream)
  BY <1>1, <1>2, ClosedRests DEF Stopped, StopIsNoOp
<1>3. CASE ~IsStarted(stream)
  BY <1>1, <1>3, NotStartedRests DEF Stopped, StopIsNoOp
<1> QED
  BY <1>2, <1>3

LEMMA StopStep ==
    ASSUME WatchInv, DisableNetwork \/ HandleCredentialChange
    PROVE  WatchInv' /\ ~IsOpen(stream') /\ failed' = failed /\ budget'.errors = budget.errors
           /\ \A t \in Targets : view'[t].keys = view[t].keys
<1>1. PICK s : s = Stopped
  OBVIOUS
<1>2. Resting(s)
  BY <1>1, StoppedRests
<1>3. online \in Trackers /\ view \in [Targets -> Views] /\ budget \in Budget
  BY DEF WatchInv, OnlineOK, StoreType, CallType
<1>4. Spend("toggles") => budget' \in Budget /\ budget'.errors = budget.errors
  BY <1>3, SpendOK DEF Bounds
<1>5. CASE DisableNetwork
  <2>1. PICK o : o = UpdateState(online, "Offline")
    OBVIOUS
  <2>2. PICK net \in BOOLEAN : net = FALSE
    OBVIOUS
  <2>3. OnlineOK(o, s, net)
    BY <1>3, <2>1, UpdateStateOK DEF OnlineStates
  <2>4. /\ StartWatchStreamIfNeeded(net, listening, s, o, FALSE) /\ isNetworkEnabled' = net
        /\ NoCall /\ Spend("toggles") /\ Broadcast(online') /\ failed' = failed
        /\ UNCHANGED <<disk, query, listening, resume, history, seen>>
    BY <1>1, <1>5, <2>1, <2>2 DEF DisableNetwork
  <2>5. view' \in [Targets -> Views] /\ \A t \in Targets : view'[t].keys = view[t].keys
    BY <1>3, <2>4, BroadcastOK
  <2>6. FailedOK'
    BY <2>4 DEF FailedOK, WatchInv
  <2>7. WatchInv' /\ ~IsOpen(stream')
    BY <1>2, <1>4, <2>3, <2>4, <2>5, <2>6, ClosedStep
  <2> QED
    BY <1>4, <2>4, <2>5, <2>7
<1>6. CASE HandleCredentialChange
  <2>1. PICK o : o = UpdateState(online, "Unknown")
    OBVIOUS
  <2>2. PICK net \in BOOLEAN : net = TRUE
    OBVIOUS
  <2>3. OnlineOK(o, s, net)
    BY <1>3, <2>1, <2>2, UpdateStateOK DEF OnlineStates
  <2>4. /\ StartWatchStreamIfNeeded(net, listening, s, o, FALSE)
        /\ NoCall /\ Spend("toggles") /\ failed' = failed
        /\ UNCHANGED <<disk, query, view, listening, resume, history, seen>>
    BY <1>1, <1>6, <2>1, <2>2 DEF HandleCredentialChange, local
  <2>5. isNetworkEnabled' = net
    BY <1>6, <2>2 DEF HandleCredentialChange, WatchInv, RemoteType
  <2>6. FailedOK' /\ view' \in [Targets -> Views]
    BY <1>3, <2>4 DEF FailedOK, WatchInv
  <2>7. WatchInv' /\ ~IsOpen(stream')
    BY <1>2, <1>4, <2>3, <2>4, <2>5, <2>6, ClosedStep
  <2> QED
    BY <1>4, <2>4, <2>7
<1> QED
  BY <1>5, <1>6

LEMMA RestartStep ==
    ASSUME WatchInv, Restart
    PROVE  WatchInv' /\ ~IsOpen(stream') /\ failed' = {} /\ budget'.errors = budget.errors
<1>1. /\ Spend("restarts") /\ listening' = {} /\ isNetworkEnabled' = TRUE
      /\ hasAggregator' = FALSE /\ targetState' = NoTargets /\ resets' = {}
      /\ stream' = NewStream /\ online' = NewTracker /\ failed' = {} /\ NoCall
      /\ UNCHANGED <<disk, history, seen>>
  BY DEF Restart
<1>2. budget' \in Budget /\ budget'.errors = budget.errors
  BY <1>1, SpendOK DEF Bounds, WatchInv, CallType
<1>3. StreamOK(stream', TRUE, {}, FALSE) /\ ~IsOpen(stream') /\ ~IsStarted(stream')
  BY <1>1, NewStreamRests, RestingOK
<1>4. OnlineOK(online', stream', TRUE)
  BY <1>1 DEF OnlineOK, NewTracker, Trackers, OnlineStates
<1>5. StoreType'
  <2>1. NoView \in Views
    BY DEF NoView, Views
  <2>2. view' \in [Targets -> Views]
    BY <2>1 DEF Restart
  <2>3. query' \in [Targets -> QueryData]
    BY DEF Restart, QueryData
  <2> QED
    BY <1>1, <2>2, <2>3 DEF WatchInv, StoreType, disk
<1>6. KnownOK' /\ targetState' \in [Targets -> TargetStates]
  BY <1>1, NoTargetsOK
<1>7. resume' \in [Targets -> Nat]
  BY DEF Restart
<1>8. RemoteType' /\ FailedOK'
  BY <1>1, <1>6, <1>7 DEF WatchInv, RemoteType, FailedOK
<1>9. CallType'
  BY <1>1, <1>2, NoCallOK DEF WatchInv, CallType
<1>10. QuietOK'
  BY <1>1 DEF QuietOK, NoCall, NoTargets
<1> QED
  BY <1>1, <1>2, <1>3, <1>4, <1>5, <1>6, <1>8, <1>9, <1>10 DEF WatchInv

\* One target's state changes.
LEMMA SetStateOK ==
    ASSUME targetState \in [Targets -> TargetStates], KnownOK, NEW t \in Targets, NEW s,
           StateOK(s), targetState' = [targetState EXCEPT ![t] = s]
    PROVE  /\ targetState' \in [Targets -> TargetStates] /\ KnownOK'
           /\ targetState'[t] = s /\ \A u \in Targets \ {t} : targetState'[u] = targetState[u]
<1>1. s \in TargetStates
  BY DEF StateOK
<1>2. targetState'[t] = s /\ \A u \in Targets \ {t} : targetState'[u] = targetState[u]
  OBVIOUS
<1>3. targetState' \in [Targets -> TargetStates]
  BY <1>1
<1> QED
  BY <1>2, <1>3 DEF KnownOK

LEMMA SendOK ==
    ASSUME WatchInv, IsOpen(stream), NEW t \in Targets, NEW request \in TargetRequests,
           Send(t, request)
    PROVE  /\ targetState' \in [Targets -> TargetStates] /\ KnownOK'
           /\ targetState'[t] = RecordPendingTargetRequest(targetState[t])
           /\ \A u \in Targets \ {t} : targetState'[u] = targetState[u]
           /\ toServer' \in Seq(TargetRequests) /\ failed' = failed
<1>1. targetState \in [Targets -> TargetStates] /\ KnownOK /\ StateOK(targetState[t])
  BY DEF WatchInv, RemoteType, KnownOK
<1>2. PICK s : s = RecordPendingTargetRequest(targetState[t])
  OBVIOUS
<1>3. StateOK(s)
  BY <1>1, <1>2, RecordOK
<1>4. targetState' = [targetState EXCEPT ![t] = s]
  BY <1>1, <1>2 DEF Send
<1>5. hasAggregator = TRUE
  BY DEF WatchInv, StreamOK, IsOpen, IsStarted, RemoteType
<1>6. failed' = failed
  BY <1>5 DEF Send, HardAssert
<1>7. toServer' \in Seq(TargetRequests)
  <2>1. toServer \in Seq(TargetRequests) /\ toServer' = Append(toServer, request)
    BY DEF Send, WatchInv, CallType
  <2> QED
    BY <2>1
<1> QED
  BY <1>1, <1>2, <1>3, <1>4, <1>6, <1>7, SetStateOK

LEMMA ListenStep ==
    ASSUME WatchInv, NEW t \in Targets, Listen(t)
    PROVE  /\ WatchInv' /\ failed' = failed /\ budget'.errors = budget.errors
           /\ IsOpen(stream') <=> IsOpen(stream)
           /\ IsOpen(stream) => Send(t, Watch(t, saved[t].token))
<1>1. /\ Spend("listens") /\ listening' = listening \cup {t}
      /\ UNCHANGED <<disk, isNetworkEnabled, toClient, server, news, history, seen>>
  BY DEF Listen
<1>2. budget' \in Budget /\ budget'.errors = budget.errors
  BY <1>1, SpendOK DEF Bounds, WatchInv, CallType
<1>3. saved[t].token \in Nat /\ saved[t].version \in Nat /\ saved[t].keys \in SUBSET Docs
  BY DEF WatchInv, StoreType, Saved
<1>4. StoreType'
  <2>1. query' \in [Targets -> QueryData]
    BY <1>3 DEF Listen, AllocateQuery, WatchInv, StoreType, QueryData
  <2>2. [NoView EXCEPT !.keys = saved[t].keys] \in Views
    BY <1>3 DEF NoView, Views
  <2>3. view' \in [Targets -> Views]
    BY <2>2 DEF Listen, InitializeView, WatchInv, StoreType
  <2> QED
    BY <1>1, <2>1, <2>3 DEF WatchInv, StoreType, disk
<1>5. resume' \in [Targets -> Nat] /\ listening' \in SUBSET Targets
  BY <1>1, <1>3 DEF Listen, WatchInv, RemoteType
<1>6. StreamOK(stream, isNetworkEnabled, listening, hasAggregator)
      /\ OnlineOK(online, stream, isNetworkEnabled)
  BY DEF WatchInv
<1>7. /\ isNetworkEnabled \in BOOLEAN /\ hasAggregator \in BOOLEAN
      /\ targetState \in [Targets -> TargetStates] /\ resets \in SUBSET Targets
      /\ KnownOK /\ FailedOK /\ toServer \in Seq(TargetRequests)
  BY DEF WatchInv, RemoteType, CallType
<1>8. /\ StreamOK(stream', isNetworkEnabled, listening', hasAggregator')
      /\ OnlineOK(online', stream', isNetworkEnabled) /\ hasAggregator' \in BOOLEAN
      /\ targetState' \in [Targets -> TargetStates] /\ resets' \in SUBSET Targets
      /\ KnownOK' /\ failed' = failed /\ toServer' \in Seq(TargetRequests)
      /\ IsOpen(stream') <=> IsOpen(stream)
      /\ ~IsOpen(stream) => /\ toServer' = toServer
                            /\ \/ targetState' = NoTargets /\ resets' = {}
                               \/ UNCHANGED <<targetState, resets>>
      /\ IsOpen(stream) => Send(t, Watch(t, saved[t].token))
  <2>1. CASE ShouldStartWatchStream(isNetworkEnabled, listening', stream)
    <3>1. ~IsStarted(stream) /\ ~IsOpen(stream)
      BY <2>1 DEF ShouldStartWatchStream, IsStarted, IsOpen
    <3>2. Resting(stream)
      BY <1>6, <3>1, NotStartedRests
    <3>3. PICK targets : targets = listening'
      OBVIOUS
    <3>4. StreamOK(stream, isNetworkEnabled, targets, hasAggregator)
      BY <3>2, RestingOK
    <3>5. StartWatchStreamIfNeeded(isNetworkEnabled, targets, stream, online, hasAggregator)
          /\ UNCHANGED <<toServer, failed>>
      BY <2>1, <3>3 DEF Listen
    <3>6. /\ StreamOK(stream', isNetworkEnabled, targets, hasAggregator')
          /\ OnlineOK(online', stream', isNetworkEnabled) /\ hasAggregator' \in BOOLEAN
          /\ IsOpen(stream') <=> IsOpen(stream)
          /\ \/ targetState' = NoTargets /\ resets' = {}
             \/ UNCHANGED <<targetState, resets>>
      BY <1>6, <1>7, <3>4, <3>5, StartIfNeeded
    <3>7. KnownOK' /\ targetState' \in [Targets -> TargetStates] /\ resets' \in SUBSET Targets
      <4>1. CASE targetState' = NoTargets /\ resets' = {}
        BY <4>1, NoTargetsOK
      <4>2. CASE UNCHANGED <<targetState, resets>>
        BY <1>7, <4>2 DEF KnownOK
      <4> QED
        BY <3>6, <4>1, <4>2
    <3> QED
      BY <1>7, <3>1, <3>3, <3>5, <3>6, <3>7
  <2>2. CASE ~ShouldStartWatchStream(isNetworkEnabled, listening', stream) /\ IsOpen(stream)
    <3>1. /\ Send(t, Watch(t, saved[t].token)) /\ stream' = WriteTo(stream)
          /\ UNCHANGED <<online, hasAggregator, resets>>
      BY <2>2 DEF Listen
    <3>2. Watch(t, saved[t].token) \in TargetRequests
      BY <1>3 DEF Watch, TargetRequests
    <3>3. /\ targetState' \in [Targets -> TargetStates] /\ KnownOK'
          /\ toServer' \in Seq(TargetRequests) /\ failed' = failed
      BY <2>2, <3>1, <3>2, SendOK
    <3>4. PICK targets : targets = listening'
      OBVIOUS
    <3>5. StreamOK(stream', isNetworkEnabled, targets, hasAggregator) /\ IsOpen(stream')
      BY <1>6, <2>2, <3>1, WriteOK
    <3>6. IsStarted(stream')
      BY <3>5 DEF IsStarted, IsOpen
    <3>7. OnlineOK(online', stream', isNetworkEnabled)
      BY <1>6, <3>1, <3>5, <3>6 DEF OnlineOK
    <3> QED
      BY <1>7, <2>2, <3>1, <3>3, <3>4, <3>5, <3>7
  <2>3. CASE ~ShouldStartWatchStream(isNetworkEnabled, listening', stream) /\ ~IsOpen(stream)
    <3>1. UNCHANGED <<stream, online, hasAggregator, targetState, resets, toServer, failed>>
      BY <2>3 DEF Listen
    <3>2. StreamOK(stream, isNetworkEnabled, listening', hasAggregator)
      BY <1>6, <2>3 DEF StreamOK, IsOpen
    <3>3. KnownOK'
      BY <1>7, <3>1 DEF KnownOK
    <3> QED
      BY <1>6, <1>7, <2>3, <3>1, <3>2, <3>3
  <2> QED
    BY <2>1, <2>2, <2>3
<1>9. RemoteType' /\ FailedOK'
  BY <1>1, <1>5, <1>7, <1>8 DEF RemoteType, FailedOK
<1>10. CallType'
  BY <1>1, <1>2, <1>8 DEF WatchInv, CallType
<1>11. QuietOK'
  BY <1>1, <1>8 DEF WatchInv, QuietOK, NoTargets
<1>12. WatchInv'
  BY <1>1, <1>4, <1>8, <1>9, <1>10, <1>11 DEF WatchInv
<1> QED
  BY <1>2, <1>8, <1>12

LEMMA ReleaseOK ==
    ASSUME WatchInv, NEW t \in Targets, ReleaseQuery(t), RemoveAndCleanupQuery(t),
           UNCHANGED lastRemoteVersion
    PROVE  StoreType'
<1>1. query[t] \in QueryData /\ saved[t] \in Saved
  BY DEF WatchInv, StoreType
<1>2. query' \in [Targets -> QueryData]
  BY DEF WatchInv, StoreType, ReleaseQuery, QueryData
<1>3. NoView \in Views
  BY DEF NoView, Views
<1>4. view' \in [Targets -> Views]
  BY <1>3 DEF RemoveAndCleanupQuery, WatchInv, StoreType
<1>5. PICK s : s = IF query[t].version > saved[t].version
                   THEN [saved[t] EXCEPT !.token = query[t].token, !.version = query[t].version]
                   ELSE saved[t]
  OBVIOUS
<1>6. s \in Saved
  <2>1. PICK a \in Saved, q \in QueryData : a = saved[t] /\ q = query[t]
    BY <1>1
  <2>2. a.token \in Nat /\ a.keys \in SUBSET Docs /\ q.token \in Nat /\ q.version \in Nat
    BY DEF Saved, QueryData
  <2>3. [a EXCEPT !.token = q.token, !.version = q.version] \in Saved
    BY <2>2 DEF Saved
  <2> QED
    BY <1>5, <2>1, <2>3
<1>7. saved' = [saved EXCEPT ![t] = s]
  BY <1>5 DEF ReleaseQuery, WatchInv, StoreType
<1>8. saved' \in [Targets -> Saved]
  BY <1>6, <1>7 DEF WatchInv, StoreType
<1> QED
  BY <1>2, <1>4, <1>8 DEF WatchInv, StoreType

LEMMA StopListeningStep ==
    ASSUME WatchInv, NEW t \in Targets, StopListening(t)
    PROVE  /\ WatchInv' /\ failed' = failed
           /\ IsOpen(stream') <=> IsOpen(stream)
           /\ IsOpen(stream) => Send(t, Unwatch(t))
<1>1. /\ listening' = listening \ {t} /\ ReleaseQuery(t) /\ RemoveAndCleanupQuery(t)
      /\ resume' = [resume EXCEPT ![t] = 0]
      /\ UNCHANGED <<lastRemoteVersion, isNetworkEnabled, hasAggregator, resets, toClient,
                     server, news, history, seen, budget>>
      /\ online' = IF listening' = {} /\ ~IsOpen(stream) /\ isNetworkEnabled
                   THEN UpdateState(online, "Unknown") ELSE online
  BY DEF StopListening
<1>2. StoreType'
  BY <1>1, ReleaseOK
<1>3. StreamOK(stream, isNetworkEnabled, listening, hasAggregator)
      /\ OnlineOK(online, stream, isNetworkEnabled) /\ online \in Trackers
  BY DEF WatchInv, OnlineOK
<1>4. /\ targetState \in [Targets -> TargetStates] /\ toServer \in Seq(TargetRequests)
      /\ KnownOK /\ FailedOK
  BY DEF WatchInv, RemoteType, CallType
<1>5. /\ StreamOK(stream', isNetworkEnabled, listening', hasAggregator)
      /\ (IsOpen(stream') <=> IsOpen(stream)) /\ (IsStarted(stream') <=> IsStarted(stream))
      /\ targetState' \in [Targets -> TargetStates] /\ KnownOK'
      /\ failed' = failed /\ toServer' \in Seq(TargetRequests)
      /\ ~IsOpen(stream) => UNCHANGED <<toServer, targetState>>
      /\ IsOpen(stream) => Send(t, Unwatch(t))
  <2>1. CASE IsOpen(stream)
    <3>1. /\ Send(t, Unwatch(t))
          /\ stream' = IF listening' = {} THEN MarkIdle(WriteTo(stream)) ELSE WriteTo(stream)
      BY <2>1 DEF StopListening
    <3>2. Unwatch(t) \in TargetRequests
      BY DEF Unwatch, TargetRequests
    <3>3. /\ targetState' \in [Targets -> TargetStates] /\ KnownOK'
          /\ toServer' \in Seq(TargetRequests) /\ failed' = failed
      BY <2>1, <3>1, <3>2, SendOK
    <3>4. PICK targets : targets = listening'
      OBVIOUS
    <3>5. /\ StreamOK(WriteTo(stream), isNetworkEnabled, targets, hasAggregator)
          /\ IsOpen(WriteTo(stream))
          /\ StreamOK(MarkIdle(WriteTo(stream)), isNetworkEnabled, {}, hasAggregator)
          /\ IsOpen(MarkIdle(WriteTo(stream)))
      BY <1>3, <2>1, WriteOK
    <3>6. StreamOK(stream', isNetworkEnabled, targets, hasAggregator) /\ IsOpen(stream')
      BY <3>1, <3>4, <3>5
    <3>7. IsStarted(stream') /\ IsStarted(stream)
      BY <2>1, <3>6 DEF IsOpen, IsStarted
    <3> QED
      BY <2>1, <3>1, <3>3, <3>4, <3>6, <3>7
  <2>2. CASE ~IsOpen(stream)
    <3>1. UNCHANGED <<targetState, toServer, failed, stream>>
      BY <2>2 DEF StopListening
    <3>2. StreamOK(stream, isNetworkEnabled, listening', hasAggregator)
      BY <1>3, <2>2 DEF StreamOK, IsOpen
    <3>3. KnownOK'
      BY <1>4, <3>1 DEF KnownOK
    <3> QED
      BY <1>4, <2>2, <3>1, <3>2, <3>3
  <2> QED
    BY <2>1, <2>2
<1>6. OnlineOK(online', stream', isNetworkEnabled)
  <2>1. CASE online' = online
    BY <1>3, <1>5, <2>1 DEF OnlineOK
  <2>2. CASE isNetworkEnabled /\ online' = UpdateState(online, "Unknown")
    BY <1>3, <2>2, UpdateStateOK DEF OnlineStates
  <2> QED
    BY <1>1, <2>1, <2>2
<1>7. resume' \in [Targets -> Nat] /\ listening' \in SUBSET Targets
  BY <1>1 DEF WatchInv, RemoteType
<1>8. RemoteType' /\ FailedOK'
  BY <1>1, <1>4, <1>5, <1>7 DEF WatchInv, RemoteType, FailedOK
<1>9. CallType'
  BY <1>1, <1>5 DEF WatchInv, CallType
<1>10. QuietOK'
  BY <1>1, <1>5 DEF WatchInv, QuietOK, NoTargets
<1>11. WatchInv'
  BY <1>1, <1>2, <1>5, <1>6, <1>8, <1>9, <1>10 DEF WatchInv
<1> QED
  BY <1>5, <1>11

\* releaseQuery leaves the keys on disk alone.
LEMMA ReleasedKeys ==
    ASSUME saved \in [Targets -> Saved], NEW t \in Targets, ReleaseQuery(t)
    PROVE  \A u \in Targets : saved'[u].keys = saved[u].keys
<1>1. saved[t] \in Saved
  OBVIOUS
<1>2. saved' = [saved EXCEPT ![t] = IF query[t].version > saved[t].version
                                    THEN [saved[t] EXCEPT !.token   = query[t].token,
                                                          !.version = query[t].version]
                                    ELSE saved[t]]
  BY DEF ReleaseQuery
<1>3. [saved[t] EXCEPT !.token = query[t].token, !.version = query[t].version].keys = saved[t].keys
  BY <1>1 DEF Saved
<1> QED
  BY <1>2, <1>3

LEMMA ListenSends ==
    ASSUME WatchInv, NEW t \in Targets, Listen(t) \/ StopListening(t)
    PROVE  /\ IsOpen(stream') <=> IsOpen(stream)
           /\ IsOpen(stream) =>
                 \E request \in TargetRequests : request.target = t /\ Send(t, request)
<1>1. CASE Listen(t)
  <2>1. saved[t].token \in Nat
    BY DEF WatchInv, StoreType, Saved
  <2>2. Watch(t, saved[t].token) \in TargetRequests /\ Watch(t, saved[t].token).target = t
    BY <2>1 DEF Watch, TargetRequests
  <2> QED
    BY <1>1, <2>2, ListenStep
<1>2. CASE StopListening(t)
  <2>1. Unwatch(t) \in TargetRequests /\ Unwatch(t).target = t
    BY DEF Unwatch, TargetRequests
  <2> QED
    BY <1>2, <2>1, StopListeningStep
<1> QED
  BY <1>1, <1>2

\* A step of the backend, on an open call or that sends nothing.
LEMMA BackendStep ==
    ASSUME WatchInv, UNCHANGED <<disk, local, remote>>, CallType',
           IsOpen(stream) \/ UNCHANGED <<toServer, toClient>>
    PROVE  WatchInv'
<1>1. StoreType'
  BY DEF WatchInv, StoreType, disk, local
<1>2. RemoteType' /\ KnownOK' /\ FailedOK'
  BY DEF WatchInv, RemoteType, KnownOK, FailedOK, remote
<1>3. QuietOK'
  BY DEF WatchInv, QuietOK, remote, NoTargets
<1>4. StreamOK(stream', isNetworkEnabled', listening', hasAggregator')
      /\ OnlineOK(online', stream', isNetworkEnabled')
  BY DEF WatchInv, remote
<1> QED
  BY <1>1, <1>2, <1>3, <1>4 DEF WatchInv

LEMMA AnswerStep ==
    ASSUME WatchInv, NEW op, NEW t, NEW d, NEW n, Answer(op, t, d, n),
           Message(op, t, d, n) \in Messages, server' \in [Targets -> Service],
           toServer' \in Seq(TargetRequests), budget' \in Budget
    PROVE  /\ WatchInv' /\ IsOpen(stream) /\ UNCHANGED remote
           /\ toClient' = Append(toClient, Message(op, t, d, n))
<1>1. /\ IsOpen(stream) /\ toClient' = toClient \o <<Message(op, t, d, n)>> /\ news' = TRUE
      /\ UNCHANGED <<disk, local, remote, history, seen>>
  BY DEF Answer, Reply
<1>2. toClient \in Seq(Messages)
  BY DEF WatchInv, CallType
<1>3. PICK e \in Messages : e = Message(op, t, d, n)
  OBVIOUS
<1>4. toClient \o <<e>> = Append(toClient, e) /\ Append(toClient, e) \in Seq(Messages)
  BY <1>2
<1>5. CallType'
  BY <1>1, <1>3, <1>4 DEF WatchInv, CallType
<1>6. WatchInv'
  BY <1>1, <1>5, BackendStep
<1> QED
  BY <1>1, <1>3, <1>4, <1>6

\* The requests that the backend takes: all but the first are left.
LEMMA RequestTaken ==
    ASSUME WatchInv, toServer # <<>>
    PROVE  /\ toServer \in Seq(TargetRequests)
           /\ Head(toServer) \in TargetRequests /\ Tail(toServer) \in Seq(TargetRequests)
           /\ Head(toServer).target \in Targets /\ Head(toServer).token \in Nat
           /\ Head(toServer).op \in Requests
<1>1. toServer \in Seq(TargetRequests)
  BY DEF WatchInv, CallType
<1>2. PICK e : e = Head(toServer)
  OBVIOUS
<1>3. e \in TargetRequests /\ Tail(toServer) \in Seq(TargetRequests)
  BY <1>1, <1>2, HeadTailProperties
<1>4. e.target \in Targets /\ e.token \in Nat /\ e.op \in Requests
  BY <1>3 DEF TargetRequests, Requests
<1> QED
  BY <1>1, <1>2, <1>3, <1>4

LEMMA ServerTypes ==
    ASSUME WatchInv
    PROVE  /\ server \in [Targets -> Service] /\ Unserved \in Service
           /\ budget \in Budget /\ seen \in Nat \ {0}
           /\ toServer \in Seq(TargetRequests) /\ toClient \in Seq(Messages)
           /\ \A k \in 1 .. Len(history), t \in Targets : history[k][t] \in SUBSET Docs
<1>1. history \in Seq([Targets -> SUBSET Docs]) /\ seen \in 1 .. Len(history)
  BY DEF WatchInv, CallType
<1>2. \A k \in 1 .. Len(history), t \in Targets : history[k][t] \in SUBSET Docs
  BY <1>1, ElementOfSeq
<1>3. Unserved \in Service
  BY DEF Unserved, Service
<1>4. seen \in Nat \ {0}
  BY <1>1
<1> QED
  BY <1>2, <1>3, <1>4 DEF WatchInv, CallType

LEMMA ServerRequestStep ==
    ASSUME WatchInv, ServerWatch \/ ServerReject \/ ServerUnwatch
    PROVE  /\ WatchInv' /\ IsOpen(stream) /\ UNCHANGED remote
           /\ toServer # <<>> /\ toServer' = Tail(toServer)
           /\ \E op \in {"added", "removed", "error"} :
                 /\ toClient' = Append(toClient, Message(op, Head(toServer).target, NoOne, 0))
                 /\ op = "error" => Spend("errors")
                 /\ op # "error" => budget' = budget
<1>1. /\ server \in [Targets -> Service] /\ Unserved \in Service /\ budget \in Budget
      /\ seen \in Nat \ {0}
  BY ServerTypes
<1>2. toServer # <<>> /\ toServer' = Tail(toServer)
  BY DEF ServerWatch, ServerReject, ServerUnwatch
<1>3. PICK t \in Targets : t = Head(toServer).target
  BY <1>2, RequestTaken
<1>4. toServer' \in Seq(TargetRequests)
  BY <1>2, RequestTaken
<1>5. \A op \in {"added", "removed", "error"} : Message(op, t, NoOne, 0) \in Messages
  BY DEF Message, Messages, TargetMessages
<1>6. CASE ServerWatch
  <2>1. /\ Answer("added", t, NoOne, 0) /\ budget' = budget
    BY <1>3, <1>6 DEF ServerWatch
  <2>2. PICK token \in Nat : token = Head(toServer).token
    BY <1>2, RequestTaken
  <2>3. PICK had : had = IF token = 0 THEN {} ELSE history[token][t]
    OBVIOUS
  <2>4. server' = [server EXCEPT ![t] = [Unserved EXCEPT !.stage = "loading", !.sent = had,
                                                         !.filterDue = token # 0]]
    BY <1>3, <1>6, <2>2, <2>3 DEF ServerWatch
  <2>5. had \in SUBSET Docs
    <3>1. token <= seen /\ seen \in 1 .. Len(history) /\ Len(history) \in Nat
      BY <1>6, <2>2 DEF ServerWatch, WatchInv, CallType
    <3>2. token # 0 => token \in 1 .. Len(history)
      BY <3>1
    <3> QED
      BY <2>3, <3>2, ServerTypes
  <2>6. [Unserved EXCEPT !.stage = "loading", !.sent = had, !.filterDue = token # 0] \in Service
    BY <2>5 DEF Unserved, Service
  <2>7. server' \in [Targets -> Service]
    BY <1>1, <2>4, <2>6
  <2>8. WatchInv' /\ IsOpen(stream) /\ UNCHANGED remote
        /\ toClient' = Append(toClient, Message("added", t, NoOne, 0))
    BY <1>1, <1>4, <1>5, <2>1, <2>7, AnswerStep
  <2> QED
    BY <1>2, <1>3, <2>1, <2>8
<1>7. CASE ServerReject
  <2>1. /\ Answer("error", t, NoOne, 0) /\ Spend("errors") /\ server' = server
    BY <1>3, <1>7 DEF ServerReject
  <2>2. budget' \in Budget
    BY <1>1, <2>1, SpendOK DEF Bounds
  <2>3. server' \in [Targets -> Service]
    BY <1>1, <2>1
  <2>4. WatchInv' /\ IsOpen(stream) /\ UNCHANGED remote
        /\ toClient' = Append(toClient, Message("error", t, NoOne, 0))
    BY <1>4, <1>5, <2>1, <2>2, <2>3, AnswerStep
  <2> QED
    BY <1>2, <1>3, <2>1, <2>4
<1>8. CASE ServerUnwatch
  <2>1. /\ Answer("removed", t, NoOne, 0) /\ budget' = budget
        /\ server' = [server EXCEPT ![t] = Unserved]
    BY <1>3, <1>8 DEF ServerUnwatch
  <2>2. server' \in [Targets -> Service]
    BY <1>1, <2>1
  <2>3. WatchInv' /\ IsOpen(stream) /\ UNCHANGED remote
        /\ toClient' = Append(toClient, Message("removed", t, NoOne, 0))
    BY <1>1, <1>4, <1>5, <2>1, <2>2, AnswerStep
  <2> QED
    BY <1>2, <1>3, <2>1, <2>3
<1> QED
  BY <1>6, <1>7, <1>8

\* The messages that are about a target but are not answers.
Plain == {"add", "remove", "current", "reset", "filter", "snapshot"}

LEMMA ServerMessageStep ==
    ASSUME WatchInv, NEW t \in Targets,
           \/ \E d \in Docs : ServerAdd(t, d) \/ ServerRemove(t, d)
           \/ ServerCurrent(t)
           \/ ServerReset(t)
    PROVE  /\ WatchInv' /\ IsOpen(stream) /\ UNCHANGED <<remote, toServer>>
           /\ budget'.errors = budget.errors
           /\ \E m \in Messages : m.op \in Plain /\ toClient' = Append(toClient, m)
<1>1. /\ server \in [Targets -> Service] /\ Unserved \in Service /\ budget \in Budget
      /\ seen \in Nat \ {0} /\ toServer \in Seq(TargetRequests)
  BY ServerTypes
<1>2. ASSUME NEW d \in Docs, ServerAdd(t, d) \/ ServerRemove(t, d)
      PROVE  /\ WatchInv' /\ IsOpen(stream) /\ UNCHANGED <<remote, toServer>>
             /\ budget'.errors = budget.errors
             /\ \E m \in Messages : m.op \in Plain /\ toClient' = Append(toClient, m)
  <2>1. PICK op \in {"add", "remove"}, x \in SUBSET Docs :
           /\ Answer(op, t, d, 0) /\ UNCHANGED <<toServer, budget>>
           /\ server' = [server EXCEPT ![t].sent = x]
    <3>1. server[t].sent \cup {d} \in SUBSET Docs /\ server[t].sent \ {d} \in SUBSET Docs
      BY <1>1 DEF Service
    <3> QED
      BY <1>2, <3>1 DEF ServerAdd, ServerRemove
  <2>2. PICK m : m = Message(op, t, d, 0)
    OBVIOUS
  <2>3. m \in Messages /\ m.op \in Plain
    BY <2>2 DEF Message, Messages, DocumentMessages, Plain
  <2>4. server' \in [Targets -> Service]
    BY <1>1, <2>1 DEF Service
  <2>5. /\ WatchInv' /\ IsOpen(stream) /\ UNCHANGED remote /\ toClient' = Append(toClient, m)
    BY <1>1, <2>1, <2>2, <2>3, <2>4, AnswerStep
  <2> QED
    BY <2>1, <2>3, <2>5
<1>3. CASE ServerCurrent(t)
  <2>1. /\ Answer("current", t, NoOne, seen) /\ UNCHANGED <<toServer, budget>>
        /\ server' = [server EXCEPT ![t].stage = "current"]
    BY <1>3 DEF ServerCurrent
  <2>2. PICK m : m = Message("current", t, NoOne, seen)
    OBVIOUS
  <2>3. m \in Messages /\ m.op \in Plain
    BY <1>1, <2>2 DEF Message, Messages, TargetMessages, Plain
  <2>4. server' \in [Targets -> Service]
    BY <1>1, <2>1 DEF Service
  <2>5. /\ WatchInv' /\ IsOpen(stream) /\ UNCHANGED remote /\ toClient' = Append(toClient, m)
    BY <1>1, <2>1, <2>2, <2>3, <2>4, AnswerStep
  <2> QED
    BY <2>1, <2>3, <2>5
<1>4. CASE ServerReset(t)
  <2>1. /\ Answer("reset", t, NoOne, 0) /\ UNCHANGED toServer /\ Spend("resets")
        /\ server' = [server EXCEPT ![t] = [Unserved EXCEPT !.stage = "loading"]]
    BY <1>4 DEF ServerReset
  <2>2. PICK m : m = Message("reset", t, NoOne, 0)
    OBVIOUS
  <2>3. m \in Messages /\ m.op \in Plain
    BY <1>1, <2>2 DEF Message, Messages, TargetMessages, Plain
  <2>4. server' \in [Targets -> Service]
    BY <1>1, <2>1 DEF Service, Unserved
  <2>5. budget' \in Budget /\ budget'.errors = budget.errors
    BY <1>1, <2>1, SpendOK DEF Bounds
  <2>6. /\ WatchInv' /\ IsOpen(stream) /\ UNCHANGED remote /\ toClient' = Append(toClient, m)
    BY <1>1, <2>1, <2>2, <2>3, <2>4, <2>5, AnswerStep
  <2> QED
    BY <2>1, <2>3, <2>5, <2>6
<1> QED
  BY <1>2, <1>3, <1>4

\* The filters that are due and then the snapshot of what the server has read.
SnapshotOf(seq) ==
    /\ Len(seq) > 0 /\ seq[Len(seq)].op = "snapshot" /\ seq[Len(seq)].n = seen
    /\ \A i \in 1 .. Len(seq) - 1 :
          seq[i].op = "filter" /\ seq[i].n = Cardinality(history[seen][seq[i].target])

LEMMA ServerSnapshotStep ==
    ASSUME WatchInv, ServerSnapshot
    PROVE  /\ WatchInv' /\ IsOpen(stream) /\ UNCHANGED <<remote, toServer, budget>>
           /\ \E seq \in Seq(Messages) :
                 /\ toClient' = toClient \o seq
                 /\ \A i \in 1 .. Len(seq) : seq[i].op \in Plain
                 /\ SnapshotOf(seq)
<1>1. /\ server \in [Targets -> Service] /\ seen \in Nat \ {0} /\ toClient \in Seq(Messages)
      /\ \A k \in 1 .. Len(history), t \in Targets : history[k][t] \in SUBSET Docs
  BY ServerTypes
<1>2. PICK L : L = {t \in Targets : server[t].filterDue}
  OBVIOUS
<1>3. PICK due \in SetToSeqs(L) :
         Reply([i \in 1 .. Len(due) |->
                   Message("filter", due[i], NoOne, Cardinality(Results(due[i])))]
               \o <<Message("snapshot", NoOne, NoOne, seen)>>)
  BY <1>2 DEF ServerSnapshot
<1>4. L \in SUBSET Targets /\ IsFiniteSet(L)
  <2>1. L \in SUBSET Targets
    BY <1>2
  <2> QED
    BY <2>1, WatchPathAssumption, FS_Subset
<1>5. due \in Seq(L)
  BY <1>4, OrderProps
<1>6. PICK n \in Nat : n = Len(due)
  BY <1>5
<1>7. PICK a : a = [i \in 1 .. n |->
                       Message("filter", due[i], NoOne, Cardinality(Results(due[i])))]
  OBVIOUS
<1>8. ASSUME NEW i \in 1 .. n
      PROVE  /\ a[i] \in Messages /\ a[i].op \in Plain /\ a[i].op = "filter"
             /\ a[i].n = Cardinality(history[seen][a[i].target])
  <2>1. PICK t \in Targets : t = due[i]
    BY <1>4, <1>5, <1>6, ElementOfSeq
  <2>2. Results(t) \in SUBSET Docs
    BY <1>1 DEF Results, WatchInv, CallType
  <2>3. PICK c \in Nat : c = Cardinality(Results(t))
    <3>1. IsFiniteSet(Results(t))
      BY <2>2, WatchPathAssumption, FS_Subset
    <3> QED
      BY <3>1, FS_CardinalityType
  <2>4. a[i] = Message("filter", t, NoOne, c)
    BY <1>7, <2>1, <2>3
  <2>5. c = Cardinality(history[seen][t])
    BY <2>3 DEF Results
  <2> QED
    BY <2>4, <2>5 DEF Message, Messages, TargetMessages, Plain
<1>9. a \in Seq(Messages) /\ Len(a) = n
  <2>1. a \in [1 .. n -> Messages]
    BY <1>7, <1>8
  <2> QED
    BY <2>1
<1>10. PICK m : m = Message("snapshot", NoOne, NoOne, seen)
  OBVIOUS
<1>11. m \in Messages /\ m.op \in Plain /\ m.op = "snapshot" /\ m.n = seen
  BY <1>1, <1>10 DEF Message, Messages, Snapshots, Plain
<1>12. PICK seq : seq = Append(a, m)
  OBVIOUS
<1>13. seq \in Seq(Messages) /\ \A i \in 1 .. Len(seq) : seq[i].op \in Plain
  <2>1. seq \in Seq(Messages) /\ Len(seq) = n + 1
    BY <1>9, <1>11, <1>12
  <2>2. ASSUME NEW i \in 1 .. n + 1 PROVE seq[i].op \in Plain
    <3>1. CASE i = n + 1
      BY <1>9, <1>11, <1>12, <3>1
    <3>2. CASE i \in 1 .. n
      <4>1. seq[i] = a[i]
        BY <1>9, <1>12, <3>2
      <4> QED
        BY <1>8, <3>2, <4>1
    <3> QED
      BY <3>1, <3>2
  <2> QED
    BY <2>1, <2>2
<1>13a. SnapshotOf(seq)
  <2>1. Len(seq) = n + 1 /\ seq[n + 1] = m /\ \A i \in 1 .. n : seq[i] = a[i]
    BY <1>9, <1>11, <1>12
  <2>2. Len(seq) > 0 /\ Len(seq) - 1 = n
    BY <2>1
  <2> QED
    BY <1>8, <1>11, <2>1, <2>2 DEF SnapshotOf
<1>14. IsOpen(stream) /\ toClient' = toClient \o seq
  <2>1. a \o <<m>> = seq
    BY <1>9, <1>11, <1>12
  <2> QED
    BY <1>3, <1>6, <1>7, <1>10, <2>1 DEF Reply
<1>15. server' \in [Targets -> Service]
  <2>1. server' = [t \in Targets |-> [server[t] EXCEPT !.filterDue = FALSE]]
    BY DEF ServerSnapshot
  <2>2. \A t \in Targets : [server[t] EXCEPT !.filterDue = FALSE] \in Service
    BY <1>1 DEF Service
  <2> QED
    BY <2>1, <2>2
<1>16. news' = FALSE /\ UNCHANGED <<disk, local, remote, toServer, history, seen, budget>>
  BY DEF ServerSnapshot
<1>17. CallType'
  <2>1. toClient' \in Seq(Messages)
    BY <1>1, <1>13, <1>14, ConcatProperties
  <2> QED
    BY <1>15, <1>16, <2>1 DEF WatchInv, CallType
<1>18. WatchInv'
  BY <1>14, <1>16, <1>17, BackendStep
<1> QED
  BY <1>13, <1>13a, <1>14, <1>16, <1>18

LEMMA ResultsStep ==
    ASSUME WatchInv,
           \/ \E t \in Targets, d \in Docs : ServerElide(t, d) \/ BackendChange(t, d)
           \/ ServerCatchUp
    PROVE  /\ WatchInv' /\ UNCHANGED <<remote, view, toServer, toClient>>
           /\ budget'.errors = budget.errors
<1>1. /\ server \in [Targets -> Service] /\ budget \in Budget
      /\ history \in Seq([Targets -> SUBSET Docs]) /\ seen \in 1 .. Len(history)
  BY DEF WatchInv, CallType
<1>2. PICK n \in Nat : n = Len(history) /\ n > 0
  BY <1>1
<1>3. ASSUME NEW t \in Targets, NEW d \in Docs, ServerElide(t, d)
      PROVE  /\ CallType' /\ UNCHANGED <<disk, local, remote, toServer, toClient>>
             /\ budget'.errors = budget.errors
  <2>1. /\ Spend("elisions")
        /\ UNCHANGED <<disk, local, remote, toServer, toClient, news, history, seen>>
        /\ server' = [server EXCEPT ![t].sent = @ \ {d}, ![t].filterDue = TRUE]
    BY <1>3 DEF ServerElide
  <2>2. budget' \in Budget /\ budget'.errors = budget.errors
    BY <1>1, <2>1, SpendOK DEF Bounds
  <2>3. server' \in [Targets -> Service]
    BY <1>1, <2>1 DEF Service
  <2> QED
    BY <2>1, <2>2, <2>3 DEF WatchInv, CallType
<1>4. ASSUME NEW t \in Targets, NEW d \in Docs, BackendChange(t, d)
      PROVE  /\ CallType' /\ UNCHANGED <<disk, local, remote, toServer, toClient>>
             /\ budget'.errors = budget.errors
  <2>1. /\ Spend("versions") /\ news' = TRUE
        /\ UNCHANGED <<disk, local, remote, toServer, toClient, server>>
        /\ seen' = IF seen = Version THEN Version + 1 ELSE seen
    BY <1>4 DEF BackendChange
  <2>2. budget' \in Budget /\ budget'.errors = budget.errors
    BY <1>1, <2>1, SpendOK DEF Bounds
  <2>3. PICK h \in [Targets -> SUBSET Docs] : h = history[n]
    BY <1>1, <1>2, ElementOfSeq
  <2>4. PICK k \in [Targets -> SUBSET Docs] : history' = Append(history, k)
    <3>1. PICK k : k = [h EXCEPT ![t] = IF d \in @ THEN @ \ {d} ELSE @ \cup {d}]
      OBVIOUS
    <3>2. h[t] \in SUBSET Docs
      OBVIOUS
    <3>3. k \in [Targets -> SUBSET Docs]
      BY <3>1, <3>2
    <3>4. history' = Append(history, k)
      BY <1>2, <1>4, <2>3, <3>1 DEF BackendChange, Version
    <3> QED
      BY <3>3, <3>4
  <2>5. history' \in Seq([Targets -> SUBSET Docs]) /\ Len(history') = n + 1
    BY <1>1, <1>2, <2>4
  <2>6. seen' \in 1 .. Len(history')
    BY <1>1, <1>2, <2>1, <2>5 DEF Version
  <2> QED
    BY <2>1, <2>2, <2>5, <2>6 DEF WatchInv, CallType
<1>5. CASE ServerCatchUp
  <2>1. /\ seen < n /\ seen' = seen + 1 /\ news' = TRUE
        /\ UNCHANGED <<disk, local, remote, toServer, toClient, server, history, budget>>
    BY <1>2, <1>5 DEF ServerCatchUp, Version
  <2>2. seen' \in 1 .. Len(history)
    BY <1>1, <1>2, <2>1
  <2>3. CallType' /\ UNCHANGED <<disk, local, remote, toServer, toClient>>
             /\ budget'.errors = budget.errors
    BY <2>1, <2>2 DEF WatchInv, CallType
  <2> QED
    BY <2>3, BackendStep DEF local
<1> QED
  BY <1>3, <1>4, <1>5, BackendStep DEF local

LEMMA ReadOK ==
    ASSUME WatchInv, NEW ops, Read(ops)
    PROVE  /\ IsOpen(stream) /\ toClient \in Seq(Messages) /\ toClient # <<>>
           /\ Response \in Messages /\ Response.op \in ops
           /\ toClient' = Tail(toClient) /\ toClient' \in Seq(Messages)
           /\ \A s : IsOpen(s) => OnlineOK(online', s, isNetworkEnabled)
<1>1. /\ toClient # <<>> /\ Response.op \in ops /\ toClient' = Tail(toClient)
      /\ online' = UpdateState(online, "Online")
  BY DEF Read
<1>2. toClient \in Seq(Messages) /\ online \in Trackers
  BY DEF WatchInv, CallType, OnlineOK
<1>3. Response \in Messages /\ toClient' \in Seq(Messages)
  BY <1>1, <1>2, HeadTailProperties DEF Response
<1>4. IsOpen(stream)
  BY <1>1 DEF WatchInv, QuietOK
<1>5. isNetworkEnabled = TRUE
  BY <1>4 DEF WatchInv, StreamOK, IsOpen, IsStarted, RemoteType
<1>6. ASSUME NEW s, IsOpen(s) PROVE OnlineOK(online', s, isNetworkEnabled)
  <2>1. OnlineOK(UpdateState(online, "Online"), s, TRUE)
    BY <1>2, <1>6, UpdateStateOK DEF OnlineStates
  <2> QED
    BY <1>1, <1>5, <2>1
<1> QED
  BY <1>1, <1>2, <1>3, <1>4, <1>6

LEMMA ResponseFields ==
    ASSUME NEW m \in Messages
    PROVE  /\ m.op \in {"add", "remove"} => m.target \in Targets /\ m.doc \in Docs
           /\ m.op \in {"added", "removed", "error", "current", "reset", "filter"} =>
                  m.target \in Targets
           /\ m.n \in Nat /\ (m.op = "snapshot" => m.n # 0)
BY DEF Messages, DocumentMessages, TargetMessages, Snapshots

\* A response that leaves the stream as it is.
LEMMA ResponseStep ==
    ASSUME WatchInv, NEW ops, Read(ops), StoreType', listening' \subseteq listening,
           resume' \in [Targets -> Nat], resets' \in SUBSET Targets,
           targetState' \in [Targets -> TargetStates], KnownOK',
           UNCHANGED <<isNetworkEnabled, hasAggregator, stream, failed, toServer, server, news,
                       history, seen, budget>>
    PROVE  WatchInv' /\ IsOpen(stream')
<1>1. /\ IsOpen(stream) /\ toClient' \in Seq(Messages)
      /\ \A s : IsOpen(s) => OnlineOK(online', s, isNetworkEnabled)
  BY ReadOK
<1>2. IsOpen(stream') /\ OnlineOK(online', stream', isNetworkEnabled')
  BY <1>1
<1>3. StreamOK(stream', isNetworkEnabled', listening', hasAggregator')
  <2>1. StreamOK(stream, isNetworkEnabled, listening, hasAggregator)
    BY DEF WatchInv
  <2>2. StreamOK(stream, isNetworkEnabled, listening', hasAggregator)
    BY <2>1 DEF StreamOK
  <2> QED
    BY <2>2
<1>4. RemoteType' /\ FailedOK'
  BY DEF WatchInv, RemoteType, FailedOK
<1>5. CallType'
  BY <1>1 DEF WatchInv, CallType
<1>6. QuietOK'
  BY <1>2 DEF QuietOK
<1> QED
  BY <1>2, <1>3, <1>4, <1>5, <1>6 DEF WatchInv

\* A target's changes gain no "modified" document that its view does not have.
ModifiesOwn(t) ==
    Having(targetState'[t], "modified") \subseteq Having(targetState[t], "modified") \cup view[t].keys

LEMMA TargetChangeStep ==
    ASSUME WatchInv, OnTargetChange
    PROVE  /\ WatchInv' /\ UNCHANGED <<stream, failed, toServer, view, listening, budget>>
           /\ \A t \in Targets :
                 /\ targetState'[t].outstanding =
                      targetState[t].outstanding - Hit1(Response, t, {"added", "removed"})
                 /\ ModifiesOwn(t)
<1>1. /\ Read({"added", "removed", "current", "reset"})
      /\ UNCHANGED <<disk, local, isNetworkEnabled, listening, resume, hasAggregator, resets,
                     stream, failed, toServer, server, news, history, seen, budget>>
  BY DEF OnTargetChange
<1>2. PICK m \in Messages : m = Response /\ m.op \in {"added", "removed", "current", "reset"}
  BY <1>1, ReadOK
<1>3. PICK t \in Targets : t = m.target
  BY <1>2, ResponseFields
<1>4. /\ targetState \in [Targets -> TargetStates] /\ KnownOK /\ StateOK(targetState[t])
      /\ view[t].keys \in SUBSET Docs /\ resets \in SUBSET Targets
  BY DEF WatchInv, RemoteType, KnownOK, StoreType, Views
<1>5. PICK s : s = EnsureTargetState(targetState[t])
  OBVIOUS
<1>6. /\ StateOK(s) /\ s.known /\ s.outstanding = targetState[t].outstanding
      /\ s.changes = targetState[t].changes /\ s.outstanding \in Int
  <2>1. targetState[t].outstanding \in Int
    BY <1>4 DEF TargetStates
  <2> QED
    BY <1>4, <1>5, <2>1, EnsureOK
<1>7. PICK x : x = CASE m.op = "added"   -> TargetAdded(s)
                     [] m.op = "removed" -> TargetRemoved(s)
                     [] m.op = "current" /\ IsActiveTarget(t)
                                         -> UpdateResumeToken(MarkCurrent(s), m.n)
                     [] m.op = "reset" /\ IsActiveTarget(t) -> ResetTarget(view[t].keys)
                     [] OTHER            -> s
  OBVIOUS
<1>8. targetState' = [targetState EXCEPT ![t] = x]
  BY <1>2, <1>3, <1>5, <1>7 DEF OnTargetChange
<1>9. /\ StateOK(x)
      /\ x.outstanding = s.outstanding - (IF m.op \in {"added", "removed"} THEN 1 ELSE 0)
      /\ Having(x, "modified") \subseteq Having(s, "modified")
  <2>1. CASE m.op = "added"
    <3>1. x = TargetAdded(s)
      BY <1>7, <2>1
    <3>2. /\ StateOK(x) /\ x.outstanding = s.outstanding - 1
          /\ x.changes \in {s.changes, NoChanges}
      BY <1>6, <3>1, AnswerOK
    <3>3. Having(x, "modified") \subseteq Having(s, "modified")
      BY <3>2 DEF Having, NoChanges
    <3> QED
      BY <2>1, <3>2, <3>3
  <2>2. CASE m.op = "removed"
    <3>1. x = TargetRemoved(s)
      BY <1>7, <2>2
    <3>2. /\ StateOK(x) /\ x.outstanding = s.outstanding - 1
          /\ x.changes \in {s.changes, NoChanges}
      BY <1>6, <3>1, AnswerOK
    <3>3. Having(x, "modified") \subseteq Having(s, "modified")
      BY <3>2 DEF Having, NoChanges
    <3> QED
      BY <2>2, <3>2, <3>3
  <2>3. CASE m.op = "current" /\ IsActiveTarget(t)
    <3>1. x = UpdateResumeToken(MarkCurrent(s), m.n)
      BY <1>7, <2>3
    <3>2. m.n \in Nat
      BY ResponseFields
    <3>3. PICK c : c = MarkCurrent(s)
      OBVIOUS
    <3>4. StateOK(c) /\ c.known /\ c.outstanding = s.outstanding /\ c.changes = s.changes
      BY <1>6, <3>3, CurrentOK
    <3>5. StateOK(x) /\ x.outstanding = s.outstanding /\ x.changes = s.changes
      BY <3>1, <3>2, <3>3, <3>4, TokenOK
    <3> QED
      BY <1>6, <2>3, <3>5 DEF Having
  <2>4. CASE m.op = "reset" /\ IsActiveTarget(t)
    <3>1. x = ResetTarget(view[t].keys)
      BY <1>7, <2>4
    <3>2. StateOK(x) /\ x.outstanding = 0 /\ Having(x, "modified") = {}
      BY <1>4, <3>1, ResetOK
    <3>3. s.outstanding = 0
      BY <1>6, <2>4 DEF IsActiveTarget, IsPending
    <3>4. s.outstanding - (IF m.op \in {"added", "removed"} THEN 1 ELSE 0) = 0
      <4>1. m.op \notin {"added", "removed"}
        BY <2>4
      <4>2. (IF m.op \in {"added", "removed"} THEN 1 ELSE 0) = 0
        BY <4>1
      <4>3. 0 - 0 = 0
        OBVIOUS
      <4> QED
        BY <3>3, <4>2, <4>3, Zenon
    <3> QED
      BY <3>2, <3>4
  <2>5. CASE m.op \in {"current", "reset"} /\ ~IsActiveTarget(t)
    <3>1. x = s
      BY <1>7, <2>5
    <3> QED
      BY <1>6, <2>5, <3>1
  <2> QED
    BY <1>2, <2>1, <2>2, <2>3, <2>4, <2>5
<1>10. /\ targetState' \in [Targets -> TargetStates] /\ KnownOK'
       /\ targetState'[t] = x /\ \A u \in Targets \ {t} : targetState'[u] = targetState[u]
  BY <1>4, <1>8, <1>9, SetStateOK
<1>11. WatchInv'
  <2>1. StoreType'
    BY <1>1 DEF WatchInv, StoreType, disk, local
  <2>2. resume' \in [Targets -> Nat] /\ resets' \in SUBSET Targets /\ listening' \subseteq listening
    BY <1>1 DEF WatchInv, RemoteType
  <2> QED
    BY <1>1, <1>10, <2>1, <2>2, ResponseStep
<1>12. ASSUME NEW u \in Targets
       PROVE  /\ targetState'[u].outstanding =
                   targetState[u].outstanding - Hit1(Response, u, {"added", "removed"})
              /\ ModifiesOwn(u)
  <2>1. CASE u = t
    <3>1. Hit1(Response, t, {"added", "removed"}) =
             IF m.op \in {"added", "removed"} THEN 1 ELSE 0
      BY <1>2, <1>3 DEF Hit1, Hit
    <3>2. ModifiesOwn(t)
      BY <1>6, <1>9, <1>10 DEF ModifiesOwn, Having
    <3>3. targetState'[t].outstanding =
             targetState[t].outstanding - Hit1(Response, t, {"added", "removed"})
      BY <1>6, <1>9, <1>10, <3>1
    <3> QED
      BY <2>1, <3>2, <3>3
  <2>2. CASE u # t
    <3>1. Hit1(Response, u, {"added", "removed"}) = 0
      BY <1>2, <1>3, <2>2 DEF Hit1, Hit
    <3>2. targetState'[u] = targetState[u] /\ targetState[u].outstanding \in Int
      BY <1>4, <1>10, <2>2 DEF TargetStates
    <3> QED
      BY <3>1, <3>2 DEF ModifiesOwn
  <2> QED
    BY <2>1, <2>2
<1> QED
  BY <1>1, <1>11, <1>12 DEF local

LEMMA DocumentChangeStep ==
    ASSUME WatchInv, OnDocumentChange
    PROVE  /\ WatchInv' /\ UNCHANGED <<stream, failed, toServer, view, listening, budget>>
           /\ Response.op \in Plain
           /\ \A t \in Targets :
                 /\ targetState'[t].outstanding = targetState[t].outstanding
                 /\ ModifiesOwn(t)
<1>1. /\ Read({"add", "remove"})
      /\ UNCHANGED <<disk, local, isNetworkEnabled, listening, resume, hasAggregator, resets,
                     stream, failed, toServer, server, news, history, seen, budget>>
  BY DEF OnDocumentChange
<1>2. PICK m \in Messages : m = Response /\ m.op \in {"add", "remove"}
  BY <1>1, ReadOK
<1>3. PICK t \in Targets, d \in Docs : t = m.target /\ d = m.doc
  BY <1>2, ResponseFields
<1>4. /\ targetState \in [Targets -> TargetStates] /\ KnownOK /\ StateOK(targetState[t])
      /\ view[t].keys \in SUBSET Docs
  BY DEF WatchInv, RemoteType, KnownOK, StoreType, Views
<1>5. PICK s : s = EnsureTargetState(targetState[t])
  OBVIOUS
<1>6. /\ StateOK(s) /\ s.known /\ s.outstanding = targetState[t].outstanding
      /\ s.changes = targetState[t].changes
  BY <1>4, <1>5, EnsureOK
<1>7. PICK x : x = IF ~IsActiveTarget(t) THEN targetState[t]
                   ELSE IF m.op = "add" THEN AddDocumentToTarget(s, d, view[t].keys)
                   ELSE RemoveDocumentFromTarget(s, d, view[t].keys)
  OBVIOUS
<1>8. targetState' = [targetState EXCEPT ![t] = x]
  BY <1>2, <1>3, <1>4, <1>5, <1>7 DEF OnDocumentChange
<1>9. /\ StateOK(x) /\ x.outstanding = targetState[t].outstanding
      /\ Having(x, "modified") \subseteq Having(targetState[t], "modified") \cup view[t].keys
  <2>1. CASE ~IsActiveTarget(t)
    BY <1>4, <1>7, <2>1
  <2>2. CASE IsActiveTarget(t)
    <3>1. x \in {AddDocumentToTarget(s, d, view[t].keys),
                 RemoveDocumentFromTarget(s, d, view[t].keys)}
      BY <1>7, <2>2
    <3>2. /\ StateOK(x) /\ x.outstanding = s.outstanding
          /\ Having(x, "modified") \subseteq Having(s, "modified") \cup view[t].keys
      BY <1>4, <1>6, <3>1, ChangeOK
    <3>3. Having(s, "modified") = Having(targetState[t], "modified")
      BY <1>6 DEF Having
    <3> QED
      BY <1>6, <3>2, <3>3
  <2> QED
    BY <2>1, <2>2
<1>10. /\ targetState' \in [Targets -> TargetStates] /\ KnownOK'
       /\ targetState'[t] = x /\ \A u \in Targets \ {t} : targetState'[u] = targetState[u]
  BY <1>4, <1>8, <1>9, SetStateOK
<1>11. WatchInv'
  <2>1. StoreType'
    BY <1>1 DEF WatchInv, StoreType, disk, local
  <2>2. resume' \in [Targets -> Nat] /\ resets' \in SUBSET Targets /\ listening' \subseteq listening
    BY <1>1 DEF WatchInv, RemoteType
  <2> QED
    BY <1>1, <1>10, <2>1, <2>2, ResponseStep
<1>12. Response.op \in Plain
  BY <1>2 DEF Plain
<1> QED
  BY <1>1, <1>9, <1>10, <1>11, <1>12 DEF local, ModifiesOwn

LEMMA ExistenceFilterStep ==
    ASSUME WatchInv, OnExistenceFilter
    PROVE  /\ WatchInv' /\ UNCHANGED <<stream, failed, toServer, view, listening, budget>>
           /\ Response.op \in Plain
           /\ \A t \in Targets :
                 /\ targetState'[t].outstanding = targetState[t].outstanding
                 /\ ModifiesOwn(t)
<1>1. /\ Read({"filter"})
      /\ UNCHANGED <<disk, local, isNetworkEnabled, listening, resume, hasAggregator,
                     stream, failed, toServer, server, news, history, seen, budget>>
  BY DEF OnExistenceFilter
<1>2. PICK m \in Messages : m = Response /\ m.op = "filter"
  BY <1>1, ReadOK
<1>3. PICK t \in Targets : t = m.target
  BY <1>2, ResponseFields
<1>4. /\ targetState \in [Targets -> TargetStates] /\ KnownOK /\ StateOK(targetState[t])
      /\ view[t].keys \in SUBSET Docs /\ resets \in SUBSET Targets
  BY DEF WatchInv, RemoteType, KnownOK, StoreType, Views
<1>5. PICK mismatch \in BOOLEAN :
         /\ mismatch => IsActiveTarget(t)
         /\ targetState' = [targetState EXCEPT ![t] =
                IF mismatch THEN ResetTarget(view[t].keys)
                ELSE IF IsActiveTarget(t) THEN EnsureTargetState(@) ELSE @]
         /\ resets' = IF mismatch THEN resets \cup {t} ELSE resets
  <2>1. PICK mismatch \in BOOLEAN :
           mismatch = (IsActiveTarget(t) /\
              GetCurrentDocumentCountForTarget(targetState[t], view[t].keys) # m.n)
    OBVIOUS
  <2> QED
    BY <1>2, <1>3, <2>1 DEF OnExistenceFilter
<1>6. PICK x : x = IF mismatch THEN ResetTarget(view[t].keys)
                   ELSE IF IsActiveTarget(t) THEN EnsureTargetState(targetState[t])
                   ELSE targetState[t]
  OBVIOUS
<1>7. targetState' = [targetState EXCEPT ![t] = x]
  BY <1>4, <1>5, <1>6
<1>8. /\ StateOK(x) /\ x.outstanding = targetState[t].outstanding
      /\ Having(x, "modified") \subseteq Having(targetState[t], "modified") \cup view[t].keys
  <2>1. CASE mismatch
    <3>1. StateOK(x) /\ x.outstanding = 0 /\ Having(x, "modified") = {}
      BY <1>4, <1>6, <2>1, ResetOK
    <3>2. targetState[t].outstanding = 0
      BY <1>5, <2>1 DEF IsActiveTarget, IsPending
    <3> QED
      BY <3>1, <3>2
  <2>2. CASE ~mismatch /\ IsActiveTarget(t)
    <3>1. x = EnsureTargetState(targetState[t])
      BY <1>6, <2>2
    <3>2. /\ StateOK(x) /\ x.outstanding = targetState[t].outstanding
          /\ x.changes = targetState[t].changes
      BY <1>4, <3>1, EnsureOK
    <3> QED
      BY <3>2 DEF Having
  <2>3. CASE ~mismatch /\ ~IsActiveTarget(t)
    BY <1>4, <1>6, <2>3
  <2> QED
    BY <2>1, <2>2, <2>3
<1>9. /\ targetState' \in [Targets -> TargetStates] /\ KnownOK'
      /\ targetState'[t] = x /\ \A u \in Targets \ {t} : targetState'[u] = targetState[u]
  BY <1>4, <1>7, <1>8, SetStateOK
<1>10. WatchInv'
  <2>1. StoreType'
    BY <1>1 DEF WatchInv, StoreType, disk, local
  <2>2. resume' \in [Targets -> Nat] /\ resets' \in SUBSET Targets /\ listening' \subseteq listening
    BY <1>1, <1>4, <1>5 DEF WatchInv, RemoteType
  <2> QED
    BY <1>1, <1>9, <2>1, <2>2, ResponseStep
<1>11. Response.op \in Plain
  BY <1>2 DEF Plain
<1> QED
  BY <1>1, <1>8, <1>9, <1>10, <1>11 DEF local, ModifiesOwn

LEMMA TargetErrorStep ==
    ASSUME WatchInv, OnTargetError
    PROVE  WatchInv' /\ failed' = failed /\ Response.op = "error"
<1>1. /\ Read({"error"})
      /\ UNCHANGED <<lastRemoteVersion, isNetworkEnabled, hasAggregator, resets, stream,
                     failed, toServer, server, news, history, seen, budget>>
  BY DEF OnTargetError
<1>2. PICK m \in Messages : m = Response /\ m.op = "error"
  BY <1>1, ReadOK
<1>3. PICK t \in Targets : t = m.target
  BY <1>2, ResponseFields
<1>4. /\ targetState \in [Targets -> TargetStates] /\ KnownOK
      /\ resets \in SUBSET Targets /\ resume \in [Targets -> Nat]
  BY DEF WatchInv, RemoteType, KnownOK
<1>5. CASE t \in listening
  <2>1. /\ listening' = listening \ {t} /\ targetState' = [targetState EXCEPT ![t] = NoTarget]
        /\ resume' = [resume EXCEPT ![t] = 0] /\ ReleaseQuery(t) /\ RemoveAndCleanupQuery(t)
    BY <1>2, <1>3, <1>5 DEF OnTargetError, RejectListen
  <2>2. StoreType'
    BY <1>1, <2>1, ReleaseOK
  <2>3. targetState' \in [Targets -> TargetStates] /\ KnownOK'
    BY <1>4, <2>1, SetStateOK, NoTargetOK
  <2>4. resume' \in [Targets -> Nat] /\ resets' \in SUBSET Targets /\ listening' \subseteq listening
    BY <1>1, <1>4, <2>1
  <2> QED
    BY <1>1, <1>2, <2>2, <2>3, <2>4, ResponseStep
<1>6. CASE t \notin listening
  <2>1. UNCHANGED <<listening, targetState, saved, query, resume, view>>
    BY <1>2, <1>3, <1>6 DEF OnTargetError
  <2>2. StoreType'
    BY <1>1, <2>1 DEF WatchInv, StoreType
  <2>3. targetState' \in [Targets -> TargetStates] /\ KnownOK'
    BY <1>4, <2>1 DEF KnownOK
  <2>4. resume' \in [Targets -> Nat] /\ resets' \in SUBSET Targets /\ listening' \subseteq listening
    BY <1>1, <1>4, <2>1
  <2> QED
    BY <1>1, <1>2, <2>2, <2>3, <2>4, ResponseStep
<1> QED
  BY <1>5, <1>6

LEMMA TokensNotedOK ==
    ASSUME WatchInv, NEW v \in Nat, v = Response.n, NEW t \in Targets
    PROVE  /\ StateOK(TokensNoted[t]) /\ (TokensNoted[t].dirty => TokensNoted[t].known)
           /\ TokensNoted[t].outstanding = targetState[t].outstanding
           /\ TokensNoted[t].changes = targetState[t].changes
           /\ TokensNoted[t].token \in Nat /\ TokensNoted[t].current \in BOOLEAN
<1>1. StateOK(targetState[t])
  BY DEF WatchInv, KnownOK
<1>2. TokensNoted[t] = IF targetState[t].known /\ IsActiveTarget(t)
                       THEN UpdateResumeToken(targetState[t], v) ELSE targetState[t]
  BY DEF TokensNoted
<1>3. PICK s : s = TokensNoted[t]
  OBVIOUS
<1>4. /\ StateOK(s) /\ s.outstanding = targetState[t].outstanding
      /\ s.changes = targetState[t].changes
  <2>1. CASE targetState[t].known /\ IsActiveTarget(t)
    BY <1>1, <1>2, <1>3, <2>1, TokenOK
  <2>2. CASE ~(targetState[t].known /\ IsActiveTarget(t))
    BY <1>1, <1>2, <1>3, <2>2
  <2> QED
    BY <2>1, <2>2
<1>5. ~NoTarget.dirty
  BY DEF NoTarget, NewTarget
<1>6. s.dirty => s.known
  BY <1>4, <1>5 DEF StateOK
<1>7. s.token \in Nat /\ s.current \in BOOLEAN
  BY <1>4 DEF StateOK, TargetStates
<1> QED
  BY <1>3, <1>4, <1>6, <1>7

LEMMA IgnoredSnapshotStep ==
    ASSUME WatchInv, IgnoredSnapshot
    PROVE  /\ WatchInv' /\ UNCHANGED <<stream, failed, toServer, view, listening, budget>>
           /\ Response.op \in Plain
           /\ \A t \in Targets :
                 /\ targetState'[t].outstanding = targetState[t].outstanding
                 /\ ModifiesOwn(t)
<1>1. /\ Read({"snapshot"}) /\ targetState' = TokensNoted
      /\ UNCHANGED <<disk, local, isNetworkEnabled, listening, resume, hasAggregator, resets,
                     stream, failed, toServer, server, news, history, seen, budget>>
  BY DEF IgnoredSnapshot
<1>2. PICK m \in Messages : m = Response /\ m.op = "snapshot"
  BY <1>1, ReadOK
<1>3. PICK v \in Nat : v = Response.n
  BY <1>2, ResponseFields
<1>4. \A t \in Targets : /\ StateOK(targetState'[t])
                         /\ targetState'[t].outstanding = targetState[t].outstanding
                         /\ targetState'[t].changes = targetState[t].changes
  BY <1>1, <1>3, TokensNotedOK
<1>5. KnownOK' /\ targetState' \in [Targets -> TargetStates]
  <2>1. \A t \in Targets : targetState'[t] \in TargetStates
    BY <1>4 DEF StateOK
  <2>2. targetState' = [t \in Targets |-> targetState'[t]]
    BY <1>1 DEF TokensNoted
  <2> QED
    BY <1>4, <2>1, <2>2 DEF KnownOK
<1>6. WatchInv'
  <2>1. StoreType'
    BY <1>1 DEF WatchInv, StoreType, disk, local
  <2>2. resume' \in [Targets -> Nat] /\ resets' \in SUBSET Targets /\ listening' \subseteq listening
    BY <1>1 DEF WatchInv, RemoteType
  <2> QED
    BY <1>1, <1>5, <2>1, <2>2, ResponseStep
<1>7. Response.op \in Plain
  BY <1>2 DEF Plain
<1> QED
  BY <1>1, <1>4, <1>6, <1>7 DEF local, ModifiesOwn, Having

LEMMA RaiseStep ==
    ASSUME WatchInv, RaiseWatchSnapshot
    PROVE  /\ WatchInv' /\ IsOpen(stream) /\ IsOpen(stream') /\ UNCHANGED budget
           /\ Read({"snapshot"}) /\ Response.op \in Plain
           /\ \E order \in SetToSeqs(resets \cap listening) :
                 toServer' = toServer \o WatchAgain(order)
           /\ \A t \in Targets :
                 /\ targetState'[t].outstanding = targetState[t].outstanding
                       + (IF t \in resets \cap listening THEN 2 ELSE 0)
                 /\ \/ /\ t \in listening /\ Having(targetState'[t], "modified") = {}
                       /\ saved'[t].keys = KeysAfter(targetState[t], saved[t].keys)
                       /\ view'[t].keys = KeysAfter(targetState[t], view[t].keys)
                    \/ /\ targetState'[t].changes = targetState[t].changes
                       /\ saved'[t].keys = saved[t].keys /\ view'[t].keys = view[t].keys
           /\ UNCHANGED listening
           /\ (\A t \in listening : Having(targetState[t], "modified") \subseteq view[t].keys)
                 => failed' = failed
<1>1. PICK v : v = Response.n
  OBVIOUS
<1>2. PICK state : state = TokensNoted
  OBVIOUS
<1>3. PICK changed : changed = ChangedTargets(state)
  OBVIOUS
<1>4. PICK rewatch : rewatch = resets \cap listening
  OBVIOUS
<1>5. /\ Read({"snapshot"}) /\ v >= lastRemoteVersion
      /\ resume' = [t \in Targets |->
            IF t \in rewatch THEN 0
            ELSE IF t \in changed /\ state[t].token # 0 THEN state[t].token
            ELSE resume[t]]
      /\ targetState' = [t \in Targets |->
            LET s == IF t \in changed THEN ClearPendingChanges(state[t]) ELSE state[t]
            IN  IF t \in rewatch
                THEN RecordPendingTargetRequest(RecordPendingTargetRequest(s))
                ELSE s]
      /\ \E order \in SetToSeqs(rewatch) : toServer' = toServer \o WatchAgain(order)
      /\ stream' = IF rewatch = {} THEN stream ELSE WriteTo(stream)
      /\ resets' = {} /\ ApplyRemoteEvent(state, v) /\ EmitNewSnapshots(state, v)
      /\ UNCHANGED <<isNetworkEnabled, listening, hasAggregator, server, news, history, seen,
                     budget>>
  BY <1>1, <1>2, <1>3, <1>4 DEF RaiseWatchSnapshot
<1>6. PICK m \in Messages : m = Response /\ m.op = "snapshot"
  BY <1>5, ReadOK
<1>7. v \in Nat
  BY <1>1, <1>6, ResponseFields
<1>8. ASSUME NEW t \in Targets
      PROVE  /\ StateOK(state[t]) /\ (state[t].dirty => state[t].known)
             /\ state[t].outstanding = targetState[t].outstanding
             /\ state[t].changes = targetState[t].changes
             /\ state[t].token \in Nat /\ state[t].current \in BOOLEAN
             /\ targetState[t].outstanding \in Int
  <2>1. targetState[t].outstanding \in Int
    BY DEF WatchInv, RemoteType, TargetStates
  <2> QED
    BY <1>1, <1>2, <1>7, <2>1, TokensNotedOK
<1>9. /\ IsOpen(stream) /\ toClient' \in Seq(Messages)
      /\ \A s : IsOpen(s) => OnlineOK(online', s, isNetworkEnabled)
  BY <1>5, ReadOK
<1>10. rewatch \in SUBSET Targets /\ listening \in SUBSET Targets
  BY <1>4 DEF WatchInv, RemoteType
<1>11. \A t \in changed : t \in Targets /\ state[t].dirty /\ targetState[t].outstanding = 0
  BY <1>3 DEF ChangedTargets, IsActiveTarget, IsPending
<1>12. ASSUME NEW t \in Targets
       PROVE  /\ StateOK(targetState'[t])
              /\ targetState'[t].outstanding = targetState[t].outstanding
                    + (IF t \in rewatch THEN 2 ELSE 0)
              /\ targetState'[t].changes =
                    IF t \in changed THEN NoChanges ELSE targetState[t].changes
  <2>1. PICK s : s = IF t \in changed THEN ClearPendingChanges(state[t]) ELSE state[t]
    OBVIOUS
  <2>2. /\ StateOK(s) /\ s.outstanding = targetState[t].outstanding
        /\ s.changes = IF t \in changed THEN NoChanges ELSE targetState[t].changes
    <3>1. CASE t \in changed
      BY <1>8, <1>11, <2>1, <3>1, ClearOK
    <3>2. CASE t \notin changed
      BY <1>8, <2>1, <3>2
    <3> QED
      BY <3>1, <3>2
  <2>3. targetState'[t] = IF t \in rewatch
                          THEN RecordPendingTargetRequest(RecordPendingTargetRequest(s)) ELSE s
    BY <1>5, <2>1
  <2>4. CASE t \in rewatch
    <3>1. PICK u : u = RecordPendingTargetRequest(s)
      OBVIOUS
    <3>2. /\ StateOK(u) /\ u.outstanding = s.outstanding + 1 /\ u.changes = s.changes
      BY <2>2, <3>1, RecordOK
    <3>3. targetState'[t] = RecordPendingTargetRequest(u)
      BY <2>3, <2>4, <3>1
    <3>4. /\ StateOK(targetState'[t]) /\ targetState'[t].outstanding = u.outstanding + 1
          /\ targetState'[t].changes = u.changes
      BY <3>2, <3>3, RecordOK
    <3>5. targetState'[t].outstanding = targetState[t].outstanding + 2
      BY <1>8, <2>2, <3>2, <3>4
    <3> QED
      BY <2>2, <2>4, <3>2, <3>4, <3>5
  <2>5. CASE t \notin rewatch
    <3>1. targetState'[t] = s
      BY <2>3, <2>5
    <3>2. targetState[t].outstanding + 0 = targetState[t].outstanding
      BY <1>8
    <3> QED
      BY <2>2, <2>5, <3>1, <3>2
  <2> QED
    BY <2>4, <2>5
<1>13. KnownOK' /\ targetState' \in [Targets -> TargetStates]
  <2>1. \A t \in Targets : targetState'[t] \in TargetStates
    BY <1>12 DEF StateOK
  <2>2. PICK f : f = targetState'
    OBVIOUS
  <2>3. f = [t \in Targets |-> f[t]]
    BY <1>5, <2>2
  <2> QED
    BY <1>12, <2>1, <2>2, <2>3 DEF KnownOK
<1>14. StoreType'
  <2>1. query' \in [Targets -> QueryData]
    <3>1. \A t \in Targets : [token |-> state[t].token, version |-> v] \in QueryData
      BY <1>7, <1>8 DEF QueryData
    <3> QED
      BY <1>5, <3>1 DEF ApplyRemoteEvent, WatchInv, StoreType
  <2>2. ASSUME NEW t \in Targets, NEW keys \in SUBSET Docs
        PROVE  KeysAfter(state[t], keys) \in SUBSET Docs
    BY DEF KeysAfter, Having
  <2>3. saved' \in [Targets -> Saved]
    <3>1. ASSUME NEW t \in Targets
          PROVE  saved'[t] \in Saved
      <4>1. saved[t] \in Saved /\ saved[t].token \in Nat /\ saved[t].version \in Nat
            /\ saved[t].keys \in SUBSET Docs
        BY DEF WatchInv, StoreType, Saved
      <4>2. \/ saved'[t] = saved[t]
            \/ \E a \in Nat, b \in Nat :
                  saved'[t] = [token |-> a, version |-> b,
                               keys |-> KeysAfter(state[t], saved[t].keys)]
        <5>1. PICK persist \in [Targets -> BOOLEAN] :
                 saved' = [u \in Targets |->
                    IF u \notin changed THEN saved[u]
                    ELSE [token   |-> IF persist[u] THEN state[u].token ELSE saved[u].token,
                          version |-> IF persist[u] THEN v ELSE saved[u].version,
                          keys    |-> KeysAfter(state[u], saved[u].keys)]]
          <6>1. PICK tokens : tokens = {u \in changed : state[u].token # 0}
            OBVIOUS
          <6>2. PICK persist \in [Targets -> BOOLEAN] : persist = [u \in Targets |->
                   u \in tokens /\ ShouldPersistQueryData(query[u], state[u], v)]
            OBVIOUS
          <6> QED
            BY <1>3, <1>5, <6>1, <6>2 DEF ApplyRemoteEvent
        <5>2. state[t].token \in Nat
          BY <1>8
        <5>3. PICK a \in Nat, b \in Nat :
                 /\ a = IF persist[t] THEN state[t].token ELSE saved[t].token
                 /\ b = IF persist[t] THEN v ELSE saved[t].version
          BY <1>7, <4>1, <5>2
        <5> QED
          BY <5>1, <5>3
      <4>3. KeysAfter(state[t], saved[t].keys) \in SUBSET Docs
        BY <2>2, <4>1
      <4>4. PICK keys \in SUBSET Docs : keys = KeysAfter(state[t], saved[t].keys)
        BY <4>3
      <4>5. \A a \in Nat, b \in Nat : [token |-> a, version |-> b, keys |-> keys] \in Saved
        BY DEF Saved
      <4> QED
        BY <4>1, <4>2, <4>4, <4>5
    <3>2. PICK f : f = saved'
      OBVIOUS
    <3>3. f = [t \in Targets |-> f[t]]
      BY <1>5, <3>2 DEF ApplyRemoteEvent
    <3> QED
      BY <3>1, <3>2, <3>3
  <2>4. view' \in [Targets -> Views]
    <3>1. ASSUME NEW t \in Targets
          PROVE  view'[t] \in Views
      <4>1. view[t] \in Views /\ view[t].keys \in SUBSET Docs
        BY DEF WatchInv, StoreType, Views
      <4>2. \/ view'[t] = view[t]
            \/ view'[t] = [keys |-> KeysAfter(state[t], view[t].keys),
                           current |-> state[t].current, version |-> v]
        BY <1>5 DEF EmitNewSnapshots
      <4>3. KeysAfter(state[t], view[t].keys) \in SUBSET Docs
        BY <2>2, <4>1
      <4> QED
        BY <1>7, <1>8, <4>1, <4>2, <4>3 DEF Views
    <3>2. PICK f : f = view'
      OBVIOUS
    <3>3. f = [t \in Targets |-> f[t]]
      BY <1>5, <3>2 DEF EmitNewSnapshots
    <3> QED
      BY <3>1, <3>2, <3>3
  <2>5. lastRemoteVersion' \in Nat
    BY <1>5, <1>7 DEF ApplyRemoteEvent
  <2> QED
    BY <2>1, <2>3, <2>4, <2>5 DEF StoreType
<1>15. failed' = failed \cup HardAssert(\A t \in changed :
                            Having(state[t], "modified") \subseteq view[t].keys, ViewAssertion)
  BY <1>3, <1>5 DEF EmitNewSnapshots, ViewAssertion
<1>16. FailedOK'
  BY <1>15 DEF FailedOK, HardAssert, WatchInv
<1>17. IsOpen(stream') /\ StreamOK(stream', isNetworkEnabled', listening', hasAggregator')
  <2>1. StreamOK(stream, isNetworkEnabled, listening, hasAggregator)
    BY DEF WatchInv
  <2>2. StreamOK(WriteTo(stream), isNetworkEnabled, listening, hasAggregator)
        /\ IsOpen(WriteTo(stream))
    BY <1>9, <2>1, WriteOK
  <2> QED
    BY <1>5, <1>9, <2>1, <2>2
<1>18. toServer' \in Seq(TargetRequests)
  <2>1. PICK order \in SetToSeqs(rewatch) : toServer' = toServer \o WatchAgain(order)
    BY <1>5
  <2>2. toServer \in Seq(TargetRequests)
    BY DEF WatchInv, CallType
  <2>3. WatchAgain(order) \in Seq(TargetRequests)
    <3>1. CASE Targets = {}
      <4>1. rewatch = {}
        BY <1>10, <3>1
      <4>2. order \in Seq({})
        BY <4>1, <2>1, OrderProps, FS_EmptySet
      <4>3. Len(order) = 0
        BY <4>2
      <4>4. WatchAgain(order) = <<>>
        BY <4>3 DEF WatchAgain
      <4> QED
        BY <4>4, EmptySeq
    <3>2. CASE Targets # {}
      BY <1>10, <3>2, CountWatchAgain
    <3> QED
      BY <3>1, <3>2
  <2> QED
    BY <2>1, <2>2, <2>3, ConcatProperties
<1>19. resume' \in [Targets -> Nat]
  BY <1>5, <1>8 DEF WatchInv, RemoteType
<1>20. RemoteType'
  BY <1>5, <1>10, <1>13, <1>19 DEF WatchInv, RemoteType
<1>21. CallType'
  BY <1>5, <1>9, <1>18 DEF WatchInv, CallType
<1>22. QuietOK'
  BY <1>17 DEF QuietOK
<1>23. OnlineOK(online', stream', isNetworkEnabled')
  BY <1>5, <1>9, <1>17
<1>24. WatchInv'
  BY <1>13, <1>14, <1>16, <1>17, <1>20, <1>21, <1>22, <1>23 DEF WatchInv
<1>25. ASSUME NEW t \in Targets
       PROVE  \/ /\ t \in listening /\ Having(targetState'[t], "modified") = {}
                 /\ saved'[t].keys = KeysAfter(targetState[t], saved[t].keys)
                 /\ view'[t].keys = KeysAfter(targetState[t], view[t].keys)
              \/ /\ targetState'[t].changes = targetState[t].changes
                 /\ saved'[t].keys = saved[t].keys /\ view'[t].keys = view[t].keys
  <2>1. CASE t \in changed
    <3>1. targetState'[t].changes = NoChanges
      BY <1>12, <2>1
    <3>2. saved'[t].keys = KeysAfter(state[t], saved[t].keys)
      BY <1>3, <1>5, <2>1 DEF ApplyRemoteEvent
    <3>3. view'[t].keys = KeysAfter(state[t], view[t].keys)
      BY <1>3, <1>5, <2>1 DEF EmitNewSnapshots
    <3>4. \A keys : KeysAfter(state[t], keys) = KeysAfter(targetState[t], keys)
      BY <1>8 DEF KeysAfter, Having
    <3>5. t \in listening
      BY <1>3, <2>1 DEF ChangedTargets, IsActiveTarget
    <3> QED
      BY <3>1, <3>2, <3>3, <3>4, <3>5, NothingModified
  <2>2. CASE t \notin changed
    <3>1. view'[t] = view[t] /\ targetState'[t].changes = targetState[t].changes
      BY <1>3, <1>5, <1>12, <2>2 DEF EmitNewSnapshots
    <3>2. saved'[t] = saved[t]
      BY <1>3, <1>5, <2>2 DEF ApplyRemoteEvent
    <3> QED
      BY <3>1, <3>2
  <2> QED
    BY <2>1, <2>2
<1>26. ASSUME \A t \in listening : Having(targetState[t], "modified") \subseteq view[t].keys
       PROVE  failed' = failed
  <2>1. ASSUME NEW t \in changed PROVE Having(state[t], "modified") \subseteq view[t].keys
    <3>1. Having(state[t], "modified") = Having(targetState[t], "modified")
      BY <1>8, <1>11 DEF Having
    <3>2. t \in listening
      BY <1>3 DEF ChangedTargets, IsActiveTarget
    <3> QED
      BY <1>26, <3>1, <3>2
  <2> QED
    BY <1>15, <2>1 DEF HardAssert
<1>27. Response.op \in Plain
  BY <1>6 DEF Plain
<1> QED
  BY <1>4, <1>5, <1>9, <1>12, <1>17, <1>24, <1>25, <1>26, <1>27

-----------------------------------------------------------------------------
(* WatchInv is an invariant.                                               *)

LEMMA InitWatch == Init => WatchInv
<1> SUFFICES ASSUME Init PROVE WatchInv
  OBVIOUS
<1>1. StoreType
  BY DEF Init, StoreType, Saved, QueryData, NoView, Views
<1>2. RemoteType /\ KnownOK
  <2>1. NoTarget \in TargetStates
    BY NoTargetOK DEF StateOK
  <2>2. targetState \in [Targets -> TargetStates]
    BY <2>1 DEF Init, NoTargets
  <2>3. KnownOK
    BY NoTargetOK DEF Init, NoTargets, KnownOK
  <2> QED
    BY <2>2, <2>3 DEF Init, RemoteType
<1>3. CallType
  <2>1. toServer \in Seq(TargetRequests) /\ toClient \in Seq(Messages)
    BY EmptySeq DEF Init
  <2>2. server \in [Targets -> Service]
    BY DEF Init, Unserved, Service
  <2>3. PICK h \in [Targets -> SUBSET Docs] : h = [t \in Targets |-> {}]
    OBVIOUS
  <2>4. history \in Seq([Targets -> SUBSET Docs]) /\ Len(history) = 1
    <3>1. <<h>> \in Seq([Targets -> SUBSET Docs]) /\ Len(<<h>>) = 1
      BY OneSeq
    <3> QED
      BY <2>3, <3>1 DEF Init
  <2>5. seen \in 1 .. Len(history)
    BY <2>4 DEF Init
  <2>6. budget \in Budget
    BY WatchPathAssumption DEF Init, Budget
  <2>7. news \in BOOLEAN
    BY DEF Init
  <2> QED
    BY <2>1, <2>2, <2>4, <2>5, <2>6, <2>7 DEF CallType
<1>4. StreamOK(stream, isNetworkEnabled, listening, hasAggregator)
  BY NewStreamRests, RestingOK DEF Init
<1>5. OnlineOK(online, stream, isNetworkEnabled)
  BY DEF Init, OnlineOK, NewTracker, Trackers, OnlineStates
<1>6. QuietOK /\ FailedOK
  BY DEF Init, QuietOK, FailedOK
<1> QED
  BY <1>1, <1>2, <1>3, <1>4, <1>5, <1>6 DEF WatchInv

LEMMA StutterWatch == WatchInv /\ UNCHANGED vars => WatchInv'
<1> SUFFICES ASSUME WatchInv, UNCHANGED vars PROVE WatchInv'
  OBVIOUS
<1>1. /\ UNCHANGED <<disk, local, remote, backend, budget>>
  BY DEF vars
<1>2. CallType'
  BY <1>1 DEF WatchInv, CallType, backend
<1>3. UNCHANGED <<disk, local, remote>> /\ UNCHANGED <<toServer, toClient>>
  BY <1>1 DEF backend
<1> QED
  BY <1>2, <1>3, BackendStep

LEMMA NextWatch == WatchInv /\ [Next]_vars => WatchInv'
<1> SUFFICES ASSUME WatchInv, [Next]_vars PROVE WatchInv'
  OBVIOUS
<1>1. ASSUME NEW t \in Targets, Listen(t) PROVE WatchInv'
  BY <1>1, ListenStep
<1>2. ASSUME NEW t \in Targets, StopListening(t) PROVE WatchInv'
  BY <1>2, StopListeningStep
<1>3. CASE EnableNetwork
  BY <1>3, EnableStep
<1>4. CASE DisableNetwork \/ HandleCredentialChange
  BY <1>4, StopStep
<1>5. CASE Restart
  BY <1>5, RestartStep
<1>6. CASE (\E r \in stream.requests : TokenErrorCallback(r)) \/ CallEnds \/ IdleTimeout
  BY <1>6, FailStep
<1>6a. CASE CallAborts
  BY <1>6a, AbortStep
<1>7. CASE OnlineStateTimeout
  BY <1>7, OnlineTimeoutStep
<1>8. ASSUME NEW r \in stream.requests, StaleTokenCallback(r) \/ TokenCallback(r) PROVE WatchInv'
  BY <1>8, StaleTokenStep, TokenStep
<1>9. CASE BackoffTimeout
  BY <1>9, BackoffStep
<1>10. CASE OnTargetChange
  BY <1>10, TargetChangeStep
<1>11. CASE OnDocumentChange
  BY <1>11, DocumentChangeStep
<1>12. CASE OnExistenceFilter
  BY <1>12, ExistenceFilterStep
<1>13. CASE OnTargetError
  BY <1>13, TargetErrorStep
<1>14. CASE IgnoredSnapshot
  BY <1>14, IgnoredSnapshotStep
<1>15. CASE RaiseWatchSnapshot
  BY <1>15, RaiseStep
<1>16. CASE ServerWatch \/ ServerReject \/ ServerUnwatch
  BY <1>16, ServerRequestStep
<1>17. ASSUME NEW t \in Targets,
              \/ \E d \in Docs : ServerAdd(t, d) \/ ServerRemove(t, d)
              \/ ServerCurrent(t)
              \/ ServerReset(t)
       PROVE  WatchInv'
  BY <1>17, ServerMessageStep
<1>18. CASE ServerSnapshot
  BY <1>18, ServerSnapshotStep
<1>19. CASE \/ \E t \in Targets, d \in Docs : ServerElide(t, d) \/ BackendChange(t, d)
            \/ ServerCatchUp
  BY <1>19, ResultsStep
<1>20. CASE UNCHANGED vars
  BY <1>20, StutterWatch
<1>21. CASE Environment
  BY <1>1, <1>2, <1>3, <1>4, <1>6, <1>6a, <1>7, <1>16, <1>17, <1>19, <1>21, EndsOrAborts
     DEF Environment
<1>22. CASE System
  BY <1>6, <1>8, <1>9, <1>10, <1>11, <1>12, <1>13, <1>14, <1>15, <1>16, <1>17, <1>18, <1>19,
     <1>22 DEF System
<1> QED
  BY <1>5, <1>20, <1>21, <1>22 DEF Next

\* The types of the state, what a state of the stream implies for its timers, callbacks and
\* call, and the target states of the aggregator, whatever the backend and the network do.
THEOREM WatchInvariant == Spec => []WatchInv
<1>1. Init => WatchInv
  BY InitWatch
<1>2. WatchInv /\ [Next]_vars => WatchInv'
  BY NextWatch
<1> QED
  BY <1>1, <1>2, PTL DEF Spec

\* The online state that listeners are told goes with the stream: online only on an open
\* stream, offline with a disabled network, the timer only while it is unknown on a started
\* stream.
THEOREM OnlineStateIsThatOfStream == Spec => []OnlineStateMatchesStream
<1>1. WatchInv => OnlineStateMatchesStream
  BY DEF WatchInv, OnlineOK, OnlineStateMatchesStream
<1> QED
  BY <1>1, WatchInvariant, PTL

-----------------------------------------------------------------------------
(* The keys of a view are those on disk, whatever the backend rejects or   *)
(* resets, so that FSTView has every document that an event modifies.  A   *)
(* target that was stopped keeps its changes and its keys on disk until    *)
(* the answers to its requests come.                                       *)

KeysInv ==
    \A t \in Targets :
        /\ view[t].keys = IF t \in listening THEN saved[t].keys ELSE {}
        /\ Having(targetState[t], "modified") \subseteq saved[t].keys

\* A step that leaves the keys alone.
LEMMA SameKeys ==
    ASSUME WatchInv', KeysInv, listening' = listening,
           \A t \in Targets : saved'[t].keys = saved[t].keys /\ view'[t].keys = view[t].keys,
           IsOpen(stream') => \A t \in Targets : ModifiesOwn(t)
    PROVE  KeysInv'
<1>1. ASSUME NEW t \in Targets
      PROVE  Having(targetState'[t], "modified") \subseteq saved'[t].keys
  <2>1. CASE IsOpen(stream')
    <3>1. Having(targetState'[t], "modified") \subseteq
             Having(targetState[t], "modified") \cup view[t].keys
      BY <2>1 DEF ModifiesOwn
    <3>2. /\ Having(targetState[t], "modified") \subseteq saved[t].keys
          /\ view[t].keys \subseteq saved[t].keys
      BY DEF KeysInv
    <3>3. saved'[t].keys = saved[t].keys
      OBVIOUS
    <3> QED
      BY <3>1, <3>2, <3>3
  <2>2. CASE ~IsOpen(stream')
    <3>1. targetState'[t] = NoTarget
      BY <2>2 DEF WatchInv, QuietOK, NoTargets
    <3> QED
      BY <3>1, NoTargetOK, NothingModified
  <2> QED
    BY <2>1, <2>2
<1>2. ASSUME NEW t \in Targets
      PROVE  view'[t].keys = IF t \in listening' THEN saved'[t].keys ELSE {}
  BY DEF KeysInv
<1> QED
  BY <1>1, <1>2 DEF KeysInv

\* One target is listened to or given up.
LEMMA ListenKeys ==
    ASSUME WatchInv, WatchInv', KeysInv, NEW t \in Targets, Listen(t) \/ StopListening(t)
    PROVE  KeysInv'
<1>1. /\ \A u \in Targets : saved'[u].keys = saved[u].keys
      /\ \A u \in Targets \ {t} : view'[u] = view[u] /\ (u \in listening' <=> u \in listening)
      /\ view'[t].keys = IF t \in listening' THEN saved[t].keys ELSE {}
  <2>1. view \in [Targets -> Views] /\ saved \in [Targets -> Saved]
    BY DEF WatchInv, StoreType
  <2>2. CASE Listen(t)
    <3>1. /\ listening' = listening \cup {t} /\ UNCHANGED disk
          /\ view' = [view EXCEPT ![t] = [NoView EXCEPT !.keys = saved[t].keys]]
      BY <2>2 DEF Listen, InitializeView
    <3> QED
      BY <2>1, <3>1 DEF disk, NoView
  <2>3. CASE StopListening(t)
    <3>1. /\ listening' = listening \ {t} /\ ReleaseQuery(t)
          /\ view' = [view EXCEPT ![t] = NoView]
      BY <2>3 DEF StopListening, RemoveAndCleanupQuery
    <3>2. \A u \in Targets : saved'[u].keys = saved[u].keys
      BY <2>1, <3>1, ReleasedKeys
    <3> QED
      BY <2>1, <3>1, <3>2 DEF NoView
  <2> QED
    BY <2>2, <2>3
<1>2. /\ IsOpen(stream') <=> IsOpen(stream)
      /\ IsOpen(stream) =>
            \E request \in TargetRequests : request.target = t /\ Send(t, request)
  BY ListenSends
<1>3. ASSUME NEW u \in Targets
      PROVE  Having(targetState'[u], "modified") \subseteq saved'[u].keys
  <2>1. CASE IsOpen(stream)
    <3>1. PICK request \in TargetRequests : Send(t, request)
      BY <1>2, <2>1
    <3>2. /\ targetState'[t] = RecordPendingTargetRequest(targetState[t])
          /\ \A w \in Targets \ {t} : targetState'[w] = targetState[w]
      BY <2>1, <3>1, SendOK
    <3>3. RecordPendingTargetRequest(targetState[t]).changes = targetState[t].changes
      BY RecordOK DEF WatchInv, KnownOK
    <3>4. targetState'[u].changes = targetState[u].changes
      BY <3>2, <3>3
    <3>5. Having(targetState'[u], "modified") = Having(targetState[u], "modified")
      BY <3>4 DEF Having
    <3> QED
      BY <1>1, <3>5 DEF KeysInv
  <2>2. CASE ~IsOpen(stream)
    <3>1. targetState'[u] = NoTarget
      BY <1>2, <2>2 DEF WatchInv, QuietOK, NoTargets
    <3> QED
      BY <3>1, NoTargetOK, NothingModified
  <2> QED
    BY <2>1, <2>2
<1>4. ASSUME NEW u \in Targets
      PROVE  view'[u].keys = IF u \in listening' THEN saved'[u].keys ELSE {}
  BY <1>1 DEF KeysInv
<1> QED
  BY <1>3, <1>4 DEF KeysInv

\* A target is rejected: it is forgotten with its changes, its keys stay on disk.
LEMMA TargetErrorKeys ==
    ASSUME WatchInv, WatchInv', KeysInv, OnTargetError
    PROVE  KeysInv'
<1>1. Read({"error"})
  BY DEF OnTargetError
<1>2. PICK t \in Targets : t = Response.target
  BY <1>1, ReadOK, ResponseFields
<1>3. /\ view \in [Targets -> Views] /\ saved \in [Targets -> Saved]
      /\ targetState \in [Targets -> TargetStates]
  BY DEF WatchInv, StoreType, RemoteType
<1>4. CASE t \in listening
  <2>1. /\ listening' = listening \ {t} /\ targetState' = [targetState EXCEPT ![t] = NoTarget]
        /\ ReleaseQuery(t) /\ view' = [view EXCEPT ![t] = NoView]
    BY <1>2, <1>4 DEF OnTargetError, RejectListen, RemoveAndCleanupQuery
  <2>2. \A u \in Targets : saved'[u].keys = saved[u].keys
    BY <1>3, <2>1, ReleasedKeys
  <2>3. Having(NoTarget, "modified") = {}
    BY NoTargetOK, NothingModified
  <2>4. ASSUME NEW u \in Targets
        PROVE  /\ Having(targetState'[u], "modified") \subseteq saved'[u].keys
               /\ view'[u].keys = IF u \in listening' THEN saved'[u].keys ELSE {}
    <3>1. CASE u = t
      BY <1>3, <2>1, <2>3, <3>1 DEF NoView
    <3>2. CASE u # t
      <4>1. /\ targetState'[u] = targetState[u] /\ view'[u] = view[u]
            /\ (u \in listening' <=> u \in listening) /\ saved'[u].keys = saved[u].keys
        BY <1>3, <2>1, <2>2, <3>2
      <4> QED
        BY <4>1 DEF KeysInv
    <3> QED
      BY <3>1, <3>2
  <2> QED
    BY <2>4 DEF KeysInv
<1>5. CASE t \notin listening
  <2>1. UNCHANGED <<listening, targetState, saved, view>>
    BY <1>2, <1>5 DEF OnTargetError
  <2> QED
    BY <2>1 DEF KeysInv
<1> QED
  BY <1>4, <1>5

\* A snapshot is raised: view and disk take the same changes, and the assertion holds.
LEMMA RaiseKeys ==
    ASSUME WatchInv, KeysInv, RaiseWatchSnapshot
    PROVE  KeysInv' /\ failed' = failed
<1>1. /\ UNCHANGED listening
      /\ \A t \in Targets :
            \/ /\ t \in listening /\ Having(targetState'[t], "modified") = {}
               /\ saved'[t].keys = KeysAfter(targetState[t], saved[t].keys)
               /\ view'[t].keys = KeysAfter(targetState[t], view[t].keys)
            \/ /\ targetState'[t].changes = targetState[t].changes
               /\ saved'[t].keys = saved[t].keys /\ view'[t].keys = view[t].keys
      /\ (\A t \in listening : Having(targetState[t], "modified") \subseteq view[t].keys)
            => failed' = failed
  BY RaiseStep
<1>2. listening \subseteq Targets
  BY DEF WatchInv, RemoteType
<1>3. ASSUME NEW t \in Targets
      PROVE  /\ view'[t].keys = IF t \in listening THEN saved'[t].keys ELSE {}
             /\ Having(targetState'[t], "modified") \subseteq saved'[t].keys
  <2>1. /\ view[t].keys = IF t \in listening THEN saved[t].keys ELSE {}
        /\ Having(targetState[t], "modified") \subseteq saved[t].keys
    BY DEF KeysInv
  <2>2. CASE /\ t \in listening /\ Having(targetState'[t], "modified") = {}
             /\ saved'[t].keys = KeysAfter(targetState[t], saved[t].keys)
             /\ view'[t].keys = KeysAfter(targetState[t], view[t].keys)
    BY <2>1, <2>2
  <2>3. CASE /\ targetState'[t].changes = targetState[t].changes
             /\ saved'[t].keys = saved[t].keys /\ view'[t].keys = view[t].keys
    <3>1. Having(targetState'[t], "modified") = Having(targetState[t], "modified")
      BY <2>3 DEF Having
    <3> QED
      BY <2>1, <2>3, <3>1
  <2> QED
    BY <1>1, <2>2, <2>3
<1>4. KeysInv'
  BY <1>1, <1>3 DEF KeysInv
<1>5. \A t \in listening : Having(targetState[t], "modified") \subseteq view[t].keys
  BY <1>2 DEF KeysInv
<1> QED
  BY <1>1, <1>4, <1>5

LEMMA InitKeys == Init => KeysInv /\ OnlyGracefulEndAborts
<1> SUFFICES ASSUME Init PROVE KeysInv /\ OnlyGracefulEndAborts
  OBVIOUS
<1>1. /\ listening = {} /\ failed = {} /\ stream.failed = {} /\ online.failed = {}
      /\ \A t \in Targets : view[t].keys = {} /\ targetState[t] = NoTarget
  BY DEF Init, NoView, NoTargets, NewStream, NewTracker
<1>2. Having(NoTarget, "modified") = {}
  BY NoTargetOK, NothingModified
<1> QED
  BY <1>1, <1>2 DEF KeysInv, OnlyGracefulEndAborts

LEMMA RestartKeys ==
    ASSUME WatchInv, WatchInv', Restart
    PROVE  KeysInv'
<1>1. /\ listening' = {}
      /\ \A t \in Targets : view'[t].keys = {} /\ targetState'[t] = NoTarget
  BY DEF Restart, NoView, NoTargets
<1>2. Having(NoTarget, "modified") = {}
  BY NoTargetOK, NothingModified
<1> QED
  BY <1>1, <1>2 DEF KeysInv

\* The steps of a running process: the keys stay in order, and an assertion fails only in
\* OnWatchStreamClose.
LEMMA RunningKeys ==
    ASSUME WatchInv, WatchInv', KeysInv, Environment \/ System
    PROVE  KeysInv' /\ (failed' = failed \/ CallAborts)
<1> DEFINE Goal == KeysInv' /\ (failed' = failed \/ CallAborts)
<1>1. ASSUME NEW t \in Targets, Listen(t) \/ StopListening(t) PROVE Goal
  BY <1>1, ListenKeys, ListenStep, StopListeningStep
<1>2. CASE EnableNetwork
  <2>1. UNCHANGED <<saved, view, listening, failed>>
    BY <1>2 DEF EnableNetwork, disk, local
  <2>2. IsOpen(stream') => UNCHANGED targetState
    BY <1>2, EnableStep
  <2> QED
    BY <2>1, <2>2, SameKeys DEF ModifiesOwn
<1>3. CASE DisableNetwork \/ HandleCredentialChange
  <2>1. UNCHANGED <<saved, listening>>
    BY <1>3 DEF DisableNetwork, HandleCredentialChange, disk
  <2>2. /\ ~IsOpen(stream') /\ failed' = failed
        /\ \A t \in Targets : view'[t].keys = view[t].keys
    BY <1>3, StopStep
  <2> QED
    BY <2>1, <2>2, SameKeys
<1>4. CASE (\E r \in stream.requests : TokenErrorCallback(r)) \/ CallEnds \/ IdleTimeout
  <2>1. UNCHANGED <<saved, listening>>
    BY <1>4 DEF TokenErrorCallback, CallEnds, StreamFails, IdleTimeout, disk
  <2>2. /\ ~IsOpen(stream') /\ failed' = failed
        /\ \A t \in Targets : view'[t].keys = view[t].keys
    BY <1>4, FailStep
  <2> QED
    BY <2>1, <2>2, SameKeys
<1>5. CASE CallAborts
  <2>1. UNCHANGED <<saved, view, listening, targetState>>
    BY <1>5, AbortStep DEF disk, local
  <2> QED
    BY <1>5, <2>1, SameKeys DEF ModifiesOwn
<1>6. CASE OnlineStateTimeout
  <2>1. UNCHANGED <<saved, listening, targetState, failed>>
    BY <1>6 DEF OnlineStateTimeout, disk
  <2>2. \A t \in Targets : view'[t].keys = view[t].keys
    BY <1>6, OnlineTimeoutStep
  <2> QED
    BY <2>1, <2>2, SameKeys DEF ModifiesOwn
<1>7. ASSUME NEW r \in stream.requests, StaleTokenCallback(r) PROVE Goal
  <2>1. UNCHANGED <<saved, view, listening, targetState, failed>>
    BY <1>7 DEF StaleTokenCallback, disk, local
  <2> QED
    BY <2>1, SameKeys DEF ModifiesOwn
<1>8. ASSUME NEW r \in stream.requests, TokenCallback(r) PROVE Goal
  <2>1. UNCHANGED <<saved, view, listening>>
    BY <1>8 DEF TokenCallback, disk, local
  <2>2. failed' = failed
    BY <1>8, TokenStep
  <2>3. \A t \in Targets : targetState'[t].changes = targetState[t].changes
    <3>1. ASSUME NEW t \in Targets PROVE StateOK(targetState[t])
      BY DEF WatchInv, KnownOK
    <3>2. \A t \in Targets :
             RecordPendingTargetRequest(targetState[t]).changes = targetState[t].changes
      BY <3>1, RecordOK
    <3> QED
      BY <1>8, <3>2 DEF TokenCallback
  <2>4. \A t \in Targets : ModifiesOwn(t)
    BY <2>3 DEF ModifiesOwn, Having
  <2> QED
    BY <2>1, <2>2, <2>4, SameKeys
<1>9. CASE BackoffTimeout
  <2>1. UNCHANGED <<saved, view, listening, targetState, failed>>
    BY <1>9 DEF BackoffTimeout, disk, local
  <2> QED
    BY <2>1, SameKeys DEF ModifiesOwn
<1>10. CASE OnTargetChange
  <2>1. UNCHANGED saved
    BY <1>10 DEF OnTargetChange, disk
  <2> QED
    BY <1>10, <2>1, TargetChangeStep, SameKeys
<1>11. CASE OnDocumentChange
  <2>1. UNCHANGED saved
    BY <1>11 DEF OnDocumentChange, disk
  <2> QED
    BY <1>11, <2>1, DocumentChangeStep, SameKeys
<1>12. CASE OnExistenceFilter
  <2>1. UNCHANGED saved
    BY <1>12 DEF OnExistenceFilter, disk
  <2> QED
    BY <1>12, <2>1, ExistenceFilterStep, SameKeys
<1>13. CASE OnTargetError
  BY <1>13, TargetErrorStep, TargetErrorKeys
<1>14. CASE IgnoredSnapshot
  <2>1. UNCHANGED saved
    BY <1>14 DEF IgnoredSnapshot, disk
  <2> QED
    BY <1>14, <2>1, IgnoredSnapshotStep, SameKeys
<1>15. CASE RaiseWatchSnapshot
  BY <1>15, RaiseKeys
<1>16. CASE \/ ServerWatch \/ ServerReject \/ ServerUnwatch
            \/ \E t \in Targets, d \in Docs : ServerAdd(t, d) \/ ServerRemove(t, d)
            \/ \E t \in Targets : ServerCurrent(t) \/ ServerReset(t)
            \/ ServerSnapshot
            \/ \E t \in Targets, d \in Docs : ServerElide(t, d) \/ BackendChange(t, d)
            \/ ServerCatchUp
  <2>1. UNCHANGED <<disk, local, remote>>
    BY <1>16 DEF ServerWatch, ServerReject, ServerUnwatch, ServerAdd, ServerRemove,
                 ServerCurrent, ServerReset, Answer, ServerSnapshot, ServerElide, BackendChange,
                 ServerCatchUp
  <2>2. UNCHANGED <<saved, view, listening, targetState, failed>>
    BY <2>1 DEF disk, local, remote
  <2> QED
    BY <2>2, SameKeys DEF ModifiesOwn
<1>17. CASE Environment
  BY <1>1, <1>2, <1>3, <1>4, <1>5, <1>6, <1>16, <1>17, EndsOrAborts DEF Environment
<1>18. CASE System
  BY <1>4, <1>7, <1>8, <1>9, <1>10, <1>11, <1>12, <1>13, <1>14, <1>15, <1>16, <1>18 DEF System
<1> QED
  BY <1>17, <1>18

LEMMA NextKeys ==
    ASSUME WatchInv, WatchInv', KeysInv, OnlyGracefulEndAborts, [Next]_vars
    PROVE  KeysInv' /\ OnlyGracefulEndAborts'
<1>1. stream'.failed = {} /\ online'.failed = {}
  BY DEF WatchInv, StreamOK, Streams, OnlineOK, Trackers
<1>2. CASE NoHardAssertFails /\ (Environment \/ System)
  <2>1. KeysInv' /\ (failed' = failed \/ CallAborts)
    BY <1>2, RunningKeys
  <2>2. failed = {}
    BY <1>2 DEF NoHardAssertFails
  <2>3. CASE failed' = failed
    BY <1>1, <2>1, <2>2, <2>3 DEF OnlyGracefulEndAborts
  <2>4. CASE CallAborts
    <3>1. /\ IsOpen(stream) /\ listening # {} /\ failed' = failed \cup {GracefulEnd}
          /\ UNCHANGED <<stream, listening>>
      BY <2>4, AbortStep
    <3>2. "idle" \notin stream.timers
      BY <3>1 DEF WatchInv, StreamOK
    <3> QED
      BY <1>1, <2>1, <2>2, <3>1, <3>2 DEF OnlyGracefulEndAborts
  <2> QED
    BY <2>1, <2>3, <2>4
<1>3. CASE Restart
  BY <1>1, <1>3, RestartKeys, RestartStep DEF OnlyGracefulEndAborts
<1>4. CASE UNCHANGED vars
  <2>1. UNCHANGED <<saved, view, listening, targetState, stream, online, failed>>
    BY <1>4 DEF vars, disk, local, remote
  <2> QED
    BY <2>1 DEF KeysInv, OnlyGracefulEndAborts
<1> QED
  BY <1>2, <1>3, <1>4 DEF Next

\* Every HARD_ASSERT of stream.mm, online_state_tracker.cc, the watch half of remote_store.mm
\* and FSTView holds, whatever the backend sends, rejects or resets and whatever fails, but for
\* one: the backend ends the call with OK while targets are listened to
\* (remote_store.mm:218).
THEOREM OnlyGracefulEnd == Spec => []OnlyGracefulEndAborts
<1>1. Init => WatchInv /\ KeysInv /\ OnlyGracefulEndAborts
  BY InitWatch, InitKeys
<1>2. WatchInv /\ KeysInv /\ OnlyGracefulEndAborts /\ [Next]_vars =>
          (WatchInv /\ KeysInv /\ OnlyGracefulEndAborts)'
  BY NextWatch, NextKeys
<1> QED
  BY <1>1, <1>2, PTL DEF Spec

-----------------------------------------------------------------------------
(* A backend that rejects no target: the count of outstanding responses is *)
(* exact.                                                                  *)

Answers == {"added", "removed", "error"}

Flying(requests, answers, t) == Count(requests, t, Requests) + Count(answers, t, Answers)

NoErrors(seq) == \A i \in 1 .. Len(seq) : seq[i].op # "error"

CountInv ==
    /\ budget.errors = 0 /\ NoErrors(toClient)
    /\ OutstandingIsInFlight

LEMMA FlyingIs ==
    OutstandingIsInFlight <=> (IsOpen(stream) => \A t \in Targets :
        targetState[t].outstanding = Flying(toServer, toClient, t))
BY DEF OutstandingIsInFlight, Flying, Requests, Answers

LEMMA FlyingType ==
    ASSUME NEW q \in Seq(TargetRequests), NEW c \in Seq(Messages), NEW t
    PROVE  /\ Count(q, t, Requests) \in Nat /\ Count(c, t, Answers) \in Nat
           /\ Flying(q, c, t) \in Nat
<1>1. Count(q, t, Requests) \in Nat /\ Count(c, t, Answers) \in Nat
  BY CountIs
<1> QED
  BY <1>1 DEF Flying

LEMMA NoErrorsAppend ==
    ASSUME NEW seq \in Seq(Messages), NoErrors(seq), NEW m \in Messages, m.op # "error"
    PROVE  NoErrors(Append(seq, m))
<1>1. PICK c : c = Append(seq, m)
  OBVIOUS
<1>2. /\ Len(c) = Len(seq) + 1 /\ c[Len(seq) + 1] = m
      /\ \A i \in 1 .. Len(seq) : c[i] = seq[i]
  BY <1>1
<1>3. ASSUME NEW i \in 1 .. Len(c) PROVE c[i].op # "error"
  <2>1. i \in 1 .. Len(seq) \/ i = Len(seq) + 1
    BY <1>2
  <2> QED
    BY <1>2, <2>1 DEF NoErrors
<1> QED
  BY <1>1, <1>3 DEF NoErrors

LEMMA NoErrorsTail ==
    ASSUME NEW seq \in Seq(Messages), seq # <<>>, NoErrors(seq)
    PROVE  NoErrors(Tail(seq)) /\ Head(seq).op # "error"
<1>1. PICK r : r = Tail(seq)
  OBVIOUS
<1>2. Len(r) = Len(seq) - 1 /\ \A i \in 1 .. Len(r) : r[i] = seq[i + 1]
  BY <1>1, HeadTailProperties
<1>3. Len(seq) \in Nat \ {0} /\ Head(seq) = seq[1]
  BY EmptySeq
<1>4. ASSUME NEW i \in 1 .. Len(r) PROVE r[i].op # "error"
  <2>1. i + 1 \in 1 .. Len(seq)
    BY <1>2, <1>3
  <2> QED
    BY <1>2, <2>1 DEF NoErrors
<1>5. seq[1].op # "error"
  BY <1>3 DEF NoErrors
<1> QED
  BY <1>1, <1>3, <1>4, <1>5 DEF NoErrors

LEMMA NoErrorsConcat ==
    ASSUME NEW a \in Seq(Messages), NoErrors(a), NEW b \in Seq(Messages), NoErrors(b)
    PROVE  NoErrors(a \o b)
<1>1. PICK c : c = a \o b
  OBVIOUS
<1>2. /\ Len(c) = Len(a) + Len(b) /\ Len(a) \in Nat /\ Len(b) \in Nat
      /\ \A i \in 1 .. Len(a) + Len(b) : c[i] = IF i <= Len(a) THEN a[i] ELSE b[i - Len(a)]
  BY <1>1, ConcatProperties
<1>3. ASSUME NEW i \in 1 .. Len(c) PROVE c[i].op # "error"
  <2>1. CASE i <= Len(a)
    <3>1. i \in 1 .. Len(a) /\ c[i] = a[i]
      BY <1>2, <2>1
    <3> QED
      BY <3>1 DEF NoErrors
  <2>2. CASE ~(i <= Len(a))
    <3>1. i - Len(a) \in 1 .. Len(b) /\ c[i] = b[i - Len(a)]
      BY <1>2, <2>2
    <3> QED
      BY <3>1 DEF NoErrors
  <2> QED
    BY <2>1, <2>2
<1> QED
  BY <1>1, <1>3 DEF NoErrors

\* A step after which the stream is not open.
LEMMA ClosedCount ==
    ASSUME WatchInv', ~IsOpen(stream'), budget'.errors = 0
    PROVE  CountInv'
<1>1. toClient' = <<>>
  BY DEF WatchInv, QuietOK
<1>2. NoErrors(toClient')
  BY <1>1, EmptySeq DEF NoErrors
<1>3. OutstandingIsInFlight'
  BY DEF OutstandingIsInFlight
<1> QED
  BY <1>2, <1>3 DEF CountInv

\* A step that leaves it open.
LEMMA OpenCount ==
    ASSUME budget'.errors = 0, NoErrors(toClient'),
           \A t \in Targets : targetState'[t].outstanding = Flying(toServer', toClient', t)
    PROVE  CountInv'
<1>1. OutstandingIsInFlight'
  BY DEF OutstandingIsInFlight, Flying, Requests, Answers
<1> QED
  BY <1>1 DEF CountInv

\* What an open stream has before a step.
LEMMA OpenFacts ==
    ASSUME WatchInv, CountInv, IsOpen(stream)
    PROVE  /\ toServer \in Seq(TargetRequests) /\ toClient \in Seq(Messages)
           /\ NoErrors(toClient) /\ budget.errors = 0
           /\ \A t \in Targets :
                 /\ targetState[t].outstanding = Flying(toServer, toClient, t)
                 /\ targetState[t].outstanding \in Nat
<1>1. toServer \in Seq(TargetRequests) /\ toClient \in Seq(Messages)
  BY DEF WatchInv, CallType
<1>2. \A t \in Targets : targetState[t].outstanding = Flying(toServer, toClient, t)
  BY FlyingIs DEF CountInv
<1> QED
  BY <1>1, <1>2, FlyingType DEF CountInv

\* Nothing that is counted changes.
LEMMA SameCount ==
    ASSUME WatchInv, CountInv, WatchInv', IsOpen(stream') <=> IsOpen(stream),
           budget'.errors = budget.errors,
           IsOpen(stream) => UNCHANGED <<toServer, toClient, targetState>>
    PROVE  CountInv'
<1>1. budget'.errors = 0
  BY DEF CountInv
<1>2. CASE IsOpen(stream)
  BY <1>1, <1>2, OpenFacts, OpenCount
<1>3. CASE ~IsOpen(stream)
  BY <1>1, <1>3, ClosedCount
<1> QED
  BY <1>2, <1>3

\* A message that is not an answer is added or read.
LEMMA PlainMisses ==
    ASSUME NEW m \in Messages, m.op \in Plain, NEW t
    PROVE  Hit1(m, t, Answers) = 0 /\ m.op # "error"
BY DEF Hit1, Hit, Plain, Answers

LEMMA ReadPlain ==
    ASSUME WatchInv, CountInv, NEW ops, Read(ops), Response.op \in Plain
    PROVE  /\ NoErrors(toClient')
           /\ \A t \in Targets : Count(toClient', t, Answers) = Count(toClient, t, Answers)
<1>1. /\ toClient \in Seq(Messages) /\ toClient # <<>> /\ toClient' = Tail(toClient)
      /\ Response \in Messages /\ IsOpen(stream)
  BY ReadOK
<1>2. NoErrors(toClient')
  BY <1>1, NoErrorsTail DEF CountInv
<1>3. ASSUME NEW t \in Targets PROVE Count(toClient', t, Answers) = Count(toClient, t, Answers)
  <2>1. Count(toClient', t, Answers) = Count(toClient, t, Answers) - Hit1(Response, t, Answers)
    BY <1>1, CountTail DEF Response
  <2>2. Hit1(Response, t, Answers) = 0
    BY <1>1, PlainMisses
  <2>3. Count(toClient, t, Answers) \in Nat
    BY <1>1, CountIs
  <2> QED
    BY <2>1, <2>2, <2>3
<1> QED
  BY <1>2, <1>3

LEMMA ReadPlainCount ==
    ASSUME WatchInv, CountInv, NEW ops, Read(ops), Response.op \in Plain,
           UNCHANGED <<toServer, budget>>,
           \A t \in Targets : targetState'[t].outstanding = targetState[t].outstanding
    PROVE  CountInv'
<1>1. IsOpen(stream)
  BY ReadOK
<1>2. /\ NoErrors(toClient')
      /\ \A t \in Targets : Count(toClient', t, Answers) = Count(toClient, t, Answers)
  BY ReadPlain
<1>3. budget'.errors = 0
  BY <1>1, OpenFacts
<1>4. ASSUME NEW t \in Targets PROVE targetState'[t].outstanding = Flying(toServer', toClient', t)
  <2>1. targetState[t].outstanding = Flying(toServer, toClient, t)
    BY <1>1, OpenFacts
  <2> QED
    BY <1>2, <2>1 DEF Flying
<1> QED
  BY <1>2, <1>3, <1>4, OpenCount

LEMMA TargetChangeCount ==
    ASSUME WatchInv, CountInv, OnTargetChange
    PROVE  CountInv'
<1>1. Read({"added", "removed", "current", "reset"})
  BY DEF OnTargetChange
<1>2. /\ IsOpen(stream) /\ toClient \in Seq(Messages) /\ toClient # <<>>
      /\ toClient' = Tail(toClient) /\ Response \in Messages
      /\ Response.op \in {"added", "removed", "current", "reset"}
  BY <1>1, ReadOK
<1>3. /\ UNCHANGED <<toServer, budget>>
      /\ \A t \in Targets :
            targetState'[t].outstanding =
                 targetState[t].outstanding - Hit1(Response, t, {"added", "removed"})
  BY TargetChangeStep
<1>4. NoErrors(toClient')
  BY <1>2, NoErrorsTail DEF CountInv
<1>5. budget'.errors = 0
  BY <1>2, <1>3, OpenFacts
<1>6. ASSUME NEW t \in Targets PROVE targetState'[t].outstanding = Flying(toServer', toClient', t)
  <2>1. targetState[t].outstanding = Flying(toServer, toClient, t)
    BY <1>2, OpenFacts
  <2>2. PICK h \in {0, 1} : h = Hit1(Response, t, {"added", "removed"})
    BY DEF Hit1
  <2>3. Hit1(Response, t, Answers) = h
    BY <1>2, <2>2 DEF Hit1, Hit, Answers
  <2>4. Count(toClient', t, Answers) = Count(toClient, t, Answers) - Hit1(Response, t, Answers)
    BY <1>2, CountTail DEF Response
  <2>5. PICK a \in Nat, b \in Nat : a = Count(toServer, t, Requests)
                                    /\ b = Count(toClient, t, Answers)
    BY <1>2, FlyingType, OpenFacts
  <2>6. targetState'[t].outstanding = (a + b) - h
    BY <1>3, <2>1, <2>2, <2>5 DEF Flying
  <2>7. Flying(toServer', toClient', t) = a + (b - h)
    BY <1>3, <2>3, <2>4, <2>5 DEF Flying
  <2> QED
    BY <2>6, <2>7
<1> QED
  BY <1>4, <1>5, <1>6, OpenCount

LEMMA TargetErrorCount ==
    ASSUME WatchInv, CountInv, OnTargetError
    PROVE  FALSE
<1>1. Read({"error"})
  BY DEF OnTargetError
<1>2. toClient \in Seq(Messages) /\ toClient # <<>> /\ Response.op = "error"
  BY <1>1, ReadOK
<1>3. Head(toClient).op # "error"
  BY <1>2, NoErrorsTail DEF CountInv
<1> QED
  BY <1>2, <1>3 DEF Response

LEMMA RaiseCount ==
    ASSUME WatchInv, CountInv, RaiseWatchSnapshot
    PROVE  CountInv'
<1>1. /\ IsOpen(stream) /\ UNCHANGED budget /\ Read({"snapshot"}) /\ Response.op \in Plain
      /\ \A t \in Targets :
            targetState'[t].outstanding = targetState[t].outstanding
                  + (IF t \in resets \cap listening THEN 2 ELSE 0)
  BY RaiseStep
<1>2. PICK order \in SetToSeqs(resets \cap listening) : toServer' = toServer \o WatchAgain(order)
  BY RaiseStep
<1>3. /\ NoErrors(toClient')
      /\ \A t \in Targets : Count(toClient', t, Answers) = Count(toClient, t, Answers)
  BY <1>1, ReadPlain
<1>4. /\ toServer \in Seq(TargetRequests) /\ toClient \in Seq(Messages)
      /\ budget.errors = 0
      /\ \A t \in Targets :
            /\ targetState[t].outstanding = Flying(toServer, toClient, t)
            /\ targetState[t].outstanding \in Nat
  BY <1>1, OpenFacts
<1>5. budget'.errors = 0
  BY <1>1, <1>4
<1>6. PICK L \in SUBSET Targets : L = resets \cap listening
  BY DEF WatchInv, RemoteType
<1>7. ASSUME NEW t \in Targets PROVE targetState'[t].outstanding = Flying(toServer', toClient', t)
  <2>1. PICK w : w = WatchAgain(order)
    OBVIOUS
  <2>2. w \in Seq(TargetRequests) /\ Count(w, t, Requests) = IF t \in L THEN 2 ELSE 0
    BY <1>6, <2>1, CountWatchAgain
  <2>3. Count(toServer \o w, t, Requests) = Count(toServer, t, Requests) + Count(w, t, Requests)
    BY <1>4, <2>2, CountConcat
  <2>4. PICK a \in Nat, b \in Nat : a = Count(toServer, t, Requests)
                                    /\ b = Count(toClient, t, Answers)
    BY <1>4, FlyingType
  <2>5. PICK k \in Nat : k = IF t \in L THEN 2 ELSE 0
    OBVIOUS
  <2>6. targetState'[t].outstanding = (a + b) + k
    BY <1>1, <1>4, <1>6, <2>4, <2>5 DEF Flying
  <2>7. Flying(toServer', toClient', t) = (a + k) + b
    BY <1>2, <1>3, <2>1, <2>2, <2>3, <2>4, <2>5 DEF Flying
  <2> QED
    BY <2>6, <2>7
<1> QED
  BY <1>3, <1>5, <1>7, OpenCount

LEMMA SendCount ==
    ASSUME WatchInv, CountInv, IsOpen(stream), NEW t \in Targets,
           NEW request \in TargetRequests, request.target = t, Send(t, request),
           UNCHANGED toClient, budget'.errors = budget.errors
    PROVE  CountInv'
<1>1. /\ targetState'[t] = RecordPendingTargetRequest(targetState[t])
      /\ \A u \in Targets \ {t} : targetState'[u] = targetState[u]
      /\ toServer' = Append(toServer, request)
  BY SendOK DEF Send
<1>2. /\ toServer \in Seq(TargetRequests) /\ toClient \in Seq(Messages)
      /\ NoErrors(toClient) /\ budget.errors = 0
      /\ \A u \in Targets :
            /\ targetState[u].outstanding = Flying(toServer, toClient, u)
            /\ targetState[u].outstanding \in Nat
  BY OpenFacts
<1>3. targetState'[t].outstanding = targetState[t].outstanding + 1
  BY <1>1, RecordOK DEF WatchInv, KnownOK
<1>4. ASSUME NEW u \in Targets PROVE targetState'[u].outstanding = Flying(toServer', toClient', u)
  <2>1. Count(toServer', u, Requests) = Count(toServer, u, Requests) + Hit1(request, u, Requests)
    BY <1>1, <1>2, CountAppend
  <2>2. Hit1(request, u, Requests) = IF u = t THEN 1 ELSE 0
    BY DEF TargetRequests, Requests, Hit1, Hit
  <2>3. PICK a \in Nat, b \in Nat : a = Count(toServer, u, Requests)
                                    /\ b = Count(toClient, u, Answers)
    BY <1>2, FlyingType
  <2>4. PICK k \in Nat : k = IF u = t THEN 1 ELSE 0
    OBVIOUS
  <2>5. targetState[u].outstanding = a + b
    BY <1>2, <2>3 DEF Flying
  <2>6. targetState'[u].outstanding = (a + b) + k
    BY <1>1, <1>3, <2>4, <2>5
  <2>7. Flying(toServer', toClient', u) = (a + k) + b
    BY <2>1, <2>2, <2>3, <2>4 DEF Flying
  <2> QED
    BY <2>6, <2>7
<1> QED
  BY <1>1, <1>2, <1>4, OpenCount

LEMMA ListenCount ==
    ASSUME WatchInv, CountInv, WatchInv', NEW t \in Targets, Listen(t) \/ StopListening(t)
    PROVE  CountInv'
<1>1. /\ budget'.errors = budget.errors /\ UNCHANGED toClient
      /\ IsOpen(stream') <=> IsOpen(stream)
      /\ IsOpen(stream) =>
            \E request \in TargetRequests : request.target = t /\ Send(t, request)
  <2>1. UNCHANGED toClient
    BY DEF Listen, StopListening
  <2>2. budget'.errors = budget.errors
    BY ListenStep DEF StopListening
  <2> QED
    BY <2>1, <2>2, ListenSends
<1>2. CASE IsOpen(stream)
  <2>1. PICK request \in TargetRequests : request.target = t /\ Send(t, request)
    BY <1>1, <1>2
  <2> QED
    BY <1>1, <1>2, <2>1, SendCount
<1>3. CASE ~IsOpen(stream)
  BY <1>1, <1>3, ClosedCount DEF CountInv
<1> QED
  BY <1>2, <1>3

LEMMA TokenCount ==
    ASSUME WatchInv, CountInv, NEW r \in stream.requests, TokenCallback(r)
    PROVE  CountInv'
<1>1. ~IsOpen(stream)
  BY TokenStep
<1>2. targetState = NoTargets /\ toClient = <<>>
  BY <1>1 DEF WatchInv, QuietOK
<1>3. /\ UNCHANGED <<local, toClient, budget>>
      /\ targetState' = [t \in Targets |->
            IF t \in listening THEN RecordPendingTargetRequest(targetState[t])
            ELSE targetState[t]]
  BY DEF TokenCallback
<1>4. PICK order \in SetToSeqs(listening) :
          toServer' = [i \in 1 .. Len(order) |-> Watch(order[i], resume[order[i]])]
  BY DEF TokenCallback
<1>5. listening \in SUBSET Targets /\ resume \in [Targets -> Nat]
  BY DEF WatchInv, RemoteType
<1>6. /\ budget'.errors = 0 /\ NoErrors(toClient')
  BY <1>1, <1>3 DEF CountInv
<1>7. ASSUME NEW t \in Targets
      PROVE  targetState'[t].outstanding = IF t \in listening THEN 1 ELSE 0
  <2>1. targetState[t] = NoTarget
    BY <1>2 DEF NoTargets
  <2>2. PICK u : u = RecordPendingTargetRequest(NoTarget)
    OBVIOUS
  <2>3. u.outstanding = NoTarget.outstanding + 1
    BY <2>2, NoTargetOK, RecordOK
  <2>4. u.outstanding = 1
    BY <2>3, NoTargetOK
  <2>5. targetState'[t] = IF t \in listening THEN u ELSE NoTarget
    BY <1>3, <2>1, <2>2
  <2> QED
    BY <2>4, <2>5, NoTargetOK
<1>8. ASSUME NEW t \in Targets PROVE targetState'[t].outstanding = Flying(toServer', toClient', t)
  <2>1. PICK q : q = toServer' /\ q = [i \in 1 .. Len(order) |-> Watch(order[i], resume[order[i]])]
    BY <1>4
  <2>2. Count(q, t, Requests) = IF t \in listening THEN 1 ELSE 0
    BY <1>5, <2>1, CountOrder, SMTT(60)
  <2>3. PICK c : c = toClient' /\ c = <<>>
    BY <1>2, <1>3
  <2>4. Count(c, t, Answers) = 0
    <3>1. c \in Seq(Messages) /\ Len(c) = 0
      BY <2>3, EmptySeq
    <3>2. \A i \in 1 .. Len(c) : ~Hit(c[i], t, Answers)
      BY <3>1
    <3> QED
      BY <3>1, <3>2, CountNone
  <2> QED
    BY <1>7, <2>1, <2>2, <2>3, <2>4 DEF Flying
<1> QED
  BY <1>6, <1>8, OpenCount

LEMMA ServerRequestCount ==
    ASSUME WatchInv, CountInv, ServerWatch \/ ServerReject \/ ServerUnwatch
    PROVE  CountInv'
<1>1. /\ IsOpen(stream) /\ UNCHANGED remote
      /\ toServer # <<>> /\ toServer' = Tail(toServer)
  BY ServerRequestStep
<1>2. PICK op \in {"added", "removed", "error"} :
         /\ toClient' = Append(toClient, Message(op, Head(toServer).target, NoOne, 0))
         /\ op = "error" => Spend("errors")
         /\ op # "error" => budget' = budget
  BY ServerRequestStep
<1>3. /\ toServer \in Seq(TargetRequests) /\ toClient \in Seq(Messages)
      /\ NoErrors(toClient) /\ budget.errors = 0
      /\ \A t \in Targets : targetState[t].outstanding = Flying(toServer, toClient, t)
  BY <1>1, OpenFacts
<1>4. op # "error" /\ budget'.errors = 0
  <2>1. ~Spend("errors")
    BY <1>3 DEF Spend
  <2> QED
    BY <1>2, <1>3, <2>1
<1>5. PICK e \in TargetRequests : e = Head(toServer) /\ e.target \in Targets /\ e.op \in Requests
  BY <1>1, RequestTaken
<1>6. PICK m \in Messages : /\ m = Message(op, e.target, NoOne, 0)
                            /\ m.target = e.target /\ m.op = op
  <2>1. PICK t \in Targets : t = e.target
    BY <1>5
  <2>2. PICK m : m = Message(op, t, NoOne, 0)
    OBVIOUS
  <2>3. m \in Messages /\ m.target = t /\ m.op = op
    BY <2>2 DEF Message, Messages, TargetMessages
  <2> QED
    BY <2>1, <2>2, <2>3
<1>7. toClient' = Append(toClient, m) /\ NoErrors(toClient')
  BY <1>2, <1>3, <1>4, <1>5, <1>6, NoErrorsAppend
<1>8. ASSUME NEW t \in Targets PROVE targetState'[t].outstanding = Flying(toServer', toClient', t)
  <2>1. PICK k \in Nat : k = IF e.target = t THEN 1 ELSE 0
    OBVIOUS
  <2>2. Hit1(e, t, Requests) = k
    BY <1>5, <2>1 DEF Hit1, Hit
  <2>3. Hit1(m, t, Answers) = k
    BY <1>6, <2>1 DEF Hit1, Hit, Answers
  <2>4. Count(toServer', t, Requests) = Count(toServer, t, Requests) - k
    BY <1>1, <1>3, <1>5, <2>2, CountTail
  <2>5. Count(toClient', t, Answers) = Count(toClient, t, Answers) + k
    BY <1>3, <1>7, <2>3, CountAppend
  <2>6. PICK a \in Nat, b \in Nat : a = Count(toServer, t, Requests)
                                    /\ b = Count(toClient, t, Answers)
    BY <1>3, FlyingType
  <2>7. targetState'[t].outstanding = a + b
    BY <1>1, <1>3, <2>6 DEF Flying, remote
  <2>8. Flying(toServer', toClient', t) = (a - k) + (b + k)
    BY <2>4, <2>5, <2>6 DEF Flying
  <2> QED
    BY <2>7, <2>8
<1> QED
  BY <1>4, <1>7, <1>8, OpenCount

\* The backend sends messages that are no answers.
LEMMA PlainSent ==
    ASSUME WatchInv, CountInv, IsOpen(stream), UNCHANGED <<remote, toServer>>,
           budget'.errors = budget.errors, NEW seq \in Seq(Messages),
           toClient' = toClient \o seq, \A i \in 1 .. Len(seq) : seq[i].op \in Plain
    PROVE  CountInv'
<1>1. /\ toClient \in Seq(Messages)
      /\ NoErrors(toClient) /\ budget.errors = 0
      /\ \A t \in Targets :
            /\ targetState[t].outstanding = Flying(toServer, toClient, t)
            /\ targetState[t].outstanding \in Nat
      /\ toServer \in Seq(TargetRequests)
  BY OpenFacts
<1>2. NoErrors(seq)
  BY DEF NoErrors, Plain
<1>3. NoErrors(toClient')
  BY <1>1, <1>2, NoErrorsConcat
<1>4. ASSUME NEW t \in Targets PROVE targetState'[t].outstanding = Flying(toServer', toClient', t)
  <2>1. \A i \in 1 .. Len(seq) : ~Hit(seq[i], t, Answers)
    BY DEF Hit, Plain, Answers
  <2>2. Count(seq, t, Answers) = 0
    BY <2>1, CountNone
  <2>3. Count(toClient', t, Answers) = Count(toClient, t, Answers) + Count(seq, t, Answers)
    BY <1>1, CountConcat
  <2>4. Count(toClient, t, Answers) \in Nat
    BY <1>1, CountIs
  <2>5. Count(toClient', t, Answers) = Count(toClient, t, Answers)
    BY <2>2, <2>3, <2>4
  <2> QED
    BY <1>1, <2>5 DEF Flying, remote
<1> QED
  BY <1>1, <1>3, <1>4, OpenCount

LEMMA ServerMessageCount ==
    ASSUME WatchInv, CountInv, NEW t \in Targets,
           \/ \E d \in Docs : ServerAdd(t, d) \/ ServerRemove(t, d)
           \/ ServerCurrent(t)
           \/ ServerReset(t)
    PROVE  CountInv'
<1>1. /\ IsOpen(stream) /\ UNCHANGED <<remote, toServer>> /\ budget'.errors = budget.errors
  BY ServerMessageStep
<1>2. PICK m \in Messages : m.op \in Plain /\ toClient' = Append(toClient, m)
  BY ServerMessageStep
<1>3. PICK seq \in Seq(Messages) : /\ toClient' = toClient \o seq
                                   /\ \A i \in 1 .. Len(seq) : seq[i].op \in Plain
  <2>1. PICK c : c = <<m>> /\ c \in Seq(Messages) /\ Len(c) = 1 /\ c[1] = m
    BY OneSeq, Zenon
  <2>2. toClient \in Seq(Messages)
    BY DEF WatchInv, CallType
  <2>3. Append(toClient, m) = toClient \o c
    BY <2>1, <2>2
  <2>4. \A i \in 1 .. Len(c) : c[i].op \in Plain
    BY <1>2, <2>1
  <2> QED
    BY <1>2, <2>1, <2>3, <2>4
<1> QED
  BY <1>1, <1>3, PlainSent

LEMMA InitCount == Init /\ MaxErrors = 0 => CountInv
<1> SUFFICES ASSUME Init, MaxErrors = 0 PROVE CountInv
  OBVIOUS
<1>1. budget.errors = 0 /\ toClient = <<>> /\ stream = NewStream
  BY DEF Init
<1>2. NoErrors(toClient)
  BY <1>1, EmptySeq DEF NoErrors
<1>3. OutstandingIsInFlight
  BY <1>1 DEF OutstandingIsInFlight, NewStream, IsOpen
<1> QED
  BY <1>1, <1>2, <1>3 DEF CountInv

LEMMA NextCount == WatchInv /\ CountInv /\ WatchInv' /\ [Next]_vars => CountInv'
<1> SUFFICES ASSUME WatchInv, CountInv, WatchInv', [Next]_vars PROVE CountInv'
  OBVIOUS
<1>1. ASSUME NEW t \in Targets, Listen(t) \/ StopListening(t) PROVE CountInv'
  BY <1>1, ListenCount
<1>2. CASE EnableNetwork
  <2>1. UNCHANGED <<toServer, toClient>>
    BY <1>2 DEF EnableNetwork, backend
  <2>2. /\ budget'.errors = budget.errors /\ (IsOpen(stream') <=> IsOpen(stream))
        /\ IsOpen(stream) => UNCHANGED targetState
    BY <1>2, EnableStep
  <2> QED
    BY <2>1, <2>2, SameCount
<1>3. CASE DisableNetwork \/ HandleCredentialChange
  BY <1>3, StopStep, ClosedCount DEF CountInv
<1>4. CASE Restart
  BY <1>4, RestartStep, ClosedCount DEF CountInv
<1>5. CASE (\E r \in stream.requests : TokenErrorCallback(r)) \/ CallEnds \/ IdleTimeout
  BY <1>5, FailStep, ClosedCount DEF CountInv
<1>5a. CASE CallAborts
  <2>1. UNCHANGED <<stream, toServer, toClient, targetState>> /\ budget'.errors = budget.errors
    BY <1>5a, AbortStep DEF backend
  <2> QED
    BY <2>1, SameCount
<1>6. CASE OnlineStateTimeout
  <2>1. UNCHANGED <<stream, toServer, toClient, targetState, budget>>
    BY <1>6 DEF OnlineStateTimeout, backend
  <2> QED
    BY <2>1, SameCount
<1>7. ASSUME NEW r \in stream.requests, StaleTokenCallback(r) PROVE CountInv'
  <2>1. UNCHANGED <<toServer, toClient, targetState, budget>>
    BY <1>7 DEF StaleTokenCallback, backend
  <2>2. IsOpen(stream') <=> IsOpen(stream)
    BY <1>7, StaleTokenStep
  <2> QED
    BY <2>1, <2>2, SameCount
<1>8. ASSUME NEW r \in stream.requests, TokenCallback(r) PROVE CountInv'
  BY <1>8, TokenCount
<1>9. CASE BackoffTimeout
  <2>1. UNCHANGED <<toServer, toClient, targetState, budget>>
    BY <1>9 DEF BackoffTimeout, backend
  <2>2. IsOpen(stream') <=> IsOpen(stream)
    BY <1>9, BackoffStep
  <2> QED
    BY <2>1, <2>2, SameCount
<1>10. CASE OnTargetChange
  BY <1>10, TargetChangeCount
<1>11. CASE OnDocumentChange
  <2>1. Read({"add", "remove"})
    BY <1>11 DEF OnDocumentChange
  <2> QED
    BY <1>11, <2>1, DocumentChangeStep, ReadPlainCount
<1>12. CASE OnExistenceFilter
  <2>1. Read({"filter"})
    BY <1>12 DEF OnExistenceFilter
  <2> QED
    BY <1>12, <2>1, ExistenceFilterStep, ReadPlainCount
<1>13. CASE OnTargetError
  BY <1>13, TargetErrorCount
<1>14. CASE IgnoredSnapshot
  <2>1. Read({"snapshot"})
    BY <1>14 DEF IgnoredSnapshot
  <2> QED
    BY <1>14, <2>1, IgnoredSnapshotStep, ReadPlainCount
<1>15. CASE RaiseWatchSnapshot
  BY <1>15, RaiseCount
<1>16. CASE ServerWatch \/ ServerReject \/ ServerUnwatch
  BY <1>16, ServerRequestCount
<1>17. ASSUME NEW t \in Targets,
              \/ \E d \in Docs : ServerAdd(t, d) \/ ServerRemove(t, d)
              \/ ServerCurrent(t)
              \/ ServerReset(t)
       PROVE  CountInv'
  BY <1>17, ServerMessageCount
<1>18. CASE ServerSnapshot
  <2>1. IsOpen(stream) /\ UNCHANGED <<remote, toServer, budget>>
    BY <1>18, ServerSnapshotStep
  <2>2. PICK seq \in Seq(Messages) : /\ toClient' = toClient \o seq
                                     /\ \A i \in 1 .. Len(seq) : seq[i].op \in Plain
    BY <1>18, ServerSnapshotStep
  <2> QED
    BY <2>1, <2>2, PlainSent
<1>19. CASE \/ \E t \in Targets, d \in Docs : ServerElide(t, d) \/ BackendChange(t, d)
            \/ ServerCatchUp
  <2>1. UNCHANGED <<remote, toServer, toClient>> /\ budget'.errors = budget.errors
    BY <1>19, ResultsStep
  <2> QED
    BY <2>1, SameCount DEF remote
<1>20. CASE UNCHANGED vars
  <2>1. UNCHANGED <<stream, targetState, toServer, toClient, budget>>
    BY <1>20 DEF vars, remote, backend
  <2> QED
    BY <2>1, SameCount
<1>21. CASE Environment
  BY <1>1, <1>2, <1>3, <1>5, <1>5a, <1>6, <1>16, <1>17, <1>19, <1>21, EndsOrAborts
     DEF Environment
<1>22. CASE System
  BY <1>5, <1>7, <1>8, <1>9, <1>10, <1>11, <1>12, <1>13, <1>14, <1>15, <1>16, <1>17, <1>18,
     <1>19, <1>22 DEF System
<1> QED
  BY <1>4, <1>20, <1>21, <1>22 DEF Next

\* With a backend that rejects no target, WatchInv and CountInv hold together.
THEOREM CountInvariant ==
    ASSUME MaxErrors = 0
    PROVE  Spec => [](WatchInv /\ CountInv)
<1>1. Init => WatchInv /\ CountInv
  BY InitWatch, InitCount
<1>2. WatchInv /\ CountInv /\ [Next]_vars => (WatchInv /\ CountInv)'
  BY NextWatch, NextCount
<1> QED
  BY <1>1, <1>2, PTL DEF Spec

\* The outstanding responses of a target are the requests and answers in flight, as long as
\* the backend rejects no target.
THEOREM OutstandingIsExact ==
    ASSUME MaxErrors = 0
    PROVE  Spec => []OutstandingIsInFlight
<1>1. CountInv => OutstandingIsInFlight
  BY DEF CountInv
<1> QED
  BY <1>1, CountInvariant, PTL

-----------------------------------------------------------------------------
(* A backend that rejects no target and leaves no removal to a filter:     *)
(* the keys of a target are, wherever the client has them, the results at  *)
(* the version that the token next to them names.                          *)

\* The results that a resume token stands for.
KeysAt(h, token, t) == IF token = 0 THEN {} ELSE h[token][t]

\* The keys on disk go with the token on disk; those of a view with every token in memory.
StoredOK ==
    \A t \in Targets :
        /\ saved[t].token <= Version /\ saved[t].keys = KeysAt(history, saved[t].token, t)
        /\ query[t].token <= Version /\ resume[t] <= Version
        /\ t \in listening =>
            /\ view[t].keys = saved[t].keys
            /\ view[t].keys = KeysAt(history, query[t].token, t)
            /\ view[t].keys = KeysAt(history, resume[t], t)
            /\ view[t].current =>
                view[t].version \in 1 .. Version /\ view[t].keys = history[view[t].version][t]

\* A change that was noted is a change.
ChangesOK(s, keys) ==
    s.outstanding = 0 => Having(s, "removed") \subseteq keys /\ Having(s, "added") \cap keys = {}

\* No request about the target is on its way.
Unasked(requests, t) == \A i \in 1 .. Len(requests) : requests[i].target # t

\* Request i is the last one about its target: that one decides what the target will be.
IsLastRequest(requests, i) ==
    \A j \in i + 1 .. Len(requests) : requests[j].target # requests[i].target

RequestsOK ==
    \A i \in 1 .. Len(toServer) :
        LET r == toServer[i] IN
        /\ r.token <= Version
        /\ IsLastRequest(toServer, i) /\ r.target \in listening =>
            r.op = "watch" /\ view[r.target].keys = KeysAt(history, r.token, r.target)

\* Message m says whether document d is in target t.
Decides(m, t, d) ==
    /\ m.target = t
    /\ m.op \in {"added", "removed", "reset"} \/ (m.op \in {"add", "remove"} /\ m.doc = d)

\* Message i is the last one before position p that does; 0 if there is none.
IsLast(q, t, d, p, i) ==
    /\ i \in 0 .. p - 1
    /\ i # 0 => Decides(q[i], t, d)
    /\ \A j \in i + 1 .. p - 1 : ~Decides(q[j], t, d)

\* What it says, for a client whose view has these keys, is that d is in X or that it is not.
Agrees(m, keys, d, X) ==
    /\ m.op # "removed"
    /\ m.op = "add" => d \in X
    /\ m.op \in {"remove", "reset"} => d \notin X
    /\ m.op = "added" => (d \in keys <=> d \in X)

\* A client that has noted base, and whose view has the keys, has X when it has read the
\* messages before position p.
Played(q, base, keys, t, p, X) ==
    \A d \in Docs : \A i \in 0 .. Len(q) :
        IsLast(q, t, d, p, i) =>
            IF i = 0 THEN d \in base <=> d \in X ELSE Agrees(q[i], keys, d, X)

\* The target is active when the message at position p is read.
Settled(requests, q, t, p) ==
    Unasked(requests, t) /\ \A i \in p .. Len(q) : ~Hit(q[i], t, Answers)

Noted(t) == KeysAfter(targetState[t], view[t].keys)

\* What is in flight for an active target leads to what the backend has sent, and at every
\* snapshot to its results.
InFlightOK ==
    \A t \in listening :
        /\ Unasked(toServer, t) =>
            /\ server[t].stage # "none"
            /\ Played(toClient, Noted(t), view[t].keys, t, Len(toClient) + 1, server[t].sent)
        /\ \A p \in 1 .. Len(toClient) :
            toClient[p].op = "snapshot" /\ Settled(toServer, toClient, t, p) =>
                Played(toClient, Noted(t), view[t].keys, t, p, history[toClient[p].n][t])

\* A filter counts the results of the snapshot that follows it.
FiltersOK(q, h) ==
    \A p \in 1 .. Len(q) : q[p].op = "filter" => \E s \in p + 1 .. Len(q) :
        /\ q[s].op = "snapshot" /\ \A j \in p .. s - 1 : q[j].op = "filter"
        /\ q[p].n = Cardinality(h[q[s].n][q[p].target])

SnapshotsOK(q, h) == \A p \in 1 .. Len(q) : q[p].op = "snapshot" => q[p].n <= Len(h)

SnapshotInv ==
    /\ budget.elisions = 0 /\ resets = {}
    /\ StoredOK
    /\ \A t \in listening : ChangesOK(targetState[t], view[t].keys)
    /\ RequestsOK
    /\ FiltersOK(toClient, history) /\ SnapshotsOK(toClient, history)
    /\ IsOpen(stream) => InFlightOK

-----------------------------------------------------------------------------
(* Messages that are added and read.                                       *)

LEMMA CountZero ==
    ASSUME NEW S, NEW seq \in Seq(S), NEW t, NEW ops, Count(seq, t, ops) = 0
    PROVE  \A i \in 1 .. Len(seq) : ~Hit(seq[i], t, ops)
<1>1. IsFiniteSet(Hits(seq, t, ops)) /\ Cardinality(Hits(seq, t, ops)) = 0
  BY CountIs
<1>2. Hits(seq, t, ops) = {}
  BY <1>1, FS_EmptySet
<1> QED
  BY <1>2 DEF Hits

\* A target waits for nothing when nothing about it is in flight.
LEMMA FlyingZero ==
    ASSUME NEW q \in Seq(TargetRequests), NEW c \in Seq(Messages), NEW t
    PROVE  Flying(q, c, t) = 0 <=> Unasked(q, t) /\ \A i \in 1 .. Len(c) : ~Hit(c[i], t, Answers)
<1>1. Count(q, t, Requests) \in Nat /\ Count(c, t, Answers) \in Nat
  BY FlyingType
<1>2. ASSUME NEW i \in 1 .. Len(q) PROVE Hit(q[i], t, Requests) <=> q[i].target = t
  <2>1. q[i] \in TargetRequests
    BY ElementOfSeq
  <2> QED
    BY <2>1 DEF Hit, Requests, TargetRequests
<1>3. Count(q, t, Requests) = 0 <=> Unasked(q, t)
  BY <1>2, CountZero, CountNone DEF Unasked
<1>4. Count(c, t, Answers) = 0 <=> \A i \in 1 .. Len(c) : ~Hit(c[i], t, Answers)
  BY CountZero, CountNone
<1> QED
  BY <1>1, <1>3, <1>4 DEF Flying

LEMMA ActiveIs ==
    ASSUME WatchInv, CountInv, IsOpen(stream), NEW t \in Targets
    PROVE  targetState[t].outstanding = 0 <=>
           Unasked(toServer, t) /\ \A i \in 1 .. Len(toClient) : ~Hit(toClient[i], t, Answers)
BY OpenFacts, FlyingZero

LEMMA ActiveNext ==
    ASSUME WatchInv', CountInv', IsOpen(stream'), NEW t \in Targets
    PROVE  targetState'[t].outstanding = 0 <=>
           Unasked(toServer', t) /\ \A i \in 1 .. Len(toClient') : ~Hit(toClient'[i], t, Answers)
<1>1. targetState'[t].outstanding = Flying(toServer', toClient', t)
  BY DEF CountInv, OutstandingIsInFlight, Flying, Requests, Answers
<1>2. toServer' \in Seq(TargetRequests) /\ toClient' \in Seq(Messages)
  BY DEF WatchInv, CallType
<1> QED
  BY <1>1, <1>2, FlyingZero

\* Sequence r is q and more.
Extends(r, q) == Len(q) <= Len(r) /\ \A i \in 1 .. Len(q) : r[i] = q[i]

\* What was played up to a position is not changed by what is sent later, nor by messages
\* that say nothing about documents.
LEMMA PlayedOn ==
    ASSUME NEW q \in Seq(Messages), NEW r \in Seq(Messages), Extends(r, q),
           NEW base, NEW keys, NEW t, NEW X, NEW p \in 1 .. Len(q) + 1, NEW s \in p .. Len(r) + 1,
           \A d \in Docs : \A j \in p .. s - 1 : ~Decides(r[j], t, d),
           Played(q, base, keys, t, p, X)
    PROVE  Played(r, base, keys, t, s, X)
<1>1. Len(q) \in Nat /\ Len(r) \in Nat /\ Len(q) <= Len(r)
  BY DEF Extends
<1> SUFFICES ASSUME NEW d \in Docs, NEW i \in 0 .. Len(r), IsLast(r, t, d, s, i)
             PROVE  IF i = 0 THEN d \in base <=> d \in X ELSE Agrees(r[i], keys, d, X)
  BY DEF Played
<1>2. i < p
  BY <1>1 DEF IsLast
<1>3. i \in 0 .. Len(q) /\ (i # 0 => r[i] = q[i])
  BY <1>1, <1>2 DEF Extends
<1>4. \A j \in i + 1 .. p - 1 : r[j] = q[j] /\ ~Decides(r[j], t, d)
  BY <1>1, <1>3 DEF Extends, IsLast
<1>5. IsLast(q, t, d, p, i)
  BY <1>1, <1>2, <1>3, <1>4 DEF IsLast
<1> QED
  BY <1>3, <1>5 DEF Played

\* A message more is played.
LEMMA PlayedMore ==
    ASSUME NEW q \in Seq(Messages), NEW m \in Messages, NEW r, r = Append(q, m),
           NEW base, NEW keys, NEW t, NEW X, NEW Y,
           \A d \in Docs : IF Decides(m, t, d) THEN Agrees(m, keys, d, Y)
                           ELSE d \in X <=> d \in Y,
           (\A d \in Docs : Decides(m, t, d)) \/ Played(q, base, keys, t, Len(q) + 1, X)
    PROVE  Played(r, base, keys, t, Len(r) + 1, Y)
<1>1. PICK n \in Nat : n = Len(q)
  OBVIOUS
<1>2. Len(r) = n + 1 /\ r[n + 1] = m /\ \A i \in 1 .. n : r[i] = q[i]
  BY <1>1
<1> SUFFICES ASSUME NEW d \in Docs, NEW i \in 0 .. n + 1, IsLast(r, t, d, n + 2, i)
             PROVE  IF i = 0 THEN d \in base <=> d \in Y ELSE Agrees(r[i], keys, d, Y)
  BY <1>2 DEF Played
<1>3. CASE i = n + 1
  <2>1. Decides(m, t, d)
    BY <1>2, <1>3 DEF IsLast
  <2> QED
    BY <1>2, <1>3, <2>1
<1>4. CASE i # n + 1
  <2>1. i \in 0 .. n /\ (i # 0 => r[i] = q[i]) /\ n + 1 \in i + 1 .. n + 1
    BY <1>2, <1>4
  <2>2. ~Decides(m, t, d)
    BY <1>2, <2>1 DEF IsLast
  <2>3. \A j \in i + 1 .. (n + 1) - 1 : ~Decides(q[j], t, d)
    BY <1>2, <2>1 DEF IsLast
  <2>3a. i # 0 => Decides(q[i], t, d)
    BY <2>1 DEF IsLast
  <2>4. IsLast(q, t, d, n + 1, i)
    BY <2>1, <2>3, <2>3a DEF IsLast
  <2>5. IF i = 0 THEN d \in base <=> d \in X ELSE Agrees(q[i], keys, d, X)
    BY <1>1, <2>1, <2>2, <2>4 DEF Played
  <2>6. d \in X <=> d \in Y
    BY <2>2
  <2> QED
    BY <2>1, <2>5, <2>6 DEF Agrees
<1> QED
  BY <1>3, <1>4

\* A client that has noted base, and whose view has the keys, has noted new after message m.
Takes(m, t, base, keys, new) ==
    \A d \in Docs : IF Decides(m, t, d) THEN m.op = "removed" \/ Agrees(m, keys, d, new)
                    ELSE d \in new <=> d \in base

\* Sequence r is q without the first element.
Follows(r, q) == Len(q) = Len(r) + 1 /\ \A i \in 1 .. Len(r) : r[i] = q[i + 1]

\* The first message is read: what the others lead to stays.
LEMMA PlayedRest ==
    ASSUME NEW q \in Seq(Messages), NEW r \in Seq(Messages), Follows(r, q), NoErrors(r),
           NEW base, NEW keys, NEW t, NEW X, NEW p \in 1 .. Len(r) + 1,
           Played(q, base, keys, t, p + 1, X),
           \A i \in p .. Len(r) : ~Hit(r[i], t, Answers),
           NEW new, NEW newKeys,
           newKeys = keys \/ (\A i \in 1 .. Len(r) : ~Hit(r[i], t, Answers)),
           (\A i \in 1 .. Len(r) : ~Hit(r[i], t, Answers)) => Takes(q[1], t, base, keys, new)
    PROVE  Played(r, new, newKeys, t, p, X)
<1>1. PICK n \in Nat : n = Len(r)
  OBVIOUS
<1>2. Len(q) = n + 1 /\ \A i \in 1 .. n : r[i] = q[i + 1]
  BY <1>1 DEF Follows
<1> SUFFICES ASSUME NEW d \in Docs, NEW i \in 0 .. n, IsLast(r, t, d, p, i)
             PROVE  IF i = 0 THEN d \in new <=> d \in X ELSE Agrees(r[i], newKeys, d, X)
  BY <1>1 DEF Played
<1>3. \A j \in i + 2 .. p : ~Decides(q[j], t, d)
  <2> SUFFICES ASSUME NEW j \in i + 2 .. p PROVE ~Decides(q[j], t, d)
    OBVIOUS
  <2>1. j - 1 \in i + 1 .. p - 1 /\ j - 1 \in 1 .. n
    BY <1>1
  <2>2. r[j - 1] = q[j]
    BY <1>2, <2>1
  <2> QED
    BY <2>1, <2>2 DEF IsLast
<1>4. i < p
  BY DEF IsLast
<1>5. CASE i # 0
  <2>1. i + 1 \in 0 .. Len(q) /\ r[i] = q[i + 1] /\ Decides(r[i], t, d)
    BY <1>2, <1>5 DEF IsLast
  <2>2. IsLast(q, t, d, p + 1, i + 1)
    BY <1>3, <1>4, <2>1 DEF IsLast
  <2>3. Agrees(r[i], keys, d, X)
    BY <2>1, <2>2 DEF Played
  <2>4. CASE r[i].op = "added"
    <3>1. Hit(r[i], t, Answers) /\ i \in 1 .. Len(r)
      BY <1>1, <1>5, <2>1, <2>4 DEF Hit, Answers, Decides
    <3>2. newKeys = keys
      BY <3>1
    <3> QED
      BY <1>5, <2>3, <3>2
  <2> QED
    BY <1>5, <2>3, <2>4 DEF Agrees
<1>6. CASE i = 0
  <2>1. \A j \in 1 .. n : ~Hit(r[j], t, Answers)
    <3> SUFFICES ASSUME NEW j \in 1 .. n, Hit(r[j], t, Answers) PROVE FALSE
      OBVIOUS
    <3>1. j \in 1 .. p - 1
      BY <1>1
    <3>2. ~Decides(r[j], t, d)
      BY <1>6, <3>1 DEF IsLast
    <3>3. r[j].op # "error"
      BY <1>1 DEF NoErrors
    <3> QED
      BY <3>2, <3>3 DEF Hit, Answers, Decides
  <2>2. Takes(q[1], t, base, keys, new)
    BY <1>1, <2>1
  <2>3. CASE Decides(q[1], t, d)
    <3>1. IsLast(q, t, d, p + 1, 1)
      BY <1>3, <1>6, <2>3 DEF IsLast
    <3>2. Agrees(q[1], keys, d, X)
      BY <1>2, <3>1 DEF Played
    <3>3. q[1].op \in {"add", "remove", "reset", "added", "removed"}
      BY <2>3 DEF Decides
    <3> QED
      BY <1>6, <2>2, <2>3, <3>2, <3>3 DEF Takes, Agrees
  <2>4. CASE ~Decides(q[1], t, d)
    <3>1. \A j \in 1 .. p : ~Decides(q[j], t, d)
      BY <1>3, <1>6, <2>4
    <3>2. IsLast(q, t, d, p + 1, 0)
      BY <3>1 DEF IsLast
    <3>3. d \in base <=> d \in X
      BY <1>2, <3>2 DEF Played
    <3> QED
      BY <1>6, <2>2, <2>4, <3>3 DEF Takes
  <2> QED
    BY <2>3, <2>4
<1> QED
  BY <1>5, <1>6

-----------------------------------------------------------------------------
(* Steps that leave what was sent and noted as it is, or drop it.          *)

LEMMA NothingChanged ==
    ASSUME NEW s, s.changes = NoChanges, NEW keys
    PROVE  KeysAfter(s, keys) = keys /\ ChangesOK(s, keys)
BY DEF Having, NoChanges, KeysAfter, ChangesOK

LEMMA SpendElisions ==
    ASSUME budget \in Budget, NEW what \in Bounds, Spend(what), what # "elisions"
    PROVE  budget'.elisions = budget.elisions
<1>1. CASE what = "versions"
  BY <1>1 DEF Spend, Budget
<1>2. CASE what = "listens"
  BY <1>2 DEF Spend, Budget
<1>3. CASE what = "faults"
  BY <1>3 DEF Spend, Budget
<1>4. CASE what = "resets"
  BY <1>4 DEF Spend, Budget
<1>5. CASE what = "errors"
  BY <1>5 DEF Spend, Budget
<1>6. CASE what = "toggles"
  BY <1>6 DEF Spend, Budget
<1>7. CASE what = "restarts"
  BY <1>7 DEF Spend, Budget
<1> QED
  BY <1>1, <1>2, <1>3, <1>4, <1>5, <1>6, <1>7 DEF Bounds

\* No view gains documents or becomes current.
ViewsStay ==
    \A t \in Targets :
        /\ view'[t].keys = view[t].keys /\ view'[t].version = view[t].version
        /\ view'[t].current => view[t].current

LEMMA BroadcastStays ==
    ASSUME view \in [Targets -> Views], NEW o, Broadcast(o)
    PROVE  ViewsStay
<1>1. PICK b \in BOOLEAN : b = (o.state = "Offline" /\ online.state # "Offline")
  OBVIOUS
<1>2. view' = [t \in Targets |-> [view[t] EXCEPT !.current = @ /\ ~b]]
  BY <1>1 DEF Broadcast
<1>3. ASSUME NEW t \in Targets
      PROVE  /\ view'[t].keys = view[t].keys /\ view'[t].version = view[t].version
             /\ view'[t].current => view[t].current
  <2>1. PICK w \in Views : w = view[t]
    OBVIOUS
  <2>2. PICK c \in BOOLEAN : c = (w.current /\ ~b)
    OBVIOUS
  <2>3. view'[t] = [w EXCEPT !.current = c]
    BY <1>2, <2>1, <2>2 DEF Views
  <2>4. view'[t].keys = w.keys /\ view'[t].version = w.version /\ view'[t].current = c
    BY <2>3 DEF Views
  <2> QED
    BY <2>1, <2>2, <2>4
<1> QED
  BY <1>3 DEF ViewsStay

LEMMA StoredStays ==
    ASSUME StoredOK, ViewsStay, UNCHANGED <<saved, query, resume, listening, history>>
    PROVE  StoredOK'
BY DEF StoredOK, ViewsStay, Version

\* The stream is not open after the step.
LEMMA ClosedSnapshot ==
    ASSUME WatchInv', ~IsOpen(stream'), budget'.elisions = 0, StoredOK'
    PROVE  SnapshotInv'
<1>1. toServer' = <<>> /\ toClient' = <<>> /\ targetState' = NoTargets /\ resets' = {}
  BY DEF WatchInv, QuietOK
<1>2. \A t \in listening' : ChangesOK(targetState'[t], view'[t].keys)
  <2>1. \A t \in Targets : targetState'[t].changes = NoChanges
    BY <1>1, NoTargetOK DEF NoTargets
  <2>2. listening' \subseteq Targets
    BY DEF WatchInv, RemoteType
  <2> QED
    BY <2>1, <2>2, NothingChanged
<1>3. RequestsOK'
  BY <1>1, EmptySeq DEF RequestsOK
<1>4. FiltersOK(toClient', history') /\ SnapshotsOK(toClient', history')
  BY <1>1, EmptySeq DEF FiltersOK, SnapshotsOK
<1> QED
  BY <1>1, <1>2, <1>3, <1>4 DEF SnapshotInv

\* Nothing that the invariant is about changes, but that views may turn to cached ones.
LEMMA SameSnapshot ==
    ASSUME WatchInv, SnapshotInv, WatchInv', ViewsStay, budget'.elisions = budget.elisions,
           UNCHANGED <<saved, query, resume, listening, history, toServer, toClient, server>>,
           IsOpen(stream') <=> IsOpen(stream),
           IsOpen(stream) => UNCHANGED <<targetState, resets>>
    PROVE  SnapshotInv'
<1>1. StoredOK'
  BY StoredStays DEF SnapshotInv
<1>2. CASE ~IsOpen(stream)
  BY <1>1, <1>2, ClosedSnapshot DEF SnapshotInv
<1>3. CASE IsOpen(stream)
  <2>1. UNCHANGED <<targetState, resets>> /\ IsOpen(stream')
    BY <1>3
  <2>2. listening \subseteq Targets
    BY DEF WatchInv, RemoteType
  <2>3. \A t \in listening : view'[t].keys = view[t].keys /\ Noted(t)' = Noted(t)
    BY <2>1, <2>2 DEF ViewsStay, Noted
  <2>4. \A t \in listening' : ChangesOK(targetState'[t], view'[t].keys)
    BY <2>1, <2>3 DEF SnapshotInv
  <2>5. RequestsOK'
    BY <2>3 DEF SnapshotInv, RequestsOK, Version
  <2>6. InFlightOK'
    BY <1>3, <2>3 DEF SnapshotInv, InFlightOK
  <2> QED
    BY <1>1, <2>1, <2>4, <2>5, <2>6 DEF SnapshotInv
<1> QED
  BY <1>2, <1>3

LEMMA FailSnapshot ==
    ASSUME WatchInv, SnapshotInv, WatchInv',
           \/ \E r \in stream.requests : TokenErrorCallback(r)
           \/ CallEnds
           \/ IdleTimeout
    PROVE  SnapshotInv'
<1>1. ~IsOpen(stream')
  BY FailStep
<1>2. budget'.elisions = budget.elisions
  BY SpendElisions DEF TokenErrorCallback, CallEnds, StreamFails, IdleTimeout, Bounds, WatchInv,
                       CallType
<1>3. UNCHANGED <<saved, query, resume, listening, history>> /\ (view' = view \/ \E o : Broadcast(o))
  BY DEF TokenErrorCallback, CallEnds, StreamFails, IdleTimeout, CloseWatchStream, disk
<1>4. ViewsStay
  BY <1>3, BroadcastStays DEF WatchInv, StoreType, ViewsStay
<1> QED
  BY <1>1, <1>2, <1>3, <1>4, StoredStays, ClosedSnapshot DEF SnapshotInv

LEMMA AbortSnapshot ==
    ASSUME WatchInv, SnapshotInv, WatchInv', CallAborts
    PROVE  SnapshotInv'
<1>1. /\ Spend("faults")
      /\ UNCHANGED <<saved, query, view, listening, resume, history, toServer, toClient, server,
                     targetState, resets, stream>>
  BY AbortStep DEF disk, local, backend
<1>2. budget'.elisions = budget.elisions
  BY <1>1, SpendElisions DEF Bounds, WatchInv, CallType
<1>3. ViewsStay
  BY <1>1 DEF ViewsStay
<1> QED
  BY <1>1, <1>2, <1>3, SameSnapshot

LEMMA StopSnapshot ==
    ASSUME WatchInv, SnapshotInv, WatchInv', DisableNetwork \/ HandleCredentialChange
    PROVE  SnapshotInv'
<1>1. ~IsOpen(stream')
  BY StopStep
<1>2. budget'.elisions = budget.elisions
  BY SpendElisions DEF DisableNetwork, HandleCredentialChange, Bounds, WatchInv, CallType
<1>3. UNCHANGED <<saved, query, resume, listening, history>>
      /\ (view' = view \/ \E o : Broadcast(o))
  BY DEF DisableNetwork, HandleCredentialChange, disk, local
<1>4. ViewsStay
  BY <1>3, BroadcastStays DEF WatchInv, StoreType, ViewsStay
<1> QED
  BY <1>1, <1>2, <1>3, <1>4, StoredStays, ClosedSnapshot DEF SnapshotInv

LEMMA RestartSnapshot ==
    ASSUME WatchInv, SnapshotInv, WatchInv', Restart
    PROVE  SnapshotInv'
<1>1. ~IsOpen(stream')
  BY RestartStep
<1>2. budget'.elisions = budget.elisions
  BY SpendElisions DEF Restart, Bounds, WatchInv, CallType
<1>3. /\ UNCHANGED <<saved, history>> /\ listening' = {}
      /\ \A t \in Targets : query'[t].token = 0 /\ resume'[t] = 0
  BY DEF Restart, disk
<1>4. Version \in Nat
  BY DEF WatchInv, CallType, Version
<1>5. StoredOK'
  BY <1>3, <1>4 DEF SnapshotInv, StoredOK, Version
<1> QED
  BY <1>1, <1>2, <1>5, ClosedSnapshot DEF SnapshotInv

\* Steps of the stream and the tracker alone, and of the server's clock.
LEMMA QuietSnapshot ==
    ASSUME WatchInv, SnapshotInv, WatchInv',
           \/ EnableNetwork
           \/ OnlineStateTimeout
           \/ \E r \in stream.requests : StaleTokenCallback(r)
           \/ BackoffTimeout
           \/ ServerCatchUp
           \/ UNCHANGED vars
    PROVE  SnapshotInv'
<1>1. CASE EnableNetwork
  <2>1. UNCHANGED <<saved, query, view, resume, listening, history, toServer, toClient, server>>
    BY <1>1 DEF EnableNetwork, disk, local, backend
  <2>2. /\ IsOpen(stream') <=> IsOpen(stream)
        /\ IsOpen(stream) => UNCHANGED <<targetState, resets>>
    <3>1. (IsOpen(stream') <=> IsOpen(stream)) /\ (IsOpen(stream) => UNCHANGED targetState)
      BY <1>1, EnableStep
    <3>2. IsOpen(stream) => UNCHANGED resets
      BY <1>1 DEF EnableNetwork, StartWatchStreamIfNeeded, ShouldStartWatchStream, IsOpen,
                  IsStarted, WatchInv, StreamOK
    <3> QED
      BY <3>1, <3>2
  <2>3. budget'.elisions = budget.elisions
    BY <1>1, SpendElisions DEF EnableNetwork, Bounds, WatchInv, CallType
  <2>4. ViewsStay
    BY <2>1 DEF ViewsStay
  <2> QED
    BY <2>1, <2>2, <2>3, <2>4, SameSnapshot
<1>2. CASE OnlineStateTimeout
  <2>1. /\ UNCHANGED <<saved, query, resume, listening, history, toServer, toClient, server,
                       stream, targetState, resets, budget>>
        /\ Broadcast(online')
    BY <1>2 DEF OnlineStateTimeout, disk, backend
  <2>2. \E o : Broadcast(o)
    BY <2>1
  <2>3. ViewsStay
    BY <2>2, BroadcastStays DEF WatchInv, StoreType
  <2> QED
    BY <2>1, <2>3, SameSnapshot
<1>3. ASSUME NEW r \in stream.requests, StaleTokenCallback(r) PROVE SnapshotInv'
  <2>1. UNCHANGED <<saved, query, view, resume, listening, history, toServer, toClient, server,
                    targetState, resets, budget>>
    BY <1>3 DEF StaleTokenCallback, disk, local, backend
  <2>2. IsOpen(stream') <=> IsOpen(stream)
    BY <1>3, StaleTokenStep
  <2>3. ViewsStay
    BY <2>1 DEF ViewsStay
  <2> QED
    BY <2>1, <2>2, <2>3, SameSnapshot
<1>4. CASE BackoffTimeout
  <2>1. UNCHANGED <<saved, query, view, resume, listening, history, toServer, toClient, server,
                    targetState, resets, budget>>
    BY <1>4 DEF BackoffTimeout, disk, local, backend
  <2>2. IsOpen(stream') <=> IsOpen(stream)
    BY <1>4, BackoffStep
  <2>3. ViewsStay
    BY <2>1 DEF ViewsStay
  <2> QED
    BY <2>1, <2>2, <2>3, SameSnapshot
<1>5. CASE ServerCatchUp \/ UNCHANGED vars
  <2>1. UNCHANGED <<saved, query, view, resume, listening, history, toServer, toClient, server,
                    stream, targetState, resets, budget>>
    BY <1>5 DEF ServerCatchUp, vars, disk, local, remote, backend
  <2>2. ViewsStay
    BY <2>1 DEF ViewsStay
  <2> QED
    BY <2>1, <2>2, SameSnapshot
<1> QED
  BY <1>1, <1>2, <1>3, <1>4, <1>5

-----------------------------------------------------------------------------
(* Requests.                                                               *)

\* A request about target t is sent on the open stream: nothing that is in flight is played
\* to it any more.
LEMMA SendSnapshot ==
    ASSUME WatchInv, CountInv, SnapshotInv, IsOpen(stream), IsOpen(stream'), NEW t \in Targets,
           NEW request \in TargetRequests, request.target = t, Send(t, request),
           listening' \ {t} = listening \ {t}, request.token <= Version,
           t \in listening' =>
                request.op = "watch" /\ view'[t].keys = KeysAt(history, request.token, t),
           \A u \in Targets \ {t} : view'[u] = view[u],
           UNCHANGED <<toClient, server, history, resets>>, StoredOK',
           budget'.elisions = budget.elisions
    PROVE  SnapshotInv'
<1>1. /\ targetState'[t] = RecordPendingTargetRequest(targetState[t])
      /\ \A u \in Targets \ {t} : targetState'[u] = targetState[u]
      /\ toServer' = Append(toServer, request)
  BY SendOK DEF Send
<1>2. /\ toServer \in Seq(TargetRequests) /\ targetState[t].outstanding \in Nat
      /\ listening \subseteq Targets
  BY OpenFacts DEF WatchInv, RemoteType
<1>3. PICK n \in Nat : n = Len(toServer)
  BY <1>2
<1>4. PICK q : q = toServer'
  OBVIOUS
<1>5. Len(q) = n + 1 /\ q[n + 1] = request /\ \A i \in 1 .. n : q[i] = toServer[i]
  BY <1>1, <1>2, <1>3, <1>4
<1>6. \A u \in listening' : u = t \/ (u \in listening /\ u \in Targets \ {t})
  BY <1>2
<1>7. ASSUME NEW u \in listening' PROVE ChangesOK(targetState'[u], view'[u].keys)
  <2>1. CASE u = t
    <3>1. targetState'[t].outstanding = targetState[t].outstanding + 1
      BY <1>1, RecordOK DEF WatchInv, KnownOK
    <3> QED
      BY <1>2, <2>1, <3>1 DEF ChangesOK
  <2>2. CASE u # t
    BY <1>1, <1>6, <2>2 DEF SnapshotInv
  <2> QED
    BY <2>1, <2>2
<1>8. ASSUME NEW i \in 1 .. n + 1
      PROVE  /\ q[i].token <= Len(history)
             /\ IsLastRequest(q, i) /\ q[i].target \in listening' =>
                    /\ q[i].op = "watch"
                    /\ view'[q[i].target].keys = KeysAt(history, q[i].token, q[i].target)
  <2>1. CASE i = n + 1
    BY <1>5, <2>1 DEF Version
  <2>2. CASE i # n + 1
    <3>1. i \in 1 .. n /\ q[i] = toServer[i] /\ n + 1 \in i + 1 .. n + 1
      BY <1>5, <2>2
    <3>2. IsLastRequest(q, i) => q[i].target # t
      BY <1>5, <3>1 DEF IsLastRequest
    <3>3. IsLastRequest(q, i) => IsLastRequest(toServer, i)
      BY <1>3, <1>5, <3>1 DEF IsLastRequest
    <3>4. /\ toServer[i].token <= Len(history)
          /\ IsLastRequest(toServer, i) /\ toServer[i].target \in listening =>
                /\ toServer[i].op = "watch"
                /\ view[toServer[i].target].keys =
                        KeysAt(history, toServer[i].token, toServer[i].target)
      BY <1>3, <3>1 DEF SnapshotInv, RequestsOK, Version
    <3> QED
      BY <1>6, <3>1, <3>2, <3>3, <3>4
  <2> QED
    BY <2>1, <2>2
<1>9. RequestsOK'
  BY <1>4, <1>5, <1>8 DEF RequestsOK, Version
<1>10. ~Unasked(q, t) /\ \A u \in listening' : Unasked(q, u) => u # t /\ Unasked(toServer, u)
  BY <1>3, <1>5 DEF Unasked
<1>11. ASSUME NEW u \in listening', Unasked(q, u)
       PROVE  /\ u \in listening /\ Unasked(toServer, u)
              /\ view'[u] = view[u] /\ Noted(u)' = Noted(u)
  BY <1>1, <1>6, <1>10, <1>11 DEF Noted
<1>12. InFlightOK'
  <2> SUFFICES ASSUME NEW u \in listening', Unasked(q, u)
               PROVE  /\ server[u].stage # "none"
                      /\ Played(toClient, Noted(u)', view'[u].keys, u, Len(toClient) + 1,
                                server[u].sent)
                      /\ \A p \in 1 .. Len(toClient) :
                            /\ toClient[p].op = "snapshot"
                            /\ \A i \in p .. Len(toClient) : ~Hit(toClient[i], u, Answers)
                            => Played(toClient, Noted(u)', view'[u].keys, u, p,
                                      history[toClient[p].n][u])
    BY <1>4 DEF InFlightOK, Settled
  <2> QED
    BY <1>11 DEF SnapshotInv, InFlightOK, Settled
<1> QED
  BY <1>7, <1>9, <1>12 DEF SnapshotInv

LEMMA ListenSnapshot ==
    ASSUME WatchInv, CountInv, SnapshotInv, WatchInv', NEW t \in Targets, Listen(t)
    PROVE  SnapshotInv'
<1>1. /\ t \notin listening /\ listening' = listening \cup {t}
      /\ UNCHANGED <<saved, toClient, server, history>>
      /\ query' = [query EXCEPT ![t] = [token |-> saved[t].token, version |-> saved[t].version]]
      /\ resume' = [resume EXCEPT ![t] = saved[t].token]
      /\ view' = [view EXCEPT ![t] = [NoView EXCEPT !.keys = saved[t].keys]]
  BY DEF Listen, AllocateQuery, InitializeView, disk
<1>2. /\ query \in [Targets -> QueryData] /\ resume \in [Targets -> Nat]
      /\ view \in [Targets -> Views] /\ saved[t] \in Saved
  BY DEF WatchInv, StoreType, RemoteType
<1>3. /\ query'[t].token = saved[t].token /\ resume'[t] = saved[t].token
      /\ view'[t].keys = saved[t].keys /\ ~view'[t].current
      /\ \A u \in Targets \ {t} :
            query'[u] = query[u] /\ resume'[u] = resume[u] /\ view'[u] = view[u]
  BY <1>1, <1>2 DEF NoView
<1>4. StoredOK'
  BY <1>1, <1>3 DEF SnapshotInv, StoredOK, Version
<1>5. budget'.elisions = budget.elisions
  BY SpendElisions DEF Listen, Bounds, WatchInv, CallType
<1>6. /\ IsOpen(stream') <=> IsOpen(stream)
      /\ IsOpen(stream) => Send(t, Watch(t, saved[t].token))
  BY ListenStep
<1>7. CASE ~IsOpen(stream)
  BY <1>4, <1>5, <1>6, <1>7, ClosedSnapshot DEF SnapshotInv
<1>8. CASE IsOpen(stream)
  <2>1. PICK request : request = Watch(t, saved[t].token)
    OBVIOUS
  <2>2. /\ request \in TargetRequests /\ request.target = t /\ request.op = "watch"
        /\ request.token = saved[t].token
    BY <1>2, <2>1 DEF Watch, TargetRequests, Saved
  <2>3. saved[t].token <= Version /\ saved[t].keys = KeysAt(history, saved[t].token, t)
    BY DEF SnapshotInv, StoredOK
  <2>4. UNCHANGED resets
    BY <1>8 DEF Listen, ShouldStartWatchStream, IsStarted, IsOpen
  <2>5. listening' \ {t} = listening \ {t}
    BY <1>1
  <2> QED
    BY <1>1, <1>3, <1>4, <1>5, <1>6, <1>8, <2>1, <2>2, <2>3, <2>4, <2>5, SendSnapshot
<1> QED
  BY <1>7, <1>8

\* What the query data of a view names are the keys on disk, so it may be saved next to them.
LEMMA ReleaseSnapshot ==
    ASSUME WatchInv, SnapshotInv, NEW t \in listening, ReleaseQuery(t)
    PROVE  /\ saved'[t].keys = KeysAt(history, saved'[t].token, t)
           /\ saved'[t].token <= Version /\ query'[t].token = 0
           /\ \A u \in Targets \ {t} : saved'[u] = saved[u] /\ query'[u] = query[u]
<1>1. /\ t \in Targets /\ saved \in [Targets -> Saved] /\ query \in [Targets -> QueryData]
  BY DEF WatchInv, StoreType, RemoteType
<1>2. PICK s \in Saved : s = saved[t]
  BY <1>1
<1>3. PICK q \in QueryData : q = query[t]
  BY <1>1
<1>4. PICK n : n = IF q.version > s.version
                   THEN [s EXCEPT !.token = q.token, !.version = q.version] ELSE s
  OBVIOUS
<1>5. saved' = [saved EXCEPT ![t] = n]
  BY <1>1, <1>2, <1>3, <1>4 DEF ReleaseQuery
<1>6. query' = [query EXCEPT ![t] = [token |-> 0, version |-> 0]]
  BY DEF ReleaseQuery
<1>7. n.keys = s.keys /\ (n.token = q.token \/ n.token = s.token)
  BY <1>4 DEF Saved
<1>8. /\ s.keys = KeysAt(history, s.token, t) /\ s.keys = KeysAt(history, q.token, t)
      /\ s.token <= Version /\ q.token <= Version
  BY <1>1, <1>2, <1>3 DEF SnapshotInv, StoredOK
<1> QED
  BY <1>1, <1>5, <1>6, <1>7, <1>8

LEMMA StopListeningSnapshot ==
    ASSUME WatchInv, CountInv, SnapshotInv, WatchInv', NEW t \in Targets, StopListening(t)
    PROVE  SnapshotInv'
<1>1. /\ t \in listening /\ listening' = listening \ {t} /\ ReleaseQuery(t)
      /\ UNCHANGED <<toClient, server, history, resets, budget>>
      /\ resume' = [resume EXCEPT ![t] = 0] /\ view' = [view EXCEPT ![t] = NoView]
  BY DEF StopListening, RemoveAndCleanupQuery
<1>2. resume \in [Targets -> Nat] /\ view \in [Targets -> Views] /\ Version \in Nat
  BY DEF WatchInv, StoreType, RemoteType, CallType, Version
<1>3. /\ resume'[t] = 0
      /\ \A u \in Targets \ {t} : resume'[u] = resume[u] /\ view'[u] = view[u]
  BY <1>1, <1>2
<1>4. /\ saved'[t].keys = KeysAt(history, saved'[t].token, t)
      /\ saved'[t].token <= Version /\ query'[t].token = 0
      /\ \A u \in Targets \ {t} : saved'[u] = saved[u] /\ query'[u] = query[u]
  BY <1>1, ReleaseSnapshot
<1>5. StoredOK'
  BY <1>1, <1>2, <1>3, <1>4 DEF SnapshotInv, StoredOK, Version
<1>6. /\ IsOpen(stream') <=> IsOpen(stream)
      /\ IsOpen(stream) => Send(t, Unwatch(t))
  BY StopListeningStep
<1>7. CASE ~IsOpen(stream)
  BY <1>1, <1>5, <1>6, <1>7, ClosedSnapshot DEF SnapshotInv
<1>8. CASE IsOpen(stream)
  <2>1. PICK request : request = Unwatch(t)
    OBVIOUS
  <2>2. request \in TargetRequests /\ request.target = t /\ request.token <= Version
    BY <1>2, <2>1 DEF Unwatch, TargetRequests
  <2>3. listening' \ {t} = listening \ {t} /\ t \notin listening'
    BY <1>1
  <2> QED
    BY <1>1, <1>3, <1>5, <1>6, <1>8, <2>1, <2>2, <2>3, SendSnapshot
<1> QED
  BY <1>7, <1>8

\* The stream opens: every target is watched from the token of its view.
LEMMA TokenSnapshot ==
    ASSUME WatchInv, SnapshotInv, WatchInv', NEW r \in stream.requests, TokenCallback(r)
    PROVE  SnapshotInv'
<1>1. ~IsOpen(stream)
  BY TokenStep
<1>2. targetState = NoTargets /\ toClient = <<>>
  BY <1>1 DEF WatchInv, QuietOK
<1>3. /\ UNCHANGED <<saved, query, view, listening, resume, history, toClient, resets, budget>>
      /\ targetState' = [t \in Targets |->
            IF t \in listening THEN RecordPendingTargetRequest(targetState[t])
            ELSE targetState[t]]
  BY DEF TokenCallback, disk, local
<1>4. PICK order \in SetToSeqs(listening) :
          toServer' = [i \in 1 .. Len(order) |-> Watch(order[i], resume[order[i]])]
  BY DEF TokenCallback
<1>5. listening \in SUBSET Targets /\ IsFiniteSet(listening)
  BY WatchPathAssumption, FS_Subset DEF WatchInv, RemoteType
<1>6. order \in Seq(listening) /\ \A x \in listening : \E i \in 1 .. Len(order) : order[i] = x
  BY <1>5, OrderProps
<1>7. PICK n \in Nat : n = Len(order)
  BY <1>6
<1>8. PICK q : q = toServer'
  OBVIOUS
<1>9. /\ Len(q) = n
      /\ \A i \in 1 .. n : q[i] = Watch(order[i], resume[order[i]]) /\ order[i] \in listening
  BY <1>4, <1>6, <1>7, <1>8, ElementOfSeq
<1>10. StoredOK'
  BY <1>3 DEF SnapshotInv, StoredOK, Version
<1>11. ASSUME NEW i \in 1 .. n
       PROVE  /\ q[i].op = "watch" /\ q[i].target \in listening /\ q[i].token <= Len(history)
              /\ view[q[i].target].keys = KeysAt(history, q[i].token, q[i].target)
  <2>1. PICK t \in listening : t = order[i]
    BY <1>9
  <2>2. q[i].op = "watch" /\ q[i].target = t /\ q[i].token = resume[t]
    BY <1>9, <2>1 DEF Watch
  <2>3. resume[t] <= Len(history) /\ view[t].keys = KeysAt(history, resume[t], t)
    BY <1>5 DEF SnapshotInv, StoredOK, Version
  <2> QED
    BY <2>2, <2>3
<1>12. RequestsOK'
  BY <1>3, <1>8, <1>9, <1>11 DEF RequestsOK, Version
<1>13. ASSUME NEW t \in listening PROVE ~Unasked(q, t)
  <2>1. PICK i \in 1 .. n : order[i] = t
    BY <1>6, <1>7
  <2>2. q[i].target = t
    BY <1>9, <2>1 DEF Watch
  <2> QED
    BY <1>9, <2>2 DEF Unasked
<1>14. InFlightOK'
  BY <1>3, <1>8, <1>13 DEF InFlightOK, Settled
<1>15. ASSUME NEW t \in listening PROVE ChangesOK(targetState'[t], view'[t].keys)
  <2>1. PICK s : s = RecordPendingTargetRequest(NoTarget)
    OBVIOUS
  <2>2. s.changes = NoChanges
    BY <2>1, NoTargetOK, RecordOK
  <2>3. targetState'[t] = s
    BY <1>2, <1>3, <1>5, <2>1 DEF NoTargets
  <2> QED
    BY <2>2, <2>3, NothingChanged
<1> QED
  BY <1>3, <1>10, <1>12, <1>14, <1>15 DEF SnapshotInv

-----------------------------------------------------------------------------
(* Responses.                                                              *)

\* The first of the messages in flight is read.
LEMMA ReadsFirst ==
    ASSUME WatchInv, CountInv, NEW ops, Read(ops)
    PROVE  /\ toClient \in Seq(Messages) /\ toClient' \in Seq(Messages)
           /\ Follows(toClient', toClient) /\ Response = toClient[1] /\ Response.op \in ops
           /\ Response \in Messages /\ NoErrors(toClient') /\ IsOpen(stream)
           /\ Len(toClient) \in Nat /\ Len(toClient') \in Nat
<1>1. /\ toClient \in Seq(Messages) /\ toClient # <<>> /\ toClient' = Tail(toClient)
      /\ toClient' \in Seq(Messages) /\ Response \in Messages /\ IsOpen(stream)
      /\ Response.op \in ops
  BY ReadOK
<1>2. NoErrors(toClient')
  BY <1>1, NoErrorsTail DEF CountInv
<1>3. PICK r : r = Tail(toClient)
  OBVIOUS
<1>4. Len(r) = Len(toClient) - 1 /\ \A i \in 1 .. Len(r) : r[i] = toClient[i + 1]
  BY <1>1, <1>3, HeadTailProperties
<1>5. Len(toClient) \in Nat \ {0} /\ Head(toClient) = toClient[1]
  BY <1>1, EmptySeq
<1>6. Follows(r, toClient)
  BY <1>4, <1>5 DEF Follows
<1> QED
  BY <1>1, <1>2, <1>3, <1>5, <1>6 DEF Response

LEMMA FiltersRest ==
    ASSUME NEW q \in Seq(Messages), NEW r \in Seq(Messages), Follows(r, q), NEW h,
           FiltersOK(q, h), SnapshotsOK(q, h)
    PROVE  FiltersOK(r, h) /\ SnapshotsOK(r, h)
<1>1. PICK n \in Nat : n = Len(r)
  OBVIOUS
<1>2. Len(q) = n + 1 /\ \A i \in 1 .. n : r[i] = q[i + 1]
  BY <1>1 DEF Follows
<1>3. ASSUME NEW p \in 1 .. n, r[p].op = "filter"
      PROVE  \E s \in p + 1 .. n :
                /\ r[s].op = "snapshot" /\ \A j \in p .. s - 1 : r[j].op = "filter"
                /\ r[p].n = Cardinality(h[r[s].n][r[p].target])
  <2>1. p + 1 \in 1 .. Len(q) /\ q[p + 1] = r[p]
    BY <1>2
  <2>2. PICK s \in (p + 1) + 1 .. Len(q) :
            /\ q[s].op = "snapshot" /\ \A j \in p + 1 .. s - 1 : q[j].op = "filter"
            /\ q[p + 1].n = Cardinality(h[q[s].n][q[p + 1].target])
    BY <1>3, <2>1 DEF FiltersOK
  <2>3. PICK u : u = s - 1
    OBVIOUS
  <2>3a. u \in p + 1 .. n /\ s = u + 1
    BY <1>2, <2>3
  <2>4. r[u] = q[s]
    BY <1>2, <2>3a
  <2>5. ASSUME NEW j \in p .. u - 1 PROVE r[j].op = "filter"
    <3>1. j + 1 \in p + 1 .. s - 1 /\ j \in 1 .. n
      BY <2>3a
    <3> QED
      BY <1>2, <2>2, <3>1
  <2> QED
    BY <2>1, <2>2, <2>3a, <2>4, <2>5
<1>4. ASSUME NEW p \in 1 .. n, r[p].op = "snapshot" PROVE r[p].n <= Len(h)
  <2>1. p + 1 \in 1 .. Len(q) /\ q[p + 1] = r[p]
    BY <1>2
  <2> QED
    BY <1>4, <2>1 DEF SnapshotsOK
<1> QED
  BY <1>1, <1>3, <1>4 DEF FiltersOK, SnapshotsOK

\* What a read leaves in flight, if every target that is active after it takes the message.
LEMMA ReadFrame ==
    ASSUME WatchInv, CountInv, SnapshotInv, WatchInv', CountInv', NEW ops, Read(ops),
           IsOpen(stream'), UNCHANGED <<toServer, listening, server, history>>,
           \A t \in listening : targetState'[t].outstanding = 0 =>
                Takes(Response, t, Noted(t), view[t].keys, Noted(t)'),
           \A t \in listening :
                view'[t].keys = view[t].keys \/ targetState[t].outstanding = 0
    PROVE  /\ RequestsOK' /\ InFlightOK'
           /\ FiltersOK(toClient', history') /\ SnapshotsOK(toClient', history')
<1>1. PICK q \in Seq(Messages), r \in Seq(Messages) :
          /\ q = toClient /\ r = toClient' /\ Follows(r, q) /\ Response = q[1] /\ NoErrors(r)
          /\ IsOpen(stream)
  BY ReadsFirst
<1>2. PICK n \in Nat : n = Len(r)
  OBVIOUS
<1>3. Len(q) = n + 1 /\ \A i \in 1 .. n : r[i] = q[i + 1]
  BY <1>1, <1>2 DEF Follows
<1>4. listening \subseteq Targets
  BY DEF WatchInv, RemoteType
<1>5. FiltersOK(toClient', history') /\ SnapshotsOK(toClient', history')
  BY <1>1, FiltersRest DEF SnapshotInv
<1>6. ASSUME NEW t \in listening, ~Unasked(toServer, t) PROVE view'[t].keys = view[t].keys
  BY <1>1, <1>4, <1>6, ActiveIs
<1>7. RequestsOK'
  <2> SUFFICES ASSUME NEW i \in 1 .. Len(toServer)
               PROVE  /\ toServer[i].token <= Version
                      /\ IsLastRequest(toServer, i) /\ toServer[i].target \in listening =>
                          /\ toServer[i].op = "watch"
                          /\ view'[toServer[i].target].keys =
                                KeysAt(history, toServer[i].token, toServer[i].target)
    BY DEF RequestsOK, Version
  <2>1. ~Unasked(toServer, toServer[i].target)
    BY DEF Unasked
  <2> QED
    BY <1>6, <2>1 DEF SnapshotInv, RequestsOK
<1>8. ASSUME NEW t \in listening, Unasked(toServer, t), NEW p \in 1 .. n + 1, NEW X,
             Played(q, Noted(t), view[t].keys, t, p + 1, X),
             \A i \in p .. n : ~Hit(r[i], t, Answers)
      PROVE  Played(r, Noted(t)', view'[t].keys, t, p, X)
  <2>1. (\A i \in 1 .. Len(r) : ~Hit(r[i], t, Answers)) =>
            Takes(q[1], t, Noted(t), view[t].keys, Noted(t)')
    <3>1. (\A i \in 1 .. Len(r) : ~Hit(r[i], t, Answers)) => targetState'[t].outstanding = 0
      BY <1>1, <1>4, <1>8, ActiveNext
    <3> QED
      BY <1>1, <3>1
  <2>2. view'[t].keys = view[t].keys \/ (\A i \in 1 .. Len(r) : ~Hit(r[i], t, Answers))
    <3>1. CASE targetState[t].outstanding = 0
      <4>1. \A i \in 1 .. n + 1 : ~Hit(q[i], t, Answers)
        BY <1>1, <1>3, <1>4, <3>1, ActiveIs
      <4>2. \A i \in 1 .. n : i + 1 \in 1 .. n + 1
        OBVIOUS
      <4> QED
        BY <1>2, <1>3, <4>1, <4>2
    <3> QED
      BY <3>1
  <2>3. p \in 1 .. Len(r) + 1 /\ \A i \in p .. Len(r) : ~Hit(r[i], t, Answers)
    BY <1>2, <1>8
  <2> QED
    BY <1>1, <1>8, <2>1, <2>2, <2>3, PlayedRest
<1>9. ASSUME NEW t \in listening
      PROVE  /\ Unasked(toServer, t) =>
                  /\ server[t].stage # "none"
                  /\ Played(r, Noted(t)', view'[t].keys, t, n + 1, server[t].sent)
             /\ \A p \in 1 .. n : r[p].op = "snapshot" /\ Settled(toServer, r, t, p) =>
                  Played(r, Noted(t)', view'[t].keys, t, p, history[r[p].n][t])
  <2>1. ASSUME Unasked(toServer, t)
        PROVE  /\ server[t].stage # "none"
               /\ Played(r, Noted(t)', view'[t].keys, t, n + 1, server[t].sent)
    <3>1. /\ server[t].stage # "none"
          /\ Played(q, Noted(t), view[t].keys, t, (n + 1) + 1, server[t].sent)
      BY <1>1, <1>3, <2>1 DEF SnapshotInv, InFlightOK
    <3>2. n + 1 \in 1 .. n + 1 /\ \A i \in n + 1 .. n : ~Hit(r[i], t, Answers)
      OBVIOUS
    <3> QED
      BY <1>8, <2>1, <3>1, <3>2
  <2>2. ASSUME NEW p \in 1 .. n, r[p].op = "snapshot", Settled(toServer, r, t, p)
        PROVE  Played(r, Noted(t)', view'[t].keys, t, p, history[r[p].n][t])
    <3>1. Unasked(toServer, t) /\ \A i \in p .. n : ~Hit(r[i], t, Answers)
      BY <1>2, <2>2 DEF Settled
    <3>2. p + 1 \in 1 .. Len(q) /\ q[p + 1] = r[p]
      BY <1>3
    <3>3. ASSUME NEW i \in p + 1 .. Len(q) PROVE ~Hit(q[i], t, Answers)
      <4>1. PICK j \in p .. n : i = j + 1
        BY <1>3
      <4>2. j \in 1 .. n
        OBVIOUS
      <4> QED
        BY <1>3, <3>1, <4>1, <4>2
    <3>4. Settled(toServer, q, t, p + 1)
      BY <3>1, <3>3 DEF Settled
    <3>5. Played(q, Noted(t), view[t].keys, t, p + 1, history[q[p + 1].n][t])
      BY <1>1, <2>2, <3>2, <3>4 DEF SnapshotInv, InFlightOK
    <3>6. p \in 1 .. n + 1
      OBVIOUS
    <3> QED
      BY <1>8, <3>1, <3>2, <3>5, <3>6
  <2> QED
    BY <2>1, <2>2
<1>10. InFlightOK'
  BY <1>1, <1>2, <1>9 DEF InFlightOK
<1> QED
  BY <1>5, <1>7, <1>10

\* A response that is read while the stream stays as it is, and no view changes.
LEMMA ReadSnapshot ==
    ASSUME WatchInv, CountInv, SnapshotInv, WatchInv', CountInv', NEW ops, Read(ops),
           UNCHANGED <<saved, query, view, resume, listening, stream, toServer, server, history,
                       resets, budget>>,
           \A t \in listening : targetState'[t].outstanding = 0 =>
                /\ Takes(Response, t, Noted(t), view[t].keys, Noted(t)')
                /\ ChangesOK(targetState'[t], view[t].keys)
    PROVE  SnapshotInv'
<1>1. IsOpen(stream)
  BY ReadsFirst
<1>2. /\ RequestsOK' /\ InFlightOK'
      /\ FiltersOK(toClient', history') /\ SnapshotsOK(toClient', history')
  BY <1>1, ReadFrame
<1>3. StoredOK'
  BY DEF SnapshotInv, StoredOK, Version
<1>4. \A t \in listening' : ChangesOK(targetState'[t], view'[t].keys)
  BY DEF ChangesOK
<1> QED
  BY <1>2, <1>3, <1>4 DEF SnapshotInv

\* The message does not say which documents the target has, and no change is noted.
LEMMA Undecided ==
    ASSUME SnapshotInv, NEW t \in listening, \A d \in Docs : ~Decides(Response, t, d),
           targetState'[t].changes = targetState[t].changes,
           targetState'[t].outstanding = targetState[t].outstanding, UNCHANGED view
    PROVE  /\ Takes(Response, t, Noted(t), view[t].keys, Noted(t)')
           /\ ChangesOK(targetState'[t], view[t].keys)
<1>1. /\ Having(targetState'[t], "removed") = Having(targetState[t], "removed")
      /\ Having(targetState'[t], "added") = Having(targetState[t], "added")
  BY DEF Having
<1>2. Noted(t)' = Noted(t)
  BY <1>1 DEF Noted, KeysAfter
<1>3. ChangesOK(targetState[t], view[t].keys)
  BY DEF SnapshotInv
<1> QED
  BY <1>1, <1>2, <1>3 DEF Takes, ChangesOK

LEMMA ResetKeys ==
    ASSUME NEW keys \in SUBSET Docs
    PROVE  KeysAfter(ResetTarget(keys), keys) = {} /\ ChangesOK(ResetTarget(keys), keys)
<1>1. PICK c \in [Docs -> ChangeTypes] :
          c = [d \in Docs |-> IF d \in keys THEN "removed" ELSE "none"]
  BY DEF ChangeTypes
<1>2. NewTarget \in TargetStates
  BY NoTargetOK DEF StateOK
<1>3. PICK x : x = ResetTarget(keys)
  OBVIOUS
<1>4. x.changes = c
  BY <1>1, <1>2, <1>3 DEF ResetTarget, TargetStates
<1>5. Having(x, "removed") = keys /\ Having(x, "added") = {}
  BY <1>1, <1>4 DEF Having
<1> QED
  BY <1>3, <1>5 DEF KeysAfter, ChangesOK

LEMMA TargetChangeSnapshot ==
    ASSUME WatchInv, CountInv, SnapshotInv, WatchInv', CountInv', OnTargetChange
    PROVE  SnapshotInv'
<1>1. /\ Read({"added", "removed", "current", "reset"})
      /\ UNCHANGED <<saved, query, view, resume, listening, stream, toServer, server, history,
                     resets, budget>>
  BY DEF OnTargetChange, disk, local
<1>2. PICK m \in Messages : m = Response /\ m.op \in {"added", "removed", "current", "reset"}
  BY <1>1, ReadOK
<1>3. PICK t \in Targets : t = m.target
  BY <1>2, ResponseFields
<1>4. /\ targetState \in [Targets -> TargetStates] /\ StateOK(targetState[t])
      /\ view[t].keys \in SUBSET Docs /\ listening \subseteq Targets
  BY DEF WatchInv, RemoteType, KnownOK, StoreType, Views
<1>5. PICK s : s = EnsureTargetState(targetState[t])
  OBVIOUS
<1>6. /\ StateOK(s) /\ s.known /\ s.outstanding = targetState[t].outstanding
      /\ s.changes = targetState[t].changes
  BY <1>4, <1>5, EnsureOK
<1>7. PICK x :
         x = CASE m.op = "added"   -> TargetAdded(s)
               [] m.op = "removed" -> TargetRemoved(s)
               [] m.op = "current" /\ IsActiveTarget(t)
                                   -> UpdateResumeToken(MarkCurrent(s), m.n)
               [] m.op = "reset" /\ IsActiveTarget(t) -> ResetTarget(view[t].keys)
               [] OTHER            -> s
  OBVIOUS
<1>8. targetState' = [targetState EXCEPT ![t] = x]
  BY <1>2, <1>3, <1>5, <1>7 DEF OnTargetChange
<1>9. targetState'[t] = x /\ \A u \in Targets \ {t} : targetState'[u] = targetState[u]
  BY <1>4, <1>8
<1>10. ASSUME NEW u \in listening, u # t
       PROVE  /\ Takes(Response, u, Noted(u), view[u].keys, Noted(u)')
              /\ ChangesOK(targetState'[u], view[u].keys)
  <2>1. targetState'[u] = targetState[u]
    BY <1>4, <1>9, <1>10
  <2>2. \A d \in Docs : ~Decides(Response, u, d)
    BY <1>2, <1>3, <1>10 DEF Decides
  <2> QED
    BY <1>1, <2>1, <2>2, Undecided
<1>11. ASSUME t \in listening, x.outstanding = 0
       PROVE  /\ Takes(Response, t, Noted(t), view[t].keys, Noted(t)')
              /\ ChangesOK(targetState'[t], view[t].keys)
  <2>1. CASE m.op \in {"added", "removed"}
    <3>1. x.changes = NoChanges
      BY <1>6, <1>7, <1>11, <2>1, AnswerOK
    <3>2. KeysAfter(x, view[t].keys) = view[t].keys /\ ChangesOK(x, view[t].keys)
      BY <3>1, NothingChanged
    <3>3. Noted(t)' = view[t].keys
      BY <1>1, <1>9, <3>2 DEF Noted
    <3>4. Takes(m, t, Noted(t), view[t].keys, view[t].keys)
      BY <1>3, <2>1 DEF Takes, Decides, Agrees
    <3> QED
      BY <1>2, <1>9, <3>2, <3>3, <3>4
  <2>2. CASE m.op = "current"
    <3>1. x.changes = s.changes /\ x.outstanding = s.outstanding
      <4>1. CASE IsActiveTarget(t)
        <5>1. x = UpdateResumeToken(MarkCurrent(s), m.n)
          BY <1>7, <2>2, <4>1
        <5>2. m.n \in Nat
          BY ResponseFields
        <5>3. PICK c : c = MarkCurrent(s)
          OBVIOUS
        <5>4. StateOK(c) /\ c.known /\ c.outstanding = s.outstanding /\ c.changes = s.changes
          BY <1>6, <5>3, CurrentOK
        <5> QED
          BY <5>1, <5>2, <5>3, <5>4, TokenOK
      <4>2. CASE ~IsActiveTarget(t)
        BY <1>7, <2>2, <4>2
      <4> QED
        BY <4>1, <4>2
    <3>2. \A d \in Docs : ~Decides(Response, t, d)
      BY <1>2, <2>2 DEF Decides
    <3> QED
      BY <1>1, <1>6, <1>9, <1>11, <3>1, <3>2, Undecided
  <2>3. CASE m.op = "reset" /\ IsActiveTarget(t)
    <3>1. x = ResetTarget(view[t].keys)
      BY <1>7, <2>3
    <3>2. KeysAfter(x, view[t].keys) = {} /\ ChangesOK(x, view[t].keys)
      BY <1>4, <3>1, ResetKeys
    <3>3. Noted(t)' = {}
      BY <1>1, <1>9, <3>2 DEF Noted
    <3>4. Takes(m, t, Noted(t), view[t].keys, {})
      BY <1>3, <2>3 DEF Takes, Decides, Agrees
    <3> QED
      BY <1>2, <1>9, <3>2, <3>3, <3>4
  <2>4. CASE m.op = "reset" /\ ~IsActiveTarget(t)
    <3>1. x = s
      BY <1>7, <2>4
    <3>2. s.outstanding # 0
      BY <1>6, <1>11, <2>4 DEF IsActiveTarget, IsPending
    <3> QED
      BY <1>11, <3>1, <3>2
  <2> QED
    BY <1>2, <2>1, <2>2, <2>3, <2>4
<1> QED
  BY <1>1, <1>9, <1>10, <1>11, ReadSnapshot

\* A document that is sent or removed is one that is noted, or not.
LEMMA ChangeKeys ==
    ASSUME NEW s, StateOK(s), s.outstanding = 0, NEW d \in Docs, NEW keys \in SUBSET Docs,
           ChangesOK(s, keys)
    PROVE  /\ KeysAfter(AddDocumentToTarget(s, d, keys), keys) = KeysAfter(s, keys) \cup {d}
           /\ KeysAfter(RemoveDocumentFromTarget(s, d, keys), keys) = KeysAfter(s, keys) \ {d}
           /\ ChangesOK(AddDocumentToTarget(s, d, keys), keys)
           /\ ChangesOK(RemoveDocumentFromTarget(s, d, keys), keys)
<1>1. s \in TargetStates
  BY DEF StateOK
<1>2. PICK b \in [Docs -> ChangeTypes] : b = s.changes
  BY <1>1 DEF TargetStates
<1>3. \A e \in Docs : (b[e] = "removed" => e \in keys) /\ (b[e] = "added" => e \notin keys)
  BY <1>2 DEF ChangesOK, Having
<1>4. ASSUME NEW type \in ChangeTypes, type = "removed" => d \in keys,
             type = "added" => d \notin keys, NEW x, x = AddDocumentChange(s, d, type)
      PROVE  /\ Having(x, "removed") =
                   (Having(s, "removed") \ {d}) \cup (IF type = "removed" THEN {d} ELSE {})
             /\ Having(x, "added") =
                   (Having(s, "added") \ {d}) \cup (IF type = "added" THEN {d} ELSE {})
             /\ ChangesOK(x, keys)
  <2>1. PICK c : c = [b EXCEPT ![d] = type]
    OBVIOUS
  <2>2. c \in [Docs -> ChangeTypes] /\ c[d] = type /\ \A e \in Docs \ {d} : c[e] = b[e]
    BY <2>1
  <2>3. x = [s EXCEPT !.changes = c, !.dirty = TRUE]
    BY <1>1, <1>2, <1>4, <2>1 DEF AddDocumentChange, TargetStates
  <2>4. x.changes = c
    BY <1>1, <2>2, <2>3 DEF TargetStates
  <2>5. Having(x, "removed") =
            (Having(s, "removed") \ {d}) \cup (IF type = "removed" THEN {d} ELSE {})
    BY <1>2, <2>2, <2>4 DEF Having
  <2>6. Having(x, "added") =
            (Having(s, "added") \ {d}) \cup (IF type = "added" THEN {d} ELSE {})
    BY <1>2, <2>2, <2>4 DEF Having
  <2>7. \A e \in Docs : (c[e] = "removed" => e \in keys) /\ (c[e] = "added" => e \notin keys)
    BY <1>3, <1>4, <2>2
  <2>8. Having(x, "removed") \subseteq keys /\ Having(x, "added") \cap keys = {}
    BY <2>4, <2>7 DEF Having
  <2> QED
    BY <2>5, <2>6, <2>8 DEF ChangesOK
<1>5. /\ "added" \in ChangeTypes /\ "modified" \in ChangeTypes /\ "removed" \in ChangeTypes
      /\ "none" \in ChangeTypes
  BY DEF ChangeTypes
<1>6. PICK x : x = AddDocumentToTarget(s, d, keys)
  OBVIOUS
<1>7. PICK y : y = RemoveDocumentFromTarget(s, d, keys)
  OBVIOUS
<1>8. CASE d \in keys
  <2>1. /\ x = AddDocumentChange(s, d, "modified") /\ y = AddDocumentChange(s, d, "removed")
    BY <1>6, <1>7, <1>8 DEF AddDocumentToTarget, RemoveDocumentFromTarget
  <2>2. /\ Having(x, "removed") = Having(s, "removed") \ {d}
        /\ Having(x, "added") = Having(s, "added") \ {d} /\ ChangesOK(x, keys)
    BY <1>4, <1>5, <2>1
  <2>3. /\ Having(y, "removed") = (Having(s, "removed") \ {d}) \cup {d}
        /\ Having(y, "added") = Having(s, "added") \ {d} /\ ChangesOK(y, keys)
    BY <1>4, <1>5, <1>8, <2>1
  <2> QED
    BY <1>6, <1>7, <1>8, <2>2, <2>3 DEF KeysAfter
<1>9. CASE d \notin keys
  <2>1. /\ x = AddDocumentChange(s, d, "added") /\ y = AddDocumentChange(s, d, "none")
    BY <1>6, <1>7, <1>9 DEF AddDocumentToTarget, RemoveDocumentFromTarget
  <2>2. /\ Having(x, "removed") = Having(s, "removed") \ {d}
        /\ Having(x, "added") = (Having(s, "added") \ {d}) \cup {d} /\ ChangesOK(x, keys)
    BY <1>4, <1>5, <1>9, <2>1
  <2>3. /\ Having(y, "removed") = Having(s, "removed") \ {d}
        /\ Having(y, "added") = Having(s, "added") \ {d} /\ ChangesOK(y, keys)
    BY <1>4, <1>5, <2>1
  <2> QED
    BY <1>6, <1>7, <1>9, <2>2, <2>3 DEF KeysAfter
<1> QED
  BY <1>8, <1>9

LEMMA DocumentChangeSnapshot ==
    ASSUME WatchInv, CountInv, SnapshotInv, WatchInv', CountInv', OnDocumentChange
    PROVE  SnapshotInv'
<1>1. /\ Read({"add", "remove"})
      /\ UNCHANGED <<saved, query, view, resume, listening, stream, toServer, server, history,
                     resets, budget>>
  BY DEF OnDocumentChange, disk, local
<1>2. PICK m \in Messages : m = Response /\ m.op \in {"add", "remove"}
  BY <1>1, ReadOK
<1>3. PICK t \in Targets, d \in Docs : t = m.target /\ d = m.doc
  BY <1>2, ResponseFields
<1>4. /\ targetState \in [Targets -> TargetStates] /\ StateOK(targetState[t])
      /\ view[t].keys \in SUBSET Docs /\ listening \subseteq Targets
  BY DEF WatchInv, RemoteType, KnownOK, StoreType, Views
<1>5. PICK s : s = EnsureTargetState(targetState[t])
  OBVIOUS
<1>6. /\ StateOK(s) /\ s.known /\ s.outstanding = targetState[t].outstanding
      /\ s.changes = targetState[t].changes
  BY <1>4, <1>5, EnsureOK
<1>7. PICK x : x = IF ~IsActiveTarget(t) THEN targetState[t]
                   ELSE IF m.op = "add" THEN AddDocumentToTarget(s, d, view[t].keys)
                   ELSE RemoveDocumentFromTarget(s, d, view[t].keys)
  OBVIOUS
<1>8. targetState' = [targetState EXCEPT ![t] = x]
  BY <1>2, <1>3, <1>4, <1>5, <1>7 DEF OnDocumentChange
<1>9. targetState'[t] = x /\ \A u \in Targets \ {t} : targetState'[u] = targetState[u]
  BY <1>4, <1>8
<1>10. ASSUME NEW u \in listening, u # t
       PROVE  /\ Takes(Response, u, Noted(u), view[u].keys, Noted(u)')
              /\ ChangesOK(targetState'[u], view[u].keys)
  <2>1. targetState'[u] = targetState[u]
    BY <1>4, <1>9, <1>10
  <2>2. \A e \in Docs : ~Decides(Response, u, e)
    BY <1>2, <1>3, <1>10 DEF Decides
  <2> QED
    BY <1>1, <2>1, <2>2, Undecided
<1>11. ASSUME t \in listening, x.outstanding = 0
       PROVE  /\ Takes(Response, t, Noted(t), view[t].keys, Noted(t)')
              /\ ChangesOK(targetState'[t], view[t].keys)
  <2>1. CASE ~IsActiveTarget(t)
    BY <1>7, <1>11, <2>1 DEF IsActiveTarget, IsPending
  <2>2. CASE IsActiveTarget(t)
    <3>1. s.outstanding = 0
      BY <1>6, <2>2 DEF IsActiveTarget, IsPending
    <3>2. /\ Having(s, "removed") = Having(targetState[t], "removed")
          /\ Having(s, "added") = Having(targetState[t], "added")
      BY <1>6 DEF Having
    <3>3. KeysAfter(s, view[t].keys) = Noted(t)
      BY <3>2 DEF Noted, KeysAfter
    <3>4. ChangesOK(s, view[t].keys)
      BY <1>6, <1>11, <3>2 DEF SnapshotInv, ChangesOK
    <3>5. /\ m.op = "add" => KeysAfter(x, view[t].keys) = Noted(t) \cup {d}
          /\ m.op = "remove" => KeysAfter(x, view[t].keys) = Noted(t) \ {d}
          /\ ChangesOK(x, view[t].keys)
      BY <1>2, <1>4, <1>6, <1>7, <2>2, <3>1, <3>3, <3>4, ChangeKeys
    <3>6. Noted(t)' = KeysAfter(x, view[t].keys)
      BY <1>1, <1>9 DEF Noted
    <3>7. Takes(m, t, Noted(t), view[t].keys, KeysAfter(x, view[t].keys))
      BY <1>2, <1>3, <3>5 DEF Takes, Decides, Agrees
    <3> QED
      BY <1>2, <1>9, <3>5, <3>6, <3>7
  <2> QED
    BY <2>1, <2>2
<1> QED
  BY <1>1, <1>9, <1>10, <1>11, ReadSnapshot

\* The number that is compared with a filter is that of the documents noted.
LEMMA CountIsOfKeys ==
    ASSUME NEW s, NEW keys \in SUBSET Docs, s.outstanding = 0, ChangesOK(s, keys)
    PROVE  GetCurrentDocumentCountForTarget(s, keys) = Cardinality(KeysAfter(s, keys))
<1>1. PICK A : A = Having(s, "added")
  OBVIOUS
<1>2. PICK R : R = Having(s, "removed")
  OBVIOUS
<1>3. A \subseteq Docs /\ R \subseteq keys /\ A \cap keys = {}
  BY <1>1, <1>2 DEF ChangesOK, Having
<1>4. IsFiniteSet(A) /\ IsFiniteSet(keys) /\ IsFiniteSet(R)
  BY <1>3, WatchPathAssumption, FS_Subset
<1>5. PICK K : K = keys \ R
  OBVIOUS
<1>6. IsFiniteSet(K) /\ Cardinality(K) = Cardinality(keys) - Cardinality(R)
  <2>1. keys \cap R = R
    BY <1>3
  <2> QED
    BY <1>4, <1>5, <2>1, FS_Difference
<1>7. Cardinality(K \cup A) = Cardinality(K) + Cardinality(A)
  <2>1. K \cap A = {}
    BY <1>3, <1>5
  <2>2. Cardinality(K \cap A) = 0
    BY <2>1, FS_EmptySet
  <2>3. Cardinality(K \cup A) = Cardinality(K) + Cardinality(A) - Cardinality(K \cap A)
    BY <1>4, <1>6, FS_Union
  <2>4. Cardinality(K) \in Nat /\ Cardinality(A) \in Nat
    BY <1>4, <1>6, FS_CardinalityType
  <2> QED
    BY <2>2, <2>3, <2>4
<1>8. Cardinality(keys) \in Nat /\ Cardinality(A) \in Nat /\ Cardinality(R) \in Nat
  BY <1>4, FS_CardinalityType
<1>9. Cardinality(K \cup A) = Cardinality(keys) + Cardinality(A) - Cardinality(R)
  BY <1>6, <1>7, <1>8
<1> QED
  BY <1>1, <1>2, <1>5, <1>9 DEF GetCurrentDocumentCountForTarget, KeysAfter

\* At a snapshot that only filters precede, an active target has its results.
LEMMA ResultsNoted ==
    ASSUME WatchInv, CountInv, SnapshotInv, IsOpen(stream), NEW t \in listening,
           targetState[t].outstanding = 0, NEW s \in 1 .. Len(toClient),
           toClient[s].op = "snapshot", \A j \in 1 .. s - 1 : toClient[j].op = "filter"
    PROVE  /\ Noted(t) = history[toClient[s].n][t] /\ toClient[s].n \in 1 .. Version
           /\ toClient[s].n # 0
<1>1. t \in Targets /\ view[t].keys \in SUBSET Docs
  BY DEF WatchInv, RemoteType, StoreType, Views
<1>2. toClient \in Seq(Messages) /\ Len(toClient) \in Nat
  BY DEF WatchInv, CallType
<1>3. PICK m \in Messages : m = toClient[s]
  BY <1>2, ElementOfSeq
<1>4. m.n \in Nat /\ m.n # 0 /\ m.n <= Version /\ Version \in Nat
  BY <1>3, ResponseFields DEF SnapshotInv, SnapshotsOK, Version, WatchInv, CallType
<1>5. PICK X \in SUBSET Docs : X = history[m.n][t]
  <2>1. m.n \in 1 .. Len(history)
    BY <1>4 DEF Version
  <2> QED
    BY <1>1, <2>1, ServerTypes
<1>6. Unasked(toServer, t) /\ \A i \in 1 .. Len(toClient) : ~Hit(toClient[i], t, Answers)
  BY <1>1, ActiveIs
<1>7. Settled(toServer, toClient, t, s)
  BY <1>2, <1>6 DEF Settled
<1>8. Played(toClient, Noted(t), view[t].keys, t, s, X)
  BY <1>3, <1>5, <1>7 DEF SnapshotInv, InFlightOK
<1>9. ASSUME NEW d \in Docs PROVE d \in Noted(t) <=> d \in X
  <2>1. ASSUME NEW j \in 0 + 1 .. s - 1 PROVE ~Decides(toClient[j], t, d)
    BY <2>1 DEF Decides
  <2>2. IsLast(toClient, t, d, s, 0)
    BY <2>1 DEF IsLast
  <2>3. 0 \in 0 .. Len(toClient)
    BY <1>2
  <2> QED
    BY <1>8, <2>2, <2>3 DEF Played
<1>10. Noted(t) \subseteq Docs
  BY <1>1 DEF Noted, KeysAfter, Having
<1>11. Noted(t) = X
  BY <1>9, <1>10
<1> QED
  BY <1>3, <1>4, <1>5, <1>11

LEMMA ExistenceFilterSnapshot ==
    ASSUME WatchInv, CountInv, SnapshotInv, WatchInv', CountInv', OnExistenceFilter
    PROVE  SnapshotInv'
<1>1. /\ Read({"filter"})
      /\ UNCHANGED <<saved, query, view, resume, listening, stream, toServer, server, history,
                     budget>>
  BY DEF OnExistenceFilter, disk, local
<1>2. PICK m \in Messages : m = Response /\ m.op = "filter"
  BY <1>1, ReadOK
<1>3. PICK t \in Targets : t = m.target
  BY <1>2, ResponseFields
<1>4. /\ targetState \in [Targets -> TargetStates] /\ StateOK(targetState[t])
      /\ view[t].keys \in SUBSET Docs /\ listening \subseteq Targets
  BY DEF WatchInv, RemoteType, KnownOK, StoreType, Views
<1>5. ASSUME IsActiveTarget(t)
      PROVE  GetCurrentDocumentCountForTarget(targetState[t], view[t].keys) = m.n
  <2>1. t \in listening /\ targetState[t].outstanding = 0
    BY <1>5 DEF IsActiveTarget, IsPending
  <2>2. /\ m = toClient[1] /\ IsOpen(stream) /\ toClient \in Seq(Messages)
        /\ Len(toClient) \in Nat /\ Len(toClient) >= 1
    BY <1>1, <1>2, ReadsFirst DEF Follows
  <2>3. PICK s \in 1 + 1 .. Len(toClient) :
            /\ toClient[s].op = "snapshot" /\ \A j \in 1 .. s - 1 : toClient[j].op = "filter"
            /\ toClient[1].n = Cardinality(history[toClient[s].n][toClient[1].target])
    BY <1>2, <2>2 DEF SnapshotInv, FiltersOK
  <2>4. s \in 1 .. Len(toClient)
    BY <2>2
  <2>5. Noted(t) = history[toClient[s].n][t]
    BY <2>1, <2>2, <2>3, <2>4, ResultsNoted
  <2>6. ChangesOK(targetState[t], view[t].keys)
    BY <2>1 DEF SnapshotInv
  <2>7. GetCurrentDocumentCountForTarget(targetState[t], view[t].keys) = Cardinality(Noted(t))
    BY <1>4, <2>1, <2>6, CountIsOfKeys DEF Noted
  <2> QED
    BY <1>3, <2>2, <2>3, <2>5, <2>7
<1>6. PICK x : x = IF IsActiveTarget(t) THEN EnsureTargetState(targetState[t])
                   ELSE targetState[t]
  OBVIOUS
<1>7. targetState' = [targetState EXCEPT ![t] = x] /\ resets' = resets
  BY <1>2, <1>3, <1>4, <1>5, <1>6 DEF OnExistenceFilter
<1>8. x.changes = targetState[t].changes /\ x.outstanding = targetState[t].outstanding
  BY <1>4, <1>6, EnsureOK
<1>9. \A u \in listening : /\ targetState'[u].changes = targetState[u].changes
                           /\ targetState'[u].outstanding = targetState[u].outstanding
  BY <1>4, <1>7, <1>8
<1>10. \A u \in listening, d \in Docs : ~Decides(Response, u, d)
  BY <1>2 DEF Decides
<1> QED
  BY <1>1, <1>7, <1>9, <1>10, Undecided, ReadSnapshot

LEMMA IgnoredSnapshotSnapshot ==
    ASSUME WatchInv, CountInv, SnapshotInv, WatchInv', CountInv', IgnoredSnapshot
    PROVE  SnapshotInv'
<1>1. /\ Read({"snapshot"}) /\ targetState' = TokensNoted
      /\ UNCHANGED <<saved, query, view, resume, listening, stream, toServer, server, history,
                     resets, budget>>
  BY DEF IgnoredSnapshot, disk, local
<1>2. PICK m \in Messages : m = Response /\ m.op = "snapshot"
  BY <1>1, ReadOK
<1>3. PICK v \in Nat : v = Response.n
  BY <1>2, ResponseFields
<1>4. \A t \in Targets : /\ targetState'[t].outstanding = targetState[t].outstanding
                         /\ targetState'[t].changes = targetState[t].changes
  BY <1>1, <1>3, TokensNotedOK
<1>5. listening \subseteq Targets
  BY DEF WatchInv, RemoteType
<1>6. \A t \in listening, d \in Docs : ~Decides(Response, t, d)
  BY <1>2 DEF Decides
<1> QED
  BY <1>1, <1>4, <1>5, <1>6, Undecided, ReadSnapshot

\* The message of a snapshot carries a token for every active target that is known.
LEMMA TokensNotedFor ==
    ASSUME WatchInv, NEW v \in Nat \ {0}, v = Response.n, NEW t \in listening,
           targetState[t].outstanding = 0
    PROVE  /\ targetState[t].known => TokensNoted[t].dirty /\ TokensNoted[t].token = v
           /\ ~targetState[t].known =>
                ~TokensNoted[t].dirty /\ targetState[t].changes = NoChanges
<1>1. t \in Targets /\ StateOK(targetState[t]) /\ IsActiveTarget(t)
  BY DEF WatchInv, KnownOK, RemoteType, IsActiveTarget, IsPending
<1>2. PICK s : s = targetState[t]
  OBVIOUS
<1>3. s \in TargetStates /\ (~s.known => s = NoTarget)
  BY <1>1, <1>2 DEF StateOK
<1>4. CASE s.known
  <2>1. TokensNoted[t] = [s EXCEPT !.token = v, !.dirty = TRUE]
    BY <1>1, <1>2, <1>4 DEF TokensNoted, UpdateResumeToken
  <2> QED
    BY <1>2, <1>3, <1>4, <2>1 DEF TargetStates
<1>5. CASE ~s.known
  <2>1. TokensNoted[t] = NoTarget
    BY <1>1, <1>2, <1>3, <1>5 DEF TokensNoted
  <2>2. ~NoTarget.dirty
    BY DEF NoTarget, NewTarget
  <2> QED
    BY <1>2, <1>3, <1>5, <2>1, <2>2, NoTargetOK
<1> QED
  BY <1>4, <1>5

\* No target is watched again.
LEMMA NoneAgain ==
    ASSUME WatchInv, SnapshotInv, RaiseWatchSnapshot
    PROVE  toServer' = toServer /\ stream' = stream
<1>1. PICK rewatch : rewatch = resets \cap listening
  OBVIOUS
<1>2. rewatch = {} /\ stream' = IF rewatch = {} THEN stream ELSE WriteTo(stream)
  BY <1>1 DEF SnapshotInv, RaiseWatchSnapshot
<1>3. PICK order \in SetToSeqs(rewatch) : toServer' = toServer \o WatchAgain(order)
  BY <1>1 DEF RaiseWatchSnapshot
<1>4. order \in Seq({})
  BY <1>2, <1>3, OrderProps, FS_EmptySet
<1>5. Len(order) = 0
  BY <1>4
<1>6. WatchAgain(order) = <<>>
  BY <1>5 DEF WatchAgain
<1>7. toServer \in Seq(TargetRequests)
  BY DEF WatchInv, CallType
<1>8. toServer \o <<>> = toServer
  BY <1>7, ConcatEmptySeq
<1> QED
  BY <1>2, <1>3, <1>6, <1>8

\* The snapshot is raised: for a target that changes, the keys on disk and in the view are
\* the results at its version, and so is the token, on disk if it is worth it or else not
\* needed there.
LEMMA RaiseSnapshot ==
    ASSUME WatchInv, CountInv, SnapshotInv, WatchInv', CountInv', RaiseWatchSnapshot
    PROVE  SnapshotInv'
<1>1. PICK v : v = Response.n
  OBVIOUS
<1>2. PICK state : state = TokensNoted
  OBVIOUS
<1>3. PICK changed : changed = ChangedTargets(state)
  OBVIOUS
<1>4. resets \cap listening = {}
  BY DEF SnapshotInv
<1>5. /\ Read({"snapshot"})
      /\ resume' = [t \in Targets |->
            IF t \in changed /\ state[t].token # 0 THEN state[t].token ELSE resume[t]]
      /\ targetState' = [t \in Targets |->
            IF t \in changed THEN ClearPendingChanges(state[t]) ELSE state[t]]
      /\ resets' = {} /\ ApplyRemoteEvent(state, v) /\ EmitNewSnapshots(state, v)
      /\ UNCHANGED <<listening, server, history, budget>>
  BY <1>1, <1>2, <1>3, <1>4 DEF RaiseWatchSnapshot
<1>6. toServer' = toServer /\ stream' = stream
  BY NoneAgain
<1>7. PICK m \in Messages : m = Response /\ m.op = "snapshot" /\ m = toClient[1]
  BY <1>5, ReadsFirst
<1>8. v \in Nat \ {0} /\ IsOpen(stream) /\ 1 \in 1 .. Len(toClient)
  BY <1>1, <1>5, <1>7, ResponseFields, ReadsFirst DEF Follows
<1>9. listening \subseteq Targets
  BY DEF WatchInv, RemoteType
<1>10. ASSUME NEW t \in Targets
       PROVE  /\ StateOK(state[t]) /\ (state[t].dirty => state[t].known)
              /\ state[t].outstanding = targetState[t].outstanding
              /\ state[t].changes = targetState[t].changes
  BY <1>1, <1>2, <1>8, TokensNotedOK
<1>11. ASSUME NEW t \in changed
       PROVE  /\ t \in listening /\ t \in Targets /\ targetState[t].outstanding = 0
              /\ state[t].dirty /\ state[t].token = v
  <2>1. t \in listening /\ t \in Targets /\ targetState[t].outstanding = 0 /\ state[t].dirty
    BY <1>3, <1>9 DEF ChangedTargets, IsActiveTarget, IsPending
  <2> QED
    BY <1>1, <1>2, <1>8, <2>1, TokensNotedFor
<1>12. ASSUME NEW t \in changed
       PROVE  Noted(t) = history[v][t] /\ v \in 1 .. Version
  BY <1>1, <1>7, <1>8, <1>11, ResultsNoted
<1>13. ASSUME NEW t \in Targets
       PROVE  /\ targetState'[t].outstanding = targetState[t].outstanding
              /\ targetState'[t].changes =
                    IF t \in changed THEN NoChanges ELSE targetState[t].changes
  <2>1. CASE t \in changed
    <3>1. targetState'[t] = ClearPendingChanges(state[t])
      BY <1>5, <2>1
    <3> QED
      BY <1>10, <1>11, <2>1, <3>1, ClearOK
  <2>2. CASE t \notin changed
    <3>1. targetState'[t] = state[t]
      BY <1>5, <2>2
    <3> QED
      BY <1>10, <2>2, <3>1
  <2> QED
    BY <2>1, <2>2
<1>14. ASSUME NEW t \in Targets
       PROVE  KeysAfter(state[t], view[t].keys) = Noted(t)
  <2>1. /\ Having(state[t], "removed") = Having(targetState[t], "removed")
        /\ Having(state[t], "added") = Having(targetState[t], "added")
    BY <1>10 DEF Having
  <2> QED
    BY <2>1 DEF Noted, KeysAfter
<1>15. ASSUME NEW t \in Targets, t \notin changed
       PROVE  /\ view'[t] = view[t] /\ saved'[t] = saved[t] /\ query'[t] = query[t]
              /\ resume'[t] = resume[t]
  BY <1>3, <1>5, <1>15 DEF EmitNewSnapshots, ApplyRemoteEvent
<1>16. ASSUME NEW t \in changed
       PROVE  /\ view'[t].keys = Noted(t) /\ view'[t].version = v
              /\ query'[t].token = v /\ resume'[t] = v /\ saved'[t].keys = Noted(t)
              /\ saved'[t].token = v \/ (saved'[t].token = saved[t].token
                                         /\ Noted(t) = saved[t].keys)
  <2>1. t \in Targets /\ t \in listening /\ state[t].token = v /\ v # 0
    BY <1>8, <1>11
  <2>2. view'[t] = [keys |-> KeysAfter(state[t], view[t].keys), current |-> state[t].current,
                    version |-> v]
    BY <1>3, <1>5, <2>1 DEF EmitNewSnapshots
  <2>3. saved[t].keys = view[t].keys
    BY <2>1 DEF SnapshotInv, StoredOK
  <2>4. query'[t] = [token |-> v, version |-> v] /\ resume'[t] = v
    BY <1>3, <1>5, <2>1 DEF ApplyRemoteEvent
  <2>5. PICK worth \in BOOLEAN : worth = ShouldPersistQueryData(query[t], state[t], v)
    BY DEF ShouldPersistQueryData
  <2>6. saved'[t] = [token   |-> IF worth THEN v ELSE saved[t].token,
                     version |-> IF worth THEN v ELSE saved[t].version,
                     keys    |-> KeysAfter(state[t], saved[t].keys)]
    BY <1>3, <1>5, <2>1, <2>5 DEF ApplyRemoteEvent
  <2>7. ~worth => Noted(t) = saved[t].keys
    <3>1. ~worth => state[t].changes = NoChanges
      BY <2>5 DEF ShouldPersistQueryData
    <3>2. state[t].changes = NoChanges => KeysAfter(state[t], view[t].keys) = view[t].keys
      BY NothingChanged
    <3> QED
      BY <1>14, <2>1, <2>3, <3>1, <3>2
  <2>8. saved'[t].keys = Noted(t) /\ view'[t].keys = Noted(t)
    BY <1>14, <2>1, <2>2, <2>3, <2>6
  <2> QED
    BY <2>2, <2>4, <2>6, <2>7, <2>8
<1>17. StoredOK'
  <2> SUFFICES ASSUME NEW t \in Targets
               PROVE  /\ saved'[t].token <= Version
                      /\ saved'[t].keys = KeysAt(history, saved'[t].token, t)
                      /\ query'[t].token <= Version /\ resume'[t] <= Version
                      /\ t \in listening =>
                            /\ view'[t].keys = saved'[t].keys
                            /\ view'[t].keys = KeysAt(history, query'[t].token, t)
                            /\ view'[t].keys = KeysAt(history, resume'[t], t)
                            /\ view'[t].current =>
                                /\ view'[t].version \in 1 .. Version
                                /\ view'[t].keys = history[view'[t].version][t]
    BY <1>5 DEF StoredOK, Version
  <2>1. CASE t \notin changed
    BY <1>15, <2>1 DEF SnapshotInv, StoredOK
  <2>2. CASE t \in changed
    <3>1. Noted(t) = KeysAt(history, v, t) /\ v \in 1 .. Version /\ v <= Version
      BY <1>8, <1>12, <2>2 DEF KeysAt
    <3>2. saved[t].token <= Version /\ saved[t].keys = KeysAt(history, saved[t].token, t)
      BY DEF SnapshotInv, StoredOK
    <3> QED
      BY <1>12, <1>16, <2>2, <3>1, <3>2
  <2> QED
    BY <2>1, <2>2
<1>18. ASSUME NEW t \in listening
       PROVE  Noted(t)' = Noted(t) /\ ChangesOK(targetState'[t], view'[t].keys)
  <2>1. CASE t \in changed
    <3>1. targetState'[t].changes = NoChanges
      BY <1>9, <1>13, <2>1
    <3> QED
      BY <1>16, <2>1, <3>1, NothingChanged DEF Noted
  <2>2. CASE t \notin changed
    <3>1. view'[t] = view[t] /\ targetState'[t].changes = targetState[t].changes
          /\ targetState'[t].outstanding = targetState[t].outstanding
      BY <1>9, <1>13, <1>15, <2>2
    <3>2. /\ Having(targetState'[t], "removed") = Having(targetState[t], "removed")
          /\ Having(targetState'[t], "added") = Having(targetState[t], "added")
      BY <3>1 DEF Having
    <3>3. ChangesOK(targetState[t], view[t].keys)
      BY DEF SnapshotInv
    <3> QED
      BY <3>1, <3>2, <3>3 DEF Noted, KeysAfter, ChangesOK
  <2> QED
    BY <2>1, <2>2
<1>19. \A t \in listening : Takes(Response, t, Noted(t), view[t].keys, Noted(t)')
  BY <1>7, <1>18 DEF Takes, Decides
<1>20. \A t \in listening : view'[t].keys = view[t].keys \/ targetState[t].outstanding = 0
  BY <1>9, <1>11, <1>15
<1>21. /\ RequestsOK' /\ InFlightOK'
       /\ FiltersOK(toClient', history') /\ SnapshotsOK(toClient', history')
  BY <1>5, <1>6, <1>8, <1>19, <1>20, ReadFrame
<1> QED
  BY <1>5, <1>17, <1>18, <1>21 DEF SnapshotInv

-----------------------------------------------------------------------------
(* The backend.                                                            *)

LEMMA FiltersOn ==
    ASSUME NEW q \in Seq(Messages), NEW r \in Seq(Messages), Extends(r, q), NEW h,
           FiltersOK(q, h), SnapshotsOK(q, h),
           \A p \in Len(q) + 1 .. Len(r) :
              /\ r[p].op = "snapshot" => r[p].n <= Len(h)
              /\ r[p].op = "filter" => \E s \in p + 1 .. Len(r) :
                    /\ r[s].op = "snapshot" /\ \A j \in p .. s - 1 : r[j].op = "filter"
                    /\ r[p].n = Cardinality(h[r[s].n][r[p].target])
    PROVE  FiltersOK(r, h) /\ SnapshotsOK(r, h)
<1>1. PICK k \in Nat, n \in Nat : k = Len(q) /\ n = Len(r)
  OBVIOUS
<1>2. k <= n /\ \A i \in 1 .. k : r[i] = q[i]
  BY <1>1 DEF Extends
<1>3. ASSUME NEW p \in 1 .. k, r[p].op = "filter"
      PROVE  \E s \in p + 1 .. n :
                /\ r[s].op = "snapshot" /\ \A j \in p .. s - 1 : r[j].op = "filter"
                /\ r[p].n = Cardinality(h[r[s].n][r[p].target])
  <2>1. PICK s \in p + 1 .. k :
            /\ q[s].op = "snapshot" /\ \A j \in p .. s - 1 : q[j].op = "filter"
            /\ q[p].n = Cardinality(h[q[s].n][q[p].target])
    BY <1>1, <1>2, <1>3 DEF FiltersOK
  <2>2. s \in p + 1 .. n /\ r[s] = q[s] /\ r[p] = q[p] /\ \A j \in p .. s - 1 : r[j] = q[j]
    BY <1>2
  <2> QED
    BY <2>1, <2>2
<1>4. \A p \in 1 .. k : r[p].op = "snapshot" => r[p].n <= Len(h)
  BY <1>1, <1>2 DEF SnapshotsOK
<1>5. \A p \in 1 .. n : p \in 1 .. k \/ p \in k + 1 .. n
  OBVIOUS
<1> QED
  BY <1>1, <1>3, <1>4, <1>5 DEF FiltersOK, SnapshotsOK

\* The backend says something, about target or in answer to its request; the client has
\* not heard it yet.
LEMMA SentSnapshot ==
    ASSUME WatchInv, CountInv, SnapshotInv, WatchInv', IsOpen(stream), RequestsOK',
           UNCHANGED <<saved, query, view, resume, listening, targetState, resets, stream,
                       history>>, budget'.elisions = budget.elisions,
           NEW m \in Messages, m.op \notin {"snapshot", "filter"},
           toClient' = Append(toClient, m),
           \A t \in listening : Unasked(toServer', t) =>
              /\ server'[t].stage # "none"
              /\ \A d \in Docs : IF Decides(m, t, d)
                                 THEN Agrees(m, view[t].keys, d, server'[t].sent)
                                 ELSE d \in server[t].sent <=> d \in server'[t].sent
              /\ \/ Unasked(toServer, t)
                 \/ Hit(m, t, Answers) /\ \A d \in Docs : Decides(m, t, d)
    PROVE  SnapshotInv'
<1>1. PICK q \in Seq(Messages) : q = toClient
  BY DEF WatchInv, CallType
<1>2. PICK r \in Seq(Messages) : r = toClient' /\ r = Append(q, m)
  BY <1>1 DEF WatchInv, CallType
<1>3. PICK n \in Nat : n = Len(q)
  OBVIOUS
<1>4. Len(r) = n + 1 /\ r[n + 1] = m /\ \A i \in 1 .. n : r[i] = q[i]
  BY <1>2, <1>3
<1>5. Extends(r, q)
  BY <1>3, <1>4 DEF Extends
<1>6. FiltersOK(r, history) /\ SnapshotsOK(r, history)
  <2>1. ASSUME NEW p \in Len(q) + 1 .. Len(r)
        PROVE  r[p].op # "snapshot" /\ r[p].op # "filter"
    <3>1. p = n + 1
      BY <1>3, <1>4
    <3> QED
      BY <1>4, <3>1
  <2>2. FiltersOK(q, history) /\ SnapshotsOK(q, history)
    BY <1>1 DEF SnapshotInv
  <2> QED
    BY <1>5, <2>1, <2>2, FiltersOn
<1>7. ASSUME NEW t \in listening, Unasked(toServer', t)
      PROVE  Played(r, Noted(t), view[t].keys, t, (n + 1) + 1, server'[t].sent)
  <2>1. (\A d \in Docs : Decides(m, t, d))
        \/ Played(q, Noted(t), view[t].keys, t, Len(q) + 1, server[t].sent)
    BY <1>1, <1>7 DEF SnapshotInv, InFlightOK
  <2>1a. \A d \in Docs : IF Decides(m, t, d) THEN Agrees(m, view[t].keys, d, server'[t].sent)
                         ELSE d \in server[t].sent <=> d \in server'[t].sent
    BY <1>7
  <2>1b. PICK base, keys, X, Y : /\ base = Noted(t) /\ keys = view[t].keys
                                /\ X = server[t].sent /\ Y = server'[t].sent
    OBVIOUS
  <2>1c. Played(r, base, keys, t, Len(r) + 1, Y)
    <3>1. \A d \in Docs : IF Decides(m, t, d) THEN Agrees(m, keys, d, Y)
                          ELSE d \in X <=> d \in Y
      BY <2>1a, <2>1b
    <3>2. (\A d \in Docs : Decides(m, t, d)) \/ Played(q, base, keys, t, Len(q) + 1, X)
      BY <2>1, <2>1b
    <3>3. r = Append(q, m)
      BY <1>2
    <3> QED
      BY <3>1, <3>2, <3>3, PlayedMore
  <2>2. Played(r, Noted(t), view[t].keys, t, Len(r) + 1, server'[t].sent)
    BY <2>1b, <2>1c
  <2> QED
    BY <1>4, <2>2
<1>8. ASSUME NEW t \in listening, NEW p \in 1 .. n + 1, r[p].op = "snapshot",
             Settled(toServer', r, t, p)
      PROVE  Played(r, Noted(t), view[t].keys, t, p, history[r[p].n][t])
  <2>1. p \in 1 .. n /\ r[p] = q[p]
    BY <1>4, <1>8
  <2>2. Unasked(toServer', t) /\ \A i \in p .. n + 1 : ~Hit(r[i], t, Answers)
    BY <1>4, <1>8 DEF Settled
  <2>3. ~Hit(m, t, Answers)
    BY <1>4, <2>2
  <2>4. Unasked(toServer, t)
    BY <2>2, <2>3
  <2>5. \A i \in p .. n : ~Hit(q[i], t, Answers)
    BY <1>4, <2>2
  <2>6. Settled(toServer, q, t, p)
    BY <1>3, <2>4, <2>5 DEF Settled
  <2>7. Played(q, Noted(t), view[t].keys, t, p, history[r[p].n][t])
    BY <1>1, <1>3, <1>8, <2>1, <2>6 DEF SnapshotInv, InFlightOK
  <2>8. p \in 1 .. Len(q) + 1 /\ p \in p .. Len(r) + 1
    BY <1>3, <1>4
  <2>9. \A d \in Docs : \A j \in p .. p - 1 : ~Decides(r[j], t, d)
    OBVIOUS
  <2> QED
    BY <1>5, <2>7, <2>8, <2>9, PlayedOn
<1>9. \A t \in listening : Noted(t)' = Noted(t)
  BY DEF Noted
<1>10. InFlightOK'
  BY <1>2, <1>4, <1>7, <1>8, <1>9 DEF InFlightOK
<1>11. StoredOK'
  BY DEF SnapshotInv, StoredOK, Version
<1> QED
  BY <1>2, <1>6, <1>10, <1>11 DEF SnapshotInv

\* The requests that are left when the first one is taken.
LEMMA RequestsRest ==
    ASSUME WatchInv, SnapshotInv, toServer # <<>>, toServer' = Tail(toServer),
           UNCHANGED <<view, listening, history>>
    PROVE  /\ RequestsOK'
           /\ \A t : Unasked(toServer', t) =>
                 IF Head(toServer).target = t THEN IsLastRequest(toServer, 1)
                 ELSE Unasked(toServer, t)
           /\ Head(toServer) = toServer[1] /\ 1 \in 1 .. Len(toServer)
<1>1. PICK q \in Seq(TargetRequests) : q = toServer /\ q # <<>>
  BY DEF WatchInv, CallType
<1>2. PICK r : r = toServer'
  OBVIOUS
<1>3. PICK n \in Nat : n = Len(r)
  BY <1>1, <1>2, HeadTailProperties
<1>4. Len(q) = n + 1 /\ Head(q) = q[1] /\ \A i \in 1 .. n : r[i] = q[i + 1]
  BY <1>1, <1>2, <1>3, HeadTailProperties, EmptySeq
<1>5. ASSUME NEW i \in 1 .. n
      PROVE  /\ r[i].token <= Version
             /\ IsLastRequest(r, i) /\ r[i].target \in listening =>
                  r[i].op = "watch" /\ view[r[i].target].keys = KeysAt(history, r[i].token, r[i].target)
  <2>1. i + 1 \in 1 .. Len(q) /\ r[i] = q[i + 1]
    BY <1>4
  <2>2. ASSUME IsLastRequest(r, i) PROVE IsLastRequest(q, i + 1)
    <3> SUFFICES ASSUME NEW j \in (i + 1) + 1 .. n + 1 PROVE q[j].target # q[i + 1].target
      BY <1>4 DEF IsLastRequest
    <3>1. j - 1 \in i + 1 .. n /\ r[j - 1] = q[j]
      BY <1>4
    <3> QED
      BY <1>3, <2>1, <2>2, <3>1 DEF IsLastRequest
  <2> QED
    BY <1>1, <2>1, <2>2 DEF SnapshotInv, RequestsOK
<1>6. RequestsOK'
  BY <1>2, <1>3, <1>5 DEF RequestsOK, Version
<1>7. ASSUME NEW t, Unasked(r, t)
      PROVE  IF q[1].target = t THEN IsLastRequest(q, 1) ELSE Unasked(q, t)
  <2>1. ASSUME NEW j \in 2 .. n + 1 PROVE q[j].target # t
    <3>1. j - 1 \in 1 .. n /\ r[j - 1] = q[j]
      BY <1>4
    <3> QED
      BY <1>3, <1>7, <3>1 DEF Unasked
  <2>2. \A j \in 1 .. n + 1 : j = 1 \/ j \in 2 .. n + 1
    OBVIOUS
  <2>3. q[1].target = t => IsLastRequest(q, 1)
    BY <1>4, <2>1 DEF IsLastRequest
  <2>4. q[1].target # t => Unasked(q, t)
    BY <1>4, <2>1, <2>2 DEF Unasked
  <2> QED
    BY <2>3, <2>4
<1>8. 1 \in 1 .. Len(q)
  BY <1>4
<1> QED
  BY <1>1, <1>2, <1>4, <1>6, <1>7, <1>8

LEMMA ServerRequestSnapshot ==
    ASSUME WatchInv, CountInv, SnapshotInv, WatchInv', CountInv',
           ServerWatch \/ ServerReject \/ ServerUnwatch
    PROVE  SnapshotInv'
<1>1. /\ toServer # <<>> /\ toServer' = Tail(toServer) /\ IsOpen(stream)
      /\ UNCHANGED <<saved, query, view, resume, listening, targetState, resets, stream, history>>
  BY ServerRequestStep DEF ServerWatch, ServerReject, ServerUnwatch, Answer, disk, local, remote
<1>2. PICK request \in TargetRequests : request = Head(toServer)
  BY <1>1, RequestTaken
<1>3. PICK t \in Targets : t = request.target
  BY <1>2 DEF TargetRequests
<1>4. /\ RequestsOK'
      /\ \A u : Unasked(toServer', u) =>
            IF u = t THEN IsLastRequest(toServer, 1) ELSE Unasked(toServer, u)
      /\ request = toServer[1] /\ 1 \in 1 .. Len(toServer)
  BY <1>1, <1>2, <1>3, RequestsRest
<1>5. t \in listening /\ IsLastRequest(toServer, 1) =>
          request.op = "watch" /\ view[t].keys = KeysAt(history, request.token, t)
  BY <1>3, <1>4 DEF SnapshotInv, RequestsOK
<1>6. server \in [Targets -> Service] /\ Unserved \in Service /\ listening \subseteq Targets
  BY ServerTypes DEF WatchInv, RemoteType
<1>7. ~ServerReject
  BY DEF ServerReject, Spend, CountInv
<1>8. CASE ServerWatch
  <2>1. PICK had : had = KeysAt(history, request.token, t)
    OBVIOUS
  <2>2. server' = [server EXCEPT ![t] = [Unserved EXCEPT !.stage = "loading", !.sent = had,
                                                         !.filterDue = request.token # 0]]
    BY <1>2, <1>3, <1>8, <2>1 DEF ServerWatch, KeysAt
  <2>3. /\ server'[t].stage = "loading" /\ server'[t].sent = had
        /\ \A u \in Targets \ {t} : server'[u] = server[u]
    BY <1>6, <2>2 DEF Unserved
  <2>4. PICK m : m = Message("added", t, NoOne, 0)
    OBVIOUS
  <2>5. /\ m \in Messages /\ m.op = "added" /\ m.target = t
        /\ toClient' = Append(toClient, m) /\ budget' = budget
    <3>1. /\ m \in Messages /\ m.op = "added" /\ m.target = t
      BY <2>4 DEF Message, Messages, TargetMessages
    <3>2. toClient' = toClient \o <<m>> /\ budget' = budget
      BY <1>2, <1>3, <1>8, <2>4 DEF ServerWatch, Answer, Reply
    <3>3. toClient \in Seq(Messages)
      BY DEF WatchInv, CallType
    <3> QED
      BY <3>1, <3>2, <3>3
  <2>6. ASSUME NEW u \in listening, Unasked(toServer', u)
        PROVE  /\ server'[u].stage # "none"
               /\ \A d \in Docs : IF Decides(m, u, d)
                                  THEN Agrees(m, view[u].keys, d, server'[u].sent)
                                  ELSE d \in server[u].sent <=> d \in server'[u].sent
               /\ \/ Unasked(toServer, u)
                  \/ Hit(m, u, Answers) /\ \A d \in Docs : Decides(m, u, d)
    <3>1. CASE u = t
      <4>1. view[t].keys = had
        BY <1>4, <1>5, <2>1, <2>6, <3>1
      <4>2. Hit(m, t, Answers) /\ \A d \in Docs : Decides(m, t, d)
        BY <2>5 DEF Hit, Answers, Decides
      <4>3. \A d \in Docs : Agrees(m, had, d, had)
        BY <2>5 DEF Agrees
      <4> QED
        BY <2>3, <3>1, <4>1, <4>2, <4>3
    <3>2. CASE u # t
      <4>1. Unasked(toServer, u) /\ server'[u] = server[u] /\ \A d \in Docs : ~Decides(m, u, d)
        BY <1>4, <1>6, <2>3, <2>5, <2>6, <3>2 DEF Decides
      <4>2. server[u].stage # "none"
        BY <1>1, <4>1 DEF SnapshotInv, InFlightOK
      <4> QED
        BY <4>1, <4>2
    <3> QED
      BY <3>1, <3>2
  <2> QED
    BY <1>1, <1>4, <2>5, <2>6, SentSnapshot
<1>9. CASE ServerUnwatch
  <2>1. server' = [server EXCEPT ![t] = Unserved]
    BY <1>2, <1>3, <1>9 DEF ServerUnwatch
  <2>2. \A u \in Targets \ {t} : server'[u] = server[u]
    BY <1>6, <2>1
  <2>3. PICK m : m = Message("removed", t, NoOne, 0)
    OBVIOUS
  <2>4. /\ m \in Messages /\ m.op = "removed" /\ m.target = t
        /\ toClient' = Append(toClient, m) /\ budget' = budget
    <3>1. /\ m \in Messages /\ m.op = "removed" /\ m.target = t
      BY <2>3 DEF Message, Messages, TargetMessages
    <3>2. toClient' = toClient \o <<m>> /\ budget' = budget
      BY <1>2, <1>3, <1>9, <2>3 DEF ServerUnwatch, Answer, Reply
    <3>3. toClient \in Seq(Messages)
      BY DEF WatchInv, CallType
    <3> QED
      BY <3>1, <3>2, <3>3
  <2>5. request.op = "unwatch"
    BY <1>2, <1>9 DEF ServerUnwatch
  <2>6. ASSUME NEW u \in listening, Unasked(toServer', u)
        PROVE  /\ server'[u].stage # "none"
               /\ \A d \in Docs : IF Decides(m, u, d)
                                  THEN Agrees(m, view[u].keys, d, server'[u].sent)
                                  ELSE d \in server[u].sent <=> d \in server'[u].sent
               /\ \/ Unasked(toServer, u)
                  \/ Hit(m, u, Answers) /\ \A d \in Docs : Decides(m, u, d)
    <3>1. u # t
      BY <1>4, <1>5, <2>5, <2>6
    <3>2. Unasked(toServer, u) /\ server'[u] = server[u] /\ \A d \in Docs : ~Decides(m, u, d)
      BY <1>4, <1>6, <2>2, <2>4, <2>6, <3>1 DEF Decides
    <3>3. server[u].stage # "none"
      BY <1>1, <3>2 DEF SnapshotInv, InFlightOK
    <3> QED
      BY <3>2, <3>3
  <2> QED
    BY <1>1, <1>4, <2>4, <2>6, SentSnapshot
<1> QED
  BY <1>7, <1>8, <1>9

LEMMA ServerMessageSnapshot ==
    ASSUME WatchInv, CountInv, SnapshotInv, WatchInv', CountInv', NEW t \in Targets,
           \/ \E d \in Docs : ServerAdd(t, d) \/ ServerRemove(t, d)
           \/ ServerCurrent(t)
           \/ ServerReset(t)
    PROVE  SnapshotInv'
<1>1. /\ IsOpen(stream) /\ UNCHANGED toServer
      /\ UNCHANGED <<saved, query, view, resume, listening, targetState, resets, stream, history>>
  BY ServerMessageStep DEF ServerAdd, ServerRemove, ServerCurrent, ServerReset, Answer, disk,
                           local, remote
<1>2. RequestsOK'
  BY <1>1 DEF SnapshotInv, RequestsOK, Version
<1>3. /\ server \in [Targets -> Service] /\ Unserved \in Service /\ listening \subseteq Targets
      /\ toClient \in Seq(Messages) /\ seen \in Nat \ {0}
  BY ServerTypes DEF WatchInv, RemoteType
<1>4. PICK s \in Service : s = server[t]
  BY <1>3
<1>5. ASSUME NEW m \in Messages, m.op \in {"add", "remove", "current", "reset"}, m.target = t,
             toClient' = toClient \o <<m>>, budget'.elisions = budget.elisions,
             NEW e \in Service, server' = [server EXCEPT ![t] = e], e.stage # "none",
             \A d \in Docs : IF Decides(m, t, d)
                             THEN \A keys : Agrees(m, keys, d, e.sent)
                             ELSE d \in s.sent <=> d \in e.sent
      PROVE  SnapshotInv'
  <2>1. toClient' = Append(toClient, m)
    BY <1>3, <1>5
  <2>2. server'[t] = e /\ \A u \in Targets \ {t} : server'[u] = server[u]
    BY <1>3, <1>5
  <2>3. ASSUME NEW u \in listening, Unasked(toServer', u)
        PROVE  /\ server'[u].stage # "none"
               /\ \A d \in Docs : IF Decides(m, u, d)
                                  THEN Agrees(m, view[u].keys, d, server'[u].sent)
                                  ELSE d \in server[u].sent <=> d \in server'[u].sent
               /\ Unasked(toServer, u)
    <3>1. Unasked(toServer, u)
      BY <1>1, <2>3
    <3>2. CASE u = t
      BY <1>4, <1>5, <2>2, <3>1, <3>2
    <3>3. CASE u # t
      <4>1. server'[u] = server[u] /\ \A d \in Docs : ~Decides(m, u, d)
        BY <1>3, <1>5, <2>2, <3>3 DEF Decides
      <4>2. server[u].stage # "none"
        BY <1>1, <3>1 DEF SnapshotInv, InFlightOK
      <4> QED
        BY <3>1, <4>1, <4>2
    <3> QED
      BY <3>2, <3>3
  <2>4. m.op \notin {"snapshot", "filter"}
    BY <1>5
  <2> QED
    BY <1>1, <1>2, <1>5, <2>1, <2>3, <2>4, SentSnapshot
<1>6. ASSUME NEW d \in Docs, ServerAdd(t, d) PROVE SnapshotInv'
  <2>1. PICK m : m = Message("add", t, d, 0)
    OBVIOUS
  <2>2. PICK e : e = [s EXCEPT !.sent = s.sent \cup {d}]
    OBVIOUS
  <2>3. /\ m \in Messages /\ m.op = "add" /\ m.target = t /\ m.doc = d
    BY <2>1 DEF Message, Messages, DocumentMessages
  <2>4. /\ toClient' = toClient \o <<m>> /\ budget' = budget /\ s.stage # "none"
        /\ server' = [server EXCEPT ![t].sent = @ \cup {d}]
    BY <1>4, <1>6, <2>1 DEF ServerAdd, Answer, Reply, Served
  <2>5. server' = [server EXCEPT ![t] = e]
    BY <1>3, <1>4, <2>2, <2>4 DEF Service
  <2>6. e \in Service /\ e.stage = s.stage /\ e.sent = s.sent \cup {d}
    BY <2>2 DEF Service
  <2>7. \A c \in Docs : IF Decides(m, t, c) THEN \A keys : Agrees(m, keys, c, e.sent)
                        ELSE c \in s.sent <=> c \in e.sent
    BY <2>3, <2>6 DEF Decides, Agrees
  <2> QED
    BY <1>5, <2>3, <2>4, <2>5, <2>6, <2>7
<1>7. ASSUME NEW d \in Docs, ServerRemove(t, d) PROVE SnapshotInv'
  <2>1. PICK m : m = Message("remove", t, d, 0)
    OBVIOUS
  <2>2. PICK e : e = [s EXCEPT !.sent = s.sent \ {d}]
    OBVIOUS
  <2>3. /\ m \in Messages /\ m.op = "remove" /\ m.target = t /\ m.doc = d
    BY <2>1 DEF Message, Messages, DocumentMessages
  <2>4. /\ toClient' = toClient \o <<m>> /\ budget' = budget /\ s.stage # "none"
        /\ server' = [server EXCEPT ![t].sent = @ \ {d}]
    BY <1>4, <1>7, <2>1 DEF ServerRemove, Answer, Reply, Served
  <2>5. server' = [server EXCEPT ![t] = e]
    BY <1>3, <1>4, <2>2, <2>4 DEF Service
  <2>6. e \in Service /\ e.stage = s.stage /\ e.sent = s.sent \ {d}
    BY <2>2 DEF Service
  <2>7. \A c \in Docs : IF Decides(m, t, c) THEN \A keys : Agrees(m, keys, c, e.sent)
                        ELSE c \in s.sent <=> c \in e.sent
    BY <2>3, <2>6 DEF Decides, Agrees
  <2> QED
    BY <1>5, <2>3, <2>4, <2>5, <2>6, <2>7
<1>8. CASE ServerCurrent(t)
  <2>1. PICK m : m = Message("current", t, NoOne, seen)
    OBVIOUS
  <2>2. PICK e : e = [s EXCEPT !.stage = "current"]
    OBVIOUS
  <2>3. m \in Messages /\ m.op = "current" /\ m.target = t
    BY <1>3, <2>1 DEF Message, Messages, TargetMessages
  <2>4. /\ toClient' = toClient \o <<m>> /\ budget' = budget
        /\ server' = [server EXCEPT ![t].stage = "current"]
    BY <1>8, <2>1 DEF ServerCurrent, Answer, Reply
  <2>5. server' = [server EXCEPT ![t] = e]
    BY <1>3, <1>4, <2>2, <2>4 DEF Service
  <2>6. e \in Service /\ e.stage # "none" /\ e.sent = s.sent
    BY <2>2 DEF Service
  <2>7. \A c \in Docs : IF Decides(m, t, c) THEN \A keys : Agrees(m, keys, c, e.sent)
                        ELSE c \in s.sent <=> c \in e.sent
    BY <2>3, <2>6 DEF Decides
  <2> QED
    BY <1>5, <2>3, <2>4, <2>5, <2>6, <2>7
<1>9. CASE ServerReset(t)
  <2>1. PICK m : m = Message("reset", t, NoOne, 0)
    OBVIOUS
  <2>2. PICK e : e = [Unserved EXCEPT !.stage = "loading"]
    OBVIOUS
  <2>3. m \in Messages /\ m.op = "reset" /\ m.target = t
    BY <2>1 DEF Message, Messages, TargetMessages
  <2>4. /\ toClient' = toClient \o <<m>> /\ Spend("resets")
        /\ server' = [server EXCEPT ![t] = e]
    BY <1>9, <2>1, <2>2 DEF ServerReset, Answer, Reply
  <2>5. budget'.elisions = budget.elisions
    BY <2>4, SpendElisions DEF Bounds, WatchInv, CallType
  <2>6. e \in Service /\ e.stage # "none" /\ e.sent = {}
    BY <2>2 DEF Service, Unserved
  <2>7. \A c \in Docs : IF Decides(m, t, c) THEN \A keys : Agrees(m, keys, c, e.sent)
                        ELSE c \in s.sent <=> c \in e.sent
    BY <2>3, <2>6 DEF Decides, Agrees
  <2> QED
    BY <1>5, <2>3, <2>4, <2>5, <2>6, <2>7
<1> QED
  BY <1>6, <1>7, <1>8, <1>9

LEMMA ServerSnapshotSnapshot ==
    ASSUME WatchInv, CountInv, SnapshotInv, WatchInv', CountInv', ServerSnapshot
    PROVE  SnapshotInv'
<1>1. /\ UNCHANGED <<saved, query, view, resume, listening, targetState, resets, stream,
                     toServer, history, budget>>
      /\ server' = [t \in Targets |-> [server[t] EXCEPT !.filterDue = FALSE]]
      /\ \A t \in Targets : Served(t) => Synced(t)
  BY DEF ServerSnapshot, disk, local, remote
<1>2. /\ server \in [Targets -> Service] /\ listening \subseteq Targets
      /\ seen \in Nat \ {0} /\ seen \in 1 .. Len(history) /\ Len(history) \in Nat
  BY ServerTypes DEF WatchInv, RemoteType, CallType
<1>3. IsOpen(stream)
  BY ServerSnapshotStep
<1>4. PICK seq \in Seq(Messages) : toClient' = toClient \o seq /\ SnapshotOf(seq)
  BY ServerSnapshotStep
<1>5. PICK q \in Seq(Messages), r \in Seq(Messages) : q = toClient /\ r = toClient'
  BY DEF WatchInv, CallType
<1>6. PICK n \in Nat, k \in Nat : n = Len(q) /\ Len(seq) = k + 1
  <2>1. Len(q) \in Nat /\ Len(seq) - 1 \in Nat /\ Len(seq) = (Len(seq) - 1) + 1
    BY <1>4 DEF SnapshotOf
  <2> QED
    BY <2>1
<1>7. /\ Len(r) = n + (k + 1) /\ \A i \in 1 .. n : r[i] = q[i]
      /\ \A i \in 1 .. k + 1 : r[n + i] = seq[i]
  <2>1. /\ Len(r) = Len(q) + Len(seq)
        /\ \A i \in 1 .. Len(q) + Len(seq) :
              r[i] = IF i <= Len(q) THEN q[i] ELSE seq[i - Len(q)]
    BY <1>4, <1>5, ConcatProperties
  <2>2. \A i \in 1 .. n : i \in 1 .. Len(q) + Len(seq) /\ i <= Len(q)
    BY <1>6
  <2>3. \A i \in 1 .. k + 1 : /\ n + i \in 1 .. Len(q) + Len(seq) /\ ~(n + i <= Len(q))
                              /\ (n + i) - Len(q) = i
    BY <1>6
  <2> QED
    BY <1>6, <2>1, <2>2, <2>3
<1>8. Extends(r, q)
  BY <1>6, <1>7 DEF Extends
<1>9. /\ r[n + (k + 1)].op = "snapshot" /\ r[n + (k + 1)].n = seen
      /\ \A i \in 1 .. k : /\ r[n + i].op = "filter"
                           /\ r[n + i].n = Cardinality(history[seen][r[n + i].target])
  <2>1. /\ seq[k + 1].op = "snapshot" /\ seq[k + 1].n = seen
        /\ \A i \in 1 .. k : /\ seq[i].op = "filter"
                             /\ seq[i].n = Cardinality(history[seen][seq[i].target])
    BY <1>4, <1>6 DEF SnapshotOf
  <2>2. k + 1 \in 1 .. k + 1 /\ \A i \in 1 .. k : i \in 1 .. k + 1
    BY ONLY <1>6
  <2>3. r[n + (k + 1)] = seq[k + 1]
    BY ONLY <1>7, <2>2, Zenon
  <2>4. \A i \in 1 .. k : r[n + i] = seq[i]
    BY ONLY <1>7, <2>2, Zenon
  <2> QED
    BY ONLY <2>1, <2>3, <2>4, Zenon
<1>10. ASSUME NEW p \in n + 1 .. n + k PROVE /\ r[p].op = "filter"
                                             /\ r[p].n = Cardinality(history[seen][r[p].target])
  <2>1. p - n \in 1 .. k /\ n + (p - n) = p
    OBVIOUS
  <2> QED
    BY <1>9, <2>1
<1>11. FiltersOK(r, history) /\ SnapshotsOK(r, history)
  <2>1. ASSUME NEW p \in Len(q) + 1 .. Len(r)
        PROVE  /\ r[p].op = "snapshot" => r[p].n <= Len(history)
               /\ r[p].op = "filter" => \E s \in p + 1 .. Len(r) :
                    /\ r[s].op = "snapshot" /\ \A j \in p .. s - 1 : r[j].op = "filter"
                    /\ r[p].n = Cardinality(history[r[s].n][r[p].target])
    <3>1. CASE p = n + (k + 1)
      BY <1>2, <1>9, <3>1
    <3>2. CASE p # n + (k + 1)
      <4>1. p \in n + 1 .. n + k
        BY <1>6, <1>7, <3>2, SMTT(40)
      <4>2. PICK s : s = n + (k + 1)
        OBVIOUS
      <4>3. s \in p + 1 .. Len(r) /\ \A j \in p .. s - 1 : j \in n + 1 .. n + k
        BY <1>7, <4>1, <4>2
      <4> QED
        BY <1>9, <1>10, <4>1, <4>2, <4>3
    <3> QED
      BY <3>1, <3>2
  <2>2. FiltersOK(q, history) /\ SnapshotsOK(q, history)
    BY <1>5 DEF SnapshotInv
  <2> QED
    BY <1>8, <2>1, <2>2, FiltersOn
<1>12. \A t \in Targets : server'[t].stage = server[t].stage /\ server'[t].sent = server[t].sent
  BY <1>1, <1>2 DEF Service
<1>13. ASSUME NEW t, NEW j \in n + 1 .. n + (k + 1), NEW d \in Docs PROVE ~Decides(r[j], t, d)
  <2>1. j \in n + 1 .. n + k \/ j = n + (k + 1)
    OBVIOUS
  <2>2. r[j].op \in {"filter", "snapshot"}
    BY <1>9, <1>10, <2>1
  <2> QED
    BY <2>2 DEF Decides
<1>14. ASSUME NEW t \in listening, Unasked(toServer, t), NEW s \in n + 1 .. n + (k + 1) + 1
       PROVE  /\ server[t].stage # "none"
              /\ Played(r, Noted(t), view[t].keys, t, s, server[t].sent)
  <2>1. /\ server[t].stage # "none"
        /\ Played(q, Noted(t), view[t].keys, t, n + 1, server[t].sent)
    BY <1>3, <1>5, <1>6, <1>14 DEF SnapshotInv, InFlightOK
  <2>2. n + 1 \in 1 .. Len(q) + 1 /\ s \in n + 1 .. Len(r) + 1
    BY <1>6, <1>7
  <2>3. \A d \in Docs : \A j \in n + 1 .. s - 1 : ~Decides(r[j], t, d)
    <3>1. \A j \in n + 1 .. s - 1 : j \in n + 1 .. n + (k + 1)
      OBVIOUS
    <3> QED
      BY <1>13, <3>1
  <2> QED
    BY <1>8, <2>1, <2>2, <2>3, PlayedOn
<1>15. ASSUME NEW t \in listening, NEW p \in 1 .. n + (k + 1), r[p].op = "snapshot",
              Settled(toServer, r, t, p)
       PROVE  Played(r, Noted(t), view[t].keys, t, p, history[r[p].n][t])
  <2>1. Unasked(toServer, t) /\ \A i \in p .. n + (k + 1) : ~Hit(r[i], t, Answers)
    BY <1>7, <1>15 DEF Settled
  <2>2. CASE p <= n
    <3>1. p \in 1 .. n /\ r[p] = q[p] /\ \A i \in p .. n : i \in p .. n + (k + 1) /\ r[i] = q[i]
      BY <1>7, <2>2
    <3>2. Settled(toServer, q, t, p)
      BY <1>6, <2>1, <3>1 DEF Settled
    <3>3. Played(q, Noted(t), view[t].keys, t, p, history[r[p].n][t])
      BY <1>3, <1>5, <1>6, <1>15, <3>1, <3>2 DEF SnapshotInv, InFlightOK
    <3>4. p \in 1 .. Len(q) + 1 /\ p \in p .. Len(r) + 1
      BY <1>6, <1>7, <3>1
    <3>5. \A d \in Docs : \A j \in p .. p - 1 : ~Decides(r[j], t, d)
      OBVIOUS
    <3> QED
      BY <1>8, <3>3, <3>4, <3>5, PlayedOn
  <2>3. CASE ~(p <= n)
    <3>1. p = n + (k + 1)
      <4>1. p \in n + 1 .. n + k => r[p].op = "filter"
        BY <1>10
      <4>2. p \notin n + 1 .. n + k
        BY <1>15, <4>1
      <4> QED
        BY <2>3, <4>2
    <3>2. p \in n + 1 .. n + (k + 1) + 1
      BY <3>1
    <3>3. /\ server[t].stage # "none"
          /\ Played(r, Noted(t), view[t].keys, t, p, server[t].sent)
      BY <1>14, <2>1, <3>2
    <3>4. server[t].sent = history[r[p].n][t]
      BY <1>1, <1>2, <1>9, <3>1, <3>3 DEF Served, Synced, Results
    <3> QED
      BY <3>3, <3>4
  <2> QED
    BY <2>2, <2>3
<1>16. InFlightOK'
  <2>1. \A t \in listening : Noted(t)' = Noted(t) /\ t \in Targets
    BY <1>1, <1>2 DEF Noted
  <2>2. n + (k + 1) + 1 \in n + 1 .. n + (k + 1) + 1
    OBVIOUS
  <2> SUFFICES ASSUME NEW t \in listening
               PROVE  /\ Unasked(toServer, t) =>
                          /\ server'[t].stage # "none"
                          /\ Played(r, Noted(t), view[t].keys, t, Len(r) + 1, server'[t].sent)
                      /\ \A p \in 1 .. Len(r) :
                          r[p].op = "snapshot" /\ Settled(toServer, r, t, p) =>
                            Played(r, Noted(t), view[t].keys, t, p, history[r[p].n][t])
    BY <1>1, <1>5, <2>1 DEF InFlightOK
  <2>3. Unasked(toServer, t) =>
            /\ server'[t].stage # "none"
            /\ Played(r, Noted(t), view[t].keys, t, Len(r) + 1, server'[t].sent)
    BY <1>7, <1>12, <1>14, <2>1, <2>2
  <2> QED
    BY <1>7, <1>15, <2>3
<1>17. StoredOK' /\ RequestsOK'
  BY <1>1 DEF SnapshotInv, StoredOK, RequestsOK, Version
<1> QED
  BY <1>1, <1>5, <1>11, <1>16, <1>17 DEF SnapshotInv

\* The results change: what they were stays in the history.
LEMMA BackendChangeSnapshot ==
    ASSUME WatchInv, CountInv, SnapshotInv, WatchInv', CountInv', NEW t \in Targets, NEW d \in Docs,
           BackendChange(t, d)
    PROVE  SnapshotInv'
<1>1. /\ UNCHANGED <<saved, query, view, resume, listening, targetState, resets, stream,
                     toServer, toClient, server>>
      /\ Spend("versions")
  BY DEF BackendChange, disk, local, remote
<1>2. PICK new : history' = Append(history, new)
  BY DEF BackendChange
<1>3. budget'.elisions = budget.elisions
  BY <1>1, SpendElisions DEF Bounds, WatchInv, CallType
<1>4. PICK n \in Nat : n = Len(history)
  BY DEF WatchInv, CallType
<1>5. PICK h : h = history'
  OBVIOUS
<1>6. Len(h) = n + 1 /\ \A i \in 1 .. n : h[i] = history[i]
  BY <1>2, <1>4, <1>5 DEF WatchInv, CallType
<1>7. \A k \in Nat : \A u : k <= n => KeysAt(h, k, u) = KeysAt(history, k, u)
  BY <1>6 DEF KeysAt
<1>8. listening \subseteq Targets /\ toServer \in Seq(TargetRequests) /\ toClient \in Seq(Messages)
  BY DEF WatchInv, RemoteType, CallType
<1>9. StoredOK'
  <2> SUFFICES ASSUME NEW u \in Targets
               PROVE  /\ saved[u].token <= n + 1 /\ saved[u].keys = KeysAt(h, saved[u].token, u)
                      /\ query[u].token <= n + 1 /\ resume[u] <= n + 1
                      /\ u \in listening =>
                            /\ view[u].keys = saved[u].keys
                            /\ view[u].keys = KeysAt(h, query[u].token, u)
                            /\ view[u].keys = KeysAt(h, resume[u], u)
                            /\ view[u].current => /\ view[u].version \in 1 .. n + 1
                                                  /\ view[u].keys = h[view[u].version][u]
    BY <1>1, <1>5, <1>6 DEF StoredOK, Version
  <2>1. saved[u].token \in Nat /\ query[u].token \in Nat /\ resume[u] \in Nat
    BY DEF WatchInv, StoreType, RemoteType, Saved, QueryData
  <2>2. /\ saved[u].token <= n /\ saved[u].keys = KeysAt(history, saved[u].token, u)
        /\ query[u].token <= n /\ resume[u] <= n
        /\ u \in listening =>
              /\ view[u].keys = saved[u].keys
              /\ view[u].keys = KeysAt(history, query[u].token, u)
              /\ view[u].keys = KeysAt(history, resume[u], u)
              /\ view[u].current =>
                    view[u].version \in 1 .. n /\ view[u].keys = history[view[u].version][u]
    BY <1>4 DEF SnapshotInv, StoredOK, Version
  <2> QED
    BY <1>6, <1>7, <2>1, <2>2
<1>10. RequestsOK'
  <2> SUFFICES ASSUME NEW i \in 1 .. Len(toServer)
               PROVE  /\ toServer[i].token <= n + 1
                      /\ IsLastRequest(toServer, i) /\ toServer[i].target \in listening =>
                          /\ toServer[i].op = "watch"
                          /\ view[toServer[i].target].keys =
                                KeysAt(h, toServer[i].token, toServer[i].target)
    BY <1>1, <1>5, <1>6 DEF RequestsOK, Version
  <2>1. PICK r \in TargetRequests : r = toServer[i]
    BY <1>8, ElementOfSeq
  <2>2. r.token \in Nat
    BY DEF TargetRequests
  <2>3. /\ r.token <= n
        /\ IsLastRequest(toServer, i) /\ r.target \in listening =>
             r.op = "watch" /\ view[r.target].keys = KeysAt(history, r.token, r.target)
    BY <1>4, <2>1 DEF SnapshotInv, RequestsOK, Version
  <2> QED
    BY <1>7, <2>1, <2>2, <2>3
<1>11. ASSUME NEW p \in 1 .. Len(toClient), toClient[p].op = "snapshot"
       PROVE  toClient[p].n \in 1 .. n /\ h[toClient[p].n] = history[toClient[p].n]
  <2>1. PICK m \in Messages : m = toClient[p]
    BY <1>8, ElementOfSeq
  <2>2. m.n \in Nat /\ m.n # 0 /\ m.n <= n
    BY <1>4, <1>11, <2>1, ResponseFields DEF SnapshotInv, SnapshotsOK
  <2> QED
    BY <1>6, <2>1, <2>2
<1>12. SnapshotsOK(toClient, h)
  BY <1>6, <1>11 DEF SnapshotsOK
<1>13. FiltersOK(toClient, h)
  <2> SUFFICES ASSUME NEW p \in 1 .. Len(toClient), toClient[p].op = "filter"
               PROVE  \E s \in p + 1 .. Len(toClient) :
                        /\ toClient[s].op = "snapshot"
                        /\ \A j \in p .. s - 1 : toClient[j].op = "filter"
                        /\ toClient[p].n = Cardinality(h[toClient[s].n][toClient[p].target])
    BY DEF FiltersOK
  <2>1. PICK s \in p + 1 .. Len(toClient) :
            /\ toClient[s].op = "snapshot" /\ \A j \in p .. s - 1 : toClient[j].op = "filter"
            /\ toClient[p].n = Cardinality(history[toClient[s].n][toClient[p].target])
    BY DEF SnapshotInv, FiltersOK
  <2>2. s \in 1 .. Len(toClient)
    OBVIOUS
  <2> QED
    BY <1>11, <2>1, <2>2
<1>14. \A u \in listening : Noted(u)' = Noted(u)
  BY <1>1 DEF Noted
<1>15. IsOpen(stream) => InFlightOK'
  BY <1>1, <1>5, <1>11, <1>14 DEF SnapshotInv, InFlightOK
<1> QED
  BY <1>1, <1>3, <1>5, <1>9, <1>10, <1>12, <1>13, <1>15 DEF SnapshotInv

-----------------------------------------------------------------------------
(* SnapshotInv is an invariant.                                            *)

LEMMA InitSnapshot == Init /\ MaxElisions = 0 => SnapshotInv
<1> SUFFICES ASSUME Init, MaxElisions = 0 PROVE SnapshotInv
  OBVIOUS
<1>1. /\ budget.elisions = 0 /\ resets = {} /\ listening = {} /\ toServer = <<>>
      /\ toClient = <<>> /\ ~IsOpen(stream)
  BY DEF Init, NewStream, IsOpen
<1>2. Version = 1
  BY DEF Init, Version
<1>3. StoredOK
  BY <1>1, <1>2 DEF Init, StoredOK, KeysAt
<1>4. RequestsOK
  BY <1>1, EmptySeq DEF RequestsOK
<1>5. FiltersOK(toClient, history) /\ SnapshotsOK(toClient, history)
  BY <1>1, EmptySeq DEF FiltersOK, SnapshotsOK
<1> QED
  BY <1>1, <1>3, <1>4, <1>5 DEF SnapshotInv

LEMMA NextSnapshot ==
    ASSUME WatchInv, CountInv, SnapshotInv, WatchInv', CountInv', [Next]_vars
    PROVE  SnapshotInv'
<1>1. ASSUME NEW t \in Targets, Listen(t) PROVE SnapshotInv'
  BY <1>1, ListenSnapshot
<1>2. ASSUME NEW t \in Targets, StopListening(t) PROVE SnapshotInv'
  BY <1>2, StopListeningSnapshot
<1>3. CASE DisableNetwork \/ HandleCredentialChange
  BY <1>3, StopSnapshot
<1>4. CASE Restart
  BY <1>4, RestartSnapshot
<1>5. CASE (\E r \in stream.requests : TokenErrorCallback(r)) \/ CallEnds \/ IdleTimeout
  BY <1>5, FailSnapshot
<1>5a. CASE CallAborts
  BY <1>5a, AbortSnapshot
<1>6. CASE \/ EnableNetwork
           \/ OnlineStateTimeout
           \/ \E r \in stream.requests : StaleTokenCallback(r)
           \/ BackoffTimeout
           \/ ServerCatchUp
           \/ UNCHANGED vars
  BY <1>6, QuietSnapshot
<1>7. ASSUME NEW r \in stream.requests, TokenCallback(r) PROVE SnapshotInv'
  BY <1>7, TokenSnapshot
<1>8. CASE OnTargetChange
  BY <1>8, TargetChangeSnapshot
<1>9. CASE OnDocumentChange
  BY <1>9, DocumentChangeSnapshot
<1>10. CASE OnExistenceFilter
  BY <1>10, ExistenceFilterSnapshot
<1>11. CASE OnTargetError
  BY <1>11, TargetErrorCount
<1>12. CASE IgnoredSnapshot
  BY <1>12, IgnoredSnapshotSnapshot
<1>13. CASE RaiseWatchSnapshot
  BY <1>13, RaiseSnapshot
<1>14. CASE ServerWatch \/ ServerReject \/ ServerUnwatch
  BY <1>14, ServerRequestSnapshot
<1>15. ASSUME NEW t \in Targets,
              \/ \E d \in Docs : ServerAdd(t, d) \/ ServerRemove(t, d)
              \/ ServerCurrent(t)
              \/ ServerReset(t)
       PROVE  SnapshotInv'
  BY <1>15, ServerMessageSnapshot
<1>16. CASE ServerSnapshot
  BY <1>16, ServerSnapshotSnapshot
<1>17. ASSUME NEW t \in Targets, NEW d \in Docs, ServerElide(t, d) PROVE SnapshotInv'
  BY <1>17 DEF ServerElide, Spend, SnapshotInv
<1>18. ASSUME NEW t \in Targets, NEW d \in Docs, BackendChange(t, d) PROVE SnapshotInv'
  BY <1>18, BackendChangeSnapshot
<1>19. CASE Environment
  BY <1>1, <1>2, <1>3, <1>5, <1>5a, <1>6, <1>14, <1>15, <1>17, <1>18, <1>19, EndsOrAborts
     DEF Environment
<1>20. CASE System
  BY <1>5, <1>6, <1>7, <1>8, <1>9, <1>10, <1>11, <1>12, <1>13, <1>14, <1>15, <1>16, <1>20
     DEF System
<1> QED
  BY <1>4, <1>6, <1>19, <1>20 DEF Next

\* With a backend that rejects no target and leaves no removal to a filter, the keys of every
\* target are the results that the token next to them names, on disk, in the view and, once
\* what is in flight is read, at every snapshot; and no filter finds a mismatch.
THEOREM SnapshotInvariant ==
    ASSUME MaxErrors = 0, MaxElisions = 0
    PROVE  Spec => [](WatchInv /\ CountInv /\ SnapshotInv)
<1>1. Init => WatchInv /\ CountInv /\ SnapshotInv
  BY InitWatch, InitCount, InitSnapshot
<1>2. WatchInv /\ CountInv /\ SnapshotInv /\ [Next]_vars => (WatchInv /\ CountInv /\ SnapshotInv)'
  BY NextWatch, NextCount, NextSnapshot
<1> QED
  BY <1>1, <1>2, PTL DEF Spec

\* A view that is not from cache shows the results at the version of a global snapshot
\* (applyRemoteEvent), whatever fails, is reset or is listened to again, as long as the
\* backend rejects no target and leaves no removal to an existence filter.
THEOREM CurrentViewsShowSnapshots ==
    ASSUME MaxErrors = 0, MaxElisions = 0
    PROVE  Spec => []CurrentViewsAreSnapshots
<1>1. WatchInv /\ SnapshotInv => CurrentViewsAreSnapshots
  BY DEF WatchInv, RemoteType, SnapshotInv, StoredOK, CurrentViewsAreSnapshots
<1> QED
  BY <1>1, SnapshotInvariant, PTL

\* The resume token on disk goes with the keys on disk (shouldPersistQueryData leaves a token
\* out only when no key changes), under the same assumption about the backend.
THEOREM SavedTokensMissNothing ==
    ASSUME MaxErrors = 0, MaxElisions = 0
    PROVE  Spec => []SavedTokenMissesNothing
<1>1. ASSUME WatchInv, SnapshotInv PROVE SavedTokenMissesNothing
  <2> SUFFICES ASSUME NEW t \in Targets, saved[t].token # 0, NEW d \in Docs,
                      \A v \in saved[t].token .. Version : d \in history[v][t]
               PROVE  d \in saved[t].keys
    BY DEF SavedTokenMissesNothing
  <2>1. saved[t].token <= Version /\ saved[t].keys = history[saved[t].token][t]
    BY <1>1 DEF SnapshotInv, StoredOK, KeysAt
  <2>2. saved[t].token \in Nat /\ Version \in Nat
    BY <1>1 DEF WatchInv, StoreType, Saved, CallType, Version
  <2>3. saved[t].token \in saved[t].token .. Version
    BY <2>1, <2>2
  <2> QED
    BY <2>1, <2>3
<1> QED
  BY <1>1, SnapshotInvariant, PTL
=============================================================================
