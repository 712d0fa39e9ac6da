--------------------------- MODULE WritePathProof ---------------------------
(***************************************************************************)
(* Proofs about WritePath, for every number of users, writes, faults and   *)
(* restarts, every pipeline capacity and both kinds of mutation queue.     *)
(* First, the inductive invariant IInv of WritePathInvariant holds in      *)
(* every state; then SafetyInv, and with it the remaining safety           *)
(* properties; last, every step of the write path is a step of the         *)
(* abstract WriteQueue, or none.                                           *)
(***************************************************************************)
EXTENDS WritePathInvariant, SequenceTheorems, WellFoundedInduction, TLAPS

-----------------------------------------------------------------------------
(* What the methods of Stream do to a stream none of whose assertions has  *)
(* failed.                                                                 *)

Good(s) == s \in StreamType /\ s.failed = {}

\* Start waits when the stream failed, and asks for a token otherwise.
LEMMA StartFacts ==
    ASSUME NEW s, Good(s), NEW r \in TokenRequest, s.state \in {"Initial", "Error"}
    PROVE  LET t == Start(s, r)
           IN  /\ Good(t)
               /\ t.state = IF s.state = "Error" THEN "Backoff" ELSE "Starting"
               /\ t.closeCount = s.closeCount
               /\ t.timers = IF s.state = "Error" THEN s.timers \cup {"backoff"} ELSE s.timers
               /\ t.requests = IF s.state = "Error" THEN s.requests ELSE s.requests \cup {r}
<1>1. CASE s.state = "Error"
  <2>1. Start(s, r) = [s EXCEPT !.state = "Backoff", !.timers = @ \cup {"backoff"},
                                !.failed = @ \cup {}]
    BY <1>1 DEF Start, BackoffAndTryRestarting, HardAssert
  <2>2. Good(Start(s, r))
    BY <2>1, ZenonT(60) DEF Good, StreamType, States
  <2>3. /\ Start(s, r).state = "Backoff"
        /\ Start(s, r).closeCount = s.closeCount
        /\ Start(s, r).timers = s.timers \cup {"backoff"}
        /\ Start(s, r).requests = s.requests
    BY <2>1 DEF Good, StreamType
  <2>4. QED BY <1>1, <2>2, <2>3
<1>2. CASE s.state = "Initial"
  <2>1. Start(s, r) = [s EXCEPT !.state = "Starting", !.requests = @ \cup {r},
                                !.failed = @ \cup {}]
    BY <1>2 DEF Start, HardAssert
  <2>a. s.requests \cup {r} \in SUBSET TokenRequest
    BY DEF Good, StreamType
  <2>2. Good(Start(s, r))
    <3> HIDE DEF TokenRequest
    <3> QED BY <2>1, <2>a DEF Good, StreamType, States
  <2>3. /\ Start(s, r).state = "Starting"
        /\ Start(s, r).closeCount = s.closeCount
        /\ Start(s, r).timers = s.timers
        /\ Start(s, r).requests = s.requests \cup {r}
    BY <2>1 DEF Good, StreamType
  <2>4. QED BY <1>2, <2>2, <2>3
<1>3. QED BY <1>1, <1>2

\* Close cancels the timers and counts.
LEMMA CloseFacts ==
    ASSUME NEW s, Good(s), IsStarted(s), NEW status
    PROVE  LET t == Close(s, status)
           IN  /\ Good(t)
               /\ t.state = IF status = "ok" THEN "Initial" ELSE "Error"
               /\ t.closeCount = s.closeCount + 1
               /\ t.timers = {}
               /\ t.requests = s.requests
<1>1. HardAssert(IsStarted(s), "close of a stopped stream") = {}
  BY DEF HardAssert
<1>2. Close(s, status) =
        [s EXCEPT !.state = IF status = "ok" THEN "Initial" ELSE "Error",
                  !.closeCount = @ + 1, !.timers = {}, !.failed = @ \cup {}]
  BY <1>1 DEF Close
<1>a. s.closeCount + 1 \in Nat
  BY DEF Good, StreamType
<1>b. (IF status = "ok" THEN "Initial" ELSE "Error") \in States
  BY DEF States
<1>3. Good(Close(s, status))
  BY <1>2, <1>a, <1>b DEF Good, StreamType
<1>4. QED BY <1>2, <1>3 DEF Good, StreamType

\* MarkIdle starts at most the idle timer.
LEMMA MarkIdleFacts ==
    ASSUME NEW s, Good(s)
    PROVE  LET t == MarkIdle(s)
           IN  /\ Good(t)
               /\ t.state = s.state
               /\ t.closeCount = s.closeCount
               /\ t.timers = IF IsOpen(s) THEN s.timers \cup {"idle"} ELSE s.timers
               /\ t.requests = s.requests
BY DEF Good, MarkIdle, StreamType, States, IsOpen

\* Write cancels the idle timer.
LEMMA WriteToFacts ==
    ASSUME NEW s, Good(s), IsOpen(s)
    PROVE  LET t == WriteTo(s)
           IN  /\ Good(t)
               /\ t.state = s.state
               /\ t.closeCount = s.closeCount
               /\ t.timers = s.timers \ {"idle"}
               /\ t.requests = s.requests
<1>1. WriteTo(s) = [s EXCEPT !.timers = @ \ {"idle"}, !.failed = @ \cup {}]
  BY DEF WriteTo, HardAssert
<1>2. QED BY <1>1, ZenonT(60) DEF Good, StreamType, States

\* InhibitBackoff returns a stream that is not started to its initial state.
LEMMA InhibitFacts ==
    ASSUME NEW s, Good(s), ~IsStarted(s)
    PROVE  LET t == InhibitBackoff(s)
           IN  /\ Good(t)
               /\ t.state = "Initial"
               /\ t.closeCount = s.closeCount
               /\ t.timers = s.timers
               /\ t.requests = s.requests
<1>1. InhibitBackoff(s) = [s EXCEPT !.state = "Initial", !.failed = @ \cup {}]
  BY DEF InhibitBackoff, HardAssert
<1>2. QED BY <1>1 DEF Good, StreamType, States

\* With a token a starting stream opens.
LEMMA ResumeFacts ==
    ASSUME NEW s, Good(s), s.state = "Starting"
    PROVE  LET t == ResumeStartWithCredentials(s)
           IN  /\ Good(t)
               /\ t.state = "Open"
               /\ t.closeCount = s.closeCount
               /\ t.timers = s.timers
               /\ t.requests = s.requests
<1>1. ResumeStartWithCredentials(s) = [s EXCEPT !.state = "Open", !.failed = @ \cup {}]
  BY DEF ResumeStartWithCredentials, HardAssert
<1>2. QED BY <1>1 DEF Good, StreamType, States

\* The end of the backoff starts the stream again.
LEMMA BackoffElapsedFacts ==
    ASSUME NEW s, Good(s), s.state = "Backoff", NEW r \in TokenRequest
    PROVE  LET t == BackoffElapsed(s, r)
           IN  /\ Good(t)
               /\ t.state = "Starting"
               /\ t.closeCount = s.closeCount
               /\ t.timers = s.timers \ {"backoff"}
               /\ t.requests = s.requests \cup {r}
<1> DEFINE i == [s EXCEPT !.state = "Initial", !.timers = @ \ {"backoff"}, !.failed = @ \cup {}]
<1>1. BackoffElapsed(s, r) = Start(i, r)
  BY DEF BackoffElapsed, HardAssert
<1>2. /\ Good(i) /\ i.state = "Initial" /\ i.closeCount = s.closeCount
      /\ i.timers = s.timers \ {"backoff"} /\ i.requests = s.requests
  BY DEF Good, StreamType, States
<1>3. i.state \in {"Initial", "Error"} /\ i.state # "Error"
  BY <1>2
<1> HIDE DEF i
<1>4. LET t == Start(i, r)
      IN  /\ Good(t)
          /\ t.state = "Starting"
          /\ t.closeCount = i.closeCount
          /\ t.timers = i.timers
          /\ t.requests = i.requests \cup {r}
  BY <1>2, <1>3, StartFacts
<1>5. QED BY <1>1, <1>2, <1>4

-----------------------------------------------------------------------------
(* Tokens: how TokensOK moves along with the stream and the worker queue.  *)

\* A queued item is a token callback with a close count, or a new user.
LEMMA WorkItemFacts ==
    ASSUME NEW wq \in Seq(WorkItem), NEW i \in 1 .. Len(wq)
    PROVE  /\ wq[i].op \in {"token", "credential"}
           /\ wq[i].user \in Users
           /\ wq[i].op = "token" =>
                 /\ wq[i].closeCount \in Nat
                 /\ wq[i].status \in {"ok", "unavailable", "aborted"}
                 /\ wq[i].token \in {"valid", "expired"}
BY DEF WorkItem

\* Counting one more close makes every token outdated.
LEMMA TokensClose ==
    ASSUME NEW s, Good(s), NEW t, NEW wq \in Seq(WorkItem), TokensOK(s, wq),
           t.closeCount = s.closeCount + 1, t.requests = s.requests
    PROVE  TokensOK(t, wq)
<1>1. s.closeCount \in Nat /\ s.requests \subseteq TokenRequest
  BY DEF Good, StreamType
<1>2. \A r \in t.requests : r.closeCount \in Nat /\ r.closeCount < t.closeCount
  BY <1>1 DEF TokensOK, TokenRequest
<1>3. \A i \in 1 .. Len(wq) : IsTokenCallback(wq, i) =>
          wq[i].closeCount \in Nat /\ wq[i].closeCount < t.closeCount
  BY <1>1, WorkItemFacts DEF TokensOK, IsTokenCallback
<1>4. QED BY <1>1, <1>2, <1>3 DEF TokensOK

\* A stream that was not starting has no current token to wait for: it may
\* change its state, or ask for one.
LEMMA TokensSame ==
    ASSUME NEW s, NEW t, NEW wq, TokensOK(s, wq),
           s.state # "Starting" \/ t.state = s.state,
           t.closeCount = s.closeCount, t.requests = s.requests
    PROVE  TokensOK(t, wq)
BY DEF TokensOK

\* A start that asks for a token keeps the tokens in order.
LEMMA TokensStart ==
    ASSUME NEW s, NEW t, NEW wq, NEW r, TokensOK(s, wq), s.closeCount \in Nat,
           s.state # "Starting", t.state = "Starting",
           r.closeCount = s.closeCount,
           t.closeCount = s.closeCount, t.requests = s.requests \cup {r}
    PROVE  TokensOK(t, wq)
BY DEF TokensOK

\* So does taking the first item off the worker queue.
LEMMA TokensTail ==
    ASSUME NEW s, NEW wq \in Seq(WorkItem), wq # <<>>, TokensOK(s, wq)
    PROVE  TokensOK(s, Tail(wq))
<1> DEFINE tl == Tail(wq)
<1>1. /\ Len(wq) \in Nat
      /\ Len(tl) = Len(wq) - 1
      /\ \A i \in 1 .. Len(tl) : i + 1 \in 1 .. Len(wq) /\ tl[i] = wq[i + 1]
  BY HeadTailProperties, EmptySeq
<1> HIDE DEF tl
<1>2. \A i \in 1 .. Len(tl) : IsTokenCallback(tl, i) => IsTokenCallback(wq, i + 1)
  BY <1>1 DEF IsTokenCallback
<1>3. \A i \in 1 .. Len(tl) : IsTokenCallback(tl, i) =>
          /\ tl[i].closeCount <= s.closeCount
          /\ tl[i].closeCount = s.closeCount =>
                s.state = "Starting" /\ \A r \in s.requests : r.closeCount # s.closeCount
  BY <1>1, <1>2 DEF TokensOK
<1>4. ASSUME NEW i \in 1 .. Len(tl), IsTokenCallback(tl, i), tl[i].closeCount = s.closeCount,
             NEW j \in 1 .. Len(tl), IsTokenCallback(tl, j), tl[j].closeCount = s.closeCount
      PROVE  i = j
  <2>1. i + 1 = j + 1
    BY <1>1, <1>2, <1>4 DEF TokensOK
  <2>2. QED BY <1>1, <2>1
<1>5. TokensOK(s, tl)
  BY <1>3, <1>4 DEF TokensOK
<1>6. QED BY <1>5 DEF tl

\* The current token is used up: no other one is under way.
LEMMA TokensUsed ==
    ASSUME NEW s, NEW t, NEW wq \in Seq(WorkItem), wq # <<>>, TokensOK(s, wq),
           IsTokenCallback(wq, 1), wq[1].closeCount = s.closeCount,
           t.closeCount = s.closeCount, t.requests = s.requests
    PROVE  TokensOK(t, Tail(wq))
<1> DEFINE tl == Tail(wq)
<1>a. Len(wq) \in Nat \ {0}
  BY EmptySeq
<1>b. Len(tl) = Len(wq) - 1 /\ \A i \in 1 .. Len(tl) : tl[i] = wq[i + 1]
  BY HeadTailProperties
<1>1. /\ Len(wq) \in Nat /\ 1 \in 1 .. Len(wq)
      /\ Len(tl) = Len(wq) - 1
      /\ \A i \in 1 .. Len(tl) : i + 1 \in 1 .. Len(wq) /\ i + 1 # 1 /\ tl[i] = wq[i + 1]
  BY <1>a, <1>b
<1> HIDE DEF tl
<1>2. \A i \in 1 .. Len(tl) : IsTokenCallback(tl, i) => IsTokenCallback(wq, i + 1)
  BY <1>1 DEF IsTokenCallback
<1>3. \A i \in 1 .. Len(tl) : IsTokenCallback(tl, i) =>
          tl[i].closeCount <= s.closeCount /\ tl[i].closeCount # s.closeCount
  BY <1>1, <1>2 DEF TokensOK
<1>4. \A r \in s.requests : r.closeCount <= s.closeCount /\ r.closeCount # s.closeCount
  BY <1>1 DEF TokensOK
<1>5. TokensOK(t, tl)
  BY <1>3, <1>4 DEF TokensOK
<1>6. QED BY <1>5 DEF tl

\* A GetToken call turns into a queued callback of the same close count.
LEMMA TokensArrive ==
    ASSUME NEW s, NEW t, NEW wq \in Seq(WorkItem), NEW r \in s.requests,
           NEW item \in WorkItem, item.op = "token", item.closeCount = r.closeCount,
           TokensOK(s, wq),
           t.state = s.state, t.closeCount = s.closeCount, t.requests = s.requests \ {r}
    PROVE  TokensOK(t, Append(wq, item))
<1> DEFINE ap == Append(wq, item)
<1>1. /\ Len(wq) \in Nat
      /\ Len(ap) = Len(wq) + 1
      /\ \A i \in 1 .. Len(wq) : ap[i] = wq[i]
      /\ ap[Len(wq) + 1] = item
  BY AppendProperties
<1> HIDE DEF ap
<1>2. \A i \in 1 .. Len(ap) : (i \in 1 .. Len(wq) /\ ap[i] = wq[i])
                                \/ (i = Len(wq) + 1 /\ ap[i] = item)
  BY <1>1
<1>3. \A i \in 1 .. Len(wq) : IsTokenCallback(ap, i) <=> IsTokenCallback(wq, i)
  BY <1>1 DEF IsTokenCallback
<1>4. \A a \in t.requests : a \in s.requests /\ a # r
  OBVIOUS
<1>5. \A i \in 1 .. Len(ap) : IsTokenCallback(ap, i) =>
          /\ ap[i].closeCount <= t.closeCount
          /\ ap[i].closeCount = t.closeCount =>
                /\ t.state = "Starting"
                /\ \A a \in t.requests : a.closeCount # t.closeCount
  BY <1>1, <1>2, <1>3, <1>4 DEF TokensOK
<1>6. ASSUME NEW i \in 1 .. Len(ap), IsTokenCallback(ap, i), ap[i].closeCount = t.closeCount,
             NEW j \in 1 .. Len(ap), IsTokenCallback(ap, j), ap[j].closeCount = t.closeCount
      PROVE  i = j
  <2>1. CASE i \in 1 .. Len(wq) /\ j \in 1 .. Len(wq)
    BY <1>1, <1>3, <1>6, <2>1 DEF TokensOK
  <2>2. CASE i = Len(wq) + 1 \/ j = Len(wq) + 1
    BY <1>1, <1>2, <1>3, <1>6, <2>2 DEF TokensOK
  <2>3. QED BY <1>2, <2>1, <2>2
<1>7. TokensOK(t, ap)
  BY <1>4, <1>5, <1>6 DEF TokensOK
<1>8. QED BY <1>7 DEF ap

\* Items that are not token callbacks do not matter.
LEMMA TokensAppendUser ==
    ASSUME NEW s, NEW wq \in Seq(WorkItem), NEW item \in WorkItem, item.op # "token",
           TokensOK(s, wq)
    PROVE  TokensOK(s, Append(wq, item))
<1> DEFINE ap == Append(wq, item)
<1>1. /\ Len(wq) \in Nat
      /\ Len(ap) = Len(wq) + 1
      /\ \A i \in 1 .. Len(wq) : ap[i] = wq[i]
      /\ ap[Len(wq) + 1] = item
  BY AppendProperties
<1> HIDE DEF ap
<1>2. \A i \in 1 .. Len(ap) : IsTokenCallback(ap, i) =>
          i \in 1 .. Len(wq) /\ ap[i] = wq[i] /\ IsTokenCallback(wq, i)
  BY <1>1 DEF IsTokenCallback
<1>3. TokensOK(s, ap)
  BY <1>1, <1>2 DEF TokensOK
<1>4. QED BY <1>3 DEF ap

-----------------------------------------------------------------------------
(* Mutation queues.                                                        *)

\* p is a prefix of q.
Prefix(p, q) == /\ p \in Seq(Batch)
                /\ Len(p) <= Len(q)
                /\ \A i \in 1 .. Len(p) : p[i] = q[i]

\* The two ways to say it agree.
LEMMA PrefixIsSubSeq ==
    ASSUME NEW q \in Seq(Batch), NEW p \in Seq(Batch), Len(p) <= Len(q)
    PROVE  p = SubSeq(q, 1, Len(p)) <=> Prefix(p, q)
<1>1. Len(p) \in Nat /\ Len(q) \in Nat /\ \A i \in 1 .. Len(p) : q[i] \in Batch
  BY ElementOfSeq, LenProperties
<1>2. /\ SubSeq(q, 1, Len(p)) \in Seq(Batch)
      /\ Len(SubSeq(q, 1, Len(p))) = Len(p)
      /\ \A i \in 1 .. Len(p) : SubSeq(q, 1, Len(p))[i] = q[i]
  BY <1>1, SubSeqProperties
<1>3. QED BY <1>1, <1>2, SeqEqual DEF Prefix

\* A sequence of batches has batches at its positions.
LEMMA BatchFacts ==
    ASSUME NEW b \in Seq(Batch)
    PROVE  /\ Len(b) \in Nat
           /\ b = <<>> <=> Len(b) = 0
           /\ \A i \in 1 .. Len(b) : b[i] \in Batch /\ b[i].id \in Nat /\ b[i].w \in Writes
<1>1. Len(b) \in Nat /\ \A i \in 1 .. Len(b) : b[i] \in Batch
  BY ElementOfSeq, LenProperties
<1>2. b = <<>> <=> Len(b) = 0
  BY EmptySeq
<1>3. \A x \in Batch : x.id \in Nat /\ x.w \in Writes
  BY DEF Batch
<1>4. QED BY <1>1, <1>2, <1>3

\* The requests for some batches.
LEMMA RequestsFacts ==
    ASSUME NEW b \in Seq(Batch)
    PROVE  /\ Requests(b) \in Seq({Handshake} \cup Writes)
           /\ Len(Requests(b)) = Len(b)
<1>1. Len(b) \in Nat /\ \A i \in 1 .. Len(b) : b[i].w \in {Handshake} \cup Writes
  BY BatchFacts
<1>2. QED BY <1>1 DEF Requests

\* NextMutationBatchAfterBatchId finds the batch after a prefix of the queue,
\* in LevelDB as in memory.
LEMMA IndexAfterPrefix ==
    ASSUME NEW q \in Seq(Batch), QueueOrdered(q), NEW p, Prefix(p, q)
    PROVE  IndexAfter(q, IF p = <<>> THEN kBatchIdUnknown ELSE Last1(p).id) = Len(p) + 1
<1> DEFINE id == IF p = <<>> THEN kBatchIdUnknown ELSE Last1(p).id
<1>1. /\ Len(p) \in Nat /\ Len(q) \in Nat /\ Len(p) <= Len(q)
      /\ \A i \in 1 .. Len(q) : q[i].id \in Nat
  BY BatchFacts DEF Prefix
<1>2. IF p = <<>> THEN id = -1 /\ Len(p) = 0
                  ELSE id = q[Len(p)].id /\ Len(p) \in 1 .. Len(q)
  BY <1>1, EmptySeq DEF Prefix, Last1, kBatchIdUnknown
<1>3. CASE Durable
  <2>1. \A i \in 1 .. Len(q) : (i < Len(p) + 1) <=> (q[i].id <= id)
    <3>1. CASE p = <<>>
      BY <1>1, <1>2, <3>1
    <3>2. CASE p # <<>>
      <4>1. \A i, j \in 1 .. Len(q) : i < j => q[i].id < q[j].id
        BY <1>3 DEF QueueOrdered
      <4>2. QED BY <1>1, <1>2, <3>2, <4>1
    <3>3. QED BY <3>1, <3>2
  <2>2. \A n \in 1 .. Len(q) + 1 :
            (\A i \in 1 .. Len(q) : (i < n) <=> (q[i].id <= id)) => n = Len(p) + 1
    BY <1>1, <2>1
  <2>3. Len(p) + 1 \in 1 .. Len(q) + 1
    BY <1>1
  <2> HIDE DEF id
  <2>4. (CHOOSE n \in 1 .. Len(q) + 1 : \A i \in 1 .. Len(q) : (i < n) <=> (q[i].id <= id))
          = Len(p) + 1
    BY <2>1, <2>2, <2>3
  <2>5. IndexAfter(q, id) = Len(p) + 1
    BY <1>3, <2>4 DEF IndexAfter, SeekAfter
  <2>6. QED BY <2>5 DEF id
<1>4. CASE ~Durable
  <2>1. \A i \in 1 .. Len(q) : q[i].id = q[1].id + i - 1
    BY <1>4 DEF QueueOrdered
  <2>2. CASE q = <<>>
    BY <1>1, <1>2, <1>4, <2>2 DEF IndexAfter, IndexOfBatchId
  <2>3. CASE q # <<>>
    <3>1. q[1].id \in Nat
      BY <1>1, <2>3, EmptySeq
    <3>2. CASE p = <<>>
      BY <1>1, <1>2, <1>4, <2>3, <3>1, <3>2 DEF IndexAfter, IndexOfBatchId
    <3>3. CASE p # <<>>
      <4>1. id = q[1].id + Len(p) - 1
        BY <1>2, <2>1, <3>3
      <4> HIDE DEF id
      <4>2. IndexAfter(q, id) = Len(p) + 1
        BY <1>1, <1>2, <1>4, <2>3, <3>1, <4>1 DEF IndexAfter, IndexOfBatchId
      <4>3. QED BY <4>2 DEF id
    <3>4. QED BY <3>2, <3>3
  <2>4. QED BY <2>2, <2>3
<1>5. QED BY <1>3, <1>4

\* FillWritePipeline extends a prefix of the queue to a longer one, within the
\* capacity of the pipeline.
LEMMA FillFacts ==
    ASSUME NEW q \in Seq(Batch), QueueOrdered(q), NEW p, Prefix(p, q),
           Len(p) <= kMaxPendingWrites, NEW net \in BOOLEAN
    PROVE  LET f == FillPipeline(net, q, p)
               a == Added(net, q, p)
           IN  /\ Prefix(f, q)
               /\ Len(f) <= kMaxPendingWrites
               /\ a \in Seq(Batch)
               /\ Len(a) \in Nat
               /\ Len(f) = Len(p) + Len(a)
               /\ ~net => f = p
<1> DEFINE room == IF net THEN kMaxPendingWrites - Len(p) ELSE 0
           k == Len(p)
           m == Lesser(Len(q), k + 1 + room - 1)
           a == Added(net, q, p)
           f == FillPipeline(net, q, p)
<1>1. a = SubSeq(q, k + 1, m)
  BY IndexAfterPrefix DEF Added
<1>a. k \in Nat /\ Len(q) \in Nat /\ k <= Len(q) /\ kMaxPendingWrites \in Nat
  BY BatchFacts, WritePathAssumption DEF Prefix
<1>2. room \in Nat /\ k + room <= kMaxPendingWrites /\ (~net => room = 0)
  BY <1>a
<1>3. /\ k \in Nat /\ Len(q) \in Nat /\ m \in Nat
      /\ k <= m /\ m <= Len(q)
      /\ m <= kMaxPendingWrites
      /\ ~net => m = k
  <2> HIDE DEF room, k
  <2> QED BY <1>a, <1>2 DEF Lesser
<1> HIDE DEF room, m
<1>4. \A i \in k + 1 .. m : q[i] \in Batch
  BY <1>3, ElementOfSeq
<1>5. /\ a \in Seq(Batch)
      /\ Len(a) = m - k
      /\ \A i \in 1 .. m - k : a[i] = q[k + i]
  <2>1. /\ SubSeq(q, k + 1, m) \in Seq(Batch)
        /\ Len(SubSeq(q, k + 1, m)) = IF k + 1 <= m THEN m - (k + 1) + 1 ELSE 0
        /\ \A i \in 1 .. m - (k + 1) + 1 : SubSeq(q, k + 1, m)[i] = q[(k + 1) + i - 1]
    <3> HIDE DEF k
    <3>1. k + 1 \in Int /\ m \in Int
      BY <1>3
    <3>2. QED BY <1>4, <3>1, SubSeqProperties
  <2> HIDE DEF a, k
  <2>2. QED BY <1>1, <1>3, <2>1
<1>6. p \in Seq(Batch)
  BY DEF Prefix
<1>7. /\ f \in Seq(Batch)
      /\ Len(f) = k + Len(a)
      /\ \A i \in 1 .. k + Len(a) : f[i] = IF i <= k THEN p[i] ELSE a[i - k]
  BY <1>5, <1>6, ConcatProperties DEF FillPipeline
<1>8. f = p \/ net
  BY <1>3, <1>5, <1>6, EmptySeq, ConcatEmptySeq DEF FillPipeline
<1> HIDE DEF f, a, k
<1>9. Prefix(f, q)
  BY <1>3, <1>5, <1>7, SMTT(30) DEF Prefix, k
<1>10. Len(f) <= kMaxPendingWrites /\ Len(a) \in Nat /\ Len(f) = Len(p) + Len(a)
  BY <1>3, <1>5, <1>7 DEF k
<1>11. QED BY <1>5, <1>8, <1>9, <1>10 DEF f, a

\* The batch at the front of the queue is removed, and only it.
LEMMA RemoveFirst ==
    ASSUME NEW q \in Seq(Batch), QueueOrdered(q), q # <<>>
    PROVE  LET r == RemoveBatch(q, q[1].id)
           IN  /\ RemoveAsserts(q, q[1].id) = {}
               /\ r \in Seq(Batch)
               /\ Len(r) = Len(q) - 1
               /\ \A i \in 1 .. Len(r) : r[i] = q[i + 1]
               /\ QueueOrdered(r)
<1> DEFINE r == RemoveBatch(q, q[1].id)
<1>1. /\ Len(q) \in Nat \ {0} /\ 1 \in 1 .. Len(q)
      /\ \A i \in 1 .. Len(q) : q[i] \in Batch /\ q[i].id \in Nat
  BY BatchFacts
<1>2. RemoveAsserts(q, q[1].id) = {}
  BY <1>1 DEF RemoveAsserts, HardAssert
<1>3. r = SubSeq(q, 1, 0) \o SubSeq(q, 2, Len(q))
  <2>1. CASE Durable
    <3>1. \A n \in 1 .. Len(q) : q[n].id = q[1].id => n = 1
      BY <1>1, <2>1 DEF QueueOrdered
    <3>2. (CHOOSE n \in 1 .. Len(q) : q[n].id = q[1].id) = 1
      BY <1>1, <3>1
    <3>3. r = SubSeq(q, 1, 1 - 1) \o SubSeq(q, 1 + 1, Len(q))
      BY <2>1, <3>2, Zenon DEF RemoveBatch
    <3>4. QED BY <3>3
  <2>2. CASE ~Durable
    BY <2>2 DEF RemoveBatch
  <2>3. QED BY <2>1, <2>2
<1>4. SubSeq(q, 1, 0) = <<>> /\ SubSeq(q, 2, Len(q)) = Tail(q)
  BY <1>1, SubSeqEmpty, TailIsSubSeq
<1>5. /\ Tail(q) \in Seq(Batch)
      /\ Len(Tail(q)) = Len(q) - 1
      /\ \A i \in 1 .. Len(Tail(q)) : Tail(q)[i] = q[i + 1]
  BY HeadTailProperties
<1>6. r = Tail(q)
  BY <1>3, <1>4, <1>5, ConcatEmptySeq
<1> HIDE DEF r
<1>7. QueueOrdered(r)
  <2>1. CASE Durable
    BY <1>1, <1>5, <1>6, <2>1 DEF QueueOrdered
  <2>2. CASE ~Durable
    <3>1. \A i \in 1 .. Len(q) : q[i].id = q[1].id + i - 1
      BY <2>2 DEF QueueOrdered
    <3>2. \A i \in 1 .. Len(r) : r[i].id = r[1].id + i - 1
      BY <1>1, <1>5, <1>6, <3>1
    <3>3. QED BY <2>2, <3>2 DEF QueueOrdered
  <2>3. QED BY <2>1, <2>2
<1>8. QED BY <1>2, <1>5, <1>6, <1>7 DEF r

\* LoadNextBatchIdFromDb: the first id beyond those of all users.
LEMMA NextIdAtStart ==
    ASSUME NEW q \in [Users -> Seq(Batch)], NEW n, NEW u, Durable,
           \A v \in Users : \A i \in 1 .. Len(q[v]) : q[v][i].id < q[v][i].w
    PROVE  LET m == NextBatchIdAtStart(u, q, n)
           IN  /\ m \in Nat
               /\ \A v \in Users : \A i \in 1 .. Len(q[v]) : q[v][i].id < m
               /\ m = 0 \/ \E v \in Users : \E i \in 1 .. Len(q[v]) : q[v][i].id = m - 1
<1> DEFINE Above(m) == \A v \in Users : \A i \in 1 .. Len(q[v]) : q[v][i].id < m
           T == {m \in Nat : Above(m)}
           R == OpToRel(<, Nat)
<1>1. \A v \in Users : \A i \in 1 .. Len(q[v]) :
          q[v][i].id \in Nat /\ q[v][i].w \in Nat /\ q[v][i].w <= MaxWrites
  BY BatchFacts, WritePathAssumption DEF Writes
<1>2. MaxWrites \in T
  BY <1>1, WritePathAssumption
<1>3. PICK m \in T : \A k \in T : ~(<<k, m>> \in R)
  <2>1. T \subseteq Nat /\ T # {}
    BY <1>2
  <2> HIDE DEF T, R
  <2>2. IsWellFoundedOn(R, Nat)
    BY NatLessThanWellFounded DEF R
  <2>3. QED BY <2>1, <2>2, WFMin
<1>4. \A k \in T : ~(k < m)
  BY <1>3 DEF OpToRel
<1>5. m \in 0 .. MaxWrites
  BY <1>2, <1>4, WritePathAssumption
<1>6. m = 0 \/ \E v \in Users : \E i \in 1 .. Len(q[v]) : q[v][i].id = m - 1
  <2>1. SUFFICES ASSUME m # 0
                 PROVE  \E v \in Users : \E i \in 1 .. Len(q[v]) : q[v][i].id = m - 1
    OBVIOUS
  <2>a. m \in Nat /\ m - 1 \in Nat /\ m - 1 < m
    BY <1>5, <2>1, WritePathAssumption
  <2>2. ~Above(m - 1)
    <3> HIDE DEF Above
    <3> QED BY <1>4, <2>a
  <2>3. PICK v \in Users : \E i \in 1 .. Len(q[v]) : ~(q[v][i].id < m - 1)
    BY <2>2
  <2>4. PICK i \in 1 .. Len(q[v]) : ~(q[v][i].id < m - 1)
    BY <2>3
  <2>5. q[v][i].id \in Nat /\ q[v][i].id < m /\ m \in Nat
    BY <1>1, <1>3
  <2>6. q[v][i].id = m - 1
    BY <2>4, <2>5
  <2>7. QED BY <2>6
<1> DEFINE Good2(k) == /\ Above(k)
                       /\ k = 0 \/ \E v \in Users : \E i \in 1 .. Len(q[v]) : q[v][i].id = k - 1
           c == CHOOSE k \in 0 .. MaxWrites : Good2(k)
<1>7. \E k \in 0 .. MaxWrites : Good2(k)
  BY <1>3, <1>5, <1>6
<1>8. c \in 0 .. MaxWrites /\ Good2(c)
  <2> HIDE DEF Good2
  <2> QED BY <1>7
<1>9. NextBatchIdAtStart(u, q, n) = c
  BY Zenon DEF NextBatchIdAtStart, LoadNextBatchIdFromDb
<1>10. c \in Nat
  <2> HIDE DEF c
  <2> QED BY <1>8, WritePathAssumption
<1> HIDE DEF c
<1>11. QED BY <1>8, <1>9, <1>10

-----------------------------------------------------------------------------
(* Starting and stopping the write stream.                                 *)

\* A stream that is not started: no timers, no tokens to wait for.
Stopped(s, wq) == /\ Good(s)
                  /\ s.state \in {"Initial", "Error"}
                  /\ s.timers = {}
                  /\ TokensOK(s, wq)

ProviderType == [user : Users, counter : Nat, refresh : {"cached", "forced"},
                 cache : {"valid", "expired"}]

\* The GetToken call of a stream is well typed.
LEMMA RequestType ==
    ASSUME NEW s, Good(s), provider \in ProviderType
    PROVE  Request(s) \in TokenRequest /\ Request(s).closeCount = s.closeCount
<1>1. s.closeCount \in Nat /\ provider.counter \in Nat /\ provider.refresh \in {"cached", "forced"}
  BY DEF Good, StreamType, ProviderType
<1>2. QED BY <1>1 DEF Request, TokenRequest

\* So is the provider after InvalidateToken and GetToken.
LEMMA RefreshedType ==
    ASSUME NEW s, NEW t, NEW status, provider \in ProviderType
    PROVE  Refreshed(s, t, status) \in ProviderType
BY DEF Refreshed, ProviderType

\* Close leaves a stopped stream with a new close count.
LEMMA CloseStops ==
    ASSUME NEW s, Good(s), IsStarted(s), NEW status, NEW wq \in Seq(WorkItem), TokensOK(s, wq)
    PROVE  Stopped(Close(s, status), wq)
<1> DEFINE t == Close(s, status)
<1>1. /\ Good(t) /\ t.closeCount = s.closeCount + 1 /\ t.timers = {} /\ t.requests = s.requests
      /\ t.state \in {"Initial", "Error"}
  BY CloseFacts
<1> HIDE DEF t
<1>2. TokensOK(t, wq)
  BY <1>1, TokensClose
<1>3. Stopped(t, wq)
  BY <1>1, <1>2 DEF Stopped
<1>4. QED BY <1>3 DEF t

\* A stopped stream that is needed starts to wait, for a token or for the end of
\* the backoff; one that is not needed stays as it is.
LEMMA StartIfNeeded ==
    ASSUME NEW s, NEW wq, Stopped(s, wq), NEW net \in BOOLEAN, NEW p, provider \in ProviderType
    PROVE  LET t == StartWriteStreamIfNeeded(net, p, s)
           IN  /\ Good(t)
               /\ ~IsOpen(t)
               /\ "idle" \notin t.timers
               /\ "backoff" \in t.timers <=> t.state = "Backoff"
               /\ TokensOK(t, wq)
               /\ IsStarted(t) <=> (net /\ p # <<>>)
<1> DEFINE t == StartWriteStreamIfNeeded(net, p, s)
           r == Request(s)
<1>1. Good(s) /\ s.timers = {} /\ TokensOK(s, wq) /\ ~IsStarted(s) /\ ~IsOpen(s)
      /\ s.state \in {"Initial", "Error"} /\ s.state # "Starting" /\ s.state # "Backoff"
      /\ s.closeCount \in Nat
  BY DEF Stopped, Good, StreamType, IsStarted, IsOpen
<1>2. CASE net /\ p # <<>>
  <2>1. t = Start(s, r)
    BY <1>1, <1>2 DEF StartWriteStreamIfNeeded, ShouldStartWriteStream
  <2>2. r \in TokenRequest /\ r.closeCount = s.closeCount
    BY <1>1, RequestType
  <2> HIDE DEF r, t
  <2>a. Good(s) /\ r \in TokenRequest /\ s.state \in {"Initial", "Error"}
    BY <1>1, <2>2
  <2>b. /\ Good(Start(s, r))
        /\ Start(s, r).state = IF s.state = "Error" THEN "Backoff" ELSE "Starting"
        /\ Start(s, r).closeCount = s.closeCount
        /\ Start(s, r).timers = IF s.state = "Error" THEN s.timers \cup {"backoff"} ELSE s.timers
        /\ Start(s, r).requests = IF s.state = "Error" THEN s.requests ELSE s.requests \cup {r}
    BY <2>a, StartFacts, Zenon
  <2>3. /\ Good(t)
        /\ t.state = IF s.state = "Error" THEN "Backoff" ELSE "Starting"
        /\ t.closeCount = s.closeCount
        /\ t.timers = IF s.state = "Error" THEN s.timers \cup {"backoff"} ELSE s.timers
        /\ t.requests = IF s.state = "Error" THEN s.requests ELSE s.requests \cup {r}
    BY <2>1, <2>b, Zenon
  <2> HIDE DEF t
  <2>4. TokensOK(t, wq)
    <3>1. CASE s.state = "Error"
      BY <1>1, <2>3, <3>1, TokensSame
    <3>2. CASE s.state # "Error"
      BY <1>1, <2>2, <2>3, <3>2, TokensStart
    <3>3. QED BY <3>1, <3>2
  <2>5. ~IsOpen(t) /\ IsStarted(t)
    BY <2>3 DEF IsOpen, IsStarted
  <2>6. "idle" \notin t.timers /\ ("backoff" \in t.timers <=> t.state = "Backoff")
    BY <1>1, <2>3
  <2>7. QED BY <1>2, <2>3, <2>4, <2>5, <2>6 DEF t
<1>3. CASE ~(net /\ p # <<>>)
  <2>1. t = s
    BY <1>1, <1>3 DEF StartWriteStreamIfNeeded, ShouldStartWriteStream
  <2>2. QED BY <1>1, <1>3, <2>1
<1>4. QED BY <1>2, <1>3

\* FillWritePipeline on a stream that is not open just starts it if needed.
LEMMA FillStreamClosed ==
    ASSUME NEW s, ~IsOpen(s), NEW net, NEW q, NEW p, NEW h
    PROVE  FillStream(net, q, p, s, h) = StartWriteStreamIfNeeded(net, FillPipeline(net, q, p), s)
BY DEF FillStream, MarkIdle

\* FillWritePipeline on an open stream: it stays open, and the idle timer runs
\* only when there is nothing left to write.
LEMMA FillStreamOpen ==
    ASSUME NEW s, Good(s), IsOpen(s), NEW net \in BOOLEAN, NEW q, NEW p, NEW h \in BOOLEAN
    PROVE  LET f == FillPipeline(net, q, p)
               a == Added(net, q, p)
               t == FillStream(net, q, p, s, h)
           IN  /\ Good(t)
               /\ t.state = s.state
               /\ t.closeCount = s.closeCount
               /\ t.requests = s.requests
               /\ "backoff" \in t.timers <=> "backoff" \in s.timers
               /\ "idle" \in t.timers =>
                     \/ "idle" \in s.timers /\ ~(a # <<>> /\ h)
                     \/ net /\ f = <<>>
<1> DEFINE f == FillPipeline(net, q, p)
           a == Added(net, q, p)
           sent == IF a # <<>> /\ IsOpen(s) /\ h THEN WriteTo(s) ELSE s
           marked == IF net /\ f = <<>> THEN MarkIdle(sent) ELSE sent
<1>1. /\ Good(sent)
      /\ sent.state = s.state
      /\ sent.closeCount = s.closeCount
      /\ sent.requests = s.requests
      /\ sent.timers = IF a # <<>> /\ h THEN s.timers \ {"idle"} ELSE s.timers
  <2> HIDE DEF a
  <2>1. CASE a # <<>> /\ h
    BY <2>1, WriteToFacts
  <2>2. CASE ~(a # <<>> /\ h)
    BY <2>2
  <2>3. QED BY <2>1, <2>2
<1>2. IsOpen(sent)
  BY <1>1 DEF IsOpen
<1> HIDE DEF a, f, sent
<1>3. /\ Good(marked)
      /\ marked.state = s.state
      /\ marked.closeCount = s.closeCount
      /\ marked.requests = s.requests
      /\ marked.timers = IF net /\ f = <<>> THEN sent.timers \cup {"idle"} ELSE sent.timers
  <2>1. CASE net /\ f = <<>>
    BY <1>1, <1>2, <2>1, MarkIdleFacts
  <2>2. CASE ~(net /\ f = <<>>)
    BY <1>1, <2>2
  <2>3. QED BY <2>1, <2>2
<1>4. IsStarted(marked)
  BY <1>3 DEF IsOpen, IsStarted
<1> HIDE DEF marked
<1>5. FillStream(net, q, p, s, h) = StartWriteStreamIfNeeded(net, f, marked)
  BY DEF FillStream, f, a, sent, marked
<1>6. FillStream(net, q, p, s, h) = marked
  BY <1>4, <1>5 DEF StartWriteStreamIfNeeded, ShouldStartWriteStream
<1>7. "backoff" \in marked.timers <=> "backoff" \in s.timers
  BY <1>1, <1>3
<1>8. "idle" \in marked.timers => ("idle" \in s.timers /\ ~(a # <<>> /\ h)) \/ (net /\ f = <<>>)
  BY <1>1, <1>3
<1>9. QED BY <1>3, <1>6, <1>7, <1>8 DEF f, a

\* The requests that FillWritePipeline adds to the call.
LEMMA CallSent ==
    ASSUME NEW c \in CallType, NEW x \in Seq({Handshake} \cup Writes)
    PROVE  LET d == [c EXCEPT !.toServer = @ \o x]
           IN  /\ d \in CallType
               /\ d.user = c.user /\ d.status = c.status /\ d.toClient = c.toClient
               /\ d.toServer = c.toServer \o x
               /\ Len(d.toServer) = Len(c.toServer) + Len(x)
<1> DEFINE d == [c EXCEPT !.toServer = @ \o x]
<1>1. /\ d.user = c.user /\ d.status = c.status /\ d.toClient = c.toClient
      /\ d.toServer = c.toServer \o x
  BY DEF CallType
<1>2. c.toServer \in Seq({Handshake} \cup Writes)
  BY DEF CallType
<1>3. c.toServer \o x \in Seq({Handshake} \cup Writes) /\ Len(c.toServer \o x) = Len(c.toServer) + Len(x)
  BY <1>2, ConcatProperties
<1>4. d \in CallType
  BY <1>3 DEF CallType
<1>5. QED BY <1>1, <1>3, <1>4

\* FillWritePipeline keeps the stream, its call, the tokens and the pipeline
\* consistent.
LEMMA FillKeeps ==
    ASSUME NEW q \in Seq(Batch), QueueOrdered(q), NEW p, Prefix(p, q),
           Len(p) <= kMaxPendingWrites, NEW net \in BOOLEAN, NEW s, Good(s),
           NEW h \in BOOLEAN, NEW c \in CallType, NEW wq, provider \in ProviderType,
           StreamOK(net, p, s, h, c), TokensOK(s, wq), InFlightOK(p, s, h, c)
    PROVE  LET f == FillPipeline(net, q, p)
               t == FillStream(net, q, p, s, h)
               d == [c EXCEPT !.toServer = @ \o FillSent(net, q, p, s, h)]
           IN  /\ Good(t)
               /\ d \in CallType
               /\ StreamOK(net, f, t, h, d)
               /\ TokensOK(t, wq)
               /\ InFlightOK(f, t, h, d)
<1> DEFINE f == FillPipeline(net, q, p)
           a == Added(net, q, p)
           t == FillStream(net, q, p, s, h)
           x == FillSent(net, q, p, s, h)
           d == [c EXCEPT !.toServer = @ \o x]
<1>1. /\ Prefix(f, q)
      /\ Len(f) <= kMaxPendingWrites
      /\ a \in Seq(Batch)
      /\ Len(a) \in Nat
      /\ Len(f) = Len(p) + Len(a)
  BY FillFacts
<1>2. /\ p \in Seq(Batch) /\ f \in Seq(Batch)
      /\ Len(p) \in Nat
      /\ p = <<>> <=> Len(p) = 0
      /\ f = <<>> <=> Len(f) = 0
      /\ a = <<>> <=> Len(a) = 0
  BY <1>1, BatchFacts DEF Prefix
<1>3. /\ x \in Seq({Handshake} \cup Writes)
      /\ Len(x) = IF IsOpen(s) /\ h THEN Len(a) ELSE 0
      /\ ~IsOpen(s) => x = <<>>
  <2> HIDE DEF a
  <2>1. FillSent(net, q, p, s, h) = IF IsOpen(s) /\ h THEN Requests(a) ELSE <<>>
    BY DEF FillSent, a
  <2>2. QED BY <1>1, <2>1, RequestsFacts, EmptySeq
<1> HIDE DEF x
<1>4. /\ d \in CallType
      /\ d.user = c.user /\ d.status = c.status /\ d.toClient = c.toClient
      /\ d.toServer = c.toServer \o x
      /\ Len(d.toServer) = Len(c.toServer) + Len(x)
  BY <1>3, CallSent
<1>5. Len(c.toServer) \in Nat /\ Len(c.toClient) \in Nat
  BY LenProperties DEF CallType
<1> HIDE DEF f, a, d
<1>a. PICK out \in Nat, inc \in Nat : Len(c.toServer) = out /\ Len(c.toClient) = inc
  BY <1>5
<1>b. Len(d.toClient) = inc /\ Len(d.toServer) = out + Len(x)
  BY <1>4, <1>a
<1>6. CASE IsOpen(s)
  <2>1. /\ Good(t)
        /\ t.state = s.state
        /\ t.closeCount = s.closeCount
        /\ t.requests = s.requests
        /\ "backoff" \in t.timers <=> "backoff" \in s.timers
        /\ "idle" \in t.timers =>
              \/ "idle" \in s.timers /\ ~(a # <<>> /\ h)
              \/ net /\ f = <<>>
    BY <1>6, FillStreamOpen DEF f, a
  <2> HIDE DEF t
  <2>2. TokensOK(t, wq)
    BY <2>1, TokensSame
  <2>3. IsOpen(t) /\ IsStarted(t) /\ IsStarted(s)
    BY <1>6, <2>1 DEF IsOpen, IsStarted
  <2>4. "idle" \in t.timers => h /\ f = <<>>
    BY <1>1, <1>2, <2>1, <2>3 DEF StreamOK
  <2>5. StreamOK(net, f, t, h, d)
    BY <1>1, <1>2, <1>4, <1>6, <2>1, <2>3, <2>4 DEF StreamOK
  <2>6. InFlightOK(f, t, h, d)
    <3>1. CASE h
      <4>1. Len(x) = Len(a) /\ inc + out = Len(p)
        BY <1>3, <1>6, <1>a, <3>1 DEF InFlightOK
      <4>2. inc + (out + Len(x)) = Len(f)
        BY <1>1, <1>2, <4>1, SMTT(30)
      <4>3. QED BY <1>b, <3>1, <4>2 DEF InFlightOK
    <3>2. CASE ~h
      <4>1. Len(x) = 0 /\ inc + out = 1
        BY <1>3, <1>6, <1>a, <3>2 DEF InFlightOK
      <4>2. inc + (out + Len(x)) = 1
        BY <4>1
      <4>3. QED BY <1>b, <3>2, <4>2 DEF InFlightOK
    <3>3. QED BY <3>1, <3>2
  <2>7. QED BY <1>4, <2>1, <2>2, <2>5, <2>6 DEF f, t, d, x
<1>7. CASE ~IsOpen(s)
  <2>1. t = StartWriteStreamIfNeeded(net, f, s)
    BY <1>7, FillStreamClosed DEF f
  <2>2. /\ d.toServer = <<>> /\ d.toClient = <<>> /\ d.status = "ok" /\ ~h
        /\ d.user = NoUser
    BY <1>3, <1>4, <1>7 DEF StreamOK
  <2>3. CASE IsStarted(s)
    <3>1. t = s
      BY <2>1, <2>3 DEF StartWriteStreamIfNeeded, ShouldStartWriteStream
    <3> HIDE DEF t
    <3>2. StreamOK(net, f, t, h, d)
      BY <1>1, <1>2, <1>7, <2>2, <2>3, <3>1 DEF StreamOK
    <3>3. InFlightOK(f, t, h, d)
      BY <1>7, <3>1 DEF InFlightOK
    <3>4. QED BY <1>4, <3>1, <3>2, <3>3 DEF f, t, d, x
  <2>4. CASE ~IsStarted(s)
    <3>1. s.state \in {"Initial", "Error"} /\ s.timers \subseteq {"idle", "backoff"}
      BY <2>4 DEF Good, StreamType, States, IsStarted
    <3>2. "idle" \notin s.timers /\ "backoff" \notin s.timers
      BY <1>7, <3>1 DEF StreamOK
    <3>3. Stopped(s, wq)
      BY <3>1, <3>2 DEF Stopped
    <3>4. /\ Good(t)
          /\ ~IsOpen(t)
          /\ "idle" \notin t.timers
          /\ "backoff" \in t.timers <=> t.state = "Backoff"
          /\ TokensOK(t, wq)
          /\ IsStarted(t) <=> (net /\ f # <<>>)
      BY <2>1, <3>3, StartIfNeeded
    <3> HIDE DEF t
    <3>5. StreamOK(net, f, t, h, d)
      BY <2>2, <3>4 DEF StreamOK
    <3>6. InFlightOK(f, t, h, d)
      BY <3>4 DEF InFlightOK
    <3>7. QED BY <1>4, <3>4, <3>5, <3>6 DEF f, t, d, x
  <2>5. QED BY <2>3, <2>4
<1>8. QED BY <1>6, <1>7

-----------------------------------------------------------------------------
(* The invariant in three parts: the local store, what is recorded for the *)
(* properties, and the remote store with all it talks to.                  *)

StoreInv ==
    /\ queue \in [Users -> Seq(Batch)]
    /\ nextBatchId \in [Users -> Nat]
    /\ user \in Users
    /\ owner \in [Writes -> UserOrNone]
    /\ QueuesOrdered

RecordInv ==
    /\ savedToken \in [Users -> UserOrNone]
    /\ streamToken \in UserOrNone
    /\ completions \subseteq [user : Users, id : Nat, w : Writes]
    /\ committed \in Seq([w : Writes, user : Users])
    /\ refused \subseteq Writes
    /\ calls \in Seq([w : Writes, result : {"ok", "error"}])
    /\ budget \in [faults : Nat, auth : Nat, toggles : Nat, restarts : Nat]

RemoteInv ==
    /\ isNetworkEnabled \in BOOLEAN
    /\ handshake \in BOOLEAN
    /\ Good(stream)
    /\ failed = {}
    /\ call \in CallType
    /\ workQueue \in Seq(WorkItem)
    /\ provider \in ProviderType
    /\ Prefix(pipeline, queue[user])
    /\ Len(pipeline) <= kMaxPendingWrites
    /\ ~isNetworkEnabled => pipeline = <<>>
    /\ StreamOK(isNetworkEnabled, pipeline, stream, handshake, call)
    /\ TokensOK(stream, workQueue)
    /\ InFlightOK(pipeline, stream, handshake, call)

\* What holds after a failed assertion too, and is enough to start a new process.
LEMMA DurableParts == IInv => StoreInv /\ RecordInv /\ provider \in ProviderType
BY DEF IInv, TypeOK, StoreInv, RecordInv, ProviderType

\* While the process runs, the invariant splits into a part on queues, one on
\* records kept for the application and the backend, and one on RemoteStore.
LEMMA InvParts == IInv /\ NoHardAssertFails => StoreInv /\ RecordInv /\ RemoteInv
<1> SUFFICES ASSUME IInv, NoHardAssertFails PROVE StoreInv /\ RecordInv /\ RemoteInv
  OBVIOUS
<1>2. StoreInv /\ RecordInv
  BY DurableParts
<1>3. queue[user] \in Seq(Batch) /\ pipeline \in Seq(Batch)
  BY DEF IInv, TypeOK
<1>4. Prefix(pipeline, queue[user])
  BY <1>3, PrefixIsSubSeq DEF IInv, PipelineIsQueuePrefix
<1>5. RemoteInv
  BY <1>4 DEF IInv, TypeOK, PipelineIsQueuePrefix, NoHardAssertFails, RemoteInv, Good, ProviderType
<1>6. QED BY <1>2, <1>5

\* The parts make up the invariant.
LEMMA InvFromParts == StoreInv /\ RecordInv /\ RemoteInv => IInv
<1> SUFFICES ASSUME StoreInv, RecordInv, RemoteInv PROVE IInv
  OBVIOUS
<1>2. TypeOK
  BY DEF StoreInv, RecordInv, RemoteInv, TypeOK, Good, Prefix, ProviderType
<1>3. queue[user] \in Seq(Batch) /\ pipeline \in Seq(Batch) /\ Len(pipeline) <= Len(queue[user])
  BY DEF StoreInv, RemoteInv, Prefix
<1>4. PipelineIsQueuePrefix
  BY <1>3, PrefixIsSubSeq DEF RemoteInv, PipelineIsQueuePrefix
<1>5. QED BY <1>2, <1>4 DEF IInv, StoreInv, RemoteInv, OnlyGracefulEndAborts, Good

\* The same for the next state.
LEMMA InvFromPartsNext == StoreInv' /\ RecordInv' /\ RemoteInv' => IInv'
<1> SUFFICES ASSUME StoreInv', RecordInv', RemoteInv' PROVE IInv'
  OBVIOUS
<1>2. TypeOK'
  BY DEF StoreInv, RecordInv, RemoteInv, TypeOK, Good, Prefix, ProviderType
<1>3. queue'[user'] \in Seq(Batch) /\ pipeline' \in Seq(Batch) /\ Len(pipeline') <= Len(queue'[user'])
  BY DEF StoreInv, RemoteInv, Prefix
<1>4. PipelineIsQueuePrefix'
  BY <1>3, PrefixIsSubSeq DEF RemoteInv, PipelineIsQueuePrefix
<1>5. QED BY <1>2, <1>4 DEF IInv, StoreInv, RemoteInv, OnlyGracefulEndAborts, Good

\* A step that leaves the mutation queues alone.
LEMMA StoreSame ==
    ASSUME StoreInv, UNCHANGED <<queue, nextBatchId, user, owner>>
    PROVE  StoreInv'
BY DEF StoreInv, QueuesOrdered, NextIdContinues, IdsBounded, QueueOrdered

\* A step that takes the first batch off the current user's queue.
LEMMA StorePop ==
    ASSUME StoreInv, queue[user] # <<>>,
           queue' = [queue EXCEPT ![user] = RemoveBatch(queue[user], queue[user][1].id)],
           UNCHANGED <<nextBatchId, user, owner>>
    PROVE  StoreInv'
<1> DEFINE q == queue[user]
           r == RemoveBatch(q, q[1].id)
<1>1. q \in Seq(Batch) /\ QueueOrdered(q) /\ user \in Users
  BY DEF StoreInv, QueuesOrdered
<1>2. /\ r \in Seq(Batch)
      /\ Len(r) = Len(q) - 1
      /\ \A i \in 1 .. Len(r) : r[i] = q[i + 1]
      /\ QueueOrdered(r)
  BY <1>1, RemoveFirst
<1>3. /\ Len(q) \in Nat \ {0}
      /\ \A i \in 1 .. Len(q) : q[i].id \in Nat
      /\ \A i \in 1 .. Len(r) : i + 1 \in 1 .. Len(q)
      /\ r = <<>> <=> Len(r) = 0
  <2> HIDE DEF q, r
  <2>1. Len(q) \in Nat /\ Len(q) # 0 /\ \A i \in 1 .. Len(q) : q[i].id \in Nat
    BY <1>1, BatchFacts DEF q
  <2>2. r = <<>> <=> Len(r) = 0
    BY <1>2, BatchFacts
  <2>3. QED BY <1>2, <2>1, <2>2
<1> HIDE DEF r
<1>4. /\ queue' \in [Users -> Seq(Batch)]
      /\ queue'[user'] = r
      /\ \A u \in Users : queue'[u] = r \/ queue'[u] = queue[u]
      /\ \A u \in Users : u # user => queue'[u] = queue[u]
  BY <1>1, <1>2 DEF StoreInv, r
<1>5. \A u \in Users : QueueOrdered(queue'[u])
  BY <1>2, <1>4 DEF StoreInv, QueuesOrdered
<1>6. (\A u \in Users : QueueOrdered(queue[u]))'
  BY <1>5 DEF QueueOrdered
<1>7. NextIdContinues'
  <2>1. CASE Durable
    BY <1>2, <1>3, <1>4, <2>1, ZenonT(60) DEF StoreInv, QueuesOrdered, NextIdContinues
  <2>2. CASE ~Durable
    <3>1. SUFFICES ASSUME NEW u \in Users, queue'[u] # <<>>
                   PROVE  nextBatchId[u] = queue'[u][1].id + Len(queue'[u])
      BY <2>2 DEF NextIdContinues
    <3>2. CASE u # user
      BY <1>4, <2>2, <3>1, <3>2 DEF StoreInv, QueuesOrdered, NextIdContinues
    <3>3. CASE u = user
      <4>1. nextBatchId[u] = q[1].id + Len(q)
        BY <2>2, <3>3, <1>1 DEF StoreInv, QueuesOrdered, NextIdContinues
      <4>2. \A i \in 1 .. Len(q) : q[i].id = q[1].id + i - 1
        BY <1>1, <2>2 DEF QueueOrdered
      <4>3. Len(r) \in Nat \ {0} /\ r[1] = q[2] /\ 2 \in 1 .. Len(q)
        BY <1>2, <1>3, <1>4, <3>1, <3>3
      <4>4. r[1].id = q[1].id + 1
        BY <1>3, <4>2, <4>3
      <4>5. q[1].id + Len(q) = r[1].id + Len(r)
        <5>1. PICK first \in Nat, n \in Nat : first = q[1].id /\ n = Len(q)
          BY <1>3
        <5>2. r[1].id = first + 1 /\ Len(r) = n - 1
          BY <1>2, <4>4, <5>1
        <5>3. first + n = (first + 1) + (n - 1)
          BY <5>1
        <5>4. QED BY <5>1, <5>2, <5>3
      <4>6. QED BY <1>4, <3>3, <4>1, <4>5
    <3>4. QED BY <3>2, <3>3
  <2>3. QED BY <2>1, <2>2
<1>8. IdsBounded'
  <2>1. SUFFICES ASSUME Durable PROVE IdsBounded'
    BY DEF IdsBounded
  <2>2. \A u \in Users : \A i \in 1 .. Len(queue'[u]) :
            \E j \in 1 .. Len(queue[u]) : queue'[u][i] = queue[u][j]
    BY <1>2, <1>3, <1>4
  <2>3. \A u \in Users : \A i \in 1 .. Len(queue'[u]) :
            queue'[u][i].id < queue'[u][i].w /\ owner[queue'[u][i].w] # NoUser
    <3>1. \A u \in Users : \A j \in 1 .. Len(queue[u]) :
              queue[u][j].id < queue[u][j].w /\ owner[queue[u][j].w] # NoUser
      BY <2>1 DEF StoreInv, QueuesOrdered, IdsBounded
    <3>2. QED BY <2>2, <3>1, ZenonT(60)
  <2>4. QED BY <2>1, <2>3 DEF StoreInv, QueuesOrdered, IdsBounded
<1>9. QED BY <1>4, <1>6, <1>7, <1>8 DEF StoreInv, QueuesOrdered

\* A step that adds the next write to the current user's queue.
LEMMA StoreAppend ==
    ASSUME StoreInv, NEW w \in Writes, owner[w] = NoUser,
           \A v \in Writes : v < w => owner[v] # NoUser,
           owner' = [owner EXCEPT ![w] = user],
           queue' = [queue EXCEPT ![user] =
                        Append(queue[user], [id |-> nextBatchId[user], w |-> w])],
           nextBatchId' = [nextBatchId EXCEPT ![user] = @ + 1],
           UNCHANGED user
    PROVE  StoreInv'
<1> DEFINE q == queue[user]
           b == [id |-> nextBatchId[user], w |-> w]
           r == Append(q, b)
<1>1. /\ q \in Seq(Batch) /\ QueueOrdered(q) /\ user \in Users /\ nextBatchId[user] \in Nat
      /\ b \in Batch /\ b.id = nextBatchId[user] /\ b.w = w
      /\ user # NoUser
  BY WritePathAssumption DEF StoreInv, QueuesOrdered, Batch
<1> HIDE DEF b
<1>2. /\ r \in Seq(Batch)
      /\ Len(r) = Len(q) + 1
      /\ \A i \in 1 .. Len(q) : r[i] = q[i]
      /\ r[Len(q) + 1] = b
      /\ r # <<>>
  BY <1>1, AppendProperties
<1>3. /\ Len(q) \in Nat
      /\ \A i \in 1 .. Len(q) : q[i].id \in Nat
      /\ q = <<>> <=> Len(q) = 0
  BY <1>1, BatchFacts
<1> HIDE DEF q, r
<1>a. \A i \in 1 .. Len(r) : (i \in 1 .. Len(q) /\ r[i] = q[i]) \/ (i = Len(q) + 1 /\ r[i] = b)
  BY <1>2, <1>3
<1>4. /\ queue' \in [Users -> Seq(Batch)]
      /\ queue'[user] = r
      /\ \A u \in Users : u # user => queue'[u] = queue[u]
      /\ nextBatchId' \in [Users -> Nat]
      /\ nextBatchId'[user] = nextBatchId[user] + 1
      /\ \A u \in Users : u # user => nextBatchId'[u] = nextBatchId[u]
  BY <1>1, <1>2 DEF StoreInv, q, b, r
<1>5. /\ owner' \in [Writes -> UserOrNone]
      /\ owner'[w] = user
      /\ \A v \in Writes : v # w => owner'[v] = owner[v]
  BY <1>1 DEF StoreInv, UserOrNone
<1>b. Durable => \A i \in 1 .. Len(q) : q[i].id < nextBatchId[user]
  BY DEF StoreInv, QueuesOrdered, NextIdContinues, q
<1>c. ~Durable => (q # <<>> => nextBatchId[user] = q[1].id + Len(q))
  BY <1>1 DEF StoreInv, QueuesOrdered, NextIdContinues, q
<1>6. QueueOrdered(r)
  <2>1. CASE Durable
    <3>1. \A i, j \in 1 .. Len(q) : i < j => q[i].id < q[j].id
      BY <1>1, <2>1 DEF QueueOrdered
    <3>2. ASSUME NEW i \in 1 .. Len(r), NEW j \in 1 .. Len(r), i < j PROVE r[i].id < r[j].id
      <4>1. i \in 1 .. Len(q) /\ r[i] = q[i]
        BY <1>2, <1>3, <3>2
      <4>2. CASE j \in 1 .. Len(q) /\ r[j] = q[j]
        BY <3>1, <3>2, <4>1, <4>2
      <4>3. CASE j = Len(q) + 1 /\ r[j] = b
        BY <1>1, <1>b, <2>1, <4>1, <4>3
      <4>4. QED BY <1>a, <4>2, <4>3
    <3>3. QED BY <2>1, <3>2 DEF QueueOrdered
  <2>2. CASE ~Durable
    <3>1. \A i \in 1 .. Len(q) : q[i].id = q[1].id + i - 1
      BY <1>1, <2>2 DEF QueueOrdered
    <3>2. CASE q = <<>>
      <4>1. Len(r) = 1 /\ r[1] = b /\ b.id \in Nat
        BY <1>1, <1>2, <1>3, <3>2
      <4>2. \A i \in 1 .. Len(r) : r[i].id = r[1].id + i - 1
        BY <4>1
      <4>3. QED BY <2>2, <4>2 DEF QueueOrdered
    <3>3. CASE q # <<>>
      <4>1. r[1] = q[1] /\ q[1].id \in Nat /\ b.id = q[1].id + Len(q)
        BY <1>1, <1>2, <1>3, <1>c, <2>2, <3>3
      <4>2. \A i \in 1 .. Len(r) : r[i].id = r[1].id + i - 1
        BY <1>3, <1>a, <3>1, <4>1, SMTT(30)
      <4>3. QED BY <2>2, <4>2 DEF QueueOrdered
    <3>4. QED BY <3>2, <3>3
  <2>3. QED BY <2>1, <2>2
<1>7. \A u \in Users : QueueOrdered(queue'[u])
  BY <1>4, <1>6 DEF StoreInv, QueuesOrdered
<1>8. (\A u \in Users : QueueOrdered(queue[u]))'
  BY <1>7 DEF QueueOrdered
<1>9. NextIdContinues'
  <2>1. CASE Durable
    <3>1. \A i \in 1 .. Len(r) : r[i].id < nextBatchId[user] + 1
      BY <1>1, <1>3, <1>a, <1>b, <2>1
    <3>2. QED BY <1>4, <2>1, <3>1 DEF NextIdContinues
  <2>2. CASE ~Durable
    <3>1. nextBatchId[user] + 1 = r[1].id + Len(r)
      <4>1. CASE q = <<>>
        BY <1>1, <1>2, <1>3, <4>1
      <4>2. CASE q # <<>>
        <5>1. PICK first \in Nat, n \in Nat : first = q[1].id /\ n = Len(q) /\ n # 0
          BY <1>3, <4>2
        <5>2. r[1].id = first /\ Len(r) = n + 1 /\ nextBatchId[user] = first + n
          BY <1>2, <1>c, <2>2, <4>2, <5>1
        <5>3. \A x, y \in Nat : (x + y) + 1 = x + (y + 1)
          OBVIOUS
        <5>4. QED BY <5>1, <5>2, <5>3
      <4>3. QED BY <4>1, <4>2
    <3>2. \A u \in Users : queue'[u] # <<>> => nextBatchId'[u] = queue'[u][1].id + Len(queue'[u])
      <4>1. \A u \in Users : u # user /\ queue[u] # <<>> =>
                nextBatchId[u] = queue[u][1].id + Len(queue[u])
        BY <2>2 DEF StoreInv, QueuesOrdered, NextIdContinues
      <4>2. QED BY <1>4, <3>1, <4>1
    <3>3. QED BY <2>2, <3>2 DEF NextIdContinues
  <2>3. QED BY <2>1, <2>2
<1>10. IdsBounded'
  <2> SUFFICES ASSUME Durable PROVE IdsBounded'
    BY DEF IdsBounded
  <2>1. /\ \A u \in Users : \A i \in 1 .. Len(queue[u]) :
              queue[u][i].id < queue[u][i].w /\ owner[queue[u][i].w] # NoUser
        /\ \A v, x \in Writes : (owner[v] # NoUser /\ owner[x] = NoUser) => v < x
        /\ \A x \in Writes : owner[x] = NoUser => nextBatchId[user] < x
    BY DEF StoreInv, QueuesOrdered, IdsBounded
  <2>2. \A x \in Writes : x \in Nat
    BY WritePathAssumption DEF Writes
  <2>3. \A x \in Writes : owner'[x] = NoUser => x # w /\ owner[x] = NoUser /\ w < x
    BY <1>1, <1>5, <2>2
  <2>4. \A u \in Users : \A i \in 1 .. Len(queue[u]) : queue[u][i].w \in Writes
    BY BatchFacts DEF StoreInv
  <2>5. \A x \in Writes : owner[x] # NoUser => owner'[x] # NoUser
    BY <1>1, <1>5
  <2>6. \A u \in Users : \A i \in 1 .. Len(queue'[u]) :
            queue'[u][i].id < queue'[u][i].w /\ owner'[queue'[u][i].w] # NoUser
    <3>1. b.id < b.w /\ owner'[b.w] # NoUser
      BY <1>1, <1>5, <2>1
    <3>2. SUFFICES ASSUME NEW u \in Users, NEW i \in 1 .. Len(queue'[u])
                   PROVE  \/ queue'[u][i] = b
                          \/ \E j \in 1 .. Len(queue[u]) : queue'[u][i] = queue[u][j]
      BY <2>1, <2>4, <2>5, <3>1
    <3>3. CASE u = user
      BY <1>4, <1>a, <3>3 DEF q
    <3>4. CASE u # user
      BY <1>4, <3>4
    <3>5. QED BY <3>3, <3>4
  <2>7. \A v, x \in Writes : (owner'[v] # NoUser /\ owner'[x] = NoUser) => v < x
    BY <1>5, <2>1, <2>3
  <2>8. \A x \in Writes : owner'[x] = NoUser => nextBatchId'[user] < x
    BY <1>1, <1>4, <2>1, <2>2, <2>3
  <2>9. QED BY <2>6, <2>7, <2>8 DEF IdsBounded
<1>11. QED BY <1>1, <1>4, <1>5, <1>8, <1>9, <1>10 DEF StoreInv, QueuesOrdered

\* A step that starts the queue of another user.
LEMMA StoreUser ==
    ASSUME StoreInv, NEW u \in Users, user' = u, UNCHANGED <<queue, owner>>,
           nextBatchId' = [nextBatchId EXCEPT ![u] = NextBatchIdAtStart(u, queue, nextBatchId)]
    PROVE  StoreInv'
<1> DEFINE m == NextBatchIdAtStart(u, queue, nextBatchId)
<1>0. (\A v \in Users : QueueOrdered(queue[v]))'
  BY DEF StoreInv, QueuesOrdered, QueueOrdered
<1>1. CASE Durable
  <2>1. /\ \A v \in Users : \A i \in 1 .. Len(queue[v]) :
              queue[v][i].id < queue[v][i].w /\ owner[queue[v][i].w] # NoUser
        /\ \A v, x \in Writes : (owner[v] # NoUser /\ owner[x] = NoUser) => v < x
    BY <1>1 DEF StoreInv, QueuesOrdered, IdsBounded
  <2>2. /\ m \in Nat
        /\ \A v \in Users : \A i \in 1 .. Len(queue[v]) : queue[v][i].id < m
        /\ m = 0 \/ \E v \in Users : \E i \in 1 .. Len(queue[v]) : queue[v][i].id = m - 1
    <3>1. queue \in [Users -> Seq(Batch)]
      BY DEF StoreInv
    <3>2. QED BY <1>1, <2>1, <3>1, NextIdAtStart
  <2> HIDE DEF m
  <2>3. nextBatchId' \in [Users -> Nat] /\ nextBatchId'[u] = m
    BY <2>2 DEF StoreInv, m
  <2>4. \A x \in Writes : owner[x] = NoUser => m < x
    <3>1. SUFFICES ASSUME NEW x \in Writes, owner[x] = NoUser PROVE m < x
      OBVIOUS
    <3>2. x \in Nat \ {0}
      BY WritePathAssumption DEF Writes
    <3>3. CASE m = 0
      BY <3>2, <3>3
    <3>4. CASE m # 0
      <4>1. PICK v \in Users : \E i \in 1 .. Len(queue[v]) : queue[v][i].id = m - 1
        BY <2>2, <3>4
      <4>2. PICK i \in 1 .. Len(queue[v]) : queue[v][i].id = m - 1
        BY <4>1
      <4>3. queue[v][i].w \in Writes
        BY BatchFacts DEF StoreInv
      <4>4. queue[v][i].w < x /\ m - 1 < queue[v][i].w
        BY <2>1, <3>1, <4>2, <4>3
      <4>5. queue[v][i].w \in Nat
        BY <4>3, WritePathAssumption DEF Writes
      <4>6. QED BY <2>2, <3>2, <4>4, <4>5
    <3>5. QED BY <3>3, <3>4
  <2>5. NextIdContinues'
    BY <1>1, <2>2, <2>3 DEF NextIdContinues
  <2>6. IdsBounded'
    BY <2>1, <2>3, <2>4 DEF IdsBounded
  <2>7. QED BY <1>0, <2>3, <2>5, <2>6 DEF StoreInv, QueuesOrdered
<1>2. CASE ~Durable
  <2>1. m = IF queue[u] = <<>> THEN 1 ELSE nextBatchId[u]
    BY <1>2 DEF NextBatchIdAtStart
  <2> HIDE DEF m
  <2>2. /\ nextBatchId' \in [Users -> Nat]
        /\ \A v \in Users : queue[v] # <<>> => nextBatchId'[v] = nextBatchId[v]
    BY <2>1 DEF StoreInv, m
  <2>3. NextIdContinues'
    BY <1>2, <2>2 DEF StoreInv, QueuesOrdered, NextIdContinues
  <2>4. IdsBounded'
    BY <1>2 DEF IdsBounded
  <2>5. QED BY <1>0, <2>2, <2>3, <2>4 DEF StoreInv, QueuesOrdered
<1>3. QED BY <1>1, <1>2

-----------------------------------------------------------------------------
(* The steps, one lemma for each way the stream is opened, used or closed. *)

\* A stream that is not open goes with no call and no handshake.
LEMMA ClosedOK ==
    ASSUME NEW t, NEW net, NEW p, ~IsOpen(t), "idle" \notin t.timers,
           "backoff" \in t.timers <=> t.state = "Backoff",
           IsStarted(t) => (net /\ p # <<>>)
    PROVE  StreamOK(net, p, t, FALSE, NoCall) /\ InFlightOK(p, t, FALSE, NoCall)
BY DEF StreamOK, InFlightOK, NoCall

\* The absence of a call is well typed.
LEMMA NoCallType == NoCall \in CallType
<1>1. <<>> \in Seq({Handshake} \cup Writes)
  BY EmptySeq
<1>2. QED BY <1>1 DEF NoCall, CallType, UserOrNone

\* Starting twice is starting once.
LEMMA StartTwice ==
    ASSUME NEW t, NEW net, NEW p, IsStarted(t) <=> (net /\ p # <<>>)
    PROVE  StartWriteStreamIfNeeded(net, p, t) = t
BY DEF StartWriteStreamIfNeeded, ShouldStartWriteStream

\* The first batch of the pipeline is the first of the queue; without it the
\* rest of the pipeline is a prefix of the rest of the queue.
LEMMA PopFirst ==
    ASSUME StoreInv, RemoteInv, pipeline # <<>>
    PROVE  LET q == queue[user]
               r == RemoveBatch(q, Head(pipeline).id)
           IN  /\ q # <<>>
               /\ Head(pipeline) = q[1]
               /\ Head(pipeline) \in Batch
               /\ r \in Seq(Batch)
               /\ QueueOrdered(r)
               /\ Prefix(Tail(pipeline), r)
               /\ Len(Tail(pipeline)) = Len(pipeline) - 1
               /\ Len(Tail(pipeline)) <= kMaxPendingWrites
               /\ RemoveAsserts(q, Head(pipeline).id) = {}
<1> DEFINE q == queue[user]
           tl == Tail(pipeline)
           r == RemoveBatch(q, q[1].id)
<1>1. q \in Seq(Batch) /\ QueueOrdered(q)
  BY DEF StoreInv, QueuesOrdered
<1>2. /\ pipeline \in Seq(Batch) /\ Len(pipeline) <= Len(q)
      /\ \A i \in 1 .. Len(pipeline) : pipeline[i] = q[i]
      /\ Len(pipeline) <= kMaxPendingWrites
  BY DEF RemoteInv, Prefix
<1>3. Len(pipeline) \in Nat /\ Len(pipeline) # 0 /\ Len(q) \in Nat /\ (q = <<>> <=> Len(q) = 0)
  BY <1>1, <1>2, BatchFacts
<1>4. q # <<>> /\ pipeline[1] = q[1]
  BY <1>2, <1>3
<1>5. /\ Head(pipeline) \in Batch /\ tl \in Seq(Batch)
      /\ Len(tl) = Len(pipeline) - 1
      /\ \A i \in 1 .. Len(tl) : tl[i] = pipeline[i + 1]
  BY <1>2, HeadTailProperties
<1>6. Head(pipeline) = q[1]
  BY <1>2, <1>4
<1>7. /\ RemoveAsserts(q, q[1].id) = {}
      /\ r \in Seq(Batch)
      /\ Len(r) = Len(q) - 1
      /\ \A i \in 1 .. Len(r) : r[i] = q[i + 1]
      /\ QueueOrdered(r)
  BY <1>1, <1>4, RemoveFirst
<1> HIDE DEF r, tl, q
<1>8. Prefix(tl, r)
  <2>1. Len(tl) <= Len(r)
    BY <1>2, <1>3, <1>5, <1>7
  <2>2. \A i \in 1 .. Len(tl) : tl[i] = r[i]
    BY <1>2, <1>3, <1>5, <1>7
  <2>3. QED BY <1>5, <2>1, <2>2 DEF Prefix
<1>9. Len(tl) <= kMaxPendingWrites
  BY <1>2, <1>3, <1>5, WritePathAssumption
<1>10. QED BY <1>4, <1>5, <1>6, <1>7, <1>8, <1>9 DEF q, r, tl

\* Calling a completion block.
LEMMA CallbackTypes ==
    ASSUME RecordInv, NEW id, NEW result \in {"ok", "error"}, ProcessUserCallbacks(id, result)
    PROVE  /\ completions' \subseteq [user : Users, id : Nat, w : Writes]
           /\ calls' \in Seq([w : Writes, result : {"ok", "error"}])
<1> DEFINE blocks == {c \in completions : c.user = user /\ c.id = id}
           b == CHOOSE c \in blocks : TRUE
           Entry == [w : Writes, result : {"ok", "error"}]
<1>1. completions' = completions \ blocks
  BY DEF ProcessUserCallbacks
<1>2. calls' = IF blocks = {} THEN calls ELSE Append(calls, [w |-> b.w, result |-> result])
  BY DEF ProcessUserCallbacks
<1>3. completions \subseteq [user : Users, id : Nat, w : Writes] /\ calls \in Seq(Entry)
  BY DEF RecordInv
<1>4. blocks # {} => [w |-> b.w, result |-> result] \in Entry
  <2>1. blocks # {} => b \in blocks
    BY Zenon
  <2> HIDE DEF b
  <2>2. QED BY <1>3, <2>1
<1> HIDE DEF blocks, b, Entry
<1>5. calls' \in Seq(Entry)
  BY <1>2, <1>3, <1>4, AppendProperties
<1>6. QED BY <1>1, <1>3, <1>5 DEF Entry

\* The stream finishes with an error, for whatever reason.
LEMMA FinishStep ==
    ASSUME StoreInv, RecordInv, RemoteInv, IsStarted(stream),
           NEW status, OnStreamFinish(status),
           workQueue' \in Seq(WorkItem), TokensOK(stream, workQueue'),
           budget' \in [faults : Nat, auth : Nat, toggles : Nat, restarts : Nat]
    PROVE  IInv'
<1> DEFINE closed == Close(stream, status)
           net == isNetworkEnabled
<1>1. /\ Good(stream) /\ net \in BOOLEAN /\ provider \in ProviderType
      /\ failed = {} /\ user \in Users
      /\ savedToken \in [Users -> UserOrNone] /\ streamToken \in UserOrNone
      /\ pipeline \in Seq(Batch)
  BY DEF RemoteInv, StoreInv, RecordInv, Prefix
<1>2. Stopped(closed, workQueue')
  BY <1>1, CloseStops
<1>3. /\ handshake' = FALSE
      /\ call' = NoCall
      /\ provider' = Refreshed(stream, stream', status)
      /\ nextBatchId' = nextBatchId /\ user' = user /\ isNetworkEnabled' = isNetworkEnabled
      /\ committed' = committed /\ refused' = refused /\ owner' = owner
  BY DEF OnStreamFinish
<1>4. provider' \in ProviderType /\ call' \in CallType
  BY <1>1, <1>3, RefreshedType, NoCallType
<1>5. CASE pipeline # <<>> /\ handshake /\ IsPermanentWriteError(status)
  <2> DEFINE q == queue[user]
             r == RemoveBatch(q, Head(pipeline).id)
             rest == Tail(pipeline)
             inh == InhibitBackoff(closed)
  <2>1. RejectFirstBatch(status)
    BY <1>5 DEF OnStreamFinish
  <2>2. /\ q # <<>>
        /\ Head(pipeline) = q[1]
        /\ r \in Seq(Batch)
        /\ QueueOrdered(r)
        /\ Prefix(rest, r)
        /\ Len(rest) <= kMaxPendingWrites
        /\ RemoveAsserts(q, Head(pipeline).id) = {}
    BY <1>5, PopFirst
  <2>3. /\ queue' = [queue EXCEPT ![user] = r]
        /\ failed' = failed \cup RemoveAsserts(q, Head(pipeline).id)
        /\ ProcessUserCallbacks(Head(pipeline).id, "error")
        /\ pipeline' = FillPipeline(net, r, rest)
        /\ stream' = StartWriteStreamIfNeeded(net, pipeline', FillStream(net, r, rest, inh, handshake))
        /\ savedToken' = savedToken /\ streamToken' = streamToken
    BY <2>1 DEF RejectFirstBatch, RejectFailedWrite, RejectBatch
  <2>4. StoreInv'
    BY <1>3, <2>2, <2>3, StorePop
  <2>5. RecordInv'
    BY <1>3, <2>3, CallbackTypes DEF RecordInv
  <2>6. queue'[user'] = r
    BY <1>1, <1>3, <2>3 DEF StoreInv
  <2> HIDE DEF r, rest, q
  <2>7. /\ Prefix(pipeline', r)
        /\ Len(pipeline') <= kMaxPendingWrites
        /\ ~net => pipeline' = rest
    BY <1>1, <2>2, <2>3, FillFacts
  <2>8. Stopped(inh, workQueue')
    <3> HIDE DEF closed
    <3>1. Good(closed) /\ ~IsStarted(closed) /\ closed.state # "Starting" /\ closed.timers = {}
          /\ TokensOK(closed, workQueue')
      BY <1>2 DEF Stopped, IsStarted
    <3>2. /\ Good(inh) /\ inh.state = "Initial" /\ inh.closeCount = closed.closeCount
          /\ inh.timers = {} /\ inh.requests = closed.requests
      BY <3>1, InhibitFacts
    <3> HIDE DEF inh
    <3>3. TokensOK(inh, workQueue')
      BY <3>1, <3>2, TokensSame
    <3>4. QED BY <3>2, <3>3 DEF Stopped
  <2>9. ~IsOpen(inh)
    BY <2>8 DEF Stopped, IsOpen
  <2> HIDE DEF inh
  <2> DEFINE t == StartWriteStreamIfNeeded(net, pipeline', inh)
  <2>10. FillStream(net, r, rest, inh, handshake) = t
    BY <2>3, <2>9, FillStreamClosed
  <2>11. /\ Good(t)
         /\ ~IsOpen(t)
         /\ "idle" \notin t.timers
         /\ "backoff" \in t.timers <=> t.state = "Backoff"
         /\ TokensOK(t, workQueue')
         /\ IsStarted(t) <=> (net /\ pipeline' # <<>>)
    BY <1>1, <2>8, StartIfNeeded
  <2> HIDE DEF t
  <2>12. stream' = t
    BY <2>3, <2>10, <2>11, StartTwice
  <2>13. StreamOK(net, pipeline', stream', FALSE, NoCall) /\ InFlightOK(pipeline', stream', FALSE, NoCall)
    BY <2>11, <2>12, ClosedOK
  <2>14. ~net => pipeline' = <<>>
    <3>1. net
      BY <1>1, <1>5 DEF RemoteInv
    <3>2. QED BY <3>1
  <2>15. failed' = {}
    BY <1>1, <2>2, <2>3
  <2>16. RemoteInv'
    BY <1>1, <1>3, <1>4, <2>6, <2>7, <2>11, <2>12, <2>13, <2>14, <2>15 DEF RemoteInv
  <2>17. QED BY <2>4, <2>5, <2>16, InvFromPartsNext
<1>6. CASE ~(pipeline # <<>> /\ handshake /\ IsPermanentWriteError(status))
  <2>1. RetryAfterError(status)
    BY <1>6 DEF OnStreamFinish
  <2>2. /\ queue' = queue /\ failed' = failed /\ completions' = completions /\ calls' = calls
        /\ pipeline' = pipeline
        /\ stream' = StartWriteStreamIfNeeded(net, pipeline, closed)
        /\ streamToken' \in {NoUser, streamToken}
        /\ savedToken' \in {savedToken, [savedToken EXCEPT ![user] = NoUser]}
    BY <2>1 DEF RetryAfterError
  <2>3. StoreInv'
    BY <1>3, <2>2, StoreSame
  <2>4. RecordInv'
    BY <1>1, <1>3, <2>2 DEF RecordInv, UserOrNone
  <2>5. /\ Good(stream')
        /\ ~IsOpen(stream')
        /\ "idle" \notin (stream').timers
        /\ "backoff" \in (stream').timers <=> (stream').state = "Backoff"
        /\ TokensOK(stream', workQueue')
        /\ IsStarted(stream') <=> (net /\ pipeline # <<>>)
    BY <1>1, <1>2, <2>2, StartIfNeeded
  <2>6. StreamOK(net, pipeline, stream', FALSE, NoCall) /\ InFlightOK(pipeline, stream', FALSE, NoCall)
    BY <2>5, ClosedOK
  <2>7. RemoteInv'
    BY <1>1, <1>3, <1>4, <2>2, <2>5, <2>6 DEF RemoteInv
  <2>8. QED BY <2>3, <2>4, <2>7, InvFromPartsNext
<1>7. QED BY <1>5, <1>6

Budget == [faults : Nat, auth : Nat, toggles : Nat, restarts : Nat]

\* Records that no step touched stay well typed.
LEMMA RecordSame ==
    ASSUME RecordInv, budget' \in Budget,
           UNCHANGED <<savedToken, streamToken, completions, committed, refused, calls>>
    PROVE  RecordInv'
BY DEF RecordInv, Budget

\* Spending from a budget keeps its type.
LEMMA BudgetSpent ==
    ASSUME RecordInv
    PROVE  /\ budget \in Budget
           /\ [budget EXCEPT !.faults = @ + 1] \in Budget
           /\ [budget EXCEPT !.auth = @ + 1] \in Budget
           /\ [budget EXCEPT !.toggles = @ + 1] \in Budget
           /\ [budget EXCEPT !.restarts = @ + 1] \in Budget
BY SMTT(30) DEF RecordInv, Budget

\* The invariant holds when the client starts.
LEMMA InitInv == Init => IInv
<1> SUFFICES ASSUME Init PROVE IInv
  OBVIOUS
<1>1. <<>> \in Seq(Batch) /\ Len(<<>>) = 0
  BY EmptySeq
<1>2. StoreInv
  <2>1. /\ queue = [u \in Users |-> <<>>] /\ user \in Users
        /\ nextBatchId = [u \in Users |-> IF Durable THEN 0 ELSE 1]
        /\ owner = [w \in Writes |-> NoUser]
    BY DEF Init
  <2>2. \A u \in Users : queue[u] = <<>> /\ Len(queue[u]) = 0
    BY <1>1, <2>1
  <2>3. \A u \in Users : QueueOrdered(queue[u])
    BY <2>2 DEF QueueOrdered
  <2>4. NextIdContinues
    BY <2>1, <2>2 DEF NextIdContinues
  <2>5. IdsBounded
    BY <2>1, <2>2, WritePathAssumption DEF IdsBounded, Writes
  <2>6. queue \in [Users -> Seq(Batch)] /\ nextBatchId \in [Users -> Nat]
        /\ owner \in [Writes -> UserOrNone]
    BY <1>1, <2>1 DEF UserOrNone
  <2>7. QED BY <2>1, <2>3, <2>4, <2>5, <2>6 DEF StoreInv, QueuesOrdered
<1>3. RecordInv
  BY EmptySeq DEF Init, RecordInv, UserOrNone
<1>4. RemoteInv
  <2>1. Good(stream) /\ stream.state = "Initial" /\ stream.timers = {} /\ stream.requests = {}
    BY DEF Init, NewStream, Good, StreamType, States
  <2>2. ~IsOpen(stream) /\ ~IsStarted(stream)
    BY <2>1 DEF IsOpen, IsStarted
  <2>3. StreamOK(TRUE, <<>>, stream, FALSE, NoCall) /\ InFlightOK(<<>>, stream, FALSE, NoCall)
    BY <2>1, <2>2, ClosedOK
  <2>4. workQueue = <<>> /\ workQueue \in Seq(WorkItem) /\ Len(workQueue) = 0
    BY EmptySeq DEF Init
  <2>5. TokensOK(stream, workQueue)
    BY <2>1, <2>4 DEF TokensOK
  <2>6. Prefix(<<>>, queue[user]) /\ Len(<<>>) <= kMaxPendingWrites
    BY <1>1, <1>2, BatchFacts, WritePathAssumption DEF Prefix, StoreInv
  <2>7. provider \in ProviderType
    BY DEF Init, ProviderType
  <2>8. QED BY <2>1, <2>3, <2>4, <2>5, <2>6, <2>7, NoCallType DEF Init, RemoteInv
<1>5. QED BY <1>2, <1>3, <1>4, InvFromParts

\* A graceful end of a stream that is not needed.
LEMMA GracefulStep ==
    ASSUME StoreInv, RecordInv, RemoteInv, CloseGracefully, IsStarted(stream),
           ~ShouldStartWriteStream(isNetworkEnabled, pipeline, Close(stream, "ok"))
    PROVE  IInv'
<1> DEFINE closed == Close(stream, "ok")
<1>1. /\ Good(stream) /\ TokensOK(stream, workQueue) /\ workQueue \in Seq(WorkItem)
      /\ isNetworkEnabled \in BOOLEAN /\ provider \in ProviderType
  BY DEF RemoteInv
<1>2. /\ stream' = closed /\ handshake' = FALSE /\ call' = NoCall /\ failed' = failed
      /\ UNCHANGED <<localStore, engine, isNetworkEnabled, pipeline, streamToken, outside,
                     committed, refused, application, budget>>
  BY DEF CloseGracefully
<1>3. Stopped(closed, workQueue)
  BY <1>1, CloseStops
<1> HIDE DEF closed
<1>4. /\ Good(closed) /\ TokensOK(closed, workQueue) /\ closed.timers = {}
      /\ ~IsOpen(closed) /\ ~IsStarted(closed) /\ closed.state # "Backoff"
  BY <1>3 DEF Stopped, IsOpen, IsStarted
<1>5. StreamOK(isNetworkEnabled, pipeline, closed, FALSE, NoCall)
      /\ InFlightOK(pipeline, closed, FALSE, NoCall)
  BY <1>4, ClosedOK
<1>6. StoreInv'
  BY <1>2, StoreSame DEF localStore, engine, application
<1>7. RecordInv'
  BY <1>2, RecordSame, BudgetSpent DEF localStore, engine, application
<1>8. RemoteInv'
  BY <1>1, <1>2, <1>4, <1>5, NoCallType DEF RemoteInv, localStore, engine, outside
<1>9. QED BY <1>6, <1>7, <1>8, InvFromPartsNext

\* The idle timer finds an empty pipeline: the stream stops and is not needed.
LEMMA IdleTimeoutStep ==
    ASSUME StoreInv, RecordInv, RemoteInv, IdleTimeout
    PROVE  IInv'
<1>1. pipeline = <<>> /\ IsStarted(stream) /\ CloseGracefully
  BY DEF IdleTimeout, RemoteInv, StreamOK, IsOpen, IsStarted
<1>2. ~ShouldStartWriteStream(isNetworkEnabled, pipeline, Close(stream, "ok"))
  BY <1>1 DEF ShouldStartWriteStream
<1>3. QED BY <1>1, <1>2, GracefulStep

\* The backoff timer finds the stream in backoff and starts it.
LEMMA BackoffTimeoutStep ==
    ASSUME StoreInv, RecordInv, RemoteInv, BackoffTimeout
    PROVE  IInv'
<1> DEFINE r == Request(stream)
<1>1. /\ Good(stream) /\ TokensOK(stream, workQueue) /\ provider \in ProviderType
      /\ StreamOK(isNetworkEnabled, pipeline, stream, handshake, call)
      /\ stream.closeCount \in Nat
  BY DEF RemoteInv, Good, StreamType
<1>2. stream.state = "Backoff" /\ ~IsOpen(stream) /\ IsStarted(stream)
  BY DEF BackoffTimeout, RemoteInv, StreamOK, IsOpen, IsStarted
<1>3. r \in TokenRequest /\ r.closeCount = stream.closeCount
  BY <1>1, RequestType
<1> HIDE DEF r
<1>4. stream' = BackoffElapsed(stream, r)
  BY DEF BackoffTimeout, r
<1>5. /\ Good(stream')
      /\ (stream').state = "Starting"
      /\ (stream').closeCount = stream.closeCount
      /\ (stream').timers = stream.timers \ {"backoff"}
      /\ (stream').requests = stream.requests \cup {r}
  BY <1>1, <1>2, <1>3, <1>4, BackoffElapsedFacts
<1>6. TokensOK(stream', workQueue)
  BY <1>1, <1>2, <1>3, <1>5, TokensStart
<1>7. ~IsOpen(stream') /\ IsStarted(stream') /\ (stream').state # "Backoff"
  BY <1>5 DEF IsOpen, IsStarted
<1>8. StreamOK(isNetworkEnabled, pipeline, stream', handshake, call)
  BY <1>1, <1>2, <1>5, <1>7 DEF StreamOK
<1>9. InFlightOK(pipeline, stream', handshake, call)
  BY <1>7 DEF InFlightOK
<1>10. provider' \in ProviderType
  BY <1>1, RefreshedType DEF BackoffTimeout
<1>11. StoreInv'
  BY StoreSame DEF BackoffTimeout, localStore, engine, application
<1>12. RecordInv'
  BY RecordSame, BudgetSpent DEF BackoffTimeout, localStore, engine, backend, application
<1>13. RemoteInv'
  BY <1>5, <1>6, <1>8, <1>9, <1>10 DEF RemoteInv, BackoffTimeout, localStore, engine, backend
<1>14. QED BY <1>11, <1>12, <1>13, InvFromPartsNext

\* A stopped stream is consistent with an empty pipeline.
LEMMA StopFacts ==
    ASSUME RemoteInv, NEW net \in BOOLEAN
    PROVE  /\ Good(Stop(stream))
           /\ CallAfterStop \in CallType
           /\ HandshakeAfterStop \in BOOLEAN
           /\ StreamOK(net, <<>>, Stop(stream), HandshakeAfterStop, CallAfterStop)
           /\ TokensOK(Stop(stream), workQueue)
           /\ InFlightOK(<<>>, Stop(stream), HandshakeAfterStop, CallAfterStop)
<1>1. /\ Good(stream) /\ TokensOK(stream, workQueue) /\ workQueue \in Seq(WorkItem)
      /\ StreamOK(isNetworkEnabled, pipeline, stream, handshake, call)
      /\ handshake \in BOOLEAN /\ call \in CallType
  BY DEF RemoteInv
<1>2. CASE IsStarted(stream)
  <2> DEFINE s == Close(stream, "ok")
  <2>1. Stop(stream) = s /\ HandshakeAfterStop = FALSE /\ CallAfterStop = NoCall
    BY <1>2 DEF Stop, StopIsNoOp, HandshakeAfterStop, CallAfterStop
  <2>2. Stopped(s, workQueue)
    BY <1>1, <1>2, CloseStops
  <2> HIDE DEF s
  <2>3. Good(s) /\ TokensOK(s, workQueue) /\ ~IsOpen(s) /\ ~IsStarted(s) /\ s.timers = {}
        /\ s.state # "Backoff"
    BY <2>2 DEF Stopped, IsOpen, IsStarted
  <2>4. StreamOK(net, <<>>, s, FALSE, NoCall) /\ InFlightOK(<<>>, s, FALSE, NoCall)
    BY <2>3, ClosedOK
  <2>5. QED BY <2>1, <2>3, <2>4, NoCallType
<1>3. CASE ~IsStarted(stream)
  <2>1. Stop(stream) = stream /\ HandshakeAfterStop = handshake /\ CallAfterStop = call
    BY <1>3 DEF Stop, StopIsNoOp, HandshakeAfterStop, CallAfterStop
  <2>2. ~IsOpen(stream)
    BY <1>3 DEF IsOpen, IsStarted
  <2>3. StreamOK(net, <<>>, stream, handshake, call) /\ InFlightOK(<<>>, stream, handshake, call)
    BY <1>1, <1>3, <2>2 DEF StreamOK, InFlightOK
  <2>4. QED BY <1>1, <2>1, <2>3
<1>4. QED BY <1>2, <1>3

\* The empty pipeline is a prefix of any queue.
LEMMA EmptyPrefix ==
    ASSUME NEW q \in Seq(Batch)
    PROVE  Prefix(<<>>, q) /\ Len(<<>>) <= kMaxPendingWrites
<1>1. <<>> \in Seq(Batch) /\ Len(<<>>) = 0
  BY EmptySeq
<1>2. Len(q) \in Nat
  BY BatchFacts
<1>3. QED BY <1>1, <1>2, WritePathAssumption DEF Prefix

\* disableNetwork empties the pipeline and stops the stream.
LEMMA DisableNetworkStep ==
    ASSUME StoreInv, RecordInv, RemoteInv, DisableNetwork
    PROVE  IInv'
<1>1. /\ isNetworkEnabled' = FALSE /\ stream' = Stop(stream) /\ handshake' = HandshakeAfterStop
      /\ pipeline' = <<>> /\ call' = CallAfterStop
      /\ failed' = failed /\ workQueue' = workQueue /\ provider' = provider
      /\ queue' = queue /\ user' = user
  BY DEF DisableNetwork, localStore, engine, outside
<1>2. /\ Good(Stop(stream))
      /\ CallAfterStop \in CallType
      /\ HandshakeAfterStop \in BOOLEAN
      /\ StreamOK(FALSE, <<>>, Stop(stream), HandshakeAfterStop, CallAfterStop)
      /\ TokensOK(Stop(stream), workQueue)
      /\ InFlightOK(<<>>, Stop(stream), HandshakeAfterStop, CallAfterStop)
  BY StopFacts
<1>3. Prefix(<<>>, queue[user]) /\ Len(<<>>) <= kMaxPendingWrites
  BY EmptyPrefix DEF StoreInv
<1>4. StoreInv'
  BY StoreSame DEF DisableNetwork, localStore, engine, application
<1>5. RecordInv'
  BY RecordSame, BudgetSpent DEF DisableNetwork, localStore, engine, application
<1>6. RemoteInv'
  BY <1>1, <1>2, <1>3 DEF RemoteInv
<1>7. QED BY <1>4, <1>5, <1>6, InvFromPartsNext

\* enableNetwork refills the pipeline.
LEMMA EnableNetworkStep ==
    ASSUME StoreInv, RecordInv, RemoteInv, EnableNetwork
    PROVE  IInv'
<1> DEFINE q == queue[user]
           c == [call EXCEPT !.toServer = @ \o FillSent(TRUE, q, pipeline, stream, handshake)]
           f == FillPipeline(TRUE, q, pipeline)
           s == FillStream(TRUE, q, pipeline, stream, handshake)
<1>1. /\ isNetworkEnabled' = TRUE /\ streamToken' = savedToken[user]
      /\ pipeline' = f /\ stream' = s /\ call' = c
      /\ provider' = Refreshed(stream, stream', "ok")
      /\ handshake' = handshake /\ failed' = failed /\ workQueue' = workQueue
      /\ queue' = queue /\ user' = user
  BY DEF EnableNetwork, Enable, localStore, engine
<1>2. /\ q \in Seq(Batch) /\ QueueOrdered(q) /\ user \in Users
      /\ Prefix(pipeline, q) /\ Len(pipeline) <= kMaxPendingWrites
      /\ Good(stream) /\ handshake \in BOOLEAN /\ call \in CallType /\ provider \in ProviderType
      /\ StreamOK(isNetworkEnabled, pipeline, stream, handshake, call)
      /\ TokensOK(stream, workQueue)
      /\ InFlightOK(pipeline, stream, handshake, call)
  BY DEF StoreInv, QueuesOrdered, RemoteInv
<1>3. StreamOK(TRUE, pipeline, stream, handshake, call)
  BY <1>2 DEF StreamOK
<1> HIDE DEF q
<1>4. /\ Good(s) /\ c \in CallType
      /\ StreamOK(TRUE, f, s, handshake, c)
      /\ TokensOK(s, workQueue)
      /\ InFlightOK(f, s, handshake, c)
  BY <1>2, <1>3, FillKeeps
<1>5. Prefix(f, q) /\ Len(f) <= kMaxPendingWrites
  BY <1>2, FillFacts
<1> HIDE DEF f, s, c
<1>6. provider' \in ProviderType
  BY <1>1, <1>2, RefreshedType
<1>7. StoreInv'
  BY StoreSame DEF EnableNetwork, localStore, engine, application
<1>8. RecordInv'
  <2>1. savedToken[user] \in UserOrNone
    BY <1>2 DEF RecordInv
  <2>2. budget' \in Budget
    BY BudgetSpent DEF EnableNetwork
  <2>3. QED BY <1>1, <2>1, <2>2 DEF RecordInv, Budget, EnableNetwork, localStore, engine, application
<1>9. RemoteInv'
  BY <1>1, <1>2, <1>4, <1>5, <1>6 DEF RemoteInv, q
<1>10. QED BY <1>7, <1>8, <1>9, InvFromPartsNext

\* Steps of Firebase Auth put work on the queue.
LEMMA WorkQueueStep ==
    ASSUME StoreInv, RecordInv, RemoteInv,
           UNCHANGED <<localStore, engine, isNetworkEnabled, pipeline, handshake, streamToken,
                       failed, backend, application>>,
           budget' \in Budget,
           workQueue' \in Seq(WorkItem), provider' \in ProviderType,
           Good(stream'), (stream').state = stream.state, (stream').timers = stream.timers,
           TokensOK(stream', workQueue')
    PROVE  IInv'
<1>1. StoreInv'
  BY StoreSame DEF localStore, engine, application
<1>2. RecordInv'
  BY RecordSame DEF localStore, engine, backend, application
<1>3. StreamOK(isNetworkEnabled, pipeline, stream', handshake, call)
  BY DEF RemoteInv, StreamOK, IsOpen, IsStarted
<1>4. InFlightOK(pipeline, stream', handshake, call)
  BY DEF RemoteInv, InFlightOK, IsOpen
<1>5. RemoteInv'
  BY <1>3, <1>4 DEF RemoteInv, localStore, engine, backend
<1>6. QED BY <1>1, <1>2, <1>5, InvFromPartsNext

\* An auth notification only queues work.
LEMMA AuthStateDidChangeStep ==
    ASSUME StoreInv, RecordInv, RemoteInv, NEW u \in Users, AuthStateDidChange(u)
    PROVE  IInv'
<1> DEFINE item == [op |-> "credential", user |-> u]
<1>1. item \in WorkItem /\ item.op # "token"
  BY DEF WorkItem
<1> HIDE DEF item
<1>2. workQueue' = Append(workQueue, item) /\ stream' = stream
  BY DEF AuthStateDidChange, item, remote
<1>3. workQueue \in Seq(WorkItem) /\ TokensOK(stream, workQueue) /\ Good(stream)
      /\ provider \in ProviderType
  BY DEF RemoteInv
<1>4. workQueue' \in Seq(WorkItem) /\ TokensOK(stream, workQueue')
  BY <1>1, <1>2, <1>3, TokensAppendUser, AppendProperties
<1>5. provider' \in ProviderType
  <2>1. provider' = [provider EXCEPT !.user = u, !.counter = @ + 1, !.cache = "valid"]
    BY DEF AuthStateDidChange
  <2>2. provider.counter + 1 \in Nat
    BY <1>3 DEF ProviderType
  <2>3. QED BY <1>3, <2>1, <2>2 DEF ProviderType
<1>6. budget' \in Budget
  BY BudgetSpent DEF AuthStateDidChange
<1>7. QED BY <1>2, <1>3, <1>4, <1>5, <1>6, WorkQueueStep DEF AuthStateDidChange, remote

\* An expired token changes the provider only.
LEMMA TokenExpiresStep ==
    ASSUME StoreInv, RecordInv, RemoteInv, TokenExpires
    PROVE  IInv'
<1>1. workQueue' \in Seq(WorkItem) /\ TokensOK(stream', workQueue') /\ Good(stream')
      /\ stream' = stream
  BY DEF RemoteInv, TokenExpires, remote
<1>2. provider' \in ProviderType
  BY DEF RemoteInv, TokenExpires, ProviderType
<1>3. budget' \in Budget
  BY BudgetSpent DEF TokenExpires
<1>4. QED BY <1>1, <1>2, <1>3, WorkQueueStep DEF TokenExpires, remote

\* GetToken calls back, with or without a token.
LEMMA RequestAnswered ==
    ASSUME RemoteInv, NEW r \in stream.requests,
           NEW status \in {"ok", "unavailable", "aborted"}, NEW token \in {"valid", "expired"},
           stream' = [stream EXCEPT !.requests = @ \ {r}],
           workQueue' = Append(workQueue, [op |-> "token", closeCount |-> r.closeCount,
                                           status |-> status, user |-> provider.user,
                                           token |-> token])
    PROVE  /\ workQueue' \in Seq(WorkItem)
           /\ Good(stream') /\ (stream').state = stream.state /\ (stream').timers = stream.timers
           /\ TokensOK(stream', workQueue')
<1> DEFINE item == [op |-> "token", closeCount |-> r.closeCount, status |-> status,
                    user |-> provider.user, token |-> token]
<1>1. /\ Good(stream) /\ TokensOK(stream, workQueue) /\ workQueue \in Seq(WorkItem)
      /\ provider.user \in Users
  BY DEF RemoteInv, ProviderType
<1>2. r.closeCount \in Nat
  BY <1>1 DEF Good, StreamType, TokenRequest
<1>3. item \in WorkItem /\ item.op = "token" /\ item.closeCount = r.closeCount
  BY <1>1, <1>2 DEF WorkItem
<1> HIDE DEF item
<1>4. workQueue' = Append(workQueue, item)
  BY DEF item
<1>5. /\ (stream').state = stream.state /\ (stream').timers = stream.timers
      /\ (stream').closeCount = stream.closeCount /\ (stream').requests = stream.requests \ {r}
  BY <1>1 DEF Good, StreamType
<1>6. Good(stream')
  BY <1>1 DEF Good, StreamType
<1>7. workQueue' \in Seq(WorkItem)
  BY <1>1, <1>3, <1>4, AppendProperties
<1>a. TokensOK(stream', Append(workQueue, item))
  <2> DEFINE s == stream'
  <2> HIDE DEF s
  <2>1. s.state = stream.state /\ s.closeCount = stream.closeCount /\ s.requests = stream.requests \ {r}
    BY <1>5 DEF s
  <2>2. TokensOK(s, Append(workQueue, item))
    BY <1>1, <1>3, <2>1, TokensArrive
  <2>3. QED BY <2>2 DEF s
<1>8. QED BY <1>4, <1>5, <1>6, <1>7, <1>a

\* A token turns a GetToken call into its queued callback.
LEMMA TokenArrivesStep ==
    ASSUME StoreInv, RecordInv, RemoteInv, NEW r, TokenArrives(r)
    PROVE  IInv'
<1> DEFINE status == IF r.counter = provider.counter THEN "ok" ELSE "aborted"
           token == IF r.refresh = "forced" THEN "valid" ELSE provider.cache
<1>1. status \in {"ok", "unavailable", "aborted"} /\ token \in {"valid", "expired"}
      /\ r \in stream.requests
  BY DEF RemoteInv, ProviderType, TokenArrives
<1>2. /\ stream' = [stream EXCEPT !.requests = @ \ {r}]
      /\ workQueue' = Append(workQueue, [op |-> "token", closeCount |-> r.closeCount,
                                         status |-> status, user |-> provider.user,
                                         token |-> token])
  BY DEF TokenArrives
<1> HIDE DEF status, token
<1>3. /\ workQueue' \in Seq(WorkItem)
      /\ Good(stream') /\ (stream').state = stream.state /\ (stream').timers = stream.timers
      /\ TokensOK(stream', workQueue')
  BY <1>1, <1>2, RequestAnswered
<1>4. provider' \in ProviderType
  BY DEF RemoteInv, ProviderType, TokenArrives
<1>5. budget' \in Budget
  BY BudgetSpent DEF TokenArrives
<1>6. QED BY <1>3, <1>4, <1>5, WorkQueueStep DEF TokenArrives

\* So does a failure to get a token.
LEMMA TokenFailsStep ==
    ASSUME StoreInv, RecordInv, RemoteInv, NEW r, TokenFails(r)
    PROVE  IInv'
<1> DEFINE status == IF r.counter = provider.counter THEN "unavailable" ELSE "aborted"
<1>1. status \in {"ok", "unavailable", "aborted"} /\ r \in stream.requests
  BY DEF TokenFails
<1>2. /\ stream' = [stream EXCEPT !.requests = @ \ {r}]
      /\ workQueue' = Append(workQueue, [op |-> "token", closeCount |-> r.closeCount,
                                         status |-> status, user |-> provider.user,
                                         token |-> "expired"])
  BY DEF TokenFails
<1> HIDE DEF status
<1>3. /\ workQueue' \in Seq(WorkItem)
      /\ Good(stream') /\ (stream').state = stream.state /\ (stream').timers = stream.timers
      /\ TokensOK(stream', workQueue')
  BY <1>1, <1>2, RequestAnswered
<1>4. provider' \in ProviderType
  BY DEF RemoteInv, TokenFails
<1>5. budget' \in Budget
  BY BudgetSpent DEF TokenFails
<1>6. QED BY <1>3, <1>4, <1>5, WorkQueueStep DEF TokenFails

\* The item at the head of the worker queue.
LEMMA HeadItem ==
    ASSUME RemoteInv, workQueue # <<>>
    PROVE  /\ workQueue \in Seq(WorkItem)
           /\ Tail(workQueue) \in Seq(WorkItem)
           /\ 1 \in 1 .. Len(workQueue)
           /\ Head(workQueue) = workQueue[1]
           /\ Head(workQueue).user \in Users
           /\ Head(workQueue).op = "token" =>
                 /\ IsTokenCallback(workQueue, 1)
                 /\ Head(workQueue).closeCount \in Nat
                 /\ Head(workQueue).token \in {"valid", "expired"}
           /\ TokensOK(stream, Tail(workQueue))
<1>1. workQueue \in Seq(WorkItem) /\ TokensOK(stream, workQueue)
  BY DEF RemoteInv
<1>2. Len(workQueue) \in Nat \ {0} /\ 1 \in 1 .. Len(workQueue)
  BY <1>1, EmptySeq
<1>3. Tail(workQueue) \in Seq(WorkItem) /\ TokensOK(stream, Tail(workQueue))
  BY <1>1, HeadTailProperties, TokensTail
<1>4. Head(workQueue) = workQueue[1]
  BY <1>1
<1>5. /\ workQueue[1].user \in Users
      /\ workQueue[1].op = "token" =>
            workQueue[1].closeCount \in Nat /\ workQueue[1].token \in {"valid", "expired"}
  BY <1>1, <1>2, WorkItemFacts
<1>6. QED BY <1>1, <1>2, <1>3, <1>4, <1>5 DEF IsTokenCallback

\* A late token callback is dropped.
LEMMA StaleTokenCallbackStep ==
    ASSUME StoreInv, RecordInv, RemoteInv, StaleTokenCallback
    PROVE  IInv'
<1>1. workQueue' \in Seq(WorkItem) /\ TokensOK(stream, workQueue')
  BY HeadItem DEF StaleTokenCallback
<1>2. Good(stream) /\ provider \in ProviderType
  BY DEF RemoteInv
<1>3. budget' \in Budget
  BY BudgetSpent DEF StaleTokenCallback
<1>4. QED BY <1>1, <1>2, <1>3, WorkQueueStep DEF StaleTokenCallback, remote

\* A token error closes the stream that waits for it.
LEMMA TokenErrorCallbackStep ==
    ASSUME StoreInv, RecordInv, RemoteInv, TokenErrorCallback
    PROVE  IInv'
<1>1. workQueue' \in Seq(WorkItem) /\ TokensOK(stream, workQueue')
  BY HeadItem DEF TokenErrorCallback
<1>2. stream.state = "Starting"
  BY HeadItem DEF TokenErrorCallback, CallbackIsStale, RemoteInv, TokensOK
<1>3. IsStarted(stream)
  BY <1>2 DEF IsStarted
<1>4. budget' \in Budget
  BY BudgetSpent DEF TokenErrorCallback
<1>5. QED BY <1>1, <1>3, <1>4, FinishStep DEF TokenErrorCallback, Budget

\* A token opens the stream that waits for it and sends the handshake.
LEMMA TokenCallbackStep ==
    ASSUME StoreInv, RecordInv, RemoteInv, TokenCallback
    PROVE  IInv'
<1> DEFINE item == Head(workQueue)
           opened == ResumeStartWithCredentials(stream)
           s == WriteTo(opened)
<1>1. /\ workQueue # <<>> /\ item.op = "token" /\ ~CallbackIsStale(stream, item)
      /\ workQueue' = Tail(workQueue) /\ stream' = s
      /\ failed' = failed \cup HardAssert(~handshake, "handshake already completed")
      /\ call' = [NoCall EXCEPT !.user = item.user, !.token = item.token,
                                !.toServer = <<Handshake>>]
      /\ isNetworkEnabled' = isNetworkEnabled /\ pipeline' = pipeline
      /\ handshake' = handshake /\ provider' = provider /\ queue' = queue /\ user' = user
  BY DEF TokenCallback, localStore, engine
<1>2. /\ workQueue \in Seq(WorkItem) /\ Tail(workQueue) \in Seq(WorkItem)
      /\ 1 \in 1 .. Len(workQueue)
      /\ item = workQueue[1] /\ item.user \in Users /\ item.token \in {"valid", "expired"}
      /\ IsTokenCallback(workQueue, 1)
  BY <1>1, HeadItem
<1>3. item.closeCount = stream.closeCount
  BY <1>1 DEF CallbackIsStale
<1> HIDE DEF item
<1>4. /\ Good(stream) /\ TokensOK(stream, workQueue) /\ failed = {}
      /\ StreamOK(isNetworkEnabled, pipeline, stream, handshake, call)
  BY DEF RemoteInv
<1>5. stream.state = "Starting"
  BY <1>2, <1>3, <1>4 DEF TokensOK
<1>6. ~IsOpen(stream) /\ IsStarted(stream)
  BY <1>5 DEF IsOpen, IsStarted
<1>7. ~handshake /\ pipeline # <<>> /\ "backoff" \notin stream.timers
      /\ isNetworkEnabled
  BY <1>4, <1>5, <1>6 DEF StreamOK
<1>8. /\ Good(opened) /\ opened.state = "Open" /\ opened.closeCount = stream.closeCount
      /\ opened.timers = stream.timers /\ opened.requests = stream.requests
  BY <1>4, <1>5, ResumeFacts
<1>9. IsOpen(opened)
  BY <1>8 DEF IsOpen
<1> HIDE DEF opened
<1>10. /\ Good(s) /\ s.state = "Open" /\ s.closeCount = stream.closeCount
       /\ s.timers = stream.timers \ {"idle"} /\ s.requests = stream.requests
  BY <1>8, <1>9, WriteToFacts
<1> HIDE DEF s
<1>11. TokensOK(s, Tail(workQueue))
  BY <1>1, <1>2, <1>3, <1>4, <1>10, TokensUsed
<1>12. failed' = {}
  BY <1>1, <1>4, <1>7 DEF HardAssert
<1>13. /\ call' \in CallType
       /\ (call').user # NoUser
       /\ Len((call').toClient) + Len((call').toServer) = 1
  <2>1. <<Handshake>> \in Seq({Handshake} \cup Writes) /\ Len(<<Handshake>>) = 1
    OBVIOUS
  <2>2. NoCall.toClient = <<>> /\ NoCall.status = "ok" /\ NoCall \in CallType
    BY NoCallType DEF NoCall
  <2>3. (call').user = item.user /\ (call').toClient = <<>> /\ (call').toServer = <<Handshake>>
    BY <1>1 DEF NoCall
  <2>4. call' \in CallType
    BY <1>1, <1>2, <2>1, <2>2 DEF CallType, UserOrNone
  <2>5. Len(<<>>) + Len(<<Handshake>>) = 1
    OBVIOUS
  <2>6. QED BY <1>2, <2>3, <2>4, <2>5, WritePathAssumption
<1>14. IsOpen(s) /\ IsStarted(s)
  BY <1>10 DEF IsOpen, IsStarted
<1>15. StreamOK(isNetworkEnabled, pipeline, s, handshake, call')
  BY <1>7, <1>10, <1>13, <1>14 DEF StreamOK
<1>16. InFlightOK(pipeline, s, handshake, call')
  BY <1>7, <1>13 DEF InFlightOK
<1>17. StoreInv'
  BY StoreSame DEF TokenCallback, localStore, engine, application
<1>18. RecordInv'
  BY RecordSame, BudgetSpent DEF TokenCallback, localStore, engine, application
<1>19. RemoteInv'
  BY <1>1, <1>2, <1>10, <1>11, <1>12, <1>13, <1>15, <1>16 DEF RemoteInv
<1>20. QED BY <1>17, <1>18, <1>19, InvFromPartsNext

\* A change of user swaps the queue and restarts the stream.
LEMMA CredentialDidChangeStep ==
    ASSUME StoreInv, RecordInv, RemoteInv, CredentialDidChange
    PROVE  IInv'
<1> DEFINE u == Head(workQueue).user
           wq == Tail(workQueue)
<1>1. /\ workQueue # <<>> /\ workQueue' = wq /\ user' = u
      /\ queue' = queue /\ owner' = owner /\ failed' = failed
      /\ nextBatchId' = IF u = user THEN nextBatchId
                        ELSE [nextBatchId EXCEPT ![u] = NextBatchIdAtStart(u, queue, nextBatchId)]
  BY DEF CredentialDidChange, UserDidChange, application
<1>2. u \in Users /\ wq \in Seq(WorkItem) /\ TokensOK(stream, wq)
      /\ workQueue \in Seq(WorkItem)
  BY <1>1, HeadItem
<1> HIDE DEF u
<1>3. StoreInv'
  <2>1. CASE u = user
    BY <1>1, <2>1, StoreSame
  <2>2. CASE u # user
    BY <1>1, <1>2, <2>2, StoreUser
  <2>3. QED BY <2>1, <2>2
<1>4. queue[u] \in Seq(Batch) /\ QueueOrdered(queue[u])
  BY <1>2 DEF StoreInv, QueuesOrdered
<1>5. Prefix(<<>>, queue[u]) /\ Len(<<>>) <= kMaxPendingWrites
  BY <1>4, EmptyPrefix
<1>6. provider \in ProviderType /\ failed = {} /\ isNetworkEnabled \in BOOLEAN
  BY DEF RemoteInv
<1>7. CASE isNetworkEnabled
  <2> DEFINE q == queue[u]
             s == Stop(stream)
             h == HandshakeAfterStop
             c == CallAfterStop
             f == FillPipeline(TRUE, q, <<>>)
             t == FillStream(TRUE, q, <<>>, s, h)
             d == [c EXCEPT !.toServer = @ \o FillSent(TRUE, q, <<>>, s, h)]
  <2>1. /\ Enable(u, <<>>, s, h, c)
        /\ handshake' = h
        /\ provider' = Refreshed(stream, stream', "ok")
    BY <1>7 DEF CredentialDidChange, UserDidChange, u
  <2>2. /\ isNetworkEnabled' = TRUE /\ streamToken' = savedToken[u]
        /\ pipeline' = f /\ stream' = t /\ call' = d
    BY <2>1 DEF Enable
  <2>3. /\ Good(s) /\ c \in CallType /\ h \in BOOLEAN
        /\ StreamOK(TRUE, <<>>, s, h, c)
        /\ TokensOK(s, workQueue)
        /\ InFlightOK(<<>>, s, h, c)
    BY StopFacts
  <2> HIDE DEF s, h, c, q
  <2>4. TokensOK(s, wq)
    BY <1>1, <1>2, <2>3, TokensTail
  <2> HIDE DEF wq
  <2>5. /\ Good(t) /\ d \in CallType
        /\ StreamOK(TRUE, f, t, h, d)
        /\ TokensOK(t, wq)
        /\ InFlightOK(f, t, h, d)
    BY <1>4, <1>5, <1>6, <2>3, <2>4, FillKeeps DEF q
  <2>6. Prefix(f, q) /\ Len(f) <= kMaxPendingWrites
    BY <1>4, <1>5, FillFacts DEF q
  <2> HIDE DEF f, t, d
  <2>7. provider' \in ProviderType
    BY <1>6, <2>1, RefreshedType
  <2>8. RemoteInv'
    BY <1>1, <1>2, <1>6, <2>1, <2>2, <2>3, <2>5, <2>6, <2>7 DEF RemoteInv, q
  <2>9. RecordInv'
    <3>1. savedToken[u] \in UserOrNone
      BY <1>2 DEF RecordInv
    <3>2. QED BY <2>2, <3>1 DEF RecordInv, CredentialDidChange, UserDidChange, application
  <2>10. QED BY <1>3, <2>8, <2>9, InvFromPartsNext
<1>8. CASE ~isNetworkEnabled
  <2>1. UNCHANGED <<isNetworkEnabled, pipeline, stream, handshake, streamToken, provider, call>>
    BY <1>8 DEF CredentialDidChange, UserDidChange
  <2>2. pipeline = <<>>
    BY <1>8 DEF RemoteInv
  <2>3. RecordInv'
    BY <2>1, RecordSame, BudgetSpent DEF CredentialDidChange, UserDidChange, application
  <2>4. RemoteInv'
    BY <1>1, <1>2, <1>5, <2>1, <2>2 DEF RemoteInv
  <2>5. QED BY <1>3, <2>3, <2>4, InvFromPartsNext
<1>9. QED BY <1>6, <1>7, <1>8

\* The call goes with an open stream.
LEMMA LiveCall ==
    ASSUME RemoteInv, \/ call.user # NoUser \/ call.toClient # <<>> \/ call.status # "ok"
    PROVE  IsOpen(stream) /\ IsStarted(stream) /\ call.user # NoUser
BY DEF RemoteInv, StreamOK, IsOpen, IsStarted

\* The queues of the call.
LEMMA CallFacts ==
    ASSUME RemoteInv
    PROVE  LET Message == {Handshake} \cup Writes
           IN  /\ call \in CallType
               /\ call.toServer \in Seq(Message) /\ Len(call.toServer) \in Nat
               /\ call.toClient \in Seq(Message) /\ Len(call.toClient) \in Nat
               /\ call.toServer # <<>> =>
                     /\ Tail(call.toServer) \in Seq(Message)
                     /\ Head(call.toServer) \in Message
                     /\ Len(Tail(call.toServer)) = Len(call.toServer) - 1
                     /\ Len(call.toServer) # 0
               /\ call.toClient # <<>> =>
                     /\ Tail(call.toClient) \in Seq(Message)
                     /\ Len(Tail(call.toClient)) = Len(call.toClient) - 1
                     /\ Len(call.toClient) # 0
<1>1. /\ call \in CallType
      /\ call.toServer \in Seq({Handshake} \cup Writes)
      /\ call.toClient \in Seq({Handshake} \cup Writes)
  BY DEF RemoteInv, CallType
<1> DEFINE a == call.toServer
           b == call.toClient
           Message == {Handshake} \cup Writes
<1>2. a \in Seq(Message) /\ b \in Seq(Message)
  BY <1>1
<1> HIDE DEF a, b, Message
<1>3. Len(a) \in Nat /\ Len(b) \in Nat
  BY <1>2, LenProperties
<1>4. a # <<>> => /\ Tail(a) \in Seq(Message) /\ Head(a) \in Message
                  /\ Len(Tail(a)) = Len(a) - 1 /\ Len(a) # 0
  BY <1>2, HeadTailProperties, EmptySeq
<1>5. b # <<>> => Tail(b) \in Seq(Message) /\ Len(Tail(b)) = Len(b) - 1 /\ Len(b) # 0
  BY <1>2, HeadTailProperties, EmptySeq
<1>6. QED BY <1>1, <1>3, <1>4, <1>5 DEF a, b, Message

\* A step of the backend changes the call alone; what is in flight stays as much.
LEMMA BackendStep ==
    ASSUME StoreInv, RecordInv, RemoteInv,
           UNCHANGED <<localStore, engine, remote, outside, application>>,
           budget' \in Budget,
           committed' \in Seq([w : Writes, user : Users]), refused' \subseteq Writes,
           call.user # NoUser, call' \in CallType, (call').user = call.user,
           Len((call').toClient) + Len((call').toServer)
              = Len(call.toClient) + Len(call.toServer)
    PROVE  IInv'
<1>1. IsOpen(stream)
  BY LiveCall
<1>2. StreamOK(isNetworkEnabled, pipeline, stream, handshake, call')
  BY <1>1 DEF RemoteInv, StreamOK
<1>3. InFlightOK(pipeline, stream, handshake, call')
  BY DEF RemoteInv, InFlightOK
<1>4. StoreInv'
  BY StoreSame DEF localStore, engine, application
<1>5. RecordInv'
  BY DEF RecordInv, Budget, localStore, engine, remote, application
<1>6. RemoteInv'
  BY <1>2, <1>3 DEF RemoteInv, localStore, engine, remote, outside
<1>7. QED BY <1>4, <1>5, <1>6, InvFromPartsNext

\* A request is answered.
LEMMA Answered ==
    ASSUME RemoteInv, call.toServer # <<>>, NEW m \in {Handshake} \cup Writes,
           call' = [call EXCEPT !.toServer = Tail(@), !.toClient = Append(@, m)]
    PROVE  /\ call' \in CallType /\ (call').user = call.user
           /\ Len((call').toClient) + Len((call').toServer)
                = Len(call.toClient) + Len(call.toServer)
<1> DEFINE Message == {Handshake} \cup Writes
           a == call.toServer
           b == call.toClient
           tl == Tail(a)
           ap == Append(b, m)
<1>1. /\ call \in CallType
      /\ a \in Seq(Message) /\ Len(a) \in Nat
      /\ b \in Seq(Message) /\ Len(b) \in Nat
      /\ tl \in Seq(Message) /\ Len(tl) = Len(a) - 1
  BY CallFacts
<1>2. ap \in Seq(Message) /\ Len(ap) = Len(b) + 1
  BY <1>1, AppendProperties
<1>3. (call').user = call.user /\ (call').toServer = tl /\ (call').toClient = ap
  BY <1>1 DEF CallType
<1>4. call' = [call EXCEPT !.toServer = tl, !.toClient = ap]
  OBVIOUS
<1> HIDE DEF tl, ap
<1>5. call' \in CallType
  BY <1>1, <1>2, <1>4 DEF CallType
<1>6. PICK out \in Nat, inc \in Nat : Len(a) = out /\ Len(b) = inc
  BY <1>1
<1>7. Len(tl) = out - 1 /\ Len(ap) = inc + 1
  BY <1>1, <1>2, <1>6
<1>8. (inc + 1) + (out - 1) = inc + out
  OBVIOUS
<1>9. Len(ap) + Len(tl) = Len(b) + Len(a)
  BY <1>6, <1>7, <1>8
<1>10. QED BY <1>3, <1>5, <1>9

\* The call ends.
LEMMA Ended ==
    ASSUME RemoteInv, NEW status \in Errors \cup {"ended"},
           call' = [call EXCEPT !.status = status]
    PROVE  /\ call' \in CallType /\ (call').user = call.user
           /\ Len((call').toClient) + Len((call').toServer)
                = Len(call.toClient) + Len(call.toServer)
<1>1. call \in CallType
  BY DEF RemoteInv
<1>2. (call').user = call.user /\ (call').toServer = call.toServer /\ (call').toClient = call.toClient
  BY <1>1 DEF CallType
<1>3. call' \in CallType
  BY <1>1 DEF CallType
<1>4. QED BY <1>2, <1>3

\* The backend answers or ends the call.
LEMMA ServerSteps ==
    ASSUME StoreInv, RecordInv, RemoteInv,
           \/ ServerHandshake \/ ServerCommit \/ ServerRefuse
           \/ \E status \in (Errors \ {"unauthenticated"}) \cup {"ended"} : ServerFault(status)
    PROVE  IInv'
<1>1. budget \in Budget /\ [budget EXCEPT !.faults = @ + 1] \in Budget
  BY BudgetSpent
<1>2. /\ committed \in Seq([w : Writes, user : Users]) /\ refused \subseteq Writes
      /\ call.user \in UserOrNone
  BY DEF RecordInv, RemoteInv, CallType
<1>3. CASE ServerHandshake
  <2>1. CASE call.token = "valid"
    <3>1. call' = [call EXCEPT !.toServer = Tail(@), !.toClient = Append(@, Handshake)]
          /\ call.toServer # <<>> /\ call.user # NoUser
      BY <1>3, <2>1 DEF ServerHandshake, Serving
    <3>2. /\ call' \in CallType /\ (call').user = call.user
          /\ Len((call').toClient) + Len((call').toServer)
               = Len(call.toClient) + Len(call.toServer)
      BY <3>1, Answered
    <3>3. QED BY <1>1, <1>2, <1>3, <3>1, <3>2, BackendStep DEF ServerHandshake
  <2>2. CASE call.token # "valid"
    <3>1. call' = [call EXCEPT !.status = "unauthenticated"] /\ call.user # NoUser
      BY <1>3, <2>2 DEF ServerHandshake, Serving
    <3>2. /\ call' \in CallType /\ (call').user = call.user
          /\ Len((call').toClient) + Len((call').toServer)
               = Len(call.toClient) + Len(call.toServer)
      BY <3>1, Ended DEF Errors
    <3>3. QED BY <1>1, <1>2, <1>3, <3>1, <3>2, BackendStep DEF ServerHandshake
  <2>3. QED BY <2>1, <2>2
<1>4. CASE ServerCommit
  <2> DEFINE m == Head(call.toServer)
             entry == [w |-> m, user |-> call.user]
  <2>1. /\ call' = [call EXCEPT !.toServer = Tail(@), !.toClient = Append(@, m)]
        /\ committed' = Append(committed, entry)
        /\ call.toServer # <<>> /\ call.user # NoUser /\ m \in Writes
    BY <1>4 DEF ServerCommit, Serving
  <2>2. entry \in [w : Writes, user : Users]
    BY <1>2, <2>1 DEF UserOrNone
  <2> HIDE DEF m, entry
  <2>3. committed' \in Seq([w : Writes, user : Users])
    BY <1>2, <2>1, <2>2, AppendProperties
  <2>4. /\ call' \in CallType /\ (call').user = call.user
        /\ Len((call').toClient) + Len((call').toServer)
             = Len(call.toClient) + Len(call.toServer)
    BY <2>1, Answered
  <2>5. QED BY <1>1, <1>2, <1>4, <2>1, <2>3, <2>4, BackendStep DEF ServerCommit
<1>5. CASE ServerRefuse
  <2>1. call' = [call EXCEPT !.status = "permanent"] /\ call.user # NoUser
    BY <1>5 DEF ServerRefuse, Serving
  <2>2. refused' \subseteq Writes
    BY <1>2, <1>5, WritePathAssumption DEF ServerRefuse
  <2>3. /\ call' \in CallType /\ (call').user = call.user
        /\ Len((call').toClient) + Len((call').toServer)
             = Len(call.toClient) + Len(call.toServer)
    BY <2>1, Ended DEF Errors
  <2>4. QED BY <1>1, <1>2, <1>5, <2>1, <2>2, <2>3, BackendStep DEF ServerRefuse
<1>6. ASSUME NEW status \in (Errors \ {"unauthenticated"}) \cup {"ended"}, ServerFault(status) PROVE IInv'
  <2>1. call' = [call EXCEPT !.status = status] /\ call.user # NoUser
    BY <1>6 DEF ServerFault
  <2>2. /\ call' \in CallType /\ (call').user = call.user
        /\ Len((call').toClient) + Len((call').toServer)
             = Len(call.toClient) + Len(call.toServer)
    BY <1>6, <2>1, Ended
  <2>3. QED BY <1>1, <1>2, <1>6, <2>1, <2>2, BackendStep DEF ServerFault
<1>7. QED BY <1>3, <1>4, <1>5, <1>6

\* The calls that end: read to the end, garbled, failed or lost.
LEMMA EndOfCallSteps ==
    ASSUME StoreInv, RecordInv, RemoteInv,
           MalformedResponse \/ CallFinished \/ WriteFailed \/ ConnectionLost
    PROVE  IInv'
<1>1. IsStarted(stream)
  <2>1. call.user # NoUser \/ call.toClient # <<>> \/ call.status # "ok"
    BY DEF MalformedResponse, CallFinished, WriteFailed, ConnectionLost, Errors
  <2>2. QED BY <2>1, LiveCall
<1>2. /\ workQueue' = workQueue /\ workQueue' \in Seq(WorkItem)
      /\ TokensOK(stream, workQueue')
  BY DEF MalformedResponse, CallFinished, WriteFailed, ConnectionLost, RemoteInv
<1>3. budget' \in Budget
  BY BudgetSpent DEF MalformedResponse, CallFinished, WriteFailed, ConnectionLost
<1>4. \E status : OnStreamFinish(status)
  BY DEF MalformedResponse, CallFinished, WriteFailed, ConnectionLost
<1>5. QED BY <1>1, <1>2, <1>3, <1>4, FinishStep DEF Budget

\* The backend ends the call with OK.  When writes are in the pipeline, the assertion
\* of OnWriteStreamClose fails and the process stops as it is.
LEMMA CallEndedStep ==
    ASSUME StoreInv, RecordInv, RemoteInv, CallEnded
    PROVE  IInv'
<1>1. IsStarted(stream) /\ call.status = "ended" /\ CloseGracefully
  BY LiveCall DEF CallEnded
<1> DEFINE needed == ShouldStartWriteStream(isNetworkEnabled, pipeline, Close(stream, "ok"))
<1>2. CASE ~needed
  BY <1>1, <1>2, GracefulStep
<1>3. CASE needed
  <2>1. /\ failed' = failed \cup {"stopped gracefully while still needed"}
        /\ UNCHANGED <<localStore, engine, isNetworkEnabled, pipeline, stream, handshake,
                       streamToken, call, outside, committed, refused, application, budget>>
        /\ pipeline # <<>>
    BY <1>1, <1>3 DEF CloseGracefully, ShouldStartWriteStream
  <2>2. failed = {} /\ stream.failed = {}
    BY DEF RemoteInv, Good
  <2>3. OnlyGracefulEndAborts'
    BY <1>1, <2>1, <2>2 DEF OnlyGracefulEndAborts
  <2>4. IInv
    BY InvFromParts
  <2>5. TypeOK' /\ PipelineIsQueuePrefix'
    <3>1. UNCHANGED <<queue, nextBatchId, savedToken, user, completions, isNetworkEnabled, pipeline,
                      stream, handshake, streamToken, workQueue, provider, call, committed,
                      refused, owner, calls, budget>>
      BY <2>1 DEF localStore, engine, outside, application
    <3>2. failed' \subseteq AssertMessages
      BY <2>1, <2>2 DEF AssertMessages
    <3>3. TypeOK /\ PipelineIsQueuePrefix
      BY <2>4 DEF IInv
    <3>4. TypeOK'
      BY <3>1, <3>2, <3>3 DEF TypeOK
    <3>5. PipelineIsQueuePrefix'
      BY <3>1, <3>3 DEF PipelineIsQueuePrefix
    <3>6. QED BY <3>4, <3>5
  <2>6. StoreInv'
    BY <2>1, StoreSame DEF localStore, engine, application
  <2>7. QED
    BY <2>1, <2>3, <2>4, <2>5, <2>6 DEF IInv, StoreInv, outside
<1>4. QED BY <1>2, <1>3

\* The response to the handshake sends the whole pipeline.
LEMMA HandshakeResponseStep ==
    ASSUME StoreInv, RecordInv, RemoteInv, HandshakeResponse
    PROVE  IInv'
<1> DEFINE Message == {Handshake} \cup Writes
           reqs == Requests(pipeline)
           tl == Tail(call.toClient)
           srv == call.toServer \o reqs
<1>1. IsOpen(stream) /\ IsStarted(stream) /\ call.user # NoUser
  BY LiveCall DEF HandshakeResponse
<1>2. /\ Good(stream) /\ TokensOK(stream, workQueue) /\ failed = {}
      /\ StreamOK(isNetworkEnabled, pipeline, stream, handshake, call)
      /\ InFlightOK(pipeline, stream, handshake, call)
      /\ pipeline \in Seq(Batch) /\ ~handshake /\ call.toClient # <<>>
  BY DEF RemoteInv, Prefix, HandshakeResponse
<1>3. pipeline # <<>>
  BY <1>1, <1>2 DEF StreamOK
<1>4. /\ call \in CallType
      /\ call.toServer \in Seq(Message) /\ Len(call.toServer) \in Nat
      /\ Len(call.toClient) \in Nat /\ Len(call.toClient) # 0
      /\ tl \in Seq(Message) /\ Len(tl) = Len(call.toClient) - 1
  BY <1>2, CallFacts
<1>5. Len(call.toClient) + Len(call.toServer) = 1
  BY <1>1, <1>2 DEF InFlightOK
<1>6. Len(tl) = 0 /\ Len(call.toServer) = 0
  <2>1. PICK out \in Nat, inc \in Nat : Len(call.toServer) = out /\ Len(call.toClient) = inc
    BY <1>4
  <2>2. inc + out = 1 /\ inc # 0
    BY <1>4, <1>5, <2>1
  <2>3. out = 0 /\ inc - 1 = 0
    BY <2>2
  <2>4. QED BY <1>4, <2>1, <2>3
<1>7. reqs \in Seq(Message) /\ Len(reqs) = Len(pipeline) /\ Len(pipeline) \in Nat
  BY <1>2, RequestsFacts, BatchFacts
<1>8. srv \in Seq(Message) /\ Len(srv) = Len(call.toServer) + Len(reqs)
  <2> HIDE DEF reqs
  <2> QED BY <1>4, <1>7, ConcatProperties
<1>9. call' = [call EXCEPT !.toClient = tl, !.toServer = srv]
  BY DEF HandshakeResponse
<1> HIDE DEF tl, srv, reqs
<1>10. /\ (call').user = call.user /\ (call').toClient = tl /\ (call').toServer = srv
       /\ call' \in CallType
  BY <1>4, <1>8, <1>9 DEF CallType
<1>11. Len(tl) + Len(srv) = Len(pipeline)
  BY <1>6, <1>7, <1>8
<1>12. stream' = WriteTo(stream)
  BY <1>3 DEF HandshakeResponse
<1>13. /\ Good(stream') /\ (stream').state = stream.state
       /\ (stream').closeCount = stream.closeCount
       /\ (stream').timers = stream.timers \ {"idle"} /\ (stream').requests = stream.requests
  BY <1>1, <1>2, <1>12, WriteToFacts
<1>14. IsOpen(stream') /\ IsStarted(stream') /\ (stream').state # "Backoff"
  BY <1>1, <1>13 DEF IsOpen, IsStarted
<1>15. TokensOK(stream', workQueue)
  <2> DEFINE s == stream'
  <2> HIDE DEF s
  <2>1. s.state = stream.state /\ s.closeCount = stream.closeCount /\ s.requests = stream.requests
    BY <1>13 DEF s
  <2>2. TokensOK(s, workQueue)
    BY <1>2, <2>1, TokensSame
  <2>3. QED BY <2>2 DEF s
<1>16. StreamOK(isNetworkEnabled, pipeline, stream', TRUE, call')
  BY <1>1, <1>2, <1>10, <1>13, <1>14 DEF StreamOK
<1>17. InFlightOK(pipeline, stream', TRUE, call')
  BY <1>10, <1>11 DEF InFlightOK
<1>18. failed' = {}
  BY <1>1, <1>2 DEF HandshakeResponse, HardAssert
<1>19. StoreInv'
  BY StoreSame DEF HandshakeResponse, engine, application
<1>20. RecordInv'
  <2>1. call.user \in UserOrNone /\ user \in Users
    BY <1>4 DEF CallType, StoreInv
  <2>2. QED BY <2>1 DEF RecordInv, HandshakeResponse, engine, application
<1>21. RemoteInv'
  <2>1. /\ handshake' = TRUE /\ queue' = queue /\ user' = user /\ pipeline' = pipeline
        /\ isNetworkEnabled' = isNetworkEnabled /\ workQueue' = workQueue /\ provider' = provider
    BY DEF HandshakeResponse, engine, outside
  <2>2. QED BY <1>10, <1>13, <1>15, <1>16, <1>17, <1>18, <2>1 DEF RemoteInv
<1>22. QED BY <1>19, <1>20, <1>21, InvFromPartsNext

\* A mutation result takes the first batch off pipeline and queue.
LEMMA MutationResultStep ==
    ASSUME StoreInv, RecordInv, RemoteInv, MutationResult
    PROVE  IInv'
<1> DEFINE Message == {Handshake} \cup Writes
           net == isNetworkEnabled
           q == queue[user]
           r == RemoveBatch(q, Head(pipeline).id)
           rest == Tail(pipeline)
           tl == Tail(call.toClient)
           c == [call EXCEPT !.toClient = tl]
           f == FillPipeline(net, r, rest)
           s == FillStream(net, r, rest, stream, handshake)
           d == [c EXCEPT !.toServer = @ \o FillSent(net, r, rest, stream, handshake)]
<1>1. IsOpen(stream) /\ IsStarted(stream) /\ call.user # NoUser
  BY LiveCall DEF MutationResult
<1>2. /\ Good(stream) /\ TokensOK(stream, workQueue) /\ failed = {}
      /\ StreamOK(net, pipeline, stream, handshake, call)
      /\ InFlightOK(pipeline, stream, handshake, call)
      /\ pipeline \in Seq(Batch) /\ handshake /\ call.toClient # <<>>
      /\ net \in BOOLEAN /\ provider \in ProviderType /\ handshake \in BOOLEAN
  BY DEF RemoteInv, Prefix, MutationResult
<1>3. /\ call \in CallType
      /\ call.toServer \in Seq(Message) /\ Len(call.toServer) \in Nat
      /\ Len(call.toClient) \in Nat /\ Len(call.toClient) # 0
      /\ tl \in Seq(Message) /\ Len(tl) = Len(call.toClient) - 1
  BY <1>2, CallFacts
<1>4. Len(call.toClient) + Len(call.toServer) = Len(pipeline)
  BY <1>1, <1>2 DEF InFlightOK
<1>5. pipeline # <<>>
  <2>1. PICK out \in Nat, inc \in Nat : Len(call.toServer) = out /\ Len(call.toClient) = inc
    BY <1>3
  <2>2. Len(pipeline) = inc + out /\ inc # 0
    BY <1>3, <1>4, <2>1
  <2>3. inc + out # 0
    BY <2>2
  <2>4. Len(pipeline) # 0
    BY <2>2, <2>3
  <2>5. QED BY <2>4, EmptySeq
<1>6. net
  BY <1>1, <1>2 DEF StreamOK
<1>7. /\ q # <<>>
      /\ Head(pipeline) = q[1]
      /\ r \in Seq(Batch)
      /\ QueueOrdered(r)
      /\ Prefix(rest, r)
      /\ Len(rest) = Len(pipeline) - 1
      /\ Len(rest) <= kMaxPendingWrites
      /\ RemoveAsserts(q, Head(pipeline).id) = {}
  BY <1>5, PopFirst
<1>8. /\ queue' = [queue EXCEPT ![user] = r]
      /\ failed' = failed \cup RemoveAsserts(q, Head(pipeline).id)
                          \cup HardAssert(IsStarted(stream), "read on a stopped stream")
      /\ ProcessUserCallbacks(Head(pipeline).id, "ok")
      /\ savedToken' = [savedToken EXCEPT ![user] = call.user]
      /\ streamToken' = call.user
  BY <1>5 DEF MutationResult, AcknowledgeBatch
<1>9. user \in Users /\ queue'[user] = r
  BY <1>8 DEF StoreInv
<1>10. /\ pipeline' = f /\ stream' = s
       /\ call' = [call EXCEPT !.toClient = tl,
                       !.toServer = @ \o FillSent(net, r, rest, stream, handshake)]
       /\ provider' = Refreshed(stream, stream', "ok")
       /\ nextBatchId' = nextBatchId /\ user' = user /\ isNetworkEnabled' = net
       /\ handshake' = handshake /\ workQueue' = workQueue /\ committed' = committed
       /\ refused' = refused /\ owner' = owner /\ budget' = budget
  BY <1>5, <1>9 DEF MutationResult
<1> HIDE DEF q, r, rest, tl
<1>11. c \in CallType /\ c.user = call.user /\ c.toClient = tl /\ c.toServer = call.toServer
  BY <1>3 DEF CallType
<1>12. call' = d
  BY <1>10
<1> HIDE DEF c
<1>13. InFlightOK(rest, stream, handshake, c)
  <2>1. PICK out \in Nat, inc \in Nat, n \in Nat :
            Len(call.toServer) = out /\ Len(call.toClient) = inc /\ Len(pipeline) = n
    BY <1>2, <1>3, BatchFacts
  <2>2. inc + out = n
    BY <1>4, <2>1
  <2>3. (inc - 1) + out = n - 1
    BY <2>2
  <2>4. Len(c.toClient) = inc - 1 /\ Len(c.toServer) = out /\ Len(rest) = n - 1
    BY <1>3, <1>7, <1>11, <2>1
  <2>5. QED BY <1>2, <2>3, <2>4 DEF InFlightOK
<1>14. StreamOK(net, rest, stream, handshake, c)
  BY <1>1, <1>2, <1>5, <1>6, <1>11 DEF StreamOK
<1>15. /\ Good(s) /\ d \in CallType
       /\ StreamOK(net, f, s, handshake, d)
       /\ TokensOK(s, workQueue)
       /\ InFlightOK(f, s, handshake, d)
  <2> HIDE DEF net
  <2>1. /\ StreamOK(net, rest, stream, handshake, c) /\ TokensOK(stream, workQueue)
        /\ InFlightOK(rest, stream, handshake, c) /\ Good(stream)
        /\ r \in Seq(Batch) /\ QueueOrdered(r) /\ Prefix(rest, r)
        /\ Len(rest) <= kMaxPendingWrites
    BY <1>2, <1>7, <1>13, <1>14
  <2>2. net \in BOOLEAN /\ handshake \in BOOLEAN /\ c \in CallType /\ provider \in ProviderType
    BY <1>2, <1>11 DEF RemoteInv
  <2>3. QED BY <2>1, <2>2, FillKeeps
<1>16. Prefix(f, r) /\ Len(f) <= kMaxPendingWrites
  BY <1>2, <1>7, FillFacts
<1> HIDE DEF f, s, d
<1>17. provider' \in ProviderType
  BY <1>2, <1>10, RefreshedType
<1>18. failed' = {}
  BY <1>1, <1>2, <1>7, <1>8 DEF HardAssert
<1>19. StoreInv'
  BY <1>7, <1>8, <1>10, StorePop DEF q, r
<1>20. RecordInv'
  <2>1. call.user \in UserOrNone
    BY <1>3 DEF CallType
  <2>2. QED BY <1>8, <1>9, <1>10, <2>1, CallbackTypes DEF RecordInv
<1>21. RemoteInv'
  BY <1>2, <1>6, <1>9, <1>10, <1>12, <1>15, <1>16, <1>17, <1>18 DEF RemoteInv
<1>22. QED BY <1>19, <1>20, <1>21, InvFromPartsNext

\* A local write goes to the end of the queue and perhaps of the pipeline.
LEMMA WriteMutationsStep ==
    ASSUME StoreInv, RecordInv, RemoteInv, NEW w \in Writes, WriteMutations(w)
    PROVE  IInv'
<1> DEFINE net == isNetworkEnabled
           b == [id |-> nextBatchId[user], w |-> w]
           q == Append(queue[user], b)
           f == FillPipeline(net, q, pipeline)
           s == FillStream(net, q, pipeline, stream, handshake)
           d == [call EXCEPT !.toServer = @ \o FillSent(net, q, pipeline, stream, handshake)]
<1>1. /\ user \in Users /\ queue[user] \in Seq(Batch) /\ nextBatchId[user] \in Nat
      /\ b \in Batch /\ b.id = nextBatchId[user] /\ b.id \in Nat
  BY DEF StoreInv, Batch
<1>2. /\ owner[w] = NoUser
      /\ \A v \in Writes : v < w => owner[v] # NoUser
      /\ owner' = [owner EXCEPT ![w] = user]
      /\ queue' = [queue EXCEPT ![user] = q]
      /\ nextBatchId' = [nextBatchId EXCEPT ![user] = @ + 1]
      /\ completions' = {c \in completions : ~(c.user = user /\ c.id = b.id)}
                            \cup {[user |-> user, id |-> b.id, w |-> w]}
      /\ failed' = failed \cup HardAssert(Durable \/ queue[user] = <<>>
                                             \/ Last1(queue[user]).id < b.id,
                                          "batch ids must increase")
      /\ pipeline' = f /\ stream' = s /\ call' = d
      /\ provider' = Refreshed(stream, stream', "ok")
      /\ user' = user /\ isNetworkEnabled' = net /\ handshake' = handshake
      /\ workQueue' = workQueue
  BY DEF WriteMutations, LocallyWriteMutations, AddMutationCompletionBlock, AddAsserts
<1>3. StoreInv'
  BY <1>2, StoreAppend
<1>4. /\ queue'[user'] = q /\ q \in Seq(Batch) /\ QueueOrdered(q)
  <2>1. queue'[user'] = q
    BY <1>1, <1>2 DEF StoreInv
  <2>2. queue'[user'] \in Seq(Batch)
    BY <1>3 DEF StoreInv
  <2>3. QueueOrdered(queue'[user'])
    BY <1>3 DEF StoreInv, QueuesOrdered, QueueOrdered
  <2>4. QED BY <2>1, <2>2, <2>3
<1>5. failed' = {}
  <2>1. failed = {}
    BY DEF RemoteInv
  <2>2. Durable \/ queue[user] = <<>> \/ Last1(queue[user]).id < b.id
    <3>1. SUFFICES ASSUME ~Durable, queue[user] # <<>> PROVE Last1(queue[user]).id < b.id
      OBVIOUS
    <3>2. PICK n \in Nat, first \in Nat :
              n = Len(queue[user]) /\ n # 0 /\ first = queue[user][1].id
      BY <1>1, <3>1, BatchFacts
    <3>3. nextBatchId[user] = first + n
      <4>1. \A v \in Users : queue[v] # <<>> => nextBatchId[v] = queue[v][1].id + Len(queue[v])
        BY <3>1 DEF StoreInv, QueuesOrdered, NextIdContinues
      <4>2. nextBatchId[user] = queue[user][1].id + Len(queue[user])
        BY <1>1, <3>1, <4>1
      <4>3. QED BY <3>2, <4>2
    <3>4. queue[user][n].id = first + n - 1
      <4>1. \A i \in 1 .. Len(queue[user]) : queue[user][i].id = queue[user][1].id + i - 1
        BY <1>1, <3>1 DEF StoreInv, QueuesOrdered, QueueOrdered
      <4>2. n \in 1 .. Len(queue[user])
        BY <3>2
      <4>3. QED BY <3>2, <4>1, <4>2
    <3>5. first + n - 1 < first + n
      OBVIOUS
    <3>6. QED BY <1>1, <3>2, <3>3, <3>4, <3>5 DEF Last1
  <2>3. QED BY <1>2, <2>1, <2>2 DEF HardAssert
<1>6. /\ Good(stream) /\ TokensOK(stream, workQueue)
      /\ StreamOK(net, pipeline, stream, handshake, call)
      /\ InFlightOK(pipeline, stream, handshake, call)
      /\ Prefix(pipeline, queue[user]) /\ Len(pipeline) <= kMaxPendingWrites
      /\ net \in BOOLEAN /\ provider \in ProviderType /\ handshake \in BOOLEAN
      /\ call \in CallType /\ workQueue \in Seq(WorkItem)
      /\ ~net => pipeline = <<>>
  BY DEF RemoteInv
<1>7. Prefix(pipeline, q)
  <2>1. Len(q) = Len(queue[user]) + 1 /\ \A i \in 1 .. Len(queue[user]) : q[i] = queue[user][i]
    BY <1>1, AppendProperties
  <2>2. Len(pipeline) \in Nat /\ Len(queue[user]) \in Nat
    BY <1>1, <1>6, BatchFacts DEF Prefix
  <2>3. QED BY <1>6, <2>1, <2>2 DEF Prefix
<1> HIDE DEF q
<1>8. /\ Good(s) /\ d \in CallType
      /\ StreamOK(net, f, s, handshake, d)
      /\ TokensOK(s, workQueue)
      /\ InFlightOK(f, s, handshake, d)
  BY <1>4, <1>6, <1>7, FillKeeps, ZenonT(60)
<1>9. Prefix(f, q) /\ Len(f) <= kMaxPendingWrites /\ (~net => f = pipeline)
  BY <1>4, <1>6, <1>7, FillFacts
<1> HIDE DEF f, s, d
<1>10. provider' \in ProviderType
  BY <1>2, <1>6, RefreshedType
<1>11. RecordInv'
  <2>1. [user |-> user, id |-> b.id, w |-> w] \in [user : Users, id : Nat, w : Writes]
    BY <1>1
  <2>2. /\ savedToken' = savedToken /\ streamToken' = streamToken /\ committed' = committed
        /\ refused' = refused /\ calls' = calls /\ budget' = budget
    BY DEF WriteMutations, LocallyWriteMutations, AddMutationCompletionBlock, AddAsserts
  <2> HIDE DEF b
  <2>3. completions' \subseteq [user : Users, id : Nat, w : Writes]
    BY <1>2, <2>1 DEF RecordInv
  <2>4. QED BY <2>2, <2>3 DEF RecordInv
<1>12. RemoteInv'
  BY <1>2, <1>4, <1>5, <1>6, <1>8, <1>9, <1>10 DEF RemoteInv
<1>13. QED BY <1>3, <1>11, <1>12, InvFromPartsNext

\* A new process starts from the durable queue.
LEMMA BootStep ==
    ASSUME StoreInv, RecordInv, provider \in ProviderType, Boot(queue),
           calls' \in Seq([w : Writes, result : {"ok", "error"}])
    PROVE  IInv'
<1> DEFINE u == provider.user
           q == queue[u]
           r == [closeCount |-> 0, counter |-> provider.counter, refresh |-> "cached"]
<1>1. /\ user' = u /\ queue' = queue /\ owner' = owner
      /\ nextBatchId' = [nextBatchId EXCEPT ![u] = NextBatchIdAtStart(u, queue, nextBatchId)]
      /\ completions' = {} /\ isNetworkEnabled' = TRUE /\ streamToken' = savedToken[u]
      /\ pipeline' = FillPipeline(TRUE, q, <<>>)
      /\ stream' = IF pipeline' = <<>> THEN NewStream ELSE Start(NewStream, r)
      /\ handshake' = FALSE /\ call' = NoCall /\ workQueue' = <<>>
      /\ provider' = [provider EXCEPT !.refresh = "cached"]
      /\ budget' = [budget EXCEPT !.restarts = @ + 1]
      /\ savedToken' = savedToken /\ failed' = {} /\ committed' = committed
      /\ refused' = refused
  BY DEF Boot
<1>2. u \in Users /\ provider \in ProviderType
  BY DEF ProviderType
<1>3. StoreInv'
  BY <1>1, <1>2, StoreUser
<1>4. RecordInv'
  <2>1. budget' \in Budget
    BY <1>1, BudgetSpent
  <2>2. savedToken[u] \in UserOrNone
    BY <1>2 DEF RecordInv
  <2>3. QED BY <1>1, <2>1, <2>2 DEF RecordInv, Budget
<1>5. q \in Seq(Batch) /\ QueueOrdered(q)
  BY <1>2 DEF StoreInv, QueuesOrdered
<1> HIDE DEF q
<1>6. Prefix(pipeline', q) /\ Len(pipeline') <= kMaxPendingWrites
  <2>1. Prefix(<<>>, q) /\ Len(<<>>) <= kMaxPendingWrites
    BY <1>5, EmptyPrefix
  <2>2. QED BY <1>1, <1>5, <2>1, FillFacts
<1>7. /\ Good(NewStream) /\ NewStream.state = "Initial" /\ NewStream.timers = {}
      /\ NewStream.requests = {} /\ NewStream.closeCount = 0
  BY DEF NewStream, Good, StreamType, States
<1>8. r \in TokenRequest /\ r.closeCount = 0
  BY <1>2 DEF ProviderType, TokenRequest
<1> HIDE DEF r
<1>9. workQueue' \in Seq(WorkItem) /\ Len(workQueue') = 0
  BY <1>1, EmptySeq
<1>10. /\ Good(stream') /\ (stream').timers = {} /\ (stream').closeCount = 0
       /\ (stream').state = IF pipeline' = <<>> THEN "Initial" ELSE "Starting"
       /\ (stream').requests = IF pipeline' = <<>> THEN {} ELSE {r}
  <2>1. CASE pipeline' = <<>>
    BY <1>1, <1>7, <2>1
  <2>2. CASE pipeline' # <<>>
    <3>1. NewStream.state \in {"Initial", "Error"} /\ NewStream.state # "Error"
      BY <1>7
    <3>2. /\ Good(Start(NewStream, r)) /\ Start(NewStream, r).state = "Starting"
          /\ Start(NewStream, r).closeCount = NewStream.closeCount
          /\ Start(NewStream, r).timers = NewStream.timers
          /\ Start(NewStream, r).requests = NewStream.requests \cup {r}
      BY <1>7, <1>8, <3>1, StartFacts
    <3>3. QED BY <1>1, <1>7, <2>2, <3>2
  <2>3. QED BY <2>1, <2>2
<1>11. TokensOK(stream', workQueue')
  BY <1>8, <1>9, <1>10 DEF TokensOK
<1>12. ~IsOpen(stream') /\ (IsStarted(stream') => pipeline' # <<>>) /\ (stream').state # "Backoff"
  BY <1>10 DEF IsOpen, IsStarted
<1>13. StreamOK(TRUE, pipeline', stream', FALSE, NoCall) /\ InFlightOK(pipeline', stream', FALSE, NoCall)
  BY <1>10, <1>12, ClosedOK
<1>14. provider' \in ProviderType
  BY <1>1, <1>2 DEF ProviderType
<1>15. RemoteInv'
  BY <1>1, <1>2, <1>6, <1>9, <1>10, <1>11, <1>13, <1>14, NoCallType DEF RemoteInv, q
<1>16. QED BY <1>3, <1>4, <1>15, InvFromPartsNext

\* It does so after an exit and after a failed assertion.
LEMMA RestartStep ==
    ASSUME IInv, Restart
    PROVE  IInv'
<1>1. StoreInv /\ RecordInv /\ provider \in ProviderType
  BY DurableParts
<1>2. Boot(queue) /\ calls' \in Seq([w : Writes, result : {"ok", "error"}])
  BY <1>1 DEF Restart, RecordInv
<1>3. QED BY <1>1, <1>2, BootStep

\* And after a crash before the acknowledgement.
LEMMA CrashStep ==
    ASSUME StoreInv, RecordInv, RemoteInv, CrashBeforeAcknowledge
    PROVE  IInv'
<1> DEFINE Entry == [w : Writes, result : {"ok", "error"}]
           e == [w |-> Head(pipeline).w, result |-> "ok"]
<1>1. calls \in Seq(Entry) /\ provider \in ProviderType
  BY DEF RecordInv, RemoteInv
<1>2. calls' \in {calls, Append(calls, e)} /\ Boot(queue) /\ pipeline # <<>>
  BY DEF CrashBeforeAcknowledge
<1>3. e \in Entry
  <2>1. Head(pipeline) \in Batch
    BY <1>2, PopFirst
  <2>2. QED BY <2>1 DEF Batch
<1> HIDE DEF e, Entry
<1>4. calls' \in Seq(Entry)
  BY <1>1, <1>2, <1>3, AppendProperties
<1>5. QED BY <1>1, <1>2, <1>4, BootStep DEF Entry

\* Every action of the client, the application, Auth, the transport and the backend
\* preserves the invariant.
LEMMA RunningInv ==
    ASSUME IInv, NoHardAssertFails, Environment \/ System
    PROVE  IInv'
<1>1. StoreInv /\ RecordInv /\ RemoteInv
  BY InvParts
<1>2. ASSUME NEW w \in Writes, WriteMutations(w) PROVE IInv'
  BY <1>1, <1>2, WriteMutationsStep
<1>3. CASE EnableNetwork
  BY <1>1, <1>3, EnableNetworkStep
<1>4. CASE DisableNetwork
  BY <1>1, <1>4, DisableNetworkStep
<1>5. ASSUME NEW u \in Users, AuthStateDidChange(u) PROVE IInv'
  BY <1>1, <1>5, AuthStateDidChangeStep
<1>6. CASE TokenExpires
  BY <1>1, <1>6, TokenExpiresStep
<1>7. ASSUME NEW r \in stream.requests, TokenFails(r) PROVE IInv'
  BY <1>1, <1>7, TokenFailsStep
<1>8. ASSUME NEW r \in stream.requests, TokenArrives(r) PROVE IInv'
  BY <1>1, <1>8, TokenArrivesStep
<1>9. CASE \/ ServerHandshake \/ ServerCommit \/ ServerRefuse
           \/ \E status \in (Errors \ {"unauthenticated"}) \cup {"ended"} : ServerFault(status)
  BY <1>1, <1>9, ServerSteps
<1>10. CASE MalformedResponse \/ CallFinished \/ WriteFailed \/ ConnectionLost
  BY <1>1, <1>10, EndOfCallSteps
<1>11. CASE CrashBeforeAcknowledge
  BY <1>1, <1>11, CrashStep
<1>12. CASE CredentialDidChange
  BY <1>1, <1>12, CredentialDidChangeStep
<1>13. CASE StaleTokenCallback
  BY <1>1, <1>13, StaleTokenCallbackStep
<1>14. CASE TokenCallback
  BY <1>1, <1>14, TokenCallbackStep
<1>15. CASE TokenErrorCallback
  BY <1>1, <1>15, TokenErrorCallbackStep
<1>16. CASE HandshakeResponse
  BY <1>1, <1>16, HandshakeResponseStep
<1>17. CASE MutationResult
  BY <1>1, <1>17, MutationResultStep
<1>18. CASE BackoffTimeout
  BY <1>1, <1>18, BackoffTimeoutStep
<1>19. CASE IdleTimeout
  BY <1>1, <1>19, IdleTimeoutStep
<1>20. CASE CallEnded
  BY <1>1, <1>20, CallEndedStep
<1>21. QED
  BY <1>2, <1>3, <1>4, <1>5, <1>6, <1>7, <1>8, <1>9, <1>10, <1>11, <1>12, <1>13, <1>14,
     <1>15, <1>16, <1>17, <1>18, <1>19, <1>20 DEF Environment, System

\* The invariant is inductive: a step of the running process preserves it, and so does
\* the start of a new one.
THEOREM NextInv == IInv /\ [Next]_vars => IInv'
<1> SUFFICES ASSUME IInv, [Next]_vars PROVE IInv'
  OBVIOUS
<1>1. CASE NoHardAssertFails /\ (Environment \/ System)
  BY <1>1, RunningInv
<1>2. CASE Restart
  BY <1>2, RestartStep
<1>3. CASE UNCHANGED vars
  <2>1. /\ localStore' = localStore /\ engine' = engine /\ remote' = remote
        /\ outside' = outside /\ backend' = backend /\ application' = application
        /\ budget' = budget
    BY <1>3 DEF vars
  <2>2. StoreInv'
    BY <2>1, DurableParts, StoreSame DEF localStore, engine, application
  <2>3. TypeOK' /\ PipelineIsQueuePrefix' /\ OnlyGracefulEndAborts'
    <3>1. UNCHANGED <<queue, nextBatchId, savedToken, user, completions, isNetworkEnabled, pipeline,
                      stream, handshake, streamToken, failed, workQueue, provider, call,
                      committed, refused, owner, calls, budget>>
      BY <2>1 DEF localStore, engine, remote, outside, backend, application
    <3>2. TypeOK /\ PipelineIsQueuePrefix /\ OnlyGracefulEndAborts
      BY DEF IInv
    <3>3. TypeOK'
      BY <3>1, <3>2 DEF TypeOK
    <3>4. PipelineIsQueuePrefix' /\ OnlyGracefulEndAborts'
      BY <3>1, <3>2 DEF PipelineIsQueuePrefix, OnlyGracefulEndAborts
    <3>5. QED BY <3>3, <3>4
  <2>4. QED BY <2>1, <2>2, <2>3 DEF IInv, StoreInv, remote, outside, backend
<1>4. QED BY <1>1, <1>2, <1>3 DEF Next

\* Every reachable state of the write path satisfies the inductive invariant.
THEOREM WritePathInv == Spec => []IInv
BY InitInv, NextInv, PTL DEF Spec

\* Every variable of the write path keeps its type.
THEOREM WritePathType == Spec => []TypeOK
<1>1. IInv => TypeOK
  BY DEF IInv
<1>2. QED BY <1>1, WritePathInv, PTL

\* A HARD_ASSERT of the stream, the write half of RemoteStore or the mutation queue
\* fails in one case only, when the backend ends the call with OK while writes are in
\* the pipeline: for any number of users, writes, faults, sign-ins, toggles and
\* restarts, and for either kind of mutation queue.
THEOREM AssertsHold == Spec => []OnlyGracefulEndAborts
<1>1. IInv => OnlyGracefulEndAborts
  BY DEF IInv
<1>2. QED BY <1>1, WritePathInv, PTL

\* The write pipeline is always a prefix of the signed-in user's mutation queue,
\* never longer than kMaxPendingWrites, and empty while the network is disabled.
THEOREM PipelineIsPrefix == Spec => []PipelineIsQueuePrefix
<1>1. IInv => PipelineIsQueuePrefix
  BY DEF IInv
<1>2. QED BY <1>1, WritePathInv, PTL


-----------------------------------------------------------------------------
(* Sequences.                                                              *)

InFlightItem == {Handshake} \cup Writes

\* What a concatenation starts with, and what is left without it.
LEMMA ConcatFirst ==
    ASSUME NEW S, NEW x \in Seq(S), NEW y \in Seq(S), x # <<>>
    PROVE  /\ (x \o y)[1] = Head(x)
           /\ x \o y # <<>>
           /\ Tail(x \o y) = Tail(x) \o y
<1>1. Len(x) \in Nat /\ Len(y) \in Nat /\ Len(x) # 0 /\ x[1] = Head(x)
  BY EmptySeq, LenProperties
<1>2. /\ x \o y \in Seq(S)
      /\ Len(x \o y) = Len(x) + Len(y)
      /\ \A i \in 1 .. Len(x) + Len(y) : (x \o y)[i] = IF i <= Len(x) THEN x[i] ELSE y[i - Len(x)]
  BY ConcatProperties
<1>3. (x \o y)[1] = Head(x) /\ x \o y # <<>>
  BY <1>1, <1>2, EmptySeq
<1>4. /\ Tail(x \o y) \in Seq(S) /\ Len(Tail(x \o y)) = Len(x \o y) - 1
      /\ \A i \in 1 .. Len(Tail(x \o y)) : Tail(x \o y)[i] = (x \o y)[i + 1]
  BY <1>2, <1>3, HeadTailProperties
<1>5. /\ Tail(x) \in Seq(S) /\ Len(Tail(x)) = Len(x) - 1
      /\ \A i \in 1 .. Len(Tail(x)) : Tail(x)[i] = x[i + 1]
  BY HeadTailProperties
<1>6. /\ Tail(x) \o y \in Seq(S)
      /\ Len(Tail(x) \o y) = Len(Tail(x)) + Len(y)
      /\ \A i \in 1 .. Len(Tail(x)) + Len(y) :
            (Tail(x) \o y)[i] = IF i <= Len(Tail(x)) THEN Tail(x)[i] ELSE y[i - Len(Tail(x))]
  BY <1>5, ConcatProperties
<1>7. Len(Tail(x \o y)) = Len(Tail(x) \o y)
  BY <1>1, <1>2, <1>4, <1>5, <1>6
<1>8. ASSUME NEW i \in 1 .. Len(Tail(x \o y))
      PROVE  Tail(x \o y)[i] = (Tail(x) \o y)[i]
  <2>1. Tail(x \o y)[i] = (x \o y)[i + 1] /\ i + 1 \in 1 .. Len(x) + Len(y)
    BY <1>1, <1>2, <1>4
  <2>2. i \in 1 .. Len(Tail(x)) + Len(y)
    BY <1>6, <1>7
  <2>3. CASE i <= Len(x) - 1
    BY <1>1, <1>2, <1>5, <1>6, <2>1, <2>2, <2>3
  <2>4. CASE ~(i <= Len(x) - 1)
    <3>1. (x \o y)[i + 1] = y[(i + 1) - Len(x)]
      BY <1>1, <1>2, <2>1, <2>4
    <3>2. (Tail(x) \o y)[i] = y[i - Len(Tail(x))]
      BY <1>1, <1>5, <1>6, <2>2, <2>4
    <3>3. (i + 1) - Len(x) = i - Len(Tail(x))
      BY <1>1, <1>5
    <3>4. QED BY <2>1, <3>1, <3>2, <3>3
  <2>5. QED BY <2>3, <2>4
<1>9. Tail(x \o y) = Tail(x) \o y
  BY <1>4, <1>6, <1>7, <1>8, SeqEqual
<1>10. QED BY <1>3, <1>9

\* Moving an element from the front of one sequence to the end of the other.
LEMMA MoveOne ==
    ASSUME NEW S, NEW x \in Seq(S), NEW y \in Seq(S), y # <<>>
    PROVE  Append(x, Head(y)) \o Tail(y) = x \o y
<1>1. Head(y) \in S /\ Tail(y) \in Seq(S) /\ <<Head(y)>> \in Seq(S)
  BY HeadTailProperties
<1>2. Append(x, Head(y)) = x \o <<Head(y)>>
  BY <1>1, AppendIsConcat
<1>3. (x \o <<Head(y)>>) \o Tail(y) = x \o (<<Head(y)>> \o Tail(y))
  BY <1>1, ConcatAssociative
<1>4. <<Head(y)>> \o Tail(y) = y
  <2> DEFINE z == <<Head(y)>> \o Tail(y)
  <2>1. /\ z \in Seq(S)
        /\ Len(z) = Len(<<Head(y)>>) + Len(Tail(y))
        /\ \A i \in 1 .. Len(<<Head(y)>>) + Len(Tail(y)) :
              z[i] = IF i <= Len(<<Head(y)>>) THEN <<Head(y)>>[i] ELSE Tail(y)[i - Len(<<Head(y)>>)]
    BY <1>1, ConcatProperties
  <2>2. /\ Len(Tail(y)) = Len(y) - 1 /\ Len(y) \in Nat /\ Len(y) # 0
        /\ \A i \in 1 .. Len(Tail(y)) : Tail(y)[i] = y[i + 1]
        /\ Head(y) = y[1]
    BY HeadTailProperties, EmptySeq, LenProperties
  <2>3. Len(<<Head(y)>>) = 1 /\ <<Head(y)>>[1] = Head(y)
    OBVIOUS
  <2> HIDE DEF z
  <2>4. Len(z) = Len(y)
    BY <2>1, <2>2, <2>3
  <2>5. ASSUME NEW i \in 1 .. Len(z) PROVE z[i] = y[i]
    <3>1. CASE i = 1
      BY <2>1, <2>2, <2>3, <3>1
    <3>2. CASE i # 1
      <4>1. i - 1 \in 1 .. Len(Tail(y)) /\ (i - 1) + 1 = i
        BY <2>1, <2>2, <2>3, <3>2
      <4>2. z[i] = Tail(y)[i - 1]
        BY <2>1, <2>2, <2>3, <3>2
      <4>3. QED BY <2>2, <4>1, <4>2
    <3>3. QED BY <3>1, <3>2
  <2>6. z = y
    BY <2>1, <2>4, <2>5, SeqEqual
  <2>7. QED BY <2>6 DEF z
<1>5. QED BY <1>2, <1>3, <1>4

\* The requests of a sequence of batches, element by element.
LEMMA RequestsAt ==
    ASSUME NEW b \in Seq(Batch)
    PROVE  /\ Requests(b) \in Seq(InFlightItem)
           /\ Len(Requests(b)) = Len(b)
           /\ \A i \in 1 .. Len(b) : Requests(b)[i] = b[i].w /\ b[i].w \in Writes
           /\ Requests(b) = <<>> <=> b = <<>>
<1>1. Requests(b) \in Seq(InFlightItem) /\ Len(Requests(b)) = Len(b)
  BY RequestsFacts DEF InFlightItem
<1>2. \A i \in 1 .. Len(b) : Requests(b)[i] = b[i].w /\ b[i].w \in Writes
  BY BatchFacts DEF Requests
<1>3. Requests(b) = <<>> <=> b = <<>>
  BY <1>1, EmptySeq
<1>4. QED BY <1>1, <1>2, <1>3

LEMMA RequestsConcat ==
    ASSUME NEW a \in Seq(Batch), NEW b \in Seq(Batch)
    PROVE  Requests(a \o b) = Requests(a) \o Requests(b)
<1> DEFINE r == Requests(a \o b)
           t == Requests(a) \o Requests(b)
<1>1. /\ a \o b \in Seq(Batch) /\ Len(a \o b) = Len(a) + Len(b)
      /\ \A i \in 1 .. Len(a) + Len(b) : (a \o b)[i] = IF i <= Len(a) THEN a[i] ELSE b[i - Len(a)]
  BY ConcatProperties
<1>2. /\ r \in Seq(InFlightItem) /\ Len(r) = Len(a) + Len(b)
      /\ \A i \in 1 .. Len(a) + Len(b) : r[i] = (a \o b)[i].w
  BY <1>1, RequestsAt
<1>3. /\ Requests(a) \in Seq(InFlightItem) /\ Len(Requests(a)) = Len(a)
      /\ \A i \in 1 .. Len(a) : Requests(a)[i] = a[i].w
      /\ Requests(b) \in Seq(InFlightItem) /\ Len(Requests(b)) = Len(b)
      /\ \A i \in 1 .. Len(b) : Requests(b)[i] = b[i].w
      /\ Len(a) \in Nat /\ Len(b) \in Nat
  BY RequestsAt, LenProperties
<1>4. /\ t \in Seq(InFlightItem) /\ Len(t) = Len(a) + Len(b)
      /\ \A i \in 1 .. Len(a) + Len(b) :
            t[i] = IF i <= Len(a) THEN Requests(a)[i] ELSE Requests(b)[i - Len(a)]
  <2> DEFINE ra == Requests(a)
             rb == Requests(b)
  <2> HIDE DEF ra, rb
  <2>1. /\ ra \o rb \in Seq(InFlightItem) /\ Len(ra \o rb) = Len(ra) + Len(rb)
        /\ \A i \in 1 .. Len(ra) + Len(rb) :
              (ra \o rb)[i] = IF i <= Len(ra) THEN ra[i] ELSE rb[i - Len(ra)]
    <3>1. ra \in Seq(InFlightItem) /\ rb \in Seq(InFlightItem)
      BY <1>3 DEF ra, rb
    <3>2. QED BY <3>1, ConcatProperties
  <2>2. Len(ra) = Len(a) /\ Len(rb) = Len(b)
    BY <1>3 DEF ra, rb
  <2>3. QED BY <2>1, <2>2 DEF ra, rb
<1> HIDE DEF r, t
<1>5. ASSUME NEW i \in 1 .. Len(r) PROVE r[i] = t[i]
  <2>1. i \in 1 .. Len(a) + Len(b) /\ r[i] = (a \o b)[i].w
    BY <1>2
  <2>2. CASE i <= Len(a)
    BY <1>1, <1>3, <1>4, <2>1, <2>2
  <2>3. CASE ~(i <= Len(a))
    <3>1. i - Len(a) \in 1 .. Len(b)
      BY <1>3, <2>1, <2>3
    <3>2. QED BY <1>1, <1>3, <1>4, <2>1, <2>3, <3>1
  <2>4. QED BY <2>2, <2>3
<1>6. r = t
  BY <1>2, <1>4, <1>5, SeqEqual
<1>7. QED BY <1>6 DEF r, t

LEMMA RequestsTail ==
    ASSUME NEW b \in Seq(Batch), b # <<>>
    PROVE  Requests(Tail(b)) = Tail(Requests(b)) /\ Head(Requests(b)) = Head(b).w
<1>1. /\ Tail(b) \in Seq(Batch) /\ Len(Tail(b)) = Len(b) - 1
      /\ \A i \in 1 .. Len(Tail(b)) : Tail(b)[i] = b[i + 1]
      /\ Len(b) \in Nat /\ Len(b) # 0 /\ Head(b) = b[1]
  BY HeadTailProperties, EmptySeq, LenProperties
<1>2. /\ Requests(b) \in Seq(InFlightItem) /\ Len(Requests(b)) = Len(b)
      /\ \A i \in 1 .. Len(b) : Requests(b)[i] = b[i].w
      /\ Requests(b) # <<>>
  BY RequestsAt
<1>3. /\ Tail(Requests(b)) \in Seq(InFlightItem) /\ Len(Tail(Requests(b))) = Len(b) - 1
      /\ \A i \in 1 .. Len(b) - 1 : Tail(Requests(b))[i] = Requests(b)[i + 1]
  BY <1>2, HeadTailProperties
<1>4. /\ Requests(Tail(b)) \in Seq(InFlightItem) /\ Len(Requests(Tail(b))) = Len(b) - 1
      /\ \A i \in 1 .. Len(b) - 1 : Requests(Tail(b))[i] = Tail(b)[i].w
  BY <1>1, RequestsAt
<1>5. \A i \in 1 .. Len(b) - 1 : Requests(Tail(b))[i] = Tail(Requests(b))[i]
  BY <1>1, <1>2, <1>3, <1>4
<1>6. Requests(Tail(b)) = Tail(Requests(b))
  BY <1>3, <1>4, <1>5, SeqEqual
<1>7. Head(Requests(b)) = Head(b).w
  BY <1>1, <1>2
<1>8. QED BY <1>6, <1>7

-----------------------------------------------------------------------------
(* The queues, the completion blocks and what the backend has handled.     *)

StoreSafe == QueuesOwned /\ BlocksMatchQueue /\ HandledOwned /\ CallsOK

Block == [user : Users, id : Nat, w : Writes]

CallEntry == [w : Writes, result : {"ok", "error"}]

\* The elements of a sequence with one more at the end.
LEMMA AppendCases ==
    ASSUME NEW S, NEW s \in Seq(S), NEW e \in S
    PROVE  /\ Append(s, e) \in Seq(S)
           /\ \A i \in 1 .. Len(Append(s, e)) :
                 \/ i \in 1 .. Len(s) /\ Append(s, e)[i] = s[i]
                 \/ Append(s, e)[i] = e
           /\ \A i \in 1 .. Len(s) : i \in 1 .. Len(Append(s, e)) /\ Append(s, e)[i] = s[i]
           /\ Len(s) + 1 \in 1 .. Len(Append(s, e)) /\ Append(s, e)[Len(s) + 1] = e
<1>1. /\ Append(s, e) \in Seq(S)
      /\ Len(Append(s, e)) = Len(s) + 1
      /\ \A i \in 1 .. Len(s) : Append(s, e)[i] = s[i]
      /\ Append(s, e)[Len(s) + 1] = e
      /\ Len(s) \in Nat
  BY AppendProperties, LenProperties
<1>2. QED BY <1>1

\* A batch id occurs once in a queue.
LEMMA IdsUnique ==
    ASSUME NEW q \in Seq(Batch), QueueOrdered(q), NEW i \in 1 .. Len(q), NEW j \in 1 .. Len(q),
           q[i].id = q[j].id
    PROVE  i = j
<1>1. Len(q) \in Nat /\ \A k \in 1 .. Len(q) : q[k].id \in Nat
  BY BatchFacts
<1>2. CASE Durable
  BY <1>1, <1>2 DEF QueueOrdered
<1>3. CASE ~Durable
  <2>1. q[i].id = q[1].id + i - 1 /\ q[j].id = q[1].id + j - 1 /\ 1 \in 1 .. Len(q)
    BY <1>1, <1>3 DEF QueueOrdered
  <2>2. PICK first \in Nat : first = q[1].id
    BY <1>1, <2>1
  <2>3. first + i - 1 = first + j - 1
    BY <2>1, <2>2
  <2>4. i \in Int /\ j \in Int
    BY <1>1
  <2>5. QED BY <2>3, <2>4
<1>4. QED BY <1>2, <1>3

\* The first batch of a queue that is ordered and owned: where it is gone, no
\* batch has its id, and no queue its write.
LEMMA PoppedQueue ==
    ASSUME StoreInv, StoreSafe, queue[user] # <<>>,
           queue' = [queue EXCEPT ![user] = RemoveBatch(queue[user], queue[user][1].id)]
    PROVE  /\ \A u \in Users \ {user} : queue'[u] = queue[u]
           /\ \A i \in 1 .. Len(queue'[user]) :
                 i + 1 \in 1 .. Len(queue[user]) /\ queue'[user][i] = queue[user][i + 1]
           /\ \A i \in 2 .. Len(queue[user]) :
                 i - 1 \in 1 .. Len(queue'[user]) /\ queue'[user][i - 1] = queue[user][i]
           /\ 1 \in 1 .. Len(queue[user])
           /\ queue[user] \in Seq(Batch) /\ QueueOrdered(queue[user])
           /\ \A u \in Users : \A i \in 1 .. Len(queue'[u]) :
                 /\ \E j \in 1 .. Len(queue[u]) : queue'[u][i] = queue[u][j]
                 /\ queue'[u][i].w # queue[user][1].w
<1> DEFINE q == queue[user]
           r == RemoveBatch(q, q[1].id)
<1>1. q \in Seq(Batch) /\ QueueOrdered(q) /\ user \in Users
  BY DEF StoreInv, QueuesOrdered
<1>2. r \in Seq(Batch) /\ Len(r) = Len(q) - 1 /\ \A i \in 1 .. Len(r) : r[i] = q[i + 1]
  BY <1>1, RemoveFirst
<1>3. Len(q) \in Nat /\ Len(q) # 0
  BY <1>1, BatchFacts
<1>4. queue'[user] = r /\ \A u \in Users \ {user} : queue'[u] = queue[u]
  BY <1>1 DEF StoreInv
<1> HIDE DEF r
<1>5. \A i \in 1 .. Len(r) : i + 1 \in 1 .. Len(q) /\ r[i] = q[i + 1]
  BY <1>2, <1>3
<1>6. \A i \in 2 .. Len(q) : i - 1 \in 1 .. Len(r) /\ r[i - 1] = q[i]
  <2>1. ASSUME NEW i \in 2 .. Len(q) PROVE i - 1 \in 1 .. Len(r) /\ r[i - 1] = q[i]
    <3>1. i - 1 \in 1 .. Len(r) /\ (i - 1) + 1 = i
      BY <1>2, <1>3
    <3>2. QED BY <1>2, <3>1
  <2>2. QED BY <2>1
<1>7. ASSUME NEW u \in Users, NEW i \in 1 .. Len(queue'[u])
      PROVE  /\ \E j \in 1 .. Len(queue[u]) : queue'[u][i] = queue[u][j]
             /\ queue'[u][i].w # q[1].w
  <2>1. owner[q[1].w] = user
    BY <1>1, <1>3 DEF StoreSafe, QueuesOwned
  <2>2. CASE u # user
    <3>1. queue'[u] = queue[u] /\ owner[queue[u][i].w] = u
      BY <1>4, <2>2 DEF StoreSafe, QueuesOwned
    <3>2. QED BY <2>1, <2>2, <3>1
  <2>3. CASE u = user
    <3>0. i \in 1 .. Len(r) /\ queue'[u] = r
      BY <1>4, <2>3
    <3>1. i + 1 \in 1 .. Len(q) /\ queue'[u][i] = q[i + 1] /\ 1 \in 1 .. Len(q) /\ i + 1 # 1
      BY <1>2, <1>3, <1>5, <3>0
    <3>2. q[i + 1].w # q[1].w
      BY <1>1, <3>1 DEF StoreSafe, QueuesOwned
    <3>3. QED BY <2>3, <3>1, <3>2
  <2>4. QED BY <2>2, <2>3
<1>8. QED BY <1>1, <1>3, <1>4, <1>5, <1>6, <1>7

\* ProcessUserCallbacks for the first batch of the queue calls the block of that
\* very write, if there is one, and no other.
LEMMA CallbackOfFirst ==
    ASSUME StoreInv, RecordInv, StoreSafe, queue[user] # <<>>, NEW result \in {"ok", "error"},
           ProcessUserCallbacks(queue[user][1].id, result)
    PROVE  /\ completions' = {c \in completions : ~(c.user = user /\ c.id = queue[user][1].id)}
           /\ calls' \in {calls, Append(calls, [w |-> queue[user][1].w, result |-> result])}
           /\ queue[user][1].w \in Writes
<1> DEFINE q == queue[user]
           blocks == {c \in completions : c.user = user /\ c.id = q[1].id}
           b == CHOOSE c \in blocks : TRUE
<1>1. /\ q \in Seq(Batch) /\ QueueOrdered(q) /\ user \in Users
      /\ 1 \in 1 .. Len(q) /\ q[1].w \in Writes
  BY BatchFacts DEF StoreInv, QueuesOrdered
<1>2. /\ completions' = completions \ blocks
      /\ calls' = IF blocks = {} THEN calls ELSE Append(calls, [w |-> b.w, result |-> result])
  BY DEF ProcessUserCallbacks
<1>3. blocks # {} => b \in blocks
  BY Zenon
<1> HIDE DEF b
<1>4. ASSUME b \in blocks PROVE b.w = q[1].w
  <2>1. PICK i \in 1 .. Len(queue[b.user]) : queue[b.user][i].id = b.id /\ queue[b.user][i].w = b.w
    BY <1>4 DEF StoreSafe, BlocksMatchQueue
  <2>2. i \in 1 .. Len(q) /\ q[i].id = q[1].id /\ q[i].w = b.w
    BY <1>4, <2>1
  <2>3. i = 1
    BY <1>1, <2>2, IdsUnique
  <2>4. QED BY <2>2, <2>3
<1>5. QED BY <1>1, <1>2, <1>3, <1>4

\* A batch leaves the front of the queue and its block is called, with a result
\* that is true.
LEMMA SafePop ==
    ASSUME StoreInv, RecordInv, StoreSafe, queue[user] # <<>>, NEW result \in {"ok", "error"},
           ProcessUserCallbacks(queue[user][1].id, result),
           queue' = [queue EXCEPT ![user] = RemoveBatch(queue[user], queue[user][1].id)],
           UNCHANGED <<user, owner, committed, refused>>,
           \A u \in Users : savedToken'[u] \in {u, NoUser},
           result = "ok" => IsCommitted(queue[user][1].w),
           result = "error" => WriteMayFailFirst \/ queue[user][1].w \in refused
    PROVE  StoreSafe'
<1> DEFINE q == queue[user]
           w1 == q[1].w
<1>1. /\ completions' = {c \in completions : ~(c.user = user /\ c.id = q[1].id)}
      /\ calls' \in {calls, Append(calls, [w |-> w1, result |-> result])}
      /\ w1 \in Writes
  BY CallbackOfFirst
<1>2. /\ \A u \in Users \ {user} : queue'[u] = queue[u]
      /\ \A i \in 1 .. Len(queue'[user]) :
            i + 1 \in 1 .. Len(q) /\ queue'[user][i] = q[i + 1]
      /\ \A i \in 2 .. Len(q) :
            i - 1 \in 1 .. Len(queue'[user]) /\ queue'[user][i - 1] = q[i]
      /\ 1 \in 1 .. Len(q) /\ q \in Seq(Batch) /\ QueueOrdered(q)
  BY PoppedQueue
<1>3. \A u \in Users : \A i \in 1 .. Len(queue'[u]) :
          /\ \E j \in 1 .. Len(queue[u]) : queue'[u][i] = queue[u][j]
          /\ queue'[u][i].w # w1
  BY PoppedQueue
<1>4. user \in Users /\ user # NoUser /\ owner[w1] = user /\ Len(q) \in Nat
      /\ completions \subseteq Block /\ calls \in Seq(CallEntry)
      /\ committed \in Seq([w : Writes, user : Users])
  BY <1>2, WritePathAssumption, BatchFacts
     DEF StoreInv, RecordInv, StoreSafe, QueuesOwned, Block, CallEntry
<1> HIDE DEF w1
<1>5. QueuesOwned'
  <2>1. \A u \in Users : \A i \in 1 .. Len(queue'[u]) : owner[queue'[u][i].w] = u
    BY <1>3, SMTT(40) DEF StoreSafe, QueuesOwned
  <2>2. ASSUME NEW u \in Users, NEW i \in 1 .. Len(queue'[u]), NEW j \in 1 .. Len(queue'[u]),
               queue'[u][i].w = queue'[u][j].w
        PROVE  i = j
    <3>1. CASE u # user
      BY <1>2, <2>2, <3>1 DEF StoreSafe, QueuesOwned
    <3>2. CASE u = user
      <4>1. /\ i + 1 \in 1 .. Len(q) /\ queue'[u][i] = q[i + 1]
            /\ j + 1 \in 1 .. Len(q) /\ queue'[u][j] = q[j + 1]
        BY <1>2, <3>2
      <4>2. i + 1 = j + 1
        BY <1>4, <2>2, <4>1 DEF StoreSafe, QueuesOwned
      <4>3. i \in Int /\ j \in Int
        OBVIOUS
      <4>4. QED BY <4>2, <4>3
    <3>3. QED BY <3>1, <3>2
  <2>3. QED BY <2>1, <2>2 DEF QueuesOwned
<1>6. BlocksMatchQueue'
  <2>1. ASSUME NEW c \in completions'
        PROVE  \E i \in 1 .. Len(queue'[c.user]) :
                  queue'[c.user][i].id = c.id /\ queue'[c.user][i].w = c.w
    <3>1. c \in completions /\ ~(c.user = user /\ c.id = q[1].id) /\ c.user \in Users
      BY <1>1, <1>4 DEF Block
    <3>2. PICK i \in 1 .. Len(queue[c.user]) :
                 queue[c.user][i].id = c.id /\ queue[c.user][i].w = c.w
      BY <3>1 DEF StoreSafe, BlocksMatchQueue
    <3>3. CASE c.user # user
      BY <1>2, <3>1, <3>2, <3>3
    <3>4. CASE c.user = user
      <4>1. i \in 2 .. Len(q)
        BY <1>4, <3>1, <3>2, <3>4
      <4>2. i - 1 \in 1 .. Len(queue'[user]) /\ queue'[user][i - 1] = q[i]
        BY <1>2, <4>1
      <4>3. QED BY <3>2, <3>4, <4>2
    <3>5. QED BY <3>3, <3>4
  <2>2. ASSUME MaxRestarts = 0, NEW u \in Users, NEW i \in 1 .. Len(queue'[u])
        PROVE  [user |-> u, id |-> queue'[u][i].id, w |-> queue'[u][i].w] \in completions'
    <3>1. \A k \in 1 .. Len(queue[u]) :
              [user |-> u, id |-> queue[u][k].id, w |-> queue[u][k].w] \in completions
      BY <2>2 DEF StoreSafe, BlocksMatchQueue
    <3>2. CASE u # user
      BY <1>1, <1>2, <3>1, <3>2
    <3>3. CASE u = user
      <4>1. i + 1 \in 1 .. Len(q) /\ queue'[u][i] = q[i + 1]
        BY <1>2, <3>3
      <4>2. q[i + 1].id # q[1].id
        <5>1. i + 1 # 1
          OBVIOUS
        <5>2. QED BY <1>2, <4>1, <5>1, IdsUnique, ZenonT(60)
      <4>3. QED BY <1>1, <3>1, <3>3, <4>1, <4>2
    <3>4. QED BY <3>2, <3>3
  <2>3. QED BY <2>1, <2>2 DEF BlocksMatchQueue
<1>7. HandledOwned'
  BY DEF StoreSafe, HandledOwned, CredentialsNeverCross
<1>8. CallsOK'
  <2> DEFINE e == [w |-> w1, result |-> result]
  <2>1. e \in CallEntry /\ e.w = w1 /\ e.result = result
    BY <1>1 DEF CallEntry
  <2> HIDE DEF e
  <2>2. \A i \in 1 .. Len(calls') : calls'[i] = e \/ \E k \in 1 .. Len(calls) : calls'[i] = calls[k]
    <3>1. CASE calls' = calls
      BY <3>1
    <3>2. CASE calls' = Append(calls, e)
      BY <1>4, <2>1, <3>2, AppendCases
    <3>3. QED BY <1>1, <3>1, <3>2 DEF e
  <2>3. \A i \in 1 .. Len(calls') : owner[calls'[i].w] # NoUser
    BY <1>4, <2>1, <2>2 DEF StoreSafe, CallsOK
  <2>4. SuccessWasCommitted'
    <3>1. IsCommitted(w1) \/ result # "ok"
      BY DEF w1
    <3>2. ASSUME NEW i \in 1 .. Len(calls'), calls'[i].result = "ok"
          PROVE  \E j \in 1 .. Len(committed) : committed[j].w = calls'[i].w
      <4>1. CASE calls'[i] = e
        BY <2>1, <3>1, <3>2, <4>1 DEF IsCommitted
      <4>2. CASE \E k \in 1 .. Len(calls) : calls'[i] = calls[k]
        BY <3>2, <4>2 DEF StoreSafe, CallsOK, SuccessWasCommitted
      <4>3. QED BY <2>2, <4>1, <4>2
    <3>3. QED BY <3>2 DEF SuccessWasCommitted
  <2>5. ASSUME ~WriteMayFailFirst PROVE ErrorWasRefused'
    <3>1. w1 \in refused \/ result # "error"
      BY <2>5 DEF w1
    <3>2. ASSUME NEW i \in 1 .. Len(calls'), calls'[i].result = "error"
          PROVE  /\ calls'[i].w \in refused
                 /\ \A j \in 1 .. Len(committed) : committed[j].w # calls'[i].w
      <4>1. CASE calls'[i] = e
        BY <2>1, <3>1, <3>2, <4>1 DEF StoreSafe, HandledOwned
      <4>2. CASE \E k \in 1 .. Len(calls) : calls'[i] = calls[k]
        BY <2>5, <3>2, <4>2 DEF StoreSafe, CallsOK, ErrorWasRefused
      <4>3. QED BY <2>2, <4>1, <4>2
    <3>3. QED BY <3>2 DEF ErrorWasRefused
  <2>6. ASSUME MaxRestarts = 0, NEW i \in 1 .. Len(calls'), NEW u \in Users,
               NEW k \in 1 .. Len(queue'[u])
        PROVE  queue'[u][k].w # calls'[i].w
    <3>1. CASE calls'[i] = e
      BY <1>3, <2>1, <3>1
    <3>2. CASE \E m \in 1 .. Len(calls) : calls'[i] = calls[m]
      <4>1. PICK m \in 1 .. Len(calls) : calls'[i] = calls[m]
        BY <3>2
      <4>2. PICK j \in 1 .. Len(queue[u]) : queue'[u][k] = queue[u][j]
        BY <1>3
      <4>3. queue[u][j].w # calls[m].w
        BY <2>6 DEF StoreSafe, CallsOK
      <4>4. QED BY <4>1, <4>2, <4>3
    <3>3. QED BY <2>2, <3>1, <3>2
  <2>7. QED BY <2>3, <2>4, <2>5, <2>6 DEF CallsOK
<1>9. QED BY <1>5, <1>6, <1>7, <1>8 DEF StoreSafe

\* The writes of the records kept for the properties.
LEMMA RecordTypes ==
    ASSUME RecordInv
    PROVE  /\ \A j \in 1 .. Len(committed) : committed[j].w \in Writes /\ committed[j].user \in Users
           /\ \A i \in 1 .. Len(calls) : calls[i].w \in Writes
<1>1. committed \in Seq([w : Writes, user : Users]) /\ calls \in Seq(CallEntry)
  BY DEF RecordInv, CallEntry
<1>2. /\ \A j \in 1 .. Len(committed) : committed[j] \in [w : Writes, user : Users]
      /\ \A i \in 1 .. Len(calls) : calls[i] \in CallEntry
  BY <1>1, ElementOfSeq
<1>3. QED BY <1>2 DEF CallEntry

\* A new write: its id and its number are new to the queues, so no block is
\* replaced.
LEMMA SafeAppend ==
    ASSUME StoreInv, RecordInv, StoreSafe, NEW w \in Writes, owner[w] = NoUser,
           owner' = [owner EXCEPT ![w] = user],
           queue' = [queue EXCEPT ![user] =
                        Append(queue[user], [id |-> nextBatchId[user], w |-> w])],
           AddMutationCompletionBlock([id |-> nextBatchId[user], w |-> w]),
           UNCHANGED <<user, committed, refused, calls, savedToken>>
    PROVE  StoreSafe'
<1> DEFINE q == queue[user]
           n == nextBatchId[user]
           b == [id |-> n, w |-> w]
           block == [user |-> user, id |-> n, w |-> w]
<1>1. /\ q \in Seq(Batch) /\ QueueOrdered(q) /\ user \in Users /\ user # NoUser
      /\ n \in Nat /\ b \in Batch /\ b.id = n /\ b.w = w
      /\ completions \subseteq Block /\ calls \in Seq(CallEntry)
      /\ owner \in [Writes -> UserOrNone]
  <2>1. q \in Seq(Batch) /\ QueueOrdered(q) /\ user \in Users /\ user # NoUser /\ n \in Nat
    BY WritePathAssumption DEF StoreInv, QueuesOrdered
  <2>2. b \in Batch /\ b.id = n /\ b.w = w
    BY <2>1 DEF Batch
  <2>3. completions \subseteq Block /\ calls \in Seq(CallEntry)
    BY DEF RecordInv, Block, CallEntry
  <2>4. owner \in [Writes -> UserOrNone]
    BY DEF StoreInv
  <2>5. QED BY <2>1, <2>2, <2>3, <2>4
<1>2. /\ queue'[user] = Append(q, b)
      /\ \A u \in Users \ {user} : queue'[u] = queue[u]
  BY <1>1 DEF StoreInv
<1>3. completions' = {c \in completions : ~(c.user = user /\ c.id = n)} \cup {block}
  BY DEF AddMutationCompletionBlock
<1> HIDE DEF b, q
<1>4. /\ Append(q, b) \in Seq(Batch)
      /\ \A i \in 1 .. Len(Append(q, b)) :
            (i \in 1 .. Len(q) /\ Append(q, b)[i] = q[i]) \/ (Append(q, b)[i] = b)
      /\ \A i \in 1 .. Len(q) : i \in 1 .. Len(Append(q, b)) /\ Append(q, b)[i] = q[i]
      /\ Len(q) + 1 \in 1 .. Len(Append(q, b)) /\ Append(q, b)[Len(q) + 1] = b
  BY <1>1, AppendCases
<1>5. \A i \in 1 .. Len(q) : q[i].id # n
  <2>1. /\ Len(q) \in Nat
        /\ \A i \in 1 .. Len(q) : q[i].id \in Nat
        /\ q = <<>> <=> Len(q) = 0
    BY <1>1, BatchFacts
  <2>2. CASE Durable
    BY <1>1, <2>1, <2>2 DEF StoreInv, QueuesOrdered, NextIdContinues, q
  <2>3. CASE ~Durable
    <3>1. SUFFICES ASSUME NEW i \in 1 .. Len(q) PROVE q[i].id # n
      OBVIOUS
    <3>2. q # <<>> /\ 1 \in 1 .. Len(q)
      BY <2>1
    <3>3. n = q[1].id + Len(q)
      BY <1>1, <2>3, <3>2 DEF StoreInv, QueuesOrdered, NextIdContinues, q
    <3>4. q[i].id = q[1].id + i - 1
      BY <1>1, <2>3 DEF QueueOrdered
    <3>5. PICK first \in Nat : first = q[1].id
      BY <2>1, <3>2
    <3>6. first + Len(q) # first + i - 1
      BY <2>1
    <3>7. QED BY <3>3, <3>4, <3>5, <3>6
  <2>4. QED BY <2>2, <2>3
<1>6. \A u \in Users : \A i \in 1 .. Len(queue[u]) : queue[u][i].w \in Writes /\ queue[u][i].w # w
                                               /\ owner[queue[u][i].w] = u
  <2>1. ASSUME NEW u \in Users, NEW i \in 1 .. Len(queue[u])
        PROVE  queue[u][i].w \in Writes /\ queue[u][i].w # w /\ owner[queue[u][i].w] = u
    <3>1. queue[u] \in Seq(Batch) /\ u # NoUser
      BY WritePathAssumption DEF StoreInv
    <3>2. queue[u][i].w \in Writes
      BY <3>1, BatchFacts
    <3>3. owner[queue[u][i].w] = u
      BY DEF StoreSafe, QueuesOwned
    <3>4. QED BY <3>1, <3>2, <3>3
  <2>2. QED BY <2>1
<1>7. /\ owner'[w] = user
      /\ \A v \in Writes : v # w => owner'[v] = owner[v]
      /\ \A v \in Writes : owner[v] # NoUser => owner'[v] = owner[v]
  BY <1>1
<1>8. \A u \in Users : \A i \in 1 .. Len(queue'[u]) :
          \/ i \in 1 .. Len(queue[u]) /\ queue'[u][i] = queue[u][i]
          \/ u = user /\ queue'[u][i] = b /\ i \notin 1 .. Len(queue[u])
  <2>1. ASSUME NEW u \in Users, NEW i \in 1 .. Len(queue'[u])
        PROVE  \/ i \in 1 .. Len(queue[u]) /\ queue'[u][i] = queue[u][i]
               \/ u = user /\ queue'[u][i] = b /\ i \notin 1 .. Len(queue[u])
    <3>1. CASE u = user
      BY <1>2, <1>4, <3>1
    <3>2. CASE u # user
      BY <1>2, <3>2
    <3>3. QED BY <3>1, <3>2
  <2>2. QED BY <2>1
<1> HIDE DEF n
<1>9. QueuesOwned'
  <2>1. ASSUME NEW u \in Users, NEW i \in 1 .. Len(queue'[u])
        PROVE  owner'[queue'[u][i].w] = u
    <3>1. CASE i \in 1 .. Len(queue[u]) /\ queue'[u][i] = queue[u][i]
      BY <1>6, <1>7, <3>1
    <3>2. CASE u = user /\ queue'[u][i] = b
      BY <1>1, <1>7, <3>2
    <3>3. QED BY <1>8, <3>1, <3>2
  <2>2. ASSUME NEW u \in Users, NEW i \in 1 .. Len(queue'[u]), NEW j \in 1 .. Len(queue'[u]),
               queue'[u][i].w = queue'[u][j].w
        PROVE  i = j
    <3>1. CASE i \in 1 .. Len(queue[u]) /\ j \in 1 .. Len(queue[u])
      <4>1. queue'[u][i] = queue[u][i] /\ queue'[u][j] = queue[u][j]
        BY <1>8, <3>1
      <4>2. QED BY <2>2, <3>1, <4>1 DEF StoreSafe, QueuesOwned
    <3>2. CASE i \notin 1 .. Len(queue[u]) /\ j \in 1 .. Len(queue[u])
      BY <1>1, <1>6, <1>8, <2>2, <3>2
    <3>3. CASE i \in 1 .. Len(queue[u]) /\ j \notin 1 .. Len(queue[u])
      BY <1>1, <1>6, <1>8, <2>2, <3>3
    <3>4. CASE i \notin 1 .. Len(queue[u]) /\ j \notin 1 .. Len(queue[u])
      <4>1. u = user
        BY <1>8, <3>4
      <4>2. Len(queue'[u]) = Len(queue[u]) + 1 /\ Len(queue[u]) \in Nat
        BY <1>1, <1>2, <4>1, AppendProperties, LenProperties DEF q
      <4>3. QED BY <3>4, <4>2
    <3>5. QED BY <3>1, <3>2, <3>3, <3>4
  <2>3. QED BY <2>1, <2>2 DEF QueuesOwned
<1>10. BlocksMatchQueue'
  <2>1. ASSUME NEW c \in completions'
        PROVE  \E i \in 1 .. Len(queue'[c.user]) :
                  queue'[c.user][i].id = c.id /\ queue'[c.user][i].w = c.w
    <3>1. CASE c = block
      <4>1. c.user = user /\ c.id = b.id /\ c.w = b.w
        BY <1>1, <3>1
      <4>2. QED BY <1>2, <1>4, <4>1
    <3>2. CASE c \in completions
      <4>1. PICK i \in 1 .. Len(queue[c.user]) :
                   queue[c.user][i].id = c.id /\ queue[c.user][i].w = c.w
        BY <3>2 DEF StoreSafe, BlocksMatchQueue
      <4>2. c.user \in Users
        BY <1>1, <3>2 DEF Block
      <4>3. i \in 1 .. Len(queue'[c.user]) /\ queue'[c.user][i] = queue[c.user][i]
        BY <1>2, <1>4, <4>2 DEF q
      <4>4. QED BY <4>1, <4>3
    <3>3. QED BY <1>3, <3>1, <3>2
  <2>2. ASSUME MaxRestarts = 0, NEW u \in Users, NEW i \in 1 .. Len(queue'[u])
        PROVE  [user |-> u, id |-> queue'[u][i].id, w |-> queue'[u][i].w] \in completions'
    <3>1. CASE i \in 1 .. Len(queue[u]) /\ queue'[u][i] = queue[u][i]
      <4>1. [user |-> u, id |-> queue[u][i].id, w |-> queue[u][i].w] \in completions
        BY <2>2, <3>1 DEF StoreSafe, BlocksMatchQueue
      <4>2. ~(u = user /\ queue[u][i].id = n)
        BY <1>5, <3>1 DEF q
      <4>3. QED BY <1>3, <3>1, <4>1, <4>2
    <3>2. CASE u = user /\ queue'[u][i] = b
      BY <1>1, <1>3, <3>2
    <3>3. QED BY <1>8, <3>1, <3>2
  <2>3. QED BY <2>1, <2>2 DEF BlocksMatchQueue
<1>11. \A v \in Writes : owner[v] # NoUser => owner'[v] = owner[v]
  BY <1>7
<1>12. HandledOwned'
  <2>1. ASSUME NEW j \in 1 .. Len(committed) PROVE committed[j].user = owner'[committed[j].w]
    <3>1. committed[j].w \in Writes /\ committed[j].user \in Users
      BY RecordTypes
    <3>2. committed[j].user = owner[committed[j].w] /\ committed[j].user # NoUser
      BY <3>1, WritePathAssumption DEF StoreSafe, HandledOwned, CredentialsNeverCross
    <3>3. QED BY <1>11, <3>1, <3>2
  <2>2. ASSUME NEW v \in refused PROVE owner'[v] # NoUser
    BY <1>11 DEF RecordInv, StoreSafe, HandledOwned
  <2>3. QED BY <2>1, <2>2 DEF StoreSafe, HandledOwned, CredentialsNeverCross
<1>13. CallsOK'
  <2>1. ASSUME NEW i \in 1 .. Len(calls)
        PROVE  /\ owner'[calls[i].w] # NoUser
               /\ calls[i].w # w
    <3>1. calls[i].w \in Writes
      BY RecordTypes
    <3>2. owner[calls[i].w] # NoUser
      BY DEF StoreSafe, CallsOK
    <3>3. QED BY <1>11, <3>1, <3>2
  <2>2. SuccessWasCommitted' /\ (WriteMayFailFirst \/ ErrorWasRefused')
    BY DEF StoreSafe, CallsOK, SuccessWasCommitted, ErrorWasRefused
  <2>3. ASSUME MaxRestarts = 0, NEW i \in 1 .. Len(calls), NEW u \in Users,
               NEW k \in 1 .. Len(queue'[u])
        PROVE  queue'[u][k].w # calls[i].w
    <3>1. CASE k \in 1 .. Len(queue[u]) /\ queue'[u][k] = queue[u][k]
      BY <2>3, <3>1 DEF StoreSafe, CallsOK
    <3>2. CASE u = user /\ queue'[u][k] = b
      BY <1>1, <2>1, <3>2
    <3>3. QED BY <1>8, <3>1, <3>2
  <2>4. QED BY <2>1, <2>2, <2>3 DEF CallsOK
<1>14. QED BY <1>9, <1>10, <1>12, <1>13 DEF StoreSafe

\* A step that leaves the queues, the blocks and the backend's records alone.
LEMMA SafeSame ==
    ASSUME StoreSafe, UNCHANGED <<queue, completions, owner, committed, refused, calls>>,
           \A u \in Users : savedToken'[u] \in {u, NoUser}
    PROVE  StoreSafe'
<1>1. QueuesOwned'
  BY DEF StoreSafe, QueuesOwned
<1>2. BlocksMatchQueue'
  BY DEF StoreSafe, BlocksMatchQueue
<1>3. HandledOwned'
  <2>1. CredentialsNeverCross'
    BY DEF StoreSafe, HandledOwned, CredentialsNeverCross
  <2>2. QED BY <2>1 DEF StoreSafe, HandledOwned
<1>4. CallsOK'
  <2>1. SuccessWasCommitted' /\ (WriteMayFailFirst \/ ErrorWasRefused')
    BY DEF StoreSafe, CallsOK, SuccessWasCommitted, ErrorWasRefused
  <2>2. QED BY <2>1 DEF StoreSafe, CallsOK
<1>5. QED BY <1>1, <1>2, <1>3, <1>4 DEF StoreSafe

\* The backend commits a write with the credentials of its owner.
LEMMA SafeCommit ==
    ASSUME RecordInv, StoreSafe, NEW x \in Writes \ BadWrites, owner[x] \in Users,
           committed' = Append(committed, [w |-> x, user |-> owner[x]]),
           UNCHANGED <<queue, completions, owner, refused, calls, savedToken>>
    PROVE  StoreSafe'
<1> DEFINE e == [w |-> x, user |-> owner[x]]
           Entry == [w : Writes, user : Users]
<1>1. committed \in Seq(Entry) /\ e \in Entry /\ e.w = x /\ e.user = owner[x]
  BY DEF RecordInv
<1>2. committed' = Append(committed, e)
  OBVIOUS
<1> HIDE DEF e, Entry
<1>3. /\ \A i \in 1 .. Len(committed') : (\E j \in 1 .. Len(committed) : committed'[i] = committed[j])
                                         \/ committed'[i] = e
      /\ \A i \in 1 .. Len(committed) : i \in 1 .. Len(committed') /\ committed'[i] = committed[i]
  <2>1. /\ \A i \in 1 .. Len(Append(committed, e)) :
              (i \in 1 .. Len(committed) /\ Append(committed, e)[i] = committed[i])
              \/ Append(committed, e)[i] = e
        /\ \A i \in 1 .. Len(committed) :
              i \in 1 .. Len(Append(committed, e)) /\ Append(committed, e)[i] = committed[i]
    BY <1>1, AppendCases
  <2>2. QED BY <1>2, <2>1
<1>4. QueuesOwned' /\ BlocksMatchQueue'
  BY DEF StoreSafe, QueuesOwned, BlocksMatchQueue
<1>5. HandledOwned'
  <2>1. ASSUME NEW i \in 1 .. Len(committed')
        PROVE  committed'[i].user = owner[committed'[i].w] /\ committed'[i].w \notin BadWrites
    BY <1>1, <1>3 DEF StoreSafe, HandledOwned, CredentialsNeverCross
  <2>2. QED BY <2>1 DEF StoreSafe, HandledOwned, CredentialsNeverCross
<1>6. CallsOK'
  <2>1. SuccessWasCommitted'
    BY <1>3 DEF StoreSafe, CallsOK, SuccessWasCommitted
  <2>2. ASSUME ~WriteMayFailFirst PROVE ErrorWasRefused'
    <3>1. ASSUME NEW i \in 1 .. Len(calls), calls[i].result = "error", NEW j \in 1 .. Len(committed')
          PROVE  calls[i].w \in refused /\ committed'[j].w # calls[i].w
      <4>1. calls[i].w \in refused /\ \A k \in 1 .. Len(committed) : committed[k].w # calls[i].w
        BY <2>2, <3>1 DEF StoreSafe, CallsOK, ErrorWasRefused
      <4>2. calls[i].w \in BadWrites
        BY <4>1 DEF StoreSafe, HandledOwned
      <4>3. QED BY <1>1, <1>3, <4>1, <4>2
    <3>2. QED BY <2>2, <3>1 DEF StoreSafe, CallsOK, ErrorWasRefused
  <2>3. QED BY <2>1, <2>2 DEF StoreSafe, CallsOK
<1>7. QED BY <1>4, <1>5, <1>6 DEF StoreSafe

\* The backend refuses a write.
LEMMA SafeRefuse ==
    ASSUME StoreSafe, NEW x \in BadWrites, owner[x] # NoUser,
           refused' = refused \cup {x},
           UNCHANGED <<queue, completions, owner, committed, calls, savedToken>>
    PROVE  StoreSafe'
<1>1. QueuesOwned' /\ BlocksMatchQueue'
  BY DEF StoreSafe, QueuesOwned, BlocksMatchQueue
<1>2. HandledOwned'
  BY DEF StoreSafe, HandledOwned, CredentialsNeverCross
<1>3. CallsOK'
  BY DEF StoreSafe, CallsOK, SuccessWasCommitted, ErrorWasRefused
<1>4. QED BY <1>1, <1>2, <1>3 DEF StoreSafe

\* A restart loses the completion blocks.  A process that dies after it has
\* called a block has called the block of a committed write.
LEMMA SafeBoot ==
    ASSUME RecordInv, StoreSafe, MaxRestarts # 0, NEW x \in Writes, IsCommitted(x), owner[x] # NoUser,
           calls' \in {calls, Append(calls, [w |-> x, result |-> "ok"])},
           completions' = {},
           UNCHANGED <<queue, owner, committed, refused, savedToken>>
    PROVE  StoreSafe'
<1> DEFINE e == [w |-> x, result |-> "ok"]
<1>1. calls \in Seq(CallEntry) /\ e \in CallEntry /\ e.w = x /\ e.result = "ok"
  BY DEF RecordInv, CallEntry
<1>2. calls' \in {calls, Append(calls, e)}
  OBVIOUS
<1> HIDE DEF e
<1>3. \A i \in 1 .. Len(calls') : (\E j \in 1 .. Len(calls) : calls'[i] = calls[j]) \/ calls'[i] = e
  <2>1. CASE calls' = calls
    BY <2>1
  <2>2. CASE calls' = Append(calls, e)
    BY <1>1, <2>2, AppendCases
  <2>3. QED BY <1>2, <2>1, <2>2
<1>4. QueuesOwned' /\ BlocksMatchQueue'
  BY DEF StoreSafe, QueuesOwned, BlocksMatchQueue
<1>5. HandledOwned'
  BY DEF StoreSafe, HandledOwned, CredentialsNeverCross
<1>6. CallsOK'
  <2>1. \A i \in 1 .. Len(calls') : owner[calls'[i].w] # NoUser
    BY <1>1, <1>3 DEF StoreSafe, CallsOK
  <2>2. SuccessWasCommitted'
    BY <1>1, <1>3 DEF StoreSafe, CallsOK, SuccessWasCommitted, IsCommitted
  <2>3. ASSUME ~WriteMayFailFirst PROVE ErrorWasRefused'
    BY <1>1, <1>3, <2>3 DEF StoreSafe, CallsOK, ErrorWasRefused
  <2>4. QED BY <2>1, <2>2, <2>3 DEF CallsOK
<1>7. QED BY <1>4, <1>5, <1>6 DEF StoreSafe

\* A restart that calls no block.
LEMMA SafeReboot ==
    ASSUME StoreSafe, MaxRestarts # 0, completions' = {},
           UNCHANGED <<queue, owner, committed, refused, calls, savedToken>>
    PROVE  StoreSafe'
<1>1. QueuesOwned' /\ BlocksMatchQueue'
  BY DEF StoreSafe, QueuesOwned, BlocksMatchQueue
<1>2. HandledOwned' /\ CallsOK'
  BY DEF StoreSafe, HandledOwned, CredentialsNeverCross, CallsOK, SuccessWasCommitted, ErrorWasRefused
<1>3. QED BY <1>1, <1>2 DEF StoreSafe

-----------------------------------------------------------------------------
(* The order of credential changes and tokens in the worker queue.         *)

\* More work at the end changes nothing for the work before it.
LEMMA UserAfterAppend ==
    ASSUME NEW wq \in Seq(WorkItem), NEW x \in WorkItem, NEW n \in 0 .. Len(wq), NEW u, NEW v,
           UserAfter(u, wq, n, v)
    PROVE  UserAfter(u, Append(wq, x), n, v)
<1>1. \A i \in 1 .. n : Append(wq, x)[i] = wq[i]
  BY AppendProperties, LenProperties
<1>2. CASE v = u /\ \A i \in 1 .. n : wq[i].op # "credential"
  BY <1>1, <1>2 DEF UserAfter
<1>3. CASE \E i \in 1 .. n : /\ wq[i].op = "credential" /\ wq[i].user = v
                             /\ \A j \in i + 1 .. n : wq[j].op # "credential"
  <2>1. PICK i \in 1 .. n : /\ wq[i].op = "credential" /\ wq[i].user = v
                            /\ \A j \in i + 1 .. n : wq[j].op # "credential"
    BY <1>3
  <2>2. \A j \in i + 1 .. n : j \in 1 .. n
    OBVIOUS
  <2>3. QED BY <1>1, <2>1, <2>2 DEF UserAfter
<1>4. QED BY <1>2, <1>3 DEF UserAfter

\* AuthStateDidChange: the provider's user is the one of the last change.
LEMMA OrderAppendUser ==
    ASSUME NEW wq \in Seq(WorkItem), NEW x \in WorkItem, x.op = "credential", NEW u, NEW v,
           CredentialsInOrder(u, wq, v)
    PROVE  CredentialsInOrder(u, Append(wq, x), x.user)
<1> DEFINE a == Append(wq, x)
<1>1. /\ Len(a) = Len(wq) + 1 /\ Len(wq) \in Nat /\ a[Len(wq) + 1] = x
      /\ \A i \in 1 .. Len(wq) : a[i] = wq[i]
  BY AppendProperties, LenProperties
<1>2. ASSUME NEW n \in 1 .. Len(a), IsTokenCallback(a, n)
      PROVE  UserAfter(u, a, n - 1, a[n].user)
  <2>1. n \in 1 .. Len(wq) /\ a[n] = wq[n] /\ n - 1 \in 0 .. Len(wq)
    BY <1>1, <1>2 DEF IsTokenCallback
  <2>2. UserAfter(u, wq, n - 1, wq[n].user)
    BY <1>2, <2>1 DEF CredentialsInOrder, IsTokenCallback
  <2>3. QED BY <2>1, <2>2, UserAfterAppend
<1> HIDE DEF a
<1>3. UserAfter(u, a, Len(a), x.user)
  <2>1. Len(a) \in 1 .. Len(a) /\ a[Len(a)] = x /\ \A j \in Len(a) + 1 .. Len(a) : FALSE
    BY <1>1
  <2>2. QED BY <2>1 DEF UserAfter
<1>4. CredentialsInOrder(u, a, x.user)
  BY <1>2, <1>3 DEF CredentialsInOrder
<1>5. QED BY <1>4 DEF a

\* A token of the provider's user.
LEMMA OrderAppendToken ==
    ASSUME NEW wq \in Seq(WorkItem), NEW x \in WorkItem, x.op = "token", NEW u,
           CredentialsInOrder(u, wq, x.user)
    PROVE  CredentialsInOrder(u, Append(wq, x), x.user)
<1> DEFINE a == Append(wq, x)
<1>1. /\ Len(a) = Len(wq) + 1 /\ Len(wq) \in Nat /\ a[Len(wq) + 1] = x
      /\ \A i \in 1 .. Len(wq) : a[i] = wq[i]
  BY AppendProperties, LenProperties
<1>2. UserAfter(u, a, Len(wq), x.user)
  <2>1. Len(wq) \in 0 .. Len(wq) /\ UserAfter(u, wq, Len(wq), x.user)
    BY <1>1 DEF CredentialsInOrder
  <2>2. QED BY <2>1, UserAfterAppend
<1>3. ASSUME NEW n \in 1 .. Len(a), IsTokenCallback(a, n)
      PROVE  UserAfter(u, a, n - 1, a[n].user)
  <2>1. CASE n \in 1 .. Len(wq)
    <3>1. a[n] = wq[n] /\ n - 1 \in 0 .. Len(wq)
      BY <1>1, <2>1
    <3>2. UserAfter(u, wq, n - 1, wq[n].user)
      BY <1>3, <2>1, <3>1 DEF CredentialsInOrder, IsTokenCallback
    <3>3. QED BY <3>1, <3>2, UserAfterAppend
  <2>2. CASE n = Len(wq) + 1
    <3>1. n - 1 = Len(wq) /\ a[n] = x
      BY <1>1, <2>2
    <3>2. QED BY <1>2, <3>1
  <2>3. QED BY <1>1, <2>1, <2>2
<1> HIDE DEF a
<1>4. UserAfter(u, a, Len(a), x.user)
  <2>0. Len(a) \in Nat /\ Len(wq) \in Nat
    BY <1>1
  <2>1. CASE x.user = u /\ \A i \in 1 .. Len(wq) : a[i].op # "credential"
    <3>1. \A i \in 1 .. Len(a) : i \in 1 .. Len(wq) \/ i = Len(wq) + 1
      BY <1>1
    <3>2. \A i \in 1 .. Len(a) : a[i].op # "credential"
      BY <1>1, <2>1, <3>1
    <3>3. QED BY <2>1, <3>2 DEF UserAfter
  <2>2. CASE \E i \in 1 .. Len(wq) : /\ a[i].op = "credential" /\ a[i].user = x.user
                                     /\ \A j \in i + 1 .. Len(wq) : a[j].op # "credential"
    <3>1. PICK i \in 1 .. Len(wq) : /\ a[i].op = "credential" /\ a[i].user = x.user
                                    /\ \A j \in i + 1 .. Len(wq) : a[j].op # "credential"
      BY <2>2
    <3>2. \A j \in i + 1 .. Len(a) : j \in i + 1 .. Len(wq) \/ j = Len(wq) + 1
      BY <1>1
    <3>3. \A j \in i + 1 .. Len(a) : a[j].op # "credential"
      BY <1>1, <3>1, <3>2
    <3>4. i \in 1 .. Len(a)
      BY <1>1
    <3>5. QED BY <3>1, <3>3, <3>4 DEF UserAfter
  <2>3. QED BY <1>2, <2>1, <2>2 DEF UserAfter
<1>5. CredentialsInOrder(u, a, x.user)
  BY <1>3, <1>4 DEF CredentialsInOrder
<1>6. QED BY <1>5 DEF a

\* The first item is done.
LEMMA OrderTail ==
    ASSUME NEW wq \in Seq(WorkItem), wq # <<>>, NEW u, NEW v, CredentialsInOrder(u, wq, v)
    PROVE  /\ Head(wq).op = "token" =>
                 Head(wq).user = u /\ CredentialsInOrder(u, Tail(wq), v)
           /\ Head(wq).op = "credential" => CredentialsInOrder(Head(wq).user, Tail(wq), v)
<1> DEFINE t == Tail(wq)
           after == IF Head(wq).op = "credential" THEN Head(wq).user ELSE u
<1>1. /\ Len(wq) \in Nat /\ Len(wq) # 0 /\ Len(t) = Len(wq) - 1
      /\ \A i \in 1 .. Len(t) : t[i] = wq[i + 1]
      /\ Head(wq) = wq[1]
  BY HeadTailProperties, EmptySeq, LenProperties
<1> HIDE DEF t
<1>2. ASSUME NEW n \in 1 .. Len(wq), NEW x, UserAfter(u, wq, n, x)
      PROVE  UserAfter(after, t, n - 1, x)
  <2>0. \A i \in 1 .. n - 1 : i \in 1 .. Len(t) /\ i + 1 \in 2 .. n /\ t[i] = wq[i + 1]
    BY <1>1
  <2>1. CASE x = u /\ \A i \in 1 .. n : wq[i].op # "credential"
    <3>1. \A i \in 1 .. n - 1 : t[i].op # "credential"
      BY <2>0, <2>1
    <3>2. after = x
      BY <1>1, <2>1
    <3>3. QED BY <3>1, <3>2 DEF UserAfter
  <2>2. CASE \E i \in 1 .. n : /\ wq[i].op = "credential" /\ wq[i].user = x
                               /\ \A j \in i + 1 .. n : wq[j].op # "credential"
    <3>1. PICK i \in 1 .. n : /\ wq[i].op = "credential" /\ wq[i].user = x
                              /\ \A j \in i + 1 .. n : wq[j].op # "credential"
      BY <2>2
    <3>2. CASE i = 1
      <4>1. after = x
        BY <1>1, <3>1, <3>2
      <4>2. \A k \in 1 .. n - 1 : t[k].op # "credential"
        BY <2>0, <3>1, <3>2
      <4>3. QED BY <4>1, <4>2 DEF UserAfter
    <3>3. CASE i # 1
      <4>1. i - 1 \in 1 .. n - 1 /\ (i - 1) + 1 = i
        BY <1>1, <3>3
      <4>2. t[i - 1] = wq[i]
        BY <2>0, <4>1
      <4>3. ASSUME NEW k \in (i - 1) + 1 .. n - 1 PROVE t[k].op # "credential"
        <5>1. k \in 1 .. n - 1 /\ k + 1 \in i + 1 .. n
          BY <1>1, <4>1
        <5>2. QED BY <2>0, <3>1, <5>1
      <4>4. QED BY <3>1, <4>1, <4>2, <4>3 DEF UserAfter
    <3>4. QED BY <3>2, <3>3
  <2>3. QED BY <1>2, <2>1, <2>2 DEF UserAfter
<1> HIDE DEF after
<1>3. UserAfter(after, t, Len(t), v)
  <2>1. UserAfter(u, wq, Len(wq), v) /\ Len(wq) \in 1 .. Len(wq)
    BY <1>1 DEF CredentialsInOrder
  <2>2. QED BY <1>1, <1>2, <2>1
<1>4. ASSUME NEW n \in 1 .. Len(t), IsTokenCallback(t, n)
      PROVE  UserAfter(after, t, n - 1, t[n].user)
  <2>1. n + 1 \in 1 .. Len(wq) /\ t[n] = wq[n + 1] /\ n \in 1 .. Len(wq) /\ (n + 1) - 1 = n
    BY <1>1
  <2>2. UserAfter(u, wq, n, wq[n + 1].user)
    BY <1>4, <2>1 DEF CredentialsInOrder, IsTokenCallback
  <2>3. QED BY <1>2, <2>1, <2>2
<1>5. CredentialsInOrder(after, t, v)
  BY <1>3, <1>4 DEF CredentialsInOrder
<1>6. ASSUME Head(wq).op = "token" PROVE Head(wq).user = u
  <2>1. 1 \in 1 .. Len(wq) /\ IsTokenCallback(wq, 1)
    BY <1>1, <1>6 DEF IsTokenCallback
  <2>2. UserAfter(u, wq, 1 - 1, wq[1].user)
    BY <2>1 DEF CredentialsInOrder
  <2>3. QED BY <1>1, <2>2 DEF UserAfter
<1>7. QED BY <1>5, <1>6 DEF t, after

-----------------------------------------------------------------------------
(* The call and the write pipeline.                                        *)

OrderSafe == CredentialsInOrder(user, workQueue, provider.user)

CallSafe == CallOK(user, pipeline, handshake, call)

\* A stream that is not open has no call to speak of.
LEMMA ClosedCall ==
    ASSUME NEW net, NEW p, NEW s, NEW h, NEW c, StreamOK(net, p, s, h, c), ~IsOpen(s),
           NEW u, NEW r, NEW k
    PROVE  CallOK(u, r, k, c)
<1>1. c.user = NoUser /\ c.toClient = <<>> /\ c.status = "ok"
  BY DEF StreamOK
<1>2. QED BY <1>1 DEF CallOK

LEMMA NoCallSafe ==
    ASSUME NEW u, NEW p, NEW h
    PROVE  CallOK(u, p, h, NoCall)
BY DEF CallOK, NoCall

\* FillWritePipeline adds to the call what it adds to the pipeline.
LEMMA FillCall ==
    ASSUME NEW q \in Seq(Batch), QueueOrdered(q), NEW p, Prefix(p, q),
           Len(p) <= kMaxPendingWrites, NEW net \in BOOLEAN, NEW s,
           NEW h \in BOOLEAN, NEW c \in CallType, NEW u,
           IsOpen(s) <=> c.user # NoUser, CallOK(u, p, h, c)
    PROVE  CallOK(u, FillPipeline(net, q, p), h,
                  [c EXCEPT !.toServer = @ \o FillSent(net, q, p, s, h)])
<1> DEFINE f == FillPipeline(net, q, p)
           a == Added(net, q, p)
           x == FillSent(net, q, p, s, h)
           d == [c EXCEPT !.toServer = @ \o x]
<1>1. a \in Seq(Batch) /\ p \in Seq(Batch) /\ f = p \o a
  BY FillFacts DEF FillPipeline, Prefix
<1>2. x = IF IsOpen(s) /\ h THEN Requests(a) ELSE <<>>
  BY DEF FillSent
<1> HIDE DEF a, x, f
<1>3. Requests(a) \in Seq(InFlightItem) /\ Requests(p) \in Seq(InFlightItem)
      /\ Requests(f) = Requests(p) \o Requests(a)
  BY <1>1, RequestsAt, RequestsConcat
<1>4. x \in Seq(InFlightItem)
  <2>1. <<>> \in Seq(InFlightItem)
    BY EmptySeq
  <2>2. QED BY <1>2, <1>3, <2>1
<1>5. /\ d.user = c.user /\ d.status = c.status /\ d.toClient = c.toClient
      /\ d.toServer = c.toServer \o x
  BY <1>4, CallSent DEF InFlightItem
<1>6. c.toServer \in Seq(InFlightItem) /\ c.toClient \in Seq(InFlightItem)
  BY DEF CallType, InFlightItem
<1> HIDE DEF d
<1> DEFINE y == c.toServer
           z == c.toClient
<1>7. y \in Seq(InFlightItem) /\ z \in Seq(InFlightItem)
  BY <1>6
<1> HIDE DEF y, z
<1>8. z \o (y \o x) = (z \o y) \o x
  BY <1>4, <1>7, ConcatAssociative
<1>9. ASSUME c.user # NoUser
      PROVE  c.user = u /\ z \o (y \o x) = IF h THEN Requests(f) ELSE <<Handshake>>
  <2>1. c.user = u /\ z \o y = IF h THEN Requests(p) ELSE <<Handshake>>
    BY <1>9 DEF CallOK, y, z
  <2>2. CASE h
    BY <1>2, <1>3, <1>8, <1>9, <2>1, <2>2
  <2>3. CASE ~h
    <3>1. x = <<>> /\ y \o x = y
      BY <1>2, <1>7, <2>3, ConcatEmptySeq
    <3>2. QED BY <2>1, <2>3, <3>1
  <2>4. QED BY <2>2, <2>3
<1>10. y # <<>> => y \o x # <<>> /\ Head(y \o x) = Head(y)
  BY <1>4, <1>7, ConcatProperties, EmptySeq, LenProperties
<1>11. CallOK(u, f, h, d)
  <2>1. \A i \in 1 .. Len(z) : z[i] # Handshake => IsCommitted(z[i])
    BY DEF CallOK, z
  <2>2. c.status = "permanent" => y # <<>> /\ (h => Head(y) \in refused)
    BY DEF CallOK, y
  <2>3. d.user = c.user /\ d.status = c.status /\ d.toClient = z /\ d.toServer = y \o x
    BY <1>5 DEF y, z
  <2>4. QED BY <1>9, <1>10, <2>1, <2>2, <2>3 DEF CallOK
<1>12. QED BY <1>11 DEF d, f, x

\* A step that leaves the call and the pipeline alone.
LEMMA CallStays ==
    ASSUME CallSafe, UNCHANGED <<user, pipeline, handshake, call, committed, refused>>
    PROVE  CallSafe'
BY DEF CallSafe, CallOK, IsCommitted

\* The parts of CallSafe in the next state.
LEMMA CallSafeNext ==
    ASSUME (call').user # NoUser =>
              /\ (call').user = user'
              /\ (call').toClient \o (call').toServer =
                    IF handshake' THEN Requests(pipeline') ELSE <<Handshake>>,
           \A i \in 1 .. Len((call').toClient) :
              (call').toClient[i] # Handshake =>
                 \E j \in 1 .. Len(committed') : committed'[j].w = (call').toClient[i],
           (call').status = "permanent" =>
              (call').toServer # <<>> /\ (handshake' => Head((call').toServer) \in refused')
    PROVE  CallSafe'
BY DEF CallSafe, CallOK, IsCommitted, Requests

\* What is in flight: before the handshake is complete the handshake alone,
\* then the first batches of the queue.
LEMMA InFlight ==
    ASSUME StoreInv, RemoteInv, CallSafe, call.user # NoUser
    PROVE  /\ call.user = user
           /\ call.toServer \in Seq(InFlightItem) /\ call.toClient \in Seq(InFlightItem)
           /\ Len(call.toServer) \in Nat /\ Len(call.toClient) \in Nat
           /\ ~handshake =>
                 /\ Len(call.toClient) + Len(call.toServer) = 1
                 /\ \A i \in 1 .. Len(call.toServer) : call.toServer[i] = Handshake
           /\ handshake =>
                 /\ Len(call.toClient) + Len(call.toServer) = Len(pipeline)
                 /\ Len(pipeline) <= Len(queue[user])
                 /\ \A i \in 1 .. Len(call.toClient) :
                       call.toClient[i] = queue[user][i].w /\ IsCommitted(queue[user][i].w)
                 /\ \A i \in 1 .. Len(call.toServer) :
                       /\ call.toServer[i] = queue[user][Len(call.toClient) + i].w
                       /\ call.toServer[i] \in Writes
<1> DEFINE y == call.toServer
           z == call.toClient
           q == queue[user]
<1>1. /\ call.user = user
      /\ z \o y = IF handshake THEN Requests(pipeline) ELSE <<Handshake>>
      /\ \A i \in 1 .. Len(z) : z[i] # Handshake => IsCommitted(z[i])
  BY DEF CallSafe, CallOK
<1>2. y \in Seq(InFlightItem) /\ z \in Seq(InFlightItem)
  BY DEF RemoteInv, CallType, InFlightItem
<1>3. /\ q \in Seq(Batch) /\ pipeline \in Seq(Batch) /\ Len(pipeline) <= Len(q)
      /\ \A i \in 1 .. Len(pipeline) : pipeline[i] = q[i]
  BY DEF StoreInv, RemoteInv, Prefix
<1> HIDE DEF y, z, q
<1>4. Len(y) \in Nat /\ Len(z) \in Nat /\ Len(pipeline) \in Nat
  BY <1>2, <1>3, LenProperties
<1>5. /\ Len(z \o y) = Len(z) + Len(y)
      /\ \A i \in 1 .. Len(z) + Len(y) : (z \o y)[i] = IF i <= Len(z) THEN z[i] ELSE y[i - Len(z)]
  BY <1>2, ConcatProperties
<1>6. \A i \in 1 .. Len(z) : i \in 1 .. Len(z) + Len(y) /\ (z \o y)[i] = z[i]
  BY <1>4, <1>5
<1>7. ASSUME NEW i \in 1 .. Len(y)
      PROVE  Len(z) + i \in 1 .. Len(z) + Len(y) /\ (z \o y)[Len(z) + i] = y[i]
  <2>1. Len(z) + i \in 1 .. Len(z) + Len(y) /\ ~(Len(z) + i <= Len(z)) /\ (Len(z) + i) - Len(z) = i
    BY <1>4
  <2>2. QED BY <1>5, <2>1
<1>8. CASE ~handshake
  <2>1. z \o y = <<Handshake>>
    BY <1>1, <1>8
  <2>2. Len(z) + Len(y) = 1 /\ (z \o y)[1] = Handshake
    BY <1>5, <2>1
  <2>3. ASSUME NEW i \in 1 .. Len(y) PROVE y[i] = Handshake
    BY <1>4, <1>7, <2>2
  <2>4. QED BY <1>1, <1>2, <1>4, <1>8, <2>2, <2>3 DEF y, z
<1>9. CASE handshake
  <2>1. z \o y = Requests(pipeline)
    BY <1>1, <1>9
  <2>2. /\ Len(z) + Len(y) = Len(pipeline)
        /\ \A i \in 1 .. Len(pipeline) : (z \o y)[i] = pipeline[i].w /\ pipeline[i].w \in Writes
    BY <1>3, <1>5, <2>1, RequestsAt
  <2>3. ASSUME NEW i \in 1 .. Len(z) PROVE z[i] = q[i].w /\ IsCommitted(q[i].w)
    <3>1. z[i] = pipeline[i].w /\ pipeline[i].w \in Writes /\ pipeline[i] = q[i]
      BY <1>3, <1>6, <2>2
    <3>2. z[i] # Handshake
      BY <3>1, WritePathAssumption DEF Handshake, Writes
    <3>3. QED BY <1>1, <3>1, <3>2
  <2>4. ASSUME NEW i \in 1 .. Len(y)
        PROVE  y[i] = q[Len(z) + i].w /\ y[i] \in Writes
    BY <1>3, <1>7, <2>2
  <2>5. QED BY <1>1, <1>2, <1>3, <1>4, <1>9, <2>2, <2>3, <2>4 DEF y, z, q
<1>10. QED BY <1>8, <1>9 DEF RemoteInv

-----------------------------------------------------------------------------
(* Steps.                                                                  *)

\* The first batch of the current user's queue leaves it after the backend has
\* handled its write.
FirstLeaves ==
    /\ queue[user] # <<>>
    /\ IsCommitted(queue[user][1].w) \/ queue[user][1].w \in refused
    /\ queue' = [queue EXCEPT ![user] = RemoveBatch(queue[user], queue[user][1].id)]
    /\ UNCHANGED <<committed, refused>>

QueuesStay == UNCHANGED <<queue, committed, refused>>

SafetyParts == StoreSafe /\ OrderSafe /\ CallSafe

LEMMA PartsOfSafety == SafetyInv <=> SafetyParts
BY DEF SafetyInv, SafetyParts, StoreSafe, OrderSafe, CallSafe

LEMMA PartsOfSafetyNext == SafetyInv' <=> SafetyParts'
BY DEF SafetyInv, SafetyParts, StoreSafe, OrderSafe, CallSafe

\* Saved stream tokens that stay.
LEMMA TokensStay ==
    ASSUME StoreSafe, savedToken' = savedToken
    PROVE  \A u \in Users : savedToken'[u] \in {u, NoUser}
BY DEF StoreSafe, HandledOwned, CredentialsNeverCross

\* GetToken and InvalidateToken leave the provider's user alone.
LEMMA RefreshedUser ==
    ASSUME RemoteInv, NEW s, NEW t, NEW status, provider' = Refreshed(s, t, status)
    PROVE  (provider').user = provider.user
BY DEF RemoteInv, ProviderType, Refreshed

\* A response after the handshake is about the first batch of the pipeline.
LEMMA FirstAnswered ==
    ASSUME StoreInv, RemoteInv, CallSafe, call.toClient # <<>>, handshake
    PROVE  /\ call.user = user /\ call.user # NoUser
           /\ pipeline # <<>>
           /\ queue[user] # <<>>
           /\ IsCommitted(queue[user][1].w)
<1>1. call.user # NoUser
  BY LiveCall
<1>2. /\ call.user = user
      /\ call.toClient \in Seq(InFlightItem)
      /\ Len(call.toServer) \in Nat /\ Len(call.toClient) \in Nat
      /\ Len(call.toClient) + Len(call.toServer) = Len(pipeline)
      /\ Len(pipeline) <= Len(queue[user])
      /\ \A i \in 1 .. Len(call.toClient) : IsCommitted(queue[user][i].w)
  BY <1>1, InFlight
<1>3. Len(call.toClient) # 0
  BY <1>2, EmptySeq
<1>4. queue[user] \in Seq(Batch) /\ pipeline \in Seq(Batch)
  BY DEF StoreInv, RemoteInv, Prefix
<1>5. Len(pipeline) \in Nat /\ Len(queue[user]) \in Nat
  BY <1>4, LenProperties
<1>6. Len(pipeline) # 0 /\ Len(queue[user]) # 0 /\ 1 \in 1 .. Len(call.toClient)
  <2>1. PICK inc \in Nat, out \in Nat, m \in Nat, n \in Nat :
           /\ inc = Len(call.toClient) /\ out = Len(call.toServer)
           /\ m = Len(pipeline) /\ n = Len(queue[user])
    BY <1>2, <1>5
  <2>2. inc # 0 /\ inc + out = m /\ m <= n
    BY <1>2, <1>3, <2>1
  <2>3. m # 0 /\ n # 0 /\ 1 \in 1 .. inc
    BY <2>2
  <2>4. QED BY <2>1, <2>3
<1>7. QED BY <1>1, <1>2, <1>4, <1>6, BatchFacts

\* The first batch of the pipeline leaves the queue with a result that is true.
LEMMA PopSafe ==
    ASSUME StoreInv, RecordInv, RemoteInv, StoreSafe, pipeline # <<>>,
           NEW result \in {"ok", "error"}, ProcessUserCallbacks(Head(pipeline).id, result),
           queue' = [queue EXCEPT ![user] = RemoveBatch(queue[user], Head(pipeline).id)],
           UNCHANGED <<user, owner, committed, refused>>,
           \A u \in Users : savedToken'[u] \in {u, NoUser},
           IsCommitted(queue[user][1].w) \/ queue[user][1].w \in refused,
           result = "ok" => IsCommitted(queue[user][1].w),
           result = "error" => WriteMayFailFirst \/ queue[user][1].w \in refused
    PROVE  StoreSafe' /\ FirstLeaves
<1>1. Head(pipeline) = queue[user][1] /\ queue[user] # <<>>
  BY PopFirst
<1>2. /\ ProcessUserCallbacks(queue[user][1].id, result)
      /\ queue' = [queue EXCEPT ![user] = RemoveBatch(queue[user], queue[user][1].id)]
  BY <1>1
<1>3. StoreSafe'
  BY <1>1, <1>2, SafePop
<1>4. FirstLeaves
  BY <1>1, <1>2 DEF FirstLeaves
<1>5. QED BY <1>3, <1>4

\* The stream finishes with an error.  A write is rejected only when the status
\* is about it, or when the backend has committed it and the code cannot know.
LEMMA FinishSafe ==
    ASSUME StoreInv, RecordInv, RemoteInv, StoreSafe, NEW status, OnStreamFinish(status),
           (pipeline # <<>> /\ handshake /\ IsPermanentWriteError(status)) =>
               \/ queue[user][1].w \in refused
               \/ WriteMayFailFirst /\ IsCommitted(queue[user][1].w)
    PROVE  /\ StoreSafe' /\ CallSafe'
           /\ user' = user /\ (provider').user = provider.user
           /\ QueuesStay \/ FirstLeaves
<1>1. /\ handshake' = FALSE /\ call' = NoCall /\ user' = user
      /\ provider' = Refreshed(stream, stream', status)
      /\ committed' = committed /\ refused' = refused /\ owner' = owner
  BY DEF OnStreamFinish
<1>2. CallSafe'
  BY <1>1 DEF CallSafe, CallOK, NoCall
<1>3. (provider').user = provider.user
  BY <1>1, RefreshedUser
<1>4. CASE pipeline # <<>> /\ handshake /\ IsPermanentWriteError(status)
  <2>1. RejectFirstBatch(status)
    BY <1>4 DEF OnStreamFinish
  <2>2. /\ queue' = [queue EXCEPT ![user] = RemoveBatch(queue[user], Head(pipeline).id)]
        /\ ProcessUserCallbacks(Head(pipeline).id, "error")
        /\ savedToken' = savedToken
    BY <2>1 DEF RejectFirstBatch, RejectFailedWrite, RejectBatch
  <2>3. \A u \in Users : savedToken'[u] \in {u, NoUser}
    BY <2>2, TokensStay
  <2>4. StoreSafe' /\ FirstLeaves
    BY <1>1, <1>4, <2>2, <2>3, PopSafe
  <2>5. QED BY <1>1, <1>2, <1>3, <2>4
<1>5. CASE ~(pipeline # <<>> /\ handshake /\ IsPermanentWriteError(status))
  <2>1. RetryAfterError(status)
    BY <1>5 DEF OnStreamFinish
  <2>2. UNCHANGED <<queue, completions, calls>>
        /\ (savedToken' = savedToken \/ savedToken' = [savedToken EXCEPT ![user] = NoUser])
    BY <2>1 DEF RetryAfterError
  <2>3. \A u \in Users : savedToken'[u] \in {u, NoUser}
    BY <2>2 DEF StoreSafe, HandledOwned, CredentialsNeverCross, RecordInv
  <2>4. StoreSafe'
    BY <1>1, <2>2, <2>3, SafeSame
  <2>5. QED BY <1>1, <1>2, <1>3, <2>2, <2>4 DEF QueuesStay
<1>6. QED BY <1>4, <1>5

\* The call ends, for the transport's reasons or the backend's.
LEMMA EndOfCallSafe ==
    ASSUME StoreInv, RecordInv, RemoteInv, SafetyParts,
           MalformedResponse \/ CallFinished \/ WriteFailed \/ ConnectionLost
    PROVE  SafetyParts' /\ (QueuesStay \/ FirstLeaves)
<1>1. workQueue' = workQueue
  BY DEF MalformedResponse, CallFinished, WriteFailed, ConnectionLost
<1>2. ASSUME NEW status, OnStreamFinish(status),
             (pipeline # <<>> /\ handshake /\ IsPermanentWriteError(status)) =>
                 \/ queue[user][1].w \in refused
                 \/ WriteMayFailFirst /\ IsCommitted(queue[user][1].w)
      PROVE  SafetyParts' /\ (QueuesStay \/ FirstLeaves)
  <2>1. /\ StoreSafe' /\ CallSafe'
        /\ user' = user /\ (provider').user = provider.user
        /\ QueuesStay \/ FirstLeaves
    BY <1>2, FinishSafe DEF SafetyParts
  <2>2. OrderSafe'
    BY <1>1, <2>1 DEF SafetyParts, OrderSafe
  <2>3. QED BY <2>1, <2>2 DEF SafetyParts
<1>3. CASE MalformedResponse \/ ConnectionLost
  <2>1. OnStreamFinish("unavailable") /\ ~IsPermanentWriteError("unavailable")
    BY <1>3 DEF MalformedResponse, ConnectionLost, IsPermanentWriteError, IsPermanentError
  <2>2. QED BY <1>2, <2>1
<1>4. CASE CallFinished
  <2>1. OnStreamFinish(call.status) /\ call.toClient = <<>> /\ call.status # "ok"
    BY <1>4 DEF CallFinished, Errors
  <2>2. ASSUME pipeline # <<>>, handshake, IsPermanentWriteError(call.status)
        PROVE  queue[user][1].w \in refused
    <3>1. call.status = "permanent"
      BY <2>2 DEF IsPermanentWriteError, IsPermanentError
    <3>2. call.toServer # <<>> /\ Head(call.toServer) \in refused
      BY <2>2, <3>1 DEF SafetyParts, CallSafe, CallOK
    <3>3. call.user # NoUser
      BY <2>1, LiveCall
    <3>4. /\ call.toServer \in Seq(InFlightItem) /\ Len(call.toServer) \in Nat
          /\ \A i \in 1 .. Len(call.toServer) :
                call.toServer[i] = queue[user][Len(call.toClient) + i].w
      BY <2>2, <3>3, InFlight DEF SafetyParts
    <3>5. 1 \in 1 .. Len(call.toServer) /\ Head(call.toServer) = call.toServer[1]
      BY <3>2, <3>4, EmptySeq
    <3>6. Len(call.toClient) + 1 = 1
      BY <2>1
    <3>7. QED BY <3>2, <3>4, <3>5, <3>6
  <2>3. QED BY <1>2, <2>1, <2>2
<1>5. CASE WriteFailed
  <2>1. OnStreamFinish(call.status) /\ call.toClient # <<>> /\ WriteMayFailFirst
    BY <1>5 DEF WriteFailed
  <2>2. handshake => IsCommitted(queue[user][1].w)
    BY <2>1, FirstAnswered DEF SafetyParts
  <2>3. QED BY <1>2, <2>1, <2>2
<1>6. QED BY <1>3, <1>4, <1>5

\* The idle timer and the end of the call close the stream, the backoff timer
\* restarts it.
LEMMA TimersSafe ==
    ASSUME RemoteInv, SafetyParts, IdleTimeout \/ CallEnded \/ BackoffTimeout
    PROVE  SafetyParts' /\ QueuesStay
<1>1. /\ UNCHANGED <<queue, savedToken, user, completions, workQueue, committed, refused,
                     owner, calls>>
      /\ provider' = provider \/ provider' = Refreshed(stream, stream', "ok")
      /\ call' = NoCall \/ UNCHANGED <<call, pipeline, handshake>>
  BY DEF IdleTimeout, CallEnded, CloseGracefully, BackoffTimeout, localStore, engine, outside,
         backend, application
<1>2. StoreSafe'
  BY <1>1, SafeSame, TokensStay DEF SafetyParts
<1>3. (provider').user = provider.user
  BY <1>1, RefreshedUser
<1>4. OrderSafe'
  BY <1>1, <1>3 DEF SafetyParts, OrderSafe
<1>5. CallSafe'
  <2>1. CASE call' = NoCall
    BY <2>1 DEF CallSafe, CallOK, NoCall
  <2>2. CASE UNCHANGED <<call, pipeline, handshake>>
    BY <1>1, <2>2 DEF SafetyParts, CallSafe, CallOK, IsCommitted
  <2>3. QED BY <1>1, <2>1, <2>2
<1>6. QED BY <1>1, <1>2, <1>4, <1>5 DEF SafetyParts, QueuesStay

\* disableNetwork drops the call, if there is one.
LEMMA DisableNetworkSafe ==
    ASSUME RemoteInv, SafetyParts, DisableNetwork
    PROVE  SafetyParts' /\ QueuesStay
<1>1. /\ UNCHANGED <<queue, savedToken, user, completions, workQueue, provider, committed, refused,
                     owner, calls>>
      /\ call' = CallAfterStop
  BY DEF DisableNetwork, localStore, engine, outside, application
<1>2. StoreSafe'
  BY <1>1, SafeSame, TokensStay DEF SafetyParts
<1>3. OrderSafe'
  BY <1>1 DEF SafetyParts, OrderSafe
<1>4. (call').user = NoUser /\ (call').toClient = <<>> /\ (call').status = "ok"
  <2>1. CASE IsStarted(stream)
    BY <1>1, <2>1 DEF CallAfterStop, StopIsNoOp, NoCall
  <2>2. CASE ~IsStarted(stream)
    BY <1>1, <2>2 DEF CallAfterStop, StopIsNoOp, RemoteInv, StreamOK, IsOpen, IsStarted
  <2>3. QED BY <2>1, <2>2
<1>5. CallSafe'
  BY <1>4 DEF CallSafe, CallOK
<1>6. QED BY <1>1, <1>2, <1>3, <1>5 DEF SafetyParts, QueuesStay

\* enableNetwork refills the pipeline.
LEMMA EnableNetworkSafe ==
    ASSUME StoreInv, RemoteInv, SafetyParts, EnableNetwork
    PROVE  SafetyParts' /\ QueuesStay
<1> DEFINE q == queue[user]
           f == FillPipeline(TRUE, q, pipeline)
           d == [call EXCEPT !.toServer = @ \o FillSent(TRUE, q, pipeline, stream, handshake)]
<1>1. /\ UNCHANGED <<queue, savedToken, user, completions, handshake, workQueue, committed, refused,
                     owner, calls>>
      /\ provider' = Refreshed(stream, stream', "ok")
      /\ pipeline' = f /\ call' = d
  BY DEF EnableNetwork, Enable, localStore, engine, application
<1>2. /\ q \in Seq(Batch) /\ QueueOrdered(q) /\ Prefix(pipeline, q)
      /\ Len(pipeline) <= kMaxPendingWrites /\ handshake \in BOOLEAN /\ call \in CallType
      /\ IsOpen(stream) <=> call.user # NoUser
  BY DEF StoreInv, QueuesOrdered, RemoteInv, StreamOK
<1>3. CallOK(user, pipeline, handshake, call)
  BY DEF SafetyParts, CallSafe
<1> HIDE DEF q
<1>4. CallOK(user, f, handshake, d)
  BY <1>2, <1>3, FillCall
<1> HIDE DEF f, d
<1>5. CallSafe'
  BY <1>1, <1>4 DEF CallSafe, CallOK, IsCommitted
<1>6. StoreSafe'
  BY <1>1, SafeSame, TokensStay DEF SafetyParts
<1>7. OrderSafe'
  BY <1>1, RefreshedUser DEF SafetyParts, OrderSafe
<1>8. QED BY <1>1, <1>5, <1>6, <1>7 DEF SafetyParts, QueuesStay

\* Steps of Firebase Auth: the queue and the provider change together.
LEMMA AuthSafe ==
    ASSUME SafetyParts, OrderSafe',
           UNCHANGED <<localStore, engine, pipeline, handshake, backend, application>>
    PROVE  SafetyParts' /\ QueuesStay
<1>1. UNCHANGED <<queue, savedToken, user, completions, pipeline, handshake, call, committed, refused,
                  owner, calls>>
  BY DEF localStore, engine, backend, application
<1>2. StoreSafe /\ CallSafe
  BY DEF SafetyParts
<1>3. StoreSafe'
  BY <1>1, <1>2, SafeSame, TokensStay
<1>4. CallSafe'
  BY <1>1, <1>2, CallStays
<1>5. QED BY <1>1, <1>3, <1>4 DEF SafetyParts, QueuesStay

LEMMA AuthStepsSafe ==
    ASSUME RemoteInv, SafetyParts,
           \/ \E u \in Users : AuthStateDidChange(u)
           \/ TokenExpires
           \/ \E r \in stream.requests : TokenArrives(r) \/ TokenFails(r)
    PROVE  SafetyParts' /\ QueuesStay
<1>1. /\ workQueue \in Seq(WorkItem) /\ provider \in ProviderType /\ Good(stream)
      /\ CredentialsInOrder(user, workQueue, provider.user)
  BY DEF RemoteInv, SafetyParts, OrderSafe
<1>2. ASSUME NEW u \in Users, AuthStateDidChange(u) PROVE SafetyParts' /\ QueuesStay
  <2> DEFINE x == [op |-> "credential", user |-> u]
  <2>1. x \in WorkItem /\ x.op = "credential" /\ x.user = u
    BY DEF WorkItem
  <2>2. workQueue' = Append(workQueue, x) /\ (provider').user = u /\ user' = user
    BY <1>1, <1>2 DEF AuthStateDidChange, engine, ProviderType
  <2> HIDE DEF x
  <2>3. CredentialsInOrder(user, Append(workQueue, x), x.user)
    BY <1>1, <2>1, OrderAppendUser
  <2>4. OrderSafe'
    BY <2>1, <2>2, <2>3 DEF OrderSafe
  <2>5. QED BY <1>2, <2>4, AuthSafe DEF AuthStateDidChange, remote
<1>3. CASE TokenExpires
  <2>1. workQueue' = workQueue /\ (provider').user = provider.user /\ user' = user
    BY <1>1, <1>3 DEF TokenExpires, engine, ProviderType
  <2>2. OrderSafe'
    BY <1>1, <2>1 DEF OrderSafe
  <2>3. QED BY <1>3, <2>2, AuthSafe DEF TokenExpires, remote
<1>4. ASSUME NEW r \in stream.requests, TokenArrives(r) \/ TokenFails(r)
      PROVE  SafetyParts' /\ QueuesStay
  <2>1. PICK status \in {"ok", "unavailable", "aborted"}, token \in {"valid", "expired"} :
            workQueue' = Append(workQueue, [op |-> "token", closeCount |-> r.closeCount,
                                            status |-> status, user |-> provider.user,
                                            token |-> token])
    <3>1. CASE TokenArrives(r)
      <4>1. (IF r.counter = provider.counter THEN "ok" ELSE "aborted")
               \in {"ok", "unavailable", "aborted"}
        OBVIOUS
      <4>2. (IF r.refresh = "forced" THEN "valid" ELSE provider.cache) \in {"valid", "expired"}
        BY <1>1 DEF ProviderType
      <4>3. QED BY <3>1, <4>1, <4>2 DEF TokenArrives
    <3>2. CASE TokenFails(r)
      <4>1. (IF r.counter = provider.counter THEN "unavailable" ELSE "aborted")
               \in {"ok", "unavailable", "aborted"}
        OBVIOUS
      <4>2. QED BY <3>2, <4>1 DEF TokenFails
    <3>3. QED BY <1>4, <3>1, <3>2
  <2> DEFINE x == [op |-> "token", closeCount |-> r.closeCount, status |-> status,
                   user |-> provider.user, token |-> token]
  <2>2. r.closeCount \in Nat /\ provider.user \in Users
    BY <1>1 DEF Good, StreamType, TokenRequest, ProviderType
  <2>3. x \in WorkItem /\ x.op = "token" /\ x.user = provider.user
    BY <2>2 DEF WorkItem
  <2>4. workQueue' = Append(workQueue, x)
    BY <2>1
  <2> HIDE DEF x
  <2>5. CredentialsInOrder(user, Append(workQueue, x), x.user)
    BY <1>1, <2>3, OrderAppendToken
  <2>6. (provider').user = provider.user /\ user' = user
    BY <1>1, <1>4 DEF TokenArrives, TokenFails, engine, ProviderType
  <2>7. OrderSafe'
    BY <2>3, <2>4, <2>5, <2>6 DEF OrderSafe
  <2>8. UNCHANGED <<localStore, engine, pipeline, handshake, backend, application>>
    BY <1>4 DEF TokenArrives, TokenFails
  <2>9. QED BY <2>7, <2>8, AuthSafe
<1>5. QED BY <1>2, <1>3, <1>4

\* A late token callback is dropped.
LEMMA StaleTokenCallbackSafe ==
    ASSUME RemoteInv, SafetyParts, StaleTokenCallback
    PROVE  SafetyParts' /\ QueuesStay
<1>1. /\ workQueue \in Seq(WorkItem) /\ workQueue # <<>> /\ Head(workQueue).op = "token"
      /\ workQueue' = Tail(workQueue) /\ user' = user /\ provider' = provider
      /\ CredentialsInOrder(user, workQueue, provider.user)
  BY DEF RemoteInv, SafetyParts, OrderSafe, StaleTokenCallback, engine
<1>2. CredentialsInOrder(user, Tail(workQueue), provider.user)
  BY <1>1, OrderTail
<1>3. OrderSafe'
  BY <1>1, <1>2 DEF OrderSafe
<1>4. QED BY <1>3, AuthSafe DEF StaleTokenCallback, remote

\* A token opens a call of the signed-in user.
LEMMA TokenCallbackSafe ==
    ASSUME RemoteInv, SafetyParts, TokenCallback
    PROVE  SafetyParts' /\ QueuesStay
<1>1. /\ workQueue \in Seq(WorkItem) /\ workQueue # <<>> /\ Head(workQueue).op = "token"
      /\ workQueue' = Tail(workQueue) /\ user' = user /\ provider' = provider
      /\ CredentialsInOrder(user, workQueue, provider.user)
  BY DEF RemoteInv, SafetyParts, OrderSafe, TokenCallback, engine
<1>2. Head(workQueue).user = user /\ CredentialsInOrder(user, Tail(workQueue), provider.user)
  BY <1>1, OrderTail
<1>3. OrderSafe'
  BY <1>1, <1>2 DEF OrderSafe
<1>4. UNCHANGED <<queue, savedToken, completions, handshake, committed, refused, owner, calls>>
  BY DEF TokenCallback, localStore, engine, application
<1>5. StoreSafe'
  BY <1>4, SafeSame, TokensStay DEF SafetyParts
<1>6. stream.state = "Starting"
  BY <1>1, HeadItem DEF TokenCallback, CallbackIsStale, RemoteInv, TokensOK
<1>7. ~handshake
  BY <1>6 DEF RemoteInv, StreamOK, IsOpen
<1>8. /\ (call').user = user /\ (call').toServer = <<Handshake>>
      /\ (call').toClient = <<>> /\ (call').status = "ok"
  BY <1>2 DEF TokenCallback, NoCall
<1>9. <<>> \o <<Handshake>> = <<Handshake>> /\ Len(<<>>) = 0
  <2>1. <<Handshake>> \in Seq({Handshake})
    OBVIOUS
  <2>2. QED BY <2>1, ConcatEmptySeq
<1>10. CallSafe'
  BY <1>1, <1>4, <1>7, <1>8, <1>9 DEF CallSafe, CallOK
<1>11. QED BY <1>3, <1>4, <1>5, <1>10 DEF SafetyParts, QueuesStay

\* A token error closes the stream that waits for it; no write is to blame.
LEMMA TokenErrorCallbackSafe ==
    ASSUME StoreInv, RecordInv, RemoteInv, SafetyParts, TokenErrorCallback
    PROVE  SafetyParts' /\ (QueuesStay \/ FirstLeaves)
<1>1. /\ workQueue \in Seq(WorkItem) /\ workQueue # <<>> /\ Head(workQueue).op = "token"
      /\ workQueue' = Tail(workQueue)
      /\ CredentialsInOrder(user, workQueue, provider.user)
      /\ OnStreamFinish(Head(workQueue).status)
  BY DEF RemoteInv, SafetyParts, OrderSafe, TokenErrorCallback
<1>2. CredentialsInOrder(user, Tail(workQueue), provider.user)
  BY <1>1, OrderTail
<1>3. stream.state = "Starting"
  BY <1>1, HeadItem DEF TokenErrorCallback, CallbackIsStale, RemoteInv, TokensOK
<1>4. ~handshake
  BY <1>3 DEF RemoteInv, StreamOK, IsOpen
<1>5. /\ StoreSafe' /\ CallSafe'
      /\ user' = user /\ (provider').user = provider.user
      /\ QueuesStay \/ FirstLeaves
  BY <1>1, <1>4, FinishSafe DEF SafetyParts
<1>6. OrderSafe'
  BY <1>1, <1>2, <1>5 DEF OrderSafe
<1>7. QED BY <1>5, <1>6 DEF SafetyParts

\* A change of user: the call of the old user is gone before the queue of the
\* new one is looked at.
LEMMA CredentialDidChangeSafe ==
    ASSUME StoreInv, RemoteInv, SafetyParts, CredentialDidChange
    PROVE  SafetyParts' /\ QueuesStay
<1> DEFINE u == Head(workQueue).user
<1>1. /\ workQueue \in Seq(WorkItem) /\ workQueue # <<>> /\ Head(workQueue).op = "credential"
      /\ workQueue' = Tail(workQueue) /\ user' = u
      /\ CredentialsInOrder(user, workQueue, provider.user)
      /\ UNCHANGED <<queue, savedToken, completions, committed, refused, owner, calls>>
  BY DEF RemoteInv, SafetyParts, OrderSafe, CredentialDidChange, application
<1>2. CredentialsInOrder(u, Tail(workQueue), provider.user)
  BY <1>1, OrderTail
<1>3. StoreSafe'
  BY <1>1, SafeSame, TokensStay DEF SafetyParts
<1>4. u \in Users
  BY <1>1, HeadItem
<1> HIDE DEF u
<1>5. (provider').user = provider.user
  BY RefreshedUser DEF CredentialDidChange, UserDidChange
<1>6. OrderSafe'
  BY <1>1, <1>2, <1>5 DEF OrderSafe
<1>7. CASE isNetworkEnabled
  <2> DEFINE q == queue[u]
             s == Stop(stream)
             h == HandshakeAfterStop
             c == CallAfterStop
             f == FillPipeline(TRUE, q, <<>>)
             d == [c EXCEPT !.toServer = @ \o FillSent(TRUE, q, <<>>, s, h)]
  <2>1. Enable(u, <<>>, s, h, c) /\ handshake' = h
    BY <1>7 DEF CredentialDidChange, UserDidChange, u
  <2>2. pipeline' = f /\ call' = d
    BY <2>1 DEF Enable
  <2>3. c \in CallType /\ h \in BOOLEAN /\ StreamOK(TRUE, <<>>, s, h, c)
    BY StopFacts
  <2>4. ~IsOpen(s)
    BY DEF Stop, StopIsNoOp, Close, IsOpen, IsStarted, RemoteInv, Good, StreamType
  <2>5. q \in Seq(Batch) /\ QueueOrdered(q)
    BY <1>4 DEF StoreInv, QueuesOrdered
  <2> HIDE DEF s, h, c, q
  <2>6. Prefix(<<>>, q) /\ Len(<<>>) <= kMaxPendingWrites
    BY <2>5, EmptyPrefix
  <2>7. CallOK(u, <<>>, h, c) /\ (IsOpen(s) <=> c.user # NoUser)
    BY <2>3, <2>4, ClosedCall DEF StreamOK
  <2>8. CallOK(u, f, h, d)
    BY <2>3, <2>5, <2>6, <2>7, FillCall
  <2> HIDE DEF f, d
  <2>9. CallSafe'
    BY <1>1, <2>1, <2>2, <2>8 DEF CallSafe, CallOK, IsCommitted
  <2>10. QED BY <1>1, <1>3, <1>6, <2>9 DEF SafetyParts, QueuesStay
<1>8. CASE ~isNetworkEnabled
  <2>1. UNCHANGED <<pipeline, handshake, call>>
    BY <1>8 DEF CredentialDidChange, UserDidChange
  <2>2. StreamOK(isNetworkEnabled, pipeline, stream, handshake, call) /\ ~IsOpen(stream)
    BY <1>8 DEF RemoteInv, StreamOK, IsOpen, IsStarted
  <2>3. CallOK(u, pipeline, handshake, call)
    BY <2>2, ClosedCall
  <2>4. CallSafe'
    BY <1>1, <2>1, <2>3 DEF CallSafe, CallOK, IsCommitted
  <2>5. QED BY <1>1, <1>3, <1>6, <2>4 DEF SafetyParts, QueuesStay
<1>9. QED BY <1>7, <1>8 DEF RemoteInv

\* The backend answers the first request of the call, or ends the call.
LEMMA ServerSafe ==
    ASSUME StoreInv, RecordInv, RemoteInv, SafetyParts,
           \/ ServerHandshake
           \/ \E status \in (Errors \ {"unauthenticated"}) \cup {"ended"} : ServerFault(status)
    PROVE  SafetyParts' /\ QueuesStay
<1>1. /\ UNCHANGED <<queue, savedToken, user, completions, pipeline, handshake, workQueue, provider,
                     committed, refused, owner, calls>>
      /\ call.user # NoUser
  BY DEF ServerHandshake, ServerFault, Serving, localStore, engine, remote, outside, application
<1>2. StoreSafe /\ OrderSafe /\ CallSafe
  BY DEF SafetyParts
<1>3. StoreSafe'
  BY <1>1, <1>2, SafeSame, TokensStay
<1>4. OrderSafe'
  BY <1>1, <1>2 DEF OrderSafe
<1> DEFINE y == call.toServer
           z == call.toClient
<1>5. /\ call \in CallType /\ call.user = user
      /\ y \in Seq(InFlightItem) /\ z \in Seq(InFlightItem)
      /\ z \o y = IF handshake THEN Requests(pipeline) ELSE <<Handshake>>
      /\ \A i \in 1 .. Len(z) : z[i] # Handshake => IsCommitted(z[i])
  BY <1>1, <1>2 DEF RemoteInv, CallType, InFlightItem, CallSafe, CallOK
<1>6. (y # <<>> /\ Head(y) = Handshake) => ~handshake
  <2>1. SUFFICES ASSUME y # <<>>, handshake PROVE Head(y) # Handshake
    OBVIOUS
  <2>2. 1 \in 1 .. Len(y) /\ Head(y) = y[1]
    BY <1>5, <2>1, EmptySeq
  <2>3. y[1] \in Writes
    BY <1>1, <1>2, <2>1, <2>2, InFlight
  <2>4. QED BY <2>2, <2>3, WritePathAssumption DEF Handshake, Writes
<1> HIDE DEF y, z
<1>7. CASE ServerHandshake /\ call.token = "valid"
  <2>1. /\ (call').user = call.user /\ (call').status = call.status /\ call.status = "ok"
        /\ (call').toServer = Tail(y) /\ (call').toClient = Append(z, Head(y))
        /\ y # <<>> /\ Head(y) = Handshake
    BY <1>5, <1>7 DEF ServerHandshake, Serving, CallType, y, z
  <2>2. Append(z, Head(y)) \o Tail(y) = z \o y
    BY <1>5, <2>1, MoveOne
  <2>3. Handshake \in InFlightItem
    BY DEF InFlightItem
  <2>4. \A i \in 1 .. Len(Append(z, Head(y))) :
            Append(z, Head(y))[i] # Handshake => IsCommitted(Append(z, Head(y))[i])
    BY <1>5, <2>1, <2>3, AppendCases
  <2>5. CallSafe'
    BY <1>1, <1>5, <2>1, <2>2, <2>4 DEF CallSafe, CallOK, IsCommitted
  <2>6. QED BY <1>1, <1>3, <1>4, <2>5 DEF SafetyParts, QueuesStay
<1>8. CASE ~(ServerHandshake /\ call.token = "valid")
  <2>1. PICK status \in Errors \cup {"ended"} :
            /\ call' = [call EXCEPT !.status = status]
            /\ status = "permanent" => y # <<>> /\ Head(y) = Handshake
    BY <1>8 DEF ServerHandshake, ServerFault, Serving, Errors, y
  <2>2. /\ (call').user = call.user /\ (call').status = status
        /\ (call').toServer = y /\ (call').toClient = z
    BY <1>5, <2>1 DEF CallType, y, z
  <2>3. CallSafe'
    BY <1>1, <1>5, <1>6, <2>1, <2>2 DEF CallSafe, CallOK, IsCommitted
  <2>4. QED BY <1>1, <1>3, <1>4, <2>3 DEF SafetyParts, QueuesStay
<1>9. QED BY <1>7, <1>8

\* The write at the head of the call: it is the first one of the user's queue
\* that the backend has not answered on this call.
LEMMA HeadRequest ==
    ASSUME StoreInv, RecordInv, RemoteInv, StoreSafe, CallSafe, Serving, Head(call.toServer) \in Writes
    PROVE  LET n == Len(call.toClient) + 1
           IN  /\ handshake
               /\ n \in 1 .. Len(queue[user])
               /\ Head(call.toServer) = queue[user][n].w
               /\ \A j \in 1 .. n - 1 : IsCommitted(queue[user][j].w)
               /\ owner[Head(call.toServer)] = user
               /\ call.user = user
<1> DEFINE y == call.toServer
           z == call.toClient
           q == queue[user]
<1>1. call.user # NoUser /\ y # <<>> /\ Head(y) \in Writes
  BY DEF Serving
<1>2. /\ call.user = user
      /\ y \in Seq(InFlightItem) /\ z \in Seq(InFlightItem)
      /\ Len(y) \in Nat /\ Len(z) \in Nat
      /\ ~handshake => \A i \in 1 .. Len(y) : y[i] = Handshake
      /\ handshake =>
            /\ Len(z) + Len(y) = Len(pipeline)
            /\ Len(pipeline) <= Len(q)
            /\ \A i \in 1 .. Len(z) : IsCommitted(q[i].w)
            /\ \A i \in 1 .. Len(y) : y[i] = q[Len(z) + i].w
  BY <1>1, InFlight
<1>3. 1 \in 1 .. Len(y) /\ Head(y) = y[1]
  BY <1>1, <1>2, EmptySeq
<1>4. q \in Seq(Batch) /\ pipeline \in Seq(Batch)
  BY DEF StoreInv, RemoteInv, Prefix
<1>5. handshake
  <2>1. Head(y) # Handshake
    BY <1>1, WritePathAssumption DEF Handshake, Writes
  <2>2. QED BY <1>2, <1>3, <2>1
<1> HIDE DEF y, z, q
<1>6. Len(z) + 1 \in 1 .. Len(q) /\ (Len(z) + 1) - 1 = Len(z)
  <2>1. PICK inc \in Nat, out \in Nat, m \in Nat, n \in Nat :
           inc = Len(z) /\ out = Len(y) /\ m = Len(pipeline) /\ n = Len(q)
    BY <1>2, <1>4, LenProperties
  <2>2. out # 0 /\ inc + out = m /\ m <= n
    BY <1>2, <1>3, <1>5, <2>1
  <2>3. inc + 1 \in 1 .. n /\ (inc + 1) - 1 = inc
    BY <2>2
  <2>4. QED BY <2>1, <2>3
<1>7. Head(y) = q[Len(z) + 1].w
  BY <1>2, <1>3, <1>5
<1>8. owner[q[Len(z) + 1].w] = user
  <2>1. user \in Users
    BY DEF StoreInv
  <2>2. QED BY <1>6, <2>1 DEF StoreSafe, QueuesOwned, q
<1>9. QED BY <1>2, <1>5, <1>6, <1>7, <1>8 DEF y, z, q

\* The backend commits the write at the head of the call.
LEMMA ServerCommitSafe ==
    ASSUME StoreInv, RecordInv, RemoteInv, SafetyParts, ServerCommit
    PROVE  SafetyParts'
<1> DEFINE y == call.toServer
           z == call.toClient
           x == Head(y)
<1>1. /\ UNCHANGED <<queue, savedToken, user, completions, pipeline, handshake, workQueue, provider,
                     refused, owner, calls>>
      /\ Serving /\ call.user # NoUser /\ call.status = "ok" /\ y # <<>>
      /\ x \in Writes \ BadWrites /\ x \in Writes
      /\ committed' = Append(committed, [w |-> x, user |-> call.user])
      /\ call' = [call EXCEPT !.toServer = Tail(@), !.toClient = Append(@, x)]
  BY DEF ServerCommit, Serving, localStore, engine, remote, outside, application
<1>2. StoreSafe /\ OrderSafe /\ CallSafe
  BY DEF SafetyParts
<1>3. owner[x] = user /\ call.user = user /\ user \in Users
  BY <1>1, <1>2, HeadRequest DEF StoreInv
<1>4. StoreSafe'
  <2> HIDE DEF x
  <2>1. owner[x] \in Users /\ committed' = Append(committed, [w |-> x, user |-> owner[x]])
    BY <1>1, <1>3
  <2>2. QED BY <1>1, <1>2, <2>1, SafeCommit
<1>5. OrderSafe'
  BY <1>1, <1>2 DEF OrderSafe
<1>6. /\ y \in Seq(InFlightItem) /\ z \in Seq(InFlightItem)
      /\ z \o y = IF handshake THEN Requests(pipeline) ELSE <<Handshake>>
      /\ \A i \in 1 .. Len(z) : z[i] # Handshake => IsCommitted(z[i])
      /\ (call').user = call.user /\ (call').status = call.status
      /\ (call').toServer = Tail(y) /\ (call').toClient = Append(z, x)
  BY <1>1, <1>2 DEF RemoteInv, CallType, InFlightItem, CallSafe, CallOK
<1>7. Append(z, x) \o Tail(y) = z \o y
  BY <1>1, <1>6, MoveOne
<1>8. /\ \A j \in 1 .. Len(committed) : j \in 1 .. Len(committed') /\ committed'[j] = committed[j]
      /\ \E j \in 1 .. Len(committed') : committed'[j].w = x
  <2> DEFINE e == [w |-> x, user |-> call.user]
             Entry == [w : Writes, user : Users]
  <2>1. committed \in Seq(Entry) /\ e \in Entry /\ e.w = x
    BY <1>1, <1>3 DEF RecordInv
  <2>2. committed' = Append(committed, e)
    BY <1>1
  <2> HIDE DEF e, Entry, x
  <2>3. /\ \A i \in 1 .. Len(committed) : i \in 1 .. Len(committed') /\ committed'[i] = committed[i]
        /\ Len(committed) + 1 \in 1 .. Len(committed') /\ committed'[Len(committed) + 1] = e
    BY <2>1, <2>2, AppendCases
  <2>4. QED BY <2>1, <2>3
<1>9. x \in InFlightItem
  BY <1>1 DEF InFlightItem
<1> HIDE DEF x, y, z
<1>10. ASSUME NEW i \in 1 .. Len(Append(z, x)), Append(z, x)[i] # Handshake
       PROVE  \E j \in 1 .. Len(committed') : committed'[j].w = Append(z, x)[i]
  <2>1. CASE i \in 1 .. Len(z) /\ Append(z, x)[i] = z[i]
    <3>1. PICK j \in 1 .. Len(committed) : committed[j].w = z[i]
      BY <1>6, <1>10, <2>1 DEF IsCommitted
    <3>2. QED BY <1>8, <2>1, <3>1
  <2>2. CASE Append(z, x)[i] = x
    BY <1>8, <2>2
  <2>3. (i \in 1 .. Len(z) /\ Append(z, x)[i] = z[i]) \/ Append(z, x)[i] = x
    <3>1. z \in Seq(InFlightItem) /\ x \in InFlightItem
      BY <1>6, <1>9
    <3>2. \A k \in 1 .. Len(Append(z, x)) :
            (k \in 1 .. Len(z) /\ Append(z, x)[k] = z[k]) \/ Append(z, x)[k] = x
      BY <3>1, AppendCases
    <3>3. QED BY <3>2
  <2>4. QED BY <2>1, <2>2, <2>3
<1>11. CallSafe'
  <2>1. (call').user = user' /\ (call').status # "permanent"
    BY <1>1, <1>3, <1>6
  <2>2. (call').toClient \o (call').toServer =
            IF handshake' THEN Requests(pipeline') ELSE <<Handshake>>
    BY <1>1, <1>6, <1>7 DEF Requests
  <2>3. \A i \in 1 .. Len((call').toClient) :
           (call').toClient[i] # Handshake =>
              \E j \in 1 .. Len(committed') : committed'[j].w = (call').toClient[i]
    BY <1>6, <1>10
  <2>4. QED BY <2>1, <2>2, <2>3, CallSafeNext
<1>12. QED BY <1>4, <1>5, <1>11 DEF SafetyParts

\* The backend refuses the write at the head of the call and ends the call.
LEMMA ServerRefuseSafe ==
    ASSUME StoreInv, RecordInv, RemoteInv, SafetyParts, ServerRefuse
    PROVE  SafetyParts'
<1> DEFINE x == Head(call.toServer)
<1>1. /\ UNCHANGED <<queue, savedToken, user, completions, pipeline, handshake, workQueue, provider,
                     committed, owner, calls>>
      /\ Serving /\ call.user # NoUser /\ call.toServer # <<>>
      /\ x \in BadWrites /\ x \in Writes
      /\ refused' = refused \cup {x}
      /\ call' = [call EXCEPT !.status = "permanent"]
  BY WritePathAssumption
     DEF ServerRefuse, Serving, localStore, engine, remote, outside, application
<1>2. StoreSafe /\ OrderSafe /\ CallSafe
  BY DEF SafetyParts
<1>3. owner[x] = user /\ user # NoUser
  BY <1>1, <1>2, HeadRequest, WritePathAssumption DEF StoreInv
<1>4. StoreSafe'
  <2> HIDE DEF x
  <2>1. QED BY <1>1, <1>2, <1>3, SafeRefuse
<1>5. OrderSafe'
  BY <1>1, <1>2 DEF OrderSafe
<1>6. /\ (call').user = call.user /\ (call').status = "permanent"
      /\ (call').toServer = call.toServer /\ (call').toClient = call.toClient
  BY <1>1 DEF RemoteInv, CallType
<1>7. CallSafe'
  <2>1. (call').user # NoUser =>
            /\ (call').user = user'
            /\ (call').toClient \o (call').toServer =
                  IF handshake' THEN Requests(pipeline') ELSE <<Handshake>>
    BY <1>1, <1>2, <1>6 DEF CallSafe, CallOK, Requests
  <2>2. \A i \in 1 .. Len((call').toClient) :
           (call').toClient[i] # Handshake =>
              \E j \in 1 .. Len(committed') : committed'[j].w = (call').toClient[i]
    BY <1>1, <1>2, <1>6 DEF CallSafe, CallOK, IsCommitted
  <2>3. (call').toServer # <<>> /\ Head((call').toServer) \in refused'
    BY <1>1, <1>6
  <2>4. QED BY <2>1, <2>2, <2>3, CallSafeNext
<1>8. QED BY <1>4, <1>5, <1>7 DEF SafetyParts

\* The handshake's response: it was all that was in flight.
LEMMA HandshakeResponseSafe ==
    ASSUME StoreInv, RecordInv, RemoteInv, SafetyParts, HandshakeResponse
    PROVE  SafetyParts' /\ QueuesStay
<1> DEFINE y == call.toServer
           z == call.toClient
<1>1. /\ UNCHANGED <<queue, user, completions, pipeline, workQueue, provider, committed, refused,
                     owner, calls>>
      /\ z # <<>> /\ ~handshake /\ handshake' = TRUE
      /\ savedToken' = [savedToken EXCEPT ![user] = call.user]
      /\ call' = [call EXCEPT !.toClient = Tail(@), !.toServer = @ \o Requests(pipeline)]
  BY DEF HandshakeResponse, engine, outside, application
<1>2. StoreSafe /\ OrderSafe /\ CallSafe
  BY DEF SafetyParts
<1>3. call.user # NoUser
  BY <1>1, LiveCall
<1>4. /\ call.user = user
      /\ y \in Seq(InFlightItem) /\ z \in Seq(InFlightItem)
      /\ Len(y) \in Nat /\ Len(z) \in Nat
      /\ Len(z) + Len(y) = 1
  BY <1>1, <1>2, <1>3, InFlight
<1>5. /\ (call').user = call.user /\ (call').status = call.status
      /\ (call').toServer = y \o Requests(pipeline) /\ (call').toClient = Tail(z)
      /\ call.status = "permanent" => y # <<>>
  BY <1>1, <1>2 DEF RemoteInv, CallType, CallSafe, CallOK
<1>6. pipeline \in Seq(Batch)
  BY DEF RemoteInv, Prefix
<1> HIDE DEF y, z
<1>7. y = <<>> /\ Tail(z) = <<>>
  <2>1. Len(z) # 0
    BY <1>1, <1>4, EmptySeq
  <2>2. Len(y) = 0 /\ Len(z) = 1
    <3>1. PICK inc \in Nat, out \in Nat : inc = Len(z) /\ out = Len(y)
      BY <1>4
    <3>2. inc # 0 /\ inc + out = 1
      BY <1>4, <2>1, <3>1
    <3>3. inc = 1 /\ out = 0
      BY <3>2
    <3>4. QED BY <3>1, <3>3
  <2>3. Tail(z) \in Seq(InFlightItem) /\ Len(Tail(z)) = Len(z) - 1
    BY <1>1, <1>4, HeadTailProperties
  <2>4. Len(Tail(z)) = 0
    BY <2>2, <2>3
  <2>5. QED BY <1>4, <2>2, <2>3, <2>4, EmptySeq
<1>8. <<>> \o Requests(pipeline) = Requests(pipeline) /\ Len(<<>>) = 0
  <2> DEFINE r == Requests(pipeline)
  <2>1. r \in Seq(InFlightItem)
    BY <1>6, RequestsAt
  <2> HIDE DEF r
  <2>2. <<>> \o r = r /\ Len(<<>>) = 0
    BY <2>1, ConcatEmptySeq
  <2>3. QED BY <2>2 DEF r
<1>9. CallSafe'
  <2>1. /\ (call').user = user' /\ (call').status # "permanent"
        /\ (call').toClient = <<>> /\ (call').toServer = Requests(pipeline)
    BY <1>1, <1>4, <1>5, <1>7, <1>8
  <2>2. Requests(pipeline') = Requests(pipeline)
    BY <1>1
  <2>3. (call').toClient \o (call').toServer =
            IF handshake' THEN Requests(pipeline') ELSE <<Handshake>>
    BY <1>1, <1>8, <2>1, <2>2
  <2>4. \A i \in 1 .. Len((call').toClient) : FALSE
    BY <2>1
  <2>5. QED BY <2>1, <2>3, <2>4, CallSafeNext
<1>10. \A u \in Users : savedToken'[u] \in {u, NoUser}
  BY <1>1, <1>2, <1>4 DEF StoreSafe, HandledOwned, CredentialsNeverCross, RecordInv
<1>11. StoreSafe'
  BY <1>1, <1>2, <1>10, SafeSame
<1>12. OrderSafe'
  BY <1>1, <1>2 DEF OrderSafe
<1>13. QED BY <1>1, <1>9, <1>11, <1>12 DEF SafetyParts, QueuesStay

\* A result takes the first batch off the pipeline and the queue; what is in
\* flight then is what is left, and what the pipeline is refilled with.
LEMMA MutationResultSafe ==
    ASSUME StoreInv, RecordInv, RemoteInv, SafetyParts, MutationResult
    PROVE  SafetyParts' /\ FirstLeaves
<1> DEFINE y == call.toServer
           z == call.toClient
           net == isNetworkEnabled
           r == RemoveBatch(queue[user], Head(pipeline).id)
           rest == Tail(pipeline)
           c == [call EXCEPT !.toClient = Tail(z)]
           d == [c EXCEPT !.toServer = @ \o FillSent(net, r, rest, stream, handshake)]
           f == FillPipeline(net, r, rest)
<1>1. StoreSafe /\ OrderSafe /\ CallSafe /\ z # <<>> /\ handshake
  BY DEF SafetyParts, MutationResult
<1>2. /\ call.user = user /\ call.user # NoUser /\ pipeline # <<>>
      /\ IsCommitted(queue[user][1].w)
  BY <1>1, FirstAnswered
<1>3. /\ ProcessUserCallbacks(Head(pipeline).id, "ok")
      /\ AcknowledgeBatch(Head(pipeline))
      /\ pipeline' = FillPipeline(net, queue'[user], rest)
      /\ call' = [call EXCEPT !.toClient = Tail(@),
                              !.toServer = @ \o FillSent(net, queue'[user], rest, stream, handshake)]
      /\ provider' = Refreshed(stream, stream', "ok")
      /\ UNCHANGED <<user, handshake, workQueue, committed, refused, owner>>
  BY <1>2 DEF MutationResult
<1>4. /\ queue' = [queue EXCEPT ![user] = r]
      /\ savedToken' = [savedToken EXCEPT ![user] = call.user]
  BY <1>3 DEF AcknowledgeBatch
<1>5. queue'[user] = r
  BY <1>4 DEF StoreInv
<1>6. \A u \in Users : savedToken'[u] \in {u, NoUser}
  BY <1>1, <1>2, <1>4 DEF StoreSafe, HandledOwned, CredentialsNeverCross, RecordInv
<1>7. StoreSafe' /\ FirstLeaves
  BY <1>1, <1>2, <1>3, <1>4, <1>6, PopSafe
<1>8. OrderSafe'
  BY <1>1, <1>3, RefreshedUser DEF OrderSafe
<1>9. /\ r \in Seq(Batch) /\ QueueOrdered(r) /\ Prefix(rest, r)
      /\ Len(rest) <= kMaxPendingWrites
  BY <1>2, PopFirst
<1>10. /\ call \in CallType /\ y \in Seq(InFlightItem) /\ z \in Seq(InFlightItem)
       /\ z \o y = Requests(pipeline)
       /\ \A i \in 1 .. Len(z) : z[i] # Handshake => IsCommitted(z[i])
       /\ call.status = "permanent" => y # <<>> /\ Head(y) \in refused
  BY <1>1, <1>2 DEF RemoteInv, CallType, InFlightItem, CallSafe, CallOK
<1>11. /\ pipeline' = f
       /\ call' = d
  BY <1>3, <1>5, <1>10 DEF CallType
<1>12. /\ net \in BOOLEAN /\ handshake \in BOOLEAN /\ pipeline \in Seq(Batch)
       /\ IsOpen(stream) <=> call.user # NoUser
  BY DEF RemoteInv, Prefix, StreamOK
<1> HIDE DEF y, z, r
<1>13. /\ Tail(z) \in Seq(InFlightItem)
       /\ \A i \in 1 .. Len(Tail(z)) : i + 1 \in 1 .. Len(z) /\ Tail(z)[i] = z[i + 1]
  <2>1. /\ Tail(z) \in Seq(InFlightItem) /\ Len(Tail(z)) = Len(z) - 1
        /\ \A i \in 1 .. Len(Tail(z)) : Tail(z)[i] = z[i + 1]
        /\ Len(z) \in Nat
    BY <1>1, <1>10, HeadTailProperties, LenProperties DEF z
  <2>2. QED BY <2>1
<1>14. Tail(z) \o y = Requests(rest)
  <2>1. Tail(z \o y) = Tail(z) \o y
    BY <1>1, <1>10, ConcatFirst DEF z
  <2>2. Requests(rest) = Tail(Requests(pipeline))
    BY <1>2, <1>12, RequestsTail
  <2>3. QED BY <1>10, <2>1, <2>2
<1>15. /\ c \in CallType /\ c.user = call.user /\ c.status = call.status
       /\ c.toServer = y /\ c.toClient = Tail(z)
  BY <1>10, <1>13 DEF CallType, InFlightItem, y
<1> HIDE DEF c, rest
<1>16. CallOK(user, rest, handshake, c)
  <2>1. \A i \in 1 .. Len(Tail(z)) : Tail(z)[i] # Handshake => IsCommitted(Tail(z)[i])
    BY <1>10, <1>13
  <2>2. QED BY <1>1, <1>2, <1>10, <1>14, <1>15, <2>1 DEF CallOK
<1>17. CallOK(user, f, handshake, d)
  BY <1>9, <1>12, <1>15, <1>16, FillCall
<1> HIDE DEF f, d
<1>18. CallSafe'
  <2>1. /\ call' = d /\ pipeline' = f
        /\ UNCHANGED <<user, handshake, committed, refused>>
    BY <1>3, <1>11
  <2>2. QED BY <1>17, <2>1 DEF CallSafe, CallOK, IsCommitted
<1>19. QED BY <1>7, <1>8, <1>18 DEF SafetyParts

\* A local write goes to the end of the queue and perhaps of the pipeline and the
\* call.
LEMMA WriteMutationsSafe ==
    ASSUME StoreInv, RecordInv, RemoteInv, SafetyParts, NEW w \in Writes, WriteMutations(w)
    PROVE  SafetyParts'
<1> DEFINE net == isNetworkEnabled
           b == [id |-> nextBatchId[user], w |-> w]
           q == Append(queue[user], b)
           f == FillPipeline(net, q, pipeline)
           d == [call EXCEPT !.toServer = @ \o FillSent(net, q, pipeline, stream, handshake)]
<1>1. /\ owner[w] = NoUser
      /\ owner' = [owner EXCEPT ![w] = user]
      /\ queue' = [queue EXCEPT ![user] = q]
      /\ AddMutationCompletionBlock(b)
      /\ pipeline' = f /\ call' = d
      /\ provider' = Refreshed(stream, stream', "ok")
      /\ UNCHANGED <<savedToken, user, handshake, workQueue, committed, refused, calls>>
  BY DEF WriteMutations, LocallyWriteMutations
<1>2. StoreSafe /\ OrderSafe /\ CallSafe
  BY DEF SafetyParts
<1>3. StoreSafe'
  BY <1>1, <1>2, SafeAppend
<1>4. OrderSafe'
  BY <1>1, <1>2, RefreshedUser DEF OrderSafe
<1>5. /\ user \in Users /\ queue[user] \in Seq(Batch) /\ b \in Batch
      /\ Prefix(pipeline, queue[user]) /\ Len(pipeline) <= kMaxPendingWrites
      /\ net \in BOOLEAN /\ handshake \in BOOLEAN /\ call \in CallType
      /\ IsOpen(stream) <=> call.user # NoUser
  BY DEF StoreInv, RemoteInv, Batch, StreamOK
<1>6. StoreInv'
  BY StoreAppend DEF WriteMutations, LocallyWriteMutations
<1>7. q \in Seq(Batch) /\ QueueOrdered(q)
  <2>1. queue'[user'] = q
    BY <1>1, <1>5 DEF StoreInv
  <2>2. queue'[user'] \in Seq(Batch) /\ QueueOrdered(queue'[user'])
    BY <1>6 DEF StoreInv, QueuesOrdered, QueueOrdered
  <2>3. QED BY <2>1, <2>2
<1> HIDE DEF b
<1>8. Prefix(pipeline, q)
  <2>1. /\ Len(q) = Len(queue[user]) + 1 /\ Len(queue[user]) \in Nat
        /\ \A i \in 1 .. Len(queue[user]) : q[i] = queue[user][i]
    BY <1>5, AppendProperties, LenProperties
  <2>2. /\ pipeline \in Seq(Batch) /\ Len(pipeline) <= Len(queue[user]) /\ Len(pipeline) \in Nat
        /\ \A i \in 1 .. Len(pipeline) : pipeline[i] = queue[user][i]
    BY <1>5, LenProperties DEF Prefix
  <2> HIDE DEF q
  <2>3. Len(pipeline) <= Len(q) /\ \A i \in 1 .. Len(pipeline) : pipeline[i] = q[i]
    BY <2>1, <2>2
  <2>4. QED BY <2>2, <2>3 DEF Prefix
<1> HIDE DEF q
<1>9. CallOK(user, f, handshake, d)
  BY <1>2, <1>5, <1>7, <1>8, FillCall DEF CallSafe
<1> HIDE DEF f, d
<1>10. CallSafe'
  <2>1. /\ call' = d /\ pipeline' = f
        /\ UNCHANGED <<user, handshake, committed, refused>>
    BY <1>1
  <2>2. QED BY <1>9, <2>1 DEF CallSafe, CallOK, IsCommitted
<1>11. QED BY <1>3, <1>4, <1>10 DEF SafetyParts

\* A new process begins without blocks, callbacks and calls.
LEMMA BootSafe ==
    ASSUME provider \in ProviderType, Boot(queue), StoreSafe'
    PROVE  SafetyParts' /\ QueuesStay
<1>1. /\ UNCHANGED <<queue, committed, refused>>
      /\ user' = provider.user /\ call' = NoCall /\ workQueue' = <<>>
      /\ provider' = [provider EXCEPT !.refresh = "cached"]
  BY DEF Boot
<1>2. CallSafe'
  BY <1>1 DEF CallSafe, CallOK, NoCall
<1>3. (provider').user = provider.user
  BY <1>1 DEF ProviderType
<1>4. Len(<<>>) = 0
  OBVIOUS
<1>5. CredentialsInOrder(provider.user, <<>>, provider.user)
  BY <1>4 DEF CredentialsInOrder, UserAfter
<1>6. OrderSafe'
  BY <1>1, <1>3, <1>5 DEF OrderSafe
<1>7. QED BY <1>1, <1>2, <1>6 DEF SafetyParts, QueuesStay

\* A restart calls no block.
LEMMA RestartSafe ==
    ASSUME IInv, SafetyParts, Restart
    PROVE  SafetyParts' /\ QueuesStay
<1>1. StoreInv /\ RecordInv /\ provider \in ProviderType
  BY DurableParts
<1>2. MaxRestarts # 0
  <2>1. budget.restarts < MaxRestarts /\ budget.restarts \in Nat
    BY <1>1 DEF Restart, RecordInv
  <2>2. QED BY <2>1, WritePathAssumption
<1>3. UNCHANGED <<queue, savedToken, committed, refused, owner, calls>> /\ completions' = {}
  BY DEF Restart, Boot
<1>4. StoreSafe'
  BY <1>2, <1>3, SafeReboot DEF SafetyParts
<1>5. QED BY <1>1, <1>4, BootSafe DEF Restart

\* A crash before the acknowledgement has called the block of a committed write.
LEMMA CrashSafe ==
    ASSUME StoreInv, RecordInv, RemoteInv, SafetyParts, CrashBeforeAcknowledge
    PROVE  SafetyParts' /\ QueuesStay
<1> DEFINE x == Head(pipeline).w
<1>1. UNCHANGED <<queue, savedToken, committed, refused, owner>> /\ completions' = {}
  BY DEF CrashBeforeAcknowledge, Boot
<1>2. MaxRestarts # 0
  <2>1. budget.restarts < MaxRestarts /\ budget.restarts \in Nat
    BY DEF CrashBeforeAcknowledge, RecordInv
  <2>2. QED BY <2>1, WritePathAssumption
<1>3. StoreSafe /\ CallSafe
  BY DEF SafetyParts
<1>4. IsCommitted(queue[user][1].w) /\ pipeline # <<>>
  BY <1>3, FirstAnswered DEF CrashBeforeAcknowledge
<1>5. Head(pipeline) = queue[user][1] /\ Head(pipeline) \in Batch /\ queue[user] # <<>>
  BY <1>4, PopFirst
<1>6. x \in Writes /\ IsCommitted(x)
  BY <1>4, <1>5 DEF Batch
<1>7. user \in Users /\ user # NoUser /\ 1 \in 1 .. Len(queue[user])
  BY <1>5, WritePathAssumption, BatchFacts DEF StoreInv
<1>8. owner[x] = user
  BY <1>3, <1>5, <1>7 DEF StoreSafe, QueuesOwned
<1>9. calls' \in {calls, Append(calls, [w |-> x, result |-> "ok"])}
  BY DEF CrashBeforeAcknowledge
<1> HIDE DEF x
<1>10. StoreSafe'
  BY <1>1, <1>2, <1>3, <1>6, <1>7, <1>8, <1>9, SafeBoot
<1>11. provider \in ProviderType /\ Boot(queue)
  BY DEF RemoteInv, CrashBeforeAcknowledge
<1>12. QED BY <1>10, <1>11, BootSafe

LEMMA InitSafe == Init => SafetyInv
<1> SUFFICES ASSUME Init PROVE SafetyInv
  OBVIOUS
<1>1. /\ \A u \in Users : queue[u] = <<>> /\ savedToken[u] = NoUser
      /\ completions = {} /\ committed = <<>> /\ refused = {} /\ calls = <<>>
      /\ workQueue = <<>> /\ provider.user = user /\ call = NoCall
  BY DEF Init
<1>2. Len(<<>>) = 0
  OBVIOUS
<1>3. QueuesOwned /\ BlocksMatchQueue
  BY <1>1, <1>2 DEF QueuesOwned, BlocksMatchQueue
<1>4. HandledOwned /\ CallsOK
  BY <1>1, <1>2 DEF HandledOwned, CredentialsNeverCross, CallsOK, SuccessWasCommitted, ErrorWasRefused
<1>5. CredentialsInOrder(user, workQueue, provider.user)
  BY <1>1, <1>2 DEF CredentialsInOrder, UserAfter
<1>6. CallOK(user, pipeline, handshake, call)
  BY <1>1, NoCallSafe
<1>7. QED BY <1>3, <1>4, <1>5, <1>6 DEF SafetyInv

\* What a step does to the queues and the backend's records.
QueueStep ==
    \/ QueuesStay
    \/ /\ NoHardAssertFails
       /\ \/ FirstLeaves
          \/ \E w \in Writes : WriteMutations(w)
          \/ ServerCommit
          \/ ServerRefuse

\* Every action of the running process preserves SafetyInv, and is of one of five
\* kinds.
LEMMA RunningSafe ==
    ASSUME IInv, SafetyInv, NoHardAssertFails, Environment \/ System
    PROVE  SafetyParts' /\ QueueStep
<1>1. StoreInv /\ RecordInv /\ RemoteInv /\ SafetyParts
  BY InvParts, PartsOfSafety
<1>3. ASSUME NEW w \in Writes, WriteMutations(w) PROVE SafetyParts' /\ QueueStep
  BY <1>1, <1>3, WriteMutationsSafe DEF QueueStep
<1>4. CASE EnableNetwork
  BY <1>1, <1>4, EnableNetworkSafe DEF QueueStep
<1>5. CASE DisableNetwork
  BY <1>1, <1>5, DisableNetworkSafe DEF QueueStep
<1>6. CASE \/ \E u \in Users : AuthStateDidChange(u)
           \/ TokenExpires
           \/ \E r \in stream.requests : TokenArrives(r) \/ TokenFails(r)
  BY <1>1, <1>6, AuthStepsSafe DEF QueueStep
<1>7. CASE \/ ServerHandshake
           \/ \E status \in (Errors \ {"unauthenticated"}) \cup {"ended"} : ServerFault(status)
  BY <1>1, <1>7, ServerSafe DEF QueueStep
<1>8. CASE ServerCommit
  BY <1>1, <1>8, ServerCommitSafe DEF QueueStep
<1>9. CASE ServerRefuse
  BY <1>1, <1>9, ServerRefuseSafe DEF QueueStep
<1>10. CASE MalformedResponse \/ CallFinished \/ WriteFailed \/ ConnectionLost
  BY <1>1, <1>10, EndOfCallSafe DEF QueueStep
<1>11. CASE CrashBeforeAcknowledge
  BY <1>1, <1>11, CrashSafe DEF QueueStep
<1>12. CASE CredentialDidChange
  BY <1>1, <1>12, CredentialDidChangeSafe DEF QueueStep
<1>13. CASE StaleTokenCallback
  BY <1>1, <1>13, StaleTokenCallbackSafe DEF QueueStep
<1>14. CASE TokenCallback
  BY <1>1, <1>14, TokenCallbackSafe DEF QueueStep
<1>15. CASE TokenErrorCallback
  BY <1>1, <1>15, TokenErrorCallbackSafe DEF QueueStep
<1>16. CASE HandshakeResponse
  BY <1>1, <1>16, HandshakeResponseSafe DEF QueueStep
<1>17. CASE MutationResult
  BY <1>1, <1>17, MutationResultSafe DEF QueueStep
<1>18. CASE IdleTimeout \/ CallEnded \/ BackoffTimeout
  BY <1>1, <1>18, TimersSafe DEF QueueStep
<1>19. QED
  BY <1>3, <1>4, <1>5, <1>6, <1>7, <1>8, <1>9, <1>10, <1>11, <1>12, <1>13, <1>14, <1>15,
     <1>16, <1>17, <1>18 DEF Environment, System

\* SafetyInv is inductive together with IInv.
LEMMA NextSafe == IInv /\ SafetyInv /\ [Next]_vars => SafetyInv' /\ QueueStep
<1> SUFFICES ASSUME IInv, SafetyInv, [Next]_vars PROVE SafetyInv' /\ QueueStep
  OBVIOUS
<1>1. SafetyParts
  BY PartsOfSafety
<1>2. SUFFICES SafetyParts' /\ QueueStep
  BY PartsOfSafetyNext
<1>3. CASE NoHardAssertFails /\ (Environment \/ System)
  BY <1>3, RunningSafe
<1>4. CASE Restart
  BY <1>1, <1>4, RestartSafe DEF QueueStep
<1>5. CASE UNCHANGED vars
  <2>1. /\ UNCHANGED <<localStore, engine, pipeline, handshake, backend, application>>
        /\ UNCHANGED <<user, workQueue, provider>>
    BY <1>5 DEF vars, localStore, engine, remote, outside
  <2>2. OrderSafe'
    BY <1>1, <2>1 DEF SafetyParts, OrderSafe
  <2>3. QED BY <1>1, <2>1, <2>2, AuthSafe DEF QueueStep
<1>6. QED BY <1>3, <1>4, <1>5 DEF Next

-----------------------------------------------------------------------------
(* The refinement of WriteQueue.                                           *)

Log == [j \in 1 .. Len(committed) |-> committed[j].w]

\* The log holds the writes that were committed.
LEMMA LogFacts ==
    ASSUME RecordInv
    PROVE  /\ Log \in Seq(Writes)
           /\ Len(Log) = Len(committed) /\ Len(committed) \in Nat
           /\ \A w : Q!InLog(w) <=> IsCommitted(w)
<1>1. committed \in Seq([w : Writes, user : Users])
  BY DEF RecordInv
<1>2. Len(committed) \in Nat /\ \A j \in 1 .. Len(committed) : committed[j].w \in Writes
  BY <1>1, RecordTypes, LenProperties
<1>3. Log \in Seq(Writes) /\ Len(Log) = Len(committed)
  BY <1>2 DEF Log
<1>4. ASSUME NEW w PROVE Q!InLog(w) <=> IsCommitted(w)
  <2>1. Q!InLog(w) <=> \E i \in 1 .. Len(Log) : Log[i] = w
    BY DEF Q!InLog, Log
  <2>2. (\E i \in 1 .. Len(Log) : Log[i] = w) <=> \E i \in 1 .. Len(committed) : committed[i].w = w
    BY <1>3 DEF Log
  <2>3. QED BY <2>1, <2>2 DEF IsCommitted
<1>5. QED BY <1>2, <1>3, <1>4

\* A handled write, in the terms of WriteQueue.
LEMMA HandledFacts ==
    ASSUME RecordInv, NEW w
    PROVE  Q!Handled(w) <=> w \in refused \/ IsCommitted(w)
BY LogFacts DEF Q!Handled

\* A write that is made was not there before.
LEMMA MakeStep ==
    ASSUME StoreInv, RecordInv, StoreSafe, NEW w \in Writes, WriteMutations(w)
    PROVE  Q!Make(user, w)
<1> DEFINE b == [id |-> nextBatchId[user], w |-> w]
           q == queue[user]
           pend == [u \in Users |-> Requests(queue[u])]
<1>1. /\ owner[w] = NoUser /\ user \in Users
      /\ queue' = [queue EXCEPT ![user] = Append(q, b)]
      /\ UNCHANGED <<committed, refused>>
  BY DEF WriteMutations, LocallyWriteMutations, StoreInv
<1>2. /\ q \in Seq(Batch) /\ b \in Batch /\ b.w = w
  BY <1>1 DEF StoreInv, Batch
<1>3. ~Q!Pending(w)
  <2>1. SUFFICES ASSUME NEW u \in Users, NEW i \in 1 .. Len(pend[u]), pend[u][i] = w
                 PROVE  FALSE
    BY DEF Q!Pending
  <2>2. queue[u] \in Seq(Batch) /\ pend[u] = Requests(queue[u])
    BY DEF StoreInv
  <2>3. i \in 1 .. Len(queue[u]) /\ queue[u][i].w = w
    BY <2>1, <2>2, RequestsAt
  <2>4. owner[w] = u
    BY <2>3 DEF StoreSafe, QueuesOwned
  <2>5. QED BY <1>1, <2>4, WritePathAssumption
<1>4. ~Q!Handled(w)
  <2>1. w \notin refused
    BY <1>1 DEF StoreSafe, HandledOwned
  <2>2. ~IsCommitted(w)
    <3>1. SUFFICES ASSUME NEW j \in 1 .. Len(committed), committed[j].w = w PROVE FALSE
      BY DEF IsCommitted
    <3>2. committed[j].user = owner[w] /\ committed[j].user \in Users
      BY <3>1, RecordTypes DEF StoreSafe, HandledOwned, CredentialsNeverCross
    <3>3. QED BY <1>1, <3>2, WritePathAssumption
  <2>3. QED BY <2>1, <2>2, HandledFacts
<1>5. [u \in Users |-> Requests(queue'[u])] = [pend EXCEPT ![user] = Append(@, w)]
  <2>1. Requests(Append(q, b)) = Append(Requests(q), w)
    <3> HIDE DEF b, q
    <3>1. <<b>> \in Seq(Batch) /\ Append(q, b) = q \o <<b>>
      BY <1>2, AppendIsConcat
    <3>2. Requests(q \o <<b>>) = Requests(q) \o Requests(<<b>>)
      BY <1>2, <3>1, RequestsConcat
    <3>3. Requests(<<b>>) = <<w>>
      <4>1. Len(<<b>>) = 1 /\ <<b>>[1] = b
        OBVIOUS
      <4> DEFINE one == <<b>>
      <4>2. one \in Seq(Batch) /\ Len(one) = 1 /\ one[1] = b
        BY <3>1, <4>1
      <4> HIDE DEF one
      <4>3. Requests(one) \in Seq(InFlightItem) /\ Len(Requests(one)) = 1 /\ Requests(one)[1] = w
        BY <1>2, <4>2, RequestsAt
      <4>4. <<w>> \in Seq(InFlightItem) /\ Len(<<w>>) = 1 /\ <<w>>[1] = w
        BY DEF InFlightItem
      <4>5. \A i \in 1 .. 1 : Requests(one)[i] = <<w>>[i]
        BY <4>3, <4>4
      <4>6. Requests(one) = <<w>>
        BY <4>3, <4>4, <4>5, SeqEqual
      <4>7. QED BY <4>6 DEF one
    <3>4. Append(Requests(q), w) = Requests(q) \o <<w>>
      <4> DEFINE r == Requests(q)
      <4>1. r \in Seq(InFlightItem) /\ w \in InFlightItem
        BY <1>2, RequestsAt DEF InFlightItem
      <4> HIDE DEF r
      <4>2. Append(r, w) = r \o <<w>>
        BY <4>1, AppendIsConcat
      <4>3. QED BY <4>2 DEF r
    <3>5. QED BY <3>1, <3>2, <3>3, <3>4
  <2> DEFINE next == [u \in Users |-> Requests(queue'[u])]
             made == [pend EXCEPT ![user] = Append(@, w)]
  <2>2. ASSUME NEW u \in Users PROVE next[u] = made[u]
    <3>1. CASE u = user
      <4>1. queue'[u] = Append(q, b)
        BY <1>1, <3>1 DEF StoreInv
      <4>2. next[u] = Requests(Append(q, b)) /\ made[u] = Append(Requests(q), w)
        BY <1>1, <3>1, <4>1
      <4>3. QED BY <2>1, <4>2
    <3>2. CASE u # user
      BY <1>1, <3>2 DEF StoreInv
    <3>3. QED BY <3>1, <3>2
  <2>3. next = made
    BY <2>2
  <2>4. QED BY <2>3
<1>6. QED BY <1>1, <1>3, <1>4, <1>5 DEF Q!Make

\* A batch that leaves the queue after its write was handled.
LEMMA ResolveStep ==
    ASSUME StoreInv, RecordInv, FirstLeaves
    PROVE  Q!Resolve(user)
<1> DEFINE q == queue[user]
           r == RemoveBatch(q, q[1].id)
           pend == [u \in Users |-> Requests(queue[u])]
<1>1. /\ q \in Seq(Batch) /\ QueueOrdered(q) /\ user \in Users /\ q # <<>>
      /\ IsCommitted(q[1].w) \/ q[1].w \in refused
      /\ queue' = [queue EXCEPT ![user] = r] /\ UNCHANGED <<committed, refused>>
  BY DEF StoreInv, QueuesOrdered, FirstLeaves
<1>2. r \in Seq(Batch) /\ Len(r) = Len(q) - 1 /\ \A i \in 1 .. Len(r) : r[i] = q[i + 1]
  BY <1>1, RemoveFirst
<1>3. pend[user] = Requests(q)
  BY <1>1
<1>4. /\ queue'[user] = r
      /\ \A u \in Users \ {user} : queue'[u] = queue[u]
  BY <1>1 DEF StoreInv
<1> HIDE DEF q, r
<1>5. r = Tail(q)
  <2>1. /\ Tail(q) \in Seq(Batch) /\ Len(Tail(q)) = Len(q) - 1
        /\ \A i \in 1 .. Len(Tail(q)) : Tail(q)[i] = q[i + 1]
    BY <1>1, HeadTailProperties
  <2>2. QED BY <1>2, <2>1, SeqEqual
<1>6. Requests(r) = Tail(Requests(q)) /\ Head(Requests(q)) = q[1].w /\ Requests(q) # <<>>
  <2>1. Head(q) = q[1]
    BY <1>1
  <2>2. QED BY <1>1, <1>5, <2>1, RequestsTail, RequestsAt
<1>7. pend[user] # <<>> /\ Q!Handled(Head(pend[user]))
  BY <1>1, <1>3, <1>6, HandledFacts
<1>8. [u \in Users |-> Requests(queue'[u])] = [pend EXCEPT ![user] = Tail(@)]
  <2> DEFINE next == [u \in Users |-> Requests(queue'[u])]
             popped == [pend EXCEPT ![user] = Tail(@)]
  <2>1. ASSUME NEW u \in Users PROVE next[u] = popped[u]
    <3>1. CASE u = user
      <4>1. next[u] = Requests(r) /\ popped[u] = Tail(Requests(q))
        BY <1>1, <1>3, <1>4, <3>1
      <4>2. QED BY <1>6, <4>1
    <3>2. CASE u # user
      BY <1>4, <3>2
    <3>3. QED BY <3>1, <3>2
  <2>2. next = popped
    BY <2>1
  <2>3. QED BY <2>2
<1>9. QED BY <1>1, <1>7, <1>8 DEF Q!Resolve

\* The backend commits and refuses the next write of the queue.
LEMMA BackendSteps ==
    ASSUME StoreInv, RecordInv, RemoteInv, StoreSafe, CallSafe, ServerCommit \/ ServerRefuse
    PROVE  \E i \in 1 .. Len(Requests(queue[user])) : Q!Commit(user, i) \/ Q!Refuse(user, i)
<1> DEFINE x == Head(call.toServer)
           n == Len(call.toClient) + 1
           q == queue[user]
           pend == [u \in Users |-> Requests(queue[u])]
<1>1. Serving /\ x \in Writes /\ queue' = queue
  BY WritePathAssumption DEF ServerCommit, ServerRefuse, localStore
<1>2. /\ n \in 1 .. Len(q) /\ x = q[n].w /\ call.user = user
      /\ \A j \in 1 .. n - 1 : IsCommitted(q[j].w)
  BY <1>1, HeadRequest
<1>3. q \in Seq(Batch) /\ user \in Users
  BY DEF StoreInv
<1> HIDE DEF n, q
<1>4. /\ Len(q) \in Nat
      /\ n \in 1 .. Len(Requests(q)) /\ Requests(q)[n] = x
      /\ \A j \in 1 .. Len(q) : Requests(q)[j] = q[j].w
  BY <1>2, <1>3, RequestsAt, LenProperties
<1>5. pend[user] = Requests(q)
  BY <1>3 DEF q
<1>6. Q!IsNext(user, n)
  <2>1. ASSUME NEW j \in 1 .. n - 1 PROVE Q!Handled(pend[user][j])
    <3>1. j \in 1 .. Len(q)
      BY <1>2, <1>4
    <3>2. pend[user][j] = q[j].w
      BY <1>4, <1>5, <3>1
    <3>3. QED BY <1>2, <3>2, HandledFacts
  <2>2. QED BY <2>1 DEF Q!IsNext
<1>7. pend' = pend
  BY <1>1
<1>8. CASE ServerCommit
  <2> DEFINE e == [w |-> x, user |-> call.user]
             Entry == [w : Writes, user : Users]
  <2>1. committed' = Append(committed, e) /\ refused' = refused
    BY <1>8 DEF ServerCommit
  <2>2. committed \in Seq(Entry) /\ e \in Entry /\ e.w = x
    BY <1>1, <1>2, <1>3 DEF RecordInv
  <2> HIDE DEF e, Entry, x
  <2>3. /\ committed' \in Seq(Entry) /\ Len(committed') = Len(committed) + 1
        /\ Len(committed) \in Nat
        /\ \A j \in 1 .. Len(committed) : committed'[j] = committed[j]
        /\ committed'[Len(committed) + 1] = e
    BY <2>1, <2>2, AppendProperties, LenProperties
  <2>4. Log \in Seq(Writes) /\ Len(Log) = Len(committed)
    BY LogFacts
  <2> DEFINE next == [j \in 1 .. Len(committed') |-> committed'[j].w]
  <2>5. /\ Append(Log, x) \in Seq(Writes) /\ Len(Append(Log, x)) = Len(committed) + 1
        /\ \A j \in 1 .. Len(committed) : Append(Log, x)[j] = Log[j]
        /\ Append(Log, x)[Len(committed) + 1] = x
    BY <1>1, <2>4, AppendProperties
  <2>6. \A j \in 1 .. Len(committed) + 1 : committed'[j].w = Append(Log, x)[j]
    <3>1. ASSUME NEW j \in 1 .. Len(committed) + 1 PROVE committed'[j].w = Append(Log, x)[j]
      <4>1. CASE j \in 1 .. Len(committed)
        BY <2>3, <2>5, <4>1 DEF Log
      <4>2. CASE j = Len(committed) + 1
        BY <2>2, <2>3, <2>5, <4>2
      <4>3. PICK k \in Nat : k = Len(committed)
        BY <2>3
      <4>4. j \in 1 .. k \/ j = k + 1
        BY <4>3
      <4>5. QED BY <4>1, <4>2, <4>3, <4>4
    <3>2. QED BY <3>1
  <2>7. next = Append(Log, x)
    <3>1. Len(committed) + 1 \in Nat
      BY <2>3
    <3>2. next \in Seq(Writes) /\ Len(next) = Len(committed) + 1
      <4>1. \A j \in 1 .. Len(committed) + 1 : committed'[j].w \in Writes
        BY <2>5, <2>6, <3>1
      <4>2. QED BY <2>3, <3>1, <4>1
    <3>3. \A j \in 1 .. Len(next) : next[j] = Append(Log, x)[j]
      BY <2>3, <2>6, <3>2
    <3>4. QED BY <2>5, <3>2, <3>3, SeqEqual
  <2>8. PICK i \in 1 .. Len(Requests(q)) : i = n
    BY <1>4
  <2>9. Q!IsNext(user, i) /\ pend[user][i] = x
    BY <1>4, <1>5, <1>6, <2>8 DEF Q!IsNext
  <2>10. Q!Commit(user, i)
    BY <1>7, <2>1, <2>7, <2>9 DEF Q!Commit, Log
  <2>11. QED BY <2>10 DEF q
<1>9. CASE ServerRefuse
  <2>1. refused' = refused \cup {x} /\ committed' = committed
    BY <1>9 DEF ServerRefuse
  <2>2. Q!Refuse(user, n)
    BY <1>4, <1>5, <1>6, <1>7, <2>1 DEF Q!Refuse
  <2>3. QED BY <1>4, <2>2 DEF q
<1>10. QED BY <1>8, <1>9

\* Every step of the write path is a step of WriteQueue or leaves it alone.
LEMMA RefinedStep ==
    ASSUME IInv, SafetyInv, QueueStep
    PROVE  [Q!Next]_(Q!vars)
<1>1. CASE QueuesStay
  <2>1. UNCHANGED <<queue, committed, refused>>
    BY <1>1 DEF QueuesStay
  <2>2. UNCHANGED Q!vars
    BY <2>1 DEF Q!vars
  <2>3. QED BY <2>2
<1> SUFFICES ASSUME NoHardAssertFails,
                    \/ FirstLeaves \/ \E w \in Writes : WriteMutations(w)
                    \/ ServerCommit \/ ServerRefuse
             PROVE  [Q!Next]_(Q!vars)
  BY <1>1 DEF QueueStep
<1>2. StoreInv /\ RecordInv /\ RemoteInv /\ StoreSafe /\ CallSafe /\ user \in Users
  BY InvParts, PartsOfSafety DEF SafetyParts, StoreInv
<1>3. CASE FirstLeaves
  <2>1. Q!Resolve(user)
    BY <1>2, <1>3, ResolveStep
  <2>2. QED BY <1>2, <2>1 DEF Q!Next
<1>4. ASSUME NEW w \in Writes, WriteMutations(w) PROVE Q!Next
  <2>1. Q!Make(user, w)
    BY <1>2, <1>4, MakeStep
  <2>2. QED BY <1>2, <2>1 DEF Q!Next
<1>5. CASE ServerCommit \/ ServerRefuse
  <2>1. PICK i \in 1 .. Len(Requests(queue[user])) : Q!Commit(user, i) \/ Q!Refuse(user, i)
    BY <1>2, <1>5, BackendSteps
  <2>2. i \in 1 .. Len([u \in Users |-> Requests(queue[u])][user])
    BY <1>2
  <2>3. QED BY <1>2, <2>1, <2>2 DEF Q!Next
<1>6. QED BY <1>3, <1>4, <1>5

LEMMA RefinedInit == Init => Q!Init
<1> SUFFICES ASSUME Init PROVE Q!Init
  OBVIOUS
<1>1. /\ \A u \in Users : queue[u] = <<>>
      /\ committed = <<>> /\ refused = {}
  BY DEF Init
<1>2. Requests(<<>>) = <<>>
  <2>1. <<>> \in Seq(Batch)
    BY EmptySeq
  <2>2. QED BY <2>1, RequestsAt
<1>3. [u \in Users |-> Requests(queue[u])] = [u \in Users |-> <<>>]
  BY <1>1, <1>2
<1>4. [j \in 1 .. Len(committed) |-> committed[j].w] = <<>>
  <2>1. Len(committed) = 0
    BY <1>1
  <2>2. QED BY <2>1
<1>5. QED BY <1>1, <1>3, <1>4 DEF Q!Init

-----------------------------------------------------------------------------
(* The theorems.                                                           *)

\* Every reachable state of the write path satisfies the second inductive
\* invariant: which write, which user, which completion block.
THEOREM WritePathSafety == Spec => []SafetyInv
<1>1. IInv /\ SafetyInv /\ [Next]_vars => SafetyInv'
  BY NextSafe
<1>2. QED BY <1>1, InitSafe, WritePathInv, PTL DEF Spec

\* Once the handshake is complete, what is in flight is the pipeline, in order:
\* OnWriteStreamMutationResult never takes a response for another batch's.
THEOREM ResponsesMatchPipeline == Spec => []InFlightIsPipeline
<1>1. IInv /\ SafetyInv => InFlightIsPipeline
  <2>1. SUFFICES ASSUME IInv, SafetyInv, handshake
                 PROVE  call.toClient \o call.toServer = Requests(pipeline)
    BY DEF InFlightIsPipeline
  <2>3. call.user # NoUser
    BY <2>1 DEF IInv, StreamOK
  <2>4. QED BY <2>1, <2>3 DEF SafetyInv, CallOK
<1>2. QED BY <1>1, WritePathInv, WritePathSafety, PTL

\* A waiting completion block is the block of a batch that is still queued; when
\* the process never restarts, every queued batch has its block.
THEOREM BlocksFollowQueue == Spec => []BlocksMatchQueue
<1>1. SafetyInv => BlocksMatchQueue
  BY DEF SafetyInv
<1>2. QED BY <1>1, WritePathSafety, PTL

\* No write is committed with another user's credentials, and no stream token is
\* saved with another user's queue.
THEOREM CredentialsStaySeparate == Spec => []CredentialsNeverCross
<1>1. SafetyInv => CredentialsNeverCross
  BY DEF SafetyInv, HandledOwned
<1>2. QED BY <1>1, WritePathSafety, PTL

\* A completion block reports success only for a write that the backend has
\* committed, across crashes in the middle of applySuccessfulWrite.
THEOREM SuccessIsTrue == Spec => []SuccessWasCommitted
<1>1. SafetyInv => SuccessWasCommitted
  BY DEF SafetyInv, CallsOK
<1>2. QED BY <1>1, WritePathSafety, PTL

\* When gRPC reports the responses it has received before a failed write, a
\* completion block reports an error only for a write that the backend refused
\* and never committed.
THEOREM ErrorIsTrue == ~WriteMayFailFirst => (Spec => []ErrorWasRefused)
<1>1. ASSUME ~WriteMayFailFirst PROVE Spec => []ErrorWasRefused
  <2>1. SafetyInv => ErrorWasRefused
    BY <1>1 DEF SafetyInv, CallsOK
  <2>2. QED BY <2>1, WritePathSafety, PTL
<1>2. QED BY <1>1

\* When the process never restarts, the backend never commits a write again after
\* its completion block was called.
THEOREM NeverResent == MaxRestarts = 0 => (Spec => NotResentAfterCallback)
<1> DEFINE NotAgain == \A i \in 1 .. Len(calls) :
                          Len(committed') > Len(committed) => Last1(committed').w # calls[i].w
<1>1. ASSUME MaxRestarts = 0 PROVE Spec => NotResentAfterCallback
  <2>1. IInv /\ SafetyInv /\ [Next]_vars => NotAgain
    <3>1. SUFFICES ASSUME IInv, SafetyInv, [Next]_vars, NEW i \in 1 .. Len(calls),
                          Len(committed') > Len(committed)
                   PROVE  Last1(committed').w # calls[i].w
      OBVIOUS
    <3>3. QueueStep
      BY <3>1, NextSafe
    <3>4. committed \in Seq([w : Writes, user : Users]) /\ Len(committed) \in Nat
      BY <3>1, DurableParts, LenProperties DEF RecordInv
    <3>5. committed' # committed
      BY <3>1, <3>4
    <3>6. ServerCommit /\ NoHardAssertFails
      BY <3>3, <3>5
         DEF QueueStep, QueuesStay, FirstLeaves, WriteMutations, ServerRefuse
    <3>2. StoreInv /\ RecordInv /\ RemoteInv /\ StoreSafe /\ CallSafe /\ user \in Users
      BY <3>1, <3>6, InvParts, PartsOfSafety DEF SafetyParts, StoreInv
    <3> DEFINE x == Head(call.toServer)
               e == [w |-> x, user |-> call.user]
    <3>7. Serving /\ x \in Writes /\ committed' = Append(committed, e)
      BY <3>6 DEF ServerCommit
    <3>8. /\ call.user = user
          /\ \E n \in 1 .. Len(queue[user]) : x = queue[user][n].w
      BY <3>2, <3>7, HeadRequest
    <3>9. e \in [w : Writes, user : Users] /\ e.w = x
      BY <3>2, <3>7, <3>8
    <3> HIDE DEF e, x
    <3>10. Last1(committed') = e
      <4>1. Len(committed') = Len(committed) + 1 /\ committed'[Len(committed) + 1] = e
        BY <3>4, <3>7, <3>9, AppendProperties
      <4>2. QED BY <4>1 DEF Last1
    <3>11. x # calls[i].w
      BY <1>1, <3>2, <3>8 DEF StoreSafe, CallsOK
    <3>12. QED BY <3>9, <3>10, <3>11
  <2> HIDE DEF NotAgain
  <2>2. Spec => [][NotAgain]_vars
    BY <2>1, WritePathInv, WritePathSafety, PTL DEF Spec
  <2>3. QED BY <2>2 DEF NotResentAfterCallback, NotAgain
<1>2. QED BY <1>1

\* The write path implements the abstract queue: whatever happens to streams,
\* pipelines, batch ids and sign-ins, the writes of a queue are handled in order
\* and leave it from the front, after the backend has handled them.
THEOREM RefinesWriteQueue == Spec => ImplementsWriteQueue
<1>1. IInv /\ SafetyInv /\ [Next]_vars => [Q!Next]_(Q!vars)
  BY NextSafe, RefinedStep
<1>2. QED
  BY <1>1, RefinedInit, WritePathInv, WritePathSafety, PTL DEF Spec, ImplementsWriteQueue, Q!Spec
===============================================================================
