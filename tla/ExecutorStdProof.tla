-------------------------- MODULE ExecutorStdProof --------------------------
(***************************************************************************)
(* The proof that ExecutorStd implements Executor, for any tasks, timers   *)
(* and delays: the sorted deque, the ids in the handles and the thread     *)
(* that waits together are a FIFO queue and a set of timers.               *)
(***************************************************************************)
EXTENDS ExecutorStd, TLAPS, SequenceTheorems, FiniteSetTheorems, WellFoundedInduction

-----------------------------------------------------------------------------
(* The inductive invariant.                                                *)

Entries == [op : Tasks \cup Timers \cup {None}, id : Nat, left : Nat \cup {Immediate}]

\* A schedule is m tasks, then no-ops up to n, then timers by their due time.
Shape(s, m, n) ==
    /\ s \in Seq(Entries)
    /\ m \in Nat /\ n \in Nat /\ m <= n /\ n <= Len(s)
    /\ \A i \in 1 .. m : s[i].op \in Tasks /\ s[i].left = Immediate
    /\ \A i \in m + 1 .. n : s[i].op = NoOp /\ s[i].left = Immediate
    /\ \A i \in n + 1 .. Len(s) : s[i].op \in Timers /\ s[i].left \in Nat
    /\ \A i, j \in n + 1 .. Len(s) : i < j => s[i].left <= s[j].left

\* The ids given out so far are below c; zero, which the no-op has, is not that of a timer.
\* A timer is there once, and its owner has its handle, which is nobody else's.
IdsOK(s, c, h) ==
    /\ \A i \in 1 .. Len(s) : s[i].id < c \/ (s[i].op = NoOp /\ s[i].id = 0)
    /\ \A i \in 1 .. Len(s) : s[i].op \in Timers => h[s[i].op] = s[i].id
    /\ \A i \in 1 .. Len(s) : \A t \in Timers : s[i].id = h[t] => s[i].op = t
    /\ \A i, j \in 1 .. Len(s) : s[i].op \in Timers /\ s[i].op = s[j].op => i = j

Handles(c) == [Timers -> (1 .. c - 1) \cup {None}]

ThreadOK ==
    /\ running \in Tasks \cup Timers \cup {None}
    /\ worker # "run" => running = None
    /\ inProgress => running # None
    /\ running # None => currentId > 0

ScheduleInv ==
    /\ \E m, n \in Nat : Shape(scheduled, m, n) /\ (m < n => unblocked)
    /\ unblocked => shuttingDown
    /\ currentId \in Nat
    /\ handle \in Handles(currentId)
    /\ IdsOK(scheduled, currentId, handle)
    /\ ThreadOK

-----------------------------------------------------------------------------
(* Sequences.                                                              *)

\* r is s with e at p.
Inserted(r, s, p, e) ==
    /\ Len(r) = Len(s) + 1 /\ r[p] = e
    /\ \A i \in 1 .. p - 1 : r[i] = s[i]
    /\ \A i \in p + 1 .. Len(s) + 1 : r[i] = s[i - 1]

LEMMA InsertFacts ==
    ASSUME NEW S, NEW s \in Seq(S), NEW p \in 1 .. Len(s) + 1, NEW e \in S,
           NEW r, r = InsertAt(s, p, e)
    PROVE  r \in Seq(S) /\ Inserted(r, s, p, e)
<1>1. PICK n \in Nat : n = Len(s)
  OBVIOUS
<1>2. PICK a : a = SubSeq(s, 1, p - 1)
  OBVIOUS
<1>3. PICK b : b = SubSeq(s, p, n)
  OBVIOUS
<1>4. a \in Seq(S) /\ Len(a) = p - 1 /\ \A i \in 1 .. p - 1 : a[i] = s[i]
  BY <1>1, <1>2
<1>5. b \in Seq(S) /\ Len(b) = n - p + 1 /\ \A i \in 1 .. n - p + 1 : b[i] = s[i + p - 1]
  BY <1>1, <1>3
<1>6. PICK c : c = a \o <<e>>
  OBVIOUS
<1>7. c \in Seq(S) /\ Len(c) = p /\ c[p] = e /\ \A i \in 1 .. p - 1 : c[i] = s[i]
  BY <1>4, <1>6
<1>8. r = c \o b
  BY <1>1, <1>2, <1>3, <1>6 DEF InsertAt
<1>9. PICK k \in Nat : k = n - p + 1
  BY <1>1
<1>10. /\ r \in Seq(S) /\ Len(r) = p + k
       /\ \A i \in 1 .. p : r[i] = c[i]
       /\ \A i \in 1 .. k : r[p + i] = b[i]
  <2>1. p \in Nat /\ c \in Seq(S) /\ b \in Seq(S) /\ Len(c) = p /\ Len(b) = k
    BY <1>5, <1>7, <1>9
  <2>2. r \in Seq(S) /\ Len(r) = p + k
    <3>1. c \o b \in Seq(S) /\ Len(c \o b) = Len(c) + Len(b)
      BY <2>1, ConcatProperties
    <3> QED
      BY <2>1, <1>8, <3>1
  <2>3. \A i \in 1 .. p : r[i] = c[i]
    BY <2>1, <1>8
  <2>4. \A i \in 1 .. k : r[p + i] = b[i]
    BY <2>1, <1>8
  <2> QED
    BY <2>2, <2>3, <2>4
<1>12. ASSUME NEW i \in p + 1 .. n + 1 PROVE r[i] = s[i - 1]
  <2>1. PICK q \in 1 .. k : p + q = i /\ q + p - 1 = i - 1
    BY <1>1, <1>9, i - p \in 1 .. k
  <2>2. r[p + q] = b[q]
    BY <1>10
  <2>3. b[q] = s[q + p - 1]
    BY <1>5, <1>9
  <2> QED
    BY <2>1, <2>2, <2>3
<1>13. p + k = n + 1
  BY <1>1, <1>9
<1> QED
  BY <1>1, <1>7, <1>10, <1>12, <1>13 DEF Inserted

LEMMA RemoveFacts ==
    ASSUME NEW S, NEW s \in Seq(S), NEW k \in 1 .. Len(s), NEW r, r = RemoveAt(s, k)
    PROVE  /\ r \in Seq(S) /\ Len(r) = Len(s) - 1
           /\ \A i \in 1 .. k - 1 : r[i] = s[i]
           /\ \A i \in k .. Len(s) - 1 : r[i] = s[i + 1]
<1>1. PICK n \in Nat : n = Len(s)
  OBVIOUS
<1>2. PICK a : a = SubSeq(s, 1, k - 1)
  OBVIOUS
<1>3. PICK b : b = SubSeq(s, k + 1, n)
  OBVIOUS
<1>4. a \in Seq(S) /\ Len(a) = k - 1 /\ \A i \in 1 .. k - 1 : a[i] = s[i]
  BY <1>1, <1>2
<1>5. b \in Seq(S) /\ Len(b) = n - k /\ \A i \in 1 .. n - k : b[i] = s[i + k]
  BY <1>1, <1>3
<1>6. r = a \o b
  BY <1>1, <1>2, <1>3 DEF RemoveAt
<1>7. PICK j \in Nat : j = k - 1
  OBVIOUS
<1>8. PICK h \in Nat : h = n - k
  BY <1>1, n - k \in Nat
<1>9. /\ r \in Seq(S) /\ Len(r) = j + h
      /\ \A i \in 1 .. j : r[i] = a[i]
      /\ \A i \in 1 .. h : r[j + i] = b[i]
  <2>1. a \in Seq(S) /\ b \in Seq(S) /\ Len(a) = j /\ Len(b) = h
    BY <1>4, <1>5, <1>7, <1>8
  <2>2. r \in Seq(S) /\ Len(r) = j + h
    <3>1. a \o b \in Seq(S) /\ Len(a \o b) = Len(a) + Len(b)
      BY <2>1, ConcatProperties
    <3> QED
      BY <2>1, <1>6, <3>1
  <2>3. \A i \in 1 .. j : r[i] = a[i]
    BY <2>1, <1>6
  <2>4. ASSUME NEW i \in 1 .. h PROVE r[j + i] = b[i]
    <3>1. j + i \in 1 .. j + h /\ ~(j + i <= j) /\ (j + i) - j = i
      OBVIOUS
    <3> QED
      BY <2>1, <3>1, <1>6
  <2> QED
    BY <2>2, <2>3, <2>4
<1>10. ASSUME NEW i \in k .. n - 1 PROVE r[i] = s[i + 1]
  <2>1. PICK q \in 1 .. h : j + q = i /\ q + k = i + 1
    BY <1>1, <1>7, <1>8, i - j \in 1 .. h
  <2>2. r[j + q] = b[q]
    BY <1>9
  <2>3. b[q] = s[q + k]
    BY <1>5, <1>8
  <2> QED
    BY <2>1, <2>2, <2>3
<1>12. j + h = n - 1
  BY <1>1, <1>7, <1>8
<1> QED
  BY <1>1, <1>4, <1>7, <1>9, <1>10, <1>12

\* Every non-empty set of naturals has a least member.
LEMMA LeastNumber ==
    ASSUME NEW T \in SUBSET Nat, T # {}
    PROVE  \E x \in T : \A y \in T : x <= y
<1> DEFINE I == {0 .. n : n \in T}
           R == StrictSubsetOrdering(Nat)
<1>1. I \subseteq FiniteSubsetsOf(Nat) /\ I # {}
  <2>1. ASSUME NEW n \in T PROVE 0 .. n \in FiniteSubsetsOf(Nat)
    <3>1. IsFiniteSet(0 .. n)
      BY FS_Interval, n \in Int, 0 \in Int
    <3>2. QED BY <3>1 DEF FiniteSubsetsOf
  <2>2. QED BY <2>1
<1>2. PICK i \in I : \A j \in I : ~(<<j, i>> \in R)
  <2> HIDE DEF I, R
  <2> QED BY <1>1, WFMin, FS_StrictSubsetOrderingWellFounded DEF R
<1>3. PICK x \in T : i = 0 .. x
  OBVIOUS
<1>4. ASSUME NEW y \in T, y < x PROVE FALSE
  <2>1. 0 .. y \subseteq 0 .. x /\ 0 .. y # 0 .. x /\ 0 .. y \in I /\ 0 .. x \in I
    BY <1>3, <1>4
  <2>2. 0 .. y \in FiniteSubsetsOf(Nat) /\ 0 .. x \in FiniteSubsetsOf(Nat)
    BY <1>1, <2>1
  <2>3. <<0 .. y, 0 .. x>> \in R
    BY <2>1, <2>2 DEF StrictSubsetOrdering
  <2>4. QED BY <1>2, <1>3, <2>1, <2>3
<1>5. QED BY <1>4

-----------------------------------------------------------------------------
(* The queue and the timers that a schedule stands for.                    *)

Timed == [timer : Timers, left : Nat]

LEMMA ViewFacts ==
    ASSUME NEW s, NEW m, NEW n, Shape(s, m, n)
    PROVE  /\ TasksOf(s) \in Seq(Tasks) /\ Len(TasksOf(s)) = m
           /\ \A i \in 1 .. m : TasksOf(s)[i] = s[i].op
           /\ DelayedOf(s) \in Seq(Timed) /\ Len(DelayedOf(s)) = Len(s) - n
           /\ \A i \in 1 .. Len(s) - n :
                DelayedOf(s)[i] = [timer |-> s[n + i].op, left |-> s[n + i].left]
<1>1. PICK l \in Nat : l = Len(s)
  BY DEF Shape
<1>2. m \in 0 .. l /\ n \in 0 .. l /\ m <= n
  BY <1>1 DEF Shape
<1>3. Immediate \notin Nat /\ None \notin Tasks \cup Timers
  BY ExecutorStdAssumption DEF Immediate
<1>4. \A i \in 1 .. l : i <= m <=> s[i].left = Immediate /\ s[i].op # NoOp
  BY <1>1, <1>2, <1>3 DEF Shape, NoOp
<1>5. \A i \in 1 .. l : i <= n <=> s[i].left = Immediate
  BY <1>1, <1>2, <1>3 DEF Shape
<1>6. CountTasks(s) = m
  <2>1. PICK c : c = CountTasks(s)
    OBVIOUS
  <2>2. c \in 0 .. l /\ \A i \in 1 .. l : i <= c <=> s[i].left = Immediate /\ s[i].op # NoOp
    BY <1>1, <1>2, <1>4, <2>1 DEF CountTasks
  <2>3. \A i \in 1 .. l : i <= c <=> i <= m
    BY <1>4, <2>2
  <2> QED
    BY <1>1, <1>2, <2>1, <2>2, <2>3
<1>7. CountImmediate(s) = n
  <2>1. PICK c : c = CountImmediate(s)
    OBVIOUS
  <2>2. c \in 0 .. l /\ \A i \in 1 .. l : i <= c <=> s[i].left = Immediate
    BY <1>1, <1>2, <1>5, <2>1 DEF CountImmediate
  <2>3. \A i \in 1 .. l : i <= c <=> i <= n
    BY <1>5, <2>2
  <2> QED
    BY <1>1, <1>2, <2>1, <2>2, <2>3
<1>8. TasksOf(s) = [i \in 1 .. m |-> s[i].op]
  BY <1>6 DEF TasksOf
<1>9. TasksOf(s) \in Seq(Tasks) /\ Len(TasksOf(s)) = m
  BY <1>2, <1>8 DEF Shape
<1>10. PICK k \in Nat : k = l - n
  <2>1. l - n \in Nat
    BY <1>1, <1>2
  <2> QED
    BY <2>1
<1>11. DelayedOf(s) = [i \in 1 .. k |-> [timer |-> s[n + i].op, left |-> s[n + i].left]]
  BY <1>1, <1>7, <1>10 DEF DelayedOf
<1>12. \A i \in 1 .. k : n + i \in n + 1 .. l
  BY <1>1, <1>2, <1>10
<1>13. \A i \in 1 .. k : [timer |-> s[n + i].op, left |-> s[n + i].left] \in Timed
  BY <1>1, <1>12 DEF Shape, Timed
<1>14. DelayedOf(s) \in Seq(Timed) /\ Len(DelayedOf(s)) = k
  BY <1>11, <1>13
<1> QED
  BY <1>1, <1>8, <1>9, <1>10, <1>11, <1>14

\* Schedules with the same tasks, and with the same timers.
LEMMA SameTasks ==
    ASSUME NEW s, NEW m, NEW n, Shape(s, m, n), NEW r, NEW k, Shape(r, m, k),
           \A i \in 1 .. m : r[i].op = s[i].op
    PROVE  TasksOf(r) = TasksOf(s)
BY ViewFacts, SeqEqual

LEMMA SameDelayed ==
    ASSUME NEW s, NEW m, NEW n, Shape(s, m, n), NEW r, NEW k, NEW l, Shape(r, k, l),
           Len(r) - l = Len(s) - n,
           \A i \in 1 .. Len(s) - n :
                r[l + i].op = s[n + i].op /\ r[l + i].left = s[n + i].left
    PROVE  DelayedOf(r) = DelayedOf(s)
<1>1. PICK a \in Nat : a = Len(s) - n
  BY DEF Shape
<1>2. /\ DelayedOf(s) \in Seq(Timed) /\ Len(DelayedOf(s)) = a
      /\ \A i \in 1 .. a : DelayedOf(s)[i] = [timer |-> s[n + i].op, left |-> s[n + i].left]
  BY <1>1, ViewFacts
<1>3. /\ DelayedOf(r) \in Seq(Timed) /\ Len(DelayedOf(r)) = a
      /\ \A i \in 1 .. a : DelayedOf(r)[i] = [timer |-> r[l + i].op, left |-> r[l + i].left]
  BY <1>1, ViewFacts
<1>4. \A i \in 1 .. a : DelayedOf(r)[i] = DelayedOf(s)[i]
  BY <1>1, <1>2, <1>3
<1> QED
  BY <1>2, <1>3, <1>4, SeqEqual

-----------------------------------------------------------------------------
(* What the operations do to a schedule.                                   *)

\* An immediate operation goes behind the other immediate ones.
LEMMA ImmediatePoint ==
    ASSUME NEW s, NEW m, NEW n, Shape(s, m, n)
    PROVE  InsertionPoint(s, Immediate) = n + 1
<1>1. PICK l \in Nat : l = Len(s)
  BY DEF Shape
<1>2. n \in 0 .. l /\ m <= n /\ m \in Nat
  BY <1>1 DEF Shape
<1>3. \A i \in 1 .. n : s[i].left = Immediate
  BY <1>2 DEF Shape
<1>4. \A i \in n + 1 .. l : s[i].left \in Nat
  BY <1>1 DEF Shape
<1>5. PICK p : p = InsertionPoint(s, Immediate)
  OBVIOUS
<1>6. \E q \in 1 .. l + 1 :
        /\ \A j \in 1 .. q - 1 : s[j].left <= Immediate
        /\ \A j \in q .. l : s[j].left > Immediate
  <2>1. PICK q : q = n + 1
    OBVIOUS
  <2>2. q \in 1 .. l + 1 /\ q - 1 = n
    BY <1>1, <1>2, <2>1
  <2>3. /\ \A j \in 1 .. q - 1 : s[j].left <= Immediate
        /\ \A j \in q .. l : s[j].left > Immediate
    BY <1>2, <1>3, <1>4, <2>1, <2>2 DEF Immediate
  <2> QED
    BY <2>2, <2>3
<1>7. /\ p \in 1 .. l + 1
      /\ \A j \in 1 .. p - 1 : s[j].left <= Immediate
      /\ \A j \in p .. l : s[j].left > Immediate
  <2> HIDE DEF Immediate
  <2> QED
    BY <1>1, <1>5, <1>6 DEF InsertionPoint
<1>8. ~(p < n + 1)
  BY <1>2, <1>3, <1>7 DEF Immediate
<1>9. ~(p > n + 1)
  <2>1. SUFFICES ASSUME p > n + 1 PROVE FALSE
    OBVIOUS
  <2>2. n + 1 \in 1 .. p - 1 /\ n + 1 \in n + 1 .. l
    BY <1>2, <1>7, <2>1
  <2> QED
    BY <1>4, <1>7, <2>2 DEF Immediate
<1> QED
  BY <1>2, <1>5, <1>7, <1>8, <1>9

\* A task is enqueued when there is no no-op.
LEMMA InsertTask ==
    ASSUME NEW s, NEW m, Shape(s, m, m), NEW x \in Tasks, NEW c \in Nat, NEW r,
           r = InsertPreservingOrder(s, Entry(x, c, Immediate))
    PROVE  /\ Shape(r, m + 1, m + 1)
           /\ r = InsertAt(s, m + 1, Entry(x, c, Immediate))
           /\ TasksOf(r) = Append(TasksOf(s), x)
           /\ DelayedOf(r) = DelayedOf(s)
<1>1. PICK l \in Nat : l = Len(s)
  BY DEF Shape
<1>2. m \in 0 .. l /\ s \in Seq(Entries)
  BY <1>1 DEF Shape
<1>3. PICK e : e = Entry(x, c, Immediate)
  OBVIOUS
<1>4. e \in Entries /\ e.op = x /\ e.left = Immediate
  BY <1>3 DEF Entry, Entries
<1>5. r = InsertAt(s, m + 1, e)
  BY <1>3, <1>4, ImmediatePoint DEF InsertPreservingOrder
<1>6. /\ r \in Seq(Entries) /\ Len(r) = l + 1 /\ r[m + 1] = e
      /\ \A i \in 1 .. m : r[i] = s[i]
      /\ \A i \in m + 2 .. l + 1 : r[i] = s[i - 1]
  <2>1. PICK p \in 1 .. Len(s) + 1 : p = m + 1
    BY <1>1, <1>2
  <2>2. /\ r \in Seq(Entries) /\ Len(r) = l + 1 /\ r[p] = e
        /\ \A i \in 1 .. p - 1 : r[i] = s[i]
        /\ \A i \in p + 1 .. l + 1 : r[i] = s[i - 1]
    <3>1. r = InsertAt(s, p, e)
      BY <1>5, <2>1
    <3>2. r \in Seq(Entries) /\ Inserted(r, s, p, e)
      BY <1>2, <1>4, <3>1, InsertFacts
    <3> QED
      BY <1>1, <3>2 DEF Inserted
  <2>3. p - 1 = m /\ p + 1 = m + 2
    BY <1>2, <2>1
  <2> QED
    BY <2>1, <2>2, <2>3
<1>7. \A i \in m + 2 .. l + 1 : i - 1 \in m + 1 .. l
  BY <1>1, <1>2
<1>8. Shape(r, m + 1, m + 1)
  <2>1. \A i \in 1 .. m + 1 : r[i].op \in Tasks /\ r[i].left = Immediate
    BY <1>2, <1>4, <1>6 DEF Shape
  <2>2. \A i \in m + 2 .. l + 1 : r[i].op \in Timers /\ r[i].left \in Nat
    BY <1>1, <1>6, <1>7 DEF Shape
  <2>3. \A i, j \in m + 2 .. l + 1 : i < j => r[i].left <= r[j].left
    <3>1. \A i, j \in m + 2 .. l + 1 : i < j => i - 1 < j - 1
      BY <1>1, <1>2
    <3> QED
      BY <1>1, <1>6, <1>7, <3>1 DEF Shape
  <2> QED
    BY <1>1, <1>2, <1>6, <2>1, <2>2, <2>3 DEF Shape
<1>9. TasksOf(r) = Append(TasksOf(s), x)
  <2>1. /\ TasksOf(s) \in Seq(Tasks) /\ Len(TasksOf(s)) = m
        /\ \A i \in 1 .. m : TasksOf(s)[i] = s[i].op
    BY ViewFacts
  <2>2. /\ TasksOf(r) \in Seq(Tasks) /\ Len(TasksOf(r)) = m + 1
        /\ \A i \in 1 .. m + 1 : TasksOf(r)[i] = r[i].op
    BY <1>8, ViewFacts
  <2>3. PICK a : a = Append(TasksOf(s), x)
    OBVIOUS
  <2>4. /\ a \in Seq(Tasks) /\ Len(a) = m + 1 /\ a[m + 1] = x
        /\ \A i \in 1 .. m : a[i] = TasksOf(s)[i]
    BY <2>1, <2>3
  <2>5. \A i \in 1 .. m + 1 : i = m + 1 \/ i \in 1 .. m
    BY <1>2
  <2>6. ASSUME NEW i \in 1 .. m PROVE TasksOf(r)[i] = a[i]
    <3>1. i \in 1 .. m + 1
      BY <1>2
    <3>2. TasksOf(r)[i] = r[i].op
      BY <2>2, <3>1
    <3>3. r[i] = s[i]
      BY <1>6
    <3>4. a[i] = TasksOf(s)[i]
      BY <2>4
    <3>5. TasksOf(s)[i] = s[i].op
      BY <2>1
    <3> QED
      BY <3>2, <3>3, <3>4, <3>5, Zenon
  <2>7. TasksOf(r)[m + 1] = a[m + 1]
    BY <1>2, <1>4, <1>6, <2>2, <2>4
  <2>8. \A i \in 1 .. m + 1 : TasksOf(r)[i] = a[i]
    BY <2>5, <2>6, <2>7
  <2> QED
    BY <2>2, <2>3, <2>4, <2>8, SeqEqual
<1>10. DelayedOf(r) = DelayedOf(s)
  <2>1. \A i \in 1 .. l - m : m + 1 + i \in m + 2 .. l + 1 /\ (m + 1 + i) - 1 = m + i
    BY <1>1, <1>2
  <2>2. \A i \in 1 .. l - m : r[m + 1 + i] = s[m + i]
    BY <1>6, <2>1
  <2>3. Len(r) - (m + 1) = Len(s) - m
    BY <1>1, <1>2, <1>6
  <2> QED
    BY <1>1, <1>8, <2>2, <2>3, SameDelayed
<1> QED
  BY <1>3, <1>5, <1>8, <1>9, <1>10

\* UnblockQueue.
LEMMA InsertNoOp ==
    ASSUME NEW s, NEW m, NEW n, Shape(s, m, n), NEW r,
           r = InsertPreservingOrder(s, Entry(NoOp, 0, Immediate))
    PROVE  /\ Shape(r, m, n + 1)
           /\ r = InsertAt(s, n + 1, Entry(NoOp, 0, Immediate))
           /\ TasksOf(r) = TasksOf(s)
           /\ DelayedOf(r) = DelayedOf(s)
<1>1. PICK l \in Nat : l = Len(s)
  BY DEF Shape
<1>2. m \in 0 .. l /\ n \in 0 .. l /\ m <= n /\ s \in Seq(Entries)
  BY <1>1 DEF Shape
<1>3. PICK e : e = Entry(NoOp, 0, Immediate)
  OBVIOUS
<1>4. e \in Entries /\ e.op = NoOp /\ e.left = Immediate
  BY <1>3 DEF Entry, Entries, NoOp
<1>5. r = InsertAt(s, n + 1, e)
  BY <1>3, <1>4, ImmediatePoint DEF InsertPreservingOrder
<1>6. /\ r \in Seq(Entries) /\ Len(r) = l + 1 /\ r[n + 1] = e
      /\ \A i \in 1 .. n : r[i] = s[i]
      /\ \A i \in n + 2 .. l + 1 : r[i] = s[i - 1]
  <2>1. PICK p \in 1 .. Len(s) + 1 : p = n + 1
    BY <1>1, <1>2
  <2>2. /\ r \in Seq(Entries) /\ Len(r) = l + 1 /\ r[p] = e
        /\ \A i \in 1 .. p - 1 : r[i] = s[i]
        /\ \A i \in p + 1 .. l + 1 : r[i] = s[i - 1]
    <3>1. r = InsertAt(s, p, e)
      BY <1>5, <2>1
    <3>2. r \in Seq(Entries) /\ Inserted(r, s, p, e)
      BY <1>2, <1>4, <3>1, InsertFacts
    <3> QED
      BY <1>1, <3>2 DEF Inserted
  <2>3. p - 1 = n /\ p + 1 = n + 2
    BY <1>2, <2>1
  <2> QED
    BY <2>1, <2>2, <2>3
<1>7. \A i \in n + 2 .. l + 1 : i - 1 \in n + 1 .. l
  BY <1>1, <1>2
<1>8. Shape(r, m, n + 1)
  <2>0. \A i \in 1 .. m : i \in 1 .. n
    BY <1>2
  <2>1. \A i \in 1 .. m : r[i].op \in Tasks /\ r[i].left = Immediate
    BY <1>2, <1>6, <2>0 DEF Shape
  <2>2. \A i \in m + 1 .. n + 1 : r[i].op = NoOp /\ r[i].left = Immediate
    <3>1. \A i \in m + 1 .. n + 1 : i = n + 1 \/ (i \in 1 .. n /\ i \in m + 1 .. n)
      BY <1>2
    <3> QED
      BY <1>2, <1>4, <1>6, <3>1 DEF Shape
  <2>3. \A i \in n + 2 .. l + 1 : r[i].op \in Timers /\ r[i].left \in Nat
    BY <1>1, <1>6, <1>7 DEF Shape
  <2>4. \A i, j \in n + 2 .. l + 1 : i < j => r[i].left <= r[j].left
    <3>1. \A i, j \in n + 2 .. l + 1 : i < j => i - 1 < j - 1
      BY <1>1, <1>2
    <3> QED
      BY <1>1, <1>6, <1>7, <3>1 DEF Shape
  <2> QED
    BY <1>1, <1>2, <1>6, <2>1, <2>2, <2>3, <2>4 DEF Shape
<1>9. TasksOf(r) = TasksOf(s)
  BY <1>2, <1>6, <1>8, SameTasks
<1>10. DelayedOf(r) = DelayedOf(s)
  <2>1. \A i \in 1 .. l - n : n + 1 + i \in n + 2 .. l + 1 /\ (n + 1 + i) - 1 = n + i
    BY <1>1, <1>2
  <2>2. \A i \in 1 .. l - n : r[n + 1 + i] = s[n + i]
    BY <1>6, <2>1
  <2>3. Len(r) - (n + 1) = Len(s) - n
    BY <1>1, <1>2, <1>6
  <2> QED
    BY <1>1, <1>8, <2>2, <2>3, SameDelayed
<1> QED
  BY <1>3, <1>5, <1>8, <1>9, <1>10

\* Where a timer goes: behind everything that is due at the same time or before.
LEMMA TimerPoint ==
    ASSUME NEW s, NEW m, NEW n, Shape(s, m, n), NEW d \in Nat, NEW p, p = InsertionPoint(s, d)
    PROVE  /\ p \in n + 1 .. Len(s) + 1
           /\ \A j \in 1 .. p - 1 : s[j].left <= d
           /\ \A j \in p .. Len(s) : s[j].left > d
<1>1. PICK l \in Nat : l = Len(s)
  BY DEF Shape
<1>2. n \in 0 .. l /\ m \in 0 .. n
  BY <1>1 DEF Shape
<1>3. \A i \in 1 .. n : s[i].left = -1
  BY <1>2 DEF Shape, Immediate
<1>4. \A i \in n + 1 .. l : s[i].left \in Nat
  BY <1>1 DEF Shape
<1>5. \A i, j \in n + 1 .. l : i < j => s[i].left <= s[j].left
  BY <1>1 DEF Shape
<1>6. PICK T : T = {j \in n + 1 .. l + 1 : j = l + 1 \/ s[j].left > d}
  OBVIOUS
<1>7. T \in SUBSET Nat /\ T # {}
  <2>1. l + 1 \in T
    BY <1>1, <1>2, <1>6
  <2> QED
    BY <1>1, <1>2, <1>6, <2>1
<1>8. PICK q \in T : \A j \in T : q <= j
  BY <1>7, LeastNumber
<1>9. q \in n + 1 .. l + 1 /\ (q = l + 1 \/ s[q].left > d)
  BY <1>6, <1>8
<1>10. ASSUME NEW j \in 1 .. q - 1 PROVE s[j].left <= d
  <2>1. CASE j <= n
    BY <1>2, <1>3, <2>1
  <2>2. CASE j > n
    <3>1. j \in n + 1 .. l /\ j < q
      BY <1>1, <1>2, <1>9, <2>2
    <3>2. j \notin T
      BY <1>8, <1>9, <3>1
    <3>3. ~(s[j].left > d)
      BY <1>1, <1>6, <3>1, <3>2
    <3> QED
      BY <1>4, <3>1, <3>3
  <2> QED
    BY <1>2, <2>1, <2>2
<1>11. ASSUME NEW j \in q .. l PROVE s[j].left > d
  <2>1. s[q].left > d /\ q \in n + 1 .. l /\ j \in n + 1 .. l
    BY <1>1, <1>2, <1>9
  <2>2. q < j \/ q = j
    BY <1>9
  <2>3. s[q].left \in Nat /\ s[j].left \in Nat
    BY <1>4, <2>1
  <2>4. q < j => s[q].left <= s[j].left
    BY <1>5, <2>1
  <2> QED
    BY <2>1, <2>2, <2>3, <2>4
<1>12. \E i \in 1 .. l + 1 :
        /\ \A j \in 1 .. i - 1 : s[j].left <= d
        /\ \A j \in i .. l : s[j].left > d
  <2>1. q \in 1 .. l + 1
    BY <1>1, <1>2, <1>9
  <2> QED
    BY <1>10, <1>11, <2>1
<1>13. /\ p \in 1 .. l + 1
       /\ \A j \in 1 .. p - 1 : s[j].left <= d
       /\ \A j \in p .. l : s[j].left > d
  BY <1>1, <1>12 DEF InsertionPoint
<1>14. ~(p <= n)
  <2>1. SUFFICES ASSUME p <= n PROVE FALSE
    OBVIOUS
  <2>2. p \in 1 .. n /\ p \in p .. l
    BY <1>2, <1>13, <2>1
  <2> QED
    BY <1>3, <1>13, <2>2
<1> QED
  BY <1>1, <1>2, <1>13, <1>14

\* r is s with the timer t, which is d away, at q among the timers.
TimerAdded(r, s, m, n, q, t, d) ==
    /\ Shape(r, m, n)
    /\ TasksOf(r) = TasksOf(s)
    /\ q \in 1 .. Len(DelayedOf(s)) + 1
    /\ \A j \in 1 .. q - 1 : DelayedOf(s)[j].left <= d
    /\ \A j \in q .. Len(DelayedOf(s)) : DelayedOf(s)[j].left > d
    /\ DelayedOf(r) = InsertAt(DelayedOf(s), q, [timer |-> t, left |-> d])

\* A timer is scheduled.
LEMMA InsertTimer ==
    ASSUME NEW s, NEW m, NEW n, Shape(s, m, n), NEW t \in Timers, NEW c \in Nat, NEW d \in Nat,
           NEW p, p = InsertionPoint(s, d), NEW r, r = InsertAt(s, p, Entry(t, c, d))
    PROVE  TimerAdded(r, s, m, n, p - n, t, d)
<1>1. PICK l \in Nat : l = Len(s)
  BY DEF Shape
<1>2. n \in 0 .. l /\ m \in 0 .. n /\ s \in Seq(Entries)
  BY <1>1 DEF Shape
<1>3. PICK e : e = Entry(t, c, d)
  OBVIOUS
<1>4. e \in Entries /\ e.op = t /\ e.left = d
  BY <1>3 DEF Entry, Entries
<1>5. p \in n + 1 .. l + 1
  BY <1>1, TimerPoint
<1>6. (\A j \in 1 .. p - 1 : s[j].left <= d) /\ (\A j \in p .. l : s[j].left > d)
  BY <1>1, TimerPoint
<1>7. /\ r \in Seq(Entries) /\ Len(r) = l + 1 /\ r[p] = e
      /\ \A i \in 1 .. p - 1 : r[i] = s[i]
      /\ \A i \in p + 1 .. l + 1 : r[i] = s[i - 1]
  <2>1. p \in 1 .. Len(s) + 1 /\ r = InsertAt(s, p, e)
    BY <1>1, <1>2, <1>3, <1>5
  <2>2. s \in Seq(Entries) /\ e \in Entries
    BY <1>2, <1>4
  <2>3. r \in Seq(Entries) /\ Inserted(r, s, p, e)
    BY <2>1, <2>2, InsertFacts
  <2> QED
    BY <1>1, <2>3 DEF Inserted
<1>8. \A i \in 1 .. n : r[i] = s[i]
  BY <1>2, <1>5, <1>7
<1>9. \A i \in n + 1 .. l : s[i].op \in Timers /\ s[i].left \in Nat
  BY <1>1 DEF Shape
<1>10. \A i \in n + 1 .. l + 1 :
        \/ i = p
        \/ i \in n + 1 .. l /\ i \in 1 .. p - 1
        \/ i - 1 \in n + 1 .. l /\ i \in p + 1 .. l + 1 /\ i - 1 \in p .. l
  BY <1>1, <1>2, <1>5
<1>11. Shape(r, m, n)
  <2>0. \A i \in 1 .. m : i \in 1 .. n
    BY <1>2
  <2>1. \A i \in 1 .. m : r[i].op \in Tasks /\ r[i].left = Immediate
    BY <1>2, <1>8, <2>0 DEF Shape
  <2>2. \A i \in m + 1 .. n : r[i].op = NoOp /\ r[i].left = Immediate
    BY <1>2, <1>8 DEF Shape
  <2>3. \A i \in n + 1 .. l + 1 : r[i].op \in Timers /\ r[i].left \in Nat
    BY <1>4, <1>7, <1>9, <1>10
  <2>4. ASSUME NEW i \in n + 1 .. l + 1, NEW j \in n + 1 .. l + 1, i < j
        PROVE  r[i].left <= r[j].left
    <3>1. CASE i = p
      <4>1. r[j] = s[j - 1] /\ j - 1 \in p .. l
        BY <1>5, <1>7, <1>10, <2>4, <3>1
      <4>2. r[i].left = d
        BY <1>4, <1>7, <3>1
      <4>3. j - 1 \in n + 1 .. l
        BY <1>2, <1>5, <4>1
      <4>4. s[j - 1].left > d /\ s[j - 1].left \in Nat
        BY <1>6, <1>9, <4>1, <4>3
      <4> QED
        BY <4>1, <4>2, <4>4
    <3>2. CASE j = p
      <4>1. i \in 1 .. p - 1
        BY <1>2, <1>5, <2>4, <3>2
      <4> QED
        BY <1>4, <1>6, <1>7, <3>2, <4>1
    <3>3. CASE i # p /\ j # p
      <4>1. PICK a : a = IF i < p THEN i ELSE i - 1
        OBVIOUS
      <4>2. PICK b : b = IF j < p THEN j ELSE j - 1
        OBVIOUS
      <4>3. a \in n + 1 .. l /\ b \in n + 1 .. l /\ a < b
        BY <1>1, <1>2, <1>5, <2>4, <3>3, <4>1, <4>2
      <4>4. r[i] = s[a]
        BY <1>2, <1>5, <1>7, <3>3, <4>1, SMTT(40)
      <4>5. r[j] = s[b]
        <5>1. j < p => j \in 1 .. p - 1
          BY <1>2, <1>5
        <5>2. ~(j < p) => j \in p + 1 .. l + 1
          BY <1>2, <1>5, <3>3
        <5> QED
          BY <1>7, <4>2, <5>1, <5>2
      <4>6. s[a].left <= s[b].left
        BY <1>1, <4>3 DEF Shape
      <4> QED
        BY <4>4, <4>5, <4>6
    <3> QED
      BY <3>1, <3>2, <3>3
  <2> QED
    BY <1>1, <1>2, <1>7, <2>1, <2>2, <2>3, <2>4 DEF Shape
<1>12. TasksOf(r) = TasksOf(s)
  <2>1. \A i \in 1 .. m : r[i].op = s[i].op
    BY <1>2, <1>8
  <2> QED
    BY <1>11, <2>1, SameTasks
<1>13. PICK k \in Nat : k = l - n
  BY <1>1, <1>2, l - n \in Nat
<1>14. /\ DelayedOf(s) \in Seq(Timed) /\ Len(DelayedOf(s)) = k
       /\ \A i \in 1 .. k : DelayedOf(s)[i] = [timer |-> s[n + i].op, left |-> s[n + i].left]
  BY <1>1, <1>13, ViewFacts
<1>15. /\ DelayedOf(r) \in Seq(Timed) /\ Len(DelayedOf(r)) = k + 1
       /\ \A i \in 1 .. k + 1 : DelayedOf(r)[i] = [timer |-> r[n + i].op, left |-> r[n + i].left]
  <2>1. Len(r) - n = k + 1
    BY <1>1, <1>2, <1>7, <1>13
  <2> QED
    BY <1>11, <2>1, ViewFacts
<1>16. PICK q \in 1 .. k + 1 : q = p - n
  BY <1>1, <1>2, <1>5, <1>13, p - n \in 1 .. k + 1
<1>17. \A j \in 1 .. q - 1 : DelayedOf(s)[j].left <= d
  <2>1. \A j \in 1 .. q - 1 : j \in 1 .. k /\ n + j \in 1 .. p - 1
    BY <1>2, <1>5, <1>16, SMTT(40)
  <2> QED
    BY <1>6, <1>14, <2>1
<1>18. \A j \in q .. k : DelayedOf(s)[j].left > d
  <2>1. \A j \in q .. k : j \in 1 .. k /\ n + j \in p .. l
    BY <1>1, <1>2, <1>5, <1>13, <1>16, SMTT(40)
  <2> QED
    BY <1>6, <1>14, <2>1
<1>19. PICK f : f = [timer |-> t, left |-> d]
  OBVIOUS
<1>20. f \in Timed
  BY <1>19 DEF Timed
<1>21. PICK g : g = InsertAt(DelayedOf(s), q, f)
  OBVIOUS
<1>22. /\ g \in Seq(Timed) /\ Len(g) = k + 1 /\ g[q] = f
       /\ \A i \in 1 .. q - 1 : g[i] = DelayedOf(s)[i]
       /\ \A i \in q + 1 .. k + 1 : g[i] = DelayedOf(s)[i - 1]
  <2>1. q \in 1 .. Len(DelayedOf(s)) + 1
    BY <1>14, <1>16
  <2>2. PICK ds : ds = DelayedOf(s)
    OBVIOUS
  <2>3. ds \in Seq(Timed) /\ Len(ds) = k /\ q \in 1 .. Len(ds) + 1 /\ g = InsertAt(ds, q, f)
    BY <1>14, <1>21, <2>1, <2>2
  <2>4. g \in Seq(Timed) /\ Inserted(g, ds, q, f)
    BY <1>20, <2>3, InsertFacts
  <2> QED
    BY <2>2, <2>3, <2>4 DEF Inserted
<1>23. ASSUME NEW i \in 1 .. k + 1 PROVE DelayedOf(r)[i] = g[i]
  <2>1. CASE i = q
    <3>1. n + i = p
      BY <1>2, <1>5, <1>16, <2>1
    <3> QED
      BY <1>4, <1>7, <1>15, <1>19, <1>22, <2>1, <3>1
  <2>2. CASE i < q
    <3>1. n + i \in 1 .. p - 1 /\ i \in 1 .. k /\ i \in 1 .. q - 1
      BY <1>2, <1>5, <1>16, <2>2
    <3>2. r[n + i] = s[n + i]
      BY <1>7, <3>1
    <3>3. g[i] = DelayedOf(s)[i]
      BY <1>22, <3>1
    <3>4. DelayedOf(s)[i] = [timer |-> s[n + i].op, left |-> s[n + i].left]
      BY <1>14, <3>1
    <3> QED
      BY <1>15, <3>2, <3>3, <3>4
  <2>3. CASE i > q
    <3>1. PICK h \in 1 .. k : h = i - 1
      BY <1>16, <2>3, i - 1 \in 1 .. k
    <3>2. n + i \in p + 1 .. l + 1 /\ (n + i) - 1 = n + h /\ i \in q + 1 .. k + 1
      BY <1>1, <1>2, <1>5, <1>13, <1>16, <2>3, <3>1, SMTT(40)
    <3>3. r[n + i] = s[n + h]
      BY <1>7, <3>2
    <3>4. g[i] = DelayedOf(s)[h]
      BY <1>22, <3>1, <3>2
    <3> QED
      BY <1>14, <1>15, <3>3, <3>4
  <2> QED
    BY <1>16, <2>1, <2>2, <2>3
<1>24. DelayedOf(r) = g
  BY <1>15, <1>22, <1>23, SeqEqual
<1>25. TimerAdded(r, s, m, n, q, t, d)
  BY <1>11, <1>12, <1>14, <1>17, <1>18, <1>19, <1>21, <1>24 DEF TimerAdded
<1> QED
  BY <1>16, <1>25

\* A timer is taken off the schedule.
LEMMA RemoveTimer ==
    ASSUME NEW s, NEW m, NEW n, Shape(s, m, n), NEW p \in n + 1 .. Len(s),
           NEW r, r = RemoveAt(s, p)
    PROVE  /\ Shape(r, m, n)
           /\ TasksOf(r) = TasksOf(s)
           /\ p - n \in 1 .. Len(DelayedOf(s))
           /\ DelayedOf(s)[p - n].timer = s[p].op
           /\ DelayedOf(s)[p - n].left = s[p].left
           /\ DelayedOf(r) = RemoveAt(DelayedOf(s), p - n)
<1>1. PICK l \in Nat : l = Len(s)
  BY DEF Shape
<1>2. n \in 0 .. l /\ m \in 0 .. n /\ s \in Seq(Entries) /\ p \in n + 1 .. l /\ l - 1 \in Nat
  BY <1>1 DEF Shape
<1>3. /\ r \in Seq(Entries) /\ Len(r) = l - 1
      /\ \A i \in 1 .. p - 1 : r[i] = s[i]
      /\ \A i \in p .. l - 1 : r[i] = s[i + 1]
  <2>1. p \in 1 .. Len(s)
    BY <1>1, <1>2
  <2>2. s \in Seq(Entries)
    BY <1>2
  <2>3. /\ r \in Seq(Entries) /\ Len(r) = Len(s) - 1
        /\ \A i \in 1 .. p - 1 : r[i] = s[i]
        /\ \A i \in p .. Len(s) - 1 : r[i] = s[i + 1]
    BY <2>1, <2>2, RemoveFacts, SMTT(40)
  <2> QED
    BY <1>1, <2>3
<1>4. \A i \in 1 .. n : r[i] = s[i]
  BY <1>2, <1>3
<1>5. \A i \in n + 1 .. l : s[i].op \in Timers /\ s[i].left \in Nat
  BY <1>1 DEF Shape
<1>6. \A i \in n + 1 .. l - 1 :
        \/ i \in n + 1 .. l /\ i \in 1 .. p - 1
        \/ i + 1 \in n + 1 .. l /\ i \in p .. l - 1
  BY <1>1, <1>2
<1>7. Shape(r, m, n)
  <2>0. \A i \in 1 .. m : i \in 1 .. n
    BY <1>2
  <2>1. \A i \in 1 .. m : r[i].op \in Tasks /\ r[i].left = Immediate
    BY <1>2, <1>4, <2>0 DEF Shape
  <2>2. \A i \in m + 1 .. n : r[i].op = NoOp /\ r[i].left = Immediate
    BY <1>2, <1>4 DEF Shape
  <2>3. \A i \in n + 1 .. l - 1 : r[i].op \in Timers /\ r[i].left \in Nat
    BY <1>3, <1>5, <1>6
  <2>4. ASSUME NEW i \in n + 1 .. l - 1, NEW j \in n + 1 .. l - 1, i < j
        PROVE  r[i].left <= r[j].left
    <3>1. PICK a : a = IF i < p THEN i ELSE i + 1
      OBVIOUS
    <3>2. PICK b : b = IF j < p THEN j ELSE j + 1
      OBVIOUS
    <3>3. a \in n + 1 .. l /\ b \in n + 1 .. l /\ a < b
      BY <1>1, <1>2, <2>4, <3>1, <3>2
    <3>4. r[i] = s[a]
      BY <1>2, <1>3, <3>1
    <3>5. r[j] = s[b]
      BY <1>2, <1>3, <3>2
    <3>6. s[a].left <= s[b].left
      BY <1>1, <3>3 DEF Shape
    <3> QED
      BY <3>4, <3>5, <3>6
  <2>5. n <= l - 1 /\ m <= n /\ m \in Nat /\ n \in Nat
    BY <1>1, <1>2
  <2> QED
    BY <1>3, <2>1, <2>2, <2>3, <2>4, <2>5 DEF Shape
<1>8. TasksOf(r) = TasksOf(s)
  <2>1. \A i \in 1 .. m : r[i].op = s[i].op
    BY <1>2, <1>4
  <2> QED
    BY <1>7, <2>1, SameTasks
<1>9. PICK k \in Nat : k = l - n /\ k - 1 \in Nat
  BY <1>1, <1>2, l - n \in Nat, l - n - 1 \in Nat
<1>10. /\ DelayedOf(s) \in Seq(Timed) /\ Len(DelayedOf(s)) = k
       /\ \A i \in 1 .. k : DelayedOf(s)[i] = [timer |-> s[n + i].op, left |-> s[n + i].left]
  BY <1>1, <1>9, ViewFacts
<1>11. /\ DelayedOf(r) \in Seq(Timed) /\ Len(DelayedOf(r)) = k - 1
       /\ \A i \in 1 .. k - 1 : DelayedOf(r)[i] = [timer |-> r[n + i].op, left |-> r[n + i].left]
  <2>1. Len(r) - n = k - 1
    BY <1>1, <1>2, <1>3, <1>9
  <2> QED
    BY <1>7, <2>1, ViewFacts
<1>12. PICK q \in 1 .. k : q = p - n /\ n + q = p
  BY <1>1, <1>2, <1>9, p - n \in 1 .. k
<1>13. DelayedOf(s)[q].timer = s[p].op /\ DelayedOf(s)[q].left = s[p].left
  BY <1>10, <1>12
<1>14. PICK g : g = RemoveAt(DelayedOf(s), q)
  OBVIOUS
<1>15. /\ g \in Seq(Timed) /\ Len(g) = k - 1
       /\ \A i \in 1 .. q - 1 : g[i] = DelayedOf(s)[i]
       /\ \A i \in q .. k - 1 : g[i] = DelayedOf(s)[i + 1]
  <2>1. q \in 1 .. Len(DelayedOf(s))
    BY <1>10
  <2> QED
    BY <1>10, <1>14, <2>1, RemoveFacts, SMTT(40)
<1>16. ASSUME NEW i \in 1 .. k - 1 PROVE DelayedOf(r)[i] = g[i]
  <2>1. CASE i < q
    <3>1. n + i \in 1 .. p - 1 /\ i \in 1 .. k /\ i \in 1 .. q - 1
      BY <1>2, <1>12, <2>1
    <3>2. r[n + i] = s[n + i]
      BY <1>3, <3>1
    <3>3. g[i] = DelayedOf(s)[i]
      BY <1>15, <3>1
    <3>4. DelayedOf(s)[i] = [timer |-> s[n + i].op, left |-> s[n + i].left]
      BY <1>10, <3>1
    <3> QED
      BY <1>11, <3>2, <3>3, <3>4
  <2>2. CASE i >= q
    <3>1. PICK h \in 1 .. k : h = i + 1
      BY <1>12, <2>2, i + 1 \in 1 .. k
    <3>2. n + i \in p .. l - 1 /\ (n + i) + 1 = n + h /\ i \in q .. k - 1
      BY <1>1, <1>2, <1>9, <1>12, <2>2, <3>1
    <3>3. r[n + i] = s[n + h]
      BY <1>3, <3>2
    <3>4. g[i] = DelayedOf(s)[h]
      BY <1>15, <3>1, <3>2
    <3> QED
      BY <1>10, <1>11, <3>3, <3>4
  <2> QED
    BY <1>12, <2>1, <2>2
<1>17. DelayedOf(r) = g
  BY <1>11, <1>15, <1>16, SeqEqual
<1> QED
  BY <1>7, <1>8, <1>10, <1>12, <1>13, <1>14, <1>17

\* The first entry is taken: a task, a no-op, or a timer that is due.
\* r is s, with n no-ops and no task, without its first.
NoOpTaken(s, n, r) ==
    Shape(r, 0, n - 1) /\ TasksOf(r) = TasksOf(s) /\ DelayedOf(r) = DelayedOf(s)

LEMMA TailShape ==
    ASSUME NEW s, NEW m, NEW n, Shape(s, m, n), s # <<>>, NEW r, r = Tail(s)
    PROVE  /\ m > 0 => /\ Head(s).op \in Tasks
                       /\ Shape(r, m - 1, n - 1)
                       /\ Head(TasksOf(s)) = Head(s).op /\ TasksOf(s) # <<>>
                       /\ TasksOf(r) = Tail(TasksOf(s))
                       /\ DelayedOf(r) = DelayedOf(s)
           /\ m = 0 /\ n > 0 => Head(s).op = NoOp /\ NoOpTaken(s, n, r)
           /\ n = 0 => /\ Head(s).op \in Timers /\ Head(s).left \in Nat
                       /\ Shape(r, m, n)
                       /\ TasksOf(r) = TasksOf(s)
                       /\ 1 \in 1 .. Len(DelayedOf(s))
                       /\ DelayedOf(s)[1].timer = Head(s).op
                       /\ DelayedOf(s)[1].left = Head(s).left
                       /\ DelayedOf(r) = RemoveAt(DelayedOf(s), 1)
<1>1. s \in Seq(Entries) /\ m \in Nat /\ n \in Nat /\ m <= n /\ n <= Len(s)
  BY DEF Shape
<1>2. PICK l \in Nat : l + 1 = Len(s)
  BY <1>1, Len(s) - 1 \in Nat
<1>3. /\ r \in Seq(Entries) /\ Len(r) = l /\ Head(s) = s[1]
      /\ \A i \in 1 .. l : r[i] = s[i + 1]
  BY <1>1, <1>2
<1>4. CASE n > 0
  <2>1. PICK k \in Nat : k + 1 = n /\ k = n - 1
    BY <1>1, <1>4, n - 1 \in Nat
  <2>2. \A i \in 1 .. l - k : r[k + i].op = s[n + i].op /\ r[k + i].left = s[n + i].left
    <3>1. \A i \in 1 .. l - k : k + i \in 1 .. l /\ (k + i) + 1 = n + i
      BY <1>1, <1>2, <2>1
    <3> QED
      BY <1>3, <3>1
  <2>3. Len(r) - k = Len(s) - n /\ Len(s) - n = l - k
    BY <1>1, <1>2, <1>3, <2>1
  <2>4. ASSUME NEW j, Shape(r, j, k) PROVE DelayedOf(r) = DelayedOf(s)
    <3>1. \A i \in 1 .. Len(s) - n :
            r[k + i].op = s[n + i].op /\ r[k + i].left = s[n + i].left
      BY <2>2, <2>3
    <3>2. Len(r) - k = Len(s) - n
      BY <2>3
    <3>3. PICK z : z = r
      OBVIOUS
    <3>4. /\ Shape(z, j, k) /\ Len(z) - k = Len(s) - n
          /\ \A i \in 1 .. Len(s) - n :
                z[k + i].op = s[n + i].op /\ z[k + i].left = s[n + i].left
      BY <2>4, <3>1, <3>2, <3>3
    <3>5. DelayedOf(z) = DelayedOf(s)
      BY <3>4, SameDelayed
    <3> QED
      BY <3>3, <3>5
  <2>5. \A i \in k + 1 .. l : i \in 1 .. l /\ i + 1 \in n + 1 .. Len(s)
    BY <1>1, <1>2, <2>1
  <2>6. \A i \in k + 1 .. l : r[i].op \in Timers /\ r[i].left \in Nat
    BY <1>3, <2>5 DEF Shape
  <2>7. \A i, j \in k + 1 .. l : i < j => r[i].left <= r[j].left
    <3>1. \A i, j \in k + 1 .. l : i < j => i + 1 < j + 1
      OBVIOUS
    <3> QED
      BY <1>3, <2>5, <3>1 DEF Shape
  <2>8. k \in Nat /\ k <= l
    BY <1>1, <1>2, <2>1
  <2>9. CASE m > 0
    <3>1. PICK h \in Nat : h + 1 = m /\ h = m - 1 /\ h <= k
      BY <1>1, <2>1, <2>9, m - 1 \in Nat
    <3>2. Shape(r, h, k)
      <4>1. \A i \in 1 .. h : i \in 1 .. l /\ i + 1 \in 1 .. m
        BY <1>1, <1>2, <2>1, <3>1
      <4>2. \A i \in h + 1 .. k : i \in 1 .. l /\ i + 1 \in m + 1 .. n
        BY <1>1, <1>2, <2>1, <3>1
      <4>3. \A i \in 1 .. h : r[i].op \in Tasks /\ r[i].left = Immediate
        BY <1>3, <4>1 DEF Shape
      <4>4. \A i \in h + 1 .. k : r[i].op = NoOp /\ r[i].left = Immediate
        BY <1>3, <4>2 DEF Shape
      <4> QED
        BY <1>3, <2>6, <2>7, <2>8, <3>1, <4>3, <4>4 DEF Shape
    <3>3. Head(s).op \in Tasks
      <4>1. 1 \in 1 .. m
        BY <1>1, <2>9
      <4> QED
        BY <1>3, <4>1 DEF Shape
    <3>4. PICK u : u = TasksOf(s)
      OBVIOUS
    <3>5. u \in Seq(Tasks) /\ Len(u) = m /\ \A i \in 1 .. m : u[i] = s[i].op
      BY <3>4, ViewFacts
    <3>6. Head(u) = Head(s).op /\ u # <<>>
      BY <1>1, <1>3, <2>9, <3>5
    <3>7. PICK v : v = Tail(u)
      OBVIOUS
    <3>8. v \in Seq(Tasks) /\ Len(v) = h /\ \A i \in 1 .. h : v[i] = u[i + 1]
      BY <3>1, <3>5, <3>6, <3>7
    <3>9. /\ TasksOf(r) \in Seq(Tasks) /\ Len(TasksOf(r)) = h
          /\ \A i \in 1 .. h : TasksOf(r)[i] = r[i].op
      BY <3>2, ViewFacts
    <3>10. \A i \in 1 .. h : i \in 1 .. l /\ i + 1 \in 1 .. m
      BY <1>1, <1>2, <2>1, <3>1
    <3>11. \A i \in 1 .. h : TasksOf(r)[i] = v[i]
      BY <1>3, <3>5, <3>8, <3>9, <3>10
    <3>12. TasksOf(r) = v
      BY <3>8, <3>9, <3>11, SeqEqual
    <3>13. DelayedOf(r) = DelayedOf(s)
      BY <2>4, <3>2
    <3> QED
      BY <1>4, <2>1, <2>9, <3>1, <3>2, <3>3, <3>4, <3>6, <3>7, <3>12, <3>13
  <2>10. CASE m = 0
    <3>1. Shape(r, 0, k)
      <4>1. \A i \in m + 1 .. k : i \in 1 .. l /\ i + 1 \in m + 1 .. n
        BY <1>1, <1>2, <2>1, <2>10
      <4>2. \A i \in m + 1 .. k : r[i].op = NoOp /\ r[i].left = Immediate
        BY <1>3, <4>1 DEF Shape
      <4>3. \A i \in 1 .. m : r[i].op \in Tasks /\ r[i].left = Immediate
        BY <2>10
      <4>4. m \in Nat /\ m <= k
        BY <2>8, <2>10
      <4>5. Shape(r, m, k)
        BY <1>3, <2>6, <2>7, <2>8, <4>2, <4>3, <4>4 DEF Shape
      <4> QED
        BY <4>5, <2>10
    <3>2. Head(s).op = NoOp
      <4>1. 1 \in m + 1 .. n
        BY <1>1, <1>4, <2>10
      <4> QED
        BY <1>3, <4>1 DEF Shape
    <3>3. TasksOf(r) = TasksOf(s)
      <4>1. Shape(s, 0, n)
        BY <2>10
      <4> QED
        BY <3>1, <4>1, SameTasks
    <3>4. DelayedOf(r) = DelayedOf(s)
      BY <2>4, <3>1
    <3>5. NoOpTaken(s, n, r)
      BY <2>1, <3>1, <3>3, <3>4 DEF NoOpTaken
    <3> QED
      BY <1>4, <2>10, <3>2, <3>5
  <2> QED
    BY <1>1, <2>9, <2>10
<1>5. CASE n = 0
  <2>1. PICK g : g = RemoveAt(s, 1)
    OBVIOUS
  <2>2. 1 \in 1 .. Len(s) /\ 1 \in n + 1 .. Len(s) /\ 1 - n = 1
    BY <1>2, <1>5
  <2>3. /\ g \in Seq(Entries) /\ Len(g) = Len(s) - 1
        /\ \A i \in 1 .. Len(s) - 1 : g[i] = s[i + 1]
    BY <1>1, <2>1, <2>2, RemoveFacts
  <2>4. g = r
    <3>1. Len(g) = Len(r) /\ \A i \in 1 .. Len(g) : g[i] = r[i]
      BY <1>2, <1>3, <2>3
    <3> QED
      BY <1>3, <2>3, <3>1, SeqEqual
  <2>5. Head(s).op \in Timers /\ Head(s).left \in Nat
    BY <1>3, <2>2 DEF Shape
  <2>7. PICK p \in n + 1 .. Len(s) : p = 1
    BY <2>2
  <2>8. g = RemoveAt(s, p)
    BY <2>1, <2>7
  <2>9. Shape(g, m, n) /\ TasksOf(g) = TasksOf(s) /\ p - n \in 1 .. Len(DelayedOf(s))
    BY <2>8, RemoveTimer
  <2>10. DelayedOf(s)[p - n].timer = s[p].op /\ DelayedOf(s)[p - n].left = s[p].left
    BY <2>8, RemoveTimer
  <2>11. DelayedOf(g) = RemoveAt(DelayedOf(s), p - n)
    BY <2>8, RemoveTimer
  <2>12. p - n = 1
    BY <2>2, <2>7
  <2> QED
    BY <1>1, <1>3, <1>5, <2>4, <2>5, <2>7, <2>9, <2>10, <2>11, <2>12
<1> QED
  BY <1>1, <1>4, <1>5

\* Time passes.
LEMMA TickShape ==
    ASSUME NEW s, NEW m, NEW n, Shape(s, m, n), NEW r,
           r = [i \in DOMAIN s |-> [s[i] EXCEPT !.left = Earlier(@)]]
    PROVE  /\ Shape(r, m, n) /\ Len(r) = Len(s)
           /\ \A i \in 1 .. Len(s) : r[i].op = s[i].op /\ r[i].id = s[i].id
           /\ TasksOf(r) = TasksOf(s)
           /\ DelayedOf(r) = [i \in DOMAIN DelayedOf(s) |->
                [DelayedOf(s)[i] EXCEPT !.left = IF @ = 0 THEN 0 ELSE @ - 1]]
<1>1. PICK l \in Nat : l = Len(s)
  BY DEF Shape
<1>2. s \in Seq(Entries) /\ DOMAIN s = 1 .. l /\ m \in 0 .. n /\ n \in 0 .. l
  BY <1>1 DEF Shape
<1>3. ASSUME NEW i \in 1 .. l
      PROVE  /\ r[i] \in Entries /\ r[i].op = s[i].op /\ r[i].id = s[i].id
             /\ r[i].left = Earlier(s[i].left)
  <2>1. s[i] \in Entries
    BY <1>1, <1>2
  <2>2. Earlier(s[i].left) \in Nat \cup {Immediate}
    BY <2>1 DEF Earlier, Entries, Immediate
  <2>3. r[i] = [s[i] EXCEPT !.left = Earlier(s[i].left)]
    BY <1>2
  <2> QED
    BY <2>1, <2>2, <2>3 DEF Entries
<1>4. r \in Seq(Entries) /\ Len(r) = l
  <2>1. r \in [1 .. l -> Entries]
    BY <1>2, <1>3
  <2> QED
    BY <2>1
<1>5. \A i \in n + 1 .. l : i \in 1 .. l
  BY <1>1, <1>2
<1>6. \A i \in 1 .. n : i \in 1 .. l
  BY <1>1, <1>2
<1>7. \A i \in n + 1 .. l : s[i].op \in Timers /\ s[i].left \in Nat
  BY <1>1 DEF Shape
<1>8. ASSUME NEW i \in n + 1 .. l
      PROVE  r[i].left = IF s[i].left = 0 THEN 0 ELSE s[i].left - 1
  <2>1. r[i].left = Earlier(s[i].left)
    BY <1>3, <1>5
  <2>2. PICK a \in Nat : a = s[i].left
    BY <1>7
  <2> QED
    BY <2>1, <2>2 DEF Earlier
<1>9. Shape(r, m, n)
  <2>1. \A i \in 1 .. m : i \in 1 .. l
    BY <1>1, <1>2
  <2>2. \A i \in m + 1 .. n : i \in 1 .. l
    BY <1>1, <1>2
  <2>3. \A i \in 1 .. m : r[i].op \in Tasks /\ r[i].left = Immediate
    BY <1>3, <2>1 DEF Shape, Earlier, Immediate
  <2>4. \A i \in m + 1 .. n : r[i].op = NoOp /\ r[i].left = Immediate
    BY <1>3, <2>2 DEF Shape, Earlier, Immediate
  <2>5. ASSUME NEW i \in n + 1 .. l PROVE r[i].op \in Timers /\ r[i].left \in Nat
    <3>1. PICK a \in Nat : a = s[i].left
      BY <1>7
    <3>2. r[i].left = IF a = 0 THEN 0 ELSE a - 1
      BY <1>8, <3>1
    <3>3. r[i].op = s[i].op
      BY <1>3, <1>5
    <3> QED
      BY <1>7, <3>2, <3>3
  <2>6. ASSUME NEW i \in n + 1 .. l, NEW j \in n + 1 .. l, i < j
        PROVE  r[i].left <= r[j].left
    <3>1. s[i].left <= s[j].left
      BY <1>1, <2>6 DEF Shape
    <3> QED
      BY <1>7, <1>8, <3>1, SMTT(40)
  <2> QED
    BY <1>1, <1>2, <1>4, <2>3, <2>4, <2>5, <2>6 DEF Shape
<1>10. TasksOf(r) = TasksOf(s)
  <2>1. \A i \in 1 .. m : i \in 1 .. l
    BY <1>1, <1>2
  <2> QED
    BY <1>3, <1>9, <2>1, SameTasks, ZenonT(60)
<1>11. PICK k \in Nat : k = l - n
  BY <1>1, <1>2, l - n \in Nat
<1>12. PICK u : u = DelayedOf(s)
  OBVIOUS
<1>13. /\ u \in Seq(Timed) /\ Len(u) = k /\ DOMAIN u = 1 .. k
       /\ \A i \in 1 .. k : u[i] = [timer |-> s[n + i].op, left |-> s[n + i].left]
  BY <1>1, <1>11, <1>12, ViewFacts
<1>14. /\ DelayedOf(r) \in Seq(Timed) /\ Len(DelayedOf(r)) = k
       /\ \A i \in 1 .. k : DelayedOf(r)[i] = [timer |-> r[n + i].op, left |-> r[n + i].left]
  <2>1. Len(r) - n = k
    BY <1>4, <1>11
  <2>2. PICK z : z = r
    OBVIOUS
  <2>3. Shape(z, m, n) /\ Len(z) - n = k
    BY <1>9, <2>1, <2>2
  <2>4. /\ DelayedOf(z) \in Seq(Timed) /\ Len(DelayedOf(z)) = k
        /\ \A i \in 1 .. k : DelayedOf(z)[i] = [timer |-> z[n + i].op, left |-> z[n + i].left]
    BY <2>3, ViewFacts
  <2> QED
    BY <2>2, <2>4, ZenonT(60)
<1>15. PICK v : v = [i \in DOMAIN u |-> [u[i] EXCEPT !.left = IF @ = 0 THEN 0 ELSE @ - 1]]
  OBVIOUS
<1>16. ASSUME NEW i \in 1 .. k
       PROVE  v[i] \in Timed /\ v[i] = DelayedOf(r)[i]
  <2>1. n + i \in n + 1 .. l
    BY <1>1, <1>2, <1>11
  <2>2. PICK a \in Nat : a = s[n + i].left
    BY <1>7, <2>1
  <2>3. PICK t \in Timers : t = s[n + i].op
    BY <1>7, <2>1
  <2>4. u[i] = [timer |-> t, left |-> a]
    BY <1>13, <2>2, <2>3
  <2>5. v[i] = [timer |-> t, left |-> IF a = 0 THEN 0 ELSE a - 1]
    BY <1>13, <1>15, <2>4
  <2>6. r[n + i].op = t /\ r[n + i].left = IF a = 0 THEN 0 ELSE a - 1
    BY <1>3, <1>5, <1>8, <2>1, <2>2, <2>3
  <2>7. v[i] \in Timed
    BY <2>5 DEF Timed
  <2> QED
    BY <1>14, <2>5, <2>6, <2>7
<1>17. v \in Seq(Timed) /\ Len(v) = k
  <2>1. v \in [1 .. k -> Timed]
    BY <1>13, <1>15, <1>16
  <2> QED
    BY <2>1
<1>18. DelayedOf(r) = v
  BY <1>14, <1>16, <1>17, SeqEqual
<1> QED
  BY <1>1, <1>3, <1>4, <1>9, <1>10, <1>12, <1>15, <1>18

-----------------------------------------------------------------------------
(* Ids and handles.                                                        *)

LEMMA EntryIds ==
    ASSUME NEW s \in Seq(Entries)
    PROVE  \A i \in 1 .. Len(s) : s[i].id \in Nat
<1> SUFFICES ASSUME NEW i \in 1 .. Len(s) PROVE s[i].id \in Nat
  OBVIOUS
<1>1. s[i] \in Entries
  BY ElementOfSeq
<1> QED
  BY <1>1 DEF Entries

\* A new entry keeps them in order if the schedule and the entry do by themselves.
LEMMA InsertIds ==
    ASSUME NEW s \in Seq(Entries), NEW c \in Nat, NEW h, IdsOK(s, c, h),
           NEW e \in Entries, NEW p \in 1 .. Len(s) + 1, NEW r, r = InsertAt(s, p, e),
           e.id < c \/ (e.op = NoOp /\ e.id = 0),
           e.op \in Timers => h[e.op] = e.id,
           \A t \in Timers : e.id = h[t] => e.op = t,
           e.op \in Timers => \A i \in 1 .. Len(s) : s[i].op # e.op
    PROVE  IdsOK(r, c, h)
<1>1. PICK l \in Nat : l = Len(s)
  OBVIOUS
<1>2. r \in Seq(Entries) /\ Inserted(r, s, p, e)
  BY InsertFacts
<1>3. /\ Len(r) = l + 1 /\ r[p] = e
      /\ \A i \in 1 .. p - 1 : r[i] = s[i]
      /\ \A i \in p + 1 .. l + 1 : r[i] = s[i - 1]
  BY <1>1, <1>2 DEF Inserted
<1>4. ASSUME NEW i \in 1 .. l + 1, i # p
      PROVE  \E j \in 1 .. l : r[i] = s[j] /\ j = IF i < p THEN i ELSE i - 1
  <2>1. PICK j : j = IF i < p THEN i ELSE i - 1
    OBVIOUS
  <2>2. j \in 1 .. l /\ (i < p => i \in 1 .. p - 1) /\ (~(i < p) => i \in p + 1 .. l + 1)
    BY <1>1, <1>4, <2>1
  <2>3. r[i] = s[j]
    BY <1>3, <2>1, <2>2
  <2> QED
    BY <2>1, <2>2, <2>3
<1>5. \A i \in 1 .. l + 1 : r[i].id < c \/ (r[i].op = NoOp /\ r[i].id = 0)
  BY <1>1, <1>3, <1>4 DEF IdsOK
<1>6. \A i \in 1 .. l + 1 : r[i].op \in Timers => h[r[i].op] = r[i].id
  BY <1>1, <1>3, <1>4 DEF IdsOK
<1>7. \A i \in 1 .. l + 1 : \A t \in Timers : r[i].id = h[t] => r[i].op = t
  BY <1>1, <1>3, <1>4 DEF IdsOK
<1>8. ASSUME NEW i \in 1 .. l + 1, NEW j \in 1 .. l + 1, r[i].op \in Timers, r[i].op = r[j].op
      PROVE  i = j
  <2>1. CASE i = p /\ j # p
    BY <1>1, <1>3, <1>4, <1>8, <2>1
  <2>2. CASE i # p /\ j = p
    BY <1>1, <1>3, <1>4, <1>8, <2>2
  <2>3. CASE i # p /\ j # p
    <3>1. PICK a \in 1 .. l : r[i] = s[a] /\ a = IF i < p THEN i ELSE i - 1
      BY <1>4, <2>3
    <3>2. PICK b \in 1 .. l : r[j] = s[b] /\ b = IF j < p THEN j ELSE j - 1
      BY <1>4, <2>3
    <3>3. a = b
      BY <1>1, <1>8, <3>1, <3>2 DEF IdsOK
    <3> QED
      BY <2>3, <3>1, <3>2, <3>3
  <2> QED
    BY <2>1, <2>2, <2>3
<1> QED
  BY <1>3, <1>5, <1>6, <1>7, <1>8 DEF IdsOK

LEMMA RemoveIds ==
    ASSUME NEW s \in Seq(Entries), NEW c, NEW h, IdsOK(s, c, h),
           NEW k \in 1 .. Len(s), NEW r, r = RemoveAt(s, k)
    PROVE  /\ IdsOK(r, c, h)
           /\ s[k].op \in Timers => \A i \in 1 .. Len(r) : r[i].op # s[k].op
<1>1. PICK l \in Nat : l = Len(s)
  OBVIOUS
<1>2. /\ r \in Seq(Entries) /\ Len(r) = l - 1
      /\ \A i \in 1 .. k - 1 : r[i] = s[i]
      /\ \A i \in k .. l - 1 : r[i] = s[i + 1]
  BY <1>1, RemoveFacts
<1>3. ASSUME NEW i \in 1 .. l - 1
      PROVE  \E j \in 1 .. l : r[i] = s[j] /\ j = IF i < k THEN i ELSE i + 1
  <2>1. PICK j : j = IF i < k THEN i ELSE i + 1
    OBVIOUS
  <2>2. j \in 1 .. l /\ (i < k => i \in 1 .. k - 1) /\ (~(i < k) => i \in k .. l - 1)
    BY <1>1, <1>3, <2>1
  <2>3. r[i] = s[j]
    BY <1>2, <2>1, <2>2
  <2> QED
    BY <2>1, <2>2, <2>3
<1>4. \A i \in 1 .. l - 1 : r[i].id < c \/ (r[i].op = NoOp /\ r[i].id = 0)
  BY <1>1, <1>3 DEF IdsOK
<1>5. \A i \in 1 .. l - 1 : r[i].op \in Timers => h[r[i].op] = r[i].id
  BY <1>1, <1>3 DEF IdsOK
<1>6. \A i \in 1 .. l - 1 : \A t \in Timers : r[i].id = h[t] => r[i].op = t
  BY <1>1, <1>3 DEF IdsOK
<1>7. ASSUME NEW i \in 1 .. l - 1, NEW j \in 1 .. l - 1, r[i].op \in Timers, r[i].op = r[j].op
      PROVE  i = j
  <2>1. PICK a \in 1 .. l : r[i] = s[a] /\ a = IF i < k THEN i ELSE i + 1
    BY <1>3
  <2>2. PICK b \in 1 .. l : r[j] = s[b] /\ b = IF j < k THEN j ELSE j + 1
    BY <1>3
  <2>3. a = b
    BY <1>1, <1>7, <2>1, <2>2 DEF IdsOK
  <2> QED
    BY <2>1, <2>2, <2>3
<1>8. ASSUME NEW i \in 1 .. l - 1, s[k].op \in Timers, r[i].op = s[k].op PROVE FALSE
  <2>1. PICK a \in 1 .. l : r[i] = s[a] /\ a = IF i < k THEN i ELSE i + 1
    BY <1>3
  <2>2. a = k
    BY <1>1, <1>8, <2>1 DEF IdsOK
  <2> QED
    BY <2>1, <2>2
<1> QED
  BY <1>2, <1>4, <1>5, <1>6, <1>7, <1>8 DEF IdsOK

LEMMA TailIds ==
    ASSUME NEW s \in Seq(Entries), s # <<>>, NEW c, NEW h, IdsOK(s, c, h)
    PROVE  IdsOK(Tail(s), c, h)
<1>1. PICK l \in Nat : l + 1 = Len(s)
  BY Len(s) - 1 \in Nat
<1>2. PICK r : r = Tail(s)
  OBVIOUS
<1>3. Len(r) = l /\ \A i \in 1 .. l : r[i] = s[i + 1] /\ i + 1 \in 1 .. l + 1
  BY <1>1, <1>2
<1>4. \A i, j \in 1 .. l : i + 1 = j + 1 => i = j
  OBVIOUS
<1>5. \A i \in 1 .. l : r[i].id < c \/ (r[i].op = NoOp /\ r[i].id = 0)
  BY <1>1, <1>3 DEF IdsOK
<1>6. \A i \in 1 .. l : r[i].op \in Timers => h[r[i].op] = r[i].id
  BY <1>1, <1>3 DEF IdsOK
<1>7. \A i \in 1 .. l : \A t \in Timers : r[i].id = h[t] => r[i].op = t
  BY <1>1, <1>3 DEF IdsOK
<1>8. ASSUME NEW i \in 1 .. l, NEW j \in 1 .. l, r[i].op \in Timers, r[i].op = r[j].op
      PROVE  i = j
  <2>1. r[i] = s[i + 1] /\ r[j] = s[j + 1]
    BY <1>3
  <2>2. i + 1 \in 1 .. Len(s) /\ j + 1 \in 1 .. Len(s)
    BY <1>1, <1>3
  <2>3. i + 1 = j + 1
    BY <1>8, <2>1, <2>2 DEF IdsOK
  <2> QED
    BY <1>4, <2>3
<1> QED
  BY <1>2, <1>3, <1>5, <1>6, <1>7, <1>8 DEF IdsOK

\* A handle that is emptied or overwritten, when its timer is not on the schedule.
LEMMA HandleIds ==
    ASSUME NEW s \in Seq(Entries), NEW c \in Nat, NEW h \in Handles(c), IdsOK(s, c, h),
           NEW t \in Timers, \A i \in 1 .. Len(s) : s[i].op # t
    PROVE  /\ IdsOK(s, c, [h EXCEPT ![t] = None])
           /\ [h EXCEPT ![t] = None] \in Handles(c)
           /\ c > 0 => IdsOK(s, c + 1, [h EXCEPT ![t] = c])
           /\ c > 0 => [h EXCEPT ![t] = c] \in Handles(c + 1)
<1>1. None \notin Nat
  BY ExecutorStdAssumption
<1>2. \A i \in 1 .. Len(s) : s[i].id \in Nat
  BY EntryIds
<1>3. ASSUME NEW v, \A i \in 1 .. Len(s) : s[i].id # v, NEW d \in {c, c + 1}
      PROVE  IdsOK(s, d, [h EXCEPT ![t] = v])
  <2>1. PICK g : g = [h EXCEPT ![t] = v]
    OBVIOUS
  <2>2. g[t] = v /\ \A u \in Timers \ {t} : g[u] = h[u]
    BY <2>1 DEF Handles
  <2>3. \A i \in 1 .. Len(s) : s[i].id < d \/ (s[i].op = NoOp /\ s[i].id = 0)
    BY <1>2 DEF IdsOK
  <2>4. \A i \in 1 .. Len(s) : s[i].op \in Timers => g[s[i].op] = s[i].id
    BY <2>2 DEF IdsOK
  <2>5. \A i \in 1 .. Len(s) : \A u \in Timers : s[i].id = g[u] => s[i].op = u
    BY <1>3, <2>2 DEF IdsOK
  <2> QED
    BY <2>1, <2>3, <2>4, <2>5 DEF IdsOK
<1>4. IdsOK(s, c, [h EXCEPT ![t] = None])
  BY <1>1, <1>2, <1>3
<1>5. c > 0 => IdsOK(s, c + 1, [h EXCEPT ![t] = c])
  <2>1. c > 0 => \A i \in 1 .. Len(s) : s[i].id # c
    BY <1>2 DEF IdsOK
  <2> QED
    BY <1>3, <2>1
<1>6. [h EXCEPT ![t] = None] \in Handles(c)
  BY DEF Handles
<1>7. c > 0 => [h EXCEPT ![t] = c] \in Handles(c + 1)
  BY DEF Handles
<1> QED
  BY <1>4, <1>5, <1>6, <1>7

\* TryCancel takes the timer that the handle is of off the schedule, and nothing else.
LEMMA CancelFacts ==
    ASSUME NEW s, NEW m, NEW n, Shape(s, m, n), NEW c \in Nat, NEW h \in Handles(c),
           IdsOK(s, c, h), NEW t \in Timers, h[t] # None, NEW r, r = TryCancel(s, h[t])
    PROVE  /\ Shape(r, m, n) /\ IdsOK(r, c, h)
           /\ \A i \in 1 .. Len(r) : r[i].op # t
           /\ TasksOf(r) = TasksOf(s)
           /\ \/ r = s
              \/ \E k \in 1 .. Len(DelayedOf(s)) :
                    /\ DelayedOf(s)[k].timer = t
                    /\ DelayedOf(r) = RemoveAt(DelayedOf(s), k)
<1>1. PICK l \in Nat : l = Len(s)
  BY DEF Shape
<1>2. s \in Seq(Entries) /\ DOMAIN s = 1 .. l /\ n \in 0 .. l
  BY <1>1 DEF Shape
<1>3. PICK id : id = h[t]
  OBVIOUS
<1>4. CASE \E i \in 1 .. l : s[i].id = id
  <2>1. PICK p \in 1 .. l : s[p].id = id
    BY <1>4
  <2>2. s[p].op = t
    BY <1>1, <1>3, <2>1 DEF IdsOK
  <2>3. \A j \in 1 .. l : s[j].id = id => j = p
    BY <1>1, <1>3, <2>2 DEF IdsOK
  <2>4. PICK q : q = CHOOSE i \in DOMAIN s : s[i].id = id /\ \A j \in 1 .. i - 1 : s[j].id # id
    OBVIOUS
  <2>5. \A j \in 1 .. p - 1 : s[j].id # id
    <3>1. \A j \in 1 .. p - 1 : j \in 1 .. l /\ j # p
      BY <1>1
    <3> QED
      BY <2>3, <3>1
  <2>6. q = p
    <3>1. \E i \in DOMAIN s : s[i].id = id /\ \A j \in 1 .. i - 1 : s[j].id # id
      BY <1>2, <2>1, <2>5
    <3>2. q \in 1 .. l /\ s[q].id = id
      BY <1>2, <2>4, <3>1
    <3> QED
      BY <2>3, <3>2
  <2>7. r = RemoveAt(s, p)
    BY <1>2, <1>3, <1>4, <2>4, <2>6 DEF TryCancel
  <2>8. p \in n + 1 .. Len(s)
    <3>1. t \notin Tasks /\ t # NoOp
      BY ExecutorStdAssumption DEF NoOp
    <3>2. ~(p <= n)
      <4>1. p <= n => p \in 1 .. m \/ p \in m + 1 .. n
        BY DEF Shape
      <4> QED
        BY <2>2, <3>1, <4>1 DEF Shape
    <3> QED
      BY <1>1, <1>2, <3>2
  <2>9. PICK g : g = RemoveAt(s, p)
    OBVIOUS
  <2>10. Shape(g, m, n) /\ TasksOf(g) = TasksOf(s) /\ p - n \in 1 .. Len(DelayedOf(s))
    BY <2>8, <2>9, RemoveTimer
  <2>11. DelayedOf(s)[p - n].timer = s[p].op
    BY <2>8, <2>9, RemoveTimer
  <2>12. DelayedOf(g) = RemoveAt(DelayedOf(s), p - n)
    BY <2>8, <2>9, RemoveTimer
  <2>13. p \in 1 .. Len(s)
    BY <1>1
  <2>14. IdsOK(g, c, h) /\ (s[p].op \in Timers => \A i \in 1 .. Len(g) : g[i].op # s[p].op)
    BY <1>2, <2>9, <2>13, RemoveIds
  <2>15. g = r
    BY <2>7, <2>9
  <2> QED
    BY <2>2, <2>10, <2>11, <2>12, <2>14, <2>15
<1>5. CASE ~\E i \in 1 .. l : s[i].id = id
  <2>1. r = s
    BY <1>2, <1>3, <1>5 DEF TryCancel
  <2>2. \A i \in 1 .. l : s[i].op # t
    BY <1>1, <1>3, <1>5 DEF IdsOK
  <2> QED
    BY <1>1, <2>1, <2>2
<1> QED
  BY <1>4, <1>5

-----------------------------------------------------------------------------
(* Every step keeps the invariant and is a step of Executor or none of it. *)

AbstractStep == [Promise!Next]_(Promise!vars)

LEMMA EnqueueStep ==
    ASSUME ScheduleInv, NEW x \in Tasks, Enqueue(x)
    PROVE  ScheduleInv' /\ AbstractStep
<1>1. PICK s : s = scheduled
  OBVIOUS
<1>2. PICK r : r = scheduled'
  OBVIOUS
<1>3. PICK c \in Nat : c = currentId
  BY DEF ScheduleInv
<1>4. /\ r = InsertPreservingOrder(s, Entry(x, c, Immediate)) /\ currentId' = c + 1
      /\ ~shuttingDown
      /\ UNCHANGED <<handle, worker, running, inProgress, shuttingDown, unblocked>>
  BY <1>1, <1>2, <1>3 DEF Enqueue, NextId
<1>5. PICK m \in Nat : Shape(s, m, m)
  <2>1. PICK m \in Nat, n \in Nat : Shape(s, m, n) /\ (m < n => unblocked)
    BY <1>1 DEF ScheduleInv
  <2>2. m = n
    BY <1>4, <2>1 DEF ScheduleInv, Shape
  <2> QED
    BY <2>1, <2>2
<1>6. /\ Shape(r, m + 1, m + 1)
      /\ r = InsertAt(s, m + 1, Entry(x, c, Immediate))
      /\ TasksOf(r) = Append(TasksOf(s), x)
      /\ DelayedOf(r) = DelayedOf(s)
  BY <1>4, <1>5, InsertTask, ZenonT(60)
<1>7. handle \in Handles(c) /\ handle \in Handles(c + 1)
  BY <1>3 DEF ScheduleInv, Handles
<1>8. PICK e : e = Entry(x, c, Immediate)
  OBVIOUS
<1>9. e \in Entries /\ e.op = x /\ e.id = c
  BY <1>8 DEF Entry, Entries
<1>10. x \notin Timers
  BY ExecutorStdAssumption
<1>11. IdsOK(s, c + 1, handle)
  <2>1. IdsOK(s, c, handle) /\ s \in Seq(Entries)
    BY <1>1, <1>3, <1>5 DEF ScheduleInv, Shape
  <2>2. \A i \in 1 .. Len(s) : s[i].id \in Nat
    BY <2>1, EntryIds
  <2>3. \A i \in 1 .. Len(s) : s[i].id < c + 1 \/ (s[i].op = NoOp /\ s[i].id = 0)
    BY <2>1, <2>2 DEF IdsOK
  <2> QED
    BY <2>1, <2>3 DEF IdsOK
<1>12. IdsOK(r, c + 1, handle)
  <2>1. s \in Seq(Entries) /\ m + 1 \in 1 .. Len(s) + 1 /\ c + 1 \in Nat
    BY <1>5 DEF Shape
  <2>2. r = InsertAt(s, m + 1, e)
    BY <1>6, <1>8
  <2>3. \A t \in Timers : e.id # handle[t]
    BY <1>7, <1>9, ExecutorStdAssumption DEF Handles
  <2>4. e.id < c + 1
    BY <1>9
  <2> QED
    BY <1>9, <1>10, <1>11, <2>1, <2>2, <2>3, <2>4, InsertIds
<1>13. ThreadOK'
  BY <1>3, <1>4 DEF ScheduleInv, ThreadOK
<1>14. ScheduleInv'
  <2>1. m + 1 \in Nat /\ ~(m + 1 < m + 1)
    OBVIOUS
  <2>2. \E a, b \in Nat : Shape(scheduled', a, b) /\ (a < b => unblocked')
    BY <1>2, <1>6, <2>1
  <2> QED
    BY <1>2, <1>4, <1>7, <1>12, <1>13, <2>2 DEF ScheduleInv
<1>15. Promise!Execute(x)
  BY <1>1, <1>2, <1>4, <1>6 DEF Promise!Execute
<1>16. AbstractStep
  BY <1>15 DEF AbstractStep, Promise!Next
<1> QED
  BY <1>14, <1>16

\* A timer that is scheduled, after the owner's handle was cancelled if it had one.
LEMMA EnqueueAfterDelayStep ==
    ASSUME ScheduleInv, NEW t \in Timers, NEW delay \in Delays, EnqueueAfterDelay(t, delay)
    PROVE  ScheduleInv' /\ AbstractStep
<1>1. PICK s : s = scheduled
  OBVIOUS
<1>2. PICK r : r = scheduled'
  OBVIOUS
<1>3. PICK c \in Nat : c = currentId
  BY DEF ScheduleInv
<1>4. PICK h : h = handle
  OBVIOUS
<1>5. PICK u : u = IF h[t] = None THEN s ELSE TryCancel(s, h[t])
  OBVIOUS
<1>6. PICK p : p = InsertionPoint(u, delay)
  OBVIOUS
<1>7. PICK e : e = Entry(t, c, delay)
  OBVIOUS
<1>8. delay \in Nat /\ None \notin Nat /\ None \notin Timers /\ t \notin Tasks
  BY ExecutorStdAssumption
<1>9. e \in Entries /\ e.op = t /\ e.id = c /\ e.left = delay
  BY <1>7, <1>8 DEF Entry, Entries
<1>10. /\ r = InsertAt(u, p, e) /\ currentId' = c + 1 /\ handle' = [h EXCEPT ![t] = c]
       /\ inProgress
       /\ UNCHANGED <<worker, running, inProgress, shuttingDown, unblocked>>
  BY <1>1, <1>2, <1>3, <1>4, <1>5, <1>6, <1>7, <1>9
     DEF EnqueueAfterDelay, NextId, InsertPreservingOrder
<1>11. c > 0 /\ running # None
  BY <1>3, <1>10 DEF ScheduleInv, ThreadOK
<1>12. PICK m \in Nat, n \in Nat : Shape(s, m, n) /\ (m < n => unblocked)
  BY <1>1 DEF ScheduleInv
<1>13. h \in Handles(c) /\ IdsOK(s, c, h)
  BY <1>1, <1>3, <1>4 DEF ScheduleInv
<1>14. /\ Shape(u, m, n) /\ IdsOK(u, c, h)
       /\ \A i \in 1 .. Len(u) : u[i].op # t
       /\ TasksOf(u) = TasksOf(s)
       /\ \/ u = s
          \/ \E k \in 1 .. Len(DelayedOf(s)) :
                /\ DelayedOf(s)[k].timer = t
                /\ DelayedOf(u) = RemoveAt(DelayedOf(s), k)
  <2>1. CASE h[t] = None
    <3>1. u = s
      BY <1>5, <2>1
    <3>2. s \in Seq(Entries)
      BY <1>12 DEF Shape
    <3>3. \A i \in 1 .. Len(s) : s[i].op # t
      BY <1>8, <1>13, <2>1, <3>2, EntryIds DEF IdsOK
    <3> QED
      BY <1>12, <1>13, <3>1, <3>3
  <2>2. CASE h[t] # None
    <3>1. u = TryCancel(s, h[t])
      BY <1>5, <2>2
    <3>2. Shape(u, m, n) /\ IdsOK(u, c, h) /\ TasksOf(u) = TasksOf(s)
      BY <1>12, <1>13, <2>2, <3>1, CancelFacts
    <3>3. \A i \in 1 .. Len(u) : u[i].op # t
      BY <1>12, <1>13, <2>2, <3>1, CancelFacts
    <3>4. \/ u = s
          \/ \E k \in 1 .. Len(DelayedOf(s)) :
                /\ DelayedOf(s)[k].timer = t
                /\ DelayedOf(u) = RemoveAt(DelayedOf(s), k)
      BY <1>12, <1>13, <2>2, <3>1, CancelFacts
    <3> QED
      BY <3>2, <3>3, <3>4
  <2> QED
    BY <2>1, <2>2
<1>15. Shape(u, m, n)
  BY <1>14
<1>16. r = InsertAt(u, p, Entry(t, c, delay))
  BY <1>7, <1>10
<1>17. TimerAdded(r, u, m, n, p - n, t, delay)
  <2>1. PICK z : z = InsertAt(u, p, Entry(t, c, delay))
    OBVIOUS
  <2>2. TimerAdded(z, u, m, n, p - n, t, delay)
    BY <1>6, <1>8, <1>15, <2>1, InsertTimer
  <2> QED
    BY <1>16, <2>1, <2>2
<1>18. PICK q : q = p - n
  OBVIOUS
<1>19. PICK D : D = DelayedOf(u)
  OBVIOUS
<1>20. /\ Shape(r, m, n) /\ TasksOf(r) = TasksOf(u)
       /\ q \in 1 .. Len(D) + 1
       /\ \A j \in 1 .. q - 1 : D[j].left <= delay
       /\ \A j \in q .. Len(D) : D[j].left > delay
  BY <1>17, <1>18, <1>19 DEF TimerAdded
<1>21. DelayedOf(r) = InsertAt(D, q, [timer |-> t, left |-> delay])
  BY <1>17, <1>18, <1>19 DEF TimerAdded
<1>22. PICK g : g = [h EXCEPT ![t] = c]
  OBVIOUS
<1>23. u \in Seq(Entries)
  BY <1>15 DEF Shape
<1>24. IdsOK(u, c + 1, g) /\ g \in Handles(c + 1)
  BY <1>11, <1>13, <1>14, <1>22, <1>23, HandleIds
<1>25. IdsOK(r, c + 1, g)
  <2>1. p \in 1 .. Len(u) + 1
    <3>1. p \in n + 1 .. Len(u) + 1
      BY <1>6, <1>8, <1>15, TimerPoint
    <3> QED
      BY <3>1
  <2>2. g[t] = c /\ \A v \in Timers \ {t} : g[v] # c
    BY <1>8, <1>13, <1>22 DEF Handles
  <2>3. c + 1 \in Nat /\ c < c + 1
    OBVIOUS
  <2>4. \A v \in Timers : e.id = g[v] => e.op = v
    BY <1>9, <2>2
  <2>5. e.op \in Timers => g[e.op] = e.id
    BY <1>9, <2>2
  <2>6. e.op \in Timers => \A i \in 1 .. Len(u) : u[i].op # e.op
    BY <1>9, <1>14
  <2> QED
    BY <1>9, <1>10, <1>23, <1>24, <2>1, <2>3, <2>4, <2>5, <2>6, InsertIds
<1>26. ThreadOK'
  BY <1>3, <1>10 DEF ScheduleInv, ThreadOK
<1>27. ScheduleInv'
  <2>1. \E a, b \in Nat : Shape(scheduled', a, b) /\ (a < b => unblocked')
    BY <1>2, <1>10, <1>12, <1>20
  <2> QED
    BY <1>2, <1>10, <1>22, <1>24, <1>25, <1>26, <2>1 DEF ScheduleInv
<1>28. UNCHANGED <<TasksOf(scheduled), running>>
  BY <1>1, <1>2, <1>10, <1>14, <1>20
<1>29. CASE u = s
  <2>1. D = DelayedOf(scheduled)
    BY <1>1, <1>19, <1>29
  <2>2. ~Promise!IsScheduled(t)
    <3>1. \A i \in 1 .. Len(u) - n : n + i \in 1 .. Len(u)
      BY <1>15 DEF Shape
    <3>2. /\ D \in Seq(Timed) /\ Len(D) = Len(u) - n
          /\ \A i \in 1 .. Len(u) - n : D[i] = [timer |-> u[n + i].op, left |-> u[n + i].left]
      BY <1>15, <1>19, ViewFacts
    <3>3. DOMAIN D = 1 .. Len(D)
      BY <3>2
    <3>4. ASSUME NEW i \in 1 .. Len(u) - n PROVE D[i].timer = u[n + i].op
      <4>1. D[i] = [timer |-> u[n + i].op, left |-> u[n + i].left]
        BY <3>2
      <4> QED
        BY <4>1
    <3>5. \A i \in DOMAIN D : D[i].timer # t
      BY <1>14, <3>1, <3>2, <3>3, <3>4
    <3> QED
      BY <2>1, <3>5 DEF Promise!IsScheduled
  <2>3. Promise!Schedule(t, delay)
    <3>1. DelayedOf(scheduled)' = Promise!Insert(D, q, [timer |-> t, left |-> delay])
      BY <1>2, <1>21 DEF Promise!Insert, InsertAt
    <3> QED
      BY <1>11, <1>20, <1>28, <2>1, <2>2, <3>1 DEF Promise!Schedule
  <2> QED
    BY <1>27, <2>3 DEF AbstractStep, Promise!Next
<1>30. CASE \E k \in 1 .. Len(DelayedOf(s)) :
                /\ DelayedOf(s)[k].timer = t
                /\ DelayedOf(u) = RemoveAt(DelayedOf(s), k)
  <2>1. PICK E : E = DelayedOf(s)
    OBVIOUS
  <2>2. PICK k \in 1 .. Len(E) : E[k].timer = t /\ D = RemoveAt(E, k)
    BY <1>19, <1>30, <2>1
  <2>3. E = DelayedOf(scheduled) /\ DOMAIN E = 1 .. Len(E)
    BY <1>1, <1>12, <2>1, ViewFacts
  <2>4. Promise!Reschedule(t, delay)
    <3>1. DelayedOf(scheduled)' = Promise!Insert(D, q, [timer |-> t, left |-> delay])
      BY <1>2, <1>21 DEF Promise!Insert, InsertAt
    <3>2. D = Promise!Delete(E, k)
      BY <2>2 DEF Promise!Delete, RemoveAt
    <3>3. \E i \in 1 .. Len(Promise!Delete(E, k)) + 1 :
            /\ \A j \in 1 .. i - 1 : Promise!Delete(E, k)[j].left <= delay
            /\ \A j \in i .. Len(Promise!Delete(E, k)) : Promise!Delete(E, k)[j].left > delay
            /\ DelayedOf(scheduled)' =
                Promise!Insert(Promise!Delete(E, k), i, [timer |-> t, left |-> delay])
      BY <1>20, <3>1, <3>2
    <3>4. \E i \in DOMAIN DelayedOf(scheduled) :
            /\ DelayedOf(scheduled)[i].timer = t
            /\ LET rest == Promise!Delete(DelayedOf(scheduled), i) IN
                \E a \in 1 .. Len(rest) + 1 :
                    /\ \A j \in 1 .. a - 1 : rest[j].left <= delay
                    /\ \A j \in a .. Len(rest) : rest[j].left > delay
                    /\ DelayedOf(scheduled)' =
                        Promise!Insert(rest, a, [timer |-> t, left |-> delay])
      BY <2>2, <2>3, <3>3
    <3> QED
      BY <1>11, <1>28, <3>4 DEF Promise!Reschedule
  <2> QED
    BY <1>27, <2>4 DEF AbstractStep, Promise!Next
<1> QED
  BY <1>14, <1>29, <1>30

LEMMA CancelStep ==
    ASSUME ScheduleInv, NEW t \in Timers, Cancel(t)
    PROVE  ScheduleInv' /\ AbstractStep
<1>1. PICK s : s = scheduled
  OBVIOUS
<1>2. PICK c \in Nat : c = currentId
  BY DEF ScheduleInv
<1>3. PICK h : h = handle
  OBVIOUS
<1>4. PICK r : r = TryCancel(s, h[t])
  OBVIOUS
<1>5. /\ scheduled' = r /\ handle' = [h EXCEPT ![t] = None] /\ h[t] # None /\ inProgress
      /\ UNCHANGED <<currentId, worker, running, inProgress, shuttingDown, unblocked>>
  BY <1>1, <1>3, <1>4 DEF Cancel
<1>6. PICK m \in Nat, n \in Nat : Shape(s, m, n) /\ (m < n => unblocked)
  BY <1>1 DEF ScheduleInv
<1>7. h \in Handles(c) /\ IdsOK(s, c, h)
  BY <1>1, <1>2, <1>3 DEF ScheduleInv
<1>8. Shape(r, m, n) /\ IdsOK(r, c, h) /\ TasksOf(r) = TasksOf(s)
  BY <1>4, <1>5, <1>6, <1>7, CancelFacts
<1>9. \A i \in 1 .. Len(r) : r[i].op # t
  <2>1. PICK z : z = r
    OBVIOUS
  <2>2. h[t] # None /\ z = TryCancel(s, h[t]) /\ Shape(s, m, n)
    BY <1>4, <1>5, <1>6, <2>1
  <2>3. \A i \in 1 .. Len(z) : z[i].op # t
    BY <1>7, <2>2, CancelFacts
  <2> QED
    BY <2>1, <2>3
<1>10. \/ r = s
       \/ \E k \in 1 .. Len(DelayedOf(s)) :
            /\ DelayedOf(s)[k].timer = t
            /\ DelayedOf(r) = RemoveAt(DelayedOf(s), k)
  BY <1>4, <1>5, <1>6, <1>7, CancelFacts
<1>11. r \in Seq(Entries)
  BY <1>8 DEF Shape
<1>12. PICK g : g = [h EXCEPT ![t] = None]
  OBVIOUS
<1>13. IdsOK(r, c, g) /\ g \in Handles(c)
  BY <1>7, <1>8, <1>9, <1>11, <1>12, HandleIds
<1>14. ThreadOK'
  BY <1>5 DEF ScheduleInv, ThreadOK
<1>15. ScheduleInv'
  <2>1. \E a, b \in Nat : Shape(scheduled', a, b) /\ (a < b => unblocked')
    BY <1>5, <1>6, <1>8
  <2> QED
    BY <1>2, <1>5, <1>12, <1>13, <1>14, <2>1 DEF ScheduleInv
<1>16. running # None
  BY <1>5 DEF ScheduleInv, ThreadOK
<1>17. UNCHANGED <<TasksOf(scheduled), running>>
  BY <1>1, <1>5, <1>8
<1>18. CASE r = s
  <2>1. UNCHANGED DelayedOf(scheduled)
    BY <1>1, <1>5, <1>18
  <2> QED
    BY <1>15, <1>17, <2>1 DEF AbstractStep, Promise!vars
<1>19. CASE \E k \in 1 .. Len(DelayedOf(s)) :
            /\ DelayedOf(s)[k].timer = t
            /\ DelayedOf(r) = RemoveAt(DelayedOf(s), k)
  <2>1. PICK E : E = DelayedOf(s)
    OBVIOUS
  <2>2. PICK k \in 1 .. Len(E) : E[k].timer = t /\ DelayedOf(r) = RemoveAt(E, k)
    BY <1>19, <2>1
  <2>3. E = DelayedOf(scheduled) /\ DOMAIN E = 1 .. Len(E)
    BY <1>1, <1>6, <2>1, ViewFacts
  <2>4. DelayedOf(scheduled)' = Promise!Delete(E, k)
    BY <1>5, <2>2 DEF Promise!Delete, RemoveAt
  <2>5. Promise!Cancel(t)
    BY <1>16, <1>17, <2>2, <2>3, <2>4 DEF Promise!Cancel
  <2> QED
    BY <1>15, <2>5 DEF AbstractStep, Promise!Next
<1> QED
  BY <1>10, <1>18, <1>19

LEMMA ForgetHandleStep ==
    ASSUME ScheduleInv, NEW t \in Timers, ForgetHandle(t)
    PROVE  ScheduleInv' /\ AbstractStep
<1>1. PICK c \in Nat : c = currentId
  BY DEF ScheduleInv
<1>2. PICK h : h = handle
  OBVIOUS
<1>3. PICK s : s = scheduled
  OBVIOUS
<1>4. /\ handle' = [h EXCEPT ![t] = None]
      /\ ~\E i \in DOMAIN s : s[i].id = h[t]
      /\ UNCHANGED <<scheduled, currentId, worker, running, inProgress, shuttingDown, unblocked>>
  BY <1>2, <1>3 DEF ForgetHandle
<1>5. s \in Seq(Entries)
  BY <1>3 DEF ScheduleInv, Shape
<1>6. h \in Handles(c) /\ IdsOK(s, c, h)
  BY <1>1, <1>2, <1>3 DEF ScheduleInv
<1>7. \A i \in 1 .. Len(s) : s[i].op # t
  BY <1>4, <1>5, <1>6 DEF IdsOK
<1>8. PICK g : g = [h EXCEPT ![t] = None]
  OBVIOUS
<1>9. IdsOK(s, c, g) /\ g \in Handles(c)
  BY <1>5, <1>6, <1>7, <1>8, HandleIds
<1>10. ThreadOK'
  BY <1>4 DEF ScheduleInv, ThreadOK
<1>11. ScheduleInv'
  BY <1>1, <1>3, <1>4, <1>8, <1>9, <1>10 DEF ScheduleInv
<1>12. UNCHANGED Promise!vars
  BY <1>4 DEF Promise!vars
<1> QED
  BY <1>11, <1>12 DEF AbstractStep

LEMMA BeginShutdownStep ==
    ASSUME ScheduleInv, BeginShutdown
    PROVE  ScheduleInv' /\ AbstractStep
<1>1. shuttingDown' = TRUE
      /\ UNCHANGED <<scheduled, currentId, handle, worker, running, inProgress, unblocked>>
  BY DEF BeginShutdown
<1>2. ThreadOK'
  BY <1>1 DEF ScheduleInv, ThreadOK
<1>3. ScheduleInv'
  BY <1>1, <1>2 DEF ScheduleInv
<1>4. UNCHANGED Promise!vars
  BY <1>1 DEF Promise!vars
<1> QED
  BY <1>3, <1>4 DEF AbstractStep

LEMMA UnblockQueueStep ==
    ASSUME ScheduleInv, UnblockQueue
    PROVE  ScheduleInv' /\ AbstractStep
<1>1. PICK s : s = scheduled
  OBVIOUS
<1>2. PICK r : r = InsertPreservingOrder(s, Entry(NoOp, 0, Immediate))
  OBVIOUS
<1>3. /\ scheduled' = r /\ unblocked' = TRUE /\ shuttingDown
      /\ UNCHANGED <<currentId, handle, worker, running, inProgress, shuttingDown>>
  BY <1>1, <1>2 DEF UnblockQueue
<1>4. PICK m \in Nat, n \in Nat : Shape(s, m, n)
  BY <1>1 DEF ScheduleInv
<1>5. /\ Shape(r, m, n + 1)
      /\ r = InsertAt(s, n + 1, Entry(NoOp, 0, Immediate))
      /\ TasksOf(r) = TasksOf(s)
      /\ DelayedOf(r) = DelayedOf(s)
  BY <1>2, <1>4, InsertNoOp
<1>6. PICK c \in Nat : c = currentId
  BY DEF ScheduleInv
<1>7. PICK h : h = handle
  OBVIOUS
<1>8. h \in Handles(c) /\ IdsOK(s, c, h)
  BY <1>1, <1>6, <1>7 DEF ScheduleInv
<1>9. PICK e : e = Entry(NoOp, 0, Immediate)
  OBVIOUS
<1>10. e \in Entries /\ e.op = NoOp /\ e.id = 0 /\ NoOp \notin Timers
  BY <1>9, ExecutorStdAssumption DEF Entry, Entries, NoOp
<1>11. IdsOK(r, c, h)
  <2>1. s \in Seq(Entries) /\ n + 1 \in 1 .. Len(s) + 1
    BY <1>4 DEF Shape
  <2>2. \A t \in Timers : e.id # h[t]
    BY <1>8, <1>10, ExecutorStdAssumption DEF Handles
  <2>3. PICK z : z = InsertAt(s, n + 1, e)
    OBVIOUS
  <2>4. IdsOK(z, c, h)
    BY <1>8, <1>10, <2>1, <2>2, <2>3, InsertIds
  <2> QED
    BY <1>5, <1>9, <2>3, <2>4
<1>12. ThreadOK'
  BY <1>3 DEF ScheduleInv, ThreadOK
<1>13. ScheduleInv'
  <2>1. \E a, b \in Nat : Shape(scheduled', a, b) /\ (a < b => unblocked')
    BY <1>3, <1>5
  <2> QED
    BY <1>3, <1>6, <1>7, <1>8, <1>11, <1>12, <2>1 DEF ScheduleInv
<1>14. UNCHANGED Promise!vars
  BY <1>1, <1>3, <1>5 DEF Promise!vars
<1> QED
  BY <1>13, <1>14 DEF AbstractStep

\* PopBlocking: the thread has nothing to run, and takes what is due or waits.
LEMMA PopOrWaitStep ==
    ASSUME ScheduleInv, PopOrWait, worker # "run",
           UNCHANGED <<currentId, handle, inProgress, shuttingDown, unblocked>>
    PROVE  ScheduleInv' /\ AbstractStep
<1>1. running = None /\ ~inProgress
  BY DEF ScheduleInv, ThreadOK
<1>2. CASE UNCHANGED <<scheduled, running>>
  <2>1. ThreadOK'
    BY <1>1, <1>2 DEF ScheduleInv, ThreadOK
  <2>2. ScheduleInv'
    BY <1>2, <2>1 DEF ScheduleInv
  <2>3. UNCHANGED Promise!vars
    BY <1>2 DEF Promise!vars
  <2> QED
    BY <2>2, <2>3 DEF AbstractStep
<1>3. CASE /\ scheduled # <<>> /\ Head(scheduled).left <= 0
           /\ worker' = "run" /\ running' = Head(scheduled).op /\ scheduled' = Tail(scheduled)
  <2>1. PICK s : s = scheduled
    OBVIOUS
  <2>2. PICK r : r = Tail(s)
    OBVIOUS
  <2>3. PICK m \in Nat, n \in Nat : Shape(s, m, n) /\ (m < n => unblocked)
    BY <2>1 DEF ScheduleInv
  <2>4. s \in Seq(Entries) /\ s # <<>> /\ m <= n
    BY <1>3, <2>1, <2>3 DEF Shape
  <2>5. scheduled' = r
    BY <1>3, <2>1, <2>2
  <2>6. IdsOK(r, currentId, handle)
    BY <2>1, <2>2, <2>4, TailIds DEF ScheduleInv
  <2>7. PICK x : x = Head(s).op
    OBVIOUS
  <2>8. running' = x /\ Head(s).left <= 0
    BY <1>3, <2>1, <2>7
  <2>9. x \in Tasks \cup Timers \cup {None} /\ (x # None => currentId > 0)
    <3>1. 1 \in 1 .. Len(s) /\ Head(s) = s[1] /\ s[1] \in Entries
      BY <2>4
    <3>2. s[1].id < currentId \/ (s[1].op = None /\ s[1].id = 0)
      BY <2>1, <3>1 DEF ScheduleInv, IdsOK, NoOp
    <3>3. s[1].id \in Nat /\ s[1].op \in Tasks \cup Timers \cup {None}
      BY <3>1 DEF Entries
    <3> QED
      BY <2>7, <3>1, <3>2, <3>3 DEF ScheduleInv
  <2>10. ThreadOK'
    BY <1>1, <1>3, <2>8, <2>9 DEF ThreadOK
  <2>11. ASSUME NEW a \in Nat, NEW b \in Nat, Shape(r, a, b), a < b => unblocked
         PROVE  ScheduleInv'
    <3>1. \E i, j \in Nat : Shape(scheduled', i, j) /\ (i < j => unblocked')
      BY <2>5, <2>11
    <3> QED
      BY <2>5, <2>6, <2>10, <3>1 DEF ScheduleInv
  <2>12. CASE m > 0
    <3>1. Shape(r, m - 1, n - 1)
      BY <2>2, <2>3, <2>4, <2>12, TailShape
    <3>2. Head(s).op \in Tasks /\ Head(TasksOf(s)) = Head(s).op /\ TasksOf(s) # <<>>
      BY <2>2, <2>3, <2>4, <2>12, TailShape
    <3>3. TasksOf(r) = Tail(TasksOf(s)) /\ DelayedOf(r) = DelayedOf(s)
      BY <2>2, <2>3, <2>4, <2>12, TailShape
    <3>4. m - 1 \in Nat /\ n - 1 \in Nat /\ (m - 1 < n - 1 => m < n)
      BY <2>4, <2>12
    <3>5. ScheduleInv'
      BY <2>3, <2>11, <3>1, <3>4
    <3>6. Promise!StartImmediate
      BY <1>1, <2>1, <2>5, <2>7, <2>8, <3>2, <3>3 DEF Promise!StartImmediate
    <3> QED
      BY <3>5, <3>6 DEF AbstractStep, Promise!Next
  <2>13. CASE m = 0 /\ n > 0
    <3>1. NoOpTaken(s, n, r) /\ Head(s).op = NoOp
      BY <2>2, <2>3, <2>4, <2>13, TailShape
    <3>2. Shape(r, 0, n - 1) /\ TasksOf(r) = TasksOf(s) /\ DelayedOf(r) = DelayedOf(s)
      BY <3>1 DEF NoOpTaken
    <3>3. 0 \in Nat /\ n - 1 \in Nat /\ (0 < n - 1 => m < n)
      BY <2>13
    <3>4. ScheduleInv'
      BY <2>3, <2>11, <3>2, <3>3
    <3>5. UNCHANGED Promise!vars
      BY <1>1, <2>1, <2>5, <2>7, <2>8, <3>1, <3>2 DEF Promise!vars, NoOp
    <3> QED
      BY <3>4, <3>5 DEF AbstractStep
  <2>14. CASE n = 0
    <3>1. Head(s).left \in Nat /\ Shape(r, m, n) /\ TasksOf(r) = TasksOf(s)
      BY <2>2, <2>3, <2>4, <2>14, TailShape
    <3>2. PICK E : E = DelayedOf(s)
      OBVIOUS
    <3>3. 1 \in 1 .. Len(E) /\ E[1].timer = Head(s).op /\ E[1].left = Head(s).left
      BY <2>2, <2>3, <2>4, <2>14, <3>2, TailShape
    <3>4. DelayedOf(r) = RemoveAt(E, 1)
      BY <2>2, <2>3, <2>4, <2>14, <3>2, TailShape, ZenonT(60)
    <3>5. E[1].left = 0
      BY <2>8, <3>1, <3>3
    <3>6. E = DelayedOf(scheduled) /\ DOMAIN E = 1 .. Len(E)
      BY <2>1, <2>3, <3>2, ViewFacts
    <3>7. DelayedOf(scheduled)' = Promise!Delete(E, 1)
      BY <2>5, <3>4 DEF Promise!Delete, RemoveAt
    <3>8. UNCHANGED TasksOf(scheduled)
      BY <2>1, <2>5, <3>1
    <3>9. \E i \in DOMAIN E : /\ E[i].left = 0
                              /\ TRUE => i = 1
                              /\ running' = E[i].timer
                              /\ DelayedOf(scheduled)' = Promise!Delete(E, i)
      BY <2>7, <2>8, <3>3, <3>5, <3>6, <3>7
    <3>10. Promise!StartDelayed
      BY <1>1, <3>6, <3>8, <3>9 DEF Promise!StartDelayed
    <3>11. ScheduleInv'
      BY <2>3, <2>11, <3>1
    <3> QED
      BY <3>10, <3>11 DEF AbstractStep, Promise!Next
  <2> QED
    BY <2>3, <2>12, <2>13, <2>14
<1>4. \/ UNCHANGED <<scheduled, running>>
      \/ /\ scheduled # <<>> /\ Head(scheduled).left <= 0
         /\ worker' = "run" /\ running' = Head(scheduled).op /\ scheduled' = Tail(scheduled)
  <2>1. scheduled # <<>> => Head(scheduled).left \in Int
    <3>1. scheduled \in Seq(Entries)
      BY DEF ScheduleInv, Shape
    <3>2. scheduled # <<>> => Head(scheduled) \in Entries
      BY <3>1
    <3> QED
      BY <3>2 DEF Entries, Immediate
  <2>2. CASE scheduled = <<>>
    BY <2>2 DEF PopOrWait
  <2>3. CASE scheduled # <<>> /\ Head(scheduled).left > 0
    BY <2>1, <2>3 DEF PopOrWait
  <2>4. CASE scheduled # <<>> /\ Head(scheduled).left <= 0
    BY <2>1, <2>4 DEF PopOrWait
  <2> QED
    BY <2>1, <2>2, <2>3, <2>4
<1> QED
  BY <1>2, <1>3, <1>4

LEMMA WorkerStep ==
    ASSUME ScheduleInv, PollingThread \/ WakeUp \/ WakeUpInTime
    PROVE  ScheduleInv' /\ AbstractStep
<1>1. worker # "run" /\ UNCHANGED <<currentId, handle, inProgress, shuttingDown, unblocked>>
  BY DEF PollingThread, WakeUp, WakeUpInTime
<1>2. CASE PopOrWait
  BY <1>1, <1>2, PopOrWaitStep
<1>3. CASE UNCHANGED <<scheduled, running>>
  <2>1. running = None /\ ~inProgress
    BY <1>1 DEF ScheduleInv, ThreadOK
  <2>2. ThreadOK'
    BY <1>1, <1>3, <2>1 DEF ThreadOK
  <2>3. ScheduleInv'
    BY <1>1, <1>3, <2>2 DEF ScheduleInv
  <2>4. UNCHANGED Promise!vars
    BY <1>3 DEF Promise!vars
  <2> QED
    BY <2>3, <2>4 DEF AbstractStep
<1> QED
  BY <1>2, <1>3 DEF PollingThread, WakeUp, WakeUpInTime

LEMMA BeginOperationStep ==
    ASSUME ScheduleInv, BeginOperation
    PROVE  ScheduleInv' /\ AbstractStep
<1>1. /\ worker = "run" /\ running # None
      /\ UNCHANGED <<scheduled, currentId, handle, worker, running, shuttingDown, unblocked>>
  BY DEF BeginOperation, NoOp
<1>2. ThreadOK'
  BY <1>1 DEF ScheduleInv, ThreadOK
<1>3. ScheduleInv'
  BY <1>1, <1>2 DEF ScheduleInv
<1>4. UNCHANGED Promise!vars
  BY <1>1 DEF Promise!vars
<1> QED
  BY <1>3, <1>4 DEF AbstractStep

LEMMA EndOperationStep ==
    ASSUME ScheduleInv, EndOperation
    PROVE  ScheduleInv' /\ AbstractStep
<1>1. /\ inProgress' = FALSE /\ running' = None
      /\ UNCHANGED <<scheduled, currentId, handle, shuttingDown, unblocked>>
  BY DEF EndOperation
<1>2. ThreadOK'
  BY <1>1 DEF ThreadOK
<1>3. ScheduleInv'
  BY <1>1, <1>2 DEF ScheduleInv
<1>4. UNCHANGED <<TasksOf(scheduled), DelayedOf(scheduled)>>
  BY <1>1
<1>5. CASE running = None
  BY <1>1, <1>3, <1>4, <1>5 DEF AbstractStep, Promise!vars
<1>6. CASE running # None
  <2>1. Promise!Finish
    BY <1>1, <1>4, <1>6 DEF Promise!Finish
  <2> QED
    BY <1>3, <2>1 DEF AbstractStep, Promise!Next
<1> QED
  BY <1>5, <1>6

LEMMA TickStep ==
    ASSUME ScheduleInv, Tick
    PROVE  ScheduleInv' /\ AbstractStep
<1>1. PICK s : s = scheduled
  OBVIOUS
<1>2. PICK r : r = [i \in DOMAIN s |-> [s[i] EXCEPT !.left = Earlier(@)]]
  OBVIOUS
<1>3. /\ scheduled' = r
      /\ UNCHANGED <<currentId, handle, worker, running, inProgress, shuttingDown, unblocked>>
  BY <1>1, <1>2 DEF Tick
<1>4. PICK m \in Nat, n \in Nat : Shape(s, m, n) /\ (m < n => unblocked)
  BY <1>1 DEF ScheduleInv
<1>5. Shape(r, m, n) /\ Len(r) = Len(s)
  BY <1>2, <1>4, TickShape
<1>6. \A i \in 1 .. Len(s) : r[i].op = s[i].op /\ r[i].id = s[i].id
  BY <1>2, <1>4, TickShape
<1>7. TasksOf(r) = TasksOf(s)
  BY <1>2, <1>4, TickShape
<1>8. DelayedOf(r) = [i \in DOMAIN DelayedOf(s) |->
            [DelayedOf(s)[i] EXCEPT !.left = IF @ = 0 THEN 0 ELSE @ - 1]]
  BY <1>2, <1>4, TickShape
<1>9. IdsOK(r, currentId, handle)
  <2>1. IdsOK(s, currentId, handle)
    BY <1>1 DEF ScheduleInv
  <2> QED
    BY <1>5, <1>6, <2>1, SMTT(40) DEF IdsOK
<1>10. ThreadOK'
  BY <1>3 DEF ScheduleInv, ThreadOK
<1>11. ScheduleInv'
  <2>1. \E a, b \in Nat : Shape(scheduled', a, b) /\ (a < b => unblocked')
    BY <1>3, <1>4, <1>5
  <2> QED
    BY <1>3, <1>9, <1>10, <2>1 DEF ScheduleInv
<1>12. Promise!Tick
  BY <1>1, <1>3, <1>7, <1>8 DEF Promise!Tick
<1> QED
  BY <1>11, <1>12 DEF AbstractStep, Promise!Next

LEMMA InitEstablishes ==
    ASSUME Init
    PROVE  ScheduleInv /\ Promise!Init
<1>1. PICK s : s = <<>>
  OBVIOUS
<1>2. scheduled = s /\ currentId = 0 /\ handle = [t \in Timers |-> None] /\ running = None
      /\ ~inProgress /\ ~unblocked
  BY <1>1 DEF Init
<1>3. s \in Seq(Entries) /\ Len(s) = 0
  BY <1>1
<1>4. Shape(s, 0, 0)
  BY <1>3 DEF Shape
<1>5. \E m, n \in Nat : Shape(scheduled, m, n) /\ (m < n => unblocked)
  BY <1>2, <1>4
<1>6. handle \in Handles(currentId)
  BY <1>2 DEF Handles
<1>7. IdsOK(scheduled, currentId, handle)
  BY <1>2, <1>3 DEF IdsOK
<1>8. ThreadOK
  BY <1>2 DEF ThreadOK
<1>9. ScheduleInv
  BY <1>2, <1>5, <1>6, <1>7, <1>8 DEF ScheduleInv
<1>10. TasksOf(s) = <<>> /\ DelayedOf(s) = <<>>
  <2>1. TasksOf(s) \in Seq(Tasks) /\ Len(TasksOf(s)) = 0
    BY <1>4, ViewFacts
  <2>2. DelayedOf(s) \in Seq(Timed) /\ Len(DelayedOf(s)) = Len(s) - 0
    BY <1>4, ViewFacts
  <2>3. Len(DelayedOf(s)) = 0
    BY <1>3, <2>2
  <2> QED
    BY <2>1, <2>2, <2>3, EmptySeq
<1>11. Promise!Init
  BY <1>2, <1>10 DEF Promise!Init
<1> QED
  BY <1>9, <1>11

LEMMA NextStep ==
    ASSUME ScheduleInv, [Next]_vars
    PROVE  ScheduleInv' /\ AbstractStep
<1>1. CASE \E x \in Tasks : Enqueue(x)
  BY <1>1, EnqueueStep
<1>2. CASE \E t \in Timers : Cancel(t)
  BY <1>2, CancelStep
<1>3. CASE \E t \in Timers : ForgetHandle(t)
  BY <1>3, ForgetHandleStep
<1>4. CASE \E t \in Timers : \E delay \in Delays : EnqueueAfterDelay(t, delay)
  BY <1>4, EnqueueAfterDelayStep
<1>5. CASE BeginShutdown
  BY <1>5, BeginShutdownStep
<1>6. CASE UnblockQueue
  BY <1>6, UnblockQueueStep
<1>7. CASE PollingThread \/ WakeUp \/ WakeUpInTime
  BY <1>7, WorkerStep
<1>8. CASE BeginOperation
  BY <1>8, BeginOperationStep
<1>9. CASE EndOperation
  BY <1>9, EndOperationStep
<1>10. CASE Tick
  BY <1>10, TickStep
<1>11. CASE UNCHANGED vars
  <2>1. UNCHANGED <<scheduled, currentId, handle, worker, running, inProgress, shuttingDown,
                    unblocked>>
    BY <1>11 DEF vars
  <2>2. ThreadOK'
    BY <2>1 DEF ScheduleInv, ThreadOK
  <2>3. ScheduleInv'
    BY <2>1, <2>2 DEF ScheduleInv
  <2>4. UNCHANGED Promise!vars
    BY <2>1 DEF Promise!vars
  <2> QED
    BY <2>3, <2>4 DEF AbstractStep
<1>12. \/ \E x \in Tasks : Enqueue(x)
       \/ \E t \in Timers : Cancel(t)
       \/ \E t \in Timers : ForgetHandle(t)
       \/ \E t \in Timers : \E delay \in Delays : EnqueueAfterDelay(t, delay)
       \/ BeginShutdown \/ UnblockQueue
       \/ PollingThread \/ WakeUp \/ WakeUpInTime \/ BeginOperation \/ EndOperation
       \/ Tick
       \/ UNCHANGED vars
  BY DEF Next, Worker
<1> QED
  BY <1>1, <1>2, <1>3, <1>4, <1>5, <1>6, <1>7, <1>8, <1>9, <1>10, <1>11, <1>12

-----------------------------------------------------------------------------

\* The schedule of ExecutorStd is always tasks, then the no-op of the destructor, then
\* timers by due time; a timer is there once, with the id that its owner holds and nobody
\* else; and an operation is in progress only while the thread runs it.
THEOREM ScheduleSafety == Spec => []ScheduleInv
<1>1. Init => ScheduleInv
  BY InitEstablishes
<1>2. ScheduleInv /\ [Next]_vars => ScheduleInv'
  BY NextStep
<1> QED
  BY <1>1, <1>2, PTL DEF Spec

\* The thread, the deque, the ids and the condition variable of ExecutorStd keep the
\* promises of executor.h: every step is one of the abstract executor, or none.
THEOREM RefinesExecutor == Spec => ImplementsExecutor
<1>1. Init => ScheduleInv /\ Promise!Init
  BY InitEstablishes
<1>2. ScheduleInv /\ [Next]_vars => ScheduleInv' /\ [Promise!Next]_(Promise!vars)
  BY NextStep DEF AbstractStep
<1> QED
  BY <1>1, <1>2, PTL DEF Spec, ImplementsExecutor, Promise!Spec

=============================================================================
