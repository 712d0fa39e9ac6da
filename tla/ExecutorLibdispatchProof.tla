---------------------- MODULE ExecutorLibdispatchProof ----------------------
(***************************************************************************)
(* Proofs about ExecutorLibdispatch, for any timers, addresses and delays: *)
(* a cancelled operation does not run, and the attempts of a backoff keep  *)
(* their distance, although libdispatch never takes a TimeSlot back and    *)
(* handles are addresses that may be given out again.                      *)
(***************************************************************************)
EXTENDS ExecutorLibdispatch, TLAPS, SequenceTheorems

-----------------------------------------------------------------------------
(* The inductive invariant.                                                *)

Slot == [timer : Timers, left : Nat, done : BOOLEAN]
IsTable(f) == DOMAIN f \subseteq Addresses /\ f \in [DOMAIN f -> Slot]

TypeOK ==
    /\ IsTable(slots)
    /\ queue \in Seq(Tasks \cup Addresses)
    /\ running \in Tasks \cup Timers \cup {None}
    /\ invoked \in Addresses \cup {None}
    /\ handle \in [Timers -> Addresses \cup {None}]
    /\ waiting \subseteq Timers
    /\ base \in [Backoffs -> 0..MaxDelay]
    /\ soFar \in [Backoffs -> Nat]
    /\ gap \in [Backoffs -> 0..MaxDelay]
    /\ destroyed \in BOOLEAN

Distinct(seq) == \A i, j \in 1..Len(seq) : seq[i] = seq[j] => i = j

\* The schedule holds the slots that are not done, each once.
ScheduleOK(f, seq) ==
    /\ seq \in Seq(Addresses)
    /\ Distinct(seq)
    /\ \A a \in Addresses : Contains(seq, a) <=> a \in DOMAIN f /\ ~f[a].done

\* A slot that is not done is the one its owner has a handle of and waits for, so an owner
\* has no two of them; that of a backoff comes after the least time between attempts.
LiveSlots ==
    \A a \in DOMAIN slots : ~slots[a].done =>
        /\ handle[slots[a].timer] = a
        /\ slots[a].timer \in waiting
        /\ slots[a].timer \in Backoffs =>
               slots[a].left + soFar[slots[a].timer] >= gap[slots[a].timer]
        /\ ~destroyed

\* The slots on the dispatch queue exist and are due, each is there once, and none is
\* the one that runs.
QueuedSlots ==
    \A i \in 1..Len(queue) : queue[i] \in Addresses =>
        /\ queue[i] \in DOMAIN slots
        /\ slots[queue[i]].left = 0
        /\ queue[i] # invoked
        /\ \A j \in 1..Len(queue) : queue[i] = queue[j] => i = j

\* The slot that runs is done and not deleted.
RunningSlot ==
    invoked # None => invoked \in DOMAIN slots /\ slots[invoked].done /\ running # None

ExecutorInv ==
    TypeOK /\ ScheduleOK(slots, schedule) /\ LiveSlots /\ QueuedSlots /\ RunningSlot

-----------------------------------------------------------------------------
(* The operators.                                                          *)

\* What erasing the entry of an address leaves.
LEMMA EraseFacts ==
    ASSUME NEW seq \in Seq(Addresses), Distinct(seq), NEW a \in Addresses, Contains(seq, a)
    PROVE  /\ Erase(seq, a) \in Seq(Addresses)
           /\ Distinct(Erase(seq, a))
           /\ \A c \in Addresses : Contains(Erase(seq, a), c) <=> Contains(seq, c) /\ c # a
<1>1. PICK k : k = CHOOSE i \in 1..Len(seq) : seq[i] = a
  OBVIOUS
<1>2. k \in 1..Len(seq) /\ seq[k] = a
  BY <1>1 DEF Contains
<1>3. PICK n \in Nat : n = Len(seq)
  OBVIOUS
<1>4. PICK left : left = SubSeq(seq, 1, k - 1)
  OBVIOUS
<1>5. PICK right : right = SubSeq(seq, k + 1, n)
  OBVIOUS
<1>6. /\ left \in Seq(Addresses) /\ Len(left) = k - 1
      /\ \A i \in 1..k - 1 : left[i] = seq[i]
  BY <1>2, <1>3, <1>4
<1>7. /\ right \in Seq(Addresses) /\ Len(right) = n - k
      /\ \A i \in 1..n - k : right[i] = seq[i + k]
  BY <1>2, <1>3, <1>5
<1>8. PICK rest : rest = left \o right
  OBVIOUS
<1>9. Erase(seq, a) = rest
  BY <1>1, <1>3, <1>4, <1>5, <1>8 DEF Erase, RemoveAt
<1>10. rest \in Seq(Addresses) /\ Len(rest) = n - 1
  BY <1>2, <1>3, <1>6, <1>7, <1>8
<1>11. \A i \in 1..n - 1 : rest[i] = IF i < k THEN seq[i] ELSE seq[i + 1]
  <2>1. \A i \in 1..n - 1 : rest[i] = IF i <= k - 1 THEN left[i] ELSE right[i - (k - 1)]
    BY <1>2, <1>3, <1>6, <1>7, <1>8
  <2>2. \A i \in 1..n - 1 : i < k => rest[i] = seq[i]
    BY <2>1, <1>2, <1>3, <1>6
  <2>3. \A i \in 1..n - 1 : ~(i < k) =>
            i - (k - 1) \in 1..n - k /\ i - (k - 1) + k = i + 1
    BY <1>2, <1>3
  <2>4. \A i \in 1..n - 1 : ~(i < k) => rest[i] = seq[i + 1]
    BY <2>1, <2>3, <1>2, <1>3, <1>7
  <2> QED
    BY <2>2, <2>4
<1>12. Distinct(rest)
  BY <1>2, <1>3, <1>10, <1>11, SMTT(40) DEF Distinct
<1>13. ASSUME NEW c \in Addresses, Contains(rest, c) PROVE Contains(seq, c) /\ c # a
  BY <1>2, <1>3, <1>10, <1>11, <1>13 DEF Distinct, Contains
<1>14. ASSUME NEW c \in Addresses, Contains(seq, c), c # a PROVE Contains(rest, c)
  <2>1. PICK i \in 1..n : seq[i] = c
    BY <1>3, <1>14 DEF Contains
  <2>2. CASE i < k
    <3>1. i \in 1..Len(rest) /\ rest[i] = c
      BY <2>1, <2>2, <1>2, <1>3, <1>10, <1>11
    <3> QED
      BY <3>1 DEF Contains
  <2>3. CASE i > k
    <3>1. i - 1 \in 1..Len(rest) /\ rest[i - 1] = c
      BY <2>1, <2>3, <1>2, <1>3, <1>10, <1>11
    <3> QED
      BY <3>1 DEF Contains
  <2> QED
    BY <2>1, <2>2, <2>3, <1>2, <1>3, <1>14
<1> QED
  BY <1>9, <1>10, <1>12, <1>13, <1>14

LEMMA AppendFacts ==
    ASSUME NEW seq \in Seq(Addresses), Distinct(seq), NEW a \in Addresses, ~Contains(seq, a)
    PROVE  /\ Append(seq, a) \in Seq(Addresses)
           /\ Distinct(Append(seq, a))
           /\ \A c \in Addresses : Contains(Append(seq, a), c) <=> Contains(seq, c) \/ c = a
<1>1. PICK n \in Nat : n = Len(seq)
  OBVIOUS
<1>2. PICK more : more = Append(seq, a)
  OBVIOUS
<1>3. /\ more \in Seq(Addresses) /\ Len(more) = n + 1
      /\ \A i \in 1..n : more[i] = seq[i]
      /\ more[n + 1] = a
  BY <1>1, <1>2
<1>4. Distinct(more)
  BY <1>1, <1>3 DEF Distinct, Contains
<1>5. \A c \in Addresses : Contains(more, c) <=> Contains(seq, c) \/ c = a
  BY <1>1, <1>3 DEF Contains
<1> QED
  BY <1>2, <1>3, <1>4, <1>5

\* What RemoveFromSchedule does to a table of slots and its schedule.
LEMMA RemoveFacts ==
    ASSUME NEW s, IsTable(s.slots), ScheduleOK(s.slots, s.schedule), NEW a \in Addresses
    PROVE  LET r == RemoveFromSchedule(s, a) IN
           /\ IsTable(r.slots) /\ DOMAIN r.slots = DOMAIN s.slots
           /\ ScheduleOK(r.slots, r.schedule)
           /\ \A c \in DOMAIN s.slots : /\ r.slots[c].timer = s.slots[c].timer
                                        /\ r.slots[c].left = s.slots[c].left
                                        /\ r.slots[c].done <=> s.slots[c].done \/ c = a
<1>1. CASE Contains(s.schedule, a)
  <2>1. PICK f : f = [s.slots EXCEPT ![a].done = TRUE]
    OBVIOUS
  <2>2. PICK q : q = Erase(s.schedule, a)
    OBVIOUS
  <2>3. RemoveFromSchedule(s, a) = [slots |-> f, schedule |-> q]
    BY <1>1, <2>1, <2>2 DEF RemoveFromSchedule
  <2>4. a \in DOMAIN s.slots /\ ~s.slots[a].done
    BY <1>1 DEF ScheduleOK
  <2>5. IsTable(f) /\ DOMAIN f = DOMAIN s.slots
    BY <2>1, <2>4 DEF IsTable, Slot
  <2>6. \A c \in DOMAIN s.slots : /\ f[c].timer = s.slots[c].timer
                                  /\ f[c].left = s.slots[c].left
                                  /\ f[c].done <=> s.slots[c].done \/ c = a
    BY <2>1, <2>4 DEF IsTable, Slot
  <2>7. /\ q \in Seq(Addresses) /\ Distinct(q)
        /\ \A c \in Addresses : Contains(q, c) <=> Contains(s.schedule, c) /\ c # a
    BY <1>1, <2>2, EraseFacts DEF ScheduleOK
  <2>8. ScheduleOK(f, q)
    BY <2>5, <2>6, <2>7 DEF ScheduleOK
  <2> QED
    BY <2>3, <2>5, <2>6, <2>8
<1>2. CASE ~Contains(s.schedule, a)
  <2>1. RemoveFromSchedule(s, a) = s
    BY <1>2 DEF RemoveFromSchedule
  <2>2. a \in DOMAIN s.slots => s.slots[a].done
    BY <1>2 DEF ScheduleOK, IsTable, Slot
  <2> QED
    BY <2>1, <2>2
<1> QED
  BY <1>1, <1>2

\* ... and CancelHandle, of a handle or of none.
LEMMA CancelFacts ==
    ASSUME NEW s, IsTable(s.slots), ScheduleOK(s.slots, s.schedule),
           NEW a \in Addresses \cup {None}
    PROVE  LET r == CancelHandle(s, a) IN
           /\ IsTable(r.slots) /\ DOMAIN r.slots = DOMAIN s.slots
           /\ ScheduleOK(r.slots, r.schedule)
           /\ \A c \in DOMAIN s.slots : /\ r.slots[c].timer = s.slots[c].timer
                                        /\ r.slots[c].left = s.slots[c].left
                                        /\ r.slots[c].done <=> s.slots[c].done \/ c = a
<1>1. None \notin Addresses
  BY ExecutorLibdispatchAssumption
<1>2. CASE a = None
  BY <1>1, <1>2 DEF CancelHandle, IsTable
<1>3. CASE a # None
  <2>1. a \in Addresses /\ CancelHandle(s, a) = RemoveFromSchedule(s, a)
    BY <1>3 DEF CancelHandle
  <2> QED
    BY <2>1, RemoveFacts
<1> QED
  BY <1>2, <1>3

\* A new slot is scheduled.
LEMMA NewSlotFacts ==
    ASSUME NEW s, IsTable(s.slots), ScheduleOK(s.slots, s.schedule),
           NEW a \in Addresses \ DOMAIN s.slots, NEW t \in Timers, NEW d \in Nat
    PROVE  LET r == NewSlot(s, a, t, d) IN
           /\ IsTable(r.slots) /\ DOMAIN r.slots = DOMAIN s.slots \cup {a}
           /\ ScheduleOK(r.slots, r.schedule)
           /\ \A c \in DOMAIN s.slots : r.slots[c] = s.slots[c]
           /\ r.slots[a] = [timer |-> t, left |-> d, done |-> FALSE]
<1>1. PICK v : v = [timer |-> t, left |-> d, done |-> FALSE]
  OBVIOUS
<1>2. v \in Slot /\ v.done = FALSE
  BY <1>1 DEF Slot
<1>3. PICK f : f = With(s.slots, a, v)
  OBVIOUS
<1>4. PICK q : q = Append(s.schedule, a)
  OBVIOUS
<1>5. NewSlot(s, a, t, d) = [slots |-> f, schedule |-> q]
  BY <1>1, <1>3, <1>4 DEF NewSlot
<1>6. /\ DOMAIN f = DOMAIN s.slots \cup {a} /\ f[a] = v
      /\ \A c \in DOMAIN s.slots : f[c] = s.slots[c]
  BY <1>3 DEF With
<1>7. IsTable(f)
  <2>1. f \in [DOMAIN f -> Slot]
    BY <1>2, <1>3, <1>6 DEF With, IsTable
  <2> QED
    BY <2>1, <1>6 DEF IsTable
<1>8. ~Contains(s.schedule, a)
  BY DEF ScheduleOK
<1>9. /\ q \in Seq(Addresses) /\ Distinct(q)
      /\ \A c \in Addresses : Contains(q, c) <=> Contains(s.schedule, c) \/ c = a
  BY <1>4, <1>8, AppendFacts DEF ScheduleOK
<1>10. ScheduleOK(f, q)
  BY <1>2, <1>6, <1>9 DEF ScheduleOK
<1> QED
  BY <1>1, <1>5, <1>6, <1>7, <1>10

\* A slot that is done is deleted.
LEMMA WithoutFacts ==
    ASSUME NEW f, NEW seq, IsTable(f), ScheduleOK(f, seq), NEW a \in DOMAIN f, f[a].done
    PROVE  /\ IsTable(Without(f, a)) /\ DOMAIN Without(f, a) = DOMAIN f \ {a}
           /\ ScheduleOK(Without(f, a), seq)
           /\ \A c \in DOMAIN f \ {a} : Without(f, a)[c] = f[c]
<1>1. PICK g : g = Without(f, a)
  OBVIOUS
<1>2. DOMAIN g = DOMAIN f \ {a} /\ \A c \in DOMAIN f \ {a} : g[c] = f[c]
  BY <1>1 DEF Without
<1>3. IsTable(g)
  BY <1>1, <1>2 DEF IsTable, Without
<1>4. ScheduleOK(g, seq)
  BY <1>2 DEF ScheduleOK
<1> QED
  BY <1>1, <1>2, <1>3, <1>4

\* The delays of the backoff.
LEMMA DelayFacts ==
    ASSUME NEW b \in 0..MaxDelay
    PROVE  /\ NextBase(b) \in 0..MaxDelay
           /\ b - b \div 2 \in 0..MaxDelay
           /\ \A j \in DelayWithJitter(b) : j \in Int /\ b + j >= b - b \div 2
<1>1. NextBase(b) \in 0..MaxDelay
  BY ExponentialBackoffAssumption DEF NextBase, ClampDelay
<1>2. b - b \div 2 \in 0..MaxDelay
  BY ExponentialBackoffAssumption
<1>3. ASSUME NEW j \in DelayWithJitter(b) PROVE j \in Int /\ b + j >= b - b \div 2
  <2>1. b \div 2 \in Int /\ (b - 1) \div 2 \in Int /\ b \in Int
    BY ExponentialBackoffAssumption
  <2> QED
    BY <2>1, <1>3 DEF DelayWithJitter
<1> QED
  BY <1>1, <1>2, <1>3

LEMMA RemainingFacts ==
    ASSUME NEW d \in Int, NEW n \in Nat
    PROVE  RemainingDelay(d, n) \in Nat /\ RemainingDelay(d, n) + n >= d
BY DEF RemainingDelay

-----------------------------------------------------------------------------
(* The actions preserve the invariant.                                     *)

LEMMA ExecutePreserves ==
    ASSUME ExecutorInv, NEW x \in Tasks, Execute(x)
    PROVE  ExecutorInv'
<1>1. x \notin Addresses
  BY ExecutorLibdispatchAssumption
<1>2. queue \in Seq(Tasks \cup Addresses) /\ queue' = Append(queue, x)
  BY DEF ExecutorInv, TypeOK, Execute
<1>3. PICK n \in Nat : n = Len(queue)
  BY <1>2
<1>4. /\ queue' \in Seq(Tasks \cup Addresses) /\ Len(queue') = n + 1
      /\ \A i \in 1..n : queue'[i] = queue[i]
      /\ queue'[n + 1] = x
  BY <1>2, <1>3
<1>5. TypeOK'
  BY <1>4 DEF ExecutorInv, TypeOK, Execute, backoffVars
<1>6. QueuedSlots'
  BY <1>1, <1>3, <1>4 DEF ExecutorInv, QueuedSlots, Execute
<1>7. ScheduleOK(slots, schedule)' /\ LiveSlots' /\ RunningSlot'
  BY DEF ExecutorInv, ScheduleOK, LiveSlots, RunningSlot, Execute, backoffVars
<1> QED
  BY <1>5, <1>6, <1>7 DEF ExecutorInv

LEMMA SlotIsDuePreserves ==
    ASSUME ExecutorInv, NEW a \in Addresses, SlotIsDue(a)
    PROVE  ExecutorInv'
<1>1. queue \in Seq(Tasks \cup Addresses) /\ queue' = Append(queue, a)
  BY DEF ExecutorInv, TypeOK, SlotIsDue
<1>2. PICK n \in Nat : n = Len(queue)
  BY <1>1
<1>3. /\ queue' \in Seq(Tasks \cup Addresses) /\ Len(queue') = n + 1
      /\ \A i \in 1..n : queue'[i] = queue[i]
      /\ queue'[n + 1] = a
  BY <1>1, <1>2
<1>4. \A i \in 1..n : queue[i] # a
  BY <1>2 DEF SlotIsDue, Contains
<1>5. TypeOK'
  BY <1>3 DEF ExecutorInv, TypeOK, SlotIsDue, backoffVars
<1>6. QueuedSlots'
  BY <1>2, <1>3, <1>4 DEF ExecutorInv, QueuedSlots, SlotIsDue
<1>7. ScheduleOK(slots, schedule)' /\ LiveSlots' /\ RunningSlot'
  BY DEF ExecutorInv, ScheduleOK, LiveSlots, RunningSlot, SlotIsDue, backoffVars
<1> QED
  BY <1>5, <1>6, <1>7 DEF ExecutorInv

\* What taking the head off the dispatch queue leaves.
LEMMA TailFacts ==
    ASSUME ExecutorInv, queue # <<>>, queue' = Tail(queue)
    PROVE  /\ Head(queue) \in Tasks \cup Addresses
           /\ queue' \in Seq(Tasks \cup Addresses)
           /\ Head(queue) \in Addresses =>
                /\ Head(queue) \in DOMAIN slots /\ slots[Head(queue)].left = 0
           /\ \A i \in 1..Len(queue') : queue'[i] \in Addresses =>
                /\ queue'[i] \in DOMAIN slots /\ slots[queue'[i]].left = 0
                /\ queue'[i] # invoked /\ queue'[i] # Head(queue)
                /\ \A j \in 1..Len(queue') : queue'[i] = queue'[j] => i = j
<1>1. queue \in Seq(Tasks \cup Addresses)
  BY DEF ExecutorInv, TypeOK
<1>2. PICK n \in Nat : n + 1 = Len(queue)
  BY <1>1
<1>3. /\ queue' \in Seq(Tasks \cup Addresses) /\ Len(queue') = n
      /\ \A i \in 1..n : queue'[i] = queue[i + 1]
  BY <1>1, <1>2
<1>4. Head(queue) = queue[1] /\ Head(queue) \in Tasks \cup Addresses
  BY <1>1, <1>2
<1>5. QueuedSlots
  BY DEF ExecutorInv
<1>6. Head(queue) \in Addresses => Head(queue) \in DOMAIN slots /\ slots[Head(queue)].left = 0
  BY <1>2, <1>4, <1>5 DEF QueuedSlots
<1>7. ASSUME NEW i \in 1..n, queue'[i] \in Addresses
      PROVE  /\ queue'[i] \in DOMAIN slots /\ slots[queue'[i]].left = 0
             /\ queue'[i] # invoked /\ queue'[i] # Head(queue)
             /\ \A j \in 1..n : queue'[i] = queue'[j] => i = j
  BY <1>2, <1>3, <1>4, <1>5, <1>7 DEF QueuedSlots
<1> QED
  BY <1>3, <1>4, <1>6, <1>7

LEMMA RunTaskPreserves ==
    ASSUME ExecutorInv, RunTask
    PROVE  ExecutorInv'
<1>1. /\ queue # <<>> /\ queue' = Tail(queue) /\ Head(queue) \in Tasks
      /\ running' = Head(queue) /\ running = None
      /\ UNCHANGED <<slots, schedule, invoked, handle, waiting, base, soFar, gap, destroyed>>
  BY DEF RunTask, backoffVars
<1>2. TypeOK'
  BY <1>1, TailFacts DEF ExecutorInv, TypeOK
<1>3. QueuedSlots'
  BY <1>1, TailFacts DEF QueuedSlots
<1>4. ScheduleOK(slots, schedule)' /\ LiveSlots'
  BY <1>1 DEF ExecutorInv, ScheduleOK, LiveSlots
<1>5. RunningSlot'
  BY <1>1, ExecutorLibdispatchAssumption DEF ExecutorInv, RunningSlot
<1> QED
  BY <1>2, <1>3, <1>4, <1>5 DEF ExecutorInv

LEMMA SkipSlotPreserves ==
    ASSUME ExecutorInv, SkipSlot
    PROVE  ExecutorInv'
<1>1. PICK a : a = Head(queue)
  OBVIOUS
<1>2. /\ queue # <<>> /\ queue' = Tail(queue) /\ a \in Addresses
      /\ slots[a].done /\ slots' = Without(slots, a) /\ running = None
      /\ UNCHANGED <<schedule, running, invoked, handle, waiting, base, soFar, gap, destroyed>>
  BY <1>1 DEF SkipSlot, backoffVars
<1>3. a \in DOMAIN slots
  BY <1>1, <1>2, TailFacts
<1>4. /\ IsTable(slots') /\ DOMAIN slots' = DOMAIN slots \ {a}
      /\ ScheduleOK(slots', schedule)
      /\ \A c \in DOMAIN slots \ {a} : slots'[c] = slots[c]
  BY <1>2, <1>3, WithoutFacts DEF ExecutorInv, TypeOK
<1>5. ScheduleOK(slots, schedule)'
  BY <1>2, <1>4
<1>6. TypeOK'
  BY <1>2, <1>4, TailFacts DEF ExecutorInv, TypeOK
<1>7. LiveSlots'
  BY <1>2, <1>4 DEF ExecutorInv, LiveSlots
<1>8. QueuedSlots'
  BY <1>1, <1>2, <1>4, TailFacts DEF QueuedSlots
<1>9. RunningSlot'
  BY <1>2 DEF ExecutorInv, RunningSlot
<1> QED
  BY <1>5, <1>6, <1>7, <1>8, <1>9 DEF ExecutorInv

\* The timer that runs is one its owner waits for, and if it is that of a backoff, the
\* least time since the last attempt has passed.
LEMMA RunSlotFacts ==
    ASSUME ExecutorInv, RunSlot
    PROVE  LET a == Head(queue)  t == slots[a].timer IN
           /\ a \in DOMAIN slots /\ ~slots[a].done /\ t \in Timers
           /\ running' = t /\ handle[t] = a /\ t \in waiting /\ ~destroyed
           /\ t \in Backoffs => soFar[t] >= gap[t]
<1>1. PICK a : a = Head(queue)
  OBVIOUS
<1>2. /\ queue # <<>> /\ queue' = Tail(queue) /\ a \in Addresses /\ ~slots[a].done
      /\ running' = slots[a].timer
  BY <1>1 DEF RunSlot
<1>3. a \in DOMAIN slots /\ slots[a].left = 0
  BY <1>1, <1>2, TailFacts
<1>4. slots[a] \in Slot
  BY <1>3 DEF ExecutorInv, TypeOK, IsTable
<1>5. PICK t : t = slots[a].timer
  OBVIOUS
<1>6. t \in Timers
  BY <1>4, <1>5 DEF Slot
<1>7. /\ handle[t] = a /\ t \in waiting /\ ~destroyed
      /\ t \in Backoffs => 0 + soFar[t] >= gap[t]
  BY <1>2, <1>3, <1>5 DEF ExecutorInv, LiveSlots
<1>8. t \in Backoffs => soFar[t] >= gap[t]
  BY <1>7 DEF ExecutorInv, TypeOK
<1> QED
  BY <1>1, <1>2, <1>3, <1>5, <1>6, <1>7, <1>8

LEMMA RunSlotPreserves ==
    ASSUME ExecutorInv, RunSlot
    PROVE  ExecutorInv'
<1>1. PICK a : a = Head(queue)
  OBVIOUS
<1>2. PICK t : t = slots[a].timer
  OBVIOUS
<1>3. PICK r : r = RemoveFromSchedule(State, a)
  OBVIOUS
<1>4. /\ running = None /\ queue # <<>> /\ queue' = Tail(queue) /\ a \in Addresses
      /\ slots' = r.slots /\ schedule' = r.schedule /\ running' = t /\ invoked' = a
      /\ waiting' = waiting \ {t}
      /\ handle' = [handle EXCEPT ![t] = ForgottenBy(t)]
      /\ soFar' = [b \in Backoffs |-> IF b = t THEN 0 ELSE soFar[b]]
      /\ gap' = [b \in Backoffs |-> IF b = t THEN 0 ELSE gap[b]]
      /\ base' = base /\ destroyed' = destroyed
  BY <1>1, <1>2, <1>3 DEF RunSlot, Become
<1>5. a \in DOMAIN slots /\ ~slots[a].done /\ t \in Timers /\ handle[t] = a /\ ~destroyed
  BY <1>1, <1>2, RunSlotFacts
<1>6. State.slots = slots /\ State.schedule = schedule
  BY DEF State
<1>7. /\ IsTable(slots') /\ DOMAIN slots' = DOMAIN slots
      /\ ScheduleOK(slots', schedule')
      /\ \A c \in DOMAIN slots : /\ slots'[c].timer = slots[c].timer
                                 /\ slots'[c].left = slots[c].left
                                 /\ slots'[c].done <=> slots[c].done \/ c = a
  BY <1>3, <1>4, <1>6, RemoveFacts, ZenonT(60) DEF ExecutorInv, TypeOK
<1>8. ForgottenBy(t) \in Addresses \cup {None}
  BY <1>5 DEF ForgottenBy, ExecutorInv, TypeOK
<1>9. soFar' \in [Backoffs -> Nat] /\ gap' \in [Backoffs -> 0..MaxDelay]
  BY <1>4, ExponentialBackoffAssumption DEF ExecutorInv, TypeOK
<1>10. TypeOK'
  BY <1>4, <1>5, <1>7, <1>8, <1>9, TailFacts DEF ExecutorInv, TypeOK
<1>11. LiveSlots'
  <2> SUFFICES ASSUME NEW c \in DOMAIN slots, ~slots'[c].done
               PROVE  /\ handle'[slots'[c].timer] = c
                      /\ slots'[c].timer \in waiting'
                      /\ slots'[c].timer \in Backoffs =>
                           slots'[c].left + soFar'[slots'[c].timer] >= gap'[slots'[c].timer]
                      /\ ~destroyed'
    BY <1>7 DEF LiveSlots
  <2>1. PICK u : u = slots[c].timer
    OBVIOUS
  <2>2. c # a /\ ~slots[c].done /\ slots'[c].timer = u /\ slots'[c].left = slots[c].left
    BY <1>7, <2>1
  <2>3. u \in Timers
    BY <2>1 DEF ExecutorInv, TypeOK, IsTable, Slot
  <2>4. /\ handle[u] = c /\ u \in waiting
        /\ u \in Backoffs => slots[c].left + soFar[u] >= gap[u]
    BY <2>1, <2>2 DEF ExecutorInv, LiveSlots
  <2>5. u # t
    BY <2>2, <2>4, <1>5
  <2>6. handle'[u] = c /\ u \in waiting'
    BY <1>4, <2>3, <2>4, <2>5 DEF ExecutorInv, TypeOK
  <2>7. u \in Backoffs => soFar'[u] = soFar[u] /\ gap'[u] = gap[u]
    BY <1>4, <2>5
  <2> QED
    BY <1>4, <1>5, <2>2, <2>4, <2>6, <2>7
<1>12. QueuedSlots'
  BY <1>1, <1>4, <1>7, TailFacts DEF QueuedSlots
<1>13. RunningSlot'
  BY <1>4, <1>5, <1>7, ExecutorLibdispatchAssumption DEF RunningSlot, Timers
<1> QED
  BY <1>7, <1>10, <1>11, <1>12, <1>13 DEF ExecutorInv

LEMMA EndOperationPreserves ==
    ASSUME ExecutorInv, EndOperation
    PROVE  ExecutorInv'
<1>1. /\ running # None /\ running' = None /\ invoked' = None
      /\ slots' = IF invoked = None THEN slots ELSE Without(slots, invoked)
      /\ UNCHANGED <<schedule, queue, handle, waiting, base, soFar, gap, destroyed>>
  BY DEF EndOperation, backoffVars
<1>2. /\ IsTable(slots') /\ DOMAIN slots' = DOMAIN slots \ {invoked}
      /\ ScheduleOK(slots', schedule)
      /\ \A c \in DOMAIN slots \ {invoked} : slots'[c] = slots[c]
  <2>1. CASE invoked = None
    BY <1>1, <2>1, ExecutorLibdispatchAssumption, ZenonT(60) DEF ExecutorInv, TypeOK, IsTable
  <2>2. CASE invoked # None
    <3>1. invoked \in DOMAIN slots /\ slots[invoked].done
      BY <2>2 DEF ExecutorInv, RunningSlot
    <3> QED
      BY <1>1, <2>2, <3>1, WithoutFacts DEF ExecutorInv, TypeOK
  <2> QED
    BY <2>1, <2>2
<1>3. ScheduleOK(slots, schedule)'
  BY <1>1, <1>2
<1>4. TypeOK'
  BY <1>1, <1>2 DEF ExecutorInv, TypeOK
<1>5. LiveSlots'
  BY <1>1, <1>2 DEF ExecutorInv, LiveSlots
<1>6. None \notin Addresses
  BY ExecutorLibdispatchAssumption
<1>7. QueuedSlots'
  BY <1>1, <1>2, <1>6 DEF ExecutorInv, QueuedSlots
<1>8. RunningSlot'
  BY <1>1 DEF RunningSlot
<1> QED
  BY <1>3, <1>4, <1>5, <1>7, <1>8 DEF ExecutorInv

LEMMA DestroyPreserves ==
    ASSUME ExecutorInv, Destroy
    PROVE  ExecutorInv'
<1>1. /\ destroyed' = TRUE /\ slots' = MarkAll(slots) /\ schedule' = <<>>
      /\ UNCHANGED <<queue, running, invoked, handle, waiting, base, soFar, gap>>
  BY DEF Destroy, backoffVars
<1>2. /\ IsTable(slots') /\ DOMAIN slots' = DOMAIN slots
      /\ \A c \in DOMAIN slots : slots'[c].left = slots[c].left /\ slots'[c].done
  <2>1. DOMAIN slots' = DOMAIN slots
    BY <1>1 DEF MarkAll
  <2>2. ASSUME NEW c \in DOMAIN slots
        PROVE  /\ slots'[c] \in Slot
               /\ slots'[c].left = slots[c].left /\ slots'[c].done
    <3>1. slots'[c] = IF Contains(schedule, c) THEN [slots[c] EXCEPT !.done = TRUE] ELSE slots[c]
      BY <1>1 DEF MarkAll
    <3>2. slots[c] \in Slot /\ c \in Addresses
      BY DEF ExecutorInv, TypeOK, IsTable
    <3>3. ~Contains(schedule, c) => slots[c].done
      BY <3>2 DEF ExecutorInv, ScheduleOK, Slot
    <3> QED
      BY <3>1, <3>2, <3>3 DEF Slot
  <2>3. slots' \in [DOMAIN slots -> Slot]
    BY <1>1, <2>2 DEF MarkAll
  <2> QED
    BY <2>1, <2>2, <2>3 DEF ExecutorInv, TypeOK, IsTable
<1>3. ScheduleOK(slots, schedule)'
  <2>1. schedule' \in Seq(Addresses) /\ Len(schedule') = 0
    BY <1>1
  <2> QED
    BY <1>2, <2>1 DEF ScheduleOK, Distinct, Contains
<1>4. TypeOK'
  BY <1>1, <1>2 DEF ExecutorInv, TypeOK
<1>5. LiveSlots'
  BY <1>2 DEF LiveSlots
<1>6. QueuedSlots'
  BY <1>1, <1>2 DEF ExecutorInv, QueuedSlots
<1>7. RunningSlot'
  BY <1>1, <1>2 DEF ExecutorInv, RunningSlot
<1> QED
  BY <1>3, <1>4, <1>5, <1>6, <1>7 DEF ExecutorInv

LEMMA LongestDelayFacts == LongestDelay \in Nat /\ LongestDelay >= MaxDelay
BY ExponentialBackoffAssumption DEF LongestDelay

LEMMA TickPreserves ==
    ASSUME ExecutorInv, Tick
    PROVE  ExecutorInv'
<1>1. /\ slots' = [a \in DOMAIN slots |->
                     [slots[a] EXCEPT !.left = IF @ = 0 THEN 0 ELSE @ - 1]]
      /\ soFar' = [b \in Backoffs |->
                     IF soFar[b] < LongestDelay THEN soFar[b] + 1 ELSE soFar[b]]
      /\ UNCHANGED <<schedule, queue, running, invoked, handle, waiting, base, gap, destroyed>>
  BY DEF Tick
<1>2. \A c \in DOMAIN slots : slots[c] \in Slot
  BY DEF ExecutorInv, TypeOK, IsTable
<1>3. /\ IsTable(slots') /\ DOMAIN slots' = DOMAIN slots
      /\ \A c \in DOMAIN slots : /\ slots'[c].timer = slots[c].timer
                                 /\ slots'[c].done = slots[c].done
                                 /\ slots'[c].left =
                                      IF slots[c].left = 0 THEN 0 ELSE slots[c].left - 1
  <2>1. DOMAIN slots' = DOMAIN slots
    BY <1>1
  <2>2. ASSUME NEW c \in DOMAIN slots
        PROVE  /\ slots'[c] \in Slot
               /\ slots'[c].timer = slots[c].timer
               /\ slots'[c].done = slots[c].done
               /\ slots'[c].left = IF slots[c].left = 0 THEN 0 ELSE slots[c].left - 1
    BY <1>1, <1>2 DEF Slot
  <2>3. slots' \in [DOMAIN slots -> Slot]
    BY <1>1, <2>2
  <2> QED
    BY <2>1, <2>2, <2>3 DEF ExecutorInv, TypeOK, IsTable
<1>4. ScheduleOK(slots, schedule)'
  BY <1>1, <1>3 DEF ExecutorInv, ScheduleOK
<1>5. soFar' \in [Backoffs -> Nat]
  BY <1>1 DEF ExecutorInv, TypeOK
<1>6. TypeOK'
  BY <1>1, <1>3, <1>5 DEF ExecutorInv, TypeOK
<1>7. LiveSlots'
  <2> SUFFICES ASSUME NEW c \in DOMAIN slots, ~slots[c].done, slots[c].timer \in Backoffs
               PROVE  slots'[c].left + soFar'[slots[c].timer] >= gap[slots[c].timer]
    BY <1>1, <1>3 DEF ExecutorInv, LiveSlots
  <2>1. PICK b : b = slots[c].timer
    OBVIOUS
  <2>2. PICK l \in Nat : l = slots[c].left
    BY <1>2 DEF Slot
  <2>3. l + soFar[b] >= gap[b] /\ soFar[b] \in Nat /\ gap[b] \in 0..MaxDelay
    BY <2>1, <2>2 DEF ExecutorInv, LiveSlots, TypeOK
  <2>4. soFar'[b] = IF soFar[b] < LongestDelay THEN soFar[b] + 1 ELSE soFar[b]
    BY <1>1, <2>1
  <2>5. slots'[c].left = IF l = 0 THEN 0 ELSE l - 1
    BY <1>3, <2>2
  <2>6. (IF l = 0 THEN 0 ELSE l - 1) + soFar'[b] >= gap[b]
    BY <2>2, <2>3, <2>4, LongestDelayFacts, ExponentialBackoffAssumption
  <2> QED
    BY <2>1, <2>5, <2>6
<1>8. QueuedSlots'
  BY <1>1, <1>3 DEF ExecutorInv, QueuedSlots
<1>9. RunningSlot'
  BY <1>1, <1>3 DEF ExecutorInv, RunningSlot
<1> QED
  BY <1>4, <1>6, <1>7, <1>8, <1>9 DEF ExecutorInv

\* An owner without a live slot schedules one: s is the state before, in which the
\* owner's own slot may have been marked.
LEMMA SchedulePreserves ==
    ASSUME ExecutorInv, ~destroyed, NEW t \in Timers, NEW d \in Nat, NEW s,
           ScheduleTimer(s, t, d),
           IsTable(s.slots), DOMAIN s.slots = DOMAIN slots, ScheduleOK(s.slots, s.schedule),
           \A c \in DOMAIN slots : /\ s.slots[c].timer = slots[c].timer
                                   /\ s.slots[c].left = slots[c].left
                                   /\ s.slots[c].done <=> slots[c].done \/ c = handle[t],
           UNCHANGED <<queue, running, invoked, soFar, destroyed>>,
           base' \in [Backoffs -> 0..MaxDelay], gap' \in [Backoffs -> 0..MaxDelay],
           \A b \in Backoffs \ {t} : gap'[b] = gap[b],
           t \in Backoffs => d + soFar[t] >= gap'[t]
    PROVE  ExecutorInv'
<1>1. PICK a \in Addresses \ DOMAIN slots :
        /\ Become(NewSlot(s, a, t, d))
        /\ handle' = [handle EXCEPT ![t] = a]
        /\ waiting' = waiting \cup {t}
  BY DEF ScheduleTimer
<1>2. PICK r : r = NewSlot(s, a, t, d)
  OBVIOUS
<1>3. slots' = r.slots /\ schedule' = r.schedule
  BY <1>1, <1>2 DEF Become
<1>4. /\ IsTable(slots') /\ DOMAIN slots' = DOMAIN slots \cup {a}
      /\ ScheduleOK(slots', schedule')
      /\ \A c \in DOMAIN slots : slots'[c] = s.slots[c]
      /\ slots'[a] = [timer |-> t, left |-> d, done |-> FALSE]
  BY <1>2, <1>3, NewSlotFacts
<1>5. ~destroyed
  OBVIOUS
<1>6. TypeOK'
  BY <1>1, <1>4 DEF ExecutorInv, TypeOK
<1>7. LiveSlots'
  <2> SUFFICES ASSUME NEW c \in DOMAIN slots', ~slots'[c].done
               PROVE  /\ handle'[slots'[c].timer] = c
                      /\ slots'[c].timer \in waiting'
                      /\ slots'[c].timer \in Backoffs =>
                           slots'[c].left + soFar'[slots'[c].timer] >= gap'[slots'[c].timer]
                      /\ ~destroyed'
    BY DEF LiveSlots
  <2>1. CASE c = a
    <3>1. slots'[c].timer = t /\ slots'[c].left = d
      BY <1>4, <2>1
    <3>2. handle'[t] = a /\ t \in waiting'
      BY <1>1 DEF ExecutorInv, TypeOK
    <3> QED
      BY <1>5, <2>1, <3>1, <3>2
  <2>2. CASE c # a
    <3>1. PICK u : u = slots[c].timer
      OBVIOUS
    <3>2. /\ c \in DOMAIN slots /\ ~slots[c].done /\ c # handle[t]
          /\ slots'[c].timer = u /\ slots'[c].left = slots[c].left
      BY <1>4, <2>2, <3>1
    <3>3. u \in Timers
      BY <3>1, <3>2 DEF ExecutorInv, TypeOK, IsTable, Slot
    <3>4. /\ handle[u] = c /\ u \in waiting
          /\ u \in Backoffs => slots[c].left + soFar[u] >= gap[u]
      BY <3>1, <3>2 DEF ExecutorInv, LiveSlots
    <3>5. u # t
      BY <3>2, <3>4
    <3>6. handle'[u] = c /\ u \in waiting'
      BY <1>1, <3>3, <3>4, <3>5 DEF ExecutorInv, TypeOK
    <3>7. u \in Backoffs => gap'[u] = gap[u]
      BY <3>5
    <3> QED
      BY <1>5, <3>2, <3>4, <3>6, <3>7
  <2> QED
    BY <2>1, <2>2
<1>8. QueuedSlots'
  <2>1. \A c \in DOMAIN slots : slots'[c].left = slots[c].left
    BY <1>4
  <2> QED
    BY <1>4, <2>1 DEF ExecutorInv, QueuedSlots
<1>9. RunningSlot'
  BY <1>4, <1>5 DEF ExecutorInv, RunningSlot
<1> QED
  BY <1>4, <1>6, <1>7, <1>8, <1>9 DEF ExecutorInv

LEMMA BackoffAndRunPreserves ==
    ASSUME ExecutorInv, NEW b \in Backoffs, BackoffAndRun(b)
    PROVE  ExecutorInv'
<1>1. b \in Timers
  BY DEF Timers
<1>2. base[b] \in 0..MaxDelay /\ soFar[b] \in Nat /\ handle[b] \in Addresses \cup {None}
  BY <1>1 DEF ExecutorInv, TypeOK
<1>3. PICK s : s = CancelHandle(State, handle[b])
  OBVIOUS
<1>4. PICK jitter \in DelayWithJitter(base[b]) :
        ScheduleTimer(s, b, RemainingDelay(base[b] + jitter, soFar[b]))
  BY <1>3 DEF BackoffAndRun
<1>5. jitter \in Int /\ base[b] + jitter >= base[b] - base[b] \div 2
  BY <1>2, DelayFacts
<1>6. NextBase(base[b]) \in 0..MaxDelay /\ base[b] - base[b] \div 2 \in 0..MaxDelay
  BY <1>2, DelayFacts
<1>7. PICK g \in 0..MaxDelay : g = base[b] - base[b] \div 2
  BY <1>6
<1>8. PICK desired \in Int : desired = base[b] + jitter
  BY <1>2, <1>5
<1>9. PICK d : d = RemainingDelay(desired, soFar[b])
  OBVIOUS
<1>10. d \in Nat /\ d + soFar[b] >= desired
  BY <1>2, <1>9, RemainingFacts
<1>11. d + soFar[b] >= g
  BY <1>2, <1>5, <1>7, <1>8, <1>10, ExponentialBackoffAssumption
<1>12. /\ gap' = [gap EXCEPT ![b] = g]
       /\ base' = [base EXCEPT ![b] = NextBase(base[b])]
       /\ UNCHANGED <<queue, running, invoked, soFar, destroyed>>
       /\ ~destroyed
  BY <1>7 DEF BackoffAndRun
<1>13. base' \in [Backoffs -> 0..MaxDelay] /\ gap' \in [Backoffs -> 0..MaxDelay]
  BY <1>6, <1>12 DEF ExecutorInv, TypeOK
<1>14. gap'[b] = g /\ \A c \in Backoffs \ {b} : gap'[c] = gap[c]
  BY <1>12 DEF ExecutorInv, TypeOK
<1>15. State.slots = slots /\ State.schedule = schedule
  BY DEF State
<1>16. /\ IsTable(s.slots) /\ DOMAIN s.slots = DOMAIN slots
       /\ ScheduleOK(s.slots, s.schedule)
       /\ \A c \in DOMAIN slots : /\ s.slots[c].timer = slots[c].timer
                                  /\ s.slots[c].left = slots[c].left
                                  /\ s.slots[c].done <=> slots[c].done \/ c = handle[b]
  BY <1>2, <1>3, <1>15, CancelFacts, ZenonT(60) DEF ExecutorInv, TypeOK
<1>17. ScheduleTimer(s, b, d)
  BY <1>4, <1>8, <1>9
<1> QED
  BY <1>1, <1>10, <1>11, <1>12, <1>13, <1>14, <1>16, <1>17, SchedulePreserves

LEMMA ResetBasePreserves ==
    ASSUME ExecutorInv, NEW b \in Backoffs, ResetBase(b)
    PROVE  ExecutorInv'
<1>1. PICK next \in {0, MaxDelay} : base' = [base EXCEPT ![b] = next]
  BY DEF ResetBase
<1>2. next \in 0..MaxDelay
  BY ExponentialBackoffAssumption
<1>3. UNCHANGED <<slots, schedule, queue, running, invoked, handle, waiting, soFar, gap, destroyed>>
  BY DEF ResetBase, executorVars
<1>4. TypeOK'
  BY <1>1, <1>2, <1>3 DEF ExecutorInv, TypeOK
<1>5. ScheduleOK(slots, schedule)' /\ LiveSlots' /\ QueuedSlots' /\ RunningSlot'
  BY <1>3 DEF ExecutorInv, ScheduleOK, LiveSlots, QueuedSlots, RunningSlot
<1> QED
  BY <1>4, <1>5 DEF ExecutorInv

LEMMA StartTimerPreserves ==
    ASSUME ExecutorInv, NEW t \in Others, StartTimer(t)
    PROVE  ExecutorInv'
<1>1. t \in Timers /\ t \notin Backoffs /\ Delay \in Nat /\ None \notin Addresses
  BY ExecutorLibdispatchAssumption DEF Timers
<1>2. PICK s : s = State
  OBVIOUS
<1>3. s.slots = slots /\ s.schedule = schedule
  BY <1>2 DEF State
<1>4. /\ ~destroyed /\ handle[t] = None /\ ScheduleTimer(s, t, Delay)
      /\ UNCHANGED <<queue, running, invoked, base, soFar, gap, destroyed>>
  BY <1>2 DEF StartTimer, backoffVars
<1>5. IsTable(s.slots) /\ DOMAIN s.slots = DOMAIN slots /\ ScheduleOK(s.slots, s.schedule)
  BY <1>3 DEF ExecutorInv, TypeOK
<1>6. \A c \in DOMAIN slots : c # handle[t]
  BY <1>1, <1>4 DEF ExecutorInv, TypeOK, IsTable
<1>7. \A c \in DOMAIN slots : /\ s.slots[c].timer = slots[c].timer
                              /\ s.slots[c].left = slots[c].left
                              /\ s.slots[c].done <=> slots[c].done \/ c = handle[t]
  BY <1>3, <1>6
<1>8. /\ base' \in [Backoffs -> 0..MaxDelay] /\ gap' \in [Backoffs -> 0..MaxDelay]
      /\ \A b \in Backoffs \ {t} : gap'[b] = gap[b]
  BY <1>4 DEF ExecutorInv, TypeOK
<1> QED
  BY <1>1, <1>4, <1>5, <1>7, <1>8, SchedulePreserves

LEMMA CancelPreserves ==
    ASSUME ExecutorInv, NEW t \in Timers, Cancel(t)
    PROVE  ExecutorInv'
<1>1. PICK r : r = CancelHandle(State, handle[t])
  OBVIOUS
<1>2. /\ slots' = r.slots /\ schedule' = r.schedule
      /\ handle' = [handle EXCEPT ![t] = None] /\ waiting' = waiting \ {t}
      /\ UNCHANGED <<queue, running, invoked, base, soFar, gap, destroyed>>
  BY <1>1 DEF Cancel, Become, backoffVars
<1>3. handle[t] \in Addresses \cup {None}
  BY DEF ExecutorInv, TypeOK
<1>4. State.slots = slots /\ State.schedule = schedule
  BY DEF State
<1>5. /\ IsTable(slots') /\ DOMAIN slots' = DOMAIN slots
      /\ ScheduleOK(slots', schedule')
      /\ \A c \in DOMAIN slots : /\ slots'[c].timer = slots[c].timer
                                 /\ slots'[c].left = slots[c].left
                                 /\ slots'[c].done <=> slots[c].done \/ c = handle[t]
  BY <1>1, <1>2, <1>3, <1>4, CancelFacts, ZenonT(60) DEF ExecutorInv, TypeOK
<1>6. TypeOK'
  BY <1>2, <1>5 DEF ExecutorInv, TypeOK
<1>7. LiveSlots'
  <2> SUFFICES ASSUME NEW c \in DOMAIN slots, ~slots'[c].done
               PROVE  /\ handle'[slots'[c].timer] = c
                      /\ slots'[c].timer \in waiting'
                      /\ slots'[c].timer \in Backoffs =>
                           slots'[c].left + soFar'[slots'[c].timer] >= gap'[slots'[c].timer]
                      /\ ~destroyed'
    BY <1>5 DEF LiveSlots
  <2>1. PICK u : u = slots[c].timer
    OBVIOUS
  <2>2. /\ ~slots[c].done /\ c # handle[t]
        /\ slots'[c].timer = u /\ slots'[c].left = slots[c].left
    BY <1>5, <2>1
  <2>3. u \in Timers
    BY <2>1 DEF ExecutorInv, TypeOK, IsTable, Slot
  <2>4. /\ handle[u] = c /\ u \in waiting /\ ~destroyed
        /\ u \in Backoffs => slots[c].left + soFar[u] >= gap[u]
    BY <2>1, <2>2 DEF ExecutorInv, LiveSlots
  <2>5. u # t
    BY <2>2, <2>4
  <2>6. handle'[u] = c /\ u \in waiting'
    BY <1>2, <2>3, <2>4, <2>5 DEF ExecutorInv, TypeOK
  <2> QED
    BY <1>2, <2>2, <2>4, <2>6
<1>8. QueuedSlots'
  BY <1>2, <1>5 DEF ExecutorInv, QueuedSlots
<1>9. RunningSlot'
  BY <1>2, <1>5 DEF ExecutorInv, RunningSlot
<1> QED
  BY <1>5, <1>6, <1>7, <1>8, <1>9 DEF ExecutorInv

-----------------------------------------------------------------------------
(* The theorems.                                                           *)

LEMMA InitEstablishes == Init => ExecutorInv
<1> SUFFICES ASSUME Init PROVE ExecutorInv
  OBVIOUS
<1>1. DOMAIN slots = {} /\ slots \in [{} -> Slot]
  BY DEF Init
<1>2. schedule \in Seq(Addresses) /\ Len(schedule) = 0
  BY DEF Init
<1>3. queue \in Seq(Tasks \cup Addresses) /\ Len(queue) = 0
  BY DEF Init
<1>4. TypeOK
  <2>1. IsTable(slots)
    BY <1>1 DEF IsTable
  <2>2. 0 \in 0..MaxDelay
    BY ExponentialBackoffAssumption
  <2> QED
    BY <1>3, <2>1, <2>2 DEF Init, TypeOK
<1>5. ScheduleOK(slots, schedule)
  BY <1>1, <1>2 DEF ScheduleOK, Distinct, Contains
<1>6. LiveSlots /\ QueuedSlots /\ RunningSlot
  BY <1>1, <1>3 DEF Init, LiveSlots, QueuedSlots, RunningSlot
<1> QED
  BY <1>4, <1>5, <1>6 DEF ExecutorInv

LEMMA NextPreserves ==
    ASSUME ExecutorInv, [Next]_vars
    PROVE  ExecutorInv'
<1>1. CASE UNCHANGED vars
  <2>1. TypeOK'
    BY <1>1 DEF vars, ExecutorInv, TypeOK
  <2> QED
    BY <1>1, <2>1 DEF vars, ExecutorInv, ScheduleOK, LiveSlots, QueuedSlots, RunningSlot
<1>2. CASE Next
  BY <1>2, ExecutePreserves, SlotIsDuePreserves, RunTaskPreserves, SkipSlotPreserves,
     RunSlotPreserves, EndOperationPreserves, DestroyPreserves, TickPreserves,
     BackoffAndRunPreserves, ResetBasePreserves, StartTimerPreserves, CancelPreserves
     DEF Next
<1> QED
  BY <1>1, <1>2

\* The invariant holds: the schedule of ExecutorLibdispatch has exactly the slots that
\* are not done, an owner's handle is the address of its only live slot, a slot that
\* libdispatch has on its queue still exists, and the backoff's slot keeps its distance.
THEOREM ExecutorSafety == Spec => []ExecutorInv
<1>1. ExecutorInv /\ [Next]_vars => ExecutorInv'
  BY NextPreserves
<1> QED
  BY <1>1, InitEstablishes, PTL DEF Spec

\* An operation starts in RunSlot only.
LEMMA OnlySlotsStart ==
    ASSUME ExecutorInv, [Next]_vars, NEW t \in Timers, running # t, running' = t
    PROVE  RunSlot
<1>1. t # None /\ t \notin Tasks
  BY ExecutorLibdispatchAssumption DEF Timers
<1>2. running' # running
  OBVIOUS
<1>3. ASSUME NEW x \in Tasks PROVE ~Execute(x)
  BY <1>2 DEF Execute
<1>4. ASSUME NEW a \in Addresses PROVE ~SlotIsDue(a)
  BY <1>2 DEF SlotIsDue
<1>5. ~RunTask /\ ~SkipSlot /\ ~EndOperation /\ ~Destroy /\ ~Tick
  BY <1>1, <1>2 DEF RunTask, SkipSlot, EndOperation, Destroy, Tick
<1>6. ASSUME NEW b \in Backoffs PROVE ~BackoffAndRun(b) /\ ~ResetBase(b)
  BY <1>2 DEF BackoffAndRun, ResetBase, executorVars
<1>7. ASSUME NEW u \in Others PROVE ~StartTimer(u)
  BY <1>2 DEF StartTimer
<1>8. ASSUME NEW u \in Timers PROVE ~Cancel(u)
  BY <1>2 DEF Cancel
<1>9. ~UNCHANGED vars
  BY <1>2 DEF vars
<1> QED
  BY <1>3, <1>4, <1>5, <1>6, <1>7, <1>8, <1>9 DEF Next

\* TimeSlot::Execute starts no operation that its owner has cancelled, that has run, or
\* that libdispatch holds when the executor is destroyed, with any number of timers,
\* slots and reused addresses.
THEOREM CancelledStaysCancelled == Spec => CancelledNeverRuns
<1>1. ExecutorInv /\ [Next]_vars =>
        [\A t \in Timers : running # t /\ running' = t => t \in waiting /\ ~destroyed]_vars
  BY OnlySlotsStart, RunSlotFacts
<1> QED
  BY <1>1, ExecutorSafety, PTL DEF Spec, CancelledNeverRuns

\* ExponentialBackoff::BackoffAndRun over libdispatch timers: two attempts are never
\* closer than half of the delay the backoff has grown to, for any initial and maximal
\* delay and whatever is cancelled, restarted or reset in between.
THEOREM AttemptsKeepDistance == Spec => AttemptsAreSpaced
<1>1. ExecutorInv /\ [Next]_vars =>
        [\A b \in Backoffs : running # b /\ running' = b => soFar[b] >= gap[b]]_vars
  <2> SUFFICES ASSUME ExecutorInv, [Next]_vars, NEW b \in Backoffs, running # b, running' = b
               PROVE  soFar[b] >= gap[b]
    OBVIOUS
  <2>1. b \in Timers
    BY DEF Timers
  <2>2. RunSlot
    BY <2>1, OnlySlotsStart
  <2> QED
    BY <2>2, RunSlotFacts
<1> QED
  BY <1>1, ExecutorSafety, PTL DEF Spec, AttemptsAreSpaced

=============================================================================
