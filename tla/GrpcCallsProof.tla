--------------------------- MODULE GrpcCallsProof ---------------------------
(***************************************************************************)
(* Proofs about GrpcCalls, for any calls of any classes and any bounds.    *)
(***************************************************************************)
EXTENDS GrpcCalls, Integers, TLAPS, SequenceTheorems, FiniteSetTheorems

-----------------------------------------------------------------------------
(* The inductive invariant.                                                *)

Places == {"nothing", "lastWrite", "finish", "drain"}
Phases == {"no", "streams", "calls", "queue"}
Statuses == {"none", "ok", "error"}
Types == {"Read", "Write", "Finish"}
GrpcOps == [n : Nat, type : Types]
Events == [call : Calls, n : Nat, type : Types, ok : BOOLEAN, status : Statuses]
OpNames ==
    {"Close", "WriteAndFinish", "FinishImmediately", "FinishAndNotify", "FinishGrpcCall"}
Operations == [op : OpNames, call : Calls, status : Statuses]

Fields ==
    [kind : Kinds, life : {"none", "live", "dead"}, observer : BOOLEAN, registered : BOOLEAN,
     isCallFinished : BOOLEAN, hasActiveWrite : BOOLEAN, buffer : Nat,
     completions : SUBSET Nat, cancelled : SUBSET Nat, ops : SUBSET GrpcOps,
     contextCancelled : BOOLEAN, unread : Int, owed : Int, ended : {"no", "ok", "error"},
     result : Statuses]

TypeOK ==
    /\ call \in [Calls -> Fields] /\ activeCalls \in Seq(Calls) /\ todo \in Seq(Operations)
    /\ blockedIn \in Places /\ shutdown \in Phases
    /\ workQueue \in Seq(Events) /\ poller \in Seq(Events)

\* The completions on their way to the worker queue, and those of call c.
Transit == workQueue \o poller
Of(seq, c) == {e \in Range(seq) : e.call = c}

\* No two completions of a call at one address.
Distinct(seq) ==
    \A i, j \in 1 .. Len(seq) : seq[i].call = seq[j].call /\ seq[i].n = seq[j].n => i = j

\* With E the completions of the call that are on their way: completions_ holds what gRPC
\* has, and what is on its way and was not cancelled; and addresses are not shared.
BooksOK(s, E) ==
    /\ IsFiniteSet(s.completions) /\ IsFiniteSet(s.cancelled)
    /\ \A op \in s.ops : op.n \in s.completions
    /\ \A op1, op2 \in s.ops : op1.n = op2.n => op1 = op2
    /\ \A op \in s.ops, e \in E : op.n # e.n
    /\ \A e \in E : e.n \in s.completions \cup s.cancelled
    /\ \A n \in s.completions : (\E op \in s.ops : op.n = n) \/ (\E e \in E : e.n = n)

\* One operation of a type at a time, until its callback runs.
SingleOK(s, E) ==
    /\ \A op1, op2 \in s.ops : op1.type = op2.type => op1 = op2
    /\ \A op \in s.ops, e \in E : e.n \notin s.cancelled => op.type # e.type
    /\ \A e1, e2 \in E :
        e1.n \notin s.cancelled /\ e2.n \notin s.cancelled /\ e1.type = e2.type => e1 = e2

Pending(s, E, type) ==
    \/ \E op \in s.ops : op.type = type
    \/ \E e \in E : e.n \notin s.cancelled /\ e.type = type

LifeOK(s, E) ==
    /\ s.life # "live" => s.completions = {} /\ ~s.registered
    /\ s.life = "none" => s = NewCall /\ E = {}
    /\ s.life = "dead" /\ s.kind # "unary" => s.isCallFinished
    /\ s.life = "live" /\ s.kind # "unary" /\ ~s.isCallFinished => s.observer /\ Pending(s, E, "Read")
    /\ Pending(s, E, "Write") => s.hasActiveWrite
    /\ s.life = "live" /\ s.isCallFinished => IsDoomed(s)
    /\ \A e \in E : e.n \notin s.cancelled /\ ~e.ok => IsDoomed(s)

\* With ops to do, and blocked at this place in the first: the worker waits for call c.
Waits(ops, place, c) == ops # <<>> /\ place \in {"finish", "drain"} /\ Head(ops).call = c

\* The worker does not wait for the call; or it waits, and has cancelled its completions.
FreeOK(s, E) ==
    BooksOK(s, E) /\ SingleOK(s, E) /\ LifeOK(s, E) /\ s.completions \cap s.cancelled = {}

WaitedOK(s, E) ==
    /\ BooksOK(s, E) /\ SingleOK(s, E) /\ LifeOK(s, E)
    /\ s.completions \subseteq s.cancelled /\ (IsDoomed(s) \/ s.completions = {})
    /\ s.kind # "unary" => s.isCallFinished

CallOK(s, E, ops, place, c) == IF Waits(ops, place, c) THEN WaitedOK(s, E) ELSE FreeOK(s, E)

CallsOK == \A c \in Calls : CallOK(call[c], Of(Transit, c), todo, blockedIn, c)

Injective(seq) == \A i, j \in 1 .. Len(seq) : seq[i] = seq[j] => i = j

ActiveOK ==
    /\ Injective(activeCalls)
    /\ \A c \in Calls : call[c].registered <=> c \in Range(activeCalls)

\* What may be asked for in a phase of the shutdown.
Allowed(phase) ==
    CASE phase = "no" -> {"Close", "WriteAndFinish", "FinishAndNotify", "FinishGrpcCall"}
      [] phase = "streams" -> {"Close", "WriteAndFinish"}
      [] phase = "calls" -> {"FinishImmediately"}
      [] phase = "queue" -> {}

\* No two operations with one call.
Apart(ops) == \A i, j \in 1 .. Len(ops) : ops[i].call = ops[j].call => i = j

TodoOK ==
    /\ Apart(todo)
    /\ \A i \in 1 .. Len(todo) :
        /\ call[todo[i].call].life = "live"
        /\ todo[i].op \in Allowed(shutdown)
        /\ todo[i].op = "FinishGrpcCall" =>
            i = 1 /\ blockedIn = "finish" /\ call[todo[i].call].registered
    /\ todo = <<>> => blockedIn = "nothing"
    /\ blockedIn = "finish" => call[Head(todo).call].isCallFinished
    /\ blockedIn = "drain" => ~call[Head(todo).call].registered
    /\ blockedIn = "finish" /\ Head(todo).op # "FinishGrpcCall" =>
        ~call[Head(todo).call].registered

IsToDo(ops, c) == \E i \in 1 .. Len(ops) : ops[i].call = c

InPhase(s, phase, ops, c) ==
    s.life = "live" =>
        /\ phase \in {"no", "streams"} => s.observer /\ (s.registered \/ IsToDo(ops, c))
        /\ phase = "streams" /\ s.kind = "stream" => IsToDo(ops, c)
        /\ phase \in {"calls", "queue"} =>
            s.kind # "stream" /\ (s.completions # {} => IsToDo(ops, c))

PhaseOK == \A c \in Calls : InPhase(call[c], shutdown, todo, c)

GrpcInv == TypeOK /\ Distinct(Transit) /\ CallsOK /\ ActiveOK /\ TodoOK /\ PhaseOK /\ failed = {}

-----------------------------------------------------------------------------
(* Operators of the model on the fields of a call.                         *)

\* The address of a new completion is one that nothing has.
LEMMA NewCompletionIs ==
    ASSUME NEW s \in Fields, NEW E, BooksOK(s, E), NEW type
    PROVE  \E n \in Nat :
              /\ n \notin s.completions /\ n \notin s.cancelled
              /\ NewCompletion(s, type) =
                    [s EXCEPT !.completions = @ \cup {n},
                              !.ops = @ \cup {[n |-> n, type |-> type]}]
<1>1. PICK used : used = s.completions \cup s.cancelled \cup {op.n : op \in s.ops}
  OBVIOUS
<1>2. used = s.completions \cup s.cancelled
  BY <1>1 DEF BooksOK
<1>3. IsFiniteSet(used)
  BY <1>2, FS_Union DEF BooksOK
<1>4. Cardinality(used) \in Nat
  BY <1>3, FS_CardinalityType
<1>5. PICK k \in Nat : k = Cardinality(used)
  BY <1>4
<1>6. IsFiniteSet(1 .. k + 1) /\ Cardinality(1 .. k + 1) = k + 1
  <2>1. 1 \in Int /\ k + 1 \in Int /\ ~(1 > k + 1) /\ (k + 1) - 1 + 1 = k + 1
    OBVIOUS
  <2> QED
    BY <2>1, FS_Interval
<1>7. \E n \in 1 .. k + 1 : n \notin used
  <2>1. SUFFICES ASSUME 1 .. k + 1 \subseteq used PROVE FALSE
    OBVIOUS
  <2>2. Cardinality(1 .. k + 1) <= Cardinality(used)
    BY <2>1, <1>3, FS_Subset
  <2> QED
    BY <2>2, <1>5, <1>6
<1>8. PICK n : n = FreeAddress(s)
  OBVIOUS
<1>9. n = CHOOSE m \in 1 .. k + 1 : m \notin used
  BY <1>1, <1>5, <1>8 DEF FreeAddress
<1>10. n \in 1 .. k + 1 /\ n \notin used
  BY <1>7, <1>9
<1>11. n \in Nat /\ n \notin s.completions /\ n \notin s.cancelled
  BY <1>2, <1>10
<1> QED
  BY <1>8, <1>11 DEF NewCompletion

\* The fields that say where a call is in its life.
Kept(t, s) ==
    /\ t.kind = s.kind /\ t.life = s.life /\ t.observer = s.observer
    /\ t.registered = s.registered /\ t.isCallFinished = s.isCallFinished
    /\ t.contextCancelled = s.contextCancelled /\ t.ended = s.ended

LEMMA NewOK ==
    ASSUME NEW s \in Fields, NEW E, BooksOK(s, E), SingleOK(s, E),
           s.completions \cap s.cancelled = {},
           NEW type \in Types, ~Pending(s, E, type),
           NEW t, t = NewCompletion(s, type)
    PROVE  /\ t \in Fields /\ BooksOK(t, E) /\ SingleOK(t, E) /\ Kept(t, s)
           /\ t.completions \cap t.cancelled = {} /\ t.completions # {}
           /\ t.cancelled = s.cancelled
           /\ t.hasActiveWrite = s.hasActiveWrite /\ t.buffer = s.buffer /\ t.owed = s.owed
           /\ Pending(t, E, type)
           /\ \A other \in Types : other # type => (Pending(t, E, other) <=> Pending(s, E, other))
<1>1. PICK n \in Nat :
          /\ n \notin s.completions /\ n \notin s.cancelled
          /\ t = [s EXCEPT !.completions = @ \cup {n},
                           !.ops = @ \cup {[n |-> n, type |-> type]}]
  BY NewCompletionIs
<1>2. PICK o \in GrpcOps : o = [n |-> n, type |-> type]
  BY DEF GrpcOps
<1>3. o.n = n /\ o.type = type
  BY <1>2
<1>31. PICK C \in SUBSET Nat : C = s.completions \cup {n}
  BY DEF Fields
<1>32. PICK O \in SUBSET GrpcOps : O = s.ops \cup {o}
  BY DEF Fields
<1>33. t = [s EXCEPT !.completions = C, !.ops = O]
  BY <1>1, <1>2, <1>31, <1>32 DEF Fields
<1>4. /\ t.completions = s.completions \cup {n} /\ t.cancelled = s.cancelled
      /\ t.ops = s.ops \cup {o}
  BY <1>31, <1>32, <1>33 DEF Fields
<1>5. /\ t \in Fields /\ Kept(t, s) /\ t.hasActiveWrite = s.hasActiveWrite
      /\ t.buffer = s.buffer /\ t.owed = s.owed
  BY <1>33 DEF Fields, Kept
<1>6. BooksOK(t, E)
  <2>1. IsFiniteSet(t.completions) /\ IsFiniteSet(t.cancelled)
    <3>1. IsFiniteSet(s.completions) /\ IsFiniteSet(s.cancelled)
      BY DEF BooksOK
    <3>2. IsFiniteSet(s.completions \cup {n})
      BY <3>1, FS_AddElement
    <3> QED
      BY <1>4, <3>1, <3>2
  <2>2. \A e \in E : e.n # n
    BY <1>1 DEF BooksOK
  <2>3. \A op \in s.ops : op.n # n
    BY <1>1 DEF BooksOK
  <2>4. \A op \in t.ops : op.n \in t.completions
    BY <1>3, <1>4 DEF BooksOK
  <2>5. \A op1, op2 \in t.ops : op1.n = op2.n => op1 = op2
    BY <1>3, <1>4, <2>3 DEF BooksOK
  <2>6. \A op \in t.ops, e \in E : op.n # e.n
    BY <1>3, <1>4, <2>2 DEF BooksOK
  <2>7. \A e \in E : e.n \in t.completions \cup t.cancelled
    BY <1>4 DEF BooksOK
  <2>8. \A m \in t.completions : (\E op \in t.ops : op.n = m) \/ (\E e \in E : e.n = m)
    BY <1>3, <1>4 DEF BooksOK
  <2> QED
    BY <2>1, <2>4, <2>5, <2>6, <2>7, <2>8 DEF BooksOK
<1>7. SingleOK(t, E)
  <2>1. /\ \A op \in s.ops : op.type # type
        /\ \A e \in E : e.n \notin s.cancelled => e.type # type
    BY DEF Pending
  <2> QED
    BY <1>3, <1>4, <2>1 DEF SingleOK
<1>8. Pending(t, E, type)
  BY <1>3, <1>4 DEF Pending
<1>9. \A other \in Types : other # type => (Pending(t, E, other) <=> Pending(s, E, other))
  BY <1>3, <1>4 DEF Pending
<1>10. t.completions \cap t.cancelled = {} /\ t.completions # {}
  BY <1>1, <1>4
<1> QED
  BY <1>4, <1>5, <1>6, <1>7, <1>8, <1>9, <1>10

\* What LifeOK says of a call depends on these fields and on what is pending.
LEMMA SameLife ==
    ASSUME NEW s, NEW t, NEW E, LifeOK(s, E), s.life = "live", Kept(t, s),
           t.cancelled = s.cancelled,
           Pending(t, E, "Write") => t.hasActiveWrite,
           Pending(s, E, "Read") => Pending(t, E, "Read")
    PROVE  LifeOK(t, E)
BY DEF LifeOK, Kept, IsDoomed

\* A write is started if there is one and none is active.
LEMMA TryStartOK ==
    ASSUME NEW u \in Fields, NEW E, FreeOK(u, E), u.life = "live",
           NEW t, t = TryStartWrite(u)
    PROVE  t \in Fields /\ FreeOK(t, E) /\ Kept(t, u)
<1>1. CASE t = u
  BY <1>1 DEF Kept
<1>2. CASE t # u
  <2>1. ~u.hasActiveWrite /\ u.buffer # 0
    BY <1>2 DEF TryStartWrite
  <2>2. PICK v : v = [u EXCEPT !.hasActiveWrite = TRUE, !.buffer = @ - 1]
    OBVIOUS
  <2>3. t = NewCompletion(v, "Write")
    BY <1>2, <2>2 DEF TryStartWrite
  <2>4. /\ v \in Fields /\ Kept(v, u) /\ v.completions = u.completions /\ v.ops = u.ops
        /\ v.cancelled = u.cancelled /\ v.hasActiveWrite
    <3>1. PICK b \in Nat : b = u.buffer - 1
      BY <2>1 DEF Fields
    <3>2. v = [u EXCEPT !.hasActiveWrite = TRUE, !.buffer = b]
      BY <2>2, <3>1 DEF Fields
    <3> QED
      BY <3>2 DEF Fields, Kept
  <2>5. BooksOK(v, E) /\ SingleOK(v, E) /\ v.completions \cap v.cancelled = {}
    BY <2>4 DEF FreeOK, BooksOK, SingleOK
  <2>6. \A type : Pending(v, E, type) <=> Pending(u, E, type)
    BY <2>4 DEF Pending
  <2>7. ~Pending(v, E, "Write")
    BY <2>1, <2>6 DEF FreeOK, LifeOK
  <2>8. "Write" \in Types /\ "Read" \in Types
    BY DEF Types
  <2>9. /\ t \in Fields /\ BooksOK(t, E) /\ SingleOK(t, E) /\ Kept(t, v)
        /\ t.completions \cap t.cancelled = {} /\ t.cancelled = v.cancelled
        /\ t.hasActiveWrite = v.hasActiveWrite
        /\ Pending(t, E, "Read") <=> Pending(v, E, "Read")
    BY <2>3, <2>4, <2>5, <2>7, <2>8, NewOK
  <2>10. Kept(t, u)
    BY <2>4, <2>9 DEF Kept
  <2>11. LifeOK(u, E)
    BY DEF FreeOK
  <2>12. LifeOK(t, E)
    BY <2>4, <2>6, <2>9, <2>10, <2>11, SameLife
  <2> QED
    BY <2>9, <2>10, <2>12 DEF FreeOK
<1> QED
  BY <1>1, <1>2

\* Write, of a call that the worker does not wait for.
LEMMA WriteOK ==
    ASSUME NEW s \in Fields, NEW E, FreeOK(s, E), s.life = "live",
           NEW t, t = Write(s)
    PROVE  t \in Fields /\ FreeOK(t, E) /\ Kept(t, s)
<1>1. PICK u : u = [s EXCEPT !.buffer = @ + 1]
  OBVIOUS
<1>2. /\ u \in Fields /\ Kept(u, s) /\ u.completions = s.completions /\ u.ops = s.ops
      /\ u.cancelled = s.cancelled /\ u.hasActiveWrite = s.hasActiveWrite
  BY <1>1 DEF Fields, Kept
<1>3. FreeOK(u, E)
  <2>1. BooksOK(u, E) /\ SingleOK(u, E) /\ u.completions \cap u.cancelled = {}
    BY <1>2 DEF FreeOK, BooksOK, SingleOK
  <2>2. \A type : Pending(u, E, type) <=> Pending(s, E, type)
    BY <1>2 DEF Pending
  <2>3. Pending(s, E, "Write") => s.hasActiveWrite
    BY DEF FreeOK, LifeOK
  <2>4. LifeOK(u, E)
    BY <1>2, <2>2, <2>3, SameLife DEF FreeOK
  <2> QED
    BY <2>1, <2>4 DEF FreeOK
<1>4. t = TryStartWrite(u) /\ u.life = "live"
  BY <1>1, <1>2 DEF Write, Kept
<1>5. t \in Fields /\ FreeOK(t, E) /\ Kept(t, u)
  BY <1>2, <1>3, <1>4, TryStartOK
<1> QED
  BY <1>2, <1>5 DEF Kept

\* e is the only completion of E at its address.
Sole(E, e) == e \in E /\ \A x \in E : x.n = e.n => x = e

\* The fields without a completion.
IsWithout(r, s, n) == r = [s EXCEPT !.completions = @ \ {n}]
IsRest(F, E, e) == F = E \ {e}

\* RemoveCompletion for a callback that was not cancelled.
LEMMA RemoveOK ==
    ASSUME NEW s \in Fields, NEW E, FreeOK(s, E), NEW e, Sole(E, e),
           e.n \notin s.cancelled,
           NEW F, IsRest(F, E, e), NEW r, IsWithout(r, s, e.n)
    PROVE  /\ s.life = "live" /\ e.n \in s.completions
           /\ r \in Fields /\ BooksOK(r, F) /\ SingleOK(r, F) /\ Kept(r, s)
           /\ r.completions \cap r.cancelled = {} /\ r.cancelled = s.cancelled
           /\ r.hasActiveWrite = s.hasActiveWrite
           /\ ~Pending(r, F, e.type)
           /\ Pending(r, F, "Write") => Pending(s, E, "Write")
           /\ e.type # "Read" => (Pending(r, F, "Read") <=> Pending(s, E, "Read"))
           /\ \A x \in F : x.n \notin r.cancelled /\ ~x.ok => IsDoomed(r)
<1>1. e \in E /\ F = E \ {e} /\ \A x \in E : x.n = e.n => x = e
  BY DEF Sole, IsRest
<1>2. e.n \in s.completions
  BY <1>1 DEF FreeOK, BooksOK
<1>3. s.life = "live"
  BY <1>2 DEF FreeOK, LifeOK
<1>4. PICK C \in SUBSET Nat : C = s.completions \ {e.n}
  BY DEF Fields
<1>5. r = [s EXCEPT !.completions = C]
  BY <1>4 DEF Fields, IsWithout
<1>6. /\ r \in Fields /\ Kept(r, s) /\ r.cancelled = s.cancelled /\ r.ops = s.ops
      /\ r.hasActiveWrite = s.hasActiveWrite /\ r.completions = C
  BY <1>5 DEF Fields, Kept
<1>7. \A op \in s.ops : op.n # e.n
  BY <1>1 DEF FreeOK, BooksOK
<1>8. BooksOK(r, F)
  <2>1. IsFiniteSet(r.completions) /\ IsFiniteSet(r.cancelled)
    <3>1. IsFiniteSet(s.completions) /\ IsFiniteSet(s.cancelled)
      BY DEF FreeOK, BooksOK
    <3>2. IsFiniteSet(C)
      BY <1>4, <3>1, FS_Subset
    <3> QED
      BY <1>6, <3>1, <3>2
  <2>2. \A op \in r.ops : op.n \in r.completions
    BY <1>4, <1>6, <1>7 DEF FreeOK, BooksOK
  <2>3. \A op1, op2 \in r.ops : op1.n = op2.n => op1 = op2
    BY <1>1, <1>6 DEF FreeOK, BooksOK
  <2>4. \A op \in r.ops, x \in F : op.n # x.n
    BY <1>1, <1>6 DEF FreeOK, BooksOK
  <2>5. \A x \in F : x.n \in r.completions \cup r.cancelled
    BY <1>1, <1>4, <1>6 DEF FreeOK, BooksOK
  <2>6. \A n \in r.completions : (\E op \in r.ops : op.n = n) \/ (\E x \in F : x.n = n)
    BY <1>1, <1>4, <1>6 DEF FreeOK, BooksOK
  <2> QED
    BY <2>1, <2>2, <2>3, <2>4, <2>5, <2>6 DEF BooksOK
<1>9. SingleOK(r, F)
  BY <1>1, <1>6 DEF FreeOK, SingleOK
<1>10. ~Pending(r, F, e.type)
  BY <1>1, <1>6 DEF FreeOK, SingleOK, Pending
<1>11. \A type : type # e.type => (Pending(r, F, type) <=> Pending(s, E, type))
  BY <1>1, <1>6 DEF Pending
<1>12. r.completions \cap r.cancelled = {}
  BY <1>4, <1>6 DEF FreeOK
<1>13. \A x \in F : x.n \notin r.cancelled /\ ~x.ok => IsDoomed(r)
  BY <1>1, <1>6 DEF FreeOK, LifeOK, Kept, IsDoomed
<1> QED
  BY <1>2, <1>3, <1>6, <1>8, <1>9, <1>10, <1>11, <1>12, <1>13

\* A callback that was cancelled.
LEMMA DeleteOK ==
    ASSUME NEW s \in Fields, NEW E, FreeOK(s, E), NEW e, Sole(E, e),
           e.n \in s.cancelled,
           NEW r, r = [s EXCEPT !.cancelled = @ \ {e.n}]
    PROVE  r \in Fields /\ Kept(r, s) /\ r.completions = s.completions /\ FreeOK(r, E \ {e})
<1>1. e \in E /\ \A x \in E : x.n = e.n => x = e
  BY DEF Sole
<1>2. PICK C \in SUBSET Nat : C = s.cancelled \ {e.n}
  BY DEF Fields
<1>3. r = [s EXCEPT !.cancelled = C]
  BY <1>2 DEF Fields
<1>4. /\ r \in Fields /\ Kept(r, s) /\ r.cancelled = C /\ r.ops = s.ops
      /\ r.hasActiveWrite = s.hasActiveWrite /\ r.completions = s.completions
  BY <1>3 DEF Fields, Kept
<1>5. e.n \notin s.completions
  BY DEF FreeOK
<1>6. BooksOK(r, E \ {e})
  <2>1. IsFiniteSet(r.completions) /\ IsFiniteSet(r.cancelled)
    <3>1. IsFiniteSet(s.completions) /\ IsFiniteSet(s.cancelled)
      BY DEF FreeOK, BooksOK
    <3>2. IsFiniteSet(C)
      BY <1>2, <3>1, FS_Subset
    <3> QED
      BY <1>4, <3>1, <3>2
  <2>2. \A op \in r.ops : op.n \in r.completions
    BY <1>4 DEF FreeOK, BooksOK
  <2>3. \A op1, op2 \in r.ops : op1.n = op2.n => op1 = op2
    BY <1>4 DEF FreeOK, BooksOK
  <2>4. \A op \in r.ops, x \in E \ {e} : op.n # x.n
    BY <1>4 DEF FreeOK, BooksOK
  <2>5. \A x \in E \ {e} : x.n \in r.completions \cup r.cancelled
    BY <1>1, <1>2, <1>4 DEF FreeOK, BooksOK
  <2>6. \A n \in r.completions : (\E op \in r.ops : op.n = n) \/ (\E x \in E \ {e} : x.n = n)
    BY <1>4, <1>5 DEF FreeOK, BooksOK
  <2> QED
    BY <2>1, <2>2, <2>3, <2>4, <2>5, <2>6 DEF BooksOK
<1>7. \A x \in E \ {e} : x.n \notin r.cancelled => x.n \notin s.cancelled
  BY <1>1, <1>2, <1>4
<1>8. SingleOK(r, E \ {e})
  BY <1>4, <1>7 DEF FreeOK, SingleOK
<1>9. \A type : Pending(r, E \ {e}, type) <=> Pending(s, E, type)
  BY <1>2, <1>4, <1>7 DEF Pending
<1>10. s.life # "none"
  BY <1>1 DEF FreeOK, LifeOK
<1>11. LifeOK(r, E \ {e})
  BY <1>4, <1>7, <1>9, <1>10 DEF FreeOK, LifeOK, Kept, IsDoomed
<1>12. r.completions \cap r.cancelled = {}
  BY <1>2, <1>4 DEF FreeOK
<1> QED
  BY <1>4, <1>6, <1>8, <1>11, <1>12 DEF FreeOK

\* Cancel() of every completion; what is pending can only become less.
LEMMA CancelOK ==
    ASSUME NEW s \in Fields, NEW E, BooksOK(s, E), SingleOK(s, E),
           NEW t, t = CancelCompletions(s)
    PROVE  /\ t \in Fields /\ BooksOK(t, E) /\ SingleOK(t, E) /\ Kept(t, s)
           /\ t.completions \subseteq t.cancelled /\ t.completions = s.completions
           /\ t.ops = s.ops /\ s.cancelled \subseteq t.cancelled
           /\ t.hasActiveWrite = s.hasActiveWrite
           /\ \A type : Pending(t, E, type) => Pending(s, E, type)
<1>1. PICK C \in SUBSET Nat : C = s.cancelled \cup s.completions
  BY DEF Fields
<1>2. t = [s EXCEPT !.cancelled = C]
  BY <1>1 DEF CancelCompletions, Fields
<1>3. /\ t \in Fields /\ Kept(t, s) /\ t.cancelled = C /\ t.ops = s.ops
      /\ t.hasActiveWrite = s.hasActiveWrite /\ t.completions = s.completions
  BY <1>2 DEF Fields, Kept
<1>4. BooksOK(t, E)
  <2>1. IsFiniteSet(t.completions) /\ IsFiniteSet(t.cancelled)
    <3>1. IsFiniteSet(s.completions) /\ IsFiniteSet(s.cancelled)
      BY DEF BooksOK
    <3>2. IsFiniteSet(C)
      BY <1>1, <3>1, FS_Union
    <3> QED
      BY <1>3, <3>1, <3>2
  <2> QED
    BY <1>1, <1>3, <2>1 DEF BooksOK
<1>5. SingleOK(t, E)
  BY <1>1, <1>3 DEF SingleOK
<1>6. \A type : Pending(t, E, type) => Pending(s, E, type)
  BY <1>1, <1>3 DEF Pending
<1> QED
  BY <1>1, <1>3, <1>4, <1>5, <1>6

\* Nothing of a call that was waited for is with gRPC, and every callback is cancelled.
LEMMA DrainedOK ==
    ASSUME NEW s \in Fields, NEW E, WaitedOK(s, E), AllOffQueue(s),
           NEW d, d = Drained(s)
    PROVE  /\ d \in Fields /\ BooksOK(d, E) /\ SingleOK(d, E) /\ Kept(d, s)
           /\ d.completions = {} /\ d.ops = {} /\ d.cancelled = s.cancelled
           /\ \A e \in E : e.n \in d.cancelled
           /\ \A type : ~Pending(d, E, type)
<1>1. s.ops = {}
  BY DEF WaitedOK, BooksOK, AllOffQueue
<1>2. \A e \in E : e.n \in s.cancelled
  BY DEF WaitedOK, BooksOK
<1>3. /\ d \in Fields /\ Kept(d, s) /\ d.cancelled = s.cancelled /\ d.ops = s.ops
      /\ d.completions = {}
  BY DEF Drained, Fields, Kept
<1>4. BooksOK(d, E)
  <2>1. IsFiniteSet(d.completions) /\ IsFiniteSet(d.cancelled)
    BY <1>3, FS_EmptySet DEF WaitedOK, BooksOK
  <2> QED
    BY <1>1, <1>2, <1>3, <2>1 DEF BooksOK
<1>5. SingleOK(d, E) /\ \A type : ~Pending(d, E, type)
  BY <1>1, <1>2, <1>3 DEF SingleOK, Pending
<1> QED
  BY <1>1, <1>2, <1>3, <1>4, <1>5

-----------------------------------------------------------------------------
(* Handlers, on the fields of a call.                                      *)

\* A callback after which no read is owed.
LEMMA CallbackOK ==
    ASSUME NEW s \in Fields, NEW E, FreeOK(s, E), NEW e, Sole(E, e),
           e.n \notin s.cancelled, e.type # "Read" \/ s.isCallFinished \/ ~s.observer,
           NEW F, IsRest(F, E, e), NEW r, IsWithout(r, s, e.n)
    PROVE  r \in Fields /\ Kept(r, s) /\ FreeOK(r, F)
<1>1. /\ s.life = "live" /\ r \in Fields /\ BooksOK(r, F) /\ SingleOK(r, F)
      /\ Kept(r, s) /\ r.completions \cap r.cancelled = {} /\ r.cancelled = s.cancelled
      /\ r.hasActiveWrite = s.hasActiveWrite
  BY RemoveOK
<1>2. /\ Pending(r, F, "Write") => Pending(s, E, "Write")
      /\ e.type # "Read" => (Pending(r, F, "Read") <=> Pending(s, E, "Read"))
  BY RemoveOK
<1>21. \A x \in F : x.n \notin r.cancelled /\ ~x.ok => IsDoomed(r)
  BY RemoveOK
<1>3. LifeOK(r, F)
  BY <1>1, <1>2, <1>21 DEF FreeOK, LifeOK, Kept, IsDoomed
<1> QED
  BY <1>1, <1>3 DEF FreeOK

LEMMA OnWriteOK ==
    ASSUME NEW s \in Fields, NEW E, FreeOK(s, E), NEW e, Sole(E, e),
           e.n \notin s.cancelled, e.type = "Write",
           NEW F, IsRest(F, E, e), NEW r, IsWithout(r, s, e.n),
           NEW t, t = OnWrite(r)
    PROVE  t \in Fields /\ Kept(t, s) /\ FreeOK(t, F)
<1>1. r \in Fields /\ Kept(r, s) /\ FreeOK(r, F)
  BY CallbackOK
<1>2. s.life = "live" /\ ~Pending(r, F, "Write")
  <2>1. s.life = "live" /\ ~Pending(r, F, e.type)
    BY RemoveOK
  <2> QED
    BY <2>1
<1>3. CASE ~r.observer
  BY <1>1, <1>3 DEF OnWrite
<1>4. CASE r.observer
  <2>1. PICK u : u = [r EXCEPT !.hasActiveWrite = FALSE]
    OBVIOUS
  <2>2. /\ u \in Fields /\ Kept(u, r) /\ u.completions = r.completions /\ u.ops = r.ops
        /\ u.cancelled = r.cancelled
    BY <1>1, <2>1 DEF Fields, Kept
  <2>3. t = TryStartWrite(u)
    BY <1>4, <2>1 DEF OnWrite
  <2>4. \A type : Pending(u, F, type) <=> Pending(r, F, type)
    BY <2>2 DEF Pending
  <2>5. /\ BooksOK(u, F) /\ SingleOK(u, F) /\ u.completions \cap u.cancelled = {}
    BY <1>1, <2>2 DEF FreeOK, BooksOK, SingleOK
  <2>6. LifeOK(r, F) /\ r.life = "live"
    BY <1>1, <1>2 DEF FreeOK, Kept
  <2>7. LifeOK(u, F)
    BY <1>2, <2>2, <2>4, <2>6, SameLife
  <2>8. FreeOK(u, F) /\ u.life = "live"
    BY <2>2, <2>5, <2>6, <2>7 DEF FreeOK, Kept
  <2>9. t \in Fields /\ FreeOK(t, F) /\ Kept(t, u)
    BY <2>2, <2>3, <2>8, TryStartOK
  <2> QED
    BY <1>1, <2>2, <2>9 DEF Kept
<1> QED
  BY <1>3, <1>4

LEMMA OnReadOK ==
    ASSUME NEW s \in Fields, NEW E, FreeOK(s, E), NEW e, Sole(E, e),
           e.n \notin s.cancelled, e.type = "Read",
           NEW F, IsRest(F, E, e), NEW r, IsWithout(r, s, e.n),
           NEW t, t = OnRead(r)
    PROVE  t \in Fields /\ Kept(t, s) /\ FreeOK(t, F)
<1>1. /\ s.life = "live" /\ r \in Fields /\ BooksOK(r, F) /\ SingleOK(r, F)
      /\ Kept(r, s) /\ r.completions \cap r.cancelled = {} /\ r.cancelled = s.cancelled
      /\ r.hasActiveWrite = s.hasActiveWrite
  BY RemoveOK
<1>2. /\ ~Pending(r, F, "Read")
      /\ Pending(r, F, "Write") => Pending(s, E, "Write")
      /\ \A x \in F : x.n \notin r.cancelled /\ ~x.ok => IsDoomed(r)
  BY RemoveOK
<1>3. CASE ~r.observer
  <2>1. ~s.observer /\ t = r
    BY <1>1, <1>3 DEF OnRead, Kept
  <2> QED
    BY <2>1, CallbackOK
<1>4. CASE r.observer
  <2>1. PICK v : v = NewCompletion(r, "Read")
    OBVIOUS
  <2>2. t = [v EXCEPT !.owed = @ - 1]
    BY <1>4, <2>1 DEF OnRead, Read
  <2>3. "Write" \in Types /\ "Read" \in Types
    BY DEF Types
  <2>4. /\ v \in Fields /\ BooksOK(v, F) /\ SingleOK(v, F) /\ Kept(v, r)
        /\ v.completions \cap v.cancelled = {} /\ v.cancelled = r.cancelled
        /\ v.hasActiveWrite = r.hasActiveWrite
    BY <1>1, <1>2, <2>1, <2>3, NewOK
  <2>5. /\ Pending(v, F, "Read")
        /\ Pending(v, F, "Write") <=> Pending(r, F, "Write")
    BY <1>1, <1>2, <2>1, <2>3, NewOK
  <2>6. PICK k \in Int : k = v.owed - 1
    BY <2>4 DEF Fields
  <2>7. t = [v EXCEPT !.owed = k]
    BY <2>2, <2>4, <2>6 DEF Fields
  <2>8. /\ t \in Fields /\ Kept(t, v) /\ t.completions = v.completions /\ t.ops = v.ops
        /\ t.cancelled = v.cancelled /\ t.hasActiveWrite = v.hasActiveWrite
    BY <2>4, <2>7 DEF Fields, Kept
  <2>9. BooksOK(t, F) /\ SingleOK(t, F) /\ t.completions \cap t.cancelled = {}
    BY <2>4, <2>8 DEF BooksOK, SingleOK
  <2>10. \A type : Pending(t, F, type) <=> Pending(v, F, type)
    BY <2>8 DEF Pending
  <2>11. Kept(t, s) /\ t.cancelled = s.cancelled /\ t.hasActiveWrite = s.hasActiveWrite
    BY <1>1, <2>4, <2>8 DEF Kept
  <2>12. t.observer /\ t.life = "live" /\ Pending(t, F, "Read")
    BY <1>1, <1>4, <2>5, <2>10, <2>11 DEF Kept
  <2>13. Pending(t, F, "Write") => t.hasActiveWrite
    BY <1>2, <2>5, <2>10, <2>11 DEF FreeOK, LifeOK
  <2>14. \A x \in F : x.n \notin t.cancelled /\ ~x.ok => IsDoomed(t)
    BY <1>1, <1>2, <2>4, <2>8 DEF Kept, IsDoomed
  <2>15. t.isCallFinished => IsDoomed(t)
    BY <1>1, <2>11 DEF FreeOK, LifeOK, Kept, IsDoomed
  <2>16. LifeOK(t, F)
    BY <2>12, <2>13, <2>14, <2>15 DEF LifeOK
  <2> QED
    BY <2>8, <2>9, <2>11, <2>16 DEF FreeOK
<1> QED
  BY <1>3, <1>4

\* What stays of a call until its life ends.
Stays(t, s) == t.kind = s.kind /\ t.life = s.life /\ t.observer = s.observer

\* The worker cancels the completions of a call that is over, and waits.
LEMMA BeginWaitOK ==
    ASSUME NEW v \in Fields, NEW E, BooksOK(v, E), SingleOK(v, E), v.life = "live",
           Pending(v, E, "Write") => v.hasActiveWrite,
           v.isCallFinished => IsDoomed(v), v.kind # "unary" => v.isCallFinished,
           IsDoomed(v) \/ v.completions = {},
           \A e \in E : e.n \notin v.cancelled /\ ~e.ok => IsDoomed(v),
           NEW t, t = CancelCompletions(v)
    PROVE  t \in Fields /\ WaitedOK(t, E) /\ Kept(t, v)
<1>1. /\ t \in Fields /\ BooksOK(t, E) /\ SingleOK(t, E) /\ Kept(t, v)
      /\ t.completions \subseteq t.cancelled /\ t.completions = v.completions
      /\ v.cancelled \subseteq t.cancelled /\ t.hasActiveWrite = v.hasActiveWrite
  BY CancelOK
<1>2. Pending(t, E, "Write") => Pending(v, E, "Write")
  BY CancelOK
<1>3. IsDoomed(v) => IsDoomed(t)
  BY <1>1 DEF Kept, IsDoomed
<1>4. \A e \in E : e.n \notin t.cancelled /\ ~e.ok => IsDoomed(t)
  BY <1>1, <1>3
<1>5. LifeOK(t, E)
  BY <1>1, <1>2, <1>3, <1>4 DEF LifeOK, Kept
<1> QED
  BY <1>1, <1>3, <1>5 DEF WaitedOK, Kept

\* OnOperationFailed, of a call that is not finished.
LEMMA FailureOK ==
    ASSUME NEW s \in Fields, NEW E, FreeOK(s, E), NEW e, Sole(E, e),
           e.n \notin s.cancelled, ~e.ok,
           NEW F, IsRest(F, E, e), NEW r, IsWithout(r, s, e.n),
           NEW t, t = FinishGrpcCall(r)
    PROVE  /\ t \in Fields /\ WaitedOK(t, F) /\ Stays(t, s) /\ t.registered = s.registered
           /\ t.isCallFinished
<1>1. /\ s.life = "live" /\ r \in Fields /\ BooksOK(r, F) /\ SingleOK(r, F)
      /\ Kept(r, s) /\ r.cancelled = s.cancelled /\ r.hasActiveWrite = s.hasActiveWrite
  BY RemoveOK
<1>2. Pending(r, F, "Write") => Pending(s, E, "Write")
  BY RemoveOK
<1>3. \A x \in F : x.n \notin r.cancelled /\ ~x.ok => IsDoomed(r)
  BY RemoveOK
<1>4. PICK v : v = [r EXCEPT !.isCallFinished = TRUE]
  OBVIOUS
<1>5. /\ v \in Fields /\ Stays(v, r) /\ v.completions = r.completions /\ v.ops = r.ops
      /\ v.cancelled = r.cancelled /\ v.isCallFinished /\ v.registered = r.registered
      /\ v.contextCancelled = r.contextCancelled /\ v.ended = r.ended
      /\ v.hasActiveWrite = r.hasActiveWrite
  BY <1>1, <1>4 DEF Fields, Stays
<1>6. BooksOK(v, F) /\ SingleOK(v, F)
  BY <1>1, <1>5 DEF BooksOK, SingleOK
<1>7. Pending(v, F, "Write") => v.hasActiveWrite
  <2>1. Pending(v, F, "Write") => Pending(r, F, "Write")
    BY <1>5 DEF Pending
  <2> QED
    BY <1>1, <1>2, <1>5, <2>1 DEF FreeOK, LifeOK
<1>8. e \in E
  BY DEF Sole
<1>9. IsDoomed(s)
  BY <1>8 DEF FreeOK, LifeOK
<1>10. IsDoomed(v)
  BY <1>1, <1>5, <1>9 DEF IsDoomed, Kept
<1>11. v.life = "live"
  BY <1>1, <1>5 DEF Kept, Stays
<1>12. t = CancelCompletions(v)
  BY <1>4 DEF FinishGrpcCall
<1>13. t \in Fields /\ WaitedOK(t, F) /\ Kept(t, v)
  BY <1>5, <1>6, <1>7, <1>10, <1>11, <1>12, BeginWaitOK
<1> QED
  BY <1>1, <1>5, <1>13 DEF Kept, Stays

\* Shutdown of a stream that is not finished.
LEMMA ShutdownFinishesOK ==
    ASSUME NEW s \in Fields, NEW E, FreeOK(s, E), s.life = "live",
           NEW u, u = [s EXCEPT !.registered = FALSE], MustFinish(u),
           NEW t, t = FinishGrpcCall(TryCancel(u))
    PROVE  /\ t \in Fields /\ WaitedOK(t, E) /\ Stays(t, s) /\ ~t.registered
           /\ t.isCallFinished
<1>1. PICK v : v = [s EXCEPT !.registered = FALSE, !.contextCancelled = TRUE,
                             !.isCallFinished = TRUE]
  OBVIOUS
<1>2. t = CancelCompletions(v)
  BY <1>1 DEF FinishGrpcCall, TryCancel, Fields
<1>3. /\ v \in Fields /\ Stays(v, s) /\ v.completions = s.completions /\ v.ops = s.ops
      /\ v.cancelled = s.cancelled /\ v.isCallFinished /\ ~v.registered
      /\ v.contextCancelled /\ v.hasActiveWrite = s.hasActiveWrite
  BY <1>1 DEF Fields, Stays
<1>4. BooksOK(v, E) /\ SingleOK(v, E)
  BY <1>3 DEF FreeOK, BooksOK, SingleOK
<1>5. Pending(v, E, "Write") => v.hasActiveWrite
  <2>1. Pending(v, E, "Write") => Pending(s, E, "Write")
    BY <1>3 DEF Pending
  <2> QED
    BY <1>3, <2>1 DEF FreeOK, LifeOK
<1>6. IsDoomed(v) /\ v.life = "live"
  BY <1>3 DEF IsDoomed, Stays
<1>7. t \in Fields /\ WaitedOK(t, E) /\ Kept(t, v)
  BY <1>2, <1>3, <1>4, <1>5, <1>6, BeginWaitOK
<1> QED
  BY <1>3, <1>7 DEF Kept, Stays

\* Shutdown of a unary call, or of a stream that is finished already.
LEMMA ShutdownDrainsOK ==
    ASSUME NEW s \in Fields, NEW E, FreeOK(s, E), s.life = "live",
           NEW u, u = [s EXCEPT !.registered = FALSE], ~MustFinish(u),
           NEW t, t = CancelCompletions(IF u.kind = "unary" /\ u.completions # {}
                                        THEN TryCancel(u) ELSE u)
    PROVE  t \in Fields /\ WaitedOK(t, E) /\ Stays(t, s) /\ ~t.registered
<1>1. PICK v : v = IF u.kind = "unary" /\ u.completions # {} THEN TryCancel(u) ELSE u
  OBVIOUS
<1>2. /\ u \in Fields /\ Stays(u, s) /\ u.completions = s.completions /\ u.ops = s.ops
      /\ u.cancelled = s.cancelled /\ u.isCallFinished = s.isCallFinished /\ ~u.registered
      /\ u.contextCancelled = s.contextCancelled /\ u.ended = s.ended
      /\ u.hasActiveWrite = s.hasActiveWrite
  BY DEF Fields, Stays
<1>3. /\ v \in Fields /\ Stays(v, s) /\ v.completions = s.completions /\ v.ops = s.ops
      /\ v.cancelled = s.cancelled /\ v.isCallFinished = s.isCallFinished /\ ~v.registered
      /\ v.hasActiveWrite = s.hasActiveWrite
  BY <1>1, <1>2 DEF Fields, Stays, TryCancel
<1>4. IsDoomed(s) => IsDoomed(v)
  BY <1>1, <1>2 DEF IsDoomed, TryCancel, Fields
<1>5. u.kind = "unary" /\ u.completions # {} => IsDoomed(v)
  BY <1>1, <1>2 DEF IsDoomed, TryCancel, Fields
<1>6. s.kind # "unary" => s.isCallFinished
  <2>1. s.kind # "unary" /\ ~s.isCallFinished => s.completions # {}
    BY DEF FreeOK, LifeOK, Pending, BooksOK
  <2> QED
    BY <1>2, <2>1 DEF MustFinish, Stays
<1>7. IsDoomed(v) \/ v.completions = {}
  BY <1>2, <1>3, <1>4, <1>5, <1>6 DEF FreeOK, LifeOK, Stays
<1>8. BooksOK(v, E) /\ SingleOK(v, E)
  BY <1>3 DEF FreeOK, BooksOK, SingleOK
<1>9. Pending(v, E, "Write") => v.hasActiveWrite
  <2>1. Pending(v, E, "Write") => Pending(s, E, "Write")
    BY <1>3 DEF Pending
  <2> QED
    BY <1>3, <2>1 DEF FreeOK, LifeOK
<1>10. \A e \in E : e.n \notin v.cancelled /\ ~e.ok => IsDoomed(v)
  BY <1>3, <1>4 DEF FreeOK, LifeOK
<1>11. v.life = "live" /\ (v.isCallFinished => IsDoomed(v)) /\ (v.kind # "unary" => v.isCallFinished)
  BY <1>3, <1>4, <1>6 DEF FreeOK, LifeOK, Stays
<1>12. t = CancelCompletions(v)
  BY <1>1
<1>13. t \in Fields /\ WaitedOK(t, E) /\ Kept(t, v)
  BY <1>3, <1>7, <1>8, <1>9, <1>10, <1>11, <1>12, BeginWaitOK
<1> QED
  BY <1>3, <1>13 DEF Kept, Stays

\* FinishGrpcCall after its wait: with the finish operation, and after Shutdown cancelled it.
LEMMA EnqueueFinishOK ==
    ASSUME NEW s \in Fields, NEW E, WaitedOK(s, E), AllOffQueue(s), s.life = "live",
           s.isCallFinished,
           NEW t, t = NewCompletion(Drained(s), "Finish"),
           NEW x, x = CancelCompletions(t)
    PROVE  /\ t \in Fields /\ FreeOK(t, E) /\ Kept(t, s)
           /\ x \in Fields /\ WaitedOK(x, E) /\ Kept(x, s)
<1>1. PICK d : d = Drained(s)
  OBVIOUS
<1>2. /\ d \in Fields /\ BooksOK(d, E) /\ SingleOK(d, E) /\ Kept(d, s)
      /\ d.completions = {} /\ d.cancelled = s.cancelled
  BY <1>1, DrainedOK
<1>3. \A e \in E : e.n \in d.cancelled
  BY <1>1, DrainedOK
<1>4. ~Pending(d, E, "Finish") /\ ~Pending(d, E, "Write")
  BY <1>1, DrainedOK
<1>5. {"Finish", "Write"} \subseteq Types /\ d.completions \cap d.cancelled = {}
  BY <1>2 DEF Types
<1>6. /\ t \in Fields /\ BooksOK(t, E) /\ SingleOK(t, E) /\ Kept(t, d)
      /\ t.completions \cap t.cancelled = {} /\ t.cancelled = d.cancelled
      /\ Pending(t, E, "Write") <=> Pending(d, E, "Write")
  BY <1>1, <1>2, <1>4, <1>5, NewOK
<1>7. Kept(t, s)
  BY <1>2, <1>6 DEF Kept
<1>8. IsDoomed(t) /\ t.life = "live" /\ t.isCallFinished
  BY <1>7 DEF WaitedOK, LifeOK, Kept, IsDoomed
<1>9. \A e \in E : e.n \notin t.cancelled /\ ~e.ok => IsDoomed(t)
  BY <1>8
<1>10. LifeOK(t, E)
  BY <1>4, <1>6, <1>8 DEF LifeOK
<1>11. x \in Fields /\ WaitedOK(x, E) /\ Kept(x, t)
  BY <1>4, <1>6, <1>8, <1>9, BeginWaitOK
<1> QED
  BY <1>6, <1>7, <1>10, <1>11 DEF FreeOK, Kept

\* A call whose completions are off the queue, and of which nothing is left.
LEMMA DrainedFreeOK ==
    ASSUME NEW s \in Fields, NEW E, WaitedOK(s, E), AllOffQueue(s), s.life = "live",
           NEW d, d = Drained(s)
    PROVE  /\ d \in Fields /\ FreeOK(d, E) /\ Kept(d, s) /\ d.completions = {} /\ d.ops = {}
           /\ d.kind # "unary" => d.isCallFinished
<1>1. /\ d \in Fields /\ BooksOK(d, E) /\ SingleOK(d, E) /\ Kept(d, s)
      /\ d.completions = {} /\ d.ops = {} /\ d.cancelled = s.cancelled
  BY DrainedOK
<1>2. \A e \in E : e.n \in d.cancelled
  BY DrainedOK
<1>3. ~Pending(d, E, "Write")
  BY DrainedOK
<1>4. LifeOK(d, E)
  BY <1>1, <1>2, <1>3 DEF WaitedOK, LifeOK, Kept, IsDoomed
<1> QED
  BY <1>1, <1>4 DEF FreeOK, WaitedOK, Kept

\* The destructor, of a call that was shut down.
LEMMA DestroyedOK ==
    ASSUME NEW s \in Fields, NEW E, FreeOK(s, E), s.life = "live", s.completions = {},
           NEW t, t = Destroyed(s)
    PROVE  /\ t \in Fields /\ FreeOK(t, E) /\ t.life = "dead" /\ ~t.registered
           /\ t.kind = s.kind /\ t.completions = {}
<1>1. /\ t.kind = s.kind /\ t.life = "dead" /\ ~t.registered
      /\ t.isCallFinished = s.isCallFinished /\ t.completions = s.completions
      /\ t.cancelled = s.cancelled /\ t.ops = s.ops /\ t.observer = FALSE
  BY DEF Destroyed, NewCall
<1>2. /\ t.hasActiveWrite = FALSE /\ t.buffer = 0 /\ t.contextCancelled = FALSE
      /\ t.unread = 0 /\ t.owed = s.owed /\ t.ended = "no" /\ t.result = s.result
  BY DEF Destroyed, NewCall
<1>3. t \in Fields
  <2>1. t = [kind |-> s.kind, life |-> "dead", observer |-> FALSE, registered |-> FALSE,
             isCallFinished |-> s.isCallFinished, hasActiveWrite |-> FALSE, buffer |-> 0,
             completions |-> s.completions, cancelled |-> s.cancelled, ops |-> s.ops,
             contextCancelled |-> FALSE, unread |-> 0, owed |-> s.owed, ended |-> "no",
             result |-> s.result]
    BY DEF Destroyed, NewCall
  <2>2. /\ s.kind \in Kinds /\ s.isCallFinished \in BOOLEAN
        /\ s.completions \in SUBSET Nat /\ s.cancelled \in SUBSET Nat
        /\ s.ops \in SUBSET GrpcOps /\ s.owed \in Int /\ s.result \in Statuses
    BY DEF Fields
  <2> QED
    BY <2>1, <2>2 DEF Fields
<1>4. s.ops = {} /\ \A e \in E : e.n \in s.cancelled
  BY DEF FreeOK, BooksOK
<1>5. BooksOK(t, E) /\ SingleOK(t, E)
  BY <1>1 DEF FreeOK, BooksOK, SingleOK
<1>6. s.kind # "unary" => s.isCallFinished
  BY <1>4 DEF FreeOK, LifeOK, Pending
<1>7. ~Pending(t, E, "Write")
  BY <1>1, <1>4 DEF Pending
<1>8. LifeOK(t, E)
  BY <1>1, <1>4, <1>6, <1>7 DEF LifeOK
<1> QED
  BY <1>1, <1>3, <1>5, <1>8 DEF FreeOK

\* What follows Shutdown.
LEMMA EndedOK ==
    ASSUME NEW s \in Fields, NEW E, WaitedOK(s, E), AllOffQueue(s), s.life = "live",
           ~s.registered,
           NEW o \in Operations, o.op # "FinishGrpcCall",
           NEW t, t = Ended(Drained(s), o)
    PROVE  /\ t \in Fields /\ FreeOK(t, E) /\ ~t.registered /\ t.completions = {}
           /\ t.kind = s.kind /\ t.life \in {"live", "dead"}
           /\ o.op \in {"Close", "WriteAndFinish"} => t.life = "dead"
           /\ o.op = "FinishAndNotify" /\ s.observer => t.life = "dead"
<1>1. PICK d : d = Drained(s)
  OBVIOUS
<1>2. /\ d \in Fields /\ FreeOK(d, E) /\ Kept(d, s) /\ d.completions = {} /\ d.ops = {}
      /\ d.kind # "unary" => d.isCallFinished
  BY <1>1, DrainedFreeOK
<1>3. d.life = "live" /\ ~d.registered /\ d.kind = s.kind /\ d.observer = s.observer
  BY <1>2 DEF Kept
<1>4. CASE o.op = "FinishImmediately"
  <2>1. t = [d EXCEPT !.observer = (d.kind = "unary" /\ @)]
    BY <1>1, <1>4 DEF Ended
  <2>2. PICK b \in BOOLEAN : b = (d.kind = "unary" /\ d.observer)
    OBVIOUS
  <2>3. t = [d EXCEPT !.observer = b]
    BY <1>2, <2>1, <2>2 DEF Fields
  <2>4. /\ t \in Fields /\ t.kind = d.kind /\ t.life = d.life /\ t.registered = d.registered
        /\ t.isCallFinished = d.isCallFinished /\ t.completions = d.completions
        /\ t.cancelled = d.cancelled /\ t.ops = d.ops /\ t.hasActiveWrite = d.hasActiveWrite
        /\ t.contextCancelled = d.contextCancelled /\ t.ended = d.ended
    BY <1>2, <2>3 DEF Fields
  <2>5. BooksOK(t, E) /\ SingleOK(t, E)
    BY <1>2, <2>4 DEF FreeOK, BooksOK, SingleOK
  <2>6. Pending(t, E, "Write") => Pending(d, E, "Write")
    BY <2>4 DEF Pending
  <2>7. LifeOK(t, E)
    BY <1>2, <1>3, <2>4, <2>6 DEF FreeOK, LifeOK, IsDoomed
  <2> QED
    BY <1>2, <1>3, <1>4, <2>4, <2>5, <2>7 DEF FreeOK
<1>5. CASE o.op \in {"Close", "WriteAndFinish"}
  <2>1. t = Destroyed(d)
    BY <1>1, <1>5 DEF Ended
  <2>2. /\ t \in Fields /\ FreeOK(t, E) /\ t.life = "dead" /\ ~t.registered
        /\ t.kind = d.kind /\ t.completions = {}
    BY <1>2, <1>3, <2>1, DestroyedOK
  <2> QED
    BY <1>3, <2>2
<1>6. CASE o.op = "FinishAndNotify"
  <2>1. CASE ~d.observer
    <3>1. t = d
      BY <1>1, <1>6, <2>1 DEF Ended
    <3> QED
      BY <1>2, <1>3, <1>6, <2>1, <3>1
  <2>2. CASE d.observer
    <3>1. PICK v : v = [d EXCEPT !.result = o.status]
      OBVIOUS
    <3>2. t = Destroyed(v)
      BY <1>1, <1>6, <2>2, <3>1 DEF Ended
    <3>3. o.status \in Statuses
      BY DEF Operations, OpNames
    <3>4. /\ v \in Fields /\ Kept(v, d) /\ v.completions = d.completions
          /\ v.cancelled = d.cancelled /\ v.ops = d.ops /\ v.hasActiveWrite = d.hasActiveWrite
      BY <1>2, <3>1, <3>3 DEF Fields, Kept
    <3>5. BooksOK(v, E) /\ SingleOK(v, E) /\ v.completions \cap v.cancelled = {}
      BY <1>2, <3>4 DEF FreeOK, BooksOK, SingleOK
    <3>6. Pending(v, E, "Write") <=> Pending(d, E, "Write")
      BY <3>4 DEF Pending
    <3>7. Pending(v, E, "Read") <=> Pending(d, E, "Read")
      BY <3>4 DEF Pending
    <3>8. Pending(d, E, "Write") => d.hasActiveWrite
      BY <1>2 DEF FreeOK, LifeOK
    <3>9. LifeOK(v, E)
      BY <1>2, <1>3, <3>4, <3>6, <3>7, <3>8, SameLife DEF FreeOK
    <3>10. FreeOK(v, E) /\ v.life = "live" /\ v.completions = {}
      BY <1>2, <1>3, <3>4, <3>5, <3>9 DEF FreeOK, Kept
    <3>11. /\ t \in Fields /\ FreeOK(t, E) /\ t.life = "dead" /\ ~t.registered
           /\ t.kind = v.kind /\ t.completions = {}
      BY <3>2, <3>4, <3>10, DestroyedOK
    <3> QED
      BY <1>3, <1>6, <3>4, <3>11 DEF Kept
  <2> QED
    BY <2>1, <2>2
<1> QED
  BY <1>4, <1>5, <1>6 DEF Operations, OpNames

\* A call that was just created and started.
LEMMA StartedOK ==
    ASSUME NEW kind \in Kinds, NEW t, t = Started(kind)
    PROVE  /\ t \in Fields /\ FreeOK(t, {}) /\ t.life = "live" /\ t.registered /\ t.observer
           /\ t.kind = kind
<1>1. PICK s : s = [NewCall EXCEPT !.kind = kind, !.life = "live", !.observer = TRUE,
                                   !.registered = TRUE]
  OBVIOUS
<1>2. /\ s.kind = kind /\ s.life = "live" /\ s.observer /\ s.registered /\ ~s.isCallFinished
      /\ s.completions = {} /\ s.cancelled = {} /\ s.ops = {}
  BY <1>1 DEF NewCall
<1>3. s \in Fields
  <2>1. s = [kind |-> kind, life |-> "live", observer |-> TRUE, registered |-> TRUE,
             isCallFinished |-> FALSE, hasActiveWrite |-> FALSE, buffer |-> 0,
             completions |-> {}, cancelled |-> {}, ops |-> {},
             contextCancelled |-> FALSE, unread |-> 0, owed |-> 0, ended |-> "no",
             result |-> "none"]
    BY <1>1 DEF NewCall
  <2> QED
    BY <2>1 DEF Fields, Statuses
<1>4. BooksOK(s, {}) /\ SingleOK(s, {}) /\ s.completions \cap s.cancelled = {}
  BY <1>2, FS_EmptySet DEF BooksOK, SingleOK
<1>5. \A type : ~Pending(s, {}, type)
  BY <1>2 DEF Pending
<1>6. "Read" \in Types /\ "Finish" \in Types /\ "Write" \in Types
  BY DEF Types
<1>7. CASE kind = "unary"
  <2>1. t = NewCompletion(s, "Finish")
    BY <1>1, <1>7 DEF Started, StartUnaryCall
  <2>2. /\ t \in Fields /\ BooksOK(t, {}) /\ SingleOK(t, {}) /\ Kept(t, s)
        /\ t.completions \cap t.cancelled = {}
        /\ Pending(t, {}, "Write") <=> Pending(s, {}, "Write")
    BY <1>3, <1>4, <1>5, <1>6, <2>1, NewOK
  <2>3. LifeOK(t, {})
    BY <1>2, <1>5, <1>7, <2>2 DEF LifeOK, Kept
  <2> QED
    BY <1>2, <2>2, <2>3 DEF FreeOK, Kept
<1>8. CASE kind # "unary"
  <2>1. PICK r : r = Read(s)
    OBVIOUS
  <2>2. r = NewCompletion(s, "Read")
    BY <1>2, <2>1 DEF Read
  <2>3. /\ r \in Fields /\ BooksOK(r, {}) /\ SingleOK(r, {}) /\ Kept(r, s)
        /\ r.completions \cap r.cancelled = {}
        /\ Pending(r, {}, "Write") <=> Pending(s, {}, "Write")
    BY <1>3, <1>4, <1>5, <1>6, <2>2, NewOK
  <2>4. Pending(r, {}, "Read")
    BY <1>3, <1>4, <1>5, <1>6, <2>2, NewOK
  <2>5. LifeOK(r, {})
    BY <1>2, <1>5, <2>3, <2>4 DEF LifeOK, Kept
  <2>6. FreeOK(r, {}) /\ r.life = "live"
    BY <1>2, <2>3, <2>5 DEF FreeOK, Kept
  <2>7. CASE kind = "stream"
    <3>1. t = r
      BY <1>1, <2>1, <2>7 DEF Started, StartStream
    <3> QED
      BY <1>2, <2>3, <2>6, <3>1 DEF Kept
  <2>8. CASE kind = "reader"
    <3>1. t = Write(r)
      BY <1>1, <2>1, <2>8 DEF Started, StartReader
    <3>2. t \in Fields /\ FreeOK(t, {}) /\ Kept(t, r)
      BY <2>3, <2>6, <3>1, WriteOK
    <3> QED
      BY <1>2, <2>3, <3>2 DEF Kept
  <2> QED
    BY <1>8, <2>7, <2>8 DEF Kinds
<1> QED
  BY <1>7, <1>8

\* A step of the backend: the call may end, and messages come.
LEMMA BackendOK ==
    ASSUME NEW s \in Fields, NEW t \in Fields, NEW E, s.life = "live",
           t.kind = s.kind, t.life = s.life, t.observer = s.observer,
           t.registered = s.registered, t.isCallFinished = s.isCallFinished,
           t.completions = s.completions, t.ops = s.ops, t.cancelled = s.cancelled,
           t.hasActiveWrite = s.hasActiveWrite, IsDoomed(s) => IsDoomed(t)
    PROVE  (FreeOK(s, E) => FreeOK(t, E)) /\ (WaitedOK(s, E) => WaitedOK(t, E))
<1>1. BooksOK(s, E) => BooksOK(t, E)
  BY DEF BooksOK
<1>2. SingleOK(s, E) => SingleOK(t, E)
  BY DEF SingleOK
<1>3. /\ Pending(t, E, "Write") <=> Pending(s, E, "Write")
      /\ Pending(t, E, "Read") <=> Pending(s, E, "Read")
  BY DEF Pending
<1>4. LifeOK(s, E) => LifeOK(t, E)
  BY <1>3 DEF LifeOK
<1> QED
  BY <1>1, <1>2, <1>4 DEF FreeOK, WaitedOK

\* The polling thread takes the completion e of an operation o off the gRPC queue.
LEMMA TakeOK ==
    ASSUME NEW s \in Fields, NEW E, NEW o \in s.ops, NEW e, e.n = o.n, e.type = o.type,
           ~e.ok => IsDoomed(s),
           NEW F, F = E \cup {e},
           NEW t \in Fields, t.ops = s.ops \ {o}, Kept(t, s), t.completions = s.completions,
           t.cancelled = s.cancelled, t.hasActiveWrite = s.hasActiveWrite
    PROVE  (FreeOK(s, E) => FreeOK(t, F)) /\ (WaitedOK(s, E) => WaitedOK(t, F))
<1> SUFFICES ASSUME FreeOK(s, E) \/ WaitedOK(s, E)
             PROVE  (FreeOK(s, E) => FreeOK(t, F)) /\ (WaitedOK(s, E) => WaitedOK(t, F))
  OBVIOUS
<1>1. BooksOK(s, E) /\ SingleOK(s, E) /\ LifeOK(s, E)
  BY DEF FreeOK, WaitedOK
<1>2. BooksOK(t, F)
  <2>1. IsFiniteSet(t.completions) /\ IsFiniteSet(t.cancelled)
    BY <1>1 DEF BooksOK
  <2>2. \A op \in t.ops : op.n \in t.completions
    BY <1>1 DEF BooksOK
  <2>3. \A op1, op2 \in t.ops : op1.n = op2.n => op1 = op2
    BY <1>1 DEF BooksOK
  <2>4. \A op \in t.ops, x \in F : op.n # x.n
    BY <1>1 DEF BooksOK
  <2>5. \A x \in F : x.n \in t.completions \cup t.cancelled
    BY <1>1 DEF BooksOK
  <2>6. \A n \in t.completions : (\E op \in t.ops : op.n = n) \/ (\E x \in F : x.n = n)
    <3>1. ASSUME NEW n \in s.completions
          PROVE  (\E op \in t.ops : op.n = n) \/ (\E x \in F : x.n = n)
      <4>1. CASE \E op \in s.ops : op.n = n
        BY <4>1
      <4>2. CASE \E x \in E : x.n = n
        BY <4>2
      <4> QED
        BY <1>1, <3>1, <4>1, <4>2 DEF BooksOK
    <3> QED
      BY <3>1
  <2> QED
    BY <2>1, <2>2, <2>3, <2>4, <2>5, <2>6 DEF BooksOK
<1>3. SingleOK(t, F)
  <2>1. \A op1, op2 \in t.ops : op1.type = op2.type => op1 = op2
    BY <1>1 DEF SingleOK
  <2>2. \A op \in t.ops, x \in F : x.n \notin t.cancelled => op.type # x.type
    BY <1>1 DEF SingleOK
  <2>3. \A e1, e2 \in F :
          e1.n \notin t.cancelled /\ e2.n \notin t.cancelled /\ e1.type = e2.type => e1 = e2
    BY <1>1 DEF SingleOK
  <2> QED
    BY <2>1, <2>2, <2>3 DEF SingleOK
<1>4. Pending(t, F, "Write") => Pending(s, E, "Write")
  BY DEF Pending
<1>5. o.n \notin s.cancelled /\ Pending(s, E, "Read") => Pending(t, F, "Read")
  BY DEF Pending
<1>6. s.life = "live"
  BY <1>1 DEF LifeOK, BooksOK
<1>7. s.kind # "unary" /\ ~s.isCallFinished => o.n \notin s.cancelled
  BY <1>1 DEF FreeOK, WaitedOK, BooksOK
<1>8. LifeOK(t, F)
  <2>1. IsDoomed(t) <=> IsDoomed(s)
    BY DEF Kept, IsDoomed
  <2>2. \A x \in F : x.n \notin t.cancelled /\ ~x.ok => IsDoomed(t)
    BY <1>1, <2>1 DEF LifeOK
  <2>3. Pending(t, F, "Write") => t.hasActiveWrite
    BY <1>1, <1>4 DEF LifeOK
  <2>4. t.isCallFinished => IsDoomed(t)
    BY <1>1, <1>6, <2>1 DEF LifeOK, Kept
  <2>5. t.kind # "unary" /\ ~t.isCallFinished => t.observer /\ Pending(t, F, "Read")
    BY <1>1, <1>5, <1>6, <1>7 DEF LifeOK, Kept
  <2>6. t.life = "live"
    BY <1>6 DEF Kept
  <2> QED
    BY <2>2, <2>3, <2>4, <2>5, <2>6 DEF LifeOK
<1> QED
  BY <1>2, <1>3, <1>8 DEF FreeOK, WaitedOK, Kept, IsDoomed

-----------------------------------------------------------------------------
(* The completions on their way.                                           *)

IsTaken(e, q, r) == q # <<>> /\ e = Head(q) /\ r = Tail(q)

\* The callback that runs is the one of the first of them.
LEMMA TailOf ==
    ASSUME NEW q \in Seq(Events), Distinct(q), NEW e, NEW r, IsTaken(e, q, r)
    PROVE  /\ e \in Events /\ r \in Seq(Events) /\ Distinct(r)
           /\ Sole(Of(q, e.call), e) /\ IsRest(Of(r, e.call), Of(q, e.call), e)
           /\ \A c : c # e.call => Of(r, c) = Of(q, c)
<1>1. PICK n \in Nat : n = Len(q) /\ n # 0
  BY EmptySeq DEF IsTaken
<1>2. e = q[1] /\ r \in Seq(Events) /\ Len(r) = n - 1 /\ \A i \in 1 .. n - 1 : r[i] = q[i + 1]
  BY <1>1, HeadTailProperties DEF IsTaken
<1>3. DOMAIN q = 1 .. n /\ DOMAIN r = 1 .. n - 1
  BY <1>1, <1>2
<1>4. \A i, j \in 1 .. n : q[i].call = q[j].call /\ q[i].n = q[j].n => i = j
  BY <1>1 DEF Distinct
<1>5. Distinct(r)
  <2>1. SUFFICES ASSUME NEW i \in 1 .. n - 1, NEW j \in 1 .. n - 1,
                        r[i].call = r[j].call, r[i].n = r[j].n
                 PROVE  i = j
    BY <1>2 DEF Distinct
  <2>2. i + 1 \in 1 .. n /\ j + 1 \in 1 .. n /\ r[i] = q[i + 1] /\ r[j] = q[j + 1]
    BY <1>2
  <2>3. i + 1 = j + 1
    BY <1>4, <2>1, <2>2
  <2> QED
    BY <2>3
<1>6. e \in Events
  BY <1>1, <1>2, ElementOfSeq
<1>7. 1 \in 1 .. n
  BY <1>1
<1>8. Range(q) = Range(r) \cup {e}
  <2>1. ASSUME NEW x \in Range(q) PROVE x \in Range(r) \cup {e}
    <3>1. PICK i \in 1 .. n : x = q[i]
      BY <1>3 DEF Range
    <3>2. CASE i = 1
      BY <1>2, <3>1, <3>2
    <3>3. CASE i # 1
      <4>1. i - 1 \in 1 .. n - 1 /\ (i - 1) + 1 = i
        BY <3>3
      <4>2. x = r[i - 1]
        BY <1>2, <3>1, <4>1
      <4> QED
        BY <1>3, <4>1, <4>2 DEF Range
    <3> QED
      BY <3>2, <3>3
  <2>2. ASSUME NEW x \in Range(r) PROVE x \in Range(q)
    <3>1. PICK i \in 1 .. n - 1 : x = r[i]
      BY <1>3 DEF Range
    <3>2. i + 1 \in 1 .. n /\ x = q[i + 1]
      BY <1>2, <3>1
    <3> QED
      BY <1>3, <3>2 DEF Range
  <2>3. e \in Range(q)
    BY <1>2, <1>3, <1>7 DEF Range
  <2> QED
    BY <2>1, <2>2, <2>3
<1>9. \A x \in Range(r) : x.call = e.call => x.n # e.n
  <2>1. SUFFICES ASSUME NEW x \in Range(r), x.call = e.call, x.n = e.n PROVE FALSE
    OBVIOUS
  <2>2. PICK i \in 1 .. n - 1 : x = r[i]
    BY <1>3 DEF Range
  <2>3. i + 1 \in 1 .. n /\ x = q[i + 1]
    BY <1>2, <2>2
  <2>4. i + 1 = 1
    BY <1>2, <1>4, <1>7, <2>1, <2>3
  <2> QED
    BY <2>4
<1>10. Sole(Of(q, e.call), e)
  <2>1. e \in Of(q, e.call)
    BY <1>8 DEF Of
  <2>2. \A x \in Of(q, e.call) : x.n = e.n => x = e
    BY <1>8, <1>9 DEF Of
  <2> QED
    BY <2>1, <2>2 DEF Sole
<1>11. Of(r, e.call) = Of(q, e.call) \ {e}
  <2>1. e \notin Range(r)
    BY <1>9
  <2> QED
    BY <1>8, <2>1 DEF Of
<1>12. \A c : c # e.call => Of(r, c) = Of(q, c)
  BY <1>8 DEF Of
<1> QED
  BY <1>2, <1>5, <1>6, <1>10, <1>11, <1>12 DEF IsRest

IsExtended(r, q, e) == r = Append(q, e)
IsApart(e, E) == \A x \in E : x.n # e.n

\* The polling thread adds one at an address that no other one of the call has.
LEMMA AppendOf ==
    ASSUME NEW q \in Seq(Events), Distinct(q), NEW e \in Events, IsApart(e, Of(q, e.call)),
           NEW r, IsExtended(r, q, e)
    PROVE  /\ r \in Seq(Events) /\ Distinct(r)
           /\ Of(r, e.call) = Of(q, e.call) \cup {e}
           /\ \A c : c # e.call => Of(r, c) = Of(q, c)
<1>1. PICK n \in Nat : n = Len(q)
  OBVIOUS
<1>2. r \in Seq(Events) /\ Len(r) = n + 1 /\ r[n + 1] = e /\ \A i \in 1 .. n : r[i] = q[i]
  BY <1>1, AppendProperties DEF IsExtended
<1>3. DOMAIN q = 1 .. n /\ DOMAIN r = 1 .. n + 1
  BY <1>1, <1>2
<1>4. \A i \in 1 .. n + 1 : i \in 1 .. n \/ i = n + 1
  OBVIOUS
<1>5. n + 1 \in 1 .. n + 1 /\ \A i \in 1 .. n : i \in 1 .. n + 1
  OBVIOUS
<1>6. Range(r) = Range(q) \cup {e}
  <2>1. ASSUME NEW x \in Range(r) PROVE x \in Range(q) \cup {e}
    BY <1>2, <1>3, <1>4 DEF Range
  <2>2. ASSUME NEW x \in Range(q) \cup {e} PROVE x \in Range(r)
    BY <1>2, <1>3, <1>5 DEF Range
  <2> QED
    BY <2>1, <2>2
<1>7. \A i \in 1 .. n : q[i].call = e.call => q[i].n # e.n
  BY <1>3 DEF IsApart, Of, Range
<1>8. \A i, j \in 1 .. n : q[i].call = q[j].call /\ q[i].n = q[j].n => i = j
  BY <1>1 DEF Distinct
<1>9. Distinct(r)
  <2>1. SUFFICES ASSUME NEW i \in 1 .. n + 1, NEW j \in 1 .. n + 1,
                        r[i].call = r[j].call, r[i].n = r[j].n
                 PROVE  i = j
    BY <1>2 DEF Distinct
  <2>2. CASE i \in 1 .. n /\ j \in 1 .. n
    BY <1>2, <1>8, <2>1, <2>2
  <2>3. CASE i = n + 1 /\ j \in 1 .. n
    <3>1. r[i] = e /\ r[j] = q[j]
      BY <1>2, <2>3
    <3> QED
      BY <1>7, <2>1, <2>3, <3>1
  <2>4. CASE i \in 1 .. n /\ j = n + 1
    <3>1. r[j] = e /\ r[i] = q[i]
      BY <1>2, <2>4
    <3> QED
      BY <1>7, <2>1, <2>4, <3>1
  <2> QED
    BY <1>4, <2>2, <2>3, <2>4
<1> QED
  BY <1>2, <1>6, <1>9 DEF Of
-----------------------------------------------------------------------------
(* Sequences of calls and of operations.                                   *)

\* GrpcConnection::Unregister takes the call out of active_calls_.
LEMMA RemoveFirstOK ==
    ASSUME NEW s \in Seq(Calls), Injective(s), NEW c \in Calls, NEW r, r = RemoveFirst(s, c)
    PROVE  /\ r \in Seq(Calls) /\ Injective(r)
           /\ \A d : d \in Range(r) <=> d \in Range(s) /\ d # c
<1>1. PICK n \in Nat : n = Len(s)
  OBVIOUS
<1>2. DOMAIN s = 1 .. n
  BY <1>1
<1>3. CASE \A i \in 1 .. n : s[i] # c
  <2>1. r = s
    BY <1>1, <1>3 DEF RemoveFirst
  <2>2. \A d \in Range(s) : d # c
    BY <1>2, <1>3 DEF Range
  <2> QED
    BY <2>1, <2>2
<1>4. CASE \E i \in 1 .. n : s[i] = c
  <2>1. PICK k \in 1 .. n : s[k] = c
    BY <1>4
  <2>2. PICK I : I = {i \in 1 .. n : s[i] = c}
    OBVIOUS
  <2>3. I = {k}
    BY <1>1, <2>1, <2>2 DEF Injective
  <2>4. r = RemoveAt(s, IF I # {} THEN Min(I) ELSE 0)
    BY <1>1, <2>1, <2>2 DEF RemoveFirst, SelectInSeq
  <2>5. Min(I) = k
    <3>1. \A x \in I : (\A y \in I : x =< y) <=> x = k
      BY <2>3
    <3>2. \E x \in I : \A y \in I : x =< y
      BY <2>3
    <3>3. Min(I) \in I
      BY <3>2 DEF Min
    <3> QED
      BY <2>3, <3>3
  <2>6. r = SubSeq(s, 1, k - 1) \o SubSeq(s, k + 1, n)
    BY <1>1, <2>3, <2>4, <2>5 DEF RemoveAt
  <2>7. PICK a : a = SubSeq(s, 1, k - 1)
    OBVIOUS
  <2>8. PICK b : b = SubSeq(s, k + 1, n)
    OBVIOUS
  <2>9. a \in Seq(Calls) /\ Len(a) = k - 1 /\ \A i \in 1 .. k - 1 : a[i] = s[i]
    <3>1. 1 \in 1 .. n + 1 /\ k - 1 \in 1 - 1 .. n /\ (k - 1) - 1 + 1 = k - 1
      OBVIOUS
    <3>2. a \in Seq(Calls) /\ Len(a) = k - 1
          /\ \A i \in 1 .. (k - 1) - 1 + 1 : a[i] = s[1 + i - 1]
      BY <1>1, <2>7, <3>1, SubSeqProperties
    <3> QED
      BY <3>1, <3>2
  <2>10. b \in Seq(Calls) /\ Len(b) = n - k /\ \A i \in 1 .. n - k : b[i] = s[k + i]
    <3>1. k + 1 \in 1 .. n + 1 /\ n \in (k + 1) - 1 .. n /\ n - (k + 1) + 1 = n - k
      OBVIOUS
    <3>2. b \in Seq(Calls) /\ Len(b) = n - k
          /\ \A i \in 1 .. n - (k + 1) + 1 : b[i] = s[(k + 1) + i - 1]
      BY <1>1, <2>8, <3>1, SubSeqProperties
    <3>3. \A i \in 1 .. n - k : (k + 1) + i - 1 = k + i
      OBVIOUS
    <3> QED
      BY <3>1, <3>2, <3>3
  <2>11. r = a \o b
    BY <2>6, <2>7, <2>8
  <2>12. r \in Seq(Calls) /\ Len(r) = n - 1
    <3>1. r \in Seq(Calls) /\ Len(r) = Len(a) + Len(b)
      BY <2>9, <2>10, <2>11, ConcatProperties
    <3>2. (k - 1) + (n - k) = n - 1
      OBVIOUS
    <3> QED
      BY <2>9, <2>10, <3>1, <3>2
  <2>13. \A i \in 1 .. n - 1 : r[i] = IF i < k THEN s[i] ELSE s[i + 1]
    <3>1. SUFFICES ASSUME NEW i \in 1 .. n - 1
                   PROVE  r[i] = IF i < k THEN s[i] ELSE s[i + 1]
      OBVIOUS
    <3>2. i \in 1 .. Len(a) + Len(b)
      BY <2>9, <2>10
    <3>3. r[i] = IF i <= Len(a) THEN a[i] ELSE b[i - Len(a)]
      BY <2>9, <2>10, <2>11, <3>2, ConcatProperties
    <3>4. CASE i < k
      BY <2>9, <3>3, <3>4
    <3>5. CASE ~(i < k)
      <4>1. i - (k - 1) \in 1 .. n - k /\ k + (i - (k - 1)) = i + 1 /\ ~(i <= k - 1)
        BY <3>5
      <4>2. r[i] = b[i - (k - 1)]
        BY <2>9, <3>3, <4>1
      <4> QED
        BY <2>10, <3>5, <4>1, <4>2
    <3> QED
      BY <3>4, <3>5
  <2>14. DOMAIN r = 1 .. n - 1
    BY <2>12
  <2>15. PICK position \in [1 .. n - 1 -> 1 .. n] :
            position = [i \in 1 .. n - 1 |-> IF i < k THEN i ELSE i + 1]
    <3>1. \A i \in 1 .. n - 1 : (IF i < k THEN i ELSE i + 1) \in 1 .. n
      OBVIOUS
    <3>2. [i \in 1 .. n - 1 |-> IF i < k THEN i ELSE i + 1] \in [1 .. n - 1 -> 1 .. n]
      BY <3>1
    <3> QED
      BY <3>2, Zenon
  <2>16. \A i \in 1 .. n - 1 : r[i] = s[position[i]] /\ position[i] # k
    BY <2>13, <2>15
  <2>17. \A i, j \in 1 .. n - 1 : position[i] = position[j] => i = j
    BY <2>15
  <2>18. \A j \in 1 .. n : j # k => \E i \in 1 .. n - 1 : position[i] = j
    <3>1. SUFFICES ASSUME NEW j \in 1 .. n, j # k PROVE \E i \in 1 .. n - 1 : position[i] = j
      OBVIOUS
    <3>2. CASE j < k
      <4>1. j \in 1 .. n - 1 /\ position[j] = j
        BY <2>15, <3>2
      <4> QED
        BY <4>1
    <3>3. CASE ~(j < k)
      <4>1. j - 1 \in 1 .. n - 1 /\ ~(j - 1 < k) /\ (j - 1) + 1 = j
        BY <3>1, <3>3
      <4>2. position[j - 1] = j
        BY <2>15, <4>1
      <4> QED
        BY <4>1, <4>2
    <3> QED
      BY <3>2, <3>3
  <2>19. Injective(r)
    <3>1. \A i, j \in 1 .. n : s[i] = s[j] => i = j
      BY <1>1 DEF Injective
    <3>2. \A i \in 1 .. n - 1 : position[i] \in 1 .. n
      OBVIOUS
    <3>3. \A i, j \in 1 .. n - 1 : r[i] = r[j] => i = j
      BY <2>16, <2>17, <3>1, <3>2
    <3> QED
      BY <2>12, <3>3 DEF Injective
  <2>20. ASSUME NEW d \in Range(r) PROVE d \in Range(s) /\ d # c
    <3>1. PICK i \in 1 .. n - 1 : d = r[i]
      BY <2>14 DEF Range
    <3>2. d = s[position[i]] /\ position[i] \in 1 .. n /\ position[i] # k
      BY <2>16, <3>1
    <3>3. d # c
      BY <1>1, <2>1, <3>2 DEF Injective
    <3> QED
      BY <1>2, <3>2, <3>3 DEF Range
  <2>21. ASSUME NEW d \in Range(s), d # c PROVE d \in Range(r)
    <3>1. PICK j \in 1 .. n : d = s[j]
      BY <1>2 DEF Range
    <3>2. j # k
      BY <2>1, <2>21, <3>1
    <3>3. PICK i \in 1 .. n - 1 : position[i] = j
      BY <2>18, <3>2
    <3> QED
      BY <2>14, <2>16, <3>1, <3>3 DEF Range
  <2> QED
    BY <2>12, <2>19, <2>20, <2>21
<1> QED
  BY <1>3, <1>4

\* Register puts a call into active_calls_ that is not there.
LEMMA AppendCallOK ==
    ASSUME NEW s \in Seq(Calls), Injective(s), NEW c \in Calls, c \notin Range(s),
           NEW r, r = Append(s, c)
    PROVE  /\ r \in Seq(Calls) /\ Injective(r)
           /\ \A d : d \in Range(r) <=> d \in Range(s) \/ d = c
<1>1. PICK n \in Nat : n = Len(s)
  OBVIOUS
<1>2. r \in Seq(Calls) /\ Len(r) = n + 1 /\ r[n + 1] = c /\ \A i \in 1 .. n : r[i] = s[i]
  BY <1>1, AppendProperties
<1>3. DOMAIN s = 1 .. n /\ DOMAIN r = 1 .. n + 1
  BY <1>1, <1>2
<1>4. \A i \in 1 .. n + 1 : i \in 1 .. n \/ i = n + 1
  OBVIOUS
<1>5. n + 1 \in 1 .. n + 1 /\ \A i \in 1 .. n : i \in 1 .. n + 1
  OBVIOUS
<1>6. \A i \in 1 .. n : s[i] # c
  BY <1>3 DEF Range
<1>7. \A i, j \in 1 .. n : s[i] = s[j] => i = j
  BY <1>1 DEF Injective
<1>8. Injective(r)
  BY <1>2, <1>4, <1>6, <1>7 DEF Injective
<1>9. ASSUME NEW d \in Range(r) PROVE d \in Range(s) \/ d = c
  BY <1>2, <1>3, <1>4 DEF Range
<1>10. ASSUME NEW d, d \in Range(s) \/ d = c PROVE d \in Range(r)
  BY <1>2, <1>3, <1>5, <1>10 DEF Range
<1> QED
  BY <1>2, <1>8, <1>9, <1>10

\* The order in which Shutdown stops the streams.
LEMMA OrderIs ==
    ASSUME NEW s \in Seq(Calls), NEW L, L \subseteq Range(s), NEW order \in SetToSeqs(L)
    PROVE  /\ order \in Seq(Calls) /\ Injective(order)
           /\ \A c : c \in Range(order) <=> c \in L
<1>1. PICK m \in Nat : m = Len(s)
  OBVIOUS
<1>2. IsFiniteSet(1 .. m)
  <2>1. 1 \in Int /\ m \in Int
    OBVIOUS
  <2> QED
    BY <2>1, FS_Interval
<1>3. IsFiniteSet(Range(s))
  <2>1. s \in [1 .. m -> Range(s)] /\ DOMAIN s = 1 .. m
    BY <1>1 DEF Range
  <2>2. \A x \in Range(s) : \E i \in 1 .. m : s[i] = x
    BY <2>1 DEF Range
  <2>3. s \in Surjection(1 .. m, Range(s))
    BY <2>1, <2>2 DEF Surjection
  <2> QED
    BY <1>2, <2>3, FS_Surjection
<1>4. IsFiniteSet(L)
  BY <1>3, FS_Subset
<1>5. PICK n \in Nat : n = Cardinality(L)
  BY <1>4, FS_CardinalityType
<1>6. order \in [1 .. n -> L] /\ \A i, j \in 1 .. n : i # j => order[i] # order[j]
  BY <1>5 DEF SetToSeqs
<1>7. L \subseteq Calls
  <2>1. DOMAIN s = 1 .. m /\ \A i \in 1 .. m : s[i] \in Calls
    BY <1>1, ElementOfSeq
  <2> QED
    BY <2>1 DEF Range
<1>8. order \in Seq(L) /\ Len(order) = n /\ DOMAIN order = 1 .. n
  BY <1>6
<1>9. order \in Seq(Calls)
  BY <1>6, <1>7
<1>10. Injective(order)
  BY <1>6, <1>8 DEF Injective
<1>11. \A x \in L : \E i \in 1 .. n : order[i] = x
  <2>1. 1 \in Int /\ n \in Int
    OBVIOUS
  <2>2. Cardinality(1 .. n) = IF 1 > n THEN 0 ELSE n - 1 + 1
    BY <2>1, FS_Interval
  <2>3. IsFiniteSet(1 .. n) /\ Cardinality(1 .. n) = Cardinality(L)
    BY <1>5, <2>1, <2>2, FS_Interval
  <2>4. order \in Injection(1 .. n, L)
    BY <1>6 DEF Injection, IsInjective
  <2>5. order \in Surjection(1 .. n, L)
    BY <1>4, <2>3, <2>4, FS_Injection
  <2> QED
    BY <2>5 DEF Surjection
<1>12. \A c : c \in Range(order) <=> c \in L
  BY <1>6, <1>8, <1>11 DEF Range
<1> QED
  BY <1>9, <1>10, <1>12

\* An operation with each of some calls.
LEMMA ListIs ==
    ASSUME NEW cs \in Seq(Calls), Injective(cs), NEW op \in OpNames, NEW status \in Statuses,
           NEW ops, ops = [i \in 1 .. Len(cs) |-> Operation(op, cs[i], status)]
    PROVE  /\ ops \in Seq(Operations) /\ Apart(ops)
           /\ \A i \in 1 .. Len(ops) : ops[i].op = op /\ ops[i].call \in Range(cs)
           /\ \A c : IsToDo(ops, c) <=> c \in Range(cs)
<1>1. PICK n \in Nat : n = Len(cs)
  OBVIOUS
<1>2. DOMAIN cs = 1 .. n /\ \A i \in 1 .. n : cs[i] \in Calls
  BY <1>1, ElementOfSeq
<1>3. \A i \in 1 .. n : ops[i] = Operation(op, cs[i], status)
  BY <1>1
<1>4. \A i \in 1 .. n : ops[i] \in Operations /\ ops[i].op = op /\ ops[i].call = cs[i]
  <2>1. ASSUME NEW i \in 1 .. n
        PROVE  ops[i] \in Operations /\ ops[i].op = op /\ ops[i].call = cs[i]
    <3>1. PICK c \in Calls : c = cs[i]
      BY <1>2
    <3>2. ops[i] = [op |-> op, call |-> c, status |-> status]
      BY <1>3, <3>1 DEF Operation
    <3> QED
      BY <3>1, <3>2 DEF Operations
  <2> QED
    BY <2>1
<1>5. ops \in [1 .. n -> Operations]
  BY <1>1, <1>4
<1>6. ops \in Seq(Operations) /\ Len(ops) = n
  BY <1>5
<1>7. \A i \in 1 .. n : ops[i].call \in Range(cs)
  BY <1>2, <1>4 DEF Range
<1>8. Apart(ops)
  BY <1>1, <1>4, <1>6 DEF Apart, Injective
<1>9. \A c : IsToDo(ops, c) <=> c \in Range(cs)
  BY <1>2, <1>4, <1>6, ZenonT(60) DEF IsToDo, Range
<1> QED
  BY <1>4, <1>6, <1>7, <1>8, <1>9

\* One operation.
LEMMA OneIs ==
    ASSUME NEW op \in OpNames, NEW c \in Calls, NEW status \in Statuses,
           NEW ops, ops = <<Operation(op, c, status)>>
    PROVE  /\ ops \in Seq(Operations) /\ Apart(ops) /\ ops # <<>>
           /\ Head(ops).op = op /\ Head(ops).call = c
           /\ \A i \in 1 .. Len(ops) : i = 1 /\ ops[i].op = op /\ ops[i].call = c
           /\ \A d : IsToDo(ops, d) <=> d = c
<1>1. PICK o \in Operations : o = Operation(op, c, status) /\ o.op = op /\ o.call = c
  <2>1. PICK o : o = [op |-> op, call |-> c, status |-> status]
    OBVIOUS
  <2>2. o \in Operations /\ o.op = op /\ o.call = c
    BY <2>1 DEF Operations
  <2> QED
    BY <2>1, <2>2 DEF Operation
<1>2. ops = <<o>>
  BY <1>1
<1>3. ops \in Seq(Operations)
  BY <1>2
<1>4. Len(ops) = 1
  BY <1>2
<1>5. ops[1] = o
  BY <1>2
<1>6. Head(ops) = o
  BY <1>2
<1>7. ops # <<>>
  BY <1>2
<1>8. \A i \in 1 .. Len(ops) : i = 1 /\ ops[i].op = op /\ ops[i].call = c
  BY <1>1, <1>4, <1>5
<1>9. 1 \in 1 .. Len(ops)
  BY <1>4
<1>10. Apart(ops)
  BY <1>8 DEF Apart
<1>11. \A d : IsToDo(ops, d) <=> d = c
  BY <1>8, <1>9 DEF IsToDo
<1> QED
  BY <1>1, <1>3, <1>6, <1>7, <1>8, <1>10, <1>11

LEMMA HeadIs ==
    ASSUME NEW ops \in Seq(Operations), ops # <<>>
    PROVE  Head(ops) \in Operations /\ Head(ops) = ops[1] /\ 1 \in 1 .. Len(ops)
<1>1. Len(ops) \in Nat /\ Len(ops) # 0
  BY EmptySeq
<1> QED
  BY <1>1, HeadTailProperties

\* The first operation is done.
IsDone(ops, r) == ops # <<>> /\ r = Tail(ops)

LEMMA TailIs ==
    ASSUME NEW ops \in Seq(Operations), Apart(ops), NEW r, IsDone(ops, r)
    PROVE  /\ r \in Seq(Operations) /\ Apart(r)
           /\ \A i \in 1 .. Len(r) : \E j \in 1 .. Len(ops) : j # 1 /\ r[i] = ops[j]
           /\ \A d : IsToDo(r, d) <=> IsToDo(ops, d) /\ d # Head(ops).call
<1>1. PICK n \in Nat : n = Len(ops) /\ n # 0
  BY EmptySeq DEF IsDone
<1>2. /\ Head(ops) \in Operations /\ Head(ops) = ops[1]
      /\ r \in Seq(Operations) /\ Len(r) = n - 1 /\ \A i \in 1 .. n - 1 : r[i] = ops[i + 1]
  BY <1>1, HeadTailProperties DEF IsDone
<1>3. \A i \in 1 .. n - 1 : i + 1 \in 1 .. n /\ i + 1 # 1
  OBVIOUS
<1>4. \A i \in 1 .. n : i # 1 => i - 1 \in 1 .. n - 1 /\ (i - 1) + 1 = i
  OBVIOUS
<1>5. \A i, j \in 1 .. n : ops[i].call = ops[j].call => i = j
  BY <1>1 DEF Apart
<1>6. Apart(r)
  <2>1. SUFFICES ASSUME NEW i \in 1 .. n - 1, NEW j \in 1 .. n - 1, r[i].call = r[j].call
                 PROVE  i = j
    BY <1>2 DEF Apart
  <2>2. ops[i + 1].call = ops[j + 1].call
    BY <1>2, <2>1
  <2>3. i + 1 = j + 1
    BY <1>3, <1>5, <2>2
  <2> QED
    BY <2>3
<1>7. 1 \in 1 .. n
  BY <1>1
<1>8. ASSUME NEW d, IsToDo(r, d) PROVE IsToDo(ops, d) /\ d # Head(ops).call
  <2>1. PICK i \in 1 .. n - 1 : r[i].call = d
    BY <1>2, <1>8 DEF IsToDo
  <2>2. ops[i + 1].call = d /\ i + 1 \in 1 .. n /\ i + 1 # 1
    BY <1>2, <1>3, <2>1
  <2>3. d # ops[1].call
    BY <1>5, <1>7, <2>2
  <2> QED
    BY <1>1, <1>2, <2>2, <2>3 DEF IsToDo
<1>9. ASSUME NEW d, IsToDo(ops, d), d # Head(ops).call PROVE IsToDo(r, d)
  <2>1. PICK i \in 1 .. n : ops[i].call = d
    BY <1>1, <1>9 DEF IsToDo
  <2>2. i # 1
    BY <1>2, <1>9, <2>1
  <2>3. i - 1 \in 1 .. n - 1 /\ r[i - 1] = ops[i]
    BY <1>2, <1>4, <2>2
  <2> QED
    BY <1>2, <2>1, <2>3 DEF IsToDo
<1>10. \A i \in 1 .. Len(r) : \E j \in 1 .. Len(ops) : j # 1 /\ r[i] = ops[j]
  BY <1>1, <1>2, <1>3
<1> QED
  BY <1>1, <1>2, <1>6, <1>7, <1>8, <1>9, <1>10

\* The first operation goes on as another one.
GoesOn(ops, op, status, r) ==
    ops # <<>> /\ r = <<Operation(op, Head(ops).call, status)>> \o Tail(ops)

LEMMA ReplaceIs ==
    ASSUME NEW ops \in Seq(Operations), Apart(ops),
           NEW op \in OpNames, NEW status \in Statuses, NEW r, GoesOn(ops, op, status, r)
    PROVE  /\ r \in Seq(Operations) /\ Apart(r) /\ r # <<>>
           /\ Head(r).call = Head(ops).call /\ Len(r) = Len(ops)
           /\ \A i \in 1 .. Len(r) : /\ r[i].call = ops[i].call
                                     /\ r[i].op = op \/ (i # 1 /\ r[i].op = ops[i].op)
           /\ \A d : IsToDo(r, d) <=> IsToDo(ops, d)
<1>1. PICK n \in Nat : n = Len(ops) /\ n # 0
  BY EmptySeq DEF GoesOn
<1>2. PICK b : b = Tail(ops)
  OBVIOUS
<1>3. /\ Head(ops) \in Operations /\ Head(ops) = ops[1]
      /\ b \in Seq(Operations) /\ Len(b) = n - 1 /\ \A i \in 1 .. n - 1 : b[i] = ops[i + 1]
  BY <1>1, <1>2, HeadTailProperties DEF GoesOn
<1>4. PICK c \in Calls : c = Head(ops).call
  BY <1>3 DEF Operations
<1>5. PICK o \in Operations : o = Operation(op, c, status) /\ o.op = op /\ o.call = c
  <2>1. PICK o : o = [op |-> op, call |-> c, status |-> status]
    OBVIOUS
  <2>2. o \in Operations /\ o.op = op /\ o.call = c
    BY <2>1 DEF Operations
  <2> QED
    BY <2>1, <2>2 DEF Operation
<1>6. PICK a : a = <<o>>
  OBVIOUS
<1>7. a \in Seq(Operations)
  BY <1>6
<1>8. Len(a) = 1
  BY <1>6
<1>9. a[1] = o
  BY <1>6
<1>10. r = a \o b
  BY <1>2, <1>4, <1>5, <1>6 DEF GoesOn
<1>11. r \in Seq(Operations) /\ Len(r) = n
  <2>1. r \in Seq(Operations) /\ Len(r) = Len(a) + Len(b)
    BY <1>3, <1>7, <1>10, ConcatProperties
  <2> QED
    BY <1>3, <1>8, <2>1
<1>12. \A i \in 1 .. n : r[i] = IF i = 1 THEN o ELSE ops[i]
  <2>1. SUFFICES ASSUME NEW i \in 1 .. n PROVE r[i] = IF i = 1 THEN o ELSE ops[i]
    OBVIOUS
  <2>2. i \in 1 .. Len(a) + Len(b)
    BY <1>3, <1>8
  <2>3. r[i] = IF i <= Len(a) THEN a[i] ELSE b[i - Len(a)]
    BY <1>3, <1>7, <1>10, <2>2, ConcatProperties
  <2>4. CASE i = 1
    <3>1. i <= 1
      BY <2>4
    <3> QED
      BY <1>8, <1>9, <2>3, <2>4, <3>1
  <2>5. CASE i # 1
    <3>1. ~(i <= 1) /\ i - 1 \in 1 .. n - 1 /\ (i - 1) + 1 = i
      BY <2>5
    <3>2. r[i] = b[i - 1]
      BY <1>8, <2>3, <3>1
    <3> QED
      BY <1>3, <2>5, <3>1, <3>2
  <2> QED
    BY <2>4, <2>5
<1>13. 1 \in 1 .. n
  BY <1>1
<1>14. r # <<>> /\ Head(r) = r[1]
  <2>1. r # <<>>
    BY <1>1, <1>11, EmptySeq
  <2> QED
    BY <1>11, <2>1, HeadTailProperties
<1>15. Head(r).call = Head(ops).call
  BY <1>4, <1>5, <1>12, <1>13, <1>14
<1>16. \A i \in 1 .. n : r[i].call = ops[i].call /\ (r[i].op = op \/ (i # 1 /\ r[i].op = ops[i].op))
  BY <1>3, <1>4, <1>5, <1>12
<1>17. Apart(r)
  BY <1>1, <1>11, <1>16 DEF Apart
<1>18. \A d : IsToDo(r, d) <=> IsToDo(ops, d)
  BY <1>1, <1>11, <1>16 DEF IsToDo
<1> QED
  BY <1>1, <1>11, <1>14, <1>15, <1>16, <1>17, <1>18

-----------------------------------------------------------------------------
(* Steps that change the fields of a call, or the operations to do.        *)

\* Only call c changes, and the worker goes on waiting for the calls it waits for.
LEMMA CallsFrame ==
    ASSUME TypeOK, CallsOK, NEW c \in Calls, NEW t \in Fields, call' = [call EXCEPT ![c] = t],
           \A d \in Calls : d # c => Of(Transit', d) = Of(Transit, d),
           \A d \in Calls : d # c => (Waits(todo', blockedIn', d) <=> Waits(todo, blockedIn, d)),
           CallOK(t, Of(Transit', c), todo', blockedIn', c)
    PROVE  call' \in [Calls -> Fields] /\ CallsOK'
<1>1. call \in [Calls -> Fields]
  BY DEF TypeOK
<1>2. call' \in [Calls -> Fields] /\ call'[c] = t /\ \A d \in Calls : d # c => call'[d] = call[d]
  BY <1>1
<1>3. ASSUME NEW d \in Calls PROVE CallOK(call'[d], Of(Transit', d), todo', blockedIn', d)
  <2>1. CASE d = c
    BY <1>2, <2>1
  <2>2. CASE d # c
    <3>1. CallOK(call[d], Of(Transit, d), todo, blockedIn, d)
      BY DEF CallsOK
    <3>2. call'[d] = call[d] /\ Of(Transit', d) = Of(Transit, d)
      BY <1>2, <2>2
    <3>3. Waits(todo', blockedIn', d) <=> Waits(todo, blockedIn, d)
      BY <2>2
    <3> QED
      BY <3>1, <3>2, <3>3 DEF CallOK
  <2> QED
    BY <2>1, <2>2
<1> QED
  BY <1>2, <1>3 DEF CallsOK

LEMMA ActiveFrame ==
    ASSUME TypeOK, ActiveOK, NEW c \in Calls, NEW t \in Fields, call' = [call EXCEPT ![c] = t],
           t.registered = call[c].registered, activeCalls' = activeCalls
    PROVE  ActiveOK'
<1>1. call' \in [Calls -> Fields] /\ \A d \in Calls : call'[d] = IF d = c THEN t ELSE call[d]
  BY DEF TypeOK
<1>2. \A d \in Calls : call'[d].registered = call[d].registered
  BY <1>1
<1> QED
  BY <1>2 DEF ActiveOK

LEMMA PhaseFrame ==
    ASSUME TypeOK, PhaseOK, NEW c \in Calls, NEW t \in Fields, call' = [call EXCEPT ![c] = t],
           shutdown' = shutdown,
           \A d \in Calls : d # c => (IsToDo(todo', d) <=> IsToDo(todo, d)),
           InPhase(t, shutdown', todo', c)
    PROVE  PhaseOK'
<1>1. call' \in [Calls -> Fields] /\ call'[c] = t /\ \A d \in Calls : d # c => call'[d] = call[d]
  BY DEF TypeOK
<1>2. ASSUME NEW d \in Calls PROVE InPhase(call'[d], shutdown', todo', d)
  <2>1. CASE d = c
    BY <1>1, <2>1
  <2>2. CASE d # c
    <3>1. InPhase(call[d], shutdown, todo, d)
      BY DEF PhaseOK
    <3>2. call'[d] = call[d] /\ (IsToDo(todo', d) <=> IsToDo(todo, d))
      BY <1>1, <2>2
    <3> QED
      BY <3>1, <3>2 DEF InPhase
  <2> QED
    BY <2>1, <2>2
<1> QED
  BY <1>2 DEF PhaseOK

LEMMA TodoFrame ==
    ASSUME TypeOK, TodoOK, NEW c \in Calls, NEW t \in Fields, call' = [call EXCEPT ![c] = t],
           t.life = call[c].life, t.registered = call[c].registered,
           call[c].isCallFinished => t.isCallFinished,
           todo' = todo, blockedIn' = blockedIn, shutdown' = shutdown
    PROVE  TodoOK'
<1>1. \A d \in Calls : call'[d] = IF d = c THEN t ELSE call[d]
  BY DEF TypeOK
<1>2. \A d \in Calls : /\ call'[d].life = call[d].life
                       /\ call'[d].registered = call[d].registered
                       /\ call[d].isCallFinished => call'[d].isCallFinished
  BY <1>1
<1>3. \A i \in 1 .. Len(todo) : todo[i].call \in Calls
  <2>1. \A i \in 1 .. Len(todo) : todo[i] \in Operations
    BY ElementOfSeq DEF TypeOK
  <2> QED
    BY <2>1 DEF Operations
<1>4. todo # <<>> => Head(todo).call \in Calls
  <2>1. todo # <<>> => Head(todo) \in Operations
    BY HeadTailProperties DEF TypeOK
  <2> QED
    BY <2>1 DEF Operations
<1>5. Apart(todo')
  BY DEF TodoOK
<1>6. ASSUME NEW i \in 1 .. Len(todo)
      PROVE  /\ call'[todo[i].call].life = "live" /\ todo[i].op \in Allowed(shutdown')
             /\ todo[i].op = "FinishGrpcCall" =>
                    i = 1 /\ blockedIn' = "finish" /\ call'[todo[i].call].registered
  <2>1. /\ call[todo[i].call].life = "live" /\ todo[i].op \in Allowed(shutdown)
        /\ todo[i].op = "FinishGrpcCall" =>
                    i = 1 /\ blockedIn = "finish" /\ call[todo[i].call].registered
    BY DEF TodoOK
  <2> QED
    BY <1>2, <1>3, <2>1
<1>7. todo' = <<>> => blockedIn' = "nothing"
  BY DEF TodoOK
<1>8. /\ blockedIn' = "finish" => call'[Head(todo').call].isCallFinished
      /\ blockedIn' = "drain" => ~call'[Head(todo').call].registered
      /\ blockedIn' = "finish" /\ Head(todo').op # "FinishGrpcCall" =>
            ~call'[Head(todo').call].registered
  BY <1>2, <1>4 DEF TodoOK
<1> QED
  BY <1>5, <1>6, <1>7, <1>8 DEF TodoOK

\* The fields of call c change and it stays what it is.
LEMMA FieldsStep ==
    ASSUME GrpcInv, NEW c \in Calls, NEW t \in Fields, call' = [call EXCEPT ![c] = t],
           UNCHANGED <<activeCalls, todo, blockedIn, shutdown>>, failed' = {},
           workQueue' \in Seq(Events), poller' \in Seq(Events), Distinct(Transit'),
           \A d \in Calls : d # c => Of(Transit', d) = Of(Transit, d),
           CallOK(t, Of(Transit', c), todo, blockedIn, c),
           t.kind = call[c].kind, t.life = call[c].life, t.observer = call[c].observer,
           t.registered = call[c].registered, call[c].isCallFinished => t.isCallFinished,
           t.completions # {} => call[c].completions # {} \/ shutdown \notin {"calls", "queue"}
    PROVE  GrpcInv'
<1> USE DEF GrpcInv
<1>1. call' \in [Calls -> Fields] /\ CallsOK'
  BY CallsFrame
<1>2. ActiveOK'
  BY ActiveFrame
<1>3. TodoOK'
  BY TodoFrame
<1>4. PhaseOK'
  <2>1. InPhase(call[c], shutdown, todo, c)
    BY DEF PhaseOK
  <2>2. InPhase(t, shutdown', todo', c)
    BY <2>1 DEF InPhase
  <2> QED
    BY <2>2, PhaseFrame
<1>5. TypeOK'
  BY <1>1 DEF TypeOK
<1>6. Distinct(Transit)'
  OBVIOUS
<1> QED
  BY <1>1, <1>2, <1>3, <1>4, <1>5, <1>6

\* The worker, which had nothing to do, is given operations with calls.
LEMMA ListStep ==
    ASSUME GrpcInv, todo = <<>>, UNCHANGED <<call, activeCalls, blockedIn, workQueue, poller>>,
           failed' = failed, shutdown' \in Phases, todo' \in Seq(Operations), Apart(todo'),
           \A i \in 1 .. Len(todo') :
              /\ call[todo'[i].call].life = "live" /\ todo'[i].op \in Allowed(shutdown')
              /\ todo'[i].op # "FinishGrpcCall",
           \A c \in Calls : InPhase(call[c], shutdown', todo', c)
    PROVE  GrpcInv'
<1>1. blockedIn = "nothing" /\ blockedIn' = "nothing"
  BY DEF GrpcInv, TodoOK
<1>2. Transit' = Transit
  BY DEF Transit
<1>3. \A c \in Calls : ~Waits(todo, blockedIn, c) /\ ~Waits(todo', blockedIn', c)
  BY <1>1 DEF Waits
<1>4. CallsOK'
  <2>1. ASSUME NEW c \in Calls PROVE CallOK(call'[c], Of(Transit', c), todo', blockedIn', c)
    <3>1. CallOK(call[c], Of(Transit, c), todo, blockedIn, c)
      BY DEF GrpcInv, CallsOK
    <3> QED
      BY <1>2, <1>3, <3>1 DEF CallOK
  <2> QED
    BY <2>1 DEF CallsOK
<1>5. TodoOK'
  BY <1>1 DEF TodoOK
<1>6. PhaseOK'
  BY DEF PhaseOK
<1>7. TypeOK'
  BY <1>1 DEF TypeOK, GrpcInv, Places
<1>8. ActiveOK' /\ Distinct(Transit)' /\ failed' = {}
  BY <1>2 DEF GrpcInv, ActiveOK
<1> QED
  BY <1>4, <1>5, <1>6, <1>7, <1>8 DEF GrpcInv

-----------------------------------------------------------------------------
(* The actions.                                                            *)

\* Nothing is waited for while the worker may start an operation.
LEMMA IdleIs ==
    ASSUME GrpcInv, IsIdle
    PROVE  /\ todo = <<>> /\ blockedIn = "nothing" /\ shutdown \in {"no", "queue"}
           /\ \A c \in Calls : FreeOK(call[c], Of(Transit, c)) /\ ~IsToDo(todo, c)
<1>1. todo = <<>> /\ blockedIn = "nothing"
  BY DEF IsIdle, GrpcInv, TodoOK
<1>2. shutdown \in {"no", "queue"}
  BY DEF IsIdle, PollerIsDone
<1>3. ASSUME NEW c \in Calls PROVE FreeOK(call[c], Of(Transit, c))
  <2>1. CallOK(call[c], Of(Transit, c), todo, blockedIn, c)
    BY DEF GrpcInv, CallsOK
  <2>2. ~Waits(todo, blockedIn, c)
    BY <1>1 DEF Waits
  <2> QED
    BY <2>1, <2>2 DEF CallOK
<1>4. ASSUME NEW c \in Calls PROVE ~IsToDo(todo, c)
  <2>1. Len(todo) = 0
    BY <1>1, EmptySeq
  <2> QED
    BY <2>1 DEF IsToDo
<1> QED
  BY <1>1, <1>2, <1>3, <1>4

\* The completions stay where they are.
LEMMA SameTransit ==
    ASSUME GrpcInv, UNCHANGED <<workQueue, poller>>
    PROVE  /\ workQueue' \in Seq(Events) /\ poller' \in Seq(Events) /\ Distinct(Transit')
           /\ Transit' = Transit
BY DEF GrpcInv, TypeOK, Transit

LEMMA WriteMessageStep ==
    ASSUME GrpcInv, NEW c \in Calls, WriteMessage(c)
    PROVE  GrpcInv'
<1>1. /\ todo = <<>> /\ blockedIn = "nothing" /\ shutdown \in {"no", "queue"}
      /\ FreeOK(call[c], Of(Transit, c)) /\ ~IsToDo(todo, c)
  BY IdleIs DEF WriteMessage
<1>2. call[c] \in Fields
  BY DEF GrpcInv, TypeOK
<1>3. PICK t : t = Write(call[c])
  OBVIOUS
<1>4. call' = [call EXCEPT ![c] = t]
  BY <1>3 DEF WriteMessage
<1>5. call[c].life = "live" /\ call[c].kind = "stream"
  BY DEF WriteMessage, IsOpenStream
<1>6. t \in Fields /\ FreeOK(t, Of(Transit, c)) /\ Kept(t, call[c])
  BY <1>1, <1>2, <1>3, <1>5, WriteOK
<1>7. shutdown \notin {"calls", "queue"}
  <2>1. InPhase(call[c], shutdown, todo, c)
    BY DEF GrpcInv, PhaseOK
  <2> QED
    BY <1>5, <2>1 DEF InPhase
<1>8. /\ workQueue' \in Seq(Events) /\ poller' \in Seq(Events) /\ Distinct(Transit')
      /\ Transit' = Transit
  BY SameTransit DEF WriteMessage
<1>9. CallOK(t, Of(Transit', c), todo, blockedIn, c)
  <2>1. ~Waits(todo, blockedIn, c)
    BY <1>1 DEF Waits
  <2> QED
    BY <1>6, <1>8, <2>1 DEF CallOK
<1>10. UNCHANGED <<activeCalls, todo, blockedIn, shutdown>> /\ failed' = {}
  BY DEF WriteMessage, GrpcInv
<1>11. /\ t.kind = call[c].kind /\ t.life = call[c].life /\ t.observer = call[c].observer
       /\ t.registered = call[c].registered /\ t.isCallFinished = call[c].isCallFinished
  BY <1>6 DEF Kept
<1> QED
  BY <1>4, <1>6, <1>7, <1>8, <1>9, <1>10, <1>11, FieldsStep

LEMMA BackendStep ==
    ASSUME GrpcInv, NEW c \in Calls, ServerSends(c) \/ ServerEnds(c)
    PROVE  GrpcInv'
<1>1. PICK s \in Fields : s = call[c]
  BY DEF GrpcInv, TypeOK
<1>2. s.life = "live"
  BY <1>1 DEF ServerSends, ServerEnds, CanAnswer
<1>3. \E t \in Fields :
          /\ call' = [call EXCEPT ![c] = t]
          /\ t.kind = s.kind /\ t.life = s.life /\ t.observer = s.observer
          /\ t.registered = s.registered /\ t.isCallFinished = s.isCallFinished
          /\ t.completions = s.completions /\ t.ops = s.ops /\ t.cancelled = s.cancelled
          /\ t.hasActiveWrite = s.hasActiveWrite /\ (IsDoomed(s) => IsDoomed(t))
  <2>1. CASE ServerSends(c)
    <3>1. PICK o \in Int : o = s.owed + 1
      BY DEF Fields
    <3>2. PICK u \in Int : u = s.unread + 1
      BY DEF Fields
    <3>3. PICK t : t = [s EXCEPT !.owed = o, !.unread = u]
      OBVIOUS
    <3>4. /\ t \in Fields /\ t.kind = s.kind /\ t.life = s.life /\ t.observer = s.observer
          /\ t.registered = s.registered /\ t.isCallFinished = s.isCallFinished
          /\ t.completions = s.completions /\ t.ops = s.ops /\ t.cancelled = s.cancelled
          /\ t.hasActiveWrite = s.hasActiveWrite /\ t.contextCancelled = s.contextCancelled
          /\ t.ended = s.ended
      BY <3>3 DEF Fields
    <3>5. call' = [call EXCEPT ![c] = t]
      <4>1. call' = [call EXCEPT ![c].owed = @ + 1, ![c].unread = @ + 1]
        BY <2>1 DEF ServerSends
      <4>2. call \in [Calls -> Fields]
        BY DEF GrpcInv, TypeOK
      <4> QED
        BY <1>1, <3>1, <3>2, <3>3, <4>1, <4>2 DEF Fields
    <3> QED
      BY <3>4, <3>5 DEF IsDoomed
  <2>2. CASE ServerEnds(c)
    <3>1. PICK ended \in {"ok", "error"} : call' = [call EXCEPT ![c].ended = ended]
      BY <2>2 DEF ServerEnds
    <3>2. PICK t : t = [s EXCEPT !.ended = ended]
      OBVIOUS
    <3>3. /\ t \in Fields /\ t.kind = s.kind /\ t.life = s.life /\ t.observer = s.observer
          /\ t.registered = s.registered /\ t.isCallFinished = s.isCallFinished
          /\ t.completions = s.completions /\ t.ops = s.ops /\ t.cancelled = s.cancelled
          /\ t.hasActiveWrite = s.hasActiveWrite /\ t.ended # "no"
      BY <3>2 DEF Fields
    <3>4. call' = [call EXCEPT ![c] = t]
      BY <1>1, <3>1, <3>2
    <3> QED
      BY <3>3, <3>4 DEF IsDoomed
  <2> QED
    BY <2>1, <2>2
<1>4. PICK t \in Fields :
          /\ call' = [call EXCEPT ![c] = t]
          /\ t.kind = s.kind /\ t.life = s.life /\ t.observer = s.observer
          /\ t.registered = s.registered /\ t.isCallFinished = s.isCallFinished
          /\ t.completions = s.completions /\ t.ops = s.ops /\ t.cancelled = s.cancelled
          /\ t.hasActiveWrite = s.hasActiveWrite /\ (IsDoomed(s) => IsDoomed(t))
  BY <1>3
<1>5. /\ workQueue' \in Seq(Events) /\ poller' \in Seq(Events) /\ Distinct(Transit')
      /\ Transit' = Transit
  BY SameTransit DEF ServerSends, ServerEnds
<1>6. CallOK(t, Of(Transit', c), todo, blockedIn, c)
  <2>1. CallOK(s, Of(Transit, c), todo, blockedIn, c)
    BY <1>1 DEF GrpcInv, CallsOK
  <2>2. /\ FreeOK(s, Of(Transit, c)) => FreeOK(t, Of(Transit, c))
        /\ WaitedOK(s, Of(Transit, c)) => WaitedOK(t, Of(Transit, c))
    BY <1>2, <1>4, BackendOK
  <2> QED
    BY <1>5, <2>1, <2>2 DEF CallOK
<1>7. UNCHANGED <<activeCalls, todo, blockedIn, shutdown>> /\ failed' = {}
  BY DEF ServerSends, ServerEnds, GrpcInv
<1> QED
  BY <1>1, <1>4, <1>5, <1>6, <1>7, FieldsStep

LEMMA EnqueueCallbackStep ==
    ASSUME GrpcInv, EnqueueCallback
    PROVE  GrpcInv'
<1>1. workQueue \in Seq(Events) /\ poller \in Seq(Events)
  BY DEF GrpcInv, TypeOK
<1>2. PICK q \in Seq(Events) : q = workQueue \o poller
  BY <1>1, ConcatProperties
<1>3. workQueue' = q /\ poller' = <<>>
  BY <1>2 DEF EnqueueCallback
<1>4. q \o <<>> = q
  BY ConcatEmptySeq
<1>5. Transit' = Transit
  BY <1>2, <1>3, <1>4 DEF Transit
<1>6. poller' \in Seq(Events)
  BY <1>3, EmptySeq
<1>7. UNCHANGED <<call, activeCalls, todo, blockedIn, shutdown, failed>>
  BY DEF EnqueueCallback
<1>8. TypeOK'
  BY <1>2, <1>3, <1>6, <1>7 DEF GrpcInv, TypeOK
<1>9. CallsOK'
  BY <1>5, <1>7 DEF GrpcInv, CallsOK
<1>10. Distinct(Transit')
  BY <1>5 DEF GrpcInv
<1>11. ActiveOK' /\ TodoOK' /\ PhaseOK' /\ failed' = {}
  BY <1>7 DEF GrpcInv, ActiveOK, TodoOK, PhaseOK
<1> QED
  BY <1>8, <1>9, <1>10, <1>11 DEF GrpcInv

\* gRPC fails an operation only of a call that is over.
LEMMA OutcomesAre ==
    ASSUME NEW s \in Fields, NEW op \in s.ops, NEW ok \in Outcomes(s, op)
    PROVE  ok \in BOOLEAN /\ (~ok => IsDoomed(s))
<1>1. op.type \in Types
  BY DEF Fields, GrpcOps
<1>2. CASE op.type = "Read"
  <2>1. ok \in {b \in BOOLEAN : IF b THEN s.unread > 0
                               ELSE \/ s.contextCancelled
                                    \/ s.ended = "error"
                                    \/ s.ended = "ok" /\ s.unread = 0}
    BY <1>2 DEF Outcomes
  <2>2. ok \in BOOLEAN
    BY <2>1
  <2>3. CASE ok = TRUE
    BY <2>3
  <2>4. CASE ok = FALSE
    <3>1. s.contextCancelled \/ s.ended = "error" \/ s.ended = "ok"
      BY <2>1, <2>4
    <3> QED
      BY <2>4, <3>1 DEF IsDoomed
  <2> QED
    BY <2>2, <2>3, <2>4
<1>3. CASE op.type = "Write"
  <2>1. ok = (IsDoomed(s) => s.kind = "reader" /\ (s.owed > 0 \/ s.ended = "ok"))
    BY <1>3 DEF Outcomes
  <2> QED
    BY <2>1
<1>4. CASE op.type = "Finish"
  <2>1. ok \in {b \in BOOLEAN : b /\ IsDoomed(s)}
    BY <1>4 DEF Outcomes
  <2> QED
    BY <2>1
<1> QED
  BY <1>1, <1>2, <1>3, <1>4 DEF Types

LEMMA NextCompletionStep ==
    ASSUME GrpcInv, NEW c \in Calls, NextCompletion(c)
    PROVE  GrpcInv'
<1>1. PICK s \in Fields : s = call[c]
  BY DEF GrpcInv, TypeOK
<1>2a. PICK op \in s.ops : \E ok \in Outcomes(s, op) :
          /\ poller' = <<[call |-> c, n |-> op.n, type |-> op.type, ok |-> ok,
                          status |-> IF s.ended = "ok" THEN "ok" ELSE "error"]>>
          /\ call' = [call EXCEPT ![c] = Taken(s, op, ok)]
  BY <1>1 DEF NextCompletion
<1>2. PICK ok \in Outcomes(s, op) :
          /\ poller' = <<[call |-> c, n |-> op.n, type |-> op.type, ok |-> ok,
                          status |-> IF s.ended = "ok" THEN "ok" ELSE "error"]>>
          /\ call' = [call EXCEPT ![c] = Taken(s, op, ok)]
  BY <1>2a
<1>3. ok \in BOOLEAN /\ (~ok => IsDoomed(s))
  BY OutcomesAre
<1>4. op \in GrpcOps /\ op.n \in Nat /\ op.type \in Types
  BY DEF Fields, GrpcOps
<1>5. PICK status \in Statuses : status = IF s.ended = "ok" THEN "ok" ELSE "error"
  BY DEF Statuses
<1>6. PICK e : e = [call |-> c, n |-> op.n, type |-> op.type, ok |-> ok, status |-> status]
  OBVIOUS
<1>7. e \in Events /\ e.call = c /\ e.n = op.n /\ e.type = op.type /\ e.ok = ok
  BY <1>3, <1>4, <1>6 DEF Events
<1>8. poller' = <<e>>
  BY <1>2, <1>5, <1>6
<1>9. workQueue \in Seq(Events) /\ poller = <<>> /\ workQueue' = workQueue
  BY DEF GrpcInv, TypeOK, NextCompletion
<1>10. Transit = workQueue
  <2>1. workQueue \o <<>> = workQueue
    BY <1>9, ConcatEmptySeq
  <2> QED
    BY <1>9, <2>1 DEF Transit
<1>11. Transit' = Append(workQueue, e)
  <2>1. workQueue \o <<e>> = Append(workQueue, e)
    BY <1>7, <1>9, AppendIsConcat
  <2> QED
    BY <1>8, <1>9, <2>1 DEF Transit
<1>12. poller' \in Seq(Events)
  BY <1>7, <1>8
<1>13. PICK E : E = Of(workQueue, c)
  OBVIOUS
<1>14. CallOK(s, E, todo, blockedIn, c)
  BY <1>1, <1>10, <1>13 DEF GrpcInv, CallsOK
<1>15. BooksOK(s, E)
  BY <1>14 DEF CallOK, FreeOK, WaitedOK
<1>16. \A x \in E : x.n # e.n
  BY <1>7, <1>15 DEF BooksOK
<1>17. PICK r : r = Append(workQueue, e)
  OBVIOUS
<1>18. Distinct(workQueue)
  BY <1>10 DEF GrpcInv
<1>19. Distinct(r) /\ Of(r, c) = E \cup {e} /\ \A d : d # c => Of(r, d) = Of(workQueue, d)
  <2>1. e \in Events /\ IsApart(e, Of(workQueue, e.call)) /\ IsExtended(r, workQueue, e)
    BY <1>7, <1>13, <1>16, <1>17 DEF IsApart, IsExtended
  <2>2. workQueue \in Seq(Events)
    BY <1>9
  <2>3. /\ Distinct(r) /\ Of(r, e.call) = Of(workQueue, e.call) \cup {e}
        /\ \A d : d # e.call => Of(r, d) = Of(workQueue, d)
    BY <1>18, <2>1, <2>2, AppendOf
  <2> QED
    BY <1>7, <1>13, <2>3
<1>20. PICK O \in SUBSET GrpcOps : O = s.ops \ {op}
  BY DEF Fields
<1>21. \E u \in Int : Taken(s, op, ok) = [s EXCEPT !.ops = O, !.unread = u]
  <2>1. s.unread \in Int /\ s.unread - 1 \in Int
    BY DEF Fields
  <2>2. CASE op.type = "Read" /\ ok
    <3>1. PICK u \in Int : u = s.unread - 1
      BY <2>1
    <3>2. Taken(s, op, ok) = [s EXCEPT !.ops = O, !.unread = u]
      BY <1>20, <2>2, <3>1 DEF Taken, Fields
    <3> QED
      BY <3>2
  <2>3. CASE ~(op.type = "Read" /\ ok)
    <3>1. PICK u \in Int : u = s.unread
      BY <2>1
    <3>2. Taken(s, op, ok) = [s EXCEPT !.ops = O, !.unread = u]
      BY <1>20, <2>3, <3>1 DEF Taken, Fields
    <3> QED
      BY <3>2
  <2> QED
    BY <2>2, <2>3
<1>21a. PICK u \in Int : Taken(s, op, ok) = [s EXCEPT !.ops = O, !.unread = u]
  BY <1>21
<1>22. PICK t : t = [s EXCEPT !.ops = O, !.unread = u]
  OBVIOUS
<1>23. /\ t \in Fields /\ Kept(t, s) /\ t.completions = s.completions
       /\ t.cancelled = s.cancelled /\ t.hasActiveWrite = s.hasActiveWrite /\ t.ops = O
  BY <1>22 DEF Fields, Kept
<1>24. call' = [call EXCEPT ![c] = t]
  BY <1>2, <1>21a, <1>22
<1>25. PICK F : F = E \cup {e}
  OBVIOUS
<1>26. (FreeOK(s, E) => FreeOK(t, F)) /\ (WaitedOK(s, E) => WaitedOK(t, F))
  BY <1>3, <1>7, <1>20, <1>23, <1>25, TakeOK
<1>27. CallOK(t, Of(r, c), todo, blockedIn, c)
  BY <1>14, <1>19, <1>25, <1>26 DEF CallOK
<1>28. UNCHANGED <<activeCalls, todo, blockedIn, shutdown>> /\ failed' = {}
  BY DEF NextCompletion, GrpcInv
<1>29. Transit' = r
  BY <1>11, <1>17
<1>30. /\ workQueue' \in Seq(Events) /\ Distinct(Transit')
       /\ \A d \in Calls : d # c => Of(Transit', d) = Of(Transit, d)
       /\ CallOK(t, Of(Transit', c), todo, blockedIn, c)
  BY <1>9, <1>10, <1>19, <1>27, <1>29
<1>31. /\ t.kind = call[c].kind /\ t.life = call[c].life /\ t.observer = call[c].observer
       /\ t.registered = call[c].registered /\ t.isCallFinished = call[c].isCallFinished
       /\ t.completions = call[c].completions
  BY <1>1, <1>23 DEF Kept
<1> QED
  BY <1>12, <1>23, <1>24, <1>28, <1>30, <1>31, FieldsStep

\* A registered call is there.
LEMMA ActiveIsLive ==
    ASSUME GrpcInv, NEW c \in Range(activeCalls)
    PROVE  c \in Calls /\ call[c].life = "live" /\ call[c].registered
<1>1. c \in Calls
  <2>1. activeCalls \in Seq(Calls)
    BY DEF GrpcInv, TypeOK
  <2>2. PICK i \in 1 .. Len(activeCalls) : c = activeCalls[i]
    BY <2>1 DEF Range
  <2> QED
    BY <2>1, <2>2, ElementOfSeq
<1>2. call[c].registered
  BY <1>1 DEF GrpcInv, ActiveOK
<1>3. CallOK(call[c], Of(Transit, c), todo, blockedIn, c)
  BY <1>1 DEF GrpcInv, CallsOK
<1>4. LifeOK(call[c], Of(Transit, c))
  BY <1>3 DEF CallOK, FreeOK, WaitedOK
<1> QED
  BY <1>1, <1>2, <1>4 DEF LifeOK

LEMMA StopStreamStep ==
    ASSUME GrpcInv, NEW c \in Calls, StopStream(c)
    PROVE  GrpcInv'
<1>1. todo = <<>> /\ shutdown \in {"no", "queue"} /\ \A d \in Calls : ~IsToDo(todo, d)
  BY IdleIs DEF StopStream
<1>2. call[c].life = "live" /\ call[c].kind = "stream"
  BY DEF StopStream, IsOpenStream
<1>3. \A d \in Calls : InPhase(call[d], shutdown, todo, d)
  BY DEF GrpcInv, PhaseOK
<1>4. shutdown = "no"
  BY <1>1, <1>2, <1>3 DEF InPhase
<1>5. PICK op \in {"Close", "WriteAndFinish"} : todo' = <<Operation(op, c, "none")>>
  BY DEF StopStream
<1>6. op \in OpNames /\ "none" \in Statuses
  BY DEF OpNames, Statuses
<1>7. /\ todo' \in Seq(Operations) /\ Apart(todo')
      /\ \A i \in 1 .. Len(todo') : i = 1 /\ todo'[i].op = op /\ todo'[i].call = c
  BY <1>5, <1>6, OneIs
<1>8. UNCHANGED <<call, activeCalls, blockedIn, workQueue, poller, failed, shutdown>>
  BY DEF StopStream
<1>9. \A d \in Calls : InPhase(call[d], shutdown', todo', d)
  BY <1>1, <1>3, <1>4, <1>8 DEF InPhase
<1>10. op \in Allowed(shutdown') /\ op # "FinishGrpcCall" /\ shutdown' \in Phases
  BY <1>4, <1>8 DEF Allowed, Phases
<1> QED
  BY <1>1, <1>2, <1>7, <1>8, <1>9, <1>10, ListStep

LEMMA ConnectivityChangedStep ==
    ASSUME GrpcInv, ConnectivityChanged
    PROVE  GrpcInv'
<1>1. todo = <<>> /\ shutdown = "no" /\ \A d \in Calls : ~IsToDo(todo, d)
  BY IdleIs DEF ConnectivityChanged
<1>2. \A d \in Calls : InPhase(call[d], shutdown, todo, d)
  BY DEF GrpcInv, PhaseOK
<1>3. activeCalls \in Seq(Calls) /\ Injective(activeCalls)
  BY DEF GrpcInv, TypeOK, ActiveOK
<1>4. PICK op \in OpNames : op = "FinishAndNotify"
  BY DEF OpNames
<1>5. PICK status \in Statuses : status = "error"
  BY DEF Statuses
<1>6. todo' = [i \in 1 .. Len(activeCalls) |-> Operation(op, activeCalls[i], status)]
  BY <1>4, <1>5 DEF ConnectivityChanged
<1>7. /\ todo' \in Seq(Operations) /\ Apart(todo')
      /\ \A i \in 1 .. Len(todo') : todo'[i].op = op /\ todo'[i].call \in Range(activeCalls)
  BY <1>3, <1>6, ListIs
<1>8. UNCHANGED <<call, activeCalls, blockedIn, workQueue, poller, failed, shutdown>>
  BY DEF ConnectivityChanged
<1>9. \A d \in Calls : InPhase(call[d], shutdown', todo', d)
  BY <1>1, <1>2, <1>8 DEF InPhase
<1>10. op \in Allowed(shutdown') /\ op # "FinishGrpcCall" /\ shutdown' \in Phases
  BY <1>1, <1>4, <1>8 DEF Allowed, Phases
<1>11. \A i \in 1 .. Len(todo') : call[todo'[i].call].life = "live"
  BY <1>7, ActiveIsLive
<1> QED
  BY <1>1, <1>7, <1>8, <1>9, <1>10, <1>11, ListStep

LEMMA ShutdownStep ==
    ASSUME GrpcInv, Shutdown
    PROVE  GrpcInv'
<1>1. todo = <<>> /\ shutdown = "no" /\ \A d \in Calls : ~IsToDo(todo, d)
  BY IdleIs DEF Shutdown
<1>2. \A d \in Calls : InPhase(call[d], shutdown, todo, d)
  BY DEF GrpcInv, PhaseOK
<1>3. PICK L : L = {c \in Range(activeCalls) : IsOpenStream(c)}
  OBVIOUS
<1>4. PICK order \in SetToSeqs(L), op \in {"Close", "WriteAndFinish"} :
          todo' = [i \in 1 .. Len(order) |-> Operation(op, order[i], "none")]
  BY <1>3 DEF Shutdown
<1>5. activeCalls \in Seq(Calls) /\ L \subseteq Range(activeCalls)
  BY <1>3 DEF GrpcInv, TypeOK
<1>6. order \in Seq(Calls) /\ Injective(order) /\ \A c : c \in Range(order) <=> c \in L
  BY <1>5, OrderIs
<1>7. op \in OpNames
  BY DEF OpNames
<1>8. PICK status \in Statuses : status = "none"
  BY DEF Statuses
<1>9. /\ todo' \in Seq(Operations) /\ Apart(todo')
      /\ \A i \in 1 .. Len(todo') : todo'[i].op = op /\ todo'[i].call \in Range(order)
      /\ \A c : IsToDo(todo', c) <=> c \in Range(order)
  <2>1. todo' = [i \in 1 .. Len(order) |-> Operation(op, order[i], status)]
    BY <1>4, <1>8
  <2> QED
    BY <1>6, <1>7, <2>1, ListIs
<1>10. UNCHANGED <<call, activeCalls, blockedIn, workQueue, poller, failed>>
       /\ shutdown' = "streams"
  BY DEF Shutdown
<1>11. \A d \in Calls : InPhase(call[d], shutdown', todo', d)
  <2>1. ASSUME NEW d \in Calls, call[d].life = "live"
        PROVE  /\ call[d].observer /\ call[d].registered
               /\ call[d].kind = "stream" => IsToDo(todo', d)
    <3>1. call[d].observer /\ call[d].registered
      BY <1>1, <1>2, <2>1 DEF InPhase
    <3>2. d \in Range(activeCalls)
      BY <3>1 DEF GrpcInv, ActiveOK
    <3> QED
      BY <1>3, <1>6, <1>9, <2>1, <3>1, <3>2 DEF IsOpenStream
  <2> QED
    BY <1>10, <2>1 DEF InPhase
<1>12. op \in Allowed(shutdown') /\ op # "FinishGrpcCall" /\ shutdown' \in Phases
  BY <1>10 DEF Allowed, Phases
<1>13. \A i \in 1 .. Len(todo') : call[todo'[i].call].life = "live"
  BY <1>5, <1>6, <1>9, ActiveIsLive
<1> QED
  BY <1>1, <1>9, <1>10, <1>11, <1>12, <1>13, ListStep

LEMMA ShutdownDatastoreStep ==
    ASSUME GrpcInv, ShutdownDatastore
    PROVE  GrpcInv'
<1>1. todo = <<>> /\ shutdown = "streams"
  BY DEF ShutdownDatastore
<1>2. \A d \in Calls : ~IsToDo(todo, d)
  <2>1. Len(todo) = 0
    BY <1>1, EmptySeq
  <2> QED
    BY <2>1 DEF IsToDo
<1>3. \A d \in Calls : InPhase(call[d], shutdown, todo, d)
  BY DEF GrpcInv, PhaseOK
<1>4. activeCalls \in Seq(Calls) /\ Injective(activeCalls)
  BY DEF GrpcInv, TypeOK, ActiveOK
<1>5. PICK op \in OpNames : op = "FinishImmediately"
  BY DEF OpNames
<1>6. PICK status \in Statuses : status = "none"
  BY DEF Statuses
<1>7. todo' = [i \in 1 .. Len(activeCalls) |-> Operation(op, activeCalls[i], status)]
  BY <1>5, <1>6 DEF ShutdownDatastore
<1>8. /\ todo' \in Seq(Operations) /\ Apart(todo')
      /\ \A i \in 1 .. Len(todo') : todo'[i].op = op /\ todo'[i].call \in Range(activeCalls)
      /\ \A c : IsToDo(todo', c) <=> c \in Range(activeCalls)
  BY <1>4, <1>7, ListIs
<1>9. UNCHANGED <<call, activeCalls, blockedIn, workQueue, poller, failed>>
      /\ shutdown' = "calls"
  BY DEF ShutdownDatastore
<1>10. \A d \in Calls : InPhase(call[d], shutdown', todo', d)
  <2>1. ASSUME NEW d \in Calls, call[d].life = "live"
        PROVE  call[d].kind # "stream" /\ IsToDo(todo', d)
    <3>1. call[d].kind # "stream" /\ call[d].registered
      BY <1>1, <1>2, <1>3, <2>1 DEF InPhase
    <3>2. d \in Range(activeCalls)
      BY <3>1 DEF GrpcInv, ActiveOK
    <3> QED
      BY <1>8, <3>1, <3>2
  <2> QED
    BY <1>9, <2>1 DEF InPhase
<1>11. op \in Allowed(shutdown') /\ op # "FinishGrpcCall" /\ shutdown' \in Phases
  BY <1>5, <1>9 DEF Allowed, Phases
<1>12. \A i \in 1 .. Len(todo') : call[todo'[i].call].life = "live"
  BY <1>8, ActiveIsLive
<1> QED
  BY <1>1, <1>8, <1>9, <1>10, <1>11, <1>12, ListStep

LEMMA CloseGrpcQueueStep ==
    ASSUME GrpcInv, CloseGrpcQueue
    PROVE  GrpcInv'
<1>1. /\ todo = <<>> /\ shutdown = "calls" /\ shutdown' = "queue"
      /\ UNCHANGED <<call, activeCalls, todo, blockedIn, workQueue, poller, failed>>
  BY DEF CloseGrpcQueue
<1>2. Len(todo') = 0
  BY <1>1, EmptySeq
<1>3. todo' \in Seq(Operations) /\ Apart(todo') /\ shutdown' \in Phases
  BY <1>1 DEF GrpcInv, TypeOK, TodoOK, Phases
<1>4. \A d \in Calls : InPhase(call[d], shutdown', todo', d)
  BY <1>1 DEF GrpcInv, PhaseOK, InPhase
<1>5. \A i \in 1 .. Len(todo') :
              /\ call[todo'[i].call].life = "live" /\ todo'[i].op \in Allowed(shutdown')
              /\ todo'[i].op # "FinishGrpcCall"
  BY <1>2
<1> QED
  BY <1>1, <1>3, <1>4, <1>5, ListStep

\* The callback that runs is that of the first completion on its way.
LEMMA CallbackIs ==
    ASSUME GrpcInv, NEW e, RunCompletion(e)
    PROVE  /\ e \in Events /\ e.call \in Calls
           /\ workQueue' \in Seq(Events) /\ poller' \in Seq(Events) /\ Distinct(Transit')
           /\ Sole(Of(Transit, e.call), e)
           /\ IsRest(Of(Transit', e.call), Of(Transit, e.call), e)
           /\ \A d \in Calls : d # e.call => Of(Transit', d) = Of(Transit, d)
<1>1. /\ workQueue \in Seq(Events) /\ poller \in Seq(Events) /\ poller' = poller
      /\ workQueue # <<>> /\ e = Head(workQueue) /\ workQueue' = Tail(workQueue)
  BY DEF GrpcInv, TypeOK, RunCompletion
<1>2. PICK w \in Seq(Events) : w = Tail(workQueue)
  BY <1>1, HeadTailProperties
<1>3. PICK q \in Seq(Events) : q = workQueue \o poller
  BY <1>1, ConcatProperties
<1>4. PICK r \in Seq(Events) : r = w \o poller
  BY <1>1, ConcatProperties
<1>5. PICK n \in Nat, m \in Nat : n = Len(workQueue) /\ m = Len(poller) /\ n # 0
  BY <1>1, EmptySeq
<1>6. Len(w) = n - 1 /\ \A i \in 1 .. n - 1 : w[i] = workQueue[i + 1]
  BY <1>1, <1>2, <1>5, HeadTailProperties
<1>7. Len(q) = n + m /\ \A i \in 1 .. n + m :
          q[i] = IF i <= n THEN workQueue[i] ELSE poller[i - n]
  BY <1>1, <1>3, <1>5, ConcatProperties
<1>8. Len(r) = (n - 1) + m /\ \A i \in 1 .. (n - 1) + m :
          r[i] = IF i <= n - 1 THEN w[i] ELSE poller[i - (n - 1)]
  BY <1>1, <1>4, <1>5, <1>6, ConcatProperties
<1>9. q # <<>> /\ Head(q) = e
  <2>1. n + m # 0 /\ 1 \in 1 .. n + m /\ 1 <= n
    BY <1>5
  <2>2. q # <<>>
    BY <1>7, <2>1, EmptySeq
  <2>3. Head(q) = q[1] /\ Head(workQueue) = workQueue[1]
    BY <1>1, <2>2, HeadTailProperties
  <2> QED
    BY <1>1, <1>7, <2>1, <2>2, <2>3
<1>10. r = Tail(q)
  <2>1. PICK u \in Seq(Events) : u = Tail(q)
    BY <1>9, HeadTailProperties
  <2>2. Len(u) = (n + m) - 1 /\ \A i \in 1 .. (n + m) - 1 : u[i] = q[i + 1]
    BY <1>7, <1>9, <2>1, HeadTailProperties
  <2>3. (n + m) - 1 = (n - 1) + m
    OBVIOUS
  <2>4. ASSUME NEW i \in 1 .. (n - 1) + m PROVE u[i] = r[i]
    <3>1. i + 1 \in 1 .. n + m /\ i \in 1 .. (n + m) - 1
      OBVIOUS
    <3>2. u[i] = IF i + 1 <= n THEN workQueue[i + 1] ELSE poller[(i + 1) - n]
      BY <1>7, <2>2, <3>1
    <3>3. r[i] = IF i <= n - 1 THEN w[i] ELSE poller[i - (n - 1)]
      BY <1>8
    <3>4. CASE i <= n - 1
      BY <1>6, <3>2, <3>3, <3>4
    <3>5. CASE ~(i <= n - 1)
      <4>1. ~(i + 1 <= n) /\ (i + 1) - n = i - (n - 1)
        BY <3>5
      <4> QED
        BY <3>2, <3>3, <3>5, <4>1
    <3> QED
      BY <3>4, <3>5
  <2>5. u = r
    BY <1>8, <2>2, <2>3, <2>4, SeqEqual
  <2> QED
    BY <2>1, <2>5
<1>11. Transit = q /\ Transit' = r
  BY <1>1, <1>2, <1>3, <1>4 DEF Transit
<1>12. Distinct(q)
  BY <1>11 DEF GrpcInv
<1>13. /\ e \in Events /\ Distinct(r)
       /\ Sole(Of(q, e.call), e) /\ IsRest(Of(r, e.call), Of(q, e.call), e)
       /\ \A c : c # e.call => Of(r, c) = Of(q, c)
  <2>1. IsTaken(e, q, r)
    BY <1>9, <1>10 DEF IsTaken
  <2> QED
    BY <1>12, <2>1, TailOf
<1>14. e.call \in Calls
  BY <1>13 DEF Events
<1> QED
  BY <1>1, <1>2, <1>11, <1>13, <1>14

\* A callback that is not cancelled finds its call and its completion there.
LEMMA CallbackAsserts ==
    ASSUME GrpcInv, NEW e, RunCompletion(e), ~CallbackIsCancelled(e)
    PROVE  /\ FreeOK(call[e.call], Of(Transit, e.call)) /\ call[e.call] \in Fields
           /\ call[e.call].life = "live" /\ shutdown = "no"
           /\ IsTracked(e) = {} /\ Alive(call[e.call]) = {}
           /\ e.n \notin call[e.call].cancelled
           /\ IsWithout(RemoveCompletion(e), call[e.call], e.n)
<1>1. e.call \in Calls /\ Sole(Of(Transit, e.call), e)
  BY CallbackIs
<1>2. PICK s \in Fields : s = call[e.call]
  BY <1>1 DEF GrpcInv, TypeOK
<1>3. PICK E : E = Of(Transit, e.call)
  OBVIOUS
<1>4. /\ FreeOK(s, E) /\ ~IsToDo(todo, e.call) /\ shutdown \in {"no", "queue"}
  BY <1>1, <1>2, <1>3, IdleIs DEF RunCompletion
<1>5. e.n \notin s.cancelled
  BY <1>2 DEF CallbackIsCancelled
<1>6. e.n \in s.completions
  BY <1>1, <1>3, <1>4, <1>5 DEF Sole, FreeOK, BooksOK
<1>7. s.life = "live"
  BY <1>4, <1>6 DEF FreeOK, LifeOK
<1>8. shutdown = "no"
  <2>1. InPhase(s, shutdown, todo, e.call)
    BY <1>1, <1>2 DEF GrpcInv, PhaseOK
  <2> QED
    BY <1>4, <1>6, <1>7, <2>1 DEF InPhase
<1>9. IsTracked(e) = {} /\ Alive(s) = {}
  <2>1. IsTracked(e) = {}
    BY <1>2, <1>6 DEF IsTracked, HardAssert
  <2>2. Alive(s) = {}
    BY <1>7 DEF Alive, HardAssert
  <2> QED
    BY <2>1, <2>2
<1>10. IsWithout(RemoveCompletion(e), s, e.n)
  BY <1>2 DEF IsWithout, RemoveCompletion
<1> QED
  BY <1>2, <1>3, <1>4, <1>5, <1>7, <1>8, <1>9, <1>10

\* A callback gives the worker an operation with its call to do.
LEMMA GivenStep ==
    ASSUME GrpcInv, todo = <<>>, shutdown = "no", shutdown' = shutdown,
           NEW c \in Calls, NEW t \in Fields, call' = [call EXCEPT ![c] = t],
           call[c].life = "live", Stays(t, call[c]), t.registered = call[c].registered,
           activeCalls' = activeCalls, failed' = {},
           workQueue' \in Seq(Events), poller' \in Seq(Events), Distinct(Transit'),
           \A d \in Calls : d # c => Of(Transit', d) = Of(Transit, d),
           NEW op \in Allowed("no"), NEW status \in Statuses,
           todo' = <<Operation(op, c, status)>>,
           \/ blockedIn' = "nothing" /\ op # "FinishGrpcCall" /\ FreeOK(t, Of(Transit', c))
           \/ /\ blockedIn' = "finish" /\ op = "FinishGrpcCall" /\ t.isCallFinished
              /\ WaitedOK(t, Of(Transit', c))
    PROVE  GrpcInv'
<1>1. op \in OpNames
  BY DEF Allowed, OpNames
<1>2. /\ todo' \in Seq(Operations) /\ Apart(todo') /\ todo' # <<>>
      /\ Head(todo').op = op /\ Head(todo').call = c
      /\ \A i \in 1 .. Len(todo') : i = 1 /\ todo'[i].op = op /\ todo'[i].call = c
      /\ \A d : IsToDo(todo', d) <=> d = c
  BY <1>1, OneIs
<1>3. \A d \in Calls : d # c => ~Waits(todo', blockedIn', d) /\ ~Waits(todo, blockedIn, d)
  BY <1>2 DEF Waits
<1>4. CallOK(t, Of(Transit', c), todo', blockedIn', c)
  BY <1>2 DEF CallOK, Waits
<1>5. call' \in [Calls -> Fields] /\ CallsOK'
  BY <1>3, <1>4, CallsFrame DEF GrpcInv
<1>6. ActiveOK'
  BY ActiveFrame DEF GrpcInv
<1>7. call'[c] = t
  BY DEF GrpcInv, TypeOK
<1>8. TodoOK'
  <2>1. Allowed(shutdown') = Allowed("no")
    OBVIOUS
  <2>2. t.life = "live" /\ t.registered
    <3>1. InPhase(call[c], shutdown, todo, c)
      BY DEF GrpcInv, PhaseOK
    <3>2. Len(todo) = 0
      BY EmptySeq
    <3>3. ~IsToDo(todo, c)
      BY <3>2 DEF IsToDo
    <3> QED
      BY <3>1, <3>3 DEF Stays, InPhase
  <2>3. blockedIn' # "drain" /\ (blockedIn' = "finish" => op = "FinishGrpcCall" /\ t.isCallFinished)
        /\ (op = "FinishGrpcCall" => blockedIn' = "finish")
    OBVIOUS
  <2> QED
    BY <1>2, <1>7, <2>1, <2>2, <2>3 DEF TodoOK
<1>9. PhaseOK'
  <2>1. \A d \in Calls : InPhase(call[d], shutdown, todo, d)
    BY DEF GrpcInv, PhaseOK
  <2>2. \A d \in Calls : ~IsToDo(todo, d)
    <3>1. Len(todo) = 0
      BY EmptySeq
    <3> QED
      BY <3>1 DEF IsToDo
  <2>3. ASSUME NEW d \in Calls PROVE InPhase(call'[d], shutdown', todo', d)
    <3>1. call'[d].life = call[d].life /\ call'[d].observer = call[d].observer
          /\ call'[d].registered = call[d].registered
      BY <1>7 DEF GrpcInv, TypeOK, Stays
    <3> QED
      BY <2>1, <2>2, <3>1 DEF InPhase
  <2> QED
    BY <2>3 DEF PhaseOK
<1>10. TypeOK'
  BY <1>2, <1>5 DEF GrpcInv, TypeOK, Places
<1> QED
  BY <1>5, <1>6, <1>8, <1>9, <1>10 DEF GrpcInv

LEMMA CancelledCallbackStep ==
    ASSUME GrpcInv, NEW e, CancelledCallback(e)
    PROVE  GrpcInv'
<1>1. /\ e.call \in Calls
      /\ workQueue' \in Seq(Events) /\ poller' \in Seq(Events) /\ Distinct(Transit')
      /\ Sole(Of(Transit, e.call), e)
      /\ IsRest(Of(Transit', e.call), Of(Transit, e.call), e)
      /\ \A d \in Calls : d # e.call => Of(Transit', d) = Of(Transit, d)
  BY CallbackIs DEF CancelledCallback
<1>2. PICK c \in Calls : c = e.call
  BY <1>1
<1>3. PICK s \in Fields : s = call[c]
  BY DEF GrpcInv, TypeOK
<1>4. PICK E : E = Of(Transit, c)
  OBVIOUS
<1>5. FreeOK(s, E) /\ todo = <<>>
  BY <1>3, <1>4, IdleIs DEF CancelledCallback, RunCompletion
<1>6. PICK r : r = [s EXCEPT !.cancelled = @ \ {e.n}]
  OBVIOUS
<1>7. e.n \in s.cancelled
  BY <1>2, <1>3 DEF CancelledCallback, CallbackIsCancelled
<1>8. Sole(E, e)
  BY <1>1, <1>2, <1>4
<1>9. r \in Fields /\ Kept(r, s) /\ r.completions = s.completions /\ FreeOK(r, E \ {e})
  BY <1>5, <1>6, <1>7, <1>8, DeleteOK
<1>10. call' = [call EXCEPT ![c] = r]
  BY <1>2, <1>3, <1>6 DEF CancelledCallback
<1>11. FreeOK(r, Of(Transit', c))
  BY <1>1, <1>2, <1>4, <1>9 DEF IsRest
<1>12. CallOK(r, Of(Transit', c), todo, blockedIn, c)
  BY <1>5, <1>11 DEF CallOK, Waits
<1>13. UNCHANGED <<activeCalls, todo, blockedIn, shutdown>> /\ failed' = {}
  BY DEF CancelledCallback, RunCompletion, GrpcInv
<1>14. /\ r.kind = call[c].kind /\ r.life = call[c].life /\ r.observer = call[c].observer
       /\ r.registered = call[c].registered /\ r.isCallFinished = call[c].isCallFinished
       /\ r.completions = call[c].completions
  BY <1>3, <1>9 DEF Kept
<1>15. \A d \in Calls : d # c => Of(Transit', d) = Of(Transit, d)
  BY <1>1, <1>2
<1> QED
  BY <1>1, <1>9, <1>10, <1>12, <1>13, <1>14, <1>15, FieldsStep

\* A callback that leaves the worker nothing to do.
LEMMA DoneCallback ==
    ASSUME GrpcInv, NEW e, RunCompletion(e), ~CallbackIsCancelled(e),
           NEW t \in Fields, call' = [call EXCEPT ![e.call] = t], failed' = {},
           Kept(t, call[e.call]), FreeOK(t, Of(Transit', e.call)), UNCHANGED <<todo, blockedIn>>
    PROVE  GrpcInv'
<1>1. /\ e.call \in Calls
      /\ workQueue' \in Seq(Events) /\ poller' \in Seq(Events) /\ Distinct(Transit')
      /\ \A d \in Calls : d # e.call => Of(Transit', d) = Of(Transit, d)
  BY CallbackIs
<1>2. PICK c \in Calls : c = e.call
  BY <1>1
<1>3. shutdown = "no" /\ todo = <<>>
  BY CallbackAsserts DEF RunCompletion, IsIdle
<1>4. CallOK(t, Of(Transit', c), todo, blockedIn, c)
  BY <1>2, <1>3 DEF CallOK, Waits
<1>5. UNCHANGED <<activeCalls, todo, blockedIn, shutdown>>
  BY DEF RunCompletion
<1>6. /\ t.kind = call[c].kind /\ t.life = call[c].life /\ t.observer = call[c].observer
      /\ t.registered = call[c].registered /\ t.isCallFinished = call[c].isCallFinished
  BY <1>2 DEF Kept
<1>7. shutdown \notin {"calls", "queue"}
  BY <1>3
<1>8. call' = [call EXCEPT ![c] = t] /\ \A d \in Calls : d # c => Of(Transit', d) = Of(Transit, d)
  BY <1>1, <1>2
<1> QED
  BY <1>1, <1>4, <1>5, <1>6, <1>7, <1>8, FieldsStep

\* A callback that gives the worker an operation.
LEMMA GivingCallback ==
    ASSUME GrpcInv, NEW e, RunCompletion(e), ~CallbackIsCancelled(e),
           NEW t \in Fields, call' = [call EXCEPT ![e.call] = t], failed' = {},
           Stays(t, call[e.call]), t.registered = call[e.call].registered,
           NEW op \in Allowed("no"), NEW status \in Statuses,
           todo' = <<Operation(op, e.call, status)>>,
           \/ blockedIn' = "nothing" /\ op # "FinishGrpcCall" /\ FreeOK(t, Of(Transit', e.call))
           \/ /\ blockedIn' = "finish" /\ op = "FinishGrpcCall" /\ t.isCallFinished
              /\ WaitedOK(t, Of(Transit', e.call))
    PROVE  GrpcInv'
<1>1. /\ e.call \in Calls
      /\ workQueue' \in Seq(Events) /\ poller' \in Seq(Events) /\ Distinct(Transit')
      /\ \A d \in Calls : d # e.call => Of(Transit', d) = Of(Transit, d)
  BY CallbackIs
<1>2. PICK c \in Calls : c = e.call
  BY <1>1
<1>3. shutdown = "no" /\ todo = <<>> /\ call[c].life = "live"
  BY <1>2, CallbackAsserts DEF RunCompletion, IsIdle
<1>4. shutdown' = shutdown /\ activeCalls' = activeCalls
  BY DEF RunCompletion
<1>5. /\ call' = [call EXCEPT ![c] = t] /\ todo' = <<Operation(op, c, status)>>
      /\ Stays(t, call[c]) /\ t.registered = call[c].registered
      /\ \A d \in Calls : d # c => Of(Transit', d) = Of(Transit, d)
      /\ \/ blockedIn' = "nothing" /\ op # "FinishGrpcCall" /\ FreeOK(t, Of(Transit', c))
         \/ /\ blockedIn' = "finish" /\ op = "FinishGrpcCall" /\ t.isCallFinished
            /\ WaitedOK(t, Of(Transit', c))
  BY <1>1, <1>2
<1> QED
  BY <1>1, <1>3, <1>4, <1>5, GivenStep, ZenonT(60)

LEMMA ReadCompletedStep ==
    ASSUME GrpcInv, NEW e, ReadCompleted(e)
    PROVE  GrpcInv'
<1>1. RunCompletion(e) /\ ~CallbackIsCancelled(e) /\ e.type = "Read" /\ blockedIn' = blockedIn
  BY DEF ReadCompleted
<1>2. /\ Sole(Of(Transit, e.call), e)
      /\ IsRest(Of(Transit', e.call), Of(Transit, e.call), e)
  BY <1>1, CallbackIs
<1>3. /\ FreeOK(call[e.call], Of(Transit, e.call)) /\ call[e.call] \in Fields
      /\ IsTracked(e) = {} /\ Alive(call[e.call]) = {} /\ e.n \notin call[e.call].cancelled
      /\ IsWithout(RemoveCompletion(e), call[e.call], e.n)
  BY <1>1, CallbackAsserts
<1>4. PICK t : t = OnRead(RemoveCompletion(e))
  OBVIOUS
<1>5. t \in Fields /\ Kept(t, call[e.call]) /\ FreeOK(t, Of(Transit', e.call))
  BY <1>1, <1>2, <1>3, <1>4, OnReadOK
<1>6. call' = [call EXCEPT ![e.call] = t] /\ failed' = {}
  BY <1>3, <1>4 DEF ReadCompleted, Becomes, GrpcInv
<1>7. CASE UNCHANGED todo
  BY <1>1, <1>5, <1>6, <1>7, DoneCallback
<1>8. CASE todo' = <<Operation("Close", e.call, "none")>>
  <2>1. PICK op \in Allowed("no") : op = "Close"
    BY DEF Allowed
  <2>2. PICK status \in Statuses : status = "none"
    BY DEF Statuses
  <2>3. todo' = <<Operation(op, e.call, status)>> /\ op # "FinishGrpcCall"
    BY <1>8, <2>1, <2>2
  <2>4. Stays(t, call[e.call]) /\ t.registered = call[e.call].registered
    BY <1>5 DEF Kept, Stays
  <2>5. blockedIn' = "nothing"
    BY <1>1, IdleIs DEF RunCompletion
  <2> QED
    BY <1>1, <1>5, <1>6, <2>3, <2>4, <2>5, GivingCallback
<1> QED
  BY <1>7, <1>8 DEF ReadCompleted

LEMMA WriteCompletedStep ==
    ASSUME GrpcInv, NEW e, WriteCompleted(e)
    PROVE  GrpcInv'
<1>1. RunCompletion(e) /\ ~CallbackIsCancelled(e) /\ e.type = "Write"
  BY DEF WriteCompleted
<1>2. /\ Sole(Of(Transit, e.call), e)
      /\ IsRest(Of(Transit', e.call), Of(Transit, e.call), e)
  BY <1>1, CallbackIs
<1>3. /\ FreeOK(call[e.call], Of(Transit, e.call)) /\ call[e.call] \in Fields
      /\ IsTracked(e) = {} /\ Alive(call[e.call]) = {} /\ e.n \notin call[e.call].cancelled
      /\ IsWithout(RemoveCompletion(e), call[e.call], e.n)
  BY <1>1, CallbackAsserts
<1>4. PICK t : t = OnWrite(RemoveCompletion(e))
  OBVIOUS
<1>5. t \in Fields /\ Kept(t, call[e.call]) /\ FreeOK(t, Of(Transit', e.call))
  BY <1>1, <1>2, <1>3, <1>4, OnWriteOK
<1>6. call' = [call EXCEPT ![e.call] = t] /\ failed' = {} /\ UNCHANGED <<todo, blockedIn>>
  BY <1>3, <1>4 DEF WriteCompleted, Becomes, GrpcInv
<1> QED
  BY <1>1, <1>5, <1>6, DoneCallback

LEMMA FinishCompletedStep ==
    ASSUME GrpcInv, NEW e, FinishCompleted(e)
    PROVE  GrpcInv'
<1>1. RunCompletion(e) /\ ~CallbackIsCancelled(e) /\ e.type = "Finish" /\ blockedIn' = blockedIn
  BY DEF FinishCompleted
<1>2. /\ Sole(Of(Transit, e.call), e) /\ e \in Events
      /\ IsRest(Of(Transit', e.call), Of(Transit, e.call), e)
  BY <1>1, CallbackIs
<1>3. /\ FreeOK(call[e.call], Of(Transit, e.call)) /\ call[e.call] \in Fields
      /\ IsTracked(e) = {} /\ Alive(call[e.call]) = {} /\ e.n \notin call[e.call].cancelled
      /\ IsWithout(RemoveCompletion(e), call[e.call], e.n)
  BY <1>1, CallbackAsserts
<1>4. PICK t : t = RemoveCompletion(e)
  OBVIOUS
<1>5. t \in Fields /\ Kept(t, call[e.call]) /\ FreeOK(t, Of(Transit', e.call))
  <2>1. e.type # "Read"
    BY <1>1
  <2> QED
    BY <1>2, <1>3, <1>4, <2>1, CallbackOK
<1>6. call' = [call EXCEPT ![e.call] = t] /\ failed' = {}
  BY <1>3, <1>4 DEF FinishCompleted, Becomes, GrpcInv
<1>7. PICK op \in Allowed("no") : op = "FinishAndNotify"
  BY DEF Allowed
<1>8. PICK status \in Statuses : status = e.status
  BY <1>2 DEF Events
<1>9. todo' = <<Operation(op, e.call, status)>> /\ op # "FinishGrpcCall"
  BY <1>7, <1>8 DEF FinishCompleted
<1>10. Stays(t, call[e.call]) /\ t.registered = call[e.call].registered
  BY <1>5 DEF Kept, Stays
<1>11. blockedIn' = "nothing"
  BY <1>1, IdleIs DEF RunCompletion
<1> QED
  BY <1>1, <1>5, <1>6, <1>9, <1>10, <1>11, GivingCallback

LEMMA OperationFailedStep ==
    ASSUME GrpcInv, NEW e, OperationFailed(e)
    PROVE  GrpcInv'
<1>1. RunCompletion(e) /\ ~CallbackIsCancelled(e) /\ ~e.ok
  BY DEF OperationFailed
<1>2. /\ Sole(Of(Transit, e.call), e)
      /\ IsRest(Of(Transit', e.call), Of(Transit, e.call), e)
  BY <1>1, CallbackIs
<1>3. /\ FreeOK(call[e.call], Of(Transit, e.call)) /\ call[e.call] \in Fields
      /\ IsTracked(e) = {} /\ Alive(call[e.call]) = {} /\ e.n \notin call[e.call].cancelled
      /\ IsWithout(RemoveCompletion(e), call[e.call], e.n)
  BY <1>1, CallbackAsserts
<1>4. PICK r : r = RemoveCompletion(e)
  OBVIOUS
<1>5. IsWithout(r, call[e.call], e.n)
  BY <1>3, <1>4
<1>6. r.isCallFinished = call[e.call].isCallFinished
  BY <1>3, <1>5 DEF IsWithout, Fields
<1>7. CASE /\ FailureFinishes(r)
           /\ Becomes(e.call, FinishGrpcCall(r), IsTracked(e) \cup NotFinished(r))
           /\ todo' = <<Operation("FinishGrpcCall", e.call, "none")>>
           /\ blockedIn' = "finish"
  <2>1. PICK t : t = FinishGrpcCall(r)
    OBVIOUS
  <2>2. /\ t \in Fields /\ WaitedOK(t, Of(Transit', e.call)) /\ Stays(t, call[e.call])
        /\ t.registered = call[e.call].registered /\ t.isCallFinished
    BY <1>1, <1>2, <1>3, <1>5, <2>1, FailureOK
  <2>3. NotFinished(r) = {}
    BY <1>7 DEF NotFinished, FailureFinishes, HardAssert
  <2>4. call' = [call EXCEPT ![e.call] = t] /\ failed' = {}
    BY <1>3, <1>7, <2>1, <2>3 DEF Becomes, GrpcInv
  <2>5. PICK op \in Allowed("no") : op = "FinishGrpcCall"
    BY DEF Allowed
  <2>6. PICK status \in Statuses : status = "none"
    BY DEF Statuses
  <2>7. todo' = <<Operation(op, e.call, status)>> /\ blockedIn' = "finish"
    BY <1>7, <2>5, <2>6
  <2> QED
    BY <1>1, <2>2, <2>4, <2>5, <2>7, GivingCallback
<1>8. CASE /\ ~FailureFinishes(r) /\ Becomes(e.call, r, IsTracked(e))
           /\ UNCHANGED <<todo, blockedIn>>
  <2>1. call[e.call].isCallFinished
    BY <1>6, <1>8 DEF FailureFinishes
  <2>2. r \in Fields /\ Kept(r, call[e.call]) /\ FreeOK(r, Of(Transit', e.call))
    BY <1>2, <1>3, <1>5, <2>1, CallbackOK
  <2>3. call' = [call EXCEPT ![e.call] = r] /\ failed' = {}
    BY <1>3, <1>8 DEF Becomes, GrpcInv
  <2> QED
    BY <1>1, <1>8, <2>2, <2>3, DoneCallback
<1> QED
  BY <1>4, <1>7, <1>8 DEF OperationFailed

\* The call of the first operation.
LEMMA CurrentIs ==
    ASSUME GrpcInv, todo # <<>>, NEW c, c = Current.call
    PROVE  /\ Current \in Operations /\ c \in Calls /\ call[c] \in Fields
           /\ call[c].life = "live" /\ Alive(call[c]) = {}
           /\ Current.op \in Allowed(shutdown) /\ IsToDo(todo, c)
           /\ Current.op = "FinishGrpcCall" => blockedIn = "finish" /\ call[c].registered
           /\ blockedIn \in {"finish", "drain"} => WaitedOK(call[c], Of(Transit, c))
           /\ blockedIn \notin {"finish", "drain"} => FreeOK(call[c], Of(Transit, c))
           /\ \A d \in Calls : d # c => \A place : ~Waits(todo, place, d)
<1>1. todo \in Seq(Operations) /\ Apart(todo)
  BY DEF GrpcInv, TypeOK, TodoOK
<1>2. Head(todo) \in Operations /\ Head(todo) = todo[1] /\ 1 \in 1 .. Len(todo)
  BY <1>1, HeadIs
<1>3. Current = todo[1] /\ Current \in Operations
  BY <1>2 DEF Current
<1>4. c \in Calls /\ call[c] \in Fields
  BY <1>3 DEF Operations, GrpcInv, TypeOK
<1>5. /\ call[c].life = "live" /\ Current.op \in Allowed(shutdown)
      /\ Current.op = "FinishGrpcCall" => blockedIn = "finish" /\ call[c].registered
  BY <1>2, <1>3 DEF GrpcInv, TodoOK
<1>6. IsToDo(todo, c)
  BY <1>2, <1>3 DEF IsToDo
<1>7. Alive(call[c]) = {}
  BY <1>5 DEF Alive, HardAssert
<1>8. CallOK(call[c], Of(Transit, c), todo, blockedIn, c)
  BY <1>4 DEF GrpcInv, CallsOK
<1>9. blockedIn \in {"finish", "drain"} => WaitedOK(call[c], Of(Transit, c))
  BY <1>8 DEF CallOK, Waits, Current
<1>10. blockedIn \notin {"finish", "drain"} => FreeOK(call[c], Of(Transit, c))
  BY <1>8 DEF CallOK, Waits, Current
<1>11. \A d \in Calls : d # c => \A place : ~Waits(todo, place, d)
  BY DEF Waits, Current
<1> QED
  BY <1>3, <1>4, <1>5, <1>6, <1>7, <1>9, <1>10, <1>11

\* MaybeUnregister keeps active_calls_ the registered calls.
LEMMA UnregisterOK ==
    ASSUME GrpcInv, NEW c \in Calls, MaybeUnregister(c), NEW t \in Fields, ~t.registered,
           call' = [call EXCEPT ![c] = t]
    PROVE  activeCalls' \in Seq(Calls) /\ ActiveOK' /\ IsRegistered(c) = {}
<1>1. /\ activeCalls \in Seq(Calls) /\ Injective(activeCalls)
      /\ \A d \in Calls : call[d].registered <=> d \in Range(activeCalls)
  BY DEF GrpcInv, TypeOK, ActiveOK
<1>2. IsRegistered(c) = {}
  BY <1>1 DEF IsRegistered, HardAssert
<1>3. \A d \in Calls : call'[d] = IF d = c THEN t ELSE call[d]
  BY DEF GrpcInv, TypeOK
<1>4. CASE call[c].registered
  <2>1. activeCalls' = RemoveFirst(activeCalls, c)
    BY <1>4 DEF MaybeUnregister
  <2>2. /\ activeCalls' \in Seq(Calls) /\ Injective(activeCalls')
        /\ \A d : d \in Range(activeCalls') <=> d \in Range(activeCalls) /\ d # c
    BY <1>1, <2>1, RemoveFirstOK
  <2>3. \A d \in Calls : call'[d].registered <=> d \in Range(activeCalls')
    BY <1>1, <1>3, <2>2
  <2> QED
    BY <1>2, <2>2, <2>3 DEF ActiveOK
<1>5. CASE ~call[c].registered
  <2>1. activeCalls' = activeCalls
    BY <1>5 DEF MaybeUnregister
  <2>2. \A d \in Calls : call'[d].registered <=> d \in Range(activeCalls')
    BY <1>1, <1>3, <1>5, <2>1
  <2> QED
    BY <1>1, <1>2, <2>1, <2>2 DEF ActiveOK
<1> QED
  BY <1>4, <1>5

\* Shutdown of the call has cancelled its completions, and waits for them.
LEMMA WaitStep ==
    ASSUME GrpcInv, todo # <<>>, Current.op # "FinishGrpcCall", NEW c, c = Current.call,
           NEW t \in Fields, call' = [call EXCEPT ![c] = t],
           WaitedOK(t, Of(Transit, c)), Stays(t, call[c]), ~t.registered,
           UNCHANGED <<todo, shutdown, workQueue, poller>>, failed' = {},
           activeCalls' \in Seq(Calls), ActiveOK',
           blockedIn' \in {"finish", "drain"}, blockedIn' = "finish" => t.isCallFinished
    PROVE  GrpcInv'
<1>1. /\ c \in Calls /\ call[c].life = "live" /\ IsToDo(todo, c)
      /\ \A d \in Calls : d # c => \A place : ~Waits(todo, place, d)
  BY CurrentIs
<1>2. Distinct(Transit') /\ Transit' = Transit
  BY SameTransit
<1>3. CallOK(t, Of(Transit', c), todo', blockedIn', c)
  BY <1>2 DEF CallOK, Waits, Current
<1>4. call' \in [Calls -> Fields] /\ CallsOK'
  BY <1>1, <1>2, <1>3, CallsFrame DEF GrpcInv
<1>5. PhaseOK'
  <2>1. InPhase(call[c], shutdown, todo, c)
    BY <1>1 DEF GrpcInv, PhaseOK
  <2>2. InPhase(t, shutdown', todo', c)
    BY <1>1, <2>1 DEF InPhase, Stays
  <2> QED
    BY <1>1, <2>2, PhaseFrame DEF GrpcInv
<1>6. call'[c] = t /\ \A d \in Calls : d # c => call'[d] = call[d]
  BY <1>1 DEF GrpcInv, TypeOK
<1>7. TodoOK'
  <2>1. todo \in Seq(Operations) /\ Apart(todo)
    BY DEF GrpcInv, TypeOK, TodoOK
  <2>2. \A i \in 1 .. Len(todo) : todo[i].call \in Calls
    <3>1. \A i \in 1 .. Len(todo) : todo[i] \in Operations
      BY <2>1, ElementOfSeq
    <3> QED
      BY <3>1 DEF Operations
  <2>3. Head(todo) = todo[1]
    BY <2>1, HeadIs
  <2>4. ASSUME NEW i \in 1 .. Len(todo)
        PROVE  /\ call'[todo[i].call].life = "live" /\ todo[i].op \in Allowed(shutdown')
               /\ todo[i].op # "FinishGrpcCall"
    <3>1. /\ call[todo[i].call].life = "live" /\ todo[i].op \in Allowed(shutdown)
          /\ todo[i].op = "FinishGrpcCall" => i = 1
      BY DEF GrpcInv, TodoOK
    <3>2. todo[i].op # "FinishGrpcCall"
      BY <2>3, <3>1 DEF Current
    <3>3. call'[todo[i].call].life = call[todo[i].call].life
      BY <1>6, <2>2 DEF Stays
    <3> QED
      BY <3>1, <3>2, <3>3
  <2>5. todo' # <<>> /\ Head(todo').call = c
    BY DEF Current
  <2> QED
    BY <1>6, <2>1, <2>4, <2>5 DEF TodoOK
<1>8. TypeOK'
  BY <1>4 DEF GrpcInv, TypeOK, Places
<1> QED
  BY <1>2, <1>4, <1>5, <1>7, <1>8 DEF GrpcInv

\* The worker is done with the call.
LEMMA NextOperation ==
    ASSUME GrpcInv, todo # <<>>, NEW c, c = Current.call,
           NEW t \in Fields, call' = [call EXCEPT ![c] = t],
           FreeOK(t, Of(Transit, c)), t.registered = call[c].registered,
           InPhase(t, shutdown, todo', c),
           todo' = Tail(todo), blockedIn' = "nothing", failed' = {},
           UNCHANGED <<activeCalls, shutdown, workQueue, poller>>
    PROVE  GrpcInv'
<1>1. c \in Calls /\ \A d \in Calls : d # c => \A place : ~Waits(todo, place, d)
  BY CurrentIs
<1>2. Distinct(Transit') /\ Transit' = Transit
  BY SameTransit
<1>3. \A d \in Calls : ~Waits(todo', blockedIn', d)
  BY DEF Waits
<1>4. CallOK(t, Of(Transit', c), todo', blockedIn', c)
  BY <1>1, <1>2, <1>3 DEF CallOK
<1>5. call' \in [Calls -> Fields] /\ CallsOK'
  BY <1>1, <1>2, <1>3, <1>4, CallsFrame DEF GrpcInv
<1>6. ActiveOK'
  BY <1>1, ActiveFrame DEF GrpcInv
<1>7. todo \in Seq(Operations) /\ Apart(todo)
  BY DEF GrpcInv, TypeOK, TodoOK
<1>8. /\ todo' \in Seq(Operations) /\ Apart(todo')
      /\ Head(todo) = todo[1] /\ 1 \in 1 .. Len(todo)
      /\ \A i \in 1 .. Len(todo') : \E j \in 1 .. Len(todo) : j # 1 /\ todo'[i] = todo[j]
      /\ \A d : IsToDo(todo', d) <=> IsToDo(todo, d) /\ d # Head(todo).call
  <2>1. IsDone(todo, todo')
    BY DEF IsDone
  <2>2. Head(todo) = todo[1] /\ 1 \in 1 .. Len(todo)
    BY <1>7, HeadIs
  <2>3. /\ todo' \in Seq(Operations) /\ Apart(todo')
        /\ \A i \in 1 .. Len(todo') : \E j \in 1 .. Len(todo) : j # 1 /\ todo'[i] = todo[j]
        /\ \A d : IsToDo(todo', d) <=> IsToDo(todo, d) /\ d # Head(todo).call
    BY <1>7, <2>1, TailIs
  <2> QED
    BY <2>2, <2>3
<1>9. PhaseOK'
  <2>1. \A d \in Calls : d # c => (IsToDo(todo', d) <=> IsToDo(todo, d))
    BY <1>8 DEF Current
  <2> QED
    BY <1>1, <2>1, PhaseFrame DEF GrpcInv
<1>10. \A d \in Calls : d # c => call'[d] = call[d]
  BY <1>1 DEF GrpcInv, TypeOK
<1>11. TodoOK'
  <2>1. ASSUME NEW i \in 1 .. Len(todo')
        PROVE  /\ call'[todo'[i].call].life = "live" /\ todo'[i].op \in Allowed(shutdown')
               /\ todo'[i].op # "FinishGrpcCall"
    <3>1. PICK j \in 1 .. Len(todo) : j # 1 /\ todo'[i] = todo[j]
      BY <1>8
    <3>2. /\ call[todo[j].call].life = "live" /\ todo[j].op \in Allowed(shutdown)
          /\ todo[j].op # "FinishGrpcCall"
      BY <3>1 DEF GrpcInv, TodoOK
    <3>3. todo[j].call # c
      BY <1>7, <1>8, <3>1 DEF Apart, Current
    <3>4. todo[j] \in Operations
      BY <1>7, ElementOfSeq
    <3>5. call'[todo[j].call] = call[todo[j].call]
      BY <1>10, <3>3, <3>4 DEF Operations
    <3> QED
      BY <3>1, <3>2, <3>5
  <2> QED
    BY <1>8, <2>1 DEF TodoOK
<1>12. TypeOK'
  BY <1>5, <1>8 DEF GrpcInv, TypeOK, Places
<1> QED
  BY <1>2, <1>5, <1>6, <1>9, <1>11, <1>12 DEF GrpcInv

LEMMA TryLastWriteStep ==
    ASSUME GrpcInv, TryLastWrite
    PROVE  GrpcInv'
<1>1. todo # <<>> /\ blockedIn = "nothing" /\ Current.op = "WriteAndFinish"
  BY DEF TryLastWrite, At
<1>2. PICK c : c = Current.call
  OBVIOUS
<1>3. /\ c \in Calls /\ call[c] \in Fields /\ call[c].life = "live" /\ Alive(call[c]) = {}
      /\ Current.op \in Allowed(shutdown) /\ IsToDo(todo, c)
      /\ \A d \in Calls : d # c => \A place : ~Waits(todo, place, d)
  BY <1>1, <1>2, CurrentIs
<1>4. FreeOK(call[c], Of(Transit, c))
  BY <1>1, <1>2, CurrentIs
<1>5. PICK t : t = Write(call[c])
  OBVIOUS
<1>6. t \in Fields /\ FreeOK(t, Of(Transit, c)) /\ Kept(t, call[c])
  BY <1>3, <1>4, <1>5, WriteOK
<1>7. call' = [call EXCEPT ![c] = t] /\ failed' = {}
  BY <1>2, <1>3, <1>5 DEF TryLastWrite, Becomes, GrpcInv
<1>8. Distinct(Transit') /\ Transit' = Transit
  BY SameTransit DEF TryLastWrite
<1>9. todo \in Seq(Operations) /\ Apart(todo)
  BY DEF GrpcInv, TypeOK, TodoOK
<1>10. PICK op \in OpNames : op = "Close"
  BY DEF OpNames
<1>11. PICK status \in Statuses : status = "none"
  BY DEF Statuses
<1>12. GoesOn(todo, op, status, todo')
  BY <1>1, <1>10, <1>11 DEF TryLastWrite, Current, GoesOn
<1>13. /\ todo' \in Seq(Operations) /\ Apart(todo') /\ todo' # <<>>
       /\ Head(todo').call = Head(todo).call /\ Len(todo') = Len(todo)
       /\ \A i \in 1 .. Len(todo') :
             /\ todo'[i].call = todo[i].call
             /\ todo'[i].op = op \/ (i # 1 /\ todo'[i].op = todo[i].op)
       /\ \A d : IsToDo(todo', d) <=> IsToDo(todo, d)
  BY <1>9, <1>12, ReplaceIs
<1>14. blockedIn' \in {"nothing", "lastWrite"}
  BY DEF TryLastWrite
<1>15. \A d \in Calls : ~Waits(todo', blockedIn', d)
  BY <1>14 DEF Waits
<1>16. CallOK(t, Of(Transit', c), todo', blockedIn', c)
  BY <1>3, <1>6, <1>8, <1>15 DEF CallOK
<1>17. call' \in [Calls -> Fields] /\ CallsOK'
  BY <1>3, <1>6, <1>7, <1>8, <1>15, <1>16, CallsFrame DEF GrpcInv
<1>18. t.registered = call[c].registered /\ t.life = call[c].life
       /\ t.observer = call[c].observer /\ t.kind = call[c].kind
  BY <1>6 DEF Kept
<1>19. activeCalls' = activeCalls /\ shutdown' = shutdown
  BY DEF TryLastWrite
<1>20. ActiveOK'
  BY <1>3, <1>6, <1>7, <1>18, <1>19, ActiveFrame DEF GrpcInv
<1>21. PhaseOK'
  <2>1. InPhase(call[c], shutdown, todo, c)
    BY <1>3 DEF GrpcInv, PhaseOK
  <2>2. InPhase(t, shutdown', todo', c)
    BY <1>3, <1>13, <1>18, <1>19, <2>1 DEF InPhase
  <2> QED
    BY <1>3, <1>6, <1>7, <1>13, <1>19, <2>2, PhaseFrame DEF GrpcInv
<1>22. TodoOK'
  <2>1. \A d \in Calls : call'[d].life = call[d].life
    BY <1>3, <1>7, <1>18 DEF GrpcInv, TypeOK
  <2>2. op \in Allowed(shutdown)
    BY <1>1, <1>3, <1>10 DEF Allowed, GrpcInv, TypeOK, Phases
  <2>3. ASSUME NEW i \in 1 .. Len(todo')
        PROVE  /\ call'[todo'[i].call].life = "live" /\ todo'[i].op \in Allowed(shutdown')
               /\ todo'[i].op # "FinishGrpcCall"
    <3>1. i \in 1 .. Len(todo) /\ todo'[i].call = todo[i].call
      BY <1>13
    <3>2. /\ call[todo[i].call].life = "live" /\ todo[i].op \in Allowed(shutdown)
          /\ todo[i].op # "FinishGrpcCall"
      BY <1>1, <3>1 DEF GrpcInv, TodoOK
    <3>3. todo[i] \in Operations
      BY <1>9, <3>1, ElementOfSeq
    <3>4. call'[todo[i].call].life = "live"
      BY <2>1, <3>2, <3>3 DEF Operations
    <3>5. todo'[i].op = op \/ todo'[i].op = todo[i].op
      BY <1>13
    <3> QED
      BY <1>10, <1>19, <2>2, <3>1, <3>2, <3>4, <3>5
  <2> QED
    BY <1>13, <1>14, <2>3 DEF TodoOK
<1>23. TypeOK'
  BY <1>13, <1>14, <1>17, <1>19 DEF TryLastWrite, GrpcInv, TypeOK, Places
<1> QED
  BY <1>7, <1>8, <1>17, <1>20, <1>21, <1>22, <1>23 DEF GrpcInv

LEMMA LastWriteAwaitedStep ==
    ASSUME GrpcInv, LastWriteAwaited
    PROVE  GrpcInv'
<1>1. /\ todo # <<>> /\ blockedIn = "lastWrite" /\ blockedIn' = "nothing"
      /\ UNCHANGED <<call, activeCalls, todo, workQueue, poller, shutdown, failed>>
  BY DEF LastWriteAwaited, At
<1>2. Distinct(Transit') /\ Transit' = Transit
  BY <1>1, SameTransit
<1>3. CallsOK'
  <2>1. \A c \in Calls : ~Waits(todo, blockedIn, c) /\ ~Waits(todo', blockedIn', c)
    BY <1>1 DEF Waits
  <2>2. ASSUME NEW c \in Calls PROVE CallOK(call'[c], Of(Transit', c), todo', blockedIn', c)
    <3>1. CallOK(call[c], Of(Transit, c), todo, blockedIn, c)
      BY DEF GrpcInv, CallsOK
    <3> QED
      BY <1>1, <1>2, <2>1, <3>1 DEF CallOK
  <2> QED
    BY <2>2 DEF CallsOK
<1>4. TodoOK'
  <2>1. \A i \in 1 .. Len(todo) :
            /\ call[todo[i].call].life = "live" /\ todo[i].op \in Allowed(shutdown)
            /\ todo[i].op # "FinishGrpcCall"
    BY <1>1 DEF GrpcInv, TodoOK
  <2> QED
    BY <1>1, <2>1 DEF GrpcInv, TodoOK
<1>5. TypeOK'
  BY <1>1 DEF GrpcInv, TypeOK, Places
<1>6. ActiveOK' /\ PhaseOK' /\ failed' = {}
  BY <1>1 DEF GrpcInv, ActiveOK, PhaseOK
<1> QED
  BY <1>2, <1>3, <1>4, <1>5, <1>6 DEF GrpcInv

LEMMA ShutdownFinishesStep ==
    ASSUME GrpcInv, ShutdownFinishes
    PROVE  GrpcInv'
<1>1. todo # <<>> /\ blockedIn = "nothing"
  BY DEF ShutdownFinishes, At
<1>2. PICK c : c = Current.call
  OBVIOUS
<1>3. /\ c \in Calls /\ call[c] \in Fields /\ call[c].life = "live" /\ Alive(call[c]) = {}
      /\ Current.op # "FinishGrpcCall"
  BY <1>1, <1>2, CurrentIs
<1>4. FreeOK(call[c], Of(Transit, c))
  BY <1>1, <1>2, CurrentIs
<1>5. PICK u : u = [call[c] EXCEPT !.registered = FALSE]
  OBVIOUS
<1>6. PICK t : t = FinishGrpcCall(TryCancel(u))
  OBVIOUS
<1>7. /\ MustFinish(u) /\ Becomes(c, t, IsRegistered(c) \cup NotFinished(u))
      /\ MaybeUnregister(c) /\ blockedIn' = "finish"
  BY <1>2, <1>5, <1>6 DEF ShutdownFinishes
<1>8. /\ t \in Fields /\ WaitedOK(t, Of(Transit, c)) /\ Stays(t, call[c]) /\ ~t.registered
      /\ t.isCallFinished
  BY <1>3, <1>4, <1>5, <1>6, <1>7, ShutdownFinishesOK
<1>9. call' = [call EXCEPT ![c] = t]
  BY <1>7 DEF Becomes
<1>10. activeCalls' \in Seq(Calls) /\ ActiveOK' /\ IsRegistered(c) = {}
  BY <1>3, <1>7, <1>8, <1>9, UnregisterOK
<1>11. NotFinished(u) = {}
  BY <1>7 DEF NotFinished, MustFinish, HardAssert
<1>12. failed' = {}
  BY <1>3, <1>7, <1>10, <1>11 DEF Becomes, GrpcInv
<1>13. UNCHANGED <<todo, shutdown, workQueue, poller>>
  BY DEF ShutdownFinishes
<1> QED
  BY <1>1, <1>2, <1>3, <1>7, <1>8, <1>9, <1>10, <1>12, <1>13, WaitStep

LEMMA ShutdownDrainsStep ==
    ASSUME GrpcInv, ShutdownDrains
    PROVE  GrpcInv'
<1>1. todo # <<>> /\ blockedIn = "nothing"
  BY DEF ShutdownDrains, At
<1>2. PICK c : c = Current.call
  OBVIOUS
<1>3. /\ c \in Calls /\ call[c] \in Fields /\ call[c].life = "live" /\ Alive(call[c]) = {}
      /\ Current.op # "FinishGrpcCall"
  BY <1>1, <1>2, CurrentIs
<1>4. FreeOK(call[c], Of(Transit, c))
  BY <1>1, <1>2, CurrentIs
<1>5. PICK u : u = [call[c] EXCEPT !.registered = FALSE]
  OBVIOUS
<1>6. PICK t : t = CancelCompletions(IF u.kind = "unary" /\ u.completions # {}
                                     THEN TryCancel(u) ELSE u)
  OBVIOUS
<1>7. /\ ~MustFinish(u) /\ Becomes(c, t, IsRegistered(c))
      /\ MaybeUnregister(c) /\ blockedIn' = "drain"
  BY <1>2, <1>5, <1>6 DEF ShutdownDrains
<1>8. t \in Fields /\ WaitedOK(t, Of(Transit, c)) /\ Stays(t, call[c]) /\ ~t.registered
  BY <1>3, <1>4, <1>5, <1>6, <1>7, ShutdownDrainsOK
<1>9. call' = [call EXCEPT ![c] = t]
  BY <1>7 DEF Becomes
<1>10. activeCalls' \in Seq(Calls) /\ ActiveOK' /\ IsRegistered(c) = {}
  BY <1>3, <1>7, <1>8, <1>9, UnregisterOK
<1>11. failed' = {}
  BY <1>3, <1>7, <1>10 DEF Becomes, GrpcInv
<1>12. UNCHANGED <<todo, shutdown, workQueue, poller>>
  BY DEF ShutdownDrains
<1> QED
  BY <1>1, <1>2, <1>3, <1>7, <1>8, <1>9, <1>10, <1>11, <1>12, WaitStep

LEMMA EnqueueFinishStep ==
    ASSUME GrpcInv, EnqueueFinish
    PROVE  GrpcInv'
<1>1. todo # <<>> /\ blockedIn = "finish"
  BY DEF EnqueueFinish, At
<1>2. PICK c : c = Current.call
  OBVIOUS
<1>3. /\ c \in Calls /\ call[c] \in Fields /\ call[c].life = "live" /\ Alive(call[c]) = {}
      /\ Current.op \in Allowed(shutdown)
      /\ Current.op = "FinishGrpcCall" => call[c].registered
  BY <1>1, <1>2, CurrentIs
<1>4. WaitedOK(call[c], Of(Transit, c))
  BY <1>1, <1>2, CurrentIs
<1>5. call[c].isCallFinished /\ (Current.op # "FinishGrpcCall" => ~call[c].registered)
  BY <1>1, <1>2 DEF GrpcInv, TodoOK, Current
<1>6. AllOffQueue(call[c])
  BY <1>2 DEF EnqueueFinish
<1>7. PICK t : t = NewCompletion(Drained(call[c]), "Finish")
  OBVIOUS
<1>8. PICK x : x = CancelCompletions(t)
  OBVIOUS
<1>9. /\ t \in Fields /\ FreeOK(t, Of(Transit, c)) /\ Kept(t, call[c])
      /\ x \in Fields /\ WaitedOK(x, Of(Transit, c)) /\ Kept(x, call[c])
  BY <1>3, <1>4, <1>5, <1>6, <1>7, <1>8, EnqueueFinishOK
<1>10. UNCHANGED <<activeCalls, workQueue, poller, shutdown>>
  BY DEF EnqueueFinish
<1>11. CASE /\ Current.op = "FinishGrpcCall" /\ Becomes(c, t, {})
            /\ todo' = Tail(todo) /\ blockedIn' = "nothing"
  <2>1. call' = [call EXCEPT ![c] = t] /\ failed' = {}
    BY <1>3, <1>11 DEF Becomes, GrpcInv
  <2>2. shutdown = "no"
    BY <1>3, <1>11 DEF Allowed, GrpcInv, TypeOK, Phases
  <2>3. InPhase(call[c], shutdown, todo, c)
    BY <1>3 DEF GrpcInv, PhaseOK
  <2>4. InPhase(t, shutdown, todo', c)
    BY <1>3, <1>9, <1>11, <2>2, <2>3 DEF InPhase, Kept
  <2>5. t.registered = call[c].registered
    BY <1>9 DEF Kept
  <2> QED
    BY <1>1, <1>2, <1>9, <1>10, <1>11, <2>1, <2>4, <2>5, NextOperation
<1>12. CASE /\ Current.op # "FinishGrpcCall" /\ Becomes(c, x, {})
            /\ blockedIn' = "drain" /\ UNCHANGED todo
  <2>1. call' = [call EXCEPT ![c] = x] /\ failed' = {}
    BY <1>3, <1>12 DEF Becomes, GrpcInv
  <2>2. Stays(x, call[c]) /\ ~x.registered /\ x.registered = call[c].registered
    BY <1>5, <1>9, <1>12 DEF Kept, Stays
  <2>3. activeCalls' \in Seq(Calls) /\ ActiveOK'
    <3>1. activeCalls' = activeCalls
      BY <1>10
    <3>2. ActiveOK'
      BY <1>3, <1>9, <2>1, <2>2, <3>1, ActiveFrame DEF GrpcInv
    <3> QED
      BY <3>1, <3>2 DEF GrpcInv, TypeOK
  <2>4. UNCHANGED <<todo, shutdown, workQueue, poller>>
    BY <1>10, <1>12
  <2> QED
    BY <1>1, <1>2, <1>9, <1>12, <2>1, <2>2, <2>3, <2>4, WaitStep
<1> QED
  BY <1>2, <1>7, <1>8, <1>11, <1>12 DEF EnqueueFinish

LEMMA ShutdownEndsStep ==
    ASSUME GrpcInv, ShutdownEnds
    PROVE  GrpcInv'
<1>1. todo # <<>> /\ blockedIn = "drain"
  BY DEF ShutdownEnds, At
<1>2. PICK c : c = Current.call
  OBVIOUS
<1>3. /\ Current \in Operations /\ c \in Calls /\ call[c] \in Fields /\ call[c].life = "live"
      /\ Alive(call[c]) = {} /\ Current.op \in Allowed(shutdown)
      /\ Current.op # "FinishGrpcCall"
  BY <1>1, <1>2, CurrentIs
<1>4. WaitedOK(call[c], Of(Transit, c))
  BY <1>1, <1>2, CurrentIs
<1>5. ~call[c].registered
  BY <1>1, <1>2 DEF GrpcInv, TodoOK, Current
<1>6. AllOffQueue(call[c])
  BY <1>2 DEF ShutdownEnds
<1>7. PICK t : t = Ended(Drained(call[c]), Current)
  OBVIOUS
<1>8. PICK o \in Operations : o = Current
  BY <1>3
<1>9. /\ t \in Fields /\ FreeOK(t, Of(Transit, c)) /\ ~t.registered /\ t.completions = {}
      /\ t.kind = call[c].kind /\ t.life \in {"live", "dead"}
      /\ o.op \in {"Close", "WriteAndFinish"} => t.life = "dead"
      /\ o.op = "FinishAndNotify" /\ call[c].observer => t.life = "dead"
  BY <1>3, <1>4, <1>5, <1>6, <1>7, <1>8, EndedOK
<1>10. call' = [call EXCEPT ![c] = t] /\ failed' = {}
  BY <1>2, <1>3, <1>7 DEF ShutdownEnds, Becomes, GrpcInv
<1>11. InPhase(call[c], shutdown, todo, c)
  BY <1>3 DEF GrpcInv, PhaseOK
<1>12. shutdown \in Phases
  BY DEF GrpcInv, TypeOK
<1>13. InPhase(t, shutdown, todo', c)
  <2>1. CASE shutdown = "no"
    <3>1. o.op \in {"Close", "WriteAndFinish", "FinishAndNotify"}
      BY <1>3, <1>8, <2>1 DEF Allowed
    <3>2. call[c].observer
      BY <1>3, <1>11, <2>1 DEF InPhase
    <3> QED
      BY <1>9, <3>1, <3>2 DEF InPhase
  <2>2. CASE shutdown = "streams"
    <3>1. o.op \in {"Close", "WriteAndFinish"}
      BY <1>3, <1>8, <2>2 DEF Allowed
    <3> QED
      BY <1>9, <3>1 DEF InPhase
  <2>3. CASE shutdown \in {"calls", "queue"}
    <3>1. call[c].kind # "stream"
      BY <1>3, <1>11, <2>3 DEF InPhase
    <3> QED
      BY <1>9, <2>3, <3>1 DEF InPhase
  <2> QED
    BY <1>12, <2>1, <2>2, <2>3 DEF Phases
<1>14. t.registered = call[c].registered
  BY <1>3, <1>5, <1>9 DEF Fields
<1>15. /\ todo' = Tail(todo) /\ blockedIn' = "nothing"
       /\ UNCHANGED <<activeCalls, shutdown, workQueue, poller>>
  BY DEF ShutdownEnds
<1> QED
  BY <1>1, <1>2, <1>9, <1>10, <1>13, <1>14, <1>15, NextOperation

\* A call is created or destroyed while the worker has nothing to do.
LEMMA LifeStep ==
    ASSUME GrpcInv, IsIdle, NEW c \in Calls, NEW t \in Fields, call' = [call EXCEPT ![c] = t],
           FreeOK(t, Of(Transit, c)), InPhase(t, shutdown, todo, c),
           activeCalls' \in Seq(Calls), ActiveOK', failed' = {},
           UNCHANGED <<todo, blockedIn, workQueue, poller, shutdown>>
    PROVE  GrpcInv'
<1>1. todo = <<>> /\ blockedIn = "nothing"
  BY IdleIs
<1>2. Distinct(Transit') /\ Transit' = Transit
  BY SameTransit
<1>3. \A d \in Calls : ~Waits(todo, blockedIn, d) /\ ~Waits(todo', blockedIn', d)
  BY <1>1 DEF Waits
<1>4. CallOK(t, Of(Transit', c), todo', blockedIn', c)
  BY <1>2, <1>3 DEF CallOK
<1>5. call' \in [Calls -> Fields] /\ CallsOK'
  BY <1>2, <1>3, <1>4, CallsFrame DEF GrpcInv
<1>6. PhaseOK'
  BY PhaseFrame DEF GrpcInv
<1>7. TodoOK'
  <2>1. Len(todo') = 0
    BY <1>1, EmptySeq
  <2> QED
    BY <1>1, <2>1 DEF TodoOK, Apart
<1>8. TypeOK'
  BY <1>5 DEF GrpcInv, TypeOK
<1> QED
  BY <1>2, <1>5, <1>6, <1>7, <1>8 DEF GrpcInv

LEMMA StartCallStep ==
    ASSUME GrpcInv, NEW c \in Calls, StartCall(c)
    PROVE  GrpcInv'
<1>1. IsIdle /\ shutdown = "no" /\ call[c].life = "none"
  BY DEF StartCall
<1>2. FreeOK(call[c], Of(Transit, c)) /\ ~IsToDo(todo, c)
  BY <1>1, IdleIs
<1>3. Of(Transit, c) = {} /\ ~call[c].registered
  BY <1>1, <1>2 DEF FreeOK, LifeOK
<1>4. PICK kind \in KindsOf[c] : call' = [call EXCEPT ![c] = Started(kind)]
  BY DEF StartCall
<1>5. kind \in Kinds
  BY GrpcCallsAssumption
<1>6. PICK t : t = Started(kind)
  OBVIOUS
<1>7. t \in Fields /\ FreeOK(t, {}) /\ t.life = "live" /\ t.registered /\ t.observer
  BY <1>5, <1>6, StartedOK
<1>8. call' = [call EXCEPT ![c] = t]
  BY <1>4, <1>6
<1>9. /\ activeCalls \in Seq(Calls) /\ Injective(activeCalls)
      /\ \A d \in Calls : call[d].registered <=> d \in Range(activeCalls)
  BY DEF GrpcInv, TypeOK, ActiveOK
<1>10. activeCalls' = Append(activeCalls, c) /\ c \notin Range(activeCalls)
  BY <1>3, <1>9 DEF StartCall
<1>11. /\ activeCalls' \in Seq(Calls) /\ Injective(activeCalls')
       /\ \A d : d \in Range(activeCalls') <=> d \in Range(activeCalls) \/ d = c
  BY <1>9, <1>10, AppendCallOK
<1>12. \A d \in Calls : call'[d] = IF d = c THEN t ELSE call[d]
  BY <1>8 DEF GrpcInv, TypeOK
<1>13. ActiveOK'
  <2>1. \A d \in Calls : call'[d].registered <=> d \in Range(activeCalls')
    BY <1>7, <1>9, <1>11, <1>12
  <2> QED
    BY <1>11, <2>1 DEF ActiveOK
<1>14. InPhase(t, shutdown, todo, c)
  BY <1>1, <1>7 DEF InPhase
<1>15. failed' = {} /\ UNCHANGED <<todo, blockedIn, workQueue, poller, shutdown>>
  BY DEF StartCall, GrpcInv
<1>16. FreeOK(t, Of(Transit, c))
  BY <1>3, <1>7
<1> QED
  BY <1>1, <1>7, <1>8, <1>11, <1>13, <1>14, <1>15, <1>16, LifeStep

LEMMA DestroyDatastoreStep ==
    ASSUME GrpcInv, NEW c \in Calls, DestroyDatastore(c)
    PROVE  GrpcInv'
<1>1. IsIdle /\ shutdown = "queue" /\ call[c].life = "live"
  BY DEF DestroyDatastore
<1>2. FreeOK(call[c], Of(Transit, c)) /\ ~IsToDo(todo, c)
  BY <1>1, IdleIs
<1>3. call[c] \in Fields
  BY DEF GrpcInv, TypeOK
<1>4. call[c].completions = {}
  <2>1. InPhase(call[c], shutdown, todo, c)
    BY DEF GrpcInv, PhaseOK
  <2> QED
    BY <1>1, <1>2, <2>1 DEF InPhase
<1>5. PICK t : t = Destroyed(call[c])
  OBVIOUS
<1>6. t \in Fields /\ FreeOK(t, Of(Transit, c)) /\ t.life = "dead" /\ ~t.registered
  BY <1>1, <1>2, <1>3, <1>4, <1>5, DestroyedOK
<1>7. call' = [call EXCEPT ![c] = t]
  BY <1>5 DEF DestroyDatastore, Becomes
<1>8. activeCalls' \in Seq(Calls) /\ ActiveOK' /\ IsRegistered(c) = {}
  BY <1>6, <1>7, UnregisterOK DEF DestroyDatastore
<1>9. ProperlyShutDown(call[c]) = {} /\ Alive(call[c]) = {}
  <2>1. ProperlyShutDown(call[c]) = {}
    BY <1>4 DEF ProperlyShutDown, HardAssert
  <2>2. Alive(call[c]) = {}
    BY <1>1 DEF Alive, HardAssert
  <2> QED
    BY <2>1, <2>2
<1>10. failed' = {}
  BY <1>8, <1>9 DEF DestroyDatastore, Becomes, GrpcInv
<1>11. InPhase(t, shutdown, todo, c)
  BY <1>6 DEF InPhase
<1>12. UNCHANGED <<todo, blockedIn, workQueue, poller, shutdown>>
  BY DEF DestroyDatastore
<1> QED
  BY <1>1, <1>6, <1>7, <1>8, <1>10, <1>11, <1>12, LifeStep

-----------------------------------------------------------------------------
(* The theorems.                                                           *)

LEMMA InitGrpc == Init => GrpcInv
<1> SUFFICES ASSUME Init PROVE GrpcInv
  OBVIOUS
<1>1. /\ call = [c \in Calls |-> NewCall] /\ activeCalls = <<>> /\ todo = <<>>
      /\ blockedIn = "nothing" /\ workQueue = <<>> /\ poller = <<>> /\ shutdown = "no"
      /\ failed = {}
  BY DEF Init
<1>2. NewCall \in Fields
  BY DEF NewCall, Fields, Kinds, Statuses
<1>3. TypeOK
  <2>1. call \in [Calls -> Fields]
    BY <1>1, <1>2
  <2>2. activeCalls \in Seq(Calls) /\ todo \in Seq(Operations)
    BY <1>1
  <2>3. workQueue \in Seq(Events) /\ poller \in Seq(Events)
    BY <1>1
  <2>4. blockedIn \in Places /\ shutdown \in Phases
    BY <1>1 DEF Places, Phases
  <2> QED
    BY <2>1, <2>2, <2>3, <2>4 DEF TypeOK
<1>4. Len(activeCalls) = 0 /\ Len(todo) = 0
  BY <1>1
<1>5. Transit = <<>>
  BY <1>1 DEF Transit
<1>6. Len(Transit) = 0 /\ Range(Transit) = {} /\ Range(activeCalls) = {}
  BY <1>1, <1>5 DEF Range
<1>7. \A c \in Calls : Of(Transit, c) = {}
  BY <1>6 DEF Of
<1>8. FreeOK(NewCall, {})
  <2>1. /\ NewCall.completions = {} /\ NewCall.cancelled = {} /\ NewCall.ops = {}
        /\ NewCall.life = "none" /\ NewCall.registered = FALSE
    BY DEF NewCall
  <2>2. IsFiniteSet({})
    BY FS_EmptySet
  <2>3. BooksOK(NewCall, {})
    BY <2>1, <2>2 DEF BooksOK
  <2>4. SingleOK(NewCall, {})
    BY <2>1 DEF SingleOK
  <2>5. LifeOK(NewCall, {})
    BY <2>1 DEF LifeOK, Pending
  <2> QED
    BY <2>1, <2>3, <2>4, <2>5 DEF FreeOK
<1>9. \A c \in Calls : call[c] = NewCall
  BY <1>1
<1>10. CallsOK
  <2>1. \A c \in Calls : ~Waits(todo, blockedIn, c)
    BY <1>1 DEF Waits
  <2> QED
    BY <1>7, <1>8, <1>9, <2>1 DEF CallsOK, CallOK
<1>11. Distinct(Transit)
  BY <1>6 DEF Distinct
<1>12. ActiveOK
  <2>1. \A c \in Calls : ~call[c].registered
    BY <1>9 DEF NewCall
  <2> QED
    BY <1>4, <1>6, <2>1 DEF ActiveOK, Injective
<1>13. TodoOK
  BY <1>1, <1>4 DEF TodoOK, Apart
<1>14. PhaseOK
  <2>1. \A c \in Calls : call[c].life = "none"
    BY <1>9 DEF NewCall
  <2> QED
    BY <2>1 DEF PhaseOK, InPhase
<1> QED
  BY <1>1, <1>3, <1>10, <1>11, <1>12, <1>13, <1>14 DEF GrpcInv

LEMMA StutterGrpc == GrpcInv /\ UNCHANGED vars => GrpcInv'
<1> SUFFICES ASSUME GrpcInv, UNCHANGED vars PROVE GrpcInv'
  OBVIOUS
<1>1. UNCHANGED <<call, activeCalls, todo, blockedIn, workQueue, poller, shutdown, failed>>
  BY DEF vars
<1>2. Distinct(Transit') /\ Transit' = Transit
  BY <1>1, SameTransit
<1>3. TypeOK' /\ ActiveOK' /\ TodoOK' /\ PhaseOK' /\ failed' = {}
  BY <1>1 DEF GrpcInv, TypeOK, ActiveOK, TodoOK, PhaseOK
<1>4. CallsOK'
  BY <1>1, <1>2 DEF GrpcInv, CallsOK
<1> QED
  BY <1>2, <1>3, <1>4 DEF GrpcInv

LEMMA NextGrpc == GrpcInv /\ [Next]_vars => GrpcInv'
<1> SUFFICES ASSUME GrpcInv, [Next]_vars PROVE GrpcInv'
  OBVIOUS
<1>1. ASSUME NEW c \in Calls, StartCall(c) PROVE GrpcInv'
  BY <1>1, StartCallStep
<1>2. ASSUME NEW c \in Calls, WriteMessage(c) PROVE GrpcInv'
  BY <1>2, WriteMessageStep
<1>3. ASSUME NEW c \in Calls, StopStream(c) PROVE GrpcInv'
  BY <1>3, StopStreamStep
<1>4. ASSUME NEW c \in Calls, NextCompletion(c) PROVE GrpcInv'
  BY <1>4, NextCompletionStep
<1>5. ASSUME NEW c \in Calls, ServerSends(c) \/ ServerEnds(c) PROVE GrpcInv'
  BY <1>5, BackendStep
<1>6. ASSUME NEW c \in Calls, DestroyDatastore(c) PROVE GrpcInv'
  BY <1>6, DestroyDatastoreStep
<1>7. CASE ConnectivityChanged
  BY <1>7, ConnectivityChangedStep
<1>8. CASE Shutdown
  BY <1>8, ShutdownStep
<1>9. ASSUME NEW e, CancelledCallback(e) PROVE GrpcInv'
  BY <1>9, CancelledCallbackStep
<1>10. ASSUME NEW e, ReadCompleted(e) PROVE GrpcInv'
  BY <1>10, ReadCompletedStep
<1>11. ASSUME NEW e, WriteCompleted(e) PROVE GrpcInv'
  BY <1>11, WriteCompletedStep
<1>12. ASSUME NEW e, OperationFailed(e) PROVE GrpcInv'
  BY <1>12, OperationFailedStep
<1>13. ASSUME NEW e, FinishCompleted(e) PROVE GrpcInv'
  BY <1>13, FinishCompletedStep
<1>14. CASE RunCallback
  BY <1>9, <1>10, <1>11, <1>12, <1>13, <1>14 DEF RunCallback
<1>15. CASE GoOn
  BY <1>15, TryLastWriteStep, LastWriteAwaitedStep, ShutdownFinishesStep, ShutdownDrainsStep,
     EnqueueFinishStep, ShutdownEndsStep, ShutdownDatastoreStep, CloseGrpcQueueStep DEF GoOn
<1>16. CASE EnqueueCallback
  BY <1>16, EnqueueCallbackStep
<1>17. CASE UNCHANGED vars
  BY <1>17, StutterGrpc
<1> QED
  BY <1>1, <1>2, <1>3, <1>4, <1>5, <1>6, <1>7, <1>8, <1>14, <1>15, <1>16, <1>17 DEF Next

\* The invariant holds of every behaviour, whatever the network, the backend and the
\* polling thread do.
THEOREM GrpcInvariant == Spec => []GrpcInv
<1>1. Init => GrpcInv
  BY InitGrpc
<1>2. GrpcInv /\ [Next]_vars => GrpcInv'
  BY NextGrpc
<1> QED
  BY <1>1, <1>2, PTL DEF Spec

\* No HARD_ASSERT of GrpcStream, GrpcStreamingReader, GrpcUnaryCall or GrpcConnection fails:
\* a completion that runs is tracked by its call, a call is finished once, a call that is
\* unregistered is in active_calls_, a call is shut down when it is destroyed; and no
\* callback runs on a call that was destroyed.
THEOREM GrpcAssertionsHold == Spec => []NoHardAssertFails
<1>1. GrpcInv => NoHardAssertFails
  BY DEF GrpcInv, NoHardAssertFails
<1> QED
  BY <1>1, GrpcInvariant, PTL

\* completions_ of a call holds exactly its completions that exist and were not cancelled.
THEOREM CompletionsStayTracked == Spec => []CompletionsAreTracked
<1>1. GrpcInv => CompletionsAreTracked
  <2> SUFFICES ASSUME GrpcInv, NEW c \in Calls
               PROVE  LET there == {op.n : op \in call[c].ops} \cup InTransit(c) IN
                      /\ there \ call[c].cancelled \subseteq call[c].completions
                      /\ call[c].completions \subseteq there
    BY DEF CompletionsAreTracked
  <2>1. PICK s : s = call[c]
    OBVIOUS
  <2>2. PICK E : E = Of(Transit, c)
    OBVIOUS
  <2>3. InTransit(c) = {e.n : e \in E}
    BY <2>2 DEF InTransit, Of, Transit
  <2>4. BooksOK(s, E)
    BY <2>1, <2>2 DEF GrpcInv, CallsOK, CallOK, FreeOK, WaitedOK
  <2>5. /\ \A op \in s.ops : op.n \in s.completions
        /\ \A e \in E : e.n \in s.completions \cup s.cancelled
        /\ \A n \in s.completions : (\E op \in s.ops : op.n = n) \/ (\E e \in E : e.n = n)
    BY <2>4 DEF BooksOK
  <2> QED
    BY <2>1, <2>3, <2>5
<1> QED
  BY <1>1, GrpcInvariant, PTL

\* The worker blocks, in FinishGrpcCall or Shutdown of a call, only when the call has
\* failed or was cancelled, so that its completions come back, or when they are back.
THEOREM WorkerWaitsForDoomedCalls == Spec => []WaitsOnlyForDoomedCalls
<1>1. GrpcInv => WaitsOnlyForDoomedCalls
  <2> SUFFICES ASSUME GrpcInv, At("finish") \/ At("drain")
               PROVE  IsDoomed(call[Current.call]) \/ AllOffQueue(call[Current.call])
    BY DEF WaitsOnlyForDoomedCalls
  <2>1. todo # <<>> /\ blockedIn \in {"finish", "drain"}
    BY DEF At
  <2>2. PICK s : s = call[Current.call]
    OBVIOUS
  <2>3. PICK E : WaitedOK(s, E)
    BY <2>1, <2>2, CurrentIs
  <2>4. IsDoomed(s) \/ s.completions = {}
    BY <2>3 DEF WaitedOK
  <2>5. s.completions = {} => AllOffQueue(s)
    BY DEF AllOffQueue
  <2> QED
    BY <2>2, <2>4, <2>5
<1> QED
  BY <1>1, GrpcInvariant, PTL

\* A call has one read and one write at a time, a stream or reader that is destroyed was
\* finished, and gRPC has no operation of a call that is destroyed.
THEOREM GrpcRulesAreFollowed == Spec => []CallsFollowGrpcRules
<1>1. GrpcInv => CallsFollowGrpcRules
  <2> SUFFICES ASSUME GrpcInv, NEW c \in Calls
               PROVE  /\ call[c].life = "dead" => call[c].ops = {}
                      /\ \A op1, op2 \in call[c].ops : op1.type = op2.type => op1 = op2
                      /\ call[c].kind # "unary" /\ call[c].life = "dead" =>
                            call[c].isCallFinished
    BY DEF CallsFollowGrpcRules
  <2>1. PICK s : s = call[c]
    OBVIOUS
  <2>2. PICK E : BooksOK(s, E) /\ SingleOK(s, E) /\ LifeOK(s, E)
    <3>1. CallOK(s, Of(Transit, c), todo, blockedIn, c)
      BY <2>1 DEF GrpcInv, CallsOK
    <3> QED
      BY <3>1 DEF CallOK, FreeOK, WaitedOK
  <2>3. s.life = "dead" => s.ops = {}
    BY <2>2 DEF LifeOK, BooksOK
  <2>4. \A op1, op2 \in s.ops : op1.type = op2.type => op1 = op2
    BY <2>2 DEF SingleOK
  <2>5. s.kind # "unary" /\ s.life = "dead" => s.isCallFinished
    BY <2>2 DEF LifeOK
  <2> QED
    BY <2>1, <2>3, <2>4, <2>5
<1> QED
  BY <1>1, GrpcInvariant, PTL
=============================================================================
