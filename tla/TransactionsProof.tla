-------------------------- MODULE TransactionsProof --------------------------
(***************************************************************************)
(* Proofs about Transactions, for any documents, number of retries and     *)
(* bounds: the result that the completion gets is that of the commit, and  *)
(* a commit is only carried out while what the block was shown is true.    *)
(*                                                                         *)
(* What the backend makes of a commit is a recursive function over the     *)
(* mutations, and the second property rests on an induction over it.  The  *)
(* induction is drawn from the well-foundedness of inclusion on finite     *)
(* sets (LeastNumber, NatSetInduction).                                    *)
(***************************************************************************)
EXTENDS Transactions, TLAPS, SequenceTheorems, FiniteSetTheorems, WellFoundedInduction

-----------------------------------------------------------------------------
(* The inductive invariant.                                                *)

\* The phases of an attempt whose commit is not yet sent, or has no answer yet.
Undecided ==
    {"idle", "queued", "block", "returned", "lookupToken", "lookupCall", "lookupAnswered",
     "commitToken", "commitCall"}

Phases == Undecided \cup {"commitAnswered", "reported", "threw", "abandoned"}

Statuses == {"ok", "NotFound", "FailedPrecondition", "Aborted"}

Precondition == [type : {"None", "Exists"}] \cup [type : {"UpdateTime"}, version : Nat]

Mutation == [key : Docs, op : {"set", "delete"}, pre : Precondition]

ReadVersions == UNION {[D -> Nat] : D \in SUBSET Docs}

TransactionObject ==
    [read_versions : ReadVersions, written_docs : SUBSET Docs, mutations : Seq(Mutation),
     last_write_error : {"ok", "InvalidArgument"}, permanentError : BOOLEAN]

Request == [attempt : Nat, mutations : Seq(Mutation), shown : [Docs -> SUBSET Nat]]

TypeOK ==
    /\ version \in [Docs -> Nat] /\ clock \in Nat
    /\ requests \subseteq Request /\ applied \subseteq Nat /\ lost \subseteq Nat
    /\ phase \in Phases /\ retries \in Nat
    /\ tx \in TransactionObject
    /\ shown \in [Docs -> SUBSET Nat]
    /\ phase \in {"lookupToken", "lookupCall"} => arg \in Docs
    /\ phase = "lookupAnswered" => arg \in [key : Docs, version : Nat]
    /\ phase = "commitAnswered" => arg \in Statuses
    /\ isShutdown \in BOOLEAN

\* An attempt is older than the current one when it had more retries left.  Whatever is
\* still on its way to the backend is of an attempt that failed in the client, of the one
\* whose answer the client waits for, or of the one it abandoned at a shutdown.
AttemptsOK ==
    /\ \A a \in applied \cup lost : a >= retries
    /\ \A r \in requests : r.attempt >= retries
    /\ \A r1, r2 \in requests : r1.attempt = r2.attempt => r1 = r2
    /\ \A a \in applied : a \in lost \/ a = retries
    /\ \A r \in requests :
        r.attempt \in lost \/ (r.attempt = retries /\ phase \in {"commitCall", "abandoned"})

\* What the phase says about the commit of the current attempt.
PhaseOK ==
    /\ phase \in {"idle", "queued"} => retries = kRetries
    /\ phase \in Undecided => retries \notin applied
    /\ phase = "commitAnswered" => (arg = "ok" <=> retries \in applied)
    /\ retries \in lost => phase \in {"reported", "threw"}
    /\ phase # "reported" => result = "none"
    /\ phase = "reported" => (result = "ok" <=> retries \in applied \ lost)

\* The first mutation of k, if there is one, is checked against version v.
FirstChecks(m, k, v) ==
    \A i \in 1 .. Len(m) :
        m[i].key = k /\ (\A j \in 1 .. i - 1 : m[j].key # k)
            => m[i].pre = [type |-> "UpdateTime", version |-> v]

Keys(m) == {m[i].key : i \in 1 .. Len(m)}

\* What the block was shown is what the Transaction object recorded, and the first write
\* of a document that was read is checked against it, unless the commit is to fail anyway.
ReadsOK ==
    /\ \A k \in Docs : shown[k] # {} =>
        k \in DOMAIN tx.read_versions /\ shown[k] = {tx.read_versions[k]}
    /\ tx.last_write_error = "ok" =>
        /\ tx.written_docs = Keys(tx.mutations)
        /\ \A k \in DOMAIN tx.read_versions : FirstChecks(tx.mutations, k, tx.read_versions[k])
    /\ phase \in {"lookupToken", "lookupCall", "lookupAnswered"} => tx.mutations = <<>>
    /\ phase = "commitToken" => CommitStatus = "ok"

\* A request checks every document that the block was shown in its attempt.
RequestsOK ==
    \A r \in requests : \A k \in Docs : r.shown[k] # {} =>
        \E v \in r.shown[k] :
            r.shown[k] = {v} /\ k \in Keys(r.mutations) /\ FirstChecks(r.mutations, k, v)

TransactionsInv == TypeOK /\ AttemptsOK /\ PhaseOK /\ ReadsOK /\ RequestsOK

-----------------------------------------------------------------------------
(* Induction over the naturals.                                            *)

\* Every non-empty set of naturals has a least member.
LEMMA LeastNumber ==
    ASSUME NEW T \in SUBSET Nat, T # {}
    PROVE  \E x \in T : \A y \in T : x <= y
<1> DEFINE I == {0 .. n : n \in T}
           R == StrictSubsetOrdering(Nat)
<1>1. I \subseteq FiniteSubsetsOf(Nat) /\ I # {}
  <2>1. ASSUME NEW n \in T PROVE 0 .. n \in FiniteSubsetsOf(Nat)
    <3>1. IsFiniteSet(0 .. n)
      BY FS_Interval, n \in Int, 0 \in Int
    <3>2. QED BY <3>1 DEF FiniteSubsetsOf
  <2>2. QED BY <2>1
<1>2. PICK i \in I : \A j \in I : ~(<<j, i>> \in R)
  <2> HIDE DEF I, R
  <2> QED BY <1>1, WFMin, FS_StrictSubsetOrderingWellFounded DEF R
<1>3. PICK x \in T : i = 0 .. x
  OBVIOUS
<1>4. ASSUME NEW y \in T, y < x PROVE FALSE
  <2>1. 0 .. y \subseteq 0 .. x /\ 0 .. y # 0 .. x /\ 0 .. y \in I /\ 0 .. x \in I
    BY <1>3, <1>4
  <2>2. 0 .. y \in FiniteSubsetsOf(Nat) /\ 0 .. x \in FiniteSubsetsOf(Nat)
    BY <1>1, <2>1
  <2>3. <<0 .. y, 0 .. x>> \in R
    BY <2>1, <2>2 DEF StrictSubsetOrdering
  <2>4. QED BY <1>2, <1>3, <2>1, <2>3
<1>5. QED BY <1>4

\* A set of naturals with 0 and the successor of each of its members has all of them.
LEMMA NatSetInduction ==
    ASSUME NEW T \in SUBSET Nat, 0 \in T, \A n \in T : n + 1 \in T
    PROVE  T = Nat
<1>1. SUFFICES ASSUME Nat \ T # {} PROVE FALSE
  OBVIOUS
<1>2. PICK x \in Nat \ T : \A y \in Nat \ T : x <= y
  BY <1>1, LeastNumber
<1>3. QED BY <1>2, x - 1 \in Nat

-----------------------------------------------------------------------------
(* What the backend makes of a commit.                                     *)

NothingDone == [version |-> version, status |-> "ok"]

\* f is what the first n mutations lead to, for n up to N.
IsUpTo(f, m, N) ==
    f = [n \in 0 .. N |-> IF n = 0 THEN NothingDone ELSE CarryOut(f[n - 1], m[n])]

\* The recursive definition of Outcome has a solution.
LEMMA UpToExists ==
    ASSUME NEW m, NEW N \in Nat
    PROVE  \E f : IsUpTo(f, m, N)
<1> DEFINE T == {n \in Nat : \E f : IsUpTo(f, m, n)}
<1>1. 0 \in T
  <2> DEFINE f == [n \in 0 .. 0 |-> NothingDone]
  <2>1. IsUpTo(f, m, 0)
    BY DEF IsUpTo
  <2>2. QED BY <2>1
<1>2. ASSUME NEW n \in T PROVE n + 1 \in T
  <2>1. PICK f : IsUpTo(f, m, n)
    OBVIOUS
  <2>2. n \in Nat
    OBVIOUS
  <2> DEFINE g == [i \in 0 .. n + 1 |-> IF i = n + 1 THEN CarryOut(f[n], m[n + 1]) ELSE f[i]]
  <2> HIDE DEF T
  <2>3. ASSUME NEW i \in 0 .. n + 1
        PROVE  g[i] = IF i = 0 THEN NothingDone ELSE CarryOut(g[i - 1], m[i])
    <3>1. CASE i = n + 1
      BY <2>2, <3>1, i - 1 \in 0 .. n + 1
    <3>2. CASE i \in 0 .. n
      <4>1. g[i] = f[i]
        BY <2>2, <3>2
      <4>2. CASE i = 0
        BY <2>1, <3>2, <4>1, <4>2 DEF IsUpTo
      <4>3. CASE i # 0
        <5>1. i - 1 \in 0 .. n
          BY <2>2, <3>2, <4>3
        <5>2. g[i - 1] = f[i - 1]
          BY <2>2, <5>1
        <5> HIDE DEF g
        <5>3. QED BY <2>1, <3>2, <4>1, <4>3, <5>2 DEF IsUpTo
      <4>4. QED BY <4>2, <4>3
    <3>3. QED BY <2>2, <3>1, <3>2
  <2>4. g = [i \in 0 .. n + 1 |-> g[i]]
    OBVIOUS
  <2> HIDE DEF g
  <2>5. IsUpTo(g, m, n + 1)
    BY <2>3, <2>4 DEF IsUpTo
  <2>6. QED BY <2>2, <2>5 DEF T
<1>3. T = Nat
  <2> HIDE DEF T
  <2>1. T \in SUBSET Nat
    BY DEF T
  <2>2. QED BY <1>1, <1>2, <2>1, NatSetInduction
<1>4. QED BY <1>3

\* Outcome, one mutation after the other.
LEMMA OutcomeSteps ==
    ASSUME NEW m, Len(m) \in Nat
    PROVE  \E f : /\ f[0] = NothingDone
                  /\ \A n \in 1 .. Len(m) : f[n] = CarryOut(f[n - 1], m[n])
                  /\ Outcome(m) = f[Len(m)]
<1> DEFINE f == CHOOSE f : IsUpTo(f, m, Len(m))
<1>1. IsUpTo(f, m, Len(m))
  BY UpToExists
<1>2. Outcome(m) = f[Len(m)]
  BY DEF Outcome, IsUpTo, NothingDone
<1> HIDE DEF f
<1>3. f[0] = NothingDone
  BY <1>1 DEF IsUpTo
<1>4. ASSUME NEW n \in 1 .. Len(m) PROVE f[n] = CarryOut(f[n - 1], m[n])
  BY <1>1 DEF IsUpTo
<1>5. QED BY <1>2, <1>3, <1>4

CommitResult == [version : [Docs -> Nat], status : Statuses]

\* One mutation keeps the type, an error stays, and an accepted mutation was valid.
LEMMA CarryOutProperties ==
    ASSUME clock \in Nat, NEW o \in CommitResult, NEW mu \in Mutation
    PROVE  /\ CarryOut(o, mu) \in CommitResult
           /\ CarryOut(o, mu).status = "ok" =>
                /\ o.status = "ok"
                /\ IsValidFor(mu.pre, o.version[mu.key])
                /\ \A k \in Docs \ {mu.key} : CarryOut(o, mu).version[k] = o.version[k]
<1>1. /\ o.version \in [Docs -> Nat] /\ o.status \in Statuses /\ mu.key \in Docs
      /\ o = [version |-> o.version, status |-> o.status]
  BY DEF CommitResult, Mutation
<1>2. CASE o.status # "ok"
  BY <1>2 DEF CarryOut
<1>3. CASE o.status = "ok" /\ ~IsValidFor(mu.pre, o.version[mu.key])
  <2>1. CarryOut(o, mu) =
          [o EXCEPT !.status = IF mu.pre.type = "Exists" THEN "NotFound" ELSE "FailedPrecondition"]
    BY <1>3 DEF CarryOut
  <2>2. QED BY <1>1, <2>1 DEF CommitResult, Statuses
<1>4. CASE o.status = "ok" /\ IsValidFor(mu.pre, o.version[mu.key])
  <2>1. PICK w \in Nat : w = IF mu.op = "delete" THEN 0 ELSE clock + 1
    OBVIOUS
  <2>2. CarryOut(o, mu) = [o EXCEPT !.version[mu.key] = w]
    BY <1>4, <2>1 DEF CarryOut
  <2>3. CarryOut(o, mu) = [version |-> [o.version EXCEPT ![mu.key] = w], status |-> "ok"]
    BY <1>1, <1>4, <2>2
  <2>4. [o.version EXCEPT ![mu.key] = w] \in [Docs -> Nat]
    BY <1>1
  <2>5. ASSUME NEW k \in Docs \ {mu.key}
        PROVE  CarryOut(o, mu).version[k] = o.version[k]
    BY <1>1, <2>3
  <2>6. CarryOut(o, mu) \in CommitResult
    BY <2>3, <2>4 DEF CommitResult, Statuses
  <2>7. QED BY <1>4, <2>5, <2>6
<1>5. QED BY <1>2, <1>3, <1>4

\* Every intermediate result of a commit has the type.
LEMMA OutcomeTypedSteps ==
    ASSUME version \in [Docs -> Nat], clock \in Nat, NEW m \in Seq(Mutation)
    PROVE  \E f : /\ f[0] = NothingDone
                  /\ \A n \in 1 .. Len(m) : f[n] = CarryOut(f[n - 1], m[n])
                  /\ \A n \in 0 .. Len(m) : f[n] \in CommitResult
                  /\ Outcome(m) = f[Len(m)]
<1>1. PICK L \in Nat : L = Len(m)
  BY LenProperties
<1>2. PICK f : /\ f[0] = NothingDone
               /\ \A n \in 1 .. L : f[n] = CarryOut(f[n - 1], m[n])
               /\ Outcome(m) = f[L]
  BY <1>1, OutcomeSteps
<1> DEFINE T == {n \in Nat : n <= L => f[n] \in CommitResult}
<1>3. 0 \in T
  BY <1>2 DEF NothingDone, CommitResult, Statuses
<1>4. ASSUME NEW n \in T PROVE n + 1 \in T
  <2>1. CASE n + 1 <= L
    <3>1. n \in Nat /\ n + 1 \in 1 .. L /\ (n + 1) - 1 = n /\ f[n] \in CommitResult
      BY <2>1
    <3>2. f[n + 1] = CarryOut(f[n], m[n + 1])
      BY <1>2, <3>1
    <3>3. m[n + 1] \in Mutation
      BY <1>1, <3>1, ElementOfSeq
    <3>4. QED BY <3>1, <3>2, <3>3, CarryOutProperties
  <2>2. QED BY <2>1
<1>5. T = Nat
  <2> HIDE DEF T
  <2>1. T \in SUBSET Nat
    BY DEF T
  <2>2. QED BY <1>3, <1>4, <2>1, NatSetInduction
<1>6. QED BY <1>1, <1>2, <1>5

LEMMA OutcomeType ==
    ASSUME version \in [Docs -> Nat], clock \in Nat, NEW m \in Seq(Mutation)
    PROVE  Outcome(m) \in CommitResult
BY OutcomeTypedSteps, LenProperties

\* A commit that succeeds found the document at the version that its first mutation of the
\* document checks.
LEMMA OutcomeSeesReads ==
    ASSUME version \in [Docs -> Nat], clock \in Nat, NEW m \in Seq(Mutation),
           NEW k \in Docs, NEW v, k \in Keys(m), FirstChecks(m, k, v),
           Outcome(m).status = "ok"
    PROVE  version[k] = v
<1>1. PICK L \in Nat : L = Len(m)
  BY LenProperties
<1>2. PICK f : /\ f[0] = NothingDone
               /\ \A n \in 1 .. L : f[n] = CarryOut(f[n - 1], m[n])
               /\ \A n \in 0 .. L : f[n] \in CommitResult
               /\ f[L].status = "ok"
  BY <1>1, OutcomeTypedSteps
<1>3. ASSUME NEW n \in 1 .. L
      PROVE  /\ f[n] = CarryOut(f[n - 1], m[n]) /\ f[n - 1] \in CommitResult
             /\ m[n] \in Mutation
  <2>1. m[n] \in Mutation
    BY <1>1, ElementOfSeq
  <2>2. n - 1 \in 0 .. L
    OBVIOUS
  <2>3. QED BY <1>2, <2>1, <2>2
<1>4. ASSUME NEW n \in 0 .. L PROVE f[n].status = "ok"
  <2> DEFINE T == {d \in Nat : d <= L => f[L - d].status = "ok"}
  <2>1. 0 \in T
    BY <1>2
  <2>2. ASSUME NEW d \in T PROVE d + 1 \in T
    <3>1. CASE d + 1 <= L
      <4>1. L - d \in 1 .. L /\ (L - d) - 1 = L - (d + 1) /\ f[L - d].status = "ok"
        BY <3>1
      <4>2. f[L - d] = CarryOut(f[L - (d + 1)], m[L - d]) /\ f[L - (d + 1)] \in CommitResult
        BY <1>3, <4>1
      <4>3. m[L - d] \in Mutation
        BY <1>3, <4>1
      <4>4. f[L - (d + 1)].status = "ok"
        BY <4>1, <4>2, <4>3, CarryOutProperties
      <4>5. QED BY <4>4
    <3>2. QED BY <3>1
  <2>3. T = Nat
    <3> HIDE DEF T
    <3>1. T \in SUBSET Nat
      BY DEF T
    <3>2. QED BY <2>1, <2>2, <3>1, NatSetInduction
  <2>4. PICK d \in Nat : d = L - n
    BY L - n \in Nat
  <2> HIDE DEF T
  <2>5. d \in T /\ d <= L /\ L - d = n
    BY <2>3, <2>4
  <2>6. QED BY <2>5 DEF T
<1> DEFINE W == {n \in 1 .. L : m[n].key = k}
<1>5. PICK i \in W : \A j \in W : i <= j
  <2>1. W \in SUBSET Nat /\ W # {}
    BY <1>1 DEF Keys
  <2> HIDE DEF W
  <2>2. QED BY <2>1, LeastNumber
<1>6. i \in 1 .. L /\ m[i].key = k /\ \A j \in 1 .. i - 1 : j \in 1 .. L /\ m[j].key # k
  BY <1>5
<1>7. m[i].pre = [type |-> "UpdateTime", version |-> v]
  BY <1>1, <1>6 DEF FirstChecks
<1>8. f[i - 1].version[k] = version[k]
  <2> DEFINE T == {n \in Nat : n <= i - 1 => f[n].version[k] = version[k]}
  <2>1. 0 \in T
    BY <1>2 DEF NothingDone
  <2>2. ASSUME NEW n \in T PROVE n + 1 \in T
    <3>1. CASE n + 1 <= i - 1
      <4>1. n + 1 \in 1 .. L /\ m[n + 1].key # k /\ (n + 1) - 1 = n
        BY <1>6, <3>1
      <4>2. f[n].version[k] = version[k]
        BY <1>6, <3>1
      <4>3. f[n + 1] = CarryOut(f[n], m[n + 1]) /\ f[n] \in CommitResult /\ m[n + 1] \in Mutation
        BY <1>3, <4>1
      <4>4. f[n + 1].status = "ok"
        BY <1>4, <4>1
      <4>5. k \in Docs \ {m[n + 1].key}
        BY <4>1
      <4>6. f[n + 1].version[k] = f[n].version[k]
        <5>1. CarryOut(f[n], m[n + 1]).status = "ok"
          BY <4>3, <4>4
        <5> HIDE DEF T, W
        <5>2. CarryOut(f[n], m[n + 1]).version[k] = f[n].version[k]
          BY <4>3, <4>5, <5>1, CarryOutProperties
        <5>3. QED BY <4>3, <5>2
      <4>7. QED BY <4>2, <4>6
    <3>2. QED BY <3>1
  <2>3. T = Nat
    <3> HIDE DEF T
    <3>1. T \in SUBSET Nat
      BY DEF T
    <3>2. QED BY <2>1, <2>2, <3>1, NatSetInduction
  <2>4. i - 1 \in Nat
    BY <1>6
  <2>5. QED BY <2>3, <2>4
<1>9. IsValidFor(m[i].pre, f[i - 1].version[m[i].key])
  <2>1. f[i].status = "ok"
    BY <1>4, <1>6
  <2>2. f[i] = CarryOut(f[i - 1], m[i]) /\ f[i - 1] \in CommitResult /\ m[i] \in Mutation
    BY <1>3, <1>6
  <2>3. QED BY <2>1, <2>2, CarryOutProperties
<1>10. QED BY <1>6, <1>7, <1>8, <1>9 DEF IsValidFor

-----------------------------------------------------------------------------
(* Every step keeps the invariant.                                         *)

LEMMA NewTransactionOK ==
    /\ NewTransaction \in TransactionObject
    /\ NothingShown \in [Docs -> SUBSET Nat]
    /\ \A k \in Docs : NothingShown[k] = {}
    /\ NewTransaction.last_write_error = "ok"
    /\ NewTransaction.mutations = <<>> /\ NewTransaction.written_docs = {}
    /\ DOMAIN NewTransaction.read_versions = {}
<1>1. NewTransaction.read_versions \in ReadVersions /\ DOMAIN NewTransaction.read_versions = {}
  <2>1. <<>> \in [{} -> Nat]
    OBVIOUS
  <2>2. QED BY <2>1 DEF NewTransaction, ReadVersions
<1>2. NewTransaction.mutations \in Seq(Mutation)
  BY DEF NewTransaction
<1>3. NewTransaction \in TransactionObject
  BY <1>1, <1>2 DEF NewTransaction, TransactionObject
<1>4. QED BY <1>1, <1>3 DEF NewTransaction, NothingShown

\* The requests keep their checks as long as none is added.
LEMMA FewerRequests ==
    ASSUME RequestsOK, requests' \subseteq requests
    PROVE  RequestsOK'
BY DEF RequestsOK

\* The transaction ends with res: a success that was committed, or an error of a commit
\* that was not, or whose answer is lost.
LEMMA ResultCallbackStep ==
    ASSUME TransactionsInv, NEW res, ResultCallback(res),
           UNCHANGED <<version, clock, requests, applied, isShutdown>>,
           lost' \in {lost, lost \cup {retries}},
           \A r \in requests : r.attempt \in lost',
           res = "ok" <=> retries \in applied \ lost'
    PROVE  TransactionsInv'
<1>1. TypeOK'
  BY NewTransactionOK DEF TransactionsInv, TypeOK, ResultCallback, Phases, Undecided
<1>2. AttemptsOK'
  BY DEF TransactionsInv, TypeOK, AttemptsOK, ResultCallback
<1>3. PhaseOK'
  BY DEF TransactionsInv, TypeOK, PhaseOK, AttemptsOK, ResultCallback, Undecided
<1>4. (tx = NewTransaction /\ shown = NothingShown /\ phase # "commitToken")'
  BY DEF ResultCallback
<1>5. ReadsOK'
  BY <1>4, NewTransactionOK DEF ReadsOK, Keys
<1>6. RequestsOK'
  BY FewerRequests DEF TransactionsInv
<1>7. QED BY <1>1, <1>2, <1>3, <1>5, <1>6 DEF TransactionsInv

\* A new attempt begins, with fewer retries left than any other had.
LEMMA RetryStep ==
    ASSUME TransactionsInv, NEW n \in Nat, TransactionWithRetries(n),
           UNCHANGED <<version, clock, requests, applied, isShutdown>>,
           lost' \in {lost, lost \cup {retries}},
           \A r \in requests : r.attempt \in lost',
           retries \notin applied \ lost',
           n < retries \/ (n = retries /\ phase = "queued" /\ lost' = lost),
           phase # "reported"
    PROVE  TransactionsInv'
<1>1. TypeOK'
  BY NewTransactionOK DEF TransactionsInv, TypeOK, TransactionWithRetries, Phases, Undecided
<1>2. AttemptsOK'
  BY DEF TransactionsInv, TypeOK, AttemptsOK, TransactionWithRetries, Request
<1>3. PhaseOK'
  BY DEF TransactionsInv, TypeOK, PhaseOK, AttemptsOK, TransactionWithRetries, Undecided
<1>4. (tx = NewTransaction /\ shown = NothingShown /\ phase # "commitToken")'
  BY DEF TransactionWithRetries
<1>5. ReadsOK'
  BY <1>4, NewTransactionOK DEF ReadsOK, Keys
<1>6. RequestsOK'
  BY FewerRequests DEF TransactionsInv
<1>7. QED BY <1>1, <1>2, <1>3, <1>5, <1>6 DEF TransactionsInv

\* An attempt has failed, and its commit was not carried out or its answer is lost.
LEMMA RetryOrFailStep ==
    ASSUME TransactionsInv, NEW code, code # "ok", RetryOrFail(code),
           UNCHANGED <<version, clock, requests, applied, isShutdown>>,
           lost' \in {lost, lost \cup {retries}},
           \A r \in requests : r.attempt \in lost',
           retries \notin applied \ lost', phase # "reported"
    PROVE  TransactionsInv'
<1>1. CASE retries > 0 /\ TransactionWithRetries(retries - 1)
  <2>1. retries - 1 \in Nat /\ retries - 1 < retries
    BY <1>1 DEF TransactionsInv, TypeOK
  <2>2. QED BY <1>1, <2>1, RetryStep
<1>2. CASE ResultCallback(code)
  BY <1>2, ResultCallbackStep
<1>3. QED BY <1>1, <1>2 DEF RetryOrFail

\* The callback of a call is dropped at a shutdown.
LEMMA AbandonStep ==
    ASSUME TransactionsInv, Abandon, IsOpen,
           UNCHANGED <<version, clock, requests, applied, retries, result, lost>>,
           isShutdown' \in BOOLEAN
    PROVE  TransactionsInv'
<1>1. TypeOK'
  BY NewTransactionOK DEF TransactionsInv, TypeOK, Abandon, Phases, Undecided
<1>2. AttemptsOK'
  BY DEF TransactionsInv, TypeOK, AttemptsOK, Abandon
<1>3. PhaseOK'
  BY DEF TransactionsInv, TypeOK, PhaseOK, Abandon, IsOpen, Undecided
<1>4. (tx = NewTransaction /\ shown = NothingShown /\ phase # "commitToken")'
  BY DEF Abandon
<1>5. ReadsOK'
  BY <1>4, NewTransactionOK DEF ReadsOK, Keys
<1>6. RequestsOK'
  BY FewerRequests DEF TransactionsInv
<1>7. QED BY <1>1, <1>2, <1>3, <1>5, <1>6 DEF TransactionsInv

\* A step that leaves the backend and the attempts alone and moves within an attempt.
LEMMA QuietStep ==
    ASSUME TransactionsInv, phase \in Undecided \ {"commitCall"}, phase' \in Undecided,
           UNCHANGED <<requests, applied, retries, result, lost>>,
           phase' # "idle", phase' = "queued" => phase = "idle"
    PROVE  AttemptsOK' /\ PhaseOK' /\ RequestsOK'
<1>1. AttemptsOK'
  BY DEF TransactionsInv, AttemptsOK, Undecided
<1>2. PhaseOK'
  BY DEF TransactionsInv, PhaseOK, Undecided
<1>3. RequestsOK'
  BY FewerRequests DEF TransactionsInv
<1>4. QED BY <1>1, <1>2, <1>3

\* ReadsOK speaks about the Transaction object, what was shown, and the phase.
LEMMA SameReads ==
    ASSUME ReadsOK, UNCHANGED <<tx, shown>>,
           phase' \in {"lookupToken", "lookupCall", "lookupAnswered"} => tx.mutations = <<>>,
           phase' = "commitToken" => CommitStatus = "ok"
    PROVE  ReadsOK'
BY DEF ReadsOK, CommitStatus

LEMMA RunTransactionStep ==
    ASSUME TransactionsInv, RunTransaction
    PROVE  TransactionsInv'
<1>1. TypeOK'
  BY DEF TransactionsInv, TypeOK, RunTransaction, backend, Phases, Undecided
<1>2. AttemptsOK' /\ PhaseOK' /\ RequestsOK'
  BY QuietStep DEF RunTransaction, backend, Undecided
<1>3. ReadsOK'
  BY SameReads DEF TransactionsInv, RunTransaction
<1>4. QED BY <1>1, <1>2, <1>3 DEF TransactionsInv

LEMMA StartTransactionStep ==
    ASSUME TransactionsInv, StartTransaction
    PROVE  TransactionsInv'
<1>1. phase = "queued" /\ TransactionWithRetries(kRetries)
      /\ UNCHANGED <<version, clock, requests, applied, isShutdown, lost>>
  BY DEF StartTransaction, backend
<1>2. kRetries \in Nat /\ kRetries = retries /\ retries \notin applied
  BY <1>1, TransactionsAssumption DEF TransactionsInv, PhaseOK, Undecided
<1>3. \A r \in requests : r.attempt \in lost'
  BY <1>1 DEF TransactionsInv, AttemptsOK
<1>4. QED BY <1>1, <1>2, <1>3, RetryStep

LEMMA BlockReturnedStep ==
    ASSUME TransactionsInv, BlockReturned
    PROVE  TransactionsInv'
<1>1. phase = "returned" /\ UNCHANGED <<version, clock, requests, applied, isShutdown, lost>>
  BY DEF BlockReturned, backend
<1>2. (\A r \in requests : r.attempt \in lost') /\ retries \notin applied \ lost'
  BY <1>1 DEF TransactionsInv, AttemptsOK, PhaseOK, Undecided
<1>3. CASE arg # "ok" /\ RetryOrFail(arg)
  BY <1>1, <1>2, <1>3, RetryOrFailStep
<1>4. CASE arg = "ok" /\ CommitStatus # "ok" /\ RetryOrFail(CommitStatus)
  <2> DEFINE code == CommitStatus
  <2> HIDE DEF code
  <2>1. code # "ok" /\ RetryOrFail(code)
    BY <1>4 DEF code
  <2>2. QED BY <1>1, <1>2, <2>1, RetryOrFailStep
<1>5. CASE /\ arg = "ok" /\ CommitStatus = "ok" /\ phase' = "commitToken"
           /\ UNCHANGED <<retries, tx, arg, result, shown, ops>>
  <2>1. TypeOK'
    BY <1>1, <1>5 DEF TransactionsInv, TypeOK, Phases, Undecided
  <2>2. AttemptsOK' /\ PhaseOK' /\ RequestsOK'
    BY <1>1, <1>5, QuietStep DEF Undecided
  <2>3. ReadsOK'
    BY <1>5, SameReads DEF TransactionsInv
  <2>4. QED BY <2>1, <2>2, <2>3 DEF TransactionsInv
<1>6. QED BY <1>3, <1>4, <1>5 DEF BlockReturned

LEMMA ShutdownStep ==
    ASSUME TransactionsInv, Shutdown
    PROVE  TransactionsInv'
<1>1. /\ IsOpen /\ isShutdown' = TRUE
      /\ UNCHANGED <<version, clock, requests, applied, retries, result, lost>>
  BY DEF Shutdown, backend
<1>2. CASE Abandon
  BY <1>1, <1>2, AbandonStep
<1>3. CASE UNCHANGED <<phase, tx, arg, shown>>
  <2>1. TypeOK'
    BY <1>1, <1>3 DEF TransactionsInv, TypeOK
  <2>2. AttemptsOK' /\ PhaseOK'
    BY <1>1, <1>3 DEF TransactionsInv, AttemptsOK, PhaseOK
  <2>3. ReadsOK'
    BY <1>3, SameReads DEF TransactionsInv, ReadsOK
  <2>4. RequestsOK'
    BY <1>1, FewerRequests DEF TransactionsInv
  <2>5. QED BY <2>1, <2>2, <2>3, <2>4 DEF TransactionsInv
<1>4. QED BY <1>2, <1>3 DEF Shutdown

\* The block goes on after a lookup that failed, or the lookup begins.
LEMMA LookupStep ==
    ASSUME TransactionsInv, NEW k \in Docs, Lookup(k)
    PROVE  TransactionsInv'
<1>1. /\ phase = "block"
      /\ UNCHANGED <<version, clock, requests, applied, retries, result, isShutdown, lost, tx, shown>>
  BY DEF Lookup, InBlock, LookupFailed, backend
<1>2. \/ phase' = "block"
      \/ phase' = "lookupToken" /\ arg' = k /\ tx.mutations = <<>>
  BY DEF Lookup, LookupFailed
<1>3. TypeOK'
  BY <1>1, <1>2 DEF TransactionsInv, TypeOK, Phases, Undecided
<1>4. AttemptsOK' /\ PhaseOK' /\ RequestsOK'
  BY <1>1, <1>2, QuietStep DEF Undecided
<1>5. ReadsOK'
  BY <1>1, <1>2, SameReads DEF TransactionsInv
<1>6. QED BY <1>3, <1>4, <1>5 DEF TransactionsInv

LEMMA ReturnFromBlockStep ==
    ASSUME TransactionsInv, ReturnFromBlock
    PROVE  TransactionsInv'
<1>1. /\ phase = "block" /\ phase' = "returned"
      /\ UNCHANGED <<version, clock, requests, applied, retries, result, isShutdown, lost, shown>>
  BY DEF ReturnFromBlock, InBlock, backend
<1>2. PICK b \in BOOLEAN : tx' = [tx EXCEPT !.permanentError = b]
  BY DEF ReturnFromBlock
<1>3. /\ tx' \in TransactionObject
      /\ tx'.read_versions = tx.read_versions /\ tx'.written_docs = tx.written_docs
      /\ tx'.mutations = tx.mutations /\ tx'.last_write_error = tx.last_write_error
  BY <1>2 DEF TransactionsInv, TypeOK, TransactionObject
<1>4. TypeOK'
  BY <1>1, <1>3 DEF TransactionsInv, TypeOK, Phases, Undecided
<1>5. AttemptsOK' /\ PhaseOK' /\ RequestsOK'
  BY <1>1, QuietStep DEF Undecided
<1>6. ReadsOK'
  BY <1>1, <1>3 DEF TransactionsInv, ReadsOK
<1>7. QED BY <1>4, <1>5, <1>6 DEF TransactionsInv

\* A lookup fails: the block goes on.
LEMMA LookupFailedStep ==
    ASSUME TransactionsInv, LookupFailed,
           phase \in {"lookupToken", "lookupCall", "lookupAnswered"},
           UNCHANGED <<version, clock, requests, applied, retries, result, isShutdown, lost>>
    PROVE  TransactionsInv'
<1>1. TypeOK'
  BY DEF TransactionsInv, TypeOK, LookupFailed, Phases, Undecided
<1>2. AttemptsOK' /\ PhaseOK' /\ RequestsOK'
  BY QuietStep DEF LookupFailed, Undecided
<1>3. ReadsOK'
  BY SameReads DEF TransactionsInv, LookupFailed
<1>4. QED BY <1>1, <1>2, <1>3 DEF TransactionsInv

LEMMA LookupDocumentsStep ==
    ASSUME TransactionsInv, LookupDocuments
    PROVE  TransactionsInv'
<1>1. /\ phase = "lookupToken"
      /\ UNCHANGED <<version, clock, requests, applied, retries, result, isShutdown, lost>>
  BY DEF LookupDocuments, backend
<1>2. CASE Abandon
  BY <1>1, <1>2, AbandonStep DEF IsOpen, TransactionsInv, TypeOK
<1>3. CASE phase' = "lookupCall" /\ UNCHANGED <<tx, arg, shown>>
  <2>1. TypeOK'
    BY <1>1, <1>3 DEF TransactionsInv, TypeOK, Phases, Undecided
  <2>2. AttemptsOK' /\ PhaseOK' /\ RequestsOK'
    BY <1>1, <1>3, QuietStep DEF Undecided
  <2>3. ReadsOK'
    BY <1>1, <1>3, SameReads DEF TransactionsInv, ReadsOK
  <2>4. QED BY <2>1, <2>2, <2>3 DEF TransactionsInv
<1>4. CASE LookupFailed
  BY <1>1, <1>4, LookupFailedStep
<1>5. QED BY <1>2, <1>3, <1>4 DEF LookupDocuments

LEMMA BackendLookupStep ==
    ASSUME TransactionsInv, BackendLookup
    PROVE  TransactionsInv'
<1>1. /\ phase = "lookupCall" /\ phase' = "lookupAnswered"
      /\ arg' = [key |-> arg, version |-> version[arg]]
      /\ UNCHANGED <<version, clock, requests, applied, retries, result, isShutdown, lost, tx, shown>>
  BY DEF BackendLookup, backend
<1>2. arg' \in [key : Docs, version : Nat]
  BY <1>1 DEF TransactionsInv, TypeOK
<1>3. TypeOK'
  BY <1>1, <1>2 DEF TransactionsInv, TypeOK, Phases, Undecided
<1>4. AttemptsOK' /\ PhaseOK' /\ RequestsOK'
  BY <1>1, QuietStep DEF Undecided
<1>5. ReadsOK'
  BY <1>1, SameReads DEF TransactionsInv, ReadsOK
<1>6. QED BY <1>3, <1>4, <1>5 DEF TransactionsInv

\* A document that is read again and has not changed, or one that is read for the first
\* time, is recorded and shown to the block.
LEMMA OnLookupResponseStep ==
    ASSUME TransactionsInv, OnLookupResponse
    PROVE  TransactionsInv'
<1>1. /\ phase = "lookupAnswered"
      /\ UNCHANGED <<version, clock, requests, applied, retries, result, isShutdown, lost>>
  BY DEF OnLookupResponse, backend
<1>2. PICK k \in Docs, v \in Nat : k = arg.key /\ v = arg.version
  BY <1>1 DEF TransactionsInv, TypeOK
<1>3. CASE LookupFailed
  BY <1>1, <1>3, LookupFailedStep
<1>4. ASSUME NEW r, r = RecordVersion(k, v), r.status = "ok",
             tx' = [tx EXCEPT !.read_versions = r.reads],
             shown' = [shown EXCEPT ![k] = @ \union {v}],
             phase' = "block"
      PROVE  TransactionsInv'
  <2>1. /\ tx \in TransactionObject /\ tx.mutations = <<>> /\ shown \in [Docs -> SUBSET Nat]
        /\ tx.read_versions \in ReadVersions
    BY <1>1 DEF TransactionsInv, TypeOK, ReadsOK, TransactionObject
  <2>2. PICK D \in SUBSET Docs : tx.read_versions \in [D -> Nat]
    BY <2>1 DEF ReadVersions
  <2>3. /\ r.reads \in [D \cup {k} -> Nat] /\ r.reads[k] = v
        /\ \A d \in D : r.reads[d] = tx.read_versions[d]
    <3>1. CASE k \in D
      <4>1. r = [status |-> IF tx.read_versions[k] = v THEN "ok" ELSE "Aborted",
                 reads |-> tx.read_versions]
        BY <1>4, <2>2, <3>1 DEF RecordVersion
      <4>2. r.reads = tx.read_versions /\ tx.read_versions[k] = v /\ D \cup {k} = D
        BY <1>4, <3>1, <4>1
      <4>3. QED BY <2>2, <3>1, <4>2
    <3>2. CASE k \notin D
      <4>1. r = [status |-> "ok",
                 reads |-> [d \in D \cup {k} |-> IF d = k THEN v ELSE tx.read_versions[d]]]
        BY <1>4, <2>2, <3>2 DEF RecordVersion
      <4>2. QED BY <2>2, <3>2, <4>1
    <3>3. QED BY <3>1, <3>2
  <2>4. r.reads \in ReadVersions /\ DOMAIN r.reads = D \cup {k}
    BY <2>3 DEF ReadVersions
  <2>5. /\ tx' \in TransactionObject
        /\ tx'.read_versions = r.reads /\ tx'.written_docs = tx.written_docs
        /\ tx'.mutations = tx.mutations /\ tx'.last_write_error = tx.last_write_error
    BY <1>4, <2>1, <2>4 DEF TransactionObject
  <2>6. TypeOK'
    <3>1. shown' \in [Docs -> SUBSET Nat]
      BY <1>4, <2>1
    <3>2. QED BY <1>1, <1>4, <2>5, <3>1 DEF TransactionsInv, TypeOK, Phases, Undecided
  <2>7. AttemptsOK' /\ PhaseOK' /\ RequestsOK'
    BY <1>1, <1>4, QuietStep DEF Undecided
  <2>8. ASSUME NEW d \in Docs, shown'[d] # {}
        PROVE  d \in DOMAIN tx'.read_versions /\ shown'[d] = {tx'.read_versions[d]}
    <3>1. shown[d] # {} => d \in D /\ shown[d] = {tx.read_versions[d]}
      BY <2>2 DEF TransactionsInv, ReadsOK
    <3>2. CASE d = k
      <4>1. shown'[d] = shown[d] \cup {v}
        BY <1>4, <2>1, <3>2
      <4>2. shown[d] # {} => shown[d] = {v}
        BY <2>3, <3>1, <3>2
      <4>3. QED BY <2>3, <2>4, <2>5, <3>2, <4>1, <4>2
    <3>3. CASE d # k
      <4>1. shown'[d] = shown[d]
        BY <1>4, <2>1, <3>3
      <4>2. QED BY <2>3, <2>4, <2>5, <2>8, <3>1, <4>1
    <3>4. QED BY <3>2, <3>3
  <2>9. tx'.last_write_error = "ok" =>
          /\ tx'.written_docs = Keys(tx'.mutations)
          /\ \A d \in DOMAIN tx'.read_versions :
                FirstChecks(tx'.mutations, d, tx'.read_versions[d])
    <3>1. \A d, w : FirstChecks(tx'.mutations, d, w)
      BY <2>1, <2>5 DEF FirstChecks
    <3>2. QED BY <2>5, <3>1 DEF TransactionsInv, ReadsOK
  <2>10. ReadsOK'
    BY <1>4, <2>8, <2>9 DEF ReadsOK
  <2>11. QED BY <2>6, <2>7, <2>10 DEF TransactionsInv
<1>5. QED BY <1>2, <1>3, <1>4 DEF OnLookupResponse

\* Appending to the mutations of a Transaction object.
LEMMA AppendMutation ==
    ASSUME NEW m \in Seq(Mutation), NEW mu \in Mutation
    PROVE  /\ m \o <<mu>> \in Seq(Mutation)
           /\ Keys(m \o <<mu>>) = Keys(m) \cup {mu.key}
           /\ \A k, v :
                /\ FirstChecks(m, k, v)
                /\ mu.key = k /\ k \notin Keys(m) => mu.pre = [type |-> "UpdateTime", version |-> v]
                => FirstChecks(m \o <<mu>>, k, v)
<1> DEFINE n == m \o <<mu>>
<1>1. PICK L \in Nat : L = Len(m)
  BY LenProperties
<1>2. /\ n \in Seq(Mutation) /\ Len(n) = L + 1
      /\ \A i \in 1 .. L : n[i] = m[i]
      /\ n[L + 1] = mu
  BY <1>1
<1> HIDE DEF n
<1>3. Keys(n) = Keys(m) \cup {mu.key}
  <2>1. Keys(n) = {n[i].key : i \in 1 .. L + 1} /\ Keys(m) = {m[i].key : i \in 1 .. L}
    BY <1>1, <1>2 DEF Keys
  <2>2. ASSUME NEW x \in Keys(n) PROVE x \in Keys(m) \cup {mu.key}
    <3>1. PICK i \in 1 .. L + 1 : x = n[i].key
      BY <2>1
    <3>2. CASE i = L + 1
      BY <1>2, <3>1, <3>2
    <3>3. CASE i \in 1 .. L
      BY <1>2, <2>1, <3>1, <3>3
    <3>4. QED BY <3>2, <3>3
  <2>3. ASSUME NEW x \in Keys(m) PROVE x \in Keys(n)
    <3>1. PICK i \in 1 .. L : x = m[i].key
      BY <2>1
    <3>2. i \in 1 .. L + 1 /\ n[i] = m[i]
      BY <1>2
    <3>3. QED BY <2>1, <3>1, <3>2
  <2>4. mu.key \in Keys(n)
    BY <1>2, <2>1, L + 1 \in 1 .. L + 1
  <2>5. QED BY <2>2, <2>3, <2>4
<1>4. ASSUME NEW k, NEW v, FirstChecks(m, k, v),
             mu.key = k /\ k \notin Keys(m) => mu.pre = [type |-> "UpdateTime", version |-> v]
      PROVE  FirstChecks(n, k, v)
  <2>1. SUFFICES ASSUME NEW i \in 1 .. L + 1, n[i].key = k, \A j \in 1 .. i - 1 : n[j].key # k
                 PROVE  n[i].pre = [type |-> "UpdateTime", version |-> v]
    BY <1>2 DEF FirstChecks
  <2>2. CASE i = L + 1
    <3>1. k \notin Keys(m)
      BY <1>1, <1>2, <2>1, <2>2 DEF Keys
    <3>2. QED BY <1>2, <1>4, <2>1, <2>2, <3>1
  <2>3. CASE i \in 1 .. L
    <3>1. m[i].key = k /\ \A j \in 1 .. i - 1 : m[j].key # k
      <4>1. m[i].key = k
        BY <1>2, <2>1, <2>3
      <4>2. ASSUME NEW j \in 1 .. i - 1 PROVE m[j].key # k
        BY <1>2, <2>1, <2>3, j \in 1 .. L
      <4>3. QED BY <4>1, <4>2
    <3>2. QED BY <1>1, <1>2, <1>4, <2>3, <3>1 DEF FirstChecks
  <2>4. QED BY <2>2, <2>3
<1>5. QED BY <1>2, <1>3, <1>4 DEF n

\* The parts that a write of the block leaves alone.
LEMMA WriteFrame ==
    ASSUME TransactionsInv, NEW k, NEW ms, NEW error, Write(k, ms, error)
    PROVE  /\ phase = "block" /\ UNCHANGED <<phase, shown>>
           /\ AttemptsOK' /\ PhaseOK' /\ RequestsOK'
           /\ tx' \in TransactionObject => TypeOK'
<1>1. /\ phase = "block"
      /\ UNCHANGED <<version, clock, requests, applied, phase, retries, arg, result, isShutdown,
                     shown, lost>>
  BY DEF Write, InBlock, backend
<1>2. AttemptsOK' /\ PhaseOK' /\ RequestsOK'
  BY <1>1, QuietStep DEF Undecided
<1>3. tx' \in TransactionObject => TypeOK'
  BY <1>1 DEF TransactionsInv, TypeOK
<1>4. QED BY <1>1, <1>2, <1>3

\* A write that fails in the client makes the commit fail.
LEMMA FailedWriteStep ==
    ASSUME TransactionsInv, NEW k \in Docs, Write(k, <<>>, "InvalidArgument")
    PROVE  TransactionsInv'
<1>1. /\ phase = "block" /\ UNCHANGED <<phase, shown>>
      /\ AttemptsOK' /\ PhaseOK' /\ RequestsOK'
      /\ tx' \in TransactionObject => TypeOK'
  BY WriteFrame
<1>2. tx' = [tx EXCEPT !.mutations = tx.mutations, !.written_docs = @ \union {k},
                       !.last_write_error = "InvalidArgument"]
  <2>1. tx.mutations \in Seq(Mutation)
    BY DEF TransactionsInv, TypeOK, TransactionObject
  <2>2. tx.mutations \o <<>> = tx.mutations
    BY <2>1, ConcatEmptySeq
  <2>3. QED BY <2>2 DEF Write
<1>3. tx \in TransactionObject /\ tx.mutations \in Seq(Mutation)
  BY DEF TransactionsInv, TypeOK, TransactionObject
<1>4. /\ tx' \in TransactionObject /\ tx'.last_write_error # "ok"
      /\ tx'.read_versions = tx.read_versions
  BY <1>2, <1>3 DEF TransactionObject
<1>5. ReadsOK'
  BY <1>1, <1>4 DEF TransactionsInv, ReadsOK
<1>6. QED BY <1>1, <1>4, <1>5 DEF TransactionsInv

\* A write whose precondition is the version that was read, if it is the first of a
\* document that was read.
LEMMA WriteStep ==
    ASSUME TransactionsInv, NEW k \in Docs, NEW mu \in Mutation, Write(k, <<mu>>, "ok"),
           mu.key = k, IsFirstWriteOfRead(k) => mu.pre = UpdateTime(k)
    PROVE  TransactionsInv'
<1>1. /\ phase = "block" /\ UNCHANGED <<phase, shown>>
      /\ AttemptsOK' /\ PhaseOK' /\ RequestsOK'
      /\ tx' \in TransactionObject => TypeOK'
  BY WriteFrame
<1>2. PICK m : m = tx.mutations \o <<mu>>
  OBVIOUS
<1>3. tx' = [tx EXCEPT !.mutations = m, !.written_docs = @ \union {k},
                       !.last_write_error = tx.last_write_error]
  BY <1>2 DEF Write
<1>4. tx \in TransactionObject /\ tx.mutations \in Seq(Mutation)
  BY DEF TransactionsInv, TypeOK, TransactionObject
<1>5. /\ m \in Seq(Mutation) /\ Keys(m) = Keys(tx.mutations) \cup {k}
      /\ \A d, v : /\ FirstChecks(tx.mutations, d, v)
                   /\ mu.key = d /\ d \notin Keys(tx.mutations)
                        => mu.pre = [type |-> "UpdateTime", version |-> v]
                   => FirstChecks(m, d, v)
  BY <1>2, <1>4, AppendMutation
<1>6. /\ tx' \in TransactionObject /\ tx'.last_write_error = tx.last_write_error
      /\ tx'.read_versions = tx.read_versions /\ tx'.mutations = m
      /\ tx'.written_docs = tx.written_docs \cup {k}
  BY <1>3, <1>4, <1>5 DEF TransactionObject
<1>7. ASSUME tx.last_write_error = "ok", NEW d \in DOMAIN tx.read_versions
      PROVE  FirstChecks(m, d, tx.read_versions[d])
  <2>1. FirstChecks(tx.mutations, d, tx.read_versions[d]) /\ tx.written_docs = Keys(tx.mutations)
    BY <1>7 DEF TransactionsInv, ReadsOK
  <2>2. d = k /\ d \notin Keys(tx.mutations)
          => mu.pre = [type |-> "UpdateTime", version |-> tx.read_versions[d]]
    BY <1>7, <2>1 DEF IsFirstWriteOfRead, UpdateTime
  <2>3. QED BY <1>5, <2>1, <2>2
<1>8. ReadsOK'
  BY <1>1, <1>5, <1>6, <1>7 DEF TransactionsInv, ReadsOK
<1>9. QED BY <1>1, <1>6, <1>8 DEF TransactionsInv

LEMMA PreconditionType ==
    ASSUME TransactionsInv, NEW k \in Docs
    PROVE  /\ IsFirstWriteOfRead(k) => UpdateTime(k) \in Precondition
           /\ CreatePrecondition(k) \in Precondition
<1>1. ASSUME k \in DOMAIN tx.read_versions PROVE tx.read_versions[k] \in Nat
  <2>1. tx.read_versions \in ReadVersions
    BY DEF TransactionsInv, TypeOK, TransactionObject
  <2>2. PICK D \in SUBSET Docs : tx.read_versions \in [D -> Nat]
    BY <2>1 DEF ReadVersions
  <2>3. QED BY <1>1, <2>2
<1>2. QED BY <1>1 DEF IsFirstWriteOfRead, UpdateTime, CreatePrecondition, Precondition

LEMMA BlockWritesStep ==
    ASSUME TransactionsInv, NEW k \in Docs, Set(k) \/ Update(k) \/ Delete(k)
    PROVE  TransactionsInv'
<1>1. ASSUME NEW op \in {"set", "delete"},
             Write(k, <<[key |-> k, op |-> op, pre |-> CreatePrecondition(k)]>>, "ok")
      PROVE  TransactionsInv'
  <2>1. PICK mu : mu = [key |-> k, op |-> op, pre |-> CreatePrecondition(k)]
    OBVIOUS
  <2>2. mu \in Mutation /\ mu.key = k /\ mu.pre = CreatePrecondition(k)
    BY <2>1, PreconditionType DEF Mutation
  <2>3. QED BY <1>1, <2>1, <2>2, WriteStep DEF CreatePrecondition
<1>2. CASE Set(k) \/ Delete(k)
  BY <1>1, <1>2 DEF Set, Delete
<1>3. CASE Write(k, <<>>, "InvalidArgument")
  BY <1>3, FailedWriteStep
<1>4. CASE Write(k, <<[key |-> k, op |-> "set",
                       pre |-> IF IsFirstWriteOfRead(k) THEN UpdateTime(k)
                               ELSE [type |-> "Exists"]]>>, "ok")
  <2>1. PICK pre : pre = IF IsFirstWriteOfRead(k) THEN UpdateTime(k) ELSE [type |-> "Exists"]
    OBVIOUS
  <2>2. PICK mu : mu = [key |-> k, op |-> "set", pre |-> pre]
    OBVIOUS
  <2>3. pre \in Precondition
    BY <2>1, PreconditionType DEF Precondition
  <2>4. mu \in Mutation /\ mu.key = k /\ mu.pre = pre
    BY <2>2, <2>3 DEF Mutation
  <2>5. QED BY <1>4, <2>1, <2>2, <2>4, WriteStep
<1>5. QED BY <1>2, <1>3, <1>4 DEF Update

\* The commit is sent: it has a mutation of everything that was read.
LEMMA CommitMutationsStep ==
    ASSUME TransactionsInv, CommitMutations
    PROVE  TransactionsInv'
<1>1. phase = "commitToken" /\ UNCHANGED <<version, clock, applied, isShutdown>>
  BY DEF CommitMutations
<1>2. (\A r \in requests : r.attempt \in lost) /\ retries \notin applied /\ retries \notin lost
  BY <1>1 DEF TransactionsInv, AttemptsOK, PhaseOK, Undecided
<1>3. CASE Abandon /\ UNCHANGED <<requests, retries, result, lost>>
  BY <1>1, <1>3, AbandonStep DEF IsOpen, TransactionsInv, TypeOK
<1>4. CASE RetryOrFail("Unavailable") /\ UNCHANGED <<requests, lost>>
  BY <1>1, <1>2, <1>4, RetryOrFailStep
<1>5. ASSUME phase' = "commitCall", UNCHANGED <<retries, tx, result, shown, lost>>,
             NEW r, r = [attempt |-> retries, mutations |-> tx.mutations, shown |-> shown],
             requests' = requests \union {r}
      PROVE  TransactionsInv'
  <2>1. r \in Request
    BY <1>5 DEF TransactionsInv, TypeOK, TransactionObject, Request
  <2>2. TypeOK'
    BY <1>1, <1>5, <2>1 DEF TransactionsInv, TypeOK, Phases, Undecided
  <2>3. AttemptsOK'
    BY <1>1, <1>2, <1>5, <2>1 DEF TransactionsInv, TypeOK, AttemptsOK, Request
  <2>4. PhaseOK'
    BY <1>1, <1>2, <1>5 DEF TransactionsInv, PhaseOK
  <2>5. ReadsOK'
    BY <1>5, SameReads DEF TransactionsInv
  <2>6. ASSUME NEW k \in Docs, r.shown[k] # {}
        PROVE  \E v \in r.shown[k] :
                  r.shown[k] = {v} /\ k \in Keys(r.mutations) /\ FirstChecks(r.mutations, k, v)
    <3>1. k \in DOMAIN tx.read_versions /\ shown[k] = {tx.read_versions[k]}
      BY <1>5, <2>6 DEF TransactionsInv, ReadsOK
    <3>2. CommitStatus = "ok" /\ tx.mutations \in Seq(Mutation)
      BY <1>1 DEF TransactionsInv, TypeOK, TransactionObject, ReadsOK
    <3>3. /\ tx.last_write_error = "ok"
          /\ DOMAIN tx.read_versions \subseteq {tx.mutations[i].key : i \in DOMAIN tx.mutations}
      BY <3>2 DEF CommitStatus
    <3>4. k \in Keys(tx.mutations)
      <4>1. DOMAIN tx.mutations = 1 .. Len(tx.mutations)
        BY <3>2, LenProperties
      <4>2. QED BY <3>1, <3>3, <4>1 DEF Keys
    <3>5. FirstChecks(tx.mutations, k, tx.read_versions[k])
      BY <3>1, <3>3 DEF TransactionsInv, ReadsOK
    <3>6. QED BY <1>5, <3>1, <3>4, <3>5
  <2>7. RequestsOK'
    <3>1. \A q \in requests' : q = r \/ q \in requests
      BY <1>5
    <3>2. QED BY <2>6, <3>1 DEF TransactionsInv, RequestsOK
  <2>8. QED BY <2>2, <2>3, <2>4, <2>5, <2>7 DEF TransactionsInv
<1>6. QED BY <1>3, <1>4, <1>5 DEF CommitMutations

\* The backend carries out or refuses a request, whether or not the client still waits.
LEMMA BackendCommitStep ==
    ASSUME TransactionsInv, NEW r \in requests, BackendCommit(r)
    PROVE  TransactionsInv'
<1>1. /\ requests' = requests \ {r} /\ r \in Request
      /\ UNCHANGED <<retries, tx, result, isShutdown, shown, lost>>
  BY DEF BackendCommit, TransactionsInv, TypeOK
<1>2. PICK o \in CommitResult :
        /\ clock' = IF o.status = "ok" THEN clock + 1 ELSE clock
        /\ version' = IF o.status = "ok" THEN o.version ELSE version
        /\ applied' = IF o.status = "ok" THEN applied \union {r.attempt} ELSE applied
        /\ IF phase = "commitCall" /\ r.attempt = retries
           THEN phase' = "commitAnswered" /\ arg' = o.status
           ELSE UNCHANGED <<phase, arg>>
  <2>1. version \in [Docs -> Nat] /\ clock \in Nat /\ r.mutations \in Seq(Mutation)
    BY <1>1 DEF TransactionsInv, TypeOK, Request
  <2>2. Outcome(r.mutations) \in CommitResult
    BY <2>1, OutcomeType
  <2>3. [version |-> version, status |-> "Aborted"] \in CommitResult
    BY <2>1 DEF CommitResult, Statuses
  <2>4. QED BY <2>2, <2>3 DEF BackendCommit
<1>3. o.version \in [Docs -> Nat] /\ o.status \in Statuses /\ r.attempt \in Nat
  BY <1>1 DEF CommitResult, Request
<1>4. TypeOK'
  <2>1. version' \in [Docs -> Nat] /\ clock' \in Nat /\ applied' \subseteq Nat
    BY <1>2, <1>3 DEF TransactionsInv, TypeOK
  <2>2. phase' \in Phases /\ phase' # "commitAnswered" => UNCHANGED <<phase, arg>>
    BY <1>2 DEF Phases
  <2>3. phase' \in Phases /\ (phase' = "commitAnswered" => arg' \in Statuses)
    BY <1>2, <1>3 DEF TransactionsInv, TypeOK, Phases
  <2>4. QED BY <1>1, <1>2, <2>1, <2>2, <2>3 DEF TransactionsInv, TypeOK
<1>5. r.attempt \in lost \/ (r.attempt = retries /\ phase \in {"commitCall", "abandoned"})
  BY DEF TransactionsInv, AttemptsOK
<1>6. AttemptsOK'
  <2>1. applied' \subseteq applied \cup {r.attempt}
    BY <1>2
  <2>2. r.attempt >= retries
    BY DEF TransactionsInv, AttemptsOK
  <2>3. \A q \in requests' : q.attempt # r.attempt /\ q \in requests
    BY <1>1 DEF TransactionsInv, AttemptsOK
  <2>4. \A q \in requests' :
           q.attempt \in lost \/ (q.attempt = retries /\ phase' \in {"commitCall", "abandoned"})
    BY <1>2, <2>3 DEF TransactionsInv, AttemptsOK
  <2>5. QED BY <1>1, <1>5, <2>1, <2>2, <2>3, <2>4 DEF TransactionsInv, AttemptsOK
<1>7. PhaseOK'
  <2>1. CASE phase = "commitCall" /\ r.attempt = retries
    BY <1>1, <1>2, <2>1 DEF TransactionsInv, PhaseOK, Undecided
  <2>2. CASE ~(phase = "commitCall" /\ r.attempt = retries)
    <3>1. UNCHANGED <<phase, arg>>
      BY <1>2, <2>2
    <3>2. CASE r.attempt # retries
      <4>1. retries \in applied' <=> retries \in applied
        BY <1>2, <3>2
      <4>2. QED BY <1>1, <3>1, <4>1 DEF TransactionsInv, PhaseOK
    <3>3. CASE r.attempt = retries
      <4>1. phase = "abandoned" \/ retries \in lost
        BY <1>5, <2>2, <3>3
      <4>2. QED BY <1>1, <3>1, <4>1 DEF TransactionsInv, PhaseOK, Undecided
    <3>4. QED BY <3>2, <3>3
  <2>3. QED BY <2>1, <2>2
<1>8. ReadsOK'
  BY <1>1, <1>2, SameReads DEF TransactionsInv, ReadsOK
<1>9. RequestsOK'
  BY <1>1, FewerRequests DEF TransactionsInv
<1>10. QED BY <1>4, <1>6, <1>7, <1>8, <1>9 DEF TransactionsInv

LEMMA OnCommitResponseStep ==
    ASSUME TransactionsInv, OnCommitResponse
    PROVE  TransactionsInv'
<1>1. /\ phase = "commitAnswered"
      /\ UNCHANGED <<version, clock, requests, applied, isShutdown, lost>>
  BY DEF OnCommitResponse, backend
<1>2. /\ \A r \in requests : r.attempt \in lost
      /\ retries \notin lost /\ (arg = "ok" <=> retries \in applied)
  BY <1>1 DEF TransactionsInv, AttemptsOK, PhaseOK
<1>3. CASE arg = "ok" /\ ResultCallback("ok")
  BY <1>1, <1>2, <1>3, ResultCallbackStep
<1>4. CASE arg # "ok" /\ RetryOrFail(arg)
  BY <1>1, <1>2, <1>4, RetryOrFailStep
<1>5. QED BY <1>3, <1>4 DEF OnCommitResponse

\* A call that fails: what becomes of the commit is no longer known to the client.
LEMMA FailCallStep ==
    ASSUME TransactionsInv, FailCall
    PROVE  TransactionsInv'
<1>1. UNCHANGED <<version, clock, requests, applied, isShutdown>>
  BY DEF FailCall, backend
<1>2. CASE /\ phase \in {"lookupCall", "lookupAnswered"} /\ LookupFailed
           /\ UNCHANGED <<retries, result, lost, ops>>
  BY <1>1, <1>2, LookupFailedStep
<1>3. CASE /\ phase \in {"commitCall", "commitAnswered"} /\ RetryOrFail("Unavailable")
           /\ lost' = lost \union {retries}
  <2>1. (\A r \in requests : r.attempt \in lost') /\ retries \notin applied \ lost'
    BY <1>3 DEF TransactionsInv, AttemptsOK
  <2>2. QED BY <1>1, <1>3, <2>1, RetryOrFailStep
<1>4. QED BY <1>2, <1>3 DEF FailCall

LEMMA OtherWriteStep ==
    ASSUME TransactionsInv, NEW k \in Docs, OtherWrite(k)
    PROVE  TransactionsInv'
<1>1. UNCHANGED <<requests, applied, phase, retries, tx, arg, result, isShutdown, shown, lost>>
  BY DEF OtherWrite
<1>2. version' \in [Docs -> Nat] /\ clock' \in Nat
  BY DEF OtherWrite, TransactionsInv, TypeOK
<1>3. TypeOK'
  BY <1>1, <1>2 DEF TransactionsInv, TypeOK
<1>4. AttemptsOK' /\ PhaseOK'
  BY <1>1 DEF TransactionsInv, AttemptsOK, PhaseOK
<1>5. ReadsOK'
  BY <1>1, SameReads DEF TransactionsInv, ReadsOK
<1>6. RequestsOK'
  BY <1>1, FewerRequests DEF TransactionsInv
<1>7. QED BY <1>3, <1>4, <1>5, <1>6 DEF TransactionsInv

-----------------------------------------------------------------------------
(* The theorems.                                                           *)

LEMMA InitHolds ==
    ASSUME Init
    PROVE  TransactionsInv
<1>1. tx \in TransactionObject /\ shown \in [Docs -> SUBSET Nat]
  BY NewTransactionOK DEF Init
<1>2. TypeOK
  BY <1>1, TransactionsAssumption DEF Init, TypeOK, Phases, Undecided
<1>3. AttemptsOK /\ PhaseOK
  BY DEF Init, AttemptsOK, PhaseOK
<1>4. ReadsOK
  BY NewTransactionOK DEF Init, ReadsOK, Keys
<1>5. RequestsOK
  BY DEF Init, RequestsOK
<1>6. QED BY <1>2, <1>3, <1>4, <1>5 DEF TransactionsInv

LEMMA NextHolds ==
    ASSUME TransactionsInv, [Next]_vars
    PROVE  TransactionsInv'
<1>1. CASE RunTransaction
  BY <1>1, RunTransactionStep
<1>2. CASE BlockStep
  BY <1>2, LookupStep, BlockWritesStep, ReturnFromBlockStep DEF BlockStep
<1>3. CASE WorkerStep
  BY <1>3, StartTransactionStep, BlockReturnedStep, LookupDocumentsStep, OnLookupResponseStep,
     CommitMutationsStep, OnCommitResponseStep DEF WorkerStep
<1>4. CASE BackendStep
  BY <1>4, BackendLookupStep, BackendCommitStep DEF BackendStep
<1>5. CASE FailCall
  BY <1>5, FailCallStep
<1>6. CASE Shutdown
  BY <1>6, ShutdownStep
<1>7. CASE \E k \in Docs : OtherWrite(k)
  BY <1>7, OtherWriteStep
<1>8. CASE UNCHANGED vars
  <2>1. UNCHANGED <<version, clock, requests, applied, phase, retries, tx, arg, result,
                    isShutdown, shown, lost>>
    BY <1>8 DEF vars
  <2>2. TypeOK' /\ AttemptsOK' /\ PhaseOK'
    BY <2>1 DEF TransactionsInv, TypeOK, AttemptsOK, PhaseOK
  <2>3. ReadsOK' /\ RequestsOK'
    BY <2>1, SameReads, FewerRequests DEF TransactionsInv, ReadsOK
  <2>4. QED BY <2>2, <2>3 DEF TransactionsInv
<1>9. QED BY <1>1, <1>2, <1>3, <1>4, <1>5, <1>6, <1>7, <1>8 DEF Next

\* Every reachable state of a transaction satisfies the invariant, for any documents,
\* number of retries and bounds: runTransactionWithBlock, its retries and the shutdown.
THEOREM TransactionsSafety == Spec => []TransactionsInv
<1>1. Init => TransactionsInv
  BY InitHolds
<1>2. TransactionsInv /\ [Next]_vars => TransactionsInv'
  BY NextHolds
<1>3. QED BY <1>1, <1>2, PTL DEF Spec

\* A commit that was carried out and whose answer was not lost is that of the last
\* attempt, and the completion of the transaction gets its result; a success is only
\* reported for what was committed (FSTSyncEngine's transactionWithRetries).
THEOREM ResultIsTrue == Spec => []ResultIsThatOfTheCommit
<1>1. TransactionsInv => ResultIsThatOfTheCommit
  BY DEF TransactionsInv, AttemptsOK, PhaseOK, ResultIsThatOfTheCommit
<1>2. QED BY <1>1, TransactionsSafety, PTL

\* The backend carries out a commit only while all that the block read in that attempt is
\* as it was read: no update of others is lost between a read of the block and the write
\* that depends on it (Transaction's preconditions and RecordVersion).
THEOREM ReadsAreCurrent == Spec => CommitsSeeTheirReads
<1> DEFINE Step == \A r \in requests :
                     r.attempt \in applied' \ applied => \A k \in Docs : r.shown[k] \subseteq {version[k]}
<1>1. ASSUME TransactionsInv, [Next]_vars
      PROVE  [Step]_vars
  <2>1. SUFFICES ASSUME NEW q \in requests, q.attempt \in applied' \ applied, NEW k \in Docs
                 PROVE  q.shown[k] \subseteq {version[k]}
    OBVIOUS
  <2>2. PICK r \in requests : BackendCommit(r)
    <3>1. CASE UNCHANGED applied
      BY <2>1, <3>1
    <3>2. QED BY <1>1, <3>1 DEF Next, vars, RunTransaction, BlockStep, WorkerStep, BackendStep,
              FailCall, Shutdown, OtherWrite, Lookup, Set, Update, Delete, Write, InBlock,
              ReturnFromBlock, StartTransaction, BlockReturned, LookupDocuments,
              OnLookupResponse, CommitMutations, OnCommitResponse, BackendLookup, backend
  <2>3. Outcome(r.mutations).status = "ok" /\ q.attempt = r.attempt
    BY <2>1, <2>2 DEF BackendCommit
  <2>4. q = r
    BY <1>1, <2>3 DEF TransactionsInv, AttemptsOK
  <2>5. CASE r.shown[k] = {}
    BY <2>4, <2>5
  <2>6. CASE r.shown[k] # {}
    <3>1. PICK v : r.shown[k] = {v} /\ k \in Keys(r.mutations) /\ FirstChecks(r.mutations, k, v)
      BY <1>1, <2>6 DEF TransactionsInv, RequestsOK
    <3>2. version \in [Docs -> Nat] /\ clock \in Nat /\ r.mutations \in Seq(Mutation)
      BY <1>1 DEF TransactionsInv, TypeOK, Request
    <3>3. version[k] = v
      BY <2>3, <3>1, <3>2, OutcomeSeesReads
    <3>4. QED BY <2>4, <3>1, <3>3
  <2>7. QED BY <2>5, <2>6
<1>2. QED BY <1>1, TransactionsSafety, PTL DEF Spec, CommitsSeeTheirReads
=============================================================================
