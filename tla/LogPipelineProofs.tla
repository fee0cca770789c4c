------------------------- MODULE LogPipelineProofs -------------------------
(***************************************************************************)
(* The safety of the log pipeline for any number of logs, runs, faults and *)
(* days, and any batch sizes.                                              *)
(***************************************************************************)
EXTENDS LogPipeline, Functions, SequenceTheorems, TLAPS

(***************************************************************************)
(* What the list operations return, preserve and bound, for every list     *)
(***************************************************************************)
(* Concatenating two lists that share only elements of R, and repeat only  *)
(* elements of R, repeats only elements of R: pushing a batch back.        *)
LEMMA UniqueConcat ==
    ASSUME NEW S, NEW s \in Seq(S), NEW t \in Seq(S), NEW R,
           UniqueExcept(s, R), UniqueExcept(t, R), Range(s) \cap Range(t) \subseteq R
    PROVE  UniqueExcept(s \o t, R)
<1> SUFFICES ASSUME NEW i \in 1..(Len(s) + Len(t)), NEW j \in 1..(Len(s) + Len(t)),
                    (s \o t)[i] = (s \o t)[j], i # j
             PROVE  (s \o t)[i] \in R
    BY DEF UniqueExcept
<1>1. CASE i <= Len(s) /\ j <= Len(s)
    BY <1>1 DEF UniqueExcept
<1>2. CASE i > Len(s) /\ j > Len(s)
  <2>1. i - Len(s) \in DOMAIN t /\ j - Len(s) \in DOMAIN t /\ i - Len(s) # j - Len(s)
      BY <1>2
  <2> QED BY <2>1, <1>2 DEF UniqueExcept
<1>3. CASE i <= Len(s) /\ j > Len(s)
  <2>1. j - Len(s) \in DOMAIN t /\ i \in DOMAIN s
      BY <1>3
  <2>2. (s \o t)[i] = s[i] /\ (s \o t)[j] = t[j - Len(s)]
      BY <1>3
  <2> QED BY <2>1, <2>2 DEF Range
<1>4. CASE i > Len(s) /\ j <= Len(s)
  <2>1. i - Len(s) \in DOMAIN t /\ j \in DOMAIN s
      BY <1>4
  <2>2. (s \o t)[j] = s[j] /\ (s \o t)[i] = t[i - Len(s)]
      BY <1>4
  <2> QED BY <2>1, <2>2 DEF Range
<1> QED BY <1>1, <1>2, <1>3, <1>4

(* More elements may be excused. *)
LEMMA UniqueWeaken ==
    ASSUME NEW s, NEW R, NEW Q, UniqueExcept(s, R), R \subseteq Q
    PROVE  UniqueExcept(s, Q)
BY DEF UniqueExcept

(* popBatchFromList splits the list: each element goes to the caller or    *)
(* stays, in its place, and one that is in both parts was there twice.     *)
LEMMA PopSplits ==
    ASSUME NEW S, NEW s \in Seq(S), NEW n \in Nat \ {0}
    PROVE  LET a == PopBatchFromList(s, n)
               b == Trimmed(s, n)
           IN  /\ a \in Seq(S) /\ b \in Seq(S)
               /\ Range(s) = Range(a) \cup Range(b)
               /\ \A R : UniqueExcept(s, R)
                         => /\ UniqueExcept(a, R)
                            /\ UniqueExcept(b, R)
                            /\ Range(a) \cap Range(b) \subseteq R
<1> DEFINE k == Taken(s, n)
           a == SubSeq(s, 1, k)
           b == SubSeq(s, k + 1, Len(s))
<1>1. k \in 0..Len(s)
    BY DEF Taken
<1> HIDE DEF k
<1>2. a \in Seq(S) /\ b \in Seq(S) /\ Len(a) = k /\ Len(b) = Len(s) - k
    BY <1>1
<1>3. \A i \in 1..k : a[i] = s[i]
    BY <1>1
<1>4. \A i \in 1..(Len(s) - k) : b[i] = s[k + i]
    BY <1>1
<1>5. Range(s) = Range(a) \cup Range(b)
  <2>1. a \o b = SubSeq(s, 1, Len(s))
    <3>1. 1 \in 1..Len(s) + 1 /\ k \in (1 - 1)..Len(s) /\ Len(s) \in k..Len(s)
        BY <1>1
    <3> QED BY <3>1, ConcatAdjacentSubSeq
  <2>2. a \o b = s
      BY <2>1, SubSeqFull
  <2> QED BY <2>2, <1>2, RangeConcatenation
<1>6. ASSUME NEW R, UniqueExcept(s, R)
      PROVE  UniqueExcept(a, R) /\ UniqueExcept(b, R) /\ Range(a) \cap Range(b) \subseteq R
  <2> DOMAIN a = 1..k /\ DOMAIN b = 1..(Len(s) - k) /\ DOMAIN s = 1..Len(s)
      BY <1>2
  <2> HIDE DEF a, b
  <2>1. UniqueExcept(a, R)
      BY <1>1, <1>3, <1>6 DEF UniqueExcept
  <2>2. UniqueExcept(b, R)
    <3> SUFFICES ASSUME NEW i \in 1..(Len(s) - k), NEW j \in 1..(Len(s) - k), b[i] = b[j], i # j
                 PROVE  b[i] \in R
        BY DEF UniqueExcept
    <3>1. k + i \in 1..Len(s) /\ k + j \in 1..Len(s) /\ k + i # k + j
        BY <1>1
    <3> QED BY <3>1, <1>4, <1>6 DEF UniqueExcept
  <2>3. ASSUME NEW i \in 1..k, NEW j \in 1..(Len(s) - k), a[i] = b[j]
        PROVE  a[i] \in R
    <3>1. i \in 1..Len(s) /\ k + j \in 1..Len(s) /\ i # k + j
        BY <1>1
    <3> QED BY <3>1, <2>3, <1>3, <1>4, <1>6 DEF UniqueExcept
  <2>4. Range(a) \cap Range(b) \subseteq R
      BY <2>3 DEF Range
  <2> QED BY <2>1, <2>2, <2>4
<1> QED BY <1>2, <1>5, <1>6 DEF PopBatchFromList, Trimmed, k

USE PipelineAssumption

(***************************************************************************)
(* Types                                                                   *)
(***************************************************************************)
(* An INSERT appends rows of the right type and leaves the daily ids in    *)
(* range.                                                                  *)
LEMMA InsertRowsType ==
    ASSUME TypeOK, NEW f \in Flushers, InsertRows(flush[f].raw)
    PROVE  /\ rows' \in Seq(Logs)
           /\ Len(rows') = Len(rows) + Len(flush[f].raw)
           /\ daily' \in SUBSET (1..Len(rows'))
           /\ 1..Len(rows) \subseteq 1..Len(rows')
<1>1. flush[f].raw \in Seq(Logs) /\ rows \in Seq(Logs) /\ daily \in SUBSET (1..Len(rows))
    BY DEF TypeOK, FlushRun
<1> DEFINE m == Len(flush[f].raw)
           n == Len(rows)
<1>2. m \in Nat /\ n \in Nat
    BY <1>1
<1>3. rows' \in Seq(Logs) /\ Len(rows') = n + m
    BY <1>1 DEF InsertRows
<1>4. daily' = daily \cup ((n + 1)..(n + m))
    BY DEF InsertRows
<1> HIDE DEF m, n
<1>5. 1..n \subseteq 1..(n + m) /\ (n + 1)..(n + m) \subseteq 1..(n + m)
    BY <1>2
<1>6. daily \subseteq 1..n
    BY <1>1 DEF n
<1>7. daily' \subseteq 1..(n + m)
    BY <1>4, <1>5, <1>6
<1> QED BY <1>3, <1>5, <1>7 DEF m, n

(* A commit keeps the types: it copies ids of rows and removes them from   *)
(* the daily table.                                                        *)
LEMMA ApplyTransactionType ==
    ASSUME TypeOK, NEW m \in Migrators, ApplyTransaction(m)
    PROVE  /\ rows' = rows
           /\ daily' \in SUBSET (1..Len(rows))
           /\ commits' \in Nat
           /\ main' \in SUBSET ((1..commits') \X (1..Len(rows)))
<1>1. /\ daily \in SUBSET (1..Len(rows))
      /\ commits \in Nat
      /\ main \in SUBSET ((1..commits) \X (1..Len(rows)))
      /\ mig[m].copied \in SUBSET (1..Len(rows))
    BY DEF TypeOK, MigRun
<1>2. 1..commits \subseteq 1..(commits + 1) /\ commits + 1 \in 1..(commits + 1)
    BY <1>1
<1>3. ({commits + 1} \X mig[m].copied) \subseteq ((1..(commits + 1)) \X (1..Len(rows)))
    BY <1>1, <1>2
<1>4. main \subseteq ((1..(commits + 1)) \X (1..Len(rows)))
    BY <1>1, <1>2
<1>5. commits' = commits + 1 /\ main' = main \cup ({commits + 1} \X mig[m].copied)
    BY DEF ApplyTransaction
<1>6. main' \in SUBSET ((1..commits') \X (1..Len(rows)))
    BY <1>3, <1>4, <1>5
<1>7. rows' = rows /\ daily' = daily \ mig[m].selected
    BY DEF ApplyTransaction
<1>8. daily' \in SUBSET (1..Len(rows)) /\ commits' \in Nat
  <2>1. daily \subseteq 1..Len(rows) /\ commits \in Nat
      BY <1>1
  <2>2. daily' \subseteq 1..Len(rows)
      BY <2>1, <1>7
  <2>3. commits' \in Nat
      BY <2>1, <1>5
  <2> QED BY <2>2, <2>3
<1> QED BY <1>6, <1>7, <1>8

(* Where a migration run goes from its present state. *)
LEMMA MigRunType ==
    ASSUME NEW run \in MigRun
    PROVE  /\ run.batch \in 1..MaxBatches /\ run.attempt \in 1..MaxAttempts
           /\ run.selected \subseteq 1..Len(rows) /\ run.copied \subseteq 1..Len(rows)
           /\ ToRelease(run) \in MigRun
           /\ run.batch # MaxBatches => ToNextBatch(run) \in MigRun
           /\ run.attempt < MaxAttempts => ToNextAttempt(run) \in MigRun
<1>1. ToRelease(run) \in MigRun
    BY DEF MigRun, ToRelease
<1>2. ASSUME run.batch # MaxBatches
      PROVE  ToNextBatch(run) \in MigRun
  <2>1. run.batch + 1 \in 1..MaxBatches /\ 1 \in 1..MaxAttempts
      BY <1>2 DEF MigRun
  <2> QED BY <2>1 DEF MigRun, ToNextBatch
<1>3. ASSUME run.attempt < MaxAttempts
      PROVE  ToNextAttempt(run) \in MigRun
  <2>1. run.attempt + 1 \in 1..MaxAttempts
      BY <1>3 DEF MigRun
  <2> QED BY <2>1 DEF MigRun, ToNextAttempt
<1> QED BY <1>1, <1>2, <1>3 DEF MigRun

(* Every variable keeps its type. *)
THEOREM TypeCorrect == Spec => []TypeOK
<1>1. Init => TypeOK
  <2>1. Init => IdleMig \in MigRun
      BY DEF Init, IdleMig, MigRun, Days
  <2>2. IdleFlush \in FlushRun
      BY DEF IdleFlush, FlushRun
  <2> QED BY <2>1, <2>2 DEF Init, TypeOK, Lock!LockInit, Lock!LockTypeOK, Days
<1>2. TypeOK /\ [Next]_vars => TypeOK'
  <2> SUFFICES ASSUME TypeOK, [Next]_vars PROVE TypeOK'
      OBVIOUS
  <2> USE DEF clock, store, migration, history, Lock!LockTypeOK
  <2>a. rows' = rows => MigRun' = MigRun
      BY DEF MigRun
  <2>b. IdleMig \in MigRun /\ IdleFlush \in FlushRun
      BY DEF IdleMig, MigRun, Days, IdleFlush, FlushRun
  <2>1. CASE NextDay
      BY <2>1, <2>a DEF NextDay, TypeOK, Days
  <2>2. ASSUME NEW l \in Logs, NEW d \in Days, Enqueue(l, d)
        PROVE  TypeOK'
      BY <2>2, <2>a DEF Enqueue, Push, TypeOK
  <2>3. ASSUME NEW l \in Logs, NEW d \in Days, EnqueueUnanswered(l, d)
        PROVE  TypeOK'
      BY <2>3, <2>a DEF EnqueueUnanswered, Push, TypeOK, Fault
  <2>4. ASSUME NEW l \in Logs, EnqueueAgain(l)
        PROVE  TypeOK'
      BY <2>4, <2>a DEF EnqueueAgain, TypeOK
  <2>5. ASSUME NEW l \in Logs, EnqueueForgotten(l)
        PROVE  TypeOK'
      BY <2>5, <2>a DEF EnqueueForgotten, TypeOK, Fault
  <2>6. ASSUME NEW f \in Flushers, FlushStep(f)
        PROVE  TypeOK'
    <3>0. /\ queue \in Seq(Logs)
          /\ flush[f].raw \in Seq(Logs)
          /\ Range(flush[f].raw) \subseteq Logs
          /\ Popped \in Seq(Logs)
          /\ Range(Popped) \subseteq Logs
          /\ Rest \in Seq(Logs)
      <4>1. queue \in Seq(Logs) /\ flush[f].raw \in Seq(Logs)
          BY DEF TypeOK, FlushRun
      <4>2. Popped \in Seq(Logs) /\ Rest \in Seq(Logs)
          BY <4>1, PopSplits DEF Popped, Rest
      <4> QED BY <4>1, <4>2, RangeOfSeq
    <3>1. CASE PopBatch(f)
      <4>1. [pc |-> "insert", raw |-> Popped, attempt |-> 1] \in FlushRun
          BY <3>0 DEF FlushRun
      <4> QED BY <3>0, <3>1, <4>1, <2>a DEF PopBatch, TypeOK
    <3>2. CASE PopAnswerLost(f)
        BY <3>0, <3>2, <2>a DEF PopAnswerLost, TypeOK, Fault
    <3>3. ASSUME InsertRows(flush[f].raw), UNCHANGED <<main, commits, mig>>
          PROVE  /\ mig' \in [Migrators -> MigRun']
                 /\ main' \in SUBSET ((1..commits') \X (1..Len(rows')))
      <4>1. 1..Len(rows) \subseteq 1..Len(rows')
          BY <3>3, InsertRowsType
      <4>2. MigRun \subseteq MigRun'
          BY <4>1 DEF MigRun
      <4> QED BY <3>3, <4>1, <4>2 DEF TypeOK
    <3>4. CASE Insert(f)
        BY <2>b, <3>3, <3>4, InsertRowsType DEF Insert, TypeOK
    <3>5. ASSUME NEW stored \in BOOLEAN, InsertFails(f, stored)
          PROVE  TypeOK'
      <4>1. flush' \in [Flushers -> FlushRun]
        <5>1. flush[f] \in FlushRun
            BY DEF TypeOK
        <5>2. [flush[f] EXCEPT !.pc = "requeue"] \in FlushRun
            BY <5>1 DEF FlushRun
        <5>3. flush[f].attempt < MaxAttempts
                => [flush[f] EXCEPT !.attempt = @ + 1] \in FlushRun
            BY <5>1 DEF FlushRun
        <5>4. AfterFailure(flush[f]) \in FlushRun
            BY <5>2, <5>3 DEF AfterFailure
        <5>5. flush' = [flush EXCEPT ![f] = AfterFailure(flush[f])]
            BY <3>5 DEF InsertFails
        <5> QED BY <5>4, <5>5 DEF TypeOK
      <4>2. CASE stored
        <5>1. InsertRows(flush[f].raw) /\ repeated' = repeated \cup Range(flush[f].raw)
            BY <3>5, <4>2 DEF InsertFails
        <5>2. UNCHANGED <<clock, queue, resend, main, commits, migration, lost>> /\ Fault
            BY <3>5 DEF InsertFails
        <5>3. repeated' \in SUBSET Logs
            BY <3>0, <5>1 DEF TypeOK
        <5> QED BY <3>3, <4>1, <5>1, <5>2, <5>3, InsertRowsType DEF TypeOK, Fault
      <4>3. CASE ~stored
        <5>1. /\ UNCHANGED <<rows, daily, repeated>> /\ Fault
              /\ UNCHANGED <<clock, queue, resend, main, commits, migration, lost>>
            BY <3>5, <4>3 DEF InsertFails
        <5> QED BY <2>a, <4>1, <5>1 DEF TypeOK, Fault
      <4> QED BY <4>2, <4>3
    <3>6. CASE Requeue(f)
        BY <2>a, <2>b, <3>0, <3>6 DEF Requeue, TypeOK
    <3>7. CASE RequeueUnanswered(f)
        BY <2>a, <3>0, <3>7 DEF RequeueUnanswered, TypeOK, Fault
    <3>8. CASE BatchDropped(f)
        BY <2>a, <2>b, <3>0, <3>8 DEF BatchDropped, TypeOK, Fault
    <3> QED BY <2>6, <3>1, <3>2, <3>4, <3>5, <3>6, <3>7, <3>8 DEF FlushStep
  <2>7. ASSUME NEW m \in Migrators, MigrationStep(m)
        PROVE  TypeOK'
    <3>0. mig[m] \in MigRun
        BY DEF TypeOK
    <3>1. CASE StartMigration(m)
      <4>1. [IdleMig EXCEPT !.pc = "select", !.before = today] \in MigRun
          BY <2>b DEF MigRun, TypeOK
      <4> QED BY <2>a, <3>1, <4>1 DEF StartMigration, TypeOK, Lock!Acquire
    <3>2. CASE SelectRows(m)
      <4> DEFINE picked == Lowest(Old(mig[m].before), MigrationBatch)
      <4>1. picked \subseteq 1..Len(rows)
          BY DEF Lowest, Old, TypeOK
      <4> HIDE DEF picked
      <4>2. [mig[m] EXCEPT !.pc = "copy", !.selected = picked] \in MigRun
          BY <3>0, <4>1 DEF MigRun
      <4>3. mig' \in [Migrators -> MigRun]
          BY <3>0, <3>2, <4>2, MigRunType DEF SelectRows, TypeOK, picked
      <4> QED BY <2>a, <3>2, <4>3 DEF SelectRows, TypeOK
    <3>3. CASE CopyRows(m)
      <4>1. [mig[m] EXCEPT !.pc = "commit", !.copied = mig[m].selected \cap daily] \in MigRun
          BY <3>0 DEF MigRun
      <4> QED BY <2>a, <3>3, <4>1 DEF CopyRows, TypeOK
    <3>4. CASE CommitBatch(m)
      <4>1. ApplyTransaction(m)
          BY <3>4 DEF CommitBatch
      <4>2. mig' \in [Migrators -> MigRun]
          BY <3>0, <3>4, MigRunType DEF CommitBatch, TypeOK
      <4> QED BY <2>a, <3>4, <4>1, <4>2, ApplyTransactionType DEF CommitBatch, TypeOK
    <3>5. ASSUME NEW committed \in BOOLEAN, TransactionFails(m, committed)
          PROVE  TypeOK'
      <4>1. mig' \in [Migrators -> MigRun]
          BY <3>0, <3>5, MigRunType DEF TransactionFails, TypeOK
      <4>2. CASE committed
        <5>1. ApplyTransaction(m)
            BY <3>5, <4>2 DEF TransactionFails
        <5> QED BY <2>a, <3>5, <4>1, <5>1, ApplyTransactionType
                DEF TransactionFails, TypeOK, Fault
      <4>3. CASE ~committed
        <5>1. /\ UNCHANGED store /\ Fault
              /\ UNCHANGED <<clock, queue, resend, flush, lock, lost, repeated>>
            BY <3>5, <4>3 DEF TransactionFails
        <5> QED BY <2>a, <4>1, <5>1 DEF TypeOK, Fault
      <4> QED BY <4>2, <4>3
    <3>6. CASE Release(m)
        BY <2>a, <2>b, <3>6 DEF Release, TypeOK, Lock!ReleaseOwn
    <3>7. CASE RunAborted(m)
        BY <2>a, <2>b, <3>7 DEF RunAborted, TypeOK, Fault
    <3> QED BY <2>7, <3>1, <3>2, <3>3, <3>4, <3>5, <3>6, <3>7 DEF MigrationStep
  <2>8. CASE LockExpires
      BY <2>8, <2>a DEF LockExpires, TypeOK, Lock!Expire
  <2>9. CASE UNCHANGED vars
      BY <2>9, <2>a DEF vars, TypeOK
  <2> QED BY <2>1, <2>2, <2>3, <2>4, <2>5, <2>6, <2>7, <2>8, <2>9 DEF Next
<1> QED BY <1>1, <1>2, PTL DEF Spec

(***************************************************************************)
(* No log vanishes, and a log has one occurrence                           *)
(***************************************************************************)
Raw(f) == Range(flush[f].raw)

Inserted == Range(rows)

(* NothingVanishes, with the rows ever inserted for the rows still there. *)
Accounted == Accepted \subseteq resend \cup Range(queue) \cup Held \cup Inserted \cup lost

IdleHoldsNothing == \A f \in Flushers : flush[f].pc = "idle" => flush[f].raw = <<>>

(* What is on its way or stored was accepted; what is to be pushed again   *)
(* may be doubled.                                                         *)
Traceable ==
    /\ resend \subseteq Accepted \cap repeated
    /\ Range(queue) \subseteq Accepted
    /\ \A f \in Flushers : Raw(f) \subseteq Accepted
    /\ Inserted \subseteq Accepted

(* A log that no fault may have doubled occurs once in the list, the runs  *)
(* and the tables together.                                                *)
OccursOnce ==
    /\ UniqueExcept(queue, repeated)
    /\ \A f \in Flushers : UniqueExcept(flush[f].raw, repeated)
    /\ RowsAreUnique
    /\ Range(queue) \cap Inserted \subseteq repeated
    /\ \A f \in Flushers : Raw(f) \cap (Range(queue) \cup Inserted) \subseteq repeated
    /\ \A f, g \in Flushers : f # g => Raw(f) \cap Raw(g) \subseteq repeated

LogInv == IdleHoldsNothing /\ Traceable /\ OccursOnce /\ Accounted

(* An empty list has no elements and repeats none.                         *)
LEMMA EmptyList == /\ Range(<<>>) = {}
                   /\ \A R : UniqueExcept(<<>>, R)
BY DEF Range, UniqueExcept

(* A list of one element repeats none.                                     *)
LEMMA OneElementList ==
    ASSUME NEW x
    PROVE  /\ Range(<<x>>) = {x}
           /\ \A R : UniqueExcept(<<x>>, R)
BY DEF Range, UniqueExcept

(* A push to the head of a log that is nowhere, or that may be doubled.    *)
LEMMA PushKeepsLogInv ==
    ASSUME TypeOK, LogInv, NEW l \in Logs, queue' = <<l>> \o queue,
           UNCHANGED <<flush, rows, lost>>,
           \A k \in Logs : k # l => created'[k] = created[k],
           created'[l] # 0, created' \in [Logs -> Nat],
           resend' \subseteq resend \cup {l}, resend \subseteq resend' \cup {l},
           resend' \subseteq repeated',
           repeated \subseteq repeated',
           created[l] = 0 \/ l \in repeated
    PROVE  LogInv'
<1>1. queue \in Seq(Logs) /\ <<l>> \in Seq(Logs)
    BY DEF TypeOK
<1>2. Range(queue') = {l} \cup Range(queue)
  <2>1. Range(<<l>> \o queue) = Range(<<l>>) \cup Range(queue)
      BY <1>1, RangeConcatenation
  <2> QED BY <2>1, OneElementList
<1>3. \A f \in Flushers : Raw(f)' = Raw(f) /\ (flush[f].raw)' = flush[f].raw
    BY DEF Raw
<1>4. Inserted' = Inserted
    BY DEF Inserted
<1>5. Accepted' = Accepted \cup {l}
    BY DEF Accepted, TypeOK
<1>6. l \in Accepted => l \in repeated
    BY DEF Accepted
<1>7. Traceable'
    BY <1>2, <1>3, <1>4, <1>5 DEF LogInv, Traceable
<1>8. OccursOnce'
  <2>1. Range(<<l>>) \cap Range(queue) \subseteq repeated
      BY <1>6, OneElementList DEF LogInv, Traceable
  <2>2. UniqueExcept(queue', repeated)
      BY <1>1, <2>1, UniqueConcat, OneElementList DEF LogInv, OccursOnce
  <2>3. UniqueExcept(queue', repeated') /\ UniqueExcept(rows', repeated')
      BY <2>2, UniqueWeaken DEF LogInv, OccursOnce, RowsAreUnique
  <2>4. \A f \in Flushers : UniqueExcept(flush[f].raw, repeated')
      BY UniqueWeaken DEF LogInv, OccursOnce
  <2>5. Range(queue') \cap Inserted \subseteq repeated
      BY <1>2, <1>6 DEF LogInv, OccursOnce, Traceable
  <2>6. \A f \in Flushers : Raw(f) \cap (Range(queue') \cup Inserted) \subseteq repeated
      BY <1>2, <1>6 DEF LogInv, OccursOnce, Traceable
  <2>7. \A f, g \in Flushers : f # g => Raw(f) \cap Raw(g) \subseteq repeated
      BY DEF LogInv, OccursOnce
  <2> QED BY <1>3, <1>4, <2>3, <2>4, <2>5, <2>6, <2>7 DEF OccursOnce, RowsAreUnique
<1>9. Accounted'
  <2>1. Held' = Held
      BY <1>3 DEF Held, Raw
  <2> QED BY <1>2, <1>4, <1>5, <2>1 DEF LogInv, Accounted
<1>10. IdleHoldsNothing'
    BY DEF LogInv, IdleHoldsNothing
<1> QED BY <1>7, <1>8, <1>9, <1>10 DEF LogInv

(* A step of one run: the others hold what they held.  Every log of the    *)
(* list and of the run stays in one of the four places, and what the step  *)
(* puts in two of them is counted as repeated.                             *)
LEMMA FlushKeepsLogInv ==
    ASSUME TypeOK, LogInv, NEW f \in Flushers, UNCHANGED <<created, resend>>,
           NEW run, flush' = [flush EXCEPT ![f] = run],
           run.pc = "idle" => run.raw = <<>>,
           Range(queue') \subseteq Range(queue) \cup Raw(f),
           Range(run.raw) \subseteq Range(queue) \cup Raw(f),
           Inserted \subseteq Inserted', Inserted' \subseteq Inserted \cup Raw(f),
           lost \subseteq lost', repeated \subseteq repeated',
           Range(queue) \cup Raw(f) \subseteq Range(queue') \cup Range(run.raw)
                                                   \cup Inserted' \cup lost',
           UniqueExcept(queue', repeated'), UniqueExcept(run.raw, repeated'),
           UniqueExcept(rows', repeated'),
           Range(queue') \cap Inserted' \subseteq repeated',
           Range(run.raw) \cap (Range(queue') \cup Inserted') \subseteq repeated'
    PROVE  LogInv'
<1>1. \A g \in Flushers : flush'[g] = IF g = f THEN run ELSE flush[g]
    BY DEF TypeOK
<1>2. \A g \in Flushers : Raw(g)' = IF g = f THEN Range(run.raw) ELSE Raw(g)
    BY <1>1 DEF Raw
<1>3. Accepted' = Accepted
    BY DEF Accepted
<1>4. Traceable'
    BY <1>2, <1>3 DEF LogInv, Traceable
<1>5. OccursOnce'
  <2>1. \A g \in Flushers : UniqueExcept((flush[g].raw)', repeated')
    <3> SUFFICES ASSUME NEW g \in Flushers PROVE UniqueExcept(flush'[g].raw, repeated')
        OBVIOUS
    <3>1. CASE g = f
        BY <1>1, <3>1
    <3>2. CASE g # f
      <4>1. UniqueExcept(flush[g].raw, repeated)
          BY DEF LogInv, OccursOnce
      <4> QED BY <1>1, <3>2, <4>1, UniqueWeaken
    <3> QED BY <3>1, <3>2
  <2>2. \A g \in Flushers : g # f =>
            Raw(g) \cap (Range(queue) \cup Inserted \cup Raw(f)) \subseteq repeated
      BY DEF LogInv, OccursOnce
  <2>3. \A g \in Flushers : Raw(g)' \cap (Range(queue') \cup Inserted') \subseteq repeated'
      BY <1>2, <2>2
  <2>4. \A g, h \in Flushers : g # h => Raw(g)' \cap Raw(h)' \subseteq repeated'
    <3>1. \A g, h \in Flushers : g # h => Raw(g) \cap Raw(h) \subseteq repeated
        BY DEF LogInv, OccursOnce
    <3> QED BY <1>2, <2>2, <3>1
  <2> QED BY <2>1, <2>3, <2>4 DEF OccursOnce, RowsAreUnique
<1>6. Accounted'
  <2>1. Held \subseteq Held' \cup Raw(f) /\ Range(run.raw) \subseteq Held'
      BY <1>2 DEF Held, Raw
  <2> QED BY <1>3, <2>1 DEF LogInv, Accounted
<1>7. IdleHoldsNothing'
    BY <1>1 DEF LogInv, IdleHoldsNothing
<1> QED BY <1>4, <1>5, <1>6, <1>7 DEF LogInv

(* At first no log is anywhere.                                            *)
LEMMA LogInvInit == Init => LogInv
<1> SUFFICES ASSUME Init PROVE LogInv
    OBVIOUS
<1>1. /\ queue = <<>> /\ rows = <<>> /\ resend = {}
      /\ \A f \in Flushers : flush[f].raw = <<>>
      /\ Accepted = {}
    BY DEF Init, IdleFlush, Accepted
<1>2. /\ Range(queue) = {} /\ Inserted = {}
      /\ \A f \in Flushers : Raw(f) = {}
    BY <1>1, EmptyList DEF Inserted, Raw
<1>3. Traceable /\ Accounted /\ IdleHoldsNothing
    BY <1>1, <1>2 DEF Traceable, Accounted, IdleHoldsNothing
<1>4. OccursOnce
    BY <1>1, <1>2, EmptyList DEF OccursOnce, RowsAreUnique
<1> QED BY <1>3, <1>4 DEF LogInv

(* A step of a flush run moves a batch from one place to the next, or      *)
(* loses it.                                                               *)
LEMMA FlushStepKeepsLogInv ==
    ASSUME TypeOK, LogInv, NEW f \in Flushers, FlushStep(f)
    PROVE  LogInv'
<1> DEFINE raw == flush[f].raw
<1>1. /\ queue \in Seq(Logs) /\ raw \in Seq(Logs) /\ rows \in Seq(Logs)
      /\ flush[f].pc \in {"idle", "insert", "requeue"}
    BY DEF TypeOK, FlushRun
<1>2. /\ UniqueExcept(queue, repeated) /\ UniqueExcept(raw, repeated)
      /\ UniqueExcept(rows, repeated)
      /\ Range(queue) \cap Inserted \subseteq repeated
      /\ Raw(f) \cap (Range(queue) \cup Inserted) \subseteq repeated
    BY DEF LogInv, OccursOnce, RowsAreUnique
<1>3. IdleFlush.pc = "idle" /\ IdleFlush.raw = <<>>
    BY DEF IdleFlush
<1>4. /\ Popped \in Seq(Logs) /\ Rest \in Seq(Logs)
      /\ Range(queue) = Range(Popped) \cup Range(Rest)
      /\ UniqueExcept(Popped, repeated)
      /\ UniqueExcept(Rest, repeated)
      /\ Range(Popped) \cap Range(Rest) \subseteq repeated
    BY <1>1, <1>2, PopSplits DEF Popped, Rest
<1>5. flush[f].pc = "idle" => Raw(f) = {}
    BY EmptyList DEF LogInv, IdleHoldsNothing, Raw
<1>6. Range(raw) = Raw(f)
    BY DEF Raw
<1>7. ASSUME InsertRows(raw), Raw(f) \cap Inserted \subseteq repeated
      PROVE  Inserted' = Inserted \cup Raw(f) /\ UniqueExcept(rows', repeated)
  <2>1. rows' = rows \o raw
      BY <1>7 DEF InsertRows
  <2>2. Range(rows') = Range(rows) \cup Range(raw)
      BY <1>1, <2>1, RangeConcatenation
  <2>3. Range(rows) \cap Range(raw) \subseteq repeated
      BY <1>6, <1>7 DEF Inserted
  <2> QED BY <1>1, <1>2, <1>6, <2>1, <2>2, <2>3, UniqueConcat DEF Inserted
<1>8. ASSUME queue' = queue \o raw
      PROVE  Range(queue') = Range(queue) \cup Raw(f) /\ UniqueExcept(queue', repeated)
  <2>1. Range(queue \o raw) = Range(queue) \cup Range(raw)
      BY <1>1, RangeConcatenation
  <2>2. Range(queue) \cap Range(raw) \subseteq repeated
      BY <1>2, <1>6
  <2> QED BY <1>1, <1>2, <1>6, <1>8, <2>1, <2>2, UniqueConcat
<1>9. ASSUME rows' = rows
      PROVE  Inserted' = Inserted
    BY <1>9 DEF Inserted
<1> HIDE DEF raw
<1>a. CASE PopBatch(f)
  <2> DEFINE run == [pc |-> "insert", raw |-> Popped, attempt |-> 1]
  <2>1. /\ flush[f].pc = "idle" /\ queue' = Rest
        /\ flush' = [flush EXCEPT ![f] = run]
        /\ UNCHANGED <<created, resend, rows, lost, repeated>>
      BY <1>a DEF PopBatch, clock, store, history
  <2>2. run.pc # "idle" /\ run.raw = Popped
      OBVIOUS
  <2> HIDE DEF run
  <2> QED BY <1>2, <1>4, <1>5, <1>9, <2>1, <2>2, FlushKeepsLogInv
<1>b. CASE PopAnswerLost(f)
  <2>1. /\ flush[f].pc = "idle" /\ queue' = Rest
        /\ lost' = lost \cup Range(Popped)
        /\ UNCHANGED <<created, resend, flush, rows, repeated>>
      BY <1>b DEF PopAnswerLost, clock, store
  <2> DEFINE run == flush[f]
  <2>2. flush' = [flush EXCEPT ![f] = run]
      BY <2>1 DEF TypeOK
  <2>3. run.raw = <<>> /\ Range(run.raw) = {} /\ UniqueExcept(run.raw, repeated')
      BY <2>1, EmptyList DEF LogInv, IdleHoldsNothing
  <2>4. /\ UniqueExcept(queue', repeated') /\ UniqueExcept(rows', repeated')
        /\ Inserted' = Inserted /\ Raw(f) = {}
      BY <1>2, <1>4, <1>5, <1>9, <2>1
  <2>5. Range(queue) \cup Raw(f) \subseteq Range(queue') \cup Range(run.raw) \cup Inserted' \cup lost'
      BY <1>4, <2>1, <2>4
  <2>6. Range(queue') \cap Inserted' \subseteq repeated'
      BY <1>2, <1>4, <2>1, <2>4
  <2> HIDE DEF run
  <2> QED BY <1>4, <2>1, <2>2, <2>3, <2>4, <2>5, <2>6, FlushKeepsLogInv
<1>c. CASE Insert(f)
  <2>1. /\ InsertRows(raw)
        /\ flush' = [flush EXCEPT ![f] = IdleFlush]
        /\ UNCHANGED <<created, resend, queue, lost, repeated>>
      BY <1>c DEF Insert, clock, history, raw
  <2> QED BY <1>2, <1>3, <1>7, <2>1, EmptyList, FlushKeepsLogInv
<1>d. ASSUME NEW stored \in BOOLEAN, InsertFails(f, stored)
      PROVE  LogInv'
  <2> DEFINE run == AfterFailure(flush[f])
  <2>1. /\ flush' = [flush EXCEPT ![f] = run]
        /\ flush[f].pc = "insert"
        /\ UNCHANGED <<created, resend, queue, lost>>
      BY <1>d DEF InsertFails, clock
  <2>2. run.raw = raw /\ run.pc # "idle"
      BY <2>1 DEF AfterFailure, TypeOK, FlushRun, raw
  <2> HIDE DEF run
  <2>3. CASE stored
    <3>1. InsertRows(raw) /\ repeated' = repeated \cup Raw(f)
        BY <1>d, <2>3 DEF InsertFails, raw, Raw
    <3>2. UniqueExcept(queue', repeated') /\ UniqueExcept(raw, repeated')
        BY <1>2, <2>1, <3>1, UniqueWeaken
    <3>3. Inserted' = Inserted \cup Raw(f) /\ UniqueExcept(rows', repeated')
        BY <1>2, <1>7, <3>1, UniqueWeaken
    <3> QED BY <1>2, <1>6, <2>1, <2>2, <3>1, <3>2, <3>3, FlushKeepsLogInv
  <2>4. CASE ~stored
    <3>1. UNCHANGED <<rows, repeated>>
        BY <1>d, <2>4 DEF InsertFails
    <3> QED BY <1>2, <1>6, <1>9, <2>1, <2>2, <3>1, FlushKeepsLogInv
  <2> QED BY <2>3, <2>4
<1>e. CASE Requeue(f)
  <2>1. /\ queue' = queue \o raw
        /\ flush' = [flush EXCEPT ![f] = IdleFlush]
        /\ UNCHANGED <<created, resend, rows, lost, repeated>>
      BY <1>e DEF Requeue, clock, store, history, raw
  <2> QED BY <1>2, <1>3, <1>8, <1>9, <2>1, EmptyList, FlushKeepsLogInv
<1>f. CASE RequeueUnanswered(f)
  <2>1. /\ queue' = queue \o raw /\ repeated' = repeated \cup Raw(f)
        /\ flush[f].pc = "requeue"
        /\ UNCHANGED <<created, resend, flush, rows, lost>>
      BY <1>f DEF RequeueUnanswered, clock, store, raw, Raw
  <2>2. flush' = [flush EXCEPT ![f] = flush[f]]
      BY <2>1 DEF TypeOK
  <2>3. flush[f].raw = raw
      BY DEF raw
  <2>4. /\ UniqueExcept(queue', repeated') /\ UniqueExcept(raw, repeated')
        /\ UniqueExcept(rows', repeated')
      BY <1>2, <1>8, <2>1, UniqueWeaken
  <2> QED BY <1>2, <1>6, <1>8, <1>9, <2>1, <2>2, <2>3, <2>4, FlushKeepsLogInv
<1>g. CASE BatchDropped(f)
  <2>1. /\ flush' = [flush EXCEPT ![f] = IdleFlush]
        /\ lost' = lost \cup Raw(f)
        /\ UNCHANGED <<created, resend, queue, rows, repeated>>
      BY <1>g DEF BatchDropped, clock, store, Raw
  <2> QED BY <1>2, <1>3, <1>9, <2>1, EmptyList, FlushKeepsLogInv
<1> QED BY <1>a, <1>b, <1>c, <1>d, <1>e, <1>f, <1>g DEF FlushStep

(* Every step of the pipeline keeps LogInv.                                *)
LEMMA LogInvStep == TypeOK /\ LogInv /\ [Next]_vars => LogInv'
<1> SUFFICES ASSUME TypeOK, LogInv, [Next]_vars PROVE LogInv'
    OBVIOUS
<1>1. created \in [Logs -> Nat] /\ Days \subseteq Nat \ {0}
    BY DEF TypeOK, Days
<1>2. ASSUME UNCHANGED <<created, queue, resend, flush, rows, lost, repeated>>
      PROVE  LogInv'
    BY <1>2 DEF LogInv, IdleHoldsNothing, Traceable, OccursOnce, Accounted, RowsAreUnique,
                Raw, Held, Inserted, Accepted
<1>3. ASSUME NEW l \in Logs, NEW d \in Days, Push(l, d),
             \/ UNCHANGED <<resend, lost, repeated>>
             \/ /\ resend' = resend \cup {l} /\ repeated' = repeated \cup {l}
                /\ UNCHANGED lost
      PROVE  LogInv'
  <2>1. /\ created[l] = 0 /\ queue' = <<l>> \o queue
        /\ created' = [created EXCEPT ![l] = d]
        /\ UNCHANGED <<flush, rows, lost>>
      BY <1>3 DEF Push, store
  <2>2. /\ \A k \in Logs : k # l => created'[k] = created[k]
        /\ created'[l] # 0 /\ created' \in [Logs -> Nat]
      BY <1>1, <2>1
  <2>3. /\ resend' \subseteq resend \cup {l} /\ resend \subseteq resend' \cup {l}
        /\ resend' \subseteq repeated' /\ repeated \subseteq repeated'
      BY <1>3 DEF LogInv, Traceable
  <2> QED BY <2>1, <2>2, <2>3, PushKeepsLogInv
<1>4. CASE NextDay
    BY <1>2, <1>4 DEF NextDay, store, history
<1>5. ASSUME NEW l \in Logs, NEW d \in Days, Enqueue(l, d)
      PROVE  LogInv'
    BY <1>3, <1>5 DEF Enqueue, history
<1>6. ASSUME NEW l \in Logs, NEW d \in Days, EnqueueUnanswered(l, d)
      PROVE  LogInv'
    BY <1>3, <1>6 DEF EnqueueUnanswered
<1>7. ASSUME NEW l \in Logs, EnqueueAgain(l)
      PROVE  LogInv'
  <2>1. /\ l \in resend /\ resend' = resend \ {l} /\ queue' = <<l>> \o queue
        /\ UNCHANGED <<created, flush, rows, lost, repeated>>
      BY <1>7 DEF EnqueueAgain, clock, store, history
  <2>2. l \in repeated /\ created[l] # 0 /\ resend \subseteq repeated
      BY <2>1 DEF LogInv, Traceable, Accepted
  <2> QED BY <1>1, <2>1, <2>2, PushKeepsLogInv
<1>8. ASSUME NEW l \in Logs, EnqueueForgotten(l)
      PROVE  LogInv'
  <2>1. /\ resend' = resend \ {l} /\ lost' = lost \cup {l}
        /\ UNCHANGED <<created, queue, flush, rows, repeated>>
      BY <1>8 DEF EnqueueForgotten, clock, store
  <2>2. IdleHoldsNothing' /\ OccursOnce'
      BY <2>1 DEF LogInv, IdleHoldsNothing, OccursOnce, RowsAreUnique, Raw, Inserted
  <2>3. Traceable' /\ Accounted'
      BY <2>1 DEF LogInv, Traceable, Accounted, Accepted, Raw, Held, Inserted
  <2> QED BY <2>2, <2>3 DEF LogInv
<1>9. ASSUME NEW f \in Flushers, FlushStep(f)
      PROVE  LogInv'
    BY <1>9, FlushStepKeepsLogInv
<1>10. ASSUME NEW m \in Migrators, MigrationStep(m)
       PROVE  LogInv'
  <2>1. UNCHANGED <<created, queue, resend, flush, rows, lost, repeated>>
    <3>1. CASE StartMigration(m)
        BY <3>1 DEF StartMigration, clock, store, history
    <3>2. CASE SelectRows(m)
        BY <3>2 DEF SelectRows, clock, store, history
    <3>3. CASE CopyRows(m)
        BY <3>3 DEF CopyRows, clock, store, history
    <3>4. CASE CommitBatch(m)
        BY <3>4 DEF CommitBatch, ApplyTransaction, clock, history
    <3>5. ASSUME NEW committed \in BOOLEAN, TransactionFails(m, committed)
          PROVE  UNCHANGED <<created, queue, resend, flush, rows, lost, repeated>>
        BY <3>5 DEF TransactionFails, ApplyTransaction, clock, store
    <3>6. CASE Release(m)
        BY <3>6 DEF Release, clock, store, history
    <3>7. CASE RunAborted(m)
        BY <3>7 DEF RunAborted, clock, store
    <3> QED BY <1>10, <3>1, <3>2, <3>3, <3>4, <3>5, <3>6, <3>7 DEF MigrationStep
  <2> QED BY <1>2, <2>1
<1>11. CASE LockExpires
    BY <1>2, <1>11 DEF LockExpires, clock, store, history
<1>12. CASE UNCHANGED vars
    BY <1>2, <1>12 DEF vars, clock, store, history
<1> QED BY <1>4, <1>5, <1>6, <1>7, <1>8, <1>9, <1>10, <1>11, <1>12 DEF Next

(* A log outside repeated is in one place only, and whatever is in a place *)
(* was accepted: trackVisit, the flush and the migration together.         *)
THEOREM LogInvHolds == Spec => []LogInv
BY TypeCorrect, LogInvInit, LogInvStep, PTL DEF Spec

(* No log has two rows unless an unanswered command doubled it.            *)
THEOREM RowsAreUniqueHolds == Spec => []RowsAreUnique
<1>1. LogInv => RowsAreUnique
    BY DEF LogInv, OccursOnce
<1> QED BY <1>1, LogInvHolds, PTL

(***************************************************************************)
(* A row is migrated exactly once, and only when its day is over           *)
(***************************************************************************)
(* The rows of an open transaction are its own: still in access_logs_daily *)
(* and selected by no other one.                                           *)
TransactionsApart ==
    /\ \A m \in Migrators :
          /\ mig[m].pc \notin {"copy", "commit"} => mig[m].selected = {}
          /\ mig[m].pc = "commit" => mig[m].copied = mig[m].selected
          /\ mig[m].selected \subseteq daily
          /\ mig[m].before <= today
          /\ \A i \in mig[m].selected : created[rows[i]] < mig[m].before
    /\ \A m, n \in Migrators : m # n => mig[m].selected \cap mig[n].selected = {}

MainOnlyPast == \A r \in main : created[rows[r[2]]] < today

MigInv == TransactionsApart /\ MigratedExactlyOnce /\ MainOnlyPast

(* What the type invariant says of rows, copies and migration runs.        *)
LEMMA RowFacts ==
    ASSUME TypeOK
    PROVE  /\ rows \in Seq(Logs) /\ DOMAIN rows = 1..Len(rows) /\ Len(rows) \in Nat
           /\ daily \subseteq 1..Len(rows)
           /\ commits \in Nat
           /\ \A r \in main : r[1] \in 1..commits /\ r[2] \in 1..Len(rows)
                              /\ r = <<r[1], r[2]>>
           /\ today \in Nat
           /\ \A i \in 1..Len(rows) : created[rows[i]] \in Nat
           /\ \A m \in Migrators : mig[m] \in MigRun /\ mig[m].before \in Nat
           /\ \A m \in Migrators : mig[m].selected \subseteq 1..Len(rows)
<1>1. rows \in Seq(Logs) /\ daily \subseteq 1..Len(rows) /\ commits \in Nat
    BY DEF TypeOK
<1>2. DOMAIN rows = 1..Len(rows) /\ Len(rows) \in Nat /\ \A i \in 1..Len(rows) : rows[i] \in Logs
    BY <1>1
<1>3. created \in [Logs -> Nat] /\ today \in Nat
    BY DEF TypeOK, Days
<1>4. main \subseteq ((1..commits) \X (1..Len(rows)))
    BY DEF TypeOK
<1>5. \A m \in Migrators : mig[m] \in MigRun
    BY DEF TypeOK
<1>6. \A m \in Migrators : mig[m].before \in Nat /\ mig[m].selected \subseteq 1..Len(rows)
    BY <1>5 DEF MigRun, Days
<1> QED BY <1>1, <1>2, <1>3, <1>4, <1>5, <1>6

(* A step that leaves the tables and the open transactions alone, and the  *)
(* day of every stored log.                                                *)
LEMMA MigFrame ==
    ASSUME TypeOK, MigInv, UNCHANGED <<rows, daily, main, mig>>,
           today' \in Nat, today <= today',
           \A i \in 1..Len(rows) : created'[rows[i]] = created[rows[i]]
    PROVE  MigInv'
<1>1. TransactionsApart'
  <2>1. \A m \in Migrators : mig[m].before <= today'
      BY RowFacts DEF MigInv, TransactionsApart
  <2> QED BY <2>1, RowFacts DEF MigInv, TransactionsApart
<1>2. MigratedExactlyOnce'
    BY DEF MigInv, MigratedExactlyOnce
<1>3. MainOnlyPast'
    BY RowFacts DEF MigInv, MainOnlyPast
<1> QED BY <1>1, <1>2, <1>3 DEF MigInv

(* New rows are in access_logs_daily, behind all the others. *)
LEMMA InsertKeepsMigInv ==
    ASSUME TypeOK, MigInv, NEW f \in Flushers, InsertRows(flush[f].raw),
           UNCHANGED <<today, created, main, mig>>
    PROVE  MigInv'
<1> DEFINE k == Len(rows)
           n == Len(flush[f].raw)
<1>1. flush[f].raw \in Seq(Logs) /\ rows \in Seq(Logs)
    BY DEF TypeOK, FlushRun
<1>2. n \in Nat /\ k \in Nat
    BY <1>1
<1>3. /\ DOMAIN rows' = 1..(k + n)
      /\ \A i \in 1..k : rows'[i] = rows[i]
    BY <1>1 DEF InsertRows
<1>4. daily' = daily \cup ((k + 1)..(k + n))
    BY DEF InsertRows
<1> HIDE DEF n
<1>5. TransactionsApart'
  <2>1. \A m \in Migrators : mig[m].selected \subseteq 1..k
      BY RowFacts
  <2> QED BY <1>3, <1>4, <2>1 DEF MigInv, TransactionsApart
<1>6. MigratedExactlyOnce'
  <2> SUFFICES ASSUME NEW i \in 1..(k + n)
               PROVE  /\ i \in daily' <=> \A r \in main : r[2] # i
                      /\ \A r, s \in main : r[2] = i /\ s[2] = i => r = s
      BY <1>3 DEF MigratedExactlyOnce
  <2>1. CASE i \in 1..k
    <3>1. i \in daily' <=> i \in daily
        BY <1>2, <1>4, <2>1
    <3>2. i \in DOMAIN rows
        BY <1>1, <2>1
    <3> QED BY <3>1, <3>2 DEF MigInv, MigratedExactlyOnce
  <2>2. CASE i \notin 1..k
    <3>1. i \in daily'
        BY <1>2, <1>4, <2>2
    <3>2. \A r \in main : r[2] # i
        BY <2>2, RowFacts
    <3> QED BY <3>1, <3>2
  <2> QED BY <2>1, <2>2
<1>7. MainOnlyPast'
    BY <1>3, RowFacts DEF MigInv, MainOnlyPast
<1> QED BY <1>5, <1>6, <1>7 DEF MigInv

(* One run moves on and keeps its rows or gives them up; the tables stay.  *)
LEMMA RunKeepsMigInv ==
    ASSUME TypeOK, MigInv, NEW m \in Migrators, UNCHANGED <<today, created, rows, daily, main>>,
           NEW run, mig' = [mig EXCEPT ![m] = run],
           run.pc \notin {"copy", "commit"} => run.selected = {},
           run.pc = "commit" => run.copied = run.selected,
           run.selected \subseteq daily,
           run.before <= today,
           \A i \in run.selected : created[rows[i]] < run.before,
           \A n \in Migrators : n # m => run.selected \cap mig[n].selected = {}
    PROVE  MigInv'
<1>1. \A n \in Migrators : mig'[n] = IF n = m THEN run ELSE mig[n]
    BY DEF TypeOK
<1>2. TransactionsApart'
    BY <1>1 DEF MigInv, TransactionsApart
<1>3. MigratedExactlyOnce' /\ MainOnlyPast'
    BY DEF MigInv, MigratedExactlyOnce, MainOnlyPast
<1> QED BY <1>2, <1>3 DEF MigInv

(* The commit moves the run's own rows from one table to the other. *)
LEMMA CommitKeepsMigInv ==
    ASSUME TypeOK, MigInv, NEW m \in Migrators, ApplyTransaction(m), mig[m].pc = "commit",
           UNCHANGED <<today, created>>,
           NEW run, mig' = [mig EXCEPT ![m] = run],
           run.pc \notin {"copy", "commit"}, run.selected = {}, run.before <= today
    PROVE  MigInv'
<1> DEFINE moved == mig[m].selected
<1>1. /\ rows' = rows /\ daily' = daily \ moved
      /\ main' = main \cup ({commits + 1} \X moved)
      /\ moved \subseteq daily
    BY DEF ApplyTransaction, MigInv, TransactionsApart
<1>2. \A n \in Migrators : mig'[n] = IF n = m THEN run ELSE mig[n]
    BY DEF TypeOK
<1>3. \A i \in moved : created[rows[i]] < today
    BY RowFacts DEF MigInv, TransactionsApart
<1>4. TransactionsApart'
  <2>1. \A n \in Migrators : n # m => mig[n].selected \cap moved = {}
      BY DEF MigInv, TransactionsApart
  <2>2. \A n \in Migrators : n # m => mig[n].selected \subseteq daily'
      BY <1>1, <2>1 DEF MigInv, TransactionsApart
  <2> QED BY <1>1, <1>2, <2>2 DEF MigInv, TransactionsApart
<1>5. MigratedExactlyOnce'
  <2> SUFFICES ASSUME NEW i \in DOMAIN rows
               PROVE  /\ i \in daily' <=> \A r \in main' : r[2] # i
                      /\ \A r, s \in main' : r[2] = i /\ s[2] = i => r = s
      BY <1>1 DEF MigratedExactlyOnce
  <2>1. /\ i \in daily <=> \A r \in main : r[2] # i
        /\ \A r, s \in main : r[2] = i /\ s[2] = i => r = s
      BY DEF MigInv, MigratedExactlyOnce
  <2>2. \A r \in {commits + 1} \X moved : r = <<commits + 1, r[2]>> /\ r[2] \in moved
      OBVIOUS
  <2>3. CASE i \in moved
    <3>1. i \notin daily' /\ \A r \in main : r[2] # i
        BY <1>1, <2>1, <2>3
    <3>2. <<commits + 1, i>> \in main'
        BY <1>1, <2>3
    <3>3. \A r \in main' : r[2] = i => r = <<commits + 1, i>>
        BY <1>1, <2>2, <3>1
    <3> QED BY <3>1, <3>2, <3>3
  <2>4. CASE i \notin moved
    <3>1. i \in daily' <=> i \in daily
        BY <1>1, <2>4
    <3>2. \A r \in main' : r[2] = i => r \in main
        BY <1>1, <2>2, <2>4
    <3>3. main \subseteq main'
        BY <1>1
    <3> QED BY <2>1, <3>1, <3>2, <3>3
  <2> QED BY <2>3, <2>4
<1>6. MainOnlyPast'
  <2>1. \A r \in {commits + 1} \X moved : r[2] \in moved
      OBVIOUS
  <2> QED BY <1>1, <1>3, <2>1 DEF MigInv, MainOnlyPast
<1> QED BY <1>4, <1>5, <1>6 DEF MigInv

(* At first no transaction is open.                                        *)
LEMMA MigInvInit == Init => MigInv
<1> SUFFICES ASSUME Init PROVE MigInv
    OBVIOUS
<1>1. /\ rows = <<>> /\ main = {} /\ today = 1
      /\ \A m \in Migrators : mig[m].pc = "idle" /\ mig[m].selected = {} /\ mig[m].before = 1
    BY DEF Init, IdleMig
<1> QED BY <1>1 DEF MigInv, TransactionsApart, MigratedExactlyOnce, MainOnlyPast

(* A step of a migration run: what it selects is free of other open        *)
(* transactions, what it commits leaves the daily table.                   *)
LEMMA MigrationStepKeepsMigInv ==
    ASSUME TypeOK, MigInv, NEW m \in Migrators, MigrationStep(m)
    PROVE  MigInv'
<1>1. /\ mig[m].pc \notin {"copy", "commit"} => mig[m].selected = {}
      /\ mig[m].pc = "commit" => mig[m].copied = mig[m].selected
      /\ mig[m].selected \subseteq daily
      /\ mig[m].before <= today
      /\ \A i \in mig[m].selected : created[rows[i]] < mig[m].before
      /\ \A n \in Migrators : n # m => mig[m].selected \cap mig[n].selected = {}
    BY DEF MigInv, TransactionsApart
<1>2. mig[m] \in MigRun /\ today \in Nat /\ today \in Days
    BY DEF TypeOK, Days
<1>3. 1 <= today
    BY <1>2 DEF Days
<1>4. /\ ToRelease(mig[m]).pc = "release" /\ ToRelease(mig[m]).selected = {}
      /\ ToRelease(mig[m]).before = mig[m].before
    BY <1>2 DEF ToRelease, MigRun
<1>5. /\ ToNextBatch(mig[m]).pc = "select" /\ ToNextBatch(mig[m]).selected = {}
      /\ ToNextBatch(mig[m]).before = mig[m].before
    BY <1>2 DEF ToNextBatch, MigRun
<1>6. /\ ToNextAttempt(mig[m]).pc = "select" /\ ToNextAttempt(mig[m]).selected = {}
      /\ ToNextAttempt(mig[m]).before = mig[m].before
    BY <1>2 DEF ToNextAttempt, MigRun
<1>7. IdleMig.pc = "idle" /\ IdleMig.selected = {} /\ IdleMig.before = 1
    BY DEF IdleMig
<1>a. CASE StartMigration(m)
  <2> DEFINE run == [IdleMig EXCEPT !.pc = "select", !.before = today]
  <2>1. /\ mig' = [mig EXCEPT ![m] = run]
        /\ UNCHANGED <<today, created, rows, daily, main>>
      BY <1>a DEF StartMigration, clock, store
  <2>2. run.pc = "select" /\ run.selected = {} /\ run.before = today
      BY DEF IdleMig
  <2> HIDE DEF run
  <2>3. /\ run.pc \notin {"copy", "commit"} => run.selected = {}
        /\ run.pc = "commit" => run.copied = run.selected
        /\ run.selected \subseteq daily /\ run.before <= today
        /\ \A i \in run.selected : created[rows[i]] < run.before
        /\ \A n \in Migrators : n # m => run.selected \cap mig[n].selected = {}
      BY <1>2, <2>2
  <2> QED BY <2>1, <2>3, RunKeepsMigInv
<1>b. CASE SelectRows(m)
  <2> DEFINE picked == Lowest(Old(mig[m].before), MigrationBatch)
             run == IF picked = {} THEN ToRelease(mig[m])
                    ELSE [mig[m] EXCEPT !.pc = "copy", !.selected = picked]
  <2>1. /\ mig' = [mig EXCEPT ![m] = run]
        /\ picked \cap RowLocks = {}
        /\ UNCHANGED <<today, created, rows, daily, main>>
      BY <1>b DEF SelectRows, clock, store
  <2>2. picked \subseteq daily /\ \A i \in picked : created[rows[i]] < mig[m].before
      BY DEF Lowest, Old
  <2>3. \A n \in Migrators : picked \cap mig[n].selected = {}
      BY <2>1 DEF RowLocks
  <2> HIDE DEF picked
  <2>4. /\ run.pc \notin {"copy", "commit"} => run.selected = {}
        /\ run.pc # "commit" /\ run.selected \subseteq picked
        /\ run.before = mig[m].before
      BY <1>2, <1>4 DEF MigRun
  <2> HIDE DEF run
  <2>5. /\ run.pc \notin {"copy", "commit"} => run.selected = {}
        /\ run.pc = "commit" => run.copied = run.selected
        /\ run.selected \subseteq daily /\ run.before <= today
        /\ \A i \in run.selected : created[rows[i]] < run.before
        /\ \A n \in Migrators : n # m => run.selected \cap mig[n].selected = {}
      BY <1>1, <2>2, <2>3, <2>4
  <2> QED BY <2>1, <2>5, RunKeepsMigInv
<1>c. CASE CopyRows(m)
  <2> DEFINE run == [mig[m] EXCEPT !.pc = "commit", !.copied = mig[m].selected \cap daily]
  <2>1. /\ mig' = [mig EXCEPT ![m] = run]
        /\ UNCHANGED <<today, created, rows, daily, main>>
      BY <1>c DEF CopyRows, clock, store
  <2>2. /\ run.pc = "commit" /\ run.selected = mig[m].selected
        /\ run.copied = run.selected /\ run.before = mig[m].before
      BY <1>1, <1>2 DEF MigRun
  <2> HIDE DEF run
  <2>3. /\ run.pc \notin {"copy", "commit"} => run.selected = {}
        /\ run.pc = "commit" => run.copied = run.selected
        /\ run.selected \subseteq daily /\ run.before <= today
        /\ \A i \in run.selected : created[rows[i]] < run.before
        /\ \A n \in Migrators : n # m => run.selected \cap mig[n].selected = {}
      BY <1>1, <2>2
  <2> QED BY <2>1, <2>3, RunKeepsMigInv
<1>d. CASE CommitBatch(m)
  <2>1. /\ ApplyTransaction(m) /\ mig[m].pc = "commit" /\ UNCHANGED <<today, created>>
        /\ \/ mig' = [mig EXCEPT ![m] = ToRelease(mig[m])]
           \/ mig' = [mig EXCEPT ![m] = ToNextBatch(mig[m])]
      BY <1>d DEF CommitBatch, clock
  <2> QED BY <1>1, <1>4, <1>5, <2>1, CommitKeepsMigInv
<1>e. ASSUME NEW committed \in BOOLEAN, TransactionFails(m, committed)
      PROVE  MigInv'
  <2>1. /\ UNCHANGED <<today, created>>
        /\ \/ mig' = [mig EXCEPT ![m] = ToRelease(mig[m])]
           \/ mig' = [mig EXCEPT ![m] = ToNextAttempt(mig[m])]
      BY <1>e DEF TransactionFails, clock
  <2>2. CASE committed
    <3>1. ApplyTransaction(m) /\ mig[m].pc = "commit"
        BY <1>e, <2>2 DEF TransactionFails
    <3> QED BY <1>1, <1>4, <1>6, <2>1, <3>1, CommitKeepsMigInv
  <2>3. CASE ~committed
    <3>1. UNCHANGED <<rows, daily, main>>
        BY <1>e, <2>3 DEF TransactionFails, store
    <3> QED BY <1>1, <1>4, <1>6, <2>1, <3>1, RunKeepsMigInv
  <2> QED BY <2>2, <2>3
<1>f. CASE Release(m)
  <2>1. /\ mig' = [mig EXCEPT ![m] = IdleMig]
        /\ UNCHANGED <<today, created, rows, daily, main>>
      BY <1>f DEF Release, clock, store
  <2> QED BY <1>3, <1>7, <2>1, RunKeepsMigInv
<1>g. CASE RunAborted(m)
  <2>1. /\ mig' = [mig EXCEPT ![m] = IdleMig]
        /\ UNCHANGED <<today, created, rows, daily, main>>
      BY <1>g DEF RunAborted, clock, store
  <2> QED BY <1>3, <1>7, <2>1, RunKeepsMigInv
<1> QED BY <1>a, <1>b, <1>c, <1>d, <1>e, <1>f, <1>g DEF MigrationStep

(* Every step of the pipeline keeps MigInv.                                *)
LEMMA MigInvStep == TypeOK /\ LogInv /\ MigInv /\ [Next]_vars => MigInv'
<1> SUFFICES ASSUME TypeOK, LogInv, MigInv, [Next]_vars PROVE MigInv'
    OBVIOUS
<1>1. today \in Nat /\ created \in [Logs -> Nat]
    BY DEF TypeOK, Days
<1>2. \A i \in 1..Len(rows) : rows[i] \in Logs /\ created[rows[i]] # 0
  <2>1. \A i \in 1..Len(rows) : rows[i] \in Inserted
      BY RowFacts DEF Inserted, Range
  <2> QED BY <2>1 DEF LogInv, Traceable, Accepted
<1>3. CASE NextDay
  <2>1. today' = today + 1 /\ UNCHANGED <<created, rows, daily, main, mig>>
      BY <1>3 DEF NextDay, store, migration
  <2> QED BY <1>1, <2>1, MigFrame
<1>4. ASSUME NEW l \in Logs, NEW d \in Days, Push(l, d)
      PROVE  MigInv'
  <2>1. /\ created[l] = 0 /\ created' = [created EXCEPT ![l] = d]
        /\ UNCHANGED <<today, rows, daily, main, mig>>
      BY <1>4 DEF Push, store, migration
  <2>2. \A i \in 1..Len(rows) : created'[rows[i]] = created[rows[i]]
      BY <1>1, <1>2, <2>1
  <2> QED BY <1>1, <2>1, <2>2, MigFrame
<1>5. ASSUME UNCHANGED <<today, created, rows, daily, main, mig>>
      PROVE  MigInv'
    BY <1>1, <1>5, MigFrame
<1>6. ASSUME NEW l \in Logs, NEW d \in Days, Enqueue(l, d) \/ EnqueueUnanswered(l, d)
      PROVE  MigInv'
    BY <1>4, <1>6 DEF Enqueue, EnqueueUnanswered
<1>7. ASSUME NEW l \in Logs, EnqueueAgain(l) \/ EnqueueForgotten(l)
      PROVE  MigInv'
    BY <1>5, <1>7 DEF EnqueueAgain, EnqueueForgotten, clock, store, migration
<1>8. ASSUME NEW f \in Flushers, FlushStep(f)
      PROVE  MigInv'
  <2>1. CASE Insert(f)
    <3>1. InsertRows(flush[f].raw) /\ UNCHANGED <<today, created, main, mig>>
        BY <2>1 DEF Insert, clock, migration
    <3> QED BY <3>1, InsertKeepsMigInv
  <2>2. ASSUME NEW stored \in BOOLEAN, InsertFails(f, stored)
        PROVE  MigInv'
    <3>1. CASE stored
      <4>1. InsertRows(flush[f].raw) /\ UNCHANGED <<today, created, main, mig>>
          BY <2>2, <3>1 DEF InsertFails, clock, migration
      <4> QED BY <4>1, InsertKeepsMigInv
    <3>2. CASE ~stored
      <4>1. UNCHANGED <<today, created, rows, daily, main, mig>>
          BY <2>2, <3>2 DEF InsertFails, clock, migration
      <4> QED BY <4>1, <1>5
    <3> QED BY <3>1, <3>2
  <2>3. CASE \/ PopBatch(f) \/ PopAnswerLost(f) \/ Requeue(f)
             \/ RequeueUnanswered(f) \/ BatchDropped(f)
    <3>1. UNCHANGED <<today, created, rows, daily, main, mig>>
        BY <2>3 DEF PopBatch, PopAnswerLost, Requeue, RequeueUnanswered, BatchDropped,
                    clock, store, migration
    <3> QED BY <3>1, <1>5
  <2> QED BY <1>8, <2>1, <2>2, <2>3 DEF FlushStep
<1>9. ASSUME NEW m \in Migrators, MigrationStep(m)
      PROVE  MigInv'
    BY <1>9, MigrationStepKeepsMigInv
<1>10. CASE LockExpires
    BY <1>5, <1>10 DEF LockExpires, clock, store
<1>11. CASE UNCHANGED vars
    BY <1>5, <1>11 DEF vars, clock, store, migration
<1> QED BY <1>3, <1>6, <1>7, <1>8, <1>9, <1>10, <1>11 DEF Next

(* Open transactions of migrateDailyLogsToMain hold disjoint rows of past  *)
(* days, still in the daily table.                                         *)
THEOREM MigInvHolds == Spec => []MigInv
BY TypeCorrect, LogInvHolds, MigInvInit, MigInvStep, PTL DEF Spec

(* No accepted log vanishes: whatever the runs do, it is to be pushed      *)
(* again, in the list, in a run, in one of the tables, or a fault          *)
(* destroyed it.                                                           *)
THEOREM NothingVanishesHolds == Spec => []NothingVanishes
<1>1. TypeOK /\ LogInv /\ MigInv => NothingVanishes
  <2> SUFFICES ASSUME TypeOK, LogInv, MigInv PROVE NothingVanishes
      OBVIOUS
  <2>1. ASSUME NEW i \in DOMAIN rows
        PROVE  rows[i] \in Stored
    <3>1. CASE i \in daily
        BY <3>1 DEF Stored
    <3>2. CASE i \notin daily
      <4>1. PICK r \in main : r[2] = i
          BY <3>2 DEF MigInv, MigratedExactlyOnce
      <4> QED BY <4>1 DEF Stored, Archived
    <3> QED BY <3>1, <3>2
  <2>2. Inserted \subseteq Stored
      BY <2>1 DEF Inserted, Range
  <2> QED BY <2>2 DEF LogInv, Accounted, NothingVanishes
<1> QED BY <1>1, TypeCorrect, LogInvHolds, MigInvHolds, PTL

(* Every row is in one of the two tables, and in the main one once, even   *)
(* when the lock expires under a run and another run migrates beside it.   *)
THEOREM MigratedExactlyOnceHolds == Spec => []MigratedExactlyOnce
<1>1. MigInv => MigratedExactlyOnce
    BY DEF MigInv
<1> QED BY <1>1, MigInvHolds, PTL

(* No row of the current day is ever moved out of reach of the earn check. *)
THEOREM MainHoldsOnlyPastDaysHolds == Spec => []MainHoldsOnlyPastDays
<1>1. MigInv => MainHoldsOnlyPastDays
    BY DEF MigInv, MainOnlyPast, MainHoldsOnlyPastDays, Archived
<1> QED BY <1>1, MigInvHolds, PTL
=============================================================================
