----------------------- MODULE LogPipelineRefinement -----------------------
(***************************************************************************)
(* The log pipeline implements the store of access logs, for any number of *)
(* logs, runs, faults and days.                                            *)
(***************************************************************************)
EXTENDS LogPipelineProofs

(* Where a log is that may still become a row.                             *)
Around == resend \cup Range(queue) \cup Held

(* How far a log has got, from the sets it is in.                          *)
Stage(l) ==
    IF l \notin Accepted THEN "new"
    ELSE IF l \in Archived THEN "archived"
    ELSE IF l \in Inserted THEN "stored"
    ELSE IF l \in Around THEN "pending" ELSE "missing"

(* Status is the stage: every row is in one of the tables, and no place    *)
(* has a log that was not accepted.                                        *)
StageInv ==
    /\ Archived \subseteq Inserted
    /\ Around \cup Inserted \subseteq Accepted
    /\ \A l \in Logs : Status(l) = Stage(l)

(* The invariants of the pipeline say where a log can be.                  *)
LEMMA StageInvHolds == Spec => []StageInv
<1>1. TypeOK /\ LogInv /\ MigInv => StageInv
    <2> SUFFICES ASSUME TypeOK, LogInv, MigInv PROVE StageInv
        OBVIOUS
    <2>1. ASSUME NEW i \in DOMAIN rows
          PROVE  rows[i] \in Stored
        <3>1. CASE i \in daily
            BY <3>1 DEF Stored
        <3>2. CASE i \notin daily
            <4>1. PICK r \in main : r[2] = i
                BY <3>2 DEF MigInv, MigratedExactlyOnce
            <4> QED BY <4>1 DEF Stored, Archived
        <3> QED BY <3>1, <3>2
    <2>2. Inserted \subseteq Stored
        BY <2>1 DEF Inserted, Range
    <2>3. \A i \in daily : rows[i] \in Inserted
        BY RowFacts DEF Inserted, Range
    <2>4. \A r \in main : rows[r[2]] \in Inserted
        BY RowFacts DEF Inserted, Range
    <2>5. Stored = Inserted /\ Archived \subseteq Inserted
        BY <2>2, <2>3, <2>4 DEF Stored, Archived
    <2>6. Held \subseteq Accepted
        BY DEF LogInv, Traceable, Held, Raw
    <2>7. Around \cup Inserted \subseteq Accepted
        BY <2>6 DEF LogInv, Traceable, Around
    <2>8. ASSUME NEW l \in Logs
          PROVE  Status(l) = Stage(l)
        <3>1. created[l] = 0 <=> l \notin Accepted
            BY DEF Accepted
        <3> QED BY <2>5, <2>7, <3>1 DEF Status, Stage, Around
    <2> QED BY <2>5, <2>7, <2>8 DEF StageInv
<1> QED BY <1>1, TypeCorrect, LogInvHolds, MigInvHolds, PTL

(***************************************************************************)
(* The steps, as far as the store is concerned                             *)
(***************************************************************************)
Answered == faults' \in {faults, faults + 1}

Quiet ==
    /\ Accepted' = Accepted /\ Inserted' = Inserted /\ Archived' = Archived
    /\ Around' = Around
    /\ Answered

Accepts(l) ==
    /\ l \notin Accepted /\ Accepted' = Accepted \cup {l}
    /\ Inserted' = Inserted /\ Archived' = Archived
    /\ Around' = Around \cup {l}
    /\ Answered

Stores(B) ==
    /\ Accepted' = Accepted /\ Archived' = Archived
    /\ B \subseteq Around /\ Inserted' = Inserted \cup B
    /\ Around' \subseteq Around /\ Around \subseteq Around' \cup B
    /\ Answered

Archives(B) ==
    /\ Accepted' = Accepted /\ Inserted' = Inserted /\ Around' = Around
    /\ B \subseteq Inserted /\ Archived' = Archived \cup B
    /\ Answered

Loses ==
    /\ Accepted' = Accepted /\ Inserted' = Inserted /\ Archived' = Archived
    /\ Around' \subseteq Around
    /\ faults' = faults + 1

(* A set of logs moves from one stage to another.                          *)
LEMMA Moved ==
    ASSUME StageInv, StageInv', NEW S \in SUBSET Logs, NEW from, NEW to,
           \A l \in S : Stage(l) = from,
           \A l \in Logs : Stage(l)' = IF l \in S THEN to ELSE Stage(l)
    PROVE  AbstractStore!Move(S, from, to)
<1>1. \A l \in Logs : Status(l) = Stage(l) /\ Status(l)' = Stage(l)'
    BY DEF StageInv
<1>2. \A l \in S : Status(l) = from
    BY <1>1
<1>3. \A l \in Logs : Status(l)' = IF l \in S THEN to ELSE Status(l)
    BY <1>1
<1> QED BY <1>2, <1>3 DEF AbstractStore!Move

(* Each kind of step is a step of the store.  Quiet: Store, of no log.     *)
LEMMA QuietIsAbstract ==
    ASSUME StageInv, StageInv', Quiet
    PROVE  AbstractStore!Next
<1>1. \A l \in Logs : Stage(l)' = Stage(l)
    BY DEF Quiet, Stage
<1>2. AbstractStore!Move({}, "pending", "stored")
    BY <1>1, Moved
<1> QED BY <1>2 DEF AbstractStore!Next, AbstractStore!Store, Quiet, Answered

(* A log is accepted: Accept.                                              *)
LEMMA AcceptsIsAbstract ==
    ASSUME StageInv, StageInv', NEW l \in Logs, Accepts(l)
    PROVE  AbstractStore!Next
<1>1. l \notin Inserted /\ l \notin Archived /\ l \notin Around
    BY DEF StageInv, Accepts
<1>2. Stage(l) = "new" /\ Stage(l)' = "pending"
    BY <1>1 DEF Accepts, Stage
<1>3. \A k \in Logs \ {l} : Stage(k)' = Stage(k)
    BY DEF Accepts, Stage
<1>4. AbstractStore!Move({l}, "new", "pending")
    BY <1>2, <1>3, Moved
<1> QED BY <1>4 DEF AbstractStore!Next, AbstractStore!Accept, Accepts, Answered

(* A batch is inserted: Store, of those of its logs that had no row yet.   *)
LEMMA StoresIsAbstract ==
    ASSUME StageInv, StageInv', NEW B \in SUBSET Logs, Stores(B)
    PROVE  AbstractStore!Next
<1> DEFINE S == B \ Inserted
<1>1. ASSUME NEW l \in S
      PROVE  Stage(l) = "pending" /\ Stage(l)' = "stored"
    BY <1>1 DEF Stores, StageInv, Stage
<1>2. ASSUME NEW l \in Logs \ S
      PROVE  Stage(l)' = Stage(l)
    BY <1>2 DEF Stores, StageInv, Stage
<1> HIDE DEF S
<1>3. S \in SUBSET Logs
    BY DEF S
<1>4. AbstractStore!Move(S, "pending", "stored")
    BY <1>1, <1>2, <1>3, Moved
<1> QED BY <1>3, <1>4 DEF AbstractStore!Next, AbstractStore!Store, Stores, Answered

(* A batch is migrated: Archive, of those of its logs not yet migrated.    *)
LEMMA ArchivesIsAbstract ==
    ASSUME StageInv, StageInv', NEW B \in SUBSET Logs, Archives(B)
    PROVE  AbstractStore!Next
<1> DEFINE S == B \ Archived
<1>1. ASSUME NEW l \in S
      PROVE  Stage(l) = "stored" /\ Stage(l)' = "archived"
    BY <1>1 DEF Archives, StageInv, Stage
<1>2. ASSUME NEW l \in Logs \ S
      PROVE  Stage(l)' = Stage(l)
    BY <1>2 DEF Archives, StageInv, Stage
<1> HIDE DEF S
<1>3. S \in SUBSET Logs
    BY DEF S
<1>4. AbstractStore!Move(S, "stored", "archived")
    BY <1>1, <1>2, <1>3, Moved
<1> QED BY <1>3, <1>4 DEF AbstractStore!Next, AbstractStore!Archive, Archives, Answered

(* Logs get lost in a fault: Lose.                                         *)
LEMMA LosesIsAbstract ==
    ASSUME StageInv, StageInv', Loses
    PROVE  AbstractStore!Next
<1> DEFINE S == {l \in Logs : l \in Around /\ l \notin Around' /\ l \notin Inserted}
<1>1. ASSUME NEW l \in S
      PROVE  Stage(l) = "pending" /\ Stage(l)' = "missing"
    BY <1>1 DEF Loses, StageInv, Stage
<1>2. ASSUME NEW l \in Logs \ S
      PROVE  Stage(l)' = Stage(l)
    BY <1>2 DEF Loses, StageInv, Stage
<1>3. S \in SUBSET Logs
    OBVIOUS
<1> HIDE DEF S
<1>4. AbstractStore!Move(S, "pending", "missing")
    BY <1>1, <1>2, <1>3, Moved
<1> QED BY <1>3, <1>4 DEF AbstractStore!Next, AbstractStore!Lose, Loses

(***************************************************************************)
(* What the steps do to the sets                                           *)
(***************************************************************************)
(* A step of one run changes what that run holds.                          *)
LEMMA HeldSplits ==
    ASSUME TypeOK, NEW f \in Flushers, NEW run, flush' = [flush EXCEPT ![f] = run]
    PROVE  \E Others : Held = Others \cup Raw(f) /\ Held' = Others \cup Range(run.raw)
<1> DEFINE Others == UNION {Raw(g) : g \in Flushers \ {f}}
<1>1. /\ flush'[f] = run
      /\ \A g \in Flushers \ {f} : flush'[g] = flush[g]
    BY DEF TypeOK
<1>2. Held = Others \cup Raw(f)
    BY DEF Held, Raw
<1>3. Held' = Others \cup Range(run.raw)
    <2>1. Held' = UNION {Range(flush'[g].raw) : g \in Flushers}
        BY DEF Held
    <2>2. \A g \in Flushers \ {f} : Raw(g) = Range(flush'[g].raw)
        BY <1>1 DEF Raw
    <2>3. Range(flush'[f].raw) = Range(run.raw)
        BY <1>1
    <2>4. \A x : x \in Held' <=> \E g \in Flushers : x \in Range(flush'[g].raw)
        BY <2>1
    <2>5. \A x : x \in Others <=> \E g \in Flushers \ {f} : x \in Range(flush'[g].raw)
        BY <2>2
    <2> HIDE DEF Others
    <2> QED BY <2>3, <2>4, <2>5
<1> QED BY <1>2, <1>3

(* What depends on the tables and on the days of the logs alone.           *)
LEMMA TablesSame ==
    /\ UNCHANGED created => Accepted' = Accepted
    /\ UNCHANGED rows => Inserted' = Inserted
    /\ UNCHANGED <<rows, main>> => Archived' = Archived
    /\ UNCHANGED flush => Held' = Held
BY DEF Accepted, Inserted, Archived, Held

(* A push puts its log at the head of the list.                            *)
LEMMA PushAround ==
    ASSUME TypeOK, NEW l \in Logs, queue' = <<l>> \o queue, UNCHANGED flush
    PROVE  Range(queue') = {l} \cup Range(queue) /\ Held' = Held
<1>1. queue \in Seq(Logs) /\ <<l>> \in Seq(Logs)
    BY DEF TypeOK
<1>2. Range(<<l>> \o queue) = Range(<<l>>) \cup Range(queue)
    BY <1>1, RangeConcatenation
<1> QED BY <1>2, OneElementList, TablesSame

(* The steps of a request.                                                 *)
LEMMA EnqueueStore ==
    ASSUME TypeOK, NEW l \in Logs,
           \/ \E d \in Days : Enqueue(l, d) \/ EnqueueUnanswered(l, d)
           \/ EnqueueAgain(l)
           \/ EnqueueForgotten(l)
    PROVE  Accepts(l) \/ Quiet \/ Loses
<1>1. ASSUME NEW d \in Days, Enqueue(l, d) \/ EnqueueUnanswered(l, d)
      PROVE  Accepts(l)
    <2>1. /\ created[l] = 0 /\ created' = [created EXCEPT ![l] = d]
          /\ queue' = <<l>> \o queue /\ UNCHANGED <<flush, rows, main>>
        BY <1>1 DEF Enqueue, EnqueueUnanswered, Push, store
    <2>2. Answered
        BY <1>1 DEF Enqueue, EnqueueUnanswered, Answered, history, Fault
    <2>3. resend' \subseteq resend \cup {l} /\ resend \subseteq resend'
        BY <1>1 DEF Enqueue, EnqueueUnanswered
    <2>4. d # 0
        BY DEF Days
    <2>5. l \notin Accepted /\ Accepted' = Accepted \cup {l}
        BY <2>1, <2>4 DEF Accepted, TypeOK
    <2> QED BY <2>1, <2>2, <2>3, <2>5, PushAround, TablesSame DEF Accepts, Around
<1>2. CASE EnqueueAgain(l)
    <2>1. /\ l \in resend /\ resend' = resend \ {l} /\ queue' = <<l>> \o queue
          /\ UNCHANGED <<created, flush, rows, main>> /\ Answered
        BY <1>2 DEF EnqueueAgain, clock, store, history, Answered
    <2>2. Around' = Around
        BY <2>1, PushAround DEF Around
    <2> QED BY <2>1, <2>2, TablesSame DEF Quiet
<1>3. CASE EnqueueForgotten(l)
    <2>1. /\ resend' = resend \ {l} /\ queue' = queue
          /\ UNCHANGED <<created, flush, rows, main>> /\ faults' = faults + 1
        BY <1>3 DEF EnqueueForgotten, clock, store, Fault
    <2>2. Around' \subseteq Around
        BY <2>1, TablesSame DEF Around
    <2> QED BY <2>1, <2>2, TablesSame DEF Loses
<1> QED BY <1>1, <1>2, <1>3

(* The steps of a flush run.                                               *)
LEMMA FlushStore ==
    ASSUME TypeOK, LogInv, NEW f \in Flushers, FlushStep(f)
    PROVE  Quiet \/ Loses \/ Stores(Raw(f))
<1>0. /\ queue \in Seq(Logs) /\ flush[f].raw \in Seq(Logs) /\ rows \in Seq(Logs)
      /\ BatchSize \in Nat \ {0}
    BY PipelineAssumption DEF TypeOK, FlushRun
<1>1. Range(queue) = Range(Popped) \cup Range(Rest)
  <2>1. /\ PopBatchFromList(queue, BatchSize) \in Seq(Logs) /\ Trimmed(queue, BatchSize) \in Seq(Logs)
        /\ Range(queue) = Range(PopBatchFromList(queue, BatchSize)) \cup Range(Trimmed(queue, BatchSize))
      BY <1>0, PopSplits
  <2> QED BY <2>1 DEF Popped, Rest
<1>2. flush[f].pc = "idle" => Raw(f) = {}
    BY EmptyList DEF LogInv, IdleHoldsNothing, Raw
<1>3. Range(IdleFlush.raw) = {}
    BY EmptyList DEF IdleFlush
<1>4. Raw(f) = Range(flush[f].raw) /\ Raw(f) \subseteq Held
    BY DEF Raw, Held
<1>5. ASSUME InsertRows(flush[f].raw), UNCHANGED <<created, main>>
      PROVE  Inserted' = Inserted \cup Raw(f) /\ Accepted' = Accepted /\ Archived' = Archived
    <2>1. rows' = rows \o flush[f].raw
        BY <1>5 DEF InsertRows
    <2>2. Range(rows') = Range(rows) \cup Range(flush[f].raw)
        BY <1>0, <2>1, RangeConcatenation
    <2>3. \A r \in main : rows'[r[2]] = rows[r[2]]
        BY <1>0, <2>1, RowFacts
    <2>4. Archived' = Archived
        BY <1>5, <2>3 DEF Archived
    <2> QED BY <1>4, <1>5, <2>2, <2>4, TablesSame DEF Inserted
<1>6. Range(queue \o flush[f].raw) = Range(queue) \cup Raw(f)
    BY <1>0, <1>4, RangeConcatenation
<1>a. CASE PopBatch(f)
    <2> DEFINE run == [pc |-> "insert", raw |-> Popped, attempt |-> 1]
    <2>1. /\ flush[f].pc = "idle" /\ queue' = Rest /\ flush' = [flush EXCEPT ![f] = run]
          /\ UNCHANGED <<created, resend, rows, main, faults>>
        BY <1>a DEF PopBatch, clock, store, history
    <2>2. run.raw = Popped
        OBVIOUS
    <2> HIDE DEF run
    <2>3. PICK Others : Held = Others \cup Raw(f) /\ Held' = Others \cup Range(run.raw)
        BY <2>1, HeldSplits
    <2>4. Around' = Around
        BY <1>1, <1>2, <2>1, <2>2, <2>3 DEF Around
    <2> QED BY <2>1, <2>4, TablesSame DEF Quiet, Answered
<1>b. CASE PopAnswerLost(f)
    <2>1. /\ queue' = Rest /\ faults' = faults + 1
          /\ UNCHANGED <<created, resend, flush, rows, main>>
        BY <1>b DEF PopAnswerLost, clock, store, Fault
    <2>2. Around' \subseteq Around
        BY <1>1, <2>1, TablesSame DEF Around
    <2> QED BY <2>1, <2>2, TablesSame DEF Loses
<1>c. CASE Insert(f)
    <2>1. /\ InsertRows(flush[f].raw) /\ flush' = [flush EXCEPT ![f] = IdleFlush]
          /\ UNCHANGED <<created, queue, resend, main, faults>>
        BY <1>c DEF Insert, clock, history
    <2>2. PICK Others : Held = Others \cup Raw(f) /\ Held' = Others \cup Range(IdleFlush.raw)
        BY <2>1, HeldSplits
    <2>3. /\ Raw(f) \subseteq Around /\ Around' \subseteq Around
          /\ Around \subseteq Around' \cup Raw(f)
        BY <1>3, <1>4, <2>1, <2>2 DEF Around
    <2> QED BY <1>5, <2>1, <2>3 DEF Stores, Answered
<1>d. ASSUME NEW stored \in BOOLEAN, InsertFails(f, stored)
      PROVE  Quiet \/ Stores(Raw(f))
    <2> DEFINE run == AfterFailure(flush[f])
    <2>1. /\ flush' = [flush EXCEPT ![f] = run] /\ faults' = faults + 1
          /\ UNCHANGED <<created, queue, resend, main>>
        BY <1>d DEF InsertFails, clock, Fault
    <2>2. run.raw = flush[f].raw
        <3>1. flush[f] \in FlushRun
            BY DEF TypeOK
        <3> QED BY <3>1 DEF AfterFailure, FlushRun
    <2> HIDE DEF run
    <2>3. PICK Others : Held = Others \cup Raw(f) /\ Held' = Others \cup Range(run.raw)
        BY <2>1, HeldSplits
    <2>4. Around' = Around /\ Raw(f) \subseteq Around
        BY <1>4, <2>1, <2>2, <2>3 DEF Around
    <2>5. CASE InsertRows(flush[f].raw)
        BY <1>5, <2>1, <2>4, <2>5 DEF Stores, Answered
    <2>6. CASE UNCHANGED rows
        BY <2>1, <2>4, <2>6, TablesSame DEF Quiet, Answered
    <2> QED BY <1>d, <2>5, <2>6 DEF InsertFails
<1>e. CASE Requeue(f)
    <2>1. /\ queue' = queue \o flush[f].raw /\ flush' = [flush EXCEPT ![f] = IdleFlush]
          /\ UNCHANGED <<created, resend, rows, main, faults>>
        BY <1>e DEF Requeue, clock, store, history
    <2>2. PICK Others : Held = Others \cup Raw(f) /\ Held' = Others \cup Range(IdleFlush.raw)
        BY <2>1, HeldSplits
    <2>3. Around' = Around
        BY <1>3, <1>6, <2>1, <2>2 DEF Around
    <2> QED BY <2>1, <2>3, TablesSame DEF Quiet, Answered
<1>f. CASE RequeueUnanswered(f)
    <2>1. /\ queue' = queue \o flush[f].raw /\ faults' = faults + 1
          /\ UNCHANGED <<created, resend, flush, rows, main>>
        BY <1>f DEF RequeueUnanswered, clock, store, Fault
    <2>2. Around' = Around
        BY <1>4, <1>6, <2>1, TablesSame DEF Around
    <2> QED BY <2>1, <2>2, TablesSame DEF Quiet, Answered
<1>g. CASE BatchDropped(f)
    <2>1. /\ flush' = [flush EXCEPT ![f] = IdleFlush] /\ faults' = faults + 1
          /\ UNCHANGED <<created, queue, resend, rows, main>>
        BY <1>g DEF BatchDropped, clock, store, Fault
    <2>2. PICK Others : Held = Others \cup Raw(f) /\ Held' = Others \cup Range(IdleFlush.raw)
        BY <2>1, HeldSplits
    <2>3. Around' \subseteq Around
        BY <1>3, <2>1, <2>2 DEF Around
    <2> QED BY <2>1, <2>3, TablesSame DEF Loses
<1> QED BY <1>a, <1>b, <1>c, <1>d, <1>e, <1>f, <1>g DEF FlushStep

(* The steps of a migration run.                                           *)
LEMMA MigrationStore ==
    ASSUME TypeOK, MigInv, NEW m \in Migrators, MigrationStep(m)
    PROVE  Quiet \/ \E B \in SUBSET Logs : Archives(B)
<1>1. /\ UNCHANGED <<created, queue, resend, flush>> /\ Answered
    BY DEF MigrationStep, StartMigration, SelectRows, CopyRows, CommitBatch, TransactionFails,
           Release, RunAborted, clock, history, Answered, Fault
<1>2. Accepted' = Accepted /\ Around' = Around
    BY <1>1, TablesSame DEF Around
<1>3. CASE ApplyTransaction(m) /\ mig[m].pc = "commit"
    <2> DEFINE B == {rows[i] : i \in mig[m].copied}
    <2>1. /\ rows' = rows /\ main' = main \cup ({commits + 1} \X mig[m].copied)
        BY <1>3 DEF ApplyTransaction
    <2>2. mig[m].copied \subseteq 1..Len(rows)
        BY RowFacts, MigRunType
    <2>3. B \subseteq Inserted /\ B \subseteq Logs
        BY <2>2, RowFacts DEF Inserted, Range
    <2>4. Archived' = Archived \cup B
        <3>1. Archived' = {rows[r[2]] : r \in main'}
            BY <2>1 DEF Archived
        <3>2. \A r \in {commits + 1} \X mig[m].copied : r[2] \in mig[m].copied
            OBVIOUS
        <3>3. \A i \in mig[m].copied : <<commits + 1, i>> \in main' /\ <<commits + 1, i>>[2] = i
            BY <2>1
        <3>4. B \subseteq Archived'
            BY <3>1, <3>3
        <3>5. Archived \subseteq Archived'
            BY <2>1, <3>1 DEF Archived
        <3>6. Archived' \subseteq Archived \cup B
            BY <2>1, <3>1, <3>2 DEF Archived
        <3> QED BY <3>4, <3>5, <3>6
    <2>5. Inserted' = Inserted
        BY <2>1, TablesSame
    <2> HIDE DEF B
    <2> QED BY <1>1, <1>2, <2>3, <2>4, <2>5 DEF Archives
<1>4. CASE UNCHANGED <<rows, main>>
    BY <1>1, <1>2, <1>4, TablesSame DEF Quiet
<1>5. (ApplyTransaction(m) /\ mig[m].pc = "commit") \/ UNCHANGED <<rows, main>>
    BY DEF MigrationStep, StartMigration, SelectRows, CopyRows, CommitBatch, TransactionFails,
           Release, RunAborted, store
<1> QED BY <1>3, <1>4, <1>5

(* Every step is a step of the store, or leaves it as it is.               *)
LEMMA StepIsAbstract ==
    TypeOK /\ LogInv /\ MigInv /\ StageInv /\ StageInv' /\ [Next]_vars
        => [AbstractStore!Next]_<<[l \in Logs |-> Status(l)], faults>>
<1> SUFFICES ASSUME TypeOK, LogInv, MigInv, StageInv, StageInv', [Next]_vars
             PROVE  [AbstractStore!Next]_<<[l \in Logs |-> Status(l)], faults>>
    OBVIOUS
<1>1. ASSUME NEW l \in Logs, Accepts(l) \/ Quiet \/ Loses
      PROVE  AbstractStore!Next
    BY <1>1, AcceptsIsAbstract, QuietIsAbstract, LosesIsAbstract
<1>2. ASSUME NEW l \in Logs,
             \/ \E d \in Days : Enqueue(l, d) \/ EnqueueUnanswered(l, d)
             \/ EnqueueAgain(l)
             \/ EnqueueForgotten(l)
      PROVE  AbstractStore!Next
    BY <1>1, <1>2, EnqueueStore
<1>3. ASSUME NEW f \in Flushers, FlushStep(f)
      PROVE  AbstractStore!Next
    <2>1. Raw(f) \in SUBSET Logs
        BY DEF LogInv, Traceable, Accepted
    <2> QED BY <1>3, <2>1, FlushStore, QuietIsAbstract, LosesIsAbstract, StoresIsAbstract
<1>4. ASSUME NEW m \in Migrators, MigrationStep(m)
      PROVE  AbstractStore!Next
    BY <1>4, MigrationStore, QuietIsAbstract, ArchivesIsAbstract
<1>5. CASE NextDay \/ LockExpires \/ UNCHANGED vars
    <2>1. UNCHANGED <<created, queue, resend, flush, rows, main, faults>>
        BY <1>5 DEF NextDay, LockExpires, vars, clock, store, history
    <2>2. Quiet
        BY <2>1, TablesSame DEF Quiet, Around, Answered
    <2> QED BY <2>2, QuietIsAbstract
<1> QED BY <1>2, <1>3, <1>4, <1>5 DEF Next

(***************************************************************************)
(* The refinement                                                          *)
(***************************************************************************)
(* Towards a reader of the two tables the flush and the migration of       *)
(* tracking.worker.ts are the abstract store: a log only moves forward,    *)
(* and only a fault loses one, whatever runs overlap or die.               *)
THEOREM ImplementsAccessLogStoreHolds == Spec => ImplementsAccessLogStore
<1>1. Init /\ StageInv => AbstractStore!Init
  <2> SUFFICES ASSUME Init, StageInv
               PROVE  AbstractStore!Init
      OBVIOUS
  <2>1. Accepted = {}
      BY DEF Init, Accepted
  <2>2. \A l \in Logs : Status(l) = "new"
      BY <2>1 DEF StageInv, Stage
  <2>3. faults = 0
      BY DEF Init
  <2> QED BY <2>2, <2>3 DEF AbstractStore!Init
<1>2. TypeOK /\ LogInv /\ MigInv /\ StageInv /\ StageInv' /\ [Next]_vars
          => [AbstractStore!Next]_<<[l \in Logs |-> Status(l)], faults>>
    BY StepIsAbstract
<1> QED BY <1>1, <1>2, TypeCorrect, LogInvHolds, MigInvHolds, StageInvHolds, PTL
        DEF Spec, ImplementsAccessLogStore, AbstractStore!Spec
=============================================================================
