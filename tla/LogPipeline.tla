---------------------------- MODULE LogPipeline ----------------------------
(***************************************************************************)
(* The way of an access log from the tracking endpoint to the main table:  *)
(*                                                                         *)
(*   LPUSH logs_queue --> flushLogsToMysql --> access_logs_daily           *)
(*                    --> migrateDailyLogsToMain --> access_logs           *)
(*                                                                         *)
(* A log is a model value and its occurrences are followed through the     *)
(* Redis list, the arrays the flush runs hold, and the two MySQL tables.   *)
(* Several flush runs and several migration runs are active at once:       *)
(* server instances share Redis and MySQL, and @Interval starts a run      *)
(* whether or not the previous one of the same process has ended.          *)
(*                                                                         *)
(* ioredis reconnects and sends a command again when its reply was lost    *)
(* (maxRetriesPerRequest is null), so a push or a pop may run twice.       *)
(***************************************************************************)
EXTENDS Integers, Sequences, FiniteSets, Functions, RedisList

CONSTANTS
    Logs,            \* the access logs, one per call that enqueues
    Flushers,        \* concurrent runs of flushLogsToMysql
    Migrators,       \* concurrent runs of migrateDailyLogsToMain
    Free,            \* no run: the migration lock is free
    BatchSize,       \* 1000: logs one flush run pops
    MigrationBatch,  \* DAILY_MIGRATION_BATCH_SIZE
    MaxBatches,      \* DAILY_MIGRATION_MAX_BATCHES
    MaxAttempts,     \* 3: the attempts of withRetry
    MaxFaults,       \* bound: faults in a behaviour
    LastDay          \* bound: the last UTC day reached

ASSUME PipelineAssumption ==
    /\ Free \notin Migrators
    /\ BatchSize \in Nat \ {0}
    /\ MigrationBatch \in Nat \ {0}
    /\ MaxBatches \in Nat \ {0}
    /\ MaxAttempts \in Nat \ {0}
    /\ MaxFaults \in Nat
    /\ LastDay \in Nat \ {0}

VARIABLES
    today,     \* the current UTC day, counted from 1
    created,   \* created_at of each log as a UTC day; 0: not enqueued yet
    queue,     \* the Redis list logs_queue, head first
    resend,    \* logs whose push is to be sent again
    flush,     \* the state of each flush run
    rows,      \* rows[i] is the log inserted with id i in access_logs_daily
    daily,     \* the ids still in access_logs_daily
    main,      \* access_logs: <<n, i>>, row i copied by committed transaction n
    commits,   \* migration transactions committed so far
    lock,      \* the key lock:access_logs_daily_migration
    mig,       \* the state of each migration run
    faults,    \* faults so far
    lost,      \* history: logs whose occurrence a fault destroyed
    repeated   \* history: logs an unacknowledged command may have doubled

clock     == <<today, created>>
store     == <<rows, daily, main, commits>>
migration == <<lock, mig>>
history   == <<faults, lost, repeated>>
vars      == <<clock, queue, resend, flush, store, migration, history>>

Lock == INSTANCE RedisLock WITH Runs <- Migrators

Days == 1..LastDay

FlushRun == [pc : {"idle", "insert", "requeue"}, raw : Seq(Logs), attempt : 1..MaxAttempts]

MigRun == [pc : {"idle", "select", "copy", "commit", "release"},
           before : Days, batch : 1..MaxBatches, attempt : 1..MaxAttempts,
           selected : SUBSET (1..Len(rows)), copied : SUBSET (1..Len(rows))]

TypeOK ==
    /\ today \in Days
    /\ created \in [Logs -> Days \cup {0}]
    /\ queue \in Seq(Logs)
    /\ resend \in SUBSET Logs
    /\ flush \in [Flushers -> FlushRun]
    /\ rows \in Seq(Logs)
    /\ daily \in SUBSET (1..Len(rows))
    /\ main \in SUBSET ((1..commits) \X (1..Len(rows)))
    /\ commits \in Nat
    /\ Lock!LockTypeOK
    /\ mig \in [Migrators -> MigRun]
    /\ faults \in 0..MaxFaults
    /\ lost \in SUBSET Logs
    /\ repeated \in SUBSET Logs

IdleFlush == [pc |-> "idle", raw |-> <<>>, attempt |-> 1]

IdleMig == [pc |-> "idle", before |-> 1, batch |-> 1, attempt |-> 1,
            selected |-> {}, copied |-> {}]

Init ==
    /\ today = 1
    /\ created = [l \in Logs |-> 0]
    /\ queue = <<>>
    /\ resend = {}
    /\ flush = [f \in Flushers |-> IdleFlush]
    /\ rows = <<>>
    /\ daily = {}
    /\ main = {}
    /\ commits = 0
    /\ Lock!LockInit
    /\ mig = [m \in Migrators |-> IdleMig]
    /\ faults = 0
    /\ lost = {}
    /\ repeated = {}

Fault ==
    /\ faults < MaxFaults
    /\ faults' = faults + 1

(***************************************************************************)
(* Time and the producers                                                  *)
(***************************************************************************)
NextDay ==
    /\ today < LastDay
    /\ today' = today + 1
    /\ UNCHANGED <<created, queue, resend, flush, store, migration, history>>

(* trackVisit pushes a log to the head.  created_at was read when the      *)
(* request arrived, so midnight may have passed since.                     *)
Push(l, d) ==
    /\ created[l] = 0
    /\ d \in {today - 1, today} \cap Days
    /\ created' = [created EXCEPT ![l] = d]
    /\ queue' = <<l>> \o queue
    /\ UNCHANGED <<today, flush, store, migration>>

Enqueue(l, d) ==
    /\ Push(l, d)
    /\ UNCHANGED <<resend, history>>

(* The push took effect and its answer was lost: the client will send it   *)
(* again, or its process dies before.                                      *)
EnqueueUnanswered(l, d) ==
    /\ Push(l, d)
    /\ Fault
    /\ resend' = resend \cup {l}
    /\ repeated' = repeated \cup {l}
    /\ UNCHANGED lost

EnqueueAgain(l) ==
    /\ l \in resend
    /\ resend' = resend \ {l}
    /\ queue' = <<l>> \o queue
    /\ UNCHANGED <<clock, flush, store, migration, history>>

(* The process dies before it sends the push again. *)
EnqueueForgotten(l) ==
    /\ l \in resend
    /\ Fault
    /\ resend' = resend \ {l}
    /\ lost' = lost \cup {l}
    /\ UNCHANGED <<clock, queue, flush, store, migration, repeated>>

(***************************************************************************)
(* flushLogsToMysql                                                        *)
(***************************************************************************)
(* The Lua script reads the head of the list and trims it in one step.     *)
Popped == PopBatchFromList(queue, BatchSize)
Rest   == Trimmed(queue, BatchSize)

(* A mutant of PopBatch: a run waits for a full batch. *)
PopFullBatch(f) ==
    /\ flush[f].pc = "idle"
    /\ Len(queue) >= BatchSize
    /\ queue' = Rest
    /\ flush' = [flush EXCEPT ![f] = [pc |-> "insert", raw |-> Popped, attempt |-> 1]]
    /\ UNCHANGED <<clock, resend, store, migration, history>>

PopBatch(f) ==
    /\ flush[f].pc = "idle"
    /\ queue # <<>>
    /\ queue' = Rest
    /\ flush' = [flush EXCEPT ![f] = [pc |-> "insert", raw |-> Popped, attempt |-> 1]]
    /\ UNCHANGED <<clock, resend, store, migration, history>>

(* The script ran and its answer never arrived: nobody holds the batch.    *)
(* Whether the run then ends with an error or the client sends the script  *)
(* again, the run is where it was before.                                  *)
PopAnswerLost(f) ==
    /\ flush[f].pc = "idle"
    /\ queue # <<>>
    /\ Fault
    /\ queue' = Rest
    /\ lost' = lost \cup Range(Popped)
    /\ UNCHANGED <<clock, resend, flush, store, migration, repeated>>

(* One INSERT of the whole batch: ids are consecutive. *)
InsertRows(raw) ==
    /\ rows' = rows \o raw
    /\ daily' = daily \cup ((Len(rows) + 1)..(Len(rows) + Len(raw)))

Insert(f) ==
    /\ flush[f].pc = "insert"
    /\ InsertRows(flush[f].raw)
    /\ flush' = [flush EXCEPT ![f] = IdleFlush]
    /\ UNCHANGED <<clock, queue, resend, main, commits, migration, history>>

(* A mutant of AfterFailure: one attempt too many. *)
AfterFailureOneMore(run) == IF run.attempt <= MaxAttempts THEN [run EXCEPT !.attempt = @ + 1]
                            ELSE [run EXCEPT !.pc = "requeue"]

AfterFailure(run) == IF run.attempt < MaxAttempts THEN [run EXCEPT !.attempt = @ + 1]
                     ELSE [run EXCEPT !.pc = "requeue"]

(* An attempt fails; the next one follows, and after the last the batch    *)
(* goes back to the queue.  stored: the server had committed the INSERT    *)
(* and only the answer was lost.                                           *)
InsertFails(f, stored) ==
    /\ flush[f].pc = "insert"
    /\ Fault
    /\ \/ /\ stored
          /\ InsertRows(flush[f].raw)
          /\ repeated' = repeated \cup Range(flush[f].raw)
       \/ /\ ~stored
          /\ UNCHANGED <<rows, daily, repeated>>
    /\ flush' = [flush EXCEPT ![f] = AfterFailure(@)]
    /\ UNCHANGED <<clock, queue, resend, main, commits, migration, lost>>

(* RPUSH of the raw rows. *)
Requeue(f) ==
    /\ flush[f].pc = "requeue"
    /\ queue' = queue \o flush[f].raw
    /\ flush' = [flush EXCEPT ![f] = IdleFlush]
    /\ UNCHANGED <<clock, resend, store, migration, history>>

(* The push took effect without an answer: the run is to send it again.    *)
RequeueUnanswered(f) ==
    /\ flush[f].pc = "requeue"
    /\ Fault
    /\ queue' = queue \o flush[f].raw
    /\ repeated' = repeated \cup Range(flush[f].raw)
    /\ UNCHANGED <<clock, resend, flush, store, migration, lost>>

(* The batch is dropped: RPUSH failed and the error is only logged, or the *)
(* error that ended the attempts says "connection is closed" and the run   *)
(* returns before it requeues, or the process dies with the batch in its   *)
(* memory.                                                                 *)
BatchDropped(f) ==
    /\ flush[f].pc \in {"insert", "requeue"}
    /\ Fault
    /\ lost' = lost \cup Range(flush[f].raw)
    /\ flush' = [flush EXCEPT ![f] = IdleFlush]
    /\ UNCHANGED <<clock, queue, resend, store, migration, repeated>>

(***************************************************************************)
(* migrateDailyLogsToMain, of the worker and of the repository             *)
(***************************************************************************)
StartMigration(m) ==
    /\ mig[m].pc = "idle"
    /\ Lock!Acquire(m)
    /\ mig' = [mig EXCEPT ![m] = [IdleMig EXCEPT !.pc = "select", !.before = today]]
    /\ UNCHANGED <<clock, queue, resend, flush, store, history>>

(* Rows a transaction has locked with SELECT ... FOR UPDATE. *)
RowLocks == UNION {mig[m].selected : m \in Migrators}

(* A mutant of Old: createdAt <= before, midnight itself included. *)
OldOrToday(before) == {i \in daily : created[rows[i]] <= before}

Old(before) == {i \in daily : created[rows[i]] < before}

(* ORDER BY id LIMIT n. *)
Lowest(S, n) == {i \in S : Cardinality({j \in S : j < i}) < n}

(* What becomes of a run when its transaction is over. *)
ToRelease(run) == [run EXCEPT !.pc = "release", !.selected = {}, !.copied = {}]

ToNextBatch(run) == [run EXCEPT !.pc = "select", !.batch = @ + 1, !.attempt = 1,
                                !.selected = {}, !.copied = {}]

ToNextAttempt(run) == [run EXCEPT !.pc = "select", !.attempt = @ + 1,
                                  !.selected = {}, !.copied = {}]

(* A mutant of SelectRows: without FOR UPDATE. *)
SelectRowsUnlocked(m) ==
    LET picked == Lowest(Old(mig[m].before), MigrationBatch)
    IN  /\ mig[m].pc = "select"
        /\ mig' = [mig EXCEPT ![m] = IF picked = {} THEN ToRelease(@)
                                      ELSE [@ EXCEPT !.pc = "copy", !.selected = picked]]
        /\ UNCHANGED <<clock, queue, resend, flush, store, lock, history>>

(* SELECT ... FOR UPDATE waits while another transaction holds one of the  *)
(* rows.  Without rows the transaction commits and the run is over.        *)
SelectRows(m) ==
    LET picked == Lowest(Old(mig[m].before), MigrationBatch)
    IN  /\ mig[m].pc = "select"
        /\ picked \cap RowLocks = {}
        /\ mig' = [mig EXCEPT ![m] = IF picked = {} THEN ToRelease(@)
                                      ELSE [@ EXCEPT !.pc = "copy", !.selected = picked]]
        /\ UNCHANGED <<clock, queue, resend, flush, store, lock, history>>

(* A mutant of CopyRows: nothing is copied before the DELETE. *)
CopyNothing(m) ==
    /\ mig[m].pc = "copy"
    /\ mig' = [mig EXCEPT ![m].pc = "commit"]
    /\ UNCHANGED <<clock, queue, resend, flush, store, lock, history>>

(* INSERT ... SELECT, seen by nobody else before the commit. *)
CopyRows(m) ==
    /\ mig[m].pc = "copy"
    /\ mig' = [mig EXCEPT ![m] = [@ EXCEPT !.pc = "commit",
                                            !.copied = mig[m].selected \cap daily]]
    /\ UNCHANGED <<clock, queue, resend, flush, store, lock, history>>

(* DELETE and COMMIT: both tables change in one step. *)
ApplyTransaction(m) ==
    /\ commits' = commits + 1
    /\ main' = main \cup ({commits + 1} \X mig[m].copied)
    /\ daily' = daily \ mig[m].selected
    /\ UNCHANGED rows

CommitBatch(m) ==
    /\ mig[m].pc = "commit"
    /\ ApplyTransaction(m)
    /\ mig' = [mig EXCEPT ![m] =
                  IF \/ Cardinality(mig[m].selected) < MigrationBatch
                     \/ mig[m].batch = MaxBatches
                    THEN ToRelease(@) ELSE ToNextBatch(@)]
    /\ UNCHANGED <<clock, queue, resend, flush, lock, history>>

(* A statement fails and the transaction is rolled back; withRetry starts  *)
(* another one until the attempts are used up.  committed: COMMIT took     *)
(* effect and only its answer was lost.                                    *)
TransactionFails(m, committed) ==
    /\ mig[m].pc \in {"select", "copy", "commit"}
    /\ Fault
    /\ \/ /\ committed
          /\ mig[m].pc = "commit"
          /\ ApplyTransaction(m)
       \/ /\ ~committed
          /\ UNCHANGED store
    /\ mig' = [mig EXCEPT ![m] = IF mig[m].attempt < MaxAttempts
                                    THEN ToNextAttempt(@) ELSE ToRelease(@)]
    /\ UNCHANGED <<clock, queue, resend, flush, lock, lost, repeated>>

Release(m) ==
    /\ mig[m].pc = "release"
    /\ Lock!ReleaseOwn(m)
    /\ mig' = [mig EXCEPT ![m] = IdleMig]
    /\ UNCHANGED <<clock, queue, resend, flush, store, history>>

(* The release fails, or the process dies at any point of the run: MySQL   *)
(* rolls an open transaction back and the lock stays until it expires.     *)
RunAborted(m) ==
    /\ mig[m].pc # "idle"
    /\ Fault
    /\ mig' = [mig EXCEPT ![m] = IdleMig]
    /\ UNCHANGED <<clock, queue, resend, flush, store, lock, lost, repeated>>

LockExpires ==
    /\ Lock!Expire
    /\ UNCHANGED <<clock, queue, resend, flush, store, mig, history>>

(***************************************************************************)
(* The specification                                                       *)
(***************************************************************************)
FlushStep(f) ==
    \/ PopBatch(f)
    \/ PopAnswerLost(f)
    \/ Insert(f)
    \/ \E stored \in BOOLEAN : InsertFails(f, stored)
    \/ Requeue(f)
    \/ RequeueUnanswered(f)
    \/ BatchDropped(f)

MigrationStep(m) ==
    \/ StartMigration(m)
    \/ SelectRows(m)
    \/ CopyRows(m)
    \/ CommitBatch(m)
    \/ \E committed \in BOOLEAN : TransactionFails(m, committed)
    \/ Release(m)
    \/ RunAborted(m)

Next ==
    \/ NextDay
    \/ \E l \in Logs : \/ \E d \in Days : Enqueue(l, d) \/ EnqueueUnanswered(l, d)
                       \/ EnqueueAgain(l)
                       \/ EnqueueForgotten(l)
    \/ \E f \in Flushers : FlushStep(f)
    \/ \E m \in Migrators : MigrationStep(m)
    \/ LockExpires

Spec == Init /\ [][Next]_vars

(* The client reconnects, the intervals keep firing and the awaits of a    *)
(* run resolve: a run that can take a step takes one.  Days pass, and      *)
(* Redis does expire a key whose time to live is over.  Nothing makes a    *)
(* request arrive, and nothing makes a fault happen.                       *)
Fairness ==
    /\ WF_vars(NextDay)
    /\ WF_vars(LockExpires)
    /\ \A l \in Logs : WF_vars(EnqueueAgain(l))
    /\ \A f \in Flushers : WF_vars(FlushStep(f))
    /\ \A m \in Migrators : WF_vars(MigrationStep(m))

FairSpec == Spec /\ Fairness

(***************************************************************************)
(* Safety                                                                  *)
(***************************************************************************)
Held     == UNION {Range(flush[f].raw) : f \in Flushers}
Archived == {rows[r[2]] : r \in main}
Stored   == {rows[i] : i \in daily} \cup Archived
Accepted == {l \in Logs : created[l] # 0}

(* Every accepted log is somewhere: still to be pushed again, in the list, *)
(* in the hands of a flush run or in MySQL.  Only a fault that destroys    *)
(* the batch a run holds, or a push, may lose it: a failing INSERT, a      *)
(* failing migration or two jobs in each other's way never do.             *)
NothingVanishes == Accepted \subseteq resend \cup Range(queue) \cup Held \cup Stored \cup lost

(* A log gets a second row only when a command that carried it took effect *)
(* without being answered, however the flush runs overlap and however      *)
(* often a batch is requeued.                                              *)
RowsAreUnique == UniqueExcept(rows, repeated)

(* A row is in exactly one of the two tables, and in the main one once:    *)
(* also when the lock expired under a run and two runs migrate together,   *)
(* when a COMMIT is not answered and the batch is tried again, and when a  *)
(* process dies in the middle.                                             *)
MigratedExactlyOnce ==
    \A i \in DOMAIN rows :
        /\ i \in daily <=> \A r \in main : r[2] # i
        /\ \A r, s \in main : r[2] = i /\ s[2] = i => r = s

(* access_logs holds no row of the current day: the earn check of          *)
(* trackVisit (existsTodayInDailyLogs) reads access_logs_daily alone.      *)
MainHoldsOnlyPastDays == \A l \in Archived : created[l] < today

(***************************************************************************)
(* Liveness                                                                *)
(***************************************************************************)
(* Once the faults are over, an accepted log reaches MySQL unless one of   *)
(* them destroyed it: it does not circulate between list and run forever.  *)
LogsReachMySql == \A l \in Logs : l \in Accepted ~> l \in Stored \cup lost

(* A row of a past day reaches the main table, through any number of       *)
(* batches, failed transactions and expired locks.                         *)
OldRowsReachMain ==
    \A l \in Logs : l \in Stored /\ created[l] < LastDay ~> l \in Archived

(***************************************************************************)
(* The pipeline implements the store of access logs                        *)
(***************************************************************************)
Status(l) ==
    CASE created[l] = 0 -> "new"
      [] created[l] # 0 /\ l \in Archived -> "archived"
      [] l \in Stored \ Archived -> "stored"
      [] l \in Accepted \ Stored /\ l \in resend \cup Range(queue) \cup Held -> "pending"
      [] OTHER -> "missing"

AbstractStore == INSTANCE AccessLogStore WITH status <- [l \in Logs |-> Status(l)]

(* Towards a reader of the two tables the whole pipeline is the abstract   *)
(* store: a log only moves forward, and only a fault loses one.            *)
ImplementsAccessLogStore == AbstractStore!Spec
=============================================================================
