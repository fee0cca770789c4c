# TLA+ specifications of the tracking server

The NestJS server under `src/` counts visits to monetised links. A visit is
accepted or refused by a request handler, counted in Redis, logged through a
Redis list into MySQL, and three interval jobs move the results on: one to a
daily table, one to the main table, one to a Laravel application. Accesses to
notes take a shorter way, through a list of their own into a table, the balances
of users and the statistics of links. Short links are redirected by rules, links
are cached behind a version, and two query services read the tables. Most of what
can go wrong lies between those parts: a job that runs twice, a command that took
effect without an answer, a lock that expires, a day or a minute that ends, a
cache entry of another generation, a page and a total that do not fit.
This project models those parts in TLA+, checks them with TLC and proves the
most important results with TLAPS.

## The system

| part | state it keeps | operations | what makes it hard |
| --- | --- | --- | --- |
| `TrackingService.trackVisit` | dedupe keys, minute hashes, `logs_queue` (Redis); link cache | validate, look up the link, `SET NX`, earn check in MySQL, fake roll, count, `LPUSH` | concurrent requests; every step is an await; midnight and the end of the minute in between |
| `TrackingWorker.flushLogsToMysql` (1.5 s) | the batch in its memory | pop 1000, `INSERT`, three attempts, requeue | overlapping runs, ambiguous failures, crash between pop and insert |
| `TrackingWorker.migrateDailyLogsToMain` (60 s) | lock `lock:access_logs_daily_migration`, an open transaction | lock, `SELECT FOR UPDATE`, `INSERT SELECT`, `DELETE`, commit, unlock | lock expiry, lost commit answers, rollback, midnight |
| `TrackingWorker.aggregateAndSyncStats` (60 s) | lock `lock:stats_aggregation`, a payload | lock, `SCAN`, `HGETALL`, `POST`, `DEL`, unlock | visits counting meanwhile, retried posts, lock expiry, partial answers |
| `TrackingRepository` | tables `access_logs_daily`, `access_logs`, `user_agents` | insert, earn check, migration, statistics queries | two tables united while rows move |
| link detail cache (`TrackingService`) and link and level caches (`StuService`) | versioned Redis keys, the version held by each process for 30 s | look up, ask Laravel or MySQL, store | processes with different versions; a version that changes between two keys of one request |
| note access pipeline (`NoteAccessController`, `NoteAccessService`, `NoteAccessLogWorker`) | `note_access_logs` (Redis), the table `note_access_logs`, `users` and `note_links` in another database | push, pop, insert, add to balances and statistics | three writes without a transaction, no lock, no requeue; a request nobody awaits |
| user agents | table `user_agents`, marks `ua:known:{hash}` | mark, `INSERT IGNORE` | the mark is set before the row; SMALLINT ids |
| rules of short links (`StuService`) | none | choose a redirect rule | priorities, strategies, empty conditions |
| statistics query, note access query | none | resolve period, fields, groups, order, conditions, page; two statements | rows move and arrive between the statements and between pages; zone of the process |

They interact through Redis and MySQL only: `trackVisit` writes the list that the
flush pops and the hashes that the sync reads; its earn check reads the table
that the flush fills and the migration empties; both query services read what the flushes
and the migration write; visits and note accesses share the table of user agents;
the two link caches share one version. Requests, jobs and server
instances are all concurrent to each other. `@Interval` does not wait for the
previous run, so two runs of one job can be active even in one process.

What makes each part correct:

* log pipeline: no accepted log is lost or doubled except by a fault that has no
  remedy in the code; a row is migrated exactly once; the main table holds past
  days only; logs and old rows do not get stuck;
* statistics: no count is lost, none is added twice, and views, link revenue and
  user revenue stay consistent; past minutes do get synced;
* visits: at most one paid visit per link, address and day, with either guard
  failing; nobody is refused without reason;
* notes: one access a day earns; no pushed access vanishes; balances and statistics
  are those of the rows; user agents of logs have rows;
* caches: an invalidation is seen by every process within the time for which a
  version is held; what is cached under a version is not older than the version;
* queries: an accepted request is a legal statement about the period asked for,
  page and total fit, and turning the pages yields every row once;
* rules and rates: the rule chosen is one no other beats; a visit is paid by the
  rate of its country, from the cache as from Laravel.

## The modules

| module | models | state and actions |
| --- | --- | --- |
| `RedisLock` | `acquireLock`, `releaseLock`, the time to live | `lock`; `Acquire`, `ReleaseOwn`, `Expire`; used by both locked jobs |
| `RedisList` | `popBatchFromList` | operators on sequences |
| `LogPipeline` | `logs_queue` to `access_logs`: enqueue, flush, migrate | `queue`, `flush[f]`, `rows`/`daily`, `main`, `mig[m]`; one action per await and per failure |
| `AccessLogStore` | what the pipeline promises | `status[l]` moves new, pending, stored, archived; or missing |
| `StatsSync` | the counting of visits and `aggregateAndSyncStats` | `stat[m]`, `sync[r]`, `credited`; one action per Redis command, post and failure |
| `TrackVisit` | `trackVisit`: who is paid | `visit[v]`, `keys`, `daily`; one action per await |
| `NoteAmounts` | `toScaledInt`, `fromScaledInt` | operators on decimal texts, against their exact value |
| `UserAgents` | `ensureUserAgentCached`, `ensureUserAgent` | `agents`, `nextId`, `known`, `seen[v]` |
| `NotePipeline` | note accesses, from the request to the balances; composes the two above | `access[a]`, `marks`, `queue`, `run[r]`, `rows`, `balance`, `linkStats` |
| `VersionedCache` | `getCacheVersion` | `version`, `held[i]`, `reader[r]`; edits and invalidations of the application |
| `LinkDetailCache`, `StuCache` | `getLinkByAlias`; `getLinkWithAutoLevel`, `findLevelCached` | `detail[v]`; `stu[v]`, `levels[v]` |
| `LinkCaches` | the two caches behind one version | `service` |
| `SqlReads` | what the queries use of MySQL | comparisons, pages, legal statements |
| `StatsQuery` | `queryStats` and the statements of the repository | operators: from a request to the lines of its answer |
| `NoteQuery` | `findAll` of the note accesses | the same |
| `StuRules`, `VisitRate` | rule matching; device, country, rates of a visit | operators |
| `ReadRequests` | the four above, with logs that are flushed and migrated meanwhile | `place[log]`, `call`, `zone` |
| `LogPipelineProofs`, `LogPipelineRefinement`, `StatsSyncProofs`, `TrackVisitProofs`, `SumProofs`, `NotePipelineProofs`, `LinkCachesProofs`, `ReadRequestsProofs` | the theorems | |
| `MC...` | small instances | symmetry sets and values of constants |

**LogPipeline.** A log is a model value. A row is an index into `rows` (its
auto-increment id); `daily` holds the ids in `access_logs_daily`, `main` the pairs
of a committed migration transaction and the id it copied, so that a row copied
twice is visible. `flush[f]` is a run of `flushLogsToMysql` (`pc`, the batch `raw`,
the attempt of `withRetry`), `mig[m]` one of `migrateDailyLogsToMain` with its open
transaction; row locks are the rows selected by open transactions. An INSERT or a
COMMIT may fail with or without effect (`InsertFails`, `TransactionFails`), a pop
or a push may be sent again by the Redis client, which is configured never to
give up (`PopAnswerLost`, `EnqueueUnanswered`, `RequeueUnanswered`), a batch is
dropped when the process dies, when the requeue fails, or when the error reads
"connection is closed" (`BatchDropped`), and a run may die anywhere (`RunAborted`).

**StatsSync.** A counter is the set of increments it sums, so that every increment
can be followed to Laravel, whose totals are `credited`. A visit takes its minute
when the request arrives and makes its three increments later, one command at a
time. A sync run scans, reads the clock, reads the hashes, posts and deletes. A
payload leaves out the revenue of links without views, as `buildStatsPayload` does
by iterating over the views.

**TrackVisit.** A request moves from the lookup of its link to the dedupe key, the
earn check, the fake roll, the counters and the log. Around it days pass, logs are
flushed and migrated (`Flush` and `Migrate` are the visible effect of
`LogPipeline`), keys expire, and Redis may lose one. `SanitizeIp` is the constant
function that the code is.

**NotePipeline.** An access is a model value with the fields of its parameter `d`
(`Given`). It goes through the awaits of `createAsync`: the user agent, the NX key,
the LPUSH. A flush run pops one entry at a time, among the commands of others, and
sends its three statements; when one fails the batch is forgotten. Every command may be
sent twice (`MarkUnanswered`, `PushUnanswered`, `PopUnanswered`, and `MarkAgentResent` for the
key of a user agent: who sends a SET NX twice meets his own key), an RPOP may answer with
an error that is filtered out (`PopFails`), and Redis may lose a key (`MarkDropped`). Users and links with
an id that is not positive have no balance and no statistics. The controller
does not await `createAsync` and nobody catches its rejection, which ends a Node
process: `ProcessEnds` takes the requests, runs and visits of a process with it.
`UserAgents` is extended, not instantiated: its two writers share the table and its
ids, which `INSERT IGNORE` uses up whether or not the row is new.

**VersionedCache, LinkDetailCache, StuCache, LinkCaches.** The data behind the caches
are a counter of edits, so that the age of an entry is a number. A request is a
record that moves through its awaits; whenever it needs a key it asks for the
version (`AskVersion`, `ReadVersion`, `AssignVersion`), and `StuCache` needs up to
three keys in one request. Each process holds the version it last read, `VersionTtl`
from the time it asked. An entry that cannot be parsed (JSON of another form is deleted,
what is no JSON is passed over), a command that fails, an
entry that expires at any time and three attempts at Laravel are actions of their
own. The two services keep separate copies of the version and separate keys, so a
behaviour has requests of one of them.

**StatsQuery, NoteQuery, SqlReads.** A request is a record of names and values; each
operator is one function of the code (`resolveOrderBy` is `OrderBy` with
`AcceptsOrder`). A statement is the set of expressions it selects, groups and orders
by, and a line of an answer is the set of logs it is made of, so that a page can be
compared with the rows. `Pages` gives every page MySQL may answer, any order between
equal keys included. TypeORM (0.3) sends `skip` and `take` as LIMIT and OFFSET when
nothing is joined, first selects ids when something is, and leaves out the COUNT
when a short page shows the total.

**StuRules, VisitRate.** A condition is the list of values it allows or the set of
values it is a part of; the priority of a rule is a list of at most one number; sorting
gives the matched rules in an order that is sorted, whichever; a user agent is the set of marks the patterns look for; a
payload of Laravel may lack numbers, may have negative ones, and may name one country twice.

**ReadRequests.** One request at a time: it is accepted or refused, its statements are
answered in any order, the client may turn the page. Logs are flushed and migrated
between any two steps.

History variables (`lost`, `repeated`, `late`, `unread`, `unlocked`, `dropped`,
`resent`, `remarked`, `blind`, `missed`, `uncredited`, `unlinked`, `dataAt`, `retired`, `started`,
`from`, `spans`, `walk`, `walked`, `still`) record what a fault or an expired lock has touched, or
when something came about. No guard reads them; they let a property say exactly what is excused.
Operators whose comment calls them a mutant are faulty variants of the definition
that follows them; no specification uses them, and each one violates the property
that `PROJECT.json` lists it with.

## The runs

| run | instance | what it shows |
| --- | --- | --- |
| `pipeline_safety` | 2 logs, 2 flush and 2 migration runs, batches of 2 and 1, 2 batches, 2 attempts, 3 faults, 2 days | the safety properties below and the refinement of `AccessLogStore`; 1.1 million states |
| `pipeline_liveness` | the same, 1 attempt, 1 fault, fair | logs reach MySQL, old rows the main table |
| `stats_overlap` | 1 visit, 2 runs, 2 attempts, 2 faults, 3 minutes, fair | no timely count is lost; double counting only where excused; totals never drift apart; past minutes leave Redis; 960,000 states |
| `stats_late_visit` | 1 visit, 1 run, no fault | **violation**: the DEL removes an increment never synced |
| `stats_failed_read` | 2 visits, 1 run, 1 fault, 3 minutes | **violation**: a minute whose `HGETALL` failed is deleted with the one that was sent |
| `stats_lock_expiry` | 1 visit, 2 runs, no fault | **violation**: an outlived lock, one minute added twice |
| `visit_safety` | 3 visits, 2 links, 1 address, 2 days, 2 faults | one payment a day; each guard on its own; no refusal without reason |
| `visit_one_address` | 2 visits, 2 addresses, no fault | **violation**: the second visitor is refused as the first |
| `note_pipeline` | 2 accesses of one visitor with two browsers, a visit, 2 processes with a run each, batches of 2, 2 ids, 1 fault, 2 days, fair | earning, logs, balances, statistics and user agents of notes; 530,000 states |
| `link_caches` | 2 processes, 2 requests, 2 versions, 1 edit, 1 tick, 1 fault | how stale visits, levels and links may be; 5.6 million states |
| `read_requests` | 4 logs of two days; some 600 statistics and 230 note queries, 2,900 links and visits; zones -1, 0, 1 | legal statements, periods, pages, rules, rates; 3 million states |
| `read_other_zone` | the same | **violation**: in another zone than UTC the rows are not those of the UTC period |

Properties:

* `NothingVanishes`, `RowsAreUnique`, `MigratedExactlyOnce`,
  `MainHoldsOnlyPastDays`: the log pipeline's safety;
  `ImplementsAccessLogStore` says it as one abstract specification.
* `LogsReachMySql`, `OldRowsReachMain`: its liveness. The logs of an instance are
  finite, so a log that waits behind new ones forever is not among its behaviours.
* `OnTimeIncrementsSurvive`: an increment made within its minute stays in Redis
  until Laravel has it, unless a failed `HGETALL` passed it over (`unread`);
  `UnreadKeysSurvive` does not excuse that, and is violated. `CreditedOnce`: added twice only by an ambiguous failure,
  a duplicate of `SCAN` or a run without its lock. `TotalsAgree`: a visit counted
  in its minute is added to all three totals equally often.
  `PastMinutesAreSynced`: its liveness.
* `OnePaidPerDay`, `RowStopsPayment`, `RefusedAfterFirst`: the two guards of
  `trackVisit`.
* `OneEarningAccess`, `UnearnedAfterFirst`: who earns. An access that does not earn has one
  before it that does, or that sent its SET twice; one that died with its key, before
  its LPUSH, stands for the first as well, as it does in the code.
* `NoAccessVanishes`, `BalancesFollowRows`, `LinksFollowRows`,
  `LoggedAgentsHaveRows`, `KnownAgentsHaveRows`: the rest of the safety of the note pipeline. The
  revenue of notes comes from the request, so amounts may be negative or longer than
  the scale, and balances follow the rows up to the digits `toScaledInt` cuts.
  `AccessesAreSettled`: its liveness.
* `RetiredVersionsAreLeft`, `InvalidationReachesVisits`: the bound on staleness, for the
  version itself and for what a visit is told. `DetailsAreOfTheirVersion`,
  `LevelsAreOfTheirVersion`: no entry is older than its version.
  `StaleLinksSpanVersions`: link entries can be, but only when their writer saw the
  version change.
* `StatementsAreLegal`: the two layers of the statistics query agree in every mode; note
  queries that MySQL refuses are exactly those sorted outside their groups.
  `PeriodsInUtc`: the rows are those of the period asked for, in UTC; violated where the
  process runs in another zone. `PeriodsAsAsked`: it holds in a process that runs in UTC,
  and no period is too long in any.
  `PageAndTotalAgree`, `WalksPartition`: pages, totals and walks over pages.
* `RedirectIsOfBestRule`, `VisitsPayTheirCountry`: the algorithms against definitions
  that do not follow the code.

Five disagreements between the documents and the code came up, each with a run
that shows it: counts deleted unsynced when a visit crosses the end of its minute
(`tracking.worker.ts:174`) or when the read of their minute failed
(`tracking.worker.ts:231`), a minute synced twice when a run outlives its lock
(`tracking.worker.ts:145`), one address for all visitors
(`tracking.service.ts:339`), and statistics whose period is said to be in UTC but is
in the zone of the process (`tracking-stats.service.ts:384`): `toMysqlDateTime` prints
local time. For the rows this is undone when they are inserted, so they are in UTC; the
bounds of a query are compared with them as they are printed.

What else a reader should know of, where no document says otherwise:

* A redirect request that reads its level under an old version and stores its link
  under a new one caches stale settings for an hour (`stu.service.ts:166`).
* The note query takes `date.to` as an instant: a bare date ends at its midnight.
* A grouped note query may be sorted by a field it does not group by: MySQL refuses it
  and the answer is 500 (`note-access.service.ts:370`).
* A rule whose include names fields with empty conditions admits nobody
  (`stu.service.ts:112`). A `NOT_BETWEEN` is refused, unlike `NOT_IN` and `NOT_LIKE`. Visitors on
  tablets are paid the desktop rate.
* Every access of a note uses up an id of `user_agents`; after 65535 of them new user
  agents are ignored (`user-agent.entity.ts:6`).
* A second access of an evening may earn, under the key of the next day
  (`note-access.service.ts:125`).

### Bounds

`MaxFaults`, `LastDay`, `LastMinute` and the sizes of the sets are bounds of the
model; `BatchSize`, `MigrationBatch`, `MaxBatches` and `MaxAttempts` are the code's
parameters (1000, 5000, 20, 3) with small values. Two logs are enough for a log to
be popped with, before or after another one, two runs for every conflict between
runs, a batch of one row with two batches for a run to be cut short by its
maximum. Two days give one midnight, three minutes a minute that is past, one that
ends during a run and a current one. One visit is enough for a sync to come between
its three increments; that the hashes of several visits of one link are summed together is in
the theorems, which have any number of visits and links. Faults are counted so that a fault, the
retry that follows and a second fault in the recovery all happen; behaviours are
otherwise unlimited in length. The theorems have none of these bounds.

In `note_pipeline` two accesses of one address are the first and a second one of a
day, in one batch or in two, in one process or in two; two ids are used up by them
and the visit; `Unit` and `Fine` are 10, so that an amount has a digit the scale keeps
and one it cuts. In `link_caches` one edit and one new version make old and new data
and keys, one tick lets a held version grow too old. In `read_requests` the families of
requests (`PeriodRequests`, `ModeRequests`, `LegacyRequests`, `ConditionRequests`, and those of
notes) each vary some parameters; four logs make up to four pages, with equal and
different keys; a day has two ticks; short links and visits arrive before the first
flush only, and other zones than UTC are given the requests about periods only, since
neither makes a difference to the rest.

`CHECK_DEADLOCK FALSE` is set everywhere but in `read_requests` and `read_other_zone`, since the system really
rests when all requests are over and nothing is left to move.
Symmetry is used in safety runs only.

### Fairness

Weak fairness of each run's next step, of the expiry of keys and of time. The code
justifies it: `@Interval` fires for as long as the process lives (a process that
dies is one of several instances, or restarted), every await of a run ends because
the HTTP client has a timeout and MySQL and Redis answer or fail, and Redis
removes keys whose time to live is over. Requests are never assumed to arrive or
to finish. Faults are finite in number and never fair. In `LogPipeline` a fair step
includes the failing ones, so liveness holds whichever of them are taken. In
`NotePipeline` each run has weak fairness of being started and of its next step, and
nothing else is fair: neither requests nor midnight nor faults.

## The proofs

`LogPipelineProofs` proves for all values of the constants (assumptions:
`PipelineAssumption`, that is positive batch sizes and attempts, and `Free` not
being a run):

* `TypeCorrect`: the type invariant, used by everything else.
* `NothingVanishesHolds` and `RowsAreUniqueHolds`, from the invariant `LogInv`. The
  two properties are not inductive: a log could be in the list and in a run's hands
  at once and become two rows later. `LogInv` therefore says of all places
  together (list, batches, rows) that a log outside `repeated` occurs in one of
  them and once, that an idle run holds nothing, and that whatever occurs was
  accepted.
* `MigratedExactlyOnceHolds` and `MainHoldsOnlyPastDaysHolds`, from `MigInv`: open
  transactions hold disjoint rows that are still in the daily table, a transaction
  about to commit has copied what it selected, and what it selected is of a past
  day. The lock plays no part: what keeps overlapping runs apart is `FOR UPDATE`.

Its first section holds the lemmas about lists: a pop splits a list without losing
or doubling an element, and uniqueness of a concatenation.

`StatsSyncProofs` proves the safety of the statistics from `StatsAssumption` (at
least one attempt and one minute, `Free` not a run, `LinkOf` a function):

* `StatsTypeCorrect`: the type invariant.
* All the rest uses `TraceInv`: what a hash holds was made by the visits of its
  minute, what a run has in its payload was made in the minutes of its keys, which
  are past, and Laravel has only increments of past minutes.
* `StatsOnTimeSurvive`, from `SurviveInv`: `OnTimeIncrementsSurvive` is not inductive,
  because a `DEL` is right only if the payload was complete. So: whatever on-time
  increment is in a key of a run that posts or deletes is in its payload, and all of
  the payload of a run that deletes is credited. `Summed` drops a link's revenue
  without its views, so the invariant also says that views come first.
* `StatsCreditedOnce`, from `CreditInv`: an increment that no fault and no expired
  lock touched is in the payload of the lock's holder only, is not credited while
  that run posts, and once credited is in Redis only while that run is about to
  delete it. This is where the lock matters, unlike in the migration.
* `StatsTotalsAgree`, from `TogetherInv`: each hash, payload and doubled part has all
  three increments of a visit counted in time, or none.

A step of a run is split only once, in `StepCases`, into the six kinds of effect that
the invariants can tell apart (quiet, reads, posts, fails, deletes, gives up).

`LogPipelineRefinement` proves `ImplementsAccessLogStoreHolds`: the pipeline implements
`AccessLogStore`. By the invariants above every row is in one of the two tables and every
place holds accepted logs only, so the status of a log is a function of four sets
(`StageInv`): accepted, inserted, archived, and still on its way. A step of the pipeline
leaves these sets alone, accepts a log, stores a batch, archives a batch, or counts a
fault and loses logs that were on their way; each of these is a step of the store.

`TrackVisitProofs` proves the visit decision from `VisitAssumption` (faults and days are
counted):

* `VisitTypeCorrect`: the type invariant.
* `OnePaidPerDayHolds`, from `Phases` (what a request knows at each of its awaits) and
  `PaidInv`: the key of a visit that was the first, on time, is in Redis or was lost,
  and no two such visits have the same key. `OnePaidPerDay` alone is not inductive, since it
  says nothing of a visit that has been told it is the first and is not paid yet.
* `RefusedAfterFirstHolds`: every key in Redis was set by some visit (`KeysAreSet`).
* `RowStopsPaymentHolds`, from `RowInv`: a row of the daily table that a visit could have
  seen stays there for the day, and a visit that knew of one earns only until its query.

`SumProofs` has what `NotePipelineProofs` uses of sums: `SumFunctionOnSet` of the library is
a fold, and what a fold computes is shown by induction. Without the library's induction
theorems, whose parameter is an operator, the induction is over sets: a nonempty set of
numbers has a least one, so a set of subsets that has the empty one and grows by one
element has every finite set (`SetGrows`), and a set of lists likewise (`SequenceGrows`).

`NotePipelineProofs` proves, from `AmountAssumption` (positive scale), `NoteAssumption`
(finitely many accesses and runs, at least one day; the revenue of an access is a text, or
absent, its ids are integers, or absent) and `AgentAssumption` (there is an id; each visit has a user agent):

* `NoteTypeCorrect`: the type invariant.
* `SentAmountsAreExact`, `ScaledIntIsCut`: `fromScaledInt` followed by the column gives
  the integer back, and `toScaledInt` cuts the exact value towards zero, for every text.
* `OneEarningAccessHolds`, from `EarnInv`: the key of an access that earns is in Redis or was
  lost, and no two have set the same unless it was.
* `UnearnedAfterFirstHolds`, from `OwnerInv`: each key in Redis belongs to an access that earns
  or that sent its SET twice. The property itself says nothing of the keys.
* `KnownAgentsHaveRowsHolds` and `LoggedAgentsHaveRowsHolds`, from `AgentInv`, which
  relates the table, the ids, the keys and the states of both kinds of callers.
* `NoAccessVanishesHolds`, from `CopyInv`. `Copies(a)` counts an access in the list, in the
  batches that are being popped or inserted, and in the table. Each step keeps it but
  for a push, which adds one, a repeated push, which marks the access as resent, and a lost
  batch, which marks it as lost.
* `BalancesFollowRowsHolds` and `LinksFollowRowsHolds`, from `PaidInv`. The properties speak
  of a moment at which some runs stand between two of their three statements, and are not
  inductive: a run adds the sum over its batch at once. `PaidInv` therefore says that a
  balance is the sum, over all accesses, of the worth of each as often as it was
  `Credited`: its rows without those in the hands of runs that have yet to credit them,
  and without those forgotten. Statistics of links are the same with `Counted`. The sum over
  a list is then the sum over the accesses of how often each is in it (`OverCounts`).

`LinkCachesProofs` proves the caches from `CacheAssumption` (at least one tick a version
is kept, and markers that are not versions). All six theorems are parts of one inductive
invariant, `CachesInvariant`, because each needs the others: an answer of Redis is no older
than what its process holds (`AnswerInv`, since answers come in order), hence the held
version only grows and is dropped `VersionTtl` after its replacement (`HeldInv`,
`FirstInv`); the key of a request is built from it before the data are read (`KeyInv`), so
what is stored under a version was read after the version came (`VisitInv`,
`RedirectInv`), which is what the cache properties say. The first section of
the module has what each step does to the record of its request, once, for all of them.

`ReadRequestsProofs` proves the queries, the rules and the rates for every zone, every
request the DTOs and parsers let through, every set of links and every finite set of logs,
wherever they are. Assumptions: `DayAssumption` (a day has a length), `LogsAssumption` (finitely
many logs, with numbers in their columns), `QueryAssumption`, `CodeAssumption` (mapping a country
twice is mapping it once) and `ReadAssumption` (requests, links and payloads are records of the
forms `StatsRequest`, `NoteRequest`, `IsShortLink` and `Payload`; rates and amounts are whole
numbers of some small unit). `ReadInv` is inductive:
a query in progress is a page of an accepted request, and what is known of its answer is
true of the tables unless logs were flushed since it began (`IsTrue`); a redirect is the one
its link and context give (`IsSent`); the log of a visit was written from Laravel's
answer (`PaysFor`). All seven theorems follow from it.

* `ReadTypeCorrect`: the type invariant.
* `StatementsAreLegalHolds`: `OrderBy` accepts only what `Fields` selects or groups by, in every
  mode, so the repository never refuses what the service accepted.
* `PeriodsAsAskedHolds`: in UTC the bounds are printed as they are, and a day is a quotient, so the bounds that the two parsers compute for
  dates and for instants contain exactly the rows asked for (`QuotientAtLeast`, `DayBounds`).
* `PageAndTotalAgreeHolds`: a page is as long as its limit and the total leave room for. A
  migration between the statements changes nothing because it keeps the union of the
  two tables; a flush does, which is why the property excuses it.
* `WalksPartitionHolds`: an order without ties is total, so a set of lines that come before
  all others is determined by its size (`LeadersAreOne`), and the next page continues
  where the walk is (`WalkGoesOn`). With ties MySQL may answer otherwise.
* `RedirectIsOfBestRuleHolds`: any order of the matched rules that is sorted by priority has
  the best ones first (`FirstOfSorted`); that such an order exists is shown by the rank of a
  rule, the number of those before it (`OrderedList`).
* `VisitsPayTheirCountryHolds`: building the map of rates keeps the last valid entry of a
  country (`LastEntryPays`), and parsing a link that was stored gives that link
  (`StoredLinkIsTheLink`), so the cache pays as Laravel's answer does.

Only model-checked:

* Liveness (`LogsReachMySql`, `OldRowsReachMain`, `PastMinutesAreSynced`,
  `AccessesAreSettled`): fairness and `ENABLED` are beyond the prover.

Every invariant and every other temporal property of the passing runs is a theorem. The
properties of the five runs that expect a violation are false, and have none.

## Not modelled, and assumptions

* Column values of the log pipeline. Every queued payload is one that `trackVisit` wrote,
  so the filter of `deserializeLogs` drops none, and MySQL accepts every row:
  `access_logs_daily.level_id` gets no value and has no default, which MySQL accepts
  outside of strict mode only.
* Amounts of the statistics: counters are sets of increments, rounding to six decimals
  is left out. (Amounts of notes are exact.)
* Clocks of the instances agree; `created_at` is written in local time and read back
  as such, so the UTC day of a log is that of the request. The connection to MySQL
  uses UTC (`DB_TIMEZONE`, default `Z`).
* `rollbackTransaction` after a crash is immediate.
* The client repeating an `HINCRBY` is left out of `StatsSync`: it doubles a count
  in Redis before the sync sees it.
* The users of note accesses exist, so that `UPDATE users` finds them; entries of
  `note_access_logs` are those `createAsync` wrote, and parse.
* A process has one connection to Redis, so answers come in order. Redis does not
  lose the version; Laravel only ever raises it.
* MySQL runs with `ONLY_FULL_GROUP_BY`, its default.
* Left out: the text of SQL statements and URLs and the formatting of numbers in an
  answer (`mapStatsRow`); `queryStatsSummary`, which nothing calls; the user context that
  `StuService` writes to Redis and nobody reads; md5 and the `ua-parser` library;
  bootstrap, modules, entities as such, tokens (whose check is commented out) and
  throttling; code that no module of the application loads or calls:
  `note-tracking/tracking.worker.ts`, `note-tracking/tracking-stats.service.ts`,
  `note-tracking/tracking.repository.ts` but for `ensureUserAgent`, the second half of
  `note-access.service.ts`, `tracking/stu-access*.ts`.

## Plan

All modules of the first plan exist, and the safety of each is proved. What remains worth doing:

1. `Tracking`: `TrackVisit` composed with `LogPipeline`, so that the earn check reads the
   real daily table, and the theorem that its `Flush` and `Migrate` are what the pipeline
   shows of itself.
2. Abstract specifications of the note pipeline and of the statistics, as `AccessLogStore` is
   one of the log pipeline, with refinements along `CopyInv` and `TraceInv`.
