----------------------------- MODULE StatsSync -----------------------------
(***************************************************************************)
(* The counters of the statistics: trackVisit increments them in one Redis *)
(* hash per minute, aggregateAndSyncStats sends the hashes of past minutes *)
(* to Laravel and deletes them.                                            *)
(*                                                                         *)
(* A counter is modelled by the set of increments it is the sum of, so     *)
(* that each increment can be followed: a visit makes three of them, with  *)
(* the three commands of its pipeline.  Redis may serve another client     *)
(* between two commands of a pipeline, and the minute a visit counts in is *)
(* the one in which its request arrived: the lookup of the link, the       *)
(* dedupe key and the query of the earn check come in between.             *)
(***************************************************************************)
EXTENDS Integers, Sequences, FiniteSets

CONSTANTS
    Visits,       \* the accepted visits
    Links,        \* the links they visit
    LinkOf,       \* the link of each visit
    Runs,         \* concurrent runs of aggregateAndSyncStats, of any instance
    Free,         \* no run: the lock is free
    MaxAttempts,  \* 3: the attempts of postWithRetry
    MaxFaults,    \* bound: faults in a behaviour
    LastMinute    \* bound: the last minute reached

ASSUME StatsAssumption ==
    /\ LinkOf \in [Visits -> Links]
    /\ Free \notin Runs
    /\ MaxAttempts \in Nat \ {0}
    /\ MaxFaults \in Nat
    /\ LastMinute \in Nat \ {0}

VARIABLES
    minute,      \* the current minute, counted from 1
    arrived,     \* the minute in which each visit arrived; 0: not yet
    made,        \* how many of its increments each visit has made
    stat,        \* stat[m]: the hash stat:minute:m; empty: no such key
    lock,        \* the key lock:stats_aggregation
    sync,        \* the state of each run
    credited,    \* how often Laravel has added each increment
    faults,      \* faults so far
    late,        \* history: increments made after their minute had ended
    unread,      \* history: increments an HGETALL that failed left out
    repeated,    \* history: increments a fault may send to Laravel twice
    unlocked     \* history: increments handled by a run without its lock

visiting == <<minute, arrived, made>>
history  == <<faults, late, unread, repeated, unlocked>>
vars     == <<visiting, stat, lock, sync, credited, history>>

Lock == INSTANCE RedisLock

Minutes == 1..LastMinute

(* In the order of the pipeline. *)
Fields == <<"views", "linkRevenue", "userRevenue">>

Increments == {Fields[i] : i \in DOMAIN Fields} \X Visits

SyncRun == [pc : {"idle", "scan", "read", "post", "delete", "release"},
            keys : SUBSET Minutes,         \* the keys found, then the target keys
            twice : SUBSET Minutes,        \* those that SCAN returned twice
            payload : SUBSET Increments,   \* the increments summed up for Laravel
            doubled : SUBSET Increments,   \* those summed up twice
            attempt : 1..MaxAttempts]

TypeOK ==
    /\ minute \in Minutes
    /\ arrived \in [Visits -> Minutes \cup {0}]
    /\ made \in [Visits -> 0..Len(Fields)]
    /\ stat \in [Minutes -> SUBSET Increments]
    /\ Lock!LockTypeOK
    /\ sync \in [Runs -> SyncRun]
    /\ credited \in [Increments -> Nat]
    /\ faults \in 0..MaxFaults
    /\ late \in SUBSET Increments
    /\ unread \in SUBSET Increments
    /\ repeated \in SUBSET Increments
    /\ unlocked \in SUBSET Increments

IdleSync == [pc |-> "idle", keys |-> {}, twice |-> {}, payload |-> {},
             doubled |-> {}, attempt |-> 1]

Init ==
    /\ minute = 1
    /\ arrived = [v \in Visits |-> 0]
    /\ made = [v \in Visits |-> 0]
    /\ stat = [m \in Minutes |-> {}]
    /\ Lock!LockInit
    /\ sync = [r \in Runs |-> IdleSync]
    /\ credited = [i \in Increments |-> 0]
    /\ faults = 0
    /\ late = {}
    /\ unread = {}
    /\ repeated = {}
    /\ unlocked = {}

Fault ==
    /\ faults < MaxFaults
    /\ faults' = faults + 1

(***************************************************************************)
(* Visits                                                                  *)
(***************************************************************************)
NextMinute ==
    /\ minute < LastMinute
    /\ minute' = minute + 1
    /\ UNCHANGED <<arrived, made, stat, lock, sync, credited, history>>

VisitArrives(v) ==
    /\ arrived[v] = 0
    /\ arrived' = [arrived EXCEPT ![v] = minute]
    /\ UNCHANGED <<minute, made, stat, lock, sync, credited, history>>

(* The next HINCRBY or HINCRBYFLOAT of the pipeline.  A visit whose        *)
(* process dies takes no further step.                                     *)
Increment(v) ==
    LET i == <<Fields[made[v] + 1], v>>
    IN  /\ arrived[v] # 0
        /\ made[v] < Len(Fields)
        /\ made' = [made EXCEPT ![v] = @ + 1]
        /\ stat' = [stat EXCEPT ![arrived[v]] = @ \cup {i}]
        /\ late' = IF arrived[v] = minute THEN late ELSE late \cup {i}
        /\ UNCHANGED <<minute, arrived, lock, sync, credited,
                       faults, unread, repeated, unlocked>>

(***************************************************************************)
(* aggregateAndSyncStats                                                   *)
(***************************************************************************)
Start(r) ==
    /\ sync[r].pc = "idle"
    /\ Lock!Acquire(r)
    /\ sync' = [sync EXCEPT ![r].pc = "scan"]
    /\ UNCHANGED <<visiting, stat, credited, history>>

ToRelease(run) == [IdleSync EXCEPT !.pc = "release"]

(* SCAN may return a key twice, when the keyspace is rehashed during the   *)
(* iteration; scanKeys concatenates what it gets.  The iteration is one    *)
(* step: a key that appears in the middle of it is left for the next run.  *)
Scan(r) ==
    LET found == {m \in Minutes : stat[m] # {}}
    IN  /\ sync[r].pc = "scan"
        /\ \E twice \in SUBSET found :
              /\ \/ twice = {} /\ UNCHANGED faults
                 \/ twice # {} /\ Fault
              /\ sync' = [sync EXCEPT ![r] = IF found = {} THEN ToRelease(@)
                             ELSE [@ EXCEPT !.pc = "read", !.keys = found, !.twice = twice]]
        /\ UNCHANGED <<visiting, stat, lock, credited, late, unread, repeated, unlocked>>

(* A mutant of TargetKeys: the current minute is not left out. *)
AllKeys(r) == sync[r].keys

(* The keys to sync: the current minute is read only now, after the scan.  *)
TargetKeys(r) == sync[r].keys \ {minute}

(* What the two lists of the payload add up: every user revenue, every     *)
(* number of views, and the revenue of a link only if its views are there. *)
Summed(contents) ==
    {i \in contents : i[1] = "linkRevenue" =>
        \E j \in contents : j[1] = "views" /\ LinkOf[j[2]] = LinkOf[i[2]]}

(* A mutant of NothingToSend: || in the place of &&. *)
NothingOrNoUsers(payload) == \A i \in payload : i[1] # "userRevenue"

(* !payload.links.length && !payload.users.length *)
NothingToSend(payload) == payload = {}

(* The pipeline of HGETALLs, then the payload.  An answer that is an error *)
(* is skipped and its key remains a target.  Nothing to send: nothing is   *)
(* deleted either.                                                         *)
ReadHashes(r) ==
    LET targets == TargetKeys(r)
    IN  /\ sync[r].pc = "read"
        /\ \E failed \in SUBSET targets :
              LET payload == Summed(UNION {stat[m] : m \in targets \ failed})
                  doubled == payload \cap UNION {stat[m] : m \in sync[r].twice}
              IN  /\ \/ failed = {} /\ UNCHANGED faults
                     \/ failed # {} /\ Fault
                  /\ \/ /\ NothingToSend(payload)
                        /\ sync' = [sync EXCEPT ![r] = ToRelease(@)]
                        /\ UNCHANGED <<unread, repeated, unlocked>>
                     \/ /\ ~NothingToSend(payload)
                        /\ sync' = [sync EXCEPT ![r] =
                              [pc |-> "post", keys |-> targets, twice |-> {},
                               payload |-> payload, doubled |-> doubled, attempt |-> 1]]
                        /\ unread' = unread \cup UNION {stat[m] : m \in failed}
                        /\ repeated' = repeated \cup doubled
                        /\ unlocked' = IF lock = r THEN unlocked ELSE unlocked \cup payload
        /\ UNCHANGED <<visiting, stat, lock, credited, late>>

(* Laravel is external: it adds the numbers of a payload to its own.       *)
Credit(run) ==
    credited' = [i \in Increments |-> credited[i] + (IF i \in run.payload THEN 1 ELSE 0)
                                                  + (IF i \in run.doubled THEN 1 ELSE 0)]

Post(r) ==
    /\ sync[r].pc = "post"
    /\ Credit(sync[r])
    /\ sync' = [sync EXCEPT ![r].pc = "delete"]
    /\ UNCHANGED <<visiting, stat, lock, history>>

(* A mutant of AfterFailure: one attempt too many.                         *)
AfterFailureOneMore(run) == IF run.attempt <= MaxAttempts THEN [run EXCEPT !.attempt = @ + 1]
                            ELSE ToRelease(run)

AfterFailure(run) == IF run.attempt < MaxAttempts THEN [run EXCEPT !.attempt = @ + 1]
                     ELSE ToRelease(run)

(* An attempt fails and the next one follows; after the last the run gives *)
(* up and the keys stay.  applied: Laravel had added the payload, and the  *)
(* answer came after the timeout or never.                                 *)
PostFails(r, applied) ==
    /\ sync[r].pc = "post"
    /\ Fault
    /\ \/ /\ applied
          /\ Credit(sync[r])
          /\ repeated' = repeated \cup sync[r].payload
       \/ /\ ~applied
          /\ UNCHANGED <<credited, repeated>>
    /\ sync' = [sync EXCEPT ![r] = AfterFailure(@)]
    /\ UNCHANGED <<visiting, stat, lock, late, unread, unlocked>>

(* DEL of the target keys, with whatever they hold by now.                 *)
DeleteKeys(r) ==
    /\ sync[r].pc = "delete"
    /\ stat' = [m \in Minutes |-> IF m \in sync[r].keys THEN {} ELSE stat[m]]
    /\ sync' = [sync EXCEPT ![r] = ToRelease(@)]
    /\ UNCHANGED <<visiting, lock, credited, history>>

(* DEL fails: Laravel has the payload and the keys stay.                   *)
DeleteFails(r) ==
    /\ sync[r].pc = "delete"
    /\ Fault
    /\ repeated' = repeated \cup sync[r].payload
    /\ sync' = [sync EXCEPT ![r] = ToRelease(@)]
    /\ UNCHANGED <<visiting, stat, lock, credited, late, unread, unlocked>>

Release(r) ==
    /\ sync[r].pc = "release"
    /\ Lock!ReleaseOwn(r)
    /\ sync' = [sync EXCEPT ![r] = IdleSync]
    /\ UNCHANGED <<visiting, stat, credited, history>>

(* The process dies, or the connection to Redis is closed and the release  *)
(* fails with the rest: the lock stays until it expires.                   *)
RunAborted(r) ==
    /\ sync[r].pc # "idle"
    /\ Fault
    /\ repeated' = IF sync[r].pc = "delete" THEN repeated \cup sync[r].payload ELSE repeated
    /\ sync' = [sync EXCEPT ![r] = IdleSync]
    /\ UNCHANGED <<visiting, stat, lock, credited, late, unread, unlocked>>

(* 55 s have passed, and the holder may still be at work.                  *)
LockExpires ==
    /\ Lock!Expire
    /\ unlocked' = unlocked \cup sync[lock].payload
    /\ UNCHANGED <<visiting, stat, sync, credited, faults, late, unread, repeated>>

(***************************************************************************)
(* The specification                                                       *)
(***************************************************************************)
SyncStep(r) ==
    \/ Start(r)
    \/ Scan(r)
    \/ ReadHashes(r)
    \/ Post(r)
    \/ \E applied \in BOOLEAN : PostFails(r, applied)
    \/ DeleteKeys(r)
    \/ DeleteFails(r)
    \/ Release(r)
    \/ RunAborted(r)

Next ==
    \/ NextMinute
    \/ \E v \in Visits : VisitArrives(v) \/ Increment(v)
    \/ \E r \in Runs : SyncStep(r)
    \/ LockExpires

Spec == Init /\ [][Next]_vars

(* Time passes, Redis expires keys, the interval keeps firing and every    *)
(* await of a run resolves.  A visit need not arrive, nor finish.          *)
Fairness ==
    /\ WF_vars(NextMinute)
    /\ WF_vars(LockExpires)
    /\ \A r \in Runs : WF_vars(SyncStep(r))

FairSpec == Spec /\ Fairness

(***************************************************************************)
(* Safety                                                                  *)
(***************************************************************************)
InRedis == UNION {stat[m] : m \in Minutes}

Made == {i \in Increments : \E n \in 1..made[i[2]] : i[1] = Fields[n]}

Credited == {i \in Increments : credited[i] > 0}

(* An increment made within its minute is never lost: it is in Redis until *)
(* Laravel has added it, through failed posts, dying runs and runs that    *)
(* overlap, unless an HGETALL failed to read it.                           *)
OnTimeIncrementsSurvive == Made \ (late \cup unread) \subseteq InRedis \cup Credited

(* Laravel adds no increment twice as long as each run holds its lock from *)
(* HGETALL to DEL and no fault hides from a run that its payload arrived   *)
(* (an unanswered POST, a failed DEL, a run that dies between the two) or  *)
(* makes SCAN return a key twice.                                          *)
CreditedOnce == \A i \in Increments : credited[i] > 1 => i \in repeated \cup unlocked

(* The two lists of a payload never drift apart: of a visit counted within *)
(* its minute Laravel adds the view, the revenue of the link and that of   *)
(* the user equally often, and at no time one without the others.          *)
TotalsAgree ==
    \A v \in Visits :
        LET its == {i \in Increments : i[2] = v}
        IN  its \subseteq Made \ late => \A i, j \in its : credited[i] = credited[j]

(* README.md: "Safe multi-instance stat sync via Redis distributed lock".  *)
(* Without a fault no increment is added twice.  The lock does not give    *)
(* this: it expires after 55 s and the run goes on.                        *)
SafeMultiInstance == \A i \in Increments : credited[i] > 1 => i \in repeated

(* docs/tracking-api.md: stat:minute:* is deleted only after a successful  *)
(* sync, so that an increment stays in Redis until Laravel has added it.   *)
(* A visit that arrived in one minute and is counted in the next may write *)
(* to the hash between its HGETALL and its DEL.                            *)
DelOnlyAfterSync == Made \subseteq InRedis \cup Credited

(* The same sentence for increments made within their minute.  A key whose *)
(* HGETALL answered with an error is skipped by buildStatsPayload, and the *)
(* DEL after the sync of the other keys takes it with them.                *)
UnreadKeysSurvive == Made \ late \subseteq InRedis \cup Credited

(***************************************************************************)
(* Liveness                                                                *)
(***************************************************************************)
Past == {i \in Increments : \E m \in Minutes : m < minute /\ i \in stat[m]}

(* Views and user revenue of a past minute leave Redis, whatever happens   *)
(* to single runs.  (The revenue of a link alone, the user's increment     *)
(* missing, makes an empty payload: such a key waits for another key.)     *)
PastMinutesAreSynced ==
    \A i \in Increments : i[1] # "linkRevenue" => (i \in Past ~> i \notin InRedis)
=============================================================================
