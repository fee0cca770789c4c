----------------------------- MODULE TrackVisit -----------------------------
(***************************************************************************)
(* trackVisit: does a visit earn?                                          *)
(*                                                                         *)
(* Two guards keep a visitor from earning twice a day on a link: a Redis   *)
(* key set with NX, and a query of access_logs_daily, which knows the      *)
(* visits whose log has been flushed.  Requests run concurrently, each one *)
(* is an action per await, and both guards can be gone when a request gets *)
(* to them: Redis may lose a key, the query may fail, and at midnight the  *)
(* keys begin to expire and the rows to move to the main table.            *)
(*                                                                         *)
(* The lookup of the link is modelled by its outcomes, a log by the visit  *)
(* it belongs to.  An alias stands for its link.                           *)
(***************************************************************************)
EXTENDS Integers, FiniteSets

CONSTANTS
    Visits,     \* the requests
    Aliases,    \* the links visited
    Addresses,  \* the addresses of the visitors
    MaxFaults,  \* bound: faults in a behaviour
    LastDay     \* bound: the last UTC day reached

ASSUME VisitAssumption ==
    /\ MaxFaults \in Nat
    /\ LastDay \in Nat \ {0}

VARIABLES
    today,    \* the current UTC day, counted from 1
    visit,    \* the state of each request
    keys,     \* the dedupe keys visit:{alias}:{ip}:{day} in Redis
    counted,  \* the visits that are in the realtime counters
    queue,    \* the visits whose log is in logs_queue
    daily,    \* the visits whose log is in access_logs_daily
    faults,   \* faults so far
    dropped,  \* history: keys Redis lost before their time to live was over
    resent,   \* history: visits whose SET NX was sent twice
    blind     \* history: visits whose query of the daily table failed

logs    == <<counted, queue, daily>>
history == <<faults, dropped, resent, blind>>
vars    == <<today, visit, keys, logs, history>>

Days == 1..LastDay

(* sanitizeIp returns this whatever it is given; the rest of its body is   *)
(* never reached.                                                          *)
SanitizeIp(address) == "123.23.2.29"

Keys == Aliases \X {SanitizeIp(a) : a \in Addresses} \X Days

(* known is history: when the request arrived, access_logs_daily had a row *)
(* of its link, address and day.                                           *)
Request == [pc : {"new", "lookup", "dedupe", "exists", "roll", "count", "push", "done"},
            alias : Aliases, address : Addresses,
            day : Days,               \* now, read when the request arrives
            deduped : Days \cup {0},  \* the day on which it set or met its key
            isFirst : BOOLEAN, isEarn : BOOLEAN, known : BOOLEAN]

TypeOK ==
    /\ today \in Days
    /\ visit \in [Visits -> Request]
    /\ keys \in SUBSET Keys
    /\ counted \in SUBSET Visits
    /\ queue \in SUBSET Visits
    /\ daily \in SUBSET Visits
    /\ faults \in 0..MaxFaults
    /\ dropped \in SUBSET Keys
    /\ resent \in SUBSET Visits
    /\ blind \in SUBSET Visits

Init ==
    /\ today = 1
    /\ visit \in [Visits -> [pc : {"new"}, alias : Aliases, address : Addresses, day : {1},
                             deduped : {0}, isFirst : {FALSE}, isEarn : {FALSE},
                             known : {FALSE}]]
    /\ keys = {}
    /\ counted = {}
    /\ queue = {}
    /\ daily = {}
    /\ faults = 0
    /\ dropped = {}
    /\ resent = {}
    /\ blind = {}

Fault ==
    /\ faults < MaxFaults
    /\ faults' = faults + 1

At(v, pc) == visit[v].pc = pc

(***************************************************************************)
(* trackVisit                                                              *)
(***************************************************************************)
(* existsTodayInDailyLogs: any log of the link and the address with a      *)
(* created_at in the UTC day.                                              *)
ExistsToday(alias, ip, day) ==
    \E w \in daily : /\ visit[w].alias = alias
                     /\ SanitizeIp(visit[w].address) = ip
                     /\ visit[w].day = day

Arrive(v) ==
    /\ At(v, "new")
    /\ visit' = [visit EXCEPT ![v].pc = "lookup", ![v].day = today,
          ![v].known = ExistsToday(visit[v].alias, SanitizeIp(visit[v].address), today)]
    /\ UNCHANGED <<today, keys, logs, history>>

(* getLinkByAlias: an invalid alias or an unknown link ends the request,   *)
(* an inactive link is logged without counting.                            *)
Lookup(v) ==
    /\ At(v, "lookup")
    /\ \E next \in {"done", "push", "dedupe"} : visit' = [visit EXCEPT ![v].pc = next]
    /\ UNCHANGED <<today, keys, logs, history>>

(* Mutants of KeyOf: the address as received, and no date. *)
KeyOfRawAddress(v) == <<visit[v].alias, visit[v].address, visit[v].day>>

KeyOfAnyDay(v) == <<visit[v].alias, SanitizeIp(visit[v].address), 1>>

KeyOf(v) == <<visit[v].alias, SanitizeIp(visit[v].address), visit[v].day>>

(* SET key 1 EX NX. *)
Deduped(v, first) ==
    /\ At(v, "dedupe")
    /\ keys' = keys \cup {KeyOf(v)}
    /\ visit' = [visit EXCEPT ![v].pc = IF first THEN "exists" ELSE "roll",
                              ![v].deduped = today,
                              ![v].isFirst = first, ![v].isEarn = first]
    /\ UNCHANGED <<today, logs>>

(* A mutant of Dedupe: SET without NX. *)
DedupeWithoutNx(v) ==
    /\ Deduped(v, TRUE)
    /\ UNCHANGED history

Dedupe(v) ==
    /\ Deduped(v, KeyOf(v) \notin keys)
    /\ UNCHANGED history

(* The key was set, the answer was lost, and the client sent the command   *)
(* again: the visit meets its own key.                                     *)
DedupeResent(v) ==
    /\ KeyOf(v) \notin keys
    /\ Deduped(v, FALSE)
    /\ Fault
    /\ resent' = resent \cup {v}
    /\ UNCHANGED <<dropped, blind>>

CheckExists(v) ==
    /\ At(v, "exists")
    /\ LET k == KeyOf(v)
       IN  visit' = [visit EXCEPT ![v].pc = "roll",
                                  ![v].isEarn = ~ExistsToday(k[1], k[2], k[3])]
    /\ UNCHANGED <<today, keys, logs, history>>

(* The query fails, a warning is logged, and the visit earns. *)
CheckFails(v) ==
    /\ At(v, "exists")
    /\ Fault
    /\ visit' = [visit EXCEPT ![v].pc = "roll"]
    /\ blind' = blind \cup {v}
    /\ UNCHANGED <<today, keys, logs, dropped, resent>>

(* A fake view does not earn; it is logged, and not counted. *)
Roll(v) ==
    /\ At(v, "roll")
    /\ \/ visit' = [visit EXCEPT ![v].pc = "push", ![v].isEarn = FALSE]
       \/ visit' = [visit EXCEPT ![v].pc = "count"]
    /\ UNCHANGED <<today, keys, logs, history>>

(* updateRealtimeStats; its three commands are in StatsSync. *)
Count(v) ==
    /\ At(v, "count")
    /\ counted' = counted \cup {v}
    /\ visit' = [visit EXCEPT ![v].pc = "push"]
    /\ UNCHANGED <<today, keys, queue, daily, history>>

Push(v) ==
    /\ At(v, "push")
    /\ queue' = queue \cup {v}
    /\ visit' = [visit EXCEPT ![v].pc = "done"]
    /\ UNCHANGED <<today, keys, counted, daily, history>>

(***************************************************************************)
(* What happens around the requests                                        *)
(***************************************************************************)
NextDay ==
    /\ today < LastDay
    /\ today' = today + 1
    /\ UNCHANGED <<visit, keys, logs, history>>

(* The flush and the migration of LogPipeline. *)
Flush ==
    /\ \E S \in SUBSET queue \ {{}} : queue' = queue \ S /\ daily' = daily \cup S
    /\ UNCHANGED <<today, visit, keys, counted, history>>

(* A mutant of Migrate: rows of the current day are moved too. *)
MigrateToday ==
    /\ \E S \in SUBSET {v \in daily : visit[v].day <= today} \ {{}} : daily' = daily \ S
    /\ UNCHANGED <<today, visit, keys, counted, queue, history>>

Migrate ==
    /\ \E S \in SUBSET {v \in daily : visit[v].day < today} \ {{}} : daily' = daily \ S
    /\ UNCHANGED <<today, visit, keys, counted, queue, history>>

(* The time to live is a day, counted from when the key was set: it is     *)
(* over at the earliest when the day of the key is.                        *)
KeyExpires ==
    /\ \E k \in keys : k[3] < today /\ keys' = keys \ {k}
    /\ UNCHANGED <<today, visit, logs, history>>

(* Redis evicts a key, or restarts without it. *)
KeyDropped ==
    /\ \E k \in keys : keys' = keys \ {k} /\ dropped' = dropped \cup {k}
    /\ Fault
    /\ UNCHANGED <<today, visit, logs, resent, blind>>

(***************************************************************************)
(* The specification                                                       *)
(***************************************************************************)
RequestStep(v) ==
    \/ Arrive(v)
    \/ Lookup(v)
    \/ Dedupe(v)
    \/ DedupeResent(v)
    \/ CheckExists(v)
    \/ CheckFails(v)
    \/ Roll(v)
    \/ Count(v)
    \/ Push(v)

Next ==
    \/ \E v \in Visits : RequestStep(v)
    \/ NextDay
    \/ Flush
    \/ Migrate
    \/ KeyExpires
    \/ KeyDropped

Spec == Init /\ [][Next]_vars

(***************************************************************************)
(* Safety                                                                  *)
(***************************************************************************)
SameLinkAndDay(v, w) == visit[v].alias = visit[w].alias /\ visit[v].day = visit[w].day

SameAddress(v, w) == SanitizeIp(visit[v].address) = SanitizeIp(visit[w].address)

OnTime(v) == visit[v].deduped = visit[v].day

Paid == {v \in counted : visit[v].isEarn}

(* One visit a day is paid per link and address, however the requests      *)
(* interleave and whatever became of the log of the first one, unless      *)
(* Redis lost the key or one of the two came to its key after midnight,    *)
(* when it may have expired.                                               *)
OnePaidPerDay ==
    \A v, w \in Paid :
        /\ v # w
        /\ SameLinkAndDay(v, w) /\ SameAddress(v, w)
        /\ OnTime(v) /\ OnTime(w)
        => KeyOf(v) \in dropped

(* The second guard does not depend on the first: a visit that arrives     *)
(* when a row of its link, address and day is in access_logs_daily is not  *)
(* paid, also if Redis has lost every key, unless the query fails or       *)
(* midnight passes before it is made.  The migration must not take rows of *)
(* the current day away.                                                   *)
RowStopsPayment ==
    \A v \in Paid : visit[v].known => v \in blind \/ visit[v].day < today

(* A visit is refused as a repetition only if another one of the same      *)
(* link, address and day was the first, or its own SET was sent twice.     *)
RefusedAfterFirst ==
    \A v \in Visits \ resent :
        visit[v].deduped # 0 /\ ~visit[v].isFirst =>
            \E w \in Visits \ {v} :
                /\ SameLinkAndDay(v, w) /\ SameAddress(v, w)
                /\ visit[w].isFirst \/ w \in resent

(* docs/tracking-api.md, step 4: the dedupe key is visit:{alias}:{ip}:     *)
(* {YYYYMMDD}, so a visit is refused only after one of the same visitor.   *)
(* sanitizeIp returns one address for all visitors.                        *)
RefusedAfterSameVisitor ==
    \A v \in Visits \ resent :
        visit[v].deduped # 0 /\ ~visit[v].isFirst =>
            \E w \in Visits \ {v} :
                /\ SameLinkAndDay(v, w) /\ visit[v].address = visit[w].address
                /\ visit[w].deduped # 0
=============================================================================
