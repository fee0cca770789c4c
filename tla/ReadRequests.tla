---------------------------- MODULE ReadRequests ----------------------------
(***************************************************************************)
(* The requests that are answered from what others have written: the       *)
(* statistics query and the note access query, whose clients turn pages    *)
(* while logs are flushed and moved, the short links, and the rate a visit *)
(* is paid by.                                                             *)
(*                                                                         *)
(* One request at a time is looked at: requests write nothing another one  *)
(* reads.  Both queries read the same logs here; a behaviour never needs   *)
(* the tables of both.                                                     *)
(***************************************************************************)
EXTENDS StatsQuery, NoteQuery, StuRules, VisitRate

CONSTANTS
    Zones,          \* the zones a process may run in, in ticks ahead of UTC
    StatsRequests,  \* bound: the statistics queries that are asked in each zone
    NoteRequests,   \* bound: the note access queries that are asked
    ShortLinks,     \* bound: the short links that are followed
    Visitors,       \* bound: what followers of short links send
    Payloads,       \* bound: Laravel's answers about a link
    VisitRequests   \* bound: what visits send

ASSUME ReadAssumption ==
    /\ Zones \subseteq Int
    /\ \A z \in Zones : StatsRequests[z] \subseteq StatsRequest
    /\ NoteRequests \subseteq NoteRequest
    /\ Payloads \subseteq Payload
    /\ \A link \in ShortLinks : IsShortLink(link)

VARIABLES
    zone,   \* the zone of the process
    place,  \* where a log is: in the queue or in a table
    call    \* the request and what is known of its answer

vars == <<zone, place, call>>

Places == {"queue", "daily", "main"}

AllLogs == DOMAIN Logs

Stored == {log \in AllLogs : place[log] # "queue"}

Idle    == [kind |-> "idle"]
Refused == [kind |-> "refused"]  \* answered with 400, or with no link
Failed  == [kind |-> "failed"]

Lines == (SUBSET AllLogs) \ {{}}

(* A query in progress: q are the filters of a statistics query, a note    *)
(* query itself; period is what a statistics query asked for.  walk is     *)
(* history: the client began with page 1, nothing has been flushed since,  *)
(* and walked are the lines of the pages before this one; still is         *)
(* history: nothing has been flushed since the page was asked for.         *)
Reading(kind, queries, periods) ==
    [kind : {kind}, q : queries, period : periods, number : Nat \ {0},
     page : SUBSET Lines, pageRead : BOOLEAN,
     total : 0..Cardinality(AllLogs), totalRead : BOOLEAN,
     walk : BOOLEAN, walked : SUBSET Lines, still : BOOLEAN]

NewReading(kind, q, period, number) ==
    [kind |-> kind, q |-> q, period |-> period, number |-> number,
     page |-> {}, pageRead |-> FALSE, total |-> 0, totalRead |-> FALSE,
     walk |-> number = 1, walked |-> {}, still |-> TRUE]

IsIdle    == call.kind = "idle"
IsReading == call.kind \in {"stats", "notes"}
IsRead    == IsReading /\ call.pageRead /\ call.totalRead

Init ==
    /\ zone \in Zones
    /\ place = [log \in AllLogs |-> "queue"]
    /\ call = Idle

(***************************************************************************)
(* The tables: a flush stores a log, and the migration moves it in one     *)
(* transaction.                                                            *)
(***************************************************************************)
Flush(log) ==
    /\ place[log] = "queue"
    /\ place' = [place EXCEPT ![log] = "daily"]
    /\ call' = IF IsReading THEN [call EXCEPT !.walk = FALSE, !.still = FALSE] ELSE call
    /\ UNCHANGED zone

Migrate(log) ==
    /\ place[log] = "daily"
    /\ place' = [place EXCEPT ![log] = "main"]
    /\ UNCHANGED <<zone, call>>

(***************************************************************************)
(* The statistics query: the two statements are sent together and answered *)
(* in any order.                                                           *)
(***************************************************************************)
AskStats ==
    /\ IsIdle
    /\ \E q \in StatsRequests[zone] :
          call' = IF AcceptsStats(q)
                  THEN NewReading("stats", Filters(q, zone), <<q.from, q.to>>, q.page)
                  ELSE Refused
    /\ UNCHANGED <<zone, place>>

ReadStatsRows ==
    /\ call.kind = "stats" /\ ~call.pageRead
    /\ IsLegal(StatsStatement(call.q))
    /\ \E page \in StatsPages(call.q, Stored) :
          call' = [call EXCEPT !.page = page, !.pageRead = TRUE]
    /\ UNCHANGED <<zone, place>>

ReadStatsTotal ==
    /\ call.kind = "stats" /\ ~call.totalRead
    /\ call' = [call EXCEPT !.total = Cardinality(StatsLines(call.q, Stored)), !.totalRead = TRUE]
    /\ UNCHANGED <<zone, place>>

(***************************************************************************)
(* The note access query: grouped rows are counted first, single rows are  *)
(* counted after the page, when they have to be.  The zone of the process  *)
(* plays no part: a bound asks these queries in UTC only.                  *)
(***************************************************************************)
NoteIsSound(q) == IsLegal(NoteStatement(q)) /\ TypeOrmPages(q)

AskNotes ==
    /\ IsIdle /\ zone = 0
    /\ \E q \in NoteRequests :
          call' = IF AcceptsSort(q) THEN NewReading("notes", q, <<>>, q.page) ELSE Refused
    /\ UNCHANGED <<zone, place>>

CountNotes ==
    /\ call.kind = "notes" /\ ~call.totalRead
    /\ IF IsGrouped(call.q) THEN NoteIsSound(call.q) ELSE call.pageRead
    /\ call' = [call EXCEPT !.total = Cardinality(NoteLines(call.q, Stored)),
                            !.totalRead = TRUE]
    /\ UNCHANGED <<zone, place>>

ReadNotes ==
    /\ call.kind = "notes" /\ ~call.pageRead
    /\ NoteIsSound(call.q)
    /\ IsGrouped(call.q) => call.totalRead
    /\ \E page \in NotePages(call.q, Stored) :
          call' = IF ~IsGrouped(call.q) /\ CountIsKnown(call.q, page)
                  THEN [call EXCEPT !.page = page, !.pageRead = TRUE,
                                    !.total = Skip(call.q) + Cardinality(page),
                                    !.totalRead = TRUE]
                  ELSE [call EXCEPT !.page = page, !.pageRead = TRUE]
    /\ UNCHANGED <<zone, place>>

(* MySQL refuses the statement: the answer is 500. *)
NotesFail ==
    /\ call.kind = "notes"
    /\ ~NoteIsSound(call.q)
    /\ call' = Failed
    /\ UNCHANGED <<zone, place>>

(* The client asks for the next page, as long as it is told of one. *)
HasNextPage == call.number < TotalPages(call.total, call.q.limit)

NextOf(q) ==
    IF call.kind = "stats" THEN [q EXCEPT !.offset = @ + q.limit] ELSE [q EXCEPT !.page = @ + 1]

TurnPage ==
    /\ IsRead
    /\ HasNextPage
    /\ call' = [NewReading(call.kind, NextOf(call.q), call.period, call.number + 1) EXCEPT
                  !.walk = call.walk, !.walked = call.walked \cup call.page]
    /\ UNCHANGED <<zone, place>>

(***************************************************************************)
(* Short links and visits.  They read no table: a bound lets them arrive   *)
(* before the first flush only.                                            *)
(***************************************************************************)
Untouched == IsIdle /\ Stored = {} /\ zone = 0

Follow ==
    /\ Untouched
    /\ \E link \in ShortLinks, context \in {UserContext(visitor) : visitor \in Visitors} :
          \E to \in Redirects(link, context) :
             call' = [kind |-> "redirect", link |-> link, context |-> context, to |-> to]
    /\ UNCHANGED <<zone, place>>

(* What is written to the log of a visit, and the payout it may earn. *)
Visited(link, request) ==
    [device  |-> DetectDevice(request.agent),
     browser |-> DetectBrowser(request.agent),
     os      |-> DetectOs(request.agent),
     country |-> SanitizeCountry(request.country),
     mask    |-> BuildDetectionMask(request.detected),
     payout  |-> Payout(link, request.country, request.agent)]

VisitFetched ==
    /\ Untouched
    /\ \E payload \in Payloads, request \in VisitRequests :
          call' = IF IsValidLink(payload)
                  THEN [kind |-> "visit", payload |-> payload, link |-> ParseLink(payload),
                        cached |-> FALSE, log |-> Visited(ParseLink(payload), request)]
                  ELSE Refused
    /\ UNCHANGED <<zone, place>>

(* A later visit finds the link in the cache. *)
VisitCached ==
    /\ call.kind = "visit" /\ ~call.cached
    /\ \E link \in {ParseStoredLink(call.link)}, request \in VisitRequests :
          call' = [call EXCEPT !.link = link, !.cached = TRUE, !.log = Visited(link, request)]
    /\ UNCHANGED <<zone, place>>

Done ==
    /\ IsRead \/ call.kind \in {"refused", "failed", "redirect", "visit"}
    /\ call' = Idle
    /\ UNCHANGED <<zone, place>>

Next ==
    \/ \E log \in AllLogs : Flush(log) \/ Migrate(log)
    \/ AskStats \/ AskNotes
    \/ ReadStatsRows \/ ReadStatsTotal
    \/ CountNotes \/ ReadNotes \/ NotesFail
    \/ TurnPage
    \/ Follow \/ VisitFetched \/ VisitCached
    \/ Done

ReadSpec == Init /\ [][Next]_vars

(***************************************************************************)
(* Properties                                                              *)
(***************************************************************************)
(* The type of the state. *)
ReadTypeOK ==
    /\ zone \in Zones
    /\ place \in [AllLogs -> Places]
    /\ \/ call \in {Idle, Refused, Failed}
       \/ call \in Reading("stats", StatsFilters, TemporalInput \X TemporalInput)
       \/ call \in Reading("notes", NoteRequest, {<<>>})
       \/ call.kind = "redirect" /\ DOMAIN call = {"kind", "link", "context", "to"}
       \/ call.kind = "visit" /\ IsValidLink(call.payload)
                              /\ call.log.payout \in Int /\ call.log.mask \in 0..7

(* MySQL takes every statement of an accepted statistics query: service    *)
(* and repository agree on what is a column and what an aggregate, revenue *)
(* being both, and created_at being date under groups.  Of the note        *)
(* queries it refuses those that sort by a name they do not group by, and  *)
(* no others: the order's columns are always among those TypeORM selects.  *)
SortsOutsideGroups(q) ==
    /\ IsGrouped(q)
    /\ \E s \in ToSet(q.sort) : s[1] \notin {"views", "revenue"} \cup ToSet(q.groups)

StatementsAreLegal ==
    /\ call.kind = "stats" => IsLegal(StatsStatement(call.q))
    /\ call.kind = "notes" => NoteIsSound(call.q) \/ SortsOutsideGroups(call.q)

(* A query without conditions is of the rows of the period it asks for: a  *)
(* date covers its day to the end, an instant its second, both in UTC, the *)
(* zone the answer names (meta.timezone) and the rows are stored in.       *)
InAskedPeriod(log, from, to) ==
    LET at == Logs[log].created_at
    IN /\ IF from.kind = "date" THEN DayOf(at) >= from.day ELSE at >= Instant(from)
       /\ IF to.kind = "date" THEN DayOf(at) <= to.day ELSE at <= Instant(to)

CountsAll == call.walk /\ call.totalRead /\ call.q.groupFields = {} /\ call.q.conditions = {}

PeriodsInUtc ==
    (call.kind = "stats" /\ CountsAll) =>
       call.total = Cardinality({log \in Stored :
                                    InAskedPeriod(log, call.period[1], call.period[2])})

(* What the code makes of it: no period is longer than MaxQueryDays, and   *)
(* it is the one asked for when the process runs in UTC; in another zone   *)
(* toMysqlDateTime writes its bounds in the time of that zone.             *)
PeriodsAsAsked ==
    /\ call.kind = "stats" => DayOf(call.q.endExclusive - 1 - call.q.startAt) < MaxQueryDays
    /\ zone = 0 => PeriodsInUtc

(* Page and total of an answer are of the same rows, and the client is     *)
(* told of a next page exactly when lines follow this one, unless logs     *)
(* were flushed meanwhile: the two come from two statements, of which the  *)
(* second may be left out.  A migration in between changes nothing, for a  *)
(* row is always in one of the tables.                                     *)
LinesNow ==
    IF call.kind = "stats" THEN StatsLines(call.q, Stored) ELSE NoteLines(call.q, Stored)

PageAndTotalAgree ==
    (IsRead /\ call.still) =>
       LET before == (call.number - 1) * call.q.limit
       IN /\ call.total = Cardinality(LinesNow)
          /\ HasNextPage <=> before + Cardinality(call.page) < call.total
          /\ before < call.total => call.page # {}

(* A client that turns the pages from the first to the last gets every row *)
(* of its query once, when nothing is flushed meanwhile and the order has  *)
(* no ties: offsets, totals and groups fit together, and rows that move to *)
(* the main table are neither lost nor read twice.                         *)
NoTies ==
    \A a, b \in LinesNow : a # b =>
       IF call.kind = "stats" THEN SortKey(call.q, a) # SortKey(call.q, b)
                              ELSE NoteBefore(call.q, a, b) \/ NoteBefore(call.q, b, a)

RowsNow ==
    IF call.kind = "stats" THEN Selected(call.q, Stored) ELSE NotesSelected(call.q, Stored)

WalksPartition ==
    (IsRead /\ call.walk /\ NoTies) =>
       LET got == call.walked \cup call.page
       IN /\ call.page \cap call.walked = {}
          /\ \A a, b \in got : a = b \/ a \cap b = {}
          /\ ~HasNextPage => UNION got = RowsNow

(* A visitor is sent to the link of a rule that admits him and that no     *)
(* other such rule beats, by priority and then by place in the list; with  *)
(* the strategies random and first, any such rule, or the first of them.   *)
(* A rule excludes only by conditions that are there, and one whose        *)
(* include names keys but no condition admits nobody.                      *)
Admits(rule, context) ==
    LET AllHold(group) == \A key \in DOMAIN group :
                             \/ group[key].kind = "empty"
                             \/ Holds(group[key], ContextValue(context, key))
        AllEmpty(group) == \A key \in DOMAIN group : group[key].kind = "empty"
    IN /\ rule.isRecord
       /\ AllEmpty(rule.exclude) \/ ~AllHold(rule.exclude)
       /\ DOMAIN rule.include = {} \/ (~AllEmpty(rule.include) /\ AllHold(rule.include))

Beats(settings, i, j) ==
    LET rules == settings.rules
    IN CASE Strategy(settings) = "random"   -> FALSE
         [] Strategy(settings) = "priority" ->
              \/ Priority(rules[i]) > Priority(rules[j])
              \/ Priority(rules[i]) = Priority(rules[j]) /\ i < j
         [] OTHER -> i < j

RedirectIsOfBestRule ==
    call.kind = "redirect" =>
       LET settings == call.link.settings
           admitted == {i \in DOMAIN RulesOf(settings) : Admits(settings.rules[i], call.context)}
           best     == {i \in admitted : \A j \in admitted : ~Beats(settings, j, i)}
       IN CASE call.link.status # "found" -> call.to = "404"
            [] call.to = "/" -> best = {} \/ \E i \in best : settings.rules[i].link = NoLink
            [] OTHER -> \E i \in best : settings.rules[i].link = call.to

(* A visit is paid by the last valid entry of the link for its country,    *)
(* however either of them writes the country, and by the default rate when *)
(* there is none; a link from the cache pays what the link from Laravel    *)
(* pays.                                                                   *)
VisitsPayTheirCountry ==
    call.kind = "visit" =>
       LET entries == call.payload.countries
           named == {i \in DOMAIN entries : /\ SanitizeCountry(entries[i].name) = call.log.country
                                            /\ ParseRate(entries[i].rate)}
           rate == IF named = {} THEN call.payload.default ELSE entries[Max(named)].rate
       IN call.log.payout = IF call.log.device = "mobile" THEN rate.payout.mobile[1]
                                                          ELSE rate.payout.desktop[1]
=============================================================================
