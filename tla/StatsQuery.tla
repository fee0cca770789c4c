----------------------------- MODULE StatsQuery -----------------------------
(***************************************************************************)
(* The statistics query: from the parameters of a request to the SQL       *)
(* statements TrackingRepository sends.                                    *)
(*                                                                         *)
(* A request q has: from, to, dates; select and orderBy, names of fields;  *)
(* groupFields and groups, sets of names, and groupBy, the older parameter *)
(* for them; direction; preset, a set of <<field, value>> pairs; where and *)
(* filters, sets of conditions; limit and page.  normalizeToken is applied *)
(* to every name before anything else is done with it: names are given     *)
(* trimmed and in lower case.                                              *)
(***************************************************************************)
EXTENDS Integers, Sequences, FiniteSets, FiniteSetsExt, SequencesExt, SqlReads

CONSTANTS
    MaxQueryDays,    \* STATS_QUERY_MAX_DAYS
    AgentsWithRow    \* the user agents that have a row in user_agents

ASSUME QueryAssumption == MaxQueryDays \in Nat

TemporalInput ==
    [kind : {"date"}, day : Int] \cup [kind : {"datetime"}, day : Int, second : Nat]
    \cup [kind : {"malformed"}]

RawCondition == [field : STRING, op : STRING, value : Seq(Int)]

StatsRequest ==
    [from : TemporalInput, to : TemporalInput, select : Seq(STRING), groupFields : SUBSET STRING,
     groups : SUBSET STRING, groupBy : STRING, orderBy : STRING, direction : STRING,
     preset : SUBSET (STRING \X Int), where : SUBSET RawCondition,
     filters : SUBSET RawCondition, limit : Nat \ {0}, page : Nat \ {0}]

(***************************************************************************)
(* Fields                                                                  *)
(***************************************************************************)
AgentFields  == {"user_agents.browser", "user_agents.os", "user_agents.raw"}
DateFields   == {"created_at", "date"}
NumberFields == {"link_id", "user_id", "device", "is_earn", "revenue", "detection_mask",
                 "reject_reason_mask"}
DataFields   == DateFields \cup NumberFields \cup AgentFields \cup {"ip_address", "country"}
MetricFields == {"views", "revenue", "earn_views", "unique_users", "unique_ips"}

NotGroupable == {"revenue"}

(* The other names of a field. *)
Aliases(field) ==
    {field} \cup
    CASE field = "created_at"         -> {"createdat"}
      [] field = "date"               -> {"created"}
      [] field = "link_id"            -> {"linkid", "link"}
      [] field = "user_id"            -> {"userid", "user"}
      [] field = "ip_address"         -> {"ipaddress", "ip"}
      [] field = "is_earn"            -> {"isearn"}
      [] field = "detection_mask"     -> {"detectionmask", "detection"}
      [] field = "reject_reason_mask" -> {"rejectreasonmask", "reject_reason"}
      [] field = "views"              -> {"view"}
      [] field = "earn_views"         -> {"earnviews"}
      [] field = "unique_users"       -> {"uniqueusers"}
      [] field = "unique_ips"         -> {"uniqueips"}
      [] OTHER                        -> {}

NoField == "no field"

(* The two maps of buildAliasMaps. *)
FilterAliasMap ==
    [name \in UNION {Aliases(f) : f \in DataFields} |->
       CHOOSE f \in DataFields : name \in Aliases(f)]

SelectableAliasMap ==
    [name \in {"sum_revenue"} \cup UNION {Aliases(f) : f \in DataFields \cup MetricFields} |->
       IF name = "sum_revenue" THEN "revenue"
       ELSE CHOOSE f \in DataFields \cup MetricFields : name \in Aliases(f)]

FilterField(name) ==
    IF name \in DOMAIN FilterAliasMap THEN FilterAliasMap[name] ELSE NoField

SelectableField(name) ==
    IF name \in DOMAIN SelectableAliasMap THEN SelectableAliasMap[name] ELSE NoField

(***************************************************************************)
(* The period                                                              *)
(***************************************************************************)
(* Dates of a request: [kind |-> "date", day], [kind |-> "datetime", day,  *)
(* second], or [kind |-> "malformed"], which stands for an absent one too. *)
IsTemporal(t) == t.kind \in {"date", "datetime"}

Instant(t) == t.day * Day + (IF t.kind = "datetime" THEN t.second ELSE 0)

(* A mutant of EndExclusive: a date is its midnight. *)
EndExclusiveOfInstant(q) == Instant(q.to) + 1

EndExclusive(q) == Instant(q.to) + (IF q.to.kind = "date" THEN Day ELSE 1)

(* toMysqlDateTime writes an instant in the zone of the process, zone      *)
(* ticks ahead of UTC.                                                     *)
ToMysqlDateTime(instant, zone) == instant + zone

DaysCovered(q) == (EndExclusive(q) - Instant(q.from) + Day - 1) \div Day

AcceptsRange(q) ==
    /\ IsTemporal(q.from) /\ IsTemporal(q.to)
    /\ Instant(q.from) <= Instant(q.to)
    /\ DaysCovered(q) <= MaxQueryDays

(***************************************************************************)
(* Groups, columns and order                                               *)
(***************************************************************************)
GroupField(name) ==
    IF FilterField(name) = "created_at" THEN "date" ELSE FilterField(name)

LegacyGroups(groupBy) ==
    CASE groupBy = "none"      -> {}
      [] groupBy = "date"      -> {"date"}
      [] groupBy = "link"      -> {"link_id"}
      [] groupBy = "user"      -> {"user_id"}
      [] groupBy = "date_link" -> {"date", "link_id"}
      [] groupBy = "date_user" -> {"date", "user_id"}
      [] groupBy = "link_user" -> {"link_id", "user_id"}
      [] OTHER                 -> {"date", "link_id", "user_id"}

GroupFields(q) ==
    {GroupField(name) : name \in q.groupFields \cup q.groups} \cup LegacyGroups(q.groupBy)

AcceptsGroups(q) == GroupFields(q) \subseteq DataFields \ NotGroupable

IsAggregate(q) == GroupFields(q) # {}

(* created_at stands for date when the rows are grouped by date. *)
InMode(field, q) ==
    IF field = "created_at" /\ "date" \in GroupFields(q) THEN "date" ELSE field

FitsMode(field, q) ==
    IF IsAggregate(q) THEN field \in MetricFields \cup GroupFields(q) ELSE field \in DataFields

DefaultMetrics == {"views", "revenue", "earn_views"}

DefaultColumns == {"created_at", "link_id", "user_id", "ip_address", "country", "device",
                   "is_earn", "revenue", "detection_mask", "reject_reason_mask"}

SelectFields(q) ==
    IF q.select # <<>> THEN {InMode(SelectableField(name), q) : name \in ToSet(q.select)}
    ELSE IF IsAggregate(q) THEN GroupFields(q) \cup DefaultMetrics ELSE DefaultColumns

AcceptsSelect(q) == \A field \in SelectFields(q) : FitsMode(field, q)

OrderBy(q) ==
    IF q.orderBy # "none" THEN InMode(SelectableField(q.orderBy), q)
    ELSE IF ~IsAggregate(q) THEN "created_at"
    ELSE IF "date" \in GroupFields(q) THEN "date"
    ELSE IF "views" \in SelectFields(q) THEN "views"
    ELSE InMode(SelectableField(q.select[1]), q)

AcceptsOrder(q) ==
    \/ q.orderBy = "none"
    \/ FitsMode(InMode(SelectableField(q.orderBy), q), q)

(***************************************************************************)
(* Conditions                                                              *)
(***************************************************************************)
(* A raw condition: names of a field and an operator, and a value, the     *)
(* sequence of its items.  What is not JSON, not a list, or no condition   *)
(* has NoField.  An item is a number, Junk (a text that is no number and   *)
(* no date), or Blank (null or an empty text).                             *)
Junk  == -1
Blank == -2

Operators == {"=", "!=", "<>", ">", ">=", "<", "<=", "LIKE", "NOT LIKE", "IN", "NOT IN",
              "BETWEEN", "NOT BETWEEN"}

NormalizeOperator(op) ==
    CASE op = "NOT_IN" -> "NOT IN" [] op = "NOT_LIKE" -> "NOT LIKE" [] OTHER -> op

(* An operator on one item takes a list for the text of the list. *)
ScalarOf(value) ==
    CASE Len(value) = 0 -> Blank [] Len(value) = 1 -> value[1] [] OTHER -> Junk

Operands(op, value) ==
    IF op \in {"IN", "NOT IN", "BETWEEN", "NOT BETWEEN"} THEN value ELSE <<ScalarOf(value)>>

AcceptsItem(field, item) ==
    /\ field \in NumberFields => item # Junk
    /\ field \in DateFields   => item \notin {Junk, Blank}

(* Number(null) is 0; an instant is written in the zone of the process,    *)
(* and so is a date, the midnight of UTC.                                  *)
NormalizeItem(field, item, zone) ==
    CASE field \in NumberFields /\ item = Blank -> 0
      [] field = "created_at" -> ToMysqlDateTime(item, zone)
      [] field = "date"       -> DayOf(ToMysqlDateTime(item * Day, zone))
      [] OTHER                -> item

RawConditions(q) ==
    {[field |-> p[1], op |-> "=", value |-> <<p[2]>>] : p \in q.preset}
    \cup q.where \cup q.filters

AcceptsCondition(c) ==
    LET op    == NormalizeOperator(c.op)
        items == Operands(op, c.value)
    IN /\ FilterField(c.field) # NoField
       /\ op \in Operators
       /\ op \in {"IN", "NOT IN"} => items # <<>>
       /\ op \in {"BETWEEN", "NOT BETWEEN"} => Len(items) = 2
       /\ \A i \in DOMAIN items : AcceptsItem(FilterField(c.field), items[i])

Condition(c, zone) ==
    LET field == FilterField(c.field)
        op    == NormalizeOperator(c.op)
        items == Operands(op, c.value)
    IN [field |-> field, op |-> op,
        operands |-> [i \in DOMAIN items |-> NormalizeItem(field, items[i], zone)]]

(* queryStats sends nothing unless the whole request is accepted; a        *)
(* refused one is answered with 400.                                       *)
AcceptsStats(q) ==
    /\ AcceptsRange(q)
    /\ AcceptsGroups(q) /\ AcceptsSelect(q) /\ AcceptsOrder(q)
    /\ \A c \in RawConditions(q) : AcceptsCondition(c)

(* What queryStats passes to the repository. *)
StatsFilters ==
    LET fields == DataFields \cup MetricFields
    IN [startAt : Int, endExclusive : Int, selectFields : SUBSET fields,
        groupFields : SUBSET (DataFields \ NotGroupable), limit : Nat \ {0}, offset : Nat,
        orderBy : fields, descending : BOOLEAN,
        conditions : SUBSET [field : DataFields, op : Operators, operands : Seq(Int)]]

Filters(q, zone) ==
    [startAt      |-> ToMysqlDateTime(Instant(q.from), zone),
     endExclusive |-> ToMysqlDateTime(EndExclusive(q), zone),
     selectFields |-> SelectFields(q),
     groupFields  |-> GroupFields(q),
     limit        |-> q.limit,
     offset       |-> (q.page - 1) * q.limit,
     orderBy      |-> OrderBy(q),
     descending   |-> q.direction = "desc",
     conditions   |-> {Condition(c, zone) : c \in RawConditions(q)}]

(***************************************************************************)
(* The statements of the repository for filters f                          *)
(***************************************************************************)
(* What a field is in SQL; the LEFT JOIN makes all user agents without a   *)
(* row one.  An agent stands for its browser, its os and its text.         *)
ValueOf(log, field) ==
    CASE field = "date"        -> DayOf(Logs[log].created_at)
      [] field \in AgentFields -> IF Logs[log].agent \in AgentsWithRow THEN Logs[log].agent
                                                                     ELSE 0
      [] OTHER                 -> Logs[log][field]

(* A mutant of Expression: revenue is the metric in every mode. *)
ExpressionOfMetric(field, f) ==
    IF field \in MetricFields THEN Aggregate(field) ELSE Column(field)

(* revenue is a column of a log and the sum of a group. *)
Expression(field, f) ==
    IF field \in MetricFields /\ (f.groupFields # {} \/ field # "revenue")
    THEN Aggregate(field) ELSE Column(field)

StatsStatement(f) ==
    [select  |-> {Expression(field, f) : field \in f.selectFields},
     groupBy |-> {Column(field) : field \in f.groupFields},
     orderBy |-> {Expression(f.orderBy, f)}]

(* The rows the statement reads; created_at is stored in UTC. *)
Selected(f, stored) ==
    {log \in stored :
        /\ Logs[log].created_at >= f.startAt
        /\ Logs[log].created_at < f.endExclusive
        /\ \A c \in f.conditions : Compares(c.op, ValueOf(log, c.field), c.operands)}

(* A line of the answer is the set of logs it is made of: one, or those    *)
(* that agree on the group fields.                                         *)
StatsLines(f, stored) ==
    IF f.groupFields = {} THEN {{log} : log \in Selected(f, stored)}
    ELSE LET selected == Selected(f, stored)
         IN {{s \in selected : \A field \in f.groupFields : ValueOf(r, field) = ValueOf(s, field)} :
                r \in selected}

Metric(metric, line) ==
    CASE metric = "views"        -> Cardinality(line)
      [] metric = "revenue"      -> SumFunctionOnSet([r \in line |-> Logs[r].revenue], line)
      [] metric = "earn_views"   -> Cardinality({r \in line : Logs[r].is_earn = 1})
      [] metric = "unique_users" -> Cardinality({Logs[r].user_id : r \in line})
      [] metric = "unique_ips"   -> Cardinality({Logs[r].ip_address : r \in line})

SortKey(f, line) ==
    LET e == Expression(f.orderBy, f)
    IN IF e.kind = "aggregate" THEN Metric(e.name, line)
                               ELSE ValueOf(CHOOSE r \in line : TRUE, e.name)

StatsBefore(f, a, b) ==
    IF f.descending THEN SortKey(f, a) > SortKey(f, b) ELSE SortKey(f, a) < SortKey(f, b)

StatsPages(f, stored) ==
    LET Before(a, b) == StatsBefore(f, a, b)
    IN Pages(StatsLines(f, stored), Before, f.limit, f.offset)

(* A mutant of TotalPages: a last page that is not full is forgotten. *)
FullPages(total, limit) == total \div limit

TotalPages(total, limit) == (total + limit - 1) \div limit
=============================================================================
