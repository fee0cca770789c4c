------------------------- MODULE ReadRequestsProofs -------------------------
(***************************************************************************)
(* Proofs about the requests of ReadRequests: for any logs, queries, short *)
(* links and payloads, the answers are what ReadRequests says of them.     *)
(*                                                                         *)
(* The inductive invariant ReadInv says of a query in progress that it is  *)
(* a page of an accepted request, that what is known of its answer is true *)
(* of the stored logs unless some were flushed meanwhile, and that the     *)
(* pages a walk has seen are the lines that come first; of a redirect that *)
(* it is one of those its link and context give, and of a visit that its   *)
(* log was written from the link Laravel answered with.                    *)
(***************************************************************************)
EXTENDS ReadRequests, SumProofs, FunctionTheorems

(***************************************************************************)
(* Numbers                                                                 *)
(***************************************************************************)
(* The maximum of a finite set of numbers.                                 *)
LEMMA MaxOf ==
    ASSUME NEW n \in Nat, NEW S \in SUBSET (1..n), S # {}
    PROVE  Max(S) \in S /\ \A x \in S : x <= Max(S)
<1> DEFINE T == {n - x : x \in S}
<1>1. T \in SUBSET Nat /\ T # {}
  <2>1. \A x \in S : x \in Nat /\ n - x \in Nat
      OBVIOUS
  <2> QED BY <2>1
<1>2. PICK m \in T : \A k \in T : m <= k
    BY <1>1, LeastNumber
<1>3. PICK x \in S : m = n - x
    BY <1>2
<1>4. \A y \in S : x >= y
  <2>1. TAKE y \in S
  <2>2. m <= n - y
      BY <1>2
  <2> QED BY <2>2, <1>3
<1>5. x \in S /\ \A y \in S : x >= y
    BY <1>3, <1>4
<1>6. Max(S) \in S /\ \A y \in S : Max(S) >= y
    BY <1>5 DEF Max
<1> QED BY <1>6

(* The library's Min of numbers up to n is the least of them.              *)
LEMMA LeastOf ==
    ASSUME NEW n \in Nat, NEW S \in SUBSET (1..n), S # {}
    PROVE  Min(S) \in S /\ \A x \in S : ~(x < Min(S))
<1>1. S \in SUBSET Nat
    OBVIOUS
<1>2. PICK m \in S : \A x \in S : m <= x
    BY <1>1, LeastNumber
<1> DEFINE least == Min(S)
<1>3. least \in S /\ \A x \in S : least <= x
    BY <1>2 DEF Min
<1> HIDE DEF least
<1>4. ASSUME NEW x \in S PROVE ~(x < least)
  <2>1. x \in Int /\ least \in Int /\ least <= x
      BY <1>1, <1>3
  <2> QED BY <2>1
<1> QED BY <1>3, <1>4 DEF least

(* The library's Min of two numbers.                                       *)
LEMMA MinOfTwo ==
    ASSUME NEW a \in Int, NEW b \in Int
    PROVE  Min({a, b}) = IF a <= b THEN a ELSE b
BY DEF Min

(***************************************************************************)
(* Links and their rates                                                   *)
(***************************************************************************)
(* A code that has been sanitized is left as it is.                        *)
LEMMA SanitizedOnce ==
    ASSUME NEW name
    PROVE  SanitizeCountry(SanitizeCountry(name)) = SanitizeCountry(name)
BY CodeAssumption DEF SanitizeCountry

(* The countries of a link have sanitized names, and a link from the cache *)
(* is the link that was stored.                                            *)
LEMMA StoredLinkIsTheLink ==
    ASSUME NEW payload \in Payload
    PROVE  ParseStoredLink(ParseLink(payload)) = ParseLink(payload)
<1> DEFINE link  == ParseLink(payload)
           names == DOMAIN link.countries
           again == [code \in {SanitizeCountry(name) : name \in names} |->
                       link.countries[CHOOSE name \in names : SanitizeCountry(name) = code]]
<1>1. link.countries = ParsedCountries(payload.countries)
    BY DEF ParseLink
<1>2. \A name \in names : SanitizeCountry(name) = name
    BY <1>1, SanitizedOnce DEF ParsedCountries
<1>3. {SanitizeCountry(name) : name \in names} = names
    BY <1>2
<1>4. \A code \in names : (CHOOSE name \in names : SanitizeCountry(name) = code) = code
    BY <1>2
<1>5. link.countries = [code \in names |-> link.countries[code]]
    BY <1>1 DEF ParsedCountries
<1>6. again = [code \in names |-> link.countries[code]]
    BY <1>3, <1>4
<1>7. again = link.countries
    BY <1>5, <1>6
<1>8. ParseStoredLink(link) = [link EXCEPT !.countries = again]
    BY DEF ParseStoredLink
<1>9. link = [status |-> link.status, default |-> link.default, countries |-> link.countries]
    BY DEF ParseLink
<1> HIDE DEF again, link
<1>10. [link EXCEPT !.countries = link.countries] = link
    BY <1>9
<1> QED BY <1>7, <1>8, <1>10 DEF link

(* The rate of a country is that of its last valid entry.                  *)
Named(payload, code) ==
    {i \in DOMAIN payload.countries : /\ SanitizeCountry(payload.countries[i].name) = code
                                      /\ ParseRate(payload.countries[i].rate)}

RateOfCode(payload, code) ==
    IF Named(payload, code) = {} THEN payload.default
                                 ELSE payload.countries[Max(Named(payload, code))].rate

(* The rate a parsed link gives a country is that of its last valid entry  *)
(* in the payload, or the default.                                         *)
LEMMA LastEntryPays ==
    ASSUME NEW payload \in Payload, NEW name
    PROVE  ResolveRate(ParseLink(payload), name) = RateOfCode(payload, SanitizeCountry(name))
<1> DEFINE code    == SanitizeCountry(name)
           entries == payload.countries
           valid   == {i \in DOMAIN entries : ParseRate(entries[i].rate)}
           named   == Named(payload, code)
           last    == CHOOSE i \in valid : /\ SanitizeCountry(entries[i].name) = code
                                           /\ \A j \in valid : SanitizeCountry(entries[j].name) = code => j <= i
           parsed  == ParsedCountries(entries)
<1>1. entries \in Seq([name : STRING, rate : Rate])
    BY DEF Payload
<1>2. ParseLink(payload).countries = parsed /\ ParseLink(payload).default = payload.default
    BY DEF ParseLink
<1>3. DOMAIN parsed = {SanitizeCountry(entries[i].name) : i \in valid}
    BY DEF ParsedCountries
<1>4. named = {i \in valid : SanitizeCountry(entries[i].name) = code}
    BY DEF Named
<1>5. code \in DOMAIN parsed <=> named # {}
    BY <1>3, <1>4
<1>6. CASE named = {}
    BY <1>2, <1>5, <1>6 DEF ResolveRate, RateOfCode
<1>7. CASE named # {}
  <2>1. named \in SUBSET (1..Len(entries)) /\ Len(entries) \in Nat
      BY <1>1, <1>4
  <2>2. Max(named) \in named /\ \A i \in named : i <= Max(named)
      BY <2>1, <1>7, MaxOf
  <2>3. parsed[code] = entries[last].rate
      BY <1>5, <1>7, <1>3 DEF ParsedCountries
  <2>4. last \in valid /\ SanitizeCountry(entries[last].name) = code
        /\ \A j \in valid : SanitizeCountry(entries[j].name) = code => j <= last
    <3> HIDE DEF code, valid, entries
    <3>1. \E i \in valid : /\ SanitizeCountry(entries[i].name) = code
                           /\ \A j \in valid : SanitizeCountry(entries[j].name) = code => j <= i
        BY <2>2, <1>4
    <3> QED BY <3>1
  <2>5. last \in named /\ \A i \in named : i <= last
      BY <2>4, <1>4
  <2>6. last = Max(named)
    <3> HIDE DEF last, named
    <3>1. last <= Max(named) /\ Max(named) <= last /\ last \in Int /\ Max(named) \in Int
      <4>1. named \subseteq Int
          BY <2>1
      <4>2. last \in Int /\ Max(named) \in Int
          BY <4>1, <2>2, <2>5
      <4>3. last <= Max(named)
          BY <2>2, <2>5
      <4>4. Max(named) <= last
          BY <2>2, <2>5
      <4> QED BY <4>2, <4>3, <4>4
    <3> QED BY <3>1
  <2>7. RateOfCode(payload, code) = entries[Max(named)].rate
      BY <1>7 DEF RateOfCode
  <2>8. ResolveRate(ParseLink(payload), name) = parsed[code]
      BY <1>2, <1>5, <1>7 DEF ResolveRate
  <2> HIDE DEF last, named, parsed, code
  <2> QED BY <2>3, <2>6, <2>7, <2>8 DEF code
<1> QED BY <1>6, <1>7

(***************************************************************************)
(* The statements                                                          *)
(***************************************************************************)
(* Every field of an accepted select list, and the one it is sorted by,    *)
(* fits the mode.                                                          *)
LEMMA AcceptedOrderFits ==
    ASSUME NEW q \in StatsRequest, AcceptsStats(q)
    PROVE  FitsMode(OrderBy(q), q)
<1>1. CASE q.orderBy # "none"
    BY <1>1 DEF OrderBy, AcceptsStats, AcceptsOrder
<1>2. CASE q.orderBy = "none" /\ ~IsAggregate(q)
    BY <1>2 DEF OrderBy, FitsMode, DataFields, DateFields
<1>3. CASE q.orderBy = "none" /\ IsAggregate(q) /\ "date" \in GroupFields(q)
    BY <1>3 DEF OrderBy, FitsMode
<1>4. CASE /\ q.orderBy = "none" /\ IsAggregate(q) /\ "date" \notin GroupFields(q)
           /\ "views" \in SelectFields(q)
    BY <1>4 DEF OrderBy, FitsMode, MetricFields
<1>5. CASE /\ q.orderBy = "none" /\ IsAggregate(q) /\ "date" \notin GroupFields(q)
           /\ "views" \notin SelectFields(q)
  <2>1. q.select # <<>>
      BY <1>5 DEF SelectFields, DefaultMetrics
  <2>2. q.select \in Seq(STRING)
      BY DEF StatsRequest
  <2>3. 1 \in DOMAIN q.select
      BY <2>1, <2>2
  <2>4. q.select[1] \in ToSet(q.select)
      BY <2>3 DEF ToSet
  <2>5. InMode(SelectableField(q.select[1]), q) \in SelectFields(q)
      BY <2>1, <2>4 DEF SelectFields
  <2> QED BY <1>5, <2>5 DEF OrderBy, AcceptsStats, AcceptsSelect
<1> QED BY <1>1, <1>2, <1>3, <1>4, <1>5

(* An expression of a field that fits is legal.                            *)
LEMMA FittingFieldIsLegal ==
    ASSUME NEW q, NEW f, f.groupFields = GroupFields(q), NEW field, FitsMode(field, q)
    PROVE  LET e == Expression(field, f)
           IN  IF {Column(g) : g \in f.groupFields} = {} THEN e.kind = "column"
               ELSE e.kind = "aggregate" \/ e \in {Column(g) : g \in f.groupFields}
<1>1. CASE f.groupFields = {}
  <2>1. field \in DataFields
      BY <1>1 DEF FitsMode, IsAggregate
  <2>2. field \in MetricFields => field = "revenue"
      BY <2>1 DEF DataFields, MetricFields, DateFields, NumberFields, AgentFields
  <2> QED BY <1>1, <2>2 DEF Expression, Column
<1>2. CASE f.groupFields # {}
  <2>1. field \in MetricFields \cup f.groupFields
      BY <1>2 DEF FitsMode, IsAggregate
  <2> QED BY <1>2, <2>1 DEF Expression, Column, Aggregate
<1> QED BY <1>1, <1>2

(* MySQL takes the statement of an accepted statistics query, whatever     *)
(* page it is asked for.                                                   *)
LEMMA AcceptedStatsAreLegal ==
    ASSUME NEW q \in StatsRequest, AcceptsStats(q), NEW f,
           f.groupFields = GroupFields(q), f.selectFields = SelectFields(q),
           f.orderBy = OrderBy(q)
    PROVE  IsLegal(StatsStatement(f))
<1>1. \A field \in f.selectFields \cup {f.orderBy} : FitsMode(field, q)
    BY AcceptedOrderFits DEF AcceptsStats, AcceptsSelect
<1> DEFINE s == StatsStatement(f)
<1>2. s.groupBy = {Column(g) : g \in f.groupFields}
    BY DEF StatsStatement
<1>3. s.select \cup s.orderBy = {Expression(field, f) : field \in f.selectFields \cup {f.orderBy}}
    BY DEF StatsStatement
<1>4. \A field \in f.selectFields \cup {f.orderBy} :
         LET e == Expression(field, f)
         IN  IF s.groupBy = {} THEN e.kind = "column" ELSE e.kind = "aggregate" \/ e \in s.groupBy
    BY <1>1, <1>2, FittingFieldIsLegal
<1> HIDE DEF s
<1> QED BY <1>3, <1>4 DEF IsLegal, s

(* A note query is refused by MySQL only when it sorts by a name it does   *)
(* not group by.                                                           *)
LEMMA AcceptedNotesAreLegal ==
    ASSUME NEW q, q.groups \in Seq(STRING)
    PROVE  NoteIsSound(q) \/ SortsOutsideGroups(q)
<1> DEFINE s == NoteStatement(q)
<1>1. CASE ~IsGrouped(q)
  <2>1. ToSet(q.groups) = {} /\ s.groupBy = {}
      BY <1>1 DEF IsGrouped, ToSet, NoteStatement
  <2>2. \A e \in s.select \cup s.orderBy : e.kind = "column"
      BY <1>1 DEF NoteStatement, NoteOrderExpression, Column
  <2>3. IsLegal(s)
      BY <2>1, <2>2 DEF IsLegal
  <2>4. TypeOrmPages(q)
    <3>1. SUFFICES ASSUME JoinsAgents(q) PROVE s.orderBy \subseteq s.select
        BY DEF TypeOrmPages
    <3>2. q.selects # {}
        BY <3>1 DEF JoinsAgents
    <3>3. s.select = {Column(c) : c \in NoteColumns(q)}
        BY <1>1 DEF NoteStatement
    <3>4. s.orderBy = {Column(t[1]) : t \in ToSet(Sorting(q))}
        BY <1>1 DEF NoteStatement, NoteOrderExpression
    <3>5. {t[1] : t \in ToSet(Sorting(q))} \subseteq NoteColumns(q)
        BY <3>2 DEF NoteColumns
    <3> HIDE DEF s
    <3> QED BY <3>3, <3>4, <3>5
  <2> QED BY <2>3, <2>4 DEF NoteIsSound
<1>2. CASE IsGrouped(q) /\ ~SortsOutsideGroups(q)
  <2>1. TypeOrmPages(q)
      BY <1>2 DEF TypeOrmPages, JoinsAgents
  <2>2. s.groupBy = {Column(g) : g \in ToSet(q.groups)}
      BY DEF NoteStatement
  <2>3. q.groups[1] \in ToSet(q.groups)
      BY <1>2 DEF ToSet, IsGrouped
  <2>4. s.groupBy # {}
      BY <2>2, <2>3
  <2>5. \A t \in ToSet(Sorting(q)) : t[1] \in {"views", "revenue"} \cup ToSet(q.groups)
    <3>1. CASE q.sort # <<>>
        BY <3>1, <1>2 DEF Sorting, SortsOutsideGroups
    <3>2. CASE q.sort = <<>>
      <4>1. ToSet(Sorting(q)) = {<<q.groups[1], IF q.groups[1] = "date" THEN "DESC" ELSE "ASC">>}
          BY <3>2, <1>2 DEF Sorting, ToSet
      <4> QED BY <4>1, <2>3
    <3> QED BY <3>1, <3>2
  <2>6. \A e \in s.orderBy : e.kind = "aggregate" \/ e \in s.groupBy
    <3>1. \A t \in ToSet(Sorting(q)) : \/ NoteOrderExpression(t[1], q).kind = "aggregate"
                                       \/ NoteOrderExpression(t[1], q) \in s.groupBy
        BY <2>5, <2>2, <1>2 DEF NoteOrderExpression, Aggregate
    <3>2. s.orderBy = {NoteOrderExpression(t[1], q) : t \in ToSet(Sorting(q))}
        BY DEF NoteStatement
    <3> HIDE DEF s
    <3> QED BY <3>1, <3>2
  <2>7. \A e \in s.select : e.kind = "aggregate" \/ e \in s.groupBy
      BY <1>2 DEF NoteStatement, Aggregate
  <2> HIDE DEF s
  <2>8. IsLegal(s)
      BY <2>4, <2>6, <2>7 DEF IsLegal
  <2> QED BY <2>1, <2>8 DEF NoteIsSound, s
<1> QED BY <1>1, <1>2

(***************************************************************************)
(* Pages and periods in numbers                                            *)
(***************************************************************************)
(* A quotient is at least the numbers whose multiple is at most the        *)
(* dividend.                                                               *)
LEMMA QuotientAtLeast ==
    ASSUME NEW a \in Int, NEW d \in Nat \ {0}, NEW n \in Int
    PROVE  n <= a \div d <=> n * d <= a
<1> DEFINE k == a \div d
           m == a % d
<1>1. k \in Int /\ m \in 0..(d - 1) /\ a = d * k + m
    OBVIOUS
<1> HIDE DEF k, m
<1>2. ASSUME n <= k PROVE n * d <= a
  <2>1. d * (k - n) >= 0
      BY <1>1, <1>2
  <2>2. d * (k - n) = d * k - n * d
      BY <1>1
  <2>3. d * k \in Int /\ n * d \in Int
      BY <1>1
  <2> QED BY <1>1, <2>1, <2>2, <2>3
<1>3. ASSUME ~(n <= k) PROVE ~(n * d <= a)
  <2>1. n - k - 1 >= 0
      BY <1>1, <1>3
  <2>2. d * (n - k - 1) >= 0
      BY <1>1, <2>1
  <2>3. d * (n - k - 1) = n * d - d * k - d
      BY <1>1
  <2>4. d * k \in Int /\ n * d \in Int
      BY <1>1
  <2> QED BY <1>1, <2>2, <2>3, <2>4
<1> QED BY <1>2, <1>3 DEF k

(* The client is told of a next page when lines follow the full pages.     *)
LEMMA PagesFollow ==
    ASSUME NEW total \in Nat, NEW limit \in Nat \ {0}, NEW number \in Nat
    PROVE  number < TotalPages(total, limit) <=> number * limit < total
<1>1. number + 1 <= TotalPages(total, limit) <=> (number + 1) * limit <= total + limit - 1
    BY QuotientAtLeast DEF TotalPages
<1>2. TotalPages(total, limit) \in Int
    BY DEF TotalPages
<1>3. (number + 1) * limit = number * limit + limit /\ number * limit \in Int
    OBVIOUS
<1>4. (number + 1) * limit <= total + limit - 1 <=> number * limit < total
    BY <1>3
<1>5. number + 1 <= TotalPages(total, limit) <=> number < TotalPages(total, limit)
    BY <1>2
<1> QED BY <1>1, <1>4, <1>5

(* A time is on a day or later, and on it or earlier.                      *)
LEMMA DayBounds ==
    ASSUME NEW at \in Int, NEW day \in Int
    PROVE  /\ DayOf(at) >= day <=> at >= day * Day
           /\ DayOf(at) <= day <=> at < day * Day + Day
<1>1. Day \in Nat \ {0}
    BY DayAssumption
<1>2. DayOf(at) \in Int
    BY <1>1 DEF DayOf
<1>3. day <= DayOf(at) <=> day * Day <= at
    BY <1>1, QuotientAtLeast DEF DayOf
<1>4. day + 1 <= DayOf(at) <=> (day + 1) * Day <= at
    BY <1>1, QuotientAtLeast DEF DayOf
<1>5. (day + 1) * Day = day * Day + Day /\ day * Day \in Int
    BY <1>1
<1>6. DayOf(at) >= day <=> at >= day * Day
    BY <1>2, <1>3, <1>5
<1>7. DayOf(at) <= day <=> ~(day + 1 <= DayOf(at))
    BY <1>2
<1>8. at < day * Day + Day <=> ~((day + 1) * Day <= at)
    BY <1>1, <1>5
<1> QED BY <1>4, <1>6, <1>7, <1>8

(* The bounds of an accepted period.                                       *)
LEMMA PeriodBounds ==
    ASSUME NEW q \in StatsRequest, AcceptsRange(q)
    PROVE  /\ Instant(q.from) \in Int /\ EndExclusive(q) \in Int
           /\ DayOf(EndExclusive(q) - 1 - Instant(q.from)) < MaxQueryDays
           /\ \A at \in Int :
                 (at >= Instant(q.from) /\ at < EndExclusive(q))
                 <=> /\ IF q.from.kind = "date" THEN DayOf(at) >= q.from.day
                                                ELSE at >= Instant(q.from)
                     /\ IF q.to.kind = "date" THEN DayOf(at) <= q.to.day
                                              ELSE at <= Instant(q.to)
<1> DEFINE S == Instant(q.from)
           E == EndExclusive(q)
<1>0. Day \in Nat \ {0} /\ MaxQueryDays \in Nat
    BY DayAssumption, QueryAssumption
<1>1. ASSUME NEW t \in {q.from, q.to}
      PROVE  /\ t.kind \in {"date", "datetime"} /\ t.day \in Int
             /\ t.kind = "datetime" => t.second \in Nat
  <2>1. t \in TemporalInput /\ t.kind \in {"date", "datetime"}
      BY DEF StatsRequest, AcceptsRange, IsTemporal
  <2>2. CASE t \in [kind : {"date"}, day : Int]
      BY <2>2
  <2>3. CASE t \in [kind : {"datetime"}, day : Int, second : Nat]
      BY <2>3
  <2>4. CASE t \in [kind : {"malformed"}]
      BY <2>1, <2>4
  <2> QED BY <2>1, <2>2, <2>3, <2>4 DEF TemporalInput
<1>2. ASSUME NEW t \in {q.from, q.to}
      PROVE  /\ Instant(t) \in Int
             /\ t.kind = "date" => Instant(t) = t.day * Day
  <2>1. t.day * Day \in Int
      BY <1>0, <1>1
  <2> QED BY <1>1, <2>1 DEF Instant
<1>3. E = Instant(q.to) + (IF q.to.kind = "date" THEN Day ELSE 1)
    BY DEF EndExclusive
<1>4. S \in Int /\ E \in Int
    BY <1>0, <1>2, <1>3
<1>5. DayOf(E - 1 - S) < MaxQueryDays
  <2> HIDE DEF S, E
  <2>1. (E - S + Day - 1) \div Day <= MaxQueryDays
      BY DEF AcceptsRange, DaysCovered, S, E
  <2>2. (E - S + Day - 1) \div Day \in Int /\ E - S + Day - 1 \in Int /\ E - 1 - S \in Int
      BY <1>0, <1>4
  <2>3. ~(MaxQueryDays + 1 <= (E - S + Day - 1) \div Day)
      BY <2>1, <2>2, <1>0
  <2>4. ~((MaxQueryDays + 1) * Day <= E - S + Day - 1)
      BY <2>2, <2>3, <1>0, QuotientAtLeast
  <2>5. (MaxQueryDays + 1) * Day = MaxQueryDays * Day + Day /\ MaxQueryDays * Day \in Int
      BY <1>0
  <2>6. ~(MaxQueryDays * Day <= E - 1 - S)
      BY <1>0, <1>4, <2>4, <2>5
  <2>7. ~(MaxQueryDays <= (E - 1 - S) \div Day)
      BY <2>2, <2>6, <1>0, QuotientAtLeast
  <2>8. (E - 1 - S) \div Day \in Int
      BY <2>2, <1>0
  <2> QED BY <2>7, <2>8, <1>0 DEF DayOf
<1>6. ASSUME NEW at \in Int
      PROVE  at >= S <=> IF q.from.kind = "date" THEN DayOf(at) >= q.from.day ELSE at >= S
  <2>1. q.from.kind = "date" => S = q.from.day * Day /\ (DayOf(at) >= q.from.day <=> at >= q.from.day * Day)
      BY <1>1, <1>2, DayBounds
  <2> HIDE DEF S
  <2> QED BY <2>1
<1>7. ASSUME NEW at \in Int
      PROVE  at < E <=> IF q.to.kind = "date" THEN DayOf(at) <= q.to.day ELSE at <= Instant(q.to)
  <2>1. CASE q.to.kind = "date"
    <3>1. E = q.to.day * Day + Day
        BY <2>1, <1>2, <1>3
    <3>2. DayOf(at) <= q.to.day <=> at < q.to.day * Day + Day
        BY <1>1, DayBounds
    <3> HIDE DEF E
    <3> QED BY <2>1, <3>1, <3>2
  <2>2. CASE q.to.kind # "date"
    <3>1. E = Instant(q.to) + 1 /\ Instant(q.to) \in Int
        BY <2>2, <1>2, <1>3
    <3> HIDE DEF E
    <3> QED BY <2>2, <3>1
  <2> QED BY <2>1, <2>2
<1> HIDE DEF S, E
<1>8. \A at \in Int : (at >= S /\ at < E)
        <=> /\ IF q.from.kind = "date" THEN DayOf(at) >= q.from.day ELSE at >= S
            /\ IF q.to.kind = "date" THEN DayOf(at) <= q.to.day ELSE at <= Instant(q.to)
    BY <1>6, <1>7
<1> QED BY <1>4, <1>5, <1>8 DEF S, E

(***************************************************************************)
(* Lines                                                                   *)
(***************************************************************************)
(* What is said of the lines of an answer made of the logs in S.           *)
AreLines(L, S) ==
    /\ UNION L = S
    /\ {} \notin L
    /\ \A a, b \in L : a = b \/ a \cap b = {}
    /\ IsFiniteSet(L) /\ Cardinality(L) \in Nat
    /\ Cardinality(L) <= Cardinality(AllLogs)

(* The classes of an equivalence are lines of the rows they divide.        *)
LEMMA ClassesAreLines ==
    ASSUME NEW S \in SUBSET AllLogs, NEW class, class = [r \in S |-> class[r]],
           \A r \in S : r \in class[r] /\ class[r] \subseteq S,
           \A r, s \in S : s \in class[r] => class[s] = class[r],
           NEW L, L = {class[r] : r \in S}
    PROVE  AreLines(L, S)
<1>1. IsFiniteSet(S) /\ Cardinality(S) <= Cardinality(AllLogs)
    BY LogsAssumption, FS_Subset DEF AllLogs
<1>2. UNION L = S
    OBVIOUS
<1>3. {} \notin L
    OBVIOUS
<1>4. \A a, b \in L : a = b \/ a \cap b = {}
  <2>1. SUFFICES ASSUME NEW r \in S, NEW s \in S, NEW t \in class[r] \cap class[s]
                 PROVE  class[r] = class[s]
      OBVIOUS
  <2>2. t \in S /\ class[t] = class[r] /\ class[t] = class[s]
      OBVIOUS
  <2> QED BY <2>2
<1>5. class \in Surjection(S, L)
    BY Fun_IsSurj
<1>6. IsFiniteSet(L) /\ Cardinality(L) <= Cardinality(S)
    BY <1>1, <1>5, FS_Surjection
<1>7. Cardinality(L) \in Nat /\ Cardinality(S) \in Nat /\ Cardinality(AllLogs) \in Nat
    BY <1>1, <1>6, FS_CardinalityType, LogsAssumption DEF AllLogs
<1> QED BY <1>1, <1>2, <1>3, <1>4, <1>6, <1>7 DEF AreLines

(* Without groups every row is a line.                                     *)
LEMMA SinglesAreLines ==
    ASSUME NEW S \in SUBSET AllLogs
    PROVE  AreLines({{r} : r \in S}, S) /\ Cardinality({{r} : r \in S}) = Cardinality(S)
<1> DEFINE single == [r \in S |-> {r}]
           L == {{r} : r \in S}
<1>1. AreLines(L, S)
  <2>1. /\ single = [r \in S |-> single[r]]
        /\ \A r \in S : r \in single[r] /\ single[r] \subseteq S
        /\ \A r, s \in S : s \in single[r] => single[s] = single[r]
        /\ L = {single[r] : r \in S}
      OBVIOUS
  <2> HIDE DEF single, L
  <2> QED BY <2>1, ClassesAreLines
<1>2. single \in Bijection(S, L)
    BY Fun_IsBij
<1>3. IsFiniteSet(S)
    BY LogsAssumption, FS_Subset DEF AllLogs
<1>4. ExistsBijection(S, L)
    BY <1>2 DEF ExistsBijection
<1> QED BY <1>1, <1>3, <1>4, FS_Bijection

(* The lines of a statistics query divide the rows it selects.             *)
LEMMA StatsLinesAreLines ==
    ASSUME NEW f, NEW stored \in SUBSET AllLogs
    PROVE  /\ AreLines(StatsLines(f, stored), Selected(f, stored))
           /\ f.groupFields = {} => Cardinality(StatsLines(f, stored)) = Cardinality(Selected(f, stored))
<1> DEFINE S == Selected(f, stored)
           class == [r \in S |-> {s \in S : \A field \in f.groupFields : ValueOf(r, field) = ValueOf(s, field)}]
<1>1. S \in SUBSET AllLogs
    BY DEF Selected
<1>2. CASE f.groupFields = {}
  <2>1. StatsLines(f, stored) = {{r} : r \in S}
      BY <1>2 DEF StatsLines
  <2> HIDE DEF S
  <2> QED BY <2>1, <1>1, SinglesAreLines DEF S
<1>3. CASE f.groupFields # {}
  <2>1. StatsLines(f, stored) = {class[r] : r \in S}
      BY <1>3 DEF StatsLines
  <2> HIDE DEF S
  <2>2. /\ class = [r \in S |-> class[r]]
        /\ \A r \in S : r \in class[r] /\ class[r] \subseteq S
        /\ \A r, s \in S : s \in class[r] => class[s] = class[r]
      OBVIOUS
  <2> HIDE DEF class
  <2>3. AreLines(StatsLines(f, stored), S)
      BY <1>1, <2>1, <2>2, ClassesAreLines
  <2> QED BY <1>3, <2>3 DEF S
<1> QED BY <1>2, <1>3

(* The lines of a note query divide the rows it selects.                   *)
LEMMA NoteLinesAreLines ==
    ASSUME NEW q, NEW stored \in SUBSET AllLogs
    PROVE  AreLines(NoteLines(q, stored), NotesSelected(q, stored))
<1> DEFINE S == NotesSelected(q, stored)
           class == [r \in S |-> {s \in S : \A g \in ToSet(q.groups) : NoteValue(r, g) = NoteValue(s, g)}]
<1>1. S \in SUBSET AllLogs
    BY DEF NotesSelected
<1>2. CASE ~IsGrouped(q)
  <2>1. NoteLines(q, stored) = {{r} : r \in S}
      BY <1>2 DEF NoteLines
  <2> HIDE DEF S
  <2> QED BY <2>1, <1>1, SinglesAreLines DEF S
<1>3. CASE IsGrouped(q)
  <2>1. NoteLines(q, stored) = {class[r] : r \in S}
      BY <1>3 DEF NoteLines
  <2> HIDE DEF S
  <2>2. /\ class = [r \in S |-> class[r]]
        /\ \A r \in S : r \in class[r] /\ class[r] \subseteq S
        /\ \A r, s \in S : s \in class[r] => class[s] = class[r]
      OBVIOUS
  <2> HIDE DEF class
  <2>3. AreLines(NoteLines(q, stored), S)
      BY <1>1, <2>1, <2>2, ClassesAreLines
  <2> QED BY <2>3 DEF S
<1> QED BY <1>2, <1>3

(* Lines are sets of logs, and no more of them than logs.                  *)
LEMMA AreLinesFit ==
    ASSUME NEW S \in SUBSET AllLogs, NEW L, AreLines(L, S)
    PROVE  L \subseteq Lines /\ Cardinality(L) \in 0..Cardinality(AllLogs)
<1>1. Cardinality(AllLogs) \in Nat
    BY FS_CardinalityType, LogsAssumption DEF AllLogs
<1>2. L \subseteq Lines
    BY DEF AreLines, Lines
<1> QED BY <1>1, <1>2 DEF AreLines

(***************************************************************************)
(* Pages                                                                   *)
(***************************************************************************)
(* The page of the lines L that LIMIT and OFFSET leave under an order,     *)
(* which is given as the set of its pairs.                                 *)
Skipped(L, offset) == IF offset <= Cardinality(L) THEN offset ELSE Cardinality(L)

PageSize(L, limit, offset) ==
    IF limit <= Cardinality(L) - Skipped(L, offset) THEN limit
                                                    ELSE Cardinality(L) - Skipped(L, offset)

IsTotal(order, L) == \A a, b \in L : a # b => <<a, b>> \in order \/ <<b, a>> \in order

Leads(part, L, order) == \A a \in part : \A b \in L \ part : <<b, a>> \notin order

IsPage(page, L, order, limit, offset) ==
    /\ page \subseteq L
    /\ Cardinality(page) = PageSize(L, limit, offset)
    /\ \E earlier \in SUBSET (L \ page) :
          /\ Cardinality(earlier) = Skipped(L, offset)
          /\ Leads(earlier, L, order) /\ Leads(earlier \cup page, L, order)

StatsOrder(f, L) == {ab \in L \X L : StatsBefore(f, ab[1], ab[2])}
NoteOrder(q, L)  == {ab \in L \X L : NoteBefore(q, ab[1], ab[2])}

(* What MySQL answers to a statistics query is a page of its lines in its  *)
(* order.                                                                  *)
LEMMA StatsPagesArePages ==
    ASSUME NEW f, NEW stored, NEW page \in StatsPages(f, stored),
           Cardinality(StatsLines(f, stored)) \in Nat, f.limit \in Nat, f.offset \in Nat
    PROVE  LET L == StatsLines(f, stored)
           IN  IsPage(page, L, StatsOrder(f, L), f.limit, f.offset)
<1> DEFINE L == StatsLines(f, stored)
           n == Cardinality(L)
           skipped == Min({f.offset, n})
           size == Min({f.limit, n - skipped})
<1>1. skipped = Skipped(L, f.offset) /\ skipped \in Int
    BY MinOfTwo DEF Skipped
<1>2. size = PageSize(L, f.limit, f.offset)
    BY <1>1, MinOfTwo DEF PageSize
<1>3. /\ page \in kSubset(size, L)
      /\ \E earlier \in kSubset(skipped, L \ page) :
            /\ \A e \in earlier, i \in L \ earlier : ~StatsBefore(f, i, e)
            /\ \A p \in page, i \in L \ (earlier \cup page) : ~StatsBefore(f, i, p)
    BY DEF StatsPages, Pages
<1> HIDE DEF skipped, size, L
<1>4. page \subseteq L /\ Cardinality(page) = size
    BY <1>3 DEF kSubset
<1>5. PICK earlier \in SUBSET (L \ page) :
         /\ Cardinality(earlier) = skipped
         /\ \A e \in earlier, i \in L \ earlier : ~StatsBefore(f, i, e)
         /\ \A p \in page, i \in L \ (earlier \cup page) : ~StatsBefore(f, i, p)
    BY <1>3 DEF kSubset
<1>6. Leads(earlier, L, StatsOrder(f, L)) /\ Leads(earlier \cup page, L, StatsOrder(f, L))
    BY <1>5 DEF Leads, StatsOrder
<1> QED BY <1>1, <1>2, <1>4, <1>5, <1>6 DEF IsPage, L

(* The same of a note query.                                               *)
LEMMA NotePagesArePages ==
    ASSUME NEW q, NEW stored, NEW page \in NotePages(q, stored),
           Cardinality(NoteLines(q, stored)) \in Nat, q.limit \in Nat, Skip(q) \in Nat
    PROVE  LET L == NoteLines(q, stored)
           IN  IsPage(page, L, NoteOrder(q, L), q.limit, Skip(q))
<1> DEFINE L == NoteLines(q, stored)
           n == Cardinality(L)
           skipped == Min({Skip(q), n})
           size == Min({q.limit, n - skipped})
<1>1. skipped = Skipped(L, Skip(q)) /\ skipped \in Int
    BY MinOfTwo DEF Skipped
<1>2. size = PageSize(L, q.limit, Skip(q))
    BY <1>1, MinOfTwo DEF PageSize
<1>3. /\ page \in kSubset(size, L)
      /\ \E earlier \in kSubset(skipped, L \ page) :
            /\ \A e \in earlier, i \in L \ earlier : ~NoteBefore(q, i, e)
            /\ \A p \in page, i \in L \ (earlier \cup page) : ~NoteBefore(q, i, p)
    BY DEF NotePages, Pages
<1> HIDE DEF skipped, size, L
<1>4. page \subseteq L /\ Cardinality(page) = size
    BY <1>3 DEF kSubset
<1>5. PICK earlier \in SUBSET (L \ page) :
         /\ Cardinality(earlier) = skipped
         /\ \A e \in earlier, i \in L \ earlier : ~NoteBefore(q, i, e)
         /\ \A p \in page, i \in L \ (earlier \cup page) : ~NoteBefore(q, i, p)
    BY <1>3 DEF kSubset
<1>6. Leads(earlier, L, NoteOrder(q, L)) /\ Leads(earlier \cup page, L, NoteOrder(q, L))
    BY <1>5 DEF Leads, NoteOrder
<1> QED BY <1>1, <1>2, <1>4, <1>5, <1>6 DEF IsPage, L

(* Two sets that lead in an order without ties are one when they are of    *)
(* one size.                                                               *)
LEMMA LeadersAreOne ==
    ASSUME NEW L, IsFiniteSet(L), NEW order, IsTotal(order, L),
           NEW W \in SUBSET L, NEW E \in SUBSET L, Cardinality(W) = Cardinality(E),
           Leads(W, L, order), Leads(E, L, order)
    PROVE  W = E
<1>1. IsFiniteSet(W) /\ IsFiniteSet(E)
    BY FS_Subset
<1>2. W \subseteq E \/ E \subseteq W
    BY DEF Leads, IsTotal
<1> QED BY <1>1, <1>2, FS_Subset

(* A walk that has seen what comes first sees with a page what comes next. *)
LEMMA WalkGoesOn ==
    ASSUME NEW L, IsFiniteSet(L), NEW order, IsTotal(order, L),
           NEW limit \in Nat, NEW offset \in Nat,
           NEW W \in SUBSET L, Cardinality(W) = offset, Leads(W, L, order),
           NEW page, IsPage(page, L, order, limit, offset)
    PROVE  /\ page \cap W = {} /\ page \subseteq L
           /\ Leads(W \cup page, L, order)
           /\ Cardinality(W \cup page) = offset + Cardinality(page)
           /\ Cardinality(L) <= offset + limit => W \cup page = L
<1>1. PICK earlier \in SUBSET (L \ page) :
         /\ Cardinality(earlier) = Skipped(L, offset)
         /\ Leads(earlier, L, order) /\ Leads(earlier \cup page, L, order)
    BY DEF IsPage
<1>2. Cardinality(L) \in Nat /\ offset <= Cardinality(L)
    BY FS_CardinalityType, FS_Subset
<1>3. Skipped(L, offset) = offset
    BY <1>2 DEF Skipped
<1>4. earlier = W
    BY <1>1, <1>3, LeadersAreOne
<1>5. page \subseteq L /\ page \cap W = {} /\ IsFiniteSet(page) /\ IsFiniteSet(W)
    BY <1>4, FS_Subset DEF IsPage
<1>6. Cardinality(page) \in Nat /\ Cardinality(W \cap page) = 0
    BY <1>5, FS_CardinalityType, FS_EmptySet
<1>7. Cardinality(W \cup page) = offset + Cardinality(page)
  <2>1. Cardinality(W \cup page) = Cardinality(W) + Cardinality(page) - Cardinality(W \cap page)
      BY <1>5, FS_Union
  <2> QED BY <2>1, <1>6
<1>8. ASSUME Cardinality(L) <= offset + limit PROVE W \cup page = L
  <2>1. Cardinality(page) = Cardinality(L) - offset
      BY <1>2, <1>3, <1>8 DEF IsPage, PageSize
  <2>2. Cardinality(W \cup page) = Cardinality(L)
      BY <1>2, <1>7, <2>1
  <2> QED BY <2>2, <1>5, FS_Subset
<1> QED BY <1>1, <1>4, <1>5, <1>7, <1>8

(* A finite set has finitely many values of a function.                    *)
LEMMA ImageIsFinite ==
    ASSUME NEW S, IsFiniteSet(S), NEW g
    PROVE  IsFiniteSet({g[r] : r \in S})
<1> DEFINE h == [r \in S |-> g[r]]
           T == {g[r] : r \in S}
<1>1. h \in Surjection(S, T)
    BY Fun_IsSurj
<1> QED BY <1>1, FS_Surjection

(***************************************************************************)
(* Values and filters                                                      *)
(***************************************************************************)
(* Every value of a log is a number, and so is every metric of a line.     *)
LEMMA ValuesAreNumbers ==
    ASSUME NEW log \in AllLogs, NEW field \in DataFields
    PROVE  ValueOf(log, field) \in Int
<1>1. Logs[log] \in Row
    BY LogsAssumption DEF AllLogs
<1>2. DayOf(Logs[log].created_at) \in Int
    BY <1>1, DayAssumption DEF DayOf, Row
<1>3. Logs[log].agent \in Int
    BY <1>1 DEF Row
<1>4. field \in AgentFields \/ field \in DateFields \/ field \in NumberFields
      \/ field \in {"ip_address", "country"}
    BY DEF DataFields
<1>5. CASE field \in AgentFields
    BY <1>3, <1>5 DEF ValueOf, AgentFields
<1>6. CASE field = "date"
    BY <1>2, <1>6 DEF ValueOf, AgentFields
<1>7. CASE field \notin AgentFields \cup {"date"}
  <2>1. field \in {"created_at", "link_id", "user_id", "device", "is_earn", "revenue",
                   "detection_mask", "reject_reason_mask", "ip_address", "country"}
      BY <1>4, <1>7 DEF DateFields, NumberFields
  <2>2. Logs[log][field] \in Int
      BY <1>1, <2>1 DEF Row
  <2> QED BY <1>7, <2>2 DEF ValueOf
<1> QED BY <1>5, <1>6, <1>7

(* The metrics of a line are numbers.                                      *)
LEMMA MetricsAreNumbers ==
    ASSUME NEW line \in Lines, NEW metric \in MetricFields
    PROVE  Metric(metric, line) \in Int
<1>1. IsFiniteSet(line) /\ line \subseteq AllLogs
    BY LogsAssumption, FS_Subset DEF AllLogs, Lines
<1>2. \A r \in line : Logs[r].revenue \in Int
    BY <1>1, LogsAssumption DEF AllLogs, Row
<1>3. SumFunctionOnSet([r \in line |-> Logs[r].revenue], line) \in Int
  <2> DEFINE value == [r \in line |-> Logs[r].revenue]
  <2>1. \A r \in line : value[r] \in Int
      BY <1>2
  <2> HIDE DEF value
  <2>2. SumFunctionOnSet(value, line) \in Int
      BY <1>1, <2>1, SumInt
  <2> QED BY <2>2 DEF value
<1>4. Cardinality(line) \in Int
    BY <1>1, FS_CardinalityType
<1>5. Cardinality({r \in line : Logs[r].is_earn = 1}) \in Int
  <2>1. IsFiniteSet({r \in line : Logs[r].is_earn = 1})
      BY <1>1, FS_Subset
  <2> QED BY <2>1, FS_CardinalityType
<1>6. Cardinality({Logs[r].user_id : r \in line}) \in Int
  <2> DEFINE g == [r \in line |-> Logs[r].user_id]
           T == {Logs[r].user_id : r \in line}
  <2>1. T = {g[r] : r \in line}
      OBVIOUS
  <2>2. IsFiniteSet(T)
    <3> HIDE DEF g, T
    <3> QED BY <2>1, <1>1, ImageIsFinite
  <2> HIDE DEF T
  <2>3. Cardinality(T) \in Int
      BY <2>2, FS_CardinalityType
  <2> QED BY <2>3 DEF T
<1>7. Cardinality({Logs[r].ip_address : r \in line}) \in Int
  <2> DEFINE g == [r \in line |-> Logs[r].ip_address]
           T == {Logs[r].ip_address : r \in line}
  <2>1. T = {g[r] : r \in line}
      OBVIOUS
  <2>2. IsFiniteSet(T)
    <3> HIDE DEF g, T
    <3> QED BY <2>1, <1>1, ImageIsFinite
  <2> HIDE DEF T
  <2>3. Cardinality(T) \in Int
      BY <2>2, FS_CardinalityType
  <2> QED BY <2>3 DEF T
<1>8. CASE metric = "views"
    BY <1>4, <1>8 DEF Metric
<1>9. CASE metric = "revenue"
    BY <1>3, <1>9 DEF Metric
<1>10. CASE metric = "earn_views"
    BY <1>5, <1>10 DEF Metric
<1>11. CASE metric = "unique_users"
    BY <1>6, <1>11 DEF Metric
<1>12. CASE metric = "unique_ips"
    BY <1>7, <1>12 DEF Metric
<1> QED BY <1>8, <1>9, <1>10, <1>11, <1>12 DEF MetricFields

(* Lines of statistics are sorted by numbers.                              *)
LEMMA KeysAreNumbers ==
    ASSUME NEW f, f.orderBy \in MetricFields \cup DataFields,
           NEW line \in Lines
    PROVE  SortKey(f, line) \in Int
<1> DEFINE r == CHOOSE x \in line : TRUE
           e == Expression(f.orderBy, f)
<1>1. r \in AllLogs
    BY DEF Lines
<1>2. CASE e = Aggregate(f.orderBy) /\ f.orderBy \in MetricFields
  <2>1. e.kind = "aggregate" /\ e.name = f.orderBy
      BY <1>2 DEF Aggregate
  <2> QED BY <1>2, <2>1, MetricsAreNumbers DEF SortKey
<1>3. CASE e = Column(f.orderBy) /\ f.orderBy \in DataFields
  <2>1. e.kind = "column" /\ e.name = f.orderBy
      BY <1>3 DEF Column
  <2>2. ValueOf(r, f.orderBy) \in Int
      BY <1>1, <1>3, ValuesAreNumbers
  <2> QED BY <2>1, <2>2 DEF SortKey
<1>4. \/ e = Aggregate(f.orderBy) /\ f.orderBy \in MetricFields
      \/ e = Column(f.orderBy) /\ f.orderBy \in DataFields
  <2>1. CASE f.orderBy \in MetricFields /\ (f.groupFields # {} \/ f.orderBy # "revenue")
      BY <2>1 DEF Expression
  <2>2. CASE ~(f.orderBy \in MetricFields /\ (f.groupFields # {} \/ f.orderBy # "revenue"))
      BY <2>2 DEF Expression, DataFields, NumberFields
  <2> QED BY <2>1, <2>2
<1> QED BY <1>2, <1>3, <1>4

(* An accepted query sorts by numbers: where no two keys are equal, the    *)
(* order is total.                                                         *)
LEMMA NoTiesNoChoice ==
    ASSUME NEW f, NEW a, NEW b, SortKey(f, a) \in Int, SortKey(f, b) \in Int,
           SortKey(f, a) # SortKey(f, b)
    PROVE  StatsBefore(f, a, b) \/ StatsBefore(f, b, a)
BY DEF StatsBefore

(* A condition that is accepted compares a column by a known operator with *)
(* numbers.                                                                *)
LEMMA ConditionType ==
    ASSUME NEW c, c.value \in Seq(Int), AcceptsCondition(c), NEW z \in Int
    PROVE  Condition(c, z) \in [field : DataFields, op : Operators, operands : Seq(Int)]
<1> DEFINE field == FilterField(c.field)
           op    == NormalizeOperator(c.op)
           items == Operands(op, c.value)
           cond  == [i \in DOMAIN items |-> NormalizeItem(field, items[i], z)]
<1>1. field \in DataFields /\ op \in Operators
  <2>1. field # NoField /\ op \in Operators
      BY DEF AcceptsCondition
  <2>2. c.field \in DOMAIN FilterAliasMap /\ field = FilterAliasMap[c.field]
      BY <2>1 DEF FilterField
  <2>3. DOMAIN FilterAliasMap = UNION {Aliases(f) : f \in DataFields}
      BY DEF FilterAliasMap
  <2>4. FilterAliasMap[c.field] = CHOOSE f \in DataFields : c.field \in Aliases(f)
      BY <2>2, <2>3 DEF FilterAliasMap
  <2>5. \E f \in DataFields : c.field \in Aliases(f)
      BY <2>2, <2>3
  <2> HIDE DEF field, op
  <2> QED BY <2>1, <2>2, <2>4, <2>5
<1>2. items \in Seq(Int)
  <2>1. c.value \in Seq(Int)
      OBVIOUS
  <2>2. ScalarOf(c.value) \in Int
      BY <2>1 DEF ScalarOf, Blank, Junk
  <2>3. <<ScalarOf(c.value)>> \in Seq(Int)
      BY <2>2
  <2>4. items = c.value \/ items = <<ScalarOf(c.value)>>
      BY DEF Operands
  <2> QED BY <2>1, <2>3, <2>4
<1>3. \A i \in DOMAIN items : NormalizeItem(field, items[i], z) \in Int
  <2> HIDE DEF items, field
  <2>1. TAKE i \in DOMAIN items
  <2>2. items[i] \in Int
      BY <1>2
  <2>3. items[i] * Day \in Int /\ Day \in Nat \ {0}
      BY <2>2, DayAssumption
  <2>4. DayOf(ToMysqlDateTime(items[i] * Day, z)) \in Int
      BY <2>3 DEF DayOf, ToMysqlDateTime
  <2>5. ToMysqlDateTime(items[i], z) \in Int
      BY <2>2 DEF ToMysqlDateTime
  <2> QED BY <2>2, <2>4, <2>5 DEF NormalizeItem
<1>4. cond \in Seq(Int)
  <2> HIDE DEF items, field
  <2>1. DOMAIN items = 1..Len(items) /\ Len(items) \in Nat
      BY <1>2
  <2>2. cond \in [1..Len(items) -> Int]
      BY <2>1, <1>3
  <2> QED BY <2>1, <2>2
<1>5. Condition(c, z) = [field |-> field, op |-> op, operands |-> cond]
    BY DEF Condition
<1> HIDE DEF field, op, cond
<1> QED BY <1>1, <1>4, <1>5

(* What queryStats passes on is typed.                                     *)
LEMMA FiltersType ==
    ASSUME NEW q \in StatsRequest, AcceptsStats(q), NEW z \in Int
    PROVE  Filters(q, z) \in StatsFilters
<1> DEFINE f == Filters(q, z)
           fields == DataFields \cup MetricFields
<1>1. f.startAt \in Int /\ f.endExclusive \in Int
    BY PeriodBounds DEF AcceptsStats, Filters, ToMysqlDateTime
<1>2. f.groupFields \in SUBSET (DataFields \ NotGroupable)
    BY DEF AcceptsStats, AcceptsGroups, Filters
<1>3. \A field : FitsMode(field, q) => field \in fields
    BY DEF FitsMode, AcceptsStats, AcceptsGroups
<1>4. f.selectFields \in SUBSET fields /\ f.orderBy \in fields
    BY <1>3, AcceptedOrderFits DEF AcceptsStats, AcceptsSelect, Filters
<1>5. f.limit \in Nat \ {0} /\ f.offset \in Nat
  <2>1. q.limit \in Nat \ {0} /\ q.page - 1 \in Nat
      BY DEF StatsRequest
  <2>2. (q.page - 1) * q.limit \in Nat
      BY <2>1
  <2> QED BY <2>1, <2>2 DEF Filters
<1>6. f.descending \in BOOLEAN
    BY DEF Filters
<1>7. f.conditions \in SUBSET [field : DataFields, op : Operators, operands : Seq(Int)]
  <2>1. \A c \in RawConditions(q) : c.value \in Seq(Int)
    <3>1. q.preset \subseteq STRING \X Int /\ q.where \subseteq RawCondition /\ q.filters \subseteq RawCondition
        BY DEF StatsRequest
    <3>2. ASSUME NEW p \in q.preset
          PROVE  <<p[2]>> \in Seq(Int)
      <4>1. p[2] \in Int
          BY <3>1
      <4> QED BY <4>1
    <3>3. \A c \in q.where \cup q.filters : c.value \in Seq(Int)
        BY <3>1 DEF RawCondition
    <3>4. \A c \in {[field |-> p[1], op |-> "=", value |-> <<p[2]>>] : p \in q.preset} :
             c.value \in Seq(Int)
      <4>1. TAKE c \in {[field |-> p[1], op |-> "=", value |-> <<p[2]>>] : p \in q.preset}
      <4>2. PICK p \in q.preset : c = [field |-> p[1], op |-> "=", value |-> <<p[2]>>]
          OBVIOUS
      <4>3. c.value = <<p[2]>>
          BY <4>2
      <4> QED BY <4>3, <3>2
    <3> QED BY <3>3, <3>4 DEF RawConditions
  <2>2. \A c \in RawConditions(q) : AcceptsCondition(c)
      BY DEF AcceptsStats
  <2>3. f.conditions = {Condition(c, z) : c \in RawConditions(q)}
      BY DEF Filters
  <2> HIDE DEF f
  <2> QED BY <2>1, <2>2, <2>3, ConditionType
<1>8. f = [startAt |-> f.startAt, endExclusive |-> f.endExclusive, selectFields |-> f.selectFields,
           groupFields |-> f.groupFields, limit |-> f.limit, offset |-> f.offset,
           orderBy |-> f.orderBy, descending |-> f.descending, conditions |-> f.conditions]
    BY DEF Filters
<1> HIDE DEF f
<1> QED BY <1>1, <1>2, <1>4, <1>5, <1>6, <1>7, <1>8 DEF StatsFilters, f

(***************************************************************************)
(* A query c in progress, while the logs in s are stored                   *)
(***************************************************************************)
LinesOf(c, s) == IF c.kind = "stats" THEN StatsLines(c.q, s) ELSE NoteLines(c.q, s)
RowsOf(c, s)  == IF c.kind = "stats" THEN Selected(c.q, s) ELSE NotesSelected(c.q, s)
OffsetOf(c)   == IF c.kind = "stats" THEN c.q.offset ELSE Skip(c.q)

OrderOf(c, s) ==
    IF c.kind = "stats" THEN StatsOrder(c.q, LinesOf(c, s)) ELSE NoteOrder(c.q, LinesOf(c, s))

Untied(c, s) ==
    \A a, b \in LinesOf(c, s) : a # b =>
       IF c.kind = "stats" THEN SortKey(c.q, a) # SortKey(c.q, b)
                           ELSE NoteBefore(c.q, a, b) \/ NoteBefore(c.q, b, a)

StatsReading == Reading("stats", StatsFilters, TemporalInput \X TemporalInput)
NoteReading  == Reading("notes", NoteRequest, {<<>>})

(* It is a page of a request that was accepted.                            *)
AsksStats(c, z) ==
    \E q \in StatsRequests[z] :
       /\ AcceptsStats(q) /\ c.period = <<q.from, q.to>>
       /\ c.q = [Filters(q, z) EXCEPT !.offset = (c.number - 1) * q.limit]

AsksNotes(c) ==
    \E q \in NoteRequests : AcceptsSort(q) /\ c.q = [q EXCEPT !.page = c.number]

IsAsked(c, z) ==
    /\ c.kind = "stats" => AsksStats(c, z)
    /\ c.kind = "notes" => AsksNotes(c)

(* What is known of the answer is true, unless logs were flushed.          *)
IsAnswered(c, s) ==
    /\ c.walk => c.still
    /\ (c.still /\ c.totalRead) => c.total = Cardinality(LinesOf(c, s))
    /\ (c.still /\ c.pageRead) => IsPage(c.page, LinesOf(c, s), OrderOf(c, s), c.q.limit, OffsetOf(c))

(* The pages before are the lines that come first.                         *)
IsWalk(c, s) ==
    (c.walk /\ Untied(c, s)) =>
       /\ c.walked \subseteq LinesOf(c, s)
       /\ Cardinality(c.walked) = OffsetOf(c)
       /\ Leads(c.walked, LinesOf(c, s), OrderOf(c, s))

(* The tables hold logs.                                                   *)
LEMMA StoredInLogs == Stored \in SUBSET AllLogs
BY DEF Stored

(* There are finitely many logs.                                           *)
LEMMA LogsAreFinite == IsFiniteSet(AllLogs) /\ Cardinality(AllLogs) \in Nat
BY LogsAssumption, FS_CardinalityType DEF AllLogs

(* Lines of either query divide its rows and are finitely many.            *)
LEMMA LinesFit ==
    ASSUME NEW c, NEW s \in SUBSET AllLogs
    PROVE  /\ AreLines(LinesOf(c, s), RowsOf(c, s))
           /\ LinesOf(c, s) \subseteq Lines /\ IsFiniteSet(LinesOf(c, s))
           /\ Cardinality(LinesOf(c, s)) \in 0..Cardinality(AllLogs)
<1>1. AreLines(LinesOf(c, s), RowsOf(c, s))
    BY StatsLinesAreLines, NoteLinesAreLines DEF LinesOf, RowsOf
<1>2. RowsOf(c, s) \in SUBSET AllLogs
    BY DEF RowsOf, Selected, NotesSelected
<1>3. IsFiniteSet(LinesOf(c, s))
    BY <1>1 DEF AreLines
<1> QED BY <1>1, <1>2, <1>3, AreLinesFit

(* An accepted query has a positive limit and a positive page; its offset  *)
(* is what the pages before it take.                                       *)
LEMMA QueryFacts ==
    ASSUME NEW z \in Zones, NEW c \in StatsReading \cup NoteReading, IsAsked(c, z)
    PROVE  /\ c.q.limit \in Nat \ {0} /\ c.number \in Nat \ {0}
           /\ OffsetOf(c) = (c.number - 1) * c.q.limit
           /\ OffsetOf(c) \in Nat
           /\ OffsetOf(c) + c.q.limit = c.number * c.q.limit
<1>0. c.number \in Nat \ {0}
    BY DEF StatsReading, NoteReading, Reading
<1>1. c.q.limit \in Nat \ {0} /\ OffsetOf(c) = (c.number - 1) * c.q.limit
  <2>1. CASE c \in StatsReading
    <3>1. c.kind = "stats" /\ c.q \in StatsFilters
        BY <2>1 DEF StatsReading, Reading
    <3>2. PICK q \in StatsRequests[z] : c.q = [Filters(q, z) EXCEPT !.offset = (c.number - 1) * q.limit]
        BY <3>1 DEF IsAsked, AsksStats
    <3>3. c.q.limit = q.limit /\ c.q.offset = (c.number - 1) * q.limit
        BY <3>2 DEF Filters
    <3>4. c.q.limit \in Nat \ {0}
        BY <3>1 DEF StatsFilters
    <3> QED BY <3>1, <3>3, <3>4 DEF OffsetOf
  <2>2. CASE c \in NoteReading
    <3>1. c.kind = "notes" /\ c.q \in NoteRequest
        BY <2>2 DEF NoteReading, Reading
    <3>2. PICK q \in NoteRequests : c.q = [q EXCEPT !.page = c.number]
        BY <3>1 DEF IsAsked, AsksNotes
    <3>3. q \in NoteRequest
        BY ReadAssumption
    <3>4. c.q.limit = q.limit /\ c.q.page = c.number /\ q.limit \in Nat \ {0}
        BY <3>2, <3>3 DEF NoteRequest
    <3> QED BY <3>1, <3>4 DEF OffsetOf, Skip
  <2> QED BY <2>1, <2>2
<1>2. (c.number - 1) * c.q.limit \in Nat /\ (c.number - 1) * c.q.limit + c.q.limit = c.number * c.q.limit
  <2> DEFINE n == c.number
             l == c.q.limit
  <2>1. n \in Nat \ {0} /\ l \in Nat \ {0} /\ n - 1 \in Nat
      BY <1>0, <1>1
  <2> HIDE DEF n, l
  <2>2. (n - 1) * l \in Nat /\ (n - 1) * l + l = n * l
      BY <2>1
  <2> QED BY <2>2 DEF n, l
<1> QED BY <1>0, <1>1, <1>2

(* Where there are no ties the order is total.                             *)
LEMMA UntiedIsTotal ==
    ASSUME NEW z, NEW c \in StatsReading \cup NoteReading, NEW s \in SUBSET AllLogs, Untied(c, s)
    PROVE  IsTotal(OrderOf(c, s), LinesOf(c, s))
<1> SUFFICES ASSUME NEW a \in LinesOf(c, s), NEW b \in LinesOf(c, s), a # b
             PROVE  <<a, b>> \in OrderOf(c, s) \/ <<b, a>> \in OrderOf(c, s)
    BY DEF IsTotal
<1>1. CASE c \in StatsReading
  <2>1. c.kind = "stats" /\ c.q.orderBy \in MetricFields \cup DataFields
      BY <1>1 DEF StatsReading, Reading, StatsFilters
  <2>2. a \in Lines /\ b \in Lines
      BY LinesFit
  <2>3. SortKey(c.q, a) \in Int /\ SortKey(c.q, b) \in Int
      BY <2>1, <2>2, KeysAreNumbers
  <2>4. SortKey(c.q, a) # SortKey(c.q, b)
      BY <2>1 DEF Untied
  <2>5. StatsBefore(c.q, a, b) \/ StatsBefore(c.q, b, a)
      BY <2>3, <2>4, NoTiesNoChoice
  <2> QED BY <2>1, <2>5 DEF OrderOf, StatsOrder
<1>2. CASE c \in NoteReading
  <2>1. c.kind = "notes"
      BY <1>2 DEF NoteReading, Reading
  <2>2. NoteBefore(c.q, a, b) \/ NoteBefore(c.q, b, a)
      BY <2>1 DEF Untied
  <2> QED BY <2>1, <2>2 DEF OrderOf, NoteOrder
<1> QED BY <1>1, <1>2

(* The query of another page.                                              *)
IsOtherPage(d, c) ==
    /\ d.kind = c.kind
    /\ c.kind = "stats" => \E x : d.q = [c.q EXCEPT !.offset = x]
    /\ c.kind = "notes" => \E x : d.q = [c.q EXCEPT !.page = x]

(* The page asked for makes no difference to the lines and their order.    *)
LEMMA NextPageSameLines ==
    ASSUME NEW s, NEW c \in StatsReading \cup NoteReading, NEW d, IsOtherPage(d, c)
    PROVE  /\ LinesOf(d, s) = LinesOf(c, s) /\ RowsOf(d, s) = RowsOf(c, s)
           /\ OrderOf(d, s) = OrderOf(c, s) /\ d.q.limit = c.q.limit
           /\ Untied(d, s) <=> Untied(c, s)
<1>0. d.kind = c.kind
    BY DEF IsOtherPage
<1>1. CASE c \in StatsReading
  <2>1. c.kind = "stats" /\ c.q \in StatsFilters
      BY <1>1 DEF StatsReading, Reading
  <2>2. /\ d.q.startAt = c.q.startAt /\ d.q.endExclusive = c.q.endExclusive
        /\ d.q.groupFields = c.q.groupFields /\ d.q.orderBy = c.q.orderBy
        /\ d.q.descending = c.q.descending /\ d.q.conditions = c.q.conditions
        /\ d.q.limit = c.q.limit
      BY <2>1 DEF StatsFilters, IsOtherPage
  <2>3. Selected(d.q, s) = Selected(c.q, s)
      BY <2>2 DEF Selected
  <2>4. StatsLines(d.q, s) = StatsLines(c.q, s)
      BY <2>2, <2>3 DEF StatsLines
  <2>5. Expression(d.q.orderBy, d.q) = Expression(c.q.orderBy, c.q)
      BY <2>2 DEF Expression
  <2>6. \A line : SortKey(d.q, line) = SortKey(c.q, line)
      BY <2>5 DEF SortKey
  <2>7. \A a, b : StatsBefore(d.q, a, b) = StatsBefore(c.q, a, b)
      BY <2>2, <2>6 DEF StatsBefore
  <2>8. LinesOf(d, s) = LinesOf(c, s) /\ RowsOf(d, s) = RowsOf(c, s)
      BY <1>0, <2>1, <2>3, <2>4 DEF LinesOf, RowsOf
  <2>9. OrderOf(d, s) = OrderOf(c, s)
      BY <1>0, <2>1, <2>7, <2>8 DEF OrderOf, StatsOrder
  <2>10. Untied(d, s) <=> Untied(c, s)
      BY <1>0, <2>1, <2>6, <2>8 DEF Untied
  <2> QED BY <2>2, <2>8, <2>9, <2>10
<1>2. CASE c \in NoteReading
  <2>1. c.kind = "notes" /\ c.q \in NoteRequest
      BY <1>2 DEF NoteReading, Reading
  <2>2. /\ d.q.filters = c.q.filters /\ d.q.from = c.q.from /\ d.q.to = c.q.to
        /\ d.q.groups = c.q.groups /\ d.q.sort = c.q.sort /\ d.q.limit = c.q.limit
      BY <2>1 DEF NoteRequest, IsOtherPage
  <2>3. NotesSelected(d.q, s) = NotesSelected(c.q, s)
      BY <2>2 DEF NotesSelected, FilterValues, InDateRange
  <2>4. NoteLines(d.q, s) = NoteLines(c.q, s)
      BY <2>2, <2>3 DEF NoteLines, IsGrouped
  <2>5. Sorting(d.q) = Sorting(c.q)
      BY <2>2 DEF Sorting, IsGrouped
  <2>6. \A a, b : NoteBefore(d.q, a, b) = NoteBefore(c.q, a, b)
      BY <2>5 DEF NoteBefore
  <2>7. LinesOf(d, s) = LinesOf(c, s) /\ RowsOf(d, s) = RowsOf(c, s)
      BY <1>0, <2>1, <2>3, <2>4 DEF LinesOf, RowsOf
  <2>8. OrderOf(d, s) = OrderOf(c, s)
      BY <1>0, <2>1, <2>6, <2>7 DEF OrderOf, NoteOrder
  <2>9. Untied(d, s) <=> Untied(c, s)
      BY <1>0, <2>1, <2>6, <2>7 DEF Untied
  <2> QED BY <2>2, <2>7, <2>8, <2>9
<1> QED BY <1>1, <1>2

(* A query that differs in what is known of its answer only.               *)
LEMMA SameQuery ==
    ASSUME NEW s, NEW z, NEW c, NEW d, d.kind = c.kind, d.q = c.q
    PROVE  /\ LinesOf(d, s) = LinesOf(c, s) /\ RowsOf(d, s) = RowsOf(c, s)
           /\ OrderOf(d, s) = OrderOf(c, s) /\ OffsetOf(d) = OffsetOf(c)
           /\ Untied(d, s) <=> Untied(c, s)
           /\ d.number = c.number /\ d.period = c.period => (IsAsked(d, z) <=> IsAsked(c, z))
<1>1. LinesOf(d, s) = LinesOf(c, s) /\ RowsOf(d, s) = RowsOf(c, s) /\ OffsetOf(d) = OffsetOf(c)
    BY DEF LinesOf, RowsOf, OffsetOf
<1>2. OrderOf(d, s) = OrderOf(c, s)
    BY <1>1 DEF OrderOf
<1>3. Untied(d, s) <=> Untied(c, s)
    BY <1>1 DEF Untied
<1>4. d.number = c.number /\ d.period = c.period => (IsAsked(d, z) <=> IsAsked(c, z))
    BY DEF IsAsked, AsksStats, AsksNotes
<1> QED BY <1>1, <1>2, <1>3, <1>4

(***************************************************************************)
(* A query in progress is as it should be                                  *)
(***************************************************************************)
IsTrue(c, z, s) ==
    /\ c \in StatsReading \cup NoteReading
    /\ IsAsked(c, z) /\ IsAnswered(c, s) /\ IsWalk(c, s)

(* A query begins.                                                         *)
LEMMA NewReadingIsTrue ==
    ASSUME NEW z \in Zones, NEW s \in SUBSET AllLogs, NEW kind, NEW q, NEW period,
           NEW number \in Nat \ {0}, NEW d, d = NewReading(kind, q, period, number),
           \/ kind = "stats" /\ q \in StatsFilters /\ period \in TemporalInput \X TemporalInput
           \/ kind = "notes" /\ q \in NoteRequest /\ period = <<>>,
           IsAsked(d, z)
    PROVE  IsTrue(d, z, s)
<1>1. Cardinality(AllLogs) \in Nat
    BY LogsAreFinite
<1>2. d \in StatsReading \cup NoteReading
  <2>1. /\ {} \in SUBSET Lines /\ 0 \in 0..Cardinality(AllLogs)
        /\ (number = 1) \in BOOLEAN
      BY <1>1
  <2>2. CASE kind = "stats" /\ q \in StatsFilters /\ period \in TemporalInput \X TemporalInput
      BY <2>1, <2>2 DEF NewReading, StatsReading, Reading
  <2>3. CASE kind = "notes" /\ q \in NoteRequest /\ period = <<>>
      BY <2>1, <2>3 DEF NewReading, NoteReading, Reading
  <2> QED BY <2>2, <2>3
<1>3. /\ d.walk <=> number = 1
      /\ d.number = number /\ d.walked = {} /\ d.still = TRUE /\ ~d.totalRead /\ ~d.pageRead
    BY DEF NewReading
<1>4. IsAnswered(d, s)
    BY <1>3 DEF IsAnswered
<1>5. IsWalk(d, s)
  <2>1. SUFFICES ASSUME number = 1
                 PROVE  Cardinality(d.walked) = OffsetOf(d)
      BY <1>3 DEF IsWalk, Leads
  <2>2. OffsetOf(d) = (1 - 1) * d.q.limit /\ d.q.limit \in Nat
      BY <1>2, <1>3, <2>1, QueryFacts
  <2>3. OffsetOf(d) = 0
      BY <2>2
  <2> QED BY <1>3, <2>3, FS_EmptySet
<1> QED BY <1>2, <1>4, <1>5 DEF IsTrue

(* More of the answer is known.                                            *)
LEMMA LearningIsTrue ==
    ASSUME NEW z \in Zones, NEW s \in SUBSET AllLogs, NEW c, IsTrue(c, z, s), NEW d,
           \/ /\ \E page : d = [c EXCEPT !.page = page, !.pageRead = TRUE]
              /\ d.page \subseteq Lines
           \/ /\ \E total : d = [c EXCEPT !.total = total, !.totalRead = TRUE]
              /\ d.total \in 0..Cardinality(AllLogs)
           \/ /\ \E page, total : d = [c EXCEPT !.page = page, !.pageRead = TRUE,
                                                !.total = total, !.totalRead = TRUE]
              /\ d.page \subseteq Lines
              /\ d.total \in 0..Cardinality(AllLogs),
           \/ d.total = c.total /\ d.totalRead = c.totalRead
           \/ d.total = Cardinality(LinesOf(c, s)),
           \/ d.page = c.page /\ d.pageRead = c.pageRead
           \/ IsPage(d.page, LinesOf(c, s), OrderOf(c, s), c.q.limit, OffsetOf(c))
    PROVE  IsTrue(d, z, s)
<1>1. c \in StatsReading \cup NoteReading
    BY DEF IsTrue
<1>2. /\ d.kind = c.kind /\ d.q = c.q /\ d.period = c.period /\ d.number = c.number
      /\ d.walk = c.walk /\ d.walked = c.walked /\ d.still = c.still
    BY <1>1 DEF StatsReading, NoteReading, Reading
<1>3. d \in StatsReading \cup NoteReading
  <2>1. CASE c \in StatsReading
      BY <2>1 DEF StatsReading, Reading
  <2>2. CASE c \in NoteReading
    <3>1. CASE \E page : d = [c EXCEPT !.page = page, !.pageRead = TRUE]
        BY <2>2, <3>1 DEF NoteReading, Reading
    <3>2. CASE \E total : d = [c EXCEPT !.total = total, !.totalRead = TRUE]
        BY <2>2, <3>2 DEF NoteReading, Reading
    <3>3. CASE \E page, total : d = [c EXCEPT !.page = page, !.pageRead = TRUE,
                                              !.total = total, !.totalRead = TRUE]
        BY <2>2, <3>3 DEF NoteReading, Reading
    <3> QED BY <3>1, <3>2, <3>3
  <2> QED BY <1>1, <2>1, <2>2
<1>4. IsAsked(d, z)
    BY <1>2, SameQuery DEF IsTrue
<1>5. IsAnswered(d, s)
  <2>1. LinesOf(d, s) = LinesOf(c, s) /\ OrderOf(d, s) = OrderOf(c, s) /\ OffsetOf(d) = OffsetOf(c)
      BY <1>2, SameQuery
  <2>2. d.totalRead => c.totalRead \/ d.total = Cardinality(LinesOf(c, s))
      OBVIOUS
  <2> QED BY <1>2, <2>1, <2>2 DEF IsAnswered, IsTrue
<1>6. IsWalk(d, s)
    BY <1>2, SameQuery DEF IsWalk, IsTrue
<1> QED BY <1>3, <1>4, <1>5, <1>6 DEF IsTrue

(* A log is flushed.                                                       *)
LEMMA FlushedIsTrue ==
    ASSUME NEW z \in Zones, NEW s, NEW t, NEW c, IsTrue(c, z, s), NEW d,
           d = [c EXCEPT !.walk = FALSE, !.still = FALSE]
    PROVE  IsTrue(d, z, t)
<1>1. c \in StatsReading \cup NoteReading
    BY DEF IsTrue
<1>2. /\ d.kind = c.kind /\ d.q = c.q /\ d.period = c.period /\ d.number = c.number
      /\ ~d.walk /\ ~d.still
    BY <1>1 DEF StatsReading, NoteReading, Reading
<1>3. d \in StatsReading \cup NoteReading
  <2>1. CASE c \in StatsReading
      BY <2>1 DEF StatsReading, Reading
  <2>2. CASE c \in NoteReading
      BY <2>2 DEF NoteReading, Reading
  <2> QED BY <1>1, <2>1, <2>2
<1>4. IsAsked(d, z)
    BY <1>2, SameQuery DEF IsTrue
<1> QED BY <1>2, <1>3, <1>4 DEF IsTrue, IsAnswered, IsWalk

(* What a page has that is known to be true: its size, and that it goes on *)
(* where the pages before ended.                                           *)
LEMMA PageFacts ==
    ASSUME NEW z \in Zones, NEW s \in SUBSET AllLogs, NEW c, IsTrue(c, z, s),
           c.still, c.pageRead, c.totalRead
    PROVE  LET n == Cardinality(LinesOf(c, s))
               following == c.number < TotalPages(c.total, c.q.limit)
           IN  /\ n \in Nat /\ c.total = n
               /\ following <=> c.number * c.q.limit < n
               /\ Cardinality(c.page) \in Nat
               /\ following => Cardinality(c.page) = c.q.limit
               /\ ~following => OffsetOf(c) + Cardinality(c.page) >= n
               /\ OffsetOf(c) < n => c.page # {}
<1> DEFINE L == LinesOf(c, s)
           n == Cardinality(L)
           limit == c.q.limit
           offset == OffsetOf(c)
           end == c.number * limit
<1>1. n \in Nat /\ IsFiniteSet(L)
    BY LinesFit
<1>2. c.total = n /\ IsPage(c.page, L, OrderOf(c, s), limit, offset)
    BY DEF IsTrue, IsAnswered
<1>3. /\ limit \in Nat \ {0} /\ c.number \in Nat /\ offset \in Nat
      /\ offset + limit = end
    BY QueryFacts DEF IsTrue
<1>4. c.number < TotalPages(c.total, limit) <=> end < n
    BY <1>1, <1>2, <1>3, PagesFollow
<1>5. Cardinality(c.page) = PageSize(L, limit, offset) /\ IsFiniteSet(c.page)
    BY <1>1, <1>2, FS_Subset DEF IsPage
<1> HIDE DEF L, n, limit, offset, end
<1>6. PageSize(L, limit, offset) = IF limit <= n - Skipped(L, offset) THEN limit ELSE n - Skipped(L, offset)
    BY DEF PageSize, n
<1>7. Skipped(L, offset) = IF offset <= n THEN offset ELSE n
    BY DEF Skipped, n
<1>8. /\ end < n => PageSize(L, limit, offset) = limit
      /\ ~(end < n) => offset + PageSize(L, limit, offset) >= n
      /\ offset < n => PageSize(L, limit, offset) > 0
    BY <1>1, <1>3, <1>6, <1>7
<1>9. offset < n => c.page # {}
    BY <1>5, <1>8, FS_EmptySet
<1>10. Cardinality(c.page) \in Nat
    BY <1>5, FS_CardinalityType
<1> QED BY <1>1, <1>2, <1>4, <1>5, <1>8, <1>9, <1>10 DEF L, n, limit, offset, end

(* Without ties and without flushes, a page and the pages walked before it *)
(* do not meet and lead all lines; they are all once the last page is      *)
(* read.                                                                   *)
LEMMA WalkFacts ==
    ASSUME NEW z \in Zones, NEW s \in SUBSET AllLogs, NEW c, IsTrue(c, z, s),
           c.walk, c.pageRead, c.totalRead, Untied(c, s)
    PROVE  LET L == LinesOf(c, s)
           IN  /\ c.page \cap c.walked = {} /\ c.page \subseteq L /\ c.walked \subseteq L
               /\ Leads(c.walked \cup c.page, L, OrderOf(c, s))
               /\ Cardinality(c.walked \cup c.page) = OffsetOf(c) + Cardinality(c.page)
               /\ Cardinality(L) <= c.number * c.q.limit => c.walked \cup c.page = L
<1> DEFINE L == LinesOf(c, s)
<1>1. IsFiniteSet(L)
    BY LinesFit
<1>2. /\ c.walked \in SUBSET L /\ Cardinality(c.walked) = OffsetOf(c)
      /\ Leads(c.walked, L, OrderOf(c, s))
    BY DEF IsTrue, IsWalk
<1>3. IsPage(c.page, L, OrderOf(c, s), c.q.limit, OffsetOf(c))
    BY DEF IsTrue, IsAnswered
<1>4. IsTotal(OrderOf(c, s), L)
    BY UntiedIsTotal DEF IsTrue
<1>5. /\ c.q.limit \in Nat /\ OffsetOf(c) \in Nat
      /\ OffsetOf(c) + c.q.limit = c.number * c.q.limit
    BY QueryFacts DEF IsTrue
<1> DEFINE order  == OrderOf(c, s)
           offset == OffsetOf(c)
           limit  == c.q.limit
           walked == c.walked
           page   == c.page
<1> HIDE DEF L, order, offset, limit, walked, page
<1>6. /\ page \cap walked = {} /\ page \subseteq L
      /\ Leads(walked \cup page, L, order)
      /\ Cardinality(walked \cup page) = offset + Cardinality(page)
      /\ Cardinality(L) <= offset + limit => walked \cup page = L
  <2>1. walked \in SUBSET L /\ Cardinality(walked) = offset /\ Leads(walked, L, order)
      BY <1>2 DEF L, order, offset, walked
  <2>2. IsPage(page, L, order, limit, offset)
      BY <1>3 DEF L, order, offset, limit, page
  <2>3. IsTotal(order, L)
      BY <1>4 DEF L, order
  <2>4. limit \in Nat /\ offset \in Nat
      BY <1>5 DEF limit, offset
  <2> QED BY <1>1, <2>1, <2>2, <2>3, <2>4, WalkGoesOn
<1>7. /\ c.page \cap c.walked = {} /\ c.page \subseteq L
      /\ Leads(c.walked \cup c.page, L, OrderOf(c, s))
      /\ Cardinality(c.walked \cup c.page) = OffsetOf(c) + Cardinality(c.page)
      /\ Cardinality(L) <= OffsetOf(c) + c.q.limit => c.walked \cup c.page = L
    BY <1>6 DEF order, offset, limit, walked, page
<1> QED BY <1>2, <1>5, <1>7 DEF L

(* The next page of a query.                                               *)
LEMMA NextPageIsTrue ==
    ASSUME NEW z \in Zones, NEW s \in SUBSET AllLogs, NEW c, IsTrue(c, z, s),
           c.pageRead, c.totalRead, c.number < TotalPages(c.total, c.q.limit),
           NEW q, q = (IF c.kind = "stats" THEN [c.q EXCEPT !.offset = @ + c.q.limit]
                                           ELSE [c.q EXCEPT !.page = @ + 1]),
           NEW d, d = [NewReading(c.kind, q, c.period, c.number + 1) EXCEPT
                         !.walk = c.walk, !.walked = c.walked \cup c.page]
    PROVE  IsTrue(d, z, s)
<1>1. c \in StatsReading \cup NoteReading /\ IsAsked(c, z)
    BY DEF IsTrue
<1>2. /\ c.q.limit \in Nat \ {0} /\ c.number \in Nat \ {0}
      /\ OffsetOf(c) = (c.number - 1) * c.q.limit /\ OffsetOf(c) \in Nat
      /\ OffsetOf(c) + c.q.limit = c.number * c.q.limit
    BY <1>1, QueryFacts
<1>3. /\ d.kind = c.kind /\ d.q = q /\ d.period = c.period /\ d.number = c.number + 1
      /\ d.walk = c.walk /\ d.walked = c.walked \cup c.page /\ d.still = TRUE
      /\ ~d.totalRead /\ ~d.pageRead
    BY DEF NewReading
<1>4. d \in StatsReading \cup NoteReading
  <2>1. /\ {} \in SUBSET Lines /\ 0 \in 0..Cardinality(AllLogs)
        /\ c.number + 1 \in Nat \ {0}
      BY <1>2, LogsAreFinite
  <2>2. CASE c \in StatsReading
    <3>1. c.kind = "stats" /\ c.q \in StatsFilters /\ c.q.offset + c.q.limit \in Nat
        BY <2>2, <1>2 DEF StatsReading, Reading, OffsetOf
    <3>2. q \in StatsFilters
        BY <3>1 DEF StatsFilters
    <3> QED BY <2>1, <2>2, <3>1, <3>2 DEF NewReading, StatsReading, Reading
  <2>3. CASE c \in NoteReading
    <3>1. c.kind = "notes" /\ c.q \in NoteRequest
        BY <2>3 DEF NoteReading, Reading
    <3>2. q \in NoteRequest
        BY <3>1 DEF NoteRequest
    <3> QED BY <2>1, <2>3, <3>1, <3>2 DEF NewReading, NoteReading, Reading
  <2> QED BY <1>1, <2>2, <2>3
<1>5. IsAsked(d, z)
  <2>1. ASSUME c.kind = "stats" PROVE AsksStats(d, z)
    <3>1. PICK r \in StatsRequests[z] :
             /\ AcceptsStats(r) /\ c.period = <<r.from, r.to>>
             /\ c.q = [Filters(r, z) EXCEPT !.offset = (c.number - 1) * r.limit]
        BY <1>1, <2>1 DEF IsAsked, AsksStats
    <3>2. c.q.limit = r.limit /\ c.q.offset = OffsetOf(c)
        BY <3>1, <2>1 DEF Filters, OffsetOf
    <3>3. q = [c.q EXCEPT !.offset = c.number * r.limit]
        BY <2>1, <3>2, <1>2
    <3>4. q = [Filters(r, z) EXCEPT !.offset = c.number * r.limit]
        BY <3>1, <3>3 DEF Filters
    <3>5. d.number - 1 = c.number
        BY <1>2, <1>3
    <3> QED BY <3>1, <3>4, <3>5, <1>3 DEF AsksStats
  <2>2. ASSUME c.kind = "notes" PROVE AsksNotes(d)
    <3>1. PICK r \in NoteRequests : AcceptsSort(r) /\ c.q = [r EXCEPT !.page = c.number]
        BY <1>1, <2>2 DEF IsAsked, AsksNotes
    <3>2. r \in NoteRequest
        BY ReadAssumption
    <3>3. q = [r EXCEPT !.page = c.number + 1]
        BY <2>2, <3>1, <3>2 DEF NoteRequest
    <3> QED BY <3>1, <3>3, <1>3 DEF AsksNotes
  <2> QED BY <1>3, <2>1, <2>2 DEF IsAsked
<1>6. IsAnswered(d, s)
    BY <1>3 DEF IsAnswered
<1>7. IsWalk(d, s)
  <2>1. /\ LinesOf(d, s) = LinesOf(c, s) /\ d.q.limit = c.q.limit
        /\ OrderOf(d, s) = OrderOf(c, s)
        /\ Untied(d, s) <=> Untied(c, s)
    <3>1. c.kind = "stats" => \E x : d.q = [c.q EXCEPT !.offset = x]
        BY <1>3
    <3>2. c.kind = "notes" => \E x : d.q = [c.q EXCEPT !.page = x]
        BY <1>3
    <3>3. IsOtherPage(d, c)
        BY <1>3, <3>1, <3>2 DEF IsOtherPage
    <3> QED BY <1>1, <3>3, NextPageSameLines
  <2>2. SUFFICES ASSUME c.walk, Untied(c, s)
                 PROVE  /\ c.walked \cup c.page \subseteq LinesOf(c, s)
                        /\ Cardinality(c.walked \cup c.page) = OffsetOf(d)
                        /\ Leads(c.walked \cup c.page, LinesOf(c, s), OrderOf(c, s))
      BY <1>3, <2>1 DEF IsWalk
  <2>3. c.still
      BY <2>2 DEF IsTrue, IsAnswered
  <2>4. Cardinality(c.page) = c.q.limit
      BY <2>3, PageFacts
  <2>5. /\ c.walked \cup c.page \subseteq LinesOf(c, s)
        /\ Cardinality(c.walked \cup c.page) = OffsetOf(c) + Cardinality(c.page)
        /\ Leads(c.walked \cup c.page, LinesOf(c, s), OrderOf(c, s))
      BY <2>2, WalkFacts
  <2>6. OffsetOf(d) = (d.number - 1) * d.q.limit
      BY <1>4, <1>5, QueryFacts
  <2>7. d.number - 1 = c.number
      BY <1>2, <1>3
  <2>8. OffsetOf(d) = OffsetOf(c) + c.q.limit
      BY <1>2, <2>1, <2>6, <2>7
  <2> QED BY <2>4, <2>5, <2>8
<1> QED BY <1>4, <1>5, <1>6, <1>7 DEF IsTrue

(***************************************************************************)
(* Visits                                                                  *)
(***************************************************************************)
PaysFor(c) ==
    /\ c.payload \in Payloads /\ IsValidLink(c.payload)
    /\ c.link = ParseLink(c.payload)
    /\ \E request \in VisitRequests : c.log = Visited(c.link, request)

(* trackVisit pays by the rate of the log's country and device.            *)
LEMMA VisitedPays ==
    ASSUME NEW payload \in Payload, IsValidLink(payload), NEW request, NEW log,
           log = Visited(ParseLink(payload), request)
    PROVE  LET rate == RateOfCode(payload, log.country)
           IN  /\ log.payout = IF log.device = "mobile" THEN rate.payout.mobile[1]
                                                        ELSE rate.payout.desktop[1]
               /\ log.payout \in Int /\ log.mask \in 0..7
<1> DEFINE rate  == RateOfCode(payload, log.country)
           named == Named(payload, log.country)
<1>1. /\ log.country = SanitizeCountry(request.country)
      /\ log.device = DetectDevice(request.agent)
      /\ log.mask = BuildDetectionMask(request.detected)
      /\ log.payout = Payout(ParseLink(payload), request.country, request.agent)
    BY DEF Visited
<1>2. ResolveRate(ParseLink(payload), request.country) = rate
    BY <1>1, LastEntryPays
<1>3. log.payout = IF log.device = "mobile" THEN rate.payout.mobile[1] ELSE rate.payout.desktop[1]
    BY <1>1, <1>2 DEF Payout
<1>4. log.mask \in 0..7
    BY <1>1 DEF BuildDetectionMask
<1>5. rate \in Rate /\ ParseRate(rate)
  <2>1. CASE named = {}
      BY <2>1 DEF RateOfCode, IsValidLink, Payload
  <2>2. CASE named # {}
    <3>1. payload.countries \in Seq([name : STRING, rate : Rate])
        BY DEF Payload
    <3>2. named \in SUBSET (1..Len(payload.countries)) /\ Len(payload.countries) \in Nat
        BY <3>1 DEF Named
    <3>3. Max(named) \in named
        BY <2>2, <3>2, MaxOf
    <3>4. Max(named) \in DOMAIN payload.countries /\ ParseRate(payload.countries[Max(named)].rate)
        BY <3>3 DEF Named
    <3>5. payload.countries[Max(named)] \in [name : STRING, rate : Rate]
      <4> DEFINE i == Max(named)
                 entries == payload.countries
      <4>1. i \in DOMAIN entries
          BY <3>4
      <4> HIDE DEF i, entries
      <4>2. entries \in Seq([name : STRING, rate : Rate])
          BY <3>1 DEF entries
      <4>3. entries[i] \in [name : STRING, rate : Rate]
        <5> DEFINE E == [name : STRING, rate : Rate]
        <5>1. entries \in Seq(E)
            BY <4>2
        <5> HIDE DEF E
        <5>2. entries[i] \in E
            BY <4>1, <5>1
        <5> QED BY <5>2 DEF E
      <4> QED BY <4>3 DEF i, entries
    <3>6. payload.countries[Max(named)].rate \in Rate
        BY <3>5
    <3> QED BY <2>2, <3>4, <3>6 DEF RateOfCode
  <2> QED BY <2>1, <2>2
<1> HIDE DEF rate
<1>6. rate.payout \in RatePair /\ IsNumber(rate.payout.mobile) /\ IsNumber(rate.payout.desktop)
    BY <1>5 DEF Rate, ParseRate
<1>7. rate.payout.mobile[1] \in Int /\ rate.payout.desktop[1] \in Int
  <2>1. ASSUME NEW field \in Field, IsNumber(field) PROVE field[1] \in Int
    <3>1. field \in [1..1 -> Int] /\ 1 \in 1..1
        BY <2>1 DEF Field, IsNumber
    <3> QED BY <3>1
  <2> QED BY <1>6, <2>1 DEF RatePair
<1> QED BY <1>3, <1>4, <1>7 DEF rate

(***************************************************************************)
(* Short links                                                             *)
(***************************************************************************)
IsStrictOrder(order, S) ==
    /\ IsTotal(order, S)
    /\ \A a, b \in S : <<a, b>> \in order => <<b, a>> \notin order
    /\ \A a, b, c \in S : <<a, b>> \in order /\ <<b, c>> \in order => <<a, c>> \in order

(* The members of a finite set can be put in order: each has the place     *)
(* after those that come before it.                                        *)
LEMMA OrderedList ==
    ASSUME NEW S, IsFiniteSet(S), NEW order, IsStrictOrder(order, S)
    PROVE  \E p \in Bijection(1..Cardinality(S), S) :
              \A k, l \in 1..Cardinality(S) : k < l => <<p[k], p[l]>> \in order
<1> DEFINE n      == Cardinality(S)
           Before(a) == {b \in S : <<b, a>> \in order}
           rank   == [a \in S |-> Cardinality(Before(a)) + 1]
<1>1. n \in Nat
    BY FS_CardinalityType
<1>2. ASSUME NEW a \in S
      PROVE  /\ IsFiniteSet(Before(a)) /\ Cardinality(Before(a)) \in 0..(n - 1)
             /\ rank[a] = Cardinality(Before(a)) + 1
  <2>1. Before(a) \in SUBSET S /\ a \notin Before(a)
      BY DEF IsStrictOrder
  <2>2. IsFiniteSet(Before(a)) /\ Cardinality(Before(a)) <= n /\ Cardinality(Before(a)) # n
    <3> DEFINE T == Before(a)
    <3>1. T \in SUBSET S /\ T # S
        BY <2>1
    <3> HIDE DEF T
    <3>2. IsFiniteSet(T) /\ Cardinality(T) <= n /\ Cardinality(T) # n
        BY <3>1, FS_Subset
    <3> QED BY <3>2 DEF T
  <2>3. Cardinality(Before(a)) \in Nat
      BY <2>2, FS_CardinalityType
  <2> QED BY <1>1, <2>2, <2>3
<1> HIDE DEF Before
<1>3. ASSUME NEW a \in S, NEW b \in S, <<a, b>> \in order
      PROVE  rank[a] < rank[b]
  <2> DEFINE A == Before(a)
             B == Before(b)
  <2>1. A \in SUBSET B /\ a \in B /\ a \notin A
      BY <1>3 DEF IsStrictOrder, Before
  <2>2. IsFiniteSet(B) /\ Cardinality(A) \in Nat /\ Cardinality(B) \in Nat
      BY <1>2
  <2>3. rank[a] = Cardinality(A) + 1 /\ rank[b] = Cardinality(B) + 1
      BY <1>2
  <2> HIDE DEF A, B, rank
  <2>4. Cardinality(A) <= Cardinality(B) /\ Cardinality(A) # Cardinality(B)
      BY <2>1, <2>2, FS_Subset
  <2> QED BY <2>2, <2>3, <2>4
<1>4. rank \in [S -> 1..n]
  <2>1. \A a \in S : Cardinality(Before(a)) + 1 \in 1..n
      BY <1>1, <1>2
  <2> QED BY <2>1
<1> HIDE DEF rank
<1>5. \A a, b \in S : rank[a] = rank[b] => a = b
  <2>1. SUFFICES ASSUME NEW a \in S, NEW b \in S, a # b PROVE rank[a] # rank[b]
      OBVIOUS
  <2>2. rank[a] < rank[b] \/ rank[b] < rank[a]
      BY <1>3, <2>1 DEF IsStrictOrder, IsTotal
  <2>3. rank[a] \in 1..n /\ rank[b] \in 1..n
      BY <1>4
  <2> QED BY <1>1, <2>2, <2>3
<1>6. rank \in Bijection(S, 1..n)
  <2> DEFINE T == {rank[a] : a \in S}
  <2>1. T \in SUBSET (1..n) /\ rank \in [S -> T]
      BY <1>4
  <2>2. rank \in Surjection(S, T) /\ rank \in Injection(S, T)
      BY <1>5, <2>1, Fun_IsSurj, Fun_IsInj
  <2>3. Cardinality(T) = n
      BY <2>2, FS_Surjection
  <2>4. IsFiniteSet(1..n) /\ Cardinality(1..n) = n
      BY <1>1, FS_Interval
  <2>5. T = 1..n
    <3> HIDE DEF T
    <3> QED BY <2>1, <2>3, <2>4, FS_Subset
  <2> QED BY <2>2, <2>5 DEF Bijection
<1> HIDE DEF n
<1>9. \A t \in 1..n : \E a \in S : rank[a] = t
    BY <1>6 DEF Bijection, Surjection
<1> DEFINE p == Inverse(rank, S, 1..n)
<1>7. p \in Bijection(1..n, S) /\ \A a \in S : p[rank[a]] = a
    BY <1>6, Fun_BijInverse
<1> HIDE DEF p
<1>8. ASSUME NEW k \in 1..n, NEW l \in 1..n, k < l
      PROVE  <<p[k], p[l]>> \in order
  <2>1. PICK a \in S : rank[a] = k
      BY <1>9
  <2>2. PICK b \in S : rank[b] = l
      BY <1>9
  <2>3. p[k] = a /\ p[l] = b
      BY <1>7, <2>1, <2>2
  <2>4. k # l /\ ~(l < k)
      BY <1>1, <1>8
  <2>5. a # b /\ <<b, a>> \notin order
      BY <1>3, <2>1, <2>2, <2>4
  <2> QED BY <2>3, <2>5 DEF IsStrictOrder, IsTotal
<1> QED BY <1>7, <1>8 DEF n

(* A rule that matches is one that admits the visitor.                     *)
LEMMA MatchesAdmits ==
    ASSUME NEW rule, NEW context
    PROVE  Matches(rule, context) <=> Admits(rule, context)
<1>1. ASSUME NEW group
      PROVE  IsMatched(context, group)
             <=> /\ ~\A key \in DOMAIN group : group[key].kind = "empty"
                 /\ \A key \in DOMAIN group :
                       \/ group[key].kind = "empty"
                       \/ Holds(group[key], ContextValue(context, key))
    BY DEF IsMatched, Given
<1> QED BY <1>1 DEF Matches, Admits

(* The first of the sorted rules is beaten by none.                        *)
Precedes(rules, i, j) ==
    \/ Priority(rules[i]) > Priority(rules[j])
    \/ Priority(rules[i]) = Priority(rules[j]) /\ i < j

(* The first of the matched rules, sorted, is one no other precedes.       *)
LEMMA FirstOfSorted ==
    ASSUME NEW rules, \A i \in DOMAIN rules : Priority(rules[i]) \in Int,
           NEW places \in SUBSET DOMAIN rules, NEW n \in Nat, DOMAIN rules = 1..n,
           places # {}
    PROVE  LET first == SortedByPriority(rules, places)[1]
           IN  first \in places /\ \A j \in places : ~Precedes(rules, j, first)
<1> DEFINE order == {ij \in places \X places : Precedes(rules, ij[1], ij[2])}
           size  == Cardinality(places)
           p     == SortedByPriority(rules, places)
           Falls(q) == \A k, l \in DOMAIN q : k < l =>
                             \/ Priority(rules[q[k]]) > Priority(rules[q[l]])
                             \/ Priority(rules[q[k]]) = Priority(rules[q[l]]) /\ q[k] < q[l]
<1>1. \A i \in places : i \in Int /\ Priority(rules[i]) \in Int
    OBVIOUS
<1>2. IsFiniteSet(places)
    BY FS_Interval, FS_Subset
<1>3. size \in Nat /\ 1 \in 1..size
    BY <1>2, FS_CardinalityType, FS_EmptySet
<1>4. IsStrictOrder(order, places)
  <2>1. \A i, j \in places : i # j => Precedes(rules, i, j) \/ Precedes(rules, j, i)
      BY <1>1 DEF Precedes
  <2>2. \A i, j \in places : Precedes(rules, i, j) => ~Precedes(rules, j, i)
      BY <1>1 DEF Precedes
  <2>3. \A i, j, k \in places : Precedes(rules, i, j) /\ Precedes(rules, j, k) => Precedes(rules, i, k)
      BY <1>1 DEF Precedes
  <2>4. \A i, j \in places : <<i, j>> \in order <=> Precedes(rules, i, j)
      OBVIOUS
  <2> HIDE DEF order
  <2>5. IsTotal(order, places)
      BY <2>1, <2>4 DEF IsTotal
  <2> QED BY <2>2, <2>3, <2>4, <2>5 DEF IsStrictOrder
<1>5. \E q \in Bijection(1..size, places) : Falls(q)
  <2>1. PICK q \in Bijection(1..size, places) :
           \A k, l \in 1..size : k < l => <<q[k], q[l]>> \in order
    <3> HIDE DEF order
    <3> QED BY <1>2, <1>4, OrderedList
  <2>2. DOMAIN q = 1..size
      BY <2>1, Fun_BijectionProperties
  <2>3. \A k, l \in 1..size : k < l => Precedes(rules, q[k], q[l])
      BY <2>1
  <2>4. Falls(q)
      BY <2>2, <2>3 DEF Precedes
  <2> QED BY <2>1, <2>4
<1>6. p \in Bijection(1..size, places) /\ Falls(p)
  <2>1. p = CHOOSE q \in Bijection(1..size, places) : Falls(q)
      BY DEF SortedByPriority
  <2> HIDE DEF Falls, p
  <2> QED BY <1>5, <2>1
<1>7. /\ p \in [1..size -> places]
      /\ \A i \in places : \E k \in 1..size : p[k] = i
  <2> HIDE DEF p, size, Falls
  <2> QED BY <1>6 DEF Bijection, Surjection
<1>8. p[1] \in places
    BY <1>3, <1>7
<1>9. ASSUME NEW j \in places PROVE ~Precedes(rules, j, p[1])
  <2>1. PICK k \in 1..size : p[k] = j
      BY <1>7
  <2>2. DOMAIN p = 1..size
      BY <1>7
  <2>3. k = 1 \/ 1 < k
      BY <1>3
  <2>4. 1 < k => Precedes(rules, p[1], p[k])
      BY <1>3, <1>6, <2>2 DEF Precedes
  <2> HIDE DEF p
  <2>5. CASE k = 1
      BY <1>1, <2>1, <2>5 DEF Precedes
  <2>6. CASE 1 < k
      BY <1>1, <1>8, <2>1, <2>4, <2>6 DEF Precedes
  <2> QED BY <2>3, <2>5, <2>6
<1> QED BY <1>8, <1>9

(* A visitor who is redirected is sent to what his link and context give.  *)
IsSent(c) ==
    /\ DOMAIN c = {"kind", "link", "context", "to"}
    /\ IsShortLink(c.link) /\ c.to \in Redirects(c.link, c.context)

(* Where a redirect goes when it goes where its link and context say: to   *)
(* the link of a rule that no other beats.                                 *)
LEMMA SentByBestRule ==
    ASSUME NEW c, IsSent(c)
    PROVE  LET settings == c.link.settings
               admitted == {i \in DOMAIN RulesOf(settings) : Admits(settings.rules[i], c.context)}
               best     == {i \in admitted : \A j \in admitted : ~Beats(settings, j, i)}
           IN CASE c.link.status # "found" -> c.to = "404"
                [] c.to = "/" -> best = {} \/ \E i \in best : settings.rules[i].link = NoLink
                [] OTHER -> \E i \in best : settings.rules[i].link = c.to
<1> DEFINE settings == c.link.settings
           rules    == settings.rules
           admitted == {i \in DOMAIN RulesOf(settings) : Admits(rules[i], c.context)}
           best     == {i \in admitted : \A j \in admitted : ~Beats(settings, j, i)}
           matched  == MatchedRules(settings, c.context)
           chosen   == GetMatchedRule(settings, c.context)
<1>1. matched = admitted
    BY MatchesAdmits DEF MatchedRules
<1>2. c.link.status \in {"missing", "deleted", "found"}
    BY DEF IsSent, IsShortLink
<1>3. CASE c.link.status # "found"
    BY <1>2, <1>3 DEF IsSent, Redirects
<1>4. CASE c.link.status = "found" /\ admitted = {}
  <2>1. chosen = {}
    <3>1. matched = {}
        BY <1>1, <1>4
    <3> QED BY <3>1 DEF GetMatchedRule
  <2>2. c.to = "/"
      BY <1>4, <2>1 DEF IsSent, Redirects
  <2> QED BY <1>4, <2>2
<1>5. CASE c.link.status = "found" /\ admitted # {}
  <2>1. settings.kind # "unreadable" /\ RulesOf(settings) = rules
      BY <1>5 DEF RulesOf
  <2>2. PICK n \in Nat : DOMAIN rules = 1..n
      BY <2>1 DEF IsSent, IsShortLink
  <2>3. \A i \in DOMAIN rules : Priority(rules[i]) \in Int /\ rules[i].link # "/"
      BY <2>1 DEF IsSent, IsShortLink
  <2>4. admitted \in SUBSET (1..n) /\ admitted # {}
      BY <1>5, <2>1, <2>2
  <2>5. \A rule \in chosen : \E i \in best : rule = rules[i]
    <3>1. CASE Strategy(settings) = "priority"
      <4> DEFINE first == SortedByPriority(rules, admitted)[1]
      <4>1. chosen = {rules[first]}
          BY <1>1, <1>5, <3>1 DEF GetMatchedRule
      <4>2. first \in admitted /\ \A j \in admitted : ~Precedes(rules, j, first)
        <5> HIDE DEF admitted, rules
        <5> QED BY <2>2, <2>3, <2>4, FirstOfSorted
      <4>3. \A j \in admitted : Beats(settings, j, first) <=> Precedes(rules, j, first)
          BY <3>1 DEF Beats, Precedes
      <4> QED BY <4>1, <4>2, <4>3
    <3>2. CASE Strategy(settings) = "random"
      <4>1. chosen = {rules[i] : i \in admitted}
          BY <1>1, <1>5, <3>2 DEF GetMatchedRule
      <4>2. best = admitted
          BY <3>2 DEF Beats
      <4> QED BY <4>1, <4>2
    <3>3. CASE Strategy(settings) \notin {"priority", "random"}
      <4>1. chosen = {rules[Min(admitted)]}
          BY <1>1, <1>5, <3>3 DEF GetMatchedRule
      <4>2. Min(admitted) \in admitted /\ \A j \in admitted : ~(j < Min(admitted))
        <5> HIDE DEF admitted
        <5> QED BY <2>4, LeastOf
      <4>3. \A j \in admitted : ~Beats(settings, j, Min(admitted))
          BY <3>3, <4>2 DEF Beats
      <4> QED BY <4>1, <4>2, <4>3
    <3> QED BY <3>1, <3>2, <3>3
  <2>6. chosen # {}
      BY <1>1, <1>5 DEF GetMatchedRule
  <2>7. PICK rule \in chosen : c.to = IF rule.link = NoLink THEN "/" ELSE rule.link
      BY <1>5, <2>6 DEF IsSent, Redirects
  <2>8. PICK b \in best : rule = rules[b]
      BY <2>5, <2>7
  <2>9. rule.link # "/" /\ NoLink # "/"
      BY <2>1, <2>3, <2>8 DEF NoLink
  <2> HIDE DEF best, rules
  <2>10. c.to = "/" => \E i \in best : rules[i].link = NoLink
      BY <2>7, <2>8, <2>9
  <2>11. c.to # "/" => \E i \in best : rules[i].link = c.to
      BY <2>7, <2>8
  <2> QED BY <1>5, <2>10, <2>11 DEF best, rules
<1> QED BY <1>3, <1>4, <1>5

(***************************************************************************)
(* The inductive invariant                                                 *)
(***************************************************************************)
ReadInv ==
    /\ ReadTypeOK
    /\ IsReading => IsTrue(call, zone, Stored)
    /\ call.kind = "redirect" => IsSent(call)
    /\ call.kind = "visit" => PaysFor(call)

LEMMA QueryKinds ==
    ASSUME NEW c \in StatsReading \cup NoteReading
    PROVE  /\ c.kind \in {"stats", "notes"}
           /\ c.kind = "stats" => c \in StatsReading
           /\ c.kind = "notes" => c \in NoteReading
BY DEF StatsReading, NoteReading, Reading

(* What a request in any state but the ones on its way to an answer has.   *)
LEMMA PaysForType ==
    ASSUME NEW c, PaysFor(c)
    PROVE  IsValidLink(c.payload) /\ c.log.payout \in Int /\ c.log.mask \in 0..7
<1>1. c.payload \in Payload
    BY ReadAssumption DEF PaysFor
<1>2. PICK request \in VisitRequests : c.log = Visited(ParseLink(c.payload), request)
    BY DEF PaysFor
<1>3. IsValidLink(c.payload)
    BY DEF PaysFor
<1>4. c.log.payout \in Int /\ c.log.mask \in 0..7
    BY <1>1, <1>2, <1>3, VisitedPays
<1> QED BY <1>3, <1>4

(* The invariant holds in states of each kind.                             *)
LEMMA InvFollows ==
    ASSUME zone \in Zones, place \in [AllLogs -> Places],
           \/ call \in {Idle, Refused, Failed}
           \/ IsTrue(call, zone, Stored)
           \/ call.kind = "redirect" /\ IsSent(call)
           \/ call.kind = "visit" /\ PaysFor(call)
    PROVE  ReadInv
<1>1. CASE call \in {Idle, Refused, Failed}
  <2>1. call.kind \in {"idle", "refused", "failed"}
      BY <1>1 DEF Idle, Refused, Failed
  <2> QED BY <1>1, <2>1 DEF ReadInv, ReadTypeOK, IsReading
<1>2. CASE IsTrue(call, zone, Stored)
  <2>1. call \in StatsReading \cup NoteReading
      BY <1>2 DEF IsTrue
  <2>2. call.kind \in {"stats", "notes"}
      BY <2>1, QueryKinds
  <2> QED BY <1>2, <2>1, <2>2 DEF ReadInv, ReadTypeOK, IsReading, StatsReading, NoteReading
<1>3. CASE call.kind = "redirect" /\ IsSent(call)
    BY <1>3 DEF ReadInv, ReadTypeOK, IsReading, IsSent
<1>4. CASE call.kind = "visit" /\ PaysFor(call)
    BY <1>4, PaysForType DEF ReadInv, ReadTypeOK, IsReading
<1> QED BY <1>1, <1>2, <1>3, <1>4

(* The same of the next state.                                             *)
LEMMA InvFollowsNext ==
    ASSUME zone' \in Zones, place' \in [AllLogs -> Places],
           \/ call' \in {Idle, Refused, Failed}
           \/ IsTrue(call', zone', Stored')
           \/ call'.kind = "redirect" /\ IsSent(call')
           \/ call'.kind = "visit" /\ PaysFor(call')
    PROVE  ReadInv'
<1>1. CASE call' \in {Idle, Refused, Failed}
  <2>1. call'.kind \in {"idle", "refused", "failed"}
      BY <1>1 DEF Idle, Refused, Failed
  <2> QED BY <1>1, <2>1 DEF ReadInv, ReadTypeOK, IsReading
<1>2. CASE IsTrue(call', zone', Stored')
  <2>1. call' \in StatsReading \cup NoteReading
      BY <1>2 DEF IsTrue
  <2>2. call'.kind \in {"stats", "notes"}
      BY <2>1, QueryKinds
  <2> QED BY <1>2, <2>1, <2>2 DEF ReadInv, ReadTypeOK, IsReading, StatsReading, NoteReading
<1>3. CASE call'.kind = "redirect" /\ IsSent(call')
    BY <1>3 DEF ReadInv, ReadTypeOK, IsReading, IsSent
<1>4. CASE call'.kind = "visit" /\ PaysFor(call')
    BY <1>4, PaysForType DEF ReadInv, ReadTypeOK, IsReading
<1> QED BY <1>1, <1>2, <1>3, <1>4

(* A request that does nothing stays as it is.                             *)
LEMMA InvParts ==
    ASSUME ReadInv
    PROVE  /\ zone \in Zones /\ place \in [AllLogs -> Places]
           /\ IsReading => IsTrue(call, zone, Stored)
           /\ \/ call \in {Idle, Refused, Failed}
              \/ IsTrue(call, zone, Stored)
              \/ call.kind = "redirect" /\ IsSent(call)
              \/ call.kind = "visit" /\ PaysFor(call)
<1>1. call \in StatsReading \cup NoteReading => IsTrue(call, zone, Stored)
    BY QueryKinds DEF ReadInv, IsReading
<1> QED BY <1>1 DEF ReadInv, ReadTypeOK, StatsReading, NoteReading

(* At first no request is in progress.                                     *)
LEMMA ReadInvInit == Init => ReadInv
<1> SUFFICES ASSUME Init PROVE ReadInv
    OBVIOUS
<1>1. zone \in Zones /\ place \in [AllLogs -> Places] /\ call \in {Idle, Refused, Failed}
    BY DEF Init, Places
<1> QED BY <1>1, InvFollows

(* Every step keeps ReadInv.                                               *)
LEMMA ReadInvNext == ReadInv /\ [Next]_vars => ReadInv'
<1> SUFFICES ASSUME ReadInv, [Next]_vars PROVE ReadInv'
    OBVIOUS
<1> DEFINE Changed == \/ call' \in {Idle, Refused, Failed}
                      \/ IsTrue(call', zone', Stored')
                      \/ call'.kind = "redirect" /\ IsSent(call')
                      \/ call'.kind = "visit" /\ PaysFor(call')
<1>1. zone \in Zones /\ place \in [AllLogs -> Places] /\ Stored \in SUBSET AllLogs
    BY InvParts, StoredInLogs
<1>2. IsReading => IsTrue(call, zone, Stored)
    BY InvParts
<1>3. ~IsReading => \/ call \in {Idle, Refused, Failed}
                    \/ call.kind = "redirect" /\ IsSent(call)
                    \/ call.kind = "visit" /\ PaysFor(call)
  <2>1. IsTrue(call, zone, Stored) => IsReading
      BY QueryKinds DEF IsTrue, IsReading
  <2> QED BY <2>1, InvParts
<1>4. zone' = zone /\ place' = place => Stored' = Stored
    BY DEF Stored
<1>5. ASSUME UNCHANGED zone, place' \in [AllLogs -> Places], Changed PROVE ReadInv'
    BY <1>1, <1>5, InvFollowsNext
<1>6. ASSUME NEW log \in AllLogs, Flush(log) PROVE ReadInv'
  <2>1. UNCHANGED zone /\ place' \in [AllLogs -> Places]
      BY <1>1, <1>6 DEF Flush, Places
  <2>2. CASE IsReading
    <3>1. call' = [call EXCEPT !.walk = FALSE, !.still = FALSE] /\ zone' = zone
        BY <1>6, <2>2 DEF Flush
    <3>2. IsTrue(call, zone, Stored)
        BY <1>2, <2>2
    <3>3. IsTrue(call', zone, Stored')
        BY <1>1, <3>1, <3>2, FlushedIsTrue
    <3>4. IsTrue(call', zone', Stored')
        BY <3>1, <3>3
    <3> QED BY <1>5, <2>1, <3>4
  <2>3. CASE ~IsReading
      BY <1>3, <1>5, <1>6, <2>1, <2>3 DEF Flush
  <2> QED BY <2>2, <2>3
<1>7. ASSUME NEW log \in AllLogs, Migrate(log) PROVE ReadInv'
  <2>1. UNCHANGED <<zone, call>> /\ place' \in [AllLogs -> Places]
      BY <1>1, <1>7 DEF Migrate, Places
  <2>2. Stored' = Stored
      BY <1>1, <1>7 DEF Migrate, Stored
  <2> QED BY <1>2, <1>3, <1>5, <2>1, <2>2
<1>8. CASE AskStats
  <2>1. PICK q \in StatsRequests[zone] :
           call' = IF AcceptsStats(q)
                   THEN NewReading("stats", Filters(q, zone), <<q.from, q.to>>, q.page)
                   ELSE Refused
      BY <1>8 DEF AskStats
  <2>2. UNCHANGED <<zone, place>>
      BY <1>8 DEF AskStats
  <2>3. CASE ~AcceptsStats(q)
      BY <1>1, <1>5, <2>1, <2>2, <2>3
  <2>4. CASE AcceptsStats(q)
    <3>1. q \in StatsRequest /\ zone \in Int
        BY <1>1, ReadAssumption
    <3>2. /\ Filters(q, zone) \in StatsFilters
          /\ <<q.from, q.to>> \in TemporalInput \X TemporalInput
          /\ q.page \in Nat \ {0} /\ q.limit \in Nat \ {0}
        BY <2>4, <3>1, FiltersType DEF StatsRequest
    <3>3. /\ call' = NewReading("stats", Filters(q, zone), <<q.from, q.to>>, q.page)
          /\ call'.kind = "stats" /\ call'.q = Filters(q, zone)
          /\ call'.period = <<q.from, q.to>> /\ call'.number = q.page
        BY <2>1, <2>4 DEF NewReading
    <3>4. Filters(q, zone) = [Filters(q, zone) EXCEPT !.offset = (q.page - 1) * q.limit]
        BY DEF Filters
    <3>5. AsksStats(call', zone)
        BY <2>4, <3>3, <3>4 DEF AsksStats
    <3>6. IsAsked(call', zone)
        BY <3>3, <3>5 DEF IsAsked
    <3>7. IsTrue(call', zone, Stored)
        BY <1>1, <3>2, <3>3, <3>6, NewReadingIsTrue
    <3> QED BY <1>1, <1>4, <1>5, <2>2, <3>7
  <2> QED BY <2>3, <2>4
<1>9. CASE AskNotes
  <2>1. PICK q \in NoteRequests :
           call' = IF AcceptsSort(q) THEN NewReading("notes", q, <<>>, q.page) ELSE Refused
      BY <1>9 DEF AskNotes
  <2>2. UNCHANGED <<zone, place>>
      BY <1>9 DEF AskNotes
  <2>3. CASE ~AcceptsSort(q)
      BY <1>1, <1>5, <2>1, <2>2, <2>3
  <2>4. CASE AcceptsSort(q)
    <3>1. q \in NoteRequest
        BY ReadAssumption
    <3>2. q.page \in Nat \ {0} /\ q = [q EXCEPT !.page = q.page]
        BY <3>1 DEF NoteRequest
    <3>3. /\ call' = NewReading("notes", q, <<>>, q.page)
          /\ call'.kind = "notes" /\ call'.q = q /\ call'.number = q.page
        BY <2>1, <2>4 DEF NewReading
    <3>4. AsksNotes(call')
        BY <2>4, <3>2, <3>3 DEF AsksNotes
    <3>5. IsAsked(call', zone)
        BY <3>3, <3>4 DEF IsAsked
    <3>6. IsTrue(call', zone, Stored)
        BY <1>1, <3>1, <3>2, <3>3, <3>5, NewReadingIsTrue
    <3> QED BY <1>1, <1>4, <1>5, <2>2, <3>6
  <2> QED BY <2>3, <2>4
<1>10. CASE ReadStatsRows
  <2>1. IsReading /\ call.kind = "stats"
      BY <1>10 DEF ReadStatsRows, IsReading
  <2>2. PICK page \in StatsPages(call.q, Stored) :
           call' = [call EXCEPT !.page = page, !.pageRead = TRUE]
      BY <1>10 DEF ReadStatsRows
  <2>3. UNCHANGED <<zone, place>>
      BY <1>10 DEF ReadStatsRows
  <2>4. /\ call \in StatsReading /\ OffsetOf(call) = call.q.offset
        /\ call.q.limit \in Nat /\ OffsetOf(call) \in Nat
      BY <1>1, <1>2, <2>1, QueryKinds, QueryFacts DEF IsTrue, OffsetOf
  <2>5. LinesOf(call, Stored) = StatsLines(call.q, Stored)
      BY <2>1 DEF LinesOf
  <2>6. Cardinality(LinesOf(call, Stored)) \in Nat /\ LinesOf(call, Stored) \subseteq Lines
      BY <1>1, LinesFit
  <2>7. IsPage(page, LinesOf(call, Stored), OrderOf(call, Stored), call.q.limit, OffsetOf(call))
    <3>1. IsPage(page, StatsLines(call.q, Stored), StatsOrder(call.q, StatsLines(call.q, Stored)),
                 call.q.limit, call.q.offset)
        BY <2>4, <2>5, <2>6, StatsPagesArePages
    <3>2. OrderOf(call, Stored) = StatsOrder(call.q, StatsLines(call.q, Stored))
        BY <2>1, <2>5 DEF OrderOf
    <3> QED BY <3>1, <3>2, <2>4, <2>5
  <2>8. /\ call'.page = page /\ page \subseteq Lines
        /\ call'.total = call.total /\ call'.totalRead = call.totalRead
      BY <2>2, <2>4, <2>6, <2>7 DEF StatsReading, Reading, IsPage
  <2>9. IsTrue(call', zone, Stored)
      BY <1>1, <1>2, <2>1, <2>2, <2>7, <2>8, LearningIsTrue
  <2> QED BY <1>1, <1>4, <1>5, <2>3, <2>9
<1>11. CASE ReadStatsTotal
  <2>1. /\ IsReading /\ call.kind = "stats" /\ UNCHANGED <<zone, place>>
        /\ call' = [call EXCEPT !.total = Cardinality(StatsLines(call.q, Stored)), !.totalRead = TRUE]
      BY <1>11 DEF ReadStatsTotal, IsReading
  <2>2. call \in StatsReading
      BY <1>2, <2>1, QueryKinds DEF IsTrue
  <2>3. LinesOf(call, Stored) = StatsLines(call.q, Stored)
      BY <2>1 DEF LinesOf
  <2>4. Cardinality(LinesOf(call, Stored)) \in 0..Cardinality(AllLogs)
      BY <1>1, LinesFit
  <2>5. /\ call'.total = Cardinality(LinesOf(call, Stored))
        /\ call'.page = call.page /\ call'.pageRead = call.pageRead
      BY <2>1, <2>2, <2>3 DEF StatsReading, Reading
  <2>6. IsTrue(call', zone, Stored)
      BY <1>1, <1>2, <2>1, <2>4, <2>5, LearningIsTrue
  <2> QED BY <1>1, <1>4, <1>5, <2>1, <2>6
<1>12. CASE CountNotes
  <2>1. /\ IsReading /\ call.kind = "notes" /\ UNCHANGED <<zone, place>>
        /\ call' = [call EXCEPT !.total = Cardinality(NoteLines(call.q, Stored)), !.totalRead = TRUE]
      BY <1>12 DEF CountNotes, IsReading
  <2>2. call \in NoteReading
      BY <1>2, <2>1, QueryKinds DEF IsTrue
  <2>3. LinesOf(call, Stored) = NoteLines(call.q, Stored)
      BY <2>1 DEF LinesOf
  <2>4. Cardinality(LinesOf(call, Stored)) \in 0..Cardinality(AllLogs)
      BY <1>1, LinesFit
  <2>5. /\ call'.total = Cardinality(LinesOf(call, Stored))
        /\ call'.page = call.page /\ call'.pageRead = call.pageRead
      BY <2>1, <2>2, <2>3 DEF NoteReading, Reading
  <2>6. IsTrue(call', zone, Stored)
      BY <1>1, <1>2, <2>1, <2>4, <2>5, LearningIsTrue
  <2> QED BY <1>1, <1>4, <1>5, <2>1, <2>6
<1>13. CASE ReadNotes
  <2>1. IsReading /\ call.kind = "notes" /\ UNCHANGED <<zone, place>>
      BY <1>13 DEF ReadNotes, IsReading
  <2>2. PICK page \in NotePages(call.q, Stored) :
           call' = IF ~IsGrouped(call.q) /\ CountIsKnown(call.q, page)
                   THEN [call EXCEPT !.page = page, !.pageRead = TRUE,
                                     !.total = Skip(call.q) + Cardinality(page),
                                     !.totalRead = TRUE]
                   ELSE [call EXCEPT !.page = page, !.pageRead = TRUE]
      BY <1>13 DEF ReadNotes
  <2>3. /\ call \in NoteReading /\ OffsetOf(call) = Skip(call.q)
        /\ call.q.limit \in Nat /\ OffsetOf(call) \in Nat
      BY <1>1, <1>2, <2>1, QueryKinds, QueryFacts DEF IsTrue, OffsetOf
  <2>4. LinesOf(call, Stored) = NoteLines(call.q, Stored)
      BY <2>1 DEF LinesOf
  <2>5. /\ Cardinality(LinesOf(call, Stored)) \in 0..Cardinality(AllLogs)
        /\ Cardinality(LinesOf(call, Stored)) \in Nat /\ LinesOf(call, Stored) \subseteq Lines
        /\ IsFiniteSet(LinesOf(call, Stored))
      BY <1>1, LinesFit
  <2>6. IsPage(page, LinesOf(call, Stored), OrderOf(call, Stored), call.q.limit, OffsetOf(call))
    <3>1. IsPage(page, NoteLines(call.q, Stored), NoteOrder(call.q, NoteLines(call.q, Stored)),
                 call.q.limit, Skip(call.q))
        BY <2>3, <2>4, <2>5, NotePagesArePages
    <3>2. OrderOf(call, Stored) = NoteOrder(call.q, NoteLines(call.q, Stored))
        BY <2>1, <2>4 DEF OrderOf
    <3> QED BY <3>1, <3>2, <2>3, <2>4
  <2>7. page \subseteq Lines
      BY <2>5, <2>6 DEF IsPage
  <2>8. CASE ~(~IsGrouped(call.q) /\ CountIsKnown(call.q, page))
    <3>1. call' = [call EXCEPT !.page = page, !.pageRead = TRUE]
        BY <2>2, <2>8
    <3>2. /\ call'.page = page /\ call'.total = call.total /\ call'.totalRead = call.totalRead
        BY <3>1, <2>3 DEF NoteReading, Reading
    <3>3. IsTrue(call', zone, Stored)
        BY <1>1, <1>2, <2>1, <3>1, <3>2, <2>6, <2>7, LearningIsTrue
    <3> QED BY <1>1, <1>4, <1>5, <2>1, <3>3
  <2>9. CASE ~IsGrouped(call.q) /\ CountIsKnown(call.q, page)
    <3>1. call' = [call EXCEPT !.page = page, !.pageRead = TRUE,
                               !.total = Skip(call.q) + Cardinality(page), !.totalRead = TRUE]
        BY <2>2, <2>9
    <3>2. /\ call'.page = page /\ call'.total = Skip(call.q) + Cardinality(page)
        BY <3>1, <2>3 DEF NoteReading, Reading
    <3>3. Skip(call.q) + Cardinality(page) = Cardinality(LinesOf(call, Stored))
      <4> DEFINE L == LinesOf(call, Stored)
                 n == Cardinality(L)
                 offset == OffsetOf(call)
                 limit == call.q.limit
      <4>1. Cardinality(page) = PageSize(L, limit, offset) /\ IsFiniteSet(page)
          BY <2>5, <2>6, FS_Subset DEF IsPage
      <4>2. Cardinality(page) < limit /\ (Cardinality(page) # 0 \/ offset = 0)
          BY <2>3, <2>9, <4>1, FS_EmptySet DEF CountIsKnown
      <4>3. n \in Nat /\ offset \in Nat /\ limit \in Nat
          BY <2>3, <2>5
      <4> HIDE DEF L, n, offset, limit
      <4>4. PageSize(L, limit, offset) = IF limit <= n - Skipped(L, offset) THEN limit ELSE n - Skipped(L, offset)
          BY DEF PageSize, n
      <4>5. Skipped(L, offset) = IF offset <= n THEN offset ELSE n
          BY DEF Skipped, n
      <4>6. offset + Cardinality(page) = n
          BY <4>1, <4>2, <4>3, <4>4, <4>5
      <4> QED BY <4>6, <2>3 DEF n, L, offset
    <3>4. IsTrue(call', zone, Stored)
        BY <1>1, <1>2, <2>1, <3>1, <3>2, <3>3, <2>5, <2>6, <2>7, LearningIsTrue
    <3> QED BY <1>1, <1>4, <1>5, <2>1, <3>4
  <2> QED BY <2>8, <2>9
<1>14. CASE NotesFail
    BY <1>1, <1>5, <1>14 DEF NotesFail
<1>15. CASE TurnPage
  <2>1. /\ IsReading /\ call.pageRead /\ call.totalRead /\ UNCHANGED <<zone, place>>
        /\ call.number < TotalPages(call.total, call.q.limit)
        /\ call' = [NewReading(call.kind, NextOf(call.q), call.period, call.number + 1) EXCEPT
                      !.walk = call.walk, !.walked = call.walked \cup call.page]
      BY <1>15 DEF TurnPage, IsRead, HasNextPage
  <2>2. NextOf(call.q) = IF call.kind = "stats" THEN [call.q EXCEPT !.offset = @ + call.q.limit]
                                                ELSE [call.q EXCEPT !.page = @ + 1]
      BY DEF NextOf
  <2>3. IsTrue(call', zone, Stored)
      BY <1>1, <1>2, <2>1, <2>2, NextPageIsTrue
  <2> QED BY <1>1, <1>4, <1>5, <2>1, <2>3
<1>16. CASE Follow
  <2>1. PICK link \in ShortLinks, context \in {UserContext(visitor) : visitor \in Visitors} :
           \E to \in Redirects(link, context) :
              call' = [kind |-> "redirect", link |-> link, context |-> context, to |-> to]
      BY <1>16 DEF Follow
  <2>2. call'.kind = "redirect" /\ DOMAIN call' = {"kind", "link", "context", "to"}
        /\ call'.link = link /\ call'.to \in Redirects(call'.link, call'.context)
      BY <2>1
  <2>3. call'.kind = "redirect" /\ IsSent(call')
      BY <2>2, ReadAssumption DEF IsSent
  <2> QED BY <1>1, <1>5, <1>16, <2>3 DEF Follow
<1>17. CASE VisitFetched
  <2>1. PICK payload \in Payloads, request \in VisitRequests :
           call' = IF IsValidLink(payload)
                   THEN [kind |-> "visit", payload |-> payload, link |-> ParseLink(payload),
                         cached |-> FALSE, log |-> Visited(ParseLink(payload), request)]
                   ELSE Refused
      BY <1>17 DEF VisitFetched
  <2>2. CASE IsValidLink(payload)
      BY <1>1, <1>5, <1>17, <2>1, <2>2 DEF VisitFetched, PaysFor
  <2>3. CASE ~IsValidLink(payload)
      BY <1>1, <1>5, <1>17, <2>1, <2>3 DEF VisitFetched
  <2> QED BY <2>2, <2>3
<1>18. CASE VisitCached
  <2>1. call.kind = "visit" /\ PaysFor(call)
      BY <1>18 DEF VisitCached, ReadInv
  <2>2. PICK request \in VisitRequests :
           call' = [call EXCEPT !.link = ParseStoredLink(call.link), !.cached = TRUE,
                                !.log = Visited(ParseStoredLink(call.link), request)]
      BY <1>18 DEF VisitCached
  <2>3. ParseStoredLink(call.link) = ParseLink(call.payload)
      BY <2>1, StoredLinkIsTheLink, ReadAssumption DEF PaysFor
  <2> QED BY <1>1, <1>5, <1>18, <2>1, <2>2, <2>3 DEF VisitCached, PaysFor
<1>19. CASE Done
    BY <1>1, <1>5, <1>19 DEF Done
<1>20. CASE UNCHANGED vars
    BY <1>1, <1>2, <1>3, <1>4, <1>5, <1>20 DEF vars
<1> QED BY <1>6, <1>7, <1>8, <1>9, <1>10, <1>11, <1>12, <1>13, <1>14, <1>15, <1>16, <1>17, <1>18,
           <1>19, <1>20 DEF Next

(* What is known of an answer is true of the tables unless logs were       *)
(* flushed meanwhile, a redirect goes where its link and context say, and  *)
(* a visit is paid as Laravel answered: queryStats, findAll, getRedirect   *)
(* and trackVisit.                                                         *)
THEOREM ReadInvariant == ReadSpec => []ReadInv
BY ReadInvInit, ReadInvNext, PTL DEF ReadSpec

(***************************************************************************)
(* What the invariant says of the answers                                  *)
(***************************************************************************)
(* A query in progress was accepted, hence is legal.                       *)
LEMMA InvLegal == ReadInv => StatementsAreLegal
<1> SUFFICES ASSUME ReadInv PROVE StatementsAreLegal
    OBVIOUS
<1>1. ASSUME call.kind = "stats" PROVE IsLegal(StatsStatement(call.q))
  <2>1. IsAsked(call, zone) /\ zone \in Zones
      BY <1>1 DEF ReadInv, ReadTypeOK, IsReading, IsTrue
  <2>2. PICK q \in StatsRequests[zone] :
           /\ AcceptsStats(q)
           /\ call.q = [Filters(q, zone) EXCEPT !.offset = (call.number - 1) * q.limit]
      BY <1>1, <2>1 DEF IsAsked, AsksStats
  <2>3. /\ call.q.groupFields = GroupFields(q) /\ call.q.selectFields = SelectFields(q)
        /\ call.q.orderBy = OrderBy(q)
      BY <2>2 DEF Filters
  <2>4. q \in StatsRequest
      BY <2>1, ReadAssumption
  <2> QED BY <2>2, <2>3, <2>4, AcceptedStatsAreLegal
<1>2. ASSUME call.kind = "notes" PROVE NoteIsSound(call.q) \/ SortsOutsideGroups(call.q)
  <2>1. call \in NoteReading
      BY <1>2, QueryKinds DEF ReadInv, IsReading, IsTrue
  <2>2. call.q.groups \in Seq(STRING)
      BY <2>1 DEF NoteReading, Reading, NoteRequest
  <2> QED BY <2>2, AcceptedNotesAreLegal
<1> QED BY <1>1, <1>2 DEF StatementsAreLegal

(* The rows of a query in progress are those of its period, in UTC.        *)
LEMMA InvPeriods == ReadInv => PeriodsAsAsked
<1> SUFFICES ASSUME ReadInv, call.kind = "stats"
             PROVE  /\ DayOf(call.q.endExclusive - 1 - call.q.startAt) < MaxQueryDays
                    /\ (zone = 0 /\ CountsAll)
                       => call.total = Cardinality({log \in Stored :
                                          InAskedPeriod(log, call.period[1], call.period[2])})
    BY DEF PeriodsAsAsked, PeriodsInUtc
<1>1. IsTrue(call, zone, Stored) /\ zone \in Zones /\ zone \in Int
    BY ReadAssumption DEF ReadInv, ReadTypeOK, IsReading
<1>2. PICK q \in StatsRequests[zone] :
         /\ AcceptsStats(q) /\ call.period = <<q.from, q.to>>
         /\ call.q = [Filters(q, zone) EXCEPT !.offset = (call.number - 1) * q.limit]
    BY <1>1 DEF IsTrue, IsAsked, AsksStats
<1>3. q \in StatsRequest /\ AcceptsRange(q)
    BY <1>1, <1>2, ReadAssumption DEF AcceptsStats
<1>4. call.q.startAt = Instant(q.from) + zone /\ call.q.endExclusive = EndExclusive(q) + zone
    BY <1>2 DEF Filters, ToMysqlDateTime
<1>5. /\ Instant(q.from) \in Int /\ EndExclusive(q) \in Int
      /\ DayOf(EndExclusive(q) - 1 - Instant(q.from)) < MaxQueryDays
      /\ \A at \in Int :
            (at >= Instant(q.from) /\ at < EndExclusive(q))
            <=> /\ IF q.from.kind = "date" THEN DayOf(at) >= q.from.day ELSE at >= Instant(q.from)
                /\ IF q.to.kind = "date" THEN DayOf(at) <= q.to.day ELSE at <= Instant(q.to)
    BY <1>3, PeriodBounds
<1>6. call.q.endExclusive - 1 - call.q.startAt = EndExclusive(q) - 1 - Instant(q.from)
    BY <1>1, <1>4, <1>5
<1>7. ASSUME zone = 0, CountsAll
      PROVE  call.total = Cardinality({log \in Stored : InAskedPeriod(log, q.from, q.to)})
  <2>0. call.walk /\ call.totalRead /\ call.q.groupFields = {} /\ call.q.conditions = {}
      BY <1>7 DEF CountsAll
  <2>1. call.total = Cardinality(StatsLines(call.q, Stored))
      BY <1>1, <2>0 DEF IsTrue, IsAnswered, LinesOf
  <2>2. call.total = Cardinality(Selected(call.q, Stored))
      BY <2>0, <2>1, StatsLinesAreLines, StoredInLogs
  <2>3. ASSUME NEW log \in Stored
        PROVE  /\ Logs[log].created_at >= call.q.startAt
               /\ Logs[log].created_at < call.q.endExclusive
               <=> InAskedPeriod(log, q.from, q.to)
    <3> DEFINE at == Logs[log].created_at
    <3>1. Logs[log].created_at \in Int
        BY LogsAssumption, StoredInLogs DEF AllLogs, Row
    <3>2. at \in Int /\ (Logs[log].created_at >= call.q.startAt <=> at >= Instant(q.from))
          /\ (Logs[log].created_at < call.q.endExclusive <=> at < EndExclusive(q))
        BY <1>4, <1>5, <1>7, <3>1
    <3> HIDE DEF at
    <3>3. InAskedPeriod(log, q.from, q.to)
          <=> /\ IF q.from.kind = "date" THEN DayOf(at) >= q.from.day ELSE at >= Instant(q.from)
              /\ IF q.to.kind = "date" THEN DayOf(at) <= q.to.day ELSE at <= Instant(q.to)
        BY DEF InAskedPeriod, at
    <3> QED BY <1>5, <3>2, <3>3
  <2>4. Selected(call.q, Stored) = {log \in Stored : InAskedPeriod(log, q.from, q.to)}
      BY <2>0, <2>3 DEF Selected
  <2> QED BY <2>2, <2>4
<1> QED BY <1>2, <1>5, <1>6, <1>7

(* What the properties read is what the lemmas are about.                  *)
LEMMA NowIsOfCall ==
    /\ LinesNow = LinesOf(call, Stored) /\ RowsNow = RowsOf(call, Stored)
    /\ NoTies <=> Untied(call, Stored)
<1>1. LinesNow = LinesOf(call, Stored)
    BY DEF LinesNow, LinesOf
<1>2. RowsNow = RowsOf(call, Stored)
    BY DEF RowsNow, RowsOf
<1> QED BY <1>1, <1>2 DEF NoTies, Untied

(* Page and total are of the same lines when nothing was flushed.          *)
LEMMA InvPageAndTotal == ReadInv => PageAndTotalAgree
<1> SUFFICES ASSUME ReadInv, IsRead, call.still
             PROVE  LET before == (call.number - 1) * call.q.limit
                    IN /\ call.total = Cardinality(LinesNow)
                       /\ HasNextPage <=> before + Cardinality(call.page) < call.total
                       /\ before < call.total => call.page # {}
    BY DEF PageAndTotalAgree
<1> DEFINE before == (call.number - 1) * call.q.limit
           end    == call.number * call.q.limit
           n      == Cardinality(LinesOf(call, Stored))
           size   == Cardinality(call.page)
<1>1. /\ IsTrue(call, zone, Stored) /\ zone \in Zones /\ Stored \in SUBSET AllLogs
      /\ call.pageRead /\ call.totalRead
    BY StoredInLogs DEF ReadInv, ReadTypeOK, IsRead
<1>2. /\ n \in Nat /\ call.total = n
      /\ HasNextPage <=> end < n
      /\ size \in Nat
      /\ HasNextPage => size = call.q.limit
      /\ ~HasNextPage => OffsetOf(call) + size >= n
      /\ OffsetOf(call) < n => call.page # {}
    BY <1>1, PageFacts DEF HasNextPage
<1>3. /\ OffsetOf(call) = before /\ before \in Nat
      /\ before + call.q.limit = end /\ call.q.limit \in Nat
    BY <1>1, QueryFacts DEF IsTrue
<1>4. call.total = Cardinality(LinesNow)
    BY <1>2, NowIsOfCall
<1> HIDE DEF before, end, n, size
<1>5. HasNextPage <=> before + size < call.total
    BY <1>2, <1>3
<1>6. before < call.total => call.page # {}
    BY <1>2, <1>3
<1> QED BY <1>4, <1>5, <1>6 DEF before, size

(* The pages of a walk are the lines, each once.                           *)
LEMMA InvWalks == ReadInv => WalksPartition
<1> SUFFICES ASSUME ReadInv, IsRead, call.walk, NoTies
             PROVE  LET got == call.walked \cup call.page
                    IN /\ call.page \cap call.walked = {}
                       /\ \A a, b \in got : a = b \/ a \cap b = {}
                       /\ ~HasNextPage => UNION got = RowsNow
    BY DEF WalksPartition
<1> DEFINE got == call.walked \cup call.page
           L   == LinesOf(call, Stored)
<1>1. /\ IsTrue(call, zone, Stored) /\ zone \in Zones /\ Stored \in SUBSET AllLogs
      /\ call.pageRead /\ call.totalRead /\ Untied(call, Stored)
    BY StoredInLogs, NowIsOfCall DEF ReadInv, ReadTypeOK, IsRead
<1>2. call.still
    BY <1>1 DEF IsTrue, IsAnswered
<1>3. /\ call.page \cap call.walked = {} /\ got \subseteq L
      /\ Cardinality(L) <= call.number * call.q.limit => got = L
    BY <1>1, WalkFacts
<1>4. AreLines(L, RowsNow)
    BY <1>1, LinesFit, NowIsOfCall
<1>5. ASSUME ~HasNextPage PROVE got = L
  <2>1. Cardinality(L) \in Nat /\ ~(call.number * call.q.limit < Cardinality(L))
      BY <1>1, <1>2, <1>5, PageFacts DEF HasNextPage
  <2>2. call.number * call.q.limit \in Int
      BY <1>1, QueryFacts DEF IsTrue
  <2> QED BY <1>3, <2>1, <2>2
<1> HIDE DEF L, got
<1>6. \A a, b \in got : a = b \/ a \cap b = {}
    BY <1>3, <1>4 DEF AreLines
<1>7. ~HasNextPage => UNION got = RowsNow
    BY <1>4, <1>5 DEF AreLines
<1> QED BY <1>3, <1>6, <1>7 DEF got

(* A visit is paid by the rate of its country.                             *)
LEMMA InvVisits == ReadInv => VisitsPayTheirCountry
<1> SUFFICES ASSUME ReadInv, call.kind = "visit"
             PROVE  LET rate == RateOfCode(call.payload, call.log.country)
                    IN call.log.payout = IF call.log.device = "mobile" THEN rate.payout.mobile[1]
                                                                       ELSE rate.payout.desktop[1]
    BY DEF VisitsPayTheirCountry, RateOfCode, Named
<1>1. PaysFor(call)
    BY DEF ReadInv
<1>2. call.payload \in Payload /\ IsValidLink(call.payload)
    BY <1>1, ReadAssumption DEF PaysFor
<1>3. PICK request \in VisitRequests : call.log = Visited(ParseLink(call.payload), request)
    BY <1>1 DEF PaysFor
<1> QED BY <1>2, <1>3, VisitedPays

(* A redirect is of a best rule.                                           *)
LEMMA InvRedirects == ReadInv => RedirectIsOfBestRule
<1> SUFFICES ASSUME ReadInv, call.kind = "redirect" PROVE RedirectIsOfBestRule
    BY DEF RedirectIsOfBestRule
<1>1. IsSent(call)
    BY DEF ReadInv
<1> QED BY <1>1, SentByBestRule DEF RedirectIsOfBestRule

(***************************************************************************)
(* The properties                                                          *)
(***************************************************************************)
(* The type of the state: filters that reach the repository name columns   *)
(* and metrics only, an offset is never negative and a page at most all    *)
(* the lines, and no visit earns less than nothing.                        *)
THEOREM ReadTypeCorrect == ReadSpec => []ReadTypeOK
<1>1. ReadInv => ReadTypeOK
    BY DEF ReadInv
<1> QED BY <1>1, ReadInvariant, PTL

(* Whatever names a statistics query is asked with, once it is accepted    *)
(* MySQL takes its statement on every page; a note query is refused only   *)
(* for sorting by a name it does not group by.                             *)
THEOREM StatementsAreLegalHolds == ReadSpec => []StatementsAreLegal
BY InvLegal, ReadInvariant, PTL

(* In a process that runs in UTC a query without conditions counts the     *)
(* rows of the UTC period it asks for; in any zone no period is longer     *)
(* than MaxQueryDays.                                                      *)
THEOREM PeriodsAsAskedHolds == ReadSpec => []PeriodsAsAsked
BY InvPeriods, ReadInvariant, PTL

(* Page, total and the hint at a next page of one answer agree, for every  *)
(* limit and every number of rows, however migrations come in between.     *)
THEOREM PageAndTotalAgreeHolds == ReadSpec => []PageAndTotalAgree
BY InvPageAndTotal, ReadInvariant, PTL

(* A walk through the pages of an order without ties meets every row of    *)
(* the query exactly once, for every query, limit and number of rows.      *)
THEOREM WalksPartitionHolds == ReadSpec => []WalksPartition
BY InvWalks, ReadInvariant, PTL

(* A visitor is sent by a rule that admits him and that no other one beats *)
(* or gets no further when there is none, for every list of rules.         *)
THEOREM RedirectIsOfBestRuleHolds == ReadSpec => []RedirectIsOfBestRule
BY InvRedirects, ReadInvariant, PTL

(* A visit is paid by the last valid entry for its country, from Laravel's *)
(* answer and from the cached link alike, for every list of entries.       *)
THEOREM VisitsPayTheirCountryHolds == ReadSpec => []VisitsPayTheirCountry
BY InvVisits, ReadInvariant, PTL
=============================================================================
