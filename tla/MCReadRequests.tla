--------------------------- MODULE MCReadRequests ---------------------------
EXTENDS ReadRequests, TLC

Log(id, link, ip, country, earn, revenue, at, agent) ==
    [id |-> id, link_id |-> link, user_id |-> 1, level_id |-> 1, ip_address |-> ip,
     country |-> country, device |-> id, is_earn |-> earn, revenue |-> revenue,
     detection_mask |-> 0, reject_reason_mask |-> 0, created_at |-> at, agent |-> agent]

(* Two ticks a day; four logs of days 2 and 3, two of them of one second. *)
MCLogs == <<Log(1, 1, 1, 1, 1, 2, 4, 1), Log(2, 1, 2, 2, 0, 0, 5, 2), Log(3, 2, 1, 1, 1, 3, 5, 3),
            Log(4, 2, 3, 1, 0, 0, 6, 1)>>

MCZones == {-1, 0, 1}

OnDay(d)      == [kind |-> "date", day |-> d]
AtTime(d, s)  == [kind |-> "datetime", day |-> d, second |-> s]
Malformed     == [kind |-> "malformed"]

(* Each family of requests varies some of the parameters of this one. *)
Plain == [from |-> OnDay(1), to |-> OnDay(3), select |-> <<>>, groupFields |-> {}, groups |-> {},
          groupBy |-> "none", orderBy |-> "none", direction |-> "asc", preset |-> {},
          where |-> {}, filters |-> {}, limit |-> 2, page |-> 1]

Temporals == {OnDay(d) : d \in 1..4} \cup {AtTime(d, s) : d \in 2..3, s \in 0..1} \cup {Malformed}

PeriodRequests == {[Plain EXCEPT !.from = f, !.to = t] : f, t \in Temporals}

ModeRequests ==
    {[Plain EXCEPT !.groupFields = g, !.select = s, !.orderBy = o, !.limit = l] :
        g \in {{}, {"createdat"}, {"link"}, {"date", "user_agents.os"}, {"revenue"}},
        s \in {<<>>, <<"sum_revenue">>, <<"created_at", "views">>, <<"date">>, <<"colour">>,
               <<"unique_ips", "link">>},
        o \in {"none", "revenue", "created_at", "created", "views", "ip"},
        l \in 1..2}

LegacyRequests ==
    {[Plain EXCEPT !.groupBy = b, !.groups = g, !.direction = d, !.page = p] :
        b \in {"date", "link", "user", "date_link", "date_user", "link_user", "date_link_user"},
        g \in {{}, {"country"}}, d \in {"asc", "desc"}, p \in 1..2}

Raw(field, op, value) == [field |-> field, op |-> op, value |-> value]

ConditionRequests ==
    {[Plain EXCEPT !.where = {c}] :
        c \in {Raw(f, o, v) : f \in {"isearn", "date", "colour"},
                              o \in Operators \cup {"NOT_IN", "NOT_BETWEEN"},
                              v \in {<<>>, <<1>>, <<2, 3>>, <<Junk>>}}
              \cup {Raw(f, "=", <<v>>) : f \in {"created_at", "country", "os"}, v \in {Blank, 5}}}
    \cup {[Plain EXCEPT !.preset = p, !.filters = f] :
            p \in {{}, {<<"link_id", 1>>}, {<<"country", 1>>, <<"is_earn", 1>>}},
            f \in {{}, {Raw("revenue", ">", <<Blank>>)}}}

MCStatsRequests ==
    [z \in MCZones |->
       IF z = 0 THEN PeriodRequests \cup ModeRequests \cup LegacyRequests \cup ConditionRequests
                ELSE PeriodRequests]

(* Note queries. *)
PlainNotes == [filters |-> [field \in NoteFilterFields |-> {}], from |-> NoDate,
               to |-> NoDate, selects |-> {}, groups |-> <<>>, sort |-> <<>>, limit |-> 2,
               page |-> 1]

MCNoteRequests ==
    {[PlainNotes EXCEPT !.groups = g, !.sort = s, !.limit = l] :
        g \in {<<>>, <<"date">>, <<"country", "date">>, <<"link_id">>},
        s \in {<<>>} \cup {<<<<n, d>>>> : n \in {"id", "date", "link_id", "views", "revenue"},
                                          d \in {"ASC", "DESC"}}
              \cup {<<<<"revenue", "ASC">>, <<"date", "DESC">>>>},
        l \in 1..2}
    \cup {[PlainNotes EXCEPT !.selects = c, !.sort = s, !.page = p] :
            c \in {{}, {"user_agents.os"}, {"created_at", "user_agents.raw"}, {"country"}},
            s \in {<<>>, <<<<"revenue", "DESC">>>>, <<<<"id", "ASC">>>>},
            p \in 1..2}
    \cup {[PlainNotes EXCEPT !.filters.device = v, !.filters.link_id = w,
                             !.from = f, !.to = t, !.limit = 1] :
            v \in {{}, {-1}, {1, 2}}, w \in {{}, {1}}, f, t \in {NoDate, 4, 5}}

(* Short links. *)
NoKeys == [key \in {} |-> {}]

Empty          == [kind |-> "empty"]
OneOf(values)  == [kind |-> "list", values |-> values]
Text(within)   == [kind |-> "text", within |-> within]

Includes == {NoKeys, [country |-> Empty], [country |-> OneOf({"vn"})],
             [country |-> Text({"vn", "xx"}), device |-> Empty]}
Excludes == {NoKeys, [device |-> Empty], [device |-> OneOf({"mobile"})],
             [plan |-> OneOf({"mobile"}), device |-> OneOf({"mobile"})]}

Rules == [isRecord : {TRUE}, include : Includes, exclude : Excludes, priority : {NoNumber, <<1>>},
          link : {"a"}]
         \cup {[isRecord |-> r, include |-> NoKeys, exclude |-> NoKeys, priority |-> <<-1>>, link |-> l] :
                  r \in BOOLEAN, l \in {"b", NoLink}}

MCShortLinks ==
    {[status |-> st, settings |-> [kind |-> "unreadable"]] : st \in {"missing", "deleted", "found"}}
    \cup {[status |-> "found", settings |-> [kind |-> "list", rules |-> <<r, t>>]] : r, t \in Rules}
    \cup {[status |-> "found", settings |-> [kind |-> "object", rules |-> <<r, t>>, strategy |-> s]] :
            r \in Rules, t \in {[x EXCEPT !.link = "c"] : x \in {y \in Rules : y.exclude = NoKeys}},
            s \in {"absent", "random", "first"}}

MCVisitors == {[country |-> c, language |-> l, device |-> d, browser |-> ""] :
                  c \in {"", "vn"}, l \in {"", "en"}, d \in {"mobile", "console"}}

(* Visits. *)
MCCountryCodes == {"vn", "VN", "us", "US", "UNK"}

MCCodeOf == [code \in MCCountryCodes |->
               CASE code = "vn" -> "VN" [] code = "us" -> "US" [] OTHER -> code]

RateOf(n, broken) ==
    [payout |-> [mobile |-> <<2 * n>>, desktop |-> <<2 * n + 1>>],
     daily_limit |-> [mobile |-> <<n>>, desktop |-> IF broken THEN NotANumber ELSE <<n>>]]

Entries == {[name |-> "vn", rate |-> RateOf(1, FALSE)], [name |-> "VN", rate |-> RateOf(2, FALSE)],
            [name |-> "v1", rate |-> RateOf(-3, FALSE)], [name |-> "VN ", rate |-> RateOf(4, TRUE)],
            [name |-> "vn", rate |-> RateOf(5, TRUE)]}

MCPayloads ==
    {[link_id |-> <<1>>, user_id |-> <<1>>, level_id |-> <<1>>, tier_level |-> l,
      bonus_percent |-> <<0>>, status |-> s, default |-> RateOf(0, b), countries |-> c] :
        l \in {<<1>>, NotANumber}, s \in {"active", ""}, b \in BOOLEAN,
        c \in {<<>>} \cup {<<e>> : e \in Entries} \cup {<<e, f>> : e, f \in Entries}}

MCVisitRequests == {[country |-> c, agent |-> a, detected |-> d] :
                       c \in {"vn", "VN", "us", "t1"},
                       a \in {{}, {"android", "chrome/", "linux"}, {"ipad", "mobi", "safari/"},
                              {"windows nt", "chrome/", "edg/"}},
                       d \in {{}, {"adBlock", "ipChange"}}}
=============================================================================
