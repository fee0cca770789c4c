----------------------------- MODULE NoteQuery ------------------------------
(***************************************************************************)
(* The note access query: what findAll makes of a request, and the         *)
(* statements its query builder sends for one table, note_access_logs.     *)
(*                                                                         *)
(* A request q has: filters, a function from fields to sets of values, the *)
(* empty set where there is no filter; from and to, instants written in    *)
(* UTC, or NoDate; selects, a set of fields; groups, a sequence of names;  *)
(* sort, a sequence of <<name, direction>>; page and limit.  Its form has  *)
(* been validated by NoteAccessQueryDto.                                   *)
(***************************************************************************)
EXTENDS Integers, Sequences, FiniteSets, FiniteSetsExt, SequencesExt, SqlReads

NoDate == -1

NoteFilterFields == {"link_id", "user_id", "country", "device", "is_earn", "reject_reason_mask",
                     "ip_address"}

NoteRequest ==
    [filters : [NoteFilterFields -> SUBSET Int], from : Int, to : Int, selects : SUBSET STRING,
     groups : Seq(STRING), sort : Seq(STRING \X {"ASC", "DESC"}),
     limit : Nat \ {0}, page : Nat \ {0}]

(* toNumberArray drops what is no number: a filter on devices that names   *)
(* none is no filter.                                                      *)
NumberArray(items) == {i \in items : i >= 0}

FilterValues(q, field) ==
    IF field = "device" THEN NumberArray(q.filters[field]) ELSE q.filters[field]

InDateRange(log, q) ==
    /\ q.from # NoDate => Logs[log].created_at >= q.from
    /\ q.to # NoDate => Logs[log].created_at <= q.to

NotesSelected(q, stored) ==
    {log \in stored :
        /\ \A field \in DOMAIN q.filters :
              FilterValues(q, field) # {} => Logs[log][field] \in FilterValues(q, field)
        /\ InDateRange(log, q)}

(***************************************************************************)
(* Groups, columns and order                                               *)
(***************************************************************************)
IsGrouped(q) == q.groups # <<>>

NoteValue(log, field) ==
    IF field = "date" THEN DayOf(Logs[log].created_at) ELSE Logs[log][field]

NoteLines(q, stored) ==
    IF ~IsGrouped(q) THEN {{log} : log \in NotesSelected(q, stored)}
    ELSE LET selected == NotesSelected(q, stored)
         IN {{s \in selected : \A g \in ToSet(q.groups) : NoteValue(r, g) = NoteValue(s, g)} :
                r \in selected}

(* The names a sort may use. *)
SortFields(q) ==
    IF IsGrouped(q) THEN {"date", "level_id", "link_id", "user_id", "revenue", "views"}
                    ELSE {"id", "revenue", "created_at"}

AcceptsSort(q) == \A s \in ToSet(q.sort) : s[1] \in SortFields(q)

Sorting(q) ==
    IF q.sort # <<>> THEN q.sort
    ELSE IF ~IsGrouped(q) THEN <<<<"created_at", "DESC">>>>
    ELSE <<<<q.groups[1], IF q.groups[1] = "date" THEN "DESC" ELSE "ASC">>>>

NoteFields == {"id", "link_id", "user_id", "level_id", "ip_address", "agent_hash", "country",
               "device", "revenue", "is_earn", "detection_mask", "reject_reason_mask",
               "created_at"}

AgentColumns == {"user_agents.hash", "user_agents.raw", "user_agents.browser",
                 "user_agents.os", "user_agents.device_type"}

JoinsAgents(q) == ~IsGrouped(q) /\ q.selects \cap AgentColumns # {}

(* The columns of the order and the id come with the ones asked for. *)
NoteColumns(q) ==
    IF q.selects = {} THEN NoteFields
    ELSE q.selects \cup {"id"} \cup {s[1] : s \in ToSet(Sorting(q))}

(* An alias of the select list is found by ORDER BY before a column. *)
NoteOrderExpression(name, q) ==
    IF IsGrouped(q) /\ name \in {"revenue", "views"} THEN Aggregate(name) ELSE Column(name)

NoteStatement(q) ==
    [select  |-> IF IsGrouped(q)
                 THEN {Column(g) : g \in ToSet(q.groups)} \cup {Aggregate("views"), Aggregate("revenue")}
                 ELSE {Column(c) : c \in NoteColumns(q)},
     groupBy |-> {Column(g) : g \in ToSet(q.groups)},
     orderBy |-> {NoteOrderExpression(s[1], q) : s \in ToSet(Sorting(q))}]

(* With a join TypeORM first selects the distinct ids of the page out of   *)
(* the statement, in its order: it orders by columns of the select list.   *)
TypeOrmPages(q) ==
    JoinsAgents(q) => NoteStatement(q).orderBy \subseteq NoteStatement(q).select

(***************************************************************************)
(* The page                                                                *)
(***************************************************************************)
NoteSortKey(name, line) ==
    CASE name = "views" -> Cardinality(line)
      [] name = "revenue" -> SumFunctionOnSet([r \in line |-> Logs[r].revenue], line)
      [] OTHER -> NoteValue(CHOOSE r \in line : TRUE, name)

NoteBefore(q, a, b) ==
    LET order == Sorting(q)
        Key(i, line) == NoteSortKey(order[i][1], line)
    IN \E i \in DOMAIN order :
          /\ \A j \in 1..i-1 : Key(j, a) = Key(j, b)
          /\ IF order[i][2] = "DESC" THEN Key(i, a) > Key(i, b) ELSE Key(i, a) < Key(i, b)

Skip(q) == (q.page - 1) * q.limit

NotePages(q, stored) ==
    LET Before(a, b) == NoteBefore(q, a, b)
    IN Pages(NoteLines(q, stored), Before, q.limit, Skip(q))

(* A mutant of CountIsKnown: any short page is the last one. *)
CountIsKnownWhenShort(q, page) == Cardinality(page) < q.limit

(* getManyAndCount knows the total without a second statement when the     *)
(* page is short and not an empty one after skipped rows.                  *)
CountIsKnown(q, page) ==
    /\ Cardinality(page) < q.limit
    /\ page # {} \/ Skip(q) = 0
=============================================================================
