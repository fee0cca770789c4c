------------------------------ MODULE SqlReads ------------------------------
(***************************************************************************)
(* What the two query services use of MySQL: comparisons of WHERE, the     *)
(* page that ORDER BY, LIMIT and OFFSET leave, and the rule of             *)
(* ONLY_FULL_GROUP_BY.  A column value is an integer; a text is the number *)
(* of the text, in the order of the collation.                             *)
(***************************************************************************)
EXTENDS Integers, FiniteSets, FiniteSetsExt, Sequences, SequencesExt

CONSTANTS
    Day,  \* ticks of a day; a tick is the second of the code
    Logs  \* the row of each log: a function from the logs to records

ASSUME DayAssumption == Day \in Nat \ {0}

(* The columns of a log; agent stands for its row in user_agents.          *)
Row == [id : Int, link_id : Int, user_id : Int, level_id : Int, ip_address : Int, country : Int,
        device : Int, is_earn : Int, revenue : Int, detection_mask : Int,
        reject_reason_mask : Int, created_at : Int, agent : Int]

ASSUME LogsAssumption == IsFiniteSet(DOMAIN Logs) /\ \A log \in DOMAIN Logs : Logs[log] \in Row

(* DATE_FORMAT(created_at, '%Y-%m-%d'). *)
DayOf(instant) == instant \div Day

(* x op values, where values is the sequence of the operands.  A pattern   *)
(* of LIKE has no wildcards here.                                          *)
Compares(op, x, values) ==
    CASE op \in {"=", "LIKE"}            -> x = values[1]
      [] op \in {"!=", "<>", "NOT LIKE"} -> x # values[1]
      [] op = ">"                        -> x > values[1]
      [] op = ">="                       -> x >= values[1]
      [] op = "<"                        -> x < values[1]
      [] op = "<="                       -> x <= values[1]
      [] op = "IN"                       -> x \in ToSet(values)
      [] op = "NOT IN"                   -> x \notin ToSet(values)
      [] op = "BETWEEN"                  -> x \in values[1]..values[2]
      [] op = "NOT BETWEEN"              -> x \notin values[1]..values[2]

(* The pages that may be answered: the items left out before the page come *)
(* no later than any other one, those after it no earlier.  Between items  *)
(* with equal keys MySQL is free.                                          *)
Pages(items, Before(_, _), limit, offset) ==
    LET skipped == Min({offset, Cardinality(items)})
        size    == Min({limit, Cardinality(items) - skipped})
    IN {page \in kSubset(size, items) :
          \E earlier \in kSubset(skipped, items \ page) :
             /\ \A e \in earlier, i \in items \ earlier : ~Before(i, e)
             /\ \A p \in page, i \in items \ (earlier \cup page) : ~Before(i, p)}

(* Expressions of a statement, and the statements MySQL takes: with a      *)
(* GROUP BY a column stands in it or inside an aggregate function, without *)
(* one there is no aggregate function beside the columns.                  *)
Column(name)    == [kind |-> "column", name |-> name]
Aggregate(name) == [kind |-> "aggregate", name |-> name]

IsLegal(statement) ==
    \A e \in statement.select \cup statement.orderBy :
       IF statement.groupBy = {} THEN e.kind = "column"
                                 ELSE e.kind = "aggregate" \/ e \in statement.groupBy
=============================================================================
