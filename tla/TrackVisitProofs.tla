-------------------------- MODULE TrackVisitProofs --------------------------
(***************************************************************************)
(* Proofs about TrackVisit, for any number of requests, links, addresses,  *)
(* faults and days.                                                        *)
(***************************************************************************)
EXTENDS TrackVisit, TLAPS

(* The key of a request is one of Keys.                                    *)
LEMMA KeyOfType ==
    ASSUME TypeOK, NEW v \in Visits
    PROVE  KeyOf(v) \in Keys
<1>1. visit[v] \in Request
    BY DEF TypeOK
<1>2. /\ visit[v].alias \in Aliases
      /\ visit[v].address \in Addresses
      /\ visit[v].day \in Days
    BY <1>1 DEF Request
<1>3. SanitizeIp(visit[v].address) \in {SanitizeIp(a) : a \in Addresses}
    BY <1>2
<1> QED BY <1>2, <1>3 DEF KeyOf, Keys

(***************************************************************************)
(* What the steps of a request do to it                                    *)
(***************************************************************************)
(* A step of v changes its state only, not where it goes.                  *)
Moves(v, pc) ==
    /\ visit' \in [Visits -> Request]
    /\ visit'[v].pc = pc
    /\ visit'[v].alias = visit[v].alias
    /\ visit'[v].address = visit[v].address
    /\ \A w \in Visits \ {v} : visit'[w] = visit[w]

(* Writing one request leaves a table of requests, and the others alone.   *)
LEMMA OneWritten ==
    ASSUME TypeOK, NEW v \in Visits, NEW r \in Request, visit' = [visit EXCEPT ![v] = r],
           r.alias = visit[v].alias, r.address = visit[v].address
    PROVE  Moves(v, r.pc) /\ visit'[v] = r
<1>1. visit \in [Visits -> Request]
    BY DEF TypeOK
<1> QED BY <1>1 DEF Moves

(* A step that only moves the request keeps all it has found out.          *)
Keeps(v) ==
    /\ visit'[v].day = visit[v].day
    /\ visit'[v].deduped = visit[v].deduped
    /\ visit'[v].isFirst <=> visit[v].isFirst
    /\ visit'[v].isEarn <=> visit[v].isEarn
    /\ visit'[v].known <=> visit[v].known

(* Writing the next step of a request only moves it.                       *)
LEMMA StepOnly ==
    ASSUME TypeOK, NEW v \in Visits,
           NEW pc \in {"new", "lookup", "dedupe", "exists", "roll", "count", "push", "done"},
           visit' = [visit EXCEPT ![v].pc = pc]
    PROVE  Moves(v, pc) /\ Keeps(v)
<1> DEFINE r == [visit[v] EXCEPT !.pc = pc]
<1>1. visit' = [visit EXCEPT ![v] = r]
    OBVIOUS
<1>2. visit[v] \in Request
    BY DEF TypeOK
<1>3. /\ r \in Request /\ r.pc = pc /\ r.day = visit[v].day
      /\ r.alias = visit[v].alias /\ r.address = visit[v].address
      /\ r.deduped = visit[v].deduped
    BY <1>2 DEF Request
<1>4. /\ r.isEarn = visit[v].isEarn
      /\ r.isFirst = visit[v].isFirst
      /\ r.known = visit[v].known
    BY <1>2 DEF Request
<1> HIDE DEF r
<1> QED BY <1>1, <1>3, <1>4, OneWritten DEF Keeps

(* The request notes the day, and what the daily table has.                *)
LEMMA ArriveEffect ==
    ASSUME TypeOK, NEW v \in Visits, Arrive(v)
    PROVE  /\ Moves(v, "lookup")
           /\ visit'[v].day = today
           /\ visit'[v].known <=>
                ExistsToday(visit[v].alias, SanitizeIp(visit[v].address), today)
           /\ visit'[v].deduped = visit[v].deduped
           /\ visit'[v].isFirst <=> visit[v].isFirst
           /\ visit'[v].isEarn <=> visit[v].isEarn
<1> DEFINE known == ExistsToday(visit[v].alias, SanitizeIp(visit[v].address), today)
           r == [visit[v] EXCEPT !.pc = "lookup", !.day = today, !.known = known]
<1>1. known \in BOOLEAN
    BY DEF ExistsToday
<1>2. visit' = [visit EXCEPT ![v] = r]
    BY DEF Arrive
<1>3. visit[v] \in Request /\ today \in Days
    BY DEF TypeOK
<1> HIDE DEF known
<1>4. /\ r \in Request /\ r.pc = "lookup" /\ r.day = today
      /\ r.alias = visit[v].alias /\ r.address = visit[v].address
      /\ r.deduped = visit[v].deduped
    BY <1>1, <1>3 DEF Request
<1>5. /\ r.known = known
      /\ r.isFirst = visit[v].isFirst /\ r.isEarn = visit[v].isEarn
    BY <1>3 DEF Request
<1> HIDE DEF r
<1> QED BY <1>2, <1>4, <1>5, OneWritten DEF known

(* The outcome of the lookup only moves the request.                       *)
LEMMA LookupEffect ==
    ASSUME TypeOK, NEW v \in Visits, Lookup(v)
    PROVE  /\ \E next \in {"done", "push", "dedupe"} : Moves(v, next)
           /\ Keeps(v)
<1>1. PICK next \in {"done", "push", "dedupe"} : visit' = [visit EXCEPT ![v].pc = next]
    BY DEF Lookup
<1>2. Moves(v, next) /\ Keeps(v)
    BY <1>1, StepOnly
<1> QED BY <1>2

(* SET NX notes the day and its answer, which is what the visit earns.     *)
LEMMA DedupedEffect ==
    ASSUME TypeOK, NEW v \in Visits, NEW first \in BOOLEAN, Deduped(v, first)
    PROVE  /\ Moves(v, IF first THEN "exists" ELSE "roll")
           /\ visit'[v].deduped = today
           /\ visit'[v].isFirst <=> first
           /\ visit'[v].isEarn <=> first
           /\ visit'[v].day = visit[v].day
           /\ visit'[v].known <=> visit[v].known
<1> DEFINE pc == IF first THEN "exists" ELSE "roll"
           r == [visit[v] EXCEPT !.pc = pc, !.deduped = today,
                                 !.isFirst = first, !.isEarn = first]
<1>1. visit' = [visit EXCEPT ![v] = r]
    BY DEF Deduped
<1>2. visit[v] \in Request /\ today \in Days
    BY DEF TypeOK
<1>3. pc \in {"exists", "roll"}
    OBVIOUS
<1> HIDE DEF pc
<1>4. /\ r \in Request /\ r.pc = pc /\ r.deduped = today
      /\ r.alias = visit[v].alias /\ r.address = visit[v].address
      /\ r.day = visit[v].day
    BY <1>2, <1>3 DEF Request
<1>5. r.isFirst = first /\ r.isEarn = first /\ r.known = visit[v].known
    BY <1>2 DEF Request
<1> HIDE DEF r
<1> QED BY <1>1, <1>4, <1>5, OneWritten DEF pc

(* The answer of SET NX is whether the key was missing.                    *)
LEMMA DedupeEffect ==
    ASSUME TypeOK, NEW v \in Visits, Dedupe(v)
    PROVE  /\ Moves(v, IF KeyOf(v) \notin keys THEN "exists" ELSE "roll")
           /\ visit'[v].deduped = today
           /\ visit'[v].isFirst <=> (KeyOf(v) \notin keys)
           /\ visit'[v].isEarn <=> (KeyOf(v) \notin keys)
           /\ visit'[v].day = visit[v].day
           /\ visit'[v].known <=> visit[v].known
<1> DEFINE first == KeyOf(v) \notin keys
<1>1. first \in BOOLEAN
    OBVIOUS
<1>2. Deduped(v, first)
    BY DEF Dedupe
<1> HIDE DEF first
<1>3. /\ Moves(v, IF first THEN "exists" ELSE "roll")
      /\ visit'[v].deduped = today
      /\ visit'[v].isFirst <=> first
      /\ visit'[v].isEarn <=> first
      /\ visit'[v].day = visit[v].day
      /\ visit'[v].known <=> visit[v].known
    BY <1>1, <1>2, DedupedEffect
<1> QED BY <1>3 DEF first

(* The query takes the earning away from a visit with a row.               *)
LEMMA CheckExistsEffect ==
    ASSUME TypeOK, NEW v \in Visits, CheckExists(v)
    PROVE  /\ Moves(v, "roll")
           /\ visit'[v].isEarn <=> ~ExistsToday(visit[v].alias, SanitizeIp(visit[v].address),
                                              visit[v].day)
           /\ visit'[v].day = visit[v].day
           /\ visit'[v].deduped = visit[v].deduped
           /\ visit'[v].isFirst <=> visit[v].isFirst
           /\ visit'[v].known <=> visit[v].known
<1> DEFINE earn == ~ExistsToday(visit[v].alias, SanitizeIp(visit[v].address), visit[v].day)
           r == [visit[v] EXCEPT !.pc = "roll", !.isEarn = earn]
<1>1. earn \in BOOLEAN
    BY DEF ExistsToday
<1>2. visit' = [visit EXCEPT ![v] = r]
    BY DEF CheckExists, KeyOf
<1>3. visit[v] \in Request
    BY DEF TypeOK
<1> HIDE DEF earn
<1>4. /\ r \in Request /\ r.pc = "roll" /\ r.day = visit[v].day
      /\ r.alias = visit[v].alias /\ r.address = visit[v].address
      /\ r.deduped = visit[v].deduped
    BY <1>1, <1>3 DEF Request
<1>5. r.isEarn = earn /\ r.isFirst = visit[v].isFirst /\ r.known = visit[v].known
    BY <1>3 DEF Request
<1> HIDE DEF r
<1> QED BY <1>2, <1>4, <1>5, OneWritten DEF earn

(* The fake view takes the earning away; nothing gives it.                 *)
LEMMA RollEffect ==
    ASSUME TypeOK, NEW v \in Visits, Roll(v)
    PROVE  /\ \/ Moves(v, "push") /\ ~visit'[v].isEarn
              \/ Moves(v, "count") /\ (visit'[v].isEarn <=> visit[v].isEarn)
           /\ visit'[v].day = visit[v].day
           /\ visit'[v].deduped = visit[v].deduped
           /\ visit'[v].isFirst <=> visit[v].isFirst
           /\ visit'[v].known <=> visit[v].known
<1>1. CASE visit' = [visit EXCEPT ![v].pc = "count"]
    BY <1>1, StepOnly DEF Keeps
<1>2. CASE visit' = [visit EXCEPT ![v].pc = "push", ![v].isEarn = FALSE]
    <2> DEFINE r == [visit[v] EXCEPT !.pc = "push", !.isEarn = FALSE]
    <2>1. visit' = [visit EXCEPT ![v] = r]
        BY <1>2
    <2>2. visit[v] \in Request
        BY DEF TypeOK
    <2>3. /\ r \in Request /\ r.pc = "push" /\ r.day = visit[v].day
          /\ r.alias = visit[v].alias /\ r.address = visit[v].address
          /\ r.deduped = visit[v].deduped
        BY <2>2 DEF Request
    <2>4. ~r.isEarn /\ r.isFirst = visit[v].isFirst /\ r.known = visit[v].known
        BY <2>2 DEF Request
    <2> HIDE DEF r
    <2> QED BY <2>1, <2>3, <2>4, OneWritten
<1> QED BY <1>1, <1>2 DEF Roll

(***************************************************************************)
(* Type correctness                                                        *)
(***************************************************************************)
(* The initial states have the type.                                       *)
LEMMA TypeInit == Init => TypeOK
<1> SUFFICES ASSUME Init PROVE TypeOK
    OBVIOUS
<1>1. 1 \in Days /\ 0 \in 0..MaxFaults
    BY VisitAssumption DEF Days
<1>2. \A v \in Visits : visit[v] \in Request
    BY <1>1 DEF Init, Request
<1>3. visit \in [Visits -> Request]
    BY <1>2 DEF Init
<1> QED BY <1>1, <1>3 DEF Init, TypeOK

(* Every step keeps the type.                                              *)
LEMMA TypeStep == TypeOK /\ [Next]_vars => TypeOK'
<1> SUFFICES ASSUME TypeOK, [Next]_vars PROVE TypeOK'
    OBVIOUS
<1> USE VisitAssumption
<1>1. ASSUME NEW v \in Visits, RequestStep(v) PROVE TypeOK'
    <2>0. KeyOf(v) \in Keys
        BY KeyOfType
    <2>1. CASE Arrive(v)
        BY <2>1, ArriveEffect DEF Moves, Arrive, TypeOK, logs, history
    <2>2. CASE Lookup(v)
        BY <2>2, LookupEffect DEF Moves, Lookup, TypeOK, logs, history
    <2>3. CASE Dedupe(v)
        <3>1. visit' \in [Visits -> Request]
            BY <2>3, DedupeEffect DEF Moves
        <3> QED BY <2>0, <2>3, <3>1 DEF Dedupe, Deduped, TypeOK, logs, history
    <2>4. CASE DedupeResent(v)
        <3>1. visit' \in [Visits -> Request]
            BY <2>4, DedupedEffect DEF DedupeResent, Moves
        <3> QED BY <2>0, <2>4, <3>1 DEF DedupeResent, Deduped, Fault, TypeOK, logs
    <2>5. CASE CheckExists(v)
        BY <2>5, CheckExistsEffect DEF Moves, CheckExists, TypeOK, logs, history
    <2>6. CASE CheckFails(v)
        <3>1. visit' \in [Visits -> Request]
            BY <2>6, StepOnly DEF Moves, CheckFails
        <3> QED BY <2>6, <3>1 DEF CheckFails, Fault, TypeOK, logs
    <2>7. CASE Roll(v)
        BY <2>7, RollEffect DEF Moves, Roll, TypeOK, logs, history
    <2>8. CASE Count(v)
        BY <2>8, StepOnly DEF Moves, Count, TypeOK, history
    <2>9. CASE Push(v)
        BY <2>9, StepOnly DEF Moves, Push, TypeOK, history
    <2> QED BY <1>1, <2>1, <2>2, <2>3, <2>4, <2>5, <2>6, <2>7, <2>8, <2>9 DEF RequestStep
<1>2. CASE NextDay
    BY <1>2 DEF NextDay, TypeOK, logs, history, Days
<1>3. CASE Flush
    BY <1>3 DEF Flush, TypeOK, history
<1>4. CASE Migrate
    BY <1>4 DEF Migrate, TypeOK, history
<1>5. CASE KeyExpires
    BY <1>5 DEF KeyExpires, TypeOK, logs, history
<1>6. CASE KeyDropped
    BY <1>6 DEF KeyDropped, Fault, TypeOK, logs
<1>7. CASE UNCHANGED vars
    BY <1>7 DEF vars, logs, history, TypeOK
<1> QED BY <1>1, <1>2, <1>3, <1>4, <1>5, <1>6, <1>7 DEF Next

(* Every variable has its type in every reachable state.                   *)
THEOREM VisitTypeCorrect == Spec => []TypeOK
BY TypeInit, TypeStep, PTL DEF Spec

(***************************************************************************)
(* What a request can have found out at each of its steps.  A visit that   *)
(* has been to its key stays the first of the day or not, and its key      *)
(* stays the same: this is what the arguments below rest on.               *)
(***************************************************************************)
Phase(v) ==
    /\ visit[v].pc \in {"new", "lookup", "dedupe"} =>
           visit[v].deduped = 0 /\ ~visit[v].isFirst /\ ~visit[v].isEarn
    /\ visit[v].isEarn \/ visit[v].pc = "exists" => visit[v].isFirst
    /\ visit[v].isFirst \/ v \in resent => visit[v].deduped # 0
    /\ visit[v].day <= today
    /\ visit[v].deduped <= today
    /\ v \in counted => visit[v].pc \in {"push", "done"}
    /\ v \in queue \cup daily => visit[v].pc = "done"

Phases == \A v \in Visits : Phase(v)

(* A request that has not arrived has found out nothing.                   *)
LEMMA PhasesInit == Init => Phases
<1> SUFFICES ASSUME Init, NEW v \in Visits PROVE Phase(v)
    BY DEF Phases
<1>1. /\ visit[v].pc = "new" /\ visit[v].day = 1 /\ visit[v].deduped = 0
      /\ visit[v].isFirst = FALSE /\ visit[v].isEarn = FALSE
    BY DEF Init
<1>2. today = 1 /\ v \notin counted /\ v \notin queue \cup daily /\ v \notin resent
    BY DEF Init
<1> QED BY <1>1, <1>2 DEF Phase

(* A step of one request leaves the others as they are.                    *)
LEMMA OthersEffect ==
    ASSUME TypeOK, NEW v \in Visits, RequestStep(v)
    PROVE  /\ today' = today /\ daily' = daily
           /\ \A w \in Visits \ {v} : /\ visit'[w] = visit[w]
                                      /\ w \in counted' <=> w \in counted
                                      /\ w \in queue' <=> w \in queue
                                      /\ w \in resent' <=> w \in resent
                                      /\ w \in blind' <=> w \in blind
<1>1. CASE Arrive(v)
    BY <1>1, ArriveEffect DEF Arrive, Moves, logs, history
<1>2. CASE Lookup(v)
    BY <1>2, LookupEffect DEF Lookup, Moves, logs, history
<1>3. CASE Dedupe(v)
    BY <1>3, DedupeEffect DEF Dedupe, Deduped, Moves, logs, history
<1>4. CASE DedupeResent(v)
    <2>1. Deduped(v, FALSE)
        BY <1>4 DEF DedupeResent
    <2> QED BY <1>4, <2>1, DedupedEffect DEF DedupeResent, Deduped, Moves, logs
<1>5. CASE CheckExists(v)
    BY <1>5, CheckExistsEffect DEF CheckExists, Moves, logs, history
<1>6. CASE CheckFails(v)
    <2>1. Moves(v, "roll")
        BY <1>6, StepOnly DEF CheckFails
    <2> QED BY <1>6, <2>1 DEF CheckFails, Moves, logs
<1>7. CASE Roll(v)
    BY <1>7, RollEffect DEF Roll, Moves, logs, history
<1>8. CASE Count(v)
    <2>1. Moves(v, "push")
        BY <1>8, StepOnly DEF Count
    <2> QED BY <1>8, <2>1 DEF Count, Moves, history
<1>9. CASE Push(v)
    <2>1. Moves(v, "done")
        BY <1>9, StepOnly DEF Push
    <2> QED BY <1>9, <2>1 DEF Push, Moves, history
<1> QED BY <1>1, <1>2, <1>3, <1>4, <1>5, <1>6, <1>7, <1>8, <1>9 DEF RequestStep

(* Steps of the rest of the system do not touch the requests.              *)
Around == NextDay \/ Flush \/ Migrate \/ KeyExpires \/ KeyDropped \/ UNCHANGED vars

(* What they do change: the day grows, logs move, keys leave.              *)
LEMMA AroundEffect ==
    ASSUME TypeOK, Around
    PROVE  /\ visit' = visit
           /\ today <= today' /\ today' \in Nat /\ today \in Nat
           /\ counted' = counted
           /\ queue' \cup daily' \subseteq queue \cup daily
           /\ resent' = resent /\ blind' = blind
<1>1. today \in Nat
    BY VisitAssumption DEF TypeOK, Days
<1>2. CASE NextDay
    BY <1>1, <1>2 DEF NextDay, logs, history
<1>3. CASE Flush
    BY <1>1, <1>3 DEF Flush, history
<1>4. CASE Migrate
    BY <1>1, <1>4 DEF Migrate, history
<1>5. CASE KeyExpires
    BY <1>1, <1>5 DEF KeyExpires, logs, history
<1>6. CASE KeyDropped
    BY <1>1, <1>6 DEF KeyDropped, logs
<1>7. CASE UNCHANGED vars
    BY <1>1, <1>7 DEF vars, logs, history
<1> QED BY <1>2, <1>3, <1>4, <1>5, <1>6, <1>7 DEF Around

(* Every step keeps the phases.                                            *)
LEMMA PhasesStep ==
    ASSUME TypeOK, Phases, [Next]_vars
    PROVE  Phases'
<1>0. /\ today \in Nat
      /\ \A v \in Visits : visit[v] \in Request /\ visit[v].day \in Nat /\ visit[v].deduped \in Nat
    BY VisitAssumption DEF TypeOK, Days, Request
<1>1. ASSUME NEW v \in Visits, RequestStep(v) PROVE Phases'
    <2>0. Phase(v) /\ \A w \in Visits \ {v} : Phase(w)
        BY DEF Phases
    <2>b. \A w \in Visits \ {v} : Phase(w)'
        BY <1>1, <2>0, OthersEffect DEF Phase
    <2> SUFFICES Phase(v)'
        BY <2>b DEF Phases
    <2>1. CASE Arrive(v)
        <3>1. /\ visit[v].pc = "new" /\ today' = today
              /\ counted' = counted /\ queue' = queue /\ daily' = daily /\ resent' = resent
            BY <2>1 DEF Arrive, At, logs, history
        <3>2. /\ visit[v].deduped = 0 /\ ~visit[v].isFirst /\ ~visit[v].isEarn
              /\ v \notin resent /\ v \notin counted /\ v \notin queue \cup daily
            BY <2>0, <3>1 DEF Phase
        <3>3. /\ visit'[v].pc = "lookup" /\ visit'[v].day = today
              /\ visit'[v].deduped = 0 /\ ~visit'[v].isFirst /\ ~visit'[v].isEarn
            BY <2>1, <3>2, ArriveEffect DEF Moves
        <3> QED BY <1>0, <3>1, <3>2, <3>3 DEF Phase
    <2>2. CASE Lookup(v)
        BY <1>0, <2>0, <2>2, LookupEffect DEF Phase, Lookup, At, Moves, Keeps, logs, history
    <2>3. CASE Dedupe(v)
        <3>1. /\ visit[v].pc = "dedupe" /\ today' = today
              /\ counted' = counted /\ queue' = queue /\ daily' = daily /\ resent' = resent
            BY <2>3 DEF Dedupe, Deduped, At, logs, history
        <3>2. /\ visit'[v].pc \in {"exists", "roll"} /\ visit'[v].day = visit[v].day
              /\ visit'[v].deduped = today
              /\ visit'[v].isEarn <=> visit'[v].isFirst
              /\ visit'[v].pc = "exists" => visit'[v].isFirst
            BY <2>3, DedupeEffect DEF Moves
        <3>3. v \notin counted /\ v \notin queue \cup daily /\ today # 0
            BY <2>0, <3>1 DEF Phase, TypeOK, Days
        <3> QED BY <1>0, <2>0, <3>1, <3>2, <3>3 DEF Phase
    <2>4. CASE DedupeResent(v)
        <3>0. Deduped(v, FALSE)
            BY <2>4 DEF DedupeResent
        <3>1. /\ visit[v].pc = "dedupe" /\ today' = today
              /\ counted' = counted /\ queue' = queue /\ daily' = daily
            BY <3>0 DEF Deduped, At, logs
        <3>2. /\ visit'[v].pc = "roll" /\ visit'[v].day = visit[v].day
              /\ visit'[v].deduped = today /\ ~visit'[v].isEarn /\ ~visit'[v].isFirst
            BY <3>0, DedupedEffect DEF Moves
        <3>3. v \notin counted /\ v \notin queue \cup daily /\ today # 0
            BY <2>0, <3>1 DEF Phase, TypeOK, Days
        <3> QED BY <1>0, <2>0, <3>1, <3>2, <3>3 DEF Phase
    <2>5. CASE CheckExists(v)
        <3>1. /\ visit[v].pc = "exists" /\ today' = today
              /\ counted' = counted /\ queue' = queue /\ daily' = daily /\ resent' = resent
            BY <2>5 DEF CheckExists, At, logs, history
        <3>2. /\ visit'[v].pc = "roll" /\ visit'[v].day = visit[v].day
              /\ visit'[v].deduped = visit[v].deduped
              /\ visit'[v].isFirst <=> visit[v].isFirst
            BY <2>5, CheckExistsEffect DEF Moves
        <3>3. visit[v].isFirst
            BY <2>0, <3>1 DEF Phase
        <3> QED BY <1>0, <2>0, <3>1, <3>2, <3>3 DEF Phase
    <2>6. CASE CheckFails(v)
        <3>1. Moves(v, "roll") /\ Keeps(v)
            BY <2>6, StepOnly DEF CheckFails
        <3> QED BY <1>0, <2>0, <2>6, <3>1 DEF Phase, CheckFails, At, Moves, Keeps, logs
    <2>7. CASE Roll(v)
        BY <1>0, <2>0, <2>7, RollEffect DEF Phase, Roll, At, Moves, logs, history
    <2>8. CASE Count(v)
        <3>1. Moves(v, "push") /\ Keeps(v)
            BY <2>8, StepOnly DEF Count
        <3> QED BY <1>0, <2>0, <2>8, <3>1 DEF Phase, Count, At, Moves, Keeps, history
    <2>9. CASE Push(v)
        <3>1. Moves(v, "done") /\ Keeps(v)
            BY <2>9, StepOnly DEF Push
        <3> QED BY <1>0, <2>0, <2>9, <3>1 DEF Phase, Push, At, Moves, Keeps, history
    <2> QED BY <1>1, <2>1, <2>2, <2>3, <2>4, <2>5, <2>6, <2>7, <2>8, <2>9 DEF RequestStep
<1>2. CASE Around
    BY <1>0, <1>2, AroundEffect DEF Phases, Phase
<1> QED BY <1>1, <1>2 DEF Next, Around

(* A visit that has been to its key keeps what it found there, and only    *)
(* SET NX lets one find it.                                                *)
LEMMA KeyVisited ==
    ASSUME TypeOK, Phases, [Next]_vars, NEW v \in Visits
    PROVE  /\ visit[v].deduped # 0 =>
                  /\ KeyOf(v)' = KeyOf(v)
                  /\ visit'[v].day = visit[v].day
                  /\ visit'[v].deduped = visit[v].deduped
                  /\ visit'[v].isFirst <=> visit[v].isFirst
           /\ visit[v].deduped = 0 /\ visit'[v].deduped # 0 => Dedupe(v) \/ DedupeResent(v)
           /\ v \in resent => v \in resent'
           /\ v \in resent' => v \in resent \/ DedupeResent(v)
<1>1. ASSUME NEW u \in Visits, RequestStep(u), u # v
      PROVE  visit'[v] = visit[v] /\ (v \in resent' <=> v \in resent)
    BY <1>1, OthersEffect
<1>2. CASE Around
    BY <1>2, AroundEffect DEF KeyOf
<1>3. ASSUME RequestStep(v)
      PROVE  /\ visit[v].deduped # 0 =>
                  /\ visit'[v].alias = visit[v].alias
                  /\ visit'[v].address = visit[v].address
                  /\ visit'[v].day = visit[v].day
                  /\ visit'[v].deduped = visit[v].deduped
                  /\ visit'[v].isFirst <=> visit[v].isFirst
             /\ visit[v].deduped = 0 /\ visit'[v].deduped # 0 => Dedupe(v) \/ DedupeResent(v)
             /\ v \in resent => v \in resent'
             /\ v \in resent' => v \in resent \/ DedupeResent(v)
    <2>0. Phase(v)
        BY DEF Phases
    <2>1. CASE Arrive(v)
        <3>1. visit[v].deduped = 0 /\ resent' = resent
            BY <2>0, <2>1 DEF Phase, Arrive, At, history
        <3> QED BY <2>1, <3>1, ArriveEffect
    <2>2. CASE Lookup(v)
        BY <2>2, LookupEffect DEF Lookup, Moves, Keeps, history
    <2>3. CASE Dedupe(v)
        BY <2>0, <2>3 DEF Phase, Dedupe, Deduped, At, history
    <2>4. CASE DedupeResent(v)
        BY <2>0, <2>4 DEF Phase, DedupeResent, Deduped, At
    <2>5. CASE CheckExists(v)
        BY <2>5, CheckExistsEffect DEF CheckExists, Moves, history
    <2>6. CASE CheckFails(v)
        <3>1. Moves(v, "roll") /\ Keeps(v)
            BY <2>6, StepOnly DEF CheckFails
        <3> QED BY <2>6, <3>1 DEF CheckFails, Moves, Keeps
    <2>7. CASE Roll(v)
        BY <2>7, RollEffect DEF Roll, Moves, history
    <2>8. CASE Count(v)
        <3>1. Moves(v, "push") /\ Keeps(v)
            BY <2>8, StepOnly DEF Count
        <3> QED BY <2>8, <3>1 DEF Count, Moves, Keeps, history
    <2>9. CASE Push(v)
        <3>1. Moves(v, "done") /\ Keeps(v)
            BY <2>9, StepOnly DEF Push
        <3> QED BY <2>9, <3>1 DEF Push, Moves, Keeps, history
    <2> QED BY <1>3, <2>1, <2>2, <2>3, <2>4, <2>5, <2>6, <2>7, <2>8, <2>9 DEF RequestStep
<1>4. KeyOf(v)' = <<visit'[v].alias, SanitizeIp(visit'[v].address), visit'[v].day>>
    BY DEF KeyOf
<1> QED BY <1>1, <1>2, <1>3, <1>4 DEF Next, Around, KeyOf

(* A key leaves Redis when its day is over or by a fault.                  *)
LEMMA KeyStays ==
    ASSUME TypeOK, [Next]_vars, NEW k \in Keys
    PROVE  /\ k \in dropped => k \in dropped'
           /\ k \in keys => k \in keys' \cup dropped' \/ k[3] < today'
<1>1. ASSUME NEW v \in Visits, RequestStep(v)
      PROVE  dropped' = dropped /\ keys \subseteq keys'
    BY <1>1 DEF RequestStep, Arrive, Lookup, Dedupe, DedupeResent, Deduped, CheckExists,
                CheckFails, Roll, Count, Push, logs, history
<1>2. CASE NextDay
    BY <1>2 DEF NextDay, history
<1>3. CASE Flush
    BY <1>3 DEF Flush, history
<1>4. CASE Migrate
    BY <1>4 DEF Migrate, history
<1>5. CASE KeyExpires
    BY <1>5 DEF KeyExpires, history
<1>6. CASE KeyDropped
    BY <1>6 DEF KeyDropped
<1>7. CASE UNCHANGED vars
    BY <1>7 DEF vars, history
<1> QED BY <1>1, <1>2, <1>3, <1>4, <1>5, <1>6, <1>7 DEF Next

(* Time does not run backwards.                                            *)
LEMMA DayStays ==
    ASSUME TypeOK, [Next]_vars
    PROVE  today \in Nat /\ today' \in Nat /\ today <= today'
<1>1. today \in Nat
    BY VisitAssumption DEF TypeOK, Days
<1>2. ASSUME NEW v \in Visits, RequestStep(v) PROVE today' = today
    BY <1>2, OthersEffect
<1>3. CASE Around
    BY <1>3, AroundEffect
<1> QED BY <1>1, <1>2, <1>3 DEF Next, Around

(***************************************************************************)
(* One visit a day is paid                                                 *)
(*                                                                         *)
(* OnePaidPerDay speaks of paid visits, when the key may be gone already.  *)
(* So the invariant says where the key of a first visit is, from the       *)
(* moment it is set: in Redis, dropped, or of a past day.  A second first  *)
(* visit of the same day finds it there.                                   *)
(***************************************************************************)
FirstOnTime(v) == visit[v].isFirst /\ OnTime(v)

KeyAccounted(v) == KeyOf(v) \in keys \cup dropped \/ visit[v].day < today

PaidInv ==
    /\ \A v \in Visits : FirstOnTime(v) => KeyAccounted(v)
    /\ \A v, w \in Visits :
           v # w /\ FirstOnTime(v) /\ FirstOnTime(w) /\ KeyOf(v) = KeyOf(w)
               => KeyOf(v) \in dropped

(* At first there are no first visits.                                     *)
LEMMA PaidInit == Init => PaidInv
BY DEF Init, PaidInv, FirstOnTime

(* A visit becomes the first on time only by setting a key that was not    *)
(* in Redis, on the day of the visit.                                      *)
LEMMA BecomesFirst ==
    ASSUME TypeOK, Phases, [Next]_vars, NEW v \in Visits, FirstOnTime(v)'
    PROVE  \/ /\ FirstOnTime(v) /\ KeyOf(v)' = KeyOf(v) /\ visit'[v].day = visit[v].day
           \/ /\ KeyOf(v) \notin keys /\ KeyOf(v) \in keys' /\ KeyOf(v)' = KeyOf(v)
              /\ visit'[v].day = today /\ today' = today /\ dropped' = dropped
              /\ \A w \in Visits \ {v} : visit'[w] = visit[w]
<1>1. visit'[v].isFirst /\ visit'[v].deduped = visit'[v].day
    BY DEF FirstOnTime, OnTime
<1>2. CASE visit[v].deduped # 0
    BY <1>1, <1>2, KeyVisited DEF FirstOnTime, OnTime
<1>3. CASE visit[v].deduped = 0 /\ visit'[v].deduped = 0
    <2>1. visit'[v].day \in Days
        BY TypeStep DEF TypeOK, Request
    <2> QED BY <1>1, <1>3, <2>1 DEF Days
<1>4. CASE visit[v].deduped = 0 /\ visit'[v].deduped # 0
    <2>1. CASE DedupeResent(v)
        <3>1. ~visit'[v].isFirst
            BY <2>1, DedupedEffect DEF DedupeResent
        <3> QED BY <1>1, <3>1
    <2>2. CASE Dedupe(v)
        <3>1. /\ KeyOf(v) \notin keys
              /\ visit'[v].deduped = today /\ visit'[v].day = visit[v].day
              /\ visit'[v].alias = visit[v].alias /\ visit'[v].address = visit[v].address
              /\ \A w \in Visits \ {v} : visit'[w] = visit[w]
            BY <1>1, <2>2, DedupeEffect DEF Moves
        <3>2. keys' = keys \cup {KeyOf(v)} /\ today' = today /\ dropped' = dropped
            BY <2>2 DEF Dedupe, Deduped, history
        <3> QED BY <1>1, <3>1, <3>2 DEF KeyOf
    <2> QED BY <1>4, <2>1, <2>2, KeyVisited
<1> QED BY <1>2, <1>3, <1>4

(* Every step keeps the invariant.                                         *)
LEMMA PaidStep ==
    ASSUME TypeOK, Phases, PaidInv, [Next]_vars
    PROVE  PaidInv'
<1>0. /\ today \in Nat /\ today' \in Nat /\ today <= today'
      /\ \A v \in Visits : visit[v].day \in Nat /\ KeyOf(v) \in Keys /\ KeyOf(v)[3] = visit[v].day
    <2>1. \A v \in Visits : visit[v].day \in Nat
        BY VisitAssumption DEF TypeOK, Request, Days
    <2> QED BY <2>1, DayStays, KeyOfType DEF KeyOf
<1>1. ASSUME NEW v \in Visits, FirstOnTime(v)' PROVE KeyAccounted(v)'
    <2>1. CASE FirstOnTime(v) /\ KeyOf(v)' = KeyOf(v) /\ visit'[v].day = visit[v].day
        <3>1. KeyOf(v) \in keys \cup dropped \/ visit[v].day < today
            BY <2>1 DEF PaidInv, KeyAccounted
        <3> QED BY <1>0, <2>1, <3>1, KeyStays DEF KeyAccounted
    <2> QED BY <1>1, <2>1, BecomesFirst DEF KeyAccounted
<1>2. ASSUME NEW v \in Visits, NEW w \in Visits, v # w,
             FirstOnTime(v)', FirstOnTime(w)', KeyOf(v)' = KeyOf(w)'
      PROVE  KeyOf(v)' \in dropped'
    <2> DEFINE Was(u) == FirstOnTime(u) /\ KeyOf(u)' = KeyOf(u)
    <2>1. CASE Was(v) /\ Was(w)
        <3>1. KeyOf(v) \in dropped
            BY <1>2, <2>1 DEF PaidInv
        <3> QED BY <1>0, <2>1, <3>1, KeyStays
    <2>2. ASSUME NEW a \in Visits, NEW b \in Visits, a # b, KeyOf(a)' = KeyOf(b)',
                 FirstOnTime(a)', FirstOnTime(b)', ~Was(a)
          PROVE  KeyOf(a)' \in dropped'
        <3>1. /\ KeyOf(a) \notin keys /\ KeyOf(a)' = KeyOf(a)
              /\ visit'[a].day = today /\ dropped' = dropped
              /\ visit'[b] = visit[b]
            BY <2>2, BecomesFirst
        <3>2. FirstOnTime(b) /\ KeyOf(b)' = KeyOf(b)
            BY <2>2, <3>1 DEF FirstOnTime, OnTime, KeyOf
        <3>3. visit[b].day = today
            BY <2>2, <3>1 DEF KeyOf
        <3>4. KeyOf(b) \in keys \cup dropped
            BY <1>0, <3>2, <3>3 DEF PaidInv, KeyAccounted
        <3> QED BY <2>2, <3>1, <3>2, <3>4
    <2> QED BY <1>2, <2>1, <2>2
<1> QED BY <1>1, <1>2 DEF PaidInv

(* One visit a day is paid per link and address, whatever the order of the *)
(* requests, unless Redis lost the key or midnight passed.                 *)
THEOREM OnePaidPerDayHolds == Spec => []OnePaidPerDay
<1>1. TypeOK /\ Phases /\ PaidInv => OnePaidPerDay
    BY DEF OnePaidPerDay, TypeOK, Phases, Phase, PaidInv, FirstOnTime, Paid, KeyOf,
           SameLinkAndDay, SameAddress
<1> QED BY <1>1, TypeInit, TypeStep, PhasesInit, PhasesStep, PaidInit, PaidStep, PTL DEF Spec

(***************************************************************************)
(* A refused visit had a predecessor                                       *)
(*                                                                         *)
(* Every key in Redis was set by a visit that was the first, or whose SET  *)
(* was answered a second time.                                             *)
(***************************************************************************)
SetBy(k, w) ==
    /\ KeyOf(w) = k
    /\ visit[w].deduped # 0
    /\ visit[w].isFirst \/ w \in resent

KeysAreSet == \A k \in keys : \E w \in Visits : SetBy(k, w)

RefusedInv == KeysAreSet /\ RefusedAfterFirst

(* At first there are no keys and no refusals.                             *)
LEMMA RefusedInit == Init => RefusedInv
<1> SUFFICES ASSUME Init PROVE RefusedInv
    OBVIOUS
<1>1. keys = {} /\ \A v \in Visits : visit[v].deduped = 0
    BY DEF Init
<1> QED BY <1>1 DEF RefusedInv, KeysAreSet, RefusedAfterFirst

(* The visit that set a key stays the one that did.                        *)
LEMMA SetByStays ==
    ASSUME TypeOK, Phases, [Next]_vars, NEW k, NEW w \in Visits, SetBy(k, w)
    PROVE  SetBy(k, w)'
BY KeyVisited DEF SetBy

(* Every step keeps the invariant.                                         *)
LEMMA RefusedStep ==
    ASSUME TypeOK, Phases, RefusedInv, [Next]_vars
    PROVE  RefusedInv'
<1>1. ASSUME NEW k \in keys' PROVE \E w \in Visits : SetBy(k, w)'
    <2>1. CASE k \in keys
        <3>1. PICK w \in Visits : SetBy(k, w)
            BY <2>1 DEF RefusedInv, KeysAreSet
        <3> QED BY <3>1, SetByStays
    <2>2. CASE k \notin keys
        <3>1. PICK v \in Visits : Dedupe(v) \/ DedupeResent(v)
            <4>1. ASSUME Around PROVE keys' \subseteq keys
                BY <4>1 DEF Around, NextDay, Flush, Migrate, KeyExpires, KeyDropped, vars,
                            logs, history
            <4>2. ASSUME NEW u \in Visits, RequestStep(u)
                  PROVE  keys' = keys \/ Dedupe(u) \/ DedupeResent(u)
                BY <4>2 DEF RequestStep, Arrive, Lookup, CheckExists, CheckFails, Roll, Count, Push
            <4> QED BY <1>1, <2>2, <4>1, <4>2 DEF Next, Around
        <3>2. k = KeyOf(v) /\ today # 0
            BY <1>1, <2>2, <3>1 DEF Dedupe, DedupeResent, Deduped, TypeOK, Days
        <3>3. CASE Dedupe(v)
            <4>1. /\ visit'[v].deduped = today /\ visit'[v].day = visit[v].day
                  /\ visit'[v].alias = visit[v].alias /\ visit'[v].address = visit[v].address
                  /\ visit'[v].isFirst
                BY <2>2, <3>2, <3>3, DedupeEffect DEF Moves
            <4> QED BY <3>2, <4>1 DEF SetBy, KeyOf
        <3>4. CASE DedupeResent(v)
            <4>1. /\ visit'[v].deduped = today /\ visit'[v].day = visit[v].day
                  /\ visit'[v].alias = visit[v].alias /\ visit'[v].address = visit[v].address
                BY <3>4, DedupedEffect DEF DedupeResent, Moves
            <4>2. v \in resent'
                BY <3>4 DEF DedupeResent
            <4> QED BY <3>2, <4>1, <4>2 DEF SetBy, KeyOf
        <3> QED BY <3>1, <3>3, <3>4
    <2> QED BY <2>1, <2>2
<1>2. ASSUME NEW v \in Visits, v \notin resent', visit'[v].deduped # 0, ~visit'[v].isFirst
      PROVE  \E w \in Visits \ {v} : /\ KeyOf(w)' = KeyOf(v)'
                                     /\ visit'[w].isFirst \/ w \in resent'
    <2>1. v \notin resent
        BY <1>2, KeyVisited
    <2>2. PICK k : k = KeyOf(v)
        OBVIOUS
    <2>3. KeyOf(v)' = k /\ \E w \in Visits \ {v} : SetBy(k, w)
        <3>1. CASE visit[v].deduped # 0
            <4>1. ~visit[v].isFirst /\ KeyOf(v)' = KeyOf(v)
                BY <1>2, <3>1, KeyVisited
            <4>2. PICK w \in Visits \ {v} : /\ SameLinkAndDay(v, w) /\ SameAddress(v, w)
                                            /\ visit[w].isFirst \/ w \in resent
                BY <2>1, <3>1, <4>1 DEF RefusedInv, RefusedAfterFirst
            <4>3. SetBy(k, w)
                BY <2>2, <4>2 DEF SetBy, KeyOf, SameLinkAndDay, SameAddress, Phases, Phase
            <4> QED BY <2>2, <4>1, <4>3
        <3>2. CASE visit[v].deduped = 0
            <4>1. Dedupe(v)
                BY <1>2, <3>2, KeyVisited DEF DedupeResent
            <4>2. KeyOf(v) \in keys /\ KeyOf(v)' = KeyOf(v)
                BY <1>2, <4>1, DedupeEffect DEF Moves, KeyOf
            <4>3. PICK w \in Visits : SetBy(k, w)
                BY <2>2, <4>2 DEF RefusedInv, KeysAreSet
            <4>4. w # v
                BY <3>2, <4>3 DEF SetBy
            <4> QED BY <2>2, <4>2, <4>3, <4>4
        <3> QED BY <3>1, <3>2
    <2>4. PICK w \in Visits \ {v} : SetBy(k, w)
        BY <2>3
    <2>5. SetBy(k, w)'
        BY <2>4, SetByStays
    <2> QED BY <2>3, <2>5 DEF SetBy
<1>3. RefusedAfterFirst'
    BY <1>2 DEF RefusedAfterFirst, KeyOf, SameLinkAndDay, SameAddress
<1> QED BY <1>1, <1>3 DEF RefusedInv, KeysAreSet

(* A visit is refused as a repetition only if another one of the same      *)
(* link, address and day was the first, or its own SET was sent twice.     *)
THEOREM RefusedAfterFirstHolds == Spec => []RefusedAfterFirst
<1>1. RefusedInv => RefusedAfterFirst
    BY DEF RefusedInv
<1> QED BY <1>1, TypeInit, TypeStep, PhasesInit, PhasesStep, RefusedInit, RefusedStep,
           PTL DEF Spec

(***************************************************************************)
(* A row in the daily table stops the payment                              *)
(*                                                                         *)
(* RowStopsPayment is about visits that have been counted.  The invariant  *)
(* follows the visit to that point: as long as the day lasts, the row it   *)
(* could have met is there, and a visit that knew of one earns only until  *)
(* the query is made.                                                      *)
(***************************************************************************)
RowThere(v) == ExistsToday(visit[v].alias, SanitizeIp(visit[v].address), visit[v].day)

RowInv ==
    \A v \in Visits :
        /\ visit[v].known => visit[v].pc # "new"
        /\ visit[v].known /\ visit[v].day = today =>
               /\ RowThere(v)
               /\ visit[v].isEarn => visit[v].pc = "exists" \/ v \in blind

(* At first no visit knows of a row.                                       *)
LEMMA RowInit == Init => RowInv
<1> SUFFICES ASSUME Init, NEW v \in Visits PROVE visit[v].known = FALSE
    BY DEF RowInv
<1> QED BY DEF Init

(* A row of the current day stays: its request is done, and the migration  *)
(* takes rows of past days.                                                *)
LEMMA RowStays ==
    ASSUME TypeOK, Phases, [Next]_vars, today' = today,
           NEW alias, NEW ip, ExistsToday(alias, ip, today)
    PROVE  ExistsToday(alias, ip, today)'
<1>1. PICK w \in daily : /\ visit[w].alias = alias
                         /\ SanitizeIp(visit[w].address) = ip
                         /\ visit[w].day = today
    BY DEF ExistsToday
<1>2. w \in Visits /\ visit[w].pc = "done" /\ today \in Nat
    BY <1>1, DayStays DEF TypeOK, Phases, Phase
<1>3. ASSUME NEW v \in Visits, RequestStep(v) PROVE w \in daily' /\ visit'[w] = visit[w]
    <2>1. v # w
        BY <1>2, <1>3 DEF RequestStep, Arrive, Lookup, Dedupe, DedupeResent, Deduped,
                          CheckExists, CheckFails, Roll, Count, Push, At
    <2> QED BY <1>1, <1>2, <1>3, <2>1, OthersEffect
<1>4. ASSUME Around PROVE w \in daily' /\ visit'[w] = visit[w]
    <2>1. visit' = visit
        BY <1>4, AroundEffect
    <2>2. w \in daily'
        <3>1. CASE Migrate
            BY <1>1, <1>2, <3>1 DEF Migrate
        <3>2. CASE Flush
            BY <1>1, <3>2 DEF Flush
        <3>3. CASE ~Migrate /\ ~Flush
            BY <1>1, <1>4, <3>3 DEF Around, NextDay, KeyExpires, KeyDropped, vars, logs
        <3> QED BY <3>1, <3>2, <3>3
    <2> QED BY <2>1, <2>2
<1>5. w \in daily' /\ visit'[w] = visit[w]
    BY <1>3, <1>4 DEF Next, Around
<1> QED BY <1>1, <1>5 DEF ExistsToday

(* A visit that has arrived keeps its link, address and day, and what it   *)
(* could have known.                                                       *)
LEMMA ArrivedStays ==
    ASSUME TypeOK, NEW v \in Visits, RequestStep(v), ~Arrive(v)
    PROVE  /\ KeyOf(v)' = KeyOf(v)
           /\ visit'[v].day = visit[v].day
           /\ visit'[v].alias = visit[v].alias
           /\ visit'[v].address = visit[v].address
           /\ visit'[v].known <=> visit[v].known
           /\ visit[v].pc # "new" /\ visit'[v].pc # "new"
           /\ v \in blind => v \in blind'
<1>2. CASE Lookup(v)
    BY <1>2, LookupEffect DEF Lookup, At, Moves, Keeps, KeyOf, history
<1>3. CASE Dedupe(v)
    <2>1. visit[v].pc # "new" /\ blind' = blind
        BY <1>3 DEF Dedupe, Deduped, At, history
    <2>2. visit'[v].pc # "new"
        BY <1>3, DedupeEffect DEF Moves
    <2> QED BY <1>3, <2>1, <2>2, DedupeEffect DEF Moves, KeyOf
<1>4. CASE DedupeResent(v)
    <2>1. visit[v].pc # "new" /\ blind' = blind /\ Deduped(v, FALSE)
        BY <1>4 DEF DedupeResent, Deduped, At
    <2>2. visit'[v].pc # "new"
        BY <2>1, DedupedEffect DEF Moves
    <2> QED BY <2>1, <2>2, DedupedEffect DEF Moves, KeyOf
<1>5. CASE CheckExists(v)
    BY <1>5, CheckExistsEffect DEF CheckExists, At, Moves, KeyOf, history
<1>6. CASE CheckFails(v)
    <2>1. Moves(v, "roll") /\ Keeps(v)
        BY <1>6, StepOnly DEF CheckFails
    <2> QED BY <1>6, <2>1 DEF CheckFails, At, Moves, Keeps, KeyOf
<1>7. CASE Roll(v)
    BY <1>7, RollEffect DEF Roll, At, Moves, KeyOf, history
<1>8. CASE Count(v)
    <2>1. Moves(v, "push") /\ Keeps(v)
        BY <1>8, StepOnly DEF Count
    <2> QED BY <1>8, <2>1 DEF Count, At, Moves, Keeps, KeyOf, history
<1>9. CASE Push(v)
    <2>1. Moves(v, "done") /\ Keeps(v)
        BY <1>9, StepOnly DEF Push
    <2> QED BY <1>9, <2>1 DEF Push, At, Moves, Keeps, KeyOf, history
<1> QED BY <1>2, <1>3, <1>4, <1>5, <1>6, <1>7, <1>8, <1>9 DEF RequestStep

(* Every step keeps the invariant.                                         *)
LEMMA RowStep ==
    ASSUME TypeOK, Phases, RowInv, [Next]_vars
    PROVE  RowInv'
<1> SUFFICES ASSUME NEW v \in Visits, visit'[v].known
             PROVE  /\ visit'[v].pc # "new"
                    /\ visit'[v].day = today' =>
                           /\ RowThere(v)'
                           /\ visit'[v].isEarn => visit'[v].pc = "exists" \/ v \in blind'
    BY DEF RowInv
<1>0. today \in Nat /\ today' \in Nat /\ today <= today' /\ visit[v].day \in Nat /\ Phase(v)
    BY VisitAssumption, DayStays DEF TypeOK, Request, Days, Phases
<1>1. CASE Arrive(v)
    <2>1. /\ visit'[v].pc = "lookup" /\ visit'[v].day = today /\ today' = today
          /\ visit'[v].alias = visit[v].alias /\ visit'[v].address = visit[v].address
          /\ ExistsToday(visit[v].alias, SanitizeIp(visit[v].address), today)
          /\ ~visit'[v].isEarn
        BY <1>0, <1>1, ArriveEffect DEF Arrive, At, Moves, Phase
    <2>2. PICK alias, ip : alias = visit[v].alias /\ ip = SanitizeIp(visit[v].address)
        OBVIOUS
    <2>3. ExistsToday(alias, ip, today)'
        BY <2>1, <2>2, RowStays
    <2>4. RowThere(v)'
        BY <2>1, <2>2, <2>3 DEF RowThere, ExistsToday
    <2> QED BY <2>1, <2>4
<1>2. CASE ~Arrive(v)
    <2>1. /\ visit'[v].day = visit[v].day
          /\ visit'[v].alias = visit[v].alias /\ visit'[v].address = visit[v].address
          /\ visit[v].known
          /\ visit'[v].pc # "new"
        <3>1. CASE RequestStep(v)
            BY <1>2, <3>1, ArrivedStays
        <3>2. CASE Around
            BY <3>2, AroundEffect DEF RowInv
        <3>3. ASSUME NEW u \in Visits, RequestStep(u), u # v PROVE visit'[v] = visit[v]
            BY <3>3, OthersEffect
        <3> QED BY <3>1, <3>2, <3>3 DEF Next, Around, RowInv
    <2> SUFFICES ASSUME visit'[v].day = today'
                 PROVE  /\ RowThere(v)'
                        /\ visit'[v].isEarn => visit'[v].pc = "exists" \/ v \in blind'
        BY <2>1
    <2>2. today' = today /\ visit[v].day = today
        BY <1>0, <2>1 DEF Phase
    <2>3. RowThere(v) /\ (visit[v].isEarn => visit[v].pc = "exists" \/ v \in blind)
        BY <2>1, <2>2 DEF RowInv
    <2>4. RowThere(v)'
        <3>1. PICK alias, ip : alias = visit[v].alias /\ ip = SanitizeIp(visit[v].address)
            OBVIOUS
        <3>2. ExistsToday(alias, ip, today)
            BY <2>2, <2>3, <3>1 DEF RowThere
        <3>3. ExistsToday(alias, ip, today)'
            BY <2>2, <3>2, RowStays
        <3> QED BY <2>1, <2>2, <3>1, <3>3 DEF RowThere, ExistsToday
    <2>5. ASSUME visit'[v].isEarn PROVE visit'[v].pc = "exists" \/ v \in blind'
        <3>1. CASE Lookup(v)
            BY <1>0, <2>5, <3>1, LookupEffect DEF Lookup, At, Keeps, Phase
        <3>2. CASE Dedupe(v)
            BY <2>5, <3>2, DedupeEffect DEF Moves
        <3>3. CASE DedupeResent(v)
            BY <2>5, <3>3, DedupedEffect DEF DedupeResent
        <3>4. CASE CheckExists(v)
            BY <2>3, <2>5, <3>4, CheckExistsEffect DEF RowThere
        <3>5. CASE CheckFails(v)
            BY <3>5 DEF CheckFails
        <3>6. CASE Roll(v)
            BY <2>3, <2>5, <3>6, RollEffect DEF Roll, At, history
        <3>7. CASE Count(v)
            <4>1. Keeps(v)
                BY <3>7, StepOnly DEF Count
            <4> QED BY <2>3, <2>5, <3>7, <4>1 DEF Count, At, Keeps, history
        <3>8. CASE Push(v)
            <4>1. Keeps(v)
                BY <3>8, StepOnly DEF Push
            <4> QED BY <2>3, <2>5, <3>8, <4>1 DEF Push, At, Keeps, history
        <3>9. CASE Around
            BY <2>3, <2>5, <3>9, AroundEffect
        <3>10. ASSUME NEW u \in Visits, RequestStep(u), u # v
               PROVE  visit'[v] = visit[v] /\ (v \in blind' <=> v \in blind)
            BY <3>10, OthersEffect
        <3> QED BY <1>2, <2>3, <2>5, <3>1, <3>2, <3>3, <3>4, <3>5, <3>6, <3>7, <3>8, <3>9, <3>10
                DEF Next, Around, RequestStep
    <2> QED BY <2>4, <2>5
<1> QED BY <1>1, <1>2

(* A visit that arrives when a row of its link, address and day is in the  *)
(* daily table is not paid, whatever Redis has lost, unless the query      *)
(* fails or midnight passes.                                               *)
THEOREM RowStopsPaymentHolds == Spec => []RowStopsPayment
<1>1. TypeOK /\ Phases /\ RowInv => RowStopsPayment
    <2> SUFFICES ASSUME TypeOK, Phases, RowInv, NEW v \in Paid, visit[v].known
                 PROVE  v \in blind \/ visit[v].day < today
        BY DEF RowStopsPayment
    <2>1. v \in Visits /\ visit[v].pc # "exists" /\ visit[v].isEarn /\ visit[v].day <= today
        BY DEF Paid, TypeOK, Phases, Phase
    <2>2. today \in Nat /\ visit[v].day \in Nat
        BY <2>1, VisitAssumption DEF TypeOK, Request, Days
    <2> QED BY <2>1, <2>2 DEF RowInv
<1> QED BY <1>1, TypeInit, TypeStep, PhasesInit, PhasesStep, RowInit, RowStep, PTL DEF Spec
=============================================================================
