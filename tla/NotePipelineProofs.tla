------------------------- MODULE NotePipelineProofs -------------------------
(***************************************************************************)
(* Proofs about NotePipeline and the table user_agents, for any number of  *)
(* requests, runs, processes, ids, faults and days.                        *)
(***************************************************************************)
EXTENDS NotePipeline, SumProofs

(***************************************************************************)
(* Amounts                                                                 *)
(***************************************************************************)
(* Whole units do not matter to a division, and what is below one unit is  *)
(* cut.                                                                    *)
LEMMA DivideUnits ==
    ASSUME NEW q \in Nat, NEW rest \in Nat, NEW d \in Nat \ {0}, rest < d
    PROVE  (q * d + rest) \div d = q
<1> DEFINE n == q * d + rest
           k == n \div d
           m == n % d
<1>1. n \in Nat /\ q * d \in Nat
    OBVIOUS
<1>2. k \in Int /\ m \in 0..(d - 1) /\ n = d * k + m
    BY <1>1
<1>3. d * (k - q) = rest - m
    BY <1>2
<1>4. k - q < 1
    BY <1>2, <1>3
<1>5. k - q > -1
    BY <1>2, <1>3
<1> QED BY <1>2, <1>4, <1>5

(* A scaled integer goes into the UPDATE as text and is stored as it was:  *)
(* the column neither rounds it nor loses its sign.                        *)
THEOREM SentAmountsAreExact ==
    ASSUME NEW n \in Int
    PROVE  Sent(n) = n
<1> DEFINE abs  == IF n < 0 THEN -n ELSE n
           int  == abs \div Unit
           rest == abs % Unit
<1>0. Unit \in Nat \ {0} /\ Fine \in Nat \ {0}
    BY AmountAssumption
<1>1. abs \in Nat
    OBVIOUS
<1> HIDE DEF abs
<1>2. int \in Nat /\ rest \in Nat /\ abs = Unit * int + rest
    BY <1>0, <1>1
<1>3. Fine \div 2 \in Nat /\ Fine \div 2 < Fine
    BY <1>0
<1>4. (rest * Fine + Fine \div 2) \div Fine = rest
    BY <1>0, <1>2, <1>3, DivideUnits
<1>5. FromScaledInt(n) = [numeric |-> TRUE, negative |-> n < 0, int |-> int, frac |-> rest * Fine]
    BY DEF FromScaledInt, abs
<1> HIDE DEF int, rest
<1>6. Sent(n) = Signed(n < 0, int * Unit + rest)
    BY <1>4, <1>5 DEF Sent, Column
<1>7. int * Unit + rest = abs
    BY <1>0, <1>2
<1> QED BY <1>6, <1>7 DEF Signed, abs

(* Cutting a fraction and then adding whole parts, or the other way round. *)
LEMMA CutWhole ==
    ASSUME NEW int \in Nat, NEW frac \in Nat
    PROVE  /\ int * Unit + frac \div Fine \in Nat
           /\ int * Unit * Fine + frac \in Nat
           /\ (int * Unit * Fine + frac) \div Fine = int * Unit + frac \div Fine
<1> DEFINE units == frac \div Fine
           rest  == frac % Fine
<1>0. Unit \in Nat \ {0} /\ Fine \in Nat \ {0}
    BY AmountAssumption
<1>1. units \in Nat /\ rest \in Nat /\ rest < Fine /\ frac = Fine * units + rest
    BY <1>0
<1> HIDE DEF units, rest
<1>2. PICK whole \in Nat : whole = int * Unit
    BY <1>0
<1>3. whole * Fine \in Nat /\ (whole + units) * Fine + rest = whole * Fine + frac
    BY <1>0, <1>1
<1>4. ((whole + units) * Fine + rest) \div Fine = whole + units
    <2>1. PICK sum \in Nat : sum = whole + units
        BY <1>1
    <2>2. (sum * Fine + rest) \div Fine = sum
        BY <1>0, <1>1, DivideUnits
    <2> QED BY <2>1, <2>2
<1> QED BY <1>1, <1>2, <1>3, <1>4 DEF units

(* toScaledInt reads a text as its value, cut to the scale towards zero.   *)
THEOREM ScaledIntIsCut ==
    ASSUME NEW text \in Texts
    PROVE  ToScaledInt(text) = CutToScale(text)
<1> DEFINE whole == text.int * Unit + text.frac \div Fine
           exact == text.int * Unit * Fine + text.frac
<1>0. text.int \in Nat /\ text.frac \in Nat /\ text.negative \in BOOLEAN
    BY AmountAssumption DEF Texts
<1>1. whole \in Nat /\ exact \in Nat /\ exact \div Fine = whole
    BY <1>0, CutWhole
<1>2. Fine \in Nat \ {0} /\ 0 \div Fine = 0
    BY AmountAssumption
<1>3. ToScaledInt(text) = IF ~text.numeric THEN 0 ELSE Signed(text.negative, whole)
    BY DEF ToScaledInt
<1>4. Exact(text) = IF ~text.numeric THEN 0 ELSE Signed(text.negative, exact)
    BY DEF Exact
<1> HIDE DEF exact, whole
<1>5. CASE ~text.numeric
    BY <1>2, <1>3, <1>4, <1>5 DEF CutToScale
<1>6. CASE text.numeric /\ ~text.negative
    BY <1>1, <1>3, <1>4, <1>6 DEF CutToScale, Signed
<1>7. CASE text.numeric /\ text.negative
    <2>1. CASE exact = 0
        BY <1>1, <1>2, <1>3, <1>4, <1>7, <2>1 DEF CutToScale, Signed
    <2>2. CASE exact > 0
        BY <1>1, <1>3, <1>4, <1>7, <2>2 DEF CutToScale, Signed
    <2> QED BY <1>1, <2>1, <2>2
<1> QED BY <1>5, <1>6, <1>7

(***************************************************************************)
(* Who earns                                                               *)
(*                                                                         *)
(* OneEarningAccess compares days of keys and of arrivals.  The invariant  *)
(* adds that the key of an earning access is in Redis, or was lost, so     *)
(* that a second access of the same key does not earn, and that the day of *)
(* the key is not before the arrival.                                      *)
(***************************************************************************)
EarnType ==
    /\ today \in Days
    /\ access \in [Accesses -> Request]

EarnPhase(a) ==
    /\ access[a].pc # "new" => access[a].arrived <= today
    /\ access[a].pc \in {"mark", "push", "done"} => access[a].arrived <= access[a].day
    /\ access[a].isEarn => /\ access[a].pc \notin {"new", "agent", "mark"}
                           /\ access[a].arrived <= access[a].day
                           /\ AccessKey(a) \in marks \cup dropped

EarnInv ==
    /\ EarnType
    /\ \A a \in Accesses : EarnPhase(a)
    /\ \A a, b \in Accesses :
           a # b /\ access[a].isEarn /\ access[b].isEarn /\ AccessKey(a) = AccessKey(b)
           => AccessKey(a) \in dropped

(* At first no access earns.                                               *)
LEMMA EarnInit == NoteInit => EarnInv
<1> SUFFICES ASSUME NoteInit PROVE EarnInv
    OBVIOUS
<1>1. 1 \in Days
    BY NoteAssumption DEF Days
<1>2. EarnType
    BY <1>1 DEF NoteInit, EarnType, Request
<1>3. \A a \in Accesses : access[a].pc = "new" /\ access[a].isEarn = FALSE
    BY DEF NoteInit
<1> QED BY <1>2, <1>3 DEF EarnInv, EarnPhase

(* Only the steps of a request and the end of a process touch requests,    *)
(* and only a request and a fault touch the keys.                          *)
LEMMA EarnSteps ==
    ASSUME EarnType, [NoteNext]_vars
    PROVE  \/ \E a \in Accesses : \/ Arrive(a) \/ InsertNoteAgent(a) \/ Mark(a) \/ Push(a)
                                  \/ MarkUnanswered(a)
           \/ MarkDropped
           \/ \E s \in Servers : ProcessEnds(s)
           \/ UNCHANGED <<access, marks, today, dropped, remarked>>
           \/ DayPasses
<1>1. ASSUME NEW a \in Accesses, PushUnanswered(a)
      PROVE  UNCHANGED <<access, marks, today, dropped, remarked>>
    BY <1>1 DEF PushUnanswered, requestVars
<1>2. ASSUME NEW r \in Runs,
             StartFlush(r) \/ FlushStep(r) \/ PopUnanswered(r) \/ PopFails(r) \/ StatementFails(r)
      PROVE  UNCHANGED <<access, marks, today, dropped, remarked>>
    BY <1>2 DEF StartFlush, FlushStep, Pop, Popped, Insert, CreditBalances, CountLinks,
                PopUnanswered, PopFails, StatementFails, requestVars, history
<1>3. ASSUME AgentStep \/ AgentFault \/ UNCHANGED vars
      PROVE  UNCHANGED <<access, marks, today, dropped, remarked>>
    BY <1>3 DEF AgentStep, AgentFault, vars, requestVars, history
<1> QED BY <1>1, <1>2, <1>3 DEF NoteNext

(* The faults of the keys touch nothing else.                              *)
LEMMA KeyFaultsKeep ==
    ASSUME MarkDropped \/ \E a \in Accesses : MarkUnanswered(a)
    PROVE  UNCHANGED <<today, access, queue, run, ledgers, lost, uncredited, unlinked, resent,
                       agentVars>>
BY DEF MarkDropped, MarkUnanswered

(* The effect of each on the request, and on it alone.                     *)
Writes(a, pc) ==
    /\ access' \in [Accesses -> Request]
    /\ access'[a].pc = pc
    /\ \A b \in Accesses \ {a} : access'[b] = access[b]

(* What a request writes when it goes on.                                  *)
LEMMA ArriveWrites ==
    ASSUME EarnType, NEW a \in Accesses, Arrive(a)
    PROVE  /\ Writes(a, "agent")
           /\ access'[a].arrived = today
           /\ access'[a].day = access[a].day
           /\ access'[a].isEarn <=> access[a].isEarn
<1> DEFINE s == [access[a] EXCEPT !.pc = "agent", !.arrived = today]
<1>1. access[a] \in Request /\ today \in Days
    BY DEF EarnType
<1>2. access' = [access EXCEPT ![a] = s]
    BY DEF Arrive
<1>3. s \in Request /\ s.pc = "agent" /\ s.arrived = today /\ s.day = access[a].day
    BY <1>1 DEF Request
<1>4. s.isEarn = access[a].isEarn
    BY <1>1 DEF Request
<1> HIDE DEF s
<1> QED BY <1>2, <1>3, <1>4 DEF Writes, EarnType

(* The day is read when the user agent is stored.                          *)
LEMMA AgentWrites ==
    ASSUME EarnType, NEW a \in Accesses, InsertNoteAgent(a)
    PROVE  /\ Writes(a, "mark")
           /\ access'[a].day = today
           /\ access'[a].arrived = access[a].arrived
           /\ access'[a].isEarn <=> access[a].isEarn
<1> DEFINE s == [access[a] EXCEPT !.pc = "mark", !.day = today]
<1>1. access[a] \in Request /\ today \in Days
    BY DEF EarnType
<1>2. access' = [access EXCEPT ![a] = s]
    BY DEF InsertNoteAgent
<1>3. s \in Request /\ s.pc = "mark" /\ s.day = today /\ s.arrived = access[a].arrived
    BY <1>1 DEF Request
<1>4. s.isEarn = access[a].isEarn
    BY <1>1 DEF Request
<1> HIDE DEF s
<1> QED BY <1>2, <1>3, <1>4 DEF Writes, EarnType

(* An access earns if it set the key.                                      *)
LEMMA MarkWrites ==
    ASSUME EarnType, NEW a \in Accesses, Mark(a)
    PROVE  /\ Writes(a, "push")
           /\ access'[a].day = access[a].day
           /\ access'[a].arrived = access[a].arrived
           /\ access'[a].isEarn <=> AccessKey(a) \notin marks
<1> DEFINE earn == AccessKey(a) \notin marks
           s == [access[a] EXCEPT !.pc = "push", !.isEarn = earn]
<1>1. access[a] \in Request /\ earn \in BOOLEAN
    BY DEF EarnType
<1>2. access' = [access EXCEPT ![a] = s]
    BY DEF Mark
<1> HIDE DEF earn
<1>3. s \in Request /\ s.pc = "push" /\ s.day = access[a].day /\ s.arrived = access[a].arrived
    BY <1>1 DEF Request
<1>4. s.isEarn = earn
    BY <1>1 DEF Request
<1> HIDE DEF s
<1> QED BY <1>2, <1>3, <1>4 DEF Writes, EarnType, earn

(* A pushed access changes no more.                                        *)
LEMMA PushWrites ==
    ASSUME EarnType, NEW a \in Accesses, Push(a)
    PROVE  /\ Writes(a, "done")
           /\ access'[a].day = access[a].day
           /\ access'[a].arrived = access[a].arrived
           /\ access'[a].isEarn <=> access[a].isEarn
<1> DEFINE s == [access[a] EXCEPT !.pc = "done"]
<1>1. access[a] \in Request
    BY DEF EarnType
<1>2. access' = [access EXCEPT ![a] = s]
    BY DEF Push
<1>3. s \in Request /\ s.pc = "done" /\ s.day = access[a].day /\ s.arrived = access[a].arrived
    BY <1>1 DEF Request
<1>4. s.isEarn = access[a].isEarn
    BY <1>1 DEF Request
<1> HIDE DEF s
<1> QED BY <1>2, <1>3, <1>4 DEF Writes, EarnType

(* The requests of a process end where they are.                           *)
LEMMA EndWrites ==
    ASSUME EarnType, NEW s \in Servers, ProcessEnds(s)
    PROVE  /\ access' \in [Accesses -> Request]
           /\ \A a \in Accesses :
                 \/ access'[a] = access[a]
                 \/ /\ access[a].pc \in {"agent", "mark", "push"} /\ access'[a].pc = "died"
                    /\ access'[a].day = access[a].day
                    /\ access'[a].arrived = access[a].arrived
                    /\ access'[a].isEarn <=> access[a].isEarn
<1> DEFINE dead == {a \in Accesses : Home[a] = s /\ access[a].pc \in {"agent", "mark", "push"}}
           ended(a) == [access[a] EXCEPT !.pc = "died"]
<1>1. access' = [a \in Accesses |-> IF a \in dead THEN ended(a) ELSE access[a]]
    BY DEF ProcessEnds
<1>2. ASSUME NEW a \in Accesses
      PROVE  /\ ended(a) \in Request /\ ended(a).pc = "died"
             /\ ended(a).day = access[a].day
             /\ ended(a).arrived = access[a].arrived
    BY DEF EarnType, Request
<1>3. ASSUME NEW a \in Accesses PROVE ended(a).isEarn = access[a].isEarn
    BY DEF EarnType, Request
<1>4. access \in [Accesses -> Request]
    BY DEF EarnType
<1> HIDE DEF ended
<1> QED BY <1>1, <1>2, <1>3, <1>4

(* Every step keeps the invariant.                                         *)
LEMMA EarnStep ==
    ASSUME EarnInv, [NoteNext]_vars
    PROVE  EarnInv'
<1>0. /\ today \in Nat /\ EarnType
      /\ \A a \in Accesses : /\ access[a] \in Request /\ EarnPhase(a)
                             /\ access[a].arrived \in Nat /\ access[a].day \in Nat
    BY NoteAssumption DEF EarnInv, EarnType, Request, Days
<1>k. \A a \in Accesses : access'[a].day = access[a].day => AccessKey(a)' = AccessKey(a)
    BY DEF AccessKey
<1>1. ASSUME NEW a \in Accesses, Arrive(a) PROVE EarnInv'
    <2>1. /\ access[a].pc = "new" /\ marks' = marks /\ today' = today
          /\ ~access[a].isEarn /\ dropped' = dropped
        BY <1>0, <1>1 DEF Arrive, requestVars, history, EarnPhase
    <2>2. /\ Writes(a, "agent") /\ access'[a].arrived = today /\ ~access'[a].isEarn
        BY <1>0, <1>1, <2>1, ArriveWrites
    <2>3. EarnPhase(a)'
        BY <1>0, <2>1, <2>2 DEF EarnPhase, Writes
    <2>4. \A b \in Accesses \ {a} : EarnPhase(b)'
        BY <1>0, <2>1, <2>2 DEF EarnPhase, Writes, AccessKey
    <2>5. EarnType'
        BY <1>0, <2>1, <2>2 DEF EarnType, Writes
    <2> QED BY <1>k, <2>1, <2>2, <2>3, <2>4, <2>5 DEF EarnInv, Writes
<1>2. ASSUME NEW a \in Accesses, InsertNoteAgent(a) PROVE EarnInv'
    <2>1. /\ access[a].pc = "agent" /\ marks' = marks /\ today' = today
          /\ ~access[a].isEarn /\ dropped' = dropped
        BY <1>0, <1>2 DEF InsertNoteAgent, history, EarnPhase
    <2>2. /\ Writes(a, "mark") /\ access'[a].arrived = access[a].arrived
          /\ access'[a].day = today /\ ~access'[a].isEarn
        BY <1>0, <1>2, <2>1, AgentWrites
    <2>3. EarnPhase(a)'
        BY <1>0, <2>1, <2>2 DEF EarnPhase, Writes
    <2>4. \A b \in Accesses \ {a} : EarnPhase(b)'
        BY <1>0, <2>1, <2>2 DEF EarnPhase, Writes, AccessKey
    <2>5. EarnType'
        BY <1>0, <2>1, <2>2 DEF EarnType, Writes
    <2> QED BY <1>k, <2>1, <2>2, <2>3, <2>4, <2>5 DEF EarnInv, Writes
<1>3. ASSUME NEW a \in Accesses, Mark(a) PROVE EarnInv'
    <2>1. /\ access[a].pc = "mark" /\ marks' = marks \cup {AccessKey(a)}
          /\ today' = today /\ dropped' = dropped
        BY <1>3 DEF Mark, history
    <2>2. /\ Writes(a, "push") /\ access'[a].arrived = access[a].arrived
          /\ access'[a].day = access[a].day
          /\ access'[a].isEarn => AccessKey(a) \notin marks
        BY <1>0, <1>3, MarkWrites
    <2>3. EarnPhase(a)'
        BY <1>0, <1>k, <2>1, <2>2 DEF EarnPhase, Writes
    <2>4. \A b \in Accesses \ {a} : EarnPhase(b)'
        BY <1>0, <2>1, <2>2 DEF EarnPhase, Writes, AccessKey
    <2>5. EarnType'
        BY <1>0, <2>1, <2>2 DEF EarnType, Writes
    <2>6. ASSUME NEW b \in Accesses \ {a}, access'[a].isEarn, access'[b].isEarn
          PROVE  AccessKey(a)' = AccessKey(b)' => AccessKey(a)' \in dropped'
        <3>1. access[b].isEarn /\ AccessKey(b)' = AccessKey(b)
            BY <1>k, <2>2, <2>6 DEF Writes
        <3>2. AccessKey(b) \in marks \cup dropped
            BY <1>0, <3>1 DEF EarnPhase
        <3> QED BY <1>k, <2>1, <2>2, <2>6, <3>1, <3>2
    <2>7. ASSUME NEW b \in Accesses \ {a}, NEW c \in Accesses \ {a}, b # c,
                 access'[b].isEarn, access'[c].isEarn
          PROVE  AccessKey(b)' = AccessKey(c)' => AccessKey(b)' \in dropped'
        BY <1>k, <2>1, <2>2, <2>7 DEF EarnInv, Writes
    <2> QED BY <2>3, <2>4, <2>5, <2>6, <2>7 DEF EarnInv
<1>4. ASSUME NEW a \in Accesses, Push(a) PROVE EarnInv'
    <2>1. /\ access[a].pc = "push" /\ marks' = marks
          /\ today' = today /\ dropped' = dropped
        BY <1>4 DEF Push, history
    <2>2. /\ Writes(a, "done") /\ access'[a].arrived = access[a].arrived
          /\ access'[a].day = access[a].day
          /\ access'[a].isEarn <=> access[a].isEarn
        BY <1>0, <1>4, PushWrites
    <2>3. EarnPhase(a)'
        BY <1>0, <1>k, <2>1, <2>2 DEF EarnPhase, Writes
    <2>4. \A b \in Accesses \ {a} : EarnPhase(b)'
        BY <1>0, <2>1, <2>2 DEF EarnPhase, Writes, AccessKey
    <2>5. EarnType'
        BY <1>0, <2>1, <2>2 DEF EarnType, Writes
    <2> QED BY <1>k, <2>1, <2>2, <2>3, <2>4, <2>5 DEF EarnInv, Writes
<1>5. ASSUME NEW s \in Servers, ProcessEnds(s) PROVE EarnInv'
    <2>1. marks' = marks /\ today' = today /\ dropped' = dropped
        BY <1>5 DEF ProcessEnds
    <2>2. \A a \in Accesses : EarnPhase(a)'
        BY <1>0, <1>5, <1>k, <2>1, EndWrites DEF EarnPhase
    <2>3. EarnType'
        BY <1>0, <1>5, <2>1, EndWrites DEF EarnType
    <2>4. \A a \in Accesses : (access'[a].isEarn <=> access[a].isEarn)
                              /\ AccessKey(a)' = AccessKey(a)
        BY <1>0, <1>5, <1>k, EndWrites
    <2> QED BY <2>1, <2>2, <2>3, <2>4 DEF EarnInv
<1>6. ASSUME access' = access, today' = today \/ DayPasses,
             marks \cup dropped \subseteq marks' \cup dropped', dropped \subseteq dropped'
      PROVE  EarnInv'
    <2>1. today' \in Days /\ today <= today'
        BY <1>0, <1>6, NoteAssumption DEF EarnType, DayPasses, Days
    <2>2. today' \in Nat
        BY <2>1, NoteAssumption DEF Days
    <2> QED BY <1>0, <1>6, <2>1, <2>2 DEF EarnInv, EarnType, EarnPhase, AccessKey
<1>7. DayPasses => UNCHANGED <<access, marks, dropped>>
    BY DEF DayPasses, requestVars, history
<1>8. MarkDropped => /\ access' = access /\ today' = today
                     /\ marks \cup dropped \subseteq marks' \cup dropped' /\ dropped \subseteq dropped'
    BY DEF MarkDropped
<1>9. ASSUME NEW a \in Accesses, MarkUnanswered(a)
      PROVE  access' = access /\ today' = today /\ marks \subseteq marks' /\ dropped' = dropped
    BY <1>9 DEF MarkUnanswered
<1> QED BY <1>0, <1>1, <1>2, <1>3, <1>4, <1>5, <1>6, <1>7, <1>8, <1>9, EarnSteps

(* Of the accesses of one address to one user's notes, one earns a day,    *)
(* unless Redis loses its key.                                             *)
THEOREM OneEarningAccessHolds == NoteSpec => []OneEarningAccess
<1>1. EarnInv => OneEarningAccess
    <2> SUFFICES ASSUME EarnInv, NEW a \in Accesses, NEW b \in Accesses, a # b,
                        access[a].isEarn, access[b].isEarn,
                        Given[a].ip = Given[b].ip, UserOf(a) = UserOf(b),
                        AccessKey(a) \notin dropped
                 PROVE  /\ access[a].day # access[b].day
                        /\ access[a].arrived = access[b].arrived
                           => \E c \in {a, b} : access[c].day > access[c].arrived
        BY DEF OneEarningAccess
    <2>1. access[a].day # access[b].day
        BY DEF EarnInv, AccessKey
    <2>2. access[a].arrived <= access[a].day /\ access[b].arrived <= access[b].day
        BY DEF EarnInv, EarnPhase
    <2>3. \A c \in {a, b} : access[c].arrived \in Nat /\ access[c].day \in Nat
        BY NoteAssumption DEF EarnInv, EarnType, Request, Days
    <2> QED BY <2>1, <2>2, <2>3
<1> QED BY <1>1, EarnInit, EarnStep, PTL DEF NoteSpec

(***************************************************************************)
(* Who does not earn                                                       *)
(*                                                                         *)
(* UnearnedAfterFirst is inductive once every key that is in Redis has its *)
(* owner: an access of that key that earns, or that sent its SET twice.    *)
(***************************************************************************)
Owns(b) == access[b].isEarn \/ b \in remarked

OwnerInv ==
    /\ EarnInv
    /\ \A b \in Accesses : b \in remarked => access[b].pc \notin {"new", "agent"}
    /\ \A key \in marks : \E b \in Accesses : AccessKey(b) = key /\ Owns(b)
    /\ UnearnedAfterFirst

(* At first no key is set.                                                 *)
LEMMA OwnerInit == NoteInit => OwnerInv
<1> SUFFICES ASSUME NoteInit PROVE OwnerInv
    OBVIOUS
<1>1. marks = {} /\ remarked = {} /\ \A a \in Accesses : access[a].pc = "new"
    BY DEF NoteInit
<1> QED BY <1>1, EarnInit DEF OwnerInv, UnearnedAfterFirst

(* An owner stays one, with its key; and only Mark makes an access go on   *)
(* to its LPUSH.                                                           *)
LEMMA OwnersStay ==
    ASSUME OwnerInv, [NoteNext]_vars
    PROVE  /\ \A b \in Accesses : Owns(b) => /\ Owns(b)' /\ AccessKey(b)' = AccessKey(b)
                                            /\ access'[b].day = access[b].day
           /\ \A a \in Accesses :
                 access'[a].pc \in {"push", "done"} /\ ~Mark(a)
                 => /\ access[a].pc \in {"push", "done"}
                    /\ access'[a].isEarn <=> access[a].isEarn
                    /\ access'[a].day = access[a].day
           /\ \A b \in Accesses : b \in remarked' => access'[b].pc \notin {"new", "agent"}
<1> DEFINE Goal ==
        /\ \A b \in Accesses : Owns(b) => Owns(b)' /\ access'[b].day = access[b].day
        /\ \A a \in Accesses :
              access'[a].pc \in {"push", "done"} /\ ~Mark(a)
              => /\ access[a].pc \in {"push", "done"}
                 /\ access'[a].isEarn <=> access[a].isEarn
                 /\ access'[a].day = access[a].day
        /\ \A b \in Accesses : b \in remarked' => access'[b].pc \notin {"new", "agent"}
<1>0. EarnType /\ \A b \in Accesses : Owns(b) => access[b].pc \notin {"new", "agent"}
    BY DEF OwnerInv, EarnInv, EarnPhase, Owns
<1>1. ASSUME NEW a \in Accesses, Arrive(a) PROVE Goal
    <2>1. access[a].pc = "new" /\ remarked' = remarked
        BY <1>1 DEF Arrive, history
    <2> QED BY <1>0, <1>1, <2>1, ArriveWrites DEF Writes, Owns, OwnerInv
<1>2. ASSUME NEW a \in Accesses, InsertNoteAgent(a) PROVE Goal
    <2>1. access[a].pc = "agent" /\ remarked' = remarked
        BY <1>2 DEF InsertNoteAgent, history
    <2> QED BY <1>0, <1>2, <2>1, AgentWrites DEF Writes, Owns, OwnerInv
<1>3. ASSUME NEW a \in Accesses, Mark(a) PROVE Goal
    <2>1. access[a].pc = "mark" /\ remarked' = remarked /\ ~access[a].isEarn
        BY <1>3 DEF Mark, history, OwnerInv, EarnInv, EarnPhase
    <2> QED BY <1>0, <1>3, <2>1, MarkWrites DEF Writes, Owns, OwnerInv
<1>4. ASSUME NEW a \in Accesses, Push(a) PROVE Goal
    <2>1. access[a].pc = "push" /\ remarked' = remarked
        BY <1>4 DEF Push, history
    <2> QED BY <1>0, <1>4, <2>1, PushWrites DEF Writes, Owns, OwnerInv
<1>5. ASSUME NEW a \in Accesses, MarkUnanswered(a) PROVE Goal
    <2>1. access[a].pc = "mark" /\ remarked' = remarked \cup {a} /\ access' = access
        BY <1>5 DEF MarkUnanswered
    <2> QED BY <1>0, <2>1 DEF Owns, OwnerInv
<1>6. ASSUME NEW s \in Servers, ProcessEnds(s) PROVE Goal
    <2>1. remarked' = remarked
        BY <1>6 DEF ProcessEnds
    <2> QED BY <1>0, <1>6, <2>1, EndWrites DEF Owns, OwnerInv
<1>7. ASSUME UNCHANGED <<access, remarked>> PROVE Goal
    BY <1>7 DEF Owns, OwnerInv
<1>8. MarkDropped \/ DayPasses => UNCHANGED <<access, remarked>>
    BY DEF MarkDropped, DayPasses, requestVars, history
<1>9. Goal
    BY <1>0, <1>1, <1>2, <1>3, <1>4, <1>5, <1>6, <1>7, <1>8, EarnSteps
<1> QED BY <1>9 DEF AccessKey

(* A key that is set has an owner at once.                                 *)
LEMMA OwnerStep ==
    ASSUME OwnerInv, [NoteNext]_vars
    PROVE  OwnerInv'
<1> DEFINE Owned(key) == \E b \in Accesses : AccessKey(b) = key /\ Owns(b)
           Kept(key)  == \E b \in Accesses : AccessKey(b)' = key /\ Owns(b)'
<1>0. EarnInv' /\ EarnType
    BY EarnStep DEF OwnerInv, EarnInv
<1>1. \A key : Owned(key) => Kept(key)
    BY OwnersStay
<1>2. \A key \in marks : Owned(key)
    BY DEF OwnerInv
<1>3. ASSUME NEW a \in Accesses, Mark(a)
      PROVE  /\ marks' = marks \cup {AccessKey(a)} /\ Kept(AccessKey(a))
             /\ AccessKey(a)' = AccessKey(a)
    <2>1. marks' = marks \cup {AccessKey(a)}
        BY <1>3 DEF Mark
    <2>2. AccessKey(a)' = AccessKey(a) /\ (AccessKey(a) \notin marks => Owns(a)')
        BY <1>0, <1>3, MarkWrites DEF AccessKey, Owns
    <2> QED BY <1>1, <1>2, <2>1, <2>2
<1>4. ASSUME NEW a \in Accesses, MarkUnanswered(a)
      PROVE  marks' = marks \cup {AccessKey(a)} /\ Kept(AccessKey(a))
    <2>1. /\ marks' = marks \cup {AccessKey(a)} /\ a \in remarked' /\ access' = access
        BY <1>4 DEF MarkUnanswered
    <2> QED BY <2>1 DEF Owns, AccessKey
<1>5. \/ \E a \in Accesses : Mark(a) \/ MarkUnanswered(a)
      \/ marks' \subseteq marks
    <2>1. ASSUME NEW a \in Accesses, Arrive(a) \/ InsertNoteAgent(a) \/ Push(a)
          PROVE  marks' = marks
        BY <2>1 DEF Arrive, InsertNoteAgent, Push
    <2>2. (MarkDropped => marks' \subseteq marks) /\ (DayPasses => marks' = marks)
        BY DEF MarkDropped, DayPasses, requestVars
    <2>3. ASSUME NEW s \in Servers, ProcessEnds(s) PROVE marks' = marks
        BY <2>3 DEF ProcessEnds
    <2> QED BY <1>0, <2>1, <2>2, <2>3, EarnSteps
<1>6. \A key \in marks' : Kept(key)
    BY <1>1, <1>2, <1>3, <1>4, <1>5
<1>7. UnearnedAfterFirst'
    <2> SUFFICES ASSUME NEW a \in Accesses,
                        access'[a].pc \in {"push", "done"}, ~access'[a].isEarn
                 PROVE  Kept(AccessKey(a)')
        BY DEF UnearnedAfterFirst, AccessKey, Owns
    <2>1. CASE Mark(a)
        BY <1>3, <2>1
    <2>2. CASE ~Mark(a)
        <3>1. /\ access[a].pc \in {"push", "done"} /\ ~access[a].isEarn
              /\ AccessKey(a)' = AccessKey(a)
            BY <2>2, OwnersStay DEF AccessKey
        <3>2. Owned(AccessKey(a))
            BY <3>1 DEF OwnerInv, UnearnedAfterFirst, AccessKey, Owns
        <3> QED BY <1>1, <3>1, <3>2
    <2> QED BY <2>1, <2>2
<1>8. \A b \in Accesses : b \in remarked' => access'[b].pc \notin {"new", "agent"}
    BY OwnersStay
<1> QED BY <1>0, <1>6, <1>7, <1>8 DEF OwnerInv

(* An access goes unearned only after another of its address, user and day *)
(* or after an answer to a SET NX that was lost.                           *)
THEOREM UnearnedAfterFirstHolds == NoteSpec => []UnearnedAfterFirst
<1>1. OwnerInv => UnearnedAfterFirst
    BY DEF OwnerInv
<1> QED BY <1>1, OwnerInit, OwnerStep, PTL DEF NoteSpec

(***************************************************************************)
(* User agents                                                             *)
(*                                                                         *)
(* Two facts about the table: the key of trackVisit is written before the  *)
(* row, so a known hash may still lack its row while an INSERT is under    *)
(* way; createAsync awaits its INSERT, so a logged access has its row.     *)
(***************************************************************************)
AgentInv ==
    /\ nextId \in Nat
    /\ seen \in [Visits -> {"new", "insert", "done"}]
    /\ access \in [Accesses -> Request]
    /\ KnownAgentsHaveRows
    /\ LoggedAgentsHaveRows

(* At first no key is set and nothing is logged.                           *)
LEMMA AgentInvInit == NoteInit => AgentInv
<1> SUFFICES ASSUME NoteInit PROVE AgentInv
    OBVIOUS
<1>1. nextId \in Nat /\ known = {} /\ seen \in [Visits -> {"new", "insert", "done"}]
    BY DEF NoteInit, AgentInit
<1>2. EarnInv /\ \A a \in Accesses : access[a].pc = "new"
    BY EarnInit DEF NoteInit
<1> QED BY <1>1, <1>2 DEF AgentInv, EarnInv, EarnType, KnownAgentsHaveRows, LoggedAgentsHaveRows

(* An INSERT that finds an id leaves the row; rows and used ids stay.      *)
LEMMA EnsureEffect ==
    ASSUME nextId \in Nat, NEW h, EnsureUserAgent(h)
    PROVE  /\ nextId' \in Nat
           /\ agents \subseteq agents'
           /\ Exhausted => Exhausted'
           /\ h \in agents' \/ Exhausted'
BY AgentAssumption DEF EnsureUserAgent, Exhausted

(* Every step keeps the invariant.                                         *)
LEMMA AgentInvStep ==
    ASSUME EarnInv, AgentInv, [NoteNext]_vars
    PROVE  AgentInv'
<1>0. /\ EarnType /\ nextId \in Nat
      /\ access' \in [Accesses -> Request]
      /\ KnownAgentsHaveRows /\ LoggedAgentsHaveRows
      /\ seen \in [Visits -> {"new", "insert", "done"}]
    BY EarnStep DEF EarnInv, EarnType, AgentInv
<1> DEFINE Keeps == agents \subseteq agents' /\ (Exhausted => Exhausted') /\ nextId' \in Nat
           Requests == \A a \in Accesses : access'[a].pc \in {"mark", "push", "done"}
                           => \/ access[a].pc \in {"mark", "push", "done"}
                              \/ Given[a].agent \in agents' \/ Exhausted'
           Keys == known' = known /\ seen' = seen /\ missed' = missed
<1>1. ASSUME Keeps, Requests, Keys PROVE AgentInv'
    <2>1. LoggedAgentsHaveRows'
        BY <1>0, <1>1 DEF LoggedAgentsHaveRows
    <2>2. KnownAgentsHaveRows'
        BY <1>0, <1>1 DEF KnownAgentsHaveRows
    <2> QED BY <1>0, <1>1, <2>1, <2>2 DEF AgentInv
<1>2. agents' = agents /\ nextId' = nextId => Keeps
    BY <1>0 DEF Exhausted
<1>3. access' = access => Requests
    OBVIOUS
<1>4. ASSUME NEW a \in Accesses, Arrive(a) PROVE AgentInv'
    <2>1. Keys /\ Keeps
        BY <1>2, <1>4 DEF Arrive, agentVars
    <2>2. Requests
        BY <1>0, <1>4, ArriveWrites DEF Writes
    <2> QED BY <1>1, <2>1, <2>2
<1>5. ASSUME NEW a \in Accesses, InsertNoteAgent(a) PROVE AgentInv'
    <2>1. Keys /\ Keeps
        BY <1>0, <1>5, EnsureEffect DEF InsertNoteAgent
    <2>2. Given[a].agent \in agents' \/ Exhausted'
        BY <1>0, <1>5, EnsureEffect DEF InsertNoteAgent
    <2>3. Requests
        BY <1>0, <1>5, <2>2, AgentWrites DEF Writes
    <2> QED BY <1>1, <2>1, <2>3
<1>6. ASSUME NEW a \in Accesses, Mark(a) PROVE AgentInv'
    <2>1. Keys /\ Keeps /\ access[a].pc = "mark"
        BY <1>2, <1>6 DEF Mark, agentVars
    <2>2. Requests
        BY <1>0, <1>6, <2>1, MarkWrites DEF Writes
    <2> QED BY <1>1, <2>1, <2>2
<1>7. ASSUME NEW a \in Accesses, Push(a) PROVE AgentInv'
    <2>1. Keys /\ Keeps /\ access[a].pc = "push"
        BY <1>2, <1>7 DEF Push, agentVars
    <2>2. Requests
        BY <1>0, <1>7, <2>1, PushWrites DEF Writes
    <2> QED BY <1>1, <2>1, <2>2
<1>8. ASSUME NEW a \in Accesses, PushUnanswered(a) PROVE AgentInv'
    BY <1>1, <1>2, <1>3, <1>8 DEF PushUnanswered, requestVars, agentVars
<1>m. ASSUME MarkDropped \/ \E a \in Accesses : MarkUnanswered(a) PROVE AgentInv'
    BY <1>1, <1>2, <1>3, <1>m, KeyFaultsKeep DEF agentVars
<1>9. ASSUME NEW r \in Runs,
             StartFlush(r) \/ FlushStep(r) \/ PopUnanswered(r) \/ PopFails(r) \/ StatementFails(r)
      PROVE  AgentInv'
    <2>1. access' = access /\ agents' = agents /\ nextId' = nextId /\ Keys
        BY <1>9 DEF StartFlush, FlushStep, Pop, Popped, Insert, CreditBalances, CountLinks,
                    PopUnanswered, PopFails, StatementFails, requestVars, agentVars
    <2> QED BY <1>1, <1>2, <1>3, <2>1
<1>10. ASSUME UNCHANGED vars PROVE AgentInv'
    BY <1>1, <1>2, <1>3, <1>10 DEF vars, requestVars, agentVars
<1>11. ASSUME NEW s \in Servers, ProcessEnds(s) PROVE AgentInv'
    <2> DEFINE D == {v \in Visits : Home[v] = s}
    <2>1. /\ agents' = agents /\ nextId' = nextId /\ known' = known
          /\ seen' = [v \in Visits |-> IF v \in D THEN "done" ELSE seen[v]]
          /\ missed' = missed \cup {AgentOf[v] : v \in {w \in D : seen[w] = "insert"}}
        BY <1>11 DEF ProcessEnds, VisitsDie
    <2>2. Requests
        BY <1>0, <1>11, EndWrites
    <2>3. LoggedAgentsHaveRows'
        BY <1>0, <1>2, <2>1, <2>2 DEF LoggedAgentsHaveRows
    <2>4. ASSUME NEW h \in known PROVE \/ h \in agents' \cup missed' \/ Exhausted'
                                       \/ \E v \in Visits : seen'[v] = "insert" /\ AgentOf[v] = h
        <3>1. CASE h \in agents \cup missed \/ Exhausted
            BY <1>2, <2>1, <3>1
        <3>2. CASE \E v \in Visits : seen[v] = "insert" /\ AgentOf[v] = h
            <4>1. PICK v \in Visits : seen[v] = "insert" /\ AgentOf[v] = h
                BY <3>2
            <4>2. CASE v \in D
                BY <2>1, <4>1, <4>2
            <4>3. CASE v \notin D
                BY <2>1, <4>1, <4>3
            <4> QED BY <4>2, <4>3
        <3> QED BY <1>0, <3>1, <3>2 DEF KnownAgentsHaveRows
    <2>5. KnownAgentsHaveRows'
        BY <2>1, <2>4 DEF KnownAgentsHaveRows
    <2>6. seen' \in [Visits -> {"new", "insert", "done"}]
        BY <1>0, <2>1
    <2> QED BY <1>0, <2>1, <2>3, <2>5, <2>6 DEF AgentInv
<1>12. ASSUME DayPasses PROVE AgentInv'
    <2>1. PICK H \in SUBSET known : AgentKeysExpire(H)
        BY <1>12 DEF DayPasses
    <2>2. /\ access' = access /\ agents' = agents /\ nextId' = nextId
          /\ known' = known \ H /\ seen' = seen /\ missed' = missed
        BY <1>12, <2>1 DEF DayPasses, AgentKeysExpire, requestVars
    <2>3. LoggedAgentsHaveRows' /\ KnownAgentsHaveRows'
        BY <1>0, <2>2 DEF LoggedAgentsHaveRows, KnownAgentsHaveRows, Exhausted
    <2> QED BY <1>0, <2>2, <2>3 DEF AgentInv
<1>13. ASSUME NEW v \in Visits, MarkAgent(v), access' = access PROVE AgentInv'
    <2>1. /\ agents' = agents /\ nextId' = nextId /\ missed' = missed
          /\ known' = known \cup {AgentOf[v]} /\ seen[v] = "new"
        BY <1>13 DEF MarkAgent
    <2>2. seen' = [seen EXCEPT ![v] = IF AgentOf[v] \in known THEN "done" ELSE "insert"]
        BY <1>13 DEF MarkAgent
    <2>3. ASSUME NEW h \in known' PROVE \/ h \in agents' \cup missed' \/ Exhausted'
                                        \/ \E w \in Visits : seen'[w] = "insert" /\ AgentOf[w] = h
        <3>1. CASE h \in known
            BY <1>0, <1>2, <2>1, <2>2, <3>1 DEF KnownAgentsHaveRows
        <3>2. CASE h \notin known
            BY <1>0, <2>1, <2>2, <3>2
        <3> QED BY <3>1, <3>2
    <2>4. KnownAgentsHaveRows'
        BY <2>3 DEF KnownAgentsHaveRows
    <2>5. LoggedAgentsHaveRows'
        BY <1>0, <1>13, <2>1 DEF LoggedAgentsHaveRows, Exhausted
    <2>6. seen' \in [Visits -> {"new", "insert", "done"}]
        BY <1>0, <2>2
    <2> QED BY <1>0, <2>1, <2>4, <2>5, <2>6 DEF AgentInv
<1>14. ASSUME NEW v \in Visits, InsertAgent(v) \/ AgentInsertFails(v) \/ MarkAgentResent(v),
              access' = access
       PROVE  AgentInv'
    <2>1. /\ known' \in {known, known \cup {AgentOf[v]}}
          /\ seen' = [seen EXCEPT ![v] = "done"] /\ missed \subseteq missed'
        BY <1>14 DEF InsertAgent, AgentInsertFails, MarkAgentResent
    <2>2. Keeps /\ (AgentOf[v] \in agents' \cup missed' \/ Exhausted')
        BY <1>0, <1>2, <1>14, EnsureEffect DEF InsertAgent, AgentInsertFails, MarkAgentResent
    <2>3. ASSUME NEW h \in known PROVE \/ h \in agents' \cup missed' \/ Exhausted'
                                       \/ \E w \in Visits : seen'[w] = "insert" /\ AgentOf[w] = h
        <3>1. CASE h \in agents \cup missed \/ Exhausted
            BY <2>1, <2>2, <3>1
        <3>2. CASE \E w \in Visits : seen[w] = "insert" /\ AgentOf[w] = h
            <4>1. PICK w \in Visits : seen[w] = "insert" /\ AgentOf[w] = h
                BY <3>2
            <4>2. CASE w = v
                BY <2>2, <4>1, <4>2
            <4>3. CASE w # v
                BY <1>0, <2>1, <4>1, <4>3
            <4> QED BY <4>2, <4>3
        <3> QED BY <1>0, <3>1, <3>2 DEF KnownAgentsHaveRows
    <2>4. KnownAgentsHaveRows'
        BY <2>1, <2>2, <2>3 DEF KnownAgentsHaveRows
    <2>5. LoggedAgentsHaveRows'
        BY <1>0, <1>14, <2>2 DEF LoggedAgentsHaveRows
    <2>6. seen' \in [Visits -> {"new", "insert", "done"}]
        BY <1>0, <2>1
    <2> QED BY <1>0, <2>1, <2>2, <2>4, <2>5, <2>6 DEF AgentInv
<1>15. CASE AgentStep \/ AgentFault
    <2>1. access' = access
        BY <1>15 DEF AgentStep, AgentFault, requestVars
    <2> QED BY <1>13, <1>14, <1>15, <2>1 DEF AgentStep, AgentFault
<1> QED BY <1>4, <1>5, <1>6, <1>7, <1>8, <1>m, <1>9, <1>10, <1>11, <1>12, <1>15 DEF NoteNext

(* A hash that Redis says is known has its row, or an INSERT under way,    *)
(* unless the visit that set the key did not insert or no id was left.     *)
THEOREM KnownAgentsHaveRowsHolds == NoteSpec => []KnownAgentsHaveRows
<1>1. AgentInv => KnownAgentsHaveRows
    BY DEF AgentInv
<1> QED BY <1>1, EarnInit, EarnStep, AgentInvInit, AgentInvStep, PTL DEF NoteSpec

(* The user agent of a logged access is in user_agents while there are ids.*)
THEOREM LoggedAgentsHaveRowsHolds == NoteSpec => []LoggedAgentsHaveRows
<1>1. AgentInv => LoggedAgentsHaveRows
    BY DEF AgentInv
<1> QED BY <1>1, EarnInit, EarnStep, AgentInvInit, AgentInvStep, PTL DEF NoteSpec

(***************************************************************************)
(* Sums over the entries of a list                                         *)
(***************************************************************************)
Values == [Accesses -> Int]

(* The sum is one over the places of the list.                             *)
LEMMA OverPlaces ==
    ASSUME NEW s \in Seq(Accesses), NEW v \in Values
    PROVE  /\ SumOver(s, v) = SumFunctionOnSet([i \in 1..Len(s) |-> v[s[i]]], 1..Len(s))
           /\ IsFiniteSet(1..Len(s))
           /\ \A i \in 1..Len(s) : s[i] \in Accesses /\ v[s[i]] \in Int
           /\ SumOver(s, v) \in Int
<1>1. Len(s) \in Nat /\ DOMAIN s = 1..Len(s) /\ \A i \in 1..Len(s) : s[i] \in Accesses
    OBVIOUS
<1>2. IsFiniteSet(1..Len(s))
    BY <1>1, FS_Interval
<1>3. \A i \in 1..Len(s) : v[s[i]] \in Int
    BY <1>1 DEF Values
<1> DEFINE F == [i \in 1..Len(s) |-> v[s[i]]]
<1>4. SumOver(s, v) = SumFunctionOnSet(F, 1..Len(s))
    BY <1>1 DEF SumOver, SumFunction
<1>5. \A i \in 1..Len(s) : F[i] \in Int
    BY <1>3
<1>6. SumFunctionOnSet(F, 1..Len(s)) \in Int
  <2> HIDE DEF F
  <2> QED BY <1>2, <1>5, SumInt
<1> QED BY <1>1, <1>2, <1>3, <1>4, <1>6

(* An empty list adds up to nothing.                                       *)
LEMMA OverEmpty == \A v \in Values : SumOver(<<>>, v) = 0
<1> SUFFICES ASSUME NEW v \in Values PROVE SumOver(<<>>, v) = 0
    OBVIOUS
<1>1. SumOver(<<>>, v) = SumFunctionOnSet([i \in {} |-> v[<<>>[i]]], {})
    BY DEF SumOver, SumFunction
<1> QED BY <1>1, SumEmpty

(* A list that grows at the end.                                           *)
LEMMA OverAppend ==
    ASSUME NEW s \in Seq(Accesses), NEW x \in Accesses, NEW v \in Values
    PROVE  SumOver(Append(s, x), v) = SumOver(s, v) + v[x]
<1> DEFINE n == Len(s)
           t == Append(s, x)
           F == [i \in 1..n |-> v[s[i]]]
           G == [i \in 1..(n + 1) |-> v[t[i]]]
<1>1. t \in Seq(Accesses) /\ Len(t) = n + 1 /\ n \in Nat
    OBVIOUS
<1>2. /\ SumOver(s, v) = SumFunctionOnSet(F, 1..n)
      /\ SumOver(t, v) = SumFunctionOnSet(G, 1..(n + 1))
    BY <1>1, OverPlaces
<1>3. t[n + 1] = x /\ \A i \in 1..n : t[i] = s[i]
    OBVIOUS
<1>4. \A i \in 1..n : F[i] \in Int /\ F[i] = G[i]
  <2>1. \A i \in 1..n : v[s[i]] \in Int
      BY OverPlaces
  <2>2. \A i \in 1..n : i \in 1..(n + 1)
      BY <1>1
  <2> QED BY <1>3, <2>1, <2>2
<1>5. G[n + 1] = v[x] /\ v[x] \in Int
    BY <1>1, <1>3 DEF Values
<1>6. IsFiniteSet(1..n) /\ n + 1 \notin 1..n /\ 1..(n + 1) = (1..n) \cup {n + 1}
  <2>1. IsFiniteSet(1..n)
      BY OverPlaces
  <2>2. n + 1 \notin 1..n /\ 1..(n + 1) = (1..n) \cup {n + 1}
      BY <1>1
  <2> QED BY <2>1, <2>2
<1> HIDE DEF n, t, F, G
<1>7. SumFunctionOnSet(F, 1..n) = SumFunctionOnSet(G, 1..n)
    BY <1>4, <1>6, SumSame
<1>8. SumFunctionOnSet(G, 1..(n + 1)) = SumFunctionOnSet(G, 1..n) + G[n + 1]
  <2>1. \A i \in (1..n) \cup {n + 1} : G[i] \in Int
      BY <1>4, <1>5
  <2> DEFINE S == 1..n
             e == n + 1
  <2>2. IsFiniteSet(S) /\ e \notin S /\ \A i \in S \cup {e} : G[i] \in Int
      BY <1>6, <2>1
  <2> HIDE DEF S, e
  <2>3. SumFunctionOnSet(G, S \cup {e}) = SumFunctionOnSet(G, S) + G[e]
      BY <2>2, SumGrows
  <2> QED BY <1>6, <2>3 DEF S, e
<1> QED BY <1>2, <1>5, <1>7, <1>8 DEF t

(* A list that grows at the head.                                          *)
LEMMA OverPush ==
    ASSUME NEW s \in Seq(Accesses), NEW x \in Accesses, NEW v \in Values
    PROVE  SumOver(<<x>> \o s, v) = SumOver(s, v) + v[x]
<1> DEFINE Good == {t \in Seq(Accesses) : SumOver(<<x>> \o t, v) = SumOver(t, v) + v[x]}
<1>0. v[x] \in Int
    BY DEF Values
<1>1. <<>> \in Good
  <2>1. <<x>> \o <<>> = Append(<<>>, x) /\ <<>> \in Seq(Accesses)
      OBVIOUS
  <2>2. SumOver(Append(<<>>, x), v) = SumOver(<<>>, v) + v[x]
      BY <2>1, OverAppend
  <2> QED BY <2>1, <2>2
<1>2. ASSUME NEW t \in Seq(Accesses), t \in Good, NEW y \in Accesses
      PROVE  Append(t, y) \in Good
  <2>1. /\ Append(t, y) \in Seq(Accesses) /\ <<x>> \o t \in Seq(Accesses)
        /\ <<x>> \o Append(t, y) = Append(<<x>> \o t, y)
      OBVIOUS
  <2>2. SumOver(Append(<<x>> \o t, y), v) = SumOver(<<x>> \o t, v) + v[y]
      BY <2>1, OverAppend
  <2>3. SumOver(Append(t, y), v) = SumOver(t, v) + v[y]
      BY OverAppend
  <2>4. SumOver(<<x>> \o t, v) = SumOver(t, v) + v[x]
      BY <1>2
  <2>5. SumOver(t, v) \in Int /\ v[y] \in Int
      BY OverPlaces DEF Values
  <2>6. (SumOver(t, v) + v[x]) + v[y] = (SumOver(t, v) + v[y]) + v[x]
      BY <1>0, <2>5
  <2> QED BY <2>1, <2>2, <2>3, <2>4, <2>6
<1>3. Seq(Accesses) \subseteq Good
  <2> HIDE DEF Good
  <2> QED BY <1>1, <1>2, SequenceGrows
<1> QED BY <1>3

(* A list from which the last element is popped.                           *)
LEMMA OverPop ==
    ASSUME NEW s \in Seq(Accesses), s # <<>>, NEW v \in Values
    PROVE  /\ s[Len(s)] \in Accesses /\ SubSeq(s, 1, Len(s) - 1) \in Seq(Accesses)
           /\ SumOver(s, v) = SumOver(SubSeq(s, 1, Len(s) - 1), v) + v[s[Len(s)]]
<1> DEFINE t == SubSeq(s, 1, Len(s) - 1)
<1>1. s[Len(s)] \in Accesses /\ t \in Seq(Accesses) /\ s = Append(t, s[Len(s)])
    BY PopLast
<1> HIDE DEF t
<1>2. SumOver(Append(t, s[Len(s)]), v) = SumOver(t, v) + v[s[Len(s)]]
    BY <1>1, OverAppend
<1> QED BY <1>1, <1>2 DEF t

One(a) == [b \in Accesses |-> IF b = a THEN 1 ELSE 0]

(* How often an access is in a list.                                       *)
LEMMA TimesOf ==
    ASSUME NEW a \in Accesses, NEW s \in Seq(Accesses)
    PROVE  /\ Times(a, s) \in Nat
           /\ Times(a, s) = 0 <=> a \notin {s[i] : i \in DOMAIN s}
           /\ Times(a, <<>>) = 0
           /\ \A x \in Accesses :
                 /\ Times(a, Append(s, x)) = Times(a, s) + (IF x = a THEN 1 ELSE 0)
                 /\ Times(a, <<x>> \o s) = Times(a, s) + (IF x = a THEN 1 ELSE 0)
           /\ s # <<>> => Times(a, s) = Times(a, SubSeq(s, 1, Len(s) - 1))
                                          + (IF s[Len(s)] = a THEN 1 ELSE 0)
<1>1. One(a) \in Values /\ \A t : Times(a, t) = SumOver(t, One(a))
    BY DEF One, Values, Times
<1>2. \A x \in Accesses : One(a)[x] = IF x = a THEN 1 ELSE 0
    BY DEF One
<1> DEFINE F == [i \in 1..Len(s) |-> One(a)[s[i]]]
           D == 1..Len(s)
<1>3. /\ Times(a, s) = SumFunctionOnSet(F, D) /\ IsFiniteSet(D)
      /\ \A i \in D : s[i] \in Accesses
    BY <1>1, OverPlaces
<1>4. \A i \in D : F[i] = IF s[i] = a THEN 1 ELSE 0
    BY <1>2, <1>3
<1>5. D = DOMAIN s
    OBVIOUS
<1> HIDE DEF F, D
<1>6. Times(a, s) \in Nat /\ \A i \in D : F[i] <= Times(a, s)
    BY <1>3, <1>4, SumNat
<1>7. a \in {s[i] : i \in D} => Times(a, s) # 0
    BY <1>4, <1>6
<1>8. a \notin {s[i] : i \in D} => Times(a, s) = 0
    BY <1>3, <1>4, SumZero
<1>9. Times(a, <<>>) = 0
    BY <1>1, OverEmpty
<1>10. ASSUME NEW x \in Accesses
       PROVE  /\ Times(a, Append(s, x)) = Times(a, s) + (IF x = a THEN 1 ELSE 0)
              /\ Times(a, <<x>> \o s) = Times(a, s) + (IF x = a THEN 1 ELSE 0)
    BY <1>1, <1>2, OverAppend, OverPush
<1>11. s # <<>> => Times(a, s) = Times(a, SubSeq(s, 1, Len(s) - 1))
                                   + (IF s[Len(s)] = a THEN 1 ELSE 0)
  <2> SUFFICES ASSUME s # <<>>
               PROVE  Times(a, s) = Times(a, SubSeq(s, 1, Len(s) - 1))
                                      + (IF s[Len(s)] = a THEN 1 ELSE 0)
      OBVIOUS
  <2>1. /\ s[Len(s)] \in Accesses
        /\ SumOver(s, One(a)) = SumOver(SubSeq(s, 1, Len(s) - 1), One(a)) + One(a)[s[Len(s)]]
      BY <1>1, OverPop
  <2> QED BY <1>1, <1>2, <2>1
<1> QED BY <1>5, <1>6, <1>7, <1>8, <1>9, <1>10, <1>11

(* An access that is added to a list is counted.                           *)
LEMMA TimesGrow ==
    ASSUME NEW a \in Accesses, NEW s \in Seq(Accesses), NEW x \in Accesses
    PROVE  /\ Times(a, s) \in Nat
           /\ Times(a, Append(s, x)) = Times(a, s) + (IF x = a THEN 1 ELSE 0)
<1>1. One(a) \in Values /\ \A t : Times(a, t) = SumOver(t, One(a))
    BY DEF One, Values, Times
<1>2. One(a)[x] = IF x = a THEN 1 ELSE 0
    BY DEF One
<1>3. Times(a, s) \in Nat
    BY TimesOf
<1>4. SumOver(Append(s, x), One(a)) = SumOver(s, One(a)) + One(a)[x]
    BY <1>1, OverAppend
<1> QED BY <1>1, <1>2, <1>3, <1>4

(* A sum over a list counts the value of each access as often as it is in  *)
(* the list.                                                               *)
LEMMA OverCounts ==
    ASSUME NEW s \in Seq(Accesses), NEW v \in Values
    PROVE  SumOver(s, v) = SumFunctionOnSet([a \in Accesses |-> v[a] * Times(a, s)], Accesses)
<1> DEFINE F(t) == [a \in Accesses |-> v[a] * Times(a, t)]
           Good == {t \in Seq(Accesses) : SumOver(t, v) = SumFunctionOnSet(F(t), Accesses)}
<1>0. IsFiniteSet(Accesses) /\ \A a \in Accesses : v[a] \in Int
    BY NoteAssumption DEF Values
<1>1. <<>> \in Good
  <2>1. \A a \in Accesses : F(<<>>)[a] = 0
      BY <1>0, TimesOf
  <2>2. SumFunctionOnSet(F(<<>>), Accesses) = 0
    <3> HIDE DEF F
    <3> QED BY <1>0, <2>1, SumZero
  <2> QED BY <2>2, OverEmpty
<1>2. ASSUME NEW t \in Seq(Accesses), t \in Good, NEW x \in Accesses
      PROVE  Append(t, x) \in Good
  <2> DEFINE u == Append(t, x)
             D == [a \in Accesses |-> IF a = x THEN v[a] ELSE 0]
  <2>1. SumOver(u, v) = SumOver(t, v) + v[x]
      BY OverAppend
  <2>2. ASSUME NEW a \in Accesses
        PROVE  F(t)[a] \in Int /\ D[a] \in Int /\ F(u)[a] = F(t)[a] + D[a]
    <3>1. PICK n \in Nat : n = Times(a, t)
        BY TimesGrow
    <3>2. Times(a, u) = Times(a, t) + (IF x = a THEN 1 ELSE 0)
        BY TimesGrow
    <3>3. PICK m \in Nat : m = Times(a, u) /\ m = n + (IF x = a THEN 1 ELSE 0)
        BY <3>1, <3>2
    <3>4. PICK c \in Int : c = v[a]
        BY <1>0
    <3>5. c * n \in Int /\ c * (n + 1) = c * n + c /\ c * (n + 0) = c * n
        OBVIOUS
    <3>6. F(t)[a] = c * n /\ F(u)[a] = c * m /\ D[a] = IF a = x THEN c ELSE 0
        BY <3>1, <3>3, <3>4
    <3> HIDE DEF F, D, u
    <3>7. CASE a = x
        BY <3>3, <3>5, <3>6, <3>7
    <3>8. CASE a # x
        BY <3>3, <3>5, <3>6, <3>8
    <3> QED BY <3>7, <3>8
  <2>3. D[x] = v[x] /\ D[x] \in Int /\ \A a \in Accesses \ {x} : D[a] = 0
      BY <1>0
  <2> HIDE DEF F, D
  <2>4. SumFunctionOnSet(F(u), Accesses) = SumFunctionOnSet(F(t), Accesses) + SumFunctionOnSet(D, Accesses)
      BY <1>0, <2>2, SumAdds
  <2>5. SumFunctionOnSet(D, Accesses) = v[x]
      BY <1>0, <2>3, SumOfOne
  <2>6. u \in Seq(Accesses)
      OBVIOUS
  <2> QED BY <1>2, <2>1, <2>4, <2>5, <2>6
<1>3. Seq(Accesses) \subseteq Good
  <2> HIDE DEF Good
  <2> QED BY <1>1, <1>2, SequenceGrows
<1> QED BY <1>3

(***************************************************************************)
(* Amounts of accesses and batches                                         *)
(***************************************************************************)
(* A text that is cut is an integer, and its scaled integer is exact.      *)
LEMMA TextsAreCut ==
    ASSUME NEW t \in Texts
    PROVE  CutToScale(t) \in Int /\ ToScaledInt(t) = CutToScale(t)
<1>1. /\ t.numeric \in BOOLEAN /\ t.negative \in BOOLEAN
      /\ t.int \in Nat /\ t.frac \in Nat
    BY AmountAssumption DEF Texts
<1>2. t.int * Unit + t.frac \div Fine \in Int
    BY <1>1, AmountAssumption
<1>3. ToScaledInt(t) \in Int
    BY <1>2 DEF ToScaledInt, Signed
<1> QED BY <1>3, ScaledIntIsCut

(* The revenue of an access is a text.                                     *)
LEMMA RevenueIsText ==
    ASSUME NEW a \in Accesses
    PROVE  /\ RevenueOf(a) \in Texts /\ RevenueOf(a)' \in Texts
           /\ Scaled(a) = CutToScale(RevenueOf(a))
<1>1. Zero \in Texts
    BY AmountAssumption DEF Zero, Texts
<1>2. RevenueOf(a) \in Texts /\ RevenueOf(a)' \in Texts
    BY <1>1, NoteAssumption DEF RevenueOf
<1> QED BY <1>2, TextsAreCut DEF Scaled

(* How often an access is in the batches of the runs D, and in those of    *)
(* the runs at one of pcs, when the runs are rn.                           *)
BatchesIn(rn, a, D) == SumFunctionOnSet([r \in Runs |-> Times(a, rn[r].batch)], D)

At(rn, pcs) == {r \in Runs : rn[r].pc \in pcs}

Held(rn, a, pcs) == BatchesIn(rn, a, At(rn, pcs))

Part(rn, a, r, pcs) == IF rn[r].pc \in pcs THEN Times(a, rn[r].batch) ELSE 0

RunStates == [Runs -> FlushRun]

(* How often an access is in the batches is a count over the runs, before  *)
(* and after a step.                                                       *)
LEMMA InBatchIsHeld ==
    \A a \in Accesses : \A pcs :
        InBatch(a, pcs) = Held(run, a, pcs) /\ InBatch(a, pcs)' = Held(run', a, pcs)
BY DEF InBatch, InBatches, Held, BatchesIn, At

(* An access is a number of times in batches.                              *)
LEMMA BatchesInOf ==
    ASSUME NEW rn \in RunStates, NEW a \in Accesses, NEW D \in SUBSET Runs
    PROVE  /\ IsFiniteSet(D)
           /\ \A r \in Runs : Times(a, rn[r].batch) \in Nat
           /\ BatchesIn(rn, a, D) \in Nat
           /\ \A r \in D : Times(a, rn[r].batch) <= BatchesIn(rn, a, D)
           /\ BatchesIn(rn, a, D) > 0 => \E r \in D : Times(a, rn[r].batch) > 0
<1> DEFINE F == [r \in Runs |-> Times(a, rn[r].batch)]
<1>1. \A r \in Runs : rn[r].batch \in Seq(Accesses)
    BY DEF RunStates, FlushRun
<1>2. \A r \in Runs : Times(a, rn[r].batch) \in Nat
    BY <1>1, TimesOf
<1>3. IsFiniteSet(D)
    BY NoteAssumption, FS_Subset
<1>4. \A r \in D : F[r] \in Nat /\ F[r] = Times(a, rn[r].batch)
    BY <1>2
<1>5. BatchesIn(rn, a, D) = SumFunctionOnSet(F, D)
    BY DEF BatchesIn
<1> HIDE DEF F
<1>6. SumFunctionOnSet(F, D) \in Nat /\ \A r \in D : F[r] <= SumFunctionOnSet(F, D)
    BY <1>3, <1>4, SumNat
<1>7. (\A r \in D : F[r] = 0) => SumFunctionOnSet(F, D) = 0
    BY <1>3, SumZero
<1>8. BatchesIn(rn, a, D) > 0 => \E r \in D : Times(a, rn[r].batch) > 0
    BY <1>4, <1>5, <1>6, <1>7
<1> QED BY <1>2, <1>3, <1>4, <1>5, <1>6, <1>8

(* A batch is counted once per run.                                        *)
LEMMA HeldParts ==
    ASSUME NEW rn \in RunStates, NEW a \in Accesses, NEW pcs
    PROVE  /\ Held(rn, a, pcs) = SumFunctionOnSet([r \in Runs |-> Part(rn, a, r, pcs)], Runs)
           /\ Held(rn, a, pcs) \in Nat
           /\ \A r \in Runs : Part(rn, a, r, pcs) \in Nat /\ Part(rn, a, r, pcs) <= Held(rn, a, pcs)
           /\ Held(rn, a, pcs) > 0 => \E r \in Runs : Part(rn, a, r, pcs) > 0
<1> DEFINE F == [r \in Runs |-> Times(a, rn[r].batch)]
           T == At(rn, pcs)
<1>1. T \in SUBSET Runs /\ IsFiniteSet(Runs)
    BY NoteAssumption DEF At
<1>2. \A r \in T : F[r] \in Int
    BY <1>1, BatchesInOf
<1>3. Held(rn, a, pcs) = SumFunctionOnSet(F, T)
    BY DEF Held, BatchesIn
<1>4. [r \in Runs |-> IF r \in T THEN F[r] ELSE 0] = [r \in Runs |-> Part(rn, a, r, pcs)]
    BY DEF At, Part
<1>5. /\ Held(rn, a, pcs) \in Nat
      /\ \A r \in Runs : Part(rn, a, r, pcs) \in Nat /\ Part(rn, a, r, pcs) <= Held(rn, a, pcs)
  <2>1. /\ BatchesIn(rn, a, T) \in Nat
        /\ \A r \in T : Times(a, rn[r].batch) <= BatchesIn(rn, a, T)
        /\ \A r \in Runs : Times(a, rn[r].batch) \in Nat
    <3> HIDE DEF T
    <3> QED BY <1>1, BatchesInOf
  <2>2. Held(rn, a, pcs) = BatchesIn(rn, a, T)
      BY DEF Held
  <2>3. \A r \in Runs : r \in T <=> rn[r].pc \in pcs
      BY DEF At
  <2> HIDE DEF T
  <2>4. ASSUME NEW r \in Runs
        PROVE  Part(rn, a, r, pcs) \in Nat /\ Part(rn, a, r, pcs) <= Held(rn, a, pcs)
    <3>1. CASE rn[r].pc \in pcs
        BY <2>1, <2>2, <2>3, <3>1 DEF Part
    <3>2. CASE rn[r].pc \notin pcs
        BY <2>1, <2>2, <3>2 DEF Part
    <3> QED BY <3>1, <3>2
  <2> QED BY <2>1, <2>2, <2>4
<1>8. Held(rn, a, pcs) > 0 => \E r \in Runs : Part(rn, a, r, pcs) > 0
  <2>1. BatchesIn(rn, a, T) > 0 => \E r \in T : Times(a, rn[r].batch) > 0
    <3> HIDE DEF T
    <3> QED BY <1>1, BatchesInOf
  <2> QED BY <2>1 DEF At, Held, Part
<1> HIDE DEF F, T
<1>6. SumFunctionOnSet(F, T) = SumFunctionOnSet([r \in Runs |-> IF r \in T THEN F[r] ELSE 0], Runs)
    BY <1>1, <1>2, SumWithin
<1> QED BY <1>3, <1>4, <1>5, <1>6, <1>8

(* One run goes on, from rn to sn.                                         *)
LEMMA RunGoesOn ==
    ASSUME NEW rn \in RunStates, NEW sn \in RunStates, NEW a \in Accesses, NEW pcs,
           NEW r \in Runs, \A q \in Runs \ {r} : sn[q] = rn[q]
    PROVE  /\ Part(rn, a, r, pcs) \in Nat /\ Part(sn, a, r, pcs) \in Nat
           /\ Held(rn, a, pcs) \in Nat
           /\ Held(sn, a, pcs) = Held(rn, a, pcs) - Part(rn, a, r, pcs) + Part(sn, a, r, pcs)
<1> DEFINE F == [q \in Runs |-> Part(rn, a, q, pcs)]
           G == [q \in Runs |-> Part(sn, a, q, pcs)]
<1>1. Held(rn, a, pcs) = SumFunctionOnSet(F, Runs) /\ Held(sn, a, pcs) = SumFunctionOnSet(G, Runs)
    BY HeldParts
<1>2. IsFiniteSet(Runs) /\ IsFiniteSet(Runs \ {r})
    BY NoteAssumption, FS_RemoveElement
<1>3. \A q \in Runs : F[q] \in Nat /\ G[q] \in Nat
    BY HeldParts
<1>4. \A q \in Runs \ {r} : F[q] = G[q]
    BY DEF Part
<1>5. F[r] = Part(rn, a, r, pcs) /\ G[r] = Part(sn, a, r, pcs) /\ Held(rn, a, pcs) \in Nat
    BY HeldParts
<1> HIDE DEF F, G
<1>6. \A q \in Runs : F[q] \in Int /\ G[q] \in Int
    BY <1>3
<1>7. SumFunctionOnSet(F, Runs) = F[r] + SumFunctionOnSet(F, Runs \ {r})
    BY <1>2, <1>6, SumTakenOut
<1>8. SumFunctionOnSet(G, Runs) = G[r] + SumFunctionOnSet(G, Runs \ {r})
    BY <1>2, <1>6, SumTakenOut
<1>9. SumFunctionOnSet(F, Runs \ {r}) = SumFunctionOnSet(G, Runs \ {r})
    BY <1>2, <1>4, <1>6, SumSame
<1>10. SumFunctionOnSet(F, Runs \ {r}) \in Int
    BY <1>2, <1>6, SumInt
<1> QED BY <1>1, <1>3, <1>5, <1>7, <1>8, <1>9, <1>10

(* The runs D end: what they had in their batches is in no batch any more. *)
LEMMA RunsEnd ==
    ASSUME NEW rn \in RunStates, NEW sn \in RunStates, NEW a \in Accesses, NEW pcs,
           "idle" \notin pcs, NEW D \in SUBSET Runs,
           \A q \in D : sn[q] = Idle, \A q \in Runs \ D : sn[q] = rn[q]
    PROVE  /\ BatchesIn(rn, a, {q \in D : rn[q].pc \in pcs}) \in Nat
           /\ Held(rn, a, pcs) \in Nat
           /\ Held(sn, a, pcs) = Held(rn, a, pcs) - BatchesIn(rn, a, {q \in D : rn[q].pc \in pcs})
<1> DEFINE E == {q \in D : rn[q].pc \in pcs}
           S == At(sn, pcs)
           F == [r \in Runs |-> Times(a, rn[r].batch)]
           G == [r \in Runs |-> Times(a, sn[r].batch)]
<1>1. /\ E \in SUBSET Runs /\ S \in SUBSET Runs /\ E \cap S = {} /\ S \cup E = At(rn, pcs)
      /\ \A q \in S : sn[q] = rn[q]
    BY DEF At, Idle
<1>2. /\ Held(rn, a, pcs) = SumFunctionOnSet(F, At(rn, pcs))
      /\ Held(sn, a, pcs) = SumFunctionOnSet(G, S)
      /\ BatchesIn(rn, a, E) = SumFunctionOnSet(F, E)
    BY DEF Held, BatchesIn
<1>3. \A q \in Runs : F[q] \in Nat /\ G[q] \in Nat
    BY BatchesInOf
<1>4. \A q \in S : F[q] = G[q]
    BY <1>1
<1>5. Held(rn, a, pcs) \in Nat
    BY HeldParts
<1> HIDE DEF E, S, F, G
<1>6. IsFiniteSet(E) /\ IsFiniteSet(S) /\ BatchesIn(rn, a, E) \in Nat
    BY <1>1, BatchesInOf
<1>7. \A q \in S \cup E : F[q] \in Int
    BY <1>1, <1>3
<1>8. SumFunctionOnSet(F, S \cup E) = SumFunctionOnSet(F, S) + SumFunctionOnSet(F, E)
    BY <1>1, <1>6, <1>7, SumUnion
<1>9. SumFunctionOnSet(F, S) = SumFunctionOnSet(G, S)
    BY <1>4, <1>6, <1>7, SumSame
<1>10. SumFunctionOnSet(F, S) \in Int /\ SumFunctionOnSet(F, E) \in Int
    BY <1>6, <1>7, SumInt
<1>11. Held(rn, a, pcs) = SumFunctionOnSet(G, S) + BatchesIn(rn, a, E)
    BY <1>1, <1>2, <1>8, <1>9
<1>12. SumFunctionOnSet(G, S) \in Int
    BY <1>9, <1>10
<1>13. Held(sn, a, pcs) = Held(rn, a, pcs) - BatchesIn(rn, a, E)
    BY <1>2, <1>6, <1>11, <1>12
<1> QED BY <1>5, <1>6, <1>13 DEF E

(***************************************************************************)
(* The list and the runs                                                   *)
(***************************************************************************)
QueueInv ==
    /\ queue \in Seq(Accesses)
    /\ run \in RunStates
    /\ \A r \in Runs : run[r].pc = "idle" => run[r].batch = <<>>

RunMoves(r, pc, batch) ==
    /\ run' \in RunStates
    /\ run'[r].pc = pc /\ run'[r].batch = batch
    /\ \A q \in Runs \ {r} : run'[q] = run[q]

(* A run that is written has the state that is written.                    *)
LEMMA WrittenMoves ==
    ASSUME QueueInv, NEW r \in Runs, NEW s \in FlushRun, run' = [run EXCEPT ![r] = s]
    PROVE  RunMoves(r, s.pc, s.batch)
BY DEF QueueInv, RunStates, RunMoves

(* A run that ends has nothing left.                                       *)
LEMMA EndsMoves ==
    ASSUME QueueInv, NEW r \in Runs, Ends(r)
    PROVE  RunMoves(r, "idle", <<>>) /\ run'[r] = Idle
<1>1. Idle \in FlushRun /\ Idle.pc = "idle" /\ Idle.batch = <<>>
    BY NoteAssumption DEF Idle, FlushRun
<1>2. run' = [run EXCEPT ![r] = Idle]
    BY DEF Ends
<1>3. RunMoves(r, Idle.pc, Idle.batch)
    BY <1>1, <1>2, WrittenMoves
<1>4. run'[r] = Idle
    BY <1>2 DEF QueueInv, RunStates
<1> QED BY <1>1, <1>3, <1>4

(* A run goes on to another statement.                                     *)
LEMMA NextMoves ==
    ASSUME QueueInv, NEW r \in Runs, NEW pc \in {"insert", "balances", "links"},
           run' = [run EXCEPT ![r].pc = pc]
    PROVE  RunMoves(r, pc, run[r].batch)
<1> DEFINE s == [run[r] EXCEPT !.pc = pc]
<1>1. run[r] \in FlushRun
    BY DEF QueueInv, RunStates
<1>2. s \in FlushRun /\ s.pc = pc /\ s.batch = run[r].batch
    BY <1>1 DEF FlushRun
<1>3. run' = [run EXCEPT ![r] = s]
    OBVIOUS
<1> HIDE DEF s
<1> QED BY <1>2, <1>3, WrittenMoves

(* A run starts with nothing in its batch.                                 *)
LEMMA StartMoves ==
    ASSUME QueueInv, NEW r \in Runs, StartFlush(r)
    PROVE  /\ RunMoves(r, "pop", run[r].batch)
           /\ run[r].pc = "idle" /\ run[r].batch = <<>> /\ queue' = queue
<1> DEFINE s == [run[r] EXCEPT !.pc = "pop", !.left = BatchSize]
<1>1. run[r] \in FlushRun /\ run[r].pc = "idle"
    BY DEF QueueInv, RunStates, StartFlush
<1>0. BatchSize \in 0..BatchSize
    BY NoteAssumption
<1>2. s \in FlushRun /\ s.pc = "pop" /\ s.batch = run[r].batch
    BY <1>0, <1>1 DEF FlushRun
<1>3. run' = [run EXCEPT ![r] = s] /\ queue' = queue
    BY DEF StartFlush
<1> HIDE DEF s
<1>4. RunMoves(r, s.pc, s.batch)
    BY <1>2, <1>3, WrittenMoves
<1> QED BY <1>1, <1>2, <1>3, <1>4 DEF QueueInv

(* An RPOP without an entry leaves the batch.                              *)
LEMMA LeftMoves ==
    ASSUME QueueInv, NEW r \in Runs, run[r].pc = "pop", run[r].left > 0,
           run' = [run EXCEPT ![r].left = @ - 1]
    PROVE  RunMoves(r, "pop", run[r].batch)
<1> DEFINE s == [run[r] EXCEPT !.left = run[r].left - 1]
<1>1. run[r] \in FlushRun /\ run[r].left - 1 \in 0..BatchSize
    BY NoteAssumption DEF QueueInv, RunStates, FlushRun
<1>2. s \in FlushRun /\ s.pc = "pop" /\ s.batch = run[r].batch
    BY <1>1 DEF FlushRun
<1>3. run' = [run EXCEPT ![r] = s]
    OBVIOUS
<1> HIDE DEF s
<1> QED BY <1>2, <1>3, WrittenMoves

(* An RPOP takes the last entry of the list, or finds none.                *)
LEMMA PopMoves ==
    ASSUME QueueInv, NEW r \in Runs, Pop(r)
    PROVE  /\ run[r].pc = "pop"
           /\ \/ /\ queue # <<>>
                 /\ RunMoves(r, "pop", Append(run[r].batch, queue[Len(queue)]))
                 /\ queue' = SubSeq(queue, 1, Len(queue) - 1)
              \/ RunMoves(r, "pop", run[r].batch) /\ queue' = queue
<1>1. /\ run[r] \in FlushRun /\ run[r].pc = "pop" /\ run[r].left > 0
      /\ run[r].left - 1 \in 0..BatchSize
    BY NoteAssumption DEF QueueInv, RunStates, FlushRun, Pop
<1>2. ASSUME queue # <<>>, queue' = SubSeq(queue, 1, Len(queue) - 1),
             run' = [run EXCEPT ![r].left = @ - 1, ![r].batch = Append(@, queue[Len(queue)])]
      PROVE  RunMoves(r, "pop", Append(run[r].batch, queue[Len(queue)]))
  <2> DEFINE b == Append(run[r].batch, queue[Len(queue)])
             s == [run[r] EXCEPT !.left = run[r].left - 1, !.batch = b]
  <2>1. queue[Len(queue)] \in Accesses /\ run[r].batch \in Seq(Accesses)
      BY <1>1, <1>2, OverPop DEF QueueInv, FlushRun
  <2>2. b \in Seq(Accesses)
      BY <2>1
  <2>3. run' = [run EXCEPT ![r] = s]
      BY <1>2
  <2> HIDE DEF b
  <2>4. s \in FlushRun /\ s.pc = "pop" /\ s.batch = b
      BY <1>1, <2>2 DEF FlushRun
  <2> HIDE DEF s
  <2>5. RunMoves(r, "pop", b)
      BY <2>3, <2>4, WrittenMoves
  <2> QED BY <2>5 DEF b
<1>3. ASSUME run' = [run EXCEPT ![r].left = @ - 1]
      PROVE  RunMoves(r, "pop", run[r].batch)
    BY <1>1, <1>3, LeftMoves
<1> QED BY <1>1, <1>2, <1>3 DEF Pop

(* A run with an empty batch ends, the others insert.                      *)
LEMMA PoppedMoves ==
    ASSUME QueueInv, NEW r \in Runs, Popped(r)
    PROVE  /\ run[r].pc = "pop" /\ queue' = queue
           /\ \/ run[r].batch = <<>> /\ RunMoves(r, "idle", <<>>)
              \/ RunMoves(r, "insert", run[r].batch)
BY EndsMoves, NextMoves DEF Popped

(* The statements of a run, one after the other.                           *)
LEMMA StatementMoves ==
    ASSUME QueueInv, NEW r \in Runs
    PROVE  /\ Insert(r) => /\ run[r].pc = "insert" /\ queue' = queue
                           /\ RunMoves(r, "balances", run[r].batch)
           /\ CreditBalances(r) => /\ run[r].pc = "balances" /\ queue' = queue
                                   /\ RunMoves(r, "links", run[r].batch)
           /\ CountLinks(r) => /\ run[r].pc = "links" /\ queue' = queue
                               /\ RunMoves(r, "idle", <<>>)
<1>1. ASSUME Insert(r)
      PROVE  run[r].pc = "insert" /\ queue' = queue /\ RunMoves(r, "balances", run[r].batch)
  <2>1. run[r].pc = "insert" /\ queue' = queue /\ run' = [run EXCEPT ![r].pc = "balances"]
      BY <1>1 DEF Insert
  <2> QED BY <2>1, NextMoves
<1>2. ASSUME CreditBalances(r)
      PROVE  run[r].pc = "balances" /\ queue' = queue /\ RunMoves(r, "links", run[r].batch)
  <2>1. run[r].pc = "balances" /\ queue' = queue /\ run' = [run EXCEPT ![r].pc = "links"]
      BY <1>2 DEF CreditBalances
  <2> QED BY <2>1, NextMoves
<1>3. ASSUME CountLinks(r)
      PROVE  run[r].pc = "links" /\ queue' = queue /\ RunMoves(r, "idle", <<>>)
  <2>1. run[r].pc = "links" /\ queue' = queue /\ Ends(r)
      BY <1>3 DEF CountLinks
  <2> QED BY <2>1, EndsMoves
<1> QED BY <1>1, <1>2, <1>3

(* The runs of a process end with it.                                      *)
LEMMA RunsDie ==
    ASSUME QueueInv, NEW s \in Servers, ProcessEnds(s)
    PROVE  LET D == {r \in Runs : Home[r] = s}
           IN  /\ run' \in RunStates /\ queue' = queue
               /\ \A r \in D : run'[r] = Idle
               /\ \A r \in Runs \ D : run'[r] = run[r]
<1>1. Idle \in FlushRun
    BY NoteAssumption DEF Idle, FlushRun
<1>2. run' = [r \in Runs |-> IF Home[r] = s THEN Idle ELSE run[r]] /\ queue' = queue
    BY DEF ProcessEnds
<1> QED BY <1>1, <1>2 DEF QueueInv, RunStates

(* The other steps.                                                        *)
LEMMA RunsStay ==
    ASSUME [NoteNext]_vars
    PROVE  \/ \E a \in Accesses : Push(a) \/ PushUnanswered(a)
           \/ \E r \in Runs : \/ StartFlush(r) \/ FlushStep(r)
                             \/ PopUnanswered(r) \/ PopFails(r) \/ StatementFails(r)
           \/ \E s \in Servers : ProcessEnds(s)
           \/ UNCHANGED <<queue, run, ledgers, lost, uncredited, unlinked, resent>>
<1>1. ASSUME NEW a \in Accesses, Arrive(a) \/ InsertNoteAgent(a) \/ Mark(a)
      PROVE  UNCHANGED <<queue, run, ledgers, lost, uncredited, unlinked, resent>>
    BY <1>1 DEF Arrive, InsertNoteAgent, Mark, ledgers, history
<1>2. ASSUME DayPasses \/ AgentStep \/ AgentFault \/ UNCHANGED vars
      PROVE  UNCHANGED <<queue, run, ledgers, lost, uncredited, unlinked, resent>>
    BY <1>2 DEF DayPasses, AgentStep, AgentFault, vars, ledgers, history
<1>3. ASSUME MarkDropped \/ \E a \in Accesses : MarkUnanswered(a)
      PROVE  UNCHANGED <<queue, run, ledgers, lost, uncredited, unlinked, resent>>
    BY <1>3, KeyFaultsKeep
<1> QED BY <1>1, <1>2, <1>3 DEF NoteNext

(* The list and the runs keep their types, and idle runs their empty batch.*)
LEMMA QueueStep ==
    ASSUME QueueInv, [NoteNext]_vars
    PROVE  QueueInv'
<1>0. queue \in Seq(Accesses) /\ run \in RunStates
      /\ \A r \in Runs : run[r].pc = "idle" => run[r].batch = <<>>
    BY DEF QueueInv
<1>1. ASSUME NEW r \in Runs, NEW pc, NEW batch, RunMoves(r, pc, batch),
             pc = "idle" => batch = <<>>, queue' \in Seq(Accesses)
      PROVE  QueueInv'
    BY <1>0, <1>1 DEF QueueInv, RunMoves
<1>2. ASSUME NEW a \in Accesses, Push(a) \/ PushUnanswered(a) PROVE QueueInv'
  <2>1. queue' = <<a>> \o queue /\ run' = run
      BY <1>2 DEF Push, PushUnanswered
  <2>2. queue' \in Seq(Accesses)
      BY <1>0, <2>1
  <2> QED BY <1>0, <2>1, <2>2 DEF QueueInv
<1>3. ASSUME NEW r \in Runs, StartFlush(r) PROVE QueueInv'
    BY <1>0, <1>1, <1>3, StartMoves
<1>4. ASSUME NEW r \in Runs, Pop(r) PROVE QueueInv'
  <2>1. queue # <<>> => SubSeq(queue, 1, Len(queue) - 1) \in Seq(Accesses)
      BY <1>0, OverPop
  <2>2. \/ /\ queue # <<>>
           /\ RunMoves(r, "pop", Append(run[r].batch, queue[Len(queue)]))
           /\ queue' = SubSeq(queue, 1, Len(queue) - 1)
        \/ RunMoves(r, "pop", run[r].batch) /\ queue' = queue
      BY <1>4, PopMoves
  <2> QED BY <1>0, <1>1, <2>1, <2>2
<1>5. ASSUME NEW r \in Runs, Popped(r) PROVE QueueInv'
    BY <1>0, <1>1, <1>5, PoppedMoves
<1>6. ASSUME NEW r \in Runs, Insert(r) PROVE QueueInv'
    BY <1>0, <1>1, <1>6, StatementMoves
<1>7. ASSUME NEW r \in Runs, CreditBalances(r) PROVE QueueInv'
    BY <1>0, <1>1, <1>7, StatementMoves
<1>8. ASSUME NEW r \in Runs, CountLinks(r) PROVE QueueInv'
    BY <1>0, <1>1, <1>8, StatementMoves
<1>9. ASSUME NEW r \in Runs, PopUnanswered(r) PROVE QueueInv'
  <2>1. queue # <<>> /\ queue' = SubSeq(queue, 1, Len(queue) - 1) /\ run' = run
      BY <1>9 DEF PopUnanswered
  <2>2. queue' \in Seq(Accesses)
      BY <1>0, <2>1, OverPop
  <2> QED BY <1>0, <2>1, <2>2 DEF QueueInv
<1>p. ASSUME NEW r \in Runs, PopFails(r) PROVE QueueInv'
  <2>1. /\ run[r].pc = "pop" /\ run[r].left > 0 /\ queue' = queue
        /\ run' = [run EXCEPT ![r].left = @ - 1]
      BY <1>p DEF PopFails
  <2> QED BY <1>0, <1>1, <2>1, LeftMoves
<1>10. ASSUME NEW r \in Runs, StatementFails(r) PROVE QueueInv'
  <2>1. Ends(r) /\ queue' = queue
      BY <1>10 DEF StatementFails
  <2> QED BY <1>0, <1>1, <2>1, EndsMoves
<1>11. ASSUME NEW s \in Servers, ProcessEnds(s) PROVE QueueInv'
    BY <1>0, <1>11, RunsDie DEF QueueInv, Idle
<1>12. ASSUME UNCHANGED <<queue, run>> PROVE QueueInv'
    BY <1>0, <1>12 DEF QueueInv
<1> QED BY <1>2, <1>3, <1>4, <1>5, <1>6, <1>7, <1>8, <1>9, <1>p, <1>10, <1>11, <1>12, RunsStay DEF FlushStep

(***************************************************************************)
(* Tallies of an access                                                    *)
(*                                                                         *)
(* Copies counts where an access still is, Credited and Counted how often  *)
(* it is in a balance and in the statistics of its link.  Every step adds  *)
(* to them or moves an access from one of their terms to another.          *)
(***************************************************************************)
Copies(a)   == Times(a, queue) + Held(run, a, {"pop", "insert"}) + rows[a]
Credited(a) == rows[a] - Held(run, a, {"balances"}) - uncredited[a]
Counted(a)  == rows[a] - Held(run, a, {"balances", "links"}) - unlinked[a]

SameTallies(a) ==
    Copies(a)' = Copies(a) /\ Credited(a)' = Credited(a) /\ Counted(a)' = Counted(a)

RowsInv ==
    /\ QueueInv
    /\ rows \in [Accesses -> Nat]
    /\ uncredited \in [Accesses -> Nat] /\ unlinked \in [Accesses -> Nat]

(* The terms of the tallies are numbers.                                   *)
LEMMA TalliesAre ==
    ASSUME RowsInv, NEW a \in Accesses
    PROVE  /\ Times(a, queue) \in Nat /\ rows[a] \in Nat
           /\ uncredited[a] \in Nat /\ unlinked[a] \in Nat
           /\ \A r \in Runs : Times(a, run[r].batch) \in Nat
           /\ \A pcs : Held(run, a, pcs) \in Nat
           /\ Copies(a) \in Nat /\ Credited(a) \in Int /\ Counted(a) \in Int
<1>1. Times(a, queue) \in Nat
    BY TimesOf DEF RowsInv, QueueInv
<1>2. \A pcs : Held(run, a, pcs) \in Nat
    BY HeldParts DEF RowsInv, QueueInv
<1>3. \A r \in Runs : Times(a, run[r].batch) \in Nat
    BY BatchesInOf DEF RowsInv, QueueInv
<1>4. rows[a] \in Nat /\ uncredited[a] \in Nat /\ unlinked[a] \in Nat
    BY DEF RowsInv
<1> QED BY <1>1, <1>2, <1>3, <1>4 DEF Copies, Credited, Counted

(* A run that moves takes its batch along.                                 *)
LEMMA BatchMoves ==
    ASSUME QueueInv, NEW r \in Runs, NEW pc, NEW batch, RunMoves(r, pc, batch),
           NEW a \in Accesses, NEW pcs
    PROVE  /\ Held(run', a, pcs) = Held(run, a, pcs)
                                     - (IF run[r].pc \in pcs THEN Times(a, run[r].batch) ELSE 0)
                                     + (IF pc \in pcs THEN Times(a, batch) ELSE 0)
           /\ Held(run, a, pcs) \in Nat
           /\ Times(a, run[r].batch) \in Nat /\ Times(a, batch) \in Nat
<1> DEFINE rn == run
           sn == run'
<1>1. rn \in RunStates /\ sn \in RunStates /\ \A q \in Runs \ {r} : sn[q] = rn[q]
    BY DEF QueueInv, RunMoves
<1>2. sn[r].pc = pc /\ sn[r].batch = batch
    BY DEF RunMoves
<1>3. Times(a, rn[r].batch) \in Nat /\ Times(a, sn[r].batch) \in Nat
    BY <1>1, BatchesInOf
<1> HIDE DEF rn, sn
<1>4. /\ Held(rn, a, pcs) \in Nat
      /\ Held(sn, a, pcs) = Held(rn, a, pcs) - Part(rn, a, r, pcs) + Part(sn, a, r, pcs)
    BY <1>1, RunGoesOn
<1> QED BY <1>2, <1>3, <1>4 DEF Part, rn, sn

(* LPUSH adds a copy.                                                      *)
LEMMA PushTallies ==
    ASSUME RowsInv, NEW a \in Accesses, Push(a) \/ PushUnanswered(a), NEW x \in Accesses
    PROVE  /\ Copies(x)' = Copies(x) + (IF x = a THEN 1 ELSE 0)
           /\ Credited(x)' = Credited(x) /\ Counted(x)' = Counted(x)
<1>1. /\ queue' = <<a>> \o queue /\ run' = run /\ rows' = rows
      /\ uncredited' = uncredited /\ unlinked' = unlinked
    BY DEF Push, PushUnanswered, ledgers, history
<1>2. queue \in Seq(Accesses)
    BY DEF RowsInv, QueueInv
<1>3. Times(x, <<a>> \o queue) = Times(x, queue) + (IF a = x THEN 1 ELSE 0)
    BY <1>2, TimesOf
<1>4. Times(x, queue) \in Nat /\ Held(run, x, {"pop", "insert"}) \in Nat /\ rows[x] \in Nat
    BY TalliesAre
<1>5. Copies(x)' = Times(x, <<a>> \o queue) + Held(run, x, {"pop", "insert"}) + rows[x]
    BY <1>1 DEF Copies
<1>6. Credited(x)' = Credited(x) /\ Counted(x)' = Counted(x)
    BY <1>1 DEF Credited, Counted
<1> QED BY <1>3, <1>4, <1>5, <1>6 DEF Copies

(* An RPOP that is answered moves an entry into the batch, and the start   *)
(* of a run and the end of its RPOPs move nothing.                         *)
LEMMA PopTallies ==
    ASSUME RowsInv, NEW r \in Runs, StartFlush(r) \/ Pop(r) \/ PopFails(r) \/ Popped(r),
           NEW x \in Accesses
    PROVE  SameTallies(x)
<1>0. QueueInv /\ rows' = rows /\ uncredited' = uncredited /\ unlinked' = unlinked
    BY DEF RowsInv, StartFlush, Pop, PopFails, Popped, ledgers, history
<1>1. queue \in Seq(Accesses) /\ run[r].batch \in Seq(Accesses)
    BY <1>0 DEF QueueInv, RunStates, FlushRun
<1>2. /\ Times(x, queue) \in Nat /\ rows[x] \in Nat
      /\ \A pcs : Held(run, x, pcs) \in Nat
    BY TalliesAre
<1> DEFINE old == Times(x, run[r].batch)
<1>3. ASSUME NEW pc \in {"pop", "insert"}, NEW batch, RunMoves(r, pc, batch),
             run[r].pc \in {"pop", "insert"} \/ (run[r].pc = "idle" /\ old = 0)
      PROVE  /\ Held(run', x, {"pop", "insert"}) = Held(run, x, {"pop", "insert"}) - old + Times(x, batch)
             /\ Held(run', x, {"balances"}) = Held(run, x, {"balances"})
             /\ Held(run', x, {"balances", "links"}) = Held(run, x, {"balances", "links"})
             /\ old \in Nat /\ Times(x, batch) \in Nat
    BY <1>0, <1>2, <1>3, BatchMoves
<1>4. ASSUME NEW pc \in {"pop", "insert"}, RunMoves(r, pc, run[r].batch), queue' = queue,
             run[r].pc \in {"pop", "insert"} \/ (run[r].pc = "idle" /\ old = 0)
      PROVE  SameTallies(x)
  <2>1. /\ Held(run', x, {"pop", "insert"}) = Held(run, x, {"pop", "insert"})
        /\ Held(run', x, {"balances"}) = Held(run, x, {"balances"})
        /\ Held(run', x, {"balances", "links"}) = Held(run, x, {"balances", "links"})
      BY <1>2, <1>3, <1>4
  <2> QED BY <1>0, <1>4, <2>1 DEF SameTallies, Copies, Credited, Counted
<1>5. ASSUME StartFlush(r) PROVE SameTallies(x)
  <2>1. RunMoves(r, "pop", run[r].batch) /\ run[r].pc = "idle" /\ run[r].batch = <<>> /\ queue' = queue
      BY <1>0, <1>5, StartMoves
  <2>2. old = 0
      BY <1>1, <2>1, TimesOf
  <2> QED BY <1>4, <2>1, <2>2
<1>6. ASSUME Pop(r) PROVE SameTallies(x)
  <2>1. run[r].pc = "pop"
      BY <1>0, <1>6, PopMoves
  <2>2. CASE RunMoves(r, "pop", run[r].batch) /\ queue' = queue
      BY <1>4, <2>1, <2>2
  <2>3. CASE /\ queue # <<>>
             /\ RunMoves(r, "pop", Append(run[r].batch, queue[Len(queue)]))
             /\ queue' = SubSeq(queue, 1, Len(queue) - 1)
    <3> DEFINE l == queue[Len(queue)]
               n == IF l = x THEN 1 ELSE 0
    <3>1. l \in Accesses /\ queue' \in Seq(Accesses)
        BY <1>1, <2>3, OverPop
    <3>2. Times(x, Append(run[r].batch, l)) = old + n
        BY <1>1, <3>1, TimesOf
    <3>3. Times(x, queue) = Times(x, queue') + n /\ Times(x, queue') \in Nat
        BY <1>1, <2>3, <3>1, TimesOf
    <3>4. /\ Held(run', x, {"pop", "insert"}) = Held(run, x, {"pop", "insert"}) - old + (old + n)
          /\ Held(run', x, {"balances"}) = Held(run, x, {"balances"})
          /\ Held(run', x, {"balances", "links"}) = Held(run, x, {"balances", "links"})
          /\ old \in Nat
        BY <1>3, <2>1, <2>3, <3>2
    <3> HIDE DEF l, old
    <3>5. Copies(x)' = Copies(x)
        BY <1>0, <1>2, <3>3, <3>4 DEF Copies
    <3> QED BY <1>0, <3>4, <3>5 DEF SameTallies, Credited, Counted
  <2> QED BY <1>0, <1>6, <2>2, <2>3, PopMoves
<1>7. ASSUME Popped(r) PROVE SameTallies(x)
  <2>1. run[r].pc = "pop" /\ queue' = queue
      BY <1>0, <1>7, PoppedMoves
  <2>2. CASE RunMoves(r, "insert", run[r].batch)
      BY <1>4, <2>1, <2>2
  <2>3. CASE run[r].batch = <<>> /\ RunMoves(r, "idle", <<>>)
    <3>1. old = 0 /\ Times(x, <<>>) = 0
        BY <1>1, <2>3, TimesOf
    <3>2. \A pcs : Held(run', x, pcs) = Held(run, x, pcs)
        BY <1>0, <1>2, <2>3, <3>1, BatchMoves
    <3> QED BY <1>0, <2>1, <3>2 DEF SameTallies, Copies, Credited, Counted
  <2> QED BY <1>0, <1>7, <2>2, <2>3, PoppedMoves
<1>8. ASSUME PopFails(r) PROVE SameTallies(x)
  <2>1. /\ run[r].pc = "pop" /\ run[r].left > 0 /\ queue' = queue
        /\ run' = [run EXCEPT ![r].left = @ - 1]
      BY <1>8 DEF PopFails
  <2>2. RunMoves(r, "pop", run[r].batch)
      BY <1>0, <2>1, LeftMoves
  <2> QED BY <1>4, <2>1, <2>2
<1> QED BY <1>5, <1>6, <1>7, <1>8

(* The INSERT makes rows of a batch, its UPDATEs add it to the balances    *)
(* and to the statistics.                                                  *)
LEMMA StatementTallies ==
    ASSUME RowsInv, NEW r \in Runs, NEW x \in Accesses
    PROVE  /\ Insert(r) => SameTallies(x)
           /\ CreditBalances(r) =>
                 /\ Copies(x)' = Copies(x) /\ Counted(x)' = Counted(x)
                 /\ Credited(x)' = Credited(x) + Times(x, run[r].batch)
           /\ CountLinks(r) =>
                 /\ Copies(x)' = Copies(x) /\ Credited(x)' = Credited(x)
                 /\ Counted(x)' = Counted(x) + Times(x, run[r].batch)
<1>0. QueueInv /\ run[r].batch \in Seq(Accesses)
    BY DEF RowsInv, QueueInv, RunStates, FlushRun
<1> DEFINE n == Times(x, run[r].batch)
           P == Held(run, x, {"pop", "insert"})
           B == Held(run, x, {"balances"})
           L == Held(run, x, {"balances", "links"})
<1>1. /\ Times(x, queue) \in Nat /\ rows[x] \in Nat /\ n \in Nat
      /\ P \in Nat /\ B \in Nat /\ L \in Nat
      /\ uncredited[x] \in Nat /\ unlinked[x] \in Nat
    BY TalliesAre
<1>m. ASSUME NEW pc, NEW batch, RunMoves(r, pc, batch), NEW pcs
      PROVE  /\ Held(run', x, pcs) = Held(run, x, pcs) - (IF run[r].pc \in pcs THEN n ELSE 0)
                                       + (IF pc \in pcs THEN Times(x, batch) ELSE 0)
             /\ Held(run, x, pcs) \in Nat
    BY <1>0, <1>m, BatchMoves
<1> HIDE DEF n
<1>2. ASSUME Insert(r) PROVE SameTallies(x)
  <2>1. run[r].pc = "insert" /\ queue' = queue /\ RunMoves(r, "balances", run[r].batch)
      BY <1>0, <1>2, StatementMoves
  <2>2. rows' = With(rows, run[r].batch) /\ uncredited' = uncredited /\ unlinked' = unlinked
      BY <1>2 DEF Insert, history
  <2>3. rows'[x] = rows[x] + n
      BY <2>2 DEF With, n
  <2>4. /\ Held(run', x, {"pop", "insert"}) = P - n
        /\ Held(run', x, {"balances"}) = B + n
        /\ Held(run', x, {"balances", "links"}) = L + n
    <3>1. Held(run', x, {"pop", "insert"}) = P - n
        BY <1>1, <1>m, <2>1 DEF n
    <3>2. Held(run', x, {"balances"}) = B + n
        BY <1>1, <1>m, <2>1 DEF n
    <3>3. Held(run', x, {"balances", "links"}) = L + n
        BY <1>1, <1>m, <2>1 DEF n
    <3> QED BY <3>1, <3>2, <3>3
  <2>5. Copies(x)' = Times(x, queue) + (P - n) + (rows[x] + n)
      BY <2>1, <2>3, <2>4 DEF Copies
  <2>6. Credited(x)' = (rows[x] + n) - (B + n) - uncredited[x]
      BY <2>2, <2>3, <2>4 DEF Credited
  <2>7. Counted(x)' = (rows[x] + n) - (L + n) - unlinked[x]
      BY <2>2, <2>3, <2>4 DEF Counted
  <2> QED BY <1>1, <2>5, <2>6, <2>7 DEF SameTallies, Copies, Credited, Counted
<1>3. ASSUME CreditBalances(r)
      PROVE  /\ Copies(x)' = Copies(x) /\ Counted(x)' = Counted(x)
             /\ Credited(x)' = Credited(x) + n
  <2>1. run[r].pc = "balances" /\ queue' = queue /\ RunMoves(r, "links", run[r].batch)
      BY <1>0, <1>3, StatementMoves
  <2>2. rows' = rows /\ uncredited' = uncredited /\ unlinked' = unlinked
      BY <1>3 DEF CreditBalances, history
  <2>3. /\ Held(run', x, {"pop", "insert"}) = P
        /\ Held(run', x, {"balances"}) = B - n
        /\ Held(run', x, {"balances", "links"}) = L
    <3>1. Held(run', x, {"pop", "insert"}) = P
        BY <1>1, <1>m, <2>1 DEF n
    <3>2. Held(run', x, {"balances"}) = B - n
        BY <1>1, <1>m, <2>1 DEF n
    <3>3. Held(run', x, {"balances", "links"}) = L
        BY <1>1, <1>m, <2>1 DEF n
    <3> QED BY <3>1, <3>2, <3>3
  <2>4. Credited(x)' = rows[x] - (B - n) - uncredited[x]
      BY <2>2, <2>3 DEF Credited
  <2>5. Copies(x)' = Copies(x) /\ Counted(x)' = Counted(x)
      BY <2>1, <2>2, <2>3 DEF Copies, Counted
  <2> QED BY <1>1, <2>4, <2>5 DEF Credited
<1>4. ASSUME CountLinks(r)
      PROVE  /\ Copies(x)' = Copies(x) /\ Credited(x)' = Credited(x)
             /\ Counted(x)' = Counted(x) + n
  <2>1. run[r].pc = "links" /\ queue' = queue /\ RunMoves(r, "idle", <<>>)
      BY <1>0, <1>4, StatementMoves
  <2>2. rows' = rows /\ uncredited' = uncredited /\ unlinked' = unlinked
      BY <1>4 DEF CountLinks, history
  <2>3. /\ Held(run', x, {"pop", "insert"}) = P
        /\ Held(run', x, {"balances"}) = B
        /\ Held(run', x, {"balances", "links"}) = L - n
    <3>1. Held(run', x, {"pop", "insert"}) = P
        BY <1>1, <1>m, <2>1 DEF n
    <3>2. Held(run', x, {"balances"}) = B
        BY <1>1, <1>m, <2>1 DEF n
    <3>3. Held(run', x, {"balances", "links"}) = L - n
        BY <1>1, <1>m, <2>1 DEF n
    <3> QED BY <3>1, <3>2, <3>3
  <2>4. Counted(x)' = rows[x] - (L - n) - unlinked[x]
      BY <2>2, <2>3 DEF Counted
  <2>5. Copies(x)' = Copies(x) /\ Credited(x)' = Credited(x)
      BY <2>1, <2>2, <2>3 DEF Copies, Credited
  <2> QED BY <1>1, <2>4, <2>5 DEF Counted
<1> QED BY <1>2, <1>3, <1>4 DEF n

(* An RPOP whose answer is lost loses its entry.                           *)
LEMMA LostTallies ==
    ASSUME RowsInv, NEW r \in Runs, PopUnanswered(r), NEW x \in Accesses
    PROVE  /\ Credited(x)' = Credited(x) /\ Counted(x)' = Counted(x)
           /\ lost \subseteq lost'
           /\ Copies(x)' = Copies(x) \/ (x \in lost' /\ Copies(x)' = Copies(x) - 1)
           /\ lost' \subseteq lost \cup Accesses
<1> DEFINE l == queue[Len(queue)]
<1>1. /\ queue # <<>> /\ queue' = SubSeq(queue, 1, Len(queue) - 1)
      /\ run' = run /\ rows' = rows /\ uncredited' = uncredited /\ unlinked' = unlinked
      /\ lost' = lost \cup {l}
    BY DEF PopUnanswered, ledgers
<1>2. queue \in Seq(Accesses)
    BY DEF RowsInv, QueueInv
<1>3. l \in Accesses /\ queue' \in Seq(Accesses)
    BY <1>1, <1>2, OverPop
<1>4. Times(x, queue) = Times(x, queue') + (IF l = x THEN 1 ELSE 0) /\ Times(x, queue') \in Nat
    BY <1>1, <1>2, <1>3, TimesOf
<1>5. Held(run, x, {"pop", "insert"}) \in Nat /\ rows[x] \in Nat
    BY TalliesAre
<1> HIDE DEF l
<1>6. Credited(x)' = Credited(x) /\ Counted(x)' = Counted(x)
    BY <1>1 DEF Credited, Counted
<1>7. Copies(x)' = Copies(x) - (IF l = x THEN 1 ELSE 0)
    BY <1>1, <1>4, <1>5 DEF Copies
<1>8. Copies(x) \in Nat
    BY TalliesAre
<1> QED BY <1>1, <1>3, <1>6, <1>7, <1>8

(* What is written down when runs end has its type.                        *)
LEMMA ForgetTypes ==
    ASSUME RowsInv, NEW D \in SUBSET Runs, Forget(D)
    PROVE  /\ uncredited' \in [Accesses -> Nat] /\ unlinked' \in [Accesses -> Nat]
           /\ lost \subseteq lost' /\ lost' \subseteq lost \cup Accesses
<1> DEFINE E(pcs) == {q \in D : run[q].pc \in pcs}
<1>1. ASSUME NEW pcs, NEW a \in Accesses PROVE BatchesIn(run, a, E(pcs)) \in Nat
  <2>1. E(pcs) \in SUBSET Runs /\ run \in RunStates
      BY DEF RowsInv, QueueInv
  <2> HIDE DEF E
  <2> QED BY <2>1, BatchesInOf
<1>2. /\ uncredited' = [a \in Accesses |-> uncredited[a] + BatchesIn(run, a, E({"balances"}))]
      /\ unlinked' = [a \in Accesses |-> unlinked[a] + BatchesIn(run, a, E({"balances", "links"}))]
    BY DEF Forget, InBatches, BatchesIn
<1>3. lost \subseteq lost' /\ lost' \subseteq lost \cup Accesses
    BY DEF Forget
<1>4. \A a \in Accesses : uncredited[a] \in Nat /\ unlinked[a] \in Nat
    BY DEF RowsInv
<1> HIDE DEF E
<1> QED BY <1>1, <1>2, <1>3, <1>4

(* Runs that end lose what they have popped, unless it is in the table,    *)
(* and what is then missing in balances and statistics is written down.    *)
LEMMA ForgetTallies ==
    ASSUME RowsInv, NEW D \in SUBSET Runs, Forget(D),
           run' \in RunStates, \A r \in D : run'[r] = Idle, \A r \in Runs \ D : run'[r] = run[r],
           queue' = queue, rows' = rows, NEW x \in Accesses
    PROVE  /\ Credited(x)' = Credited(x) /\ Counted(x)' = Counted(x)
           /\ lost \subseteq lost'
           /\ \E n \in Nat : Copies(x)' = Copies(x) - n /\ (n > 0 => x \in lost')
<1> DEFINE E(pcs) == {q \in D : run[q].pc \in pcs}
           n == BatchesIn(run, x, E({"pop", "insert"}))
           b == BatchesIn(run, x, E({"balances"}))
           l == BatchesIn(run, x, E({"balances", "links"}))
<1>0. QueueInv /\ run \in RunStates /\ \A pcs : E(pcs) \in SUBSET Runs
    BY DEF RowsInv, QueueInv
<1>1. \A pcs : \A a \in Accesses : BatchesIn(run, a, E(pcs)) \in Nat
  <2> SUFFICES ASSUME NEW pcs, NEW a \in Accesses PROVE BatchesIn(run, a, E(pcs)) \in Nat
      OBVIOUS
  <2> HIDE DEF E
  <2> QED BY <1>0, BatchesInOf
<1>2. /\ uncredited' = [a \in Accesses |-> uncredited[a] + BatchesIn(run, a, E({"balances"}))]
      /\ unlinked' = [a \in Accesses |-> unlinked[a] + BatchesIn(run, a, E({"balances", "links"}))]
    BY DEF Forget, InBatches, BatchesIn
<1>3. lost' = lost \cup {a \in Accesses : \E r \in D : run[r].pc \in {"pop", "insert"}
                                              /\ a \in {run[r].batch[i] : i \in DOMAIN run[r].batch}}
    BY DEF Forget
<1>4. n > 0 => x \in lost'
  <2> SUFFICES ASSUME n > 0 PROVE x \in lost'
      OBVIOUS
  <2>1. PICK r \in E({"pop", "insert"}) : Times(x, run[r].batch) > 0
    <3> DEFINE F == E({"pop", "insert"})
    <3>1. F \in SUBSET Runs /\ BatchesIn(run, x, F) > 0
        BY <1>0
    <3> HIDE DEF F
    <3>2. \E r \in F : Times(x, run[r].batch) > 0
        BY <1>0, <3>1, BatchesInOf
    <3> QED BY <3>2 DEF F
  <2>2. r \in D /\ run[r].pc \in {"pop", "insert"} /\ run[r].batch \in Seq(Accesses)
      BY <1>0 DEF RunStates, FlushRun
  <2>3. x \in {run[r].batch[i] : i \in DOMAIN run[r].batch}
      BY <2>1, <2>2, TimesOf
  <2> QED BY <1>3, <2>2, <2>3
<1>5. /\ rows[x] \in Nat /\ uncredited[x] \in Nat /\ unlinked[x] \in Nat
      /\ Times(x, queue) \in Nat /\ \A pcs : Held(run, x, pcs) \in Nat
    BY TalliesAre
<1>6. ASSUME NEW pcs, "idle" \notin pcs
      PROVE  Held(run', x, pcs) = Held(run, x, pcs) - BatchesIn(run, x, E(pcs))
  <2> DEFINE rn == run
             sn == run'
  <2>1. /\ rn \in RunStates /\ sn \in RunStates
        /\ \A r \in D : sn[r] = Idle
        /\ \A r \in Runs \ D : sn[r] = rn[r]
      BY <1>0
  <2> HIDE DEF rn, sn
  <2>2. Held(sn, x, pcs) = Held(rn, x, pcs) - BatchesIn(rn, x, {q \in D : rn[q].pc \in pcs})
      BY <1>6, <2>1, RunsEnd
  <2> QED BY <2>2 DEF rn, sn
<1>7. /\ Held(run', x, {"pop", "insert"}) = Held(run, x, {"pop", "insert"}) - n
      /\ Held(run', x, {"balances"}) = Held(run, x, {"balances"}) - b
      /\ Held(run', x, {"balances", "links"}) = Held(run, x, {"balances", "links"}) - l
    BY <1>6
<1>8. uncredited'[x] = uncredited[x] + b /\ unlinked'[x] = unlinked[x] + l
    BY <1>2
<1>9. n \in Nat /\ b \in Nat /\ l \in Nat
    BY <1>1
<1> HIDE DEF n, b, l, E
<1>11. Copies(x)' = Copies(x) - n
    BY <1>5, <1>7, <1>9 DEF Copies
<1>12. Credited(x)' = rows[x] - (Held(run, x, {"balances"}) - b) - (uncredited[x] + b)
    BY <1>7, <1>8 DEF Credited
<1>13. Counted(x)' = rows[x] - (Held(run, x, {"balances", "links"}) - l) - (unlinked[x] + l)
    BY <1>7, <1>8 DEF Counted
<1>14. Credited(x)' = Credited(x) /\ Counted(x)' = Counted(x)
    BY <1>5, <1>9, <1>12, <1>13 DEF Credited, Counted
<1> QED BY <1>3, <1>4, <1>9, <1>11, <1>14

(* Nothing else is done by a statement that fails and a process that ends. *)
LEMMA EndTallies ==
    ASSUME RowsInv, \/ \E r \in Runs : StatementFails(r)
                    \/ \E s \in Servers : ProcessEnds(s)
    PROVE  /\ \A x \in Accesses :
                 /\ Credited(x)' = Credited(x) /\ Counted(x)' = Counted(x)
                 /\ \E n \in Nat : Copies(x)' = Copies(x) - n /\ (n > 0 => x \in lost')
           /\ lost \subseteq lost'
           /\ lost' \subseteq lost \cup Accesses
           /\ uncredited' \in [Accesses -> Nat] /\ unlinked' \in [Accesses -> Nat]
           /\ UNCHANGED <<queue, ledgers, resent>>
<1>0. QueueInv
    BY DEF RowsInv
<1> DEFINE Goal ==
           /\ \A x \in Accesses :
                 /\ Credited(x)' = Credited(x) /\ Counted(x)' = Counted(x)
                 /\ \E n \in Nat : Copies(x)' = Copies(x) - n /\ (n > 0 => x \in lost')
           /\ lost \subseteq lost'
           /\ lost' \subseteq lost \cup Accesses
           /\ uncredited' \in [Accesses -> Nat] /\ unlinked' \in [Accesses -> Nat]
<1>1. ASSUME NEW D \in SUBSET Runs, Forget(D), run' \in RunStates, \A r \in D : run'[r] = Idle,
             \A r \in Runs \ D : run'[r] = run[r], queue' = queue, rows' = rows
      PROVE  Goal
  <2>1. /\ uncredited' \in [Accesses -> Nat] /\ unlinked' \in [Accesses -> Nat]
        /\ lost \subseteq lost' /\ lost' \subseteq lost \cup Accesses
      BY <1>1, ForgetTypes
  <2> QED BY <1>1, <2>1, ForgetTallies
<1>2. ASSUME NEW r \in Runs, StatementFails(r) PROVE Goal /\ UNCHANGED <<queue, ledgers, resent>>
  <2>1. Forget({r}) /\ Ends(r) /\ UNCHANGED <<queue, ledgers, resent>> /\ rows' = rows
      BY <1>2 DEF StatementFails, ledgers
  <2>2. RunMoves(r, "idle", <<>>) /\ run'[r] = Idle
      BY <1>0, <2>1, EndsMoves
  <2> HIDE DEF Goal
  <2> QED BY <1>1, <2>1, <2>2 DEF RunMoves
<1>3. ASSUME NEW s \in Servers, ProcessEnds(s) PROVE Goal /\ UNCHANGED <<queue, ledgers, resent>>
  <2> DEFINE D == {r \in Runs : Home[r] = s}
  <2>1. Forget(D) /\ UNCHANGED <<queue, ledgers, resent>> /\ rows' = rows
      BY <1>3 DEF ProcessEnds, ledgers
  <2>2. /\ D \in SUBSET Runs /\ run' \in RunStates /\ \A r \in D : run'[r] = Idle
        /\ \A r \in Runs \ D : run'[r] = run[r]
      BY <1>0, <1>3, RunsDie
  <2> HIDE DEF Goal, D
  <2> QED BY <1>1, <2>1, <2>2
<1> QED BY <1>2, <1>3

(* The ledgers of rows keep their types.                                   *)
LEMMA RowsStep ==
    ASSUME RowsInv, [NoteNext]_vars
    PROVE  RowsInv'
<1>1. QueueInv'
    BY QueueStep DEF RowsInv
<1>2. /\ rows \in [Accesses -> Nat]
      /\ uncredited \in [Accesses -> Nat] /\ unlinked \in [Accesses -> Nat]
    BY DEF RowsInv
<1>3. ASSUME UNCHANGED <<rows, uncredited, unlinked>> PROVE RowsInv'
    BY <1>1, <1>2, <1>3 DEF RowsInv
<1>4. ASSUME NEW a \in Accesses, Push(a) \/ PushUnanswered(a) PROVE RowsInv'
    BY <1>3, <1>4 DEF Push, PushUnanswered, ledgers, history
<1>5. ASSUME NEW r \in Runs, StartFlush(r) \/ Pop(r) \/ Popped(r) \/ CreditBalances(r)
                             \/ CountLinks(r) \/ PopUnanswered(r) \/ PopFails(r)
      PROVE  RowsInv'
  <2>1. UNCHANGED <<rows, uncredited, unlinked>>
      BY <1>5 DEF StartFlush, Pop, Popped, CreditBalances, CountLinks, PopUnanswered, PopFails,
                  ledgers, history
  <2> QED BY <1>3, <2>1
<1>6. ASSUME NEW r \in Runs, Insert(r) PROVE RowsInv'
  <2>1. rows' = With(rows, run[r].batch) /\ uncredited' = uncredited /\ unlinked' = unlinked
      BY <1>6 DEF Insert, history
  <2>2. \A a \in Accesses : Times(a, run[r].batch) \in Nat
      BY TalliesAre
  <2>3. rows' \in [Accesses -> Nat]
      BY <1>2, <2>1, <2>2 DEF With
  <2> QED BY <1>1, <1>2, <2>1, <2>3 DEF RowsInv
<1>7. ASSUME \/ \E r \in Runs : StatementFails(r)
             \/ \E s \in Servers : ProcessEnds(s)
      PROVE  RowsInv'
  <2>1. rows' = rows /\ uncredited' \in [Accesses -> Nat] /\ unlinked' \in [Accesses -> Nat]
      BY <1>7, EndTallies DEF ledgers
  <2> QED BY <1>1, <1>2, <2>1 DEF RowsInv
<1>8. ASSUME UNCHANGED <<queue, run, ledgers, lost, uncredited, unlinked, resent>> PROVE RowsInv'
    BY <1>3, <1>8 DEF ledgers
<1> QED BY <1>4, <1>5, <1>6, <1>7, <1>8, RunsStay DEF FlushStep

(***************************************************************************)
(* Where an access is                                                      *)
(*                                                                         *)
(* NoAccessVanishes counts the copies of an access.  The invariant adds    *)
(* that there is none before its LPUSH, so that the LPUSH makes the first. *)
(***************************************************************************)
CopyPhase(a) ==
    /\ access[a].pc \in {"new", "agent", "mark"} => a \notin resent
    /\ access[a].pc # "done" /\ a \notin resent => Copies(a) = 0
    /\ a \notin resent => Copies(a) <= 1
    /\ access[a].pc = "done" => Copies(a) > 0 \/ a \in lost

CopyInv ==
    /\ RowsInv
    /\ \A a \in Accesses : CopyPhase(a)

(* At first the list, the batches and the table are empty.                 *)
LEMMA TalliesInit ==
    ASSUME NoteInit
    PROVE  /\ RowsInv
           /\ \A a \in Accesses : /\ Times(a, queue) = 0
                                  /\ Copies(a) = 0 /\ Credited(a) = 0 /\ Counted(a) = 0
<1>1. Idle \in FlushRun /\ Idle.pc = "idle"
    BY NoteAssumption DEF Idle, FlushRun
<1>2. /\ queue = <<>> /\ run = [r \in Runs |-> Idle]
      /\ rows = [a \in Accesses |-> 0]
      /\ uncredited = [a \in Accesses |-> 0] /\ unlinked = [a \in Accesses |-> 0]
    BY DEF NoteInit
<1>3. run \in RunStates /\ \A r \in Runs : run[r] = Idle
    BY <1>1, <1>2 DEF RunStates
<1>4. RowsInv
    BY <1>2, <1>3 DEF RowsInv, QueueInv, Idle
<1>5. ASSUME NEW a \in Accesses, NEW pcs, "idle" \notin pcs PROVE Held(run, a, pcs) = 0
  <2>1. \A r \in Runs : Part(run, a, r, pcs) = 0
      BY <1>1, <1>3, <1>5 DEF Part
  <2>2. Held(run, a, pcs) \in Nat
      BY <1>4, TalliesAre
  <2>3. Held(run, a, pcs) > 0 => \E r \in Runs : Part(run, a, r, pcs) > 0
      BY <1>3, HeldParts
  <2> QED BY <2>1, <2>2, <2>3
<1>6. \A a \in Accesses : Times(a, queue) = 0
  <2>1. queue = <<>> /\ queue \in Seq(Accesses)
      BY <1>2
  <2> QED BY <2>1, TimesOf
<1>7. \A a \in Accesses : /\ Held(run, a, {"pop", "insert"}) = 0 /\ Held(run, a, {"balances"}) = 0
                          /\ Held(run, a, {"balances", "links"}) = 0
    BY <1>5
<1> QED BY <1>2, <1>4, <1>6, <1>7 DEF Copies, Credited, Counted

(* At first nothing is pushed.                                             *)
LEMMA CopyInit == NoteInit => CopyInv
<1> SUFFICES ASSUME NoteInit PROVE CopyInv
    OBVIOUS
<1>1. resent = {} /\ \A a \in Accesses : access[a].pc = "new"
    BY DEF NoteInit
<1> QED BY <1>1, TalliesInit DEF CopyInv, CopyPhase

(* Only LPUSH makes a request one that is done.                            *)
LEMMA PhaseStays ==
    ASSUME EarnType, [NoteNext]_vars, ~\E a \in Accesses : Push(a)
    PROVE  \A a \in Accesses :
              /\ access'[a].pc = "done" <=> access[a].pc = "done"
              /\ access'[a].pc \in {"new", "agent", "mark"} => access[a].pc \in {"new", "agent", "mark"}
<1>1. ASSUME NEW a \in Accesses, NEW b \in Accesses, Arrive(b) \/ InsertNoteAgent(b) \/ Mark(b)
      PROVE  /\ access'[a].pc = "done" <=> access[a].pc = "done"
             /\ access'[a].pc \in {"new", "agent", "mark"} => access[a].pc \in {"new", "agent", "mark"}
  <2>1. access[b].pc \in {"new", "agent", "mark"}
      BY <1>1 DEF Arrive, InsertNoteAgent, Mark
  <2>2. access'[b].pc # "done" /\ \A x \in Accesses \ {b} : access'[x] = access[x]
      BY <1>1, ArriveWrites, AgentWrites, MarkWrites DEF Writes
  <2> QED BY <2>1, <2>2
<1>2. ASSUME NEW s \in Servers, ProcessEnds(s), NEW a \in Accesses
      PROVE  /\ access'[a].pc = "done" <=> access[a].pc = "done"
             /\ access'[a].pc \in {"new", "agent", "mark"} => access[a].pc \in {"new", "agent", "mark"}
    BY <1>2, EndWrites
<1>3. DayPasses => access' = access
    BY DEF DayPasses, requestVars
<1> QED BY <1>1, <1>2, <1>3, EarnSteps, KeyFaultsKeep

(* Every other step keeps the copies of an access or loses it.             *)
LEMMA CopiesOnlyLost ==
    ASSUME RowsInv, [NoteNext]_vars, ~\E a \in Accesses : Push(a) \/ PushUnanswered(a)
    PROVE  /\ resent' = resent /\ lost \subseteq lost' /\ lost' \subseteq lost \cup Accesses
           /\ \A a \in Accesses :
                 \E n \in Nat : Copies(a)' = Copies(a) - n /\ (n > 0 => a \in lost')
<1> DEFINE Goal ==
           /\ resent' = resent /\ lost \subseteq lost' /\ lost' \subseteq lost \cup Accesses
           /\ \A a \in Accesses :
                 \E n \in Nat : Copies(a)' = Copies(a) - n /\ (n > 0 => a \in lost')
<1>0. \A a \in Accesses : Copies(a) \in Nat
    BY TalliesAre
<1>1. ASSUME resent' = resent, lost' = lost, \A a \in Accesses : Copies(a)' = Copies(a)
      PROVE  Goal
  <2>1. \A a \in Accesses : Copies(a)' = Copies(a) - 0 /\ ~(0 > 0)
      BY <1>0, <1>1
  <2> QED BY <1>1, <2>1
<1>2. ASSUME NEW r \in Runs, StartFlush(r) \/ Pop(r) \/ PopFails(r) \/ Popped(r) PROVE Goal
  <2>1. resent' = resent /\ lost' = lost
      BY <1>2 DEF StartFlush, Pop, PopFails, Popped, history
  <2>2. \A a \in Accesses : Copies(a)' = Copies(a)
      BY <1>2, PopTallies DEF SameTallies
  <2> QED BY <1>1, <2>1, <2>2
<1>3. ASSUME NEW r \in Runs, Insert(r) \/ CreditBalances(r) \/ CountLinks(r) PROVE Goal
  <2>1. resent' = resent /\ lost' = lost
      BY <1>3 DEF Insert, CreditBalances, CountLinks, history
  <2>2. \A a \in Accesses : Copies(a)' = Copies(a)
      BY <1>3, StatementTallies DEF SameTallies
  <2> QED BY <1>1, <2>1, <2>2
<1>4. ASSUME NEW r \in Runs, PopUnanswered(r) PROVE Goal
  <2>1. /\ resent' = resent /\ queue # <<>> /\ lost' = lost \cup {queue[Len(queue)]}
      BY <1>4 DEF PopUnanswered
  <2>2. queue[Len(queue)] \in Accesses
      BY <2>1, OverPop DEF RowsInv, QueueInv
  <2>3. \A a \in Accesses : Copies(a)' = Copies(a) \/ (a \in lost' /\ Copies(a)' = Copies(a) - 1)
      BY <1>4, LostTallies
  <2>4. \A a \in Accesses : Copies(a)' = Copies(a) => Copies(a)' = Copies(a) - 0 /\ ~(0 > 0)
      BY <1>0
  <2> QED BY <2>1, <2>2, <2>3, <2>4
<1>5. ASSUME \/ \E r \in Runs : StatementFails(r)
             \/ \E s \in Servers : ProcessEnds(s)
      PROVE  Goal
    BY <1>5, EndTallies
<1>6. ASSUME UNCHANGED <<queue, run, ledgers, lost, uncredited, unlinked, resent>> PROVE Goal
  <2>1. \A a \in Accesses : Copies(a)' = Copies(a)
      BY <1>6 DEF Copies, ledgers
  <2> QED BY <1>1, <1>6, <2>1
<1> HIDE DEF Goal
<1>7. Goal
    BY <1>2, <1>3, <1>4, <1>5, <1>6, RunsStay DEF FlushStep
<1> QED BY <1>7 DEF Goal

(* Every step keeps CopyInv.                                               *)
LEMMA CopyStep ==
    ASSUME EarnType, CopyInv, [NoteNext]_vars
    PROVE  CopyInv'
<1>0. RowsInv /\ RowsInv' /\ \A a \in Accesses : Copies(a) \in Nat /\ CopyPhase(a)
    BY RowsStep, TalliesAre DEF CopyInv
<1>1. ASSUME NEW a \in Accesses, Push(a) PROVE CopyInv'
  <2>1. /\ access[a].pc = "push" /\ lost' = lost /\ resent' = resent
        /\ access'[a].pc = "done" /\ \A b \in Accesses \ {a} : access'[b] = access[b]
      BY <1>1, PushWrites DEF Push, history, Writes
  <2>2. \A x \in Accesses : Copies(x)' = Copies(x) + (IF x = a THEN 1 ELSE 0)
      BY <1>0, <1>1, PushTallies
  <2>3. CopyPhase(a)'
      BY <1>0, <2>1, <2>2 DEF CopyPhase
  <2>4. \A b \in Accesses \ {a} : CopyPhase(b)'
      BY <1>0, <2>1, <2>2 DEF CopyPhase
  <2> QED BY <1>0, <2>3, <2>4 DEF CopyInv
<1>2. ASSUME NEW a \in Accesses, PushUnanswered(a) PROVE CopyInv'
  <2>1. /\ access[a].pc = "push" /\ lost' = lost /\ resent' = resent \cup {a} /\ access' = access
      BY <1>2 DEF PushUnanswered, requestVars
  <2>2. \A x \in Accesses : Copies(x)' = Copies(x) + (IF x = a THEN 1 ELSE 0)
      BY <1>0, <1>2, PushTallies
  <2>3. CopyPhase(a)'
      BY <1>0, <2>1, <2>2 DEF CopyPhase
  <2>4. \A b \in Accesses \ {a} : CopyPhase(b)'
      BY <1>0, <2>1, <2>2 DEF CopyPhase
  <2> QED BY <1>0, <2>3, <2>4 DEF CopyInv
<1>3. ASSUME ~\E a \in Accesses : Push(a) \/ PushUnanswered(a) PROVE CopyInv'
  <2>1. /\ resent' = resent /\ lost \subseteq lost'
        /\ \A a \in Accesses :
              /\ access'[a].pc = "done" <=> access[a].pc = "done"
              /\ access'[a].pc \in {"new", "agent", "mark"} => access[a].pc \in {"new", "agent", "mark"}
      BY <1>0, <1>3, PhaseStays, CopiesOnlyLost
  <2>2. ASSUME NEW a \in Accesses PROVE CopyPhase(a)'
    <3>1. PICK n \in Nat : Copies(a)' = Copies(a) - n /\ (n > 0 => a \in lost')
        BY <1>0, <1>3, CopiesOnlyLost
    <3>2. Copies(a)' \in Nat
      <4>1. queue' \in Seq(Accesses) /\ run' \in RunStates /\ rows'[a] \in Nat
          BY <1>0 DEF RowsInv, QueueInv
      <4>2. Times(a, queue') \in Nat /\ Held(run', a, {"pop", "insert"}) \in Nat
          BY <4>1, TimesOf, HeldParts
      <4> QED BY <4>1, <4>2 DEF Copies
    <3> QED BY <1>0, <2>1, <3>1, <3>2 DEF CopyPhase
  <2> QED BY <1>0, <2>2 DEF CopyInv
<1> QED BY <1>1, <1>2, <1>3

(* An access that was pushed is in the list, in a batch, in the table, or  *)
(* lost by a fault, and in one of them, once, unless its LPUSH was sent    *)
(* twice.                                                                  *)
THEOREM NoAccessVanishesHolds == NoteSpec => []NoAccessVanishes
<1>1. CopyInv => NoAccessVanishes
    <2> SUFFICES ASSUME CopyInv, NEW a \in Accesses
                 PROVE  LET copies == Times(a, queue) + InBatch(a, {"pop", "insert"}) + rows[a]
                        IN  /\ access[a].pc = "done" => copies > 0 \/ a \in lost
                            /\ a \notin resent => copies <= 1
        BY DEF NoAccessVanishes
    <2>1. Copies(a) = Times(a, queue) + InBatch(a, {"pop", "insert"}) + rows[a]
        BY InBatchIsHeld DEF Copies
    <2> QED BY <2>1 DEF CopyInv, CopyPhase
<1>2. EarnInv => EarnType
    BY DEF EarnInv
<1> QED BY <1>1, <1>2, EarnInit, EarnStep, CopyInit, CopyStep, PTL DEF NoteSpec

(***************************************************************************)
(* What balances and statistics hold                                       *)
(*                                                                         *)
(* They are sums over all accesses of what each is worth times its tally.  *)
(* What an access is worth is settled when its key is set, before it can   *)
(* have a row: its tallies, which are never negative, are 0 until then.    *)
(***************************************************************************)
Worth(a) == CutToScale(RevenueOf(a))

UserWorth(u) == [a \in Accesses |-> IF UserOf(a) = u /\ access[a].isEarn THEN Worth(a) ELSE 0]
LinkWorth(l) == [a \in Accesses |-> IF LinkOf(a) = l THEN Worth(a) ELSE 0]
LinkView(l)  == [a \in Accesses |-> IF LinkOf(a) = l THEN 1 ELSE 0]

(* The sum of the tallies, each access having a value.                     *)
Total(value, tally) == SumFunctionOnSet([a \in Accesses |-> value[a] * tally[a]], Accesses)

AllCredited == [a \in Accesses |-> Credited(a)]
AllCounted  == [a \in Accesses |-> Counted(a)]

TalliesInv ==
    /\ CopyInv
    /\ \A a \in Accesses : 0 <= Credited(a) /\ 0 <= Counted(a)

PaidInv ==
    /\ TalliesInv
    /\ balance = [u \in Users |-> Total(UserWorth(u), AllCredited)]
    /\ linkStats = [l \in Links |-> [revenue |-> Total(LinkWorth(l), AllCounted),
                                     views |-> Total(LinkView(l), AllCounted)]]

AllTimes(s) == [a \in Accesses |-> Times(a, s)]

(* What an access is worth is an integer.                                  *)
LEMMA WorthsAre ==
    /\ \A u : UserWorth(u) \in Values /\ UserWorth(u)' \in Values
    /\ \A l : /\ LinkWorth(l) \in Values /\ LinkWorth(l)' \in Values
              /\ LinkView(l) \in Values /\ LinkView(l)' = LinkView(l)
<1>1. \A a \in Accesses : Worth(a) \in Int /\ Worth(a)' \in Int
    BY RevenueIsText, TextsAreCut DEF Worth
<1>2. \A u : UserWorth(u) \in Values /\ UserWorth(u)' \in Values
    BY <1>1 DEF UserWorth, Values
<1>3. \A l : LinkWorth(l) \in Values /\ LinkWorth(l)' \in Values
    BY <1>1 DEF LinkWorth, Values
<1>4. \A l : LinkView(l) \in Values /\ LinkView(l)' = LinkView(l)
    BY DEF LinkView, Values
<1> QED BY <1>2, <1>3, <1>4

(* What the statements add is a sum over the accesses, too.                *)
LEMMA BatchSums ==
    ASSUME NEW s \in Seq(Accesses)
    PROVE  /\ \A u \in Users : Sent(RevenueByUser(s)[u]) = Total(UserWorth(u), AllTimes(s))
           /\ \A l \in Links :
                 /\ Sent(StatsByLink(s)[l].revenue) = Total(LinkWorth(l), AllTimes(s))
                 /\ StatsByLink(s)[l].views = Total(LinkView(l), AllTimes(s))
<1>0. \A a \in Accesses : Worth(a) = Scaled(a)
    BY RevenueIsText DEF Worth
<1>1. ASSUME NEW v \in Values
      PROVE  SumOver(s, v) = Total(v, AllTimes(s)) /\ Sent(SumOver(s, v)) = SumOver(s, v)
  <2>1. [a \in Accesses |-> v[a] * Times(a, s)] = [a \in Accesses |-> v[a] * AllTimes(s)[a]]
      BY DEF AllTimes
  <2>2. SumOver(s, v) = Total(v, AllTimes(s))
      BY <2>1, OverCounts DEF Total
  <2> QED BY <2>2, OverPlaces, SentAmountsAreExact
<1>2. ASSUME NEW u \in Users
      PROVE  Sent(RevenueByUser(s)[u]) = Total(UserWorth(u), AllTimes(s))
  <2>1. UserWorth(u) = [a \in Accesses |-> IF UserOf(a) = u /\ access[a].isEarn THEN Scaled(a) ELSE 0]
      BY <1>0 DEF UserWorth
  <2>2. RevenueByUser(s)[u] = SumOver(s, UserWorth(u))
      BY <2>1 DEF RevenueByUser
  <2> QED BY <1>1, <2>2, WorthsAre
<1>3. ASSUME NEW l \in Links
      PROVE  /\ Sent(StatsByLink(s)[l].revenue) = Total(LinkWorth(l), AllTimes(s))
             /\ StatsByLink(s)[l].views = Total(LinkView(l), AllTimes(s))
  <2>1. LinkWorth(l) = [a \in Accesses |-> IF LinkOf(a) = l THEN Scaled(a) ELSE 0]
      BY <1>0 DEF LinkWorth
  <2>2. /\ StatsByLink(s)[l].revenue = SumOver(s, LinkWorth(l))
        /\ StatsByLink(s)[l].views = SumOver(s, LinkView(l))
      BY <2>1 DEF StatsByLink, LinkView
  <2> QED BY <1>1, <2>2, WorthsAre
<1> QED BY <1>2, <1>3

(* A total grows by what is added to each of its tallies.                  *)
LEMMA TotalGrows ==
    ASSUME NEW v \in Values, NEW c \in Values, NEW d \in Values,
           NEW s \in Seq(Accesses), \A a \in Accesses : d[a] = c[a] + Times(a, s)
    PROVE  Total(v, d) = Total(v, c) + Total(v, AllTimes(s))
<1> DEFINE F == [a \in Accesses |-> v[a] * c[a]]
           G == [a \in Accesses |-> v[a] * AllTimes(s)[a]]
           H == [a \in Accesses |-> v[a] * d[a]]
<1>1. ASSUME NEW a \in Accesses
      PROVE  F[a] \in Int /\ G[a] \in Int /\ H[a] = F[a] + G[a]
  <2>1. PICK n \in Int : n = v[a]
      BY DEF Values
  <2>2. PICK k \in Int : k = c[a]
      BY DEF Values
  <2>3. PICK t \in Nat : t = Times(a, s)
      BY TimesOf
  <2>4. n * k \in Int /\ n * t \in Int /\ n * (k + t) = n * k + n * t
      OBVIOUS
  <2> QED BY <2>1, <2>2, <2>3, <2>4 DEF AllTimes
<1>2. IsFiniteSet(Accesses)
    BY NoteAssumption
<1> HIDE DEF F, G, H
<1>3. SumFunctionOnSet(H, Accesses) = SumFunctionOnSet(F, Accesses) + SumFunctionOnSet(G, Accesses)
    BY <1>1, <1>2, SumAdds
<1> QED BY <1>3 DEF F, G, H, Total

(* A total stays when values change only where tallies are 0.              *)
LEMMA TotalStays ==
    ASSUME NEW v \in Values, NEW w \in Values, NEW c \in Values,
           \A a \in Accesses : v[a] = w[a] \/ c[a] = 0
    PROVE  Total(v, c) = Total(w, c)
<1>1. ASSUME NEW a \in Accesses PROVE v[a] * c[a] = w[a] * c[a]
  <2>1. v[a] \in Int /\ w[a] \in Int
      BY DEF Values
  <2> QED BY <2>1
<1>2. [a \in Accesses |-> v[a] * c[a]] = [a \in Accesses |-> w[a] * c[a]]
    BY <1>1
<1> QED BY <1>2 DEF Total

(* Totals of integers are integers, and of naturals naturals.              *)
LEMMA TotalsAre ==
    ASSUME NEW v \in Values, NEW c \in Values
    PROVE  /\ Total(v, c) \in Int
           /\ (\A a \in Accesses : v[a] \in Nat /\ c[a] \in Nat) => Total(v, c) \in Nat
           /\ (\A a \in Accesses : c[a] = 0) => Total(v, c) = 0
<1> DEFINE F == [a \in Accesses |-> v[a] * c[a]]
<1>0. Total(v, c) = SumFunctionOnSet(F, Accesses) /\ IsFiniteSet(Accesses)
    BY NoteAssumption DEF Total
<1>1. \A a \in Accesses : v[a] \in Int /\ c[a] \in Int /\ F[a] = v[a] * c[a]
    BY DEF Values
<1> HIDE DEF F
<1>2. Total(v, c) \in Int
  <2>1. \A a \in Accesses : F[a] \in Int
      BY <1>1
  <2> QED BY <1>0, <2>1, SumInt
<1>3. ASSUME \A a \in Accesses : v[a] \in Nat /\ c[a] \in Nat PROVE Total(v, c) \in Nat
  <2>1. \A a \in Accesses : F[a] \in Nat
      BY <1>1, <1>3
  <2> QED BY <1>0, <2>1, SumNat
<1>4. ASSUME \A a \in Accesses : c[a] = 0 PROVE Total(v, c) = 0
  <2>1. \A a \in Accesses : F[a] = 0
      BY <1>1, <1>4
  <2> QED BY <1>0, <2>1, SumZero
<1> QED BY <1>2, <1>3, <1>4

(* What an access is worth changes when its key is set, while its tallies  *)
(* are 0.                                                                  *)
LEMMA WorthSettled ==
    ASSUME EarnType, TalliesInv, [NoteNext]_vars, NEW a \in Accesses
    PROVE  \/ RevenueOf(a)' = RevenueOf(a) /\ (access'[a].isEarn <=> access[a].isEarn)
           \/ Credited(a)' = 0 /\ Counted(a)' = 0
<1> DEFINE Same == RevenueOf(a)' = RevenueOf(a) /\ (access'[a].isEarn <=> access[a].isEarn)
           Fresh == Credited(a)' = 0 /\ Counted(a)' = 0
<1>0. RowsInv /\ CopyPhase(a) /\ 0 <= Credited(a) /\ 0 <= Counted(a)
    BY DEF TalliesInv, CopyInv
<1>1. (access'[a].isEarn <=> access[a].isEarn) => Same
    BY DEF RevenueOf
<1>2. ASSUME NEW b \in Accesses, Arrive(b) \/ InsertNoteAgent(b) \/ Push(b) PROVE Same
    BY <1>1, <1>2, ArriveWrites, AgentWrites, PushWrites DEF Writes
<1>3. ASSUME NEW b \in Accesses, Mark(b), b # a PROVE Same
    BY <1>1, <1>3, MarkWrites DEF Writes
<1>4. ASSUME Mark(a) PROVE Fresh
  <2>1. access[a].pc = "mark" /\ Copies(a) = 0
      BY <1>0, <1>4 DEF Mark, CopyPhase
  <2>2. /\ Times(a, queue) \in Nat /\ rows[a] \in Nat
        /\ uncredited[a] \in Nat /\ unlinked[a] \in Nat
        /\ \A pcs : Held(run, a, pcs) \in Nat
      BY <1>0, TalliesAre
  <2>3. rows[a] = 0
      BY <2>1, <2>2 DEF Copies
  <2>4. Credited(a) = 0 /\ Counted(a) = 0
      BY <1>0, <2>2, <2>3 DEF Credited, Counted
  <2>5. UNCHANGED <<run, rows, uncredited, unlinked>>
      BY <1>4 DEF Mark, ledgers, history
  <2> QED BY <2>4, <2>5 DEF Credited, Counted
<1>5. ASSUME NEW s \in Servers, ProcessEnds(s) PROVE Same
    BY <1>1, <1>5, EndWrites
<1>6. access' = access \/ DayPasses => Same
    BY <1>1 DEF DayPasses, requestVars
<1> HIDE DEF Same, Fresh
<1>7. Same \/ Fresh
    BY <1>2, <1>3, <1>4, <1>5, <1>6, EarnSteps, KeyFaultsKeep
<1> QED BY <1>7 DEF Same, Fresh

(* Only the statements add to the tallies.                                 *)
LEMMA TalliesOnlyAdded ==
    ASSUME RowsInv, [NoteNext]_vars,
           ~\E r \in Runs : CreditBalances(r) \/ CountLinks(r), NEW x \in Accesses
    PROVE  Credited(x)' = Credited(x) /\ Counted(x)' = Counted(x)
<1>1. ASSUME UNCHANGED <<queue, run, ledgers, lost, uncredited, unlinked, resent>>
      PROVE  Credited(x)' = Credited(x) /\ Counted(x)' = Counted(x)
    BY <1>1 DEF Credited, Counted, ledgers
<1>2. ASSUME NEW r \in Runs, StartFlush(r) \/ Pop(r) \/ PopFails(r) \/ Popped(r) \/ Insert(r)
      PROVE  Credited(x)' = Credited(x) /\ Counted(x)' = Counted(x)
    BY <1>2, PopTallies, StatementTallies DEF SameTallies
<1> QED BY <1>1, <1>2, PushTallies, LostTallies, EndTallies, RunsStay DEF FlushStep

(* And only they write balances and statistics.                            *)
LEMMA LedgersWritten ==
    ASSUME [NoteNext]_vars
    PROVE  /\ ~(\E r \in Runs : CreditBalances(r)) => balance' = balance
           /\ ~(\E r \in Runs : CountLinks(r)) => linkStats' = linkStats
<1>1. ASSUME NEW a \in Accesses, Push(a) \/ PushUnanswered(a)
      PROVE  balance' = balance /\ linkStats' = linkStats
    BY <1>1 DEF Push, PushUnanswered, ledgers
<1>2. ASSUME NEW r \in Runs, StartFlush(r) \/ Pop(r) \/ Popped(r) \/ Insert(r)
                             \/ PopUnanswered(r) \/ PopFails(r) \/ StatementFails(r)
      PROVE  balance' = balance /\ linkStats' = linkStats
    BY <1>2 DEF StartFlush, Pop, Popped, Insert, PopUnanswered, PopFails, StatementFails, ledgers
<1>3. ASSUME NEW r \in Runs
      PROVE  /\ CreditBalances(r) => linkStats' = linkStats
             /\ CountLinks(r) => balance' = balance
    BY DEF CreditBalances, CountLinks
<1>4. ASSUME NEW s \in Servers, ProcessEnds(s) PROVE balance' = balance /\ linkStats' = linkStats
    BY <1>4 DEF ProcessEnds, ledgers
<1>5. ASSUME UNCHANGED ledgers PROVE balance' = balance /\ linkStats' = linkStats
    BY <1>5 DEF ledgers
<1> QED BY <1>1, <1>2, <1>3, <1>4, <1>5, RunsStay DEF FlushStep

(* Every step keeps the tallies from going below zero.                     *)
LEMMA TalliesStep ==
    ASSUME EarnType, TalliesInv, [NoteNext]_vars
    PROVE  TalliesInv'
<1>0. RowsInv /\ CopyInv'
    BY CopyStep DEF TalliesInv, CopyInv
<1>1. ASSUME NEW x \in Accesses PROVE 0 <= Credited(x)' /\ 0 <= Counted(x)'
  <2>1. /\ 0 <= Credited(x) /\ 0 <= Counted(x)
        /\ Credited(x) \in Int /\ Counted(x) \in Int
        /\ \A r \in Runs : Times(x, run[r].batch) \in Nat
      BY <1>0, TalliesAre DEF TalliesInv
  <2>2. ASSUME NEW r \in Runs, CreditBalances(r) \/ CountLinks(r)
        PROVE  0 <= Credited(x)' /\ 0 <= Counted(x)'
      BY <1>0, <2>1, <2>2, StatementTallies
  <2>3. ASSUME ~\E r \in Runs : CreditBalances(r) \/ CountLinks(r)
        PROVE  0 <= Credited(x)' /\ 0 <= Counted(x)'
      BY <1>0, <2>1, <2>3, TalliesOnlyAdded
  <2> QED BY <2>2, <2>3
<1> QED BY <1>0, <1>1 DEF TalliesInv

(* At first there is nothing to hold.                                      *)
LEMMA PaidInit == NoteInit => PaidInv
<1> SUFFICES ASSUME NoteInit PROVE PaidInv
    OBVIOUS
<1>1. \A a \in Accesses : Credited(a) = 0 /\ Counted(a) = 0
    BY TalliesInit
<1>2. TalliesInv
    BY <1>1, CopyInit DEF TalliesInv
<1>3. /\ AllCredited \in Values /\ AllCounted \in Values
      /\ \A a \in Accesses : AllCredited[a] = 0 /\ AllCounted[a] = 0
    BY <1>1 DEF AllCredited, AllCounted, Values
<1>4. \A v \in Values : Total(v, AllCredited) = 0 /\ Total(v, AllCounted) = 0
    BY <1>3, TotalsAre
<1>5. /\ balance = [u \in Users |-> 0]
      /\ linkStats = [l \in Links |-> [revenue |-> 0, views |-> 0]]
    BY DEF NoteInit
<1> QED BY <1>2, <1>4, <1>5, WorthsAre DEF PaidInv

(* Every step keeps the sums.                                              *)
LEMMA PaidStep ==
    ASSUME EarnType, PaidInv, [NoteNext]_vars
    PROVE  PaidInv'
<1>0. RowsInv /\ TalliesInv /\ TalliesInv' /\ RowsInv'
    BY TalliesStep, RowsStep DEF PaidInv, TalliesInv, CopyInv
<1> DEFINE c0 == AllCredited
           c1 == AllCredited'
           k0 == AllCounted
           k1 == AllCounted'
<1>1. /\ c0 \in Values /\ k0 \in Values
      /\ \A a \in Accesses : c0[a] = Credited(a) /\ k0[a] = Counted(a)
    BY <1>0, TalliesAre DEF AllCredited, AllCounted, Values
<1>2. /\ c1 \in Values /\ k1 \in Values
      /\ \A a \in Accesses : c1[a] = Credited(a)' /\ k1[a] = Counted(a)'
  <2>1. /\ run' \in RunStates
        /\ \A a \in Accesses : rows'[a] \in Int /\ uncredited'[a] \in Int /\ unlinked'[a] \in Int
      BY <1>0 DEF RowsInv, QueueInv
  <2>2. ASSUME NEW a \in Accesses, NEW pcs PROVE Held(run', a, pcs) \in Nat
      BY <2>1, HeldParts
  <2> QED BY <2>1, <2>2 DEF AllCredited, AllCounted, Credited, Counted, Values
<1>3. /\ balance = [u \in Users |-> Total(UserWorth(u), c0)]
      /\ linkStats = [l \in Links |-> [revenue |-> Total(LinkWorth(l), k0),
                                       views |-> Total(LinkView(l), k0)]]
    BY DEF PaidInv
<1>4. ASSUME balance' = [u \in Users |-> Total(UserWorth(u)', c1)],
             linkStats' = [l \in Links |-> [revenue |-> Total(LinkWorth(l)', k1),
                                            views |-> Total(LinkView(l)', k1)]]
      PROVE  PaidInv'
  <2>1. \A v : Total(v, AllCredited)' = Total(v', c1) /\ Total(v, AllCounted)' = Total(v', k1)
      BY DEF Total
  <2> QED BY <1>0, <1>4, <2>1 DEF PaidInv
<1> HIDE DEF c0, c1, k0, k1
<1>5. ASSUME NEW r \in Runs, CreditBalances(r) PROVE PaidInv'
  <2> DEFINE s == run[r].batch
  <2>1. s \in Seq(Accesses)
      BY <1>0 DEF RowsInv, QueueInv, RunStates, FlushRun
  <2>2. /\ access' = access /\ linkStats' = linkStats
        /\ balance' = [u \in Users |-> balance[u] + Sent(RevenueByUser(s)[u])]
      BY <1>5 DEF CreditBalances, requestVars
  <2>3. \A a \in Accesses : c1[a] = c0[a] + Times(a, s) /\ k1[a] = k0[a]
      BY <1>0, <1>1, <1>2, <1>5, StatementTallies
  <2>4. /\ \A u : UserWorth(u)' = UserWorth(u)
        /\ \A l : LinkWorth(l)' = LinkWorth(l) /\ LinkView(l)' = LinkView(l)
      BY <2>2 DEF UserWorth, LinkWorth, LinkView, Worth, RevenueOf
  <2>5. k1 = k0
      BY <1>1, <1>2, <2>3 DEF Values
  <2> HIDE DEF s
  <2>6. ASSUME NEW u \in Users PROVE balance'[u] = Total(UserWorth(u)', c1)
    <3>1. Total(UserWorth(u), c1) = Total(UserWorth(u), c0) + Total(UserWorth(u), AllTimes(s))
        BY <1>1, <1>2, <2>1, <2>3, WorthsAre, TotalGrows
    <3>2. Sent(RevenueByUser(s)[u]) = Total(UserWorth(u), AllTimes(s))
        BY <2>1, BatchSums
    <3>3. balance'[u] = Total(UserWorth(u), c0) + Sent(RevenueByUser(s)[u])
        BY <1>3, <2>2
    <3> QED BY <2>4, <3>1, <3>2, <3>3
  <2>7. balance' = [u \in Users |-> Total(UserWorth(u)', c1)]
      BY <2>2, <2>6
  <2> QED BY <1>3, <1>4, <2>2, <2>4, <2>5, <2>7
<1>6. ASSUME NEW r \in Runs, CountLinks(r) PROVE PaidInv'
  <2> DEFINE s == run[r].batch
  <2>1. s \in Seq(Accesses)
      BY <1>0 DEF RowsInv, QueueInv, RunStates, FlushRun
  <2>2. /\ access' = access /\ balance' = balance
        /\ linkStats' = [l \in Links |->
                            [revenue |-> linkStats[l].revenue + Sent(StatsByLink(s)[l].revenue),
                             views |-> linkStats[l].views + StatsByLink(s)[l].views]]
      BY <1>6 DEF CountLinks, requestVars
  <2>3. \A a \in Accesses : k1[a] = k0[a] + Times(a, s) /\ c1[a] = c0[a]
      BY <1>0, <1>1, <1>2, <1>6, StatementTallies
  <2>4. /\ \A u : UserWorth(u)' = UserWorth(u)
        /\ \A l : LinkWorth(l)' = LinkWorth(l) /\ LinkView(l)' = LinkView(l)
      BY <2>2 DEF UserWorth, LinkWorth, LinkView, Worth, RevenueOf
  <2>5. c1 = c0
      BY <1>1, <1>2, <2>3 DEF Values
  <2> HIDE DEF s
  <2>6. ASSUME NEW l \in Links
        PROVE  /\ linkStats'[l] = [revenue |-> linkStats[l].revenue + Sent(StatsByLink(s)[l].revenue),
                                    views |-> linkStats[l].views + StatsByLink(s)[l].views]
               /\ linkStats[l].revenue + Sent(StatsByLink(s)[l].revenue) = Total(LinkWorth(l)', k1)
               /\ linkStats[l].views + StatsByLink(s)[l].views = Total(LinkView(l)', k1)
    <3>1. /\ Total(LinkWorth(l), k1) = Total(LinkWorth(l), k0) + Total(LinkWorth(l), AllTimes(s))
          /\ Total(LinkView(l), k1) = Total(LinkView(l), k0) + Total(LinkView(l), AllTimes(s))
        BY <1>1, <1>2, <2>1, <2>3, WorthsAre, TotalGrows
    <3>2. /\ Sent(StatsByLink(s)[l].revenue) = Total(LinkWorth(l), AllTimes(s))
          /\ StatsByLink(s)[l].views = Total(LinkView(l), AllTimes(s))
        BY <2>1, BatchSums
    <3>3. linkStats[l].revenue = Total(LinkWorth(l), k0) /\ linkStats[l].views = Total(LinkView(l), k0)
        BY <1>3
    <3> QED BY <2>2, <2>4, <3>1, <3>2, <3>3
  <2>7. linkStats' = [l \in Links |-> [revenue |-> Total(LinkWorth(l)', k1),
                                       views |-> Total(LinkView(l)', k1)]]
      BY <2>2, <2>6
  <2> QED BY <1>3, <1>4, <2>2, <2>4, <2>5, <2>7
<1>7. ASSUME ~\E r \in Runs : CreditBalances(r) \/ CountLinks(r) PROVE PaidInv'
  <2>1. balance' = balance /\ linkStats' = linkStats
      BY <1>7, LedgersWritten
  <2>2. \A a \in Accesses : c1[a] = c0[a] /\ k1[a] = k0[a]
      BY <1>0, <1>1, <1>2, <1>7, TalliesOnlyAdded
  <2>3. c1 = c0 /\ k1 = k0
      BY <1>1, <1>2, <2>2 DEF Values
  <2>4. ASSUME NEW a \in Accesses
        PROVE  \/ /\ \A u : UserWorth(u)'[a] = UserWorth(u)[a]
                  /\ \A l : LinkWorth(l)'[a] = LinkWorth(l)[a]
               \/ c0[a] = 0 /\ k0[a] = 0
    <3>1. CASE RevenueOf(a)' = RevenueOf(a) /\ (access'[a].isEarn <=> access[a].isEarn)
        BY <3>1 DEF UserWorth, LinkWorth, Worth
    <3>2. CASE Credited(a)' = 0 /\ Counted(a)' = 0
        BY <1>2, <2>2, <3>2
    <3> QED BY <1>0, <3>1, <3>2, WorthSettled
  <2>5. \A u : Total(UserWorth(u)', c1) = Total(UserWorth(u), c0)
      BY <1>1, <2>3, <2>4, WorthsAre, TotalStays
  <2>6. \A l : /\ Total(LinkWorth(l)', k1) = Total(LinkWorth(l), k0)
               /\ Total(LinkView(l)', k1) = Total(LinkView(l), k0)
      BY <1>1, <2>3, <2>4, WorthsAre, TotalStays
  <2> QED BY <1>3, <1>4, <2>1, <2>5, <2>6
<1> QED BY <1>5, <1>6, <1>7

(* The sums of the properties are those of the invariant.                  *)
LEMMA PaidFollows == PaidInv => BalancesFollowRows /\ LinksFollowRows
<1> SUFFICES ASSUME PaidInv PROVE BalancesFollowRows /\ LinksFollowRows
    OBVIOUS
<1>0. RowsInv /\ IsFiniteSet(Accesses)
    BY NoteAssumption DEF PaidInv, TalliesInv, CopyInv
<1>1. \A a \in Accesses : Credited(a) \in Int /\ Counted(a) \in Int /\ Worth(a) \in Int
    BY <1>0, TalliesAre, RevenueIsText, TextsAreCut DEF Worth
<1>2. \A a \in Accesses :
         /\ Credited(a) = rows[a] - InBatch(a, {"balances"}) - uncredited[a]
         /\ Counted(a) = rows[a] - InBatch(a, {"balances", "links"}) - unlinked[a]
    BY InBatchIsHeld DEF Credited, Counted
(* A total is a sum over the accesses that count.                          *)
<1>3. ASSUME NEW value, NEW tally, NEW f, NEW T \in SUBSET Accesses,
             \A a \in T : f[a] \in Int /\ value[a] * tally[a] = f[a],
             \A a \in Accesses \ T : value[a] * tally[a] = 0
      PROVE  Total(value, tally) = SumFunctionOnSet(f, T)
  <2>1. [a \in Accesses |-> value[a] * tally[a]] = [a \in Accesses |-> IF a \in T THEN f[a] ELSE 0]
      BY <1>3
  <2>2. SumFunctionOnSet(f, T) = SumFunctionOnSet([a \in Accesses |-> IF a \in T THEN f[a] ELSE 0], Accesses)
      BY <1>0, <1>3, SumWithin
  <2> QED BY <2>1, <2>2 DEF Total
<1>4. BalancesFollowRows
  <2> SUFFICES ASSUME NEW u \in Users
               PROVE  balance[u] = SumFunctionOnSet(
                          [a \in Accesses |-> CutToScale(RevenueOf(a))
                              * (rows[a] - InBatch(a, {"balances"}) - uncredited[a])],
                          {a \in Accesses : UserOf(a) = u /\ access[a].isEarn})
      BY DEF BalancesFollowRows
  <2> DEFINE T == {a \in Accesses : UserOf(a) = u /\ access[a].isEarn}
             f == [a \in Accesses |-> Worth(a) * Credited(a)]
  <2>1. f = [a \in Accesses |-> CutToScale(RevenueOf(a))
                 * (rows[a] - InBatch(a, {"balances"}) - uncredited[a])]
      BY <1>2 DEF Worth
  <2>2. \A a \in T : f[a] \in Int /\ UserWorth(u)[a] * AllCredited[a] = f[a]
      BY <1>1 DEF UserWorth, AllCredited
  <2>3. \A a \in Accesses \ T : UserWorth(u)[a] * AllCredited[a] = 0
      BY <1>1 DEF UserWorth, AllCredited
  <2>4. T \in SUBSET Accesses /\ balance[u] = Total(UserWorth(u), AllCredited)
      BY DEF PaidInv
  <2> HIDE DEF f, T
  <2>5. balance[u] = SumFunctionOnSet(f, T)
      BY <1>3, <2>2, <2>3, <2>4
  <2> QED BY <2>1, <2>5 DEF T
<1>5. LinksFollowRows
  <2> SUFFICES ASSUME NEW l \in Links
               PROVE  LET of      == {a \in Accesses : LinkOf(a) = l}
                          counts  == [a \in Accesses |->
                              rows[a] - InBatch(a, {"balances", "links"}) - unlinked[a]]
                          revenue == [a \in Accesses |-> CutToScale(RevenueOf(a)) * counts[a]]
                      IN  /\ linkStats[l].views = SumFunctionOnSet(counts, of)
                          /\ linkStats[l].revenue = SumFunctionOnSet(revenue, of)
      BY DEF LinksFollowRows
  <2> DEFINE T == {a \in Accesses : LinkOf(a) = l}
             n == [a \in Accesses |-> Counted(a)]
             f == [a \in Accesses |-> Worth(a) * n[a]]
  <2>1. /\ n = [a \in Accesses |-> rows[a] - InBatch(a, {"balances", "links"}) - unlinked[a]]
        /\ f = [a \in Accesses |-> CutToScale(RevenueOf(a)) * n[a]]
      BY <1>2 DEF Worth
  <2>2. \A a \in T : /\ f[a] \in Int /\ LinkWorth(l)[a] * AllCounted[a] = f[a]
                     /\ n[a] \in Int /\ LinkView(l)[a] * AllCounted[a] = n[a]
      BY <1>1 DEF LinkWorth, LinkView, AllCounted
  <2>3. \A a \in Accesses \ T : /\ LinkWorth(l)[a] * AllCounted[a] = 0
                                /\ LinkView(l)[a] * AllCounted[a] = 0
      BY <1>1 DEF LinkWorth, LinkView, AllCounted
  <2>4. /\ T \in SUBSET Accesses
        /\ linkStats[l].revenue = Total(LinkWorth(l), AllCounted)
        /\ linkStats[l].views = Total(LinkView(l), AllCounted)
      BY DEF PaidInv
  <2> HIDE DEF f, n, T
  <2>5. linkStats[l].revenue = SumFunctionOnSet(f, T) /\ linkStats[l].views = SumFunctionOnSet(n, T)
      BY <1>3, <2>2, <2>3, <2>4
  <2> QED BY <2>1, <2>5 DEF T
<1> QED BY <1>4, <1>5

(* A user's balance is the revenue of its earning rows, cut to the scale,  *)
(* but for the rows that no run has added yet or ever will.                *)
THEOREM BalancesFollowRowsHolds == NoteSpec => []BalancesFollowRows
<1>1. EarnInv => EarnType
    BY DEF EarnInv
<1> QED BY <1>1, EarnInit, EarnStep, PaidInit, PaidStep, PaidFollows, PTL DEF NoteSpec

(* Revenue and views of a link are those of its rows, with the same gap.   *)
THEOREM LinksFollowRowsHolds == NoteSpec => []LinksFollowRows
<1>1. EarnInv => EarnType
    BY DEF EarnInv
<1> QED BY <1>1, EarnInit, EarnStep, PaidInit, PaidStep, PaidFollows, PTL DEF NoteSpec

(***************************************************************************)
(* Types                                                                   *)
(***************************************************************************)
LedgerType ==
    /\ marks \in SUBSET MarkKeys /\ dropped \in SUBSET MarkKeys
    /\ remarked \in SUBSET Accesses
    /\ \A a \in Accesses : access[a].pc = "mark" => access[a].day \in Days
    /\ faults \in 0..MaxFaults
    /\ lost \in SUBSET Accesses /\ resent \in SUBSET Accesses

(* The keys, the faults and the histories keep their types.                *)
LEMMA LedgerTypeStep ==
    ASSUME EarnType, RowsInv, LedgerType, [NoteNext]_vars
    PROVE  LedgerType'
<1>1. \A a \in Accesses : access'[a].pc = "mark" => access'[a].day \in Days
  <2>1. \A a \in Accesses : access[a].pc = "mark" => access[a].day \in Days
      BY DEF LedgerType
  <2>2. ASSUME NEW b \in Accesses, Arrive(b) \/ Mark(b) \/ Push(b), NEW a \in Accesses, access'[a].pc = "mark"
        PROVE  access'[a].day \in Days
      BY <2>1, <2>2, ArriveWrites, MarkWrites, PushWrites DEF Writes
  <2>3. ASSUME NEW b \in Accesses, InsertNoteAgent(b), NEW a \in Accesses, access'[a].pc = "mark"
        PROVE  access'[a].day \in Days
      BY <2>1, <2>3, AgentWrites DEF Writes, EarnType
  <2>4. ASSUME NEW s \in Servers, ProcessEnds(s), NEW a \in Accesses, access'[a].pc = "mark"
        PROVE  access'[a].day \in Days
      BY <2>1, <2>4, EndWrites
  <2>5. DayPasses => access' = access
      BY DEF DayPasses, requestVars
  <2> QED BY <2>1, <2>2, <2>3, <2>4, <2>5, EarnSteps, KeyFaultsKeep
<1>2. marks' \in SUBSET MarkKeys /\ dropped' \in SUBSET MarkKeys /\ remarked' \in SUBSET Accesses
  <2>1. marks \in SUBSET MarkKeys /\ dropped \in SUBSET MarkKeys /\ remarked \in SUBSET Accesses
      BY DEF LedgerType
  <2>2. ASSUME NEW b \in Accesses, Mark(b) \/ MarkUnanswered(b)
        PROVE  /\ marks' \in SUBSET MarkKeys /\ dropped' = dropped
               /\ remarked' \in {remarked, remarked \cup {b}}
    <3>1. /\ access[b].day \in Days /\ marks' = marks \cup {AccessKey(b)} /\ dropped' = dropped
          /\ remarked' \in {remarked, remarked \cup {b}}
        BY <2>2 DEF Mark, MarkUnanswered, LedgerType, history
    <3>2. AccessKey(b) \in MarkKeys
        BY <3>1 DEF AccessKey, MarkKeys
    <3> QED BY <2>1, <3>1, <3>2
  <2>3. ASSUME NEW b \in Accesses, Arrive(b) \/ InsertNoteAgent(b) \/ Push(b)
        PROVE  UNCHANGED <<marks, dropped, remarked>>
      BY <2>3 DEF Arrive, InsertNoteAgent, Push, history
  <2>4. \A s \in Servers : ProcessEnds(s) => UNCHANGED <<marks, dropped, remarked>>
      BY DEF ProcessEnds
  <2>5. DayPasses => UNCHANGED <<marks, dropped, remarked>>
      BY DEF DayPasses, requestVars, history
  <2>6. ASSUME MarkDropped
        PROVE  /\ marks' \in SUBSET MarkKeys /\ dropped' \in SUBSET MarkKeys
               /\ remarked' = remarked
      BY <2>1, <2>6 DEF MarkDropped
  <2> QED BY <2>1, <2>2, <2>3, <2>4, <2>5, <2>6, EarnSteps
<1>3. faults' \in 0..MaxFaults
  <2>1. faults \in 0..MaxFaults /\ MaxFaults \in Nat
      BY NoteAssumption DEF LedgerType
  <2>2. Fault => faults' \in 0..MaxFaults
      BY <2>1 DEF Fault
  <2>3. Fault \/ faults' = faults
    <3>1. ASSUME NEW a \in Accesses,
                 Arrive(a) \/ InsertNoteAgent(a) \/ Mark(a) \/ Push(a) \/ PushUnanswered(a)
          PROVE  Fault \/ faults' = faults
        BY <3>1 DEF Arrive, InsertNoteAgent, Mark, Push, PushUnanswered, history
    <3>2. ASSUME NEW r \in Runs, StartFlush(r) \/ FlushStep(r)
          PROVE  faults' = faults
        BY <3>2 DEF StartFlush, FlushStep, Pop, Popped, Insert, CreditBalances, CountLinks, history
    <3>3. \A r \in Runs : PopUnanswered(r) \/ PopFails(r) \/ StatementFails(r) => Fault
        BY DEF PopUnanswered, PopFails, StatementFails
    <3>4. /\ (\A s \in Servers : ProcessEnds(s) => Fault) /\ (AgentFault => Fault)
          /\ (\A a \in Accesses : MarkUnanswered(a) => Fault) /\ (MarkDropped => Fault)
        BY DEF ProcessEnds, AgentFault, MarkUnanswered, MarkDropped
    <3>5. DayPasses \/ AgentStep \/ UNCHANGED vars => faults' = faults
        BY DEF DayPasses, AgentStep, vars, history
    <3> QED BY <3>1, <3>2, <3>3, <3>4, <3>5 DEF NoteNext
  <2> QED BY <2>1, <2>2, <2>3
<1>4. lost' \in SUBSET Accesses /\ resent' \in SUBSET Accesses
  <2>1. lost \in SUBSET Accesses /\ resent \in SUBSET Accesses
      BY DEF LedgerType
  <2>2. ASSUME NEW a \in Accesses, Push(a) \/ PushUnanswered(a)
        PROVE  lost' \in SUBSET Accesses /\ resent' \in SUBSET Accesses
    <3>1. lost' = lost /\ (resent' = resent \/ resent' = resent \cup {a})
        BY <2>2 DEF Push, PushUnanswered, history
    <3> QED BY <2>1, <3>1
  <2>3. ASSUME ~\E a \in Accesses : Push(a) \/ PushUnanswered(a)
        PROVE  lost' \in SUBSET Accesses /\ resent' \in SUBSET Accesses
      BY <2>1, <2>3, CopiesOnlyLost
  <2> QED BY <2>2, <2>3
<1> QED BY <1>1, <1>2, <1>3, <1>4 DEF LedgerType

(* Ids, keys and rows of user agents keep their types.                     *)
LEMMA AgentTypeStep ==
    ASSUME AgentTypeOK, [NoteNext]_vars
    PROVE  AgentTypeOK'
<1>0. /\ agents \in SUBSET Agents /\ nextId \in 1..(LastId + 1) /\ known \in SUBSET Agents
      /\ seen \in [Visits -> {"new", "insert", "done"}] /\ missed \in SUBSET Agents
      /\ LastId \in Nat \ {0} /\ \A v \in Visits : AgentOf[v] \in Agents
    BY AgentAssumption DEF AgentTypeOK
<1>1. ASSUME NEW h \in Agents, EnsureUserAgent(h)
      PROVE  agents' \in SUBSET Agents /\ nextId' \in 1..(LastId + 1)
    BY <1>0, <1>1 DEF EnsureUserAgent, Exhausted
<1>2. ASSUME UNCHANGED agentVars PROVE AgentTypeOK'
    BY <1>0, <1>2 DEF AgentTypeOK, agentVars
<1>3. ASSUME NEW a \in Accesses, InsertNoteAgent(a) PROVE AgentTypeOK'
  <2>1. Given[a].agent \in Agents
      BY NoteAssumption
  <2>2. EnsureUserAgent(Given[a].agent) /\ UNCHANGED <<known, seen, missed>>
      BY <1>3 DEF InsertNoteAgent
  <2> QED BY <1>0, <1>1, <2>1, <2>2 DEF AgentTypeOK
<1>4. ASSUME NEW v \in Visits, MarkAgent(v) PROVE AgentTypeOK'
    BY <1>0, <1>4 DEF AgentTypeOK, MarkAgent
<1>r. ASSUME NEW v \in Visits, MarkAgentResent(v) PROVE AgentTypeOK'
    BY <1>0, <1>r DEF AgentTypeOK, MarkAgentResent
<1>5. ASSUME NEW v \in Visits, InsertAgent(v) PROVE AgentTypeOK'
  <2>1. /\ agents' \in SUBSET Agents /\ nextId' \in 1..(LastId + 1)
        /\ seen' = [seen EXCEPT ![v] = "done"] /\ UNCHANGED <<known, missed>>
      BY <1>0, <1>1, <1>5 DEF InsertAgent
  <2> QED BY <1>0, <2>1 DEF AgentTypeOK
<1>6. ASSUME NEW v \in Visits, AgentInsertFails(v) PROVE AgentTypeOK'
  <2>1. /\ agents' \in SUBSET Agents /\ nextId' \in 1..(LastId + 1)
        /\ seen' = [seen EXCEPT ![v] = "done"] /\ missed' = missed \cup {AgentOf[v]}
        /\ known' = known
      BY <1>0, <1>1, <1>6 DEF AgentInsertFails
  <2> QED BY <1>0, <2>1 DEF AgentTypeOK
<1>7. ASSUME NEW H \in SUBSET known, AgentKeysExpire(H) PROVE AgentTypeOK'
    BY <1>0, <1>7 DEF AgentTypeOK, AgentKeysExpire
<1>8. ASSUME NEW s \in Servers, ProcessEnds(s) PROVE AgentTypeOK'
  <2> DEFINE D == {v \in Visits : Home[v] = s}
  <2>1. VisitsDie(D) /\ UNCHANGED <<agents, nextId, known>>
      BY <1>8 DEF ProcessEnds
  <2>2. seen' \in [Visits -> {"new", "insert", "done"}] /\ missed' \in SUBSET Agents
      BY <1>0, <2>1 DEF VisitsDie
  <2> QED BY <1>0, <2>1, <2>2 DEF AgentTypeOK
<1>9. ASSUME NEW a \in Accesses, Arrive(a) \/ Mark(a) \/ Push(a) \/ PushUnanswered(a)
      PROVE  AgentTypeOK'
    BY <1>2, <1>9 DEF Arrive, Mark, Push, PushUnanswered
<1>m. ASSUME MarkDropped \/ \E a \in Accesses : MarkUnanswered(a) PROVE AgentTypeOK'
    BY <1>2, <1>m, KeyFaultsKeep
<1>10. ASSUME NEW r \in Runs,
              StartFlush(r) \/ FlushStep(r) \/ PopUnanswered(r) \/ PopFails(r) \/ StatementFails(r)
       PROVE  AgentTypeOK'
    BY <1>2, <1>10 DEF StartFlush, FlushStep, Pop, Popped, Insert, CreditBalances, CountLinks,
                       PopUnanswered, PopFails, StatementFails
<1>11. CASE DayPasses \/ AgentStep \/ AgentFault
    BY <1>4, <1>r, <1>5, <1>6, <1>7, <1>11 DEF DayPasses, AgentStep, AgentFault
<1>12. CASE UNCHANGED vars
    BY <1>2, <1>12 DEF vars
<1> QED BY <1>3, <1>8, <1>9, <1>m, <1>10, <1>11, <1>12 DEF NoteNext

(* The sums are of the types of the ledgers.                               *)
LEMMA PaidTypes ==
    ASSUME PaidInv
    PROVE  balance \in [Users -> Int] /\ linkStats \in [Links -> [revenue : Int, views : Nat]]
<1>1. RowsInv /\ \A a \in Accesses : 0 <= Counted(a)
    BY DEF PaidInv, TalliesInv, CopyInv
<1>2. AllCredited \in Values /\ AllCounted \in Values /\ \A a \in Accesses : AllCounted[a] \in Nat
    BY <1>1, TalliesAre DEF AllCredited, AllCounted, Values
<1>3. \A l : \A a \in Accesses : LinkView(l)[a] \in Nat
    BY DEF LinkView
<1>4. /\ \A u : Total(UserWorth(u), AllCredited) \in Int
      /\ \A l : Total(LinkWorth(l), AllCounted) \in Int /\ Total(LinkView(l), AllCounted) \in Nat
    BY <1>2, <1>3, WorthsAre, TotalsAre
<1>5. /\ balance = [u \in Users |-> Total(UserWorth(u), AllCredited)]
      /\ linkStats = [l \in Links |-> [revenue |-> Total(LinkWorth(l), AllCounted),
                                       views |-> Total(LinkView(l), AllCounted)]]
    BY DEF PaidInv
<1> QED BY <1>4, <1>5

(* Every variable has its type.                                            *)
THEOREM NoteTypeCorrect == NoteSpec => []NoteTypeOK
<1>1. NoteInit => AgentTypeOK /\ LedgerType
  <2> SUFFICES ASSUME NoteInit PROVE AgentTypeOK /\ LedgerType
      OBVIOUS
  <2>1. AgentTypeOK
      BY AgentAssumption DEF NoteInit, AgentInit, AgentTypeOK
  <2>2. LedgerType
      BY NoteAssumption DEF NoteInit, LedgerType
  <2> QED BY <2>1, <2>2
<1>2. EarnInv /\ PaidInv => EarnType /\ RowsInv
    BY DEF EarnInv, PaidInv, TalliesInv, CopyInv
<1>3. EarnInv /\ PaidInv /\ AgentTypeOK /\ LedgerType => NoteTypeOK
  <2> SUFFICES ASSUME EarnInv, PaidInv, AgentTypeOK, LedgerType PROVE NoteTypeOK
      OBVIOUS
  <2>1. EarnType /\ RowsInv
      BY <1>2
  <2>2. balance \in [Users -> Int] /\ linkStats \in [Links -> [revenue : Int, views : Nat]]
      BY PaidTypes
  <2>3. /\ {rows, uncredited, unlinked} \subseteq [Accesses -> Nat]
        /\ {lost, resent, remarked} \subseteq SUBSET Accesses /\ {marks, dropped} \subseteq SUBSET MarkKeys
      BY <2>1 DEF RowsInv, LedgerType
  <2> QED BY <2>1, <2>2, <2>3 DEF NoteTypeOK, EarnType, RowsInv, QueueInv, RunStates, LedgerType
<1> QED BY <1>1, <1>2, <1>3, EarnInit, EarnStep, PaidInit, PaidStep, LedgerTypeStep, AgentTypeStep,
           PTL DEF NoteSpec
=============================================================================
