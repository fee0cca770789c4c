---------------------------- MODULE NotePipeline ----------------------------
(***************************************************************************)
(* Note accesses: from the request (note-access.controller.ts and          *)
(* createAsync of note-access.service.ts) through the Redis list           *)
(* note_access_logs to the table of the same name, the balances of the     *)
(* users and the statistics of the links (note-access-log.worker.ts).      *)
(*                                                                         *)
(* The controller does not await createAsync and nothing catches it: when  *)
(* one of its commands fails, the rejection is unhandled and ends the      *)
(* server process, with the requests and the flush runs in it.  The flush  *)
(* has no lock, no transaction and no requeue.                             *)
(***************************************************************************)
EXTENDS NoteAmounts, UserAgents, Sequences, FiniteSetsExt

CONSTANTS
    Accesses,   \* the requests
    Runs,       \* the runs of flushLogs
    Servers,    \* the server processes
    Home,       \* the process of a request, a run or a visit
    Given,      \* the fields in the parameter d of a request
    Absent,     \* a field that is not there
    BatchSize,  \* RPOPs of a run (1000)
    MaxFaults,  \* bound: faults in a behaviour
    LastDay     \* bound: the last UTC day reached

(* What a request says its revenue is is a text, if it says it at all.     *)
ASSUME NoteAssumption ==
    /\ IsFiniteSet(Accesses) /\ IsFiniteSet(Runs)
    /\ \A a \in Accesses : /\ Given[a].agent \in Agents
                           /\ Given[a].revenue # Absent => Given[a].revenue \in Texts
                           /\ \A id \in {Given[a].userId, Given[a].linkId} :
                                 id # Absent => id \in Int
    /\ BatchSize \in Nat /\ MaxFaults \in Nat
    /\ LastDay \in Nat \ {0}

VARIABLES
    today,       \* the current UTC day
    marks,       \* the keys note_access:{ip}:{user}:{day}
    access,      \* the state of each request
    queue,       \* note_access_logs in Redis, head first
    run,         \* the state of each flush run
    rows,        \* how many rows of the table note_access_logs an access has
    balance,     \* users.balance
    linkStats,   \* note_links.revenue and views
    faults,      \* faults so far
    lost,        \* history: entries that left Redis and never reached the table
    uncredited,  \* history: rows, by access, whose revenue is in no balance
    unlinked,    \* history: rows, by access, that are in no link's statistics
    resent,      \* history: accesses whose LPUSH was sent twice
    remarked,    \* history: accesses whose SET NX was sent twice
    dropped      \* history: keys that Redis lost

requestVars == <<marks, access>>
ledgers     == <<rows, balance, linkStats>>
history     == <<faults, lost, uncredited, unlinked, resent, remarked, dropped>>
vars        == <<today, requestVars, queue, run, ledgers, history, agentVars>>

Days == 1..LastDay

(***************************************************************************)
(* The payload of a request                                                *)
(***************************************************************************)
(* trackGet: a field that is missing, or 0, has a default.                 *)
Or(value, default) == IF value \in {Absent, 0} THEN default ELSE value

UserOf(a) == Or(Given[a].userId, 1)
LinkOf(a) == Or(Given[a].linkId, 0)

(* data.revenue: '0' for an access that is not the first of its day.       *)
RevenueOf(a) == IF access[a].isEarn /\ Given[a].revenue # Absent
                THEN Given[a].revenue ELSE Zero

(* incrementUserBalances and incrementLinkStats skip ids <= 0.             *)
Users == {u \in {UserOf(a) : a \in Accesses} : u > 0}
Links == {l \in {LinkOf(a) : a \in Accesses} : l > 0}

MarkKeys == {Given[a].ip : a \in Accesses} \X {UserOf(a) : a \in Accesses} \X Days

(* arrived is createdAt; earned is the day in the key it set, or met.      *)
Request == [pc : {"new", "agent", "mark", "push", "done", "died"},
            arrived : Days \cup {0}, day : Days \cup {0}, isEarn : BOOLEAN]

FlushRun == [pc : {"idle", "pop", "insert", "balances", "links"},
             left : 0..BatchSize, batch : Seq(Accesses)]

NoteTypeOK ==
    /\ AgentTypeOK
    /\ today \in Days
    /\ {marks, dropped} \subseteq SUBSET MarkKeys
    /\ access \in [Accesses -> Request]
    /\ queue \in Seq(Accesses)
    /\ run \in [Runs -> FlushRun]
    /\ {rows, uncredited, unlinked} \subseteq [Accesses -> Nat]
    /\ balance \in [Users -> Int]
    /\ linkStats \in [Links -> [revenue : Int, views : Nat]]
    /\ faults \in 0..MaxFaults
    /\ {lost, resent, remarked} \subseteq SUBSET Accesses

Idle == [pc |-> "idle", left |-> 0, batch |-> <<>>]

NoteInit ==
    /\ AgentInit
    /\ today = 1
    /\ marks = {}
    /\ access = [a \in Accesses |-> [pc |-> "new", arrived |-> 0, day |-> 0, isEarn |-> FALSE]]
    /\ queue = <<>>
    /\ run = [r \in Runs |-> Idle]
    /\ rows = [a \in Accesses |-> 0]
    /\ balance = [u \in Users |-> 0]
    /\ linkStats = [l \in Links |-> [revenue |-> 0, views |-> 0]]
    /\ faults = 0
    /\ lost = {}
    /\ uncredited = [a \in Accesses |-> 0]
    /\ unlinked = [a \in Accesses |-> 0]
    /\ resent = {}
    /\ remarked = {}
    /\ dropped = {}

Fault == faults < MaxFaults /\ faults' = faults + 1

(***************************************************************************)
(* trackGet and createAsync                                                *)
(***************************************************************************)
Arrive(a) ==
    /\ access[a].pc = "new"
    /\ access' = [access EXCEPT ![a].pc = "agent", ![a].arrived = today]
    /\ UNCHANGED <<today, marks, queue, run, ledgers, history, agentVars>>

(* A mutant of InsertNoteAgent: no INSERT when the key of trackVisit is    *)
(* there.                                                                  *)
InsertNoteAgentUnlessKnown(a) ==
    /\ access[a].pc = "agent"
    /\ IF Given[a].agent \in known THEN UNCHANGED <<agents, nextId>>
       ELSE EnsureUserAgent(Given[a].agent)
    /\ access' = [access EXCEPT ![a].pc = "mark", ![a].day = today]
    /\ UNCHANGED <<today, marks, queue, run, ledgers, history, known, seen, missed>>

(* The user agent is inserted, and the day read when that is done.         *)
InsertNoteAgent(a) ==
    /\ access[a].pc = "agent"
    /\ EnsureUserAgent(Given[a].agent)
    /\ access' = [access EXCEPT ![a].pc = "mark", ![a].day = today]
    /\ UNCHANGED <<today, marks, queue, run, ledgers, history, known, seen, missed>>

(* A mutant of AccessKey: the key of no day.                               *)
AccessKeyOfAnyDay(a) == <<Given[a].ip, UserOf(a), 1>>

AccessKey(a) == <<Given[a].ip, UserOf(a), access[a].day>>

(* A mutant of Mark: SET without NX.                                       *)
MarkWithoutNx(a) ==
    /\ access[a].pc = "mark"
    /\ marks' = marks \cup {AccessKey(a)}
    /\ access' = [access EXCEPT ![a].pc = "push", ![a].isEarn = TRUE]
    /\ UNCHANGED <<today, queue, run, ledgers, history, agentVars>>

(* SET note_access:{ip}:{user}:{day} NX: the first access of a day earns.  *)
(* The key lives for a day and holds the date: it outlives its use.        *)
Mark(a) ==
    /\ access[a].pc = "mark"
    /\ marks' = marks \cup {AccessKey(a)}
    /\ access' = [access EXCEPT ![a].pc = "push", ![a].isEarn = AccessKey(a) \notin marks]
    /\ UNCHANGED <<today, queue, run, ledgers, history, agentVars>>

(* The answer to the SET is lost and the client sends it again: the access *)
(* will meet its own key.                                                  *)
MarkUnanswered(a) ==
    /\ access[a].pc = "mark"
    /\ AccessKey(a) \notin marks
    /\ Fault
    /\ marks' = marks \cup {AccessKey(a)}
    /\ remarked' = remarked \cup {a}
    /\ UNCHANGED <<today, access, queue, run, ledgers, lost, uncredited, unlinked, resent,
                   dropped, agentVars>>

(* Redis loses a key.                                                      *)
MarkDropped ==
    /\ Fault
    /\ \E key \in marks : marks' = marks \ {key} /\ dropped' = dropped \cup {key}
    /\ UNCHANGED <<today, access, queue, run, ledgers, lost, uncredited, unlinked, resent,
                   remarked, agentVars>>

(* LPUSH.                                                                  *)
Push(a) ==
    /\ access[a].pc = "push"
    /\ queue' = <<a>> \o queue
    /\ access' = [access EXCEPT ![a].pc = "done"]
    /\ UNCHANGED <<today, marks, run, ledgers, history, agentVars>>

(* The answer to LPUSH is lost and the client sends it again.              *)
PushUnanswered(a) ==
    /\ access[a].pc = "push"
    /\ Fault
    /\ queue' = <<a>> \o queue
    /\ resent' = resent \cup {a}
    /\ UNCHANGED <<today, requestVars, run, ledgers, lost, uncredited, unlinked, remarked,
                   dropped, agentVars>>

(***************************************************************************)
(* incrementUserBalances and incrementLinkStats                            *)
(***************************************************************************)
(* A sum over the entries of a batch, each having a value.                 *)
SumOver(batch, value) == SumFunction([i \in DOMAIN batch |-> value[batch[i]]])

Times(a, batch) == SumOver(batch, [b \in Accesses |-> IF b = a THEN 1 ELSE 0])

Scaled(a) == ToScaledInt(RevenueOf(a))

(* The revenue of the earning logs, by user.                               *)
RevenueByUser(batch) ==
    [u \in Users |->
        SumOver(batch, [a \in Accesses |->
                           IF UserOf(a) = u /\ access[a].isEarn THEN Scaled(a) ELSE 0])]

(* A mutant of StatsByLink: logs without revenue are no views.             *)
StatsByLinkOfPaid(batch) ==
    [l \in Links |->
        [revenue |-> SumOver(batch, [a \in Accesses |-> IF LinkOf(a) = l THEN Scaled(a) ELSE 0]),
         views |-> SumOver(batch, [a \in Accesses |->
                                      IF LinkOf(a) = l /\ Scaled(a) # 0 THEN 1 ELSE 0])]]

(* Every log with a link is a view; the revenue does not look at isEarn.   *)
StatsByLink(batch) ==
    [l \in Links |->
        [revenue |-> SumOver(batch, [a \in Accesses |-> IF LinkOf(a) = l THEN Scaled(a) ELSE 0]),
         views |-> SumOver(batch, [a \in Accesses |-> IF LinkOf(a) = l THEN 1 ELSE 0])]]

(* The amounts go into the UPDATE as text.                                 *)
Sent(amount) == Column(FromScaledInt(amount))

(* A ledger of rows by access, with those of a batch added.                *)
With(ledger, batch) == [a \in Accesses |-> ledger[a] + Times(a, batch)]

(***************************************************************************)
(* flushLogs                                                               *)
(***************************************************************************)
Ends(r) == run' = [run EXCEPT ![r] = Idle]

(* Mutants of StartFlush: one RPOP too many, and a run that waits for a    *)
(* full batch.                                                             *)
StartFlushOneMore(r) ==
    /\ run[r].pc = "idle"
    /\ queue # <<>>
    /\ run' = [run EXCEPT ![r].pc = "pop", ![r].left = BatchSize + 1]
    /\ UNCHANGED <<today, requestVars, queue, ledgers, history, agentVars>>

StartFlushWhenFull(r) ==
    /\ run[r].pc = "idle"
    /\ Len(queue) >= BatchSize
    /\ run' = [run EXCEPT ![r].pc = "pop", ![r].left = BatchSize]
    /\ UNCHANGED <<today, requestVars, queue, ledgers, history, agentVars>>

(* @Cron starts a run, whether or not others are under way.  (One that     *)
(* would find nothing changes nothing.)                                    *)
StartFlush(r) ==
    /\ run[r].pc = "idle"
    /\ queue # <<>>
    /\ run' = [run EXCEPT ![r].pc = "pop", ![r].left = BatchSize]
    /\ UNCHANGED <<today, requestVars, queue, ledgers, history, agentVars>>

(* One RPOP of the pipeline, among those of other clients.  An empty list  *)
(* answers null, which is filtered out.                                    *)
Pop(r) ==
    /\ run[r].pc = "pop" /\ run[r].left > 0
    /\ \/ /\ queue # <<>>
          /\ run' = [run EXCEPT ![r].left = @ - 1, ![r].batch = Append(@, queue[Len(queue)])]
          /\ queue' = SubSeq(queue, 1, Len(queue) - 1)
       \/ /\ queue = <<>>
          /\ run' = [run EXCEPT ![r].left = @ - 1]
          /\ UNCHANGED queue
    /\ UNCHANGED <<today, requestVars, ledgers, history, agentVars>>

(* The answer to an RPOP is lost and the client sends it again.            *)
PopUnanswered(r) ==
    /\ run[r].pc = "pop" /\ run[r].left > 0
    /\ queue # <<>>
    /\ Fault
    /\ lost' = lost \cup {queue[Len(queue)]}
    /\ queue' = SubSeq(queue, 1, Len(queue) - 1)
    /\ UNCHANGED <<today, requestVars, run, ledgers, uncredited, unlinked, resent, remarked,
                   dropped, agentVars>>

(* An RPOP answers with an error, without effect, and is filtered out.     *)
PopFails(r) ==
    /\ run[r].pc = "pop" /\ run[r].left > 0
    /\ Fault
    /\ run' = [run EXCEPT ![r].left = @ - 1]
    /\ UNCHANGED <<today, requestVars, queue, ledgers, lost, uncredited, unlinked, resent,
                   remarked, dropped, agentVars>>

(* A mutant of Popped: a batch that is not full is dropped.                *)
PoppedFull(r) ==
    /\ run[r].pc = "pop" /\ run[r].left = 0
    /\ IF Len(run[r].batch) < BatchSize THEN Ends(r)
       ELSE run' = [run EXCEPT ![r].pc = "insert"]
    /\ UNCHANGED <<today, requestVars, queue, ledgers, history, agentVars>>

Popped(r) ==
    /\ run[r].pc = "pop" /\ run[r].left = 0
    /\ IF run[r].batch = <<>> THEN Ends(r) ELSE run' = [run EXCEPT ![r].pc = "insert"]
    /\ UNCHANGED <<today, requestVars, queue, ledgers, history, agentVars>>

Insert(r) ==
    /\ run[r].pc = "insert"
    /\ rows' = With(rows, run[r].batch)
    /\ run' = [run EXCEPT ![r].pc = "balances"]
    /\ UNCHANGED <<today, requestVars, queue, balance, linkStats, history, agentVars>>

(* No UPDATE is sent when there is nothing to add.                         *)
CreditBalances(r) ==
    /\ run[r].pc = "balances"
    /\ \E revenue \in {RevenueByUser(run[r].batch)} :
          balance' = [u \in Users |-> balance[u] + Sent(revenue[u])]
    /\ run' = [run EXCEPT ![r].pc = "links"]
    /\ UNCHANGED <<today, requestVars, queue, rows, linkStats, history, agentVars>>

CountLinks(r) ==
    /\ run[r].pc = "links"
    /\ \E stats \in {StatsByLink(run[r].batch)} :
          linkStats' = [l \in Links |-> [revenue |-> linkStats[l].revenue + Sent(stats[l].revenue),
                                        views |-> linkStats[l].views + stats[l].views]]
    /\ Ends(r)
    /\ UNCHANGED <<today, requestVars, queue, rows, balance, history, agentVars>>

(* How often an access is in the batches of the runs D.                    *)
InBatches(a, D) == SumFunctionOnSet([r \in Runs |-> Times(a, run[r].batch)], D)

(* What is left undone of the batch of a run that gives up.  A statement   *)
(* that took effect before its error counts as done.                       *)
Forget(D) ==
    LET at(pcs) == {a \in Accesses : \E r \in D : run[r].pc \in pcs
                                         /\ a \in {run[r].batch[i] : i \in DOMAIN run[r].batch}}
        all(pcs, ledger) ==
            [a \in Accesses |-> ledger[a] + InBatches(a, {r \in D : run[r].pc \in pcs})]
    IN  /\ lost' = lost \cup at({"pop", "insert"})
        /\ uncredited' = all({"balances"}, uncredited)
        /\ unlinked' = all({"balances", "links"}, unlinked)

(* A statement fails: flushLogs rejects, and the batch is forgotten.       *)
StatementFails(r) ==
    /\ run[r].pc \in {"insert", "balances", "links"}
    /\ Fault
    /\ Forget({r})
    /\ Ends(r)
    /\ UNCHANGED <<today, requestVars, queue, ledgers, resent, remarked, dropped, agentVars>>

(* A process ends, by an unhandled rejection of createAsync or otherwise.  *)
ProcessEnds(s) ==
    LET dead == {a \in Accesses : Home[a] = s /\ access[a].pc \in {"agent", "mark", "push"}}
    IN  /\ Fault
        /\ access' = [a \in Accesses |-> IF a \in dead THEN [access[a] EXCEPT !.pc = "died"]
                                                       ELSE access[a]]
        /\ Forget({r \in Runs : Home[r] = s})
        /\ run' = [r \in Runs |-> IF Home[r] = s THEN Idle ELSE run[r]]
        /\ VisitsDie({v \in Visits : Home[v] = s})
        /\ UNCHANGED <<today, marks, queue, ledgers, resent, remarked, dropped, agents, nextId,
                       known>>

(* Midnight, UTC, of the next day or of a later one, so that keys of user  *)
(* agents may expire.  Bound: it comes while a request has yet to read it. *)
DayPasses ==
    /\ today < LastDay
    /\ \E a \in Accesses : access[a].pc \in {"new", "agent"}
    /\ today' = today + 1
    /\ \E H \in SUBSET known : AgentKeysExpire(H)
    /\ UNCHANGED <<requestVars, queue, run, ledgers, history>>

(* Steps of the user agents of trackVisit, and its faults.                 *)
AgentStep ==
    /\ \E v \in Visits : MarkAgent(v) \/ InsertAgent(v)
    /\ UNCHANGED <<today, requestVars, queue, run, ledgers, history>>

AgentFault ==
    /\ Fault
    /\ \E v \in Visits : MarkAgentResent(v) \/ AgentInsertFails(v)
    /\ UNCHANGED <<today, requestVars, queue, run, ledgers, lost, uncredited, unlinked, resent,
                   remarked, dropped>>

FlushStep(r) ==
    Pop(r) \/ Popped(r) \/ Insert(r) \/ CreditBalances(r) \/ CountLinks(r)

NoteNext ==
    \/ \E a \in Accesses : \/ Arrive(a) \/ InsertNoteAgent(a) \/ Mark(a) \/ MarkUnanswered(a)
                           \/ Push(a) \/ PushUnanswered(a)
    \/ MarkDropped
    \/ \E r \in Runs : \/ StartFlush(r) \/ FlushStep(r) \/ PopUnanswered(r) \/ PopFails(r)
                       \/ StatementFails(r)
    \/ \E s \in Servers : ProcessEnds(s)
    \/ DayPasses
    \/ AgentStep
    \/ AgentFault

(* The schedule starts runs again and again, and what a run awaits ends.   *)
NoteSpec == NoteInit /\ [][NoteNext]_vars
                     /\ \A r \in Runs : WF_vars(StartFlush(r) \/ FlushStep(r))

(***************************************************************************)
(* Properties                                                              *)
(***************************************************************************)
InBatch(a, pcs) == InBatches(a, {r \in Runs : run[r].pc \in pcs})

(* Of the accesses of one address to one user's notes, one earns a day,    *)
(* unless Redis loses its key.  (The day is that of the key, read after    *)
(* the user agent is stored: of two accesses of one evening the second may *)
(* earn after midnight.)                                                   *)
OneEarningAccess ==
    \A a, b \in Accesses :
        a # b /\ access[a].isEarn /\ access[b].isEarn
              /\ Given[a].ip = Given[b].ip /\ UserOf(a) = UserOf(b)
              /\ AccessKey(a) \notin dropped
        => /\ access[a].day # access[b].day
           /\ access[a].arrived = access[b].arrived
              => \E c \in {a, b} : access[c].day > access[c].arrived

(* An access that does not earn has an access of the same address, user    *)
(* and day before it that does, unless an answer to a SET NX of the day    *)
(* was lost (then the access that sent it twice is turned away by its own  *)
(* key): no key of another day or user, and no expired key, turns away.    *)
UnearnedAfterFirst ==
    \A a \in Accesses :
        access[a].pc \in {"push", "done"} /\ ~access[a].isEarn
        => \E b \in Accesses :
              /\ Given[b].ip = Given[a].ip /\ UserOf(b) = UserOf(a)
              /\ access[b].day = access[a].day
              /\ access[b].isEarn \/ b \in remarked

(* An access that was pushed is in the list, in a batch, in the table, or  *)
(* lost by a fault, and it is in one of them, once, unless its LPUSH was   *)
(* sent twice: flushLogs pops without a lock and never puts back.          *)
NoAccessVanishes ==
    \A a \in Accesses :
        LET copies == Times(a, queue)
                      + InBatch(a, {"pop", "insert"}) + rows[a]
        IN  /\ access[a].pc = "done" => copies > 0 \/ a \in lost
            /\ a \notin resent => copies <= 1

(* The balance of a user is the revenue of its earning rows, cut to the    *)
(* scale, but for the rows whose run has yet to add them or gave up before *)
(* it could (the UPDATE is in another database than the INSERT).           *)
BalancesFollowRows ==
    \A u \in Users :
        balance[u] = SumFunctionOnSet(
            [a \in Accesses |-> CutToScale(RevenueOf(a))
                                   * (rows[a] - InBatch(a, {"balances"}) - uncredited[a])],
            {a \in Accesses : UserOf(a) = u /\ access[a].isEarn})

(* The same for revenue and views of a link, which count every row.        *)
LinksFollowRows ==
    \A l \in Links :
        LET of      == {a \in Accesses : LinkOf(a) = l}
            counts  == [a \in Accesses |->
                           rows[a] - InBatch(a, {"balances", "links"}) - unlinked[a]]
            revenue == [a \in Accesses |-> CutToScale(RevenueOf(a)) * counts[a]]
        IN  /\ linkStats[l].views = SumFunctionOnSet(counts, of)
            /\ linkStats[l].revenue = SumFunctionOnSet(revenue, of)

(* The user agent of an access that is in the list, a batch or the table   *)
(* is in user_agents, as long as there are ids: createAsync awaits it.     *)
LoggedAgentsHaveRows ==
    \A a \in Accesses :
        access[a].pc \in {"mark", "push", "done"} => Given[a].agent \in agents \/ Exhausted

(* Every access that was pushed ends up in the table, or lost by a fault.  *)
AccessesAreSettled ==
    \A a \in Accesses : access[a].pc = "done" ~> rows[a] > 0 \/ a \in lost
=============================================================================
