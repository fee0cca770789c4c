---------------------------- MODULE UserAgents ----------------------------
(***************************************************************************)
(* The table user_agents and its two writers: trackVisit, which remembers  *)
(* in Redis which hashes it has inserted, and the note accesses, which     *)
(* insert every time.  A user agent stands for its hash.                   *)
(*                                                                         *)
(* INSERT IGNORE takes an auto-increment id whether or not the row is new  *)
(* (InnoDB), and the ids are SMALLINT: after the last one every INSERT is  *)
(* a duplicate of the primary key, and ignored.                            *)
(***************************************************************************)
EXTENDS Integers

CONSTANTS
    Visits,  \* the requests of trackVisit
    Agents,  \* the user agents
    AgentOf, \* the user agent of a visit
    LastId   \* the last id of the table (65535 in MySQL)

ASSUME AgentAssumption == LastId \in Nat \ {0} /\ \A v \in Visits : AgentOf[v] \in Agents

VARIABLES
    agents,  \* the hashes in user_agents
    nextId,  \* the next auto-increment id
    known,   \* the hashes with a key ua:known:{hash}
    seen,    \* the state of ensureUserAgentCached of each visit
    missed   \* history: hashes whose key was set by a visit that did not insert

agentVars == <<agents, nextId, known, seen, missed>>

AgentTypeOK ==
    /\ agents \in SUBSET Agents
    /\ nextId \in 1..(LastId + 1)
    /\ known \in SUBSET Agents
    /\ seen \in [Visits -> {"new", "insert", "done"}]
    /\ missed \in SUBSET Agents

AgentInit ==
    /\ agents = {}
    /\ nextId = 1
    /\ known = {}
    /\ seen = [v \in Visits |-> "new"]
    /\ missed = {}

Exhausted == nextId > LastId

(* ensureUserAgent: INSERT IGNORE.                                         *)
EnsureUserAgent(h) ==
    /\ agents' = IF Exhausted THEN agents ELSE agents \cup {h}
    /\ nextId' = IF Exhausted THEN nextId ELSE nextId + 1

(* A mutant of MarkAgent: the key is set, and taken for an old one.        *)
MarkAgentInverted(v) ==
    /\ seen[v] = "new"
    /\ known' = known \cup {AgentOf[v]}
    /\ seen' = [seen EXCEPT ![v] = IF AgentOf[v] \in known THEN "insert" ELSE "done"]
    /\ UNCHANGED <<agents, nextId, missed>>

(* ensureUserAgentCached: SET ua:known:{hash} NX, then the INSERT for the  *)
(* first who sees it.                                                      *)
MarkAgent(v) ==
    /\ seen[v] = "new"
    /\ known' = known \cup {AgentOf[v]}
    /\ seen' = [seen EXCEPT ![v] = IF AgentOf[v] \in known THEN "done" ELSE "insert"]
    /\ UNCHANGED <<agents, nextId, missed>>

(* The answer to the SET is lost and the client sends it again: the visit  *)
(* meets its own key, and does not insert.  A fault.                       *)
MarkAgentResent(v) ==
    /\ seen[v] = "new"
    /\ AgentOf[v] \notin known
    /\ known' = known \cup {AgentOf[v]}
    /\ seen' = [seen EXCEPT ![v] = "done"]
    /\ missed' = missed \cup {AgentOf[v]}
    /\ UNCHANGED <<agents, nextId>>

InsertAgent(v) ==
    /\ seen[v] = "insert"
    /\ EnsureUserAgent(AgentOf[v])
    /\ seen' = [seen EXCEPT ![v] = "done"]
    /\ UNCHANGED <<known, missed>>

(* The INSERT fails, with or without effect: a warning, and the key stays. *)
(* A fault.                                                                *)
AgentInsertFails(v) ==
    /\ seen[v] = "insert"
    /\ EnsureUserAgent(AgentOf[v]) \/ UNCHANGED <<agents, nextId>>
    /\ seen' = [seen EXCEPT ![v] = "done"]
    /\ missed' = missed \cup {AgentOf[v]}
    /\ UNCHANGED known

(* The 30 days of the keys of H are over.  (No INSERT takes that long.)    *)
AgentKeysExpire(H) ==
    /\ ~\E v \in Visits : seen[v] = "insert" /\ AgentOf[v] \in H
    /\ known' = known \ H
    /\ UNCHANGED <<agents, nextId, seen, missed>>

(* The process of the visits D dies.                                       *)
VisitsDie(D) ==
    /\ seen' = [v \in Visits |-> IF v \in D THEN "done" ELSE seen[v]]
    /\ missed' = missed \cup {AgentOf[v] : v \in {w \in D : seen[w] = "insert"}}

(* A hash that Redis says is known has its row, or an INSERT under way,    *)
(* unless the visit that set the key did not insert (its INSERT failed, it *)
(* died before, or its SET was sent twice) or no id was left: the key of   *)
(* ensureUserAgentCached is written before the row.                        *)
KnownAgentsHaveRows ==
    \A h \in known : \/ h \in agents \cup missed
                     \/ Exhausted
                     \/ \E v \in Visits : seen[v] = "insert" /\ AgentOf[v] = h
=============================================================================
