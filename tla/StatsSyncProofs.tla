-------------------------- MODULE StatsSyncProofs --------------------------
(***************************************************************************)
(* The safety of the statistics for any number of visits, links, runs,     *)
(* attempts, faults and minutes.                                           *)
(***************************************************************************)
EXTENDS StatsSync, TLAPS

USE StatsAssumption

(***************************************************************************)
(* Increments and types                                                    *)
(***************************************************************************)
(* The three increments of a visit, by name.                               *)
LEMMA IncrementFacts ==
    /\ DOMAIN Fields = 1..3 /\ Len(Fields) = 3
    /\ Fields[1] = "views" /\ Fields[2] = "linkRevenue" /\ Fields[3] = "userRevenue"
    /\ Increments = {"views", "linkRevenue", "userRevenue"} \X Visits
<1>1. /\ DOMAIN Fields = 1..3 /\ Len(Fields) = 3
      /\ Fields[1] = "views" /\ Fields[2] = "linkRevenue" /\ Fields[3] = "userRevenue"
    BY DEF Fields
<1>2. {Fields[i] : i \in DOMAIN Fields} = {"views", "linkRevenue", "userRevenue"}
  <2>1. \A i \in 1..3 : i = 1 \/ i = 2 \/ i = 3
      OBVIOUS
  <2> QED BY <1>1, <2>1
<1> QED BY <1>1, <1>2 DEF Increments

(* What the next command of a visit adds. *)
LEMMA NextIncrement ==
    ASSUME TypeOK, NEW v \in Visits, Increment(v)
    PROVE  LET i == <<Fields[made[v] + 1], v>>
           IN  /\ i \in Increments /\ i \notin Made /\ Made' = Made \cup {i}
               /\ arrived[v] \in Minutes
               /\ stat' = [stat EXCEPT ![arrived[v]] = @ \cup {i}]
               /\ late' = IF arrived[v] = minute THEN late ELSE late \cup {i}
<1> DEFINE i == <<Fields[made[v] + 1], v>>
<1>1. /\ made \in [Visits -> 0..3] /\ made[v] \in 0..2
      /\ made' = [made EXCEPT ![v] = @ + 1]
      /\ arrived[v] \in Minutes
    BY IncrementFacts DEF TypeOK, Increment
<1>2. i \in Increments
  <2>1. made[v] + 1 \in DOMAIN Fields
      BY <1>1, IncrementFacts
  <2> QED BY <2>1 DEF Increments
<1>3. \A n \in 1..3, k \in 1..3 : Fields[n] = Fields[k] => n = k
    BY IncrementFacts
<1>4. i \notin Made
    BY <1>1, <1>3 DEF Made
<1>5. ASSUME NEW j \in Increments
      PROVE  j \in Made' <=> j \in Made \cup {i}
  <2>0. j[2] \in Visits /\ j = <<j[1], j[2]>>
      BY IncrementFacts
  <2>1. CASE j[2] # v
      BY <2>0, <2>1, <1>1 DEF Made
  <2>2. CASE j[2] = v
    <3>1. made'[v] = made[v] + 1
        BY <1>1
    <3>2. \A n : n \in 1..made'[v] <=> n \in 1..made[v] \/ n = made[v] + 1
        BY <1>1, <3>1
    <3> QED BY <2>0, <2>2, <3>1, <3>2 DEF Made
  <2> QED BY <2>1, <2>2
<1>6. Made \subseteq Increments /\ Made' \subseteq Increments
    BY DEF Made
<1> QED BY <1>1, <1>2, <1>4, <1>5, <1>6 DEF Increment

(* A run about to release its lock, or idle, is a run.                     *)
LEMMA ReleaseType == \A run \in SyncRun : ToRelease(run) \in SyncRun /\ IdleSync \in SyncRun
BY DEF SyncRun, ToRelease, IdleSync

(* A run that has scanned is a run.                                        *)
LEMMA ToReadType ==
    ASSUME NEW run \in SyncRun, NEW K \in SUBSET Minutes, NEW T \in SUBSET Minutes
    PROVE  [run EXCEPT !.pc = "read", !.keys = K, !.twice = T] \in SyncRun
BY DEF SyncRun

(* A run that has read its hashes is a run.                                *)
LEMMA ToPostType ==
    ASSUME NEW K \in SUBSET Minutes, NEW P \in SUBSET Increments, NEW D \in SUBSET Increments
    PROVE  [pc |-> "post", keys |-> K, twice |-> {}, payload |-> P, doubled |-> D,
            attempt |-> 1] \in SyncRun
BY DEF SyncRun

(* A post adds its payload to Laravel's totals.                            *)
LEMMA CreditType ==
    ASSUME TypeOK, NEW run, Credit(run)
    PROVE  /\ credited' \in [Increments -> Nat]
           /\ \A i \in Increments :
                 credited'[i] = credited[i] + (IF i \in run.payload THEN 1 ELSE 0)
                                            + (IF i \in run.doubled THEN 1 ELSE 0)
BY DEF TypeOK, Credit

(* A run that reads the hashes either has nothing to send or goes on with  *)
(* a payload.                                                              *)
LEMMA ReadEffect ==
    ASSUME TypeOK, NEW r \in Runs, ReadHashes(r)
    PROVE  \E failed \in SUBSET TargetKeys(r),
              payload \in SUBSET Increments, doubled \in SUBSET Increments :
              /\ payload = Summed(UNION {stat[m] : m \in TargetKeys(r) \ failed})
              /\ doubled \subseteq payload
              /\ UNCHANGED faults \/ Fault
              /\ \/ /\ sync' = [sync EXCEPT ![r] = ToRelease(@)]
                    /\ UNCHANGED <<unread, repeated, unlocked>>
                 \/ /\ sync' = [sync EXCEPT ![r] =
                          [pc |-> "post", keys |-> TargetKeys(r), twice |-> {},
                           payload |-> payload, doubled |-> doubled, attempt |-> 1]]
                    /\ unread' = unread \cup UNION {stat[m] : m \in failed}
                    /\ repeated' = repeated \cup doubled
                    /\ unlocked' = IF lock = r THEN unlocked ELSE unlocked \cup payload
<1>1. PICK failed \in SUBSET TargetKeys(r) :
        LET payload == Summed(UNION {stat[m] : m \in TargetKeys(r) \ failed})
            doubled == payload \cap UNION {stat[m] : m \in sync[r].twice}
        IN  /\ UNCHANGED faults \/ Fault
            /\ \/ /\ sync' = [sync EXCEPT ![r] = ToRelease(@)]
                  /\ UNCHANGED <<unread, repeated, unlocked>>
               \/ /\ sync' = [sync EXCEPT ![r] =
                        [pc |-> "post", keys |-> TargetKeys(r), twice |-> {},
                         payload |-> payload, doubled |-> doubled, attempt |-> 1]]
                  /\ unread' = unread \cup UNION {stat[m] : m \in failed}
                  /\ repeated' = repeated \cup doubled
                  /\ unlocked' = IF lock = r THEN unlocked ELSE unlocked \cup payload
    BY DEF ReadHashes
<1> DEFINE payload == Summed(UNION {stat[m] : m \in TargetKeys(r) \ failed})
           doubled == payload \cap UNION {stat[m] : m \in sync[r].twice}
<1>2. TargetKeys(r) \subseteq Minutes
    BY DEF TargetKeys, SyncRun, TypeOK
<1>3. payload \in SUBSET Increments /\ doubled \in SUBSET Increments /\ doubled \subseteq payload
    BY <1>2 DEF TypeOK, Summed
<1> USE <1>3
<1> WITNESS failed \in SUBSET TargetKeys(r), payload \in SUBSET Increments,
            doubled \in SUBSET Increments
<1> QED BY <1>1, <1>3

(* At first all is zero.                                                   *)
LEMMA StatsTypeInit == Init => TypeOK
BY DEF Init, TypeOK, IdleSync, SyncRun, Minutes, Lock!LockInit, Lock!LockTypeOK

(* Every step keeps the types.                                             *)
LEMMA StatsTypeStep == TypeOK /\ [Next]_vars => TypeOK'
<1> SUFFICES ASSUME TypeOK, [Next]_vars PROVE TypeOK'
    OBVIOUS
<1> USE DEF visiting, history, Lock!LockTypeOK
<1>1. CASE NextMinute
    BY <1>1 DEF NextMinute, TypeOK, Minutes
<1>2. ASSUME NEW v \in Visits, VisitArrives(v) PROVE TypeOK'
    BY <1>2 DEF VisitArrives, TypeOK
<1>3. ASSUME NEW v \in Visits, Increment(v) PROVE TypeOK'
  <2> DEFINE i == <<Fields[made[v] + 1], v>>
  <2>0. i \in Increments /\ arrived[v] \in Minutes
      BY <1>3, NextIncrement
  <2> HIDE DEF i
  <2>1. /\ stat' = [stat EXCEPT ![arrived[v]] = @ \cup {i}]
        /\ late' = IF arrived[v] = minute THEN late ELSE late \cup {i}
      BY <1>3, NextIncrement DEF i
  <2>2. stat' \in [Minutes -> SUBSET Increments] /\ late' \in SUBSET Increments
      BY <2>0, <2>1 DEF TypeOK
  <2>3. made' \in [Visits -> 0..Len(Fields)]
      BY <1>3, IncrementFacts DEF Increment, TypeOK
  <2> QED BY <1>3, <2>2, <2>3 DEF Increment, TypeOK
<1>4. ASSUME NEW r \in Runs, SyncStep(r) PROVE TypeOK'
  <2>0. sync[r] \in SyncRun /\ ToRelease(sync[r]) \in SyncRun /\ IdleSync \in SyncRun
      BY ReleaseType DEF TypeOK
  <2>1. CASE Start(r)
      BY <2>0, <2>1 DEF Start, TypeOK, SyncRun, Lock!Acquire
  <2>2. CASE Scan(r)
    <3>1. PICK twice \in SUBSET {m \in Minutes : stat[m] # {}} :
            /\ UNCHANGED faults \/ Fault
            /\ \/ sync' = [sync EXCEPT ![r] = ToRelease(@)]
               \/ sync' = [sync EXCEPT ![r] = [@ EXCEPT !.pc = "read",
                     !.keys = {m \in Minutes : stat[m] # {}}, !.twice = twice]]
        BY <2>2 DEF Scan
    <3>2. sync' \in [Runs -> SyncRun]
      <4>1. {m \in Minutes : stat[m] # {}} \in SUBSET Minutes /\ twice \in SUBSET Minutes
          OBVIOUS
      <4>2. [sync[r] EXCEPT !.pc = "read", !.keys = {m \in Minutes : stat[m] # {}},
                            !.twice = twice] \in SyncRun
          BY <2>0, <4>1, ToReadType
      <4> QED BY <2>0, <3>1, <4>2 DEF TypeOK
    <3>3. faults' \in 0..MaxFaults
        BY <3>1 DEF TypeOK, Fault
    <3> QED BY <2>2, <3>2, <3>3 DEF Scan, TypeOK
  <2>3. CASE ReadHashes(r)
    <3>1. PICK failed \in SUBSET TargetKeys(r),
               payload \in SUBSET Increments, doubled \in SUBSET Increments :
            /\ UNCHANGED faults \/ Fault
            /\ \/ /\ sync' = [sync EXCEPT ![r] = ToRelease(@)]
                  /\ UNCHANGED <<unread, repeated, unlocked>>
               \/ /\ sync' = [sync EXCEPT ![r] =
                        [pc |-> "post", keys |-> TargetKeys(r), twice |-> {},
                         payload |-> payload, doubled |-> doubled, attempt |-> 1]]
                  /\ unread' = unread \cup UNION {stat[m] : m \in failed}
                  /\ repeated' = repeated \cup doubled
                  /\ unlocked' = IF lock = r THEN unlocked ELSE unlocked \cup payload
        BY <2>3, ReadEffect
    <3>2. TargetKeys(r) \subseteq Minutes
        BY <2>0 DEF TargetKeys, SyncRun
    <3>3. UNION {stat[m] : m \in failed} \subseteq Increments
        BY <3>2 DEF TypeOK
    <3>4. [pc |-> "post", keys |-> TargetKeys(r), twice |-> {}, payload |-> payload,
           doubled |-> doubled, attempt |-> 1] \in SyncRun
        BY <3>2, ToPostType
    <3>5. sync' \in [Runs -> SyncRun]
        BY <2>0, <3>1, <3>4 DEF TypeOK
    <3>6. /\ unread' \in SUBSET Increments /\ repeated' \in SUBSET Increments
          /\ unlocked' \in SUBSET Increments
        BY <3>1, <3>3 DEF TypeOK
    <3>7. faults' \in 0..MaxFaults
        BY <3>1 DEF TypeOK, Fault
    <3> QED BY <2>3, <3>5, <3>6, <3>7 DEF ReadHashes, TypeOK
  <2>4. CASE Post(r)
      BY <2>0, <2>4, CreditType DEF Post, TypeOK, SyncRun
  <2>5. ASSUME NEW applied \in BOOLEAN, PostFails(r, applied) PROVE TypeOK'
    <3>1. credited' \in [Increments -> Nat]
        BY <2>5, CreditType DEF PostFails, TypeOK
    <3>2. AfterFailure(sync[r]) \in SyncRun
        BY <2>0 DEF AfterFailure, SyncRun
    <3> QED BY <2>0, <2>5, <3>1, <3>2 DEF PostFails, TypeOK, Fault, SyncRun
  <2>6. CASE DeleteKeys(r)
      BY <2>0, <2>6 DEF DeleteKeys, TypeOK
  <2>7. CASE DeleteFails(r)
      BY <2>0, <2>7 DEF DeleteFails, TypeOK, Fault, SyncRun
  <2>8. CASE Release(r)
      BY <2>0, <2>8 DEF Release, TypeOK, Lock!ReleaseOwn
  <2>9. CASE RunAborted(r)
      BY <2>0, <2>9 DEF RunAborted, TypeOK, Fault, SyncRun
  <2> QED BY <1>4, <2>1, <2>2, <2>3, <2>4, <2>5, <2>6, <2>7, <2>8, <2>9 DEF SyncStep
<1>5. CASE LockExpires
    BY <1>5 DEF LockExpires, TypeOK, Lock!Expire, SyncRun
<1>6. CASE UNCHANGED vars
    BY <1>6 DEF vars, TypeOK
<1> QED BY <1>1, <1>2, <1>3, <1>4, <1>5, <1>6 DEF Next

(* Every variable keeps its type. *)
THEOREM StatsTypeCorrect == Spec => []TypeOK
BY StatsTypeInit, StatsTypeStep, PTL DEF Spec

(***************************************************************************)
(* The inductive invariant                                                 *)
(***************************************************************************)
(* A visit counts in the minute in which it arrived, and while that minute *)
(* lasts its increments stay in the hash.                                  *)
VisitInv ==
    /\ \A v \in Visits : arrived[v] <= minute /\ (arrived[v] = 0 => made[v] = 0)
    /\ \A i \in Made : arrived[i[2]] = minute => i \in stat[minute]

(* What a hash holds was made by the visits of its minute, and Laravel has *)
(* only what was made in a minute that is past.                            *)
OriginInv ==
    /\ \A m \in Minutes : \A i \in stat[m] : i \in Made /\ arrived[i[2]] = m
    /\ \A i \in Credited : i \in Made /\ arrived[i[2]] \in Minutes /\ arrived[i[2]] < minute

(* A payload comes from the keys of its run, which are those of past       *)
(* minutes; before the POST and after the DEL it is empty.                 *)
PayloadOf(run) ==
    /\ run.pc \notin {"post", "delete"} => run.payload = {}
    /\ run.doubled \subseteq run.payload \cap repeated
    /\ \A i \in run.payload : i \in Made /\ arrived[i[2]] \in run.keys
    /\ \A m \in run.keys : m <= minute
    /\ run.pc \in {"post", "delete"} => minute \notin run.keys

PayloadInv == \A r \in Runs : PayloadOf(sync[r])

TraceInv == VisitInv /\ OriginInv /\ PayloadInv

(* The increments that no fault and no expired lock touched.  At most one  *)
(* run has such an increment in hand, the one that holds the lock, and as  *)
(* long as a credited one is in Redis that run is about to delete it.      *)
Clean == Increments \ (repeated \cup unlocked)

CreditInv ==
    /\ \A i \in Clean : credited[i] <= 1
    /\ \A r \in Runs : \A i \in sync[r].payload \cap Clean :
          lock = r /\ (sync[r].pc = "post" => i \notin Credited)
    /\ \A i \in Clean \cap Credited \cap InRedis :
          \E r \in Runs : sync[r].pc = "delete" /\ i \in sync[r].payload

(* What a run is going to delete it has in its payload, except for what    *)
(* came too late or was not read, and before it deletes Laravel has it.    *)
OnTime == Made \ (late \cup unread)

CoveredBy(run) ==
    /\ run.pc \in {"post", "delete"} =>
          \A m \in run.keys : stat[m] \cap OnTime \subseteq run.payload
    /\ run.pc = "delete" => run.payload \subseteq Credited

ViewFirst ==
    \A v \in Visits : \A m \in Minutes :
       <<"linkRevenue", v>> \in stat[m] \ late => <<"views", v>> \in stat[m]

SurviveInv ==
    /\ OnTimeIncrementsSurvive
    /\ \A r \in Runs : CoveredBy(sync[r])
    /\ ViewFirst

(* The three increments of a visit counted within its minute share their   *)
(* fate.                                                                   *)
Of(v) == {i \in Increments : i[2] = v}

Together(S) ==
    \A v \in Visits : Of(v) \subseteq Made \ late => Of(v) \subseteq S \/ Of(v) \cap S = {}

TogetherInv ==
    /\ TotalsAgree
    /\ \A m \in Minutes : Together(stat[m])
    /\ \A r \in Runs : Together(sync[r].payload) /\ Together(sync[r].doubled)

(***************************************************************************)
(* Where increments come from                                              *)
(***************************************************************************)
(* An increment is a field and a visit.                                    *)
LEMMA VisitOf == \A i \in Increments : i[2] \in Visits /\ i = <<i[1], i[2]>>
BY IncrementFacts

(* What has been counted changes only with made.                           *)
LEMMA MadeFrame == UNCHANGED made => Made' = Made
BY DEF Made

(* What Laravel has changes only with credited.                            *)
LEMMA CreditedFrame == UNCHANGED credited => Credited' = Credited
BY DEF Credited

(* What the type invariant says of minutes and runs.                       *)
LEMMA MinuteFacts ==
    TypeOK => /\ Minutes \subseteq Nat \ {0} /\ minute \in Minutes /\ minute \in Nat
              /\ \A r \in Runs : /\ sync[r] \in SyncRun
                                  /\ sync[r].keys \subseteq Minutes
                                  /\ sync[r].payload \subseteq Increments
BY DEF TypeOK, Minutes, SyncRun

(***************************************************************************)
(* What a step of a run does, as far as the invariants can tell.           *)
(***************************************************************************)
Empties(r) ==
    /\ sync'[r].pc \notin {"post", "delete"}
    /\ sync'[r].payload = {} /\ sync'[r].doubled = {}
    /\ \A m \in sync'[r].keys : m \in sync[r].keys \/ stat[m] # {}

Keeps(r) ==
    /\ sync'[r].keys = sync[r].keys
    /\ sync'[r].payload = sync[r].payload /\ sync'[r].doubled = sync[r].doubled

Quiet(r) ==
    /\ sync[r].pc \notin {"post", "delete"} /\ Empties(r)
    /\ \/ lock' = lock
       \/ lock = Free /\ lock' = r
       \/ lock = r /\ lock' = Free
    /\ UNCHANGED <<stat, credited, unread, repeated, unlocked>>

Reads(r) ==
    /\ sync[r].pc = "read" /\ sync'[r].pc = "post"
    /\ sync'[r].keys = TargetKeys(r)
    /\ \E failed \in SUBSET TargetKeys(r) :
          /\ sync'[r].payload = Summed(UNION {stat[m] : m \in TargetKeys(r) \ failed})
          /\ unread' = unread \cup UNION {stat[m] : m \in failed}
    /\ sync'[r].doubled = sync'[r].payload \cap UNION {stat[m] : m \in sync[r].twice}
    /\ repeated' = repeated \cup sync'[r].doubled
    /\ unlocked' = IF lock = r THEN unlocked ELSE unlocked \cup sync'[r].payload
    /\ UNCHANGED <<stat, lock, credited>>

Posts(r) ==
    /\ sync[r].pc = "post" /\ sync'[r].pc = "delete" /\ Keeps(r)
    /\ Credit(sync[r])
    /\ UNCHANGED <<stat, lock, unread, repeated, unlocked>>

Fails(r) ==
    /\ sync[r].pc = "post"
    /\ Empties(r) \/ (sync'[r].pc = "post" /\ Keeps(r))
    /\ \/ Credit(sync[r]) /\ repeated' = repeated \cup sync[r].payload
       \/ UNCHANGED <<credited, repeated>>
    /\ UNCHANGED <<stat, lock, unread, unlocked>>

Deletes(r) ==
    /\ sync[r].pc = "delete" /\ Empties(r)
    /\ stat' = [m \in Minutes |-> IF m \in sync[r].keys THEN {} ELSE stat[m]]
    /\ UNCHANGED <<lock, credited, unread, repeated, unlocked>>

GivesUp(r) ==
    /\ Empties(r)
    /\ repeated \subseteq repeated'
    /\ sync[r].pc = "delete" => sync[r].payload \subseteq repeated'
    /\ UNCHANGED <<stat, lock, credited, unread, unlocked>>

(* A step of a run has one of six effects.                                 *)
LEMMA StepCases ==
    ASSUME TypeOK, PayloadInv, NEW r \in Runs, SyncStep(r)
    PROVE  /\ UNCHANGED <<visiting, late>>
           /\ \A q \in Runs \ {r} : sync'[q] = sync[q]
           /\ \/ Quiet(r) \/ Reads(r) \/ Posts(r)
              \/ Fails(r) \/ Deletes(r) \/ GivesUp(r)
<1> DEFINE Frame == /\ UNCHANGED <<visiting, late>>
                    /\ \A q \in Runs \ {r} : sync'[q] = sync[q]
<1> USE DEF history
<1>0. /\ sync \in [Runs -> SyncRun]
      /\ sync[r].pc \notin {"post", "delete"} =>
            sync[r].payload = {} /\ sync[r].doubled = {}
      /\ \A run : /\ ToRelease(run).pc = "release" /\ ToRelease(run).payload = {}
                  /\ ToRelease(run).doubled = {} /\ ToRelease(run).keys = {}
      /\ IdleSync.pc = "idle" /\ IdleSync.payload = {} /\ IdleSync.doubled = {}
      /\ IdleSync.keys = {}
    BY DEF TypeOK, PayloadInv, PayloadOf, ToRelease, IdleSync
<1>1. CASE Start(r)
    BY <1>0, <1>1 DEF Start, Quiet, Empties, Lock!Acquire, SyncRun
<1>2. CASE Scan(r)
    BY <1>0, <1>2 DEF Scan, Quiet, Empties, SyncRun
<1>3. CASE ReadHashes(r)
  <2>1. PICK failed \in SUBSET TargetKeys(r) :
          LET payload == Summed(UNION {stat[m] : m \in TargetKeys(r) \ failed})
              doubled == payload \cap UNION {stat[m] : m \in sync[r].twice}
          IN  \/ /\ sync' = [sync EXCEPT ![r] = ToRelease(@)]
                 /\ UNCHANGED <<unread, repeated, unlocked>>
              \/ /\ sync' = [sync EXCEPT ![r] =
                       [pc |-> "post", keys |-> TargetKeys(r), twice |-> {},
                        payload |-> payload, doubled |-> doubled, attempt |-> 1]]
                 /\ unread' = unread \cup UNION {stat[m] : m \in failed}
                 /\ repeated' = repeated \cup doubled
                 /\ unlocked' = IF lock = r THEN unlocked ELSE unlocked \cup payload
      BY <1>3 DEF ReadHashes
  <2>2. sync[r].pc = "read" /\ UNCHANGED <<visiting, stat, lock, credited, late>>
      BY <1>3 DEF ReadHashes
  <2>3. CASE sync' = [sync EXCEPT ![r] = ToRelease(@)] /\ UNCHANGED <<unread, repeated, unlocked>>
      BY <1>0, <2>2, <2>3 DEF Quiet, Empties
  <2> DEFINE payload == Summed(UNION {stat[m] : m \in TargetKeys(r) \ failed})
             doubled == payload \cap UNION {stat[m] : m \in sync[r].twice}
  <2>4. CASE /\ sync' = [sync EXCEPT ![r] =
                   [pc |-> "post", keys |-> TargetKeys(r), twice |-> {},
                    payload |-> payload, doubled |-> doubled, attempt |-> 1]]
             /\ unread' = unread \cup UNION {stat[m] : m \in failed}
             /\ repeated' = repeated \cup doubled
             /\ unlocked' = IF lock = r THEN unlocked ELSE unlocked \cup payload
    <3>1. /\ sync'[r] = [pc |-> "post", keys |-> TargetKeys(r), twice |-> {},
                         payload |-> payload, doubled |-> doubled, attempt |-> 1]
          /\ \A q \in Runs \ {r} : sync'[q] = sync[q]
        BY <1>0, <2>4
    <3>2. /\ sync'[r].pc = "post" /\ sync'[r].keys = TargetKeys(r)
          /\ sync'[r].payload = payload /\ sync'[r].doubled = doubled
        BY <3>1
    <3> QED BY <2>2, <2>4, <3>1, <3>2 DEF Reads
  <2> QED BY <2>1, <2>3, <2>4
<1>4. CASE Post(r)
    BY <1>0, <1>4 DEF Post, Posts, Keeps, SyncRun
<1>5. ASSUME NEW applied \in BOOLEAN, PostFails(r, applied) PROVE Frame /\ Fails(r)
  <2>1. CASE sync[r].attempt < MaxAttempts
      BY <1>0, <1>5, <2>1 DEF PostFails, AfterFailure, Fails, Keeps, SyncRun
  <2>2. CASE ~(sync[r].attempt < MaxAttempts)
      BY <1>0, <1>5, <2>2 DEF PostFails, AfterFailure, Fails, Empties
  <2> QED BY <2>1, <2>2
<1>6. CASE DeleteKeys(r)
    BY <1>0, <1>6 DEF DeleteKeys, Deletes, Empties
<1>7. CASE DeleteFails(r)
    BY <1>0, <1>7 DEF DeleteFails, GivesUp, Empties
<1>8. CASE Release(r)
    BY <1>0, <1>8 DEF Release, Quiet, Empties, Lock!ReleaseOwn
<1>9. CASE RunAborted(r)
    BY <1>0, <1>9 DEF RunAborted, GivesUp, Empties
<1> QED BY <1>1, <1>2, <1>3, <1>4, <1>5, <1>6, <1>7, <1>8, <1>9 DEF SyncStep

(* Payloads stay what they are while time passes and visits go on.         *)
LEMMA PayloadFrame ==
    ASSUME TypeOK, PayloadInv, Made \subseteq Made', UNCHANGED <<sync, repeated>>,
           minute' \in Nat, minute <= minute',
           \A v \in Visits : arrived[v] # 0 => arrived'[v] = arrived[v]
    PROVE  PayloadInv'
<1> SUFFICES ASSUME NEW r \in Runs PROVE PayloadOf(sync[r])'
    BY DEF PayloadInv
<1>1. PayloadOf(sync[r]) /\ sync'[r] = sync[r]
    BY DEF PayloadInv
<1>2. /\ sync[r].keys \subseteq Minutes /\ sync[r].payload \subseteq Increments
      /\ Minutes \subseteq Nat \ {0} /\ minute \in Nat
    BY MinuteFacts
<1>3. ASSUME NEW i \in sync[r].payload
      PROVE  i \in Made' /\ arrived'[i[2]] \in sync[r].keys
  <2>1. i \in Made /\ arrived[i[2]] \in sync[r].keys /\ i[2] \in Visits
      BY <1>1, <1>2, VisitOf DEF PayloadOf
  <2> QED BY <2>1, <1>2
<1>4. ASSUME NEW m \in sync[r].keys
      PROVE  m <= minute' /\ (m # minute => m # minute')
  <2>1. m \in Nat /\ m <= minute
      BY <1>1, <1>2 DEF PayloadOf
  <2> QED BY <1>2, <2>1
<1> QED BY <1>1, <1>3, <1>4 DEF PayloadOf

(* A step of run r keeps the trace of every increment if it leaves the     *)
(* current minute alone, adds nothing to a hash, credits at most its       *)
(* payload and then has a payload of the right kind.                       *)
LEMMA RunKeepsTrace ==
    ASSUME TypeOK, TraceInv, NEW r \in Runs, UNCHANGED visiting,
           \A q \in Runs \ {r} : sync'[q] = sync[q],
           repeated \subseteq repeated', PayloadOf(sync[r])',
           \A m \in Minutes : stat'[m] \subseteq stat[m],
           stat'[minute] = stat[minute],
           Credited' \subseteq Credited \cup sync[r].payload
    PROVE  TraceInv'
<1>1. Made' = Made /\ UNCHANGED <<minute, arrived, made>>
    BY MadeFrame DEF visiting
<1>2. PayloadInv'
  <2> SUFFICES ASSUME NEW q \in Runs PROVE PayloadOf(sync[q])'
      BY DEF PayloadInv
  <2>1. CASE q = r
      BY <2>1
  <2>2. CASE q # r
    <3>1. sync'[q] = sync[q]
        BY <2>2
    <3>2. PayloadOf(sync[q])
        BY DEF TraceInv, PayloadInv
    <3> QED BY <1>1, <3>1, <3>2 DEF PayloadOf
  <2> QED BY <2>1, <2>2
<1>3. VisitInv'
    BY <1>1 DEF VisitInv, TraceInv
<1>4. OriginInv'
  <2>1. \A m \in Minutes : \A i \in stat'[m] : i \in Made' /\ arrived'[i[2]] = m
      BY <1>1 DEF TraceInv, OriginInv
  <2>2. ASSUME NEW i \in sync[r].payload
        PROVE  i \in Made /\ arrived[i[2]] \in Minutes /\ arrived[i[2]] < minute
    <3>1. PayloadOf(sync[r])
        BY DEF TraceInv, PayloadInv
    <3>2. /\ i \in Made /\ arrived[i[2]] \in Minutes /\ arrived[i[2]] <= minute
          /\ arrived[i[2]] # minute
        BY <3>1, MinuteFacts DEF PayloadOf
    <3> QED BY <3>2, MinuteFacts
  <2> QED BY <1>1, <2>1, <2>2 DEF TraceInv, OriginInv
<1> QED BY <1>2, <1>3, <1>4 DEF TraceInv

(* At first there are no increments.                                       *)
LEMMA TraceInvInit == Init => TraceInv
<1> SUFFICES ASSUME Init PROVE TraceInv
    OBVIOUS
<1>1. Made = {} /\ Credited = {}
  <2>1. \A i \in Increments : made[i[2]] = 0 /\ credited[i] = 0
      BY VisitOf DEF Init
  <2> QED BY <2>1 DEF Made, Credited
<1>2. PayloadInv
    BY DEF Init, PayloadInv, PayloadOf, IdleSync
<1> QED BY <1>1, <1>2 DEF Init, TraceInv, VisitInv, OriginInv
(* Every step keeps TraceInv.                                              *)
LEMMA TraceInvStep == TypeOK /\ TypeOK' /\ TraceInv /\ [Next]_vars => TraceInv'
<1> SUFFICES ASSUME TypeOK, TypeOK', TraceInv, [Next]_vars PROVE TraceInv'
    OBVIOUS
<1> USE DEF history
<1>0. /\ VisitInv /\ OriginInv /\ PayloadInv
      /\ Minutes \subseteq Nat \ {0} /\ minute \in Minutes /\ minute \in Nat
      /\ arrived \in [Visits -> Minutes \cup {0}]
    BY MinuteFacts DEF TraceInv, TypeOK
<1>1. CASE NextMinute
  <2>1. /\ minute' = minute + 1
        /\ UNCHANGED <<arrived, made, stat, sync, credited, repeated>>
        /\ Made' = Made /\ Credited' = Credited
      BY <1>1, MadeFrame, CreditedFrame DEF NextMinute
  <2>2. minute' \in Nat /\ minute <= minute'
      BY <1>0, <2>1
  <2>3. PayloadInv'
      BY <1>0, <2>1, <2>2, PayloadFrame
  <2>4. VisitInv'
    <3>1. ASSUME NEW v \in Visits PROVE arrived[v] \in Nat /\ arrived[v] <= minute
      <4>1. arrived[v] \in Minutes \cup {0}
          BY <1>0
      <4>2. arrived[v] \in Nat
          BY <4>1 DEF Minutes
      <4> QED BY <1>0, <4>2 DEF VisitInv
    <3>2. \A n \in Nat : n <= minute => n <= minute' /\ n # minute'
        BY <1>0, <2>1
    <3>3. \A i \in Made : i[2] \in Visits
        BY VisitOf DEF Made
    <3> QED BY <1>0, <2>1, <3>1, <3>2, <3>3 DEF VisitInv
  <2>5. OriginInv'
    <3>1. \A m \in Minutes : m < minute => m < minute'
        BY <1>0, <2>1
    <3> QED BY <1>0, <2>1, <3>1 DEF OriginInv
  <2> QED BY <2>3, <2>4, <2>5 DEF TraceInv
<1>2. ASSUME NEW v \in Visits, VisitArrives(v) PROVE TraceInv'
  <2>1. /\ arrived[v] = 0 /\ arrived' = [arrived EXCEPT ![v] = minute]
        /\ UNCHANGED <<minute, made, stat, sync, credited, repeated>>
        /\ Made' = Made /\ Credited' = Credited
      BY <1>2, MadeFrame, CreditedFrame DEF VisitArrives
  <2>2. \A w \in Visits : arrived[w] # 0 => arrived'[w] = arrived[w]
      BY <1>0, <2>1
  <2>3. PayloadInv'
      BY <1>0, <2>1, <2>2, PayloadFrame
  <2>4. \A i \in Made : i[2] \in Visits /\ i[2] # v
    <3>1. made[v] = 0
        BY <1>0, <2>1 DEF VisitInv
    <3> QED BY <3>1, VisitOf DEF Made
  <2>5. \A i \in Made : arrived'[i[2]] = arrived[i[2]]
      BY <1>0, <2>1, <2>4
  <2>6. VisitInv'
    <3>1. \A w \in Visits : arrived'[w] <= minute /\ (arrived'[w] = 0 => made[w] = 0)
        BY <1>0, <2>1 DEF VisitInv
    <3> QED BY <1>0, <2>1, <2>5, <3>1 DEF VisitInv
  <2>7. OriginInv'
      BY <1>0, <2>1, <2>5 DEF OriginInv
  <2> QED BY <2>3, <2>6, <2>7 DEF TraceInv
<1>3. ASSUME NEW v \in Visits, Increment(v) PROVE TraceInv'
  <2> DEFINE i == <<Fields[made[v] + 1], v>>
  <2>1. /\ i \in Increments /\ Made' = Made \cup {i} /\ arrived[v] \in Minutes
        /\ stat' = [stat EXCEPT ![arrived[v]] = @ \cup {i}] /\ i[2] = v
      BY <1>3, NextIncrement
  <2> HIDE DEF i
  <2>2. /\ UNCHANGED <<minute, arrived, sync, credited, repeated>>
        /\ made' = [made EXCEPT ![v] = @ + 1] /\ arrived[v] # 0
      BY <1>3 DEF Increment
  <2>3. Credited' = Credited
      BY <2>2, CreditedFrame
  <2>4. PayloadInv'
      BY <1>0, <2>1, <2>2, PayloadFrame
  <2>5. \A m \in Minutes : stat'[m] = IF m = arrived[v] THEN stat[m] \cup {i} ELSE stat[m]
      BY <2>1 DEF TypeOK
  <2>6. VisitInv'
    <3>1. \A w \in Visits : arrived[w] = 0 => made'[w] = 0
        BY <1>0, <2>2 DEF VisitInv, TypeOK
    <3>2. ASSUME NEW j \in Made', arrived[j[2]] = minute PROVE j \in stat'[minute]
      <4>1. CASE j = i
          BY <2>1, <2>5, <3>2, <4>1
      <4>2. CASE j # i
        <5>1. j \in stat[minute]
            BY <1>0, <2>1, <3>2, <4>2 DEF VisitInv
        <5> QED BY <1>0, <2>5, <5>1
      <4> QED BY <4>1, <4>2
    <3> QED BY <1>0, <2>2, <3>1, <3>2 DEF VisitInv
  <2>7. OriginInv'
      BY <1>0, <2>1, <2>2, <2>3, <2>5 DEF OriginInv
  <2> QED BY <2>4, <2>6, <2>7 DEF TraceInv
<1>4. ASSUME NEW r \in Runs, SyncStep(r) PROVE TraceInv'
  <2>0. /\ sync[r] \in SyncRun /\ PayloadOf(sync[r])
        /\ UNCHANGED visiting /\ Made' = Made
        /\ \A q \in Runs \ {r} : sync'[q] = sync[q]
      BY <1>0, <1>4, StepCases, MinuteFacts, MadeFrame DEF PayloadInv, visiting
  <2>1. Empties(r) => PayloadOf(sync[r])'
    <3>1. \A m \in Minutes : stat[m] # {} => m <= minute
        BY <1>0, VisitOf DEF VisitInv, OriginInv, Made
    <3>2. sync'[r].keys \subseteq Minutes
        BY MinuteFacts DEF TypeOK, SyncRun
    <3> QED BY <2>0, <3>1, <3>2 DEF Empties, PayloadOf, visiting
  <2>2. /\ Keeps(r) /\ repeated \subseteq repeated'
        /\ sync[r].pc \in {"post", "delete"} /\ sync'[r].pc \in {"post", "delete"}
        => PayloadOf(sync[r])'
      BY <2>0 DEF Keeps, PayloadOf, visiting
  <2>3. CASE Quiet(r)
      BY <2>0, <2>1, <2>3, CreditedFrame, RunKeepsTrace DEF Quiet
  <2>4. CASE Reads(r)
    <3>1. PICK failed \in SUBSET TargetKeys(r) :
            sync'[r].payload = Summed(UNION {stat[m] : m \in TargetKeys(r) \ failed})
        BY <2>4 DEF Reads
    <3>2. \A i \in sync'[r].payload : \E m \in TargetKeys(r) : i \in stat[m]
        BY <3>1 DEF Summed
    <3>3. TargetKeys(r) \subseteq Minutes /\ minute \notin TargetKeys(r)
        BY MinuteFacts DEF TargetKeys
    <3>4. PayloadOf(sync[r])'
      <4>1. \A i \in sync'[r].payload : i \in Made' /\ arrived'[i[2]] \in TargetKeys(r)
        <5> SUFFICES ASSUME NEW i \in sync'[r].payload
                     PROVE  i \in Made' /\ arrived'[i[2]] \in TargetKeys(r)
            OBVIOUS
        <5>1. PICK m \in TargetKeys(r) : i \in stat[m]
            BY <3>2
        <5>2. i \in Made /\ arrived[i[2]] = m
            BY <1>0, <3>3, <5>1 DEF OriginInv
        <5> QED BY <2>0, <5>1, <5>2 DEF visiting
      <4>2. \A m \in TargetKeys(r) : m <= minute
          BY <2>0 DEF TargetKeys, PayloadOf
      <4> QED BY <2>0, <2>4, <3>3, <4>1, <4>2 DEF Reads, PayloadOf, visiting
    <3> QED BY <2>0, <2>4, <3>4, CreditedFrame, RunKeepsTrace DEF Reads
  <2>5. CASE Posts(r)
    <3>1. PayloadOf(sync[r])'
        BY <2>2, <2>5 DEF Posts
    <3>2. Credited' \subseteq Credited \cup sync[r].payload
        BY <2>0, <2>5, CreditType DEF Posts, Credited, PayloadOf, TypeOK
    <3> QED BY <2>0, <2>5, <3>1, <3>2, RunKeepsTrace DEF Posts
  <2>6. CASE Fails(r)
    <3>1. repeated \subseteq repeated' /\ PayloadOf(sync[r])'
        BY <2>1, <2>2, <2>6 DEF Fails
    <3>2. Credited' \subseteq Credited \cup sync[r].payload
        BY <2>0, <2>6, CreditType DEF Fails, Credited, PayloadOf, TypeOK
    <3> QED BY <2>0, <2>6, <3>1, <3>2, RunKeepsTrace DEF Fails
  <2>7. CASE Deletes(r)
    <3>1. minute \notin sync[r].keys
        BY <1>0, <2>0, <2>7 DEF Deletes, PayloadOf
    <3> QED BY <1>0, <2>0, <2>1, <2>7, <3>1, CreditedFrame, RunKeepsTrace DEF Deletes
  <2>8. CASE GivesUp(r)
      BY <2>0, <2>1, <2>8, CreditedFrame, RunKeepsTrace DEF GivesUp
  <2> QED BY <1>0, <1>4, <2>3, <2>4, <2>5, <2>6, <2>7, <2>8, StepCases
<1>5. CASE LockExpires
  <2>1. UNCHANGED <<visiting, stat, sync, credited, repeated>>
      BY <1>5 DEF LockExpires
  <2> QED BY <1>0, <2>1, MadeFrame, CreditedFrame
          DEF TraceInv, VisitInv, OriginInv, PayloadInv, PayloadOf, visiting
<1>6. CASE UNCHANGED vars
  <2>1. UNCHANGED <<visiting, stat, sync, credited, repeated>>
      BY <1>6 DEF vars
  <2> QED BY <1>0, <2>1, MadeFrame, CreditedFrame
          DEF TraceInv, VisitInv, OriginInv, PayloadInv, PayloadOf, visiting
<1> QED BY <1>1, <1>2, <1>3, <1>4, <1>5, <1>6 DEF Next
(***************************************************************************)
(* Nothing is added twice without a fault or an expired lock               *)
(***************************************************************************)
(* At first Laravel has nothing.                                           *)
LEMMA CreditInvInit == Init => CreditInv
<1> SUFFICES ASSUME Init PROVE CreditInv
    OBVIOUS
<1>1. Credited = {} /\ \A i \in Increments : credited[i] = 0
    BY DEF Init, Credited
<1>2. \A r \in Runs : sync[r].payload = {}
    BY DEF Init, IdleSync
<1> QED BY <1>1, <1>2 DEF CreditInv, Clean

(* Redis forgets increments and Laravel keeps what it has: nothing comes   *)
(* of steps that take no payload in hand and add nothing.                  *)
LEMMA CreditFrame ==
    ASSUME CreditInv, UNCHANGED <<lock, sync, credited>>,
           repeated \subseteq repeated', unlocked \subseteq unlocked',
           Clean' \cap Credited \cap InRedis' \subseteq InRedis
    PROVE  CreditInv'
<1>1. Clean' \subseteq Clean /\ Credited' = Credited
    BY CreditedFrame DEF Clean
<1> QED BY <1>1 DEF CreditInv

(* Every step keeps CreditInv.                                             *)
LEMMA CreditInvStep ==
    TypeOK /\ TypeOK' /\ TraceInv /\ CreditInv /\ [Next]_vars => CreditInv'
<1> SUFFICES ASSUME TypeOK, TypeOK', TraceInv, CreditInv, [Next]_vars PROVE CreditInv'
    OBVIOUS
<1> USE DEF history
<1>0. PayloadInv /\ OriginInv /\ \A i \in InRedis : i \in Increments
    BY DEF TraceInv, InRedis, TypeOK
<1>1. CASE NextMinute
    BY <1>1, CreditFrame DEF NextMinute, InRedis
<1>2. ASSUME NEW v \in Visits, VisitArrives(v) PROVE CreditInv'
    BY <1>2, CreditFrame DEF VisitArrives, InRedis
<1>3. ASSUME NEW v \in Visits, Increment(v) PROVE CreditInv'
  <2> DEFINE i == <<Fields[made[v] + 1], v>>
  <2>1. i \notin Made /\ stat' = [stat EXCEPT ![arrived[v]] = @ \cup {i}]
      BY <1>3, NextIncrement
  <2> HIDE DEF i
  <2>2. UNCHANGED <<lock, sync, credited, repeated, unlocked>>
      BY <1>3 DEF Increment
  <2>3. i \notin Credited
      BY <1>0, <2>1 DEF OriginInv
  <2>4. InRedis' \subseteq InRedis \cup {i}
      BY <2>1 DEF InRedis, TypeOK
  <2> QED BY <2>2, <2>3, <2>4, CreditFrame
<1>4. ASSUME NEW r \in Runs, SyncStep(r) PROVE CreditInv'
  <2>0. /\ \A q \in Runs \ {r} : sync'[q] = sync[q]
        /\ PayloadOf(sync[r]) /\ sync[r] \in SyncRun
      BY <1>0, <1>4, StepCases, MinuteFacts DEF PayloadInv
  <2>1. CASE Quiet(r)
    <3>1. Clean' = Clean /\ Credited' = Credited /\ InRedis' = InRedis
        BY <2>1, CreditedFrame DEF Quiet, Clean, InRedis
    <3>2. sync[r].payload = {} /\ sync'[r].payload = {} /\ sync[r].pc # "delete"
        BY <2>0, <2>1 DEF Quiet, Empties, PayloadOf
    <3>3. ASSUME NEW q \in Runs, NEW i \in sync'[q].payload \cap Clean
          PROVE  lock' = q /\ (sync'[q].pc = "post" => i \notin Credited)
      <4>1. q # r /\ sync'[q] = sync[q]
          BY <2>0, <3>2, <3>3
      <4>2. lock = q /\ (sync[q].pc = "post" => i \notin Credited)
          BY <3>3, <4>1 DEF CreditInv
      <4> QED BY <2>1, <4>1, <4>2 DEF Quiet
    <3>4. ASSUME NEW i \in Clean \cap Credited \cap InRedis
          PROVE  \E q \in Runs : sync'[q].pc = "delete" /\ i \in sync'[q].payload
        BY <2>0, <3>2, <3>4 DEF CreditInv
    <3>5. \A i \in Clean' : credited'[i] <= 1
        BY <2>1, <3>1 DEF CreditInv, Quiet
    <3> QED BY <3>1, <3>3, <3>4, <3>5 DEF CreditInv
  <2>2. CASE Reads(r)
    <3>1. /\ Credited' = Credited /\ InRedis' = InRedis /\ Clean' \subseteq Clean
          /\ lock # r => Clean' \cap sync'[r].payload = {}
        BY <2>2, CreditedFrame DEF Reads, Clean, InRedis
    <3>2. sync'[r].payload \subseteq InRedis
      <4>1. PICK failed \in SUBSET TargetKeys(r) :
              sync'[r].payload = Summed(UNION {stat[m] : m \in TargetKeys(r) \ failed})
          BY <2>2 DEF Reads
      <4>2. TargetKeys(r) \subseteq Minutes
          BY MinuteFacts DEF TargetKeys
      <4> QED BY <4>1, <4>2 DEF Summed, InRedis
    <3>3. ASSUME NEW i \in sync'[r].payload \cap Clean' PROVE lock = r /\ i \notin Credited
      <4>1. lock = r
          BY <3>1, <3>3
      <4>2. ASSUME i \in Credited PROVE FALSE
        <5>1. PICK p \in Runs : sync[p].pc = "delete" /\ i \in sync[p].payload
            BY <3>1, <3>2, <3>3, <4>2 DEF CreditInv
        <5>2. lock = p
            BY <3>1, <3>3, <5>1 DEF CreditInv
        <5> QED BY <2>2, <4>1, <5>1, <5>2 DEF Reads
      <4> QED BY <4>1, <4>2
    <3>4. ASSUME NEW q \in Runs, NEW i \in sync'[q].payload \cap Clean'
          PROVE  lock' = q /\ (sync'[q].pc = "post" => i \notin Credited')
      <4>1. CASE q = r
          BY <2>2, <3>1, <3>3, <3>4, <4>1 DEF Reads
      <4>2. CASE q # r
          BY <2>0, <2>2, <3>1, <3>4, <4>2 DEF Reads, CreditInv
      <4> QED BY <4>1, <4>2
    <3>5. ASSUME NEW i \in Clean' \cap Credited' \cap InRedis'
          PROVE  \E q \in Runs : sync'[q].pc = "delete" /\ i \in sync'[q].payload
      <4>1. PICK p \in Runs : sync[p].pc = "delete" /\ i \in sync[p].payload
          BY <3>1, <3>5 DEF CreditInv
      <4> QED BY <2>0, <2>2, <4>1 DEF Reads
    <3>6. \A i \in Clean' : credited'[i] <= 1
        BY <2>2, <3>1 DEF CreditInv, Reads
    <3> QED BY <3>4, <3>5, <3>6 DEF CreditInv
  <2>3. CASE Posts(r)
    <3>1. Clean' = Clean /\ InRedis' = InRedis /\ UNCHANGED lock
        BY <2>3 DEF Posts, Clean, InRedis
    <3>2. ASSUME NEW i \in Clean
          PROVE  /\ i \in Increments /\ credited[i] \in Nat
                 /\ credited'[i] = credited[i] + (IF i \in sync[r].payload THEN 1 ELSE 0)
      <4>1. i \in Increments /\ i \notin sync[r].doubled
          BY <2>0 DEF Clean, PayloadOf
      <4>2. Credit(sync[r])
          BY <2>3 DEF Posts
      <4>3. credited[i] \in Nat
          BY <4>1 DEF TypeOK
      <4> QED BY <4>1, <4>2, <4>3, CreditType
    <3>3. \A i \in Clean \cap sync[r].payload : credited[i] = 0 /\ lock = r
        BY <2>3, <3>2 DEF CreditInv, Posts, Credited
    <3>4. \A i \in Clean' : credited'[i] <= 1
        BY <3>1, <3>2, <3>3 DEF CreditInv
    <3>5. ASSUME NEW q \in Runs, NEW i \in sync'[q].payload \cap Clean'
          PROVE  lock' = q /\ (sync'[q].pc = "post" => i \notin Credited')
      <4>1. CASE q = r
          BY <2>3, <3>1, <3>3, <3>5, <4>1 DEF Posts, Keeps
      <4>2. CASE q # r
        <5>1. i \in sync[q].payload \cap Clean /\ sync'[q].pc = sync[q].pc
            BY <2>0, <3>1, <3>5, <4>2
        <5>2. lock = q /\ (sync[q].pc = "post" => i \notin Credited)
            BY <5>1 DEF CreditInv
        <5>3. i \notin sync[r].payload
            BY <3>3, <4>2, <5>1, <5>2
        <5>4. i \in Increments /\ credited'[i] = credited[i]
            BY <3>2, <5>1, <5>3
        <5> QED BY <3>1, <5>1, <5>2, <5>4 DEF Credited
      <4> QED BY <4>1, <4>2
    <3>6. ASSUME NEW i \in Clean' \cap Credited' \cap InRedis'
          PROVE  \E q \in Runs : sync'[q].pc = "delete" /\ i \in sync'[q].payload
      <4>1. CASE i \in sync[r].payload
          BY <2>3, <4>1 DEF Posts, Keeps
      <4>2. CASE i \notin sync[r].payload
        <5>1. i \in Credited
            BY <3>1, <3>2, <3>6, <4>2 DEF Credited
        <5>2. PICK p \in Runs : sync[p].pc = "delete" /\ i \in sync[p].payload
            BY <3>1, <3>6, <5>1 DEF CreditInv
        <5> QED BY <2>0, <2>3, <5>2 DEF Posts
      <4> QED BY <4>1, <4>2
    <3> QED BY <3>4, <3>5, <3>6 DEF CreditInv
  <2>4. CASE Fails(r)
    <3>1. InRedis' = InRedis /\ UNCHANGED lock /\ Clean' \subseteq Clean
        BY <2>4 DEF Fails, Clean, InRedis
    <3>2. ASSUME NEW i \in Clean' PROVE i \in Increments /\ credited'[i] = credited[i]
      <4>1. CASE UNCHANGED credited
          BY <4>1 DEF Clean
      <4>2. CASE Credit(sync[r]) /\ repeated' = repeated \cup sync[r].payload
        <5>1. /\ i \in Increments /\ i \notin sync[r].payload /\ i \notin sync[r].doubled
              /\ credited[i] \in Nat
            BY <2>0, <4>2 DEF Clean, PayloadOf, TypeOK
        <5> QED BY <4>2, <5>1, CreditType
      <4> QED BY <2>4, <4>1, <4>2 DEF Fails
    <3>3. \A i \in Clean' : i \in Credited' <=> i \in Credited
        BY <3>2 DEF Credited
    <3>4. /\ sync[r].pc = "post" /\ sync'[r].payload \subseteq sync[r].payload
        BY <2>4 DEF Fails, Empties, Keeps
    <3>5. ASSUME NEW q \in Runs, NEW i \in sync'[q].payload \cap Clean'
          PROVE  lock' = q /\ (sync'[q].pc = "post" => i \notin Credited')
      <4>1. /\ i \in sync[q].payload \cap Clean
            /\ sync'[q].pc = "post" => sync[q].pc = "post"
          BY <2>0, <3>1, <3>4, <3>5
      <4> QED BY <3>1, <3>3, <3>5, <4>1 DEF CreditInv
    <3>6. ASSUME NEW i \in Clean' \cap Credited' \cap InRedis'
          PROVE  \E q \in Runs : sync'[q].pc = "delete" /\ i \in sync'[q].payload
      <4>1. PICK p \in Runs : sync[p].pc = "delete" /\ i \in sync[p].payload
          BY <3>1, <3>3, <3>6 DEF CreditInv
      <4> QED BY <2>0, <3>4, <4>1
    <3>7. \A i \in Clean' : credited'[i] <= 1
        BY <3>1, <3>2 DEF CreditInv
    <3> QED BY <3>5, <3>6, <3>7 DEF CreditInv
  <2>5. CASE Deletes(r)
    <3>1. /\ Clean' = Clean /\ Credited' = Credited /\ UNCHANGED <<lock, credited>>
          /\ sync'[r].payload = {}
        BY <2>5, CreditedFrame DEF Deletes, Clean, Empties
    <3>2. /\ \A m \in Minutes : stat'[m] = IF m \in sync[r].keys THEN {} ELSE stat[m]
          /\ InRedis' \subseteq InRedis
        BY <2>5 DEF Deletes, InRedis
    <3>3. sync[r].payload \cap InRedis' = {}
        BY <1>0, <2>0, <3>2 DEF PayloadOf, OriginInv, InRedis
    <3>4. ASSUME NEW q \in Runs, NEW i \in sync'[q].payload \cap Clean'
          PROVE  lock' = q /\ (sync'[q].pc = "post" => i \notin Credited')
        BY <2>0, <3>1, <3>4 DEF CreditInv
    <3>5. ASSUME NEW i \in Clean' \cap Credited' \cap InRedis'
          PROVE  \E q \in Runs : sync'[q].pc = "delete" /\ i \in sync'[q].payload
      <4>1. PICK p \in Runs : sync[p].pc = "delete" /\ i \in sync[p].payload
          BY <3>1, <3>2, <3>5 DEF CreditInv
      <4> QED BY <2>0, <3>3, <3>5, <4>1
    <3>6. \A i \in Clean' : credited'[i] <= 1
        BY <3>1 DEF CreditInv
    <3> QED BY <3>4, <3>5, <3>6 DEF CreditInv
  <2>6. CASE GivesUp(r)
    <3>1. /\ Clean' \subseteq Clean /\ Credited' = Credited /\ InRedis' = InRedis
          /\ UNCHANGED <<lock, credited>> /\ sync'[r].payload = {}
          /\ sync[r].pc = "delete" => sync[r].payload \cap Clean' = {}
        BY <2>6, CreditedFrame DEF GivesUp, Clean, Empties, InRedis
    <3>2. ASSUME NEW q \in Runs, NEW i \in sync'[q].payload \cap Clean'
          PROVE  lock' = q /\ (sync'[q].pc = "post" => i \notin Credited')
        BY <2>0, <3>1, <3>2 DEF CreditInv
    <3>3. ASSUME NEW i \in Clean' \cap Credited' \cap InRedis'
          PROVE  \E q \in Runs : sync'[q].pc = "delete" /\ i \in sync'[q].payload
      <4>1. PICK p \in Runs : sync[p].pc = "delete" /\ i \in sync[p].payload
          BY <3>1, <3>3 DEF CreditInv
      <4> QED BY <2>0, <3>1, <3>3, <4>1
    <3>4. \A i \in Clean' : credited'[i] <= 1
        BY <3>1 DEF CreditInv
    <3> QED BY <3>2, <3>3, <3>4 DEF CreditInv
  <2> QED BY <1>0, <1>4, <2>1, <2>2, <2>3, <2>4, <2>5, <2>6, StepCases
<1>5. CASE LockExpires
  <2>1. /\ UNCHANGED <<stat, sync, credited, repeated>>
        /\ lock \in Runs /\ unlocked' = unlocked \cup sync[lock].payload
      BY <1>5 DEF LockExpires, Lock!Expire, TypeOK, Lock!LockTypeOK
  <2>2. /\ Clean' \subseteq Clean /\ Credited' = Credited /\ InRedis' = InRedis
        /\ Clean' \cap sync[lock].payload = {}
      BY <2>1, CreditedFrame DEF Clean, InRedis
  <2>3. \A q \in Runs : sync'[q].payload \cap Clean' = {}
      BY <2>1, <2>2 DEF CreditInv
  <2> QED BY <2>1, <2>2, <2>3 DEF CreditInv
<1>6. CASE UNCHANGED vars
    BY <1>6, CreditFrame DEF vars, InRedis
<1> QED BY <1>1, <1>2, <1>3, <1>4, <1>5, <1>6 DEF Next
(* Laravel adds no increment twice unless an attempt went unanswered, a    *)
(* DEL failed, a run died between the two, SCAN returned a key twice or a  *)
(* run outlived its lock: for any number of runs at once.                  *)
THEOREM StatsCreditedOnce == Spec => []CreditedOnce
<1>1. Init => TypeOK /\ TraceInv /\ CreditInv
    BY StatsTypeInit, TraceInvInit, CreditInvInit
<1>2. TypeOK /\ TraceInv /\ CreditInv /\ [Next]_vars
        => TypeOK' /\ TraceInv' /\ CreditInv'
    BY StatsTypeStep, TraceInvStep, CreditInvStep
<1>3. TypeOK /\ CreditInv => CreditedOnce
  <2> SUFFICES ASSUME TypeOK, CreditInv, NEW i \in Increments, credited[i] > 1,
                      i \notin repeated \cup unlocked
               PROVE  FALSE
      BY DEF CreditedOnce
  <2>1. credited[i] <= 1 /\ credited[i] \in Nat
      BY DEF CreditInv, Clean, TypeOK
  <2> QED BY <2>1
<1> QED BY <1>1, <1>2, <1>3, PTL DEF Spec
(***************************************************************************)
(* An increment made in time is not lost                                   *)
(***************************************************************************)
(* At first no run posts or deletes.                                       *)
LEMMA SurviveInvInit == Init => SurviveInv
<1> SUFFICES ASSUME Init PROVE SurviveInv
    OBVIOUS
<1>1. Made = {}
  <2>1. \A i \in Increments : made[i[2]] = 0
      BY VisitOf DEF Init
  <2> QED BY <2>1 DEF Made
<1>2. \A r \in Runs : sync[r].pc = "idle"
    BY DEF Init, IdleSync
<1> QED BY <1>1, <1>2 DEF Init, SurviveInv, OnTimeIncrementsSurvive, CoveredBy, ViewFirst

(* A post takes nothing from Laravel and gives it the payload.             *)
LEMMA CreditGrows ==
    ASSUME TypeOK, NEW run, Credit(run)
    PROVE  Credited \subseteq Credited' /\ Increments \cap run.payload \subseteq Credited'
<1> SUFFICES ASSUME NEW i \in Increments, i \in Credited \/ i \in run.payload
             PROVE  credited'[i] > 0
    BY DEF Credited
<1>1. credited[i] \in Nat /\ (i \in Credited => credited[i] > 0)
    BY DEF TypeOK, Credited
<1> QED BY <1>1, CreditType

(* Nothing on time leaves Redis, nothing new comes, and no run gets closer *)
(* to deleting something.                                                  *)
LEMMA SurviveFrame ==
    ASSUME SurviveInv, UNCHANGED <<made, stat, late>>, unread \subseteq unread',
           Credited \subseteq Credited', \A q \in Runs : CoveredBy(sync[q])'
    PROVE  SurviveInv'
<1>1. Made' = Made
    BY MadeFrame
<1> QED BY <1>1 DEF SurviveInv, OnTimeIncrementsSurvive, ViewFirst, InRedis

(* A run's payload stays complete when its hashes only lose increments.    *)
LEMMA CoveredFrame ==
    ASSUME NEW q \in Runs, CoveredBy(sync[q]), OnTime' \subseteq OnTime,
           Credited \subseteq Credited', sync'[q] = sync[q],
           \A m \in sync[q].keys : stat'[m] \subseteq stat[m]
    PROVE  CoveredBy(sync[q])'
BY DEF CoveredBy

(* Every step keeps SurviveInv.                                            *)
LEMMA SurviveInvStep ==
    TypeOK /\ TypeOK' /\ TraceInv /\ SurviveInv /\ [Next]_vars => SurviveInv'
<1> SUFFICES ASSUME TypeOK, TypeOK', TraceInv, SurviveInv, [Next]_vars PROVE SurviveInv'
    OBVIOUS
<1> USE DEF history
<1>0. /\ VisitInv /\ PayloadInv /\ OnTimeIncrementsSurvive /\ ViewFirst
      /\ \A q \in Runs : CoveredBy(sync[q])
    BY DEF TraceInv, SurviveInv
<1>1. ASSUME UNCHANGED <<made, stat, sync, credited, late, unread>> PROVE SurviveInv'
  <2>1. OnTime' = OnTime /\ Credited' = Credited
      BY <1>1, MadeFrame, CreditedFrame DEF OnTime
  <2>2. \A q \in Runs : CoveredBy(sync[q])'
      BY <1>0, <1>1, <2>1 DEF CoveredBy
  <2> QED BY <1>1, <2>1, <2>2, SurviveFrame
<1>2. CASE NextMinute \/ LockExpires \/ UNCHANGED vars \/ \E v \in Visits : VisitArrives(v)
    BY <1>1, <1>2 DEF NextMinute, LockExpires, vars, visiting, VisitArrives
<1>3. ASSUME NEW v \in Visits, Increment(v) PROVE SurviveInv'
  <2> DEFINE i == <<Fields[made[v] + 1], v>>
  <2>1. /\ i \in Increments /\ Made' = Made \cup {i} /\ arrived[v] \in Minutes
        /\ stat' = [stat EXCEPT ![arrived[v]] = @ \cup {i}]
        /\ late' = IF arrived[v] = minute THEN late ELSE late \cup {i}
      BY <1>3, NextIncrement
  <2>2. i[1] = "linkRevenue" => made[v] = 1
      BY <1>3, IncrementFacts DEF Increment, TypeOK
  <2>3. i[2] = v
      OBVIOUS
  <2> HIDE DEF i
  <2>4. UNCHANGED <<sync, credited, unread>> /\ Credited' = Credited
      BY <1>3, CreditedFrame DEF Increment
  <2>5. \A m \in Minutes : stat'[m] = IF m = arrived[v] THEN stat[m] \cup {i} ELSE stat[m]
      BY <2>1 DEF TypeOK
  <2>6. OnTime' \subseteq OnTime \cup (IF arrived[v] = minute THEN {i} ELSE {})
      BY <2>1, <2>4 DEF OnTime
  <2>7. OnTimeIncrementsSurvive'
    <3>1. InRedis \cup {i} \subseteq InRedis'
        BY <2>1, <2>5 DEF InRedis
    <3> QED BY <1>0, <2>4, <2>6, <3>1 DEF OnTimeIncrementsSurvive, OnTime
  <2>8. ASSUME NEW q \in Runs PROVE CoveredBy(sync[q])'
    <3>1. CoveredBy(sync[q]) /\ PayloadOf(sync[q]) /\ sync[q].keys \subseteq Minutes
        BY <1>0, MinuteFacts DEF PayloadInv
    <3>2. ASSUME sync[q].pc \in {"post", "delete"}, NEW m \in sync[q].keys
          PROVE  stat'[m] \cap OnTime' \subseteq sync[q].payload
      <4>1. m # minute /\ stat[m] \cap OnTime \subseteq sync[q].payload
          BY <3>1, <3>2 DEF PayloadOf, CoveredBy
      <4>2. stat'[m] \cap OnTime' \subseteq stat[m] \cap (OnTime \cup {i})
          BY <2>1, <2>5, <2>6, <3>1, <4>1 DEF OnTime
      <4>3. i \notin stat[m] \/ i \in OnTime \/ i \notin OnTime'
        <5>1. i \in stat[m] => i \in Made /\ arrived[v] = m
            BY <2>3, <3>1 DEF TraceInv, OriginInv
        <5> QED BY <2>1, <4>1, <5>1 DEF OnTime
      <4> QED BY <4>1, <4>2, <4>3
    <3> QED BY <2>4, <3>1, <3>2 DEF CoveredBy
  <2>9. ViewFirst'
    <3> SUFFICES ASSUME NEW w \in Visits, NEW m \in Minutes,
                        <<"linkRevenue", w>> \in stat'[m] \ late'
                 PROVE  <<"views", w>> \in stat'[m]
        BY DEF ViewFirst
    <3>1. CASE <<"linkRevenue", w>> \in stat[m]
        BY <1>0, <2>1, <2>5, <3>1 DEF ViewFirst
    <3>2. CASE <<"linkRevenue", w>> \notin stat[m]
      <4>1. m = arrived[v] /\ i = <<"linkRevenue", w>>
          BY <2>5, <3>2
      <4>2. w = v /\ made[v] = 1 /\ arrived[v] = minute
          BY <2>1, <2>2, <2>3, <4>1
      <4>3. <<"views", v>> \in Made
          BY <4>2, IncrementFacts DEF Made
      <4> QED BY <1>0, <2>5, <4>1, <4>2, <4>3 DEF VisitInv
    <3> QED BY <3>1, <3>2
  <2> QED BY <2>7, <2>8, <2>9 DEF SurviveInv
<1>4. ASSUME NEW r \in Runs, SyncStep(r) PROVE SurviveInv'
  <2>0. /\ \A q \in Runs \ {r} : sync'[q] = sync[q]
        /\ UNCHANGED <<made, late>> /\ Made' = Made
        /\ sync[r] \in SyncRun /\ CoveredBy(sync[r]) /\ PayloadOf(sync[r])
        /\ sync[r].payload \subseteq Increments
      BY <1>0, <1>4, StepCases, MinuteFacts, MadeFrame DEF PayloadInv, visiting
  <2>1. Empties(r) => CoveredBy(sync[r])'
      BY DEF Empties, CoveredBy
  <2>2. ASSUME UNCHANGED stat, unread \subseteq unread', Credited \subseteq Credited',
               CoveredBy(sync[r])'
        PROVE  SurviveInv'
    <3>1. \A q \in Runs \ {r} : CoveredBy(sync[q])'
        BY <1>0, <2>0, <2>2, CoveredFrame DEF OnTime
    <3> QED BY <2>0, <2>2, <3>1, SurviveFrame
  <2>3. CASE Quiet(r) \/ GivesUp(r)
      BY <2>1, <2>2, <2>3, CreditedFrame DEF Quiet, GivesUp
  <2>4. CASE Reads(r)
    <3>1. PICK failed \in SUBSET TargetKeys(r) :
            /\ sync'[r].payload = Summed(UNION {stat[m] : m \in TargetKeys(r) \ failed})
            /\ unread' = unread \cup UNION {stat[m] : m \in failed}
        BY <2>4 DEF Reads
    <3> DEFINE contents == UNION {stat[m] : m \in TargetKeys(r) \ failed}
    <3>2. ASSUME NEW m \in TargetKeys(r), NEW j \in stat[m], j \in OnTime'
          PROVE  j \in Summed(contents)
      <4>1. /\ m \in Minutes /\ j \in Increments /\ j \notin late
            /\ j = <<j[1], j[2]>> /\ j[2] \in Visits
          BY <2>0, <3>2, MinuteFacts, VisitOf DEF TargetKeys, TypeOK, OnTime
      <4>2. m \notin failed
          BY <3>1, <3>2 DEF OnTime
      <4>3. stat[m] \subseteq contents
          BY <4>2
      <4>4. j[1] = "linkRevenue" => <<"views", j[2]>> \in contents
          BY <1>0, <3>2, <4>1, <4>3 DEF ViewFirst
      <4> QED BY <3>2, <4>3, <4>4 DEF Summed
    <3>3. CoveredBy(sync[r])'
        BY <2>4, <3>1, <3>2 DEF Reads, CoveredBy
    <3> QED BY <2>2, <2>4, <3>1, <3>3, CreditedFrame DEF Reads
  <2>5. CASE Posts(r)
    <3>1. Credited \subseteq Credited' /\ sync[r].payload \subseteq Credited'
        BY <2>0, <2>5, CreditGrows DEF Posts
    <3>2. OnTime' = OnTime
        BY <2>0, <2>5 DEF Posts, OnTime
    <3>3. CoveredBy(sync[r])'
        BY <2>0, <2>5, <3>1, <3>2 DEF Posts, Keeps, CoveredBy
    <3> QED BY <2>2, <2>5, <3>1, <3>3 DEF Posts
  <2>6. CASE Fails(r)
    <3>1. Credited \subseteq Credited'
        BY <2>6, CreditGrows, CreditedFrame DEF Fails
    <3>2. OnTime' = OnTime
        BY <2>0, <2>6 DEF Fails, OnTime
    <3>3. CoveredBy(sync[r])'
        BY <2>0, <2>1, <2>6, <3>2 DEF Fails, Keeps, CoveredBy
    <3> QED BY <2>2, <2>6, <3>1, <3>3 DEF Fails
  <2>7. CASE Deletes(r)
    <3>1. /\ OnTime' = OnTime /\ Credited' = Credited
          /\ \A m \in Minutes : stat'[m] = IF m \in sync[r].keys THEN {} ELSE stat[m]
        BY <2>0, <2>7, CreditedFrame DEF Deletes, OnTime
    <3>2. OnTimeIncrementsSurvive'
      <4> SUFFICES ASSUME NEW j \in OnTime, j \notin Credited PROVE j \in InRedis'
          BY <3>1 DEF OnTimeIncrementsSurvive, OnTime
      <4>1. PICK m \in Minutes : j \in stat[m]
          BY <1>0 DEF OnTimeIncrementsSurvive, OnTime, InRedis
      <4>2. m \notin sync[r].keys
          BY <2>0, <2>7, <4>1 DEF Deletes, CoveredBy
      <4> QED BY <3>1, <4>1, <4>2 DEF InRedis
    <3>3. \A q \in Runs \ {r} : CoveredBy(sync[q])'
        BY <1>0, <2>0, <3>1, MinuteFacts, CoveredFrame
    <3>4. ViewFirst'
        BY <1>0, <2>0, <3>1 DEF ViewFirst
    <3>5. CoveredBy(sync[r])'
        BY <2>1, <2>7 DEF Deletes
    <3> QED BY <3>2, <3>3, <3>4, <3>5 DEF SurviveInv
  <2> QED BY <1>0, <1>4, <2>3, <2>4, <2>5, <2>6, <2>7, StepCases
<1> QED BY <1>2, <1>3, <1>4 DEF Next

(* What a visit counts within its minute is in Redis or in Laravel, for    *)
(* any number of runs, faults and minutes: each run deletes only what it   *)
(* had in its payload, and Laravel had the payload before.                 *)
THEOREM StatsOnTimeSurvive == Spec => []OnTimeIncrementsSurvive
<1>1. Init => TypeOK /\ TraceInv /\ SurviveInv
    BY StatsTypeInit, TraceInvInit, SurviveInvInit
<1>2. TypeOK /\ TraceInv /\ SurviveInv /\ [Next]_vars
        => TypeOK' /\ TraceInv' /\ SurviveInv'
    BY StatsTypeStep, TraceInvStep, SurviveInvStep
<1>3. SurviveInv => OnTimeIncrementsSurvive
    BY DEF SurviveInv
<1> QED BY <1>1, <1>2, <1>3, PTL DEF Spec
(***************************************************************************)
(* The two lists of a payload agree                                        *)
(***************************************************************************)
(* At first nothing is counted.                                            *)
LEMMA TogetherInit == Init => TogetherInv
BY DEF Init, IdleSync, TogetherInv, TotalsAgree, Together

(* All or none of a visit: of nothing, and of what two sets share.         *)
LEMMA TogetherFacts ==
    /\ Together({})
    /\ \A S, T : Together(S) /\ Together(T) => Together(S \cap T)
BY DEF Together

(* A step that touches neither visits nor totals is judged by hashes and   *)
(* payloads alone.                                                         *)
LEMMA TogetherFrame ==
    ASSUME TogetherInv, UNCHANGED <<made, late, credited>>,
           \A m \in Minutes : Together(stat'[m]),
           \A r \in Runs : Together(sync'[r].payload) /\ Together(sync'[r].doubled)
    PROVE  TogetherInv'
<1>1. Made' = Made
    BY MadeFrame
<1> QED BY <1>1 DEF TogetherInv, TotalsAgree, Together

(* Laravel adds a payload in which the increments of a visit are together. *)
LEMMA CreditTogether ==
    ASSUME TypeOK, TotalsAgree, NEW run, Credit(run), UNCHANGED <<made, late>>,
           Together(run.payload), Together(run.doubled)
    PROVE  TotalsAgree'
<1> SUFFICES ASSUME NEW v \in Visits, Of(v) \subseteq Made \ late,
                    NEW i \in Of(v), NEW j \in Of(v)
             PROVE  credited'[i] = credited'[j]
    BY MadeFrame DEF TotalsAgree, Of
<1>1. i \in Increments /\ j \in Increments /\ credited[i] = credited[j]
    BY DEF Of, TotalsAgree
<1>2. (i \in run.payload <=> j \in run.payload) /\ (i \in run.doubled <=> j \in run.doubled)
    BY DEF Together
<1> QED BY <1>1, <1>2, CreditType

(* buildStatsPayload keeps the increments of a visit together.             *)
LEMMA SummedTogether ==
    ASSUME NEW contents, contents \subseteq Increments, Together(contents)
    PROVE  Together(Summed(contents))
<1> SUFFICES ASSUME NEW v \in Visits, Of(v) \subseteq Made \ late, Of(v) \subseteq contents
             PROVE  Of(v) \subseteq Summed(contents)
    BY DEF Together, Summed
<1>1. <<"views", v>> \in contents
    BY IncrementFacts DEF Of
<1> QED BY <1>1 DEF Summed, Of

(* Every step keeps TogetherInv.                                           *)
LEMMA TogetherStep ==
    TypeOK /\ TypeOK' /\ TraceInv /\ TogetherInv /\ [Next]_vars => TogetherInv'
<1> SUFFICES ASSUME TypeOK, TypeOK', TraceInv, TogetherInv, [Next]_vars PROVE TogetherInv'
    OBVIOUS
<1> USE DEF history
<1>0. VisitInv /\ OriginInv /\ PayloadInv /\ TotalsAgree
    BY DEF TraceInv, TogetherInv
<1>1. ASSUME UNCHANGED <<made, stat, sync, credited, late>> PROVE TogetherInv'
    BY <1>1, TogetherFrame DEF TogetherInv
<1>2. CASE NextMinute \/ LockExpires \/ UNCHANGED vars \/ \E v \in Visits : VisitArrives(v)
    BY <1>1, <1>2 DEF NextMinute, LockExpires, vars, visiting, VisitArrives
<1>3. ASSUME NEW v \in Visits, Increment(v) PROVE TogetherInv'
  <2> DEFINE i == <<Fields[made[v] + 1], v>>
  <2>1. /\ i \in Increments /\ Made' = Made \cup {i} /\ arrived[v] \in Minutes
        /\ stat' = [stat EXCEPT ![arrived[v]] = @ \cup {i}]
        /\ late' = IF arrived[v] = minute THEN late ELSE late \cup {i}
        /\ i[2] = v
      BY <1>3, NextIncrement
  <2> HIDE DEF i
  <2>2. UNCHANGED <<sync, credited>> /\ Credited' = Credited
      BY <1>3, CreditedFrame DEF Increment
  <2>3. \A m \in Minutes : stat'[m] = IF m = arrived[v] THEN stat[m] \cup {i} ELSE stat[m]
      BY <2>1 DEF TypeOK
  <2>4. i \in Of(v) /\ \A w \in Visits : w # v => i \notin Of(w)
      BY <2>1 DEF Of
  <2>5. ASSUME NEW w \in Visits, w # v, Of(w) \subseteq Made' \ late'
        PROVE  Of(w) \subseteq Made \ late
      BY <2>1, <2>4, <2>5
  <2>6. ASSUME Of(v) \subseteq Made' \ late'
        PROVE  /\ arrived[v] = minute
               /\ Of(v) \cap Credited = {}
               /\ \A m \in Minutes : Of(v) \subseteq stat'[m] \/ Of(v) \cap stat'[m] = {}
               /\ \A r \in Runs : Of(v) \cap sync[r].payload = {}
    <3>1. arrived[v] = minute
        BY <2>1, <2>4, <2>6
    <3>2. \A j \in Of(v) : arrived[j[2]] = minute
        BY <3>1 DEF Of
    <3>3. Of(v) \cap Credited = {}
        BY <1>0, <3>2, MinuteFacts DEF OriginInv
    <3>4. Of(v) \subseteq stat'[minute]
        BY <1>0, <2>1, <2>3, <2>6, <3>1, <3>2 DEF VisitInv
    <3>5. \A m \in Minutes : m # minute => Of(v) \cap stat'[m] = {}
      <4> SUFFICES ASSUME NEW m \in Minutes, m # minute, NEW j \in Of(v) \cap stat'[m]
                   PROVE  FALSE
          OBVIOUS
      <4>1. j \in stat[m]
          BY <2>3, <3>1
      <4>2. arrived[j[2]] = m
          BY <1>0, <4>1 DEF OriginInv
      <4> QED BY <3>2, <4>2
    <3>6. ASSUME NEW r \in Runs PROVE Of(v) \cap sync[r].payload = {}
        BY <1>0, <3>2 DEF PayloadInv, PayloadOf
    <3> QED BY <3>1, <3>3, <3>4, <3>5, <3>6
  <2>7. TotalsAgree'
    <3> SUFFICES ASSUME NEW w \in Visits, Of(w) \subseteq Made' \ late',
                        NEW j \in Of(w), NEW k \in Of(w)
                 PROVE  credited[j] = credited[k]
        BY <2>2 DEF TotalsAgree, Of
    <3>1. CASE w # v
        BY <1>0, <2>5, <3>1 DEF TotalsAgree, Of
    <3>2. CASE w = v
      <4>1. j \in Increments /\ k \in Increments /\ j \notin Credited /\ k \notin Credited
          BY <2>6, <3>2 DEF Of
      <4>2. credited[j] = 0 /\ credited[k] = 0
          BY <4>1 DEF Credited, TypeOK
      <4> QED BY <4>2
    <3> QED BY <3>1, <3>2
  <2>8. ASSUME NEW m \in Minutes PROVE Together(stat[m])'
    <3> SUFFICES ASSUME NEW w \in Visits, Of(w) \subseteq Made' \ late'
                 PROVE  Of(w) \subseteq stat'[m] \/ Of(w) \cap stat'[m] = {}
        BY DEF Together, Of
    <3>1. CASE w # v
      <4>1. Of(w) \subseteq stat[m] \/ Of(w) \cap stat[m] = {}
          BY <2>5, <3>1 DEF TogetherInv, Together
      <4> QED BY <2>3, <2>4, <3>1, <4>1
    <3>2. CASE w = v
        BY <2>6, <3>2
    <3> QED BY <3>1, <3>2
  <2>9. ASSUME NEW r \in Runs
        PROVE  Together(sync[r].payload)' /\ Together(sync[r].doubled)'
    <3> SUFFICES ASSUME NEW w \in Visits, Of(w) \subseteq Made' \ late'
                 PROVE  /\ Of(w) \subseteq sync[r].payload \/ Of(w) \cap sync[r].payload = {}
                        /\ Of(w) \subseteq sync[r].doubled \/ Of(w) \cap sync[r].doubled = {}
        BY <2>2 DEF Together, Of
    <3>1. CASE w # v
        BY <2>5, <3>1 DEF TogetherInv, Together
    <3>2. CASE w = v
      <4>1. sync[r].doubled \subseteq sync[r].payload
          BY <1>0 DEF PayloadInv, PayloadOf
      <4> QED BY <2>6, <3>2, <4>1
    <3> QED BY <3>1, <3>2
  <2> QED BY <2>7, <2>8, <2>9 DEF TogetherInv
<1>4. ASSUME NEW r \in Runs, SyncStep(r) PROVE TogetherInv'
  <2>0. /\ \A q \in Runs \ {r} : sync'[q] = sync[q]
        /\ UNCHANGED <<made, late>> /\ Made' = Made
        /\ sync[r] \in SyncRun
        /\ Together(sync[r].payload) /\ Together(sync[r].doubled)
      BY <1>0, <1>4, StepCases, MinuteFacts, MadeFrame DEF TogetherInv, visiting
  <2>1. \A m \in Minutes : Together(stat[m])
      BY DEF TogetherInv
  <2>2. Empties(r) \/ Keeps(r) => Together(sync'[r].payload) /\ Together(sync'[r].doubled)
      BY <2>0, TogetherFacts DEF Empties, Keeps
  <2>3. ASSUME TotalsAgree', UNCHANGED stat,
               Together(sync'[r].payload), Together(sync'[r].doubled)
        PROVE  TogetherInv'
    <3>1. \A q \in Runs : Together(sync'[q].payload) /\ Together(sync'[q].doubled)
        BY <2>0, <2>3 DEF TogetherInv
    <3> QED BY <2>0, <2>1, <2>3, <3>1 DEF TogetherInv, Together
  <2>4. UNCHANGED credited => TotalsAgree'
      BY <1>0, <2>0 DEF TotalsAgree
  <2>5. CASE Quiet(r) \/ GivesUp(r)
      BY <2>2, <2>3, <2>4, <2>5 DEF Quiet, GivesUp
  <2>6. CASE Reads(r)
    <3>1. PICK failed \in SUBSET TargetKeys(r) :
            sync'[r].payload = Summed(UNION {stat[m] : m \in TargetKeys(r) \ failed})
        BY <2>6 DEF Reads
    <3>2. /\ TargetKeys(r) \subseteq Minutes /\ sync[r].twice \subseteq Minutes
        BY <2>0 DEF TargetKeys, SyncRun
    <3>3. ASSUME NEW K \in SUBSET Minutes PROVE Together(UNION {stat[m] : m \in K})
      <4> SUFFICES ASSUME NEW v \in Visits, Of(v) \subseteq Made \ late,
                          NEW m \in K, NEW i \in Of(v) \cap stat[m]
                   PROVE  Of(v) \subseteq stat[m]
          BY DEF Together
      <4> QED BY <2>1 DEF Together
    <3>4. Together(sync'[r].payload)
      <4> DEFINE K == TargetKeys(r) \ failed
      <4>1. UNION {stat[m] : m \in K} \subseteq Increments
          BY <3>2 DEF TypeOK
      <4> QED BY <3>1, <3>2, <3>3, <4>1, SummedTogether
    <3>5. Together(sync'[r].doubled)
      <4> DEFINE twice == UNION {stat[m] : m \in sync[r].twice}
      <4>1. Together(twice) /\ sync'[r].doubled = sync'[r].payload \cap twice
          BY <2>6, <3>2, <3>3 DEF Reads
      <4> HIDE DEF twice
      <4> QED BY <3>4, <4>1, TogetherFacts
    <3> QED BY <2>3, <2>4, <2>6, <3>4, <3>5 DEF Reads
  <2>7. CASE Posts(r)
    <3>1. TotalsAgree'
        BY <1>0, <2>0, <2>7, CreditTogether DEF Posts
    <3> QED BY <2>2, <2>3, <2>7, <3>1 DEF Posts
  <2>8. CASE Fails(r)
    <3>1. TotalsAgree'
        BY <1>0, <2>0, <2>4, <2>8, CreditTogether DEF Fails
    <3> QED BY <2>2, <2>3, <2>8, <3>1 DEF Fails
  <2>9. CASE Deletes(r)
    <3>1. \A m \in Minutes : Together(stat'[m])
        BY <2>1, <2>9, TogetherFacts DEF Deletes
    <3>2. \A q \in Runs : Together(sync'[q].payload) /\ Together(sync'[q].doubled)
        BY <2>0, <2>2, <2>9 DEF TogetherInv, Deletes
    <3> QED BY <2>0, <2>9, <3>1, <3>2, TogetherFrame DEF Deletes
  <2> QED BY <1>0, <1>4, <2>5, <2>6, <2>7, <2>8, <2>9, StepCases
<1> QED BY <1>2, <1>3, <1>4 DEF Next

(* Of a visit counted within its minute Laravel always adds the view, the  *)
(* revenue of the link and that of the user equally often, however many    *)
(* visits, runs and faults: the payload never has one without the others.  *)
THEOREM StatsTotalsAgree == Spec => []TotalsAgree
<1>1. Init => TypeOK /\ TraceInv /\ TogetherInv
    BY StatsTypeInit, TraceInvInit, TogetherInit
<1>2. TypeOK /\ TraceInv /\ TogetherInv /\ [Next]_vars
        => TypeOK' /\ TraceInv' /\ TogetherInv'
    BY StatsTypeStep, TraceInvStep, TogetherStep
<1>3. TogetherInv => TotalsAgree
    BY DEF TogetherInv
<1> QED BY <1>1, <1>2, <1>3, PTL DEF Spec
=============================================================================
