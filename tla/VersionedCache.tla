--------------------------- MODULE VersionedCache ---------------------------
(***************************************************************************)
(* The cache version of tracking.service.ts and stu.service.ts: a number   *)
(* in Redis that is part of every key of their caches.  The application    *)
(* raises it after it has changed its data, and the old entries are never  *)
(* looked up again.  Each process keeps the number it read for some time,  *)
(* so that processes use different ones for a while.                       *)
(*                                                                         *)
(* A request that needs the version is sent through "ask" and goes on at   *)
(* its field then.  The data of the application are one counter of edits.  *)
(***************************************************************************)
EXTENDS Integers

CONSTANTS
    Instances,    \* the processes
    Readers,      \* the requests
    VersionTtl,   \* ticks for which a process keeps the version
    None,         \* no value
    Garbage,      \* an entry of a cache that cannot be parsed
    LastVersion,  \* bound: the last version reached
    LastEdit,     \* bound: edits of the data
    LastTick,     \* bound: the clock
    MaxFaults     \* bound: faults in a behaviour

ASSUME CacheAssumption ==
    /\ VersionTtl \in Nat \ {0}
    /\ LastVersion \in Nat \ {0}
    /\ LastEdit \in Nat /\ LastTick \in Nat /\ MaxFaults \in Nat
    /\ None \notin Int /\ Garbage \notin Int /\ None # Garbage

VARIABLES
    now,      \* the clock
    data,     \* edits of the data so far
    version,  \* the version in Redis
    held,     \* the version each process holds, and until when
    reader,   \* the state of each request
    faults,   \* faults so far
    dataAt,   \* history: the data when a version came
    retired   \* history: the time at which a version was replaced

clock    == <<now, faults>>
origin   == <<data, version, dataAt, retired>>
baseVars == <<clock, origin, held, reader>>

Versions == 1..LastVersion
Edits    == 0..LastEdit
Times    == 0..LastTick

(* started is history: when the request came; from: the first version it   *)
(* used; blind: it could not read the version.                             *)
ReaderState ==
    [pc : {"idle", "ask", "await", "assign", "get", "drop", "fetch", "store", "forget",
           "level", "dropLevel", "readLevel", "storeLevel"},
     then : {"get", "forget", "level", "store"},
     instance : Instances, asked : Times, key : Versions, attempt : 0..2,
     row : Edits, level : Edits, result : Edits \cup {None},
     started : Times, from : Versions \cup {None}, blind : BOOLEAN]

CacheTypeOK ==
    /\ now \in Times
    /\ data \in Edits
    /\ version \in Versions
    /\ held \in [Instances -> [value : Versions, expiresAt : 0..(LastTick + VersionTtl)]]
    /\ reader \in [Readers -> ReaderState]
    /\ faults \in 0..MaxFaults
    /\ dataAt \in [Versions -> Edits]
    /\ retired \in [Versions -> Times]

Quiet(i, result) ==
    [pc |-> "idle", then |-> "get", instance |-> i, asked |-> 0, key |-> 1, attempt |-> 0,
     row |-> 0, level |-> 0, result |-> result, started |-> 0, from |-> None, blind |-> FALSE]

(* No key in Redis stands for version 1.                                   *)
CacheInit ==
    /\ now = 0
    /\ data = 0
    /\ version = 1
    /\ held = [i \in Instances |-> [value |-> 1, expiresAt |-> 0]]
    /\ reader \in [Readers -> {Quiet(i, None) : i \in Instances}]
    /\ faults = 0
    /\ dataAt = [v \in Versions |-> 0]
    /\ retired = [v \in Versions |-> 0]

At(r, pc) == reader[r].pc = pc

Goto(r, pc) == reader' = [reader EXCEPT ![r].pc = pc]

(* The version is asked for, and the request goes on at pc.                *)
AskThen(state, pc) == [state EXCEPT !.pc = "ask", !.then = pc]

(* A finished request leaves its result for the properties to look at.     *)
Finished(state, value) ==
    IF value = None THEN Quiet(state.instance, None)
    ELSE [Quiet(state.instance, value) EXCEPT !.started = state.started, !.blind = state.blind]

Fault == faults < MaxFaults /\ faults' = faults + 1 /\ UNCHANGED now

(***************************************************************************)
(* getCacheVersion                                                         *)
(***************************************************************************)
Start(r) ==
    /\ At(r, "idle")
    /\ reader' = [reader EXCEPT ![r] =
                      [AskThen(Quiet(@.instance, None), "get") EXCEPT !.started = now]]
    /\ UNCHANGED <<clock, origin, held>>

Use(state, v) ==
    [state EXCEPT !.key = v, !.from = IF @ = None THEN v ELSE @, !.pc = state.then,
                  !.then = "get", !.asked = 0]

(* A mutant of AskVersion: what was read once is never too old.            *)
AskVersionOnce(r) ==
    /\ At(r, "ask")
    /\ LET h == held[reader[r].instance]
       IN  reader' = [reader EXCEPT ![r] = IF h.expiresAt > 0 THEN Use(@, h.value)
                                           ELSE [@ EXCEPT !.pc = "await", !.asked = now]]
    /\ UNCHANGED <<clock, origin, held>>

AskVersion(r) ==
    /\ At(r, "ask")
    /\ LET h == held[reader[r].instance]
       IN  reader' = [reader EXCEPT ![r] = IF now < h.expiresAt THEN Use(@, h.value)
                                           ELSE [@ EXCEPT !.pc = "await", !.asked = now]]
    /\ UNCHANGED <<clock, origin, held>>

(* Redis answers.                                                          *)
ReadVersion(r) ==
    /\ At(r, "await")
    /\ reader' = [reader EXCEPT ![r].pc = "assign", ![r].key = version]
    /\ UNCHANGED <<clock, origin, held>>

(* A mutant of AssignVersion: kept from the answer on, not from the        *)
(* question.                                                               *)
AssignVersionFromNow(r) ==
    /\ At(r, "assign")
    /\ \A q \in Readers : At(q, "assign") /\ reader[q].instance = reader[r].instance
                         => reader[q].key >= reader[r].key
    /\ held' = [held EXCEPT ![reader[r].instance] =
                    [value |-> reader[r].key, expiresAt |-> now + VersionTtl]]
    /\ reader' = [reader EXCEPT ![r] = Use(@, @.key)]
    /\ UNCHANGED <<clock, origin>>

(* The answer is kept.  A process has one connection: older answers come   *)
(* first.                                                                  *)
AssignVersion(r) ==
    /\ At(r, "assign")
    /\ \A q \in Readers : At(q, "assign") /\ reader[q].instance = reader[r].instance
                         => reader[q].key >= reader[r].key
    /\ held' = [held EXCEPT ![reader[r].instance] =
                    [value |-> reader[r].key, expiresAt |-> reader[r].asked + VersionTtl]]
    /\ reader' = [reader EXCEPT ![r] = Use(@, @.key)]
    /\ UNCHANGED <<clock, origin>>

(* The old version serves, however old.                                    *)
VersionReadFails(r) ==
    /\ At(r, "await")
    /\ Fault
    /\ reader' = [reader EXCEPT ![r] =
                      [Use(@, held[@.instance].value) EXCEPT !.blind = TRUE]]
    /\ UNCHANGED <<origin, held>>

(***************************************************************************)
(* The application and the clock                                           *)
(***************************************************************************)
Edit ==
    /\ data < LastEdit
    /\ data' = data + 1
    /\ UNCHANGED <<clock, version, dataAt, retired, held, reader>>

Bump ==
    /\ version < LastVersion
    /\ version' = version + 1
    /\ dataAt' = [dataAt EXCEPT ![version + 1] = data]
    /\ retired' = [retired EXCEPT ![version] = now]
    /\ UNCHANGED <<clock, data, held, reader>>

Tick ==
    /\ now < LastTick
    /\ now' = now + 1
    /\ UNCHANGED <<faults, origin, held, reader>>

VersionStep(r) == Start(r) \/ AskVersion(r) \/ ReadVersion(r) \/ AssignVersion(r)

(* A request that came when a version had been replaced for as long as     *)
(* processes keep one uses a later version, unless it cannot read it.      *)
RetiredVersionsAreLeft ==
    \A r \in Readers, v \in Versions :
        /\ v < version /\ retired[v] + VersionTtl <= reader[r].started
        /\ reader[r].from # None /\ ~reader[r].blind
        => reader[r].from > v
=============================================================================
