------------------------------ MODULE StuCache ------------------------------
(***************************************************************************)
(* getLinkWithAutoLevel of stu.service.ts: a link with the redirect        *)
(* settings of its level, which come from the link's own level or from the *)
(* automatic level of its owner.  The version is read up to three times in *)
(* one request, once for each key.  One link, one automatic level.         *)
(***************************************************************************)
EXTENDS VersionedCache

VARIABLES
    stu,    \* the link cache, by version
    levels  \* the level cache, by version

stuVars == <<stu, levels>>

(* spans is history: the writer of the entry first used an older version.  *)
LinkInfo == [row : Edits, level : Edits, spans : BOOLEAN]

StuTypeOK ==
    /\ stu \in [Versions -> LinkInfo \cup {None, Garbage}]
    /\ levels \in [Versions -> Edits \cup {None, Garbage}]

StuInit ==
    /\ stu = [v \in Versions |-> None]
    /\ levels = [v \in Versions |-> None]

(* getCachedJson: nothing, something to delete, or an answer.              *)
CachedJson(entry, state, missing, broken, found) ==
    CASE entry = None    -> [state EXCEPT !.pc = missing]
      [] entry = Garbage -> [state EXCEPT !.pc = broken]
      [] OTHER           -> found

GetStu(r) ==
    /\ At(r, "get")
    /\ LET entry == stu[reader[r].key]
       IN  reader' = [reader EXCEPT ![r] =
               CachedJson(entry, @, "fetch", "drop", Finished(@, None))]
    /\ UNCHANGED <<clock, origin, held, stuVars>>

(* A mutant of GetLevel: a key without the version.                        *)
GetLevelUnversioned(r) ==
    /\ At(r, "level")
    /\ LET entry == levels[1]
       IN  reader' = [reader EXCEPT ![r] =
               CachedJson(entry, @, "readLevel", "dropLevel",
                          AskThen([@ EXCEPT !.level = entry], "store"))]
    /\ UNCHANGED <<clock, origin, held, stuVars>>

GetLevel(r) ==
    /\ At(r, "level")
    /\ LET entry == levels[reader[r].key]
       IN  reader' = [reader EXCEPT ![r] =
               CachedJson(entry, @, "readLevel", "dropLevel",
                          AskThen([@ EXCEPT !.level = entry], "store"))]
    /\ UNCHANGED <<clock, origin, held, stuVars>>

(* A GET that fails is treated like a payload that does not parse: the key *)
(* is deleted.  (When that fails too, so does the request.)                *)
GetStuFails(r) ==
    /\ Fault
    /\ \/ At(r, "get") /\ Goto(r, "drop")
       \/ At(r, "level") /\ Goto(r, "dropLevel")
    /\ UNCHANGED <<origin, held, stuVars>>

DropStu(r) ==
    /\ At(r, "drop")
    /\ stu' = [stu EXCEPT ![reader[r].key] = None]
    /\ Goto(r, "fetch")
    /\ UNCHANGED <<clock, origin, held, levels>>

DropLevel(r) ==
    /\ At(r, "dropLevel")
    /\ levels' = [levels EXCEPT ![reader[r].key] = None]
    /\ Goto(r, "readLevel")
    /\ UNCHANGED <<clock, origin, held, stu>>

(* findLinkByAlias: the link and the settings of its own level.  Whether   *)
(* there is a row, and an automatic level, is up to the application.       *)
FindLink(r) ==
    /\ At(r, "fetch")
    /\ \/ reader' = [reader EXCEPT ![r] = AskThen(@, "forget")]
       \/ \E next \in {"level", "store"} :
             reader' = [reader EXCEPT ![r] = AskThen([@ EXCEPT !.row = data, !.level = data], next)]
    /\ UNCHANGED <<clock, origin, held, stuVars>>

(* A link that does not exist is deleted from the cache.                   *)
Forget(r) ==
    /\ At(r, "forget")
    /\ stu' = [stu EXCEPT ![reader[r].key] = None]
    /\ reader' = [reader EXCEPT ![r] = Finished(@, None)]
    /\ UNCHANGED <<clock, origin, held, levels>>

(* findLevelById.  A level that does not exist leaves the link's own.      *)
FindLevel(r) ==
    /\ At(r, "readLevel")
    /\ \/ reader' = [reader EXCEPT ![r] = AskThen(@, "store")]
       \/ reader' = [reader EXCEPT ![r].pc = "storeLevel", ![r].level = data]
    /\ UNCHANGED <<clock, origin, held, stuVars>>

(* A mutant of StoreLevel: under the version the process holds by now.     *)
StoreLevelUnderHeld(r) ==
    /\ At(r, "storeLevel")
    /\ levels' = [levels EXCEPT ![held[reader[r].instance].value] = reader[r].level]
    /\ reader' = [reader EXCEPT ![r] = AskThen(@, "store")]
    /\ UNCHANGED <<clock, origin, held, stu>>

StoreLevel(r) ==
    /\ At(r, "storeLevel")
    /\ levels' = [levels EXCEPT ![reader[r].key] = reader[r].level]
    /\ reader' = [reader EXCEPT ![r] = AskThen(@, "store")]
    /\ UNCHANGED <<clock, origin, held, stu>>

Entry(state) == [row |-> state.row, level |-> state.level, spans |-> state.from < state.key]

StoreLink(r) ==
    /\ At(r, "store")
    /\ stu' = [stu EXCEPT ![reader[r].key] = Entry(reader[r])]
    /\ reader' = [reader EXCEPT ![r] = Finished(@, None)]
    /\ UNCHANGED <<clock, origin, held, levels>>

(* setCachedJson: a warning.                                               *)
StoreStuFails(r) ==
    /\ Fault
    /\ \/ /\ At(r, "storeLevel")
          /\ reader' = [reader EXCEPT ![r] = AskThen(@, "store")]
       \/ /\ At(r, "store")
          /\ reader' = [reader EXCEPT ![r] = Finished(@, None)]
    /\ UNCHANGED <<origin, held, stuVars>>

(* The hour of an entry is over, or Redis evicts it.                       *)
StuExpires ==
    /\ \E v \in Versions :
          \/ stu[v] # None /\ stu' = [stu EXCEPT ![v] = None] /\ UNCHANGED levels
          \/ levels[v] # None /\ levels' = [levels EXCEPT ![v] = None] /\ UNCHANGED stu
    /\ UNCHANGED baseVars

StuStep(r) ==
    \/ GetStu(r) \/ DropStu(r) \/ FindLink(r) \/ Forget(r) \/ GetLevel(r) \/ DropLevel(r)
    \/ FindLevel(r) \/ StoreLevel(r) \/ StoreLink(r) \/ GetStuFails(r) \/ StoreStuFails(r)

(* A level that is cached under a version is no older than the data were   *)
(* when the version came: its version is read before the level.            *)
LevelsAreOfTheirVersion ==
    \A v \in Versions : levels[v] \notin {None, Garbage} => levels[v] >= dataAt[v]

(* The version of a link entry is read after the link and its level, so    *)
(* that it may be newer than both.  But then the writer has seen the       *)
(* version change: a request that meets one version caches nothing stale.  *)
StaleLinksSpanVersions ==
    \A v \in Versions :
        stu[v] \notin {None, Garbage} /\ ~stu[v].spans
            => stu[v].row >= dataAt[v] /\ stu[v].level >= dataAt[v]
=============================================================================
