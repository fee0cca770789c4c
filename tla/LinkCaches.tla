----------------------------- MODULE LinkCaches -----------------------------
(***************************************************************************)
(* The caches of links behind one cache version.  The visits and the       *)
(* redirects of stu share nothing but that version: each service holds its *)
(* own copy of it.  A behaviour has requests of one of the two.            *)
(***************************************************************************)
EXTENDS LinkDetailCache, StuCache

VARIABLE service  \* whose requests these are

cacheVars == <<baseVars, detail, stuVars, service>>

CachesTypeOK ==
    /\ CacheTypeOK
    /\ DetailTypeOK
    /\ StuTypeOK
    /\ service \in {"detail", "stu"}

CachesInit ==
    /\ CacheInit
    /\ DetailInit
    /\ StuInit
    /\ service \in {"detail", "stu"}

CachesNext ==
    \/ /\ (\E r \in Readers : VersionStep(r) \/ VersionReadFails(r)) \/ Edit \/ Bump \/ Tick
       /\ UNCHANGED <<detail, stuVars, service>>
    \/ /\ service = "detail"
       /\ (\E r \in Readers : DetailStep(r)) \/ DetailExpires \/ DetailGarbled
       /\ UNCHANGED <<stuVars, service>>
    \/ /\ service = "stu"
       /\ (\E r \in Readers : StuStep(r)) \/ StuExpires
       /\ UNCHANGED <<detail, service>>

CachesSpec == CachesInit /\ [][CachesNext]_cacheVars

(* An invalidation reaches every visit that comes VersionTtl later, on     *)
(* whatever process: it sees the link as it was then, or newer.            *)
InvalidationReachesVisits ==
    service = "detail" =>
    \A r \in Readers, v \in Versions :
        /\ v < version /\ retired[v] + VersionTtl <= reader[r].started
        /\ reader[r].result # None /\ ~reader[r].blind
        => reader[r].result >= dataAt[v + 1]
=============================================================================
