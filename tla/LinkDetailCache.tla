--------------------------- MODULE LinkDetailCache ---------------------------
(***************************************************************************)
(* getLinkByAlias of tracking.service.ts: the details of a link, from the  *)
(* cache or from the detail service.  One link, seen from one country.     *)
(***************************************************************************)
EXTENDS VersionedCache

VARIABLE detail  \* link:detail:v{version}:{alias}:{country}

DetailTypeOK == detail \in [Versions -> Edits \cup {None, Garbage}]

DetailInit == detail = [v \in Versions |-> None]

(* A garbled entry may be JSON of another form, or no JSON: then parsing    *)
(* throws, and the service is asked without a DEL.                         *)
GetDetail(r) ==
    /\ At(r, "get")
    /\ \E garbled \in {"drop", "fetch"} :
       LET entry == detail[reader[r].key]
       IN  reader' = [reader EXCEPT ![r] =
               CASE entry = None    -> [@ EXCEPT !.pc = "fetch"]
                 [] entry = Garbage -> [@ EXCEPT !.pc = garbled]
                 [] OTHER           -> Finished(@, entry)]
    /\ UNCHANGED <<clock, origin, held, detail>>

(* GET or DEL fails: a warning, and the service is asked.                  *)
GetDetailFails(r) ==
    /\ reader[r].pc \in {"get", "drop"}
    /\ Fault
    /\ Goto(r, "fetch")
    /\ UNCHANGED <<origin, held, detail>>

(* An entry that is no link detail is deleted.                             *)
DropDetail(r) ==
    /\ At(r, "drop")
    /\ detail' = [detail EXCEPT ![reader[r].key] = None]
    /\ Goto(r, "fetch")
    /\ UNCHANGED <<clock, origin, held>>

(* One of the three attempts of getWithRetry is answered.                  *)
Fetch(r) ==
    /\ At(r, "fetch")
    /\ reader' = [reader EXCEPT ![r].pc = "store", ![r].row = data]
    /\ UNCHANGED <<clock, origin, held, detail>>

(* A mutant of FetchFails: one attempt more.                               *)
FetchFailsLater(r) ==
    /\ At(r, "fetch")
    /\ \/ reader[r].attempt < 3 /\ reader' = [reader EXCEPT ![r].attempt = @ + 1]
       \/ reader' = [reader EXCEPT ![r] = Finished(@, None)]
    /\ UNCHANGED <<clock, origin, held, detail>>

(* An attempt fails, or finds no link; the third one is the last, and so   *)
(* is an answer that does not parse.                                       *)
FetchFails(r) ==
    /\ At(r, "fetch")
    /\ \/ reader[r].attempt < 2 /\ reader' = [reader EXCEPT ![r].attempt = @ + 1]
       \/ reader' = [reader EXCEPT ![r] = Finished(@, None)]
    /\ UNCHANGED <<clock, origin, held, detail>>

(* A mutant of StoreDetail: the key built when the answer is there.        *)
StoreDetailUnderHeld(r) ==
    /\ At(r, "store")
    /\ detail' = [detail EXCEPT ![held[reader[r].instance].value] = reader[r].row]
    /\ reader' = [reader EXCEPT ![r] = Finished(@, @.row)]
    /\ UNCHANGED <<clock, origin, held>>

(* SET under the key that was looked up.                                   *)
StoreDetail(r) ==
    /\ At(r, "store")
    /\ detail' = [detail EXCEPT ![reader[r].key] = reader[r].row]
    /\ reader' = [reader EXCEPT ![r] = Finished(@, @.row)]
    /\ UNCHANGED <<clock, origin, held>>

StoreDetailFails(r) ==
    /\ At(r, "store")
    /\ Fault
    /\ reader' = [reader EXCEPT ![r] = Finished(@, @.row)]
    /\ UNCHANGED <<origin, held, detail>>

(* The time to live of an entry is over, or Redis evicts it.               *)
DetailExpires ==
    /\ \E v \in Versions : detail[v] # None /\ detail' = [detail EXCEPT ![v] = None]
    /\ UNCHANGED baseVars

(* Something else overwrites an entry.                                     *)
DetailGarbled ==
    /\ Fault
    /\ \E v \in Versions : detail[v] # None /\ detail' = [detail EXCEPT ![v] = Garbage]
    /\ UNCHANGED <<origin, held, reader>>

DetailStep(r) ==
    \/ GetDetail(r) \/ DropDetail(r) \/ Fetch(r) \/ FetchFails(r) \/ StoreDetail(r)
    \/ GetDetailFails(r) \/ StoreDetailFails(r)

(* What is cached under a version is no older than the data were when the  *)
(* version came: the key is built before the service is asked.             *)
DetailsAreOfTheirVersion ==
    \A v \in Versions : detail[v] \notin {None, Garbage} => detail[v] >= dataAt[v]
=============================================================================
