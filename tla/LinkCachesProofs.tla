-------------------------- MODULE LinkCachesProofs --------------------------
(***************************************************************************)
(* Proofs about LinkCaches, for any number of processes, requests,         *)
(* versions, edits, ticks and faults: one inductive invariant, of which    *)
(* every property of the caches is a part.                                 *)
(***************************************************************************)
EXTENDS LinkCaches, TLAPS

(***************************************************************************)
(* What the steps do to a request and to the caches.  A step of a request  *)
(* writes a record; here it becomes the fields it changes and keeps.       *)
(***************************************************************************)

(***************************************************************************)
(* The states of a request                                                 *)
(***************************************************************************)
(* Quiet is a state.                                                       *)
LEMMA QuietFields ==
    ASSUME NEW i \in Instances, NEW result \in Edits \cup {None}
    PROVE  /\ Quiet(i, result) \in ReaderState
           /\ Quiet(i, result).pc = "idle"
           /\ Quiet(i, result).instance = i
           /\ Quiet(i, result).result = result
           /\ Quiet(i, result).from = None
           /\ Quiet(i, result).then = "get"
           /\ Quiet(i, result).asked = 0
           /\ Quiet(i, result).started = 0
<1>1. 0 \in Edits /\ 0 \in Times /\ 1 \in Versions
    BY CacheAssumption DEF Edits, Times, Versions
<1> QED BY <1>1 DEF Quiet, ReaderState

Busy == {"get", "drop", "fetch", "store", "forget", "level", "dropLevel", "readLevel", "storeLevel"}

(* What a request keeps while it works or asks for the version again.      *)
Kept(s, t) ==
    /\ t.instance = s.instance
    /\ t.started = s.started
    /\ t.asked = s.asked
    /\ t.key = s.key
    /\ t.from = s.from
    /\ t.result = s.result
    /\ t.blind <=> s.blind

(* Going on.                                                               *)
LEMMA GotoFields ==
    ASSUME NEW s \in ReaderState, NEW pc \in Busy, NEW t, t = [s EXCEPT !.pc = pc]
    PROVE  /\ t \in ReaderState /\ Kept(s, t)
           /\ t.pc = pc /\ t.then = s.then /\ t.row = s.row /\ t.level = s.level
<1>1. t \in ReaderState /\ t.blind = s.blind
    BY DEF ReaderState, Busy
<1>2. /\ t.pc = pc /\ t.then = s.then /\ t.instance = s.instance /\ t.key = s.key
      /\ t.asked = s.asked /\ t.started = s.started /\ t.row = s.row /\ t.level = s.level
      /\ t.result = s.result /\ t.from = s.from
    BY DEF ReaderState
<1> QED BY <1>1, <1>2 DEF Kept

WithData(s, row, level) == [s EXCEPT !.row = row, !.level = level]

(* Taking another row or level.                                            *)
LEMMA DataFields ==
    ASSUME NEW s \in ReaderState, NEW row \in Edits, NEW level \in Edits,
           NEW t, t = WithData(s, row, level)
    PROVE  /\ t \in ReaderState /\ Kept(s, t)
           /\ t.pc = s.pc /\ t.then = s.then /\ t.row = row /\ t.level = level
<1>1. t \in ReaderState /\ t.blind = s.blind
    BY DEF ReaderState, WithData
<1>2. /\ t.pc = s.pc /\ t.then = s.then /\ t.instance = s.instance /\ t.key = s.key
      /\ t.asked = s.asked /\ t.started = s.started /\ t.row = row /\ t.level = level
      /\ t.result = s.result /\ t.from = s.from
    BY DEF ReaderState, WithData
<1> QED BY <1>1, <1>2 DEF Kept

(* Asking for the version.                                                 *)
LEMMA AskFields ==
    ASSUME NEW s \in ReaderState, NEW then \in {"get", "forget", "level", "store"},
           NEW t, t = AskThen(s, then)
    PROVE  /\ t \in ReaderState /\ Kept(s, t)
           /\ t.pc = "ask" /\ t.then = then /\ t.row = s.row /\ t.level = s.level
<1>0. t = [s EXCEPT !.pc = "ask", !.then = then]
    BY DEF AskThen
<1>1. t \in ReaderState /\ t.blind = s.blind
    BY <1>0 DEF ReaderState
<1>2. /\ t.pc = "ask" /\ t.then = then /\ t.instance = s.instance /\ t.key = s.key
      /\ t.asked = s.asked /\ t.started = s.started /\ t.row = s.row /\ t.level = s.level
      /\ t.result = s.result /\ t.from = s.from
    BY <1>0 DEF ReaderState
<1> QED BY <1>1, <1>2 DEF Kept

(* The version is used: as the key, and as the first one.                  *)
LEMMA UseFields ==
    ASSUME NEW s \in ReaderState, NEW v \in Versions
    PROVE  /\ Use(s, v) \in ReaderState
           /\ Use(s, v).pc = s.then /\ Use(s, v).then = "get"
           /\ Use(s, v).key = v /\ Use(s, v).asked = 0
           /\ Use(s, v).from = IF s.from = None THEN v ELSE s.from
           /\ Use(s, v).instance = s.instance /\ Use(s, v).started = s.started
           /\ Use(s, v).row = s.row /\ Use(s, v).level = s.level
           /\ Use(s, v).result = s.result
           /\ Use(s, v).blind = s.blind
<1> DEFINE from == IF s.from = None THEN v ELSE s.from
           t == [s EXCEPT !.key = v, !.from = from, !.pc = s.then, !.then = "get", !.asked = 0]
<1>1. Use(s, v) = t
    BY DEF Use, ReaderState
<1>2. 0 \in Times /\ from \in Versions \cup {None}
    BY CacheAssumption DEF Times, ReaderState
<1> HIDE DEF from
<1>3. t \in ReaderState /\ t.blind = s.blind
    BY <1>2 DEF ReaderState
<1>4. /\ t.pc = s.then /\ t.then = "get" /\ t.key = v /\ t.asked = 0 /\ t.from = from
      /\ t.instance = s.instance /\ t.started = s.started /\ t.row = s.row /\ t.level = s.level
      /\ t.result = s.result
    BY DEF ReaderState
<1> HIDE DEF t
<1> QED BY <1>1, <1>3, <1>4 DEF from

(* A finished request keeps its result, its start and whether it was blind.*)
LEMMA FinishedFields ==
    ASSUME NEW s \in ReaderState, NEW value \in Edits \cup {None}
    PROVE  /\ Finished(s, value) \in ReaderState
           /\ Finished(s, value).pc = "idle" /\ Finished(s, value).then = "get"
           /\ Finished(s, value).instance = s.instance
           /\ Finished(s, value).result = value /\ Finished(s, value).from = None
           /\ Finished(s, value).asked = 0
           /\ Finished(s, value).started \in {0, s.started}
           /\ value # None => /\ Finished(s, value).started = s.started
                              /\ Finished(s, value).blind = s.blind
<1>0. s.instance \in Instances /\ s.started \in Times /\ s.blind \in BOOLEAN
    BY DEF ReaderState
<1>1. CASE value = None
    BY <1>0, <1>1, QuietFields DEF Finished
<1>2. CASE value # None
    <2> DEFINE q == Quiet(s.instance, value)
               t == [q EXCEPT !.started = s.started, !.blind = s.blind]
    <2>1. /\ q \in ReaderState /\ q.pc = "idle" /\ q.then = "get"
          /\ q.instance = s.instance /\ q.result = value /\ q.from = None /\ q.asked = 0
        BY <1>0, QuietFields
    <2> HIDE DEF q
    <2>2. t \in ReaderState /\ t.blind = s.blind
        BY <1>0, <2>1 DEF ReaderState
    <2>3. /\ t.pc = q.pc /\ t.then = q.then /\ t.instance = q.instance
          /\ t.result = q.result /\ t.from = q.from /\ t.asked = q.asked
          /\ t.started = s.started
        BY <1>0, <2>1 DEF ReaderState
    <2>4. Finished(s, value) = t
        BY <1>2 DEF Finished, q
    <2> HIDE DEF t
    <2> QED BY <2>1, <2>2, <2>3, <2>4
<1> QED BY <1>1, <1>2

(***************************************************************************)
(* What the steps of a request do to it                                    *)
(***************************************************************************)
(* A step of r writes its state alone.                                     *)
Alone(r) ==
    /\ reader' \in [Readers -> ReaderState]
    /\ reader'[r].instance = reader[r].instance
    /\ \A q \in Readers \ {r} : reader'[q] = reader[q]

SameRow(r) == reader'[r].row = reader[r].row
SameLevel(r) == reader'[r].level = reader[r].level

(* A busy request works, asks for the version again, or is finished.       *)
Works(r, pc) ==
    /\ Alone(r)
    /\ reader[r].pc \in Busy /\ Kept(reader[r], reader'[r])
    /\ reader'[r].pc = pc /\ reader'[r].then = reader[r].then

Asks(r, then) ==
    /\ Alone(r)
    /\ reader[r].pc \in Busy /\ Kept(reader[r], reader'[r])
    /\ reader'[r].pc = "ask" /\ reader'[r].then = then

Rests(r, value) ==
    /\ Alone(r)
    /\ reader[r].pc \in Busy
    /\ reader'[r].pc = "idle" /\ reader'[r].then = "get"
    /\ reader'[r].result = value /\ reader'[r].from = None /\ reader'[r].asked = 0
    /\ reader'[r].started \in {0, reader[r].started}
    /\ value # None => /\ reader'[r].started = reader[r].started
                       /\ reader'[r].blind <=> reader[r].blind

(* Writing one state.                                                      *)
LEMMA OneWritten ==
    ASSUME CacheTypeOK, NEW r \in Readers, NEW t \in ReaderState,
           t.instance = reader[r].instance, reader' = [reader EXCEPT ![r] = t]
    PROVE  Alone(r) /\ reader'[r] = t
BY DEF CacheTypeOK, Alone

(* Going on.                                                               *)
LEMMA GoesOn ==
    ASSUME CacheTypeOK, NEW r \in Readers, reader[r].pc \in Busy, NEW pc \in Busy,
           reader' = [reader EXCEPT ![r].pc = pc]
    PROVE  Works(r, pc) /\ SameRow(r) /\ SameLevel(r)
<1>1. PICK s \in ReaderState : s = reader[r]
    BY DEF CacheTypeOK
<1>2. PICK t : t = [s EXCEPT !.pc = pc]
    OBVIOUS
<1>3. reader' = [reader EXCEPT ![r] = t]
    BY <1>1, <1>2 DEF CacheTypeOK
<1>4. /\ t \in ReaderState /\ Kept(s, t)
      /\ t.pc = pc /\ t.then = s.then /\ t.row = s.row /\ t.level = s.level
    BY <1>2, GotoFields
<1>5. Alone(r) /\ reader'[r] = t
    BY <1>1, <1>3, <1>4, OneWritten DEF Kept
<1> QED BY <1>1, <1>4, <1>5 DEF Works, SameRow, SameLevel

(* Going on with other data.                                               *)
LEMMA WorksWith ==
    ASSUME CacheTypeOK, NEW r \in Readers, reader[r].pc \in Busy,
           NEW t \in ReaderState, Kept(reader[r], t), t.then = reader[r].then,
           reader' = [reader EXCEPT ![r] = t]
    PROVE  Works(r, t.pc) /\ reader'[r] = t
BY OneWritten DEF Works, Kept

(* Asking for the version, likewise.                                       *)
LEMMA AsksWith ==
    ASSUME CacheTypeOK, NEW r \in Readers, reader[r].pc \in Busy,
           NEW t \in ReaderState, Kept(reader[r], t), t.pc = "ask",
           reader' = [reader EXCEPT ![r] = t]
    PROVE  Asks(r, t.then) /\ reader'[r] = t
BY OneWritten DEF Asks, Kept

(* Asking for the version.                                                 *)
LEMMA AsksSame ==
    ASSUME CacheTypeOK, NEW r \in Readers, reader[r].pc \in Busy,
           NEW then \in {"get", "forget", "level", "store"},
           reader' = [reader EXCEPT ![r] = AskThen(@, then)]
    PROVE  Asks(r, then) /\ SameRow(r) /\ SameLevel(r)
<1>1. PICK s \in ReaderState : s = reader[r]
    BY DEF CacheTypeOK
<1>2. PICK t : t = AskThen(s, then)
    OBVIOUS
<1>3. /\ t \in ReaderState /\ Kept(s, t)
      /\ t.pc = "ask" /\ t.then = then /\ t.row = s.row /\ t.level = s.level
    BY <1>2, AskFields
<1>4. reader' = [reader EXCEPT ![r] = t]
    BY <1>1, <1>2 DEF CacheTypeOK
<1>5. Alone(r) /\ reader'[r] = t
    BY <1>1, <1>3, <1>4, OneWritten DEF Kept
<1> QED BY <1>1, <1>3, <1>5 DEF Asks, SameRow, SameLevel

(* The end of a request.                                                   *)
LEMMA Ends ==
    ASSUME CacheTypeOK, NEW r \in Readers, reader[r].pc \in Busy,
           NEW value \in Edits \cup {None},
           reader' = [reader EXCEPT ![r] = Finished(@, value)]
    PROVE  Rests(r, value)
<1>1. reader[r] \in ReaderState
    BY DEF CacheTypeOK
<1>2. reader' = [reader EXCEPT ![r] = Finished(reader[r], value)]
    BY DEF CacheTypeOK
<1>3. Alone(r) /\ reader'[r] = Finished(reader[r], value)
    BY <1>1, <1>2, FinishedFields, OneWritten
<1> QED BY <1>1, <1>3, FinishedFields DEF Rests

(***************************************************************************)
(* The steps of the visits                                                 *)
(***************************************************************************)
(* What a step of a visit can do, and what it does to the cache.           *)
DetailEffect(r) ==
    \/ Works(r, "fetch") \/ Works(r, "drop")
    \/ Works(r, "store") /\ reader'[r].row = data
    \/ Rests(r, None)
    \/ /\ reader[r].pc = "get" /\ detail[reader[r].key] \in Edits
       /\ Rests(r, detail[reader[r].key])
    \/ reader[r].pc = "store" /\ Rests(r, reader[r].row)

DetailWrite(r) ==
    \/ detail' = detail
    \/ detail' = [detail EXCEPT ![reader[r].key] = None]
    \/ /\ reader[r].pc = "store"
       /\ detail' = [detail EXCEPT ![reader[r].key] = reader[r].row]

Outside == now' = now /\ UNCHANGED <<origin, held>>

(* Every step of a visit has one of these effects.                         *)
LEMMA DetailStepEffect ==
    ASSUME CacheTypeOK, DetailTypeOK, NEW r \in Readers, DetailStep(r)
    PROVE  DetailEffect(r) /\ DetailWrite(r) /\ Outside
<1>0. PICK s \in ReaderState : s = reader[r]
    BY DEF CacheTypeOK
<1>a. s.row \in Edits /\ s.level \in Edits /\ s.key \in Versions
    BY DEF ReaderState
<1>b. data \in Edits /\ reader \in [Readers -> ReaderState]
    BY DEF CacheTypeOK
<1>1. CASE GetDetail(r)
    <2>1. reader[r].pc \in Busy /\ detail' = detail /\ Outside /\ reader[r].pc = "get"
        BY <1>1 DEF GetDetail, At, Busy, Outside, clock
    <2> DEFINE entry == detail[s.key]
    <2>2. entry \in Edits \cup {None, Garbage}
        BY <1>a DEF DetailTypeOK
    <2>3. PICK garbled \in {"drop", "fetch"} :
             reader' = [reader EXCEPT ![r] =
               CASE entry = None    -> [@ EXCEPT !.pc = "fetch"]
                 [] entry = Garbage -> [@ EXCEPT !.pc = garbled]
                 [] OTHER           -> Finished(@, entry)]
        BY <1>0, <1>1 DEF GetDetail
    <2> HIDE DEF entry
    <2>4. CASE entry = None
        <3>1. reader' = [reader EXCEPT ![r].pc = "fetch"]
            BY <2>3, <2>4, <1>b, CacheAssumption
        <3> QED BY <2>1, <3>1, GoesOn DEF Busy, DetailEffect, DetailWrite
    <2>5. CASE entry # None /\ entry = Garbage
        <3>1. reader' = [reader EXCEPT ![r].pc = garbled]
            BY <2>3, <2>5, <1>b
        <3> QED BY <2>1, <2>3, <3>1, GoesOn DEF Busy, DetailEffect, DetailWrite
    <2>6. CASE entry # None /\ entry # Garbage
        <3>1. reader' = [reader EXCEPT ![r] = Finished(@, entry)]
            BY <2>3, <2>6, <1>b
        <3>2. entry \in Edits
            BY <2>2, <2>6
        <3>3. Rests(r, entry)
            BY <2>1, <3>1, <3>2, Ends
        <3> QED BY <1>0, <2>1, <3>2, <3>3 DEF DetailEffect, DetailWrite, entry
    <2> QED BY <2>4, <2>5, <2>6
<1>2. CASE GetDetailFails(r)
    <2>1. Works(r, "fetch")
        BY <1>2, GoesOn DEF GetDetailFails, Goto, Busy
    <2> QED BY <1>2, <2>1 DEF GetDetailFails, Fault, DetailEffect, DetailWrite, Outside
<1>3. CASE DropDetail(r)
    <2>1. Works(r, "fetch")
        BY <1>3, GoesOn DEF DropDetail, Goto, At, Busy
    <2> QED BY <1>3, <2>1 DEF DropDetail, DetailEffect, DetailWrite, Outside, clock
<1>4. CASE Fetch(r)
    <2>1. reader[r].pc \in Busy /\ detail' = detail /\ Outside
        BY <1>4 DEF Fetch, At, Busy, Outside, clock
    <2>2. PICK t : t = [s EXCEPT !.pc = "store", !.row = data]
        OBVIOUS
    <2>3. reader' = [reader EXCEPT ![r] = t]
        BY <1>0, <1>4, <1>b, <2>2 DEF Fetch
    <2>4. PICK row \in Edits, level \in Edits : row = data /\ level = s.level
        BY <1>a, <1>b
    <2>u. PICK u : u = WithData(s, row, level)
        OBVIOUS
    <2>a. u \in ReaderState /\ Kept(s, u) /\ u.then = s.then /\ u.row = row
        BY <2>u, DataFields
    <2>5. u \in ReaderState /\ Kept(s, u) /\ u.then = s.then /\ u.row = data
        BY <2>4, <2>a
    <2>6. t = [u EXCEPT !.pc = "store"]
        BY <2>2, <2>4, <2>u DEF ReaderState, WithData
    <2>7. t \in ReaderState /\ Kept(u, t) /\ t.pc = "store" /\ t.then = u.then /\ t.row = u.row
        BY <2>5, <2>6, GotoFields DEF Busy
    <2>8. Kept(s, t)
        BY <2>5, <2>7 DEF Kept
    <2>9. Works(r, "store") /\ reader'[r] = t
        BY <1>0, <2>1, <2>3, <2>5, <2>7, <2>8, WorksWith
    <2> QED BY <2>1, <2>5, <2>7, <2>9 DEF DetailEffect, DetailWrite
<1>5. CASE FetchFails(r)
    <2>1. reader[r].pc = "fetch" /\ reader[r].pc \in Busy /\ detail' = detail /\ Outside
        BY <1>5 DEF FetchFails, At, Busy, Outside, clock
    <2>2. CASE reader[r].attempt < 2 /\ reader' = [reader EXCEPT ![r].attempt = @ + 1]
        <3>1. PICK t : t = [s EXCEPT !.attempt = @ + 1]
            OBVIOUS
        <3>2. reader' = [reader EXCEPT ![r] = t]
            BY <1>0, <1>b, <2>2, <3>1
        <3>3. s.attempt + 1 \in 0..2
            BY <1>0, <2>2 DEF ReaderState
        <3>4. t \in ReaderState /\ t.blind = s.blind
            BY <3>1, <3>3 DEF ReaderState
        <3>5. /\ t.pc = s.pc /\ t.then = s.then /\ t.instance = s.instance /\ t.key = s.key
              /\ t.asked = s.asked /\ t.started = s.started
              /\ t.result = s.result /\ t.from = s.from
            BY <3>1 DEF ReaderState
        <3>6. Works(r, t.pc)
            BY <1>0, <2>1, <3>2, <3>4, <3>5, WorksWith DEF Kept
        <3> QED BY <1>0, <2>1, <3>5, <3>6 DEF DetailEffect, DetailWrite
    <2>3. CASE reader' = [reader EXCEPT ![r] = Finished(@, None)]
        BY <2>1, <2>3, Ends DEF DetailEffect, DetailWrite
    <2> QED BY <1>5, <2>2, <2>3 DEF FetchFails
<1>6. CASE StoreDetail(r)
    <2>1. reader[r].pc = "store" /\ Outside
        BY <1>6 DEF StoreDetail, At, Outside, clock
    <2>2. reader' = [reader EXCEPT ![r] = Finished(@, s.row)]
        BY <1>0, <1>6, <1>b DEF StoreDetail
    <2>3. Rests(r, s.row)
        BY <1>a, <2>1, <2>2, Ends DEF Busy
    <2> QED BY <1>0, <1>6, <2>1, <2>3 DEF StoreDetail, DetailEffect, DetailWrite
<1>7. CASE StoreDetailFails(r)
    <2>1. reader[r].pc = "store" /\ Outside /\ detail' = detail
        BY <1>7 DEF StoreDetailFails, At, Outside, Fault
    <2>2. reader' = [reader EXCEPT ![r] = Finished(@, s.row)]
        BY <1>0, <1>7, <1>b DEF StoreDetailFails
    <2>3. Rests(r, s.row)
        BY <1>a, <2>1, <2>2, Ends DEF Busy
    <2> QED BY <1>0, <2>1, <2>3 DEF DetailEffect, DetailWrite
<1> QED BY <1>1, <1>2, <1>3, <1>4, <1>5, <1>6, <1>7 DEF DetailStep

(***************************************************************************)
(* The steps of the redirects                                              *)
(***************************************************************************)
(* What a step of a redirect can do, and what it does to the caches.       *)
StuEffect(r) ==
    \/ Works(r, "fetch") \/ Works(r, "drop")
    \/ Asks(r, "forget")
    \/ /\ \E next \in {"level", "store"} : Asks(r, next)
       /\ reader'[r].row = data /\ reader'[r].level = data
    \/ /\ reader[r].pc \in {"level", "dropLevel"}
       /\ Works(r, "dropLevel") \/ Works(r, "readLevel")
       /\ SameRow(r) /\ SameLevel(r)
    \/ /\ reader[r].pc = "level" /\ levels[reader[r].key] \in Edits
       /\ Asks(r, "store")
       /\ SameRow(r) /\ reader'[r].level = levels[reader[r].key]
    \/ /\ reader[r].pc = "readLevel" /\ Works(r, "storeLevel")
       /\ SameRow(r) /\ reader'[r].level = data
    \/ /\ reader[r].pc \in {"readLevel", "storeLevel"} /\ Asks(r, "store")
       /\ SameRow(r) /\ SameLevel(r)
    \/ Rests(r, None)

StuWrite(r) ==
    /\ \/ stu' = stu
       \/ stu' = [stu EXCEPT ![reader[r].key] = None]
       \/ /\ reader[r].pc = "store"
          /\ stu' = [stu EXCEPT ![reader[r].key] = Entry(reader[r])]
    /\ \/ levels' = levels
       \/ levels' = [levels EXCEPT ![reader[r].key] = None]
       \/ /\ reader[r].pc = "storeLevel"
          /\ levels' = [levels EXCEPT ![reader[r].key] = reader[r].level]

(* Every step of a redirect has one of these effects.                      *)
LEMMA StuStepEffect ==
    ASSUME CacheTypeOK, StuTypeOK, NEW r \in Readers, StuStep(r)
    PROVE  StuEffect(r) /\ StuWrite(r) /\ Outside
<1>0. PICK s \in ReaderState : s = reader[r]
    BY DEF CacheTypeOK
<1>a. s.row \in Edits /\ s.level \in Edits /\ s.key \in Versions
    BY DEF ReaderState
<1>b. data \in Edits /\ reader \in [Readers -> ReaderState]
    BY DEF CacheTypeOK
<1>1. CASE GetStu(r)
    <2>1. reader[r].pc \in Busy /\ UNCHANGED stuVars /\ Outside
        BY <1>1 DEF GetStu, At, Busy, Outside, clock
    <2> DEFINE entry == stu[s.key]
    <2>3. reader' = [reader EXCEPT ![r] =
               CASE entry = None    -> [@ EXCEPT !.pc = "fetch"]
                 [] entry = Garbage -> [@ EXCEPT !.pc = "drop"]
                 [] OTHER           -> Finished(@, None)]
        BY <1>0, <1>1 DEF GetStu, CachedJson
    <2> HIDE DEF entry
    <2>4. CASE entry = None
        <3>1. reader' = [reader EXCEPT ![r].pc = "fetch"]
            BY <2>3, <2>4, <1>b, CacheAssumption
        <3> QED BY <2>1, <3>1, GoesOn DEF Busy, StuEffect, StuWrite, stuVars
    <2>5. CASE entry # None /\ entry = Garbage
        <3>1. reader' = [reader EXCEPT ![r].pc = "drop"]
            BY <2>3, <2>5, <1>b
        <3> QED BY <2>1, <3>1, GoesOn DEF Busy, StuEffect, StuWrite, stuVars
    <2>6. CASE entry # None /\ entry # Garbage
        <3>1. reader' = [reader EXCEPT ![r] = Finished(@, None)]
            BY <2>3, <2>6, <1>b
        <3> QED BY <2>1, <3>1, Ends DEF StuEffect, StuWrite, stuVars
    <2> QED BY <2>4, <2>5, <2>6
<1>2. CASE GetLevel(r)
    <2>1. /\ reader[r].pc = "level" /\ reader[r].pc \in Busy
          /\ UNCHANGED stuVars /\ Outside
        BY <1>2 DEF GetLevel, At, Busy, Outside, clock
    <2> DEFINE entry == levels[s.key]
    <2>2. entry \in Edits \cup {None, Garbage}
        BY <1>a DEF StuTypeOK
    <2>3. reader' = [reader EXCEPT ![r] =
               CASE entry = None    -> [@ EXCEPT !.pc = "readLevel"]
                 [] entry = Garbage -> [@ EXCEPT !.pc = "dropLevel"]
                 [] OTHER           -> AskThen([@ EXCEPT !.level = entry], "store")]
        BY <1>0, <1>2 DEF GetLevel, CachedJson
    <2> HIDE DEF entry
    <2>4. CASE entry = None
        <3>1. reader' = [reader EXCEPT ![r].pc = "readLevel"]
            BY <2>3, <2>4, <1>b, CacheAssumption
        <3> QED BY <2>1, <3>1, GoesOn DEF Busy, StuEffect, StuWrite, stuVars
    <2>5. CASE entry # None /\ entry = Garbage
        <3>1. reader' = [reader EXCEPT ![r].pc = "dropLevel"]
            BY <2>3, <2>5, <1>b
        <3> QED BY <2>1, <3>1, GoesOn DEF Busy, StuEffect, StuWrite, stuVars
    <2>6. CASE entry # None /\ entry # Garbage
        <3>1. entry \in Edits
            BY <2>2, <2>6
        <3>2. PICK row \in Edits : row = s.row
            BY <1>a
        <3>3. PICK u : u = WithData(s, row, entry)
            OBVIOUS
        <3>4. /\ u \in ReaderState /\ Kept(s, u) /\ u.row = row /\ u.level = entry
            BY <3>1, <3>3, DataFields
        <3>5. u = [s EXCEPT !.level = entry]
            BY <3>2, <3>3 DEF WithData, ReaderState
        <3>6. PICK t : t = AskThen(u, "store")
            OBVIOUS
        <3>7. reader' = [reader EXCEPT ![r] = t]
            BY <1>0, <1>b, <2>3, <2>6, <3>5, <3>6
        <3>8. /\ t \in ReaderState /\ Kept(u, t) /\ t.pc = "ask" /\ t.then = "store"
              /\ t.row = u.row /\ t.level = u.level
            BY <3>4, <3>6, AskFields
        <3>9. Kept(s, t)
            BY <3>4, <3>8 DEF Kept
        <3>10. Asks(r, "store") /\ reader'[r] = t
            BY <1>0, <2>1, <3>7, <3>8, <3>9, AsksWith
        <3> QED BY <1>0, <2>1, <3>1, <3>2, <3>4, <3>8, <3>10
                DEF StuEffect, StuWrite, SameRow, stuVars, entry
    <2> QED BY <2>4, <2>5, <2>6
<1>3. CASE GetStuFails(r)
    <2>1. UNCHANGED stuVars /\ Outside
        BY <1>3 DEF GetStuFails, Fault, Outside
    <2>2. CASE At(r, "get") /\ Goto(r, "drop")
        <3>1. Works(r, "drop")
            BY <2>2, GoesOn DEF At, Goto, Busy
        <3> QED BY <2>1, <3>1 DEF StuEffect, StuWrite, stuVars
    <2>3. CASE At(r, "level") /\ Goto(r, "dropLevel")
        <3>1. Works(r, "dropLevel") /\ SameRow(r) /\ SameLevel(r)
            BY <2>3, GoesOn DEF At, Goto, Busy
        <3> QED BY <2>1, <2>3, <3>1 DEF At, StuEffect, StuWrite, stuVars
    <2> QED BY <1>3, <2>2, <2>3 DEF GetStuFails
<1>4. CASE DropStu(r)
    <2>1. Works(r, "fetch")
        BY <1>4, GoesOn DEF DropStu, Goto, At, Busy
    <2> QED BY <1>4, <2>1 DEF DropStu, StuEffect, StuWrite, Outside, clock
<1>5. CASE DropLevel(r)
    <2>1. Works(r, "readLevel") /\ SameRow(r) /\ SameLevel(r)
        BY <1>5, GoesOn DEF DropLevel, Goto, At, Busy
    <2> QED BY <1>5, <2>1 DEF DropLevel, At, StuEffect, StuWrite, Outside, clock
<1>6. CASE FindLink(r)
    <2>1. /\ reader[r].pc \in Busy /\ UNCHANGED stuVars /\ Outside
        BY <1>6 DEF FindLink, At, Busy, Outside, clock
    <2>2. CASE reader' = [reader EXCEPT ![r] = AskThen(@, "forget")]
        BY <2>1, <2>2, AsksSame DEF StuEffect, StuWrite, stuVars
    <2>3. ASSUME NEW next \in {"level", "store"},
                 reader' = [reader EXCEPT ![r] = AskThen([@ EXCEPT !.row = data, !.level = data], next)]
          PROVE  StuEffect(r) /\ StuWrite(r)
        <3>1. PICK edit \in Edits : edit = data
            BY <1>b
        <3>2. PICK u : u = WithData(s, edit, edit)
            OBVIOUS
        <3>3. u \in ReaderState /\ Kept(s, u) /\ u.row = edit /\ u.level = edit
            BY <3>2, DataFields
        <3>4. PICK t : t = AskThen(u, next)
            OBVIOUS
        <3>5. reader' = [reader EXCEPT ![r] = t]
            BY <1>0, <1>b, <2>3, <3>1, <3>2, <3>4 DEF WithData
        <3>6. /\ t \in ReaderState /\ Kept(u, t) /\ t.pc = "ask" /\ t.then = next
              /\ t.row = u.row /\ t.level = u.level
            BY <3>3, <3>4, AskFields
        <3>7. Kept(s, t)
            BY <3>3, <3>6 DEF Kept
        <3>8. Asks(r, next) /\ reader'[r] = t
            BY <1>0, <2>1, <3>5, <3>6, <3>7, AsksWith
        <3> QED BY <2>1, <3>1, <3>3, <3>6, <3>8 DEF StuEffect, StuWrite, stuVars
    <2> QED BY <1>6, <2>1, <2>2, <2>3 DEF FindLink
<1>7. CASE Forget(r)
    <2>1. Rests(r, None)
        BY <1>7, Ends DEF Forget, At, Busy
    <2> QED BY <1>7, <2>1 DEF Forget, StuEffect, StuWrite, Outside, clock
<1>8. CASE FindLevel(r)
    <2>1. /\ reader[r].pc = "readLevel" /\ reader[r].pc \in Busy
          /\ UNCHANGED stuVars /\ Outside
        BY <1>8 DEF FindLevel, At, Busy, Outside, clock
    <2>2. CASE reader' = [reader EXCEPT ![r] = AskThen(@, "store")]
        BY <2>1, <2>2, AsksSame DEF StuEffect, StuWrite, stuVars
    <2>3. CASE reader' = [reader EXCEPT ![r].pc = "storeLevel", ![r].level = data]
        <3>1. PICK row \in Edits, level \in Edits : row = s.row /\ level = data
            BY <1>a, <1>b
        <3>2. PICK u : u = WithData(s, row, level)
            OBVIOUS
        <3>3. u \in ReaderState /\ Kept(s, u) /\ u.then = s.then /\ u.row = row /\ u.level = level
            BY <3>2, DataFields
        <3>4. PICK t : t = [u EXCEPT !.pc = "storeLevel"]
            OBVIOUS
        <3>5. t = [s EXCEPT !.pc = "storeLevel", !.level = data]
            BY <3>1, <3>2, <3>4 DEF WithData, ReaderState
        <3>6. reader' = [reader EXCEPT ![r] = t]
            BY <1>0, <1>b, <2>3, <3>5
        <3>7. /\ t \in ReaderState /\ Kept(u, t) /\ t.pc = "storeLevel" /\ t.then = u.then
              /\ t.row = u.row /\ t.level = u.level
            BY <3>3, <3>4, GotoFields DEF Busy
        <3>8. Kept(s, t)
            BY <3>3, <3>7 DEF Kept
        <3>9. Works(r, "storeLevel") /\ reader'[r] = t
            BY <1>0, <2>1, <3>3, <3>6, <3>7, <3>8, WorksWith
        <3> QED BY <1>0, <2>1, <3>1, <3>3, <3>7, <3>9 DEF StuEffect, StuWrite, SameRow, stuVars
    <2> QED BY <1>8, <2>1, <2>2, <2>3 DEF FindLevel
<1>9. CASE StoreLevel(r)
    <2>1. Asks(r, "store") /\ SameRow(r) /\ SameLevel(r)
        BY <1>9, AsksSame DEF StoreLevel, At, Busy
    <2> QED BY <1>9, <2>1 DEF StoreLevel, At, StuEffect, StuWrite, Outside, clock
<1>10. CASE StoreLink(r)
    <2>1. Rests(r, None)
        BY <1>10, Ends DEF StoreLink, At, Busy
    <2> QED BY <1>10, <2>1 DEF StoreLink, At, StuEffect, StuWrite, Outside, clock
<1>11. CASE StoreStuFails(r)
    <2>1. UNCHANGED stuVars /\ Outside
        BY <1>11 DEF StoreStuFails, Fault, Outside
    <2>2. CASE At(r, "storeLevel") /\ reader' = [reader EXCEPT ![r] = AskThen(@, "store")]
        <3>1. Asks(r, "store") /\ SameRow(r) /\ SameLevel(r)
            BY <2>2, AsksSame DEF At, Busy
        <3> QED BY <2>1, <2>2, <3>1 DEF At, StuEffect, StuWrite, stuVars
    <2>3. CASE At(r, "store") /\ reader' = [reader EXCEPT ![r] = Finished(@, None)]
        <3>1. Rests(r, None)
            BY <2>3, Ends DEF At, Busy
        <3> QED BY <2>1, <3>1 DEF StuEffect, StuWrite, stuVars
    <2> QED BY <1>11, <2>2, <2>3 DEF StoreStuFails
<1> QED BY <1>1, <1>2, <1>3, <1>4, <1>5, <1>6, <1>7, <1>8, <1>9, <1>10, <1>11 DEF StuStep

(***************************************************************************)
(* The steps of the version                                                *)
(***************************************************************************)
Starts(r) ==
    /\ Alone(r)
    /\ reader'[r].pc = "ask" /\ reader'[r].then = "get"
    /\ reader'[r].started = now /\ reader'[r].asked = 0
    /\ reader'[r].from = None /\ reader'[r].result = None

(* What a request keeps while it learns the version.                       *)
Learns(r) ==
    /\ Alone(r)
    /\ reader'[r].started = reader[r].started
    /\ reader'[r].row = reader[r].row
    /\ reader'[r].level = reader[r].level
    /\ reader'[r].result = reader[r].result

Uses(r, v) ==
    /\ Learns(r)
    /\ reader'[r].pc = reader[r].then /\ reader'[r].then = "get"
    /\ reader'[r].key = v /\ reader'[r].asked = 0
    /\ reader'[r].from = IF reader[r].from = None THEN v ELSE reader[r].from

Waits(r, pc) ==
    /\ Learns(r)
    /\ reader'[r].pc = pc /\ reader'[r].then = reader[r].then
    /\ reader'[r].from = reader[r].from
    /\ reader'[r].blind <=> reader[r].blind

(* A request starts.                                                       *)
LEMMA StartEffect ==
    ASSUME CacheTypeOK, NEW r \in Readers, Start(r)
    PROVE  Starts(r)
<1>0. PICK s \in ReaderState : s = reader[r]
    BY DEF CacheTypeOK
<1>1. s.instance \in Instances /\ now \in Times /\ reader \in [Readers -> ReaderState]
    BY DEF CacheTypeOK, ReaderState
<1>2. PICK q : q = Quiet(s.instance, None)
    OBVIOUS
<1>3. /\ q \in ReaderState /\ q.instance = s.instance /\ q.result = None
      /\ q.from = None /\ q.asked = 0
    BY <1>1, <1>2, QuietFields
<1>4. PICK u : u = AskThen(q, "get")
    OBVIOUS
<1>5. /\ u \in ReaderState /\ Kept(q, u) /\ u.pc = "ask" /\ u.then = "get"
    BY <1>3, <1>4, AskFields
<1>6. PICK t : t = [u EXCEPT !.started = now]
    OBVIOUS
<1>7. /\ t \in ReaderState /\ t.pc = u.pc /\ t.then = u.then /\ t.started = now
      /\ t.asked = u.asked /\ t.from = u.from /\ t.result = u.result /\ t.instance = u.instance
    BY <1>1, <1>5, <1>6 DEF ReaderState
<1>8. reader' = [reader EXCEPT ![r] = t]
    BY <1>0, <1>1, <1>2, <1>4, <1>6 DEF Start
<1>9. Alone(r) /\ reader'[r] = t
    BY <1>0, <1>3, <1>5, <1>7, <1>8, OneWritten DEF Kept
<1> QED BY <1>3, <1>5, <1>7, <1>9 DEF Starts, Kept

(* The version is used.                                                    *)
LEMMA UsesIt ==
    ASSUME CacheTypeOK, NEW r \in Readers, NEW v \in Versions,
           reader' = [reader EXCEPT ![r] = Use(@, v)]
    PROVE  Uses(r, v) /\ (reader'[r].blind <=> reader[r].blind)
<1>1. PICK s \in ReaderState : s = reader[r]
    BY DEF CacheTypeOK
<1>2. reader' = [reader EXCEPT ![r] = Use(s, v)]
    BY <1>1 DEF CacheTypeOK
<1>3. Alone(r) /\ reader'[r] = Use(s, v)
    BY <1>1, <1>2, UseFields, OneWritten
<1> QED BY <1>1, <1>3, UseFields DEF Uses, Learns

(* The version is taken from the process, or asked for.                    *)
LEMMA AskEffect ==
    ASSUME CacheTypeOK, NEW r \in Readers, AskVersion(r)
    PROVE  LET h == held[reader[r].instance]
           IN  \/ now < h.expiresAt /\ Uses(r, h.value) /\ (reader'[r].blind <=> reader[r].blind)
               \/ Waits(r, "await") /\ reader'[r].asked = now
<1>0. PICK s \in ReaderState : s = reader[r]
    BY DEF CacheTypeOK
<1>1. reader \in [Readers -> ReaderState] /\ now \in Times
    BY DEF CacheTypeOK
<1> DEFINE h == held[s.instance]
<1>2. h.value \in Versions
    BY DEF CacheTypeOK, ReaderState
<1>3. reader' = [reader EXCEPT ![r] = IF now < h.expiresAt THEN Use(@, h.value)
                                      ELSE [@ EXCEPT !.pc = "await", !.asked = now]]
    BY <1>0 DEF AskVersion
<1> HIDE DEF h
<1>4. CASE now < h.expiresAt
    <2>1. reader' = [reader EXCEPT ![r] = Use(@, h.value)]
        BY <1>1, <1>3, <1>4
    <2>2. Uses(r, h.value) /\ (reader'[r].blind <=> reader[r].blind)
        BY <1>2, <2>1, UsesIt
    <2> QED BY <1>0, <1>4, <2>2 DEF h
<1>5. CASE ~(now < h.expiresAt)
    <2>1. PICK t : t = [s EXCEPT !.pc = "await", !.asked = now]
        OBVIOUS
    <2>2. t \in ReaderState /\ t.blind = s.blind
        BY <1>1, <2>1 DEF ReaderState
    <2>3. /\ t.pc = "await" /\ t.asked = now /\ t.then = s.then /\ t.instance = s.instance
          /\ t.started = s.started /\ t.row = s.row /\ t.level = s.level
          /\ t.result = s.result /\ t.from = s.from
        BY <2>1 DEF ReaderState
    <2>4. reader' = [reader EXCEPT ![r] = t]
        BY <1>0, <1>1, <1>3, <1>5, <2>1
    <2>5. Alone(r) /\ reader'[r] = t
        BY <1>0, <2>2, <2>3, <2>4, OneWritten
    <2> QED BY <1>0, <2>2, <2>3, <2>5 DEF Waits, Learns
<1> QED BY <1>4, <1>5

(* Redis answers with the version.                                         *)
LEMMA ReadEffect ==
    ASSUME CacheTypeOK, NEW r \in Readers, ReadVersion(r)
    PROVE  /\ Waits(r, "assign") /\ reader'[r].key = version
           /\ reader'[r].asked = reader[r].asked
<1>0. PICK s \in ReaderState : s = reader[r]
    BY DEF CacheTypeOK
<1>1. reader \in [Readers -> ReaderState] /\ version \in Versions
    BY DEF CacheTypeOK
<1>2. PICK t : t = [s EXCEPT !.pc = "assign", !.key = version]
    OBVIOUS
<1>3. t \in ReaderState /\ t.blind = s.blind
    BY <1>1, <1>2 DEF ReaderState
<1>4. /\ t.pc = "assign" /\ t.key = version /\ t.asked = s.asked /\ t.then = s.then
      /\ t.instance = s.instance /\ t.started = s.started /\ t.row = s.row /\ t.level = s.level
      /\ t.result = s.result /\ t.from = s.from
    BY <1>2 DEF ReaderState
<1>5. reader' = [reader EXCEPT ![r] = t]
    BY <1>0, <1>1, <1>2 DEF ReadVersion
<1>6. Alone(r) /\ reader'[r] = t
    BY <1>0, <1>3, <1>4, <1>5, OneWritten
<1> QED BY <1>0, <1>3, <1>4, <1>6 DEF Waits, Learns

(* The answer is kept, and used.                                           *)
LEMMA AssignEffect ==
    ASSUME CacheTypeOK, NEW r \in Readers, AssignVersion(r)
    PROVE  Uses(r, reader[r].key) /\ (reader'[r].blind <=> reader[r].blind)
<1>1. PICK v \in Versions : v = reader[r].key
    BY DEF CacheTypeOK, ReaderState
<1>2. reader' = [reader EXCEPT ![r] = Use(@, v)]
    BY <1>1 DEF AssignVersion, CacheTypeOK
<1> QED BY <1>1, <1>2, UsesIt

(* The version the process holds serves when Redis does not answer.        *)
LEMMA FailsEffect ==
    ASSUME CacheTypeOK, NEW r \in Readers, VersionReadFails(r)
    PROVE  Uses(r, held[reader[r].instance].value) /\ reader'[r].blind
<1>0. PICK s \in ReaderState : s = reader[r]
    BY DEF CacheTypeOK
<1>1. reader \in [Readers -> ReaderState]
    BY DEF CacheTypeOK
<1>2. PICK v \in Versions : v = held[s.instance].value
    BY DEF CacheTypeOK, ReaderState
<1>3. PICK u : u = Use(s, v)
    OBVIOUS
<1>4. /\ u \in ReaderState
      /\ u.pc = s.then /\ u.then = "get" /\ u.key = v /\ u.asked = 0
      /\ u.from = IF s.from = None THEN v ELSE s.from
      /\ u.instance = s.instance /\ u.started = s.started
      /\ u.row = s.row /\ u.level = s.level /\ u.result = s.result
    BY <1>3, UseFields
<1>5. PICK t : t = [u EXCEPT !.blind = TRUE]
    OBVIOUS
<1>6. t \in ReaderState /\ t.blind = TRUE
    BY <1>4, <1>5 DEF ReaderState
<1>7. /\ t.pc = u.pc /\ t.then = u.then /\ t.key = u.key /\ t.asked = u.asked
      /\ t.from = u.from /\ t.instance = u.instance /\ t.started = u.started
      /\ t.row = u.row /\ t.level = u.level /\ t.result = u.result
    BY <1>4, <1>5 DEF ReaderState
<1>8. reader' = [reader EXCEPT ![r] = t]
    BY <1>0, <1>1, <1>2, <1>3, <1>5 DEF VersionReadFails
<1>9. Alone(r) /\ reader'[r] = t
    BY <1>0, <1>4, <1>6, <1>7, <1>8, OneWritten
<1> QED BY <1>0, <1>2, <1>4, <1>6, <1>7, <1>9 DEF Uses, Learns

(***************************************************************************)
(* The invariant                                                           *)
(***************************************************************************)
Held(r) == held[reader[r].instance].value

(* Once a version has been replaced a process keeps it for VersionTtl.     *)
HeldInv ==
    \A i \in Instances :
        /\ held[i].value <= version
        /\ held[i].expiresAt <= now + VersionTtl
        /\ held[i].value < version => held[i].expiresAt <= retired[held[i].value] + VersionTtl

(* The data, and the times, at which the versions came are in order.       *)
HistoryInv ==
    /\ \A v \in Versions : v <= version => dataAt[v] <= data
    /\ \A v, w \in Versions : v <= w /\ w <= version => dataAt[v] <= dataAt[w]
    /\ \A v \in Versions : v < version => retired[v] <= now
    /\ \A v, w \in Versions : v <= w /\ w < version => retired[v] <= retired[w]

(* An answer is no older than what its process holds, and was the version  *)
(* in Redis after it was asked for.                                        *)
AnswerInv(r) ==
    /\ reader[r].started <= now
    /\ reader[r].asked <= now
    /\ reader[r].pc \in {"await", "assign"} => reader[r].started <= reader[r].asked
    /\ reader[r].pc = "assign" =>
           /\ Held(r) <= reader[r].key
           /\ reader[r].key <= version
           /\ reader[r].key < version => reader[r].asked <= retired[reader[r].key]

(* The first version of a request was not replaced long before it came.    *)
FirstInv(r) ==
    reader[r].from # None =>
        /\ reader[r].from <= Held(r)
        /\ ~reader[r].blind /\ reader[r].from < version =>
               reader[r].started < retired[reader[r].from] + VersionTtl

(* Its key has a version between the first and the one its process holds.  *)
KeyInv(r) ==
    reader[r].pc \in Busy =>
        /\ reader[r].then = "get"
        /\ reader[r].from # None
        /\ reader[r].from <= reader[r].key
        /\ reader[r].key <= Held(r)

(* A visit stores details that were read after its version came.           *)
VisitInv(r) ==
    service = "detail" =>
        /\ reader[r].then = "get"
        /\ reader[r].pc = "store" => reader[r].row >= dataAt[reader[r].key]

(* A visit has seen what an invalidation invalidated VersionTtl before it. *)
ResultInv(r) ==
    service = "detail" /\ reader[r].result # None /\ ~reader[r].blind =>
        \A v \in Versions :
            v < version /\ retired[v] + VersionTtl <= reader[r].started
                => reader[r].result >= dataAt[v + 1]

Carrying(r) ==
    \/ reader[r].pc \in {"level", "dropLevel", "readLevel", "storeLevel", "store"}
    \/ reader[r].then \in {"level", "store"}

(* A redirect carries a link and a level no older than its first version,  *)
(* and a level it is about to store no older than its key.                 *)
RedirectInv(r) ==
    service = "stu" /\ Carrying(r) =>
        /\ reader[r].from # None
        /\ reader[r].row >= dataAt[reader[r].from]
        /\ reader[r].level >= dataAt[reader[r].from]
        /\ reader[r].pc = "storeLevel" => reader[r].level >= dataAt[reader[r].key]

(* Nothing is cached for a version that has not come.                      *)
CachedInv ==
    \A v \in Versions : v > version => detail[v] = None /\ stu[v] = None /\ levels[v] = None

VersionInv == HeldInv /\ HistoryInv /\ \A r \in Readers : AnswerInv(r) /\ FirstInv(r) /\ KeyInv(r)
DataInv ==
    /\ CachedInv
    /\ DetailsAreOfTheirVersion /\ LevelsAreOfTheirVersion /\ StaleLinksSpanVersions
    /\ \A r \in Readers : VisitInv(r) /\ ResultInv(r) /\ RedirectInv(r)
(***************************************************************************)
(* Types                                                                   *)
(***************************************************************************)
(* What the constants are.                                                 *)
LEMMA Numbers ==
    /\ Versions \subseteq Int /\ Edits \subseteq Int /\ Times \subseteq Int
    /\ VersionTtl \in Int /\ VersionTtl >= 1
    /\ None \notin Versions /\ None \notin Edits /\ Garbage \notin Edits /\ None # Garbage
BY CacheAssumption DEF Versions, Edits, Times

(* The types of a request's fields, and of what its process holds.         *)
LEMMA Typed ==
    ASSUME CacheTypeOK, NEW r \in Readers
    PROVE  /\ reader[r].instance \in Instances
           /\ reader[r].started \in Int /\ reader[r].asked \in Int
           /\ reader[r].asked \in Times
           /\ reader[r].key \in Versions
           /\ reader[r].from \in Versions \cup {None}
           /\ reader[r].row \in Edits /\ reader[r].level \in Edits
           /\ reader[r].result \in Edits \cup {None}
           /\ reader[r].then \in {"get", "forget", "level", "store"}
           /\ held[reader[r].instance].value \in Versions
           /\ held[reader[r].instance].expiresAt \in Int
<1>1. reader[r] \in ReaderState
    BY DEF CacheTypeOK
<1>2. /\ reader[r].instance \in Instances
      /\ reader[r].started \in Times /\ reader[r].asked \in Times
      /\ reader[r].key \in Versions
      /\ reader[r].from \in Versions \cup {None}
      /\ reader[r].row \in Edits /\ reader[r].level \in Edits
      /\ reader[r].result \in Edits \cup {None}
      /\ reader[r].then \in {"get", "forget", "level", "store"}
    BY <1>1 DEF ReaderState
<1>3. held[reader[r].instance] \in [value : Versions, expiresAt : 0..(LastTick + VersionTtl)]
    BY <1>2 DEF CacheTypeOK
<1>4. 0..(LastTick + VersionTtl) \subseteq Int
    BY CacheAssumption
<1> QED BY <1>2, <1>3, <1>4, Numbers

(***************************************************************************)
(* The steps, as far as the version is concerned                           *)
(***************************************************************************)
Same(r) == reader'[r].blind <=> reader[r].blind

Takes(r) ==
    /\ now < held[reader[r].instance].expiresAt
    /\ Uses(r, Held(r)) /\ Same(r)

Answered(r) ==
    /\ reader[r].pc = "await" /\ Waits(r, "assign")
    /\ reader'[r].key = version /\ reader'[r].asked = reader[r].asked

Assigns(r) ==
    /\ reader[r].pc = "assign" /\ Uses(r, reader[r].key) /\ Same(r)
    /\ \A q \in Readers : reader[q].pc = "assign" /\ reader[q].instance = reader[r].instance
                              => reader[q].key >= reader[r].key
    /\ held' = [held EXCEPT ![reader[r].instance] =
                    [value |-> reader[r].key, expiresAt |-> reader[r].asked + VersionTtl]]

(* A request works, or asks again, or is finished.                         *)
Proceeds(r) ==
    \/ \E pc \in Busy : Works(r, pc)
    \/ \E then \in {"get", "forget", "level", "store"} : Asks(r, then)
    \/ \E value \in Edits \cup {None} : Rests(r, value)

Learning(r) ==
    \/ Assigns(r)
    \/ /\ held' = held
       /\ \/ Starts(r)
          \/ Takes(r)
          \/ Waits(r, "await") /\ reader'[r].asked = now
          \/ Answered(r)
          \/ Uses(r, Held(r)) /\ reader'[r].blind

(* The steps of the version have one of these effects.                     *)
LEMMA VersionStepEffect ==
    ASSUME CacheTypeOK, NEW r \in Readers, VersionStep(r) \/ VersionReadFails(r)
    PROVE  Learning(r) /\ now' = now /\ UNCHANGED origin
<1>1. CASE Start(r)
    BY <1>1, StartEffect DEF Start, Learning, clock
<1>2. CASE AskVersion(r)
    BY <1>2, AskEffect DEF AskVersion, Learning, Takes, Held, Same, clock
<1>3. CASE ReadVersion(r)
    BY <1>3, ReadEffect DEF ReadVersion, Learning, Answered, At, clock
<1>4. CASE AssignVersion(r)
    BY <1>4, AssignEffect DEF AssignVersion, Learning, Assigns, Same, At, clock
<1>5. CASE VersionReadFails(r)
    BY <1>5, FailsEffect DEF VersionReadFails, Learning, Held, Fault
<1> QED BY <1>1, <1>2, <1>3, <1>4, <1>5 DEF VersionStep

(* A visit proceeds.                                                       *)
LEMMA DetailProceeds ==
    ASSUME CacheTypeOK, NEW r \in Readers, DetailEffect(r)
    PROVE  Proceeds(r)
<1>1. reader[r].row \in Edits
    BY Typed
<1>2. CASE \E value \in Edits \cup {None} : Rests(r, value)
    BY <1>2 DEF Proceeds
<1>3. CASE \E pc \in Busy : Works(r, pc)
    BY <1>3 DEF Proceeds
<1> QED BY <1>1, <1>2, <1>3 DEF DetailEffect, Busy

(* A redirect proceeds.                                                    *)
LEMMA StuProceeds ==
    ASSUME CacheTypeOK, NEW r \in Readers, StuEffect(r)
    PROVE  Proceeds(r)
<1>2. CASE \E value \in Edits \cup {None} : Rests(r, value)
    BY <1>2 DEF Proceeds
<1>3. CASE \E pc \in Busy : Works(r, pc)
    BY <1>3 DEF Proceeds
<1>4. CASE \E then \in {"get", "forget", "level", "store"} : Asks(r, then)
    BY <1>4 DEF Proceeds
<1> QED BY <1>2, <1>3, <1>4 DEF StuEffect, Busy

(***************************************************************************)
(* The invariant of the version                                            *)
(***************************************************************************)
RequestInv(r) == AnswerInv(r) /\ FirstInv(r) /\ KeyInv(r)

(* The other requests, and those of other processes, are not disturbed.    *)
LEMMA OthersKeep ==
    ASSUME CacheTypeOK, CacheTypeOK', NEW r \in Readers, Alone(r), now' = now, UNCHANGED origin,
           NEW q \in Readers \ {r}, RequestInv(q),
           held[reader[q].instance].value <= held'[reader[q].instance].value,
           reader[q].pc = "assign" => held'[reader[q].instance].value <= reader[q].key
    PROVE  RequestInv(q)'
<1>1. /\ reader'[q] = reader[q] /\ version' = version /\ retired' = retired
    BY DEF Alone, origin
<1>2. /\ reader[q].key \in Int
      /\ held[reader[q].instance].value \in Int
      /\ reader[q].from # None => reader[q].from \in Int
    BY Typed, Numbers
<1>a. held'[reader[q].instance].value \in Int
    BY Typed, Numbers DEF CacheTypeOK
<1>3. AnswerInv(q)'
    BY <1>1 DEF RequestInv, AnswerInv, Held
<1>4. FirstInv(q)'
    BY <1>1, <1>2, <1>a DEF RequestInv, FirstInv, Held
<1>5. KeyInv(q)'
    BY <1>1, <1>2, <1>a DEF RequestInv, KeyInv, Held
<1> QED BY <1>3, <1>4, <1>5 DEF RequestInv

(* A request that starts has nothing yet.                                  *)
LEMMA StartKeeps ==
    ASSUME CacheTypeOK, NEW r \in Readers, Starts(r), now' = now, now >= 0
    PROVE  RequestInv(r)'
<1>1. now \in Int
    BY Numbers DEF CacheTypeOK
<1> QED BY <1>1 DEF Starts, RequestInv, AnswerInv, FirstInv, KeyInv, Busy

(* A request that waits, for an answer or for its turn.                    *)
LEMMA WaitKeeps ==
    ASSUME CacheTypeOK, NEW r \in Readers, RequestInv(r), HeldInv,
           now' = now, UNCHANGED origin, held' = held,
           \/ Waits(r, "await") /\ reader'[r].asked = now
           \/ Answered(r)
    PROVE  RequestInv(r)'
<1>1. /\ reader'[r].instance = reader[r].instance /\ reader'[r].started = reader[r].started
      /\ reader'[r].from = reader[r].from /\ Same(r)
    BY DEF Answered, Waits, Learns, Alone, Same
<1>2. version' = version /\ retired' = retired
    BY DEF origin
<1>3. FirstInv(r)'
    BY <1>1, <1>2 DEF RequestInv, FirstInv, Held, Same
<1>4. KeyInv(r)'
    BY DEF Answered, Waits, KeyInv, Busy
<1>5. now \in Int /\ version \in Int
    BY Numbers DEF CacheTypeOK
<1>6. reader[r].instance \in Instances
    BY Typed
<1>7. ASSUME Waits(r, "await"), reader'[r].asked = now
      PROVE  AnswerInv(r)'
    <2>1. reader'[r].pc = "await"
        BY <1>7 DEF Waits
    <2>2. now' = now
        OBVIOUS
    <2>3. reader[r].started <= now
        BY DEF RequestInv, AnswerInv
    <2>4. reader'[r].started <= now' /\ reader'[r].started <= reader'[r].asked /\ reader'[r].asked <= now'
        BY <1>1, <1>5, <1>7, <2>2, <2>3
    <2> QED BY <2>1, <2>4 DEF AnswerInv
<1>8. ASSUME Answered(r)
      PROVE  AnswerInv(r)'
    <2>1. held[reader[r].instance].value <= version
        BY <1>6 DEF HeldInv
    <2>2. /\ reader'[r].pc = "assign" /\ reader[r].pc = "await"
          /\ reader'[r].key = version /\ reader'[r].asked = reader[r].asked
        BY <1>8 DEF Answered, Waits
    <2>3. now' = now /\ held' = held
        OBVIOUS
    <2>4. reader[r].started <= now /\ reader[r].asked <= now /\ reader[r].started <= reader[r].asked
        BY <2>2 DEF RequestInv, AnswerInv
    <2>5. /\ reader'[r].started <= now' /\ reader'[r].asked <= now'
          /\ reader'[r].started <= reader'[r].asked
        BY <1>1, <2>2, <2>3, <2>4
    <2>6. Held(r)' <= reader'[r].key /\ reader'[r].key <= version' /\ ~(reader'[r].key < version')
        BY <1>1, <1>2, <1>5, <2>1, <2>2, <2>3 DEF Held
    <2> QED BY <2>2, <2>5, <2>6 DEF AnswerInv
<1> QED BY <1>3, <1>4, <1>7, <1>8 DEF RequestInv

(* A request uses v, which is what its process holds from now on.          *)
LEMMA UseKeeps ==
    ASSUME CacheTypeOK, CacheTypeOK', NEW r \in Readers, RequestInv(r), NEW v \in Versions,
           Uses(r, v), now' = now, UNCHANGED origin,
           held'[reader[r].instance].value = v, held[reader[r].instance].value <= v,
           ~reader'[r].blind => /\ ~reader[r].blind
                                /\ v < version => reader[r].started < retired[v] + VersionTtl
    PROVE  RequestInv(r)'
<1>1. /\ reader'[r].instance = reader[r].instance /\ reader'[r].started = reader[r].started
      /\ reader'[r].pc = reader[r].then /\ reader'[r].then = "get"
      /\ reader'[r].key = v /\ reader'[r].asked = 0
      /\ reader'[r].from = IF reader[r].from = None THEN v ELSE reader[r].from
    BY DEF Uses, Learns, Alone
<1>2. version' = version /\ retired' = retired
    BY DEF origin
<1>3. /\ reader[r].then \in {"get", "forget", "level", "store"}
      /\ held[reader[r].instance].value \in Int /\ v \in Int
      /\ reader[r].from # None => reader[r].from \in Int
      /\ v # None
    BY Typed, Numbers
<1>4. now \in Int /\ now >= 0 /\ version \in Int
    BY Numbers DEF CacheTypeOK, Times
<1>5. reader'[r].from # None /\ reader'[r].from <= v
    BY <1>1, <1>3 DEF RequestInv, FirstInv, Held
<1>6. AnswerInv(r)'
    BY <1>1, <1>3, <1>4 DEF RequestInv, AnswerInv
<1>7. FirstInv(r)'
    BY <1>1, <1>2, <1>3, <1>5 DEF RequestInv, FirstInv, Held
<1>8. KeyInv(r)'
    BY <1>1, <1>3, <1>5 DEF KeyInv, Held
<1> QED BY <1>6, <1>7, <1>8 DEF RequestInv

(* A request that proceeds keeps its versions, until it is finished.       *)
LEMMA ProceedKeeps ==
    ASSUME CacheTypeOK, NEW r \in Readers, RequestInv(r), Proceeds(r),
           now' = now, UNCHANGED origin, held' = held
    PROVE  RequestInv(r)'
<1>1. version' = version /\ retired' = retired
    BY DEF origin
<1>2. now \in Int /\ now >= 0
    BY Numbers DEF CacheTypeOK, Times
<1>3. ASSUME NEW value \in Edits \cup {None}, Rests(r, value)
      PROVE  RequestInv(r)'
    BY <1>2, <1>3 DEF Rests, RequestInv, AnswerInv, FirstInv, KeyInv, Busy
<1>4. ASSUME Kept(reader[r], reader'[r]), reader[r].pc \in Busy, reader'[r].pc \in Busy \cup {"ask"},
             reader'[r].pc \in Busy => reader'[r].then = reader[r].then
      PROVE  RequestInv(r)'
    BY <1>1, <1>2, <1>4 DEF Kept, RequestInv, AnswerInv, FirstInv, KeyInv, Busy, Held
<1>5. ASSUME NEW pc \in Busy, Works(r, pc)
      PROVE  RequestInv(r)'
    BY <1>4, <1>5 DEF Works
<1>6. ASSUME NEW then \in {"get", "forget", "level", "store"}, Asks(r, then)
      PROVE  RequestInv(r)'
    BY <1>4, <1>6 DEF Asks, Busy
<1> QED BY <1>3, <1>5, <1>6 DEF Proceeds

(* A request that learns the version: the one its process holds, or one    *)
(* that takes its place.                                                   *)
LEMMA LearningKeeps ==
    ASSUME CacheTypeOK, CacheTypeOK', VersionInv, NEW r \in Readers, Learning(r),
           now' = now, UNCHANGED origin
    PROVE  VersionInv'
<1>1. /\ version' = version /\ retired' = retired /\ data' = data /\ dataAt' = dataAt
    BY DEF origin
<1>2. RequestInv(r) /\ HeldInv /\ HistoryInv /\ \A q \in Readers : RequestInv(q)
    BY DEF VersionInv, RequestInv
<1>3. HistoryInv'
    BY <1>1, <1>2 DEF HistoryInv
<1>4. now \in Int /\ now >= 0 /\ version \in Int /\ VersionTtl \in Int /\ VersionTtl >= 1
    BY Numbers DEF CacheTypeOK, Times
<1>5. Alone(r)
    BY DEF Learning, Assigns, Starts, Takes, Waits, Answered, Uses, Learns
<1>6. /\ reader[r].instance \in Instances /\ reader[r].key \in Versions
      /\ held[reader[r].instance].value \in Versions
      /\ held[reader[r].instance].expiresAt \in Int
      /\ reader[r].asked \in Int /\ reader[r].started \in Int
    BY Typed
<1>7. ASSUME held' = held, Starts(r) \/ Takes(r) \/ (Waits(r, "await") /\ reader'[r].asked = now)
                           \/ Answered(r) \/ (Uses(r, Held(r)) /\ reader'[r].blind)
      PROVE  VersionInv'
    <2>1. HeldInv'
        BY <1>1, <1>2, <1>7 DEF HeldInv
    <2>2. RequestInv(r)'
        <3>1. CASE Starts(r)
            BY <1>4, <3>1, StartKeeps
        <3>2. CASE Takes(r)
            <4>1. /\ Uses(r, held[reader[r].instance].value) /\ Same(r)
                  /\ now < held[reader[r].instance].expiresAt
                BY <3>2 DEF Takes, Held
            <4>2. held[reader[r].instance].value < version
                      => reader[r].started < retired[held[reader[r].instance].value] + VersionTtl
                <5>1. held[reader[r].instance].value < version
                          => held[reader[r].instance].expiresAt
                                 <= retired[held[reader[r].instance].value] + VersionTtl
                    BY <1>2, <1>6 DEF HeldInv
                <5>2. reader[r].started <= now
                    BY <1>2 DEF RequestInv, AnswerInv
                <5>3. retired[held[reader[r].instance].value] \in Int
                    BY <1>6, Numbers DEF CacheTypeOK
                <5> QED BY <1>4, <1>6, <4>1, <5>1, <5>2, <5>3
            <4>3. PICK v \in Versions : v = held[reader[r].instance].value
                BY <1>6
            <4>4. v <= v
                BY Numbers
            <4> QED BY <1>2, <1>7, <4>1, <4>2, <4>3, <4>4, UseKeeps DEF Same
        <3>3. CASE Uses(r, Held(r)) /\ reader'[r].blind
            <4>1. PICK v \in Versions : v = held[reader[r].instance].value
                BY <1>6
            <4>2. v <= v
                BY Numbers
            <4>3. Uses(r, v) /\ reader'[r].blind
                BY <3>3, <4>1 DEF Held
            <4> QED BY <1>2, <1>7, <4>1, <4>2, <4>3, UseKeeps
        <3>4. CASE (Waits(r, "await") /\ reader'[r].asked = now) \/ Answered(r)
            BY <1>2, <1>7, <3>4, WaitKeeps
        <3> QED BY <1>7, <3>1, <3>2, <3>3, <3>4
    <2>3. ASSUME NEW q \in Readers \ {r}
          PROVE  RequestInv(q)'
        <3>1. held[reader[q].instance].value \in Int
            BY Typed, Numbers
        <3>2. RequestInv(q)
            BY <1>2
        <3>3. held[reader[q].instance].value <= held'[reader[q].instance].value
            BY <1>7, <3>1
        <3>4. reader[q].pc = "assign" => held'[reader[q].instance].value <= reader[q].key
            BY <1>7, <3>2 DEF RequestInv, AnswerInv, Held
        <3> QED BY <1>5, <3>2, <3>3, <3>4, OthersKeep
    <2> QED BY <1>3, <2>1, <2>2, <2>3 DEF VersionInv, RequestInv
<1>8. ASSUME Assigns(r)
      PROVE  VersionInv'
    <2>1. PICK v \in Versions : v = reader[r].key
        BY <1>6
    <2>2. PICK i \in Instances : i = reader[r].instance
        BY <1>6
    <2>3. /\ held'[i].value = v /\ held'[i].expiresAt = reader[r].asked + VersionTtl
          /\ \A j \in Instances \ {i} : held'[j] = held[j]
        BY <1>8, <2>1, <2>2 DEF Assigns, CacheTypeOK
    <2>4. /\ held[i].value <= v /\ v <= version /\ v \in Int
          /\ v < version => reader[r].asked <= retired[v]
          /\ reader[r].started <= reader[r].asked /\ reader[r].asked <= now
        BY <1>2, <1>8, <2>1, <2>2, Numbers DEF Assigns, RequestInv, AnswerInv, Held
    <2>5. retired[v] \in Int
        BY Numbers DEF CacheTypeOK
    <2>6. HeldInv'
        <3>1. ASSUME NEW j \in Instances
              PROVE  /\ held'[j].value <= version
                     /\ held'[j].expiresAt <= now + VersionTtl
                     /\ held'[j].value < version => held'[j].expiresAt <= retired[held'[j].value] + VersionTtl
            <4>1. CASE j = i
                BY <1>4, <1>6, <2>3, <2>4, <2>5, <4>1
            <4>2. CASE j # i
                BY <1>2, <2>3, <4>2 DEF HeldInv
            <4> QED BY <4>1, <4>2
        <3> QED BY <1>1, <3>1 DEF HeldInv
    <2>7. RequestInv(r)'
        <3>1. v < version => reader[r].started < retired[v] + VersionTtl
            BY <1>4, <1>6, <2>4, <2>5
        <3>2. Uses(r, v) /\ Same(r)
            BY <1>8, <2>1 DEF Assigns
        <3> QED BY <1>2, <2>1, <2>2, <2>3, <2>4, <3>1, <3>2, UseKeeps DEF Same
    <2>8. ASSUME NEW q \in Readers \ {r}
          PROVE  RequestInv(q)'
        <3>1. /\ held[reader[q].instance].value \in Int /\ reader[q].instance \in Instances
              /\ reader[q].key \in Int
            BY Typed, Numbers
        <3>2. RequestInv(q)
            BY <1>2
        <3>3. held[reader[q].instance].value <= held'[reader[q].instance].value
            BY <2>3, <2>4, <3>1
        <3>4. reader[q].pc = "assign" => held'[reader[q].instance].value <= reader[q].key
            <4>1. reader[q].pc = "assign" => Held(q) <= reader[q].key
                BY <3>2 DEF RequestInv, AnswerInv
            <4>2. reader[q].pc = "assign" /\ reader[q].instance = i => reader[q].key >= v
                BY <1>8, <2>1, <2>2 DEF Assigns
            <4> QED BY <2>3, <2>4, <3>1, <4>1, <4>2 DEF Held
        <3> QED BY <1>5, <3>2, <3>3, <3>4, OthersKeep
    <2> QED BY <1>3, <2>6, <2>7, <2>8 DEF VersionInv, RequestInv
<1> QED BY <1>7, <1>8 DEF Learning

(* A request that proceeds.                                                *)
LEMMA ProceedingKeeps ==
    ASSUME CacheTypeOK, CacheTypeOK', VersionInv, NEW r \in Readers, Proceeds(r),
           now' = now, UNCHANGED <<origin, held>>
    PROVE  VersionInv'
<1>1. /\ version' = version /\ retired' = retired /\ data' = data /\ dataAt' = dataAt
      /\ held' = held
    BY DEF origin
<1>2. RequestInv(r) /\ HeldInv /\ HistoryInv /\ \A q \in Readers : RequestInv(q)
    BY DEF VersionInv, RequestInv
<1>3. HistoryInv' /\ HeldInv'
    BY <1>1, <1>2 DEF HistoryInv, HeldInv
<1>4. Alone(r)
    BY DEF Proceeds, Works, Asks, Rests
<1>5. RequestInv(r)'
    BY <1>1, <1>2, ProceedKeeps
<1>6. ASSUME NEW q \in Readers \ {r}
      PROVE  RequestInv(q)'
    <2>1. held[reader[q].instance].value \in Int
        BY Typed, Numbers
    <2>2. RequestInv(q)
        BY <1>2
    <2>3. held[reader[q].instance].value <= held'[reader[q].instance].value
        BY <1>1, <2>1
    <2>4. reader[q].pc = "assign" => held'[reader[q].instance].value <= reader[q].key
        BY <1>1, <2>2 DEF RequestInv, AnswerInv, Held
    <2> QED BY <1>4, <2>2, <2>3, <2>4, OthersKeep
<1> QED BY <1>3, <1>5, <1>6 DEF VersionInv, RequestInv

(* The application edits its data, or invalidates the caches; time passes. *)
LEMMA WorldKeeps ==
    ASSUME CacheTypeOK, VersionInv, Edit \/ Bump \/ Tick \/ UNCHANGED <<now, origin, held, reader>>
    PROVE  VersionInv'
<1>1. held' = held /\ reader' = reader
    BY DEF Edit, Bump, Tick
<1>2. HeldInv /\ HistoryInv /\ \A r \in Readers : RequestInv(r)
    BY DEF VersionInv, RequestInv
<1>3. /\ now \in Int /\ now >= 0 /\ version \in Versions /\ version \in Int /\ data \in Int
      /\ VersionTtl \in Int /\ VersionTtl >= 1
      /\ \A v \in Versions : v \in Int /\ dataAt[v] \in Int /\ retired[v] \in Int
      /\ \A i \in Instances : held[i].value \in Versions /\ held[i].expiresAt \in Int
    <2>1. /\ now \in Int /\ now >= 0 /\ version \in Versions /\ version \in Int /\ data \in Int
        BY Numbers DEF CacheTypeOK, Times
    <2>2. \A v \in Versions : v \in Int /\ dataAt[v] \in Int /\ retired[v] \in Int
        BY Numbers DEF CacheTypeOK
    <2>3. 0..(LastTick + VersionTtl) \subseteq Int
        BY CacheAssumption
    <2>4. \A i \in Instances : held[i].value \in Versions /\ held[i].expiresAt \in Int
        BY <2>3 DEF CacheTypeOK
    <2> QED BY <2>1, <2>2, <2>4, Numbers
<1>4. ASSUME now <= now', now' \in Int, data <= data', data' \in Int,
             UNCHANGED <<version, dataAt, retired>>
      PROVE  VersionInv'
    <2>1. HeldInv'
        BY <1>1, <1>2, <1>3, <1>4 DEF HeldInv
    <2>2. HistoryInv'
        BY <1>2, <1>3, <1>4 DEF HistoryInv
    <2>3. ASSUME NEW r \in Readers
          PROVE  RequestInv(r)'
        <3>1. reader[r].started \in Int /\ reader[r].asked \in Int
            BY Typed
        <3>2. RequestInv(r)
            BY <1>2
        <3>3. AnswerInv(r)'
            BY <1>1, <1>3, <1>4, <3>1, <3>2 DEF RequestInv, AnswerInv, Held
        <3>4. FirstInv(r)' /\ KeyInv(r)'
            BY <1>1, <1>4, <3>2 DEF RequestInv, FirstInv, KeyInv, Held
        <3> QED BY <3>3, <3>4 DEF RequestInv
    <2> QED BY <2>1, <2>2, <2>3 DEF VersionInv, RequestInv
<1>5. CASE Bump
    <2>1. /\ version' = version + 1 /\ version + 1 \in Versions
          /\ now' = now /\ data' = data
        BY <1>3, <1>5, CacheAssumption DEF Bump, clock, Versions
    <2>2. /\ dataAt'[version + 1] = data
          /\ \A v \in Versions : v <= version => dataAt'[v] = dataAt[v]
        BY <1>3, <1>5, <2>1 DEF Bump, CacheTypeOK
    <2>3. /\ retired'[version] = now
          /\ \A v \in Versions : v < version => retired'[v] = retired[v]
        BY <1>3, <1>5 DEF Bump, CacheTypeOK
    <2>4. HeldInv'
        <3>1. ASSUME NEW i \in Instances
              PROVE  /\ held[i].value <= version + 1
                     /\ held[i].expiresAt <= now + VersionTtl
                     /\ held[i].value < version + 1
                            => held[i].expiresAt <= retired'[held[i].value] + VersionTtl
            <4>1. PICK v \in Versions : v = held[i].value
                BY <1>3
            <4>2. /\ v \in Int /\ retired[v] \in Int /\ v <= version
                  /\ held[i].expiresAt <= now + VersionTtl /\ held[i].expiresAt \in Int
                  /\ v < version => held[i].expiresAt <= retired[v] + VersionTtl
                BY <1>2, <1>3, <4>1 DEF HeldInv
            <4>3. CASE v = version
                BY <1>3, <2>3, <4>1, <4>2, <4>3
            <4>4. CASE v < version
                BY <1>3, <2>3, <4>1, <4>2, <4>4
            <4> QED BY <1>3, <4>2, <4>3, <4>4
        <3> QED BY <1>1, <2>1, <3>1 DEF HeldInv
    <2>5. HistoryInv'
        <3>1. ASSUME NEW v \in Versions, v <= version + 1
              PROVE  dataAt'[v] <= data
            BY <1>2, <1>3, <2>2, <3>1 DEF HistoryInv
        <3>2. ASSUME NEW v \in Versions, NEW w \in Versions, v <= w, w <= version + 1
              PROVE  dataAt'[v] <= dataAt'[w]
            <4>1. CASE w = version + 1
                BY <2>1, <2>2, <3>1, <3>2, <4>1
            <4>2. CASE w <= version
                BY <1>2, <1>3, <2>2, <3>2, <4>2 DEF HistoryInv
            <4> QED BY <1>3, <3>2, <4>1, <4>2
        <3>3. ASSUME NEW v \in Versions, v < version + 1
              PROVE  retired'[v] <= now
            BY <1>2, <1>3, <2>3, <3>3 DEF HistoryInv
        <3>4. ASSUME NEW v \in Versions, NEW w \in Versions, v <= w, w < version + 1
              PROVE  retired'[v] <= retired'[w]
            <4>1. CASE w = version
                BY <1>3, <2>3, <3>3, <3>4, <4>1
            <4>2. CASE w < version
                BY <1>2, <1>3, <2>3, <3>4, <4>2 DEF HistoryInv
            <4> QED BY <1>3, <3>4, <4>1, <4>2
        <3> QED BY <2>1, <3>1, <3>2, <3>3, <3>4 DEF HistoryInv
    <2>6. ASSUME NEW r \in Readers
          PROVE  RequestInv(r)'
        <3>1. /\ reader[r].started \in Int /\ reader[r].asked \in Int /\ reader[r].key \in Versions
              /\ reader[r].key \in Int /\ reader[r].instance \in Instances
              /\ reader[r].from # None => reader[r].from \in Versions
            BY Typed, Numbers
        <3>2. AnswerInv(r) /\ FirstInv(r) /\ KeyInv(r)
            BY <1>2 DEF RequestInv
        <3>3. AnswerInv(r)'
            <4>1. reader[r].started <= now /\ reader[r].asked <= now
                BY <3>2 DEF AnswerInv
            <4>2. reader[r].pc \in {"await", "assign"} => reader[r].started <= reader[r].asked
                BY <3>2 DEF AnswerInv
            <4>3. reader[r].pc = "assign" =>
                      /\ Held(r) <= reader[r].key /\ reader[r].key <= version
                      /\ reader[r].key < version => reader[r].asked <= retired[reader[r].key]
                BY <3>2 DEF AnswerInv
            <4>4. reader[r].pc = "assign" => reader[r].asked <= retired'[reader[r].key]
                <5>1. CASE reader[r].key = version
                    BY <2>3, <4>1, <5>1
                <5>2. CASE reader[r].key < version
                    BY <2>3, <3>1, <4>3, <5>2
                <5> QED BY <1>3, <3>1, <4>3, <5>1, <5>2
            <4>5. reader[r].pc = "assign" => reader[r].key <= version + 1
                BY <1>3, <3>1, <4>3
            <4> QED BY <1>1, <2>1, <4>1, <4>2, <4>3, <4>4, <4>5 DEF AnswerInv, Held
        <3>4. FirstInv(r)'
            <4>1. reader[r].from # None => reader[r].from <= Held(r) /\ reader[r].from \in Int
                BY <1>3, <3>1, <3>2 DEF FirstInv
            <4>2. Held(r) <= version /\ Held(r) \in Int
                BY <1>2, <1>3, <3>1 DEF HeldInv, Held
            <4>3. ASSUME reader[r].from # None, ~reader[r].blind
                  PROVE  reader[r].started < retired'[reader[r].from] + VersionTtl
                <5>1. PICK v \in Versions : v = reader[r].from
                    BY <3>1, <4>3
                <5>2. v \in Int /\ v <= version
                    BY <1>3, <4>1, <4>2, <4>3, <5>1
                <5>3. CASE v = version
                    BY <1>3, <2>3, <3>1, <3>2, <5>1, <5>3 DEF AnswerInv
                <5>4. CASE v < version
                    BY <1>3, <2>3, <3>2, <4>3, <5>1, <5>4 DEF FirstInv
                <5> QED BY <1>3, <5>2, <5>3, <5>4
            <4> QED BY <1>1, <2>1, <4>1, <4>3 DEF FirstInv, Held
        <3>5. KeyInv(r)'
            BY <1>1, <3>2 DEF KeyInv, Held
        <3> QED BY <3>3, <3>4, <3>5 DEF RequestInv
    <2> QED BY <2>4, <2>5, <2>6 DEF VersionInv, RequestInv
<1>6. CASE Edit
    BY <1>3, <1>4, <1>6 DEF Edit, clock
<1>7. CASE Tick
    BY <1>3, <1>4, <1>7 DEF Tick, origin
<1>8. CASE UNCHANGED <<now, origin, held, reader>>
    BY <1>3, <1>4, <1>8 DEF origin
<1> QED BY <1>5, <1>6, <1>7, <1>8

(***************************************************************************)
(* The types of the variables                                              *)
(***************************************************************************)
(* Every step of a request leaves the faults within their bound.           *)
LEMMA FaultsBounded ==
    ASSUME CacheTypeOK, NEW r \in Readers,
           VersionStep(r) \/ VersionReadFails(r) \/ DetailStep(r) \/ StuStep(r)
    PROVE  faults' \in 0..MaxFaults
<1>1. faults \in 0..MaxFaults /\ MaxFaults \in Nat
    BY CacheAssumption DEF CacheTypeOK
<1>2. CASE UNCHANGED clock
    BY <1>1, <1>2 DEF clock
<1>3. CASE Fault
    BY <1>1, <1>3 DEF Fault
<1>4. CASE VersionStep(r) \/ VersionReadFails(r)
    BY <1>2, <1>3, <1>4
       DEF VersionStep, Start, AskVersion, ReadVersion, AssignVersion, VersionReadFails
<1>5. CASE DetailStep(r)
    BY <1>2, <1>3, <1>5
       DEF DetailStep, GetDetail, DropDetail, Fetch, FetchFails, StoreDetail, GetDetailFails,
           StoreDetailFails
<1>6. CASE StuStep(r)
    BY <1>2, <1>3, <1>6
       DEF StuStep, GetStu, DropStu, FindLink, Forget, GetLevel, DropLevel, FindLevel, StoreLevel,
           StoreLink, GetStuFails, StoreStuFails
<1> QED BY <1>4, <1>5, <1>6

(* Nothing but the states of the requests and what the processes hold is   *)
(* written by a request that learns the version or proceeds.               *)
LEMMA RequestTypes ==
    ASSUME CacheTypeOK, NEW r \in Readers, faults' \in 0..MaxFaults, now' = now, UNCHANGED origin,
           Learning(r) \/ (held' = held /\ Proceeds(r))
    PROVE  CacheTypeOK' /\ Alone(r)
<1>1. Alone(r)
    BY DEF Learning, Assigns, Starts, Takes, Waits, Answered, Uses, Learns,
           Proceeds, Works, Asks, Rests
<1>2. held' \in [Instances -> [value : Versions, expiresAt : 0..(LastTick + VersionTtl)]]
    <2>1. reader[r].asked + VersionTtl \in 0..(LastTick + VersionTtl)
        <3>1. reader[r].asked \in Times
            BY Typed
        <3> QED BY <3>1, CacheAssumption DEF Times
    <2>2. reader[r].key \in Versions /\ reader[r].instance \in Instances
        BY Typed
    <2>3. CASE held' = held
        BY <2>3 DEF CacheTypeOK
    <2>4. CASE Assigns(r)
        BY <2>1, <2>2, <2>4 DEF Assigns, CacheTypeOK
    <2> QED BY <2>3, <2>4 DEF Learning
<1>3. reader' \in [Readers -> ReaderState]
    BY <1>1 DEF Alone
<1>4. /\ now' \in Times /\ data' \in Edits /\ version' \in Versions
      /\ dataAt' \in [Versions -> Edits] /\ retired' \in [Versions -> Times]
    BY DEF CacheTypeOK, origin
<1> QED BY <1>1, <1>2, <1>3, <1>4 DEF CacheTypeOK

(* The application and the clock.                                          *)
LEMMA WorldTypes ==
    ASSUME CacheTypeOK, Edit \/ Bump \/ Tick
    PROVE  CacheTypeOK'
<1>1. held' = held /\ reader' = reader /\ faults' = faults
    BY DEF Edit, Bump, Tick, clock
<1>2. CASE Edit
    <2>1. data' \in Edits
        BY <1>2, CacheAssumption DEF Edit, CacheTypeOK, Edits
    <2> QED BY <1>1, <1>2, <2>1 DEF Edit, CacheTypeOK, clock
<1>3. CASE Bump
    <2>1. version' \in Versions /\ version + 1 \in Versions
        BY <1>3, CacheAssumption DEF Bump, CacheTypeOK, Versions
    <2> QED BY <1>1, <1>3, <2>1 DEF Bump, CacheTypeOK, clock
<1>4. CASE Tick
    <2>1. now' \in Times
        BY <1>4, CacheAssumption DEF Tick, CacheTypeOK, Times
    <2> QED BY <1>1, <1>4, <2>1 DEF Tick, CacheTypeOK, origin
<1> QED BY <1>2, <1>3, <1>4

(* What a visit, and a redirect, leave in the caches.                      *)
LEMMA CacheTypes ==
    ASSUME CacheTypeOK, NEW r \in Readers, KeyInv(r)
    PROVE  /\ DetailTypeOK /\ DetailWrite(r) => DetailTypeOK'
           /\ StuTypeOK /\ StuWrite(r) => StuTypeOK'
<1>1. reader[r].key \in Versions /\ reader[r].row \in Edits /\ reader[r].level \in Edits
    BY Typed
<1>2. ASSUME DetailTypeOK, DetailWrite(r)
      PROVE  DetailTypeOK'
    BY <1>1, <1>2 DEF DetailTypeOK, DetailWrite
<1>3. ASSUME StuTypeOK, StuWrite(r)
      PROVE  StuTypeOK'
    <2>1. ASSUME reader[r].pc = "store"
          PROVE  Entry(reader[r]) \in LinkInfo
        <3>1. reader[r].from \in Int /\ reader[r].key \in Int
            BY <1>1, <2>1, Typed, Numbers DEF KeyInv, Busy
        <3>2. (reader[r].from < reader[r].key) \in BOOLEAN
            BY <3>1
        <3> QED BY <1>1, <3>2 DEF Entry, LinkInfo
    <2>2. stu' \in [Versions -> LinkInfo \cup {None, Garbage}]
        BY <1>1, <1>3, <2>1 DEF StuTypeOK, StuWrite
    <2>3. levels' \in [Versions -> Edits \cup {None, Garbage}]
        BY <1>1, <1>3 DEF StuTypeOK, StuWrite
    <2> QED BY <2>2, <2>3 DEF StuTypeOK
<1> QED BY <1>2, <1>3

(***************************************************************************)
(* The invariant of the data                                               *)
(***************************************************************************)
(* The first version of a request is later than one replaced VersionTtl    *)
(* before it came.                                                         *)
LEMMA FirstIsLate ==
    ASSUME CacheTypeOK, VersionInv, NEW r \in Readers, reader[r].from # None, ~reader[r].blind,
           NEW v \in Versions, v < version, retired[v] + VersionTtl <= reader[r].started
    PROVE  reader[r].from > v
<1>1. PICK w \in Versions : w = reader[r].from
    BY Typed
<1>2. FirstInv(r) /\ HistoryInv
    BY DEF VersionInv
<1>3. w < version => reader[r].started < retired[w] + VersionTtl
    BY <1>1, <1>2 DEF FirstInv
<1>4. w <= v /\ v < version => retired[w] <= retired[v]
    BY <1>2 DEF HistoryInv
<1>5. /\ w \in Int /\ v \in Int /\ version \in Int /\ VersionTtl \in Int
      /\ retired[v] \in Int /\ retired[w] \in Int /\ reader[r].started \in Int
    BY Numbers, Typed DEF CacheTypeOK
<1> QED BY <1>1, <1>3, <1>4, <1>5

(* So is its key, which is the version at most.                            *)
LEMMA KeyIsPast ==
    ASSUME CacheTypeOK, VersionInv, NEW r \in Readers, reader[r].pc \in Busy
    PROVE  /\ reader[r].from \in Versions /\ reader[r].from <= reader[r].key
           /\ reader[r].key <= version /\ reader[r].then = "get"
           /\ dataAt[reader[r].from] <= dataAt[reader[r].key]
           /\ dataAt[reader[r].key] <= data
<1>1. /\ reader[r].from \in Versions /\ reader[r].key \in Versions
      /\ reader[r].from <= reader[r].key /\ reader[r].key <= Held(r) /\ reader[r].then = "get"
    BY Typed DEF VersionInv, KeyInv
<1>2. Held(r) <= version /\ Held(r) \in Int
    BY Typed, Numbers DEF VersionInv, HeldInv, Held
<1>a. version \in Int /\ reader[r].key \in Int
    BY <1>1, Numbers DEF CacheTypeOK
<1>3. reader[r].key <= version
    BY <1>1, <1>2, <1>a
<1> QED BY <1>1, <1>3 DEF VersionInv, HistoryInv

(* And no older than what replaced that version.                           *)
LEMMA KeyIsLate ==
    ASSUME CacheTypeOK, VersionInv, NEW r \in Readers, reader[r].pc \in Busy, ~reader[r].blind,
           NEW v \in Versions, v < version, retired[v] + VersionTtl <= reader[r].started
    PROVE  dataAt[v + 1] <= dataAt[reader[r].key]
<1>1. /\ reader[r].from \in Versions /\ reader[r].from <= reader[r].key
      /\ reader[r].key <= version /\ reader[r].key \in Versions
    BY KeyIsPast, Typed
<1>2. reader[r].from > v
    BY <1>1, FirstIsLate, Numbers
<1>3. v + 1 \in Versions /\ v + 1 <= reader[r].key
    BY <1>1, <1>2, CacheAssumption DEF Versions
<1> QED BY <1>1, <1>3 DEF VersionInv, HistoryInv

(* The other requests.                                                     *)
LEMMA OthersKeepData ==
    ASSUME NEW r \in Readers, Alone(r), UNCHANGED <<origin, service>>,
           NEW q \in Readers \ {r}, VisitInv(q), ResultInv(q), RedirectInv(q)
    PROVE  VisitInv(q)' /\ ResultInv(q)' /\ RedirectInv(q)'
<1>1. /\ reader'[q] = reader[q] /\ service' = service
      /\ version' = version /\ retired' = retired /\ dataAt' = dataAt
    BY DEF Alone, origin
<1>2. VisitInv(q)'
    BY <1>1 DEF VisitInv
<1>3. ResultInv(q)'
    BY <1>1 DEF ResultInv
<1>4. RedirectInv(q)'
    BY <1>1 DEF RedirectInv, Carrying
<1> QED BY <1>2, <1>3, <1>4

CachesInv ==
    CachedInv /\ DetailsAreOfTheirVersion /\ LevelsAreOfTheirVersion /\ StaleLinksSpanVersions

(* Nothing is written to the caches.                                       *)
LEMMA CachesKept ==
    ASSUME CachesInv, UNCHANGED <<detail, stuVars, version, dataAt>>
    PROVE  CachesInv'
<1>1. /\ detail' = detail /\ stu' = stu /\ levels' = levels
      /\ version' = version /\ dataAt' = dataAt
    BY DEF stuVars
<1>2. CachedInv' /\ DetailsAreOfTheirVersion'
    BY <1>1 DEF CachesInv, CachedInv, DetailsAreOfTheirVersion
<1>3. LevelsAreOfTheirVersion' /\ StaleLinksSpanVersions'
    BY <1>1 DEF CachesInv, LevelsAreOfTheirVersion, StaleLinksSpanVersions
<1> QED BY <1>2, <1>3 DEF CachesInv

(* A request that learns the version.                                      *)
LEMMA LearningKeepsData ==
    ASSUME CacheTypeOK, VersionInv, DataInv, NEW r \in Readers, Learning(r), Alone(r),
           UNCHANGED <<origin, detail, stuVars, service>>
    PROVE  DataInv'
<1>1. /\ service' = service /\ version' = version /\ retired' = retired /\ dataAt' = dataAt
    BY DEF origin
<1>2. VisitInv(r) /\ ResultInv(r) /\ RedirectInv(r) /\ CachesInv
    BY DEF DataInv, CachesInv
<1>3. CachesInv'
    BY <1>1, <1>2, CachesKept
<1>4. ASSUME Starts(r)
      PROVE  VisitInv(r)' /\ ResultInv(r)' /\ RedirectInv(r)'
    BY <1>4 DEF Starts, VisitInv, ResultInv, RedirectInv, Carrying
<1>5. ASSUME NEW v, Uses(r, v), Same(r) \/ reader'[r].blind
      PROVE  VisitInv(r)' /\ ResultInv(r)' /\ RedirectInv(r)'
    <2>1. /\ reader'[r].pc = reader[r].then /\ reader'[r].then = "get"
          /\ reader'[r].from = IF reader[r].from = None THEN v ELSE reader[r].from
          /\ reader'[r].started = reader[r].started /\ reader'[r].result = reader[r].result
          /\ reader'[r].row = reader[r].row /\ reader'[r].level = reader[r].level
        BY <1>5 DEF Uses, Learns
    <2>2. VisitInv(r)'
        BY <1>1, <1>2, <2>1 DEF VisitInv
    <2>3. ResultInv(r)'
        BY <1>1, <1>2, <1>5, <2>1 DEF ResultInv, Same
    <2>4. reader[r].then \in {"get", "forget", "level", "store"}
        BY Typed
    <2>5. RedirectInv(r)'
        BY <1>1, <1>2, <2>1, <2>4 DEF RedirectInv, Carrying
    <2> QED BY <2>2, <2>3, <2>5
<1>6. ASSUME NEW pc \in {"await", "assign"}, Waits(r, pc)
      PROVE  VisitInv(r)' /\ ResultInv(r)' /\ RedirectInv(r)'
    <2>1. /\ reader'[r].pc = pc /\ reader'[r].then = reader[r].then
          /\ reader'[r].from = reader[r].from
          /\ reader'[r].started = reader[r].started /\ reader'[r].result = reader[r].result
          /\ reader'[r].row = reader[r].row /\ reader'[r].level = reader[r].level
        BY <1>6 DEF Waits, Learns
    <2>2. Same(r)
        BY <1>6 DEF Waits, Same
    <2>3. VisitInv(r)'
        BY <1>1, <1>2, <2>1 DEF VisitInv
    <2>4. ResultInv(r)'
        BY <1>1, <1>2, <2>1, <2>2 DEF ResultInv, Same
    <2>5. RedirectInv(r)'
        BY <1>1, <1>2, <2>1 DEF RedirectInv, Carrying
    <2> QED BY <2>3, <2>4, <2>5
<1>7. VisitInv(r)' /\ ResultInv(r)' /\ RedirectInv(r)'
    BY <1>4, <1>5, <1>6 DEF Learning, Assigns, Takes, Answered
<1>8. \A q \in Readers \ {r} : VisitInv(q)' /\ ResultInv(q)' /\ RedirectInv(q)'
    BY OthersKeepData DEF DataInv
<1> QED BY <1>3, <1>7, <1>8 DEF DataInv, CachesInv

(* A visit that proceeds.                                                  *)
LEMMA VisitKeepsData ==
    ASSUME CacheTypeOK, DetailTypeOK, VersionInv, DataInv, NEW r \in Readers,
           service = "detail", DetailEffect(r), DetailWrite(r), Alone(r),
           UNCHANGED <<origin, stuVars, service>>
    PROVE  DataInv'
<1>1. /\ service' = service /\ version' = version /\ retired' = retired /\ dataAt' = dataAt
      /\ stu' = stu /\ levels' = levels
    BY DEF origin, stuVars
<1>2. VisitInv(r) /\ ResultInv(r) /\ CachesInv
    BY DEF DataInv, CachesInv
<1>3. reader[r].pc \in Busy
    BY DEF DetailEffect, Works, Rests
<1>4. PICK k \in Versions : k = reader[r].key
    BY Typed
<1>5. /\ k <= version /\ dataAt[k] <= data /\ reader[r].then = "get"
      /\ k \in Int /\ version \in Int /\ dataAt[k] \in Int /\ data \in Int
    BY <1>3, <1>4, KeyIsPast, Numbers DEF CacheTypeOK
<1>6. CachesInv'
    <2>1. LevelsAreOfTheirVersion' /\ StaleLinksSpanVersions'
        BY <1>1, <1>2 DEF CachesInv, LevelsAreOfTheirVersion, StaleLinksSpanVersions
    <2>2. /\ \A v \in Versions \ {k} : detail'[v] = detail[v]
          /\ \/ detail'[k] = detail[k]
             \/ detail'[k] = None
             \/ reader[r].pc = "store" /\ detail'[k] = reader[r].row
        BY <1>4 DEF DetailWrite, DetailTypeOK
    <2>3. reader[r].pc = "store" => reader[r].row >= dataAt[k]
        BY <1>2, <1>4 DEF VisitInv
    <2>4. DetailsAreOfTheirVersion'
        BY <1>1, <1>2, <2>2, <2>3 DEF CachesInv, DetailsAreOfTheirVersion
    <2>5. CachedInv'
        BY <1>1, <1>2, <1>5, <2>2 DEF CachesInv, CachedInv
    <2> QED BY <2>1, <2>4, <2>5 DEF CachesInv
<1>7. RedirectInv(r)'
    BY <1>1 DEF RedirectInv
<1>8. ASSUME NEW pc \in Busy, Works(r, pc), pc = "store" => reader'[r].row = data
      PROVE  VisitInv(r)' /\ ResultInv(r)'
    <2>1. /\ reader'[r].pc = pc /\ reader'[r].then = "get" /\ reader'[r].key = k
          /\ reader'[r].started = reader[r].started /\ reader'[r].result = reader[r].result
        BY <1>4, <1>5, <1>8 DEF Works, Kept
    <2>2. Same(r)
        BY <1>8 DEF Works, Kept, Same
    <2>3. data >= dataAt[k]
        BY <1>5
    <2>4. VisitInv(r)'
        BY <1>1, <1>8, <2>1, <2>3 DEF VisitInv
    <2>5. ResultInv(r)'
        BY <1>1, <1>2, <2>1, <2>2 DEF ResultInv, Same
    <2> QED BY <2>4, <2>5
<1>9. ASSUME NEW value \in Edits \cup {None}, Rests(r, value), value # None => value >= dataAt[k]
      PROVE  VisitInv(r)' /\ ResultInv(r)'
    <2>1. /\ reader'[r].pc = "idle" /\ reader'[r].then = "get" /\ reader'[r].result = value
          /\ value # None => reader'[r].started = reader[r].started
        BY <1>9 DEF Rests
    <2>2. value # None => Same(r)
        BY <1>9 DEF Rests, Same
    <2>3. VisitInv(r)'
        BY <2>1 DEF VisitInv
    <2>4. ASSUME value # None, ~reader[r].blind, NEW v \in Versions, v < version,
                 retired[v] + VersionTtl <= reader[r].started
          PROVE  value >= dataAt[v + 1]
        <3>1. dataAt[v + 1] <= dataAt[k]
            BY <1>3, <1>4, <2>4, KeyIsLate
        <3>2. v + 1 \in Versions
            BY <2>4, CacheAssumption DEF CacheTypeOK, Versions
        <3>3. dataAt[v + 1] \in Int /\ value \in Int
            BY <2>4, <3>2, Numbers DEF CacheTypeOK
        <3> QED BY <1>5, <1>9, <2>4, <3>1, <3>3
    <2>5. ResultInv(r)'
        BY <1>1, <2>1, <2>2, <2>4 DEF ResultInv, Same
    <2> QED BY <2>3, <2>5
<1>10. ASSUME reader[r].pc = "get", detail[k] \in Edits, Rests(r, detail[k])
       PROVE  VisitInv(r)' /\ ResultInv(r)'
    <2>1. detail[k] # None /\ detail[k] # Garbage
        BY <1>10, Numbers
    <2>2. detail[k] >= dataAt[k]
        BY <1>2, <2>1 DEF CachesInv, DetailsAreOfTheirVersion
    <2> QED BY <1>9, <1>10, <2>2
<1>11. ASSUME reader[r].pc = "store", Rests(r, reader[r].row)
       PROVE  VisitInv(r)' /\ ResultInv(r)'
    <2>1. reader[r].row \in Edits
        BY Typed
    <2>2. reader[r].row >= dataAt[k]
        BY <1>2, <1>4, <1>11 DEF VisitInv
    <2> QED BY <1>9, <1>11, <2>1, <2>2
<1>12. VisitInv(r)' /\ ResultInv(r)'
    <2>1. CASE Works(r, "fetch") \/ Works(r, "drop")
        BY <1>8, <2>1 DEF Busy
    <2>2. CASE Works(r, "store") /\ reader'[r].row = data
        BY <1>8, <2>2 DEF Busy
    <2>3. CASE Rests(r, None)
        BY <1>9, <2>3
    <2> QED BY <1>4, <1>10, <1>11, <2>1, <2>2, <2>3 DEF DetailEffect
<1>13. \A q \in Readers \ {r} : VisitInv(q)' /\ ResultInv(q)' /\ RedirectInv(q)'
    BY OthersKeepData DEF DataInv
<1> QED BY <1>6, <1>7, <1>12, <1>13 DEF DataInv, CachesInv

(* A redirect that proceeds.                                               *)
LEMMA RedirectKeepsData ==
    ASSUME CacheTypeOK, StuTypeOK, VersionInv, DataInv, NEW r \in Readers,
           service = "stu", StuEffect(r), StuWrite(r), Alone(r),
           UNCHANGED <<origin, detail, service>>
    PROVE  DataInv'
<1>1. /\ service' = service /\ version' = version /\ retired' = retired /\ dataAt' = dataAt
      /\ detail' = detail
    BY DEF origin
<1>2. RedirectInv(r) /\ CachesInv
    BY DEF DataInv, CachesInv
<1>3. reader[r].pc \in Busy
    BY DEF StuEffect, Works, Asks, Rests
<1>4. PICK k \in Versions, f \in Versions : k = reader[r].key /\ f = reader[r].from
    BY <1>3, KeyIsPast, Typed
<1>5. /\ k <= version /\ f <= k /\ dataAt[f] <= dataAt[k] /\ dataAt[k] <= data
      /\ reader[r].then = "get"
      /\ k \in Int /\ f \in Int /\ version \in Int
      /\ dataAt[k] \in Int /\ dataAt[f] \in Int /\ data \in Int
    BY <1>3, <1>4, KeyIsPast, Numbers DEF CacheTypeOK
<1>6. CachesInv'
    <2>1. DetailsAreOfTheirVersion'
        BY <1>1, <1>2 DEF CachesInv, DetailsAreOfTheirVersion
    <2>2. /\ \A v \in Versions \ {k} : levels'[v] = levels[v]
          /\ \/ levels'[k] = levels[k]
             \/ levels'[k] = None
             \/ reader[r].pc = "storeLevel" /\ levels'[k] = reader[r].level
        BY <1>4 DEF StuWrite, StuTypeOK
    <2>3. reader[r].pc = "storeLevel" => reader[r].level >= dataAt[k]
        BY <1>2, <1>4 DEF RedirectInv, Carrying
    <2>4. LevelsAreOfTheirVersion'
        BY <1>1, <1>2, <2>2, <2>3 DEF CachesInv, LevelsAreOfTheirVersion
    <2>5. /\ \A v \in Versions \ {k} : stu'[v] = stu[v]
          /\ \/ stu'[k] = stu[k]
             \/ stu'[k] = None
             \/ reader[r].pc = "store" /\ stu'[k] = Entry(reader[r])
        BY <1>4 DEF StuWrite, StuTypeOK
    <2>6. ASSUME reader[r].pc = "store", ~Entry(reader[r]).spans
          PROVE  Entry(reader[r]).row >= dataAt[k] /\ Entry(reader[r]).level >= dataAt[k]
        <3>1. /\ Entry(reader[r]).row = reader[r].row /\ Entry(reader[r]).level = reader[r].level
              /\ Entry(reader[r]).spans <=> reader[r].from < reader[r].key
            BY DEF Entry
        <3>2. f = k
            BY <1>4, <1>5, <2>6, <3>1
        <3>3. reader[r].row >= dataAt[f] /\ reader[r].level >= dataAt[f]
            BY <1>2, <1>4, <2>6 DEF RedirectInv, Carrying
        <3> QED BY <3>1, <3>2, <3>3
    <2>7. StaleLinksSpanVersions'
        <3>1. ASSUME NEW v \in Versions, stu'[v] \notin {None, Garbage}, ~stu'[v].spans
              PROVE  stu'[v].row >= dataAt[v] /\ stu'[v].level >= dataAt[v]
            <4>1. CASE stu'[v] = stu[v]
                BY <1>2, <3>1, <4>1 DEF CachesInv, StaleLinksSpanVersions
            <4>2. CASE v = k /\ reader[r].pc = "store" /\ stu'[k] = Entry(reader[r])
                BY <2>6, <3>1, <4>2
            <4> QED BY <2>5, <3>1, <4>1, <4>2
        <3> QED BY <1>1, <3>1 DEF StaleLinksSpanVersions
    <2>8. CachedInv'
        BY <1>1, <1>2, <1>5, <2>2, <2>5 DEF CachesInv, CachedInv
    <2> QED BY <2>1, <2>4, <2>7, <2>8 DEF CachesInv
<1>7. VisitInv(r)' /\ ResultInv(r)'
    BY <1>1 DEF VisitInv, ResultInv
<1>8. /\ reader[r].pc \in {"level", "dropLevel", "readLevel", "storeLevel", "store"}
             => reader[r].row >= dataAt[f] /\ reader[r].level >= dataAt[f]
    BY <1>2, <1>4 DEF RedirectInv, Carrying
<1>9. f # None /\ data >= dataAt[f] /\ data >= dataAt[k]
    BY <1>5, Numbers
<1>10. ASSUME NEW pc \in Busy, Works(r, pc),
              pc \in {"level", "dropLevel", "readLevel", "storeLevel", "store"}
                  => /\ reader'[r].row >= dataAt[f] /\ reader'[r].level >= dataAt[f]
                     /\ pc = "storeLevel" => reader'[r].level >= dataAt[k]
       PROVE  RedirectInv(r)'
    <2>1. /\ reader'[r].pc = pc /\ reader'[r].then = "get"
          /\ reader'[r].from = f /\ reader'[r].key = k
        BY <1>4, <1>5, <1>10 DEF Works, Kept
    <2> QED BY <1>1, <1>9, <1>10, <2>1 DEF RedirectInv, Carrying
<1>11. ASSUME NEW then, Asks(r, then),
              then \in {"level", "store"} => reader'[r].row >= dataAt[f] /\ reader'[r].level >= dataAt[f]
       PROVE  RedirectInv(r)'
    <2>1. /\ reader'[r].pc = "ask" /\ reader'[r].then = then /\ reader'[r].from = f
        BY <1>4, <1>11 DEF Asks, Kept
    <2> QED BY <1>1, <1>9, <1>11, <2>1 DEF RedirectInv, Carrying
<1>12. RedirectInv(r)'
    <2>1. CASE Works(r, "fetch") \/ Works(r, "drop")
        BY <1>10, <2>1 DEF Busy
    <2>2. CASE Asks(r, "forget")
        BY <1>11, <2>2
    <2>3. CASE /\ \E next \in {"level", "store"} : Asks(r, next)
               /\ reader'[r].row = data /\ reader'[r].level = data
        BY <1>9, <1>11, <2>3
    <2>4. CASE /\ reader[r].pc \in {"level", "dropLevel"}
               /\ Works(r, "dropLevel") \/ Works(r, "readLevel")
               /\ SameRow(r) /\ SameLevel(r)
        <3>1. reader'[r].row >= dataAt[f] /\ reader'[r].level >= dataAt[f]
            BY <1>8, <2>4 DEF SameRow, SameLevel
        <3> QED BY <1>10, <2>4, <3>1 DEF Busy
    <2>5. CASE /\ reader[r].pc = "level" /\ levels[reader[r].key] \in Edits
               /\ Asks(r, "store")
               /\ SameRow(r) /\ reader'[r].level = levels[reader[r].key]
        <3>1. levels[k] # None /\ levels[k] # Garbage /\ levels[k] \in Int
            BY <1>4, <2>5, Numbers
        <3>2. levels[k] >= dataAt[k]
            BY <1>2, <3>1 DEF CachesInv, LevelsAreOfTheirVersion
        <3>3. levels[k] >= dataAt[f]
            BY <1>5, <3>1, <3>2
        <3>4. reader'[r].row >= dataAt[f] /\ reader'[r].level >= dataAt[f]
            BY <1>4, <1>8, <2>5, <3>3 DEF SameRow
        <3> QED BY <1>11, <2>5, <3>4
    <2>6. CASE /\ reader[r].pc = "readLevel" /\ Works(r, "storeLevel")
               /\ SameRow(r) /\ reader'[r].level = data
        <3>1. reader'[r].row >= dataAt[f] /\ reader'[r].level >= dataAt[f] /\ reader'[r].level >= dataAt[k]
            BY <1>8, <1>9, <2>6 DEF SameRow
        <3> QED BY <1>10, <2>6, <3>1 DEF Busy
    <2>7. CASE /\ reader[r].pc \in {"readLevel", "storeLevel"} /\ Asks(r, "store")
               /\ SameRow(r) /\ SameLevel(r)
        <3>1. reader'[r].row >= dataAt[f] /\ reader'[r].level >= dataAt[f]
            BY <1>8, <2>7 DEF SameRow, SameLevel
        <3> QED BY <1>11, <2>7, <3>1
    <2>8. CASE Rests(r, None)
        BY <2>8 DEF Rests, RedirectInv, Carrying
    <2> QED BY <2>1, <2>2, <2>3, <2>4, <2>5, <2>6, <2>7, <2>8 DEF StuEffect
<1>13. \A q \in Readers \ {r} : VisitInv(q)' /\ ResultInv(q)' /\ RedirectInv(q)'
    BY OthersKeepData DEF DataInv
<1> QED BY <1>6, <1>7, <1>12, <1>13 DEF DataInv, CachesInv

(* Entries that expire or are overwritten.                                 *)
LEMMA LossKeepsData ==
    ASSUME DetailTypeOK, StuTypeOK, DataInv, UNCHANGED <<origin, reader, service>>,
           \/ /\ UNCHANGED stuVars
              /\ \E v \in Versions : detail[v] # None
                                     /\ detail' \in {[detail EXCEPT ![v] = None], [detail EXCEPT ![v] = Garbage]}
           \/ StuExpires /\ UNCHANGED detail
    PROVE  DataInv' /\ DetailTypeOK' /\ StuTypeOK'
<1>1. /\ service' = service /\ version' = version /\ retired' = retired /\ dataAt' = dataAt
      /\ reader' = reader
    BY DEF origin
<1>2. /\ \A v \in Versions : detail'[v] \in {detail[v], None, Garbage} /\ (detail[v] = None => detail'[v] = None)
      /\ detail' \in [Versions -> Edits \cup {None, Garbage}]
    BY DEF StuExpires, DetailTypeOK
<1>3. /\ \A v \in Versions : stu'[v] \in {stu[v], None} /\ levels'[v] \in {levels[v], None}
      /\ stu' \in [Versions -> LinkInfo \cup {None, Garbage}]
      /\ levels' \in [Versions -> Edits \cup {None, Garbage}]
    BY DEF StuExpires, StuTypeOK, stuVars
<1>4. CachesInv
    BY DEF DataInv, CachesInv
<1>5. CachedInv' /\ DetailsAreOfTheirVersion'
    BY <1>1, <1>2, <1>3, <1>4 DEF CachesInv, CachedInv, DetailsAreOfTheirVersion
<1>6. LevelsAreOfTheirVersion' /\ StaleLinksSpanVersions'
    BY <1>1, <1>3, <1>4 DEF CachesInv, LevelsAreOfTheirVersion, StaleLinksSpanVersions
<1>7. ASSUME NEW r \in Readers
      PROVE  VisitInv(r)' /\ ResultInv(r)' /\ RedirectInv(r)'
    BY <1>1 DEF DataInv, VisitInv, ResultInv, RedirectInv, Carrying
<1> QED BY <1>2, <1>3, <1>5, <1>6, <1>7 DEF DataInv, DetailTypeOK, StuTypeOK

(* The application and the clock.                                          *)
LEMMA WorldKeepsData ==
    ASSUME CacheTypeOK, VersionInv, DataInv, Edit \/ Bump \/ Tick,
           UNCHANGED <<detail, stuVars, service>>
    PROVE  DataInv'
<1>1. /\ service' = service /\ reader' = reader
      /\ detail' = detail /\ stu' = stu /\ levels' = levels
    BY DEF Edit, Bump, Tick, stuVars
<1>2. CachesInv /\ \A r \in Readers : VisitInv(r) /\ ResultInv(r) /\ RedirectInv(r)
    BY DEF DataInv, CachesInv
<1>3. CASE Edit \/ Tick
    <2>1. version' = version /\ dataAt' = dataAt /\ retired' = retired
        BY <1>3 DEF Edit, Tick, origin
    <2>2. CachesInv'
        BY <1>2, <2>1, CachesKept
    <2>3. ASSUME NEW r \in Readers
          PROVE  VisitInv(r)' /\ ResultInv(r)' /\ RedirectInv(r)'
        BY <1>1, <1>2, <2>1 DEF VisitInv, ResultInv, RedirectInv, Carrying
    <2> QED BY <2>2, <2>3 DEF DataInv, CachesInv
<1>4. CASE Bump
    <2>1. /\ version' = version + 1 /\ version \in Versions /\ version + 1 \in Versions
          /\ version \in Int /\ now \in Int /\ VersionTtl \in Int /\ VersionTtl >= 1
          /\ \A v \in Versions : v \in Int
        BY <1>4, Numbers, CacheAssumption DEF Bump, CacheTypeOK, Versions
    <2>2. \A v \in Versions : v <= version => dataAt'[v] = dataAt[v]
        BY <1>4, <2>1 DEF Bump, CacheTypeOK
    <2>3. /\ retired'[version] = now
          /\ \A v \in Versions : v < version => retired'[v] = retired[v]
        BY <1>4, <2>1 DEF Bump, CacheTypeOK
    <2>4. /\ \A v \in Versions : v > version => detail[v] = None /\ stu[v] = None /\ levels[v] = None
        BY <1>2 DEF CachesInv, CachedInv
    <2>5. CachedInv'
        <3>1. ASSUME NEW v \in Versions, v > version + 1
              PROVE  v > version
            BY <2>1, <3>1
        <3> QED BY <1>1, <2>1, <2>4, <3>1 DEF CachedInv
    <2>6. ASSUME NEW v \in Versions
          PROVE  v > version \/ dataAt'[v] = dataAt[v]
        BY <2>1, <2>2
    <2>7. DetailsAreOfTheirVersion' /\ LevelsAreOfTheirVersion'
        BY <1>1, <1>2, <2>4, <2>6 DEF CachesInv, DetailsAreOfTheirVersion, LevelsAreOfTheirVersion
    <2>8. StaleLinksSpanVersions'
        BY <1>1, <1>2, <2>4, <2>6 DEF CachesInv, StaleLinksSpanVersions
    <2>9. ASSUME NEW r \in Readers
          PROVE  VisitInv(r)' /\ ResultInv(r)' /\ RedirectInv(r)'
        <3>0. VisitInv(r) /\ ResultInv(r) /\ RedirectInv(r) /\ AnswerInv(r) /\ FirstInv(r)
            BY <1>2 DEF VersionInv
        <3>1. reader[r].pc \in Busy => /\ dataAt'[reader[r].key] = dataAt[reader[r].key]
                                       /\ reader[r].key <= version
            BY <2>2, KeyIsPast, Typed
        <3>2. reader[r].from # None => dataAt'[reader[r].from] = dataAt[reader[r].from]
            <4>1. ASSUME reader[r].from # None
                  PROVE  dataAt'[reader[r].from] = dataAt[reader[r].from]
                <5>1. PICK f \in Versions : f = reader[r].from
                    BY <4>1, Typed
                <5>2. f <= Held(r)
                    BY <3>0, <4>1, <5>1 DEF FirstInv
                <5>3. Held(r) <= version /\ Held(r) \in Int
                    BY Typed, Numbers DEF VersionInv, HeldInv, Held
                <5>4. f <= version
                    BY <2>1, <5>2, <5>3
                <5> QED BY <2>2, <5>1, <5>4
            <4> QED BY <4>1
        <3>3. VisitInv(r)'
            BY <1>1, <3>0, <3>1 DEF VisitInv, Busy
        <3>4. RedirectInv(r)'
            BY <1>1, <3>0, <3>1, <3>2 DEF RedirectInv, Carrying, Busy
        <3>5. ASSUME service = "detail", reader[r].result # None, ~reader[r].blind,
                     NEW v \in Versions, v < version + 1,
                     retired'[v] + VersionTtl <= reader[r].started
              PROVE  reader[r].result >= dataAt'[v + 1]
            <4>1. reader[r].started <= now /\ reader[r].started \in Int
                BY <3>0, Typed DEF AnswerInv
            <4>2. v # version
                BY <2>1, <2>3, <3>5, <4>1
            <4>3. v < version /\ v + 1 \in Versions /\ v + 1 <= version
                BY <2>1, <3>5, <4>2, CacheAssumption DEF Versions
            <4>4. dataAt'[v + 1] = dataAt[v + 1] /\ retired'[v] = retired[v]
                BY <2>2, <2>3, <4>3
            <4> QED BY <3>0, <3>5, <4>3, <4>4 DEF ResultInv
        <3>6. ResultInv(r)'
            BY <1>1, <2>1, <3>5 DEF ResultInv
        <3> QED BY <3>3, <3>4, <3>6
    <2> QED BY <2>5, <2>7, <2>8, <2>9 DEF DataInv
<1> QED BY <1>3, <1>4

(***************************************************************************)
(* The inductive invariant                                                 *)
(***************************************************************************)
CachesInvariant == CachesTypeOK /\ VersionInv /\ DataInv

(* It holds at first.                                                      *)
LEMMA InitInvariant == CachesInit => CachesInvariant
<1> SUFFICES ASSUME CachesInit PROVE CachesInvariant
    OBVIOUS
<1>0. /\ 0 \in Times /\ 0 \in Edits /\ 1 \in Versions /\ 0 \in 0..MaxFaults
      /\ 0 \in 0..(LastTick + VersionTtl)
    BY CacheAssumption DEF Times, Edits, Versions
<1>1. /\ now = 0 /\ data = 0 /\ version = 1 /\ faults = 0
      /\ held = [i \in Instances |-> [value |-> 1, expiresAt |-> 0]]
      /\ dataAt = [v \in Versions |-> 0] /\ retired = [v \in Versions |-> 0]
      /\ detail = [v \in Versions |-> None]
      /\ stu = [v \in Versions |-> None] /\ levels = [v \in Versions |-> None]
      /\ service \in {"detail", "stu"}
    BY DEF CachesInit, CacheInit, DetailInit, StuInit
<1>2. /\ reader \in [Readers -> ReaderState]
      /\ \A r \in Readers : /\ reader[r].pc = "idle" /\ reader[r].then = "get"
                            /\ reader[r].from = None /\ reader[r].result = None
                            /\ reader[r].started = 0 /\ reader[r].asked = 0
    <2>1. reader \in [Readers -> {Quiet(i, None) : i \in Instances}]
        BY DEF CachesInit, CacheInit
    <2>2. ASSUME NEW r \in Readers
          PROVE  /\ reader[r] \in ReaderState
                 /\ reader[r].pc = "idle" /\ reader[r].then = "get"
                 /\ reader[r].from = None /\ reader[r].result = None
                 /\ reader[r].started = 0 /\ reader[r].asked = 0
        <3>1. PICK i \in Instances : reader[r] = Quiet(i, None)
            BY <2>1
        <3> QED BY <3>1, QuietFields
    <2> QED BY <2>1, <2>2
<1>3. CachesTypeOK
    <2>1. held \in [Instances -> [value : Versions, expiresAt : 0..(LastTick + VersionTtl)]]
        BY <1>0, <1>1
    <2>2. CacheTypeOK
        BY <1>0, <1>1, <1>2, <2>1 DEF CacheTypeOK
    <2> QED BY <1>1, <2>2 DEF CachesTypeOK, DetailTypeOK, StuTypeOK
<1>4. HeldInv
    <2>1. \A i \in Instances : held[i].value = 1 /\ held[i].expiresAt = 0
        BY <1>1
    <2>2. VersionTtl \in Int /\ VersionTtl >= 1
        BY Numbers
    <2>3. now = 0 /\ version = 1
        BY <1>1
    <2>4. ASSUME NEW i \in Instances
          PROVE  /\ held[i].value <= version
                 /\ held[i].expiresAt <= now + VersionTtl
                 /\ ~(held[i].value < version)
        BY <2>1, <2>2, <2>3
    <2> QED BY <2>4 DEF HeldInv
<1>5. HistoryInv
    BY <1>0, <1>1, CacheAssumption DEF HistoryInv, Versions
<1>6. ASSUME NEW r \in Readers
      PROVE  AnswerInv(r) /\ FirstInv(r) /\ KeyInv(r)
    BY <1>1, <1>2 DEF AnswerInv, FirstInv, KeyInv, Busy
<1>7. CachedInv /\ DetailsAreOfTheirVersion /\ LevelsAreOfTheirVersion /\ StaleLinksSpanVersions
    BY <1>1 DEF CachedInv, DetailsAreOfTheirVersion, LevelsAreOfTheirVersion, StaleLinksSpanVersions
<1>8. ASSUME NEW r \in Readers
      PROVE  VisitInv(r) /\ ResultInv(r) /\ RedirectInv(r)
    BY <1>2 DEF VisitInv, ResultInv, RedirectInv, Carrying
<1> QED BY <1>3, <1>4, <1>5, <1>6, <1>7, <1>8 DEF CachesInvariant, VersionInv, DataInv

(* Every step keeps it.                                                    *)
LEMMA StepInvariant == CachesInvariant /\ [CachesNext]_cacheVars => CachesInvariant'
<1> SUFFICES ASSUME CachesInvariant, [CachesNext]_cacheVars
             PROVE  CachesInvariant'
    OBVIOUS
<1>0. /\ CacheTypeOK /\ DetailTypeOK /\ StuTypeOK /\ service \in {"detail", "stu"}
      /\ VersionInv /\ DataInv
      /\ \A r \in Readers : KeyInv(r)
    BY DEF CachesInvariant, CachesTypeOK, VersionInv
<1>a. ASSUME UNCHANGED <<detail, stuVars, service>>
      PROVE  DetailTypeOK' /\ StuTypeOK' /\ service' \in {"detail", "stu"}
    BY <1>0, <1>a DEF DetailTypeOK, StuTypeOK, stuVars
<1>1. ASSUME NEW r \in Readers, VersionStep(r) \/ VersionReadFails(r),
             UNCHANGED <<detail, stuVars, service>>
      PROVE  CachesInvariant'
    <2>1. Learning(r) /\ now' = now /\ UNCHANGED origin
        BY <1>0, <1>1, VersionStepEffect
    <2>2. CacheTypeOK' /\ Alone(r)
        BY <1>0, <1>1, <2>1, FaultsBounded, RequestTypes
    <2>3. VersionInv'
        BY <1>0, <2>1, <2>2, LearningKeeps
    <2>4. DataInv'
        BY <1>0, <1>1, <2>1, <2>2, LearningKeepsData
    <2> QED BY <1>1, <1>a, <2>2, <2>3, <2>4 DEF CachesInvariant, CachesTypeOK
<1>2. ASSUME Edit \/ Bump \/ Tick, UNCHANGED <<detail, stuVars, service>>
      PROVE  CachesInvariant'
    BY <1>0, <1>2, <1>a, WorldTypes, WorldKeeps, WorldKeepsData DEF CachesInvariant, CachesTypeOK
<1>3. ASSUME service = "detail", NEW r \in Readers, DetailStep(r), UNCHANGED <<stuVars, service>>
      PROVE  CachesInvariant'
    <2>1. DetailEffect(r) /\ DetailWrite(r) /\ now' = now /\ UNCHANGED <<origin, held>>
        BY <1>0, <1>3, DetailStepEffect DEF Outside
    <2>2. Proceeds(r)
        BY <1>0, <2>1, DetailProceeds
    <2>3. CacheTypeOK' /\ Alone(r)
        BY <1>0, <1>3, <2>1, <2>2, FaultsBounded, RequestTypes
    <2>4. VersionInv'
        BY <1>0, <2>1, <2>2, <2>3, ProceedingKeeps
    <2>5. DataInv'
        BY <1>0, <1>3, <2>1, <2>3, VisitKeepsData
    <2>6. DetailTypeOK' /\ StuTypeOK' /\ service' \in {"detail", "stu"}
        BY <1>0, <1>3, <2>1, CacheTypes DEF StuTypeOK, stuVars
    <2> QED BY <2>3, <2>4, <2>5, <2>6 DEF CachesInvariant, CachesTypeOK
<1>4. ASSUME service = "stu", NEW r \in Readers, StuStep(r), UNCHANGED <<detail, service>>
      PROVE  CachesInvariant'
    <2>1. StuEffect(r) /\ StuWrite(r) /\ now' = now /\ UNCHANGED <<origin, held>>
        BY <1>0, <1>4, StuStepEffect DEF Outside
    <2>2. Proceeds(r)
        BY <1>0, <2>1, StuProceeds
    <2>3. CacheTypeOK' /\ Alone(r)
        BY <1>0, <1>4, <2>1, <2>2, FaultsBounded, RequestTypes
    <2>4. VersionInv'
        BY <1>0, <2>1, <2>2, <2>3, ProceedingKeeps
    <2>5. DataInv'
        BY <1>0, <1>4, <2>1, <2>3, RedirectKeepsData
    <2>6. DetailTypeOK' /\ StuTypeOK' /\ service' \in {"detail", "stu"}
        BY <1>0, <1>4, <2>1, CacheTypes DEF DetailTypeOK
    <2> QED BY <2>3, <2>4, <2>5, <2>6 DEF CachesInvariant, CachesTypeOK
<1>5. ASSUME \/ DetailExpires /\ UNCHANGED <<stuVars, service>>
             \/ DetailGarbled /\ UNCHANGED <<stuVars, service>>
             \/ StuExpires /\ UNCHANGED <<detail, service>>
      PROVE  CachesInvariant'
    <2>1. UNCHANGED <<now, origin, held, reader, service>>
        BY <1>5 DEF DetailExpires, DetailGarbled, StuExpires, baseVars, clock, Fault
    <2>2. faults' \in 0..MaxFaults
        BY <1>0, <1>5, CacheAssumption
           DEF DetailExpires, DetailGarbled, StuExpires, baseVars, clock, Fault, CacheTypeOK
    <2>3. CacheTypeOK'
        BY <1>0, <2>1, <2>2 DEF CacheTypeOK, origin
    <2>4. VersionInv'
        BY <1>0, <2>1, WorldKeeps
    <2>5. DataInv' /\ DetailTypeOK' /\ StuTypeOK'
        BY <1>0, <1>5, <2>1, LossKeepsData DEF DetailExpires, DetailGarbled
    <2> QED BY <1>0, <2>1, <2>3, <2>4, <2>5 DEF CachesInvariant, CachesTypeOK
<1>6. CASE UNCHANGED cacheVars
    <2>1. UNCHANGED <<now, origin, held, reader>> /\ UNCHANGED <<detail, stuVars, service>>
          /\ faults' = faults
        BY <1>6 DEF cacheVars, baseVars, clock
    <2>2. CacheTypeOK'
        BY <1>0, <2>1 DEF CacheTypeOK, origin
    <2>3. VersionInv'
        BY <1>0, <2>1, WorldKeeps
    <2>4. CachesInv'
        BY <1>0, <2>1, CachesKept DEF DataInv, CachesInv, origin
    <2>5. ASSUME NEW r \in Readers
          PROVE  VisitInv(r)' /\ ResultInv(r)' /\ RedirectInv(r)'
        BY <1>0, <2>1 DEF DataInv, VisitInv, ResultInv, RedirectInv, Carrying, origin
    <2> QED BY <1>a, <2>1, <2>2, <2>3, <2>4, <2>5
            DEF CachesInvariant, CachesTypeOK, DataInv, CachesInv
<1> QED BY <1>1, <1>2, <1>3, <1>4, <1>5, <1>6 DEF CachesNext

(* So it always holds.                                                     *)
LEMMA Invariance == CachesSpec => []CachesInvariant
BY InitInvariant, StepInvariant, PTL DEF CachesSpec

(***************************************************************************)
(* What follows from it                                                    *)
(***************************************************************************)
(* The variables have their types: attempts, versions and times stay       *)
(* within their bounds in the caches of tracking.service.ts and            *)
(* stu.service.ts.                                                         *)
THEOREM CachesTypeCorrect == CachesSpec => []CachesTypeOK
<1>1. CachesInvariant => CachesTypeOK
    BY DEF CachesInvariant
<1> QED BY <1>1, Invariance, PTL

(* getCacheVersion: a request that came when a version had been replaced   *)
(* for as long as processes keep one uses a later version, unless it       *)
(* cannot read it.                                                         *)
THEOREM RetiredVersionsAreLeftHolds == CachesSpec => []RetiredVersionsAreLeft
<1>1. CachesInvariant => RetiredVersionsAreLeft
    BY FirstIsLate DEF CachesInvariant, CachesTypeOK, RetiredVersionsAreLeft
<1> QED BY <1>1, Invariance, PTL

(* getLinkByAlias: the details cached under a version are no older than    *)
(* the data were when the version came.                                    *)
THEOREM DetailsAreOfTheirVersionHolds == CachesSpec => []DetailsAreOfTheirVersion
<1>1. CachesInvariant => DetailsAreOfTheirVersion
    BY DEF CachesInvariant, DataInv
<1> QED BY <1>1, Invariance, PTL

(* getLinkWithAutoLevel: so are the levels cached under a version.         *)
THEOREM LevelsAreOfTheirVersionHolds == CachesSpec => []LevelsAreOfTheirVersion
<1>1. CachesInvariant => LevelsAreOfTheirVersion
    BY DEF CachesInvariant, DataInv
<1> QED BY <1>1, Invariance, PTL

(* getLinkWithAutoLevel: so are the links, unless the request that cached  *)
(* one has used two versions.                                              *)
THEOREM StaleLinksSpanVersionsHolds == CachesSpec => []StaleLinksSpanVersions
<1>1. CachesInvariant => StaleLinksSpanVersions
    BY DEF CachesInvariant, DataInv
<1> QED BY <1>1, Invariance, PTL

(* getLinkByAlias: an invalidation reaches every visit that comes          *)
(* VersionTtl later, on whatever process.                                  *)
THEOREM InvalidationReachesVisitsHolds == CachesSpec => []InvalidationReachesVisits
<1>1. CachesInvariant => InvalidationReachesVisits
    BY DEF CachesInvariant, DataInv, ResultInv, InvalidationReachesVisits
<1> QED BY <1>1, Invariance, PTL
=============================================================================
