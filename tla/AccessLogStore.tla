-------------------------- MODULE AccessLogStore ---------------------------
(***************************************************************************)
(* What the log pipeline promises to a reader of the tracking database: an *)
(* accepted log becomes a row (stored), and later a row of the main table  *)
(* (archived), in this order and never back.  A log that is not stored yet *)
(* can go missing, in a fault only.                                        *)
(***************************************************************************)
EXTENDS Integers

CONSTANT Logs

VARIABLES
    status,   \* how far each log has got
    faults    \* faults so far

Init ==
    /\ status = [l \in Logs |-> "new"]
    /\ faults = 0

(* The logs in S, all of them at stage from, move to stage to. *)
Move(S, from, to) ==
    /\ \A l \in S : status[l] = from
    /\ status' = [l \in Logs |-> IF l \in S THEN to ELSE status[l]]

Accept == \E l \in Logs : Move({l}, "new", "pending")

Store == \E S \in SUBSET Logs : Move(S, "pending", "stored")

Archive == \E S \in SUBSET Logs : Move(S, "stored", "archived")

Lose ==
    /\ \E S \in SUBSET Logs : Move(S, "pending", "missing")
    /\ faults' = faults + 1

(* The answer to a step that took effect may be lost. *)
Next ==
    \/ /\ Accept \/ Store \/ Archive
       /\ faults' \in {faults, faults + 1}
    \/ Lose

Spec == Init /\ [][Next]_<<status, faults>>
=============================================================================
