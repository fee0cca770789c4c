----------------------------- MODULE RedisList -----------------------------
(***************************************************************************)
(* A Redis list as a sequence, head first: what popBatchFromList of        *)
(* redis.service.ts returns and leaves.                                    *)
(***************************************************************************)
EXTENDS Integers, Sequences

(* LRANGE 0 n-1 returns at most the whole list. *)
Taken(list, n) == IF Len(list) < n THEN Len(list) ELSE n

PopBatchFromList(list, n) == SubSeq(list, 1, Taken(list, n))

(* Mutants of Trimmed: LTRIM from one element too late, and too early. *)
TrimmedOneMore(list, n) == SubSeq(list, Taken(list, n) + 2, Len(list))

TrimmedOneLess(list, n) == SubSeq(list, Taken(list, n), Len(list))

(* LTRIM n -1. *)
Trimmed(list, n) == SubSeq(list, Taken(list, n) + 1, Len(list))

(* No element outside R occurs twice. *)
UniqueExcept(list, R) ==
    \A i, j \in DOMAIN list : list[i] = list[j] /\ i # j => list[i] \in R
=============================================================================
