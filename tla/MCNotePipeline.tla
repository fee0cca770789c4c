-------------------------- MODULE MCNotePipeline --------------------------
(* NotePipeline on a small instance: two servers with a flush run each,    *)
(* and a visit of trackVisit beside two note accesses.                     *)
EXTENDS NotePipeline, TLC

CONSTANTS s1, s2, a1, a2, r1, r2, v1, h1, h2

HomeOf == a1 :> s1 @@ a2 :> s2 @@ r1 :> s1 @@ r2 :> s2 @@ v1 :> s1

VisitAgent == v1 :> h2

Text(negative, int, frac) ==
    [numeric |-> TRUE, negative |-> negative, int |-> int, frac |-> frac]

(* One visitor with two browsers; the user is the default of both.         *)
Parameters ==
       a1 :> [ip |-> 1, agent |-> h1, userId |-> Absent, linkId |-> 7, revenue |-> Text(FALSE, 1, 19)]
    @@ a2 :> [ip |-> 1, agent |-> h2, userId |-> 0, linkId |-> 7, revenue |-> Text(TRUE, 2, 37)]
=============================================================================
