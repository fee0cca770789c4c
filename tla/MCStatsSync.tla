---------------------------- MODULE MCStatsSync ----------------------------
(* StatsSync on small instances: one visit, or two visits of one link. *)
EXTENDS StatsSync, TLC

CONSTANT a

OneLink == [v \in Visits |-> a]

Symmetric == Permutations(Runs) \cup Permutations(Visits)
=============================================================================
