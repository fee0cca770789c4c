--------------------------- MODULE MCLogPipeline ---------------------------
(* LogPipeline on small instances. *)
EXTENDS LogPipeline, TLC

Symmetric == Permutations(Logs) \cup Permutations(Flushers) \cup Permutations(Migrators)
=============================================================================
