---------------------------- MODULE MCLinkCaches ----------------------------
(* LinkCaches on a small instance. *)
EXTENDS LinkCaches, TLC

Symmetric == Permutations(Instances) \cup Permutations(Readers)
=============================================================================
