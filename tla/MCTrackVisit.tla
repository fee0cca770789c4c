---------------------------- MODULE MCTrackVisit ----------------------------
(* TrackVisit on small instances. *)
EXTENDS TrackVisit, TLC

Symmetric == Permutations(Visits) \cup Permutations(Aliases)
=============================================================================
