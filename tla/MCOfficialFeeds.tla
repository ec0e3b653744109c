--------------------------- MODULE MCOfficialFeeds ---------------------------
(* OfficialFeeds for TLC: daemons are interchangeable in the safety runs.   *)
EXTENDS OfficialFeeds, TLC

Symmetry == Permutations(Daemons)
=============================================================================
