--------------------------- MODULE MCResearchQueue ---------------------------
(* ResearchQueue for TLC: workers are interchangeable in the safety runs.   *)
EXTENDS ResearchQueue, TLC

Symmetry == Permutations(Workers)
=============================================================================
