---------------------------- MODULE MCResearchRun ----------------------------
(* ResearchRun for TLC: two runs of a plan with one collecting and one        *)
(* analysing agent, whose capabilities have different routes.                 *)
EXTENDS ResearchRun

CONSTANTS p1, p2
Routes == [a \in Agents |-> IF a \in Analysis THEN <<p2>> ELSE <<p1, p2>>]
UnitCost == [a \in Agents |-> 1]
=============================================================================
