------------------------------- MODULE MCRecords -------------------------------
(* What is written to the database and what is concluded from it, a scene   *)
(* at a time: the jobs of two workers in time, the daily refresh of one or  *)
(* two prices, the snapshots and alerts of two users, or the rules, asked   *)
(* case by case.  The modules of the other scenes stay as they are.         *)
EXTENDS MCResearchQueue, MCMarketRefresh, MCMonitoring, MCDecisions

NoRefresh ==
  /\ now = LastHour
  /\ published = [s \in Securities |-> {}] /\ held = [s \in Securities |-> {}]
  /\ checkpoint = [s \in Securities |-> [checked |-> Never, last |-> Never, retry |-> Never]]
  /\ Parked

NoCase == [about |-> "nothing"]
CasesOrNone == <<{NoCase}>> \o AllCases

\* Executions are alike: they begin in the order of their numbers.
InOrder ==
  \A e \in Executions : ~Reached(e, "none")' =>
    \A d \in Executions : d < e => ~Reached(d, "none")'

VARIABLE scene

RecordsInit ==
  /\ scene \in {"jobs", "prices", "alerts", "decisions"}
  /\ Init
  /\ IF scene = "prices" THEN RefreshInit ELSE NoRefresh
  /\ MonitorInit
  /\ DecisionInit /\ (case # NoCase <=> scene = "decisions")

RecordsNext ==
  /\ UNCHANGED scene
  /\ \/ scene = "jobs" /\ Next /\ UNCHANGED <<refreshVars, monitorVars, decisionVars>>
     \/ scene = "prices" /\ RefreshNext /\ UNCHANGED <<vars, monitorVars, decisionVars>>
     \/ scene = "alerts" /\ MonitorNext /\ InOrder /\ UNCHANGED <<vars, refreshVars, decisionVars>>
     \/ scene = "decisions" /\ DecisionNext /\ UNCHANGED <<vars, refreshVars, monitorVars>>

RecordsSpec ==
  RecordsInit /\ [][RecordsNext]_<<vars, refreshVars, monitorVars, decisionVars, scene>>
=============================================================================
