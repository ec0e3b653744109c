------------------------------- MODULE Monitoring -------------------------------
(***************************************************************************)
(* Continuous monitoring.  An execution whose job is completed writes, in  *)
(* one transaction, a snapshot of its report and an alert if it differs    *)
(* from the snapshot before.  Executions of one user may write at the same *)
(* time, and none sees what another has not committed.  One that raises    *)
(* marks its completed job as failed, be its snapshot on file or not.  All *)
(* snapshots are of one security; an execution has one job, one snapshot.  *)
(***************************************************************************)
EXTENDS Integers, FiniteSets

CONSTANTS Executions, Users,
          Reports,          \* what the analyses can find
          MaxSaveFaults     \* transactions that fail or are not acknowledged

ASSUME MonitorAssumption == MaxSaveFaults \in Nat

VARIABLES snapshots,        \* of an execution: none, being written, or on file
          alerts,           \* of an execution: at most one, with its snapshot
          status,           \* of its job; "raised": still completed, about to be failed
          ticks,            \* of the database's clock
          saveFaults

monitorVars == <<snapshots, alerts, status, ticks, saveFaults>>

NoSnapshot == [step |-> "none"]
Reached(e, step) == snapshots[e].step = step
Writing(e) == snapshots[e].step \in {"saved", "compared"}
OnFile == {e \in Executions : snapshots[e].step = "committed"}

MonitorInit ==
  /\ snapshots = [e \in Executions |-> NoSnapshot]
  /\ alerts = [e \in Executions |-> {}]
  /\ status = [e \in Executions |-> "completed"]
  /\ ticks = 0
  /\ saveFaults = 0

-----------------------------------------------------------------------------
(* The comparison.  A claim is told from another by its identity, and an   *)
(* execution gives each of its claims a new one.                           *)
ClaimsOf(e, words) == {<<e, w>> : w \in words}

(* The report's own words, and its claims of the sections that are hashed, *)
(* with all their fields.                                                  *)
ThesisHash(e, report) == <<report.summary, ClaimsOf(e, report.risks)>>

Far(before, after) == IF after < before THEN before - after ELSE after - before
ConfidenceChanges(old, new) == {k \in DOMAIN old \cap DOMAIN new : Far(old[k], new[k]) >= 25}  \* per mille
MetricChanges(old, new) ==
  {k \in DOMAIN old \cap DOMAIN new :
     old[k] # new[k] /\ (old[k] # 0 => 20 * Far(old[k], new[k]) >= Far(old[k], 0))}

Delta(prior, next) ==
  [thesis |-> prior.hash # next.hash,
   addedRisks |-> next.risks \ prior.risks, resolvedRisks |-> prior.risks \ next.risks,
   addedCatalysts |-> next.catalysts \ prior.catalysts,
   resolvedCatalysts |-> prior.catalysts \ next.catalysts,
   confidence |-> ConfidenceChanges(prior.confidence, next.confidence),
   metrics |-> MetricChanges(prior.metrics, next.metrics)]

Changed(delta) == delta.thesis \/ \E k \in DOMAIN delta \ {"thesis"} : delta[k] # {}

Severity(delta) ==
  CASE delta.thesis /\ (delta.addedRisks # {} \/ Cardinality(delta.confidence) >= 2) -> "high"
    [] ~delta.thesis /\ delta.addedRisks \cup delta.addedCatalysts \cup delta.resolvedRisks = {} -> "info"
    [] OTHER -> "material"

-----------------------------------------------------------------------------
(* Inserting the snapshot begins the transaction, whose time it gets.      *)
InsertSnapshot(e) ==
  /\ Reached(e, "none")
  /\ \E u \in Users, r \in Reports :
       snapshots' = [snapshots EXCEPT ![e] =
         [step |-> "saved", user |-> u, at |-> ticks + 1, done |-> 0, report |-> r, hash |-> ThesisHash(e, r),
          risks |-> ClaimsOf(e, r.risks), catalysts |-> ClaimsOf(e, r.catalysts),
          confidence |-> r.confidence, metrics |-> r.metrics, alert |-> {}]]
  /\ ticks' = ticks + 1
  /\ UNCHANGED <<alerts, status, saveFaults>>

Newest(E) == {e \in E : \A f \in E : snapshots[f].at <= snapshots[e].at}
PriorOfAnyone(e) ==                                    \* mutant: whoever asked for it
  Newest({f \in OnFile : snapshots[f].at <= snapshots[e].at})
Prior(e) ==
  Newest({f \in OnFile : snapshots[f].user = snapshots[e].user /\ snapshots[f].at <= snapshots[e].at})

CreateAlert(e) ==
  /\ Reached(e, "saved")
  /\ LET delta(p) == Delta(snapshots[p], snapshots[e])
     IN snapshots' = [snapshots EXCEPT ![e].step = "compared",
                        ![e].alert = {[prior |-> p, delta |-> delta(p), severity |-> Severity(delta(p)),
                                       read |-> FALSE] : p \in {p \in Prior(e) : Changed(delta(p))}}]
  /\ UNCHANGED <<alerts, status, ticks, saveFaults>>

PutOnFile(e) ==
  /\ Reached(e, "compared")
  /\ snapshots' = [snapshots EXCEPT ![e].step = "committed", ![e].done = ticks + 1, ![e].alert = {}]
  /\ alerts' = [alerts EXCEPT ![e] = snapshots[e].alert]
  /\ ticks' = ticks + 1

CommitSnapshot(e) ==
  /\ PutOnFile(e)
  /\ UNCHANGED <<status, saveFaults>>

RaiseError(e) ==
  /\ saveFaults < MaxSaveFaults
  /\ saveFaults' = saveFaults + 1
  /\ status' = [status EXCEPT ![e] = "raised"]

(* The transaction is there, but the execution does not get to know it.    *)
CommitUnacknowledged(e) == PutOnFile(e) /\ RaiseError(e)

(* The transaction is not there.                                           *)
RollBack(e) ==
  /\ Writing(e) /\ RaiseError(e)
  /\ snapshots' = [snapshots EXCEPT ![e] = [step |-> "failed"]]
  /\ UNCHANGED <<alerts, ticks>>

(* The job then fails, and is not executed again.                          *)
FailJob(e) ==
  /\ status[e] = "raised"
  /\ status' = [status EXCEPT ![e] = "failed"]
  /\ UNCHANGED <<snapshots, alerts, ticks, saveFaults>>

MarkRead(u, e) ==
  /\ e \in OnFile /\ snapshots[e].user = u /\ \E a \in alerts[e] : ~a.read
  /\ alerts' = [alerts EXCEPT ![e] = {[a EXCEPT !.read = TRUE] : a \in @}]
  /\ UNCHANGED <<snapshots, status, ticks, saveFaults>>

MonitorNext ==
  \/ \E e \in Executions : InsertSnapshot(e) \/ CreateAlert(e) \/ CommitSnapshot(e)
  \/ \E e \in Executions : CommitUnacknowledged(e) \/ RollBack(e) \/ FailJob(e)
  \/ \E u \in Users, e \in Executions : MarkRead(u, e)
MonitorSpec == MonitorInit /\ [][MonitorNext]_monitorVars

(* What a user is shown: the two newest snapshots of jobs that have not    *)
(* failed.                                                                 *)
Own(u) == {e \in OnFile : snapshots[e].user = u /\ status[e] # "failed"}
LatestDelta(u) ==
  LET current == Newest(Own(u))
  IN {[current |-> e, prior |-> p, delta |-> Delta(snapshots[p], snapshots[e])] :
        e \in current, p \in Newest(Own(u) \ current)}

-----------------------------------------------------------------------------
Earlier(e) == {f \in OnFile : snapshots[f].user = snapshots[e].user /\ snapshots[f].at < snapshots[e].at}
Apart(p, e) == snapshots[p].done < snapshots[e].at     \* e was begun with p on file
AlertedTo(p, e) == \E a \in alerts[e] : a.prior = p /\ a.delta = Delta(snapshots[p], snapshots[e])

(* Every change from one snapshot of a user to the next on file is in the  *)
(* alert of the next, be the job of either completed or failed: one that   *)
(* is shown over a failed job is in the alerts step by step.               *)
StepsAreAlerted ==
  \A e \in OnFile : \A p \in Newest(Earlier(e)) :
    Apart(p, e) /\ Changed(Delta(snapshots[p], snapshots[e])) => AlertedTo(p, e)

(* Whoever looks at the delta of the two newest snapshots and finds a      *)
(* change has been alerted to just this change, unless the snapshot of a   *)
(* failed job lies between them, which is not shown but compared with.     *)
ShownIsAlerted ==
  \A u \in Users : \A shown \in LatestDelta(u) :
    /\ Changed(shown.delta) /\ Apart(shown.prior, shown.current)
    /\ \A f \in Earlier(shown.current) : status[f] = "failed" => snapshots[f].at < snapshots[shown.prior].at
    => AlertedTo(shown.prior, shown.current)

(* Changes reach their user, in steps and as they are shown, and nobody is *)
(* alerted to what is in the snapshot of another user.  Of two snapshots   *)
(* that are written at the same time the newer is compared with one older  *)
(* than both, and what changed between the two is in no alert: both parts  *)
(* ask that the newer was begun with the older on file.                    *)
ChangesAreAlerted ==
  /\ StepsAreAlerted
  /\ ShownIsAlerted
  /\ \A e \in Executions : \A a \in alerts[e] : snapshots[a.prior].user = snapshots[e].user

(* "Monitoring should compare new validated snapshots with prior snapshots *)
(* and alert only on meaningful changes": two analyses that find the same  *)
(* raise no alert.                                                         *)
AlertsAreMeaningful ==
  \A e \in Executions : \A a \in alerts[e] : snapshots[a.prior].report # snapshots[e].report
=============================================================================
