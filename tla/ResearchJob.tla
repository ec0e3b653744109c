----------------------------- MODULE ResearchJob -----------------------------
(***************************************************************************)
(* What the queue promises of a job while every execution is shorter than  *)
(* the staleness window: one attempt at a time, retries that only repeat   *)
(* an unfinished attempt, a report before completion, at most one          *)
(* monitoring alert, and an end that is final except that the trailing     *)
(* writes of an attempt may still turn completed into failed.              *)
(***************************************************************************)
EXTENDS Naturals

CONSTANT Jobs

VARIABLES
  phase,      \* absent, queued, running, completed or failed
  published,  \* the report can be read and exported
  alerts      \* monitoring snapshots taken of the job

jobVars == <<phase, published, alerts>>

JobInit ==
  /\ phase = [j \in Jobs |-> "absent"]
  /\ published = [j \in Jobs |-> FALSE]
  /\ alerts = [j \in Jobs |-> 0]

Submit(j) ==
  /\ phase[j] = "absent"
  /\ phase' = [phase EXCEPT ![j] = "queued"]
  /\ UNCHANGED <<published, alerts>>

Take(j) ==
  /\ phase[j] = "queued"
  /\ phase' = [phase EXCEPT ![j] = "running"]
  /\ UNCHANGED <<published, alerts>>

\* Attempts that died are retried, several at once.
Retry(abandoned) ==
  /\ \A j \in abandoned : phase[j] = "running"
  /\ phase' = [j \in Jobs |-> IF j \in abandoned THEN "queued" ELSE phase[j]]
  /\ UNCHANGED <<published, alerts>>

Publish(j) ==
  /\ phase[j] = "running"
  /\ published' = [published EXCEPT ![j] = TRUE]
  /\ UNCHANGED <<phase, alerts>>

Finish(j) ==
  /\ phase[j] = "running" /\ published[j]
  /\ phase' = [phase EXCEPT ![j] = "completed"]
  /\ UNCHANGED <<published, alerts>>

Alert(j) ==
  /\ phase[j] = "completed" /\ alerts[j] = 0
  /\ alerts' = [alerts EXCEPT ![j] = 1]
  /\ UNCHANGED <<phase, published>>

Fail(j) ==
  /\ phase[j] \in {"running", "completed"}
  /\ phase' = [phase EXCEPT ![j] = "failed"]
  /\ UNCHANGED <<published, alerts>>

JobNext ==
  \/ \E j \in Jobs : Submit(j) \/ Take(j) \/ Publish(j) \/ Finish(j) \/ Alert(j) \/ Fail(j)
  \/ \E abandoned \in SUBSET Jobs : Retry(abandoned)

JobSpec == JobInit /\ [][JobNext]_jobVars
=============================================================================
