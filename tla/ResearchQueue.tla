---------------------------- MODULE ResearchQueue ----------------------------
(***************************************************************************)
(* The durable research queue: rows of research_jobs, the worker processes *)
(* that claim and execute them (workers/research_jobs.py), the API         *)
(* requests that execute a job inline (POST /v1/research/run), and the     *)
(* database transactions both are made of.                                 *)
(*                                                                         *)
(* One action is one transaction, or one stretch of work between two       *)
(* transactions.  A transaction may fail before it commits, or commit and  *)
(* lose its acknowledgement; a process may crash between any two of them.  *)
(* Jobs are numbered in the order of created_at.  Of a timestamp only what *)
(* the queries ask is kept: started_at is null, recent, or older than the  *)
(* staleness window max(300, 2 * max_research_job_seconds).                *)
(***************************************************************************)
EXTENDS Naturals, FiniteSets

CONSTANTS
  Workers,      \* research worker processes
  Handlers,     \* API requests that may execute a job inline
  None,         \* "no job"
  MaxJobs,      \* bound: jobs ever created
  MaxCrashes,   \* bound: process crashes
  MaxFaults,    \* bound: failed transactions
  FailureLimit, \* consecutive failed transactions that end a worker (5 in the code)
  Outputs,      \* agent outputs an attempt saves, one transaction each
  Timely        \* TRUE: no execution outlives the staleness window

Executors == Workers \cup Handlers
Jobs == 1..MaxJobs

ASSUME QueueAssumption ==
  /\ MaxJobs \in Nat
  /\ MaxCrashes \in Nat
  /\ MaxFaults \in Nat
  /\ Outputs \in Nat
  /\ FailureLimit \in Nat \ {0}
  /\ Timely \in BOOLEAN
  /\ Workers \cap Handlers = {}
  /\ None \notin Jobs

VARIABLES
  jobs,      \* table research_jobs, with what the other tables hold of a job
  pc,        \* where an executor stands: the transaction it is about to run
  cur,       \* the job it executes
  att,       \* locals of execute_existing and poll_once
  needs,     \* run_forever: needs_recovery
  failures,  \* run_forever: consecutive database failures
  created,   \* number of rows inserted so far
  crashes,
  faults

vars == <<jobs, pc, cur, att, needs, failures, created, crashes, faults>>
loopVars == <<needs, failures>>

Statuses == {"absent", "queued", "running", "completed", "failed"}
Stages == {"received", "fetching_data", "planned", "agents", "rendering", "complete", "failed"}
Errors == {"none", "security_not_ready", "error"}

\* The transactions of poll_once and execute_existing, in program order.
Preparing == {"fetch", "gate", "begin", "plan"}
Running == {"run", "agents", "attach", "render", "save", "complete"}
Wrapping == {"stamp", "snapshot"}
Failing == {"fail", "failstage", "mark"}
Labels == {"down", "loop"} \cup Preparing \cup Running \cup Wrapping \cup Failing

Row == [status : Statuses, started : {"null", "fresh", "stale"}, finished : BOOLEAN,
        stage : Stages, code : Errors, sec : BOOLEAN,
        report : BOOLEAN, runs : Nat, snaps : Nat]
Attempt == [resolved : BOOLEAN, saved : Nat, err : Errors]

NoRow == [status |-> "absent", started |-> "null", finished |-> FALSE,
          stage |-> "received", code |-> "none", sec |-> FALSE,
          report |-> FALSE, runs |-> 0, snaps |-> 0]
NoAttempt == [resolved |-> FALSE, saved |-> 0, err |-> "none"]

TypeOK ==
  /\ jobs \in [Jobs -> Row]
  /\ pc \in [Executors -> Labels]
  /\ cur \in [Executors -> Jobs \cup {None}]
  /\ att \in [Executors -> Attempt]
  /\ needs \in [Workers -> BOOLEAN]
  /\ failures \in [Workers -> 0..(FailureLimit - 1)]
  /\ created \in 0..MaxJobs
  /\ crashes \in 0..MaxCrashes
  /\ faults \in 0..MaxFaults

Init ==
  /\ jobs = [j \in Jobs |-> NoRow]
  /\ pc = [e \in Executors |-> "down"]
  /\ cur = [e \in Executors |-> None]
  /\ att = [e \in Executors |-> NoAttempt]
  /\ needs = [w \in Workers |-> TRUE]
  /\ failures = [w \in Workers |-> 0]
  /\ created = 0
  /\ crashes = 0
  /\ faults = 0

-----------------------------------------------------------------------------
(* The statements on research_jobs and on the tables that hang off it.     *)

NewRow(sec) == [NoRow EXCEPT !.status = "queued", !.sec = sec]

\* set_job_status(job, "running"), and the update of claim_next.
SetRunning(r) ==
  [r EXCEPT !.status = "running", !.started = IF @ = "null" THEN "fresh" ELSE @]

SetTerminal(r, status) == [r EXCEPT !.status = status, !.finished = TRUE]
SetStage(r, stage) == [r EXCEPT !.stage = stage]

\* Mutation: a failed job is put back instead.
MarkRetried(r, code) == [r EXCEPT !.status = "queued", !.started = "null", !.code = code]

\* mark_failed.
MarkFailed(r, code) == [SetTerminal(r, "failed") EXCEPT !.code = code]

\* Mutations: recovery that ignores the age, or the status, of a row.
RequeueAnyRunning(r) == r.status = "running" /\ ~r.finished
RequeueAnyStale(r) == r.started = "stale" /\ r.status # "queued"

\* The where clause of requeue_stale_running_jobs.
Requeueable(r) == r.status = "running" /\ r.started = "stale" /\ ~r.finished
Requeue(r) == [r EXCEPT !.status = "queued", !.started = "null"]

Queued == {j \in Jobs : jobs[j].status = "queued"}

\* The outcome of a transaction that was to write row r of the executor's job.
Commit(e, r) == jobs' = [jobs EXCEPT ![cur[e]] = r] /\ UNCHANGED faults
Fault(e, r) ==
  /\ faults < MaxFaults
  /\ faults' = faults + 1
  /\ jobs' \in {jobs, [jobs EXCEPT ![cur[e]] = r]}

Goto(e, label) == pc' = [pc EXCEPT ![e] = label]

-----------------------------------------------------------------------------
(* Requests, processes and time.                                           *)

\* POST /v1/research/enqueue inserts a row with its security, event dispatch
\* one without; a worker executes either.
Enqueue(sec) ==
  /\ created < MaxJobs
  /\ created' = created + 1
  /\ jobs' = [jobs EXCEPT ![created + 1] = NewRow(sec)]
  /\ UNCHANGED <<pc, cur, att, loopVars, crashes, faults>>

\* POST /v1/research/run inserts a row, queued like any other, and executes it.
RunInline(h) ==
  /\ h \in Handlers /\ pc[h] = "down"
  /\ created < MaxJobs
  /\ created' = created + 1
  /\ jobs' = [jobs EXCEPT ![created + 1] = NewRow(FALSE)]
  /\ cur' = [cur EXCEPT ![h] = created + 1]
  /\ att' = [att EXCEPT ![h] = NoAttempt]
  /\ Goto(h, "begin")
  /\ UNCHANGED <<loopVars, crashes, faults>>

\* Mutation: a restarted worker does not recover.
StartWithoutRecovery(w) ==
  /\ w \in Workers /\ pc[w] = "down"
  /\ Goto(w, "loop")
  /\ needs' = [needs EXCEPT ![w] = FALSE]
  /\ failures' = [failures EXCEPT ![w] = 0]
  /\ UNCHANGED <<jobs, cur, att, created, crashes, faults>>

\* A worker process starts, or is restarted by its supervisor.
Start(w) ==
  /\ w \in Workers /\ pc[w] = "down"
  /\ Goto(w, "loop")
  /\ needs' = [needs EXCEPT ![w] = TRUE]
  /\ failures' = [failures EXCEPT ![w] = 0]
  /\ UNCHANGED <<jobs, cur, att, created, crashes, faults>>

\* A process dies, or a request is cancelled; its job keeps the row it has.
Crash(e) ==
  /\ crashes < MaxCrashes /\ pc[e] # "down"
  /\ crashes' = crashes + 1
  /\ Goto(e, "down")
  /\ cur' = [cur EXCEPT ![e] = None]
  /\ att' = [att EXCEPT ![e] = NoAttempt]
  /\ UNCHANGED <<jobs, loopVars, created, faults>>

\* The staleness window of a started job elapses.
Age(j) ==
  /\ jobs[j].started = "fresh"
  /\ Timely => \A e \in Executors : cur[e] # j
  /\ jobs' = [jobs EXCEPT ![j].started = "stale"]
  /\ UNCHANGED <<pc, cur, att, loopVars, created, crashes, faults>>

-----------------------------------------------------------------------------
(* run_forever.                                                            *)

\* Mutation: the limit is tested one failure late.
OutageOneLate(w) ==
  /\ cur' = [cur EXCEPT ![w] = None]
  /\ att' = [att EXCEPT ![w] = NoAttempt]
  /\ failures' = [failures EXCEPT ![w] = @ + 1]
  /\ needs' = [needs EXCEPT ![w] = TRUE]
  /\ Goto(w, IF failures[w] < FailureLimit THEN "loop" ELSE "down")

\* The except branch: count the failure, recover before the next poll, and
\* give the process up at the last failure in a row.
Outage(w) ==
  /\ cur' = [cur EXCEPT ![w] = None]
  /\ att' = [att EXCEPT ![w] = NoAttempt]
  /\ \/ /\ failures[w] + 1 < FailureLimit
        /\ failures' = [failures EXCEPT ![w] = @ + 1]
        /\ needs' = [needs EXCEPT ![w] = TRUE]
        /\ Goto(w, "loop")
     \/ /\ failures[w] + 1 = FailureLimit
        /\ failures' = [failures EXCEPT ![w] = 0]
        /\ needs' = [needs EXCEPT ![w] = TRUE]
        /\ Goto(w, "down")

\* Mutation: needs_recovery is never cleared.
RequeueForever(w) ==
  /\ w \in Workers /\ pc[w] = "loop" /\ needs[w]
  /\ jobs' = [j \in Jobs |-> IF Requeueable(jobs[j]) THEN Requeue(jobs[j]) ELSE jobs[j]]
  /\ UNCHANGED <<pc, cur, att, loopVars, created, crashes, faults>>

\* requeue_stale_running_jobs, once after a start or an outage.
RequeueStale(w) ==
  LET requeued == [j \in Jobs |-> IF Requeueable(jobs[j]) THEN Requeue(jobs[j]) ELSE jobs[j]]
  IN /\ w \in Workers /\ pc[w] = "loop" /\ needs[w]
     /\ \/ /\ jobs' = requeued
           /\ needs' = [needs EXCEPT ![w] = FALSE]
           /\ UNCHANGED <<pc, cur, att, failures, faults>>
        \/ /\ faults < MaxFaults /\ faults' = faults + 1
           /\ jobs' \in {jobs, requeued}
           /\ Outage(w)
     /\ UNCHANGED <<created, crashes>>

\* A row that another executor is writing, or claiming, is skipped.
SkipLocked(w, j) == \E e \in Executors \ {w} : cur[e] = j \/ pc[e] = "loop"

\* claim_next: the oldest queued row that is not locked.
ClaimNext(w) ==
  /\ w \in Workers /\ pc[w] = "loop" /\ ~needs[w]
  /\ \E j \in Queued :
       LET claimed == [jobs EXCEPT ![j] = SetRunning(@)]
       IN /\ \A i \in Queued : i < j => SkipLocked(w, i)
          /\ \/ /\ jobs' = claimed
                /\ cur' = [cur EXCEPT ![w] = j]
                /\ Goto(w, IF jobs[j].sec THEN "fetch" ELSE "begin")
                /\ UNCHANGED <<att, loopVars, faults>>
             \/ /\ faults < MaxFaults /\ faults' = faults + 1
                /\ jobs' \in {jobs, claimed}
                /\ Outage(w)
  /\ UNCHANGED <<created, crashes>>

\* Nothing to claim: the poll worked, so the failures are forgotten.
PollEmpty(w) ==
  /\ w \in Workers /\ pc[w] = "loop" /\ ~needs[w]
  /\ \A j \in Queued : SkipLocked(w, j)
  /\ failures' = [failures EXCEPT ![w] = 0]
  /\ UNCHANGED <<jobs, pc, cur, att, needs, created, crashes, faults>>

\* poll_once, or the request handler, is through with its job.
Release(e) ==
  /\ cur' = [cur EXCEPT ![e] = None]
  /\ att' = [att EXCEPT ![e] = NoAttempt]
  /\ Goto(e, IF e \in Workers THEN "loop" ELSE "down")
  /\ failures' = IF e \in Workers THEN [failures EXCEPT ![e] = 0] ELSE failures
  /\ UNCHANGED needs

\* An exception leaves execute_existing: a worker marks the job failed, a
\* handler answers 500.
Raise(e) ==
  \/ /\ e \in Workers
     /\ Goto(e, "mark")
     /\ att' = [att EXCEPT ![e].err = "error"]
     /\ UNCHANGED <<cur, loopVars>>
  \/ e \in Handlers /\ Release(e)

\* The next transaction of the same execution.
Proceed(e, label) == Goto(e, label) /\ UNCHANGED <<cur, att, loopVars>>

-----------------------------------------------------------------------------
(* poll_once, before execute_existing.                                     *)

\* A transaction at `at` that writes row r, then goes to `next`; its failure
\* is an exception outside execute_existing's try.
Step(e, at, r, next) ==
  /\ pc[e] = at
  /\ \/ Commit(e, r) /\ Proceed(e, next)
     \/ Fault(e, r) /\ Raise(e)
  /\ UNCHANGED <<created, crashes>>

FetchingData(e) == Step(e, "fetch", SetStage(jobs[cur[e]], "fetching_data"), "gate")

\* Mutation: a job that is not ready is dropped without a mark.
GateDrops(e) ==
  /\ pc[e] = "gate"
  /\ Proceed(e, "begin") \/ Release(e)
  /\ UNCHANGED <<jobs, created, crashes, faults>>

\* prepare_security_bundle and enforce_security_research_ready.
Gate(e) ==
  /\ pc[e] = "gate"
  /\ \/ Proceed(e, "begin")
     \/ /\ Goto(e, "mark")
        /\ \E err \in {"security_not_ready", "error"} : att' = [att EXCEPT ![e].err = err]
        /\ UNCHANGED <<cur, loopVars>>
  /\ UNCHANGED <<jobs, created, crashes, faults>>

Begin(e) == Step(e, "begin", SetRunning(jobs[cur[e]]), "plan")
Planned(e) == Step(e, "plan", SetStage(jobs[cur[e]], "planned"), "run")

-----------------------------------------------------------------------------
(* execute_existing, inside its try: a failure leads to the except branch. *)

Try(e, at, r, next) ==
  /\ pc[e] = at
  /\ \/ Commit(e, r) /\ Proceed(e, next)
     \/ Fault(e, r) /\ Proceed(e, "fail")
  /\ UNCHANGED <<created, crashes>>

\* The runtime's stages, resolving to synthesizing, shown as one.
RunAgents(e) == Try(e, "run", SetStage(jobs[cur[e]], "agents"), "agents")

\* runtime.run returns, having resolved the security or not, or raises.
AgentsReturn(e) ==
  /\ pc[e] = "agents"
  /\ \/ \E resolved \in BOOLEAN :
          /\ att' = [att EXCEPT ![e].resolved = resolved]
          /\ Goto(e, IF resolved THEN "attach" ELSE "render")
          /\ UNCHANGED <<cur, loopVars>>
     \/ Proceed(e, "fail")
  /\ UNCHANGED <<jobs, created, crashes, faults>>

AttachSecurity(e) == Try(e, "attach", [jobs[cur[e]] EXCEPT !.sec = TRUE], "render")
Rendering(e) == Try(e, "render", SetStage(jobs[cur[e]], "rendering"), "save")

\* save_agent_output, once for every output.
SaveOutput(e) ==
  /\ pc[e] = "save" /\ att[e].saved < Outputs
  /\ LET r == [jobs[cur[e]] EXCEPT !.runs = @ + 1]
     IN \/ /\ Commit(e, r)
           /\ att' = [att EXCEPT ![e].saved = @ + 1]
           /\ UNCHANGED <<pc, cur, loopVars>>
        \/ Fault(e, r) /\ Proceed(e, "fail")
  /\ UNCHANGED <<created, crashes>>

\* Mutation: the report is saved before the outputs are.
SaveReportEarly(e) ==
  Try(e, "save", [jobs[cur[e]] EXCEPT !.report = TRUE], "complete")

\* All outputs saved, the report is next.
SaveReport(e) ==
  /\ att[e].saved = Outputs
  /\ Try(e, "save", [jobs[cur[e]] EXCEPT !.report = TRUE], "complete")

Complete(e) == Try(e, "complete", SetTerminal(jobs[cur[e]], "completed"), "stamp")

\* set_stage("complete", 100); without a resolved security there is no snapshot.
Stamp(e) ==
  /\ pc[e] = "stamp"
  /\ LET r == SetStage(jobs[cur[e]], "complete")
     IN \/ Commit(e, r) /\ IF att[e].resolved THEN Proceed(e, "snapshot") ELSE Release(e)
        \/ Fault(e, r) /\ Proceed(e, "fail")
  /\ UNCHANGED <<created, crashes>>

\* _save_snapshot: the snapshot and its alert, in one transaction.
SaveSnapshot(e) ==
  /\ pc[e] = "snapshot"
  /\ LET r == [jobs[cur[e]] EXCEPT !.snaps = @ + 1]
     IN \/ Commit(e, r) /\ Release(e)
        \/ Fault(e, r) /\ Proceed(e, "fail")
  /\ UNCHANGED <<created, crashes>>

\* The except branch, which re-raises whatever its own writes do.
SetFailed(e) == Step(e, "fail", SetTerminal(jobs[cur[e]], "failed"), "failstage")

SetFailedStage(e) ==
  /\ pc[e] = "failstage"
  /\ LET r == SetStage(jobs[cur[e]], "failed")
     IN Commit(e, r) \/ Fault(e, r)
  /\ Raise(e)
  /\ UNCHANGED <<created, crashes>>

\* mark_failed, from poll_once's except branches.
Mark(e) ==
  /\ pc[e] = "mark"
  /\ LET r == MarkFailed(jobs[cur[e]], att[e].err)
     IN \/ Commit(e, r) /\ Release(e)
        \/ Fault(e, r) /\ Outage(e)
  /\ UNCHANGED <<created, crashes>>

-----------------------------------------------------------------------------
Poll(w) == RequeueStale(w) \/ ClaimNext(w) \/ PollEmpty(w)

Execute(e) ==
  \/ FetchingData(e) \/ Gate(e) \/ Begin(e) \/ Planned(e)
  \/ RunAgents(e) \/ AgentsReturn(e) \/ AttachSecurity(e) \/ Rendering(e)
  \/ SaveOutput(e) \/ SaveReport(e) \/ Complete(e) \/ Stamp(e) \/ SaveSnapshot(e)
  \/ SetFailed(e) \/ SetFailedStage(e) \/ Mark(e)

Next ==
  \/ \E sec \in BOOLEAN : Enqueue(sec)
  \/ \E h \in Handlers : RunInline(h)
  \/ \E w \in Workers : Start(w) \/ Poll(w)
  \/ \E e \in Executors : Execute(e) \/ Crash(e)
  \/ \E j \in Jobs : Age(j)

Spec == Init /\ [][Next]_vars

\* Workers are restarted (restart: unless-stopped), every await returns (fetches
\* and agents run under timeouts), and a row lock lasts one transaction, so a
\* poll does not skip a queued row for ever.
FairSpec ==
  /\ Spec
  /\ \A w \in Workers : WF_vars(Start(w)) /\ WF_vars(RequeueStale(w)) /\ WF_vars(ClaimNext(w))
  /\ \A e \in Executors : WF_vars(Execute(e))

-----------------------------------------------------------------------------
Terminal == {"completed", "failed"}

\* No job is executed by two executors at once: its agents, and what they
\* spend, run once.  Claiming and recovery must never hand out a job that is
\* still being executed.
ExecutedOnce ==
  \A e, f \in Executors : e # f /\ cur[e] # None => cur[e] # cur[f]

\* A job shown as completed (by its status, its stage or a snapshot) has its
\* report and every output of an attempt, whichever executors, crashes and lost
\* acknowledgements it went through.
CompletedIsWhole ==
  \A j \in Jobs :
    jobs[j].status = "completed" \/ jobs[j].stage = "complete" \/ jobs[j].snaps > 0
      => jobs[j].report /\ jobs[j].runs >= Outputs

\* A retried job leaves one monitoring snapshot (and so one alert) at most:
\* snapshots are plain inserts, and only the order of the writes keeps a
\* second attempt from adding another.
SnapshotOnce == \A j \in Jobs : jobs[j].snaps <= 1

\* A running job has no completed_at, which recovery demands of the jobs it
\* requeues: a crash never leaves a job that no recovery will pick up.
RunningIsRecoverable ==
  \A j \in Jobs : jobs[j].status = "running" => ~jobs[j].finished

\* A finished job is never queued or executed again, and a failed one never
\* turns into a completed one.
TerminalStays ==
  [][\A j \in Jobs :
       /\ jobs[j].status \in Terminal => jobs'[j].status \in Terminal
       /\ jobs[j].status = "failed" => jobs'[j].status = "failed"]_vars

\* The queue implements ResearchJob.
Lifecycle == INSTANCE ResearchJob WITH
  phase <- [j \in Jobs |-> jobs[j].status],
  published <- [j \in Jobs |-> jobs[j].report],
  alerts <- [j \in Jobs |-> jobs[j].snaps]

\* One attempt at a time, retries of unfinished attempts only, a report before
\* completion and one alert: the lifecycle ResearchJob gives a job, step by step.
ImplementsLifecycle == Lifecycle!JobSpec

\* Every queued job is claimed, across crashes, restarts and outages.
QueuedIsClaimed ==
  \A j \in Jobs : jobs[j].status = "queued" ~> jobs[j].status # "queued"

\* A worker that is down while a job is running and stale, as a crashed execution
\* leaves it, requeues the job when it is back, unless it has ended by then.
RestartRecovers ==
  \A w \in Workers, j \in Jobs :
    (pc[w] = "down" /\ jobs[j].started = "stale" /\ jobs[j].status = "running"
       /\ ~jobs[j].finished)
      ~> jobs[j].status # "running" \/ jobs[j].finished

\* Unless a process crashes or a transaction fails on the way, every job
\* settles, whatever the agents and the readiness gate do.
JobSettles ==
  \A j \in Jobs :
    jobs[j].status = "queued" ~> jobs[j].status \in Terminal \/ crashes + faults > 0

\* What config.py says of max_research_job_seconds: a job whose worker crashed
\* is requeued once the staleness window is over.
StaleIsRequeued ==
  \A j \in Jobs :
    (jobs[j].status = "running" /\ jobs[j].started = "stale") ~> jobs[j].status # "running"
=============================================================================
