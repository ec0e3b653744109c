-------------------------- MODULE ResearchQueueProofs --------------------------
(* What ResearchQueue is proved to do for every number of executors, jobs,    *)
(* crashes and faults, in two parts: the types, and the safety of the cases   *)
(* in which a job has one executor at a time.                                 *)
EXTENDS ResearchQueue, TLAPS

(* Type correctness of ResearchQueue, for every number of executors, jobs,    *)
(* crashes and faults.                                                        *)

\* A row stays a row under every statement of the queue.
LEMMA RowTypes ==
  ASSUME NEW r \in Row
  PROVE  /\ SetRunning(r) \in Row
         /\ Requeue(r) \in Row
         /\ [r EXCEPT !.sec = TRUE] \in Row
         /\ [r EXCEPT !.report = TRUE] \in Row
         /\ [r EXCEPT !.runs = @ + 1] \in Row
         /\ [r EXCEPT !.snaps = @ + 1] \in Row
         /\ [r EXCEPT !.started = "stale"] \in Row
         /\ \A s \in Stages : SetStage(r, s) \in Row
         /\ \A s \in {"completed", "failed"} : SetTerminal(r, s) \in Row
         /\ \A c \in Errors : MarkFailed(r, c) \in Row
<1>1. SetRunning(r) \in Row
  BY DEF Row, Statuses, SetRunning
<1>2. Requeue(r) \in Row
  BY DEF Row, Statuses, Requeue
<1>3. [r EXCEPT !.sec = TRUE] \in Row
  BY DEF Row
<1>4. [r EXCEPT !.report = TRUE] \in Row
  BY DEF Row
<1>5. [r EXCEPT !.runs = @ + 1] \in Row
  BY DEF Row
<1>6. [r EXCEPT !.snaps = @ + 1] \in Row
  BY DEF Row
<1>7. [r EXCEPT !.started = "stale"] \in Row
  BY DEF Row
<1>8. ASSUME NEW s \in Stages PROVE SetStage(r, s) \in Row
  BY DEF Row, SetStage
<1>9. ASSUME NEW s \in {"completed", "failed"} PROVE SetTerminal(r, s) \in Row
  BY DEF Row, Statuses, SetTerminal
<1>10. ASSUME NEW c \in Errors PROVE MarkFailed(r, c) \in Row
  <2>1. SetTerminal(r, "failed") \in Row
    BY <1>9
  <2> QED
    BY <2>1 DEF Row, MarkFailed
<1> QED
  BY <1>1, <1>2, <1>3, <1>4, <1>5, <1>6, <1>7, <1>8, <1>9, <1>10

LEMMA NewRowType == ASSUME NEW sec \in BOOLEAN PROVE NewRow(sec) \in Row
BY DEF NewRow, NoRow, Row, Statuses, Stages, Errors

\* The labels at which an executor has a job.
Busy == Preparing \cup Running \cup Wrapping \cup Failing

\* The labels of poll_once and run_forever alone.
WorkersOnly == {"loop", "fetch", "gate", "mark"}

\* An executor has a job exactly while it executes.
Seated ==
  \A e \in Executors :
    /\ pc[e] \in Busy <=> cur[e] # None
    /\ pc[e] \in WorkersOnly => e \in Workers

\* Rows not yet inserted are untouched, and nobody has them.
Unborn ==
  \A j \in Jobs : j > created =>
    /\ jobs[j] = NoRow
    /\ \A e \in Executors : cur[e] # j

\* TypeOK in two parts: the executors, and the rows with the counters.
Control ==
  /\ pc \in [Executors -> Labels]
  /\ cur \in [Executors -> Jobs \cup {None}]
  /\ att \in [Executors -> Attempt]
  /\ needs \in [Workers -> BOOLEAN]
  /\ failures \in [Workers -> 0..(FailureLimit - 1)]
  /\ Seated

Data ==
  /\ jobs \in [Jobs -> Row]
  /\ created \in 0..MaxJobs
  /\ crashes \in 0..MaxCrashes
  /\ faults \in 0..MaxFaults

TInv == Control /\ Data /\ Unborn

LEMMA TInvInit == Init => TInv
<1> SUFFICES ASSUME Init PROVE TInv
  OBVIOUS
<1>1. NoRow \in Row /\ NoAttempt \in Attempt
  BY DEF NoRow, Row, NoAttempt, Attempt, Statuses, Stages, Errors
<1>2. Seated
  BY DEF Init, Seated, WorkersOnly, Busy, Preparing, Running, Wrapping, Failing
<1>3. Control
  BY <1>1, <1>2, QueueAssumption DEF Init, Control, Labels
<1>4. Data
  BY <1>1, QueueAssumption DEF Init, Data
<1>5. Unborn
  BY QueueAssumption DEF Init, Unborn, Jobs
<1> QED
  BY <1>3, <1>4, <1>5 DEF TInv

-----------------------------------------------------------------------------
\* A busy executor has a row that exists.
LEMMA BusyJob ==
  ASSUME TInv, NEW e \in Executors, pc[e] \in Busy
  PROVE  /\ cur[e] \in Jobs
         /\ cur[e] \in 1..created
         /\ jobs[cur[e]] \in Row
<1>1. cur[e] \in Jobs
  BY DEF TInv, Control, Seated
<1>2. ~(cur[e] > created)
  BY <1>1 DEF TInv, Unborn
<1> QED
  BY <1>1, <1>2 DEF TInv, Data, Jobs

\* A transaction of a busy executor, acknowledged or not, writes its own row or
\* none.
LEMMA WriteStep ==
  ASSUME TInv, NEW e \in Executors, pc[e] \in Busy, NEW r \in Row,
         Commit(e, r) \/ Fault(e, r)
  PROVE  /\ jobs' \in [Jobs -> Row]
         /\ faults' \in 0..MaxFaults
         /\ \A j \in Jobs : jobs'[j] = jobs[j] \/ (j = cur[e] /\ jobs'[j] = r)
         /\ \A j \in Jobs : j > created => jobs'[j] = NoRow
<1>1. cur[e] \in Jobs /\ cur[e] \in 1..created
  BY BusyJob
<1>2. jobs \in [Jobs -> Row] /\ faults \in 0..MaxFaults /\ created \in 0..MaxJobs
  BY DEF TInv, Data
<1>3. faults' \in 0..MaxFaults
  BY <1>2, QueueAssumption DEF Commit, Fault
<1>4. jobs' = jobs \/ jobs' = [jobs EXCEPT ![cur[e]] = r]
  BY DEF Commit, Fault
<1>5. /\ jobs' \in [Jobs -> Row]
      /\ \A j \in Jobs : jobs'[j] = jobs[j] \/ (j = cur[e] /\ jobs'[j] = r)
  BY <1>1, <1>2, <1>4
<1>6. \A j \in Jobs : j > created => jobs'[j] = NoRow
  BY <1>1, <1>2, <1>5 DEF TInv, Unborn, Jobs
<1> QED
  BY <1>3, <1>5, <1>6

\* The ways an executor moves on keep Control and give it no new job.
LEMMA ProceedStep ==
  ASSUME TInv, NEW e \in Executors, pc[e] \in Busy,
         NEW label \in Busy, label \in WorkersOnly => e \in Workers, Proceed(e, label)
  PROVE  Control' /\ cur' = cur
<1>1. label \in Labels
  BY DEF Labels, Busy, Preparing, Running, Wrapping, Failing
<1> QED
  BY <1>1 DEF Proceed, Goto, loopVars, TInv, Control, Seated

LEMMA ReleaseStep ==
  ASSUME TInv, NEW e \in Executors, Release(e)
  PROVE  Control' /\ \A f \in Executors : cur'[f] \in {cur[f], None}
<1>1. NoAttempt \in Attempt
  BY DEF NoAttempt, Attempt, Errors
<1>2. pc' = [pc EXCEPT ![e] = IF e \in Workers THEN "loop" ELSE "down"]
  BY DEF Release, Goto
<1>3. /\ {"loop", "down"} \subseteq Labels
      /\ "loop" \notin Busy /\ "down" \notin Busy /\ "down" \notin WorkersOnly
  BY DEF Labels, WorkersOnly, Busy, Preparing, Running, Wrapping, Failing
<1>4. Seated'
  BY <1>2, <1>3 DEF Release, TInv, Control, Seated
<1>5. failures' \in [Workers -> 0..(FailureLimit - 1)]
  BY QueueAssumption DEF Release, TInv, Control
<1> QED
  BY <1>1, <1>2, <1>3, <1>4, <1>5 DEF Release, TInv, Control

LEMMA RaiseStep ==
  ASSUME TInv, NEW e \in Executors, pc[e] \in Busy, Raise(e)
  PROVE  Control' /\ \A f \in Executors : cur'[f] \in {cur[f], None}
<1>1. CASE e \in Workers /\ Goto(e, "mark") /\ att' = [att EXCEPT ![e].err = "error"]
           /\ UNCHANGED <<cur, loopVars>>
  <2>1. "mark" \in Labels /\ "mark" \in Busy
    BY DEF Labels, Busy, Preparing, Running, Wrapping, Failing
  <2>2. [att[e] EXCEPT !.err = "error"] \in Attempt
    BY DEF TInv, Control, Attempt, Errors
  <2>3. Seated'
    BY <1>1, <2>1 DEF Goto, TInv, Control, Seated
  <2> QED
    BY <1>1, <2>1, <2>2, <2>3 DEF Goto, loopVars, TInv, Control
<1>2. CASE e \in Handlers /\ Release(e)
  BY <1>2, ReleaseStep
<1> QED
  BY <1>1, <1>2 DEF Raise

LEMMA OutageStep ==
  ASSUME TInv, NEW e \in Workers, Outage(e)
  PROVE  Control' /\ \A f \in Executors : cur'[f] \in {cur[f], None}
<1>1. NoAttempt \in Attempt
  BY DEF NoAttempt, Attempt, Errors
<1>2. PICK label \in {"loop", "down"} : pc' = [pc EXCEPT ![e] = label]
  BY DEF Outage, Goto
<1>3. label \in Labels /\ label \notin Busy /\ e \in Executors
  BY DEF Labels, Busy, Preparing, Running, Wrapping, Failing, Executors
<1>4. Seated'
  BY <1>2, <1>3 DEF Outage, TInv, Control, Seated
<1>5. failures' \in [Workers -> 0..(FailureLimit - 1)]
  BY QueueAssumption DEF Outage, TInv, Control
<1> QED
  BY <1>1, <1>2, <1>3, <1>4, <1>5 DEF Outage, TInv, Control

\* With its row in Row and no new job, such a step keeps the type invariant.
LEMMA WriteKeepsType ==
  ASSUME TInv, NEW e \in Executors, pc[e] \in Busy, NEW r \in Row,
         Commit(e, r) \/ Fault(e, r),
         Control', \A f \in Executors : cur'[f] \in {cur[f], None},
         UNCHANGED <<created, crashes>>
  PROVE  TInv'
<1>1. /\ jobs' \in [Jobs -> Row]
      /\ faults' \in 0..MaxFaults
      /\ \A j \in Jobs : j > created => jobs'[j] = NoRow
  BY WriteStep
<1>2. Data'
  BY <1>1 DEF TInv, Data
<1>3. Unborn'
  BY <1>1, QueueAssumption DEF TInv, Unborn
<1> QED
  BY <1>2, <1>3 DEF TInv
\* The three shapes execute_existing is made of.
LEMMA StepType ==
  ASSUME TInv, NEW e \in Executors, NEW at \in Busy, NEW r \in Row,
         NEW next \in Busy, next \in WorkersOnly => at \in WorkersOnly,
         Step(e, at, r, next)
  PROVE  TInv'
<1>1. pc[e] \in Busy /\ (Commit(e, r) \/ Fault(e, r)) /\ UNCHANGED <<created, crashes>>
  BY DEF Step
<1>2. CASE Proceed(e, next)
  <2>1. next \in WorkersOnly => e \in Workers
    BY DEF Step, TInv, Control, Seated
  <2> QED
    BY <1>1, <1>2, <2>1, ProceedStep, WriteKeepsType
<1>3. CASE Raise(e)
  BY <1>1, <1>3, RaiseStep, WriteKeepsType
<1> QED
  BY <1>2, <1>3 DEF Step

LEMMA TryType ==
  ASSUME TInv, NEW e \in Executors, NEW at \in Busy, NEW r \in Row,
         NEW next \in Busy \ WorkersOnly, Try(e, at, r, next)
  PROVE  TInv'
<1>1. pc[e] \in Busy /\ (Commit(e, r) \/ Fault(e, r)) /\ UNCHANGED <<created, crashes>>
  BY DEF Try
<1>2. "fail" \in Busy \ WorkersOnly
  BY DEF Busy, Failing, WorkersOnly
<1> QED
  BY <1>1, <1>2, ProceedStep, WriteKeepsType DEF Try

\* A step that leaves the rows alone.
LEMMA QuietKeepsType ==
  ASSUME TInv, Control', \A f \in Executors : cur'[f] \in {cur[f], None},
         UNCHANGED <<jobs, created>>, crashes' \in 0..MaxCrashes, faults' \in 0..MaxFaults
  PROVE  TInv'
<1>1. Data'
  BY DEF TInv, Data
<1>2. Unborn'
  BY QueueAssumption DEF TInv, Unborn
<1> QED
  BY <1>1, <1>2 DEF TInv

-----------------------------------------------------------------------------
LEMMA ExecuteType == ASSUME TInv, NEW e \in Executors, Execute(e) PROVE TInv'
<1> DEFINE row == jobs[cur[e]]
<1> USE DEF Busy, Preparing, Running, Wrapping, Failing, WorkersOnly
<1>0. ASSUME pc[e] \in Busy
      PROVE  /\ row \in Row
             /\ \A s \in Stages : SetStage(row, s) \in Row
             /\ \A s \in {"completed", "failed"} : SetTerminal(row, s) \in Row
             /\ \A c \in Errors : MarkFailed(row, c) \in Row
             /\ SetRunning(row) \in Row
             /\ [row EXCEPT !.sec = TRUE] \in Row
             /\ [row EXCEPT !.report = TRUE] \in Row
             /\ [row EXCEPT !.runs = @ + 1] \in Row
             /\ [row EXCEPT !.snaps = @ + 1] \in Row
  <2>1. row \in Row
    BY <1>0, BusyJob
  <2> HIDE DEF row
  <2> QED
    BY <2>1, RowTypes
<1> HIDE DEF row
<1>1. CASE FetchingData(e)
  <2>1. pc[e] \in Busy /\ Step(e, "fetch", SetStage(row, "fetching_data"), "gate")
    BY <1>1 DEF FetchingData, Step, row
  <2> QED
    BY <2>1, <1>0, StepType DEF Stages
<1>2. CASE Gate(e)
  <2>1. CASE Proceed(e, "begin")
    BY <1>2, <2>1, ProceedStep, QuietKeepsType DEF Gate, TInv, Data
  <2>2. ASSUME NEW err \in {"security_not_ready", "error"}, Goto(e, "mark"),
               att' = [att EXCEPT ![e].err = err], UNCHANGED <<cur, loopVars>>,
               e \in Workers
        PROVE  Control'
    <3>1. [att[e] EXCEPT !.err = err] \in Attempt /\ "mark" \in Labels
      BY DEF TInv, Control, Attempt, Errors, Labels
    <3>2. Seated'
      BY <1>2, <2>2 DEF Gate, Goto, TInv, Control, Seated
    <3> QED
      BY <2>2, <3>1, <3>2 DEF Goto, loopVars, TInv, Control
  <2>3. e \in Workers
    BY <1>2 DEF Gate, TInv, Control, Seated
  <2>4. CASE ~Proceed(e, "begin")
    <3>1. Control' /\ UNCHANGED <<cur, jobs, created, crashes, faults>>
      BY <1>2, <2>2, <2>3, <2>4 DEF Gate
    <3> QED
      BY <3>1, QuietKeepsType DEF TInv, Data
  <2> QED
    BY <2>1, <2>4
<1>3. CASE Begin(e)
  <2>1. pc[e] \in Busy /\ Step(e, "begin", SetRunning(row), "plan")
    BY <1>3 DEF Begin, Step, row
  <2> QED
    BY <2>1, <1>0, StepType
<1>4. CASE Planned(e)
  <2>1. pc[e] \in Busy /\ Step(e, "plan", SetStage(row, "planned"), "run")
    BY <1>4 DEF Planned, Step, row
  <2> QED
    BY <2>1, <1>0, StepType DEF Stages
<1>5. CASE RunAgents(e)
  <2>1. pc[e] \in Busy /\ Try(e, "run", SetStage(row, "agents"), "agents")
    BY <1>5 DEF RunAgents, Try, row
  <2> QED
    BY <2>1, <1>0, TryType DEF Stages
<1>6. CASE AgentsReturn(e)
  <2>1. CASE Proceed(e, "fail")
    BY <1>6, <2>1, ProceedStep, QuietKeepsType DEF AgentsReturn, TInv, Data
  <2>2. ASSUME NEW resolved \in BOOLEAN, UNCHANGED <<cur, loopVars>>,
               att' = [att EXCEPT ![e].resolved = resolved],
               Goto(e, IF resolved THEN "attach" ELSE "render")
        PROVE  Control'
    <3>1. [att[e] EXCEPT !.resolved = resolved] \in Attempt
      BY DEF TInv, Control, Attempt
    <3>2. Seated' /\ pc' \in [Executors -> Labels]
      BY <1>6, <2>2 DEF AgentsReturn, Goto, TInv, Control, Seated, Labels
    <3> QED
      BY <2>2, <3>1, <3>2 DEF loopVars, TInv, Control
  <2> QED
    BY <1>6, <2>1, <2>2, QuietKeepsType DEF AgentsReturn, TInv, Data
<1>7. CASE AttachSecurity(e)
  <2>1. pc[e] \in Busy /\ Try(e, "attach", [row EXCEPT !.sec = TRUE], "render")
    BY <1>7 DEF AttachSecurity, Try, row
  <2> QED
    BY <2>1, <1>0, TryType
<1>8. CASE Rendering(e)
  <2>1. pc[e] \in Busy /\ Try(e, "render", SetStage(row, "rendering"), "save")
    BY <1>8 DEF Rendering, Try, row
  <2> QED
    BY <2>1, <1>0, TryType DEF Stages
<1>9. CASE SaveOutput(e)
  <2> DEFINE r == [row EXCEPT !.runs = @ + 1]
  <2>1. pc[e] \in Busy /\ r \in Row
    BY <1>9, <1>0 DEF SaveOutput
  <2>2. CASE Commit(e, r) /\ att' = [att EXCEPT ![e].saved = @ + 1] /\ UNCHANGED <<pc, cur, loopVars>>
    <3>1. [att[e] EXCEPT !.saved = @ + 1] \in Attempt
      BY DEF TInv, Control, Attempt
    <3>2. Control'
      BY <2>2, <3>1 DEF loopVars, TInv, Control, Seated
    <3> QED
      BY <1>9, <2>1, <2>2, <3>2, WriteKeepsType DEF SaveOutput
  <2>3. CASE Fault(e, r) /\ Proceed(e, "fail")
    BY <1>9, <2>1, <2>3, ProceedStep, WriteKeepsType DEF SaveOutput
  <2> QED
    BY <1>9, <2>2, <2>3 DEF SaveOutput, row
<1>10. CASE SaveReport(e)
  <2>1. pc[e] \in Busy /\ Try(e, "save", [row EXCEPT !.report = TRUE], "complete")
    BY <1>10 DEF SaveReport, Try, row
  <2> QED
    BY <2>1, <1>0, TryType
<1>11. CASE Complete(e)
  <2>1. pc[e] \in Busy /\ Try(e, "complete", SetTerminal(row, "completed"), "stamp")
    BY <1>11 DEF Complete, Try, row
  <2> QED
    BY <2>1, <1>0, TryType
<1>12. CASE Stamp(e)
  <2> DEFINE r == SetStage(row, "complete")
  <2>1. /\ pc[e] \in Busy /\ r \in Row
        /\ Commit(e, r) \/ Fault(e, r)
        /\ Proceed(e, "snapshot") \/ Release(e) \/ Proceed(e, "fail")
    BY <1>12, <1>0 DEF Stamp, row, Stages
  <2> HIDE DEF r
  <2> QED
    BY <1>12, <2>1, ProceedStep, ReleaseStep, WriteKeepsType DEF Stamp
<1>13. CASE SaveSnapshot(e)
  <2> DEFINE r == [row EXCEPT !.snaps = @ + 1]
  <2>1. /\ pc[e] \in Busy /\ r \in Row
        /\ Commit(e, r) \/ Fault(e, r)
        /\ Release(e) \/ Proceed(e, "fail")
    BY <1>13, <1>0 DEF SaveSnapshot, row
  <2> HIDE DEF r
  <2> QED
    BY <1>13, <2>1, ProceedStep, ReleaseStep, WriteKeepsType DEF SaveSnapshot
<1>14. CASE SetFailed(e)
  <2>1. pc[e] \in Busy /\ Step(e, "fail", SetTerminal(row, "failed"), "failstage")
    BY <1>14 DEF SetFailed, Step, row
  <2> QED
    BY <2>1, <1>0, StepType
<1>15. CASE SetFailedStage(e)
  <2>1. pc[e] \in Busy /\ Raise(e)
    BY <1>15 DEF SetFailedStage
  <2>2. /\ SetStage(row, "failed") \in Row
        /\ Commit(e, SetStage(row, "failed")) \/ Fault(e, SetStage(row, "failed"))
    BY <1>15, <1>0 DEF SetFailedStage, row, Stages
  <2> QED
    BY <1>15, <2>1, <2>2, RaiseStep, WriteKeepsType DEF SetFailedStage
<1>16. CASE Mark(e)
  <2> DEFINE r == MarkFailed(row, att[e].err)
  <2>1. pc[e] \in Busy /\ e \in Workers /\ att[e].err \in Errors
    BY <1>16 DEF Mark, TInv, Control, Seated, Attempt
  <2>2. /\ r \in Row
        /\ Commit(e, r) \/ Fault(e, r)
        /\ Release(e) \/ Outage(e)
    BY <1>16, <1>0, <2>1 DEF Mark, row
  <2> HIDE DEF r
  <2> QED
    BY <1>16, <2>1, <2>2, ReleaseStep, OutageStep, WriteKeepsType DEF Mark
<1> QED
  BY <1>1, <1>2, <1>3, <1>4, <1>5, <1>6, <1>7, <1>8, <1>9, <1>10, <1>11, <1>12,
     <1>13, <1>14, <1>15, <1>16 DEF Execute
LEMMA PollType == ASSUME TInv, NEW w \in Workers, Poll(w) PROVE TInv'
<1>0. w \in Executors /\ "loop" \notin Busy
  BY DEF Executors, Busy, Preparing, Running, Wrapping, Failing
<1>1. CASE RequeueStale(w)
  <2> DEFINE requeued == [j \in Jobs |-> IF Requeueable(jobs[j]) THEN Requeue(jobs[j]) ELSE jobs[j]]
  <2>1. requeued \in [Jobs -> Row]
    BY RowTypes DEF TInv, Data
  <2>2. \A j \in Jobs : j > created => requeued[j] = NoRow
    BY DEF TInv, Unborn, Requeueable, NoRow
  <2>3. /\ jobs' \in {jobs, requeued}
        /\ faults' \in 0..MaxFaults
        /\ UNCHANGED <<created, crashes>>
    BY <1>1, QueueAssumption DEF RequeueStale, TInv, Data
  <2>4. Control' /\ \A f \in Executors : cur'[f] \in {cur[f], None}
    <3>1. CASE Outage(w)
      BY <3>1, OutageStep
    <3>2. CASE needs' = [needs EXCEPT ![w] = FALSE] /\ UNCHANGED <<pc, cur, att, failures>>
      BY <3>2 DEF TInv, Control, Seated
    <3> QED
      BY <1>1, <3>1, <3>2 DEF RequeueStale
  <2> HIDE DEF requeued
  <2>5. Data'
    BY <2>1, <2>3 DEF TInv, Data
  <2>6. Unborn'
    BY <2>2, <2>3, <2>4, QueueAssumption DEF TInv, Unborn
  <2> QED
    BY <2>4, <2>5, <2>6 DEF TInv
<1>2. CASE ClaimNext(w)
  <2>1. PICK j \in Queued :
          LET claimed == [jobs EXCEPT ![j] = SetRunning(@)]
          IN \/ /\ jobs' = claimed
                /\ cur' = [cur EXCEPT ![w] = j]
                /\ Goto(w, IF jobs[j].sec THEN "fetch" ELSE "begin")
                /\ UNCHANGED <<att, loopVars, faults>>
             \/ /\ faults < MaxFaults /\ faults' = faults + 1
                /\ jobs' \in {jobs, claimed}
                /\ Outage(w)
    BY <1>2 DEF ClaimNext
  <2>2. j \in Jobs /\ ~(j > created) /\ j # None
    BY QueueAssumption DEF Queued, TInv, Unborn, NoRow
  <2>3. SetRunning(jobs[j]) \in Row
    BY <2>2, RowTypes DEF TInv, Data
  <2>4. jobs' \in {jobs, [jobs EXCEPT ![j] = SetRunning(jobs[j])]}
    BY <2>1
  <2>5. /\ UNCHANGED <<created, crashes>>
        /\ faults' \in 0..MaxFaults
    BY <1>2, <2>1, QueueAssumption DEF ClaimNext, TInv, Data
  <2>6. Data'
    BY <2>2, <2>3, <2>4, <2>5 DEF TInv, Data
  <2>7. Control' /\ \A f \in Executors : cur'[f] \in {cur[f], j, None}
    <3>1. CASE Outage(w)
      BY <3>1, OutageStep
    <3>2. CASE /\ cur' = [cur EXCEPT ![w] = j]
               /\ Goto(w, IF jobs[j].sec THEN "fetch" ELSE "begin")
               /\ UNCHANGED <<att, loopVars>>
      <4>1. PICK label \in {"fetch", "begin"} : pc' = [pc EXCEPT ![w] = label]
        BY <3>2 DEF Goto
      <4>2. label \in Labels /\ label \in Busy
        BY DEF Labels, Busy, Preparing
      <4> QED
        BY <1>0, <2>2, <3>2, <4>1, <4>2 DEF loopVars, TInv, Control, Seated
    <3> QED
      BY <2>1, <3>1, <3>2
  <2>8. Unborn'
    <3> SUFFICES ASSUME NEW i \in Jobs, i > created
                 PROVE  jobs'[i] = NoRow /\ \A f \in Executors : cur'[f] # i
      BY <2>5 DEF Unborn
    <3>1. i # j /\ i # None /\ jobs[i] = NoRow /\ \A f \in Executors : cur[f] # i
      BY <2>2, QueueAssumption DEF TInv, Unborn
    <3>2. jobs'[i] = NoRow
      BY <2>4, <3>1 DEF TInv, Data
    <3> QED
      BY <2>7, <3>1, <3>2
  <2> QED
    BY <2>6, <2>7, <2>8 DEF TInv
<1>3. CASE PollEmpty(w)
  <2>1. Control'
    BY <1>3, QueueAssumption DEF PollEmpty, TInv, Control, Seated
  <2> QED
    BY <1>3, <2>1, QuietKeepsType DEF PollEmpty, TInv, Data
<1> QED
  BY <1>1, <1>2, <1>3 DEF Poll

\* A new row takes the first free place.
LEMMA InsertType ==
  ASSUME TInv, NEW sec \in BOOLEAN, created < MaxJobs, created' = created + 1,
         jobs' = [jobs EXCEPT ![created + 1] = NewRow(sec)], UNCHANGED <<crashes, faults>>
  PROVE  /\ Data'
         /\ created + 1 \in Jobs
         /\ \A j \in Jobs : j > created' => jobs'[j] = NoRow
<1>1. created + 1 \in Jobs
  BY QueueAssumption DEF TInv, Data, Jobs
<1>2. NewRow(sec) \in Row
  BY NewRowType
<1>3. Data'
  BY <1>1, <1>2, QueueAssumption DEF TInv, Data
<1>4. \A j \in Jobs : j > created' => jobs'[j] = NoRow
  BY <1>1, QueueAssumption DEF TInv, Data, Unborn, Jobs
<1> QED
  BY <1>1, <1>3, <1>4

LEMMA TInvNext == TInv /\ [Next]_vars => TInv'
<1> SUFFICES ASSUME TInv, [Next]_vars PROVE TInv'
  OBVIOUS
<1>0. NoAttempt \in Attempt
  BY DEF NoAttempt, Attempt, Errors
<1>1. ASSUME NEW sec \in BOOLEAN, Enqueue(sec) PROVE TInv'
  <2>1. Control'
    BY <1>1 DEF Enqueue, loopVars, TInv, Control, Seated
  <2>2. Data' /\ \A j \in Jobs : j > created' => jobs'[j] = NoRow
    BY <1>1, InsertType DEF Enqueue
  <2>3. Unborn'
    BY <1>1, <2>2, QueueAssumption DEF Enqueue, TInv, Data, Unborn, Jobs
  <2> QED
    BY <2>1, <2>2, <2>3 DEF TInv
<1>2. ASSUME NEW h \in Handlers, RunInline(h) PROVE TInv'
  <2>1. /\ Data' /\ created + 1 \in Jobs
        /\ \A j \in Jobs : j > created' => jobs'[j] = NoRow
    BY <1>2, InsertType DEF RunInline
  <2>2. h \in Executors /\ "begin" \in Labels /\ "begin" \in Busy /\ "begin" \notin WorkersOnly
    BY DEF Executors, Labels, Busy, Preparing, WorkersOnly
  <2>3. Control'
    <3>1. created + 1 # None
      BY <2>1, QueueAssumption
    <3> QED
      BY <1>0, <1>2, <2>1, <2>2, <3>1 DEF RunInline, Goto, loopVars, TInv, Control, Seated
  <2>4. Unborn'
    <3> SUFFICES ASSUME NEW j \in Jobs, j > created', NEW e \in Executors PROVE cur'[e] # j
      BY <2>1 DEF Unborn
    <3>1. j > created /\ j # created + 1
      BY <1>2, QueueAssumption DEF RunInline, TInv, Data, Jobs
    <3>2. cur[e] # j
      BY <3>1 DEF TInv, Unborn
    <3> QED
      BY <1>2, <3>1, <3>2 DEF RunInline, TInv, Control
  <2> QED
    BY <2>1, <2>3, <2>4 DEF TInv
<1>3. ASSUME NEW w \in Workers, Start(w) PROVE TInv'
  <2>1. w \in Executors /\ "loop" \in Labels /\ "loop" \notin Busy /\ "down" \notin Busy
    BY DEF Executors, Labels, Busy, Preparing, Running, Wrapping, Failing
  <2>2. Control'
    BY <1>3, <2>1, QueueAssumption DEF Start, Goto, TInv, Control, Seated
  <2> QED
    BY <1>3, <2>2, QuietKeepsType DEF Start, TInv, Data
<1>4. ASSUME NEW e \in Executors, Crash(e) PROVE TInv'
  <2>1. "down" \in Labels /\ "down" \notin Busy /\ "down" \notin WorkersOnly
    BY DEF Labels, Busy, Preparing, Running, Wrapping, Failing, WorkersOnly
  <2>2. Control'
    BY <1>0, <1>4, <2>1 DEF Crash, Goto, loopVars, TInv, Control, Seated
  <2>3. \A f \in Executors : cur'[f] \in {cur[f], None}
    BY <1>4 DEF Crash, TInv, Control
  <2>4. crashes' \in 0..MaxCrashes /\ faults' \in 0..MaxFaults /\ UNCHANGED <<jobs, created>>
    BY <1>4, QueueAssumption DEF Crash, TInv, Data
  <2> QED
    BY <2>2, <2>3, <2>4, QuietKeepsType
<1>5. ASSUME NEW j \in Jobs, Age(j) PROVE TInv'
  <2>1. [jobs[j] EXCEPT !.started = "stale"] \in Row /\ jobs[j] # NoRow
    <3>1. jobs[j] \in Row
      BY DEF TInv, Data
    <3>2. jobs[j] # NoRow
      BY <1>5 DEF Age, NoRow
    <3> QED
      BY <3>1, <3>2, RowTypes
  <2>2. Control'
    BY <1>5 DEF Age, loopVars, TInv, Control, Seated
  <2>3. Data'
    BY <1>5, <2>1 DEF Age, TInv, Data
  <2>4. Unborn'
    BY <1>5, <2>1 DEF Age, TInv, Data, Unborn
  <2> QED
    BY <2>2, <2>3, <2>4 DEF TInv
<1>6. CASE UNCHANGED vars
  BY <1>6 DEF vars, TInv, Control, Seated, Data, Unborn
<1> QED
  BY <1>1, <1>2, <1>3, <1>4, <1>5, <1>6, PollType, ExecuteType DEF Next

\* Every reachable state is well typed, whatever the number of executors, jobs,
\* crashes and database failures: in particular no worker counts more than four
\* failures in a row (run_forever), and every write finds a row.
THEOREM TypeCorrect == Spec => []TypeOK
<1>1. TInv => TypeOK
  BY DEF TInv, Control, Data, TypeOK
<1> QED
  BY <1>1, TInvInit, TInvNext, PTL DEF Spec

-----------------------------------------------------------------------------

(* While no execution outlives the staleness window and no request executes   *)
(* inline, a job has one executor at a time; from that follow the single      *)
(* snapshot, the finality of an end and the lifecycle of ResearchJob.         *)

\* What holds of every row.
RowInv(r) ==
  /\ r.status = "queued" => r.started = "null"
  /\ r.status \in {"queued", "running"} => ~r.finished /\ r.snaps = 0
  /\ r.snaps <= 1

\* What holds of a row that is being executed.
Sound(r) ==
  /\ r.started = "fresh"
  /\ r.status \in {"running", "completed", "failed"}
  /\ RowInv(r)

\* What its executor's place in the program says of it.
Fits(label, r) ==
  /\ Sound(r)
  /\ label \in Preparing \cup Running => r.status = "running"
  /\ label \in Wrapping => r.status = "completed" /\ r.snaps = 0
  /\ label = "complete" => r.report
  /\ label = "failstage" => r.status = "failed"

\* The inductive invariant: ExecutedOnce needs executed rows to be fresh and
\* out of the queue, and that needs each executor to fit its row.
XInv ==
  /\ TInv
  /\ \A j \in Jobs : RowInv(jobs[j])
  /\ \A e \in Executors : pc[e] \in Busy => Fits(pc[e], jobs[cur[e]])
  /\ ExecutedOnce

\* What ResearchJob lets an executor do to one job.
Life(r, s) ==
  \/ s.status = r.status /\ s.report = r.report /\ s.snaps = r.snaps
  \/ r.status = "running" /\ s.status = "running" /\ s.report = TRUE /\ s.snaps = r.snaps
  \/ r.status = "running" /\ r.report /\ s.status = "completed"
     /\ s.report = r.report /\ s.snaps = r.snaps
  \/ r.status = "completed" /\ s.status = "completed" /\ r.snaps = 0 /\ s.snaps = 1
     /\ s.report = r.report
  \/ r.status \in {"running", "completed"} /\ s.status = "failed"
     /\ s.report = r.report /\ s.snaps = r.snaps

OneLife == \E j \in Jobs :
  /\ Life(jobs[j], jobs'[j])
  /\ \A i \in Jobs : i # j => jobs'[i] = jobs[i]

LEMMA XInvInit == Init => XInv
<1> SUFFICES ASSUME Init PROVE XInv
  OBVIOUS
<1>1. TInv
  BY TInvInit
<1>2. \A j \in Jobs : RowInv(jobs[j])
  BY DEF Init, RowInv, NoRow
<1>3. \A e \in Executors : pc[e] \notin Busy
  BY DEF Init, Busy, Preparing, Running, Wrapping, Failing
<1>4. ExecutedOnce
  BY DEF Init, ExecutedOnce
<1> QED
  BY <1>1, <1>2, <1>3, <1>4 DEF XInv

\* A transaction that writes a sound row and leaves its executor where it fits
\* disturbs nobody else: no other executor has that row.
LEMMA WriteX ==
  ASSUME XInv, TInv', NEW e \in Executors, pc[e] \in Busy, NEW r \in Row,
         Commit(e, r) \/ Fault(e, r),
         RowInv(r), Life(jobs[cur[e]], r),
         \A f \in Executors : f # e => pc'[f] = pc[f] /\ cur'[f] = cur[f],
         cur'[e] \in {cur[e], None},
         pc'[e] \in Busy => Fits(pc'[e], jobs'[cur[e]])
  PROVE  XInv' /\ OneLife
<1>1. cur[e] \in Jobs /\ cur[e] # None
  BY BusyJob, QueueAssumption DEF XInv
<1>2. \A j \in Jobs : jobs'[j] = jobs[j] \/ (j = cur[e] /\ jobs'[j] = r)
  BY WriteStep DEF XInv
<1>3. \A j \in Jobs : RowInv(jobs'[j])
  BY <1>2 DEF XInv
<1>4. ASSUME NEW f \in Executors, pc'[f] \in Busy PROVE Fits(pc'[f], jobs'[cur'[f]])
  <2>1. CASE f = e
    <3>1. cur'[e] = cur[e]
      BY <1>4, <2>1 DEF TInv, Control, Seated
    <3> QED
      BY <1>4, <2>1, <3>1
  <2>2. CASE f # e
    <3>1. pc'[f] = pc[f] /\ cur'[f] = cur[f] /\ pc[f] \in Busy
      BY <1>4, <2>2
    <3>2. cur[f] \in Jobs /\ cur[f] # cur[e]
      BY <1>1, <2>2, <3>1, BusyJob DEF XInv, ExecutedOnce
    <3> QED
      BY <1>2, <3>1, <3>2 DEF XInv
  <2> QED
    BY <2>1, <2>2
<1>5. ExecutedOnce'
  BY DEF XInv, ExecutedOnce
<1>6. Life(jobs[cur[e]], jobs[cur[e]])
  BY DEF Life
<1>7. OneLife
  BY <1>1, <1>2, <1>6 DEF OneLife
<1> QED
  BY <1>3, <1>4, <1>5, <1>7 DEF XInv
\* Such a transaction under the two shapes of execute_existing.  Either way out
\* (to the next label, to the except branch, to mark_failed) fits a sound row.
LEMMA StepX ==
  ASSUME XInv, TInv', NEW e \in Executors, NEW at \in Busy, NEW r \in Row,
         NEW next \in Busy, Step(e, at, r, next),
         Handlers = {},
         RowInv(r), Life(jobs[cur[e]], r), Fits(next, r)
  PROVE  XInv' /\ OneLife
<1>1. pc[e] \in Busy /\ (Commit(e, r) \/ Fault(e, r)) /\ cur[e] \in Jobs
  BY BusyJob DEF Step, XInv
<1>2. /\ pc \in [Executors -> Labels]
      /\ jobs'[cur[e]] \in {jobs[cur[e]], r}
  BY <1>1, WriteStep DEF XInv, TInv, Control
<1>3. CASE Commit(e, r) /\ Proceed(e, next)
  <2>1. jobs'[cur[e]] = r
    BY <1>1, <1>3 DEF Commit, XInv, TInv, Data
  <2>2. pc' = [pc EXCEPT ![e] = next] /\ cur' = cur
    BY <1>3 DEF Proceed, Goto
  <2> QED
    BY <1>1, <1>2, <2>1, <2>2, WriteX
<1>4. CASE Fault(e, r) /\ Raise(e)
  <2>1. pc' = [pc EXCEPT ![e] = "mark"] /\ cur' = cur
    BY <1>4 DEF Raise, Goto
  <2>2. Fits("mark", r) /\ Fits("mark", jobs[cur[e]])
    BY <1>1 DEF XInv, Fits, Preparing, Running, Wrapping
  <2> QED
    BY <1>1, <1>2, <2>1, <2>2, WriteX
<1> QED
  BY <1>3, <1>4 DEF Step

LEMMA TryX ==
  ASSUME XInv, TInv', NEW e \in Executors, NEW at \in Busy, NEW r \in Row,
         NEW next \in Busy, Try(e, at, r, next),
         RowInv(r), Life(jobs[cur[e]], r), Fits(next, r)
  PROVE  XInv' /\ OneLife
<1>1. pc[e] \in Busy /\ (Commit(e, r) \/ Fault(e, r)) /\ cur[e] \in Jobs
  BY BusyJob DEF Try, XInv
<1>2. /\ pc \in [Executors -> Labels]
      /\ jobs'[cur[e]] \in {jobs[cur[e]], r}
  BY <1>1, WriteStep DEF XInv, TInv, Control
<1>3. CASE Commit(e, r) /\ Proceed(e, next)
  <2>1. jobs'[cur[e]] = r
    BY <1>1, <1>3 DEF Commit, XInv, TInv, Data
  <2>2. pc' = [pc EXCEPT ![e] = next] /\ cur' = cur
    BY <1>3 DEF Proceed, Goto
  <2> QED
    BY <1>1, <1>2, <2>1, <2>2, WriteX
<1>4. CASE Fault(e, r) /\ Proceed(e, "fail")
  <2>1. pc' = [pc EXCEPT ![e] = "fail"] /\ cur' = cur
    BY <1>4 DEF Proceed, Goto
  <2>2. Fits("fail", r) /\ Fits("fail", jobs[cur[e]])
    BY <1>1 DEF XInv, Fits, Preparing, Running, Wrapping
  <2> QED
    BY <1>1, <1>2, <2>1, <2>2, WriteX
<1> QED
  BY <1>3, <1>4 DEF Try

\* A step of an executor that writes no row.
LEMMA QuietX ==
  ASSUME XInv, TInv', NEW e \in Executors, UNCHANGED jobs,
         \A f \in Executors : f # e => pc'[f] = pc[f] /\ cur'[f] = cur[f],
         cur'[e] \in {cur[e], None},
         pc'[e] \in Busy => Fits(pc'[e], jobs[cur[e]])
  PROVE  XInv'
<1>1. \A f \in Executors : pc'[f] \in Busy => Fits(pc'[f], jobs'[cur'[f]])
  BY DEF XInv, TInv, Control, Seated
<1>2. ExecutedOnce'
  BY DEF XInv, ExecutedOnce
<1> QED
  BY <1>1, <1>2 DEF XInv

-----------------------------------------------------------------------------
LEMMA ExecuteX ==
  ASSUME XInv, TInv', NEW e \in Executors, Execute(e), Handlers = {}
  PROVE  XInv' /\ (OneLife \/ UNCHANGED jobs)
<1> DEFINE row == jobs[cur[e]]
<1> USE DEF Busy, Preparing, Running, Wrapping, Failing
<1>0. ASSUME pc[e] \in Busy
      PROVE  row \in Row /\ Fits(pc[e], row)
  BY <1>0, BusyJob DEF XInv
<1> HIDE DEF row
<1>1. CASE FetchingData(e)
  <2> DEFINE r == SetStage(row, "fetching_data")
  <2>1. pc[e] = "fetch" /\ Step(e, "fetch", r, "gate")
    BY <1>1 DEF FetchingData, Step, row
  <2>2. r \in Row
    BY <1>0, <2>1, RowTypes DEF Stages, Errors
  <2>3. RowInv(r) /\ Life(row, r) /\ Fits("gate", r)
    BY <1>0, <2>1 DEF Fits, Sound, RowInv, Life, Row, SetStage
  <2> HIDE DEF r
  <2> QED
    BY <2>1, <2>2, <2>3, StepX DEF row
<1>2. CASE Gate(e)
  <2>1. /\ \E label \in {"begin", "mark"} : pc' = [pc EXCEPT ![e] = label]
        /\ UNCHANGED <<cur, jobs>>
    BY <1>2 DEF Gate, Proceed, Goto
  <2>2. Fits("begin", row) /\ Fits("mark", row)
    BY <1>0, <1>2 DEF Gate, Fits
  <2> QED
    BY <1>2, <2>1, <2>2, QuietX DEF Gate, row, XInv, TInv, Control
<1>3. CASE Begin(e)
  <2> DEFINE r == SetRunning(row)
  <2>1. pc[e] = "begin" /\ Step(e, "begin", r, "plan")
    BY <1>3 DEF Begin, Step, row
  <2>2. r \in Row
    BY <1>0, <2>1, RowTypes DEF Stages, Errors
  <2>3. RowInv(r) /\ Life(row, r) /\ Fits("plan", r)
    BY <1>0, <2>1 DEF Fits, Sound, RowInv, Life, Row, SetRunning
  <2> HIDE DEF r
  <2> QED
    BY <2>1, <2>2, <2>3, StepX DEF row
<1>4. CASE Planned(e)
  <2> DEFINE r == SetStage(row, "planned")
  <2>1. pc[e] = "plan" /\ Step(e, "plan", r, "run")
    BY <1>4 DEF Planned, Step, row
  <2>2. r \in Row
    BY <1>0, <2>1, RowTypes DEF Stages, Errors
  <2>3. RowInv(r) /\ Life(row, r) /\ Fits("run", r)
    BY <1>0, <2>1 DEF Fits, Sound, RowInv, Life, Row, SetStage
  <2> HIDE DEF r
  <2> QED
    BY <2>1, <2>2, <2>3, StepX DEF row
<1>5. CASE RunAgents(e)
  <2> DEFINE r == SetStage(row, "agents")
  <2>1. pc[e] = "run" /\ Try(e, "run", r, "agents")
    BY <1>5 DEF RunAgents, Try, row
  <2>2. r \in Row
    BY <1>0, <2>1, RowTypes DEF Stages, Errors
  <2>3. RowInv(r) /\ Life(row, r) /\ Fits("agents", r)
    BY <1>0, <2>1 DEF Fits, Sound, RowInv, Life, Row, SetStage
  <2> HIDE DEF r
  <2> QED
    BY <2>1, <2>2, <2>3, TryX DEF row
<1>6. CASE AgentsReturn(e)
  <2>1. /\ \E label \in {"attach", "render", "fail"} : pc' = [pc EXCEPT ![e] = label]
        /\ UNCHANGED <<cur, jobs>>
    BY <1>6 DEF AgentsReturn, Proceed, Goto
  <2>2. Fits("attach", row) /\ Fits("render", row) /\ Fits("fail", row)
    BY <1>0, <1>6 DEF AgentsReturn, Fits
  <2> QED
    BY <1>6, <2>1, <2>2, QuietX DEF AgentsReturn, row, XInv, TInv, Control
<1>7. CASE AttachSecurity(e)
  <2> DEFINE r == [row EXCEPT !.sec = TRUE]
  <2>1. pc[e] = "attach" /\ Try(e, "attach", r, "render")
    BY <1>7 DEF AttachSecurity, Try, row
  <2>2. r \in Row
    BY <1>0, <2>1, RowTypes DEF Stages, Errors
  <2>3. RowInv(r) /\ Life(row, r) /\ Fits("render", r)
    BY <1>0, <2>1 DEF Fits, Sound, RowInv, Life, Row
  <2> HIDE DEF r
  <2> QED
    BY <2>1, <2>2, <2>3, TryX DEF row
<1>8. CASE Rendering(e)
  <2> DEFINE r == SetStage(row, "rendering")
  <2>1. pc[e] = "render" /\ Try(e, "render", r, "save")
    BY <1>8 DEF Rendering, Try, row
  <2>2. r \in Row
    BY <1>0, <2>1, RowTypes DEF Stages, Errors
  <2>3. RowInv(r) /\ Life(row, r) /\ Fits("save", r)
    BY <1>0, <2>1 DEF Fits, Sound, RowInv, Life, Row, SetStage
  <2> HIDE DEF r
  <2> QED
    BY <2>1, <2>2, <2>3, TryX DEF row
<1>9. CASE SaveOutput(e)
  <2> DEFINE r == [row EXCEPT !.runs = @ + 1]
  <2>1. /\ pc[e] = "save" /\ (Commit(e, r) \/ Fault(e, r))
        /\ \E label \in {"save", "fail"} : pc' = [pc EXCEPT ![e] = label]
        /\ cur' = cur
    BY <1>9 DEF SaveOutput, Proceed, Goto, row, XInv, TInv, Control
  <2>2. r \in Row
    BY <1>0, <2>1, RowTypes
  <2>3. Life(row, r) /\ Fits("save", r) /\ Fits("fail", r) /\ Fits("save", row) /\ Fits("fail", row)
    BY <1>0, <2>1 DEF Fits, Sound, RowInv, Life, Row
  <2> HIDE DEF r
  <2>4. jobs'[cur[e]] \in {row, r}
    BY <2>1, <2>2, BusyJob, WriteStep DEF row, XInv
  <2> QED
    BY <2>1, <2>2, <2>3, <2>4, WriteX DEF row, Fits, Sound, XInv, TInv, Control
<1>10. CASE SaveReport(e)
  <2> DEFINE r == [row EXCEPT !.report = TRUE]
  <2>1. pc[e] = "save" /\ Try(e, "save", r, "complete")
    BY <1>10 DEF SaveReport, Try, row
  <2>2. r \in Row
    BY <1>0, <2>1, RowTypes
  <2>3. RowInv(r) /\ Life(row, r) /\ Fits("complete", r)
    BY <1>0, <2>1 DEF Fits, Sound, RowInv, Life, Row
  <2> HIDE DEF r
  <2> QED
    BY <2>1, <2>2, <2>3, TryX DEF row
<1>11. CASE Complete(e)
  <2> DEFINE r == SetTerminal(row, "completed")
  <2>1. pc[e] = "complete" /\ Try(e, "complete", r, "stamp")
    BY <1>11 DEF Complete, Try, row
  <2>2. r \in Row
    BY <1>0, <2>1, RowTypes DEF Stages, Errors
  <2>3. RowInv(r) /\ Life(row, r) /\ Fits("stamp", r)
    BY <1>0, <2>1 DEF Fits, Sound, RowInv, Life, Row, SetTerminal
  <2> HIDE DEF r
  <2> QED
    BY <2>1, <2>2, <2>3, TryX DEF row
<1>12. CASE Stamp(e)
  <2> DEFINE r == SetStage(row, "complete")
  <2>1. /\ pc[e] = "stamp" /\ (Commit(e, r) \/ Fault(e, r))
        /\ \E label \in {"snapshot", "loop", "fail"} : pc' = [pc EXCEPT ![e] = label]
        /\ cur' = cur \/ cur' = [cur EXCEPT ![e] = None]
        /\ pc'[e] = "snapshot" => Commit(e, r)
    BY <1>12 DEF Stamp, Proceed, Release, Goto, row, Executors, XInv, TInv, Control
  <2>2. r \in Row
    BY <1>0, <2>1, RowTypes DEF Stages
  <2>3. RowInv(r) /\ Life(row, r) /\ Fits("fail", r) /\ Fits("fail", row)
    BY <1>0, <2>1 DEF Fits, Sound, RowInv, Life, Row, SetStage
  <2>4. Fits("snapshot", r)
    BY <1>0, <2>1 DEF Fits, Sound, RowInv, Row, SetStage
  <2> HIDE DEF r
  <2>5. jobs'[cur[e]] \in {row, r} /\ (Commit(e, r) => jobs'[cur[e]] = r)
    BY <2>1, <2>2, BusyJob, WriteStep DEF row, XInv, Commit, TInv, Data
  <2> QED
    BY <2>1, <2>2, <2>3, <2>4, <2>5, WriteX DEF row, XInv, TInv, Control
<1>13. CASE SaveSnapshot(e)
  <2> DEFINE r == [row EXCEPT !.snaps = @ + 1]
  <2>1. /\ pc[e] = "snapshot" /\ (Commit(e, r) \/ Fault(e, r))
        /\ \E label \in {"loop", "fail"} : pc' = [pc EXCEPT ![e] = label]
        /\ cur' = cur \/ cur' = [cur EXCEPT ![e] = None]
        /\ pc'[e] = "snapshot" => Commit(e, r)
    BY <1>13 DEF SaveSnapshot, Proceed, Release, Goto, row, Executors, XInv, TInv, Control
  <2>2. r \in Row
    BY <1>0, <2>1, RowTypes DEF Stages
  <2>3. RowInv(r) /\ Life(row, r) /\ Fits("fail", r) /\ Fits("fail", row)
    BY <1>0, <2>1 DEF Fits, Sound, RowInv, Life, Row
  <2> HIDE DEF r
  <2>5. jobs'[cur[e]] \in {row, r} /\ (Commit(e, r) => jobs'[cur[e]] = r)
    BY <2>1, <2>2, BusyJob, WriteStep DEF row, XInv, Commit, TInv, Data
  <2> QED
    BY <2>1, <2>2, <2>3, <2>5, WriteX DEF row, XInv, TInv, Control
<1>14. CASE SetFailed(e)
  <2> DEFINE r == SetTerminal(row, "failed")
  <2>1. pc[e] = "fail" /\ Step(e, "fail", r, "failstage")
    BY <1>14 DEF SetFailed, Step, row
  <2>2. r \in Row
    BY <1>0, <2>1, RowTypes DEF Stages, Errors
  <2>3. RowInv(r) /\ Life(row, r) /\ Fits("failstage", r)
    BY <1>0, <2>1 DEF Fits, Sound, RowInv, Life, Row, SetTerminal
  <2> HIDE DEF r
  <2> QED
    BY <2>1, <2>2, <2>3, StepX DEF row
<1>15. CASE SetFailedStage(e)
  <2> DEFINE r == SetStage(row, "failed")
  <2>1. /\ pc[e] = "failstage" /\ (Commit(e, r) \/ Fault(e, r))
        /\ pc' = [pc EXCEPT ![e] = "mark"] /\ cur' = cur
    BY <1>15 DEF SetFailedStage, Raise, Goto, row
  <2>2. r \in Row
    BY <1>0, <2>1, RowTypes DEF Stages
  <2>3. RowInv(r) /\ Life(row, r) /\ Fits("mark", r) /\ Fits("mark", row)
    BY <1>0, <2>1 DEF Fits, Sound, RowInv, Life, Row, SetStage
  <2> HIDE DEF r
  <2>4. jobs'[cur[e]] \in {row, r}
    BY <2>1, <2>2, BusyJob, WriteStep DEF row, XInv
  <2> QED
    BY <2>1, <2>2, <2>3, <2>4, WriteX DEF row, XInv, TInv, Control
<1>16. CASE Mark(e)
  <2> DEFINE r == MarkFailed(row, att[e].err)
  <2>1. /\ pc[e] = "mark" /\ (Commit(e, r) \/ Fault(e, r))
        /\ \E label \in {"loop", "down"} : pc' = [pc EXCEPT ![e] = label]
        /\ cur' = [cur EXCEPT ![e] = None]
    BY <1>16 DEF Mark, Release, Outage, Goto, row
  <2>2. r \in Row
    BY <1>0, <2>1, RowTypes DEF XInv, TInv, Control, Attempt
  <2>3. RowInv(r) /\ Life(row, r)
    BY <1>0, <2>1 DEF Fits, Sound, RowInv, Life, Row, MarkFailed, SetTerminal
  <2> HIDE DEF r
  <2> QED
    BY <2>1, <2>2, <2>3, WriteX DEF row, XInv, TInv, Control
<1> QED
  BY <1>1, <1>2, <1>3, <1>4, <1>5, <1>6, <1>7, <1>8, <1>9, <1>10, <1>11, <1>12,
     <1>13, <1>14, <1>15, <1>16 DEF Execute
\* Recovery, claiming and the environment: what happens to the rows.
Retried ==
  \A j \in Jobs :
    jobs'[j] = jobs[j] \/ (Requeueable(jobs[j]) /\ jobs'[j] = Requeue(jobs[j]))
Claimed == \E j \in Jobs :
  jobs[j].status = "queued" /\ jobs' = [jobs EXCEPT ![j] = SetRunning(@)]
Inserted == \E j \in Jobs, sec \in BOOLEAN :
  jobs[j] = NoRow /\ jobs' = [jobs EXCEPT ![j] = NewRow(sec)]
Aged == \E j \in Jobs :
  jobs[j].started = "fresh" /\ jobs' = [jobs EXCEPT ![j].started = "stale"]

\* A fresh job is not requeued, so recovery leaves the executed ones alone.
LEMMA RequeueX ==
  ASSUME XInv, TInv', NEW w \in Workers, RequeueStale(w)
  PROVE  XInv' /\ Retried
<1>1. Retried
  <2> DEFINE requeued == [j \in Jobs |-> IF Requeueable(jobs[j]) THEN Requeue(jobs[j]) ELSE jobs[j]]
  <2>1. jobs' \in {jobs, requeued}
    BY DEF RequeueStale
  <2> QED
    BY <2>1 DEF Retried
<1>2. \A j \in Jobs : RowInv(jobs'[j])
  <2> SUFFICES ASSUME NEW j \in Jobs PROVE RowInv(jobs'[j])
    OBVIOUS
  <2>1. jobs[j] \in Row /\ RowInv(jobs[j])
    BY DEF XInv, TInv, Data
  <2> QED
    BY <1>1, <2>1 DEF Retried, RowInv, Requeueable, Requeue, Row
<1>3. \A e \in Executors : pc[e] \in Busy => ~Requeueable(jobs[cur[e]]) /\ cur[e] \in Jobs
  BY BusyJob DEF XInv, Fits, Sound, Requeueable
<1>4. \A f \in Executors : /\ pc'[f] \in Busy => pc'[f] = pc[f] /\ cur'[f] = cur[f]
                           /\ cur'[f] \in {cur[f], None}
  <2>1. w \in Executors /\ "loop" \notin Busy /\ "down" \notin Busy
    BY DEF Executors, Busy, Preparing, Running, Wrapping, Failing
  <2> QED
    BY <2>1 DEF RequeueStale, Outage, Goto, XInv, TInv, Control
<1>5. \A f \in Executors : pc'[f] \in Busy => Fits(pc'[f], jobs'[cur'[f]])
  BY <1>1, <1>3, <1>4 DEF XInv, Retried
<1>6. ExecutedOnce'
  BY <1>4 DEF XInv, ExecutedOnce
<1> QED
  BY <1>1, <1>2, <1>5, <1>6 DEF XInv

\* Nobody executes a queued job, so the claimer is alone on it; started_at was
\* null, so it is fresh.
LEMMA ClaimX ==
  ASSUME XInv, TInv', NEW w \in Workers, ClaimNext(w)
  PROVE  XInv' /\ (Claimed \/ UNCHANGED jobs)
<1>0. w \in Executors /\ pc[w] = "loop" /\ {"fetch", "begin"} \subseteq Busy \cap Preparing
      /\ "loop" \notin Busy /\ "down" \notin Busy
  BY DEF ClaimNext, Executors, Busy, Preparing, Running, Wrapping, Failing
<1>1. PICK j \in Queued :
        LET claimed == [jobs EXCEPT ![j] = SetRunning(@)]
        IN \/ /\ jobs' = claimed
              /\ cur' = [cur EXCEPT ![w] = j]
              /\ Goto(w, IF jobs[j].sec THEN "fetch" ELSE "begin")
              /\ UNCHANGED <<att, loopVars, faults>>
           \/ /\ faults < MaxFaults /\ faults' = faults + 1
              /\ jobs' \in {jobs, claimed}
              /\ Outage(w)
  BY DEF ClaimNext
<1>2. j \in Jobs /\ jobs[j].status = "queued" /\ jobs[j] \in Row /\ RowInv(jobs[j]) /\ j # None
  BY QueueAssumption DEF Queued, XInv, TInv, Data
<1>3. jobs' \in {jobs, [jobs EXCEPT ![j] = SetRunning(jobs[j])]}
  BY <1>1
<1>4. Sound(SetRunning(jobs[j])) /\ SetRunning(jobs[j]).status = "running"
  BY <1>2 DEF RowInv, Sound, SetRunning, Row
<1>5. \A i \in Jobs : RowInv(jobs'[i])
  BY <1>2, <1>3, <1>4 DEF XInv, TInv, Data, Sound
<1>6. \A f \in Executors : pc[f] \in Busy => cur[f] \in Jobs /\ cur[f] # j
  BY <1>2, BusyJob DEF XInv, Fits, Sound
<1>7. \A f \in Executors : f # w => pc'[f] = pc[f] /\ cur'[f] = cur[f]
  BY <1>1 DEF Outage, Goto, XInv, TInv, Control
<1>8. pc'[w] \in Busy => /\ cur'[w] = j /\ jobs' = [jobs EXCEPT ![j] = SetRunning(jobs[j])]
                         /\ pc'[w] \in {"fetch", "begin"}
  BY <1>0, <1>1 DEF Outage, Goto, XInv, TInv, Control
<1>9. \A f \in Executors : pc'[f] \in Busy => Fits(pc'[f], jobs'[cur'[f]])
  <2> SUFFICES ASSUME NEW f \in Executors, pc'[f] \in Busy PROVE Fits(pc'[f], jobs'[cur'[f]])
    OBVIOUS
  <2>1. CASE f = w
    <3>1. jobs'[cur'[f]] = SetRunning(jobs[j])
      BY <1>2, <1>8, <2>1 DEF XInv, TInv, Data
    <3> QED
      BY <1>4, <1>8, <2>1, <3>1 DEF Fits, Wrapping
  <2>2. CASE f # w
    <3>1. jobs'[cur[f]] = jobs[cur[f]]
      BY <1>3, <1>6, <1>7, <2>2 DEF XInv, TInv, Data
    <3> QED
      BY <1>7, <2>2, <3>1 DEF XInv
  <2> QED
    BY <2>1, <2>2
<1>10. ExecutedOnce'
  <2> SUFFICES ASSUME NEW e \in Executors, NEW f \in Executors, e # f, cur'[e] # None
               PROVE  cur'[e] # cur'[f]
    BY DEF ExecutedOnce
  <2>1. cur'[w] \in {j, None}
    BY <1>0, <1>1 DEF Outage, XInv, TInv, Control
  <2>2. \A g \in Executors : cur[g] # None => cur[g] # j
    BY <1>6 DEF XInv, TInv, Control, Seated
  <2> QED
    BY <1>7, <2>1, <2>2 DEF XInv, ExecutedOnce
<1>11. Claimed \/ UNCHANGED jobs
  BY <1>2, <1>3 DEF Claimed
<1> QED
  BY <1>5, <1>9, <1>10, <1>11 DEF XInv
LEMMA XInvNext ==
  ASSUME XInv, [Next]_vars, Timely, Handlers = {}
  PROVE  XInv' /\ (OneLife \/ Retried \/ Claimed \/ Inserted \/ Aged \/ UNCHANGED jobs)
<1>0. TInv'
  BY TInvNext DEF XInv
<1>1. ASSUME NEW sec \in BOOLEAN, Enqueue(sec) PROVE XInv' /\ Inserted
  <2>1. created + 1 \in Jobs
    BY <1>1, InsertType DEF Enqueue, XInv
  <2>2. /\ jobs[created + 1] = NoRow
        /\ \A e \in Executors : pc[e] \in Busy => cur[e] \in Jobs /\ cur[e] # created + 1
    BY <1>1, <2>1, BusyJob DEF Enqueue, XInv, TInv, Unborn, Data
  <2>3. RowInv(NewRow(sec))
    BY DEF RowInv, NewRow, NoRow
  <2>4. \A j \in Jobs : j # created + 1 => jobs'[j] = jobs[j]
    BY <1>1 DEF Enqueue, XInv, TInv, Data
  <2>5. \A j \in Jobs : RowInv(jobs'[j])
    BY <1>1, <2>3, <2>4 DEF Enqueue, XInv, TInv, Data
  <2>6. \A e \in Executors : pc'[e] \in Busy => Fits(pc'[e], jobs'[cur'[e]])
    BY <1>1, <2>2, <2>4 DEF Enqueue, XInv
  <2>7. ExecutedOnce'
    BY <1>1 DEF Enqueue, XInv, ExecutedOnce
  <2>8. Inserted
    BY <1>1, <2>1, <2>2 DEF Enqueue, Inserted
  <2> QED
    BY <1>0, <2>5, <2>6, <2>7, <2>8 DEF XInv
<1>2. ASSUME NEW w \in Workers, Start(w) PROVE XInv' /\ UNCHANGED jobs
  <2>1. w \in Executors /\ "loop" \notin Busy
    BY DEF Executors, Busy, Preparing, Running, Wrapping, Failing
  <2> QED
    BY <1>0, <1>2, <2>1, QuietX DEF Start, Goto, XInv, TInv, Control
<1>3. ASSUME NEW e \in Executors, Crash(e) PROVE XInv' /\ UNCHANGED jobs
  <2>1. "down" \notin Busy
    BY DEF Busy, Preparing, Running, Wrapping, Failing
  <2> QED
    BY <1>0, <1>3, <2>1, QuietX DEF Crash, Goto, XInv, TInv, Control
<1>4. ASSUME NEW j \in Jobs, Age(j) PROVE XInv' /\ Aged
  <2>1. \A e \in Executors : cur[e] # j
    BY <1>4 DEF Age
  <2>2. \A i \in Jobs : i # j => jobs'[i] = jobs[i]
    BY <1>4 DEF Age, XInv, TInv, Data
  <2>3. RowInv(jobs'[j])
    <3>1. jobs'[j] = [jobs[j] EXCEPT !.started = "stale"] /\ jobs[j].started = "fresh"
      BY <1>4 DEF Age, XInv, TInv, Data
    <3>2. jobs[j] \in Row /\ RowInv(jobs[j])
      BY DEF XInv, TInv, Data
    <3> QED
      BY <3>1, <3>2 DEF RowInv, Row
  <2>4. \A e \in Executors : pc'[e] \in Busy => Fits(pc'[e], jobs'[cur'[e]])
    BY <1>4, <2>1, <2>2, BusyJob DEF Age, XInv
  <2>5. ExecutedOnce' /\ Aged
    BY <1>4 DEF Age, XInv, ExecutedOnce, Aged
  <2> QED
    BY <1>0, <2>2, <2>3, <2>4, <2>5 DEF XInv
<1>5. ASSUME NEW w \in Workers, PollEmpty(w) PROVE XInv' /\ UNCHANGED jobs
  BY <1>0, <1>5 DEF PollEmpty, XInv, ExecutedOnce
<1>6. CASE UNCHANGED vars
  BY <1>0, <1>6 DEF vars, XInv, ExecutedOnce
<1> QED
  BY <1>0, <1>1, <1>2, <1>3, <1>4, <1>5, <1>6, RequeueX, ClaimX, ExecuteX DEF Next, Poll

-----------------------------------------------------------------------------
\* The theorems assume that executions are shorter than the staleness window
\* (config.py sets max_research_job_seconds for that) and that nothing runs
\* inline; without either, the runs show counterexamples.

LEMMA XInvAlways == ASSUME Timely, Handlers = {} PROVE Spec => []XInv
<1>1. XInv /\ [Next]_vars => XInv'
  BY XInvNext
<1> QED
  BY <1>1, XInvInit, PTL DEF Spec

\* claim_next and requeue_stale_running_jobs never hand out a job that is still
\* being executed.
THEOREM SingleExecution == ASSUME Timely, Handlers = {} PROVE Spec => []ExecutedOnce
<1>1. XInv => ExecutedOnce
  BY DEF XInv
<1> QED
  BY <1>1, XInvAlways, PTL

\* However often a job is retried, _save_snapshot inserts one snapshot at most.
THEOREM SingleSnapshot == ASSUME Timely, Handlers = {} PROVE Spec => []SnapshotOnce
<1>1. XInv => SnapshotOnce
  BY DEF XInv, RowInv, SnapshotOnce
<1> QED
  BY <1>1, XInvAlways, PTL

\* A running job always meets the completed_at condition of the recovery query.
THEOREM Recoverable == ASSUME Timely, Handlers = {} PROVE Spec => []RunningIsRecoverable
<1>1. XInv => RunningIsRecoverable
  BY DEF XInv, RowInv, RunningIsRecoverable
<1> QED
  BY <1>1, XInvAlways, PTL

\* A step never reopens a finished job, nor completes a failed one.
THEOREM EndIsFinal == ASSUME Timely, Handlers = {} PROVE Spec => TerminalStays
<1> DEFINE Stays == \A j \in Jobs :
      /\ jobs[j].status \in Terminal => jobs'[j].status \in Terminal
      /\ jobs[j].status = "failed" => jobs'[j].status = "failed"
<1>1. ASSUME XInv, [Next]_vars PROVE Stays
  <2>0. jobs \in [Jobs -> Row]
    BY <1>1 DEF XInv, TInv, Data
  <2>1. CASE OneLife
    BY <2>1 DEF OneLife, Life, Terminal
  <2>2. CASE Retried
    BY <2>2 DEF Retried, Requeueable, Terminal
  <2>3. CASE Claimed
    BY <2>0, <2>3 DEF Claimed, Terminal
  <2>4. CASE Inserted
    BY <2>0, <2>4 DEF Inserted, NoRow, Terminal
  <2>5. CASE Aged
    <3>1. \A j \in Jobs : jobs'[j].status = jobs[j].status
      BY <2>0, <2>5 DEF Aged, Row
    <3> QED
      BY <3>1
  <2>6. CASE UNCHANGED jobs
    BY <2>6
  <2> QED
    BY <1>1, <2>1, <2>2, <2>3, <2>4, <2>5, <2>6, XInvNext
<1>2. XInv /\ [Next]_vars => [Stays]_vars
  BY <1>1
<1>3. TerminalStays <=> [][Stays]_vars
  BY DEF TerminalStays
<1> HIDE DEF Stays
<1> QED
  BY <1>2, <1>3, XInvAlways, PTL DEF Spec

\* The whole queue implements ResearchJob: initial states map to initial
\* states, and every transaction maps to one of its steps or to a stutter.
THEOREM Refinement == ASSUME Timely, Handlers = {} PROVE Spec => ImplementsLifecycle
<1> DEFINE phase == [j \in Jobs |-> jobs[j].status]
           published == [j \in Jobs |-> jobs[j].report]
           alerts == [j \in Jobs |-> jobs[j].snaps]
<1>1. Init => Lifecycle!JobInit
  BY DEF Init, NoRow, Lifecycle!JobInit
<1>2. ASSUME XInv, [Next]_vars PROVE [Lifecycle!JobNext]_(Lifecycle!jobVars)
  <2>0. jobs \in [Jobs -> Row]
    BY <1>2 DEF XInv, TInv, Data
  <2>1. CASE OneLife
    <3>1. PICK j \in Jobs : /\ Life(jobs[j], jobs'[j])
                            /\ \A i \in Jobs : i # j => jobs'[i] = jobs[i]
      BY <2>1 DEF OneLife
    <3> DEFINE r == jobs[j]
               s == jobs'[j]
    <3>2. CASE s.status = r.status /\ s.report = r.report /\ s.snaps = r.snaps
      <4>1. phase' = phase /\ published' = published /\ alerts' = alerts
        BY <3>1, <3>2
      <4> QED
        BY <4>1 DEF Lifecycle!jobVars
    <3>3. CASE r.status = "running" /\ s.status = "running" /\ s.report = TRUE /\ s.snaps = r.snaps
      <4>1. phase' = phase /\ alerts' = alerts /\ published' = [published EXCEPT ![j] = TRUE]
        BY <3>1, <3>3
      <4> QED
        BY <3>3, <4>1 DEF Lifecycle!JobNext, Lifecycle!Publish
    <3>4. CASE /\ r.status = "running" /\ r.report /\ s.status = "completed"
               /\ s.report = r.report /\ s.snaps = r.snaps
      <4>1. published' = published /\ alerts' = alerts /\ phase' = [phase EXCEPT ![j] = "completed"]
        BY <3>1, <3>4
      <4> QED
        BY <3>4, <4>1 DEF Lifecycle!JobNext, Lifecycle!Finish
    <3>5. CASE /\ r.status = "completed" /\ s.status = "completed" /\ r.snaps = 0 /\ s.snaps = 1
               /\ s.report = r.report
      <4>1. phase' = phase /\ published' = published /\ alerts' = [alerts EXCEPT ![j] = 1]
        BY <3>1, <3>5
      <4> QED
        BY <3>5, <4>1 DEF Lifecycle!JobNext, Lifecycle!Alert
    <3>6. CASE /\ r.status \in {"running", "completed"} /\ s.status = "failed"
               /\ s.report = r.report /\ s.snaps = r.snaps
      <4>1. published' = published /\ alerts' = alerts /\ phase' = [phase EXCEPT ![j] = "failed"]
        BY <3>1, <3>6
      <4> QED
        BY <3>6, <4>1 DEF Lifecycle!JobNext, Lifecycle!Fail
    <3> QED
      BY <3>1, <3>2, <3>3, <3>4, <3>5, <3>6 DEF Life
  <2>2. CASE Retried
    <3> DEFINE abandoned == {j \in Jobs : jobs[j].status = "running" /\ jobs'[j].status = "queued"}
    <3>1. \A j \in Jobs : /\ jobs'[j].report = jobs[j].report
                          /\ jobs'[j].snaps = jobs[j].snaps
                          /\ jobs'[j].status = IF j \in abandoned THEN "queued" ELSE jobs[j].status
      <4> SUFFICES ASSUME NEW j \in Jobs
                   PROVE  /\ jobs'[j].report = jobs[j].report
                          /\ jobs'[j].snaps = jobs[j].snaps
                          /\ jobs'[j].status = IF j \in abandoned THEN "queued" ELSE jobs[j].status
        OBVIOUS
      <4>0. jobs[j] \in Row
        BY <2>0
      <4>1. CASE jobs'[j] = jobs[j]
        BY <4>1
      <4>2. CASE Requeueable(jobs[j]) /\ jobs'[j] = Requeue(jobs[j])
        <5>1. /\ jobs'[j].report = jobs[j].report
              /\ jobs'[j].snaps = jobs[j].snaps
              /\ jobs'[j].status = "queued"
          BY <4>0, <4>2 DEF Requeue, Row
        <5> QED
          BY <4>2, <5>1 DEF Requeueable
      <4> QED
        BY <2>2, <4>1, <4>2 DEF Retried
    <3>2. /\ published' = published /\ alerts' = alerts
          /\ phase' = [j \in Jobs |-> IF j \in abandoned THEN "queued" ELSE phase[j]]
      BY <3>1
    <3> QED
      BY <3>2 DEF Lifecycle!JobNext, Lifecycle!Retry
  <2>3. CASE Claimed
    <3>1. PICK j \in Jobs : jobs[j].status = "queued" /\ jobs' = [jobs EXCEPT ![j] = SetRunning(@)]
      BY <2>3 DEF Claimed
    <3>2. /\ published' = published /\ alerts' = alerts
          /\ phase' = [phase EXCEPT ![j] = "running"]
      BY <2>0, <3>1 DEF SetRunning, Row
    <3> QED
      BY <3>1, <3>2 DEF Lifecycle!JobNext, Lifecycle!Take
  <2>4. CASE Inserted
    <3>1. PICK j \in Jobs, sec \in BOOLEAN :
            jobs[j] = NoRow /\ jobs' = [jobs EXCEPT ![j] = NewRow(sec)]
      BY <2>4 DEF Inserted
    <3>2. /\ jobs[j].status = "absent" /\ jobs[j].report = FALSE /\ jobs[j].snaps = 0
          /\ NewRow(sec).status = "queued" /\ NewRow(sec).report = FALSE /\ NewRow(sec).snaps = 0
      BY <3>1 DEF NewRow, NoRow
    <3>3. jobs'[j] = NewRow(sec) /\ \A i \in Jobs : i # j => jobs'[i] = jobs[i]
      BY <2>0, <3>1
    <3>4. /\ published' = published /\ alerts' = alerts
          /\ phase' = [phase EXCEPT ![j] = "queued"]
      BY <3>2, <3>3
    <3> QED
      BY <3>2, <3>4 DEF Lifecycle!JobNext, Lifecycle!Submit
  <2>5. CASE Aged
    <3>1. published' = published /\ alerts' = alerts /\ phase' = phase
      BY <2>0, <2>5 DEF Aged, Row
    <3> QED
      BY <3>1 DEF Lifecycle!jobVars
  <2>6. CASE UNCHANGED jobs
    BY <2>6 DEF Lifecycle!jobVars
  <2> QED
    BY <1>2, <2>1, <2>2, <2>3, <2>4, <2>5, <2>6, XInvNext
<1>3. XInv /\ [Next]_vars => [Lifecycle!JobNext]_(Lifecycle!jobVars)
  BY <1>2
<1> QED
  BY <1>1, <1>3, XInvAlways, PTL DEF Spec, ImplementsLifecycle, Lifecycle!JobSpec

-----------------------------------------------------------------------------
(* A completed job is whole in every execution, those included in which two   *)
(* executors work on the same job.                                            *)

\* The report and every output of an attempt are there.
Whole(r) == r.report /\ r.runs >= Outputs

\* A reader takes the job for completed.
Shown(r) == r.status = "completed" \/ r.stage = "complete" \/ r.snaps > 0

\* Nothing takes a report or an output away.
Grows(r, s) == (r.report => s.report) /\ r.runs <= s.runs

\* Where an executor shows its job as completed, or is about to.
Showing == {"complete"} \cup Wrapping

\* The outputs an executor has counted are on file with its job, and where it
\* shows the job the rest is too.
Earned(e) ==
  /\ pc[e] \notin Busy => att[e].saved = 0
  /\ pc[e] \in Busy => att[e].saved <= jobs[cur[e]].runs
  /\ pc[e] \in Showing => Whole(jobs[cur[e]])

\* The inductive invariant: what is counted must be on file, since the report
\* is saved when the count, not the file, says that the outputs are.
WInv == TInv /\ CompletedIsWhole /\ \A e \in Executors : Earned(e)

LEMMA WInvInit == Init => WInv
<1> SUFFICES ASSUME Init PROVE WInv
  OBVIOUS
<1>1. \A e \in Executors : Earned(e)
  BY DEF Init, Earned, NoAttempt, Showing, Busy, Preparing, Running, Wrapping, Failing
<1>2. CompletedIsWhole
  BY DEF Init, CompletedIsWhole, NoRow
<1> QED
  BY <1>1, <1>2, TInvInit DEF WInv

\* A transaction that adds to its row, shows it only when it is whole and leaves
\* its executor with what it has earned disturbs no other executor, not even
\* one of the same job.
LEMMA WriteW ==
  ASSUME WInv, TInv', NEW e \in Executors, pc[e] \in Busy, NEW r \in Row,
         Commit(e, r) \/ Fault(e, r),
         Grows(jobs[cur[e]], r), Shown(r) => Whole(r),
         \A f \in Executors : f # e => pc'[f] = pc[f] /\ cur'[f] = cur[f] /\ att'[f] = att[f],
         Earned(e)'
  PROVE  WInv'
<1>1. \A j \in Jobs : jobs'[j] = jobs[j] \/ (j = cur[e] /\ jobs'[j] = r)
  BY WriteStep DEF WInv
<1>2. \A j \in Jobs : Shown(jobs'[j]) => Whole(jobs'[j])
  BY <1>1 DEF WInv, CompletedIsWhole, Shown, Whole
<1>3. ASSUME NEW f \in Executors PROVE Earned(f)'
  <2>1. CASE f = e
    BY <2>1
  <2>2. CASE f # e
    <3>1. CASE pc[f] \in Busy
      <4>1. cur[f] \in Jobs /\ jobs[cur[f]] \in Row
        BY <3>1, BusyJob DEF WInv
      <4>2. Grows(jobs[cur[f]], jobs'[cur[f]])
        BY <1>1, <4>1 DEF Grows, Row
      <4>3. att[f] \in Attempt /\ jobs'[cur[f]] \in Row
        BY <4>1 DEF WInv, TInv, Control, Data
      <4> QED
        BY <2>2, <3>1, <4>1, <4>2, <4>3, QueueAssumption
        DEF WInv, Earned, Grows, Whole, Attempt, Row
    <3>2. CASE pc[f] \notin Busy
      BY <2>2, <3>2 DEF WInv, Earned, Showing, Busy, Running
    <3> QED
      BY <3>1, <3>2
  <2> QED
    BY <2>1, <2>2
<1>4. CompletedIsWhole'
  BY <1>2 DEF CompletedIsWhole, Shown, Whole
<1> QED
  BY <1>3, <1>4 DEF WInv

\* Where an executor goes after such a transaction: on, with what it counted, or
\* away, with nothing.
LEMMA AwayW ==
  ASSUME WInv, TInv', NEW e \in Executors, pc[e] \in Busy, NEW r \in Row,
         Commit(e, r) \/ Fault(e, r),
         Grows(jobs[cur[e]], r), Shown(r) => Whole(r),
         \/ Release(e)
         \/ e \in Workers /\ Outage(e)
         \/ Raise(e)
         \/ \E next \in Busy : Proceed(e, next) /\ (next \in Showing => Commit(e, r) /\ Whole(r))
  PROVE  WInv'
<1>1. cur[e] \in Jobs /\ jobs[cur[e]] \in Row /\ jobs'[cur[e]] \in {jobs[cur[e]], r}
  BY BusyJob, WriteStep DEF WInv
<1>2. /\ pc \in [Executors -> Labels] /\ cur \in [Executors -> Jobs \cup {None}]
      /\ att \in [Executors -> Attempt]
      /\ att[e].saved \in Nat /\ att[e].saved <= jobs[cur[e]].runs
  BY DEF WInv, TInv, Control, Earned, Attempt
<1>3. att[e].saved <= jobs'[cur[e]].runs
  BY <1>1, <1>2 DEF Grows, Row
<1>4. ASSUME cur' = [cur EXCEPT ![e] = None], att' = [att EXCEPT ![e] = NoAttempt],
             NEW label \in {"loop", "down"}, pc' = [pc EXCEPT ![e] = label]
      PROVE  WInv'
  <2>1. Earned(e)'
    BY <1>2, <1>4 DEF Earned, NoAttempt, Showing, Busy, Preparing, Running, Wrapping, Failing
  <2> QED
    BY <1>2, <1>4, <2>1, WriteW
<1>5. CASE Release(e)
  BY <1>4, <1>5 DEF Release, Goto
<1>6. CASE e \in Workers /\ Outage(e)
  BY <1>4, <1>6 DEF Outage, Goto
<1>7. CASE Raise(e)
  <2>1. CASE /\ pc' = [pc EXCEPT ![e] = "mark"]
             /\ att' = [att EXCEPT ![e].err = "error"] /\ cur' = cur
    <3>1. att'[e].saved = att[e].saved
      BY <1>2, <2>1 DEF Attempt
    <3>2. Earned(e)'
      BY <1>2, <1>3, <2>1, <3>1 DEF Earned, Showing, Wrapping, Busy, Failing
    <3> QED
      BY <1>2, <2>1, <3>2, WriteW
  <2> QED
    BY <1>5, <1>7, <2>1 DEF Raise, Goto
<1>8. ASSUME NEW next \in Busy, Proceed(e, next), next \in Showing => Commit(e, r) /\ Whole(r)
      PROVE  WInv'
  <2>1. pc' = [pc EXCEPT ![e] = next] /\ UNCHANGED <<cur, att>>
    BY <1>8 DEF Proceed, Goto
  <2>2. next \in Showing => Whole(jobs'[cur[e]])
    <3> SUFFICES ASSUME next \in Showing PROVE Whole(jobs'[cur[e]])
      OBVIOUS
    <3>1. jobs'[cur[e]] = r
      BY <1>1, <1>8 DEF Commit, WInv, TInv, Data
    <3> QED
      BY <1>8, <3>1
  <2>3. Earned(e)'
    BY <1>2, <1>3, <2>1, <2>2 DEF Earned
  <2> QED
    BY <1>2, <2>1, <2>3, WriteW
<1> QED
  BY <1>5, <1>6, <1>7, <1>8


\* The two shapes of execute_existing.
LEMMA StepW ==
  ASSUME WInv, TInv', NEW e \in Executors, NEW at \in Busy, NEW r \in Row, NEW next \in Busy,
         Step(e, at, r, next) \/ Try(e, at, r, next),
         Grows(jobs[cur[e]], r), Shown(r) => Whole(r), next \in Showing => Whole(r)
  PROVE  WInv'
<1>1. "fail" \in Busy /\ "fail" \notin Showing
  BY DEF Busy, Failing, Showing, Wrapping
<1> QED
  BY <1>1, AwayW DEF Step, Try

\* A step of an executor that writes no row and counts no output.
LEMMA QuietW ==
  ASSUME WInv, TInv', NEW e \in Executors, pc[e] \in Busy, UNCHANGED <<cur, jobs>>,
         NEW label \in Busy \ Showing, pc' = [pc EXCEPT ![e] = label],
         \A f \in Executors : f # e => att'[f] = att[f],
         att'[e].saved = att[e].saved
  PROVE  WInv'
<1>1. pc \in [Executors -> Labels]
  BY DEF WInv, TInv, Control
<1>2. \A f \in Executors : Earned(f)'
  BY <1>1 DEF WInv, Earned, Whole
<1>3. CompletedIsWhole'
  BY DEF WInv, CompletedIsWhole
<1> QED
  BY <1>2, <1>3 DEF WInv

LEMMA ExecuteW ==
  ASSUME WInv, TInv', NEW e \in Executors, Execute(e) PROVE WInv'
<1> DEFINE row == jobs[cur[e]]
<1> USE DEF Busy, Preparing, Running, Wrapping, Failing, Showing
<1>0. ASSUME pc[e] \in Busy
      PROVE  /\ row \in Row /\ cur[e] \in Jobs
             /\ Shown(row) => Whole(row)
             /\ pc[e] \in Showing => Whole(row)
             /\ att[e].saved \in Nat /\ att[e].saved <= row.runs
  BY <1>0, BusyJob DEF WInv, TInv, Control, Attempt, CompletedIsWhole, Shown, Whole, Earned
<1> HIDE DEF row
<1>1. CASE FetchingData(e)
  <2> DEFINE r == SetStage(row, "fetching_data")
  <2>1. pc[e] = "fetch" /\ Step(e, "fetch", r, "gate")
    BY <1>1 DEF FetchingData, Step, row
  <2>2. r \in Row
    BY <1>0, <2>1, RowTypes DEF Stages
  <2>3. Grows(row, r) /\ (Shown(r) => Whole(r)) /\ ("gate" \in Showing => Whole(r))
    BY <1>0, <2>1 DEF Grows, Shown, Whole, Row, Stages, SetStage
  <2> HIDE DEF r
  <2> QED
    BY <2>1, <2>2, <2>3, StepW DEF row
<1>2. CASE Gate(e)
  <2>1. /\ \E label \in {"begin", "mark"} : pc' = [pc EXCEPT ![e] = label]
        /\ UNCHANGED <<cur, jobs>>
        /\ att' = att \/ \E err \in Errors : att' = [att EXCEPT ![e].err = err]
    BY <1>2 DEF Gate, Proceed, Goto, Errors
  <2>2. pc[e] = "gate"
    BY <1>2 DEF Gate
  <2>3. att'[e].saved = att[e].saved /\ \A f \in Executors : f # e => att'[f] = att[f]
    BY <2>1 DEF WInv, TInv, Control, Attempt
  <2> QED
    BY <2>1, <2>2, <2>3, QuietW
<1>3. CASE Begin(e)
  <2> DEFINE r == SetRunning(row)
  <2>1. pc[e] = "begin" /\ Step(e, "begin", r, "plan")
    BY <1>3 DEF Begin, Step, row
  <2>2. r \in Row
    BY <1>0, <2>1, RowTypes DEF Stages
  <2>3. Grows(row, r) /\ (Shown(r) => Whole(r)) /\ ("plan" \in Showing => Whole(r))
    BY <1>0, <2>1 DEF Grows, Shown, Whole, Row, Statuses, SetRunning
  <2> HIDE DEF r
  <2> QED
    BY <2>1, <2>2, <2>3, StepW DEF row
<1>4. CASE Planned(e)
  <2> DEFINE r == SetStage(row, "planned")
  <2>1. pc[e] = "plan" /\ Step(e, "plan", r, "run")
    BY <1>4 DEF Planned, Step, row
  <2>2. r \in Row
    BY <1>0, <2>1, RowTypes DEF Stages
  <2>3. Grows(row, r) /\ (Shown(r) => Whole(r)) /\ ("run" \in Showing => Whole(r))
    BY <1>0, <2>1 DEF Grows, Shown, Whole, Row, Stages, SetStage
  <2> HIDE DEF r
  <2> QED
    BY <2>1, <2>2, <2>3, StepW DEF row
<1>5. CASE RunAgents(e)
  <2> DEFINE r == SetStage(row, "agents")
  <2>1. pc[e] = "run" /\ Try(e, "run", r, "agents")
    BY <1>5 DEF RunAgents, Try, row
  <2>2. r \in Row
    BY <1>0, <2>1, RowTypes DEF Stages
  <2>3. Grows(row, r) /\ (Shown(r) => Whole(r)) /\ ("agents" \in Showing => Whole(r))
    BY <1>0, <2>1 DEF Grows, Shown, Whole, Row, Stages, SetStage
  <2> HIDE DEF r
  <2> QED
    BY <2>1, <2>2, <2>3, StepW DEF row
<1>6. CASE AgentsReturn(e)
  <2>1. /\ \E label \in {"attach", "render", "fail"} : pc' = [pc EXCEPT ![e] = label]
        /\ UNCHANGED <<cur, jobs>>
        /\ att' = att \/ \E resolved \in BOOLEAN : att' = [att EXCEPT ![e].resolved = resolved]
    BY <1>6 DEF AgentsReturn, Proceed, Goto
  <2>2. pc[e] = "agents"
    BY <1>6 DEF AgentsReturn
  <2>3. att'[e].saved = att[e].saved /\ \A f \in Executors : f # e => att'[f] = att[f]
    BY <2>1 DEF WInv, TInv, Control, Attempt
  <2> QED
    BY <2>1, <2>2, <2>3, QuietW
<1>7. CASE AttachSecurity(e)
  <2> DEFINE r == [row EXCEPT !.sec = TRUE]
  <2>1. pc[e] = "attach" /\ Try(e, "attach", r, "render")
    BY <1>7 DEF AttachSecurity, Try, row
  <2>2. r \in Row
    BY <1>0, <2>1, RowTypes DEF Stages
  <2>3. Grows(row, r) /\ (Shown(r) => Whole(r)) /\ ("render" \in Showing => Whole(r))
    BY <1>0, <2>1 DEF Grows, Shown, Whole, Row
  <2> HIDE DEF r
  <2> QED
    BY <2>1, <2>2, <2>3, StepW DEF row
<1>8. CASE Rendering(e)
  <2> DEFINE r == SetStage(row, "rendering")
  <2>1. pc[e] = "render" /\ Try(e, "render", r, "save")
    BY <1>8 DEF Rendering, Try, row
  <2>2. r \in Row
    BY <1>0, <2>1, RowTypes DEF Stages
  <2>3. Grows(row, r) /\ (Shown(r) => Whole(r)) /\ ("save" \in Showing => Whole(r))
    BY <1>0, <2>1 DEF Grows, Shown, Whole, Row, Stages, SetStage
  <2> HIDE DEF r
  <2> QED
    BY <2>1, <2>2, <2>3, StepW DEF row
<1>9. CASE SaveOutput(e)
  <2> DEFINE r == [row EXCEPT !.runs = @ + 1]
  <2>0. pc[e] = "save" /\ (Commit(e, r) \/ Fault(e, r))
    BY <1>9 DEF SaveOutput, row
  <2>1. r \in Row /\ Grows(row, r) /\ (Shown(r) => Whole(r)) /\ r.runs = row.runs + 1
    BY <1>0, <2>0, QueueAssumption DEF Grows, Shown, Whole, Row
  <2>2. CASE Commit(e, r) /\ att' = [att EXCEPT ![e].saved = @ + 1] /\ UNCHANGED <<pc, cur>>
    <3>1. jobs'[cur[e]] = r
      BY <1>0, <2>0, <2>2 DEF Commit, WInv, TInv, Data
    <3>2. att'[e].saved = att[e].saved + 1
      BY <2>2 DEF WInv, TInv, Control, Attempt
    <3>3. att'[e].saved <= jobs'[cur'[e]].runs
      BY <1>0, <2>0, <2>1, <2>2, <3>1, <3>2 DEF Row
    <3>4. Earned(e)'
      BY <2>0, <2>2, <3>3 DEF Earned
    <3>5. \A f \in Executors : f # e => att'[f] = att[f]
      BY <2>2 DEF WInv, TInv, Control
    <3> QED
      BY <2>0, <2>1, <2>2, <3>4, <3>5, WriteW DEF row
  <2>3. CASE Fault(e, r) /\ Proceed(e, "fail")
    BY <2>0, <2>1, <2>3, AwayW DEF row
  <2> QED
    BY <1>9, <2>2, <2>3 DEF SaveOutput, row
<1>10. CASE SaveReport(e)
  <2> DEFINE r == [row EXCEPT !.report = TRUE]
  <2>1. pc[e] = "save" /\ att[e].saved = Outputs /\ Try(e, "save", r, "complete")
    BY <1>10 DEF SaveReport, Try, row
  <2>2. r \in Row
    BY <1>0, <2>1, RowTypes
  <2>3. Grows(row, r) /\ Whole(r)
    BY <1>0, <2>1 DEF Grows, Whole, Row
  <2> HIDE DEF r
  <2> QED
    BY <2>1, <2>2, <2>3, StepW DEF row
<1>11. CASE Complete(e)
  <2> DEFINE r == SetTerminal(row, "completed")
  <2>1. pc[e] = "complete" /\ Try(e, "complete", r, "stamp")
    BY <1>11 DEF Complete, Try, row
  <2>2. r \in Row
    BY <1>0, <2>1, RowTypes DEF Stages
  <2>3. Grows(row, r) /\ (Shown(r) => Whole(r)) /\ ("stamp" \in Showing => Whole(r))
    BY <1>0, <2>1 DEF Grows, Shown, Whole, Row, Statuses, SetTerminal
  <2> HIDE DEF r
  <2> QED
    BY <2>1, <2>2, <2>3, StepW DEF row
<1>12. CASE Stamp(e)
  <2> DEFINE r == SetStage(row, "complete")
  <2>1. /\ pc[e] = "stamp" /\ (Commit(e, r) \/ Fault(e, r))
        /\ \/ Commit(e, r) /\ Proceed(e, "snapshot")
           \/ Release(e)
           \/ Proceed(e, "fail")
    BY <1>12 DEF Stamp, row
  <2>2. r \in Row /\ Grows(row, r) /\ Whole(r)
    BY <1>0, <2>1 DEF Grows, Whole, Row, Stages, SetStage
  <2> HIDE DEF r
  <2> QED
    BY <2>1, <2>2, AwayW DEF row
<1>13. CASE SaveSnapshot(e)
  <2> DEFINE r == [row EXCEPT !.snaps = @ + 1]
  <2>1. /\ pc[e] = "snapshot" /\ (Commit(e, r) \/ Fault(e, r))
        /\ Release(e) \/ Proceed(e, "fail")
    BY <1>13 DEF SaveSnapshot, row
  <2>2. r \in Row /\ Grows(row, r) /\ Whole(r)
    BY <1>0, <2>1 DEF Grows, Whole, Row
  <2> HIDE DEF r
  <2> QED
    BY <2>1, <2>2, AwayW DEF row
<1>14. CASE SetFailed(e)
  <2> DEFINE r == SetTerminal(row, "failed")
  <2>1. pc[e] = "fail" /\ Step(e, "fail", r, "failstage")
    BY <1>14 DEF SetFailed, Step, row
  <2>2. r \in Row
    BY <1>0, <2>1, RowTypes DEF Stages
  <2>3. Grows(row, r) /\ (Shown(r) => Whole(r)) /\ ("failstage" \in Showing => Whole(r))
    BY <1>0, <2>1 DEF Grows, Shown, Whole, Row, Statuses, SetTerminal
  <2> HIDE DEF r
  <2> QED
    BY <2>1, <2>2, <2>3, StepW DEF row
<1>15. CASE SetFailedStage(e)
  <2> DEFINE r == SetStage(row, "failed")
  <2>1. pc[e] = "failstage" /\ (Commit(e, r) \/ Fault(e, r)) /\ Raise(e)
    BY <1>15 DEF SetFailedStage, row
  <2>2. r \in Row /\ Grows(row, r) /\ (Shown(r) => Whole(r))
    BY <1>0, <2>1 DEF Grows, Shown, Whole, Row, Stages, SetStage
  <2> HIDE DEF r
  <2> QED
    BY <2>1, <2>2, AwayW DEF row
<1>16. CASE Mark(e)
  <2> DEFINE r == MarkFailed(row, att[e].err)
  <2>1. /\ pc[e] = "mark" /\ (Commit(e, r) \/ Fault(e, r))
        /\ e \in Workers /\ (Release(e) \/ Outage(e))
    BY <1>16 DEF Mark, row, WInv, TInv, Control, Seated, WorkersOnly
  <2>2. att[e].err \in Errors
    BY DEF WInv, TInv, Control, Attempt
  <2>3. r \in Row
    BY <1>0, <2>1, <2>2, RowTypes
  <2>4. Grows(row, r) /\ (Shown(r) => Whole(r))
    BY <1>0, <2>1 DEF Grows, Shown, Whole, Row, MarkFailed, SetTerminal
  <2> HIDE DEF r
  <2> QED
    BY <2>1, <2>3, <2>4, AwayW DEF row
<1> QED
  BY <1>1, <1>2, <1>3, <1>4, <1>5, <1>6, <1>7, <1>8, <1>9, <1>10, <1>11, <1>12,
     <1>13, <1>14, <1>15, <1>16 DEF Execute

\* Rows that keep what they show and what they hold disturb nobody who stays.
LEMMA RowsW ==
  ASSUME WInv, TInv',
         \A j \in Jobs : /\ jobs'[j].report = jobs[j].report
                         /\ jobs'[j].runs = jobs[j].runs
                         /\ Shown(jobs'[j]) => Shown(jobs[j]),
         \A f \in Executors :
           \/ pc'[f] = pc[f] /\ cur'[f] = cur[f] /\ att'[f] = att[f]
           \/ pc'[f] \notin Busy /\ att'[f] = NoAttempt
           \/ /\ pc[f] \notin Busy /\ pc'[f] \in Preparing \cup {"loop", "down"}
              /\ att'[f] \in {att[f], NoAttempt}
  PROVE  WInv'
<1>1. \A j \in Jobs : Shown(jobs'[j]) => Whole(jobs'[j])
  BY DEF WInv, CompletedIsWhole, Shown, Whole
<1>2. ASSUME NEW f \in Executors PROVE Earned(f)'
  <2>1. CASE pc'[f] = pc[f] /\ cur'[f] = cur[f] /\ att'[f] = att[f]
    <3>1. pc[f] \in Busy => cur[f] \in Jobs
      BY BusyJob DEF WInv
    <3> QED
      BY <2>1, <3>1 DEF WInv, Earned, Whole, Showing, Busy, Running
  <2>2. CASE pc'[f] \notin Busy /\ att'[f] = NoAttempt
    BY <2>2 DEF Earned, NoAttempt, Showing, Busy, Running
  <2>3. CASE /\ pc[f] \notin Busy /\ pc'[f] \in Preparing \cup {"loop", "down"}
             /\ att'[f] \in {att[f], NoAttempt}
    <3>1. att'[f].saved = 0 /\ pc'[f] \notin Showing
      BY <2>3 DEF WInv, Earned, NoAttempt, Showing, Wrapping, Preparing
    <3>2. ASSUME pc'[f] \in Busy PROVE jobs'[cur'[f]].runs \in Nat
      <4>1. cur'[f] \in Jobs /\ jobs' \in [Jobs -> Row]
        BY <3>2 DEF TInv, Control, Seated, Data
      <4> QED
        BY <4>1 DEF Row
    <3> QED
      BY <3>1, <3>2 DEF Earned
  <2> QED
    BY <2>1, <2>2, <2>3
<1>3. CompletedIsWhole'
  BY <1>1 DEF CompletedIsWhole, Shown, Whole
<1> QED
  BY <1>2, <1>3 DEF WInv

LEMMA WInvNext == WInv /\ [Next]_vars => WInv'
<1> SUFFICES ASSUME WInv, [Next]_vars PROVE WInv'
  OBVIOUS
<1>0. TInv' /\ TInv
  BY TInvNext DEF WInv
<1>f. /\ pc \in [Executors -> Labels] /\ cur \in [Executors -> Jobs \cup {None}]
      /\ att \in [Executors -> Attempt] /\ jobs \in [Jobs -> Row]
      /\ "loop" \notin Busy /\ "down" \notin Busy
  BY <1>0 DEF TInv, Control, Data, Busy, Preparing, Running, Wrapping, Failing
<1>1. ASSUME NEW sec \in BOOLEAN, created < MaxJobs, created' = created + 1,
             jobs' = [jobs EXCEPT ![created + 1] = NewRow(sec)]
      PROVE  \A j \in Jobs : /\ jobs'[j].report = jobs[j].report
                             /\ jobs'[j].runs = jobs[j].runs
                             /\ Shown(jobs'[j]) => Shown(jobs[j])
  <2>1. created + 1 \in Jobs /\ jobs[created + 1] = NoRow
    BY <1>0, <1>1, QueueAssumption DEF TInv, Data, Unborn, Jobs
  <2>2. /\ NewRow(sec).report = NoRow.report /\ NewRow(sec).runs = NoRow.runs
        /\ ~Shown(NewRow(sec))
    BY DEF NewRow, NoRow, Shown
  <2> QED
    BY <1>f, <1>1, <2>1, <2>2
<1>2. ASSUME NEW sec \in BOOLEAN, Enqueue(sec) PROVE WInv'
  BY <1>0, <1>1, <1>2, RowsW DEF Enqueue
<1>3. ASSUME NEW h \in Handlers, RunInline(h) PROVE WInv'
  <2>1. h \in Executors /\ pc[h] \notin Busy /\ "begin" \in Preparing
    BY <1>3, <1>f DEF RunInline, Executors, Preparing
  <2>2. \A f \in Executors :
          \/ pc'[f] = pc[f] /\ cur'[f] = cur[f] /\ att'[f] = att[f]
          \/ pc[f] \notin Busy /\ pc'[f] \in Preparing /\ att'[f] = NoAttempt
    BY <1>f, <1>3, <2>1 DEF RunInline, Goto
  <2> QED
    BY <1>0, <1>1, <1>3, <2>2, RowsW DEF RunInline
<1>4. ASSUME NEW w \in Workers, Start(w) PROVE WInv'
  <2>1. w \in Executors /\ pc[w] = "down"
    BY <1>4 DEF Start, Executors
  <2> QED
    BY <1>0, <1>f, <1>4, <2>1, RowsW DEF Start, Goto
<1>5. ASSUME NEW w \in Workers, Poll(w) PROVE WInv'
  <2>1. w \in Executors
    BY DEF Executors
  <2>2. ASSUME Outage(w)
        PROVE  \A f \in Executors :
                 \/ pc'[f] = pc[f] /\ cur'[f] = cur[f] /\ att'[f] = att[f]
                 \/ pc'[f] \notin Busy /\ att'[f] = NoAttempt
    BY <1>f, <2>1, <2>2 DEF Outage, Goto
  <2>3. CASE RequeueStale(w)
    <3>1. \A j \in Jobs : jobs'[j] = jobs[j] \/ jobs'[j] = Requeue(jobs[j])
      BY <1>f, <2>3 DEF RequeueStale
    <3>2. \A j \in Jobs : /\ Requeue(jobs[j]).report = jobs[j].report
                          /\ Requeue(jobs[j]).runs = jobs[j].runs
                          /\ Shown(Requeue(jobs[j])) => Shown(jobs[j])
      BY <1>f DEF Requeue, Shown, Row
    <3>3. \A j \in Jobs : /\ jobs'[j].report = jobs[j].report
                          /\ jobs'[j].runs = jobs[j].runs
                          /\ Shown(jobs'[j]) => Shown(jobs[j])
      BY <3>1, <3>2
    <3>4. \A f \in Executors :
            \/ pc'[f] = pc[f] /\ cur'[f] = cur[f] /\ att'[f] = att[f]
            \/ pc'[f] \notin Busy /\ att'[f] = NoAttempt
            \/ /\ pc[f] \notin Busy /\ pc'[f] \in Preparing \cup {"loop", "down"}
               /\ att'[f] \in {att[f], NoAttempt}
      BY <2>2, <2>3 DEF RequeueStale
    <3> QED
      BY <1>0, <3>3, <3>4, RowsW
  <2>4. CASE ClaimNext(w)
    <3>1. \A j \in Jobs : jobs'[j] = jobs[j] \/ jobs'[j] = SetRunning(jobs[j])
      BY <1>f, <2>4 DEF ClaimNext, Queued
    <3>2. \A j \in Jobs : /\ SetRunning(jobs[j]).report = jobs[j].report
                          /\ SetRunning(jobs[j]).runs = jobs[j].runs
                          /\ Shown(SetRunning(jobs[j])) => Shown(jobs[j])
      BY <1>f DEF SetRunning, Shown, Row
    <3>3. \/ Outage(w)
          \/ /\ att' = att
             /\ \E j : cur' = [cur EXCEPT ![w] = j]
             /\ \E label \in Preparing : pc' = [pc EXCEPT ![w] = label]
      BY <2>4 DEF ClaimNext, Goto, Preparing
    <3>4. pc[w] \notin Busy
      BY <1>f, <2>4 DEF ClaimNext
    <3>5. \A j \in Jobs : /\ jobs'[j].report = jobs[j].report
                          /\ jobs'[j].runs = jobs[j].runs
                          /\ Shown(jobs'[j]) => Shown(jobs[j])
      BY <3>1, <3>2
    <3>6. \A f \in Executors :
            \/ pc'[f] = pc[f] /\ cur'[f] = cur[f] /\ att'[f] = att[f]
            \/ pc'[f] \notin Busy /\ att'[f] = NoAttempt
            \/ /\ pc[f] \notin Busy /\ pc'[f] \in Preparing \cup {"loop", "down"}
               /\ att'[f] \in {att[f], NoAttempt}
      BY <1>f, <2>1, <2>2, <3>3, <3>4
    <3> QED
      BY <1>0, <3>5, <3>6, RowsW
  <2>5. CASE PollEmpty(w)
    BY <1>0, <2>5, RowsW DEF PollEmpty
  <2> QED
    BY <1>5, <2>3, <2>4, <2>5 DEF Poll
<1>6. ASSUME NEW e \in Executors, Crash(e) PROVE WInv'
  BY <1>0, <1>f, <1>6, RowsW DEF Crash, Goto
<1>7. ASSUME NEW j \in Jobs, Age(j) PROVE WInv'
  <2>1. \A i \in Jobs : jobs'[i] = jobs[i] \/ jobs'[i] = [jobs[i] EXCEPT !.started = "stale"]
    BY <1>f, <1>7 DEF Age
  <2>2. \A i \in Jobs : LET s == [jobs[i] EXCEPT !.started = "stale"] IN
                         /\ s.report = jobs[i].report /\ s.runs = jobs[i].runs
                         /\ Shown(s) => Shown(jobs[i])
    BY <1>f DEF Shown, Row
  <2> QED
    BY <1>0, <1>7, <2>1, <2>2, RowsW DEF Age
<1>8. CASE UNCHANGED vars
  BY <1>0, <1>8, RowsW DEF vars
<1> QED
  BY <1>0, <1>2, <1>3, <1>4, <1>5, <1>6, <1>7, <1>8, ExecuteW DEF Next

\* A job shown as completed has its report and all outputs of an attempt in
\* every execution: however late its executors are, whether two of them share
\* it, and whatever crashes and lost acknowledgements they went through.
THEOREM CompletedJobsAreWhole == Spec => []CompletedIsWhole
<1> QED
  BY WInvInit, WInvNext, PTL DEF Spec, WInv
=============================================================================
