---------------------------- MODULE ResearchIntake ----------------------------
(***************************************************************************)
(* How a research job comes to be: ResearchService.enqueue reserves a unit *)
(* of the owner's daily quota (core/usage.py), inserts the job, and gives  *)
(* the unit back when the insert fails.  Each of the three is a            *)
(* transaction of its own; calls of different requests and of the event    *)
(* dispatcher interleave, a transaction may fail before it commits or      *)
(* commit and lose its acknowledgement, and a process may die between two. *)
(*                                                                         *)
(* Days are numbered; a call asks for the date when it reserves and again  *)
(* when it releases.  An event job is the one of its event and owner, by   *)
(* the unique index of migration 0019.                                     *)
(***************************************************************************)
EXTENDS Naturals, FiniteSets, SequencesExt

CONSTANTS
  Callers,     \* requests and dispatchers that call enqueue
  Users,       \* owners of jobs
  Busy,        \* those who have a job of their own today
  Events,      \* corporate events that may trigger a job
  None,        \* "no user", "no event"
  JobLimit, DeepLimit, EventLimit,   \* the daily limits of an owner
  MaxDays,     \* bound: days
  MaxCrashes,  \* bound: calls cut off
  MaxFaults    \* bound: failed transactions

Days == 1..MaxDays
Kinds == {"all", "deep", "event"}
Limit == [all |-> JobLimit, deep |-> DeepLimit, event |-> EventLimit]

\* A limit is at least one (core/config.py), so an owner may have one job.
ASSUME IntakeAssumption ==
  /\ Busy \subseteq Users /\ (Busy # {} => JobLimit > 0)
  /\ IsFiniteSet(Callers) /\ IsFiniteSet(Busy)
  /\ JobLimit \in Nat /\ DeepLimit \in Nat /\ EventLimit \in Nat
  /\ MaxDays \in Nat \ {0} /\ MaxCrashes \in Nat /\ MaxFaults \in Nat
  /\ None \notin Users /\ None \notin Events

VARIABLES
  today,
  used,     \* table user_usage_daily: the counters of an owner and a day
  jobs,     \* the jobs inserted, with the day their unit was reserved on
  call,     \* where a caller's call of enqueue stands
  slips,    \* auxiliary: releases of a unit that was not there to give back
  crashes,
  faults

intakeVars == <<today, used, jobs, call, slips, crashes, faults>>

Job == [id : Nat, user : Users, day : Days, deep : BOOLEAN, event : Events \cup {None}]
Results == {"queued", "limited", "duplicate", "failed"}
Call == [at : {"idle", "reserve", "create", "release"} \cup Results,
         user : Users \cup {None}, day : Days,
         deep : BOOLEAN, event : Events \cup {None}, inserted : BOOLEAN, why : Results]

Idle == [at |-> "idle", user |-> None, day |-> 1,
         deep |-> FALSE, event |-> None, inserted |-> FALSE, why |-> "failed"]

IntakeTypeOK ==
  /\ today \in Days
  /\ used \in [Users -> [Days -> [Kinds -> Nat]]]
  /\ jobs \subseteq Job
  /\ call \in [Callers -> Call]
  /\ slips \in [Users -> [Days -> Nat]]
  /\ crashes \in 0..MaxCrashes
  /\ faults \in 0..MaxFaults

IntakeInit ==
  /\ today = 1
  /\ used = [u \in Users |-> [d \in Days |-> [k \in Kinds |->
               IF u \in Busy /\ d = 1 /\ k = "all" THEN 1 ELSE 0]]]
  /\ jobs = LET busy == SetToSeq(Busy)
            IN {[id |-> i, user |-> busy[i], day |-> 1, deep |-> FALSE, event |-> None] : i \in DOMAIN busy}
  /\ call = [c \in Callers |-> Idle]
  /\ slips = [u \in Users |-> [d \in Days |-> 0]]
  /\ crashes = 0
  /\ faults = 0

-----------------------------------------------------------------------------
\* The counters a job (or a call) weighs on.
KindsOf(j) == {"all"} \cup (IF j.deep THEN {"deep"} ELSE {})
                      \cup (IF j.event # None THEN {"event"} ELSE {})

\* Mutation: a limit is tested one job late.
ExhaustedLate(c) ==
  \E k \in KindsOf(call[c]) : used[call[c].user][today][k] > Limit[k]

\* A limit of the call's owner is reached today.
Exhausted(c) ==
  \E k \in KindsOf(call[c]) : used[call[c].user][today][k] >= Limit[k]

Charge(c) ==
  [used EXCEPT ![call[c].user][today] =
     [k \in Kinds |-> IF k \in KindsOf(call[c]) THEN @[k] + 1 ELSE @[k]]]

\* greatest(... - 1, 0), on the row of the day the release runs.
Refund(c) ==
  [used EXCEPT ![call[c].user][today] =
     [k \in Kinds |-> IF k \in KindsOf(call[c]) /\ @[k] > 0 THEN @[k] - 1 ELSE @[k]]]

JobOf(c) == [id |-> Cardinality(jobs) + 1, user |-> call[c].user, day |-> call[c].day,
             deep |-> call[c].deep, event |-> call[c].event]

Enqueued(e, u) == \E j \in jobs : j.event = e /\ j.user = u

\* Mutation: the unique index is missing.
NeverConflicts(c) == FALSE

\* The unique index on the source event and the owner of a job.
Conflicts(c) == call[c].event # None /\ Enqueued(call[c].event, call[c].user)

Fault == faults < MaxFaults /\ faults' = faults + 1

-----------------------------------------------------------------------------
\* A caller enters enqueue: a user's request, or the dispatcher for an event.
Submit(c, u, deep, e) ==
  /\ call[c].at = "idle"
  /\ call' = [call EXCEPT ![c] = [Idle EXCEPT !.at = "reserve", !.user = u,
                                              !.deep = deep, !.event = e]]
  /\ UNCHANGED <<today, used, jobs, slips, crashes, faults>>

\* ResearchUsageGate.reserve: the row is locked from the check to the update.
Reserve(c) ==
  /\ call[c].at = "reserve"
  /\ \/ /\ Exhausted(c)
        /\ call' = [call EXCEPT ![c].at = "limited"]
        /\ UNCHANGED <<used, faults>>
     \/ /\ ~Exhausted(c)
        /\ used' = Charge(c)
        /\ call' = [call EXCEPT ![c].at = "create", ![c].day = today]
        /\ UNCHANGED faults
     \/ /\ Fault
        /\ used' = used \/ (~Exhausted(c) /\ used' = Charge(c))
        /\ call' = [call EXCEPT ![c].at = "failed"]
  /\ UNCHANGED <<today, jobs, slips, crashes>>

\* Mutation: enqueue keeps the unit of an insert that failed.
CreateKeepsUnit(c) ==
  /\ call[c].at = "create"
  /\ \/ /\ ~Conflicts(c)
        /\ jobs' = jobs \cup {JobOf(c)}
        /\ call' = [call EXCEPT ![c].at = "queued"]
     \/ /\ Conflicts(c)
        /\ call' = [call EXCEPT ![c].at = "duplicate"]
        /\ UNCHANGED jobs
  /\ UNCHANGED <<today, used, slips, crashes, faults>>

\* create_job, and the except branch it may lead to.
CreateJob(c) ==
  /\ call[c].at = "create"
  /\ \/ /\ ~Conflicts(c)
        /\ jobs' = jobs \cup {JobOf(c)}
        /\ call' = [call EXCEPT ![c].at = "queued"]
        /\ UNCHANGED faults
     \/ /\ Conflicts(c)
        /\ call' = [call EXCEPT ![c].at = "release", ![c].why = "duplicate"]
        /\ UNCHANGED <<jobs, faults>>
     \/ /\ Fault
        /\ \E inserted \in {b \in BOOLEAN : b => ~Conflicts(c)} :
             /\ jobs' = IF inserted THEN jobs \cup {JobOf(c)} ELSE jobs
             /\ call' = [call EXCEPT ![c].at = "release", ![c].why = "failed", ![c].inserted = inserted]
  /\ UNCHANGED <<today, used, slips, crashes>>

\* The unit is another's: its job exists after all, or its day is over.
Slips(c) == call[c].inserted \/ call[c].day # today

\* ResearchUsageGate.release, after which the insert's exception is raised
\* again, unless the release itself fails.
Release(c) ==
  LET released ==
        /\ used' = Refund(c)
        /\ slips' = IF Slips(c) THEN [slips EXCEPT ![call[c].user][today] = @ + 1] ELSE slips
  IN /\ call[c].at = "release"
     /\ \/ /\ released
           /\ call' = [call EXCEPT ![c].at = call[c].why]
           /\ UNCHANGED faults
        \/ /\ Fault
           /\ released \/ UNCHANGED <<used, slips>>
           /\ call' = [call EXCEPT ![c].at = "failed"]
     /\ UNCHANGED <<today, jobs, crashes>>

\* The caller has its answer.
Return(c) ==
  /\ call[c].at \in Results
  /\ call' = [call EXCEPT ![c] = Idle]
  /\ UNCHANGED <<today, used, jobs, slips, crashes, faults>>

\* The process dies or the request is cancelled: except Exception catches
\* neither, so nothing is given back.
CutOff(c) ==
  /\ call[c].at # "idle" /\ crashes < MaxCrashes
  /\ crashes' = crashes + 1
  /\ call' = [call EXCEPT ![c] = Idle]
  /\ UNCHANGED <<today, used, jobs, slips, faults>>

Midnight ==
  /\ today < MaxDays
  /\ today' = today + 1
  /\ UNCHANGED <<used, jobs, call, slips, crashes, faults>>

Enqueue(c) == Reserve(c) \/ CreateJob(c) \/ Release(c)

IntakeNext ==
  \/ \E c \in Callers, u \in Users :
       \/ \E deep \in BOOLEAN : Submit(c, u, deep, None)
       \/ \E e \in Events : Submit(c, u, FALSE, e)
  \/ \E c \in Callers : Enqueue(c) \/ Return(c) \/ CutOff(c)
  \/ Midnight

IntakeSpec == IntakeInit /\ [][IntakeNext]_intakeVars

-----------------------------------------------------------------------------
Charged(u, d, k) == {j \in jobs : j.user = u /\ j.day = d /\ k \in KindsOf(j)}

\* The daily limits, in all, of deep jobs and of those triggered by events:
\* each job over a limit was let in by a release that gave back a unit of
\* another job or, after midnight, of another day.  (Without slips no owner
\* gets more than core/config.py allows.)
OverrunsAreSlips ==
  \A u \in Users, d \in Days, k \in Kinds :
    Cardinality(Charged(u, d, k)) <= Limit[k] + slips[u][d]

\* While no transaction fails, no call is cut off and no midnight intervenes,
\* an owner pays for the jobs it has and nothing else: a refused or duplicate
\* request is free, whatever calls it raced with.
OnlyJobsAreCharged ==
  (faults = 0 /\ crashes = 0 /\ today = 1 /\ \A c \in Callers : call[c].at \notin {"create", "release"})
    => \A u \in Users, k \in Kinds : used[u][1][k] = Cardinality(Charged(u, 1, k))
=============================================================================
