----------------------------- MODULE ResearchRun -----------------------------
(***************************************************************************)
(* orchestration/runtime.py on top of ProviderGateway: the runs of a       *)
(* process share one semaphore and one gateway.  A run takes its agents    *)
(* through the stages of a plan, all agents of a stage at once; after the  *)
(* validation the agents whose claims were rejected run a second time, and *)
(* the validator with them.  An exception of one agent ends the run, while *)
(* gather leaves the others running.                                       *)
(*                                                                         *)
(* An agent's output is the number of its attempt, and what the validator  *)
(* was given is the attempt of every agent whose claims it saw.            *)
(***************************************************************************)
EXTENDS ProviderGateway

CONSTANTS
  Entity, Collection, Analysis, Validator, Synthesis,  \* the agents of a plan
  Enriched,        \* agents that ask the gateway
  MaxConcurrency   \* the semaphore

Repairable == Collection \cup Analysis

ASSUME RunAssumption ==
  /\ Agents = {Entity, Validator, Synthesis} \cup Repairable
  /\ Cardinality({Entity, Validator, Synthesis}) = 3
  /\ {Entity, Validator, Synthesis} \cap Repairable = {}
  /\ Enriched \subseteq Agents
  /\ MaxConcurrency \in Nat \ {0}

VARIABLES
  stage,   \* where a run stands
  task,    \* _run_one of an agent
  output,  \* the outputs of the run, by agent: the attempt, 0 for none
  seen     \* candidate_claims, as the validator last got them

runVars == <<gatewayVars, stage, task, output, seen>>

Ended == {"completed", "failed"}
Stages == {"idle", "resolve", "collect", "analyze", "validate", "repair", "revalidate",
           "synthesize"} \cup Ended

AgentsOf(s) ==
  CASE s = "resolve" -> {Entity}
    [] s = "collect" -> Collection
    [] s = "analyze" -> Analysis
    [] s \in {"validate", "revalidate"} -> {Validator}
    [] s = "synthesize" -> {Synthesis}

Nothing == [a \in Agents |-> 0]

RunTypeOK ==
  /\ GatewayTypeOK
  /\ stage \in [Jobs -> Stages]
  /\ task \in [Jobs -> [Agents -> {"none", "queued", "running", "asking", "done"}]]
  /\ \A j \in Jobs, a \in Agents : Waiting(<<j, a>>) => task[j][a] = "asking"
  /\ output \in [Jobs -> [Agents -> 0..2]]
  /\ seen \in [Jobs -> [Agents -> 0..2]]

RunInit ==
  /\ GatewayInit
  /\ stage = [j \in Jobs |-> "idle"]
  /\ task = [j \in Jobs |-> [a \in Agents |-> "none"]]
  /\ output = [j \in Jobs |-> Nothing]
  /\ seen = [j \in Jobs |-> Nothing]

-----------------------------------------------------------------------------
(* run.                                                                    *)

\* The run goes on to stage s, whose tasks wait for the semaphore.
Enter(j, s, agents) ==
  /\ stage' = [stage EXCEPT ![j] = s]
  /\ task' = [task EXCEPT ![j] = [a \in Agents |-> IF a \in agents THEN "queued" ELSE "none"]]

\* on_stage, or the loading of the context, raises between two stages.
Abort(j) ==
  /\ stage' = [stage EXCEPT ![j] = "failed"]
  /\ task' = [task EXCEPT ![j] = [a \in Agents |-> "none"]]

Start(j) ==
  /\ stage[j] = "idle"
  /\ Enter(j, "resolve", {Entity}) \/ Abort(j)
  /\ UNCHANGED <<gatewayVars, output, seen>>

\* gather returns: every task of the stage has its output.
Gathered(j) == stage[j] \notin {"idle"} \cup Ended /\ \A a \in Agents : task[j][a] \in {"none", "done"}

After == [resolve |-> "collect", collect |-> "analyze", analyze |-> "validate",
          repair |-> "revalidate", revalidate |-> "synthesize"]

\* Mutation: what the second validation sees is not refreshed.
NextStageKeepsClaims(j) ==
  /\ Gathered(j) /\ stage[j] \in DOMAIN After
  /\ LET s == After[stage[j]]
     IN \/ /\ Enter(j, s, AgentsOf(s))
           /\ seen' = IF s = "validate" THEN [seen EXCEPT ![j] = output[j]] ELSE seen
        \/ Abort(j) /\ UNCHANGED seen
  /\ UNCHANGED <<gatewayVars, output>>

\* The next stage; candidate_claims are collected before a validation.
NextStage(j) ==
  /\ Gathered(j) /\ stage[j] \in DOMAIN After
  /\ LET s == After[stage[j]]
     IN \/ /\ Enter(j, s, AgentsOf(s))
           /\ seen' = IF s \in {"validate", "revalidate"}
                      THEN [seen EXCEPT ![j] = output[j]] ELSE seen
        \/ stage[j] # "repair" /\ Abort(j) /\ UNCHANGED seen
  /\ UNCHANGED <<gatewayVars, output>>

\* Mutation: every validation may ask for repairs.
RepairAgain(j) ==
  /\ Gathered(j) /\ stage[j] \in {"validate", "revalidate"}
  /\ \/ Enter(j, "synthesize", {Synthesis})
     \/ \E agents \in SUBSET Repairable \ {{}} : Enter(j, "repair", agents)
     \/ Abort(j)
  /\ UNCHANGED <<gatewayVars, output, seen>>

\* _execute_bounded_repairs, after the first validation.
Repair(j) ==
  /\ Gathered(j) /\ stage[j] = "validate"
  /\ \/ Enter(j, "synthesize", {Synthesis})
     \/ \E agents \in SUBSET Repairable \ {{}} : Enter(j, "repair", agents)
     \/ Abort(j)
  /\ UNCHANGED <<gatewayVars, output, seen>>

Complete(j) ==
  /\ Gathered(j) /\ stage[j] = "synthesize"
  /\ stage' = [stage EXCEPT ![j] = "completed"]
  /\ UNCHANGED <<gatewayVars, task, output, seen>>

-----------------------------------------------------------------------------
(* _run_one and the agents.                                                *)

Holders == {c \in Callers : task[c[1]][c[2]] \in {"running", "asking"}}

\* async with self.semaphore.
Acquire(j, a) ==
  /\ task[j][a] = "queued"
  /\ Cardinality(Holders) < MaxConcurrency
  /\ task' = [task EXCEPT ![j][a] = "running"]
  /\ UNCHANGED <<gatewayVars, stage, output, seen>>

\* The agent returns; nobody waits for it when its run has failed.
Return(j, a) ==
  /\ task' = [task EXCEPT ![j][a] = IF stage[j] = "failed" THEN "none" ELSE "done"]
  /\ output' = IF stage[j] = "failed" THEN output
               ELSE [output EXCEPT ![j][a] = IF stage[j] \in {"repair", "revalidate"} THEN 2 ELSE 1]
  /\ UNCHANGED <<stage, seen>>

\* Mutation: an exception is taken for an output.
RaiseIgnored(j, a) ==
  /\ task' = [task EXCEPT ![j][a] = IF stage[j] = "failed" THEN "none" ELSE "done"]
  /\ UNCHANGED <<stage, output, seen>>

\* The agent raises, and its run with it; its siblings go on.
Raise(j, a) ==
  /\ task' = [task EXCEPT ![j] = [b \in Agents |-> IF b = a \/ @[b] = "done" THEN "none" ELSE @[b]]]
  /\ stage' = [stage EXCEPT ![j] = "failed"]
  /\ UNCHANGED <<output, seen>>

\* The deterministic part of an agent, and the call an enriched one makes.
Work(j, a) ==
  /\ task[j][a] = "running"
  /\ \/ (Return(j, a) \/ Raise(j, a)) /\ UNCHANGED gatewayVars
     \/ /\ a \in Enriched
        /\ Ask(<<j, a>>)
        /\ task' = [task EXCEPT ![j][a] = "asking"]
        /\ UNCHANGED <<stage, output, seen>>

\* The call of the gateway is over, one way or the other.
Enrich(j, a) ==
  /\ task[j][a] = "asking" /\ ~Waiting(<<j, a>>)
  /\ Return(j, a)
  /\ UNCHANGED gatewayVars

-----------------------------------------------------------------------------
Advance(j) == Start(j) \/ NextStage(j) \/ Repair(j) \/ Complete(j)
RunAgent(j, a) == Acquire(j, a) \/ Work(j, a) \/ Enrich(j, a)
Reply(c) == Respond(c) /\ UNCHANGED <<stage, task, output, seen>>

RunNext ==
  \/ \E j \in Jobs : Advance(j) \/ \E a \in Agents : RunAgent(j, a)
  \/ \E c \in Callers : Reply(c)
  \/ \E p \in Providers : Cool(p) /\ UNCHANGED <<stage, task, output, seen>>
  \/ (\A j \in Jobs : stage[j] \in Ended) /\ UNCHANGED runVars

RunSpec == RunInit /\ [][RunNext]_runVars

\* The event loop does not rest while a run, an agent or an answer is ready:
\* agents compute for a finite time, and requests have timeouts.  Nothing is
\* assumed of the order in which it serves them.
FairRunSpec ==
  /\ RunSpec
  /\ WF_runVars(\E j \in Jobs : \/ Advance(j)
                                \/ \E a \in Agents : RunAgent(j, a) \/ Reply(<<j, a>>))

-----------------------------------------------------------------------------
\* A completed run is no partial one: every agent of the plan has an output, and
\* the claims the synthesis got are those of the outputs the run returns, in
\* the version the last validation saw, whatever was repaired or failed.
ReportIsValidated ==
  \A j \in Jobs :
    stage[j] \in {"synthesize", "completed"} =>
      \A a \in Repairable : output[j][a] > 0 /\ seen[j][a] = output[j][a]

\* A provider that is down costs the process at most Threshold - 1 + MaxConcurrency
\* failed requests before it is left alone, counting those under way: circuit
\* and semaphore together bound them, also when failed runs leave agents behind.
OutageIsCheap ==
  \A p \in Providers :
    circuit[p].failures + Cardinality(InFlight(p)) <= Threshold - 1 + MaxConcurrency

\* Every run ends, though its agents share the semaphore with those a failed
\* run has left behind, and repairs lead to further validations.
RunEnds == \A j \in Jobs : stage[j] # "idle" ~> stage[j] \in Ended
=============================================================================
