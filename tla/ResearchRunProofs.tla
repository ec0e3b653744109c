--------------------------- MODULE ResearchRunProofs ---------------------------
(* What ResearchRun and the gateway it composes are proved to do, in three    *)
(* parts: the circuits and budgets of ProviderGateway, the report of a run,   *)
(* and, from both, what an outage costs.                                      *)
EXTENDS ResearchRun, FiniteSetTheorems, TLAPS

(* The circuits and budgets of ProviderGateway, under every run of            *)
(* ResearchRun: whatever the order in which overlapping calls end, a provider *)
(* is blocked exactly when its failures say so, and no job overspends.        *)

\* A provider's entries in the two dictionaries agree.
Agrees(s) ==
  /\ s \in [failures : Nat, block : {"none", "cooling", "over"}]
  /\ s.block # "none" <=> s.failures >= Threshold

Circuits == {t \in [Providers -> [failures : Nat, block : {"none", "cooling", "over"}]] :
               \A p \in Providers : Agrees(t[p])}
Requests == [Callers -> [provider : Providers \cup {Nobody}, rest : Seq(Providers)]]
Budgets == [Jobs -> [calls : 0..MaxCalls, tokens : 0..MaxTokens]]

\* The inductive invariant.  BlockedIffFailing alone is none: what a step makes
\* of a count depends on its being a number, and on whom a request names.
GInv == circuit \in Circuits /\ usage \in Budgets /\ request \in Requests

LEMMA HealthyAgrees == Agrees(Healthy)
BY GatewayAssumption DEF Agrees, Healthy

LEMMA StruckAgrees == ASSUME NEW s, Agrees(s) PROVE Agrees(Struck(s))
BY GatewayAssumption DEF Agrees, Struck

LEMMA ExaminedAgrees == ASSUME NEW s, Agrees(s) PROVE Agrees(Examined(s))
BY HealthyAgrees DEF Examined

\* A table in which one provider's entry is replaced.
LEMMA OneCircuit ==
  ASSUME NEW t \in Circuits, NEW p \in Providers, NEW s, Agrees(s)
  PROVE  [t EXCEPT ![p] = s] \in Circuits
BY DEF Circuits, Agrees

\* A request that is made, or over.
LEMMA OneRequest ==
  ASSUME GInv, NEW c \in Callers, NEW p \in Providers \cup {Nobody}, NEW rest \in Seq(Providers)
  PROVE  [request EXCEPT ![c] = [provider |-> p, rest |-> rest]] \in Requests
BY DEF GInv, Requests

LEMMA NoRequestKept == ASSUME GInv, NEW c \in Callers
                       PROVE [request EXCEPT ![c] = NoRequest] \in Requests
<1>1. <<>> \in Seq(Providers)
  OBVIOUS
<1> QED
  BY <1>1, OneRequest DEF NoRequest

\* The loop over the choices keeps the circuits it is given, and the budget.
LEMMA TryKeeps ==
  ASSUME GInv, NEW c \in Callers, NEW choices \in Seq(Providers), NEW t \in Circuits,
         Try(c, choices, t)
  PROVE  GInv'
<1>1. CASE circuit' = t /\ request' = [request EXCEPT ![c] = NoRequest] /\ UNCHANGED usage
  BY <1>1, NoRequestKept DEF GInv
<1>2. ASSUME NEW i \in DOMAIN choices,
             circuit' = [t EXCEPT ![choices[i]] = Examined(@)],
             \/ /\ Affordable(c)
                /\ usage' = [usage EXCEPT ![JobOf(c)] =
                               [calls |-> @.calls + 1, tokens |-> @.tokens + Cost[AgentOf(c)]]]
                /\ request' = [request EXCEPT ![c] =
                                 [provider |-> choices[i],
                                  rest |-> SubSeq(choices, i + 1, Len(choices))]]
             \/ /\ request' = [request EXCEPT ![c] = NoRequest]
                /\ UNCHANGED usage
      PROVE  GInv'
  <2>1. choices[i] \in Providers /\ SubSeq(choices, i + 1, Len(choices)) \in Seq(Providers)
    OBVIOUS
  <2>2. Agrees(Examined(t[choices[i]]))
    BY <2>1, ExaminedAgrees DEF Circuits
  <2>3. circuit' \in Circuits
    BY <1>2, <2>1, <2>2, OneCircuit
  <2>4. request' \in Requests
    <3>1. [request EXCEPT ![c] = [provider |-> choices[i],
                                  rest |-> SubSeq(choices, i + 1, Len(choices))]] \in Requests
      BY <2>1, OneRequest
    <3> QED
      BY <1>2, <3>1, NoRequestKept
  <2>5. JobOf(c) \in Jobs /\ AgentOf(c) \in Agents
    BY DEF Callers, JobOf, AgentOf
  <2>6. usage' \in Budgets
    <3>1. CASE UNCHANGED usage
      BY <3>1 DEF GInv
    <3>2. ASSUME Affordable(c),
                 usage' = [usage EXCEPT ![JobOf(c)] =
                             [calls |-> @.calls + 1, tokens |-> @.tokens + Cost[AgentOf(c)]]]
          PROVE  usage' \in Budgets
      <4> DEFINE u == usage[JobOf(c)]
      <4>1. u \in [calls : 0..MaxCalls, tokens : 0..MaxTokens] /\ Cost[AgentOf(c)] \in Nat
        BY <2>5, GatewayAssumption DEF GInv, Budgets
      <4>2. /\ u.calls + 1 \in 0..MaxCalls
            /\ u.tokens + Cost[AgentOf(c)] \in 0..MaxTokens
        BY <3>2, <4>1, GatewayAssumption DEF Affordable
      <4>3. usage \in Budgets
        BY DEF GInv
      <4> QED
        BY <2>5, <3>2, <4>2, <4>3 DEF Budgets
    <3> QED
      BY <1>2, <3>1, <3>2
  <2> QED
    BY <2>3, <2>4, <2>6 DEF GInv
<1>3. CASE /\ \A i \in DOMAIN choices : t[choices[i]].block = "cooling"
           /\ circuit' = t
           /\ request' = [request EXCEPT ![c] = NoRequest]
           /\ UNCHANGED usage
  BY <1>1, <1>3
<1> QED
  BY <1>2, <1>3 DEF Try

LEMMA GInvInit == RunInit => GInv
<1> SUFFICES ASSUME RunInit PROVE GInv
  OBVIOUS
<1>1. circuit \in Circuits
  BY HealthyAgrees DEF RunInit, GatewayInit, Circuits, Agrees, Healthy
<1>2. usage \in Budgets
  BY GatewayAssumption DEF RunInit, GatewayInit, Budgets
<1>3. <<>> \in Seq(Providers)
  OBVIOUS
<1>4. request \in Requests
  BY <1>3 DEF RunInit, GatewayInit, Requests, NoRequest
<1> QED
  BY <1>1, <1>2, <1>4 DEF GInv

\* The answers to a request.
LEMMA RespondKeeps == ASSUME GInv, NEW c \in Callers, Respond(c) PROVE GInv'
<1> DEFINE p == request[c].provider
<1>1. p \in Providers \cup {Nobody} /\ request[c].rest \in Seq(Providers)
  BY DEF GInv, Requests
<1>2. CASE Answer(c)
  <2>1. [circuit EXCEPT ![p] = Healthy] \in Circuits
    <3>1. CASE p \in Providers
      BY <3>1, HealthyAgrees, OneCircuit DEF GInv
    <3>2. CASE p \notin Providers
      BY <3>2 DEF GInv, Circuits
    <3> QED
      BY <3>1, <3>2
  <2> QED
    BY <1>2, <2>1, NoRequestKept DEF GInv, Answer
<1>3. CASE Break(c)
  BY <1>3, NoRequestKept DEF GInv, Break
<1>4. ASSUME NEW retryable \in BOOLEAN, Refuse(c, retryable) PROVE GInv'
  <2> DEFINE t == IF retryable THEN [circuit EXCEPT ![p] = Struck(@)] ELSE circuit
  <2>1. t \in Circuits
    <3>1. CASE p \in Providers
      <4>1. Agrees(Struck(circuit[p]))
        BY <3>1, StruckAgrees DEF GInv, Circuits
      <4> QED
        BY <3>1, <4>1, OneCircuit DEF GInv
    <3>2. CASE p \notin Providers
      BY <3>2 DEF GInv, Circuits
    <3> QED
      BY <3>1, <3>2
  <2>2. Try(c, request[c].rest, t)
    BY <1>4 DEF Refuse
  <2> HIDE DEF t
  <2> QED
    BY <1>1, <2>1, <2>2, TryKeeps
<1> QED
  BY <1>2, <1>3, <1>4 DEF Respond

LEMMA AskKeeps == ASSUME GInv, NEW c \in Callers, Ask(c) PROVE GInv'
<1>1. Route[AgentOf(c)] \in Seq(Providers) /\ circuit \in Circuits
  BY GatewayAssumption DEF Callers, AgentOf, GInv
<1> QED
  BY <1>1, TryKeeps DEF Ask

\* A cooldown that ends changes no count.
LEMMA CoolKeeps == ASSUME GInv, NEW p \in Providers, Cool(p) PROVE GInv'
<1>1. Agrees([circuit[p] EXCEPT !.block = "over"])
  BY DEF GInv, Circuits, Agrees, Cool
<1>2. circuit' = [circuit EXCEPT ![p] = [circuit[p] EXCEPT !.block = "over"]]
  BY DEF Cool
<1>3. circuit' \in Circuits
  BY <1>1, <1>2, OneCircuit DEF GInv
<1> QED
  BY <1>3 DEF GInv, Cool

LEMMA GInvNext == GInv /\ [RunNext]_runVars => GInv'
<1> SUFFICES ASSUME GInv, [RunNext]_runVars PROVE GInv'
  OBVIOUS
<1>1. CASE UNCHANGED gatewayVars
  BY <1>1 DEF GInv, gatewayVars
<1>2. ASSUME NEW j \in Jobs, Advance(j) PROVE GInv'
  BY <1>1, <1>2 DEF Advance, Start, NextStage, Repair, Complete
<1>3. ASSUME NEW j \in Jobs, NEW a \in Agents, RunAgent(j, a) PROVE GInv'
  <2>1. <<j, a>> \in Callers
    BY DEF Callers
  <2>2. UNCHANGED gatewayVars \/ Ask(<<j, a>>)
    BY <1>3 DEF RunAgent, Acquire, Work, Enrich
  <2> QED
    BY <1>1, <2>1, <2>2, AskKeeps
<1>4. ASSUME NEW c \in Callers, Reply(c) PROVE GInv'
  BY <1>4, RespondKeeps DEF Reply
<1>5. ASSUME NEW p \in Providers, Cool(p) PROVE GInv'
  BY <1>5, CoolKeeps
<1>6. CASE UNCHANGED runVars
  BY <1>1, <1>6 DEF runVars
<1> QED
  BY <1>2, <1>3, <1>4, <1>5, <1>6 DEF RunNext

LEMMA GInvAlways == RunSpec => []GInv
<1> QED
  BY GInvInit, GInvNext, PTL DEF RunSpec

\* _blocked_until and _failure_counts agree at all times, for every number of
\* providers, runs and agents and every order of answers, errors and expiries.
THEOREM CircuitsAgree == RunSpec => []BlockedIffFailing
<1>1. GInv => BlockedIffFailing
  BY DEF GInv, Circuits, Agrees, BlockedIffFailing
<1> QED
  BY <1>1, GInvAlways, PTL

-----------------------------------------------------------------------------

(* A report that completes is the one that was validated: an inductive        *)
(* invariant over the stages of a run, whatever its agents, their providers   *)
(* and the other runs do.                                                     *)

\* The agents that may have a task in a stage.
Allowed(s) ==
  IF s = "idle" THEN {}
  ELSE IF s = "repair" THEN Repairable
  ELSE IF s = "completed" THEN {Synthesis}
  ELSE AgentsOf(s)

Collected == {"analyze", "validate", "repair", "revalidate", "synthesize", "completed"}
Analyzed == Collected \ {"analyze"}
Validating == Analyzed \ {"repair"}

\* A run's tasks are those of its stage, all of them unless it repairs, and a
\* task that is done has left an output.
Tasks(s, tasks, out) ==
  s # "failed" =>
    /\ \A a \in Agents : tasks[a] # "none" => a \in Allowed(s)
    /\ s \in {"collect", "analyze"} => \A a \in AgentsOf(s) : tasks[a] # "none"
    /\ \A a \in Agents : tasks[a] = "done" => out[a] > 0

\* What a stage has behind it.
Behind(s, out, claims) ==
  /\ s \in Collected => \A a \in Collection : out[a] > 0
  /\ s \in Analyzed => \A a \in Analysis : out[a] > 0
  /\ s \in Validating => \A a \in Repairable : claims[a] = out[a]

VInv ==
  /\ stage \in [Jobs -> Stages]
  /\ task \in [Jobs -> [Agents -> {"none", "queued", "running", "asking", "done"}]]
  /\ output \in [Jobs -> [Agents -> 0..2]]
  /\ seen \in [Jobs -> [Agents -> 0..2]]
  /\ \A j \in Jobs : Tasks(stage[j], task[j], output[j]) /\ Behind(stage[j], output[j], seen[j])

USE DEF Stages, Ended

LEMMA VInvInit == RunInit => VInv
BY DEF RunInit, VInv, Tasks, Behind, Collected, Analyzed, Validating, Nothing, Allowed

\* A run that fails keeps the invariant: nothing is asked of it any more.
LEMMA Failure ==
  ASSUME VInv, NEW j \in Jobs, stage' = [stage EXCEPT ![j] = "failed"],
         NEW tasks \in [Agents -> {"none", "queued", "running", "asking", "done"}],
         task' = [task EXCEPT ![j] = tasks], UNCHANGED <<output, seen>>
  PROVE  VInv'
BY DEF VInv, Tasks, Behind, Collected, Analyzed, Validating

\* A run that enters a stage with its agents queued, and something behind it.
LEMMA Entering ==
  ASSUME VInv, NEW j \in Jobs, NEW s \in Stages \ {"failed"}, NEW agents, Enter(j, s, agents),
         UNCHANGED output, seen' \in {seen, [seen EXCEPT ![j] = output[j]]},
         agents \subseteq Allowed(s),
         s \in {"collect", "analyze"} => AgentsOf(s) \subseteq agents,
         Behind(s, output[j], seen'[j])
  PROVE  VInv'
<1>1. stage' \in [Jobs -> Stages] /\ stage'[j] = s /\ \A i \in Jobs \ {j} : stage'[i] = stage[i]
  BY DEF VInv, Enter
<1>2. /\ task' \in [Jobs -> [Agents -> {"none", "queued", "running", "asking", "done"}]]
      /\ task'[j] = [a \in Agents |-> IF a \in agents THEN "queued" ELSE "none"]
      /\ \A i \in Jobs \ {j} : task'[i] = task[i]
  BY DEF VInv, Enter
<1>3. seen' \in [Jobs -> [Agents -> 0..2]] /\ \A i \in Jobs \ {j} : seen'[i] = seen[i]
  BY DEF VInv
<1>4. Tasks(s, task'[j], output[j])
  <2>1. AgentsOf("collect") \subseteq Agents /\ AgentsOf("analyze") \subseteq Agents
    BY RunAssumption DEF AgentsOf, Repairable
  <2> QED
    BY <1>2, <2>1 DEF Tasks
<1> QED
  BY <1>1, <1>2, <1>3, <1>4 DEF VInv

\* When a stage is gathered, all of its agents have an output.
LEMMA GatheredOutputs ==
  ASSUME VInv, NEW j \in Jobs, Gathered(j), stage[j] \in {"collect", "analyze"}
  PROVE  \A a \in AgentsOf(stage[j]) : output[j][a] > 0
<1>1. AgentsOf(stage[j]) \subseteq Agents
  BY RunAssumption DEF AgentsOf, Repairable
<1> QED
  BY <1>1 DEF VInv, Tasks, Gathered

LEMMA StartKeeps == ASSUME VInv, NEW j \in Jobs, Start(j) PROVE VInv'
<1>1. CASE Enter(j, "resolve", {Entity})
  <2>1. Behind("resolve", output[j], seen'[j]) /\ {Entity} \subseteq Allowed("resolve")
    BY DEF Behind, Collected, Analyzed, Validating, Allowed, AgentsOf
  <2> QED
    BY <1>1, <2>1, Entering DEF Start
<1>2. CASE Abort(j)
  BY <1>2, Failure DEF Start, Abort
<1> QED
  BY <1>1, <1>2 DEF Start

LEMMA NextStageKeeps == ASSUME VInv, NEW j \in Jobs, NextStage(j) PROVE VInv'
<1> DEFINE s == After[stage[j]]
<1>1. stage[j] \in {"resolve", "collect", "analyze", "repair", "revalidate"}
  BY DEF NextStage, After
<1>2. CASE Abort(j) /\ UNCHANGED seen
  BY <1>2, Failure DEF NextStage, Abort
<1>3. ASSUME Enter(j, s, AgentsOf(s)),
             seen' = IF s \in {"validate", "revalidate"}
                     THEN [seen EXCEPT ![j] = output[j]] ELSE seen
      PROVE  VInv'
  <2>1. /\ s \in {"collect", "analyze", "validate", "revalidate", "synthesize"}
        /\ s = "collect" <=> stage[j] = "resolve"
        /\ s = "analyze" <=> stage[j] = "collect"
        /\ s = "validate" <=> stage[j] = "analyze"
        /\ s = "revalidate" <=> stage[j] = "repair"
        /\ s = "synthesize" <=> stage[j] = "revalidate"
    BY <1>1 DEF After
  <2>2. s \in {"validate", "revalidate"} => seen'[j] = output[j]
    BY <1>3 DEF VInv
  <2>3. s \notin {"validate", "revalidate"} => seen'[j] = seen[j]
    BY <1>3
  <2>4. Behind(stage[j], output[j], seen[j])
    BY DEF VInv
  <2>5. stage[j] = "collect" => \A a \in Collection : output[j][a] > 0
    BY GatheredOutputs DEF NextStage, AgentsOf
  <2>6. stage[j] = "analyze" => \A a \in Analysis : output[j][a] > 0
    BY GatheredOutputs DEF NextStage, AgentsOf
  <2>7. Behind(s, output[j], seen'[j])
    BY <1>1, <2>1, <2>2, <2>3, <2>4, <2>5, <2>6 DEF Behind, Collected, Analyzed, Validating
  <2>8. AgentsOf(s) \subseteq Allowed(s)
    BY <2>1 DEF Allowed
  <2> HIDE DEF s
  <2> QED
    BY <1>3, <2>1, <2>7, <2>8, Entering DEF NextStage
<1> QED
  BY <1>2, <1>3 DEF NextStage

LEMMA RepairKeeps == ASSUME VInv, NEW j \in Jobs, Repair(j) PROVE VInv'
<1>1. Behind("validate", output[j], seen[j]) /\ seen' = seen
  BY DEF VInv, Repair
<1>2. CASE Abort(j)
  BY <1>2, Failure DEF Repair, Abort
<1>3. CASE Enter(j, "synthesize", {Synthesis})
  <2>1. Behind("synthesize", output[j], seen'[j]) /\ {Synthesis} \subseteq Allowed("synthesize")
    BY <1>1 DEF Behind, Collected, Analyzed, Validating, Allowed, AgentsOf
  <2> QED
    BY <1>1, <1>3, <2>1, Entering DEF Repair
<1>4. ASSUME NEW agents \in SUBSET Repairable, Enter(j, "repair", agents) PROVE VInv'
  <2>1. Behind("repair", output[j], seen'[j]) /\ agents \subseteq Allowed("repair")
    BY <1>1 DEF Behind, Collected, Analyzed, Validating, Allowed
  <2> QED
    BY <1>1, <1>4, <2>1, Entering DEF Repair
<1> QED
  BY <1>2, <1>3, <1>4 DEF Repair

LEMMA CompleteKeeps == ASSUME VInv, NEW j \in Jobs, Complete(j) PROVE VInv'
<1>1. Tasks("synthesize", task[j], output[j]) /\ Behind("synthesize", output[j], seen[j])
  BY DEF VInv, Complete
<1>2. Tasks("completed", task[j], output[j]) /\ Behind("completed", output[j], seen[j])
  BY <1>1 DEF Tasks, Behind, Collected, Analyzed, Validating, Allowed, AgentsOf
<1> QED
  BY <1>2 DEF VInv, Complete

\* The agents whose claims are validated have no task after their validation.
LEMMA Settled ==
  ASSUME VInv, NEW j \in Jobs, NEW a \in Agents, task[j][a] # "none", stage[j] \in Validating
  PROVE  a \notin Repairable
<1>1. a \in Allowed(stage[j])
  BY DEF VInv, Tasks, Validating, Analyzed, Collected
<1> QED
  BY <1>1, RunAssumption DEF Allowed, AgentsOf, Validating, Analyzed, Collected

LEMMA ReturnKeeps ==
  ASSUME VInv, NEW j \in Jobs, NEW a \in Agents, task[j][a] # "none", Return(j, a)
  PROVE  VInv'
<1>1. CASE stage[j] = "failed"
  BY <1>1 DEF VInv, Return, Tasks, Behind, Collected, Analyzed, Validating
<1>2. CASE stage[j] # "failed"
  <2>1. PICK n \in {1, 2} : output' = [output EXCEPT ![j][a] = n]
    BY <1>2 DEF Return
  <2>2. task' = [task EXCEPT ![j][a] = "done"] /\ stage' = stage /\ seen' = seen
    BY <1>2 DEF Return
  <2>3. output' \in [Jobs -> [Agents -> 0..2]]
    BY <2>1 DEF VInv
  <2>4. task' \in [Jobs -> [Agents -> {"none", "queued", "running", "asking", "done"}]]
    BY <2>2 DEF VInv
  <2>5. /\ \A b \in Agents : output'[j][b] = IF b = a THEN n ELSE output[j][b]
        /\ \A i \in Jobs \ {j} : output'[i] = output[i]
    BY <2>1 DEF VInv
  <2>6. /\ \A b \in Agents : task'[j][b] = IF b = a THEN "done" ELSE task[j][b]
        /\ \A i \in Jobs \ {j} : task'[i] = task[i]
    BY <2>2 DEF VInv
  <2>7. Tasks(stage[j], task[j], output[j]) /\ Behind(stage[j], output[j], seen[j])
    BY DEF VInv
  <2>8. Tasks(stage[j], task'[j], output'[j])
    <3>1. stage[j] \in {"collect", "analyze"} => AgentsOf(stage[j]) \subseteq Agents
      BY RunAssumption DEF AgentsOf, Repairable
    <3> QED
      BY <2>5, <2>6, <2>7, <3>1 DEF Tasks
  <2>9. Behind(stage[j], output'[j], seen[j])
    <3>1. Collection \subseteq Agents /\ Analysis \subseteq Agents /\ Repairable \subseteq Agents
      BY RunAssumption DEF Repairable
    <3>2. stage[j] \in Validating => a \notin Repairable
      BY Settled
    <3> QED
      BY <2>5, <2>7, <3>1, <3>2 DEF Behind
  <2> QED
    BY <2>2, <2>3, <2>4, <2>5, <2>6, <2>8, <2>9 DEF VInv
<1> QED
  BY <1>1, <1>2

LEMMA RunAgentKeeps == ASSUME VInv, NEW j \in Jobs, NEW a \in Agents, RunAgent(j, a) PROVE VInv'
\* A task that goes from one state to another without an end.
<1>1. ASSUME NEW t \in {"running", "asking"}, task[j][a] # "none",
             task' = [task EXCEPT ![j][a] = t], UNCHANGED <<stage, output, seen>>
      PROVE  VInv'
  <2>1. task' \in [Jobs -> [Agents -> {"none", "queued", "running", "asking", "done"}]]
    BY <1>1 DEF VInv
  <2>2. /\ \A b \in Agents : task'[j][b] = IF b = a THEN t ELSE task[j][b]
        /\ \A i \in Jobs \ {j} : task'[i] = task[i]
    BY <1>1 DEF VInv
  <2>3. Tasks(stage[j], task[j], output[j])
    BY DEF VInv
  <2>4. Tasks(stage[j], task'[j], output[j])
    <3>1. stage[j] \in {"collect", "analyze"} => AgentsOf(stage[j]) \subseteq Agents
      BY RunAssumption DEF AgentsOf, Repairable
    <3> QED
      BY <1>1, <2>2, <2>3, <3>1 DEF Tasks
  <2> QED
    BY <1>1, <2>1, <2>2, <2>4 DEF VInv
<1>2. CASE Acquire(j, a)
  BY <1>1, <1>2 DEF Acquire
<1>3. CASE Work(j, a)
  <2>1. CASE Return(j, a)
    BY <1>3, <2>1, ReturnKeeps DEF Work
  <2>2. CASE Raise(j, a)
    <3> DEFINE tasks == [b \in Agents |-> IF b = a \/ task[j][b] = "done" THEN "none" ELSE task[j][b]]
    <3>1. tasks \in [Agents -> {"none", "queued", "running", "asking", "done"}]
      BY DEF VInv
    <3>2. task' = [task EXCEPT ![j] = tasks]
      BY <2>2 DEF Raise
    <3> HIDE DEF tasks
    <3> QED
      BY <2>2, <3>1, <3>2, Failure DEF Raise
  <2>3. CASE task' = [task EXCEPT ![j][a] = "asking"] /\ UNCHANGED <<stage, output, seen>>
    BY <1>1, <1>3, <2>3 DEF Work
  <2> QED
    BY <1>3, <2>1, <2>2, <2>3 DEF Work
<1>4. CASE Enrich(j, a)
  BY <1>4, ReturnKeeps DEF Enrich
<1> QED
  BY <1>2, <1>3, <1>4 DEF RunAgent

LEMMA VInvNext == VInv /\ [RunNext]_runVars => VInv'
<1> SUFFICES ASSUME VInv, [RunNext]_runVars PROVE VInv'
  OBVIOUS
<1>1. CASE UNCHANGED <<stage, task, output, seen>>
  BY <1>1 DEF VInv
<1>2. ASSUME NEW j \in Jobs, Advance(j) PROVE VInv'
  BY <1>2, StartKeeps, NextStageKeeps, RepairKeeps, CompleteKeeps DEF Advance
<1>3. ASSUME NEW j \in Jobs, NEW a \in Agents, RunAgent(j, a) PROVE VInv'
  BY <1>3, RunAgentKeeps
<1>4. ASSUME NEW c \in Callers, Reply(c) PROVE VInv'
  BY <1>1, <1>4 DEF Reply
<1> QED
  BY <1>1, <1>2, <1>3, <1>4 DEF RunNext, runVars

\* A completed run has an output of every agent of its plan, and the claims the
\* synthesis got are those of the outputs it returns: for every plan, every
\* number of runs and every order of failures, repairs and answers.
THEOREM ReportsValidated == RunSpec => []ReportIsValidated
<1>1. VInv => ReportIsValidated
  <2>1. Repairable \subseteq Agents
    BY RunAssumption
  <2> QED
    BY <2>1 DEF VInv, Behind, Collected, Analyzed, Validating, ReportIsValidated, Repairable
<1> QED
  BY <1>1, VInvInit, VInvNext, PTL DEF RunSpec

-----------------------------------------------------------------------------

(* Circuit and semaphore together bound what an outage costs: the failures a  *)
(* provider has on record and the requests it has under way are never more    *)
(* than Threshold - 1 + MaxConcurrency.                                       *)

\* A request under way is an agent's that holds the semaphore.
Seated == \A c \in Callers : Waiting(c) => task[c[1]][c[2]] = "asking"

\* The inductive invariant.  The bound needs the semaphore's, for a provider that
\* is asked again after a block; and both need agents that do not give up the
\* semaphore with a request under way.
OInv ==
  /\ GInv
  /\ VInv
  /\ Seated
  /\ Cardinality(Holders) <= MaxConcurrency
  /\ OutageIsCheap

LEMMA CallersFinite == IsFiniteSet(Callers)
BY FS_Product, GatewayAssumption DEF Callers

LEMMA HoldersFinite == IsFiniteSet(Holders) /\ Cardinality(Holders) \in Nat
BY CallersFinite, FS_Subset, FS_CardinalityType DEF Holders

LEMMA InFlightFinite ==
  ASSUME NEW p PROVE IsFiniteSet(InFlight(p)) /\ Cardinality(InFlight(p)) \in Nat
BY CallersFinite, FS_Subset, FS_CardinalityType DEF InFlight

LEMMA HoldersFiniteNext == IsFiniteSet(Holders') /\ Cardinality(Holders') \in Nat
BY CallersFinite, FS_Subset, FS_CardinalityType DEF Holders

LEMMA InFlightFiniteNext ==
  ASSUME NEW p PROVE IsFiniteSet(InFlight(p)') /\ Cardinality(InFlight(p)') \in Nat
BY CallersFinite, FS_Subset, FS_CardinalityType DEF InFlight

\* Where a task goes, its request aside, nothing changes for the providers.
LEMMA QuietSteps ==
  ASSUME OInv, GInv', VInv', Seated', UNCHANGED gatewayVars, Holders' \subseteq Holders
  PROVE  OInv'
<1>1. Cardinality(Holders') <= MaxConcurrency
  BY HoldersFinite, HoldersFiniteNext, FS_Subset, RunAssumption DEF OInv
<1>2. OutageIsCheap'
  BY DEF OInv, OutageIsCheap, InFlight, gatewayVars
<1> QED
  BY <1>1, <1>2 DEF OInv

Bound == Threshold - 1 + MaxConcurrency

LEMMA BoundType == Bound \in Nat
BY GatewayAssumption, RunAssumption DEF Bound

LEMMA Sums ==
  ASSUME NEW m \in Nat, NEW n \in Nat, NEW k \in Nat, NEW l \in Nat, NEW b \in Nat,
         k + l <= b, m + n <= k + l
  PROVE  m + n <= b
OBVIOUS

\* Whoever waits holds the semaphore, so a provider's requests are no more than
\* MaxConcurrency.
LEMMA InFlightHold ==
  ASSUME Seated', NEW p \in Providers
  PROVE  InFlight(p)' \subseteq Holders'
BY GatewayAssumption DEF Seated, InFlight, Holders, Waiting, NoRequest

\* An unblocked circuit has failures to spare.
LEMMA Examination ==
  ASSUME NEW s, Agrees(s), s.block # "cooling"
  PROVE  Examined(s).failures \in Nat /\ Examined(s).failures <= Threshold - 1
BY GatewayAssumption DEF Agrees, Examined, Healthy

\* A call goes on to its next choice, or ends: the provider it is to ask was not
\* cooling down, and of the others only the one it left is concerned.
LEMMA TryCheap ==
  ASSUME OInv, Seated', Cardinality(Holders') <= MaxConcurrency,
         NEW c \in Callers, NEW choices \in Seq(Providers), NEW t \in Circuits,
         Try(c, choices, t),
         \A p \in Providers : t[p].failures + Cardinality(InFlight(p) \ {c}) <= Bound
  PROVE  OutageIsCheap'
<1>1. ASSUME NEW p \in Providers, circuit'[p] = t[p], InFlight(p)' = InFlight(p) \ {c}
      PROVE  circuit'[p].failures + Cardinality(InFlight(p)') <= Bound
  BY <1>1
<1>2. CASE circuit' = t /\ request' = [request EXCEPT ![c] = NoRequest]
  <2>1. ASSUME NEW p \in Providers PROVE InFlight(p)' = InFlight(p) \ {c}
    BY <1>2, GatewayAssumption DEF OInv, GInv, Requests, InFlight, NoRequest
  <2> QED
    BY <1>1, <1>2, <2>1 DEF OutageIsCheap, Bound
<1>3. ASSUME NEW i \in DOMAIN choices, t[choices[i]].block # "cooling",
             circuit' = [t EXCEPT ![choices[i]] = Examined(@)],
             \/ request' = [request EXCEPT ![c] =
                              [provider |-> choices[i],
                               rest |-> SubSeq(choices, i + 1, Len(choices))]]
             \/ request' = [request EXCEPT ![c] = NoRequest]
      PROVE  OutageIsCheap'
  <2> DEFINE q == choices[i]
  <2>1. q \in Providers
    OBVIOUS
  <2>2. circuit'[q].failures + Cardinality(InFlight(q)') <= Bound
    <3>1. circuit'[q] = Examined(t[q]) /\ Agrees(t[q])
      BY <1>3, <2>1 DEF Circuits
    <3>2. circuit'[q].failures \in Nat /\ circuit'[q].failures <= Threshold - 1
      BY <1>3, <3>1, Examination
    <3>3. Cardinality(InFlight(q)') <= Cardinality(Holders')
      BY <2>1, InFlightHold, HoldersFiniteNext, FS_Subset
    <3> HIDE DEF q
    <3> QED
      BY <3>2, <3>3, HoldersFiniteNext, InFlightFiniteNext, GatewayAssumption, RunAssumption DEF Bound
  <2>3. ASSUME NEW p \in Providers, p # q PROVE circuit'[p].failures + Cardinality(InFlight(p)') <= Bound
    <3>1. circuit'[p] = t[p]
      BY <1>3, <2>3 DEF Circuits
    <3>2. InFlight(p)' = InFlight(p) \ {c}
      BY <1>3, <2>3, GatewayAssumption DEF OInv, GInv, Requests, InFlight, NoRequest
    <3> QED
      BY <1>1, <3>1, <3>2
  <2> QED
    BY <2>2, <2>3 DEF OutageIsCheap, Bound
<1> QED
  BY <1>2, <1>3 DEF Try

\* The answers to a request, which leave the tasks alone.
LEMMA RespondCheap ==
  ASSUME OInv, Seated', NEW c \in Callers, Respond(c), UNCHANGED task
  PROVE  OutageIsCheap'
<1> DEFINE r == request[c].provider
<1>1. r \in Providers \cup {Nobody} /\ request[c].rest \in Seq(Providers)
  BY DEF OInv, GInv, Requests
<1>2. Holders' = Holders
  BY DEF Holders
<1>3. ASSUME NEW p \in Providers
      PROVE  /\ circuit[p].failures \in Nat
             /\ circuit[p].failures + Cardinality(InFlight(p)) <= Bound
             /\ Cardinality(InFlight(p) \ {c}) = IF p = r THEN Cardinality(InFlight(p)) - 1
                                                 ELSE Cardinality(InFlight(p))
  <2>1. circuit[p].failures \in Nat
    BY DEF OInv, GInv, Circuits
  <2>2. circuit[p].failures + Cardinality(InFlight(p)) <= Bound
    BY DEF OInv, OutageIsCheap, Bound
  <2>3. c \in InFlight(p) <=> p = r
    BY DEF InFlight
  <2> QED
    BY <2>1, <2>2, <2>3, InFlightFinite, FS_RemoveElement
<1>4. CASE Break(c) \/ Answer(c)
  <2>1. ASSUME NEW p \in Providers PROVE InFlight(p)' = InFlight(p) \ {c}
    BY <1>4, GatewayAssumption DEF OInv, GInv, Requests, InFlight, NoRequest, Break, Answer
  <2>2. ASSUME NEW p \in Providers PROVE circuit'[p] = circuit[p] \/ circuit'[p] = Healthy
    BY <1>4 DEF OInv, GInv, Circuits, Break, Answer
  <2>3. ASSUME NEW p \in Providers PROVE circuit'[p].failures + Cardinality(InFlight(p)') <= Bound
    <3>1. Cardinality(InFlight(p)') <= Cardinality(InFlight(p))
      <4>1. InFlight(p)' \subseteq InFlight(p)
        BY <2>1, <2>3
      <4> QED
        BY <4>1, InFlightFinite, FS_Subset
    <3>2. circuit'[p].failures \in Nat /\ circuit'[p].failures <= circuit[p].failures
      <4>1. circuit[p].failures \in Nat /\ Healthy.failures = 0
        BY <2>3 DEF OInv, GInv, Circuits, Healthy
      <4> QED
        BY <2>2, <2>3, <4>1
    <3>3. circuit[p].failures \in Nat /\ circuit[p].failures + Cardinality(InFlight(p)) <= Bound
      BY <1>3, <2>3
    <3>4. Cardinality(InFlight(p)) \in Nat /\ Cardinality(InFlight(p)') \in Nat
      BY InFlightFinite, InFlightFiniteNext
    <3>5. circuit'[p].failures + Cardinality(InFlight(p)')
            <= circuit[p].failures + Cardinality(InFlight(p))
      BY <3>1, <3>2, <3>3, <3>4
    <3> QED
      BY <3>2, <3>3, <3>4, <3>5, BoundType, Sums
  <2> QED
    BY <2>3 DEF OutageIsCheap, Bound
<1>5. ASSUME NEW retryable \in BOOLEAN, Refuse(c, retryable) PROVE OutageIsCheap'
  <2> DEFINE t == IF retryable THEN [circuit EXCEPT ![r] = Struck(@)] ELSE circuit
  <2>1. t \in Circuits
    <3>1. CASE r \in Providers
      <4>1. Agrees(Struck(circuit[r]))
        BY <3>1, StruckAgrees DEF OInv, GInv, Circuits
      <4> QED
        BY <3>1, <4>1, OneCircuit DEF OInv, GInv
    <3>2. CASE r \notin Providers
      BY <3>2 DEF OInv, GInv, Circuits
    <3> QED
      BY <3>1, <3>2
  <2>2. ASSUME NEW p \in Providers PROVE t[p].failures + Cardinality(InFlight(p) \ {c}) <= Bound
    <3>1. t[p].failures \in Nat /\ t[p].failures <= circuit[p].failures + (IF p = r THEN 1 ELSE 0)
      <4>1. circuit[p].failures \in Nat
        BY <2>2, <1>3
      <4>2. t[p] = IF retryable /\ p = r THEN Struck(circuit[p]) ELSE circuit[p]
        BY <2>2 DEF OInv, GInv, Circuits
      <4>3. Struck(circuit[p]).failures = circuit[p].failures + 1
        BY DEF Struck
      <4> HIDE DEF t
      <4> QED
        BY <4>1, <4>2, <4>3
    <3> HIDE DEF t
    <3>2. circuit[p].failures \in Nat /\ circuit[p].failures + Cardinality(InFlight(p)) <= Bound
      BY <1>3, <2>2
    <3>3. Cardinality(InFlight(p)) \in Nat /\ Cardinality(InFlight(p) \ {c}) \in Nat
      BY InFlightFinite, FS_RemoveElement, FS_CardinalityType
    <3>4. Cardinality(InFlight(p) \ {c}) = IF p = r THEN Cardinality(InFlight(p)) - 1
                                                    ELSE Cardinality(InFlight(p))
      BY <1>3, <2>2
    <3>5. t[p].failures + Cardinality(InFlight(p) \ {c})
            <= circuit[p].failures + Cardinality(InFlight(p))
      BY <3>1, <3>2, <3>3, <3>4
    <3> QED
      BY <3>1, <3>2, <3>3, <3>5, BoundType, Sums
  <2>3. Try(c, request[c].rest, t)
    BY <1>5 DEF Refuse
  <2>4. Cardinality(Holders') <= MaxConcurrency
    BY <1>2 DEF OInv
  <2> HIDE DEF t
  <2> QED
    BY <1>1, <2>1, <2>2, <2>3, <2>4, TryCheap
<1> QED
  BY <1>4, <1>5 DEF Respond

\* A run whose tasks are over, or not begun, has no request under way, and may
\* begin new tasks.
LEMMA NewTasks ==
  ASSUME OInv, GInv', VInv', NEW j \in Jobs, UNCHANGED gatewayVars,
         \A a \in Agents : task[j][a] \in {"none", "done"} /\ task'[j][a] \in {"none", "queued", "done"},
         \A i \in Jobs : i # j => task'[i] = task[i]
  PROVE  OInv'
<1>1. ASSUME NEW i \in Jobs, NEW a \in Agents, i # j PROVE task'[i][a] = task[i][a]
  BY <1>1
<1>2. Seated'
  BY <1>1 DEF OInv, Seated, Callers, Waiting, gatewayVars
<1>3. Holders' \subseteq Holders
  BY <1>1 DEF Holders, Callers
<1> QED
  BY <1>2, <1>3, QuietSteps

LEMMA AdvanceCheap ==
  ASSUME OInv, GInv', VInv', NEW j \in Jobs, Advance(j)
  PROVE  OInv'
<1>1. \A a \in Agents : task[j][a] \in {"none", "done"}
  <2>1. CASE stage[j] = "idle"
    BY <2>1 DEF OInv, VInv, Tasks, Allowed
  <2>2. CASE Gathered(j)
    BY <2>2 DEF Gathered
  <2> QED
    BY <2>1, <2>2 DEF Advance, Start, NextStage, Repair, Complete
<1>2. UNCHANGED gatewayVars
  BY DEF Advance, Start, NextStage, Repair, Complete
<1>3. ASSUME NEW tasks \in [Agents -> {"none", "queued"}], task' = [task EXCEPT ![j] = tasks]
      PROVE  OInv'
  <2>1. \A a \in Agents : task'[j][a] \in {"none", "queued"}
    BY <1>3 DEF OInv, VInv
  <2>2. \A i \in Jobs : i # j => task'[i] = task[i]
    BY <1>3 DEF OInv, VInv
  <2> QED
    BY <1>1, <1>2, <2>1, <2>2, NewTasks
<1>4. CASE Abort(j)
  <2>1. [a \in Agents |-> "none"] \in [Agents -> {"none", "queued"}]
    OBVIOUS
  <2> QED
    BY <1>3, <1>4, <2>1 DEF Abort
<1>5. ASSUME NEW s, NEW agents, Enter(j, s, agents) PROVE OInv'
  <2>1. [a \in Agents |-> IF a \in agents THEN "queued" ELSE "none"] \in [Agents -> {"none", "queued"}]
    OBVIOUS
  <2> QED
    BY <1>3, <1>5, <2>1 DEF Enter
<1>6. CASE Complete(j)
  BY <1>1, <1>2, <1>6, NewTasks DEF Complete
<1> QED
  BY <1>4, <1>5, <1>6 DEF Advance, Start, NextStage, Repair

\* A task that moves while it has no request under way.
LEMMA OneTask ==
  ASSUME OInv, GInv', VInv', NEW j \in Jobs, NEW a \in Agents, ~Waiting(<<j, a>>),
         UNCHANGED gatewayVars,
         \A b \in Agents : b # a /\ Waiting(<<j, b>>) => task'[j][b] = "asking",
         \A i \in Jobs : i # j => task'[i] = task[i]
  PROVE  Seated'
BY DEF OInv, Seated, Callers, Waiting, gatewayVars

LEMMA RunAgentCheap ==
  ASSUME OInv, GInv', VInv', NEW j \in Jobs, NEW a \in Agents, RunAgent(j, a)
  PROVE  OInv'
<1> DEFINE c == <<j, a>>
<1>1. c \in Callers /\ c[1] = j /\ c[2] = a
  BY DEF Callers
<1>2. task[j][a] # "asking" => ~Waiting(c)
  BY <1>1 DEF OInv, Seated
<1>3. ASSUME NEW b \in Agents, Waiting(<<j, b>>) PROVE task[j][b] = "asking"
  <2>1. <<j, b>> \in Callers
    BY DEF Callers
  <2> QED
    BY <1>3, <2>1 DEF OInv, Seated
<1>4. ASSUME NEW t, task' = [task EXCEPT ![j][a] = t]
      PROVE  /\ \A i \in Jobs : i # j => task'[i] = task[i]
             /\ \A b \in Agents : task'[j][b] = IF b = a THEN t ELSE task[j][b]
  BY <1>4 DEF OInv, VInv
<1>5. CASE Acquire(j, a)
  <2>1. task[j][a] = "queued" /\ UNCHANGED gatewayVars /\ task' = [task EXCEPT ![j][a] = "running"]
    BY <1>5 DEF Acquire
  <2>2. Seated'
    BY <1>2, <1>3, <1>4, <2>1, OneTask
  <2>3. Holders' \subseteq Holders \cup {c}
    BY <1>4, <2>1 DEF Holders, Callers
  <2>4. Cardinality(Holders') <= MaxConcurrency
    <3>1. Cardinality(Holders) < MaxConcurrency
      BY <1>5 DEF Acquire
    <3>2. /\ IsFiniteSet(Holders \cup {c})
          /\ Cardinality(Holders \cup {c}) <= Cardinality(Holders) + 1
          /\ Cardinality(Holders \cup {c}) \in Nat
      <4>1. /\ IsFiniteSet(Holders \cup {c})
            /\ Cardinality(Holders \cup {c}) = IF c \in Holders THEN Cardinality(Holders)
                                               ELSE Cardinality(Holders) + 1
        BY HoldersFinite, FS_AddElement
      <4> HIDE DEF c
      <4> QED
        BY <4>1, HoldersFinite
    <3>3. Cardinality(Holders') <= Cardinality(Holders \cup {c})
      BY <2>3, <3>2, FS_Subset
    <3> QED
      BY <3>1, <3>2, <3>3, HoldersFinite, HoldersFiniteNext, RunAssumption
  <2>5. OutageIsCheap'
    BY <2>1 DEF OInv, OutageIsCheap, InFlight, gatewayVars
  <2> QED
    BY <2>2, <2>4, <2>5 DEF OInv
<1>6. ASSUME Return(j, a), ~Waiting(c), UNCHANGED gatewayVars PROVE OInv'
  <2>1. PICK t \in {"none", "done"} : task' = [task EXCEPT ![j][a] = t]
    BY <1>6 DEF Return
  <2>2. Seated'
    BY <1>3, <1>4, <1>6, <2>1, OneTask
  <2>3. Holders' \subseteq Holders
    BY <1>4, <2>1 DEF Holders, Callers
  <2> QED
    BY <1>6, <2>2, <2>3, QuietSteps
<1>7. CASE Work(j, a)
  <2>1. task[j][a] = "running" /\ ~Waiting(c)
    BY <1>2, <1>7 DEF Work
  <2>2. CASE Return(j, a) /\ UNCHANGED gatewayVars
    BY <1>6, <2>1, <2>2
  <2>3. CASE Raise(j, a) /\ UNCHANGED gatewayVars
    <3>1. /\ \A i \in Jobs : i # j => task'[i] = task[i]
          /\ \A b \in Agents : task'[j][b] = IF b = a \/ task[j][b] = "done" THEN "none" ELSE task[j][b]
      BY <2>3 DEF Raise, OInv, VInv
    <3>2. Seated'
      BY <1>3, <2>1, <2>3, <3>1, OneTask
    <3>3. Holders' \subseteq Holders
      BY <3>1 DEF Holders, Callers
    <3> QED
      BY <2>3, <3>2, <3>3, QuietSteps
  <2>4. CASE Ask(c) /\ task' = [task EXCEPT ![j][a] = "asking"]
    <3>1. Holders' = Holders
      BY <1>4, <2>1, <2>4 DEF Holders, Callers
    <3>2. ASSUME NEW d \in Callers, d # c PROVE request'[d] = request[d]
      BY <2>4, <3>2 DEF Ask, Try, OInv, GInv, Requests
    <3>3. Seated'
      <4>1. ASSUME NEW d \in Callers, Waiting(d)' PROVE task'[d[1]][d[2]] = "asking"
        <5>1. CASE d = c
          <6>1. task'[j][a] = "asking"
            BY <1>4, <2>4
          <6> QED
            BY <1>1, <5>1, <6>1
        <5>2. CASE d # c
          BY <1>4, <2>4, <3>2, <4>1, <5>2 DEF OInv, Seated, Waiting, Callers
        <5> QED
          BY <5>1, <5>2
      <4> QED
        BY <4>1 DEF Seated
    <3>4. ASSUME NEW p \in Providers
          PROVE  circuit[p].failures + Cardinality(InFlight(p) \ {c}) <= Bound
      <4>1. InFlight(p) \ {c} = InFlight(p)
        <5>1. request[c].provider = Nobody
          BY <2>1 DEF Waiting, NoRequest
        <5> QED
          BY <3>4, <5>1, GatewayAssumption DEF InFlight
      <4> QED
        BY <4>1, <3>4 DEF OInv, OutageIsCheap, Bound
    <3>5. Route[AgentOf(c)] \in Seq(Providers) /\ circuit \in Circuits
      BY <1>1, GatewayAssumption DEF AgentOf, OInv, GInv
    <3>6. Cardinality(Holders') <= MaxConcurrency
      BY <3>1 DEF OInv
    <3>7. OutageIsCheap'
      BY <1>1, <2>4, <3>3, <3>4, <3>5, <3>6, TryCheap DEF Ask
    <3> QED
      BY <3>3, <3>6, <3>7 DEF OInv
  <2> QED
    BY <1>7, <2>2, <2>3, <2>4 DEF Work
<1>8. CASE Enrich(j, a)
  BY <1>6, <1>8 DEF Enrich
<1> QED
  BY <1>5, <1>7, <1>8 DEF RunAgent

LEMMA ReplyCheap ==
  ASSUME OInv, GInv', VInv', NEW c \in Callers, Reply(c)
  PROVE  OInv'
<1>1. Respond(c) /\ UNCHANGED task /\ Waiting(c)
  BY DEF Reply, Respond, Answer, Break, Refuse
<1>2. ASSUME NEW d \in Callers, d # c PROVE request'[d] = request[d]
  BY <1>1, <1>2 DEF Respond, Answer, Break, Refuse, Try, OInv, GInv, Requests
<1>3. Seated'
  BY <1>1, <1>2 DEF OInv, Seated, Waiting
<1>4. Holders' = Holders
  BY <1>1 DEF Holders
<1>5. OutageIsCheap'
  BY <1>1, <1>3, RespondCheap
<1> QED
  BY <1>3, <1>4, <1>5 DEF OInv

LEMMA CoolCheap ==
  ASSUME OInv, GInv', VInv', NEW p \in Providers, Cool(p), UNCHANGED <<stage, task, output, seen>>
  PROVE  OInv'
<1>1. Holders' = Holders /\ UNCHANGED request
  BY DEF Holders, Cool
<1>2. Seated'
  BY <1>1 DEF OInv, Seated, Waiting
<1>3. \A q \in Providers : InFlight(q)' = InFlight(q) /\ circuit'[q].failures = circuit[q].failures
  BY <1>1 DEF Cool, InFlight, OInv, GInv, Circuits
<1> QED
  BY <1>1, <1>2, <1>3 DEF OInv, OutageIsCheap

LEMMA OInvInit == RunInit => OInv
<1> SUFFICES ASSUME RunInit PROVE OInv
  OBVIOUS
<1>1. Holders = {} /\ Cardinality(Holders) = 0
  BY FS_EmptySet DEF RunInit, Holders, Callers
<1>2. \A p \in Providers : InFlight(p) = {} /\ circuit[p].failures = 0
  BY GatewayAssumption DEF RunInit, GatewayInit, InFlight, NoRequest, Healthy
<1>3. OutageIsCheap
  <2>1. ASSUME NEW p \in Providers PROVE circuit[p].failures + Cardinality(InFlight(p)) = 0
    BY <1>2, <2>1, FS_EmptySet
  <2> QED
    BY <2>1, GatewayAssumption, RunAssumption DEF OutageIsCheap
<1>4. Seated
  BY DEF Seated, RunInit, GatewayInit, Waiting
<1> QED
  BY <1>1, <1>3, <1>4, GInvInit, VInvInit, RunAssumption DEF OInv

LEMMA OInvNext == OInv /\ [RunNext]_runVars => OInv'
<1> SUFFICES ASSUME OInv, [RunNext]_runVars PROVE OInv'
  OBVIOUS
<1>1. GInv' /\ VInv'
  BY GInvNext, VInvNext DEF OInv
<1>2. ASSUME NEW j \in Jobs, Advance(j) PROVE OInv'
  BY <1>1, <1>2, AdvanceCheap
<1>3. ASSUME NEW j \in Jobs, NEW a \in Agents, RunAgent(j, a) PROVE OInv'
  BY <1>1, <1>3, RunAgentCheap
<1>4. ASSUME NEW c \in Callers, Reply(c) PROVE OInv'
  BY <1>1, <1>4, ReplyCheap
<1>5. ASSUME NEW p \in Providers, Cool(p), UNCHANGED <<stage, task, output, seen>> PROVE OInv'
  BY <1>1, <1>5, CoolCheap
<1>6. CASE UNCHANGED runVars
  <2>1. Holders' \subseteq Holders /\ Seated' /\ UNCHANGED gatewayVars
    BY <1>6 DEF runVars, gatewayVars, Holders, OInv, Seated, Waiting
  <2> QED
    BY <1>1, <2>1, QuietSteps
<1> QED
  BY <1>2, <1>3, <1>4, <1>5, <1>6 DEF RunNext

LEMMA OInvAlways == RunSpec => []OInv
BY OInvInit, OInvNext, PTL DEF RunSpec

\* Circuit and semaphore together bound the failed requests of an outage, for
\* every plan, route, threshold and number of runs, also when runs that failed
\* have left agents behind.
THEOREM OutagesAreCheap == RunSpec => []OutageIsCheap
<1>1. OInv => OutageIsCheap
  BY DEF OInv
<1> QED
  BY <1>1, OInvAlways, PTL

\* The types, and with them that no job reserves more calls or tokens than its
\* budget, though its agents reserve at once and fall back over several
\* providers, and that only agents in the semaphore wait for an answer.
THEOREM RunTypeCorrect == RunSpec => []RunTypeOK
<1>1. OInv => RunTypeOK
  <2> SUFFICES ASSUME OInv PROVE RunTypeOK
    OBVIOUS
  <2>1. GatewayTypeOK
    BY DEF OInv, GInv, Circuits, Budgets, Requests, GatewayTypeOK
  <2>2. \A j \in Jobs, a \in Agents : Waiting(<<j, a>>) => task[j][a] = "asking"
    <3>1. ASSUME NEW j \in Jobs, NEW a \in Agents, Waiting(<<j, a>>) PROVE task[j][a] = "asking"
      <4>1. <<j, a>> \in Callers
        BY DEF Callers
      <4> QED
        BY <3>1, <4>1 DEF OInv, Seated
    <3> QED
      BY <3>1
  <2> QED
    BY <2>1, <2>2 DEF OInv, VInv, RunTypeOK
<1> QED
  BY <1>1, OInvAlways, PTL
=============================================================================
