--------------------------- MODULE ProviderGateway ---------------------------
(***************************************************************************)
(* providers/gateway.py: agents of several jobs ask language model         *)
(* providers through one gateway, which tries the providers of a route in  *)
(* turn, leaves one alone for a while after repeated failures, and reserves *)
(* calls and tokens of the job's budget for every attempt.                 *)
(*                                                                         *)
(* asyncio runs the code between two awaits at once, and nothing awaits    *)
(* under the budget's lock, so a call moves from one request to the next   *)
(* in a single step; what interleaves are the requests.  The cooldown of a *)
(* block is a step of its own.  An answer and an exception are one to the  *)
(* agents, who go on without enrichment, so how a call ended is not kept.  *)
(***************************************************************************)
EXTENDS Naturals, FiniteSets, Sequences

CONSTANTS
  Providers,
  Jobs,       \* budget keys
  Agents,
  Route,      \* the configured providers of an agent's capability, in order
  Cost,       \* the tokens a request of an agent reserves
  Threshold,  \* provider_circuit_failure_threshold
  MaxCalls,   \* llm_max_calls_per_job
  MaxTokens,  \* llm_max_reserved_tokens_per_job
  Nobody      \* "no provider"

ASSUME GatewayAssumption ==
  /\ IsFiniteSet(Jobs) /\ IsFiniteSet(Agents)
  /\ Route \in [Agents -> Seq(Providers)]
  /\ Cost \in [Agents -> Nat]
  /\ Threshold \in Nat \ {0}
  /\ MaxCalls \in Nat /\ MaxTokens \in Nat
  /\ Nobody \notin Providers

VARIABLES
  circuit,  \* _failure_counts and _blocked_until
  usage,    \* _job_usage
  request   \* the request a call of complete awaits, and the choices after it

gatewayVars == <<circuit, usage, request>>

Callers == Jobs \X Agents
JobOf(c) == c[1]
AgentOf(c) == c[2]

Healthy == [failures |-> 0, block |-> "none"]
NoRequest == [provider |-> Nobody, rest |-> <<>>]
Waiting(c) == request[c] # NoRequest

GatewayTypeOK ==
  /\ circuit \in [Providers -> [failures : Nat, block : {"none", "cooling", "over"}]]
  /\ usage \in [Jobs -> [calls : 0..MaxCalls, tokens : 0..MaxTokens]]
  /\ request \in [Callers -> [provider : Providers \cup {Nobody}, rest : Seq(Providers)]]

GatewayInit ==
  /\ circuit = [p \in Providers |-> Healthy]
  /\ usage = [j \in Jobs |-> [calls |-> 0, tokens |-> 0]]
  /\ request = [c \in Callers |-> NoRequest]

-----------------------------------------------------------------------------
\* Mutation: the count of failures outlives the block.
ExaminedKeepsCount(s) == IF s.block = "over" THEN [s EXCEPT !.block = "none"] ELSE s

\* _circuit_open, of a provider that is not cooling down: an entry whose time
\* is over is dropped.
Examined(s) == IF s.block = "over" THEN Healthy ELSE s

\* Mutation: the threshold is tested one failure late.
StruckLate(s) ==
  [failures |-> s.failures + 1,
   block |-> IF s.failures >= Threshold THEN "cooling" ELSE s.block]

\* _record_failure: at the threshold, and at every later failure, the block
\* starts (anew).
Struck(s) ==
  [failures |-> s.failures + 1,
   block |-> IF s.failures + 1 >= Threshold THEN "cooling" ELSE s.block]

\* Mutation: what is spent is tested, without the request to come.
AffordableLate(c) ==
  /\ usage[JobOf(c)].calls <= MaxCalls
  /\ usage[JobOf(c)].tokens <= MaxTokens

\* _reserve_job_budget's two tests.
Affordable(c) ==
  /\ usage[JobOf(c)].calls + 1 <= MaxCalls
  /\ usage[JobOf(c)].tokens + Cost[AgentOf(c)] <= MaxTokens

\* The loop of complete over the choices left, with the circuits as they are:
\* the first provider that is not cooling down is asked, if the job can afford
\* it; an exhausted budget, or no such provider, ends the call.
Try(c, choices, circuits) ==
  LET cooling(i) == circuits[choices[i]].block = "cooling"
  IN \/ /\ \A i \in DOMAIN choices : cooling(i)
        /\ circuit' = circuits
        /\ request' = [request EXCEPT ![c] = NoRequest]
        /\ UNCHANGED usage
     \/ \E i \in DOMAIN choices :
          /\ ~cooling(i) /\ \A k \in 1..(i - 1) : cooling(k)
          /\ circuit' = [circuits EXCEPT ![choices[i]] = Examined(@)]
          /\ \/ /\ Affordable(c)
                /\ usage' = [usage EXCEPT ![JobOf(c)] =
                               [calls |-> @.calls + 1, tokens |-> @.tokens + Cost[AgentOf(c)]]]
                /\ request' = [request EXCEPT ![c] =
                                 [provider |-> choices[i],
                                  rest |-> SubSeq(choices, i + 1, Len(choices))]]
             \/ /\ ~Affordable(c)
                /\ request' = [request EXCEPT ![c] = NoRequest]
                /\ UNCHANGED usage

\* complete is called.
Ask(c) == ~Waiting(c) /\ Try(c, Route[AgentOf(c)], circuit)

\* _record_success: any answer closes the circuit.
Answer(c) ==
  /\ Waiting(c)
  /\ circuit' = [circuit EXCEPT ![request[c].provider] = Healthy]
  /\ request' = [request EXCEPT ![c] = NoRequest]
  /\ UNCHANGED usage

\* A ProviderCallError: the next choices are tried, after a failure is recorded
\* if the error is retryable.
Refuse(c, retryable) ==
  LET p == request[c].provider
  IN /\ Waiting(c)
     /\ Try(c, request[c].rest, IF retryable THEN [circuit EXCEPT ![p] = Struck(@)] ELSE circuit)

\* Any other exception (a body that is not JSON) leaves complete at once.
Break(c) ==
  /\ Waiting(c)
  /\ request' = [request EXCEPT ![c] = NoRequest]
  /\ UNCHANGED <<circuit, usage>>

\* The cooldown of a block is over.
Cool(p) ==
  /\ circuit[p].block = "cooling"
  /\ circuit' = [circuit EXCEPT ![p].block = "over"]
  /\ UNCHANGED <<usage, request>>

Respond(c) == Answer(c) \/ Break(c) \/ \E retryable \in BOOLEAN : Refuse(c, retryable)

-----------------------------------------------------------------------------
InFlight(p) == {c \in Callers : request[c].provider = p}

\* The two dictionaries of the gateway agree, though successes, failures and
\* expired blocks of overlapping calls change them in any order: a provider has
\* a block exactly when its failures have reached the threshold.
BlockedIffFailing ==
  \A p \in Providers : circuit[p].block # "none" <=> circuit[p].failures >= Threshold
=============================================================================
