----------------------------- MODULE UpstoxStream -----------------------------
(***************************************************************************)
(* The live market workers (market/upstox_stream.py) and the leases they   *)
(* share in broker_stream_leases.  A worker polls for users with a live    *)
(* subscription and starts a task for each; a task leases its user, opens  *)
(* a socket to the broker, renews the lease from the socket's own loop,    *)
(* and retries after an error with a growing pause.                        *)
(*                                                                         *)
(* Time is a number of ticks: `lease` counts down to leased_until, `age`   *)
(* counts up from where a task began to wait.  Database calls take no      *)
(* time; MaxStalls ticks may pass whatever the tasks were due to do.       *)
(* Quotes, modes and instruments are left out.                             *)
(*                                                                         *)
(* `renewed` is an auxiliary variable: it guards nothing, and remembers    *)
(* how long ago a task renewed its lease, and whether it has since stayed  *)
(* with one socket.                                                        *)
(***************************************************************************)
EXTENDS Naturals, FiniteSets

CONSTANTS
  Workers, Users,
  Nobody,       \* no holder
  Gone,         \* the worker_id of a process that no longer runs
  Before(_, _), \* the order of the users' ids
  Limit,        \* live_market_max_user_streams
  Lease,        \* live_market_stream_lease_seconds
  Beat,         \* live_market_stream_heartbeat_seconds
  Setup,        \* the time authorising and connecting may take
  Backoff,      \* the longest pause after an error
  MaxStalls,    \* bound: ticks in which a process makes no progress
  MaxRestarts,  \* bound: workers stopped or killed
  MaxFaults,    \* bound: errors of the socket and the database
  MaxToggles    \* bound: subscriptions made, lapsed or revoked

ASSUME StreamAssumption ==
  /\ Limit \in Nat \ {0} /\ Lease \in Nat \ {0} /\ Beat \in Nat \ {0}
  /\ Setup \in Nat \ {0} /\ Backoff \in Nat \ {0}
  /\ MaxStalls \in Nat /\ MaxRestarts \in Nat /\ MaxFaults \in Nat /\ MaxToggles \in Nat
  /\ {Nobody, Gone} \cap Workers = {} /\ Nobody # Gone

VARIABLES
  active,   \* users with a valid connection and a live subscription
  lease,    \* table broker_stream_leases
  up,       \* workers that run
  pc,       \* where the task of a worker for a user stands
  age,      \* ticks since it began to wait, or since its last heartbeat
  renewed,  \* auxiliary: ticks since it renewed its lease, and whether directly
  stalls, restarts, faults, toggles

streamVars == <<active, lease, up, pc, age, renewed, stalls, restarts, faults, toggles>>
boundVars == <<stalls, restarts, faults, toggles>>

Steps == {"none", "acquire", "check", "setup", "stream", "retry", "backoff", "release"}
Waiting == [setup |-> Setup, stream |-> Beat, backoff |-> Backoff]
Holders == Workers \cup {Nobody, Gone}
NotRenewed == [ago |-> Lease, direct |-> FALSE]        \* never, or a lease ago or more

StreamTypeOK ==
  /\ active \subseteq Users
  /\ lease \in [Users -> [by : Holders, left : 0..Lease]]
  /\ up \subseteq Workers
  /\ pc \in [Workers -> [Users -> Steps]]
  /\ age \in [Workers -> [Users -> Nat]]
  /\ renewed \in [Workers -> [Users -> [ago : 0..Lease, direct : BOOLEAN]]]
  /\ \A w \in Workers, u \in Users : /\ w \notin up => pc[w][u] = "none" /\ lease[u].by # w
                                     /\ pc[w][u] \notin DOMAIN Waiting => age[w][u] = 0
  /\ stalls \in 0..MaxStalls /\ restarts \in 0..MaxRestarts
  /\ faults \in 0..MaxFaults /\ toggles \in 0..MaxToggles

StreamInit ==
  /\ active = {}
  /\ lease = [u \in Users |-> [by |-> Nobody, left |-> 0]]
  /\ up = {}
  /\ pc = [w \in Workers |-> [u \in Users |-> "none"]]
  /\ age = [w \in Workers |-> [u \in Users |-> 0]]
  /\ renewed = [w \in Workers |-> [u \in Users |-> NotRenewed]]
  /\ stalls = 0 /\ restarts = 0 /\ faults = 0 /\ toggles = 0

-----------------------------------------------------------------------------
Goto(w, u, step) == pc' = [pc EXCEPT ![w][u] = step] /\ age' = [age EXCEPT ![w][u] = 0]
Fault == faults < MaxFaults /\ faults' = faults + 1
LeasedBy(w, u) == [lease EXCEPT ![u] = [by |-> w, left |-> Lease]]
NoLease == [by |-> Nobody, left |-> 0]
Remember(w, u, r) == renewed' = [renewed EXCEPT ![w][u] = r]
Renews(w, u, direct) ==
  lease' = LeasedBy(w, u) /\ Remember(w, u, [ago |-> 0, direct |-> direct])

\* heartbeat_stream_lease asks who holds the lease, not whether it expired.
Alive(w, u) == lease[u].by = w

\* Mutation: a lease is released whoever holds it.
ReleasedBlindly(w, u) == [lease EXCEPT ![u] = NoLease]

\* release_stream_lease.
Released(w, u) == IF lease[u].by = w THEN [lease EXCEPT ![u] = NoLease] ELSE lease

-----------------------------------------------------------------------------
(* The world outside the tasks.                                            *)

\* Nobody keeps time waiting: a task that has its lease makes its database
\* calls at once, and what it waits for is there within its bound.
Prompt ==
  \A w \in Workers, u \in Users :
    \/ pc[w][u] \in {"none", "acquire"}
    \/ pc[w][u] \in DOMAIN Waiting /\ age[w][u] < Waiting[pc[w][u]]

Tick ==
  /\ \/ Prompt /\ UNCHANGED stalls
     \/ ~Prompt /\ stalls < MaxStalls /\ stalls' = stalls + 1
  /\ lease' = [u \in Users |-> [lease[u] EXCEPT !.left = IF @ > 0 THEN @ - 1 ELSE 0]]
  /\ age' = [w \in Workers |-> [u \in Users |->
               IF pc[w][u] \in DOMAIN Waiting /\ age[w][u] < Waiting[pc[w][u]]
               THEN age[w][u] + 1 ELSE age[w][u]]]
  /\ renewed' = [w \in Workers |-> [u \in Users |->
                   [renewed[w][u] EXCEPT !.ago = IF @ < Lease THEN @ + 1 ELSE Lease]]]
  /\ UNCHANGED <<active, up, pc, restarts, faults, toggles>>

\* A user subscribes, or a subscription lapses or a connection ends.
Toggle(u) ==
  /\ toggles < MaxToggles
  /\ toggles' = toggles + 1
  /\ active' = IF u \in active THEN active \ {u} ELSE active \cup {u}
  /\ UNCHANGED <<lease, up, pc, age, renewed, stalls, restarts, faults>>

Start(w) ==
  /\ w \notin up
  /\ up' = up \cup {w}
  /\ UNCHANGED <<active, lease, pc, age, renewed, boundVars>>

\* The process ends, holding the leases kept; it comes back as another worker.
EndsKeeping(w, kept) ==
  /\ w \in up /\ restarts < MaxRestarts
  /\ restarts' = restarts + 1
  /\ up' = up \ {w}
  /\ pc' = [pc EXCEPT ![w] = [u \in Users |-> "none"]]
  /\ age' = [age EXCEPT ![w] = [u \in Users |-> 0]]
  /\ renewed' = [renewed EXCEPT ![w] = [u \in Users |-> NotRenewed]]
  /\ lease' = [u \in Users |-> IF lease[u].by # w THEN lease[u]
                               ELSE IF u \in kept THEN [lease[u] EXCEPT !.by = Gone]
                               ELSE NoLease]
  /\ UNCHANGED <<active, stalls, faults, toggles>>

Crash(w) == EndsKeeping(w, Users)

\* A signal, or an error of stream_candidates, cancels every task; each runs
\* its finally, save where it had not come to the try or its release fails.
Stop(w) == EndsKeeping(w, {u \in Users : pc[w][u] \in {"none", "acquire"}})

-----------------------------------------------------------------------------
(* run_forever: stream_candidates, in the order of the users' ids.         *)

Candidates == {u \in active : Cardinality({v \in active : Before(v, u)}) < Limit}

Poll(w) ==
  LET new == {u \in Candidates : pc[w][u] = "none"}
  IN /\ w \in up /\ new # {}
     /\ pc' = [pc EXCEPT ![w] = [u \in Users |-> IF u \in new THEN "acquire" ELSE @[u]]]
     /\ UNCHANGED <<active, lease, up, age, renewed, boundVars>>

-----------------------------------------------------------------------------
(* _run_user and _stream_once.                                             *)

\* Mutation: an expired lease is not taken over.
AvailableNew(w, u) == lease[u].by \in {Nobody, w}

Available(w, u) == lease[u].left = 0 \/ lease[u].by = w

\* acquire_stream_lease; an error leaves before the try, with or without it.
Acquire(w, u) ==
  /\ pc[w][u] = "acquire"
  /\ \/ Available(w, u) /\ Renews(w, u, TRUE) /\ Goto(w, u, "check") /\ UNCHANGED faults
     \/ ~Available(w, u) /\ Goto(w, u, "none") /\ UNCHANGED <<lease, renewed, faults>>
     \/ /\ Fault
        /\ lease' = lease \/ (Available(w, u) /\ lease' = LeasedBy(w, u))
        /\ Goto(w, u, "none") /\ UNCHANGED renewed
  /\ UNCHANGED <<active, up, stalls, restarts, toggles>>

\* access_token_for_user and _active_instruments, before a socket is opened.
CheckUser(w, u) ==
  /\ pc[w][u] = "check"
  /\ \/ Goto(w, u, IF u \in active THEN "setup" ELSE "release") /\ UNCHANGED faults
     \/ Fault /\ Goto(w, u, "release")
  /\ UNCHANGED <<active, lease, up, renewed, stalls, restarts, toggles>>

\* _authorize_stream_uri, connect and the subscription.
Connect(w, u) ==
  /\ pc[w][u] = "setup"
  /\ Goto(w, u, "stream")
  /\ UNCHANGED <<active, lease, up, renewed, boundVars>>

\* An error while connecting or streaming.
Interrupt(w, u) ==
  /\ pc[w][u] \in {"setup", "stream"}
  /\ Fault
  /\ Goto(w, u, "retry")
  /\ UNCHANGED <<active, lease, up, renewed, stalls, restarts, toggles>>

\* Mutation: the refreshed instruments are not looked at.
RefreshIgnored(w, u) == FALSE /\ UNCHANGED streamVars

\* The loop of _run_user goes on as it began, but with an older lease.
BackToLoop(w, u) ==
  Goto(w, u, "check") /\ Remember(w, u, [renewed[w][u] EXCEPT !.direct = FALSE])

\* The refreshed instruments are none: _stream_once returns to the loop.
Refresh(w, u) ==
  /\ pc[w][u] = "stream" /\ u \notin active
  /\ BackToLoop(w, u)
  /\ UNCHANGED <<active, lease, up, boundVars>>

\* The heartbeat of the socket's loop: without the lease, _stream_once returns
\* to the loop as well.
Heartbeat(w, u) ==
  /\ pc[w][u] = "stream" /\ age[w][u] = Beat
  /\ \/ Alive(w, u) /\ Renews(w, u, TRUE) /\ Goto(w, u, "stream")
     \/ ~Alive(w, u) /\ UNCHANGED lease /\ BackToLoop(w, u)
  /\ UNCHANGED <<active, up, boundVars>>

\* The heartbeat after an error, outside any try but the outer one.
Retry(w, u) ==
  /\ pc[w][u] = "retry"
  /\ \/ Alive(w, u) /\ Renews(w, u, FALSE) /\ Goto(w, u, "backoff") /\ UNCHANGED faults
     \/ ~Alive(w, u) /\ Goto(w, u, "release") /\ UNCHANGED <<lease, renewed, faults>>
     \/ /\ Fault
        /\ lease' = lease \/ (Alive(w, u) /\ lease' = LeasedBy(w, u))
        /\ Goto(w, u, "release") /\ UNCHANGED renewed
  /\ UNCHANGED <<active, up, stalls, restarts, toggles>>

WakeUp(w, u) ==
  /\ pc[w][u] = "backoff" /\ age[w][u] > 0
  /\ Goto(w, u, "check")
  /\ UNCHANGED <<active, lease, up, renewed, boundVars>>

\* The finally of _run_user.
Release(w, u) ==
  /\ pc[w][u] = "release"
  /\ Goto(w, u, "none") /\ Remember(w, u, NotRenewed)
  /\ \/ lease' = Released(w, u) /\ UNCHANGED faults
     \/ Fault /\ lease' \in {lease, Released(w, u)}
  /\ UNCHANGED <<active, up, stalls, restarts, toggles>>

-----------------------------------------------------------------------------
RunUser(w, u) ==
  \/ Acquire(w, u) \/ CheckUser(w, u) \/ Connect(w, u) \/ Refresh(w, u)
  \/ Heartbeat(w, u) \/ Retry(w, u) \/ WakeUp(w, u) \/ Release(w, u)

StreamNext ==
  \/ Tick
  \/ \E u \in Users : Toggle(u)
  \/ \E w \in Workers :
       \/ Start(w) \/ Stop(w) \/ Crash(w) \/ Poll(w)
       \/ \E u \in Users : RunUser(w, u) \/ Interrupt(w, u)

StreamSpec == StreamInit /\ [][StreamNext]_streamVars

\* Workers are restarted and poll for ever, a task that is not cancelled goes
\* on (its requests have timeouts), and time passes: a worker sleeps between
\* two polls, so that tasks which come and go do not stop the clock.
FairStreamSpec ==
  /\ StreamSpec
  /\ SF_streamVars(Tick)
  /\ \A w \in Workers :
       /\ WF_streamVars(Start(w)) /\ WF_streamVars(Poll(w))
       /\ \A u \in Users : WF_streamVars(RunUser(w, u)) /\ WF_streamVars(Refresh(w, u))

-----------------------------------------------------------------------------
Sockets(u) == {w \in Workers : pc[w][u] = "stream"}

\* Whatever stalls, a task has the lease of its user to itself for as long as it
\* was leased when it last renewed it.
LeasesExclude ==
  \A w \in Workers, u \in Users :
    renewed[w][u].ago < Lease => lease[u].by = w /\ lease[u].left >= Lease - renewed[w][u].ago

\* A socket that was opened with a lease just acquired, or that has seen its first
\* heartbeat, is within that time, through errors, restarts and lost
\* acknowledgements, until a task outstays the bound of what it waits for.
FirstSocketsAreLeased ==
  stalls = 0 /\ Setup + Beat < Lease =>
    \A u \in Users : \A w \in Sockets(u) : renewed[w][u].direct => renewed[w][u].ago < Lease

\* One opened after a pause, after a return to the loop or without a lease is
\* covered until its lease is up, and the only one of its user's no longer.
SocketsAreLeased == LeasesExclude /\ FirstSocketsAreLeased

StreamInv == StreamTypeOK /\ SocketsAreLeased

\* "Runs one verified-TLS V3 market socket per leased, connected Upstox user."
OneSocketPerUser == \A u \in Users : Cardinality(Sockets(u)) <= 1

\* A user who stays among the first Limit active ones is streamed again and
\* again, though workers die with the lease in hand or lose it to another.
ActiveIsStreamed ==
  \A u \in Users : <>[](u \in Candidates) => []<>(Sockets(u) # {})

\* A user who is no longer active loses every socket, also those opened
\* without a lease.
InactiveIsClosed ==
  \A u \in Users : u \notin active ~> (u \in active \/ Sockets(u) = {})
=============================================================================
