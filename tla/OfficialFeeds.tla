---------------------------- MODULE OfficialFeeds ----------------------------
(***************************************************************************)
(* The official feed daemons (workers/official_feeds.py) and the leases    *)
(* they share in official_data_feeds: a daemon leases a batch of due feeds *)
(* at once and works through it feed by feed, fetching conditionally,      *)
(* ingesting what changed and writing the feed's outcome.  A lease is not  *)
(* renewed and its row does not name its holder, so a slow daemon may      *)
(* finish a feed that another has leased since.                            *)
(*                                                                         *)
(* Time is relative: a feed's `wait` counts down to next_run_at and its    *)
(* `lease` to lease_until.  A feed's content is a version number, and its  *)
(* validators (etag, last_modified) are the version they were sent with.   *)
(* Rows of official_ingestion_runs, which no daemon reads, are left out.   *)
(***************************************************************************)
EXTENDS Naturals, FiniteSets, Sequences, SequencesExt

CONSTANTS
  Daemons,
  Feeds,
  Unlicensed,   \* feeds the production policy blocks
  None,
  Batch,        \* claim_due: limit
  Lease,        \* claim_due: lease_seconds
  Interval,     \* poll_interval_seconds
  Retry,        \* fail: seconds to the next run
  MaxVersions,  \* bound: versions a source publishes
  MaxCrashes,   \* bound: daemons killed
  MaxFaults,    \* bound: failed transactions and fetches
  MaxRegistrations  \* bound: registrations by an operator

\* The schema keeps poll_interval_seconds at 300 or more, fail waits for 300 at
\* least, and run_once leases for 300.
ASSUME FeedAssumption ==
  /\ Unlicensed \subseteq Feeds /\ None \notin Feeds /\ IsFiniteSet(Feeds)
  /\ Batch \in Nat \ {0} /\ Lease \in Nat \ {0}
  /\ Interval \in Nat /\ Interval >= Lease
  /\ Retry \in Nat /\ Retry >= Lease
  /\ MaxVersions \in Nat \ {0} /\ MaxCrashes \in Nat /\ MaxFaults \in Nat
  /\ MaxRegistrations \in Nat

VARIABLES
  feed,       \* table official_data_feeds
  due,        \* feeds with next_run_at <= now, in the order they became so
  source,     \* the version an exchange serves
  ingested,   \* the versions whose disclosures are stored and dispatched
  pc,         \* where a daemon stands in run_once
  batch,      \* the claims it still has to work on
  cur,        \* the one it is working on
  got,        \* the version it fetched, 0 for "not modified"
  crashes, faults, registrations

feedVars == <<feed, due, source, ingested, pc, batch, cur, got, crashes, faults, registrations>>
boundVars == <<crashes, faults, registrations>>

Versions == 1..MaxVersions
Row == [enabled : BOOLEAN, wait : Nat, lease : Nat, validator : Versions \cup {0}]

\* A claim: the feed, its validator when it was claimed, and what is left of
\* the claim's own lease.
Claim == [id : Feeds, validator : Versions \cup {0}, left : Nat]

FeedTypeOK ==
  /\ feed \in [Feeds -> Row]
  /\ due \in Seq(Feeds) /\ IsInjective(due)
  /\ source \in [Feeds -> Versions]
  /\ ingested \in [Feeds -> SUBSET Versions]
  /\ pc \in [Daemons -> {"down", "idle", "next", "block", "fetch", "ingest", "complete", "fail"}]
  /\ batch \in [Daemons -> SUBSET Claim]
  /\ cur \in [Daemons -> Feeds \cup {None}]
  /\ \A d \in Daemons :
       IF pc[d] \in {"down", "idle", "next"} THEN cur[d] = None ELSE \E c \in batch[d] : c.id = cur[d]
  /\ got \in [Daemons -> Versions \cup {0}]
  /\ crashes \in 0..MaxCrashes /\ faults \in 0..MaxFaults /\ registrations \in 0..MaxRegistrations

FeedInit ==
  /\ feed = [f \in Feeds |-> [enabled |-> TRUE, wait |-> 0, lease |-> 0, validator |-> 0]]
  /\ due \in SetToSeqs(Feeds)
  /\ source = [f \in Feeds |-> 1]
  /\ ingested = [f \in Feeds |-> {}]
  /\ pc = [d \in Daemons |-> "down"]
  /\ batch = [d \in Daemons |-> {}]
  /\ cur = [d \in Daemons |-> None]
  /\ got = [d \in Daemons |-> 0]
  /\ crashes = 0 /\ faults = 0 /\ registrations = 0

-----------------------------------------------------------------------------
ClaimOf(d) == CHOOSE c \in batch[d] : c.id = cur[d]
Goto(d, label) == pc' = [pc EXCEPT ![d] = label]
Fault == faults < MaxFaults /\ faults' = faults + 1
Down(n) == IF n > 0 THEN n - 1 ELSE 0

\* The daemon loses what it has in memory.
Dies(d) ==
  /\ Goto(d, "down")
  /\ batch' = [batch EXCEPT ![d] = {}]
  /\ cur' = [cur EXCEPT ![d] = None]
  /\ got' = [got EXCEPT ![d] = 0]

\* The claim is dealt with.
Drops(d) ==
  /\ Goto(d, "next")
  /\ batch' = [batch EXCEPT ![d] = @ \ {ClaimOf(d)}]
  /\ cur' = [cur EXCEPT ![d] = None]
  /\ got' = [got EXCEPT ![d] = 0]

Mutates(table, queue) == feed' = table /\ due' = queue

\* The queue when f is no longer due.
Without(f) ==
  LET at == {i \in DOMAIN due : due[i] = f}
  IN IF at = {} THEN due ELSE RemoveAt(due, CHOOSE i \in at : TRUE)

\* A transaction at the end of a claim: when it fails, with or without its
\* commit, the exception leaves run_once and ends the process.
Ends(d, table, queue) ==
  \/ Mutates(table, queue) /\ Drops(d) /\ UNCHANGED faults
  \/ Fault /\ (Mutates(table, queue) \/ UNCHANGED <<feed, due>>) /\ Dies(d)

-----------------------------------------------------------------------------
(* The world outside the daemons.                                          *)

\* Time passes for every row, and for every claim's own lease.
Tick ==
  LET over == {f \in Feeds : feed[f].wait = 1}
  IN /\ \/ \E f \in Feeds : feed[f].wait > 0 \/ feed[f].lease > 0
        \/ \E d \in Daemons : \E c \in batch[d] : c.left > 0
     /\ feed' = [f \in Feeds |-> [feed[f] EXCEPT !.wait = Down(@), !.lease = Down(@)]]
     /\ \E s \in SetToSeqs(over) : due' = due \o s
     /\ batch' = [d \in Daemons |-> {[c EXCEPT !.left = Down(@)] : c \in batch[d]}]
     /\ UNCHANGED <<source, ingested, pc, cur, got, boundVars>>

\* No daemon asks the source of an unlicensed feed, so that one stays as it is.
Publish(f) ==
  /\ f \notin Unlicensed /\ source[f] < MaxVersions
  /\ source' = [source EXCEPT ![f] = @ + 1]
  /\ UNCHANGED <<feed, due, ingested, pc, batch, cur, got, boundVars>>

\* register_official_feed.py on a feed that exists: enabling makes it due at
\* once, unless the production policy blocks it; disabling clears its lease.
Register(f, enabled) ==
  /\ registrations < MaxRegistrations
  /\ enabled => f \notin Unlicensed
  /\ registrations' = registrations + 1
  /\ feed' = [feed EXCEPT ![f].enabled = enabled,
                          ![f].wait = IF enabled THEN 0 ELSE @,
                          ![f].lease = IF enabled THEN @ ELSE 0]
  /\ due' = IF enabled /\ feed[f].wait > 0 THEN Append(due, f) ELSE due
  /\ UNCHANGED <<source, ingested, pc, batch, cur, got, crashes, faults>>

Start(d) ==
  /\ pc[d] = "down"
  /\ Goto(d, "idle")
  /\ UNCHANGED <<feed, due, source, ingested, batch, cur, got, boundVars>>

Crash(d) ==
  /\ pc[d] # "down" /\ crashes < MaxCrashes
  /\ crashes' = crashes + 1
  /\ Dies(d)
  /\ UNCHANGED <<feed, due, source, ingested, faults, registrations>>

-----------------------------------------------------------------------------
(* run_once.                                                               *)

Claimable(f) == feed[f].enabled /\ feed[f].wait = 0 /\ feed[f].lease = 0

\* Mutation: any due feeds, in no order.
ChosenUnordered == {s \in SUBSET {f \in ToSet(due) : Claimable(f)} : Cardinality(s) \in 1..Batch}

\* The due feeds without a live lease that have waited longest.
Chosen ==
  LET open == {i \in DOMAIN due : Claimable(due[i])}
  IN {{f \in Feeds : \E i \in open : due[i] = f /\ Cardinality({k \in open : k < i}) < Batch}}

\* claim_due.
ClaimDue(d) ==
  /\ pc[d] = "idle"
  /\ \E chosen \in Chosen :
       LET leased == [f \in Feeds |-> IF f \in chosen THEN [feed[f] EXCEPT !.lease = Lease] ELSE feed[f]]
       IN /\ chosen # {}
          /\ \/ /\ feed' = leased
                /\ batch' = [batch EXCEPT ![d] = {[id |-> f, validator |-> feed[f].validator,
                                                   left |-> Lease] : f \in chosen}]
                /\ Goto(d, "next")
                /\ UNCHANGED <<cur, got, faults>>
             \/ Fault /\ feed' \in {feed, leased} /\ Dies(d)
  /\ UNCHANGED <<due, source, ingested, crashes, registrations>>

\* The next claim of the batch, checked against the production policy.
NextClaim(d) ==
  /\ pc[d] = "next"
  /\ \/ \E c \in batch[d] :
          /\ cur' = [cur EXCEPT ![d] = c.id]
          /\ Goto(d, IF c.id \in Unlicensed THEN "block" ELSE "fetch")
     \/ batch[d] = {} /\ Goto(d, "idle") /\ UNCHANGED cur
  /\ UNCHANGED <<feed, due, source, ingested, batch, got, boundVars>>

\* OfficialFeedRepository.block, outside the try of run_once.
Block(d) ==
  LET f == cur[d]
  IN /\ pc[d] = "block"
     /\ Ends(d, [feed EXCEPT ![f].enabled = FALSE, ![f].lease = 0], due)
     /\ UNCHANGED <<source, ingested, crashes, registrations>>

\* _fetch_claim_source: the claim's validators make the request conditional.
Fetch(d) ==
  LET f == cur[d]
  IN /\ pc[d] = "fetch"
     /\ \/ /\ got' = [got EXCEPT ![d] = source[f]]
           /\ Goto(d, "ingest")
           /\ UNCHANGED faults
        \/ /\ ClaimOf(d).validator = source[f]
           /\ got' = [got EXCEPT ![d] = 0]
           /\ Goto(d, "complete")
           /\ UNCHANGED faults
        \/ Fault /\ Goto(d, "fail") /\ UNCHANGED got
     /\ UNCHANGED <<feed, due, source, ingested, batch, cur, crashes, registrations>>

\* Mutation: a failed ingestion completes the feed.
IngestCompletes(d) ==
  /\ pc[d] = "ingest"
  /\ \/ /\ ingested' = [ingested EXCEPT ![cur[d]] = @ \cup {got[d]}]
        /\ Goto(d, "complete")
        /\ UNCHANGED faults
     \/ Fault /\ Goto(d, "complete") /\ UNCHANGED ingested
  /\ UNCHANGED <<feed, due, source, batch, cur, got, crashes, registrations>>

\* _dispatch: everything stored, or an exception, with part of it stored.
Ingest(d) ==
  /\ pc[d] = "ingest"
  /\ \/ /\ ingested' = [ingested EXCEPT ![cur[d]] = @ \cup {got[d]}]
        /\ Goto(d, "complete")
        /\ UNCHANGED faults
     \/ Fault /\ Goto(d, "fail") /\ UNCHANGED ingested
  /\ UNCHANGED <<feed, due, source, batch, cur, got, crashes, registrations>>

\* The feed's row when a run of it is over, whoever holds its lease now.
Finished(f, wait, validator) ==
  [feed EXCEPT ![f] = [@ EXCEPT !.wait = wait, !.lease = 0, !.validator = validator]]

\* complete, inside the try: when it fails, fail is called next.
Complete(d) ==
  LET f == cur[d]
      \* coalesce: a response need not carry validators.
      sent == IF got[d] = 0 THEN {ClaimOf(d).validator} ELSE {got[d], feed[f].validator}
  IN /\ pc[d] = "complete"
     /\ \E validator \in sent :
          \/ Mutates(Finished(f, Interval, validator), Without(f)) /\ Drops(d) /\ UNCHANGED faults
          \/ /\ Fault
             /\ \/ Mutates(Finished(f, Interval, validator), Without(f))
                \/ UNCHANGED <<feed, due>>
             /\ Goto(d, "fail")
             /\ UNCHANGED <<batch, cur, got>>
     /\ UNCHANGED <<source, ingested, crashes, registrations>>

\* Mutation: a failed feed is due again at once.
FailAtOnce(d) ==
  LET f == cur[d]
  IN /\ pc[d] = "fail"
     /\ Ends(d, Finished(f, 1, feed[f].validator), Without(f))
     /\ UNCHANGED <<source, ingested, crashes, registrations>>

\* OfficialFeedRepository.fail.
Fail(d) ==
  LET f == cur[d]
  IN /\ pc[d] = "fail"
     /\ Ends(d, Finished(f, Retry, feed[f].validator), Without(f))
     /\ UNCHANGED <<source, ingested, crashes, registrations>>

-----------------------------------------------------------------------------
RunOnce(d) ==
  \/ ClaimDue(d) \/ NextClaim(d) \/ Block(d) \/ Fetch(d) \/ Ingest(d) \/ Complete(d) \/ Fail(d)

FeedNext ==
  \/ Tick
  \/ \E f \in Feeds : Publish(f) \/ \E enabled \in BOOLEAN : Register(f, enabled)
  \/ \E d \in Daemons : Start(d) \/ RunOnce(d) \/ Crash(d)

FeedSpec == FeedInit /\ [][FeedNext]_feedVars

\* Daemons poll for ever and are restarted, every await returns (requests have
\* timeouts), and time passes.
FairFeedSpec ==
  /\ FeedSpec
  /\ WF_feedVars(Tick)
  /\ \A d \in Daemons : WF_feedVars(Start(d)) /\ WF_feedVars(RunOnce(d))

-----------------------------------------------------------------------------
\* Two daemons never hold unexpired leases of one feed.  The row does not name
\* the holder, so a daemon that finishes late clears the lease of another; what
\* keeps a third one away is that the feed is not due for as long as that lease
\* would have lasted.  (An operator who registers the feed again voids this.)
UnexpiredIsExclusive ==
  registrations = 0 =>
    \A d, e \in Daemons : \A b \in batch[d], c \in batch[e] :
      d # e /\ b.id = c.id => b.left = 0 \/ c.left = 0

FeedInv == FeedTypeOK /\ UnexpiredIsExclusive

\* A conditional request never hides content that was not ingested: the
\* validators a feed keeps are those of an ingested version, whatever runs
\* failed, died or overlapped.
ValidatorIsIngested ==
  \A f \in Feeds : feed[f].validator # 0 => feed[f].validator \in ingested[f]

\* Every version the source of an enabled, licensed feed publishes is ingested,
\* or replaced by its source first, across crashes, failed runs and expired
\* leases; no feed is starved by others that are due.
VersionsArrive ==
  \A f \in Feeds \ Unlicensed, v \in Versions :
    source[f] = v ~> v \in ingested[f] \/ source[f] > v \/ ~feed[f].enabled
=============================================================================
