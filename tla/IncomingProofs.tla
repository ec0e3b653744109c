----------------------------- MODULE IncomingProofs -----------------------------
(* What comes in from outside: the disclosures that the feed daemons fetch,  *)
(* and the quotes of the users' broker connections.                          *)
EXTENDS OfficialFeeds, LiveQuotes, FiniteSetTheorems, TLAPS

-----------------------------------------------------------------------------
(* No validator outruns the ingestion of its version, and no two daemons work *)
(* on a feed under live leases, for every number of daemons, feeds, crashes   *)
(* and failures.                                                              *)

Labels == {"down", "idle", "next", "block", "fetch", "ingest", "complete", "fail"}
Working == {"block", "fetch", "ingest", "complete", "fail"}

\* A validator stands for content that is stored.
Stored(v, f) == v # 0 => v \in ingested[f]

Types ==
  /\ feed \in [Feeds -> Row]
  /\ ingested \in [Feeds -> SUBSET Versions]
  /\ source \in [Feeds -> Versions]
  /\ pc \in [Daemons -> Labels]
  /\ batch \in [Daemons -> SUBSET Claim]
  /\ cur \in [Daemons -> Feeds \cup {None}]
  /\ got \in [Daemons -> Versions \cup {0}]

\* The inductive invariant: besides the feeds' validators, those of the claims,
\* which a 304 writes back, and the version a daemon is about to complete.
IInv ==
  /\ Types
  /\ \A f \in Feeds : Stored(feed[f].validator, f)
  /\ \A d \in Daemons : \A c \in batch[d] : Stored(c.validator, c.id)
  /\ \A d \in Daemons : pc[d] \in Working => \E c \in batch[d] : c.id = cur[d]
  /\ \A d \in Daemons : pc[d] = "complete" => Stored(got[d], cur[d])
  /\ \A d \in Daemons : pc[d] = "ingest" => got[d] # 0

LEMMA ClaimChosen ==
  ASSUME IInv, NEW d \in Daemons, pc[d] \in Working
  PROVE  ClaimOf(d) \in batch[d] /\ ClaimOf(d).id = cur[d] /\ ClaimOf(d) \in Claim /\ cur[d] \in Feeds
<1>1. \E c \in batch[d] : c.id = cur[d]
  BY DEF IInv
<1>2. ClaimOf(d) \in batch[d] /\ ClaimOf(d).id = cur[d]
  BY <1>1 DEF ClaimOf
<1>3. ClaimOf(d) \in Claim
  BY <1>2 DEF IInv, Types
<1> QED
  BY <1>2, <1>3 DEF Claim

\* What an action does to the daemons' own state, as one says of it at most:
\* d is where it says, its claims are of the old ones.
LEMMA DaemonMoves ==
  ASSUME IInv, NEW d \in Daemons, NEW label \in Labels,
         feed' \in [Feeds -> Row], \A f \in Feeds : Stored(feed'[f].validator, f),
         UNCHANGED <<source, ingested>>,
         pc' = [pc EXCEPT ![d] = label],
         batch' \in {batch, [batch EXCEPT ![d] = batch'[d]]}, batch'[d] \subseteq batch[d],
         cur' = [cur EXCEPT ![d] = cur'[d]], cur'[d] \in Feeds \cup {None},
         got' = [got EXCEPT ![d] = got'[d]], got'[d] \in Versions \cup {0},
         label \in Working => \E c \in batch'[d] : c.id = cur'[d],
         label = "complete" => Stored(got'[d], cur'[d]),
         label = "ingest" => got'[d] # 0
  PROVE  IInv'
<1>1. batch'[d] \in SUBSET Claim /\ \A e \in Daemons \ {d} : batch'[e] = batch[e]
  BY DEF IInv, Types
<1>2. Types'
  BY <1>1 DEF IInv, Types
<1>3. /\ \A e \in Daemons \ {d} : pc'[e] = pc[e] /\ cur'[e] = cur[e] /\ got'[e] = got[e]
      /\ pc'[d] = label
  BY DEF IInv, Types
<1>4. ASSUME NEW e \in Daemons
      PROVE  /\ \A c \in batch'[e] : Stored(c.validator, c.id)
             /\ pc'[e] \in Working => \E c \in batch'[e] : c.id = cur'[e]
             /\ pc'[e] = "complete" => Stored(got'[e], cur'[e])
             /\ pc'[e] = "ingest" => got'[e] # 0
  BY <1>1, <1>3 DEF IInv
<1> QED
  BY <1>2, <1>4 DEF IInv, Stored

\* One row of the table replaced.
LEMMA OneRow ==
  ASSUME IInv, NEW f \in Feeds, NEW r \in Row
  PROVE  /\ [feed EXCEPT ![f] = r] \in [Feeds -> Row]
         /\ \A g \in Feeds : [feed EXCEPT ![f] = r][g].validator
                               = IF g = f THEN r.validator ELSE feed[g].validator
BY DEF IInv, Types

-----------------------------------------------------------------------------
LEMMA IInvInit == FeedInit => IInv
<1> SUFFICES ASSUME FeedInit PROVE IInv
  OBVIOUS
<1>1. 1 \in Versions
  BY FeedAssumption DEF Versions
<1>2. Types
  BY <1>1 DEF FeedInit, Types, Row, Labels
<1> QED
  BY <1>2 DEF FeedInit, IInv, Stored, Working

\* The clock changes neither validators nor whom a claim is of.
LEMMA TickKeeps == ASSUME IInv, Tick PROVE IInv'
<1>1. \A n \in Nat : Down(n) \in Nat
  BY DEF Down
<1>2. feed' \in [Feeds -> Row] /\ \A f \in Feeds : feed'[f].validator = feed[f].validator
  BY <1>1 DEF Tick, IInv, Types, Row
<1>3. ASSUME NEW c \in Claim
      PROVE  /\ [c EXCEPT !.left = Down(@)] \in Claim
             /\ [c EXCEPT !.left = Down(@)].id = c.id
             /\ [c EXCEPT !.left = Down(@)].validator = c.validator
  BY <1>1 DEF Claim
<1>4. ASSUME NEW d \in Daemons
      PROVE  /\ batch'[d] = {[c EXCEPT !.left = Down(@)] : c \in batch[d]}
             /\ batch[d] \subseteq Claim
  BY DEF Tick, IInv, Types
<1>5. ASSUME NEW d \in Daemons
      PROVE  /\ batch'[d] \subseteq Claim
             /\ \A c \in batch'[d] : Stored(c.validator, c.id)
             /\ (\E c \in batch[d] : c.id = cur[d]) => \E c \in batch'[d] : c.id = cur[d]
  <2>1. \A c \in batch[d] : Stored(c.validator, c.id)
    BY DEF IInv
  <2>2. ASSUME NEW b \in batch'[d]
        PROVE  \E c \in batch[d] : b \in Claim /\ b.id = c.id /\ b.validator = c.validator
    <3>1. PICK c \in batch[d] : b = [c EXCEPT !.left = Down(@)]
      BY <1>4
    <3>2. c \in Claim
      BY <1>4
    <3> QED
      BY <1>3, <3>1, <3>2
  <2>3. ASSUME NEW c \in batch[d] PROVE \E b \in batch'[d] : b.id = c.id
    <3>1. c \in Claim /\ [c EXCEPT !.left = Down(@)] \in batch'[d]
      BY <1>4
    <3> QED
      BY <1>3, <3>1
  <2> QED
    BY <2>1, <2>2, <2>3
<1>6. Types'
  BY <1>2, <1>5 DEF Tick, IInv, Types
<1>7. UNCHANGED <<source, ingested, pc, cur, got>>
  BY DEF Tick
<1>8. ASSUME NEW d \in Daemons
      PROVE  /\ \A c \in batch'[d] : Stored(c.validator, c.id)'
             /\ pc'[d] \in Working => \E c \in batch'[d] : c.id = cur'[d]
             /\ pc'[d] = "complete" => Stored(got[d], cur[d])'
             /\ pc'[d] = "ingest" => got'[d] # 0
  BY <1>5, <1>7 DEF IInv, Stored
<1>9. \A f \in Feeds : Stored(feed[f].validator, f)'
  BY <1>2, <1>7 DEF IInv, Stored
<1> QED
  BY <1>6, <1>8, <1>9 DEF IInv

LEMMA PublishKeeps == ASSUME IInv, NEW f \in Feeds, Publish(f) PROVE IInv'
<1>1. source' \in [Feeds -> Versions]
  BY FeedAssumption DEF Publish, IInv, Types, Versions
<1> QED
  BY <1>1 DEF Publish, IInv, Types, Stored

LEMMA RegisterKeeps ==
  ASSUME IInv, NEW f \in Feeds, NEW enabled \in BOOLEAN, Register(f, enabled) PROVE IInv'
<1> DEFINE newRow == [feed[f] EXCEPT !.enabled = enabled, !.wait = IF enabled THEN 0 ELSE @,
                                  !.lease = IF enabled THEN @ ELSE 0]
<1>1. newRow \in Row /\ newRow.validator = feed[f].validator
  BY DEF IInv, Types, Row
<1>2. feed' = [feed EXCEPT ![f] = newRow]
  BY DEF Register, IInv, Types, Row
<1>3. feed' \in [Feeds -> Row] /\ \A g \in Feeds : feed'[g].validator = feed[g].validator
  BY <1>1, <1>2, OneRow
<1> QED
  BY <1>3 DEF Register, IInv, Types, Stored

\* A daemon that starts, or ends, has nothing in hand.
LEMMA DiesKeeps ==
  ASSUME IInv, NEW d \in Daemons, Dies(d),
         feed' \in [Feeds -> Row], \A f \in Feeds : Stored(feed'[f].validator, f),
         UNCHANGED <<source, ingested>>
  PROVE  IInv'
<1>1. /\ batch'[d] = {} /\ cur'[d] = None /\ got'[d] = 0
      /\ batch' = [batch EXCEPT ![d] = batch'[d]]
      /\ cur' = [cur EXCEPT ![d] = cur'[d]] /\ got' = [got EXCEPT ![d] = got'[d]]
      /\ pc' = [pc EXCEPT ![d] = "down"]
  BY DEF Dies, Goto, IInv, Types
<1>2. "down" \in Labels /\ "down" \notin Working
  BY DEF Labels, Working
<1> QED
  BY <1>1, <1>2, DaemonMoves

LEMMA DropsKeeps ==
  ASSUME IInv, NEW d \in Daemons, Drops(d),
         feed' \in [Feeds -> Row], \A f \in Feeds : Stored(feed'[f].validator, f),
         UNCHANGED <<source, ingested>>
  PROVE  IInv'
<1>1. /\ batch'[d] \subseteq batch[d] /\ cur'[d] = None /\ got'[d] = 0
      /\ batch' = [batch EXCEPT ![d] = batch'[d]]
      /\ cur' = [cur EXCEPT ![d] = cur'[d]] /\ got' = [got EXCEPT ![d] = got'[d]]
      /\ pc' = [pc EXCEPT ![d] = "next"]
  BY DEF Drops, Goto, IInv, Types
<1>2. "next" \in Labels /\ "next" \notin Working
  BY DEF Labels, Working
<1> QED
  BY <1>1, <1>2, DaemonMoves

\* A transaction at the end of a claim keeps what holds of the table it writes.
LEMMA EndsKeeps ==
  ASSUME IInv, NEW d \in Daemons, NEW table \in [Feeds -> Row], NEW queue,
         \A f \in Feeds : Stored(table[f].validator, f),
         Ends(d, table, queue), UNCHANGED <<source, ingested>>
  PROVE  IInv'
<1>1. feed \in [Feeds -> Row] /\ \A f \in Feeds : Stored(feed[f].validator, f)
  BY DEF IInv, Types
<1>2. feed' \in {feed, table} /\ (Drops(d) \/ Dies(d))
  BY DEF Ends, Mutates
<1> QED
  BY <1>1, <1>2, DropsKeeps, DiesKeeps

LEMMA FinishedRow ==
  ASSUME IInv, NEW f \in Feeds, NEW wait \in Nat, NEW v \in Versions \cup {0}, Stored(v, f)
  PROVE  /\ Finished(f, wait, v) \in [Feeds -> Row]
         /\ \A g \in Feeds : Stored(Finished(f, wait, v)[g].validator, g)
<1> DEFINE newRow == [feed[f] EXCEPT !.wait = wait, !.lease = 0, !.validator = v]
<1>1. newRow \in Row /\ newRow.validator = v /\ Finished(f, wait, v) = [feed EXCEPT ![f] = newRow]
  BY DEF Finished, IInv, Types, Row
<1> QED
  BY <1>1, OneRow DEF IInv

LEMMA CrashKeeps == ASSUME IInv, NEW d \in Daemons, Crash(d) PROVE IInv'
<1>1. Dies(d) /\ UNCHANGED <<feed, source, ingested>>
  BY DEF Crash
<1> QED
  BY <1>1, DiesKeeps DEF IInv, Types

LEMMA StartKeeps == ASSUME IInv, NEW d \in Daemons, Start(d) PROVE IInv'
<1>1. pc' = [pc EXCEPT ![d] = "idle"] /\ UNCHANGED <<feed, source, ingested, batch, cur, got>>
  BY DEF Start, Goto
<1>2. pc' \in [Daemons -> Labels] /\ \A e \in Daemons : pc'[e] \in Working => pc'[e] = pc[e]
  BY <1>1 DEF IInv, Types, Labels, Working
<1> QED
  BY <1>1, <1>2 DEF IInv, Types, Stored, Working

-----------------------------------------------------------------------------
(* run_once.                                                               *)

LEMMA ChosenFeeds ==
  ASSUME NEW chosen \in Chosen PROVE chosen \subseteq Feeds
BY DEF Chosen

\* A claim carries the validator its feed has in the table.
LEMMA ClaimDueKeeps == ASSUME IInv, NEW d \in Daemons, ClaimDue(d) PROVE IInv'
<1>1. PICK chosen \in Chosen :
        LET leased == [f \in Feeds |-> IF f \in chosen THEN [feed[f] EXCEPT !.lease = Lease]
                                                      ELSE feed[f]]
        IN \/ /\ feed' = leased
              /\ batch' = [batch EXCEPT ![d] = {[id |-> f, validator |-> feed[f].validator,
                                                 left |-> Lease] : f \in chosen}]
              /\ Goto(d, "next")
              /\ UNCHANGED <<cur, got>>
           \/ feed' \in {feed, leased} /\ Dies(d)
  BY DEF ClaimDue
<1> DEFINE leased == [f \in Feeds |-> IF f \in chosen THEN [feed[f] EXCEPT !.lease = Lease] ELSE feed[f]]
           claims == {[id |-> f, validator |-> feed[f].validator, left |-> Lease] : f \in chosen}
<1>2. leased \in [Feeds -> Row] /\ \A f \in Feeds : leased[f].validator = feed[f].validator
  BY FeedAssumption DEF IInv, Types, Row
<1>3. feed \in [Feeds -> Row] /\ \A f \in Feeds : Stored(feed[f].validator, f)
  BY DEF IInv, Types
<1>4. UNCHANGED <<source, ingested>>
  BY DEF ClaimDue
<1>5. CASE /\ feed' = leased /\ batch' = [batch EXCEPT ![d] = claims]
           /\ Goto(d, "next") /\ UNCHANGED <<cur, got>>
  <2>1. chosen \subseteq Feeds
    BY ChosenFeeds
  <2>2. claims \subseteq Claim /\ \A c \in claims : Stored(c.validator, c.id)
    BY <1>3, <2>1, FeedAssumption DEF Claim, Row
  <2>3. pc' = [pc EXCEPT ![d] = "next"] /\ "next" \in Labels \ Working /\ "next" \notin {"complete", "ingest"}
    BY <1>5 DEF Goto, Labels, Working
  <2>4. Types'
    BY <1>2, <1>4, <1>5, <2>2, <2>3 DEF IInv, Types
  <2>5. ASSUME NEW e \in Daemons
        PROVE  /\ \A c \in batch'[e] : Stored(c.validator, c.id)
               /\ pc'[e] \in Working => \E c \in batch'[e] : c.id = cur'[e]
               /\ pc'[e] = "complete" => Stored(got'[e], cur'[e])
               /\ pc'[e] = "ingest" => got'[e] # 0
    <3>1. CASE e = d
      BY <1>5, <2>2, <2>3, <3>1 DEF IInv, Types
    <3>2. CASE e # d
      BY <1>5, <2>3, <3>2 DEF IInv, Types
    <3> QED
      BY <3>1, <3>2
  <2> QED
    BY <1>2, <1>3, <1>4, <1>5, <2>4, <2>5 DEF IInv, Stored
<1>6. CASE feed' \in {feed, leased} /\ Dies(d)
  BY <1>2, <1>3, <1>4, <1>6, DiesKeeps
<1> QED
  BY <1>1, <1>5, <1>6

LEMMA NextClaimKeeps == ASSUME IInv, NEW d \in Daemons, NextClaim(d) PROVE IInv'
<1>1. UNCHANGED <<feed, source, ingested, batch, got>>
  BY DEF NextClaim
<1>2. /\ feed \in [Feeds -> Row] /\ \A f \in Feeds : Stored(feed[f].validator, f)
      /\ got' = [got EXCEPT ![d] = got'[d]] /\ got'[d] \in Versions \cup {0}
      /\ batch[d] \subseteq Claim
  BY <1>1 DEF IInv, Types
<1>3. CASE batch[d] = {} /\ Goto(d, "idle") /\ UNCHANGED cur
  <2>1. cur' = [cur EXCEPT ![d] = cur'[d]] /\ cur'[d] \in Feeds \cup {None}
    BY <1>3 DEF IInv, Types
  <2>2. "idle" \in Labels /\ "idle" \notin Working
    BY DEF Labels, Working
  <2> QED
    BY <1>1, <1>2, <1>3, <2>1, <2>2, DaemonMoves DEF Goto
<1>4. ASSUME NEW c \in batch[d], cur' = [cur EXCEPT ![d] = c.id],
             Goto(d, IF c.id \in Unlicensed THEN "block" ELSE "fetch")
      PROVE  IInv'
  <2> DEFINE label == IF c.id \in Unlicensed THEN "block" ELSE "fetch"
  <2>1. c.id \in Feeds /\ cur'[d] = c.id /\ cur' = [cur EXCEPT ![d] = cur'[d]]
    BY <1>2, <1>4 DEF Claim, IInv, Types
  <2>2. label \in Labels /\ label \notin {"complete", "ingest"} /\ pc' = [pc EXCEPT ![d] = label]
    BY <1>4 DEF Labels, Goto
  <2>3. label \in Working => \E b \in batch'[d] : b.id = cur'[d]
    BY <1>1, <2>1
  <2> HIDE DEF label
  <2> QED
    BY <1>1, <1>2, <2>1, <2>2, <2>3, DaemonMoves
<1> QED
  BY <1>3, <1>4 DEF NextClaim

LEMMA BlockKeeps == ASSUME IInv, NEW d \in Daemons, Block(d) PROVE IInv'
<1> DEFINE f == cur[d]
           table == [feed EXCEPT ![f].enabled = FALSE, ![f].lease = 0]
<1>1. f \in Feeds
  BY ClaimChosen DEF Block, Working
<1>2. table \in [Feeds -> Row] /\ \A g \in Feeds : table[g].validator = feed[g].validator
  <2> DEFINE newRow == [feed[f] EXCEPT !.enabled = FALSE, !.lease = 0]
  <2>1. newRow \in Row /\ newRow.validator = feed[f].validator
    BY <1>1 DEF IInv, Types, Row
  <2>2. feed \in [Feeds -> Row]
    BY DEF IInv, Types
  <2>3. table = [feed EXCEPT ![f] = newRow]
    BY <1>1, <2>2 DEF Row
  <2> HIDE DEF newRow
  <2>4. /\ [feed EXCEPT ![f] = newRow] \in [Feeds -> Row]
        /\ \A g \in Feeds : [feed EXCEPT ![f] = newRow][g].validator = feed[g].validator
    BY <1>1, <2>1, OneRow
  <2> QED
    BY <2>3, <2>4
<1>3. \A g \in Feeds : Stored(table[g].validator, g)
  BY <1>2 DEF IInv
<1> QED
  BY <1>2, <1>3, EndsKeeps DEF Block

\* A step of a daemon's own, at its claim.
LEMMA WorkKeeps ==
  ASSUME IInv, NEW d \in Daemons, pc[d] \in Working, NEW label \in Labels,
         feed' \in [Feeds -> Row], \A f \in Feeds : Stored(feed'[f].validator, f),
         UNCHANGED <<source, ingested, batch, cur>>, Goto(d, label),
         NEW version \in Versions \cup {0}, got' = [got EXCEPT ![d] = version],
         label = "complete" => Stored(version, cur[d]),
         label = "ingest" => version # 0
  PROVE  IInv'
<1>1. /\ batch'[d] \subseteq batch[d]
      /\ cur' = [cur EXCEPT ![d] = cur'[d]] /\ cur'[d] \in Feeds \cup {None}
      /\ got'[d] = version /\ got' = [got EXCEPT ![d] = got'[d]]
      /\ \E c \in batch'[d] : c.id = cur'[d]
  BY DEF IInv, Types
<1> QED
  BY <1>1, DaemonMoves DEF Goto

LEMMA FetchKeeps == ASSUME IInv, NEW d \in Daemons, Fetch(d) PROVE IInv'
<1>1. pc[d] \in Working /\ cur[d] \in Feeds
  BY ClaimChosen DEF Fetch, Working
<1>2. /\ feed' \in [Feeds -> Row] /\ \A f \in Feeds : Stored(feed'[f].validator, f)
      /\ UNCHANGED <<source, ingested, batch, cur>>
  BY DEF Fetch, IInv, Types
<1>3. got[d] \in Versions \cup {0} /\ source[cur[d]] \in Versions /\ got = [got EXCEPT ![d] = got[d]]
  BY <1>1 DEF IInv, Types
<1>4. CASE got' = [got EXCEPT ![d] = source[cur[d]]] /\ Goto(d, "ingest")
  <2>1. "ingest" \in Labels /\ "ingest" # "complete" /\ source[cur[d]] # 0
    BY <1>1 DEF Labels, IInv, Types, Versions
  <2> QED
    BY <1>1, <1>2, <1>3, <1>4, <2>1, WorkKeeps
<1>5. CASE got' = [got EXCEPT ![d] = 0] /\ Goto(d, "complete")
  <2>1. "complete" \in Labels /\ Stored(0, cur[d])
    BY DEF Labels, Stored
  <2> QED
    BY <1>1, <1>2, <1>5, <2>1, WorkKeeps
<1>6. CASE Goto(d, "fail") /\ UNCHANGED got
  <2>1. "fail" \in Labels /\ "fail" \notin {"complete", "ingest"}
    BY DEF Labels
  <2> QED
    BY <1>1, <1>2, <1>3, <1>6, <2>1, WorkKeeps
<1> QED
  BY <1>4, <1>5, <1>6 DEF Fetch

\* What is ingested stays so; the daemon that ingests has its version stored.
LEMMA IngestKeeps == ASSUME IInv, NEW d \in Daemons, Ingest(d) PROVE IInv'
<1>1. pc[d] \in Working /\ cur[d] \in Feeds
  BY ClaimChosen DEF Ingest, Working
<1>2. CASE Goto(d, "fail") /\ UNCHANGED ingested
  <2>1. "fail" \in Labels /\ "fail" \notin {"complete", "ingest"}
    BY DEF Labels
  <2>2. /\ feed' \in [Feeds -> Row] /\ \A f \in Feeds : Stored(feed'[f].validator, f)
        /\ UNCHANGED <<source, ingested, batch, cur>>
        /\ got[d] \in Versions \cup {0} /\ got' = [got EXCEPT ![d] = got[d]]
    BY <1>2 DEF Ingest, IInv, Types
  <2> QED
    BY <1>1, <1>2, <2>1, <2>2, WorkKeeps
<1>3. CASE /\ ingested' = [ingested EXCEPT ![cur[d]] = @ \cup {got[d]}]
           /\ Goto(d, "complete")
  <2>1. UNCHANGED <<feed, source, batch, cur, got>> /\ pc' = [pc EXCEPT ![d] = "complete"]
    BY <1>3 DEF Ingest, Goto
  <2>2. got[d] # 0
    BY DEF Ingest, IInv
  <2> QED
    BY <1>1, <1>3, <2>1, <2>2 DEF IInv, Types, Stored, Working, Labels
<1> QED
  BY <1>2, <1>3 DEF Ingest

LEMMA CompleteKeeps == ASSUME IInv, NEW d \in Daemons, Complete(d) PROVE IInv'
<1> DEFINE f == cur[d]
           sent == IF got[d] = 0 THEN {ClaimOf(d).validator} ELSE {got[d], feed[f].validator}
<1>1. /\ pc[d] \in Working /\ f \in Feeds
      /\ ClaimOf(d) \in batch[d] /\ ClaimOf(d) \in Claim /\ ClaimOf(d).id = f
  BY ClaimChosen DEF Complete, Working
<1>2. ASSUME NEW v \in sent PROVE v \in Versions \cup {0} /\ Stored(v, f)
  <2>1. got[d] \in Versions \cup {0} /\ Stored(got[d], f)
    BY DEF Complete, IInv, Types
  <2>2. feed[f].validator \in Versions \cup {0} /\ Stored(feed[f].validator, f)
    BY <1>1 DEF IInv, Types, Row
  <2>3. ClaimOf(d).validator \in Versions \cup {0} /\ Stored(ClaimOf(d).validator, f)
    BY <1>1 DEF IInv, Claim
  <2> QED
    BY <2>1, <2>2, <2>3
<1>3. PICK v \in sent :
        \/ feed' = Finished(f, Interval, v) /\ Drops(d)
        \/ feed' \in {feed, Finished(f, Interval, v)} /\ Goto(d, "fail") /\ UNCHANGED <<batch, cur, got>>
  BY DEF Complete, Mutates
<1>4. /\ Finished(f, Interval, v) \in [Feeds -> Row]
      /\ \A g \in Feeds : Stored(Finished(f, Interval, v)[g].validator, g)
  BY <1>1, <1>2, FinishedRow, FeedAssumption
<1>5. /\ feed' \in [Feeds -> Row] /\ \A g \in Feeds : Stored(feed'[g].validator, g)
      /\ UNCHANGED <<source, ingested>>
  BY <1>3, <1>4 DEF Complete, IInv, Types
<1>6. CASE Drops(d)
  BY <1>5, <1>6, DropsKeeps
<1>7. CASE Goto(d, "fail") /\ UNCHANGED <<batch, cur, got>>
  <2>1. "fail" \in Labels /\ "fail" \notin {"complete", "ingest"}
    BY DEF Labels
  <2>2. got[d] \in Versions \cup {0} /\ got' = [got EXCEPT ![d] = got[d]]
    BY <1>7 DEF IInv, Types
  <2> QED
    BY <1>1, <1>5, <1>7, <2>1, <2>2, WorkKeeps
<1> QED
  BY <1>3, <1>6, <1>7

LEMMA FailKeeps == ASSUME IInv, NEW d \in Daemons, Fail(d) PROVE IInv'
<1> DEFINE f == cur[d]
<1>1. f \in Feeds
  BY ClaimChosen DEF Fail, Working
<1>2. feed[f].validator \in Versions \cup {0} /\ Stored(feed[f].validator, f)
  BY <1>1 DEF IInv, Types, Row
<1>3. /\ Finished(f, Retry, feed[f].validator) \in [Feeds -> Row]
      /\ \A g \in Feeds : Stored(Finished(f, Retry, feed[f].validator)[g].validator, g)
  BY <1>1, <1>2, FinishedRow, FeedAssumption
<1> QED
  BY <1>3, EndsKeeps DEF Fail

LEMMA IInvNext == IInv /\ [FeedNext]_feedVars => IInv'
<1> SUFFICES ASSUME IInv, [FeedNext]_feedVars PROVE IInv'
  OBVIOUS
<1>1. CASE Tick
  BY <1>1, TickKeeps
<1>2. ASSUME NEW f \in Feeds, Publish(f) \/ \E enabled \in BOOLEAN : Register(f, enabled) PROVE IInv'
  BY <1>2, PublishKeeps, RegisterKeeps
<1>3. ASSUME NEW d \in Daemons, Start(d) \/ Crash(d) PROVE IInv'
  BY <1>3, StartKeeps, CrashKeeps
<1>4. ASSUME NEW d \in Daemons, RunOnce(d) PROVE IInv'
  BY <1>4, ClaimDueKeeps, NextClaimKeeps, BlockKeeps, FetchKeeps, IngestKeeps, CompleteKeeps, FailKeeps
     DEF RunOnce
<1>5. CASE UNCHANGED feedVars
  BY <1>5 DEF feedVars, IInv, Types, Stored
<1> QED
  BY <1>1, <1>2, <1>3, <1>4, <1>5 DEF FeedNext

\* A conditional request never hides content that was not ingested: however
\* many daemons complete, fail and overlap over one feed, the validators its
\* row keeps are those of an ingested version.
THEOREM ValidatorsIngested == FeedSpec => []ValidatorIsIngested
<1>1. IInv => ValidatorIsIngested
  BY DEF IInv, Stored, ValidatorIsIngested
<1> QED
  BY <1>1, IInvInit, IInvNext, PTL DEF FeedSpec

-----------------------------------------------------------------------------
(* Until an operator registers a feed again, no two daemons work on it under *)
(* leases that have not expired, although a row does not say who holds it    *)
(* and whoever finishes clears its lease.                                    *)

\* What keeps a feed from being claimed while a claim of it lasts: the lease in
\* its row, or, when a daemon whose claim had expired has cleared that lease,
\* the time until the feed is due again.
Guarded(b) ==
  (b.left > 0 /\ feed[b.id].enabled) => (feed[b.id].lease >= b.left \/ feed[b.id].wait >= b.left)

Apart ==
  \A d, e \in Daemons : \A b \in batch[d], c \in batch[e] :
    d # e /\ b.id = c.id => b.left = 0 \/ c.left = 0

\* The inductive invariant: the exclusion alone is not, since a daemon that
\* finishes late removes the lease which would have kept a third one away.
LInv ==
  /\ registrations \in Nat
  /\ registrations = 0 =>
       /\ \A d \in Daemons : \A b \in batch[d] : b.left <= Lease /\ Guarded(b)
       /\ Apart

\* A row that is written without being claimed: it stays as long away from the
\* next claim as it was, or for a lease at least.
Shielded(old, new) ==
  new.enabled =>
    old.enabled /\ (new.wait >= Lease \/ (new.wait >= old.wait /\ new.lease >= old.lease))

LEMMA ShieldedKeeps ==
  ASSUME IInv, IInv', LInv, UNCHANGED registrations,
         \A f \in Feeds : Shielded(feed[f], feed'[f]),
         \A d \in Daemons : batch'[d] \subseteq batch[d]
  PROVE  LInv'
<1> SUFFICES ASSUME registrations = 0
             PROVE  /\ \A d \in Daemons : \A b \in batch'[d] : b.left <= Lease /\ Guarded(b)'
                    /\ Apart'
  BY DEF LInv
<1>1. ASSUME NEW d \in Daemons, NEW b \in batch'[d] PROVE b.left <= Lease /\ Guarded(b)'
  <2>1. b \in batch[d] /\ b.left <= Lease /\ Guarded(b)
    BY DEF LInv
  <2>2. b.id \in Feeds /\ b.left \in Nat
    BY <2>1 DEF IInv, Types, Claim
  <2>3. /\ feed[b.id].wait \in Nat /\ feed[b.id].lease \in Nat
        /\ feed'[b.id].wait \in Nat /\ feed'[b.id].lease \in Nat
    BY <2>2 DEF IInv, Types, Row
  <2>4. Shielded(feed[b.id], feed'[b.id])
    BY <2>2
  <2> QED
    BY <2>1, <2>2, <2>3, <2>4, FeedAssumption DEF Guarded, Shielded
<1>2. Apart'
  BY DEF LInv, Apart
<1> QED
  BY <1>1, <1>2

\* A daemon that dies, or that is through with a claim, holds none it did not.
LEMMA ClaimsGo ==
  ASSUME IInv, NEW d \in Daemons, Dies(d) \/ Drops(d) \/ UNCHANGED batch
  PROVE  \A e \in Daemons : batch'[e] \subseteq batch[e]
BY DEF Dies, Drops, IInv, Types

-----------------------------------------------------------------------------
LEMMA LInvInit == FeedInit => LInv
BY DEF FeedInit, LInv, Apart

\* A claim, the lease of its row and the wait for its row run down together.
LEMMA TickKeepsLeases == ASSUME IInv, LInv, Tick PROVE LInv'
<1> SUFFICES ASSUME registrations = 0
             PROVE  /\ \A d \in Daemons : \A b \in batch'[d] : b.left <= Lease /\ Guarded(b)'
                    /\ Apart'
  BY DEF LInv, Tick, boundVars
<1>1. ASSUME NEW d \in Daemons, NEW b \in batch'[d]
      PROVE  \E c \in batch[d] : /\ c \in Claim /\ b.id = c.id /\ b.left = Down(c.left)
                                 /\ c.left <= Lease /\ Guarded(c)
  <2>1. PICK c \in batch[d] : b = [c EXCEPT !.left = Down(@)]
    BY DEF Tick, IInv, Types
  <2>2. c \in Claim
    BY DEF IInv, Types
  <2>3. c.left <= Lease /\ Guarded(c)
    BY DEF LInv
  <2> QED
    BY <2>1, <2>2, <2>3 DEF Claim
<1>2. ASSUME NEW f \in Feeds
      PROVE  /\ feed[f].wait \in Nat /\ feed'[f].wait = Down(feed[f].wait)
             /\ feed[f].lease \in Nat /\ feed'[f].lease = Down(feed[f].lease)
             /\ feed'[f].enabled = feed[f].enabled
  BY DEF Tick, IInv, Types, Row
<1>3. ASSUME NEW d \in Daemons, NEW b \in batch'[d] PROVE b.left <= Lease /\ Guarded(b)'
  <2>1. PICK c \in batch[d] : /\ c \in Claim /\ b.id = c.id /\ b.left = Down(c.left)
                              /\ c.left <= Lease /\ Guarded(c)
    BY <1>1
  <2>2. c.id \in Feeds /\ c.left \in Nat
    BY <2>1 DEF Claim
  <2>3. /\ feed[c.id].wait \in Nat /\ feed'[c.id].wait = Down(feed[c.id].wait)
        /\ feed[c.id].lease \in Nat /\ feed'[c.id].lease = Down(feed[c.id].lease)
        /\ feed'[c.id].enabled = feed[c.id].enabled
    BY <1>2, <2>2
  <2> QED
    BY <2>1, <2>2, <2>3, FeedAssumption DEF Guarded, Down
<1>4. ASSUME NEW d \in Daemons, NEW e \in Daemons, NEW b \in batch'[d], NEW c \in batch'[e],
             d # e, b.id = c.id
      PROVE  b.left = 0 \/ c.left = 0
  <2>1. PICK p \in batch[d] : b.id = p.id /\ b.left = Down(p.left)
    BY <1>1
  <2>2. PICK q \in batch[e] : c.id = q.id /\ c.left = Down(q.left)
    BY <1>1
  <2>3. p.left = 0 \/ q.left = 0
    BY <1>4, <2>1, <2>2 DEF LInv, Apart
  <2> QED
    BY <2>1, <2>2, <2>3 DEF Down
<1> QED
  BY <1>3, <1>4 DEF Apart

LEMMA RegisterKeepsLeases ==
  ASSUME LInv, NEW f \in Feeds, NEW enabled \in BOOLEAN, Register(f, enabled) PROVE LInv'
BY DEF LInv, Register

\* Whoever claims a feed finds it due and without a lease: the claims others
\* hold of it have expired.
LEMMA ChosenAreFree ==
  ASSUME IInv, LInv, registrations = 0, NEW chosen \in Chosen, NEW f \in chosen,
         NEW e \in Daemons, NEW c \in batch[e], c.id = f
  PROVE  c.left = 0
<1>1. feed[f].enabled /\ feed[f].wait = 0 /\ feed[f].lease = 0
  BY DEF Chosen, Claimable
<1>2. c.left \in Nat /\ Guarded(c)
  BY DEF LInv, IInv, Types, Claim
<1> QED
  BY <1>1, <1>2 DEF Guarded

LEMMA ClaimDueKeepsLeases == ASSUME IInv, IInv', LInv, NEW d \in Daemons, ClaimDue(d) PROVE LInv'
<1>1. PICK chosen \in Chosen :
        LET leased == [f \in Feeds |-> IF f \in chosen THEN [feed[f] EXCEPT !.lease = Lease]
                                                      ELSE feed[f]]
        IN \/ /\ feed' = leased
              /\ batch' = [batch EXCEPT ![d] = {[id |-> f, validator |-> feed[f].validator,
                                                 left |-> Lease] : f \in chosen}]
           \/ feed' \in {feed, leased} /\ Dies(d)
  BY DEF ClaimDue
<1> DEFINE leased == [f \in Feeds |-> IF f \in chosen THEN [feed[f] EXCEPT !.lease = Lease] ELSE feed[f]]
           claims == {[id |-> f, validator |-> feed[f].validator, left |-> Lease] : f \in chosen}
<1>2. UNCHANGED registrations
  BY DEF ClaimDue
<1>3. chosen \subseteq Feeds
  BY ChosenFeeds
<1>4. \A f \in Feeds : Shielded(feed[f], feed[f]) /\ Shielded(feed[f], leased[f])
  <2>1. ASSUME NEW f \in Feeds PROVE Shielded(feed[f], feed[f]) /\ Shielded(feed[f], leased[f])
    <3>1. feed[f] \in Row
      BY DEF IInv, Types
    <3>2. CASE f \in chosen
      <4>1. feed[f].lease = 0
        BY <3>2 DEF Chosen, Claimable
      <4> QED
        BY <3>1, <3>2, <4>1, FeedAssumption DEF Shielded, Row
    <3>3. CASE f \notin chosen
      BY <3>1, <3>3 DEF Shielded, Row
    <3> QED
      BY <3>2, <3>3
  <2> QED
    BY <2>1
<1>5. CASE feed' \in {feed, leased} /\ Dies(d)
  <2>1. \A f \in Feeds : Shielded(feed[f], feed'[f])
    BY <1>4, <1>5
  <2>2. \A e \in Daemons : batch'[e] \subseteq batch[e]
    BY <1>5, ClaimsGo
  <2> QED
    BY <1>2, <2>1, <2>2, ShieldedKeeps
<1>6. CASE feed' = leased /\ batch' = [batch EXCEPT ![d] = claims]
  <2> SUFFICES ASSUME registrations = 0
               PROVE  /\ \A e \in Daemons : \A b \in batch'[e] : b.left <= Lease /\ Guarded(b)'
                      /\ Apart'
    BY <1>2 DEF LInv
  <2>1. batch'[d] = claims /\ \A e \in Daemons \ {d} : batch'[e] = batch[e]
    BY <1>6 DEF IInv, Types
  <2>2. ASSUME NEW b \in claims
        PROVE  /\ b.id \in chosen /\ b.left = Lease
               /\ feed'[b.id].lease = Lease
    BY <1>3, <1>6 DEF IInv, Types, Row
  <2>3. ASSUME NEW e \in Daemons \ {d}, NEW b \in batch[e]
        PROVE  b.left <= Lease /\ Guarded(b)'
    <3>1. b.id \in Feeds /\ b.left \in Nat /\ b.left <= Lease /\ Guarded(b)
      BY DEF LInv, IInv, Types, Claim
    <3>2. /\ feed[b.id].wait \in Nat /\ feed[b.id].lease \in Nat
          /\ feed'[b.id].wait \in Nat /\ feed'[b.id].lease \in Nat
      BY <3>1 DEF IInv, Types, Row
    <3>3. Shielded(feed[b.id], feed'[b.id])
      BY <1>4, <1>6, <3>1
    <3> QED
      BY <3>1, <3>2, <3>3, FeedAssumption DEF Guarded, Shielded
  <2>4. ASSUME NEW b \in claims PROVE b.left <= Lease /\ Guarded(b)'
    BY <2>2, FeedAssumption DEF Guarded
  <2>5. ASSUME NEW b \in claims, NEW e \in Daemons, NEW c \in batch[e], b.id = c.id PROVE c.left = 0
    BY <2>2, <2>5, ChosenAreFree
  <2>6. Apart'
    BY <2>1, <2>5 DEF LInv, Apart
  <2> QED
    BY <2>1, <2>3, <2>4, <2>6
<1> QED
  BY <1>1, <1>5, <1>6

\* A row that is finished is not due for a lease at least.
LEMMA FinishedShields ==
  ASSUME IInv, NEW f \in Feeds, NEW wait \in {Interval, Retry}, NEW v
  PROVE  \A g \in Feeds : Shielded(feed[g], Finished(f, wait, v)[g]) /\ Shielded(feed[g], feed[g])
<1>1. wait \in Nat /\ wait >= Lease
  BY FeedAssumption
<1>2. ASSUME NEW g \in Feeds
      PROVE  Shielded(feed[g], Finished(f, wait, v)[g]) /\ Shielded(feed[g], feed[g])
  <2>1. feed[g] \in Row
    BY DEF IInv, Types
  <2>2. CASE g = f
    BY <1>1, <2>1, <2>2 DEF Finished, Shielded, Row, IInv, Types
  <2>3. CASE g # f
    BY <2>1, <2>3 DEF Finished, Shielded, Row, IInv, Types
  <2> QED
    BY <2>2, <2>3
<1> QED
  BY <1>2

LEMMA BlockKeepsLeases == ASSUME IInv, IInv', LInv, NEW d \in Daemons, Block(d) PROVE LInv'
<1> DEFINE f == cur[d]
           table == [feed EXCEPT ![f].enabled = FALSE, ![f].lease = 0]
<1>1. f \in Feeds
  BY ClaimChosen DEF Block, Working
<1>2. /\ feed' \in {feed, table} /\ UNCHANGED registrations
      /\ Dies(d) \/ Drops(d)
  BY DEF Block, Ends, Mutates
<1>3. ASSUME NEW g \in Feeds PROVE Shielded(feed[g], table[g]) /\ Shielded(feed[g], feed[g])
  <2>1. feed \in [Feeds -> Row] /\ feed[g] \in Row
    BY DEF IInv, Types
  <2>2. CASE g = f
    BY <1>1, <2>1, <2>2 DEF Shielded, Row
  <2>3. CASE g # f
    BY <1>1, <2>1, <2>3 DEF Shielded, Row
  <2> QED
    BY <2>2, <2>3
<1>4. \A g \in Feeds : Shielded(feed[g], feed'[g])
  BY <1>2, <1>3
<1>5. \A e \in Daemons : batch'[e] \subseteq batch[e]
  BY <1>2, ClaimsGo
<1> QED
  BY <1>2, <1>4, <1>5, ShieldedKeeps

LEMMA CompleteKeepsLeases == ASSUME IInv, IInv', LInv, NEW d \in Daemons, Complete(d) PROVE LInv'
<1>1. cur[d] \in Feeds
  BY ClaimChosen DEF Complete, Working
<1>2. PICK v : feed' \in {feed, Finished(cur[d], Interval, v)}
  BY DEF Complete, Mutates
<1>3. UNCHANGED registrations /\ (Drops(d) \/ UNCHANGED batch)
  BY DEF Complete
<1>4. \A g \in Feeds : Shielded(feed[g], feed'[g])
  BY <1>1, <1>2, FinishedShields
<1>5. \A e \in Daemons : batch'[e] \subseteq batch[e]
  BY <1>3, ClaimsGo
<1> QED
  BY <1>3, <1>4, <1>5, ShieldedKeeps

LEMMA FailKeepsLeases == ASSUME IInv, IInv', LInv, NEW d \in Daemons, Fail(d) PROVE LInv'
<1>1. cur[d] \in Feeds
  BY ClaimChosen DEF Fail, Working
<1>2. PICK v : feed' \in {feed, Finished(cur[d], Retry, v)}
  BY DEF Fail, Ends, Mutates
<1>3. UNCHANGED registrations /\ (Drops(d) \/ Dies(d))
  BY DEF Fail, Ends
<1>4. \A g \in Feeds : Shielded(feed[g], feed'[g])
  BY <1>1, <1>2, FinishedShields
<1>5. \A e \in Daemons : batch'[e] \subseteq batch[e]
  BY <1>3, ClaimsGo
<1> QED
  BY <1>3, <1>4, <1>5, ShieldedKeeps

\* Steps that write no row of the table and make no claim.
LEMMA RestKeepsLeases ==
  ASSUME IInv, IInv', LInv, NEW d \in Daemons,
         Start(d) \/ Crash(d) \/ NextClaim(d) \/ Fetch(d) \/ Ingest(d)
  PROVE  LInv'
<1>1. UNCHANGED <<feed, registrations>> /\ (Dies(d) \/ UNCHANGED batch)
  BY DEF Start, Crash, NextClaim, Fetch, Ingest, boundVars
<1>2. ASSUME NEW f \in Feeds PROVE Shielded(feed[f], feed'[f])
  BY <1>1 DEF Shielded, IInv, Types, Row
<1>3. \A e \in Daemons : batch'[e] \subseteq batch[e]
  BY <1>1, ClaimsGo
<1> QED
  BY <1>1, <1>2, <1>3, ShieldedKeeps

LEMMA LInvNext == IInv /\ LInv /\ [FeedNext]_feedVars => LInv'
<1> SUFFICES ASSUME IInv, LInv, [FeedNext]_feedVars PROVE LInv'
  OBVIOUS
<1>1. IInv'
  BY IInvNext
<1>2. CASE Tick
  BY <1>2, TickKeepsLeases
<1>3. ASSUME NEW f \in Feeds, Publish(f) PROVE LInv'
  BY <1>3 DEF Publish, boundVars, LInv, Apart, Guarded
<1>4. ASSUME NEW f \in Feeds, \E enabled \in BOOLEAN : Register(f, enabled) PROVE LInv'
  BY <1>4, RegisterKeepsLeases
<1>5. ASSUME NEW d \in Daemons, Start(d) \/ RunOnce(d) \/ Crash(d) PROVE LInv'
  BY <1>1, <1>5, ClaimDueKeepsLeases, BlockKeepsLeases, CompleteKeepsLeases, FailKeepsLeases,
     RestKeepsLeases DEF RunOnce
<1>6. CASE UNCHANGED feedVars
  BY <1>6 DEF feedVars, LInv, Apart, Guarded
<1> QED
  BY <1>2, <1>3, <1>4, <1>5, <1>6 DEF FeedNext

\* For any number of daemons and feeds, and any crashes and failures, two
\* daemons never work on one feed with leases that have not expired, as long as
\* no operator has registered a feed again: what a late finisher takes away from
\* the lease it gives to the wait.
THEOREM LeasesExclude == FeedSpec => []UnexpiredIsExclusive
<1>1. LInv => UnexpiredIsExclusive
  BY DEF LInv, Apart, UnexpiredIsExclusive
<1> QED
  BY <1>1, IInvInit, IInvNext, LInvInit, LInvNext, PTL DEF FeedSpec

-----------------------------------------------------------------------------
(* The queue of the feeds that are due, and what a daemon has in hand.       *)

\* A feed is in the queue once at most, and only when it is due.
Queue(table, q) ==
  /\ q \in Seq(Feeds)
  /\ \A i, k \in DOMAIN q : q[i] = q[k] => i = k
  /\ \A i \in DOMAIN q : table[q[i]].wait = 0

Resting == {"down", "idle", "next"}

DueInv ==
  /\ Queue(feed, due)
  /\ \A d \in Daemons : pc[d] \in Resting => cur[d] = None
  /\ crashes \in 0..MaxCrashes /\ faults \in 0..MaxFaults /\ registrations \in 0..MaxRegistrations

\* Removing one element of a queue without repetitions.
LEMMA RemovedOne ==
  ASSUME NEW q \in Seq(Feeds), \A i, k \in DOMAIN q : q[i] = q[k] => i = k, NEW j \in DOMAIN q
  PROVE  /\ RemoveAt(q, j) \in Seq(Feeds)
         /\ \A i \in DOMAIN RemoveAt(q, j) : \E k \in DOMAIN q : k # j /\ RemoveAt(q, j)[i] = q[k]
         /\ \A i, k \in DOMAIN RemoveAt(q, j) : RemoveAt(q, j)[i] = RemoveAt(q, j)[k] => i = k
<1> DEFINE a == SubSeq(q, 1, j - 1)
           b == SubSeq(q, j + 1, Len(q))
           r == a \o b
           At(i) == IF i < j THEN i ELSE i + 1
<1>1. j \in 1..Len(q) /\ Len(q) \in Nat
  OBVIOUS
<1>2. a \in Seq(Feeds) /\ Len(a) = j - 1 /\ \A i \in 1..(j - 1) : a[i] = q[i]
  BY <1>1
<1>3. b \in Seq(Feeds) /\ Len(b) = Len(q) - j /\ \A i \in 1..(Len(q) - j) : b[i] = q[j + i]
  BY <1>1
<1> HIDE DEF a, b
<1>4. r \in Seq(Feeds) /\ Len(r) = Len(q) - 1
  BY <1>1, <1>2, <1>3
<1>10. \A i \in 1..(Len(q) - 1) : r[i] = IF i <= Len(a) THEN a[i] ELSE b[i - Len(a)]
  <2>1. Len(a) \in Nat /\ Len(b) \in Nat /\ Len(a) + Len(b) = Len(q) - 1
    BY <1>1, <1>2, <1>3
  <2>2. \A i \in 1..(Len(a) + Len(b)) : r[i] = IF i <= Len(a) THEN a[i] ELSE b[i - Len(a)]
    BY <1>2, <1>3, <2>1
  <2> QED
    BY <2>1, <2>2
<1> HIDE DEF r
<1>5. ASSUME NEW i \in 1..(Len(q) - 1)
      PROVE  At(i) \in DOMAIN q /\ At(i) # j /\ r[i] = q[At(i)]
  <2>1. CASE i < j
    BY <1>1, <1>2, <1>3, <1>10, <2>1
  <2>2. CASE i >= j
    <3>1. i - (j - 1) \in 1..(Len(q) - j) /\ j + (i - (j - 1)) = i + 1 /\ i > Len(a)
      BY <1>1, <1>2, <2>2
    <3>2. r[i] = b[i - (j - 1)]
      <4>1. Len(a) \in Nat /\ i \in Nat /\ ~(i <= Len(a)) /\ Len(a) = j - 1
        BY <1>1, <1>2, <3>1
      <4> QED
        BY <1>10, <4>1
    <3> QED
      BY <1>1, <1>3, <2>2, <3>1, <3>2
  <2>3. i < j \/ i >= j
    BY <1>1
  <2> HIDE DEF At
  <2> QED
    BY <2>1, <2>2, <2>3
<1>6. DOMAIN r = 1..(Len(q) - 1)
  BY <1>1, <1>4
<1>7. \A i, k \in 1..(Len(q) - 1) : At(i) = At(k) => i = k
  BY <1>1
<1>8. \A i, k \in DOMAIN r : r[i] = r[k] => i = k
  BY <1>5, <1>6, <1>7
<1>9. r = RemoveAt(q, j)
  BY DEF RemoveAt, r, a, b
<1> QED
  BY <1>4, <1>5, <1>6, <1>8, <1>9

LEMMA AppendedOnes ==
  ASSUME NEW q \in Seq(Feeds), \A i, k \in DOMAIN q : q[i] = q[k] => i = k,
         NEW s \in Seq(Feeds), \A i, k \in DOMAIN s : s[i] = s[k] => i = k,
         \A i \in DOMAIN q : \A k \in DOMAIN s : q[i] # s[k]
  PROVE  /\ q \o s \in Seq(Feeds)
         /\ \A i \in DOMAIN (q \o s) :
              (\E k \in DOMAIN q : (q \o s)[i] = q[k]) \/ (\E k \in DOMAIN s : (q \o s)[i] = s[k])
         /\ \A i, k \in DOMAIN (q \o s) : (q \o s)[i] = (q \o s)[k] => i = k
<1> DEFINE r == q \o s
<1>1. r \in Seq(Feeds) /\ Len(r) = Len(q) + Len(s) /\ Len(q) \in Nat /\ Len(s) \in Nat
  OBVIOUS
<1>2. \A i \in 1..Len(q) : i \in DOMAIN q /\ r[i] = q[i]
  OBVIOUS
<1>3. \A i \in (Len(q) + 1)..Len(r) : i - Len(q) \in DOMAIN s /\ r[i] = s[i - Len(q)]
  BY <1>1
<1>4. DOMAIN r = 1..Len(r)
  BY <1>1
<1> HIDE DEF r
<1>5. \A i \in DOMAIN r : i \in 1..Len(q) \/ i \in (Len(q) + 1)..Len(r)
  BY <1>1, <1>4
<1>6. ASSUME NEW i \in DOMAIN r, NEW k \in DOMAIN r, r[i] = r[k] PROVE i = k
  <2>1. CASE i \in 1..Len(q) /\ k \in 1..Len(q)
    BY <1>2, <1>6, <2>1
  <2>2. CASE i \in (Len(q) + 1)..Len(r) /\ k \in (Len(q) + 1)..Len(r)
    <3>1. i - Len(q) = k - Len(q)
      BY <1>3, <1>6, <2>2
    <3> QED
      BY <1>1, <2>2, <3>1
  <2>3. CASE (i \in 1..Len(q)) # (k \in 1..Len(q))
    BY <1>2, <1>3, <1>5, <1>6, <2>3
  <2> QED
    BY <1>5, <2>1, <2>2, <2>3
<1>7. \A i \in DOMAIN r : (\E k \in DOMAIN q : r[i] = q[k]) \/ (\E k \in DOMAIN s : r[i] = s[k])
  BY <1>2, <1>3, <1>5
<1> QED
  BY <1>1, <1>6, <1>7 DEF r

LEMMA WithoutKeeps ==
  ASSUME NEW f \in Feeds, Queue(feed, due), NEW table,
         \A g \in Feeds \ {f} : table[g].wait = feed[g].wait
  PROVE  Queue(table, Without(f))
<1> DEFINE at == {i \in DOMAIN due : due[i] = f}
           j == CHOOSE i \in at : TRUE
<1>1. \A i \in DOMAIN due : due[i] \in Feeds /\ feed[due[i]].wait = 0
  BY DEF Queue
<1>2. CASE at = {}
  BY <1>1, <1>2 DEF Queue, Without
<1>3. CASE at # {}
  <2>1. j \in DOMAIN due /\ due[j] = f
    BY <1>3
  <2>2. Without(f) = RemoveAt(due, j)
    BY <1>3 DEF Without
  <2> HIDE DEF j
  <2>3. /\ RemoveAt(due, j) \in Seq(Feeds)
        /\ \A i \in DOMAIN RemoveAt(due, j) : \E k \in DOMAIN due : k # j /\ RemoveAt(due, j)[i] = due[k]
        /\ \A i, k \in DOMAIN RemoveAt(due, j) : RemoveAt(due, j)[i] = RemoveAt(due, j)[k] => i = k
    BY <2>1, RemovedOne DEF Queue
  <2>4. \A k \in DOMAIN due : k # j => due[k] \in Feeds \ {f}
    BY <1>1, <2>1 DEF Queue
  <2>5. \A i \in DOMAIN RemoveAt(due, j) : table[RemoveAt(due, j)[i]].wait = 0
    BY <1>1, <2>3, <2>4
  <2> QED
    BY <2>2, <2>3, <2>5 DEF Queue
<1> QED
  BY <1>2, <1>3

LEMMA FinishedWaits ==
  ASSUME IInv, NEW f \in Feeds, NEW wait, NEW v
  PROVE  \A g \in Feeds \ {f} : Finished(f, wait, v)[g].wait = feed[g].wait
BY DEF Finished, IInv, Types

\* An enumeration of finitely many feeds is a sequence without repetitions.
LEMMA Enumerated ==
  ASSUME NEW S \in SUBSET Feeds, NEW s \in SetToSeqs(S)
  PROVE  /\ s \in Seq(Feeds) /\ \A i \in DOMAIN s : s[i] \in S
         /\ \A i, k \in DOMAIN s : s[i] = s[k] => i = k
<1>1. Cardinality(S) \in Nat
  BY FeedAssumption, FS_Subset, FS_CardinalityType
<1>2. s \in [1..Cardinality(S) -> S] /\ \A i, k \in 1..Cardinality(S) : i # k => s[i] # s[k]
  BY DEF SetToSeqs
<1> QED
  BY <1>1, <1>2

LEMMA QueueTick == ASSUME IInv, Queue(feed, due), Tick PROVE Queue(feed', due')
<1> DEFINE over == {f \in Feeds : feed[f].wait = 1}
<1>1. PICK s \in SetToSeqs(over) : due' = due \o s
  BY Zenon DEF Tick
<1>2. /\ s \in Seq(Feeds) /\ \A i \in DOMAIN s : s[i] \in Feeds /\ feed[s[i]].wait = 1
      /\ \A i, k \in DOMAIN s : s[i] = s[k] => i = k
  BY Enumerated
<1>3. \A f \in Feeds : feed[f].wait \in {0, 1} => feed'[f].wait = 0
  <2> DEFINE Aged(f) == [feed[f] EXCEPT !.wait = Down(@), !.lease = Down(@)]
  <2>1. feed' = [f \in Feeds |-> Aged(f)]
    BY Zenon DEF Tick
  <2>2. Down(0) = 0 /\ Down(1) = 0
    BY DEF Down
  <2>3. ASSUME NEW f \in Feeds PROVE feed'[f].wait = Down(feed[f].wait)
    <3>1. feed[f] \in Row
      BY DEF IInv, Types
    <3>2. Aged(f).wait = Down(feed[f].wait)
      BY <3>1 DEF Row
    <3> HIDE DEF Aged
    <3> QED
      BY <2>1, <3>2
  <2> QED
    BY <2>2, <2>3
<1>4. /\ due \in Seq(Feeds) /\ \A i \in DOMAIN due : due[i] \in Feeds /\ feed[due[i]].wait = 0
      /\ \A i, k \in DOMAIN due : due[i] = due[k] => i = k
  BY DEF Queue
<1>5. \A i \in DOMAIN due : \A k \in DOMAIN s : due[i] # s[k]
  BY <1>2, <1>4
<1>6. /\ due' \in Seq(Feeds)
      /\ \A i \in DOMAIN due' : (\E k \in DOMAIN due : due'[i] = due[k]) \/ (\E k \in DOMAIN s : due'[i] = s[k])
      /\ \A i, k \in DOMAIN due' : due'[i] = due'[k] => i = k
  <2> HIDE DEF over
  <2>1. /\ due \o s \in Seq(Feeds)
        /\ \A i \in DOMAIN (due \o s) :
             (\E k \in DOMAIN due : (due \o s)[i] = due[k]) \/ (\E k \in DOMAIN s : (due \o s)[i] = s[k])
        /\ \A i, k \in DOMAIN (due \o s) : (due \o s)[i] = (due \o s)[k] => i = k
    <3>1. s \in Seq(Feeds) /\ due \in Seq(Feeds)
      BY <1>2, <1>4
    <3>2. \A i, k \in DOMAIN s : s[i] = s[k] => i = k
      BY <1>2
    <3>3. \A i, k \in DOMAIN due : due[i] = due[k] => i = k
      BY <1>4
    <3> QED
      BY <3>1, <3>2, <3>3, <1>5, AppendedOnes
  <2> QED
    BY <1>1, <2>1
<1>7. \A i \in DOMAIN due' : feed'[due'[i]].wait = 0
  BY <1>2, <1>3, <1>4, <1>6
<1> QED
  BY <1>6, <1>7 DEF Queue

LEMMA QueueRegister ==
  ASSUME IInv, Queue(feed, due), NEW f \in Feeds, NEW enabled \in BOOLEAN, Register(f, enabled)
  PROVE  Queue(feed', due')
<1>1. /\ due \in Seq(Feeds) /\ \A i \in DOMAIN due : due[i] \in Feeds /\ feed[due[i]].wait = 0
      /\ \A i, k \in DOMAIN due : due[i] = due[k] => i = k
  BY DEF Queue
<1>2. \A g \in Feeds : feed'[g].wait = IF g = f /\ enabled THEN 0 ELSE feed[g].wait
  BY DEF Register, IInv, Types, Row
<1>3. CASE due' = due
  BY <1>1, <1>2, <1>3 DEF Queue
<1>4. CASE enabled /\ feed[f].wait > 0 /\ due' = Append(due, f)
  <2> DEFINE s == <<f>>
  <2>1. due' = due \o s
    BY <1>1, <1>4
  <2>2. /\ s \in Seq(Feeds) /\ \A i \in DOMAIN s : s[i] = f
        /\ \A i, k \in DOMAIN s : s[i] = s[k] => i = k
    OBVIOUS
  <2> HIDE DEF s
  <2>3. \A i \in DOMAIN due : \A k \in DOMAIN s : due[i] # s[k]
    BY <1>1, <1>4, <2>2
  <2>4. /\ due' \in Seq(Feeds)
        /\ \A i \in DOMAIN due' : (\E k \in DOMAIN due : due'[i] = due[k]) \/ (\E k \in DOMAIN s : due'[i] = s[k])
        /\ \A i, k \in DOMAIN due' : due'[i] = due'[k] => i = k
    BY <1>1, <2>1, <2>2, <2>3, AppendedOnes
  <2>5. \A i \in DOMAIN due' : feed'[due'[i]].wait = 0
    BY <1>1, <1>2, <1>4, <2>2, <2>4
  <2> QED
    BY <2>4, <2>5 DEF Queue
<1> QED
  BY <1>3, <1>4 DEF Register

\* Every other step leaves the waits and the queue alone, or takes a feed off it.
LEMMA QueueRest ==
  ASSUME IInv, Queue(feed, due), [FeedNext]_feedVars, ~Tick,
         ~\E f \in Feeds, enabled \in BOOLEAN : Register(f, enabled)
  PROVE  Queue(feed', due')
<1>1. ASSUME NEW d \in Daemons, Complete(d) \/ Fail(d) PROVE Queue(feed', due')
  <2>1. cur[d] \in Feeds
    BY <1>1, ClaimChosen DEF Complete, Fail, Working
  <2>2. (UNCHANGED <<feed, due>>) \/ \E wait, v : Mutates(Finished(cur[d], wait, v), Without(cur[d]))
    <3>1. CASE Complete(d)
      BY <3>1 DEF Complete
    <3>2. CASE Fail(d)
      BY <3>2 DEF Fail, Ends
    <3> QED
      BY <1>1, <3>1, <3>2
  <2>3. ASSUME NEW wait, NEW v, Mutates(Finished(cur[d], wait, v), Without(cur[d]))
        PROVE  Queue(feed', due')
    BY <2>1, <2>3, FinishedWaits, WithoutKeeps DEF Mutates
  <2> QED
    BY <2>2, <2>3
<1>2. ASSUME due' = due, \A f \in Feeds : feed'[f].wait = feed[f].wait PROVE Queue(feed', due')
  <2>1. \A i \in DOMAIN due : due[i] \in Feeds
    BY DEF Queue
  <2> QED
    BY <1>2, <2>1 DEF Queue
<1>3. ASSUME NEW d \in Daemons, ClaimDue(d) PROVE Queue(feed', due')
  <2>1. PICK chosen : feed' \in {feed, [f \in Feeds |-> IF f \in chosen THEN [feed[f] EXCEPT !.lease = Lease] ELSE feed[f]]}
    BY <1>3 DEF ClaimDue
  <2>2. due' = due
    BY <1>3 DEF ClaimDue
  <2>3. \A f \in Feeds : feed'[f].wait = feed[f].wait
    BY <2>1 DEF IInv, Types, Row
  <2> QED
    BY <1>2, <2>2, <2>3
<1>4. ASSUME NEW d \in Daemons, Block(d) PROVE Queue(feed', due')
  <2>1. due' = due /\ feed' \in {feed, [feed EXCEPT ![cur[d]].enabled = FALSE, ![cur[d]].lease = 0]}
    BY <1>4 DEF Block, Ends, Mutates
  <2>2. \A f \in Feeds : feed'[f].wait = feed[f].wait
    BY <2>1 DEF IInv, Types, Row
  <2> QED
    BY <1>2, <2>1, <2>2
<1>5. CASE UNCHANGED <<feed, due>>
  BY <1>2, <1>5
<1>6. (UNCHANGED <<feed, due>>)
      \/ \E d \in Daemons : Complete(d) \/ Fail(d) \/ ClaimDue(d) \/ Block(d)
  BY DEF FeedNext, feedVars, Publish, Start, Crash, RunOnce, NextClaim, Fetch, Ingest
<1> QED
  BY <1>1, <1>3, <1>4, <1>5, <1>6

\* A daemon has a feed in hand exactly while it works on it.
LEMMA RestingKeeps ==
  ASSUME IInv, [FeedNext]_feedVars, \A d \in Daemons : pc[d] \in Resting => cur[d] = None
  PROVE  \A d \in Daemons : pc'[d] \in Resting => cur'[d] = None
<1>1. ASSUME NEW d \in Daemons, pc' = [pc EXCEPT ![d] = pc'[d]], cur' = [cur EXCEPT ![d] = cur'[d]],
             pc'[d] \in Resting => cur'[d] = None
      PROVE  \A e \in Daemons : pc'[e] \in Resting => cur'[e] = None
  BY <1>1 DEF IInv, Types
<1>2. ASSUME NEW d \in Daemons, Dies(d) \/ Drops(d) PROVE \A e \in Daemons : pc'[e] \in Resting => cur'[e] = None
  BY <1>2 DEF Dies, Drops, Goto, IInv, Types
<1>3. ASSUME NEW d \in Daemons, UNCHANGED cur, \E label \in Labels : Goto(d, label) /\ (label \in Resting => pc[d] \in Resting)
      PROVE  \A e \in Daemons : pc'[e] \in Resting => cur'[e] = None
  BY <1>3 DEF Goto, IInv, Types
<1>4. CASE UNCHANGED <<pc, cur>>
  BY <1>4
<1>5. ASSUME NEW d \in Daemons, NextClaim(d) PROVE \A e \in Daemons : pc'[e] \in Resting => cur'[e] = None
  <2>1. CASE UNCHANGED cur /\ Goto(d, "idle")
    <3>1. pc[d] \in Resting /\ "idle" \in Labels
      BY <1>5 DEF NextClaim, Resting, Labels
    <3> QED
      BY <1>3, <2>1, <3>1
  <2>2. CASE \E c \in batch[d] : cur' = [cur EXCEPT ![d] = c.id] /\ Goto(d, IF c.id \in Unlicensed THEN "block" ELSE "fetch")
    BY <2>2 DEF Goto, IInv, Types, Resting
  <2> QED
    BY <1>5, <2>1, <2>2 DEF NextClaim
<1>6. ASSUME NEW d \in Daemons, ClaimDue(d) \/ Start(d) PROVE \A e \in Daemons : pc'[e] \in Resting => cur'[e] = None
  <2>1. pc[d] \in Resting /\ {"idle", "next"} \subseteq Labels
    BY <1>6 DEF ClaimDue, Start, Resting, Labels
  <2> QED
    BY <1>2, <1>3, <1>6, <2>1 DEF ClaimDue, Start
<1>7. ASSUME NEW d \in Daemons, Fetch(d) \/ Ingest(d) PROVE \A e \in Daemons : pc'[e] \in Resting => cur'[e] = None
  <2>1. UNCHANGED cur /\ \E label \in {"ingest", "complete", "fail"} : Goto(d, label)
    BY <1>7 DEF Fetch, Ingest
  <2> QED
    BY <1>3, <2>1 DEF Labels, Resting
<1>8. ASSUME NEW d \in Daemons, Complete(d) \/ Fail(d) \/ Block(d) \/ Crash(d)
      PROVE  \A e \in Daemons : pc'[e] \in Resting => cur'[e] = None
  <2>1. Dies(d) \/ Drops(d) \/ (UNCHANGED cur /\ Goto(d, "fail"))
    BY <1>8 DEF Complete, Fail, Block, Crash, Ends
  <2>2. "fail" \in Labels /\ "fail" \notin Resting
    BY DEF Labels, Resting
  <2> QED
    BY <1>2, <1>3, <2>1, <2>2
<1>9. Tick \/ (\E f \in Feeds : Publish(f) \/ \E enabled \in BOOLEAN : Register(f, enabled))
      \/ UNCHANGED feedVars => UNCHANGED <<pc, cur>>
  BY Zenon DEF Tick, Publish, Register, feedVars
<1> QED
  BY <1>4, <1>5, <1>6, <1>7, <1>8, <1>9 DEF FeedNext, RunOnce

LEMMA BoundsKeep ==
  ASSUME DueInv, [FeedNext]_feedVars
  PROVE  crashes' \in 0..MaxCrashes /\ faults' \in 0..MaxFaults /\ registrations' \in 0..MaxRegistrations
<1> DEFINE Bounds == /\ crashes' = crashes \/ (crashes < MaxCrashes /\ crashes' = crashes + 1)
                     /\ faults' = faults \/ (faults < MaxFaults /\ faults' = faults + 1)
                     /\ registrations' = registrations
                        \/ (registrations < MaxRegistrations /\ registrations' = registrations + 1)
<1>1. Tick \/ UNCHANGED feedVars => Bounds
  BY Zenon DEF Tick, feedVars, boundVars
<1>2. ASSUME NEW f \in Feeds, NEW enabled \in BOOLEAN, Publish(f) \/ Register(f, enabled) PROVE Bounds
  BY <1>2 DEF Publish, Register, boundVars
<1>3. ASSUME NEW d \in Daemons, Start(d) \/ Crash(d) \/ NextClaim(d) PROVE Bounds
  BY <1>3 DEF Start, Crash, NextClaim, boundVars
<1>4. ASSUME NEW d \in Daemons, ClaimDue(d) PROVE Bounds
  BY Zenon, <1>4 DEF ClaimDue, Fault
<1>5. ASSUME NEW d \in Daemons, Block(d) \/ Fail(d) PROVE Bounds
  BY Zenon, <1>5 DEF Block, Fail, Ends, Fault
<1>6. ASSUME NEW d \in Daemons, Fetch(d) \/ Ingest(d) PROVE Bounds
  BY <1>6 DEF Fetch, Ingest, Fault
<1>7. ASSUME NEW d \in Daemons, Complete(d) PROVE Bounds
  BY Zenon, <1>7 DEF Complete, Fault
<1> HIDE DEF Bounds
<1>8. Bounds
  BY <1>1, <1>2, <1>3, <1>4, <1>5, <1>6, <1>7 DEF FeedNext, RunOnce
<1> QED
  BY <1>8, FeedAssumption DEF DueInv, Bounds

LEMMA DueInvInit == FeedInit => DueInv
<1> SUFFICES ASSUME FeedInit PROVE DueInv
  OBVIOUS
<1>1. Feeds \in SUBSET Feeds /\ due \in SetToSeqs(Feeds)
  BY DEF FeedInit
<1>2. /\ due \in Seq(Feeds) /\ \A i \in DOMAIN due : due[i] \in Feeds
      /\ \A i, k \in DOMAIN due : due[i] = due[k] => i = k
  BY <1>1, Enumerated
<1>3. \A f \in Feeds : feed[f].wait = 0
  BY DEF FeedInit
<1>4. Queue(feed, due)
  BY <1>2, <1>3 DEF Queue
<1> QED
  BY <1>4, FeedAssumption DEF FeedInit, DueInv

LEMMA DueInvNext == IInv /\ DueInv /\ [FeedNext]_feedVars => DueInv'
<1> SUFFICES ASSUME IInv, DueInv, [FeedNext]_feedVars PROVE DueInv'
  OBVIOUS
<1>1. Queue(feed', due')
  BY QueueTick, QueueRegister, QueueRest DEF DueInv
<1> QED
  BY <1>1, RestingKeeps, BoundsKeep DEF DueInv, Queue

\* FeedInv: the rows, the queue of the feeds that are due, the claims and what a
\* daemon has in hand have the form that the code relies on (a feed is due once,
\* a daemon works on a claim it holds), and live leases exclude each other.
THEOREM FeedsHold == FeedSpec => []FeedInv
<1>1. IInv /\ DueInv => FeedTypeOK
  <2> SUFFICES ASSUME IInv, DueInv PROVE FeedTypeOK
    OBVIOUS
  <2>1. due \in Seq(Feeds) /\ IsInjective(due)
    BY DEF DueInv, Queue, IsInjective
  <2>2. \A d \in Daemons : IF pc[d] \in {"down", "idle", "next"} THEN cur[d] = None
                                                              ELSE \E c \in batch[d] : c.id = cur[d]
    <3>1. \A d \in Daemons : pc[d] \in Resting \/ pc[d] \in Working
      BY DEF IInv, Types, Labels, Resting, Working
    <3> QED
      BY <3>1 DEF IInv, DueInv, Resting
  <2> QED
    BY <2>1, <2>2 DEF IInv, DueInv, Types, Labels, FeedTypeOK
<1>2. LInv => UnexpiredIsExclusive
  BY DEF LInv, Apart, UnexpiredIsExclusive
<1> QED
  BY <1>1, <1>2, IInvInit, IInvNext, LInvInit, LInvNext, DueInvInit, DueInvNext, PTL DEF FeedSpec, FeedInv

-----------------------------------------------------------------------------
(* A state connects once, a user who left is not streamed to, and what is     *)
(* called live is: for every number of attempts, callbacks, instruments and   *)
(* executions, and for all windows.                                           *)

\* The exchange of a state: a connection is by a used one.
Exchanges ==
  /\ StateConnectsOnce
  /\ connection.of # Nothing => oauth[connection.of].used
  /\ \A c \in InFlight : callback[c].of \in Attempts

\* Whatever has a row was subscribed to since the user left; a new socket
\* knows nothing of that.
Subscriptions ==
  /\ LeftIsNotStreamed
  /\ socket.pc = "closed" => ~socket.left
  /\ \A i \in Instruments : subscription[i] # 0 => i \in resubscribed

\* A quote of the broker is of the past, in the row and in the buffer.
Sent(quote) ==
  quote # NoQuote =>
    /\ quote.received \in Elapsed
    /\ quote.trade # Unknown => quote.trade \in 0..quote.received

Deliveries ==
  /\ LiveIsRecent
  /\ \A i \in Instruments : Sent(row[i]) /\ Sent(socket.pending[i])
  /\ \A o \in Overlays : overlay[o].pc # "idle" => overlay[o].of \in Instruments

QInv == QuotesTypeOK /\ Exchanges /\ Subscriptions /\ Deliveries

-----------------------------------------------------------------------------
LEMMA ExpiryIsInt == ASSUME NEW t \in Int PROVE Expiry(t) \in Int
BY QuoteAssumption DEF Expiry

LEMMA ClockMoves ==
  ASSUME QuotesTypeOK
  PROVE  /\ clock \in Nat /\ clock <= LastTick /\ LastTick \in Nat
         /\ Elapsed \subseteq Moments /\ Expiry(clock) \in Int
BY ExpiryIsInt, QuoteAssumption DEF QuotesTypeOK, Moments, Elapsed

LEMMA Constants ==
  /\ NoQuote \in Quotes /\ NoCallback \in Requests /\ NoConnection \in Connections
  /\ Closed \in Sockets /\ Asleep \in Executions
<1>1. NoQuote \in Quotes
  BY DEF NoQuote, Quotes
<1>2. 0 \in Moments
  BY QuoteAssumption DEF Moments
<1> QED
  BY <1>1, <1>2 DEF NoCallback, NoConnection, Closed, Asleep, Requests, Connections, Sockets, Executions

-----------------------------------------------------------------------------
LEMMA InitQInv == QuotesInit => QInv
<1> SUFFICES ASSUME QuotesInit PROVE QInv
  OBVIOUS
<1>1. QuotesTypeOK
  <2>1. clock \in Moments /\ quoteFaults \in 0..MaxQuoteFaults
    BY QuoteAssumption DEF QuotesInit, Moments
  <2>2. connection \in Connections
    BY Constants, QuoteAssumption DEF QuotesInit, Connections
  <2>3. oauth \in [Attempts -> States]
    BY DEF QuotesInit, States
  <2> QED
    BY <2>1, <2>2, <2>3, Constants DEF QuotesInit, QuotesTypeOK
<1>2. Exchanges
  <2>1. InFlight = {}
    BY DEF QuotesInit, InFlight, NoCallback
  <2>2. connection.of # Nothing => connection.of \in Attempts
    BY DEF QuotesInit, NoConnection
  <2> QED
    BY <2>1, <2>2 DEF QuotesInit, Exchanges, StateConnectsOnce
<1>3. Subscriptions
  BY DEF QuotesInit, Subscriptions, LeftIsNotStreamed, Closed
<1>4. Deliveries
  BY DEF QuotesInit, Deliveries, LiveIsRecent, Sent, Asleep, Closed
<1> QED
  BY <1>1, <1>2, <1>3, <1>4 DEF QInv

-----------------------------------------------------------------------------
(* Types.                                                                     *)
LEMMA FaultCounts == ASSUME QuotesTypeOK, QuoteFault PROVE quoteFaults' \in 0..MaxQuoteFaults
BY QuoteAssumption DEF QuotesTypeOK, QuoteFault

LEMMA FlushedTypes == ASSUME QuotesTypeOK PROVE Flushed \in [Instruments -> Quotes]
BY DEF QuotesTypeOK, Flushed, Sockets

LEMMA GivesTypes ==
  ASSUME QuotesTypeOK, NEW o \in Overlays, NEW quote \in Quotes, Sent(quote), quote # NoQuote,
         Gives(o, quote)
  PROVE  overlay' \in [Overlays -> Executions]
<1>1. /\ quote.received \in Int /\ 0 <= quote.received /\ quote.received <= clock
      /\ clock - quote.received \in Moments
  BY ClockMoves DEF Sent, Elapsed, Moments
<1>2. quote.trade # Unknown => quote.received - quote.trade \in Moments
  BY <1>1, ClockMoves DEF Sent, Moments
<1>3. LabelOf(quote) \in {"live", "near_live"}
  BY DEF LabelOf
<1>4. [Asleep EXCEPT !.label = LabelOf(quote), !.age = clock - quote.received,
                     !.lag = IF quote.trade = Unknown THEN Unknown ELSE quote.received - quote.trade]
        \in Executions
  BY <1>1, <1>2, <1>3, Constants DEF Executions
<1> QED
  BY <1>4 DEF Gives, QuotesTypeOK

LEMMA StoredTypes ==
  ASSUME QuotesTypeOK, NEW o \in Overlays, StaysStored(o)
  PROVE  overlay' \in [Overlays -> Executions]
<1>1. [Asleep EXCEPT !.label = "stored"] \in Executions
  BY Constants DEF Executions
<1> QED
  BY <1>1 DEF StaysStored, QuotesTypeOK

LEMMA BecomesTypes ==
  ASSUME QuotesTypeOK, NEW o \in Overlays, NEW step \in {"read", "rest"}, Becomes(o, step)
  PROVE  overlay' \in [Overlays -> Executions]
<1>1. [overlay[o] EXCEPT !.pc = step] \in Executions
  BY DEF QuotesTypeOK, Executions
<1>2. overlay' = [overlay EXCEPT ![o] = [overlay[o] EXCEPT !.pc = step]]
  BY DEF Becomes
<1> QED
  BY <1>1, <1>2 DEF QuotesTypeOK

\* What an execution does leaves the rest of the world's types alone.
LEMMA OverlayTypes ==
  ASSUME QInv, NEW o \in Overlays,
         \/ Subscribe(o) \/ ReadRow(o) \/ AskBroker(o) \/ \E i \in Instruments : ReadToken(o, i)
  PROVE  QuotesTypeOK'
<1> USE DEF QInv
<1>1. OverlayOnly
  BY DEF Subscribe, ReadRow, AskBroker, ReadToken
<1>2. quoteFaults' \in 0..MaxQuoteFaults
  BY FaultCounts DEF Subscribe, ReadRow, AskBroker, ReadToken, QuotesTypeOK
<1>3. /\ subscription' \in [Instruments -> Nat] /\ resubscribed' \subseteq Instruments
      /\ overlay' \in [Overlays -> Executions]
  <2>1. CASE Subscribe(o)
    <3>1. overlay[o].of \in Instruments
      BY <2>1 DEF Subscribe, Deliveries
    <3>2. clock + SubscriptionTtl \in Nat
      BY ClockMoves, QuoteAssumption
    <3>3. subscription' \in [Instruments -> Nat] /\ resubscribed' \subseteq Instruments
      BY <2>1, <3>1, <3>2 DEF Subscribe, QuotesTypeOK
    <3>4. [Asleep EXCEPT !.label = "aborted"] \in Executions
      BY Constants DEF Executions
    <3>5. \/ Becomes(o, "read") \/ Becomes(o, "rest")
          \/ overlay' = [overlay EXCEPT ![o] = [Asleep EXCEPT !.label = "aborted"]]
      BY <2>1 DEF Subscribe, Becomes
    <3> QED
      BY <3>3, <3>4, <3>5, BecomesTypes DEF QuotesTypeOK
  <2>2. CASE ReadRow(o)
    <3>1. overlay[o].of \in Instruments
      BY <2>2 DEF ReadRow, Deliveries
    <3>2. /\ row[overlay[o].of] \in Quotes /\ Sent(row[overlay[o].of])
          /\ FreshRow(overlay[o].of) => row[overlay[o].of] # NoQuote
      BY <3>1 DEF QuotesTypeOK, Deliveries, FreshRow
    <3> QED
      BY <2>2, <3>2, GivesTypes, BecomesTypes DEF ReadRow, QuotesTypeOK
  <2>3. CASE AskBroker(o)
    <3>1. ASSUME NEW t \in Elapsed
          PROVE  LET quote == [trade |-> t, received |-> clock]
                 IN quote \in Quotes /\ Sent(quote) /\ quote # NoQuote
      BY ClockMoves, QuoteAssumption DEF Quotes, Sent, Elapsed, Moments, NoQuote
    <3> QED
      BY <2>3, <3>1, GivesTypes, StoredTypes DEF AskBroker, QuotesTypeOK
  <2>4. CASE \E i \in Instruments : ReadToken(o, i)
    <3>1. PICK i \in Instruments : ReadToken(o, i)
      BY <2>4
    <3>2. [Asleep EXCEPT !.pc = "subscribe", !.of = i, !.good = connection.good] \in Executions
      BY Constants DEF Executions, QuotesTypeOK, Connections
    <3> QED
      BY <3>1, <3>2, StoredTypes DEF ReadToken, QuotesTypeOK
  <2> QED
    BY <2>1, <2>2, <2>3, <2>4
<1> QED
  BY <1>1, <1>2, <1>3 DEF OverlayOnly, QuotesTypeOK

LEMMA SocketTypes ==
  ASSUME QInv, Prepare \/ Open \/ Break \/ Flush \/ Reconcile \/ \E i \in Instruments : Message(i)
  PROVE  QuotesTypeOK'
<1> USE DEF QInv
<1>1. SocketOnly
  BY DEF Prepare, Open, Break, Flush, Reconcile, Message
<1>2. quoteFaults' \in 0..MaxQuoteFaults /\ row' \in [Instruments -> Quotes]
  BY FaultCounts, FlushedTypes DEF Prepare, Open, Break, Flush, Reconcile, Message, QuotesTypeOK
<1>3. socket' \in Sockets
  <2> Active \subseteq Instruments
    BY DEF Active
  <2>1. CASE Prepare
    BY <2>1, Constants DEF Prepare, QuotesTypeOK, Sockets, Connections
  <2>2. CASE Open
    BY <2>2, Constants DEF Open, QuotesTypeOK, Sockets
  <2>3. CASE Break
    BY <2>3, Constants DEF Break
  <2>4. CASE Flush
    BY <2>4, Constants DEF Flush, QuotesTypeOK, Sockets
  <2>5. CASE Reconcile
    BY <2>5, Constants DEF Reconcile, QuotesTypeOK, Sockets
  <2>6. ASSUME NEW i \in Instruments, Message(i)
        PROVE  socket' \in Sockets
    <3>1. PICK t \in Elapsed \cup {Unknown} :
            socket' = [socket EXCEPT !.pending[i] = [trade |-> t, received |-> clock]]
      BY <2>6 DEF Message
    <3>2. [trade |-> t, received |-> clock] \in Quotes
      BY ClockMoves DEF Quotes, Moments
    <3> HIDE DEF Quotes
    <3> QED
      BY <3>1, <3>2 DEF QuotesTypeOK, Sockets
  <2> QED
    BY <2>1, <2>2, <2>3, <2>4, <2>5, <2>6
<1> QED
  BY <1>1, <1>2, <1>3 DEF SocketOnly, QuotesTypeOK

LEMMA ExchangeTypes ==
  ASSUME QInv, NEW c \in Callbacks, Exchange(c) \/ Store(c) \/ \E a \in Attempts : Consume(c, a)
  PROVE  QuotesTypeOK'
<1> USE DEF QInv
<1>1. CASE Exchange(c)
  <2>1. [callback[c] EXCEPT !.pc = "granted", !.good = Expiry(clock)] \in Requests
    BY ClockMoves DEF QuotesTypeOK, Requests
  <2>2. \/ callback' = [callback EXCEPT ![c] = [callback[c] EXCEPT !.pc = "granted", !.good = Expiry(clock)]]
        \/ callback' = [callback EXCEPT ![c] = NoCallback]
    BY <1>1 DEF Exchange
  <2>3. callback' \in [Callbacks -> Requests]
    BY <2>1, <2>2, Constants DEF QuotesTypeOK
  <2> QED
    BY <1>1, <2>3, FaultCounts DEF Exchange, QuotesTypeOK, tables
<1>2. CASE Store(c)
  <2>1. ConnectedBy(c) \in Connections
    BY ClockMoves DEF QuotesTypeOK, Requests, Connections, ConnectedBy
  <2>2. callback' \in [Callbacks -> Requests] /\ connection' \in Connections
    BY <1>2, <2>1, Constants DEF Store, QuotesTypeOK
  <2> QED
    BY <1>2, <2>2, FaultCounts DEF Store, QuotesTypeOK
<1>3. ASSUME NEW a \in Attempts, Consume(c, a)
      PROVE  QuotesTypeOK'
  <2>1. [pc |-> "exchanging", of |-> a, good |-> 0] \in Requests
    BY DEF Requests
  <2>2. [oauth[a] EXCEPT !.used = TRUE] \in States
    BY DEF QuotesTypeOK, States
  <2>3. oauth' = [oauth EXCEPT ![a] = [oauth[a] EXCEPT !.used = TRUE]]
    BY <1>3 DEF Consume
  <2> QED
    BY <1>3, <2>1, <2>2, <2>3 DEF Consume, QuotesTypeOK
<1> QED
  BY <1>1, <1>2, <1>3

LEMMA StepTypes == ASSUME QInv, [QuotesNext]_quoteVars PROVE QuotesTypeOK'
<1> USE DEF QInv
<1>1. CASE Pass
  BY <1>1, ClockMoves DEF Pass, QuotesTypeOK, tables, Moments
<1>2. CASE Disconnect
  <2>1. socket' \in Sockets
    BY <1>2 DEF Disconnect, QuotesTypeOK, Sockets
  <2> QED
    BY <1>2, <2>1, Constants DEF Disconnect, QuotesTypeOK
<1>3. ASSUME NEW a \in Attempts, Begin(a)
      PROVE  QuotesTypeOK'
  <2>1. [oauth[a] EXCEPT !.until = clock + StateTtl] \in States
    BY ClockMoves, QuoteAssumption DEF QuotesTypeOK, States
  <2>2. oauth' = [oauth EXCEPT ![a] = [oauth[a] EXCEPT !.until = clock + StateTtl]]
    BY <1>3 DEF Begin
  <2> QED
    BY <1>3, <2>1, <2>2 DEF Begin, QuotesTypeOK
<1>4. CASE UNCHANGED quoteVars
  BY <1>4 DEF quoteVars, QuotesTypeOK
<1> QED
  BY <1>1, <1>2, <1>3, <1>4, ExchangeTypes, SocketTypes, OverlayTypes DEF QuotesNext

-----------------------------------------------------------------------------
(* A state connects once.                                                     *)

\* Whatever leaves the three tables of the exchange alone.
LEMMA ExchangesKept ==
  ASSUME Exchanges, UNCHANGED <<oauth, callback, connection>>
  PROVE  Exchanges'
BY DEF Exchanges, StateConnectsOnce, InFlight

LEMMA StepExchanges == ASSUME QInv, [QuotesNext]_quoteVars PROVE Exchanges'
<1> USE DEF QInv
<1>1. CASE UNCHANGED <<oauth, callback, connection>>
  BY <1>1, ExchangesKept
<1>2. CASE Disconnect
  <2>1. connection'.of = Nothing /\ oauth' = oauth /\ callback' = callback
    BY <1>2 DEF Disconnect, NoConnection
  <2> QED
    BY <2>1, QuoteAssumption DEF Exchanges, StateConnectsOnce, InFlight
<1>3. ASSUME NEW a \in Attempts, Begin(a)
      PROVE  Exchanges'
  <2>1. \A b \in Attempts : oauth'[b].used = oauth[b].used
    BY <1>3 DEF Begin, QuotesTypeOK, States
  <2>2. connection.of # Nothing => connection.of \in Attempts
    BY DEF QuotesTypeOK, Connections
  <2> QED
    BY <1>3, <2>1, <2>2 DEF Begin, Exchanges, StateConnectsOnce, InFlight
<1>4. ASSUME NEW c \in Callbacks, NEW a \in Attempts, Consume(c, a)
      PROVE  Exchanges'
  <2>1. /\ ~oauth[a].used /\ c \notin InFlight
        /\ \A b \in Attempts : oauth'[b].used <=> (oauth[b].used \/ b = a)
        /\ \A d \in Callbacks : d # c => callback'[d] = callback[d]
        /\ callback'[c].of = a /\ InFlight' \subseteq InFlight \cup {c}
    BY <1>4 DEF Consume, Usable, InFlight, QuotesTypeOK, States, Requests
  <2>2. connection' = connection /\ (connection.of # Nothing => connection.of \in Attempts)
    BY <1>4 DEF Consume, QuotesTypeOK, Connections
  <2>3. a # Nothing
    BY QuoteAssumption
  <2>4. connection.of # a /\ \A d \in InFlight : callback[d].of # a
    BY <2>1, <2>2, <2>3 DEF Exchanges, StateConnectsOnce
  <2> QED
    BY <2>1, <2>2, <2>4 DEF Exchanges, StateConnectsOnce, InFlight
<1>5. ASSUME NEW c \in Callbacks, Exchange(c)
      PROVE  Exchanges'
  <2>1. /\ InFlight' \subseteq InFlight /\ oauth' = oauth /\ connection' = connection
        /\ \A d \in InFlight' : callback'[d].of = callback[d].of
    BY <1>5 DEF Exchange, InFlight, NoCallback, tables, QuotesTypeOK, Requests
  <2> QED
    BY <2>1 DEF Exchanges, StateConnectsOnce
<1>6. ASSUME NEW c \in Callbacks, Store(c)
      PROVE  Exchanges'
  <2>1. /\ c \in InFlight /\ InFlight' \subseteq InFlight \ {c} /\ oauth' = oauth
        /\ \A d \in InFlight' : callback'[d].of = callback[d].of
        /\ connection'.of \in {connection.of, callback[c].of}
    BY <1>6 DEF Store, ConnectedBy, InFlight, NoCallback, QuotesTypeOK, Requests
  <2> QED
    BY <2>1 DEF Exchanges, StateConnectsOnce
<1>7. ASSUME NEW o \in Overlays,
             \/ Subscribe(o) \/ ReadRow(o) \/ AskBroker(o) \/ \E i \in Instruments : ReadToken(o, i)
      PROVE  Exchanges'
  BY <1>7, <1>1 DEF Subscribe, ReadRow, AskBroker, ReadToken, OverlayOnly
<1>8. CASE Prepare \/ Open \/ Break \/ Flush \/ Reconcile \/ \E i \in Instruments : Message(i)
  BY <1>8, <1>1 DEF Prepare, Open, Break, Flush, Reconcile, Message, SocketOnly
<1>9. CASE Pass \/ UNCHANGED quoteVars
  BY <1>9, <1>1 DEF Pass, quoteVars, tables
<1> QED
  BY <1>2, <1>3, <1>4, <1>5, <1>6, <1>7, <1>8, <1>9 DEF QuotesNext

-----------------------------------------------------------------------------
(* A user who left is not streamed to.                                        *)
LEMMA StepSubscriptions == ASSUME QInv, [QuotesNext]_quoteVars PROVE Subscriptions'
<1> USE DEF QInv
<1>1. CASE UNCHANGED <<subscription, socket, resubscribed>>
  BY <1>1 DEF Subscriptions, LeftIsNotStreamed
<1>2. CASE Disconnect
  <2>1. \A i \in Instruments : subscription'[i] = 0
    BY <1>2 DEF Disconnect
  <2>2. IF socket.pc = "closed" THEN socket' = socket ELSE ~socket'.checked /\ socket'.pc = socket.pc
    BY <1>2 DEF Disconnect, QuotesTypeOK, Sockets
  <2> QED
    BY <2>1, <2>2 DEF Subscriptions, LeftIsNotStreamed
<1>3. ASSUME NEW o \in Overlays, Subscribe(o)
      PROVE  Subscriptions'
  <2>1. /\ socket' = socket /\ resubscribed \subseteq resubscribed'
        /\ \A i \in Instruments : subscription'[i] = subscription[i] \/ i \in resubscribed'
    BY <1>3 DEF Subscribe, OverlayOnly, QuotesTypeOK
  <2> QED
    BY <2>1 DEF Subscriptions, LeftIsNotStreamed
<1>4. ASSUME SocketOnly,
             \/ ~socket'.left
             \/ socket'.pc # "closed" /\ socket'.on \subseteq resubscribed
             \/ /\ socket'.pc # "closed" /\ socket'.left = socket.left
                /\ socket'.checked = socket.checked /\ socket'.on = socket.on
      PROVE  Subscriptions'
  BY <1>4 DEF SocketOnly, Subscriptions, LeftIsNotStreamed
<1>5. CASE Prepare \/ Open \/ Break \/ Flush \/ Reconcile \/ \E i \in Instruments : Message(i)
  <2>1. ASSUME NEW S, S = [Closed EXCEPT !.pc = "setup", !.good = connection.good, !.on = Active]
        PROVE  ~S.left
    BY <2>1, Zenon DEF Closed
  <2>2. ~Closed.left
    BY DEF Closed
  <2>3. CASE Prepare
    BY <2>1, <2>3, <1>4 DEF Prepare
  <2>4. CASE Open
    BY <2>2, <2>4, <1>4 DEF Open, QuotesTypeOK, Sockets
  <2>5. CASE Break
    BY <2>2, <2>5, <1>4 DEF Break
  <2>6. CASE Flush
    BY <2>6, <1>4 DEF Flush, QuotesTypeOK, Sockets
  <2>7. CASE Reconcile
    <3>1. Active \subseteq resubscribed
      BY ClockMoves DEF Active, Subscriptions, QuotesTypeOK
    <3>2. CASE Active = {}
      BY <2>2, <2>7, <3>2, <1>4 DEF Reconcile
    <3>3. CASE Active # {}
      <4>1. socket' = [socket EXCEPT !.on = Active, !.checked = TRUE]
        BY <2>7, <3>3 DEF Reconcile
      <4>2. socket'.on = Active /\ socket'.pc = socket.pc
        BY <4>1 DEF QuotesTypeOK, Sockets
      <4> QED
        BY <2>7, <3>1, <4>2, <1>4 DEF Reconcile
    <3> QED
      BY <3>2, <3>3
  <2>8. ASSUME NEW i \in Instruments, Message(i)
        PROVE  Subscriptions'
    BY <2>8, <1>4 DEF Message, QuotesTypeOK, Sockets
  <2> QED
    BY <1>5, <2>3, <2>4, <2>5, <2>6, <2>7, <2>8
<1>6. ASSUME NEW o \in Overlays,
             ReadRow(o) \/ AskBroker(o) \/ \E i \in Instruments : ReadToken(o, i)
      PROVE  Subscriptions'
  BY <1>6, <1>1 DEF ReadRow, AskBroker, ReadToken, OverlayOnly
<1>7. ASSUME NEW c \in Callbacks, Exchange(c) \/ Store(c) \/ \E a \in Attempts : Consume(c, a)
      PROVE  Subscriptions'
  BY <1>7, <1>1 DEF Exchange, Store, Consume, tables
<1>8. CASE Pass \/ (\E a \in Attempts : Begin(a)) \/ UNCHANGED quoteVars
  BY <1>8, <1>1 DEF Pass, Begin, quoteVars, tables
<1> QED
  BY <1>2, <1>3, <1>5, <1>6, <1>7, <1>8 DEF QuotesNext

-----------------------------------------------------------------------------
(* What is called live is.                                                    *)

\* What was sent stays sent as time goes on.
LEMMA SentStays ==
  ASSUME QuotesTypeOK, NEW quote \in Quotes, Sent(quote), clock' \in Nat, clock <= clock'
  PROVE  Sent(quote)'
<1>1. Elapsed \subseteq Elapsed'
  BY ClockMoves DEF Elapsed
<1> QED
  BY <1>1 DEF Sent

LEMMA FlushedSent ==
  ASSUME QInv
  PROVE  \A i \in Instruments : Sent(Flushed[i]) /\ Sent(Closed.pending[i])
BY DEF QInv, Deliveries, Flushed, Closed, Sent

\* One execution that says live only what is; the others as before.
LEMMA OneExecution ==
  ASSUME QInv, NEW o \in Overlays, NEW execution,
         overlay' = [overlay EXCEPT ![o] = execution],
         execution.label = "live" =>
           /\ execution.age <= Fresh
           /\ execution.lag # Unknown => execution.lag + execution.age <= Stale,
         execution.pc # "idle" => execution.of \in Instruments,
         UNCHANGED <<clock, row, socket>>
  PROVE  Deliveries'
<1>1. \A p \in Overlays : overlay'[p] = IF p = o THEN execution ELSE overlay[p]
  BY DEF QInv, QuotesTypeOK
<1> QED
  BY <1>1 DEF QInv, Deliveries, LiveIsRecent, Sent, Elapsed

LEMMA GivesLive ==
  ASSUME QInv, NEW o \in Overlays, NEW quote \in Quotes, Sent(quote), quote # NoQuote,
         clock - quote.received <= Fresh, Gives(o, quote), UNCHANGED <<clock, row, socket>>
  PROVE  Deliveries'
<1> DEFINE lag == IF quote.trade = Unknown THEN Unknown ELSE quote.received - quote.trade
           execution == [Asleep EXCEPT !.label = LabelOf(quote), !.age = clock - quote.received,
                                       !.lag = lag]
<1>1. /\ execution.label = LabelOf(quote) /\ execution.age = clock - quote.received
      /\ execution.lag = lag /\ execution.pc = "idle"
  BY DEF Asleep
<1>2. quote.received \in Int /\ clock \in Int /\ (quote.trade # Unknown => quote.trade \in Int)
  BY ClockMoves DEF QInv, Sent, Elapsed
<1>3. ASSUME LabelOf(quote) = "live", lag # Unknown
      PROVE  lag + (clock - quote.received) <= Stale
  <2>1. quote.trade # Unknown /\ lag = quote.received - quote.trade
    BY <1>3
  <2>2. ~(clock - quote.trade > Stale)
    BY <1>3, <2>1 DEF LabelOf
  <2> QED
    BY <1>2, <2>1, <2>2, QuoteAssumption
<1>4. overlay' = [overlay EXCEPT ![o] = execution]
  BY DEF Gives
<1> HIDE DEF execution, lag
<1> QED
  BY <1>1, <1>3, <1>4, OneExecution

LEMMA OverlayDeliveries ==
  ASSUME QInv, NEW o \in Overlays,
         \/ Subscribe(o) \/ ReadRow(o) \/ AskBroker(o) \/ \E i \in Instruments : ReadToken(o, i)
  PROVE  Deliveries'
<1> USE DEF QInv
<1>1. UNCHANGED <<clock, row, socket>>
  BY DEF Subscribe, ReadRow, AskBroker, ReadToken, OverlayOnly
<1>2. ASSUME overlay[o].pc # "idle", NEW step \in {"read", "rest"}, Becomes(o, step)
      PROVE  Deliveries'
  <2>1. \A p \in Overlays : /\ overlay'[p].label = overlay[p].label /\ overlay'[p].age = overlay[p].age
                            /\ overlay'[p].lag = overlay[p].lag /\ overlay'[p].of = overlay[p].of
                            /\ overlay'[p].pc # "idle" => overlay[p].pc # "idle"
    BY <1>2 DEF Becomes, QuotesTypeOK, Executions
  <2> QED
    BY <1>1, <2>1 DEF Deliveries, LiveIsRecent, Sent, Elapsed
<1>3. ASSUME NEW label \in {"stored", "aborted"},
             overlay' = [overlay EXCEPT ![o] = [Asleep EXCEPT !.label = label]]
      PROVE  Deliveries'
  <2>1. [Asleep EXCEPT !.label = label].label # "live" /\ [Asleep EXCEPT !.label = label].pc = "idle"
    BY DEF Asleep
  <2> QED
    BY <1>1, <1>3, <2>1, OneExecution
<1>4. CASE Subscribe(o)
  <2>1. \/ Becomes(o, "read") \/ Becomes(o, "rest")
        \/ overlay' = [overlay EXCEPT ![o] = [Asleep EXCEPT !.label = "aborted"]]
    BY <1>4 DEF Subscribe, Becomes
  <2> QED
    BY <1>2, <1>3, <1>4, <2>1 DEF Subscribe
<1>5. CASE ReadRow(o)
  <2>1. /\ overlay[o].pc # "idle" /\ overlay[o].of \in Instruments
        /\ row[overlay[o].of] \in Quotes /\ Sent(row[overlay[o].of])
    BY <1>5 DEF ReadRow, Deliveries, QuotesTypeOK
  <2>2. ASSUME FreshRow(overlay[o].of)
        PROVE  /\ row[overlay[o].of] # NoQuote
               /\ clock - row[overlay[o].of].received <= Fresh
    BY <2>1, <2>2, ClockMoves, QuoteAssumption DEF FreshRow, Sent, Elapsed
  <2>3. CASE FreshRow(overlay[o].of) /\ Gives(o, row[overlay[o].of])
    <3> DEFINE quote == row[overlay[o].of]
    <3>1. /\ quote \in Quotes /\ Sent(quote) /\ quote # NoQuote
          /\ clock - quote.received <= Fresh /\ Gives(o, quote)
      BY <2>1, <2>2, <2>3
    <3> HIDE DEF quote
    <3> QED
      BY <1>1, <3>1, GivesLive
  <2>4. CASE Becomes(o, "rest")
    BY <1>2, <2>1, <2>4
  <2> QED
    BY <1>5, <2>3, <2>4 DEF ReadRow
<1>6. CASE AskBroker(o)
  <2>1. ASSUME NEW t \in Elapsed
        PROVE  LET quote == [trade |-> t, received |-> clock]
               IN /\ quote \in Quotes /\ Sent(quote) /\ quote # NoQuote
                  /\ clock - quote.received <= Fresh
    BY ClockMoves, QuoteAssumption DEF Quotes, Sent, Elapsed, Moments, NoQuote
  <2>2. ASSUME NEW t \in Elapsed, Gives(o, [trade |-> t, received |-> clock])
        PROVE  Deliveries'
    <3> DEFINE quote == [trade |-> t, received |-> clock]
    <3>1. /\ quote \in Quotes /\ Sent(quote) /\ quote # NoQuote
          /\ clock - quote.received <= Fresh /\ Gives(o, quote)
      BY <2>1, <2>2
    <3> HIDE DEF quote
    <3> QED
      BY <1>1, <3>1, GivesLive
  <2>3. CASE StaysStored(o)
    BY <1>3, <2>3 DEF StaysStored
  <2> QED
    BY <1>6, <2>2, <2>3 DEF AskBroker
<1>7. ASSUME NEW i \in Instruments, ReadToken(o, i)
      PROVE  Deliveries'
  <2> DEFINE execution == [Asleep EXCEPT !.pc = "subscribe", !.of = i, !.good = connection.good]
  <2>1. execution.label = "none" /\ execution.of = i
    BY DEF Asleep
  <2>2. overlay' = [overlay EXCEPT ![o] = execution] \/ StaysStored(o)
    BY <1>7 DEF ReadToken
  <2> HIDE DEF execution
  <2> QED
    BY <1>1, <1>3, <2>1, <2>2, OneExecution DEF StaysStored
<1> QED
  BY <1>4, <1>5, <1>6, <1>7

LEMMA StepDeliveries == ASSUME QInv, [QuotesNext]_quoteVars PROVE Deliveries'
<1> USE DEF QInv
<1>1. Elapsed = 0..clock /\ clock \in Nat
  BY ClockMoves DEF Elapsed
<1>2. ASSUME NEW quote, Sent(quote), clock' \in Nat, clock <= clock'
      PROVE  /\ quote # NoQuote =>
                  /\ quote.received \in 0..clock'
                  /\ quote.trade # Unknown => quote.trade \in 0..quote.received
  BY <1>1, <1>2 DEF Sent
<1>3. ASSUME UNCHANGED <<overlay, row, socket>>, clock' \in Nat, clock <= clock'
      PROVE  Deliveries'
  <2>1. LiveIsRecent' /\ \A o \in Overlays : overlay'[o].pc # "idle" => overlay'[o].of \in Instruments
    BY <1>3 DEF Deliveries, LiveIsRecent
  <2>2. \A i \in Instruments : Sent(row[i])' /\ Sent(socket.pending[i])'
    BY <1>2, <1>3 DEF Deliveries, Sent, Elapsed, NoQuote
  <2> QED
    BY <2>1, <2>2 DEF Deliveries
<1>4. CASE Pass
  BY <1>3, <1>4, ClockMoves DEF Pass, tables
<1>5. CASE Disconnect
  <2>1. /\ socket'.pending = socket.pending /\ UNCHANGED <<clock, overlay>>
        /\ \A i \in Instruments : row'[i] = NoQuote
    BY <1>5 DEF Disconnect, QuotesTypeOK, Sockets
  <2> QED
    BY <2>1 DEF Deliveries, LiveIsRecent, Sent, Elapsed
<1>6. ASSUME SocketOnly, row' \in {row, Flushed},
             \A i \in Instruments : Sent(socket'.pending[i])
      PROVE  Deliveries'
  <2>1. UNCHANGED <<clock, overlay>>
    BY <1>6 DEF SocketOnly
  <2>2. \A i \in Instruments : Sent(row'[i])
    BY <1>6, FlushedSent DEF Deliveries
  <2> QED
    BY <1>6, <2>1, <2>2 DEF Deliveries, LiveIsRecent, Sent, Elapsed
<1>7. CASE Prepare \/ Open \/ Break \/ Flush \/ Reconcile
  <2>1. socket'.pending \in {socket.pending, Closed.pending}
    <3>1. ASSUME NEW S, S = [Closed EXCEPT !.pc = "setup", !.good = connection.good, !.on = Active]
          PROVE  S.pending = Closed.pending
      BY <3>1, Zenon DEF Closed
    <3>2. CASE Prepare
      BY <3>1, <3>2 DEF Prepare
    <3>3. CASE Open \/ Break \/ Flush
      BY <3>3 DEF Open, Break, Flush, QuotesTypeOK, Sockets
    <3>4. CASE Reconcile
      <4>1. \/ socket' = Closed
            \/ socket' = [socket EXCEPT !.on = Active, !.checked = TRUE]
        BY <3>4 DEF Reconcile
      <4> QED
        BY <4>1 DEF QuotesTypeOK, Sockets
    <3> QED
      BY <1>7, <3>2, <3>3, <3>4
  <2>2. \A i \in Instruments : Sent(socket'.pending[i])
    BY <2>1, FlushedSent DEF Deliveries
  <2>3. SocketOnly /\ row' \in {row, Flushed}
    BY <1>7 DEF Prepare, Open, Break, Flush, Reconcile
  <2> QED
    BY <1>6, <2>2, <2>3
<1>8. ASSUME NEW i \in Instruments, Message(i)
      PROVE  Deliveries'
  <2>1. PICK t \in Elapsed \cup {Unknown} :
          socket' = [socket EXCEPT !.pending[i] = [trade |-> t, received |-> clock]]
    BY <1>8 DEF Message
  <2>2. Sent([trade |-> t, received |-> clock])
    BY ClockMoves, QuoteAssumption DEF Sent, Elapsed
  <2>3. \A k \in Instruments :
          socket'.pending[k] \in {socket.pending[k], [trade |-> t, received |-> clock]}
    BY <2>1 DEF QuotesTypeOK, Sockets
  <2> QED
    BY <1>6, <1>8, <2>2, <2>3 DEF Message, Deliveries
<1>9. CASE \/ \E a \in Attempts : Begin(a)
           \/ \E c \in Callbacks : Exchange(c) \/ Store(c) \/ \E a \in Attempts : Consume(c, a)
           \/ UNCHANGED quoteVars
  <2>1. UNCHANGED <<clock, overlay, row, socket>>
    BY <1>9 DEF Begin, Exchange, Store, Consume, quoteVars, tables
  <2> QED
    BY <1>1, <1>3, <2>1
<1> QED
  BY <1>4, <1>5, <1>7, <1>8, <1>9, OverlayDeliveries DEF QuotesNext

-----------------------------------------------------------------------------
\* However callbacks, disconnects, late flushes and late executions fall
\* together: a state connects once, a socket that outlived its connection
\* streams only what was subscribed to since, and no quote called live is old.
THEOREM QuotesHold == QuotesSpec => []QuotesAreTrue
<1>1. QuotesInit => QInv
  BY InitQInv
<1>2. QInv /\ [QuotesNext]_quoteVars => QInv'
  BY StepTypes, StepExchanges, StepSubscriptions, StepDeliveries DEF QInv
<1>3. QInv => QuotesAreTrue
  BY DEF QInv, QuotesAreTrue, Exchanges, Subscriptions, Deliveries
<1> QED
  BY <1>1, <1>2, <1>3, PTL DEF QuotesSpec
=================================================================================
