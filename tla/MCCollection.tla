----------------------------- MODULE MCCollection -----------------------------
(* What is collected in the background, a scene at a time: the corpus over  *)
(* two or three companies, or three official feeds by a daemon whose batch  *)
(* is smaller than what is due.  In the other's scene there are no          *)
(* companies, and the feeds are disabled.                                   *)
EXTENDS MCCorpusBackfill, MCOfficialFeeds

NoWorld == [companies |-> <<>>, workflows |-> [j \in MCJobs |-> {}]]
WorldsOrNone == MCWorlds \cup {NoWorld}

NoFeeds ==
  /\ feed = [f \in Feeds |-> [enabled |-> FALSE, wait |-> 0, lease |-> 0, validator |-> 0]]
  /\ due = <<>>
  /\ source = [f \in Feeds |-> 1] /\ ingested = [f \in Feeds |-> {}]
  /\ pc = [d \in Daemons |-> "idle"] /\ batch = [d \in Daemons |-> {}]
  /\ cur = [d \in Daemons |-> None] /\ got = [d \in Daemons |-> 0]
  /\ crashes = 0 /\ faults = 0 /\ registrations = 0

VARIABLE scene

CollectionInit ==
  /\ scene \in {"corpus", "feeds"}
  /\ CorpusInit /\ (world # NoWorld <=> scene = "corpus")
  /\ IF scene = "feeds" THEN FeedInit ELSE NoFeeds

CollectionNext ==
  /\ UNCHANGED scene
  /\ \/ scene = "corpus" /\ CorpusNext /\ UNCHANGED feedVars
     \/ scene = "feeds" /\ FeedNext /\ UNCHANGED corpusVars

\* The fairness of both; nothing of the other's scene is enabled.
CollectionSpec ==
  /\ CollectionInit /\ [][CollectionNext]_<<corpusVars, feedVars, scene>>
  /\ CorpusFairness
  /\ WF_feedVars(Tick)
  /\ \A d \in Daemons : WF_feedVars(Start(d)) /\ WF_feedVars(RunOnce(d))
=============================================================================
