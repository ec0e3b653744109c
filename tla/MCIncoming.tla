------------------------------ MODULE MCIncoming ------------------------------
(* What comes in from outside, a scene at a time: the official feeds, which *)
(* every user shares, one user's connection to the broker and the quotes it *)
(* brings, or the documents and pages that are evidence on one security.    *)
EXTENDS MCOfficialFeeds, LiveQuotes, MCEvidence

NoEvidence == Scene(<<>>, <<>>, <<1>>, {}, {}, FALSE)
EvidenceScenes == MCScenes \cup {NoEvidence}

VARIABLE scene

IncomingInit ==
  /\ scene \in {"feeds", "quotes", "evidence"}
  /\ FeedInit
  /\ QuotesInit /\ connection.of = (IF scene = "quotes" THEN 1 ELSE Nothing)
  /\ CatalogInit /\ (setting # NoEvidence <=> scene = "evidence")

IncomingNext ==
  /\ UNCHANGED scene
  /\ \/ scene = "feeds" /\ FeedNext /\ UNCHANGED <<quoteVars, catalogVars>>
     \/ scene = "quotes" /\ QuotesNext /\ UNCHANGED <<feedVars, catalogVars>>
     \/ scene = "evidence" /\ CatalogNext /\ UNCHANGED <<feedVars, quoteVars>>

IncomingSpec == IncomingInit /\ [][IncomingNext]_<<feedVars, quoteVars, catalogVars, scene>>
=============================================================================
