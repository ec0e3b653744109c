---------------------------- MODULE MCCorpusBackfill ----------------------------
(* Two or three companies, and what a workflow is told to run: all stages,  *)
(* those from one on, or the financials or metrics from a position on.      *)
EXTENDS CorpusBackfill

Company(exposes, required, newest, kind, prices, candles, broken) ==
  [exposes |-> exposes, required |-> required, newest |-> newest, lag |-> 40, kind |-> kind,
   bars |-> prices, candles |-> candles, broken |-> broken]

Mature == Company(3, 2, 60, "industry", "none", TRUE, 0)
Recent == Company(1, 1, 60, "industry", "none", TRUE, 0)
Bank == Company(3, 2, 60, "bank", "yahoo", TRUE, 0)
Late == Company(2, 2, 210, "industry", "yahoo", TRUE, 0)
Dormant == Company(2, 1, 300, "industry", "yahoo", FALSE, 0)
Silent == Company(0, 2, 60, "bank", "none", FALSE, 0)
Unreadable == Company(3, 2, 60, "industry", "yahoo", TRUE, 2)

Whole == <<"universe", "mappings", "market_context", "market_history",
           "financials", "peer_metrics", "readiness">>
From(i) == [stages |-> SubSeq(Whole, i, 7), from |-> 0]
Financials(cursor) == [stages |-> <<"financials">>, from |-> cursor]
PeerMetrics == [stages |-> <<"peer_metrics">>, from |-> 0]

World(companies, corpus, free) ==
  [companies |-> companies, workflows |-> [corpus |-> corpus, free |-> free]]

MCWorlds ==
  {World(c, {From(1), From(6)}, {}) : c \in {<<Mature, Bank>>, <<Mature, Dormant>>}}
  \cup {World(c, {}, {Financials(0), Financials(1), PeerMetrics}) :
      c \in {<<Late, Mature>>, <<Silent, Mature, Mature>>, <<Recent, Mature, Mature>>,
             <<Mature, Unreadable, Bank>>}}
  \cup {World(<<Mature, Bank>>, {From(5)}, {Financials(0)})}

MCJobs == {"corpus", "free"}
MCMinCoverage == [corpus |-> 100, free |-> 25]
=============================================================================
