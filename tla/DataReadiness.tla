----------------------------- MODULE DataReadiness -----------------------------
(***************************************************************************)
(* The data contracts of production research: the listing-age policies of  *)
(* financial and market history, the comparable-metric rule, the corpus    *)
(* gate and the contract of the sixteen agents.  The module has no state:  *)
(* StockPreparation runs the contracts on one security, Decisions on       *)
(* tables of cases.  A date is its age in days, a count of rows a number.  *)
(***************************************************************************)
EXTENDS Integers, FiniteSets

Unknown == 1000000000              \* the age of a date that is not there

Clamp(low, high, n) == IF n < low THEN low ELSE IF n > high THEN high ELSE n

-----------------------------------------------------------------------------
(* How much history a listing of this age can be asked for.                *)
RequiredPeriods(listed) ==
  IF listed = Unknown THEN 8
  ELSE Clamp(1, 8, Clamp(0, Unknown, listed - 60) \div 91 + 1)

RecentListing(listed) == listed # Unknown /\ listed < 365

RequiredBars(listed) ==
  IF ~RecentListing(listed) THEN 200
  ELSE Clamp(1, 200, (Clamp(0, Unknown, listed) * 55) \div 100 + 1)

(* A financial history h: listed, periods, types, latest.  A period that   *)
(* ends after the evaluation is not an error but an exception.             *)
FinancialRaises(h) == h.latest < 0

FinancialErrors(h) ==
  {e \in {"periods", "types", "latest"} :
    \/ e = "periods" /\ h.periods < RequiredPeriods(h.listed)
    \/ e = "types"   /\ h.types < 6
    \/ e = "latest"  /\ h.latest > 200}

FinancialComplete(h) == FinancialErrors(h) = {}
FinancialLimited(h) == FinancialComplete(h) /\ RequiredPeriods(h.listed) < 8

MarketErrorsOfListed(h) ==
  {e \in {"bars", "last", "first"} :
    /\ h.listed # Unknown
    /\ \/ e = "bars"  /\ h.bars < RequiredBars(h.listed)
       \/ e = "last"  /\ h.last > 7
       \/ e = "first" /\ RecentListing(h.listed) /\ (h.first = Unknown \/ h.listed - h.first > 10)}

(* A market history h: listed, bars, first, last.                          *)
MarketErrors(h) ==
  {e \in {"bars", "last", "first"} :
    \/ e = "bars"  /\ h.bars < RequiredBars(h.listed)
    \/ e = "last"  /\ h.last > 7
    \/ e = "first" /\ RecentListing(h.listed) /\ (h.first = Unknown \/ h.listed - h.first > 10)}

MarketComplete(h) == MarketErrors(h) = {}
Computable(h) == h.bars >= 30

(* A metric counts when it is comparable, recent, checksummed and approved *)
(* and its provenance is that of its kind: derived metrics name the        *)
(* sources they come from.                                                 *)
Comparable == {"revenue_growth", "ebitda_margin", "roce", "pe", "pb", "ev_ebitda"}

Counts(m) ==
  /\ m.name \in Comparable
  /\ m.age <= 400
  /\ m.checksum
  /\ m.approved
  /\ IF m.derived THEN m.provenance = "derived_from_source_linked_inputs" /\ m.upstream > 0
                  ELSE m.provenance \in {"official_source", "licensed_or_approved"}

PeerComplete(metrics) == Cardinality({m.name : m \in {n \in metrics : Counts(n)}}) >= 3

AcceptedTaxonomies(policy) ==
  {"NSE_INDICES_4_TIER"} \cup
  (IF policy = "nse_sector_or_better" THEN {"NSE_TOTAL_MARKET_SECTOR_ONLY"} ELSE {})

(* A security s: sector, industry, taxonomy, and the source its            *)
(* classification names.                                                   *)
Classified(s, policy) ==
  /\ s.sector
  /\ s.industry \/ s.taxonomy = "NSE_TOTAL_MARKET_SECTOR_ONLY"
  /\ s.taxonomy \in AcceptedTaxonomies(policy)
  /\ s.official
  /\ s.sourceApproved /\ s.checksumMatches

-----------------------------------------------------------------------------
(* The corpus k: its size, its rows and those with a source per table, the *)
(* sources that look synthetic, the enabled feeds without an approval.     *)
Tables == {"financial_facts", "corporate_events", "market_bars", "benchmark_bars",
           "macro_observations", "security_metrics"}

DataErrors(k, least) ==
  (IF k.universe < least THEN {"universe"} ELSE {})
  \cup (IF k.nonproduction > 0 THEN {"nonproduction"} ELSE {})
  \cup (IF k.unapproved > 0 THEN {"unapproved"} ELSE {})
  \cup {t \in Tables : k.rows[t] # 0 /\ k.sourced[t] < k.rows[t]}

DataReady(k, least) == DataErrors(k, least) = {}

(* What the corpus gate only warns of: here a date that is not there is    *)
(* no age at all.                                                          *)
Stale(age, limit) == age # Unknown /\ age > limit

DataWarnings(k) ==
  {t \in Tables : k.rows[t] = 0}
  \cup {t \in {"financial_facts", "market_bars", "security_metrics"} :
          k.rows[t] > 0 /\ k.universe > 0 /\ k.covered[t] < k.universe}
  \cup {t \in Tables \ {"security_metrics"} : k.rows[t] > 0 /\ Stale(k.latest[t],
          CASE t = "financial_facts" -> 200 [] t = "corporate_events" -> 90
            [] t = "macro_observations" -> 45 [] OTHER -> 7)}
  \cup (IF k.instruments < k.universe THEN {"instruments"} ELSE {})
  \cup (IF k.chunks = 0 THEN {"evidence"} ELSE {})
  \cup (IF k.sources > 0 /\ k.chunks > 0 /\ k.embedded = 0 THEN {"embeddings"} ELSE {})
  \cup (IF k.feeds = 0 THEN {"feeds"} ELSE {})

-----------------------------------------------------------------------------
(* The contract of the agents.  a is the coverage of a universe (of one    *)
(* security in a research request), k the corpus, s the settings.          *)
Specialists ==
  {"entity", "market", "financials", "filings", "earnings", "news", "web", "industry",
   "macro", "valuation", "technical", "sentiment", "risk", "validator"}
Agents == Specialists \cup {"orchestrator", "synthesis"}

GlobalErrors(k) ==
  (IF k.nonproduction > 0 THEN {"nonproduction"} ELSE {})
  \cup {t \in Tables : k.rows[t] > 0 /\ k.sourced[t] # k.rows[t]}
  \cup (IF k.unapproved > 0 THEN {"unapproved"} ELSE {})

Universal == {"mapped", "classified", "financial", "filing", "earnings", "technical", "peer"}

(* A security without a bar of its own is measured by the corpus.          *)
LatestBar(a, k) == IF a.bar # Unknown THEN a.bar ELSE k.latest["market_bars"]

Holds(r, a, k, s, least) ==
  CASE r \in Universal -> a.total > 0 /\ a.covered[r] = a.total
    [] r = "universe" -> a.total >= least
    [] r = "benchmarks" -> a.benchmarks
    [] r = "macro" -> a.macro
    [] r = "market_fresh" -> LatestBar(a, k) <= 7
    [] r = "benchmark_fresh" -> k.latest["benchmark_bars"] <= 7
    [] r = "macro_fresh" -> k.latest["macro_observations"] <= 45
    [] r = "web" -> s.external /\ s.tavily
    [] r = "sources" -> k.sources > 0
    [] r = "chunks" -> k.chunks > 0

Requirements ==
  [entity     |-> {"universe", "mapped"},
   market     |-> {"mapped", "technical", "benchmarks", "market_fresh", "benchmark_fresh"},
   financials |-> {"financial"},
   filings    |-> {"filing"},
   earnings   |-> {"financial", "earnings"},
   news       |-> {"web"},
   web        |-> {"web"},
   industry   |-> {"classified", "peer"},
   macro      |-> {"macro", "macro_fresh", "benchmarks"},
   valuation  |-> {"financial", "peer", "technical"},
   technical  |-> {"technical", "benchmarks", "market_fresh"},
   sentiment  |-> {"web"},
   risk       |-> {"financial", "filing", "web"},
   validator  |-> {"sources", "chunks"}]

SpecialistErrors(g, a, k, s, least) ==
  GlobalErrors(k) \cup {r \in Requirements[g] : ~Holds(r, a, k, s, least)}

AgentErrors(g, a, k, s, least) ==
  IF g \in Specialists THEN SpecialistErrors(g, a, k, s, least)
  ELSE GlobalErrors(k) \cup {h \in Specialists : SpecialistErrors(h, a, k, s, least) # {}}

BlockingAgents(a, k, s, least) == {g \in Agents : AgentErrors(g, a, k, s, least) # {}}

(* No agent is blocked: the two others ask for nothing but the specialists. *)
AgentsReady(a, k, s, least) ==
  GlobalErrors(k) = {} /\ \A g \in Specialists : \A r \in Requirements[g] :
                            Holds(r, a, k, s, least)

(* What an agent may say of its own limits.                                *)
LlmEnriched == {"filings", "earnings", "news", "web", "industry", "sentiment", "risk", "synthesis"}

AgentWarnings(g, a, s) ==
  (IF g \in LlmEnriched /\ ~s.llm THEN {"deterministic"} ELSE {})
  \cup (IF g = "market" /\ ~s.live THEN {"stored_market"} ELSE {})
  \cup (IF g \in {"market", "technical", "valuation"} /\ a.limitedMarket > 0
        THEN {"few_sessions"} ELSE {})
  \cup (IF g \in {"financials", "earnings", "valuation", "risk"} /\ a.limitedFinancial > 0
        THEN {"few_periods"} ELSE {})

-----------------------------------------------------------------------------
(* One security: the same contract over a universe of one, and whether a   *)
(* financial history is all that it lacks.                                 *)
SecurityReady(a, k, s) == AgentsReady(a, k, s, 1)

WithFinancials(a) ==
  [a EXCEPT !.covered = [r \in Universal |->
      IF r \in {"financial", "filing", "earnings"} THEN a.total ELSE a.covered[r]]]

PreparationRequired(a, k, s) ==
  a.covered["financial"] = 0 /\ SecurityReady(WithFinancials(a), k, s)

(* The corpus gate of the whole universe, in production only.              *)
CorpusOpen(production, a, k, s) ==
  production => DataReady(k, 1000) /\ AgentsReady(a, k, s, 1000)
=============================================================================
