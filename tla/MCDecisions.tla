------------------------------ MODULE MCDecisions ------------------------------
(* The cases TLC asks: for every gate a complete file and all files that    *)
(* lack up to two keys or have one of another value; settings with all sets *)
(* of keys and free routes; coverages of one security and of a universe.    *)
EXTENDS Decisions, TLC, SequencesExt

OfGate(g, lacking, extra) == [about |-> "evidence", gate |-> g, lacking |-> lacking, extra |-> extra]

EvidenceOf(g) ==
  UNION {{OfGate(g, {p, q}, {}) : p \in ReadBy(g, "join"), q \in AllReadBy(g)},
         {OfGate(g, {p}, {}) : p \in AllReadBy(g)},
         {OfGate(g, {}, xs) : xs \in {{}, {"password"}, {"service_role_secret"}}}}

SomeEvidence == [i \in 1..Cardinality(EvidenceGateNames) |-> EvidenceOf(SetToSeq(EvidenceGateNames)[i])]

Base ==
  [production |-> TRUE, database |-> TRUE, auth |-> TRUE, https |-> TRUE, redirectHttps |-> TRUE,
   llm |-> TRUE, keys |-> {}, freeRoutes |-> {}, freeOnly |-> TRUE, multimodal |-> FALSE,
   audio |-> FALSE, multimodalModel |-> TRUE, audioModel |-> TRUE, semantic |-> FALSE,
   embeddings |-> TRUE, live |-> FALSE, upstox |-> Upstox, fernet |-> TRUE, telemetry |-> FALSE,
   posthog |-> TRUE, commercial |-> TRUE, requireFree |-> TRUE,
   scopes |-> {[name |-> "market:nse", wellFormed |-> TRUE], [name |-> "nse", wellFormed |-> FALSE]},
   external |-> TRUE, tavily |-> TRUE]

Toggled ==
  {Base, [Base EXCEPT !.multimodal = TRUE], [Base EXCEPT !.audio = TRUE],
   [Base EXCEPT !.multimodal = TRUE, !.multimodalModel = FALSE],
   [Base EXCEPT !.llm = FALSE], [Base EXCEPT !.llm = FALSE, !.multimodal = TRUE],
   [Base EXCEPT !.llm = FALSE, !.audio = TRUE], [Base EXCEPT !.freeOnly = FALSE],
   [Base EXCEPT !.live = TRUE], [Base EXCEPT !.live = TRUE, !.upstox = Upstox \ {"upstox_redirect_uri"}],
   [Base EXCEPT !.live = TRUE, !.fernet = FALSE], [Base EXCEPT !.redirectHttps = FALSE],
   [Base EXCEPT !.external = FALSE], [Base EXCEPT !.tavily = FALSE]}

SomeSettings ==
  <<{[about |-> "settings", settings |-> [c EXCEPT !.keys = ks, !.freeRoutes = fs]] :
     c \in Toggled, ks \in SUBSET LlmProviders, fs \in SUBSET LlmProviders}>>

CleanCorpus ==
  [universe |-> 1, nonproduction |-> 0, unapproved |-> 0, rows |-> [t \in Tables |-> 5],
   sourced |-> [t \in Tables |-> 5], latest |-> [t \in Tables |-> 1], sources |-> 1, chunks |-> 1]

SomeCorpora ==
  {CleanCorpus, [CleanCorpus EXCEPT !.nonproduction = 1], [CleanCorpus EXCEPT !.unapproved = 1],
   [CleanCorpus EXCEPT !.chunks = 0], [CleanCorpus EXCEPT !.latest["market_bars"] = 9],
   [CleanCorpus EXCEPT !.latest["benchmark_bars"] = Unknown],
   [CleanCorpus EXCEPT !.latest["macro_observations"] = 46]}
  \cup {[CleanCorpus EXCEPT !.sourced[t] = 4] : t \in Tables}
  \cup {[CleanCorpus EXCEPT !.sourced[t] = 0, !.rows[t] = 0] : t \in Tables}

Histories ==
  {[listed |-> l, bars |-> b, first |-> f, last |-> n] :
     l \in {Unknown, 40}, b \in {0, 23, 200}, f \in {Unknown, 35}, n \in {3, 8, Unknown}}
NoHistory(h) == h.bars = 0 <=> h.last = Unknown

QuietHealth == [running_jobs |-> 0, running_ingestion |-> 0, feeds |-> 0]
NoLive == [subscriptions |-> 0, leases |-> 0, fresh |-> 0, stale |-> 0]

(* The coverage of one security, whose prices are those of history m.       *)
OfSecurity(present, m) ==
  [total |-> 1,
   covered |-> [r \in Universal |-> IF r = "technical" THEN IF MarketComplete(m) THEN 1 ELSE 0
                                    ELSE IF r \in present THEN 1 ELSE 0],
   benchmarks |-> TRUE, macro |-> TRUE, bar |-> m.last]

Fresh == [listed |-> Unknown, bars |-> 200, first |-> 35, last |-> 3]

Approval == [status |-> "approved", reference |-> TRUE, expired |-> FALSE]

Case(least, k, a, m, c) ==
  [about |-> "coverage", least |-> least, corpus |-> k, agents |-> a, market |-> m, settings |-> c,
   health |-> QuietHealth, live |-> NoLive, approvals |-> ("market:nse" :> Approval)]

SomeCoverage ==
  <<{Case(1, k, OfSecurity(present, m), m, Base) :
            k \in {CleanCorpus, [CleanCorpus EXCEPT !.chunks = 0]},
            present \in SUBSET (Universal \ {"technical"}), m \in {h \in Histories : NoHistory(h)}},
         {Case(1, k, OfSecurity(Universal \ {"peer"}, m), m, Base) :
            k \in SomeCorpora, m \in {h \in Histories : NoHistory(h)}},
         {Case(1000, [k EXCEPT !.universe = n],
               [total |-> n, covered |-> [r \in Universal |-> IF r \in present THEN n ELSE n - 1],
                benchmarks |-> b, macro |-> o, bar |-> Unknown], Fresh, c) :
            k \in SomeCorpora, n \in {999, 1000}, b \in BOOLEAN, o \in BOOLEAN,
            present \in {Universal} \cup {Universal \ {r} : r \in Universal},
            c \in {Base, [Base EXCEPT !.tavily = FALSE]}}>>


Keyed == [Base EXCEPT !.keys = {"groq"}, !.freeRoutes = {"groq"}]

(* A universe that is whole, with one thing that stops the launch.          *)
WholeUniverse ==
  Case(1000, [CleanCorpus EXCEPT !.universe = 1000],
       [total |-> 1000, covered |-> [r \in Universal |-> 1000], benchmarks |-> TRUE, macro |-> TRUE,
        bar |-> Unknown], Fresh, Keyed)

SomeLaunches ==
  {WholeUniverse} \cup
  {[WholeUniverse EXCEPT !.settings = c] :
     c \in {[Keyed EXCEPT !.commercial = FALSE], [Keyed EXCEPT !.freeOnly = FALSE], [Keyed EXCEPT !.scopes = {}],
            [Keyed EXCEPT !.production = FALSE], [Keyed EXCEPT !.live = TRUE]}} \cup
  {[WholeUniverse EXCEPT !.corpus = [k EXCEPT !.universe = 1000]] : k \in SomeCorpora} \cup
  {[WholeUniverse EXCEPT !.agents.covered[r] = 999] : r \in Universal} \cup
  {[WholeUniverse EXCEPT !.approvals = a] :
     a \in {<<>>, "market:nse" :> [Approval EXCEPT !.expired = TRUE],
            "market:nse" :> [Approval EXCEPT !.status = "pending"]}} \cup
  {[WholeUniverse EXCEPT !.settings.live = TRUE, !.live = l] :
     l \in [subscriptions : {0, 1}, leases : {0, 1}, fresh : {0, 1}, stale : {0, 1}]} \cup
  {[WholeUniverse EXCEPT !.health[e] = 1] : e \in DOMAIN QuietHealth}

Accepted(id, security, sector) ==
  [id |-> id, security |-> security, sector |-> sector, nonproduction |-> 0, coverage |-> 50,
   has |-> [e \in {"completed", "report", "validator", "synthesis", "claims", "validated", "linked",
                   "sources"} |-> TRUE]]

(* Five companies of four sectors, the fifth in the sector of the first.    *)
OfFive(fifth) ==
  {Accepted("j1", "s1", "banks"), Accepted("j2", "s2", "energy"), Accepted("j3", "s3", "steel"),
   Accepted("j4", "s4", "autos"), fifth}
Fifth == Accepted("j5", "s5", "banks")

(* Releases: a good one, with one or two deviations.                        *)
GoodRelease ==
  [about |-> "release", url |-> [secure |-> TRUE, loopback |-> FALSE, origin |-> TRUE],
   allowHttp |-> FALSE, settings |-> Keyed, token |-> TRUE,
   database |-> [connected |-> TRUE, extension |-> TRUE, index |-> TRUE, columns |-> TRUE,
                 constraint |-> TRUE, missingTables |-> {}, openTables |-> {}, missingPolicies |-> {}],
   requested |-> {"j1", "j2", "j3", "j4", "j5"}, jobs |-> OfFive(Fifth),
   answers |-> [health |-> 200, status |-> "ok", databaseHealthy |-> "yes", ready |-> 200,
                runtimeReady |-> TRUE, agents |-> 200, roles |-> 16, count |-> 16, auth |-> 200,
                data |-> 200, nonproduction |-> 0, unapproved |-> 0, corpusReady |-> TRUE],
   owner |-> "u1", other |-> "u2", otherJob |-> 404,
   history |-> [status |-> 200, wellFormed |-> TRUE, jobs |-> {"j7"}],
   statuses |-> <<200, 304>>, failing |-> {}]

TargetsOf(r) ==
  {[r EXCEPT !.url = u, !.allowHttp = a] :
     u \in [secure : BOOLEAN, loopback : BOOLEAN, origin : BOOLEAN], a \in BOOLEAN}

Deviations(r) ==
  {r, [r EXCEPT !.token = FALSE], [r EXCEPT !.settings.live = TRUE], [r EXCEPT !.settings.keys = {}],
   [r EXCEPT !.database.openTables = {"users"}], [r EXCEPT !.database.connected = FALSE],
   [r EXCEPT !.requested = {}], [r EXCEPT !.requested = @ \cup {"j9"}],
   [r EXCEPT !.jobs = OfFive([Fifth EXCEPT !.security = "s1"])], [r EXCEPT !.jobs = OfFive([Fifth EXCEPT !.sector = ""])],
   [r EXCEPT !.jobs = {[j EXCEPT !.sector = IF @ = "autos" THEN "banks" ELSE @] : j \in OfFive(Fifth)}],
   [r EXCEPT !.answers.corpusReady = FALSE], [r EXCEPT !.answers.roles = 15],
   [r EXCEPT !.answers.databaseHealthy = "absent"], [r EXCEPT !.other = "u1"], [r EXCEPT !.other = ""],
   [r EXCEPT !.otherJob = 403], [r EXCEPT !.otherJob = 200], [r EXCEPT !.history.jobs = {"j1"}],
   [r EXCEPT !.history.wellFormed = FALSE], [r EXCEPT !.statuses = <<200, 503>>]}
  \cup {[r EXCEPT !.failing = {s}] : s \in {"corpus_readiness", "operations_health", "commercial_launch"}}
  \cup {[r EXCEPT !.jobs = OfFive([Fifth EXCEPT !.coverage = n])] :
           n \in {Unknown, 49}}
  \cup {[r EXCEPT !.jobs = OfFive([Fifth EXCEPT !.has[e] = FALSE])] :
           e \in {"completed", "linked", "sources"}}

SomeReleases == <<TargetsOf(GoodRelease), UNION {Deviations(r) : r \in Deviations(GoodRelease)}>>
-----------------------------------------------------------------------------
SomePlans == <<{[about |-> "plan", mode |-> m, event |-> e] : m \in Modes, e \in DOMAIN EventPlan}>>

(* Facts that are absent, zero, negative or positive, for the inputs of one *)
(* metric at a time; the others are positive.                               *)
Ordinary ==
  [revenue |-> {3}, previous_revenue |-> {2}, ebitda |-> {2}, pat |-> {1}, cfo |-> {1},
   total_debt |-> {5}, cash |-> {1}, ebit |-> {2}, interest_expense |-> {1}, total_assets |-> {7},
   current_liabilities |-> {2}, receivables |-> {1}, inventory |-> {1}, payables |-> {1}, cogs |-> {2}]
Values == {{}, {0}, {-2}, {2}}

SomeFacts ==
  <<UNION {{[about |-> "facts", facts |-> [k \in DOMAIN Ordinary |-> IF k \in DOMAIN v THEN v[k] ELSE Ordinary[k]]] :
            v \in [keys -> Values]} :
         keys \in {{"revenue", "previous_revenue", "ebitda"}, {"pat", "cfo", "revenue"},
                   {"total_debt", "cash", "ebitda"}, {"ebit", "interest_expense"},
                   {"ebit", "total_assets", "current_liabilities"},
                   {"receivables", "inventory", "payables", "cogs"}, {"receivables", "revenue", "cogs"}}}>>

Sources ==
  [filing |-> [type |-> "exchange_filing", uri |-> "f", priority |-> 1, freshness |-> "periodic"],
   market |-> [type |-> "market_data", uri |-> "m", priority |-> 2, freshness |-> "live"],
   news |-> [type |-> "news", uri |-> "n", priority |-> 3, freshness |-> "near_live"],
   blog |-> [type |-> "web", uri |-> "b", priority |-> 3, freshness |-> "unknown"],
   ai |-> [type |-> "ai_extraction", uri |-> "f", priority |-> 4, freshness |-> "unknown"]]

ClaimOf(agent, type, evidence, confidence, materiality, metric, value, unit, current, recomputed) ==
  [agent |-> agent, type |-> type, evidence |-> evidence, confidence |-> confidence,
   materiality |-> materiality, metric |-> metric, value |-> value, unit |-> unit, period |-> "fy",
   current |-> current, recomputed |-> recomputed, status |-> "pending", uncorroborated |-> FALSE]

(* Single claims of every kind, and groups of three about one metric.       *)
Lone ==
  {ClaimOf(a, t, e, n, w, Unspecified, {}, "ratio", u, {}) :
     a \in {"financials", "news"}, t \in {"fact", "inference", "scenario", "risk", "catalyst"},
     e \in {{}, {"gone"}, {"ai"}, {"news"}, {"news", "blog"}, {"filing"}, {"ai", "blog"}},
     n \in {50, 90}, w \in {-1, 90}, u \in BOOLEAN}

Metric ==
  {ClaimOf("financials", "calculation", e, 99, -1, "roce", v, u, FALSE, r) :
     e \in {{"filing"}, {"market"}, {"news"}}, v \in {{1}, {2}},
     u \in {"ratio", "lakh", "odd"}, r \in {{}, {1}}}
  \cup {ClaimOf("earnings", "fact", {"blog"}, 60, -1, "roce", {v}, "percent", FALSE, {}) : v \in {100, 200}}
  \cup {ClaimOf("web", "fact", {"news"}, 60, -1, "roce", {v}, "usd_lakh", FALSE, {}) : v \in {1, 2}}

SomeClaims ==
  <<{[about |-> "claims", evidence |-> Sources, claims |-> <<c>>] : c \in Lone},
         {[about |-> "claims", evidence |-> Sources, claims |-> <<c, d>>] : c \in Metric, d \in Metric},
         {[about |-> "claims", evidence |-> Sources, claims |-> <<c, d, e>>] :
            c \in {m \in Metric : m.recomputed = {} /\ m.unit # "odd"},
            d \in {m \in Metric : m.unit = "ratio"}, e \in {m \in Metric : m.agent # "financials"}}>>

(* Inputs of all methods, and fewer, with a metric below zero for each.     *)
Given ==
  [base_fcf |-> {9}, growth |-> {10}, wacc |-> {24}, terminal_growth |-> {8}, net_debt |-> {40},
   shares |-> {2}, eps |-> {3}, target_pe |-> {15}, book |-> {20}, target_pb |-> {2}, roe |-> {30},
   cost_of_equity |-> {26}, embedded_value |-> {9}, target_pev |-> {2}, ebitda |-> {12},
   target_ev_ebitda |-> {8}, sales |-> {30}, target_ev_sales |-> {3}, nav |-> {50}, sotp_value |-> {60},
   distribution |-> {6}, target_yield |-> {14}, holding_discount |-> {20}, nav_discount |-> {}]

Varied ==
  {Given, [Given EXCEPT !.nav_discount = {10}, !.holding_discount = {}]}
  \cup {[Given EXCEPT ![k] = {-n : n \in @}] :
          k \in {"base_fcf", "growth", "net_debt", "shares", "eps", "book", "ebitda", "sales", "nav",
                 "sotp_value", "distribution", "target_yield", "roe", "embedded_value"}}
  \cup {[Given EXCEPT !.wacc = {w}, !.terminal_growth = {t}] : w \in {6, 8, 9, 10, 20}, t \in {0, 1, 8}}
  \cup {[Given EXCEPT !.roe = {w}, !.cost_of_equity = {t}] : w \in {6, 8, 12}, t \in {8, 9, 11}}

SomeValuations ==
  <<{[about |-> "valuation", family |-> f,
    inputs |-> [k \in DOMAIN d |-> IF k \in gone THEN {} ELSE d[k]]] :
     f \in DOMAIN Routes, d \in Varied,
     gone \in {{}, {"base_fcf"}, {"target_pb"}, {"target_pe", "wacc"}, {"nav", "sotp_value"},
               {"target_pb", "roe"}, {"target_pev"}, {"target_ev_ebitda"}, {"target_ev_sales"}}}>>

Sizes == {-180, -90, -75, 0, 74, 90, 180}
SomeMoves ==
  <<{[about |-> "move",
    moves |-> [stock |-> {s}, benchmark |-> b, sector |-> c,
               relative_benchmark |-> {s - n : n \in b}, relative_sector |-> {s - n : n \in c}]] :
     s \in Sizes, b \in {{}} \cup {{n} : n \in Sizes}, c \in {{}} \cup {{n} : n \in Sizes}}>>

(* Two years of a business that differ in what the scores look at.          *)
Year == [pat |-> 2, cfo |-> 3, assets |-> 20, debt |-> 6, current_assets |-> 8, current_liabilities |-> 4,
         shares |-> 5, revenue |-> 30, cogs |-> 20, retained |-> 4, ebit |-> 3, market_cap |-> 40,
         liabilities |-> 10, depreciation |-> 2, ppe |-> 9, receivables |-> 5, sga |-> 3]
Years == {Year} \cup {[Year EXCEPT ![k] = n] : k \in DOMAIN Year, n \in {0, 1, 7, -3}}
SomeScores ==
  <<{[about |-> "scores", financial |-> f, now |-> y, before |-> z] :
       f \in BOOLEAN, y \in Years, z \in {Year, [Year EXCEPT !.assets = 0], [Year EXCEPT !.pat = 0]}}>>

SomeSignals ==
  <<{[about |-> "signals", filing |-> [source |-> o, section |-> s, words |-> w],
      governance |-> [pledge |-> p, auditor |-> a, downgrade |-> FALSE],
      economy |-> [usd_inr |-> e, brent |-> e, fii |-> {1000 * x : x \in e}],
      positive |-> n, negative |-> m] :
       o \in {"company_filing", "news"}, s \in {"auditor_resignation", "cfo_change", "credit_rating", "other"},
       w \in SUBSET {"auditor", "resign", "downgrade"}, p \in {{}, {25}}, a \in BOOLEAN,
       e \in {{}, {1}, {-3}}, n \in {0, 2, 3}, m \in {0, 2}}>>

ItemOf(event, uri, metric, title, words) ==
  [agent |-> "risk", type |-> "risk", event |-> event, uri |-> uri, metric |-> metric, title |-> title,
   statement |-> words]
Items ==
  {ItemOf(e, "u", m, t, w) : e \in {"", "e"}, m \in {"", "m"}, t \in {"", "t"}, w \in {"a", "b"}}
SomeChanges ==
  <<{[about |-> "changes", snapshots |-> {s}, current |-> {c, d}] :
       s \in {{i} : i \in Items} \cup {{}}, c \in Items, d \in Items},
    {[about |-> "changes", snapshots |-> {}, current |-> {c}] : c \in Items}>>

(* Facts of a company and of a bank, with one of them missing, of another  *)
(* unit, value, day or filing, and an older period of each.                *)
Filed(name, kind, day, value, unit) ==
  [name |-> name, kind |-> kind, day |-> day, value |-> value, unit |-> unit, source |-> "f",
   context |-> "c", row |-> 0, exact |-> TRUE]
Annual(name, day, value) == Filed(name, "annual", day, value, "INR")
Held(name, day, value) == Filed(name, "point_in_time", day, value, "INR")

CompanyFacts ==
  <<Annual("revenue", 730, 30), Annual("revenue", 365, 20), Filed("revenue", "quarterly", 819, 9, "INR"),
    Filed("revenue", "quarterly", 454, 7, "INR"), Annual("ebitda", 730, 6), Annual("profit_loss_for_the_period", 730, 3),
    Held("assets", 730, 50), Held("current_liabilities", 730, 10), Held("shareholders_funds", 730, 25),
    Annual("pbt", 730, 4), Annual("interest_expense", 730, 1), Annual("depreciation_expense", 730, 2),
    Filed("shares_outstanding", "point_in_time", 730, 10, "shares"), Held("assets", 821, 60)>>
BankFacts ==
  <<Annual("interest_income", 730, 20), Annual("interest_expense", 730, 12), Annual("interest_income", 365, 16),
    Annual("interest_expense", 365, 10), Held("capital", 730, 5), Held("reserves_and_surplus", 730, 15),
    Filed("shares_outstanding", "point_in_time", 730, 10, "shares"), Filed("roe_pct", "annual", 730, 14, "%"),
    Filed("basic_and_diluted_eps", "annual", 730, 2, "INR"), Annual("pat", 730, 3),
    Filed("nim_pct", "quarterly", 730, 3, "%"), Filed("aum", "quarterly", 730, 40, "INR"),
    Filed("aum", "quarterly", 365, 30, "INR"), Held("total_assets", 700, 90), Held("total_equity", 700, 18)>>

Revised(f) ==
  {f, [f EXCEPT !.unit = ""], [f EXCEPT !.unit = "inr_crore"], [f EXCEPT !.value = 0], [f EXCEPT !.value = -1],
   [f EXCEPT !.day = @ - 91], [f EXCEPT !.source = "g"], [f EXCEPT !.exact = FALSE]}
Table(facts) == {[facts[i] EXCEPT !.row = -i] : i \in DOMAIN facts}
FiledTables(facts) ==
  UNION {{Table([facts EXCEPT ![i] = f]) : f \in Revised(facts[i])} \cup {Table(RemoveAt(facts, i))} :
           i \in DOMAIN facts}
OlderOf(facts) ==
  {[f EXCEPT !.day = n, !.value = v, !.source = "h"] : f \in Range(facts), n \in {-1, 60}, v \in {0, 8}}

PeersOf(facts) ==
  {[about |-> "peer", facts |-> t, close |-> {[price |-> 7, day |-> 900]}, older |-> o] :
     t \in FiledTables(facts) \cup {Table([facts EXCEPT ![10].unit = "", ![11].unit = "inr_crore"])},
     o \in OlderOf(facts)}
SomePeers == <<PeersOf(CompanyFacts), PeersOf(BankFacts)>>

AllCases ==
  SomeEvidence \o SomeSettings \o SomeCoverage \o <<SomeLaunches>> \o SomePlans \o SomeFacts
    \o SomeClaims \o SomeValuations \o SomeMoves \o SomeReleases \o SomeScores \o SomeSignals
    \o SomeChanges \o SomePeers
=============================================================================
