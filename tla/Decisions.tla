------------------------------- MODULE Decisions -------------------------------
(***************************************************************************)
(* The rules of the gates and contracts, asked case by case: `case` is     *)
(* what a gate is given, `verdict` what it says.  The cases are those of   *)
(* MCDecisions: good inputs with a few deviations, and all combinations of *)
(* what interacts.                                                         *)
(***************************************************************************)
EXTENDS EvidenceGates, ReleaseGates, PeerMetrics, ClaimValidation, Valuation

CONSTANT Cases   \* a sequence of sets of cases

(* What each gate can be given.  A value that may be missing is a set of at *)
(* most one; counts are not negative, and no more than what they are of.   *)
AtMostOne(s) == \A x, y \in s : x = y
Optional == SUBSET Int

SettingsRecords ==
  [production : BOOLEAN, database : BOOLEAN, auth : BOOLEAN, https : BOOLEAN, redirectHttps : BOOLEAN,
   llm : BOOLEAN, keys : SUBSET LlmProviders, freeRoutes : SUBSET LlmProviders, freeOnly : BOOLEAN,
   multimodal : BOOLEAN, audio : BOOLEAN, multimodalModel : BOOLEAN, audioModel : BOOLEAN,
   semantic : BOOLEAN, embeddings : BOOLEAN, live : BOOLEAN, upstox : SUBSET Upstox, fernet : BOOLEAN,
   telemetry : BOOLEAN, posthog : BOOLEAN, commercial : BOOLEAN, requireFree : BOOLEAN,
   scopes : SUBSET [name : STRING, wellFormed : BOOLEAN], external : BOOLEAN, tavily : BOOLEAN]

CorpusRecords ==
  [universe : Nat, nonproduction : Nat, unapproved : Nat, rows : [Tables -> Nat],
   sourced : [Tables -> Nat], latest : [Tables -> Int], sources : Nat, chunks : Nat]
CoverageRecords ==
  [total : Nat, covered : [Universal -> Nat], benchmarks : BOOLEAN, macro : BOOLEAN, bar : Int]

(* A request for one security measures its own prices.                     *)
CoverageGiven(c) ==
  /\ c.least \in {1, 1000}
  /\ c.corpus \in CorpusRecords /\ \A t \in Tables : c.corpus.sourced[t] <= c.corpus.rows[t]
  /\ c.agents \in CoverageRecords /\ \A r \in Universal : c.agents.covered[r] <= c.agents.total
  /\ c.settings \in SettingsRecords /\ c.market.last \in Int
  /\ c.least = 1 => /\ c.agents.total = 1
                    /\ c.agents.covered["technical"] = IF MarketComplete(c.market) THEN 1 ELSE 0

FactRecords ==
  [revenue : Optional, previous_revenue : Optional, ebitda : Optional, pat : Optional, cfo : Optional,
   total_debt : Optional, cash : Optional, ebit : Optional, interest_expense : Optional,
   total_assets : Optional, current_liabilities : Optional, receivables : Optional,
   inventory : Optional, payables : Optional, cogs : Optional]

ClaimRecords ==
  [agent : STRING, type : STRING, evidence : SUBSET STRING, confidence : Int, materiality : Int,
   metric : STRING, value : Optional, unit : STRING, period : STRING, current : BOOLEAN,
   recomputed : Optional, status : STRING, uncorroborated : BOOLEAN]
EvidenceRecords == [type : STRING, uri : STRING, priority : 1..5, freshness : STRING]

ClaimsGiven(c) ==
  /\ c.claims \in Seq(ClaimRecords)
  /\ \A i \in DOMAIN c.claims : AtMostOne(c.claims[i].value) /\ IsFiniteSet(c.claims[i].evidence)
  /\ \A i \in DOMAIN c.evidence : c.evidence[i] \in EvidenceRecords

InputRecords ==
  [base_fcf : Optional, growth : Optional, wacc : Optional, terminal_growth : Optional,
   net_debt : Optional, shares : Optional, eps : Optional, target_pe : Optional, book : Optional,
   target_pb : Optional, roe : Optional, cost_of_equity : Optional, embedded_value : Optional,
   target_pev : Optional, ebitda : Optional, target_ev_ebitda : Optional, sales : Optional,
   target_ev_sales : Optional, nav : Optional, sotp_value : Optional, distribution : Optional,
   target_yield : Optional, holding_discount : Optional, nav_discount : Optional]

YearRecords ==
  [pat : Int, cfo : Int, assets : Int, debt : Int, current_assets : Int, current_liabilities : Int,
   shares : Int, revenue : Int, cogs : Int, retained : Int, ebit : Int, market_cap : Int,
   liabilities : Int, depreciation : Int, ppe : Int, receivables : Int, sga : Int]

SignalsGiven(c) ==
  /\ c.governance.auditor \in BOOLEAN
  /\ c.economy \in [usd_inr : Optional, brent : Optional, fii : Optional]
  /\ \A k \in DOMAIN c.economy : AtMostOne(c.economy[k])
  /\ c.positive \in Nat /\ c.negative \in Nat

MoveRecords ==
  [stock : Optional, benchmark : Optional, sector : Optional, relative_benchmark : Optional,
   relative_sector : Optional]
ItemRecords ==
  [agent : STRING, type : STRING, event : STRING, uri : STRING, metric : STRING, title : STRING,
   statement : STRING]

(* The facts of a company are finitely many, read in one order.            *)
FiledRecords ==
  [name : STRING, kind : STRING, day : Int, value : Int, unit : STRING, source : STRING,
   context : STRING, row : Int, exact : BOOLEAN]
PeerGiven(c) ==
  /\ c.facts \subseteq FiledRecords /\ IsFiniteSet(c.facts) /\ c.older \in FiledRecords
  /\ \A f, g \in c.facts : f.day = g.day /\ f.row = g.row => f = g

JobRecords ==
  [id : STRING, security : STRING, sector : STRING, nonproduction : Nat, coverage : Nat,
   has : [{"completed", "report", "validator", "synthesis", "claims", "validated", "linked",
           "sources"} -> BOOLEAN]]
ReleaseGiven(c) ==
  /\ c.url \in [secure : BOOLEAN, loopback : BOOLEAN, origin : BOOLEAN] /\ c.allowHttp \in BOOLEAN
  /\ c.jobs \subseteq JobRecords /\ IsFiniteSet(c.jobs)
  /\ c.failing \subseteq {"corpus_readiness", "operations_health", "commercial_launch"}

WellFormed(c) ==
  CASE c.about = "evidence" -> c.gate \in EvidenceGateNames /\ c.lacking \subseteq AllReadBy(c.gate)
    [] c.about = "settings" -> c.settings \in SettingsRecords
    [] c.about = "coverage" -> CoverageGiven(c)
    [] c.about = "plan" -> c.mode \in Modes /\ c.event \in DOMAIN EventPlan
    [] c.about = "facts" -> c.facts \in FactRecords /\ \A k \in DOMAIN c.facts : AtMostOne(c.facts[k])
    [] c.about = "claims" -> ClaimsGiven(c)
    [] c.about = "valuation" -> c.family \in DOMAIN Routes /\ c.inputs \in InputRecords
    [] c.about = "scores" -> /\ c.financial \in BOOLEAN
                             /\ c.now \in YearRecords /\ c.before \in YearRecords
    [] c.about = "signals" -> SignalsGiven(c)
    [] c.about = "move" -> c.moves \in MoveRecords
    [] c.about = "changes" -> /\ c.current \subseteq ItemRecords /\ AtMostOne(c.snapshots)
                              /\ \A s \in c.snapshots : s \subseteq ItemRecords
    [] c.about = "peer" -> PeerGiven(c)
    [] c.about = "release" -> ReleaseGiven(c)
    [] OTHER -> TRUE

ASSUME DecisionAssumption == \A i \in DOMAIN Cases : \A c \in Cases[i] : WellFormed(c)

VARIABLES case, verdict

decisionVars == <<case, verdict>>

Unasked == [asked |-> FALSE]

DecisionInit ==
  /\ \E i \in DOMAIN Cases : case \in Cases[i]
  /\ verdict = Unasked

(* The file of a case: complete but for the keys it lacks.                 *)
CompleteValue(key) ==
  CASE key = "railway_branch_strategy" -> "main_after_merge"
    [] key = "launch_decision" -> "conditional_go"
    [] key = "corpus_gate_status" -> "not_ready"
    [] key = "supabase_security_exception_status" -> "pending"
    [] key \in {"sentry_monitoring_status", "npm_audit_status"} -> "accepted_deferred"
    [] OTHER -> "good"

FileOf(lacking, extra, read) ==
  [plan |-> FALSE, given |-> TRUE, readable |-> TRUE, extra |-> extra,
   evidence |-> [p \in read |-> IF p \in lacking THEN "absent" ELSE CompleteValue(p[2])]]

AskEvidence ==
  /\ case.about = "evidence" /\ verdict = Unasked
  /\ \E file \in {FileOf(case.lacking, case.extra, AllReadBy(case.gate))} :
       verdict' = [asked |-> TRUE, exit |-> EvidenceGate(case.gate, file)]
  /\ UNCHANGED case

AskSettings ==
  /\ case.about = "settings" /\ verdict = Unasked
  /\ verdict' = [asked |-> TRUE, starts |-> Starts(case.settings),
                 audit |-> AuditErrors(case.settings), providers |-> ProvidersReady(case.settings),
                 routes |-> {p \in {"fast", "deep", "low_latency", "multimodal", "long_context"} :
                               Eligible(p, case.settings)}]
  /\ UNCHANGED case

AskCoverage ==
  /\ case.about = "coverage" /\ verdict = Unasked
  /\ verdict' = [asked |-> TRUE,
                 corpus |-> DataErrors(case.corpus, case.least),
                 blocked |-> BlockingAgents(case.agents, case.corpus, case.settings, case.least),
                 open |-> AgentsReady(case.agents, case.corpus, case.settings, case.least),
                 prepare |-> PreparationRequired(case.agents, case.corpus, case.settings),
                 actions |-> NextActions(case.agents, case.corpus, case.least),
                 manifest |-> ManifestExit(case.corpus, case.agents, case.settings, case.least),
                 command |-> AgentGateExit(case.corpus, case.agents, case.settings, case.least),
                 operations |-> OperationsReady(case.settings, case.corpus, case.agents,
                                                case.health, case.live),
                 commercial |-> CommercialReady(case.settings, case.corpus, case.agents,
                                                case.health, case.live, case.approvals)]
  /\ UNCHANGED case

AskPlan ==
  /\ case.about = "plan" /\ verdict = Unasked
  /\ verdict' = [asked |-> TRUE, quick |-> ResearchPlan(case.mode, "quick"),
                 deep |-> ResearchPlan(case.mode, "deep"),
                 event |-> EventPlan[case.event]]
  /\ UNCHANGED case

AskFacts ==
  /\ case.about = "facts" /\ verdict = Unasked
  /\ \E metrics \in {FinancialMetrics(case.facts)} :
       verdict' = [asked |-> TRUE, metrics |-> metrics, risks |-> FinancialRisks(metrics, {}),
                   recomputed |-> [name \in DOMAIN metrics |-> Recompute(Payload(name, case.facts))]]
  /\ UNCHANGED case

AskClaims ==
  /\ case.about = "claims" /\ verdict = Unasked
  /\ \E validated \in {Validate(case.claims, case.evidence)} :
       verdict' = [asked |-> TRUE, claims |-> validated, ok |-> ValidatorOk(validated),
                   repair |-> RepairTasks(validated), coverage |-> EvidenceCoverage(validated),
                   primary |-> PrimaryCoverage(validated, case.evidence),
                   thesis |-> Thesis(validated), catalysts |-> Catalysts(validated),
                   antithesis |-> AntiThesis(validated), watch |-> WatchItems(validated),
                   confidence |-> DataConfidence(validated, case.evidence),
                   belief |-> ThesisConfidence(validated, case.evidence)]
  /\ UNCHANGED case

AskValuation ==
  /\ case.about = "valuation" /\ verdict = Unasked
  /\ verdict' = IF Valued(case.family, case.inputs)
                 THEN [asked |-> TRUE, method |-> Chosen(case.family, case.inputs),
                       values |-> ValuationOf(case.family, case.inputs)]
                 ELSE [asked |-> TRUE, method |-> "none"]
  /\ UNCHANGED case

(* The same years in another unit of money: the shares are a number.       *)
InUnit(y, n) == [k \in DOMAIN y |-> IF k = "shares" THEN y[k] ELSE n * y[k]]

AskScores ==
  /\ case.about = "scores" /\ verdict = Unasked
  /\ verdict' = [asked |-> TRUE, scores |-> ForensicScores(case.financial, case.now, case.before)]
  /\ UNCHANGED case

AskSignals ==
  /\ case.about = "signals" /\ verdict = Unasked
  /\ verdict' = [asked |-> TRUE, risks |-> FilingRisks(case.filing) \cup GovernanceRisks(case.governance),
                 macro |-> MacroFlags(case.economy),
                 sentiment |-> Sentiment(case.positive, case.negative)]
  /\ UNCHANGED case

AskPeer ==
  /\ case.about = "peer" /\ verdict = Unasked
  /\ verdict' = [asked |-> TRUE, metrics |-> DerivePeerMetrics(case.facts, case.close),
                 later |-> DerivePeerMetrics(case.facts \cup {case.older}, case.close)]
  /\ UNCHANGED case

AskChanges ==
  /\ case.about = "changes" /\ verdict = Unasked
  /\ verdict' = [asked |-> TRUE, changes |-> WhatChanged(case.snapshots, case.current)]
  /\ UNCHANGED case

AskMove ==
  /\ case.about = "move" /\ verdict = Unasked
  /\ verdict' = [asked |-> TRUE, drivers |-> MoveDrivers(case.moves)]
  /\ UNCHANGED case

(* A release: what the first six stages found is given with the settings,  *)
(* the database and the jobs; the last three ask the deployment at `url`.  *)
StagesOk(r) ==
  [s \in {ReleaseStages[i] : i \in DOMAIN ReleaseStages} |->
     CASE s = "preflight" -> PreflightReady(r.settings, r.database)
       [] s = "real_company_acceptance" -> AcceptanceReady(r.requested, r.jobs, 5, 4)
       [] s = "provider_activation" -> ProvidersReady(r.settings)
       [] s = "deployment_smoke" -> SmokePasses(r.url, r.token, r.answers, TRUE)
       [] s = "auth_isolation" ->
            /\ ReleaseTarget(r.url, r.allowHttp)
            /\ IsolationPasses(r.owner, r.other, 200, r.otherJob, r.history, "j1")
       [] s = "load_probe" ->
            /\ ProbeAllowed(r.url, r.token, SafeEndpoints \ Protected, Len(r.statuses), 5)
            /\ ProbePasses(r.statuses, Len(r.statuses))
       [] OTHER -> s \notin r.failing]

AskRelease ==
  /\ case.about = "release" /\ verdict = Unasked
  /\ \E ok \in {StagesOk(case)}, built \in {CommandsBuilt(case.url, case.allowHttp, 1000, 60, 5)} :
       verdict' = [asked |-> TRUE, built |-> built, failed |-> IF built THEN FailedStage(ok) ELSE "built",
                   ready |-> built /\ ReleaseReady(ok)]
  /\ UNCHANGED case

DecisionNext ==
  \/ AskEvidence \/ AskSettings \/ AskCoverage
  \/ AskPlan \/ AskFacts \/ AskClaims \/ AskValuation \/ AskMove \/ AskRelease
  \/ AskScores \/ AskSignals \/ AskChanges \/ AskPeer
DecisionSpec == DecisionInit /\ [][DecisionNext]_decisionVars
-----------------------------------------------------------------------------
Asked(about) == case.about = about /\ verdict # Unasked

(* The agents of a plan are among those the orchestrator can run; the      *)
(* validator and the synthesis are no part of it.                          *)
PlansNameSpecialists ==
  Asked("plan") =>
    UNION {verdict[p].collect \cup verdict[p].analyze : p \in {"quick", "deep", "event"}} \subseteq Specialists

(* A file with everything a gate asks for passes it, its own secret filter *)
(* included, and one that lacks a key fails ("missing evidence fails       *)
(* closed"), but for a waiver that nothing needs, a count of warnings that *)
(* waivers cover, and three keys that the tests let pass: a source branch, *)
(* a number of services, and whether a paid fallback is enabled.           *)
Waivers == {"managed_platform_warnings_accepted", "pg_net_public_exception_status"}

EvidenceFailsClosed ==
  Asked("evidence") /\ case.extra = {} =>
    LET lacks == {p[2] : p \in case.lacking} IN
    verdict.exit = 0 <=>
      /\ lacks \subseteq Waivers \cup {"security_warn_count", "source_branch",
                                       "required_service_count", "paid_fallback_enabled"}
      /\ "security_warn_count" \in lacks => lacks \cap Waivers = {}

(* Settings that the provider gate accepts give every capability a route,  *)
(* also those it does not look at, and never keep the application from     *)
(* starting for want of a provider: the gate and the audit agree.          *)
ProviderGateCoversAudit ==
  Asked("settings") /\ verdict.providers =>
    /\ case.settings.llm => verdict.routes = {"fast", "deep", "low_latency", "multimodal", "long_context"}
    /\ verdict.audit \cap {"llm_provider_missing", "multimodal_gemini_missing", "audio_gemini_missing",
                           "live_market_credentials_missing"} = {}

(* The two copies of the provenance rules, of the corpus gate and of the   *)
(* agent contract, agree, and so do the commands of a release that stand   *)
(* on them: operations are ready only if manifest and agent gate are.      *)
ContractsAgree ==
  Asked("coverage") =>
    /\ (verdict.corpus \subseteq {"universe"}) <=> (GlobalErrors(case.corpus) = {})
    /\ verdict.open <=> verdict.blocked = {}
    /\ case.least = 1000 => /\ verdict.manifest = verdict.command
                            /\ verdict.operations => verdict.manifest = 0

(* A commercial launch that passes does so on a corpus and agents that the *)
(* earlier stages of the release pass as well, and on settings with which  *)
(* the application starts; a source that is not approved stops it.         *)
LaunchIsCovered ==
  Asked("coverage") /\ verdict.commercial =>
    /\ verdict.manifest = 0 /\ Starts(case.settings)
    /\ \E s \in case.settings.scopes : s.name \in DOMAIN case.approvals
    /\ \A s \in case.settings.scopes :
         s.wellFormed => s.name \in DOMAIN case.approvals /\ ~case.approvals[s.name].expired

(* The four checks of an address agree: an address with which the release  *)
(* is planned is one each stage accepts, unless it is not a bare origin;   *)
(* and one that a stage would send a token to is secure or the loopback.   *)
ReleaseTargetsAgree ==
  Asked("release") =>
    /\ verdict.built /\ case.url.origin =>
         /\ TargetAllowed(case.url) /\ ReleaseTarget(case.url, case.allowHttp)
         /\ ProbeAllowed(case.url, TRUE, SafeEndpoints, 60, 5)
    /\ TargetAllowed(case.url) => ReleaseTarget(case.url, TRUE)

(* A release that is ready has seen every stage: complete research of five *)
(* companies of four sectors (the minima of the command, which the release *)
(* gate leaves as they are), a service that is up, and a job that another  *)
(* user neither reads nor finds in the history.                            *)
ReleaseIsEarned ==
  Asked("release") =>
    /\ verdict.ready <=> (verdict.failed = "none")
    /\ verdict.ready =>
         /\ Cardinality(SecuritiesOf(case.jobs)) >= 5
         /\ Cardinality(SectorsOf(case.jobs)) >= 4
         /\ \A j \in case.jobs : j.coverage \notin 0..49 /\ j.nonproduction = 0
         /\ case.answers.corpusReady /\ case.owner # case.other
         /\ case.otherJob = 404 /\ "j1" \notin case.history.jobs
         /\ case.failing = {}

(* An agent is ready for one security only on a bar of its own that is at  *)
(* most seven days old, although the rule falls back to the latest bar of  *)
(* the corpus when the security has none.                                  *)
FreshOnItsOwn ==
  Asked("coverage") /\ case.least = 1 /\ {"market", "technical"} \cap verdict.blocked = {} =>
    case.market.last <= 7

(* When fetching the results is all that is said to be missing, the agents *)
(* that wait are those that read results, and those that wait for them.    *)
PreparationIsAboutResults ==
  Asked("coverage") /\ case.least = 1 /\ verdict.prepare =>
    verdict.blocked \subseteq
      {"financials", "filings", "earnings", "valuation", "risk", "orchestrator", "synthesis"}

(* The calculations of the financial agent and the recomputation of the    *)
(* validator are two pieces of code: for every claim the agent makes the   *)
(* validator can attempt the calculation and comes to the same value.      *)
RecomputationAgrees ==
  Asked("facts") => \A name \in DOMAIN verdict.metrics :
    LET metric == verdict.metrics[name]  again == verdict.recomputed[name] IN
    /\ metric = {} <=> again = {}
    /\ \A q \in metric, r \in again : SameQuotient(q, r)

(* Two claims of one metric and period that both reach the report do not   *)
(* contradict each other in whichever units the validator knows; one of an *)
(* unknown unit compares with none, and may stand beside those that agree. *)
(* A claim that is there without evidence is a scenario.                   *)
NoContradictionSurvives ==
  Asked("claims") => \A i \in Admitted(verdict.claims) :
    LET c == verdict.claims[i] IN
    /\ Linked(c, case.evidence) = {} => c.type = "scenario"
    /\ \A n \in Admitted(verdict.claims) :
         LET d == verdict.claims[n] IN
         c.metric # Unspecified /\ c.metric = d.metric /\ c.period = d.period =>
           Agree(ComparableValue(c) \cup ComparableValue(d))

(* A claim of great weight in the thesis or among the catalysts rests on a *)
(* primary source, on two sources, or on an extraction that is marked as   *)
(* one by its low confidence.                                              *)
HighImpactIsCorroborated ==
  Asked("claims") => \A i \in verdict.thesis \cup verdict.catalysts :
    LET c == verdict.claims[i] IN
    HighImpact(case.claims[i]) /\ Linked(c, case.evidence) # {} =>
      \/ HasPrimary(c, case.evidence)
      \/ Cardinality(DistinctSources(c, case.evidence)) >= 2
      \/ OnlyAi(c, case.evidence) /\ c.confidence <= 65

(* Inputs of the usual kind: what is multiplied is not negative, and rates *)
(* of discount and growth are a point apart at least.  (Closer than that   *)
(* the bull case is given a dearer discount than the base, and below zero  *)
(* growth for ever is better in the bear case.)                            *)
Usual(m, d, base) ==
  CASE m = "ev_ebitda" -> The(d.ebitda) * The(d.target_ev_ebitda) >= 0
    [] m = "dcf" -> /\ The(d.growth) >= -196 /\ The(d.terminal_growth) >= 0
                    /\ The(d.wacc) >= The(d.terminal_growth) + 2
    [] m = "residual_income" -> /\ base >= 0 /\ The(d.book) >= 0
                                /\ The(d.cost_of_equity) >= The(d.terminal_growth) + 2
    [] OTHER -> base >= 0

(* A bear case is not above the base, nor the base above the bull case, in *)
(* every method with inputs of the usual kind; it has what it needs.       *)
ScenariosOrdered ==
  Asked("valuation") /\ verdict.method # "none" =>
    LET v == verdict.values IN
    /\ Usual(verdict.method, case.inputs, v.base) => v.bear <= v.base /\ v.base <= v.bull
    /\ MissingInputs(verdict.method, case.inputs) = {}

Negative(m) == [k \in DOMAIN m |-> {-n : n \in m[k]}]

(* The same moves with the other sign have the same drivers with the other *)
(* direction.                                                              *)
Mirrored(d) == [d EXCEPT !.direction = IF d.direction = "positive" THEN "negative" ELSE "positive"]

MovesMirror ==
  Asked("move") => MoveDrivers(Negative(case.moves)) = {Mirrored(d) : d \in verdict.drivers}

(* The scores of a business do not depend on the unit its accounts are in. *)
UnitsDoNotMatter ==
  Asked("scores") =>
    LET again == ForensicScores(case.financial, InUnit(case.now, 10), InUnit(case.before, 10)) IN
    /\ again.piotroski = verdict.scores.piotroski /\ again.beneish = verdict.scores.beneish
    /\ \A q \in verdict.scores.altman, r \in again.altman : SameQuotient(q, r)

(* An event that calls for attention is never lost between the rules: an   *)
(* auditor that leaves is a high risk whether a filing says so in its      *)
(* section, in its words, or the governance feed does; and a move of the   *)
(* economy in the other direction turns a risk into a chance.              *)
SignalsAreStable ==
  Asked("signals") =>
    /\ \/ /\ case.filing.source \in FilingSources
          /\ \/ case.filing.section = "auditor_resignation"
             \/ {"auditor", "resign"} \subseteq case.filing.words
       \/ case.governance.auditor
       => \E r \in verdict.risks : r.severity = "high"
    /\ {f.factor : f \in MacroFlags(Negative(case.economy))} = {f.factor : f \in verdict.macro}
    /\ \A f \in verdict.macro, h \in MacroFlags(Negative(case.economy)) :
         f.factor = h.factor => f.risk # h.risk
    /\ Sentiment(case.negative, case.positive) =
         [positive |-> "negative", negative |-> "positive", neutral |-> "neutral"][verdict.sentiment]

(* "wording changes do not create false new or resolved items": a claim    *)
(* with an event, a metric or a title that is said in other words is       *)
(* neither new nor resolved.  What has only words is new with new words.   *)
RewordedIsNotNew ==
  Asked("changes") => \A s \in case.snapshots, c \in case.current, d \in UNION case.snapshots :
    /\ c.event # "" \/ c.metric # "" \/ c.title # ""
    /\ c = [d EXCEPT !.statement = c.statement] /\ d \in s
    => c \notin verdict.changes.new /\ d \notin verdict.changes.resolved

(* A fact older than all the others, of a name and kind that has newer.    *)
Superseded(o, facts) ==
  /\ \A f \in facts : o.day < f.day
  /\ \E f \in LoadedFacts(facts) : NameOf(f) = NameOf(o) /\ f.kind = o.kind

(* A filing of an older period that is read late, of a name and kind with  *)
(* a newer period, does not change a metric; but it may bring a comparison *)
(* of growth, or earnings that are positive, within reach, and a number of *)
(* shares that is older than the equity ends the book value of a bank.     *)
HistoryDoesNotRewrite ==
  Asked("peer") /\ Superseded(case.older, case.facts) =>
    \A name \in DOMAIN verdict.metrics : \A m \in verdict.metrics[name] :
      \/ m \in verdict.later[name]
      \/ /\ name \in {"revenue_growth", "aum_growth", "pe"}
         /\ \E n \in verdict.later[name] : case.older \in n.inputs
      \/ /\ name = "pb" /\ verdict.later[name] = {}
         /\ NameOf(case.older) = "shares_outstanding"

(* "Calculations fail closed when periods or units cannot be reconciled",  *)
(* as far as they do: a metric of the facts is of one unit of money, but   *)
(* for a return on capital of a profit without a unit; capital employed is *)
(* that of the period and filing of the earnings, a margin is of one       *)
(* period, a book value of the day of its shares, and nothing is divided   *)
(* by what was not there yet.  The other returns and the price of earnings *)
(* take the balance sheet or the shares of another day.                    *)
PeriodsReconcile ==
  Asked("peer") => \A name \in OfFacts \cup OfPrices : \A m \in verdict.metrics[name] :
    /\ name \in OfFacts => \/ OneUnit(m.inputs)
                           \/ name = "roce" /\ \E f \in AnnualProfit(m.inputs) : f.unit = ""
    /\ name \in OfFacts => \A f \in m.inputs : f.day <= m.day
    /\ name \in {"roce", "ebitda_margin", "pb"} => \A f, g \in m.inputs : f.day = g.day
    /\ name = "roce" => \A f, g \in m.inputs : f.source = g.source
    /\ name = "ebitda_margin" => \A f, g \in m.inputs : f.kind = g.kind

(* A manifest that names nothing to do leaves only what no ingestion can   *)
(* bring: provenance, freshness and the access to the web.                 *)
ManifestIsComplete ==
  Asked("coverage") /\ verdict.actions = {} /\ GlobalErrors(case.corpus) = {} =>
    \A g \in verdict.blocked \cap Specialists :
      SpecialistErrors(g, case.agents, case.corpus, case.settings, case.least)
        \subseteq {"web", "market_fresh", "benchmark_fresh", "macro_fresh", "sources"}

-----------------------------------------------------------------------------
(* What the runs check: the rules that open a gate, the stages of a        *)
(* release, the way of a claim to the report, and what must not make a     *)
(* difference to a result.                                                 *)
GatesAreSound ==
  /\ EvidenceFailsClosed /\ ProviderGateCoversAudit /\ ContractsAgree
  /\ FreshOnItsOwn /\ PreparationIsAboutResults /\ ManifestIsComplete
  /\ LaunchIsCovered /\ ReleaseTargetsAgree /\ ReleaseIsEarned

ReportIsSupported ==
  PlansNameSpecialists /\ RecomputationAgrees /\ NoContradictionSurvives /\ HighImpactIsCorroborated

ResultsAreStable ==
  /\ ScenariosOrdered /\ MovesMirror /\ UnitsDoNotMatter /\ SignalsAreStable
  /\ RewordedIsNotNew /\ HistoryDoesNotRewrite /\ PeriodsReconcile
=============================================================================
