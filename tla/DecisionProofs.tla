----------------------------- MODULE DecisionProofs -----------------------------
(* What the gates and rules owe whoever asks them, for every case they can   *)
(* be given: a case stays as it is and is asked once, so an answer is that   *)
(* of the one action for what the case is about.                             *)
EXTENDS Decisions, FiniteSetTheorems, WellFoundedInduction, TLAPS

-----------------------------------------------------------------------------
(* Being asked.                                                              *)
LEMMA GivenAtFirst ==
  ASSUME DecisionInit
  PROVE  WellFormed(case) /\ verdict = Unasked
BY DecisionAssumption DEF DecisionInit

LEMMA StillGiven ==
  ASSUME WellFormed(case), [DecisionNext]_decisionVars
  PROVE  WellFormed(case)'
<1>1. case' = case
  BY DEF DecisionNext, decisionVars, Unasked, AskEvidence, AskSettings, AskCoverage, AskPlan, 
     AskFacts, AskClaims, AskValuation, AskMove, AskRelease, 
     AskScores, AskSignals, AskChanges, AskPeer
<1> QED  BY <1>1

LEMMA AskingEvidence ==
  ASSUME [DecisionNext]_decisionVars, Asked("evidence")'
  PROVE  case' = case /\ (verdict' = verdict \/ AskEvidence)
BY DEF Asked, DecisionNext, decisionVars, Unasked, AskEvidence, AskSettings, AskCoverage, AskPlan, 
     AskFacts, AskClaims, AskValuation, AskMove, AskRelease, 
     AskScores, AskSignals, AskChanges, AskPeer

LEMMA AskingSettings ==
  ASSUME [DecisionNext]_decisionVars, Asked("settings")'
  PROVE  case' = case /\ (verdict' = verdict \/ AskSettings)
BY DEF Asked, DecisionNext, decisionVars, Unasked, AskEvidence, AskSettings, AskCoverage, AskPlan, 
     AskFacts, AskClaims, AskValuation, AskMove, AskRelease, 
     AskScores, AskSignals, AskChanges, AskPeer

LEMMA AskingCoverage ==
  ASSUME [DecisionNext]_decisionVars, Asked("coverage")'
  PROVE  case' = case /\ (verdict' = verdict \/ AskCoverage)
BY DEF Asked, DecisionNext, decisionVars, Unasked, AskEvidence, AskSettings, AskCoverage, AskPlan, 
     AskFacts, AskClaims, AskValuation, AskMove, AskRelease, 
     AskScores, AskSignals, AskChanges, AskPeer

LEMMA AskingPlan ==
  ASSUME [DecisionNext]_decisionVars, Asked("plan")'
  PROVE  case' = case /\ (verdict' = verdict \/ AskPlan)
BY DEF Asked, DecisionNext, decisionVars, Unasked, AskEvidence, AskSettings, AskCoverage, AskPlan, 
     AskFacts, AskClaims, AskValuation, AskMove, AskRelease, 
     AskScores, AskSignals, AskChanges, AskPeer

LEMMA AskingFacts ==
  ASSUME [DecisionNext]_decisionVars, Asked("facts")'
  PROVE  case' = case /\ (verdict' = verdict \/ AskFacts)
BY DEF Asked, DecisionNext, decisionVars, Unasked, AskEvidence, AskSettings, AskCoverage, AskPlan, 
     AskFacts, AskClaims, AskValuation, AskMove, AskRelease, 
     AskScores, AskSignals, AskChanges, AskPeer

LEMMA AskingClaims ==
  ASSUME [DecisionNext]_decisionVars, Asked("claims")'
  PROVE  case' = case /\ (verdict' = verdict \/ AskClaims)
BY DEF Asked, DecisionNext, decisionVars, Unasked, AskEvidence, AskSettings, AskCoverage, AskPlan, 
     AskFacts, AskClaims, AskValuation, AskMove, AskRelease, 
     AskScores, AskSignals, AskChanges, AskPeer

LEMMA AskingValuation ==
  ASSUME [DecisionNext]_decisionVars, Asked("valuation")'
  PROVE  case' = case /\ (verdict' = verdict \/ AskValuation)
BY DEF Asked, DecisionNext, decisionVars, Unasked, AskEvidence, AskSettings, AskCoverage, AskPlan, 
     AskFacts, AskClaims, AskValuation, AskMove, AskRelease, 
     AskScores, AskSignals, AskChanges, AskPeer

LEMMA AskingMove ==
  ASSUME [DecisionNext]_decisionVars, Asked("move")'
  PROVE  case' = case /\ (verdict' = verdict \/ AskMove)
BY DEF Asked, DecisionNext, decisionVars, Unasked, AskEvidence, AskSettings, AskCoverage, AskPlan, 
     AskFacts, AskClaims, AskValuation, AskMove, AskRelease, 
     AskScores, AskSignals, AskChanges, AskPeer

LEMMA AskingRelease ==
  ASSUME [DecisionNext]_decisionVars, Asked("release")'
  PROVE  case' = case /\ (verdict' = verdict \/ AskRelease)
BY DEF Asked, DecisionNext, decisionVars, Unasked, AskEvidence, AskSettings, AskCoverage, AskPlan, 
     AskFacts, AskClaims, AskValuation, AskMove, AskRelease, 
     AskScores, AskSignals, AskChanges, AskPeer

LEMMA AskingScores ==
  ASSUME [DecisionNext]_decisionVars, Asked("scores")'
  PROVE  case' = case /\ (verdict' = verdict \/ AskScores)
BY DEF Asked, DecisionNext, decisionVars, Unasked, AskEvidence, AskSettings, AskCoverage, AskPlan, 
     AskFacts, AskClaims, AskValuation, AskMove, AskRelease, 
     AskScores, AskSignals, AskChanges, AskPeer

LEMMA AskingSignals ==
  ASSUME [DecisionNext]_decisionVars, Asked("signals")'
  PROVE  case' = case /\ (verdict' = verdict \/ AskSignals)
BY DEF Asked, DecisionNext, decisionVars, Unasked, AskEvidence, AskSettings, AskCoverage, AskPlan, 
     AskFacts, AskClaims, AskValuation, AskMove, AskRelease, 
     AskScores, AskSignals, AskChanges, AskPeer

LEMMA AskingChanges ==
  ASSUME [DecisionNext]_decisionVars, Asked("changes")'
  PROVE  case' = case /\ (verdict' = verdict \/ AskChanges)
BY DEF Asked, DecisionNext, decisionVars, Unasked, AskEvidence, AskSettings, AskCoverage, AskPlan, 
     AskFacts, AskClaims, AskValuation, AskMove, AskRelease, 
     AskScores, AskSignals, AskChanges, AskPeer

LEMMA AskingPeer ==
  ASSUME [DecisionNext]_decisionVars, Asked("peer")'
  PROVE  case' = case /\ (verdict' = verdict \/ AskPeer)
BY DEF Asked, DecisionNext, decisionVars, Unasked, AskEvidence, AskSettings, AskCoverage, AskPlan, 
     AskFacts, AskClaims, AskValuation, AskMove, AskRelease, 
     AskScores, AskSignals, AskChanges, AskPeer

-----------------------------------------------------------------------------
(* The coverage of one security, or of the universe.                         *)
LEMMA CoverageAnswer ==
  ASSUME WellFormed(case), AskCoverage
  PROVE  /\ case' = case /\ case.about = "coverage" /\ CoverageGiven(case)
         /\ verdict'.corpus = DataErrors(case.corpus, case.least)
         /\ verdict'.blocked = BlockingAgents(case.agents, case.corpus, case.settings, case.least)
         /\ verdict'.open = AgentsReady(case.agents, case.corpus, case.settings, case.least)
         /\ verdict'.prepare = PreparationRequired(case.agents, case.corpus, case.settings)
         /\ verdict'.actions = NextActions(case.agents, case.corpus, case.least)
         /\ verdict'.manifest = ManifestExit(case.corpus, case.agents, case.settings, case.least)
         /\ verdict'.command = AgentGateExit(case.corpus, case.agents, case.settings, case.least)
         /\ verdict'.operations = OperationsReady(case.settings, case.corpus, case.agents,
                                                   case.health, case.live)
         /\ verdict'.commercial = CommercialReady(case.settings, case.corpus, case.agents,
                                                   case.health, case.live, case.approvals)
BY DEF AskCoverage, WellFormed

LEMMA FreshNow ==
  ASSUME WellFormed(case), AskCoverage
  PROVE  FreshOnItsOwn'
<1> SUFFICES ASSUME case'.least = 1, {"market", "technical"} \cap verdict'.blocked = {}
             PROVE  case'.market.last <= 7
  BY DEF FreshOnItsOwn
<1>1. AgentErrors("technical", case.agents, case.corpus, case.settings, case.least) = {}
  BY CoverageAnswer DEF BlockingAgents, Agents, Specialists
<1>2. Holds("technical", case.agents, case.corpus, case.settings, case.least)
  BY <1>1 DEF AgentErrors, SpecialistErrors, Requirements, Specialists
<1>3. case.agents.covered["technical"] = 1
  BY CoverageAnswer, <1>2 DEF Holds, Universal, CoverageGiven
<1>4. MarketComplete(case.market)
  BY CoverageAnswer, <1>3 DEF CoverageGiven
<1> QED  BY CoverageAnswer, <1>4 DEF MarketComplete, MarketErrors, CoverageGiven

(* The agents' contract, taken apart.                                        *)
LEMMA NoneBlocked ==
  ASSUME NEW a, NEW k, NEW s, NEW least
  PROVE  AgentsReady(a, k, s, least) <=> BlockingAgents(a, k, s, least) = {}
<1>1. ASSUME AgentsReady(a, k, s, least)  PROVE BlockingAgents(a, k, s, least) = {}
  <2>1. \A g \in Specialists : SpecialistErrors(g, a, k, s, least) = {}
    BY <1>1 DEF AgentsReady, SpecialistErrors
  <2>2. \A g \in Agents : AgentErrors(g, a, k, s, least) = {}
    BY <1>1, <2>1 DEF AgentErrors, AgentsReady
  <2> QED  BY <2>2 DEF BlockingAgents
<1>2. ASSUME BlockingAgents(a, k, s, least) = {}  PROVE AgentsReady(a, k, s, least)
  <2>1. \A g \in Specialists : SpecialistErrors(g, a, k, s, least) = {}
    BY <1>2 DEF BlockingAgents, AgentErrors, Agents
  <2>2. GlobalErrors(k) = {}
    BY <2>1 DEF SpecialistErrors, Specialists
  <2>3. \A g \in Specialists : \A r \in Requirements[g] : Holds(r, a, k, s, least)
    BY <2>1 DEF SpecialistErrors
  <2> QED  BY <2>2, <2>3 DEF AgentsReady
<1> QED  BY <1>1, <1>2

LEMMA ContractsNow ==
  ASSUME WellFormed(case), AskCoverage
  PROVE  ContractsAgree'
<1> DEFINE k == case.corpus
<1>1. (DataErrors(k, case.least) \subseteq {"universe"}) <=> (GlobalErrors(k) = {})
  <2>1. \A t \in Tables : /\ k.rows[t] \in Nat /\ k.sourced[t] \in Nat /\ k.sourced[t] <= k.rows[t]
                          /\ t # "universe"
    BY CoverageAnswer DEF CoverageGiven, CorpusRecords, Tables
  <2>2. (\E t \in Tables : k.rows[t] # 0 /\ k.sourced[t] < k.rows[t])
        <=> (\E t \in Tables : k.rows[t] > 0 /\ k.sourced[t] # k.rows[t])
    BY <2>1
  <2>3. (DataErrors(k, case.least) \subseteq {"universe"})
        <=> /\ ~(k.nonproduction > 0) /\ ~(k.unapproved > 0)
            /\ ~\E t \in Tables : k.rows[t] # 0 /\ k.sourced[t] < k.rows[t]
    BY <2>1 DEF DataErrors
  <2>4. (GlobalErrors(k) = {})
        <=> /\ ~(k.nonproduction > 0) /\ ~(k.unapproved > 0)
            /\ ~\E t \in Tables : k.rows[t] > 0 /\ k.sourced[t] # k.rows[t]
    BY DEF GlobalErrors
  <2> QED  BY <2>2, <2>3, <2>4
<1>2. verdict'.open <=> verdict'.blocked = {}
  BY CoverageAnswer, NoneBlocked
<1>3. case.least = 1000 => verdict'.manifest = verdict'.command
  BY CoverageAnswer DEF ManifestExit, AgentGateExit
<1>4. case.least = 1000 /\ verdict'.operations => verdict'.manifest = 0
  <2> SUFFICES ASSUME case.least = 1000, verdict'.operations  PROVE verdict'.manifest = 0
    OBVIOUS
  <2>1. OperationsErrors(case.settings, k, case.agents, case.health, case.live) = {}
    BY CoverageAnswer DEF OperationsReady
  <2>2. DataErrors(k, 1000) = {} /\ AgentsReady(case.agents, k, case.settings, 1000)
    BY <2>1 DEF OperationsErrors
  <2> QED  BY CoverageAnswer, <2>2 DEF DataReady, ManifestExit
<1> QED  BY CoverageAnswer, <1>1, <1>2, <1>3, <1>4 DEF ContractsAgree

LEMMA LaunchNow ==
  ASSUME WellFormed(case), AskCoverage
  PROVE  LaunchIsCovered'
<1> SUFFICES ASSUME verdict'.commercial
             PROVE  /\ verdict'.manifest = 0 /\ Starts(case.settings)
                    /\ \E s \in case.settings.scopes : s.name \in DOMAIN case.approvals
                    /\ \A s \in case.settings.scopes :
                         s.wellFormed => s.name \in DOMAIN case.approvals /\ ~case.approvals[s.name].expired
  BY CoverageAnswer DEF LaunchIsCovered
<1>1. CommercialReady(case.settings, case.corpus, case.agents, case.health, case.live, case.approvals)
  BY CoverageAnswer
<1>2. Starts(case.settings)
  BY <1>1 DEF CommercialReady, Starts
<1>3. DataErrors(case.corpus, 1000) = {} /\ AgentsReady(case.agents, case.corpus, case.settings, 1000)
  BY <1>1 DEF CommercialReady, OperationsReady, OperationsErrors
<1>4. DataErrors(case.corpus, case.least) = {}
  BY CoverageAnswer, <1>3 DEF DataErrors, CoverageGiven, CorpusRecords
<1>5. verdict'.manifest = 0
  BY CoverageAnswer, <1>3, <1>4 DEF ManifestExit, DataReady
<1>6. /\ RequiredScopes(case.settings) # {}
      /\ \A s \in RequiredScopes(case.settings) :
           s.name \in DOMAIN case.approvals /\ Approved(case.approvals[s.name])
  BY <1>1 DEF CommercialReady
<1> QED  BY <1>2, <1>5, <1>6 DEF RequiredScopes, Approved

LEMMA PreparationNow ==
  ASSUME WellFormed(case), AskCoverage
  PROVE  PreparationIsAboutResults'
<1> DEFINE a == case.agents
           k == case.corpus
           s == case.settings
<1> SUFFICES ASSUME case.least = 1, verdict'.prepare, NEW g \in verdict'.blocked
             PROVE  g \in {"financials", "filings", "earnings", "valuation", "risk", "orchestrator",
                           "synthesis"}
  BY CoverageAnswer DEF PreparationIsAboutResults
<1>1. AgentsReady(WithFinancials(a), k, s, 1)
  BY CoverageAnswer DEF PreparationRequired, SecurityReady
<1>2. /\ WithFinancials(a).total = a.total /\ WithFinancials(a).bar = a.bar
      /\ WithFinancials(a).benchmarks = a.benchmarks /\ WithFinancials(a).macro = a.macro
      /\ \A r \in Universal \ {"financial", "filing", "earnings"} :
           WithFinancials(a).covered[r] = a.covered[r]
  BY CoverageAnswer DEF WithFinancials, CoverageGiven, CoverageRecords
<1>3. ASSUME NEW r \in {"universe", "mapped", "technical", "benchmarks", "market_fresh",
                        "benchmark_fresh", "web", "classified", "peer", "macro", "macro_fresh",
                        "sources", "chunks"},
             Holds(r, WithFinancials(a), k, s, 1)
      PROVE  Holds(r, a, k, s, 1)
  BY <1>2, <1>3 DEF Holds, Universal, LatestBar
<1>4. \A h \in {"entity", "market", "news", "web", "industry", "macro", "technical", "sentiment",
                 "validator"} :
        /\ h \in Specialists
        /\ Requirements[h] \subseteq {"universe", "mapped", "technical", "benchmarks", "market_fresh",
             "benchmark_fresh", "web", "classified", "peer", "macro", "macro_fresh", "sources", "chunks"}
  BY DEF Requirements, Specialists
<1>5. \A h \in {"entity", "market", "news", "web", "industry", "macro", "technical", "sentiment",
                 "validator"} : AgentErrors(h, a, k, s, 1) = {}
  <2> SUFFICES ASSUME NEW h \in {"entity", "market", "news", "web", "industry", "macro", "technical",
                                 "sentiment", "validator"}
               PROVE  SpecialistErrors(h, a, k, s, 1) = {}
    BY <1>4 DEF AgentErrors
  <2>1. GlobalErrors(k) = {} /\ \A r \in Requirements[h] : Holds(r, WithFinancials(a), k, s, 1)
    BY <1>1, <1>4 DEF AgentsReady
  <2> QED  BY <2>1, <1>3, <1>4 DEF SpecialistErrors
<1>6. g \in Agents /\ AgentErrors(g, a, k, s, 1) # {}
  BY CoverageAnswer DEF BlockingAgents
<1> QED  BY <1>5, <1>6 DEF Agents, Specialists

LEMMA ManifestNow ==
  ASSUME WellFormed(case), AskCoverage
  PROVE  ManifestIsComplete'
<1> DEFINE a == case.agents
           k == case.corpus
           s == case.settings
<1> SUFFICES ASSUME verdict'.actions = {}, GlobalErrors(k) = {}, NEW g \in Specialists,
                    NEW r \in SpecialistErrors(g, a, k, s, case.least)
             PROVE  r \in {"web", "market_fresh", "benchmark_fresh", "macro_fresh", "sources"}
  BY CoverageAnswer DEF ManifestIsComplete
<1>1. r \in Requirements[g] /\ ~Holds(r, a, k, s, case.least)
  BY DEF SpecialistErrors
<1>2. NextActions(a, k, case.least) = {}
  BY CoverageAnswer
<1>3. a.total >= case.least /\ a.total > 0 /\ a.total \in Nat
  BY CoverageAnswer, <1>2 DEF NextActions, CoverageGiven, CoverageRecords
<1>4. \A u \in Universal : a.covered[u] = a.total
  <2>1. \A u \in Universal : ~(a.covered[u] < a.total)
    BY <1>2 DEF NextActions
  <2> QED  BY <2>1, CoverageAnswer DEF CoverageGiven, CoverageRecords
<1>5. a.benchmarks /\ a.macro /\ k.chunks > 0
  BY CoverageAnswer, <1>2 DEF NextActions, CoverageGiven, CoverageRecords, CorpusRecords
<1>6. r \in Universal \cup {"universe", "benchmarks", "macro", "market_fresh", "benchmark_fresh",
                            "macro_fresh", "web", "sources", "chunks"}
  BY <1>1 DEF Requirements, Specialists, Universal
<1>7. CASE r \in Universal
  <2>1. Holds(r, a, k, s, case.least) <=> a.total > 0 /\ a.covered[r] = a.total
    BY <1>7 DEF Holds, Universal
  <2> QED  BY <2>1, <1>1, <1>3, <1>4, <1>7
<1>8. CASE r \in {"universe", "benchmarks", "macro", "chunks"}
  BY <1>1, <1>3, <1>5, <1>8 DEF Holds, Universal
<1> QED  BY <1>6, <1>7, <1>8

-----------------------------------------------------------------------------
(* The settings.                                                             *)

\* A set of positive numbers that is not empty has a least one.
LEMMA LeastOf ==
  ASSUME NEW T, T \subseteq Nat, T # {}
  PROVE  \E x \in T : \A y \in T : x <= y
<1> DEFINE R == StrictSubsetOrdering(Nat)
           F == FiniteSubsetsOf(Nat)
           Down == {0..x : x \in T}
<1>1. IsWellFoundedOn(R, F)
  BY FS_StrictSubsetOrderingWellFounded
<1>2. Down \subseteq F /\ Down # {}
  <2>1. \A x \in T : IsFiniteSet(0..x) /\ 0..x \subseteq Nat
    BY FS_Interval
  <2> QED  BY <2>1 DEF FiniteSubsetsOf
<1>3. \E s \in Down : \A t \in Down : ~(<<t, s>> \in R)
  <2> HIDE DEF R, F, Down
  <2> QED  BY <1>1, <1>2, WFMin
<1>4. PICK x \in T : \A y \in T : ~(<<0..y, 0..x>> \in R)
  BY <1>3
<1>5. ASSUME NEW y \in T, y < x PROVE FALSE
  <2>1. 0..y \subseteq 0..x /\ x \in 0..x /\ x \notin 0..y
    BY <1>5
  <2>2. <<0..y, 0..x>> \in R
    BY <2>1 DEF StrictSubsetOrdering
  <2> QED  BY <1>4, <2>2
<1> QED  BY <1>5

LEMMA LeastChosen ==
  ASSUME NEW T, T \subseteq Nat, T # {}
  PROVE  (CHOOSE x \in T : \A y \in T : x <= y) \in T
BY LeastOf

LEMMA AnyRoute ==
  ASSUME NEW c, c \in SettingsRecords, c.llm, NEW capability
  PROVE  Eligible(capability, c) <=> \E p \in LlmProviders : p \in c.keys /\ (c.freeOnly => p \in c.freeRoutes)
<1> DEFINE Known == Candidates(capability, c)
           first == CHOOSE i \in Known : \A n \in Known : i <= n
<1>1. /\ \A i \in 1..4 : Preference(capability)[i] \in LlmProviders
      /\ \A p \in LlmProviders : \E i \in 1..4 : Preference(capability)[i] = p
  BY DEF Preference, LlmProviders
<1>2. "unavailable" \notin LlmProviders
  BY DEF LlmProviders
<1>3. Known # {} <=> \E p \in LlmProviders : p \in c.keys /\ (c.freeOnly => p \in c.freeRoutes)
  BY <1>1 DEF Candidates
<1>4. Known \subseteq 1..4
  BY DEF Candidates
<1>5. ASSUME Known # {}  PROVE Eligible(capability, c)
  <2>1. first \in 1..4
    <3>1. Known \subseteq Nat
      BY <1>4
    <3> HIDE DEF Known
    <3> QED  BY <1>4, <1>5, <3>1, LeastChosen
  <2>2. Choice(capability, c) = Preference(capability)[first]
    BY <1>5 DEF Choice
  <2> QED  BY <1>1, <2>1, <2>2 DEF Eligible
<1>6. ASSUME Known = {}  PROVE ~Eligible(capability, c)
  BY <1>2, <1>6 DEF Eligible, Choice
<1> QED  BY <1>3, <1>5, <1>6

LEMMA AuditCovered ==
  ASSUME WellFormed(case), AskSettings
  PROVE  ProviderGateCoversAudit'
<1> DEFINE c == case.settings
<1>1. /\ case' = case /\ c \in SettingsRecords
      /\ verdict'.audit = AuditErrors(c) /\ verdict'.providers = ProvidersReady(c)
      /\ verdict'.routes = {p \in {"fast", "deep", "low_latency", "multimodal", "long_context"} : Eligible(p, c)}
  BY DEF AskSettings, WellFormed
<1> HIDE DEF c
<1> SUFFICES ASSUME verdict'.providers
             PROVE  /\ c.llm => verdict'.routes = {"fast", "deep", "low_latency", "multimodal", "long_context"}
                    /\ verdict'.audit \cap {"llm_provider_missing", "multimodal_gemini_missing",
                         "audio_gemini_missing", "live_market_credentials_missing"} = {}
  BY <1>1 DEF ProviderGateCoversAudit, c
<1>2. /\ c.llm => Eligible("fast", c)
      /\ c.multimodal => c.llm /\ "gemini" \in c.keys
      /\ c.audio => c.llm /\ "gemini" \in c.keys
      /\ c.live => c.upstox = Upstox
  BY <1>1 DEF ProvidersReady, ActivationErrors
<1>3. c.llm => \E p \in LlmProviders : p \in c.keys /\ (c.freeOnly => p \in c.freeRoutes)
  BY <1>1, <1>2, AnyRoute
<1>4. c.llm => \A p \in {"fast", "deep", "low_latency", "multimodal", "long_context"} : Eligible(p, c)
  BY <1>1, <1>3, AnyRoute
<1>5. \A e \in {"llm_provider_missing", "multimodal_gemini_missing", "audio_gemini_missing",
               "live_market_credentials_missing"} : e \notin AuditErrors(c)
  <2>1. c.llm => c.keys # {}
    BY <1>3
  <2> QED  BY <1>2, <2>1 DEF AuditErrors
<1> QED  BY <1>1, <1>4, <1>5

-----------------------------------------------------------------------------
(* A release.                                                                *)
LEMMA ImageIsFinite ==
  ASSUME NEW S, IsFiniteSet(S), NEW f
  PROVE  IsFiniteSet({f[x] : x \in S})
<1> DEFINE T == {f[x] : x \in S}
           g == [x \in S |-> f[x]]
<1>1. g \in Surjection(S, T)
  BY DEF Surjection
<1> HIDE DEF T, g
<1>2. IsFiniteSet(T)
  BY <1>1, FS_Surjection
<1> QED  BY <1>2 DEF T

LEMMA NoFailedStage ==
  ASSUME NEW ok, FailedStage(ok) = "none"
  PROVE  \A i \in 1..9 : ok[ReleaseStages[i]]
<1> DEFINE failing == {i \in DOMAIN ReleaseStages : ~ok[ReleaseStages[i]]}
           first == CHOOSE i \in failing : \A n \in failing : i <= n
<1>1. DOMAIN ReleaseStages = 1..9 /\ \A i \in 1..9 : ReleaseStages[i] # "none"
  BY DEF ReleaseStages
<1>2. ASSUME failing # {}  PROVE FALSE
  <2>1. first \in 1..9
    <3>1. failing \subseteq 1..9 /\ failing \subseteq Nat
      BY <1>1
    <3> HIDE DEF failing
    <3> QED  BY <1>2, <3>1, LeastChosen
  <2>2. FailedStage(ok) = ReleaseStages[first]
    BY <1>2 DEF FailedStage
  <2> QED  BY <1>1, <2>1, <2>2
<1> QED  BY <1>1, <1>2

LEMMA ReleaseAnswer ==
  ASSUME WellFormed(case), AskRelease
  PROVE  /\ case' = case /\ case.about = "release" /\ ReleaseGiven(case)
         /\ verdict'.built <=> CommandsBuilt(case.url, case.allowHttp, 1000, 60, 5)
         /\ verdict'.failed = IF CommandsBuilt(case.url, case.allowHttp, 1000, 60, 5)
                              THEN FailedStage(StagesOk(case)) ELSE "built"
         /\ verdict'.ready <=> /\ CommandsBuilt(case.url, case.allowHttp, 1000, 60, 5)
                               /\ ReleaseReady(StagesOk(case))
<1> DEFINE ok == StagesOk(case)
           built == CommandsBuilt(case.url, case.allowHttp, 1000, 60, 5)
<1>1. verdict' = [asked |-> TRUE, built |-> built, failed |-> IF built THEN FailedStage(ok) ELSE "built",
                  ready |-> built /\ ReleaseReady(ok)]
  BY DEF AskRelease
<1>2. case' = case /\ case.about = "release" /\ ReleaseGiven(case)
  BY DEF AskRelease, WellFormed
<1> HIDE DEF ok, built
<1>3. verdict'.built <=> built
  BY <1>1
<1>4. verdict'.failed = IF built THEN FailedStage(ok) ELSE "built"
  BY <1>1
<1>5. verdict'.ready <=> built /\ ReleaseReady(ok)
  BY <1>1
<1> USE DEF ok, built
<1> QED  BY <1>2, <1>3, <1>4, <1>5

LEMMA TargetsNow ==
  ASSUME WellFormed(case), AskRelease
  PROVE  ReleaseTargetsAgree'
<1> DEFINE url == case.url
<1>0. case' = case
  BY ReleaseAnswer
<1> SUFFICES /\ verdict'.built /\ url.origin =>
                  /\ TargetAllowed(url) /\ ReleaseTarget(url, case.allowHttp)
                  /\ ProbeAllowed(url, TRUE, SafeEndpoints, 60, 5)
             /\ TargetAllowed(url) => ReleaseTarget(url, TRUE)
  BY <1>0 DEF ReleaseTargetsAgree
<1>1. verdict'.built => ReleaseTarget(url, case.allowHttp)
  BY ReleaseAnswer DEF CommandsBuilt
<1>2. SafeEndpoints # {}
  BY DEF SafeEndpoints
<1> QED  BY <1>1, <1>2 DEF TargetAllowed, ReleaseTarget, ProbeAllowed

LEMMA EarnedNow ==
  ASSUME WellFormed(case), AskRelease
  PROVE  ReleaseIsEarned'
<1> DEFINE ok == StagesOk(case)
<1>1. verdict'.ready <=> (verdict'.failed = "none")
  BY ReleaseAnswer DEF ReleaseReady
<1> SUFFICES ASSUME verdict'.ready
             PROVE  /\ Cardinality(SecuritiesOf(case.jobs)) >= 5
                    /\ Cardinality(SectorsOf(case.jobs)) >= 4
                    /\ \A j \in case.jobs : j.coverage \notin 0..49 /\ j.nonproduction = 0
                    /\ case.answers.corpusReady /\ case.owner # case.other
                    /\ case.otherJob = 404 /\ "j1" \notin case.history.jobs
                    /\ case.failing = {}
  <2>1. case' = case
    BY ReleaseAnswer
  <2> QED  BY <1>1, <2>1 DEF ReleaseIsEarned
<1>2. \A i \in 1..9 : ok[ReleaseStages[i]]
  BY ReleaseAnswer, NoFailedStage DEF ReleaseReady
<1>3. /\ ok["corpus_readiness"] /\ ok["real_company_acceptance"] /\ ok["operations_health"]
      /\ ok["commercial_launch"] /\ ok["deployment_smoke"] /\ ok["auth_isolation"]
  <2>1. /\ ReleaseStages[2] = "corpus_readiness" /\ ReleaseStages[3] = "real_company_acceptance"
        /\ ReleaseStages[5] = "operations_health" /\ ReleaseStages[6] = "commercial_launch"
        /\ ReleaseStages[7] = "deployment_smoke" /\ ReleaseStages[8] = "auth_isolation"
    BY DEF ReleaseStages
  <2> HIDE DEF ok
  <2> QED  BY <1>2, <2>1
<1>4. {ReleaseStages[i] : i \in DOMAIN ReleaseStages} =
        {"preflight", "corpus_readiness", "real_company_acceptance", "provider_activation",
         "operations_health", "commercial_launch", "deployment_smoke", "auth_isolation", "load_probe"}
  <2>1. DOMAIN ReleaseStages = 1..9
    BY DEF ReleaseStages
  <2>2. /\ ReleaseStages[1] = "preflight" /\ ReleaseStages[2] = "corpus_readiness"
        /\ ReleaseStages[3] = "real_company_acceptance" /\ ReleaseStages[4] = "provider_activation"
        /\ ReleaseStages[5] = "operations_health" /\ ReleaseStages[6] = "commercial_launch"
        /\ ReleaseStages[7] = "deployment_smoke" /\ ReleaseStages[8] = "auth_isolation" /\ ReleaseStages[9] = "load_probe"
    BY DEF ReleaseStages
  <2> QED  BY <2>1, <2>2
<1>5. /\ AcceptanceReady(case.requested, case.jobs, 5, 4)
      /\ SmokePasses(case.url, case.token, case.answers, TRUE)
      /\ IsolationPasses(case.owner, case.other, 200, case.otherJob, case.history, "j1")
      /\ {"corpus_readiness", "operations_health", "commercial_launch"} \cap case.failing = {}
  BY <1>3, <1>4 DEF StagesOk
<1>6. case.failing = {}
  BY <1>5, ReleaseAnswer DEF ReleaseGiven
<1>7. \A j \in case.jobs : j.coverage \notin 0..49 /\ j.nonproduction = 0
  <2> TAKE j \in case.jobs
  <2>1. j.coverage \in Nat /\ j.nonproduction \in Nat /\ JobErrors(j) = {}
    BY <1>5, ReleaseAnswer DEF AcceptanceReady, ReleaseGiven, JobRecords
  <2>2. ~(j.nonproduction > 0) /\ ~(j.coverage # Unknown /\ j.coverage < 50)
    BY <2>1 DEF JobErrors
  <2> QED  BY <2>1, <2>2 DEF Unknown
<1>8. /\ Cardinality(SecuritiesOf(case.jobs)) >= 5
      /\ Cardinality(SectorsOf(case.jobs)) >= 4
  BY <1>5 DEF AcceptanceReady
<1> QED  BY <1>5, <1>6, <1>7, <1>8 DEF SmokePasses, IsolationPasses

-----------------------------------------------------------------------------
(* The plans.                                                                *)
LEMMA PlansNow ==
  ASSUME WellFormed(case), AskPlan
  PROVE  PlansNameSpecialists'
<1>1. /\ verdict'.quick = ResearchPlan(case.mode, "quick") /\ verdict'.deep = ResearchPlan(case.mode, "deep")
      /\ verdict'.event = EventPlan[case.event]
      /\ case.mode \in Modes /\ case.event \in DOMAIN EventPlan
  BY DEF AskPlan, WellFormed
<1>2. \A m \in Modes : StandardPlan[m].collect \subseteq Specialists /\ StandardPlan[m].analyze \subseteq Specialists
  BY DEF Modes, StandardPlan, Plan, Specialists
<1>3. \A e \in DOMAIN EventPlan : EventPlan[e].collect \subseteq Specialists /\ EventPlan[e].analyze \subseteq Specialists
  BY DEF EventPlan, Plan, Specialists
<1>4. \A m \in Modes : \A depth \in Depths :
        ResearchPlan(m, depth).collect \subseteq Specialists /\ ResearchPlan(m, depth).analyze \subseteq Specialists
  BY <1>2 DEF ResearchPlan, Plan, Specialists
<1>5. \A p \in {"quick", "deep", "event"} :
        verdict'[p].collect \cup verdict'[p].analyze \subseteq Specialists
  BY <1>1, <1>3, <1>4 DEF Depths
<1> QED  BY <1>5 DEF PlansNameSpecialists

-----------------------------------------------------------------------------
(* The files of evidence: for every set of keys that a file may lack.        *)

Plain == {"flag", "text", "pick", "count"}
PlainOf(g) == UNION {ReadBy(g, kind) : kind \in Plain}
Excused == Waivers \cup {"security_warn_count", "source_branch", "required_service_count",
                         "paid_fallback_enabled"}
Stated == {"railway_branch_strategy", "launch_decision", "corpus_gate_status",
           "supabase_security_exception_status", "sentry_monitoring_status", "npm_audit_status"}
Told(lacking, p) == IF p \in lacking THEN "absent" ELSE CompleteValue(p[2])

LEMMA ReadOf ==
  ASSUME NEW g, NEW kind, NEW p
  PROVE  p \in ReadBy(g, kind) <=>
           \E s \in DOMAIN SectionsOf(g) : \E k \in SectionsOf(g)[s][kind] : p = <<s, k>>
BY DEF ReadBy

LEMMA FileHolds ==
  ASSUME NEW g, NEW lacking
  PROVE  LET f == FileOf(lacking, {}, AllReadBy(g)) IN
         /\ ~f.plan /\ f.given /\ f.readable /\ f.extra = {}
         /\ \A p \in AllReadBy(g) : f.evidence[p] = Told(lacking, p)
BY DEF FileOf, Told

LEMMA PlainKeys ==
  ASSUME NEW g, NEW lacking, NEW e,
         \A p \in AllReadBy(g) : e[p] = Told(lacking, p),
         \A s \in DOMAIN SectionsOf(g) : \A kind \in Plain :
           SectionsOf(g)[s][kind] \cap (Excused \cup Stated) = {}
  PROVE  /\ \A p \in PlainOf(g) : p[2] \notin Excused \cup Stated
         /\ (\A kind \in Plain : \A p \in ReadBy(g, kind) : Fits(g, kind, e[p]))
              <=> lacking \cap PlainOf(g) = {}
<1>1. \A kind \in Plain : \A p \in ReadBy(g, kind) : p[2] \notin Excused \cup Stated /\ p \in AllReadBy(g)
  <2> TAKE kind \in Plain
  <2> TAKE p \in ReadBy(g, kind)
  <2>1. PICK s \in DOMAIN SectionsOf(g) : \E k \in SectionsOf(g)[s][kind] : p = <<s, k>>
    BY ReadOf
  <2>2. p[2] \in SectionsOf(g)[s][kind]
    BY <2>1
  <2> QED  BY <2>2 DEF AllReadBy, Kinds, Plain
<1>2. \A kind \in Plain : \A p \in ReadBy(g, kind) : Fits(g, kind, e[p]) <=> p \notin lacking
  <2> TAKE kind \in Plain
  <2> TAKE p \in ReadBy(g, kind)
  <2>1. e[p] = IF p \in lacking THEN "absent" ELSE "good"
    BY <1>1 DEF Told, CompleteValue, Stated
  <2> QED  BY <2>1 DEF Fits, Spelled, Plain
<1> QED  BY <1>1, <1>2 DEF PlainOf

LEMMA ReadinessKeys ==
  /\ \A s \in DOMAIN SectionsOf("readiness") : \A kind \in Plain :
       SectionsOf("readiness")[s][kind] \cap (Excused \cup Stated) = {}
  /\ ReadBy("readiness", "join") =
       {<<"database_release", "security_warn_count">>, <<"database_release",
           "managed_platform_warnings_accepted">>}
  /\ ReadBy("readiness", "deny") = {}
<1>1. SectionsOf("readiness") = ReadinessSections
  BY DEF SectionsOf
<1>2. \A s \in DOMAIN ReadinessSections : \A kind \in Plain : ReadinessSections[s][kind] \cap (Excused \cup Stated) = {}
  BY DEF ReadinessSections, Keys, Flags, Plain, Excused, Stated, Waivers
<1>3. \A p : p \in ReadBy("readiness", "join") <=>
        p \in {<<"database_release", "security_warn_count">>, <<"database_release",
           "managed_platform_warnings_accepted">>}
  BY <1>1, ReadOf DEF ReadinessSections, Keys, Flags
<1>4. \A p : p \in ReadBy("readiness", "deny") <=> p \in {}
  BY <1>1, ReadOf DEF ReadinessSections, Keys, Flags
<1> QED  BY <1>1, <1>2, <1>3, <1>4

LEMMA ReadinessMarked ==
  \A p \in AllReadBy("readiness") : \A marker \in ReadinessMarkers :
    p[2] \notin MarkedBy(marker)
<1>1. SectionsOf("readiness") = ReadinessSections
  BY DEF SectionsOf
<1>2. \A s \in DOMAIN ReadinessSections : \A kind \in Kinds :
        ReadinessSections[s][kind] \cap {"service_role_absent_from_frontend", "no_service_role_key_in_frontend"} = {}
  BY DEF ReadinessSections, Keys, Flags, Kinds
<1>3. \A p \in AllReadBy("readiness") :
        p[2] \notin {"service_role_absent_from_frontend", "no_service_role_key_in_frontend"}
  <2> TAKE p \in AllReadBy("readiness")
  <2>1. PICK kind \in Kinds : p \in ReadBy("readiness", kind)
    BY DEF AllReadBy
  <2>2. PICK s \in DOMAIN ReadinessSections : \E k \in ReadinessSections[s][kind] : p = <<s, k>>
    BY <1>1, <2>1, ReadOf
  <2> QED  BY <1>2, <2>2
<1> QED  BY <1>3 DEF ReadinessMarkers, CommonMarkers, ActivationMarkers, MarkedBy

LEMMA ActivationKeys ==
  /\ \A s \in DOMAIN SectionsOf("activation") : \A kind \in Plain :
       SectionsOf("activation")[s][kind] \cap (Excused \cup Stated) = {}
  /\ ReadBy("activation", "join") =
       {<<"supabase_security", "security_warn_count">>, <<"supabase_security",
           "managed_platform_warnings_accepted">>, <<"supabase_security",
           "pg_net_public_exception_status">>}
  /\ ReadBy("activation", "deny") = {}
<1>1. SectionsOf("activation") = ActivationSections
  BY DEF SectionsOf
<1>2. \A s \in DOMAIN ActivationSections : \A kind \in Plain : ActivationSections[s][kind] \cap (Excused \cup Stated) = {}
  BY DEF ActivationSections, Keys, Flags, Plain, Excused, Stated, Waivers
<1>3. \A p : p \in ReadBy("activation", "join") <=>
        p \in {<<"supabase_security", "security_warn_count">>, <<"supabase_security",
           "managed_platform_warnings_accepted">>, <<"supabase_security",
           "pg_net_public_exception_status">>}
  BY <1>1, ReadOf DEF ActivationSections, Keys, Flags
<1>4. \A p : p \in ReadBy("activation", "deny") <=> p \in {}
  BY <1>1, ReadOf DEF ActivationSections, Keys, Flags
<1> QED  BY <1>1, <1>2, <1>3, <1>4

LEMMA ActivationMarked ==
  \A p \in AllReadBy("activation") : \A marker \in ActivationMarkers :
    p[2] \notin MarkedBy(marker)
<1>1. SectionsOf("activation") = ActivationSections
  BY DEF SectionsOf
<1>2. \A s \in DOMAIN ActivationSections : \A kind \in Kinds :
        ActivationSections[s][kind] \cap {"no_service_role_key_in_frontend"} = {}
  BY DEF ActivationSections, Keys, Flags, Kinds
<1>3. \A p \in AllReadBy("activation") :
        p[2] \notin {"no_service_role_key_in_frontend"}
  <2> TAKE p \in AllReadBy("activation")
  <2>1. PICK kind \in Kinds : p \in ReadBy("activation", kind)
    BY DEF AllReadBy
  <2>2. PICK s \in DOMAIN ActivationSections : \E k \in ActivationSections[s][kind] : p = <<s, k>>
    BY <1>1, <2>1, ReadOf
  <2> QED  BY <1>2, <2>2
<1> QED  BY <1>3 DEF ActivationMarkers, CommonMarkers, ActivationMarkers, MarkedBy

LEMMA CutoverKeys ==
  /\ \A s \in DOMAIN SectionsOf("cutover") : \A kind \in Plain :
       SectionsOf("cutover")[s][kind] \cap (Excused \cup Stated) = {}
  /\ ReadBy("cutover", "join") =
       {<<"railway_backend_runtime", "worker_service_success_count">>,
           <<"railway_backend_runtime", "required_service_count">>,
           <<"release_promotion_controls", "source_branch">>}
  /\ ReadBy("cutover", "deny") = {}
<1>1. SectionsOf("cutover") = CutoverSections
  BY DEF SectionsOf
<1>2. \A s \in DOMAIN CutoverSections : \A kind \in Plain : CutoverSections[s][kind] \cap (Excused \cup Stated) = {}
  BY DEF CutoverSections, Keys, Flags, Plain, Excused, Stated, Waivers
<1>3. \A p : p \in ReadBy("cutover", "join") <=>
        p \in {<<"railway_backend_runtime", "worker_service_success_count">>,
           <<"railway_backend_runtime", "required_service_count">>,
           <<"release_promotion_controls", "source_branch">>}
  BY <1>1, ReadOf DEF CutoverSections, Keys, Flags
<1>4. \A p : p \in ReadBy("cutover", "deny") <=> p \in {}
  BY <1>1, ReadOf DEF CutoverSections, Keys, Flags
<1> QED  BY <1>1, <1>2, <1>3, <1>4

LEMMA CutoverMarked ==
  \A p \in AllReadBy("cutover") : \A marker \in CutoverMarkers :
    p[2] \notin MarkedBy(marker) \/ p[2] = "no_service_role_key_in_frontend"
<1>1. SectionsOf("cutover") = CutoverSections
  BY DEF SectionsOf
<1>2. \A s \in DOMAIN CutoverSections : \A kind \in Kinds :
        CutoverSections[s][kind] \cap {"database_url_configured"} = {}
  BY DEF CutoverSections, Keys, Flags, Kinds
<1>3. \A p \in AllReadBy("cutover") :
        p[2] \notin {"database_url_configured"}
  <2> TAKE p \in AllReadBy("cutover")
  <2>1. PICK kind \in Kinds : p \in ReadBy("cutover", kind)
    BY DEF AllReadBy
  <2>2. PICK s \in DOMAIN CutoverSections : \E k \in CutoverSections[s][kind] : p = <<s, k>>
    BY <1>1, <2>1, ReadOf
  <2> QED  BY <1>2, <2>2
<1> QED  BY <1>3 DEF CutoverMarkers, CommonMarkers, ActivationMarkers, MarkedBy

LEMMA PromotionKeys ==
  /\ \A s \in DOMAIN SectionsOf("promotion") : \A kind \in Plain :
       SectionsOf("promotion")[s][kind] \cap (Excused \cup Stated) = {}
  /\ ReadBy("promotion", "join") =
       {<<"production_branch_promotion", "source_branch">>, <<"backend_post_promotion_sync",
           "railway_branch_strategy">>, <<"backend_post_promotion_sync",
           "railway_source_branch_matches_promoted">>, <<"launch_decision_register",
           "launch_decision">>, <<"launch_decision_register", "corpus_gate_status">>,
           <<"launch_decision_register", "supabase_security_exception_status">>,
           <<"launch_decision_register", "sentry_monitoring_status">>,
           <<"launch_decision_register", "npm_audit_status">>, <<"launch_decision_register",
           "conditional_approval_reference">>}
  /\ ReadBy("promotion", "deny") = {}
<1>1. SectionsOf("promotion") = PromotionSections
  BY DEF SectionsOf
<1>2. \A s \in DOMAIN PromotionSections : \A kind \in Plain : PromotionSections[s][kind] \cap (Excused \cup Stated) = {}
  BY DEF PromotionSections, Keys, Flags, Plain, Excused, Stated, Waivers
<1>3. \A p : p \in ReadBy("promotion", "join") <=>
        p \in {<<"production_branch_promotion", "source_branch">>, <<"backend_post_promotion_sync",
           "railway_branch_strategy">>, <<"backend_post_promotion_sync",
           "railway_source_branch_matches_promoted">>, <<"launch_decision_register",
           "launch_decision">>, <<"launch_decision_register", "corpus_gate_status">>,
           <<"launch_decision_register", "supabase_security_exception_status">>,
           <<"launch_decision_register", "sentry_monitoring_status">>,
           <<"launch_decision_register", "npm_audit_status">>, <<"launch_decision_register",
           "conditional_approval_reference">>}
  BY <1>1, ReadOf DEF PromotionSections, Keys, Flags
<1>4. \A p : p \in ReadBy("promotion", "deny") <=> p \in {}
  BY <1>1, ReadOf DEF PromotionSections, Keys, Flags
<1> QED  BY <1>1, <1>2, <1>3, <1>4

LEMMA PromotionMarked ==
  \A p \in AllReadBy("promotion") : \A marker \in PromotionMarkers :
    p[2] \notin MarkedBy(marker)
<1>1. SectionsOf("promotion") = PromotionSections
  BY DEF SectionsOf
<1>2. \A s \in DOMAIN PromotionSections : \A kind \in Kinds :
        PromotionSections[s][kind] \cap {"database_url_configured", "no_service_role_key_in_frontend"} = {}
  BY DEF PromotionSections, Keys, Flags, Kinds
<1>3. \A p \in AllReadBy("promotion") :
        p[2] \notin {"database_url_configured", "no_service_role_key_in_frontend"}
  <2> TAKE p \in AllReadBy("promotion")
  <2>1. PICK kind \in Kinds : p \in ReadBy("promotion", kind)
    BY DEF AllReadBy
  <2>2. PICK s \in DOMAIN PromotionSections : \E k \in PromotionSections[s][kind] : p = <<s, k>>
    BY <1>1, <2>1, ReadOf
  <2> QED  BY <1>2, <2>2
<1> QED  BY <1>3 DEF PromotionMarkers, CommonMarkers, ActivationMarkers, MarkedBy

LEMMA PostLaunchKeys ==
  /\ \A s \in DOMAIN SectionsOf("post_launch") : \A kind \in Plain :
       SectionsOf("post_launch")[s][kind] \cap (Excused \cup Stated) = {}
  /\ ReadBy("post_launch", "join") =
       {}
  /\ ReadBy("post_launch", "deny") = {<<"cost_quota", "paid_fallback_enabled">>}
<1>1. SectionsOf("post_launch") = PostLaunchSections
  BY DEF SectionsOf
<1>2. \A s \in DOMAIN PostLaunchSections : \A kind \in Plain : PostLaunchSections[s][kind] \cap (Excused \cup Stated) = {}
  BY DEF PostLaunchSections, Keys, Flags, Plain, Excused, Stated, Waivers
<1>3. \A p : p \in ReadBy("post_launch", "join") <=>
        p \in {}
  BY <1>1, ReadOf DEF PostLaunchSections, Keys, Flags
<1>4. \A p : p \in ReadBy("post_launch", "deny") <=> p \in {<<"cost_quota", "paid_fallback_enabled">>}
  BY <1>1, ReadOf DEF PostLaunchSections, Keys, Flags
<1> QED  BY <1>1, <1>2, <1>3, <1>4

LEMMA PostLaunchMarked ==
  \A p \in AllReadBy("post_launch") : \A marker \in PostLaunchMarkers :
    p[2] \notin MarkedBy(marker)
<1>1. SectionsOf("post_launch") = PostLaunchSections
  BY DEF SectionsOf
<1>2. \A s \in DOMAIN PostLaunchSections : \A kind \in Kinds :
        PostLaunchSections[s][kind] \cap {"service_role_absent_from_frontend", "no_service_role_key_in_frontend"} = {}
  BY DEF PostLaunchSections, Keys, Flags, Kinds
<1>3. \A p \in AllReadBy("post_launch") :
        p[2] \notin {"service_role_absent_from_frontend", "no_service_role_key_in_frontend"}
  <2> TAKE p \in AllReadBy("post_launch")
  <2>1. PICK kind \in Kinds : p \in ReadBy("post_launch", kind)
    BY DEF AllReadBy
  <2>2. PICK s \in DOMAIN PostLaunchSections : \E k \in PostLaunchSections[s][kind] : p = <<s, k>>
    BY <1>1, <2>1, ReadOf
  <2> QED  BY <1>2, <2>2
<1> QED  BY <1>3 DEF PostLaunchMarkers, CommonMarkers, ActivationMarkers, MarkedBy

\* The file lacks what it lacks; what holds of the keys of a gate; the gate's
\* verdict in terms of what the file lacks.
Lacking(g, lacking, e) ==
  lacking \subseteq AllReadBy(g) /\ \A p \in AllReadBy(g) : e[p] = Told(lacking, p)
Regular(g) ==
  /\ \A s \in DOMAIN SectionsOf(g) : \A kind \in Plain :
       SectionsOf(g)[s][kind] \cap (Excused \cup Stated) = {}
  /\ ReadBy(g, "deny") \subseteq {<<"cost_quota", "paid_fallback_enabled">>}
JudgedBy(g, lacking, e) ==
  /\ EvidenceReady(g, e) <=> lacking \cap PlainOf(g) = {} /\ JoinErrors(g, e) = {}
  /\ (\A p \in lacking : p[2] \in Excused) <=>
       /\ lacking \cap PlainOf(g) = {}
       /\ \A p \in lacking \cap ReadBy(g, "join") : p[2] \in Excused
  /\ lacking \cap PlainOf(g) = {} => lacking \subseteq ReadBy(g, "join") \cup ReadBy(g, "deny")

LEMMA ReadyWithout ==
  ASSUME NEW g, NEW lacking, NEW e, Lacking(g, lacking, e), Regular(g)
  PROVE  JudgedBy(g, lacking, e)
<1> USE DEF Lacking, Regular
<1>1. Kinds = Plain \cup {"deny", "join"}
  BY DEF Kinds, Plain
<1>2. AllReadBy(g) = PlainOf(g) \cup ReadBy(g, "deny") \cup ReadBy(g, "join")
  BY <1>1 DEF AllReadBy, PlainOf
<1>3. \A p \in ReadBy(g, "deny") : Fits(g, "deny", e[p]) /\ p[2] \in Excused
  <2> TAKE p \in ReadBy(g, "deny")
  <2>1. p[2] = "paid_fallback_enabled"
    OBVIOUS
  <2>2. e[p] \in {"absent", "good"}
    BY <1>2, <2>1 DEF Told, CompleteValue
  <2> QED  BY <2>1, <2>2 DEF Fits, Excused
<1>4. \A p \in ReadBy(g, "join") : Fits(g, "join", e[p])
  BY DEF Fits
<1>5. /\ \A p \in PlainOf(g) : p[2] \notin Excused
      /\ (\A kind \in Plain : \A p \in ReadBy(g, kind) : Fits(g, kind, e[p]))
           <=> lacking \cap PlainOf(g) = {}
  BY PlainKeys
<1>6. EvidenceReady(g, e) <=> lacking \cap PlainOf(g) = {} /\ JoinErrors(g, e) = {}
  BY <1>1, <1>3, <1>4, <1>5 DEF EvidenceReady
<1> QED  BY <1>2, <1>3, <1>5, <1>6 DEF JudgedBy

LEMMA ReadinessReady ==
  ASSUME NEW lacking, lacking \subseteq AllReadBy("readiness"), NEW e,
         \A p \in AllReadBy("readiness") : e[p] = Told(lacking, p)
  PROVE  EvidenceReady("readiness", e) <=>
              /\ \A p \in lacking : p[2] \in Excused
              /\ (\E p \in lacking : p[2] = "security_warn_count") =>
                   \A p \in lacking : p[2] \notin Waivers
<1>0. JudgedBy("readiness", lacking, e)
  <2>1. Lacking("readiness", lacking, e)
    BY DEF Lacking
  <2>2. Regular("readiness")
    BY ReadinessKeys DEF Regular
  <2> QED  BY <2>1, <2>2, ReadyWithout
<1>1. /\ EvidenceReady("readiness", e) <=>
           lacking \cap PlainOf("readiness") = {} /\ JoinErrors("readiness", e) = {}
      /\ (\A p \in lacking : p[2] \in Excused) <=>
           /\ lacking \cap PlainOf("readiness") = {}
           /\ \A p \in lacking \cap ReadBy("readiness", "join") : p[2] \in Excused
      /\ lacking \cap PlainOf("readiness") = {} =>
           lacking \subseteq ReadBy("readiness", "join") \cup ReadBy("readiness", "deny")
  BY <1>0 DEF JudgedBy
<1>2. \A p \in ReadBy("readiness", "join") : e[p] = Told(lacking, p)
  BY DEF AllReadBy, Kinds
<1>3. /\ e[<<"database_release", "security_warn_count">>] = Told(lacking, <<"database_release", "security_warn_count">>)
      /\ e[<<"database_release", "managed_platform_warnings_accepted">>] =
           Told(lacking, <<"database_release", "managed_platform_warnings_accepted">>)
  BY <1>2, ReadinessKeys
<1>4. JoinErrors("readiness", e) = {} <=>
        \/ <<"database_release", "security_warn_count">> \notin lacking
        \/ <<"database_release", "managed_platform_warnings_accepted">> \notin lacking
  BY <1>3 DEF JoinErrors, WarningsOpen, Told, CompleteValue
<1> QED  BY <1>1, <1>4, ReadinessKeys DEF Excused, Waivers

LEMMA ActivationReady ==
  ASSUME NEW lacking, lacking \subseteq AllReadBy("activation"), NEW e,
         \A p \in AllReadBy("activation") : e[p] = Told(lacking, p)
  PROVE  EvidenceReady("activation", e) <=>
              /\ \A p \in lacking : p[2] \in Excused
              /\ (\E p \in lacking : p[2] = "security_warn_count") =>
                   \A p \in lacking : p[2] \notin Waivers
<1>0. JudgedBy("activation", lacking, e)
  <2>1. Lacking("activation", lacking, e)
    BY DEF Lacking
  <2>2. Regular("activation")
    BY ActivationKeys DEF Regular
  <2> QED  BY <2>1, <2>2, ReadyWithout
<1>1. /\ EvidenceReady("activation", e) <=>
           lacking \cap PlainOf("activation") = {} /\ JoinErrors("activation", e) = {}
      /\ (\A p \in lacking : p[2] \in Excused) <=>
           /\ lacking \cap PlainOf("activation") = {}
           /\ \A p \in lacking \cap ReadBy("activation", "join") : p[2] \in Excused
      /\ lacking \cap PlainOf("activation") = {} =>
           lacking \subseteq ReadBy("activation", "join") \cup ReadBy("activation", "deny")
  BY <1>0 DEF JudgedBy
<1>2. \A p \in ReadBy("activation", "join") : e[p] = Told(lacking, p)
  BY DEF AllReadBy, Kinds
<1>3. \A k \in {"security_warn_count", "managed_platform_warnings_accepted", "pg_net_public_exception_status"} :
        e[<<"supabase_security", k>>] = IF <<"supabase_security", k>> \in lacking THEN "absent" ELSE "good"
  BY <1>2, ActivationKeys DEF Told, CompleteValue
<1>4. JoinErrors("activation", e) = {} <=>
        \/ <<"supabase_security", "security_warn_count">> \notin lacking
        \/ /\ <<"supabase_security", "managed_platform_warnings_accepted">> \notin lacking
           /\ <<"supabase_security", "pg_net_public_exception_status">> \notin lacking
  BY <1>3 DEF JoinErrors, WarningsOpen
<1> QED  BY <1>1, <1>4, ActivationKeys DEF Excused, Waivers

LEMMA CutoverReady ==
  ASSUME NEW lacking, lacking \subseteq AllReadBy("cutover"), NEW e,
         \A p \in AllReadBy("cutover") : e[p] = Told(lacking, p)
  PROVE  EvidenceReady("cutover", e) <=>
              /\ \A p \in lacking : p[2] \in Excused
              /\ (\E p \in lacking : p[2] = "security_warn_count") =>
                   \A p \in lacking : p[2] \notin Waivers
<1>0. JudgedBy("cutover", lacking, e)
  <2>1. Lacking("cutover", lacking, e)
    BY DEF Lacking
  <2>2. Regular("cutover")
    BY CutoverKeys DEF Regular
  <2> QED  BY <2>1, <2>2, ReadyWithout
<1>1. /\ EvidenceReady("cutover", e) <=>
           lacking \cap PlainOf("cutover") = {} /\ JoinErrors("cutover", e) = {}
      /\ (\A p \in lacking : p[2] \in Excused) <=>
           /\ lacking \cap PlainOf("cutover") = {}
           /\ \A p \in lacking \cap ReadBy("cutover", "join") : p[2] \in Excused
      /\ lacking \cap PlainOf("cutover") = {} =>
           lacking \subseteq ReadBy("cutover", "join") \cup ReadBy("cutover", "deny")
  BY <1>0 DEF JudgedBy
<1>2. \A p \in ReadBy("cutover", "join") : e[p] = Told(lacking, p)
  BY DEF AllReadBy, Kinds
<1>3. /\ e[<<"railway_backend_runtime", "worker_service_success_count">>] =
           IF <<"railway_backend_runtime", "worker_service_success_count">> \in lacking THEN "absent" ELSE "good"
      /\ e[<<"railway_backend_runtime", "required_service_count">>] \in {"absent", "good"}
      /\ e[<<"release_promotion_controls", "source_branch">>] \in {"absent", "good"}
  BY <1>2, CutoverKeys DEF Told, CompleteValue
<1>4. JoinErrors("cutover", e) = {} <=>
        <<"railway_backend_runtime", "worker_service_success_count">> \notin lacking
  BY <1>3 DEF JoinErrors, WorkersMissing, SameBranch
<1> QED  BY <1>1, <1>4, CutoverKeys DEF Excused, Waivers

LEMMA PromotionReady ==
  ASSUME NEW lacking, lacking \subseteq AllReadBy("promotion"), NEW e,
         \A p \in AllReadBy("promotion") : e[p] = Told(lacking, p)
  PROVE  EvidenceReady("promotion", e) <=>
              /\ \A p \in lacking : p[2] \in Excused
              /\ (\E p \in lacking : p[2] = "security_warn_count") =>
                   \A p \in lacking : p[2] \notin Waivers
<1>0. JudgedBy("promotion", lacking, e)
  <2>1. Lacking("promotion", lacking, e)
    BY DEF Lacking
  <2>2. Regular("promotion")
    BY PromotionKeys DEF Regular
  <2> QED  BY <2>1, <2>2, ReadyWithout
<1>1. /\ EvidenceReady("promotion", e) <=>
           lacking \cap PlainOf("promotion") = {} /\ JoinErrors("promotion", e) = {}
      /\ (\A p \in lacking : p[2] \in Excused) <=>
           /\ lacking \cap PlainOf("promotion") = {}
           /\ \A p \in lacking \cap ReadBy("promotion", "join") : p[2] \in Excused
      /\ lacking \cap PlainOf("promotion") = {} =>
           lacking \subseteq ReadBy("promotion", "join") \cup ReadBy("promotion", "deny")
  BY <1>0 DEF JudgedBy
<1>2. \A p \in ReadBy("promotion", "join") : e[p] = Told(lacking, p)
  BY DEF AllReadBy, Kinds
<1>3. /\ e[<<"production_branch_promotion", "source_branch">>] \in {"absent", "good"}
      /\ e[<<"backend_post_promotion_sync", "railway_branch_strategy">>] =
           IF <<"backend_post_promotion_sync", "railway_branch_strategy">> \in lacking THEN "absent"
           ELSE "main_after_merge"
      /\ e[<<"backend_post_promotion_sync", "railway_source_branch_matches_promoted">>] =
           IF <<"backend_post_promotion_sync", "railway_source_branch_matches_promoted">> \in lacking THEN "absent"
           ELSE "good"
  BY <1>2, PromotionKeys DEF Told, CompleteValue
<1>4. \A k \in {"launch_decision", "corpus_gate_status", "supabase_security_exception_status",
               "sentry_monitoring_status", "npm_audit_status", "conditional_approval_reference"} :
        e[<<"launch_decision_register", k>>] =
          IF <<"launch_decision_register", k>> \in lacking THEN "absent" ELSE CompleteValue(k)
  BY <1>2, PromotionKeys DEF Told
<1>5. /\ CompleteValue("launch_decision") = "conditional_go" /\ CompleteValue("corpus_gate_status") = "not_ready"
      /\ CompleteValue("supabase_security_exception_status") = "pending"
      /\ CompleteValue("sentry_monitoring_status") = "accepted_deferred"
      /\ CompleteValue("npm_audit_status") = "accepted_deferred"
      /\ CompleteValue("conditional_approval_reference") = "good"
  BY DEF CompleteValue
<1>6. DecisionErrors(e, "launch_decision_register") = {} <=>
        \A k \in {"launch_decision", "corpus_gate_status", "supabase_security_exception_status",
                 "sentry_monitoring_status", "npm_audit_status", "conditional_approval_reference"} :
          <<"launch_decision_register", k>> \notin lacking
  <2>1. (\A k \in DOMAIN RegisterStatuses : e[<<"launch_decision_register", k>>] \in RegisterStatuses[k]) <=>
          \A k \in {"launch_decision", "corpus_gate_status", "supabase_security_exception_status",
                   "sentry_monitoring_status", "npm_audit_status"} :
            <<"launch_decision_register", k>> \notin lacking
    BY <1>4, <1>5 DEF RegisterStatuses
  <2>2. /\ e[<<"launch_decision_register", "launch_decision">>] # "go"
        /\ <<"launch_decision_register", "launch_decision">> \notin lacking =>
             e[<<"launch_decision_register", "launch_decision">>] = "conditional_go"
    BY <1>4, <1>5
  <2>3. e[<<"launch_decision_register", "conditional_approval_reference">>] = "absent" <=>
          <<"launch_decision_register", "conditional_approval_reference">> \in lacking
    BY <1>4, <1>5
  <2> QED  BY <2>1, <2>2, <2>3 DEF DecisionErrors
<1>7. ASSUME lacking \cap PlainOf("promotion") = {}
      PROVE  JoinErrors("promotion", e) = {} <=>
               \A p \in lacking : p[2] = "source_branch"
  <2>1. ~CommitsDiffer(e, "vercel_production_domain")
    <3>1. SectionsOf("promotion") = PromotionSections
      BY DEF SectionsOf
    <3>2. \A k \in {"production_commit_sha", "promoted_commit_sha"} :
            <<"vercel_production_domain", k>> \in ReadBy("promotion", "text")
      BY <3>1, ReadOf DEF PromotionSections, Keys
    <3>3. \A k \in {"production_commit_sha", "promoted_commit_sha"} :
            e[<<"vercel_production_domain", k>>] \in {"absent", "good"}
      BY <3>2 DEF AllReadBy, Kinds, Told, CompleteValue
    <3>4. e[<<"vercel_production_domain", "production_commit_sha">>] \in {"absent", "good"}
          /\ e[<<"vercel_production_domain", "promoted_commit_sha">>] \in {"absent", "good"}
      BY <3>3
    <3> QED  BY <3>4 DEF CommitsDiffer
  <2>2. Unpromoted(e, "backend_post_promotion_sync") <=>
          \/ <<"backend_post_promotion_sync", "railway_branch_strategy">> \in lacking
          \/ <<"backend_post_promotion_sync", "railway_source_branch_matches_promoted">> \in lacking
    BY <1>3 DEF Unpromoted, Strategies, Spelled
  <2>3. ~SameBranch(e, "production_branch_promotion")
    BY <1>3 DEF SameBranch
  <2>4. JoinErrors("promotion", e) = {} <=>
          /\ ~Unpromoted(e, "backend_post_promotion_sync")
          /\ DecisionErrors(e, "launch_decision_register") = {}
    BY <2>1, <2>3 DEF JoinErrors
  <2> QED  BY <1>1, <1>6, <1>7, <2>2, <2>4, PromotionKeys
<1>8. lacking \cap PlainOf("promotion") = {} =>
        /\ (\A p \in lacking : p[2] \in Excused) <=> \A p \in lacking : p[2] = "source_branch"
        /\ \A p \in lacking : p[2] # "security_warn_count"
  BY <1>1, PromotionKeys DEF Excused, Waivers
<1> QED  BY <1>1, <1>7, <1>8, PromotionKeys DEF Excused, Waivers

LEMMA PostLaunchReady ==
  ASSUME NEW lacking, lacking \subseteq AllReadBy("post_launch"), NEW e,
         \A p \in AllReadBy("post_launch") : e[p] = Told(lacking, p)
  PROVE  EvidenceReady("post_launch", e) <=>
              /\ \A p \in lacking : p[2] \in Excused
              /\ (\E p \in lacking : p[2] = "security_warn_count") =>
                   \A p \in lacking : p[2] \notin Waivers
<1>0. JudgedBy("post_launch", lacking, e)
  <2>1. Lacking("post_launch", lacking, e)
    BY DEF Lacking
  <2>2. Regular("post_launch")
    BY PostLaunchKeys DEF Regular
  <2> QED  BY <2>1, <2>2, ReadyWithout
<1>1. /\ EvidenceReady("post_launch", e) <=>
           lacking \cap PlainOf("post_launch") = {} /\ JoinErrors("post_launch", e) = {}
      /\ (\A p \in lacking : p[2] \in Excused) <=>
           /\ lacking \cap PlainOf("post_launch") = {}
           /\ \A p \in lacking \cap ReadBy("post_launch", "join") : p[2] \in Excused
      /\ lacking \cap PlainOf("post_launch") = {} =>
           lacking \subseteq ReadBy("post_launch", "join") \cup ReadBy("post_launch", "deny")
  BY <1>0 DEF JudgedBy
<1>2. \A p \in ReadBy("post_launch", "join") : e[p] = Told(lacking, p)
  BY DEF AllReadBy, Kinds
<1>3. JoinErrors("post_launch", e) = {}
  BY DEF JoinErrors
<1> QED  BY <1>1, <1>3, PostLaunchKeys DEF Excused, Waivers

LEMMA EvidenceNow ==
  ASSUME WellFormed(case), AskEvidence
  PROVE  EvidenceFailsClosed'
<1> DEFINE g == case.gate
           f == FileOf(case.lacking, {}, AllReadBy(g))
<1> SUFFICES ASSUME case.extra = {}
             PROVE  verdict'.exit = 0 <=>
                      /\ {p[2] : p \in case.lacking} \subseteq Excused
                      /\ "security_warn_count" \in {p[2] : p \in case.lacking} =>
                           {p[2] : p \in case.lacking} \cap Waivers = {}
  <2>1. case' = case
    BY DEF AskEvidence
  <2> QED  BY <2>1 DEF EvidenceFailsClosed, Excused
<1>1. g \in EvidenceGateNames /\ case.lacking \subseteq AllReadBy(g) /\ verdict'.exit = EvidenceGate(g, f)
  BY DEF AskEvidence, WellFormed
<1>2. /\ ~f.plan /\ f.given /\ f.readable /\ f.extra = {}
      /\ \A p \in AllReadBy(g) : f.evidence[p] = Told(case.lacking, p)
  BY FileHolds
<1> HIDE DEF g, f
<1>3. EvidenceReady(g, f.evidence) <=>
        /\ {p[2] : p \in case.lacking} \subseteq Excused
        /\ "security_warn_count" \in {p[2] : p \in case.lacking} =>
             {p[2] : p \in case.lacking} \cap Waivers = {}
  <2> DEFINE lacking == case.lacking
             e == f.evidence
  <2>1. lacking \subseteq AllReadBy(g) /\ \A p \in AllReadBy(g) : e[p] = Told(lacking, p)
    BY <1>1, <1>2
  <2>2. EvidenceReady(g, e) <=> /\ \A p \in lacking : p[2] \in Excused
                                /\ (\E p \in lacking : p[2] = "security_warn_count") =>
                                     \A p \in lacking : p[2] \notin Waivers
    <3> HIDE DEF lacking, e
    <3>1. CASE g = "readiness"
      BY <2>1, <3>1, ReadinessReady
    <3>2. CASE g = "activation"
      BY <2>1, <3>2, ActivationReady
    <3>3. CASE g = "cutover"
      BY <2>1, <3>3, CutoverReady
    <3>4. CASE g = "promotion"
      BY <2>1, <3>4, PromotionReady
    <3>5. CASE g = "post_launch"
      BY <2>1, <3>5, PostLaunchReady
    <3> QED  BY <1>1, <3>1, <3>2, <3>3, <3>4, <3>5 DEF EvidenceGateNames
  <2> QED  BY <2>2
<1>4. CASE g = "readiness"
  <2>1. SecretLike(g, ReadinessMarkers, f) = {}
    BY <1>2, <1>4, ReadinessMarked DEF SecretLike
  <2>2. verdict'.exit = 0 <=> EvidenceReady(g, f.evidence)
    BY <1>1, <1>2, <1>4, <2>1 DEF EvidenceGate, DeploymentGate, EvidenceExit
  <2> QED  BY <1>3, <2>2
<1>5. CASE g = "activation"
  <2>1. SecretLike(g, ActivationMarkers, f) = {}
    BY <1>2, <1>5, ActivationMarked DEF SecretLike
  <2>2. verdict'.exit = 0 <=> EvidenceReady(g, f.evidence)
    BY <1>1, <1>2, <1>5, <2>1 DEF EvidenceGate, ActivationGate, EvidenceExit
  <2> QED  BY <1>3, <2>2
<1>6. CASE g = "cutover"
  <2>1. \A p \in AllReadBy(g) : p[2] = "no_service_role_key_in_frontend" => Attests(g, f.evidence[p])
    BY <1>2, <1>6 DEF Attests, Told, CompleteValue
  <2>2. SecretLike(g, CutoverMarkers, f) = {}
    BY <1>2, <1>6, <2>1, CutoverMarked DEF SecretLike
  <2>3. verdict'.exit = 0 <=> EvidenceReady(g, f.evidence)
    BY <1>1, <1>2, <1>6, <2>2 DEF EvidenceGate, CutoverGate, EvidenceExit
  <2> QED  BY <1>3, <2>3
<1>7. CASE g = "promotion"
  <2>1. SecretLike(g, PromotionMarkers, f) = {}
    BY <1>2, <1>7, PromotionMarked DEF SecretLike
  <2>2. verdict'.exit = 0 <=> EvidenceReady(g, f.evidence)
    BY <1>1, <1>2, <1>7, <2>1 DEF EvidenceGate, PromotionGate, EvidenceExit
  <2> QED  BY <1>3, <2>2
<1>8. CASE g = "post_launch"
  <2>1. SecretLike(g, PostLaunchMarkers, f) = {}
    BY <1>2, <1>8, PostLaunchMarked DEF SecretLike
  <2>2. verdict'.exit = 0 <=> EvidenceReady(g, f.evidence)
    BY <1>1, <1>2, <1>8, <2>1 DEF EvidenceGate, PostLaunchGate, EvidenceExit
  <2> QED  BY <1>3, <2>2
<1> QED  BY <1>1, <1>4, <1>5, <1>6, <1>7, <1>8 DEF EvidenceGateNames

-----------------------------------------------------------------------------
(* An answer is kept: what holds of it when it is given holds from then on.  *)
LEMMA GatesKept ==
  ASSUME WellFormed(case), GatesAreSound, [DecisionNext]_decisionVars
  PROVE  GatesAreSound'
<1>1. EvidenceFailsClosed'
  <2>1. CASE ~Asked("evidence")'
    BY <2>1 DEF EvidenceFailsClosed
  <2>2. CASE Asked("evidence")'
    <3>1. case' = case /\ (verdict' = verdict \/ AskEvidence)
      BY <2>2, AskingEvidence
    <3>2. CASE verdict' = verdict
      BY <3>1, <3>2 DEF GatesAreSound, EvidenceFailsClosed, Asked
    <3> QED  BY <3>1, <3>2, EvidenceNow
  <2> QED  BY <2>1, <2>2
<1>2. ProviderGateCoversAudit'
  <2>1. CASE ~Asked("settings")'
    BY <2>1 DEF ProviderGateCoversAudit
  <2>2. CASE Asked("settings")'
    <3>1. case' = case /\ (verdict' = verdict \/ AskSettings)
      BY <2>2, AskingSettings
    <3>2. CASE verdict' = verdict
      BY <3>1, <3>2 DEF GatesAreSound, ProviderGateCoversAudit, Asked
    <3> QED  BY <3>1, <3>2, AuditCovered
  <2> QED  BY <2>1, <2>2
<1>3. ContractsAgree'
  <2>1. CASE ~Asked("coverage")'
    BY <2>1 DEF ContractsAgree
  <2>2. CASE Asked("coverage")'
    <3>1. case' = case /\ (verdict' = verdict \/ AskCoverage)
      BY <2>2, AskingCoverage
    <3>2. CASE verdict' = verdict
      BY <3>1, <3>2 DEF GatesAreSound, ContractsAgree, Asked
    <3> QED  BY <3>1, <3>2, ContractsNow
  <2> QED  BY <2>1, <2>2
<1>4. FreshOnItsOwn'
  <2>1. CASE ~Asked("coverage")'
    BY <2>1 DEF FreshOnItsOwn
  <2>2. CASE Asked("coverage")'
    <3>1. case' = case /\ (verdict' = verdict \/ AskCoverage)
      BY <2>2, AskingCoverage
    <3>2. CASE verdict' = verdict
      BY <3>1, <3>2 DEF GatesAreSound, FreshOnItsOwn, Asked
    <3> QED  BY <3>1, <3>2, FreshNow
  <2> QED  BY <2>1, <2>2
<1>5. PreparationIsAboutResults'
  <2>1. CASE ~Asked("coverage")'
    BY <2>1 DEF PreparationIsAboutResults
  <2>2. CASE Asked("coverage")'
    <3>1. case' = case /\ (verdict' = verdict \/ AskCoverage)
      BY <2>2, AskingCoverage
    <3>2. CASE verdict' = verdict
      BY <3>1, <3>2 DEF GatesAreSound, PreparationIsAboutResults, Asked
    <3> QED  BY <3>1, <3>2, PreparationNow
  <2> QED  BY <2>1, <2>2
<1>6. ManifestIsComplete'
  <2>1. CASE ~Asked("coverage")'
    BY <2>1 DEF ManifestIsComplete
  <2>2. CASE Asked("coverage")'
    <3>1. case' = case /\ (verdict' = verdict \/ AskCoverage)
      BY <2>2, AskingCoverage
    <3>2. CASE verdict' = verdict
      BY <3>1, <3>2 DEF GatesAreSound, ManifestIsComplete, Asked
    <3> QED  BY <3>1, <3>2, ManifestNow
  <2> QED  BY <2>1, <2>2
<1>7. LaunchIsCovered'
  <2>1. CASE ~Asked("coverage")'
    BY <2>1 DEF LaunchIsCovered
  <2>2. CASE Asked("coverage")'
    <3>1. case' = case /\ (verdict' = verdict \/ AskCoverage)
      BY <2>2, AskingCoverage
    <3>2. CASE verdict' = verdict
      BY <3>1, <3>2 DEF GatesAreSound, LaunchIsCovered, Asked
    <3> QED  BY <3>1, <3>2, LaunchNow
  <2> QED  BY <2>1, <2>2
<1>8. ReleaseTargetsAgree'
  <2>1. CASE ~Asked("release")'
    BY <2>1 DEF ReleaseTargetsAgree
  <2>2. CASE Asked("release")'
    <3>1. case' = case /\ (verdict' = verdict \/ AskRelease)
      BY <2>2, AskingRelease
    <3>2. CASE verdict' = verdict
      BY <3>1, <3>2 DEF GatesAreSound, ReleaseTargetsAgree, Asked
    <3> QED  BY <3>1, <3>2, TargetsNow
  <2> QED  BY <2>1, <2>2
<1>9. ReleaseIsEarned'
  <2>1. CASE ~Asked("release")'
    BY <2>1 DEF ReleaseIsEarned
  <2>2. CASE Asked("release")'
    <3>1. case' = case /\ (verdict' = verdict \/ AskRelease)
      BY <2>2, AskingRelease
    <3>2. CASE verdict' = verdict
      BY <3>1, <3>2 DEF GatesAreSound, ReleaseIsEarned, Asked
    <3> QED  BY <3>1, <3>2, EarnedNow
  <2> QED  BY <2>1, <2>2
<1> QED  BY <1>1, <1>2, <1>3, <1>4, <1>5, <1>6, <1>7, <1>8, <1>9 DEF GatesAreSound

LEMMA GatesAtFirst ==
  ASSUME verdict = Unasked
  PROVE  GatesAreSound
<1>1. \A about \in {"evidence", "settings", "coverage", "release"} : ~Asked(about)
  BY DEF Asked
<1> QED  BY <1>1 DEF GatesAreSound, EvidenceFailsClosed, ProviderGateCoversAudit, ContractsAgree,
               FreshOnItsOwn, PreparationIsAboutResults, ManifestIsComplete, LaunchIsCovered,
               ReleaseTargetsAgree, ReleaseIsEarned

(* For every well-formed case: a gate that opens has what it is to ask for,  *)
(* the copies of a rule agree, and a release that is ready has passed every  *)
(* stage that stands before it.                                              *)
THEOREM GatesStaySound == DecisionSpec => []GatesAreSound
<1>1. DecisionInit => WellFormed(case) /\ GatesAreSound
  BY GivenAtFirst, GatesAtFirst
<1>2. WellFormed(case) /\ GatesAreSound /\ [DecisionNext]_decisionVars => (WellFormed(case) /\ GatesAreSound)'
  BY StillGiven, GatesKept
<1> QED  BY <1>1, <1>2, PTL DEF DecisionSpec

-----------------------------------------------------------------------------
(* The metrics and their recomputation.                                      *)
LEMMA DividesOnce ==
  ASSUME NEW a, NEW b, AtMostOne(a), AtMostOne(b)
  PROVE  AtMostOne(SafeDivide(a, b)) /\ AtMostOne(GrowthRate(a, b)) /\ AtMostOne(Minus(a, b))
BY DEF AtMostOne, SafeDivide, GrowthRate, Minus

LEMMA DividedAgain ==
  ASSUME NEW a, NEW b, a \subseteq Int
  PROVE  Recompute(Ratio(a, b, {})) = SafeDivide(a, b)
<1>1. Recompute(Ratio(a, b, {})) = {Quotient(x * s, y) : x \in a, y \in b \ {0}, s \in {1}}
  BY DEF Recompute, Ratio
<1>2. \A x \in a : x * 1 = x
  OBVIOUS
<1>3. \A q : q \in {Quotient(x * s, y) : x \in a, y \in b \ {0}, s \in {1}} <=> q \in SafeDivide(a, b)
  BY <1>2 DEF SafeDivide
<1> QED  BY <1>1, <1>3

LEMMA DaysAgain ==
  ASSUME NEW a, NEW b
  PROVE  /\ Recompute(Ratio(a, b, {365})) = PerYear(a, b)
         /\ AtMostOne(a) /\ AtMostOne(b) => AtMostOne(PerYear(a, b))
<1> DEFINE again == {Quotient(x * s, y) : x \in a, y \in b \ {0}, s \in {365}}
           yearly == {x * 365 : x \in a}
<1>1. Recompute(Ratio(a, b, {365})) = again
  BY DEF Recompute, Ratio
<1>2. \A q : q \in again <=> q \in SafeDivide(yearly, b)
  BY DEF SafeDivide
<1>3. AtMostOne(a) => AtMostOne(yearly)
  BY DEF AtMostOne
<1>4. PerYear(a, b) = SafeDivide(yearly, b)
  BY DEF PerYear
<1> HIDE DEF again, yearly
<1>5. PerYear(a, b) = again
  BY <1>2, <1>4
<1>6. AtMostOne(a) /\ AtMostOne(b) => AtMostOne(PerYear(a, b))
  BY <1>3, <1>4, DividesOnce
<1> QED  BY <1>1, <1>5, <1>6

LEMMA MetricAgain ==
  ASSUME NEW f \in FactRecords, \A k \in DOMAIN f : AtMostOne(f[k]),
         NEW name \in DOMAIN FinancialMetrics(f)
  PROVE  /\ Recompute(Payload(name, f)) = FinancialMetrics(f)[name]
         /\ AtMostOne(FinancialMetrics(f)[name])
<1> DEFINE m == FinancialMetrics(f)
<1>0. /\ f.revenue \subseteq Int /\ f.ebitda \subseteq Int /\ f.pat \subseteq Int /\ f.cfo \subseteq Int
      /\ f.ebit \subseteq Int /\ f.total_assets \subseteq Int /\ f.current_liabilities \subseteq Int
      /\ AtMostOne(f.revenue) /\ AtMostOne(f.previous_revenue) /\ AtMostOne(f.ebitda) /\ AtMostOne(f.pat)
      /\ AtMostOne(f.cfo) /\ AtMostOne(f.total_debt) /\ AtMostOne(f.cash) /\ AtMostOne(f.ebit)
      /\ AtMostOne(f.interest_expense) /\ AtMostOne(f.total_assets) /\ AtMostOne(f.current_liabilities)
      /\ AtMostOne(f.receivables) /\ AtMostOne(f.inventory) /\ AtMostOne(f.payables) /\ AtMostOne(f.cogs)
  BY DEF FactRecords, Optional
<1>1. name \in {"revenue_growth", "ebitda_margin", "net_margin", "cfo_to_pat", "net_debt_to_ebitda",
               "interest_coverage", "roce", "receivable_days", "inventory_days", "payable_days",
               "cash_conversion_cycle"}
  BY DEF FinancialMetrics
<1>2. CASE name = "revenue_growth"
  <2>1. m[name] = GrowthRate(f.revenue, f.previous_revenue)
    BY <1>2 DEF FinancialMetrics
  <2>2. Recompute(Payload(name, f)) =
          {Quotient(x - y, Magnitude(y)) : x \in f.revenue, y \in f.previous_revenue \ {0}}
    BY <1>2 DEF Payload, Recompute
  <2>3. GrowthRate(f.revenue, f.previous_revenue) =
          {Quotient(x - y, Magnitude(y)) : x \in f.revenue, y \in f.previous_revenue \ {0}}
    BY DEF GrowthRate
  <2>4. AtMostOne(GrowthRate(f.revenue, f.previous_revenue))
    BY <1>0, DividesOnce
  <2> QED  BY <2>1, <2>2, <2>3, <2>4
<1>3. CASE name = "ebitda_margin"
  <2>1. m[name] = SafeDivide(f.ebitda, f.revenue) /\ Payload(name, f) = Ratio(f.ebitda, f.revenue, {})
    BY <1>3 DEF FinancialMetrics, Payload
  <2> QED  BY <1>0, <2>1, DividesOnce, DividedAgain
<1>4. CASE name = "net_margin"
  <2>1. m[name] = SafeDivide(f.pat, f.revenue) /\ Payload(name, f) = Ratio(f.pat, f.revenue, {})
    BY <1>4 DEF FinancialMetrics, Payload
  <2> QED  BY <1>0, <2>1, DividesOnce, DividedAgain
<1>5. CASE name = "cfo_to_pat"
  <2>1. m[name] = SafeDivide(f.cfo, f.pat) /\ Payload(name, f) = Ratio(f.cfo, f.pat, {})
    BY <1>5 DEF FinancialMetrics, Payload
  <2> QED  BY <1>0, <2>1, DividesOnce, DividedAgain
<1>6. CASE name = "interest_coverage"
  <2>1. m[name] = SafeDivide(f.ebit, f.interest_expense) /\ Payload(name, f) = Ratio(f.ebit, f.interest_expense, {})
    BY <1>6 DEF FinancialMetrics, Payload
  <2> QED  BY <1>0, <2>1, DividesOnce, DividedAgain
<1>7. CASE name = "receivable_days"
  <2>1. m[name] = PerYear(f.receivables, f.revenue) /\ Payload(name, f) = Ratio(f.receivables, f.revenue, {365})
    BY <1>7 DEF FinancialMetrics, Payload, ReceivableDays
  <2> QED  BY <1>0, <2>1, DaysAgain
<1>8. CASE name = "inventory_days"
  <2>1. m[name] = PerYear(f.inventory, f.cogs) /\ Payload(name, f) = Ratio(f.inventory, f.cogs, {365})
    BY <1>8 DEF FinancialMetrics, Payload, InventoryDays
  <2> QED  BY <1>0, <2>1, DaysAgain
<1>9. CASE name = "payable_days"
  <2>1. m[name] = PerYear(f.payables, f.cogs) /\ Payload(name, f) = Ratio(f.payables, f.cogs, {365})
    BY <1>9 DEF FinancialMetrics, Payload, PayableDays
  <2> QED  BY <1>0, <2>1, DaysAgain
<1>10. CASE name = "net_debt_to_ebitda"
  <2>1. m[name] = SafeDivide(Minus(f.total_debt, f.cash), f.ebitda)
    BY <1>10 DEF FinancialMetrics
  <2>2. Recompute(Payload(name, f)) =
          {Quotient(x - y, z) : x \in f.total_debt, y \in f.cash, z \in f.ebitda \ {0}}
    BY <1>10 DEF Payload, Recompute
  <2>3. \A q : q \in {Quotient(x - y, z) : x \in f.total_debt, y \in f.cash, z \in f.ebitda \ {0}}
                 <=> q \in SafeDivide(Minus(f.total_debt, f.cash), f.ebitda)
    BY DEF SafeDivide, Minus
  <2>4. AtMostOne(m[name])
    BY <1>0, <2>1, DividesOnce
  <2> DEFINE again == {Quotient(x - y, z) : x \in f.total_debt, y \in f.cash, z \in f.ebitda \ {0}}
             ratio == SafeDivide(Minus(f.total_debt, f.cash), f.ebitda)
  <2>5. Recompute(Payload(name, f)) = again /\ m[name] = ratio /\ (\A q : q \in again <=> q \in ratio)
    BY <2>1, <2>2, <2>3
  <2> HIDE DEF again, ratio
  <2> QED  BY <2>4, <2>5
<1>11. CASE name = "roce"
  <2> DEFINE again == {Quotient(x, y - z) : x \in f.ebit, y \in f.total_assets,
                         z \in {n \in f.current_liabilities : n \notin f.total_assets}}
  <2>1. m[name] = SafeDivide(f.ebit, Minus(f.total_assets, f.current_liabilities))
    BY <1>11 DEF FinancialMetrics
  <2>2. Recompute(Payload(name, f)) = again
    BY <1>11 DEF Payload, Recompute
  <2>3. \A y \in f.total_assets, z \in f.current_liabilities : y - z # 0 <=> z \notin f.total_assets
    BY <1>0 DEF AtMostOne
  <2>4. \A q : q \in again <=> q \in SafeDivide(f.ebit, Minus(f.total_assets, f.current_liabilities))
    BY <2>3 DEF SafeDivide, Minus
  <2>5. AtMostOne(m[name])
    BY <1>0, <2>1, DividesOnce
  <2> HIDE DEF again
  <2> QED  BY <2>1, <2>2, <2>4, <2>5
<1>12. CASE name = "cash_conversion_cycle"
  <2>1. m[name] = CashConversionCycle(f)
    BY <1>12 DEF FinancialMetrics
  <2>2. Recompute(Payload(name, f)) =
          {QuotientMinus(QuotientSum(r, i), z) :
             r \in ReceivableDays(f), i \in InventoryDays(f), z \in PayableDays(f)}
    BY <1>12 DEF Payload, Recompute
  <2>3. AtMostOne(ReceivableDays(f)) /\ AtMostOne(InventoryDays(f)) /\ AtMostOne(PayableDays(f))
    BY <1>0, DaysAgain DEF ReceivableDays, InventoryDays, PayableDays
  <2>4. AtMostOne(m[name])
    BY <2>1, <2>3 DEF AtMostOne, CashConversionCycle
  <2> QED  BY <2>1, <2>2, <2>4 DEF CashConversionCycle
<1> QED  BY <1>1, <1>2, <1>3, <1>4, <1>5, <1>6, <1>7, <1>8, <1>9, <1>10, <1>11, <1>12

LEMMA RecomputedNow ==
  ASSUME WellFormed(case), AskFacts
  PROVE  RecomputationAgrees'
<1> DEFINE f == case.facts
<1>1. f \in FactRecords /\ \A k \in DOMAIN f : AtMostOne(f[k])
  BY DEF AskFacts, WellFormed
<1>2. /\ verdict'.metrics = FinancialMetrics(f)
      /\ verdict'.recomputed = [name \in DOMAIN FinancialMetrics(f) |-> Recompute(Payload(name, f))]
  BY DEF AskFacts
<1> HIDE DEF f
<1>3. \A name \in DOMAIN verdict'.metrics :
        verdict'.recomputed[name] = verdict'.metrics[name] /\ AtMostOne(verdict'.metrics[name])
  BY <1>1, <1>2, MetricAgain
<1> QED  BY <1>3 DEF RecomputationAgrees, AtMostOne, SameQuotient

-----------------------------------------------------------------------------
(* The way of a claim to the report.                                         *)
\* A claim with another grade.
Regraded(c, d) ==
  /\ DOMAIN d = DOMAIN c /\ d.agent = c.agent /\ d.type = c.type /\ d.evidence = c.evidence
  /\ d.metric = c.metric /\ d.value = c.value /\ d.unit = c.unit /\ d.period = c.period
  /\ d.current = c.current /\ d.materiality = c.materiality

LEMMA GradeKeeps ==
  ASSUME NEW c \in ClaimRecords, NEW ev
  PROVE  Regraded(c, ValidateClaim(c, ev))
<1>1. \A s, n : Regraded(c, Graded(c, s, n))
  BY DEF Graded, ClaimRecords, Regraded
<1>2. \A s, n : Regraded(c, Capped(c, s, n))
  BY <1>1 DEF Capped
<1>3. \A d : Regraded(c, d) => Regraded(c, [d EXCEPT !.uncorroborated = TRUE])
  BY DEF Regraded, ClaimRecords
<1>4. \A s, n : Regraded(c, [Capped(c, s, n) EXCEPT !.uncorroborated = TRUE])
  BY <1>2, <1>3
<1> DEFINE graded == ValidateClaim(c, ev)
<1>5. \/ \E s, n : graded = Capped(c, s, n)
      \/ \E s, n : graded = [Capped(c, s, n) EXCEPT !.uncorroborated = TRUE]
      \/ \E s, n : graded = Graded(c, s, n)
  BY DEF ValidateClaim
<1> HIDE DEF graded
<1>6. Regraded(c, graded)
  BY <1>1, <1>2, <1>4, <1>5
<1> QED  BY <1>6 DEF graded

LEMMA GradeSays ==
  ASSUME NEW c \in ClaimRecords, NEW ev
  PROVE  LET d == ValidateClaim(c, ev) IN
         /\ Linked(c, ev) = {} /\ c.type # "scenario" => d.status = "unsupported"
         /\ Linked(c, ev) # {} /\ d.status \in Admissible /\ ~d.uncorroborated =>
              \/ OnlyAi(c, ev) /\ d.confidence <= 65
              \/ ~(HighImpact(c) /\ ~HasPrimary(c, ev) /\ Cardinality(DistinctSources(c, ev)) < 2)
<1> DEFINE d == ValidateClaim(c, ev)
<1>1. \A s, n : Graded(c, s, n).status = s /\ Graded(c, s, n).confidence = n
  BY DEF Graded, ClaimRecords
<1>2. \A s : \A n \in Int : Capped(c, s, n).status = s /\ Capped(c, s, n).confidence <= n
  BY <1>1 DEF Capped, Least, ClaimRecords
<1>3. Linked(c, ev) = {} /\ c.type # "scenario" => d.status = "unsupported"
  BY <1>2 DEF ValidateClaim
<1>4. ASSUME Linked(c, ev) # {}, d.status \in Admissible, ~d.uncorroborated,
             HighImpact(c) /\ ~HasPrimary(c, ev) /\ Cardinality(DistinctSources(c, ev)) < 2
      PROVE  OnlyAi(c, ev) /\ d.confidence <= 65
  <2>1. ~(c.current /\ \A i \in Linked(c, ev) : ev[i].freshness \notin {"live", "near_live"})
    <3> SUFFICES ASSUME c.current, \A i \in Linked(c, ev) : ev[i].freshness \notin {"live", "near_live"}
                 PROVE  d.status = "stale"
      BY <1>4 DEF Admissible
    <3> QED  BY <1>2, <1>4 DEF ValidateClaim
  <2>2. ~(c.type = "calculation" /\ \E r \in c.recomputed : c.value # {} /\ r \notin c.value)
    <3> SUFFICES ASSUME c.type = "calculation", \E r \in c.recomputed : c.value # {} /\ r \notin c.value
                 PROVE  d.status = "contested"
      BY <1>4 DEF Admissible
    <3> QED  BY <1>2, <1>4, <2>1 DEF ValidateClaim
  <2>3. OnlyAi(c, ev)
    <3> SUFFICES ASSUME ~OnlyAi(c, ev)  PROVE FALSE
      OBVIOUS
    <3> DEFINE s == IF c.type \in Opinion THEN "inferred" ELSE "supported"
    <3>1. d = [Capped(c, s, 55) EXCEPT !.uncorroborated = TRUE]
      BY <1>4, <2>1, <2>2 DEF ValidateClaim
    <3>2. "uncorroborated" \in DOMAIN Capped(c, s, 55)
      BY DEF Capped, Graded, ClaimRecords
    <3> HIDE DEF s
    <3>3. d.uncorroborated
      BY <3>1, <3>2
    <3> QED  BY <1>4, <3>3
  <2>4. d = IF c.type \in Opinion THEN Capped(c, "inferred", 65) ELSE Capped(c, "supported", 60)
    BY <1>4, <2>1, <2>2, <2>3 DEF ValidateClaim
  <2>5. d.confidence <= 65
    <3>1. CASE c.type \in Opinion
      BY <1>2, <2>4, <3>1
    <3>2. CASE c.type \notin Opinion
      <4>1. Capped(c, "supported", 60).confidence <= 60 /\ Capped(c, "supported", 60).confidence \in Int
        BY <1>1, <1>2 DEF Capped, Least, ClaimRecords
      <4> QED  BY <2>4, <3>2, <4>1
    <3> QED  BY <3>1, <3>2
  <2> QED  BY <2>3, <2>5
<1> QED  BY <1>3, <1>4

Rivals(cs, i) ==
  {n \in DOMAIN cs : /\ Reconciles(cs[i]) /\ Reconciles(cs[n])
                     /\ cs[n].metric = cs[i].metric /\ cs[n].period = cs[i].period}

\* What reaches the report is as it was graded and has not lost.
LEMMA AdmittedAsGraded ==
  ASSUME NEW cs, NEW ev, \A n \in DOMAIN cs : "status" \in DOMAIN cs[n],
         NEW i \in Admitted(ReconcileConflicts(cs, ev))
  PROVE  /\ i \in DOMAIN cs /\ ReconcileConflicts(cs, ev)[i] = cs[i]
         /\ i \notin Losing(cs, Rivals(cs, i), ev) /\ cs[i].status \in Admissible
<1> DEFINE after == ReconcileConflicts(cs, ev)
<1>1. after = [n \in DOMAIN cs |-> IF n \in Losing(cs, Rivals(cs, n), ev)
                                    THEN Capped(cs[n], "contested", 50) ELSE cs[n]]
  BY DEF ReconcileConflicts, Rivals
<1>2. \A n \in DOMAIN cs : Capped(cs[n], "contested", 50).status \notin Admissible
  BY DEF Capped, Graded, Admissible
<1>3. i \in DOMAIN after /\ after[i].status \in Admissible
  BY DEF Admitted
<1> HIDE DEF after
<1>4. i \in DOMAIN cs /\ i \notin Losing(cs, Rivals(cs, i), ev)
  BY <1>1, <1>2, <1>3
<1>5. after[i] = cs[i]
  BY <1>1, <1>4
<1> QED  BY <1>3, <1>4, <1>5 DEF after

LEMMA AtMostOneIsFinite ==
  ASSUME NEW S, AtMostOne(S)
  PROVE  IsFiniteSet(S) /\ Cardinality(S) <= 1
<1>1. CASE S = {}
  BY <1>1, FS_EmptySet
<1>2. CASE S # {}
  <2>1. PICK x : S = {x}
    BY <1>2 DEF AtMostOne
  <2>2. IsFiniteSet({x}) /\ Cardinality({x}) = 1
    BY FS_Singleton
  <2> QED  BY <2>1, <2>2
<1> QED  BY <1>1, <1>2

LEMMA ComparedOnce ==
  ASSUME NEW c, AtMostOne(c.value)
  PROVE  AtMostOne(ComparableValue(c)) /\ AtMostOne({v.value : v \in ComparableValue(c)})
<1>1. AtMostOne(ComparableValue(c))
  BY DEF AtMostOne, ComparableValue
<1> QED  BY <1>1 DEF AtMostOne

(* Of two rivals that are both left, neither contradicts the other: the      *)
(* values agree, or only one of them was the best.                           *)
LEMMA RivalsAgree ==
  ASSUME NEW cs, NEW ev, NEW R, IsFiniteSet(R), NEW i \in R, NEW n \in R, i # n,
         \A k \in R : AtMostOne(cs[k].value),
         i \notin Losing(cs, R, ev), n \notin Losing(cs, R, ev)
  PROVE  Agree(ComparableValue(cs[i]) \cup ComparableValue(cs[n]))
<1> DEFINE comparable == {k \in R : ComparableValue(cs[k]) # {}}
           valid == UNION {ComparableValue(cs[k]) : k \in comparable}
           best == {k \in R : \A m \in R : SourcePriority(cs[k], ev) <= SourcePriority(cs[m], ev)}
           worth == {v.value : v \in valid}
           one == [k \in R |-> CHOOSE x : x \in {v.value : v \in ComparableValue(cs[k])}]
<1>1. IsFiniteSet(best) /\ Cardinality(best) = 1 => ~(i \in best /\ n \in best)
  <2>1. IsFiniteSet(best) /\ Cardinality(best) = 1 => \E x : best = {x}
    <3> HIDE DEF best
    <3> QED  BY FS_Singleton
  <2> HIDE DEF best
  <2> QED  BY <2>1
<1>2. IsFiniteSet(best)
  <2>1. best \subseteq R
    OBVIOUS
  <2> HIDE DEF best
  <2> QED  BY <2>1, FS_Subset
<1>3. Cardinality(R) >= 2
  <2>1. IsFiniteSet({i, n}) /\ Cardinality({i, n}) = 2
    <3>1. IsFiniteSet({i}) /\ Cardinality({i}) = 1
      BY FS_Singleton
    <3>2. IsFiniteSet({i} \cup {n}) /\ Cardinality({i} \cup {n}) = Cardinality({i}) + 1
      BY <3>1, FS_AddElement
    <3>3. {i} \cup {n} = {i, n}
      OBVIOUS
    <3> QED  BY <3>1, <3>2, <3>3
  <2>2. {i, n} \subseteq R
    OBVIOUS
  <2>3. Cardinality({i, n}) <= Cardinality(R) /\ Cardinality(R) \in Nat
    BY <2>2, FS_Subset, FS_CardinalityType
  <2> QED  BY <2>1, <2>3
<1>4. Agree(valid)
  <2> SUFFICES ASSUME ~Agree(valid)  PROVE FALSE
    OBVIOUS
  <2> DEFINE bad == \/ Cardinality(comparable) < 2
                    \/ Cardinality({v.family : v \in valid}) # 1
                    \/ Cardinality({v.currency : v \in valid} \ {Unspecified}) > 1
  <2>1. ~(Cardinality(R) < 2)
    <3>1. Cardinality(R) \in Nat
      BY FS_CardinalityType
    <3> QED  BY <1>3, <3>1
  <2>2. Losing(cs, R, ev) = IF bad THEN R ELSE IF Agree(valid) THEN {}
                            ELSE IF Cardinality(best) = 1 THEN R \ best ELSE R
    BY <2>1 DEF Losing
  <2> HIDE DEF bad, best, valid
  <2>3. Cardinality(best) = 1 /\ i \in best /\ n \in best
    BY <2>2
  <2> QED  BY <1>1, <1>2, <2>3
<1>5. IsFiniteSet(worth)
  <2>1. \A k \in R : \A v \in ComparableValue(cs[k]) : v.value = one[k]
    <3> SUFFICES ASSUME NEW k \in R, NEW v \in ComparableValue(cs[k])  PROVE v.value = one[k]
      OBVIOUS
    <3> DEFINE values == {w.value : w \in ComparableValue(cs[k])}
    <3>1. AtMostOne(values)
      BY ComparedOnce
    <3>2. v.value \in values /\ one[k] = CHOOSE x : x \in values
      OBVIOUS
    <3> HIDE DEF values, one
    <3>3. one[k] \in values
      BY <3>2
    <3> QED  BY <3>1, <3>2, <3>3 DEF AtMostOne
  <2>2. worth \subseteq {one[k] : k \in R}
    <3> SUFFICES ASSUME NEW v \in valid  PROVE v.value \in {one[k] : k \in R}
      OBVIOUS
    <3>1. PICK k \in R : v \in ComparableValue(cs[k])
      OBVIOUS
    <3> QED  BY <2>1, <3>1
  <2>3. IsFiniteSet({one[k] : k \in R})
    <3> HIDE DEF one
    <3> QED  BY ImageIsFinite
  <2> HIDE DEF worth, one
  <2> QED  BY <2>2, <2>3, FS_Subset
<1>6. {v.value : v \in ComparableValue(cs[i]) \cup ComparableValue(cs[n])} \subseteq worth
  OBVIOUS
<1>7. Cardinality(worth) <= 1
  BY <1>4 DEF Agree
<1> DEFINE both == {v.value : v \in ComparableValue(cs[i]) \cup ComparableValue(cs[n])}
<1>8. Cardinality(both) <= 1
  <2>1. both \subseteq worth
    BY <1>6
  <2> HIDE DEF both, worth
  <2>2. IsFiniteSet(both) /\ Cardinality(both) <= Cardinality(worth)
    BY <1>5, <2>1, FS_Subset
  <2> QED  BY <1>5, <1>7, <2>2, FS_CardinalityType
<1> QED  BY <1>8 DEF Agree

\* Every claim is graded and then, if it has a rival, reconciled.
LEMMA ClaimAnswer ==
  ASSUME WellFormed(case), AskClaims
  PROVE  LET cs == case.claims  ev == case.evidence
             graded == [i \in DOMAIN cs |-> ValidateClaim(cs[i], ev)] IN
         /\ case' = case /\ verdict'.claims = ReconcileConflicts(graded, ev)
         /\ verdict'.thesis = Thesis(verdict'.claims) /\ verdict'.catalysts = Catalysts(verdict'.claims)
         /\ IsFiniteSet(DOMAIN cs)
         /\ \A i \in DOMAIN cs : /\ cs[i] \in ClaimRecords /\ AtMostOne(cs[i].value)
                                 /\ IsFiniteSet(cs[i].evidence)
         /\ \A i \in DOMAIN graded : /\ "status" \in DOMAIN graded[i] /\ AtMostOne(graded[i].value)
                                     /\ Regraded(cs[i], graded[i])
<1> DEFINE cs == case.claims
           ev == case.evidence
           graded == [i \in DOMAIN cs |-> ValidateClaim(cs[i], ev)]
<1>1. case' = case /\ ClaimsGiven(case)
  BY DEF AskClaims, WellFormed
<1>2. Validate(cs, ev) = ReconcileConflicts(graded, ev)
  BY DEF Validate
<1>3. /\ verdict'.claims = Validate(cs, ev) /\ verdict'.thesis = Thesis(Validate(cs, ev))
      /\ verdict'.catalysts = Catalysts(Validate(cs, ev))
  <2> HIDE DEF cs, ev
  <2> QED  BY DEF AskClaims, cs, ev
<1>4. /\ cs \in Seq(ClaimRecords)
      /\ \A i \in DOMAIN cs : AtMostOne(cs[i].value) /\ IsFiniteSet(cs[i].evidence)
  BY <1>1 DEF ClaimsGiven
<1> HIDE DEF cs, ev
<1>5. IsFiniteSet(DOMAIN cs) /\ \A i \in DOMAIN cs : cs[i] \in ClaimRecords
  <2>1. DOMAIN cs = 1..Len(cs) /\ Len(cs) \in Nat
    BY <1>4
  <2>2. IsFiniteSet(1..Len(cs))
    BY <2>1, FS_Interval
  <2> QED  BY <1>4, <2>1, <2>2
<1>6. \A i \in DOMAIN graded : /\ "status" \in DOMAIN graded[i] /\ AtMostOne(graded[i].value)
                               /\ Regraded(cs[i], graded[i])
  <2> SUFFICES ASSUME NEW i \in DOMAIN cs
               PROVE  /\ "status" \in DOMAIN graded[i] /\ AtMostOne(graded[i].value)
                      /\ Regraded(cs[i], graded[i])
    OBVIOUS
  <2>1. cs[i] \in ClaimRecords /\ graded[i] = ValidateClaim(cs[i], ev)
    BY <1>5
  <2>2. Regraded(cs[i], graded[i])
    BY <2>1, GradeKeeps
  <2>3. "status" \in DOMAIN cs[i]
    BY <2>1 DEF ClaimRecords
  <2> HIDE DEF graded
  <2> QED  BY <1>4, <2>2, <2>3 DEF Regraded
<1> HIDE DEF graded
<1> QED  BY <1>1, <1>2, <1>3, <1>4, <1>5, <1>6 DEF cs, ev, graded

LEMMA AgreedNow ==
  ASSUME WellFormed(case), AskClaims
  PROVE  NoContradictionSurvives'
<1> DEFINE cs == case.claims
           ev == case.evidence
           graded == [i \in DOMAIN cs |-> ValidateClaim(cs[i], ev)]
           after == ReconcileConflicts(graded, ev)
<1>1. case' = case /\ verdict'.claims = after
  BY ClaimAnswer
<1>2. \A i \in Admitted(after) : /\ i \in DOMAIN cs /\ after[i] = graded[i]
                                 /\ i \notin Losing(graded, Rivals(graded, i), ev)
                                 /\ graded[i].status \in Admissible
  <2>1. \A i \in DOMAIN graded : "status" \in DOMAIN graded[i]
    BY ClaimAnswer
  <2>2. DOMAIN graded = DOMAIN cs
    OBVIOUS
  <2> HIDE DEF graded
  <2> QED  BY <2>1, <2>2, AdmittedAsGraded
<1>3. \A i \in DOMAIN cs : /\ Regraded(cs[i], graded[i]) /\ AtMostOne(graded[i].value)
                           /\ cs[i] \in ClaimRecords
  BY ClaimAnswer
<1> SUFFICES ASSUME NEW i \in Admitted(after)
             PROVE  /\ Linked(graded[i], ev) = {} => graded[i].type = "scenario"
                    /\ \A n \in Admitted(after) :
                         /\ graded[i].metric # Unspecified /\ graded[i].metric = graded[n].metric
                         /\ graded[i].period = graded[n].period
                         => Agree(ComparableValue(graded[i]) \cup ComparableValue(graded[n]))
  <2> HIDE DEF graded, after
  <2> QED  BY <1>1, <1>2 DEF NoContradictionSurvives, ev
<1>4. Linked(graded[i], ev) = {} => graded[i].type = "scenario"
  <2> SUFFICES ASSUME Linked(graded[i], ev) = {}, graded[i].type # "scenario"  PROVE FALSE
    OBVIOUS
  <2>1. i \in DOMAIN cs /\ graded[i].status \in Admissible
    BY <1>2
  <2>2. Linked(cs[i], ev) = {} /\ cs[i].type # "scenario"
    <3>1. Regraded(cs[i], graded[i])
      BY <1>3, <2>1
    <3> HIDE DEF cs, ev, graded
    <3> QED  BY <3>1 DEF Linked, Regraded
  <2>3. graded[i].status = "unsupported"
    <3>1. ValidateClaim(cs[i], ev).status = "unsupported"
      <4> HIDE DEF cs, ev, graded
      <4> QED  BY <1>3, <2>1, <2>2, GradeSays
    <3> QED  BY <2>1, <3>1
  <2> QED  BY <2>1, <2>3 DEF Admissible
<1>5. ASSUME NEW n \in Admitted(after), graded[i].metric # Unspecified,
             graded[i].metric = graded[n].metric, graded[i].period = graded[n].period
      PROVE  Agree(ComparableValue(graded[i]) \cup ComparableValue(graded[n]))
  <2> DEFINE x == graded[i]
             y == graded[n]
             both == {v.value : v \in ComparableValue(x) \cup ComparableValue(y)}
  <2>1. AtMostOne(x.value) /\ AtMostOne(y.value)
    BY <1>2, <1>3
  <2>2. ComparableValue(x) # {} => x.value # {}
    BY DEF ComparableValue
  <2>3. ComparableValue(y) # {} => y.value # {}
    BY DEF ComparableValue
  <2>4. CASE x.value = {} \/ y.value = {} \/ i = n
    <3>1. AtMostOne(both)
      <4>1. AtMostOne({v.value : v \in ComparableValue(x)}) /\ AtMostOne({v.value : v \in ComparableValue(y)})
        BY <2>1, ComparedOnce
      <4>2. both = {v.value : v \in ComparableValue(x)} \/ both = {v.value : v \in ComparableValue(y)}
        <5> HIDE DEF x, y
        <5>1. CASE x.value = {}
          BY <2>2, <5>1
        <5>2. CASE y.value = {}
          BY <2>3, <5>2
        <5>3. CASE i = n
          <6>1. x = y
            BY <5>3 DEF x, y
          <6> QED  BY <6>1
        <5> QED  BY <2>4, <5>1, <5>2, <5>3
      <4> HIDE DEF both, x, y
      <4> QED  BY <4>1, <4>2
    <3> HIDE DEF both, x, y
    <3>2. Cardinality(both) <= 1
      BY <3>1, AtMostOneIsFinite
    <3> QED  BY <3>2 DEF Agree, both, x, y
  <2>5. CASE x.value # {} /\ y.value # {} /\ i # n
    <3> DEFINE R == Rivals(graded, i)
    <3>1. x.status \in Admissible /\ y.status \in Admissible
      BY <1>2
    <3>2. Reconciles(x) /\ Reconciles(y)
      <4> HIDE DEF x, y
      <4>1. x.metric # Unspecified /\ y.metric # Unspecified
        BY <1>5 DEF x, y
      <4> QED  BY <2>5, <3>1, <4>1 DEF Reconciles, Admissible
    <3>3. Rivals(graded, n) = R /\ i \in R /\ n \in R
      <4>1. i \in DOMAIN graded /\ n \in DOMAIN graded
        BY <1>2
      <4> HIDE DEF graded
      <4> QED  BY <1>5, <3>2, <4>1 DEF Rivals
    <3>4. IsFiniteSet(R) /\ \A k \in R : AtMostOne(graded[k].value)
      <4>1. R \subseteq DOMAIN cs
        BY DEF Rivals
      <4>2. IsFiniteSet(DOMAIN cs)
        BY ClaimAnswer
      <4> HIDE DEF R, graded, cs
      <4> QED  BY <1>3, <4>1, <4>2, FS_Subset
    <3>5. i \notin Losing(graded, R, ev) /\ n \notin Losing(graded, R, ev)
      BY <1>2, <3>3
    <3> HIDE DEF R, graded, ev, cs
    <3> QED  BY <2>5, <3>3, <3>4, <3>5, RivalsAgree
  <2> QED  BY <2>4, <2>5
<1> QED  BY <1>4, <1>5

LEMMA CorroboratedNow ==
  ASSUME WellFormed(case), AskClaims
  PROVE  HighImpactIsCorroborated'
<1> DEFINE cs == case.claims
           ev == case.evidence
           graded == [i \in DOMAIN cs |-> ValidateClaim(cs[i], ev)]
           after == ReconcileConflicts(graded, ev)
<1>1. case' = case /\ verdict'.claims = after /\ verdict'.thesis = Thesis(after)
      /\ verdict'.catalysts = Catalysts(after)
  BY ClaimAnswer
<1>2. \A i \in Admitted(after) : /\ i \in DOMAIN cs /\ after[i] = graded[i]
                                 /\ graded[i].status \in Admissible
  <2>1. \A i \in DOMAIN graded : "status" \in DOMAIN graded[i]
    BY ClaimAnswer
  <2>2. DOMAIN graded = DOMAIN cs
    OBVIOUS
  <2> HIDE DEF graded
  <2> QED  BY <2>1, <2>2, AdmittedAsGraded
<1> SUFFICES ASSUME NEW i \in Thesis(after) \cup Catalysts(after), HighImpact(cs[i]),
                    Linked(after[i], ev) # {}
             PROVE  \/ HasPrimary(after[i], ev)
                    \/ Cardinality(DistinctSources(after[i], ev)) >= 2
                    \/ OnlyAi(after[i], ev) /\ after[i].confidence <= 65
  <2> HIDE DEF graded, after
  <2> QED  BY <1>1 DEF HighImpactIsCorroborated, ev, cs
<1>3. i \in Admitted(after) /\ ~after[i].uncorroborated
  <2> HIDE DEF after
  <2> QED  BY DEF Thesis, Catalysts
<1>4. /\ i \in DOMAIN cs /\ after[i] = graded[i] /\ graded[i] = ValidateClaim(cs[i], ev)
      /\ graded[i].status \in Admissible
  BY <1>2, <1>3
<1>5. /\ cs[i] \in ClaimRecords /\ Regraded(cs[i], graded[i]) /\ IsFiniteSet(cs[i].evidence)
  BY <1>4, ClaimAnswer
<1> HIDE DEF cs, ev, graded, after
<1>6. /\ Linked(graded[i], ev) = Linked(cs[i], ev)
      /\ HasPrimary(graded[i], ev) <=> HasPrimary(cs[i], ev)
      /\ DistinctSources(graded[i], ev) = DistinctSources(cs[i], ev)
      /\ OnlyAi(graded[i], ev) <=> OnlyAi(cs[i], ev)
  <2>1. graded[i].evidence = cs[i].evidence
    BY <1>5 DEF Regraded
  <2> QED  BY <2>1 DEF Linked, HasPrimary, DistinctSources, OnlyAi
<1>7. \/ OnlyAi(cs[i], ev) /\ graded[i].confidence <= 65
      \/ HasPrimary(cs[i], ev) \/ ~(Cardinality(DistinctSources(cs[i], ev)) < 2)
  <2>1. /\ Linked(cs[i], ev) # {} /\ ValidateClaim(cs[i], ev).status \in Admissible
        /\ ~ValidateClaim(cs[i], ev).uncorroborated
    BY <1>3, <1>4, <1>6
  <2>2. \/ OnlyAi(cs[i], ev) /\ ValidateClaim(cs[i], ev).confidence <= 65
        \/ ~(HighImpact(cs[i]) /\ ~HasPrimary(cs[i], ev) /\ Cardinality(DistinctSources(cs[i], ev)) < 2)
    BY <1>5, <2>1, GradeSays
  <2> QED  BY <1>4, <2>2
<1>8. Cardinality(DistinctSources(cs[i], ev)) \in Nat
  <2> DEFINE S == {n \in Linked(cs[i], ev) : ev[n].type # "ai_extraction"}
             source == [n \in S |-> <<ev[n].type, ev[n].uri>>]
  <2>1. S \subseteq cs[i].evidence
    BY DEF Linked
  <2>2. DistinctSources(cs[i], ev) = {source[n] : n \in S}
    BY DEF DistinctSources
  <2> HIDE DEF S, source
  <2>3. IsFiniteSet(S)
    BY <1>5, <2>1, FS_Subset
  <2>4. IsFiniteSet(DistinctSources(cs[i], ev))
    BY <2>2, <2>3, ImageIsFinite
  <2> QED  BY <2>4, FS_CardinalityType
<1> QED  BY <1>4, <1>6, <1>7, <1>8

LEMMA ReportKept ==
  ASSUME WellFormed(case), ReportIsSupported, [DecisionNext]_decisionVars
  PROVE  ReportIsSupported'
<1>1. PlansNameSpecialists'
  <2>1. CASE ~Asked("plan")'
    BY <2>1 DEF PlansNameSpecialists
  <2>2. CASE Asked("plan")'
    <3>1. case' = case /\ (verdict' = verdict \/ AskPlan)
      BY <2>2, AskingPlan
    <3>2. CASE verdict' = verdict
      BY <3>1, <3>2 DEF ReportIsSupported, PlansNameSpecialists, Asked
    <3> QED  BY <3>1, <3>2, PlansNow
  <2> QED  BY <2>1, <2>2
<1>2. RecomputationAgrees'
  <2>1. CASE ~Asked("facts")'
    BY <2>1 DEF RecomputationAgrees
  <2>2. CASE Asked("facts")'
    <3>1. case' = case /\ (verdict' = verdict \/ AskFacts)
      BY <2>2, AskingFacts
    <3>2. CASE verdict' = verdict
      BY <3>1, <3>2 DEF ReportIsSupported, RecomputationAgrees, Asked
    <3> QED  BY <3>1, <3>2, RecomputedNow
  <2> QED  BY <2>1, <2>2
<1>3. NoContradictionSurvives'
  <2>1. CASE ~Asked("claims")'
    BY <2>1 DEF NoContradictionSurvives
  <2>2. CASE Asked("claims")'
    <3>1. case' = case /\ (verdict' = verdict \/ AskClaims)
      BY <2>2, AskingClaims
    <3>2. CASE verdict' = verdict
      BY <3>1, <3>2 DEF ReportIsSupported, NoContradictionSurvives, Asked
    <3> QED  BY <3>1, <3>2, AgreedNow
  <2> QED  BY <2>1, <2>2
<1>4. HighImpactIsCorroborated'
  <2>1. CASE ~Asked("claims")'
    BY <2>1 DEF HighImpactIsCorroborated
  <2>2. CASE Asked("claims")'
    <3>1. case' = case /\ (verdict' = verdict \/ AskClaims)
      BY <2>2, AskingClaims
    <3>2. CASE verdict' = verdict
      BY <3>1, <3>2 DEF ReportIsSupported, HighImpactIsCorroborated, Asked
    <3> QED  BY <3>1, <3>2, CorroboratedNow
  <2> QED  BY <2>1, <2>2
<1> QED  BY <1>1, <1>2, <1>3, <1>4 DEF ReportIsSupported

LEMMA ReportAtFirst ==
  ASSUME verdict = Unasked
  PROVE  ReportIsSupported
<1>1. \A about \in {"plan", "facts", "claims"} : ~Asked(about)
  BY DEF Asked
<1> QED  BY <1>1 DEF ReportIsSupported, PlansNameSpecialists, RecomputationAgrees,
               NoContradictionSurvives, HighImpactIsCorroborated

(* For every well-formed case: what reaches a report was computed twice with *)
(* one result, contradicts nothing else in it, and a claim of great weight   *)
(* rests on a primary source, on two sources, or says that it does not.      *)
THEOREM ReportStaysSupported == DecisionSpec => []ReportIsSupported
<1>1. DecisionInit => WellFormed(case) /\ ReportIsSupported
  BY GivenAtFirst, ReportAtFirst
<1>2. WellFormed(case) /\ ReportIsSupported /\ [DecisionNext]_decisionVars
        => (WellFormed(case) /\ ReportIsSupported)'
  BY StillGiven, ReportKept
<1> QED  BY <1>1, <1>2, PTL DEF DecisionSpec

-----------------------------------------------------------------------------
(* What drove a move.                                                        *)
LEMMA DriverMirrored ==
  ASSUME NEW x \in Int, x # 0, NEW t
  PROVE  Driver(t, -x) = Mirrored(Driver(t, x))
BY DEF Driver, Mirrored, Direction

\* The moves that are worth a driver, their drivers, and these with the other
\* direction.
StockMoves(v) == {x \in v.stock : Magnitude(x) >= 100}
RelativeMoves(v) == {x \in FirstOf(v.relative_sector, v.relative_benchmark) : Magnitude(x) >= 75}
MarketMoves(v) == {x \in v.benchmark : Magnitude(x) >= 75 /\ \E s \in v.stock : SameDirection(s, x)}
SectorMoves(v) ==
  {x \in v.sector : /\ Magnitude(x) >= 75
                    /\ \E s \in v.stock : SameDirection(s, x)
                    /\ \A r \in v.relative_sector : Magnitude(r) < 100 \/ Magnitude(r) < Magnitude(x)}
DriversOf(t, S) == {Driver(t, n) : n \in S}
Turned(D) == {Mirrored(d) : d \in D}

LEMMA PartMirrored ==
  ASSUME NEW S, S \subseteq Int \ {0}, NEW N, N \subseteq Int, \A n \in Int : n \in N <=> -n \in S, NEW t
  PROVE  DriversOf(t, N) = Turned(DriversOf(t, S))
<1>1. \A n \in N : -n \in S /\ Driver(t, n) = Mirrored(Driver(t, -n))
  <2> TAKE n \in N
  <2>1. -n \in S /\ -n # 0 /\ -n \in Int /\ -(-n) = n
    OBVIOUS
  <2> QED  BY <2>1, DriverMirrored
<1>2. \A x \in S : -x \in N /\ Mirrored(Driver(t, x)) = Driver(t, -x)
  <2> TAKE x \in S
  <2>1. -x \in Int /\ -(-x) = x
    OBVIOUS
  <2> QED  BY <2>1, DriverMirrored
<1>3. \A e : e \in {Driver(t, n) : n \in N} <=> e \in {Mirrored(d) : d \in {Driver(t, x) : x \in S}}
  BY <1>1, <1>2
<1> QED  BY <1>3 DEF DriversOf, Turned

LEMMA MirroredNow ==
  ASSUME WellFormed(case), AskMove
  PROVE  MovesMirror'
<1> DEFINE m == case.moves
           w == Negative(m)
<1>1. case' = case /\ m \in MoveRecords /\ verdict'.drivers = MoveDrivers(m)
  BY DEF AskMove, WellFormed
<1> HIDE DEF m
<1>2. \A v : MoveDrivers(v) = DriversOf("absolute_stock_move", StockMoves(v)) \cup DriversOf("stock_specific_relative_move", RelativeMoves(v))
                              \cup DriversOf("broad_market_factor", MarketMoves(v)) \cup DriversOf("sector_factor", SectorMoves(v))
  BY DEF MoveDrivers, DriversOf, StockMoves, RelativeMoves, MarketMoves, SectorMoves
<1>3. /\ m.stock \subseteq Int /\ m.benchmark \subseteq Int /\ m.sector \subseteq Int
      /\ m.relative_benchmark \subseteq Int /\ m.relative_sector \subseteq Int
  BY <1>1 DEF MoveRecords, Optional
<1>4. /\ w.stock = {-n : n \in m.stock} /\ w.benchmark = {-n : n \in m.benchmark}
      /\ w.sector = {-n : n \in m.sector} /\ w.relative_benchmark = {-n : n \in m.relative_benchmark}
      /\ w.relative_sector = {-n : n \in m.relative_sector}
  BY <1>1 DEF Negative, MoveRecords
<1> HIDE DEF w
<1>5. \A X \in SUBSET Int : {-n : n \in X} \subseteq Int /\ \A n \in Int : n \in {-k : k \in X} <=> -n \in X
  <2> TAKE X \in SUBSET Int
  <2>1. \A n \in Int : -(-n) = n
    OBVIOUS
  <2> QED  BY <2>1
<1>6. /\ w.stock \subseteq Int /\ w.benchmark \subseteq Int /\ w.sector \subseteq Int
      /\ w.relative_benchmark \subseteq Int /\ w.relative_sector \subseteq Int
      /\ \A n \in Int : /\ n \in w.stock <=> -n \in m.stock
                        /\ n \in w.benchmark <=> -n \in m.benchmark
                        /\ n \in w.sector <=> -n \in m.sector
                        /\ n \in w.relative_benchmark <=> -n \in m.relative_benchmark
                        /\ n \in w.relative_sector <=> -n \in m.relative_sector
  BY <1>3, <1>4, <1>5
<1>7. \A n \in Int : -n \in Int /\ -(-n) = n /\ Magnitude(-n) = Magnitude(n)
  BY DEF Magnitude
<1>8. /\ StockMoves(m) \subseteq Int \ {0} /\ RelativeMoves(m) \subseteq Int \ {0}
      /\ MarketMoves(m) \subseteq Int \ {0} /\ SectorMoves(m) \subseteq Int \ {0}
      /\ StockMoves(w) \subseteq Int /\ RelativeMoves(w) \subseteq Int /\ MarketMoves(w) \subseteq Int /\ SectorMoves(w) \subseteq Int
  BY <1>3, <1>6 DEF Magnitude, FirstOf, StockMoves, RelativeMoves, MarketMoves, SectorMoves
<1>9. \A n \in Int : n \in StockMoves(w) <=> -n \in StockMoves(m)
  BY <1>6, <1>7 DEF StockMoves
<1>10. \A n \in Int : n \in RelativeMoves(w) <=> -n \in RelativeMoves(m)
  <2>1. w.relative_sector = {} <=> m.relative_sector = {}
    BY <1>4
  <2>2. \A n \in Int : n \in FirstOf(w.relative_sector, w.relative_benchmark)
                         <=> -n \in FirstOf(m.relative_sector, m.relative_benchmark)
    BY <1>6, <2>1 DEF FirstOf
  <2> QED  BY <1>7, <2>2 DEF RelativeMoves
<1>11. \A n \in Int : (\E s \in w.stock : SameDirection(s, n)) <=> \E s \in m.stock : SameDirection(s, -n)
  <2> TAKE n \in Int
  <2>1. \A s \in Int : SameDirection(s, n) <=> SameDirection(-s, -n)
    BY DEF SameDirection
  <2>2. ASSUME NEW s \in w.stock, SameDirection(s, n)  PROVE \E z \in m.stock : SameDirection(z, -n)
    <3>1. s \in Int /\ -s \in m.stock
      BY <1>6
    <3> QED  BY <2>1, <2>2, <3>1
  <2>3. ASSUME NEW s \in m.stock, SameDirection(s, -n)  PROVE \E z \in w.stock : SameDirection(z, n)
    <3>1. s \in Int /\ -s \in Int /\ -(-s) = s
      BY <1>3
    <3>2. -s \in w.stock
      BY <1>6, <3>1
    <3>3. SameDirection(-s, n)
      BY <2>1, <2>3, <3>1
    <3> QED  BY <3>2, <3>3
  <2> QED  BY <2>2, <2>3
<1>12. \A n \in Int : n \in MarketMoves(w) <=> -n \in MarketMoves(m)
  BY <1>6, <1>7, <1>11 DEF MarketMoves
<1>13. \A n \in Int : n \in SectorMoves(w) <=> -n \in SectorMoves(m)
  <2> TAKE n \in Int
  <2> DEFINE Small(r) == Magnitude(r) < 100 \/ Magnitude(r) < Magnitude(n)
  <2>1. (\A r \in w.relative_sector : Small(r)) <=> \A r \in m.relative_sector : Small(r)
    <3>1. \A r \in Int : Small(r) <=> Small(-r)
      BY <1>7
    <3>2. \A r \in m.relative_sector : r \in Int /\ -r \in w.relative_sector
      BY <1>3, <1>4
    <3>3. \A r \in w.relative_sector : r \in Int /\ -r \in m.relative_sector
      BY <1>6
    <3> HIDE DEF Small
    <3> QED  BY <3>1, <3>2, <3>3
  <2>2. Magnitude(-n) = Magnitude(n)
    BY <1>7
  <2> QED  BY <1>6, <1>11, <2>1, <2>2 DEF SectorMoves
<1>14. /\ DriversOf("absolute_stock_move", StockMoves(w)) = Turned(DriversOf("absolute_stock_move", StockMoves(m)))
       /\ DriversOf("stock_specific_relative_move", RelativeMoves(w)) = Turned(DriversOf("stock_specific_relative_move", RelativeMoves(m)))
       /\ DriversOf("broad_market_factor", MarketMoves(w)) = Turned(DriversOf("broad_market_factor", MarketMoves(m)))
       /\ DriversOf("sector_factor", SectorMoves(w)) = Turned(DriversOf("sector_factor", SectorMoves(m)))
  <2>1. DriversOf("absolute_stock_move", StockMoves(w)) = Turned(DriversOf("absolute_stock_move", StockMoves(m)))
    BY <1>8, <1>9, PartMirrored
  <2>2. DriversOf("stock_specific_relative_move", RelativeMoves(w))
          = Turned(DriversOf("stock_specific_relative_move", RelativeMoves(m)))
    BY <1>8, <1>10, PartMirrored
  <2>3. DriversOf("broad_market_factor", MarketMoves(w)) = Turned(DriversOf("broad_market_factor", MarketMoves(m)))
    BY <1>8, <1>12, PartMirrored
  <2>4. DriversOf("sector_factor", SectorMoves(w)) = Turned(DriversOf("sector_factor", SectorMoves(m)))
    BY <1>8, <1>13, PartMirrored
  <2> QED  BY <2>1, <2>2, <2>3, <2>4
<1>15. \A A, B, C, D : Turned(A \cup B \cup C \cup D) = Turned(A) \cup Turned(B) \cup Turned(C) \cup Turned(D)
  BY DEF Turned
<1>16. MoveDrivers(w) = Turned(MoveDrivers(m))
  <2>1. MoveDrivers(w) = DriversOf("absolute_stock_move", StockMoves(w))
                         \cup DriversOf("stock_specific_relative_move", RelativeMoves(w))
                         \cup DriversOf("broad_market_factor", MarketMoves(w))
                         \cup DriversOf("sector_factor", SectorMoves(w))
    BY <1>2
  <2>2. MoveDrivers(m) = DriversOf("absolute_stock_move", StockMoves(m))
                         \cup DriversOf("stock_specific_relative_move", RelativeMoves(m))
                         \cup DriversOf("broad_market_factor", MarketMoves(m))
                         \cup DriversOf("sector_factor", SectorMoves(m))
    BY <1>2
  <2>3. Turned(MoveDrivers(m)) = Turned(DriversOf("absolute_stock_move", StockMoves(m)))
                         \cup Turned(DriversOf("stock_specific_relative_move", RelativeMoves(m)))
                         \cup Turned(DriversOf("broad_market_factor", MarketMoves(m)))
                         \cup Turned(DriversOf("sector_factor", SectorMoves(m)))
    BY <1>15, <2>2
  <2> QED  BY <1>14, <2>1, <2>3
<1> QED  BY <1>1, <1>16 DEF MovesMirror, Turned, m, w

-----------------------------------------------------------------------------
(* What changed.                                                             *)
LEMMA RewordedNow ==
  ASSUME WellFormed(case), AskChanges
  PROVE  RewordedIsNotNew'
<1>1. /\ case' = case /\ verdict'.changes = WhatChanged(case.snapshots, case.current)
      /\ case.current \subseteq ItemRecords /\ AtMostOne(case.snapshots)
      /\ \A s \in case.snapshots : s \subseteq ItemRecords
  BY DEF AskChanges, WellFormed
<1> SUFFICES ASSUME NEW s \in case.snapshots, NEW c \in case.current, NEW d \in s,
                    c.event # "" \/ c.metric # "" \/ c.title # "",
                    c = [d EXCEPT !.statement = c.statement]
             PROVE  c \notin verdict'.changes.new /\ d \notin verdict'.changes.resolved
  BY <1>1 DEF RewordedIsNotNew
<1>2. c \in ItemRecords /\ d \in ItemRecords
  BY <1>1
<1>3. ClaimKey(c) = ClaimKey(d)
  <2>1. /\ c.event = d.event /\ c.metric = d.metric /\ c.title = d.title /\ c.agent = d.agent
        /\ c.type = d.type /\ c.uri = d.uri
    BY <1>2 DEF ItemRecords
  <2> QED  BY <2>1 DEF ClaimKey
<1>4. case.snapshots = {s}
  BY <1>1 DEF AtMostOne
<1>5. /\ verdict'.changes.new = NewItems(case.current, s)
      /\ verdict'.changes.resolved = NewItems(s, case.current)
  <2> DEFINE New(T) == UNION {NewItems(case.current, t) : t \in T}
             Gone(T) == UNION {NewItems(t, case.current) : t \in T}
  <2>1. verdict'.changes.new = New(case.snapshots) /\ verdict'.changes.resolved = Gone(case.snapshots)
    <3>1. case.snapshots # {}
      BY <1>4
    <3> DEFINE changes == WhatChanged(case.snapshots, case.current)
    <3>2. changes.new = New(case.snapshots) /\ changes.resolved = Gone(case.snapshots)
      BY <3>1 DEF WhatChanged
    <3>3. verdict'.changes = changes
      BY <1>1
    <3> HIDE DEF New, Gone, changes
    <3> QED  BY <3>2, <3>3
  <2>2. \A x : x \in New({s}) <=> x \in NewItems(case.current, s)
    OBVIOUS
  <2>3. \A x : x \in Gone({s}) <=> x \in NewItems(s, case.current)
    OBVIOUS
  <2>4. New(case.snapshots) = New({s}) /\ Gone(case.snapshots) = Gone({s})
    BY <1>4
  <2>5. New({s}) = NewItems(case.current, s)
    <3> HIDE DEF New
    <3> QED  BY <2>2
  <2>6. Gone({s}) = NewItems(s, case.current)
    <3> HIDE DEF Gone
    <3> QED  BY <2>3
  <2> HIDE DEF New, Gone
  <2> QED  BY <2>1, <2>4, <2>5, <2>6
<1> QED  BY <1>3, <1>5 DEF NewItems

-----------------------------------------------------------------------------
(* Signals.                                                                  *)
Factors(v) == {f.factor : f \in MacroFlags(v)}

LEMMA FlagsTurned ==
  ASSUME NEW e \in [usd_inr : Optional, brent : Optional, fii : Optional],
         \A k \in DOMAIN e : AtMostOne(e[k])
  PROVE  /\ Factors(Negative(e)) = Factors(e)
         /\ \A f \in MacroFlags(e), h \in MacroFlags(Negative(e)) : f.factor = h.factor => f.risk # h.risk
<1> DEFINE w == Negative(e)
<1>1. /\ e.usd_inr \subseteq Int /\ e.brent \subseteq Int /\ e.fii \subseteq Int
      /\ AtMostOne(e.usd_inr) /\ AtMostOne(e.brent) /\ AtMostOne(e.fii)
  BY DEF Optional
<1>2. /\ w.usd_inr = {-n : n \in e.usd_inr} /\ w.brent = {-n : n \in e.brent} /\ w.fii = {-n : n \in e.fii}
  BY DEF Negative
<1> HIDE DEF w
<1>3. \A v : MacroFlags(v) =
        {[factor |-> "usd_inr", risk |-> x > 0] : x \in {y \in v.usd_inr : Magnitude(y) >= 1}}
        \cup {[factor |-> "brent", risk |-> x > 0] : x \in {y \in v.brent : Magnitude(y) >= 3}}
        \cup {[factor |-> "fii_cash_flow", risk |-> ~(x > 0)] : x \in {y \in v.fii : Magnitude(y) >= 1000}}
  BY DEF MacroFlags
<1>4. \A n \in Int : Magnitude(-n) = Magnitude(n)
  BY DEF Magnitude
<1>5. \A v, k : k \in Factors(v) <=>
        \/ k = "usd_inr" /\ \E x \in v.usd_inr : Magnitude(x) >= 1
        \/ k = "brent" /\ \E x \in v.brent : Magnitude(x) >= 3
        \/ k = "fii_cash_flow" /\ \E x \in v.fii : Magnitude(x) >= 1000
  <2> TAKE v, k
  <2>1. \A f \in MacroFlags(v) :
          \/ f.factor = "usd_inr" /\ \E x \in v.usd_inr : Magnitude(x) >= 1
          \/ f.factor = "brent" /\ \E x \in v.brent : Magnitude(x) >= 3
          \/ f.factor = "fii_cash_flow" /\ \E x \in v.fii : Magnitude(x) >= 1000
    BY <1>3
  <2>2. /\ \A x \in v.usd_inr : Magnitude(x) >= 1 => [factor |-> "usd_inr", risk |-> x > 0] \in MacroFlags(v)
        /\ \A x \in v.brent : Magnitude(x) >= 3 => [factor |-> "brent", risk |-> x > 0] \in MacroFlags(v)
        /\ \A x \in v.fii : Magnitude(x) >= 1000 =>
             [factor |-> "fii_cash_flow", risk |-> ~(x > 0)] \in MacroFlags(v)
    BY <1>3
  <2>3. /\ \A x \in v.usd_inr : Magnitude(x) >= 1 => \E f \in MacroFlags(v) : f.factor = "usd_inr"
        /\ \A x \in v.brent : Magnitude(x) >= 3 => \E f \in MacroFlags(v) : f.factor = "brent"
        /\ \A x \in v.fii : Magnitude(x) >= 1000 => \E f \in MacroFlags(v) : f.factor = "fii_cash_flow"
    BY <2>2
  <2> QED  BY <2>1, <2>3 DEF Factors
<1>6. /\ (\E x \in w.usd_inr : Magnitude(x) >= 1) <=> \E x \in e.usd_inr : Magnitude(x) >= 1
      /\ (\E x \in w.brent : Magnitude(x) >= 3) <=> \E x \in e.brent : Magnitude(x) >= 3
      /\ (\E x \in w.fii : Magnitude(x) >= 1000) <=> \E x \in e.fii : Magnitude(x) >= 1000
  BY <1>1, <1>2, <1>4
<1>7. Factors(w) = Factors(e)
  <2>1. \A k : k \in Factors(w) <=> k \in Factors(e)
    BY <1>5, <1>6
  <2>2. \A k : k \in {f.factor : f \in MacroFlags(w)} <=> k \in {f.factor : f \in MacroFlags(e)}
    BY <2>1 DEF Factors
  <2> QED  BY <2>2 DEF Factors
<1>8. ASSUME NEW f \in MacroFlags(e), NEW h \in MacroFlags(w), f.factor = h.factor  PROVE f.risk # h.risk
  <2>1. \/ f.factor = "usd_inr" /\ \E x \in e.usd_inr : Magnitude(x) >= 1 /\ (f.risk = (x > 0))
        \/ f.factor = "brent" /\ \E x \in e.brent : Magnitude(x) >= 3 /\ (f.risk = (x > 0))
        \/ f.factor = "fii_cash_flow" /\ \E x \in e.fii : Magnitude(x) >= 1000 /\ (f.risk = ~(x > 0))
    BY <1>3
  <2>2. \/ h.factor = "usd_inr" /\ \E x \in w.usd_inr : Magnitude(x) >= 1 /\ (h.risk = (x > 0))
        \/ h.factor = "brent" /\ \E x \in w.brent : Magnitude(x) >= 3 /\ (h.risk = (x > 0))
        \/ h.factor = "fii_cash_flow" /\ \E x \in w.fii : Magnitude(x) >= 1000 /\ (h.risk = ~(x > 0))
    BY <1>3
  <2>3. \A x, y \in Int : Magnitude(x) >= 1 /\ y = -x => (x > 0 <=> ~(y > 0))
    BY DEF Magnitude
  <2>4. /\ \A x \in e.usd_inr, y \in w.usd_inr : x \in Int /\ y \in Int /\ y = -x
        /\ \A x \in e.brent, y \in w.brent : x \in Int /\ y \in Int /\ y = -x
        /\ \A x \in e.fii, y \in w.fii : x \in Int /\ y \in Int /\ y = -x
    BY <1>1, <1>2 DEF AtMostOne
  <2>5. \A x \in Int : (Magnitude(x) >= 3 \/ Magnitude(x) >= 1000) => Magnitude(x) >= 1
    BY DEF Magnitude
  <2> QED  BY <1>8, <2>1, <2>2, <2>3, <2>4, <2>5
<1> QED  BY <1>7, <1>8 DEF w

LEMMA SignalledNow ==
  ASSUME WellFormed(case), AskSignals
  PROVE  SignalsAreStable'
<1>1. /\ case' = case /\ SignalsGiven(case)
      /\ verdict'.risks = FilingRisks(case.filing) \cup GovernanceRisks(case.governance)
      /\ verdict'.macro = MacroFlags(case.economy)
      /\ verdict'.sentiment = Sentiment(case.positive, case.negative)
  BY DEF AskSignals, WellFormed
<1>2. ASSUME \/ /\ case.filing.source \in FilingSources
                /\ \/ case.filing.section = "auditor_resignation"
                   \/ {"auditor", "resign"} \subseteq case.filing.words
             \/ case.governance.auditor
      PROVE  \E r \in verdict'.risks : r.severity = "high"
  <2>1. Signal("auditor_filing", "high").severity = "high" /\ Signal("auditor_resignation", "high").severity = "high"
    BY DEF Signal
  <2>2. CASE /\ case.filing.source \in FilingSources
             /\ \/ case.filing.section = "auditor_resignation"
                \/ {"auditor", "resign"} \subseteq case.filing.words
    <3>1. FilingRisks(case.filing) = {Signal("auditor_filing", "high")}
      BY <2>2 DEF FilingRisks
    <3> QED  BY <1>1, <2>1, <3>1
  <2>3. CASE case.governance.auditor
    <3>1. case.governance.auditor \in BOOLEAN
      BY <1>1 DEF SignalsGiven
    <3>2. Signal("auditor_resignation", "high") \in
            {Signal("auditor_resignation", "high") : b \in {x \in {case.governance.auditor} : x}}
      BY <2>3, <3>1
    <3>3. Signal("auditor_resignation", "high") \in GovernanceRisks(case.governance)
      BY <3>2 DEF GovernanceRisks
    <3> QED  BY <1>1, <2>1, <3>3
  <2> QED  BY <1>2, <2>2, <2>3
<1>3. /\ Factors(Negative(case.economy)) = Factors(case.economy)
      /\ \A f \in verdict'.macro, h \in MacroFlags(Negative(case.economy)) :
           f.factor = h.factor => f.risk # h.risk
  BY <1>1, FlagsTurned DEF SignalsGiven
<1>4. Sentiment(case.negative, case.positive) =
        [positive |-> "negative", negative |-> "positive", neutral |-> "neutral"][verdict'.sentiment]
  <2>1. case.positive \in Nat /\ case.negative \in Nat
    BY <1>1 DEF SignalsGiven
  <2> QED  BY <1>1, <2>1 DEF Sentiment
<1> QED  BY <1>1, <1>2, <1>3, <1>4 DEF SignalsAreStable, Factors

-----------------------------------------------------------------------------
(* Accounts in another unit of money.                                        *)
LEMMA TenTimes ==
  ASSUME NEW p \in Int, NEW q \in Int
  PROVE  (10 * p) * (10 * q) = 100 * (p * q)
OBVIOUS

\* A fraction in two units, with the sign of its denominator moved.
Pair(t) == t = <<t[1], t[2]>> /\ t[1] \in Int /\ t[2] \in Int
Tenfold(r, t) == Pair(t) /\ Pair(r) /\ r[1] = 10 * t[1] /\ r[2] = 10 * t[2]

LEMMA QuotientInTens ==
  ASSUME NEW a \in Int, NEW b \in Int
  PROVE  Tenfold(Quotient(10 * a, 10 * b), Quotient(a, b))
<1>1. (10 * b < 0) <=> (b < 0)
  OBVIOUS
<1>2. -(10 * a) = 10 * (-a) /\ -(10 * b) = 10 * (-b)
  OBVIOUS
<1> QED  BY <1>1, <1>2 DEF Tenfold, Pair, Quotient

LEMMA BelowInTens ==
  ASSUME NEW s, NEW t, NEW u, NEW v, Tenfold(s, u), Tenfold(t, v)
  PROVE  Below(s, t) <=> Below(u, v)
<1>1. s[1] * t[2] = 100 * (u[1] * v[2]) /\ t[1] * s[2] = 100 * (v[1] * u[2])
  <2>1. s[1] * t[2] = (10 * u[1]) * (10 * v[2]) /\ t[1] * s[2] = (10 * v[1]) * (10 * u[2])
    BY DEF Tenfold
  <2> QED  BY <2>1, TenTimes DEF Tenfold, Pair
<1>2. u[1] * v[2] \in Int /\ v[1] * u[2] \in Int
  BY DEF Tenfold, Pair
<1> QED  BY <1>1, <1>2 DEF Below

LEMMA SumInTens ==
  ASSUME NEW s, NEW t, NEW u, NEW v, Tenfold(s, u), Tenfold(t, v)
  PROVE  SameQuotient(QuotientSum(u, v), QuotientSum(s, t))
<1> DEFINE n == u[1] * v[2] + v[1] * u[2]
           d == u[2] * v[2]
<1>1. /\ s[1] * t[2] = 100 * (u[1] * v[2]) /\ t[1] * s[2] = 100 * (v[1] * u[2])
      /\ s[2] * t[2] = 100 * (u[2] * v[2])
  <2>1. /\ s[1] * t[2] = (10 * u[1]) * (10 * v[2]) /\ t[1] * s[2] = (10 * v[1]) * (10 * u[2])
        /\ s[2] * t[2] = (10 * u[2]) * (10 * v[2])
    BY DEF Tenfold
  <2> QED  BY <2>1, TenTimes DEF Tenfold, Pair
<1>2. /\ u[1] * v[2] \in Int /\ v[1] * u[2] \in Int /\ d \in Int
  BY DEF Tenfold, Pair
<1>3. QuotientSum(u, v) = <<n, d>> /\ QuotientSum(s, t) = <<100 * n, 100 * d>>
  BY <1>1, <1>2 DEF QuotientSum
<1>4. n \in Int
  BY <1>2
<1> HIDE DEF n, d
<1>5. n * (100 * d) = (100 * n) * d
  BY <1>2, <1>4
<1> QED  BY <1>3, <1>5 DEF SameQuotient

\* Two years in tens of the unit.
InTens(w, y) ==
  /\ w.pat = 10 * y.pat /\ w.cfo = 10 * y.cfo /\ w.assets = 10 * y.assets /\ w.debt = 10 * y.debt
  /\ w.current_assets = 10 * y.current_assets /\ w.current_liabilities = 10 * y.current_liabilities
  /\ w.shares = y.shares /\ w.revenue = 10 * y.revenue /\ w.cogs = 10 * y.cogs
  /\ w.retained = 10 * y.retained /\ w.ebit = 10 * y.ebit /\ w.market_cap = 10 * y.market_cap
  /\ w.liabilities = 10 * y.liabilities /\ w.depreciation = 10 * y.depreciation /\ w.ppe = 10 * y.ppe
  /\ w.receivables = 10 * y.receivables /\ w.sga = 10 * y.sga

LEMMA AccountsInTens ==
  ASSUME NEW y \in YearRecords
  PROVE  InTens(InUnit(y, 10), y)
BY DEF InUnit, InTens, YearRecords

Tens(p, a) == a \in Int /\ p = 10 * a

LEMMA RatioInTens ==
  ASSUME NEW a, NEW b, NEW c, NEW d, NEW p, NEW q, NEW r, NEW t,
         Tens(p, a), Tens(q, b), Tens(r, c), Tens(t, d)
  PROVE  Below(Quotient(p, q), Quotient(r, t)) <=> Below(Quotient(a, b), Quotient(c, d))
<1>1. Tenfold(Quotient(p, q), Quotient(a, b)) /\ Tenfold(Quotient(r, t), Quotient(c, d))
  BY QuotientInTens DEF Tens
<1> QED  BY <1>1, BelowInTens

LEMMA SignalWhen ==
  ASSUME NEW now, NEW before
  PROVE  LET nine == NineSignals(now, before) IN
         /\ "profit" \in nine <=> now.pat > 0
         /\ "cash" \in nine <=> now.cfo > 0
         /\ "accruals" \in nine <=> now.cfo > now.pat
         /\ "shares" \in nine <=> now.shares <= before.shares
         /\ "roa" \in nine <=>
              Below(Quotient(before.pat, before.assets), Quotient(now.pat, now.assets))
         /\ "leverage" \in nine <=>
              Below(Quotient(now.debt, now.assets), Quotient(before.debt, before.assets))
         /\ "liquidity" \in nine <=>
              Below(Quotient(before.current_assets, before.current_liabilities),
                    Quotient(now.current_assets, now.current_liabilities))
         /\ "margin" \in nine <=>
              Below(Quotient(before.revenue - before.cogs, before.revenue),
                    Quotient(now.revenue - now.cogs, now.revenue))
         /\ "turnover" \in nine <=>
              Below(Quotient(before.revenue, before.assets), Quotient(now.revenue, now.assets))
BY DEF NineSignals

LEMMA SignalsInTens ==
  ASSUME NEW now \in YearRecords, NEW before \in YearRecords, NEW later, NEW earlier,
         InTens(later, now), InTens(earlier, before)
  PROVE  NineSignals(later, earlier) = NineSignals(now, before)
<1>1. /\ later.pat > 0 <=> now.pat > 0
      /\ later.cfo > 0 <=> now.cfo > 0
      /\ later.cfo > later.pat <=> now.cfo > now.pat
      /\ later.shares <= earlier.shares <=> now.shares <= before.shares
  BY DEF InTens, YearRecords
<1>2. /\ Tens(earlier.pat, before.pat) /\ Tens(earlier.assets, before.assets)
      /\ Tens(later.pat, now.pat) /\ Tens(later.assets, now.assets)
      /\ Tens(later.debt, now.debt) /\ Tens(earlier.debt, before.debt)
      /\ Tens(earlier.current_assets, before.current_assets)
      /\ Tens(later.current_assets, now.current_assets)
      /\ Tens(earlier.current_liabilities, before.current_liabilities)
      /\ Tens(later.current_liabilities, now.current_liabilities)
      /\ Tens(earlier.revenue, before.revenue) /\ Tens(later.revenue, now.revenue)
  BY DEF InTens, Tens, YearRecords
<1>3. /\ Tens(earlier.revenue - earlier.cogs, before.revenue - before.cogs)
      /\ Tens(later.revenue - later.cogs, now.revenue - now.cogs)
  BY DEF InTens, Tens, YearRecords
<1>5. Below(Quotient(earlier.pat, earlier.assets), Quotient(later.pat, later.assets))
        <=> Below(Quotient(before.pat, before.assets), Quotient(now.pat, now.assets))
  BY <1>2, <1>3, RatioInTens
<1>6. Below(Quotient(later.debt, later.assets), Quotient(earlier.debt, earlier.assets))
        <=> Below(Quotient(now.debt, now.assets), Quotient(before.debt, before.assets))
  BY <1>2, <1>3, RatioInTens
<1>7. Below(Quotient(earlier.current_assets, earlier.current_liabilities),
            Quotient(later.current_assets, later.current_liabilities))
        <=> Below(Quotient(before.current_assets, before.current_liabilities),
                  Quotient(now.current_assets, now.current_liabilities))
  BY <1>2, <1>3, RatioInTens
<1>8. Below(Quotient(earlier.revenue - earlier.cogs, earlier.revenue),
            Quotient(later.revenue - later.cogs, later.revenue))
        <=> Below(Quotient(before.revenue - before.cogs, before.revenue),
                  Quotient(now.revenue - now.cogs, now.revenue))
  BY <1>2, <1>3, RatioInTens
<1>9. Below(Quotient(earlier.revenue, earlier.assets), Quotient(later.revenue, later.assets))
        <=> Below(Quotient(before.revenue, before.assets), Quotient(now.revenue, now.assets))
  BY <1>2, <1>3, RatioInTens
<1>10. \A s : s \in NineSignals(later, earlier) <=> s \in NineSignals(now, before)
  <2> TAKE s
  <2>1. CASE s \in {"profit", "cash", "accruals", "shares"}
    BY <1>1, <2>1, SignalWhen
  <2>2. CASE s \in {"roa", "leverage", "liquidity", "margin", "turnover"}
    BY <1>5, <1>6, <1>7, <1>8, <1>9, <2>2, SignalWhen
  <2>3. CASE s \notin {"profit", "cash", "roa", "accruals", "leverage", "liquidity", "shares", "margin",
                       "turnover"}
    BY <2>3 DEF NineSignals
  <2> QED  BY <2>1, <2>2, <2>3
<1> QED  BY <1>10

LEMMA UnitsNow ==
  ASSUME WellFormed(case), AskScores
  PROVE  UnitsDoNotMatter'
<1> DEFINE now == case.now
           before == case.before
           later == InUnit(now, 10)
           earlier == InUnit(before, 10)
<1>1. /\ case' = case /\ case.financial \in BOOLEAN /\ now \in YearRecords /\ before \in YearRecords
      /\ verdict'.scores = ForensicScores(case.financial, now, before)
  BY DEF AskScores, WellFormed
<1>2. InTens(later, now) /\ InTens(earlier, before)
  BY <1>1, AccountsInTens
<1> SUFFICES /\ ForensicScores(case.financial, later, earlier).piotroski
                  = ForensicScores(case.financial, now, before).piotroski
             /\ ForensicScores(case.financial, later, earlier).beneish
                  = ForensicScores(case.financial, now, before).beneish
             /\ \A q \in ForensicScores(case.financial, now, before).altman,
                   r \in ForensicScores(case.financial, later, earlier).altman : SameQuotient(q, r)
  BY <1>1 DEF UnitsDoNotMatter
<1> HIDE DEF now, before, later, earlier
<1>3. PiotroskiScore(later, earlier) = PiotroskiScore(now, before)
  <2>1. NineSignals(later, earlier) = NineSignals(now, before)
    BY <1>1, <1>2, SignalsInTens
  <2>2. /\ YearRatios(later) <=> YearRatios(now)
        /\ YearRatios(earlier) <=> YearRatios(before)
    BY <1>1, <1>2 DEF YearRatios, InTens, YearRecords
  <2> QED  BY <2>1, <2>2 DEF PiotroskiScore
<1>4. BeneishDefined(later, earlier) = BeneishDefined(now, before)
  <2>1. /\ later.revenue # 0 <=> now.revenue # 0
        /\ later.assets # 0 <=> now.assets # 0
        /\ later.depreciation + later.ppe # 0 <=> now.depreciation + now.ppe # 0
        /\ earlier.revenue # 0 <=> before.revenue # 0
        /\ earlier.assets # 0 <=> before.assets # 0
        /\ earlier.depreciation + earlier.ppe # 0 <=> before.depreciation + before.ppe # 0
        /\ earlier.receivables # 0 <=> before.receivables # 0
        /\ earlier.sga # 0 <=> before.sga # 0
        /\ earlier.debt # 0 <=> before.debt # 0
        /\ later.revenue # later.cogs <=> now.revenue # now.cogs
        /\ earlier.current_assets + earlier.ppe # earlier.assets
             <=> before.current_assets + before.ppe # before.assets
        /\ later.depreciation # 0 <=> now.depreciation # 0
    BY <1>1, <1>2 DEF InTens, YearRecords
  <2> QED  BY <2>1 DEF BeneishDefined
<1>5. \A q \in AltmanScore(now), r \in AltmanScore(later) : SameQuotient(q, r)
  <2> DEFINE earned(y) == 12 * (y.current_assets - y.current_liabilities) + 14 * y.retained
                             + 33 * y.ebit + 10 * y.revenue
  <2>1. /\ earned(later) = 10 * earned(now) /\ earned(now) \in Int
        /\ 6 * later.market_cap = 10 * (6 * now.market_cap) /\ 6 * now.market_cap \in Int
        /\ later.assets = 10 * now.assets /\ later.liabilities = 10 * now.liabilities
        /\ now.assets \in Int /\ now.liabilities \in Int
    BY <1>1, <1>2 DEF InTens, YearRecords
  <2>2. \A y : AltmanScore(y) \subseteq {QuotientSum(Quotient(earned(y), y.assets),
                                                     Quotient(6 * y.market_cap, y.liabilities))}
    BY DEF AltmanScore
  <2> HIDE DEF earned
  <2>3. /\ Tenfold(Quotient(earned(later), later.assets), Quotient(earned(now), now.assets))
        /\ Tenfold(Quotient(6 * later.market_cap, later.liabilities),
                   Quotient(6 * now.market_cap, now.liabilities))
    BY <2>1, QuotientInTens
  <2>4. SameQuotient(QuotientSum(Quotient(earned(now), now.assets),
                                 Quotient(6 * now.market_cap, now.liabilities)),
                     QuotientSum(Quotient(earned(later), later.assets),
                                 Quotient(6 * later.market_cap, later.liabilities)))
    BY <2>3, SumInTens
  <2> QED  BY <2>2, <2>4
<1> QED  BY <1>3, <1>4, <1>5 DEF ForensicScores

-----------------------------------------------------------------------------
(* The scenarios of a valuation.                                             *)
Rising(v) == v.bear <= v.base /\ v.base <= v.bull

LEMMA TheMember ==
  ASSUME NEW s, s # {}
  PROVE  The(s) \in s
BY DEF The

LEMMA TheOne ==
  ASSUME NEW x
  PROVE  The({x}) = x
BY DEF The

\* Rounding down keeps an order, and a larger divisor of what is not negative.
LEMMA QuotientsRise ==
  ASSUME NEW a \in Int, NEW b \in Int, NEW c \in Int, NEW d \in Int, d > 0, c >= d, a <= b, 0 <= b
  PROVE  a \div c <= b \div d
OBVIOUS

LEMMA SharesRise ==
  ASSUME NEW a \in Int, NEW b \in Int, NEW c \in Int, c > 0, a <= b
  PROVE  a \div c <= b \div c
OBVIOUS

LEMMA QuotientIsWhole ==
  ASSUME NEW a \in Int, NEW c \in Int, c > 0
  PROVE  a \div c \in Int /\ (0 <= a => 0 <= a \div c) /\ (0 <= a \div c => 0 <= a)
OBVIOUS

LEMMA ProductsRise ==
  ASSUME NEW a \in Int, NEW b \in Int, NEW c \in Int, NEW d \in Int, 0 <= a, a <= b, 0 <= c, c <= d
  PROVE  a * c <= b * d /\ 0 <= a * c /\ a * c \in Int /\ b * d \in Int
OBVIOUS

LEMMA MultipleRises ==
  ASSUME NEW metric \in Int, NEW target \in Int, NEW v \in Multiple(metric, target), v.base >= 0
  PROVE  Rising(v)
<1> DEFINE n == metric * target
<1>1. n \in Int
  OBVIOUS
<1>2. v.bear = n * 850 /\ v.base = n * 1000 /\ v.bull = n * 1150
  BY DEF Multiple, Scenarios
<1> HIDE DEF n
<1> QED  BY <1>1, <1>2 DEF Rising

LEMMA AroundRises ==
  ASSUME NEW base \in Int, NEW spread \in {10, 15}, NEW v \in Around(base, spread), v.base >= 0
  PROVE  Rising(v)
<1>1. /\ v.bear = (base * (100 - spread)) \div 100 /\ v.base = base
      /\ v.bull = (base * (100 + spread)) \div 100
  BY DEF Around, Scenarios
<1> QED  BY <1>1 DEF Rising

LEMMA EbitdaRises ==
  ASSUME NEW d \in InputRecords, MissingInputs("ev_ebitda", d) = {}, NEW v \in EvEbitda(d),
         The(d.ebitda) * The(d.target_ev_ebitda) >= 0
  PROVE  Rising(v)
<1> DEFINE n == The(d.ebitda) * The(d.target_ev_ebitda)
           debt == The(d.net_debt)
           shares == The(d.shares)
<1>1. d.ebitda # {} /\ d.target_ev_ebitda # {} /\ d.net_debt # {} /\ d.shares # {}
  BY DEF MissingInputs, Inputs
<1>2. /\ The(d.ebitda) \in Int /\ The(d.target_ev_ebitda) \in Int /\ debt \in Int /\ shares \in Int
  BY <1>1, TheMember DEF InputRecords, Optional
<1>3. n \in Int /\ n >= 0
  BY <1>2
<1>4. /\ shares > 0
      /\ v.bear = (n * 850 - debt * 1000) \div shares /\ v.base = (n * 1000 - debt * 1000) \div shares
      /\ v.bull = (n * 1150 - debt * 1000) \div shares
  BY <1>2 DEF EvEbitda, Scenarios
<1> HIDE DEF n, debt, shares
<1>5. /\ n * 850 - debt * 1000 \in Int /\ n * 1000 - debt * 1000 \in Int /\ n * 1150 - debt * 1000 \in Int
      /\ n * 850 - debt * 1000 <= n * 1000 - debt * 1000
      /\ n * 1000 - debt * 1000 <= n * 1150 - debt * 1000
  BY <1>2, <1>3
<1> QED  BY <1>2, <1>4, <1>5, SharesRise DEF Rising

\* A book is worth more the more it earns over its growth, and the less its cost is above it.
LEMMA BooksRise ==
  ASSUME NEW book \in Int, NEW roe \in Int, NEW cost \in Int, NEW less \in Int, NEW dearer \in Int,
         NEW growth \in Int, book >= 0, less <= roe, dearer >= cost, cost > growth,
         JustifiedBook(book, roe, cost, growth) >= 0
  PROVE  /\ JustifiedBook(book, less, dearer, growth) <= JustifiedBook(book, roe, cost, growth)
         /\ JustifiedBook(book, roe, cost, growth) \in Int
<1> DEFINE a == book * 1000 * (less - growth)
           b == book * 1000 * (roe - growth)
<1>1. a \in Int /\ b \in Int
  OBVIOUS
<1>2. a <= b
  <2>1. b - a = (book * 1000) * (roe - less)
    OBVIOUS
  <2>2. 0 <= (book * 1000) * (roe - less)
    BY ProductsRise
  <2> HIDE DEF a, b
  <2> QED  BY <1>1, <2>1, <2>2
<1>3. /\ JustifiedBook(book, less, dearer, growth) = a \div (dearer - growth)
      /\ JustifiedBook(book, roe, cost, growth) = b \div (cost - growth)
  BY DEF JustifiedBook
<1> HIDE DEF a, b
<1>4. 0 <= b
  BY <1>1, <1>3, QuotientIsWhole
<1>5. a \div (dearer - growth) <= b \div (cost - growth)
  BY <1>1, <1>2, <1>4, QuotientsRise
<1>6. b \div (cost - growth) \in Int
  BY <1>1, QuotientIsWhole
<1> QED  BY <1>3, <1>5, <1>6

LEMMA IncomeRises ==
  ASSUME NEW d \in InputRecords, MissingInputs("residual_income", d) = {}, NEW v \in ResidualIncome(d),
         v.base >= 0, The(d.book) >= 0, The(d.cost_of_equity) >= The(d.terminal_growth) + 2
  PROVE  Rising(v)
<1> DEFINE book == The(d.book)
           roe == The(d.roe)
           cost == The(d.cost_of_equity)
           growth == The(d.terminal_growth)
           cheaper == Above(growth + 2, cost - 2)
<1>1. d.book # {} /\ d.roe # {} /\ d.cost_of_equity # {} /\ d.terminal_growth # {}
  BY DEF MissingInputs, Inputs
<1>2. /\ book \in Int /\ roe \in Int /\ cost \in Int /\ growth \in Int
      /\ book >= 0 /\ cost >= growth + 2
  BY <1>1, TheMember DEF InputRecords, Optional
<1>3. /\ v.bear = JustifiedBook(book, roe - 4, cost + 2, growth)
      /\ v.base = JustifiedBook(book, roe, cost, growth)
      /\ v.bull = JustifiedBook(book, roe + 4, cheaper, growth)
  BY <1>2 DEF ResidualIncome, Scenarios
<1> HIDE DEF book, roe, cost, growth
<1>4. cheaper \in Int /\ cheaper > growth /\ cheaper <= cost
  BY <1>2 DEF Above
<1> HIDE DEF cheaper
<1>5. v.bear <= v.base /\ v.base \in Int
  <2> DEFINE less == roe - 4
             dearer == cost + 2
  <2>1. /\ less \in Int /\ dearer \in Int /\ less <= roe /\ dearer >= cost /\ cost > growth
        /\ JustifiedBook(book, roe, cost, growth) >= 0
        /\ v.bear = JustifiedBook(book, less, dearer, growth)
    BY <1>2, <1>3
  <2> HIDE DEF less, dearer
  <2>2. /\ JustifiedBook(book, less, dearer, growth) <= JustifiedBook(book, roe, cost, growth)
        /\ JustifiedBook(book, roe, cost, growth) \in Int
    BY <1>2, <2>1, BooksRise
  <2> QED  BY <1>3, <2>1, <2>2
<1>6. v.base <= v.bull
  <2> DEFINE b == book * 1000 * (roe - growth)
             c == book * 1000 * (roe + 4 - growth)
  <2>1. b \in Int /\ c \in Int
    BY <1>2
  <2>2. c - b = book * 4000
    BY <1>2
  <2>3. v.base = b \div (cost - growth) /\ v.bull = c \div (cheaper - growth)
    BY <1>2, <1>3, <1>4 DEF JustifiedBook
  <2> HIDE DEF b, c
  <2>4. 0 <= b /\ b <= c /\ 0 <= c
    BY <1>2, <2>1, <2>2, <2>3, QuotientIsWhole
  <2> QED  BY <1>2, <1>4, <2>1, <2>3, <2>4, QuotientsRise
<1> QED  BY <1>5, <1>6 DEF Rising

NotFalling(x, y) == x \in Int /\ y \in Int /\ 0 <= x /\ x <= y
Faster(g, h) == g \in Int /\ h \in Int /\ -200 <= g /\ g <= h
Cheaper(w, u) == w \in Int /\ u \in Int /\ 0 <= u /\ u <= w

LEMMA GrownRises ==
  ASSUME NEW x, NEW y, NEW g, NEW h, NotFalling(x, y), Faster(g, h)
  PROVE  NotFalling(Grown(x, g), Grown(y, h))
<1> DEFINE a == x * (200 + g)
           b == y * (200 + h)
<1>1. a <= b /\ 0 <= a /\ a \in Int /\ b \in Int
  BY ProductsRise DEF NotFalling, Faster
<1>2. Grown(x, g) = a \div 200 /\ Grown(y, h) = b \div 200
  BY DEF Grown
<1> HIDE DEF a, b
<1>3. a \div 200 <= b \div 200
  BY <1>1, SharesRise
<1>4. a \div 200 \in Int /\ b \div 200 \in Int /\ 0 <= a \div 200
  BY <1>1, QuotientIsWhole
<1> QED  BY <1>2, <1>3, <1>4 DEF NotFalling

LEMMA DiscountedRises ==
  ASSUME NEW x, NEW y, NEW w, NEW u, NotFalling(x, y), Cheaper(w, u)
  PROVE  NotFalling(Discounted(x, w), Discounted(y, u))
<1>1. /\ x \in Int /\ y \in Int /\ w \in Int /\ u \in Int
      /\ 200 * x <= 200 * y /\ 0 <= 200 * x /\ 200 + w >= 200 + u /\ 200 + u > 0
  BY DEF NotFalling, Cheaper
<1>2. Discounted(x, w) = (200 * x) \div (200 + w) /\ Discounted(y, u) = (200 * y) \div (200 + u)
  BY <1>1 DEF Discounted
<1>3. (200 * x) \div (200 + w) <= (200 * y) \div (200 + u)
  BY <1>1, QuotientsRise
<1>4. /\ (200 * x) \div (200 + w) \in Int /\ (200 * y) \div (200 + u) \in Int
      /\ 0 <= (200 * x) \div (200 + w)
  BY <1>1, QuotientIsWhole
<1> QED  BY <1>2, <1>3, <1>4 DEF NotFalling

\* More growth, a discount that is not dearer, and no less growth for ever, closer to the discount.
LEMMA CashFlowsRise ==
  ASSUME NEW fcf \in Int, NEW g \in Int, NEW h \in Int, NEW w \in Int, NEW u \in Int, NEW t \in Int,
         NEW s \in Int, NEW debt \in Int, NEW shares \in Int,
         fcf > 0, shares > 0, -200 <= g, g <= h, 0 <= t, t <= s, u <= w, s < u, u - s <= w - t
  PROVE  DiscountedCashFlow(fcf, g, w, t, debt, shares) <= DiscountedCashFlow(fcf, h, u, s, debt, shares)
<1> DEFINE a1 == Grown(fcf * 1000, g)
           b1 == Grown(fcf * 1000, h)
           a2 == Grown(a1, g)
           b2 == Grown(b1, h)
           a3 == Grown(a2, t)
           b3 == Grown(b2, s)
           a4 == (a3 * 200) \div (w - t)
           b4 == (b3 * 200) \div (u - s)
           a5 == Discounted(a2 + a4, w)
           b5 == Discounted(b2 + b4, u)
           a6 == Discounted(a1 + a5, w)
           b6 == Discounted(b1 + b5, u)
<1>1. /\ NotFalling(fcf * 1000, fcf * 1000) /\ Faster(g, h) /\ Faster(t, s) /\ Cheaper(w, u)
  BY DEF NotFalling, Faster, Cheaper
<1>2. DiscountedCashFlow(fcf, g, w, t, debt, shares) = (a6 - debt * 1000) \div shares
  BY DEF DiscountedCashFlow
<1>3. DiscountedCashFlow(fcf, h, u, s, debt, shares) = (b6 - debt * 1000) \div shares
  BY DEF DiscountedCashFlow
<1>4. NotFalling(a1, b1)
  BY <1>1, GrownRises
<1> HIDE DEF a1, b1
<1>5. NotFalling(a2, b2)
  BY <1>1, <1>4, GrownRises
<1> HIDE DEF a2, b2
<1>6. NotFalling(a3, b3)
  BY <1>1, <1>5, GrownRises
<1> HIDE DEF a3, b3
<1>7. NotFalling(a4, b4)
  <2> DEFINE a == a3 * 200
             b == b3 * 200
             c == w - t
             d == u - s
  <2>1. a \in Int /\ b \in Int /\ a <= b /\ 0 <= a /\ c \in Int /\ d \in Int /\ d > 0 /\ c >= d
    BY <1>6 DEF NotFalling
  <2>2. a4 = a \div c /\ b4 = b \div d
    OBVIOUS
  <2> HIDE DEF a, b, c, d, a4, b4
  <2>3. a \div c <= b \div d
    BY <2>1, QuotientsRise
  <2>4. a \div c \in Int /\ 0 <= a \div c /\ b \div d \in Int
    BY <2>1, QuotientIsWhole
  <2> QED  BY <2>2, <2>3, <2>4 DEF NotFalling
<1> HIDE DEF a4, b4
<1>8. NotFalling(a5, b5)
  <2>1. NotFalling(a2 + a4, b2 + b4)
    BY <1>5, <1>7 DEF NotFalling
  <2> QED  BY <1>1, <2>1, DiscountedRises
<1> HIDE DEF a5, b5
<1>9. NotFalling(a6, b6)
  <2>1. NotFalling(a1 + a5, b1 + b5)
    BY <1>4, <1>8 DEF NotFalling
  <2> QED  BY <1>1, <2>1, DiscountedRises
<1> HIDE DEF a6, b6
<1>10. /\ a6 - debt * 1000 \in Int /\ b6 - debt * 1000 \in Int /\ a6 - debt * 1000 <= b6 - debt * 1000
  BY <1>9 DEF NotFalling
<1> QED  BY <1>2, <1>3, <1>10, SharesRise

LEMMA DcfRises ==
  ASSUME NEW d \in InputRecords, MissingInputs("dcf", d) = {}, NEW v \in Dcf(d),
         The(d.growth) >= -196, The(d.terminal_growth) >= 0,
         The(d.wacc) >= The(d.terminal_growth) + 2
  PROVE  Rising(v)
<1> DEFINE fcf == The(d.base_fcf)
           g == The(d.growth)
           w == The(d.wacc)
           t == The(d.terminal_growth)
           debt == The(d.net_debt)
           shares == The(d.shares)
           low == Above(0, t - 1)
           cheap == Above(t + 2, w - 2)
<1>1. /\ d.base_fcf # {} /\ d.growth # {} /\ d.wacc # {} /\ d.terminal_growth # {} /\ d.net_debt # {}
      /\ d.shares # {}
  BY DEF MissingInputs, Inputs
<1>2. /\ fcf \in Int /\ g \in Int /\ w \in Int /\ t \in Int /\ debt \in Int /\ shares \in Int
      /\ g >= -196 /\ t >= 0 /\ w >= t + 2
  BY <1>1, TheMember DEF InputRecords, Optional
<1>3. DcfAllowed(fcf, w, t, shares) /\ v \in Scenarios(DiscountedCashFlow(fcf, g - 4, w + 2, low, debt, shares),
                         DiscountedCashFlow(fcf, g, w, t, debt, shares),
                         DiscountedCashFlow(fcf, g + 4, cheap, t + 1, debt, shares))
  BY DEF Dcf
<1>4. /\ v.bear = DiscountedCashFlow(fcf, g - 4, w + 2, low, debt, shares)
      /\ v.base = DiscountedCashFlow(fcf, g, w, t, debt, shares)
      /\ v.bull = DiscountedCashFlow(fcf, g + 4, cheap, t + 1, debt, shares)
  BY <1>3 DEF Scenarios
<1> HIDE DEF fcf, g, w, t, debt, shares
<1>5. fcf > 0 /\ shares > 0
  BY <1>3 DEF DcfAllowed
<1>6. low \in Int /\ 0 <= low /\ low <= t
  BY <1>2 DEF Above
<1>7. cheap \in Int /\ cheap <= w /\ t + 1 < cheap /\ cheap - (t + 1) <= w - t
  BY <1>2 DEF Above
<1> HIDE DEF low, cheap
<1>8. v.bear <= v.base
  <2> DEFINE slow == g - 4
             dear == w + 2
  <2>1. /\ slow \in Int /\ dear \in Int /\ -200 <= slow /\ slow <= g /\ w <= dear
        /\ t < w /\ w - t <= dear - low
    BY <1>2, <1>6
  <2>2. v.bear = DiscountedCashFlow(fcf, slow, dear, low, debt, shares)
    BY <1>4
  <2> HIDE DEF slow, dear
  <2>3. DiscountedCashFlow(fcf, slow, dear, low, debt, shares) <= DiscountedCashFlow(fcf, g, w, t, debt, shares)
    BY <1>2, <1>5, <1>6, <2>1, CashFlowsRise
  <2> QED  BY <1>4, <2>2, <2>3
<1>9. v.base <= v.bull
  <2> DEFINE fast == g + 4
             high == t + 1
  <2>1. /\ fast \in Int /\ high \in Int /\ -200 <= g /\ g <= fast /\ t <= high
        /\ high < cheap /\ cheap - high <= w - t
    BY <1>2, <1>7
  <2>2. v.bull = DiscountedCashFlow(fcf, fast, cheap, high, debt, shares)
    BY <1>4
  <2> HIDE DEF fast, high
  <2>3. DiscountedCashFlow(fcf, g, w, t, debt, shares) <= DiscountedCashFlow(fcf, fast, cheap, high, debt, shares)
    BY <1>2, <1>5, <1>7, <2>1, CashFlowsRise
  <2> QED  BY <1>4, <2>2, <2>3
<1> QED  BY <1>8, <1>9 DEF Rising

LEMMA DiscountIsWhole ==
  ASSUME NEW d \in InputRecords, NEW k \in {"nav", "sotp_value"},
         NEW r \in {"nav_discount", "holding_discount"}, d[k] # {}
  PROVE  DiscountedBy(The(d[k]), d[r]) \in Int
<1>1. The(d[k]) \in Int /\ Or0(d[r]) \in Int
  BY TheMember DEF InputRecords, Optional, Or0
<1> DEFINE value == The(d[k])
           discount == Or0(d[r])
           a == value * 1000 * (100 - discount)
<1>2. DiscountedBy(value, d[r]) = a \div 100
  BY DEF DiscountedBy
<1>3. a \in Int
  BY <1>1
<1> HIDE DEF a
<1> QED  BY <1>2, <1>3, QuotientIsWhole

LEMMA MethodRises ==
  ASSUME NEW m \in DOMAIN Inputs, NEW d \in InputRecords, MissingInputs(m, d) = {},
         NEW v \in Calculate(m, d), Usual(m, d, v.base)
  PROVE  Rising(v)
<1>1. m \in {"pb", "pe", "price_to_embedded_value", "ev_sales", "ev_ebitda", "sotp", "nav",
             "dividend_yield", "residual_income", "dcf"}
  BY DEF Inputs
<1>2. \A k \in Inputs[m] : d[k] # {}
  BY DEF MissingInputs
<1>3. CASE m = "ev_ebitda"
  <2>1. v \in EvEbitda(d)
    BY <1>3 DEF Calculate
  <2>2. The(d.ebitda) * The(d.target_ev_ebitda) >= 0
    BY <1>3 DEF Usual
  <2> QED  BY <1>3, <2>1, <2>2, EbitdaRises
<1>4. CASE m = "residual_income"
  <2>1. v \in ResidualIncome(d)
    BY <1>4 DEF Calculate
  <2>2. v.base >= 0 /\ The(d.book) >= 0 /\ The(d.cost_of_equity) >= The(d.terminal_growth) + 2
    BY <1>4 DEF Usual
  <2> QED  BY <1>4, <2>1, <2>2, IncomeRises
<1>5. CASE m = "dcf"
  <2>1. v \in Dcf(d)
    BY <1>5 DEF Calculate
  <2>2. The(d.growth) >= -196 /\ The(d.terminal_growth) >= 0 /\ The(d.wacc) >= The(d.terminal_growth) + 2
    BY <1>5 DEF Usual
  <2> QED  BY <1>5, <2>1, <2>2, DcfRises
<1>6. m \notin {"ev_ebitda", "residual_income", "dcf"} => v.base >= 0
  BY DEF Usual
<1>7. CASE m = "pb"
  <2>1. d.book # {} /\ d.target_pb # {}
    BY <1>7, <1>2 DEF Inputs
  <2>2. The(d.book) \in Int /\ The(d.target_pb) \in Int
    BY <2>1, TheMember DEF InputRecords, Optional
  <2>3. v \in Multiple(The(d.book), The(d.target_pb))
    BY <1>7 DEF Calculate
  <2> QED  BY <1>7, <1>6, <2>2, <2>3, MultipleRises
<1>8. CASE m = "pe"
  <2>1. d.eps # {} /\ d.target_pe # {}
    BY <1>8, <1>2 DEF Inputs
  <2>2. The(d.eps) \in Int /\ The(d.target_pe) \in Int
    BY <2>1, TheMember DEF InputRecords, Optional
  <2>3. v \in Multiple(The(d.eps), The(d.target_pe))
    BY <1>8 DEF Calculate
  <2> QED  BY <1>8, <1>6, <2>2, <2>3, MultipleRises
<1>9. CASE m = "price_to_embedded_value"
  <2>1. d.embedded_value # {} /\ d.target_pev # {}
    BY <1>9, <1>2 DEF Inputs
  <2>2. The(d.embedded_value) \in Int /\ The(d.target_pev) \in Int
    BY <2>1, TheMember DEF InputRecords, Optional
  <2>3. v \in Multiple(The(d.embedded_value), The(d.target_pev))
    BY <1>9 DEF Calculate
  <2> QED  BY <1>9, <1>6, <2>2, <2>3, MultipleRises
<1>10. CASE m = "ev_sales"
  <2>1. d.sales # {} /\ d.target_ev_sales # {}
    BY <1>10, <1>2 DEF Inputs
  <2>2. The(d.sales) \in Int /\ The(d.target_ev_sales) \in Int
    BY <2>1, TheMember DEF InputRecords, Optional
  <2>3. v \in Multiple(The(d.sales), The(d.target_ev_sales))
    BY <1>10 DEF Calculate
  <2> QED  BY <1>10, <1>6, <2>2, <2>3, MultipleRises
<1>11. CASE m = "sotp"
  <2>1. d.sotp_value # {}
    BY <1>11, <1>2 DEF Inputs
  <2>2. DiscountedBy(The(d.sotp_value), d.holding_discount) \in Int
    BY <2>1, DiscountIsWhole
  <2>3. v \in Around(DiscountedBy(The(d.sotp_value), d.holding_discount), 15)
    BY <1>11 DEF Calculate
  <2> QED  BY <1>11, <1>6, <2>2, <2>3, AroundRises
<1>12. CASE m = "nav"
  <2>1. d.nav # {}
    BY <1>12, <1>2 DEF Inputs
  <2>2. DiscountedBy(The(d.nav), d.nav_discount) \in Int
    BY <2>1, DiscountIsWhole
  <2>3. v \in Around(DiscountedBy(The(d.nav), d.nav_discount), 10)
    BY <1>12 DEF Calculate
  <2> QED  BY <1>12, <1>6, <2>2, <2>3, AroundRises
<1>13. CASE m = "dividend_yield"
  <2>1. d.distribution # {} /\ d.target_yield # {}
    BY <1>13, <1>2 DEF Inputs
  <2>2. The(d.distribution) \in Int /\ The(d.target_yield) \in Int
    BY <2>1, TheMember DEF InputRecords, Optional
  <2> DEFINE paid == The(d.distribution) * 200000
             base == paid \div The(d.target_yield)
  <2>3. The(d.target_yield) > 0 /\ v \in Around(base, 10)
    BY <1>13, <2>2 DEF Calculate
  <2>4. paid \in Int
    BY <2>2
  <2> HIDE DEF paid
  <2>5. base \in Int
    BY <2>2, <2>3, <2>4, QuotientIsWhole
  <2> HIDE DEF base
  <2> QED  BY <1>13, <1>6, <2>3, <2>5, AroundRises
<1> QED  BY <1>1, <1>3, <1>4, <1>5, <1>7, <1>8, <1>9, <1>10, <1>11, <1>12, <1>13

LEMMA ChosenIsUsable ==
  ASSUME NEW family \in DOMAIN Routes, NEW d, Valued(family, d)
  PROVE  /\ Chosen(family, d) \in DOMAIN Inputs /\ Chosen(family, d) # "none"
         /\ Usable(Chosen(family, d), d)
<1> DEFINE first == CHOOSE i \in UsableOf(family, d) : \A n \in UsableOf(family, d) : i <= n
<1>1. UsableOf(family, d) \subseteq Nat
  BY DEF UsableOf, Routes
<1>2. first \in UsableOf(family, d)
  BY <1>1, LeastChosen DEF Valued
<1>3. Chosen(family, d) = Routes[family][first]
  BY DEF Chosen
<1> HIDE DEF first
<1>4. first \in DOMAIN Routes[family] /\ Usable(Routes[family][first], d)
  BY <1>2 DEF UsableOf
<1>5. \A f \in DOMAIN Routes : \A i \in DOMAIN Routes[f] :
        Routes[f][i] \in DOMAIN Inputs /\ Routes[f][i] # "none"
  BY DEF Routes, Inputs
<1> QED  BY <1>3, <1>4, <1>5

LEMMA ScenariosNow ==
  ASSUME WellFormed(case), AskValuation
  PROVE  ScenariosOrdered'
<1> DEFINE family == case.family
           d == case.inputs
           m == Chosen(family, d)
<1>1. case' = case /\ family \in DOMAIN Routes /\ d \in InputRecords
  BY DEF AskValuation, WellFormed
<1>2. CASE ~Valued(family, d)
  <2>1. verdict'.method = "none"
    BY <1>2 DEF AskValuation
  <2> QED  BY <2>1 DEF ScenariosOrdered
<1>3. CASE Valued(family, d)
  <2>1. verdict'.method = m /\ verdict'.values = ValuationOf(family, d)
    BY <1>3 DEF AskValuation
  <2>2. /\ m \in DOMAIN Inputs /\ Usable(m, d)
    BY <1>1, <1>3, ChosenIsUsable
  <2>3. MissingInputs(m, d) = {} /\ Calculate(m, d) # {}
    BY <2>2 DEF Usable
  <2>4. ValuationOf(family, d) \in Calculate(m, d)
    BY <2>3, TheMember DEF ValuationOf
  <2> HIDE DEF m, d, family
  <2>5. Usual(m, d, ValuationOf(family, d).base) => Rising(ValuationOf(family, d))
    BY <1>1, <2>2, <2>3, <2>4, MethodRises
  <2> QED  BY <1>1, <2>1, <2>3, <2>5 DEF ScenariosOrdered, Rising, d, family
<1> QED  BY <1>2, <1>3

-----------------------------------------------------------------------------
(* The facts of a company and what is read of them.                          *)
LEMMA FewAreFinite ==
  ASSUME NEW a, NEW b, NEW c, NEW d
  PROVE  IsFiniteSet({a}) /\ IsFiniteSet({a, b}) /\ IsFiniteSet({a, b, c}) /\ IsFiniteSet({a, b, c, d})
<1>1. IsFiniteSet({a})
  BY FS_Singleton
<1>2. IsFiniteSet({a} \cup {b})
  BY <1>1, FS_AddElement
<1>3. IsFiniteSet({a, b} \cup {c})
  <2>1. {a} \cup {b} = {a, b}
    OBVIOUS
  <2> QED  BY <1>2, <2>1, FS_AddElement
<1>4. IsFiniteSet({a, b, c} \cup {d})
  <2>1. {a, b} \cup {c} = {a, b, c}
    OBVIOUS
  <2> QED  BY <1>3, <2>1, FS_AddElement
<1>5. {a} \cup {b} = {a, b} /\ {a, b} \cup {c} = {a, b, c} /\ {a, b, c} \cup {d} = {a, b, c, d}
  OBVIOUS
<1> QED  BY <1>1, <1>2, <1>3, <1>4, <1>5

LEMMA TwoAreTwo ==
  ASSUME NEW S, IsFiniteSet(S), NEW x \in S, NEW y \in S, x # y
  PROVE  ~(Cardinality(S) <= 1)
<1>1. IsFiniteSet({x}) /\ Cardinality({x}) = 1
  BY FS_Singleton
<1>2. IsFiniteSet({x} \cup {y}) /\ Cardinality({x} \cup {y}) = Cardinality({x}) + 1
  BY <1>1, FS_AddElement
<1>3. {x} \cup {y} \in SUBSET S
  OBVIOUS
<1>4. Cardinality({x} \cup {y}) <= Cardinality(S) /\ Cardinality(S) \in Nat
  BY <1>3, FS_Subset, FS_CardinalityType
<1> QED  BY <1>1, <1>2, <1>4

SameUnits(s) == \A f, g \in s : f.unit = "" \/ g.unit = "" \/ f.unit = g.unit

LEMMA OneUnitIs ==
  ASSUME NEW s, IsFiniteSet(s)
  PROVE  OneUnit(s) <=> SameUnits(s)
<1> DEFINE units == {f.unit : f \in s}
           named == units \ {""}
           unit == [f \in s |-> f.unit]
<1>1. units = {unit[f] : f \in s}
  OBVIOUS
<1> HIDE DEF unit
<1>2. IsFiniteSet(units)
  BY <1>1, ImageIsFinite
<1>3. IsFiniteSet(named)
  BY <1>2, FS_Difference
<1>4. ASSUME Cardinality(named) <= 1  PROVE SameUnits(s)
  <2> SUFFICES ASSUME NEW f \in s, NEW g \in s, f.unit # "", g.unit # "", f.unit # g.unit  PROVE FALSE
    BY DEF SameUnits
  <2>1. f.unit \in named /\ g.unit \in named
    OBVIOUS
  <2> QED  BY <1>3, <1>4, <2>1, TwoAreTwo
<1>5. ASSUME SameUnits(s)  PROVE Cardinality(named) <= 1
  <2>1. \A x, y \in named : x = y
    BY <1>5 DEF SameUnits
  <2> HIDE DEF named
  <2>2. AtMostOne(named)
    BY <2>1 DEF AtMostOne
  <2> QED  BY <2>2, AtMostOneIsFinite
<1>6. OneUnit(s) <=> Cardinality(named) <= 1
  BY DEF OneUnit
<1> QED  BY <1>4, <1>5, <1>6

LEMMA NewestIs ==
  ASSUME NEW rows, NEW f \in Latest(rows)
  PROVE  f \in rows
BY DEF Latest, NewestOf

LEMMA OneNewest ==
  ASSUME NEW rows, rows \subseteq FiledRecords, NEW f \in Latest(rows), NEW g \in Latest(rows)
  PROVE  f = g
<1> SUFFICES ASSUME f # g  PROVE FALSE
  OBVIOUS
<1>1. Newer(f, g) /\ Newer(g, f)
  BY DEF Latest, NewestOf
<1>2. /\ f.day \in Int /\ g.day \in Int /\ f.row \in Int /\ g.row \in Int
  BY NewestIs DEF FiledRecords
<1> QED  BY <1>1, <1>2 DEF Newer

LEMMA LastIs ==
  ASSUME NEW rows, NEW f \in LastRead(rows)
  PROVE  f \in rows
BY DEF LastRead, OldestOf

LEMMA LoadedIs ==
  ASSUME NEW table
  PROVE  LoadedFacts(table) \subseteq table
BY DEF LoadedFacts

LEMMA RowsAre ==
  ASSUME NEW facts, NEW name
  PROVE  Rows(facts, name) \subseteq facts
BY DEF Rows

LEMMA MatchingIs ==
  ASSUME NEW facts, NEW name, NEW ref, NEW r \in Matching(facts, name, ref)
  PROVE  r \in facts /\ r.day = ref.day /\ r.kind = ref.kind /\ r.source = ref.source
BY NewestIs DEF Matching, Rows

LEMMA PreviousIs ==
  ASSUME NEW rows, NEW f, NEW p \in Previous(rows, f)
  PROVE  p \in rows /\ p.day < f.day
BY NewestIs DEF Previous

LEMMA EarlierIs ==
  ASSUME NEW rows, NEW day, NEW b \in AtOrBefore(rows, day)
  PROVE  b \in rows /\ b.day <= day
BY NewestIs DEF AtOrBefore

Dated(m) == \A f \in m.inputs : f.day <= m.day
OnePeriod(m) == \A f, g \in m.inputs : f.day = g.day

LEMMA GrowthReconciles ==
  ASSUME NEW rows, rows \subseteq FiledRecords, NEW z, NEW m \in GrowthOf(rows, z)
  PROVE  OneUnit(m.inputs) /\ Dated(m)
<1>0. PICK f \in Latest({f \in rows : Grows(rows, z, f)}) :
        \E p \in Previous(rows, f) : m = Measured(Quotient(f.value - p.value, p.value), f.day, {f, p})
  BY DEF GrowthOf
<1>1. PICK p \in Previous(rows, f) : m = Measured(Quotient(f.value - p.value, p.value), f.day, {f, p})
  BY <1>0
<1>2. f \in rows /\ Grows(rows, z, f)
  BY NewestIs
<1>3. m.inputs = {f, p} /\ m.day = f.day
  BY <1>1 DEF Measured
<1>4. \A q \in Previous(rows, f) : q = p
  <2>1. \E S \in SUBSET rows : Previous(rows, f) = Latest(S)
    BY DEF Previous
  <2> QED  BY <2>1, OneNewest
<1>5. OneUnit({f, p})
  BY <1>2, <1>4 DEF Grows
<1>6. p \in rows /\ p.day < f.day
  BY PreviousIs
<1>7. f.day \in Int /\ p.day \in Int
  BY <1>2, <1>6 DEF FiledRecords
<1> QED  BY <1>3, <1>5, <1>6, <1>7 DEF Dated

LEMMA NetInterestIs ==
  ASSUME NEW facts, NEW f \in facts, NEW n \in NetInterest(facts, f)
  PROVE  n.inputs \subseteq facts /\ f \in n.inputs /\ \A g \in n.inputs : g.day = f.day /\ g.unit = "INR"
<1>1. PICK c \in Matching(facts, "interest_expense", f) :
        n = [value |-> f.value - c.value, inputs |-> {f, c}] /\ f.unit = "INR" /\ c.unit = "INR"
  BY DEF NetInterest
<1>2. c \in facts /\ c.day = f.day
  BY MatchingIs
<1> QED  BY <1>1, <1>2

LEMMA NetInterestIsFinite ==
  ASSUME NEW facts, NEW f, NEW n \in NetInterest(facts, f)
  PROVE  IsFiniteSet(n.inputs)
<1>1. \E c : n.inputs = {f, c}
  BY DEF NetInterest
<1> QED  BY <1>1, FewAreFinite

LEMMA BankReconciles ==
  ASSUME NEW facts, facts \subseteq FiledRecords, NEW m \in BankGrowth(facts)
  PROVE  OneUnit(m.inputs) /\ Dated(m)
<1>1. PICK f \in InterestIncome(facts) : m \in BankGrown(facts, f)
  BY NewestIs DEF BankGrowth
<1>a. PICK g \in Previous(InterestIncome(facts), f) :
        \E n \in NetInterest(facts, f), p \in NetInterest(facts, g) :
          m = Measured(Quotient(n.value - p.value, p.value), f.day, n.inputs \cup p.inputs)
  BY <1>1 DEF BankGrown
<1>2. PICK n \in NetInterest(facts, f), p \in NetInterest(facts, g) :
        m = Measured(Quotient(n.value - p.value, p.value), f.day, n.inputs \cup p.inputs)
  BY <1>a
<1>3. m.inputs = n.inputs \cup p.inputs /\ m.day = f.day
  BY <1>2 DEF Measured
<1>4. g \in InterestIncome(facts) /\ g.day < f.day /\ f \in facts /\ g \in facts
  BY <1>1, PreviousIs DEF InterestIncome, Rows
<1>5. /\ \A h \in n.inputs : h.day = f.day /\ h.unit = "INR"
      /\ \A h \in p.inputs : h.day = g.day /\ h.unit = "INR"
  BY <1>4, NetInterestIs
<1>6. IsFiniteSet(m.inputs)
  BY <1>3, NetInterestIsFinite, FS_Union
<1>7. SameUnits(m.inputs)
  BY <1>3, <1>5 DEF SameUnits
<1>8. f.day \in Int /\ g.day \in Int
  BY <1>4 DEF FiledRecords
<1>9. Dated(m)
  BY <1>3, <1>4, <1>5, <1>8 DEF Dated
<1> QED  BY <1>6, <1>7, <1>9, OneUnitIs

LEMMA RevenueReconciles ==
  ASSUME NEW facts, facts \subseteq FiledRecords, NEW m \in RevenueGrowth(facts)
  PROVE  OneUnit(m.inputs) /\ Dated(m)
<1>1. \/ m \in BankGrowth(facts)
      \/ \E i \in 1..5 : m \in GrowthOf(Rows(facts, GrowthBases[i]), FALSE)
  BY DEF RevenueGrowth
<1>2. \A i \in 1..5 : Rows(facts, GrowthBases[i]) \subseteq FiledRecords
  BY RowsAre
<1> QED  BY <1>1, <1>2, BankReconciles, GrowthReconciles

LEMMA MarginReconciles ==
  ASSUME NEW facts, facts \subseteq FiledRecords, NEW m \in EbitdaMargin(facts)
  PROVE  /\ OneUnit(m.inputs) /\ Dated(m) /\ OnePeriod(m)
         /\ \A f, g \in m.inputs : f.kind = g.kind
<1>1. ASSUME NEW f \in facts, NEW r \in facts, r.day = f.day, r.kind = f.kind, OneUnit({f, r}),
             m.inputs = {f, r}, m.day = r.day
      PROVE  /\ OneUnit(m.inputs) /\ Dated(m) /\ OnePeriod(m)
             /\ \A g, h \in m.inputs : g.kind = h.kind
  <2>1. r.day \in Int
    BY DEF FiledRecords
  <2> QED  BY <1>1, <2>1 DEF Dated, OnePeriod
<1>2. ASSUME NEW p \in facts, m \in BuiltMargin(facts, p)
      PROVE  /\ OneUnit(m.inputs) /\ Dated(m) /\ OnePeriod(m)
             /\ \A g, h \in m.inputs : g.kind = h.kind
  <2>a. PICK i \in Matching(facts, "interest_expense", p) :
          \E d \in Matching(facts, "depreciation_amortization", p) :
            m \in {Measured(Quotient(p.value + i.value + d.value, r.value), p.day, {p, i, d, r}) :
                     r \in {r \in Matching(facts, "revenue", p) : r.value > 0 /\ OneUnit({p, i, d, r})}}
    BY <1>2 DEF BuiltMargin
  <2>b. PICK d \in Matching(facts, "depreciation_amortization", p) :
          m \in {Measured(Quotient(p.value + i.value + d.value, r.value), p.day, {p, i, d, r}) :
                   r \in {r \in Matching(facts, "revenue", p) : r.value > 0 /\ OneUnit({p, i, d, r})}}
    BY <2>a
  <2>1. PICK r \in Matching(facts, "revenue", p) :
          /\ m = Measured(Quotient(p.value + i.value + d.value, r.value), p.day, {p, i, d, r})
          /\ OneUnit({p, i, d, r})
    BY <2>b
  <2>2. m.inputs = {p, i, d, r} /\ m.day = p.day
    BY <2>1 DEF Measured
  <2>3. /\ i.day = p.day /\ i.kind = p.kind /\ d.day = p.day /\ d.kind = p.kind
        /\ r.day = p.day /\ r.kind = p.kind
    BY MatchingIs
  <2>4. p.day \in Int
    BY DEF FiledRecords
  <2>5. \A g \in m.inputs : g.day = p.day /\ g.kind = p.kind
    BY <2>2, <2>3
  <2>6. OneUnit(m.inputs)
    BY <2>1, <2>2
  <2>7. Dated(m)
    BY <2>2, <2>4, <2>5 DEF Dated
  <2>8. OnePeriod(m) /\ \A g, h \in m.inputs : g.kind = h.kind
    BY <2>5 DEF OnePeriod
  <2> QED  BY <2>6, <2>7, <2>8
<1> DEFINE paired == {f \in Rows(facts, "ebitda") : RevenueOf(facts, f) # {}}
<1>3. CASE paired # {}
  <2>1. PICK f \in Latest(paired) :
          m \in {Measured(Quotient(f.value, r.value), r.day, {f, r}) :
                   r \in {r \in LastRead(RevenueOf(facts, f)) : r.value # 0 /\ OneUnit({f, r})}}
    BY <1>3 DEF EbitdaMargin
  <2>2. PICK r \in LastRead(RevenueOf(facts, f)) :
          OneUnit({f, r}) /\ m = Measured(Quotient(f.value, r.value), r.day, {f, r})
    BY <2>1
  <2>3. f \in facts
    BY NewestIs DEF Rows
  <2>4. r \in facts /\ r.day = f.day /\ r.kind = f.kind
    BY LastIs DEF RevenueOf, Rows
  <2>5. m.inputs = {f, r} /\ m.day = r.day
    BY <2>2 DEF Measured
  <2> QED  BY <1>1, <2>2, <2>3, <2>4, <2>5
<1>4. CASE paired = {}
  <2>1. PICK p \in Latest({p \in AnnualProfit(facts) : BuiltMargin(facts, p) # {}}) : m \in BuiltMargin(facts, p)
    BY <1>4 DEF EbitdaMargin
  <2>2. p \in facts
    BY NewestIs DEF AnnualProfit, Rows
  <2> QED  BY <1>2, <2>1, <2>2
<1> QED  BY <1>3, <1>4

EarnedFrom(facts, e) ==
  \/ e.inputs = {e.of}
  \/ \E i \in facts : /\ e.inputs = {e.of, i} /\ i.day = e.of.day /\ i.source = e.of.source
                      /\ OneUnit({e.of, i}) /\ e.of \in AnnualProfit(facts)

LEMMA EarnedIs ==
  ASSUME NEW facts, NEW e \in Earned(facts)
  PROVE  e.of \in facts /\ EarnedFrom(facts, e)
<1> DEFINE ebit == Latest(Yearly(Rows(facts, "ebit")))
           costs == {p \in AnnualProfit(facts) : FinanceCosts(facts, p) # {}}
<1>1. CASE ebit # {}
  <2>1. PICK f \in ebit : e = [value |-> f.value, of |-> f, inputs |-> {f}]
    BY <1>1 DEF Earned
  <2>2. f \in Yearly(Rows(facts, "ebit"))
    BY NewestIs
  <2>3. f \in facts
    BY <2>2 DEF Yearly, Rows
  <2> QED  BY <2>1, <2>3 DEF EarnedFrom
<1>2. CASE ebit = {}
  <2>1. PICK p \in Latest(costs) :
          e \in {[value |-> p.value + i.value, of |-> p, inputs |-> {p, i}] : i \in FinanceCosts(facts, p)}
    BY <1>2 DEF Earned
  <2>2. PICK i \in FinanceCosts(facts, p) : e = [value |-> p.value + i.value, of |-> p, inputs |-> {p, i}]
    BY <2>1
  <2>3. p \in AnnualProfit(facts)
    BY NewestIs
  <2>4. p \in facts
    BY <2>3 DEF AnnualProfit, Rows
  <2>5. i \in Matching(facts, "interest_expense", p) /\ OneUnit({p, i})
    BY DEF FinanceCosts
  <2>6. i \in facts /\ i.day = p.day /\ i.source = p.source
    BY <2>5, MatchingIs
  <2>7. e.of = p /\ e.inputs = {p, i}
    BY <2>2
  <2> QED  BY <2>3, <2>4, <2>5, <2>6, <2>7 DEF EarnedFrom
<1> QED  BY <1>1, <1>2

LEMMA EmployedIs ==
  ASSUME NEW facts, NEW e, NEW name, NEW b \in Employed(facts, e, name)
  PROVE  b \in facts /\ b.day = e.of.day /\ b.source = e.of.source
<1>1. b \in Rows(facts, name)
  BY EarlierIs DEF Employed
<1> QED  BY <1>1 DEF Employed, Rows

LEMMA RoceReconciles ==
  ASSUME NEW facts, facts \subseteq FiledRecords, NEW m \in Roce(facts)
  PROVE  /\ OneUnit(m.inputs) \/ \E f \in AnnualProfit(m.inputs) : f.unit = ""
         /\ Dated(m) /\ OnePeriod(m) /\ \A f, g \in m.inputs : f.source = g.source
<1>1. PICK e \in Earned(facts) :
        m \in UNION {{Measured(Quotient(e.value, a.value - l.value), e.of.day, e.inputs \cup {a, l}) :
                        l \in {l \in Employed(facts, e, "current_liabilities") :
                                 OneUnit({e.of, a, l}) /\ a.value > l.value}} :
                       a \in Employed(facts, e, "total_assets")}
  BY DEF Roce
<1>2. PICK a \in Employed(facts, e, "total_assets"), l \in Employed(facts, e, "current_liabilities") :
        /\ OneUnit({e.of, a, l})
        /\ m = Measured(Quotient(e.value, a.value - l.value), e.of.day, e.inputs \cup {a, l})
  BY <1>1
<1>3. m.inputs = e.inputs \cup {a, l} /\ m.day = e.of.day
  BY <1>2 DEF Measured
<1>4. /\ a \in facts /\ a.day = e.of.day /\ a.source = e.of.source
      /\ l \in facts /\ l.day = e.of.day /\ l.source = e.of.source
  BY EmployedIs
<1>5. e.of \in facts /\ EarnedFrom(facts, e)
  BY EarnedIs
<1>6. e.of.day \in Int
  BY <1>5 DEF FiledRecords
<1>7. \A f \in e.inputs : f.day = e.of.day /\ f.source = e.of.source
  BY <1>5 DEF EarnedFrom
<1>8. Dated(m) /\ OnePeriod(m) /\ \A f, g \in m.inputs : f.source = g.source
  BY <1>3, <1>4, <1>6, <1>7 DEF Dated, OnePeriod
<1>9. SameUnits({e.of, a, l})
  BY <1>2, FewAreFinite, OneUnitIs
<1>10. CASE e.inputs = {e.of}
  <2>1. m.inputs = {e.of, a, l}
    BY <1>3, <1>10
  <2> QED  BY <1>2, <1>8, <2>1
<1>11. ASSUME NEW i \in facts, e.inputs = {e.of, i}, OneUnit({e.of, i}), e.of \in AnnualProfit(facts)
       PROVE  OneUnit(m.inputs) \/ \E f \in AnnualProfit(m.inputs) : f.unit = ""
  <2>1. m.inputs = {e.of, i, a, l}
    BY <1>3, <1>11
  <2>2. SameUnits({e.of, i})
    BY <1>11, FewAreFinite, OneUnitIs
  <2>3. CASE e.of.unit = ""
    <3>1. e.of \in AnnualProfit(m.inputs)
      BY <1>11, <2>1 DEF AnnualProfit, Rows
    <3> QED  BY <2>3, <3>1
  <2>4. CASE e.of.unit # ""
    <3>1. SameUnits({e.of, i, a, l})
      BY <1>9, <2>2, <2>4 DEF SameUnits
    <3> QED  BY <2>1, <3>1, FewAreFinite, OneUnitIs
  <2> QED  BY <2>3, <2>4
<1> QED  BY <1>5, <1>8, <1>10, <1>11 DEF EarnedFrom

LEMMA OneFactReconciles ==
  ASSUME NEW f
  PROVE  OneUnit({f})
BY FewAreFinite, OneUnitIs DEF SameUnits

LEMMA ReturnReconciles ==
  ASSUME NEW facts, facts \subseteq FiledRecords, NEW reported, NEW denominator,
         NEW m \in Return(facts, reported, denominator)
  PROVE  OneUnit(m.inputs) /\ Dated(m)
<1>1. CASE NewestFacts(facts, reported) # {}
  <2>1. PICK f \in NewestFacts(facts, reported) : m = Measured(ToRatio(f), f.day, {f})
    BY <1>1 DEF Return
  <2>2. m.inputs = {f} /\ m.day = f.day
    BY <2>1 DEF Measured
  <2>3. f \in facts
    BY NewestIs DEF NewestFacts, Rows
  <2>4. f.day \in Int
    BY <2>3 DEF FiledRecords
  <2>5. OneUnit(m.inputs)
    BY <2>2, OneFactReconciles
  <2>6. Dated(m)
    BY <2>2, <2>4 DEF Dated
  <2> QED  BY <2>5, <2>6
<1>2. CASE NewestFacts(facts, reported) = {}
  <2>1. PICK p \in Latest(Yearly(Rows(facts, "pat"))) :
          m \in {Measured(Quotient(p.value, d.value), p.day, {p, d}) :
                   d \in {d \in AtOrBefore(Rows(facts, denominator), p.day) : d.value > 0 /\ OneUnit({p, d})}}
    BY <1>2 DEF Return
  <2>2. PICK d \in AtOrBefore(Rows(facts, denominator), p.day) :
          OneUnit({p, d}) /\ m = Measured(Quotient(p.value, d.value), p.day, {p, d})
    BY <2>1
  <2>3. m.inputs = {p, d} /\ m.day = p.day
    BY <2>2 DEF Measured
  <2>4. p \in facts
    BY NewestIs DEF Yearly, Rows
  <2>5. p.day \in Int /\ d.day <= p.day
    BY <2>4, EarlierIs DEF FiledRecords
  <2> QED  BY <2>2, <2>3, <2>5 DEF Dated
<1> QED  BY <1>1, <1>2

LEMMA BookReconciles ==
  ASSUME NEW facts, NEW c, NEW m \in PriceBook(facts, c)
  PROVE  OnePeriod(m)
<1>1. CASE \E f : m = Measured(Quotient(c.price, f.value), c.day, {f})
  BY <1>1 DEF OnePeriod, Measured
<1>2. CASE \E e, s : e.day = s.day /\ m = Measured(Quotient(c.price * s.value, e.value), c.day, {e, s})
  BY <1>2 DEF OnePeriod, Measured
<1>3. CASE m \in BankBook(facts, c)
  <2>1. PICK k : m \in BankBooks(facts, c, k)
    BY <1>3 DEF BankBook
  <2>2. PICK r \in Matching(facts, "reserves_and_surplus", k), s \in PaidUp(facts, k) :
          m = Measured(Quotient(c.price * s.value, k.value + r.value), c.day, {k, r, s})
    BY <2>1 DEF BankBooks
  <2>3. r.day = k.day
    BY MatchingIs
  <2>4. s.day = k.day
    BY NewestIs DEF PaidUp
  <2>5. m.inputs = {k, r, s}
    BY <2>2 DEF Measured
  <2> QED  BY <2>3, <2>4, <2>5 DEF OnePeriod
<1>4. \/ \E f : m = Measured(Quotient(c.price, f.value), c.day, {f})
      \/ \E e, s : e.day = s.day /\ m = Measured(Quotient(c.price * s.value, e.value), c.day, {e, s})
      \/ m \in BankBook(facts, c)
  BY DEF PriceBook
<1> QED  BY <1>1, <1>2, <1>3, <1>4

LEMMA PeriodsNow ==
  ASSUME WellFormed(case), AskPeer
  PROVE  PeriodsReconcile'
<1> DEFINE facts == LoadedFacts(case.facts)
<1>1. /\ case' = case /\ case.facts \subseteq FiledRecords
      /\ verdict'.metrics = [name \in OfFacts \cup OfPrices \cup PassedOn |-> PeerMetric(name, facts, case.close)]
  BY DEF AskPeer, WellFormed, PeerGiven, DerivePeerMetrics
<1>2. facts \subseteq FiledRecords
  BY <1>1, LoadedIs
<1> HIDE DEF facts
<1> DEFINE good(name, m) ==
      /\ name \in OfFacts => \/ OneUnit(m.inputs)
                             \/ name = "roce" /\ \E f \in AnnualProfit(m.inputs) : f.unit = ""
      /\ name \in OfFacts => Dated(m)
      /\ name \in {"roce", "ebitda_margin", "pb"} => OnePeriod(m)
      /\ name = "roce" => \A f, g \in m.inputs : f.source = g.source
      /\ name = "ebitda_margin" => \A f, g \in m.inputs : f.kind = g.kind
<1>3. ASSUME NEW name \in OfFacts \cup OfPrices, NEW m \in PeerMetric(name, facts, case.close)
      PROVE  good(name, m)
  <2>1. name \in {"revenue_growth", "ebitda_margin", "roce", "roe", "roa", "aum_growth", "pe", "pb", "market_cap"}
    BY DEF OfFacts, OfPrices
  <2>2. CASE name = "revenue_growth"
    <3>1. m \in RevenueGrowth(facts)
      BY <1>3, <2>2 DEF PeerMetric
    <3> QED  BY <1>2, <2>2, <3>1, RevenueReconciles
  <2>3. CASE name = "aum_growth"
    <3>1. m \in GrowthOf(Rows(facts, "aum"), TRUE) /\ Rows(facts, "aum") \subseteq FiledRecords
      BY <1>2, <1>3, <2>3, RowsAre DEF PeerMetric, AumGrowth
    <3> QED  BY <2>3, <3>1, GrowthReconciles
  <2>4. CASE name = "ebitda_margin"
    <3>1. m \in EbitdaMargin(facts)
      BY <1>3, <2>4 DEF PeerMetric
    <3> QED  BY <1>2, <2>4, <3>1, MarginReconciles
  <2>5. CASE name = "roce"
    <3>1. m \in Roce(facts)
      BY <1>3, <2>5 DEF PeerMetric
    <3> QED  BY <1>2, <2>5, <3>1, RoceReconciles
  <2>6. CASE name \in {"roe", "roa"}
    <3>1. m \in Return(facts, "roe_pct", "total_equity") \/ m \in Return(facts, "roa_pct", "total_assets")
      BY <1>3, <2>6 DEF PeerMetric
    <3> QED  BY <1>2, <2>6, <3>1, ReturnReconciles
  <2>7. CASE name = "pb"
    <3>1. \E c \in case.close : m \in PriceBook(facts, c)
      BY <1>3, <2>7 DEF PeerMetric
    <3> QED  BY <2>7, <3>1, BookReconciles DEF OfFacts
  <2>8. CASE name \in {"pe", "market_cap"}
    BY <2>8 DEF OfFacts
  <2> QED  BY <2>1, <2>2, <2>3, <2>4, <2>5, <2>6, <2>7, <2>8
<1>4. \A name \in OfFacts \cup OfPrices : verdict'.metrics[name] = PeerMetric(name, facts, case.close)
  BY <1>1
<1> HIDE DEF good
<1>5. \A name \in OfFacts \cup OfPrices : \A m \in verdict'.metrics[name] : good(name, m)
  BY <1>3, <1>4
<1> QED  BY <1>5 DEF PeriodsReconcile, good, Dated, OnePeriod

-----------------------------------------------------------------------------
(* A fact that is older than all the others.                                 *)
Distinct(rows) == \A f, g \in rows : f.day = g.day /\ f.row = g.row => f = g
Gains(S, T, o) == S \subseteq T /\ T \subseteq S \cup {o}

Late(F, o) ==
  /\ F \subseteq FiledRecords /\ IsFiniteSet(F) /\ Distinct(F) /\ o \in FiledRecords
  /\ \A f \in F : o.day < f.day
  /\ \E f \in F : NameOf(f) = NameOf(o) /\ f.kind = o.kind

\* Of finitely many facts one is newer than all the others.
LEMMA SomeNewest ==
  ASSUME NEW S, S \subseteq FiledRecords, IsFiniteSet(S), Distinct(S), S # {}
  PROVE  Latest(S) # {}
<1> DEFINE above(x) == {g \in S : Newer(g, x)}
           T == {above(x) : x \in S}
<1>1. \A f \in S : f.day \in Int /\ f.row \in Int
  BY DEF FiledRecords
<1>2. T # {} /\ T \subseteq SUBSET S
  OBVIOUS
<1>3. IsWellFoundedOn(StrictSubsetOrdering(S), SUBSET S)
  BY FS_StrictSubsetOrderingWellFounded, FS_FiniteSubsetsOfFinite
<1> HIDE DEF T
<1>4. PICK U \in T : \A V \in T : ~(<<V, U>> \in StrictSubsetOrdering(S))
  BY <1>2, <1>3, WFMin
<1> USE DEF T
<1>5. PICK x \in S : U = above(x)
  OBVIOUS
<1>6. \A y \in above(x) : FALSE
  <2> SUFFICES ASSUME NEW y \in above(x)  PROVE FALSE
    OBVIOUS
  <2>1. y \in S /\ Newer(y, x)
    OBVIOUS
  <2>2. \A g \in S : Newer(g, y) => Newer(g, x)
    BY <1>1, <2>1 DEF Newer
  <2>3. ~Newer(y, y)
    BY <1>1, <2>1 DEF Newer
  <2>4. above(y) \subseteq above(x) /\ above(y) # above(x) /\ above(y) \in T
    BY <2>1, <2>2, <2>3
  <2>5. above(y) \in SUBSET S /\ above(x) \in SUBSET S
    OBVIOUS
  <2> HIDE DEF above
  <2>6. <<above(y), above(x)>> \in StrictSubsetOrdering(S)
    BY <2>4, <2>5 DEF StrictSubsetOrdering
  <2> QED  BY <1>4, <1>5, <2>4, <2>6
<1>7. \A g \in S \ {x} : Newer(x, g)
  <2> TAKE g \in S \ {x}
  <2>1. ~Newer(g, x)
    BY <1>6
  <2>2. ~(g.day = x.day /\ g.row = x.row)
    BY DEF Distinct
  <2> QED  BY <1>1, <2>1, <2>2 DEF Newer
<1> QED  BY <1>7 DEF Latest, NewestOf

LEMMA NewestOfNone == Latest({}) = {}
BY DEF Latest, NewestOf

LEMMA NewestOfOne ==
  ASSUME NEW o
  PROVE  Latest({o}) = {o}
BY DEF Latest, NewestOf

LEMMA NewestStays ==
  ASSUME NEW F, NEW o, Late(F, o), NEW S, NEW T, S \subseteq F, S # {}, Gains(S, T, o)
  PROVE  Latest(T) = Latest(S)
<1>1. \A f \in S : Newer(f, o) /\ ~Newer(o, f) /\ f # o
  BY DEF Late, Newer, FiledRecords
<1>2. \A f : f \in Latest(T) => f \in Latest(S)
  <2> TAKE f
  <2> SUFFICES ASSUME f \in Latest(T)  PROVE f \in Latest(S)
    OBVIOUS
  <2>1. f \in T /\ \A g \in T \ {f} : Newer(f, g)
    BY DEF Latest, NewestOf
  <2>2. f # o
    BY <1>1, <2>1 DEF Gains
  <2>3. f \in S /\ \A g \in S \ {f} : Newer(f, g)
    BY <2>1, <2>2 DEF Gains
  <2> QED  BY <2>3 DEF Latest, NewestOf
<1>3. \A f : f \in Latest(S) => f \in Latest(T)
  <2> TAKE f
  <2> SUFFICES ASSUME f \in Latest(S)  PROVE f \in Latest(T)
    OBVIOUS
  <2>1. f \in S /\ \A g \in S \ {f} : Newer(f, g)
    BY DEF Latest, NewestOf
  <2>2. f \in T /\ \A g \in T \ {f} : Newer(f, g)
    BY <1>1, <2>1 DEF Gains
  <2> QED  BY <2>2 DEF Latest, NewestOf
<1> QED  BY <1>2, <1>3

LEMMA LoadedGain ==
  ASSUME NEW table, NEW o, Superseded(o, table), table \subseteq FiledRecords, o \in FiledRecords
  PROVE  Gains(LoadedFacts(table), LoadedFacts(table \cup {o}), o)
<1> DEFINE ahead(t, f) == {g \in t : g.name = f.name /\ g.kind = f.kind /\ Newer(g, f)}
<1>1. \A f \in table : ~Newer(o, f)
  BY DEF Superseded, Newer, FiledRecords
<1>2. \A f \in table : ahead(table \cup {o}, f) = ahead(table, f)
  BY <1>1
<1>3. \A t : LoadedFacts(t) = {f \in t : Cardinality(ahead(t, f)) < Loaded}
  BY DEF LoadedFacts
<1> HIDE DEF ahead
<1> QED  BY <1>2, <1>3 DEF Gains

LEMMA RowsGain ==
  ASSUME NEW F, NEW o, NEW name
  PROVE  Gains(Rows(F, name), Rows(F \cup {o}, name), o)
BY DEF Gains, Rows

LEMMA YearlyGain ==
  ASSUME NEW S, NEW T, NEW o, Gains(S, T, o)
  PROVE  Gains(Yearly(S), Yearly(T), o)
BY DEF Gains, Yearly

LEMMA NoNewName ==
  ASSUME NEW F, NEW o, Late(F, o), NEW name, Rows(F, name) = {}
  PROVE  Rows(F \cup {o}, name) = {}
BY DEF Late, Rows

LEMMA NoNewYear ==
  ASSUME NEW F, NEW o, Late(F, o), NEW name, Yearly(Rows(F, name)) = {}
  PROVE  Yearly(Rows(F \cup {o}, name)) = {}
<1>1. PICK f \in F : NameOf(f) = NameOf(o) /\ f.kind = o.kind
  BY DEF Late
<1>2. ~(NameOf(o) = name /\ o.kind \in {"annual", "ttm"})
  BY <1>1 DEF Yearly, Rows
<1> QED  BY <1>2 DEF Yearly, Rows

LEMMA NewestFactsStay ==
  ASSUME NEW F, NEW o, Late(F, o), NEW name
  PROVE  NewestFacts(F \cup {o}, name) = NewestFacts(F, name)
<1>1. CASE Rows(F, name) = {}
  BY <1>1, NoNewName DEF NewestFacts
<1>2. CASE Rows(F, name) # {}
  <2>1. Rows(F, name) \subseteq F
    BY RowsAre
  <2>2. Gains(Rows(F, name), Rows(F \cup {o}, name), o)
    BY RowsGain
  <2>3. Latest(Rows(F \cup {o}, name)) = Latest(Rows(F, name))
    BY <1>2, <2>1, <2>2, NewestStays
  <2> QED  BY <2>3 DEF NewestFacts
<1> QED  BY <1>1, <1>2

LEMMA NewestYearStays ==
  ASSUME NEW F, NEW o, Late(F, o), NEW name
  PROVE  Latest(Yearly(Rows(F \cup {o}, name))) = Latest(Yearly(Rows(F, name)))
<1>1. CASE Yearly(Rows(F, name)) = {}
  BY <1>1, NoNewYear
<1>2. CASE Yearly(Rows(F, name)) # {}
  <2>1. Yearly(Rows(F, name)) \subseteq F
    BY DEF Yearly, Rows
  <2>2. Gains(Yearly(Rows(F, name)), Yearly(Rows(F \cup {o}, name)), o)
    BY RowsGain, YearlyGain
  <2> QED  BY <1>2, <2>1, <2>2, NewestStays
<1> QED  BY <1>1, <1>2

LEMMA NotThatDay ==
  ASSUME NEW F, NEW o, Late(F, o), NEW f \in F
  PROVE  o.day < f.day /\ o.day # f.day /\ ~(f.day < o.day) /\ ~(f.day <= o.day) /\ o.day <= f.day
BY DEF Late, FiledRecords

LEMMA MatchingStays ==
  ASSUME NEW F, NEW o, Late(F, o), NEW name, NEW ref \in F
  PROVE  Matching(F \cup {o}, name, ref) = Matching(F, name, ref)
<1>1. o.day # ref.day
  BY NotThatDay
<1>2. {f \in Rows(F \cup {o}, name) : f.day = ref.day /\ f.kind = ref.kind /\ f.source = ref.source
                                         /\ f.context = ref.context}
        = {f \in Rows(F, name) : f.day = ref.day /\ f.kind = ref.kind /\ f.source = ref.source
                                   /\ f.context = ref.context}
  BY <1>1 DEF Rows
<1> QED  BY <1>2 DEF Matching

\* Nothing of another name is filed for the day of the older fact.
LEMMA NoneThatDay ==
  ASSUME NEW F, NEW o, Late(F, o), NEW name, NameOf(o) # name
  PROVE  Matching(F \cup {o}, name, o) = {}
<1>1. \A f \in Rows(F \cup {o}, name) : f.day # o.day
  BY NotThatDay DEF Rows
<1> QED  BY <1>1, NewestOfNone DEF Matching

LEMMA EarlierStays ==
  ASSUME NEW F, NEW o, Late(F, o), NEW name, NEW day, AtOrBefore(Rows(F, name), day) # {}
  PROVE  AtOrBefore(Rows(F \cup {o}, name), day) = AtOrBefore(Rows(F, name), day)
<1> DEFINE S == {f \in Rows(F, name) : f.day <= day}
           T == {f \in Rows(F \cup {o}, name) : f.day <= day}
<1>1. S # {}
  BY NewestOfNone DEF AtOrBefore
<1>2. S \subseteq F /\ Gains(S, T, o)
  BY DEF Rows, Gains
<1>3. AtOrBefore(Rows(F, name), day) = Latest(S) /\ AtOrBefore(Rows(F \cup {o}, name), day) = Latest(T)
  BY DEF AtOrBefore
<1> HIDE DEF S, T
<1> QED  BY <1>1, <1>2, <1>3, NewestStays

-----------------------------------------------------------------------------
(* What the older fact does to each metric.                                  *)
LEMMA PreviousIsNotOlder ==
  ASSUME NEW F, NEW o, Late(F, o), NEW rows, rows \subseteq F \cup {o}
  PROVE  Previous(rows, o) = {}
<1> DEFINE before == {g \in rows : /\ g.kind = o.kind /\ g.day < o.day
                                   /\ o.kind \in {"quarterly", "half_year", "nine_month"}
                                        => o.day - g.day \in YearApart}
<1>1. \A g \in rows : ~(g.day < o.day)
  <2>1. ~(o.day < o.day)
    BY DEF Late, FiledRecords
  <2> QED  BY <2>1, NotThatDay
<1>2. before = {}
  BY <1>1
<1>3. Previous(rows, o) = Latest(before)
  BY DEF Previous
<1> HIDE DEF before
<1> QED  BY <1>2, <1>3, NewestOfNone

\* The comparison of a fact stays, or there was none and it may be the older fact.
LEMMA PreviousGain ==
  ASSUME NEW F, NEW o, Late(F, o), NEW S, NEW T, S \subseteq F, Gains(S, T, o), NEW f \in F
  PROVE  \/ Previous(T, f) = Previous(S, f)
         \/ Previous(S, f) = {} /\ Previous(T, f) = {o} /\ o \in T
<1> DEFINE old == {g \in S : /\ g.kind = f.kind /\ g.day < f.day
                             /\ f.kind \in {"quarterly", "half_year", "nine_month"}
                                  => f.day - g.day \in YearApart}
           new == {g \in T : /\ g.kind = f.kind /\ g.day < f.day
                             /\ f.kind \in {"quarterly", "half_year", "nine_month"}
                                  => f.day - g.day \in YearApart}
<1>1. old \subseteq F /\ Gains(old, new, o) /\ new \subseteq T
  BY DEF Gains
<1>2. Previous(S, f) = Latest(old) /\ Previous(T, f) = Latest(new)
  BY DEF Previous
<1> HIDE DEF old, new
<1>3. CASE old # {}
  BY <1>1, <1>2, <1>3, NewestStays
<1>4. CASE old = {}
  <2>1. new = {} \/ (new = {o} /\ o \in T)
    BY <1>1, <1>4 DEF Gains
  <2> QED  BY <1>2, <1>4, <2>1, NewestOfNone, NewestOfOne
<1> QED  BY <1>3, <1>4

LEMMA OnePrevious ==
  ASSUME NEW rows, rows \subseteq FiledRecords, NEW f, NEW p \in Previous(rows, f), NEW q \in Previous(rows, f)
  PROVE  p = q
<1>1. \E S \in SUBSET rows : Previous(rows, f) = Latest(S)
  BY DEF Previous
<1> QED  BY <1>1, OneNewest

Growing(rows, z) == {f \in rows : Grows(rows, z, f)}
ComparedBy(rows, f, m) ==
  \E p \in Previous(rows, f) : m = Measured(Quotient(f.value - p.value, p.value), f.day, {f, p})

LEMMA GrowthIs ==
  ASSUME NEW rows, NEW z, NEW m
  PROVE  m \in GrowthOf(rows, z) <=> \E f \in Latest(Growing(rows, z)) : ComparedBy(rows, f, m)
<1> DEFINE found(f) == {Measured(Quotient(f.value - p.value, p.value), f.day, {f, p}) : p \in Previous(rows, f)}
<1>1. GrowthOf(rows, z) = UNION {found(f) : f \in Latest(Growing(rows, z))}
  BY DEF GrowthOf, Growing
<1>2. \A f : m \in found(f) <=> ComparedBy(rows, f, m)
  BY DEF ComparedBy
<1> HIDE DEF found
<1> QED  BY <1>1, <1>2

LEMMA GrowingGains ==
  ASSUME NEW F, NEW o, Late(F, o), NEW S, NEW T, S \subseteq F, Gains(S, T, o), NEW z
  PROVE  /\ Growing(S, z) \subseteq Growing(T, z) /\ Growing(T, z) \subseteq S
         /\ \A f \in Growing(S, z) : Previous(T, f) = Previous(S, f)
         /\ \A f \in Growing(T, z) \ Growing(S, z) : Previous(T, f) = {o}
<1>1. \A f \in S : \/ Previous(T, f) = Previous(S, f)
                   \/ Previous(S, f) = {} /\ Previous(T, f) = {o} /\ o \in T
  BY PreviousGain
<1>2. Previous(T, o) = {}
  <2>1. T \subseteq F \cup {o}
    BY DEF Gains
  <2> QED  BY <2>1, PreviousIsNotOlder
<1>3. \A f \in Growing(S, z) : f \in S /\ Previous(S, f) # {} /\ Grows(S, z, f)
  BY DEF Growing, Grows
<1>4. \A f \in Growing(S, z) : Previous(T, f) = Previous(S, f) /\ f \in Growing(T, z)
  <2> TAKE f \in Growing(S, z)
  <2>1. Previous(T, f) = Previous(S, f)
    BY <1>1, <1>3
  <2>2. f \in T /\ Grows(T, z, f)
    BY <1>3, <2>1 DEF Gains, Grows
  <2> QED  BY <2>1, <2>2 DEF Growing
<1>5. Growing(T, z) \subseteq S
  <2>1. ~Grows(T, z, o)
    BY <1>2 DEF Grows
  <2> QED  BY <2>1 DEF Growing, Gains
<1>6. \A f \in Growing(T, z) \ Growing(S, z) : Previous(T, f) = {o}
  <2> TAKE f \in Growing(T, z) \ Growing(S, z)
  <2>1. f \in S /\ Grows(T, z, f) /\ ~Grows(S, z, f)
    BY <1>5 DEF Growing
  <2>2. Previous(T, f) # Previous(S, f)
    BY <2>1 DEF Grows
  <2> QED  BY <1>1, <2>1, <2>2
<1> QED  BY <1>4, <1>5, <1>6

\* A growth stays, or there is one that is compared with the older fact.
LEMMA GrowthGain ==
  ASSUME NEW F, NEW o, Late(F, o), NEW S, NEW T, S \subseteq F, Gains(S, T, o), NEW z
  PROVE  /\ GrowthOf(S, z) # {} => GrowthOf(T, z) # {}
         /\ \A n \in GrowthOf(T, z) : n \in GrowthOf(S, z) \/ o \in n.inputs
         /\ \A m, n \in GrowthOf(S, z) : m = n
<1>1. /\ Growing(S, z) \subseteq Growing(T, z) /\ Growing(T, z) \subseteq S
      /\ \A f \in Growing(S, z) : Previous(T, f) = Previous(S, f)
      /\ \A f \in Growing(T, z) \ Growing(S, z) : Previous(T, f) = {o}
  BY GrowingGains
<1>2. S \subseteq FiledRecords /\ T \subseteq FiledRecords
  BY DEF Late, Gains
<1>3. GrowthOf(S, z) # {} => GrowthOf(T, z) # {}
  <2> SUFFICES ASSUME NEW m \in GrowthOf(S, z)  PROVE GrowthOf(T, z) # {}
    OBVIOUS
  <2>1. PICK f0 \in Latest(Growing(S, z)) : TRUE
    BY GrowthIs
  <2>2. Growing(T, z) # {}
    BY <1>1, <2>1, NewestIs
  <2>3. IsFiniteSet(Growing(T, z)) /\ Distinct(Growing(T, z)) /\ Growing(T, z) \subseteq FiledRecords
    <3>1. Growing(T, z) \in SUBSET F
      BY <1>1
    <3> QED  BY <3>1, FS_Subset DEF Late, Distinct
  <2>4. PICK f : f \in Latest(Growing(T, z))
    BY <2>2, <2>3, SomeNewest
  <2>5. f \in Growing(T, z)
    BY <2>4, NewestIs
  <2>6. PICK p : p \in Previous(T, f)
    BY <2>5 DEF Growing, Grows
  <2>7. ComparedBy(T, f, Measured(Quotient(f.value - p.value, p.value), f.day, {f, p}))
    BY <2>6 DEF ComparedBy
  <2> QED  BY <2>4, <2>7, GrowthIs
<1>4. ASSUME NEW n \in GrowthOf(T, z)  PROVE n \in GrowthOf(S, z) \/ o \in n.inputs
  <2>1. PICK f \in Latest(Growing(T, z)) : ComparedBy(T, f, n)
    BY GrowthIs
  <2>2. f \in Growing(T, z)
    BY NewestIs
  <2>3. CASE f \in Growing(S, z)
    <3>1. f \in Latest(Growing(S, z))
      BY <1>1, <2>3 DEF Latest, NewestOf
    <3>2. ComparedBy(S, f, n)
      BY <1>1, <2>1, <2>3 DEF ComparedBy
    <3> QED  BY <3>1, <3>2, GrowthIs
  <2>4. CASE f \notin Growing(S, z)
    <3>1. Previous(T, f) = {o}
      BY <1>1, <2>2, <2>4
    <3> QED  BY <2>1, <3>1 DEF ComparedBy, Measured
  <2> QED  BY <2>3, <2>4
<1>5. ASSUME NEW m \in GrowthOf(S, z), NEW n \in GrowthOf(S, z)  PROVE m = n
  <2>1. PICK f \in Latest(Growing(S, z)) : ComparedBy(S, f, m)
    BY GrowthIs
  <2>2. PICK g \in Latest(Growing(S, z)) : ComparedBy(S, g, n)
    BY GrowthIs
  <2>3. Growing(S, z) \subseteq FiledRecords
    BY <1>2 DEF Growing
  <2>4. f = g
    BY <2>3, OneNewest
  <2> QED  BY <1>2, <2>1, <2>2, <2>4, OnePrevious DEF ComparedBy
<1> QED  BY <1>3, <1>4, <1>5

LEMMA GrowthKeeps ==
  ASSUME NEW F, NEW o, Late(F, o), NEW name, NEW z, NEW m \in GrowthOf(Rows(F, name), z)
  PROVE  \/ m \in GrowthOf(Rows(F \cup {o}, name), z)
         \/ \E n \in GrowthOf(Rows(F \cup {o}, name), z) : o \in n.inputs
<1> DEFINE S == Rows(F, name)
           T == Rows(F \cup {o}, name)
<1>1. S \subseteq F /\ Gains(S, T, o)
  BY RowsAre, RowsGain
<1> HIDE DEF S, T
<1>2. /\ GrowthOf(S, z) # {} => GrowthOf(T, z) # {}
      /\ \A n \in GrowthOf(T, z) : n \in GrowthOf(S, z) \/ o \in n.inputs
      /\ \A n, k \in GrowthOf(S, z) : n = k
  BY <1>1, GrowthGain
<1>3. m \in GrowthOf(S, z)
  BY DEF S
<1>4. m \in GrowthOf(T, z) \/ \E n \in GrowthOf(T, z) : o \in n.inputs
  BY <1>2, <1>3
<1> QED  BY <1>4 DEF T

LEMMA AnnualGain ==
  ASSUME NEW F, NEW o
  PROVE  Gains(AnnualProfit(F), AnnualProfit(F \cup {o}), o) /\ AnnualProfit(F) \subseteq F
BY DEF Gains, AnnualProfit, Rows

LEMMA BuiltMarginStays ==
  ASSUME NEW F, NEW o, Late(F, o), NEW p \in F
  PROVE  BuiltMargin(F \cup {o}, p) = BuiltMargin(F, p)
<1> DEFINE built(I, D, R) ==
             UNION {UNION {{Measured(Quotient(p.value + i.value + d.value, r.value), p.day, {p, i, d, r}) :
                              r \in {r \in R : r.value > 0 /\ OneUnit({p, i, d, r})}} :
                             d \in {d \in D : d.value >= 0}} :
                      i \in {i \in I : i.value >= 0}}
<1>1. \A t : BuiltMargin(t, p) = built(Matching(t, "interest_expense", p),
                                      Matching(t, "depreciation_amortization", p),
                                      Matching(t, "revenue", p))
  BY DEF BuiltMargin
<1> HIDE DEF built
<1>2. /\ Matching(F \cup {o}, "interest_expense", p) = Matching(F, "interest_expense", p)
      /\ Matching(F \cup {o}, "depreciation_amortization", p) = Matching(F, "depreciation_amortization", p)
      /\ Matching(F \cup {o}, "revenue", p) = Matching(F, "revenue", p)
  BY MatchingStays
<1> QED  BY <1>1, <1>2

LEMMA RevenueOfStays ==
  ASSUME NEW F, NEW o, Late(F, o)
  PROVE  /\ \A f \in F : RevenueOf(F \cup {o}, f) = RevenueOf(F, f)
         /\ o \in Rows(F \cup {o}, "ebitda") => RevenueOf(F \cup {o}, o) = {}
<1>1. \A f \in F : o.day # f.day
  BY NotThatDay
<1>2. \A f \in F : RevenueOf(F \cup {o}, f) = RevenueOf(F, f)
  BY <1>1 DEF RevenueOf, Rows
<1>3. ASSUME o \in Rows(F \cup {o}, "ebitda")  PROVE RevenueOf(F \cup {o}, o) = {}
  <2>1. NameOf(o) = "ebitda"
    BY <1>3 DEF Rows
  <2>2. \A r \in Rows(F \cup {o}, "revenue") : r \in F
    BY <2>1 DEF Rows
  <2> QED  BY <1>1, <2>2 DEF RevenueOf
<1> QED  BY <1>2, <1>3

LEMMA MarginStays ==
  ASSUME NEW F, NEW o, Late(F, o), NEW m \in EbitdaMargin(F)
  PROVE  m \in EbitdaMargin(F \cup {o})
<1> DEFINE paired(t) == {f \in Rows(t, "ebitda") : RevenueOf(t, f) # {}}
           built(t) == {p \in AnnualProfit(t) : BuiltMargin(t, p) # {}}
           rated(f, R) == {Measured(Quotient(f.value, r.value), r.day, {f, r}) :
                             r \in {r \in LastRead(R) : r.value # 0 /\ OneUnit({f, r})}}
           G == F \cup {o}
<1>1. \A t : EbitdaMargin(t) = IF paired(t) # {} THEN UNION {rated(f, RevenueOf(t, f)) : f \in Latest(paired(t))}
                               ELSE UNION {BuiltMargin(t, p) : p \in Latest(built(t))}
  BY DEF EbitdaMargin
<1>3. /\ \A f \in F : RevenueOf(G, f) = RevenueOf(F, f)
      /\ o \in Rows(G, "ebitda") => RevenueOf(G, o) = {}
  BY RevenueOfStays
<1>2. paired(G) = paired(F)
  <2>1. \A f : f \in Rows(F, "ebitda") => f \in F /\ f \in Rows(G, "ebitda")
    BY DEF Rows
  <2>2. \A f : f \in Rows(G, "ebitda") => f = o \/ (f \in F /\ f \in Rows(F, "ebitda"))
    BY DEF Rows
  <2>3. \A f : f \in paired(G) <=> f \in paired(F)
    BY <1>3, <2>1, <2>2
  <2> HIDE DEF paired
  <2> QED  BY <2>3
<1>4. paired(F) \subseteq F
  BY DEF Rows
<1>5. /\ Gains(built(F), built(G), o) /\ built(F) \subseteq F
      /\ \A p \in F : BuiltMargin(G, p) = BuiltMargin(F, p)
  <2>1. \A p \in F : BuiltMargin(G, p) = BuiltMargin(F, p)
    BY BuiltMarginStays
  <2>2. /\ AnnualProfit(F) \subseteq AnnualProfit(G) /\ AnnualProfit(G) \subseteq AnnualProfit(F) \cup {o}
        /\ AnnualProfit(F) \subseteq F
    BY AnnualGain DEF Gains
  <2>3. built(F) \subseteq built(G)
    BY <2>1, <2>2
  <2>4. built(G) \subseteq built(F) \cup {o}
    BY <2>1, <2>2
  <2>5. built(F) \subseteq F
    BY <2>2
  <2> QED  BY <2>1, <2>3, <2>4, <2>5 DEF Gains
<1> HIDE DEF paired, built, rated, G
<1>6. CASE paired(F) # {}
  <2>1. PICK f \in Latest(paired(F)) : m \in rated(f, RevenueOf(F, f))
    BY <1>1, <1>6
  <2>2. f \in F
    BY <1>4, NewestIs
  <2> QED  BY <1>1, <1>2, <1>3, <1>6, <2>1, <2>2 DEF G
<1>7. CASE paired(F) = {}
  <2>1. PICK p \in Latest(built(F)) : m \in BuiltMargin(F, p)
    BY <1>1, <1>7
  <2>2. p \in F /\ built(F) # {}
    BY <1>5, NewestIs
  <2>3. Latest(built(G)) = Latest(built(F))
    BY <1>5, <2>2, NewestStays
  <2> QED  BY <1>1, <1>2, <1>5, <1>7, <2>1, <2>2, <2>3 DEF G
<1> QED  BY <1>6, <1>7

LEMMA EarnedStays ==
  ASSUME NEW F, NEW o, Late(F, o), NEW e \in Earned(F)
  PROVE  e \in Earned(F \cup {o})
<1> DEFINE ebit(t) == Latest(Yearly(Rows(t, "ebit")))
           costs(t) == {p \in AnnualProfit(t) : FinanceCosts(t, p) # {}}
           with(t, p) == {[value |-> p.value + i.value, of |-> p, inputs |-> {p, i}] : i \in FinanceCosts(t, p)}
           G == F \cup {o}
<1>1. \A t : Earned(t) = IF ebit(t) # {} THEN {[value |-> f.value, of |-> f, inputs |-> {f}] : f \in ebit(t)}
                         ELSE UNION {with(t, p) : p \in Latest(costs(t))}
  BY DEF Earned
<1>2. ebit(G) = ebit(F)
  BY NewestYearStays
<1>3. \A p \in F : FinanceCosts(G, p) = FinanceCosts(F, p)
  BY MatchingStays DEF FinanceCosts
<1>4. /\ Gains(costs(F), costs(G), o) /\ costs(F) \subseteq F
      /\ \A p \in F : with(G, p) = with(F, p)
  BY <1>3, AnnualGain DEF Gains
<1> HIDE DEF ebit, costs, with, G
<1>5. CASE ebit(F) # {}
  BY <1>1, <1>2, <1>5 DEF G
<1>6. CASE ebit(F) = {}
  <2>1. PICK p \in Latest(costs(F)) : e \in with(F, p)
    BY <1>1, <1>6
  <2>2. p \in F /\ costs(F) # {}
    BY <1>4, NewestIs
  <2>3. Latest(costs(G)) = Latest(costs(F))
    BY <1>4, <2>2, NewestStays
  <2> QED  BY <1>1, <1>2, <1>4, <1>6, <2>1, <2>2, <2>3 DEF G
<1> QED  BY <1>5, <1>6

LEMMA EmployedStays ==
  ASSUME NEW F, NEW o, Late(F, o), NEW e, NEW name, NEW b \in Employed(F, e, name)
  PROVE  b \in Employed(F \cup {o}, e, name)
<1>1. AtOrBefore(Rows(F, name), e.of.day) # {}
  BY DEF Employed
<1>2. AtOrBefore(Rows(F \cup {o}, name), e.of.day) = AtOrBefore(Rows(F, name), e.of.day)
  BY <1>1, EarlierStays
<1> QED  BY <1>2 DEF Employed

LEMMA RoceStays ==
  ASSUME NEW F, NEW o, Late(F, o), NEW m \in Roce(F)
  PROVE  m \in Roce(F \cup {o})
<1> DEFINE over(t, e, a) == {Measured(Quotient(e.value, a.value - l.value), e.of.day, e.inputs \cup {a, l}) :
                               l \in {l \in Employed(t, e, "current_liabilities") :
                                        OneUnit({e.of, a, l}) /\ a.value > l.value}}
           of(t, e) == UNION {over(t, e, a) : a \in Employed(t, e, "total_assets")}
<1>1. \A t : Roce(t) = UNION {of(t, e) : e \in Earned(t)}
  BY DEF Roce
<1>2. PICK e \in Earned(F) : m \in of(F, e)
  BY <1>1
<1>3. PICK a \in Employed(F, e, "total_assets") : m \in over(F, e, a)
  BY <1>2
<1>4. m \in over(F \cup {o}, e, a)
  BY <1>3, EmployedStays
<1> HIDE DEF over
<1>5. m \in of(F \cup {o}, e)
  BY <1>4, EmployedStays
<1> HIDE DEF of
<1> QED  BY <1>1, <1>5, EarnedStays

LEMMA ReturnStays ==
  ASSUME NEW F, NEW o, Late(F, o), NEW reported, NEW denominator, NEW m \in Return(F, reported, denominator)
  PROVE  m \in Return(F \cup {o}, reported, denominator)
<1>1. /\ NewestFacts(F \cup {o}, reported) = NewestFacts(F, reported)
      /\ Latest(Yearly(Rows(F \cup {o}, "pat"))) = Latest(Yearly(Rows(F, "pat")))
  BY NewestFactsStay, NewestYearStays
<1>2. CASE NewestFacts(F, reported) # {}
  BY <1>1, <1>2 DEF Return
<1>3. CASE NewestFacts(F, reported) = {}
  <2> DEFINE over(t, p) == {Measured(Quotient(p.value, d.value), p.day, {p, d}) :
                              d \in {d \in AtOrBefore(Rows(t, denominator), p.day) : d.value > 0 /\ OneUnit({p, d})}}
  <2>1. PICK p \in Latest(Yearly(Rows(F, "pat"))) : m \in over(F, p)
    BY <1>3 DEF Return
  <2>2. AtOrBefore(Rows(F, denominator), p.day) # {}
    BY <2>1
  <2>3. AtOrBefore(Rows(F \cup {o}, denominator), p.day) = AtOrBefore(Rows(F, denominator), p.day)
    BY <2>2, EarlierStays
  <2>4. m \in over(F \cup {o}, p)
    BY <2>1, <2>3
  <2>5. Return(F \cup {o}, reported, denominator)
          = UNION {over(F \cup {o}, q) : q \in Latest(Yearly(Rows(F \cup {o}, "pat")))}
    BY <1>1, <1>3 DEF Return
  <2> HIDE DEF over
  <2> QED  BY <1>1, <2>1, <2>4, <2>5
<1> QED  BY <1>2, <1>3

LEMMA NetInterestStays ==
  ASSUME NEW F, NEW o, Late(F, o)
  PROVE  /\ \A f \in F : NetInterest(F \cup {o}, f) = NetInterest(F, f)
         /\ o \in InterestIncome(F \cup {o}) => NetInterest(F \cup {o}, o) = {}
<1> DEFINE with(f, C) == {[value |-> f.value - c.value, inputs |-> {f, c}] :
                            c \in {c \in C : c.exact /\ c.value >= 0 /\ f.unit = "INR" /\ c.unit = "INR"
                                             /\ f.value > c.value}}
<1>1. \A t, f : NetInterest(t, f) = with(f, Matching(t, "interest_expense", f))
  BY DEF NetInterest
<1>2. \A f : with(f, {}) = {}
  OBVIOUS
<1> HIDE DEF with
<1>3. \A f \in F : Matching(F \cup {o}, "interest_expense", f) = Matching(F, "interest_expense", f)
  BY MatchingStays
<1>4. ASSUME o \in InterestIncome(F \cup {o})  PROVE Matching(F \cup {o}, "interest_expense", o) = {}
  <2>1. NameOf(o) # "interest_expense"
    BY <1>4 DEF InterestIncome, Rows
  <2> QED  BY <2>1, NoneThatDay
<1> QED  BY <1>1, <1>2, <1>3, <1>4

LEMMA BankGrownStays ==
  ASSUME NEW F, NEW o, Late(F, o)
  PROVE  /\ \A f \in InterestIncome(F) : BankGrown(F \cup {o}, f) = BankGrown(F, f)
         /\ BankGrown(F \cup {o}, o) = {}
<1> DEFINE G == F \cup {o}
           pairs(f, N, P) == {Measured(Quotient(n.value - p.value, p.value), f.day, n.inputs \cup p.inputs) :
                                n \in N, p \in P}
           against(f, P) == {g \in P : f.day - g.day \in YearApart}
<1>1. \A t, f : BankGrown(t, f) = UNION {pairs(f, NetInterest(t, f), NetInterest(t, g)) :
                                           g \in against(f, Previous(InterestIncome(t), f))}
  BY DEF BankGrown
<1>2. \A f, N : pairs(f, N, {}) = {}
  OBVIOUS
<1>3. against(o, {}) = {} /\ \A f, P : against(f, P) \subseteq P
  OBVIOUS
<1> HIDE DEF pairs, against
<1>4. /\ InterestIncome(F) \subseteq F /\ Gains(InterestIncome(F), InterestIncome(G), o)
      /\ InterestIncome(G) \subseteq F \cup {o}
  BY DEF InterestIncome, Rows, Gains
<1>5. /\ \A f \in F : NetInterest(G, f) = NetInterest(F, f)
      /\ o \in InterestIncome(G) => NetInterest(G, o) = {}
  BY NetInterestStays
<1>6. BankGrown(G, o) = {}
  <2>1. Previous(InterestIncome(G), o) = {}
    BY <1>4, PreviousIsNotOlder
  <2> QED  BY <1>1, <1>3, <2>1
<1>7. ASSUME NEW f \in InterestIncome(F)  PROVE BankGrown(G, f) = BankGrown(F, f)
  <2>1. f \in F
    BY <1>4
  <2>2. \/ Previous(InterestIncome(G), f) = Previous(InterestIncome(F), f)
        \/ /\ Previous(InterestIncome(F), f) = {} /\ Previous(InterestIncome(G), f) = {o}
           /\ o \in InterestIncome(G)
    BY <1>4, <2>1, PreviousGain
  <2>3. CASE Previous(InterestIncome(G), f) = Previous(InterestIncome(F), f)
    <3> DEFINE P == against(f, Previous(InterestIncome(F), f))
    <3>1. P \subseteq F
      BY <1>3, <1>4, PreviousIs
    <3>2. BankGrown(G, f) = UNION {pairs(f, NetInterest(G, f), NetInterest(G, g)) : g \in P}
      BY <1>1, <2>3
    <3>3. BankGrown(F, f) = UNION {pairs(f, NetInterest(F, f), NetInterest(F, g)) : g \in P}
      BY <1>1
    <3> HIDE DEF P
    <3>4. \A g \in P : pairs(f, NetInterest(G, f), NetInterest(G, g)) = pairs(f, NetInterest(F, f), NetInterest(F, g))
      BY <1>5, <2>1, <3>1
    <3> QED  BY <3>2, <3>3, <3>4
  <2>4. CASE /\ Previous(InterestIncome(F), f) = {} /\ Previous(InterestIncome(G), f) = {o}
             /\ o \in InterestIncome(G)
    <3>1. BankGrown(F, f) = {}
      <4>1. against(f, {}) = {}
        BY <1>3
      <4> QED  BY <1>1, <2>4, <4>1
    <3>2. pairs(f, NetInterest(G, f), NetInterest(G, o)) = {}
      BY <1>2, <1>5, <2>4
    <3>3. against(f, {o}) \subseteq {o}
      BY <1>3
    <3>4. BankGrown(G, f) = UNION {pairs(f, NetInterest(G, f), NetInterest(G, g)) : g \in against(f, {o})}
      BY <1>1, <2>4
    <3>5. BankGrown(G, f) = {}
      BY <3>2, <3>3, <3>4
    <3> QED  BY <3>1, <3>5
  <2> QED  BY <2>2, <2>3, <2>4
<1> QED  BY <1>6, <1>7

LEMMA BankGrowthStays ==
  ASSUME NEW F, NEW o, Late(F, o)
  PROVE  BankGrowth(F \cup {o}) = BankGrowth(F)
<1> DEFINE G == F \cup {o}
           grown(t) == {f \in InterestIncome(t) : BankGrown(t, f) # {}}
<1>1. \A t : BankGrowth(t) = UNION {BankGrown(t, f) : f \in Latest(grown(t))}
  BY DEF BankGrowth
<1>2. /\ \A f \in InterestIncome(F) : BankGrown(G, f) = BankGrown(F, f)
      /\ BankGrown(G, o) = {}
  BY BankGrownStays
<1>3. /\ InterestIncome(F) \subseteq InterestIncome(G)
      /\ InterestIncome(G) \subseteq InterestIncome(F) \cup {o}
  BY DEF InterestIncome, Rows
<1>4. \A f : f \in grown(G) <=> f \in grown(F)
  BY <1>2, <1>3
<1>5. grown(F) \subseteq InterestIncome(F)
  OBVIOUS
<1> HIDE DEF grown, G
<1>6. grown(G) = grown(F)
  BY <1>4
<1>7. \A f \in Latest(grown(F)) : BankGrown(G, f) = BankGrown(F, f)
  BY <1>2, <1>5, NewestIs
<1>8. BankGrowth(G) = BankGrowth(F)
  BY <1>1, <1>6, <1>7
<1> QED  BY <1>8 DEF G

LEMMA RevenueKeeps ==
  ASSUME NEW F, NEW o, Late(F, o), NEW m \in RevenueGrowth(F)
  PROVE  \/ m \in RevenueGrowth(F \cup {o})
         \/ \E n \in RevenueGrowth(F \cup {o}) : o \in n.inputs
<1> DEFINE G == F \cup {o}
           grown(t, i) == GrowthOf(Rows(t, GrowthBases[i]), FALSE)
           found(t) == {i \in 1..5 : grown(t, i) # {}}
           first(t) == {i \in found(t) : \A n \in found(t) : i <= n}
<1>1. \A t : RevenueGrowth(t) = IF found(t) = {} THEN BankGrowth(t)
                                ELSE UNION {grown(t, i) : i \in first(t)}
  BY DEF RevenueGrowth
<1>2. \A i \in 1..5 : /\ grown(F, i) # {} => grown(G, i) # {}
                      /\ \A n \in grown(G, i) : n \in grown(F, i) \/ o \in n.inputs
                      /\ \A k, n \in grown(F, i) : k = n
  <2> TAKE i \in 1..5
  <2> DEFINE S == Rows(F, GrowthBases[i])
             T == Rows(G, GrowthBases[i])
  <2>1. S \subseteq F /\ Gains(S, T, o)
    BY RowsAre, RowsGain
  <2> HIDE DEF S, T
  <2>2. /\ GrowthOf(S, FALSE) # {} => GrowthOf(T, FALSE) # {}
        /\ \A n \in GrowthOf(T, FALSE) : n \in GrowthOf(S, FALSE) \/ o \in n.inputs
        /\ \A k, n \in GrowthOf(S, FALSE) : k = n
    BY <2>1, GrowthGain
  <2> QED  BY <2>2 DEF S, T
<1> HIDE DEF grown
<1>3. found(F) \subseteq found(G) /\ found(G) \subseteq Nat
  <2>1. \A i \in 1..5 : grown(F, i) # {} => grown(G, i) # {}
    BY <1>2
  <2>2. found(F) \subseteq found(G)
    BY <2>1
  <2>3. found(G) \subseteq Nat
    OBVIOUS
  <2> QED  BY <2>2, <2>3
<1>4. BankGrowth(G) = BankGrowth(F)
  BY BankGrowthStays
<1>5. CASE found(G) = {}
  <2>1. found(F) = {}
    BY <1>3, <1>5
  <2>2. RevenueGrowth(G) = BankGrowth(G) /\ RevenueGrowth(F) = BankGrowth(F)
    BY <1>1, <1>5, <2>1
  <2> QED  BY <1>4, <2>2
<1>6. CASE found(G) # {}
  <2> DEFINE k == CHOOSE i \in found(G) : \A n \in found(G) : i <= n
  <2>1. k \in found(G) /\ \A n \in found(G) : k <= n
    <3> HIDE DEF found
    <3> QED  BY <1>3, <1>6, LeastOf
  <2> HIDE DEF k
  <2>2. k \in 1..5 /\ k \in first(G) /\ grown(G, k) # {}
    BY <2>1
  <2>3. PICK n : n \in grown(G, k)
    BY <2>2
  <2>4. RevenueGrowth(G) = UNION {grown(G, i) : i \in first(G)}
    BY <1>1, <1>6
  <2>5. n \in RevenueGrowth(G)
    <3> HIDE DEF first
    <3> QED  BY <2>2, <2>3, <2>4
  <2>6. CASE o \in n.inputs
    BY <2>5, <2>6
  <2>7. CASE o \notin n.inputs
    <3>1. n \in grown(F, k)
      BY <1>2, <2>2, <2>3, <2>7
    <3>2. k \in found(F)
      BY <2>2, <3>1
    <3>3. RevenueGrowth(F) = UNION {grown(F, i) : i \in first(F)}
      BY <1>1, <3>2
    <3>4. PICK i \in first(F) : m \in grown(F, i)
      <4> HIDE DEF first
      <4> QED  BY <3>3
    <3>5. i \in found(F) /\ i <= k
      BY <3>2
    <3>6. k <= i /\ i \in Nat /\ k \in Nat
      BY <1>3, <2>1, <3>5
    <3>7. i = k
      BY <3>5, <3>6
    <3>8. m = n
      BY <1>2, <2>2, <3>1, <3>4, <3>7
    <3> QED  BY <2>5, <3>8
  <2> QED  BY <2>6, <2>7
<1> QED  BY <1>5, <1>6

LEMMA EarningsGain ==
  ASSUME NEW F, NEW o, Late(F, o), NEW c
  PROVE  \/ PriceEarnings(F \cup {o}, c) = PriceEarnings(F, c)
         \/ \E n \in PriceEarnings(F \cup {o}, c) : o \in n.inputs
<1> DEFINE G == F \cup {o}
           positive(t, name) == {f \in Yearly(Rows(t, name)) : f.value > 0}
           eps(t) == Latest(IF positive(t, "eps_diluted") # {} THEN positive(t, "eps_diluted")
                            ELSE positive(t, "eps_basic"))
           by(E, P, S) == IF E # {} THEN {Measured(Quotient(c.price, f.value), c.day, {f}) : f \in E}
                          ELSE {Measured(Quotient(c.price * t[2].value, t[1].value), c.day, {t[1], t[2]}) :
                                  t \in {t \in P \X S : t[1].value > 0 /\ t[2].value > 0 /\ OneScale(t[1], t[2])}}
<1>1. \A t : PriceEarnings(t, c) = by(eps(t), Latest(Yearly(Rows(t, "pat"))), NewestFacts(t, "shares_outstanding"))
  BY DEF PriceEarnings
<1>2. \A E, P, S : o \in E => \E n \in by(E, P, S) : o \in n.inputs
  <2> SUFFICES ASSUME NEW E, NEW P, NEW S, o \in E  PROVE \E n \in by(E, P, S) : o \in n.inputs
    OBVIOUS
  <2>1. Measured(Quotient(c.price, o.value), c.day, {o}) \in by(E, P, S)
    OBVIOUS
  <2>2. Measured(Quotient(c.price, o.value), c.day, {o}).inputs = {o}
    BY DEF Measured
  <2> HIDE DEF by
  <2> QED  BY <2>1, <2>2
<1> HIDE DEF by
<1>3. /\ Latest(Yearly(Rows(G, "pat"))) = Latest(Yearly(Rows(F, "pat")))
      /\ NewestFacts(G, "shares_outstanding") = NewestFacts(F, "shares_outstanding")
  BY NewestYearStays, NewestFactsStay
<1>4. \A name : positive(F, name) \subseteq F /\ Gains(positive(F, name), positive(G, name), o)
  BY DEF Yearly, Rows, Gains
<1> HIDE DEF positive, G
<1>5. \A name : positive(F, name) # {} => Latest(positive(G, name)) = Latest(positive(F, name))
                                            /\ positive(G, name) # {}
  <2> SUFFICES ASSUME NEW name, positive(F, name) # {}
               PROVE  Latest(positive(G, name)) = Latest(positive(F, name)) /\ positive(G, name) # {}
    OBVIOUS
  <2>1. positive(F, name) \subseteq F /\ Gains(positive(F, name), positive(G, name), o)
    BY <1>4
  <2>2. Latest(positive(G, name)) = Latest(positive(F, name))
    BY <2>1, NewestStays
  <2> QED  BY <2>1, <2>2 DEF Gains
<1>6. \A name : positive(F, name) = {} => positive(G, name) = {} \/ positive(G, name) = {o}
  BY <1>4 DEF Gains
<1>7. eps(G) = eps(F) \/ eps(G) = {o}
  <2>1. CASE positive(F, "eps_diluted") # {}
    BY <1>5, <2>1
  <2>2. CASE positive(F, "eps_diluted") = {} /\ positive(G, "eps_diluted") = {o}
    BY <2>2, NewestOfOne
  <2>3. CASE positive(F, "eps_diluted") = {} /\ positive(G, "eps_diluted") = {}
    <3>1. eps(G) = Latest(positive(G, "eps_basic")) /\ eps(F) = Latest(positive(F, "eps_basic"))
      BY <2>3
    <3>2. CASE positive(F, "eps_basic") # {}
      BY <1>5, <3>1, <3>2
    <3>3. CASE positive(F, "eps_basic") = {}
      BY <1>6, <3>1, <3>3, NewestOfOne
    <3> QED  BY <3>2, <3>3
  <2> QED  BY <1>6, <2>1, <2>2, <2>3
<1> HIDE DEF eps
<1>8. CASE eps(G) = eps(F)
  <2>1. PriceEarnings(G, c) = PriceEarnings(F, c)
    BY <1>1, <1>3, <1>8
  <2> QED  BY <2>1 DEF G
<1>9. CASE eps(G) = {o}
  <2> DEFINE P == Latest(Yearly(Rows(G, "pat")))
             S == NewestFacts(G, "shares_outstanding")
  <2>1. PriceEarnings(G, c) = by(eps(G), P, S)
    BY <1>1
  <2>2. o \in eps(G)
    BY <1>9
  <2> HIDE DEF P, S
  <2>3. \E n \in by(eps(G), P, S) : o \in n.inputs
    BY <1>2, <2>2
  <2>4. \E n \in PriceEarnings(G, c) : o \in n.inputs
    BY <2>1, <2>3
  <2> QED  BY <2>4 DEF G
<1> QED  BY <1>7, <1>8, <1>9

LEMMA BankBooksStay ==
  ASSUME NEW F, NEW o, Late(F, o), NEW close
  PROVE  /\ \A k \in F : BankBooks(F \cup {o}, close, k) = BankBooks(F, close, k)
         /\ NameOf(o) = "capital" => BankBooks(F \cup {o}, close, o) = {}
<1> DEFINE G == F \cup {o}
           books(k, S, R) == UNION {{Measured(Quotient(close.price * s.value, k.value + r.value), close.day, {k, r, s}) :
                                       s \in S} :
                                      r \in {r \in R : r.unit = "INR" /\ r.exact /\ k.value + r.value > 0}}
<1>1. \A t, k : BankBooks(t, close, k) = books(k, PaidUp(t, k), Matching(t, "reserves_and_surplus", k))
  BY DEF BankBooks
<1>2. \A k, S : books(k, S, {}) = {}
  OBVIOUS
<1> HIDE DEF books
<1>3. ASSUME NEW k \in F  PROVE PaidUp(G, k) = PaidUp(F, k)
  <2>1. o.day # k.day
    BY NotThatDay
  <2>2. {s \in Rows(G, "shares_outstanding") :
           s.day = k.day /\ s.source = k.source /\ s.unit = "shares" /\ s.value > 0 /\ s.exact}
          = {s \in Rows(F, "shares_outstanding") :
               s.day = k.day /\ s.source = k.source /\ s.unit = "shares" /\ s.value > 0 /\ s.exact}
    BY <2>1 DEF Rows
  <2> HIDE DEF G
  <2> QED  BY <2>2 DEF PaidUp
<1>4. \A k \in F : Matching(G, "reserves_and_surplus", k) = Matching(F, "reserves_and_surplus", k)
  BY MatchingStays
<1>5. NameOf(o) = "capital" => Matching(G, "reserves_and_surplus", o) = {}
  BY NoneThatDay
<1> QED  BY <1>1, <1>2, <1>3, <1>4, <1>5

LEMMA BankBookStays ==
  ASSUME NEW F, NEW o, Late(F, o), NEW close
  PROVE  BankBook(F \cup {o}, close) = BankBook(F, close)
<1> DEFINE G == F \cup {o}
           worth(t) == {k \in {k \in Rows(t, "capital") : k.kind = "point_in_time" /\ k.unit = "INR" /\ k.exact
                                                             /\ k.value > 0} : BankBooks(t, close, k) # {}}
<1>1. \A t : BankBook(t, close) = UNION {BankBooks(t, close, k) : k \in Latest(worth(t))}
  BY DEF BankBook
<1>2. /\ \A k \in F : BankBooks(G, close, k) = BankBooks(F, close, k)
      /\ NameOf(o) = "capital" => BankBooks(G, close, o) = {}
  BY BankBooksStay
<1>3. \A k : k \in worth(G) <=> k \in worth(F)
  BY <1>2 DEF Rows
<1>4. worth(F) \subseteq F
  BY DEF Rows
<1> HIDE DEF worth, G
<1>5. worth(G) = worth(F)
  BY <1>3
<1>6. \A k \in Latest(worth(F)) : BankBooks(G, close, k) = BankBooks(F, close, k)
  BY <1>2, <1>4, NewestIs
<1>7. BankBook(G, close) = BankBook(F, close)
  <2> DEFINE books(t, k) == BankBooks(t, close, k)
  <2>1. /\ BankBook(G, close) = UNION {books(G, k) : k \in Latest(worth(F))}
        /\ BankBook(F, close) = UNION {books(F, k) : k \in Latest(worth(F))}
    BY <1>1, <1>5
  <2>2. \A k \in Latest(worth(F)) : books(G, k) = books(F, k)
    BY <1>6
  <2> HIDE DEF books
  <2>3. {books(G, k) : k \in Latest(worth(F))} = {books(F, k) : k \in Latest(worth(F))}
    BY <2>2
  <2> QED  BY <2>1, <2>3
<1> QED  BY <1>7 DEF G

LEMMA BookGain ==
  ASSUME NEW F, NEW o, Late(F, o)
  PROVE  \/ \A c : PriceBook(F \cup {o}, c) = PriceBook(F, c)
         \/ NameOf(o) = "shares_outstanding" /\ \A c : PriceBook(F \cup {o}, c) = {}
<1> DEFINE G == F \cup {o}
           bvps(t) == {f \in NewestFacts(t, "book_value_per_share") : f.value > 0}
           equity(t) == IF NewestFacts(t, "total_equity") # {} THEN NewestFacts(t, "total_equity")
                        ELSE NewestFacts(t, "net_worth")
           held(t, e) == AtOrBefore(Rows(t, "shares_outstanding"), e.day)
           both(t) == UNION {{<<e, s>> : s \in held(t, e)} : e \in equity(t)}
           positive(t) == {p \in both(t) : p[1].value > 0 /\ p[2].value > 0}
           by(c, V, P, B) == IF V # {} THEN {Measured(Quotient(c.price, f.value), c.day, {f}) : f \in V}
                             ELSE IF P = {} THEN B
                             ELSE {Measured(Quotient(c.price * p[2].value, p[1].value), c.day, {p[1], p[2]}) :
                                     p \in {p \in P : p[1].day = p[2].day /\ OneScale(p[1], p[2])}}
<1>1. \A t, c : PriceBook(t, c) = by(c, bvps(t), positive(t), BankBook(t, c))
  BY DEF PriceBook
<1>2. \A c, B, P : P # {} /\ (\A p \in P : p[1].day # p[2].day) => by(c, {}, P, B) = {}
  OBVIOUS
<1> HIDE DEF by
<1>3. \A name : NewestFacts(G, name) = NewestFacts(F, name)
  BY NewestFactsStay
<1>4. bvps(G) = bvps(F) /\ equity(G) = equity(F)
  BY <1>3
<1>5. equity(F) \subseteq F
  BY NewestIs DEF NewestFacts, Rows
<1>6. \A e, f \in equity(F) : e = f
  BY OneNewest DEF NewestFacts, Rows, Late
<1> HIDE DEF bvps, equity, G
<1>7. \A c : BankBook(G, c) = BankBook(F, c)
  BY BankBookStays DEF G
<1>8. CASE \E e \in equity(F) : held(G, e) # held(F, e)
  <2>1. PICK e \in equity(F) : held(G, e) # held(F, e)
    BY <1>8
  <2> DEFINE S == {f \in Rows(F, "shares_outstanding") : f.day <= e.day}
             T == {f \in Rows(G, "shares_outstanding") : f.day <= e.day}
  <2>2. S \subseteq F /\ Gains(S, T, o) /\ (o \in T => NameOf(o) = "shares_outstanding")
    BY DEF Rows, Gains, G
  <2>3. held(F, e) = Latest(S) /\ held(G, e) = Latest(T)
    BY DEF AtOrBefore
  <2> HIDE DEF S, T, held
  <2>4. S = {}
    BY <2>1, <2>2, <2>3, NewestStays
  <2>5. T = {o}
    BY <2>1, <2>2, <2>3, <2>4 DEF Gains
  <2>6. held(F, e) = {} /\ held(G, e) = {o} /\ NameOf(o) = "shares_outstanding"
    BY <2>2, <2>3, <2>4, <2>5, NewestOfNone, NewestOfOne
  <2>7. both(F) = {} /\ both(G) = {<<e, o>>}
    <3>1. equity(F) = {e} /\ equity(G) = {e}
      BY <1>4, <1>6
    <3> QED  BY <2>6, <3>1
  <2>8. o.day # e.day
    BY <1>5, NotThatDay
  <2>9. CASE positive(G) = {}
    <3>1. positive(F) = {}
      BY <2>7
    <3> HIDE DEF positive
    <3> QED  BY <1>1, <1>4, <1>7, <2>9, <3>1 DEF G
  <2>10. CASE positive(G) # {} /\ bvps(F) # {}
    <3>1. \A c, P, Q, B : by(c, bvps(F), P, B) = by(c, bvps(F), Q, B)
      BY <2>10 DEF by
    <3> HIDE DEF positive
    <3>2. \A c : PriceBook(G, c) = PriceBook(F, c)
      BY <1>1, <1>4, <1>7, <3>1
    <3> QED  BY <3>2 DEF G
  <2>11. CASE positive(G) # {} /\ bvps(F) = {}
    <3>1. \A p \in positive(G) : p[1].day # p[2].day
      BY <2>7, <2>8
    <3> HIDE DEF positive
    <3>2. \A c : PriceBook(G, c) = {}
      BY <1>1, <1>2, <1>4, <2>11, <3>1
    <3> QED  BY <2>6, <3>2 DEF G
  <2> QED  BY <2>9, <2>10, <2>11
<1>9. CASE \A e \in equity(F) : held(G, e) = held(F, e)
  <2> HIDE DEF held
  <2>1. both(G) = both(F)
    BY <1>4, <1>9
  <2>2. positive(G) = positive(F)
    <3> HIDE DEF both
    <3> QED  BY <2>1
  <2> HIDE DEF positive
  <2> QED  BY <1>1, <1>4, <1>7, <2>2 DEF G
<1> QED  BY <1>8, <1>9

MayGain == {"revenue_growth", "aum_growth", "pe"}

LEMMA MetricKeeps ==
  ASSUME NEW F, NEW o, Late(F, o), NEW name, NEW close, NEW m \in PeerMetric(name, F, close)
  PROVE  \/ m \in PeerMetric(name, F \cup {o}, close)
         \/ name \in MayGain /\ \E n \in PeerMetric(name, F \cup {o}, close) : o \in n.inputs
         \/ name = "pb" /\ PeerMetric(name, F \cup {o}, close) = {} /\ NameOf(o) = "shares_outstanding"
<1> DEFINE G == F \cup {o}
<1>1. CASE name = "revenue_growth"
  <2>1. \A t : PeerMetric(name, t, close) = RevenueGrowth(t)
    BY <1>1 DEF PeerMetric
  <2> QED  BY <1>1, <2>1, RevenueKeeps DEF MayGain
<1>2. CASE name = "ebitda_margin"
  <2>1. \A t : PeerMetric(name, t, close) = EbitdaMargin(t)
    BY <1>2 DEF PeerMetric
  <2> QED  BY <2>1, MarginStays
<1>3. CASE name = "roce"
  <2>1. \A t : PeerMetric(name, t, close) = Roce(t)
    BY <1>3 DEF PeerMetric
  <2> QED  BY <2>1, RoceStays
<1>4. CASE name = "roe"
  <2>1. \A t : PeerMetric(name, t, close) = Return(t, "roe_pct", "total_equity")
    BY <1>4 DEF PeerMetric
  <2> QED  BY <2>1, ReturnStays
<1>5. CASE name = "roa"
  <2>1. \A t : PeerMetric(name, t, close) = Return(t, "roa_pct", "total_assets")
    BY <1>5 DEF PeerMetric
  <2> QED  BY <2>1, ReturnStays
<1>6. CASE name = "aum_growth"
  <2>1. \A t : PeerMetric(name, t, close) = GrowthOf(Rows(t, "aum"), TRUE)
    BY <1>6 DEF PeerMetric, AumGrowth
  <2>2. m \in GrowthOf(Rows(F, "aum"), TRUE)
    BY <2>1
  <2>3. m \in GrowthOf(Rows(G, "aum"), TRUE) \/ \E n \in GrowthOf(Rows(G, "aum"), TRUE) : o \in n.inputs
    BY <2>2, GrowthKeeps
  <2>4. m \in PeerMetric(name, G, close) \/ \E n \in PeerMetric(name, G, close) : o \in n.inputs
    BY <2>1, <2>3
  <2> QED  BY <1>6, <2>4 DEF MayGain
<1>7. CASE name = "pe"
  <2>1. \A t : PeerMetric(name, t, close) = UNION {PriceEarnings(t, c) : c \in close}
    BY <1>7 DEF PeerMetric
  <2>2. PICK c \in close : m \in PriceEarnings(F, c)
    BY <2>1
  <2>3. \/ PriceEarnings(G, c) = PriceEarnings(F, c)
        \/ \E n \in PriceEarnings(G, c) : o \in n.inputs
    BY EarningsGain
  <2>4. PriceEarnings(G, c) \subseteq PeerMetric(name, G, close)
    BY <2>1
  <2> QED  BY <1>7, <2>2, <2>3, <2>4 DEF MayGain
<1>8. CASE name = "pb"
  <2>1. \A t : PeerMetric(name, t, close) = UNION {PriceBook(t, c) : c \in close}
    BY <1>8 DEF PeerMetric
  <2>2. \/ \A c : PriceBook(G, c) = PriceBook(F, c)
        \/ NameOf(o) = "shares_outstanding" /\ \A c : PriceBook(G, c) = {}
    BY BookGain
  <2>3. CASE \A c : PriceBook(G, c) = PriceBook(F, c)
    BY <2>1, <2>3
  <2>4. CASE NameOf(o) = "shares_outstanding" /\ \A c : PriceBook(G, c) = {}
    <3>1. PeerMetric(name, G, close) = {}
      <4> HIDE DEF G
      <4> QED  BY <2>1, <2>4
    <3> QED  BY <1>8, <2>4, <3>1
  <2> QED  BY <2>2, <2>3, <2>4
<1>9. CASE name = "market_cap"
  <2>1. \A t : PeerMetric(name, t, close) = UNION {MarketCap(t, c) : c \in close}
    BY <1>9 DEF PeerMetric
  <2>2. \A c : MarketCap(G, c) = MarketCap(F, c)
    BY NewestFactsStay DEF MarketCap
  <2>3. PICK c \in close : m \in MarketCap(F, c)
    BY <2>1
  <2>4. m \in PeerMetric(name, G, close)
    <3>1. m \in MarketCap(G, c)
      BY <2>2, <2>3
    <3> HIDE DEF G
    <3> QED  BY <2>1, <3>1
  <2> QED  BY <2>4
<1>10. CASE name \notin {"revenue_growth", "ebitda_margin", "roce", "roe", "roa", "aum_growth", "pe", "pb",
                         "market_cap"}
  <2>1. \A t : PeerMetric(name, t, close) = {Measured(Quotient(f.value, 1), f.day, {f}) : f \in NewestFacts(t, name)}
    BY <1>10 DEF PeerMetric
  <2> QED  BY <2>1, NewestFactsStay
<1> QED  BY <1>1, <1>2, <1>3, <1>4, <1>5, <1>6, <1>7, <1>8, <1>9, <1>10

LEMMA LateIs ==
  ASSUME NEW table, NEW o, table \subseteq FiledRecords, IsFiniteSet(table), Distinct(table),
         o \in FiledRecords, Superseded(o, table)
  PROVE  Late(LoadedFacts(table), o)
<1>1. LoadedFacts(table) \in SUBSET table
  BY LoadedIs
<1>2. IsFiniteSet(LoadedFacts(table))
  BY <1>1, FS_Subset
<1> QED  BY <1>1, <1>2 DEF Late, Distinct, Superseded

LEMMA HistoryNow ==
  ASSUME WellFormed(case), AskPeer
  PROVE  HistoryDoesNotRewrite'
<1> DEFINE table == case.facts
           o == case.older
           close == case.close
           F == LoadedFacts(table)
           G == LoadedFacts(table \cup {o})
           names == OfFacts \cup OfPrices \cup PassedOn
<1>1. /\ case' = case /\ table \subseteq FiledRecords /\ IsFiniteSet(table) /\ Distinct(table)
      /\ o \in FiledRecords
  BY DEF AskPeer, WellFormed, PeerGiven, Distinct
<1>2. /\ verdict'.metrics = [name \in names |-> PeerMetric(name, F, close)]
      /\ verdict'.later = [name \in names |-> PeerMetric(name, G, close)]
  BY DEF AskPeer, DerivePeerMetrics
<1>3. CASE ~Superseded(o, table)
  BY <1>1, <1>3 DEF HistoryDoesNotRewrite, Asked
<1>4. CASE Superseded(o, table)
  <2>1. Late(F, o)
    BY <1>1, <1>4, LateIs
  <2>2. Gains(F, G, o)
    BY <1>1, <1>4, LoadedGain
  <2> HIDE DEF table, o, close, F, G
  <2>3. G = F \/ G = F \cup {o}
    BY <2>2 DEF Gains
  <2>4. ASSUME NEW name \in names, NEW m \in PeerMetric(name, F, close)
        PROVE  \/ m \in PeerMetric(name, G, close)
               \/ name \in MayGain /\ \E n \in PeerMetric(name, G, close) : o \in n.inputs
               \/ name = "pb" /\ PeerMetric(name, G, close) = {} /\ NameOf(o) = "shares_outstanding"
    BY <2>1, <2>3, MetricKeeps
  <2>5. \A name \in DOMAIN verdict'.metrics : \A m \in verdict'.metrics[name] :
          \/ m \in verdict'.later[name]
          \/ name \in MayGain /\ \E n \in verdict'.later[name] : o \in n.inputs
          \/ name = "pb" /\ verdict'.later[name] = {} /\ NameOf(o) = "shares_outstanding"
    <3> HIDE DEF names
    <3> QED  BY <1>2, <2>4
  <2> QED  BY <1>1, <2>5 DEF HistoryDoesNotRewrite, MayGain, o
<1> QED  BY <1>3, <1>4

LEMMA AskingResult ==
  ASSUME [DecisionNext]_decisionVars
  PROVE  /\ case' = case
         /\ verdict' # verdict =>
              /\ case.about = "valuation" => AskValuation
              /\ case.about = "move" => AskMove
              /\ case.about = "scores" => AskScores
              /\ case.about = "signals" => AskSignals
              /\ case.about = "changes" => AskChanges
              /\ case.about = "peer" => AskPeer
BY DEF DecisionNext, decisionVars, AskEvidence, AskSettings, AskCoverage, AskPlan, AskFacts, AskClaims,
       AskValuation, AskMove, AskRelease, AskScores, AskSignals, AskChanges, AskPeer

LEMMA ResultsKept ==
  ASSUME WellFormed(case), ResultsAreStable, [DecisionNext]_decisionVars
  PROVE  ResultsAreStable'
<1>1. /\ case' = case
      /\ verdict' # verdict =>
           /\ case.about = "valuation" => AskValuation
           /\ case.about = "move" => AskMove
           /\ case.about = "scores" => AskScores
           /\ case.about = "signals" => AskSignals
           /\ case.about = "changes" => AskChanges
           /\ case.about = "peer" => AskPeer
  BY AskingResult
<1>2. ScenariosOrdered'
  <2>1. CASE ~Asked("valuation")'
    BY <2>1 DEF ScenariosOrdered
  <2>2. CASE verdict' = verdict
    BY <1>1, <2>2 DEF ResultsAreStable, ScenariosOrdered, Asked
  <2>3. CASE Asked("valuation")' /\ verdict' # verdict
    BY <1>1, <2>3, ScenariosNow DEF Asked
  <2> QED  BY <2>1, <2>2, <2>3
<1>3. MovesMirror'
  <2>1. CASE ~Asked("move")'
    BY <2>1 DEF MovesMirror
  <2>2. CASE verdict' = verdict
    BY <1>1, <2>2 DEF ResultsAreStable, MovesMirror, Asked
  <2>3. CASE Asked("move")' /\ verdict' # verdict
    BY <1>1, <2>3, MirroredNow DEF Asked
  <2> QED  BY <2>1, <2>2, <2>3
<1>4. UnitsDoNotMatter'
  <2>1. CASE ~Asked("scores")'
    BY <2>1 DEF UnitsDoNotMatter
  <2>2. CASE verdict' = verdict
    BY <1>1, <2>2 DEF ResultsAreStable, UnitsDoNotMatter, Asked
  <2>3. CASE Asked("scores")' /\ verdict' # verdict
    BY <1>1, <2>3, UnitsNow DEF Asked
  <2> QED  BY <2>1, <2>2, <2>3
<1>5. SignalsAreStable'
  <2>1. CASE ~Asked("signals")'
    BY <2>1 DEF SignalsAreStable
  <2>2. CASE verdict' = verdict
    BY <1>1, <2>2 DEF ResultsAreStable, SignalsAreStable, Asked
  <2>3. CASE Asked("signals")' /\ verdict' # verdict
    BY <1>1, <2>3, SignalledNow DEF Asked
  <2> QED  BY <2>1, <2>2, <2>3
<1>6. RewordedIsNotNew'
  <2>1. CASE ~Asked("changes")'
    BY <2>1 DEF RewordedIsNotNew
  <2>2. CASE verdict' = verdict
    BY <1>1, <2>2 DEF ResultsAreStable, RewordedIsNotNew, Asked
  <2>3. CASE Asked("changes")' /\ verdict' # verdict
    BY <1>1, <2>3, RewordedNow DEF Asked
  <2> QED  BY <2>1, <2>2, <2>3
<1>7. HistoryDoesNotRewrite'
  <2>1. CASE ~Asked("peer")'
    BY <2>1 DEF HistoryDoesNotRewrite
  <2>2. CASE verdict' = verdict
    BY <1>1, <2>2 DEF ResultsAreStable, HistoryDoesNotRewrite, Asked
  <2>3. CASE Asked("peer")' /\ verdict' # verdict
    BY <1>1, <2>3, HistoryNow DEF Asked
  <2> QED  BY <2>1, <2>2, <2>3
<1>8. PeriodsReconcile'
  <2>1. CASE ~Asked("peer")'
    BY <2>1 DEF PeriodsReconcile
  <2>2. CASE verdict' = verdict
    BY <1>1, <2>2 DEF ResultsAreStable, PeriodsReconcile, Asked
  <2>3. CASE Asked("peer")' /\ verdict' # verdict
    BY <1>1, <2>3, PeriodsNow DEF Asked
  <2> QED  BY <2>1, <2>2, <2>3
<1> QED  BY <1>2, <1>3, <1>4, <1>5, <1>6, <1>7, <1>8 DEF ResultsAreStable

LEMMA ResultsAtFirst ==
  ASSUME verdict = Unasked
  PROVE  ResultsAreStable
<1>1. \A about \in {"valuation", "move", "scores", "signals", "changes", "peer"} : ~Asked(about)
  BY DEF Asked
<1> QED  BY <1>1 DEF ResultsAreStable, ScenariosOrdered, MovesMirror, UnitsDoNotMatter, SignalsAreStable,
               RewordedIsNotNew, HistoryDoesNotRewrite, PeriodsReconcile

(* For every well-formed case: what must not make a difference to a result   *)
(* makes none.  A bear case is not above the base nor the base above the     *)
(* bull, the other sign of a move mirrors its drivers, a unit of money does  *)
(* not move a score, a late filing of an older period does not rewrite a     *)
(* metric, and what is divided is of one period and one unit.                *)
THEOREM ResultsStayStable == DecisionSpec => []ResultsAreStable
<1>1. DecisionInit => WellFormed(case) /\ ResultsAreStable
  BY GivenAtFirst, ResultsAtFirst
<1>2. WellFormed(case) /\ ResultsAreStable /\ [DecisionNext]_decisionVars => (WellFormed(case) /\ ResultsAreStable)'
  BY StillGiven, ResultsKept
<1> QED  BY <1>1, <1>2, PTL DEF DecisionSpec

=============================================================================
