------------------------------ MODULE ReleaseGates ------------------------------
(***************************************************************************)
(* The gates that look at the running system: the audit of the settings,   *)
(* the routes of the language models, the preflight of the database, the   *)
(* acceptance of real research, operations health, the commercial launch,  *)
(* the checks of a deployment, and the release gate that runs them in      *)
(* order.  Pure definitions over records of what each gate reads; c is a   *)
(* record of settings.                                                     *)
(***************************************************************************)
EXTENDS DataReadiness, Sequences

LlmProviders == {"groq", "gemini", "nvidia", "cerebras"}
Upstox == {"upstox_client_id", "upstox_client_secret", "upstox_redirect_uri", "broker_token_encryption_key"}

(* The providers of a capability in their order: those with a key, and     *)
(* under free_only with a free route.  None is `unavailable`.              *)
Preference(capability) ==
  CASE capability \in {"multimodal", "long_context"} -> <<"gemini", "nvidia", "groq", "cerebras">>
    [] capability = "deep" -> <<"nvidia", "groq", "cerebras", "gemini">>
    [] capability = "low_latency" -> <<"cerebras", "groq", "gemini", "nvidia">>
    [] OTHER -> <<"groq", "cerebras", "gemini", "nvidia">>

Candidates(capability, c) ==
  {i \in 1..4 : LET p == Preference(capability)[i] IN
                p \in c.keys /\ (c.freeOnly => p \in c.freeRoutes)}

Choice(capability, c) ==
  IF ~c.llm THEN "disabled"
  ELSE IF Candidates(capability, c) = {} THEN "unavailable"
  ELSE Preference(capability)[CHOOSE i \in Candidates(capability, c) :
                                \A n \in Candidates(capability, c) : i <= n]

Eligible(capability, c) == Choice(capability, c) \in LlmProviders

(* What an address may be: the settings ask for https, the probes allow    *)
(* the loopback as well.  An address: secure, loopback, origin (no         *)
(* credentials, path, query or fragment).                                  *)
AuditErrors(c) ==
  (IF ~c.production THEN {} ELSE
     {e \in {"database_missing"} : ~c.database}
     \cup {e \in {"auth_missing"} : ~c.auth}
     \cup {e \in {"web_app_https", "cors_https"} : ~c.https}
     \cup {e \in {"upstox_redirect_https"} :
              c.live /\ "upstox_redirect_uri" \in c.upstox /\ ~c.redirectHttps})
  \cup {e \in {"llm_provider_missing"} : c.llm /\ c.keys = {}}
  \cup {e \in {"multimodal_gemini_missing"} : c.multimodal /\ ~(c.llm /\ "gemini" \in c.keys)}
  \cup {e \in {"audio_gemini_missing"} : c.audio /\ ~(c.llm /\ "gemini" \in c.keys)}
  \cup {e \in {"embedding_runtime_missing"} : c.semantic /\ ~c.embeddings}
  \cup {e \in {"live_market_credentials_missing"} : c.live /\ c.upstox # Upstox}
  \cup {e \in {"broker_encryption_invalid"} : c.live /\ c.upstox = Upstox /\ ~c.fernet}
  \cup {e \in {"posthog_key_missing"} : c.telemetry /\ ~c.posthog}

AuditReady(c) == AuditErrors(c) = {}

(* An application in production does not start on settings with an error.  *)
Starts(c) == c.production => AuditReady(c)

ActivationErrors(c) ==
  {e \in {"free_only"} : ~c.freeOnly}
  \cup {e \in {"fast", "deep"} : c.llm /\ ~Eligible(e, c)}
  \cup {e \in {"multimodal"} :
          c.multimodal /\ (~(c.llm /\ "gemini" \in c.keys /\ c.multimodalModel /\ "gemini" \in c.freeRoutes)
                            \/ (c.llm /\ ~Eligible("multimodal", c)))}
  \cup {e \in {"audio"} : c.audio /\ ~(c.llm /\ "gemini" \in c.keys /\ c.audioModel /\ "gemini" \in c.freeRoutes)}
  \cup {e \in {"tavily"} : c.external /\ ~c.tavily}
  \cup {e \in {"upstox"} : c.live /\ c.upstox # Upstox}

ProvidersReady(c) == ActivationErrors(c) = {}

(* The database of the preflight d: an error ends the inspection.          *)
PreflightReady(c, d) ==
  /\ AuditReady(c)
  /\ c.database /\ d.connected
  /\ d.extension /\ d.index /\ d.columns /\ d.constraint
  /\ d.missingTables = {} /\ d.openTables = {} /\ d.missingPolicies = {}

-----------------------------------------------------------------------------
(* Acceptance of real research: a job j has a row when it was found.       *)
JobErrors(j) ==
  {e \in {"completed", "report", "validator", "synthesis", "claims", "validated", "linked", "sources"} :
     ~j.has[e]}
  \cup {e \in {"security"} : j.security = ""}
  \cup {e \in {"nonproduction"} : j.nonproduction > 0}
  \cup {e \in {"coverage"} : j.coverage # Unknown /\ j.coverage < 50}

SecuritiesOf(rows) == {j.security : j \in rows} \ {""}
SectorsOf(rows) == {j.sector : j \in rows} \ {""}

AcceptanceReady(requested, rows, leastSecurities, leastSectors) ==
  /\ requested # {}
  /\ requested \subseteq {j.id : j \in rows}
  /\ \A j \in rows : JobErrors(j) = {}
  /\ Cardinality(SecuritiesOf(rows)) >= leastSecurities
  /\ Cardinality(SectorsOf(rows)) >= leastSectors

-----------------------------------------------------------------------------
(* Operations: h counts what is late, l what the live market shows.        *)
LiveErrors(c, l) ==
  IF ~c.live \/ l.subscriptions = 0 THEN {}
  ELSE {e \in {"lease"} : l.leases = 0} \cup {e \in {"quotes"} : l.fresh = 0}
       \cup {e \in {"stale"} : l.stale > 0}

OperationsErrors(c, k, a, h, l) ==
  DataErrors(k, 1000)
  \cup {e \in {"agents"} : ~AgentsReady(a, k, c, 1000)}
  \cup {e \in {"running_jobs", "running_ingestion", "feeds"} : h[e] > 0}
  \cup LiveErrors(c, l)

OperationsWarnings(c, k, h, l) ==
  DataWarnings(k)
  \cup {w \in {"queued_jobs", "failed_ingestion", "failed_feeds", "calibrations"} : h[w] > 0}
  \cup {w \in {"embeddings"} : c.semantic /\ h.unembedded > 0}
  \cup {w \in {"subscriptions"} : c.live /\ l.subscriptions = 0}

OperationsReady(c, k, a, h, l) == OperationsErrors(c, k, a, h, l) = {}

(* A source scope that is written without its colon is no requirement.     *)
RequiredScopes(c) == {s \in c.scopes : s.wellFormed}

Approved(row) == row.status = "approved" /\ row.reference /\ ~row.expired

CommercialReady(c, k, a, h, l, approvals) ==
  /\ c.production /\ c.commercial
  /\ c.requireFree => c.freeOnly
  /\ AuditReady(c)
  /\ OperationsReady(c, k, a, h, l)
  /\ RequiredScopes(c) # {}
  /\ \A s \in RequiredScopes(c) : s.name \in DOMAIN approvals /\ Approved(approvals[s.name])

-----------------------------------------------------------------------------
(* The deployment: answers of the API, r a record of what they say.        *)
TargetAllowed(url) == url.origin /\ (url.secure \/ url.loopback)

SmokePasses(url, token, r, requireCorpus) ==
  /\ token /\ TargetAllowed(url)
  /\ r.health = 200 /\ r.status = "ok" /\ r.databaseHealthy # "no"
  /\ r.ready = 200 /\ r.runtimeReady
  /\ r.agents = 200 /\ r.roles = 16 /\ r.count = 16
  /\ r.auth = 200
  /\ r.data = 200 /\ r.nonproduction = 0 /\ r.unapproved = 0
  /\ requireCorpus => r.corpusReady

IsolationPasses(owner, other, ownerJob, otherJob, history, id) ==
  /\ owner # "" /\ other # "" /\ owner # other
  /\ ownerJob = 200 /\ otherJob = 404
  /\ history.status = 200 /\ history.wellFormed /\ id \notin history.jobs

SafeEndpoints == {"/health", "/ready", "/v1/system/agents", "/v1/auth/me", "/v1/system/data-readiness"}
Protected == {"/v1/auth/me", "/v1/system/data-readiness"}

ProbeAllowed(url, token, endpoints, requests, concurrency) ==
  /\ url.origin /\ (token => url.secure \/ url.loopback)
  /\ endpoints # {} /\ endpoints \subseteq SafeEndpoints
  /\ endpoints \cap Protected # {} => token
  /\ requests \in 1..500 /\ concurrency \in 1..25

SampleOk(status) == status \in 200..399

ProbePasses(statuses, requests) ==
  Len(statuses) = requests /\ \A i \in DOMAIN statuses : SampleOk(statuses[i])

(* What the manifest of the corpus says is still to be done, and its       *)
(* verdict; the data and agent contracts as a command of their own.        *)
NextActions(a, k, least) ==
  {r \in Universal : a.covered[r] < a.total}
  \cup {r \in {"universe"} : a.total < least}
  \cup {r \in {"benchmarks"} : ~a.benchmarks} \cup {r \in {"macro"} : ~a.macro}
  \cup {r \in {"chunks"} : k.chunks = 0}

ManifestExit(k, a, c, least) == IF DataReady(k, least) /\ AgentsReady(a, k, c, 1000) THEN 0 ELSE 1
AgentGateExit(k, a, c, least) == IF DataReady(k, least) /\ AgentsReady(a, k, c, least) THEN 0 ELSE 1

-----------------------------------------------------------------------------
(* The release gate runs its stages in this order and stops at the first   *)
(* that does not exit with 0.                                              *)
ReleaseStages == <<"preflight", "corpus_readiness", "real_company_acceptance", "provider_activation",
            "operations_health", "commercial_launch", "deployment_smoke", "auth_isolation", "load_probe">>

(* The release and the check of the isolation take an address alike.       *)
ReleaseTarget(url, allowHttp) == url.secure \/ (allowHttp /\ url.loopback)

CommandsBuilt(url, allowHttp, least, requests, concurrency) ==
  /\ ReleaseTarget(url, allowHttp)
  /\ least >= 1000 /\ requests \in 1..500 /\ concurrency \in 1..25

FailedStage(ok) ==
  LET failing == {i \in DOMAIN ReleaseStages : ~ok[ReleaseStages[i]]}
  IN IF failing = {} THEN "none" ELSE ReleaseStages[CHOOSE i \in failing : \A n \in failing : i <= n]

ReleaseReady(ok) == FailedStage(ok) = "none"
=============================================================================
