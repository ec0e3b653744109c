----------------------------- MODULE EvidenceGates -----------------------------
(***************************************************************************)
(* The five gates that judge a file of collected evidence (phases 31 to    *)
(* 54).  Each phase reads keys of its own section and tests every one by   *)
(* its kind; a few tests join two keys.  The value of a key is one of      *)
(*   good    what the test asks for                                        *)
(*   word    the same written as a text ("true", "0")                      *)
(*   bad     another value                                                 *)
(*   absent  no value, or an empty text                                    *)
(* or, for the statuses of a launch decision, the status itself.           *)
(***************************************************************************)
EXTENDS Naturals, FiniteSets

-----------------------------------------------------------------------------
(* The keys of a section by the kind of their test: true, a text that is   *)
(* not empty, a given text, a number within its limit, not true, joined    *)
(* with another key.                                                       *)
Keys(flags, texts, picks, counts, denied, joined) ==
  [flag |-> flags, text |-> texts, pick |-> picks, count |-> counts, deny |-> denied, join |-> joined]
Flags(flags) == Keys(flags, {}, {}, {}, {}, {})

ReadinessSections ==
  [vercel_project |->
     Keys({"preview_deployments_enabled"}, {"project_name", "framework"},
          {"team_id", "project_id", "git_repository", "production_branch", "root_directory"}, {}, {}, {}),
   environment_contract |->
     Flags({"vercel_token_configured", "vercel_org_id_configured", "vercel_project_id_configured",
            "database_url_configured", "supabase_url_configured",
            "supabase_publishable_key_configured", "api_base_url_configured",
            "web_app_url_configured", "cors_origins_https_only", "no_plaintext_credentials_in_repo"}),
   database_release |->
     Keys({"supabase_project_healthy"}, {}, {"latest_required_migration", "migrations_applied_through"},
          {"rls_no_policy_count"}, {}, {"security_warn_count", "managed_platform_warnings_accepted"}),
   build_artifacts |->
     Keys({"github_ci_success", "api_ruff_passed", "api_typecheck_passed", "api_tests_passed",
           "web_build_passed", "production_compose_valid", "dockerfile_valid"},
          {}, {"deployment_commit_sha"}, {}, {}, {}),
   auth_traffic |->
     Flags({"supabase_auth_site_url_configured", "redirect_urls_configured", "owner_test_user_ready",
            "other_test_user_ready", "smoke_user_ready", "rate_limits_configured",
            "deployment_smoke_plan_ready"}),
   final_runbook |->
     Flags({"phase_30_gate_plan_ready", "phase_31_36_gate_plan_ready", "rollback_plan_ready",
            "dns_cutover_plan_ready", "commercial_approval_plan_ready", "launch_owner_named"})]

ActivationSections ==
  [vercel_live_project |->
     Keys({"preview_deployment_ready", "production_domains_https_ready"}, {"project_name"},
          {"team_id", "project_id", "git_repository", "production_branch", "root_directory",
           "framework", "preview_deployment_url"}, {}, {}, {}),
   production_environment |->
     Flags({"vercel_env_pulled", "vercel_org_id_configured", "vercel_project_id_configured",
            "database_url_configured", "supabase_url_configured",
            "supabase_publishable_key_configured", "api_base_url_configured",
            "web_app_url_configured", "cors_origins_https_only", "frontend_uses_publishable_key_only",
            "service_role_absent_from_frontend", "no_plaintext_credentials_in_repo"}),
   supabase_real_data |->
     Keys({"production_corpus_gate_ready"}, {}, {},
          {"securities_count", "market_bars_count", "evidence_chunks_count", "research_jobs_count",
           "research_reports_count", "representative_research_jobs_count", "agent_15_completed_count",
           "agent_16_completed_count", "non_production_source_rows"}, {}, {}),
   supabase_security |->
     Keys({}, {"database_postgres_version"},
          {"project_status", "migrations_applied_through", "latest_required_migration"},
          {"rls_no_policy_count", "security_error_count", "performance_blocker_count"}, {},
          {"security_warn_count", "managed_platform_warnings_accepted", "pg_net_public_exception_status"})]

CutoverSections ==
  [railway_backend_runtime |->
     Keys({"api_domain_https", "api_ready_database_healthy"},
          {"project_id", "environment_id", "api_service_id"}, {"api_deployment_status", "api_domain"},
          {"api_target_port", "api_health_status", "api_ready_status", "api_runtime_error_count"}, {},
          {"worker_service_success_count", "required_service_count"}),
   vercel_frontend_backend_wiring |->
     Keys({"preview_deployment_ready", "env_file_detected", "api_base_url_matches_railway"},
          {"preview_commit_sha"},
          {"team_id", "project_id", "git_repository", "preview_deployment_id", "branch_alias",
           "api_base_url"}, {"frontend_runtime_error_count"}, {}, {}),
   release_promotion_controls |->
     Keys({"production_branch_matches_target", "required_checks_green", "manual_promotion_required",
           "rollback_candidate_available", "commercial_launch_gate_disabled_until_corpus_ready",
           "no_service_role_key_in_frontend"},
          {"latest_preview_commit_sha"}, {"target_branch"}, {"pull_request_number"}, {}, {"source_branch"}),
   live_acceptance_evidence |->
     Keys({"production_url_https", "post_promotion_smoke_required", "known_blockers_recorded",
           "corpus_not_marked_complete_without_real_data"},
          {"operator_acceptance_reference"},
          {"production_url", "phase_25_30_release_gate_status", "phase_31_36_post_launch_gate_status",
           "phase_43_46_activation_gate_status"}, {}, {}, {})]

PromotionSections ==
  [production_branch_promotion |->
     Keys({"required_checks_green", "review_or_owner_approval_recorded",
           "protected_environment_approval_recorded", "deployment_cutover_gate_ready",
           "no_uncommitted_config_drift"},
          {"expected_head_sha"}, {"git_repository", "target_branch", "merge_strategy"},
          {"pull_request_number"}, {}, {"source_branch"}),
   vercel_production_domain |->
     Keys({"production_deployment_ready", "production_url_https", "production_alias_ready",
           "env_file_detected"},
          {"production_commit_sha", "promoted_commit_sha"},
          {"production_deployment_id", "production_url", "root_directory", "framework", "api_base_url"},
          {"runtime_error_count"}, {}, {}),
   backend_post_promotion_sync |->
     Keys({"api_ready_database_healthy", "cors_includes_production_url", "free_only_enabled",
           "commercial_launch_disabled"},
          {"railway_project_id", "railway_environment_id"}, {"railway_api_deployment_status"},
          {"railway_worker_success_count", "api_health_status", "api_ready_status",
           "runtime_blocker_count"}, {},
          {"railway_branch_strategy", "railway_source_branch_matches_promoted"}),
   launch_decision_register |->
     Keys({"known_blockers_recorded"},
          {"rollback_reference", "monitoring_reference", "operator_signoff_reference"}, {}, {}, {},
          {"launch_decision", "corpus_gate_status", "supabase_security_exception_status",
           "sentry_monitoring_status", "npm_audit_status", "conditional_approval_reference"})]

PostLaunchSections ==
  [observability |->
     Keys({"error_monitoring_configured", "privacy_filtering_enabled"}, {},
          {"alert_routes", "production_deployment_url", "vercel_project_id"}, {"critical_runtime_error_count_24h"}, {}, {}),
   data_freshness |->
     Keys({"corpus_ready"}, {}, {},
          {"stale_market_data_count", "failed_ingestion_runs_24h", "official_feed_lag_minutes",
           "macro_series_present", "benchmark_codes_with_bars"}, {}, {}),
   research_quality |->
     Keys({"validator_completed"}, {}, {},
          {"evaluated_reports", "distinct_real_sectors", "validated_claim_coverage",
           "unsupported_claim_rate", "calibration_errors_open"}, {}, {}),
   security |->
     Keys({"auth_isolation_passed", "security_review_approved"}, {}, {},
          {"supabase_security_warn_count", "rls_enabled_no_policy_count",
           "critical_dependency_vulnerabilities", "exposed_secret_findings"}, {}, {}),
   cost_quota |->
     Keys({"free_only", "monthly_budget_configured", "usage_caps_configured",
           "provider_quota_alerts_configured"}, {}, {}, {"unapproved_paid_spend"},
          {"paid_fallback_enabled"}, {}),
   rollback_incident |->
     Keys({"production_backup_verified", "restore_drill_passed", "on_call_route_configured",
           "release_owner_approved"}, {"rollback_target_deployment_id"}, {"incident_runbook_url"},
          {}, {}, {})]

EvidenceGateNames == {"readiness", "activation", "cutover", "promotion", "post_launch"}

SectionsOf(g) ==
  CASE g = "readiness" -> ReadinessSections [] g = "activation" -> ActivationSections
    [] g = "cutover" -> CutoverSections [] g = "promotion" -> PromotionSections
    [] g = "post_launch" -> PostLaunchSections

(* The keys a gate reads, each with its section; evidence maps them to     *)
(* their values.                                                           *)
Kinds == {"flag", "text", "pick", "count", "deny", "join"}
ReadBy(g, kind) == UNION {{<<s, k>> : k \in SectionsOf(g)[s][kind]} : s \in DOMAIN SectionsOf(g)}
AllReadBy(g) == UNION {ReadBy(g, kind) : kind \in Kinds}

-----------------------------------------------------------------------------
(* The promotion gate alone reads a text as the truth value or number that *)
(* it spells; for the others a text is neither.                            *)
Spelled(g) == IF g = "promotion" THEN {"good", "word"} ELSE {"good"}

Fits(g, kind, v) ==
  CASE kind \in {"flag", "count"} -> v \in Spelled(g)
    [] kind = "text" -> v # "absent"
    [] kind = "pick" -> v = "good"
    [] kind = "deny" -> v # "bad"
    [] kind = "join" -> TRUE

(* The tests that join keys.  An absent branch is not the target branch,   *)
(* an absent count of services is the usual four.                          *)
SameBranch(e, s) == e[<<s, "source_branch">>] = "same"

WarningsOpen(e, s) ==
  e[<<s, "security_warn_count">>] # "good" /\ e[<<s, "managed_platform_warnings_accepted">>] # "good"

WorkersMissing(e, s) ==
  LET workers == IF e[<<s, "worker_service_success_count">>] = "good" THEN 3 ELSE 0
      services == IF e[<<s, "required_service_count">>] = "bad" THEN 1 ELSE 4
  IN workers + 1 < services

Strategies == {"main_after_merge", "feature_branch_until_final_merge", "manual_pin_accepted"}
Unpromoted(e, s) ==
  LET strategy == e[<<s, "railway_branch_strategy">>] IN
  \/ strategy \notin Strategies
  \/ strategy = "main_after_merge"
     /\ e[<<s, "railway_source_branch_matches_promoted">>] \notin Spelled("promotion")

CommitsDiffer(e, s) ==
  LET a == e[<<s, "production_commit_sha">>]  b == e[<<s, "promoted_commit_sha">>] IN
  a # "absent" /\ b # "absent" /\ a # b

RegisterStatuses ==
  [launch_decision |-> {"go", "conditional_go", "blocked"},
   corpus_gate_status |-> {"passed", "blocked_by_real_data", "not_ready"},
   supabase_security_exception_status |-> {"accepted", "not_applicable", "pending", "blocked"},
   sentry_monitoring_status |-> {"configured", "accepted_deferred", "blocked"},
   npm_audit_status |-> {"clean", "accepted_deferred", "blocked"}]

Resolved ==
  [corpus_gate_status |-> {"passed"}, sentry_monitoring_status |-> {"configured"},
   supabase_security_exception_status |-> {"accepted", "not_applicable"}, npm_audit_status |-> {"clean"}]

DecisionErrors(e, s) ==
  LET decision == e[<<s, "launch_decision">>] IN
  {k \in DOMAIN RegisterStatuses : e[<<s, k>>] \notin RegisterStatuses[k]}
  \cup {k \in DOMAIN Resolved : decision = "go" /\ e[<<s, k>>] \notin Resolved[k]}
  \cup {k \in {"conditional_approval_reference"} : decision = "conditional_go" /\ e[<<s, k>>] = "absent"}

JoinErrors(g, e) ==
  CASE g = "readiness" -> {k \in {"warnings"} : WarningsOpen(e, "database_release")}
    [] g = "activation" ->
         {k \in {"warnings"} : WarningsOpen(e, "supabase_security")}
         \cup {k \in {"pg_net"} : /\ e[<<"supabase_security", "security_warn_count">>] # "good"
                                  /\ e[<<"supabase_security", "pg_net_public_exception_status">>] # "good"}
    [] g = "cutover" ->
         {k \in {"workers"} : WorkersMissing(e, "railway_backend_runtime")}
         \cup {k \in {"branch"} : SameBranch(e, "release_promotion_controls")}
    [] g = "promotion" ->
         {k \in {"branch"} : SameBranch(e, "production_branch_promotion")}
         \cup {k \in {"commit"} : CommitsDiffer(e, "vercel_production_domain")}
         \cup {k \in {"strategy"} : Unpromoted(e, "backend_post_promotion_sync")}
         \cup DecisionErrors(e, "launch_decision_register")
    [] g = "post_launch" -> {}

EvidenceReady(g, e) ==
  /\ \A kind \in Kinds : \A p \in ReadBy(g, kind) : Fits(g, kind, e[p])
  /\ JoinErrors(g, e) = {}

-----------------------------------------------------------------------------
(* The command of a gate: the plan, or a verdict on a file that can be     *)
(* read and has no key that looks like a secret's.  A file f: plan, given, *)
(* readable, evidence, and the keys it has besides the contract's.         *)
MarkedBy(marker) ==
  CASE marker = "service_role" -> {"service_role_absent_from_frontend", "no_service_role_key_in_frontend"}
    [] marker = "service_role_key" -> {"no_service_role_key_in_frontend"}
    [] marker = "database_url" -> {"database_url_configured"}
    [] OTHER -> {}

CommonMarkers == {"access_token", "api_key", "client_secret", "password", "private_key"}
ReadinessMarkers == CommonMarkers \cup {"service_role"}
ActivationMarkers == CommonMarkers \cup {"secret_key", "service_role_key", "service_role_secret"}
CutoverMarkers == ActivationMarkers \cup {"database_url"}
PromotionMarkers == ActivationMarkers \cup {"database_url"}
PostLaunchMarkers == CommonMarkers \cup {"service_role"}

(* What these two scripts let pass: a key that begins with no_ and holds a *)
(* truth value attests that there is no secret.                            *)
Attests(g, v) == g \in {"cutover", "promotion"} /\ v # "word"

SecretLike(g, markers, f) ==
  {k \in f.extra : k \in markers}
  \cup {p \in AllReadBy(g) : /\ f.evidence[p] # "absent"
                             /\ \E marker \in markers : p[2] \in MarkedBy(marker)
                             /\ ~(p[2] = "no_service_role_key_in_frontend" /\ Attests(g, f.evidence[p]))}

EvidenceExit(g, markers, f) ==
  IF f.plan THEN 0
  ELSE IF f.given /\ f.readable /\ SecretLike(g, markers, f) = {} /\ EvidenceReady(g, f.evidence) THEN 0
  ELSE 1

DeploymentGate(f) == EvidenceExit("readiness", ReadinessMarkers, f)
ActivationGate(f) == EvidenceExit("activation", ActivationMarkers, f)
CutoverGate(f) == EvidenceExit("cutover", CutoverMarkers, f)
PromotionGate(f) == EvidenceExit("promotion", PromotionMarkers, f)
PostLaunchGate(f) == EvidenceExit("post_launch", PostLaunchMarkers, f)

EvidenceGate(g, f) ==
  CASE g = "readiness" -> DeploymentGate(f) [] g = "activation" -> ActivationGate(f)
    [] g = "cutover" -> CutoverGate(f) [] g = "promotion" -> PromotionGate(f)
    [] g = "post_launch" -> PostLaunchGate(f)
=============================================================================
