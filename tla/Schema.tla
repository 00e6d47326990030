------------------------------- MODULE Schema -------------------------------
(***************************************************************************)
(* The migrations of the evidence database (src/src/db/migrate.ts and      *)
(* db/migrations/): what each one creates, adds and relies on.             *)
(*                                                                         *)
(* A schema is a set of pairs <<table, column>>.  Of a table's columns the *)
(* model keeps those an index, a later migration or a row operation of a   *)
(* migration names: what a statement can fail on.  Indexes have no state   *)
(* of their own; creating one needs its columns.                           *)
(***************************************************************************)
EXTENDS Integers

Columns(t, cols) == {t} \X cols

Exists(schema, t) == \E p \in schema : p[1] = t

\* creates: CREATE TABLE IF NOT EXISTS; adds: addColumnIfMissing; needs: the
\* columns of indexes and of the rows read or written.
Migration(creates, adds, needs) == [creates |-> creates, adds |-> adds, needs |-> needs]

Table(t, cols)    == Migration(Columns(t, cols), {}, Columns(t, cols))
AddTo(t, cols)    == Migration({}, Columns(t, cols), {})
RowsOf(t, cols)   == Migration({}, {}, Columns(t, cols))
Both(m, n)        == Migration(m.creates \cup n.creates, m.adds \cup n.adds, m.needs \cup n.needs)

\* A table that exists keeps the columns it has: IF NOT EXISTS.
After(schema, m) == schema \cup {p \in m.creates : ~Exists(schema, p[1])} \cup m.adds

\* "no such column", "no such table", or ALTER TABLE on a table that is not there.
Fails(schema, m) ==
  \/ ~(m.needs \subseteq After(schema, m))
  \/ \E p \in m.adds : ~Exists(schema \cup m.creates, p[1])

-----------------------------------------------------------------------------
(* 1 to 21: migrate.ts. *)

V1 == Table("schema_migrations", {"version"})
V2 == Table("agents", {"tenant_id", "locked"})
V3 == Table("payout_logs", {"tenant_id", "agent_id", "idempotency_key", "status", "created_at"})
V4 == Table("users", {"id", "tenant_id", "username", "email", "role"})
V5 == Table("refresh_tokens", {"user_id", "revoked", "token_hash", "expires_at"})
V6 == Table("anomaly_logs", {"tenant_id", "entity_id", "event_type", "risk_level", "created_at"})
V7 == Table("ip_lockouts", {"locked_until"})
V8 == AddTo("agents", {"payout_method", "card_token", "payout_threshold_usd"})
V9 == Both(AddTo("agents", {"country_code", "kyc_tier"}), RowsOf("agents", {"country_code"}))
V10 == Both(AddTo("payout_logs", {"local_amount", "local_currency", "fx_mid_rate", "fx_effective_rate",
                                  "fx_rate_id", "withholding_tax_local", "regulatory_report_filed"}),
            RowsOf("payout_logs", {"local_currency", "fx_rate_id", "regulatory_report_filed", "created_at"}))
V11 == Table("fx_rate_cache", {"rate_id", "target", "expires_at", "fetched_at"})
V12 == Table("fx_conversion_log", {"payout_log_id", "rate_id", "local_currency", "created_at"})
V13 == Migration({}, {}, {})      \* PRAGMAs cannot be set in a transaction: openDatabase sets them
V14 == Table("compliance_reports", {"tenant_id", "report_type", "generated_at"})
V15 == Table("regulatory_report_log", {"tenant_id", "payout_log_id", "dispatched_at", "must_file_by"})
V16 == Both(Table("regulatory_frameworks", {"region_code", "is_active", "framework_code"}),
            Both(Table("regulatory_field_rules", {"framework_id"}),
                 Table("regulatory_consent_purposes", {"framework_id"})))
V17 == Both(AddTo("users", {"control_plane", "plane_role", "plane_tenant_scope",
                            "plane_assigned_at", "plane_assigned_by"}),
            RowsOf("users", {"control_plane", "plane_role", "plane_tenant_scope"}))
V18 == Table("role_access_metrics",
             {"user_id", "access_granted", "is_boundary_crossing", "is_tenant_violation",
              "requested_resource", "requested_method", "evaluated_at"})
V19 == Table("plane_session_log", {"user_id", "control_plane", "session_start"})
\* Fault: the backfill skips deactivated users, a column that comes with 30.
V20SkipsDeactivated == RowsOf("users", {"id", "role", "tenant_id", "deactivated_at"})
V20 == RowsOf("users", {"id", "role", "tenant_id", "control_plane", "plane_role",
                        "plane_tenant_scope", "plane_assigned_at"})
V21 == RowsOf("role_access_metrics", {"access_granted", "is_boundary_crossing",
                                      "is_tenant_violation", "evaluated_at", "user_id"})

-----------------------------------------------------------------------------
(* 22 to 32: phase15_commercial_activation.ts, phase11_users_audit.ts,       *)
(* phase16_caas_governance.ts.                                               *)

V22 == Table("accounts", {"tenant_id", "tier", "status", "api_key_prefix", "pilot_ends_at"})
\* Fault: the history table is left to the router.
V23WithoutHistory == Table("trust_badge_registry", {"tenant_id", "badge_state", "state_signature"})
V23 == Both(Table("trust_badge_registry", {"tenant_id", "badge_state", "state_signature"}),
            Table("trust_badge_history", {"tenant_id", "changed_at"}))
V24 == Table("ai_insurance_warranties", {"tenant_id", "policy_state", "state_changed_at"})
V25 == Table("commercial_audit_log", {"tenant_id", "entity_type", "entity_id", "created_at"})
V26 == Table("pilot_decisions", {"tenant_id", "decision_class", "received_at", "processed_at"})
V27 == Table("secret_state", {"secret_name", "fingerprint"})
V28 == Both(Table("user_profiles", {"tenant_id"}), Table("role_audit_log", {"tenant_id", "created_at"}))
V29 == Both(AddTo("accounts", {"billing_customer_id", "billing_subscription_id", "run_count_this_month",
                               "run_limit_monthly", "referral_agent_id", "pilot_started_at", "trial_ends_at"}),
            RowsOf("accounts", {"referral_agent_id"}))
V30 == AddTo("users", {"created_by", "deactivated_at", "deactivated_by"})

ScanTables ==
  Both(Table("scan_events", {"tenant_id", "received_at", "processing_status"}),
       Table("verification_results", {"tenant_id", "verified_at", "event_id", "result"}))
VaultTables ==
  Both(Table("vault_records", {"tenant_id", "sequence_num"}),
       Table("compliance_alerts", {"tenant_id", "acknowledged", "created_at"}))
PolicyMaps ==
  Table("json_policy_maps", {"active", "jurisdiction", "regulation", "clause_ref", "check_name",
                             "check_type", "check_config", "severity", "description"})
PipelineJobs ==
  Migration(Columns("job_queue", {"job_type", "payload", "status", "attempts", "max_attempts", "run_after"}),
            {}, Columns("job_queue", {"status", "run_after"}))
PartnerTables ==
  Both(Table("partners", {"email", "caas_ref_id"}),
       Table("commissions", {"partner_id", "status", "created_at"}))
CacheAndAudit ==
  Both(Table("trust_badge_cache", {"tenant_id"}), Table("audit_log", {"tenant_id", "user_id", "created_at"}))
V31 == Both(Both(ScanTables, VaultTables),
            Both(Both(PolicyMaps, PipelineJobs), Both(PartnerTables, CacheAndAudit)))
V32 == RowsOf("json_policy_maps", {"regulation", "jurisdiction", "clause_ref", "check_name",
                                   "check_type", "check_config", "severity", "description"})

\* MIGRATIONS, in the order of their versions.
Migrations == <<V1, V2, V3, V4, V5, V6, V7, V8, V9, V10, V11, V12, V13, V14, V15, V16, V17, V18, V19,
                V20, V21, V22, V23, V24, V25, V26, V27, V28, V29, V30, V31, V32>>

-----------------------------------------------------------------------------
(* phase12_13.ts, a script with migrations of its own under the versions 23 to *)
(* 30: the tables of the commercial engine.                                    *)

Subscriptions == Table("tenant_commercial_subscriptions", {"tenant_id", "status", "current_period_end", "tier"})
Ledgers       == Table("commercial_billing_ledgers",
                       {"tenant_id", "period_start", "status", "due_at", "invoice_number", "total_usd"})
Registry      == Table("insurance_underwriting_registry",
                       {"tenant_id", "policy_number", "risk_band", "last_audit_at", "next_audit_at"})
Snapshots     == Table("underwriting_audit_snapshots", {"registry_id", "tenant_id", "audited_at"})
PremiumTokens == Table("premium_reduction_tokens",
                       {"tenant_id", "status", "expires_at", "registry_id", "discount_pct"})
OverageLog    == Table("overage_charge_log", {"tenant_id", "recorded_at", "ledger_id"})
LineItems     == Table("invoice_line_items", {"ledger_id", "sort_order"})
CommercialIndexes ==
  Both(Both(RowsOf("commercial_billing_ledgers",
                   {"tenant_id", "status", "period_start", "total_usd", "invoice_number", "due_at"}),
            RowsOf("premium_reduction_tokens", {"tenant_id", "status", "expires_at", "discount_pct"})),
       Both(AddTo("agents", {"subscription_id"}), AddTo("users", {"is_billing_contact"})))

CommercialMigrations ==
  [v \in 23 .. 30 |->
     <<Subscriptions, Ledgers, Registry, Snapshots, PremiumTokens, OverageLog, LineItems,
       CommercialIndexes>>[v - 22]]

-----------------------------------------------------------------------------
(* Tables created outside the migrations. *)

\* ensureJobTable, then the recovery of the constructor: CREATE TABLE IF NOT EXISTS,
\* two indexes, an UPDATE.
QueueJobs ==
  Migration(Columns("job_queue", {"type", "payload_json", "priority", "status", "attempts", "max_attempts",
                                  "idempotency_key", "started_at", "next_attempt_at"}),
            {}, Columns("job_queue", {"status", "priority", "next_attempt_at", "type", "started_at"}))

\* ensureSlowQueryTable.
SlowQueries == Table("slow_query_log", {"label", "recorded_at", "duration_ms"})

\* evidenceDb.ts: the evidence database of the first phases, at the same path.
EvidenceTables ==
  Columns("evidence", {"timestamp"}) \cup Columns("billing_meters", {"client_id", "tenant_id"})
    \cup Columns("agents", {"agent_id", "total_payouts", "momo_number"})
    \cup Columns("client_attribution", {"client_id", "agent_id"})
    \cup Columns("aibom_components", {"client_id"})
=============================================================================
