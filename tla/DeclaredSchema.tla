--------------------------- MODULE DeclaredSchema ---------------------------
(***************************************************************************)
(* The schema that the models declare (Base.metadata).                     *)
(***************************************************************************)
EXTENDS SchemaObjects

(***************************************************************************)
(* Who may do what: tenants, users, memberships, keys, tokens, audit.      *)
(***************************************************************************)
Tenant ==
  Table("tenants", {"name", "slug"}, {"status"} \cup Stamps, {"deleted_at"})
    \cup Unique("tenants", {"slug"})
    \cup Status("tenants", "tenant_status", {"ACTIVE", "SUSPENDED", "ARCHIVED"})

User ==
  Table("users", {"email", "display_name"}, {"status", "token_version"} \cup Stamps,
        {"hashed_password", "email_verified_at"})
    \cup Unique("users", {"email"})
    \cup Status("users", "user_status", {"ACTIVE", "SUSPENDED", "DEACTIVATED"})

TenantMembership ==
  LET t == "tenant_memberships" IN
  Table(t, {"tenant_id", "user_id", "role"}, {"status"} \cup Stamps, {})
    \cup Unique(t, {"tenant_id", "user_id"})
    \cup Ref(t, "tenant_id", "tenants", "RESTRICT")
    \cup Ref(t, "user_id", "users", "RESTRICT")
    \cup Enum(t, "role", "membership_role",
              {"OWNER", "ADMINISTRATOR", "SECURITY_ANALYST", "DEVELOPER", "VIEWER"})
    \cup Status(t, "membership_status", {"ACTIVE", "INVITED", "SUSPENDED", "REMOVED"})

APIKeyMetadata ==
  LET t == "api_key_metadata" IN
  Table(t, {"tenant_id", "name", "prefix", "hashed_secret", "scopes"}, {"status"} \cup Stamps,
        {"user_id", "expires_at", "last_used_at", "revoked_at"})
    \cup Unique(t, {"prefix"})
    \cup Ref(t, "tenant_id", "tenants", "RESTRICT")
    \cup Ref(t, "user_id", "users", "SET NULL")
    \cup Status(t, "api_key_status", {"ACTIVE", "REVOKED", "EXPIRED"})

RefreshToken ==
  LET t == "refresh_tokens" IN
  Table(t, {"tenant_id", "user_id", "family_id", "hashed_token", "expires_at"},
        {"status"} \cup Stamps,
        {"revoked_at", "replaced_by_id", "created_by_ip", "user_agent"})
    \cup Unique(t, {"hashed_token"})
    \cup Index(t, "family_id", {"family_id"})
    \cup Ref(t, "tenant_id", "tenants", "RESTRICT")
    \cup Ref(t, "user_id", "users", "RESTRICT")
    \cup Ref(t, "replaced_by_id", "refresh_tokens", "SET NULL")
    \cup Status(t, "refresh_token_status", {"ACTIVE", "ROTATED", "REVOKED"})

UserVerificationToken ==
  LET t == "user_verification_tokens" IN
  Table(t, {"user_id", "purpose", "hashed_token", "expires_at"}, Stamps, {"consumed_at"})
    \cup Unique(t, {"hashed_token"})
    \cup Ref(t, "user_id", "users", "RESTRICT")
    \cup Enum(t, "purpose", "verification_token_purpose", {"EMAIL_VERIFICATION", "PASSWORD_RESET"})

AuditEvent ==
  LET t == "audit_events" IN
  Table(t, {"action", "resource_type", "outcome"}, {"created_at"},
        {"tenant_id", "actor_user_id", "resource_id", "correlation_id", "source_ip",
         "user_agent", "metadata"})
    \cup Check(t, "metadata_size_limit", {"metadata"})
    \cup Ref(t, "tenant_id", "tenants", "SET NULL")
    \cup Ref(t, "actor_user_id", "users", "SET NULL")
    \cup Enum(t, "outcome", "audit_outcome", {"SUCCESS", "FAILURE", "DENIED"})

(***************************************************************************)
(* What is scanned, and what was found.                                    *)
(***************************************************************************)
Project ==
  LET t == "projects" IN
  Table(t, {"tenant_id", "name", "slug"}, {"status"} \cup Stamps, {"description", "archived_at"})
    \cup Unique(t, {"tenant_id", "slug"})
    \cup Unique(t, {"tenant_id", "id"})
    \cup Ref(t, "tenant_id", "tenants", "RESTRICT")
    \cup Status(t, "project_status", {"ACTIVE", "ARCHIVED"})

Asset ==
  LET t == "assets" IN
  Table(t, {"tenant_id", "project_id", "asset_type", "name", "locator"},
        {"environment", "status", "authorization_status"} \cup Stamps, {})
    \cup Unique(t, {"tenant_id", "id"})
    \cup TenantRef(t, "project_id", "projects", "RESTRICT")
    \cup Ref(t, "tenant_id", "tenants", "RESTRICT")
    \cup Enum(t, "asset_type", "asset_type",
              {"WEBSITE", "API", "REPOSITORY", "CONTAINER_IMAGE", "INFRASTRUCTURE",
               "DOMAIN", "IP_RANGE"})
    \cup Enum(t, "environment", "asset_environment",
              {"PRODUCTION", "STAGING", "DEVELOPMENT", "TEST", "UNKNOWN"})
    \cup Status(t, "asset_status", {"ACTIVE", "INACTIVE", "DECOMMISSIONED"})
    \cup Enum(t, "authorization_status", "authorization_status",
              {"UNAUTHORIZED", "PENDING", "AUTHORIZED", "EXPIRED", "REVOKED"})

ScanStatus ==
  {"PENDING", "QUEUED", "PREPARING", "RUNNING", "COLLECTING", "PROCESSING",
   "SUCCEEDED", "FAILED", "CANCELLED", "TIMED_OUT"}

Scan ==
  LET t == "scans" IN
  Table(t, {"tenant_id", "project_id", "asset_id", "scanner_type"},
        {"status", "attempt", "max_attempts", "timeout_seconds"} \cup Stamps,
        {"requested_by_user_id", "queued_at", "started_at", "completed_at", "failed_at",
         "cancelled_at", "timed_out_at", "error_code", "error_summary", "worker_id", "job_id",
         "retry_of_scan_id", "config", "correlation_id"})
    \cup Unique(t, {"tenant_id", "id"})
    \cup TenantRef(t, "project_id", "projects", "RESTRICT")
    \cup TenantRef(t, "asset_id", "assets", "RESTRICT")
    \cup TenantRef(t, "retry_of_scan_id", "scans", "SET NULL")
    \cup Ref(t, "tenant_id", "tenants", "RESTRICT")
    \cup Ref(t, "requested_by_user_id", "users", "SET NULL")
    \cup Status(t, "scan_status", ScanStatus)
    \cup Check(t, "started_after_queued", {"started_at", "queued_at"})
    \cup Check(t, "completed_after_started", {"completed_at", "started_at"})
    \cup Check(t, "failed_after_started", {"failed_at", "started_at"})
    \cup Check(t, "timed_out_after_started", {"timed_out_at", "started_at"})
    \cup Check(t, "terminal_timestamps_mutually_exclusive",
               {"completed_at", "failed_at", "cancelled_at", "timed_out_at"})
    \cup Check(t, "attempt_non_negative", {"attempt"})
    \cup Check(t, "max_attempts_positive", {"max_attempts"})
    \cup Check(t, "timeout_seconds_positive", {"timeout_seconds"})
    \cup Check(t, "config_size_limit", {"config"})

ScanEvent ==
  LET t == "scan_events" IN
  Table(t, {"tenant_id", "scan_id", "event_type"}, {"created_at"},
        {"stage", "progress_percent", "worker_id", "correlation_id", "message", "metadata"})
    \cup TenantRef(t, "scan_id", "scans", "CASCADE")
    \cup Ref(t, "tenant_id", "tenants", "RESTRICT")
    \cup Check(t, "metadata_size_limit", {"metadata"})
    \cup Check(t, "progress_percent_range", {"progress_percent"})

ScanJobOutbox ==
  LET t == "scan_job_outbox" IN
  Table(t, {"tenant_id", "scan_id", "scan_attempt", "event_type", "payload"},
        {"countdown_seconds", "created_at", "attempt_count"},
        {"published_at", "last_attempt_at", "last_error"})
    \cup Unique(t, {"tenant_id", "scan_id", "scan_attempt"})
    \cup TenantRef(t, "scan_id", "scans", "CASCADE")
    \cup Ref(t, "tenant_id", "tenants", "RESTRICT")
    \cup Check(t, "attempt_count_non_negative", {"attempt_count"})
    \cup Check(t, "scan_attempt_non_negative", {"scan_attempt"})
    \cup Check(t, "countdown_seconds_non_negative", {"countdown_seconds"})
    \cup Check(t, "payload_size_limit", {"payload"})
    \cup Index(t, "pending", {"created_at", "published_at"})

Finding ==
  LET t == "findings" IN
  Table(t, {"tenant_id", "project_id", "asset_id", "scan_id", "title", "severity",
            "source_tool", "fingerprint"},
        {"status", "confidence", "first_seen_at", "last_seen_at"} \cup Stamps,
        {"description", "external_reference", "remediation", "resolved_at"})
    \cup Unique(t, {"tenant_id", "id"})
    \cup Unique(t, {"tenant_id", "asset_id", "fingerprint"})
    \cup TenantRef(t, "project_id", "projects", "RESTRICT")
    \cup TenantRef(t, "asset_id", "assets", "RESTRICT")
    \cup TenantRef(t, "scan_id", "scans", "RESTRICT")
    \cup Ref(t, "tenant_id", "tenants", "RESTRICT")
    \cup Check(t, "last_seen_after_first_seen", {"last_seen_at", "first_seen_at"})
    \cup Check(t, "resolved_after_first_seen", {"resolved_at", "first_seen_at"})
    \cup Enum(t, "severity", "finding_severity",
              {"INFORMATIONAL", "LOW", "MEDIUM", "HIGH", "CRITICAL"})
    \cup Status(t, "finding_status",
                {"OPEN", "ACKNOWLEDGED", "IN_PROGRESS", "RESOLVED", "ACCEPTED_RISK",
                 "FALSE_POSITIVE"})
    \cup Enum(t, "confidence", "finding_confidence", {"LOW", "MEDIUM", "HIGH", "CONFIRMED"})

FindingReference ==
  LET t == "finding_references" IN
  Table(t, {"tenant_id", "finding_id", "reference_type", "value"}, Stamps, {})
    \cup Unique(t, {"finding_id", "reference_type", "value"})
    \cup TenantRef(t, "finding_id", "findings", "CASCADE")
    \cup Enum(t, "reference_type", "finding_reference_type",
              {"CVE", "CWE", "OWASP", "ADVISORY_URL", "VENDOR_ID"})

\* Base.metadata.
Metadata ==
  UNION {Tenant, User, TenantMembership, APIKeyMetadata, RefreshToken, UserVerificationToken,
         AuditEvent, Project, Asset, Scan, ScanEvent, ScanJobOutbox, Finding, FindingReference}

\* A reference between rows that belong to tenants carries the tenant, but for the one from a
\* refresh token to its successor.
ASSUME TenantFollowsReferences ==
  LET owned == {c[2] : c \in {d \in Metadata : /\ d[1] = "column" /\ d[3] = "tenant_id"
                                               /\ d[4] = "required"}}
  IN  \A o \in {d \in Metadata : d[1] = "fk"} :
        {o[2], o[4]} \subseteq owned /\ o[3] # {"replaced_by_id"} => "tenant_id" \in o[3]
=============================================================================
