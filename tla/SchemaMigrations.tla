-------------------------- MODULE SchemaMigrations --------------------------
(***************************************************************************)
(* The four migrations, run by `alembic upgrade` and `alembic downgrade`   *)
(* while the application writes.                                           *)
(*                                                                         *)
(* A command is one transaction: it executes the operations of every       *)
(* revision on its way, one by one, and all are rolled back if one is      *)
(* refused. Rows are kept as far as an operation can stumble over them: a  *)
(* user, and a scan with its status. The revision is the number of         *)
(* migrations that were applied.                                           *)
(***************************************************************************)
EXTENDS DeclaredSchema, FiniteSets, SequencesExt

create(objects) == [act |-> "create", what |-> objects]

drop(key) == [act |-> "drop", what |-> key]

create_table(objects) == create(objects)

add_column(t, kind, name) == create(Column(t, kind, {name}))

drop_table(t) == drop(<<"table", t, t>>)

drop_column(t, name) == drop(<<"column", t, name>>)

drop_check(t, name) == drop(<<"check", t, name>>)

(***************************************************************************)
(* a174c38765f8: tenants, users, projects, assets, scans, findings, audit. *)
(***************************************************************************)
tenants ==
  Table("tenants", {"name", "slug"}, {"status"} \cup Stamps, {"deleted_at"})
    \cup Status("tenants", "tenant_status", {"ACTIVE", "SUSPENDED", "ARCHIVED"})
    \cup Unique("tenants", {"slug"})

users ==
  Table("users", {"email", "display_name"}, {"status"} \cup Stamps, {})
    \cup Status("users", "user_status", {"ACTIVE", "SUSPENDED", "DEACTIVATED"})
    \cup Unique("users", {"email"})

api_key_metadata ==
  LET t == "api_key_metadata" IN
  Table(t, {"tenant_id", "name", "prefix", "hashed_secret", "scopes"}, {"status"} \cup Stamps,
        {"user_id", "expires_at", "last_used_at", "revoked_at"})
    \cup Status(t, "api_key_status", {"ACTIVE", "REVOKED", "EXPIRED"})
    \cup Ref(t, "tenant_id", "tenants", "RESTRICT")
    \cup Ref(t, "user_id", "users", "SET NULL")
    \cup Unique(t, {"prefix"})

audit_events ==
  LET t == "audit_events" IN
  Table(t, {"action", "resource_type", "outcome"}, {"created_at"},
        {"tenant_id", "actor_user_id", "resource_id", "correlation_id", "source_ip",
         "user_agent", "metadata"})
    \cup Enum(t, "outcome", "audit_outcome", {"SUCCESS", "FAILURE", "DENIED"})
    \cup Check(t, "metadata_size_limit", {"metadata"})
    \cup Ref(t, "actor_user_id", "users", "SET NULL")
    \cup Ref(t, "tenant_id", "tenants", "SET NULL")

\* Mutant of projects: the models forgot UNIQUE (tenant_id, id), and so did the migration.
projects_NoTenantKey ==
  LET t == "projects" IN
  Table(t, {"tenant_id", "name", "slug"}, {"status"} \cup Stamps, {"description", "archived_at"})
    \cup Status(t, "project_status", {"ACTIVE", "ARCHIVED"})
    \cup Ref(t, "tenant_id", "tenants", "RESTRICT")
    \cup Unique(t, {"tenant_id", "slug"})

projects ==
  LET t == "projects" IN
  Table(t, {"tenant_id", "name", "slug"}, {"status"} \cup Stamps, {"description", "archived_at"})
    \cup Status(t, "project_status", {"ACTIVE", "ARCHIVED"})
    \cup Ref(t, "tenant_id", "tenants", "RESTRICT")
    \cup Unique(t, {"tenant_id", "id"})
    \cup Unique(t, {"tenant_id", "slug"})

tenant_memberships ==
  LET t == "tenant_memberships" IN
  Table(t, {"tenant_id", "user_id", "role"}, {"status"} \cup Stamps, {})
    \cup Enum(t, "role", "membership_role",
              {"OWNER", "ADMINISTRATOR", "SECURITY_ANALYST", "DEVELOPER", "VIEWER"})
    \cup Status(t, "membership_status", {"ACTIVE", "INVITED", "SUSPENDED", "REMOVED"})
    \cup Ref(t, "tenant_id", "tenants", "RESTRICT")
    \cup Ref(t, "user_id", "users", "RESTRICT")
    \cup Unique(t, {"tenant_id", "user_id"})

assets ==
  LET t == "assets" IN
  Table(t, {"tenant_id", "project_id", "asset_type", "name", "locator"},
        {"environment", "status", "authorization_status"} \cup Stamps, {})
    \cup Enum(t, "asset_type", "asset_type",
              {"WEBSITE", "API", "REPOSITORY", "CONTAINER_IMAGE", "INFRASTRUCTURE",
               "DOMAIN", "IP_RANGE"})
    \cup Enum(t, "environment", "asset_environment",
              {"PRODUCTION", "STAGING", "DEVELOPMENT", "TEST", "UNKNOWN"})
    \cup Status(t, "asset_status", {"ACTIVE", "INACTIVE", "DECOMMISSIONED"})
    \cup Enum(t, "authorization_status", "authorization_status",
              {"UNAUTHORIZED", "PENDING", "AUTHORIZED", "EXPIRED", "REVOKED"})
    \cup TenantRef(t, "project_id", "projects", "RESTRICT")
    \cup Ref(t, "tenant_id", "tenants", "RESTRICT")
    \cup Unique(t, {"tenant_id", "id"})

FormerScanStatus == {"PENDING", "QUEUED", "RUNNING", "SUCCEEDED", "FAILED", "CANCELLED"}

FormerExclusion == Check("scans", "completed_failed_mutually_exclusive", {"completed_at", "failed_at"})

scans ==
  LET t == "scans" IN
  Table(t, {"tenant_id", "project_id", "asset_id", "scanner_type"}, {"status"} \cup Stamps,
        {"requested_by_user_id", "queued_at", "started_at", "completed_at", "failed_at",
         "error_code", "error_summary"})
    \cup Status(t, "scan_status", FormerScanStatus)
    \cup FormerExclusion
    \cup Check(t, "completed_after_started", {"completed_at", "started_at"})
    \cup Check(t, "failed_after_started", {"failed_at", "started_at"})
    \cup Check(t, "started_after_queued", {"started_at", "queued_at"})
    \cup Ref(t, "requested_by_user_id", "users", "SET NULL")
    \cup TenantRef(t, "asset_id", "assets", "RESTRICT")
    \cup TenantRef(t, "project_id", "projects", "RESTRICT")
    \cup Ref(t, "tenant_id", "tenants", "RESTRICT")
    \cup Unique(t, {"tenant_id", "id"})

findings ==
  LET t == "findings" IN
  Table(t, {"tenant_id", "project_id", "asset_id", "scan_id", "title", "severity",
            "source_tool", "fingerprint"},
        {"status", "confidence", "first_seen_at", "last_seen_at"} \cup Stamps,
        {"description", "external_reference", "remediation", "resolved_at"})
    \cup Enum(t, "severity", "finding_severity",
              {"INFORMATIONAL", "LOW", "MEDIUM", "HIGH", "CRITICAL"})
    \cup Status(t, "finding_status",
                {"OPEN", "ACKNOWLEDGED", "IN_PROGRESS", "RESOLVED", "ACCEPTED_RISK",
                 "FALSE_POSITIVE"})
    \cup Enum(t, "confidence", "finding_confidence", {"LOW", "MEDIUM", "HIGH", "CONFIRMED"})
    \cup Check(t, "last_seen_after_first_seen", {"last_seen_at", "first_seen_at"})
    \cup Check(t, "resolved_after_first_seen", {"resolved_at", "first_seen_at"})
    \cup TenantRef(t, "asset_id", "assets", "RESTRICT")
    \cup TenantRef(t, "project_id", "projects", "RESTRICT")
    \cup TenantRef(t, "scan_id", "scans", "RESTRICT")
    \cup Ref(t, "tenant_id", "tenants", "RESTRICT")
    \cup Unique(t, {"tenant_id", "asset_id", "fingerprint"})
    \cup Unique(t, {"tenant_id", "id"})

finding_references ==
  LET t == "finding_references" IN
  Table(t, {"tenant_id", "finding_id", "reference_type", "value"}, Stamps, {})
    \cup Enum(t, "reference_type", "finding_reference_type",
              {"CVE", "CWE", "OWASP", "ADVISORY_URL", "VENDOR_ID"})
    \cup TenantRef(t, "finding_id", "findings", "CASCADE")
    \cup Unique(t, {"finding_id", "reference_type", "value"})

upgrade_a174c38765f8 ==
  <<create_table(tenants), create_table(users), create_table(api_key_metadata),
    create_table(audit_events), create_table(projects), create_table(tenant_memberships),
    create_table(assets), create_table(scans), create_table(findings),
    create_table(finding_references)>>

downgrade_a174c38765f8 ==
  <<drop_table("finding_references"), drop_table("findings"), drop_table("scans"),
    drop_table("assets"), drop_table("tenant_memberships"), drop_table("projects"),
    drop_table("audit_events"), drop_table("api_key_metadata"), drop_table("users"),
    drop_table("tenants")>>

(***************************************************************************)
(* af3a58d67429: passwords, refresh tokens, verification tokens.           *)
(***************************************************************************)
refresh_tokens ==
  LET t == "refresh_tokens" IN
  Table(t, {"tenant_id", "user_id", "family_id", "hashed_token", "expires_at"},
        {"status"} \cup Stamps,
        {"revoked_at", "replaced_by_id", "created_by_ip", "user_agent"})
    \cup Status(t, "refresh_token_status", {"ACTIVE", "ROTATED", "REVOKED"})
    \cup Ref(t, "replaced_by_id", "refresh_tokens", "SET NULL")
    \cup Ref(t, "tenant_id", "tenants", "RESTRICT")
    \cup Ref(t, "user_id", "users", "RESTRICT")
    \cup Unique(t, {"hashed_token"})

user_verification_tokens ==
  LET t == "user_verification_tokens" IN
  Table(t, {"user_id", "purpose", "hashed_token", "expires_at"}, Stamps, {"consumed_at"})
    \cup Enum(t, "purpose", "verification_token_purpose", {"EMAIL_VERIFICATION", "PASSWORD_RESET"})
    \cup Ref(t, "user_id", "users", "RESTRICT")
    \cup Unique(t, {"hashed_token"})

upgrade_af3a58d67429 ==
  <<create_table(refresh_tokens),
    create(Index("refresh_tokens", "family_id", {"family_id"})),
    create_table(user_verification_tokens),
    add_column("users", "nullable", "hashed_password"),
    add_column("users", "defaulted", "token_version"),
    add_column("users", "nullable", "email_verified_at")>>

downgrade_af3a58d67429 ==
  <<drop_column("users", "email_verified_at"), drop_column("users", "token_version"),
    drop_column("users", "hashed_password"),
    drop_table("user_verification_tokens"),
    drop(<<"index", "refresh_tokens", "family_id">>),
    drop_table("refresh_tokens")>>

(***************************************************************************)
(* b3214246fc2f: orchestration fields of a scan, and its events.           *)
(***************************************************************************)
scan_events ==
  LET t == "scan_events" IN
  Table(t, {"tenant_id", "scan_id", "event_type"}, {"created_at"},
        {"stage", "progress_percent", "worker_id", "correlation_id", "message", "metadata"})
    \cup Check(t, "metadata_size_limit", {"metadata"})
    \cup Check(t, "progress_percent_range", {"progress_percent"})
    \cup TenantRef(t, "scan_id", "scans", "CASCADE")
    \cup Ref(t, "tenant_id", "tenants", "RESTRICT")

orchestration_fields ==
  <<add_column("scans", "nullable", "cancelled_at"),
    add_column("scans", "nullable", "timed_out_at"),
    add_column("scans", "defaulted", "attempt"),
    add_column("scans", "defaulted", "max_attempts"),
    add_column("scans", "nullable", "worker_id"),
    add_column("scans", "nullable", "job_id"),
    add_column("scans", "defaulted", "timeout_seconds"),
    add_column("scans", "nullable", "retry_of_scan_id"),
    add_column("scans", "nullable", "config"),
    add_column("scans", "nullable", "correlation_id"),
    create(TenantRef("scans", "retry_of_scan_id", "scans", "SET NULL"))>>

\* Mutant of orchestration_checks: the CHECK of the statuses keeps to those of the former revision.
orchestration_checks_FormerStatuses ==
  <<drop_check("scans", "scan_status"),
    create(Status("scans", "scan_status", FormerScanStatus))>>

\* Written by hand.
orchestration_checks ==
  <<drop_check("scans", "scan_status"),
    create(Status("scans", "scan_status",
                  FormerScanStatus \cup {"PREPARING", "COLLECTING", "PROCESSING", "TIMED_OUT"})),
    drop_check("scans", "completed_failed_mutually_exclusive"),
    create(Check("scans", "terminal_timestamps_mutually_exclusive",
                 {"completed_at", "failed_at", "cancelled_at", "timed_out_at"})),
    create(Check("scans", "timed_out_after_started", {"timed_out_at", "started_at"})),
    create(Check("scans", "attempt_non_negative", {"attempt"})),
    create(Check("scans", "max_attempts_positive", {"max_attempts"})),
    create(Check("scans", "timeout_seconds_positive", {"timeout_seconds"})),
    create(Check("scans", "config_size_limit", {"config"}))>>

upgrade_b3214246fc2f ==
  <<create_table(scan_events)>> \o orchestration_fields \o orchestration_checks

\* Mutant of former_checks: of the CHECKs that were replaced one is not restored.
former_checks_Forgets ==
  <<drop_check("scans", "timed_out_after_started"),
    drop_check("scans", "terminal_timestamps_mutually_exclusive"),
    drop_check("scans", "scan_status"),
    create(Status("scans", "scan_status", FormerScanStatus))>>

\* Written by hand.
former_checks ==
  <<drop_check("scans", "config_size_limit"),
    drop_check("scans", "timeout_seconds_positive"),
    drop_check("scans", "max_attempts_positive"),
    drop_check("scans", "attempt_non_negative"),
    drop_check("scans", "timed_out_after_started"),
    drop_check("scans", "terminal_timestamps_mutually_exclusive"),
    create(FormerExclusion),
    drop_check("scans", "scan_status"),
    create(Status("scans", "scan_status", FormerScanStatus))>>

downgrade_b3214246fc2f ==
  former_checks \o
  <<drop(<<"fk", "scans", {"tenant_id", "retry_of_scan_id"}>>),
    drop_column("scans", "correlation_id"), drop_column("scans", "config"),
    drop_column("scans", "retry_of_scan_id"), drop_column("scans", "timeout_seconds"),
    drop_column("scans", "job_id"), drop_column("scans", "worker_id"),
    drop_column("scans", "max_attempts"), drop_column("scans", "attempt"),
    drop_column("scans", "timed_out_at"), drop_column("scans", "cancelled_at"),
    drop_table("scan_events")>>

(***************************************************************************)
(* a1fb5cd36013: the outbox of scan jobs.                                  *)
(***************************************************************************)
scan_job_outbox ==
  LET t == "scan_job_outbox" IN
  Table(t, {"tenant_id", "scan_id", "scan_attempt", "event_type", "payload"},
        {"countdown_seconds", "created_at", "attempt_count"},
        {"published_at", "last_attempt_at", "last_error"})
    \cup Check(t, "attempt_count_non_negative", {"attempt_count"})
    \cup Check(t, "countdown_seconds_non_negative", {"countdown_seconds"})
    \cup Check(t, "payload_size_limit", {"payload"})
    \cup Check(t, "scan_attempt_non_negative", {"scan_attempt"})
    \cup TenantRef(t, "scan_id", "scans", "CASCADE")
    \cup Ref(t, "tenant_id", "tenants", "RESTRICT")
    \cup Unique(t, {"tenant_id", "scan_id", "scan_attempt"})

upgrade_a1fb5cd36013 ==
  <<create_table(scan_job_outbox),
    create(Index("scan_job_outbox", "pending", {"created_at", "published_at"}))>>

downgrade_a1fb5cd36013 ==
  <<drop(<<"index", "scan_job_outbox", "pending">>), drop_table("scan_job_outbox")>>

upgrade ==
  <<upgrade_a174c38765f8, upgrade_af3a58d67429, upgrade_b3214246fc2f, upgrade_a1fb5cd36013>>

downgrade ==
  <<downgrade_a174c38765f8, downgrade_af3a58d67429, downgrade_b3214246fc2f,
    downgrade_a1fb5cd36013>>

Revisions == 0 .. Len(upgrade)

\* The operations of the command from one revision to another.
Script(from, to) ==
  IF from < to
    THEN FlattenSeq([i \in 1 .. to - from |-> upgrade[from + i]])
    ELSE FlattenSeq([i \in 1 .. from - to |-> downgrade[from + 1 - i]])

(***************************************************************************)
(* The database.                                                           *)
(***************************************************************************)
VARIABLES
  revision,   \* what alembic_version says
  committed,  \* the schema that everybody sees
  schema,     \* the schema as the command's transaction has it
  command,    \* where the command goes, and how many of its operations are done
  locked,     \* tables the command has locked
  user,       \* whether there is a user
  scan        \* the status of a scan, with all that it refers to, or "none"

vars == <<revision, committed, schema, command, locked, user, scan>>

rows == <<user, scan>>

Idle == [to |-> Len(upgrade) + 1, done |-> 0]

Init ==
  /\ revision = 0
  /\ committed = {}
  /\ schema = {}
  /\ command = Idle
  /\ locked = {}
  /\ user = FALSE
  /\ scan = "none"

HasRows(t) ==
  \/ t \in {"scans", "assets", "projects", "tenants"} /\ scan # "none"
  \/ t = "users" /\ user

\* A DROP takes along all that is of a table, and the constraints about a column.
Takes(key, o) ==
  /\ TableOf(o) = key[2]
  /\ \/ Key(o) = key
     \/ key[1] = "table"
     \/ key[1] = "column" /\ key[3] \in Columns(o)

Apply(objects, op) ==
  IF op.act = "create" THEN objects \cup op.what ELSE {o \in objects : ~Takes(op.what, o)}

Dropped(key) == {o \in schema : Takes(key, o)}

\* A column without a value, or a status that is not allowed.
RowsFit(o) ==
  /\ o[1] = "column" /\ o[4] = "required" => ~HasRows(TableOf(o))
  /\ Key(o) = <<"check", "scans", "scan_status">> => scan \in o[5] \cup {"none"}

CreateLegal(objects) ==
  LET after == schema \cup objects IN
  \A o \in objects :
    /\ \A other \in schema : Key(other) # Key(o)
    /\ <<"table", TableOf(o), TableOf(o)>> \in after
    /\ Columns(o) \subseteq {c[3] : c \in {d \in Of("column", after) : TableOf(d) = TableOf(o)}}
    /\ o[1] = "fk" => <<"unique", o[4], o[5]>> \in after
    /\ RowsFit(o)

\* It exists, and no foreign key of another table rests on it.
DropLegal(key) ==
  /\ \E o \in schema : Key(o) = key
  /\ \A o \in Of("fk", schema \ Dropped(key)) : <<"unique", o[4], o[5]>> \notin Dropped(key)

Legal(op) == IF op.act = "create" THEN CreateLegal(op.what) ELSE DropLegal(op.what)

\* The tables of what is created or dropped, and those that it refers to.
Locks(op) ==
  LET objects == IF op.act = "create" THEN op.what ELSE Dropped(op.what)
  IN  {TableOf(o) : o \in objects} \cup {o[4] : o \in Of("fk", objects)}

(***************************************************************************)
(* alembic.                                                                *)
(***************************************************************************)
Running == command # Idle

Operations == Script(revision, command.to)

NextOperation == Operations[command.done + 1]

Finished == command.done = Len(Operations)

\* The database answers the next operation with an error.
Refused == ~Finished /\ ~Legal(NextOperation)

Start(to) ==
  /\ ~Running
  /\ to # revision
  /\ command' = [to |-> to, done |-> 0]
  /\ UNCHANGED <<revision, committed, schema, locked, rows>>

Execute ==
  /\ Running
  /\ ~Finished
  /\ ~Refused
  /\ schema' = Apply(schema, NextOperation)
  /\ locked' = locked \cup Locks(NextOperation)
  /\ command' = [command EXCEPT !.done = @ + 1]
  /\ UNCHANGED <<revision, committed, rows>>

\* The revision is written and everything committed; the rows of dropped tables are gone.
Commit ==
  /\ Running
  /\ Finished
  /\ revision' = command.to
  /\ committed' = schema
  /\ command' = Idle
  /\ locked' = {}
  /\ user' = (user /\ <<"table", "users", "users">> \in schema)
  /\ scan' = IF <<"table", "scans", "scans">> \in schema THEN scan ELSE "none"
  /\ UNCHANGED schema

\* An operation is refused, or the process dies.
Rollback ==
  /\ Running
  /\ schema' = committed
  /\ command' = Idle
  /\ locked' = {}
  /\ UNCHANGED <<revision, committed, rows>>

(***************************************************************************)
(* The application.                                                        *)
(***************************************************************************)
Writable(t) == <<"table", t, t>> \in committed /\ t \notin locked

SignUp ==
  /\ Writable("users")
  /\ ~user
  /\ user' = TRUE
  /\ UNCHANGED <<revision, committed, schema, command, locked, scan>>

\* A scan is inserted or moves on, to any status that the CHECK has room for.
WriteScan(status) ==
  /\ Writable("scans")
  /\ \E o \in committed : Key(o) = <<"check", "scans", "scan_status">> /\ status \in o[5]
  /\ scan' = status
  /\ UNCHANGED <<revision, committed, schema, command, locked, user>>

Next ==
  \/ \E to \in Revisions : Start(to)
  \/ Execute
  \/ Commit
  \/ Rollback
  \/ SignUp
  \/ \E status \in ScanStatus : WriteScan(status)

Spec == Init /\ [][Next]_vars

-----------------------------------------------------------------------------
(***************************************************************************)
(* Properties.                                                             *)
(***************************************************************************)
\* The schema of a database that was only ever upgraded.
Upgraded == [r \in Revisions |-> FoldLeft(Apply, {}, Script(0, r))]

TypeOK ==
  /\ revision \in Revisions
  /\ Running => command.to \in Revisions /\ command.done \in 0 .. Len(Operations)
  /\ user \in BOOLEAN
  /\ scan \in ScanStatus \cup {"none"}

\* Whatever upgrades, downgrades and failures led to a revision, its schema is the one of a
\* clean upgrade: downgrade() undoes what upgrade() does, down to the CHECKs that were
\* replaced by hand.
SchemaIsThatOfItsRevision == committed = Upgraded[revision]

\* The one thing that can stop a command is a scan in a status that the statuses of the
\* former revision have no room for; no order of commands, and no rows that were written
\* before or meanwhile, meet a column without a default, a reference without its unique
\* key or a constraint that is not there.
OnlyNewStatusesStopACommand ==
  Running /\ Refused =>
    command.to < 3 /\ scan \in ScanStatus \ FormerScanStatus

\* At head the database is what the models declare: columns and what an INSERT may leave
\* out, keys, references and what a DELETE does to them, CHECKs and their values, indexes.
HeadIsWhatTheModelsDeclare == revision = Len(upgrade) => committed = Metadata
=============================================================================
