# SentinelX: a TLA+ model of the scan platform

SentinelX is a multi-tenant security-scanning platform: a FastAPI application
(`backend/app`), a Postgres database, Celery workers on a Redis broker, and a
periodic dispatcher that moves work from the database to the broker. The
platform's own logic is in how these processes share a scan: they have no lock
in common, crash independently, and meet only in conditional `UPDATE`s and an
outbox table. Beside them the API keeps who may do what: sessions, memberships and keys,
changed by requests that overlap. That logic is what this project specifies,
model-checks and, for its central parts, proves. Paths below are relative to
`src/backend/app`.

## 1. The system

| component | state | operations | who it meets |
|---|---|---|---|
| scan state machine, `scan_engine/state_machine.py`, `models/scan.py` | `scans.status`, `attempt`, six timestamps, `job_id` | `transition`: check of the edge against the *believed* status, conditional `UPDATE`, commit | called by every writer of a scan |
| scan requests, `services/scan_service.py` | `scans`, `scan_job_outbox` rows | create, retry (a new row), cancel (transition, then revoke the job) | state machine, outbox, queue |
| orchestrator, `scan_engine/orchestrator.py`, `workers/tasks/scan_tasks.py` | one run per delivered message: its copy of the row, its stage, its unflushed writes | read, claim, validate, four stages with cancellation checks, handlers for timeout, cancellation, failure, stale state, cleanup | everything |
| outbox and dispatcher, `workers/tasks/outbox_dispatcher.py`, `repositories/scan_outbox_repository.py` | `published_at`, `attempt_count`, `last_error` of each row | claim the oldest pending row (`FOR UPDATE SKIP LOCKED`), send, record | orchestrator and requests write rows; the queue gets messages |
| queue adapter, `workers/job_queue_celery.py` | the broker's queue | `enqueue_scan`, `cancel`, `dead_letter_scan` | dispatcher, requests, workers |
| plugins and registry, `scan_engine/registry.py`, `interfaces.py`, `bootstrap.py` | a table of plugins, empty in this repository | `validate_config`, `prepare`, `execute`, `collect_results`, `normalize_findings`, `cleanup` | orchestrator |
| finding pipeline, `scan_engine/pipeline/`, `repositories/finding_repository.py` | `findings`, unique by (tenant, asset, fingerprint) | look up, insert or update, audit, publish | workers of other scans of the asset |
| scan events and progress, `scan_engine/events.py`, `bootstrap.py`, `progress.py` | `scan_events` rows | publish (a handler's failure is swallowed), read the latest progress | orchestrator, requests |
| sessions and passwords, `services/auth_service.py` and its repositories | refresh-token families, `token_version`, the password hash | login, refresh (rotation), switch of tenant, logout, change and reset of the password, revocation of one or all sessions | concurrent requests of one user |
| sign-up and mailed links, `services/auth_service.py`, `repositories/verification_token_repository.py` | the user row, `user_verification_tokens` | register, request a link (replacing older ones, and mailing before the commit), confirm a link | concurrent requests of one user |
| principal, permissions, memberships, API keys, `api/deps.py`, `core/permissions.py`, `api/v1/endpoints/`, `services/api_key_service.py` | memberships, key status and scopes, the audit events of members | authenticate, authorise, add, change and remove members, issue, rotate and revoke keys | every request |
| rate limit and denylist, `core/rate_limit.py`, `core/token_denylist.py` | counters and entries in Redis with a lifetime | count a request, deny and look up a token | every request |
| schema and migrations, `models/`, `src/backend/alembic/versions/` | tables, columns, keys, references, CHECKs, indexes; the revision | four upgrades and four downgrades | the rows the application writes |
| artifact storage, sanitization, redaction, configuration, health, tenants/projects/assets, seed, frontend, infrastructure | files, text, plain rows | - | - |

What is hard here, in the code's own terms:

* Delivery is at least once: the broker may redeliver, and a dispatcher that
  dies between `send_task` and its commit publishes a row twice. It is also at
  most once: Celery acknowledges a message when it is received, so a worker
  that dies takes the message with it.
* Nothing but `UPDATE ... WHERE status = ...` stands between two writers of a
  scan. The orchestrator guards by status alone, never by attempt, so its
  safety rests on nobody else moving a scan it owns.
* A session's flushed rows become durable with *its next commit*, whoever asks
  for it: state machine, event subscriber or the end of the task.
* A cancellation may arrive between any two statements of a worker.
* A request of the API is one transaction at READ COMMITTED over one session:
  it decides by rows it has read once, and its `UPDATE`s wait for a lock and
  then overwrite, but only the columns that it believes to have changed.
* Redis knows no transactions: a counter and its lifetime are two commands.
* Exceptions decide control: which `try` a transition is in decides whether a
  lost race is reconciled, retried, recorded as a failure, or fails the task.

`PROJECT.json` lists each hazard at its line with the properties that cover it.

What makes each component correct: a scan has one owner at a time and at most
`max_attempts` attempts; its outcome is final and has one timestamp; a `QUEUED`
scan is dispatched by something that is still there; a cancellation stops the
work at the next stage and is never overwritten; every run gives its scan an
outcome or another attempt; a finding has one row per fingerprint; a session's
revocation is not undone by a request that began before it; a link works once
and only until it is replaced; a tenant keeps somebody who can manage it, and
its audit trail tells the roles its members have; a limit is a limit and is
lifted again; a database that was migrated back and forth is the one the models
declare.

## 2. Modules

| module | models |
|---|---|
| `ScanStateMachine` | the statuses, the edges, the row an edge leaves, and the three results of `transition` (constant operators) |
| `ScanEngine` | scans, outbox, queue, workers, dispatchers and requests composed: one action per step between two points at which another process may run |
| `ScanLease` | abstract specification: a scan is handed to one worker at a time, for a bounded number of attempts, until an outcome that stays |
| `OutboxDispatcher` | the dispatcher by itself: ticks, batches, the order of `created_at`, `attempt_count`, refused sends, lost records |
| `OutboxDelivery` | abstract specification: every committed row is sent and recorded in the end, and sent again only when a record was lost |
| `ScanOutbox` | `ScanEngine` with two history variables, the messages of each outbox row and the lost records, as an instance of `OutboxDelivery` |
| `FindingPipeline` | `process()` in the workers of several scans of one asset: sessions, locks, the unique constraint, commits by the event subscriber |
| `FindingRegister` | abstract specification: the detections of all scans are entered one at a time, each with its audit event, and a scan succeeds only with all of its own in |
| `AuthSessions` | the sessions of one user: refresh-token families, access tokens, `token_version`, password, and every request that changes them |
| `AccountLinks` | sign-up with one address, and the links mailed to it |
| `TenantAccess` | members and API keys of one tenant, as principals and as what requests are about; the audit events of members |
| `RedisGuards` | the rate limit of one client and the denylist entry of one access token, in time |
| `SchemaObjects` | what a schema is made of (constant operators) |
| `DeclaredSchema` | the schema the models declare |
| `SchemaMigrations` | the migrations, run by upgrades and downgrades that may fail anywhere |
| `ScanEngineProofs`, `OutboxDispatcherProofs`, `FindingPipelineProofs` | the inductive invariants are invariants, and the theorems that follow |
| `ScanRefinementProofs` | `ScanEngine` implements `ScanLease` and, with the history of `ScanOutbox`, `OutboxDelivery` |
| `AuthSessionsProofs`, `AccountLinksProofs`, `TenantAccessProofs`, `RedisGuardsProofs` | the same for the modules of the API |
| `MC...` | values of the constants for TLC |

`ScanEngine` contains the dispatcher and the pipeline in coarse form: the claim of
*some* pending row where `OutboxDispatcher` claims the oldest, and one step with
every outcome where `FindingPipeline` has the statements. The detailed modules
look at what the coarse steps hide. In the other direction, `OutboxDispatcher` lets
rows appear at any time, while in `ScanEngine` workers and requests write them;
`ScanOutbox` says that those rows too are delivered as `OutboxDelivery` promises.

### How `ScanEngine` corresponds to the code

A *step* is one statement of the database with the commit that follows it, one
message sent or received, or one call of a plugin. Postgres runs at READ
COMMITTED, so a conditional `UPDATE` sees the row as the last commit left it;
everything a worker knows otherwise is the copy in its record.

| state | code |
|---|---|
| `scans[s]` | the row: `status`, `attempt`, the set of timestamp columns that are set, `job` (which task id `job_id` holds), `retryOf` |
| `outbox[s][a]` | the row for attempt `a`: none, pending, published |
| `queue` | messages at the broker; `job` is the task id. The message of the code carries only the scan: `attempt` is a history variable that no consumer reads |
| `workers[w]` | `pc`: the place in `run()`; `status`, `attempt`: the identity-mapped `Scan` object; `stage`; `dirty`: a retry's outbox row was flushed and not committed |
| `dispatchers[d]`, `cancels[c]` | a run of `_dispatch_one`; a request in `cancel_scan` |
| `faults`, `redeliveries` | bounds on what may go wrong |

| action | code |
|---|---|
| `CreateScan`, `RetryScan` | `create_scan`, `retry_scan` with `_enqueue`: one transaction |
| `CancelRead`, `CancelTransition`, `CancelRevoke` | the three parts of `cancel_scan` that others may run between |
| `DispatchClaim`, `DispatchSend`, `DispatchRecord`, `DispatchFault` | `_dispatch_one`; a fault is a failing send, an error while recording, or the process dying: the lock goes, the row stays pending |
| `Receive` | delivery, early acknowledgement, the read of the row and the early return when it is not `QUEUED` |
| `FailUnregistered`, `Claim`, `ValidateConfig` | `run` up to the `try` |
| `AssertNotCancelled`, `Advance`, `RunStage` | `_run_stages` |
| `HandleTimeout`, `HandleCancelled`, `Requeue`, `FinalizeFailed`, `HandleStaleState`, `Cleanup`, `CleanupAndRaise` | the handlers and the `finally` of `run` |
| `TaskFails`, `WorkerCrash`, `DatabaseFault` | `_run_async`'s rollback; the process dies; a call of the session fails and the session is unusable from there |

`Transition` is `transition` as a worker calls it. What comes next depends on
its result and on the `try` the call is in, which the tables `InStages`,
`InsideTry` and `OutsideTry` say: an exception of `_run_stages`, a lost race
included, is a permanent failure to the inner handler, whose own transition then
loses the race again and is reconciled by the outer one.

Left out because no property tells it apart: error codes and summaries, worker
ids, tenants, priorities of the broker, delays of a retry (a message may be
consumed at any later time), the rows of `scan_events` and `audit_events`
(their commits are in the steps), metrics. The finding pipeline is one step
with every outcome. Which pending row is the oldest is left open, so that the
dispatcher here has every behaviour of the code's and more.

### How `OutboxDispatcher` corresponds to the code

`table[r]` is the outbox row (`published_at` set or not, `attempt_count`), named
by its place in the order of `created_at`; since that is the start of the writing
transaction, rows may become visible in any order. `dispatchers[d]` is one run
of the task: the row it has locked, the `attempt_count` of the object it loaded
and the rest of its batch. The task's result is left out. `sends`, `refused`,
`crashes`, `errors` count what happened. `Claim` is
`claim_next_pending`, `SendRefused` the `except` branch with its commit, `Record`
everything from the lookup of the scan to the commit; `RecordFails` an exception
in there, `Crash` the loss of the process.

### How `FindingPipeline` corresponds to the code

`findings[f]` is the row of a fingerprint of the asset: its `scan_id`, and the
scans whose detections set `first_seen_at` and `last_seen_at`. `runs[s]` is the
session of the worker that processes scan `s`: `view` the `scan_id` of each
object in the identity map, which is never reloaded (`expire_on_commit=False`),
`flushed` and `events` its uncommitted rows. Per finding: `Lookup` (in
`process`), `RecordLookup` (in `record_detection`), `Insert` or `Update` with the
audit event, and `Publish`, whose subscriber commits. `LockedByOther` is
Postgres: a write waits for the transaction that wrote the row or the key.
`PublishFails` is the failure that the bus swallows; the session then refuses
every use (`BrokenSessionRaises`). A run that raises is `failed`: the handlers of
`run()` use the same session and raise as well, which is `DatabaseFault` of
`ScanEngine`.

### How the modules of the API correspond to the code

`get_db` gives each request one session and commits or rolls it back at the
end. In `AuthSessions`, `AccountLinks` and `TenantAccess` a record of `requests`
is that session: what it has read and keeps, the locks of the rows it has
written, and `steps`, the statements still to come. `Begin` is authentication
with the first read, each further action is one statement, `Commit` writes
everything at once, and `Fail` is whatever ends a request between two
statements. A request that is refused without a write has no step.

**`AuthSessions`** (`services/auth_service.py`, `repositories/refresh_token_repository.py`,
`repositories/user_repository.py`, `api/v1/endpoints/auth.py`).

| state | code |
|---|---|
| `user` | `token_version`, the password, whether its hash has outdated parameters |
| `tokens[t]` | the `refresh_tokens` row: `status`, `family_id`, `replaced_by_id`; and the `ver` claim of the access token issued with it |
| `denied` | the denylist |
| `requests[q]` | `seen`: the user as loaded; `token`, `loaded`: the refresh token and its status as loaded; `todo`, `revoked`, `rotated`, `wroteUser`: updates of a flush still to come, and done |

`Login` (with its rehash), `SwitchTenant`, `Refresh` (rotation, and the
revocation of the family when a rotated token comes again), `Logout`,
`RevokeSession`, `ChangePassword`, `ResetPassword`, `RevokeAllSessions` begin a
request; `Load`, `WriteUser`, `Insert`, `Rotate`, `SelectNonRevoked`, `Revoke`
(one row of a flush, which goes by primary key) and `Deny` are its statements.
`UserAfter` and `TokensAfter` write only the columns the session has changed.
`DeadlockVictim` is Postgres. Keys are random, so the order of the names is not
that of creation, and TLC tries every order.

**`AccountLinks`** (`register`, `request_email_verification`,
`request_password_reset` and the two confirmations;
`repositories/verification_token_repository.py`). `tokens[t]` is a row, `mailed`
the links that somebody has, sent before the commit. `SelectPending` and
`Invalidate` are `invalidate_pending_for_user`, which selects and then updates
row by row. `Confirm` reads the link as valid and `Consume` overwrites
`consumed_at` later. `latest`, `confirmed`, `raced` and `overlapped` are history.

**`TenantAccess`** (`api/deps.py`, `core/permissions.py`, `services/api_key_service.py`,
`api/v1/endpoints/memberships.py`, `api/v1/endpoints/api_keys.py`). `members` and
`keys` are the rows, `audited` the role told by the newest event about a user.
`MemberMay` and `KeyMay` are authentication with the permission check; the table
`ROLE_PERMISSIONS` is the code's. `Touch` and `Release` are the update of
`last_used_at` and the commit that `_principal_from_api_key` makes before the
request goes on. Of the row it was loaded from, a principal keeps only who it is
(`deps.py:156-178`, `210-218`), and the identity map holds no row that nobody else
holds: `Load` reads the row a request is about afresh, that of its own principal
too. Two fields of a request are history: `crossed` (another commit has changed
the row it is about) and `overtaken` (another commit has taken the permissions of
its principal). `Changes` and `Differs` are the
unit of work: an `UPDATE` has the columns whose value differs from the loaded
one. `AuditAfter` is the order of events by `created_at`, which is the start of
a transaction. Left out: the tenant's status (`_ensure_tenant_active`; no
endpoint changes it) and `expires_at` of keys.

**`RedisGuards`** (`core/rate_limit.py`, `core/token_denylist.py`, `logout` in
`api/v1/endpoints/auth.py`). Time passes in ticks, some to a second, because the
code cuts to seconds. `Incr`, `Expire` and `Fail` are the commands of
`rate_limit`; `Logout` computes the lifetime of the entry and `Deny` sets it.
`Tick` lets the lifetimes run out. No clock is kept, so the state space is
finite without a bound.

**`SchemaMigrations`** (`src/backend/alembic/versions/`). A schema is a set of
tuples for tables, columns, unique keys, CHECKs with their values, references
with what a DELETE does, and indexes. Each revision is a sequence of operations,
translated one by one for `upgrade` and `downgrade`. A command (`Start`,
`Execute`, `Commit`, `Rollback`) is one transaction over the revisions on its
way; `Refused` says which operations Postgres rejects on the schema and the rows
at hand. `SignUp` and `WriteScan` are the application, kept away from the tables
a command has locked. `DeclaredSchema` is `Base.metadata`, translated from
`models/` independently of the migrations.

## 3. Properties and runs

Every run is listed in `PROJECT.json`; each property there has a mutant of a
mapped definition that breaks it. The type
invariants and the inductive invariants of the modules with proofs are proved
(section 4) and are not in the runs; `SchemaMigrations` states its `TypeOK` for
the reader.

`engine_safety` (`MCScanEngine.cfg`): one scan, `max_attempts` 2, two workers,
two dispatchers, one cancel request, one redelivery, one fault, every outcome of
every plugin call. Two workers are what a race over a claim or over two attempts
needs, two dispatchers what a duplicate publish and a `SKIP LOCKED` need, two
attempts what a re-queue and its late duplicates need. Scans do not interact in
the engine, except through which worker is busy, so one scan is enough for
safety. About 0.8 million states.

* `SingleOwner`: two workers never execute the same scan.
* `OwnerKnowsItsScan`: while a worker owns a scan only a cancellation moves the
  row; that is why a guard by status alone is enough in `transition`.
* `QueuedHasOutboxRow`: `QUEUED` comes with an attempt left and its outbox row.
* `RetryRowIsNew`: the unique constraint of the outbox rejects no retry, whichever
  duplicate or second worker has been there before.
* `NoLostDispatch`: without faults, something will still deliver a `QUEUED` scan.
* `TerminalIsFinal`: outcomes under racing writers.
* `NoStageAfterCancel`: the transition closes the gap after the cancellation check.
* `NormalReturnLeavesNoOrphan`: a task that succeeds has dealt with its attempt.
* `ImplementsLease`: the refinement to `ScanLease`.

`engine_liveness` (`MCScanOutbox.cfg`): the same instance with no faults and with
plugin outcomes that the state machine has an edge for, under the fairness of
`FairSpec`, and with its messages counted. About 0.2 million states.

* `EveryScanEnds`, `CancellationIsNoticed`.
* `EngineImplementsDelivery`: each row of `scan_job_outbox`, whoever wrote it, goes
  through the life that `OutboxDelivery` gives it. It is written once, sent only
  while it is pending and nobody else has it, recorded once, and published in the
  end, even when the scan was cancelled meanwhile. Without faults no record is
  lost here; that one more message is all a lost record costs is `outbox` for the
  dispatcher alone, and a theorem for the engine (`EngineDeliversRows`).

`engine_unregistered`: two scans of a type without a plugin, which is every scan
of the repository as it ships, with user retries, duplicates and a cancellation;
`EveryScanEnds`.

`outbox` (`MCOutboxDispatcher.cfg`): two dispatchers, three rows, batches of two,
one refused send per row and one lost record: the batch ends before the table is
empty, a refused head of the queue is met again, and a duplicate meets the other
dispatcher. `EveryAttemptIsCounted` (no lost update of `attempt_count`) and
`ImplementsDelivery`, the refinement with its liveness: a row is starved neither
by its elders nor by failures, and each duplicate is paid for by one lost record
(the docstring's "at most one duplicate publish per crash").

`findings` (`MCFindingPipeline.cfg`): three scans, two fingerprints met in
opposite orders, one of them twice by one scan, two faults. `NoWaitCycle` (a
worker that may wait for a row holds none), `CreationIsAudited`,
`DoneMeansRecorded` (a scan that succeeds has every finding and audit event,
although publishing swallows errors), `EveryRunEnds`, and `ImplementsRegister`,
the refinement: no row is lost or changes its first detection, and the scan that meets a finding twice and holds
a stale object of it still makes the row its own. `scan_id` is not part of the
register: the UPDATE leaves it out when the stale object has it already, so that it
may lag behind `last_seen_at`. Runs end for good here, so deadlock is not checked.

`sessions` (`MCAuthSessions.cfg`): two requests at a time, four in all, three
refresh tokens, one fault. Four requests let two race after a login and leave
one to profit from the outcome; three tokens are a login, its rotation and a
fork of it, or two families. Requests are bounded, so the system stops and
deadlock of the model is not checked; deadlock of the database is, by
`DeadlockNeedsRevokeAll` and `EveryRequestEnds`.

* `InvalidatedStaysInvalid`: "log out everywhere" and new passwords outlaw every
  access token issued before, but for a lost update of `token_version`.
* `PasswordIsTheLastSet`: but for a login's rehash that overwrites it.
* `ClosedStaysClosed`, `OneActivePerFamily`, `ConsumedStaysConsumed`: what rotation
  and revocation of a family guarantee when they overlap, and where they do not
  (`mixed`, `forked` name the overlaps after which they may not hold).
* `DeadlockNeedsRevokeAll`, `EveryRequestEnds`.

`links` (`MCAccountLinks.cfg`): two requests of five, three links, one fault,
expiry at any moment: a link, its replacement, and a race about a third.
`LatestLinkWorks` (no failure leaves the user without a link),
`OnlyLatestLinkWorks` and `LinkWorksOnce`, each but for the overlap it names.

`access` (`MCTenantAccess.cfg`): two users, two keys, two requests of four, one
fault; one role that manages and one that does not, two statuses, one set of
scopes. About 540,000 states. `AuditTellsTheRole`, `NoWaitCycle`,
`RevocationIsFinal`, and `SomebodyManages`: the code counts no managers, so the
last may be lost, and the property says by whom. The commit that ends the last
manager is its own request about itself, and no rotation, or the request of a
principal that had lost its permissions itself before it committed (two that
take each other's at once). The mutant drops the scopes of a rotated key: a key
that has outlived the members rotates itself, and nobody is left.

`guards` (`MCRedisGuards.cfg`): half seconds, a window of two seconds, a limit of
two, tokens of three seconds, two requests at a time. About 63,000 states.
`TwoBudgetsAWindow` (a fixed window admits twice the limit, and never more),
`LimitIsLifted` (unless the request that made the counter failed before
`EXPIRE`), `LoggedOutToTheLastSecond`.

`schema` (`MCSchemaMigrations.cfg`): the whole schema, every command between the
five revisions from every revision reached, failing anywhere, with rows written
in between. About 5,400 states. `SchemaIsThatOfItsRevision`,
`OnlyNewStatusesStopACommand`, `HeadIsWhatTheModelsDeclare`. The assumption
`TenantFollowsReferences` of `DeclaredSchema`, which TLC evaluates here, says of
the declared schema that its references carry the tenant; the last property
carries it to the database at head.

Runs that show a disagreement of the code with what is said of it, one property
each (the findings in `PROJECT.json` quote the sentences):

| run | what TLC finds |
|---|---|
| `find_slow_processing` | a timeout that expires in `PROCESSING` has no edge to take (nor has a transient error there): the exception leaves `run()`, the scan stays in `PROCESSING` |
| `find_version_race` | two requests that bump `token_version` at once count once: an access token issued in between keeps working |

### Seen while modelling, without a run of their own

In the models as behaviour:

* A late duplicate of attempt 1's message claims attempt 2, because the claim
  takes the attempt it reads
  (`docs/decisions/0008-transaction-and-concurrency-model.md:271` says that it always loses).
* An unexpected exception of `validate_config` skips `cleanup()`, which
  `docs/orchestrator.md:75` says always runs.
* A cancellation that races a re-queue leaves an outbox row committed without
  `QUEUED`; it is published, and ignored on delivery.
* An error while `job_id` is recorded makes a sent row be sent again.
* Two scans that insert the same new finding: the second fails for good, and
  both may audit it as `finding.detected`.
* A second detection in one scan leaves another scan's `scan_id` on the row.
* A refused row is claimed again by the same tick, ahead of every younger row,
  although the docstring speaks of the next tick; the task's result counts
  refused sends as dispatched.
* The denylist entry may end up to a second before the token does (`int()` in
  `auth.py:118`); the comment above it says "exactly its remaining lifetime".
* A `PATCH` of a membership's status alone writes no audit event, although
  `memberships.py:3-5` speaks of every mutation; and audit events are listed by
  the start of their transaction.

Beside the models:

* `db/session.py:70` says that no endpoint or service commits; `auth_service.py`
  does in three places and `deps.py:168` in a fourth (each is a step here).
* `get_progress` takes stage and percent from the last progress event, which the
  transitions that end a scan do not write.
* Server defaults of status columns are lower-case, the values of their CHECKs
  upper-case: a row that relied on the default would be refused. The models
  always send a value.
* `retry_of_scan_id` is `ON DELETE SET NULL` in a composite reference whose
  `tenant_id` is `NOT NULL`.
* `docs/data-model.md:145-153` lists two exceptions to `RESTRICT`; `scan_events`,
  `scan_job_outbox` (CASCADE), `api_key_metadata.user_id`,
  `refresh_tokens.replaced_by_id` and `scans.retry_of_scan_id` (SET NULL) are more.
* `replaced_by_id` is the one reference between rows of tenants that does not
  carry the tenant (the assumption `TenantFollowsReferences` names it).
* A downgrade past `a1fb5cd36013` drops the pending outbox rows of `QUEUED` scans.

### Fairness

`FairSpec` asks for weak fairness of four things. Celery beat starts the
dispatcher again and again, and it takes the oldest row, so no pending row is
passed over for ever: `DispatchClaim` for each row. A dispatcher that has
claimed goes on. An idle worker takes a message that waits: `Receive` for each
scan. A task that runs is scheduled, and plugin calls end, by
`asyncio.timeout` at the latest: `WorkerStep`. Nobody has to create, retry or
cancel a scan, and no fault has to happen. Liveness is claimed without faults:
with early acknowledgement and no reaper a crash leaves a scan in an executing
status for ever, which is what the code does.

`AuthSessions` asks for weak fairness of the statements of each request: whoever
waits for a row gets it (Postgres queues lock requests), and the victim of a
deadlock is rolled back. Nothing has to begin. Since the requests are bounded,
weak fairness is enough: nobody can overtake a waiting request for ever.
`RedisGuards` asks that time passes, and that a request which has sent `INCR`
goes on or fails; clients need not stop asking. `AccountLinks`, `TenantAccess`
and `SchemaMigrations` claim no liveness.

`OutboxDispatcher` and `FindingPipeline` ask only that each process goes on:
beat starts tick after tick, and a worker whose next statement is not blocked
makes it. Their liveness holds with faults and refusals, of which there are
finitely many.

## 4. Proofs

`ScanEngineProofs` proves for every number of scans, workers, dispatchers,
requests, attempts, faults and redeliveries, and every set of plugin outcomes,
under `ScanEngineAssumption` alone (types of the constants, `MaxAttempts > 0`):

| theorem | says |
|---|---|
| `OwnershipHolds` | `Spec => []OwnershipInv` |
| `TypeCorrect` | `Spec => []TypeOK`; in particular `attempt <= max_attempts` |
| `OwnershipIsExclusive` | `Spec => []SingleOwner` |
| `OwnerIsUpToDate` | `Spec => []OwnerKnowsItsScan` |
| `QueuedIsDispatchable` | `Spec => []QueuedHasOutboxRow` |
| `OutcomesAreFinal` | `Spec => TerminalIsFinal` |
| `DispatchHolds` | `Spec => []DispatchInv` |
| `RetriesAreNew` | `Spec => []RetryRowIsNew` |
| `NothingIsForgotten` | `Spec => []NoLostDispatch` |
| `ReturnsLeaveNoOrphan` | `Spec => []NormalReturnLeavesNoOrphan` |
| `NoStageStartsAfterCancel` | `Spec => NoStageAfterCancel` |
| `OutboxHolds` | `Spec => []OutboxInv` |
| `RowsHold` | `Spec => []RowsInv` |
| `OneTerminalTimestamp` | `Spec => []StampsTellTheOutcome` |
| `RetriedScansStayEnded` | `Spec => []RetriesAreOfEnded` |

`SingleOwner` is not inductive. A claim needs the row to be `QUEUED`; that
nobody owns it then follows only if an owner's row is never `QUEUED`, which is
`OwnerKnowsItsScan` with what `PlacesInv` says an owner believes. That the
attempt stays within its type after a claim needs `QueuedHasOutboxRow`, and that
in turn needs the re-queue to have its row flushed (`PlacesInv`). The conjunction
of these is `OwnershipInv`. The proof has one lemma for the steps that only move
one process (`LocalStep`), one for `transition` from whatever place it is called
(`TransitionStep`), and one per remaining action.

The dispatch of scans relates the tables, the queue and what every process
believes, and needs a second invariant on top of the first, `DispatchInv` (TLC
found no state of the instance of `engine_safety` that violates it):

* `RetryRowIsNew` says that a worker which
  re-queues its scan finds no outbox row of the attempt. That holds because a
  claim opens an attempt no row was made for, so it must be said of every owner,
  not only of the one that re-queues, and of rows that another worker has flushed
  and not committed
  (`OwnAttemptHasNoRow`); and that a claim opens such an attempt follows from
  nothing running ahead of the scans table (`NothingRunsAhead`).
* `NoLostDispatch` speaks of published rows only. The moment between the message
  and its record has to be carried too (`SentIsDelivered`), and a worker that
  reads a message keeps the scan delivered only if it read the attempt that is
  `QUEUED`.
* `NormalReturnLeavesNoOrphan` is broken long before the return, when a handler
  finds the row moved on and gives up: `LetGo` says at that place already that the
  row has left the executing statuses or is in a later attempt, and that a
  cancellation is committed before the broker is told.
* `NoStageAfterCancel` needs none of this, but that the transition into a stage
  matches the row, and that no status a worker may believe leads out of
  `CANCELLED`.

Its proof does not go through the actions one by one for each conjunct. It first
states what a step may do at all (`RowMoves`, `OutboxMoves`, `WorkerMoves`,
`DispatcherMoves`, `MessageMoves`, `CancelMoves`; `TableFacts` and `RestFacts`
are their conjunctions), and proves that of each action (`NextFacts`); each
conjunct is then preserved by any step of which these facts hold
(`RowsOnlyGrow`, `OwnRowStaysNew`, `LetGoStays`, `DeliveryStays`).

Two more invariants rest on these facts. `OutboxInv` adds to `DispatchInv` what
makes an outbox row the business of one process at a time: no two ticks have one
row locked (`LocksAreExclusive`), what a tick has read at its claim is still so
when it records (`ClaimIsCurrent`), and a row that waits in a worker's session is
neither in the table nor in another session (`FlushedRowIsNew`). The last one is
the unique constraint seen from the side of the writers: two workers never hold
a row of one attempt, because a row is flushed only by the owner of the attempt
before it, and an attempt is claimed once. A worker may keep such a row long
after a cancellation has taken the scan away, until something else commits its
session.

`RowsInv` is about the rows of scans by themselves. Whatever a step does, it
creates a row, claims it, moves it along an edge of the state machine, or leaves
status and timestamps alone (`RowSteps`, proved of `Next` in `NextRowSteps`), so
that it is enough to look at the edges: the terminal timestamp of a row is that of
its status (`StampsTellTheOutcome`; the CHECK
`terminal_timestamps_mutually_exclusive` asks for less), no CHECK compares a
timestamp with a missing one (`StampsKeepUp`), and the original of a retry has
ended without success and stays so (`RetriesAreOfEnded`), whatever worker of it is
still running. TLC found no state of the instance of `engine_safety`, nor of one
with two scans, that violates `OutboxInv` or `RowsInv`.

`ScanRefinementProofs` proves two refinements. The first is
`EngineImplementsLease`, `Spec => ImplementsLease`, which `engine_safety` checks on
its instance. `Phase`, `Attempt` and `Holders` are what the lease sees of a scan; `LeaseSteps` states each action of
the lease in these terms, and one lemma per kind of step shows which action it
is: `LeaseTransition` (a worker's `transition` is an end, a re-queue, or
invisible), `LeaseClaim` (the hand-over: an owner's row is never `QUEUED`, so
nobody holds the scan), `LeaseRequests`, `LeaseLocalStep` (a worker that lets
go). It needs `OwnershipInv`, and of `DispatchInv` that a request cancels only what
was there when it read it (`CancelsWhatExists`).

The second is that of the outbox. `sends` and `lost` are read off each step of
`ScanEngine`: `Count` gives them a value after any step, so that they restrict
none, and add none (`HistoryAddsNothing`). `lost` never exceeds `faults`, so that
`MaxFaults` bounds it.

| theorem | says |
|---|---|
| `EngineImplementsLease` | `Spec => ImplementsLease` |
| `HistoryAddsNothing` | `CountedSpec => Spec` |
| `EngineDeliversRows` | `CountedSpec => EngineImplementsDeliverySteps` |
| `CountHolds` | `CountedSpec => []CountInv` |
| `SendsAreBounded` | `CountedSpec => []SendsFollowLosses` |

A step of the engine moves either no dispatcher, and then it writes at most one
row (`CommitsWrite`), or exactly one (`OneDispatcherMoves`): a claim does
not show (`ClaimStutters`), a send opens a delivery (`SendRefines`), a record
closes it (`RecordRefines`), and a dispatcher that fails after its send loses it
(`FaultRefines`). `FlushedRowIsNew` is why a commit of a worker is a `Write` and
not a second life of a published row, `ClaimIsCurrent` why a message is sent only
of a pending row, and `LocksAreExclusive` why no other message of it is open.
TLC found no step of the instance of `engine_safety`, whose faults lose records,
that `OutboxDelivery` has not. `SendsFollowLosses`, that a row has at most one
message more than records were lost, then needs nothing of the engine but that each of its steps is one of
`OutboxDelivery` (`DeliveryKeepsCount`).

`FindingPipelineProofs` proves, for any scans, detections and number of faults,
under `FindingPipelineAssumption`:

| theorem | says |
|---|---|
| `RecordingIsInvariant` | `Spec => []RecordingInv` |
| `TypeCorrect` | `Spec => []TypeOK`; in particular a run never looks past its findings |
| `EveryRowIsAudited` | `Spec => []CreationIsAudited` |
| `NoCircularWait` | `Spec => []NoWaitCycle` |
| `SuccessIsComplete` | `Spec => []DoneMeansRecorded` |
| `FirstSeenIsKept` | `Spec => FirstDetectionStays`; the register says it too, and its run shows it there |
| `PipelineImplementsRegister` | `Spec => ImplementsRegister`, the refinement of `FindingRegister` |

None of these is inductive by itself. What is committed is audited and complete
because what is about to be committed is: `PlacesInv` says that only a run about
to publish holds anything, namely the row and the audit event of its current
finding, that a new row's event says so, and that the row's last detection is its
own. That this stays true until the
commit needs that nobody else can commit the row first, `WritesAreExclusive`,
which the row lock gives; and `PassedIsRecorded` carries what is committed on to
the end of the run. Their conjunction with `TypeOK` is `RecordingInv`. The
refinement needs no more: `PublishEnters` shows that the commit of the event is the
abstract entry of one detection, from what `PublishCommits` says of the row, and
`NothingEntered` that every other step only ends a run or does not show. An entry
may say "detected" of a fingerprint that has a row, since two scans may both have
looked before either wrote, but never "redetected" of one without.

`OutboxDispatcherProofs` proves, for any rows, dispatchers, batch size and number
of faults, under `OutboxDispatcherAssumption`:

| theorem | says |
|---|---|
| `DispatchIsInvariant` | `Spec => []DispatchInv` |
| `TypeCorrect` | `Spec => []TypeOK`; in particular no tick goes beyond its batch |
| `NoAttemptIsLost` | `Spec => []EveryAttemptIsCounted` |
| `DispatchersImplementDelivery` | `Spec => ImplementsDeliverySteps`, the refinement of `OutboxDelivery` without its fairness |

`attempt_count` is read at the claim and written at the commit. That the write
is not stale is `ClaimIsCurrent`, which needs that no other tick has the row
(`LocksAreExclusive`); that the count is complete needs to know of the message
that is sent and not recorded (`CountLagsByOne`). The refinement uses the same
facts: `Send` finds a row that is pending (`ClaimIsCurrent`) and has no message
open (`LocksAreExclusive`).

`AccountLinksProofs` proves, for any number of links, requests at a time and
failures, under `AccountLinksAssumption`:

| theorem | says |
|---|---|
| `LinksAreInvariant` | `Spec => []LinksInv` |
| `TypeCorrect` | `Spec => []TypeOK` |
| `NewestLinkStays` | `Spec => []LatestLinkWorks` |
| `OneLinkWorks` | `Spec => []OnlyLatestLinkWorks` |
| `LinksAreUsedOnce` | `Spec => []LinkWorksOnce` |

Each depends on what the sessions in progress believe. A request that replaces
links will consume all that work, or is known to have been overlapped
(`ReplacementInv`); a confirmation is the first of its link, or is known to have
raced (`ConfirmationInv`); and `SessionInv` says which statements may be left to
a session and what it must have done before them, so that a commit writes a
replacement together with what it replaces. `LinksInv` is their conjunction with
the facts about rows (`LinkRowsInv`).

`TenantAccessProofs` proves, for any users, keys, roles, scopes, requests at a
time and failures, under `TenantAccessAssumption`:

| theorem | says |
|---|---|
| `AccessIsInvariant` | `Spec => []AccessInv` |
| `TypeCorrect` | `Spec => []TypeOK` |
| `AuditIsTrue` | `Spec => []AuditTellsTheRole` |
| `SomebodyCanManage` | `Spec => SomebodyManages` |
| `NoCircularWait` | `Spec => []NoWaitCycle` |
| `RevocationHolds` | `Spec => RevocationIsFinal` |

The audit event tells the role only if the row that the request loaded, and
whose difference it writes, is still the row: `LoadedInv`. `SomebodyManages`
follows from two facts of a commit. It takes permissions from its target at most
(`ManagersCommitted`), so that the target was the last manager; and whoever commits
is a manager unless it was overtaken (`ManagerInv`), so that it is the target
itself. A key that rotates itself leaves one with its own scopes (`KeyInv`,
`RotationLeavesManager`). That nobody
waits in a circle needs the statements left to a session with its locks
(`SessionInv`): before each statement that may wait, it holds nothing.

`AuthSessionsProofs` proves, for any number of tokens, requests, requests at a
time and failures, under `AuthSessionsAssumption`:

| theorem | says |
|---|---|
| `SessionsAreInvariant` | `Spec => []SessionsInv` |
| `TypeCorrect` | `Spec => []TypeOK` |
| `BumpsLast` | `Spec => []InvalidatedStaysInvalid` |
| `PasswordsLast` | `Spec => []PasswordIsTheLastSet` |
| `RevocationsLast` | `Spec => []ClosedStaysClosed` |
| `FamiliesDoNotFork` | `Spec => []OneActivePerFamily` |
| `TokensAreUsedOnce` | `Spec => ConsumedStaysConsumed` |
| `DeadlocksNeedRevokeAll` | `Spec => []DeadlockNeedsRevokeAll` |

A commit brings many facts together that were read long before it. A revocation
leaves nothing usable because what it has selected covers every usable token of
its families, or a refresh is on record as overlapping it (`RevocationInv`); a
refresh puts a usable token into a family that is open, and replaces the only
one (`RefreshInv`); a bump of `token_version` exceeds the `ver` of every token
only while no session has read a version above the one committed (`RowsInv`,
`RecordInv`). A commit of one session must leave that true of the others: each
of these lemmas compares the history of the commit with what the other session
holds (`CommitKeepsOthers`). For deadlocks, `SessionInv` says that a session
revokes tokens in the order of their keys and writes the user before: the
greatest locked token of a circle would be held by one that waits for a greater.

`RedisGuardsProofs` proves, for any lifetime, resolution of time, limit and
number of requests, under `RedisGuardsAssumption`: `DenylistIsInvariant`
(`Spec => []DenylistInv`), `TypeCorrect` (`Spec => []TypeOK`) and `LogoutLasts`
(`Spec => []LoggedOutToTheLastSecond`). The entry is set from a lifetime that was
computed before, rounded down, while time passes and other logouts set theirs:
`DenylistInv` bounds both the entry and what a logout is about to set.

For the rate limit it proves `BudgetsHold` (`Spec => []BudgetInv`) and
`AtMostTwoBudgets` (`Spec => []TwoBudgetsAWindow`). The counter knows nothing of
time, and the bound is about time; what connects them is a moment that no variable
holds, when the present key was created. `BudgetInv` says that there is one: a
point `k` of the history such that what was admitted since then is counted by the
counter (with one place kept for the request that has created the key and has
still to set its TTL), that what was admitted before is one budget at most, and
that a key with a TTL is as old as the TTL has run. So a key that goes leaves a
window that was all its own, and the next one begins with a single budget behind
it. `TwoBudgetsAWindow` compares the limit with the cardinality of a set of
admissions, not with a sum: of a sum over the history nothing can be proved
without induction, while what one more admission (`OneMore`), a tick (`OneOlder`)
and a cut (`TwoSpans`) do to a cardinality follows from the library's facts about
finite sets. TLC found no violation of `BudgetInv` on the instance of `guards`.

Only model-checked, and why:

* liveness (`EveryScanEnds`, `CancellationIsNoticed`, `EveryRunEnds`,
  `EveryRequestEnds`, `LimitIsLifted`) and the fairness of `OutboxDelivery` in
  `ImplementsDelivery` and `EngineImplementsDelivery`, whose steps are proved: out
  of the prover's reach;
* the properties of the schema. `SchemaMigrations` has no constants, so its run
  explores the whole system and a proof would say nothing for more instances;
  its schemas are folds over the scripts of the migrations, which the prover
  cannot evaluate.

No module that is proved about declares a `RECURSIVE` operator.

## 5. What is not modelled

See `components` in `PROJECT.json` for each part with its reason. In short: text
and file handling without state (sanitization, redaction, artifact paths),
read-only endpoints and the progress read model, plain tenant-filtered rows
(tenants, projects, assets), wiring, the frontend shell and deployment files.
Within modelled parts: the tenant's status and the expiry of API keys, delays of
retries, the dead-letter queue, column types and server defaults.

Two hazards have no property: clocks of different hosts (`models/scan.py:70`), as no
module compares the clocks of two processes, and a worker that dies in the middle of
a scan (`workers/celery_app.py:22`), whose scan stays as it is because the code has
no reaper, as `docs/orchestrator.md` says; the runs with crashes check what a crash
must not do, and none claims that such a scan ends. The progress of a scan that has ended
(`services/scan_service.py:223`) can be out of date, and nothing decides by it.

## 6. Plan

1. Every safety invariant and action property that a passing run with constants
   checks is proved, and so is every refinement but for its fairness. Open: the
   composition of `FindingPipeline` with `ScanEngine`, whose stage of processing
   has its outcomes and none of its statements.
2. Tenant status and key expiry in `TenantAccess`; the composition of
   `AccountLinks` with `AuthSessions` over the reset of a password.
