----------------------------- MODULE ScanEngine -----------------------------
(***************************************************************************)
(* The execution of scans: the `scans` and `scan_job_outbox` tables, the   *)
(* Celery queue, the workers that run ScanOrchestrator.run, the outbox     *)
(* dispatchers, and the requests that create, retry and cancel scans.      *)
(*                                                                         *)
(* One step is one database statement with the commit that follows it, or  *)
(* one call of a scanner plugin. Between two steps of a process every      *)
(* other process may run: Postgres gives READ COMMITTED isolation, so a    *)
(* conditional UPDATE sees the row the last commit left.                   *)
(***************************************************************************)
EXTENDS ScanStateMachine, FiniteSets

CONSTANTS
  Scans,             \* the scan rows that may be created
  Registered,        \* the scans whose scanner_type has a plugin
  Workers,           \* Celery worker processes
  Dispatchers,       \* runs of the dispatch_pending_outbox task
  Cancellers,        \* requests POST /scans/{id}/cancel in flight
  MaxAttempts,       \* Scan.max_attempts
  ValidateOutcomes,  \* how validate_config may end
  StageOutcomes,     \* how the plugin call of each stage may end
  MaxFaults,         \* bound: crashes and infrastructure errors
  MaxRedeliveries,   \* bound: messages the broker delivers once more
  None               \* no scan, no job

Stages == {"prepare", "execute", "collect", "process"}

Outcomes == {"ok", "transient", "permanent", "timeout", "cancelled"}

ASSUME ScanEngineAssumption ==
  /\ Registered \subseteq Scans
  /\ MaxAttempts \in Nat \ {0}
  /\ ValidateOutcomes \subseteq {"ok", "config_error", "error"}
  /\ StageOutcomes \in [Stages -> SUBSET Outcomes]
  /\ MaxFaults \in Nat
  /\ MaxRedeliveries \in Nat
  /\ None \notin Scans

VARIABLES
  scans,         \* the scans table
  outbox,        \* the scan_job_outbox table, by (scan, scan_attempt)
  queue,         \* the messages Celery holds for the scan queue
  jobs,          \* the number of task ids Celery has made for each scan
  workers,       \* each worker's place in run() and its view of the scan
  dispatchers,   \* each dispatcher's claimed row
  cancels,       \* each cancel request's place
  faults,        \* faults so far
  redeliveries   \* redeliveries so far

vars == <<scans, outbox, queue, jobs, workers, dispatchers, cancels, faults,
          redeliveries>>

Attempts == 0 .. MaxAttempts

\* The places of a worker in ScanOrchestrator.run.
\*   loaded     the row was read and is QUEUED        run 94-123
\*   validate   claimed, in validate_config           run 142-182
\*   check      before _assert_not_cancelled
\*   advance    before the transition to the next stage's status
\*   call       in the plugin call of the stage
\*   timed_out, cancelled, requeue, finalize, stale   the handlers
\*   cleanup    in `finally`, run() will return normally
\*   abort      in `finally`, an exception is on its way out of run()
\*   raised     run() raised; _run_async has to roll back
WorkerPlaces ==
  {"idle", "loaded", "validate", "check", "advance", "call", "timed_out",
   "cancelled", "requeue", "finalize", "stale", "cleanup", "abort", "raised"}

\* From the commit of the claim to the commit of the transition that ends or
\* re-queues the attempt.
OwningPlaces ==
  {"validate", "check", "advance", "call", "timed_out", "cancelled", "requeue",
   "finalize"}

Owns(w) == workers[w].pc \in OwningPlaces

IdleWorker ==
  [pc |-> "idle", scan |-> None, status |-> "ABSENT", attempt |-> 0,
   stage |-> "prepare", dirty |-> FALSE]

IdleDispatcher == [pc |-> "idle", scan |-> None, attempt |-> 0, job |-> 0]

IdleCancel == [pc |-> "idle", scan |-> None, status |-> "ABSENT", job |-> 0]

AbsentScan ==
  [status |-> "ABSENT", attempt |-> 0, stamps |-> {}, job |-> 0, retryOf |-> None]

\* A message carries the scan alone (ScanJobPayload). `job` is the Celery task id,
\* and `attempt` the outbox row it was published from, which no consumer can read.
Message == [scan : Scans, attempt : Attempts, job : Nat]

Init ==
  /\ scans = [s \in Scans |-> AbsentScan]
  /\ outbox = [s \in Scans |-> [a \in Attempts |-> "none"]]
  /\ queue = {}
  /\ jobs = [s \in Scans |-> 0]
  /\ workers = [w \in Workers |-> IdleWorker]
  /\ dispatchers = [d \in Dispatchers |-> IdleDispatcher]
  /\ cancels = [c \in Cancellers |-> IdleCancel]
  /\ faults = 0
  /\ redeliveries = 0

-----------------------------------------------------------------------------
(* Requests that create scans. The INSERT of the scan, of its outbox row and *)
(* the QUEUED transition are one transaction: `transition` commits it, and   *)
(* no other session ever sees the row PENDING.                               *)

\* ScanService._enqueue, on a row this transaction inserted.
Enqueue(s, origin) ==
  LET inserted == [AbsentScan EXCEPT !.status = "PENDING", !.retryOf = origin]
  IN  /\ scans' = [scans EXCEPT ![s] = Moved(inserted, "QUEUED")]
      /\ outbox' = [outbox EXCEPT ![s][0] = "pending"]

CreateScan(s) ==
  /\ scans[s].status = "ABSENT"
  /\ Enqueue(s, None)
  /\ UNCHANGED <<queue, jobs, workers, dispatchers, cancels, faults, redeliveries>>

RetryableStatuses == {"FAILED", "CANCELLED", "TIMED_OUT"}

\* retry_scan leaves the original alone and runs a new row.
RetryScan(o, s) ==
  /\ scans[o].status \in RetryableStatuses
  /\ scans[s].status = "ABSENT"
  /\ (s \in Registered) = (o \in Registered)   \* same scanner_type
  /\ Enqueue(s, o)
  /\ UNCHANGED <<queue, jobs, workers, dispatchers, cancels, faults, redeliveries>>

-----------------------------------------------------------------------------
(* POST /scans/{id}/cancel                                                   *)

CancelRead(c, s) ==
  /\ cancels[c].pc = "idle"
  /\ scans[s].status # "ABSENT"
  /\ cancels' = [cancels EXCEPT ![c] =
       [pc |-> "transition", scan |-> s, status |-> scans[s].status,
        job |-> scans[s].job]]
  /\ UNCHANGED <<scans, outbox, queue, jobs, workers, dispatchers, faults,
                 redeliveries>>

\* An invalid edge and a stale belief are the same 409 answer.
CancelTransition(c) ==
  LET me     == cancels[c]
      result == TransitionResult(scans[me.scan], me.status, "CANCELLED")
  IN
  /\ me.pc = "transition"
  /\ scans' = IF result = "ok"
              THEN [scans EXCEPT ![me.scan] = Moved(@, "CANCELLED")]
              ELSE scans
  /\ cancels' = [cancels EXCEPT ![c] =
       IF result = "ok" /\ me.job # 0 THEN [me EXCEPT !.pc = "revoke"] ELSE IdleCancel]
  /\ UNCHANGED <<outbox, queue, jobs, workers, dispatchers, faults, redeliveries>>

\* JobQueue.cancel: the broker may still drop the message, or it is too late.
CancelRevoke(c) ==
  /\ cancels[c].pc = "revoke"
  /\ queue' = {m \in queue : m.scan # cancels[c].scan \/ m.job # cancels[c].job}
  /\ cancels' = [cancels EXCEPT ![c] = IdleCancel]
  /\ UNCHANGED <<scans, outbox, jobs, workers, dispatchers, faults, redeliveries>>

-----------------------------------------------------------------------------
(* The outbox dispatcher: one row, one transaction. The row stays locked    *)
(* from the claim to the commit, and SKIP LOCKED passes over locked rows.   *)

Locked(s, a) ==
  \E d \in Dispatchers :
    /\ dispatchers[d].pc # "idle"
    /\ dispatchers[d].scan = s
    /\ dispatchers[d].attempt = a

\* Mutant of DispatchClaim: without SKIP LOCKED, or without FOR UPDATE.
DispatchClaim_IgnoresLocks(d, s, a) ==
  /\ dispatchers[d].pc = "idle"
  /\ outbox[s][a] = "pending"
  /\ dispatchers' = [dispatchers EXCEPT ![d] =
       [pc |-> "claimed", scan |-> s, attempt |-> a, job |-> 0]]
  /\ UNCHANGED <<scans, outbox, queue, jobs, workers, cancels, faults, redeliveries>>

\* claim_next_pending. Which pending row is the oldest is left open.
DispatchClaim(d, s, a) ==
  /\ dispatchers[d].pc = "idle"
  /\ outbox[s][a] = "pending"
  /\ ~Locked(s, a)
  /\ dispatchers' = [dispatchers EXCEPT ![d] =
       [pc |-> "claimed", scan |-> s, attempt |-> a, job |-> 0]]
  /\ UNCHANGED <<scans, outbox, queue, jobs, workers, cancels, faults, redeliveries>>

\* Mutant of DispatchSend: a scan that was dispatched before is not sent again.
DispatchSend_OncePerScan(d) ==
  LET me  == dispatchers[d]
      job == jobs[me.scan] + 1
  IN
  /\ me.pc = "claimed"
  /\ jobs' = [jobs EXCEPT ![me.scan] = job]
  /\ queue' = IF jobs[me.scan] > 0 THEN queue
              ELSE queue \cup {[scan |-> me.scan, attempt |-> me.attempt, job |-> job]}
  /\ dispatchers' = [dispatchers EXCEPT ![d] = [me EXCEPT !.pc = "sent", !.job = job]]
  /\ UNCHANGED <<scans, outbox, workers, cancels, faults, redeliveries>>

\* JobQueue.enqueue_scan: the message is on the queue before anything is recorded.
DispatchSend(d) ==
  LET me  == dispatchers[d]
      job == jobs[me.scan] + 1
  IN
  /\ me.pc = "claimed"
  /\ jobs' = [jobs EXCEPT ![me.scan] = job]
  /\ queue' = queue \cup {[scan |-> me.scan, attempt |-> me.attempt, job |-> job]}
  /\ dispatchers' = [dispatchers EXCEPT ![d] = [me EXCEPT !.pc = "sent", !.job = job]]
  /\ UNCHANGED <<scans, outbox, workers, cancels, faults, redeliveries>>

\* job_id and published_at, one commit.
DispatchRecord(d) ==
  LET me == dispatchers[d] IN
  /\ me.pc = "sent"
  /\ scans' = [scans EXCEPT ![me.scan].job = me.job]
  /\ outbox' = [outbox EXCEPT ![me.scan][me.attempt] = "published"]
  /\ dispatchers' = [dispatchers EXCEPT ![d] = IdleDispatcher]
  /\ UNCHANGED <<queue, jobs, workers, cancels, faults, redeliveries>>

\* A send that fails, an error while the publish is recorded, or a crash: the row
\* is still unpublished and its lock is gone.
DispatchFault(d) ==
  /\ dispatchers[d].pc # "idle"
  /\ faults < MaxFaults
  /\ faults' = faults + 1
  /\ dispatchers' = [dispatchers EXCEPT ![d] = IdleDispatcher]
  /\ UNCHANGED <<scans, outbox, queue, jobs, workers, cancels, redeliveries>>

-----------------------------------------------------------------------------
(* ScanOrchestrator.run                                                      *)

\* Mutants: a handler swallows an invalid edge; a stale transition between two
\* stages is tried again with the same belief.
InsideTry_Swallows(place) == [ok |-> place, stale |-> "stale", invalid |-> "cleanup"]
InStages_Retries(place) == [ok |-> place, stale |-> "advance", invalid |-> "finalize"]

\* Where a worker goes after `transition`, by its result. What _run_stages raises is
\* a permanent error to the inner `except Exception`, a stale belief included; from
\* the handlers a stale belief reaches _handle_stale_state; outside of the try
\* block it leaves run().
InStages(place)   == [ok |-> place, stale |-> "finalize", invalid |-> "finalize"]
InsideTry(place)  == [ok |-> place, stale |-> "stale", invalid |-> "abort"]
OutsideTry(place) == [ok |-> place, stale |-> "raised", invalid |-> "raised"]

\* ScanStateMachine.transition as a worker calls it. Its commit is the commit of
\* whatever else this session has flushed: the retry's outbox row.
Transition(w, target, next) ==
  LET me     == workers[w]
      result == TransitionResult(scans[me.scan], me.status, target)
  IN
  /\ scans' = IF result = "ok"
              THEN [scans EXCEPT ![me.scan] = Moved(@, target)]
              ELSE scans
  /\ outbox' = IF result = "ok" /\ me.dirty
               THEN [outbox EXCEPT ![me.scan][me.attempt] = "pending"]
               ELSE outbox
  /\ workers' = [workers EXCEPT ![w] =
       IF result = "ok"
       THEN [me EXCEPT !.pc = next.ok, !.status = target, !.dirty = FALSE]
       ELSE [me EXCEPT !.pc = next[result]]]

\* Celery hands over a message, acknowledged now; run() reads the scan and ignores
\* a delivery of one that is not QUEUED. `again`: the broker delivers it once more.
Receive(w, m, again) ==
  LET row == scans[m.scan] IN
  /\ workers[w].pc = "idle"
  /\ m \in queue
  /\ again => redeliveries < MaxRedeliveries
  /\ redeliveries' = IF again THEN redeliveries + 1 ELSE redeliveries
  /\ queue' = IF again THEN queue ELSE queue \ {m}
  /\ workers' = [workers EXCEPT ![w] =
       IF row.status = "QUEUED"
       THEN [IdleWorker EXCEPT !.pc = "loaded", !.scan = m.scan, !.status = "QUEUED",
                               !.attempt = row.attempt]
       ELSE IdleWorker]
  /\ UNCHANGED <<scans, outbox, jobs, dispatchers, cancels, faults>>

\* Mutant of FailUnregistered: the delivery is ignored.
FailUnregistered_Ignored(w) ==
  /\ workers[w].pc = "loaded"
  /\ workers[w].scan \notin Registered
  /\ workers' = [workers EXCEPT ![w] = IdleWorker]
  /\ UNCHANGED <<scans, outbox, queue, jobs, dispatchers, cancels, faults, redeliveries>>

\* No plugin: _finalize_failed before any claim and outside the try block.
FailUnregistered(w) ==
  /\ workers[w].pc = "loaded"
  /\ workers[w].scan \notin Registered
  /\ Transition(w, "FAILED", OutsideTry("cleanup"))
  /\ UNCHANGED <<queue, jobs, dispatchers, cancels, faults, redeliveries>>

\* Mutants of ClaimMatches: an UPDATE by id, and one guarded by the status alone.
ClaimMatches_Always(row, me) == TRUE
ClaimMatches_AnyAttempt(row, me) == row.status = "QUEUED"

\* The WHERE clause of claim_for_execution.
ClaimMatches(row, me) == row.status = "QUEUED" /\ row.attempt = me.attempt

\* claim_for_execution and its commit; zero rows matched is a clean return.
Claim(w) ==
  LET me  == workers[w]
      won == ClaimMatches(scans[me.scan], me)
  IN
  /\ me.pc = "loaded"
  /\ me.scan \in Registered
  /\ scans' = IF won
              THEN [scans EXCEPT ![me.scan].status = "PREPARING",
                                 ![me.scan].attempt = me.attempt + 1]
              ELSE scans
  /\ workers' = [workers EXCEPT ![w] =
       IF won
       THEN [me EXCEPT !.pc = "validate", !.status = "PREPARING",
                       !.attempt = me.attempt + 1]
       ELSE IdleWorker]
  /\ UNCHANGED <<outbox, queue, jobs, dispatchers, cancels, faults, redeliveries>>

\* plugin.validate_config. Only ScanConfigError is caught, and its handler runs
\* before the try block whose finally calls cleanup().
ValidateConfig(w) ==
  /\ workers[w].pc = "validate"
  /\ \/ /\ "ok" \in ValidateOutcomes
        /\ workers' = [workers EXCEPT ![w].pc = "check"]
        /\ UNCHANGED <<scans, outbox>>
     \/ /\ "config_error" \in ValidateOutcomes
        /\ Transition(w, "FAILED", OutsideTry("cleanup"))
     \/ /\ "error" \in ValidateOutcomes
        /\ workers' = [workers EXCEPT ![w].pc = "raised"]
        /\ UNCHANGED <<scans, outbox>>
  /\ UNCHANGED <<queue, jobs, dispatchers, cancels, faults, redeliveries>>

\* _assert_not_cancelled: get_by_id refreshes the worker's object, then the check.
\* prepare() is called in the status the claim left; the other stages advance first.
AssertNotCancelled(w) ==
  LET me  == workers[w]
      now == scans[me.scan].status
  IN
  /\ me.pc = "check"
  /\ workers' = [workers EXCEPT ![w] =
       [me EXCEPT !.status = now,
                  !.pc = IF now = "CANCELLED" THEN "cancelled"
                         ELSE IF me.stage = "prepare" THEN "call" ELSE "advance"]]
  /\ UNCHANGED <<scans, outbox, queue, jobs, dispatchers, cancels, faults, redeliveries>>

StageStatus ==
  [execute |-> "RUNNING", collect |-> "COLLECTING", process |-> "PROCESSING",
   done |-> "SUCCEEDED"]

\* The transitions of _run_stages.
Advance(w) ==
  LET stage == workers[w].stage IN
  /\ workers[w].pc = "advance"
  /\ Transition(w, StageStatus[stage],
       InStages(IF stage = "done" THEN "cleanup" ELSE "call"))
  /\ UNCHANGED <<queue, jobs, dispatchers, cancels, faults, redeliveries>>

\* Mutant of HandleFailure: a retry without its row.
HandleFailure_NoOutboxRow(me, error) ==
  IF error = "transient" /\ me.attempt < MaxAttempts
  THEN [me EXCEPT !.pc = "requeue"]
  ELSE [me EXCEPT !.pc = "finalize"]

\* _handle_failure up to its transition: the retry's outbox row is inserted, not
\* committed; UNIQUE(tenant, scan, scan_attempt) would reject a second one.
HandleFailure(me, error) ==
  IF error = "transient" /\ me.attempt < MaxAttempts
  THEN IF outbox[me.scan][me.attempt] = "none"
       THEN [me EXCEPT !.pc = "requeue", !.dirty = TRUE]
       ELSE [me EXCEPT !.pc = "abort"]
  ELSE [me EXCEPT !.pc = "finalize"]

NextStage ==
  [prepare |-> "execute", execute |-> "collect", collect |-> "process",
   process |-> "done"]

\* A plugin call, or for "process" normalize_findings and the finding pipeline,
\* which is followed by no check.
RunStage(w, outcome) ==
  LET me == workers[w] IN
  /\ me.pc = "call"
  /\ outcome \in StageOutcomes[me.stage]
  /\ workers' = [workers EXCEPT ![w] =
       CASE outcome = "ok" ->
              [me EXCEPT !.stage = NextStage[me.stage],
                         !.pc = IF me.stage = "process" THEN "advance" ELSE "check"]
         [] outcome = "timeout" -> [me EXCEPT !.pc = "timed_out"]
         [] outcome = "cancelled" -> [me EXCEPT !.pc = "cancelled"]
         [] OTHER -> HandleFailure(me, outcome)]
  /\ UNCHANGED <<scans, outbox, queue, jobs, dispatchers, cancels, faults, redeliveries>>

\* except TimeoutError
HandleTimeout(w) ==
  /\ workers[w].pc = "timed_out"
  /\ Transition(w, "TIMED_OUT", InsideTry("cleanup"))
  /\ UNCHANGED <<queue, jobs, dispatchers, cancels, faults, redeliveries>>

\* except ScanCancelledError: the check has seen CANCELLED, or the plugin raised it.
HandleCancelled(w) ==
  /\ workers[w].pc = "cancelled"
  /\ IF workers[w].status = "CANCELLED"
     THEN /\ workers' = [workers EXCEPT ![w].pc = "cleanup"]
          /\ UNCHANGED <<scans, outbox>>
     ELSE Transition(w, "CANCELLED", InsideTry("cleanup"))
  /\ UNCHANGED <<queue, jobs, dispatchers, cancels, faults, redeliveries>>

\* The transition of _handle_failure.
Requeue(w) ==
  /\ workers[w].pc = "requeue"
  /\ Transition(w, "QUEUED", InsideTry("cleanup"))
  /\ UNCHANGED <<queue, jobs, dispatchers, cancels, faults, redeliveries>>

\* The transition of _finalize_failed, from inside the try block.
FinalizeFailed(w) ==
  /\ workers[w].pc = "finalize"
  /\ Transition(w, "FAILED", InsideTry("cleanup"))
  /\ UNCHANGED <<queue, jobs, dispatchers, cancels, faults, redeliveries>>

\* A flushed outbox row becomes durable with the next commit of the session.
Flush(me) ==
  outbox' = IF me.dirty THEN [outbox EXCEPT ![me.scan][me.attempt] = "pending"]
                        ELSE outbox

\* _handle_stale_state: for a CANCELLED scan it publishes ScanCancelled, whose
\* subscriber commits the session; otherwise it only logs.
HandleStaleState(w) ==
  LET me  == workers[w]
      now == scans[me.scan].status
  IN
  /\ me.pc = "stale"
  /\ workers' = [workers EXCEPT ![w] =
       [me EXCEPT !.pc = "cleanup", !.status = now,
                  !.dirty = @ /\ now # "CANCELLED"]]
  /\ IF now = "CANCELLED" THEN Flush(me) ELSE UNCHANGED outbox
  /\ UNCHANGED <<scans, queue, jobs, dispatchers, cancels, faults, redeliveries>>

\* plugin.cleanup in the finally block; then _run_async commits and the task ends.
Cleanup(w) ==
  /\ workers[w].pc = "cleanup"
  /\ Flush(workers[w])
  /\ workers' = [workers EXCEPT ![w] = IdleWorker]
  /\ UNCHANGED <<scans, queue, jobs, dispatchers, cancels, faults, redeliveries>>

\* plugin.cleanup with an exception in flight.
CleanupAndRaise(w) ==
  /\ workers[w].pc = "abort"
  /\ workers' = [workers EXCEPT ![w].pc = "raised"]
  /\ UNCHANGED <<scans, outbox, queue, jobs, dispatchers, cancels, faults, redeliveries>>

\* _run_async rolls the session back and the Celery task fails.
TaskFails(w) ==
  /\ workers[w].pc = "raised"
  /\ workers' = [workers EXCEPT ![w] = IdleWorker]
  /\ UNCHANGED <<scans, outbox, queue, jobs, dispatchers, cancels, faults, redeliveries>>

\* The worker process dies: what it had not committed is gone, and so is the
\* message, acknowledged when it was received.
WorkerCrash(w) ==
  /\ workers[w].pc # "idle"
  /\ faults < MaxFaults
  /\ faults' = faults + 1
  /\ workers' = [workers EXCEPT ![w] = IdleWorker]
  /\ UNCHANGED <<scans, outbox, queue, jobs, dispatchers, cancels, redeliveries>>

\* A database call of run() fails, or the scan's timeout cancels it. The session is
\* unusable from there on, so that no handler can make its transition: the
\* exception leaves run(), through the finally block if it was raised inside it.
DatabaseFault(w) ==
  /\ workers[w].pc \notin {"idle", "cleanup", "abort", "raised"}
  /\ faults < MaxFaults
  /\ faults' = faults + 1
  /\ workers' = [workers EXCEPT ![w].dirty = FALSE,
                                ![w].pc = IF @ \in {"loaded", "validate"}
                                          THEN "raised" ELSE "abort"]
  /\ UNCHANGED <<scans, outbox, queue, jobs, dispatchers, cancels, redeliveries>>

-----------------------------------------------------------------------------

WorkerStep(w) ==
  \/ FailUnregistered(w)
  \/ Claim(w)
  \/ ValidateConfig(w)
  \/ AssertNotCancelled(w)
  \/ Advance(w)
  \/ \E outcome \in Outcomes : RunStage(w, outcome)
  \/ HandleTimeout(w)
  \/ HandleCancelled(w)
  \/ Requeue(w)
  \/ FinalizeFailed(w)
  \/ HandleStaleState(w)
  \/ Cleanup(w)
  \/ CleanupAndRaise(w)
  \/ TaskFails(w)

DispatcherStep(d) == DispatchSend(d) \/ DispatchRecord(d)

CancelStep(c) == CancelTransition(c) \/ CancelRevoke(c)

Next ==
  \/ \E s \in Scans : CreateScan(s)
  \/ \E o, s \in Scans : RetryScan(o, s)
  \/ \E c \in Cancellers, s \in Scans : CancelRead(c, s)
  \/ \E c \in Cancellers : CancelStep(c)
  \/ \E d \in Dispatchers, s \in Scans, a \in Attempts : DispatchClaim(d, s, a)
  \/ \E d \in Dispatchers : DispatcherStep(d) \/ DispatchFault(d)
  \/ \E w \in Workers, m \in queue, again \in BOOLEAN : Receive(w, m, again)
  \/ \E w \in Workers : WorkerStep(w) \/ WorkerCrash(w) \/ DatabaseFault(w)

Spec == Init /\ [][Next]_vars

\* Celery beat runs the dispatcher for ever, an idle worker takes a message that
\* waits, and a task that runs is scheduled; plugin calls end, by the timeout at
\* the latest. Nothing obliges anybody to create, retry or cancel a scan, and no
\* fault has to happen.
Fairness ==
  /\ \A s \in Scans, a \in Attempts :
       WF_vars(\E d \in Dispatchers : DispatchClaim(d, s, a))
  /\ \A d \in Dispatchers : WF_vars(DispatcherStep(d))
  /\ \A s \in Scans :
       WF_vars(\E w \in Workers : \E m \in queue : m.scan = s /\ Receive(w, m, FALSE))
  /\ \A w \in Workers : WF_vars(WorkerStep(w))

FairSpec == Spec /\ Fairness

-----------------------------------------------------------------------------
(* Properties                                                                *)

ScanRow ==
  [status : ScanStatus \cup {"ABSENT"}, attempt : Attempts,
   stamps : SUBSET Timestamps, job : Nat, retryOf : Scans \cup {None}]

WorkerRecord ==
  [pc : WorkerPlaces, scan : Scans \cup {None},
   status : ScanStatus \cup {"ABSENT"}, attempt : Attempts,
   stage : Stages \cup {"done"}, dirty : BOOLEAN]

DispatcherRecord ==
  [pc : {"idle", "claimed", "sent"}, scan : Scans \cup {None}, attempt : Attempts,
   job : Nat]

CancelRecord ==
  [pc : {"idle", "transition", "revoke"}, scan : Scans \cup {None},
   status : ScanStatus \cup {"ABSENT"}, job : Nat]

\* The types of the tables and of every process's record; in particular no scan is
\* ever claimed for more than max_attempts attempts.
TypeOK ==
  /\ scans \in [Scans -> ScanRow]
  /\ outbox \in [Scans -> [Attempts -> {"none", "pending", "published"}]]
  /\ queue \subseteq Message
  /\ jobs \in [Scans -> Nat]
  /\ workers \in [Workers -> WorkerRecord]
  /\ dispatchers \in [Dispatchers -> DispatcherRecord]
  /\ cancels \in [Cancellers -> CancelRecord]
  /\ faults \in 0 .. MaxFaults
  /\ redeliveries \in 0 .. MaxRedeliveries

\* "Only one worker may run a given scan" (claim_for_execution): two workers are
\* never both between a claim and the end of the claimed attempt, whatever
\* messages are duplicated and whatever crashes.
SingleOwner ==
  \A v, w \in Workers :
    Owns(v) /\ Owns(w) /\ workers[v].scan = workers[w].scan => v = w

\* While a worker owns a scan, nobody but a cancel request moves the row: its
\* attempt is the one the worker claimed, and its status is what the worker
\* believes, or CANCELLED. This is what lets `transition` guard with the status
\* alone.
OwnerKnowsItsScan ==
  \A w \in Workers : Owns(w) =>
    /\ scans[workers[w].scan].attempt = workers[w].attempt
    /\ scans[workers[w].scan].status \in {workers[w].status, "CANCELLED"}

\* The outcome of a scan is final: no transition, dispatch or late worker changes
\* the status, the attempt or the timestamps of a row in a terminal status
\* (ADR 0008, section 4).
TerminalIsFinal ==
  [][\A s \in Scans : scans[s].status \in TerminalStatuses =>
       /\ scans'[s].status = scans[s].status
       /\ scans'[s].attempt = scans[s].attempt
       /\ scans'[s].stamps = scans[s].stamps]_vars

\* A scan can only be waiting in QUEUED with an attempt left to use, and with the
\* outbox row for exactly that attempt committed along with the status
\* (ADR 0008, section 5).
QueuedHasOutboxRow ==
  \A s \in Scans : scans[s].status = "QUEUED" =>
    /\ scans[s].attempt < MaxAttempts
    /\ outbox[s][scans[s].attempt] # "none"

\* A worker about to re-queue its scan never finds the outbox row of that attempt
\* there already: UNIQUE(tenant_id, scan_id, scan_attempt) rejects no retry.
RetryRowIsNew ==
  \A w \in Workers : workers[w].pc = "requeue" =>
    outbox[workers[w].scan][workers[w].attempt] = "none"

\* A message for the scan waits, or a worker has read the attempt that waits.
Delivered(s) ==
  \/ \E m \in queue : m.scan = s
  \/ \E w \in Workers :
       /\ workers[w].pc = "loaded"
       /\ workers[w].scan = s
       /\ workers[w].attempt = scans[s].attempt

\* Without faults a QUEUED scan is never forgotten: its outbox row is still to be
\* published, or a message for it waits, or a worker that read this very attempt is
\* about to claim it.
NoLostDispatch ==
  faults = 0 =>
    \A s \in Scans : scans[s].status = "QUEUED" =>
      outbox[s][scans[s].attempt] = "pending" \/ Delivered(s)

\* Once a scan is CANCELLED no worker starts another plugin stage for it after the
\* boundary check: the conditional transition closes the gap between the check and
\* the stage.
NoStageAfterCancel ==
  [][\A w \in Workers :
       workers[w].pc = "advance" /\ workers'[w].pc = "call" =>
         scans[workers[w].scan].status # "CANCELLED"]_vars

\* A worker whose run() is about to return normally has dealt with the attempt it
\* claimed: the row has left the executing statuses, or is in a later attempt.
NormalReturnLeavesNoOrphan ==
  \A w \in Workers : workers[w].pc = "cleanup" =>
    LET row == scans[workers[w].scan] IN
    row.status \in ExecutingStatuses => row.attempt > workers[w].attempt

\* With plugins that fail only in the ways the handlers can record, and no faults,
\* every scan that is created reaches a terminal status.
EveryScanEnds ==
  \A s \in Scans :
    scans[s].status = "QUEUED" ~> scans[s].status \in TerminalStatuses

\* A worker that owns a cancelled scan lets go of it.
CancellationIsNoticed ==
  \A w \in Workers :
    (Owns(w) /\ scans[workers[w].scan].status = "CANCELLED") ~> ~Owns(w)

\* What holds at each place of a process: the row it works on exists, a worker that
\* has only read its scan believes it QUEUED, an owner believes it in execution or
\* cancelled, and a re-queue is tried only with an attempt left.
PlacesInv ==
  /\ \A w \in Workers :
       /\ workers[w].pc # "idle" => workers[w].scan \in Scans
       /\ workers[w].pc = "loaded" => workers[w].status = "QUEUED"
       /\ Owns(w) => workers[w].status \in ExecutingStatuses \cup {"CANCELLED"}
       /\ workers[w].pc \in {"loaded", "validate"} => workers[w].stage = "prepare"
       /\ workers[w].pc \in {"check", "call"} => workers[w].stage \in Stages
       /\ workers[w].pc = "advance" => workers[w].stage # "prepare"
       /\ workers[w].pc = "requeue" => workers[w].attempt < MaxAttempts
       /\ Owns(w) \/ workers[w].pc = "loaded" =>
            (workers[w].dirty <=> workers[w].pc = "requeue")
  /\ \A d \in Dispatchers : dispatchers[d].pc # "idle" => dispatchers[d].scan \in Scans
  /\ \A c \in Cancellers : cancels[c].pc # "idle" => cancels[c].scan \in Scans

\* The inductive invariant behind the ownership of scans: exclusive ownership is
\* kept because a claim needs a QUEUED row, which the owner of a scan never sees,
\* and a QUEUED row is there to be claimed because it has an attempt left.
OwnershipInv ==
  /\ TypeOK
  /\ PlacesInv
  /\ SingleOwner
  /\ OwnerKnowsItsScan
  /\ QueuedHasOutboxRow

\* Workers and outbox rows never run ahead of the scans table: an attempt has a row,
\* a locked row or a worker only if the scan exists and has come that far; and an
\* idle worker has nothing flushed.
NothingRunsAhead ==
  /\ \A s \in Scans, a \in Attempts : outbox[s][a] # "none" =>
       scans[s].status # "ABSENT" /\ a <= scans[s].attempt
  /\ \A d \in Dispatchers : dispatchers[d].pc # "idle" =>
       outbox[dispatchers[d].scan][dispatchers[d].attempt] # "none"
  /\ \A w \in Workers : workers[w].pc # "idle" =>
       /\ scans[workers[w].scan].status # "ABSENT"
       /\ workers[w].attempt <= scans[workers[w].scan].attempt
  /\ \A w \in Workers : workers[w].dirty => workers[w].pc # "idle"

\* The attempt of an owner has no outbox row yet, and no other worker has one
\* flushed for it: what is flushed elsewhere is a row of an earlier attempt.
OwnAttemptHasNoRow ==
  \A v \in Workers : Owns(v) =>
    /\ outbox[workers[v].scan][workers[v].attempt] = "none"
    /\ \A w \in Workers :
         workers[w].dirty /\ w # v /\ workers[w].scan = workers[v].scan =>
           workers[w].attempt < workers[v].attempt

\* A request cancels a scan that was there when it read it.
CancelsWhatExists ==
  \A c \in Cancellers : cancels[c].pc = "transition" => cancels[c].status # "ABSENT"

\* A worker that is done with its scan, or has found its belief stale in a handler,
\* leaves behind no attempt of its own in an executing status; and a request that
\* goes on to the broker has cancelled the scan.
LetGo ==
  /\ \A w \in Workers : workers[w].pc \in {"stale", "cleanup"} =>
       LET row == scans[workers[w].scan] IN
       row.status \in ExecutingStatuses => row.attempt > workers[w].attempt
  /\ \A c \in Cancellers : cancels[c].pc = "revoke" =>
       scans[cancels[c].scan].status = "CANCELLED"

\* Without faults, a QUEUED scan whose row was sent, recorded or not yet, has a
\* message or a worker until it is claimed.
SentIsDelivered ==
  faults = 0 =>
    \A s \in Scans :
      /\ scans[s].status = "QUEUED"
      /\ \/ outbox[s][scans[s].attempt] = "published"
         \/ \E d \in Dispatchers :
              /\ dispatchers[d].pc = "sent"
              /\ dispatchers[d].scan = s
              /\ dispatchers[d].attempt = scans[s].attempt
      => Delivered(s)

\* The inductive invariant behind the dispatch of scans: a row is flushed once per
\* attempt because every claim opens an attempt no row was ever made for, and a
\* message is used up by the worker that reads the attempt it was sent for.
DispatchInv ==
  /\ OwnershipInv
  /\ NothingRunsAhead
  /\ OwnAttemptHasNoRow
  /\ CancelsWhatExists
  /\ LetGo
  /\ SentIsDelivered

\* FOR UPDATE SKIP LOCKED: no two ticks of the dispatcher work on one outbox row.
LocksAreExclusive ==
  \A c, d \in Dispatchers :
    /\ dispatchers[c].pc # "idle" /\ dispatchers[d].pc # "idle"
    /\ dispatchers[c].scan = dispatchers[d].scan
    /\ dispatchers[c].attempt = dispatchers[d].attempt
    => c = d

\* What a tick has read of its row before the send is still so when it records it.
ClaimIsCurrent ==
  \A d \in Dispatchers : dispatchers[d].pc # "idle" =>
    outbox[dispatchers[d].scan][dispatchers[d].attempt] = "pending"

\* A row that waits in a worker's session is not in the table, and waits in no other
\* session: its commit cannot violate UNIQUE(tenant_id, scan_id, scan_attempt).
FlushedRowIsNew ==
  \A v \in Workers : workers[v].dirty =>
    /\ outbox[workers[v].scan][workers[v].attempt] = "none"
    /\ \A w \in Workers :
         /\ workers[w].dirty
         /\ workers[w].scan = workers[v].scan
         /\ workers[w].attempt = workers[v].attempt
         => w = v

\* The inductive invariant behind the delivery of outbox rows: every row is written
\* once, by the one session that has it, and published under the one lock it was
\* sent under.
OutboxInv ==
  /\ DispatchInv
  /\ LocksAreExclusive
  /\ ClaimIsCurrent
  /\ FlushedRowIsNew

\* CHECK terminal_timestamps_mutually_exclusive, and more than it asks for: the one
\* terminal timestamp of a row is that of its status, and no row that waits or runs
\* has one.
StampsTellTheOutcome ==
  \A s \in Scans :
    scans[s].stamps \cap TerminalTimestamps =
      IF scans[s].status \in TerminalStatuses THEN StampsOf(scans[s].status) ELSE {}

\* A row that exists was queued, and one that is past its preparation or has
\* succeeded was started: no CHECK compares a timestamp with a missing one.
StampsKeepUp ==
  \A s \in Scans :
    /\ scans[s].status # "ABSENT" => "queued_at" \in scans[s].stamps
    /\ scans[s].status \in {"RUNNING", "COLLECTING", "PROCESSING", "SUCCEEDED"} =>
         "started_at" \in scans[s].stamps

\* A retry is of a scan that has ended without success, and stays so: no original
\* runs again, or succeeds after all, beside its retry.
RetriesAreOfEnded ==
  \A s \in Scans : scans[s].retryOf # None =>
    /\ scans[s].retryOf \in Scans \ {s}
    /\ scans[scans[s].retryOf].status \in RetryableStatuses

\* The inductive invariant of single rows.
RowsInv ==
  /\ StampsTellTheOutcome
  /\ StampsKeepUp
  /\ RetriesAreOfEnded

-----------------------------------------------------------------------------
(* Statements of the documentation and of comments                           *)

\* "On expiry, the scan transitions to TIMED_OUT" (docs/orchestrator.md:210), or was
\* cancelled first: an expired scan has ended when its handler has.
ExpiryEndsTheScan ==
  [][\A w \in Workers :
       workers[w].pc = "timed_out" /\ workers'[w].pc \in {"cleanup", "abort"} =>
         scans'[workers[w].scan].status \in TerminalStatuses]_vars

-----------------------------------------------------------------------------
(* Refinement: the holders of a scan are the workers between a claim and the *)
(* end of the claimed attempt.                                               *)

PhaseOf(status) ==
  CASE status = "ABSENT"             -> "absent"
    [] status \in {"PENDING", "QUEUED"} -> "waiting"
    [] status \in ExecutingStatuses  -> "started"
    [] OTHER                         -> status

Lease == INSTANCE ScanLease WITH
  phase   <- [s \in Scans |-> PhaseOf(scans[s].status)],
  attempt <- [s \in Scans |-> scans[s].attempt],
  holders <- [s \in Scans |-> {w \in Workers : Owns(w) /\ workers[w].scan = s}]

\* The tables, the queue and the orchestrator together hand each scan to one worker
\* at a time and keep its outcome: they implement the lease.
ImplementsLease == Lease!Spec
=============================================================================
