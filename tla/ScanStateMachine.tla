-------------------------- MODULE ScanStateMachine --------------------------
(***************************************************************************)
(* The scan state machine (app/scan_engine/state_machine.py) as constant   *)
(* operators: the statuses, the edges, and the row an edge produces.       *)
(* A scan that has not been inserted has the status "ABSENT"; it is not a  *)
(* value of the database column.                                           *)
(***************************************************************************)
EXTENDS Naturals

TerminalStatuses == {"SUCCEEDED", "FAILED", "CANCELLED", "TIMED_OUT"}

\* The statuses of a scan some worker has claimed and not yet released.
ExecutingStatuses == {"PREPARING", "RUNNING", "COLLECTING", "PROCESSING"}

ScanStatus == {"PENDING", "QUEUED"} \cup ExecutingStatuses \cup TerminalStatuses

\* _VALID_TRANSITIONS: the targets `assert_valid` accepts from a status.
ValidTransitions ==
  [ PENDING    |-> {"QUEUED", "CANCELLED"},
    QUEUED     |-> {"PREPARING", "CANCELLED", "FAILED"},
    PREPARING  |-> {"RUNNING", "QUEUED", "CANCELLED", "FAILED", "TIMED_OUT"},
    RUNNING    |-> {"COLLECTING", "QUEUED", "CANCELLED", "FAILED", "TIMED_OUT"},
    COLLECTING |-> {"PROCESSING", "QUEUED", "CANCELLED", "FAILED", "TIMED_OUT"},
    PROCESSING |-> {"SUCCEEDED", "FAILED", "CANCELLED"},
    SUCCEEDED  |-> {},
    FAILED     |-> {},
    CANCELLED  |-> {},
    TIMED_OUT  |-> {} ]

TerminalTimestamps == {"completed_at", "failed_at", "cancelled_at", "timed_out_at"}

Timestamps == {"queued_at", "started_at"} \cup TerminalTimestamps

\* The timestamp columns `transition` sets on the way to `target`. A column
\* that is set already is not set again, which a set of columns absorbs.
StampsOf(target) ==
  CASE target = "QUEUED"    -> {"queued_at"}
    [] target = "RUNNING"   -> {"started_at"}
    [] target = "SUCCEEDED" -> {"completed_at"}
    [] target = "FAILED"    -> {"failed_at"}
    [] target = "CANCELLED" -> {"cancelled_at"}
    [] target = "TIMED_OUT" -> {"timed_out_at"}
    [] OTHER                -> {}

\* The row the conditional UPDATE of `transition` leaves behind.
Moved(row, target) ==
  [row EXCEPT !.status = target, !.stamps = @ \cup StampsOf(target)]

\* Mutant of TransitionResult: a plain UPDATE by id.
TransitionResult_Unconditional(row, believed, target) ==
  IF target \notin ValidTransitions[believed] THEN "invalid" ELSE "ok"

\* What a call of `transition` does, for a caller that believes the row to be in
\* `believed`: assert_valid looks at the belief alone, and only then does the
\* WHERE clause of the UPDATE compare it with the row.
TransitionResult(row, believed, target) ==
  IF target \notin ValidTransitions[believed] THEN "invalid"
  ELSE IF row.status # believed THEN "stale"
  ELSE "ok"
=============================================================================
