-------------------------- MODULE OutboxDispatcher --------------------------
(***************************************************************************)
(* The dispatch_pending_outbox task: ticks of several processes that drain *)
(* the scan_job_outbox table in the order of created_at, a batch at a      *)
(* time, one row and one transaction after the other.                      *)
(*                                                                         *)
(* ScanEngine has the dispatcher as part of the life of a scan and leaves  *)
(* the order of the rows open; here are the order, the batch and the       *)
(* attempt counter.                                                        *)
(***************************************************************************)
EXTENDS Naturals, FiniteSets

CONSTANTS
  NumRows,      \* the rows that may be written
  Dispatchers,  \* processes that run the task
  BatchSize,    \* scan_outbox_dispatch_batch_size
  MaxFailures,  \* bound: sends the broker refuses
  MaxFaults     \* bound: crashes, and errors between a claim and its commit

ASSUME OutboxDispatcherAssumption ==
  /\ NumRows \in Nat
  /\ BatchSize \in Nat \ {0}
  /\ MaxFailures \in Nat
  /\ MaxFaults \in Nat

\* A row is named by its place in the order of created_at. That is the start of the
\* transaction which writes it: an older row may be committed after a younger one.
Rows == 1 .. NumRows

NoRow == 0

VARIABLES
  table,        \* each row's state and attempt_count
  dispatchers,  \* each process's place, the row it claimed and its batch
  sends,        \* the messages sent for each row
  refused,      \* the sends the broker refused, for each row
  crashes,      \* messages whose record was lost because a process died
  errors        \* messages whose record was lost to an error

vars == <<table, dispatchers, sends, refused, crashes, errors>>

Idle ==
  [pc |-> "idle", row |-> NoRow, attempts |-> 0, left |-> 0]

Init ==
  /\ table = [r \in Rows |-> [state |-> "none", attempts |-> 0]]
  /\ dispatchers = [d \in Dispatchers |-> Idle]
  /\ sends = [r \in Rows |-> 0]
  /\ refused = [r \in Rows |-> 0]
  /\ crashes = 0
  /\ errors = 0

\* The transaction of a scan's QUEUED transition commits with the row.
Write(r) ==
  /\ table[r].state = "none"
  /\ table' = [table EXCEPT ![r].state = "pending"]
  /\ UNCHANGED <<dispatchers, sends, refused, crashes, errors>>

\* Celery beat sends the task at every interval; other ticks may still be running.
StartTick(d) ==
  /\ dispatchers[d].pc = "idle"
  /\ dispatchers' = [dispatchers EXCEPT ![d] = [Idle EXCEPT !.pc = "claim", !.left = BatchSize]]
  /\ UNCHANGED <<table, sends, refused, crashes, errors>>

Locked(r) == \E d \in Dispatchers : dispatchers[d].row = r

\* Mutant of Claimable: FOR UPDATE SKIP LOCKED is left out.
Claimable_IgnoresLocks == {r \in Rows : table[r].state = "pending"}

Claimable == {r \in Rows : table[r].state = "pending" /\ ~Locked(r)}

\* claim_next_pending. The object carries attempt_count as it is now.
Claim(d) ==
  /\ dispatchers[d].pc = "claim"
  /\ dispatchers[d].left > 0
  /\ \E r \in Claimable :
       /\ \A q \in Claimable : r <= q
       /\ dispatchers' = [dispatchers EXCEPT ![d].pc = "claimed", ![d].row = r,
                                             ![d].attempts = table[r].attempts,
                                             ![d].left = @ - 1]
  /\ UNCHANGED <<table, sends, refused, crashes, errors>>

\* The batch is used up, or there is nothing to claim: rollback.
EndTick(d) ==
  /\ dispatchers[d].pc = "claim"
  /\ dispatchers[d].left = 0 \/ Claimable = {}
  /\ dispatchers' = [dispatchers EXCEPT ![d] = Idle]
  /\ UNCHANGED <<table, sends, refused, crashes, errors>>

Send(d) ==
  /\ dispatchers[d].pc = "claimed"
  /\ sends' = [sends EXCEPT ![dispatchers[d].row] = @ + 1]
  /\ dispatchers' = [dispatchers EXCEPT ![d].pc = "sent"]
  /\ UNCHANGED <<table, refused, crashes, errors>>

\* _dispatch_one has returned True, for a publish and for a failed attempt alike: the
\* tick goes on with the oldest pending row, which may be the one just refused.
Onward(d) == [dispatchers EXCEPT ![d].pc = "claim", ![d].row = NoRow]

\* Mutant of SendRefused: published_at is set although the send failed.
SendRefused_MarksPublished(d) ==
  /\ dispatchers[d].pc = "claimed"
  /\ refused[dispatchers[d].row] < MaxFailures
  /\ refused' = [refused EXCEPT ![dispatchers[d].row] = @ + 1]
  /\ table' = [table EXCEPT ![dispatchers[d].row] =
       [state |-> "published", attempts |-> dispatchers[d].attempts + 1]]
  /\ dispatchers' = Onward(d)
  /\ UNCHANGED <<sends, crashes, errors>>

\* enqueue_scan raises: mark_failed_attempt and its commit.
SendRefused(d) ==
  /\ dispatchers[d].pc = "claimed"
  /\ refused[dispatchers[d].row] < MaxFailures
  /\ refused' = [refused EXCEPT ![dispatchers[d].row] = @ + 1]
  /\ table' = [table EXCEPT ![dispatchers[d].row].attempts = dispatchers[d].attempts + 1]
  /\ dispatchers' = Onward(d)
  /\ UNCHANGED <<sends, crashes, errors>>

\* The scan's job_id, mark_published and their commit.
Record(d) ==
  /\ dispatchers[d].pc = "sent"
  /\ table' = [table EXCEPT ![dispatchers[d].row] =
       [state |-> "published", attempts |-> dispatchers[d].attempts + 1]]
  /\ dispatchers' = Onward(d)
  /\ UNCHANGED <<sends, refused, crashes, errors>>

\* Reading or updating the scan for its job_id, or recording the publish, fails: the
\* exception ends the task and its transaction is rolled back.
RecordFails(d) ==
  /\ dispatchers[d].pc = "sent"
  /\ crashes + errors < MaxFaults
  /\ errors' = errors + 1
  /\ dispatchers' = [dispatchers EXCEPT ![d] = Idle]
  /\ UNCHANGED <<table, sends, refused, crashes>>

\* The process dies with a message sent and not recorded.
Crash(d) ==
  /\ dispatchers[d].pc = "sent"
  /\ crashes + errors < MaxFaults
  /\ crashes' = crashes + 1
  /\ dispatchers' = [dispatchers EXCEPT ![d] = Idle]
  /\ UNCHANGED <<table, sends, refused, errors>>

DispatcherStep(d) ==
  \/ StartTick(d)
  \/ Claim(d)
  \/ EndTick(d)
  \/ Send(d)
  \/ SendRefused(d)
  \/ Record(d)

Next ==
  \/ \E r \in Rows : Write(r)
  \/ \E d \in Dispatchers : DispatcherStep(d) \/ RecordFails(d) \/ Crash(d)

Spec == Init /\ [][Next]_vars

\* Beat starts tick after tick, and a tick that runs is scheduled.
FairSpec == Spec /\ \A d \in Dispatchers : WF_vars(DispatcherStep(d))

-----------------------------------------------------------------------------
(* Properties                                                                *)

\* The types; a dispatcher names a row exactly while it holds its lock, and the row
\* is still to be published.
TypeOK ==
  /\ table \in [Rows -> [state : {"none", "pending", "published"}, attempts : Nat]]
  /\ dispatchers \in
       [Dispatchers ->
         [pc : {"idle", "claim", "claimed", "sent"}, row : Rows \cup {NoRow},
          attempts : Nat, left : 0 .. BatchSize]]
  /\ sends \in [Rows -> Nat]
  /\ refused \in [Rows -> 0 .. MaxFailures]
  /\ crashes \in Nat
  /\ errors \in Nat
  /\ crashes + errors \in 0 .. MaxFaults
  /\ \A d \in Dispatchers :
       dispatchers[d].row # NoRow <=> dispatchers[d].pc \in {"claimed", "sent"}

\* attempt_count is read at the claim and written at the commit, and still counts
\* every attempt: unless a record was lost it is the number of sends and refusals.
EveryAttemptIsCounted ==
  crashes + errors = 0 =>
    \A r \in Rows : ~Locked(r) => table[r].attempts = sends[r] + refused[r]

\* A message for the row was sent and is not recorded yet.
Open(r) == \E d \in Dispatchers : dispatchers[d].pc = "sent" /\ dispatchers[d].row = r

\* No two ticks have the lock of one row.
LocksAreExclusive ==
  \A c, d \in Dispatchers :
    dispatchers[c].row = dispatchers[d].row /\ dispatchers[c].row # NoRow => c = d

\* What a tick has read of the row it claimed is still so: nobody else publishes it
\* or counts an attempt.
ClaimIsCurrent ==
  \A d \in Dispatchers : dispatchers[d].row # NoRow =>
    /\ table[dispatchers[d].row].state = "pending"
    /\ table[dispatchers[d].row].attempts = dispatchers[d].attempts

\* attempt_count lags behind by the message that is not recorded yet.
CountLagsByOne ==
  crashes + errors = 0 =>
    \A r \in Rows :
      sends[r] + refused[r] = table[r].attempts + (IF Open(r) THEN 1 ELSE 0)

\* The inductive invariant: the row lock is what makes reading attempt_count at the
\* claim and writing it at the commit safe.
DispatchInv == TypeOK /\ LocksAreExclusive /\ ClaimIsCurrent /\ CountLagsByOne

-----------------------------------------------------------------------------
(* Refinement                                                                *)

Delivery == INSTANCE OutboxDelivery WITH
  MaxLost <- MaxFaults,
  row     <- [r \in Rows |-> table[r].state],
  open    <- {r \in Rows : Open(r)},
  lost    <- crashes + errors

\* The dispatchers implement at-least-once delivery: every committed row is sent and
\* recorded in the end, and sent again only if a record was lost.
ImplementsDelivery == Delivery!Spec

\* The part of it that needs no fairness.
ImplementsDeliverySteps == Delivery!SafeSpec
=============================================================================
