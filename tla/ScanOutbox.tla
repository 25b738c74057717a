----------------------------- MODULE ScanOutbox -----------------------------
(***************************************************************************)
(* What the scan engine promises of scan_job_outbox, whoever writes the    *)
(* rows: the request that creates a scan, the transition that re-queues    *)
(* one, or a session that commits a row left over from a lost re-queue.    *)
(*                                                                         *)
(* The messages of each row and the records that were lost are counted in  *)
(* two history variables. They are read off each step of ScanEngine and    *)
(* restrict none; OutboxDelivery is then a refinement of the whole engine. *)
(***************************************************************************)
EXTENDS ScanEngine

VARIABLES
  sends,  \* history: the messages sent for each outbox row
  lost    \* history: the messages whose publication was never recorded

Rows == Scans \X Attempts

\* The dispatcher has the row locked and its message is on the queue.
HasSent(d, r) ==
  /\ dispatchers[d].pc = "sent"
  /\ dispatchers[d].scan = r[1]
  /\ dispatchers[d].attempt = r[2]

OpenRows == {r \in Rows : \E d \in Dispatchers : HasSent(d, r)}

RowState(r) == outbox[r[1]][r[2]]

\* A message of the row goes to the queue in this step.
IsSent(r) ==
  \E d \in Dispatchers : dispatchers[d].pc = "claimed" /\ HasSent(d, r)'

\* The dispatcher gives the row up, and the row is not published.
IsLost(r) ==
  \E d \in Dispatchers :
    HasSent(d, r) /\ dispatchers'[d].pc = "idle" /\ RowState(r)' # "published"

Count ==
  /\ sends' = [r \in Rows |-> IF IsSent(r) THEN sends[r] + 1 ELSE sends[r]]
  /\ lost' = IF \E r \in Rows : IsLost(r) THEN lost + 1 ELSE lost

countedVars == <<vars, sends, lost>>

CountedInit ==
  /\ Init
  /\ sends = [r \in Rows |-> 0]
  /\ lost = 0

CountedNext == Next /\ Count

CountedSpec == CountedInit /\ [][CountedNext]_countedVars

FairCountedSpec == CountedSpec /\ Fairness

-----------------------------------------------------------------------------

Delivery == INSTANCE OutboxDelivery WITH
  MaxLost <- MaxFaults,
  row     <- [r \in Rows |-> RowState(r)],
  open    <- OpenRows

\* Every outbox row, of a first attempt or of a retry, is written once, sent only
\* while it is pending, recorded once, sent again only after a record of it was lost,
\* and published in the end: workers, requests and dispatchers together implement
\* at-least-once delivery.
EngineImplementsDelivery == Delivery!Spec

\* The part of it that needs no fairness.
EngineImplementsDeliverySteps == Delivery!SafeSpec

\* A row of the outbox has as many messages as its deliveries need: none before it is
\* written, one at least when it is published, and one more than the lost records at
\* the most, while a message is open or once it was published.
SendsFollowLosses ==
  \A r \in Rows :
    /\ RowState(r) = "none" => sends[r] = 0
    /\ RowState(r) = "published" \/ r \in OpenRows => sends[r] > 0
    /\ sends[r] <= lost + 1
    /\ RowState(r) = "pending" /\ r \notin OpenRows => sends[r] <= lost

\* The inductive invariant of the history: every loss is a fault of the engine.
CountInv ==
  /\ OutboxInv
  /\ sends \in [Rows -> Nat]
  /\ lost \in Nat /\ lost <= faults
  /\ SendsFollowLosses
=============================================================================
