--------------------------- MODULE OutboxDelivery ---------------------------
(***************************************************************************)
(* What the outbox promises: a committed row is delivered to the queue at  *)
(* least once, and once more only for a delivery whose record was lost.    *)
(* There are no dispatchers, locks or batches here.                        *)
(***************************************************************************)
EXTENDS Naturals

CONSTANTS Rows, MaxLost

VARIABLES
  row,    \* none, pending or published
  sends,  \* the messages sent for each row
  open,   \* the rows whose last message is not recorded and not lost
  lost    \* the records that were lost

vars == <<row, sends, open, lost>>

Init ==
  /\ row = [r \in Rows |-> "none"]
  /\ sends = [r \in Rows |-> 0]
  /\ open = {}
  /\ lost = 0

Write(r) ==
  /\ row[r] = "none"
  /\ row' = [row EXCEPT ![r] = "pending"]
  /\ UNCHANGED <<sends, open, lost>>

Send(r) ==
  /\ row[r] = "pending"
  /\ r \notin open
  /\ sends' = [sends EXCEPT ![r] = @ + 1]
  /\ open' = open \cup {r}
  /\ UNCHANGED <<row, lost>>

Record(r) ==
  /\ r \in open
  /\ row' = [row EXCEPT ![r] = "published"]
  /\ open' = open \ {r}
  /\ UNCHANGED <<sends, lost>>

\* The sender dies before it has recorded the message it sent.
Lose(r) ==
  /\ r \in open
  /\ lost < MaxLost
  /\ lost' = lost + 1
  /\ open' = open \ {r}
  /\ UNCHANGED <<row, sends>>

Next == \E r \in Rows : Write(r) \/ Send(r) \/ Record(r) \/ Lose(r)

\* What never happens; and with fairness, that every committed row is delivered.
SafeSpec == Init /\ [][Next]_vars

Spec ==
  /\ SafeSpec
  /\ \A r \in Rows : WF_vars(Send(r)) /\ WF_vars(Record(r))
=============================================================================
