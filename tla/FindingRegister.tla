--------------------------- MODULE FindingRegister --------------------------
(***************************************************************************)
(* What the finding pipeline promises of the findings of one asset: each   *)
(* detection of a scan is entered at once, in the scan's order, with its   *)
(* audit event; the first one of a fingerprint stays the first, and a scan *)
(* succeeds only when all of its own are in. There are no sessions, locks  *)
(* or transactions here.                                                   *)
(***************************************************************************)
EXTENDS Naturals, Sequences

CONSTANTS Scans, Fingerprints, Detections, NoRow

VARIABLES
  register,  \* the scans of the first and of the last detection of a fingerprint
  trail,     \* the audit events
  entered,   \* how many of its detections each scan has entered
  outcome    \* running, succeeded or failed

vars == <<register, trail, entered, outcome>>

Init ==
  /\ register = [f \in Fingerprints |-> NoRow]
  /\ trail = {}
  /\ entered = [s \in Scans |-> 0]
  /\ outcome = [s \in Scans |-> "running"]

\* A detection of a known fingerprint may pass for the first one, as two scans can make
\* it at a time; but never the other way round.
Enter(s) ==
  LET i == entered[s] + 1
      f == Detections[s][i]
  IN
  /\ outcome[s] = "running"
  /\ i \in DOMAIN Detections[s]
  /\ register' = [register EXCEPT ![f] =
       IF @ = NoRow THEN [first |-> s, last |-> s] ELSE [@ EXCEPT !.last = s]]
  /\ \E action \in {"detected", "redetected"} :
       /\ register[f] = NoRow => action = "detected"
       /\ trail' = trail \cup {[scan |-> s, index |-> i, fingerprint |-> f, action |-> action]}
  /\ entered' = [entered EXCEPT ![s] = i]
  /\ UNCHANGED outcome

End(s) ==
  /\ outcome[s] = "running"
  /\ \E end \in {"succeeded", "failed"} :
       /\ end = "succeeded" => entered[s] = Len(Detections[s])
       /\ outcome' = [outcome EXCEPT ![s] = end]
  /\ UNCHANGED <<register, trail, entered>>

Next == \E s \in Scans : Enter(s) \/ End(s)

Spec == Init /\ [][Next]_vars
=============================================================================
