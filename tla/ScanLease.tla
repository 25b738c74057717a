------------------------------ MODULE ScanLease -----------------------------
(***************************************************************************)
(* What the scan engine promises: a scan is handed to one worker at a time,*)
(* for at most MaxAttempts attempts, until an outcome is recorded that     *)
(* nothing changes any more. There is no table, no queue and no message    *)
(* here, only who holds the scan.                                          *)
(***************************************************************************)
EXTENDS Naturals

CONSTANTS Scans, Workers, MaxAttempts

Endings == {"SUCCEEDED", "FAILED", "CANCELLED", "TIMED_OUT"}

VARIABLES
  phase,    \* absent, waiting, started, or how the scan ended
  attempt,  \* the attempts handed out
  holders   \* the workers at work on the scan

vars == <<phase, attempt, holders>>

Init ==
  /\ phase = [s \in Scans |-> "absent"]
  /\ attempt = [s \in Scans |-> 0]
  /\ holders = [s \in Scans |-> {}]

Submit(s) ==
  /\ phase[s] = "absent"
  /\ phase' = [phase EXCEPT ![s] = "waiting"]
  /\ attempt' = [attempt EXCEPT ![s] = 0]
  /\ UNCHANGED holders

\* A free worker takes a waiting scan that nobody holds.
Acquire(s, w) ==
  /\ phase[s] = "waiting"
  /\ attempt[s] < MaxAttempts
  /\ holders[s] = {}
  /\ \A r \in Scans : w \notin holders[r]
  /\ phase' = [phase EXCEPT ![s] = "started"]
  /\ attempt' = [attempt EXCEPT ![s] = @ + 1]
  /\ holders' = [holders EXCEPT ![s] = {w}]

\* The holder gives the scan back for another attempt.
Requeue(s, w) ==
  /\ phase[s] = "started"
  /\ attempt[s] < MaxAttempts
  /\ w \in holders[s]
  /\ phase' = [phase EXCEPT ![s] = "waiting"]
  /\ holders' = [holders EXCEPT ![s] = @ \ {w}]
  /\ UNCHANGED attempt

\* The holder records how the scan ended.
Finish(s, w, ending) ==
  /\ phase[s] = "started"
  /\ w \in holders[s]
  /\ phase' = [phase EXCEPT ![s] = ending]
  /\ holders' = [holders EXCEPT ![s] = @ \ {w}]
  /\ UNCHANGED attempt

\* The scan ends while it waits, or is cancelled under its holder's feet.
End(s, ending) ==
  /\ \/ phase[s] = "waiting" /\ ending \in {"FAILED", "CANCELLED"}
     \/ phase[s] = "started" /\ ending = "CANCELLED"
  /\ phase' = [phase EXCEPT ![s] = ending]
  /\ UNCHANGED <<attempt, holders>>

\* The holder stops without recording anything: the scan was cancelled, or it died.
LetGo(s, w) ==
  /\ w \in holders[s]
  /\ holders' = [holders EXCEPT ![s] = @ \ {w}]
  /\ UNCHANGED <<phase, attempt>>

Next ==
  \E s \in Scans :
    \/ Submit(s)
    \/ \E ending \in Endings : End(s, ending)
    \/ \E w \in Workers :
         \/ Acquire(s, w)
         \/ Requeue(s, w)
         \/ LetGo(s, w)
         \/ \E ending \in Endings : Finish(s, w, ending)

Spec == Init /\ [][Next]_vars
=============================================================================
