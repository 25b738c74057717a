-------------------------- MODULE FindingPipeline ---------------------------
(***************************************************************************)
(* FindingPipeline.process in the workers of several scans of one asset,   *)
(* over the `findings` and `audit_events` tables.                          *)
(*                                                                         *)
(* One step is one database statement. A session sees what is committed    *)
(* and what it has flushed itself; an INSERT or UPDATE of a row another    *)
(* transaction has written waits for that transaction to end. A session    *)
(* never reloads the attributes of an object it holds (the sessions are    *)
(* made with expire_on_commit=False, and no query says populate_existing). *)
(***************************************************************************)
EXTENDS Naturals, Sequences

CONSTANTS
  Scans,         \* the scans of the asset that are in PROCESSING, one worker each
  Fingerprints,  \* what compute_fingerprint returns for their findings
  Detections,    \* each scan's normalized findings, by fingerprint
  MaxFaults,     \* bound: crashes and infrastructure errors
  NoRow,         \* no row, nothing flushed
  None           \* no object in the session

ASSUME FindingPipelineAssumption ==
  /\ Detections \in [Scans -> Seq(Fingerprints)]
  /\ MaxFaults \in Nat
  /\ NoRow \notin [first : Scans, last : Scans, scan : Scans]
  /\ NoRow \notin [first : Scans, last : Scans]
  /\ None \notin Scans

VARIABLES
  findings,  \* the committed row of each fingerprint
  audit,     \* the committed audit events
  runs,      \* each scan's place in process() and its session
  faults     \* faults so far

vars == <<findings, audit, runs, faults>>

\* A row's first_seen_at and last_seen_at, as the scan whose detection set them, and
\* its scan_id.
Row == [first : Scans, last : Scans, scan : Scans]

AuditEvent ==
  [scan : Scans, index : Nat \ {0}, fingerprint : Fingerprints,
   action : {"detected", "redetected"}]

\* The places of a run. `broken`: a subscriber's failure was swallowed and the
\* session refuses every further use.
RunPlaces ==
  {"lookup", "record", "insert", "update", "publish", "finish", "broken", "done",
   "failed"}

Init ==
  /\ findings = [f \in Fingerprints |-> NoRow]
  /\ audit = {}
  /\ runs = [s \in Scans |->
       [pc |-> IF Detections[s] = <<>> THEN "finish" ELSE "lookup", next |-> 1,
        redetection |-> FALSE,
        view    |-> [f \in Fingerprints |-> None],   \* scan_id of the objects held
        flushed |-> [f \in Fingerprints |-> NoRow],  \* rows not committed yet
        events  |-> {}]]                             \* audit events not committed yet
  /\ faults = 0

Current(s) == Detections[s][runs[s].next]

\* The row a SELECT of run s returns.
Visible(s, f) ==
  IF runs[s].flushed[f] # NoRow THEN runs[s].flushed[f] ELSE findings[f]

\* get_by_fingerprint: an object that the session holds already is returned as it is.
Loaded(s, f) ==
  IF Visible(s, f) # NoRow /\ runs[s].view[f] = None
  THEN [runs[s].view EXCEPT ![f] = Visible(s, f).scan]
  ELSE runs[s].view

\* Another transaction has written the row or the key.
LockedByOther(s, f) == \E r \in Scans \ {s} : runs[r].flushed[f] # NoRow

\* The first lookup of process(): it decides the audit action and the event.
Lookup(s) ==
  LET f == Current(s) IN
  /\ runs[s].pc = "lookup"
  /\ runs' = [runs EXCEPT ![s] =
       [@ EXCEPT !.pc = "record",
                 !.redetection = Visible(s, f) # NoRow,
                 !.view = Loaded(s, f)]]
  /\ UNCHANGED <<findings, audit, faults>>

\* Mutant of RecordLookup: process() asks whether the fingerprint is known only after
\* it has recorded the detection.
RecordLookup_LateAction(s) ==
  LET f == Current(s) IN
  /\ runs[s].pc = "record"
  /\ runs' = [runs EXCEPT ![s] =
       [@ EXCEPT !.pc = IF Visible(s, f) = NoRow THEN "insert" ELSE "update",
                 !.redetection = TRUE,
                 !.view = Loaded(s, f)]]
  /\ UNCHANGED <<findings, audit, faults>>

\* The second lookup, in record_detection: it decides between INSERT and UPDATE.
RecordLookup(s) ==
  LET f == Current(s) IN
  /\ runs[s].pc = "record"
  /\ runs' = [runs EXCEPT ![s] =
       [@ EXCEPT !.pc = IF Visible(s, f) = NoRow THEN "insert" ELSE "update",
                 !.view = Loaded(s, f)]]
  /\ UNCHANGED <<findings, audit, faults>>

\* The audit event that goes with the detection, flushed in the same transaction.
Flushed(s, f, row) ==
  [runs[s] EXCEPT !.pc = "publish",
                  !.view[f] = s,
                  !.flushed[f] = row,
                  !.events = @ \cup
                    {[scan |-> s, index |-> runs[s].next, fingerprint |-> f,
                      action |-> IF runs[s].redetection THEN "redetected" ELSE "detected"]}]

\* Nothing the run flushed survives.
RolledBack(s, place) ==
  [runs[s] EXCEPT !.pc = place,
                  !.flushed = [f \in Fingerprints |-> NoRow],
                  !.events = {}]

\* Mutant of Insert: a conflict is tried again from the second lookup's INSERT.
Insert_RetriesConflict(s) ==
  LET f == Current(s) IN
  /\ runs[s].pc = "insert"
  /\ ~LockedByOther(s, f)
  /\ runs' = [runs EXCEPT ![s] =
       IF findings[f] = NoRow
       THEN Flushed(s, f, [first |-> s, last |-> s, scan |-> s])
       ELSE RolledBack(s, "insert")]
  /\ UNCHANGED <<findings, audit, faults>>

\* A fresh fingerprint. UNIQUE(tenant_id, asset_id, fingerprint) rejects the INSERT
\* if another run's is committed by now; process() raises and the task fails.
Insert(s) ==
  LET f == Current(s) IN
  /\ runs[s].pc = "insert"
  /\ ~LockedByOther(s, f)
  /\ runs' = [runs EXCEPT ![s] =
       IF findings[f] = NoRow
       THEN Flushed(s, f, [first |-> s, last |-> s, scan |-> s])
       ELSE RolledBack(s, "failed")]
  /\ UNCHANGED <<findings, audit, faults>>

\* Mutant of Update: a row that the scan has recorded before is not written again.
Update_SkipsOwn(s) ==
  LET f   == Current(s)
      row == Visible(s, f)
  IN
  /\ runs[s].pc = "update"
  /\ ~LockedByOther(s, f)
  /\ runs' = [runs EXCEPT ![s] = Flushed(s, f,
       IF runs[s].view[f] = s THEN row ELSE [row EXCEPT !.last = s, !.scan = s])]
  /\ UNCHANGED <<findings, audit, faults>>

\* A known fingerprint: last_seen_at, and scan_id if the object in the session holds
\* another one.
Update(s) ==
  LET f   == Current(s)
      row == Visible(s, f)
  IN
  /\ runs[s].pc = "update"
  /\ ~LockedByOther(s, f)
  /\ runs' = [runs EXCEPT ![s] = Flushed(s, f,
       [row EXCEPT !.last = s, !.scan = IF runs[s].view[f] = s THEN @ ELSE s])]
  /\ UNCHANGED <<findings, audit, faults>>

\* After the event of a detection: the next finding, or the end of process().
Onward(s) ==
  [runs[s] EXCEPT !.pc = IF runs[s].next < Len(Detections[s]) THEN "lookup" ELSE "finish",
                  !.next = @ + 1]

\* Mutant of Publish: the subscriber only flushes the event.
Publish_NoCommit(s) ==
  /\ runs[s].pc = "publish"
  /\ runs' = [runs EXCEPT ![s] = Onward(s)]
  /\ UNCHANGED <<findings, audit, faults>>

\* FindingCreated or FindingUpdated is published; its subscriber writes the event
\* and commits, and with it the finding and the audit event.
Publish(s) ==
  /\ runs[s].pc = "publish"
  /\ findings' = [f \in Fingerprints |-> Visible(s, f)]
  /\ audit' = audit \cup runs[s].events
  /\ runs' = [runs EXCEPT ![s] =
       [Onward(s) EXCEPT !.flushed = [f \in Fingerprints |-> NoRow], !.events = {}]]
  /\ UNCHANGED faults

\* Mutant of PublishFails: the bus rolls the session back and process() goes on.
PublishFails_RollsBack(s) ==
  /\ runs[s].pc = "publish"
  /\ faults < MaxFaults
  /\ faults' = faults + 1
  /\ runs' = [runs EXCEPT ![s] =
       [Onward(s) EXCEPT !.flushed = [f \in Fingerprints |-> NoRow], !.events = {}]]
  /\ UNCHANGED <<findings, audit>>

\* The subscriber's INSERT fails. The bus logs it and swallows it: process() goes
\* on with a session whose transaction is rolled back and has to be reset first.
PublishFails(s) ==
  /\ runs[s].pc = "publish"
  /\ faults < MaxFaults
  /\ faults' = faults + 1
  /\ runs' = [runs EXCEPT ![s] = RolledBack(s, "broken")]
  /\ UNCHANGED <<findings, audit>>

\* The next use of such a session raises, and so does every handler's.
BrokenSessionRaises(s) ==
  /\ runs[s].pc = "broken"
  /\ runs' = [runs EXCEPT ![s] = RolledBack(s, "failed")]
  /\ UNCHANGED <<findings, audit, faults>>

\* process() has returned: the orchestrator's transition to SUCCEEDED commits.
Finish(s) ==
  /\ runs[s].pc = "finish"
  /\ findings' = [f \in Fingerprints |-> Visible(s, f)]
  /\ audit' = audit \cup runs[s].events
  /\ runs' = [runs EXCEPT ![s] = RolledBack(s, "done")]
  /\ UNCHANGED faults

\* A statement fails or the worker dies: its transaction is rolled back.
RunFault(s) ==
  /\ runs[s].pc \notin {"broken", "done", "failed"}
  /\ faults < MaxFaults
  /\ faults' = faults + 1
  /\ runs' = [runs EXCEPT ![s] = RolledBack(s, "failed")]
  /\ UNCHANGED <<findings, audit>>

RunStep(s) ==
  \/ Lookup(s)
  \/ RecordLookup(s)
  \/ Insert(s)
  \/ Update(s)
  \/ Publish(s)
  \/ BrokenSessionRaises(s)
  \/ Finish(s)

Next == \E s \in Scans : RunStep(s) \/ PublishFails(s) \/ RunFault(s)

Spec == Init /\ [][Next]_vars

\* A worker goes on with its run, unless a lock makes it wait.
FairSpec == Spec /\ \A s \in Scans : WF_vars(RunStep(s))

-----------------------------------------------------------------------------
(* Properties                                                                *)

RunRecord ==
  [pc : RunPlaces, next : Nat \ {0}, redetection : BOOLEAN,
   view : [Fingerprints -> Scans \cup {None}],
   flushed : [Fingerprints -> Row \cup {NoRow}],
   events : SUBSET AuditEvent]

\* The types of the tables and sessions; a run counts no further than its findings,
\* and is past them exactly when process() has returned.
TypeOK ==
  /\ findings \in [Fingerprints -> Row \cup {NoRow}]
  /\ audit \subseteq AuditEvent
  /\ runs \in [Scans -> RunRecord]
  /\ faults \in 0 .. MaxFaults
  /\ \A s \in Scans :
       /\ runs[s].pc \in {"lookup", "record", "insert", "update", "publish"} =>
            runs[s].next \in DOMAIN Detections[s]
       /\ runs[s].pc \in {"finish", "done"} => runs[s].next = Len(Detections[s]) + 1

\* Workers never wait for one another in a circle: a run that may have to wait for a
\* row holds none, because every finding is committed before the next is looked up.
NoWaitCycle ==
  \A s \in Scans : runs[s].pc \in {"insert", "update"} =>
    \A f \in Fingerprints : runs[s].flushed[f] = NoRow

\* A finding's row never appears without the audit event of its detection: a row
\* that is there was detected, by the scan its first_seen_at is from.
CreationIsAudited ==
  \A f \in Fingerprints : findings[f] # NoRow =>
    \E e \in audit :
      e.scan = findings[f].first /\ e.fingerprint = f /\ e.action = "detected"

\* first_seen_at is never modified and no finding is ever lost (record_detection;
\* docs/data-model.md:169), although several workers may insert it.
FirstDetectionStays ==
  [][\A f \in Fingerprints : findings[f] # NoRow =>
       /\ findings'[f] # NoRow
       /\ findings'[f].first = findings[f].first]_vars

\* A scan that ends SUCCEEDED has recorded every one of its findings, each with an
\* audit event and a row, although the publisher swallows failures.
DoneMeansRecorded ==
  \A s \in Scans : runs[s].pc = "done" =>
    \A i \in DOMAIN Detections[s] :
      /\ findings[Detections[s][i]] # NoRow
      /\ \E e \in audit :
           e.scan = s /\ e.index = i /\ e.fingerprint = Detections[s][i]

\* Two runs never have the row of one fingerprint written and not committed.
WritesAreExclusive ==
  \A r, s \in Scans : \A f \in Fingerprints :
    runs[r].flushed[f] # NoRow /\ runs[s].flushed[f] # NoRow => r = s

\* What a run knows and holds at each place. Only a run about to publish holds
\* anything: the row and the audit event of its current finding, a new row exactly if
\* nobody has committed one. A row that a lookup has found is still there.
PlacesInv ==
  \A s \in Scans :
    /\ runs[s].pc # "publish" =>
         /\ runs[s].events = {}
         /\ \A f \in Fingerprints : runs[s].flushed[f] = NoRow
    /\ runs[s].pc = "record" /\ runs[s].redetection => findings[Current(s)] # NoRow
    /\ runs[s].pc = "insert" => ~runs[s].redetection
    /\ runs[s].pc = "update" => findings[Current(s)] # NoRow
    /\ runs[s].pc = "publish" =>
         /\ \A f \in Fingerprints : runs[s].flushed[f] # NoRow <=> f = Current(s)
         /\ runs[s].events =
              {[scan |-> s, index |-> runs[s].next, fingerprint |-> Current(s),
                action |-> IF runs[s].redetection THEN "redetected" ELSE "detected"]}
         /\ IF findings[Current(s)] = NoRow
            THEN runs[s].flushed[Current(s)].first = s /\ ~runs[s].redetection
            ELSE runs[s].flushed[Current(s)].first = findings[Current(s)].first
         /\ runs[s].flushed[Current(s)].last = s

\* The findings a run has passed are recorded, whatever happens to it later.
PassedIsRecorded ==
  \A s \in Scans : \A i \in DOMAIN Detections[s] : i < runs[s].next =>
    /\ findings[Detections[s][i]] # NoRow
    /\ \E e \in audit :
         e.scan = s /\ e.index = i /\ e.fingerprint = Detections[s][i]

\* The inductive invariant: what is committed is audited and complete because what
\* is about to be committed is, and because nobody else can commit it first.
RecordingInv ==
  /\ TypeOK
  /\ PlacesInv
  /\ WritesAreExclusive
  /\ CreationIsAudited
  /\ PassedIsRecorded

\* The rows and audit events of all runs together are a register of the detections: each
\* commit enters one with its event, in the order of the scan, for the newest and not the
\* first of its fingerprint; no failure enters half of one or loses one that is in.
Register == INSTANCE FindingRegister WITH
  register <- [f \in Fingerprints |->
                 IF findings[f] = NoRow
                 THEN NoRow ELSE [first |-> findings[f].first, last |-> findings[f].last]],
  trail    <- audit,
  entered  <- [s \in Scans |-> runs[s].next - 1],
  outcome  <- [s \in Scans |-> CASE runs[s].pc = "done" -> "succeeded"
                                 [] runs[s].pc = "failed" -> "failed"
                                 [] OTHER -> "running"]

ImplementsRegister == Register!Spec

\* Waiting for rows of other scans and conflicts with them come to an end: every
\* run ends.
EveryRunEnds == \A s \in Scans : <>(runs[s].pc \in {"done", "failed"})

=============================================================================
