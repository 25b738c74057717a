------------------------ MODULE FindingPipelineProofs -----------------------
(***************************************************************************)
(* Theorems about FindingPipeline, for any scans, any detections and any   *)
(* number of faults.                                                       *)
(***************************************************************************)
EXTENDS FindingPipeline, TLAPS

\* The conditions TypeOK and PlacesInv set on the record of one run.
PlaceOf(s, me) ==
  LET f == Detections[s][me.next] IN
  /\ me.pc \in {"lookup", "record", "insert", "update", "publish"} =>
       me.next \in DOMAIN Detections[s]
  /\ me.pc \in {"finish", "done"} => me.next = Len(Detections[s]) + 1
  /\ me.pc # "publish" => me.events = {} /\ \A g \in Fingerprints : me.flushed[g] = NoRow
  /\ me.pc = "record" /\ me.redetection => findings[f] # NoRow
  /\ me.pc = "insert" => ~me.redetection
  /\ me.pc = "update" => findings[f] # NoRow
  /\ me.pc = "publish" =>
       /\ \A g \in Fingerprints : me.flushed[g] # NoRow <=> g = f
       /\ me.events =
            {[scan |-> s, index |-> me.next, fingerprint |-> f,
              action |-> IF me.redetection THEN "redetected" ELSE "detected"]}
       /\ IF findings[f] = NoRow
          THEN me.flushed[f].first = s /\ ~me.redetection
          ELSE me.flushed[f].first = findings[f].first
       /\ me.flushed[f].last = s

LEMMA PlacesOfRuns ==
  ASSUME TypeOK
  PROVE  PlacesInv <=> \A s \in Scans : PlaceOf(s, runs[s])
BY DEF TypeOK, PlacesInv, PlaceOf, Current

\* What a run is about to handle is a fingerprint, and no row is NoRow.
LEMMA DetectionTypes ==
  /\ \A s \in Scans : /\ Detections[s] \in Seq(Fingerprints)
                      /\ DOMAIN Detections[s] = 1 .. Len(Detections[s])
                      /\ Len(Detections[s]) \in Nat
  /\ \A s \in Scans : \A i \in DOMAIN Detections[s] : Detections[s][i] \in Fingerprints
  /\ NoRow \notin Row
BY FindingPipelineAssumption DEF Row

\* The initial state is one of the invariant's.
LEMMA InitRecording == Init => RecordingInv
<1> SUFFICES ASSUME Init PROVE RecordingInv
  OBVIOUS
<1> USE DetectionTypes DEF Init
<1>0. \A s \in Scans : Detections[s] # <<>> => 1 \in DOMAIN Detections[s]
  OBVIOUS
<1>1. TypeOK
  <2>1. runs \in [Scans -> RunRecord]
    BY DEF RunRecord, RunPlaces
  <2>2. faults \in 0 .. MaxFaults
    BY FindingPipelineAssumption
  <2>3. ASSUME NEW s \in Scans
        PROVE  /\ runs[s].pc \in {"lookup", "record", "insert", "update", "publish"} =>
                    runs[s].next \in DOMAIN Detections[s]
               /\ runs[s].pc \in {"finish", "done"} =>
                    runs[s].next = Len(Detections[s]) + 1
    <3>1. CASE Detections[s] = <<>>
      <4>1. Len(Detections[s]) = 0
        BY <3>1
      <4> QED
        BY <3>1, <4>1
    <3>2. CASE Detections[s] # <<>>
      BY <1>0, <3>2
    <3> QED
      BY <3>1, <3>2
  <2> QED
    BY <2>1, <2>2, <2>3 DEF TypeOK
<1>2. PlacesInv
  BY DEF PlacesInv
<1>3. WritesAreExclusive /\ CreationIsAudited /\ PassedIsRecorded
  BY DEF WritesAreExclusive, CreationIsAudited, PassedIsRecorded
<1> QED
  BY <1>1, <1>2, <1>3 DEF RecordingInv

\* A step that changes nothing but the record of one run, within its finding.
LEMMA LocalStep ==
  ASSUME RecordingInv,
         NEW s \in Scans, NEW me \in RunRecord,
         runs' = [runs EXCEPT ![s] = me],
         UNCHANGED <<findings, audit>>,
         faults' \in 0 .. MaxFaults,
         me.next = runs[s].next,
         PlaceOf(s, me),
         \A f \in Fingerprints : me.flushed[f] # NoRow => ~LockedByOther(s, f)
  PROVE  RecordingInv'
<1> USE DEF RecordingInv
<1>0. runs'[s] = me /\ \A r \in Scans : r # s => runs'[r] = runs[r]
  BY DEF TypeOK
<1>1. \A r \in Scans : PlaceOf(r, runs'[r])
  BY <1>0, PlacesOfRuns
<1>2. TypeOK'
  <2>1. runs' \in [Scans -> RunRecord]
    BY DEF TypeOK
  <2> QED
    BY <2>1, <1>1 DEF TypeOK, PlaceOf
<1>3. PlacesInv'
  <2> SUFFICES ASSUME NEW r \in Scans
               PROVE  PlaceOf(r, runs[r])'
    BY DEF PlacesInv, PlaceOf, Current
  <2>1. PlaceOf(r, runs'[r])
    BY <1>1
  <2> QED
    BY <2>1 DEF PlaceOf
<1>4. WritesAreExclusive'
  BY <1>0 DEF WritesAreExclusive, LockedByOther
<1>5. CreationIsAudited'
  BY DEF CreationIsAudited
<1>6. PassedIsRecorded'
  BY <1>0 DEF PassedIsRecorded
<1> QED
  BY <1>2, <1>3, <1>4, <1>5, <1>6

\* A rollback keeps the invariant.
LEMMA RollbackStep ==
  ASSUME RecordingInv,
         NEW s \in Scans, NEW place \in {"broken", "failed"},
         runs' = [runs EXCEPT ![s] = RolledBack(s, place)],
         UNCHANGED <<findings, audit>>,
         faults' \in 0 .. MaxFaults
  PROVE  RecordingInv'
<1> DEFINE me == RolledBack(s, place)
<1>1. me \in RunRecord
  <2>1. runs[s] \in RunRecord /\ place \in RunPlaces
    BY DEF RecordingInv, TypeOK, RunPlaces
  <2> QED
    BY <2>1 DEF RunRecord, RolledBack
<1>2. /\ me.pc = place /\ me.events = {} /\ me.next = runs[s].next
      /\ \A f \in Fingerprints : me.flushed[f] = NoRow
  BY DEF RecordingInv, TypeOK, RunRecord, RolledBack
<1>3. runs' = [runs EXCEPT ![s] = me]
  OBVIOUS
<1> HIDE DEF me
<1>4. PlaceOf(s, me)
  BY <1>2 DEF PlaceOf
<1> QED
  BY <1>1, <1>2, <1>3, <1>4, LocalStep

\* A write that no other run's transaction is in the way of keeps the invariant if it
\* puts a row in place that agrees with the committed one.
LEMMA WriteStep ==
  ASSUME RecordingInv,
         NEW s \in Scans, NEW row \in Row,
         runs[s].pc \in {"insert", "update"},
         ~LockedByOther(s, Current(s)),
         row.last = s,
         IF findings[Current(s)] = NoRow
           THEN row.first = s /\ ~runs[s].redetection
           ELSE row.first = findings[Current(s)].first,
         runs' = [runs EXCEPT ![s] = Flushed(s, Current(s), row)],
         UNCHANGED <<findings, audit, faults>>
  PROVE  RecordingInv'
<1> DEFINE f  == Current(s)
           me == Flushed(s, f, row)
           event == [scan |-> s, index |-> runs[s].next, fingerprint |-> f,
                     action |-> IF runs[s].redetection THEN "redetected" ELSE "detected"]
<1>0. /\ runs[s] \in RunRecord
      /\ faults \in 0 .. MaxFaults
      /\ runs[s].next \in DOMAIN Detections[s]
      /\ runs[s].events = {}
      /\ \A g \in Fingerprints : runs[s].flushed[g] = NoRow
  BY DEF RecordingInv, TypeOK, PlacesInv
<1>1. f \in Fingerprints
  BY <1>0, DetectionTypes DEF Current
<1>2. me \in RunRecord
  <2>1. event \in AuditEvent
    BY <1>0, <1>1 DEF AuditEvent, RunRecord
  <2> QED
    BY <1>0, <1>1, <2>1 DEF RunRecord, RunPlaces, Flushed
<1>3. /\ me.pc = "publish" /\ me.next = runs[s].next /\ me.redetection = runs[s].redetection
      /\ \A g \in Fingerprints : me.flushed[g] = IF g = f THEN row ELSE NoRow
      /\ me.events = {event}
  BY <1>0, <1>1 DEF RunRecord, Flushed
<1>4. runs' = [runs EXCEPT ![s] = me]
  OBVIOUS
<1> HIDE DEF me
<1>5. PlaceOf(s, me)
  BY <1>0, <1>1, <1>3, DetectionTypes DEF PlaceOf, Current
<1>6. \A g \in Fingerprints : me.flushed[g] # NoRow => ~LockedByOther(s, g)
  BY <1>1, <1>3
<1> QED
  BY <1>0, <1>2, <1>3, <1>4, <1>5, <1>6, LocalStep

\* The row a lookup may find is the committed one, as nothing is flushed yet.
LEMMA LookupSeesCommitted ==
  ASSUME RecordingInv, NEW s \in Scans, runs[s].pc \in {"lookup", "record", "update"}
  PROVE  /\ Current(s) \in Fingerprints
         /\ Visible(s, Current(s)) = findings[Current(s)]
         /\ Loaded(s, Current(s)) \in [Fingerprints -> Scans \cup {None}]
<1> USE DEF RecordingInv
<1>1. Current(s) \in Fingerprints
  BY DetectionTypes DEF TypeOK, Current
<1>2. Visible(s, Current(s)) = findings[Current(s)]
  BY <1>1 DEF Visible, PlacesInv
<1>3. findings[Current(s)] # NoRow => findings[Current(s)].scan \in Scans
  BY <1>1 DEF TypeOK, Row
<1>4. runs[s].view \in [Fingerprints -> Scans \cup {None}]
  BY DEF TypeOK, RunRecord
<1> QED
  BY <1>1, <1>2, <1>3, <1>4 DEF Loaded

\* What a run about to publish commits: the row of its finding and the event with it.
\* No row is lost, and none changes its first detection.
LEMMA PublishCommits ==
  ASSUME RecordingInv, NEW s \in Scans, Publish(s)
  PROVE  /\ Current(s) \in Fingerprints
         /\ findings'[Current(s)] = runs[s].flushed[Current(s)]
         /\ findings' \in [Fingerprints -> Row \cup {NoRow}]
         /\ \A f \in Fingerprints : f # Current(s) => findings'[f] = findings[f]
         /\ findings'[Current(s)] # NoRow
         /\ \A f \in Fingerprints : findings[f] # NoRow =>
              findings'[f] # NoRow /\ findings'[f].first = findings[f].first
         /\ audit' = audit \cup
              {[scan |-> s, index |-> runs[s].next, fingerprint |-> Current(s),
                action |-> IF runs[s].redetection THEN "redetected" ELSE "detected"]}
         /\ findings'[Current(s)].last = s
         /\ findings[Current(s)] = NoRow =>
              findings'[Current(s)].first = s /\ ~runs[s].redetection
<1> USE DEF RecordingInv, Publish
<1>1. Current(s) \in Fingerprints
  BY DetectionTypes DEF TypeOK, Current
<1>2. \A f \in Fingerprints : runs[s].flushed[f] # NoRow <=> f = Current(s)
  BY DEF PlacesInv
<1>3. \A f \in Fingerprints :
        findings'[f] = IF f = Current(s) THEN runs[s].flushed[f] ELSE findings[f]
  BY <1>2 DEF Visible
<1>4. findings' \in [Fingerprints -> Row \cup {NoRow}]
  <2>1. runs[s].flushed \in [Fingerprints -> Row \cup {NoRow}]
    BY DEF TypeOK, RunRecord
  <2>2. \A f \in Fingerprints : Visible(s, f) \in Row \cup {NoRow}
    BY <2>1 DEF TypeOK, Visible
  <2> QED
    BY <2>2
<1>5. /\ IF findings[Current(s)] = NoRow
         THEN runs[s].flushed[Current(s)].first = s /\ ~runs[s].redetection
         ELSE runs[s].flushed[Current(s)].first = findings[Current(s)].first
      /\ runs[s].flushed[Current(s)].last = s
  BY DEF PlacesInv
<1>6. runs[s].events =
        {[scan |-> s, index |-> runs[s].next, fingerprint |-> Current(s),
          action |-> IF runs[s].redetection THEN "redetected" ELSE "detected"]}
  BY DEF PlacesInv
<1> QED
  BY <1>1, <1>2, <1>3, <1>4, <1>5, <1>6

\* The commit of a detection keeps the invariant.
LEMMA PublishStep ==
  ASSUME RecordingInv, NEW s \in Scans, Publish(s)
  PROVE  RecordingInv'
<1> DEFINE f  == Current(s)
           me == [Onward(s) EXCEPT !.flushed = [g \in Fingerprints |-> NoRow],
                                   !.events = {}]
           event == [scan |-> s, index |-> runs[s].next, fingerprint |-> f,
                     action |-> IF runs[s].redetection THEN "redetected" ELSE "detected"]
<1>0. /\ runs[s] \in RunRecord
      /\ runs[s].pc = "publish"
      /\ runs[s].next \in 1 .. Len(Detections[s])
      /\ Len(Detections[s]) \in Nat
  BY DetectionTypes DEF RecordingInv, TypeOK, Publish
<1>1. /\ f \in Fingerprints
      /\ findings'[f] = runs[s].flushed[f]
      /\ findings' \in [Fingerprints -> Row \cup {NoRow}]
      /\ \A g \in Fingerprints : g # f => findings'[g] = findings[g]
      /\ findings'[f] # NoRow
      /\ \A g \in Fingerprints : findings[g] # NoRow =>
           findings'[g] # NoRow /\ findings'[g].first = findings[g].first
      /\ audit' = audit \cup {event}
  BY PublishCommits
<1>2. event \in AuditEvent
  BY <1>0, <1>1 DEF AuditEvent, RunRecord
<1>3. /\ me.pc = IF runs[s].next < Len(Detections[s]) THEN "lookup" ELSE "finish"
      /\ me.next = runs[s].next + 1
      /\ me.events = {}
      /\ \A g \in Fingerprints : me.flushed[g] = NoRow
  BY <1>0 DEF RunRecord, Onward
<1>4. me \in RunRecord
  <2>1. runs[s].next + 1 \in Nat \ {0}
    BY <1>0
  <2>2. Onward(s) \in RunRecord
    BY <1>0, <2>1 DEF RunRecord, RunPlaces, Onward
  <2> HIDE DEF event
  <2> QED
    BY <2>2 DEF RunRecord
<1>5. runs' = [runs EXCEPT ![s] = me] /\ faults' = faults
  BY DEF Publish
<1> HIDE DEF me
<1>6. runs'[s] = me /\ \A r \in Scans : r # s => runs'[r] = runs[r]
  BY <1>5 DEF RecordingInv, TypeOK
<1>7. ASSUME NEW r \in Scans, r # s, runs[r].pc = "publish"
      PROVE  Current(r) \in Fingerprints /\ Current(r) # f
  <2>1. Current(r) \in Fingerprints
    BY <1>7, DetectionTypes DEF RecordingInv, TypeOK, Current
  <2>2. runs[r].flushed[Current(r)] # NoRow
    BY <1>7, <2>1 DEF RecordingInv, PlacesInv
  <2>3. runs[s].flushed[f] # NoRow
    BY <1>1
  <2> QED
    BY <1>7, <2>1, <2>2, <2>3 DEF RecordingInv, WritesAreExclusive
<1>8. TypeOK'
  <2>1. runs' \in [Scans -> RunRecord]
    BY <1>4, <1>5 DEF RecordingInv, TypeOK
  <2>2. audit' \subseteq AuditEvent
    BY <1>1, <1>2 DEF RecordingInv, TypeOK
  <2>3. ASSUME NEW r \in Scans
        PROVE  /\ runs'[r].pc \in {"lookup", "record", "insert", "update", "publish"} =>
                    runs'[r].next \in DOMAIN Detections[r]
               /\ runs'[r].pc \in {"finish", "done"} =>
                    runs'[r].next = Len(Detections[r]) + 1
    <3>1. CASE r = s
      BY <1>0, <1>3, <1>6, <3>1, DetectionTypes
    <3>2. CASE r # s
      BY <1>6, <3>2 DEF RecordingInv, TypeOK
    <3> QED
      BY <3>1, <3>2
  <2> QED
    BY <1>1, <1>5, <2>1, <2>2, <2>3 DEF RecordingInv, TypeOK
<1>9. PlacesInv'
  <2> SUFFICES ASSUME NEW r \in Scans PROVE PlaceOf(r, runs[r])'
    BY <1>8 DEF PlacesInv, PlaceOf, Current
  <2>1. CASE r = s
    <3>1. me.pc \in {"lookup", "finish"}
      BY <1>3
    <3>2. /\ me.pc = "lookup" => me.next \in DOMAIN Detections[s]
          /\ me.pc = "finish" => me.next = Len(Detections[s]) + 1
      <4> DEFINE last == Len(Detections[s])
                 next == runs[s].next
      <4>1. DOMAIN Detections[s] = 1 .. last
        BY DetectionTypes
      <4>2. next \in 1 .. last /\ last \in Nat
        BY <1>0
      <4>3. me.next = next + 1 /\ me.pc = IF next < last THEN "lookup" ELSE "finish"
        BY <1>3
      <4> HIDE DEF last, next
      <4>4. last = Len(Detections[s])
        BY DEF last
      <4> QED
        BY <4>1, <4>2, <4>3, <4>4
    <3>3. runs'[r] = me /\ Detections[r] = Detections[s]
      BY <1>6, <2>1
    <3>4. me.pc \notin {"record", "insert", "update", "publish", "done"}
      BY <3>1
    <3> QED
      BY <1>3, <2>1, <3>2, <3>3, <3>4 DEF PlaceOf
  <2>2. CASE r # s
    <3>1. PlaceOf(r, runs[r])
      BY PlacesOfRuns DEF RecordingInv
    <3>2. runs[r].pc \in {"record", "update", "publish"} => Current(r) \in Fingerprints
      BY DetectionTypes DEF RecordingInv, TypeOK, Current
    <3>3. runs[r].pc = "publish" => findings'[Current(r)] = findings[Current(r)]
      BY <1>1, <1>7, <2>2
    <3>4. runs[r].pc \in {"record", "update"} /\ findings[Current(r)] # NoRow =>
            findings'[Current(r)] # NoRow
      BY <1>1, <3>2
    <3> QED
      BY <1>6, <2>2, <3>1, <3>3, <3>4 DEF PlaceOf, Current
  <2> QED
    BY <2>1, <2>2
<1>10. WritesAreExclusive'
  BY <1>3, <1>6 DEF RecordingInv, WritesAreExclusive
<1>11. CreationIsAudited'
  <2> SUFFICES ASSUME NEW g \in Fingerprints, findings'[g] # NoRow
               PROVE  \E e \in audit' : e.scan = findings'[g].first /\ e.fingerprint = g
                                        /\ e.action = "detected"
    BY DEF CreationIsAudited
  <2>1. CASE findings[g] # NoRow
    BY <1>1, <2>1 DEF RecordingInv, CreationIsAudited
  <2>2. CASE findings[g] = NoRow
    <3>1. g = f
      BY <1>1, <2>2
    <3>2. runs[s].flushed[f].first = s /\ ~runs[s].redetection
      BY <1>0, <2>2, <3>1 DEF RecordingInv, PlacesInv
    <3>3. event.scan = s /\ event.fingerprint = f /\ event.action = "detected"
      BY <3>2
    <3> QED
      BY <1>1, <3>1, <3>2, <3>3
  <2> QED
    BY <2>1, <2>2
<1>12. PassedIsRecorded'
  <2> SUFFICES ASSUME NEW r \in Scans, NEW i \in DOMAIN Detections[r],
                      i < runs'[r].next
               PROVE  /\ findings'[Detections[r][i]] # NoRow
                      /\ \E e \in audit' : e.scan = r /\ e.index = i
                                           /\ e.fingerprint = Detections[r][i]
    BY DEF PassedIsRecorded
  <2>1. CASE i < runs[r].next
    BY <1>1, <2>1, DetectionTypes DEF RecordingInv, PassedIsRecorded
  <2>2. CASE ~(i < runs[r].next)
    <3>1. r = s
      BY <1>6, <2>2
    <3>2. i = runs[s].next
      BY <1>0, <1>3, <1>6, <2>2, <3>1, DetectionTypes
    <3> QED
      <4>1. Detections[r][i] = f
        BY <3>1, <3>2 DEF Current
      <4>2. event.scan = r /\ event.index = i /\ event.fingerprint = f
        BY <3>1, <3>2
      <4> HIDE DEF f, event
      <4> QED
        BY <1>1, <4>1, <4>2
  <2> QED
    BY <2>1, <2>2
<1> QED
  BY <1>8, <1>9, <1>10, <1>11, <1>12 DEF RecordingInv

\* The commit at the end of process() has nothing of process() left to commit.
LEMMA FinishStep ==
  ASSUME RecordingInv, NEW s \in Scans, Finish(s)
  PROVE  RecordingInv' /\ UNCHANGED <<findings, audit>>
<1> DEFINE me == RolledBack(s, "done")
<1>0. /\ runs[s] \in RunRecord
      /\ runs[s].pc = "finish"
      /\ runs[s].events = {}
      /\ \A f \in Fingerprints : runs[s].flushed[f] = NoRow
      /\ runs[s].next = Len(Detections[s]) + 1
  BY DEF RecordingInv, TypeOK, PlacesInv, Finish
<1>1. audit' = audit
  BY <1>0 DEF Finish
<1>2. findings' = findings
  <2>1. \A f \in Fingerprints : Visible(s, f) = findings[f]
    BY <1>0 DEF Visible
  <2> QED
    BY <2>1 DEF RecordingInv, TypeOK, Finish
<1>3. me \in RunRecord
  BY <1>0 DEF RunRecord, RunPlaces, RolledBack
<1>4. /\ me.pc = "done" /\ me.events = {} /\ me.next = runs[s].next
      /\ \A f \in Fingerprints : me.flushed[f] = NoRow
  BY <1>0 DEF RunRecord, RolledBack
<1>5. runs' = [runs EXCEPT ![s] = me] /\ faults' \in 0 .. MaxFaults
  BY DEF RecordingInv, TypeOK, Finish
<1> HIDE DEF me
<1>6. PlaceOf(s, me)
  BY <1>0, <1>4 DEF PlaceOf
<1> QED
  BY <1>1, <1>2, <1>3, <1>4, <1>5, <1>6, LocalStep

\* Both lookups keep the invariant: the row they find was committed and stays.
LEMMA LookupSteps ==
  ASSUME RecordingInv, NEW s \in Scans, Lookup(s) \/ RecordLookup(s)
  PROVE  RecordingInv'
<1> DEFINE f == Current(s)
<1>0. /\ runs[s] \in RunRecord
      /\ runs[s].pc \in {"lookup", "record"}
      /\ runs[s].next \in DOMAIN Detections[s]
      /\ runs[s].events = {}
      /\ \A g \in Fingerprints : runs[s].flushed[g] = NoRow
      /\ faults \in 0 .. MaxFaults
  BY DEF RecordingInv, TypeOK, PlacesInv, Lookup, RecordLookup
<1>1. /\ f \in Fingerprints
      /\ Visible(s, f) = findings[f]
      /\ Loaded(s, f) \in [Fingerprints -> Scans \cup {None}]
  BY <1>0, LookupSeesCommitted
<1>2. CASE Lookup(s)
  <2> DEFINE me == [runs[s] EXCEPT !.pc = "record",
                                   !.redetection = Visible(s, f) # NoRow,
                                   !.view = Loaded(s, f)]
  <2>1. me \in RunRecord
    BY <1>0, <1>1 DEF RunRecord, RunPlaces
  <2>2. /\ me.pc = "record" /\ me.next = runs[s].next /\ me.events = {}
        /\ me.redetection = (findings[f] # NoRow)
        /\ \A g \in Fingerprints : me.flushed[g] = NoRow
    BY <1>0, <1>1 DEF RunRecord
  <2>3. runs' = [runs EXCEPT ![s] = me] /\ UNCHANGED <<findings, audit, faults>>
    BY <1>2 DEF Lookup
  <2> HIDE DEF me
  <2>4. PlaceOf(s, me)
    BY <1>0, <2>2 DEF PlaceOf, Current
  <2> QED
    BY <1>0, <2>1, <2>2, <2>3, <2>4, LocalStep
<1>3. CASE RecordLookup(s)
  <2> DEFINE me == [runs[s] EXCEPT
                      !.pc = IF Visible(s, f) = NoRow THEN "insert" ELSE "update",
                      !.view = Loaded(s, f)]
  <2>1. me \in RunRecord
    BY <1>0, <1>1 DEF RunRecord, RunPlaces
  <2>2. /\ me.pc = IF findings[f] = NoRow THEN "insert" ELSE "update"
        /\ me.next = runs[s].next /\ me.events = {}
        /\ me.redetection = runs[s].redetection
        /\ \A g \in Fingerprints : me.flushed[g] = NoRow
    BY <1>0, <1>1 DEF RunRecord
  <2>3. runs' = [runs EXCEPT ![s] = me] /\ UNCHANGED <<findings, audit, faults>>
    BY <1>3 DEF RecordLookup
  <2> HIDE DEF me
  <2>4. runs[s].redetection => findings[f] # NoRow
    BY <1>0, <1>3 DEF RecordingInv, PlacesInv, RecordLookup
  <2>5. PlaceOf(s, me)
    BY <1>0, <2>2, <2>4 DEF PlaceOf, Current
  <2> QED
    BY <1>0, <2>1, <2>2, <2>3, <2>5, LocalStep
<1> QED
  BY <1>2, <1>3

\* The writes: an INSERT that finds no committed row or is rejected, and an UPDATE of
\* a row whose first detection it leaves alone.
LEMMA WriteSteps ==
  ASSUME RecordingInv, NEW s \in Scans, Insert(s) \/ Update(s)
  PROVE  RecordingInv'
<1> DEFINE f == Current(s)
<1>0. /\ runs[s] \in RunRecord
      /\ runs[s].next \in DOMAIN Detections[s]
      /\ faults \in 0 .. MaxFaults
      /\ f \in Fingerprints
  BY DetectionTypes DEF RecordingInv, TypeOK, Current, Insert, Update
<1>1. CASE Insert(s)
  <2>1. CASE findings[f] = NoRow
    <3> DEFINE row == [first |-> s, last |-> s, scan |-> s]
    <3>1. row \in Row /\ row.first = s /\ row.last = s
      BY DEF Row
    <3>2. runs' = [runs EXCEPT ![s] = Flushed(s, f, row)]
      BY <1>1, <2>1 DEF Insert
    <3>3. ~runs[s].redetection
      BY <1>1 DEF RecordingInv, PlacesInv, Insert
    <3>4. /\ runs[s].pc \in {"insert", "update"} /\ ~LockedByOther(s, f)
          /\ UNCHANGED <<findings, audit, faults>>
      BY <1>1 DEF Insert
    <3> HIDE DEF row
    <3> QED
      BY <2>1, <3>1, <3>2, <3>3, <3>4, WriteStep
  <2>2. CASE findings[f] # NoRow
    BY <1>0, <1>1, <2>2, RollbackStep DEF Insert
  <2> QED
    BY <2>1, <2>2
<1>2. CASE Update(s)
  <2> DEFINE row == [Visible(s, f) EXCEPT
                       !.last = s, !.scan = IF runs[s].view[f] = s THEN @ ELSE s]
  <2>1. findings[f] # NoRow /\ findings[f] \in Row
    BY <1>0, <1>2 DEF RecordingInv, TypeOK, PlacesInv, Update
  <2>2. Visible(s, f) = findings[f]
    BY <1>2, LookupSeesCommitted DEF Update
  <2>3. row \in Row /\ row.first = findings[f].first /\ row.last = s
    BY <2>1, <2>2 DEF Row
  <2>4. runs' = [runs EXCEPT ![s] = Flushed(s, f, row)]
    BY <1>2 DEF Update
  <2>5. /\ runs[s].pc \in {"insert", "update"} /\ ~LockedByOther(s, f)
        /\ UNCHANGED <<findings, audit, faults>>
    BY <1>2 DEF Update
  <2> HIDE DEF row
  <2> QED
    BY <2>1, <2>3, <2>4, <2>5, WriteStep
<1> QED
  BY <1>1, <1>2

\* Every step keeps the invariant.
LEMMA NextRecording == RecordingInv /\ [Next]_vars => RecordingInv'
<1> SUFFICES ASSUME RecordingInv, [Next]_vars PROVE RecordingInv'
  OBVIOUS
<1>0. faults \in 0 .. MaxFaults /\ MaxFaults \in Nat
  BY FindingPipelineAssumption DEF RecordingInv, TypeOK
<1>1. ASSUME NEW s \in Scans, Lookup(s) \/ RecordLookup(s) PROVE RecordingInv'
  BY <1>1, LookupSteps
<1>2. ASSUME NEW s \in Scans, Insert(s) \/ Update(s) PROVE RecordingInv'
  BY <1>2, WriteSteps
<1>3. ASSUME NEW s \in Scans, Publish(s) PROVE RecordingInv'
  BY <1>3, PublishStep
<1>4. ASSUME NEW s \in Scans, Finish(s) PROVE RecordingInv'
  BY <1>4, FinishStep
<1>5. ASSUME NEW s \in Scans, BrokenSessionRaises(s) PROVE RecordingInv'
  BY <1>0, <1>5, RollbackStep DEF BrokenSessionRaises
<1>6. ASSUME NEW s \in Scans, PublishFails(s) PROVE RecordingInv'
  <2>1. faults' \in 0 .. MaxFaults
    BY <1>0, <1>6 DEF PublishFails
  <2> QED
    BY <1>6, <2>1, RollbackStep DEF PublishFails
<1>7. ASSUME NEW s \in Scans, RunFault(s) PROVE RecordingInv'
  <2>1. faults' \in 0 .. MaxFaults
    BY <1>0, <1>7 DEF RunFault
  <2> QED
    BY <1>7, <2>1, RollbackStep DEF RunFault
<1>8. CASE UNCHANGED vars
  <2> USE <1>8 DEF vars, RecordingInv
  <2>1. TypeOK'
    BY DEF TypeOK
  <2>2. PlacesInv'
    BY DEF PlacesInv, Current
  <2>3. WritesAreExclusive' /\ CreationIsAudited' /\ PassedIsRecorded'
    BY DEF WritesAreExclusive, CreationIsAudited, PassedIsRecorded
  <2> QED
    BY <2>1, <2>2, <2>3
<1> QED
  BY <1>1, <1>2, <1>3, <1>4, <1>5, <1>6, <1>7, <1>8 DEF Next, RunStep

\* The inductive invariant: at every place of every run, what is committed is audited
\* and complete, and what is flushed is one row nobody else is writing.
THEOREM RecordingIsInvariant == Spec => []RecordingInv
<1>1. Init => RecordingInv
  BY InitRecording
<1>2. RecordingInv /\ [Next]_vars => RecordingInv'
  BY NextRecording
<1> QED
  BY <1>1, <1>2, PTL DEF Spec

\* Every reachable state is well-typed: in particular a run never looks past its
\* findings.
THEOREM TypeCorrect == Spec => []TypeOK
<1>1. RecordingInv => TypeOK
  BY DEF RecordingInv
<1> QED
  BY <1>1, RecordingIsInvariant, PTL

\* A finding's row never appears without the audit event of its detection.
THEOREM EveryRowIsAudited == Spec => []CreationIsAudited
<1>1. RecordingInv => CreationIsAudited
  BY DEF RecordingInv
<1> QED
  BY <1>1, RecordingIsInvariant, PTL

\* A run that may have to wait for a row holds none: the workers cannot deadlock.
THEOREM NoCircularWait == Spec => []NoWaitCycle
<1>1. RecordingInv => NoWaitCycle
  BY DEF RecordingInv, PlacesInv, NoWaitCycle
<1> QED
  BY <1>1, RecordingIsInvariant, PTL

\* A scan that ends SUCCEEDED has recorded every one of its findings.
THEOREM SuccessIsComplete == Spec => []DoneMeansRecorded
<1>1. RecordingInv => DoneMeansRecorded
  <2> SUFFICES ASSUME RecordingInv,
                      NEW s \in Scans, runs[s].pc = "done", NEW i \in DOMAIN Detections[s]
               PROVE  i < runs[s].next
    BY DEF RecordingInv, PassedIsRecorded, DoneMeansRecorded
  <2> QED
    BY DetectionTypes DEF RecordingInv, TypeOK
<1> QED
  BY <1>1, RecordingIsInvariant, PTL

\* What a step may do to the committed rows.
KeepsFirstDetections ==
  \A f \in Fingerprints : findings[f] # NoRow =>
    /\ findings'[f] # NoRow
    /\ findings'[f].first = findings[f].first

\* No finding is ever lost and first_seen_at is never modified, although several
\* workers may insert or update the row.
THEOREM FirstSeenIsKept == Spec => FirstDetectionStays
<1>1. RecordingInv /\ [Next]_vars => [KeepsFirstDetections]_vars
  <2> SUFFICES ASSUME RecordingInv, [Next]_vars,
                      NEW f \in Fingerprints, findings[f] # NoRow
               PROVE  findings'[f] # NoRow /\ findings'[f].first = findings[f].first
    BY DEF KeepsFirstDetections
  <2>1. CASE \E s \in Scans : Publish(s)
    BY <2>1, PublishCommits
  <2>2. CASE \E s \in Scans : Finish(s)
    <3>1. UNCHANGED findings
      BY <2>2, FinishStep
    <3> QED
      BY <3>1
  <2>3. CASE UNCHANGED findings
    BY <2>3
  <2> QED
    BY <2>1, <2>2, <2>3 DEF Next, RunStep, Lookup, RecordLookup, Insert, Update,
      PublishFails, BrokenSessionRaises, RunFault, vars
<1>2. [][KeepsFirstDetections]_vars => FirstDetectionStays
  BY PTL DEF KeepsFirstDetections, FirstDetectionStays
<1> QED
  BY <1>1, <1>2, RecordingIsInvariant, PTL DEF Spec
-----------------------------------------------------------------------------
(* The register of detections that the runs implement together.             *)

\* The commit of a detection enters it: the row becomes that of the fingerprint's newest
\* detection, and the event says "redetected" only of a fingerprint that has a row.
LEMMA PublishEnters ==
  ASSUME RecordingInv, NEW s \in Scans, Publish(s)
  PROVE  Register!Enter(s)
<1> DEFINE f == Current(s)
           i == runs[s].next
           act == IF runs[s].redetection THEN "redetected" ELSE "detected"
           register == [g \in Fingerprints |->
                          IF findings[g] = NoRow THEN NoRow
                          ELSE [first |-> findings[g].first, last |-> findings[g].last]]
           entered == [r \in Scans |-> runs[r].next - 1]
           outcome == [r \in Scans |-> CASE runs[r].pc = "done" -> "succeeded"
                                         [] runs[r].pc = "failed" -> "failed"
                                         [] OTHER -> "running"]
<1>0. /\ runs \in [Scans -> RunRecord]
      /\ findings \in [Fingerprints -> Row \cup {NoRow}]
      /\ runs[s].pc = "publish"
      /\ i \in DOMAIN Detections[s] /\ i \in Nat
  BY DetectionTypes DEF RecordingInv, TypeOK, Publish
<1>1. /\ f \in Fingerprints
      /\ findings' \in [Fingerprints -> Row \cup {NoRow}]
      /\ \A g \in Fingerprints : g # f => findings'[g] = findings[g]
      /\ findings'[f] # NoRow
      /\ findings[f] # NoRow => findings'[f].first = findings[f].first
      /\ audit' = audit \cup {[scan |-> s, index |-> i, fingerprint |-> f, action |-> act]}
      /\ findings'[f].last = s
      /\ findings[f] = NoRow => findings'[f].first = s /\ ~runs[s].redetection
  BY PublishCommits
<1>2. /\ \A r \in Scans : r # s => runs'[r] = runs[r]
      /\ runs'[s].pc \in {"lookup", "finish"}
      /\ runs'[s].next = i + 1
  BY <1>0 DEF Publish, Onward, RunRecord
<1>3. entered[s] + 1 = i /\ Detections[s][i] = f
  BY <1>0 DEF Current
<1>4. outcome[s] = "running"
  BY <1>0
<1>5. outcome' = outcome
  BY <1>0, <1>2
<1>6. entered' = [entered EXCEPT ![s] = i]
  <2>1. \A r \in Scans : runs'[r].next - 1 = IF r = s THEN i ELSE runs[r].next - 1
    BY <1>0, <1>2
  <2> QED
    BY <2>1
<1>7. register' = [register EXCEPT ![f] =
        IF @ = NoRow THEN [first |-> s, last |-> s] ELSE [@ EXCEPT !.last = s]]
  <2> DEFINE entry(row) ==
        IF row = NoRow THEN NoRow ELSE [first |-> row.first, last |-> row.last]
  <2>1. entry(findings'[f]) =
          IF entry(findings[f]) = NoRow THEN [first |-> s, last |-> s]
          ELSE [entry(findings[f]) EXCEPT !.last = s]
    <3>1. entry(findings'[f]) = [first |-> findings'[f].first, last |-> s]
      BY <1>1
    <3>2. CASE findings[f] = NoRow
      BY <1>1, <3>1, <3>2
    <3>3. CASE findings[f] # NoRow
      <4>1. findings[f].first \in Scans /\ findings[f].last \in Scans
        BY <1>0, <1>1, <3>3 DEF Row
      <4>2. entry(findings[f]) # NoRow
        BY <4>1, <3>3, FindingPipelineAssumption
      <4> QED
        BY <1>1, <3>1, <3>3, <4>2
    <3> QED
      BY <3>2, <3>3
  <2>2. \A g \in Fingerprints : g # f => entry(findings'[g]) = entry(findings[g])
    BY <1>1
  <2>3. /\ register = [g \in Fingerprints |-> entry(findings[g])]
        /\ register' = [g \in Fingerprints |-> entry(findings'[g])]
    OBVIOUS
  <2> HIDE DEF register, entry
  <2> QED
    BY <1>1, <2>1, <2>2, <2>3
<1>8. register[f] = NoRow => act = "detected"
  <2>1. findings[f] # NoRow => register[f] # NoRow
    <3> SUFFICES ASSUME findings[f] # NoRow PROVE register[f] # NoRow
      OBVIOUS
    <3>1. findings[f].first \in Scans /\ findings[f].last \in Scans
      BY <1>0, <1>1 DEF Row
    <3> QED
      BY <1>1, <3>1, FindingPipelineAssumption
  <2> QED
    BY <1>1, <2>1
<1>9. act \in {"detected", "redetected"}
  OBVIOUS
<1>10. Register!Enter(s) <=>
        LET j == entered[s] + 1
            g == Detections[s][j]
        IN
        /\ outcome[s] = "running"
        /\ j \in DOMAIN Detections[s]
        /\ register' = [register EXCEPT ![g] =
             IF @ = NoRow THEN [first |-> s, last |-> s] ELSE [@ EXCEPT !.last = s]]
        /\ \E action \in {"detected", "redetected"} :
             /\ register[g] = NoRow => action = "detected"
             /\ audit' = audit \cup
                  {[scan |-> s, index |-> j, fingerprint |-> g, action |-> action]}
        /\ entered' = [entered EXCEPT ![s] = j]
        /\ outcome' = outcome
  BY DEF Register!Enter
<1> HIDE DEF register, entered, outcome, act
<1> QED
  BY <1>0, <1>1, <1>3, <1>4, <1>5, <1>6, <1>7, <1>8, <1>9, <1>10

\* A step that commits nothing and goes on with the same finding shows only if it ends
\* the run, and it ends it with success only behind the last finding.
LEMMA NothingEntered ==
  ASSUME RecordingInv,
         NEW s \in Scans, NEW me,
         runs' = [runs EXCEPT ![s] = me],
         UNCHANGED <<findings, audit>>,
         me.next = runs[s].next,
         runs[s].pc \notin {"done", "failed"},
         me.pc = "done" => runs[s].next = Len(Detections[s]) + 1
  PROVE  Register!End(s) \/ UNCHANGED Register!vars
<1> DEFINE entered == [r \in Scans |-> runs[r].next - 1]
           outcome == [r \in Scans |-> CASE runs[r].pc = "done" -> "succeeded"
                                         [] runs[r].pc = "failed" -> "failed"
                                         [] OTHER -> "running"]
           end == IF me.pc = "done" THEN "succeeded" ELSE "failed"
<1>0. runs'[s] = me /\ \A r \in Scans : r # s => runs'[r] = runs[r]
  BY DEF RecordingInv, TypeOK
<1>1. entered' = entered
  BY <1>0
<1>2. outcome[s] = "running"
  OBVIOUS
<1>3. CASE me.pc \in {"done", "failed"}
  <2>1. outcome' = [outcome EXCEPT ![s] = end]
    BY <1>0, <1>3
  <2>2. end = "succeeded" => entered[s] = Len(Detections[s])
    <3>1. ASSUME me.pc = "done" PROVE runs[s].next - 1 = Len(Detections[s])
      <4> DEFINE last == Len(Detections[s])
                 next == runs[s].next
      <4>1. last \in Nat /\ next = last + 1
        BY <3>1, DetectionTypes
      <4> HIDE DEF last, next
      <4>2. next - 1 = last
        BY <4>1
      <4> QED
        BY <4>2 DEF last, next
    <3>2. entered[s] = runs[s].next - 1
      OBVIOUS
    <3>3. end = "succeeded" => me.pc = "done"
      OBVIOUS
    <3> HIDE DEF entered, end
    <3> QED
      BY <3>1, <3>2, <3>3
  <2>3. end \in {"succeeded", "failed"}
    OBVIOUS
  <2>4. Register!End(s) <=>
          /\ outcome[s] = "running"
          /\ \E e \in {"succeeded", "failed"} :
               /\ e = "succeeded" => entered[s] = Len(Detections[s])
               /\ outcome' = [outcome EXCEPT ![s] = e]
          /\ entered' = entered
    BY DEF Register!End
  <2> HIDE DEF entered, outcome, end
  <2> QED
    BY <1>1, <1>2, <2>1, <2>2, <2>3, <2>4
<1>4. CASE me.pc \notin {"done", "failed"}
  <2>1. outcome' = outcome
    BY <1>0, <1>4
  <2>2. entered' = entered /\ outcome' = outcome => UNCHANGED Register!vars
    BY DEF Register!vars
  <2> QED
    BY <1>1, <2>1, <2>2
<1> QED
  BY <1>3, <1>4

\* Every step of the pipeline enters one detection, ends one run or does not show.
LEMMA StepsOfTheRegister ==
  RecordingInv /\ [Next]_vars => [Register!Next]_(Register!vars)
<1> SUFFICES ASSUME RecordingInv, [Next]_vars
             PROVE  Register!Next \/ UNCHANGED Register!vars
  OBVIOUS
<1>0. ASSUME NEW s \in Scans, Register!Enter(s) \/ Register!End(s)
      PROVE  Register!Next
  BY <1>0 DEF Register!Next
<1>1. ASSUME NEW s \in Scans PROVE runs[s] \in RunRecord
  BY DEF RecordingInv, TypeOK
<1>2. ASSUME NEW s \in Scans, Publish(s) PROVE Register!Next
  BY <1>0, <1>2, PublishEnters
<1>3. ASSUME NEW s \in Scans, NEW place \in {"broken", "failed", "done"},
             runs' = [runs EXCEPT ![s] = RolledBack(s, place)],
             UNCHANGED <<findings, audit>>,
             runs[s].pc \notin {"done", "failed"},
             place = "done" => runs[s].next = Len(Detections[s]) + 1
      PROVE  Register!Next \/ UNCHANGED Register!vars
  <2>1. RolledBack(s, place).next = runs[s].next /\ RolledBack(s, place).pc = place
    BY <1>1 DEF RolledBack, RunRecord
  <2> QED
    BY <1>0, <1>3, <2>1, NothingEntered
<1>4. ASSUME NEW s \in Scans, Lookup(s) \/ RecordLookup(s)
      PROVE  Register!Next \/ UNCHANGED Register!vars
  <2>1. PICK me : /\ runs' = [runs EXCEPT ![s] = me]
                  /\ me.next = runs[s].next
                  /\ me.pc \in {"record", "insert", "update"}
    <3>1. ASSUME Lookup(s)
          PROVE  \E me : /\ runs' = [runs EXCEPT ![s] = me]
                         /\ me.next = runs[s].next
                         /\ me.pc \in {"record", "insert", "update"}
      <4> DEFINE me == [runs[s] EXCEPT !.pc = "record",
                                       !.redetection = Visible(s, Current(s)) # NoRow,
                                       !.view = Loaded(s, Current(s))]
      <4>1. me.next = runs[s].next /\ me.pc = "record"
        BY <1>1 DEF RunRecord
      <4>2. runs' = [runs EXCEPT ![s] = me]
        BY <3>1 DEF Lookup
      <4> HIDE DEF me
      <4> QED
        BY <4>1, <4>2
    <3>2. ASSUME RecordLookup(s)
          PROVE  \E me : /\ runs' = [runs EXCEPT ![s] = me]
                         /\ me.next = runs[s].next
                         /\ me.pc \in {"record", "insert", "update"}
      <4> DEFINE me == [runs[s] EXCEPT
                          !.pc = IF Visible(s, Current(s)) = NoRow
                                 THEN "insert" ELSE "update",
                          !.view = Loaded(s, Current(s))]
      <4>1. me.next = runs[s].next /\ me.pc \in {"insert", "update"}
        BY <1>1 DEF RunRecord
      <4>2. runs' = [runs EXCEPT ![s] = me]
        BY <3>2 DEF RecordLookup
      <4> HIDE DEF me
      <4> QED
        BY <4>1, <4>2
    <3> QED
      BY <1>4, <3>1, <3>2
  <2>2. UNCHANGED <<findings, audit>> /\ runs[s].pc \notin {"done", "failed"}
    BY <1>4 DEF Lookup, RecordLookup
  <2> QED
    BY <1>0, <2>1, <2>2, NothingEntered
<1>5. ASSUME NEW s \in Scans, Insert(s) \/ Update(s)
      PROVE  Register!Next \/ UNCHANGED Register!vars
  <2>1. UNCHANGED <<findings, audit>> /\ runs[s].pc \notin {"done", "failed"}
    BY <1>5 DEF Insert, Update
  <2>2. CASE runs' = [runs EXCEPT ![s] = RolledBack(s, "failed")]
    BY <1>3, <2>1, <2>2
  <2>3. CASE \E row : runs' = [runs EXCEPT ![s] = Flushed(s, Current(s), row)]
    <3>1. PICK row : runs' = [runs EXCEPT ![s] = Flushed(s, Current(s), row)]
      BY <2>3
    <3>2. /\ Flushed(s, Current(s), row).next = runs[s].next
          /\ Flushed(s, Current(s), row).pc = "publish"
      BY <1>1 DEF Flushed, RunRecord
    <3> QED
      BY <1>0, <2>1, <3>1, <3>2, NothingEntered
  <2> QED
    BY <1>5, <2>2, <2>3 DEF Insert, Update
<1>6. ASSUME NEW s \in Scans, Finish(s)
      PROVE  Register!Next \/ UNCHANGED Register!vars
  <2>1. UNCHANGED <<findings, audit>>
    BY <1>6, FinishStep
  <2>2. runs[s].pc = "finish" /\ runs[s].next = Len(Detections[s]) + 1
    BY <1>6 DEF RecordingInv, TypeOK, Finish
  <2> QED
    BY <1>3, <1>6, <2>1, <2>2 DEF Finish
<1>7. ASSUME NEW s \in Scans, PublishFails(s) \/ BrokenSessionRaises(s) \/ RunFault(s)
      PROVE  Register!Next \/ UNCHANGED Register!vars
  <2>1. PICK place \in {"broken", "failed"} :
          runs' = [runs EXCEPT ![s] = RolledBack(s, place)]
    BY <1>7 DEF PublishFails, BrokenSessionRaises, RunFault
  <2>2. UNCHANGED <<findings, audit>> /\ runs[s].pc \notin {"done", "failed"}
    BY <1>7 DEF PublishFails, BrokenSessionRaises, RunFault
  <2> QED
    BY <1>3, <2>1, <2>2
<1>8. CASE UNCHANGED vars
  BY <1>8 DEF vars, Register!vars
<1> QED
  BY <1>2, <1>4, <1>5, <1>6, <1>7, <1>8 DEF Next, RunStep

\* The pipeline of any number of scans at a time, with its swallowed failures, conflicts
\* and crashes, is a register that enters one detection at a time.
THEOREM PipelineImplementsRegister == Spec => ImplementsRegister
<1>1. Init => Register!Init
  <2> SUFFICES ASSUME Init PROVE Register!Init
    OBVIOUS
  <2>1. \A s \in Scans : runs[s].next - 1 = 0 /\ runs[s].pc \notin {"done", "failed"}
    <3> SUFFICES ASSUME NEW s \in Scans
                 PROVE  runs[s].next - 1 = 0 /\ runs[s].pc \notin {"done", "failed"}
      OBVIOUS
    <3>1. runs[s].next = 1
      BY DEF Init
    <3>2. runs[s].pc \in {"finish", "lookup"}
      BY DEF Init
    <3> QED
      BY <3>1, <3>2
  <2>2. [f \in Fingerprints |->
           IF findings[f] = NoRow THEN NoRow
           ELSE [first |-> findings[f].first, last |-> findings[f].last]]
          = [f \in Fingerprints |-> NoRow]
    BY DEF Init
  <2>3. [s \in Scans |-> runs[s].next - 1] = [s \in Scans |-> 0]
    BY <2>1
  <2>4. [s \in Scans |-> CASE runs[s].pc = "done" -> "succeeded"
                          [] runs[s].pc = "failed" -> "failed"
                          [] OTHER -> "running"]
          = [s \in Scans |-> "running"]
    BY <2>1
  <2>5. audit = {}
    BY DEF Init
  <2> QED
    BY <2>2, <2>3, <2>4, <2>5 DEF Register!Init
<1>2. RecordingInv /\ [Next]_vars => [Register!Next]_(Register!vars)
  BY StepsOfTheRegister
<1> QED
  BY <1>1, <1>2, RecordingIsInvariant, PTL DEF Spec, ImplementsRegister, Register!Spec
=============================================================================
