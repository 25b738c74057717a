--------------------------- MODULE ScanEngineProofs -------------------------
(***************************************************************************)
(* Theorems about ScanEngine, for any scans, processes, attempts, plugin   *)
(* behaviours and any number of faults and redeliveries.                   *)
(***************************************************************************)
EXTENDS ScanEngine, TLAPS

\* What the rest of the state keeps while a worker moves on by itself.
WorkerRest == <<queue, jobs, dispatchers, cancels, faults, redeliveries>>

\* The conditions PlacesInv sets on one worker's record.
PlaceOf(r) ==
  /\ r.pc # "idle" => r.scan \in Scans
  /\ r.pc = "loaded" => r.status = "QUEUED"
  /\ r.pc \in OwningPlaces => r.status \in ExecutingStatuses \cup {"CANCELLED"}
  /\ r.pc \in {"loaded", "validate"} => r.stage = "prepare"
  /\ r.pc \in {"check", "call"} => r.stage \in Stages
  /\ r.pc = "advance" => r.stage # "prepare"
  /\ r.pc = "requeue" => r.attempt < MaxAttempts
  /\ r.pc \in OwningPlaces \cup {"loaded"} => (r.dirty <=> r.pc = "requeue")

LEMMA PlacesOfWorkers ==
  PlacesInv <=>
    /\ \A w \in Workers : PlaceOf(workers[w])
    /\ \A d \in Dispatchers : dispatchers[d].pc # "idle" => dispatchers[d].scan \in Scans
    /\ \A c \in Cancellers : cancels[c].pc # "idle" => cancels[c].scan \in Scans
BY DEF PlacesInv, PlaceOf, Owns

LEMMA IdleIsAWorker ==
  IdleWorker \in WorkerRecord /\ PlaceOf(IdleWorker) /\ IdleWorker.pc = "idle"
BY ScanEngineAssumption
DEF IdleWorker, WorkerRecord, WorkerPlaces, PlaceOf, OwningPlaces, Stages, Attempts

\* The initial state is one of the invariant's.
LEMMA InitOwnership == Init => OwnershipInv
<1> SUFFICES ASSUME Init PROVE OwnershipInv
  OBVIOUS
<1> USE DEF Init
<1>1. TypeOK
  BY ScanEngineAssumption
  DEF TypeOK, AbsentScan, IdleWorker, IdleDispatcher, IdleCancel, ScanRow,
      WorkerRecord, DispatcherRecord, CancelRecord, WorkerPlaces, Attempts, Stages
<1>2. PlacesInv
  BY DEF PlacesInv, IdleWorker, IdleDispatcher, IdleCancel, Owns, OwningPlaces
<1>3. SingleOwner /\ OwnerKnowsItsScan
  BY DEF SingleOwner, OwnerKnowsItsScan, Owns, OwningPlaces, IdleWorker
<1>4. QueuedHasOutboxRow
  BY DEF QueuedHasOutboxRow, AbsentScan
<1> QED
  BY <1>1, <1>2, <1>3, <1>4 DEF OwnershipInv

\* A worker that only moves on in its own record, without touching the tables, keeps
\* the invariant if it keeps its scan, or gives it up.
LEMMA LocalStep ==
  ASSUME OwnershipInv,
         NEW w \in Workers, NEW r \in WorkerRecord,
         workers' = [workers EXCEPT ![w] = r],
         UNCHANGED scans,
         outbox' \in [Scans -> [Attempts -> {"none", "pending", "published"}]],
         \A s \in Scans, a \in Attempts : outbox[s][a] # "none" => outbox'[s][a] # "none",
         queue' \subseteq Message,
         faults' \in 0 .. MaxFaults,
         redeliveries' \in 0 .. MaxRedeliveries,
         UNCHANGED <<jobs, dispatchers, cancels>>,
         PlaceOf(r),
         r.pc \in OwningPlaces =>
           /\ Owns(w)
           /\ r.scan = workers[w].scan
           /\ r.attempt = workers[w].attempt
           /\ r.status \in {workers[w].status, scans[r.scan].status}
  PROVE  OwnershipInv'
<1> USE DEF OwnershipInv
<1>0. /\ workers'[w] = r
      /\ \A v \in Workers : v # w => workers'[v] = workers[v]
  BY DEF TypeOK
<1>1. TypeOK'
  BY DEF TypeOK
<1>2. PlacesInv'
  <2>1. \A v \in Workers : PlaceOf(workers'[v])
    BY <1>0, PlacesOfWorkers
  <2> QED
    BY <2>1 DEF PlacesInv, PlaceOf, Owns
<1>3. SingleOwner'
  BY <1>0 DEF SingleOwner, Owns
<1>4. OwnerKnowsItsScan'
  BY <1>0 DEF OwnerKnowsItsScan, Owns
<1>5. QueuedHasOutboxRow'
  <2> SUFFICES ASSUME NEW s \in Scans, scans[s].status = "QUEUED"
               PROVE  scans[s].attempt < MaxAttempts /\ outbox'[s][scans[s].attempt] # "none"
    BY DEF QueuedHasOutboxRow
  <2>1. scans[s].attempt \in Attempts
    BY DEF TypeOK, ScanRow
  <2> QED
    BY <2>1 DEF QueuedHasOutboxRow
<1> QED
  BY <1>1, <1>2, <1>3, <1>4, <1>5

\* `transition` as a worker calls it: either it matched the row, or neither table
\* changes and the worker goes where a stale or invalid transition sends it.
LEMMA TransitionCases ==
  ASSUME OwnershipInv,
         NEW w \in Workers, NEW target, NEW next,
         Transition(w, target, next)
  PROVE
    \/ /\ scans[workers[w].scan].status = workers[w].status
       /\ target \in ValidTransitions[workers[w].status]
       /\ scans' = [scans EXCEPT ![workers[w].scan] = Moved(@, target)]
       /\ outbox' = IF workers[w].dirty
                    THEN [outbox EXCEPT ![workers[w].scan][workers[w].attempt] = "pending"]
                    ELSE outbox
       /\ workers' = [workers EXCEPT ![w] =
            [workers[w] EXCEPT !.pc = next.ok, !.status = target, !.dirty = FALSE]]
    \/ /\ UNCHANGED <<scans, outbox>>
       /\ \/ /\ scans[workers[w].scan].status # workers[w].status
             /\ workers' = [workers EXCEPT ![w] = [workers[w] EXCEPT !.pc = next.stale]]
          \/ /\ target \notin ValidTransitions[workers[w].status]
             /\ workers' = [workers EXCEPT ![w] = [workers[w] EXCEPT !.pc = next.invalid]]
BY DEF Transition, TransitionResult

\* The row a transition leaves is a row of the table, with the target's status and
\* the attempt it had.
LEMMA MovedRow ==
  ASSUME NEW row \in ScanRow, NEW target \in ScanStatus
  PROVE  /\ Moved(row, target) \in ScanRow
         /\ Moved(row, target).status = target
         /\ Moved(row, target).attempt = row.attempt
<1>1. StampsOf(target) \subseteq Timestamps
  BY DEF StampsOf, Timestamps, TerminalTimestamps
<1> QED
  BY <1>1 DEF Moved, ScanRow

\* A worker that owns its scan, or has found it QUEUED, keeps the invariant when it
\* calls `transition`: it re-queues with its outbox row, moves on to the status of
\* the next stage, or is done with the scan.
LEMMA TransitionStep ==
  ASSUME OwnershipInv,
         NEW w \in Workers,
         Owns(w) \/ workers[w].pc = "loaded",
         NEW target \in ScanStatus,
         NEW next \in [ok : {"cleanup", "call"}, stale : {"stale", "raised", "finalize"},
                       invalid : {"abort", "raised", "finalize"}],
         target \notin {"PENDING", "PREPARING"},
         target = "QUEUED" => workers[w].pc = "requeue",
         next.ok = "call" =>
           Owns(w) /\ workers[w].stage \in Stages /\ target \in ExecutingStatuses,
         "finalize" \in {next.stale, next.invalid} =>
           Owns(w) /\ workers[w].pc # "requeue",
         Transition(w, target, next),
         UNCHANGED WorkerRest
  PROVE  OwnershipInv'
<1> USE DEF OwnershipInv, WorkerRest
<1> DEFINE me == workers[w]
           s  == workers[w].scan
<1>0. /\ me \in WorkerRecord
      /\ me.pc # "idle"
      /\ s \in Scans
      /\ PlaceOf(me)
  BY PlacesOfWorkers DEF TypeOK, PlacesInv, Owns, OwningPlaces
<1>1. CASE /\ UNCHANGED <<scans, outbox>>
           /\ \/ workers' = [workers EXCEPT ![w] = [me EXCEPT !.pc = next.stale]]
              \/ workers' = [workers EXCEPT ![w] = [me EXCEPT !.pc = next.invalid]]
  <2> PICK place \in {"stale", "raised", "abort", "finalize"} :
        /\ workers' = [workers EXCEPT ![w] = [me EXCEPT !.pc = place]]
        /\ place = "finalize" => Owns(w) /\ me.pc # "requeue"
    BY <1>1
  <2> DEFINE r == [me EXCEPT !.pc = place]
  <2>1. r \in WorkerRecord /\ r = [me EXCEPT !.pc = place]
    BY <1>0 DEF WorkerRecord, WorkerPlaces
  <2>2. PlaceOf(r)
    BY <1>0, <2>1 DEF PlaceOf, OwningPlaces, WorkerRecord, Owns
  <2>3. r.pc \in OwningPlaces =>
          Owns(w) /\ r.scan = me.scan /\ r.attempt = me.attempt /\ r.status = me.status
    BY <1>0, <2>1 DEF OwningPlaces, WorkerRecord
  <2> HIDE DEF r
  <2> QED
    BY <1>1, <2>1, <2>2, <2>3, LocalStep DEF TypeOK
<1>2. CASE
        /\ scans[s].status = me.status
        /\ target \in ValidTransitions[me.status]
        /\ scans' = [scans EXCEPT ![s] = Moved(@, target)]
        /\ outbox' = IF me.dirty THEN [outbox EXCEPT ![s][me.attempt] = "pending"] ELSE outbox
        /\ workers' = [workers EXCEPT ![w] =
             [me EXCEPT !.pc = next.ok, !.status = target, !.dirty = FALSE]]
  <2> DEFINE r == [me EXCEPT !.pc = next.ok, !.status = target, !.dirty = FALSE]
  <2>1. /\ r \in WorkerRecord
        /\ r.pc = next.ok /\ r.status = target /\ ~r.dirty
        /\ r.scan = s /\ r.attempt = me.attempt /\ r.stage = me.stage
    BY <1>0 DEF WorkerRecord, WorkerPlaces
  <2>2. /\ workers'[w] = r
        /\ \A v \in Workers : v # w => workers'[v] = workers[v]
    BY <1>2 DEF TypeOK
  <2>3. /\ scans' \in [Scans -> ScanRow]
        /\ scans'[s].status = target
        /\ scans'[s].attempt = scans[s].attempt
        /\ \A t \in Scans : t # s => scans'[t] = scans[t]
    BY <1>0, <1>2, MovedRow DEF TypeOK
  <2>4. \A v \in Workers : Owns(v) /\ workers[v].scan = s => v = w
    <3> SUFFICES ASSUME NEW v \in Workers, Owns(v), workers[v].scan = s, v # w
                 PROVE  FALSE
      OBVIOUS
    <3>1. me.pc = "loaded"
      BY DEF SingleOwner
    <3>2. scans[s].status = "QUEUED"
      BY <1>2, <3>1 DEF PlacesInv
    <3> QED
      BY <3>2 DEF OwnerKnowsItsScan, PlacesInv, ExecutingStatuses
  <2>5. TypeOK'
    <3>1. outbox' \in [Scans -> [Attempts -> {"none", "pending", "published"}]]
      BY <1>0, <1>2 DEF TypeOK
    <3> HIDE DEF r
    <3> QED
      BY <1>2, <2>1, <2>2, <2>3, <3>1 DEF TypeOK
  <2>6. PlaceOf(r)
    BY <1>0, <2>1 DEF PlaceOf, OwningPlaces, Stages
  <2> HIDE DEF r
  <2>7. PlacesInv'
    <3>1. \A v \in Workers : PlaceOf(workers'[v])
      BY <2>2, <2>6, PlacesOfWorkers
    <3> QED
      BY <3>1 DEF PlacesInv, PlaceOf, Owns
  <2>8. SingleOwner'
    BY <2>1, <2>2, <2>4 DEF SingleOwner, Owns, OwningPlaces
  <2>9. OwnerKnowsItsScan'
    <3> SUFFICES ASSUME NEW v \in Workers, Owns(v)'
                 PROVE  /\ scans'[workers'[v].scan].attempt = workers'[v].attempt
                        /\ scans'[workers'[v].scan].status
                             \in {workers'[v].status, "CANCELLED"}
      BY DEF OwnerKnowsItsScan
    <3>1. CASE v = w
      <4>1. Owns(w)
        BY <2>1, <2>2, <3>1 DEF Owns, OwningPlaces
      <4> QED
        BY <2>1, <2>2, <2>3, <3>1, <4>1 DEF OwnerKnowsItsScan
    <3>2. CASE v # w
      <4>1. Owns(v) /\ workers[v].scan \in Scans /\ workers[v].scan # s
        BY <2>2, <2>4, <3>2 DEF Owns, PlacesInv, OwningPlaces
      <4> QED
        BY <2>2, <2>3, <3>2, <4>1 DEF OwnerKnowsItsScan
    <3> QED
      BY <3>1, <3>2
  <2>10. QueuedHasOutboxRow'
    <3> SUFFICES ASSUME NEW t \in Scans, scans'[t].status = "QUEUED"
                 PROVE  /\ scans'[t].attempt < MaxAttempts
                        /\ outbox'[t][scans'[t].attempt] # "none"
      BY DEF QueuedHasOutboxRow
    <3>0. scans[t].attempt \in Attempts /\ me.attempt \in Attempts
      BY <1>0 DEF TypeOK, ScanRow, WorkerRecord
    <3>1. CASE t = s
      <4>1. me.pc = "requeue"
        BY <2>3, <3>1
      <4>2. Owns(w) /\ me.dirty /\ me.attempt < MaxAttempts
        BY <4>1 DEF Owns, OwningPlaces, PlacesInv
      <4>3. scans'[t].attempt = me.attempt
        BY <2>3, <3>1, <4>2 DEF OwnerKnowsItsScan
      <4> QED
        BY <1>0, <1>2, <3>0, <3>1, <4>2, <4>3 DEF TypeOK
    <3>2. CASE t # s
      <4>1. scans'[t] = scans[t]
        BY <2>3, <3>2
      <4>2. outbox'[t] = outbox[t]
        BY <1>0, <1>2, <3>2 DEF TypeOK
      <4> QED
        BY <4>1, <4>2 DEF QueuedHasOutboxRow
    <3> QED
      BY <3>1, <3>2
  <2> QED
    BY <2>5, <2>7, <2>8, <2>9, <2>10
<1> QED
  BY <1>1, <1>2, TransitionCases

\* The claim: the row was QUEUED, so that nobody owned it, and had an attempt left.
LEMMA ClaimStep ==
  ASSUME OwnershipInv, NEW w \in Workers, Claim(w)
  PROVE  OwnershipInv'
<1> USE DEF OwnershipInv, ClaimMatches
<1> DEFINE me == workers[w]
           s  == workers[w].scan
           won == ClaimMatches(scans[s], me)
<1>0. /\ me \in WorkerRecord /\ me.pc = "loaded" /\ s \in Scans
      /\ me.stage = "prepare"
      /\ UNCHANGED <<outbox, queue, jobs, dispatchers, cancels, faults, redeliveries>>
  BY DEF Claim, TypeOK, PlacesInv
<1>1. CASE ~won
  <2>1. UNCHANGED scans /\ workers' = [workers EXCEPT ![w] = IdleWorker]
    BY <1>1 DEF Claim
  <2> QED
    BY <1>0, <2>1, IdleIsAWorker, LocalStep DEF TypeOK, OwningPlaces
<1>2. CASE won
  <2> DEFINE r   == [me EXCEPT !.pc = "validate", !.status = "PREPARING",
                               !.attempt = me.attempt + 1]
             row == [scans[s] EXCEPT !.status = "PREPARING", !.attempt = me.attempt + 1]
  <2>1. workers' = [workers EXCEPT ![w] = r] /\ scans' = [scans EXCEPT ![s] = row]
    BY <1>0, <1>2 DEF Claim, TypeOK, ScanRow
  <2>2. me.attempt + 1 \in Attempts
    BY <1>0, <1>2, ScanEngineAssumption DEF QueuedHasOutboxRow, Attempts, WorkerRecord
  <2>3. /\ r \in WorkerRecord
        /\ r.pc = "validate" /\ r.status = "PREPARING" /\ r.scan = s
        /\ r.attempt = me.attempt + 1 /\ r.stage = "prepare" /\ r.dirty = me.dirty
    BY <1>0, <2>2 DEF WorkerRecord, WorkerPlaces, ScanStatus, ExecutingStatuses
  <2>4. /\ row \in ScanRow /\ row.status = "PREPARING" /\ row.attempt = me.attempt + 1
    <3>1. scans[s] \in ScanRow
      BY <1>0 DEF TypeOK
    <3> QED
      BY <2>2, <3>1 DEF ScanRow, ScanStatus, ExecutingStatuses
  <2>5. ~me.dirty
    BY <1>0 DEF PlacesInv
  <2> HIDE DEF r, row
  <2>6. /\ workers'[w] = r /\ scans'[s] = row
        /\ \A v \in Workers : v # w => workers'[v] = workers[v]
        /\ \A t \in Scans : t # s => scans'[t] = scans[t]
    BY <1>0, <2>1 DEF TypeOK
  <2>7. \A v \in Workers : ~(Owns(v) /\ workers[v].scan = s)
    BY <1>2 DEF OwnerKnowsItsScan, PlacesInv, ExecutingStatuses
  <2>8. TypeOK'
    BY <1>0, <2>1, <2>3, <2>4 DEF TypeOK
  <2>9. PlacesInv'
    <3>1. PlaceOf(r)
      BY <1>0, <2>3, <2>5 DEF PlaceOf, OwningPlaces, ExecutingStatuses
    <3>2. \A v \in Workers : PlaceOf(workers'[v])
      BY <2>6, <3>1, PlacesOfWorkers
    <3> QED
      BY <1>0, <3>2 DEF PlacesInv, PlaceOf, Owns
  <2>10. SingleOwner'
    BY <2>3, <2>6, <2>7 DEF SingleOwner, Owns
  <2>11. OwnerKnowsItsScan'
    <3> SUFFICES ASSUME NEW v \in Workers, Owns(v)'
                 PROVE  /\ scans'[workers'[v].scan].attempt = workers'[v].attempt
                        /\ scans'[workers'[v].scan].status
                             \in {workers'[v].status, "CANCELLED"}
      BY DEF OwnerKnowsItsScan
    <3>1. CASE v = w
      BY <2>3, <2>4, <2>6, <3>1
    <3>2. CASE v # w
      <4>1. Owns(v) /\ workers[v].scan \in Scans /\ workers[v].scan # s
        BY <2>6, <2>7, <3>2 DEF Owns, PlacesInv, OwningPlaces
      <4> QED
        BY <2>6, <3>2, <4>1 DEF OwnerKnowsItsScan
    <3> QED
      BY <3>1, <3>2
  <2>12. QueuedHasOutboxRow'
    BY <1>0, <2>4, <2>6 DEF QueuedHasOutboxRow
  <2> QED
    BY <2>8, <2>9, <2>10, <2>11, <2>12
<1> QED
  BY <1>1, <1>2

\* A step that leaves the workers alone keeps the invariant if it changes rows only
\* as a creation (ABSENT to QUEUED, with its outbox row), a cancellation of the row
\* that was believed, or the capture of a job id does.
LEMMA OutsideStep ==
  ASSUME OwnershipInv,
         UNCHANGED workers,
         TypeOK',
         \A d \in Dispatchers : dispatchers'[d].pc # "idle" => dispatchers'[d].scan \in Scans,
         \A c \in Cancellers : cancels'[c].pc # "idle" => cancels'[c].scan \in Scans,
         \A s \in Scans, a \in Attempts : outbox[s][a] # "none" => outbox'[s][a] # "none",
         \A s \in Scans :
           \/ scans'[s].status = scans[s].status /\ scans'[s].attempt = scans[s].attempt
           \/ scans'[s].status = "CANCELLED" /\ scans'[s].attempt = scans[s].attempt
           \/ /\ scans[s].status = "ABSENT"
              /\ scans'[s].status = "QUEUED"
              /\ scans'[s].attempt = 0
              /\ outbox'[s][0] # "none"
  PROVE  OwnershipInv'
<1> USE DEF OwnershipInv
<1>1. PlacesInv'
  BY DEF PlacesInv, Owns
<1>2. SingleOwner'
  BY DEF SingleOwner, Owns
<1>3. OwnerKnowsItsScan'
  <2> SUFFICES ASSUME NEW w \in Workers, Owns(w)
               PROVE  /\ scans'[workers[w].scan].attempt = workers[w].attempt
                      /\ scans'[workers[w].scan].status \in {workers[w].status, "CANCELLED"}
    BY DEF OwnerKnowsItsScan, Owns
  <2>1. workers[w].scan \in Scans /\ scans[workers[w].scan].status # "ABSENT"
    BY DEF OwnerKnowsItsScan, PlacesInv, Owns, OwningPlaces, ExecutingStatuses
  <2> QED
    BY <2>1 DEF OwnerKnowsItsScan
<1>4. QueuedHasOutboxRow'
  <2> SUFFICES ASSUME NEW s \in Scans, scans'[s].status = "QUEUED"
               PROVE  scans'[s].attempt < MaxAttempts /\ outbox'[s][scans'[s].attempt] # "none"
    BY DEF QueuedHasOutboxRow
  <2>1. CASE scans[s].status = "ABSENT" /\ scans'[s].attempt = 0 /\ outbox'[s][0] # "none"
    BY <2>1, ScanEngineAssumption
  <2>2. CASE scans[s].status = "QUEUED" /\ scans'[s].attempt = scans[s].attempt
    <3>1. scans[s].attempt \in Attempts
      BY DEF TypeOK, ScanRow
    <3> QED
      BY <2>2, <3>1 DEF QueuedHasOutboxRow
  <2> QED
    BY <2>1, <2>2
<1> QED
  BY <1>1, <1>2, <1>3, <1>4

-----------------------------------------------------------------------------
(* One lemma per action of a worker                                          *)

\* A worker takes a message and reads the scan it is about.
LEMMA ReceiveStep ==
  ASSUME OwnershipInv, NEW w \in Workers, NEW m \in queue, NEW again \in BOOLEAN,
         Receive(w, m, again)
  PROVE  OwnershipInv'
<1> USE DEF OwnershipInv
<1> DEFINE loaded == [IdleWorker EXCEPT !.pc = "loaded", !.scan = m.scan,
                        !.status = "QUEUED", !.attempt = scans[m.scan].attempt]
<1>1. PICK r \in {loaded, IdleWorker} : workers' = [workers EXCEPT ![w] = r]
  BY DEF Receive
<1>2. m \in Message /\ m.scan \in Scans /\ m.attempt \in Attempts
      /\ scans[m.scan].attempt \in Attempts
  BY DEF TypeOK, Message, ScanRow
<1>3. loaded \in WorkerRecord /\ PlaceOf(loaded) /\ loaded.pc = "loaded"
  BY <1>2, ScanEngineAssumption
  DEF IdleWorker, WorkerRecord, WorkerPlaces, PlaceOf, OwningPlaces, Stages, ScanStatus
<1>4. r \in WorkerRecord /\ PlaceOf(r) /\ r.pc \notin OwningPlaces
  BY <1>3, IdleIsAWorker DEF OwningPlaces
<1>5. redeliveries' \in 0 .. MaxRedeliveries
  BY ScanEngineAssumption DEF Receive, TypeOK
<1> HIDE DEF loaded
<1> QED
  BY <1>1, <1>4, <1>5, LocalStep DEF Receive, TypeOK

\* The steps that end in `transition` and in nothing else.
LEMMA TransitionSteps ==
  ASSUME OwnershipInv, NEW w \in Workers,
         \/ FailUnregistered(w)
         \/ Advance(w)
         \/ HandleTimeout(w)
         \/ Requeue(w)
         \/ FinalizeFailed(w)
  PROVE  OwnershipInv'
<1> USE DEF InStages, InsideTry, OutsideTry, ScanStatus, TerminalStatuses, WorkerRest
<1>1. CASE FailUnregistered(w)
  BY <1>1, TransitionStep DEF FailUnregistered
<1>2. CASE Advance(w)
  <2> DEFINE stage == workers[w].stage
             next  == InStages(IF stage = "done" THEN "cleanup" ELSE "call")
  <2>1. /\ workers[w].pc = "advance" /\ Owns(w)
        /\ Transition(w, StageStatus[stage], next)
        /\ UNCHANGED WorkerRest
    BY <1>2 DEF Advance, Owns, OwningPlaces
  <2>2. stage \in {"execute", "collect", "process", "done"}
    BY <2>1 DEF OwnershipInv, PlacesInv, TypeOK, WorkerRecord, Stages
  <2>3. /\ StageStatus[stage] \in {"RUNNING", "COLLECTING", "PROCESSING", "SUCCEEDED"}
        /\ stage # "done" => StageStatus[stage] \in ExecutingStatuses /\ stage \in Stages
    BY <2>2 DEF StageStatus, ExecutingStatuses, Stages
  <2>4. /\ next \in [ok : {"cleanup", "call"}, stale : {"stale", "raised", "finalize"},
                     invalid : {"abort", "raised", "finalize"}]
        /\ next.ok = "call" => stage # "done"
    OBVIOUS
  <2> HIDE DEF next
  <2> QED
    BY <2>1, <2>3, <2>4, TransitionStep DEF ExecutingStatuses
<1>3. CASE HandleTimeout(w)
  BY <1>3, TransitionStep DEF HandleTimeout, Owns, OwningPlaces
<1>4. CASE Requeue(w)
  BY <1>4, TransitionStep DEF Requeue, Owns, OwningPlaces
<1>5. CASE FinalizeFailed(w)
  BY <1>5, TransitionStep DEF FinalizeFailed, Owns, OwningPlaces
<1> QED
  BY <1>1, <1>2, <1>3, <1>4, <1>5

\* Committing the session's outbox row, if there is one, loses no row.
LEMMA OutboxGrows ==
  ASSUME TypeOK, NEW me \in WorkerRecord, me.scan \in Scans,
         Flush(me) \/ UNCHANGED outbox
  PROVE  /\ outbox' \in [Scans -> [Attempts -> {"none", "pending", "published"}]]
         /\ \A s \in Scans, a \in Attempts : outbox[s][a] # "none" => outbox'[s][a] # "none"
<1>1. me.attempt \in Attempts
  BY DEF WorkerRecord
<1>2. CASE UNCHANGED outbox
  BY <1>2 DEF TypeOK
<1>3. CASE outbox' = [outbox EXCEPT ![me.scan][me.attempt] = "pending"]
  BY <1>1, <1>3 DEF TypeOK
<1> QED
  BY <1>2, <1>3 DEF Flush

\* The steps of a worker that touch neither table, or only add its retry row.
LEMMA LocalSteps ==
  ASSUME OwnershipInv, NEW w \in Workers,
         \/ AssertNotCancelled(w)
         \/ \E outcome \in Outcomes : RunStage(w, outcome)
         \/ HandleStaleState(w)
         \/ Cleanup(w)
         \/ CleanupAndRaise(w)
         \/ TaskFails(w)
         \/ WorkerCrash(w)
         \/ DatabaseFault(w)
  PROVE  OwnershipInv'
<1> USE DEF OwnershipInv
<1> DEFINE me == workers[w]
<1>0. me \in WorkerRecord /\ PlaceOf(me)
  BY PlacesOfWorkers DEF TypeOK
<1>1. CASE AssertNotCancelled(w)
  <2> DEFINE now == scans[me.scan].status
             place == IF now = "CANCELLED" THEN "cancelled"
                      ELSE IF me.stage = "prepare" THEN "call" ELSE "advance"
             r == [me EXCEPT !.status = now, !.pc = place]
  <2>1. me.pc = "check" /\ Owns(w) /\ me.scan \in Scans /\ me.stage \in Stages
    BY <1>1 DEF AssertNotCancelled, Owns, OwningPlaces, PlacesInv
  <2>2. now \in {me.status, "CANCELLED"} /\ now \in ExecutingStatuses \cup {"CANCELLED"}
    BY <2>1 DEF OwnerKnowsItsScan, PlacesInv
  <2>3. r \in WorkerRecord /\ r.scan = me.scan /\ r.attempt = me.attempt /\ r.status = now
    <3>1. place \in WorkerPlaces /\ now \in ScanStatus
      BY <2>2 DEF WorkerPlaces, ScanStatus, TerminalStatuses
    <3> HIDE DEF place, now
    <3> QED
      BY <1>0, <3>1 DEF WorkerRecord
  <2>4. PlaceOf(r)
    BY <1>0, <2>1, <2>2 DEF PlaceOf, OwningPlaces, WorkerRecord
  <2>5. workers' = [workers EXCEPT ![w] = r]
    BY <1>1 DEF AssertNotCancelled
  <2> HIDE DEF r
  <2> QED
    BY <1>1, <2>1, <2>3, <2>4, <2>5, LocalStep DEF AssertNotCancelled, TypeOK
<1>2. CASE \E outcome \in Outcomes : RunStage(w, outcome)
  <2> PICK outcome \in Outcomes : RunStage(w, outcome)
    BY <1>2
  <2>1. me.pc = "call" /\ Owns(w) /\ me.stage \in Stages /\ me.scan \in Scans /\ ~me.dirty
    BY DEF RunStage, Owns, OwningPlaces, PlacesInv
  <2>2. PICK r : /\ workers' = [workers EXCEPT ![w] = r]
                 /\ r \in { [me EXCEPT !.stage = NextStage[me.stage],
                               !.pc = IF me.stage = "process" THEN "advance" ELSE "check"],
                             [me EXCEPT !.pc = "timed_out"],
                             [me EXCEPT !.pc = "cancelled"],
                             HandleFailure(me, outcome) }
    BY DEF RunStage, Outcomes
  <2>3. NextStage[me.stage] \in Stages \cup {"done"} /\ NextStage[me.stage] # "prepare"
        /\ (me.stage # "process" => NextStage[me.stage] \in Stages)
    BY <2>1 DEF NextStage, Stages
  <2>4. \/ r = [me EXCEPT !.stage = NextStage[me.stage],
                         !.pc = IF me.stage = "process" THEN "advance" ELSE "check"]
        \/ \E place \in {"timed_out", "cancelled", "abort", "finalize"} :
             r = [me EXCEPT !.pc = place]
        \/ me.attempt < MaxAttempts /\ r = [me EXCEPT !.pc = "requeue", !.dirty = TRUE]
    BY <2>2 DEF HandleFailure
  <2>5. /\ r \in WorkerRecord
        /\ r.scan = me.scan /\ r.attempt = me.attempt /\ r.status = me.status
    BY <1>0, <2>3, <2>4 DEF WorkerRecord, WorkerPlaces
  <2>6. PlaceOf(r)
    <3>1. me.status \in ExecutingStatuses \cup {"CANCELLED"}
      BY <2>1 DEF PlacesInv
    <3>2. CASE r = [me EXCEPT !.stage = NextStage[me.stage],
                            !.pc = IF me.stage = "process" THEN "advance" ELSE "check"]
      BY <1>0, <2>1, <2>3, <3>1, <3>2 DEF PlaceOf, OwningPlaces, WorkerRecord
    <3>3. CASE \E place \in {"timed_out", "cancelled", "abort", "finalize"} :
                 r = [me EXCEPT !.pc = place]
      BY <1>0, <2>1, <3>1, <3>3 DEF PlaceOf, OwningPlaces, WorkerRecord
    <3>4. CASE me.attempt < MaxAttempts /\ r = [me EXCEPT !.pc = "requeue", !.dirty = TRUE]
      BY <1>0, <2>1, <3>1, <3>4 DEF PlaceOf, OwningPlaces, WorkerRecord
    <3> QED
      BY <2>4, <3>2, <3>3, <3>4
  <2> QED
    BY <2>1, <2>2, <2>5, <2>6, LocalStep DEF RunStage, TypeOK
<1>3. CASE HandleStaleState(w)
  <2>1. me.pc = "stale" /\ me.scan \in Scans
    BY <1>3 DEF HandleStaleState, PlacesInv
  <2>2. PICK r : /\ workers' = [workers EXCEPT ![w] = r]
                 /\ r = [me EXCEPT !.pc = "cleanup", !.status = scans[me.scan].status,
                           !.dirty = me.dirty /\ scans[me.scan].status # "CANCELLED"]
    BY <1>3 DEF HandleStaleState
  <2>3. scans[me.scan].status \in ScanStatus \cup {"ABSENT"}
    BY <2>1 DEF TypeOK, ScanRow
  <2>4. r \in WorkerRecord /\ PlaceOf(r) /\ r.pc = "cleanup"
    BY <1>0, <2>1, <2>2, <2>3 DEF WorkerRecord, WorkerPlaces, PlaceOf, OwningPlaces
  <2>5. /\ outbox' \in [Scans -> [Attempts -> {"none", "pending", "published"}]]
        /\ \A s \in Scans, a \in Attempts : outbox[s][a] # "none" => outbox'[s][a] # "none"
    BY <1>0, <1>3, <2>1, OutboxGrows DEF HandleStaleState
  <2> QED
    BY <1>3, <2>2, <2>4, <2>5, LocalStep DEF HandleStaleState, TypeOK, OwningPlaces
<1>4. CASE Cleanup(w)
  <2>1. me.scan \in Scans
    BY <1>4 DEF Cleanup, PlacesInv
  <2>2. /\ outbox' \in [Scans -> [Attempts -> {"none", "pending", "published"}]]
        /\ \A s \in Scans, a \in Attempts : outbox[s][a] # "none" => outbox'[s][a] # "none"
    BY <1>0, <1>4, <2>1, OutboxGrows DEF Cleanup
  <2> QED
    BY <1>4, <2>2, IdleIsAWorker, LocalStep DEF Cleanup, TypeOK, OwningPlaces
<1>5. CASE CleanupAndRaise(w)
  <2> DEFINE r == [me EXCEPT !.pc = "raised"]
  <2>1. r \in WorkerRecord /\ PlaceOf(r) /\ r.pc = "raised"
    BY <1>0, <1>5 DEF CleanupAndRaise, WorkerRecord, WorkerPlaces, PlaceOf, OwningPlaces
  <2>2. workers' = [workers EXCEPT ![w] = r]
    BY <1>5 DEF CleanupAndRaise
  <2> HIDE DEF r
  <2> QED
    BY <1>5, <2>1, <2>2, LocalStep DEF CleanupAndRaise, TypeOK, OwningPlaces
<1>6. CASE TaskFails(w)
  BY <1>6, IdleIsAWorker, LocalStep DEF TaskFails, TypeOK, OwningPlaces
<1>7. CASE WorkerCrash(w)
  <2>1. faults' \in 0 .. MaxFaults
    BY <1>7, ScanEngineAssumption DEF WorkerCrash, TypeOK
  <2> QED
    BY <1>7, <2>1, IdleIsAWorker, LocalStep DEF WorkerCrash, TypeOK, OwningPlaces
<1>8. CASE DatabaseFault(w)
  <2>1. PICK place \in {"raised", "abort"} :
          workers' = [workers EXCEPT ![w] = [me EXCEPT !.dirty = FALSE, !.pc = place]]
    BY <1>0, <1>8 DEF DatabaseFault, WorkerRecord, TypeOK
  <2> DEFINE r == [me EXCEPT !.dirty = FALSE, !.pc = place]
  <2>2. r \in WorkerRecord /\ PlaceOf(r) /\ r.pc \notin OwningPlaces
    BY <1>0, <1>8 DEF DatabaseFault, WorkerRecord, WorkerPlaces, PlaceOf, OwningPlaces
  <2>3. faults' \in 0 .. MaxFaults
    BY <1>8, ScanEngineAssumption DEF DatabaseFault, TypeOK
  <2> HIDE DEF r
  <2> QED
    BY <1>8, <2>1, <2>2, <2>3, LocalStep DEF DatabaseFault, TypeOK, r
<1> QED
  BY <1>1, <1>2, <1>3, <1>4, <1>5, <1>6, <1>7, <1>8

\* The two steps that call `transition` in one of their branches.
LEMMA BranchingSteps ==
  ASSUME OwnershipInv, NEW w \in Workers,
         ValidateConfig(w) \/ HandleCancelled(w)
  PROVE  OwnershipInv'
<1> DEFINE me == workers[w]
<1>0. Owns(w) /\ me \in WorkerRecord /\ PlaceOf(me) /\ UNCHANGED WorkerRest
  BY PlacesOfWorkers
  DEF OwnershipInv, TypeOK, ValidateConfig, HandleCancelled, Owns, OwningPlaces, WorkerRest
<1>1. CASE \E target \in {"FAILED", "CANCELLED"} :
             \/ Transition(w, target, InsideTry("cleanup"))
             \/ Transition(w, target, OutsideTry("cleanup"))
  BY <1>0, <1>1, TransitionStep DEF InsideTry, OutsideTry, ScanStatus, TerminalStatuses
<1>2. CASE /\ UNCHANGED <<scans, outbox>>
           /\ \/ /\ me.pc = "validate"
                 /\ workers' = [workers EXCEPT ![w] = [me EXCEPT !.pc = "check"]]
              \/ workers' = [workers EXCEPT ![w] = [me EXCEPT !.pc = "raised"]]
              \/ workers' = [workers EXCEPT ![w] = [me EXCEPT !.pc = "cleanup"]]
  <2> PICK place \in {"check", "raised", "cleanup"} :
        /\ workers' = [workers EXCEPT ![w] = [me EXCEPT !.pc = place]]
        /\ place = "check" => me.pc = "validate"
    BY <1>2
  <2> DEFINE r == [me EXCEPT !.pc = place]
  <2>1. /\ r \in WorkerRecord /\ r.pc = place
        /\ r.scan = me.scan /\ r.attempt = me.attempt /\ r.status = me.status
    BY <1>0 DEF WorkerRecord, WorkerPlaces
  <2>2. PlaceOf(r)
    BY <1>0 DEF PlaceOf, WorkerRecord, OwningPlaces, Owns, Stages
  <2>3. workers' = [workers EXCEPT ![w] = r]
    OBVIOUS
  <2> HIDE DEF r
  <2> QED
    BY <1>0, <1>2, <2>1, <2>2, <2>3, LocalStep DEF OwnershipInv, TypeOK, WorkerRest
<1> QED
  BY <1>1, <1>2 DEF ValidateConfig, HandleCancelled

-----------------------------------------------------------------------------
(* One lemma for the actions of everybody else                               *)

LEMMA RequestSteps ==
  ASSUME OwnershipInv,
         \/ \E s \in Scans : CreateScan(s)
         \/ \E o, s \in Scans : RetryScan(o, s)
         \/ \E c \in Cancellers, s \in Scans : CancelRead(c, s)
         \/ \E c \in Cancellers : CancelTransition(c)
         \/ \E c \in Cancellers : CancelRevoke(c)
  PROVE  OwnershipInv'
<1> USE DEF OwnershipInv
<1>1. ASSUME NEW s \in Scans, NEW origin \in Scans \cup {None},
             scans[s].status = "ABSENT", Enqueue(s, origin),
             UNCHANGED <<queue, jobs, workers, dispatchers, cancels, faults, redeliveries>>
      PROVE  OwnershipInv'
  <2> DEFINE inserted == [AbsentScan EXCEPT !.status = "PENDING", !.retryOf = origin]
  <2>1. inserted \in ScanRow /\ inserted.attempt = 0
    <3>1. 0 \in Attempts /\ 0 \in Nat
      BY ScanEngineAssumption DEF Attempts
    <3> QED
      BY <3>1 DEF AbsentScan, ScanRow, ScanStatus
  <2>2. /\ Moved(inserted, "QUEUED") \in ScanRow
        /\ Moved(inserted, "QUEUED").status = "QUEUED"
        /\ Moved(inserted, "QUEUED").attempt = 0
    BY <2>1, MovedRow DEF ScanStatus
  <2>3. /\ scans' = [scans EXCEPT ![s] = Moved(inserted, "QUEUED")]
        /\ outbox' = [outbox EXCEPT ![s][0] = "pending"]
    BY <1>1 DEF Enqueue
  <2>4. 0 \in Attempts
    BY ScanEngineAssumption DEF Attempts
  <2> HIDE DEF inserted
  <2>5. TypeOK'
    BY <1>1, <2>2, <2>3, <2>4 DEF TypeOK
  <2>6. /\ outbox'[s][0] = "pending"
        /\ \A t \in Scans, a \in Attempts : outbox[t][a] # "none" => outbox'[t][a] # "none"
    BY <2>3, <2>4 DEF TypeOK
  <2>7. \A t \in Scans : t # s => scans'[t] = scans[t]
    BY <2>3 DEF TypeOK
  <2>8. scans'[s] = Moved(inserted, "QUEUED")
    BY <2>3 DEF TypeOK
  <2> QED
    BY <1>1, <2>2, <2>5, <2>6, <2>7, <2>8, OutsideStep DEF PlacesInv
<1>2. CASE \E s \in Scans : CreateScan(s)
  BY <1>1, <1>2 DEF CreateScan
<1>3. CASE \E o, s \in Scans : RetryScan(o, s)
  BY <1>1, <1>3 DEF RetryScan
<1>4. CASE \E c \in Cancellers, s \in Scans : CancelRead(c, s)
  <2> PICK c \in Cancellers, s \in Scans : CancelRead(c, s)
    BY <1>4
  <2> DEFINE r == [pc |-> "transition", scan |-> s, status |-> scans[s].status,
                   job |-> scans[s].job]
  <2>1. r \in CancelRecord /\ r.scan = s
    BY DEF CancelRecord, TypeOK, ScanRow
  <2>2. cancels' = [cancels EXCEPT ![c] = r]
    BY DEF CancelRead
  <2> HIDE DEF r
  <2>3. TypeOK'
    BY <2>1, <2>2 DEF CancelRead, TypeOK
  <2>4. \A b \in Cancellers : cancels'[b].pc # "idle" => cancels'[b].scan \in Scans
    BY <2>1, <2>2 DEF PlacesInv, TypeOK
  <2> QED
    BY <2>3, <2>4, OutsideStep DEF CancelRead, PlacesInv
<1>5. CASE \E c \in Cancellers : CancelTransition(c)
  <2> PICK c \in Cancellers : CancelTransition(c)
    BY <1>5
  <2> DEFINE s == cancels[c].scan
  <2>1. s \in Scans /\ cancels[c] \in CancelRecord
    BY DEF CancelTransition, PlacesInv, TypeOK
  <2>2. /\ Moved(scans[s], "CANCELLED") \in ScanRow
        /\ Moved(scans[s], "CANCELLED").status = "CANCELLED"
        /\ Moved(scans[s], "CANCELLED").attempt = scans[s].attempt
    BY <2>1, MovedRow DEF TypeOK, ScanStatus, TerminalStatuses
  <2>3. \/ scans' = [scans EXCEPT ![s] = Moved(@, "CANCELLED")]
        \/ UNCHANGED scans
    BY DEF CancelTransition
  <2>4. /\ scans' \in [Scans -> ScanRow]
        /\ \A t \in Scans :
             \/ scans'[t] = scans[t]
             \/ scans'[t].status = "CANCELLED" /\ scans'[t].attempt = scans[t].attempt
    BY <2>1, <2>2, <2>3 DEF TypeOK
  <2>5. PICK r \in {[cancels[c] EXCEPT !.pc = "revoke"], IdleCancel} :
          cancels' = [cancels EXCEPT ![c] = r]
    BY DEF CancelTransition
  <2>6. r \in CancelRecord /\ (r.pc # "idle" => r.scan \in Scans)
    BY <2>1, <2>5 DEF CancelRecord, IdleCancel
  <2>7. TypeOK'
    BY <2>4, <2>5, <2>6 DEF CancelTransition, TypeOK
  <2>8. \A b \in Cancellers : cancels'[b].pc # "idle" => cancels'[b].scan \in Scans
    BY <2>5, <2>6 DEF PlacesInv, TypeOK
  <2> QED
    BY <2>4, <2>7, <2>8, OutsideStep DEF CancelTransition, PlacesInv
<1>6. CASE \E c \in Cancellers : CancelRevoke(c)
  <2> PICK c \in Cancellers : CancelRevoke(c)
    BY <1>6
  <2>1. IdleCancel \in CancelRecord /\ IdleCancel.pc = "idle"
    BY DEF IdleCancel, CancelRecord
  <2>2. TypeOK'
    BY <2>1 DEF CancelRevoke, TypeOK
  <2>3. \A b \in Cancellers : cancels'[b].pc # "idle" => cancels'[b].scan \in Scans
    BY <2>1 DEF CancelRevoke, PlacesInv, TypeOK
  <2> QED
    BY <2>2, <2>3, OutsideStep DEF CancelRevoke, PlacesInv
<1> QED
  BY <1>2, <1>3, <1>4, <1>5, <1>6

LEMMA DispatcherSteps ==
  ASSUME OwnershipInv, NEW d \in Dispatchers,
         \/ \E s \in Scans, a \in Attempts : DispatchClaim(d, s, a)
         \/ DispatchSend(d)
         \/ DispatchRecord(d)
         \/ DispatchFault(d)
  PROVE  OwnershipInv'
<1> USE DEF OwnershipInv
<1> DEFINE me == dispatchers[d]
<1>0. /\ me \in DispatcherRecord
      /\ me.pc # "idle" => me.scan \in Scans
  BY DEF TypeOK, PlacesInv
<1>1. ASSUME NEW r \in DispatcherRecord, dispatchers' = [dispatchers EXCEPT ![d] = r],
             r.pc # "idle" => r.scan \in Scans
      PROVE  /\ dispatchers' \in [Dispatchers -> DispatcherRecord]
             /\ \A e \in Dispatchers : dispatchers'[e].pc # "idle" => dispatchers'[e].scan \in Scans
  BY <1>1 DEF TypeOK, PlacesInv
<1>2. IdleDispatcher \in DispatcherRecord /\ IdleDispatcher.pc = "idle"
  BY ScanEngineAssumption DEF IdleDispatcher, DispatcherRecord, Attempts
<1>3. CASE \E s \in Scans, a \in Attempts : DispatchClaim(d, s, a)
  <2> PICK s \in Scans, a \in Attempts : DispatchClaim(d, s, a)
    BY <1>3
  <2> DEFINE r == [pc |-> "claimed", scan |-> s, attempt |-> a, job |-> 0]
  <2>1. r \in DispatcherRecord /\ r.scan \in Scans /\ dispatchers' = [dispatchers EXCEPT ![d] = r]
    BY DEF DispatcherRecord, DispatchClaim
  <2> HIDE DEF r
  <2>2. /\ dispatchers' \in [Dispatchers -> DispatcherRecord]
        /\ \A e \in Dispatchers : dispatchers'[e].pc # "idle" => dispatchers'[e].scan \in Scans
    BY <1>1, <2>1
  <2> QED
    BY <2>2, OutsideStep DEF DispatchClaim, TypeOK, PlacesInv
<1>4. CASE DispatchSend(d)
  <2> DEFINE job == jobs[me.scan] + 1
             r == [me EXCEPT !.pc = "sent", !.job = job]
             m == [scan |-> me.scan, attempt |-> me.attempt, job |-> job]
  <2>1. /\ me.scan \in Scans /\ job \in Nat
        /\ jobs' = [jobs EXCEPT ![me.scan] = job]
        /\ queue' = queue \cup {m}
        /\ dispatchers' = [dispatchers EXCEPT ![d] = r]
    BY <1>0, <1>4 DEF DispatchSend, TypeOK
  <2>2. r \in DispatcherRecord /\ r.scan \in Scans /\ m \in Message
    BY <1>0, <2>1 DEF DispatcherRecord, Message
  <2> HIDE DEF r, m, job
  <2>3. /\ dispatchers' \in [Dispatchers -> DispatcherRecord]
        /\ \A e \in Dispatchers : dispatchers'[e].pc # "idle" => dispatchers'[e].scan \in Scans
    BY <1>1, <2>1, <2>2
  <2>4. TypeOK'
    BY <1>4, <2>1, <2>2, <2>3 DEF DispatchSend, TypeOK
  <2> QED
    BY <1>4, <2>3, <2>4, OutsideStep DEF DispatchSend, PlacesInv
<1>5. CASE DispatchRecord(d)
  <2> DEFINE row == [scans[me.scan] EXCEPT !.job = me.job]
  <2>1. /\ me.scan \in Scans /\ me.attempt \in Attempts /\ me.job \in Nat
        /\ scans[me.scan] \in ScanRow
    BY <1>0, <1>5 DEF DispatchRecord, DispatcherRecord, TypeOK
  <2>2. row \in ScanRow /\ row.status = scans[me.scan].status
        /\ row.attempt = scans[me.scan].attempt
    BY <2>1 DEF ScanRow
  <2>3. /\ scans' = [scans EXCEPT ![me.scan] = row]
        /\ outbox' = [outbox EXCEPT ![me.scan][me.attempt] = "published"]
        /\ dispatchers' = [dispatchers EXCEPT ![d] = IdleDispatcher]
    BY <1>5 DEF DispatchRecord
  <2> HIDE DEF row
  <2>4. /\ dispatchers' \in [Dispatchers -> DispatcherRecord]
        /\ \A e \in Dispatchers : dispatchers'[e].pc # "idle" => dispatchers'[e].scan \in Scans
    BY <1>1, <1>2, <2>3
  <2>5. TypeOK'
    BY <1>5, <2>1, <2>2, <2>3, <2>4 DEF DispatchRecord, TypeOK
  <2>6. \A t \in Scans : scans'[t].status = scans[t].status /\ scans'[t].attempt = scans[t].attempt
    BY <2>2, <2>3 DEF TypeOK
  <2>7. \A t \in Scans, a \in Attempts : outbox[t][a] # "none" => outbox'[t][a] # "none"
    BY <2>1, <2>3 DEF TypeOK
  <2> QED
    BY <1>5, <2>4, <2>5, <2>6, <2>7, OutsideStep DEF DispatchRecord, PlacesInv
<1>6. CASE DispatchFault(d)
  <2>1. /\ dispatchers' \in [Dispatchers -> DispatcherRecord]
        /\ \A e \in Dispatchers : dispatchers'[e].pc # "idle" => dispatchers'[e].scan \in Scans
    BY <1>1, <1>2, <1>6 DEF DispatchFault
  <2>2. faults' \in 0 .. MaxFaults
    BY <1>6, ScanEngineAssumption DEF DispatchFault, TypeOK
  <2>3. TypeOK'
    BY <1>6, <2>1, <2>2 DEF DispatchFault, TypeOK
  <2> QED
    BY <1>6, <2>1, <2>3, OutsideStep DEF DispatchFault, PlacesInv
<1> QED
  BY <1>3, <1>4, <1>5, <1>6

-----------------------------------------------------------------------------
(* Theorems                                                                  *)

\* Every step of the specification preserves the invariant.
LEMMA NextOwnership ==
  ASSUME OwnershipInv, [Next]_vars
  PROVE  OwnershipInv'
<1>1. CASE UNCHANGED vars
  BY <1>1 DEF vars, OwnershipInv, TypeOK, PlacesInv, SingleOwner, OwnerKnowsItsScan,
              QueuedHasOutboxRow, Owns
<1>2. CASE \/ \E s \in Scans : CreateScan(s)
           \/ \E o, s \in Scans : RetryScan(o, s)
           \/ \E c \in Cancellers, s \in Scans : CancelRead(c, s)
           \/ \E c \in Cancellers : CancelStep(c)
  BY <1>2, RequestSteps DEF CancelStep
<1>3. CASE \/ \E d \in Dispatchers, s \in Scans, a \in Attempts : DispatchClaim(d, s, a)
           \/ \E d \in Dispatchers : DispatcherStep(d) \/ DispatchFault(d)
  BY <1>3, DispatcherSteps DEF DispatcherStep
<1>4. CASE \E w \in Workers, m \in queue, again \in BOOLEAN : Receive(w, m, again)
  BY <1>4, ReceiveStep
<1>5. CASE \E w \in Workers : WorkerStep(w) \/ WorkerCrash(w) \/ DatabaseFault(w)
  BY <1>5, ClaimStep, TransitionSteps, BranchingSteps, LocalSteps DEF WorkerStep
<1> QED
  BY <1>1, <1>2, <1>3, <1>4, <1>5 DEF Next

\* The ownership invariant holds in every reachable state of the scan engine.
THEOREM OwnershipHolds == Spec => []OwnershipInv
<1>1. Init => OwnershipInv
  BY InitOwnership
<1>2. OwnershipInv /\ [Next]_vars => OwnershipInv'
  BY NextOwnership
<1> QED
  BY <1>1, <1>2, PTL DEF Spec

\* The tables, the queue and every process keep their types; in particular `attempt`
\* never exceeds max_attempts, for any number of workers, duplicates and faults.
THEOREM TypeCorrect == Spec => []TypeOK
<1>1. OwnershipInv => TypeOK
  BY DEF OwnershipInv
<1> QED
  BY <1>1, OwnershipHolds, PTL

\* claim_for_execution gives a scan to one worker at a time, without any lock but
\* the row's, whatever the queue duplicates and whoever crashes.
THEOREM OwnershipIsExclusive == Spec => []SingleOwner
<1>1. OwnershipInv => SingleOwner
  BY DEF OwnershipInv
<1> QED
  BY <1>1, OwnershipHolds, PTL

\* An owner's view of its scan can only be outdated by a cancellation.
THEOREM OwnerIsUpToDate == Spec => []OwnerKnowsItsScan
<1>1. OwnershipInv => OwnerKnowsItsScan
  BY DEF OwnershipInv
<1> QED
  BY <1>1, OwnershipHolds, PTL

\* A QUEUED scan has an attempt left and the outbox row that will dispatch it.
THEOREM QueuedIsDispatchable == Spec => []QueuedHasOutboxRow
<1>1. OwnershipInv => QueuedHasOutboxRow
  BY DEF OwnershipInv
<1> QED
  BY <1>1, OwnershipHolds, PTL

-----------------------------------------------------------------------------
(* Outcomes are final                                                        *)

\* What a step may do to a row: nothing but capture a job id, or anything if the
\* row had not ended.
KeepsOutcomes ==
  \A s \in Scans : scans[s].status \in TerminalStatuses =>
    /\ scans'[s].status = scans[s].status
    /\ scans'[s].attempt = scans[s].attempt
    /\ scans'[s].stamps = scans[s].stamps

\* Changing one row that had not ended keeps every outcome.
LEMMA LiveRowMoves ==
  ASSUME TypeOK, NEW s \in Scans, NEW row,
         scans' = [scans EXCEPT ![s] = row],
         scans[s].status \notin TerminalStatuses
  PROVE  KeepsOutcomes
BY DEF KeepsOutcomes, TypeOK

LEMMA TerminalHasNoEdge ==
  \A status \in TerminalStatuses : ValidTransitions[status] = {}
BY DEF TerminalStatuses, ValidTransitions

\* A conditional UPDATE that matched moved a row with an edge to the target.
LEMMA TransitionKeepsOutcomes ==
  ASSUME OwnershipInv, NEW w \in Workers, workers[w].pc # "idle",
         NEW target, NEW next, Transition(w, target, next)
  PROVE  KeepsOutcomes
<1>1. workers[w].scan \in Scans /\ TypeOK
  BY DEF OwnershipInv, PlacesInv
<1>2. CASE UNCHANGED scans
  BY <1>2 DEF KeepsOutcomes
<1>3. CASE /\ scans[workers[w].scan].status = workers[w].status
           /\ target \in ValidTransitions[workers[w].status]
           /\ scans' = [scans EXCEPT ![workers[w].scan] = Moved(@, target)]
  <2>1. scans[workers[w].scan].status \notin TerminalStatuses
    BY <1>3, TerminalHasNoEdge
  <2> QED
    BY <1>1, <1>3, <2>1, LiveRowMoves
<1> QED
  BY <1>2, <1>3, TransitionCases

LEMMA NextKeepsOutcomes ==
  ASSUME OwnershipInv, [Next]_vars
  PROVE  KeepsOutcomes
<1> USE DEF OwnershipInv
<1>0. ASSUME UNCHANGED scans PROVE KeepsOutcomes
  BY <1>0 DEF KeepsOutcomes
<1>1. CASE UNCHANGED vars
  BY <1>0, <1>1 DEF vars
<1>2. ASSUME NEW s \in Scans, NEW origin, scans[s].status = "ABSENT", Enqueue(s, origin)
      PROVE  KeepsOutcomes
  BY <1>2, LiveRowMoves DEF Enqueue, TerminalStatuses
<1>3. CASE \/ \E s \in Scans : CreateScan(s)
           \/ \E o, s \in Scans : RetryScan(o, s)
  BY <1>2, <1>3 DEF CreateScan, RetryScan
<1>4. ASSUME NEW c \in Cancellers, CancelTransition(c)
      PROVE  KeepsOutcomes
  <2>1. cancels[c].scan \in Scans
    BY <1>4 DEF CancelTransition, PlacesInv
  <2>2. CASE UNCHANGED scans
    BY <2>2, <1>0
  <2>3. CASE /\ scans[cancels[c].scan].status = cancels[c].status
             /\ "CANCELLED" \in ValidTransitions[cancels[c].status]
             /\ scans' = [scans EXCEPT ![cancels[c].scan] = Moved(@, "CANCELLED")]
    <3>1. scans[cancels[c].scan].status \notin TerminalStatuses
      BY <2>3, TerminalHasNoEdge
    <3> QED
      BY <2>1, <2>3, <3>1, LiveRowMoves
  <2> QED
    BY <1>4, <2>2, <2>3 DEF CancelTransition, TransitionResult
<1>5. CASE \/ \E c \in Cancellers, s \in Scans : CancelRead(c, s)
           \/ \E c \in Cancellers : CancelStep(c)
  BY <1>0, <1>4, <1>5 DEF CancelRead, CancelStep, CancelRevoke
<1>6. ASSUME NEW d \in Dispatchers, DispatchRecord(d)
      PROVE  KeepsOutcomes
  <2> DEFINE me  == dispatchers[d]
             row == [scans[me.scan] EXCEPT !.job = me.job]
  <2>1. me.scan \in Scans /\ scans[me.scan] \in ScanRow
    BY <1>6 DEF DispatchRecord, PlacesInv, TypeOK
  <2>2. /\ row.status = scans[me.scan].status
        /\ row.attempt = scans[me.scan].attempt
        /\ row.stamps = scans[me.scan].stamps
    BY <2>1 DEF ScanRow
  <2>3. scans' = [scans EXCEPT ![me.scan] = row]
    BY <1>6 DEF DispatchRecord
  <2> HIDE DEF row
  <2> QED
    BY <2>1, <2>2, <2>3 DEF KeepsOutcomes, TypeOK
<1>7. CASE \/ \E d \in Dispatchers, s \in Scans, a \in Attempts : DispatchClaim(d, s, a)
           \/ \E d \in Dispatchers : DispatcherStep(d) \/ DispatchFault(d)
  BY <1>0, <1>6, <1>7 DEF DispatchClaim, DispatcherStep, DispatchSend, DispatchFault
<1>8. CASE \E w \in Workers, m \in queue, again \in BOOLEAN : Receive(w, m, again)
  BY <1>0, <1>8 DEF Receive
<1>9. CASE \E w \in Workers : WorkerStep(w) \/ WorkerCrash(w) \/ DatabaseFault(w)
  <2> PICK w \in Workers : WorkerStep(w) \/ WorkerCrash(w) \/ DatabaseFault(w)
    BY <1>9
  <2>1. CASE \/ FailUnregistered(w)
             \/ ValidateConfig(w)
             \/ Advance(w)
             \/ HandleTimeout(w)
             \/ HandleCancelled(w)
             \/ Requeue(w)
             \/ FinalizeFailed(w)
    BY <1>0, <2>1, TransitionKeepsOutcomes
    DEF FailUnregistered, ValidateConfig, Advance, HandleTimeout, HandleCancelled,
        Requeue, FinalizeFailed
  <2>2. CASE Claim(w)
    <3>1. workers[w].scan \in Scans
      BY <2>2 DEF Claim, PlacesInv
    <3>2. \/ UNCHANGED scans
          \/ /\ scans[workers[w].scan].status = "QUEUED"
             /\ \E row : scans' = [scans EXCEPT ![workers[w].scan] = row]
      BY <2>2 DEF Claim, ClaimMatches
    <3> QED
      BY <1>0, <3>1, <3>2, LiveRowMoves DEF TerminalStatuses
  <2>3. CASE \/ AssertNotCancelled(w)
             \/ \E outcome \in Outcomes : RunStage(w, outcome)
             \/ HandleStaleState(w)
             \/ Cleanup(w)
             \/ CleanupAndRaise(w)
             \/ TaskFails(w)
             \/ WorkerCrash(w)
             \/ DatabaseFault(w)
    BY <1>0, <2>3
    DEF AssertNotCancelled, RunStage, HandleStaleState, Cleanup, CleanupAndRaise,
        TaskFails, WorkerCrash, DatabaseFault
  <2> QED
    BY <2>1, <2>2, <2>3 DEF WorkerStep
<1> QED
  BY <1>1, <1>3, <1>5, <1>7, <1>8, <1>9 DEF Next

\* A terminal status, its attempt and its timestamps are never changed again: a
\* cancelled scan is not completed later, and a completed one is not cancelled.
THEOREM OutcomesAreFinal == Spec => TerminalIsFinal
<1>1. OwnershipInv /\ [Next]_vars => [KeepsOutcomes]_vars
  BY NextKeepsOutcomes
<1>2. [][KeepsOutcomes]_vars => TerminalIsFinal
  BY PTL DEF KeepsOutcomes, TerminalIsFinal
<1> QED
  BY <1>1, <1>2, OwnershipHolds, PTL DEF Spec

-----------------------------------------------------------------------------
(* The dispatch of scans: requests know their scan                            *)

\* What a cancel request believes was true of an existing row when it was read.
LEMMA CancelBelief ==
  ASSUME OwnershipInv, CancelsWhatExists, [Next]_vars
  PROVE  CancelsWhatExists'
<1> USE DEF CancelsWhatExists, OwnershipInv, TypeOK
<1>1. CASE UNCHANGED cancels
  BY <1>1
<1>2. CASE \E c \in Cancellers, s \in Scans : CancelRead(c, s)
  <2> PICK c \in Cancellers, s \in Scans : CancelRead(c, s)
    BY <1>2
  <2>1. cancels'[c].status # "ABSENT"
    BY DEF CancelRead
  <2>2. \A b \in Cancellers : b # c => cancels'[b] = cancels[b]
    BY DEF CancelRead
  <2> QED
    BY <2>1, <2>2
<1>3. CASE \E c \in Cancellers : CancelStep(c)
  <2> PICK c \in Cancellers : CancelTransition(c) \/ CancelRevoke(c)
    BY <1>3 DEF CancelStep
  <2>1. cancels' \in {[cancels EXCEPT ![c] = IdleCancel],
                      [cancels EXCEPT ![c] = [cancels[c] EXCEPT !.pc = "revoke"]]}
    BY DEF CancelTransition, CancelRevoke
  <2>2. cancels'[c].pc # "transition"
    BY <2>1 DEF IdleCancel, CancelRecord
  <2>3. \A b \in Cancellers : b # c => cancels'[b] = cancels[b]
    BY <2>1
  <2> QED
    BY <2>2, <2>3
<1> QED
  BY <1>1, <1>2, <1>3
  DEF Next, vars, CreateScan, RetryScan, DispatchClaim, DispatcherStep, DispatchSend,
      DispatchRecord, DispatchFault, Receive, WorkerStep, WorkerCrash, DatabaseFault,
      FailUnregistered, Claim, ValidateConfig, AssertNotCancelled, Advance, RunStage,
      HandleTimeout, HandleCancelled, Requeue, FinalizeFailed, HandleStaleState, Cleanup,
      CleanupAndRaise, TaskFails

-----------------------------------------------------------------------------
(* What a step may do to one row, one worker, one dispatcher, one request    *)

\* A row keeps its status and attempt, or is inserted with its outbox row, claimed
\* for a new attempt, moved on in execution, ended, or re-queued by its owner along
\* with the outbox row of the attempt.
RowMoves(s) ==
  \/ scans'[s].status = scans[s].status /\ scans'[s].attempt = scans[s].attempt
  \/ /\ scans[s].status = "ABSENT" /\ scans'[s].status = "QUEUED"
     /\ scans'[s].attempt = 0 /\ outbox'[s][0] = "pending"
  \/ /\ scans[s].status = "QUEUED" /\ scans'[s].status = "PREPARING"
     /\ scans'[s].attempt = scans[s].attempt + 1
  \/ /\ scans[s].status \in ExecutingStatuses /\ scans'[s].status \in ExecutingStatuses
     /\ scans'[s].attempt = scans[s].attempt
  \/ /\ scans[s].status \notin TerminalStatuses \cup {"ABSENT"}
     /\ scans'[s].status \in TerminalStatuses
     /\ scans'[s].attempt = scans[s].attempt
  \/ /\ \E w \in Workers :
          Owns(w) /\ workers[w].scan = s /\ workers[w].attempt = scans[s].attempt
     /\ scans[s].status \in ExecutingStatuses
     /\ scans'[s].status = "QUEUED" /\ scans'[s].attempt = scans[s].attempt
     /\ outbox'[s][scans[s].attempt] = "pending"

\* A worker commits the outbox row it has flushed: it has none any more, and owns its
\* scan no more.
FlushedBy(w, s, a) ==
  /\ workers[w].dirty /\ workers[w].scan = s /\ workers[w].attempt = a
  /\ ~workers'[w].dirty /\ ~Owns(w)'

\* An outbox row comes with its scan or from a worker, and is published by the
\* dispatcher that has it locked and lets go of it.
OutboxMoves(s, a) ==
  \/ outbox'[s][a] = outbox[s][a]
  \/ /\ outbox'[s][a] = "pending"
     /\ \/ a = 0 /\ scans[s].status = "ABSENT" /\ scans'[s].status = "QUEUED"
                 /\ scans'[s].attempt = 0
        \/ \E w \in Workers : FlushedBy(w, s, a)
  \/ /\ outbox'[s][a] = "published"
     /\ \E d \in Dispatchers :
          /\ dispatchers[d].pc = "sent"
          /\ dispatchers[d].scan = s /\ dispatchers[d].attempt = a
          /\ dispatchers'[d].pc = "idle"

\* A step changes one outbox row at most.
OneRowMoves ==
  \A s, t \in Scans, a, b \in Attempts :
    outbox'[s][a] # outbox[s][a] /\ outbox'[t][b] # outbox[t][b] => s = t /\ a = b

\* A worker goes on with the attempt it has, without becoming its owner, and enters a
\* stage from the check before it or on a row that is not cancelled.
MovesOn(w) ==
  /\ workers[w].pc # "idle"
  /\ workers'[w].scan = workers[w].scan
  /\ workers'[w].attempt = workers[w].attempt
  /\ workers'[w].pc \notin {"idle", "loaded"}
  /\ Owns(w)' => Owns(w)
  /\ workers'[w].dirty => workers[w].dirty \/ Owns(w)
  /\ workers'[w].pc \in {"stale", "cleanup"} =>
       \/ workers[w].pc \in {"stale", "cleanup"}
       \/ scans'[workers[w].scan].status \notin ExecutingStatuses
  /\ workers'[w].pc = "call" =>
       workers[w].pc = "check" \/ scans[workers[w].scan].status # "CANCELLED"

\* A worker takes a message for a QUEUED scan.
Reads(w) ==
  /\ workers[w].pc = "idle" /\ workers'[w].pc = "loaded" /\ ~workers'[w].dirty
  /\ workers'[w].scan \in Scans /\ UNCHANGED scans
  /\ scans[workers'[w].scan].status = "QUEUED"
  /\ workers'[w].attempt = scans[workers'[w].scan].attempt

\* A worker claims the next attempt of a QUEUED scan.
Claims(w) ==
  /\ workers[w].pc = "loaded" /\ workers'[w].pc = "validate" /\ ~workers'[w].dirty
  /\ workers'[w].scan = workers[w].scan
  /\ scans[workers[w].scan].status = "QUEUED"
  /\ scans'[workers[w].scan].status = "PREPARING"
  /\ workers'[w].attempt = scans[workers[w].scan].attempt + 1
  /\ scans'[workers[w].scan].attempt = workers'[w].attempt

WorkerMoves(w) ==
  \/ workers'[w] = workers[w]
  \/ workers'[w] = IdleWorker
  \/ Reads(w)
  \/ Claims(w)
  \/ MovesOn(w)

\* A worker that has read the attempt that waits stays until it claims it, unless
\* something fails.
KeepsReading(w) ==
  LET row == scans[workers[w].scan]
      new == scans'[workers[w].scan]
  IN  /\ workers[w].pc = "loaded" /\ faults' = 0
      /\ row.status = "QUEUED" /\ row.attempt = workers[w].attempt
      /\ new.status = row.status /\ new.attempt = row.attempt
      => workers'[w] = workers[w]

TableFacts ==
  /\ \A s \in Scans : RowMoves(s)
  /\ \A s \in Scans, a \in Attempts : OutboxMoves(s, a)
  /\ OneRowMoves
  /\ \A w \in Workers : WorkerMoves(w) /\ KeepsReading(w)

\* A dispatcher is done, locks a pending row nobody has locked, or has sent the
\* message of its row.
DispatcherMoves(d) ==
  \/ dispatchers'[d].pc = "idle"
  \/ dispatchers'[d] = dispatchers[d]
  \/ /\ dispatchers'[d].pc = "claimed"
     /\ outbox'[dispatchers'[d].scan][dispatchers'[d].attempt] = "pending"
     /\ ~Locked(dispatchers'[d].scan, dispatchers'[d].attempt)
     /\ \A e \in Dispatchers : e # d => dispatchers'[e] = dispatchers[e]
  \/ /\ dispatchers[d].pc # "idle"
     /\ dispatchers'[d].scan = dispatchers[d].scan
     /\ dispatchers'[d].attempt = dispatchers[d].attempt
     /\ \E m \in queue' : m.scan = dispatchers[d].scan

\* A message that leaves the queue for good is for no QUEUED scan, or in the hands of
\* a worker that has read the attempt.
MessageMoves(m) ==
  \/ m \in queue'
  \/ scans[m.scan].status # "QUEUED"
  \/ \E w \in Workers :
       /\ workers'[w].pc = "loaded"
       /\ workers'[w].scan = m.scan
       /\ workers'[w].attempt = scans[m.scan].attempt

CancelMoves(c) ==
  cancels'[c].pc = "revoke" =>
    \/ cancels'[c] = cancels[c]
    \/ /\ cancels'[c].scan \in Scans
       /\ scans'[cancels'[c].scan].status = "CANCELLED"

RestFacts ==
  /\ \A d \in Dispatchers : DispatcherMoves(d)
  /\ \A m \in queue : MessageMoves(m)
  /\ \A c \in Cancellers : CancelMoves(c)
  /\ faults' = 0 => faults = 0

\* A step that sends, takes and cancels nothing.
LEMMA RestStays ==
  ASSUME UNCHANGED <<dispatchers, queue, cancels>>, faults' = 0 => faults = 0
  PROVE  RestFacts
BY DEF RestFacts, DispatcherMoves, MessageMoves, CancelMoves

\* A step that leaves both tables and the workers alone.
LEMMA TablesStay ==
  ASSUME UNCHANGED <<scans, outbox, workers>>
  PROVE  TableFacts
BY DEF TableFacts, RowMoves, OutboxMoves, OneRowMoves, WorkerMoves, KeepsReading

\* A step of one worker that leaves the scans alone and commits at most the outbox
\* row it had flushed.
LEMMA WorkerFacts ==
  ASSUME TypeOK, NEW w \in Workers, NEW r,
         workers' = [workers EXCEPT ![w] = r],
         UNCHANGED scans,
         \/ UNCHANGED outbox
         \/ /\ workers[w].scan \in Scans /\ workers[w].dirty
            /\ r.pc \notin OwningPlaces /\ ~r.dirty
            /\ outbox' = [outbox EXCEPT ![workers[w].scan][workers[w].attempt] = "pending"],
         WorkerMoves(w), KeepsReading(w)
  PROVE  TableFacts
<1>1. \A v \in Workers : v # w => workers'[v] = workers[v]
  BY DEF TypeOK
<1>2. \A v \in Workers : WorkerMoves(v) /\ KeepsReading(v)
  BY <1>1 DEF WorkerMoves, KeepsReading
<1>3. \A s \in Scans : RowMoves(s)
  BY DEF RowMoves
<1>4. OneRowMoves /\ \A s \in Scans, a \in Attempts : OutboxMoves(s, a)
  <2>1. CASE UNCHANGED outbox
    BY <2>1 DEF OutboxMoves, OneRowMoves
  <2>2. CASE /\ workers[w].scan \in Scans /\ workers[w].dirty
             /\ r.pc \notin OwningPlaces /\ ~r.dirty
             /\ outbox' = [outbox EXCEPT ![workers[w].scan][workers[w].attempt] = "pending"]
    <3>1. ~Owns(w)' /\ ~workers'[w].dirty
      BY <2>2 DEF Owns, TypeOK
    <3>2. workers[w].attempt \in Attempts
      BY DEF TypeOK, WorkerRecord
    <3>3. \A s \in Scans, a \in Attempts :
            \/ outbox'[s][a] = outbox[s][a]
            \/ outbox'[s][a] = "pending" /\ s = workers[w].scan /\ a = workers[w].attempt
      BY <2>2, <3>2 DEF TypeOK
    <3>4. OneRowMoves
      BY <3>3 DEF OneRowMoves
    <3>5. \A s \in Scans, a \in Attempts : OutboxMoves(s, a)
      BY <2>2, <3>1, <3>3 DEF OutboxMoves, FlushedBy
    <3> QED
      BY <3>4, <3>5
  <2> QED
    BY <2>1, <2>2
<1> QED
  BY <1>2, <1>3, <1>4 DEF TableFacts

-----------------------------------------------------------------------------
(* Which of these each action is                                             *)

\* The requests insert a scan, cancel one that had not ended, or drop the messages
\* of a cancelled one.
LEMMA RequestFacts ==
  ASSUME OwnershipInv, CancelsWhatExists, LetGo,
         \/ \E s \in Scans : CreateScan(s)
         \/ \E o, s \in Scans : RetryScan(o, s)
         \/ \E c \in Cancellers, s \in Scans : CancelRead(c, s)
         \/ \E c \in Cancellers : CancelStep(c)
  PROVE  TableFacts /\ RestFacts
<1> USE DEF OwnershipInv
<1>1. ASSUME NEW s \in Scans, NEW origin, scans[s].status = "ABSENT", Enqueue(s, origin),
             UNCHANGED <<queue, jobs, workers, dispatchers, cancels, faults, redeliveries>>
      PROVE  TableFacts /\ RestFacts
  <2> DEFINE inserted == [AbsentScan EXCEPT !.status = "PENDING", !.retryOf = origin]
             row == Moved(inserted, "QUEUED")
  <2>1. row.status = "QUEUED" /\ row.attempt = 0
    BY DEF Moved, AbsentScan
  <2>2. 0 \in Attempts
    BY ScanEngineAssumption DEF Attempts
  <2>3. /\ scans' = [scans EXCEPT ![s] = row]
        /\ outbox' = [outbox EXCEPT ![s][0] = "pending"]
    BY <1>1 DEF Enqueue
  <2> HIDE DEF row
  <2>4. /\ scans'[s] = row /\ outbox'[s][0] = "pending"
        /\ \A t \in Scans : t # s => scans'[t] = scans[t]
        /\ \A t \in Scans, a \in Attempts : outbox'[t][a] = outbox[t][a] \/ (t = s /\ a = 0)
    BY <2>2, <2>3 DEF TypeOK
  <2>5. \A t \in Scans : RowMoves(t)
    BY <1>1, <2>1, <2>4 DEF RowMoves
  <2>6. OneRowMoves /\ \A t \in Scans, a \in Attempts : OutboxMoves(t, a)
    BY <1>1, <2>1, <2>4 DEF OutboxMoves, OneRowMoves
  <2>7. \A w \in Workers : WorkerMoves(w) /\ KeepsReading(w)
    BY <1>1 DEF WorkerMoves, KeepsReading
  <2> QED
    BY <1>1, <2>5, <2>6, <2>7, RestStays DEF TableFacts
<1>2. CASE \/ \E s \in Scans : CreateScan(s)
           \/ \E o, s \in Scans : RetryScan(o, s)
  BY <1>1, <1>2 DEF CreateScan, RetryScan
<1>3. CASE \E c \in Cancellers, s \in Scans : CancelRead(c, s)
  <2> PICK c \in Cancellers, s \in Scans : CancelRead(c, s)
    BY <1>3
  <2>1. \A b \in Cancellers : cancels'[b] = cancels[b] \/ cancels'[b].pc # "revoke"
    BY DEF CancelRead, TypeOK
  <2>2. RestFacts
    BY <2>1 DEF CancelRead, RestFacts, DispatcherMoves, MessageMoves, CancelMoves
  <2> QED
    BY <2>2, TablesStay DEF CancelRead
<1>4. CASE \E c \in Cancellers : CancelTransition(c)
  <2> PICK c \in Cancellers : CancelTransition(c)
    BY <1>4
  <2> DEFINE s   == cancels[c].scan
             row == Moved(scans[s], "CANCELLED")
  <2>1. s \in Scans /\ cancels[c] \in CancelRecord
    BY DEF CancelTransition, PlacesInv, TypeOK
  <2>2. scans[s] \in ScanRow /\ scans[s].status \in ScanStatus \cup {"ABSENT"}
    BY <2>1 DEF TypeOK, ScanRow
  <2>3. row.status = "CANCELLED" /\ row.attempt = scans[s].attempt
    BY <2>2, MovedRow DEF ScanStatus, TerminalStatuses
  <2> HIDE DEF row
  <2>4. \/ /\ UNCHANGED scans
           /\ cancels' = [cancels EXCEPT ![c] = IdleCancel]
        \/ /\ scans[s].status = cancels[c].status
           /\ "CANCELLED" \in ValidTransitions[cancels[c].status]
           /\ scans' = [scans EXCEPT ![s] = row]
           /\ \/ cancels' = [cancels EXCEPT ![c] = IdleCancel]
              \/ cancels' = [cancels EXCEPT ![c] = [cancels[c] EXCEPT !.pc = "revoke"]]
    BY DEF CancelTransition, TransitionResult, row
  <2>5. ASSUME UNCHANGED scans, cancels' = [cancels EXCEPT ![c] = IdleCancel]
        PROVE  TableFacts /\ RestFacts
    <3>1. \A b \in Cancellers : cancels'[b] = cancels[b] \/ cancels'[b].pc # "revoke"
      BY <2>5 DEF IdleCancel, TypeOK
    <3>2. RestFacts
      BY <3>1 DEF CancelTransition, RestFacts, DispatcherMoves, MessageMoves, CancelMoves
    <3> QED
      BY <2>5, <3>2, TablesStay DEF CancelTransition
  <2>6. ASSUME scans[s].status = cancels[c].status,
               "CANCELLED" \in ValidTransitions[cancels[c].status],
               scans' = [scans EXCEPT ![s] = row],
               \/ cancels' = [cancels EXCEPT ![c] = IdleCancel]
               \/ cancels' = [cancels EXCEPT ![c] = [cancels[c] EXCEPT !.pc = "revoke"]]
        PROVE  TableFacts /\ RestFacts
    <3>1. /\ scans'[s] = row
          /\ \A t \in Scans : t # s => scans'[t] = scans[t]
      BY <2>1, <2>6 DEF TypeOK
    <3>2. cancels'[c].pc = "idle" \/ cancels'[c].scan = s
      BY <2>1, <2>6 DEF TypeOK, IdleCancel, CancelRecord
    <3>3. \A b \in Cancellers : b # c => cancels'[b] = cancels[b]
      BY <2>6 DEF TypeOK
    <3>4. \A b \in Cancellers : CancelMoves(b)
      BY <2>1, <2>3, <3>1, <3>2, <3>3 DEF CancelMoves
    <3>5. RestFacts
      BY <3>4 DEF CancelTransition, RestFacts, DispatcherMoves, MessageMoves
    <3>6. scans[s].status \notin TerminalStatuses
      BY <2>6, TerminalHasNoEdge
    <3>7. scans[s].status # "ABSENT"
      BY <2>6 DEF CancelsWhatExists, CancelTransition
    <3>8. \A t \in Scans : RowMoves(t)
      BY <2>3, <3>1, <3>6, <3>7 DEF RowMoves, TerminalStatuses
    <3>9. OneRowMoves /\ \A t \in Scans, a \in Attempts : OutboxMoves(t, a)
      BY DEF CancelTransition, OutboxMoves, OneRowMoves
    <3>10. \A w \in Workers : WorkerMoves(w) /\ KeepsReading(w)
      BY DEF CancelTransition, WorkerMoves, KeepsReading
    <3> QED
      BY <3>5, <3>8, <3>9, <3>10 DEF TableFacts
  <2> QED
    BY <2>4, <2>5, <2>6
<1>5. CASE \E c \in Cancellers : CancelRevoke(c)
  <2> PICK c \in Cancellers : CancelRevoke(c)
    BY <1>5
  <2>1. \A m \in queue : MessageMoves(m)
    BY DEF CancelRevoke, LetGo, MessageMoves
  <2>2. \A b \in Cancellers : cancels'[b] = cancels[b] \/ cancels'[b].pc # "revoke"
    BY DEF CancelRevoke, IdleCancel, TypeOK
  <2>3. RestFacts
    BY <2>1, <2>2 DEF CancelRevoke, RestFacts, DispatcherMoves, CancelMoves
  <2> QED
    BY <2>3, TablesStay DEF CancelRevoke
<1> QED
  BY <1>2, <1>3, <1>4, <1>5 DEF CancelStep

\* The dispatchers lock a row, send its message, and publish it.
LEMMA DispatcherFacts ==
  ASSUME OwnershipInv, NEW d \in Dispatchers,
         \/ \E s \in Scans, a \in Attempts : DispatchClaim(d, s, a)
         \/ DispatcherStep(d)
         \/ DispatchFault(d)
  PROVE  TableFacts /\ RestFacts
<1> USE DEF OwnershipInv
<1> DEFINE me == dispatchers[d]
<1>0. me \in DispatcherRecord /\ (me.pc # "idle" => me.scan \in Scans)
  BY DEF TypeOK, PlacesInv
<1>1. ASSUME NEW r, dispatchers' = [dispatchers EXCEPT ![d] = r]
      PROVE  dispatchers'[d] = r /\ \A e \in Dispatchers : e # d => dispatchers'[e] = dispatchers[e]
  BY <1>1 DEF TypeOK
<1>2. ASSUME DispatcherMoves(d), queue \subseteq queue', UNCHANGED cancels, faults' = 0 => faults = 0,
             \A e \in Dispatchers : e # d => dispatchers'[e] = dispatchers[e]
      PROVE  RestFacts
  BY <1>2 DEF RestFacts, DispatcherMoves, MessageMoves, CancelMoves
<1>3. CASE \E s \in Scans, a \in Attempts : DispatchClaim(d, s, a)
  <2> PICK s \in Scans, a \in Attempts : DispatchClaim(d, s, a)
    BY <1>3
  <2> DEFINE r == [pc |-> "claimed", scan |-> s, attempt |-> a, job |-> 0]
  <2>1. /\ dispatchers' = [dispatchers EXCEPT ![d] = r] /\ outbox'[s][a] = "pending"
        /\ ~Locked(s, a)
    BY DEF DispatchClaim
  <2>2. DispatcherMoves(d)
    BY <1>1, <2>1 DEF DispatcherMoves
  <2> QED
    BY <1>1, <1>2, <2>1, <2>2, TablesStay DEF DispatchClaim
<1>4. CASE DispatchSend(d)
  <2> DEFINE job == jobs[me.scan] + 1
             r == [me EXCEPT !.pc = "sent", !.job = job]
             m == [scan |-> me.scan, attempt |-> me.attempt, job |-> job]
  <2>1. /\ me.pc # "idle" /\ m.scan = me.scan
        /\ queue' = queue \cup {m}
        /\ dispatchers' = [dispatchers EXCEPT ![d] = r]
        /\ UNCHANGED <<scans, outbox, workers, cancels, faults>>
    BY <1>4 DEF DispatchSend
  <2>2. r.scan = me.scan /\ r.attempt = me.attempt
    BY <1>0 DEF DispatcherRecord
  <2> HIDE DEF r, m
  <2>3. DispatcherMoves(d)
    BY <1>1, <2>1, <2>2 DEF DispatcherMoves
  <2> QED
    BY <1>1, <1>2, <2>1, <2>3, TablesStay
<1>5. CASE DispatchRecord(d)
  <2> DEFINE row == [scans[me.scan] EXCEPT !.job = me.job]
  <2>1. me.scan \in Scans /\ me.attempt \in Attempts /\ scans[me.scan] \in ScanRow
    BY <1>0, <1>5 DEF DispatchRecord, DispatcherRecord, TypeOK
  <2>2. row.status = scans[me.scan].status /\ row.attempt = scans[me.scan].attempt
    BY <2>1 DEF ScanRow
  <2>3. /\ me.pc = "sent"
        /\ scans' = [scans EXCEPT ![me.scan] = row]
        /\ outbox' = [outbox EXCEPT ![me.scan][me.attempt] = "published"]
        /\ dispatchers' = [dispatchers EXCEPT ![d] = IdleDispatcher]
        /\ UNCHANGED <<queue, workers, cancels, faults>>
    BY <1>5 DEF DispatchRecord
  <2> HIDE DEF row
  <2>4. \A t \in Scans : RowMoves(t)
    BY <2>1, <2>2, <2>3 DEF RowMoves, TypeOK
  <2>5. OneRowMoves /\ \A t \in Scans, a \in Attempts : OutboxMoves(t, a)
    <3>1. \A t \in Scans, a \in Attempts :
            \/ outbox'[t][a] = outbox[t][a]
            \/ outbox'[t][a] = "published" /\ t = me.scan /\ a = me.attempt
      BY <2>1, <2>3 DEF TypeOK
    <3>2. dispatchers'[d].pc = "idle"
      BY <1>1, <2>3 DEF IdleDispatcher
    <3>3. OneRowMoves
      BY <3>1 DEF OneRowMoves
    <3>4. \A t \in Scans, a \in Attempts : OutboxMoves(t, a)
      BY <2>3, <3>1, <3>2 DEF OutboxMoves
    <3> QED
      BY <3>3, <3>4
  <2>6. \A w \in Workers : WorkerMoves(w) /\ KeepsReading(w)
    BY <2>3 DEF WorkerMoves, KeepsReading
  <2>7. DispatcherMoves(d)
    BY <1>1, <2>3 DEF DispatcherMoves, IdleDispatcher
  <2> QED
    BY <1>1, <1>2, <2>3, <2>4, <2>5, <2>6, <2>7 DEF TableFacts
<1>6. CASE DispatchFault(d)
  <2>1. DispatcherMoves(d)
    BY <1>1, <1>6 DEF DispatchFault, DispatcherMoves, IdleDispatcher
  <2>2. faults' # 0
    BY <1>6, ScanEngineAssumption DEF DispatchFault, TypeOK
  <2> QED
    BY <1>1, <1>2, <1>6, <2>1, <2>2, TablesStay DEF DispatchFault
<1> QED
  BY <1>3, <1>4, <1>5, <1>6 DEF DispatcherStep

\* A message taken from the queue is in the hands of its worker, or was for a scan
\* that did not wait.
LEMMA ReceiveFacts ==
  ASSUME OwnershipInv, NEW w \in Workers, NEW m \in queue, NEW again \in BOOLEAN,
         Receive(w, m, again)
  PROVE  TableFacts /\ RestFacts
<1> USE DEF OwnershipInv
<1> DEFINE loaded == [IdleWorker EXCEPT !.pc = "loaded", !.scan = m.scan,
                        !.status = "QUEUED", !.attempt = scans[m.scan].attempt]
<1>1. /\ workers[w].pc = "idle" /\ m.scan \in Scans
      /\ UNCHANGED <<scans, outbox, dispatchers, cancels, faults>>
      /\ queue \subseteq queue' \cup {m}
  BY DEF Receive, TypeOK, Message
<1>2. /\ loaded.pc = "loaded" /\ loaded.scan = m.scan /\ ~loaded.dirty
      /\ loaded.attempt = scans[m.scan].attempt
  BY DEF IdleWorker
<1>3. PICK r : /\ workers' = [workers EXCEPT ![w] = r]
               /\ r = IF scans[m.scan].status = "QUEUED" THEN loaded ELSE IdleWorker
  BY DEF Receive
<1> HIDE DEF loaded
<1>4. workers'[w] = r
  BY <1>3 DEF TypeOK
<1>5. WorkerMoves(w) /\ KeepsReading(w)
  BY <1>1, <1>2, <1>3, <1>4 DEF WorkerMoves, Reads, KeepsReading
<1>6. TableFacts
  BY <1>1, <1>3, <1>5, WorkerFacts
<1>7. MessageMoves(m)
  BY <1>2, <1>3, <1>4 DEF MessageMoves
<1>8. \A n \in queue : MessageMoves(n)
  BY <1>1, <1>7 DEF MessageMoves
<1> QED
  BY <1>1, <1>6, <1>8 DEF RestFacts, DispatcherMoves, CancelMoves

\* A claim by a worker that has read the attempt that waits is won.
LEMMA ClaimFacts ==
  ASSUME OwnershipInv, NEW w \in Workers, Claim(w)
  PROVE  TableFacts /\ RestFacts
<1> USE DEF OwnershipInv, ClaimMatches
<1> DEFINE me  == workers[w]
           s   == workers[w].scan
           won == ClaimMatches(scans[s], me)
<1>0. /\ me \in WorkerRecord /\ me.pc = "loaded" /\ s \in Scans /\ scans[s] \in ScanRow
      /\ ~me.dirty
      /\ UNCHANGED <<outbox, queue, dispatchers, cancels, faults>>
  BY DEF Claim, TypeOK, PlacesInv
<1>1. RestFacts
  BY <1>0, RestStays
<1>2. CASE ~won
  <2>1. UNCHANGED scans /\ workers' = [workers EXCEPT ![w] = IdleWorker]
    BY <1>2 DEF Claim
  <2>2. workers'[w] = IdleWorker
    BY <2>1 DEF TypeOK
  <2>3. WorkerMoves(w)
    BY <2>2 DEF WorkerMoves
  <2>4. KeepsReading(w)
    BY <1>2, <2>1 DEF KeepsReading
  <2>5. TableFacts
    BY <1>0, <2>1, <2>3, <2>4, WorkerFacts
  <2> QED
    BY <1>1, <2>5
<1>3. CASE won
  <2> DEFINE r   == [me EXCEPT !.pc = "validate", !.status = "PREPARING",
                               !.attempt = me.attempt + 1]
             row == [scans[s] EXCEPT !.status = "PREPARING", !.attempt = me.attempt + 1]
  <2>1. workers' = [workers EXCEPT ![w] = r] /\ scans' = [scans EXCEPT ![s] = row]
    BY <1>0, <1>3 DEF Claim, TypeOK, ScanRow
  <2>2. /\ r.pc = "validate" /\ r.scan = s /\ r.attempt = me.attempt + 1
        /\ r.dirty = me.dirty
    BY <1>0 DEF WorkerRecord
  <2>3. row.status = "PREPARING" /\ row.attempt = me.attempt + 1
    BY <1>0 DEF ScanRow
  <2> HIDE DEF r, row
  <2>4. /\ workers'[w] = r /\ scans'[s] = row
        /\ \A v \in Workers : v # w => workers'[v] = workers[v]
        /\ \A t \in Scans : t # s => scans'[t] = scans[t]
    BY <1>0, <2>1 DEF TypeOK
  <2>5. scans[s].status = "QUEUED" /\ scans[s].attempt = me.attempt
    BY <1>3
  <2>6. \A t \in Scans : RowMoves(t)
    BY <2>3, <2>4, <2>5 DEF RowMoves
  <2>7. OneRowMoves /\ \A t \in Scans, a \in Attempts : OutboxMoves(t, a)
    BY <1>0 DEF OutboxMoves, OneRowMoves
  <2>8. WorkerMoves(w)
    BY <1>0, <2>2, <2>3, <2>4, <2>5 DEF WorkerMoves, Claims
  <2>9. KeepsReading(w)
    BY <2>3, <2>4, <2>5 DEF KeepsReading
  <2>10. \A v \in Workers : WorkerMoves(v) /\ KeepsReading(v)
    BY <2>4, <2>8, <2>9 DEF WorkerMoves, KeepsReading
  <2> QED
    BY <1>1, <2>6, <2>7, <2>10 DEF TableFacts
<1> QED
  BY <1>2, <1>3

\* A worker that calls `transition` as an owner, or to fail a scan it found QUEUED,
\* ends the scan, moves it on or re-queues it with the row it had flushed; or finds
\* it cancelled, and goes where a handler leaves nothing behind.
LEMMA TransitionFacts ==
  ASSUME OwnershipInv,
         NEW w \in Workers,
         NEW target \in ScanStatus,
         NEW next \in [ok : {"cleanup", "call"}, stale : {"stale", "raised", "finalize"},
                       invalid : {"abort", "raised", "finalize"}],
         \/ Owns(w)
         \/ /\ workers[w].pc = "loaded" /\ target = "FAILED"
            /\ next.stale = "raised" /\ next.invalid = "raised",
         target \notin {"PENDING", "PREPARING"},
         target = "QUEUED" <=> workers[w].pc = "requeue",
         next.ok = "call" <=> target \in ExecutingStatuses,
         Transition(w, target, next),
         UNCHANGED WorkerRest
  PROVE  TableFacts /\ RestFacts
<1> USE DEF OwnershipInv
<1> DEFINE me == workers[w]
           s  == workers[w].scan
<1>0. /\ me \in WorkerRecord /\ s \in Scans /\ scans[s] \in ScanRow
      /\ me.pc # "idle" /\ me.attempt \in Attempts
      /\ me.dirty <=> me.pc = "requeue"
      /\ me.pc = "loaded" => me.status = "QUEUED" /\ ~Owns(w)
      /\ Owns(w) => me.status \in ExecutingStatuses \cup {"CANCELLED"}
  BY DEF TypeOK, PlacesInv, Owns, OwningPlaces, WorkerRecord
<1>1. RestFacts
  BY RestStays DEF WorkerRest
<1>2. ASSUME UNCHANGED <<scans, outbox>>,
             NEW place \in {"stale", "raised", "abort", "finalize"},
             workers' = [workers EXCEPT ![w] = [me EXCEPT !.pc = place]],
             place = "finalize" => Owns(w),
             place = "stale" => scans[s].status \notin ExecutingStatuses,
             me.pc = "loaded" => scans[s].status # "QUEUED"
      PROVE  TableFacts
  <2> DEFINE r == [me EXCEPT !.pc = place]
  <2>1. /\ r.pc = place /\ r.scan = me.scan /\ r.attempt = me.attempt /\ r.dirty = me.dirty
    BY <1>0 DEF WorkerRecord
  <2>2. workers' = [workers EXCEPT ![w] = r]
    BY <1>2
  <2> HIDE DEF r
  <2>3. workers'[w] = r
    BY <2>2 DEF TypeOK
  <2>4. Owns(w)' => Owns(w)
    BY <1>2, <2>1, <2>3 DEF Owns, OwningPlaces
  <2>5. MovesOn(w)
    BY <1>0, <1>2, <2>1, <2>3, <2>4 DEF MovesOn
  <2>6. KeepsReading(w)
    BY <1>2 DEF KeepsReading
  <2> QED
    BY <1>2, <2>2, <2>5, <2>6, WorkerFacts DEF WorkerMoves
<1>3. CASE /\ UNCHANGED <<scans, outbox>>
           /\ scans[s].status # me.status
           /\ workers' = [workers EXCEPT ![w] = [me EXCEPT !.pc = next.stale]]
  <2>1. Owns(w) => scans[s].status = "CANCELLED"
    BY <1>3 DEF OwnerKnowsItsScan
  <2>2. TableFacts
    BY <1>0, <1>2, <1>3, <2>1 DEF ExecutingStatuses
  <2> QED
    BY <1>1, <2>2
<1>4. CASE /\ UNCHANGED <<scans, outbox>>
           /\ target \notin ValidTransitions[me.status]
           /\ workers' = [workers EXCEPT ![w] = [me EXCEPT !.pc = next.invalid]]
  <2>1. me.pc # "loaded"
    BY <1>0, <1>4 DEF ValidTransitions
  <2>2. Owns(w)
    BY <2>1
  <2>3. TableFacts
    BY <1>2, <1>4, <2>1, <2>2
  <2> QED
    BY <1>1, <2>3
<1>5. CASE
        /\ scans[s].status = me.status
        /\ target \in ValidTransitions[me.status]
        /\ scans' = [scans EXCEPT ![s] = Moved(@, target)]
        /\ outbox' = IF me.dirty THEN [outbox EXCEPT ![s][me.attempt] = "pending"] ELSE outbox
        /\ workers' = [workers EXCEPT ![w] =
             [me EXCEPT !.pc = next.ok, !.status = target, !.dirty = FALSE]]
  <2> DEFINE r == [me EXCEPT !.pc = next.ok, !.status = target, !.dirty = FALSE]
  <2>1. /\ r.pc = next.ok /\ ~r.dirty /\ r.scan = s /\ r.attempt = me.attempt
    BY <1>0 DEF WorkerRecord
  <2> HIDE DEF r
  <2>2. /\ workers'[w] = r
        /\ \A v \in Workers : v # w => workers'[v] = workers[v]
    BY <1>5 DEF TypeOK, r
  <2>3. /\ scans'[s].status = target
        /\ scans'[s].attempt = scans[s].attempt
        /\ \A t \in Scans : t # s => scans'[t] = scans[t]
    BY <1>0, <1>5, MovedRow DEF TypeOK
  <2>4. /\ me.dirty => outbox'[s][me.attempt] = "pending"
        /\ \A t \in Scans, a \in Attempts :
             \/ outbox'[t][a] = outbox[t][a]
             \/ me.dirty /\ outbox'[t][a] = "pending" /\ t = s /\ a = me.attempt
    BY <1>0, <1>5 DEF TypeOK
  <2>5. /\ scans[s].status \notin TerminalStatuses \cup {"ABSENT"}
        /\ Owns(w) => scans[s].status \in ExecutingStatuses
    BY <1>0, <1>5, TerminalHasNoEdge DEF ExecutingStatuses, TerminalStatuses
  <2>6. next.ok = "call" => Owns(w)
    BY DEF ExecutingStatuses
  <2>7. RowMoves(s)
    <3>1. CASE target \in TerminalStatuses
      BY <2>3, <2>5, <3>1 DEF RowMoves
    <3>2. CASE target \in ExecutingStatuses
      BY <2>3, <2>5, <2>6, <3>2 DEF RowMoves
    <3>3. CASE target = "QUEUED"
      <4>1. Owns(w) /\ me.dirty /\ me.attempt = scans[s].attempt
        BY <1>0, <3>3 DEF OwnerKnowsItsScan
      <4> QED
        BY <2>3, <2>4, <2>5, <3>3, <4>1 DEF RowMoves
    <3> QED
      BY <3>1, <3>2, <3>3 DEF ScanStatus
  <2>8. \A t \in Scans : RowMoves(t)
    BY <2>3, <2>7 DEF RowMoves
  <2>9. me.dirty => ~Owns(w)'
    BY <1>0, <2>1, <2>2 DEF Owns, OwningPlaces, ExecutingStatuses
  <2>10. OneRowMoves /\ \A t \in Scans, a \in Attempts : OutboxMoves(t, a)
    <3>1. OneRowMoves
      BY <2>4 DEF OneRowMoves
    <3>2. ~workers'[w].dirty
      BY <2>1, <2>2
    <3> QED
      BY <2>4, <2>9, <3>1, <3>2 DEF OutboxMoves, FlushedBy
  <2>11. Owns(w)' => Owns(w)
    BY <2>1, <2>2, <2>6 DEF Owns, OwningPlaces
  <2>12. MovesOn(w)
    BY <1>0, <2>1, <2>2, <2>3, <2>5, <2>11 DEF MovesOn, TerminalStatuses
  <2>13. KeepsReading(w)
    BY <1>0, <2>3 DEF KeepsReading
  <2>14. \A v \in Workers : WorkerMoves(v) /\ KeepsReading(v)
    BY <2>2, <2>12, <2>13 DEF WorkerMoves, KeepsReading
  <2> QED
    BY <1>1, <2>8, <2>10, <2>14 DEF TableFacts
<1> QED
  BY <1>3, <1>4, <1>5, TransitionCases

\* The steps that end in `transition`.
LEMMA TransitionStepFacts ==
  ASSUME OwnershipInv, NEW w \in Workers,
         \/ FailUnregistered(w)
         \/ Advance(w)
         \/ HandleTimeout(w)
         \/ Requeue(w)
         \/ FinalizeFailed(w)
  PROVE  TableFacts /\ RestFacts
<1> USE DEF InStages, InsideTry, OutsideTry, ScanStatus, TerminalStatuses, WorkerRest
<1>1. CASE FailUnregistered(w)
  BY <1>1, TransitionFacts DEF FailUnregistered, ExecutingStatuses
<1>2. CASE Advance(w)
  <2> DEFINE stage == workers[w].stage
             next  == InStages(IF stage = "done" THEN "cleanup" ELSE "call")
  <2>1. /\ workers[w].pc = "advance" /\ Owns(w)
        /\ Transition(w, StageStatus[stage], next)
        /\ UNCHANGED WorkerRest
    BY <1>2 DEF Advance, Owns, OwningPlaces
  <2>2. stage \in {"execute", "collect", "process", "done"}
    BY <2>1 DEF OwnershipInv, PlacesInv, TypeOK, WorkerRecord, Stages
  <2>3. /\ StageStatus[stage] \in {"RUNNING", "COLLECTING", "PROCESSING", "SUCCEEDED"}
        /\ stage # "done" <=> StageStatus[stage] \in ExecutingStatuses
    BY <2>2 DEF StageStatus, ExecutingStatuses
  <2>4. /\ next \in [ok : {"cleanup", "call"}, stale : {"stale", "raised", "finalize"},
                     invalid : {"abort", "raised", "finalize"}]
        /\ next.ok = "call" <=> stage # "done"
    OBVIOUS
  <2> HIDE DEF next
  <2> QED
    BY <2>1, <2>3, <2>4, TransitionFacts DEF ExecutingStatuses
<1>3. CASE HandleTimeout(w)
  BY <1>3, TransitionFacts DEF HandleTimeout, Owns, OwningPlaces, ExecutingStatuses
<1>4. CASE Requeue(w)
  BY <1>4, TransitionFacts DEF Requeue, Owns, OwningPlaces, ExecutingStatuses
<1>5. CASE FinalizeFailed(w)
  BY <1>5, TransitionFacts DEF FinalizeFailed, Owns, OwningPlaces, ExecutingStatuses
<1> QED
  BY <1>1, <1>2, <1>3, <1>4, <1>5

\* The two steps that call `transition` in one of their branches.
LEMMA BranchingStepFacts ==
  ASSUME OwnershipInv, NEW w \in Workers,
         ValidateConfig(w) \/ HandleCancelled(w)
  PROVE  TableFacts /\ RestFacts
<1> DEFINE me == workers[w]
<1>0. /\ Owns(w) /\ me \in WorkerRecord /\ TypeOK /\ me.scan \in Scans
      /\ me.pc \in {"validate", "cancelled"}
      /\ UNCHANGED WorkerRest
  BY DEF OwnershipInv, TypeOK, PlacesInv, ValidateConfig, HandleCancelled, Owns, OwningPlaces,
         WorkerRest
<1>1. CASE \E target \in {"FAILED", "CANCELLED"} :
             \/ Transition(w, target, InsideTry("cleanup"))
             \/ Transition(w, target, OutsideTry("cleanup"))
  BY <1>0, <1>1, TransitionFacts
  DEF InsideTry, OutsideTry, ScanStatus, TerminalStatuses, ExecutingStatuses
<1>2. CASE /\ UNCHANGED <<scans, outbox>>
           /\ \/ workers' = [workers EXCEPT ![w] = [me EXCEPT !.pc = "check"]]
              \/ workers' = [workers EXCEPT ![w] = [me EXCEPT !.pc = "raised"]]
              \/ /\ me.status = "CANCELLED"
                 /\ workers' = [workers EXCEPT ![w] = [me EXCEPT !.pc = "cleanup"]]
  <2> PICK place \in {"check", "raised", "cleanup"} :
        /\ workers' = [workers EXCEPT ![w] = [me EXCEPT !.pc = place]]
        /\ place = "cleanup" => me.status = "CANCELLED"
    BY <1>2
  <2> DEFINE r == [me EXCEPT !.pc = place]
  <2>1. /\ r.pc = place /\ r.scan = me.scan /\ r.attempt = me.attempt /\ r.dirty = me.dirty
        /\ workers' = [workers EXCEPT ![w] = r]
    BY <1>0 DEF WorkerRecord
  <2> HIDE DEF r
  <2>2. workers'[w] = r
    BY <1>0, <2>1 DEF TypeOK
  <2>3. place = "cleanup" => scans[me.scan].status \notin ExecutingStatuses
    BY <1>0 DEF OwnershipInv, OwnerKnowsItsScan, ExecutingStatuses
  <2>4. MovesOn(w)
    BY <1>0, <1>2, <2>1, <2>2, <2>3 DEF MovesOn
  <2>5. KeepsReading(w)
    BY <1>0 DEF KeepsReading
  <2>6. TableFacts
    BY <1>0, <1>2, <2>1, <2>4, <2>5, WorkerFacts DEF WorkerMoves
  <2> QED
    BY <1>0, <2>6, RestStays DEF WorkerRest
<1> QED
  BY <1>1, <1>2 DEF ValidateConfig, HandleCancelled

\* The steps of a worker that touch no table, or only commit what it had flushed.
LEMMA LocalStepFacts ==
  ASSUME OwnershipInv, NEW w \in Workers,
         \/ AssertNotCancelled(w)
         \/ \E outcome \in Outcomes : RunStage(w, outcome)
         \/ HandleStaleState(w)
         \/ Cleanup(w)
         \/ CleanupAndRaise(w)
         \/ TaskFails(w)
         \/ WorkerCrash(w)
         \/ DatabaseFault(w)
  PROVE  TableFacts /\ RestFacts
<1> USE DEF OwnershipInv
<1> DEFINE me == workers[w]
<1>0. /\ me \in WorkerRecord /\ TypeOK
      /\ me.pc # "idle" /\ me.scan \in Scans
      /\ UNCHANGED <<scans, queue, dispatchers, cancels>>
  BY DEF TypeOK, PlacesInv, AssertNotCancelled, RunStage, HandleStaleState, Cleanup,
         CleanupAndRaise, TaskFails, WorkerCrash, DatabaseFault
<1>1. faults' = 0 => faults = 0 /\ ~WorkerCrash(w) /\ ~DatabaseFault(w)
  BY <1>0, ScanEngineAssumption
  DEF TypeOK, AssertNotCancelled, RunStage, HandleStaleState, Cleanup, CleanupAndRaise,
      TaskFails, WorkerCrash, DatabaseFault
<1>2. RestFacts
  BY <1>0, <1>1, RestStays
\* A worker that goes on in its own record.
<1>3. ASSUME NEW r \in WorkerRecord, workers' = [workers EXCEPT ![w] = r],
             r.scan = me.scan, r.attempt = me.attempt, r.pc \notin {"idle", "loaded"},
             r.pc \in OwningPlaces => Owns(w), r.dirty => me.dirty \/ Owns(w),
             me.pc # "loaded" \/ faults' # 0,
             r.pc \in {"stale", "cleanup"} => me.pc = "stale",
             r.pc = "call" => me.pc = "check",
             \/ UNCHANGED outbox
             \/ /\ me.dirty /\ ~r.dirty /\ r.pc \notin OwningPlaces
                /\ outbox' = [outbox EXCEPT ![me.scan][me.attempt] = "pending"]
      PROVE  TableFacts
  <2>1. workers'[w] = r
    BY <1>0, <1>3 DEF TypeOK
  <2>2. MovesOn(w)
    BY <1>0, <1>3, <2>1 DEF MovesOn, Owns
  <2>3. KeepsReading(w)
    BY <1>3 DEF KeepsReading
  <2> QED
    BY <1>0, <1>3, <2>2, <2>3, WorkerFacts DEF WorkerMoves
\* A worker that is done.
<1>4. ASSUME workers' = [workers EXCEPT ![w] = IdleWorker],
             me.pc # "loaded" \/ faults' # 0,
             \/ UNCHANGED outbox
             \/ /\ me.dirty
                /\ outbox' = [outbox EXCEPT ![me.scan][me.attempt] = "pending"]
      PROVE  TableFacts
  <2>1. /\ workers'[w] = IdleWorker
        /\ IdleWorker.pc \notin OwningPlaces /\ ~IdleWorker.dirty
    BY <1>0, <1>4 DEF TypeOK, IdleWorker, OwningPlaces
  <2>2. KeepsReading(w)
    BY <1>4 DEF KeepsReading
  <2> QED
    BY <1>0, <1>4, <2>1, <2>2, WorkerFacts DEF WorkerMoves
<1>5. CASE AssertNotCancelled(w)
  <2> DEFINE now == scans[me.scan].status
             place == IF now = "CANCELLED" THEN "cancelled"
                      ELSE IF me.stage = "prepare" THEN "call" ELSE "advance"
             r == [me EXCEPT !.status = now, !.pc = place]
  <2>1. me.pc = "check" /\ Owns(w) /\ UNCHANGED outbox
    BY <1>5 DEF AssertNotCancelled, Owns, OwningPlaces
  <2>2. now \in ScanStatus \cup {"ABSENT"}
    BY <1>0 DEF TypeOK, ScanRow
  <2>3. /\ r \in WorkerRecord /\ r.scan = me.scan /\ r.attempt = me.attempt
        /\ r.dirty = me.dirty /\ r.pc \in {"cancelled", "call", "advance"}
    BY <1>0, <2>2 DEF WorkerRecord, WorkerPlaces
  <2>4. workers' = [workers EXCEPT ![w] = r]
    BY <1>5 DEF AssertNotCancelled
  <2> HIDE DEF r
  <2> QED
    BY <1>2, <1>3, <2>1, <2>3, <2>4
<1>6. CASE \E outcome \in Outcomes : RunStage(w, outcome)
  <2> PICK outcome \in Outcomes : RunStage(w, outcome)
    BY <1>6
  <2>1. me.pc = "call" /\ Owns(w) /\ me.stage \in Stages /\ UNCHANGED outbox
    BY DEF RunStage, Owns, OwningPlaces, PlacesInv
  <2>2. PICK r : /\ workers' = [workers EXCEPT ![w] = r]
                 /\ r \in { [me EXCEPT !.stage = NextStage[me.stage],
                               !.pc = IF me.stage = "process" THEN "advance" ELSE "check"],
                             [me EXCEPT !.pc = "timed_out"],
                             [me EXCEPT !.pc = "cancelled"],
                             HandleFailure(me, outcome) }
    BY DEF RunStage, Outcomes
  <2>3. \/ r = [me EXCEPT !.stage = NextStage[me.stage],
                         !.pc = IF me.stage = "process" THEN "advance" ELSE "check"]
        \/ \E place \in {"timed_out", "cancelled", "abort", "finalize"} :
             r = [me EXCEPT !.pc = place]
        \/ r = [me EXCEPT !.pc = "requeue", !.dirty = TRUE]
    BY <2>2 DEF HandleFailure
  <2>4. NextStage[me.stage] \in Stages \cup {"done"}
    BY <2>1 DEF NextStage, Stages
  <2>5. /\ r \in WorkerRecord /\ r.scan = me.scan /\ r.attempt = me.attempt
        /\ r.pc \notin {"idle", "loaded", "stale", "cleanup", "call"}
    BY <1>0, <2>3, <2>4 DEF WorkerRecord, WorkerPlaces
  <2> QED
    BY <1>2, <1>3, <2>1, <2>2, <2>5
<1>7. CASE HandleStaleState(w)
  <2>1. /\ me.pc = "stale"
        /\ \/ UNCHANGED outbox
           \/ Flush(me) /\ scans[me.scan].status = "CANCELLED"
    BY <1>7 DEF HandleStaleState
  <2>2. PICK r : /\ workers' = [workers EXCEPT ![w] = r]
                 /\ r = [me EXCEPT !.pc = "cleanup", !.status = scans[me.scan].status,
                           !.dirty = me.dirty /\ scans[me.scan].status # "CANCELLED"]
    BY <1>7 DEF HandleStaleState
  <2>3. scans[me.scan].status \in ScanStatus \cup {"ABSENT"}
    BY <1>0 DEF TypeOK, ScanRow
  <2>4. /\ r \in WorkerRecord /\ r.scan = me.scan /\ r.attempt = me.attempt
        /\ r.pc = "cleanup"
        /\ r.dirty => me.dirty /\ scans[me.scan].status # "CANCELLED"
    BY <1>0, <2>2, <2>3 DEF WorkerRecord, WorkerPlaces
  <2> QED
    BY <1>2, <1>3, <2>1, <2>2, <2>4 DEF Flush, OwningPlaces
<1>8. CASE Cleanup(w)
  BY <1>2, <1>4, <1>8 DEF Cleanup, Flush
<1>9. CASE CleanupAndRaise(w)
  <2> DEFINE r == [me EXCEPT !.pc = "raised"]
  <2>1. /\ r \in WorkerRecord /\ r.scan = me.scan /\ r.attempt = me.attempt
        /\ r.dirty = me.dirty /\ r.pc = "raised"
    BY <1>0 DEF WorkerRecord, WorkerPlaces
  <2>2. workers' = [workers EXCEPT ![w] = r] /\ UNCHANGED outbox /\ me.pc = "abort"
    BY <1>9 DEF CleanupAndRaise
  <2> HIDE DEF r
  <2> QED
    BY <1>2, <1>3, <2>1, <2>2 DEF OwningPlaces
<1>10. CASE TaskFails(w) \/ WorkerCrash(w)
  BY <1>1, <1>2, <1>4, <1>10 DEF TaskFails, WorkerCrash
<1>11. CASE DatabaseFault(w)
  <2>1. PICK place \in {"raised", "abort"} :
          workers' = [workers EXCEPT ![w] = [me EXCEPT !.dirty = FALSE, !.pc = place]]
    BY <1>0, <1>11 DEF DatabaseFault, WorkerRecord, TypeOK
  <2> DEFINE r == [me EXCEPT !.dirty = FALSE, !.pc = place]
  <2>2. /\ r \in WorkerRecord /\ r.scan = me.scan /\ r.attempt = me.attempt
        /\ ~r.dirty /\ r.pc = place
    BY <1>0 DEF WorkerRecord, WorkerPlaces
  <2>3. UNCHANGED outbox
    BY <1>11 DEF DatabaseFault
  <2>4. workers' = [workers EXCEPT ![w] = r]
    BY <2>1
  <2> HIDE DEF r
  <2> QED
    BY <1>1, <1>2, <1>3, <1>11, <2>2, <2>3, <2>4 DEF OwningPlaces
<1> QED
  BY <1>5, <1>6, <1>7, <1>8, <1>9, <1>10, <1>11

\* Every step of the specification.
LEMMA NextFacts ==
  ASSUME OwnershipInv, CancelsWhatExists, LetGo, [Next]_vars
  PROVE  TableFacts /\ RestFacts
<1>1. CASE UNCHANGED vars
  BY <1>1, TablesStay, RestStays DEF vars
<1>2. CASE \/ \E s \in Scans : CreateScan(s)
           \/ \E o, s \in Scans : RetryScan(o, s)
           \/ \E c \in Cancellers, s \in Scans : CancelRead(c, s)
           \/ \E c \in Cancellers : CancelStep(c)
  BY <1>2, RequestFacts
<1>3. CASE \/ \E d \in Dispatchers, s \in Scans, a \in Attempts : DispatchClaim(d, s, a)
           \/ \E d \in Dispatchers : DispatcherStep(d) \/ DispatchFault(d)
  BY <1>3, DispatcherFacts
<1>4. CASE \E w \in Workers, m \in queue, again \in BOOLEAN : Receive(w, m, again)
  BY <1>4, ReceiveFacts
<1>5. CASE \E w \in Workers : WorkerStep(w) \/ WorkerCrash(w) \/ DatabaseFault(w)
  <2> PICK w \in Workers : WorkerStep(w) \/ WorkerCrash(w) \/ DatabaseFault(w)
    BY <1>5
  <2>1. CASE Claim(w)
    BY <2>1, ClaimFacts
  <2>2. CASE \/ FailUnregistered(w)
             \/ Advance(w)
             \/ HandleTimeout(w)
             \/ Requeue(w)
             \/ FinalizeFailed(w)
    BY <2>2, TransitionStepFacts
  <2>3. CASE ValidateConfig(w) \/ HandleCancelled(w)
    BY <2>3, BranchingStepFacts
  <2>4. CASE \/ AssertNotCancelled(w)
             \/ \E outcome \in Outcomes : RunStage(w, outcome)
             \/ HandleStaleState(w)
             \/ Cleanup(w)
             \/ CleanupAndRaise(w)
             \/ TaskFails(w)
             \/ WorkerCrash(w)
             \/ DatabaseFault(w)
    BY <2>4, LocalStepFacts
  <2> QED
    BY <2>1, <2>2, <2>3, <2>4 DEF WorkerStep
<1> QED
  BY <1>1, <1>2, <1>3, <1>4, <1>5 DEF Next

-----------------------------------------------------------------------------
(* What the facts preserve                                                   *)

\* A row is never deleted, its attempt never decreases, and a cancelled scan stays
\* cancelled.
LEMMA RowsOnlyGrow ==
  ASSUME OwnershipInv, TypeOK', TableFacts, NEW s \in Scans
  PROVE  /\ scans[s].attempt \in Nat /\ scans'[s].attempt \in Nat
         /\ scans[s].status # "ABSENT" =>
              scans'[s].status # "ABSENT" /\ scans[s].attempt <= scans'[s].attempt
         /\ scans[s].status = "CANCELLED" => scans'[s].status = "CANCELLED"
<1>1. scans[s].attempt \in Nat /\ scans'[s].attempt \in Nat
  BY ScanEngineAssumption DEF OwnershipInv, TypeOK, ScanRow, Attempts
<1>2. RowMoves(s)
  BY DEF TableFacts
<1> QED
  BY <1>1, <1>2 DEF RowMoves, ExecutingStatuses, TerminalStatuses

\* The record of a worker that is no longer idle, after a step.
LEMMA BusyWorkers ==
  ASSUME OwnershipInv, TypeOK', TableFacts, NEW w \in Workers, workers'[w].pc # "idle"
  PROVE  \/ Reads(w)
         \/ Claims(w)
         \/ MovesOn(w)
         \/ workers'[w] = workers[w] /\ workers[w].pc # "idle"
BY DEF TableFacts, WorkerMoves, IdleWorker

LEMMA AheadStays ==
  ASSUME OwnershipInv, OwnershipInv', NothingRunsAhead, TableFacts, RestFacts
  PROVE  NothingRunsAhead'
<1> USE DEF NothingRunsAhead
<1>0. TypeOK /\ TypeOK' /\ PlacesInv /\ PlacesInv'
  BY DEF OwnershipInv
<1>1. ASSUME NEW s \in Scans, NEW a \in Attempts, outbox'[s][a] # "none"
      PROVE  scans'[s].status # "ABSENT" /\ a <= scans'[s].attempt
  <2>0. a \in Nat
    BY ScanEngineAssumption DEF Attempts
  <2>1. OutboxMoves(s, a)
    BY DEF TableFacts
  <2>2. CASE scans[s].status # "ABSENT" /\ a <= scans[s].attempt
    BY <1>0, <2>0, <2>2, RowsOnlyGrow
  <2>3. CASE a = 0 /\ scans'[s].status = "QUEUED" /\ scans'[s].attempt = 0
    BY <2>3
  <2>4. CASE \E w \in Workers : FlushedBy(w, s, a)
    BY <2>2, <2>4 DEF FlushedBy
  <2>5. CASE \E d \in Dispatchers :
               dispatchers[d].pc = "sent" /\ dispatchers[d].scan = s /\ dispatchers[d].attempt = a
    BY <2>2, <2>5
  <2> QED
    BY <1>1, <2>1, <2>2, <2>3, <2>4, <2>5 DEF OutboxMoves
<1>2. \A s \in Scans, a \in Attempts : outbox[s][a] # "none" => outbox'[s][a] # "none"
  BY DEF TableFacts, OutboxMoves
<1>3. ASSUME NEW d \in Dispatchers, dispatchers'[d].pc # "idle"
      PROVE  outbox'[dispatchers'[d].scan][dispatchers'[d].attempt] # "none"
  <2>1. DispatcherMoves(d)
    BY DEF RestFacts
  <2>2. dispatchers'[d].scan \in Scans /\ dispatchers'[d].attempt \in Attempts
    BY <1>0, <1>3 DEF TypeOK, PlacesInv, DispatcherRecord
  <2> QED
    BY <1>2, <1>3, <2>1, <2>2 DEF DispatcherMoves
<1>4. ASSUME NEW w \in Workers, workers'[w].pc # "idle"
      PROVE  /\ scans'[workers'[w].scan].status # "ABSENT"
             /\ workers'[w].attempt <= scans'[workers'[w].scan].attempt
  <2>1. workers'[w].scan \in Scans /\ workers'[w].attempt \in Nat /\ workers[w].attempt \in Nat
    BY <1>0, <1>4, ScanEngineAssumption DEF PlacesInv, TypeOK, WorkerRecord, Attempts
  <2>2. CASE Reads(w)
    BY <1>0, <2>1, <2>2, RowsOnlyGrow DEF Reads
  <2>3. CASE Claims(w)
    BY <2>1, <2>3 DEF Claims
  <2>4. CASE /\ workers[w].pc # "idle"
             /\ workers'[w].scan = workers[w].scan
             /\ workers'[w].attempt = workers[w].attempt
    <3> DEFINE s == workers[w].scan
    <3>1. s \in Scans /\ scans[s].status # "ABSENT" /\ workers[w].attempt <= scans[s].attempt
      BY <2>1, <2>4
    <3> QED
      BY <1>0, <2>1, <2>4, <3>1, RowsOnlyGrow
  <2> QED
    BY <1>0, <1>4, <2>2, <2>3, <2>4, BusyWorkers DEF MovesOn
<1>5. ASSUME NEW w \in Workers, workers'[w].dirty
      PROVE  workers'[w].pc # "idle"
  BY <1>5 DEF TableFacts, WorkerMoves, IdleWorker, Reads, Claims, MovesOn
<1> QED
  BY <1>1, <1>3, <1>4, <1>5

LEMMA OwnRowStaysNew ==
  ASSUME OwnershipInv, OwnershipInv', NothingRunsAhead, OwnAttemptHasNoRow, TableFacts
  PROVE  OwnAttemptHasNoRow'
<1> USE DEF OwnAttemptHasNoRow
<1>0. TypeOK /\ TypeOK' /\ PlacesInv'
  BY DEF OwnershipInv
<1> SUFFICES ASSUME NEW v \in Workers, Owns(v)'
             PROVE  /\ outbox'[workers'[v].scan][workers'[v].attempt] = "none"
                    /\ \A w \in Workers :
                         workers'[w].dirty /\ w # v /\ workers'[w].scan = workers'[v].scan =>
                           workers'[w].attempt < workers'[v].attempt
  OBVIOUS
<1> PICK s \in Scans : s = workers'[v].scan
  BY <1>0 DEF PlacesInv, Owns, OwningPlaces
<1> PICK a \in Attempts : a = workers'[v].attempt
  BY <1>0 DEF TypeOK, WorkerRecord
<1>1. a \in Nat /\ scans[s].attempt \in Nat
  BY <1>0, ScanEngineAssumption DEF Attempts, TypeOK, ScanRow
\* Its attempt was its own before, or it has just opened it.
<1>2. \/ Owns(v) /\ workers[v].scan = s /\ workers[v].attempt = a
      \/ scans[s].status = "QUEUED" /\ a = scans[s].attempt + 1
  <2>1. workers'[v].pc # "idle"
    BY DEF Owns, OwningPlaces
  <2> QED
    BY <1>0, <2>1, BusyWorkers DEF Reads, Claims, MovesOn, Owns, OwningPlaces
\* Whatever is flushed after the step was flushed before, or is of an owner.
<1>3. ASSUME NEW w \in Workers, workers'[w].dirty
      PROVE  /\ workers[w].dirty \/ Owns(w)
             /\ workers'[w].scan = workers[w].scan /\ workers'[w].attempt = workers[w].attempt
             /\ workers[w].attempt \in Nat
  <2>1. workers[w].attempt \in Nat
    BY <1>0, ScanEngineAssumption DEF TypeOK, WorkerRecord, Attempts
  <2> QED
    BY <1>3, <2>1
    DEF TableFacts, WorkerMoves, IdleWorker, Reads, Claims, MovesOn, NothingRunsAhead
<1>4. outbox'[s][a] = "none"
  <2>1. outbox[s][a] = "none"
    <3>1. CASE Owns(v) /\ workers[v].scan = s /\ workers[v].attempt = a
      BY <3>1
    <3>2. CASE a = scans[s].attempt + 1
      BY <1>1, <3>2 DEF NothingRunsAhead
    <3> QED
      BY <1>2, <3>1, <3>2
  <2>2. scans[s].status # "ABSENT"
    BY <1>2 DEF NothingRunsAhead, Owns, OwningPlaces
  <2>3. ~\E w \in Workers : FlushedBy(w, s, a)
    <3> SUFFICES ASSUME NEW w \in Workers, FlushedBy(w, s, a) PROVE FALSE
      OBVIOUS
    <3>1. w # v /\ workers[w].dirty /\ workers[w].scan = s /\ workers[w].attempt = a
      BY DEF FlushedBy
    <3>2. CASE Owns(v) /\ workers[v].scan = s /\ workers[v].attempt = a
      BY <1>1, <3>1, <3>2
    <3>3. CASE a = scans[s].attempt + 1
      BY <1>1, <3>1, <3>3 DEF NothingRunsAhead
    <3> QED
      BY <1>2, <3>2, <3>3
  <2>4. ~\E d \in Dispatchers :
           dispatchers[d].pc = "sent" /\ dispatchers[d].scan = s /\ dispatchers[d].attempt = a
    BY <2>1 DEF NothingRunsAhead
  <2>5. OutboxMoves(s, a)
    BY DEF TableFacts
  <2> QED
    BY <2>1, <2>2, <2>3, <2>4, <2>5 DEF OutboxMoves
<1>5. ASSUME NEW w \in Workers, workers'[w].dirty, w # v, workers'[w].scan = s
      PROVE  workers'[w].attempt < a
  <2>1. /\ workers[w].dirty \/ Owns(w)
        /\ workers[w].scan = s /\ workers'[w].attempt = workers[w].attempt
        /\ workers[w].attempt \in Nat
    BY <1>3, <1>5
  <2>2. CASE Owns(v) /\ workers[v].scan = s /\ workers[v].attempt = a
    BY <1>5, <2>1, <2>2 DEF OwnershipInv, SingleOwner
  <2>3. CASE a = scans[s].attempt + 1
    <3>1. workers[w].pc # "idle"
      BY <2>1 DEF NothingRunsAhead, Owns, OwningPlaces
    <3>2. workers[w].attempt <= scans[s].attempt
      BY <2>1, <3>1 DEF NothingRunsAhead
    <3> QED
      BY <1>1, <2>1, <2>3, <3>2
  <2> QED
    BY <1>2, <2>2, <2>3
<1> QED
  BY <1>4, <1>5

LEMMA LetGoStays ==
  ASSUME OwnershipInv, OwnershipInv', NothingRunsAhead, LetGo, TableFacts, RestFacts
  PROVE  LetGo'
<1> USE DEF LetGo
<1>0. TypeOK /\ TypeOK' /\ PlacesInv'
  BY DEF OwnershipInv
<1>1. ASSUME NEW w \in Workers, workers'[w].pc \in {"stale", "cleanup"},
             scans'[workers'[w].scan].status \in ExecutingStatuses
      PROVE  scans'[workers'[w].scan].attempt > workers'[w].attempt
  <2> PICK s \in Scans : s = workers'[w].scan
    BY <1>0, <1>1 DEF PlacesInv
  <2>0. /\ workers[w].attempt \in Nat /\ scans[s].attempt \in Nat
        /\ scans'[s].attempt \in Nat
    BY <1>0, ScanEngineAssumption DEF TypeOK, WorkerRecord, ScanRow, Attempts
  <2>1. /\ workers[w].pc \in {"stale", "cleanup"}
        /\ workers[w].scan = s /\ workers'[w].attempt = workers[w].attempt
    BY <1>1, BusyWorkers, <1>0 DEF Reads, Claims, MovesOn
  <2>2. /\ scans[s].status \in ExecutingStatuses => scans[s].attempt > workers[w].attempt
        /\ workers[w].attempt <= scans[s].attempt
    BY <2>1 DEF NothingRunsAhead
  <2>3. RowMoves(s)
    BY DEF TableFacts
  <2> QED
    BY <1>1, <2>0, <2>1, <2>2, <2>3 DEF RowMoves, ExecutingStatuses, TerminalStatuses
<1>2. ASSUME NEW c \in Cancellers, cancels'[c].pc = "revoke"
      PROVE  scans'[cancels'[c].scan].status = "CANCELLED"
  <2>1. cancels'[c].scan \in Scans
    BY <1>0, <1>2 DEF PlacesInv
  <2>2. CancelMoves(c)
    BY DEF RestFacts
  <2> QED
    BY <1>0, <1>2, <2>1, <2>2, RowsOnlyGrow DEF CancelMoves
<1> QED
  BY <1>1, <1>2

\* A scan that waits, and was sent for the attempt it waits with, was waiting with
\* that attempt before; and what was delivered then still is, until it is claimed.
LEMMA DeliveryStays ==
  ASSUME OwnershipInv, OwnershipInv', NothingRunsAhead, OwnAttemptHasNoRow,
         SentIsDelivered, TableFacts, RestFacts
  PROVE  SentIsDelivered'
<1>0. TypeOK /\ TypeOK' /\ PlacesInv /\ QueuedHasOutboxRow
  BY DEF OwnershipInv
<1> SUFFICES ASSUME faults' = 0, NEW s \in Scans, scans'[s].status = "QUEUED",
                    \/ outbox'[s][scans'[s].attempt] = "published"
                    \/ \E d \in Dispatchers :
                         /\ dispatchers'[d].pc = "sent"
                         /\ dispatchers'[d].scan = s
                         /\ dispatchers'[d].attempt = scans'[s].attempt
             PROVE  Delivered(s)'
  BY DEF SentIsDelivered
<1> PICK a \in Attempts : a = scans'[s].attempt
  BY <1>0 DEF TypeOK, ScanRow
<1>1. RowMoves(s) /\ OutboxMoves(s, a)
  BY DEF TableFacts
\* Whoever has sent has the row locked since before the step, or a message waits.
<1>2. ASSUME NEW d \in Dispatchers, dispatchers'[d].pc = "sent",
             dispatchers'[d].scan = s, dispatchers'[d].attempt = a
      PROVE  /\ outbox[s][a] # "none"
             /\ \/ \E m \in queue' : m.scan = s
                \/ /\ dispatchers[d].pc = "sent"
                   /\ dispatchers[d].scan = s /\ dispatchers[d].attempt = a
  <2>1. DispatcherMoves(d)
    BY DEF RestFacts
  <2>2. /\ dispatchers[d].pc # "idle"
        /\ dispatchers[d].scan = s /\ dispatchers[d].attempt = a
        /\ \/ \E m \in queue' : m.scan = s
           \/ dispatchers[d].pc = "sent"
    BY <1>2, <2>1 DEF DispatcherMoves
  <2> QED
    BY <2>2 DEF NothingRunsAhead
\* The row waited already: what was inserted or re-queued has its row pending, and
\* nobody has sent it.
<1>3. scans[s].status = "QUEUED" /\ scans[s].attempt = a
  <2>1. ASSUME outbox'[s][a] = "pending", outbox[s][a] = "none"
        PROVE  FALSE
    BY <1>2, <2>1
  <2>2. CASE scans[s].status = "ABSENT" /\ a = 0 /\ outbox'[s][0] = "pending"
    BY <2>1, <2>2 DEF NothingRunsAhead
  <2>3. CASE /\ \E w \in Workers :
                  Owns(w) /\ workers[w].scan = s /\ workers[w].attempt = a
             /\ outbox'[s][a] = "pending"
    BY <2>1, <2>3 DEF OwnAttemptHasNoRow
  <2> QED
    BY <1>1, <2>2, <2>3 DEF RowMoves, ExecutingStatuses, TerminalStatuses
<1>4. CASE \E m \in queue' : m.scan = s
  BY <1>4 DEF Delivered
<1>5. CASE Delivered(s)
  <2>1. ASSUME NEW m \in queue, m.scan = s
        PROVE  Delivered(s)'
    <3>1. MessageMoves(m)
      BY DEF RestFacts
    <3> QED
      BY <1>3, <2>1, <3>1 DEF MessageMoves, Delivered
  <2>2. ASSUME NEW w \in Workers, workers[w].pc = "loaded", workers[w].scan = s,
               workers[w].attempt = scans[s].attempt
        PROVE  Delivered(s)'
    <3>1. KeepsReading(w)
      BY DEF TableFacts
    <3>2. workers'[w] = workers[w]
      BY <1>3, <2>2, <3>1 DEF KeepsReading
    <3> QED
      BY <1>3, <2>2, <3>2 DEF Delivered
  <2> QED
    BY <1>5, <2>1, <2>2 DEF Delivered
<1>6. ASSUME \A m \in queue' : m.scan # s
      PROVE  Delivered(s)
  <2>1. \/ outbox[s][a] = "published"
        \/ \E d \in Dispatchers :
             dispatchers[d].pc = "sent" /\ dispatchers[d].scan = s /\ dispatchers[d].attempt = a
    BY <1>1, <1>2, <1>6 DEF OutboxMoves
  <2>2. faults = 0
    BY DEF RestFacts
  <2> QED
    BY <1>3, <2>1, <2>2 DEF SentIsDelivered
<1> QED
  BY <1>4, <1>5, <1>6

\* Every step of the specification preserves the invariant.
LEMMA NextDispatch ==
  ASSUME DispatchInv, [Next]_vars
  PROVE  DispatchInv'
<1> USE DEF DispatchInv
<1>1. OwnershipInv' /\ CancelsWhatExists'
  BY NextOwnership, CancelBelief
<1>2. TableFacts /\ RestFacts
  BY NextFacts
<1>3. NothingRunsAhead' /\ OwnAttemptHasNoRow' /\ LetGo' /\ SentIsDelivered'
  BY <1>1, <1>2, AheadStays, OwnRowStaysNew, LetGoStays, DeliveryStays
<1> QED
  BY <1>1, <1>3

LEMMA InitDispatch == Init => DispatchInv
<1> SUFFICES ASSUME Init PROVE DispatchInv
  OBVIOUS
<1>1. OwnershipInv
  BY InitOwnership
<1>2. NothingRunsAhead
  BY DEF Init, NothingRunsAhead, IdleWorker, IdleDispatcher
<1>3. OwnAttemptHasNoRow /\ LetGo /\ CancelsWhatExists
  BY DEF Init, OwnAttemptHasNoRow, LetGo, CancelsWhatExists, Owns, OwningPlaces, IdleWorker,
         IdleCancel
<1>4. SentIsDelivered
  BY DEF Init, SentIsDelivered, AbsentScan
<1> QED
  BY <1>1, <1>2, <1>3, <1>4 DEF DispatchInv

\* The dispatch invariant holds in every reachable state of the scan engine.
THEOREM DispatchHolds == Spec => []DispatchInv
<1>1. DispatchInv /\ [Next]_vars => DispatchInv'
  BY NextDispatch
<1> QED
  BY <1>1, InitDispatch, PTL DEF Spec

\* No retry is rejected by UNIQUE(tenant_id, scan_id, scan_attempt): the attempt a
\* worker re-queues was opened by its own claim, and no row was made for it since.
THEOREM RetriesAreNew == Spec => []RetryRowIsNew
<1>1. DispatchInv => RetryRowIsNew
  BY DEF DispatchInv, OwnAttemptHasNoRow, RetryRowIsNew, Owns, OwningPlaces
<1> QED
  BY <1>1, DispatchHolds, PTL

\* Without faults no QUEUED scan is forgotten, for any number of dispatchers that
\* publish it twice, workers that ignore what they find, and redeliveries.
THEOREM NothingIsForgotten == Spec => []NoLostDispatch
<1>1. ASSUME DispatchInv PROVE NoLostDispatch
  <2> SUFFICES ASSUME faults = 0, NEW s \in Scans, scans[s].status = "QUEUED",
                      outbox[s][scans[s].attempt] # "pending"
               PROVE  Delivered(s)
    BY DEF NoLostDispatch
  <2>1. scans[s].attempt \in Attempts
    BY <1>1 DEF DispatchInv, OwnershipInv, TypeOK, ScanRow
  <2>2. outbox[s][scans[s].attempt] = "published"
    BY <1>1, <2>1 DEF DispatchInv, OwnershipInv, TypeOK, QueuedHasOutboxRow
  <2> QED
    BY <1>1, <2>2 DEF DispatchInv, SentIsDelivered
<1> QED
  BY <1>1, DispatchHolds, PTL

\* A run() that returns normally leaves no attempt of its own in execution.
THEOREM ReturnsLeaveNoOrphan == Spec => []NormalReturnLeavesNoOrphan
<1>1. DispatchInv => NormalReturnLeavesNoOrphan
  BY DEF DispatchInv, LetGo, NormalReturnLeavesNoOrphan
<1> QED
  BY <1>1, DispatchHolds, PTL

\* Only the transition that matched the row lets a worker into the next stage, and a
\* cancelled row has no edge: the gap between the check and the stage is closed.
THEOREM NoStageStartsAfterCancel == Spec => NoStageAfterCancel
<1>1. ASSUME DispatchInv, [Next]_vars
      PROVE  \A w \in Workers :
               workers[w].pc = "advance" /\ workers'[w].pc = "call" =>
                 scans[workers[w].scan].status # "CANCELLED"
  <2>1. TableFacts
    BY <1>1, NextFacts DEF DispatchInv
  <2> QED
    BY <2>1 DEF TableFacts, WorkerMoves, Reads, Claims, MovesOn, IdleWorker
<1> QED
  BY <1>1, DispatchHolds, PTL DEF Spec, NoStageAfterCancel
-----------------------------------------------------------------------------
(* The outbox rows: written once, published under the lock they were sent under *)

\* A lock is taken on a row nobody has locked, one at a time.
LEMMA LocksStayExclusive ==
  ASSUME LocksAreExclusive, RestFacts
  PROVE  LocksAreExclusive'
<1> SUFFICES ASSUME NEW c \in Dispatchers, NEW d \in Dispatchers, c # d,
                    dispatchers'[c].pc # "idle", dispatchers'[d].pc # "idle",
                    dispatchers'[c].scan = dispatchers'[d].scan,
                    dispatchers'[c].attempt = dispatchers'[d].attempt
             PROVE  FALSE
  BY DEF LocksAreExclusive
\* What a dispatcher has locked after the step it had before, or has just locked.
<1> DEFINE Had(e) == /\ dispatchers[e].pc # "idle"
                     /\ dispatchers'[e].scan = dispatchers[e].scan
                     /\ dispatchers'[e].attempt = dispatchers[e].attempt
           Took(e) == /\ ~Locked(dispatchers'[e].scan, dispatchers'[e].attempt)
                      /\ \A b \in Dispatchers : b # e => dispatchers'[b] = dispatchers[b]
<1>1. (Had(c) \/ Took(c)) /\ (Had(d) \/ Took(d))
  BY DEF RestFacts, DispatcherMoves
<1>2. CASE Had(c) /\ Had(d)
  BY <1>2 DEF LocksAreExclusive
<1>3. CASE Took(c)
  BY <1>3 DEF Locked
<1>4. CASE Took(d)
  BY <1>4 DEF Locked
<1> QED
  BY <1>1, <1>2, <1>3, <1>4

\* The row of a lock stays pending: nobody but the one who has it locked publishes it.
LEMMA ClaimsStayCurrent ==
  ASSUME OwnershipInv', LocksAreExclusive, ClaimIsCurrent, TableFacts, RestFacts
  PROVE  ClaimIsCurrent'
<1> SUFFICES ASSUME NEW d \in Dispatchers, dispatchers'[d].pc # "idle"
             PROVE  outbox'[dispatchers'[d].scan][dispatchers'[d].attempt] = "pending"
  BY DEF ClaimIsCurrent
<1> PICK s \in Scans, a \in Attempts : s = dispatchers'[d].scan /\ a = dispatchers'[d].attempt
  BY DEF OwnershipInv, TypeOK, PlacesInv, DispatcherRecord
<1>1. CASE /\ dispatchers[d].pc # "idle"
           /\ dispatchers[d].scan = s /\ dispatchers[d].attempt = a
  <2>1. outbox[s][a] = "pending"
    BY <1>1 DEF ClaimIsCurrent
  <2>2. ASSUME NEW e \in Dispatchers, dispatchers[e].pc = "sent",
               dispatchers[e].scan = s, dispatchers[e].attempt = a,
               dispatchers'[e].pc = "idle"
        PROVE  FALSE
    BY <1>1, <2>2 DEF LocksAreExclusive
  <2>3. OutboxMoves(s, a)
    BY DEF TableFacts
  <2> QED
    BY <2>1, <2>2, <2>3 DEF OutboxMoves
<1>2. CASE outbox'[s][a] = "pending"
  BY <1>2
<1> QED
  BY <1>1, <1>2 DEF RestFacts, DispatcherMoves

\* A row that is flushed but not committed stays out of the table and of every other
\* session.
LEMMA FlushedStaysNew ==
  ASSUME OwnershipInv, OwnershipInv', NothingRunsAhead, OwnAttemptHasNoRow,
         FlushedRowIsNew, TableFacts
  PROVE  FlushedRowIsNew'
<1>0. TypeOK /\ TypeOK' /\ PlacesInv'
  BY DEF OwnershipInv
\* What is flushed after the step was flushed before, or is of an owner.
<1>1. ASSUME NEW w \in Workers, workers'[w].dirty
      PROVE  /\ workers[w].dirty \/ Owns(w)
             /\ workers[w].pc # "idle"
             /\ workers'[w].scan = workers[w].scan /\ workers'[w].attempt = workers[w].attempt
             /\ workers[w].scan \in Scans /\ workers[w].attempt \in Attempts
  <2>1. /\ workers[w].dirty \/ Owns(w)
        /\ workers'[w].scan = workers[w].scan /\ workers'[w].attempt = workers[w].attempt
    BY <1>1 DEF TableFacts, WorkerMoves, IdleWorker, Reads, Claims, MovesOn
  <2>2. workers[w].pc # "idle"
    BY <2>1 DEF NothingRunsAhead, Owns, OwningPlaces
  <2>3. workers[w].scan \in Scans /\ workers[w].attempt \in Attempts
    BY <1>0, <2>2 DEF OwnershipInv, PlacesInv, TypeOK, WorkerRecord
  <2> QED
    BY <2>1, <2>2, <2>3
\* Two workers that have flushed, or own, the same attempt are the same.
<1>2. ASSUME NEW v \in Workers, NEW w \in Workers,
             workers[v].dirty \/ Owns(v), workers[w].dirty \/ Owns(w),
             workers[v].scan = workers[w].scan, workers[v].attempt = workers[w].attempt,
             workers[v].attempt \in Attempts
      PROVE  v = w
  <2>1. workers[v].attempt \in Nat
    BY <1>2, ScanEngineAssumption DEF Attempts
  <2>2. CASE workers[v].dirty /\ workers[w].dirty
    BY <1>2, <2>2 DEF FlushedRowIsNew
  <2>3. CASE Owns(v) /\ Owns(w)
    BY <1>2, <2>3 DEF OwnershipInv, SingleOwner
  <2>4. CASE Owns(v) /\ workers[w].dirty
    BY <1>2, <2>1, <2>4 DEF OwnAttemptHasNoRow
  <2>5. CASE Owns(w) /\ workers[v].dirty
    BY <1>2, <2>1, <2>5 DEF OwnAttemptHasNoRow
  <2> QED
    BY <1>2, <2>2, <2>3, <2>4, <2>5
<1> SUFFICES ASSUME NEW v \in Workers, workers'[v].dirty
             PROVE  /\ outbox'[workers'[v].scan][workers'[v].attempt] = "none"
                    /\ \A w \in Workers :
                         /\ workers'[w].dirty
                         /\ workers'[w].scan = workers'[v].scan
                         /\ workers'[w].attempt = workers'[v].attempt
                         => w = v
  BY DEF FlushedRowIsNew
<1> PICK s \in Scans, a \in Attempts : s = workers[v].scan /\ a = workers[v].attempt
  BY <1>1
<1>3. \A w \in Workers :
        /\ workers'[w].dirty
        /\ workers'[w].scan = workers'[v].scan
        /\ workers'[w].attempt = workers'[v].attempt
        => w = v
  BY <1>1, <1>2
<1>4. outbox'[s][a] = "none"
  <2>1. outbox[s][a] = "none"
    BY <1>1 DEF FlushedRowIsNew, OwnAttemptHasNoRow
  <2>2. scans[s].status # "ABSENT"
    BY <1>1 DEF NothingRunsAhead
  <2>3. ~\E w \in Workers : FlushedBy(w, s, a)
    BY <1>1, <1>2 DEF FlushedBy
  <2>4. ~\E d \in Dispatchers :
           dispatchers[d].pc = "sent" /\ dispatchers[d].scan = s /\ dispatchers[d].attempt = a
    BY <2>1 DEF NothingRunsAhead
  <2>5. OutboxMoves(s, a)
    BY DEF TableFacts
  <2> QED
    BY <2>1, <2>2, <2>3, <2>4, <2>5 DEF OutboxMoves
<1> QED
  BY <1>1, <1>3, <1>4

LEMMA NextOutbox ==
  ASSUME OutboxInv, [Next]_vars
  PROVE  OutboxInv'
<1> USE DEF OutboxInv
<1>1. DispatchInv'
  BY NextDispatch
<1>2. OwnershipInv /\ OwnershipInv' /\ NothingRunsAhead /\ OwnAttemptHasNoRow
  BY <1>1 DEF DispatchInv
<1>3. TableFacts /\ RestFacts
  BY NextFacts DEF DispatchInv
<1> QED
  BY <1>1, <1>2, <1>3, LocksStayExclusive, ClaimsStayCurrent, FlushedStaysNew

LEMMA InitOutbox == Init => OutboxInv
BY InitDispatch
DEF OutboxInv, LocksAreExclusive, ClaimIsCurrent, FlushedRowIsNew, Init, IdleDispatcher,
    IdleWorker

\* The invariant of the outbox rows holds in every reachable state of the engine: no
\* row is claimed twice at a time or inserted twice, by any workers and dispatchers.
THEOREM OutboxHolds == Spec => []OutboxInv
<1>1. OutboxInv /\ [Next]_vars => OutboxInv'
  BY NextOutbox
<1> QED
  BY <1>1, InitOutbox, PTL DEF Spec
-----------------------------------------------------------------------------
(* What a row tells of its scan                                               *)

\* The row _enqueue inserts, for a scan or for the retry of `origin`.
Inserted(origin) ==
  Moved([AbsentScan EXCEPT !.status = "PENDING", !.retryOf = origin], "QUEUED")

\* A step leaves a row as it is but for its job id, inserts it, claims it, or moves it
\* along an edge of the state machine.
RowSteps(s) ==
  \/ /\ scans'[s].status = scans[s].status /\ scans'[s].stamps = scans[s].stamps
     /\ scans'[s].retryOf = scans[s].retryOf
  \/ /\ scans[s].status = "ABSENT"
     /\ \/ scans'[s] = Inserted(None)
        \/ \E o \in Scans :
             scans[o].status \in RetryableStatuses /\ scans'[s] = Inserted(o)
  \/ /\ scans[s].status = "QUEUED" /\ scans'[s].status = "PREPARING"
     /\ scans'[s].stamps = scans[s].stamps /\ scans'[s].retryOf = scans[s].retryOf
  \/ /\ scans[s].status # "ABSENT"
     /\ \E target \in ScanStatus :
          target \in ValidTransitions[scans[s].status] /\ scans'[s] = Moved(scans[s], target)

AllRowSteps == \A s \in Scans : RowSteps(s)

LEMMA OneRowSteps ==
  ASSUME TypeOK, NEW s \in Scans, NEW row, scans' = [scans EXCEPT ![s] = row], RowSteps(s)
  PROVE  AllRowSteps
<1>1. \A t \in Scans : t # s => scans'[t] = scans[t]
  BY DEF TypeOK
<1> QED
  BY <1>1 DEF AllRowSteps, RowSteps

LEMMA RowsStay == UNCHANGED scans => AllRowSteps
BY DEF AllRowSteps, RowSteps

\* A conditional UPDATE that matched an existing row moved it along an edge.
LEMMA TransitionIsARowStep ==
  ASSUME DispatchInv, NEW w \in Workers, workers[w].pc # "idle",
         NEW target \in ScanStatus, NEW next, Transition(w, target, next)
  PROVE  AllRowSteps
<1> DEFINE s == workers[w].scan
<1>0. TypeOK /\ OwnershipInv /\ s \in Scans /\ scans[s].status # "ABSENT"
  BY DEF DispatchInv, OwnershipInv, PlacesInv, NothingRunsAhead
<1>1. CASE /\ scans[s].status = workers[w].status
           /\ target \in ValidTransitions[workers[w].status]
           /\ scans' = [scans EXCEPT ![s] = Moved(@, target)]
  <2>1. scans' = [scans EXCEPT ![s] = Moved(scans[s], target)]
    BY <1>1
  <2>2. scans'[s] = Moved(scans[s], target)
    BY <1>0, <2>1 DEF TypeOK
  <2>3. RowSteps(s)
    BY <1>0, <1>1, <2>2 DEF RowSteps
  <2> QED
    BY <1>0, <2>1, <2>3, OneRowSteps
<1> QED
  BY <1>0, <1>1, RowsStay, TransitionCases

\* Every step of the specification.
LEMMA NextRowSteps ==
  ASSUME DispatchInv, [Next]_vars
  PROVE  AllRowSteps
<1>0. TypeOK /\ PlacesInv
  BY DEF DispatchInv, OwnershipInv
<1>1. CASE UNCHANGED vars
  BY <1>1, RowsStay DEF vars
<1>2. ASSUME NEW s \in Scans, NEW origin, Enqueue(s, origin)
      PROVE  scans' = [scans EXCEPT ![s] = Inserted(origin)] /\ scans'[s] = Inserted(origin)
  BY <1>0, <1>2 DEF Enqueue, Inserted, TypeOK
<1>3. CASE \E s \in Scans : CreateScan(s)
  <2> PICK s \in Scans : scans[s].status = "ABSENT" /\ Enqueue(s, None)
    BY <1>3 DEF CreateScan
  <2>1. RowSteps(s)
    BY <1>2 DEF RowSteps
  <2> QED
    BY <1>0, <1>2, <2>1, OneRowSteps
<1>4. CASE \E o, s \in Scans : RetryScan(o, s)
  <2> PICK o \in Scans, s \in Scans :
        /\ scans[o].status \in RetryableStatuses
        /\ scans[s].status = "ABSENT" /\ Enqueue(s, o)
    BY <1>4 DEF RetryScan
  <2>1. RowSteps(s)
    BY <1>2 DEF RowSteps
  <2> QED
    BY <1>0, <1>2, <2>1, OneRowSteps
<1>5. ASSUME NEW c \in Cancellers, CancelTransition(c)
      PROVE  AllRowSteps
  <2> DEFINE s == cancels[c].scan
  <2>1. s \in Scans /\ cancels[c].status # "ABSENT"
    BY <1>0, <1>5 DEF CancelTransition, PlacesInv, DispatchInv, CancelsWhatExists
  <2>2. CASE /\ scans[s].status = cancels[c].status
             /\ "CANCELLED" \in ValidTransitions[cancels[c].status]
             /\ scans' = [scans EXCEPT ![s] = Moved(@, "CANCELLED")]
    <3>1. scans' = [scans EXCEPT ![s] = Moved(scans[s], "CANCELLED")]
      BY <2>2
    <3>2. scans'[s] = Moved(scans[s], "CANCELLED")
      BY <1>0, <2>1, <3>1 DEF TypeOK
    <3>3. RowSteps(s)
      BY <2>1, <2>2, <3>2 DEF RowSteps, ScanStatus, TerminalStatuses
    <3> QED
      BY <1>0, <2>1, <3>1, <3>3, OneRowSteps
  <2> QED
    BY <1>5, <2>2, RowsStay DEF CancelTransition, TransitionResult
<1>6. CASE \/ \E c \in Cancellers, s \in Scans : CancelRead(c, s)
           \/ \E c \in Cancellers : CancelStep(c)
  BY <1>5, <1>6, RowsStay DEF CancelRead, CancelStep, CancelRevoke
<1>7. ASSUME NEW d \in Dispatchers, DispatchRecord(d)
      PROVE  AllRowSteps
  <2> DEFINE me  == dispatchers[d]
             row == [scans[me.scan] EXCEPT !.job = me.job]
  <2>1. me.scan \in Scans /\ scans[me.scan] \in ScanRow
    BY <1>0, <1>7 DEF DispatchRecord, PlacesInv, TypeOK
  <2>2. /\ row.status = scans[me.scan].status /\ row.stamps = scans[me.scan].stamps
        /\ row.retryOf = scans[me.scan].retryOf
    BY <2>1 DEF ScanRow
  <2>3. scans' = [scans EXCEPT ![me.scan] = row]
    BY <1>7 DEF DispatchRecord
  <2> HIDE DEF row
  <2>4. scans'[me.scan] = row
    BY <1>0, <2>1, <2>3 DEF TypeOK
  <2>5. RowSteps(me.scan)
    BY <2>2, <2>4 DEF RowSteps
  <2> QED
    BY <1>0, <2>1, <2>3, <2>5, OneRowSteps
<1>8. CASE \/ \E d \in Dispatchers, s \in Scans, a \in Attempts : DispatchClaim(d, s, a)
           \/ \E d \in Dispatchers : DispatcherStep(d) \/ DispatchFault(d)
           \/ \E w \in Workers, m \in queue, again \in BOOLEAN : Receive(w, m, again)
  BY <1>7, <1>8, RowsStay
  DEF DispatchClaim, DispatcherStep, DispatchSend, DispatchFault, Receive
<1>9. ASSUME NEW w \in Workers, Claim(w)
      PROVE  AllRowSteps
  <2> DEFINE me  == workers[w]
             row == [scans[me.scan] EXCEPT !.status = "PREPARING", !.attempt = me.attempt + 1]
  <2>1. me.scan \in Scans /\ scans[me.scan] \in ScanRow
    BY <1>0, <1>9 DEF Claim, PlacesInv, TypeOK
  <2>2. CASE /\ scans[me.scan].status = "QUEUED"
             /\ scans' = [scans EXCEPT ![me.scan] = row]
    <3>1. /\ row.status = "PREPARING" /\ row.stamps = scans[me.scan].stamps
          /\ row.retryOf = scans[me.scan].retryOf
      BY <2>1 DEF ScanRow
    <3> HIDE DEF row
    <3>2. scans'[me.scan] = row
      BY <1>0, <2>1, <2>2 DEF TypeOK
    <3>3. RowSteps(me.scan)
      BY <2>2, <3>1, <3>2 DEF RowSteps
    <3> QED
      BY <1>0, <2>1, <2>2, <3>3, OneRowSteps
  <2>3. \/ UNCHANGED scans
        \/ /\ scans[me.scan].status = "QUEUED"
           /\ scans' = [scans EXCEPT ![me.scan] = row]
    BY <1>0, <1>9, <2>1 DEF Claim, ClaimMatches, TypeOK, ScanRow
  <2> QED
    BY <2>2, <2>3, RowsStay
<1>10. CASE \E w \in Workers : WorkerStep(w) \/ WorkerCrash(w) \/ DatabaseFault(w)
  <2> PICK w \in Workers : WorkerStep(w) \/ WorkerCrash(w) \/ DatabaseFault(w)
    BY <1>10
  <2>1. CASE \/ FailUnregistered(w)
             \/ ValidateConfig(w)
             \/ HandleTimeout(w)
             \/ HandleCancelled(w)
             \/ Requeue(w)
             \/ FinalizeFailed(w)
    BY <2>1, RowsStay, TransitionIsARowStep
    DEF FailUnregistered, ValidateConfig, HandleTimeout, HandleCancelled, Requeue,
        FinalizeFailed, ScanStatus, TerminalStatuses
  <2>2. CASE Advance(w)
    <3>1. /\ workers[w].pc = "advance"
          /\ \E next : Transition(w, StageStatus[workers[w].stage], next)
      BY <2>2 DEF Advance
    <3>2. workers[w].stage \in {"execute", "collect", "process", "done"}
      BY <1>0, <3>1 DEF PlacesInv, TypeOK, WorkerRecord, Stages
    <3>3. StageStatus[workers[w].stage] \in ScanStatus
      BY <3>2 DEF StageStatus, ScanStatus, ExecutingStatuses, TerminalStatuses
    <3> QED
      BY <3>1, <3>3, TransitionIsARowStep
  <2>3. CASE \/ AssertNotCancelled(w)
             \/ \E outcome \in Outcomes : RunStage(w, outcome)
             \/ HandleStaleState(w)
             \/ Cleanup(w)
             \/ CleanupAndRaise(w)
             \/ TaskFails(w)
             \/ WorkerCrash(w)
             \/ DatabaseFault(w)
    BY <2>3, RowsStay
    DEF AssertNotCancelled, RunStage, HandleStaleState, Cleanup, CleanupAndRaise,
        TaskFails, WorkerCrash, DatabaseFault
  <2> QED
    BY <1>9, <2>1, <2>2, <2>3 DEF WorkerStep
<1> QED
  BY <1>1, <1>3, <1>4, <1>6, <1>8, <1>10 DEF Next
\* The stamp of a status is the one terminal stamp it may have.
LEMMA StampsOfStatuses ==
  /\ \A status \in ScanStatus :
       StampsOf(status) \cap TerminalTimestamps =
         IF status \in TerminalStatuses THEN StampsOf(status) ELSE {}
  /\ StampsOf("QUEUED") = {"queued_at"} /\ StampsOf("RUNNING") = {"started_at"}
BY DEF StampsOf, TerminalTimestamps, ScanStatus, ExecutingStatuses, TerminalStatuses

\* What a transition leaves of a row, and what an insertion makes.
LEMMA RowsOfSteps ==
  /\ \A row \in ScanRow, target \in ScanStatus :
       /\ Moved(row, target).status = target
       /\ Moved(row, target).stamps = row.stamps \cup StampsOf(target)
       /\ Moved(row, target).retryOf = row.retryOf
  /\ \A origin :
       /\ Inserted(origin).status = "QUEUED"
       /\ Inserted(origin).stamps = {"queued_at"}
       /\ Inserted(origin).retryOf = origin
BY StampsOfStatuses DEF Moved, ScanRow, Inserted, AbsentScan

\* The only edges into the statuses after RUNNING are from the one before.
LEMMA EdgesAfterRunning ==
  \A status \in ScanStatus :
    /\ "COLLECTING" \in ValidTransitions[status] => status = "RUNNING"
    /\ "PROCESSING" \in ValidTransitions[status] => status = "COLLECTING"
    /\ "SUCCEEDED" \in ValidTransitions[status] => status = "PROCESSING"
BY DEF ValidTransitions, ScanStatus, ExecutingStatuses, TerminalStatuses

\* A terminal timestamp comes with a terminal status, and a terminal status has no
\* edge that could bring a second one.
LEMMA OutcomeStays ==
  ASSUME TypeOK, StampsTellTheOutcome, AllRowSteps
  PROVE  StampsTellTheOutcome'
<1> SUFFICES ASSUME NEW s \in Scans
             PROVE  scans'[s].stamps \cap TerminalTimestamps =
                      IF scans'[s].status \in TerminalStatuses
                      THEN StampsOf(scans'[s].status) ELSE {}
  BY DEF StampsTellTheOutcome
<1>0. /\ scans[s] \in ScanRow
      /\ scans[s].stamps \cap TerminalTimestamps =
           IF scans[s].status \in TerminalStatuses THEN StampsOf(scans[s].status) ELSE {}
  BY DEF TypeOK, StampsTellTheOutcome
<1>1. CASE scans'[s].status = scans[s].status /\ scans'[s].stamps = scans[s].stamps
  BY <1>0, <1>1
<1>2. CASE \E origin : scans'[s] = Inserted(origin)
  BY <1>2, RowsOfSteps DEF TerminalTimestamps, TerminalStatuses
<1>3. CASE /\ scans[s].status = "QUEUED" /\ scans'[s].status = "PREPARING"
           /\ scans'[s].stamps = scans[s].stamps
  BY <1>0, <1>3 DEF TerminalStatuses
<1>4. ASSUME NEW target \in ScanStatus, target \in ValidTransitions[scans[s].status],
             scans'[s] = Moved(scans[s], target)
      PROVE  scans'[s].stamps \cap TerminalTimestamps =
               IF scans'[s].status \in TerminalStatuses
               THEN StampsOf(scans'[s].status) ELSE {}
  <2>1. scans'[s].status = target /\ scans'[s].stamps = scans[s].stamps \cup StampsOf(target)
    BY <1>0, <1>4, RowsOfSteps
  <2>2. scans[s].stamps \cap TerminalTimestamps = {}
    BY <1>0, <1>4, TerminalHasNoEdge
  <2>3. scans'[s].stamps \cap TerminalTimestamps = StampsOf(target) \cap TerminalTimestamps
    BY <2>1, <2>2
  <2> QED
    BY <2>1, <2>3, StampsOfStatuses
<1> QED
  BY <1>1, <1>2, <1>3, <1>4 DEF AllRowSteps, RowSteps

LEMMA StampsStay ==
  ASSUME TypeOK, StampsKeepUp, AllRowSteps
  PROVE  StampsKeepUp'
<1> DEFINE Started == {"RUNNING", "COLLECTING", "PROCESSING", "SUCCEEDED"}
<1> SUFFICES ASSUME NEW s \in Scans
             PROVE  /\ scans'[s].status # "ABSENT" => "queued_at" \in scans'[s].stamps
                    /\ scans'[s].status \in Started => "started_at" \in scans'[s].stamps
  BY DEF StampsKeepUp
<1>0. /\ scans[s] \in ScanRow
      /\ scans[s].status # "ABSENT" => "queued_at" \in scans[s].stamps
      /\ scans[s].status \in Started => "started_at" \in scans[s].stamps
  BY DEF TypeOK, StampsKeepUp
<1>1. CASE scans'[s].status = scans[s].status /\ scans'[s].stamps = scans[s].stamps
  BY <1>0, <1>1
<1>2. CASE \E origin : scans'[s] = Inserted(origin)
  BY <1>2, RowsOfSteps
<1>3. CASE /\ scans[s].status = "QUEUED" /\ scans'[s].status = "PREPARING"
           /\ scans'[s].stamps = scans[s].stamps
  BY <1>0, <1>3
<1>4. ASSUME NEW target \in ScanStatus, target \in ValidTransitions[scans[s].status],
             scans[s].status # "ABSENT", scans'[s] = Moved(scans[s], target)
      PROVE  /\ "queued_at" \in scans'[s].stamps
             /\ scans'[s].status \in Started => "started_at" \in scans'[s].stamps
  <2>1. scans'[s].status = target /\ scans'[s].stamps = scans[s].stamps \cup StampsOf(target)
    BY <1>0, <1>4, RowsOfSteps
  <2>2. target \in Started => target = "RUNNING" \/ scans[s].status \in Started
    BY <1>0, <1>4, EdgesAfterRunning DEF ScanRow
  <2> QED
    BY <1>0, <1>4, <2>1, <2>2, StampsOfStatuses
<1> QED
  BY <1>1, <1>2, <1>3, <1>4 DEF AllRowSteps, RowSteps

\* A retry is inserted for a scan that has ended, and what has ended has no edge.
LEMMA RetriesStay ==
  ASSUME TypeOK, RetriesAreOfEnded, AllRowSteps
  PROVE  RetriesAreOfEnded'
<1>0. RetryableStatuses \subseteq TerminalStatuses
  BY DEF RetryableStatuses, TerminalStatuses
<1>1. ASSUME NEW o \in Scans, scans[o].status \in RetryableStatuses
      PROVE  scans'[o].status \in RetryableStatuses
  <2>1. RowSteps(o)
    BY DEF AllRowSteps
  <2>2. ValidTransitions[scans[o].status] = {}
    BY <1>0, <1>1, TerminalHasNoEdge
  <2> QED
    BY <1>1, <2>1, <2>2 DEF RowSteps, RetryableStatuses
<1> SUFFICES ASSUME NEW s \in Scans, scans'[s].retryOf # None
             PROVE  /\ scans'[s].retryOf \in Scans \ {s}
                    /\ scans'[scans'[s].retryOf].status \in RetryableStatuses
  BY DEF RetriesAreOfEnded
<1>2. CASE scans'[s].retryOf = scans[s].retryOf
  BY <1>1, <1>2 DEF RetriesAreOfEnded
<1>3. ASSUME NEW o \in Scans, scans[o].status \in RetryableStatuses,
             scans[s].status = "ABSENT", scans'[s] = Inserted(o)
      PROVE  /\ scans'[s].retryOf \in Scans \ {s}
             /\ scans'[scans'[s].retryOf].status \in RetryableStatuses
  <2>1. scans'[s].retryOf = o /\ o # s
    BY <1>3, RowsOfSteps DEF RetryableStatuses
  <2> QED
    BY <1>1, <1>3, <2>1
<1>4. CASE scans'[s] = Inserted(None)
  BY <1>4, RowsOfSteps
<1>5. CASE \E target \in ScanStatus : scans'[s] = Moved(scans[s], target)
  BY <1>2, <1>5, RowsOfSteps DEF TypeOK
<1> QED
  BY <1>2, <1>3, <1>4, <1>5 DEF AllRowSteps, RowSteps

LEMMA InitRows == Init => RowsInv
BY DEF Init, RowsInv, AbsentScan, StampsTellTheOutcome, StampsKeepUp, RetriesAreOfEnded,
       TerminalStatuses

\* The invariant of single rows holds in every reachable state of the scan engine.
THEOREM RowsHold == Spec => []RowsInv
<1>1. ASSUME DispatchInv, RowsInv, [Next]_vars
      PROVE  RowsInv'
  <2>1. AllRowSteps /\ TypeOK
    BY <1>1, NextRowSteps DEF DispatchInv, OwnershipInv
  <2> QED
    BY <1>1, <2>1, OutcomeStays, StampsStay, RetriesStay DEF RowsInv
<1> QED
  BY <1>1, InitRows, DispatchHolds, PTL DEF Spec

\* CHECK terminal_timestamps_mutually_exclusive rejects no transition: a scan has the
\* terminal timestamp of its outcome and no other, whoever ended it first.
THEOREM OneTerminalTimestamp == Spec => []StampsTellTheOutcome
<1>1. RowsInv => StampsTellTheOutcome
  BY DEF RowsInv
<1> QED
  BY <1>1, RowsHold, PTL

\* A scan that is retried has ended, and neither runs nor succeeds beside its retry.
THEOREM RetriedScansStayEnded == Spec => []RetriesAreOfEnded
<1>1. RowsInv => RetriesAreOfEnded
  BY DEF RowsInv
<1> QED
  BY <1>1, RowsHold, PTL
=============================================================================
