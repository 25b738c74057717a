------------------------ MODULE ScanRefinementProofs ------------------------
(***************************************************************************)
(* ScanEngine implements two specifications. ScanLease: every step of the  *)
(* tables, the queue and the processes hands over, gives back or ends one  *)
(* scan, or is invisible to whoever only asks who holds which scan.        *)
(* OutboxDelivery: every step writes, sends, records or loses one outbox   *)
(* row, or is invisible to whoever only counts messages.                   *)
(***************************************************************************)
EXTENDS ScanOutbox, ScanEngineProofs

-----------------------------------------------------------------------------
(* The lease of a scan                                                       *)

\* The state the lease sees of one scan.
Phase(s) == PhaseOf(scans[s].status)
Attempt(s) == scans[s].attempt
Holders(s) == {w \in Workers : Owns(w) /\ workers[w].scan = s}

\* What the lease sees of a step that concerns one scan only.
Changes(s, phase, attempt, holders) ==
  /\ \A r \in Scans : Phase(r)' = IF r = s THEN phase ELSE Phase(r)
  /\ \A r \in Scans : Attempt(r)' = IF r = s THEN attempt ELSE Attempt(r)
  /\ \A r \in Scans : Holders(r)' = IF r = s THEN holders ELSE Holders(r)

\* What the lease sees of a step that concerns no scan.
Unseen ==
  \A s \in Scans :
    Phase(s)' = Phase(s) /\ Attempt(s)' = Attempt(s) /\ Holders(s)' = Holders(s)

\* The statuses of each phase.
LEMMA Phases ==
  /\ PhaseOf("ABSENT") = "absent"
  /\ PhaseOf("QUEUED") = "waiting"
  /\ PhaseOf("PENDING") = "waiting"
  /\ \A status \in ExecutingStatuses : PhaseOf(status) = "started"
  /\ \A status \in TerminalStatuses : PhaseOf(status) = status
  /\ Lease!Endings = TerminalStatuses
BY DEF PhaseOf, ExecutingStatuses, TerminalStatuses, Lease!Endings

\* A step that is invisible is a stuttering step of the lease.
LEMMA UnseenIsStuttering == ASSUME Unseen PROVE UNCHANGED Lease!vars
<1>1. \A s \in Scans : Phase(s)' = Phase(s) /\ Attempt(s)' = Attempt(s)
                       /\ Holders(s)' = Holders(s)
  BY DEF Unseen
<1> QED
  BY <1>1 DEF Lease!vars, Phase, Attempt, Holders

\* The steps of the lease, in terms of what it sees.
LEMMA LeaseSteps ==
  ASSUME NEW s \in Scans
  PROVE  /\ Phase(s) = "absent" /\ Changes(s, "waiting", 0, Holders(s)) =>
              Lease!Submit(s)
         /\ \A ending \in TerminalStatuses :
              /\ \/ Phase(s) = "waiting" /\ ending \in {"FAILED", "CANCELLED"}
                 \/ Phase(s) = "started" /\ ending = "CANCELLED"
              /\ Changes(s, ending, Attempt(s), Holders(s))
              => Lease!End(s, ending)
         /\ \A w \in Workers :
              /\ Phase(s) = "waiting" /\ Attempt(s) < MaxAttempts /\ Holders(s) = {}
              /\ \A r \in Scans : w \notin Holders(r)
              /\ Changes(s, "started", Attempt(s) + 1, {w})
              => Lease!Acquire(s, w)
         /\ \A w \in Holders(s) :
              /\ Phase(s) = "started" /\ Attempt(s) < MaxAttempts
              /\ Changes(s, "waiting", Attempt(s), Holders(s) \ {w})
              => Lease!Requeue(s, w)
         /\ \A w \in Holders(s) : \A ending \in TerminalStatuses :
              /\ Phase(s) = "started"
              /\ Changes(s, ending, Attempt(s), Holders(s) \ {w})
              => Lease!Finish(s, w, ending)
         /\ \A w \in Holders(s) :
              Changes(s, Phase(s), Attempt(s), Holders(s) \ {w}) => Lease!LetGo(s, w)
<1> USE DEF Changes, Phase, Attempt, Holders
<1>1. Phase(s) = "absent" /\ Changes(s, "waiting", 0, Holders(s)) => Lease!Submit(s)
  BY DEF Lease!Submit
<1>2. ASSUME NEW ending \in TerminalStatuses,
             \/ Phase(s) = "waiting" /\ ending \in {"FAILED", "CANCELLED"}
             \/ Phase(s) = "started" /\ ending = "CANCELLED",
             Changes(s, ending, Attempt(s), Holders(s))
      PROVE  Lease!End(s, ending)
  BY <1>2 DEF Lease!End
<1>3. ASSUME NEW w \in Workers,
             Phase(s) = "waiting", Attempt(s) < MaxAttempts, Holders(s) = {},
             \A r \in Scans : w \notin Holders(r),
             Changes(s, "started", Attempt(s) + 1, {w})
      PROVE  Lease!Acquire(s, w)
  BY <1>3 DEF Lease!Acquire
<1>4. ASSUME NEW w \in Holders(s), Phase(s) = "started", Attempt(s) < MaxAttempts,
             Changes(s, "waiting", Attempt(s), Holders(s) \ {w})
      PROVE  Lease!Requeue(s, w)
  BY <1>4 DEF Lease!Requeue
<1>5. ASSUME NEW w \in Holders(s), NEW ending \in TerminalStatuses,
             Phase(s) = "started",
             Changes(s, ending, Attempt(s), Holders(s) \ {w})
      PROVE  Lease!Finish(s, w, ending)
  BY <1>5 DEF Lease!Finish
<1>6. ASSUME NEW w \in Holders(s),
             Changes(s, Phase(s), Attempt(s), Holders(s) \ {w})
      PROVE  Lease!LetGo(s, w)
  BY <1>6 DEF Lease!LetGo
<1> HIDE DEF Changes, Phase, Attempt, Holders
<1> QED
  BY <1>1, <1>2, <1>3, <1>4, <1>5, <1>6

-----------------------------------------------------------------------------
(* Steps of the engine                                                       *)

\* The holders after a worker has changed its record and kept its scan, if it had one.
LEMMA HoldersAfter ==
  ASSUME TypeOK, NEW w \in Workers, NEW me,
         workers' = [workers EXCEPT ![w] = me],
         me.pc \in OwningPlaces => Owns(w) /\ me.scan = workers[w].scan
  PROVE  \A s \in Scans :
           Holders(s)' = IF Owns(w) /\ me.pc \notin OwningPlaces /\ s = workers[w].scan
                         THEN Holders(s) \ {w} ELSE Holders(s)
<1>1. workers'[w] = me /\ \A v \in Workers : v # w => workers'[v] = workers[v]
  BY DEF TypeOK
<1>2. ASSUME NEW s \in Scans
      PROVE  Holders(s)' = IF Owns(w) /\ me.pc \notin OwningPlaces /\ s = workers[w].scan
                           THEN Holders(s) \ {w} ELSE Holders(s)
  <2>1. \A v \in Workers : v # w => (v \in Holders(s)' <=> v \in Holders(s))
    BY <1>1 DEF Holders, Owns
  <2>2. w \in Holders(s)' <=> me.pc \in OwningPlaces /\ me.scan = s
    BY <1>1 DEF Holders, Owns
  <2>3. w \in Holders(s) <=> Owns(w) /\ workers[w].scan = s
    BY DEF Holders
  <2>4. Holders(s) \subseteq Workers /\ Holders(s)' \subseteq Workers
    BY DEF Holders
  <2> QED
    BY <2>1, <2>2, <2>3, <2>4
<1> QED
  BY <1>2

\* A worker that keeps its scan, or lets go of it, and touches no row.
LEMMA LeaseLocalStep ==
  ASSUME OwnershipInv, NEW w \in Workers, NEW me,
         workers' = [workers EXCEPT ![w] = me],
         me.pc \in OwningPlaces => Owns(w) /\ me.scan = workers[w].scan,
         \A s \in Scans : Phase(s)' = Phase(s) /\ Attempt(s)' = Attempt(s)
  PROVE  Lease!Next \/ UNCHANGED Lease!vars
<1>1. CASE Owns(w) /\ me.pc \notin OwningPlaces
  <2> PICK s \in Scans : s = workers[w].scan
    BY <1>1 DEF OwnershipInv, PlacesInv, Owns, OwningPlaces
  <2>1. w \in Holders(s)
    BY <1>1 DEF Holders
  <2>2. Changes(s, Phase(s), Attempt(s), Holders(s) \ {w})
    BY <1>1, <2>1, HoldersAfter DEF OwnershipInv, Changes
  <2>3. Lease!LetGo(s, w)
    BY <2>1, <2>2, LeaseSteps
  <2> QED
    BY <2>1, <2>3 DEF Lease!Next
<1>2. CASE ~(Owns(w) /\ me.pc \notin OwningPlaces)
  <2>1. Unseen
    BY <1>2, HoldersAfter DEF OwnershipInv, Unseen
  <2> QED
    BY <2>1, UnseenIsStuttering
<1> QED
  BY <1>1, <1>2

\* A worker that calls `transition` on the scan it holds, or found QUEUED.
LEMMA LeaseTransition ==
  ASSUME OwnershipInv,
         NEW w \in Workers,
         Owns(w) \/ workers[w].pc = "loaded",
         NEW target \in ScanStatus,
         NEW next \in [ok : {"cleanup", "call"}, stale : {"stale", "raised", "finalize"},
                       invalid : {"abort", "raised", "finalize"}],
         target \notin {"PENDING", "PREPARING"},
         target = "QUEUED" => workers[w].pc = "requeue",
         next.ok = "call" <=> target \in ExecutingStatuses,
         next.ok = "call" => Owns(w),
         "finalize" \in {next.stale, next.invalid} => Owns(w),
         Transition(w, target, next)
  PROVE  Lease!Next \/ UNCHANGED Lease!vars
<1> DEFINE me == workers[w]
           moved(r) == workers' = [workers EXCEPT ![w] = r]
<1> PICK s \in Scans : s = me.scan
  BY DEF OwnershipInv, PlacesInv, Owns, OwningPlaces
<1>0. /\ me.scan = s /\ me \in WorkerRecord /\ TypeOK
      /\ Owns(w) => w \in Holders(s)
  BY DEF OwnershipInv, TypeOK, Holders
<1>1. CASE /\ UNCHANGED scans
           /\ \E place \in {next.stale, next.invalid} : moved([me EXCEPT !.pc = place])
  <2> PICK place \in {next.stale, next.invalid} : moved([me EXCEPT !.pc = place])
    BY <1>1
  <2> DEFINE r == [me EXCEPT !.pc = place]
  <2>1. r.pc = place /\ r.scan = me.scan
    BY <1>0 DEF WorkerRecord
  <2>2. r.pc \in OwningPlaces => Owns(w)
    BY <2>1 DEF OwningPlaces
  <2>3. \A t \in Scans : Phase(t)' = Phase(t) /\ Attempt(t)' = Attempt(t)
    BY <1>1 DEF Phase, Attempt
  <2>4. moved(r)
    OBVIOUS
  <2> HIDE DEF r
  <2> QED
    BY <2>1, <2>2, <2>3, <2>4, LeaseLocalStep
<1>2. CASE /\ scans[s].status = me.status
           /\ target \in ValidTransitions[me.status]
           /\ scans' = [scans EXCEPT ![s] = Moved(@, target)]
           /\ moved([me EXCEPT !.pc = next.ok, !.status = target, !.dirty = FALSE])
  <2> DEFINE r == [me EXCEPT !.pc = next.ok, !.status = target, !.dirty = FALSE]
  <2>1. r.pc = next.ok /\ r.scan = s
    BY <1>0 DEF WorkerRecord
  <2>2. moved(r)
    BY <1>2
  <2> HIDE DEF r
  <2>3. /\ scans'[s].status = target /\ scans'[s].attempt = scans[s].attempt
        /\ \A t \in Scans : t # s => scans'[t] = scans[t]
    BY <1>0, <1>2, MovedRow DEF TypeOK
  <2>4. \A t \in Scans :
          /\ Phase(t)' = IF t = s THEN PhaseOf(target) ELSE Phase(t)
          /\ Attempt(t)' = Attempt(t)
    BY <2>3 DEF Phase, Attempt
  <2>5. me.status \notin TerminalStatuses
    BY <1>2, TerminalHasNoEdge
  <2>6. CASE next.ok = "call"
    <3>1. me.status \in ExecutingStatuses /\ target \in ExecutingStatuses
      BY <2>5, <2>6 DEF OwnershipInv, PlacesInv, TerminalStatuses
    <3>2. Phase(s) = PhaseOf(target)
      BY <1>2, <3>1, Phases DEF Phase
    <3> QED
      BY <1>0, <2>1, <2>2, <2>4, <2>6, <3>2, LeaseLocalStep
  <2>7. CASE next.ok = "cleanup" /\ Owns(w)
    <3>1. me.status \in ExecutingStatuses
      BY <2>5, <2>7 DEF OwnershipInv, PlacesInv, TerminalStatuses
    <3>2. Phase(s) = "started" /\ w \in Holders(s)
      BY <1>0, <1>2, <2>7, <3>1, Phases DEF Phase
    <3>3. \A t \in Scans : Holders(t)' = IF t = s THEN Holders(t) \ {w} ELSE Holders(t)
      <4>1. r.pc \notin OwningPlaces
        BY <2>1, <2>7 DEF OwningPlaces
      <4>2. workers' = [workers EXCEPT ![w] = r] /\ workers[w].scan = s
        BY <1>0, <2>2
      <4> QED
        BY <1>0, <2>7, <4>1, <4>2, HoldersAfter
    <3>4. Changes(s, PhaseOf(target), Attempt(s), Holders(s) \ {w})
      BY <1>0, <2>4, <3>3 DEF Changes
    <3>5. CASE target = "QUEUED"
      <4>1. Attempt(s) < MaxAttempts
        BY <1>0, <2>7, <3>5 DEF OwnershipInv, PlacesInv, OwnerKnowsItsScan, Attempt
      <4>2. Lease!Requeue(s, w)
        BY <1>0, <3>2, <3>4, <3>5, <4>1, LeaseSteps, Phases
      <4> QED
        BY <1>0, <4>2 DEF Lease!Next
    <3>6. CASE target \in TerminalStatuses
      <4>1. Lease!Finish(s, w, target)
        BY <1>0, <3>2, <3>4, <3>6, LeaseSteps, Phases
      <4> QED
        BY <1>0, <3>6, <4>1, Phases DEF Lease!Next
    <3> QED
      BY <2>7, <3>5, <3>6 DEF ScanStatus
  <2>8. CASE me.pc = "loaded"
    <3>1. scans[s].status = "QUEUED" /\ Phase(s) = "waiting"
      BY <1>2, <2>8, Phases DEF OwnershipInv, PlacesInv, Phase
    <3>2. ~Owns(w)
      BY <2>8 DEF Owns, OwningPlaces
    <3>3. next.ok = "cleanup" /\ target \in TerminalStatuses
      BY <2>8, <3>2 DEF ScanStatus
    <3>4. target \in {"FAILED", "CANCELLED"}
      BY <1>2, <3>1, <3>3 DEF ValidTransitions, TerminalStatuses
    <3>5. \A t \in Scans : Holders(t)' = Holders(t)
      BY <1>0, <2>1, <2>2, <3>2, <3>3, HoldersAfter DEF OwningPlaces
    <3>6. Changes(s, target, Attempt(s), Holders(s))
      BY <1>0, <2>4, <3>3, <3>5, Phases DEF Changes
    <3>7. Lease!End(s, target)
      BY <1>0, <3>1, <3>3, <3>4, <3>6, LeaseSteps
    <3> QED
      BY <1>0, <3>3, <3>7, Phases DEF Lease!Next
  <2> QED
    BY <2>6, <2>7, <2>8
<1>3. \/ /\ UNCHANGED scans
         /\ \/ moved([me EXCEPT !.pc = next.stale])
            \/ moved([me EXCEPT !.pc = next.invalid])
      \/ /\ scans[s].status = me.status
         /\ target \in ValidTransitions[me.status]
         /\ scans' = [scans EXCEPT ![s] = Moved(@, target)]
         /\ moved([me EXCEPT !.pc = next.ok, !.status = target, !.dirty = FALSE])
  BY DEF Transition, TransitionResult
<1>4. ASSUME UNCHANGED scans,
             \/ moved([me EXCEPT !.pc = next.stale])
             \/ moved([me EXCEPT !.pc = next.invalid])
      PROVE  Lease!Next \/ UNCHANGED Lease!vars
  <2>1. \E place \in {next.stale, next.invalid} : moved([me EXCEPT !.pc = place])
    BY <1>4
  <2> QED
    BY <1>1, <1>4, <2>1
<1> HIDE DEF moved
<1> QED
  BY <1>2, <1>3, <1>4

\* The requests: a new scan waits, a cancelled one has ended, and nobody's hold on a
\* scan changes.
LEMMA LeaseRequests ==
  ASSUME OwnershipInv, CancelsWhatExists,
         \/ \E s \in Scans : CreateScan(s)
         \/ \E o, s \in Scans : RetryScan(o, s)
         \/ \E c \in Cancellers : CancelTransition(c)
  PROVE  Lease!Next \/ UNCHANGED Lease!vars
<1>0. TypeOK /\ UNCHANGED workers
  BY DEF OwnershipInv, CreateScan, RetryScan, CancelTransition
<1>1. \A s \in Scans : Holders(s)' = Holders(s)
  BY <1>0 DEF Holders, Owns
<1>2. ASSUME NEW s \in Scans, NEW origin, scans[s].status = "ABSENT", Enqueue(s, origin)
      PROVE  Lease!Next
  <2> DEFINE inserted == [AbsentScan EXCEPT !.status = "PENDING", !.retryOf = origin]
  <2>1. inserted.attempt = 0
    BY DEF AbsentScan
  <2>2. /\ Moved(inserted, "QUEUED").status = "QUEUED"
        /\ Moved(inserted, "QUEUED").attempt = 0
    BY <2>1 DEF Moved, AbsentScan
  <2>3. scans' = [scans EXCEPT ![s] = Moved(inserted, "QUEUED")]
    BY <1>2 DEF Enqueue
  <2> HIDE DEF inserted
  <2>4. Changes(s, "waiting", 0, Holders(s))
    BY <1>0, <1>1, <2>2, <2>3, Phases DEF Changes, Phase, Attempt, TypeOK
  <2>5. Lease!Submit(s)
    BY <1>2, <2>4, LeaseSteps, Phases DEF Phase
  <2> QED
    BY <2>5 DEF Lease!Next
<1>3. ASSUME NEW c \in Cancellers, CancelTransition(c)
      PROVE  Lease!Next \/ UNCHANGED Lease!vars
  <2> PICK s \in Scans : s = cancels[c].scan
    BY <1>3 DEF OwnershipInv, PlacesInv, CancelTransition
  <2>1. CASE UNCHANGED scans
    <3>1. Unseen
      BY <1>1, <2>1 DEF Unseen, Phase, Attempt
    <3> QED
      BY <3>1, UnseenIsStuttering
  <2>2. CASE /\ scans[s].status = cancels[c].status
             /\ "CANCELLED" \in ValidTransitions[cancels[c].status]
             /\ scans' = [scans EXCEPT ![s] = Moved(@, "CANCELLED")]
    <3>1. scans[s].status \in {"PENDING", "QUEUED"} \cup ExecutingStatuses
      BY <1>0, <1>3, <2>2, TerminalHasNoEdge
      DEF CancelsWhatExists, CancelTransition, TypeOK, ScanRow, ScanStatus
    <3>2. Phase(s) \in {"waiting", "started"}
      BY <3>1, Phases DEF Phase
    <3>3. "CANCELLED" \in TerminalStatuses /\ "CANCELLED" \in ScanStatus
      BY DEF TerminalStatuses, ScanStatus
    <3>4. /\ scans'[s].status = "CANCELLED" /\ scans'[s].attempt = scans[s].attempt
          /\ \A t \in Scans : t # s => scans'[t] = scans[t]
      BY <1>0, <2>2, <3>3, MovedRow DEF TypeOK
    <3>5. Changes(s, "CANCELLED", Attempt(s), Holders(s))
      BY <1>1, <3>3, <3>4, Phases DEF Changes, Phase, Attempt
    <3>6. Lease!End(s, "CANCELLED")
      BY <3>2, <3>3, <3>5, LeaseSteps
    <3> QED
      BY <3>3, <3>6, Phases DEF Lease!Next
  <2> QED
    BY <1>3, <2>1, <2>2 DEF CancelTransition, TransitionResult
<1> QED
  BY <1>2, <1>3 DEF CreateScan, RetryScan

\* A step that writes no row but perhaps a job id, and is no worker's, is invisible.
LEMMA LeaseOutsideStep ==
  ASSUME OwnershipInv, UNCHANGED workers,
         \/ UNCHANGED scans
         \/ \E d \in Dispatchers : DispatchRecord(d)
  PROVE  UNCHANGED Lease!vars
<1>1. \A s \in Scans : Holders(s)' = Holders(s)
  BY DEF Holders, Owns
<1>2. \A s \in Scans : Phase(s)' = Phase(s) /\ Attempt(s)' = Attempt(s)
  <2>1. CASE UNCHANGED scans
    BY <2>1 DEF Phase, Attempt
  <2>2. CASE \E d \in Dispatchers : DispatchRecord(d)
    <3> PICK d \in Dispatchers : DispatchRecord(d)
      BY <2>2
    <3>1. \A s \in Scans : scans'[s].status = scans[s].status
                           /\ scans'[s].attempt = scans[s].attempt
      BY DEF OwnershipInv, TypeOK, ScanRow, DispatchRecord
    <3> QED
      BY <3>1 DEF Phase, Attempt
  <2> QED
    BY <2>1, <2>2
<1> QED
  BY <1>1, <1>2, UnseenIsStuttering DEF Unseen

\* The claim of a QUEUED scan is the hand-over: nobody holds it, as an owner's row is
\* never QUEUED, and it has an attempt left.
LEMMA LeaseClaim ==
  ASSUME OwnershipInv, NEW w \in Workers, Claim(w)
  PROVE  Lease!Next \/ UNCHANGED Lease!vars
<1> DEFINE me == workers[w]
<1> PICK s \in Scans : s = me.scan
  BY DEF OwnershipInv, PlacesInv, Claim
<1>0. /\ TypeOK /\ me.pc = "loaded" /\ me \in WorkerRecord /\ ~Owns(w)
      /\ IdleWorker.pc \notin OwningPlaces
  BY DEF OwnershipInv, TypeOK, Claim, Owns, OwningPlaces, IdleWorker
<1>1. CASE UNCHANGED scans /\ workers' = [workers EXCEPT ![w] = IdleWorker]
  <2>1. \A t \in Scans : Phase(t)' = Phase(t) /\ Attempt(t)' = Attempt(t)
    BY <1>1 DEF Phase, Attempt
  <2> QED
    BY <1>0, <1>1, <2>1, LeaseLocalStep
<1>2. CASE /\ scans[s].status = "QUEUED" /\ scans[s].attempt = me.attempt
           /\ scans' = [scans EXCEPT ![s].status = "PREPARING",
                                     ![s].attempt = me.attempt + 1]
           /\ workers' = [workers EXCEPT ![w] =
                [me EXCEPT !.pc = "validate", !.status = "PREPARING",
                           !.attempt = me.attempt + 1]]
  <2>1. Phase(s) = "waiting" /\ Attempt(s) < MaxAttempts
    BY <1>2, Phases DEF OwnershipInv, QueuedHasOutboxRow, Phase, Attempt
  <2>2. Holders(s) = {}
    <3> SUFFICES ASSUME NEW v \in Workers, Owns(v), workers[v].scan = s PROVE FALSE
      BY DEF Holders
    <3> QED
      BY <1>2 DEF OwnershipInv, OwnerKnowsItsScan, PlacesInv, ExecutingStatuses
  <2>3. \A r \in Scans : w \notin Holders(r)
    BY <1>0 DEF Holders
  <2>4. /\ scans'[s].status = "PREPARING" /\ scans'[s].attempt = me.attempt + 1
        /\ \A t \in Scans : t # s => scans'[t] = scans[t]
    BY <1>0, <1>2 DEF TypeOK, ScanRow
  <2>5. /\ workers'[w].pc = "validate" /\ workers'[w].scan = s
        /\ \A v \in Workers : v # w => workers'[v] = workers[v]
    BY <1>0, <1>2 DEF TypeOK, WorkerRecord
  <2>6. \A r \in Scans : Holders(r)' = IF r = s THEN {w} ELSE Holders(r)
    <3>1. \A r \in Scans, v \in Workers :
            v \in Holders(r)' <=> IF v = w THEN r = s ELSE v \in Holders(r)
      BY <2>5 DEF Holders, Owns, OwningPlaces
    <3>2. \A r \in Scans : Holders(r)' \subseteq Workers /\ Holders(r) \subseteq Workers
      BY DEF Holders
    <3> QED
      BY <2>2, <2>3, <3>1, <3>2
  <2>7. Phase(s)' = "started" /\ Attempt(s)' = Attempt(s) + 1
    BY <1>2, <2>4, Phases DEF Phase, Attempt, ExecutingStatuses
  <2>8. Changes(s, "started", Attempt(s) + 1, {w})
    BY <2>4, <2>6, <2>7 DEF Changes, Phase, Attempt
  <2>9. Lease!Acquire(s, w)
    BY <2>1, <2>2, <2>3, <2>8, LeaseSteps
  <2> QED
    BY <2>9 DEF Lease!Next
<1> QED
  BY <1>1, <1>2 DEF Claim, ClaimMatches

\* The worker's other steps call `transition`, or move nothing but its own record.
LEMMA LeaseWorkerSteps ==
  ASSUME OwnershipInv, NEW w \in Workers,
         WorkerStep(w) \/ WorkerCrash(w) \/ DatabaseFault(w)
  PROVE  Lease!Next \/ UNCHANGED Lease!vars
<1> DEFINE me == workers[w]
<1>0. TypeOK /\ me \in WorkerRecord /\ IdleWorker.pc \notin OwningPlaces
  BY DEF OwnershipInv, TypeOK, OwningPlaces, IdleWorker
<1>1. CASE Claim(w)
  BY <1>1, LeaseClaim
<1>2. CASE \E target \in {"FAILED", "CANCELLED", "TIMED_OUT", "QUEUED"} :
             \E next \in {InsideTry("cleanup"), OutsideTry("cleanup")} :
               /\ Transition(w, target, next)
               /\ Owns(w) \/ me.pc = "loaded"
               /\ target = "QUEUED" => me.pc = "requeue"
  <2> PICK target \in {"FAILED", "CANCELLED", "TIMED_OUT", "QUEUED"},
           next \in {InsideTry("cleanup"), OutsideTry("cleanup")} :
               /\ Transition(w, target, next)
               /\ Owns(w) \/ me.pc = "loaded"
               /\ target = "QUEUED" => me.pc = "requeue"
    BY <1>2
  <2>1. /\ next \in [ok : {"cleanup", "call"}, stale : {"stale", "raised", "finalize"},
                     invalid : {"abort", "raised", "finalize"}]
        /\ next.ok = "cleanup" /\ "finalize" \notin {next.stale, next.invalid}
    BY DEF InsideTry, OutsideTry
  <2>2. target \in ScanStatus /\ target \notin ExecutingStatuses
        /\ target \notin {"PENDING", "PREPARING"}
    BY DEF ScanStatus, TerminalStatuses, ExecutingStatuses
  <2> QED
    BY <2>1, <2>2, LeaseTransition
<1>3. CASE Advance(w)
  <2> DEFINE stage  == me.stage
             target == StageStatus[stage]
             next   == InStages(IF stage = "done" THEN "cleanup" ELSE "call")
  <2>1. me.pc = "advance" /\ Owns(w) /\ Transition(w, target, next)
    BY <1>3 DEF Advance, Owns, OwningPlaces
  <2>2. stage \in {"execute", "collect", "process", "done"}
    BY <1>0, <2>1 DEF OwnershipInv, PlacesInv, WorkerRecord, Stages
  <2>3. /\ target \in {"RUNNING", "COLLECTING", "PROCESSING", "SUCCEEDED"}
        /\ target = "SUCCEEDED" <=> stage = "done"
    BY <2>2 DEF StageStatus
  <2>4. /\ target \in ScanStatus /\ target \notin {"PENDING", "PREPARING", "QUEUED"}
        /\ target \in ExecutingStatuses <=> stage # "done"
    BY <2>3 DEF ScanStatus, TerminalStatuses, ExecutingStatuses
  <2>5. /\ next \in [ok : {"cleanup", "call"}, stale : {"stale", "raised", "finalize"},
                     invalid : {"abort", "raised", "finalize"}]
        /\ next.ok = "call" <=> stage # "done"
    BY DEF InStages
  <2> HIDE DEF next, target
  <2> QED
    BY <2>1, <2>4, <2>5, LeaseTransition
<1>4. CASE /\ UNCHANGED scans
           /\ \E r : /\ workers' = [workers EXCEPT ![w] = r]
                     /\ r.pc \in OwningPlaces => Owns(w) /\ r.scan = me.scan
  <2> PICK r : /\ workers' = [workers EXCEPT ![w] = r]
               /\ r.pc \in OwningPlaces => Owns(w) /\ r.scan = me.scan
    BY <1>4
  <2>1. \A t \in Scans : Phase(t)' = Phase(t) /\ Attempt(t)' = Attempt(t)
    BY <1>4 DEF Phase, Attempt
  <2> QED
    BY <2>1, LeaseLocalStep
<1>5. ASSUME \/ FailUnregistered(w)
             \/ HandleTimeout(w)
             \/ Requeue(w)
             \/ FinalizeFailed(w)
      PROVE  Lease!Next \/ UNCHANGED Lease!vars
  BY <1>2, <1>5
  DEF FailUnregistered, HandleTimeout, Requeue, FinalizeFailed, Owns, OwningPlaces
<1>6. ASSUME NEW place, UNCHANGED scans,
             workers' = [workers EXCEPT ![w] = [me EXCEPT !.pc = place]],
             place \in OwningPlaces => Owns(w)
      PROVE  Lease!Next \/ UNCHANGED Lease!vars
  <2> DEFINE r == [me EXCEPT !.pc = place]
  <2>1. r.pc = place /\ r.scan = me.scan
    BY <1>0 DEF WorkerRecord
  <2>2. workers' = [workers EXCEPT ![w] = r]
    BY <1>6
  <2> HIDE DEF r
  <2> QED
    BY <1>4, <1>6, <2>1, <2>2
<1>7. CASE ValidateConfig(w) \/ HandleCancelled(w)
  <2>1. Owns(w)
    BY <1>7 DEF ValidateConfig, HandleCancelled, Owns, OwningPlaces
  <2>2. \/ \E place \in {"check", "raised", "cleanup"} :
             UNCHANGED scans /\ workers' = [workers EXCEPT ![w] = [me EXCEPT !.pc = place]]
        \/ Transition(w, "FAILED", OutsideTry("cleanup"))
        \/ Transition(w, "CANCELLED", InsideTry("cleanup"))
    BY <1>7 DEF ValidateConfig, HandleCancelled
  <2> QED
    BY <1>2, <1>6, <2>1, <2>2
<1>8. CASE \/ AssertNotCancelled(w)
           \/ \E outcome \in Outcomes : RunStage(w, outcome)
           \/ HandleStaleState(w)
  <2>1. PICK r : /\ workers' = [workers EXCEPT ![w] = r]
                 /\ r.scan = me.scan
                 /\ me.pc \notin {"check", "call"} => r.pc = "cleanup"
    <3>1. CASE AssertNotCancelled(w)
      BY <1>0, <3>1 DEF AssertNotCancelled, WorkerRecord
    <3>2. CASE \E outcome \in Outcomes : RunStage(w, outcome)
      BY <1>0, <3>2 DEF RunStage, HandleFailure, WorkerRecord
    <3>3. CASE HandleStaleState(w)
      <4> DEFINE r == [me EXCEPT !.pc = "cleanup", !.status = scans[me.scan].status,
                                 !.dirty = me.dirty /\ scans[me.scan].status # "CANCELLED"]
      <4>1. workers' = [workers EXCEPT ![w] = r]
        BY <3>3 DEF HandleStaleState
      <4>2. r.scan = me.scan /\ r.pc = "cleanup"
        BY <1>0 DEF WorkerRecord
      <4> HIDE DEF r
      <4> QED
        BY <4>1, <4>2
    <3> QED
      BY <1>8, <3>1, <3>2, <3>3
  <2>2. me.pc \in {"check", "call"} => Owns(w)
    BY DEF Owns, OwningPlaces
  <2> QED
    BY <1>4, <1>8, <2>1, <2>2
    DEF AssertNotCancelled, RunStage, HandleStaleState, OwningPlaces
<1>9. CASE Cleanup(w) \/ TaskFails(w) \/ WorkerCrash(w)
  BY <1>0, <1>4, <1>9 DEF Cleanup, TaskFails, WorkerCrash
<1>10. CASE CleanupAndRaise(w)
  BY <1>6, <1>10 DEF CleanupAndRaise, OwningPlaces
<1>11. CASE DatabaseFault(w)
  <2>1. PICK place \in {"raised", "abort"} :
          workers' = [workers EXCEPT ![w] = [me EXCEPT !.dirty = FALSE, !.pc = place]]
    BY <1>0, <1>11 DEF DatabaseFault, WorkerRecord, TypeOK
  <2>2. [me EXCEPT !.dirty = FALSE, !.pc = place].pc \notin OwningPlaces
    BY <1>0 DEF WorkerRecord, OwningPlaces
  <2> QED
    BY <1>4, <1>11, <2>1, <2>2 DEF DatabaseFault
<1> QED
  BY <1>1, <1>3, <1>5, <1>7, <1>8, <1>9, <1>10, <1>11 DEF WorkerStep

\* Every step of the engine is a step of the lease or invisible to it.
LEMMA NextLease ==
  ASSUME OwnershipInv, CancelsWhatExists, [Next]_vars
  PROVE  Lease!Next \/ UNCHANGED Lease!vars
<1>1. CASE \/ UNCHANGED vars
           \/ \E c \in Cancellers, s \in Scans : CancelRead(c, s)
           \/ \E c \in Cancellers : CancelRevoke(c)
           \/ \E d \in Dispatchers, s \in Scans, a \in Attempts : DispatchClaim(d, s, a)
           \/ \E d \in Dispatchers : DispatcherStep(d) \/ DispatchFault(d)
  <2>1. UNCHANGED workers
    BY <1>1 DEF vars, CancelRead, CancelRevoke, DispatchClaim, DispatcherStep,
      DispatchSend, DispatchRecord, DispatchFault
  <2>2. UNCHANGED scans \/ \E d \in Dispatchers : DispatchRecord(d)
    BY <1>1 DEF vars, CancelRead, CancelRevoke, DispatchClaim, DispatcherStep,
      DispatchSend, DispatchFault
  <2> QED
    BY <2>1, <2>2, LeaseOutsideStep
<1>2. CASE \/ \E s \in Scans : CreateScan(s)
           \/ \E o, s \in Scans : RetryScan(o, s)
           \/ \E c \in Cancellers : CancelTransition(c)
  BY <1>2, LeaseRequests
<1>3. CASE \E w \in Workers, m \in queue, again \in BOOLEAN : Receive(w, m, again)
  <2> PICK w \in Workers, m \in queue, again \in BOOLEAN : Receive(w, m, again)
    BY <1>3
  <2> DEFINE loaded == [IdleWorker EXCEPT !.pc = "loaded", !.scan = m.scan,
                          !.status = "QUEUED", !.attempt = scans[m.scan].attempt]
  <2>0. loaded.pc = "loaded" /\ IdleWorker.pc = "idle"
    BY DEF IdleWorker
  <2>1. PICK r \in {loaded, IdleWorker} : workers' = [workers EXCEPT ![w] = r]
    BY DEF Receive
  <2> HIDE DEF loaded
  <2>2. \A s \in Scans : Phase(s)' = Phase(s) /\ Attempt(s)' = Attempt(s)
    BY DEF Receive, Phase, Attempt
  <2> QED
    BY <2>0, <2>1, <2>2, LeaseLocalStep DEF OwningPlaces
<1>4. CASE \E w \in Workers : WorkerStep(w) \/ WorkerCrash(w) \/ DatabaseFault(w)
  BY <1>4, LeaseWorkerSteps
<1> QED
  BY <1>1, <1>2, <1>3, <1>4 DEF Next, CancelStep

\* The engine implements the lease: each scan is handed to one worker at a time, for
\* at most MaxAttempts attempts, until an outcome is recorded that stays.
THEOREM EngineImplementsLease == Spec => ImplementsLease
<1>1. ASSUME Init PROVE Lease!Init
  <2>1. \A s \in Scans : Phase(s) = "absent" /\ Attempt(s) = 0 /\ Holders(s) = {}
    BY <1>1, Phases
    DEF Init, AbsentScan, IdleWorker, Phase, Attempt, Holders, Owns, OwningPlaces
  <2> QED
    BY <2>1 DEF Lease!Init, Phase, Attempt, Holders
<1>2. DispatchInv /\ [Next]_vars => [Lease!Next]_(Lease!vars)
  BY NextLease DEF DispatchInv
<1> QED
  BY <1>1, <1>2, DispatchHolds, PTL DEF Spec, ImplementsLease, Lease!Spec

-----------------------------------------------------------------------------
(* The delivery of outbox rows                                               *)

\* The row a dispatcher has locked.
RowOf(d) == <<dispatchers[d].scan, dispatchers[d].attempt>>

LEMMA RowsArePairs ==
  \A r \in Rows : r[1] \in Scans /\ r[2] \in Attempts /\ r = <<r[1], r[2]>>
BY DEF Rows

\* A process that has a row locked has one of the rows.
LEMMA LockedRows ==
  ASSUME TypeOK, PlacesInv, NEW d \in Dispatchers, dispatchers[d].pc # "idle"
  PROVE  /\ RowOf(d) \in Rows
         /\ dispatchers[d].scan \in Scans /\ dispatchers[d].attempt \in Attempts
         /\ RowState(RowOf(d)) = outbox[dispatchers[d].scan][dispatchers[d].attempt]
         /\ \A r \in Rows : HasSent(d, r) => r = RowOf(d)
         /\ HasSent(d, RowOf(d)) <=> dispatchers[d].pc = "sent"
<1>1. dispatchers[d].scan \in Scans /\ dispatchers[d].attempt \in Attempts
  BY DEF TypeOK, PlacesInv, DispatcherRecord
<1>2. RowOf(d) \in Rows
  BY <1>1 DEF RowOf, Rows
<1>3. RowOf(d)[1] = dispatchers[d].scan /\ RowOf(d)[2] = dispatchers[d].attempt
  BY DEF RowOf
<1>4. ASSUME NEW r \in Rows, HasSent(d, r) PROVE r = RowOf(d)
  BY <1>4, RowsArePairs DEF HasSent, RowOf
<1> QED
  BY <1>1, <1>2, <1>3, <1>4 DEF RowState, HasSent

\* No process but a dispatcher locks, sends, records or gives up a row.
LEMMA OnlyDispatchersMove ==
  ASSUME Next
  PROVE  \/ UNCHANGED dispatchers
         \/ \E d \in Dispatchers, s \in Scans, a \in Attempts : DispatchClaim(d, s, a)
         \/ \E d \in Dispatchers : DispatcherStep(d) \/ DispatchFault(d)
BY DEF Next, CreateScan, RetryScan, CancelRead, CancelStep, CancelTransition, CancelRevoke,
       Receive, WorkerStep, WorkerCrash, DatabaseFault, FailUnregistered, Claim,
       ValidateConfig, AssertNotCancelled, Advance, RunStage, HandleTimeout,
       HandleCancelled, Requeue, FinalizeFailed, HandleStaleState, Cleanup,
       CleanupAndRaise, TaskFails

\* No step that leaves the dispatchers alone sends or loses a message, and every
\* message that was open stays open.
LEMMA QuietDispatchers ==
  ASSUME sends \in [Rows -> Nat], Count, UNCHANGED dispatchers
  PROVE  UNCHANGED <<sends, lost, OpenRows>>
<1>1. \A r \in Rows : ~IsSent(r) /\ ~IsLost(r)
  BY DEF IsSent, IsLost, HasSent
<1>2. sends' = sends
  BY <1>1 DEF Count
<1>3. lost' = lost
  BY <1>1 DEF Count
<1>4. OpenRows' = OpenRows
  BY DEF OpenRows, HasSent
<1> QED
  BY <1>2, <1>3, <1>4

\* A row that changes while no dispatcher moves was not there, and is written: it
\* comes with its scan, or from the one session that has flushed it.
LEMMA CommitsWrite ==
  ASSUME OutboxInv, TableFacts, UNCHANGED <<dispatchers, sends, lost, OpenRows>>
  PROVE  \/ UNCHANGED Delivery!vars
         \/ \E r \in Rows : Delivery!Write(r)
<1>1. CASE \A r \in Rows : RowState(r)' = RowState(r)
  <2>1. [r \in Rows |-> RowState(r)'] = [r \in Rows |-> RowState(r)]
    BY <1>1
  <2> QED
    BY <2>1 DEF Delivery!vars
<1>2. ASSUME NEW q \in Rows, RowState(q)' # RowState(q)
      PROVE  Delivery!Write(q)
  <2> PICK s \in Scans, a \in Attempts : s = q[1] /\ a = q[2] /\ q = <<s, a>>
    BY RowsArePairs
  <2>1. RowState(q) = outbox[s][a] /\ RowState(q)' = outbox'[s][a]
    BY DEF RowState
  <2>2. ~\E d \in Dispatchers : dispatchers[d].pc = "sent" /\ dispatchers'[d].pc = "idle"
    OBVIOUS
  <2>3. OutboxMoves(s, a) /\ OneRowMoves
    BY DEF TableFacts
  <2>4. /\ outbox'[s][a] = "pending"
        /\ \/ scans[s].status = "ABSENT"
           \/ \E w \in Workers : FlushedBy(w, s, a)
    BY <1>2, <2>1, <2>2, <2>3 DEF OutboxMoves
  <2>5. outbox[s][a] = "none"
    BY <2>4
    DEF OutboxInv, DispatchInv, NothingRunsAhead, FlushedRowIsNew, FlushedBy
  <2>6. ASSUME NEW r \in Rows, r # q PROVE RowState(r)' = RowState(r)
    <3>1. PICK t \in Scans, b \in Attempts : t = r[1] /\ b = r[2] /\ r = <<t, b>>
      BY RowsArePairs
    <3>2. ~(t = s /\ b = a)
      BY <2>6, <3>1
    <3>3. outbox'[t][b] = outbox[t][b]
      BY <1>2, <2>1, <2>3, <3>2 DEF OneRowMoves
    <3> QED
      BY <3>1, <3>3 DEF RowState
  <2>7. [r \in Rows |-> RowState(r)']
          = [[r \in Rows |-> RowState(r)] EXCEPT ![q] = "pending"]
    BY <2>1, <2>4, <2>6
  <2> QED
    BY <2>1, <2>5, <2>7 DEF Delivery!Write
<1> QED
  BY <1>1, <1>2

\* What a dispatcher does about its row is seen of that row alone: nobody else has
\* sent a message of it.
LEMMA OneDispatcherMoves ==
  ASSUME OutboxInv, NEW d \in Dispatchers, dispatchers[d].pc # "idle",
         NEW q \in Rows, q = RowOf(d),
         NEW me, dispatchers' = [dispatchers EXCEPT ![d] = me]
  PROVE  /\ q[1] = dispatchers[d].scan /\ q[2] = dispatchers[d].attempt
         /\ \A r \in Rows : HasSent(d, r) <=> r = q /\ dispatchers[d].pc = "sent"
         /\ q \in OpenRows <=> dispatchers[d].pc = "sent"
         /\ \A e \in Dispatchers : e # d => ~HasSent(e, q)
         /\ \A r \in Rows : r # q =>
              (r \in OpenRows <=> \E e \in Dispatchers \ {d} : HasSent(e, r))
         /\ dispatchers'[d] = me
         /\ \A e \in Dispatchers : e # d => dispatchers'[e] = dispatchers[e]
         /\ \A e \in Dispatchers, r \in Rows : e # d => (HasSent(e, r)' <=> HasSent(e, r))
         /\ OpenRows \subseteq Rows /\ OpenRows' \subseteq Rows
<1>0. TypeOK /\ PlacesInv
  BY DEF OutboxInv, DispatchInv, OwnershipInv
<1>1. /\ q[1] = dispatchers[d].scan /\ q[2] = dispatchers[d].attempt
      /\ \A r \in Rows : HasSent(d, r) <=> r = q /\ dispatchers[d].pc = "sent"
  BY <1>0, LockedRows DEF RowOf
<1>2. /\ dispatchers'[d] = me
      /\ \A e \in Dispatchers : e # d => dispatchers'[e] = dispatchers[e]
  BY <1>0 DEF TypeOK
<1>3. \A e \in Dispatchers : e # d => ~HasSent(e, q)
  BY <1>1 DEF OutboxInv, LocksAreExclusive, HasSent
<1>4. \A e \in Dispatchers, r \in Rows : e # d => (HasSent(e, r)' <=> HasSent(e, r))
  BY <1>2 DEF HasSent
<1>5. q \in OpenRows <=> dispatchers[d].pc = "sent"
  BY <1>1, <1>3 DEF OpenRows
<1>6. \A r \in Rows : r # q => (r \in OpenRows <=> \E e \in Dispatchers \ {d} : HasSent(e, r))
  BY <1>1 DEF OpenRows
<1>7. OpenRows \subseteq Rows /\ OpenRows' \subseteq Rows
  BY DEF OpenRows, Rows
<1> QED
  BY <1>1, <1>2, <1>3, <1>4, <1>5, <1>6, <1>7

\* A send opens a message of the row and loses none.
LEMMA SendOpens ==
  ASSUME OutboxInv, NEW d \in Dispatchers, dispatchers[d].pc # "idle",
         NEW q \in Rows, q = RowOf(d),
         NEW me, dispatchers' = [dispatchers EXCEPT ![d] = me],
         dispatchers[d].pc = "claimed",
         me.pc = "sent", me.scan = q[1], me.attempt = q[2]
  PROVE  /\ q \notin OpenRows
         /\ OpenRows' = OpenRows \cup {q}
         /\ \A r \in Rows : ~IsLost(r)
         /\ \A r \in Rows : IsSent(r) <=> r = q
<1>0. /\ q \notin OpenRows
      /\ \A e \in Dispatchers : e # d => ~HasSent(e, q)
      /\ \A r \in Rows : r # q => (r \in OpenRows <=> \E e \in Dispatchers \ {d} : HasSent(e, r))
      /\ dispatchers'[d] = me
      /\ \A e \in Dispatchers : e # d => dispatchers'[e] = dispatchers[e]
      /\ \A e \in Dispatchers, r \in Rows : e # d => (HasSent(e, r)' <=> HasSent(e, r))
      /\ OpenRows \subseteq Rows /\ OpenRows' \subseteq Rows
  BY OneDispatcherMoves
<1>1. \A r \in Rows : HasSent(d, r)' <=> r = q
  BY <1>0, RowsArePairs DEF HasSent
<1>2. \A r \in Rows : r \in OpenRows' <=> r \in OpenRows \/ r = q
  BY <1>0, <1>1 DEF OpenRows
<1>3. OpenRows' = OpenRows \cup {q}
  BY <1>0, <1>2
<1>4. \A r \in Rows : ~IsLost(r)
  BY <1>0 DEF IsLost, HasSent
<1>5. \A r \in Rows : IsSent(r) <=> r = q
  BY <1>0, <1>1 DEF IsSent, HasSent
<1> QED
  BY <1>0, <1>3, <1>4, <1>5

\* Giving the row up closes the message that was open, which is lost if the row is not
\* published.
LEMMA ReleaseCloses ==
  ASSUME OutboxInv, NEW d \in Dispatchers, dispatchers[d].pc # "idle",
         NEW q \in Rows, q = RowOf(d),
         NEW me, dispatchers' = [dispatchers EXCEPT ![d] = me],
         me.pc = "idle"
  PROVE  /\ q \in OpenRows <=> dispatchers[d].pc = "sent"
         /\ OpenRows' = OpenRows \ {q}
         /\ \A r \in Rows : ~IsSent(r)
         /\ \A r \in Rows :
              IsLost(r) <=>
                r = q /\ dispatchers[d].pc = "sent" /\ RowState(q)' # "published"
<1>0. /\ q \in OpenRows <=> dispatchers[d].pc = "sent"
      /\ \A r \in Rows : HasSent(d, r) <=> r = q /\ dispatchers[d].pc = "sent"
      /\ \A e \in Dispatchers : e # d => ~HasSent(e, q)
      /\ \A r \in Rows : r # q => (r \in OpenRows <=> \E e \in Dispatchers \ {d} : HasSent(e, r))
      /\ dispatchers'[d] = me
      /\ \A e \in Dispatchers : e # d => dispatchers'[e] = dispatchers[e]
      /\ \A e \in Dispatchers, r \in Rows : e # d => (HasSent(e, r)' <=> HasSent(e, r))
      /\ OpenRows \subseteq Rows /\ OpenRows' \subseteq Rows
  BY OneDispatcherMoves
<1>1. \A r \in Rows : ~HasSent(d, r)'
  BY <1>0 DEF HasSent
<1>2. \A r \in Rows : r \in OpenRows' <=> r \in OpenRows /\ r # q
  BY <1>0, <1>1 DEF OpenRows
<1>3. OpenRows' = OpenRows \ {q}
  BY <1>0, <1>2
<1>4. \A r \in Rows : ~IsSent(r)
  BY <1>0, <1>1 DEF IsSent, HasSent
<1>5. ASSUME NEW e \in Dispatchers, NEW r \in Rows, HasSent(e, r), dispatchers'[e].pc = "idle"
      PROVE  e = d
  BY <1>0, <1>5 DEF HasSent
<1>6. \A r \in Rows : IsLost(r) <=> HasSent(d, r) /\ RowState(r)' # "published"
  BY <1>0, <1>5 DEF IsLost
<1>7. \A r \in Rows :
        IsLost(r) <=> r = q /\ dispatchers[d].pc = "sent" /\ RowState(q)' # "published"
  BY <1>0, <1>6
<1> QED
  BY <1>0, <1>3, <1>4, <1>7

\* Taking a lock is invisible, and so is giving up a row whose message was not sent.
LEMMA ClaimStutters ==
  ASSUME CountInv, Count, NEW d \in Dispatchers,
         NEW s \in Scans, NEW a \in Attempts, DispatchClaim(d, s, a)
  PROVE  UNCHANGED Delivery!vars
<1>0. TypeOK
  BY DEF CountInv, OutboxInv, DispatchInv, OwnershipInv
<1>1. /\ dispatchers[d].pc = "idle" /\ dispatchers'[d].pc = "claimed" /\ UNCHANGED outbox
      /\ \A e \in Dispatchers : e # d => dispatchers'[e] = dispatchers[e]
  BY <1>0 DEF DispatchClaim, TypeOK
<1>2. \A e \in Dispatchers, r \in Rows : HasSent(e, r)' <=> HasSent(e, r)
  BY <1>1 DEF HasSent
<1>3. OpenRows' = OpenRows
  BY <1>2 DEF OpenRows, Rows
<1>4. \A r \in Rows : ~IsSent(r) /\ ~IsLost(r)
  BY <1>1 DEF IsSent, IsLost, HasSent
<1>5. sends' = sends /\ lost' = lost
  BY <1>4 DEF Count, CountInv
<1>6. [r \in Rows |-> RowState(r)'] = [r \in Rows |-> RowState(r)]
  BY <1>1 DEF RowState
<1> QED
  BY <1>3, <1>5, <1>6 DEF Delivery!vars

\* The row of the lock is pending and has no message open when it is sent.
LEMMA SendRefines ==
  ASSUME CountInv, Count, NEW d \in Dispatchers, DispatchSend(d)
  PROVE  \E r \in Rows : Delivery!Send(r)
<1>0. TypeOK /\ PlacesInv /\ dispatchers[d].pc = "claimed"
  BY DEF CountInv, OutboxInv, DispatchInv, OwnershipInv, DispatchSend
<1> PICK q \in Rows : q = RowOf(d)
  BY <1>0, LockedRows
<1>1. PICK me : /\ dispatchers' = [dispatchers EXCEPT ![d] = me]
                /\ me.pc = "sent" /\ me.scan = q[1] /\ me.attempt = q[2]
  <2> DEFINE r == [dispatchers[d] EXCEPT !.pc = "sent", !.job = jobs[dispatchers[d].scan] + 1]
  <2>1. /\ dispatchers' = [dispatchers EXCEPT ![d] = r]
        /\ r.pc = "sent" /\ r.scan = q[1] /\ r.attempt = q[2]
    BY <1>0 DEF DispatchSend, RowOf, TypeOK, DispatcherRecord
  <2> HIDE DEF r
  <2> QED
    BY <2>1
<1>2. /\ q \notin OpenRows /\ OpenRows' = OpenRows \cup {q}
      /\ \A r \in Rows : ~IsLost(r)
      /\ \A r \in Rows : IsSent(r) <=> r = q
  BY <1>0, <1>1, SendOpens DEF CountInv
<1>3. RowState(q) = "pending"
  BY <1>0, LockedRows DEF CountInv, OutboxInv, ClaimIsCurrent
<1>4. sends' = [sends EXCEPT ![q] = @ + 1] /\ lost' = lost
  BY <1>2 DEF Count, CountInv
<1>5. [r \in Rows |-> RowState(r)'] = [r \in Rows |-> RowState(r)]
  BY DEF DispatchSend, RowState
<1>6. Delivery!Send(q)
  BY <1>2, <1>3, <1>4, <1>5 DEF Delivery!Send
<1> QED
  BY <1>6

\* Recording closes the message of the row and publishes no other.
LEMMA RecordRefines ==
  ASSUME CountInv, Count, NEW d \in Dispatchers, DispatchRecord(d)
  PROVE  \E r \in Rows : Delivery!Record(r)
<1>0. TypeOK /\ PlacesInv /\ dispatchers[d].pc = "sent"
  BY DEF CountInv, OutboxInv, DispatchInv, OwnershipInv, DispatchRecord
<1> PICK q \in Rows : q = RowOf(d)
  BY <1>0, LockedRows
<1> PICK s \in Scans, a \in Attempts : s = q[1] /\ a = q[2] /\ q = <<s, a>>
  BY RowsArePairs
<1>1. dispatchers' = [dispatchers EXCEPT ![d] = IdleDispatcher] /\ IdleDispatcher.pc = "idle"
  BY DEF DispatchRecord, IdleDispatcher
<1>2. outbox' = [outbox EXCEPT ![s][a] = "published"]
  BY DEF DispatchRecord, RowOf
<1>3. \A t \in Scans, b \in Attempts :
        outbox'[t][b] = IF t = s /\ b = a THEN "published" ELSE outbox[t][b]
  BY <1>0, <1>2 DEF TypeOK
<1>4. \A r \in Rows : RowState(r)' = IF r = q THEN "published" ELSE RowState(r)
  <2> SUFFICES ASSUME NEW r \in Rows
               PROVE  RowState(r)' = IF r = q THEN "published" ELSE RowState(r)
    OBVIOUS
  <2>1. r[1] \in Scans /\ r[2] \in Attempts /\ (r = q <=> r[1] = s /\ r[2] = a)
    BY RowsArePairs
  <2> QED
    BY <1>3, <2>1 DEF RowState
<1>5. /\ q \in OpenRows /\ OpenRows' = OpenRows \ {q}
      /\ \A r \in Rows : ~IsSent(r) /\ ~IsLost(r)
  BY <1>0, <1>1, <1>4, ReleaseCloses DEF CountInv
<1>6. sends' = sends /\ lost' = lost
  BY <1>5 DEF Count, CountInv
<1>7. [r \in Rows |-> RowState(r)']
        = [[r \in Rows |-> RowState(r)] EXCEPT ![q] = "published"]
  BY <1>4
<1>8. Delivery!Record(q)
  BY <1>5, <1>6, <1>7 DEF Delivery!Record
<1> QED
  BY <1>8

\* A failure after the send loses the record of the message; before it, nothing.
LEMMA FaultRefines ==
  ASSUME CountInv, Count, NEW d \in Dispatchers, DispatchFault(d)
  PROVE  \/ UNCHANGED Delivery!vars
         \/ \E r \in Rows : Delivery!Lose(r)
<1>0. TypeOK /\ PlacesInv /\ dispatchers[d].pc # "idle"
  BY DEF CountInv, OutboxInv, DispatchInv, OwnershipInv, DispatchFault
<1> PICK q \in Rows : q = RowOf(d)
  BY <1>0, LockedRows
<1>1. dispatchers' = [dispatchers EXCEPT ![d] = IdleDispatcher] /\ IdleDispatcher.pc = "idle"
  BY DEF DispatchFault, IdleDispatcher
<1>2. RowState(q)' = "pending" /\ \A r \in Rows : RowState(r)' = RowState(r)
  <2>1. RowState(q) = "pending"
    BY <1>0, LockedRows DEF CountInv, OutboxInv, ClaimIsCurrent
  <2> QED
    BY <2>1 DEF DispatchFault, RowState
<1>3. /\ q \in OpenRows <=> dispatchers[d].pc = "sent"
      /\ OpenRows' = OpenRows \ {q}
      /\ \A r \in Rows : ~IsSent(r)
      /\ \A r \in Rows : IsLost(r) <=> r = q /\ dispatchers[d].pc = "sent"
  BY <1>0, <1>1, <1>2, ReleaseCloses DEF CountInv
<1>4. sends' = sends
  BY <1>3 DEF Count, CountInv
<1>5. [r \in Rows |-> RowState(r)'] = [r \in Rows |-> RowState(r)]
  BY <1>2
<1>6. CASE dispatchers[d].pc = "sent"
  <2>1. lost' = lost + 1
    BY <1>3, <1>6 DEF Count
  <2>2. lost < MaxFaults
    BY <1>0, ScanEngineAssumption DEF CountInv, DispatchFault, TypeOK
  <2>3. Delivery!Lose(q)
    BY <1>3, <1>4, <1>5, <1>6, <2>1, <2>2 DEF Delivery!Lose
  <2> QED
    BY <2>3
<1>7. CASE dispatchers[d].pc # "sent"
  <2>1. lost' = lost
    BY <1>3, <1>7 DEF Count
  <2>2. OpenRows' = OpenRows
    BY <1>3, <1>7
  <2> QED
    BY <1>4, <1>5, <2>1, <2>2 DEF Delivery!vars
<1> QED
  BY <1>6, <1>7

\* Every step of the engine is a step of the delivery or invisible to it.
LEMMA NextDelivery ==
  ASSUME CountInv, [CountedNext]_countedVars
  PROVE  [Delivery!Next]_(Delivery!vars)
<1>1. CASE UNCHANGED countedVars
  <2>1. UNCHANGED <<outbox, dispatchers, sends, lost>>
    BY <1>1 DEF countedVars, vars
  <2>2. OpenRows' = OpenRows /\ \A r \in Rows : RowState(r)' = RowState(r)
    BY <2>1 DEF OpenRows, HasSent, RowState
  <2>3. [r \in Rows |-> RowState(r)'] = [r \in Rows |-> RowState(r)]
    BY <2>2
  <2> QED
    BY <2>1, <2>2, <2>3 DEF Delivery!vars
<1>2. CASE Next /\ Count /\ UNCHANGED dispatchers
  <2>1. TableFacts
    BY <1>2, NextFacts DEF CountInv, OutboxInv, DispatchInv
  <2> QED
    BY <1>2, <2>1, QuietDispatchers, CommitsWrite DEF CountInv, Delivery!Next
<1>3. CASE /\ Count
           /\ \/ \E d \in Dispatchers, s \in Scans, a \in Attempts : DispatchClaim(d, s, a)
              \/ \E d \in Dispatchers : DispatcherStep(d) \/ DispatchFault(d)
  BY <1>3, ClaimStutters, SendRefines, RecordRefines, FaultRefines
  DEF DispatcherStep, Delivery!Next
<1> QED
  BY <1>1, <1>2, <1>3, OnlyDispatchersMove DEF CountedNext

-----------------------------------------------------------------------------
(* How often a row is sent                                                   *)

\* A step of the delivery keeps the count of messages: a row is sent again only after
\* a loss, and never once it is published.
LEMMA DeliveryKeepsCount ==
  ASSUME sends \in [Rows -> Nat], lost \in Nat, SendsFollowLosses,
         \A r \in OpenRows : RowState(r) = "pending",
         [Delivery!Next]_(Delivery!vars)
  PROVE  sends' \in [Rows -> Nat] /\ lost' \in Nat /\ SendsFollowLosses'
<1> DEFINE state == [r \in Rows |-> RowState(r)]
<1>0. /\ \A r \in Rows : state[r] = RowState(r) /\ state'[r] = RowState(r)'
      /\ OpenRows \subseteq Rows
  BY DEF OpenRows
<1>1. SendsFollowLosses' <=>
        \A r \in Rows :
          /\ state'[r] = "none" => sends'[r] = 0
          /\ state'[r] = "published" \/ r \in OpenRows' => sends'[r] > 0
          /\ sends'[r] <= lost' + 1
          /\ state'[r] = "pending" /\ r \notin OpenRows' => sends'[r] <= lost'
  BY <1>0 DEF SendsFollowLosses
<1>2. \A r \in Rows :
        /\ state[r] = "none" => sends[r] = 0
        /\ state[r] = "published" \/ r \in OpenRows => sends[r] > 0
        /\ sends[r] <= lost + 1
        /\ state[r] = "pending" /\ r \notin OpenRows => sends[r] <= lost
        /\ sends[r] \in Nat
        /\ r \in OpenRows => state[r] = "pending"
  BY <1>0 DEF SendsFollowLosses
<1>3. CASE UNCHANGED Delivery!vars
  <2>1. state' = state /\ UNCHANGED <<sends, lost, OpenRows>>
    BY <1>3 DEF Delivery!vars
  <2> HIDE DEF state
  <2> QED
    BY <1>1, <1>2, <2>1
<1>4. ASSUME NEW q \in Rows, Delivery!Write(q)
      PROVE  sends' \in [Rows -> Nat] /\ lost' \in Nat /\ SendsFollowLosses'
  <2>1. /\ state[q] = "none" /\ state' = [state EXCEPT ![q] = "pending"]
        /\ UNCHANGED <<sends, lost, OpenRows>>
    BY <1>4 DEF Delivery!Write
  <2>2. \A r \in Rows : state'[r] = IF r = q THEN "pending" ELSE state[r]
    BY <2>1
  <2> HIDE DEF state
  <2> QED
    BY <1>1, <1>2, <2>1, <2>2
<1>5. ASSUME NEW q \in Rows, Delivery!Send(q)
      PROVE  sends' \in [Rows -> Nat] /\ lost' \in Nat /\ SendsFollowLosses'
  <2>1. /\ state[q] = "pending" /\ q \notin OpenRows /\ state' = state
        /\ sends' = [sends EXCEPT ![q] = sends[q] + 1]
        /\ OpenRows' = OpenRows \cup {q} /\ lost' = lost
    BY <1>5 DEF Delivery!Send
  <2>2. /\ sends' \in [Rows -> Nat]
        /\ \A r \in Rows : sends'[r] = IF r = q THEN sends[r] + 1 ELSE sends[r]
    BY <1>2, <2>1
  <2> HIDE DEF state
  <2> QED
    BY <1>1, <1>2, <2>1, <2>2
<1>6. ASSUME NEW q \in Rows, Delivery!Record(q)
      PROVE  sends' \in [Rows -> Nat] /\ lost' \in Nat /\ SendsFollowLosses'
  <2>1. /\ q \in OpenRows /\ state' = [state EXCEPT ![q] = "published"]
        /\ OpenRows' = OpenRows \ {q} /\ UNCHANGED <<sends, lost>>
    BY <1>6 DEF Delivery!Record
  <2>2. \A r \in Rows : state'[r] = IF r = q THEN "published" ELSE state[r]
    BY <2>1
  <2> HIDE DEF state
  <2> QED
    BY <1>1, <1>2, <2>1, <2>2
<1>7. ASSUME NEW q \in Rows, Delivery!Lose(q)
      PROVE  sends' \in [Rows -> Nat] /\ lost' \in Nat /\ SendsFollowLosses'
  <2>1. /\ q \in OpenRows /\ state' = state /\ lost' = lost + 1
        /\ OpenRows' = OpenRows \ {q} /\ sends' = sends
    BY <1>7 DEF Delivery!Lose
  <2> HIDE DEF state
  <2> QED
    BY <1>1, <1>2, <2>1
<1> QED
  BY <1>3, <1>4, <1>5, <1>6, <1>7 DEF Delivery!Next

\* Faults are only added to.
LEMMA FaultsGrow ==
  ASSUME TypeOK, [Next]_vars
  PROVE  faults' \in Nat /\ faults <= faults'
<1>1. faults \in Nat
  BY ScanEngineAssumption DEF TypeOK
<1>2. faults' = faults \/ faults' = faults + 1
  BY DEF Next, vars, CreateScan, RetryScan, CancelRead, CancelStep, CancelTransition,
         CancelRevoke, DispatchClaim, DispatcherStep, DispatchSend, DispatchRecord,
         DispatchFault, Receive, WorkerStep, WorkerCrash, DatabaseFault, FailUnregistered,
         Claim, ValidateConfig, AssertNotCancelled, Advance, RunStage, HandleTimeout,
         HandleCancelled, Requeue, FinalizeFailed, HandleStaleState, Cleanup,
         CleanupAndRaise, TaskFails
<1> QED
  BY <1>1, <1>2

\* A loss is a fault of the step that loses.
LEMMA LossesAreFaults ==
  ASSUME CountInv, [CountedNext]_countedVars
  PROVE  lost' <= faults'
<1>0. /\ TypeOK /\ PlacesInv /\ lost \in Nat /\ lost <= faults /\ faults \in Nat
      /\ [Next]_vars
  BY ScanEngineAssumption
  DEF CountInv, OutboxInv, DispatchInv, OwnershipInv, TypeOK, CountedNext, countedVars
<1>1. faults' \in Nat /\ faults <= faults'
  BY <1>0, FaultsGrow
<1>2. CASE lost' = lost
  BY <1>0, <1>1, <1>2
<1>3. CASE lost' # lost
  <2>1. Next /\ lost' = lost + 1 /\ \E r \in Rows : IsLost(r)
    BY <1>3 DEF CountedNext, countedVars, Count
  <2> PICK d \in Dispatchers, r \in Rows :
        HasSent(d, r) /\ dispatchers'[d].pc = "idle" /\ RowState(r)' # "published"
    BY <2>1 DEF IsLost
  <2>2. dispatchers[d].pc = "sent" /\ ~UNCHANGED dispatchers
    BY DEF HasSent
  <2>3. ASSUME NEW e \in Dispatchers, NEW s \in Scans, NEW a \in Attempts,
               DispatchClaim(e, s, a)
        PROVE  FALSE
    BY <1>0, <2>2, <2>3 DEF DispatchClaim, TypeOK
  <2>4. ASSUME NEW e \in Dispatchers, DispatchSend(e) PROVE FALSE
    BY <1>0, <2>2, <2>4 DEF DispatchSend, TypeOK
  <2>5. ASSUME NEW e \in Dispatchers, DispatchRecord(e) PROVE FALSE
    <3>1. e = d
      BY <1>0, <2>2, <2>5 DEF DispatchRecord, TypeOK
    <3>2. d \in Dispatchers /\ r[1] = dispatchers[d].scan /\ r[2] = dispatchers[d].attempt
      BY DEF HasSent
    <3>3. outbox'[r[1]][r[2]] = "published"
      BY <1>0, <2>5, <3>1, <3>2, RowsArePairs DEF DispatchRecord, TypeOK
    <3> QED
      BY <3>3 DEF RowState
  <2>6. \E e \in Dispatchers : DispatchFault(e)
    BY <2>1, <2>2, <2>3, <2>4, <2>5, OnlyDispatchersMove DEF DispatcherStep
  <2>7. faults' = faults + 1
    BY <2>6 DEF DispatchFault
  <2> QED
    BY <1>0, <2>1, <2>7
<1> QED
  BY <1>2, <1>3

LEMMA InitCount == CountedInit => CountInv
<1> SUFFICES ASSUME CountedInit PROVE CountInv
  OBVIOUS
<1>1. OutboxInv /\ lost = 0 /\ faults = 0 /\ sends = [r \in Rows |-> 0]
  BY InitOutbox DEF CountedInit, Init
<1>2. \A r \in Rows : RowState(r) = "none" /\ r \notin OpenRows
  BY RowsArePairs DEF CountedInit, Init, RowState, OpenRows, HasSent, IdleDispatcher
<1> QED
  BY <1>1, <1>2 DEF CountInv, SendsFollowLosses

LEMMA NextCount ==
  ASSUME CountInv, [CountedNext]_countedVars
  PROVE  CountInv'
<1>1. OutboxInv'
  BY NextOutbox DEF CountInv, CountedNext, countedVars
<1>2. \A r \in OpenRows : RowState(r) = "pending"
  BY DEF CountInv, OutboxInv, ClaimIsCurrent, OpenRows, HasSent, RowState
<1>3. sends' \in [Rows -> Nat] /\ lost' \in Nat /\ SendsFollowLosses'
  BY <1>2, NextDelivery, DeliveryKeepsCount DEF CountInv
<1> QED
  BY <1>1, <1>3, LossesAreFaults DEF CountInv

\* The history is sound: it counts in every reachable state what it is said to count,
\* and a record is lost only to a fault of the engine.
THEOREM CountHolds == CountedSpec => []CountInv
<1>1. CountInv /\ [CountedNext]_countedVars => CountInv'
  BY NextCount
<1> QED
  BY <1>1, InitCount, PTL DEF CountedSpec

\* No outbox row is sent twice without a lost record, and none is published unsent,
\* for any number of workers that write rows and of dispatchers that publish them.
THEOREM SendsAreBounded == CountedSpec => []SendsFollowLosses
<1>1. CountInv => SendsFollowLosses
  BY DEF CountInv
<1> QED
  BY <1>1, CountHolds, PTL

\* The behaviours with the history are behaviours of the engine.
THEOREM HistoryAddsNothing == CountedSpec => Spec
<1>1. CountedInit => Init
  BY DEF CountedInit
<1>2. [CountedNext]_countedVars => [Next]_vars
  BY DEF CountedNext, countedVars
<1> QED
  BY <1>1, <1>2, PTL DEF CountedSpec, Spec

\* The whole engine implements the delivery of outbox rows: each is written once, by
\* the request or the one worker that has it, sent while it is pending and no message
\* of it is open, and recorded or lost by the dispatcher that sent it.
THEOREM EngineDeliversRows == CountedSpec => EngineImplementsDeliverySteps
<1>1. ASSUME CountedInit PROVE Delivery!Init
  <2>1. sends = [r \in Rows |-> 0] /\ lost = 0
    BY <1>1 DEF CountedInit
  <2>2. \A r \in Rows : RowState(r) = "none" /\ r \notin OpenRows
    BY <1>1, RowsArePairs
    DEF CountedInit, Init, RowState, OpenRows, HasSent, IdleDispatcher
  <2>3. OpenRows = {}
    BY <2>2 DEF OpenRows
  <2>4. [r \in Rows |-> RowState(r)] = [r \in Rows |-> "none"]
    BY <2>2
  <2> QED
    BY <2>1, <2>3, <2>4 DEF Delivery!Init
<1>2. CountInv /\ [CountedNext]_countedVars => [Delivery!Next]_(Delivery!vars)
  BY NextDelivery
<1> QED
  BY <1>1, <1>2, CountHolds, PTL
  DEF CountedSpec, EngineImplementsDeliverySteps, Delivery!SafeSpec
=============================================================================
