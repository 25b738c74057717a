---------------------------- MODULE MCScanEngine ----------------------------
(***************************************************************************)
(* Instances of ScanEngine for TLC: the plugin behaviours the              *)
(* configurations choose from, and the symmetry of the processes.          *)
(***************************************************************************)
EXTENDS ScanEngine, TLC

\* Any outcome in any stage.
AnyOutcome == [stage \in Stages |-> Outcomes]

\* The outcomes a handler has a legal edge for: while findings are persisted
\* (PROCESSING) neither a re-queue nor a timeout has one.
HandledOutcomes ==
  [AnyOutcome EXCEPT !["process"] = {"ok", "permanent", "cancelled"}]

\* A retry of a scan and nothing else.
TransientOutcomes ==
  [stage \in Stages |-> IF stage = "execute" THEN {"ok", "transient"} ELSE {"ok"}]

\* Everything succeeds but the persistence of findings, which may outlast the scan's
\* timeout.
SlowProcessing ==
  [stage \in Stages |-> IF stage = "process" THEN {"ok", "timeout"} ELSE {"ok"}]

Symmetry ==
  Permutations(Workers) \cup Permutations(Dispatchers) \cup Permutations(Cancellers)
=============================================================================
