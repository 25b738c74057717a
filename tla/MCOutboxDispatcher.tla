------------------------- MODULE MCOutboxDispatcher -------------------------
(***************************************************************************)
(* Instances of OutboxDispatcher for TLC: two processes that overlap.      *)
(***************************************************************************)
EXTENDS OutboxDispatcher

CONSTANTS d1, d2

TwoProcesses == {d1, d2}
=============================================================================
