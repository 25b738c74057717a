--------------------------- MODULE MCAccountLinks ---------------------------
(***************************************************************************)
(* Instances of AccountLinks for TLC.                                      *)
(***************************************************************************)
EXTENDS AccountLinks

CONSTANTS q1, q2

TwoRequests == {q1, q2}
=============================================================================
