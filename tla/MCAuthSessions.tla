--------------------------- MODULE MCAuthSessions ---------------------------
(***************************************************************************)
(* Instances of AuthSessions for TLC.                                      *)
(***************************************************************************)
EXTENDS AuthSessions

CONSTANTS q1, q2

TwoRequests == {q1, q2}
=============================================================================
