------------------------- MODULE MCFindingPipeline --------------------------
(***************************************************************************)
(* Instances of FindingPipeline for TLC: what each scan of the asset       *)
(* detects.                                                                *)
(***************************************************************************)
EXTENDS FindingPipeline, TLC

CONSTANTS s1, s2, s3, f1, f2

\* Two scans meet both findings in opposite orders, one of them twice; the third
\* detects one of them.
Crossing == s1 :> <<f1, f2, f1>> @@ s2 :> <<f2, f1>> @@ s3 :> <<f1>>
=============================================================================
