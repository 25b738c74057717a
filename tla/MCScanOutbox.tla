---------------------------- MODULE MCScanOutbox ----------------------------
(***************************************************************************)
(* Instances of ScanOutbox for TLC, with the plugin behaviours of the      *)
(* instances of ScanEngine.                                                *)
(***************************************************************************)
EXTENDS ScanOutbox, MCScanEngine
=============================================================================
