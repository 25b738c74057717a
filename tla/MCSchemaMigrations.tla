------------------------- MODULE MCSchemaMigrations -------------------------
(* The whole schema, and every command between two revisions. *)
EXTENDS SchemaMigrations
=============================================================================
