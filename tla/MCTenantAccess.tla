--------------------------- MODULE MCTenantAccess ---------------------------
(* A small tenant: two users and two keys, requests two at a time. *)
EXTENDS TenantAccess, TLC

OneScopeSet == {{"members:manage", "api_keys:manage"}}

Symmetry == Permutations(Requests)
=============================================================================
