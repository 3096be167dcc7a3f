----------------------------- MODULE MCTenants ------------------------------
(***************************************************************************)
(* One organisation and a few callers: enough for a loader, one that waits *)
(* for it, a stream and an owner who deletes the organisation.             *)
(***************************************************************************)
EXTENDS Tenants
=============================================================================
