---------------------------- MODULE MCController ----------------------------
(***************************************************************************)
(* Two resources in one namespace: a spec that keeps the identity, one     *)
(* that lets it go, one above what the controller may install.             *)
(***************************************************************************)
EXTENDS Controller
=============================================================================
