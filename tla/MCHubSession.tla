---------------------------- MODULE MCHubSession ----------------------------
(***************************************************************************)
(* The streams of one agent, on a small instance.                          *)
(***************************************************************************)
EXTENDS HubSession
=============================================================================
