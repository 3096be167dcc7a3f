----------------------------- MODULE MCHubAccess -----------------------------
(***************************************************************************)
(* The access of one agent, on a small instance: nodes need tier 1,        *)
(* workloads tier 2.                                                       *)
(***************************************************************************)
EXTENDS HubAccess, TLC

CONSTANTS node, workload

MCFacts == {node, workload}
MCLevel == (node :> 1) @@ (workload :> 2)
=============================================================================
