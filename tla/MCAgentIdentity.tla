--------------------------- MODULE MCAgentIdentity ---------------------------
(***************************************************************************)
(* The agent and the server together, on small instances.                  *)
(***************************************************************************)
EXTENDS AgentIdentityInv
=============================================================================
