---------------------------- MODULE MCOperators ----------------------------
(***************************************************************************)
(* One agent with room for two intents, and two requests at a time, three  *)
(* in all.  One operator is there and one more may be created.             *)
(***************************************************************************)
EXTENDS Operators

CONSTANTS a1, o1, o2

MCAgentOf == [i \in Intents |-> a1]
=============================================================================
