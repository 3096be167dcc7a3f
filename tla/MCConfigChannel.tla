--------------------------- MODULE MCConfigChannel ---------------------------
(***************************************************************************)
(* The Config channel of one agent, on a small instance.                   *)
(***************************************************************************)
EXTENDS ConfigChannel

First == [tier |-> 2, rest |-> 0]
=============================================================================
