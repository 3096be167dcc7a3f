--------------------------- MODULE MCDecisionLoop ---------------------------
(***************************************************************************)
(* One proposal at a time for one agent, on a small instance.              *)
(***************************************************************************)
EXTENDS DecisionLoop

CONSTANT pods       \* a collector that may be paused

MCFirst == [tier |-> 1, over |-> {pods}]
MCChanges == {[tier |-> None, add |-> {}, lift |-> {pods}],
              [tier |-> 0, add |-> {}, lift |-> {}]}
=============================================================================
