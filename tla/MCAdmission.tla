---------------------------- MODULE MCAdmission ----------------------------
(***************************************************************************)
(* Admission on small instances.  Interchangeable values carry symmetry.   *)
(***************************************************************************)
EXTENDS AdmissionInv, TLC

\* Two people approving, and two handlers renewing, are interchangeable; so are keys, and
\* codes; tokens and identities are too.
Symmetry == Permutations(Approvers) \cup Permutations(Keys) \cup Permutations(Codes)
            \cup Permutations(Tokens) \cup Permutations(AgentIds) \cup Permutations(Renewers)
=============================================================================
