--------------------------- MODULE AgentLifecycle ---------------------------
(***************************************************************************)
(* What the server promises about admission, without saying how: every     *)
(* agent identity walks one small state machine, a cluster is represented  *)
(* by at most one approved identity, and an end decided by a person (a     *)
(* rejection or a revocation) is for good.  Admission implements this.     *)
(***************************************************************************)
CONSTANTS AgentIds,  \* every identity the server may ever create
          Clusters,  \* cluster fingerprints
          None       \* no cluster

VARIABLES status,    \* the state of each identity
          cluster    \* the cluster each identity enrolled from

vars == <<status, cluster>>

Status == {"absent", "pending", "approved", "rejected", "revoked",
           "expired", "purged"}

\* Moves of one identity that leave the cluster it came from alone.
Move == {<<"pending", "rejected">>, <<"pending", "revoked">>,
         <<"approved", "revoked">>, <<"pending", "expired">>,
         <<"expired", "pending">>, <<"expired", "purged">>,
         <<"pending", "purged">>}

Init == /\ status = [a \in AgentIds |-> "absent"]
        /\ cluster = [a \in AgentIds |-> None]

\* A new identity asks to be let in.
Enroll(a, f) ==
  /\ status[a] = "absent"
  /\ status' = [status EXCEPT ![a] = "pending"]
  /\ cluster' = [cluster EXCEPT ![a] = f]

\* A person lets it in, as the only one of its cluster.
Approve(a) ==
  /\ status[a] = "pending"
  /\ \A b \in AgentIds : status[b] = "approved" => cluster[b] # cluster[a]
  /\ status' = [status EXCEPT ![a] = "approved"]
  /\ UNCHANGED cluster

\* Any number of identities move at once: the expiry sweep takes all that are due.  A
\* purged identity leaves nothing behind.
Advance ==
  /\ status' \in [AgentIds -> Status]
  /\ \A a \in AgentIds :
       status'[a] # status[a] => <<status[a], status'[a]>> \in Move
  /\ cluster' = [a \in AgentIds |-> IF status'[a] = "purged" THEN None ELSE cluster[a]]

Next == \/ \E a \in AgentIds, f \in Clusters : Enroll(a, f)
        \/ \E a \in AgentIds : Approve(a)
        \/ Advance

Spec == Init /\ [][Next]_vars
=============================================================================
