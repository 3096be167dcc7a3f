---------------------------- MODULE AdmissionInv ----------------------------
(***************************************************************************)
(* The inductive invariant of Admission, for any parameters.  It says what *)
(* a handler may still rely on when it writes, long after it read.         *)
(***************************************************************************)
EXTENDS Admission

\* An identity without a row has nothing left to act on.
Blank(a) ==
  /\ agents[a].status = "absent" => agents[a] = NoAgent /\ compared[a] = 0
  /\ agents[a].status = "purged" => agents[a] = Purged

\* A row names the token it spent, copies that token's limit, and holds a code
\* registered for its own key.  No more codes were compared than the row has counted.
Bound(a) == Exists(a) =>
  /\ agents[a].token \in Tokens
  /\ tokens[agents[a].token].state = "used"
  /\ tokens[agents[a].token].usedBy = a
  /\ tokens[agents[a].token].cap = agents[a].cap
  /\ agents[a].hash \in registered[a]
  /\ agents[a].hash.key = agents[a].key
  /\ compared[a] <= agents[a].attempts

\* The row an Approve read may be out of date, but not in its key and limits, and its code
\* was registered.
ApproveFollows(call) == call.at # "idle" =>
  /\ agents[call.agent].status # "absent"
  /\ call.row.hash \in registered[call.agent]
  /\ call.row.hash.key = call.row.key
  /\ Exists(call.agent) =>
       /\ call.row.key = agents[call.agent].key
       /\ call.row.installed = agents[call.agent].installed
       /\ call.row.cap = agents[call.agent].cap

\* A resumed enrollment carries the key of the row it read.
ResumeFollows(call) == call.at # "idle" =>
  /\ agents[call.agent].status # "absent"
  /\ Exists(call.agent) => call.key = agents[call.agent].key

\* What an approval has established about the row it wrote.
Confirmed(a) == agents[a].status = "approved" =>
  /\ agents[a].proof \in registered[a]
  /\ agents[a].proof.key = agents[a].key
  /\ CheckTier(agents[a].tier, agents[a].installed, agents[a].cap)

Inv ==
  /\ TypeOK
  /\ OneApprovedPerCluster
  /\ ComparisonsBounded
  /\ LeafOnlyWhileApproved
  /\ \A a \in AgentIds : Blank(a) /\ Bound(a) /\ Confirmed(a)
  /\ \A p \in Approvers : ApproveFollows(approving[p])
  /\ \A r \in Requesters : ResumeFollows(resuming[r])
=============================================================================
