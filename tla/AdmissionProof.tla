--------------------------- MODULE AdmissionProof ---------------------------
(***************************************************************************)
(* Proofs about Admission, for every number of agents, tokens, handlers    *)
(* and tries: types first, then the safety properties, which follow from   *)
(* the inductive invariant of AdmissionInv.                                *)
(*                                                                         *)
(* The argument looks at one row at a time: RowChange lists all that one   *)
(* step can do to the row of one agent, and EveryRowChange shows the list  *)
(* complete.  Each part of the invariant then has one case per change.     *)
(*                                                                         *)
(* The second half is about the agents that call this server: they are     *)
(* served by Admission as it is, what they keep together fits, and an      *)
(* agent that runs once does not forget what the server waits for          *)
(* (AgentInv and OneInv of AgentIdentityInv).  It looks at one action at a *)
(* time: most either find nothing waiting or leave what waits alone.       *)
(***************************************************************************)
EXTENDS AdmissionInv, AgentIdentityInv, TLAPS

-----------------------------------------------------------------------------
\* Rows and calls: what each handler writes has the type of what it replaces.

LEMMA ZeroTier == 0 \in Tiers
BY TierAssumption DEF Tiers

LEMMA NoAgentTyped == NoAgent \in Agent
BY ZeroTier DEF NoAgent, Agent, Status

LEMMA PurgedTyped == Purged \in Agent
BY NoAgentTyped DEF Purged, Agent, Status

LEMMA SweptTyped == ASSUME NEW row \in Agent PROVE Swept(row) \in Agent
<1>1. [row EXCEPT !.status = "expired"] \in Agent
  BY DEF Agent, Status
<1> QED BY <1>1, PurgedTyped DEF Swept

LEMMA ReopenedTyped ==
  ASSUME NEW row \in Agent, NEW call \in ResumeCall
  PROVE  Reopened(row, call) \in Agent
<1>1. [code |-> call.code, key |-> call.key] \in Hashes
  BY DEF ResumeCall, Hashes
<1> HIDE DEF Hashes
<1> QED BY <1>1 DEF Reopened, ResumeCall, Agent, Status

LEMMA ApprovedTyped ==
  ASSUME NEW row \in Agent, NEW call \in ApproveCall, CodeFits(call)
  PROVE  Approved(row, call) \in Agent
<1>1. call.row \in Agent /\ call.tier \in Tiers
  BY DEF ApproveCall
<1>2. call.row.key \in Keys \cup {None} /\ call.row.hash \in Hashes \cup {None}
  BY <1>1 DEF Agent
<1>3. [code |-> call.code, key |-> call.row.key] \in Hashes \cup {None}
  BY <1>2 DEF CodeFits, Matches
<1> QED BY <1>1, <1>2, <1>3, ZenonT(40) DEF Approved, Agent, Status

\* A handler that is under way carries a call of its kind.
LEMMA CallsTyped ==
  ASSUME TypeOK
  PROVE  /\ \A p \in Approvers : approving[p].at # "idle" => approving[p] \in ApproveCall
         /\ \A r \in Requesters : resuming[r].at # "idle" => resuming[r] \in ResumeCall
         /\ \A r \in Renewers : renewing[r].at # "idle" => renewing[r] \in RenewCall
<1>1. Idle.at = "idle"
  BY DEF Idle
<1> QED BY <1>1 DEF TypeOK

-----------------------------------------------------------------------------
\* Type correctness

LEMMA TypeInit == Init => TypeOK
<1> SUFFICES ASSUME Init PROVE TypeOK
  OBVIOUS
<1>1. NoToken \in Token
  BY ZeroTier DEF NoToken, Token
<1> QED BY <1>1, NoAgentTyped DEF Init, TypeOK

LEMMA SweepTyped == TypeOK /\ Sweep => agents' \in [AgentIds -> Agent]
BY SweptTyped DEF Sweep, TypeOK

LEMMA TypeTokenStep == TypeOK /\ TokenStep => TypeOK'
<1> SUFFICES ASSUME TypeOK, TokenStep PROVE TypeOK'
  OBVIOUS
<1> PICK t \in Tokens :
         \/ \E tier \in Tiers, f \in Clusters \cup {None} : CreateToken(t, tier, f)
         \/ DeleteToken(t)
         \/ TokenLapses(t)
  BY DEF TokenStep
<1>1. tokens' \in [Tokens -> Token]
  <2>1. ASSUME NEW tier \in Tiers, NEW f \in Clusters \cup {None}, CreateToken(t, tier, f)
        PROVE  tokens' \in [Tokens -> Token]
    <3>1. [NoToken EXCEPT !.state = "unused", !.cap = tier, !.for = f] \in Token
      BY DEF NoToken, Token
    <3> QED BY <2>1, <3>1 DEF CreateToken, TypeOK
  <2>2. ASSUME DeleteToken(t) PROVE tokens' \in [Tokens -> Token]
    BY <2>2 DEF DeleteToken, TypeOK, Token
  <2>3. ASSUME TokenLapses(t) PROVE tokens' \in [Tokens -> Token]
    <3>1. tokens[t] \in Token
      BY DEF TypeOK
    <3>2. [tokens[t] EXCEPT !.lapsed = TRUE] \in Token
      BY <3>1 DEF Token
    <3>3. tokens' = [tokens EXCEPT ![t] = [tokens[t] EXCEPT !.lapsed = TRUE]]
      BY <2>3 DEF TokenLapses
    <3> QED BY <3>2, <3>3 DEF TypeOK
  <2> QED BY <2>1, <2>2, <2>3
<1>2. UNCHANGED <<agents, calls, history>>
  BY DEF CreateToken, DeleteToken, TokenLapses
<1> QED BY <1>1, <1>2 DEF TypeOK, calls, history

LEMMA TypeEnrollStep == TypeOK /\ EnrollStep => TypeOK'
<1> SUFFICES ASSUME TypeOK, EnrollStep PROVE TypeOK'
  OBVIOUS
<1> PICK t \in Tokens, a \in AgentIds, f \in Clusters, k \in Keys, c \in Codes, s \in Secrets :
         \/ \E installed \in Tiers : EnrollAgent(t, a, f, k, c, s, installed)
         \/ \E r \in Requesters : ResumeRead(r, t, a, f, k, c, s)
  BY DEF EnrollStep
<1>1. ASSUME NEW installed \in Tiers, EnrollAgent(t, a, f, k, c, s, installed)
      PROVE  TypeOK'
  <2>1. tokens[t] \in Token /\ tokens[t].cap \in Tiers
    BY DEF TypeOK, Token
  <2>2. [code |-> c, key |-> k] \in Hashes
    BY DEF Hashes
  <2>3. [NoAgent EXCEPT !.status = "pending", !.token = t, !.fingerprint = f,
                        !.key = k, !.hash = [code |-> c, key |-> k],
                        !.secret = s, !.installed = installed,
                        !.cap = tokens[t].cap] \in Agent
    BY <2>1, <2>2, NoAgentTyped DEF Agent, Status
  <2>4. [tokens[t] EXCEPT !.state = "used", !.usedBy = a] \in Token
    BY <2>1 DEF Token
  <2>5. tokens' \in [Tokens -> Token]
    BY <1>1, <2>4 DEF EnrollAgent, TypeOK
  <2>6. agents' \in [AgentIds -> Agent]
    BY <1>1, <2>3 DEF EnrollAgent, TypeOK
  <2>7. registered' \in [AgentIds -> SUBSET Hashes]
    BY <1>1, <2>2 DEF EnrollAgent, TypeOK
  <2> QED BY <1>1, <2>5, <2>6, <2>7 DEF EnrollAgent, TypeOK, calls
<1>2. ASSUME NEW r \in Requesters, ResumeRead(r, t, a, f, k, c, s) PROVE TypeOK'
  <2>1. resuming' \in [Requesters -> ResumeCall \cup {Idle}]
    BY <1>2 DEF ResumeRead, TypeOK, ResumeCall
  <2> QED BY <1>2, <2>1 DEF ResumeRead, TypeOK, history
<1> QED BY <1>1, <1>2

LEMMA TypeResumeStep == TypeOK /\ ResumeStep => TypeOK'
<1> SUFFICES ASSUME TypeOK, ResumeStep PROVE TypeOK'
  OBVIOUS
<1> PICK r \in Requesters : ResumeExpire(r) \/ ResumeWrite(r) \/ ResumeRefused(r)
  BY DEF ResumeStep
<1>1. resuming[r] \in ResumeCall
  BY CallsTyped DEF ResumeExpire, ResumeWrite, ResumeRefused
<1>2. CASE ResumeExpire(r)
  <2>1. [resuming[r] EXCEPT !.at = "write", !.reopen = TRUE] \in ResumeCall
    BY <1>1 DEF ResumeCall
  <2>2. resuming' \in [Requesters -> ResumeCall \cup {Idle}]
    BY <1>2, <2>1 DEF ResumeExpire, TypeOK
  <2> QED BY <1>2, <2>2, SweepTyped DEF ResumeExpire, TypeOK, history
<1>3. CASE ResumeWrite(r)
  <2> DEFINE call == resuming[r]
  <2>1. call.agent \in AgentIds /\ call.secret \in Secrets
    BY <1>1 DEF ResumeCall
  <2>2. [code |-> call.code, key |-> call.key] \in Hashes
    BY <1>1 DEF ResumeCall, Hashes
  <2>3. [agents[call.agent] EXCEPT !.secret = call.secret] \in Agent
    BY <2>1 DEF TypeOK, Agent
  <2>4. Reopened(agents[call.agent], call) \in Agent
    BY <1>1, <2>1, ReopenedTyped DEF TypeOK
  <2>5. agents' \in [AgentIds -> Agent]
    BY <1>3, <2>1, <2>3, <2>4 DEF ResumeWrite, TypeOK
  <2>6. registered' \in [AgentIds -> SUBSET Hashes] /\ compared' \in [AgentIds -> Nat]
    BY <1>3, <2>1, <2>2 DEF ResumeWrite, TypeOK, history
  <2>7. resuming' \in [Requesters -> ResumeCall \cup {Idle}]
    BY <1>3 DEF ResumeWrite, TypeOK
  <2> QED BY <1>3, <2>5, <2>6, <2>7 DEF ResumeWrite, TypeOK
<1>4. CASE ResumeRefused(r)
  <2>1. resuming' \in [Requesters -> ResumeCall \cup {Idle}]
    BY <1>4 DEF ResumeRefused, TypeOK
  <2> QED BY <1>4, <2>1 DEF ResumeRefused, TypeOK, history
<1> QED BY <1>2, <1>3, <1>4

LEMMA TypeApproveStep == TypeOK /\ ApproveStep => TypeOK'
<1> SUFFICES ASSUME TypeOK, ApproveStep PROVE TypeOK'
  OBVIOUS
<1> PICK p \in Approvers :
         \/ \E a \in AgentIds, code \in Codes, tier \in Tiers : ApproveRead(p, a, code, tier)
         \/ ApproveCount(p) \/ ApproveWrite(p) \/ ApproveLocks(p) \/ ApproveRefused(p)
  BY DEF ApproveStep
<1> DEFINE call == approving[p]
<1>0. ASSUME call.at # "idle"
      PROVE  call \in ApproveCall /\ call.agent \in AgentIds
  BY <1>0, CallsTyped DEF ApproveCall
<1>1. ASSUME NEW a \in AgentIds, NEW code \in Codes, NEW tier \in Tiers,
             ApproveRead(p, a, code, tier)
      PROVE  TypeOK'
  <2>1. [at |-> "read", agent |-> a, row |-> agents[a], code |-> code, tier |-> tier,
         n |-> 0] \in ApproveCall
    BY DEF ApproveCall, TypeOK
  <2>2. approving' \in [Approvers -> ApproveCall \cup {Idle}]
    BY <1>1, <2>1 DEF ApproveRead, TypeOK
  <2> QED BY <1>1, <2>2 DEF ApproveRead, TypeOK, history
<1>2. CASE ApproveCount(p)
  <2>1. call \in ApproveCall /\ call.agent \in AgentIds
    BY <1>0, <1>2 DEF ApproveCount
  <2> DEFINE n == agents[call.agent].attempts + 1
  <2>2. n \in Nat
    BY <2>1 DEF TypeOK, Agent
  <2>3. [call EXCEPT !.at = "counted", !.n = n] \in ApproveCall
    BY <2>1, <2>2 DEF ApproveCall
  <2>4. [agents[call.agent] EXCEPT !.attempts = n] \in Agent
    <3>1. agents[call.agent] \in Agent
      BY <2>1 DEF TypeOK
    <3> QED BY <2>2, <3>1 DEF Agent
  <2>5. agents' = [agents EXCEPT ![call.agent].attempts = n]
    BY <1>2 DEF ApproveCount
  <2>6. compared' \in [AgentIds -> Nat]
    BY <1>2, <2>1 DEF ApproveCount, TypeOK
  <2>7. approving' = [approving EXCEPT ![p] =
          IF n > MaxApprovalAttempts THEN Idle ELSE [call EXCEPT !.at = "counted", !.n = n]]
    BY <1>2 DEF ApproveCount
  <2> HIDE DEF n, call
  <2>8. agents' \in [AgentIds -> Agent]
    BY <2>1, <2>4, <2>5 DEF TypeOK
  <2>9. approving' \in [Approvers -> ApproveCall \cup {Idle}]
    BY <2>3, <2>7 DEF TypeOK
  <2> QED BY <1>2, <2>6, <2>8, <2>9 DEF ApproveCount, TypeOK
<1>3. CASE ApproveWrite(p)
  <2>1. call \in ApproveCall /\ call.agent \in AgentIds /\ CodeFits(call)
    BY <1>0, <1>3 DEF ApproveWrite
  <2>2. Approved(agents[call.agent], call) \in Agent
    BY <2>1, ApprovedTyped DEF TypeOK
  <2>3. agents' \in [AgentIds -> Agent]
    BY <1>3, <2>1, <2>2 DEF ApproveWrite, TypeOK
  <2>4. approving' \in [Approvers -> ApproveCall \cup {Idle}]
    BY <1>3 DEF ApproveWrite, TypeOK
  <2> QED BY <1>3, <2>3, <2>4 DEF ApproveWrite, TypeOK, history
<1>4. CASE ApproveLocks(p)
  <2>1. agents[call.agent] \in Agent
    BY <1>0, <1>4 DEF ApproveLocks, TypeOK
  <2>2. [agents[call.agent] EXCEPT !.status = "rejected"] \in Agent
    BY <2>1 DEF Agent, Status
  <2>3. agents' \in [AgentIds -> Agent]
    BY <1>4, <2>2 DEF ApproveLocks, TypeOK
  <2>4. approving' \in [Approvers -> ApproveCall \cup {Idle}]
    BY <1>4 DEF ApproveLocks, TypeOK
  <2> QED BY <1>4, <2>3, <2>4 DEF ApproveLocks, TypeOK, history
<1>5. CASE ApproveRefused(p)
  <2>1. approving' \in [Approvers -> ApproveCall \cup {Idle}]
    BY <1>5 DEF ApproveRefused, TypeOK
  <2> QED BY <1>5, <2>1 DEF ApproveRefused, TypeOK, history
<1> QED BY <1>1, <1>2, <1>3, <1>4, <1>5

LEMMA TypeRenewStep == TypeOK /\ RenewStep => TypeOK'
<1> SUFFICES ASSUME TypeOK, RenewStep PROVE TypeOK'
  OBVIOUS
<1> PICK r \in Renewers :
         \/ \E a \in AgentIds, k \in Keys, clears \in BOOLEAN : RenewRead(r, a, k, clears)
         \/ SetLeaf(r) \/ RenewRefused(r) \/ RenewClears(r)
  BY DEF RenewStep
<1> DEFINE call == renewing[r]
<1>0. ASSUME call.at # "idle"
      PROVE  call \in RenewCall /\ call.agent \in AgentIds /\ call.key \in Keys
  BY <1>0, CallsTyped DEF RenewCall
<1>1. ASSUME NEW a \in AgentIds, NEW k \in Keys, NEW clears \in BOOLEAN,
             RenewRead(r, a, k, clears)
      PROVE  TypeOK'
  <2>1. renewing' \in [Renewers -> RenewCall \cup {Idle}]
    BY <1>1 DEF RenewRead, TypeOK, RenewCall
  <2> QED BY <1>1, <2>1 DEF RenewRead, TypeOK, history
<1>2. CASE SetLeaf(r)
  <2>1. call \in RenewCall /\ call.agent \in AgentIds /\ call.key \in Keys
    BY <1>0, <1>2 DEF SetLeaf
  <2>0. agents[call.agent] \in Agent
    BY <2>1 DEF TypeOK
  <2>2. [agents[call.agent] EXCEPT !.leaf = call.key] \in Agent
    BY <2>0, <2>1 DEF Agent
  <2>3. [call EXCEPT !.at = "clear"] \in RenewCall
    BY <2>1 DEF RenewCall
  <2>4. agents' \in [AgentIds -> Agent]
    BY <1>2, <2>1, <2>2 DEF SetLeaf, TypeOK
  <2>5. renewing' \in [Renewers -> RenewCall \cup {Idle}]
    BY <1>2, <2>3 DEF SetLeaf, TypeOK
  <2> QED BY <1>2, <2>4, <2>5 DEF SetLeaf, TypeOK, history
<1>3. CASE RenewRefused(r)
  <2>1. renewing' \in [Renewers -> RenewCall \cup {Idle}]
    BY <1>3 DEF RenewRefused, TypeOK
  <2> QED BY <1>3, <2>1 DEF RenewRefused, TypeOK, history
<1>4. CASE RenewClears(r)
  <2>1. call.agent \in AgentIds
    BY <1>0, <1>4 DEF RenewClears
  <2>2. [agents[call.agent] EXCEPT !.secret = None] \in Agent
    BY <2>1 DEF TypeOK, Agent
  <2>3. agents' \in [AgentIds -> Agent]
    BY <1>4, <2>1, <2>2 DEF RenewClears, TypeOK
  <2>4. renewing' \in [Renewers -> RenewCall \cup {Idle}]
    BY <1>4 DEF RenewClears, TypeOK
  <2> QED BY <1>4, <2>3, <2>4 DEF RenewClears, TypeOK, history
<1> QED BY <1>1, <1>2, <1>3, <1>4

LEMMA TypeRowStep == TypeOK /\ RowStep => TypeOK'
<1> SUFFICES ASSUME TypeOK, RowStep PROVE TypeOK'
  OBVIOUS
<1> PICK a \in AgentIds : Reject(a) \/ Revoke(a) \/ ClearPollSecret(a) \/ Ages(a)
  BY DEF RowStep
<1>1. agents[a] \in Agent
  BY DEF TypeOK
<1>2. /\ [agents[a] EXCEPT !.status = "rejected"] \in Agent
      /\ [agents[a] EXCEPT !.status = "revoked", !.leaf = None] \in Agent
      /\ [agents[a] EXCEPT !.secret = None] \in Agent
  <2>1. [agents[a] EXCEPT !.status = "rejected"] \in Agent
    BY <1>1 DEF Agent, Status
  <2>2. [agents[a] EXCEPT !.status = "revoked", !.leaf = None] \in Agent
    BY <1>1 DEF Agent, Status
  <2>3. [agents[a] EXCEPT !.secret = None] \in Agent
    BY <1>1 DEF Agent
  <2> QED BY <2>1, <2>2, <2>3
<1>3. [agents[a] EXCEPT !.age = IF agents[a].age = "fresh" THEN "overdue" ELSE "stale"] \in Agent
  BY <1>1 DEF Agent
<1>4. agents' \in [AgentIds -> Agent]
  BY <1>2, <1>3 DEF Reject, Revoke, ClearPollSecret, Ages, TypeOK
<1> QED BY <1>4 DEF Reject, Revoke, ClearPollSecret, Ages, TypeOK, calls, history

LEMMA TypeStep == TypeOK /\ [Next]_vars => TypeOK'
<1> SUFFICES ASSUME TypeOK, [Next]_vars PROVE TypeOK'
  OBVIOUS
<1>1. CASE ExpirePending
  BY <1>1, SweepTyped DEF ExpirePending, TypeOK, calls, history
<1>2. CASE UNCHANGED vars
  BY <1>2 DEF vars, TypeOK
<1> QED BY <1>1, <1>2, TypeTokenStep, TypeEnrollStep, TypeResumeStep, TypeApproveStep,
           TypeRenewStep, TypeRowStep DEF Next

\* Whatever requests arrive and however their handlers interleave, the tables and the
\* handlers' calls keep their types (the whole of Admission).
THEOREM TypeCorrect == Spec => []TypeOK
BY TypeInit, TypeStep, PTL DEF Spec

-----------------------------------------------------------------------------
\* What one step can do to the row of one agent.

HistoryStays(a) == compared'[a] = compared[a] /\ registered'[a] = registered[a]

RowRejected(a) ==
  /\ agents[a].status = "pending"
  /\ agents'[a] = [agents[a] EXCEPT !.status = "rejected"]
RowRevoked(a) ==
  /\ agents[a].status \in {"approved", "pending"}
  /\ agents'[a] = [agents[a] EXCEPT !.status = "revoked", !.leaf = None]
RowGetsLeaf(a) ==
  /\ agents[a].status = "approved"
  /\ \E k \in Keys : agents'[a] = [agents[a] EXCEPT !.leaf = k]
RowGetsSecret(a) ==
  /\ agents[a].status \in {"pending", "approved"}
  /\ \E s \in Secrets : agents'[a] = [agents[a] EXCEPT !.secret = s]
RowLosesSecret(a) == agents'[a] = [agents[a] EXCEPT !.secret = None]
RowAges(a) ==
  /\ agents[a].status \in {"pending", "expired"}
  /\ agents'[a] = [agents[a] EXCEPT !.age = IF @ = "fresh" THEN "overdue" ELSE "stale"]
RowApproved(a) ==
  \E p \in Approvers : approving[p].agent = a /\ ApproveWrite(p)

RowEnrolled(a) ==
  \E t \in Tokens, f \in Clusters, k \in Keys, c \in Codes, s \in Secrets, i \in Tiers :
    EnrollAgent(t, a, f, k, c, s, i)
RowReopened(a) ==
  \E r \in Requesters :
    LET call == resuming[r] IN
    /\ call \in ResumeCall
    /\ call.at # "idle"
    /\ call.agent = a
    /\ agents[a].status = "expired"
    /\ agents'[a] = Reopened(agents[a], call)
    /\ compared'[a] = 0
    /\ registered'[a] = registered[a] \cup {[code |-> call.code, key |-> call.key]}
RowCounted(a) ==
  LET n == agents[a].attempts + 1 IN
  /\ agents[a].status = "pending"
  /\ agents'[a] = [agents[a] EXCEPT !.attempts = n]
  /\ compared'[a] = IF n > MaxApprovalAttempts THEN compared[a] ELSE compared[a] + 1
  /\ registered'[a] = registered[a]

RowChange(a) ==
  \/ /\ HistoryStays(a)
     /\ \/ agents'[a] = agents[a]
        \/ agents'[a] = Swept(agents[a])
        \/ RowRejected(a) \/ RowRevoked(a) \/ RowGetsLeaf(a)
        \/ RowGetsSecret(a) \/ RowLosesSecret(a) \/ RowAges(a) \/ RowApproved(a)
  \/ RowEnrolled(a) \/ RowReopened(a) \/ RowCounted(a)

-----------------------------------------------------------------------------
\* One step, one row.

LEMMA RowChangeByToken ==
  ASSUME TypeOK, TokenStep, NEW a \in AgentIds PROVE RowChange(a)
BY DEF TokenStep, CreateToken, DeleteToken, TokenLapses, history, RowChange, HistoryStays

LEMMA RowChangeByEnroll ==
  ASSUME TypeOK, EnrollStep, NEW a \in AgentIds PROVE RowChange(a)
<1> PICK t \in Tokens, b \in AgentIds, f \in Clusters, k \in Keys, c \in Codes, s \in Secrets :
         \/ \E i \in Tiers : EnrollAgent(t, b, f, k, c, s, i)
         \/ \E r \in Requesters : ResumeRead(r, t, b, f, k, c, s)
  BY DEF EnrollStep
<1>1. CASE \E r \in Requesters : ResumeRead(r, t, b, f, k, c, s)
  BY <1>1 DEF ResumeRead, history, RowChange, HistoryStays
<1>2. ASSUME NEW i \in Tiers, EnrollAgent(t, b, f, k, c, s, i) PROVE RowChange(a)
  <2>1. CASE a = b
    BY <1>2, <2>1 DEF RowChange, RowEnrolled
  <2>2. CASE a # b
    BY <1>2, <2>2 DEF EnrollAgent, TypeOK, RowChange, HistoryStays
  <2> QED BY <2>1, <2>2
<1> QED BY <1>1, <1>2

LEMMA RowChangeByResume ==
  ASSUME TypeOK, ResumeStep, NEW a \in AgentIds PROVE RowChange(a)
<1> PICK r \in Requesters : ResumeExpire(r) \/ ResumeWrite(r) \/ ResumeRefused(r)
  BY DEF ResumeStep
<1>1. CASE ResumeExpire(r)
  BY <1>1 DEF ResumeExpire, Sweep, history, RowChange, HistoryStays
<1>2. CASE ResumeRefused(r)
  BY <1>2 DEF ResumeRefused, history, RowChange, HistoryStays
<1>3. CASE ResumeWrite(r)
  <2> DEFINE call == resuming[r]
  <2>1. call \in ResumeCall /\ call.at # "idle" /\ call.at = "write"
    BY <1>3, CallsTyped DEF ResumeWrite
  <2>2. call.agent \in AgentIds /\ call.secret \in Secrets
    BY <2>1 DEF ResumeCall
  <2>3. CASE a # call.agent
    BY <1>3, <2>2, <2>3 DEF ResumeWrite, TypeOK, history, RowChange, HistoryStays
  <2>4. CASE a = call.agent /\ call.reopen
    <3>1. /\ agents'[a] = Reopened(agents[a], call)
          /\ compared'[a] = 0
          /\ registered'[a] = registered[a] \cup {[code |-> call.code, key |-> call.key]}
      BY <1>3, <2>4 DEF ResumeWrite, TypeOK
    <3>2. agents[a].status = "expired"
      BY <1>3, <2>4 DEF ResumeWrite, ResumeAllowed, ReopenAllowed
    <3> QED BY <2>1, <2>4, <3>1, <3>2 DEF RowReopened, RowChange
  <2>5. CASE a = call.agent /\ ~call.reopen
    <3>1. agents'[a] = [agents[a] EXCEPT !.secret = call.secret] /\ HistoryStays(a)
      BY <1>3, <2>5 DEF ResumeWrite, TypeOK, history, HistoryStays
    <3>2. agents[a].status \in {"pending", "approved"}
      BY <1>3, <2>5 DEF ResumeWrite, ResumeAllowed, ContinueAllowed
    <3> QED BY <2>2, <3>1, <3>2 DEF RowGetsSecret, RowChange
  <2> QED BY <2>3, <2>4, <2>5
<1> QED BY <1>1, <1>2, <1>3

LEMMA RowChangeByApprove ==
  ASSUME TypeOK, ApproveStep, NEW a \in AgentIds PROVE RowChange(a)
<1> PICK p \in Approvers :
         \/ \E b \in AgentIds, code \in Codes, tier \in Tiers : ApproveRead(p, b, code, tier)
         \/ ApproveCount(p) \/ ApproveWrite(p) \/ ApproveLocks(p) \/ ApproveRefused(p)
  BY DEF ApproveStep
<1> DEFINE b == approving[p].agent
<1>1. CASE \E c \in AgentIds, code \in Codes, tier \in Tiers : ApproveRead(p, c, code, tier)
  BY <1>1 DEF ApproveRead, history, RowChange, HistoryStays
<1>2. CASE ApproveRefused(p)
  BY <1>2 DEF ApproveRefused, history, RowChange, HistoryStays
<1>3. CASE ApproveCount(p)
  <2> DEFINE n == agents[b].attempts + 1
  <2>0. /\ agents[b].status = "pending"
        /\ agents' = [agents EXCEPT ![b].attempts = n]
        /\ compared' = [compared EXCEPT ![b] = IF n > MaxApprovalAttempts THEN @ ELSE @ + 1]
        /\ registered' = registered
    BY <1>3 DEF ApproveCount
  <2> HIDE DEF b
  <2>1. CASE a # b
    BY <2>0, <2>1 DEF TypeOK, RowChange, HistoryStays
  <2>2. CASE a = b
    BY <2>0, <2>2 DEF TypeOK, RowCounted, RowChange
  <2> QED BY <2>1, <2>2
<1>4. CASE ApproveWrite(p)
  <2>0. HistoryStays(a)
    BY <1>4 DEF ApproveWrite, history, HistoryStays
  <2>1. CASE a # b
    BY <1>4, <2>0, <2>1 DEF ApproveWrite, TypeOK, RowChange
  <2>2. CASE a = b
    BY <1>4, <2>0, <2>2 DEF RowApproved, RowChange
  <2> QED BY <2>1, <2>2
<1>5. CASE ApproveLocks(p)
  <2>0. /\ agents[b].status = "pending"
        /\ agents' = [agents EXCEPT ![b].status = "rejected"]
        /\ HistoryStays(a)
    BY <1>5 DEF ApproveLocks, history, HistoryStays
  <2> HIDE DEF b
  <2>1. CASE a # b
    BY <2>0, <2>1 DEF TypeOK, RowChange
  <2>2. CASE a = b
    BY <2>0, <2>2 DEF TypeOK, RowRejected, RowChange
  <2> QED BY <2>1, <2>2
<1> QED BY <1>1, <1>2, <1>3, <1>4, <1>5

LEMMA RowChangeByRenew ==
  ASSUME TypeOK, RenewStep, NEW a \in AgentIds PROVE RowChange(a)
<1> PICK r \in Renewers :
         \/ \E b \in AgentIds, k \in Keys, clears \in BOOLEAN : RenewRead(r, b, k, clears)
         \/ SetLeaf(r) \/ RenewRefused(r) \/ RenewClears(r)
  BY DEF RenewStep
<1> DEFINE b == renewing[r].agent
           k == renewing[r].key
<1>1. CASE \E c \in AgentIds, x \in Keys, clears \in BOOLEAN : RenewRead(r, c, x, clears)
  BY <1>1 DEF RenewRead, history, RowChange, HistoryStays
<1>2. CASE RenewRefused(r)
  BY <1>2 DEF RenewRefused, history, RowChange, HistoryStays
<1>3. CASE SetLeaf(r)
  <2>0. /\ k \in Keys
        /\ agents[b].status = "approved"
        /\ agents' = [agents EXCEPT ![b].leaf = k]
        /\ HistoryStays(a)
    BY <1>3, CallsTyped DEF SetLeaf, SetLeafAllowed, RenewCall, history, HistoryStays
  <2> HIDE DEF b, k
  <2>1. CASE a # b
    BY <2>0, <2>1 DEF TypeOK, RowChange
  <2>2. CASE a = b
    BY <2>0, <2>2 DEF TypeOK, RowGetsLeaf, RowChange
  <2> QED BY <2>1, <2>2
<1>4. CASE RenewClears(r)
  <2>0. agents' = [agents EXCEPT ![b].secret = None] /\ HistoryStays(a)
    BY <1>4 DEF RenewClears, history, HistoryStays
  <2> HIDE DEF b, k
  <2>1. CASE a # b
    BY <2>0, <2>1 DEF TypeOK, RowChange
  <2>2. CASE a = b
    BY <2>0, <2>2 DEF TypeOK, RowLosesSecret, RowChange
  <2> QED BY <2>1, <2>2
<1> QED BY <1>1, <1>2, <1>3, <1>4

LEMMA RowChangeByRow ==
  ASSUME TypeOK, RowStep, NEW a \in AgentIds PROVE RowChange(a)
<1> PICK b \in AgentIds : Reject(b) \/ Revoke(b) \/ ClearPollSecret(b) \/ Ages(b)
  BY DEF RowStep
<1>0. HistoryStays(a)
  BY DEF Reject, Revoke, ClearPollSecret, Ages, history, HistoryStays
<1>1. CASE a # b
  <2>1. agents'[a] = agents[a]
    BY <1>1 DEF Reject, Revoke, ClearPollSecret, Ages, TypeOK
  <2> QED BY <1>0, <2>1 DEF RowChange
<1>2. CASE a = b
  <2>1. RowRejected(a) \/ RowRevoked(a) \/ RowLosesSecret(a) \/ RowAges(a)
    BY <1>2 DEF Reject, Revoke, ClearPollSecret, Ages, TypeOK,
                RowRejected, RowRevoked, RowLosesSecret, RowAges
  <2> QED BY <1>0, <2>1 DEF RowChange
<1> QED BY <1>1, <1>2

LEMMA EveryRowChange ==
  ASSUME TypeOK, [Next]_vars, NEW a \in AgentIds PROVE RowChange(a)
<1>1. CASE ExpirePending
  BY <1>1 DEF ExpirePending, Sweep, history, RowChange, HistoryStays
<1>2. CASE UNCHANGED vars
  BY <1>2 DEF vars, RowChange, HistoryStays
<1> QED BY <1>1, <1>2, RowChangeByToken, RowChangeByEnroll, RowChangeByResume,
           RowChangeByApprove, RowChangeByRenew, RowChangeByRow DEF Next

-----------------------------------------------------------------------------
\* The parts of the invariant that speak of one row.

\* A token that was used stays as it is.
LEMMA UsedTokenStays ==
  ASSUME TypeOK, [Next]_vars, NEW t \in Tokens, tokens[t].state = "used"
  PROVE  tokens'[t] = tokens[t]
<1>1. CASE TokenStep
  BY <1>1 DEF TokenStep, CreateToken, DeleteToken, TokenLapses, TypeOK
<1>2. CASE EnrollStep
  <2> PICK u \in Tokens, a \in AgentIds, f \in Clusters, k \in Keys, c \in Codes, s \in Secrets :
           \/ \E i \in Tiers : EnrollAgent(u, a, f, k, c, s, i)
           \/ \E r \in Requesters : ResumeRead(r, u, a, f, k, c, s)
    BY <1>2 DEF EnrollStep
  <2>1. CASE \E r \in Requesters : ResumeRead(r, u, a, f, k, c, s)
    BY <2>1 DEF ResumeRead
  <2>2. ASSUME NEW i \in Tiers, EnrollAgent(u, a, f, k, c, s, i)
        PROVE  tokens'[t] = tokens[t]
    BY <2>2 DEF EnrollAgent, TokenValid, TypeOK
  <2> QED BY <2>1, <2>2
<1>3. CASE ResumeStep
  BY <1>3 DEF ResumeStep, ResumeExpire, ResumeWrite, ResumeRefused
<1>4. CASE ApproveStep
  BY <1>4 DEF ApproveStep, ApproveRead, ApproveCount, ApproveWrite, ApproveLocks, ApproveRefused
<1>5. CASE RenewStep
  BY <1>5 DEF RenewStep, RenewRead, SetLeaf, RenewRefused, RenewClears
<1>6. CASE RowStep
  BY <1>6 DEF RowStep, Reject, Revoke, ClearPollSecret, Ages
<1>7. CASE ExpirePending
  BY <1>7 DEF ExpirePending
<1>8. CASE UNCHANGED vars
  BY <1>8 DEF vars
<1> QED BY <1>1, <1>2, <1>3, <1>4, <1>5, <1>6, <1>7, <1>8 DEF Next

\* Codes that were registered stay registered.
LEMMA RegisteredGrows ==
  ASSUME TypeOK, NEW a \in AgentIds, RowChange(a)
  PROVE  registered[a] \subseteq registered'[a]
<1>1. CASE RowEnrolled(a)
  BY <1>1 DEF RowEnrolled, EnrollAgent, TypeOK
<1>2. CASE RowReopened(a)
  BY <1>2 DEF RowReopened
<1> QED BY <1>1, <1>2 DEF RowChange, HistoryStays, RowCounted

\* A row that is there keeps its key, cluster, token and limits, or goes altogether.
LEMMA RowKeeps ==
  ASSUME TypeOK, NEW a \in AgentIds, RowChange(a), agents[a].status # "absent",
         \A r \in Requesters : ResumeFollows(resuming[r])
  PROVE  \/ agents'[a] = Purged
         \/ /\ agents[a].status # "purged" => agents'[a].status \notin {"absent", "purged"}
            /\ agents[a].status = "purged" => agents'[a].status = "purged"
            /\ agents'[a].key = agents[a].key
            /\ agents'[a].fingerprint = agents[a].fingerprint
            /\ agents'[a].token = agents[a].token
            /\ agents'[a].installed = agents[a].installed
            /\ agents'[a].cap = agents[a].cap
<1>0. agents[a] \in Agent
  BY DEF TypeOK
<1>1. CASE RowReopened(a)
  <2> PICK r \in Requesters :
         /\ resuming[r].at # "idle" /\ resuming[r].agent = a /\ agents[a].status = "expired"
         /\ agents'[a] = Reopened(agents[a], resuming[r])
    BY <1>1 DEF RowReopened
  <2>1. resuming[r].key = agents[a].key
    BY DEF ResumeFollows, Exists
  <2> QED BY <1>0, <2>1 DEF Reopened, Agent
<1>2. CASE RowApproved(a)
  <2> PICK p \in Approvers : approving[p].agent = a /\ ApproveWrite(p)
    BY <1>2 DEF RowApproved
  <2>1. agents'[a] = Approved(agents[a], approving[p]) /\ agents[a].status = "pending"
    BY DEF ApproveWrite, TypeOK
  <2> QED BY <1>0, <2>1 DEF Approved, Agent
<1>3. CASE agents'[a] = Swept(agents[a])
  BY <1>0, <1>3 DEF Swept, Overdue, Agent
<1>4. ~RowEnrolled(a)
  BY ZenonT(40) DEF RowEnrolled, EnrollAgent
<1> QED BY <1>0, <1>1, <1>2, <1>3, <1>4 DEF RowChange, RowCounted, RowRejected, RowRevoked,
           RowGetsLeaf, RowGetsSecret, RowLosesSecret, RowAges, Agent

\* A row that stays keeps its code's hash unless it is reopened, and its count of attempts
\* unless an attempt is counted.
LEMMA RowKeepsCode ==
  ASSUME TypeOK, NEW a \in AgentIds, RowChange(a), Exists(a), Exists(a)', ~RowReopened(a)
  PROVE  /\ agents'[a].hash = agents[a].hash
         /\ ~RowCounted(a) => agents'[a].attempts = agents[a].attempts
<1>0. agents[a] \in Agent
  BY DEF TypeOK
<1>1. CASE RowApproved(a)
  <2> PICK p \in Approvers : approving[p].agent = a /\ ApproveWrite(p)
    BY <1>1 DEF RowApproved
  <2>1. agents'[a] = Approved(agents[a], approving[p])
    BY DEF ApproveWrite, TypeOK
  <2> QED BY <1>0, <2>1 DEF Approved, Agent
<1>2. CASE agents'[a] = Swept(agents[a])
  <2>1. agents'[a] = agents[a] \/ agents'[a] = [agents[a] EXCEPT !.status = "expired"]
    BY <1>2 DEF Swept, Exists, Purged, NoAgent
  <2> QED BY <1>0, <2>1 DEF Agent
<1>3. ~RowEnrolled(a)
  BY DEF Exists, RowEnrolled, EnrollAgent
<1> QED BY <1>0, <1>1, <1>2, <1>3 DEF RowChange, RowCounted, RowRejected, RowRevoked,
           RowGetsLeaf, RowGetsSecret, RowLosesSecret, RowAges, Agent

\* An absent row only changes by being enrolled.
LEMMA AbsentStays ==
  ASSUME TypeOK, NEW a \in AgentIds, RowChange(a), agents[a].status = "absent",
         agents[a] = NoAgent, ~RowEnrolled(a)
  PROVE  agents'[a] = NoAgent /\ compared'[a] = compared[a]
<1>1. ~RowApproved(a)
  BY DEF RowApproved, ApproveWrite
<1> QED BY <1>1 DEF RowChange, HistoryStays, Swept, Overdue, NoAgent, RowRejected, RowRevoked, RowGetsLeaf,
           RowGetsSecret, RowLosesSecret, RowAges, RowReopened, RowCounted

LEMMA InvInit == Init => Inv
<1> SUFFICES ASSUME Init PROVE Inv
  OBVIOUS
<1>1. \A a \in AgentIds : agents[a] = NoAgent /\ compared[a] = 0
  BY DEF Init
<1>2. NoAgent.status = "absent" /\ NoAgent.leaf = None
  BY DEF NoAgent
<1>3. Idle.at = "idle"
  BY DEF Idle
<1>4. TypeOK
  BY TypeInit
<1>5. \A a \in AgentIds : Blank(a) /\ Bound(a) /\ Confirmed(a)
  BY <1>1, <1>2 DEF Blank, Bound, Exists, Confirmed
<1>6. OneApprovedPerCluster /\ LeafOnlyWhileApproved
  BY <1>1, <1>2 DEF OneApprovedPerCluster, LeafOnlyWhileApproved
<1>7. ComparisonsBounded
  BY <1>1, AttemptsAssumption DEF ComparisonsBounded
<1> QED BY <1>3, <1>4, <1>5, <1>6, <1>7 DEF Init, Inv, ApproveFollows, ResumeFollows

LEMMA BlankStep ==
  ASSUME Inv, NEW a \in AgentIds, RowChange(a)
  PROVE  Blank(a)'
<1>0. agents[a] \in Agent
  BY DEF Inv, TypeOK
<1>1. CASE RowEnrolled(a)
  <2>1. agents'[a].status = "pending"
    BY <1>0, <1>1 DEF RowEnrolled, EnrollAgent, NoAgent, Inv, TypeOK
  <2> QED BY <2>1 DEF Blank
<1>2. CASE agents[a].status = "absent" /\ ~RowEnrolled(a)
  <2>1. agents'[a] = NoAgent /\ compared'[a] = 0
    BY <1>2, AbsentStays DEF Inv, Blank
  <2> QED BY <2>1 DEF Blank, NoAgent
<1>3. CASE agents[a].status = "purged" /\ ~RowEnrolled(a)
  <2>1. agents[a] = Purged /\ Purged.status = "purged" /\ Purged.secret = None
    BY <1>3 DEF Inv, Blank, Purged, NoAgent
  <2>2. ~RowApproved(a)
    BY <1>3 DEF RowApproved, ApproveWrite
  <2>3. [Purged EXCEPT !.secret = None] = Purged
    BY <2>1, PurgedTyped DEF Agent
  <2>4. Swept(Purged) = Purged
    BY <2>1 DEF Swept, Overdue
  <2>5. agents'[a] = Purged
    BY <1>3, <2>1, <2>2, <2>3, <2>4 DEF RowChange, RowRejected, RowRevoked, RowGetsLeaf,
       RowGetsSecret, RowLosesSecret, RowAges, RowReopened, RowCounted
  <2> QED BY <2>1, <2>5 DEF Blank
<1>4. CASE agents[a].status \notin {"absent", "purged"} /\ ~RowEnrolled(a)
  <2>1. agents'[a] = Purged \/ agents'[a].status \notin {"absent", "purged"}
    BY <1>4, RowKeeps DEF Inv
  <2> QED BY <2>1 DEF Blank, Purged, NoAgent
<1> QED BY <1>1, <1>2, <1>3, <1>4

LEMMA BoundStep ==
  ASSUME Inv, [Next]_vars, NEW a \in AgentIds
  PROVE  Bound(a)'
<1>0. agents[a] \in Agent /\ RowChange(a)
  BY EveryRowChange DEF Inv, TypeOK
<1>1. CASE RowEnrolled(a)
  <2> PICK t \in Tokens, f \in Clusters, k \in Keys, c \in Codes, s \in Secrets, i \in Tiers :
           EnrollAgent(t, a, f, k, c, s, i)
    BY <1>1 DEF RowEnrolled
  <2>1. /\ agents'[a].token = t /\ agents'[a].cap = tokens[t].cap
        /\ agents'[a].hash = [code |-> c, key |-> k] /\ agents'[a].key = k
        /\ agents'[a].attempts = 0
    BY DEF EnrollAgent, Inv, TypeOK, NoAgent
  <2>2. tokens[t] \in Token /\ tokens'[t] = [tokens[t] EXCEPT !.state = "used", !.usedBy = a]
    BY DEF EnrollAgent, Inv, TypeOK
  <2>3. tokens'[t].state = "used" /\ tokens'[t].usedBy = a /\ tokens'[t].cap = tokens[t].cap
    BY <2>2 DEF Token
  <2>4. [code |-> c, key |-> k] \in registered'[a]
    BY DEF EnrollAgent, Inv, TypeOK
  <2>5. compared'[a] = 0
    BY DEF EnrollAgent, Inv, Blank
  <2> QED BY <2>1, <2>3, <2>4, <2>5 DEF Bound
<1>2. CASE ~RowEnrolled(a) /\ Exists(a)'
  <2>1. Exists(a) /\ Bound(a)
    BY <1>0, <1>2, BlankStep, AbsentStays, RowKeeps DEF Inv, Blank, Exists, NoAgent, Purged
  <2>2. /\ agents'[a].key = agents[a].key /\ agents'[a].token = agents[a].token
        /\ agents'[a].cap = agents[a].cap
    BY <1>0, <1>2, <2>1, RowKeeps DEF Inv, Exists, Purged, NoAgent
  <2>3. tokens'[agents[a].token] = tokens[agents[a].token]
    BY <2>1, UsedTokenStays DEF Inv, Bound
  <2>4. agents'[a].hash \in registered'[a] /\ agents'[a].hash.key = agents[a].key
    <3>1. CASE RowReopened(a)
      <4> PICK r \in Requesters :
             /\ resuming[r].at # "idle" /\ resuming[r].agent = a
             /\ agents'[a] = Reopened(agents[a], resuming[r])
             /\ registered'[a] = registered[a] \cup
                   {[code |-> resuming[r].code, key |-> resuming[r].key]}
        BY <3>1 DEF RowReopened
      <4>1. resuming[r].key = agents[a].key
        BY <2>1 DEF Inv, ResumeFollows
      <4>2. agents'[a].hash = [code |-> resuming[r].code, key |-> resuming[r].key]
        BY <1>0 DEF Reopened, Agent
      <4> QED BY <4>1, <4>2
    <3>2. CASE ~RowReopened(a)
      <4>1. agents'[a].hash = agents[a].hash
        BY <1>0, <1>2, <2>1, <3>2, RowKeepsCode DEF Inv
      <4> QED BY <1>0, <2>1, <4>1, RegisteredGrows DEF Inv, Bound
    <3> QED BY <3>1, <3>2
  <2>5. compared'[a] <= agents'[a].attempts
    <3>1. compared[a] \in Nat /\ agents[a].attempts \in Nat /\ compared[a] <= agents[a].attempts
      BY <1>0, <2>1 DEF Bound, Inv, TypeOK, Agent
    <3>2. CASE RowReopened(a)
      BY <1>0, <3>2 DEF RowReopened, Reopened, Agent
    <3>3. CASE RowCounted(a)
      BY <1>0, <3>1, <3>3 DEF RowCounted, Agent
    <3>4. CASE ~RowReopened(a) /\ ~RowCounted(a)
      <4>1. agents'[a].attempts = agents[a].attempts
        BY <1>0, <1>2, <2>1, <3>4, RowKeepsCode DEF Inv
      <4> QED BY <1>0, <1>2, <3>1, <3>4, <4>1 DEF RowChange, HistoryStays
    <3> QED BY <3>2, <3>3, <3>4
  <2> QED BY <2>1, <2>2, <2>3, <2>4, <2>5 DEF Bound
<1>3. CASE ~Exists(a)'
  BY <1>3 DEF Bound
<1> QED BY <1>1, <1>2, <1>3

\* Nothing but an approval makes a row approved, and only a pending row without a leaf.
LEMMA ApprovedBefore ==
  ASSUME TypeOK, NEW a \in AgentIds, RowChange(a), ~RowApproved(a),
         agents'[a].status = "approved"
  PROVE  agents[a].status = "approved"
<1>0. agents[a] \in Agent
  BY DEF TypeOK
<1>1. ~RowReopened(a)
  BY <1>0 DEF RowReopened, Reopened, Agent
<1>2. ~RowEnrolled(a)
  <2> SUFFICES ASSUME NEW t \in Tokens, NEW f \in Clusters, NEW k \in Keys, NEW c \in Codes,
                      NEW s \in Secrets, NEW i \in Tiers, EnrollAgent(t, a, f, k, c, s, i)
               PROVE  FALSE
    BY DEF RowEnrolled
  <2>1. agents'[a].status = "pending"
    BY DEF EnrollAgent, NoAgent, TypeOK
  <2> QED BY <2>1
<1>3. CASE agents'[a] = Swept(agents[a])
  BY <1>0, <1>3 DEF Swept, Overdue, Purged, NoAgent, Agent
<1> QED BY <1>0, <1>1, <1>2, <1>3 DEF RowChange, RowCounted, RowRejected, RowRevoked,
           RowGetsLeaf, RowGetsSecret, RowLosesSecret, RowAges, Agent

LEMMA ConfirmedStep ==
  ASSUME Inv, [Next]_vars, NEW a \in AgentIds
  PROVE  Confirmed(a)'
<1> SUFFICES ASSUME agents'[a].status = "approved"
             PROVE  /\ agents'[a].proof \in registered'[a]
                    /\ agents'[a].proof.key = agents'[a].key
                    /\ CheckTier(agents'[a].tier, agents'[a].installed, agents'[a].cap)
  BY DEF Confirmed, CheckTier
<1>0. agents[a] \in Agent /\ RowChange(a)
  BY EveryRowChange DEF Inv, TypeOK
<1>1. CASE RowApproved(a)
  <2> PICK p \in Approvers : approving[p].agent = a /\ ApproveWrite(p)
    BY <1>1 DEF RowApproved
  <2> DEFINE call == approving[p]
  <2>1. /\ agents'[a] = Approved(agents[a], call)
        /\ CodeFits(call) /\ TierFits(call) /\ agents[a].status = "pending"
        /\ registered' = registered
        /\ call.at = "counted"
    BY DEF ApproveWrite, Inv, TypeOK, history
  <2>2. ApproveFollows(call) /\ Exists(a)
    BY <2>1 DEF Inv, Exists
  <2>3. /\ call.row.hash \in registered[a] /\ call.row.hash.key = call.row.key
        /\ call.row.key = agents[a].key
        /\ call.row.installed = agents[a].installed
        /\ call.row.cap = agents[a].cap
    BY <2>1, <2>2 DEF ApproveFollows
  <2>4. /\ agents'[a].proof = [code |-> call.code, key |-> call.row.key]
        /\ agents'[a].tier = call.tier /\ agents'[a].key = agents[a].key
        /\ agents'[a].installed = agents[a].installed /\ agents'[a].cap = agents[a].cap
    BY <1>0, <2>1 DEF Approved, Agent
  <2>5. call.row.hash = [code |-> call.code, key |-> call.row.key]
    BY <2>1 DEF CodeFits, Matches
  <2>6. CheckTier(call.tier, call.row.installed, call.row.cap)
    BY <2>1 DEF TierFits
  <2> QED BY <2>1, <2>3, <2>4, <2>5, <2>6
<1>2. CASE ~RowApproved(a)
  <2>1. agents[a].status = "approved"
    BY <1>0, <1>2, ApprovedBefore DEF Inv
  <2>2. Confirmed(a) /\ ~RowReopened(a) /\ ~RowEnrolled(a) /\ ~RowCounted(a)
    BY <2>1 DEF Inv, RowReopened, RowEnrolled, EnrollAgent, RowCounted
  <2>3. CASE agents'[a] = Swept(agents[a])
    <3>1. agents'[a] = agents[a]
      BY <2>1, <2>3 DEF Swept, Overdue
    <3> QED BY <1>0, <2>1, <2>2, <3>1, RegisteredGrows DEF Confirmed, Inv
  <2>4. CASE agents'[a] # Swept(agents[a])
    <3>1. /\ agents'[a].proof = agents[a].proof /\ agents'[a].key = agents[a].key
          /\ agents'[a].tier = agents[a].tier
          /\ agents'[a].installed = agents[a].installed /\ agents'[a].cap = agents[a].cap
      BY <1>0, <1>2, <2>1, <2>2, <2>4 DEF RowChange, RowRejected, RowRevoked, RowGetsLeaf,
         RowGetsSecret, RowLosesSecret, RowAges, Agent
    <3> QED BY <1>0, <2>1, <2>2, <3>1, RegisteredGrows DEF Confirmed, Inv
  <2> QED BY <2>3, <2>4
<1> QED BY <1>1, <1>2

LEMMA LeafStep == Inv /\ [Next]_vars => LeafOnlyWhileApproved'
<1> SUFFICES ASSUME Inv, [Next]_vars, NEW a \in AgentIds, agents'[a].leaf # None
             PROVE  agents'[a].status = "approved"
  BY DEF LeafOnlyWhileApproved
<1>0. agents[a] \in Agent /\ RowChange(a)
  BY EveryRowChange DEF Inv, TypeOK
<1>1. agents[a].leaf # None => agents[a].status = "approved"
  BY DEF Inv, LeafOnlyWhileApproved
<1>2. CASE RowApproved(a)
  <2> PICK p \in Approvers : approving[p].agent = a /\ ApproveWrite(p)
    BY <1>2 DEF RowApproved
  <2>1. agents'[a] = Approved(agents[a], approving[p])
    BY DEF ApproveWrite, Inv, TypeOK
  <2> QED BY <1>0, <2>1 DEF Approved, Agent
<1>3. CASE RowReopened(a)
  <2>1. agents'[a].leaf = agents[a].leaf /\ agents[a].status = "expired"
    BY <1>0, <1>3 DEF RowReopened, Reopened, Agent
  <2> QED BY <1>1, <2>1
<1>4. CASE RowEnrolled(a)
  BY <1>4 DEF RowEnrolled, EnrollAgent, NoAgent, Inv, TypeOK
<1>5. CASE agents'[a] = Swept(agents[a])
  BY <1>0, <1>1, <1>5 DEF Swept, Overdue, Purged, NoAgent, Agent
<1> QED BY <1>0, <1>1, <1>2, <1>3, <1>4, <1>5 DEF RowChange, RowCounted, RowRejected,
           RowRevoked, RowGetsLeaf, RowGetsSecret, RowLosesSecret, RowAges, Agent

LEMMA ComparisonsStep == Inv /\ [Next]_vars => ComparisonsBounded'
<1> SUFFICES ASSUME Inv, [Next]_vars, NEW a \in AgentIds
             PROVE  compared'[a] <= MaxApprovalAttempts
  BY DEF ComparisonsBounded
<1>0. /\ agents[a] \in Agent /\ RowChange(a)
      /\ compared[a] \in Nat /\ compared[a] <= MaxApprovalAttempts
  BY EveryRowChange DEF Inv, TypeOK, ComparisonsBounded
<1>1. CASE RowCounted(a)
  <2>1. compared[a] <= agents[a].attempts /\ agents[a].attempts \in Nat
    BY <1>0, <1>1 DEF Inv, Bound, Exists, RowCounted, Agent
  <2>2. compared'[a] = IF agents[a].attempts + 1 > MaxApprovalAttempts
                       THEN compared[a] ELSE compared[a] + 1
    BY <1>1 DEF RowCounted
  <2> QED BY <1>0, <2>1, <2>2, AttemptsAssumption
<1>2. CASE RowReopened(a)
  BY <1>2, AttemptsAssumption DEF RowReopened
<1>3. CASE RowEnrolled(a)
  BY <1>0, <1>3 DEF RowEnrolled, EnrollAgent
<1> QED BY <1>0, <1>1, <1>2, <1>3 DEF RowChange, HistoryStays

LEMMA OneApprovedStep == Inv /\ [Next]_vars => OneApprovedPerCluster'
<1> SUFFICES ASSUME Inv, [Next]_vars, NEW a \in AgentIds, NEW b \in AgentIds,
                    agents'[a].status = "approved", agents'[b].status = "approved",
                    agents'[a].fingerprint = agents'[b].fingerprint, a # b
             PROVE  FALSE
  BY DEF OneApprovedPerCluster
<1>1. RowChange(a) /\ RowChange(b)
  BY EveryRowChange DEF Inv
<1>2. ASSUME NEW c \in AgentIds, RowChange(c), ~RowApproved(c), agents'[c].status = "approved"
      PROVE  agents[c].status = "approved" /\ agents'[c].fingerprint = agents[c].fingerprint
  <2>1. agents[c].status = "approved"
    BY <1>2, ApprovedBefore DEF Inv
  <2>2. agents'[c].fingerprint = agents[c].fingerprint
    BY <1>2, <2>1, RowKeeps DEF Inv, Purged, NoAgent
  <2> QED BY <2>1, <2>2
<1>3. ASSUME NEW c \in AgentIds, NEW d \in AgentIds, c # d, RowApproved(c),
             RowChange(d), agents'[d].status = "approved",
             agents'[c].fingerprint = agents'[d].fingerprint
      PROVE  FALSE
  <2> PICK p \in Approvers : approving[p].agent = c /\ ApproveWrite(p)
    BY <1>3 DEF RowApproved
  <2>1. /\ agents'[c].fingerprint = agents[c].fingerprint
        /\ agents'[d] = agents[d]
        /\ ClusterFree(c)
    BY <1>3 DEF ApproveWrite, Approved, Inv, TypeOK, Agent
  <2> QED BY <1>3, <2>1 DEF ClusterFree
<1>4. CASE RowApproved(a)
  BY <1>1, <1>3, <1>4
<1>5. CASE RowApproved(b)
  BY <1>1, <1>3, <1>5
<1>6. CASE ~RowApproved(a) /\ ~RowApproved(b)
  BY <1>1, <1>2, <1>6 DEF Inv, OneApprovedPerCluster
<1> QED BY <1>4, <1>5, <1>6

-----------------------------------------------------------------------------
\* The parts that speak of a handler under way.

\* Which steps touch the handlers' calls.
LEMMA OnlyApproveStep ==
  ASSUME [Next]_vars PROVE ApproveStep \/ approving' = approving
<1>1. CASE TokenStep
  BY <1>1 DEF TokenStep, CreateToken, DeleteToken, TokenLapses, calls
<1>2. CASE EnrollStep
  <2> PICK t \in Tokens, a \in AgentIds, f \in Clusters, k \in Keys, c \in Codes, s \in Secrets :
           \/ \E i \in Tiers : EnrollAgent(t, a, f, k, c, s, i)
           \/ \E r \in Requesters : ResumeRead(r, t, a, f, k, c, s)
    BY <1>2 DEF EnrollStep
  <2>1. CASE \E i \in Tiers : EnrollAgent(t, a, f, k, c, s, i)
    BY <2>1 DEF EnrollAgent, calls
  <2>2. CASE \E r \in Requesters : ResumeRead(r, t, a, f, k, c, s)
    BY <2>2 DEF ResumeRead
  <2> QED BY <2>1, <2>2
<1>3. CASE ResumeStep
  BY <1>3 DEF ResumeStep, ResumeExpire, ResumeWrite, ResumeRefused
<1>4. CASE RenewStep
  BY <1>4 DEF RenewStep, RenewRead, SetLeaf, RenewRefused, RenewClears
<1>5. CASE RowStep
  BY <1>5 DEF RowStep, Reject, Revoke, ClearPollSecret, Ages, calls
<1>6. CASE ExpirePending \/ UNCHANGED vars
  BY <1>6 DEF ExpirePending, calls, vars
<1> QED BY <1>1, <1>2, <1>3, <1>4, <1>5, <1>6 DEF Next

LEMMA OnlyResumeStep ==
  ASSUME [Next]_vars
  PROVE  \/ ResumeStep
         \/ resuming' = resuming
         \/ \E q \in Requesters, t \in Tokens, a \in AgentIds, f \in Clusters, k \in Keys,
              c \in Codes, s \in Secrets : ResumeRead(q, t, a, f, k, c, s)
<1>1. CASE TokenStep
  BY <1>1 DEF TokenStep, CreateToken, DeleteToken, TokenLapses, calls
<1>2. CASE EnrollStep
  <2> PICK t \in Tokens, a \in AgentIds, f \in Clusters, k \in Keys, c \in Codes, s \in Secrets :
           \/ \E i \in Tiers : EnrollAgent(t, a, f, k, c, s, i)
           \/ \E r \in Requesters : ResumeRead(r, t, a, f, k, c, s)
    BY <1>2 DEF EnrollStep
  <2>1. CASE \E i \in Tiers : EnrollAgent(t, a, f, k, c, s, i)
    BY <2>1 DEF EnrollAgent, calls
  <2>2. CASE \E r \in Requesters : ResumeRead(r, t, a, f, k, c, s)
    BY <2>2
  <2> QED BY <2>1, <2>2
<1>3. CASE ApproveStep
  BY <1>3 DEF ApproveStep, ApproveRead, ApproveCount, ApproveWrite, ApproveLocks, ApproveRefused
<1>4. CASE RenewStep
  BY <1>4 DEF RenewStep, RenewRead, SetLeaf, RenewRefused, RenewClears
<1>5. CASE RowStep
  BY <1>5 DEF RowStep, Reject, Revoke, ClearPollSecret, Ages, calls
<1>6. CASE ExpirePending \/ UNCHANGED vars
  BY <1>6 DEF ExpirePending, calls, vars
<1> QED BY <1>1, <1>2, <1>3, <1>4, <1>5, <1>6 DEF Next

LEMMA ApproveFollowsStep ==
  ASSUME Inv, [Next]_vars, NEW p \in Approvers
  PROVE  ApproveFollows(approving[p])'
<1> DEFINE call == approving[p]
           new == approving'[p]
<1>1. \/ new = Idle
      \/ /\ call.at # "idle" /\ new.at # "idle"
         /\ new.agent = call.agent /\ new.row = call.row
      \/ (call = Idle /\ new = call)
      \/ /\ new.agent \in AgentIds /\ agents[new.agent].status = "pending"
         /\ new.row = agents[new.agent] /\ agents' = agents /\ registered' = registered
  <2>1. CASE ApproveStep
    <3> PICK q \in Approvers :
           \/ \E a \in AgentIds, code \in Codes, tier \in Tiers : ApproveRead(q, a, code, tier)
           \/ ApproveCount(q) \/ ApproveWrite(q) \/ ApproveLocks(q) \/ ApproveRefused(q)
      BY <2>1 DEF ApproveStep
    <3>0. call = Idle \/ (call \in ApproveCall /\ call.at # "idle")
      BY DEF Inv, TypeOK, ApproveCall
    <3>1. CASE q # p
      <4>1. new = call
        BY <3>1 DEF ApproveRead, ApproveCount, ApproveWrite, ApproveLocks, ApproveRefused,
                    Inv, TypeOK
      <4> QED BY <3>0, <4>1
    <3>2. CASE q = p
      <4>1. ASSUME NEW a \in AgentIds, NEW code \in Codes, NEW tier \in Tiers,
                   ApproveRead(p, a, code, tier)
            PROVE  /\ new.agent = a /\ agents[a].status = "pending"
                   /\ new.row = agents[a] /\ agents' = agents /\ registered' = registered
        BY <4>1 DEF ApproveRead, Inv, TypeOK, history
      <4>2. CASE ApproveCount(p)
        <5>1. call \in ApproveCall /\ call.at # "idle"
          BY <4>2, CallsTyped DEF ApproveCount, Inv
        <5>2. new = Idle \/ \E n \in Nat : new = [call EXCEPT !.at = "counted", !.n = n]
          <6>1. agents[call.agent].attempts + 1 \in Nat
            BY <5>1 DEF ApproveCall, Inv, TypeOK, Agent
          <6> QED BY <4>2, <6>1 DEF ApproveCount, Inv, TypeOK
        <5> QED BY <5>1, <5>2 DEF ApproveCall
      <4>3. CASE ApproveWrite(p) \/ ApproveLocks(p) \/ ApproveRefused(p)
        BY <4>3 DEF ApproveWrite, ApproveLocks, ApproveRefused, Inv, TypeOK
      <4> QED BY <3>2, <4>1, <4>2, <4>3
    <3> QED BY <3>1, <3>2
  <2>2. CASE ~ApproveStep
    <3>1. approving' = approving
      BY <2>2, OnlyApproveStep
    <3> QED BY <3>1 DEF Inv, TypeOK, ApproveCall
  <2> QED BY <2>1, <2>2
<1>2. CASE new = Idle
  BY <1>2 DEF ApproveFollows, Idle
<1>3. CASE call = Idle /\ new = call
  BY <1>3 DEF ApproveFollows, Idle
<1>4. CASE call.at # "idle" /\ new.agent = call.agent /\ new.row = call.row
  <2>1. call.agent \in AgentIds /\ RowChange(call.agent)
    BY <1>4, CallsTyped, EveryRowChange DEF Inv, ApproveCall
  <2>2. ApproveFollows(call)
    BY DEF Inv
  <2>3. registered[call.agent] \subseteq registered'[call.agent]
    BY <2>1, RegisteredGrows DEF Inv
  <2>4. agents'[call.agent].status # "absent"
    BY <1>4, <2>1, <2>2, RowKeeps DEF Inv, ApproveFollows, Purged, NoAgent
  <2>5. Exists(call.agent)' =>
          /\ call.row.key = agents'[call.agent].key
          /\ call.row.installed = agents'[call.agent].installed
          /\ call.row.cap = agents'[call.agent].cap
    BY <1>4, <2>1, <2>2, RowKeeps DEF Inv, ApproveFollows, Exists, Purged, NoAgent
  <2> QED BY <1>4, <2>2, <2>3, <2>4, <2>5 DEF ApproveFollows, Exists
<1>5. CASE /\ new.agent \in AgentIds /\ agents[new.agent].status = "pending"
           /\ new.row = agents[new.agent] /\ agents' = agents /\ registered' = registered
  <2>1. Bound(new.agent) /\ Exists(new.agent)
    BY <1>5 DEF Inv, Exists
  <2> QED BY <1>5, <2>1 DEF Bound, ApproveFollows, Exists
<1> QED BY <1>1, <1>2, <1>3, <1>4, <1>5

LEMMA ResumeFollowsStep ==
  ASSUME Inv, [Next]_vars, NEW r \in Requesters
  PROVE  ResumeFollows(resuming[r])'
<1> DEFINE call == resuming[r]
           new == resuming'[r]
<1>1. \/ new = Idle
      \/ (call.at # "idle" /\ new.agent = call.agent /\ new.key = call.key)
      \/ (call = Idle /\ new = call)
      \/ /\ new.agent \in AgentIds /\ Exists(new.agent)
         /\ new.key = agents[new.agent].key /\ agents' = agents
  <2>0. call = Idle \/ (call \in ResumeCall /\ call.at # "idle")
    BY DEF Inv, TypeOK, ResumeCall
  <2>1. CASE ResumeStep
    <3> PICK q \in Requesters : ResumeExpire(q) \/ ResumeWrite(q) \/ ResumeRefused(q)
      BY <2>1 DEF ResumeStep
    <3>1. CASE q # r
      <4>1. new = call
        BY <3>1 DEF ResumeExpire, ResumeWrite, ResumeRefused, Inv, TypeOK
      <4> QED BY <2>0, <4>1
    <3>2. CASE q = r /\ ResumeExpire(r)
      <4>1. call.at # "idle"
        BY <3>2 DEF ResumeExpire
      <4>2. new = [call EXCEPT !.at = "write", !.reopen = TRUE]
        BY <3>2 DEF ResumeExpire, Inv, TypeOK
      <4> QED BY <2>0, <4>1, <4>2 DEF Idle, ResumeCall
    <3>3. CASE q = r /\ (ResumeWrite(r) \/ ResumeRefused(r))
      BY <3>3 DEF ResumeWrite, ResumeRefused, Inv, TypeOK
    <3> QED BY <3>1, <3>2, <3>3
  <2>2. ASSUME NEW q \in Requesters, NEW t \in Tokens, NEW a \in AgentIds, NEW f \in Clusters,
               NEW k \in Keys, NEW c \in Codes, NEW s \in Secrets,
               ResumeRead(q, t, a, f, k, c, s)
        PROVE  <1>1!:
    <3>1. CASE q # r
      BY <2>0, <2>2, <3>1 DEF ResumeRead, Inv, TypeOK
    <3>2. CASE q = r
      BY <2>2, <3>2 DEF ResumeRead, SameEnrollment, Inv, TypeOK
    <3> QED BY <3>1, <3>2
  <2>3. CASE resuming' = resuming
    BY <2>0, <2>3
  <2>4. \/ resuming' = resuming \/ ResumeStep
        \/ \E q \in Requesters, t \in Tokens, a \in AgentIds, f \in Clusters, k \in Keys,
              c \in Codes, s \in Secrets : ResumeRead(q, t, a, f, k, c, s)
    BY OnlyResumeStep
  <2> QED BY <2>1, <2>2, <2>3, <2>4
<1>2. CASE new = Idle \/ (call = Idle /\ new = call)
  BY <1>2 DEF ResumeFollows, Idle
<1>3. CASE call.at # "idle" /\ new.agent = call.agent /\ new.key = call.key
  <2>1. call.agent \in AgentIds /\ RowChange(call.agent)
    BY <1>3, CallsTyped, EveryRowChange DEF Inv, ResumeCall
  <2>2. ResumeFollows(call)
    BY DEF Inv
  <2> QED BY <1>3, <2>1, <2>2, RowKeeps DEF Inv, ResumeFollows, Exists, Purged, NoAgent
<1>4. CASE /\ new.agent \in AgentIds /\ Exists(new.agent)
           /\ new.key = agents[new.agent].key /\ agents' = agents
  BY <1>4 DEF ResumeFollows, Exists
<1> QED BY <1>1, <1>2, <1>3, <1>4

-----------------------------------------------------------------------------

LEMMA InvStep == Inv /\ [Next]_vars => Inv'
<1> SUFFICES ASSUME Inv, [Next]_vars PROVE Inv'
  OBVIOUS
<1>1. TypeOK'
  BY TypeStep DEF Inv
<1>2. \A a \in AgentIds : RowChange(a)
  BY EveryRowChange DEF Inv
<1> QED BY <1>1, <1>2, OneApprovedStep, ComparisonsStep, LeafStep, BlankStep, BoundStep,
           ConfirmedStep, ApproveFollowsStep, ResumeFollowsStep DEF Inv

\* The inductive invariant holds throughout, however requests and handlers interleave.
THEOREM InvCorrect == Spec => []Inv
BY InvInit, InvStep, PTL DEF Spec

\* Approvals of any number of requests at once leave one agent per cluster (ApproveAgent
\* and the index agents_one_live_per_cluster).
THEOREM OneApprovedCorrect == Spec => []OneApprovedPerCluster
<1>1. Inv => OneApprovedPerCluster
  BY DEF Inv
<1> QED BY <1>1, InvCorrect, PTL

\* Any number of parallel Approve calls compare at most MaxApprovalAttempts codes per
\* opening of a request (CountApprovalAttempt).
THEOREM ComparisonsCorrect == Spec => []ComparisonsBounded
<1>1. Inv => ComparisonsBounded
  BY DEF Inv
<1> QED BY <1>1, InvCorrect, PTL

\* No interleaving of renewals, rejoins and approvals with a revocation leaves a
\* certificate in a row that is not approved (SetLeaf, ApproveAgent, RevokeAgent).
THEOREM LeafCorrect == Spec => []LeafOnlyWhileApproved
<1>1. Inv => LeafOnlyWhileApproved
  BY DEF Inv
<1> QED BY <1>1, InvCorrect, PTL

\* An approval is never granted on a stale or foreign code (Approve).
THEOREM ConfirmedCorrect == Spec => []ConfirmedByOwnCode
<1>1. Inv => ConfirmedByOwnCode
  BY DEF Inv, Confirmed, ConfirmedByOwnCode
<1> QED BY <1>1, InvCorrect, PTL

\* An approved tier respects the release, the install and the token that was really used
\* (Approve, CheckTier).
THEOREM TierCorrect == Spec => []TierWithinLimits
<1>1. Inv => TierWithinLimits
  BY DEF Inv, Confirmed, Bound, Exists, CheckTier, TierWithinLimits
<1> QED BY <1>1, InvCorrect, PTL

\* A token and the row it let in name each other, and nobody else (EnrollAgent).
THEOREM TokenCorrect == Spec => []TokenSpentOnce
<1>1. Inv => TokenSpentOnce
  BY DEF Inv, Bound, TokenSpentOnce
<1> QED BY <1>1, InvCorrect, PTL

-----------------------------------------------------------------------------
\* What a step may never do.

LEMMA KeyIsFixedStep ==
  ASSUME Inv, [Next]_vars, NEW a \in AgentIds, Exists(a)
  PROVE  \/ agents'[a] = Purged
         \/ /\ agents'[a].key = agents[a].key
            /\ agents'[a].fingerprint = agents[a].fingerprint
<1>1. RowChange(a) /\ TypeOK /\ \A r \in Requesters : ResumeFollows(resuming[r])
  BY EveryRowChange DEF Inv
<1> QED BY <1>1, RowKeeps DEF Exists

\* As long as its row exists an agent keeps its key and its cluster (resumeEnrollment).
THEOREM KeyIsFixedCorrect == Spec => KeyIsFixed
<1>1. Inv /\ [Next]_vars =>
        [\A a \in AgentIds : Exists(a) =>
           \/ agents'[a] = Purged
           \/ /\ agents'[a].key = agents[a].key
              /\ agents'[a].fingerprint = agents[a].fingerprint]_vars
  BY KeyIsFixedStep
<1> QED BY <1>1, InvCorrect, PTL DEF Spec, KeyIsFixed

LEMMA EndIsFinalStep ==
  ASSUME Inv, [Next]_vars, NEW a \in AgentIds, agents[a].status \in {"rejected", "revoked"}
  PROVE  agents'[a] = agents[a] \/ agents'[a] = [agents[a] EXCEPT !.secret = None]
<1>1. RowChange(a)
  BY EveryRowChange DEF Inv
<1>2. ~RowEnrolled(a) /\ ~RowReopened(a) /\ ~RowApproved(a)
  BY ZenonT(40) DEF RowEnrolled, EnrollAgent, RowReopened, RowApproved, ApproveWrite
<1>3. Swept(agents[a]) = agents[a]
  BY DEF Swept, Overdue
<1> QED BY <1>1, <1>2, <1>3 DEF RowChange, RowRejected, RowRevoked, RowGetsLeaf,
           RowGetsSecret, RowLosesSecret, RowAges, RowCounted

\* A rejection or a revocation is permanent, whatever handler was under way (Reject,
\* Revoke, and every conditional update of the agents table).
THEOREM EndIsFinalCorrect == Spec => EndIsFinal
<1>1. Inv /\ [Next]_vars =>
        [\A a \in AgentIds : agents[a].status \in {"rejected", "revoked"} =>
           \/ agents'[a] = agents[a]
           \/ agents'[a] = [agents[a] EXCEPT !.secret = None]]_vars
  BY EndIsFinalStep
<1> QED BY <1>1, InvCorrect, PTL DEF Spec, EndIsFinal

-----------------------------------------------------------------------------
\* The server implements the abstract life cycle.

StatusNow == [a \in AgentIds |-> agents[a].status]
ClusterNow == [a \in AgentIds |-> agents[a].fingerprint]

\* A row that is neither enrolled nor approved moves as the life cycle allows.
LEMMA RowAdvances ==
  ASSUME Inv, NEW a \in AgentIds, RowChange(a), ~RowEnrolled(a), ~RowApproved(a)
  PROVE  /\ agents'[a].status # agents[a].status =>
              <<agents[a].status, agents'[a].status>> \in Lifecycle!Move
         /\ agents'[a].fingerprint =
              IF agents'[a].status = "purged" THEN None ELSE agents[a].fingerprint
<1>0. agents[a] \in Agent
  BY DEF Inv, TypeOK
<1>1. CASE agents[a].status = "absent"
  <2>1. agents'[a] = NoAgent /\ agents[a] = NoAgent
    BY <1>1, AbsentStays DEF Inv, Blank
  <2> QED BY <2>1 DEF NoAgent
<1>2. CASE agents[a].status = "purged"
  <2>1. agents'[a] = Purged /\ agents[a] = Purged
    BY <1>2, BlankStep, RowKeeps DEF Inv, Blank, Purged, NoAgent
  <2> QED BY <2>1 DEF Purged, NoAgent
<1>3. CASE Exists(a)
  <2>1. agents'[a] = Purged \/ (/\ agents'[a].status # "purged"
                               /\ agents'[a].fingerprint = agents[a].fingerprint)
    BY <1>3, RowKeeps DEF Inv, Exists
  <2>2. /\ Purged.status = "purged"
        /\ Purged.fingerprint = None
    BY DEF Purged, NoAgent
  <2>3. CASE agents'[a] = Swept(agents[a])
    BY <1>0, <2>1, <2>2, <2>3 DEF Swept, Overdue, Lifecycle!Move, Agent
  <2>4. CASE RowReopened(a)
    BY <1>0, <2>1, <2>2, <2>4 DEF RowReopened, Reopened, Lifecycle!Move, Agent
  <2>5. CASE agents'[a] # Swept(agents[a]) /\ ~RowReopened(a)
    BY <1>0, <2>1, <2>2, <2>5 DEF RowChange, RowCounted, RowRejected, RowRevoked,
       RowGetsLeaf, RowGetsSecret, RowLosesSecret, RowAges, Lifecycle!Move, Agent
  <2> QED BY <2>3, <2>4, <2>5
<1> QED BY <1>1, <1>2, <1>3 DEF Exists

LEMMA LifecycleInit == Init => Lifecycle!Init
BY DEF Init, Lifecycle!Init, NoAgent

LEMMA LifecycleStep == Inv /\ [Next]_vars => [Lifecycle!Next]_(Lifecycle!vars)
<1> SUFFICES ASSUME Inv, [Next]_vars PROVE Lifecycle!Next
  OBVIOUS
<1>1. ASSUME NEW a \in AgentIds PROVE RowChange(a)
  BY EveryRowChange DEF Inv
<1>2. agents \in [AgentIds -> Agent] /\ agents' \in [AgentIds -> Agent]
  BY TypeStep DEF Inv, TypeOK
<1>3. ASSUME NEW a \in AgentIds, RowApproved(a) PROVE Lifecycle!Next
  <2> PICK p \in Approvers : approving[p].agent = a /\ ApproveWrite(p)
    BY <1>3 DEF RowApproved
  <2>1. /\ agents' = [agents EXCEPT ![a] = Approved(agents[a], approving[p])]
        /\ agents[a].status = "pending" /\ ClusterFree(a)
    BY DEF ApproveWrite
  <2>2. /\ Approved(agents[a], approving[p]).status = "approved"
        /\ Approved(agents[a], approving[p]).fingerprint = agents[a].fingerprint
    BY <1>2 DEF Approved, Agent
  <2>3. StatusNow' = [StatusNow EXCEPT ![a] = "approved"] /\ ClusterNow' = ClusterNow
    BY <1>2, <2>1, <2>2 DEF StatusNow, ClusterNow
  <2>4. Lifecycle!Approve(a)
    BY <2>1, <2>3 DEF Lifecycle!Approve, ClusterFree, StatusNow, ClusterNow
  <2> QED BY <2>4 DEF Lifecycle!Next
<1>4. ASSUME NEW a \in AgentIds, RowEnrolled(a) PROVE Lifecycle!Next
  <2> PICK t \in Tokens, f \in Clusters, k \in Keys, c \in Codes, s \in Secrets, i \in Tiers :
           EnrollAgent(t, a, f, k, c, s, i)
    BY <1>4 DEF RowEnrolled
  <2> DEFINE row == [NoAgent EXCEPT !.status = "pending", !.token = t, !.fingerprint = f,
                       !.key = k, !.hash = [code |-> c, key |-> k],
                       !.secret = s, !.installed = i, !.cap = tokens[t].cap]
  <2>1. agents' = [agents EXCEPT ![a] = row] /\ agents[a].status = "absent"
    BY DEF EnrollAgent
  <2>2. row.status = "pending" /\ row.fingerprint = f
    BY DEF NoAgent
  <2> HIDE DEF row
  <2>3. StatusNow' = [StatusNow EXCEPT ![a] = "pending"]
    BY <1>2, <2>1, <2>2 DEF StatusNow
  <2>4. ClusterNow' = [ClusterNow EXCEPT ![a] = f]
    BY <1>2, <2>1, <2>2 DEF ClusterNow
  <2>5. Lifecycle!Enroll(a, f)
    BY <2>1, <2>3, <2>4 DEF Lifecycle!Enroll, StatusNow, ClusterNow
  <2> QED BY <2>5 DEF Lifecycle!Next
<1>5. ASSUME \A a \in AgentIds : ~RowApproved(a) /\ ~RowEnrolled(a) PROVE Lifecycle!Next
  <2>1. \A a \in AgentIds :
          /\ agents'[a].status # agents[a].status =>
               <<agents[a].status, agents'[a].status>> \in Lifecycle!Move
          /\ agents'[a].fingerprint =
               IF agents'[a].status = "purged" THEN None ELSE agents[a].fingerprint
    BY <1>1, <1>5, RowAdvances
  <2>2. StatusNow' \in [AgentIds -> Lifecycle!Status]
    BY <1>2 DEF StatusNow, Agent, Status, Lifecycle!Status
  <2>3. \A a \in AgentIds : StatusNow'[a] # StatusNow[a] =>
                              <<StatusNow[a], StatusNow'[a]>> \in Lifecycle!Move
    BY <2>1 DEF StatusNow
  <2>4. ClusterNow' = [a \in AgentIds |-> IF StatusNow'[a] = "purged" THEN None ELSE ClusterNow[a]]
    BY <2>1 DEF StatusNow, ClusterNow
  <2>5. Lifecycle!Advance
    BY <2>2, <2>3, <2>4 DEF Lifecycle!Advance, StatusNow, ClusterNow
  <2> QED BY <2>5 DEF Lifecycle!Next
<1> QED BY <1>3, <1>4, <1>5

\* Every run of the server's handlers is a run of the abstract life cycle (the agents
\* table, read as one state machine per identity).
THEOREM RefinesLifecycle == Spec => ImplementsLifecycle
BY LifecycleInit, LifecycleStep, InvCorrect, PTL DEF Spec, ImplementsLifecycle, Lifecycle!Spec

-----------------------------------------------------------------------------
\* Identities, instances and requests: what is written has the type of what it replaces

\* The parts of AgentTypeOK that are not the server's.
AgentTyped ==
  /\ stored \in Identity
  /\ inst \in [Instances -> Instance]
  /\ renewal \in [Instances -> Renewal]
  /\ request \in [Requesters -> Request]
  /\ faults \in 0..MaxFaults

\* Identities that an instance may come to hold.
LEMMA IdentityTyped ==
  /\ Nothing \in Identity /\ Nothing.cert = None /\ Nothing.id = None
  /\ \A id \in AgentIds \cup {None} : Ended(id) \in Identity /\ Ended(id).cert = None
BY DEF Nothing, Ended, Identity

\* A request is prepared with a key and a code, and nothing else.
Prepared(k, c) == [Nothing EXCEPT !.key = k, !.code = c]

\* It has neither a certificate nor an identity.
LEMMA PreparedTyped ==
  ASSUME NEW k \in Keys \cup {None}, NEW c \in Codes
  PROVE  /\ Prepared(k, c) \in Identity /\ Prepared(k, c).key = k /\ Prepared(k, c).code = c
         /\ Prepared(k, c).cert = None /\ Prepared(k, c).id = None /\ Prepared(k, c).ended = FALSE
BY DEF Prepared, Nothing, Identity

\* Where instances, renewals and requests start and end.
LEMMA RestTyped ==
  /\ Down \in Instance /\ Down.at = "down" /\ Down.mem = Nothing
  /\ NoRenewal \in Renewal /\ NoRenewal.at = "off"
  /\ NoRequest \in Request /\ NoRequest.at = "idle" /\ NoRequest.from = None
<1>1. Nothing \in Identity
  BY IdentityTyped
<1> QED BY <1>1 DEF Down, Instance, NoRenewal, Renewal, NoRequest, Request

\* The first state.
LEMMA AgentStart == AgentInit => AgentInv
<1> SUFFICES ASSUME AgentInit PROVE AgentInv
  OBVIOUS
<1>1. /\ \A i \in Instances : inst[i] = Down /\ renewal[i] = NoRenewal
      /\ \A r \in Requesters : request[r] = NoRequest /\ resuming[r] = Idle
      /\ stored = Nothing
  BY DEF AgentInit, Init
<1>2. AgentTypeOK
  <2>1. TypeOK /\ stored \in Identity
    BY TypeInit, IdentityTyped DEF AgentInit
  <2>3. faults \in 0..MaxFaults
    BY InstallAssumption DEF AgentInit
  <2>2. inst \in [Instances -> Instance] /\ renewal \in [Instances -> Renewal] /\ request \in [Requesters -> Request]
    BY RestTyped DEF AgentInit
  <2> QED BY <2>1, <2>2, <2>3 DEF AgentTypeOK
<1>3. Idle.at = "idle"
  BY DEF Idle
<1> QED BY <1>1, <1>2, <1>3, RestTyped, IdentityTyped DEF AgentInv, RequestFits, InstanceFits, Fits

\* A step of one instance, and of what is stored.
LEMMA InstanceMoves ==
  ASSUME AgentInv, NEW i \in Instances, TypeOK', UNCHANGED <<request, resuming>>,
         stored' \in Identity, Fits(stored'), faults' \in 0..MaxFaults,
         NEW new \in Instance, inst' = [inst EXCEPT ![i] = new], NEW next \in Renewal,
         renewal' = [renewal EXCEPT ![i] = next],
         new = inst[i] \/ new.at # "asked",
         new.at \in {"poll", "connecting", "connected", "leaving"} => new.mem.id # None,
         next.at # "off" => new.at \in {"connected", "leaving"},
         Fits(new.mem)
  PROVE  AgentInv'
<1>1. /\ inst \in [Instances -> Instance] /\ renewal \in [Instances -> Renewal]
      /\ request \in [Requesters -> Request]
  BY DEF AgentInv, AgentTypeOK
<1>2. /\ inst'[i] = new /\ renewal'[i] = next
      /\ \A j \in Instances : j # i => inst'[j] = inst[j] /\ renewal'[j] = renewal[j]
      /\ inst' \in [Instances -> Instance] /\ renewal' \in [Instances -> Renewal]
  BY <1>1
<1>3. AgentTypeOK'
  BY <1>1, <1>2 DEF AgentTypeOK
<1>4. \A r \in Requesters : RequestFits(r)'
  BY DEF AgentInv, RequestFits
<1>5. InstanceFits(i)'
  BY <1>2 DEF AgentInv, InstanceFits, Fits
<1>6. \A j \in Instances : j # i => InstanceFits(j)'
  BY <1>2 DEF AgentInv, InstanceFits, Fits
<1>7. Fits(stored)'
  BY DEF Fits
<1> QED BY <1>3, <1>4, <1>5, <1>6, <1>7 DEF AgentInv

\* A step of the server on one request that is under way.
LEMMA RequestMoves ==
  ASSUME AgentInv, NEW r \in Requesters, TypeOK', UNCHANGED <<stored, inst, renewal, faults>>,
         NEW new \in Request, request' = [request EXCEPT ![r] = new],
         new.from = request[r].from,
         new.at # "idle" \/ (new = NoRequest /\ request[r].from = None),
         new.at # "idle" => new.key # None /\ new.code # None,
         new.at = "ok" => new.id # None /\ new.secret # None,
         \A q \in Requesters : q # r => resuming'[q] = resuming[q],
         resuming'[r].at # "idle" <=> new.at = "resuming",
         resuming'[r].at # "idle" => resuming'[r].key = new.key /\ resuming'[r].code = new.code
  PROVE  AgentInv'
<1>1. request \in [Requesters -> Request]
  BY DEF AgentInv, AgentTypeOK
<1>2. /\ request'[r] = new /\ \A q \in Requesters : q # r => request'[q] = request[q]
      /\ request' \in [Requesters -> Request]
  BY <1>1
<1>3. AgentTypeOK'
  BY <1>2 DEF AgentInv, AgentTypeOK
<1>4. \A q \in Requesters : RequestFits(q)'
  BY <1>2 DEF AgentInv, RequestFits
<1>5. ASSUME NEW i \in Instances PROVE InstanceFits(i)'
  <2>1. InstanceFits(i) /\ i # None
    BY InstallAssumption DEF AgentInv
  <2> QED BY <1>2, <2>1 DEF InstanceFits, Fits
<1>6. Fits(stored)'
  BY DEF AgentInv, Fits
<1> QED BY <1>3, <1>4, <1>5, <1>6 DEF AgentInv

\* A step that leaves the agent and the resumed requests alone.
LEMMA OthersMove == ASSUME AgentInv, TypeOK', UNCHANGED <<agent, resuming>> PROVE AgentInv'
BY DEF AgentInv, AgentTypeOK, agent, RequestFits, InstanceFits, Fits

-----------------------------------------------------------------------------
\* The server that an agent talks to is the one of Admission

\* The handlers of an agent's requests, and what people and time do to its row, are steps of Admission.
LEMMA ServedByAdmission == ASSUME AgentInv, [AgentNext]_allVars PROVE [Next]_vars
<1>1. /\ TypeOK /\ Instances \subseteq Renewers /\ GivenToken \in Tokens /\ Cluster \in Clusters
      /\ request \in [Requesters -> Request] /\ inst \in [Instances -> Instance]
  BY InstallAssumption DEF AgentInv, AgentTypeOK
<1>2. UNCHANGED server => UNCHANGED vars
  BY DEF server, vars
<1>3. CASE \E r \in Requesters : Serve(r)
  <2>1. PICK r \in Requesters : Serve(r)
    BY <1>3
  <2>2. request[r].at = "sent" => request[r].key \in Keys /\ request[r].code \in Codes
    BY <1>1 DEF AgentInv, RequestFits, Request
  <2>3. CASE \E a \in AgentIds, s \in Secrets : HandleFresh(r, a, s) \/ HandleResume(r, a, s)
    <3>1. PICK a \in AgentIds, s \in Secrets : HandleFresh(r, a, s) \/ HandleResume(r, a, s)
      BY <2>3
    <3>2. \/ EnrollAgent(GivenToken, a, Cluster, request[r].key, request[r].code, s, 0)
          \/ ResumeRead(r, GivenToken, a, Cluster, request[r].key, request[r].code, s)
      BY <3>1 DEF HandleFresh, HandleResume
    <3>3. request[r].key \in Keys /\ request[r].code \in Codes
      BY <2>2, <3>1 DEF HandleFresh, HandleResume
    <3>4. EnrollStep
      BY <1>1, <3>2, <3>3, ZeroTier DEF EnrollStep
    <3> QED BY <3>4 DEF Next
  <2>4. CASE HandleRefused(r) \/ Drop(r)
    BY <1>2, <2>4 DEF HandleRefused, Drop
  <2>5. CASE HandleOverdue(r) \/ HandleWritten(r) \/ HandleTooLate(r)
    BY <2>5 DEF HandleOverdue, HandleWritten, HandleTooLate, ResumeStep, Next
  <2> QED BY <2>1, <2>3, <2>4, <2>5 DEF Serve
<1>4. CASE \E i \in Instances : ServeRenewal(i)
  BY <1>1, <1>4 DEF ServeRenewal, RenewServed, RenewAnswered, RenewFails, RenewStep, Next
<1>5. CASE \E i \in Instances : Works(i)
  <2>1. PICK i \in Instances : Works(i)
    BY <1>5
  <2>2. CASE PollOverdue(i)
    BY <2>2 DEF PollOverdue, Next
  <2>3. CASE Connect(i)
    <3>1. inst[i].mem.id \in AgentIds
      BY <1>1, <2>3 DEF Connect, AgentInv, InstanceFits, Instance, Identity
    <3>2. RowStep
      BY <2>3, <3>1 DEF Connect, RowStep
    <3> QED BY <3>2 DEF Next
  <2>4. CASE ~PollOverdue(i) /\ ~Connect(i)
    BY <1>2, <2>1, <2>4 DEF Works, Start, Enrolled, EnrollRefused, Prepare, Ask, PollUnknown, PollApproved,
                            PollRejected, PollExpired, ConnectRefused, ToldRevoked, Leave, RenewSave
  <2> QED BY <2>2, <2>3, <2>4
<1>6. CASE Happens
  <2>1. CASE \/ CreateToken(GivenToken, 0, None) \/ TokenLapses(GivenToken) \/ ApproveStep
             \/ \E a \in AgentIds : Reject(a) \/ Revoke(a) \/ Ages(a)
             \/ ExpirePending
    BY <1>1, <2>1, ZeroTier DEF Next, TokenStep, RowStep
  <2>2. CASE \E i \in Instances : Crash(i) \/ EnrollLost(i) \/ Disconnect(i) \/ RenewLost(i)
    BY <1>2, <2>2 DEF Crash, EnrollLost, Disconnect, RenewLost
  <2>3. CASE \E i \in Instances, k \in Keys : RenewAsk(i, k)
    <3>1. PICK i \in Instances, k \in Keys : RenewAsk(i, k)
      BY <2>3
    <3>2. inst[i].mem.id \in AgentIds
      BY <1>1, <3>1 DEF RenewAsk, AgentInv, InstanceFits, Instance, Identity
    <3>3. RenewRead(i, inst[i].mem.id, k, TRUE)
      BY <3>1 DEF RenewAsk
    <3>4. RenewStep
      BY <1>1, <3>2, <3>3 DEF RenewStep
    <3> QED BY <3>4 DEF Next
  <2> QED BY <1>6, <2>1, <2>2, <2>3 DEF Happens
<1>7. CASE UNCHANGED allVars
  BY <1>2, <1>7 DEF allVars
<1> QED BY <1>3, <1>4, <1>5, <1>6, <1>7 DEF AgentNext

-----------------------------------------------------------------------------
\* AgentInv is inductive

\* What an instance and its renewal consist of.
LEMMA AgentFacts ==
  ASSUME AgentInv
  PROVE  /\ TypeOK /\ stored \in Identity /\ Fits(stored) /\ faults \in 0..MaxFaults
         /\ inst \in [Instances -> Instance] /\ renewal \in [Instances -> Renewal]
         /\ request \in [Requesters -> Request]
         /\ \A i \in Instances : /\ inst[i] \in Instance /\ inst[i].mem \in Identity /\ InstanceFits(i)
                                 /\ renewal[i] \in Renewal
         /\ \A r \in Requesters : request[r] \in Request /\ RequestFits(r)
BY DEF AgentInv, AgentTypeOK, Instance

\* An identity without a certificate has nothing to fit.
LEMMA NoCertFits == ASSUME NEW identity, identity.cert = None PROVE Fits(identity)
BY DEF Fits

\* An instance goes on to another place.
LEMMA PlaceTyped ==
  ASSUME NEW x \in Instance, NEW place \in {"down", "send", "asked", "poll", "connecting", "connected", "leaving"}
  PROVE  /\ [x EXCEPT !.at = place] \in Instance /\ [x EXCEPT !.at = place].at = place
         /\ [x EXCEPT !.at = place].mem = x.mem
BY DEF Instance

\* Or takes over another identity.
LEMMA MemoryTyped ==
  ASSUME NEW x \in Instance, NEW next \in Identity
  PROVE  /\ [x EXCEPT !.mem = next] \in Instance /\ [x EXCEPT !.mem = next].at = x.at
         /\ [x EXCEPT !.mem = next].mem = next
BY DEF Instance

\* An instance starts with what is stored.
LEMMA StartKeeps == ASSUME AgentInv, NEW i \in Instances, TypeOK', Start(i) PROVE AgentInv'
<1> DEFINE new == [at |-> CASE stored.cert # None -> "connecting"
                            [] stored.cert = None /\ stored.id # None -> "poll"
                            [] OTHER -> "send",
                   mem |-> stored, via |-> None]
<1>1. /\ inst' = [inst EXCEPT ![i] = new] /\ inst[i].at = "down"
      /\ UNCHANGED <<server, stored, renewal, request, faults>>
  BY DEF Start
<1>2. new \in Instance /\ new.mem = stored
  BY AgentFacts DEF Instance
<1>3. new.at = "send" \/ (new.at \in {"poll", "connecting"} /\ stored.id # None)
  BY AgentFacts DEF Fits
<1>4. renewal' = [renewal EXCEPT ![i] = renewal[i]] /\ renewal[i].at = "off"
  BY <1>1, AgentFacts DEF InstanceFits
<1> HIDE DEF new
<1> QED BY <1>1, <1>2, <1>3, <1>4, AgentFacts, InstanceMoves DEF server

\* It prepares a request.
LEMMA PrepareFacts ==
  ASSUME AgentInv, NEW i \in Instances, NEW k \in Keys, NEW c \in Codes, Prepare(i, k, c)
  PROVE  \E key \in Keys \cup {None} :
           /\ key = IF inst[i].mem.key = None THEN k ELSE inst[i].mem.key
           /\ stored' = Prepared(key, c) /\ inst' = [inst EXCEPT ![i].mem = Prepared(key, c)]
<1>1. PICK key \in Keys \cup {None} : key = IF inst[i].mem.key = None THEN k ELSE inst[i].mem.key
  BY AgentFacts DEF Identity
<1>2. stored' = Prepared(key, c) /\ inst' = [inst EXCEPT ![i].mem = Prepared(key, c)]
  BY <1>1 DEF Prepare, Prepared
<1> QED BY <1>1, <1>2

\* The request that is prepared is saved and remembered.
LEMMA PrepareKeeps ==
  ASSUME AgentInv, NEW i \in Instances, NEW k \in Keys, NEW c \in Codes, TypeOK', Prepare(i, k, c)
  PROVE  AgentInv'
<1>1. inst[i].at = "send" /\ UNCHANGED <<server, renewal, request, faults>>
  BY DEF Prepare
<1>2. PICK key \in Keys \cup {None} :
        stored' = Prepared(key, c) /\ inst' = [inst EXCEPT ![i].mem = Prepared(key, c)]
  BY PrepareFacts
<1>3. Prepared(key, c) \in Identity /\ Prepared(key, c).cert = None
  BY PreparedTyped
<1> DEFINE next == Prepared(key, c)
<1> DEFINE new == [inst[i] EXCEPT !.mem = next]
<1>4. inst' = [inst EXCEPT ![i] = new] /\ renewal' = [renewal EXCEPT ![i] = renewal[i]]
  BY <1>1, <1>2, <1>3, AgentFacts
<1>5. new \in Instance /\ new.at = "send" /\ new.mem = next /\ renewal[i].at = "off"
  BY <1>1, <1>3, AgentFacts, MemoryTyped DEF InstanceFits
<1> HIDE DEF new, next
<1>6. next \in Identity /\ stored' = next /\ Fits(next)
  BY <1>2, <1>3, NoCertFits DEF next
<1> QED BY <1>1, <1>4, <1>5, <1>6, AgentFacts, InstanceMoves DEF server

\* Unauthenticated, rejected or revoked: the instance ends or carries on with what is stored.
LEMMA PollKeeps ==
  ASSUME AgentInv, NEW i \in Instances, TypeOK', PollUnknown(i) \/ PollRejected(i) PROVE AgentInv'
<1>1. /\ inst[i].at = "poll" /\ UNCHANGED <<server, renewal, request, faults>>
      /\ renewal[i] \in Renewal /\ renewal[i].at = "off" /\ renewal' = [renewal EXCEPT ![i] = renewal[i]]
      /\ Ended(inst[i].mem.id) \in Identity /\ Ended(inst[i].mem.id).cert = None
  <2>1. inst[i].mem.id \in AgentIds \cup {None}
    BY AgentFacts DEF Identity
  <2> QED BY <2>1, AgentFacts, IdentityTyped DEF PollUnknown, PollRejected, InstanceFits
<1>2. CASE inst' = [inst EXCEPT ![i] = Down] /\ stored' \in {stored, Ended(inst[i].mem.id)}
  <2>1. stored' \in Identity /\ Fits(stored') /\ Fits(Nothing)
    BY <1>1, <1>2, AgentFacts, NoCertFits, IdentityTyped
  <2> QED BY <1>1, <1>2, <2>1, AgentFacts, RestTyped, InstanceMoves DEF server
<1>3. CASE inst' = [inst EXCEPT ![i].mem = stored] /\ stored' = stored /\ stored.id # None
  <2> DEFINE new == [inst[i] EXCEPT !.mem = stored]
  <2>1. inst' = [inst EXCEPT ![i] = new] /\ new \in Instance /\ new.at = "poll" /\ new.mem = stored
    BY <1>1, <1>3, AgentFacts, MemoryTyped
  <2> HIDE DEF new
  <2> QED BY <1>1, <1>3, <2>1, AgentFacts, InstanceMoves DEF server
<1> QED BY <1>2, <1>3 DEF PollUnknown, PollRejected

\* The approval arrives with the certificate.
LEMMA ApprovedFacts ==
  ASSUME AgentInv, NEW i \in Instances, PollApproved(i),
         agents[inst[i].mem.id].leaf = inst[i].mem.key
  PROVE  \E next \in Identity :
           /\ next.cert = next.key /\ next.id = inst[i].mem.id /\ next.id # None
           /\ stored' = next
           /\ inst' = [inst EXCEPT ![i] = [@ EXCEPT !.at = "connecting", !.mem = next]]
<1> DEFINE mem == inst[i].mem
           next == [mem EXCEPT !.cert = agents[mem.id].leaf, !.secret = None, !.code = None]
<1>1. /\ stored' = next
      /\ inst' = [inst EXCEPT ![i] = [@ EXCEPT !.at = "connecting", !.mem = next]]
      /\ inst[i].at = "poll"
  BY DEF PollApproved
<1>2. mem \in Identity /\ mem.id # None /\ agents[mem.id].leaf = mem.key
  BY <1>1, AgentFacts DEF InstanceFits
<1> HIDE DEF mem
<1>3. next \in Identity /\ next.cert = next.key /\ next.id = mem.id
  BY <1>2 DEF Identity
<1> QED BY <1>1, <1>2, <1>3 DEF mem

\* It is saved with the key it is for, or not at all.
LEMMA ApprovedKeeps == ASSUME AgentInv, NEW i \in Instances, TypeOK', PollApproved(i) PROVE AgentInv'
<1>1. /\ inst[i].at = "poll" /\ UNCHANGED <<server, renewal, request, faults>>
      /\ renewal[i] \in Renewal /\ renewal[i].at = "off" /\ renewal' = [renewal EXCEPT ![i] = renewal[i]]
  BY AgentFacts DEF PollApproved, InstanceFits
<1>2. CASE agents[inst[i].mem.id].leaf = inst[i].mem.key
  <2>1. PICK next \in Identity :
           /\ next.cert = next.key /\ next.id # None /\ stored' = next
           /\ inst' = [inst EXCEPT ![i] = [@ EXCEPT !.at = "connecting", !.mem = next]]
    BY <1>2, ApprovedFacts
  <2> DEFINE new == [inst[i] EXCEPT !.at = "connecting", !.mem = next]
  <2>2. inst' = [inst EXCEPT ![i] = new] /\ new \in Instance /\ new.at = "connecting" /\ new.mem = next
    BY <2>1, AgentFacts DEF Instance
  <2>3. Fits(next)
    BY <2>1 DEF Fits
  <2> HIDE DEF new
  <2> QED BY <1>1, <2>1, <2>2, <2>3, AgentFacts, InstanceMoves DEF server
<1>3. CASE agents[inst[i].mem.id].leaf # inst[i].mem.key
  <2>1. inst' = [inst EXCEPT ![i] = Down] /\ stored' = stored
    BY <1>3 DEF PollApproved
  <2>2. Fits(Nothing)
    BY IdentityTyped, NoCertFits
  <2> QED BY <1>1, <2>1, <2>2, AgentFacts, RestTyped, InstanceMoves DEF server
<1> QED BY <1>2, <1>3

\* The request ran out, and another is prepared.
LEMMA ExpiredFacts ==
  ASSUME AgentInv, NEW i \in Instances, NEW c \in Codes, PollExpired(i, c)
  PROVE  /\ inst[i].mem.key \in Keys \cup {None}
         /\ stored' = Prepared(inst[i].mem.key, c)
         /\ inst' = [inst EXCEPT ![i] = [at |-> "send", mem |-> Prepared(inst[i].mem.key, c), via |-> None]]
BY AgentFacts DEF PollExpired, Prepared, Identity

\* The instance goes back to sending.
LEMMA ExpiredKeeps ==
  ASSUME AgentInv, NEW i \in Instances, NEW c \in Codes, TypeOK', PollExpired(i, c) PROVE AgentInv'
<1>1. /\ inst[i].at = "poll" /\ UNCHANGED <<server, renewal, request, faults>>
      /\ renewal[i] \in Renewal /\ renewal[i].at = "off" /\ renewal' = [renewal EXCEPT ![i] = renewal[i]]
  BY AgentFacts DEF PollExpired, InstanceFits
<1> DEFINE next == Prepared(inst[i].mem.key, c)
<1>2. /\ next \in Identity /\ next.cert = None /\ stored' = next
      /\ inst' = [inst EXCEPT ![i] = [at |-> "send", mem |-> next, via |-> None]]
  BY ExpiredFacts, PreparedTyped
<1> HIDE DEF next
<1> DEFINE new == [at |-> "send", mem |-> next, via |-> None]
<1>3. new \in Instance /\ new.at = "send" /\ new.mem = next
  BY <1>2 DEF Instance
<1> HIDE DEF new
<1>4. inst' = [inst EXCEPT ![i] = new]
  BY <1>2 DEF new
<1>5. Fits(next)
  BY <1>2, NoCertFits
<1> QED BY <1>1, <1>2, <1>3, <1>4, <1>5, AgentFacts, InstanceMoves DEF server

\* A certificate is presented, and the connection ends.
LEMMA ConnectionKeeps ==
  ASSUME AgentInv, NEW i \in Instances, TypeOK',
         Connect(i) \/ ConnectRefused(i) \/ Disconnect(i) \/ ToldRevoked(i) \/ Leave(i)
  PROVE  AgentInv'
<1>1. /\ inst[i] \in Instance /\ inst[i].mem \in Identity /\ Fits(inst[i].mem)
      /\ inst[i].at \in {"connecting", "connected", "leaving"} /\ inst[i].mem.id # None
      /\ UNCHANGED <<request, resuming, faults>>
  BY AgentFacts DEF Connect, ConnectRefused, Disconnect, ToldRevoked, Leave, InstanceFits, ClearPollSecret, calls, server
<1>2. stored' \in Identity /\ Fits(stored')
  <2>1. stored' \in {stored, inst[i].mem, Ended(inst[i].mem.id)}
    BY DEF Connect, ConnectRefused, Disconnect, ToldRevoked, Leave
  <2>2. Ended(inst[i].mem.id) \in Identity /\ Fits(Ended(inst[i].mem.id))
    <3>1. inst[i].mem.id \in AgentIds \cup {None}
      BY <1>1 DEF Identity
    <3> QED BY <3>1, IdentityTyped, NoCertFits
  <2> QED BY <1>1, <2>1, <2>2, AgentFacts
<1>3. CASE Connect(i)
  <2>1. PICK new \in Instance : new = [inst[i] EXCEPT !.at = "connected"] /\ new.at = "connected" /\ new.mem = inst[i].mem
    BY <1>1, PlaceTyped
  <2>2. PICK next \in Renewal : next = [renewal[i] EXCEPT !.at = "waiting"]
    BY AgentFacts DEF Renewal
  <2>3. inst' = [inst EXCEPT ![i] = new] /\ renewal' = [renewal EXCEPT ![i] = next]
    BY <1>3, <2>1, <2>2, AgentFacts DEF Connect
  <2> QED BY <1>1, <1>2, <2>1, <2>3, AgentFacts, InstanceMoves
<1>4. CASE Disconnect(i) \/ ToldRevoked(i)
  <2>1. PICK new \in Instance : new = [inst[i] EXCEPT !.at = "leaving"] /\ new.at = "leaving" /\ new.mem = inst[i].mem
    BY <1>1, PlaceTyped
  <2>2. inst' = [inst EXCEPT ![i] = new] /\ renewal' = [renewal EXCEPT ![i] = renewal[i]]
    BY <1>4, <2>1, AgentFacts DEF Disconnect, ToldRevoked
  <2> QED BY <1>1, <1>2, <2>1, <2>2, AgentFacts, InstanceMoves
<1>5. CASE ConnectRefused(i) \/ Leave(i)
  <2>1. /\ inst' = [inst EXCEPT ![i] = Down]
        /\ \E next \in Renewal : next.at = "off" /\ renewal' = [renewal EXCEPT ![i] = next]
    BY <1>5, AgentFacts, RestTyped DEF ConnectRefused, Leave, InstanceFits
  <2>2. Fits(Nothing)
    BY IdentityTyped, NoCertFits
  <2> QED BY <1>1, <1>2, <2>1, <2>2, AgentFacts, RestTyped, InstanceMoves
<1> QED BY <1>3, <1>4, <1>5

\* A renewal is asked for, answered, lost or saved.
LEMMA RenewalKeeps ==
  ASSUME AgentInv, NEW i \in Instances, TypeOK',
         (\E k \in Keys : RenewAsk(i, k)) \/ RenewAnswered(i) \/ RenewFails(i) \/ RenewLost(i) \/ RenewSave(i)
  PROVE  AgentInv'
<1>1. /\ inst[i] \in Instance /\ Fits(inst[i].mem) /\ InstanceFits(i)
      /\ renewal[i] \in Renewal /\ inst \in [Instances -> Instance] /\ renewal \in [Instances -> Renewal]
  BY AgentFacts DEF InstanceFits
<1>2. /\ UNCHANGED <<request, resuming>> /\ faults' \in 0..MaxFaults
  <2>1. faults' = faults \/ (faults < MaxFaults /\ faults' = faults + 1)
    BY DEF RenewAsk, RenewAnswered, RenewFails, RenewLost, RenewSave
  <2>2. faults' \in 0..MaxFaults
    BY <2>1, AgentFacts, InstallAssumption
  <2> QED BY <2>2 DEF RenewAsk, RenewAnswered, RenewFails, RenewLost, RenewSave, RenewRead, RenewClears,
                      RenewRefused, server, history
<1>3. CASE (\E k \in Keys : RenewAsk(i, k)) \/ RenewAnswered(i) \/ RenewFails(i) \/ RenewLost(i)
  <2>1. inst' = [inst EXCEPT ![i] = inst[i]] /\ stored' = stored
    BY <1>1, <1>3 DEF RenewAsk, RenewAnswered, RenewFails, RenewLost
  <2>2. \E next \in Renewal : /\ renewal' = [renewal EXCEPT ![i] = next]
                              /\ next.at # "off" => inst[i].at \in {"connected", "leaving"}
    <3>1. CASE \E k \in Keys : RenewAsk(i, k)
      <4>1. PICK k \in Keys : RenewAsk(i, k)
        BY <3>1
      <4>2. [at |-> "asked", key |-> k] \in Renewal
        BY DEF Renewal
      <4>3. renewal' = [renewal EXCEPT ![i] = [at |-> "asked", key |-> k]] /\ inst[i].at = "connected"
        BY <4>1 DEF RenewAsk
      <4> QED BY <4>2, <4>3
    <3>2. CASE RenewAnswered(i)
      <4>1. /\ renewal' \in {renewal, [renewal EXCEPT ![i].at = "answered"]}
            /\ renewal' # renewal => renewal[i].at = "asked"
        BY <1>1, <3>2 DEF RenewAnswered, Renewal
      <4>2. CASE renewal' = renewal
        BY <1>1, <4>2 DEF InstanceFits
      <4>3. CASE renewal' # renewal
        <5>1. [renewal[i] EXCEPT !.at = "answered"] \in Renewal
          BY <1>1 DEF Renewal
        <5> QED BY <1>1, <4>1, <4>3, <5>1 DEF InstanceFits
      <4> QED BY <4>2, <4>3
    <3>3. CASE RenewFails(i) \/ RenewLost(i)
      <4>1. /\ renewal' \in {renewal, [renewal EXCEPT ![i] = [NoRenewal EXCEPT !.at = "waiting"]]}
            /\ renewal' # renewal => renewal[i].at = "asked"
        BY <1>1, <3>3 DEF RenewFails, RenewLost
      <4>2. [NoRenewal EXCEPT !.at = "waiting"] \in Renewal
        BY DEF NoRenewal, Renewal
      <4>3. CASE renewal' = renewal
        BY <1>1, <4>3 DEF InstanceFits
      <4>4. CASE renewal' # renewal
        BY <1>1, <4>1, <4>2, <4>4 DEF InstanceFits
      <4> QED BY <4>3, <4>4
    <3> QED BY <1>3, <3>1, <3>2, <3>3
  <2>3. PICK next \in Renewal : /\ renewal' = [renewal EXCEPT ![i] = next]
                                /\ next.at # "off" => inst[i].at \in {"connected", "leaving"}
    BY <2>2
  <2>4. inst[i].at \in {"poll", "connecting", "connected", "leaving"} => inst[i].mem.id # None
    BY <1>1 DEF InstanceFits
  <2> QED BY <1>1, <1>2, <2>1, <2>3, <2>4, AgentFacts, InstanceMoves
<1>4. CASE RenewSave(i)
  <2> DEFINE saved == [Nothing EXCEPT !.id = inst[i].mem.id, !.key = renewal[i].key, !.cert = renewal[i].key]
  <2>1. /\ stored' = saved /\ inst' = [inst EXCEPT ![i].at = "leaving"]
        /\ renewal' = [renewal EXCEPT ![i] = NoRenewal] /\ renewal[i].at = "answered"
    BY <1>4 DEF RenewSave
  <2>2. inst[i].mem.id # None /\ inst[i].mem.id \in AgentIds \cup {None} /\ renewal[i].key \in Keys \cup {None}
    BY <1>1, <2>1 DEF InstanceFits, Instance, Identity, Renewal
  <2>3. saved \in Identity /\ saved.cert = saved.key /\ saved.id = inst[i].mem.id
    BY <2>2 DEF Nothing, Identity
  <2> HIDE DEF saved
  <2>4. PICK new \in Instance : new = [inst[i] EXCEPT !.at = "leaving"] /\ new.at = "leaving" /\ new.mem = inst[i].mem
    BY <1>1, PlaceTyped
  <2>5. inst' = [inst EXCEPT ![i] = new]
    BY <1>1, <2>1, <2>4
  <2>6. Fits(saved)
    BY <2>2, <2>3 DEF Fits
  <2>7. stored' \in Identity /\ Fits(stored') /\ Fits(new.mem) /\ new.at = "leaving" /\ new.mem.id # None
    BY <1>1, <2>1, <2>2, <2>3, <2>4, <2>6
  <2>8. NoRenewal \in Renewal /\ NoRenewal.at = "off" /\ renewal' = [renewal EXCEPT ![i] = NoRenewal]
    BY <2>1, RestTyped
  <2> QED BY <1>2, <2>5, <2>7, <2>8, InstanceMoves
<1> QED BY <1>3, <1>4

\* The server takes a request up, carries it out or refuses it.
LEMMA ServeKeeps == ASSUME AgentInv, NEW r \in Requesters, TypeOK', Serve(r) PROVE AgentInv'
<1>1. /\ request[r] \in Request /\ RequestFits(r) /\ request \in [Requesters -> Request] /\ TypeOK
      /\ resuming \in [Requesters -> ResumeCall \cup {Idle}] /\ Idle.at = "idle"
  BY AgentFacts DEF TypeOK, Idle
<1>2. ASSUME NEW a \in AgentIds, NEW s \in Secrets, HandleFresh(r, a, s) PROVE AgentInv'
  <2> DEFINE new == [request[r] EXCEPT !.at = "ok", !.id = a, !.secret = s]
  <2>1. /\ request' = [request EXCEPT ![r] = new] /\ request[r].at = "sent"
        /\ UNCHANGED <<resuming, stored, inst, renewal, faults>>
    BY <1>2 DEF HandleFresh, EnrollAgent, calls
  <2>2. /\ new \in Request /\ new.at = "ok" /\ new.from = request[r].from /\ new.id = a /\ new.secret = s
        /\ new.key = request[r].key /\ new.code = request[r].code
    BY <1>1 DEF Request
  <2>3. a # None /\ s # None
    BY NoneAssumption
  <2> HIDE DEF new
  <2> QED BY <1>1, <2>1, <2>2, <2>3, RequestMoves DEF RequestFits
<1>3. ASSUME NEW a \in AgentIds, NEW s \in Secrets, HandleResume(r, a, s) PROVE AgentInv'
  <2> DEFINE new == [request[r] EXCEPT !.at = "resuming"]
  <2>1. /\ request' = [request EXCEPT ![r] = new] /\ request[r].at = "sent"
        /\ UNCHANGED <<stored, inst, renewal, faults>>
        /\ ResumeRead(r, GivenToken, a, Cluster, request[r].key, request[r].code, s)
    BY <1>1, <1>3 DEF HandleResume
  <2>2. /\ new \in Request /\ new.at = "resuming" /\ new.from = request[r].from
        /\ new.key = request[r].key /\ new.code = request[r].code
    BY <1>1 DEF Request
  <2>3. /\ \A q \in Requesters : q # r => resuming'[q] = resuming[q]
        /\ resuming'[r].at # "idle" /\ resuming'[r].key = request[r].key /\ resuming'[r].code = request[r].code
    BY <1>1, <2>1 DEF ResumeRead
  <2> HIDE DEF new
  <2> QED BY <1>1, <2>1, <2>2, <2>3, RequestMoves DEF RequestFits
<1>4. CASE HandleRefused(r) \/ HandleTooLate(r)
  <2>1. PICK place \in {"conflict", "refused"} : request' = [request EXCEPT ![r].at = place]
    BY <1>4 DEF HandleRefused, HandleTooLate
  <2> DEFINE new == [request[r] EXCEPT !.at = place]
  <2>2. /\ new \in Request /\ new.at = place /\ new.from = request[r].from
        /\ new.key = request[r].key /\ new.code = request[r].code
        /\ request' = [request EXCEPT ![r] = new]
    BY <1>1, <2>1 DEF Request
  <2>3. request[r].at \in {"sent", "resuming"} /\ UNCHANGED <<stored, inst, renewal, faults>>
    BY <1>1, <1>4 DEF HandleRefused, HandleTooLate, ResumeRefused, RequestFits
  <2>4. (\A q \in Requesters : q # r => resuming'[q] = resuming[q]) /\ resuming'[r].at = "idle"
    BY <1>1, <1>4 DEF HandleRefused, HandleTooLate, ResumeRefused, RequestFits, server
  <2> HIDE DEF new
  <2> QED BY <1>1, <2>1, <2>2, <2>3, <2>4, RequestMoves DEF RequestFits
<1>5. CASE HandleOverdue(r)
  <2>1. /\ request' = [request EXCEPT ![r] = request[r]] /\ UNCHANGED <<stored, inst, renewal, faults>>
        /\ resuming[r].at = "overdue"
        /\ resuming' = [resuming EXCEPT ![r] = [@ EXCEPT !.at = "write", !.reopen = TRUE]]
    BY <1>1, <1>5 DEF HandleOverdue, ResumeExpire, agent
  <2>2. resuming[r] \in ResumeCall
    BY <1>1, <2>1
  <2>3. /\ resuming'[r].at = "write" /\ resuming'[r].key = resuming[r].key /\ resuming'[r].code = resuming[r].code
        /\ \A q \in Requesters : q # r => resuming'[q] = resuming[q]
    BY <1>1, <2>1, <2>2 DEF ResumeCall
  <2> QED BY <1>1, <2>1, <2>3, RequestMoves DEF RequestFits
<1>6. CASE HandleWritten(r)
  <2> DEFINE new == [request[r] EXCEPT !.at = "ok", !.id = resuming[r].agent, !.secret = resuming[r].secret]
  <2>1. /\ request' = [request EXCEPT ![r] = new] /\ UNCHANGED <<stored, inst, renewal, faults>>
        /\ resuming[r].at = "write" /\ resuming' = [resuming EXCEPT ![r] = Idle]
    BY <1>6 DEF HandleWritten, ResumeWrite
  <2>2. resuming[r] \in ResumeCall
    BY <1>1, <2>1
  <2>3. resuming[r].agent \in AgentIds /\ resuming[r].secret \in Secrets
    BY <2>2 DEF ResumeCall
  <2>4. /\ new \in Request /\ new.at = "ok" /\ new.from = request[r].from
        /\ new.id = resuming[r].agent /\ new.secret = resuming[r].secret
        /\ new.key = request[r].key /\ new.code = request[r].code
    BY <1>1, <2>3 DEF Request
  <2>5. new.id # None /\ new.secret # None
    BY <2>3, <2>4, NoneAssumption
  <2>6. resuming'[r].at = "idle" /\ \A q \in Requesters : q # r => resuming'[q] = resuming[q]
    BY <1>1, <2>1
  <2> HIDE DEF new
  <2> QED BY <1>1, <2>1, <2>4, <2>5, <2>6, RequestMoves DEF RequestFits
<1>7. CASE Drop(r)
  <2>1. /\ request' = [request EXCEPT ![r] = NoRequest] /\ UNCHANGED <<resuming, stored, inst, renewal, faults>>
        /\ request[r].from = None /\ request[r].at \in {"ok", "refused", "conflict"}
    BY <1>7 DEF Drop, server
  <2> QED BY <1>1, <2>1, RestTyped, RequestMoves DEF RequestFits
<1> QED BY <1>2, <1>3, <1>4, <1>5, <1>6, <1>7 DEF Serve

\* A request is sent, and its sender waits.
LEMMA AskKeeps ==
  ASSUME AgentInv, NEW i \in Instances, NEW r \in Requesters, TypeOK', Ask(i, r) PROVE AgentInv'
<1> DEFINE mem == inst[i].mem
           new == [NoRequest EXCEPT !.at = "sent", !.from = i, !.key = mem.key, !.code = mem.code]
           asks == [inst[i] EXCEPT !.at = "asked", !.via = r]
<1>1. /\ inst[i] \in Instance /\ mem \in Identity /\ InstanceFits(i) /\ inst[i].at = "send"
      /\ mem.key \in Keys /\ mem.code \in Codes /\ request[r] = NoRequest
      /\ inst \in [Instances -> Instance] /\ request \in [Requesters -> Request]
      /\ UNCHANGED <<server, stored, renewal, faults>>
  BY AgentFacts DEF Ask, Identity
<1>2. request' = [request EXCEPT ![r] = new] /\ inst' = [inst EXCEPT ![i] = asks]
  BY <1>1 DEF Ask
<1>3. /\ asks \in Instance /\ asks.at = "asked" /\ asks.via = r /\ asks.mem = mem
  BY <1>1 DEF Instance
<1>4. /\ new \in Request /\ new.at = "sent" /\ new.from = i /\ new.key = mem.key /\ new.code = mem.code
  BY <1>1 DEF NoRequest, Request
<1> HIDE DEF new, asks
<1>5. /\ request'[r] = new /\ \A q \in Requesters : q # r => request'[q] = request[q]
      /\ inst'[i] = asks /\ \A j \in Instances : j # i => inst'[j] = inst[j]
      /\ request' \in [Requesters -> Request] /\ inst' \in [Instances -> Instance]
  BY <1>1, <1>2, <1>3, <1>4
<1>6. AgentTypeOK'
  BY <1>1, <1>5 DEF AgentTypeOK, AgentInv, server
<1>7. RequestFits(r)'
  <2>1. mem.key # None /\ mem.code # None /\ request[r].at = "idle"
    BY <1>1, RestTyped DEF Ask
  <2>2. ~(resuming[r].at # "idle")
    BY <2>1, AgentFacts DEF RequestFits
  <2> QED BY <1>1, <1>4, <1>5, <2>1, <2>2 DEF RequestFits, server
<1>8. \A q \in Requesters : q # r => RequestFits(q)'
  BY <1>1, <1>5 DEF AgentInv, RequestFits, server
<1>9. InstanceFits(i)'
  BY <1>1, <1>3, <1>4, <1>5 DEF InstanceFits, Fits
<1>10. ASSUME NEW j \in Instances, j # i PROVE InstanceFits(j)'
  <2>1. InstanceFits(j) /\ inst'[j] = inst[j] /\ renewal'[j] = renewal[j]
    BY <1>1, <1>5, <1>10 DEF AgentInv
  <2>2. inst[j].at = "asked" => inst[j].via # r
    BY <1>1, <2>1, RestTyped DEF InstanceFits
  <2> QED BY <1>5, <2>1, <2>2 DEF InstanceFits, Fits
<1>11. Fits(stored)'
  BY <1>1 DEF AgentInv, Fits
<1> QED BY <1>6, <1>7, <1>8, <1>9, <1>10, <1>11 DEF AgentInv

\* An instance leaves with its request: done, or without an answer.
LEMMA EndsKeeps ==
  ASSUME AgentInv, NEW i \in Instances, TypeOK', UNCHANGED resuming,
         stored' \in Identity, Fits(stored'), faults' \in 0..MaxFaults,
         NEW new \in Instance, inst' = [inst EXCEPT ![i] = new], NEW next \in Renewal,
         renewal' = [renewal EXCEPT ![i] = next],
         new.at \in {"down", "poll"}, new.at = "poll" => new.mem.id # None, next.at = "off", Fits(new.mem),
         request' \in [Requesters -> Request],
         \A q \in Requesters :
           \/ request'[q] = request[q]
           \/ request[q].from = i /\ request[q].at # "resuming" /\ request'[q] = NoRequest
           \/ request[q].from = i /\ request[q].at # "idle" /\ request'[q] = [request[q] EXCEPT !.from = None]
  PROVE  AgentInv'
<1>1. /\ inst \in [Instances -> Instance] /\ renewal \in [Instances -> Renewal]
      /\ \A q \in Requesters : request[q] \in Request /\ RequestFits(q)
  BY AgentFacts
<1>2. /\ inst'[i] = new /\ renewal'[i] = next
      /\ \A j \in Instances : j # i => inst'[j] = inst[j] /\ renewal'[j] = renewal[j]
      /\ inst' \in [Instances -> Instance] /\ renewal' \in [Instances -> Renewal]
  BY <1>1
<1>3. AgentTypeOK'
  BY <1>2 DEF AgentTypeOK
<1>4. ASSUME NEW q \in Requesters PROVE RequestFits(q)'
  <2>1. CASE request'[q] = request[q]
    BY <1>1, <2>1 DEF RequestFits
  <2>2. CASE request'[q] = NoRequest /\ request[q].at # "resuming"
    BY <1>1, <2>2, RestTyped DEF RequestFits
  <2>3. CASE request[q].at # "idle" /\ request'[q] = [request[q] EXCEPT !.from = None]
    <3>1. /\ request'[q].at = request[q].at /\ request'[q].key = request[q].key /\ request'[q].code = request[q].code
          /\ request'[q].id = request[q].id /\ request'[q].secret = request[q].secret
      BY <1>1, <2>3 DEF Request
    <3> QED BY <1>1, <2>3, <3>1 DEF RequestFits
  <2> QED BY <2>1, <2>2, <2>3
<1>5. InstanceFits(i)'
  BY <1>2 DEF InstanceFits, Fits
<1>6. ASSUME NEW j \in Instances, j # i PROVE InstanceFits(j)'
  <2>1. InstanceFits(j) /\ inst'[j] = inst[j] /\ renewal'[j] = renewal[j]
    BY <1>2, <1>6 DEF AgentInv
  <2>2. inst[j].at = "asked" => request'[inst[j].via] = request[inst[j].via]
    BY <1>6, <2>1 DEF InstanceFits
  <2> QED BY <2>1, <2>2 DEF InstanceFits, Fits
<1>7. Fits(stored)'
  BY DEF Fits
<1> QED BY <1>3, <1>4, <1>5, <1>6, <1>7 DEF AgentInv

\* The answer is stored, or the request was refused.
LEMMA AnsweredKeeps ==
  ASSUME AgentInv, NEW i \in Instances, TypeOK', Enrolled(i) \/ EnrollRefused(i) PROVE AgentInv'
<1>1. /\ inst[i] \in Instance /\ inst[i].mem \in Identity /\ InstanceFits(i) /\ inst[i].at = "asked"
      /\ inst \in [Instances -> Instance] /\ renewal \in [Instances -> Renewal] /\ request \in [Requesters -> Request]
      /\ UNCHANGED <<server, renewal, faults>> /\ faults \in 0..MaxFaults
  BY AgentFacts DEF Enrolled, EnrollRefused
<1>2. PICK r \in Requesters : r = inst[i].via /\ request[r].from = i
  BY <1>1 DEF InstanceFits
<1>3. /\ request' = [request EXCEPT ![r] = NoRequest] /\ request[r].at # "resuming"
      /\ request' \in [Requesters -> Request]
      /\ renewal[i].at = "off" /\ renewal[i] \in Renewal /\ renewal' = [renewal EXCEPT ![i] = renewal[i]]
  BY <1>1, <1>2, RestTyped DEF Enrolled, EnrollRefused, InstanceFits
<1>4. CASE Enrolled(i)
  <2> DEFINE next == [Nothing EXCEPT !.id = request[r].id, !.secret = request[r].secret,
                                     !.key = inst[i].mem.key, !.code = inst[i].mem.code]
             new == [at |-> "poll", mem |-> next, via |-> None]
  <2>1. stored' = next /\ inst' = [inst EXCEPT ![i] = new] /\ request[r].at = "ok"
    BY <1>2, <1>4 DEF Enrolled
  <2>2. request[r].id # None /\ request[r] \in Request
    BY <2>1, AgentFacts DEF RequestFits
  <2>3. next \in Identity /\ next.cert = None /\ next.id = request[r].id
    <3>1. /\ request[r].id \in AgentIds \cup {None} /\ request[r].secret \in Secrets \cup {None}
          /\ inst[i].mem.key \in Keys \cup {None} /\ inst[i].mem.code \in Codes \cup {None}
      BY <1>1, <2>2 DEF Request, Identity
    <3> QED BY <3>1 DEF Nothing, Identity
  <2> HIDE DEF next
  <2>4. new \in Instance /\ new.at = "poll" /\ new.mem = next
    BY <2>3 DEF Instance
  <2>5. Fits(next) /\ new.mem.id # None
    BY <2>2, <2>3, <2>4, NoCertFits
  <2> HIDE DEF new
  <2>6. /\ stored' \in Identity /\ Fits(stored') /\ faults' \in 0..MaxFaults /\ UNCHANGED resuming
        /\ Fits(new.mem) /\ new.at \in {"down", "poll"} /\ new.at = "poll" => new.mem.id # None
    BY <1>1, <2>1, <2>3, <2>4, <2>5 DEF server
  <2>7. \A q \in Requesters :
          \/ request'[q] = request[q]
          \/ request[q].from = i /\ request[q].at # "resuming" /\ request'[q] = NoRequest
    BY <1>1, <1>2, <1>3
  <2> QED BY <1>3, <2>1, <2>4, <2>6, <2>7, EndsKeeps
<1>5. CASE EnrollRefused(i)
  <2>1. inst' = [inst EXCEPT ![i] = Down] /\ stored' \in {stored, Ended(inst[i].mem.id)}
    BY <1>5 DEF EnrollRefused
  <2>2. stored' \in Identity /\ Fits(stored')
    <3>1. inst[i].mem.id \in AgentIds \cup {None}
      BY <1>1 DEF Identity
    <3> QED BY <2>1, <3>1, AgentFacts, IdentityTyped, NoCertFits
  <2>3. Down \in Instance /\ Down.at = "down" /\ Fits(Down.mem)
    BY RestTyped, IdentityTyped, NoCertFits
  <2> QED BY <1>1, <1>2, <1>3, <2>1, <2>2, <2>3, EndsKeeps DEF server
<1> QED BY <1>4, <1>5 DEF Enrolled, EnrollRefused

\* The answer is lost, or the process crashes.
LEMMA LostKeeps ==
  ASSUME AgentInv, NEW i \in Instances, TypeOK', Crash(i) \/ EnrollLost(i) PROVE AgentInv'
<1>1. /\ InstanceFits(i) /\ request \in [Requesters -> Request]
      /\ \A r \in Requesters : [request[r] EXCEPT !.from = None] \in Request
      /\ UNCHANGED <<resuming, stored>> /\ stored \in Identity /\ Fits(stored) /\ renewal \in [Instances -> Renewal]
  BY AgentFacts DEF Crash, EnrollLost, server, Request
<1>2. faults' \in 0..MaxFaults
  <2>1. faults < MaxFaults /\ faults' = faults + 1 /\ faults \in 0..MaxFaults
    BY AgentFacts DEF Crash, EnrollLost
  <2> QED BY <2>1, InstallAssumption
<1>3. /\ request' \in [Requesters -> Request]
      /\ \A q \in Requesters :
           \/ request'[q] = request[q]
           \/ request[q].from = i /\ request[q].at # "idle" /\ request'[q] = [request[q] EXCEPT !.from = None]
  <2>1. CASE Crash(i)
    <3>1. request' = [r \in Requesters |-> IF request[r].from = i THEN [request[r] EXCEPT !.from = None] ELSE request[r]]
      BY <2>1 DEF Crash
    <3>2. \A r \in Requesters : request[r].from = i => request[r].at # "idle"
      BY AgentFacts, RestTyped, InstallAssumption DEF RequestFits
    <3> QED BY <1>1, <3>1, <3>2
  <2>2. CASE EnrollLost(i)
    <3>1. PICK r \in Requesters : r = inst[i].via /\ request[r].from = i /\ request[r].at # "idle"
      BY <1>1, <2>2 DEF EnrollLost, InstanceFits
    <3>2. request' = [request EXCEPT ![r].from = None]
      BY <2>2, <3>1 DEF EnrollLost
    <3> QED BY <1>1, <3>1, <3>2
  <2> QED BY <2>1, <2>2
<1>4. /\ inst' = [inst EXCEPT ![i] = Down]
      /\ \E next \in Renewal : next.at = "off" /\ renewal' = [renewal EXCEPT ![i] = next]
  <2>1. CASE Crash(i)
    BY <2>1, RestTyped DEF Crash
  <2>2. CASE EnrollLost(i)
    BY <1>1, <2>2, AgentFacts DEF EnrollLost, InstanceFits
  <2> QED BY <2>1, <2>2
<1>5. Down \in Instance /\ Down.at = "down" /\ Fits(Down.mem)
  BY RestTyped, IdentityTyped, NoCertFits
<1> QED BY <1>1, <1>2, <1>3, <1>4, <1>5, EndsKeeps

\* Whatever the agent, its server, people and the network do.
LEMMA AgentStep == AgentInv /\ [AgentNext]_allVars => AgentInv'
<1> SUFFICES ASSUME AgentInv, [AgentNext]_allVars PROVE AgentInv'
  OBVIOUS
<1>1. TypeOK'
  BY ServedByAdmission, TypeStep DEF AgentInv, AgentTypeOK
<1>2. CASE \E r \in Requesters : Serve(r)
  BY <1>1, <1>2, ServeKeeps
<1>3. CASE \E i \in Instances : ServeRenewal(i)
  <2>1. PICK i \in Instances : ServeRenewal(i)
    BY <1>3
  <2>2. CASE RenewServed(i)
    BY <1>1, <2>2, OthersMove DEF RenewServed, SetLeaf
  <2> QED BY <1>1, <2>1, <2>2, RenewalKeeps DEF ServeRenewal
<1>4. CASE \E i \in Instances : Works(i)
  <2>1. PICK i \in Instances : Works(i)
    BY <1>4
  <2>2. CASE PollOverdue(i)
    BY <1>1, <2>2, OthersMove DEF PollOverdue, ExpirePending, calls
  <2> QED BY <1>1, <2>1, <2>2, StartKeeps, AnsweredKeeps, PrepareKeeps, AskKeeps, PollKeeps, ApprovedKeeps, ExpiredKeeps,
             ConnectionKeeps, RenewalKeeps DEF Works
<1>5. CASE Happens
  <2>1. CASE /\ \/ CreateToken(GivenToken, 0, None) \/ TokenLapses(GivenToken) \/ ApproveStep
                \/ \E a \in AgentIds : Reject(a) \/ Revoke(a) \/ Ages(a)
                \/ ExpirePending
             /\ UNCHANGED agent
    <3>1. UNCHANGED resuming
      BY <2>1 DEF CreateToken, TokenLapses, ApproveStep, ApproveRead, ApproveCount, ApproveWrite, ApproveLocks,
                  ApproveRefused, Reject, Revoke, Ages, ExpirePending, calls
    <3> QED BY <1>1, <2>1, <3>1, OthersMove
  <2>2. CASE \E i \in Instances : Crash(i) \/ EnrollLost(i)
    BY <1>1, <2>2, LostKeeps
  <2>3. CASE \E i \in Instances : Disconnect(i) \/ RenewLost(i) \/ \E k \in Keys : RenewAsk(i, k)
    BY <1>1, <2>3, ConnectionKeeps, RenewalKeeps
  <2> QED BY <1>5, <2>1, <2>2, <2>3 DEF Happens
<1>6. CASE UNCHANGED allVars
  BY <1>1, <1>6, OthersMove DEF allVars, server
<1> QED BY <1>2, <1>3, <1>4, <1>5, <1>6 DEF AgentNext

\* In every state AgentInv holds.
THEOREM AgentAlwaysInv == AgentSpec => []AgentInv
BY AgentStart, AgentStep, PTL DEF AgentSpec

\* The agent's memory, its store, its requests and its renewal have their types, under any crashes.
THEOREM AgentTypeCorrect == AgentSpec => []AgentTypeOK
<1>1. AgentInv => AgentTypeOK
  BY DEF AgentInv
<1> QED BY <1>1, AgentAlwaysInv, PTL

\* However many processes share the store, and wherever a renewal is cut off, a stored certificate is
\* for the key stored beside it (enroll.go, identity.go).
THEOREM CertFitsKeyCorrect == AgentSpec => []CertFitsKey
<1>1. AgentInv => CertFitsKey
  BY DEF AgentInv, Fits, CertFitsKey
<1> QED BY <1>1, AgentAlwaysInv, PTL

\* Whatever agents do, their server is the one of Admission: what holds of it for any caller holds here.
THEOREM AgentRefinesAdmission == AgentSpec => Spec
<1>1. AgentInit => Init
  BY DEF AgentInit
<1>2. AgentInv /\ [AgentNext]_allVars => [Next]_vars
  BY ServedByAdmission
<1> QED BY <1>1, <1>2, AgentAlwaysInv, PTL DEF AgentSpec, Spec

-----------------------------------------------------------------------------
\* What the server does beside the requests of its agent

\* Steps that neither let an agent in nor write for a request that is under way.
Aside ==
  \/ UNCHANGED server
  \/ CreateToken(GivenToken, 0, None) \/ TokenLapses(GivenToken) \/ ApproveStep \/ ExpirePending
  \/ \E a \in AgentIds : Reject(a) \/ Revoke(a) \/ Ages(a) \/ ClearPollSecret(a)
  \/ \E i \in Instances : SetLeaf(i) \/ RenewRefused(i) \/ RenewClears(i)
  \/ \E i \in Instances, a \in AgentIds, k \in Keys : RenewRead(i, a, k, TRUE)

\* A row that waits after a step waited before it, and is still about the same request.
Waits(a) == agents'[a].status = "pending" =>
  /\ agents[a].status = "pending"
  /\ agents'[a].key = agents[a].key /\ agents'[a].hash = agents[a].hash /\ agents'[a].secret = agents[a].secret
  /\ agents[a].age # "fresh" => agents'[a].age # "fresh"

\* No row waits for the token it would be let in by: it is spent before.
TokenKeeps(t) ==
  \/ tokens'[t] = tokens[t]
  \/ t = GivenToken /\ tokens[t].state \in {"none", "unused"} /\ tokens'[t].state = "unused"

\* A row that still waits after a sweep was fresh, and is as it was.
LEMMA SweptWaits ==
  ASSUME NEW row \in Agent, Swept(row).status = "pending"
  PROVE  Swept(row) = row /\ row.age = "fresh"
BY DEF Swept, Overdue, Purged, NoAgent, Agent

\* An approval handler never leaves a row waiting that did not wait, nor about something else.
LEMMA ApproveWaits ==
  ASSUME TypeOK, ApproveStep, NEW a \in AgentIds
  PROVE  Waits(a)
<1> PICK p \in Approvers :
         \/ \E b \in AgentIds, code \in Codes, tier \in Tiers : ApproveRead(p, b, code, tier)
         \/ ApproveCount(p) \/ ApproveWrite(p) \/ ApproveLocks(p) \/ ApproveRefused(p)
  BY DEF ApproveStep
<1>0. agents[a] \in Agent /\ agents \in [AgentIds -> Agent]
  BY DEF TypeOK
<1>1. CASE (\E b \in AgentIds, code \in Codes, tier \in Tiers : ApproveRead(p, b, code, tier)) \/ ApproveRefused(p)
  BY <1>1 DEF ApproveRead, ApproveRefused, Waits
<1> DEFINE b == approving[p].agent
<1>2. CASE ApproveCount(p)
  <2>1. agents' = [agents EXCEPT ![b].attempts = agents[b].attempts + 1]
    BY <1>2 DEF ApproveCount
  <2> HIDE DEF b
  <2> QED BY <1>0, <2>1 DEF Waits, Agent
<1>3. CASE ApproveLocks(p)
  <2>1. agents' = [agents EXCEPT ![b].status = "rejected"]
    BY <1>3 DEF ApproveLocks
  <2> HIDE DEF b
  <2> QED BY <1>0, <2>1 DEF Waits, Agent
<1>4. CASE ApproveWrite(p)
  <2>1. agents' = [agents EXCEPT ![b] = Approved(@, approving[p])]
    BY <1>4 DEF ApproveWrite
  <2>2. b \in AgentIds => Approved(agents[b], approving[p]).status = "approved"
    BY <1>0 DEF Approved, Agent
  <2> HIDE DEF b
  <2> QED BY <1>0, <2>1, <2>2 DEF Waits
<1> QED BY <1>1, <1>2, <1>3, <1>4

\* Aside from requests, tokens are not spent and rows only wait on or stop waiting.
LEMMA AsideMoves ==
  ASSUME TypeOK, OneRow, Aside
  PROVE  /\ resuming' = resuming
         /\ \A t \in Tokens : TokenKeeps(t)
         /\ \A a \in AgentIds : Waits(a)
<1>0. /\ agents \in [AgentIds -> Agent] /\ tokens \in [Tokens -> Token] /\ Instances \subseteq Renewers
      /\ \A a \in AgentIds : agents[a] \in Agent
  BY InstallAssumption DEF TypeOK
<1>1. CASE UNCHANGED server
  BY <1>1 DEF server, TokenKeeps, Waits
<1>2. CASE CreateToken(GivenToken, 0, None) \/ TokenLapses(GivenToken)
  <2>1. UNCHANGED <<agents, resuming>>
    BY <1>2 DEF CreateToken, TokenLapses, calls
  <2>2. \A t \in Tokens : TokenKeeps(t)
    BY <1>0, <1>2 DEF CreateToken, TokenLapses, TokenKeeps, NoToken, Token
  <2> QED BY <2>1, <2>2 DEF Waits
<1>3. CASE ApproveStep
  <2>1. UNCHANGED <<tokens, resuming>>
    BY <1>3 DEF ApproveStep, ApproveRead, ApproveCount, ApproveWrite, ApproveLocks, ApproveRefused
  <2> QED BY <1>3, <2>1, ApproveWaits DEF TokenKeeps
<1>4. CASE ExpirePending
  <2>1. \A a \in AgentIds : agents'[a] = Swept(agents[a])
    BY <1>4 DEF ExpirePending, Sweep
  <2>2. \A a \in AgentIds : Waits(a)
    BY <1>0, <2>1, SweptWaits DEF Waits
  <2> QED BY <1>4, <2>2 DEF ExpirePending, calls, TokenKeeps
<1>5. CASE \E b \in AgentIds : Reject(b) \/ Revoke(b) \/ Ages(b) \/ ClearPollSecret(b)
  <2> PICK b \in AgentIds : Reject(b) \/ Revoke(b) \/ Ages(b) \/ ClearPollSecret(b)
    BY <1>5
  <2>1. UNCHANGED <<tokens, resuming>>
    BY DEF Reject, Revoke, Ages, ClearPollSecret, calls
  <2>2. ASSUME NEW a \in AgentIds PROVE Waits(a)
    <3>1. CASE Reject(b) \/ Revoke(b)
      BY <1>0, <3>1 DEF Reject, Revoke, Waits, Agent
    <3>2. CASE Ages(b)
      BY <1>0, <3>2 DEF Ages, Waits, Agent
    <3>3. CASE ClearPollSecret(b)
      BY <1>0, <3>3 DEF ClearPollSecret, Waits, Agent
    <3> QED BY <3>1, <3>2, <3>3
  <2> QED BY <2>1, <2>2 DEF TokenKeeps
<1>6. CASE \E i \in Instances : SetLeaf(i) \/ RenewRefused(i) \/ RenewClears(i)
  <2> PICK i \in Instances : SetLeaf(i) \/ RenewRefused(i) \/ RenewClears(i)
    BY <1>6
  <2> DEFINE b == renewing[i].agent
  <2>0. agents[b].status \in {"approved", "revoked"}
    <3>1. i \in Renewers /\ renewing[i].at # "idle"
      BY <1>0 DEF SetLeaf, RenewRefused, RenewClears
    <3> QED BY <3>1 DEF OneRow
  <2>1. UNCHANGED <<tokens, resuming>>
    BY DEF SetLeaf, RenewRefused, RenewClears
  <2>2. ASSUME NEW a \in AgentIds PROVE Waits(a)
    <3>1. \/ agents' = agents
          \/ agents' = [agents EXCEPT ![b].leaf = renewing[i].key]
          \/ agents' = [agents EXCEPT ![b].secret = None]
      BY DEF SetLeaf, RenewRefused, RenewClears
    <3> HIDE DEF b
    <3> QED BY <1>0, <2>0, <3>1 DEF Waits, Agent
  <2> QED BY <2>1, <2>2 DEF TokenKeeps
<1>7. CASE \E i \in Instances, a \in AgentIds, k \in Keys : RenewRead(i, a, k, TRUE)
  BY <1>7 DEF RenewRead, TokenKeeps, Waits
<1> QED BY <1>1, <1>2, <1>3, <1>4, <1>5, <1>6, <1>7 DEF Aside

\* What a step is to the server.
LEMMA ServerSteps ==
  ASSUME AgentInv, [AgentNext]_allVars
  PROVE  \/ Aside
         \/ \E r \in Requesters : HandleOverdue(r) \/ HandleWritten(r) \/ HandleTooLate(r)
         \/ \E r \in Requesters, a \in AgentIds, s \in Secrets : HandleFresh(r, a, s) \/ HandleResume(r, a, s)
<1>1. CASE \E r \in Requesters : Serve(r)
  BY <1>1 DEF Serve, HandleRefused, Drop, Aside
<1>2. CASE \E i \in Instances : ServeRenewal(i)
  BY <1>2 DEF ServeRenewal, RenewServed, RenewAnswered, RenewFails, Aside
<1>3. CASE \E i \in Instances : Works(i)
  <2>1. PICK i \in Instances : Works(i)
    BY <1>3
  <2>2. CASE PollOverdue(i)
    BY <2>2 DEF PollOverdue, Aside
  <2>3. CASE Connect(i)
    <3>1. inst[i].mem.id \in AgentIds
      BY <2>3, AgentFacts DEF Connect, InstanceFits, Identity
    <3> QED BY <2>3, <3>1 DEF Connect, Aside
  <2>4. CASE ~PollOverdue(i) /\ ~Connect(i)
    BY <2>1, <2>4 DEF Works, Start, Enrolled, EnrollRefused, Prepare, Ask, PollUnknown, PollApproved,
                      PollRejected, PollExpired, ConnectRefused, ToldRevoked, Leave, RenewSave, Aside
  <2> QED BY <2>2, <2>3, <2>4
<1>4. CASE Happens
  <2>1. CASE \E i \in Instances, k \in Keys : RenewAsk(i, k)
    <3>1. PICK i \in Instances, k \in Keys : RenewAsk(i, k)
      BY <2>1
    <3>2. inst[i].mem.id \in AgentIds /\ RenewRead(i, inst[i].mem.id, k, TRUE)
      BY <3>1, AgentFacts DEF RenewAsk, InstanceFits, Identity
    <3> QED BY <3>2 DEF Aside
  <2> QED BY <1>4, <2>1 DEF Happens, Crash, EnrollLost, Disconnect, RenewLost, Aside
<1>5. CASE UNCHANGED allVars
  BY <1>5 DEF allVars, server, Aside
<1> QED BY <1>1, <1>2, <1>3, <1>4, <1>5 DEF AgentNext

-----------------------------------------------------------------------------
\* There is one row

\* The token lets in one agent, and there is no other token.
LEMMA OneExists ==
  ASSUME Inv, OneRow, NEW a \in AgentIds, Exists(a)
  PROVE  /\ tokens[GivenToken].state = "used" /\ tokens[GivenToken].usedBy = a
         /\ \A b \in AgentIds : Exists(b) => b = a
<1>1. ASSUME NEW b \in AgentIds, Exists(b)
      PROVE  tokens[GivenToken].state = "used" /\ tokens[GivenToken].usedBy = b
  BY <1>1 DEF Inv, Bound, OneRow
<1> QED BY <1>1

\* So there is one row after a step, too.
LEMMA OneExistsNext ==
  ASSUME Inv', OneRow', NEW a \in AgentIds, (Exists(a))', NEW b \in AgentIds, (Exists(b))'
  PROVE  a = b
BY DEF Inv, Bound, OneRow

\* A row that waits has a key, a code and the agent's cluster.
LEMMA PendingFacts ==
  ASSUME Inv, OneRow, NEW a \in AgentIds, Pending(a)
  PROVE  /\ Exists(a) /\ agents[a].key # None /\ agents[a].hash.code # None
         /\ agents[a].fingerprint = Cluster /\ agents[a].key = agents[a].hash.key
<1>1. Exists(a)
  BY DEF Exists, Pending
<1>2. agents[a].hash \in Hashes /\ agents[a].hash.key = agents[a].key
  BY <1>1 DEF Inv, Bound, TypeOK
<1>3. agents[a].hash.code \in Codes /\ agents[a].hash.key \in Keys
  BY <1>2 DEF Hashes
<1> QED BY <1>1, <1>2, <1>3, NoneAssumption DEF OneRow

\* A token is spent only on an agent that is let in.
LEMMA TokensMove ==
  ASSUME AgentInv, OneRow, [AgentNext]_allVars
  PROVE  \/ \A t \in Tokens : TokenKeeps(t)
         \/ \E r \in Requesters, a \in AgentIds, s \in Secrets : HandleFresh(r, a, s)
<1>1. CASE \E r \in Requesters : HandleOverdue(r) \/ HandleWritten(r) \/ HandleTooLate(r)
  BY <1>1 DEF HandleOverdue, HandleWritten, HandleTooLate, ResumeExpire, ResumeWrite, ResumeRefused, TokenKeeps
<1>2. CASE \E r \in Requesters, a \in AgentIds, s \in Secrets : HandleResume(r, a, s)
  BY <1>2 DEF HandleResume, ResumeRead, TokenKeeps
<1>3. CASE Aside
  BY <1>3, AsideMoves, AgentFacts
<1> QED BY <1>1, <1>2, <1>3, ServerSteps

\* What HandleFresh writes.
LEMMA FreshWrites ==
  ASSUME TypeOK, NEW r \in Requesters, NEW a \in AgentIds, NEW s \in Secrets, HandleFresh(r, a, s)
  PROVE  /\ tokens[GivenToken].state = "unused" /\ agents[a].status = "absent"
         /\ tokens'[GivenToken].state = "used" /\ tokens'[GivenToken].usedBy = a
         /\ \A t \in Tokens : t # GivenToken => tokens'[t] = tokens[t]
         /\ \A b \in AgentIds : b # a => agents'[b] = agents[b]
         /\ agents'[a].status = "pending" /\ agents'[a].fingerprint = Cluster /\ agents'[a].secret = s
         /\ agents'[a].key = request[r].key /\ agents'[a].hash.code = request[r].code
         /\ UNCHANGED <<approving, resuming, renewing>>
<1>1. GivenToken \in Tokens /\ tokens \in [Tokens -> Token] /\ agents \in [AgentIds -> Agent]
  BY InstallAssumption DEF TypeOK
<1>2. EnrollAgent(GivenToken, a, Cluster, request[r].key, request[r].code, s, 0)
  BY DEF HandleFresh
<1>3. /\ tokens[GivenToken].state = "unused" /\ agents[a].status = "absent"
      /\ UNCHANGED <<approving, resuming, renewing>>
  BY <1>2 DEF EnrollAgent, TokenValid, calls
<1>4. /\ tokens'[GivenToken].state = "used" /\ tokens'[GivenToken].usedBy = a
      /\ \A t \in Tokens : t # GivenToken => tokens'[t] = tokens[t]
  BY <1>1, <1>2 DEF EnrollAgent, Token
<1>5. /\ \A b \in AgentIds : b # a => agents'[b] = agents[b]
      /\ agents'[a].status = "pending" /\ agents'[a].fingerprint = Cluster /\ agents'[a].secret = s
      /\ agents'[a].key = request[r].key /\ agents'[a].hash.code = request[r].code
  BY <1>1, <1>2 DEF EnrollAgent, NoAgent
<1> QED BY <1>3, <1>4, <1>5

\* The rows of the install keep its cluster.
LEMMA ClusterStep ==
  ASSUME Inv, AgentInv, OneRow, [AgentNext]_allVars, NEW a \in AgentIds, Exists(a)'
  PROVE  agents'[a].fingerprint = Cluster
<1>1. TypeOK /\ RowChange(a) /\ (agents[a].status = "absent" => agents[a] = NoAgent)
  BY ServedByAdmission, EveryRowChange DEF Inv, Blank
<1>2. agents'[a] # Purged /\ agents'[a] # NoAgent
  BY DEF Exists, Purged, NoAgent
<1>3. CASE Exists(a)
  BY <1>1, <1>2, <1>3, RowKeeps DEF Inv, Exists, OneRow
<1>4. CASE agents[a].status = "purged"
  BY <1>1, <1>2, <1>4, RowKeeps DEF Inv, Exists
<1>5. CASE agents[a].status = "absent"
  <2>1. RowEnrolled(a)
    BY <1>1, <1>2, <1>5, AbsentStays
  <2>2. \E t \in Tokens : ~TokenKeeps(t)
    <3>1. PICK t \in Tokens, f \in Clusters, k \in Keys, c \in Codes, s \in Secrets, i \in Tiers :
                 EnrollAgent(t, a, f, k, c, s, i)
      BY <2>1 DEF RowEnrolled
    <3>2. tokens[t].state = "unused" /\ tokens'[t].state = "used"
      BY <1>1, <3>1 DEF EnrollAgent, TokenValid, TypeOK, Token
    <3> QED BY <3>2 DEF TokenKeeps
  <2>3. PICK r \in Requesters, b \in AgentIds, s \in Secrets : HandleFresh(r, b, s)
    BY <2>2, TokensMove
  <2> QED BY <1>1, <1>5, <2>3, FreshWrites DEF Exists
<1> QED BY <1>3, <1>4, <1>5 DEF Exists

\* A request comes from an instance that runs, and an instance runs with its token.
LEMMA RequestComes ==
  ASSUME AgentInv, [AgentNext]_allVars
  PROVE  /\ \A r \in Requesters :
              request'[r].at # "idle" => request[r].at # "idle" \/ \E i \in Instances : inst[i].at = "send"
         /\ \A i \in Instances : inst'[i].at # "down" => inst[i].at # "down" \/ tokens[GivenToken].state # "none"
<1>0. /\ inst \in [Instances -> Instance] /\ request \in [Requesters -> Request]
      /\ NoRequest.at = "idle" /\ Down.at = "down"
  BY AgentFacts, RestTyped
<1>1. CASE \E r \in Requesters : Serve(r)
  <2>1. PICK r \in Requesters : Serve(r)
    BY <1>1
  <2>2. inst' = inst
    BY <2>1 DEF Serve, HandleFresh, HandleResume, HandleRefused, HandleOverdue, HandleWritten, HandleTooLate, Drop, agent
  <2>3. \A q \in Requesters : q # r => request'[q] = request[q]
    BY <1>0, <2>1 DEF Serve, HandleFresh, HandleResume, HandleRefused, HandleOverdue, HandleWritten, HandleTooLate, Drop, agent
  <2>4. request[r].at # "idle" \/ request' = request
    <3>1. resuming[r].at # "idle" => request[r].at = "resuming"
      BY AgentFacts DEF RequestFits
    <3>2. CASE HandleWritten(r) \/ HandleTooLate(r)
      BY <3>1, <3>2 DEF HandleWritten, HandleTooLate, ResumeWrite, ResumeRefused
    <3>3. CASE HandleOverdue(r)
      BY <3>3 DEF HandleOverdue, agent
    <3>4. CASE HandleRefused(r) \/ Drop(r) \/ \E a \in AgentIds, s \in Secrets : HandleFresh(r, a, s) \/ HandleResume(r, a, s)
      BY <3>4 DEF HandleFresh, HandleResume, HandleRefused, Drop
    <3> QED BY <2>1, <3>2, <3>3, <3>4 DEF Serve
  <2> QED BY <2>2, <2>3, <2>4
<1>2. CASE (\E i \in Instances : ServeRenewal(i)) \/ UNCHANGED allVars
  BY <1>2 DEF ServeRenewal, RenewServed, RenewAnswered, RenewFails, agent, allVars
<1>3. CASE \E i \in Instances : Works(i)
  <2>1. PICK i \in Instances : Works(i)
    BY <1>3
  <2>2. CASE \E r \in Requesters : Ask(i, r)
    <3>1. PICK r \in Requesters : Ask(i, r)
      BY <2>2
    <3> QED BY <1>0, <3>1 DEF Ask
  <2>3. CASE Enrolled(i) \/ EnrollRefused(i)
    <3>1. /\ request' = [request EXCEPT ![inst[i].via] = NoRequest] /\ inst[i].at # "down"
          /\ \A j \in Instances : j # i => inst'[j] = inst[j]
      BY <1>0, <2>3 DEF Enrolled, EnrollRefused
    <3> QED BY <1>0, <3>1
  <2>4. CASE Start(i)
    BY <1>0, <2>4 DEF Start
  <2>5. ASSUME ~Start(i), ~Enrolled(i), ~EnrollRefused(i), ~\E r \in Requesters : Ask(i, r)
        PROVE  request' = request /\ (inst[i].at # "down") /\ \A j \in Instances : j # i => inst'[j] = inst[j]
    <3>1. inst[i].at = "down" => renewal[i].at = "off"
      BY AgentFacts DEF InstanceFits
    <3>2. CASE (\E k \in Keys, c \in Codes : Prepare(i, k, c)) \/ RenewSave(i) \/ Leave(i) \/ ConnectRefused(i) \/ ToldRevoked(i)
      BY <1>0, <3>1, <3>2 DEF Prepare, RenewSave, Leave, ConnectRefused, ToldRevoked
    <3>3. CASE (\E c \in Codes : PollExpired(i, c)) \/ PollOverdue(i) \/ PollRejected(i) \/ Connect(i)
      BY <1>0, <3>3 DEF PollExpired, PollOverdue, PollRejected, Connect, agent
    <3>4. CASE PollUnknown(i)
      BY <1>0, <3>4 DEF PollUnknown
    <3>5. CASE PollApproved(i)
      BY <1>0, <3>5 DEF PollApproved
    <3> QED BY <2>1, <2>5, <3>2, <3>3, <3>4, <3>5 DEF Works
  <2> QED BY <2>2, <2>3, <2>4, <2>5
<1>4. CASE Happens
  <2>1. CASE \E i \in Instances : Crash(i)
    BY <1>0, <2>1 DEF Crash, Request
  <2>2. CASE \E i \in Instances : EnrollLost(i)
    BY <1>0, <2>2 DEF EnrollLost, Request
  <2>3. CASE \E i \in Instances : Disconnect(i)
    BY <1>0, <2>3 DEF Disconnect
  <2>4. CASE \E i \in Instances : RenewLost(i) \/ \E k \in Keys : RenewAsk(i, k)
    BY <2>4 DEF RenewLost, RenewAsk
  <2> QED BY <1>4, <2>1, <2>2, <2>3, <2>4 DEF Happens, agent
<1> QED BY <1>1, <1>2, <1>3, <1>4 DEF AgentNext

\* A resumed request is about the agent that spent the token.
LEMMA ResumeIsOne ==
  ASSUME Inv, AgentInv, OneRow, [AgentNext]_allVars, NEW r \in Requesters, resuming'[r].at # "idle"
  PROVE  tokens[GivenToken].state = "used" /\ tokens[GivenToken].usedBy = resuming'[r].agent
<1>0. TypeOK /\ resuming \in [Requesters -> ResumeCall \cup {Idle}] /\ Idle.at = "idle"
  BY DEF Inv, TypeOK, Idle
<1>1. CASE resuming'[r] = resuming[r]
  BY <1>1 DEF OneRow
<1>2. ASSUME NEW q \in Requesters, HandleOverdue(q) \/ HandleWritten(q) \/ HandleTooLate(q)
      PROVE  resuming[r].at # "idle" /\ resuming'[r].agent = resuming[r].agent
  <2>1. resuming[q] \in ResumeCall
    BY <1>0, <1>2 DEF HandleOverdue, HandleWritten, HandleTooLate, ResumeExpire, ResumeWrite, ResumeRefused
  <2>2. CASE HandleOverdue(q)
    BY <1>0, <2>1, <2>2 DEF HandleOverdue, ResumeExpire, ResumeCall
  <2>3. CASE HandleWritten(q) \/ HandleTooLate(q)
    BY <1>0, <2>3 DEF HandleWritten, HandleTooLate, ResumeWrite, ResumeRefused
  <2> QED BY <1>2, <2>2, <2>3
<1>3. ASSUME NEW q \in Requesters, NEW a \in AgentIds, NEW s \in Secrets, HandleResume(q, a, s), resuming'[r] # resuming[r]
      PROVE  tokens[GivenToken].state = "used" /\ tokens[GivenToken].usedBy = resuming'[r].agent
  <2>1. ResumeRead(q, GivenToken, a, Cluster, request[q].key, request[q].code, s)
    BY <1>3 DEF HandleResume
  <2>2. resuming'[r].agent = a
    BY <1>0, <1>3, <2>1 DEF ResumeRead
  <2> QED BY <2>1, <2>2 DEF ResumeRead, SameEnrollment
<1>4. CASE Aside \/ \E q \in Requesters, a \in AgentIds, s \in Secrets : HandleFresh(q, a, s)
  BY <1>0, <1>1, <1>4, AsideMoves, FreshWrites
<1> QED BY <1>1, <1>2, <1>3, <1>4, ServerSteps DEF OneRow

\* A renewal is of an agent that was approved.
LEMMA RenewingStep ==
  ASSUME Inv, AgentInv, OneRow, [AgentNext]_allVars, NEW i \in Renewers, renewing'[i].at # "idle"
  PROVE  agents'[renewing'[i].agent].status \in {"approved", "revoked"}
<1>0. TypeOK /\ renewing \in [Renewers -> RenewCall \cup {Idle}] /\ Idle.at = "idle" /\ \A a \in AgentIds : RowChange(a)
  BY ServedByAdmission, EveryRowChange DEF Inv, TypeOK, Idle
<1>1. ASSUME NEW a \in AgentIds, agents[a].status \in {"approved", "revoked"}
      PROVE  agents'[a].status \in {"approved", "revoked"}
  <2>0. agents[a] \in Agent /\ RowChange(a)
    BY <1>0 DEF TypeOK
  <2>1. ~RowEnrolled(a) /\ ~RowReopened(a) /\ ~RowApproved(a)
    BY <1>1 DEF RowEnrolled, EnrollAgent, RowReopened, RowApproved, ApproveWrite
  <2> QED BY <1>1, <2>0, <2>1 DEF RowChange, Swept, Overdue, RowRejected, RowRevoked, RowGetsLeaf, RowGetsSecret,
                                  RowLosesSecret, RowAges, RowCounted, Agent
<1>2. \/ renewing[i].at # "idle" /\ renewing'[i].agent = renewing[i].agent
      \/ renewing'[i].agent \in AgentIds /\ agents[renewing'[i].agent].status = "approved"
  <2>1. CASE renewing' = renewing
    BY <2>1
  <2>2. CASE \E j \in Instances : SetLeaf(j) \/ RenewRefused(j) \/ RenewClears(j)
    <3>1. PICK j \in Renewers : SetLeaf(j) \/ RenewRefused(j) \/ RenewClears(j)
      BY <2>2, InstallAssumption
    <3>2. renewing[j] \in RenewCall
      BY <1>0, <3>1 DEF SetLeaf, RenewRefused, RenewClears
    <3> QED BY <1>0, <3>1, <3>2 DEF SetLeaf, RenewRefused, RenewClears, RenewCall
  <2>3. CASE \E j \in Instances, a \in AgentIds, k \in Keys : RenewRead(j, a, k, TRUE)
    <3>1. PICK j \in Renewers, a \in AgentIds, k \in Keys : RenewRead(j, a, k, TRUE)
      BY <2>3, InstallAssumption
    <3> QED BY <1>0, <3>1 DEF RenewRead, Authorized
  <2>4. CASE Aside /\ renewing' # renewing
    <3>1. ~ApproveStep
      BY <2>4 DEF ApproveStep, ApproveRead, ApproveCount, ApproveWrite, ApproveLocks, ApproveRefused
    <3> QED BY <2>2, <2>3, <2>4, <3>1 DEF Aside, server, CreateToken, TokenLapses, ExpirePending, Reject, Revoke, Ages,
                                     ClearPollSecret, calls
  <2>5. CASE ~Aside
    BY <1>0, <2>1, <2>5, ServerSteps, FreshWrites DEF HandleResume, ResumeRead, HandleOverdue, HandleWritten, HandleTooLate,
                                  ResumeExpire, ResumeWrite, ResumeRefused
  <2> QED BY <2>1, <2>4, <2>5
<1>3. renewing[i].at # "idle" => renewing[i].agent \in AgentIds
  BY <1>0 DEF RenewCall
<1> QED BY <1>1, <1>2, <1>3 DEF OneRow

\* There is one row, whatever happens.
LEMMA OneRowStep == ASSUME Inv, AgentInv, OneRow, [AgentNext]_allVars PROVE OneRow'
<1>0. TypeOK /\ GivenToken \in Tokens /\ [Next]_vars
  BY InstallAssumption, ServedByAdmission DEF Inv
<1>1. /\ \A t \in Tokens : t # GivenToken => tokens'[t] = tokens[t]
      /\ tokens[GivenToken].state # "none" => tokens'[GivenToken].state # "none"
  <2>1. CASE \A t \in Tokens : TokenKeeps(t)
    BY <1>0, <2>1 DEF TokenKeeps
  <2>2. CASE \E r \in Requesters, a \in AgentIds, s \in Secrets : HandleFresh(r, a, s)
    BY <1>0, <2>2, FreshWrites
  <2> QED BY <2>1, <2>2, TokensMove
<1>2. tokens[GivenToken].state = "used" => tokens'[GivenToken] = tokens[GivenToken]
  BY <1>0, UsedTokenStays
<1>3. \A r \in Requesters : (UnderWay(r))' => tokens[GivenToken].state # "none"
  BY RequestComes DEF OneRow, UnderWay
<1>4. \A i \in Instances : inst'[i].at # "down" => tokens[GivenToken].state # "none"
  BY RequestComes DEF OneRow
<1>5. \A a \in AgentIds : (Exists(a))' => agents'[a].fingerprint = Cluster
  BY ClusterStep
<1>6. \A r \in Requesters : resuming'[r].at # "idle" =>
        tokens'[GivenToken].state = "used" /\ tokens'[GivenToken].usedBy = resuming'[r].agent
  BY <1>2, ResumeIsOne
<1>7. \A i \in Renewers : renewing'[i].at # "idle" => agents'[renewing'[i].agent].status \in {"approved", "revoked"}
  BY RenewingStep
<1>8. \A t \in Tokens : t # GivenToken => tokens'[t].state = "none"
  BY <1>1 DEF OneRow
<1>9. (\A r \in Requesters : UnderWay(r) => tokens[GivenToken].state # "none")'
  BY <1>1, <1>3
<1> QED BY <1>1, <1>4, <1>5, <1>6, <1>7, <1>8, <1>9 DEF OneRow

-----------------------------------------------------------------------------
\* The store and what waits: steps at which nothing waits, and steps beside what waits

\* No request is under way.
LEMMA NoneUnderWay ==
  ASSUME AgentInv', OneRow', MemoryStored', \A r \in Requesters : request'[r].at = "idle",
         \A a \in AgentIds : StoreHolds(a)'
  PROVE  OneInv'
<1>1. \A r \in Requesters : request'[r] = NoRequest /\ resuming'[r].at = "idle"
  BY DEF AgentInv, RequestFits
<1>2. \A i \in Instances : NoRequest.from # i
  BY RestTyped, InstallAssumption
<1>3. \A r \in Requesters, i \in Instances : request'[r].from # i
  BY <1>1, <1>2
<1>4. OneRequest'
  BY <1>3 DEF OneRequest, UnderWay
<1>5. \A r \in Requesters : AnswerHolds(r)'
  BY <1>1 DEF AnswerHolds, Pending
<1> QED BY <1>4, <1>5 DEF OneInv

\* Nor does a row wait.
LEMMA NothingWaits ==
  ASSUME AgentInv', OneRow', MemoryStored', \A r \in Requesters : request'[r].at = "idle",
         \A a \in AgentIds : agents'[a].status # "pending"
  PROVE  OneInv'
<1>1. \A a \in AgentIds : StoreHolds(a)'
  BY DEF StoreHolds, Pending
<1> QED BY <1>1, NoneUnderWay

\* An answer holds as long as the row only waits on.
LEMMA AnswerWaits ==
  ASSUME NEW r \in Requesters, AnswerHolds(r), TypeOK, \A a \in AgentIds : Waits(a),
         resuming'[r] = resuming[r], request'[r].at = request[r].at,
         request'[r].id = request[r].id, request'[r].secret = request[r].secret
  PROVE  AnswerHolds(r)'
<1>1. resuming[r].at # "idle" => resuming[r].agent \in AgentIds
  BY CallsTyped DEF ResumeCall
<1>2. \A a \in AgentIds : agents'[a].status = "pending" =>
        agents[a].status = "pending" /\ agents'[a].secret = agents[a].secret
  BY DEF Waits
<1>3. request'[r].at = "ok" =>
        \A a \in AgentIds : agents'[a].status = "pending" =>
          request'[r].id = a /\ request'[r].secret = agents'[a].secret
  BY <1>2 DEF AnswerHolds, Pending
<1>4. request'[r].at = "refused" => \A a \in AgentIds : agents'[a].status # "pending"
  BY <1>2 DEF AnswerHolds, Pending
<1>5. resuming'[r].at # "idle" /\ agents'[resuming'[r].agent].status = "pending" =>
        IF resuming'[r].at = "overdue" THEN agents'[resuming'[r].agent].age # "fresh" ELSE ~resuming'[r].reopen
  BY <1>1 DEF AnswerHolds, Pending, Waits
<1> QED BY <1>3, <1>4, <1>5 DEF AnswerHolds, Pending

\* What is stored is still about a row that only waits on.
LEMMA StoreWaits ==
  ASSUME NEW a \in AgentIds, StoreHolds(a), Waits(a), stored' = stored,
         \A i \in Instances : inst'[i].at \in {"connecting", "connected", "leaving"} =>
                                inst[i].at \in {"connecting", "connected", "leaving"}
  PROVE  StoreHolds(a)'
BY DEF StoreHolds, Waits, Pending

\* A step beside what waits.
LEMMA Undisturbed ==
  ASSUME OneInv, OneRow', TypeOK, \A a \in AgentIds : Waits(a), UNCHANGED <<stored, inst, request, resuming>>
  PROVE  OneInv'
<1>1. \A r \in Requesters : AnswerHolds(r)'
  BY AnswerWaits DEF OneInv
<1>2. \A a \in AgentIds : StoreHolds(a)'
  BY StoreWaits DEF OneInv
<1>3. MemoryStored' /\ OneRequest'
  BY DEF OneInv, MemoryStored, OneRequest, UnderWay
<1> QED BY <1>1, <1>2, <1>3 DEF OneInv

\* An instance that was answered has nothing under way, and one that was approved waits for nothing.
LEMMA AtRest ==
  ASSUME OneInv, NEW i \in Instances, inst[i].at \in {"poll", "connecting", "connected", "leaving"}
  PROVE  /\ \A r \in Requesters : request[r].at = "idle"
         /\ inst[i].at # "poll" => \A a \in AgentIds : agents[a].status # "pending"
<1>1. ASSUME NEW r \in Requesters, request[r].at # "idle" PROVE FALSE
  BY <1>1 DEF OneInv, OneRequest, UnderWay
<1>2. ASSUME NEW a \in AgentIds, agents[a].status = "pending", inst[i].at # "poll" PROVE FALSE
  BY <1>2 DEF OneInv, StoreHolds, Pending
<1> QED BY <1>1, <1>2

\* A row that waits is the one its agent asks about.
LEMMA PollIsOfRow ==
  ASSUME Inv, AgentInv, OneInv, NEW i \in Instances, inst[i].at = "poll",
         NEW a \in AgentIds, agents[a].status = "pending"
  PROVE  inst[i].mem.id = a /\ Known(inst[i].mem)
<1>1. inst[i].mem = stored /\ inst[i].mem.id # None
  BY AgentFacts DEF OneInv, MemoryStored, InstanceFits
<1>2. stored.id = a /\ stored.secret = agents[a].secret /\ agents[a].secret # None
  BY <1>1 DEF OneInv, StoreHolds, Pending
<1> QED BY <1>1, <1>2 DEF Known, Exists

\* The single instance holds in memory what it stored.
LEMMA AloneStores ==
  ASSUME OneInstance, NEW i \in Instances, NEW new, inst' = [inst EXCEPT ![i] = new], AgentInv,
         new.at \notin {"down", "leaving"} => new.mem = stored',
         new.at \in {"send", "asked"} => stored'.id = None /\ stored'.cert = None /\ ~stored'.ended
  PROVE  MemoryStored' /\ inst'[i] = new /\ \A j \in Instances : j = i
<1>1. inst'[i] = new
  BY AgentFacts
<1>2. \A j \in Instances : j = i
  BY DEF OneInstance
<1> QED BY <1>1, <1>2 DEF MemoryStored

-----------------------------------------------------------------------------
\* OneInv is inductive

\* Presenting a certificate, being told, leaving and saving a renewal: nothing waits.
LEMMA OneConnection ==
  ASSUME Inv, AgentInv, OneInv, OneInstance, AgentInv', OneRow', NEW i \in Instances,
         Connect(i) \/ ConnectRefused(i) \/ Disconnect(i) \/ ToldRevoked(i) \/ Leave(i) \/ RenewSave(i)
  PROVE  OneInv'
<1>0. inst[i] \in Instance /\ InstanceFits(i) /\ TypeOK /\ OneRow
  BY AgentFacts DEF OneInv
<1>1. inst[i].at \in {"connecting", "connected", "leaving"} /\ request' = request
  BY <1>0 DEF Connect, ConnectRefused, Disconnect, ToldRevoked, Leave, RenewSave, InstanceFits
<1>2. /\ \A r \in Requesters : request'[r].at = "idle"
      /\ \A a \in AgentIds : agents[a].status # "pending"
  BY <1>1, AtRest
<1>3. Aside
  <2>1. CASE Connect(i)
    <3>1. inst[i].mem.id \in AgentIds
      BY <1>0, <1>1, AgentFacts DEF InstanceFits, Identity
    <3> QED BY <2>1, <3>1 DEF Connect, Aside
  <2>2. CASE ~Connect(i)
    BY <2>2 DEF Aside, ConnectRefused, Disconnect, ToldRevoked, Leave, RenewSave
  <2> QED BY <2>1, <2>2
<1>4. \A a \in AgentIds : agents'[a].status # "pending"
  BY <1>0, <1>2, <1>3, AsideMoves DEF Waits
<1>5. MemoryStored'
  <2>1. CASE Connect(i)
    <3>1. PICK new \in Instance :
             new = [inst[i] EXCEPT !.at = "connected"] /\ new.at = "connected" /\ new.mem = inst[i].mem
      BY <1>0, PlaceTyped
    <3>2. inst[i].at = "connecting" /\ stored' \in {stored, inst[i].mem} /\ inst' = [inst EXCEPT ![i] = new]
      BY <2>1, <3>1, AgentFacts DEF Connect
    <3>3. inst[i].mem = stored
      BY <3>2 DEF OneInv, MemoryStored
    <3> QED BY <3>1, <3>2, <3>3, AloneStores
  <2>2. CASE ConnectRefused(i) \/ Leave(i)
    BY <2>2, RestTyped, AloneStores DEF ConnectRefused, Leave
  <2>3. CASE Disconnect(i) \/ ToldRevoked(i) \/ RenewSave(i)
    <3>1. PICK new \in Instance : new = [inst[i] EXCEPT !.at = "leaving"] /\ new.at = "leaving" /\ new.mem = inst[i].mem
      BY <1>0, PlaceTyped
    <3>2. inst' = [inst EXCEPT ![i] = new]
      BY <2>3, <3>1, AgentFacts DEF Disconnect, ToldRevoked, RenewSave
    <3> QED BY <3>1, <3>2, AloneStores
  <2> QED BY <2>1, <2>2, <2>3
<1> QED BY <1>2, <1>4, <1>5, NothingWaits

\* A poll is answered: with an end only if nothing waits.
LEMMA OnePoll ==
  ASSUME Inv, AgentInv, OneInv, OneInstance, AgentInv', OneRow', NEW i \in Instances,
         PollUnknown(i) \/ PollApproved(i) \/ PollRejected(i) \/ \E c \in Codes : PollExpired(i, c)
  PROVE  OneInv'
<1>0. inst[i] \in Instance /\ inst[i].at = "poll" /\ inst[i].mem = stored /\ UNCHANGED <<agents, request>>
  BY AgentFacts DEF OneInv, MemoryStored, PollUnknown, PollApproved, PollRejected, PollExpired, server
<1>1. \A a \in AgentIds : agents'[a].status # "pending"
  <2> SUFFICES ASSUME NEW a \in AgentIds, agents[a].status = "pending" PROVE FALSE
    BY <1>0
  <2>1. inst[i].mem.id = a /\ Known(inst[i].mem)
    BY <1>0, PollIsOfRow
  <2> QED BY <2>1 DEF PollUnknown, PollApproved, PollRejected, PollExpired
<1>2. \A r \in Requesters : request'[r].at = "idle"
  BY <1>0, AtRest
<1>3. MemoryStored'
  <2>1. CASE inst' = [inst EXCEPT ![i] = Down]
    BY <2>1, RestTyped, AloneStores
  <2>2. CASE PollUnknown(i)
    BY <1>0, <2>1, <2>2 DEF PollUnknown
  <2>3. CASE PollApproved(i) /\ agents[inst[i].mem.id].leaf = inst[i].mem.key
    <3>1. PICK next \in Identity :
             /\ stored' = next
             /\ inst' = [inst EXCEPT ![i] = [@ EXCEPT !.at = "connecting", !.mem = next]]
      BY <2>3, ApprovedFacts
    <3> DEFINE new == [inst[i] EXCEPT !.at = "connecting", !.mem = next]
    <3>2. inst' = [inst EXCEPT ![i] = new] /\ new.at = "connecting" /\ new.mem = next
      BY <1>0, <3>1, AgentFacts DEF Instance
    <3> HIDE DEF new
    <3> QED BY <3>1, <3>2, AloneStores
  <2>4. ASSUME NEW c \in Codes, PollExpired(i, c) PROVE MemoryStored'
    <3> DEFINE next == Prepared(inst[i].mem.key, c)
    <3>1. /\ next \in Identity /\ next.cert = None /\ next.id = None /\ next.ended = FALSE /\ stored' = next
          /\ inst' = [inst EXCEPT ![i] = [at |-> "send", mem |-> next, via |-> None]]
      BY <2>4, ExpiredFacts, PreparedTyped
    <3> HIDE DEF next
    <3> DEFINE new == [at |-> "send", mem |-> next, via |-> None]
    <3>2. new.at = "send" /\ new.mem = next /\ inst' = [inst EXCEPT ![i] = new]
      BY <3>1
    <3> HIDE DEF new
    <3> QED BY <3>1, <3>2, AloneStores
  <2> QED BY <2>1, <2>2, <2>3, <2>4 DEF PollApproved, PollRejected
<1> QED BY <1>1, <1>2, <1>3, NothingWaits

\* A process starts with what is stored.
LEMMA OneStart ==
  ASSUME Inv, AgentInv, OneInv, OneInstance, AgentInv', OneRow', NEW i \in Instances, Start(i) PROVE OneInv'
<1> DEFINE new == [at |-> CASE stored.cert # None -> "connecting"
                            [] stored.cert = None /\ stored.id # None -> "poll"
                            [] OTHER -> "send",
                   mem |-> stored, via |-> None]
<1>1. /\ inst' = [inst EXCEPT ![i] = new] /\ inst[i].at = "down" /\ ~stored.ended
      /\ UNCHANGED <<tokens, agents, resuming, stored, request>> /\ TypeOK
  BY AgentFacts DEF Start, server
<1>2. /\ new.mem = stored /\ new.at \in {"send", "poll", "connecting"}
      /\ new.at = "connecting" => stored.cert # None
      /\ new.at = "send" => stored.cert = None /\ stored.id = None
      /\ stored.id = None /\ stored.cert = None => new.at = "send"
  OBVIOUS
<1> HIDE DEF new
<1>3. MemoryStored' /\ inst'[i] = new /\ \A j \in Instances : j = i
  BY <1>1, <1>2, AloneStores
<1>4. \A r \in Requesters : request[r].from # i
  BY <1>1 DEF OneInv, OneRequest
<1>5. OneRequest'
  BY <1>1, <1>2, <1>3, <1>4 DEF OneInv, OneRequest, UnderWay
<1>6. \A a \in AgentIds : Waits(a)
  BY <1>1 DEF Waits
<1>7. \A r \in Requesters : AnswerHolds(r)'
  BY <1>1, <1>6, AnswerWaits DEF OneInv
<1>8. \A a \in AgentIds : StoreHolds(a)'
  BY <1>1, <1>2, <1>3 DEF OneInv, StoreHolds, Pending
<1> QED BY <1>3, <1>5, <1>7, <1>8 DEF OneInv

\* A key or a code is drawn only when nothing waits for the one there is.
LEMMA OnePrepare ==
  ASSUME Inv, AgentInv, OneInv, OneInstance, AgentInv', OneRow', NEW i \in Instances,
         NEW k \in Keys, NEW c \in Codes, Prepare(i, k, c)
  PROVE  OneInv'
<1>1. inst[i] \in Instance /\ inst[i].at = "send" /\ inst[i].mem = stored /\ UNCHANGED <<agents, request>>
  BY AgentFacts DEF OneInv, MemoryStored, Prepare, server
<1>2. stored.key = None \/ stored.code = None
  BY <1>1 DEF Prepare
<1>3. \A r \in Requesters : request'[r].at = "idle"
  <2> SUFFICES ASSUME NEW r \in Requesters, request[r].at # "idle" PROVE FALSE
    BY <1>1
  <2>1. stored.key = request[r].key /\ stored.code = request[r].code
    BY DEF OneInv, OneRequest, UnderWay
  <2> QED BY <1>2, <2>1, AgentFacts DEF RequestFits
<1>4. \A a \in AgentIds : agents'[a].status # "pending"
  <2> SUFFICES ASSUME NEW a \in AgentIds, agents[a].status = "pending" PROVE FALSE
    BY <1>1
  <2>1. stored.key = agents[a].key /\ stored.code = agents[a].hash.code
    BY DEF OneInv, StoreHolds, Pending
  <2> QED BY <1>2, <2>1, PendingFacts DEF Pending, OneInv
<1>5. MemoryStored'
  <2>1. PICK key \in Keys \cup {None} :
          stored' = Prepared(key, c) /\ inst' = [inst EXCEPT ![i].mem = Prepared(key, c)]
    BY PrepareFacts
  <2> DEFINE next == Prepared(key, c)
  <2>2. next \in Identity /\ next.cert = None /\ next.id = None /\ next.ended = FALSE /\ stored' = next
    BY <2>1, PreparedTyped
  <2>3. inst' = [inst EXCEPT ![i].mem = next]
    BY <2>1
  <2> HIDE DEF next
  <2> DEFINE new == [inst[i] EXCEPT !.mem = next]
  <2>4. new.at = "send" /\ new.mem = next
    BY <1>1, <2>2, MemoryTyped
  <2>5. inst' = [inst EXCEPT ![i] = new]
    BY <2>3
  <2> HIDE DEF new
  <2> QED BY <2>2, <2>4, <2>5, AloneStores
<1> QED BY <1>3, <1>4, <1>5, NothingWaits

\* A request is sent when the server is done with the one before.
LEMMA OneAsk ==
  ASSUME Inv, AgentInv, OneInv, OneInstance, AgentInv', OneRow', NEW i \in Instances,
         NEW r \in Requesters, Ask(i, r)
  PROVE  OneInv'
<1> DEFINE mem == inst[i].mem
           new == [NoRequest EXCEPT !.at = "sent", !.from = i, !.key = mem.key, !.code = mem.code]
           asks == [inst[i] EXCEPT !.at = "asked", !.via = r]
<1>1. /\ inst[i] \in Instance /\ inst[i].at = "send" /\ mem = stored /\ TypeOK
      /\ stored.id = None /\ stored.cert = None /\ ~stored.ended
      /\ UNCHANGED <<agents, resuming, stored>> /\ request \in [Requesters -> Request]
      /\ request' = [request EXCEPT ![r] = new] /\ inst' = [inst EXCEPT ![i] = asks]
  BY AgentFacts DEF OneInv, MemoryStored, Ask, server
<1>2. asks.at = "asked" /\ asks.via = r /\ asks.mem = mem
  BY <1>1 DEF Instance
<1>3. new.at = "sent" /\ new.from = i /\ new.key = mem.key /\ new.code = mem.code
  BY DEF NoRequest
<1>4. \A q \in Requesters : request[q] = NoRequest
  <2> SUFFICES ASSUME NEW q \in Requesters, request[q] # NoRequest PROVE FALSE
    OBVIOUS
  <2>1. request[q].from # None
    BY DEF Ask, OneInstance
  <2>2. request[q].from \in Instances
    BY <2>1, AgentFacts DEF Request
  <2>3. inst[request[q].from].at = "asked" /\ request[q].from = i
    BY <2>2 DEF OneInv, OneRequest, OneInstance
  <2> QED BY <1>1, <2>3
<1> HIDE DEF new, asks
<1>5. request'[r] = new /\ \A q \in Requesters : q # r => request'[q] = NoRequest
  BY <1>1, <1>4
<1>6. MemoryStored' /\ inst'[i] = asks /\ \A j \in Instances : j = i
  BY <1>1, <1>2, AloneStores
<1>7. \A q \in Requesters : resuming[q].at = "idle" /\ (q # r => request'[q].at = "idle" /\ request'[q].from # i)
  <2>1. \A q \in Requesters : RequestFits(q) /\ request[q].at = "idle"
    BY <1>4, AgentFacts, RestTyped
  <2> QED BY <1>5, <2>1, RestTyped, InstallAssumption DEF RequestFits
<1>8. OneRequest'
  BY <1>1, <1>2, <1>3, <1>5, <1>6, <1>7 DEF OneRequest, UnderWay
<1>9. \A q \in Requesters : AnswerHolds(q)'
  BY <1>1, <1>3, <1>5, <1>7 DEF AnswerHolds
<1>10. \A a \in AgentIds : StoreHolds(a)'
  <2>1. \A a \in AgentIds : Waits(a)
    BY <1>1 DEF Waits
  <2> QED BY <1>1, <1>2, <1>6, <2>1, StoreWaits DEF OneInv
<1> QED BY <1>6, <1>8, <1>9, <1>10 DEF OneInv

\* What the answer says is stored before the row is asked about.
LEMMA OneEnrolled ==
  ASSUME Inv, AgentInv, OneInv, OneInstance, AgentInv', OneRow', NEW i \in Instances, Enrolled(i) PROVE OneInv'
<1>1. /\ inst[i] \in Instance /\ inst[i].at = "asked" /\ inst[i].mem = stored /\ InstanceFits(i)
      /\ stored.id = None /\ stored.cert = None /\ ~stored.ended /\ UNCHANGED agents
      /\ request \in [Requesters -> Request]
  BY AgentFacts DEF OneInv, MemoryStored, Enrolled, server
<1>2. PICK r \in Requesters : r = inst[i].via /\ request[r].at = "ok" /\ request' = [request EXCEPT ![r] = NoRequest]
  BY <1>1 DEF Enrolled, InstanceFits
<1>3. \A q \in Requesters : request'[q].at = "idle"
  <2>1. \A q \in Requesters : q # r => request[q].at = "idle"
    BY <1>2 DEF OneInv, OneRequest, UnderWay
  <2> QED BY <1>1, <1>2, <2>1, RestTyped
<1> DEFINE next == [Nothing EXCEPT !.id = request[r].id, !.secret = request[r].secret,
                                   !.key = stored.key, !.code = stored.code]
           new == [at |-> "poll", mem |-> next, via |-> None]
<1>4. stored' = next /\ inst' = [inst EXCEPT ![i] = new]
  BY <1>1, <1>2 DEF Enrolled
<1>5. /\ next.id = request[r].id /\ next.secret = request[r].secret /\ next.key = stored.key /\ next.code = stored.code
      /\ next.cert = None /\ ~next.ended
  BY DEF Nothing
<1>6. new.at = "poll" /\ new.mem = next
  OBVIOUS
<1> HIDE DEF next, new
<1>7. MemoryStored' /\ inst'[i] = new /\ \A j \in Instances : j = i
  BY <1>4, <1>6, AloneStores
<1>8. ASSUME NEW a \in AgentIds, agents[a].status = "pending" PROVE StoreHolds(a)'
  <2>1. request[r].id = a /\ request[r].secret = agents[a].secret
    BY <1>2, <1>8 DEF OneInv, AnswerHolds, Pending
  <2>2. stored.key = agents[a].key /\ stored.code = agents[a].hash.code /\ agents[a].secret # None
    BY <1>8 DEF OneInv, StoreHolds, Pending
  <2> QED BY <1>1, <1>4, <1>5, <1>6, <1>7, <2>1, <2>2 DEF StoreHolds
<1>9. \A a \in AgentIds : StoreHolds(a)'
  BY <1>1, <1>8 DEF StoreHolds, Pending
<1> QED BY <1>3, <1>7, <1>9, NoneUnderWay

\* A refusal ends the agent only when nothing waits, and a conflict ends nothing.
LEMMA OneEnrollRefused ==
  ASSUME Inv, AgentInv, OneInv, OneInstance, AgentInv', OneRow', NEW i \in Instances, EnrollRefused(i) PROVE OneInv'
<1>1. /\ inst[i].at = "asked" /\ InstanceFits(i) /\ UNCHANGED agents /\ request \in [Requesters -> Request]
      /\ inst' = [inst EXCEPT ![i] = Down]
  BY AgentFacts DEF EnrollRefused, server
<1>2. PICK r \in Requesters : /\ r = inst[i].via /\ request[r].at \in {"refused", "conflict"}
                              /\ request' = [request EXCEPT ![r] = NoRequest]
                              /\ request[r].at = "conflict" => stored' = stored
  BY <1>1 DEF EnrollRefused, InstanceFits
<1>3. \A q \in Requesters : request'[q].at = "idle"
  <2>1. \A q \in Requesters : q # r => request[q].at = "idle"
    BY <1>2 DEF OneInv, OneRequest, UnderWay
  <2> QED BY <1>1, <1>2, <2>1, RestTyped
<1>4. MemoryStored' /\ inst'[i] = Down /\ \A j \in Instances : j = i
  BY <1>1, RestTyped, AloneStores
<1>5. CASE request[r].at = "refused"
  <2>1. \A a \in AgentIds : agents'[a].status # "pending"
    BY <1>1, <1>5 DEF OneInv, AnswerHolds, Pending
  <2> QED BY <1>3, <1>4, <2>1, NothingWaits
<1>6. CASE request[r].at = "conflict"
  <2>1. \A a \in AgentIds : Waits(a)
    BY <1>1 DEF Waits
  <2>2. \A a \in AgentIds : StoreHolds(a)'
    BY <1>2, <1>4, <1>6, <2>1, RestTyped, StoreWaits DEF OneInv
  <2> QED BY <1>3, <1>4, <2>2, NoneUnderWay
<1> QED BY <1>2, <1>5, <1>6

\* A crash or a lost answer: the request goes on without its sender.
LEMMA OneLost ==
  ASSUME Inv, AgentInv, OneInv, OneInstance, AgentInv', OneRow', NEW i \in Instances, Crash(i) \/ EnrollLost(i)
  PROVE  OneInv'
<1>1. /\ inst' = [inst EXCEPT ![i] = Down] /\ UNCHANGED <<agents, resuming, stored>> /\ TypeOK
      /\ request \in [Requesters -> Request] /\ \A q \in Requesters : request[q] \in Request
  BY AgentFacts DEF Crash, EnrollLost, server
<1>2. MemoryStored' /\ inst'[i] = Down /\ \A j \in Instances : j = i
  BY <1>1, RestTyped, AloneStores
<1>3. ASSUME NEW q \in Requesters
      PROVE  /\ request'[q].at = request[q].at /\ request'[q].key = request[q].key /\ request'[q].code = request[q].code
             /\ request'[q].id = request[q].id /\ request'[q].secret = request[q].secret /\ request'[q].from # i
  <2>1. i # None
    BY InstallAssumption
  <2>2. \/ request'[q] = request[q] /\ request[q].from # i
        \/ request'[q] = [request[q] EXCEPT !.from = None]
    <3>1. CASE Crash(i)
      BY <3>1 DEF Crash
    <3>2. CASE EnrollLost(i)
      <4>1. request' = [request EXCEPT ![inst[i].via].from = None]
        BY <3>2 DEF EnrollLost
      <4>2. request[q].from = i => q = inst[i].via
        BY DEF OneInv, OneRequest
      <4> QED BY <1>1, <4>1, <4>2
    <3> QED BY <3>1, <3>2
  <2> QED BY <1>1, <2>1, <2>2 DEF Request
<1>4. OneRequest'
  BY <1>1, <1>2, <1>3, RestTyped DEF OneInv, OneRequest, UnderWay
<1>5. \A a \in AgentIds : Waits(a)
  BY <1>1 DEF Waits
<1>6. \A q \in Requesters : AnswerHolds(q)'
  BY <1>1, <1>3, <1>5, AnswerWaits DEF OneInv
<1>7. \A a \in AgentIds : StoreHolds(a)'
  BY <1>1, <1>2, <1>5, RestTyped, StoreWaits DEF OneInv
<1> QED BY <1>2, <1>4, <1>6, <1>7 DEF OneInv

\* A step of the server on the one request that is under way.
LEMMA OneServes ==
  ASSUME OneInv, AgentInv, AgentInv', OneRow', NEW r \in Requesters, request[r].at # "idle",
         UNCHANGED <<stored, inst>>, \A q \in Requesters : q # r => request'[q] = request[q],
         request'[r].from = request[r].from, request'[r].key = request[r].key, request'[r].code = request[r].code,
         AnswerHolds(r)',
         \A a \in AgentIds : agents'[a].status = "pending" =>
           agents'[a].key = request[r].key /\ agents'[a].hash.code = request[r].code /\ agents'[a].secret # None
  PROVE  OneInv'
<1>1. /\ stored.id = None /\ stored.cert = None /\ ~stored.ended
      /\ stored.key = request[r].key /\ stored.code = request[r].code
      /\ \A i \in Instances : inst[i].at \in {"down", "send", "asked"}
      /\ \A q \in Requesters : q # r => request[q].at = "idle"
  BY DEF OneInv, OneRequest, UnderWay
<1>2. \A q \in Requesters : q # r => request'[q].at = "idle" /\ resuming'[q].at = "idle"
  BY <1>1 DEF AgentInv, RequestFits
<1>3. \A q \in Requesters : AnswerHolds(q)'
  BY <1>2 DEF AnswerHolds
<1>4. MemoryStored'
  BY DEF OneInv, MemoryStored
<1>5. OneRequest'
  BY <1>1, <1>2 DEF OneInv, OneRequest, UnderWay
<1>6. \A a \in AgentIds : StoreHolds(a)'
  BY <1>1 DEF StoreHolds, Pending
<1> QED BY <1>3, <1>4, <1>5, <1>6 DEF OneInv

\* While a request is under way, the row that waits is about its key and code.
LEMMA RowOfRequest ==
  ASSUME OneInv, NEW r \in Requesters, request[r].at # "idle", NEW a \in AgentIds, agents[a].status = "pending"
  PROVE  agents[a].key = request[r].key /\ agents[a].hash.code = request[r].code /\ agents[a].secret # None
BY DEF OneInv, OneRequest, StoreHolds, UnderWay, Pending

\* The token lets the agent in.
LEMMA OneFresh ==
  ASSUME Inv, AgentInv, OneInv, OneInstance, AgentInv', OneRow', NEW r \in Requesters,
         NEW a \in AgentIds, NEW s \in Secrets, HandleFresh(r, a, s)
  PROVE  OneInv'
<1>1. /\ TypeOK /\ OneRow /\ request[r] \in Request /\ request \in [Requesters -> Request] /\ s # None
      /\ request[r].at = "sent" /\ UNCHANGED <<stored, inst>> /\ resuming[r].at = "idle"
  BY AgentFacts, NoneAssumption DEF HandleFresh, OneInv, RequestFits
<1>2. /\ request'[r].at = "ok" /\ request'[r].id = a /\ request'[r].secret = s /\ request'[r].from = request[r].from
      /\ request'[r].key = request[r].key /\ request'[r].code = request[r].code
      /\ \A q \in Requesters : q # r => request'[q] = request[q]
  <2>1. request' = [request EXCEPT ![r] = [@ EXCEPT !.at = "ok", !.id = a, !.secret = s]]
    BY DEF HandleFresh
  <2> QED BY <1>1, <2>1 DEF Request
<1>3. \A b \in AgentIds : ~Exists(b)
  BY <1>1, FreshWrites, OneExists
<1>4. ASSUME NEW b \in AgentIds, agents'[b].status = "pending"
      PROVE  /\ b = a /\ agents'[b].secret = s /\ agents'[b].key = request[r].key
             /\ agents'[b].hash.code = request[r].code
  BY <1>1, <1>3, <1>4, FreshWrites DEF Exists
<1>5. resuming'[r].at = "idle"
  BY <1>1, FreshWrites
<1>6. AnswerHolds(r)'
  BY <1>2, <1>4, <1>5 DEF AnswerHolds, Pending
<1> QED BY <1>1, <1>2, <1>4, <1>6, OneServes

\* A spent token's request is taken up, to be continued or opened again.
LEMMA OneResume ==
  ASSUME Inv, AgentInv, OneInv, OneInstance, AgentInv', OneRow', NEW r \in Requesters,
         NEW a \in AgentIds, NEW s \in Secrets, HandleResume(r, a, s)
  PROVE  OneInv'
<1>1. /\ TypeOK /\ request[r] \in Request /\ request \in [Requesters -> Request]
      /\ request[r].at = "sent" /\ UNCHANGED <<stored, inst, agents>>
      /\ ResumeRead(r, GivenToken, a, Cluster, request[r].key, request[r].code, s)
  BY AgentFacts DEF HandleResume, ResumeRead
<1>2. /\ request'[r].at = "resuming" /\ request'[r].from = request[r].from
      /\ request'[r].key = request[r].key /\ request'[r].code = request[r].code
      /\ \A q \in Requesters : q # r => request'[q] = request[q]
  <2>1. request' = [request EXCEPT ![r].at = "resuming"]
    BY DEF HandleResume
  <2> QED BY <1>1, <2>1 DEF Request
<1>3. /\ resuming'[r].agent = a /\ resuming'[r].reopen = (agents[a].status = "expired")
      /\ resuming'[r].at = IF Overdue(agents[a]) THEN "overdue" ELSE "write"
  <2>1. resuming \in [Requesters -> ResumeCall \cup {Idle}]
    BY <1>1 DEF TypeOK
  <2> QED BY <1>1, <2>1 DEF ResumeRead
<1>4. AnswerHolds(r)'
  BY <1>1, <1>2, <1>3 DEF AnswerHolds, Pending, Overdue
<1>5. \A b \in AgentIds : agents'[b].status = "pending" =>
        agents'[b].key = request[r].key /\ agents'[b].hash.code = request[r].code /\ agents'[b].secret # None
  BY <1>1, RowOfRequest
<1> QED BY <1>1, <1>2, <1>4, <1>5, OneServes

\* While a row waits, its agent's request is a conflict at most.
LEMMA OneRefused ==
  ASSUME Inv, AgentInv, OneInv, OneInstance, AgentInv', OneRow', NEW r \in Requesters, HandleRefused(r)
  PROVE  OneInv'
<1> DEFINE mine == {a \in AgentIds : SameEnrollment(GivenToken, a, Cluster, request[r].key)}
           waits == \E a \in mine : agents[a].status \in {"pending", "approved"}
<1>1. /\ request[r] \in Request /\ request \in [Requesters -> Request] /\ OneRow /\ resuming[r].at = "idle"
      /\ request[r].at = "sent" /\ UNCHANGED <<stored, inst, agents, resuming>>
      /\ request' = [request EXCEPT ![r].at = IF waits THEN "conflict" ELSE "refused"]
  BY AgentFacts DEF HandleRefused, OneInv, RequestFits, server
<1>2. ASSUME NEW a \in AgentIds, agents[a].status = "pending" PROVE waits
  <2>1. tokens[GivenToken].state = "used" /\ tokens[GivenToken].usedBy = a /\ Exists(a) /\ agents[a].fingerprint = Cluster
    BY <1>1, <1>2, OneExists, PendingFacts DEF Pending, Exists
  <2>2. agents[a].key = request[r].key
    BY <1>1, <1>2, RowOfRequest
  <2>3. a \in mine
    BY <2>1, <2>2 DEF SameEnrollment
  <2> QED BY <1>2, <2>3
<1> HIDE DEF waits
<1>3. /\ request'[r].at = (IF waits THEN "conflict" ELSE "refused") /\ request'[r].from = request[r].from
      /\ request'[r].key = request[r].key /\ request'[r].code = request[r].code
      /\ \A q \in Requesters : q # r => request'[q] = request[q]
  BY <1>1 DEF Request
<1>4. AnswerHolds(r)'
  BY <1>1, <1>2, <1>3 DEF AnswerHolds, Pending
<1>5. \A b \in AgentIds : agents'[b].status = "pending" =>
        agents'[b].key = request[r].key /\ agents'[b].hash.code = request[r].code /\ agents'[b].secret # None
  BY <1>1, RowOfRequest
<1> QED BY <1>1, <1>3, <1>4, <1>5, OneServes

\* The row has expired: it does not wait until it is opened again.
LEMMA OneOverdue ==
  ASSUME Inv, AgentInv, OneInv, OneInstance, AgentInv', OneRow', NEW r \in Requesters, HandleOverdue(r)
  PROVE  OneInv'
<1>1. /\ TypeOK /\ resuming[r].at = "overdue" /\ request[r].at = "resuming" /\ UNCHANGED <<stored, inst, request>>
      /\ resuming \in [Requesters -> ResumeCall \cup {Idle}] /\ \A a \in AgentIds : agents[a] \in Agent
      /\ \A a \in AgentIds : agents'[a] = Swept(agents[a])
      /\ resuming' = [resuming EXCEPT ![r] = [@ EXCEPT !.at = "write", !.reopen = TRUE]]
  BY AgentFacts DEF HandleOverdue, ResumeExpire, RequestFits, agent, TypeOK, Sweep
<1>2. resuming[r] \in ResumeCall
  BY <1>1 DEF Idle
<1>3. resuming'[r].at = "write" /\ resuming'[r].agent = resuming[r].agent /\ resuming[r].agent \in AgentIds
  BY <1>1, <1>2 DEF ResumeCall
<1>4. agents'[resuming[r].agent].status # "pending"
  <2> SUFFICES ASSUME agents'[resuming[r].agent].status = "pending" PROVE FALSE
    OBVIOUS
  <2>1. agents[resuming[r].agent].status = "pending" /\ agents[resuming[r].agent].age = "fresh"
    BY <1>1, <1>3, SweptWaits
  <2> QED BY <1>1, <2>1 DEF OneInv, AnswerHolds, Pending
<1>5. AnswerHolds(r)'
  BY <1>1, <1>3, <1>4 DEF AnswerHolds, Pending
<1>6. \A b \in AgentIds : agents'[b].status = "pending" => agents'[b] = agents[b]
  BY <1>1, SweptWaits
<1>7. \A b \in AgentIds : agents'[b].status = "pending" =>
        agents'[b].key = request[r].key /\ agents'[b].hash.code = request[r].code /\ agents'[b].secret # None
  BY <1>1, <1>6, RowOfRequest
<1> QED BY <1>1, <1>5, <1>7, OneServes

\* The row is opened again, or the poll secret of one that waits is replaced.
LEMMA OneWritten ==
  ASSUME Inv, AgentInv, OneInv, OneInstance, Inv', AgentInv', OneRow', NEW r \in Requesters, HandleWritten(r)
  PROVE  OneInv'
<1> DEFINE call == resuming[r]
<1>1. /\ TypeOK /\ resuming[r].at = "write" /\ request[r].at = "resuming" /\ UNCHANGED <<stored, inst>>
      /\ resuming \in [Requesters -> ResumeCall \cup {Idle}] /\ \A a \in AgentIds : agents[a] \in Agent
      /\ agents \in [AgentIds -> Agent] /\ request[r] \in Request /\ request \in [Requesters -> Request]
      /\ call.key = request[r].key /\ call.code = request[r].code /\ resuming'[r] = Idle /\ Idle.at = "idle"
  BY AgentFacts DEF HandleWritten, ResumeWrite, RequestFits, TypeOK, Idle
<1>2. resuming[r] \in ResumeCall
  BY <1>1
<1>3. call.agent \in AgentIds /\ call.secret \in Secrets /\ call.secret # None
  BY <1>2, NoneAssumption DEF ResumeCall
<1>4. /\ request'[r].at = "ok" /\ request'[r].id = call.agent /\ request'[r].secret = call.secret
      /\ request'[r].from = request[r].from /\ request'[r].key = request[r].key /\ request'[r].code = request[r].code
      /\ \A q \in Requesters : q # r => request'[q] = request[q]
  <2>1. request' = [request EXCEPT ![r] = [@ EXCEPT !.at = "ok", !.id = resuming[r].agent, !.secret = resuming[r].secret]]
    BY DEF HandleWritten
  <2> QED BY <1>1, <2>1 DEF Request
<1>5. \/ call.reopen /\ agents' = [agents EXCEPT ![call.agent] = Reopened(@, call)]
      \/ ContinueAllowed(call.agent) /\ agents' = [agents EXCEPT ![call.agent].secret = call.secret]
  BY DEF HandleWritten, ResumeWrite, ResumeAllowed
<1>6. PICK a \in AgentIds : a = call.agent
  BY <1>3
<1>7. /\ agents'[a].secret = call.secret /\ agents'[a].status \in {"pending", "approved"}
      /\ agents'[a].status = "pending" => agents'[a].key = request[r].key /\ agents'[a].hash.code = request[r].code
  <2>1. CASE call.reopen /\ agents' = [agents EXCEPT ![a] = Reopened(@, call)]
    <3>1. agents'[a] = Reopened(agents[a], call) /\ agents[a] \in Agent
      BY <1>1, <2>1
    <3> QED BY <1>1, <3>1 DEF Reopened, Agent
  <2>2. CASE ContinueAllowed(a) /\ agents' = [agents EXCEPT ![a].secret = call.secret]
    <3>1. /\ agents'[a].secret = call.secret /\ agents'[a].status = agents[a].status
          /\ agents'[a].key = agents[a].key /\ agents'[a].hash = agents[a].hash
      BY <1>1, <2>2 DEF Agent
    <3>2. agents[a].status \in {"pending", "approved"}
      BY <2>2 DEF ContinueAllowed
    <3> QED BY <1>1, <3>1, <3>2, RowOfRequest
  <2> QED BY <1>5, <1>6, <2>1, <2>2
<1>8. ASSUME NEW b \in AgentIds, agents'[b].status = "pending"
      PROVE  /\ b = call.agent /\ agents'[b].secret = call.secret
             /\ agents'[b].key = request[r].key /\ agents'[b].hash.code = request[r].code
  <2>1. (Exists(a))' /\ (Exists(b))'
    BY <1>7, <1>8 DEF Exists
  <2>2. a = b
    BY <2>1, OneExistsNext
  <2> QED BY <1>6, <1>7, <1>8, <2>2
<1>9. AnswerHolds(r)'
  BY <1>1, <1>4, <1>8 DEF AnswerHolds, Pending
<1>10. \A b \in AgentIds : agents'[b].status = "pending" =>
        agents'[b].key = request[r].key /\ agents'[b].hash.code = request[r].code /\ agents'[b].secret # None
  BY <1>3, <1>8
<1> QED BY <1>1, <1>4, <1>9, <1>10, OneServes

\* It is too late for the row: then it does not wait.
LEMMA OneTooLate ==
  ASSUME Inv, AgentInv, OneInv, OneInstance, AgentInv', OneRow', NEW r \in Requesters, HandleTooLate(r)
  PROVE  OneInv'
<1>1. /\ TypeOK /\ resuming[r].at = "write" /\ request[r].at = "resuming" /\ UNCHANGED <<stored, inst, agents>>
      /\ resuming \in [Requesters -> ResumeCall \cup {Idle}] /\ ~ResumeAllowed(resuming[r]) /\ OneRow
      /\ request[r] \in Request /\ request \in [Requesters -> Request] /\ resuming'[r] = Idle /\ Idle.at = "idle"
  BY AgentFacts DEF HandleTooLate, ResumeRefused, RequestFits, TypeOK, Idle, OneInv
<1>2. /\ request'[r].at = "refused" /\ request'[r].from = request[r].from
      /\ request'[r].key = request[r].key /\ request'[r].code = request[r].code
      /\ \A q \in Requesters : q # r => request'[q] = request[q]
  <2>1. request' = [request EXCEPT ![r].at = "refused"]
    BY DEF HandleTooLate
  <2> QED BY <1>1, <2>1 DEF Request
<1>3. ASSUME NEW a \in AgentIds, agents[a].status = "pending" PROVE FALSE
  <2>1. resuming[r].agent = a
    BY <1>1, <1>3, OneExists DEF Exists, OneRow
  <2>2. ~resuming[r].reopen
    BY <1>1, <1>3, <2>1 DEF OneInv, AnswerHolds, Pending
  <2> QED BY <1>1, <1>3, <2>1, <2>2 DEF ResumeAllowed, ContinueAllowed
<1>4. AnswerHolds(r)'
  BY <1>1, <1>2, <1>3 DEF AnswerHolds, Pending
<1> QED BY <1>1, <1>2, <1>3, <1>4, OneServes

\* The answer nobody waits for is dropped.
LEMMA OneDrop ==
  ASSUME Inv, AgentInv, OneInv, OneInstance, AgentInv', OneRow', NEW r \in Requesters, Drop(r)
  PROVE  OneInv'
<1>1. /\ request[r].at # "idle" /\ UNCHANGED <<stored, inst, agents>>
      /\ request' = [request EXCEPT ![r] = NoRequest] /\ request \in [Requesters -> Request]
  BY AgentFacts DEF Drop, server
<1>2. \A q \in Requesters : request'[q].at = "idle"
  <2>1. \A q \in Requesters : q # r => request[q].at = "idle"
    BY <1>1 DEF OneInv, OneRequest, UnderWay
  <2> QED BY <1>1, <2>1, RestTyped
<1>3. \A a \in AgentIds : StoreHolds(a)'
  <2>1. \A a \in AgentIds : Waits(a)
    BY <1>1 DEF Waits
  <2> QED BY <1>1, <2>1, StoreWaits DEF OneInv
<1>4. MemoryStored'
  BY <1>1 DEF OneInv, MemoryStored
<1> QED BY <1>2, <1>3, <1>4, NoneUnderWay

\* At the start nothing is stored and nothing waits.
LEMMA OneStartsEmpty == AgentInit => OneInv
<1> SUFFICES ASSUME AgentInit PROVE OneInv
  OBVIOUS
<1>1. /\ \A t \in Tokens : tokens[t].state = "none"
      /\ \A a \in AgentIds : agents[a].status = "absent"
      /\ \A i \in Instances : inst[i].at = "down"
      /\ \A r \in Requesters : request[r] = NoRequest /\ resuming[r].at = "idle"
      /\ \A i \in Renewers : renewing[i].at = "idle"
  BY RestTyped DEF AgentInit, Init, NoToken, NoAgent, Idle
<1>2. \A r \in Requesters : request[r].at = "idle" /\ \A i \in Instances : request[r].from # i
  BY <1>1, RestTyped, InstallAssumption
<1> QED BY <1>1, <1>2 DEF OneInv, OneRow, MemoryStored, OneRequest, AnswerHolds, StoreHolds, UnderWay, Pending, Exists

\* Whatever happens to an agent that runs once.
LEMMA OneStep ==
  ASSUME OneInstance, Inv, AgentInv, OneInv, [AgentNext]_allVars PROVE OneInv'
<1>1. Inv' /\ AgentInv' /\ OneRow' /\ TypeOK
  BY ServedByAdmission, InvStep, AgentStep, OneRowStep DEF OneInv, Inv
<1>2. CASE \E r \in Requesters : Serve(r)
  BY <1>1, <1>2, OneFresh, OneResume, OneRefused, OneOverdue, OneWritten, OneTooLate, OneDrop DEF Serve
<1>3. ASSUME Aside, UNCHANGED <<stored, inst, request>> PROVE OneInv'
  BY <1>1, <1>3, AsideMoves, Undisturbed DEF OneInv
<1>4. CASE \E i \in Instances : ServeRenewal(i)
  BY <1>3, <1>4 DEF ServeRenewal, RenewServed, RenewAnswered, RenewFails, Aside, agent
<1>5. CASE \E i \in Instances : Works(i)
  <2>1. PICK i \in Instances : Works(i)
    BY <1>5
  <2>2. CASE PollOverdue(i)
    BY <1>3, <2>2 DEF PollOverdue, Aside, agent
  <2> QED BY <1>1, <2>1, <2>2, OneStart, OneEnrolled, OneEnrollRefused, OnePrepare, OneAsk, OnePoll, OneConnection DEF Works
<1>6. CASE Happens
  <2>1. CASE /\ \/ CreateToken(GivenToken, 0, None) \/ TokenLapses(GivenToken) \/ ApproveStep
                \/ \E a \in AgentIds : Reject(a) \/ Revoke(a) \/ Ages(a)
                \/ ExpirePending
             /\ UNCHANGED agent
    BY <1>3, <2>1 DEF Aside, agent
  <2>2. CASE \E i \in Instances : Crash(i) \/ EnrollLost(i) \/ Disconnect(i)
    BY <1>1, <2>2, OneLost, OneConnection
  <2>3. CASE \E i \in Instances : RenewLost(i)
    BY <1>3, <2>3 DEF RenewLost, Aside
  <2>4. CASE \E i \in Instances, k \in Keys : RenewAsk(i, k)
    <3>1. PICK i \in Instances, k \in Keys : RenewAsk(i, k)
      BY <2>4
    <3>2. inst[i].mem.id \in AgentIds /\ RenewRead(i, inst[i].mem.id, k, TRUE) /\ UNCHANGED <<stored, inst, request>>
      BY <3>1, AgentFacts DEF RenewAsk, InstanceFits, Identity
    <3>3. Aside
      BY <3>2 DEF Aside
    <3> QED BY <1>3, <3>2, <3>3
  <2> QED BY <1>6, <2>1, <2>2, <2>3, <2>4 DEF Happens
<1>7. CASE UNCHANGED allVars
  BY <1>3, <1>7 DEF allVars, agent, Aside
<1> QED BY <1>2, <1>4, <1>5, <1>6, <1>7 DEF AgentNext

\* In every state of an agent that runs once, OneInv holds.
THEOREM OneAlwaysInv == ASSUME OneInstance PROVE AgentSpec => []OneInv
<1>1. AgentInit => Inv
  BY InvInit DEF AgentInit
<1>2. Inv /\ AgentInv /\ [AgentNext]_allVars => Inv'
  BY ServedByAdmission, InvStep
<1>3. Inv /\ AgentInv /\ OneInv /\ [AgentNext]_allVars => OneInv'
  BY OneStep
<1> QED BY <1>1, <1>2, <1>3, OneStartsEmpty, AgentAlwaysInv, PTL DEF AgentSpec

\* The key of a request that waits for approval is the stored one, whatever crashed or got lost, for
\* an agent that runs once and whose server is done with one attempt before the next (sendEnrollment).
THEOREM KeyNotForgottenCorrect == ASSUME OneInstance PROVE AgentSpec => []KeyNotForgotten
<1>1. OneInv => KeyNotForgotten
  BY DEF OneInv, StoreHolds, Pending, KeyNotForgotten
<1> QED BY <1>1, OneAlwaysInv, PTL

\* So is the code that approves it, which the agent shows again after a restart (sendEnrollment,
\* awaitApproval).
THEOREM CodeIsShownCorrect == ASSUME OneInstance PROVE AgentSpec => []CodeIsShown
<1>1. OneInv => CodeIsShown
  BY DEF OneInv, StoreHolds, Pending, CodeIsShown
<1> QED BY <1>1, OneAlwaysInv, PTL

\* And its agent never gives it up: no refusal, poll or conflict that may still arrive ends an agent
\* whose request waits (enroll.go, Enroll).
THEOREM WaitingIsNotEndedCorrect == ASSUME OneInstance PROVE AgentSpec => []WaitingIsNotEnded
<1>1. OneInv => WaitingIsNotEnded
  BY DEF OneInv, StoreHolds, Pending, WaitingIsNotEnded
<1> QED BY <1>1, OneAlwaysInv, PTL

-----------------------------------------------------------------------------
\* What is stored is the truth

\* A step at which an instance goes on with another memory, or as it was.
LEMMA MarkKeeps ==
  ASSUME AgentInv, MarkInv, NEW i \in Instances, NEW new, inst' = [inst EXCEPT ![i] = new],
         ~new.mem.ended, new.at = "poll" => new.mem.cert = None, stored'.ended => stored'.cert = None
  PROVE  MarkInv'
<1>1. \A j \in Instances : inst'[j] = inst[j] \/ inst'[j] = new
  BY AgentFacts
<1> QED BY <1>1 DEF MarkInv

\* The identities that are stored on the way.
LEMMA MarksTyped ==
  /\ ~Nothing.ended /\ ~Down.mem.ended
  /\ \A id : Ended(id).cert = None
  /\ \A k, c : ~Prepared(k, c).ended
BY DEF Nothing, Down, Ended, Prepared

\* What a process does, and what happens to it.
LEMMA MarkStep ==
  ASSUME OneInstance, Inv, AgentInv, OneInv, MarkInv, [AgentNext]_allVars PROVE MarkInv'
<1>1. CASE UNCHANGED <<stored, inst>>
  BY <1>1 DEF MarkInv
<1>2. ASSUME NEW i \in Instances, NEW place \in {"down", "send", "asked", "connecting", "connected", "leaving"},
             inst' = [inst EXCEPT ![i].at = place], stored'.ended => stored'.cert = None
      PROVE  MarkInv'
  <2>0. inst[i] \in Instance /\ inst \in [Instances -> Instance]
    BY AgentFacts
  <2> DEFINE new == [inst[i] EXCEPT !.at = place]
  <2>1. new.at = place /\ new.mem = inst[i].mem
    BY <2>0 DEF Instance
  <2>2. inst' = [inst EXCEPT ![i] = new]
    BY <1>2, <2>0
  <2> HIDE DEF new
  <2> QED BY <1>2, <2>1, <2>2, MarkKeeps DEF MarkInv
<1>3. ASSUME NEW i \in Instances, inst' = [inst EXCEPT ![i] = Down], stored'.ended => stored'.cert = None
      PROVE  MarkInv'
  BY <1>3, RestTyped, MarksTyped, MarkKeeps
<1>4. ASSUME NEW i \in Instances, Start(i) PROVE MarkInv'
  <2> DEFINE new == [at |-> CASE stored.cert # None -> "connecting"
                              [] stored.cert = None /\ stored.id # None -> "poll"
                              [] OTHER -> "send",
                     mem |-> stored, via |-> None]
  <2>1. inst' = [inst EXCEPT ![i] = new] /\ ~stored.ended /\ stored' = stored
    BY <1>4 DEF Start
  <2>2. new.mem = stored /\ (new.at = "poll" => stored.cert = None)
    OBVIOUS
  <2> HIDE DEF new
  <2> QED BY <2>1, <2>2, MarkKeeps
<1>5. ASSUME NEW i \in Instances, NEW k \in Keys, NEW c \in Codes, Prepare(i, k, c) PROVE MarkInv'
  <2> DEFINE next == Prepared(IF inst[i].mem.key = None THEN k ELSE inst[i].mem.key, c)
  <2>1. inst[i].at = "send" /\ stored' = next /\ inst' = [inst EXCEPT ![i].mem = next]
    BY <1>5 DEF Prepare, Prepared
  <2>2. ~next.ended /\ next \in Identity
    <3>1. (IF inst[i].mem.key = None THEN k ELSE inst[i].mem.key) \in Keys \cup {None}
      BY AgentFacts DEF Identity
    <3> QED BY <3>1, PreparedTyped
  <2> HIDE DEF next
  <2>3. PICK new \in Instance : new = [inst[i] EXCEPT !.mem = next] /\ new.at = inst[i].at /\ new.mem = next
    BY <2>2, AgentFacts, MemoryTyped
  <2>4. inst' = [inst EXCEPT ![i] = new]
    BY <2>1, <2>3, AgentFacts
  <2>5. new.at # "poll" /\ ~new.mem.ended /\ ~stored'.ended
    BY <2>1, <2>2, <2>3
  <2> QED BY <2>4, <2>5, MarkKeeps
<1>6. ASSUME NEW i \in Instances, NEW r \in Requesters, Ask(i, r) PROVE MarkInv'
  <2> DEFINE new == [inst[i] EXCEPT !.at = "asked", !.via = r]
  <2>1. inst' = [inst EXCEPT ![i] = new] /\ stored' = stored
    BY <1>6, AgentFacts DEF Ask
  <2>2. new.at = "asked" /\ new.mem = inst[i].mem
    BY AgentFacts DEF Instance
  <2> HIDE DEF new
  <2> QED BY <2>1, <2>2, MarkKeeps DEF MarkInv
<1>7. ASSUME NEW i \in Instances, Enrolled(i) PROVE MarkInv'
  <2> DEFINE r == inst[i].via
             next == [Nothing EXCEPT !.id = request[r].id, !.secret = request[r].secret,
                                     !.key = inst[i].mem.key, !.code = inst[i].mem.code]
  <2>1. stored' = next /\ inst' = [inst EXCEPT ![i] = [at |-> "poll", mem |-> next, via |-> None]]
    BY <1>7 DEF Enrolled
  <2>3. ~next.ended /\ next.cert = None
    BY DEF Nothing
  <2> HIDE DEF next
  <2> DEFINE new == [at |-> "poll", mem |-> next, via |-> None]
  <2>2. new.mem = next /\ inst' = [inst EXCEPT ![i] = new]
    BY <2>1
  <2> HIDE DEF new
  <2> QED BY <2>1, <2>2, <2>3, MarkKeeps
<1>8. ASSUME NEW i \in Instances, PollUnknown(i) PROVE MarkInv'
  <2>1. inst[i].mem = stored
    BY <1>8 DEF OneInv, MemoryStored, PollUnknown
  <2> QED BY <1>3, <1>8, <2>1, MarksTyped DEF PollUnknown
<1>9. ASSUME NEW i \in Instances, PollApproved(i) PROVE MarkInv'
  <2>1. CASE agents[inst[i].mem.id].leaf = inst[i].mem.key
    <3> DEFINE mem == inst[i].mem
               next == [mem EXCEPT !.cert = agents[mem.id].leaf, !.secret = None, !.code = None]
               new == [inst[i] EXCEPT !.at = "connecting", !.mem = next]
    <3>1. stored' = next /\ inst' = [inst EXCEPT ![i] = new]
      BY <1>9, <2>1, AgentFacts DEF PollApproved
    <3>2. next.ended = mem.ended /\ new.at = "connecting" /\ new.mem = next
      BY AgentFacts DEF Identity, Instance
    <3> HIDE DEF next, new
    <3> QED BY <3>1, <3>2, MarkKeeps DEF MarkInv
  <2>2. CASE agents[inst[i].mem.id].leaf # inst[i].mem.key
    BY <1>3, <1>9, <2>2 DEF PollApproved, MarkInv
  <2> QED BY <2>1, <2>2
<1>10. ASSUME NEW i \in Instances, NEW c \in Codes, PollExpired(i, c) PROVE MarkInv'
  <2> DEFINE next == Prepared(inst[i].mem.key, c)
  <2>1. /\ stored' = next /\ inst' = [inst EXCEPT ![i] = [at |-> "send", mem |-> next, via |-> None]]
        /\ ~next.ended
    BY <1>10, ExpiredFacts, MarksTyped
  <2> HIDE DEF next
  <2> DEFINE new == [at |-> "send", mem |-> next, via |-> None]
  <2>2. new.at = "send" /\ new.mem = next /\ inst' = [inst EXCEPT ![i] = new]
    BY <2>1
  <2> HIDE DEF new
  <2> QED BY <2>1, <2>2, MarkKeeps
<1>11. ASSUME NEW i \in Instances, Connect(i) PROVE MarkInv'
  BY <1>2, <1>11 DEF Connect, MarkInv
<1>12. ASSUME NEW i \in Instances,
              PollRejected(i) \/ EnrollRefused(i) \/ ConnectRefused(i) \/ Leave(i) \/ Crash(i) \/ EnrollLost(i)
       PROVE  MarkInv'
  <2>1. stored' = stored \/ \E id : stored' = Ended(id)
    BY <1>12 DEF PollRejected, EnrollRefused, ConnectRefused, Leave, Crash, EnrollLost
  <2>2. inst' = [inst EXCEPT ![i] = Down]
    BY <1>12 DEF PollRejected, EnrollRefused, ConnectRefused, Leave, Crash, EnrollLost
  <2> QED BY <1>3, <2>1, <2>2, MarksTyped DEF MarkInv
<1>13. ASSUME NEW i \in Instances, ToldRevoked(i) \/ RenewSave(i) \/ Disconnect(i) PROVE MarkInv'
  <2>1. stored'.ended => stored'.cert = None
    BY <1>13, MarksTyped DEF ToldRevoked, RenewSave, Disconnect, Nothing, MarkInv
  <2>2. inst' = [inst EXCEPT ![i].at = "leaving"]
    BY <1>13 DEF ToldRevoked, RenewSave, Disconnect
  <2> QED BY <1>2, <2>1, <2>2
<1>14. CASE \E r \in Requesters : Serve(r)
  BY <1>1, <1>14 DEF Serve, HandleFresh, HandleResume, HandleRefused, HandleOverdue, HandleWritten, HandleTooLate, Drop, agent
<1>15. CASE \E i \in Instances : ServeRenewal(i)
  BY <1>1, <1>15 DEF ServeRenewal, RenewServed, RenewAnswered, RenewFails, agent
<1>16. CASE \E i \in Instances : Works(i)
  <2>1. PICK i \in Instances : Works(i)
    BY <1>16
  <2>2. CASE PollOverdue(i)
    BY <1>1, <2>2 DEF PollOverdue, agent
  <2> QED BY <1>4, <1>5, <1>6, <1>7, <1>8, <1>9, <1>10, <1>11, <1>12, <1>13, <2>1, <2>2 DEF Works
<1>17. CASE Happens
  BY <1>1, <1>12, <1>13, <1>17 DEF Happens, RenewLost, RenewAsk, agent
<1>18. CASE UNCHANGED allVars
  BY <1>1, <1>18 DEF allVars, agent
<1> QED BY <1>14, <1>15, <1>16, <1>17, <1>18 DEF AgentNext

\* An end is only written over a certificate whose agent is over.
LEMMA EndOfCertified ==
  ASSUME OneInstance, Inv, AgentInv, OneInv, MarkInv, [AgentNext]_allVars,
         NEW a \in AgentIds, stored.cert # None, agents[a].status = "approved"
  PROVE  ~stored'.ended
<1>1. ~stored.ended
  BY DEF MarkInv
<1>2. ASSUME NEW i \in Instances, inst[i].at \in {"send", "asked", "poll"} PROVE FALSE
  BY <1>2 DEF OneInv, MemoryStored, MarkInv
<1>3. ASSUME NEW b \in AgentIds, agents[b].status \in {"revoked", "rejected"} PROVE FALSE
  <2>1. Exists(a) /\ Exists(b) /\ a # b
    BY <1>3 DEF Exists
  <2> QED BY <2>1, OneExists DEF OneInv
<1>4. ASSUME NEW i \in Instances, ConnectRefused(i) \/ ToldRevoked(i) PROVE stored' = stored
  <2>1. inst[i].mem.id \in AgentIds
    <3>1. inst[i].at \in {"connecting", "connected"}
      BY <1>4 DEF ConnectRefused, ToldRevoked
    <3> QED BY <3>1, AgentFacts DEF InstanceFits, Identity
  <2> QED BY <1>3, <1>4, <2>1 DEF ConnectRefused, ToldRevoked
<1>5. ASSUME NEW i \in Instances, Works(i) PROVE ~stored'.ended
  <2>1. CASE Start(i) \/ PollOverdue(i) \/ Leave(i)
    BY <1>1, <2>1 DEF Start, PollOverdue, Leave, agent
  <2>2. CASE \/ Enrolled(i) \/ EnrollRefused(i) \/ PollUnknown(i) \/ PollApproved(i) \/ PollRejected(i)
             \/ \E k \in Keys, c \in Codes : Prepare(i, k, c)
             \/ \E c \in Codes : PollExpired(i, c)
             \/ \E r \in Requesters : Ask(i, r)
    BY <1>2, <2>2 DEF Enrolled, EnrollRefused, PollUnknown, PollApproved, PollRejected, Prepare, PollExpired, Ask
  <2>3. CASE Connect(i)
    BY <1>1, <2>3 DEF Connect, MarkInv
  <2>4. CASE RenewSave(i)
    BY <2>4 DEF RenewSave, Nothing
  <2> QED BY <1>1, <1>4, <1>5, <2>1, <2>2, <2>3, <2>4 DEF Works
<1>6. CASE (\E r \in Requesters : Serve(r)) \/ (\E i \in Instances : ServeRenewal(i)) \/ UNCHANGED allVars
  BY <1>1, <1>6 DEF Serve, HandleFresh, HandleResume, HandleRefused, HandleOverdue, HandleWritten, HandleTooLate, Drop,
                    ServeRenewal, RenewServed, RenewAnswered, RenewFails, agent, allVars
<1>7. CASE Happens
  BY <1>1, <1>7 DEF Happens, Crash, EnrollLost, Disconnect, RenewLost, RenewAsk, agent
<1> QED BY <1>5, <1>6, <1>7 DEF AgentNext

\* An agent that runs once never takes an approved identity for one that is over: no poll with an
\* earlier secret, refusal or revocation of another row puts the mark of an end over a stored
\* certificate (awaitApproval, run.go).
THEOREM StoredIsTruthCorrect == ASSUME OneInstance PROVE AgentSpec => StoredIsTruth
<1>1. AgentInit => Inv /\ MarkInv
  BY InvInit, MarksTyped DEF AgentInit, MarkInv, Nothing, Down
<1>2. Inv /\ AgentInv /\ [AgentNext]_allVars => Inv'
  BY ServedByAdmission, InvStep
<1>3. Inv /\ AgentInv /\ OneInv /\ MarkInv /\ [AgentNext]_allVars => MarkInv'
  BY MarkStep
<1>4. Inv /\ AgentInv /\ OneInv /\ MarkInv /\ [AgentNext]_allVars =>
        [\A a \in AgentIds : stored.cert # None /\ agents[a].status = "approved" => ~stored'.ended]_allVars
  BY EndOfCertified
<1> QED BY <1>1, <1>2, <1>3, <1>4, AgentAlwaysInv, OneAlwaysInv, PTL DEF AgentSpec, StoredIsTruth
=============================================================================
