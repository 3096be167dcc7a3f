----------------------------- MODULE Admission -----------------------------
(***************************************************************************)
(* The server's side of admission: enrollment tokens, the agents table and *)
(* the handlers that change them (backend/internal/agents over             *)
(* backend/internal/store).  Requests come from an open environment: any   *)
(* caller may send anything at any time, and a handler that reads a row    *)
(* and writes it later is two or three steps, so that any other handler    *)
(* may run in between.                                                     *)
(*                                                                         *)
(* Time is the age of a row: "fresh", "overdue" (older than the pending    *)
(* lifetime) or "stale" (older than ExpiredKeep, counted from the same     *)
(* created_at).                                                            *)
(***************************************************************************)
EXTENDS Integers, FiniteSets

CONSTANTS
  Tokens, AgentIds, Clusters, Keys, Codes, Secrets,
  Approvers,            \* concurrent Approve handlers
  Requesters,           \* concurrent Enroll handlers on the resume path
  Renewers,             \* concurrent Renew and Rejoin handlers
  MaxApprovalAttempts, ImplementedTier, MaxTier,
  CountCap,             \* bound of the model: how far approval_attempts may run
  None                  \* the SQL NULL, and "any cluster" of a token

ASSUME AttemptsAssumption == MaxApprovalAttempts \in Nat \ {0} /\ CountCap \in Nat
ASSUME TierAssumption ==
  /\ ImplementedTier \in Nat
  /\ MaxTier \in Nat
  /\ ImplementedTier <= MaxTier
ASSUME NoneAssumption ==
  None \notin Tokens \cup AgentIds \cup Clusters \cup Keys \cup Codes \cup Secrets

VARIABLES
  tokens,      \* the tokens table
  agents,      \* the agents table
  approving,   \* Approve handlers between their read and their write
  resuming,    \* Enroll handlers between AgentByToken and ResumeEnrollment
  renewing,    \* Renew and Rejoin handlers between AuthorizeAgent and SetLeaf
  compared,    \* history: codes compared since the request was last opened
  registered   \* history: every code hash an agent ever registered

vars == <<tokens, agents, approving, resuming, renewing, compared, registered>>
calls == <<approving, resuming, renewing>>
history == <<compared, registered>>

Tiers == 0..MaxTier
Hashes == [code : Codes, key : Keys]

Token == [state : {"none", "unused", "used", "deleted"}, cap : Tiers,
          for : Clusters \cup {None}, lapsed : BOOLEAN, usedBy : AgentIds \cup {None}]

Status == {"absent", "pending", "approved", "rejected", "revoked",
           "expired", "purged"}

Agent == [status : Status, token : Tokens \cup {None},
          fingerprint : Clusters \cup {None}, key : Keys \cup {None},
          hash : Hashes \cup {None}, secret : Secrets \cup {None},
          attempts : Nat, installed : Tiers, cap : Tiers, tier : Tiers,
          leaf : Keys \cup {None},
          age : {"fresh", "overdue", "stale"},
          proof : Hashes \cup {None}]   \* history: the code that was confirmed

NoToken == [state |-> "none", cap |-> 0, for |-> None, lapsed |-> FALSE,
            usedBy |-> None]
NoAgent == [status |-> "absent", token |-> None, fingerprint |-> None,
            key |-> None, hash |-> None, secret |-> None, attempts |-> 0,
            installed |-> 0, cap |-> 0, tier |-> 0, leaf |-> None,
            age |-> "fresh", proof |-> None]
Purged == [NoAgent EXCEPT !.status = "purged"]

Idle == [at |-> "idle"]

\* What an Approve handler carries: the row as it read it, then the count it got.
ApproveCall == [at : {"read", "counted"}, agent : AgentIds, row : Agent, code : Codes,
                tier : Tiers, n : Nat]

ResumeCall == [at : {"overdue", "write"}, agent : AgentIds, reopen : BOOLEAN,
               code : Codes, key : Keys, secret : Secrets]

RenewCall == [at : {"authorized", "clear"}, agent : AgentIds, key : Keys, clears : BOOLEAN]

TypeOK ==
  /\ tokens \in [Tokens -> Token]
  /\ agents \in [AgentIds -> Agent]
  /\ approving \in [Approvers -> ApproveCall \cup {Idle}]
  /\ resuming \in [Requesters -> ResumeCall \cup {Idle}]
  /\ renewing \in [Renewers -> RenewCall \cup {Idle}]
  /\ compared \in [AgentIds -> Nat]
  /\ registered \in [AgentIds -> SUBSET Hashes]

Init ==
  /\ tokens = [t \in Tokens |-> NoToken]
  /\ agents = [a \in AgentIds |-> NoAgent]
  /\ approving = [p \in Approvers |-> Idle]
  /\ resuming = [r \in Requesters |-> Idle]
  /\ renewing = [r \in Renewers |-> Idle]
  /\ compared = [a \in AgentIds |-> 0]
  /\ registered = [a \in AgentIds |-> {}]

-----------------------------------------------------------------------------
\* Tokens

\* Mutant: the token's limit is forgotten.
CheckTierWithoutToken(tier, installed, cap) ==
  tier >= 0 /\ tier <= ImplementedTier /\ tier <= installed

CheckTier(tier, installed, cap) ==
  /\ tier >= 0
  /\ tier <= ImplementedTier
  /\ tier <= installed
  /\ tier <= cap

GrantableTier(tier) == CheckTier(tier, ImplementedTier, ImplementedTier)

CreateToken(t, tier, for) ==
  /\ tokens[t].state = "none"
  /\ GrantableTier(tier)
  /\ tokens' = [tokens EXCEPT ![t] = [NoToken EXCEPT !.state = "unused",
                                                     !.cap = tier, !.for = for]]
  /\ UNCHANGED <<agents, calls, history>>

DeleteToken(t) ==
  /\ tokens[t].state = "unused"
  /\ tokens' = [tokens EXCEPT ![t].state = "deleted"]
  /\ UNCHANGED <<agents, calls, history>>

\* An hour passes since the token was created.
TokenLapses(t) ==
  /\ tokens[t].state = "unused"
  /\ ~tokens[t].lapsed
  /\ tokens' = [tokens EXCEPT ![t].lapsed = TRUE]
  /\ UNCHANGED <<agents, calls, history>>

\* Mutant: the update forgets "used_at IS NULL".
TokenValidAgain(t) == tokens[t].state \in {"unused", "used"} /\ ~tokens[t].lapsed

TokenValid(t) == tokens[t].state = "unused" /\ ~tokens[t].lapsed

-----------------------------------------------------------------------------
\* Enrollment

\* The table holds a row for this identity.
Exists(a) == agents[a].status \notin {"absent", "purged"}

\* The token is consumed and the pending row inserted in one transaction.
EnrollAgent(t, a, f, k, c, s, installed) ==
  /\ TokenValid(t)
  /\ tokens[t].for \in {None, f}
  /\ agents[a].status = "absent"
  /\ tokens' = [tokens EXCEPT ![t] = [@ EXCEPT !.state = "used", !.usedBy = a]]
  /\ agents' = [agents EXCEPT ![a] =
       [NoAgent EXCEPT !.status = "pending", !.token = t, !.fingerprint = f,
                       !.key = k, !.hash = [code |-> c, key |-> k],
                       !.secret = s, !.installed = installed,
                       !.cap = tokens[t].cap]]
  /\ registered' = [registered EXCEPT ![a] = @ \cup {[code |-> c, key |-> k]}]
  /\ UNCHANGED <<calls, compared>>

\* The row a spent token's request continues, if the same key and cluster ask again.
SameEnrollment(t, a, f, k) ==
  /\ tokens[t].state = "used"
  /\ tokens[t].usedBy = a
  /\ Exists(a)
  /\ agents[a].key = k
  /\ agents[a].fingerprint = f

\* Mutant: a request that was approved meanwhile is a conflict too.
MayResumeUnlessApproved(a, c) ==
  \/ /\ agents[a].status = "pending"
     /\ agents[a].hash.code = c
  \/ agents[a].status = "expired"

\* A different code on a live request is a conflict; a rejected or revoked one is over.
MayResume(a, c) ==
  \/ /\ agents[a].status \in {"pending", "approved"}
     /\ agents[a].hash.code = c
  \/ agents[a].status = "expired"

Overdue(row) == row.status = "pending" /\ row.age # "fresh"

ResumeRead(r, t, a, f, k, c, s) ==
  /\ resuming[r] = Idle
  /\ SameEnrollment(t, a, f, k)
  /\ MayResume(a, c)
  /\ resuming' = [resuming EXCEPT ![r] =
       [at |-> IF Overdue(agents[a]) THEN "overdue" ELSE "write", agent |-> a,
        reopen |-> agents[a].status = "expired", code |-> c, key |-> k, secret |-> s]]
  /\ UNCHANGED <<tokens, agents, approving, renewing, history>>

\* Every overdue pending row expires, then every expired row past ExpiredKeep is deleted.
Swept(row) ==
  LET dropped == IF Overdue(row) THEN [row EXCEPT !.status = "expired"] ELSE row
  IN  IF dropped.status = "expired" /\ dropped.age = "stale" THEN Purged ELSE dropped

Sweep == agents' = [a \in AgentIds |-> Swept(agents[a])]

ExpirePending ==
  /\ Sweep
  /\ UNCHANGED <<tokens, calls, history>>

ResumeExpire(r) ==
  /\ resuming[r].at = "overdue"
  /\ Sweep
  /\ resuming' = [resuming EXCEPT ![r] = [@ EXCEPT !.at = "write", !.reopen = TRUE]]
  /\ UNCHANGED <<tokens, approving, renewing, history>>

\* Mutant: a rejected request may be opened again too.
ReopenAllowedWhenOver(a) == agents[a].status \in {"expired", "rejected"}

ReopenAllowed(a) == agents[a].status = "expired"
ContinueAllowed(a) ==
  \/ agents[a].status = "pending"
  \/ agents[a].status = "approved" /\ agents[a].secret # None

ResumeAllowed(call) ==
  IF call.reopen THEN ReopenAllowed(call.agent) ELSE ContinueAllowed(call.agent)

Reopened(row, call) ==
  [row EXCEPT !.status = "pending", !.secret = call.secret,
              !.hash = [code |-> call.code, key |-> call.key],
              !.attempts = 0, !.key = call.key, !.age = "fresh"]

ResumeWrite(r) ==
  LET call == resuming[r] IN
  /\ call.at = "write"
  /\ ResumeAllowed(call)
  /\ IF call.reopen
     THEN /\ agents' = [agents EXCEPT ![call.agent] = Reopened(@, call)]
          /\ compared' = [compared EXCEPT ![call.agent] = 0]
          /\ registered' = [registered EXCEPT ![call.agent] =
                              @ \cup {[code |-> call.code, key |-> call.key]}]
     ELSE /\ agents' = [agents EXCEPT ![call.agent].secret = call.secret]
          /\ UNCHANGED history
  /\ resuming' = [resuming EXCEPT ![r] = Idle]
  /\ UNCHANGED <<tokens, approving, renewing>>

\* The row is no longer in a state the update accepts: the ordinary refusal.
ResumeRefused(r) ==
  /\ resuming[r].at = "write"
  /\ ~ResumeAllowed(resuming[r])
  /\ resuming' = [resuming EXCEPT ![r] = Idle]
  /\ UNCHANGED <<tokens, agents, approving, renewing, history>>

-----------------------------------------------------------------------------
\* The human decision

\* Mutant: a hash that is there at all counts as a match.
MatchesAnyCode(code, key, hash) == hash # None

Matches(code, key, hash) == hash = [code |-> code, key |-> key]

ApproveRead(p, a, code, tier) ==
  /\ approving[p] = Idle
  /\ agents[a].status = "pending"
  /\ ~Overdue(agents[a])
  /\ approving' = [approving EXCEPT ![p] =
       [at |-> "read", agent |-> a, row |-> agents[a], code |-> code, tier |-> tier,
        n |-> 0]]
  /\ UNCHANGED <<tokens, agents, resuming, renewing, history>>

\* Mutant: the attempt is counted from the row as it was read.
ApproveCountsWhatItRead(p) ==
  LET call == approving[p]
      a == call.agent
      n == call.row.attempts + 1
  IN
  /\ call.at = "read"
  /\ agents[a].status = "pending"
  /\ n <= CountCap
  /\ agents' = [agents EXCEPT ![a].attempts = n]
  /\ compared' = [compared EXCEPT ![a] = IF n > MaxApprovalAttempts THEN @ ELSE @ + 1]
  /\ approving' = [approving EXCEPT ![p] =
       IF n > MaxApprovalAttempts THEN Idle
       ELSE [call EXCEPT !.at = "counted", !.n = n]]
  /\ UNCHANGED <<tokens, resuming, renewing, registered>>

\* The attempt is counted in the row as it is now; the comparison that follows uses the
\* row as it was read, and only the first MaxApprovalAttempts counts get one.
ApproveCount(p) ==
  LET call == approving[p]
      a == call.agent
      n == agents[a].attempts + 1
  IN
  /\ call.at = "read"
  /\ agents[a].status = "pending"
  /\ n <= CountCap
  /\ agents' = [agents EXCEPT ![a].attempts = n]
  /\ compared' = [compared EXCEPT ![a] = IF n > MaxApprovalAttempts THEN @ ELSE @ + 1]
  /\ approving' = [approving EXCEPT ![p] =
       IF n > MaxApprovalAttempts THEN Idle
       ELSE [call EXCEPT !.at = "counted", !.n = n]]
  /\ UNCHANGED <<tokens, resuming, renewing, registered>>

CodeFits(call) == Matches(call.code, call.row.key, call.row.hash)
TierFits(call) == CheckTier(call.tier, call.row.installed, call.row.cap)

\* Mutant: there is no index.
ClusterFreeAlways(a) == agents[a].status = "pending"

\* The partial unique index agents_one_live_per_cluster.
ClusterFree(a) ==
  \A b \in AgentIds : agents[b].status = "approved" =>
                        agents[b].fingerprint # agents[a].fingerprint

Approved(row, call) ==
  [row EXCEPT !.status = "approved", !.tier = call.tier, !.leaf = call.row.key,
              !.proof = [code |-> call.code, key |-> call.row.key]]

ApproveWrite(p) ==
  LET call == approving[p]
      a == call.agent
  IN
  /\ call.at = "counted"
  /\ CodeFits(call)
  /\ TierFits(call)
  /\ agents[a].status = "pending"
  /\ ClusterFree(a)
  /\ agents' = [agents EXCEPT ![a] = Approved(@, call)]
  /\ approving' = [approving EXCEPT ![p] = Idle]
  /\ UNCHANGED <<tokens, resuming, renewing, history>>

\* Mutant: the rejection forgets "AND status='pending'".
ApproveLocksAnyRow(p) ==
  LET call == approving[p] IN
  /\ call.at = "counted"
  /\ ~CodeFits(call)
  /\ call.n = MaxApprovalAttempts
  /\ agents' = [agents EXCEPT ![call.agent].status = "rejected"]
  /\ approving' = [approving EXCEPT ![p] = Idle]
  /\ UNCHANGED <<tokens, resuming, renewing, history>>

\* The last wrong code rejects the request.
ApproveLocks(p) ==
  LET call == approving[p] IN
  /\ call.at = "counted"
  /\ ~CodeFits(call)
  /\ call.n = MaxApprovalAttempts
  /\ agents[call.agent].status = "pending"
  /\ agents' = [agents EXCEPT ![call.agent].status = "rejected"]
  /\ approving' = [approving EXCEPT ![p] = Idle]
  /\ UNCHANGED <<tokens, resuming, renewing, history>>

\* Every other way an Approve ends: a wrong code with tries left, a tier past a limit, a row
\* that changed state, a cluster that got another agent meanwhile.
ApproveRefused(p) ==
  LET call == approving[p]
      pending == agents[call.agent].status = "pending"
  IN
  /\ \/ call.at = "read" /\ ~pending
     \/ /\ call.at = "counted"
        /\ CodeFits(call)
        /\ ~(TierFits(call) /\ pending /\ ClusterFree(call.agent))
     \/ /\ call.at = "counted"
        /\ ~CodeFits(call)
        /\ ~(call.n = MaxApprovalAttempts /\ pending)
  /\ approving' = [approving EXCEPT ![p] = Idle]
  /\ UNCHANGED <<tokens, agents, resuming, renewing, history>>

Reject(a) ==
  /\ agents[a].status = "pending"
  /\ agents' = [agents EXCEPT ![a].status = "rejected"]
  /\ UNCHANGED <<tokens, calls, history>>

Revoke(a) ==
  /\ agents[a].status \in {"approved", "pending"}
  /\ agents' = [agents EXCEPT ![a] = [@ EXCEPT !.status = "revoked", !.leaf = None]]
  /\ UNCHANGED <<tokens, calls, history>>

-----------------------------------------------------------------------------
\* Certificates of an approved agent

Authorized(a) == agents[a].status = "approved"

\* Renew (clears) brings a fresh key and drops the poll secret after it; Rejoin brings the
\* key of the expired certificate and leaves the poll secret alone.
RenewRead(r, a, k, clears) ==
  /\ renewing[r] = Idle
  /\ Authorized(a)
  /\ renewing' = [renewing EXCEPT ![r] =
       [at |-> "authorized", agent |-> a, key |-> k, clears |-> clears]]
  /\ UNCHANGED <<tokens, agents, approving, resuming, history>>

\* Mutant: SetLeaf forgets "AND status='approved'".
SetLeafAllowedAlways(a) == Exists(a)

SetLeafAllowed(a) == agents[a].status = "approved"

SetLeaf(r) ==
  LET call == renewing[r] IN
  /\ call.at = "authorized"
  /\ SetLeafAllowed(call.agent)
  /\ agents' = [agents EXCEPT ![call.agent].leaf = call.key]
  /\ renewing' = [renewing EXCEPT
       ![r] = IF call.clears THEN [call EXCEPT !.at = "clear"] ELSE Idle]
  /\ UNCHANGED <<tokens, approving, resuming, history>>

RenewRefused(r) ==
  /\ renewing[r].at = "authorized"
  /\ ~SetLeafAllowed(renewing[r].agent)
  /\ renewing' = [renewing EXCEPT ![r] = Idle]
  /\ UNCHANGED <<tokens, agents, approving, resuming, history>>

RenewClears(r) ==
  /\ renewing[r].at = "clear"
  /\ agents' = [agents EXCEPT ![renewing[r].agent].secret = None]
  /\ renewing' = [renewing EXCEPT ![r] = Idle]
  /\ UNCHANGED <<tokens, approving, resuming, history>>

\* The hub clears the secret on the first authenticated call.  The call was authorized a
\* moment ago and the update has no guard, so the row may have been revoked since.
ClearPollSecret(a) ==
  /\ agents[a].status \in {"approved", "revoked"}
  /\ agents' = [agents EXCEPT ![a].secret = None]
  /\ UNCHANGED <<tokens, calls, history>>

-----------------------------------------------------------------------------
\* Time

Ages(a) ==
  /\ agents[a].status \in {"pending", "expired"}
  /\ agents[a].age # "stale"
  /\ agents' = [agents EXCEPT ![a].age = IF @ = "fresh" THEN "overdue" ELSE "stale"]
  /\ UNCHANGED <<tokens, calls, history>>

-----------------------------------------------------------------------------

TokenStep ==
  \E t \in Tokens :
    \/ \E tier \in Tiers, f \in Clusters \cup {None} : CreateToken(t, tier, f)
    \/ DeleteToken(t)
    \/ TokenLapses(t)

EnrollStep ==
  \E t \in Tokens, a \in AgentIds, f \in Clusters, k \in Keys, c \in Codes, s \in Secrets :
    \/ \E installed \in Tiers : EnrollAgent(t, a, f, k, c, s, installed)
    \/ \E r \in Requesters : ResumeRead(r, t, a, f, k, c, s)

ResumeStep ==
  \E r \in Requesters : ResumeExpire(r) \/ ResumeWrite(r) \/ ResumeRefused(r)

ApproveStep ==
  \E p \in Approvers :
    \/ \E a \in AgentIds, code \in Codes, tier \in Tiers : ApproveRead(p, a, code, tier)
    \/ ApproveCount(p) \/ ApproveWrite(p) \/ ApproveLocks(p) \/ ApproveRefused(p)

RenewStep ==
  \E r \in Renewers :
    \/ \E a \in AgentIds, k \in Keys, clears \in BOOLEAN : RenewRead(r, a, k, clears)
    \/ SetLeaf(r) \/ RenewRefused(r) \/ RenewClears(r)

RowStep ==
  \E a \in AgentIds : Reject(a) \/ Revoke(a) \/ ClearPollSecret(a) \/ Ages(a)

Next == \/ TokenStep \/ EnrollStep \/ ResumeStep \/ ApproveStep
        \/ RenewStep \/ RowStep \/ ExpirePending

Spec == Init /\ [][Next]_vars

-----------------------------------------------------------------------------
\* Properties

\* However many approvals run at once, at most one agent speaks for a cluster
\* (ApproveAgent against the index agents_one_live_per_cluster).
OneApprovedPerCluster ==
  \A a, b \in AgentIds :
    /\ agents[a].status = "approved"
    /\ agents[b].status = "approved"
    /\ agents[a].fingerprint = agents[b].fingerprint
    => a = b

\* Parallel Approve calls never get more comparisons out of one opened request than
\* MaxApprovalAttempts, because each is counted in the row before it is made.
ComparisonsBounded == \A a \in AgentIds : compared[a] <= MaxApprovalAttempts

\* Whatever a renewal, a rejoin or an approval was doing when a revocation landed, only an
\* approved agent has a certificate the server would hand out (Poll, SetLeaf, RevokeAgent).
LeafOnlyWhileApproved ==
  \A a \in AgentIds : agents[a].leaf # None => agents[a].status = "approved"

\* An approved tier respects the release, the install and the very token the agent used,
\* although the limits were read before the attempt was counted (Approve, CheckTier).
TierWithinLimits ==
  \A a \in AgentIds : agents[a].status = "approved" =>
    /\ agents[a].tier <= ImplementedTier
    /\ agents[a].tier <= agents[a].installed
    /\ agents[a].tier <= tokens[agents[a].token].cap

\* Every approval was confirmed with a code that this agent registered for the key it
\* enrolled with, also when the row was reopened while the approver was typing (Approve).
ConfirmedByOwnCode ==
  \A a \in AgentIds : agents[a].status = "approved" =>
    /\ agents[a].proof \in registered[a]
    /\ agents[a].proof.key = agents[a].key

\* A token lets in one agent, ever, and that agent's row and the token name each other
\* (EnrollAgent, AgentByToken).
TokenSpentOnce ==
  \A a \in AgentIds : Exists(a) => tokens[agents[a].token].usedBy = a

\* A rejection or a revocation is permanent, whatever handler was under way: nothing of the
\* row changes any more but the poll secret, which can only be cleared.
EndIsFinal ==
  [][\A a \in AgentIds : agents[a].status \in {"rejected", "revoked"} =>
       \/ agents'[a] = agents[a]
       \/ agents'[a] = [agents[a] EXCEPT !.secret = None]]_vars

\* Nobody takes an enrollment over: as long as its row exists, an agent keeps the key and
\* the cluster it first enrolled with (resumeEnrollment).
KeyIsFixed ==
  [][\A a \in AgentIds : Exists(a) =>
       \/ agents'[a] = Purged
       \/ /\ agents'[a].key = agents[a].key
          /\ agents'[a].fingerprint = agents[a].fingerprint]_vars

\* The server implements the abstract life cycle.
Lifecycle == INSTANCE AgentLifecycle WITH
  status <- [a \in AgentIds |-> agents[a].status],
  cluster <- [a \in AgentIds |-> agents[a].fingerprint]
ImplementsLifecycle == Lifecycle!Spec
=============================================================================
