---------------------------- MODULE AgentIdentity ----------------------------
(***************************************************************************)
(* The agent's side of admission: what the running agent holds in memory,  *)
(* what it stored, and the calls it makes to the server of Admission       *)
(* (backend/internal/agent: enroll.go, run.go, identity.go).               *)
(*                                                                         *)
(* An instance is a process of the agent.  The install gives every         *)
(* instance one enrollment token and one store (a Kubernetes Secret).      *)
(* Instances crash and restart, answers are lost, and a request whose      *)
(* caller is gone may still be carried out by the server.                  *)
(***************************************************************************)
EXTENDS Admission

CONSTANTS
  Instances,      \* processes of this agent that may run
  GivenToken,     \* the enrollment token of the install
  Cluster,        \* the cluster it runs in
  Strays,         \* may an abandoned request still be under way when the next is sent?
  MaxFaults       \* bound of the model: crashes and lost answers in one behaviour

ASSUME InstallAssumption ==
  /\ GivenToken \in Tokens
  /\ Cluster \in Clusters
  /\ Strays \in BOOLEAN
  /\ MaxFaults \in Nat
  /\ Instances \subseteq Renewers   \* an instance's Renew call has its own handler
  /\ None \notin Instances

VARIABLES
  stored,      \* the identity in the store
  inst,        \* what each instance is doing, and the identity in its memory
  renewal,     \* each instance's renewal goroutine
  request,     \* Enroll requests on their way, in a handler, or answered
  faults       \* crashes and lost answers so far

server == <<tokens, agents, approving, resuming, renewing, compared, registered>>
agent == <<stored, inst, renewal, request, faults>>
allVars == <<server, agent>>

Identity == [id : AgentIds \cup {None}, secret : Secrets \cup {None},
             key : Keys \cup {None}, cert : Keys \cup {None},
             code : Codes \cup {None}, ended : BOOLEAN]

Nothing == [id |-> None, secret |-> None, key |-> None, cert |-> None,
            code |-> None, ended |-> FALSE]

Instance ==
  [at : {"down", "send", "asked", "poll", "connecting", "connected", "leaving"},
   mem : Identity, via : Requesters \cup {None}]

Renewal == [at : {"off", "waiting", "asked", "answered"}, key : Keys \cup {None}]

Request == [at : {"idle", "sent", "resuming", "ok", "refused", "conflict"},
            from : Instances \cup {None}, key : Keys \cup {None}, code : Codes \cup {None},
            id : AgentIds \cup {None}, secret : Secrets \cup {None}]

Down == [at |-> "down", mem |-> Nothing, via |-> None]
NoRenewal == [at |-> "off", key |-> None]
NoRequest == [at |-> "idle", from |-> None, key |-> None, code |-> None,
              id |-> None, secret |-> None]

AgentTypeOK ==
  /\ TypeOK
  /\ stored \in Identity
  /\ inst \in [Instances -> Instance]
  /\ renewal \in [Instances -> Renewal]
  /\ request \in [Requesters -> Request]
  /\ faults \in 0..MaxFaults

AgentInit ==
  /\ Init
  /\ stored = Nothing
  /\ inst = [i \in Instances |-> Down]
  /\ renewal = [i \in Instances |-> NoRenewal]
  /\ request = [r \in Requesters |-> NoRequest]
  /\ faults = 0

\* Keys, codes and poll secrets are random: what is drawn is nowhere in use.
FreshKey(k) ==
  /\ \A a \in AgentIds : k \notin {agents[a].key, agents[a].leaf}
  /\ \A i \in Instances : k \notin {inst[i].mem.key, renewal[i].key}
  /\ \A r \in Requesters : k # request[r].key
  /\ \A i \in Instances : renewing[i].at # "idle" => k # renewing[i].key
  /\ k # stored.key
FreshCode(c) ==
  /\ \A a \in AgentIds : agents[a].hash # None => agents[a].hash.code # c
  /\ \A i \in Instances : c # inst[i].mem.code
  /\ \A r \in Requesters : c # request[r].code
  /\ \A p \in Approvers : approving[p].at # "idle" => c # approving[p].code
  /\ c # stored.code
FreshSecret(s) ==
  /\ \A a \in AgentIds : s # agents[a].secret
  /\ \A i \in Instances : s # inst[i].mem.secret
  /\ \A r \in Requesters : s # request[r].secret /\
                           (resuming[r].at # "idle" => s # resuming[r].secret)
  /\ s # stored.secret

-----------------------------------------------------------------------------
\* Starting: once() loads what is stored and goes on from there.  The install was given a
\* token that had been created.

Start(i) ==
  /\ inst[i].at = "down"
  /\ ~stored.ended          \* an ended identity holds still and contacts nobody
  /\ tokens[GivenToken].state # "none"
  /\ inst' = [inst EXCEPT ![i] =
       [at |-> CASE stored.cert # None -> "connecting"
                 [] stored.cert = None /\ stored.id # None -> "poll"
                 [] OTHER -> "send",
        mem |-> stored, via |-> None]]
  /\ UNCHANGED <<server, stored, renewal, request, faults>>

Crash(i) ==
  /\ inst[i].at # "down"
  /\ faults < MaxFaults
  /\ faults' = faults + 1
  /\ inst' = [inst EXCEPT ![i] = Down]
  /\ renewal' = [renewal EXCEPT ![i] = NoRenewal]
  /\ request' = [r \in Requesters |->
       IF request[r].from = i THEN [request[r] EXCEPT !.from = None] ELSE request[r]]
  /\ UNCHANGED <<server, stored>>

-----------------------------------------------------------------------------
\* Enrolling

\* Mutant: the key and the code are sent without having been saved.
PrepareUnsaved(i, k, c) ==
  LET mem == inst[i].mem
      next == [Nothing EXCEPT !.key = IF mem.key = None THEN k ELSE mem.key, !.code = c]
  IN
  /\ inst[i].at = "send"
  /\ mem.key = None \/ mem.code = None
  /\ FreshKey(k) /\ FreshCode(c)
  /\ inst' = [inst EXCEPT ![i].mem = next]
  /\ UNCHANGED <<server, stored, renewal, request, faults>>

\* A key and a code are saved before anything is sent.
Prepare(i, k, c) ==
  LET mem == inst[i].mem
      next == [Nothing EXCEPT !.key = IF mem.key = None THEN k ELSE mem.key, !.code = c]
  IN
  /\ inst[i].at = "send"
  /\ mem.key = None \/ mem.code = None
  /\ FreshKey(k) /\ FreshCode(c)
  /\ stored' = next
  /\ inst' = [inst EXCEPT ![i].mem = next]
  /\ UNCHANGED <<server, renewal, request, faults>>

\* Without strays the server is done with an abandoned request before the next arrives.
Ask(i, r) ==
  LET mem == inst[i].mem IN
  /\ inst[i].at = "send"
  /\ mem.key # None /\ mem.code # None
  /\ request[r] = NoRequest
  /\ Strays \/ \A q \in Requesters : request[q].from = None => request[q] = NoRequest
  /\ request' = [request EXCEPT ![r] =
       [NoRequest EXCEPT !.at = "sent", !.from = i, !.key = mem.key, !.code = mem.code]]
  /\ inst' = [inst EXCEPT ![i] = [@ EXCEPT !.at = "asked", !.via = r]]
  /\ UNCHANGED <<server, stored, renewal, faults>>

\* The server takes the request up: a fresh token enrolls, a spent one may resume.
HandleFresh(r, a, s) ==
  /\ request[r].at = "sent"
  /\ FreshSecret(s)
  /\ EnrollAgent(GivenToken, a, Cluster, request[r].key, request[r].code, s, 0)
  /\ request' = [request EXCEPT ![r] = [@ EXCEPT !.at = "ok", !.id = a, !.secret = s]]
  /\ UNCHANGED <<stored, inst, renewal, faults>>

HandleResume(r, a, s) ==
  /\ request[r].at = "sent"
  /\ ~TokenValid(GivenToken)
  /\ FreshSecret(s)
  /\ ResumeRead(r, GivenToken, a, Cluster, request[r].key, request[r].code, s)
  /\ request' = [request EXCEPT ![r].at = "resuming"]
  /\ UNCHANGED <<stored, inst, renewal, faults>>

\* Somebody else with a spent token, or a request that is over; a live request under
\* another code is a conflict, which the agent tries again.
HandleRefused(r) ==
  LET mine == {a \in AgentIds : SameEnrollment(GivenToken, a, Cluster, request[r].key)} IN
  /\ request[r].at = "sent"
  /\ ~TokenValid(GivenToken)
  /\ \A a \in mine : ~MayResume(a, request[r].code)
  /\ request' = [request EXCEPT ![r].at =
       IF \E a \in mine : agents[a].status \in {"pending", "approved"}
       THEN "conflict" ELSE "refused"]
  /\ UNCHANGED <<server, stored, inst, renewal, faults>>

HandleOverdue(r) ==
  /\ ResumeExpire(r)
  /\ UNCHANGED agent

HandleWritten(r) ==
  /\ ResumeWrite(r)
  /\ request' = [request EXCEPT ![r] =
       [@ EXCEPT !.at = "ok", !.id = resuming[r].agent, !.secret = resuming[r].secret]]
  /\ UNCHANGED <<stored, inst, renewal, faults>>

HandleTooLate(r) ==
  /\ ResumeRefused(r)
  /\ request' = [request EXCEPT ![r].at = "refused"]
  /\ UNCHANGED <<stored, inst, renewal, faults>>

\* The answer of a request nobody waits for any more.
Drop(r) ==
  /\ request[r].at \in {"ok", "refused", "conflict"}
  /\ request[r].from = None
  /\ request' = [request EXCEPT ![r] = NoRequest]
  /\ UNCHANGED <<server, stored, inst, renewal, faults>>

\* What stays is a marker without key or certificate; the process exits.
Ended(id) == [Nothing EXCEPT !.id = id, !.ended = TRUE]

Enrolled(i) ==
  LET r == inst[i].via
      next == [Nothing EXCEPT !.id = request[r].id, !.secret = request[r].secret,
                              !.key = inst[i].mem.key, !.code = inst[i].mem.code]
  IN
  /\ inst[i].at = "asked"
  /\ request[r].at = "ok"
  /\ stored' = next
  /\ inst' = [inst EXCEPT ![i] = [at |-> "poll", mem |-> next, via |-> None]]
  /\ request' = [request EXCEPT ![r] = NoRequest]
  /\ UNCHANGED <<server, renewal, faults>>

EnrollRefused(i) ==
  /\ inst[i].at = "asked"
  /\ request[inst[i].via].at \in {"refused", "conflict"}
  /\ stored' = IF request[inst[i].via].at = "refused"
               THEN Ended(inst[i].mem.id) ELSE stored
  /\ inst' = [inst EXCEPT ![i] = Down]
  /\ request' = [request EXCEPT ![inst[i].via] = NoRequest]
  /\ UNCHANGED <<server, renewal, faults>>

\* Mutant: a lost answer is taken for a refusal.
EnrollLostEnds(i) ==
  /\ inst[i].at = "asked"
  /\ faults < MaxFaults
  /\ faults' = faults + 1
  /\ stored' = Ended(inst[i].mem.id)
  /\ inst' = [inst EXCEPT ![i] = Down]
  /\ request' = [request EXCEPT ![inst[i].via].from = None]
  /\ UNCHANGED <<server, renewal>>

\* The request or its answer is lost: the agent backs off and starts over.
EnrollLost(i) ==
  /\ inst[i].at = "asked"
  /\ faults < MaxFaults
  /\ faults' = faults + 1
  /\ inst' = [inst EXCEPT ![i] = Down]
  /\ request' = [request EXCEPT ![inst[i].via].from = None]
  /\ UNCHANGED <<server, stored, renewal>>

-----------------------------------------------------------------------------
\* Waiting for approval

\* The server answers only who knows the poll secret of an existing row.
Known(mem) ==
  /\ mem.id # None
  /\ mem.secret # None
  /\ Exists(mem.id)
  /\ agents[mem.id].secret = mem.secret

\* Unauthenticated: carry on with what is stored if its secret is another, else it is over.
PollUnknown(i) ==
  LET mem == inst[i].mem
      other == stored.id # None /\ ~stored.ended /\ stored.secret # mem.secret
  IN
  /\ inst[i].at = "poll"
  /\ ~Known(mem)
  /\ stored' = IF other THEN stored ELSE Ended(mem.id)
  /\ inst' = [inst EXCEPT ![i] = IF other THEN [@ EXCEPT !.mem = stored] ELSE Down]
  /\ UNCHANGED <<server, renewal, request, faults>>

PollOverdue(i) ==
  /\ inst[i].at = "poll"
  /\ Known(inst[i].mem)
  /\ Overdue(agents[inst[i].mem.id])
  /\ ExpirePending
  /\ UNCHANGED agent

PollApproved(i) ==
  LET mem == inst[i].mem
      row == agents[mem.id]
      next == [mem EXCEPT !.cert = row.leaf, !.secret = None, !.code = None]
  IN
  /\ inst[i].at = "poll"
  /\ Known(mem)
  /\ row.status = "approved"
  /\ IF row.leaf = mem.key
     THEN /\ stored' = next
          /\ inst' = [inst EXCEPT ![i] = [@ EXCEPT !.at = "connecting", !.mem = next]]
     ELSE /\ inst' = [inst EXCEPT ![i] = Down]
          /\ UNCHANGED stored
  /\ UNCHANGED <<server, renewal, request, faults>>

PollRejected(i) ==
  LET mem == inst[i].mem IN
  /\ inst[i].at = "poll"
  /\ Known(mem)
  /\ agents[mem.id].status \in {"rejected", "revoked"}
  /\ stored' = Ended(mem.id)
  /\ inst' = [inst EXCEPT ![i] = Down]
  /\ UNCHANGED <<server, renewal, request, faults>>

\* Mutant: the new code is not saved before the agent enrolls again.
PollExpiredUnsaved(i, c) ==
  LET mem == inst[i].mem
      next == [Nothing EXCEPT !.key = mem.key, !.code = c]
  IN
  /\ inst[i].at = "poll"
  /\ Known(mem)
  /\ agents[mem.id].status = "expired"
  /\ FreshCode(c)
  /\ inst' = [inst EXCEPT ![i] = [at |-> "send", mem |-> next, via |-> None]]
  /\ UNCHANGED <<server, stored, renewal, request, faults>>

\* The request ran out: enroll again with the same key and a new code.
PollExpired(i, c) ==
  LET mem == inst[i].mem
      next == [Nothing EXCEPT !.key = mem.key, !.code = c]
  IN
  /\ inst[i].at = "poll"
  /\ Known(mem)
  /\ agents[mem.id].status = "expired"
  /\ FreshCode(c)
  /\ stored' = next
  /\ inst' = [inst EXCEPT ![i] = [at |-> "send", mem |-> next, via |-> None]]
  /\ UNCHANGED <<server, renewal, request, faults>>

-----------------------------------------------------------------------------
\* Connected

\* The certificate is presented.  On its first connection a process also writes the
\* identity it holds, to see that it can (probeIdentity).
Connect(i) ==
  LET mem == inst[i].mem IN
  /\ inst[i].at = "connecting"
  /\ Authorized(mem.id)
  /\ \E probes \in BOOLEAN : stored' = IF probes THEN mem ELSE stored
  /\ ClearPollSecret(mem.id)
  /\ inst' = [inst EXCEPT ![i].at = "connected"]
  /\ renewal' = [renewal EXCEPT ![i].at = "waiting"]
  /\ UNCHANGED <<request, faults>>

\* Mutant: the refusal is taken for a failure that passes.
ConnectRetries(i) ==
  /\ inst[i].at = "connecting"
  /\ ~Authorized(inst[i].mem.id)
  /\ inst' = [inst EXCEPT ![i] = Down]
  /\ UNCHANGED <<server, stored, renewal, request, faults>>

\* Only a revoked or rejected agent is told that it is over; any other refusal is retried.
ConnectRefused(i) ==
  LET mem == inst[i].mem IN
  /\ inst[i].at = "connecting"
  /\ ~Authorized(mem.id)
  /\ stored' = IF agents[mem.id].status \in {"revoked", "rejected"}
               THEN Ended(mem.id) ELSE stored
  /\ inst' = [inst EXCEPT ![i] = Down]
  /\ UNCHANGED <<server, renewal, request, faults>>

\* The stream ends: the other side, the network, a newer connection.
Disconnect(i) ==
  /\ inst[i].at = "connected"
  /\ inst' = [inst EXCEPT ![i].at = "leaving"]
  /\ UNCHANGED <<server, stored, renewal, request, faults>>

\* The server pushes the revocation down the stream.  The marker is saved at once; the
\* process leaves when its renewal goroutine has ended.
ToldRevoked(i) ==
  /\ inst[i].at = "connected"
  /\ agents[inst[i].mem.id].status = "revoked"
  /\ stored' = Ended(inst[i].mem.id)
  /\ inst' = [inst EXCEPT ![i].at = "leaving"]
  /\ UNCHANGED <<server, renewal, request, faults>>

\* Leaving cancels a renewal, except one that has its certificate: that is saved first.
Leave(i) ==
  /\ inst[i].at = "leaving"
  /\ renewal[i].at # "answered"
  /\ inst' = [inst EXCEPT ![i] = Down]
  /\ renewal' = [renewal EXCEPT ![i] = NoRenewal]
  /\ UNCHANGED <<server, stored, request, faults>>

-----------------------------------------------------------------------------
\* Renewing: always with a fresh key

RenewAsk(i, k) ==
  /\ inst[i].at = "connected"
  /\ renewal[i].at = "waiting"
  /\ FreshKey(k)
  /\ RenewRead(i, inst[i].mem.id, k, TRUE)
  /\ renewal' = [renewal EXCEPT ![i] = [at |-> "asked", key |-> k]]
  /\ UNCHANGED <<stored, inst, request, faults>>

RenewServed(i) ==
  /\ SetLeaf(i)
  /\ UNCHANGED agent

RenewAnswered(i) ==
  /\ RenewClears(i)
  /\ renewal' = [renewal EXCEPT ![i].at = IF @ = "asked" THEN "answered" ELSE @]
  /\ UNCHANGED <<stored, inst, request, faults>>

RenewFails(i) ==
  /\ RenewRefused(i)
  /\ renewal' = [renewal EXCEPT ![i] =
       IF @.at = "asked" THEN [NoRenewal EXCEPT !.at = "waiting"] ELSE @]
  /\ UNCHANGED <<stored, inst, request, faults>>

\* The answer is lost: the server has issued a certificate the agent never sees.
RenewLost(i) ==
  /\ renewal[i].at = "asked"
  /\ faults < MaxFaults
  /\ faults' = faults + 1
  /\ renewal' = [renewal EXCEPT ![i] = [NoRenewal EXCEPT !.at = "waiting"]]
  /\ UNCHANGED <<server, stored, inst, request>>

\* Mutant: only the certificate is stored, beside the key that is there.
RenewSaveCert(i) ==
  /\ renewal[i].at = "answered"
  /\ stored' = [stored EXCEPT !.cert = renewal[i].key]
  /\ renewal' = [renewal EXCEPT ![i] = NoRenewal]
  /\ inst' = [inst EXCEPT ![i].at = "leaving"]
  /\ UNCHANGED <<server, request, faults>>

\* Key and certificate are stored together, and the stream is left to use them.
RenewSave(i) ==
  /\ renewal[i].at = "answered"
  /\ stored' = [Nothing EXCEPT !.id = inst[i].mem.id, !.key = renewal[i].key,
                               !.cert = renewal[i].key]
  /\ renewal' = [renewal EXCEPT ![i] = NoRenewal]
  /\ inst' = [inst EXCEPT ![i].at = "leaving"]
  /\ UNCHANGED <<server, request, faults>>

-----------------------------------------------------------------------------

Serve(r) ==
  \/ \E a \in AgentIds, s \in Secrets : HandleFresh(r, a, s) \/ HandleResume(r, a, s)
  \/ HandleRefused(r) \/ HandleOverdue(r) \/ HandleWritten(r) \/ HandleTooLate(r) \/ Drop(r)

ServeRenewal(i) == RenewServed(i) \/ RenewAnswered(i) \/ RenewFails(i)

\* What a live instance does unless it crashes or is interrupted.
Works(i) ==
  \/ Start(i) \/ Enrolled(i) \/ EnrollRefused(i)
  \/ \E k \in Keys, c \in Codes : Prepare(i, k, c)
  \/ \E r \in Requesters : Ask(i, r)
  \/ PollUnknown(i) \/ PollOverdue(i) \/ PollApproved(i) \/ PollRejected(i)
  \/ \E c \in Codes : PollExpired(i, c)
  \/ Connect(i) \/ ConnectRefused(i) \/ ToldRevoked(i) \/ Leave(i) \/ RenewSave(i)

\* What people, time and the network do.
Happens ==
  \/ /\ \/ CreateToken(GivenToken, 0, None) \/ TokenLapses(GivenToken) \/ ApproveStep
        \/ \E a \in AgentIds : Reject(a) \/ Revoke(a) \/ Ages(a)
        \/ ExpirePending
     /\ UNCHANGED agent
  \/ \E i \in Instances : \/ Crash(i) \/ EnrollLost(i) \/ Disconnect(i) \/ RenewLost(i)
                          \/ \E k \in Keys : RenewAsk(i, k)

AgentNext ==
  \/ Happens
  \/ \E r \in Requesters : Serve(r)
  \/ \E i \in Instances : ServeRenewal(i) \/ Works(i)

\* The server answers what it was asked, and an instance goes on with what it can do.
Fairness ==
  /\ \A r \in Requesters : WF_allVars(Serve(r))
  /\ \A i \in Instances : WF_allVars(ServeRenewal(i)) /\ WF_allVars(Works(i))

AgentSpec == AgentInit /\ [][AgentNext]_allVars /\ Fairness

-----------------------------------------------------------------------------
\* Properties

\* What the server heard about is never something the agent forgot: while a request waits
\* for approval its key is the stored one, whatever crashed or got lost (sendEnrollment).
KeyNotForgotten ==
  \A a \in AgentIds : agents[a].status = "pending" /\ ~stored.ended
                        => stored.key = agents[a].key

\* The code in the agent's log is the one that approves it: no request waits for a code
\* that its agent would not show again after a restart (sendEnrollment, awaitApproval).
CodeIsShown ==
  \A a \in AgentIds : agents[a].status = "pending" /\ ~stored.ended
                        => stored.code = agents[a].hash.code

\* The store never pairs a certificate with another key, whenever a renewal was cut off.
CertFitsKey == stored.cert # None => stored.cert = stored.key

\* A request still waiting for a decision is never given up by its agent: repeating an
\* enrollment is safe, as long as the server is done with one attempt before the next.
WaitingIsNotEnded ==
  \A a \in AgentIds : agents[a].status = "pending" => ~stored.ended

\* Everything before the certificate arrives can be repeated safely: an agent whose request
\* is waiting or was approved is never told that it is over (enroll.go, Enroll).
RepeatedSafely ==
  \A a \in AgentIds : agents[a].status \in {"pending", "approved"} => ~stored.ended

\* What another instance stored is the truth: an approved identity is not replaced by the
\* mark of an end (awaitApproval).
StoredIsTruth ==
  [][\A a \in AgentIds :
       stored.cert # None /\ agents[a].status = "approved" => ~stored'.ended]_allVars

\* An approval reaches its agent through every crash and lost answer, unless it is taken back
\* or the agent was told it is over.
ApprovalArrives ==
  \A a \in AgentIds :
    agents[a].status = "approved" ~>
      \/ \E i \in Instances : inst[i].at = "connected"
      \/ agents[a].status # "approved"
      \/ stored.ended

\* A revoked or rejected agent comes to rest and remembers why, for good, although a renewal
\* that was answered may still write its certificate over the mark (once, renewalLoop).
EndArrives ==
  \A a \in AgentIds :
    agents[a].status \in {"revoked", "rejected"} ~> []stored.ended
=============================================================================
