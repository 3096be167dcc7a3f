-------------------------- MODULE AgentIdentityInv --------------------------
(***************************************************************************)
(* The inductive invariants of AgentIdentity.  AgentInv holds of any       *)
(* number of instances; OneInv relates what one instance stored to the     *)
(* row and the request that the server holds for it.                       *)
(***************************************************************************)
EXTENDS AgentIdentity

\* What is kept together fits: a certificate is for the key beside it and names its agent.
Fits(identity) == identity.cert # None => identity.cert = identity.key /\ identity.id # None

\* A request carries what was sent, and its answer what the handler wrote.
RequestFits(r) ==
  /\ request[r].at = "idle" => request[r] = NoRequest
  /\ request[r].at # "idle" => request[r].key # None /\ request[r].code # None
  /\ request[r].at = "ok" => request[r].id # None /\ request[r].secret # None
  /\ resuming[r].at # "idle" <=> request[r].at = "resuming"
  /\ resuming[r].at # "idle" => resuming[r].key = request[r].key /\ resuming[r].code = request[r].code

\* An instance waits for its own request, and renews only what it is connected with.
InstanceFits(i) ==
  /\ inst[i].at = "asked" => /\ inst[i].via \in Requesters
                             /\ request[inst[i].via].from = i /\ request[inst[i].via].at # "idle"
  /\ inst[i].at \in {"poll", "connecting", "connected", "leaving"} => inst[i].mem.id # None
  /\ renewal[i].at # "off" => inst[i].at \in {"connected", "leaving"}
  /\ Fits(inst[i].mem)

\* Inductive for any number of instances, and requests that stray.
AgentInv ==
  /\ AgentTypeOK
  /\ Fits(stored)
  /\ \A r \in Requesters : RequestFits(r)
  /\ \A i \in Instances : InstanceFits(i)

-----------------------------------------------------------------------------
\* One instance whose server is done with one request before it gets the next

\* The install gives an agent one replica, which is gone before the next one starts; a request that its
\* sender gave up is done before the next is sent.
OneInstance == ~Strays /\ \A i, j \in Instances : i = j

\* A row waits for approval; a request is on its way, in a handler, or answered.
Pending(a) == agents[a].status = "pending"
UnderWay(r) == request[r].at # "idle"

\* All rows are of this install, and a resumed request is about the one its token let in.
OneRow ==
  /\ \A t \in Tokens : t # GivenToken => tokens[t].state = "none"
  /\ \A a \in AgentIds : Exists(a) => agents[a].fingerprint = Cluster
  /\ \A r \in Requesters : UnderWay(r) => tokens[GivenToken].state # "none"
  /\ \A i \in Instances : inst[i].at # "down" => tokens[GivenToken].state # "none"
  /\ \A r \in Requesters : resuming[r].at # "idle" =>
       tokens[GivenToken].state = "used" /\ tokens[GivenToken].usedBy = resuming[r].agent
  /\ \A i \in Renewers : renewing[i].at # "idle" => agents[renewing[i].agent].status \in {"approved", "revoked"}

\* What is in memory is in the store, until the process leaves.
MemoryStored ==
  \A i \in Instances :
    /\ inst[i].at \notin {"down", "leaving"} => inst[i].mem = stored
    /\ inst[i].at \in {"send", "asked"} => stored.id = None /\ stored.cert = None /\ ~stored.ended

\* One request at a time, and it was sent with what is stored.
OneRequest ==
  /\ \A q, r \in Requesters : UnderWay(q) /\ UnderWay(r) => q = r
  /\ \A r \in Requesters, i \in Instances : request[r].from = i => inst[i].at = "asked" /\ inst[i].via = r
  /\ \A r \in Requesters : UnderWay(r) =>
       /\ stored.id = None /\ stored.cert = None /\ ~stored.ended
       /\ stored.key = request[r].key /\ stored.code = request[r].code
       /\ \A i \in Instances : inst[i].at \in {"down", "send", "asked"}

\* The answer under way is about the row as it is.
AnswerHolds(r) ==
  /\ request[r].at = "ok" => \A a \in AgentIds : Pending(a) => request[r].id = a /\ request[r].secret = agents[a].secret
  /\ request[r].at = "refused" => \A a \in AgentIds : ~Pending(a)
  /\ resuming[r].at # "idle" /\ Pending(resuming[r].agent) =>
       IF resuming[r].at = "overdue" THEN agents[resuming[r].agent].age # "fresh" ELSE ~resuming[r].reopen

\* A row that waits for approval is the one that the store is about.
StoreHolds(a) == Pending(a) =>
  /\ ~stored.ended /\ stored.cert = None
  /\ stored.key = agents[a].key /\ stored.code = agents[a].hash.code
  /\ stored.id # None => stored.id = a /\ stored.secret = agents[a].secret
  /\ agents[a].secret # None
  /\ \A i \in Instances : inst[i].at \notin {"connecting", "connected", "leaving"}

\* With what the server holds in Inv, and with AgentInv, this is inductive for such an agent.
OneInv ==
  /\ OneRow /\ MemoryStored /\ OneRequest
  /\ \A r \in Requesters : AnswerHolds(r)
  /\ \A a \in AgentIds : StoreHolds(a)

\* The mark of an end bears no certificate and nobody works under it; who polls has no certificate
\* yet.  Inductive beside OneInv.
MarkInv ==
  /\ stored.ended => stored.cert = None
  /\ \A i \in Instances : ~inst[i].mem.ended /\ (inst[i].at = "poll" => inst[i].mem.cert = None)
=============================================================================
