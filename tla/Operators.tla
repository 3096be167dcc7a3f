----------------------------- MODULE Operators -----------------------------
(***************************************************************************)
(* Regional operators and the telemetry intents and operators that send to *)
(* them: registering, moving, issuing a sender's certificate, revoking and *)
(* deleting, at the same time (operators/operators.go,                     *)
(* operators/operator_ca_cache.go, telemetry/telemetry_intents.go).        *)
(*                                                                         *)
(* What adds or moves a sender, or issues a certificate, holds DepMu for   *)
(* reading from its first check to its last write; what removes an         *)
(* operator holds it for writing (kernel/core.go).  DepMu is Go's RWMutex: *)
(* a writer that has asked keeps new readers out, and lets those that      *)
(* waited in when it leaves.  An operator's own CA key is opened once for  *)
(* all who need it and kept for a while.                                   *)
(*                                                                         *)
(* A sender has one destination here (an intent may have one for each      *)
(* signal type), and the central operator, which nobody moves or removes,  *)
(* is among what is Outside.                                               *)
(***************************************************************************)
EXTENDS Naturals, FiniteSets

CONSTANTS
  Ops,          \* regional operators that may ever be registered
  Intents,      \* telemetry intents that may ever be created
  Agents,
  AgentOf,      \* the agent each intent is for
  Outside,      \* an external backend, or FUSION through the central operator
  Existing,     \* operators that are there at the start
  Callers,      \* handlers under way at the same time
  MaxChain,     \* maxOperatorChain
  Slots,        \* how many CA keys may be opened at once
  None,
  MaxRequests,  \* bound on the requests that come in
  MaxFailures   \* bound on keys that do not open, callers that give up, writes that fail and restarts

Senders == Ops \cup Intents
Targets == Ops \cup {Outside}

ASSUME OperatorsAssumption ==
  /\ Ops \cap Intents = {} /\ Senders \cap Agents = {} /\ Outside \notin Ops
  /\ AgentOf \in [Intents -> Agents]
  /\ Existing \subseteq Ops
  /\ None \notin Senders \cup Agents \cup Callers
  /\ MaxChain \in Nat \ {0} /\ Slots \in Nat \ {0} /\ MaxRequests \in Nat /\ MaxFailures \in Nat

VARIABLES
  status,     \* of each operator and intent
  to,         \* where it sends
  revoked,    \* agents that were revoked
  readers,    \* who holds DepMu for reading
  writer,     \* who holds it for writing, or has asked to
  intentMu,   \* who holds IntentMu
  opened,     \* operators whose opened CA is kept
  inflight,   \* who is opening the CA of each
  ledger,     \* operators with a certificate in the ledger
  call,       \* what each handler does
  left,       \* history: senders that a forced removal knowingly left with nowhere to send
  crossed,    \* history: an operator was moved while another move was being judged
  asked, failures

locks == <<readers, writer, intentMu>>
cache == <<opened, inflight>>
table == <<status, to, ledger>>
counts == <<asked, failures>>
opVars == <<table, revoked, locks, cache, call, left, crossed, counts>>

\* What holds DepMu for reading, and what for writing.
Adds == {"create_op", "create_intent", "move"}
Reads == Adds \cup {"issue"}
Removes == {"revoke", "delete"}

Idle == [kind |-> "none", at |-> "idle", it |-> None, to |-> Outside, force |-> FALSE]

\* Places in which a handler holds DepMu.
Holding == {"held", "checked", "inside", "listed", "opening", "unsealing", "sharing", "issued", "forgetting"}

CallState ==
  [kind : Reads \cup Removes \cup {"none"}, at : {"idle", "waiting", "announced"} \cup Holding,
   it : Senders \cup Agents \cup {None}, to : Targets, force : BOOLEAN]

OperatorsTypeOK ==
  /\ status \in [Senders -> {"none", "active", "revoked", "deleted"}]
  /\ to \in [Senders -> Targets]
  /\ revoked \in SUBSET Agents
  /\ readers \in SUBSET Callers
  /\ writer \in Callers \cup {None} /\ intentMu \in Callers \cup {None}
  /\ opened \in SUBSET Ops /\ inflight \in [Ops -> Callers \cup {None}] /\ ledger \in SUBSET Ops
  /\ call \in [Callers -> CallState]
  /\ \A c \in Callers :
       /\ call[c].kind \in Removes \cup {"issue"} => call[c].it \in Ops
       /\ call[c].kind = "move" => call[c].it \in Senders
       /\ call[c].kind = "create_intent" => call[c].it \in Agents
  /\ left \in SUBSET Senders /\ crossed \in BOOLEAN /\ asked \in Nat /\ failures \in Nat

OperatorsInit ==
  /\ status = [s \in Senders |-> IF s \in Existing THEN "active" ELSE "none"]
  /\ to = [s \in Senders |-> Outside]
  /\ revoked = {}
  /\ readers = {} /\ writer = None /\ intentMu = None
  /\ opened = {} /\ inflight = [o \in Ops |-> None]
  /\ ledger = Existing
  /\ call = [c \in Callers |-> Idle]
  /\ left = {} /\ crossed = FALSE /\ asked = 0 /\ failures = 0

Active(s) == status[s] = "active"
Exists(s) == status[s] \in {"active", "revoked"}
Free(all) == {s \in all : status[s] = "none"}
Failed == failures < MaxFailures /\ failures' = failures + 1 /\ UNCHANGED asked

-----------------------------------------------------------------------------
\* DepMu and IntentMu

Requests ==
  [kind : {"create_op"}, it : {None}, to : Targets, force : {FALSE}]
    \cup [kind : {"create_intent"}, it : Agents, to : Targets, force : {FALSE}]
    \cup [kind : {"move"}, it : Senders, to : Targets, force : {FALSE}]
    \cup [kind : {"issue"}, it : Ops, to : {Outside}, force : {FALSE}]
    \cup [kind : Removes, it : Ops, to : {Outside}, force : BOOLEAN]

\* A request comes in.  What it names was named by the server before.
Ask(c) ==
  /\ call[c] = Idle /\ asked < MaxRequests
  /\ asked' = asked + 1
  /\ \E r \in Requests :
       /\ {r.it, r.to} \cap Free(Senders) = {}
       /\ call' = [call EXCEPT ![c] = [kind |-> r.kind, at |-> "waiting", it |-> r.it,
                                       to |-> r.to, force |-> r.force]]
  /\ UNCHANGED <<table, revoked, locks, cache, left, crossed, failures>>

GetRead(c) ==
  /\ call[c].at = "waiting" /\ call[c].kind \in Reads
  /\ writer = None
  /\ readers' = readers \cup {c}
  /\ call' = [call EXCEPT ![c].at = "held"]
  /\ UNCHANGED <<table, revoked, writer, intentMu, cache, left, crossed, counts>>

\* One writer at a time asks; then no new reader gets in.
Announce(c) ==
  /\ call[c].at = "waiting" /\ call[c].kind \in Removes
  /\ writer = None
  /\ writer' = c
  /\ call' = [call EXCEPT ![c].at = "announced"]
  /\ UNCHANGED <<table, revoked, readers, intentMu, cache, left, crossed, counts>>

\* Mutant: certificates are issued without the lock, and a removal does not wait for them.
IssuersIgnored == \A c \in readers : call[c].kind = "issue"
NobodyReads == readers = {}

GetWrite(c) ==
  /\ call[c].at = "announced"
  /\ NobodyReads
  /\ call' = [call EXCEPT ![c].at = "held"]
  /\ UNCHANGED <<table, revoked, locks, cache, left, crossed, counts>>

WaitingReaders == {d \in Callers : call[d].at = "waiting" /\ call[d].kind \in Reads}

\* The handler returns and gives back what it holds.
Return(c) ==
  /\ intentMu' = IF intentMu = c THEN None ELSE intentMu
  /\ IF writer = c
     THEN /\ writer' = None
          /\ readers' = WaitingReaders
          /\ call' = [d \in Callers |-> IF d = c THEN Idle
                                        ELSE IF d \in WaitingReaders THEN [call[d] EXCEPT !.at = "held"]
                                        ELSE call[d]]
     ELSE /\ readers' = readers \ {c}
          /\ call' = [call EXCEPT ![c] = Idle]
          /\ UNCHANGED writer

Proceeds(c, place) == call' = [call EXCEPT ![c].at = place] /\ UNCHANGED locks

-----------------------------------------------------------------------------
\* What adds or moves a sender

\* ValidateDestination.
TargetFits(t) == t = Outside \/ Active(t)

\* Where the operator t sends on: nowhere but Outside when it is gone.
SendsOn(t) == IF t # Outside /\ Exists(t) THEN to[t] ELSE Outside

\* Mutant: only a destination that is the operator itself is refused.
ChainNotSelf(self, t) == t # self

\* checkOperatorChain, in one step: it leads out within MaxChain operators and never meets self.
ChainFits(self, t) ==
  LET hop[n \in 0..MaxChain] == IF n = 0 THEN t ELSE SendsOn(hop[n - 1])
  IN  hop[MaxChain] = Outside /\ \A n \in 0..(MaxChain - 1) : hop[n] # self

\* The agent of a new intent is approved; what is moved is there; operators make no loop.
MayAdd(r) ==
  /\ TargetFits(r.to)
  /\ r.kind = "create_intent" => r.it \notin revoked
  /\ r.kind = "move" => Exists(r.it)
  /\ r.kind = "create_op" \/ r.it \in Ops => ChainFits(r.it, r.to)

CheckAdd(c) ==
  /\ call[c].at = "held" /\ call[c].kind \in Adds
  /\ IF MayAdd(call[c]) THEN Proceeds(c, "checked") ELSE Return(c)
  /\ UNCHANGED <<table, revoked, cache, left, crossed, counts>>

\* Mutant: the certificates of the new operator's senders are issued with a read lock of their own.
MintsLocking(c, o) ==
  /\ call' = [call EXCEPT ![c] = [kind |-> "issue", at |-> "waiting", it |-> o, to |-> Outside, force |-> FALSE]]
  /\ UNCHANGED locks

\* mintSenderCertsHeld goes on under the lock that CreateOperator holds.
Mints(c, o) ==
  /\ call' = [call EXCEPT ![c] = [kind |-> "issue", at |-> "held", it |-> o, to |-> Outside, force |-> FALSE]]
  /\ UNCHANGED locks

\* The operator and its receiver certificate are stored together.
CreateOperator(c) ==
  /\ call[c].at = "checked" /\ call[c].kind = "create_op"
  /\ \/ \E o \in Free(Ops) :
          /\ status' = [status EXCEPT ![o] = "active"]
          /\ to' = [to EXCEPT ![o] = call[c].to]
          /\ ledger' = ledger \cup {o}
          /\ Mints(c, o) \/ Return(c)
     \/ Free(Ops) = {} /\ Return(c) /\ UNCHANGED table
  /\ UNCHANGED <<revoked, cache, left, crossed, counts>>

\* UpdateOperatorScope and UpdateTelemetryIntentDestination change an active row.
Judged == {d \in Callers : call[d].kind = "move" /\ call[d].it \in Ops /\ call[d].at \in {"held", "checked"}}
Move(c) ==
  /\ call[c].at = "checked" /\ call[c].kind = "move"
  /\ LET s == call[c].it IN
     IF Active(s)
     THEN /\ to' = [to EXCEPT ![s] = call[c].to]
          /\ left' = left \ {s}
          /\ crossed' = (crossed \/ (s \in Ops /\ Judged # {c}))
     ELSE UNCHANGED <<to, left, crossed>>
  /\ Return(c)
  /\ UNCHANGED <<status, ledger, revoked, cache, counts>>

\* Mutant: the list and the insert are not one step.
IntentMuIgnored == TRUE
IntentMuFree == intentMu = None

TakeIntentMu(c) ==
  /\ call[c].at = "checked" /\ call[c].kind = "create_intent"
  /\ IntentMuFree
  /\ intentMu' = c
  /\ call' = [call EXCEPT ![c].at = "inside"]
  /\ UNCHANGED <<table, revoked, readers, writer, cache, left, crossed, counts>>

ListIntents(c) ==
  /\ call[c].at = "inside"
  /\ IF \E i \in Intents : AgentOf[i] = call[c].it /\ Active(i)
     THEN Return(c) ELSE Proceeds(c, "listed")
  /\ UNCHANGED <<table, revoked, cache, left, crossed, counts>>

CreateTelemetryIntent(c) ==
  /\ call[c].at = "listed"
  /\ \/ \E i \in Free(Intents) :
          /\ AgentOf[i] = call[c].it
          /\ status' = [status EXCEPT ![i] = "active"]
          /\ to' = [to EXCEPT ![i] = call[c].to]
          /\ UNCHANGED ledger
     \/ (\A i \in Free(Intents) : AgentOf[i] # call[c].it) /\ UNCHANGED table
  /\ Return(c)
  /\ UNCHANGED <<revoked, cache, left, crossed, counts>>

-----------------------------------------------------------------------------
\* Issuing a certificate: IssueOperatorClientCertFor, RenewTelemetryCert, ReissueOperatorInstall

CheckIssue(c) ==
  /\ call[c].at = "held" /\ call[c].kind = "issue"
  /\ IF Active(call[c].it) THEN Proceeds(c, "checked") ELSE Return(c)
  /\ UNCHANGED <<table, revoked, cache, left, crossed, counts>>

\* find: the CA that is kept, but for those unused for too long; or the open under way; or a new one.
FindCA(c) ==
  /\ call[c].at = "checked" /\ call[c].kind = "issue"
  /\ opened' \in SUBSET opened
  /\ LET o == call[c].it IN
     CASE o \in opened' -> Proceeds(c, "issued") /\ UNCHANGED inflight
       [] o \notin opened' /\ inflight[o] # None -> Proceeds(c, "sharing") /\ UNCHANGED inflight
       [] o \notin opened' /\ inflight[o] = None ->
            Proceeds(c, "opening") /\ inflight' = [inflight EXCEPT ![o] = c]
  /\ UNCHANGED <<table, revoked, left, crossed, counts>>

Unsealing == {d \in Callers : call[d].at = "unsealing"}
TakeSlot(c) ==
  /\ call[c].at = "opening"
  /\ Cardinality(Unsealing) < Slots
  /\ Proceeds(c, "unsealing")
  /\ UNCHANGED <<table, revoked, cache, left, crossed, counts>>

\* Those who share the open are woken; after a failure they try for themselves.
Sharing(o) == {d \in Callers : call[d].at = "sharing" /\ call[d].it = o}
OpenEnds(c, ok) ==
  LET o == call[c].it IN
  /\ IF inflight[o] = c
     THEN /\ inflight' = [inflight EXCEPT ![o] = None]
          /\ opened' = IF ok THEN opened \cup {o} ELSE opened
     ELSE UNCHANGED cache
  /\ call' = [d \in Callers |->
               IF d = c THEN IF ok THEN [call[d] EXCEPT !.at = "issued"] ELSE Idle
               ELSE IF d \in Sharing(o) THEN [call[d] EXCEPT !.at = IF ok THEN "issued" ELSE "checked"]
               ELSE call[d]]
  /\ readers' = IF ok THEN readers ELSE readers \ {c}
  /\ UNCHANGED <<writer, intentMu>>

Unsealed(c) ==
  /\ call[c].at = "unsealing"
  /\ OpenEnds(c, TRUE)
  /\ UNCHANGED <<table, revoked, left, crossed, counts>>

\* The key does not open, or the caller gives up while it waits for a slot or for another's open.
OpenFails(c) ==
  /\ \/ call[c].at \in {"opening", "unsealing"} /\ OpenEnds(c, FALSE)
     \/ call[c].at = "sharing" /\ Return(c) /\ UNCHANGED cache
  /\ Failed
  /\ UNCHANGED <<table, revoked, left, crossed>>

\* A certificate that cannot be recorded is not handed out.
RecordOperatorCert(c) ==
  /\ call[c].at = "issued"
  /\ ledger' = ledger \cup {call[c].it}
  /\ Return(c)
  /\ UNCHANGED <<status, to, revoked, cache, left, crossed, counts>>

-----------------------------------------------------------------------------
\* RevokeOperatorForce and DeleteOperatorForce

\* Mutant: only the operators that export to it are counted.
DependentOperators(o) == {p \in Ops : Active(p) /\ to[p] = o}

\* OperatorUsages: the intents of revoked agents send nothing.
Dependents(o) ==
  {p \in Ops : Active(p) /\ to[p] = o}
    \cup {i \in Intents : Active(i) /\ to[i] = o /\ AgentOf[i] \notin revoked}

CheckRemoval(c) ==
  /\ call[c].at = "held" /\ call[c].kind \in Removes
  /\ IF Exists(call[c].it) /\ (Dependents(call[c].it) = {} \/ call[c].force)
     THEN Proceeds(c, "checked") ELSE Return(c)
  /\ UNCHANGED <<table, revoked, cache, left, crossed, counts>>

\* The sealed key is erased with the status, the ledger with the row.
Remove(c) ==
  /\ call[c].at = "checked" /\ call[c].kind \in Removes
  /\ LET o == call[c].it IN
     \/ /\ call[c].kind = "revoke" /\ ~Active(o)
        /\ Return(c)
        /\ UNCHANGED <<table, left>>
     \/ /\ call[c].kind = "delete" \/ Active(o)
        /\ status' = [status EXCEPT ![o] = IF call[c].kind = "revoke" THEN "revoked" ELSE "deleted"]
        /\ ledger' = IF call[c].kind = "delete" THEN ledger \ {o} ELSE ledger
        /\ left' = IF call[c].force THEN left \cup Dependents(o) ELSE left
        /\ Proceeds(c, "forgetting")
        /\ UNCHANGED to
  /\ UNCHANGED <<revoked, cache, crossed, counts>>

\* Mutant: the opened CA stays in memory.
ForgetsInflight(o) == inflight' = [inflight EXCEPT ![o] = None] /\ UNCHANGED opened
Forgets(o) == inflight' = [inflight EXCEPT ![o] = None] /\ opened' = opened \ {o}

Forget(c) ==
  /\ call[c].at = "forgetting"
  /\ Forgets(call[c].it)
  /\ Return(c)
  /\ UNCHANGED <<table, revoked, left, crossed, counts>>

-----------------------------------------------------------------------------
\* Without a lock, and what goes wrong

\* RevokeTelemetryIntent, by hand or by EndAgentIntents after its agent was revoked.
RevokeTelemetryIntent(i) ==
  /\ Active(i)
  /\ status' = [status EXCEPT ![i] = "revoked"]
  /\ UNCHANGED <<to, ledger, revoked, locks, cache, call, left, crossed, counts>>

DeleteTelemetryIntent(i) ==
  /\ Exists(i)
  /\ status' = [status EXCEPT ![i] = "deleted"] /\ to' = [to EXCEPT ![i] = Outside]
  /\ UNCHANGED <<ledger, revoked, locks, cache, call, left, crossed, counts>>

RevokeAgent(a) ==
  /\ a \notin revoked
  /\ revoked' = revoked \cup {a}
  /\ UNCHANGED <<table, locks, cache, call, left, crossed, counts>>

\* The store fails, and the handler returns.
StoreFails(c) ==
  /\ call[c].at \in {"held", "checked", "inside", "listed", "issued"}
  /\ Return(c)
  /\ Failed
  /\ UNCHANGED <<table, revoked, cache, left, crossed>>

Restart ==
  /\ readers' = {} /\ writer' = None /\ intentMu' = None
  /\ opened' = {} /\ inflight' = [o \in Ops |-> None]
  /\ call' = [c \in Callers |-> Idle]
  /\ Failed
  /\ UNCHANGED <<table, revoked, left, crossed>>

-----------------------------------------------------------------------------

CallStep(c) ==
  \/ GetRead(c) \/ GetWrite(c)
  \/ CheckAdd(c) \/ CreateOperator(c) \/ Move(c) \/ ListIntents(c) \/ CreateTelemetryIntent(c)
  \/ CheckIssue(c) \/ FindCA(c) \/ Unsealed(c) \/ RecordOperatorCert(c)
  \/ CheckRemoval(c) \/ Remove(c) \/ Forget(c)

\* What is taken in turn.
Takes(c) == Announce(c) \/ TakeIntentMu(c) \/ TakeSlot(c)

OperatorsNext ==
  \/ \E c \in Callers : Ask(c) \/ CallStep(c) \/ Takes(c) \/ OpenFails(c) \/ StoreFails(c)
  \/ \E i \in Intents : RevokeTelemetryIntent(i) \/ DeleteTelemetryIntent(i)
  \/ \E a \in Agents : RevokeAgent(a)
  \/ Restart

\* Handlers run on.  Go's mutexes and channels let nobody who waits be overtaken for ever.
OperatorsFairness == \A c \in Callers : WF_opVars(CallStep(c)) /\ SF_opVars(Takes(c))

OperatorsSpec == OperatorsInit /\ [][OperatorsNext]_opVars /\ OperatorsFairness

-----------------------------------------------------------------------------
\* Properties

\* Nothing that sends is left with an operator that is gone, unless its removal was forced and
\* counted it (DepMu: the dependents check and the removal are one step).
NoOrphans ==
  \A s \in Senders :
    Active(s) /\ (s \in Intents => AgentOf[s] \notin revoked) /\ to[s] \in Ops =>
      Active(to[s]) \/ s \in left

\* An agent never has two active intents (IntentMu).
OneActiveIntent ==
  \A i, j \in Intents : Active(i) /\ Active(j) /\ AgentOf[i] = AgentOf[j] => i = j

\* A certificate is made and recorded only for an operator that is active all the while
\* (IssueOperatorClientCertFor), and the ledger of a deleted operator stays empty.
CertsOfActive ==
  /\ \A c \in Callers : call[c].at = "issued" => Active(call[c].it)
  /\ \A o \in ledger : Exists(o)

\* The opened CA key of an operator that was revoked or deleted does not stay in memory longer
\* than its removal takes (forget).
KeyForgotten ==
  \A o \in opened : Active(o) \/ \E c \in Callers : call[c].at = "forgetting" /\ call[c].it = o

\* Active operators never send in a circle: telemetry would never reach a backend.  It is what the
\* comment of checkOperatorChain says is refused.
LeadsOut ==
  \A round \in (SUBSET {o \in Ops : Active(o)}) \ {{}} : \E o \in round : to[o] \notin round

\* So it is unless two operators were moved at the same time (checkOperatorChain; both moves hold
\* DepMu for reading only).
NoCircle == crossed \/ LeadsOut

\* What a handler waits for: DepMu for reading or to ask for it, its readers, IntentMu, a slot, or
\* the one that opens the key for it.
Blocked(c) ==
  \/ call[c].at = "waiting" /\ writer # None
  \/ call[c].at = "announced" /\ ~NobodyReads
  \/ call[c].at = "checked" /\ call[c].kind = "create_intent" /\ ~IntentMuFree
  \/ call[c].at = "opening" /\ ~(Cardinality(Unsealing) < Slots)
  \/ call[c].at = "sharing"

\* Handlers never all wait for each other: while a request is under way, one of them can go on
\* (DepMu before IntentMu, and no lock taken twice: mintSenderCertsHeld).
SomeoneGoesOn ==
  (\E c \in Callers : call[c].at # "idle") => \E c \in Callers : call[c].at # "idle" /\ ~Blocked(c)

\* Every request ends: nobody waits for ever for DepMu, IntentMu, a slot or another's open.
CallsReturn == \A c \in Callers : call[c].at # "idle" ~> call[c].at = "idle"
=============================================================================
