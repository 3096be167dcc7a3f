--------------------------- MODULE OperatorsProof ---------------------------
(***************************************************************************)
(* The safety of operators, their senders and their certificates, for any  *)
(* number of each and of handlers at the same time.                        *)
(*                                                                         *)
(* OpInv is inductive.  Locks says which handlers hold which lock, Promises*)
(* what a handler has checked and may rely on while it holds its lock: a   *)
(* reader that its destination stays active, a removal that nobody starts  *)
(* to send to the operator it counted nobody for.                          *)
(*                                                                         *)
(* CircleInv is inductive beside it: what checkOperatorChain let through   *)
(* closes no circle for as long as no other move comes in between.         *)
(*                                                                         *)
(* Opens says who opens a key for whom, and with Locks that handlers never *)
(* all wait for each other.                                                *)
(***************************************************************************)
EXTENDS Operators, FiniteSetTheorems, TLAPS, WellFoundedInduction

\* The places a request passes through.
PlacesOf(kind) ==
  {"waiting", "held", "checked"}
    \cup {place \in {"inside", "listed"} : kind = "create_intent"}
    \cup {place \in {"opening", "unsealing", "sharing", "issued"} : kind = "issue"}
    \cup {place \in {"announced", "forgetting"} : kind \in Removes}

\* Who holds what: a handler that waits for DepMu, or is idle, holds nothing.
Locks ==
  /\ \A c \in Callers : call[c] = Idle \/ (call[c].kind # "none" /\ call[c].at \in PlacesOf(call[c].kind))
  /\ \A c \in Callers : c \in readers <=> call[c].kind \in Reads /\ call[c].at # "waiting"
  /\ \A c \in Callers : writer = c <=> call[c].kind \in Removes /\ call[c].at # "waiting"
  /\ \A c \in Callers : intentMu = c <=> call[c].at \in {"inside", "listed"}
  /\ \A c \in Callers : call[c].kind \in Removes /\ call[c].at \notin {"waiting", "announced"} => readers = {}

\* What a handler has checked stays true while it holds its lock.
Promised(c) ==
  /\ call[c].kind \in Adds /\ call[c].at \in {"checked", "inside", "listed"} => TargetFits(call[c].to)
  /\ call[c].kind = "issue" /\ call[c].at \notin {"waiting", "held"} => Active(call[c].it)
  /\ call[c].at = "listed" => \A i \in Intents : AgentOf[i] = call[c].it => ~Active(i)
  /\ call[c].kind \in Removes /\ call[c].at = "checked" /\ ~call[c].force => Dependents(call[c].it) = {}

Promises == \A c \in Callers : Promised(c)

OpInv ==
  /\ OperatorsTypeOK /\ Locks /\ Promises
  /\ NoOrphans /\ OneActiveIntent /\ CertsOfActive /\ KeyForgotten

\* What a step may do to the calls.
CallTyped(r) ==
  /\ r \in CallState
  /\ r.kind \in Removes \cup {"issue"} => r.it \in Ops
  /\ r.kind = "move" => r.it \in Senders
  /\ r.kind = "create_intent" => r.it \in Agents

CallsTyped ==
  /\ readers \in SUBSET Callers
  /\ writer \in Callers \cup {None} /\ intentMu \in Callers \cup {None}
  /\ DOMAIN call = Callers /\ call = [c \in Callers |-> call[c]] /\ \A c \in Callers : CallTyped(call[c])

TableTyped ==
  /\ status \in [Senders -> {"none", "active", "revoked", "deleted"}]
  /\ to \in [Senders -> Targets]
  /\ revoked \in SUBSET Agents
  /\ opened \in SUBSET Ops /\ inflight \in [Ops -> Callers \cup {None}] /\ ledger \in SUBSET Ops
  /\ left \in SUBSET Senders /\ crossed \in BOOLEAN /\ asked \in Nat /\ failures \in Nat

LEMMA TypeParts == OperatorsTypeOK <=> CallsTyped /\ TableTyped
BY DEF OperatorsTypeOK, CallsTyped, TableTyped, CallTyped

LEMMA IdleIs ==
  /\ CallTyped(Idle)
  /\ Idle.kind = "none" /\ Idle.at = "idle"
BY DEF Idle, CallTyped, CallState, Removes, Reads, Adds, Targets

LEMMA OperatorsStart == OperatorsInit => OpInv
<1>. SUFFICES ASSUME OperatorsInit PROVE OpInv
  OBVIOUS
<1>1. /\ \A c \in Callers : call[c] = Idle
      /\ readers = {} /\ writer = None /\ intentMu = None /\ opened = {}
      /\ \A s \in Senders : to[s] = Outside /\ (Active(s) <=> s \in Existing)
      /\ ledger = Existing
  BY DEF OperatorsInit, Active
<1>2. CallsTyped
  BY <1>1, IdleIs DEF OperatorsInit, CallsTyped
<1>3. TableTyped
  BY OperatorsAssumption DEF OperatorsInit, TableTyped, Targets, Senders
<1>4. Locks
  BY <1>1, IdleIs, OperatorsAssumption DEF Locks, Reads, Adds, Removes
<1>5. Promises
  BY <1>1, IdleIs DEF Promises, Promised, Adds, Removes
<1>6. NoOrphans /\ OneActiveIntent /\ CertsOfActive /\ KeyForgotten
  BY <1>1, IdleIs, OperatorsAssumption
     DEF NoOrphans, OneActiveIntent, CertsOfActive, KeyForgotten, Senders, Exists, Active
<1>. QED
  BY <1>2, <1>3, <1>4, <1>5, <1>6, TypeParts DEF OpInv

-----------------------------------------------------------------------------
\* What the two ways of going on do to calls and locks

\* A handler goes on to another place of its request, and changes no lock.
LEMMA ProceedsKeeps ==
  ASSUME OpInv, NEW c \in Callers, call[c].at \in Holding, call[c].kind # "none",
         NEW place \in Holding, place \in PlacesOf(call[c].kind), Proceeds(c, place),
         place \in {"inside", "listed"} <=> call[c].at \in {"inside", "listed"}
  PROVE  /\ CallsTyped' /\ Locks'
         /\ call'[c] = [call[c] EXCEPT !.at = place]
         /\ \A d \in Callers : d # c => call'[d] = call[d]
<1>1. CallsTyped
  BY TypeParts DEF OpInv
<1>2. /\ call'[c] = [call[c] EXCEPT !.at = place]
      /\ \A d \in Callers : d # c => call'[d] = call[d]
      /\ DOMAIN call' = Callers /\ call' = [d \in Callers |-> call'[d]]
  BY <1>1 DEF Proceeds, CallsTyped
<1>3. /\ call'[c].kind = call[c].kind /\ call'[c].it = call[c].it /\ call'[c].at = place
      /\ call'[c] \in CallState
  BY <1>1, <1>2 DEF CallsTyped, CallTyped, CallState
<1>4. CallsTyped'
  BY <1>1, <1>2, <1>3 DEF CallsTyped, CallTyped, Proceeds, locks
<1>5. place \notin {"waiting", "announced", "idle"} /\ call[c].at \notin {"waiting", "announced", "idle"}
  BY DEF Holding
<1>6. /\ Locks /\ UNCHANGED <<readers, writer, intentMu>>
      /\ \A d \in Callers : d # c => call'[d] = call[d]
  BY <1>2 DEF OpInv, Proceeds, locks
<1>7. \A d \in Callers : call'[d] = Idle \/ (call'[d].kind # "none" /\ call'[d].at \in PlacesOf(call'[d].kind))
  BY <1>3, <1>6 DEF Locks
<1>8. \A d \in Callers : d \in readers' <=> call'[d].kind \in Reads /\ call'[d].at # "waiting"
  BY <1>3, <1>5, <1>6 DEF Locks
<1>9. \A d \in Callers : writer' = d <=> call'[d].kind \in Removes /\ call'[d].at # "waiting"
  BY <1>3, <1>5, <1>6 DEF Locks
<1>10. \A d \in Callers : intentMu' = d <=> call'[d].at \in {"inside", "listed"}
  BY <1>3, <1>6 DEF Locks
<1>11. \A d \in Callers : call'[d].kind \in Removes /\ call'[d].at \notin {"waiting", "announced"} => readers' = {}
  BY <1>3, <1>5, <1>6 DEF Locks
<1>12. Locks'
  BY <1>7, <1>8, <1>9, <1>10, <1>11 DEF Locks
<1>. QED
  BY <1>2, <1>4, <1>12

\* A handler returns: nobody else but those that waited for DepMu moves.
LEMMA ReturnKeeps ==
  ASSUME OpInv, NEW c \in Callers, call[c].at \in Holding, Return(c)
  PROVE  /\ CallsTyped' /\ Locks'
         /\ call'[c] = Idle
         /\ \A d \in Callers : call'[d] = call[d] \/ call'[d] = Idle
                                 \/ (call[d].at = "waiting" /\ call'[d].at = "held" /\ call'[d].kind \in Reads)
         /\ \A d \in Callers : call[d].at # "waiting" /\ d # c => call'[d] = call[d]
<1>1. CallsTyped /\ Locks
  BY TypeParts DEF OpInv
<1>2. /\ intentMu' = IF intentMu = c THEN None ELSE intentMu
      /\ c # None
  BY OperatorsAssumption DEF Return
<1>3. call[c].at \notin {"waiting", "announced", "idle"} /\ call[c] # Idle
  BY IdleIs DEF Holding
<1>4. CASE writer = c
  <2>1. /\ writer' = None /\ readers' = WaitingReaders
        /\ call' = [d \in Callers |-> IF d = c THEN Idle
                                      ELSE IF d \in WaitingReaders THEN [call[d] EXCEPT !.at = "held"]
                                      ELSE call[d]]
    BY <1>4 DEF Return
  <2>2. \A d \in Callers : d \in WaitingReaders =>
           /\ [call[d] EXCEPT !.at = "held"].at = "held"
           /\ [call[d] EXCEPT !.at = "held"].kind = call[d].kind
           /\ [call[d] EXCEPT !.at = "held"].it = call[d].it
           /\ [call[d] EXCEPT !.at = "held"] \in CallState
    BY <1>1 DEF CallsTyped, CallTyped, CallState, Holding
  <2>3. call[c].kind \in Removes /\ readers = {} /\ c \notin WaitingReaders
    BY <1>1, <1>3, <1>4 DEF Locks, WaitingReaders
  <2>4. /\ call'[c] = Idle
        /\ \A d \in Callers : d \in WaitingReaders =>
             /\ call'[d].at = "held" /\ call'[d].kind = call[d].kind /\ call'[d].it = call[d].it
             /\ call'[d] \in CallState /\ call[d].at = "waiting" /\ call[d].kind \in Reads
        /\ \A d \in Callers : d # c /\ d \notin WaitingReaders => call'[d] = call[d]
        /\ DOMAIN call' = Callers /\ call' = [d \in Callers |-> call'[d]]
    BY <2>1, <2>2, <2>3 DEF WaitingReaders
  <2>5. CallsTyped'
    <3>1. \A d \in Callers : CallTyped(call'[d])
      BY <1>1, <2>4, IdleIs DEF CallsTyped, CallTyped
    <3>. QED
      BY <1>1, <1>2, <2>1, <2>4, <3>1 DEF CallsTyped, WaitingReaders
  <2>6. Locks'
    <3>1. \A d \in Callers : call'[d] = Idle \/ (call'[d].kind # "none" /\ call'[d].at \in PlacesOf(call'[d].kind))
      <4>1. \A kind : "held" \in PlacesOf(kind)
        BY DEF PlacesOf
      <4>2. \A d \in WaitingReaders : d \in Callers /\ call[d].kind # "none"
        BY DEF WaitingReaders, Reads, Adds
      <4>. QED
        BY <1>1, <2>4, <4>1, <4>2 DEF Locks
    <3>2. \A d \in Callers : d \in readers' <=> call'[d].kind \in Reads /\ call'[d].at # "waiting"
      BY <1>1, <2>1, <2>3, <2>4, IdleIs DEF Locks, WaitingReaders, Reads, Adds
    <3>3. \A d \in Callers : ~(call'[d].kind \in Removes /\ call'[d].at # "waiting")
      BY <1>1, <1>4, <2>4, IdleIs DEF Locks, Reads, Adds, Removes
    <3>4. \A d \in Callers : intentMu' = d <=> call'[d].at \in {"inside", "listed"}
      BY <1>1, <1>2, <2>4, IdleIs, OperatorsAssumption DEF Locks
    <3>. QED
      BY <2>1, <3>1, <3>2, <3>3, <3>4, OperatorsAssumption DEF Locks
  <2>. QED
    BY <2>4, <2>5, <2>6
<1>5. CASE writer # c
  <2>1. writer' = writer /\ readers' = readers \ {c} /\ call' = [call EXCEPT ![c] = Idle]
    BY <1>5 DEF Return
  <2>2. /\ call'[c] = Idle
        /\ \A d \in Callers : d # c => call'[d] = call[d]
        /\ DOMAIN call' = Callers /\ call' = [d \in Callers |-> call'[d]]
    BY <1>1, <2>1 DEF CallsTyped
  <2>3. CallsTyped'
    BY <1>1, <1>2, <2>1, <2>2, IdleIs DEF CallsTyped
  <2>4. Locks'
    <3>1. \A d \in Callers : call'[d] = Idle \/ (call'[d].kind # "none" /\ call'[d].at \in PlacesOf(call'[d].kind))
      BY <1>1, <2>2 DEF Locks
    <3>2. \A d \in Callers : d \in readers' <=> call'[d].kind \in Reads /\ call'[d].at # "waiting"
      BY <1>1, <2>1, <2>2, IdleIs DEF Locks, Reads, Adds
    <3>3. \A d \in Callers : writer' = d <=> call'[d].kind \in Removes /\ call'[d].at # "waiting"
      BY <1>1, <1>5, <2>1, <2>2, IdleIs DEF Locks, Removes
    <3>4. \A d \in Callers : intentMu' = d <=> call'[d].at \in {"inside", "listed"}
      BY <1>1, <1>2, <2>2, IdleIs, OperatorsAssumption DEF Locks
    <3>5. \A d \in Callers : call'[d].kind \in Removes /\ call'[d].at \notin {"waiting", "announced"} => readers' = {}
      BY <1>1, <2>1, <2>2, IdleIs DEF Locks, Removes
    <3>. QED
      BY <3>1, <3>2, <3>3, <3>4, <3>5 DEF Locks
  <2>. QED
    BY <2>2, <2>3, <2>4
<1>. QED
  BY <1>4, <1>5

-----------------------------------------------------------------------------
\* Steps that leave the rows alone

\* Rows stay as they are, and who moves relies only on what is so.
LEMMA QuietStep ==
  ASSUME OpInv, UNCHANGED <<table, revoked, left>>, CallsTyped', Locks', TableTyped',
         opened' \in SUBSET opened,
         \A d \in Callers : call'[d] = call[d] \/ ((call[d].at = "forgetting" => call[d].it \notin opened') /\ Promised(d)')
  PROVE  OpInv'
<1>1. OperatorsTypeOK'
  BY TypeParts DEF OperatorsTypeOK, CallsTyped, TableTyped, CallTyped
<1>2. Promises'
  <2>1. \A d \in Callers : call'[d] = call[d] => Promised(d)'
    BY DEF OpInv, Promises, Promised, Dependents, TargetFits, Active, table
  <2>. QED
    BY <2>1 DEF Promises
<1>3. NoOrphans' /\ OneActiveIntent'
  BY DEF OpInv, NoOrphans, OneActiveIntent, Active, table
<1>4. CertsOfActive'
  <2>1. \A d \in Callers : call'[d].at = "issued" => call'[d].kind = "issue"
    BY IdleIs DEF Locks, PlacesOf, Removes
  <2>2. \A d \in Callers : (call[d].at = "issued" => Active(call[d].it))'
    BY <1>2, <2>1 DEF Promises, Promised
  <2>. QED
    BY <2>2 DEF OpInv, CertsOfActive, Exists, table
<1>5. KeyForgotten'
  BY DEF OpInv, KeyForgotten, Active, table
<1>. QED
  BY <1>1, <1>2, <1>3, <1>4, <1>5 DEF OpInv

\* A handler that returns without having changed a row.
LEMMA ReturnsQuietly ==
  ASSUME OpInv, NEW c \in Callers, call[c].at \in Holding \ {"forgetting"}, Return(c),
         UNCHANGED <<table, revoked, left, cache>>, TableTyped'
  PROVE  OpInv'
<1>1. /\ CallsTyped' /\ Locks'
      /\ \A d \in Callers : call'[d] = call[d] \/ call'[d] = Idle
                              \/ (call[d].at = "waiting" /\ call'[d].at = "held" /\ call'[d].kind \in Reads)
      /\ \A d \in Callers : call[d].at # "waiting" /\ d # c => call'[d] = call[d]
  BY ReturnKeeps
<1>2. \A d \in Callers : call'[d] = call[d] \/ (call[d].at # "forgetting" /\ Promised(d)')
  BY <1>1, IdleIs DEF Promised, Reads, Adds, Removes
<1>. QED
  BY <1>1, <1>2, QuietStep DEF cache

LEMMA ProceedsQuietly ==
  ASSUME OpInv, NEW c \in Callers, call[c].at \in Holding \ {"forgetting"}, call[c].kind # "none",
         NEW place \in Holding, place \in PlacesOf(call[c].kind), Proceeds(c, place),
         place \in {"inside", "listed"} <=> call[c].at \in {"inside", "listed"},
         UNCHANGED <<table, revoked, left>>, opened' \in SUBSET opened, TableTyped', Promised(c)'
  PROVE  OpInv'
<1>1. /\ CallsTyped' /\ Locks'
      /\ \A d \in Callers : d # c => call'[d] = call[d]
  BY ProceedsKeeps
<1>. QED
  BY <1>1, QuietStep

LEMMA AskStep == ASSUME OpInv, NEW c \in Callers, Ask(c) PROVE OpInv'
<1>1. PICK r \in Requests :
        call' = [call EXCEPT ![c] = [kind |-> r.kind, at |-> "waiting", it |-> r.it, to |-> r.to, force |-> r.force]]
  BY DEF Ask
<1>2. /\ CallsTyped /\ TableTyped /\ Locks /\ call[c] = Idle
      /\ UNCHANGED <<table, revoked, locks, cache, left, crossed>> /\ asked' \in Nat /\ failures' = failures
  BY TypeParts DEF OpInv, Ask, TableTyped
<1>3. /\ r.kind \in Reads \cup Removes /\ r.kind # "none"
      /\ CallTyped([kind |-> r.kind, at |-> "waiting", it |-> r.it, to |-> r.to, force |-> r.force])
  BY OperatorsAssumption DEF Requests, CallTyped, CallState, Reads, Adds, Removes, Senders, Targets
<1>4. /\ call'[c].at = "waiting" /\ call'[c].kind = r.kind /\ CallTyped(call'[c])
      /\ \A d \in Callers : d # c => call'[d] = call[d]
      /\ DOMAIN call' = Callers /\ call' = [d \in Callers |-> call'[d]]
  BY <1>1, <1>2, <1>3 DEF CallsTyped
<1>5. CallsTyped'
  BY <1>2, <1>4 DEF CallsTyped, locks
<1>6. Locks'
  BY <1>2, <1>3, <1>4, IdleIs DEF Locks, locks, PlacesOf, Reads, Adds, Removes
<1>7. TableTyped'
  BY <1>2 DEF TableTyped, table, cache
<1>8. Promised(c)' /\ call[c].at # "forgetting"
  BY <1>2, <1>4, IdleIs DEF Promised
<1>. QED
  BY <1>2, <1>4, <1>5, <1>6, <1>7, <1>8, QuietStep DEF cache

\* DepMu is taken: a reader only while no writer has it or has asked for it.
LEMMA LockStep == ASSUME OpInv, NEW c \in Callers, GetRead(c) \/ Announce(c) \/ GetWrite(c) PROVE OpInv'
<1>1. CallsTyped /\ TableTyped /\ Locks
  BY TypeParts DEF OpInv
<1>2. PICK place \in {"held", "announced"} :
        /\ call' = [call EXCEPT ![c].at = place]
        /\ \/ place = "held" /\ GetRead(c)
           \/ place = "announced" /\ Announce(c)
           \/ place = "held" /\ GetWrite(c)
  BY DEF GetRead, Announce, GetWrite
<1>3. /\ call[c].at \in {"waiting", "announced"}
      /\ UNCHANGED <<table, revoked, intentMu, cache, left, crossed, counts>>
  BY DEF GetRead, Announce, GetWrite, locks
<1>4. /\ call'[c] = [call[c] EXCEPT !.at = place]
      /\ \A d \in Callers : d # c => call'[d] = call[d]
      /\ DOMAIN call' = Callers /\ call' = [d \in Callers |-> call'[d]]
  BY <1>1, <1>2 DEF CallsTyped
<1>5. call'[c].kind = call[c].kind /\ call'[c].it = call[c].it /\ call'[c].at = place /\ CallTyped(call'[c])
  BY <1>1, <1>4 DEF CallsTyped, CallTyped, CallState, Holding
<1>6. CallsTyped'
  BY <1>1, <1>3, <1>4, <1>5 DEF CallsTyped, GetRead, Announce, GetWrite, locks
<1>7. TableTyped'
  BY <1>1, <1>3 DEF TableTyped, table, cache, counts
<1>8. Promised(c)' /\ call[c].at # "forgetting"
  <2>1. place = "announced" => call[c].kind \in Removes
    BY <1>2 DEF Announce
  <2>. QED
    BY <1>3, <1>5, <2>1 DEF Promised, Removes
<1>9. Locks'
  <2>1. call[c] # Idle /\ call[c].kind # "none" /\ "held" \in PlacesOf(call[c].kind)
    BY <1>1, <1>3, IdleIs DEF Locks, PlacesOf
  <2>2. CASE place = "held" /\ GetRead(c)
    <3>1. place = "held" /\ call[c].kind \in Reads /\ writer = None /\ writer' = None /\ readers' = readers \cup {c}
      BY <1>2, <1>4, <1>5, <2>2 DEF GetRead, CallsTyped, CallState
    <3>2. \A d \in Callers : call[d].kind \in Removes => call[d].at = "waiting"
      BY <1>1, <3>1, OperatorsAssumption DEF Locks
    <3>. QED
      BY <1>1, <1>3, <1>4, <1>5, <2>1, <3>1, <3>2, <2>2 DEF Locks, GetRead, Removes, Reads, Adds
  <2>3. CASE place = "announced" /\ Announce(c)
    <3>1. place = "announced" /\ call[c].kind \in Removes /\ writer = None /\ writer' = c /\ readers' = readers
      BY <1>4, <1>5, <2>3 DEF Announce
    <3>2. \A d \in Callers : call[d].kind \in Removes => call[d].at = "waiting"
      BY <1>1, <3>1, OperatorsAssumption DEF Locks
    <3>3. "announced" \in PlacesOf(call[c].kind)
      BY <3>1 DEF PlacesOf, Removes
    <3>. QED
      BY <1>1, <1>3, <1>4, <1>5, <2>1, <3>1, <3>2, <3>3, <2>3 DEF Locks, Announce, Removes, Reads, Adds
  <2>4. CASE place = "held" /\ GetWrite(c)
    <3>1. place = "held" /\ call[c].at = "announced" /\ readers = {} /\ UNCHANGED locks
      BY <1>4, <1>5, <2>4 DEF GetWrite, NobodyReads
    <3>2. call[c].kind \in Removes
      BY <1>1, <2>1, <3>1 DEF Locks, PlacesOf
    <3>3. \A d \in Callers : intentMu' = d <=> call'[d].at \in {"inside", "listed"}
      BY <1>1, <1>4, <1>5, <3>1 DEF Locks, locks
    <3>4. \A d \in Callers : call'[d] = Idle \/ (call'[d].kind # "none" /\ call'[d].at \in PlacesOf(call'[d].kind))
      <4>1. call'[c].kind # "none" /\ call'[c].at \in PlacesOf(call'[c].kind)
        BY <1>5, <2>1, <3>1
      <4>2. \A d \in Callers : d # c => call'[d] = call[d]
        BY <1>4
      <4>. QED
        BY <1>1, <4>1, <4>2 DEF Locks
    <3>5. \A d \in Callers : /\ d \in readers' <=> call'[d].kind \in Reads /\ call'[d].at # "waiting"
                             /\ writer' = d <=> call'[d].kind \in Removes /\ call'[d].at # "waiting"
      <4>1. call'[c].kind \in Removes /\ call'[c].kind \notin Reads /\ call'[c].at = "held"
        BY <1>5, <3>1, <3>2 DEF Removes, Reads, Adds
      <4>2. c \notin readers /\ writer = c /\ UNCHANGED <<readers, writer>>
        BY <1>1, <3>1, <3>2 DEF Locks, locks
      <4>3. \A d \in Callers : d # c => call'[d] = call[d]
        BY <1>4
      <4>. QED
        BY <1>1, <4>1, <4>2, <4>3 DEF Locks
    <3>. QED
      BY <3>1, <3>3, <3>4, <3>5 DEF Locks, locks
  <2>. QED
    BY <1>2, <2>2, <2>3, <2>4
<1>. QED
  BY <1>3, <1>4, <1>6, <1>7, <1>8, <1>9, QuietStep DEF cache

-----------------------------------------------------------------------------
\* Steps of a request that only look

\* What is typed and not about calls.
LEMMA TableTypeKept ==
  ASSUME TableTyped, UNCHANGED <<table, revoked, left>>, opened' \in SUBSET Ops,
         inflight' \in [Ops -> Callers \cup {None}], crossed' \in BOOLEAN, asked' \in Nat, failures' \in Nat
  PROVE  TableTyped'
BY DEF TableTyped, table

LEMMA LookStep ==
  ASSUME OpInv, NEW c \in Callers, CheckAdd(c) \/ CheckIssue(c) \/ CheckRemoval(c) \/ ListIntents(c) \/ TakeSlot(c)
  PROVE  OpInv'
<1>1. TableTyped /\ CallsTyped /\ Locks
  BY TypeParts DEF OpInv
<1>2. UNCHANGED <<table, revoked, left, cache, crossed, counts>>
  BY DEF CheckAdd, CheckIssue, CheckRemoval, ListIntents, TakeSlot
<1>3. TableTyped'
  BY <1>1, <1>2, TableTypeKept DEF cache, counts, TableTyped
<1>4. call[c].at \in Holding \ {"forgetting"} /\ call[c].kind # "none"
  <2>1. call[c].at \in {"held", "inside", "opening"}
    BY DEF CheckAdd, CheckIssue, CheckRemoval, ListIntents, TakeSlot
  <2>. QED
    BY <1>1, <2>1, IdleIs DEF Locks, Holding
<1>5. CASE Return(c)
  BY <1>2, <1>3, <1>4, <1>5, ReturnsQuietly
<1>6. CASE ~Return(c)
  <2>1. PICK place \in {"checked", "listed", "unsealing"} :
          /\ Proceeds(c, place)
          /\ \/ place = "checked" /\ call[c].at = "held" /\ call[c].kind \in Adds /\ MayAdd(call[c])
             \/ place = "checked" /\ call[c].at = "held" /\ call[c].kind = "issue" /\ Active(call[c].it)
             \/ /\ place = "checked" /\ call[c].at = "held" /\ call[c].kind \in Removes
                /\ Dependents(call[c].it) = {} \/ call[c].force
             \/ /\ place = "listed" /\ call[c].at = "inside"
                /\ ~ \E i \in Intents : AgentOf[i] = call[c].it /\ Active(i)
             \/ place = "unsealing" /\ call[c].at = "opening"
    <3>1. CASE CheckAdd(c)
      BY <1>6, <3>1 DEF CheckAdd
    <3>2. CASE CheckIssue(c)
      BY <1>6, <3>2 DEF CheckIssue
    <3>3. CASE CheckRemoval(c)
      BY <1>6, <3>3 DEF CheckRemoval
    <3>4. CASE ListIntents(c)
      BY <1>6, <3>4 DEF ListIntents
    <3>5. CASE TakeSlot(c)
      BY <3>5 DEF TakeSlot
    <3>. QED
      BY <3>1, <3>2, <3>3, <3>4, <3>5
  <2>2. place \in PlacesOf(call[c].kind) /\ place \in Holding /\ (place = "listed" <=> call[c].at = "inside")
    <3>1. call[c].at = "inside" => call[c].kind = "create_intent"
      BY <1>1, IdleIs DEF Locks, PlacesOf
    <3>2. call[c].at = "opening" => call[c].kind = "issue"
      BY <1>1, IdleIs DEF Locks, PlacesOf
    <3>. QED
      BY <2>1, <3>1, <3>2 DEF PlacesOf, Holding
  <2>3. place \in {"inside", "listed"} <=> call[c].at \in {"inside", "listed"}
    BY <2>1, <2>2
  <2>4. /\ call'[c].kind = call[c].kind /\ call'[c].it = call[c].it /\ call'[c].at = place
        /\ call'[c].to = call[c].to /\ call'[c].force = call[c].force
    <3>1. call'[c] = [call[c] EXCEPT !.at = place]
      BY <1>4, <2>1, <2>2, <2>3, ProceedsKeeps
    <3>. QED
      BY <1>1, <3>1 DEF CallsTyped, CallTyped, CallState
  <2>5. Promised(c)
    BY DEF OpInv, Promises
  <2>6. (call[c].kind \in Adds /\ call[c].at \in {"checked", "inside", "listed"} => TargetFits(call[c].to))'
    BY <1>2, <2>1, <2>4, <2>5 DEF Promised, MayAdd, TargetFits, Active, table, Adds, Removes
  <2>7. (call[c].kind = "issue" /\ call[c].at \notin {"waiting", "held"} => Active(call[c].it))'
    BY <1>2, <2>1, <2>4, <2>5, <2>2 DEF Promised, Active, table, Adds, Removes, PlacesOf
  <2>8. (call[c].at = "listed" => \A i \in Intents : AgentOf[i] = call[c].it => ~Active(i))'
    BY <1>2, <2>1, <2>4 DEF Active, table
  <2>9. (call[c].kind \in Removes /\ call[c].at = "checked" /\ ~call[c].force => Dependents(call[c].it) = {})'
    BY <1>2, <2>1, <2>4 DEF Dependents, Active, table, Adds, Removes
  <2>10. Promised(c)'
    BY <2>6, <2>7, <2>8, <2>9 DEF Promised
  <2>. QED
    BY <1>2, <1>3, <1>4, <2>1, <2>2, <2>3, <2>10, ProceedsQuietly DEF cache
<1>. QED
  BY <1>5, <1>6

LEMMA TakeIntentMuStep == ASSUME OpInv, NEW c \in Callers, TakeIntentMu(c) PROVE OpInv'
<1>1. TableTyped /\ CallsTyped /\ Locks /\ Promised(c)
  BY TypeParts DEF OpInv, Promises
<1>2. /\ UNCHANGED <<table, revoked, readers, writer, left, cache, crossed, counts>>
      /\ call[c].at = "checked" /\ call[c].kind = "create_intent" /\ intentMu = None /\ intentMu' = c
      /\ call' = [call EXCEPT ![c].at = "inside"]
  BY DEF TakeIntentMu, IntentMuFree
<1>3. /\ call'[c] = [call[c] EXCEPT !.at = "inside"]
      /\ \A d \in Callers : d # c => call'[d] = call[d]
      /\ DOMAIN call' = Callers /\ call' = [d \in Callers |-> call'[d]]
  BY <1>1, <1>2 DEF CallsTyped
<1>4. /\ call'[c].kind = "create_intent" /\ call'[c].it = call[c].it /\ call'[c].at = "inside"
      /\ call'[c].to = call[c].to /\ CallTyped(call'[c])
  BY <1>1, <1>2, <1>3 DEF CallsTyped, CallTyped, CallState, Holding
<1>5. CallsTyped'
  BY <1>1, <1>2, <1>3, <1>4 DEF CallsTyped
<1>6. Locks'
  <2>1. \A d \in Callers : call[d].at \notin {"inside", "listed"}
    BY <1>1, <1>2, OperatorsAssumption DEF Locks
  <2>2. \A d \in Callers : intentMu' = d <=> call'[d].at \in {"inside", "listed"}
    BY <1>2, <1>3, <1>4, <2>1
  <2>3. "inside" \in PlacesOf("create_intent")
    BY DEF PlacesOf
  <2>. QED
    BY <1>1, <1>2, <1>3, <1>4, <2>2, <2>3 DEF Locks, Reads, Adds, Removes
<1>7. Promised(c)'
  BY <1>1, <1>2, <1>4 DEF Promised, TargetFits, Active, table, Adds, Removes
<1>8. TableTyped'
  BY <1>1, <1>2, TableTypeKept DEF cache, counts, TableTyped
<1>. QED
  BY <1>2, <1>3, <1>5, <1>6, <1>7, <1>8, QuietStep DEF cache

\* The certificate authority: a kept one, somebody else's open, or a new one.
LEMMA FindStep == ASSUME OpInv, NEW c \in Callers, FindCA(c) PROVE OpInv'
<1>1. TableTyped /\ CallsTyped /\ Locks /\ Promised(c)
  BY TypeParts DEF OpInv, Promises
<1>2. PICK place \in {"issued", "sharing", "opening"} :
        Proceeds(c, place) /\ (inflight' = inflight \/ inflight' = [inflight EXCEPT ![call[c].it] = c])
  <2>1. CASE call[c].it \in opened'
    BY <2>1 DEF FindCA
  <2>2. CASE call[c].it \notin opened' /\ inflight[call[c].it] # None
    BY <2>2 DEF FindCA
  <2>3. CASE call[c].it \notin opened' /\ inflight[call[c].it] = None
    BY <2>3 DEF FindCA
  <2>. QED
    BY <2>1, <2>2, <2>3
<1>3. /\ UNCHANGED <<table, revoked, left, crossed, counts>> /\ opened' \in SUBSET opened
      /\ call[c].at = "checked" /\ call[c].kind = "issue"
  BY DEF FindCA
<1>4. TableTyped'
  <2>1. inflight' \in [Ops -> Callers \cup {None}] /\ opened' \in SUBSET Ops
    BY <1>1, <1>2, <1>3 DEF TableTyped
  <2>. QED
    BY <1>1, <1>3, <2>1, TableTypeKept DEF counts, TableTyped
<1>5. /\ place \in PlacesOf(call[c].kind) /\ place \in Holding
      /\ place \notin {"inside", "listed"} /\ call[c].at \in Holding \ {"forgetting"}
  BY <1>3 DEF PlacesOf, Holding
<1>6. call'[c].kind = "issue" /\ call'[c].it = call[c].it /\ call'[c].at = place
  <2>1. call'[c] = [call[c] EXCEPT !.at = place]
    BY <1>2, <1>3, <1>5, ProceedsKeeps
  <2>. QED
    BY <1>1, <1>3, <2>1 DEF CallsTyped, CallTyped, CallState
<1>7. Promised(c)'
  BY <1>1, <1>2, <1>3, <1>6 DEF Promised, Active, table, Adds, Removes
<1>. QED
  BY <1>2, <1>3, <1>4, <1>5, <1>7, ProceedsQuietly

\* An open ends: those who shared it go on, or try for themselves.
LEMMA OpenEndsStep ==
  ASSUME OpInv, NEW c \in Callers, call[c].at \in {"opening", "unsealing"}, NEW ok \in BOOLEAN, OpenEnds(c, ok),
         UNCHANGED <<table, revoked, left, crossed>>, asked' \in Nat, failures' \in Nat
  PROVE  OpInv'
<1> DEFINE o == call[c].it
<1>1. TableTyped /\ CallsTyped /\ Locks /\ Promises
  BY TypeParts DEF OpInv
<1>2. /\ call[c].kind = "issue" /\ o \in Ops /\ Active(o) /\ call[c] # Idle
      /\ c \in readers /\ writer # c /\ intentMu # c
  BY <1>1, IdleIs DEF Locks, PlacesOf, Promises, Promised, CallsTyped, CallTyped, Reads, Removes, Adds
<1>3. \A d \in Sharing(o) : d \in Callers /\ d # c /\ call[d].at = "sharing" /\ call[d].kind = "issue" /\ call[d].it = o
  BY <1>1, IdleIs DEF Sharing, Locks, PlacesOf
<1>4. /\ \A d \in Callers : d # c /\ d \notin Sharing(o) => call'[d] = call[d]
      /\ \A d \in Sharing(o) : \E place \in {"issued", "checked"} : call'[d] = [call[d] EXCEPT !.at = place]
      /\ call'[c] = IF ok THEN [call[c] EXCEPT !.at = "issued"] ELSE Idle
      /\ DOMAIN call' = Callers /\ call' = [d \in Callers |-> call'[d]]
      /\ readers' = IF ok THEN readers ELSE readers \ {c}
      /\ UNCHANGED <<writer, intentMu>>
  BY <1>3 DEF OpenEnds
<1>5. \A d \in Callers : call'[d] # call[d] =>
        /\ call[d].at \in {"opening", "unsealing", "sharing"} /\ call[d].kind = "issue" /\ call[d].it = o
        /\ \/ d = c /\ ~ok /\ call'[d] = Idle
           \/ /\ call'[d].at \in {"issued", "checked"} /\ call'[d].kind = "issue" /\ call'[d].it = o
              /\ call'[d] \in CallState /\ (d = c => ok)
  <2>1. \A d \in Callers, place \in {"issued", "checked"} :
          LET r == [call[d] EXCEPT !.at = place] IN
          r.at = place /\ r.kind = call[d].kind /\ r.it = call[d].it /\ r \in CallState
    BY <1>1 DEF CallsTyped, CallTyped, CallState, Holding
  <2>2. ASSUME NEW d \in Sharing(o)
        PROVE  /\ call'[d].at \in {"issued", "checked"} /\ call'[d].kind = "issue" /\ call'[d].it = o
               /\ call'[d] \in CallState
    <3>1. PICK place \in {"issued", "checked"} : call'[d] = [call[d] EXCEPT !.at = place]
      BY <1>4
    <3>2. d \in Callers /\ call[d].kind = "issue" /\ call[d].it = o
      BY <1>3
    <3>3. call[d] \in CallState
      BY <1>1, <3>2 DEF CallsTyped, CallTyped
    <3>. QED
      BY <3>1, <3>2, <3>3 DEF CallState, Holding
  <2>3. IF ok THEN /\ call'[c].at = "issued" /\ call'[c].kind = "issue" /\ call'[c].it = o
                   /\ call'[c] \in CallState
              ELSE call'[c] = Idle
    <3>1. CASE ok
      <4>1. call'[c] = [call[c] EXCEPT !.at = "issued"]
        BY <1>4, <3>1
      <4>. QED
        BY <1>2, <2>1, <3>1, <4>1
    <3>2. CASE ~ok
      BY <1>4, <3>2
    <3>. QED
      BY <3>1, <3>2
  <2>. QED
    BY <1>2, <1>3, <1>4, <2>2, <2>3
<1>6. CallsTyped'
  <2>1. \A d \in Callers : CallTyped(call'[d])
    BY <1>1, <1>2, <1>5, IdleIs DEF CallsTyped, CallTyped, Removes
  <2>. QED
    BY <1>1, <1>4, <2>1 DEF CallsTyped
<1>7. Locks'
  <2>1. \A d \in Callers : call'[d] = Idle \/ (call'[d].kind # "none" /\ call'[d].at \in PlacesOf(call'[d].kind))
    BY <1>1, <1>5 DEF Locks, PlacesOf
  <2>2. \A d \in Callers : d \in readers' <=> call'[d].kind \in Reads /\ call'[d].at # "waiting"
    <3>1. \A d \in Callers : call'[d] # call[d] => d \in readers
      BY <1>1, <1>5 DEF Locks, Reads
    <3>2. ok => call'[c].at = "issued" /\ call'[c].kind = "issue"
      BY <1>1, <1>2, <1>4 DEF CallsTyped, CallTyped, CallState
    <3>3. ~ok => call'[c] = Idle
      BY <1>4
    <3>. QED
      BY <1>1, <1>4, <1>5, <3>1, <3>2, <3>3, IdleIs DEF Locks, Reads, Adds
  <2>3. \A d \in Callers : writer' = d <=> call'[d].kind \in Removes /\ call'[d].at # "waiting"
    BY <1>1, <1>4, <1>5, IdleIs DEF Locks, Removes
  <2>4. \A d \in Callers : intentMu' = d <=> call'[d].at \in {"inside", "listed"}
    BY <1>1, <1>4, <1>5, IdleIs DEF Locks
  <2>5. \A d \in Callers : call'[d].kind \in Removes /\ call'[d].at \notin {"waiting", "announced"} => readers' = {}
    BY <1>1, <1>4, <1>5, IdleIs DEF Locks, Removes
  <2>. QED
    BY <2>1, <2>2, <2>3, <2>4, <2>5 DEF Locks
<1>8. opened' \in SUBSET (opened \cup {o}) /\ inflight' \in [Ops -> Callers \cup {None}]
  BY <1>1 DEF OpenEnds, TableTyped, cache
<1>9. TableTyped'
  BY <1>1, <1>2, <1>8, TableTypeKept DEF TableTyped
<1>10. OperatorsTypeOK'
  BY <1>6, <1>9, TypeParts DEF OperatorsTypeOK, CallsTyped, TableTyped, CallTyped
<1>11. Promises'
  <2>1. \A d \in Callers : call'[d] = call[d] => Promised(d)'
    BY <1>1 DEF Promises, Promised, Dependents, TargetFits, Active, table
  <2>2. status'[o] = "active"
    BY <1>2 DEF Active, table
  <2>3. \A d \in Callers : call'[d] # call[d] => Promised(d)'
    BY <1>5, <2>2, IdleIs DEF Promised, Adds, Removes, Active
  <2>. QED
    BY <2>1, <2>3 DEF Promises
<1>12. NoOrphans' /\ OneActiveIntent'
  BY DEF OpInv, NoOrphans, OneActiveIntent, Active, table
<1>13. CertsOfActive'
  BY <1>2, <1>5, IdleIs DEF OpInv, CertsOfActive, Exists, Active, table
<1>14. KeyForgotten'
  BY <1>2, <1>5, <1>8 DEF OpInv, KeyForgotten, Active, table
<1>. QED
  BY <1>7, <1>10, <1>11, <1>12, <1>13, <1>14 DEF OpInv

-----------------------------------------------------------------------------
\* Steps that change a row

\* Nobody holds DepMu for writing while somebody holds it for reading.
LEMMA ReadersExclude ==
  ASSUME Locks, NEW c \in Callers, call[c].kind \in Reads, call[c].at # "waiting"
  PROVE  \A d \in Callers : call[d].kind \in Removes => call[d].at \in {"waiting", "announced"}
BY DEF Locks

\* A handler that holds it for writing is alone.
LEMMA WriterAlone ==
  ASSUME Locks, NEW c \in Callers, call[c].kind \in Removes, call[c].at \notin {"waiting", "announced"}
  PROVE  /\ readers = {} /\ writer = c
         /\ \A d \in Callers : d # c =>
              \/ call[d] = Idle
              \/ call[d].kind \in Reads \cup Removes \cup {"none"} /\ call[d].at = "waiting"
              \/ call[d].kind \notin Reads \cup Removes
<1>1. readers = {} /\ writer = c
  BY DEF Locks, Reads, Adds, Removes
<1>2. \A d \in Callers : d # c => ~(call[d].kind \in Reads \cup Removes /\ call[d].at # "waiting")
  BY <1>1 DEF Locks
<1>. QED
  BY <1>1, <1>2

\* A new sender, or a sender that moves, and its handler.
LEMMA AddedStep ==
  ASSUME OpInv, NEW c \in Callers, call[c].kind \in Adds, call[c].at \in {"checked", "listed"},
         NEW s \in Senders,
         status' = [status EXCEPT ![s] = "active"], to' = [to EXCEPT ![s] = call[c].to],
         ledger \subseteq ledger', ledger' \subseteq ledger \cup ({s} \cap Ops),
         s \in Intents => Active(s) \/ (call[c].at = "listed" /\ AgentOf[s] = call[c].it),
         left' \in {left, left \ {s}}, UNCHANGED <<revoked, cache>>,
         crossed' \in BOOLEAN, asked' = asked, failures' = failures,
         CallsTyped', Locks',
         \A d \in Callers :
           \/ d # c /\ call'[d] = call[d]
           \/ call[d].at # "forgetting" /\ (call'[d] = Idle \/ call'[d].at = "held")
  PROVE  OpInv'
<1>1. TableTyped /\ CallsTyped /\ Locks /\ Promises
  BY TypeParts DEF OpInv
<1>2. TargetFits(call[c].to) /\ call[c].to \in Targets
  BY <1>1 DEF Promises, Promised, CallsTyped, CallTyped, CallState
<1>3. /\ \A x \in Senders : x # s => status'[x] = status[x] /\ to'[x] = to[x]
      /\ status'[s] = "active" /\ to'[s] = call[c].to
  BY <1>1 DEF TableTyped
<1>4. TableTyped'
  BY <1>1, <1>2 DEF TableTyped, cache
<1>5. \A d, e \in Callers : call[d].at = "listed" /\ call[e].at = "listed" => d = e
  BY <1>1 DEF Locks
<1>6. \A i \in Intents : status'[i] = "active" => Active(i) \/ (i = s /\ call[c].at = "listed" /\ AgentOf[i] = call[c].it)
  BY <1>3 DEF Active, Senders
<1>7. \A x \in Senders : Active(x) => status'[x] = "active"
  BY <1>3 DEF Active
<1>8. Promises'
  <2>1. ASSUME NEW d \in Callers, d # c, call'[d] = call[d] PROVE Promised(d)'
    <3>1. Promised(d)
      BY <1>1 DEF Promises
    <3>2. call[d].to \in Targets /\ (call[d].kind = "issue" => call[d].it \in Senders)
      BY <1>1 DEF CallsTyped, CallTyped, CallState, Senders
    <3>3. (call[d].kind \in Adds /\ call[d].at \in {"checked", "inside", "listed"} => TargetFits(call[d].to))'
      BY <1>7, <2>1, <3>1, <3>2 DEF Promised, TargetFits, Active, Targets, Senders
    <3>4. (call[d].kind = "issue" /\ call[d].at \notin {"waiting", "held"} => Active(call[d].it))'
      BY <1>7, <2>1, <3>1, <3>2 DEF Promised, Active
    <3>5. (call[d].at = "listed" => \A i \in Intents : AgentOf[i] = call[d].it => ~Active(i))'
      BY <1>5, <1>6, <2>1, <3>1 DEF Promised, Active
    <3>6. ~(call[d].kind \in Removes /\ call[d].at = "checked")
      BY <1>1, ReadersExclude DEF Reads
    <3>. QED
      BY <2>1, <3>3, <3>4, <3>5, <3>6 DEF Promised
  <2>2. ASSUME NEW d \in Callers, call'[d] = Idle \/ call'[d].at = "held" PROVE Promised(d)'
    BY <2>2, IdleIs DEF Promised, Adds, Removes
  <2>. QED
    BY <2>1, <2>2 DEF Promises
<1>9. NoOrphans'
  <2>1. SUFFICES ASSUME NEW x \in Senders, status'[x] = "active", x \in Intents => AgentOf[x] \notin revoked, to'[x] \in Ops
                 PROVE  status'[to'[x]] = "active" \/ x \in left'
    BY DEF NoOrphans, Active
  <2>2. CASE x = s
    BY <1>2, <1>3, <1>7, <2>1, <2>2, OperatorsAssumption DEF TargetFits, Senders
  <2>3. CASE x # s
    BY <1>3, <1>7, <2>1, <2>3 DEF OpInv, NoOrphans, Active, Senders
  <2>. QED
    BY <2>2, <2>3
<1>10. OneActiveIntent'
  <2>1. SUFFICES ASSUME NEW i \in Intents, NEW j \in Intents, status'[i] = "active", status'[j] = "active", AgentOf[i] = AgentOf[j]
                 PROVE  i = j
    BY DEF OneActiveIntent, Active
  <2>2. call[c].at = "listed" => \A k \in Intents : AgentOf[k] = call[c].it => ~Active(k)
    BY <1>1 DEF Promises, Promised
  <2>. QED
    BY <1>6, <2>1, <2>2 DEF OpInv, OneActiveIntent
<1>11. CertsOfActive'
  <2>1. (\A d \in Callers : call[d].at = "issued" => Active(call[d].it))'
    BY <1>8, IdleIs DEF Locks, PlacesOf, Promises, Promised, Active
  <2>2. \A o \in ledger' : status'[o] \in {"active", "revoked"}
    BY <1>1, <1>3 DEF OpInv, CertsOfActive, Exists, TableTyped, Senders
  <2>. QED
    BY <2>1, <2>2 DEF CertsOfActive, Exists
<1>12. KeyForgotten'
  <2>1. \A d \in Callers : call[d].at = "forgetting" => call'[d] = call[d]
    OBVIOUS
  <2>. QED
    BY <1>1, <1>7, <2>1 DEF OpInv, KeyForgotten, Active, cache, TableTyped, Senders
<1>13. OperatorsTypeOK'
  BY <1>4 DEF OperatorsTypeOK, CallsTyped, TableTyped, CallTyped
<1>. QED
  BY <1>8, <1>9, <1>10, <1>11, <1>12, <1>13 DEF OpInv

LEMMA AddStep ==
  ASSUME OpInv, NEW c \in Callers, CreateOperator(c) \/ Move(c) \/ CreateTelemetryIntent(c)
  PROVE  OpInv'
<1>1. TableTyped /\ CallsTyped /\ Locks
  BY TypeParts DEF OpInv
<1>2. /\ call[c].kind \in Adds /\ call[c].at \in {"checked", "listed"} /\ call[c].at \in Holding \ {"forgetting"}
      /\ call[c].kind # "none"
      /\ UNCHANGED <<revoked, cache, counts>> /\ crossed' \in BOOLEAN
  <2>1. call[c].at = "listed" => call[c].kind = "create_intent"
    BY <1>1, IdleIs DEF Locks, PlacesOf
  <2>2. call[c].kind \in Adds /\ call[c].at \in {"checked", "listed"}
    BY <2>1 DEF CreateOperator, Move, CreateTelemetryIntent, Adds
  <2>. QED
    BY <1>1, <2>2 DEF CreateOperator, Move, CreateTelemetryIntent, Adds, Holding, TableTyped
<1>3. CASE Return(c) /\ UNCHANGED <<table, left>>
  <2>1. TableTyped'
    BY <1>1, <1>2, <1>3 DEF TableTyped, table, cache, counts
  <2>. QED
    BY <1>2, <1>3, <2>1, ReturnsQuietly
<1>4. CASE ~(Return(c) /\ UNCHANGED <<table, left>>)
  <2>1. PICK s \in Senders :
          /\ status' = [status EXCEPT ![s] = "active"] /\ to' = [to EXCEPT ![s] = call[c].to]
          /\ ledger \subseteq ledger' /\ ledger' \subseteq ledger \cup ({s} \cap Ops)
          /\ s \in Intents => Active(s) \/ (call[c].at = "listed" /\ AgentOf[s] = call[c].it)
          /\ left' \in {left, left \ {s}}
          /\ Return(c) \/ (call[c].kind = "create_op" /\ \E o \in Ops : Mints(c, o))
    <3>1. CASE CreateOperator(c)
      <4>1. PICK o \in Free(Ops) :
              /\ status' = [status EXCEPT ![o] = "active"]
              /\ to' = [to EXCEPT ![o] = call[c].to]
              /\ ledger' = ledger \cup {o}
              /\ Mints(c, o) \/ Return(c)
        BY <1>4, <3>1 DEF CreateOperator
      <4>2. o \in Ops /\ o \in Senders /\ o \notin Intents
        BY OperatorsAssumption DEF Free, Senders
      <4>. QED
        BY <3>1, <4>1, <4>2 DEF CreateOperator
    <3>2. CASE Move(c)
      <4>1. call[c].it \in Senders
        BY <1>1, <3>2 DEF Move, CallsTyped, CallTyped
      <4>2. Active(call[c].it)
        BY <1>4, <3>2 DEF Move, table
      <4>3. status' = [status EXCEPT ![call[c].it] = "active"]
        BY <1>1, <3>2, <4>1, <4>2 DEF Move, TableTyped, Active
      <4>. QED
        BY <3>2, <4>1, <4>2, <4>3 DEF Move
    <3>3. CASE CreateTelemetryIntent(c)
      <4>1. PICK i \in Free(Intents) :
              /\ AgentOf[i] = call[c].it
              /\ status' = [status EXCEPT ![i] = "active"]
              /\ to' = [to EXCEPT ![i] = call[c].to]
              /\ UNCHANGED ledger
        BY <1>4, <3>3 DEF CreateTelemetryIntent, table
      <4>2. i \in Intents /\ i \in Senders
        BY DEF Free, Senders
      <4>. QED
        BY <3>3, <4>1, <4>2 DEF CreateTelemetryIntent
    <3>. QED
      BY <3>1, <3>2, <3>3
  <2>2. asked' = asked /\ failures' = failures
    BY <1>2 DEF counts
  <2>3. CASE Return(c)
    <3>1. /\ \A d \in Callers : call'[d] = call[d] \/ call'[d] = Idle
                                  \/ (call[d].at = "waiting" /\ call'[d].at = "held" /\ call'[d].kind \in Reads)
          /\ \A d \in Callers : call[d].at # "waiting" /\ d # c => call'[d] = call[d]
          /\ call'[c] = Idle
      BY <1>2, <2>3, ReturnKeeps
    <3>3. CallsTyped' /\ Locks'
      BY <1>2, <2>3, ReturnKeeps
    <3>2. \A d \in Callers :
            \/ d # c /\ call'[d] = call[d]
            \/ call[d].at # "forgetting" /\ (call'[d] = Idle \/ call'[d].at = "held")
      BY <1>2, <3>1
    <3>. QED
      BY <1>2, <2>1, <2>2, <3>2, <3>3, AddedStep
  <2>4. CASE call[c].kind = "create_op" /\ \E o \in Ops : Mints(c, o)
    <3>1. PICK o \in Ops : Mints(c, o)
      BY <2>4
    <3>2. /\ call'[c] = [kind |-> "issue", at |-> "held", it |-> o, to |-> Outside, force |-> FALSE]
          /\ \A d \in Callers : d # c => call'[d] = call[d]
          /\ DOMAIN call' = Callers /\ call' = [d \in Callers |-> call'[d]]
          /\ UNCHANGED <<readers, writer, intentMu>>
      BY <1>1, <3>1 DEF Mints, CallsTyped, locks
    <3>3. CallsTyped'
      <4>1. CallTyped(call'[c])
        BY <3>2 DEF CallTyped, CallState, Reads, Removes, Adds, Holding, Senders, Targets
      <4>. QED
        BY <1>1, <3>2, <4>1 DEF CallsTyped
    <3>4. Locks'
      <4>1. call[c].at = "checked" /\ c \in readers /\ intentMu # c /\ writer # c
        <5>1. call[c].at # "listed"
          BY <1>1, <2>4, IdleIs DEF Locks, PlacesOf
        <5>. QED
          BY <1>1, <1>2, <2>4, <5>1 DEF Locks, Reads, Adds, Removes
      <4>2. /\ call'[c].kind = "issue" /\ call'[c].at = "held"
            /\ call'[c].kind # "none" /\ call'[c].at \in PlacesOf(call'[c].kind)
        BY <3>2 DEF PlacesOf
      <4>. QED
        BY <1>1, <3>2, <4>1, <4>2 DEF Locks, Reads, Adds, Removes
    <3>5. \A d \in Callers :
            \/ d # c /\ call'[d] = call[d]
            \/ call[d].at # "forgetting" /\ (call'[d] = Idle \/ call'[d].at = "held")
      BY <1>2, <3>2
    <3>. QED
      BY <1>2, <2>1, <2>2, <3>3, <3>4, <3>5, AddedStep
  <2>. QED
    BY <2>1, <2>3, <2>4
<1>. QED
  BY <1>3, <1>4

LEMMA RecordStep == ASSUME OpInv, NEW c \in Callers, RecordOperatorCert(c) PROVE OpInv'
<1> DEFINE o == call[c].it
<1>1. TableTyped /\ CallsTyped /\ Locks /\ Promises
  BY TypeParts DEF OpInv
<1>2. /\ call[c].at = "issued" /\ call[c].at \in Holding /\ ledger' = ledger \cup {o} /\ Return(c)
      /\ UNCHANGED <<status, to, revoked, cache, left, crossed, counts>>
  BY DEF RecordOperatorCert, Holding
<1>3. /\ CallsTyped' /\ Locks'
      /\ \A d \in Callers : call'[d] = call[d] \/ call'[d] = Idle
                              \/ (call[d].at = "waiting" /\ call'[d].at = "held" /\ call'[d].kind \in Reads)
      /\ \A d \in Callers : call[d].at # "waiting" /\ d # c => call'[d] = call[d]
  BY <1>2, ReturnKeeps
<1>4. Active(o) /\ o \in Ops
  BY <1>1, <1>2, IdleIs DEF Locks, PlacesOf, Promises, Promised, CallsTyped, CallTyped
<1>5. OperatorsTypeOK'
  BY <1>1, <1>2, <1>3, <1>4 DEF OperatorsTypeOK, CallsTyped, TableTyped, CallTyped, cache, counts
<1>6. Promises'
  <2>1. \A d \in Callers : call'[d] = call[d] => Promised(d)'
    BY <1>1, <1>2 DEF Promises, Promised, Dependents, TargetFits, Active
  <2>2. \A d \in Callers : call'[d] # call[d] => Promised(d)'
    BY <1>3, IdleIs DEF Promised, Reads, Adds, Removes
  <2>. QED
    BY <2>1, <2>2 DEF Promises
<1>7. NoOrphans' /\ OneActiveIntent'
  BY <1>2 DEF OpInv, NoOrphans, OneActiveIntent, Active
<1>8. CertsOfActive'
  <2>1. \A d \in Callers : call'[d].at = "issued" => call'[d] = call[d]
    BY <1>3, IdleIs
  <2>. QED
    BY <1>2, <1>4, <2>1 DEF OpInv, CertsOfActive, Exists, Active
<1>9. KeyForgotten'
  <2>1. \A d \in Callers : call[d].at = "forgetting" => call'[d] = call[d]
    BY <1>2, <1>3
  <2>. QED
    BY <1>2, <2>1 DEF OpInv, KeyForgotten, Active, cache
<1>. QED
  BY <1>3, <1>5, <1>6, <1>7, <1>8, <1>9 DEF OpInv

\* The removal itself: nobody has started to send to the operator since it was checked.
LEMMA RemoveStep == ASSUME OpInv, NEW c \in Callers, Remove(c) PROVE OpInv'
<1> DEFINE o == call[c].it
<1>1. TableTyped /\ CallsTyped /\ Locks /\ Promises
  BY TypeParts DEF OpInv
<1>2. /\ call[c].kind \in Removes /\ call[c].at = "checked" /\ call[c].at \in Holding \ {"forgetting"}
      /\ call[c].kind # "none" /\ o \in Ops
      /\ UNCHANGED <<revoked, cache, crossed, counts>>
  BY <1>1 DEF Remove, Removes, Holding, CallsTyped, CallTyped
<1>3. CASE Return(c) /\ UNCHANGED <<table, left>>
  <2>1. TableTyped'
    BY <1>1, <1>2, <1>3 DEF TableTyped, table, cache, counts
  <2>. QED
    BY <1>2, <1>3, <2>1, ReturnsQuietly
<1>4. CASE ~(Return(c) /\ UNCHANGED <<table, left>>)
  <2>1. /\ status' = [status EXCEPT ![o] = IF call[c].kind = "revoke" THEN "revoked" ELSE "deleted"]
        /\ ledger' = IF call[c].kind = "delete" THEN ledger \ {o} ELSE ledger
        /\ left' = IF call[c].force THEN left \cup Dependents(o) ELSE left
        /\ Proceeds(c, "forgetting") /\ UNCHANGED to
    BY <1>4 DEF Remove
  <2>2. /\ CallsTyped' /\ Locks'
        /\ call'[c] = [call[c] EXCEPT !.at = "forgetting"]
        /\ \A d \in Callers : d # c => call'[d] = call[d]
    <3>1. "forgetting" \in PlacesOf(call[c].kind) /\ "forgetting" \in Holding
      BY <1>2 DEF PlacesOf, Holding
    <3>. QED
      BY <1>2, <2>1, <3>1, ProceedsKeeps
  <2>3. call'[c].at = "forgetting" /\ call'[c].it = o /\ call'[c].kind = call[c].kind
    BY <1>1, <2>2 DEF CallsTyped, CallTyped, CallState
  <2>4. /\ \A x \in Senders : x # o => status'[x] = status[x]
        /\ status'[o] = IF call[c].kind = "revoke" THEN "revoked" ELSE "deleted"
        /\ o \in Senders /\ o \notin Intents
    BY <1>1, <1>2, <2>1, OperatorsAssumption DEF TableTyped, Senders
  <2>5. Dependents(o) \subseteq Senders
    BY DEF Dependents, Senders
  <2>6. TableTyped'
    BY <1>1, <1>2, <2>1, <2>5 DEF TableTyped, cache, counts
  <2>7. OperatorsTypeOK'
    BY <2>2, <2>6 DEF OperatorsTypeOK, CallsTyped, TableTyped, CallTyped
  <2>8. Promises'
    <3>1. \A d \in Callers : d # c => \/ call[d] = Idle
                                      \/ call[d].kind \in Reads \cup Removes /\ call[d].at = "waiting"
      BY <1>1, <1>2, WriterAlone, IdleIs DEF CallsTyped, CallTyped, CallState, Locks
    <3>2. \A d \in Callers : d # c => Promised(d)'
      BY <2>2, <3>1, IdleIs DEF Promised, Adds, Removes
    <3>3. Promised(c)'
      BY <1>2, <2>3 DEF Promised, Adds, Removes
    <3>. QED
      BY <3>2, <3>3 DEF Promises
  <2>9. NoOrphans'
    <3>1. SUFFICES ASSUME NEW x \in Senders, status'[x] = "active", x \in Intents => AgentOf[x] \notin revoked, to[x] \in Ops
                   PROVE  status'[to[x]] = "active" \/ x \in left'
      BY <1>2, <2>1 DEF NoOrphans, Active
    <3>2. x # o /\ Active(x)
      BY <2>4, <3>1 DEF Active
    <3>3. CASE to[x] = o
      <4>1. x \in Dependents(o)
        BY <3>1, <3>2, <3>3 DEF Dependents, Senders
      <4>2. call[c].force
        BY <1>1, <1>2, <4>1 DEF Promises, Promised
      <4>. QED
        BY <2>1, <4>1, <4>2
    <3>4. CASE to[x] # o
      BY <2>1, <2>4, <3>1, <3>2, <3>4 DEF OpInv, NoOrphans, Active, Senders
    <3>. QED
      BY <3>3, <3>4
  <2>10. OneActiveIntent'
    BY <2>4 DEF OpInv, OneActiveIntent, Active, Senders
  <2>11. CertsOfActive'
    <3>1. (\A d \in Callers : call[d].at = "issued" => Active(call[d].it))'
      BY <2>2, <2>8, IdleIs DEF Locks, PlacesOf, Promises, Promised, Active
    <3>2. \A p \in ledger' : status'[p] \in {"active", "revoked"}
      BY <1>1, <1>2, <2>1, <2>4 DEF OpInv, CertsOfActive, Exists, TableTyped, Senders, Removes
    <3>. QED
      BY <3>1, <3>2 DEF CertsOfActive, Exists
  <2>12. KeyForgotten'
    <3>1. \A p \in opened : p # o => p \in Senders /\ status'[p] = status[p]
      BY <1>1, <2>4 DEF TableTyped, Senders
    <3>2. \A d \in Callers : call[d].at = "forgetting" => call'[d] = call[d]
      BY <1>2, <2>2
    <3>3. opened' = opened
      BY <1>2 DEF cache
    <3>. QED
      BY <2>3, <3>1, <3>2, <3>3 DEF OpInv, KeyForgotten, Active
  <2>. QED
    BY <2>2, <2>7, <2>8, <2>9, <2>10, <2>11, <2>12 DEF OpInv
<1>. QED
  BY <1>3, <1>4

LEMMA ForgetStep == ASSUME OpInv, NEW c \in Callers, Forget(c) PROVE OpInv'
<1>1. TableTyped /\ CallsTyped /\ Locks
  BY TypeParts DEF OpInv
<1>2. /\ call[c].at = "forgetting" /\ call[c].at \in Holding /\ Return(c)
      /\ opened' = opened \ {call[c].it} /\ inflight' = [inflight EXCEPT ![call[c].it] = None]
      /\ UNCHANGED <<table, revoked, left, crossed, counts>>
  BY DEF Forget, Forgets, Holding
<1>3. /\ CallsTyped' /\ Locks'
      /\ \A d \in Callers : call'[d] = call[d] \/ call'[d] = Idle
                              \/ (call[d].at = "waiting" /\ call'[d].at = "held" /\ call'[d].kind \in Reads)
      /\ \A d \in Callers : call[d].at # "waiting" /\ d # c => call'[d] = call[d]
  BY <1>2, ReturnKeeps
<1>4. TableTyped'
  BY <1>1, <1>2, TableTypeKept DEF TableTyped, counts
<1>5. \A d \in Callers : call'[d] = call[d] \/ ((call[d].at = "forgetting" => call[d].it \notin opened') /\ Promised(d)')
  BY <1>2, <1>3, IdleIs DEF Promised, Reads, Adds, Removes
<1>. QED
  BY <1>2, <1>3, <1>4, <1>5, QuietStep

-----------------------------------------------------------------------------
\* Steps without a lock

\* Fewer senders, or more agents that are revoked, leave every promise standing.
LEMMA FewerSend ==
  ASSUME OpInv, UNCHANGED <<ledger, locks, cache, call, left, crossed, counts>>, TableTyped',
         revoked \subseteq revoked',
         \A x \in Senders : status'[x] = "active" => Active(x) /\ to'[x] = to[x],
         \A o \in Ops : status'[o] = status[o]
  PROVE  OpInv'
<1>1. TableTyped /\ CallsTyped /\ Locks /\ Promises
  BY TypeParts DEF OpInv
<1>2. UNCHANGED <<readers, writer, intentMu, opened, inflight, call>>
  BY DEF locks, cache
<1>3. CallsTyped' /\ Locks'
  BY <1>1, <1>2 DEF CallsTyped, Locks
<1>4. OperatorsTypeOK'
  BY <1>3 DEF OperatorsTypeOK, CallsTyped, TableTyped, CallTyped
<1>5. Promises'
  <2>1. ASSUME NEW d \in Callers PROVE Promised(d)'
    <3>1. Promised(d) /\ call[d].to \in Targets /\ (call[d].kind \in Removes \cup {"issue"} => call[d].it \in Ops)
      BY <1>1 DEF Promises, CallsTyped, CallTyped, CallState
    <3>2. (Dependents(call[d].it))' \subseteq Dependents(call[d].it)
      BY <1>2 DEF Dependents, Active, Senders
    <3>3. TargetFits(call[d].to) => (TargetFits(call[d].to))'
      BY <1>2, <3>1 DEF TargetFits, Active, Targets
    <3>4. \A i \in Intents : Active(i)' => Active(i)
      BY DEF Active, Senders
    <3>. QED
      BY <1>2, <3>1, <3>2, <3>3, <3>4 DEF Promised, Active
  <2>. QED
    BY <2>1 DEF Promises
<1>6. NoOrphans'
  BY <1>2 DEF OpInv, NoOrphans, Active
<1>7. OneActiveIntent'
  BY DEF OpInv, OneActiveIntent, Active, Senders
<1>8. CertsOfActive'
  <2>1. (\A d \in Callers : call[d].at = "issued" => Active(call[d].it))'
    BY <1>3, <1>5, IdleIs DEF Locks, PlacesOf, Promises, Promised, Active
  <2>. QED
    BY <1>1, <2>1 DEF OpInv, CertsOfActive, Exists, TableTyped
<1>9. KeyForgotten'
  BY <1>1, <1>2 DEF OpInv, KeyForgotten, Active, TableTyped
<1>. QED
  BY <1>3, <1>4, <1>5, <1>6, <1>7, <1>8, <1>9 DEF OpInv

LEMMA EndStep ==
  ASSUME OpInv, \/ \E i \in Intents : RevokeTelemetryIntent(i) \/ DeleteTelemetryIntent(i)
                \/ \E a \in Agents : RevokeAgent(a)
  PROVE  OpInv'
<1>1. TableTyped
  BY TypeParts DEF OpInv
<1>2. CASE \E i \in Intents : RevokeTelemetryIntent(i) \/ DeleteTelemetryIntent(i)
  <2>1. PICK i \in Intents : RevokeTelemetryIntent(i) \/ DeleteTelemetryIntent(i)
    BY <1>2
  <2>2. /\ \/ status' = [status EXCEPT ![i] = "revoked"]
           \/ status' = [status EXCEPT ![i] = "deleted"]
        /\ to' = to \/ to' = [to EXCEPT ![i] = Outside]
        /\ UNCHANGED <<ledger, revoked, locks, cache, call, left, crossed, counts>>
    BY <2>1 DEF RevokeTelemetryIntent, DeleteTelemetryIntent
  <2>3. i \in Senders /\ i \notin Ops
    BY OperatorsAssumption DEF Senders
  <2>4. TableTyped'
    BY <1>1, <2>2 DEF TableTyped, cache, counts, Targets
  <2>5. \A x \in Senders : status'[x] = "active" => Active(x) /\ to'[x] = to[x]
    BY <1>1, <2>2, <2>3 DEF TableTyped, Active
  <2>6. \A o \in Ops : status'[o] = status[o]
    BY <1>1, <2>2, <2>3 DEF TableTyped, Senders
  <2>. QED
    BY <2>2, <2>4, <2>5, <2>6, FewerSend
<1>3. CASE \E a \in Agents : RevokeAgent(a)
  <2>1. PICK a \in Agents : RevokeAgent(a)
    BY <1>3
  <2>2. revoked' = revoked \cup {a} /\ UNCHANGED <<table, locks, cache, call, left, crossed, counts>>
    BY <2>1 DEF RevokeAgent
  <2>3. TableTyped'
    BY <1>1, <2>2 DEF TableTyped, table, cache, counts
  <2>4. \A x \in Senders : status'[x] = "active" => Active(x) /\ to'[x] = to[x]
    BY <2>2 DEF table, Active
  <2>5. revoked \subseteq revoked' /\ UNCHANGED ledger /\ \A o \in Ops : status'[o] = status[o]
    BY <2>2 DEF table
  <2>. QED
    BY <2>2, <2>3, <2>4, <2>5, FewerSend
<1>. QED
  BY <1>2, <1>3

LEMMA FailStep ==
  ASSUME OpInv, NEW c \in Callers, OpenFails(c) \/ StoreFails(c)
  PROVE  OpInv'
<1>1. TableTyped
  BY TypeParts DEF OpInv
<1>2. asked' = asked /\ failures' \in Nat /\ UNCHANGED <<table, revoked, left, crossed>>
  <2>1. CASE OpenFails(c)
    BY <1>1, <2>1 DEF OpenFails, Failed, TableTyped
  <2>2. CASE StoreFails(c)
    BY <1>1, <2>2 DEF StoreFails, Failed, TableTyped
  <2>. QED
    BY <2>1, <2>2
<1>3. CASE call[c].at \in {"opening", "unsealing"} /\ OpenEnds(c, FALSE)
  BY <1>1, <1>2, <1>3, OpenEndsStep DEF TableTyped
<1>4. CASE Return(c) /\ call[c].at \in {"sharing", "held", "checked", "inside", "listed", "issued"} /\ UNCHANGED cache
  <2>1. TableTyped'
    BY <1>1, <1>2, <1>4 DEF TableTyped, table, cache
  <2>2. call[c].at \in Holding \ {"forgetting"}
    BY <1>4 DEF Holding
  <2>. QED
    BY <1>2, <1>4, <2>1, <2>2, ReturnsQuietly
<1>. QED
  BY <1>3, <1>4 DEF OpenFails, StoreFails

\* What is in memory is lost: nobody holds or promises anything.
LEMMA RestartStep == ASSUME OpInv, Restart PROVE OpInv'
<1>1. TableTyped
  BY TypeParts DEF OpInv
<1>2. /\ readers' = {} /\ writer' = None /\ intentMu' = None /\ opened' = {}
      /\ call' = [d \in Callers |-> Idle] /\ \A d \in Callers : call'[d] = Idle
      /\ UNCHANGED <<table, revoked, left, crossed>> /\ asked' = asked /\ failures' \in Nat
      /\ inflight' \in [Ops -> Callers \cup {None}]
  BY <1>1 DEF Restart, Failed, TableTyped
<1>3. CallsTyped'
  BY <1>2, IdleIs DEF CallsTyped
<1>4. TableTyped'
  BY <1>1, <1>2, TableTypeKept DEF TableTyped
<1>5. Locks'
  BY <1>2, IdleIs, OperatorsAssumption DEF Locks, Reads, Adds, Removes
<1>6. Promises'
  BY <1>2, IdleIs DEF Promises, Promised, Adds, Removes
<1>7. NoOrphans' /\ OneActiveIntent' /\ CertsOfActive' /\ KeyForgotten'
  BY <1>2, IdleIs DEF OpInv, NoOrphans, OneActiveIntent, CertsOfActive, KeyForgotten, Active, Exists, table
<1>8. OperatorsTypeOK'
  BY <1>3, <1>4 DEF OperatorsTypeOK, CallsTyped, TableTyped, CallTyped
<1>. QED
  BY <1>5, <1>6, <1>7, <1>8 DEF OpInv

-----------------------------------------------------------------------------

LEMMA OperatorsStep == OpInv /\ [OperatorsNext]_opVars => OpInv'
<1>. SUFFICES ASSUME OpInv, [OperatorsNext]_opVars PROVE OpInv'
  OBVIOUS
<1>1. CASE UNCHANGED opVars
  BY <1>1 DEF OpInv, OperatorsTypeOK, Locks, Promises, Promised, Dependents, TargetFits, NoOrphans, OneActiveIntent,
              CertsOfActive, KeyForgotten, Active, Exists, opVars, table, locks, cache, counts
<1>2. ASSUME NEW c \in Callers, Ask(c) \/ CallStep(c) \/ Takes(c) \/ OpenFails(c) \/ StoreFails(c)
      PROVE  OpInv'
  <2>1. CASE Unsealed(c)
    <3>1. /\ call[c].at \in {"opening", "unsealing"} /\ OpenEnds(c, TRUE)
          /\ UNCHANGED <<table, revoked, left, crossed>> /\ asked' \in Nat /\ failures' \in Nat
      BY <2>1 DEF Unsealed, OpInv, OperatorsTypeOK, counts
    <3>. QED
      BY <3>1, OpenEndsStep
  <2>2. CASE ~Unsealed(c)
    BY <1>2, <2>2, AskStep, LockStep, LookStep, TakeIntentMuStep, FindStep, AddStep, RecordStep, RemoveStep, ForgetStep, FailStep
       DEF CallStep, Takes
  <2>. QED
    BY <2>1, <2>2
<1>. QED
  BY <1>1, <1>2, EndStep, RestartStep DEF OperatorsNext

\* The inductive invariant: locks are held as DepMu and IntentMu say, and what a handler has
\* checked stays true while it holds them, for any number of handlers.
THEOREM OperatorsAlwaysInv == OperatorsSpec => []OpInv
  BY OperatorsStart, OperatorsStep, PTL DEF OperatorsSpec

\* No removal that was not forced, and no forced one without counting it, leaves a sender with
\* an operator that is gone, however removals and new senders meet.
THEOREM NoOrphansCorrect == OperatorsSpec => []NoOrphans
  BY OperatorsAlwaysInv, PTL DEF OpInv

\* An agent never has two active intents, for any number of requests to create one.
THEOREM OneActiveIntentCorrect == OperatorsSpec => []OneActiveIntent
  BY OperatorsAlwaysInv, PTL DEF OpInv

\* Certificates are made and recorded for active operators only, for any number of issuers.
THEOREM CertsOfActiveCorrect == OperatorsSpec => []CertsOfActive
  BY OperatorsAlwaysInv, PTL DEF OpInv

\* The opened key of an operator that is gone leaves memory with its removal, whoever shares the open.
THEOREM KeyForgottenCorrect == OperatorsSpec => []KeyForgotten
  BY OperatorsAlwaysInv, PTL DEF OpInv

-----------------------------------------------------------------------------
\* The chain that checkOperatorChain follows

\* Any set of numbers that is not empty has a least one.
LEMMA LeastOf == ASSUME NEW S \in SUBSET Nat, S # {} PROVE \E x \in S : \A y \in S : x <= y
<1> DEFINE Less == {ss \in Nat \X Nat : ss[1] < ss[2]}
<1>1. IsWellFoundedOn(Less, Nat)
  BY NatLessThanWellFounded DEF OpToRel
<1>2. PICK x \in S : \A y \in S : ~(<<y, x>> \in Less)
  <2> HIDE DEF Less
  <2>. QED
    BY <1>1, WFMin
<1>3. \A y \in S : x <= y
  <2>1. TAKE y \in S
  <2>2. x \in Nat /\ y \in Nat /\ ~(y < x)
    BY <1>2
  <2>. QED
    BY <2>2
<1>. QED
  BY <1>3

\* The operators that a sender reaches from t, as far as m steps.
HopsOf(t, m, f) ==
  f \in [0..m -> Targets] /\ f[0] = t /\ \A n \in 1..m : f[n] = SendsOn(f[n - 1])

\* However far one looks, there are such steps.
LEMMA HopsExist ==
  ASSUME OperatorsTypeOK, NEW t \in Targets, NEW m \in Nat
  PROVE  \E f : HopsOf(t, m, f)
<1> DEFINE Without == {k \in Nat : ~\E f : HopsOf(t, k, f)}
<1>1. SUFFICES ASSUME Without # {} PROVE FALSE
  OBVIOUS
<1>2. PICK k \in Without : \A j \in Without : k <= j
  <2>1. Without \in SUBSET Nat
    OBVIOUS
  <2> HIDE DEF Without
  <2>. QED
    BY <1>1, <2>1, LeastOf
<1>3. k \in Nat /\ \A f : ~HopsOf(t, k, f)
  OBVIOUS
<1>4. CASE k = 0
  <2>1. HopsOf(t, 0, [n \in 0..0 |-> t])
    BY DEF HopsOf
  <2>. QED
    BY <1>3, <1>4, <2>1
<1>5. CASE k # 0
  <2>1. k - 1 \in Nat /\ k - 1 \notin Without
    BY <1>2, <1>3, <1>5
  <2>2. PICK g : HopsOf(t, k - 1, g)
    BY <2>1
  <2>3. \A o \in Targets : SendsOn(o) \in Targets
    BY DEF SendsOn, OperatorsTypeOK, Targets, Senders
  <2> DEFINE f == [n \in 0..k |-> IF n < k THEN g[n] ELSE SendsOn(g[k - 1])]
  <2>4. /\ g \in [0..(k - 1) -> Targets] /\ g[0] = t
        /\ \A n \in 1..(k - 1) : g[n] = SendsOn(g[n - 1])
    BY <2>2 DEF HopsOf
  <2>5. \A n \in 0..k : /\ n < k => n \in 0..(k - 1) /\ f[n] = g[n]
                        /\ n = k => f[n] = SendsOn(g[k - 1])
                        /\ ~(n < k) => n = k
    BY <1>3, <1>5
  <2>6. k - 1 \in 0..(k - 1) /\ 0 \in 0..k /\ 0 < k
    BY <1>3, <1>5
  <2>7. \A n \in 0..k : f[n] \in Targets
    BY <2>3, <2>4, <2>5, <2>6
  <2>8. f[0] = t
    BY <2>4, <2>5, <2>6
  <2>9. \A n \in 1..k : f[n] = SendsOn(f[n - 1])
    <3>1. TAKE n \in 1..k
    <3>2. /\ n \in 0..k /\ n - 1 \in 0..k /\ n - 1 < k
          /\ n < k => n \in 1..(k - 1)
          /\ ~(n < k) => n = k
      BY <1>3
    <3>3. f[n - 1] = g[n - 1]
      BY <2>5, <3>2
    <3>4. CASE n < k
      BY <2>4, <2>5, <3>2, <3>3, <3>4
    <3>5. CASE n = k
      BY <2>5, <3>2, <3>3, <3>5
    <3>. QED
      BY <3>2, <3>4, <3>5
  <2>10. f \in [0..k -> Targets]
    BY <2>7
  <2> HIDE DEF f
  <2>11. HopsOf(t, k, f)
    BY <2>8, <2>9, <2>10 DEF HopsOf
  <2>. QED
    BY <1>3, <2>11
<1>. QED
  BY <1>4, <1>5

\* What checkOperatorChain follows are those steps.
LEMMA ChainHops ==
  ASSUME OperatorsTypeOK, NEW self, NEW t \in Targets, ChainFits(self, t)
  PROVE  \E hop : /\ HopsOf(t, MaxChain, hop)
                  /\ hop[MaxChain] = Outside /\ \A n \in 0..(MaxChain - 1) : hop[n] # self
<1> DEFINE Fits(h) == h = [n \in 0..MaxChain |-> IF n = 0 THEN t ELSE SendsOn(h[n - 1])]
           hop == CHOOSE h : Fits(h)
<1>1. MaxChain \in Nat \ {0}
  BY OperatorsAssumption
<1>2. PICK f : HopsOf(t, MaxChain, f)
  BY <1>1, HopsExist
<1>3. Fits(f)
  <2>1. f \in [0..MaxChain -> Targets] /\ f[0] = t /\ \A n \in 1..MaxChain : f[n] = SendsOn(f[n - 1])
    BY <1>2 DEF HopsOf
  <2>2. \A n \in 0..MaxChain : f[n] = IF n = 0 THEN t ELSE SendsOn(f[n - 1])
    <3>1. \A n \in 0..MaxChain : n # 0 => n \in 1..MaxChain
      BY <1>1
    <3>. QED
      BY <2>1, <3>1
  <2>. QED
    BY <2>1, <2>2
<1>4. Fits(hop)
  <2> HIDE DEF Fits
  <2>. QED
    BY <1>3
<1>5. hop[MaxChain] = Outside /\ \A n \in 0..(MaxChain - 1) : hop[n] # self
  BY DEF ChainFits
<1> HIDE DEF hop
<1>6. hop = f
  <2>1. \A n \in 0..MaxChain : hop[n] = IF n = 0 THEN t ELSE SendsOn(hop[n - 1])
    BY <1>4
  <2>2. \A n \in 0..MaxChain : f[n] = IF n = 0 THEN t ELSE SendsOn(f[n - 1])
    BY <1>3
  <2>3. DOMAIN hop = 0..MaxChain /\ DOMAIN f = 0..MaxChain /\ hop = [n \in 0..MaxChain |-> hop[n]] /\ f = [n \in 0..MaxChain |-> f[n]]
    BY <1>3, <1>4
  <2> DEFINE Differ == {n \in 0..MaxChain : hop[n] # f[n]}
  <2>4. SUFFICES ASSUME Differ # {} PROVE FALSE
    BY <2>3
  <2>5. PICK n \in Differ : \A j \in Differ : n <= j
    <3>1. Differ \in SUBSET Nat
      BY <1>1
    <3> HIDE DEF Differ
    <3>. QED
      BY <2>4, <3>1, LeastOf
  <2>6. n \in 0..MaxChain /\ hop[n] # f[n]
    OBVIOUS
  <2>7. CASE n = 0
    BY <2>1, <2>2, <2>6, <2>7
  <2>8. CASE n # 0
    <3>1. n - 1 \in 0..MaxChain /\ ~(n <= n - 1)
      BY <1>1, <2>6, <2>8
    <3>2. hop[n - 1] = f[n - 1]
      BY <2>5, <3>1
    <3>. QED
      BY <2>1, <2>2, <2>6, <2>8, <3>2
  <2>. QED
    BY <2>7, <2>8
<1>. QED
  BY <1>2, <1>5, <1>6

-----------------------------------------------------------------------------
\* Operators never send in a circle

\* A circle that s would close by sending to t.
Closes(s, t) ==
  \E round \in SUBSET {o \in Ops : Active(o)} :
    s \in round /\ t \in round /\ \A o \in round \ {s} : to[o] \in round

\* What is not there yet is nobody's destination and nobody's request.
NamedExist ==
  /\ \A s \in Senders : to[s] \notin Free(Ops)
  /\ \A c \in Callers : {call[c].it, call[c].to} \cap Free(Ops) = {}

\* A move that was found to fit still does, unless another one came in between.
MovesFit ==
  crossed \/ \A c \in Callers :
    call[c].kind = "move" /\ call[c].at = "checked" /\ call[c].it \in Ops => ~Closes(call[c].it, call[c].to)

CircleInv == NamedExist /\ MovesFit /\ NoCircle

\* What checkOperatorChain lets through closes no circle.
LEMMA ChainCloses ==
  ASSUME OperatorsTypeOK, NEW self \in Ops, NEW t \in Targets, ChainFits(self, t)
  PROVE  ~Closes(self, t)
<1>1. SUFFICES ASSUME NEW round \in SUBSET {o \in Ops : Active(o)},
                      self \in round, t \in round, \A o \in round \ {self} : to[o] \in round
               PROVE  FALSE
  BY DEF Closes
<1>2. PICK hop : /\ HopsOf(t, MaxChain, hop)
                 /\ hop[MaxChain] = Outside /\ \A n \in 0..(MaxChain - 1) : hop[n] # self
  BY ChainHops
<1>3. /\ MaxChain \in Nat \ {0} /\ Outside \notin round
      /\ hop[0] = t /\ \A n \in 1..MaxChain : hop[n] = SendsOn(hop[n - 1])
  BY <1>1, <1>2, OperatorsAssumption DEF HopsOf
<1> DEFINE Left == {n \in 0..MaxChain : hop[n] \notin round}
<1>4. PICK n \in Left : \A j \in Left : n <= j
  <2>1. Left \in SUBSET Nat /\ Left # {}
    BY <1>2, <1>3
  <2> HIDE DEF Left
  <2>. QED
    BY <2>1, LeastOf
<1>5. n \in 1..MaxChain /\ n - 1 \in 0..(MaxChain - 1) /\ hop[n] \notin round
  BY <1>1, <1>3, <1>4
<1>6. hop[n - 1] \in round
  BY <1>3, <1>4, <1>5
<1>7. hop[n] = to[hop[n - 1]]
  <2>1. hop[n] = SendsOn(hop[n - 1])
    BY <1>3, <1>5
  <2>2. hop[n - 1] # Outside /\ Exists(hop[n - 1])
    BY <1>1, <1>3, <1>6 DEF Exists, Active
  <2>. QED
    BY <2>1, <2>2 DEF SendsOn
<1>. QED
  BY <1>1, <1>2, <1>5, <1>6, <1>7

\* At the start every operator sends outside.
LEMMA CircleStart == OperatorsInit => CircleInv
<1>. SUFFICES ASSUME OperatorsInit PROVE CircleInv
  OBVIOUS
<1>1. /\ \A c \in Callers : call[c] = Idle
      /\ \A s \in Senders : to[s] = Outside
  BY DEF OperatorsInit
<1>2. Outside \notin Ops /\ \A s \in Ops : s \in Senders
  BY OperatorsAssumption DEF Senders
<1>3. NamedExist
  BY <1>1, OperatorsAssumption DEF NamedExist, Free, Idle, Senders
<1>4. MovesFit
  BY <1>1, IdleIs DEF MovesFit
<1>5. LeadsOut
  <2>1. SUFFICES ASSUME NEW round \in (SUBSET {o \in Ops : Active(o)}) \ {{}}
                 PROVE  \E o \in round : to[o] \notin round
    BY DEF LeadsOut
  <2>2. PICK o : o \in round
    BY <2>1
  <2>3. o \in Ops
    BY <2>1, <2>2
  <2>. QED
    BY <1>1, <1>2, <2>1, <2>2, <2>3
<1>. QED
  BY <1>3, <1>4, <1>5 DEF CircleInv, NoCircle

\* Operators are not moved, and those that are gone stay gone.
RowsShrink ==
  /\ \A o \in Ops : to'[o] = to[o] /\ (Active(o)' => Active(o))
  /\ \A s \in Senders : status'[s] = "none" => status[s] = "none"
  /\ \A s \in Senders : to'[s] = to[s] \/ to'[s] = Outside \/ \E c \in Callers : to'[s] = call[c].to

\* A handler goes on with what it was asked; a move gets to its row only after it was judged.
Onward(c) ==
  \/ call'[c] \in {call[c], Idle}
  \/ /\ call'[c].kind = call[c].kind /\ call'[c].it = call[c].it /\ call'[c].to = call[c].to
     /\ call[c].kind = "move" /\ call'[c].at = "checked" => MayAdd(call[c])
  \/ call'[c].at = "waiting" /\ {call'[c].it, call'[c].to} \cap Free(Ops) = {}

\* A circle that cannot be closed now cannot be closed when there are fewer operators.
LEMMA ClosesFewer ==
  ASSUME RowsShrink, NEW s \in Ops, NEW t \in Targets, Closes(s, t)'
  PROVE  Closes(s, t)
<1>1. PICK round \in SUBSET {o \in Ops : Active(o)'} :
        s \in round /\ t \in round /\ \A o \in round \ {s} : to'[o] \in round
  BY DEF Closes
<1>2. round \in SUBSET {o \in Ops : Active(o)} /\ \A o \in round \ {s} : to[o] \in round
  BY <1>1 DEF RowsShrink
<1>. QED
  BY <1>1, <1>2 DEF Closes

\* Steps that activate and move no operator.
LEMMA ShrinkStep ==
  ASSUME OpInv, CircleInv, RowsShrink, UNCHANGED crossed, \A c \in Callers : Onward(c)
  PROVE  CircleInv'
<1>1. OperatorsTypeOK /\ CallsTyped
  BY TypeParts DEF OpInv
<1>2. /\ Free(Ops)' \subseteq Free(Ops) /\ Outside \notin Free(Ops) /\ None \notin Free(Ops)
  BY OperatorsAssumption DEF RowsShrink, Free, Senders
<1>3. NamedExist'
  <2>1. \A s \in Senders : to'[s] \notin Free(Ops)
    BY <1>2 DEF RowsShrink, CircleInv, NamedExist
  <2>2. \A c \in Callers : {call'[c].it, call'[c].to} \cap Free(Ops) = {}
    BY <1>2 DEF CircleInv, NamedExist, Onward, Idle
  <2>. QED
    BY <1>2, <2>1, <2>2 DEF NamedExist
<1>4. MovesFit'
  <2>1. SUFFICES ASSUME ~crossed, NEW c \in Callers,
                        call'[c].kind = "move", call'[c].at = "checked", call'[c].it \in Ops
                 PROVE  (~Closes(call[c].it, call[c].to))'
    BY DEF MovesFit
  <2>2. /\ call'[c].it = call[c].it /\ call'[c].to = call[c].to /\ call[c].kind = "move"
        /\ call[c].at = "checked" \/ MayAdd(call[c])
    BY <2>1, IdleIs DEF Onward
  <2>3. call[c].it \in Ops /\ call[c].to \in Targets
    BY <1>1, <2>1, <2>2 DEF CallsTyped, CallTyped, CallState
  <2>4. ~Closes(call[c].it, call[c].to)
    <3>1. CASE call[c].at = "checked"
      BY <2>1, <2>2, <2>3, <3>1 DEF CircleInv, MovesFit
    <3>2. CASE MayAdd(call[c])
      BY <1>1, <2>3, <3>2, ChainCloses DEF MayAdd
    <3>. QED
      BY <2>2, <3>1, <3>2
  <2>5. PICK s \in Ops, t \in Targets : s = call[c].it /\ t = call[c].to
    BY <2>3
  <2>6. ~Closes(s, t)'
    BY <2>4, <2>5, ClosesFewer
  <2>. QED
    BY <2>2, <2>5, <2>6 DEF Closes
<1>5. NoCircle'
  BY DEF CircleInv, NoCircle, LeadsOut, RowsShrink
<1>. QED
  BY <1>3, <1>4, <1>5 DEF CircleInv

\* Who returns, goes on or has waited for somebody does what it was asked.
LEMMA ReturnOnward == ASSUME OpInv, NEW c \in Callers, Return(c) PROVE \A d \in Callers : Onward(d)
<1>1. CallsTyped
  BY TypeParts DEF OpInv
<1>2. \A d \in Callers : call'[d] \in {call[d], Idle, [call[d] EXCEPT !.at = "held"]}
  BY <1>1 DEF Return, CallsTyped
<1>3. \A d \in Callers : LET r == [call[d] EXCEPT !.at = "held"]
                         IN  r.kind = call[d].kind /\ r.it = call[d].it /\ r.to = call[d].to /\ r.at = "held"
  BY <1>1 DEF CallsTyped, CallTyped, CallState, Holding
<1>. QED
  BY <1>2, <1>3 DEF Onward

\* A handler that goes on to another place keeps its request, and a move was judged before it is written.
LEMMA ProceedsOnward ==
  ASSUME OpInv, NEW c \in Callers, NEW place, call' = [call EXCEPT ![c].at = place],
         call[c].kind = "move" /\ place = "checked" => MayAdd(call[c])
  PROVE  \A d \in Callers : Onward(d)
<1>1. CallsTyped
  BY TypeParts DEF OpInv
<1>2. /\ \A d \in Callers : d # c => call'[d] = call[d]
      /\ call'[c] = [call[c] EXCEPT !.at = place]
  BY <1>1 DEF CallsTyped
<1>3. call'[c].kind = call[c].kind /\ call'[c].it = call[c].it /\ call'[c].to = call[c].to /\ call'[c].at = place
  BY <1>1, <1>2 DEF CallsTyped, CallTyped, CallState
<1>. QED
  BY <1>2, <1>3 DEF Onward

\* Those who wait for a key are woken.
LEMMA OpenEndsOnward ==
  ASSUME OpInv, NEW c \in Callers, NEW ok \in BOOLEAN, OpenEnds(c, ok), call[c].at \in {"opening", "unsealing"}
  PROVE  \A d \in Callers : Onward(d)
<1>1. CallsTyped /\ Locks
  BY TypeParts DEF OpInv
<1>2. \A d \in Callers : call[d].at \in {"opening", "unsealing", "sharing"} => call[d].kind = "issue"
  BY <1>1, IdleIs DEF Locks, PlacesOf
<1>3. \A d \in Callers : \/ call'[d] \in {call[d], Idle}
                         \/ call[d].kind = "issue" /\ call'[d] = [call[d] EXCEPT !.at = "issued"]
                         \/ call[d].kind = "issue" /\ call'[d] = [call[d] EXCEPT !.at = "checked"]
  BY <1>1, <1>2 DEF OpenEnds, CallsTyped, Sharing
<1>4. \A d \in Callers : \A place \in {"issued", "checked"} :
        /\ [call[d] EXCEPT !.at = place].kind = call[d].kind
        /\ [call[d] EXCEPT !.at = place].it = call[d].it
        /\ [call[d] EXCEPT !.at = place].to = call[d].to
  BY <1>1 DEF CallsTyped, CallTyped, CallState
<1>5. \A d \in Callers : \/ call'[d] \in {call[d], Idle}
                         \/ /\ call[d].kind = "issue"
                            /\ call'[d].kind = call[d].kind /\ call'[d].it = call[d].it /\ call'[d].to = call[d].to
  BY <1>3, <1>4
<1>. QED
  BY <1>5 DEF Onward

-----------------------------------------------------------------------------
\* Steps that leave the operators alone or take some away
\* A step that changes no row takes nothing away.
LEMMA SameRows == ASSUME UNCHANGED <<status, to>> PROVE RowsShrink
BY DEF RowsShrink, Active

\* A handler looks, waits, issues or forgets.
LEMMA CircleKept ==
  ASSUME OpInv, CircleInv, NEW c \in Callers,
         \/ GetRead(c) \/ GetWrite(c) \/ Announce(c) \/ TakeIntentMu(c) \/ TakeSlot(c)
         \/ CheckAdd(c) \/ ListIntents(c) \/ CheckIssue(c) \/ FindCA(c) \/ Unsealed(c)
         \/ RecordOperatorCert(c) \/ CheckRemoval(c) \/ Forget(c) \/ OpenFails(c) \/ StoreFails(c)
  PROVE  CircleInv'
<1>1. UNCHANGED <<status, to, crossed>>
  BY DEF GetRead, GetWrite, Announce, TakeIntentMu, TakeSlot, CheckAdd, ListIntents, CheckIssue, FindCA, Unsealed,
         RecordOperatorCert, CheckRemoval, Forget, OpenFails, StoreFails, table
<1>2. \A d \in Callers : Onward(d)
  <2>1. CASE GetRead(c) \/ GetWrite(c) \/ Announce(c) \/ TakeIntentMu(c) \/ TakeSlot(c)
    <3>1. \E place \in {"held", "announced", "inside", "unsealing"} : call' = [call EXCEPT ![c].at = place]
      BY <2>1 DEF GetRead, GetWrite, Announce, TakeIntentMu, TakeSlot, Proceeds
    <3>. QED
      BY <3>1, ProceedsOnward
  <2>2. CASE CheckAdd(c)
    <3>1. Return(c) \/ (MayAdd(call[c]) /\ call' = [call EXCEPT ![c].at = "checked"])
      BY <2>2 DEF CheckAdd, Proceeds
    <3>. QED
      BY <3>1, ProceedsOnward, ReturnOnward
  <2>3. CASE CheckIssue(c) \/ CheckRemoval(c)
    <3>1. call[c].kind # "move" /\ (Return(c) \/ call' = [call EXCEPT ![c].at = "checked"])
      BY <2>3 DEF CheckIssue, CheckRemoval, Proceeds, Removes
    <3>. QED
      BY <3>1, ProceedsOnward, ReturnOnward
  <2>4. CASE ListIntents(c) \/ FindCA(c)
    <3>1. Return(c) \/ \E place \in {"listed", "issued", "sharing", "opening"} : call' = [call EXCEPT ![c].at = place]
      BY <2>4 DEF ListIntents, FindCA, Proceeds
    <3>. QED
      BY <3>1, ProceedsOnward, ReturnOnward
  <2>5. CASE RecordOperatorCert(c) \/ Forget(c) \/ StoreFails(c)
    BY <2>5, ReturnOnward DEF RecordOperatorCert, Forget, StoreFails
  <2>6. CASE Unsealed(c) \/ OpenFails(c)
    <3>1. Return(c) \/ (call[c].at \in {"opening", "unsealing"} /\ \E ok \in BOOLEAN : OpenEnds(c, ok))
      BY <2>6 DEF Unsealed, OpenFails
    <3>. QED
      BY <3>1, OpenEndsOnward, ReturnOnward
  <2>. QED
    BY <2>1, <2>2, <2>3, <2>4, <2>5, <2>6
<1>. QED
  BY <1>1, <1>2, SameRows, ShrinkStep

\* A removal takes an operator away, whoever it was that the dependents check did not count.
LEMMA CircleRemove == ASSUME OpInv, CircleInv, NEW c \in Callers, Remove(c) PROVE CircleInv'
<1>1. UNCHANGED <<to, crossed>>
  BY DEF Remove, table
<1>2. CallsTyped /\ TableTyped
  BY TypeParts DEF OpInv
<1>3. RowsShrink
  <2>1. status' = status \/ \E st \in {"revoked", "deleted"} : status' = [status EXCEPT ![call[c].it] = st]
    BY DEF Remove, table
  <2>. QED
    BY <1>1, <1>2, <2>1 DEF RowsShrink, Active, TableTyped, Senders
<1>4. \A d \in Callers : Onward(d)
  <2>1. Return(c) \/ call' = [call EXCEPT ![c].at = "forgetting"]
    BY DEF Remove, Proceeds
  <2>. QED
    BY <2>1, ReturnOnward, ProceedsOnward
<1>. QED
  BY <1>1, <1>3, <1>4, ShrinkStep

\* An intent is made for an agent: no operator changes.
LEMMA CircleCreateIntent == ASSUME OpInv, CircleInv, NEW c \in Callers, CreateTelemetryIntent(c) PROVE CircleInv'
<1>1. UNCHANGED crossed /\ Return(c)
  BY DEF CreateTelemetryIntent
<1>2. CallsTyped /\ TableTyped
  BY TypeParts DEF OpInv
<1>3. RowsShrink
  <2>1. CASE UNCHANGED table
    BY <2>1, SameRows DEF table
  <2>2. CASE ~UNCHANGED table
    <3>1. PICK i \in Intents : status' = [status EXCEPT ![i] = "active"] /\ to' = [to EXCEPT ![i] = call[c].to]
      BY <2>2 DEF CreateTelemetryIntent, Free
    <3>2. i \notin Ops
      BY OperatorsAssumption
    <3>. QED
      BY <1>2, <3>1, <3>2 DEF RowsShrink, Active, TableTyped, Senders
  <2>. QED
    BY <2>1, <2>2
<1>. QED
  BY <1>1, <1>3, ReturnOnward, ShrinkStep

\* Intents and agents end, and the server starts again.
LEMMA CircleOther ==
  ASSUME OpInv, CircleInv,
         \/ \E i \in Intents : RevokeTelemetryIntent(i) \/ DeleteTelemetryIntent(i)
         \/ \E a \in Agents : RevokeAgent(a)
         \/ Restart
  PROVE  CircleInv'
<1>1. UNCHANGED crossed
  BY DEF RevokeTelemetryIntent, DeleteTelemetryIntent, RevokeAgent, Restart
<1>2. \A d \in Callers : Onward(d)
  BY DEF RevokeTelemetryIntent, DeleteTelemetryIntent, RevokeAgent, Restart, Onward
<1>3. RowsShrink
  <2>1. CASE \E i \in Intents : RevokeTelemetryIntent(i) \/ DeleteTelemetryIntent(i)
    <3>1. PICK i \in Intents : RevokeTelemetryIntent(i) \/ DeleteTelemetryIntent(i)
      BY <2>1
    <3>2. PICK st \in {"revoked", "deleted"} : status' = [status EXCEPT ![i] = st]
      BY <3>1 DEF RevokeTelemetryIntent, DeleteTelemetryIntent
    <3>3. to' = to \/ to' = [to EXCEPT ![i] = Outside]
      BY <3>1 DEF RevokeTelemetryIntent, DeleteTelemetryIntent
    <3>4. /\ i \notin Ops
          /\ DOMAIN status = Senders /\ DOMAIN to = Senders
      BY OperatorsAssumption, TypeParts DEF OpInv, TableTyped
    <3>5. \A s \in Senders : status'[s] \in {status[s], "revoked", "deleted"} /\ to'[s] \in {to[s], Outside}
      BY <3>2, <3>3, <3>4
    <3>6. \A o \in Ops : status'[o] = status[o] /\ to'[o] = to[o]
      BY <3>2, <3>3, <3>4 DEF Senders
    <3>. QED
      BY <3>5, <3>6 DEF RowsShrink, Active
  <2>2. CASE Restart \/ \E a \in Agents : RevokeAgent(a)
    BY <2>2, SameRows DEF RevokeAgent, Restart, table
  <2>. QED
    BY <2>1, <2>2
<1>. QED
  BY <1>1, <1>2, <1>3, ShrinkStep

\* What a request names is there already.
LEMMA CircleAsk == ASSUME OpInv, CircleInv, NEW c \in Callers, Ask(c) PROVE CircleInv'
<1>1. PICK r \in Requests :
        /\ {r.it, r.to} \cap Free(Senders) = {}
        /\ call' = [call EXCEPT ![c] = [kind |-> r.kind, at |-> "waiting", it |-> r.it, to |-> r.to, force |-> r.force]]
  BY DEF Ask
<1>2. UNCHANGED <<status, to, crossed>> /\ CallsTyped
  BY TypeParts DEF OpInv, Ask, table
<1>3. /\ call'[c].at = "waiting" /\ call'[c].it = r.it /\ call'[c].to = r.to
      /\ \A d \in Callers : d # c => call'[d] = call[d]
  BY <1>1, <1>2 DEF CallsTyped
<1>4. \A d \in Callers : Onward(d)
  BY <1>1, <1>3 DEF Onward, Free, Senders
<1>. QED
  BY <1>2, <1>4, SameRows, ShrinkStep

-----------------------------------------------------------------------------
\* Steps that add or move an operator

\* The row that CreateOperator writes.
Activates(o, t) == status' = [status EXCEPT ![o] = "active"] /\ to' = [to EXCEPT ![o] = t]

\* Nobody sends to an operator before it is there, so it closes no circle.
LEMMA CircleAdded ==
  ASSUME OpInv, CircleInv, NEW c \in Callers, NEW o \in Free(Ops), UNCHANGED crossed,
         Activates(o, call[c].to), Mints(c, o) \/ Return(c)
  PROVE  CircleInv'
<1>1. CallsTyped /\ TableTyped /\ NamedExist /\ MovesFit /\ NoCircle
  BY TypeParts DEF OpInv, CircleInv
<1>2. /\ o \in Ops /\ ~Active(o) /\ Outside \notin Ops /\ None \notin Ops
      /\ call[c].to # o /\ \A s \in Senders : to[s] # o
      /\ \A d \in Callers : call[d].it # o /\ call[d].to # o
  BY <1>1, OperatorsAssumption DEF NamedExist, Free, Active, Senders
<1>3. /\ to'[o] = call[c].to
      /\ \A p \in Ops : p # o => to'[p] = to[p] /\ (Active(p)' <=> Active(p))
      /\ \A s \in Senders : s # o => to'[s] = to[s]
      /\ Free(Ops)' = Free(Ops) \ {o}
  BY <1>1, <1>2 DEF TableTyped, Senders, Active, Free, Activates
<1>4. \A d \in Callers :
        \/ call'[d] \in {call[d], Idle}
        \/ call'[d].at = "held" /\ call'[d].it \in {call[d].it, o} /\ call'[d].to \in {call[d].to, Outside}
  <2>1. CASE Mints(c, o)
    BY <1>1, <2>1 DEF Mints, CallsTyped
  <2>2. CASE Return(c)
    <3>1. \A d \in Callers : call'[d] \in {call[d], Idle, [call[d] EXCEPT !.at = "held"]}
      BY <1>1, <2>2 DEF Return, CallsTyped
    <3>2. \A d \in Callers : /\ [call[d] EXCEPT !.at = "held"].it = call[d].it
                             /\ [call[d] EXCEPT !.at = "held"].to = call[d].to
                             /\ [call[d] EXCEPT !.at = "held"].at = "held"
      BY <1>1 DEF CallsTyped, CallTyped, CallState
    <3>. QED
      BY <3>1, <3>2
  <2>. QED
    BY <2>1, <2>2
<1>5. NamedExist'
  <2>1. \A d \in Callers : {call'[d].it, call'[d].to} \cap (Free(Ops) \ {o}) = {}
    BY <1>1, <1>2, <1>4 DEF NamedExist, Idle, Free
  <2>2. \A s \in Senders : to'[s] \notin Free(Ops) \ {o}
    BY <1>1, <1>3 DEF NamedExist
  <2>. QED
    BY <1>3, <2>1, <2>2 DEF NamedExist
\* A circle after the step is one before, without the new operator.
<1>6. ASSUME NEW round \in SUBSET {p \in Ops : Active(p)'}, NEW s \in Ops \ {o},
             \A p \in round \ {s} : to'[p] \in round
      PROVE  /\ round \ {o} \in SUBSET {p \in Ops : Active(p)}
             /\ \A p \in (round \ {o}) \ {s} : to[p] \in round \ {o}
  BY <1>2, <1>3, <1>6 DEF Senders
<1>7. MovesFit'
  <2>1. SUFFICES ASSUME ~crossed, NEW d \in Callers,
                        call'[d].kind = "move", call'[d].at = "checked", call'[d].it \in Ops
                 PROVE  (~Closes(call[d].it, call[d].to))'
    BY DEF MovesFit
  <2>2. call'[d] = call[d]
    BY <1>4, <2>1, IdleIs
  <2>3. /\ ~Closes(call[d].it, call[d].to)
        /\ call[d].it \in Ops \ {o} /\ call[d].to # o
    BY <1>1, <1>2, <2>1, <2>2 DEF MovesFit
  <2>4. ASSUME NEW round \in SUBSET {p \in Ops : Active(p)'}, call[d].it \in round, call[d].to \in round,
               \A p \in round \ {call[d].it} : to'[p] \in round
        PROVE  FALSE
    <3>1. PICK s \in Ops \ {o} : s = call[d].it
      BY <2>3
    <3>2. /\ round \ {o} \in SUBSET {p \in Ops : Active(p)}
          /\ \A p \in (round \ {o}) \ {s} : to[p] \in round \ {o}
      <4>1. \A p \in round \ {s} : to'[p] \in round
        BY <2>4, <3>1
      <4>. QED
        BY <1>6, <4>1
    <3>3. s \in round \ {o} /\ call[d].to \in round \ {o} /\ ~Closes(s, call[d].to)
      BY <2>3, <2>4, <3>1
    <3>. QED
      BY <3>2, <3>3 DEF Closes
  <2>. QED
    BY <2>2, <2>4 DEF Closes
<1>8. NoCircle'
  <2>1. SUFFICES ASSUME ~crossed, NEW round \in (SUBSET {p \in Ops : Active(p)'}) \ {{}},
                        \A p \in round : to'[p] \in round
                 PROVE  FALSE
    BY DEF NoCircle, LeadsOut
  <2>2. LeadsOut
    BY <1>1, <2>1 DEF NoCircle
  <2>3. /\ round \ {o} \in SUBSET {p \in Ops : Active(p)}
        /\ \A p \in round \ {o} : to[p] \in round \ {o}
    BY <1>2, <1>3, <2>1 DEF Senders
  <2>4. round \ {o} # {}
    BY <1>2, <1>3, <2>1
  <2>. QED
    BY <2>2, <2>3, <2>4 DEF LeadsOut
<1>. QED
  BY <1>5, <1>7, <1>8 DEF CircleInv
\* CreateOperator, whether it has room for another operator or not.
LEMMA CircleCreate == ASSUME OpInv, CircleInv, NEW c \in Callers, CreateOperator(c) PROVE CircleInv'
<1>1. UNCHANGED crossed
  BY DEF CreateOperator
<1>2. CASE UNCHANGED table /\ Return(c)
  BY <1>1, <1>2, SameRows, ReturnOnward, ShrinkStep DEF table
<1>3. ASSUME NEW o \in Free(Ops), Activates(o, call[c].to), Mints(c, o) \/ Return(c) PROVE CircleInv'
  BY <1>1, <1>3, CircleAdded
<1>. QED
  BY <1>2, <1>3 DEF CreateOperator, Activates

\* What was found to fit closes no circle, unless another move came first.
LEMMA CircleMove == ASSUME OpInv, CircleInv, NEW c \in Callers, Move(c) PROVE CircleInv'
<1>1. CallsTyped /\ TableTyped /\ NamedExist /\ MovesFit /\ NoCircle
  BY TypeParts DEF OpInv, CircleInv
<1>2. PICK s \in Senders, t \in Targets : s = call[c].it /\ t = call[c].to
  BY <1>1 DEF Move, CallsTyped, CallTyped, CallState, Removes
<1>3. Return(c) /\ status' = status /\ call[c].kind = "move" /\ call[c].at = "checked"
  BY DEF Move
<1>4. \A d \in Callers : Onward(d)
  BY <1>3, ReturnOnward
<1>5. CASE ~Active(s)
  BY <1>2, <1>4, <1>5, SameRows, ShrinkStep DEF Move
<1>6. CASE Active(s) /\ s \notin Ops
  <2>1. to' = [to EXCEPT ![s] = t] /\ UNCHANGED crossed
    BY <1>1, <1>2, <1>6 DEF Move, TableTyped
  <2>2. RowsShrink
    BY <1>1, <1>2, <1>3, <1>6, <2>1 DEF RowsShrink, Active, TableTyped, Senders
  <2>. QED
    BY <1>4, <2>1, <2>2, ShrinkStep
<1>7. CASE Active(s) /\ s \in Ops
  <2>1. to' = [to EXCEPT ![s] = t] /\ crossed' = (crossed \/ Judged # {c})
    BY <1>2, <1>7 DEF Move
  <2>2. /\ to'[s] = t /\ \A p \in Senders : p # s => to'[p] = to[p]
        /\ \A p \in Senders : Active(p)' <=> Active(p)
        /\ Free(Ops)' = Free(Ops)
    BY <1>1, <1>3, <2>1 DEF TableTyped, Active, Free
  <2>3. NamedExist'
    <3>1. \A p \in Senders : to'[p] \notin Free(Ops)
      BY <1>1, <1>2, <2>2 DEF NamedExist
    <3>2. \A d \in Callers : {call'[d].it, call'[d].to} \cap Free(Ops) = {}
      BY <1>1, <1>4, OperatorsAssumption DEF NamedExist, Onward, Idle, Free, Senders
    <3>. QED
      BY <2>2, <3>1, <3>2 DEF NamedExist
  <2>4. CASE crossed'
    BY <2>3, <2>4 DEF CircleInv, MovesFit, NoCircle
  <2>5. CASE ~crossed'
    <3>1. ~crossed /\ Judged = {c} /\ ~Closes(s, t)
      BY <1>1, <1>2, <1>3, <1>7, <2>1, <2>5 DEF MovesFit
    <3>2. MovesFit'
      <4>1. \A d \in Callers : call'[d] = Idle \/ call'[d].at = "held" \/ (d # c /\ call'[d] = call[d])
        BY <1>1, <1>3 DEF Return, CallsTyped, CallTyped, CallState
      <4>. QED
        BY <3>1, <4>1, IdleIs DEF MovesFit, Judged
    <3>3. NoCircle'
      <4>1. SUFFICES ASSUME NEW round \in (SUBSET {p \in Ops : Active(p)'}) \ {{}},
                            \A p \in round : to'[p] \in round
                     PROVE  FALSE
        BY DEF NoCircle, LeadsOut
      <4>2. round \in (SUBSET {p \in Ops : Active(p)}) \ {{}} /\ \A p \in round \ {s} : to[p] \in round
        BY <2>2, <4>1 DEF Senders
      <4>3. CASE s \in round
        BY <2>2, <3>1, <4>1, <4>2, <4>3 DEF Closes
      <4>4. CASE s \notin round
        BY <1>1, <3>1, <4>2, <4>4 DEF NoCircle, LeadsOut
      <4>. QED
        BY <4>3, <4>4
    <3>. QED
      BY <2>3, <3>2, <3>3 DEF CircleInv
  <2>. QED
    BY <2>4, <2>5
<1>. QED
  BY <1>5, <1>6, <1>7

\* CircleInv is inductive beside OpInv.
LEMMA CircleStep == OpInv /\ CircleInv /\ [OperatorsNext]_opVars => CircleInv'
<1>. SUFFICES ASSUME OpInv, CircleInv, [OperatorsNext]_opVars PROVE CircleInv'
  OBVIOUS
<1>1. CASE UNCHANGED opVars
  <2>1. UNCHANGED <<status, to, crossed, call>>
    BY <1>1 DEF opVars, table
  <2>2. \A d \in Callers : Onward(d)
    BY <2>1 DEF Onward
  <2>. QED
    BY <2>1, <2>2, SameRows, ShrinkStep
<1>2. CASE \E c \in Callers : Ask(c) \/ CallStep(c) \/ Takes(c) \/ OpenFails(c) \/ StoreFails(c)
  <2>1. PICK c \in Callers : Ask(c) \/ CallStep(c) \/ Takes(c) \/ OpenFails(c) \/ StoreFails(c)
    BY <1>2
  <2>. QED
    BY <2>1, CircleAsk, CircleKept, CircleCreate, CircleMove, CircleCreateIntent, CircleRemove DEF CallStep, Takes
<1>3. CASE \/ \E i \in Intents : RevokeTelemetryIntent(i) \/ DeleteTelemetryIntent(i)
           \/ \E a \in Agents : RevokeAgent(a)
           \/ Restart
  BY <1>3, CircleOther
<1>. QED
  BY <1>1, <1>2, <1>3 DEF OperatorsNext

\* Operators never send in a circle unless two were moved at the same time (checkOperatorChain).
THEOREM NoCircleCorrect == OperatorsSpec => []NoCircle
<1>1. CircleInv => NoCircle
  BY DEF CircleInv
<1>. QED
  BY <1>1, CircleStart, CircleStep, OperatorsAlwaysInv, PTL DEF OperatorsSpec

-----------------------------------------------------------------------------
\* Nobody waits in a circle

\* Who is noted as opening a key is at it, and who shares an open has somebody at it.
Opens ==
  /\ \A o \in Ops : inflight[o] # None =>
       inflight[o] \in Callers /\ call[inflight[o]].at \in {"opening", "unsealing"} /\ call[inflight[o]].it = o
  /\ \A c \in Callers : call[c].at = "sharing" => inflight[call[c].it] # None

\* A step beside the opens.
LEMMA OpensKept ==
  ASSUME OpInv, Opens, UNCHANGED inflight,
         \A d \in Callers : \/ call'[d] = call[d]
                            \/ call[d].at \notin {"opening", "unsealing"} /\ call'[d].at # "sharing"
  PROVE  Opens'
BY DEF Opens

\* What is asked for, looked up, written or removed is beside them.
LEMMA OpensReturn ==
  ASSUME OpInv, Opens, NEW c \in Callers, call[c].at \in Holding \ {"opening", "unsealing"}, Return(c), UNCHANGED inflight
  PROVE  Opens'
<1>1. /\ call'[c] = Idle
      /\ \A d \in Callers : call'[d] = call[d] \/ call'[d] = Idle
                              \/ (call[d].at = "waiting" /\ call'[d].at = "held")
      /\ \A d \in Callers : call[d].at # "waiting" /\ d # c => call'[d] = call[d]
  BY ReturnKeeps
<1>. QED
  BY <1>1, IdleIs, OpensKept

LEMMA OpensPlace ==
  ASSUME OpInv, Opens, NEW c \in Callers, call[c].at \notin {"opening", "unsealing"}, NEW place, place # "sharing",
         call' = [call EXCEPT ![c].at = place], UNCHANGED inflight
  PROVE  Opens'
<1>1. call'[c].at = place /\ \A d \in Callers : d # c => call'[d] = call[d]
  BY TypeParts DEF OpInv, CallsTyped, CallTyped, CallState
<1>. QED
  BY <1>1, OpensKept

\* A key is opened by one caller, or its open is shared.
LEMMA OpensFind == ASSUME OpInv, Opens, NEW c \in Callers, FindCA(c) PROVE Opens'
<1>1. /\ TableTyped /\ CallsTyped /\ c # None
      /\ call[c].at = "checked" /\ call[c].kind = "issue" /\ call[c].it \in Ops
  BY TypeParts, OperatorsAssumption DEF OpInv, FindCA, CallsTyped, CallTyped
<1>2. ASSUME NEW place, Proceeds(c, place)
      PROVE  /\ call'[c].at = place /\ call'[c].it = call[c].it
             /\ \A d \in Callers : d # c => call'[d] = call[d]
  BY <1>1, <1>2 DEF Proceeds, CallsTyped, CallTyped, CallState
<1>3. CASE Proceeds(c, "issued") /\ UNCHANGED inflight
  BY <1>1, <1>2, <1>3, OpensKept
<1>4. CASE Proceeds(c, "sharing") /\ UNCHANGED inflight /\ inflight[call[c].it] # None
  BY <1>1, <1>2, <1>4 DEF Opens
<1>5. CASE /\ Proceeds(c, "opening") /\ inflight' = [inflight EXCEPT ![call[c].it] = c]
           /\ inflight[call[c].it] = None
  <2>1. /\ inflight'[call[c].it] = c
        /\ \A o \in Ops : o # call[c].it => inflight'[o] = inflight[o]
    BY <1>1, <1>5 DEF TableTyped
  <2>2. \A o \in Ops : inflight'[o] # None =>
          inflight'[o] \in Callers /\ call'[inflight'[o]].at \in {"opening", "unsealing"} /\ call'[inflight'[o]].it = o
    BY <1>1, <1>2, <1>5, <2>1 DEF Opens
  <2>3. \A d \in Callers : call'[d].at = "sharing" => call[d].at = "sharing" /\ call'[d].it = call[d].it
    BY <1>2, <1>5
  <2>4. \A d \in Callers : call'[d].at = "sharing" => inflight'[call'[d].it] # None
    <3>1. inflight' = [o \in Ops |-> IF o = call[c].it THEN c ELSE inflight[o]]
      BY <1>1, <1>5 DEF TableTyped
    <3>2. \A d \in Callers : call[d].at = "sharing" => call[d].it \in Ops
      BY <1>1, IdleIs DEF OpInv, Locks, PlacesOf, CallsTyped, CallTyped, Reads, Adds, Removes
    <3>. QED
      BY <1>1, <2>3, <3>1, <3>2 DEF Opens
  <2>. QED
    BY <2>2, <2>4 DEF Opens
<1>. QED
  BY <1>1, <1>3, <1>4, <1>5 DEF FindCA

\* A slot is free.
LEMMA OpensSlot == ASSUME OpInv, Opens, NEW c \in Callers, TakeSlot(c) PROVE Opens'
<1>1. /\ call[c].at = "opening" /\ call'[c].at = "unsealing" /\ call'[c].it = call[c].it
      /\ \A d \in Callers : d # c => call'[d] = call[d]
      /\ inflight' = inflight
  BY TypeParts DEF OpInv, TakeSlot, Proceeds, cache, CallsTyped, CallTyped, CallState
<1>. QED
  BY <1>1 DEF Opens

\* An open ends: nobody shares it any more.
LEMMA OpensEnd ==
  ASSUME OpInv, Opens, NEW c \in Callers, NEW ok \in BOOLEAN, call[c].at \in {"opening", "unsealing"}, OpenEnds(c, ok)
  PROVE  Opens'
<1> DEFINE o == call[c].it
<1>1. TableTyped /\ CallsTyped /\ c # None
  BY TypeParts, OperatorsAssumption DEF OpInv
<1>2. o \in Ops
  BY <1>1, IdleIs DEF OpInv, Locks, PlacesOf, CallsTyped, CallTyped, Reads, Adds, Removes
<1>3. \A d \in Callers : d \in Sharing(o) <=> call[d].at = "sharing" /\ call[d].it = o
  BY DEF Sharing
<1>4. /\ \A d \in Callers : d # c /\ d \notin Sharing(o) => call'[d] = call[d]
      /\ \A d \in Callers : d = c \/ d \in Sharing(o) => call'[d].at # "sharing"
  BY <1>1, <1>3, IdleIs DEF OpenEnds, CallsTyped, CallTyped, CallState
<1>5. /\ inflight'[o] = IF inflight[o] = c THEN None ELSE inflight[o]
      /\ \A p \in Ops : p # o => inflight'[p] = inflight[p]
  BY <1>1, <1>2 DEF OpenEnds, TableTyped, cache
<1>6. \A p \in Ops : inflight'[p] # None =>
        inflight'[p] \in Callers /\ call'[inflight'[p]].at \in {"opening", "unsealing"} /\ call'[inflight'[p]].it = p
  <2> SUFFICES ASSUME NEW p \in Ops, inflight'[p] # None
               PROVE  inflight'[p] \in Callers /\ call'[inflight'[p]].at \in {"opening", "unsealing"} /\ call'[inflight'[p]].it = p
    OBVIOUS
  <2>1. /\ inflight'[p] = inflight[p] /\ inflight[p] \in Callers /\ inflight[p] # c
        /\ call[inflight[p]].at \in {"opening", "unsealing"} /\ call[inflight[p]].it = p
    BY <1>1, <1>5 DEF Opens
  <2>. QED
    BY <1>3, <1>4, <2>1
<1>7. \A d \in Callers : call'[d].at = "sharing" => inflight'[call'[d].it] # None
  <2> SUFFICES ASSUME NEW d \in Callers, call'[d].at = "sharing" PROVE inflight'[call'[d].it] # None
    OBVIOUS
  <2>1. call'[d] = call[d] /\ call[d].it # o
    BY <1>3, <1>4
  <2>2. call[d].it \in Ops
    BY <1>1, <2>1, IdleIs DEF OpInv, Locks, PlacesOf, CallsTyped, CallTyped, Reads, Adds, Removes
  <2>. QED
    BY <1>5, <2>1, <2>2 DEF Opens
<1>. QED
  BY <1>6, <1>7 DEF Opens

\* An open is only forgotten while nobody reads, so nobody shares one.
LEMMA OpensForget == ASSUME OpInv, Opens, NEW c \in Callers, Forget(c) PROVE Opens'
<1>1. /\ call[c].at = "forgetting" /\ call[c].at \in Holding /\ Return(c)
      /\ inflight' = [inflight EXCEPT ![call[c].it] = None] /\ TableTyped
  BY TypeParts DEF OpInv, Forget, Forgets, Holding
<1>2. \A d \in Callers : call[d].at \notin {"opening", "unsealing", "sharing"}
  <2>1. readers = {}
    BY <1>1, IdleIs DEF OpInv, Locks, PlacesOf
  <2>. QED
    BY <2>1, IdleIs DEF OpInv, Locks, PlacesOf, Reads, Adds, Removes
<1>3. \A d \in Callers : call'[d].at # "sharing"
  BY <1>1, <1>2, ReturnKeeps, IdleIs
<1>4. \A o \in Ops : inflight'[o] = None
  BY <1>1, <1>2 DEF Opens, TableTyped
<1>. QED
  BY <1>3, <1>4 DEF Opens

LEMMA OpensStep == OpInv /\ Opens /\ [OperatorsNext]_opVars => Opens'
<1>. SUFFICES ASSUME OpInv, Opens, [OperatorsNext]_opVars PROVE Opens'
  OBVIOUS
<1>1. CASE UNCHANGED opVars
  BY <1>1, OpensKept DEF opVars, cache
<1>2. ASSUME NEW c \in Callers, Ask(c) PROVE Opens'
  <2>1. /\ \A d \in Callers : d # c => call'[d] = call[d]
        /\ call[c].at = "idle" /\ call'[c].at = "waiting" /\ inflight' = inflight
    BY <1>2, TypeParts, IdleIs DEF OpInv, Ask, CallsTyped, cache
  <2>. QED
    BY <2>1, OpensKept
<1>3. ASSUME NEW c \in Callers, GetRead(c) \/ Announce(c) \/ GetWrite(c) \/ TakeIntentMu(c) PROVE Opens'
  BY <1>3, OpensPlace DEF GetRead, Announce, GetWrite, TakeIntentMu, cache
<1>4. ASSUME NEW c \in Callers, CheckAdd(c) \/ ListIntents(c) \/ CheckIssue(c) \/ CheckRemoval(c) PROVE Opens'
  <2>1. call[c].at \in {"held", "inside"} /\ UNCHANGED inflight /\ (Return(c) \/ \E place \in {"checked", "listed"} : Proceeds(c, place))
    BY <1>4 DEF CheckAdd, ListIntents, CheckIssue, CheckRemoval, cache
  <2>. QED
    BY <2>1, OpensReturn, OpensPlace DEF Holding, Proceeds
<1>5. ASSUME NEW c \in Callers, CreateOperator(c) PROVE Opens'
  <2>1. CASE Return(c)
    BY <1>5, <2>1, OpensReturn DEF CreateOperator, Holding, cache
  <2>2. CASE \E o \in Free(Ops) : Mints(c, o)
    <3>1. /\ \A d \in Callers : d # c => call'[d] = call[d]
          /\ call[c].at = "checked" /\ call'[c].at = "held" /\ inflight' = inflight
      BY <1>5, <2>2, TypeParts DEF OpInv, CreateOperator, Mints, CallsTyped, cache
    <3>. QED
      BY <3>1, OpensKept
  <2>. QED
    BY <1>5, <2>1, <2>2 DEF CreateOperator
<1>6. ASSUME NEW c \in Callers, Move(c) \/ CreateTelemetryIntent(c) \/ RecordOperatorCert(c) \/ StoreFails(c) PROVE Opens'
  <2>1. call[c].at \in {"held", "checked", "inside", "listed", "issued"} /\ UNCHANGED inflight /\ Return(c)
    BY <1>6 DEF Move, CreateTelemetryIntent, RecordOperatorCert, StoreFails, cache
  <2>. QED
    BY <2>1, OpensReturn DEF Holding
<1>7. ASSUME NEW c \in Callers, Remove(c) PROVE Opens'
  <2>1. call[c].at = "checked" /\ UNCHANGED inflight /\ (Return(c) \/ Proceeds(c, "forgetting"))
    BY <1>7 DEF Remove, cache
  <2>. QED
    BY <2>1, OpensReturn, OpensPlace DEF Holding, Proceeds
<1>8. ASSUME NEW c \in Callers, Unsealed(c) \/ OpenFails(c) PROVE Opens'
  <2>1. CASE call[c].at \in {"opening", "unsealing"} /\ \E ok \in BOOLEAN : OpenEnds(c, ok)
    BY <2>1, OpensEnd
  <2>2. CASE call[c].at = "sharing" /\ Return(c) /\ UNCHANGED cache
    BY <2>2, OpensReturn DEF Holding, cache
  <2>. QED
    BY <1>8, <2>1, <2>2 DEF Unsealed, OpenFails
<1>9. CASE \/ \E i \in Intents : RevokeTelemetryIntent(i) \/ DeleteTelemetryIntent(i)
           \/ \E a \in Agents : RevokeAgent(a)
  BY <1>9, OpensKept DEF RevokeTelemetryIntent, DeleteTelemetryIntent, RevokeAgent, cache
<1>10. CASE Restart
  BY <1>10, IdleIs DEF Restart, Opens
<1>. QED
  BY <1>1, <1>2, <1>3, <1>4, <1>5, <1>6, <1>7, <1>8, <1>9, <1>10, OpensFind, OpensSlot, OpensForget
     DEF OperatorsNext, CallStep, Takes

\* Where nobody can go on, everybody would wait for somebody who does not wait: a sharer for who opens,
\* who opens for who has the slot, IntentMu is held by who has DepMu already, and DepMu is held or
\* asked for by one of these.
LEMMA NotAllBlocked == OpInv /\ Opens => SomeoneGoesOn
<1>. SUFFICES ASSUME OpInv, Opens, NEW c \in Callers, call[c].at # "idle",
                     \A d \in Callers : call[d].at # "idle" => Blocked(d)
              PROVE  FALSE
  BY DEF SomeoneGoesOn
<1>0. CallsTyped /\ TableTyped /\ Locks
  BY TypeParts DEF OpInv
<1>1. \A d \in Callers : call[d].at \notin {"unsealing", "inside", "listed", "held", "issued", "forgetting"}
  BY DEF Blocked
<1>2. \A d \in Callers : call[d].at # "opening"
  <2>1. ASSUME NEW d \in Callers, call[d].at = "opening" PROVE FALSE
    <3>1. ~(Cardinality(Unsealing) < Slots)
      BY <2>1 DEF Blocked
    <3>2. Unsealing = {}
      BY <1>1 DEF Unsealing
    <3>. QED
      BY <3>1, <3>2, FS_EmptySet, OperatorsAssumption
  <2>. QED
    BY <2>1
<1>3. \A d \in Callers : call[d].at # "sharing"
  <2>1. ASSUME NEW d \in Callers, call[d].at = "sharing" PROVE FALSE
    <3>1. call[d].it \in Ops
      BY <1>0, <2>1, IdleIs DEF Locks, PlacesOf, CallsTyped, CallTyped, Reads, Adds, Removes
    <3>. QED
      BY <1>1, <1>2, <2>1, <3>1 DEF Opens
  <2>. QED
    BY <2>1
<1>4. intentMu = None
  BY <1>0, <1>1 DEF CallsTyped, Locks
<1>5. \A d \in Callers : call[d].at # "checked"
  BY <1>4 DEF Blocked, IntentMuFree
<1>6. readers = {}
  <2>1. ASSUME NEW d \in readers PROVE FALSE
    <3>1. d \in Callers /\ call[d].kind \in Reads /\ call[d].at # "waiting" /\ call[d] # Idle
      BY <1>0, <2>1, IdleIs DEF CallsTyped, Locks, Reads, Adds
    <3>2. call[d].at \in PlacesOf(call[d].kind)
      BY <1>0, <3>1 DEF Locks
    <3>. QED
      BY <1>1, <1>2, <1>3, <1>5, <3>1, <3>2 DEF PlacesOf, Reads, Adds, Removes
  <2>. QED
    BY <2>1
<1>7. \A d \in Callers : call[d].at # "announced"
  BY <1>6 DEF Blocked, NobodyReads
<1>8. writer = None
  <2>1. ASSUME writer \in Callers PROVE FALSE
    <3>1. call[writer].kind \in Removes /\ call[writer].at # "waiting" /\ call[writer] # Idle
      BY <1>0, <2>1, IdleIs DEF Locks, Removes
    <3>2. call[writer].at \in PlacesOf(call[writer].kind)
      BY <1>0, <2>1, <3>1 DEF Locks
    <3>. QED
      BY <1>1, <1>2, <1>3, <1>5, <1>7, <2>1, <3>1, <3>2 DEF PlacesOf
  <2>. QED
    BY <1>0, <2>1 DEF CallsTyped
<1>9. call[c].at = "waiting"
  <2>1. call[c].at \in PlacesOf(call[c].kind)
    BY <1>0, IdleIs DEF Locks
  <2>. QED
    BY <1>1, <1>2, <1>3, <1>5, <1>7, <2>1 DEF PlacesOf
<1>. QED
  BY <1>3, <1>5, <1>7, <1>8, <1>9 DEF Blocked

\* Handlers never all wait for each other, for any number of requests, slots and keys: while a request is
\* under way one of them can go on (DepMu before IntentMu, mintSenderCertsHeld, operator_ca_cache.go).
THEOREM SomeoneGoesOnCorrect == OperatorsSpec => []SomeoneGoesOn
<1>1. OperatorsInit => Opens
  BY IdleIs DEF OperatorsInit, Opens
<1>. QED
  BY <1>1, OpensStep, NotAllBlocked, OperatorsAlwaysInv, PTL DEF OperatorsSpec
=============================================================================
