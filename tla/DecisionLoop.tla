---------------------------- MODULE DecisionLoop ----------------------------
(***************************************************************************)
(* Proposals of a change to one agent's access: an advisor submits one, a  *)
(* person accepts or rejects it, or it expires; an accepted one is made    *)
(* the way a person would make it (SetAgentTier, SetConsent), and later    *)
(* its outcome is recorded (decisionloop/proposals.go,                     *)
(* proposal_outcomes.go, store/proposals.go).                              *)
(*                                                                         *)
(* The agent and the proposal are read first; the status is compared again *)
(* when the proposal is claimed, and the agent is read once more when the  *)
(* change is made.  The tiers are those that the agent's ceiling allows:   *)
(* the ceiling belongs to HubAccess.  A change says which overrides it     *)
(* adds and which it lifts, or names a tier.                               *)
(***************************************************************************)
EXTENDS Naturals, FiniteSets

CONSTANTS
  Ids,           \* proposals
  Deciders,      \* accepting and rejecting handlers under way at the same time
  Advisors,      \* submitting handlers under way at the same time
  Tiers,         \* access tiers within the ceiling
  Overrides,     \* what may be paused or left out
  Changes,       \* the changes an advisor may propose
  FirstAccess,   \* what the agent has when the server starts
  PendingLimit,  \* MaxPendingPerAgent
  None,          \* no tier, no proposal
  MaxChanges,    \* bound on what people, settings and peers change meanwhile
  MaxFailures    \* bound on failed writes, reconnections and restarts

Access == [tier : Tiers, over : SUBSET Overrides]
Change == [tier : Tiers \cup {None}, add : SUBSET Overrides, lift : SUBSET Overrides]

ASSUME LoopAssumption ==
  /\ Tiers \subseteq Nat /\ None \notin Tiers /\ None \notin Ids
  /\ FirstAccess \in Access
  /\ Changes \subseteq Change /\ Changes # {}
  /\ \A ch \in Changes : /\ ch.add \cap ch.lift = {}
                         /\ (ch.tier = None) # (ch.add \cup ch.lift = {})
  /\ PendingLimit \in Nat /\ MaxChanges \in Nat /\ MaxFailures \in Nat

VARIABLES
  approved,   \* the agent's row says approved
  access,     \* its tier and its overrides
  status,     \* status of each proposal
  change,     \* the change it holds
  due,        \* its ExpiresAt has passed, while it is pending
  age,        \* time since it was accepted: within OutcomeGiveUp, past it, past outcomeLookback
  outcome,    \* the table of outcomes
  made,       \* history: the proposals in whose name the access was changed
  decider, advisor, recorder,
  inStep,     \* AgentLoad: the agent has named the Config last sent
  since,      \* the proposals that had been decided by InForceAt
  filled,     \* a window has passed since InForceAt
  changes, failures

table == <<status, change, due, age>>
load == <<inStep, since, filled>>
handlers == <<decider, advisor, recorder>>
bounds == <<changes, failures>>
loopVars == <<approved, access, table, outcome, made, handlers, load, bounds>>

Life == INSTANCE ProposalLife

Idle == [at |-> "idle", p |-> None, admin |-> FALSE, next |-> FirstAccess]
NoSubmission == [busy |-> FALSE, change |-> CHOOSE ch \in Changes : TRUE]
NoRecord == [p |-> None, result |-> "none"]

DeciderState ==
  [at : {"idle", "judged", "claimed", "writing", "done", "refused", "rejecting"},
   p : Ids \cup {None}, admin : BOOLEAN, next : Access]

DecisionTypeOK ==
  /\ approved \in BOOLEAN /\ access \in Access
  /\ status \in [Ids -> Life!Status]
  /\ change \in [Ids -> Change]
  /\ due \in [Ids -> BOOLEAN]
  /\ age \in [Ids -> {"open", "new", "late", "old"}]
  /\ outcome \in [Ids -> Life!Result]
  /\ made \in SUBSET Ids
  /\ decider \in [Deciders -> DeciderState]
  /\ \A d \in Deciders : decider[d].at # "idle" => decider[d].p \in Ids
  /\ advisor \in [Advisors -> [busy : BOOLEAN, change : Change]]
  /\ recorder \in [p : Ids \cup {None}, result : Life!Result]
  /\ inStep \in BOOLEAN /\ since \in SUBSET Ids /\ filled \in BOOLEAN
  /\ changes \in Nat /\ failures \in Nat

LoopInit ==
  /\ approved = TRUE
  /\ access = FirstAccess
  /\ status = [p \in Ids |-> "none"]
  /\ change = [p \in Ids |-> NoSubmission.change]
  /\ due = [p \in Ids |-> FALSE]
  /\ age = [p \in Ids |-> "open"]
  /\ outcome = [p \in Ids |-> "none"]
  /\ made = {}
  /\ decider = [d \in Deciders |-> Idle]
  /\ advisor = [a \in Advisors |-> NoSubmission]
  /\ recorder = NoRecord
  /\ inStep = FALSE /\ since = {} /\ filled = FALSE
  /\ changes = 0 /\ failures = 0

Changed == changes < MaxChanges /\ changes' = changes + 1 /\ UNCHANGED failures
Failed == failures < MaxFailures /\ failures' = failures + 1 /\ UNCHANGED changes

-----------------------------------------------------------------------------
\* What a change is and does

\* ResolveChange: additions and removals apply to what the agent has.
Resolved(ch, acc) ==
  IF ch.tier # None THEN [acc EXCEPT !.tier = ch.tier]
  ELSE [acc EXCEPT !.over = (@ \ ch.lift) \cup ch.add]

Widens(from, to) == to.tier > from.tier \/ ~(from.over \subseteq to.over)

\* What SetAgentTier or SetConsent replaces: the tier, or the overrides as a whole.
Target(ch, next) ==
  IF ch.tier # None THEN [access EXCEPT !.tier = next.tier] ELSE [access EXCEPT !.over = next.over]

-----------------------------------------------------------------------------
\* The table

\* expireDueProposals, which everything that reads proposals does first.
Late == {p \in Ids : status[p] = "pending" /\ due[p]}
StatusNow(p) == IF p \in Late THEN "expired" ELSE status[p]
ExpireDue ==
  /\ status' = [p \in Ids |-> StatusNow(p)]
  /\ due' = [p \in Ids |-> due[p] /\ p \notin Late]
  /\ UNCHANGED <<change, age>>
Pending == {p \in Ids : StatusNow(p) = "pending"}

\* Mutant: the status is not compared again.
MayMoveAnyway(p, from) == status[p] # "none"

\* TransitionProposal moves a proposal only from the statuses it is given.
MayMove(p, from) == status[p] \in from

\* The first transition sets DecidedAt, which is looked at only in a proposal that is applied.
Moved(p, to) ==
  /\ status' = [status EXCEPT ![p] = to]
  /\ age' = [age EXCEPT ![p] = IF to = "accepted" THEN "new" ELSE @]
  /\ due' = [due EXCEPT ![p] = FALSE]
  /\ UNCHANGED change

\* ListProposals, GetProposal, and every handler that reads a proposal and is then refused.
ListProposals ==
  /\ Late # {}
  /\ ExpireDue
  /\ UNCHANGED <<approved, access, outcome, made, handlers, load, bounds>>

ExpiryPasses(p) ==
  /\ status[p] = "pending" /\ ~due[p]
  /\ due' = [due EXCEPT ![p] = TRUE]
  /\ UNCHANGED <<approved, access, status, change, age, outcome, made, handlers, load, bounds>>

-----------------------------------------------------------------------------
\* SubmitProposal

\* The agent is read, the change judged, those that wait counted.
SubmitRead(a) ==
  /\ ~advisor[a].busy
  /\ approved
  /\ ExpireDue
  /\ Cardinality(Pending) < PendingLimit
  /\ \E ch \in Changes :
       /\ Resolved(ch, access) # access
       /\ advisor' = [advisor EXCEPT ![a] = [busy |-> TRUE, change |-> ch]]
  /\ UNCHANGED <<approved, access, outcome, made, decider, recorder, load, bounds>>

SubmitWrite(a) ==
  /\ advisor[a].busy
  /\ \E p \in Ids :
       /\ status[p] = "none"
       /\ status' = [status EXCEPT ![p] = "pending"]
       /\ change' = [change EXCEPT ![p] = advisor[a].change]
  /\ advisor' = [advisor EXCEPT ![a] = NoSubmission]
  /\ UNCHANGED <<approved, access, due, age, outcome, made, decider, recorder, load, bounds>>

SubmitFails(a) ==
  /\ advisor[a].busy
  /\ advisor' = [advisor EXCEPT ![a] = NoSubmission]
  /\ Failed
  /\ UNCHANGED <<approved, access, table, outcome, made, decider, recorder, load>>

-----------------------------------------------------------------------------
\* RejectProposal and AcceptProposal

Decides(d, place, p, admin, next) ==
  decider' = [decider EXCEPT ![d] = [at |-> place, p |-> p, admin |-> admin, next |-> next]]
Leaves(d) == decider' = [decider EXCEPT ![d] = Idle]

\* Of one that is not pending any more there is nothing to reject.
RejectRead(d) ==
  /\ decider[d] = Idle
  /\ ExpireDue
  /\ \E p \in Pending : Decides(d, "rejecting", p, FALSE, FirstAccess)
  /\ UNCHANGED <<approved, access, outcome, made, advisor, recorder, load, bounds>>

RejectWrite(d) ==
  /\ decider[d].at = "rejecting"
  /\ IF MayMove(decider[d].p, {"pending"}) THEN Moved(decider[d].p, "rejected")
                                           ELSE UNCHANGED table
  /\ Leaves(d)
  /\ UNCHANGED <<approved, access, outcome, made, advisor, recorder, load, bounds>>

\* The agent and its overrides are read and the change is planned against them.
AcceptRead(d) ==
  /\ decider[d] = Idle
  /\ approved
  /\ ExpireDue
  /\ \E p \in Pending, admin \in BOOLEAN :
       LET next == Resolved(change[p], access) IN
       /\ next # access
       /\ Widens(access, next) => admin
       /\ Decides(d, "judged", p, admin, next)
  /\ UNCHANGED <<approved, access, outcome, made, advisor, recorder, load, bounds>>

\* Only one caller can move it out of pending.
AcceptClaim(d) ==
  /\ decider[d].at = "judged"
  /\ IF MayMove(decider[d].p, {"pending"})
     THEN /\ Moved(decider[d].p, "accepted")
          /\ decider' = [decider EXCEPT ![d].at = "claimed"]
     ELSE /\ Leaves(d)
          /\ UNCHANGED table
  /\ UNCHANGED <<approved, access, outcome, made, advisor, recorder, load, bounds>>

\* SetAgentTier and SetConsent read the agent again.
ApplyRead(d) ==
  /\ decider[d].at = "claimed"
  /\ LET to == Target(change[decider[d].p], decider[d].next)
         allowed == approved /\ (Widens(access, to) => decider[d].admin) IN
     decider' = [decider EXCEPT ![d].at = IF ~allowed THEN "refused"
                                          ELSE IF to = access THEN "done" ELSE "writing"]
  /\ UNCHANGED <<approved, access, table, outcome, made, advisor, recorder, load, bounds>>

\* PushOne: the agent is sent the Config, unless it has no stream or its stream is busy.
Pushes == \/ inStep' = FALSE /\ UNCHANGED <<since, filled>>
          \/ UNCHANGED load

\* A tier is written only for an agent that is still approved; overrides are stored as they are.
ApplyWrite(d) ==
  /\ decider[d].at = "writing"
  /\ LET p == decider[d].p IN
     IF change[p].tier # None /\ ~approved
     THEN /\ decider' = [decider EXCEPT ![d].at = "refused"]
          /\ UNCHANGED <<access, made, load>>
     ELSE /\ access' = Target(change[p], decider[d].next)
          /\ made' = made \cup {p}
          /\ decider' = [decider EXCEPT ![d].at = "done"]
          /\ Pushes
  /\ UNCHANGED <<approved, table, outcome, advisor, recorder, bounds>>

\* Mutant: a change that could not be made is recorded as made, and the other way round.
VerdictSwapped(d) == IF decider[d].at = "done" THEN "failed" ELSE "applied"
Verdict(d) == IF decider[d].at = "done" THEN "applied" ELSE "failed"

Finish(d) ==
  /\ decider[d].at \in {"done", "refused"}
  /\ IF MayMove(decider[d].p, {"accepted"}) THEN Moved(decider[d].p, Verdict(d)) ELSE UNCHANGED table
  /\ Leaves(d)
  /\ UNCHANGED <<approved, access, outcome, made, advisor, recorder, load, bounds>>

\* The store fails: the decision is not written, the change not made, or its end only logged.
DeciderFails(d) ==
  /\ decider[d].at # "idle"
  /\ decider' = [decider EXCEPT ![d] = IF @.at \in {"claimed", "writing"}
                                       THEN [@ EXCEPT !.at = "refused"] ELSE Idle]
  /\ Failed
  /\ UNCHANGED <<approved, access, table, outcome, made, advisor, recorder, load>>

-----------------------------------------------------------------------------
\* Meanwhile

\* Somebody else sets the agent's access.
ManualChange ==
  /\ approved
  /\ access' \in Access \ {access}
  /\ access'.tier = access.tier \/ access'.over = access.over
  /\ Pushes
  /\ Changed
  /\ UNCHANGED <<approved, table, outcome, made, handlers>>

Revoke ==
  /\ approved
  /\ approved' = FALSE
  /\ Changed
  /\ UNCHANGED <<access, table, outcome, made, handlers, load>>

\* A Config goes out: peers or settings changed, a push is tried again, a Config was lost.
ConfigSent ==
  /\ inStep
  /\ inStep' = FALSE
  /\ Changed
  /\ UNCHANGED <<approved, access, table, outcome, made, handlers, since, filled>>

Decided == {p \in Ids : age[p] # "open"}

\* The agent names it.  Before the server has noted what it sent, this is not dated.
ConfigNamed ==
  /\ ~inStep
  /\ inStep' = TRUE
  /\ \/ since' = Decided /\ filled' = FALSE
     \/ UNCHANGED <<since, filled>>
  /\ UNCHANGED <<approved, access, table, outcome, made, handlers, bounds>>

Forgotten == inStep' = FALSE /\ since' = {} /\ filled' = FALSE

Reconnects ==
  /\ Forgotten
  /\ Failed
  /\ UNCHANGED <<approved, access, table, outcome, made, handlers>>

\* The server restarts, perhaps after a long time.
Restart ==
  /\ decider' = [d \in Deciders |-> Idle]
  /\ advisor' = [a \in Advisors |-> NoSubmission]
  /\ recorder' = NoRecord
  /\ Forgotten
  /\ \E past \in SUBSET Decided : age' = [p \in Ids |-> IF p \in past THEN "old" ELSE age[p]]
  /\ Failed
  /\ UNCHANGED <<approved, access, status, change, due, outcome, made>>

GiveUpPasses(p) ==
  /\ age[p] = "new"
  /\ age' = [age EXCEPT ![p] = "late"]
  /\ UNCHANGED <<approved, access, status, change, due, outcome, made, handlers, load, bounds>>

WindowFills ==
  /\ since # {} /\ ~filled
  /\ filled' = TRUE
  /\ UNCHANGED <<approved, access, table, outcome, made, handlers, inStep, since, bounds>>

-----------------------------------------------------------------------------
\* RecordOutcomes, once a minute

\* Mutant: a proposal waits for the agent however long.
OutcomeIfConfirmed(p, usable) ==
  IF inStep /\ p \in since /\ filled /\ usable THEN "measured" ELSE "none"

\* outcomeFor, "none" while it is not ready.  The samples may be of no use, or still arriving.
OutcomeFor(p, usable) ==
  CASE ~(inStep /\ p \in since) -> IF age[p] = "late" THEN "unconfirmed" ELSE "none"
    [] inStep /\ p \in since /\ ~filled -> "none"
    [] inStep /\ p \in since /\ filled -> IF usable THEN "measured"
                                           ELSE IF age[p] = "late" THEN "no_data" ELSE "none"

Awaits(p) == status[p] = "applied" /\ age[p] # "old" /\ outcome[p] = "none"

RecordRead(p) ==
  /\ recorder = NoRecord
  /\ Awaits(p)
  /\ \E usable \in BOOLEAN :
       /\ OutcomeFor(p, usable) # "none"
       /\ recorder' = [p |-> p, result |-> OutcomeFor(p, usable)]
  /\ UNCHANGED <<approved, access, table, outcome, made, decider, advisor, load, bounds>>

\* An outcome that is there stays.
RecordWrite ==
  /\ recorder # NoRecord
  /\ outcome' = [outcome EXCEPT ![recorder.p] = IF @ = "none" THEN recorder.result ELSE @]
  /\ recorder' = NoRecord
  /\ UNCHANGED <<approved, access, table, made, decider, advisor, load, bounds>>

RecordFails ==
  /\ recorder # NoRecord
  /\ recorder' = NoRecord
  /\ Failed
  /\ UNCHANGED <<approved, access, table, outcome, made, decider, advisor, load>>

-----------------------------------------------------------------------------

DeciderStep(d) ==
  AcceptClaim(d) \/ ApplyRead(d) \/ ApplyWrite(d) \/ Finish(d) \/ RejectWrite(d)

LoopNext ==
  \/ \E a \in Advisors : SubmitRead(a) \/ SubmitWrite(a) \/ SubmitFails(a)
  \/ \E d \in Deciders : RejectRead(d) \/ AcceptRead(d) \/ DeciderStep(d) \/ DeciderFails(d)
  \/ \E p \in Ids : ExpiryPasses(p) \/ GiveUpPasses(p) \/ RecordRead(p)
  \/ ListProposals \/ ManualChange \/ Revoke \/ ConfigSent \/ ConfigNamed \/ Reconnects \/ Restart
  \/ WindowFills \/ RecordWrite \/ RecordFails

\* Handlers go on, time passes, the minute tick comes.  Nothing is fair about people and agents.
LoopFairness ==
  /\ \A d \in Deciders : WF_loopVars(DeciderStep(d))
  /\ \A p \in Ids : WF_loopVars(GiveUpPasses(p)) /\ WF_loopVars(RecordRead(p))
  /\ WF_loopVars(WindowFills)
  /\ WF_loopVars(RecordWrite)

LoopSpec == LoopInit /\ [][LoopNext]_loopVars /\ LoopFairness

-----------------------------------------------------------------------------
\* Properties

\* The handler has moved the proposal out of pending and not yet to its end.
Claimed(d) == decider[d].at \in {"claimed", "writing", "done", "refused"}

\* Of two people accepting at once, one wins: a proposal whose change is being made is accepted,
\* and only one handler makes it (AcceptProposal, "Claim the proposal first").
OneDecides ==
  /\ \A d \in Deciders : Claimed(d) => status[decider[d].p] = "accepted"
  /\ \A d, e \in Deciders : Claimed(d) /\ Claimed(e) /\ decider[d].p = decider[e].p => d = e

\* Each proposal lives the life of ProposalLife: decided once, made at most once and only when
\* accepted, nothing made of one that ends rejected, expired or failed, an outcome only of an
\* applied one, and for good (AcceptProposal, TransitionProposal, RecordProposalOutcome).
ImplementsProposalLife == Life!LifeSpec

\* What keeps both: nothing is made yet while it may still be refused, only what was accepted is
\* made, and only an applied proposal is looked at for its outcome.
MadeOnlyAccepted ==
  /\ \A d \in Deciders : decider[d].at \in {"claimed", "writing", "refused"} => decider[d].p \notin made
  /\ \A p \in made : status[p] \in {"accepted", "applied"}

RecordsApplied ==
  recorder # NoRecord =>
    recorder.p \in Ids /\ status[recorder.p] = "applied" /\ recorder.result # "none"

LoopInv == DecisionTypeOK /\ OneDecides /\ MadeOnlyAccepted /\ RecordsApplied

\* A server that stays up records an outcome for every applied proposal, whether or not the agent
\* confirms the change (RecordOutcomes).
OutcomeArrives ==
  \A p \in Ids : status[p] = "applied" ~> outcome[p] # "none" \/ age[p] = "old"
=============================================================================
