-------------------------- MODULE DecisionLoopProof --------------------------
(***************************************************************************)
(* The safety of the decision loop, for any number of proposals and of     *)
(* handlers, and that it implements ProposalLife.                          *)
(*                                                                         *)
(* LoopInv is inductive.  The claim carries the argument: a proposal whose *)
(* handler is past it is accepted, no other handler can claim it, and so   *)
(* nobody else makes its change or writes its end.                         *)
(***************************************************************************)
EXTENDS DecisionLoop, TLAPS

\* A change leaves an agent with an access it may have.
LEMMA ResolvedType ==
  ASSUME NEW ch \in Change, NEW acc \in Access
  PROVE  Resolved(ch, acc) \in Access
BY DEF Resolved, Change, Access

LEMMA TargetType ==
  ASSUME NEW ch \in Change, NEW next \in Access, access \in Access
  PROVE  Target(ch, next) \in Access
BY DEF Target, Access

LEMMA NoSubmissionType == NoSubmission.change \in Change /\ NoSubmission.busy = FALSE
BY LoopAssumption DEF NoSubmission

LEMMA LoopStarts == LoopInit => LoopInv
<1>. SUFFICES ASSUME LoopInit PROVE LoopInv
  OBVIOUS
<1>1. FirstAccess \in Access
  BY LoopAssumption
<1>2. Idle \in DeciderState /\ Idle.at = "idle"
  BY <1>1 DEF Idle, DeciderState
<1>3. NoSubmission \in [busy : BOOLEAN, change : Change]
  BY NoSubmissionType DEF NoSubmission
<1>4. NoRecord \in [p : Ids \cup {None}, result : Life!Result]
  BY DEF NoRecord, Life!Result
<1>5. DecisionTypeOK
  BY <1>1, <1>2, <1>3, <1>4, NoSubmissionType DEF LoopInit, DecisionTypeOK, Life!Status, Life!Result
<1>. QED
  BY <1>2, <1>5 DEF LoopInit, LoopInv, OneDecides, MadeOnlyAccepted, RecordsApplied, Claimed

-----------------------------------------------------------------------------
\* The parts of the invariant that are about handlers and proposals depend on few variables.

LEMMA ProposalsAlone ==
  ASSUME LoopInv, DecisionTypeOK', UNCHANGED <<status, made, decider, recorder>>
  PROVE  LoopInv'
BY DEF LoopInv, OneDecides, MadeOnlyAccepted, RecordsApplied, Claimed

\* Proposals that are late expire: nobody has claimed them.
LEMMA ExpireType ==
  ASSUME LoopInv, ExpireDue
  PROVE  /\ status' \in [Ids -> Life!Status] /\ change' \in [Ids -> Change]
         /\ due' \in [Ids -> BOOLEAN] /\ age' \in [Ids -> {"open", "new", "late", "old"}]
BY DEF LoopInv, DecisionTypeOK, ExpireDue, StatusNow, Late, Life!Status

LEMMA ExpireKeeps ==
  ASSUME LoopInv, ExpireDue, NEW p \in Ids, status[p] # "pending"
  PROVE  status'[p] = status[p]
BY DEF ExpireDue, StatusNow, Late

LEMMA ExpireInv ==
  ASSUME LoopInv, ExpireDue, DecisionTypeOK', UNCHANGED <<made, recorder>>,
         \A d \in Deciders : Claimed(d)' => decider'[d] = decider[d]
  PROVE  LoopInv'
<1>1. OneDecides'
  <2>1. \A d \in Deciders : Claimed(d)' => Claimed(d) /\ decider'[d].p = decider[d].p
    BY DEF Claimed
  <2>2. \A d \in Deciders : Claimed(d) => decider[d].p \in Ids /\ status[decider[d].p] = "accepted"
    BY DEF LoopInv, OneDecides, DecisionTypeOK, Claimed
  <2>3. \A d \in Deciders : Claimed(d)' => status'[decider'[d].p] = "accepted"
    BY <2>1, <2>2, ExpireKeeps
  <2>4. \A d, e \in Deciders : Claimed(d)' /\ Claimed(e)' /\ decider'[d].p = decider'[e].p => d = e
    BY <2>1 DEF LoopInv, OneDecides
  <2>. QED
    BY <2>3, <2>4 DEF OneDecides, Claimed
<1>2. MadeOnlyAccepted'
  <2>1. \A d \in Deciders : decider'[d].at \in {"claimed", "writing", "refused"} => decider'[d] = decider[d]
    BY DEF Claimed
  <2>2. \A p \in made : p \in Ids /\ status[p] \in {"accepted", "applied"}
    BY DEF LoopInv, DecisionTypeOK, MadeOnlyAccepted
  <2>3. \A p \in made : status'[p] \in {"accepted", "applied"}
    BY <2>2, ExpireKeeps
  <2>. QED
    BY <2>1, <2>3 DEF LoopInv, MadeOnlyAccepted
<1>3. RecordsApplied'
  BY ExpireKeeps DEF LoopInv, RecordsApplied
<1>. QED
  BY <1>1, <1>2, <1>3 DEF LoopInv

\* The statuses that nobody may expire.
LEMMA PendingNow ==
  ASSUME NEW p \in Pending
  PROVE  p \in Ids /\ status[p] = "pending"
BY DEF Pending, StatusNow

-----------------------------------------------------------------------------
\* What the handlers do

LEMMA DecidesType ==
  ASSUME LoopInv, NEW d \in Deciders, NEW at \in {"judged", "rejecting"}, NEW p \in Ids,
         NEW admin \in BOOLEAN, NEW next \in Access, Decides(d, at, p, admin, next)
  PROVE  /\ decider' \in [Deciders -> DeciderState]
         /\ \A e \in Deciders : decider'[e].at # "idle" => decider'[e].p \in Ids
         /\ \A e \in Deciders : Claimed(e)' => decider'[e] = decider[e]
BY DEF Decides, LoopInv, DecisionTypeOK, DeciderState, Claimed

LEMMA LeavesType ==
  ASSUME LoopInv, NEW d \in Deciders, Leaves(d)
  PROVE  /\ decider' \in [Deciders -> DeciderState]
         /\ decider'[d].at = "idle"
         /\ \A e \in Deciders : e # d => decider'[e] = decider[e]
         /\ \A e \in Deciders : decider'[e].at # "idle" => decider'[e] = decider[e]
<1>1. Idle \in DeciderState /\ Idle.at = "idle"
  BY LoopAssumption DEF Idle, DeciderState
<1>2. decider \in [Deciders -> DeciderState]
  BY DEF LoopInv, DecisionTypeOK
<1>. QED
  BY <1>1, <1>2 DEF Leaves

\* A handler that is gone no longer makes anything.
LEMMA FewerHandlers ==
  ASSUME LoopInv, DecisionTypeOK', UNCHANGED <<status, made, recorder>>,
         \A e \in Deciders : decider'[e].at # "idle" => decider'[e] = decider[e]
  PROVE  LoopInv'
<1>1. \A e \in Deciders : Claimed(e)' => decider'[e] = decider[e] /\ Claimed(e)
  BY DEF Claimed
<1>2. OneDecides'
  BY <1>1 DEF LoopInv, OneDecides
<1>3. MadeOnlyAccepted'
  BY DEF LoopInv, MadeOnlyAccepted
<1>. QED
  BY <1>2, <1>3 DEF LoopInv, RecordsApplied

LEMMA MovedType ==
  ASSUME LoopInv, NEW p \in Ids, NEW to \in Life!Status, Moved(p, to)
  PROVE  /\ status' \in [Ids -> Life!Status] /\ change' \in [Ids -> Change]
         /\ due' \in [Ids -> BOOLEAN] /\ age' \in [Ids -> {"open", "new", "late", "old"}]
         /\ status'[p] = to
         /\ \A q \in Ids : q # p => status'[q] = status[q]
BY DEF Moved, LoopInv, DecisionTypeOK

LEMMA ReadStep ==
  ASSUME LoopInv, NEW d \in Deciders, RejectRead(d) \/ AcceptRead(d)
  PROVE  LoopInv'
<1>1. PICK at \in {"judged", "rejecting"}, p \in Ids, admin \in BOOLEAN, next \in Access :
        Decides(d, at, p, admin, next)
  <2>1. CASE RejectRead(d)
    BY <2>1, PendingNow, LoopAssumption DEF RejectRead
  <2>2. CASE AcceptRead(d)
    <3>1. PICK p \in Pending, admin \in BOOLEAN :
            Decides(d, "judged", p, admin, Resolved(change[p], access))
      BY <2>2 DEF AcceptRead
    <3>2. p \in Ids /\ Resolved(change[p], access) \in Access
      BY PendingNow, ResolvedType DEF LoopInv, DecisionTypeOK
    <3>. QED
      BY <3>1, <3>2
  <2>. QED
    BY <2>1, <2>2
<1>2. ExpireDue /\ UNCHANGED <<approved, access, outcome, made, advisor, recorder, load, bounds>>
  BY DEF RejectRead, AcceptRead
<1>3. DecisionTypeOK'
  BY <1>1, <1>2, ExpireType, DecidesType DEF LoopInv, DecisionTypeOK, load, bounds
<1>4. \A e \in Deciders : Claimed(e)' => decider'[e] = decider[e]
  BY <1>1, DecidesType
<1>. QED
  BY <1>2, <1>3, <1>4, ExpireInv

\* The claim, and a rejection: from pending, where nobody has claimed it and nothing is made of it.
LEMMA ClaimStep ==
  ASSUME LoopInv, NEW d \in Deciders, AcceptClaim(d) \/ RejectWrite(d)
  PROVE  LoopInv'
<1> DEFINE p == decider[d].p
<1>1. /\ decider[d].at \in {"judged", "rejecting"} /\ p \in Ids
      /\ UNCHANGED <<approved, access, outcome, made, advisor, recorder, load, bounds>>
  BY DEF AcceptClaim, RejectWrite, LoopInv, DecisionTypeOK
<1>2. CASE ~MayMove(p, {"pending"})
  <2>1. Leaves(d) /\ UNCHANGED table
    BY <1>2 DEF AcceptClaim, RejectWrite
  <2>2. DecisionTypeOK'
    BY <1>1, <2>1, LeavesType DEF LoopInv, DecisionTypeOK, table, load, bounds
  <2>. QED
    BY <1>1, <2>1, <2>2, LeavesType, FewerHandlers DEF table
<1>3. CASE MayMove(p, {"pending"})
  <2>1. PICK to \in {"accepted", "rejected"} :
          /\ Moved(p, to)
          /\ to = "rejected" => Leaves(d)
          /\ to = "accepted" => decider' = [decider EXCEPT ![d].at = "claimed"]
    BY <1>3 DEF AcceptClaim, RejectWrite
  <2>2. to \in Life!Status /\ status[p] = "pending"
    BY <1>3 DEF Life!Status, MayMove
  <2>3. /\ decider' \in [Deciders -> DeciderState]
        /\ \A e \in Deciders : e # d => decider'[e] = decider[e]
        /\ \A e \in Deciders : decider'[e].at # "idle" => decider'[e].p = decider[e].p
        /\ decider'[d].at = IF to = "accepted" THEN "claimed" ELSE "idle"
    <3>1. CASE to = "rejected"
      BY <2>1, <3>1, LeavesType
    <3>2. CASE to = "accepted"
      <4>1. decider \in [Deciders -> DeciderState] /\ [decider[d] EXCEPT !.at = "claimed"] \in DeciderState
        BY DEF LoopInv, DecisionTypeOK, DeciderState
      <4>2. decider' = [decider EXCEPT ![d] = [decider[d] EXCEPT !.at = "claimed"]]
        BY <2>1, <3>2
      <4>. QED
        BY <3>2, <4>1, <4>2 DEF DeciderState
    <3>. QED
      BY <3>1, <3>2
  <2>4. \A e \in Deciders : decider'[e].at # "idle" => decider'[e].p \in Ids
    BY <1>1, <2>3 DEF LoopInv, DecisionTypeOK
  <2>5. DecisionTypeOK'
    BY <1>1, <2>1, <2>2, <2>3, <2>4, MovedType DEF LoopInv, DecisionTypeOK, load, bounds
  <2>6. status'[p] = to /\ \A q \in Ids : q # p => status'[q] = status[q]
    BY <1>1, <2>1, <2>2, MovedType
  <2>7. \A e \in Deciders : Claimed(e) => decider[e].p \in Ids /\ decider[e].p # p /\ e # d
    BY <1>1, <2>2 DEF LoopInv, DecisionTypeOK, OneDecides, Claimed
  <2>8. \A e \in Deciders : Claimed(e)' => \/ e # d /\ Claimed(e) /\ decider'[e] = decider[e]
                                           \/ e = d /\ to = "accepted" /\ decider'[e].p = p
    BY <2>3 DEF Claimed
  <2>9. OneDecides'
    <3>1. \A e \in Deciders : Claimed(e)' => status'[decider'[e].p] = "accepted"
      BY <2>6, <2>7, <2>8 DEF LoopInv, OneDecides
    <3>2. \A e, f \in Deciders : Claimed(e)' /\ Claimed(f)' /\ decider'[e].p = decider'[f].p => e = f
      BY <2>7, <2>8 DEF LoopInv, OneDecides
    <3>. QED
      BY <3>1, <3>2 DEF OneDecides, Claimed
  <2>10. MadeOnlyAccepted'
    <3>1. p \notin made
      BY <2>2 DEF LoopInv, MadeOnlyAccepted
    <3>2. \A e \in Deciders : decider'[e].at \in {"claimed", "writing", "refused"} => decider'[e].p \notin made
      BY <2>3, <3>1 DEF LoopInv, MadeOnlyAccepted
    <3>3. \A q \in made : status'[q] \in {"accepted", "applied"}
      BY <2>6, <3>1 DEF LoopInv, DecisionTypeOK, MadeOnlyAccepted
    <3>. QED
      BY <1>1, <3>2, <3>3 DEF MadeOnlyAccepted
  <2>11. RecordsApplied'
    BY <1>1, <2>2, <2>6 DEF LoopInv, RecordsApplied
  <2>. QED
    BY <2>5, <2>9, <2>10, <2>11 DEF LoopInv
<1>. QED
  BY <1>2, <1>3

\* Only a handler that has claimed the proposal makes the change.
LEMMA ApplyStep ==
  ASSUME LoopInv, NEW d \in Deciders, ApplyRead(d) \/ ApplyWrite(d)
  PROVE  LoopInv'
<1> DEFINE p == decider[d].p
<1>1. /\ decider[d].at \in {"claimed", "writing"} /\ p \in Ids
      /\ status[p] = "accepted" /\ p \notin made
      /\ UNCHANGED <<approved, table, outcome, advisor, recorder, bounds>>
  BY DEF ApplyRead, ApplyWrite, LoopInv, DecisionTypeOK, OneDecides, MadeOnlyAccepted, Claimed
<1>2. /\ \E place \in {"refused", "done", "writing"} :
           decider' = [decider EXCEPT ![d].at = place] /\ (place # "done" => UNCHANGED made)
      /\ made' \in {made, made \cup {p}}
  BY DEF ApplyRead, ApplyWrite
<1>3. /\ decider' \in [Deciders -> DeciderState]
      /\ \A e \in Deciders : e # d => decider'[e] = decider[e]
      /\ \A e \in Deciders : decider'[e].p = decider[e].p
      /\ decider'[d].at \in {"refused", "done", "writing"}
      /\ decider'[d].at # "done" => UNCHANGED made
  BY <1>2 DEF LoopInv, DecisionTypeOK, DeciderState
<1>4. access' \in Access /\ inStep' \in BOOLEAN /\ since' \in SUBSET Ids /\ filled' \in BOOLEAN
  <2>1. Target(change[p], decider[d].next) \in Access
    BY <1>1, TargetType DEF LoopInv, DecisionTypeOK, DeciderState
  <2>. QED
    BY <2>1 DEF ApplyRead, ApplyWrite, Pushes, load, LoopInv, DecisionTypeOK
<1>5. DecisionTypeOK'
  <2>1. \A e \in Deciders : decider'[e].at # "idle" => decider'[e].p \in Ids
    BY <1>1, <1>3 DEF LoopInv, DecisionTypeOK
  <2>. QED
    BY <1>1, <1>2, <1>3, <1>4, <2>1 DEF LoopInv, DecisionTypeOK, table, bounds
<1>6. \A e \in Deciders : Claimed(e)' => Claimed(e) /\ decider'[e].p = decider[e].p
  BY <1>1, <1>3 DEF Claimed
<1>7. \A e \in Deciders : Claimed(e) /\ e # d => decider[e].p # p
  BY <1>1 DEF LoopInv, OneDecides, Claimed
<1>8. OneDecides'
  BY <1>1, <1>6 DEF LoopInv, OneDecides, table
<1>9. MadeOnlyAccepted'
  <2>1. \A e \in Deciders : decider'[e].at \in {"claimed", "writing", "refused"} => decider'[e].p \notin made'
    BY <1>1, <1>2, <1>3, <1>7 DEF LoopInv, MadeOnlyAccepted, Claimed
  <2>2. \A q \in made' : status'[q] \in {"accepted", "applied"}
    BY <1>1, <1>2 DEF LoopInv, MadeOnlyAccepted, table
  <2>. QED
    BY <2>1, <2>2 DEF MadeOnlyAccepted
<1>10. RecordsApplied'
  BY <1>1 DEF LoopInv, RecordsApplied, table
<1>. QED
  BY <1>5, <1>8, <1>9, <1>10 DEF LoopInv

\* The end is written by the handler that claimed it; what is refused has made nothing.
LEMMA FinishStep ==
  ASSUME LoopInv, NEW d \in Deciders, Finish(d)
  PROVE  LoopInv'
<1> DEFINE p == decider[d].p
<1>1. /\ decider[d].at \in {"done", "refused"} /\ p \in Ids /\ status[p] = "accepted"
      /\ Moved(p, Verdict(d)) /\ Leaves(d)
      /\ UNCHANGED <<approved, access, outcome, made, advisor, recorder, load, bounds>>
  BY DEF Finish, LoopInv, DecisionTypeOK, OneDecides, MayMove, Claimed
<1>2. Verdict(d) \in {"applied", "failed"} /\ Verdict(d) \in Life!Status
  BY DEF Verdict, Life!Status
<1>3. status'[p] = Verdict(d) /\ \A q \in Ids : q # p => status'[q] = status[q]
  BY <1>1, <1>2, MovedType
<1>4. DecisionTypeOK'
  <2>1. \A e \in Deciders : decider'[e].at # "idle" => decider'[e].p \in Ids
    BY <1>1, LeavesType DEF LoopInv, DecisionTypeOK
  <2>. QED
    BY <1>1, <1>2, <2>1, MovedType, LeavesType DEF LoopInv, DecisionTypeOK, load, bounds
<1>5. \A e \in Deciders : Claimed(e)' => e # d /\ Claimed(e) /\ decider'[e] = decider[e]
  BY <1>1, LeavesType DEF Claimed
<1>6. \A e \in Deciders : Claimed(e) /\ e # d => decider[e].p \in Ids /\ decider[e].p # p
  BY <1>1 DEF LoopInv, OneDecides, DecisionTypeOK, Claimed
<1>7. OneDecides'
  <2>1. \A e \in Deciders : Claimed(e)' => status'[decider'[e].p] = "accepted"
    BY <1>3, <1>5, <1>6 DEF LoopInv, OneDecides
  <2>. QED
    BY <1>5, <2>1 DEF LoopInv, OneDecides
<1>8. MadeOnlyAccepted'
  <2>1. Verdict(d) = "failed" => p \notin made
    BY <1>1 DEF Verdict, LoopInv, MadeOnlyAccepted
  <2>2. \A q \in made : status'[q] \in {"accepted", "applied"}
    BY <1>2, <1>3, <2>1 DEF LoopInv, DecisionTypeOK, MadeOnlyAccepted
  <2>3. \A e \in Deciders : decider'[e].at # "idle" => decider'[e] = decider[e]
    BY <1>1, LeavesType
  <2>. QED
    BY <1>1, <2>2, <2>3 DEF LoopInv, MadeOnlyAccepted
<1>9. RecordsApplied'
  BY <1>1, <1>3 DEF LoopInv, RecordsApplied
<1>. QED
  BY <1>4, <1>7, <1>8, <1>9 DEF LoopInv

LEMMA DeciderFailsStep ==
  ASSUME LoopInv, NEW d \in Deciders, DeciderFails(d)
  PROVE  LoopInv'
<1>1. /\ decider[d].at # "idle"
      /\ UNCHANGED <<approved, access, table, outcome, made, advisor, recorder, load, changes>>
      /\ failures' = failures + 1
  BY DEF DeciderFails, Failed
<1>2. CASE decider[d].at \notin {"claimed", "writing"}
  <2>1. Leaves(d)
    BY <1>2 DEF DeciderFails, Leaves
  <2>2. DecisionTypeOK'
    BY <1>1, <2>1, LeavesType DEF LoopInv, DecisionTypeOK, table, load
  <2>. QED
    BY <1>1, <2>1, <2>2, LeavesType, FewerHandlers DEF table
<1>3. CASE decider[d].at \in {"claimed", "writing"}
  <2>1. decider' = [decider EXCEPT ![d].at = "refused"]
    BY <1>3 DEF DeciderFails
  <2>2. /\ decider' \in [Deciders -> DeciderState]
        /\ \A e \in Deciders : decider'[e].p = decider[e].p
        /\ \A e \in Deciders : e # d => decider'[e] = decider[e]
        /\ decider'[d].at = "refused"
    BY <2>1 DEF LoopInv, DecisionTypeOK, DeciderState
  <2>3. DecisionTypeOK'
    <3>1. \A e \in Deciders : decider'[e].at # "idle" => decider'[e].p \in Ids
      BY <1>3, <2>2 DEF LoopInv, DecisionTypeOK
    <3>. QED
      BY <1>1, <2>2, <3>1 DEF LoopInv, DecisionTypeOK, table, load
  <2>4. \A e \in Deciders : Claimed(e)' => Claimed(e)
    BY <1>3, <2>2 DEF Claimed
  <2>5. OneDecides'
    BY <1>1, <2>2, <2>4 DEF LoopInv, OneDecides, table
  <2>6. MadeOnlyAccepted'
    BY <1>1, <1>3, <2>2 DEF LoopInv, MadeOnlyAccepted, table
  <2>. QED
    BY <1>1, <2>3, <2>5, <2>6 DEF LoopInv, RecordsApplied, table
<1>. QED
  BY <1>2, <1>3

-----------------------------------------------------------------------------
\* Everything else

\* Submitting adds a proposal nobody knows of yet.
LEMMA SubmitStep ==
  ASSUME LoopInv, NEW a \in Advisors, SubmitRead(a) \/ SubmitWrite(a) \/ SubmitFails(a)
  PROVE  LoopInv'
<1>. USE NoSubmissionType
<1>1. CASE SubmitRead(a)
  <2>1. advisor' \in [Advisors -> [busy : BOOLEAN, change : Change]]
    BY <1>1, LoopAssumption DEF SubmitRead, LoopInv, DecisionTypeOK
  <2>2. DecisionTypeOK'
    BY <1>1, <2>1, ExpireType DEF SubmitRead, LoopInv, DecisionTypeOK, load, bounds
  <2>. QED
    BY <1>1, <2>2, ExpireInv DEF SubmitRead
<1>2. CASE SubmitWrite(a)
  <2>1. PICK p \in Ids : /\ status[p] = "none"
                         /\ status' = [status EXCEPT ![p] = "pending"]
                         /\ change' = [change EXCEPT ![p] = advisor[a].change]
    BY <1>2 DEF SubmitWrite
  <2>2. advisor' \in [Advisors -> [busy : BOOLEAN, change : Change]]
    BY <1>2 DEF SubmitWrite, NoSubmission, LoopInv, DecisionTypeOK
  <2>3. DecisionTypeOK'
    BY <1>2, <2>1, <2>2 DEF SubmitWrite, LoopInv, DecisionTypeOK, Life!Status, load, bounds
  <2>4. \A q \in Ids : status[q] # "none" => status'[q] = status[q]
    BY <2>1 DEF LoopInv, DecisionTypeOK
  <2>5. UNCHANGED <<decider, made, recorder>>
    BY <1>2 DEF SubmitWrite
  <2>6. OneDecides'
    BY <2>4, <2>5 DEF LoopInv, DecisionTypeOK, OneDecides, Claimed
  <2>7. MadeOnlyAccepted'
    BY <2>4, <2>5 DEF LoopInv, DecisionTypeOK, MadeOnlyAccepted
  <2>8. RecordsApplied'
    BY <2>4, <2>5 DEF LoopInv, RecordsApplied
  <2>. QED
    BY <2>3, <2>6, <2>7, <2>8 DEF LoopInv
<1>3. CASE SubmitFails(a)
  <2>1. DecisionTypeOK'
    BY <1>3 DEF SubmitFails, NoSubmission, Failed, LoopInv, DecisionTypeOK, table, load
  <2>. QED
    BY <1>3, <2>1, ProposalsAlone DEF SubmitFails, table
<1>. QED
  BY <1>1, <1>2, <1>3

\* What the agent has and names does not touch the proposals.
LEMMA AgentAlone ==
  ASSUME LoopInv, UNCHANGED <<table, outcome, made, handlers>>,
         approved' \in BOOLEAN, access' \in Access,
         inStep' \in BOOLEAN, since' \in SUBSET Ids, filled' \in BOOLEAN,
         changes' \in Nat, failures' \in Nat
  PROVE  LoopInv'
<1>1. DecisionTypeOK'
  BY DEF LoopInv, DecisionTypeOK, table, handlers
<1>. QED
  BY <1>1, ProposalsAlone DEF table, handlers

LEMMA CountsType ==
  ASSUME LoopInv
  PROVE  /\ Changed => changes' \in Nat /\ failures' \in Nat
         /\ Failed => changes' \in Nat /\ failures' \in Nat
         /\ UNCHANGED bounds => changes' \in Nat /\ failures' \in Nat
BY DEF Changed, Failed, bounds, LoopInv, DecisionTypeOK

\* Time, the agent, and other people.
LEMMA MeanwhileStep ==
  ASSUME LoopInv,
         ManualChange \/ Revoke \/ ConfigSent \/ ConfigNamed \/ Reconnects \/ WindowFills
         \/ \E p \in Ids : ExpiryPasses(p) \/ GiveUpPasses(p)
  PROVE  LoopInv'
<1>1. CASE ManualChange \/ Revoke \/ ConfigSent \/ ConfigNamed \/ Reconnects \/ WindowFills
  <2>1. UNCHANGED <<table, outcome, made, handlers>>
    BY <1>1 DEF ManualChange, Revoke, ConfigSent, ConfigNamed, Reconnects, WindowFills
  <2>2. changes' \in Nat /\ failures' \in Nat
    BY <1>1, CountsType DEF ManualChange, Revoke, ConfigSent, ConfigNamed, Reconnects, WindowFills
  <2>3. approved' \in BOOLEAN /\ access' \in Access
    BY <1>1 DEF ManualChange, Revoke, ConfigSent, ConfigNamed, Reconnects, WindowFills,
                LoopInv, DecisionTypeOK
  <2>4. inStep' \in BOOLEAN /\ since' \in SUBSET Ids /\ filled' \in BOOLEAN
    BY <1>1 DEF ManualChange, Revoke, ConfigSent, ConfigNamed, Reconnects, WindowFills,
                Pushes, Forgotten, Decided, load, LoopInv, DecisionTypeOK
  <2>. QED
    BY <2>1, <2>2, <2>3, <2>4, AgentAlone
<1>2. CASE \E p \in Ids : ExpiryPasses(p) \/ GiveUpPasses(p)
  <2>1. UNCHANGED <<approved, access, status, change, outcome, made, decider, advisor, recorder,
                    inStep, since, filled, changes, failures>>
    BY <1>2 DEF ExpiryPasses, GiveUpPasses, handlers, load, bounds
  <2>2. due' \in [Ids -> BOOLEAN] /\ age' \in [Ids -> {"open", "new", "late", "old"}]
    BY <1>2 DEF ExpiryPasses, GiveUpPasses, LoopInv, DecisionTypeOK
  <2>3. DecisionTypeOK'
    BY <2>1, <2>2 DEF LoopInv, DecisionTypeOK
  <2>. QED
    BY <2>1, <2>3, ProposalsAlone
<1>. QED
  BY <1>1, <1>2

LEMMA RestartStep ==
  ASSUME LoopInv, Restart
  PROVE  LoopInv'
<1>1. Idle \in DeciderState /\ Idle.at = "idle"
  BY LoopAssumption DEF Idle, DeciderState
<1>2. /\ decider' = [d \in Deciders |-> Idle] /\ recorder' = NoRecord
      /\ UNCHANGED <<approved, access, status, change, due, outcome, made, changes>>
      /\ failures' = failures + 1
  BY DEF Restart, Failed
<1>3. age' \in [Ids -> {"open", "new", "late", "old"}]
  BY DEF Restart, LoopInv, DecisionTypeOK
<1>4. advisor' \in [Advisors -> [busy : BOOLEAN, change : Change]]
  BY NoSubmissionType DEF Restart, NoSubmission
<1>5. NoRecord \in [p : Ids \cup {None}, result : Life!Result]
  BY DEF NoRecord, Life!Result
<1>6. inStep' \in BOOLEAN /\ since' \in SUBSET Ids /\ filled' \in BOOLEAN
  BY DEF Restart, Forgotten
<1>7. changes' \in Nat /\ failures' \in Nat
  BY CountsType DEF Restart
<1>8. decider' \in [Deciders -> DeciderState] /\ \A d \in Deciders : decider'[d].at = "idle"
  BY <1>1, <1>2
<1>9. DecisionTypeOK'
  BY <1>2, <1>3, <1>4, <1>5, <1>6, <1>7, <1>8 DEF LoopInv, DecisionTypeOK
<1>. QED
  BY <1>2, <1>8, <1>9 DEF LoopInv, OneDecides, MadeOnlyAccepted, RecordsApplied, Claimed

\* What outcomeFor finds.
LEMMA OutcomeForType ==
  ASSUME NEW p, NEW usable \in BOOLEAN
  PROVE  OutcomeFor(p, usable) \in Life!Result
BY DEF OutcomeFor, Life!Result

LEMMA RecordStep ==
  ASSUME LoopInv, RecordWrite \/ RecordFails \/ \E p \in Ids : RecordRead(p)
  PROVE  LoopInv'
<1>1. NoRecord \in [p : Ids \cup {None}, result : Life!Result]
  BY DEF NoRecord, Life!Result
<1>2. UNCHANGED <<approved, access, table, made, decider, advisor, load, changes>>
  BY DEF RecordWrite, RecordFails, RecordRead, Failed, bounds
<1>3. /\ outcome' \in [Ids -> Life!Result]
      /\ recorder' \in [p : Ids \cup {None}, result : Life!Result]
      /\ failures' \in Nat
      /\ RecordsApplied'
  <2>1. CASE RecordWrite
    BY <1>1, <2>1 DEF RecordWrite, LoopInv, DecisionTypeOK, RecordsApplied, bounds
  <2>2. CASE RecordFails
    BY <1>1, <2>2 DEF RecordFails, Failed, LoopInv, DecisionTypeOK, RecordsApplied
  <2>3. CASE \E p \in Ids : RecordRead(p)
    <3>1. PICK p \in Ids, usable \in BOOLEAN :
            /\ Awaits(p) /\ OutcomeFor(p, usable) # "none"
            /\ recorder' = [p |-> p, result |-> OutcomeFor(p, usable)]
            /\ UNCHANGED <<outcome, failures>>
      BY <2>3 DEF RecordRead, bounds
    <3>2. OutcomeFor(p, usable) \in Life!Result
      BY OutcomeForType
    <3>. QED
      BY <1>2, <3>1, <3>2 DEF Awaits, RecordsApplied, LoopInv, DecisionTypeOK, table
  <2>. QED
    BY <2>1, <2>2, <2>3
<1>4. DecisionTypeOK'
  BY <1>2, <1>3 DEF LoopInv, DecisionTypeOK, table, load
<1>5. OneDecides' /\ MadeOnlyAccepted'
  BY <1>2 DEF LoopInv, OneDecides, MadeOnlyAccepted, Claimed, table
<1>. QED
  BY <1>3, <1>4, <1>5 DEF LoopInv

LEMMA LoopStep == LoopInv /\ [LoopNext]_loopVars => LoopInv'
<1>. SUFFICES ASSUME LoopInv, [LoopNext]_loopVars PROVE LoopInv'
  OBVIOUS
<1>1. CASE \E a \in Advisors : SubmitRead(a) \/ SubmitWrite(a) \/ SubmitFails(a)
  BY <1>1, SubmitStep
<1>2. CASE \E d \in Deciders : RejectRead(d) \/ AcceptRead(d) \/ DeciderStep(d) \/ DeciderFails(d)
  BY <1>2, ReadStep, ClaimStep, ApplyStep, FinishStep, DeciderFailsStep DEF DeciderStep
<1>3. CASE \E p \in Ids : ExpiryPasses(p) \/ GiveUpPasses(p) \/ RecordRead(p)
  BY <1>3, MeanwhileStep, RecordStep
<1>4. CASE ListProposals
  <2>1. DecisionTypeOK'
    BY <1>4, ExpireType DEF ListProposals, LoopInv, DecisionTypeOK, handlers, load, bounds
  <2>. QED
    BY <1>4, <2>1, ExpireInv DEF ListProposals, handlers, Claimed
<1>5. CASE ManualChange \/ Revoke \/ ConfigSent \/ ConfigNamed \/ Reconnects \/ WindowFills
  BY <1>5, MeanwhileStep
<1>6. CASE Restart
  BY <1>6, RestartStep
<1>7. CASE RecordWrite \/ RecordFails
  BY <1>7, RecordStep
<1>8. CASE UNCHANGED loopVars
  <2>1. DecisionTypeOK'
    BY <1>8 DEF loopVars, table, handlers, load, bounds, LoopInv, DecisionTypeOK
  <2>. QED
    BY <1>8, <2>1, ProposalsAlone DEF loopVars, table, handlers
<1>. QED
  BY <1>1, <1>2, <1>3, <1>4, <1>5, <1>6, <1>7, <1>8 DEF LoopNext

\* The invariant of the decision loop holds for any number of proposals and handlers.
THEOREM LoopInvariant == LoopSpec => []LoopInv
BY LoopStarts, LoopStep, PTL DEF LoopSpec

\* Of two people accepting a proposal at once, one wins.
THEOREM OnlyOneDecides == LoopSpec => []OneDecides
<1>1. LoopInv => OneDecides
  BY DEF LoopInv
<1>. QED
  BY LoopInvariant, <1>1, PTL

-----------------------------------------------------------------------------
\* Every step is one of ProposalLife's, or changes nothing of it.

LEMMA ExpireImplements ==
  ASSUME ExpireDue, UNCHANGED <<made, outcome>>
  PROVE  Life!LifeNext
<1>1. Late \in SUBSET Ids /\ \A p \in Late : status[p] = "pending"
  BY DEF Late
<1>2. Life!Expire(Late)
  BY <1>1 DEF ExpireDue, StatusNow, Life!Expire
<1>. QED
  BY <1>1, <1>2 DEF Life!LifeNext

LEMMA HandlerImplements ==
  ASSUME LoopInv, NEW d \in Deciders, DeciderStep(d)
  PROVE  Life!LifeNext \/ UNCHANGED Life!lifeVars
<1> DEFINE p == decider[d].p
<1>1. decider[d].at # "idle" /\ p \in Ids
  BY DEF DeciderStep, AcceptClaim, ApplyRead, ApplyWrite, Finish, RejectWrite, LoopInv, DecisionTypeOK
<1>2. CASE AcceptClaim(d) \/ RejectWrite(d)
  <2>1. CASE MayMove(p, {"pending"})
    <3>1. PICK to \in {"accepted", "rejected"} : Moved(p, to) /\ UNCHANGED <<made, outcome>>
      BY <1>2, <2>1 DEF AcceptClaim, RejectWrite
    <3>2. Life!Decide(p, to)
      BY <2>1, <3>1 DEF Moved, MayMove, Life!Decide
    <3>. QED
      BY <1>1, <3>2 DEF Life!LifeNext
  <2>2. CASE ~MayMove(p, {"pending"})
    BY <1>2, <2>2 DEF AcceptClaim, RejectWrite, table, Life!lifeVars
  <2>. QED
    BY <2>1, <2>2
<1>3. CASE ApplyRead(d)
  BY <1>3 DEF ApplyRead, table, Life!lifeVars
<1>4. CASE ApplyWrite(d)
  <2>1. status[p] = "accepted" /\ p \notin made
    BY <1>4 DEF ApplyWrite, LoopInv, OneDecides, MadeOnlyAccepted, Claimed
  <2>2. UNCHANGED <<status, outcome>> /\ made' \in {made, made \cup {p}}
    BY <1>4 DEF ApplyWrite, table
  <2>3. CASE made' = made \cup {p}
    <3>1. Life!Make(p)
      BY <2>1, <2>2, <2>3 DEF Life!Make
    <3>. QED
      BY <1>1, <3>1 DEF Life!LifeNext
  <2>4. CASE made' = made
    BY <2>2, <2>4 DEF Life!lifeVars
  <2>. QED
    BY <2>2, <2>3, <2>4
<1>5. CASE Finish(d)
  <2>1. status[p] = "accepted" /\ Moved(p, Verdict(d)) /\ UNCHANGED <<made, outcome>>
    BY <1>5 DEF Finish, LoopInv, OneDecides, MayMove, Claimed
  <2>2. decider[d].at = "done" => Life!Apply(p)
    BY <2>1 DEF Verdict, Moved, Life!Apply
  <2>3. decider[d].at = "refused" => Life!Fail(p)
    BY <2>1 DEF Verdict, Moved, Life!Fail, LoopInv, MadeOnlyAccepted
  <2>. QED
    BY <1>1, <1>5, <2>2, <2>3 DEF Finish, Life!LifeNext
<1>. QED
  BY <1>2, <1>3, <1>4, <1>5 DEF DeciderStep

LEMMA StepImplements == LoopInv /\ [LoopNext]_loopVars => [Life!LifeNext]_(Life!lifeVars)
<1>. SUFFICES ASSUME LoopInv, [LoopNext]_loopVars
              PROVE  Life!LifeNext \/ UNCHANGED Life!lifeVars
  OBVIOUS
<1>1. CASE \E a \in Advisors : SubmitRead(a)
  BY <1>1, ExpireImplements DEF SubmitRead
<1>2. CASE \E a \in Advisors : SubmitWrite(a)
  <2>1. PICK p \in Ids : Life!Submit(p)
    BY <1>2 DEF SubmitWrite, Life!Submit
  <2>. QED
    BY <2>1 DEF Life!LifeNext
<1>3. CASE \E a \in Advisors : SubmitFails(a)
  BY <1>3 DEF SubmitFails, table, Life!lifeVars
<1>4. CASE \E d \in Deciders : RejectRead(d) \/ AcceptRead(d)
  BY <1>4, ExpireImplements DEF RejectRead, AcceptRead
<1>5. CASE \E d \in Deciders : DeciderStep(d)
  BY <1>5, HandlerImplements
<1>6. CASE \E d \in Deciders : DeciderFails(d)
  BY <1>6 DEF DeciderFails, table, Life!lifeVars
<1>7. CASE ListProposals
  BY <1>7, ExpireImplements DEF ListProposals
<1>8. CASE RecordWrite
  <2>1. recorder.p \in Ids /\ status[recorder.p] = "applied" /\ recorder.result # "none"
        /\ recorder.result \in Life!Result
    BY <1>8 DEF RecordWrite, LoopInv, RecordsApplied, DecisionTypeOK
  <2>2. UNCHANGED <<status, made>>
        /\ outcome' = [outcome EXCEPT ![recorder.p] = IF @ = "none" THEN recorder.result ELSE @]
    BY <1>8 DEF RecordWrite, table
  <2>3. CASE outcome[recorder.p] = "none"
    <3>1. Life!Record(recorder.p, recorder.result)
      BY <2>1, <2>2, <2>3 DEF Life!Record
    <3>. QED
      BY <2>1, <3>1 DEF Life!LifeNext
  <2>4. CASE outcome[recorder.p] # "none"
    <3>1. UNCHANGED outcome
      BY <2>1, <2>2, <2>4 DEF LoopInv, DecisionTypeOK
    <3>. QED
      BY <2>2, <3>1 DEF Life!lifeVars
  <2>. QED
    BY <2>3, <2>4
<1>9. CASE \/ ManualChange \/ Revoke \/ ConfigSent \/ ConfigNamed \/ Reconnects \/ Restart
           \/ WindowFills \/ RecordFails
           \/ \E p \in Ids : ExpiryPasses(p) \/ GiveUpPasses(p) \/ RecordRead(p)
  BY <1>9 DEF ManualChange, Revoke, ConfigSent, ConfigNamed, Reconnects, Restart, WindowFills,
              RecordFails, ExpiryPasses, GiveUpPasses, RecordRead, table, Life!lifeVars
<1>10. CASE UNCHANGED loopVars
  BY <1>10 DEF loopVars, table, Life!lifeVars
<1>. QED
  BY <1>1, <1>2, <1>3, <1>4, <1>5, <1>6, <1>7, <1>8, <1>9, <1>10 DEF LoopNext

\* The decision loop implements ProposalLife, for any number of proposals and handlers: a proposal
\* is decided once, made at most once and only when accepted, and nothing is made of one that
\* ends rejected, expired or failed.
THEOREM LoopImplementsLife == LoopSpec => ImplementsProposalLife
<1>1. LoopInit => Life!LifeInit
  BY DEF LoopInit, Life!LifeInit
<1>. QED
  BY <1>1, StepImplements, LoopInvariant, PTL DEF LoopSpec, ImplementsProposalLife, Life!LifeSpec
=============================================================================
