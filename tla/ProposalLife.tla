---------------------------- MODULE ProposalLife ----------------------------
(***************************************************************************)
(* What the decision loop promises of the proposals that advisors submit,  *)
(* without saying how: each is decided at most once, only one that a       *)
(* person accepted changes anything, and at most once; one that ends       *)
(* rejected, expired or failed has changed nothing; only an applied one    *)
(* has an outcome, which stays.  DecisionLoop implements this.             *)
(***************************************************************************)
CONSTANT Ids        \* every proposal that may ever be submitted

VARIABLES status,   \* where each is in its life
          made,     \* those whose change was made
          outcome   \* what each led to

lifeVars == <<status, made, outcome>>

Status == {"none", "pending", "accepted", "rejected", "expired", "applied", "failed"}
Result == {"none", "measured", "unconfirmed", "no_data"}

LifeInit ==
  /\ status = [p \in Ids |-> "none"]
  /\ made = {}
  /\ outcome = [p \in Ids |-> "none"]

Submit(p) ==
  /\ status[p] = "none"
  /\ status' = [status EXCEPT ![p] = "pending"]
  /\ UNCHANGED <<made, outcome>>

Decide(p, to) ==
  /\ status[p] = "pending"
  /\ status' = [status EXCEPT ![p] = to]
  /\ UNCHANGED <<made, outcome>>

\* All that nobody decided in time expire together.
Expire(late) ==
  /\ \A p \in late : status[p] = "pending"
  /\ status' = [p \in Ids |-> IF p \in late THEN "expired" ELSE status[p]]
  /\ UNCHANGED <<made, outcome>>

Make(p) ==
  /\ status[p] = "accepted" /\ p \notin made
  /\ made' = made \cup {p}
  /\ UNCHANGED <<status, outcome>>

\* It was made, or there was nothing left to change.
Apply(p) ==
  /\ status[p] = "accepted"
  /\ status' = [status EXCEPT ![p] = "applied"]
  /\ UNCHANGED <<made, outcome>>

Fail(p) ==
  /\ status[p] = "accepted" /\ p \notin made
  /\ status' = [status EXCEPT ![p] = "failed"]
  /\ UNCHANGED <<made, outcome>>

Record(p, result) ==
  /\ status[p] = "applied" /\ outcome[p] = "none"
  /\ outcome' = [outcome EXCEPT ![p] = result]
  /\ UNCHANGED <<status, made>>

LifeNext ==
  \/ \E p \in Ids :
       \/ Submit(p) \/ Make(p) \/ Apply(p) \/ Fail(p)
       \/ \E to \in {"accepted", "rejected"} : Decide(p, to)
       \/ \E result \in Result \ {"none"} : Record(p, result)
  \/ \E late \in SUBSET Ids : Expire(late)

LifeSpec == LifeInit /\ [][LifeNext]_lifeVars
=============================================================================
