--------------------------- MODULE HubAccessProof ---------------------------
(***************************************************************************)
(* The safety properties of HubAccess, for any facts, tiers and number of  *)
(* changes at the same time.                                               *)
(*                                                                         *)
(* WithinGrant is not inductive: a change, a connection and a message      *)
(* carry what they have read, and a save carries a picture.  GrantInv says *)
(* the same of all of these.                                               *)
(***************************************************************************)
EXTENDS HubAccess, TLAPS

\* A tier within the grant covers only facts within it; the lowest tier is within any grant.
LEMMA CoveredGranted == ASSUME NEW t \in Grantable PROVE Covered(t) \subseteq Granted
  BY AccessAssumption DEF Covered, Granted, Grantable, Tiers

LEMMA LowestGranted == 0 \in Grantable
  BY AccessAssumption DEF Grantable, Tiers

\* What a handler is when it has nothing in hand.
LEMMA AtRest ==
  /\ Away \in StreamState /\ Open \in StreamState
  /\ Idle \in SetterState
  /\ NoLookup \in [busy : BOOLEAN, read : Overrides]
<1>. 0 \in Tiers /\ {} \in Overrides
  BY AccessAssumption DEF Tiers, Overrides
<1>. QED
  BY DEF Away, Open, Idle, NoLookup, StreamState, SetterState

\* The bounds are kept.
LEMMA CountsStay ==
  ASSUME AccessTypeOK, Changed \/ Failed
  PROVE  changes' \in 0 .. MaxChanges /\ failures' \in 0 .. MaxFailures
  BY AccessAssumption DEF AccessTypeOK, Changed, Failed

\* The server starts with a tier within the grant and holds nothing.
LEMMA GrantStarts == AccessInit => GrantInv
<1>. SUFFICES ASSUME AccessInit PROVE GrantInv
  OBVIOUS
<1>1. 0 \in Tiers /\ MaxTier \in Tiers /\ MaxTier + 1 \in Installs /\ {} \in Overrides
  BY AccessAssumption DEF Tiers, Installs, Overrides
<1>2. AccessTypeOK
  <2>1. stream \in StreamState /\ setter \in [Setters -> SetterState]
        /\ lookup \in [Lookups -> [busy : BOOLEAN, read : Overrides]]
    BY AtRest DEF AccessInit
  <2>2. row \in [tier : Tiers, ceiling : Tiers] /\ install \in Installs
    BY <1>1, AccessAssumption DEF AccessInit
  <2>3. changes \in 0 .. MaxChanges /\ failures \in 0 .. MaxFailures
    BY AccessAssumption DEF AccessInit
  <2>. QED  BY <1>1, <2>1, <2>2, <2>3 DEF AccessInit, AccessTypeOK
<1>3. WithinGrant /\ CarriedGrant
  BY LowestGranted, AccessAssumption DEF AccessInit, WithinGrant, CarriedGrant, Grantable, Away,
     Idle
<1>. QED  BY <1>2, <1>3 DEF GrantInv

\* No load of the overrides disturbs the invariant.
LEMMA LookupStep ==
  ASSUME GrantInv, NEW l \in Lookups,
         EnsureRead(l) \/ EnsureStore(l)
  PROVE  GrantInv'
<1>. USE DEF GrantInv, picture, bounds, overrides
<1>1. AccessTypeOK /\ WithinGrant /\ CarriedGrant /\ 0 \in Tiers /\ {} \in Overrides
  BY LowestGranted DEF Grantable, Overrides
<1>2. CASE EnsureRead(l)
  <2>1. AccessTypeOK'
    BY <1>1, <1>2 DEF AccessTypeOK, EnsureRead
  <2>2. WithinGrant' /\ CarriedGrant'
    BY <1>1, <1>2 DEF AccessTypeOK, WithinGrant, CarriedGrant, EnsureRead
  <2>. QED  BY <2>1, <2>2
<1>3. CASE EnsureStore(l)
  <2>1. AccessTypeOK'
    BY <1>1, <1>3, AtRest DEF AccessTypeOK, EnsureStore, NoLookup
  <2>2. WithinGrant' /\ CarriedGrant'
    BY <1>1, <1>3 DEF AccessTypeOK, WithinGrant, CarriedGrant, EnsureStore
  <2>. QED  BY <2>1, <2>2
<1>. QED  BY <1>2, <1>3

\* No step of SetAgentTier or SetConsent does.
LEMMA SetterStep ==
  ASSUME GrantInv, NEW s \in Setters,
         TierRead(s) \/ ConsentRead(s) \/ Setting(s) \/ SetterFails(s)
  PROVE  GrantInv'
<1>. USE DEF GrantInv, picture, bounds, overrides
<1>1. AccessTypeOK /\ WithinGrant /\ CarriedGrant /\ 0 \in Tiers /\ {} \in Overrides
  BY LowestGranted DEF Grantable, Overrides
<1>2. CASE TierRead(s)
  <2>1. PICK tier \in Tiers, admin \in BOOLEAN :
          /\ CheckTier(tier)
          /\ setter' = [setter EXCEPT ![s] = [Idle EXCEPT !.at = "tier", !.admin = admin, !.tier = tier,
                                                          !.narrows = tier < row.tier]]
    BY <1>2 DEF TierRead
  <2>. DEFINE new == [Idle EXCEPT !.at = "tier", !.admin = admin, !.tier = tier,
                                  !.narrows = tier < row.tier]
  <2>2. new \in SetterState /\ new.tier = tier
    <3>1. (tier < row.tier) \in BOOLEAN
      OBVIOUS
    <3>2. \A b \in BOOLEAN : [Idle EXCEPT !.at = "tier", !.admin = admin, !.tier = tier, !.narrows = b] \in SetterState
      BY <1>1 DEF Idle, SetterState
    <3>. QED  BY <3>1, <3>2 DEF Idle
  <2>3. tier \in Grantable
    BY <2>1 DEF CheckTier, CheckTierNoToken, Grantable
  <2>. HIDE DEF new
  <2>4. setter' = [setter EXCEPT ![s] = new]
    BY <2>1 DEF new
  <2>5. AccessTypeOK'
    BY <1>1, <1>2, <2>2, <2>4, CountsStay DEF AccessTypeOK, TierRead
  <2>6. WithinGrant' /\ CarriedGrant'
    BY <1>1, <1>2, <2>2, <2>3, <2>4 DEF AccessTypeOK, WithinGrant, CarriedGrant, TierRead
  <2>. QED  BY <2>5, <2>6
<1>3. CASE ConsentRead(s)
  <2>1. PICK left \in Overrides, admin \in BOOLEAN :
          setter' = [setter EXCEPT ![s] = [Idle EXCEPT !.at = "save", !.admin = admin, !.left = left,
                                                       !.narrows = ~(left \subseteq asked)]]
    BY <1>3 DEF ConsentRead
  <2>. DEFINE new == [Idle EXCEPT !.at = "save", !.admin = admin, !.left = left,
                                  !.narrows = ~(left \subseteq asked)]
  <2>2. new \in SetterState /\ new.tier = 0
    BY <1>1 DEF Idle, SetterState
  <2>. HIDE DEF new
  <2>3. setter' = [setter EXCEPT ![s] = new]
    BY <2>1 DEF new
  <2>4. AccessTypeOK'
    BY <1>1, <1>3, <2>2, <2>3, CountsStay DEF AccessTypeOK, ConsentRead
  <2>5. WithinGrant' /\ CarriedGrant'
    BY <1>1, <1>3, <2>2, <2>3, LowestGranted DEF AccessTypeOK, WithinGrant, CarriedGrant,
       ConsentRead
  <2>. QED  BY <2>4, <2>5
<1>4. CASE TierWrite(s)
  <2>1. AccessTypeOK'
    BY <1>1, <1>4, AtRest DEF AccessTypeOK, SetterState, TierWrite, Idle
  <2>2. WithinGrant' /\ CarriedGrant'
    BY <1>1, <1>4, LowestGranted DEF AccessTypeOK, SetterState, WithinGrant, CarriedGrant,
       TierWrite, Idle
  <2>. QED  BY <2>1, <2>2
<1>5. CASE TierNarrows(s)
  <2>1. AccessTypeOK'
    BY <1>1, <1>5, AtRest DEF AccessTypeOK, SetterState, TierNarrows, Idle
  <2>2. WithinGrant' /\ CarriedGrant'
    BY <1>1, <1>5, LowestGranted DEF AccessTypeOK, SetterState, WithinGrant, CarriedGrant,
       TierNarrows, Idle
  <2>. QED  BY <2>1, <2>2
<1>6. CASE ConsentSave(s)
  <2>1. AccessTypeOK'
    BY <1>1, <1>6 DEF AccessTypeOK, SetterState, ConsentSave
  <2>2. WithinGrant' /\ CarriedGrant'
    BY <1>1, <1>6 DEF AccessTypeOK, SetterState, WithinGrant, CarriedGrant, ConsentSave
  <2>. QED  BY <2>1, <2>2
<1>7. CASE ConsentPut(s)
  <2>1. AccessTypeOK'
    BY <1>1, <1>7, AtRest DEF AccessTypeOK, SetterState, ConsentPut, Idle
  <2>2. WithinGrant' /\ CarriedGrant'
    BY <1>1, <1>7, LowestGranted DEF AccessTypeOK, SetterState, WithinGrant, CarriedGrant,
       ConsentPut, Idle
  <2>. QED  BY <2>1, <2>2
<1>8. CASE ConsentNarrows(s)
  <2>1. AccessTypeOK'
    BY <1>1, <1>8, AtRest DEF AccessTypeOK, SetterState, ConsentNarrows, Idle
  <2>2. WithinGrant' /\ CarriedGrant'
    BY <1>1, <1>8, LowestGranted DEF AccessTypeOK, SetterState, WithinGrant, CarriedGrant,
       ConsentNarrows, Idle
  <2>. QED  BY <2>1, <2>2
<1>9. CASE SetterFails(s)
  <2>1. AccessTypeOK'
    BY <1>1, <1>9, CountsStay, AtRest DEF AccessTypeOK, SetterState, SetterFails, Idle
  <2>2. WithinGrant' /\ CarriedGrant'
    BY <1>1, <1>9, LowestGranted DEF AccessTypeOK, SetterState, WithinGrant, CarriedGrant,
       SetterFails, Failed, Idle
  <2>. QED  BY <2>1, <2>2
<1>. QED  BY <1>2, <1>3, <1>4, <1>5, <1>6, <1>7, <1>8, <1>9 DEF Setting

\* No step of a connection up to its Config does.
LEMMA ConnectStep ==
  ASSUME GrantInv,
         Dial \/ Recheck \/ RecordCeiling \/ FollowCeiling \/ CeilingNarrows \/ NoteFails
  PROVE  GrantInv'
<1>. USE DEF GrantInv, picture, bounds, overrides
<1>1. AccessTypeOK /\ WithinGrant /\ CarriedGrant /\ 0 \in Tiers /\ {} \in Overrides
  BY LowestGranted DEF Grantable, Overrides
<1>2. CASE Dial
  <2>0. ReportedTier(install) \in Tiers
    BY <1>1, AccessAssumption DEF AccessTypeOK, ReportedTier, Installs, Tiers
  <2>1. AccessTypeOK'
    BY <1>1, <1>2, <2>0, AtRest DEF AccessTypeOK, StreamState, Dial, Away
  <2>2. WithinGrant' /\ CarriedGrant'
    BY <1>1, <1>2, LowestGranted DEF AccessTypeOK, StreamState, WithinGrant, CarriedGrant, Dial,
       Away
  <2>. QED  BY <2>1, <2>2
<1>3. CASE Recheck
  <2>0. stream' \in StreamState
    <3>. DEFINE st == [stream EXCEPT !.tier = row.tier, !.news = stream.said # row.ceiling]
    <3>1. st \in StreamState /\ [st EXCEPT !.at = "noting"] \in StreamState
      BY <1>1 DEF AccessTypeOK, StreamState
    <3>2. Following(st) \in StreamState
      BY <3>1, AtRest DEF Following, StreamState
    <3>. QED  BY <1>3, <3>1, <3>2 DEF Recheck
  <2>1. AccessTypeOK'
    BY <1>1, <1>3, <2>0 DEF AccessTypeOK, Recheck
  <2>2. WithinGrant' /\ CarriedGrant'
    BY <1>1, <1>3, LowestGranted DEF AccessTypeOK, StreamState, WithinGrant, CarriedGrant,
       Recheck, Following, Away, Open
  <2>. QED  BY <2>1, <2>2
<1>4. CASE RecordCeiling
  <2>1. AccessTypeOK'
    BY <1>1, <1>4, AtRest DEF AccessTypeOK, StreamState, RecordCeiling, Following, Away, Open
  <2>2. WithinGrant' /\ CarriedGrant'
    BY <1>1, <1>4, LowestGranted DEF AccessTypeOK, StreamState, WithinGrant, CarriedGrant,
       RecordCeiling, Following, Away, Open
  <2>. QED  BY <2>1, <2>2
<1>5. CASE FollowCeiling
  <2>1. AccessTypeOK'
    BY <1>1, <1>5 DEF AccessTypeOK, StreamState, FollowCeiling
  <2>2. WithinGrant' /\ CarriedGrant'
    BY <1>1, <1>5, AccessAssumption DEF AccessTypeOK, StreamState, WithinGrant, CarriedGrant,
       FollowCeiling, Grantable, Tiers
  <2>. QED  BY <2>1, <2>2
<1>6. CASE CeilingNarrows
  <2>1. AccessTypeOK'
    BY <1>1, <1>6, AtRest DEF AccessTypeOK, StreamState, CeilingNarrows, Away, Open
  <2>2. WithinGrant' /\ CarriedGrant'
    BY <1>1, <1>6, LowestGranted DEF AccessTypeOK, StreamState, WithinGrant, CarriedGrant,
       CeilingNarrows, Away, Open
  <2>. QED  BY <2>1, <2>2
<1>7. CASE NoteFails
  <2>1. AccessTypeOK'
    BY <1>1, <1>7, CountsStay, AtRest DEF AccessTypeOK, StreamState, NoteFails, Away, Open
  <2>2. WithinGrant' /\ CarriedGrant'
    BY <1>1, <1>7, LowestGranted DEF AccessTypeOK, StreamState, WithinGrant, CarriedGrant,
       NoteFails, Failed, Away, Open
  <2>. QED  BY <2>1, <2>2
<1>. QED  BY <1>2, <1>3, <1>4, <1>5, <1>6, <1>7

\* No message, no save and no end of a stream does.
LEMMA MessageStep ==
  ASSUME GrantInv,
         \/ TakeSync \/ CutOverrides \/ Apply
         \/ PersistTake \/ PersistSkip \/ PersistSave \/ SaveFails
         \/ Leave \/ Breaks
  PROVE  GrantInv'
<1>. USE DEF GrantInv, picture, bounds, overrides
<1>1. AccessTypeOK /\ WithinGrant /\ CarriedGrant /\ 0 \in Tiers /\ {} \in Overrides
  BY LowestGranted DEF Grantable, Overrides
<1>2. CASE TakeSync
  <2>1. PICK facts \in SUBSET Facts, full \in BOOLEAN :
          stream' = [Open EXCEPT !.at = "sync", !.facts = facts \cap Covered(row.tier), !.full = full]
    BY <1>2 DEF TakeSync
  <2>2. Covered(row.tier) \subseteq Granted
    BY <1>1, CoveredGranted DEF WithinGrant
  <2>3. stream' \in StreamState /\ stream'.tier = 0 /\ stream'.at = "sync" /\ stream'.facts \subseteq Granted
    BY <1>1, <2>1, <2>2 DEF StreamState, Open, Away
  <2>4. AccessTypeOK'
    BY <1>1, <1>2, <2>3 DEF AccessTypeOK, TakeSync
  <2>5. WithinGrant' /\ CarriedGrant'
    BY <1>1, <1>2, <2>3, LowestGranted DEF WithinGrant, CarriedGrant, TakeSync
  <2>. QED  BY <2>4, <2>5
<1>3. CASE CutOverrides
  <2>1. AccessTypeOK'
    BY <1>1, <1>3 DEF AccessTypeOK, StreamState, CutOverrides
  <2>2. WithinGrant' /\ CarriedGrant'
    BY <1>1, <1>3 DEF AccessTypeOK, StreamState, WithinGrant, CarriedGrant, CutOverrides
  <2>. QED  BY <2>1, <2>2
<1>4. CASE Apply
  <2>1. AccessTypeOK'
    BY <1>1, <1>4 DEF AccessTypeOK, StreamState, Apply
  <2>2. WithinGrant' /\ CarriedGrant'
    BY <1>1, <1>4 DEF AccessTypeOK, StreamState, WithinGrant, CarriedGrant, Apply
  <2>. QED  BY <2>1, <2>2
<1>5. CASE PersistTake
  <2>1. AccessTypeOK'
    BY <1>1, <1>5, AtRest DEF AccessTypeOK, StreamState, PersistTake, Away, Open
  <2>2. WithinGrant' /\ CarriedGrant'
    BY <1>1, <1>5, LowestGranted DEF AccessTypeOK, StreamState, WithinGrant, CarriedGrant,
       PersistTake, Away, Open
  <2>. QED  BY <2>1, <2>2
<1>6. CASE PersistSkip
  <2>1. AccessTypeOK'
    BY <1>1, <1>6, AtRest DEF AccessTypeOK, StreamState, PersistSkip, Away, Open
  <2>2. WithinGrant' /\ CarriedGrant'
    BY <1>1, <1>6, LowestGranted DEF AccessTypeOK, StreamState, WithinGrant, CarriedGrant,
       PersistSkip, Away, Open
  <2>. QED  BY <2>1, <2>2
<1>7. CASE PersistSave
  <2>1. AccessTypeOK'
    BY <1>1, <1>7, AtRest DEF AccessTypeOK, StreamState, PersistSave, Saved, Away, Open
  <2>2. WithinGrant' /\ CarriedGrant'
    BY <1>1, <1>7, LowestGranted DEF AccessTypeOK, StreamState, WithinGrant, CarriedGrant,
       PersistSave, Saved, Away, Open
  <2>. QED  BY <2>1, <2>2
<1>8. CASE SaveFails
  <2>1. AccessTypeOK'
    BY <1>1, <1>8, CountsStay, AtRest DEF AccessTypeOK, StreamState, SaveFails, Saved, Away, Open
  <2>2. WithinGrant' /\ CarriedGrant'
    BY <1>1, <1>8, LowestGranted DEF AccessTypeOK, StreamState, WithinGrant, CarriedGrant,
       SaveFails, Failed, Saved, Away, Open
  <2>. QED  BY <2>1, <2>2
<1>9. CASE Leave
  <2>1. AccessTypeOK'
    BY <1>1, <1>9, AtRest DEF AccessTypeOK, StreamState, Leave, Away, Open
  <2>2. WithinGrant' /\ CarriedGrant'
    BY <1>1, <1>9, LowestGranted DEF AccessTypeOK, StreamState, WithinGrant, CarriedGrant,
       Leave, Away, Open
  <2>. QED  BY <2>1, <2>2
<1>10. CASE Breaks
  <2>1. AccessTypeOK'
    BY <1>1, <1>10, CountsStay, AtRest DEF AccessTypeOK, StreamState, Breaks, Away, Open
  <2>2. WithinGrant' /\ CarriedGrant'
    BY <1>1, <1>10, LowestGranted DEF AccessTypeOK, StreamState, WithinGrant, CarriedGrant,
       Breaks, Failed, Away, Open
  <2>. QED  BY <2>1, <2>2
<1>. QED  BY <1>2, <1>3, <1>4, <1>5, <1>6, <1>7, <1>8, <1>9, <1>10

\* An upgrade of the install and a restart do not either.
LEMMA OutsideStep ==
  ASSUME GrantInv,
         HelmUpgrade \/ Restart
  PROVE  GrantInv'
<1>. USE DEF GrantInv, picture, bounds, overrides
<1>1. AccessTypeOK /\ WithinGrant /\ CarriedGrant /\ 0 \in Tiers /\ {} \in Overrides
  BY LowestGranted DEF Grantable, Overrides
<1>2. CASE HelmUpgrade
  <2>1. AccessTypeOK'
    BY <1>1, <1>2, CountsStay DEF AccessTypeOK, HelmUpgrade
  <2>2. WithinGrant' /\ CarriedGrant'
    BY <1>1, <1>2 DEF AccessTypeOK, WithinGrant, CarriedGrant, HelmUpgrade, Changed
  <2>. QED  BY <2>1, <2>2
<1>3. CASE Restart
  <2>1. AccessTypeOK'
    BY <1>1, <1>3, CountsStay, AtRest DEF AccessTypeOK, Restart, Away, Idle, NoLookup
  <2>2. WithinGrant' /\ CarriedGrant'
    BY <1>1, <1>3, LowestGranted DEF AccessTypeOK, WithinGrant, CarriedGrant, Restart, Failed,
       Away, Idle
  <2>. QED  BY <2>1, <2>2
<1>. QED  BY <1>2, <1>3

LEMMA GrantStutters == ASSUME GrantInv, UNCHANGED accessVars PROVE GrantInv'
  BY DEF GrantInv, AccessTypeOK, WithinGrant, CarriedGrant, accessVars, picture, bounds, overrides

\* Every step keeps the invariant.
LEMMA GrantStep == GrantInv /\ [AccessNext]_accessVars => GrantInv'
<1>. SUFFICES ASSUME GrantInv, [AccessNext]_accessVars PROVE GrantInv'
  OBVIOUS
<1>. QED
  BY LookupStep, SetterStep, ConnectStep, MessageStep, OutsideStep, GrantStutters
  DEF AccessNext, Streaming

\* Whatever is under way, everything stays within the grant (CheckTier, NoteCeiling, DropAboveTier).
THEOREM GrantAlwaysInv == AccessSpec => []GrantInv
  BY GrantStarts, GrantStep, PTL DEF AccessSpec

\* Every variable keeps its type.
THEOREM AccessTypeCorrect == AccessSpec => []AccessTypeOK
<1>. GrantInv => AccessTypeOK
  BY DEF GrantInv
<1>. QED  BY GrantAlwaysInv, PTL

\* Nothing above the release or the token is ever approved, held or stored.
THEOREM WithinGrantCorrect == AccessSpec => []WithinGrant
<1>. GrantInv => WithinGrant
  BY DEF GrantInv
<1>. QED  BY GrantAlwaysInv, PTL

\* One change at a time: every step keeps what the overrides in memory and in the store agree on.
LEMMA ConsentStep ==
  ASSUME \A s, t \in Setters : s = t,
         AccessTypeOK, ConsentInv, [AccessNext]_accessVars
  PROVE  ConsentInv'
<1>. USE DEF AccessTypeOK, ConsentInv, ConsentAgrees
<1>1. ASSUME NEW l \in Lookups, EnsureRead(l) PROVE ConsentInv'
  BY <1>1 DEF EnsureRead, NoLookup
<1>2. ASSUME NEW l \in Lookups, EnsureStore(l) PROVE ConsentInv'
  BY <1>2 DEF EnsureStore, NoLookup
<1>3. ASSUME NEW s \in Setters, TierRead(s) PROVE ConsentInv'
  BY <1>3 DEF TierRead, overrides, Idle
<1>4. ASSUME NEW s \in Setters, ConsentRead(s) PROVE ConsentInv'
  BY <1>4 DEF ConsentRead, overrides, Idle
<1>5. ASSUME NEW s \in Setters, TierWrite(s) PROVE ConsentInv'
  BY <1>5 DEF TierWrite, SetterState, overrides, Idle
<1>6. ASSUME NEW s \in Setters, TierNarrows(s) PROVE ConsentInv'
  BY <1>6 DEF TierNarrows, SetterState, overrides, Idle
<1>7. ASSUME NEW s \in Setters, ConsentSave(s) PROVE ConsentInv'
  BY <1>7 DEF ConsentSave, SetterState
<1>8. ASSUME NEW s \in Setters, ConsentPut(s) PROVE ConsentInv'
  BY <1>8 DEF ConsentPut, SetterState, Idle
<1>9. ASSUME NEW s \in Setters, ConsentNarrows(s) PROVE ConsentInv'
  BY <1>9 DEF ConsentNarrows, SetterState, overrides, Idle
<1>10. ASSUME NEW s \in Setters, SetterFails(s) PROVE ConsentInv'
  BY <1>10 DEF SetterFails, SetterState, overrides, Idle
<1>11. CASE Restart
  BY <1>11 DEF Restart, Idle, NoLookup
<1>12. CASE UNCHANGED <<overrides, setter>>
  BY <1>12 DEF overrides
<1>13. HelmUpgrade \/ Streaming \/ NoteFails \/ TakeSync \/ SaveFails \/ Leave \/ Breaks
         \/ UNCHANGED accessVars => UNCHANGED <<overrides, setter>>
  BY DEF HelmUpgrade, Streaming, NoteFails, TakeSync, SaveFails, Leave, Breaks, Dial, Recheck,
     RecordCeiling,
         FollowCeiling, CeilingNarrows, CutOverrides, Apply, PersistTake, PersistSkip, PersistSave,
         overrides, accessVars
<1>. QED
  BY <1>1, <1>2, <1>3, <1>4, <1>5, <1>6, <1>7, <1>8, <1>9, <1>10, <1>11, <1>12, <1>13 DEF
     AccessNext, Setting

\* With one change at a time, the overrides that are in force are those that survive a restart
\* (ensureConsent, SetConsent); two at a time may be stored in one order and put in memory in the other.
THEOREM ConsentAgreesCorrect ==
  ASSUME \A s, t \in Setters : s = t
  PROVE  AccessSpec => []ConsentAgrees
<1>1. AccessInit => ConsentInv
  BY DEF AccessInit, ConsentInv, ConsentAgrees, Idle, NoLookup
<1>2. AccessTypeOK /\ ConsentInv /\ [AccessNext]_accessVars => ConsentInv'
  BY ConsentStep
<1>3. ConsentInv => ConsentAgrees
  BY DEF ConsentInv
<1>. QED  BY <1>1, <1>2, <1>3, AccessTypeCorrect, PTL DEF AccessSpec

=============================================================================
