---------------------------- MODULE TenantsProof ----------------------------
(***************************************************************************)
(* The safety properties of Tenants, for any number of callers.            *)
(*                                                                         *)
(* The argument rests on the order of things.  Whoever deletes was handed  *)
(* the tenant first, so while the organisation exists every tenant held by *)
(* anyone is the one in the table (HeldIsEntered), no load is under way    *)
(* next to it, and a load that found the organisation still has it         *)
(* (FoundIsThere).  From the moment it is erased nothing new can come up,  *)
(* and what was up is in the table or in the hands of the one caller that  *)
(* stops it (HubsAreOwned, OneStops).                                      *)
(***************************************************************************)
EXTENDS Tenants, FiniteSetTheorems, TLAPS

\* The table of loads names the callers that load; there is none beside a tenant.
LoadsAreKnown ==
  /\ \A c \in Callers : Loading(c) <=> loading = c
  /\ tenant # None => loading = None

\* A load that found the organisation finds it there until it is finished.
FoundIsThere ==
  \A c \in Callers :
    \/ at[c] = "restoring"
    \/ at[c] = "built" /\ (load[c].err = "none" \/ c \in hubs)
    => org

\* While the organisation exists there is one tenant for everybody.
HeldIsEntered ==
  org => \A c \in Callers :
           /\ at[c] \in Holding => using[c] = tenant
           /\ load[c].done /\ load[c].err = "none" => tenant = c

\* Where a caller is that has not brought the organisation up.
Before == {"idle", "calling", "waiting", "building", "restoring"}

\* Every hub at work is entered, being loaded, or being stopped.
HubsAreOwned ==
  \A h \in hubs :
    /\ at[h] \notin Before
    /\ \/ tenant = h
       \/ at[h] = "built"
       \/ \E d \in Callers : at[d] = "dropping" /\ using[d] = h

\* What is erased is stopped by one caller, after which there is no tenant.
OneStops ==
  /\ BeingDeleted => ~org
  /\ tenant # None /\ ~org => \E d \in Callers : at[d] = "erased"
  /\ \A d, e \in Callers : at[d] = "dropping" /\ at[e] = "dropping" => d = e
  /\ \A d \in Callers : at[d] = "dropping" => tenant = None

\* A stream that serves is within the reach of whoever stops its hub.
ServedIsReached ==
  \A c \in Callers :
    at[c] \in {"serving", "handling"} /\ c \notin ended =>
      \/ tenant = using[c]
      \/ \E d \in Callers : at[d] = "dropping" /\ using[d] = using[c]

\* Only a caller that gave up has a load that was cancelled, or an answer that says so.
CancelledIsOwn ==
  \A c \in Callers : load[c].err = "cancelled" \/ at[c] = "cancelled" => c \in gone

TenantsInv ==
  /\ TenantsTypeOK
  /\ LoadsAreKnown
  /\ FoundIsThere
  /\ HeldIsEntered
  /\ HubsAreOwned
  /\ OneStops
  /\ ServedIsReached
  /\ CancelledIsOwn

-----------------------------------------------------------------------------
\* Steps that leave the platform alone

Busy == {"building", "restoring", "built", "erased", "dropping"}

\* Caller c goes from one place to another, neither of them in a load or a deletion.
QuietStep(c) ==
  /\ UNCHANGED <<org, tenant, loading, load, hubs, ended>>
  /\ \A d \in Callers \ {c} : at'[d] = at[d] /\ using'[d] = using[d]
  /\ gone' = gone
  /\ at[c] \notin Busy /\ at'[c] \notin Busy
  /\ at'[c] \in Before => at[c] \in Before
  /\ at'[c] \in Holding /\ org => using'[c] = tenant
  /\ at'[c] \in {"serving", "handling"} =>
       org \/ (at[c] \in {"serving", "handling"} /\ using'[c] = using[c])
  /\ at'[c] = "cancelled" => c \in gone

\* Such a step keeps the invariant.
LEMMA QuietKeeps ==
  ASSUME TenantsInv, NEW c \in Callers, TenantsTypeOK', QuietStep(c)
  PROVE  TenantsInv'
<1>1. LoadsAreKnown'
  BY DEF TenantsInv, QuietStep, Busy, LoadsAreKnown, Loading
<1>2. FoundIsThere'
  BY DEF TenantsInv, QuietStep, Busy, FoundIsThere
<1>3. HeldIsEntered'
  BY DEF TenantsInv, QuietStep, HeldIsEntered
<1>4. HubsAreOwned'
  <2>1. \A d \in Callers : at[d] = "built" => at'[d] = "built"
    BY DEF QuietStep, Busy
  <2>2. \A d \in Callers : at[d] = "dropping" => at'[d] = "dropping" /\ using'[d] = using[d]
    BY DEF QuietStep, Busy
  <2>3. hubs \subseteq Callers
    BY DEF TenantsInv, TenantsTypeOK
  <2>4. \A h \in hubs : at'[h] \in Before => at[h] \in Before
    BY <2>3 DEF QuietStep
  <2>. QED  BY <2>1, <2>2, <2>3, <2>4 DEF TenantsInv, QuietStep, HubsAreOwned
<1>5. OneStops'
  <2>1. \A d \in Callers : at[d] = "erased" <=> at'[d] = "erased"
    BY DEF QuietStep, Busy
  <2>2. \A d \in Callers : at[d] = "dropping" <=> at'[d] = "dropping"
    BY DEF QuietStep, Busy
  <2>. QED  BY <2>1, <2>2 DEF TenantsInv, QuietStep, OneStops, BeingDeleted
<1>6. ServedIsReached'
  <2>1. \A d \in Callers : at[d] = "dropping" => at'[d] = "dropping" /\ using'[d] = using[d]
    BY DEF QuietStep, Busy
  <2>2. ASSUME NEW d \in Callers, at'[d] \in {"serving", "handling"}, d \notin ended
        PROVE  tenant = using'[d] \/ \E e \in Callers : at[e] = "dropping" /\ using[e] = using'[d]
    <3>1. CASE d = c /\ org
      BY <2>2, <3>1 DEF QuietStep, Holding, Streaming
    <3>2. CASE d # c \/ ~org
      <4>1. at[d] \in {"serving", "handling"} /\ using'[d] = using[d]
        BY <2>2, <3>2 DEF QuietStep
      <4>. QED  BY <2>2, <4>1 DEF TenantsInv, ServedIsReached
    <3>. QED  BY <3>1, <3>2
  <2>. QED  BY <2>1, <2>2 DEF QuietStep, ServedIsReached
<1>7. CancelledIsOwn'
  BY DEF TenantsInv, QuietStep, CancelledIsOwn
<1>. QED
  BY <1>1, <1>2, <1>3, <1>4, <1>5, <1>6, <1>7 DEF TenantsInv

\* Moving a caller from place to place is all that most actions do.
LEMMA MovePointwise ==
  ASSUME TenantsTypeOK, NEW c \in Callers, NEW p \in Place, Goes(c, p)
  PROVE  /\ at' \in [Callers -> Place]
         /\ at'[c] = p
         /\ \A d \in Callers \ {c} : at'[d] = at[d]
BY DEF TenantsTypeOK, Goes

LEMMA HoldPointwise ==
  ASSUME TenantsTypeOK, NEW c \in Callers, NEW t \in Callers \cup {None}, Holds(c, t)
  PROVE  /\ using' \in [Callers -> Callers \cup {None}]
         /\ using'[c] = t
         /\ \A d \in Callers \ {c} : using'[d] = using[d]
BY DEF TenantsTypeOK, Holds

\* The quiet steps of a look-up.
LEMMA QuietLookUp ==
  ASSUME TenantsInv, NEW c \in Callers,
         Call(c) \/ FindTenant(c) \/ JoinLoad(c) \/ Wake(c) \/ StopWaiting(c)
  PROVE  TenantsInv'
<1>. USE DEF Place, LookingUp, Streaming, Deleting, Over
<1>0. TenantsTypeOK
  BY DEF TenantsInv
<1>1. CASE Call(c)
  <2>1. Goes(c, "calling") /\ at[c] = "idle" /\ UNCHANGED <<org, platform, using, gone, streams, kept>>
    BY <1>1 DEF Call
  <2>2. at' \in [Callers -> Place] /\ at'[c] = "calling" /\ \A d \in Callers \ {c} : at'[d] = at[d]
    BY <1>0, <2>1, MovePointwise
  <2>3. TenantsTypeOK'
    BY <1>0, <2>1, <2>2 DEF TenantsTypeOK, platform, streams, Holding
  <2>4. QuietStep(c)
    BY <2>1, <2>2 DEF QuietStep, Busy, Before, Holding, platform, streams
  <2>. QED  BY <2>3, <2>4, QuietKeeps
<1>2. CASE FindTenant(c)
  <2>1. /\ Goes(c, "got") /\ Holds(c, tenant) /\ at[c] = "calling" /\ tenant # None
        /\ UNCHANGED <<org, platform, gone, streams, kept>>
    BY <1>2 DEF FindTenant
  <2>2. at' \in [Callers -> Place] /\ at'[c] = "got" /\ \A d \in Callers \ {c} : at'[d] = at[d]
    BY <1>0, <2>1, MovePointwise
  <2>3. /\ using' \in [Callers -> Callers \cup {None}] /\ using'[c] = tenant
        /\ \A d \in Callers \ {c} : using'[d] = using[d]
    BY <1>0, <2>1, HoldPointwise DEF TenantsTypeOK
  <2>4. TenantsTypeOK'
    BY <1>0, <2>1, <2>2, <2>3 DEF TenantsTypeOK, platform, streams, Holding
  <2>5. QuietStep(c)
    BY <2>1, <2>2, <2>3 DEF QuietStep, Busy, Before, Holding, platform, streams
  <2>. QED  BY <2>4, <2>5, QuietKeeps
<1>3. CASE JoinLoad(c)
  <2>1. /\ Goes(c, "waiting") /\ Holds(c, loading) /\ at[c] = "calling" /\ loading # None
        /\ UNCHANGED <<org, platform, gone, streams, kept>>
    BY <1>3 DEF JoinLoad
  <2>2. at' \in [Callers -> Place] /\ at'[c] = "waiting" /\ \A d \in Callers \ {c} : at'[d] = at[d]
    BY <1>0, <2>1, MovePointwise
  <2>3. /\ using' \in [Callers -> Callers \cup {None}] /\ using'[c] = loading
        /\ \A d \in Callers \ {c} : using'[d] = using[d]
    BY <1>0, <2>1, HoldPointwise DEF TenantsTypeOK
  <2>4. TenantsTypeOK'
    BY <1>0, <2>1, <2>2, <2>3 DEF TenantsTypeOK, platform, streams, Holding
  <2>5. QuietStep(c)
    BY <2>1, <2>2, <2>3 DEF QuietStep, Busy, Before, Holding, platform, streams
  <2>. QED  BY <2>4, <2>5, QuietKeeps
<1>4. CASE Wake(c) \/ StopWaiting(c)
  <2>1. PICK p \in {"got", "calling", "cancelled", "refused"} :
          /\ Goes(c, p) /\ at[c] = "waiting"
          /\ p = "got" => load[using[c]].done /\ load[using[c]].err = "none"
          /\ p = "cancelled" => c \in gone
          /\ UNCHANGED <<org, platform, using, gone, streams, kept>>
    BY <1>4 DEF Wake, StopWaiting, TriesAgain
  <2>2. at' \in [Callers -> Place] /\ at'[c] = p /\ \A d \in Callers \ {c} : at'[d] = at[d]
    BY <1>0, <2>1, MovePointwise
  <2>3. using[c] # None /\ using[c] \in Callers
    BY <1>0, <2>1 DEF TenantsTypeOK
  <2>4. TenantsTypeOK'
    BY <1>0, <2>1, <2>2, <2>3 DEF TenantsTypeOK, platform, streams, Holding
  <2>5. p = "got" /\ org => using[c] = tenant
    BY <2>1, <2>3 DEF TenantsInv, HeldIsEntered
  <2>6. QuietStep(c)
    BY <2>1, <2>2, <2>5 DEF QuietStep, Busy, Before, Holding, platform, streams
  <2>. QED  BY <2>4, <2>6, QuietKeeps
<1>. QED  BY <1>1, <1>2, <1>3, <1>4

\* What a caller does with the tenant it was handed, short of the deletion itself.
LEMMA QuietUse ==
  ASSUME TenantsInv, NEW c \in Callers,
         StreamStep(c) \/ Confirm(c) \/ Answer(c) \/ (Erase(c) /\ at'[c] = "refused")
  PROVE  TenantsInv'
<1>. USE DEF Place, LookingUp, Streaming, Deleting, Over
<1>0. TenantsTypeOK
  BY DEF TenantsInv
<1>1. PICK p \in {"registered", "serving", "leaving", "handling", "over", "confirmed", "refused"} :
        /\ Goes(c, p)
        /\ at[c] \in Holding
        /\ p \in {"serving", "handling"} => org \/ at[c] \in {"serving", "handling"}
        /\ UNCHANGED <<org, platform, using, gone, ended>>
        /\ dirty' \subseteq dirty \cup {c}
        /\ kept' \in BOOLEAN
  <2>1. CASE Register(c) \/ Recheck(c) \/ TakeMessage(c)
    BY <1>0, <2>1 DEF Register, Recheck, TakeMessage, AgentIsThere, Holding, streams, TenantsTypeOK
  <2>2. CASE Apply(c) \/ Cleanup(c)
    BY <1>0, <2>2 DEF Apply, Cleanup, Holding, TenantsTypeOK
  <2>3. CASE TakeEnd(c) \/ Fails(c)
    BY <1>0, <2>3 DEF TakeEnd, Fails, Holding, streams, TenantsTypeOK
  <2>4. CASE Confirm(c) \/ Answer(c)
    BY <1>0, <2>4 DEF Confirm, Answer, Holding, streams, TenantsTypeOK
  <2>5. CASE Erase(c) /\ at'[c] = "refused"
    <3>1. ~ Goes(c, "erased")
      BY <2>5, <1>0, MovePointwise
    <3>. QED  BY <1>0, <2>5, <3>1 DEF Erase, Holding, streams, TenantsTypeOK
  <2>. QED  BY <2>1, <2>2, <2>3, <2>4, <2>5 DEF StreamStep
<1>2. at' \in [Callers -> Place] /\ at'[c] = p /\ \A d \in Callers \ {c} : at'[d] = at[d]
  BY <1>0, <1>1, MovePointwise
<1>3. using[c] # None
  BY <1>0, <1>1 DEF TenantsTypeOK
<1>4. TenantsTypeOK'
  BY <1>0, <1>1, <1>2, <1>3 DEF TenantsTypeOK, platform, Holding
<1>5. org => using[c] = tenant
  BY <1>1 DEF TenantsInv, HeldIsEntered
<1>6. QuietStep(c)
  BY <1>1, <1>2, <1>5 DEF QuietStep, Busy, Before, Holding, platform
<1>. QED  BY <1>4, <1>6, QuietKeeps

-----------------------------------------------------------------------------
\* The load

\* A caller may give up while it loads or waits.
LEMMA GivingUp ==
  ASSUME TenantsInv, NEW c \in Callers, GiveUp(c)
  PROVE  TenantsInv'
<1>1. TenantsTypeOK'
  BY DEF GiveUp, TenantsInv, TenantsTypeOK, platform, streams, Holding, Streaming
<1>2. LoadsAreKnown' /\ FoundIsThere' /\ HeldIsEntered' /\ HubsAreOwned'
  BY DEF GiveUp, TenantsInv, platform, LoadsAreKnown, Loading, FoundIsThere, HeldIsEntered,
         HubsAreOwned
<1>3. OneStops' /\ ServedIsReached' /\ CancelledIsOwn'
  BY DEF GiveUp, TenantsInv, platform, streams, OneStops, BeingDeleted, ServedIsReached,
         CancelledIsOwn
<1>. QED  BY <1>1, <1>2, <1>3 DEF TenantsInv

\* What the steps of a load before its end have in common: c goes on with its own load.
LoadStep(c) ==
  /\ UNCHANGED <<org, tenant, using, gone, ended, dirty, kept>>
  /\ at[c] \in {"calling", "building", "restoring"}
  /\ at'[c] \in {"building", "restoring", "built"}
  /\ at' \in [Callers -> Place]
  /\ \A d \in Callers \ {c} : at'[d] = at[d]
  /\ \A d \in Callers : load'[d].done = load[d].done
  /\ \A d \in Callers \ {c} : load'[d].err = load[d].err
  /\ load'[c].err = "none" => load[c].err = "none"
  /\ load'[c].err = "cancelled" => c \in gone
  /\ hubs' \in {hubs, hubs \cup {c}}
  /\ hubs' # hubs => at'[c] = "built"
  /\ loading' = c /\ tenant = None
  /\ loading = None \/ loading = c
  /\ at'[c] = "restoring" \/ (at'[c] = "built" /\ (load'[c].err = "none" \/ c \in hubs')) => org

\* Nothing is at the disposal of anyone while a load goes on.
LEMMA LoadStepKeeps ==
  ASSUME TenantsInv, NEW c \in Callers, TenantsTypeOK', LoadStep(c)
  PROVE  TenantsInv'
<1>0. TenantsTypeOK /\ TenantsTypeOK'
  BY DEF TenantsInv
<1>1. LoadsAreKnown'
  <2>1. \A d \in Callers \ {c} : ~Loading(d) /\ ~Loading(d)'
    BY CallersAssumption DEF TenantsInv, LoadStep, LoadsAreKnown, Loading
  <2>2. Loading(c)' /\ loading' = c /\ tenant' = None
    BY DEF LoadStep, Loading
  <2>. QED  BY <2>1, <2>2 DEF LoadsAreKnown
<1>2. FoundIsThere'
  <2>1. \A d \in Callers \ {c} : d \in hubs' <=> d \in hubs
    BY DEF LoadStep
  <2>. QED  BY <2>1 DEF TenantsInv, LoadStep, FoundIsThere
<1>3. HeldIsEntered'
  <2>1. \A d \in Callers : at'[d] \in Holding => at[d] \in Holding
    BY DEF LoadStep, Holding, Streaming
  <2>2. \A d \in Callers : load'[d].done /\ load'[d].err = "none" => load[d].done /\ load[d].err = "none"
    <3>1. \A d \in Callers \ {c} : load'[d].done = load[d].done /\ load'[d].err = load[d].err
      BY DEF LoadStep
    <3>2. load'[c].done /\ load'[c].err = "none" => load[c].done /\ load[c].err = "none"
      BY DEF LoadStep
    <3>. QED  BY <3>1, <3>2
  <2>. QED  BY <2>1, <2>2 DEF TenantsInv, LoadStep, HeldIsEntered
<1>4. HubsAreOwned'
  <2>1. \A d \in Callers : at[d] = "built" => at'[d] = "built"
    BY DEF LoadStep
  <2>2. \A d \in Callers : at[d] = "dropping" => at'[d] = "dropping"
    BY DEF LoadStep
  <2>3. \A h \in hubs : h \in Callers /\ h # c
    BY <1>0 DEF TenantsInv, LoadStep, TenantsTypeOK, HubsAreOwned, Before
  <2>4. \A h \in hubs' : (at'[h] = at[h] /\ h \in hubs) \/ (h = c /\ at'[c] = "built")
    BY <2>3 DEF LoadStep
  <2>5. UNCHANGED <<tenant, using>>
    BY DEF LoadStep
  <2>. QED  BY <2>1, <2>2, <2>3, <2>4, <2>5 DEF TenantsInv, HubsAreOwned, Before
<1>5. OneStops'
  <2>1. \A d \in Callers : at[d] = "erased" <=> at'[d] = "erased"
    BY DEF LoadStep
  <2>2. \A d \in Callers : at[d] = "dropping" <=> at'[d] = "dropping"
    BY DEF LoadStep
  <2>. QED  BY <2>1, <2>2 DEF TenantsInv, LoadStep, OneStops, BeingDeleted
<1>6. ServedIsReached'
  <2>1. \A d \in Callers : at'[d] \in {"serving", "handling"} <=> at[d] \in {"serving", "handling"}
    BY DEF LoadStep
  <2>2. \A d \in Callers : at[d] = "dropping" <=> at'[d] = "dropping"
    BY DEF LoadStep
  <2>. QED  BY <2>1, <2>2 DEF TenantsInv, LoadStep, ServedIsReached
<1>7. CancelledIsOwn'
  BY DEF TenantsInv, LoadStep, CancelledIsOwn
<1>. QED
  BY <1>1, <1>2, <1>3, <1>4, <1>5, <1>6, <1>7 DEF TenantsInv

\* Beginning, reading the row and starting the hub are such steps.
LEMMA LoadGoesOn ==
  ASSUME TenantsInv, NEW c \in Callers, BeginLoad(c) \/ ReadOrg(c) \/ StartHub(c)
  PROVE  TenantsInv'
<1>. USE DEF Place, LookingUp, Streaming, Deleting, Over
<1>0. TenantsTypeOK
  BY DEF TenantsInv
<1>1. c # None /\ (Loading(c) => loading = c /\ tenant = None)
  BY CallersAssumption DEF TenantsInv, LoadsAreKnown
<1>2. CASE BeginLoad(c)
  <2>1. /\ Goes(c, "building") /\ at[c] = "calling" /\ loading' = c
        /\ tenant = None /\ loading = None
        /\ UNCHANGED <<org, tenant, load, hubs, using, gone, streams, kept>>
    BY <1>2 DEF BeginLoad, MayLoad
  <2>2. at' \in [Callers -> Place] /\ at'[c] = "building" /\ \A d \in Callers \ {c} : at'[d] = at[d]
    BY <1>0, <2>1, MovePointwise
  <2>3. TenantsTypeOK'
    BY <1>0, <2>1, <2>2 DEF TenantsTypeOK, streams, Holding
  <2>4. load[c].err = "cancelled" => c \in gone
    BY DEF TenantsInv, CancelledIsOwn
  <2>5. LoadStep(c)
    BY <2>1, <2>2, <2>4 DEF LoadStep, streams
  <2>. QED  BY <2>3, <2>5, LoadStepKeeps
<1>3. CASE ReadOrg(c) /\ Goes(c, "restoring")
  <2>1. ~Goes(c, "built")
    BY <1>0, <1>3 DEF Goes, TenantsTypeOK
  <2>2. /\ at[c] = "building" /\ org
        /\ UNCHANGED <<org, tenant, loading, load, hubs, using, gone, streams, kept>>
    BY <1>3, <2>1 DEF ReadOrg
  <2>3. at' \in [Callers -> Place] /\ at'[c] = "restoring" /\ \A d \in Callers \ {c} : at'[d] = at[d]
    BY <1>0, <1>3, MovePointwise
  <2>4. TenantsTypeOK'
    BY <1>0, <2>2, <2>3 DEF TenantsTypeOK, streams, Holding
  <2>5. load[c].err = "cancelled" => c \in gone
    BY DEF TenantsInv, CancelledIsOwn
  <2>6. LoadStep(c)
    BY <1>1, <2>2, <2>3, <2>5 DEF LoadStep, Loading, streams
  <2>. QED  BY <2>4, <2>6, LoadStepKeeps
<1>4. CASE ReadOrg(c) /\ Goes(c, "built")
  <2>1. ~Goes(c, "restoring")
    BY <1>0, <1>4 DEF Goes, TenantsTypeOK
  <2>2. PICK err \in {"not found", "cancelled", "failed"} :
          /\ at[c] = "building"
          /\ err = "cancelled" => c \in gone
          /\ load' = [load EXCEPT ![c].err = err]
          /\ UNCHANGED <<org, tenant, loading, hubs, using, gone, streams, kept>>
    BY <1>4, <2>1 DEF ReadOrg
  <2>3. at' \in [Callers -> Place] /\ at'[c] = "built" /\ \A d \in Callers \ {c} : at'[d] = at[d]
    BY <1>0, <1>4, MovePointwise
  <2>4. /\ load' \in [Callers -> Loads]
        /\ \A d \in Callers \ {c} : load'[d] = load[d]
        /\ load'[c].done = load[c].done /\ load'[c].err = err
    BY <1>0, <2>2 DEF TenantsTypeOK, Loads, Reason
  <2>5. TenantsTypeOK'
    BY <1>0, <2>2, <2>3, <2>4 DEF TenantsTypeOK, streams, Holding
  <2>6. c \notin hubs
    BY <2>2 DEF TenantsInv, HubsAreOwned, Before
  <2>7. LoadStep(c)
    BY <1>1, <2>2, <2>3, <2>4, <2>6 DEF LoadStep, Loading, streams
  <2>. QED  BY <2>5, <2>7, LoadStepKeeps
<1>5. CASE StartHub(c)
  <2>1. /\ Goes(c, "built") /\ at[c] = "restoring" /\ hubs' = hubs \cup {c}
        /\ UNCHANGED <<org, tenant, loading, load, using, gone, streams, kept>>
    BY <1>5 DEF StartHub
  <2>2. at' \in [Callers -> Place] /\ at'[c] = "built" /\ \A d \in Callers \ {c} : at'[d] = at[d]
    BY <1>0, <2>1, MovePointwise
  <2>3. TenantsTypeOK'
    BY <1>0, <2>1, <2>2 DEF TenantsTypeOK, streams, Holding
  <2>4. org /\ (load[c].err = "cancelled" => c \in gone)
    BY <2>1 DEF TenantsInv, FoundIsThere, CancelledIsOwn
  <2>5. LoadStep(c)
    BY <1>1, <2>1, <2>2, <2>4 DEF LoadStep, Loading, streams
  <2>. QED  BY <2>3, <2>5, LoadStepKeeps
<1>. QED  BY <1>2, <1>3, <1>4, <1>5 DEF ReadOrg

\* The end of a load: what was found is entered, or nothing is left of it.
LEMMA LoadEnds ==
  ASSUME TenantsInv, NEW c \in Callers, FinishLoad(c)
  PROVE  TenantsInv'
<1>. USE DEF Place, LookingUp, Streaming, Deleting, Over
<1>0. TenantsTypeOK
  BY DEF TenantsInv
<1>1. c # None /\ at[c] = "built" /\ loading = c /\ tenant = None
  BY CallersAssumption DEF FinishLoad, TenantsInv, LoadsAreKnown, Loading
<1>2. /\ load' \in [Callers -> Loads]
      /\ \A d \in Callers \ {c} : load'[d] = load[d]
      /\ load'[c].done /\ load'[c].err = Outcome(c)
  BY <1>0, ZenonT(40) DEF FinishLoad, Outcome, TenantsTypeOK, Loads, Reason
<1>3. /\ UNCHANGED <<org, gone, ended, dirty, kept>>
      /\ loading' = None
  BY DEF FinishLoad, streams
<1>4. \A d \in Callers \ {c} : ~Loading(d)
  BY <1>1 DEF TenantsInv, LoadsAreKnown
<1>5. Outcome(c) = "cancelled" => c \in gone
  BY DEF Outcome, TenantsInv, CancelledIsOwn
<1>6. CASE Outcome(c) = "none"
  <2>1. tenant' = c /\ Goes(c, "got") /\ Holds(c, c) /\ hubs' = hubs
    BY <1>6 DEF FinishLoad
  <2>2. at' \in [Callers -> Place] /\ at'[c] = "got" /\ \A d \in Callers \ {c} : at'[d] = at[d]
    BY <1>0, <2>1, MovePointwise
  <2>3. /\ using' \in [Callers -> Callers \cup {None}] /\ using'[c] = c
        /\ \A d \in Callers \ {c} : using'[d] = using[d]
    BY <1>0, <2>1, HoldPointwise
  <2>4. org
    <3>1. load[c].err = "none"
      BY <1>6 DEF Outcome
    <3>. QED  BY <1>1, <3>1 DEF TenantsInv, FoundIsThere
  <2>5. \A d \in Callers : at[d] \notin {"erased", "dropping"} /\ at[d] \notin Holding
    BY <1>0, <1>1, <2>4 DEF TenantsInv, OneStops, BeingDeleted, HeldIsEntered, TenantsTypeOK
  <2>6. \A d \in Callers : at'[d] \notin {"erased", "dropping"}
    BY <2>2, <2>5
  <2>7. TenantsTypeOK'
    BY <1>0, <1>1, <1>2, <1>3, <2>1, <2>2, <2>3 DEF TenantsTypeOK, Holding
  <2>8. LoadsAreKnown'
    BY <1>3, <1>4, <2>2, CallersAssumption DEF LoadsAreKnown, Loading
  <2>9. FoundIsThere'
    BY <2>4, <1>3 DEF FoundIsThere
  <2>10. HeldIsEntered'
    <3>1. \A d \in Callers : ~(load[d].done /\ load[d].err = "none")
      BY <1>1, <2>4, CallersAssumption DEF TenantsInv, HeldIsEntered
    <3>2. \A d \in Callers \ {c} : at'[d] \notin Holding /\ ~(load'[d].done /\ load'[d].err = "none")
      BY <2>2, <2>5, <3>1, <1>2
    <3>. QED  BY <2>1, <2>3, <3>2 DEF HeldIsEntered
  <2>11. HubsAreOwned'
    <3>1. \A h \in hubs : h = c
      BY <1>0, <1>1, <1>4, <2>5, CallersAssumption
         DEF TenantsInv, HubsAreOwned, TenantsTypeOK, Loading
    <3>. QED  BY <2>1, <2>2, <3>1 DEF HubsAreOwned, Before
  <2>12. OneStops'
    BY <1>3, <2>4, <2>6 DEF OneStops, BeingDeleted
  <2>13. ServedIsReached'
    BY <2>2, <2>5 DEF ServedIsReached, Holding
  <2>14. CancelledIsOwn'
    BY <1>2, <1>3, <1>6, <2>2 DEF TenantsInv, CancelledIsOwn
  <2>. QED
    BY <2>7, <2>8, <2>9, <2>10, <2>11, <2>12, <2>13, <2>14 DEF TenantsInv
<1>7. CASE Outcome(c) # "none"
  <2>1. PICK p \in {"cancelled", "refused"} :
          /\ Goes(c, p)
          /\ p = "cancelled" => Outcome(c) = "cancelled"
          /\ hubs' = hubs \ {c}
          /\ UNCHANGED <<tenant, using>>
    BY <1>7 DEF FinishLoad
  <2>2. at' \in [Callers -> Place] /\ at'[c] = p /\ \A d \in Callers \ {c} : at'[d] = at[d]
    BY <1>0, <2>1, MovePointwise
  <2>3. TenantsTypeOK'
    BY <1>0, <1>2, <1>3, <2>1, <2>2 DEF TenantsTypeOK, Holding
  <2>4. LoadsAreKnown'
    BY <1>1, <1>3, <1>4, <2>1, <2>2, CallersAssumption DEF LoadsAreKnown, Loading
  <2>5. FoundIsThere'
    BY <1>4, <2>2 DEF FoundIsThere, Loading
  <2>6. HeldIsEntered'
    <3>1. ~(load'[c].err = "none") /\ at'[c] \notin Holding
      BY <1>2, <1>7, <2>2 DEF Holding
    <3>. QED  BY <1>2, <1>3, <2>1, <2>2, <3>1 DEF TenantsInv, HeldIsEntered
  <2>7. \A d \in Callers : (at'[d] = "erased" <=> at[d] = "erased")
                        /\ (at'[d] = "dropping" <=> at[d] = "dropping")
    BY <1>1, <2>2
  <2>8. HubsAreOwned'
    <3>1. \A h \in hubs' : h \in hubs /\ h # c /\ h \in Callers /\ at'[h] = at[h]
      BY <1>0, <2>1, <2>2 DEF TenantsTypeOK
    <3>. QED  BY <2>1, <2>7, <3>1 DEF TenantsInv, HubsAreOwned
  <2>9. OneStops'
    BY <1>3, <2>1, <2>7 DEF TenantsInv, OneStops, BeingDeleted
  <2>10. ServedIsReached'
    <3>1. \A d \in Callers : at'[d] \in {"serving", "handling"} => at[d] \in {"serving", "handling"}
      BY <2>2
    <3>. QED  BY <1>3, <2>1, <2>7, <3>1 DEF TenantsInv, ServedIsReached
  <2>11. CancelledIsOwn'
    BY <1>2, <1>3, <1>5, <2>1, <2>2 DEF TenantsInv, CancelledIsOwn
  <2>. QED
    BY <2>3, <2>4, <2>5, <2>6, <2>8, <2>9, <2>10, <2>11 DEF TenantsInv
<1>. QED  BY <1>6, <1>7

-----------------------------------------------------------------------------
\* The deletion

\* Whoever erases the rows holds the tenant that is entered, so no load is under way.
LEMMA Erasing ==
  ASSUME TenantsInv, NEW c \in Callers, Erase(c), at'[c] # "refused"
  PROVE  TenantsInv'
<1>. USE DEF Place, LookingUp, Streaming, Deleting, Over
<1>0. TenantsTypeOK
  BY DEF TenantsInv
<1>1. ~Goes(c, "refused")
  BY <1>0, MovePointwise
<1>2. /\ at[c] = "confirmed" /\ Goes(c, "erased") /\ org' = FALSE
      /\ kept' = (kept /\ ~org)
      /\ UNCHANGED <<platform, using, gone, streams>>
  BY <1>1 DEF Erase
<1>3. UNCHANGED <<tenant, loading, load, hubs, using, gone, ended, dirty>>
  BY <1>2 DEF platform, streams
<1>4. at' \in [Callers -> Place] /\ at'[c] = "erased" /\ \A d \in Callers \ {c} : at'[d] = at[d]
  BY <1>0, <1>2, MovePointwise
<1>5. TenantsTypeOK'
  BY <1>0, <1>2, <1>3, <1>4 DEF TenantsTypeOK, Holding
<1>6. LoadsAreKnown'
  BY <1>2, <1>3, <1>4 DEF TenantsInv, LoadsAreKnown, Loading
<1>7. FoundIsThere'
  <2>1. CASE org
    <3>1. tenant = using[c] /\ using[c] # None
      BY <1>0, <1>2, <2>1 DEF TenantsInv, HeldIsEntered, TenantsTypeOK, Holding
    <3>2. \A d \in Callers : ~Loading(d)
      BY <3>1, CallersAssumption DEF TenantsInv, LoadsAreKnown
    <3>. QED  BY <1>4, <3>2 DEF FoundIsThere, Loading
  <2>2. CASE ~org
    BY <1>2, <1>3, <1>4, <2>2 DEF TenantsInv, FoundIsThere
  <2>. QED  BY <2>1, <2>2
<1>8. HeldIsEntered'
  BY <1>2 DEF HeldIsEntered
<1>9. \A d \in Callers : at'[d] = "dropping" <=> at[d] = "dropping"
  BY <1>2, <1>4
<1>10. HubsAreOwned'
  <2>1. \A h \in hubs : h \in Callers /\ (at[h] = "built" => at'[h] = "built")
                     /\ (at'[h] \in Before => at[h] \in Before)
    BY <1>0, <1>2, <1>4 DEF TenantsTypeOK, Before
  <2>. QED  BY <1>3, <1>9, <2>1 DEF TenantsInv, HubsAreOwned
<1>11. OneStops'
  BY <1>2, <1>3, <1>4, <1>9 DEF TenantsInv, OneStops
<1>12. ServedIsReached'
  <2>1. \A d \in Callers : at'[d] \in {"serving", "handling"} => at[d] \in {"serving", "handling"}
    BY <1>4
  <2>. QED  BY <1>3, <1>9, <2>1 DEF TenantsInv, ServedIsReached
<1>13. CancelledIsOwn'
  BY <1>3, <1>4 DEF TenantsInv, CancelledIsOwn
<1>. QED
  BY <1>5, <1>6, <1>7, <1>8, <1>10, <1>11, <1>12, <1>13 DEF TenantsInv

\* The tenant goes from the table into the hands of the caller that stops it.
LEMMA Dropping ==
  ASSUME TenantsInv, NEW c \in Callers, Drop(c)
  PROVE  TenantsInv'
<1>. USE DEF Place, LookingUp, Streaming, Deleting, Over
<1>0. TenantsTypeOK
  BY DEF TenantsInv
<1>1. PICK p \in {"over", "dropping"} :
        /\ Goes(c, p)
        /\ p = "dropping" <=> tenant # None
  BY DEF Drop
<1>2. /\ at[c] = "erased" /\ tenant' = None /\ Holds(c, tenant)
      /\ UNCHANGED <<org, loading, hubs, gone, ended, dirty, kept>>
  BY DEF Drop, streams
<1>3. at' \in [Callers -> Place] /\ at'[c] = p /\ \A d \in Callers \ {c} : at'[d] = at[d]
  BY <1>0, <1>1, MovePointwise
<1>4. /\ using' \in [Callers -> Callers \cup {None}] /\ using'[c] = tenant
      /\ \A d \in Callers \ {c} : using'[d] = using[d]
  BY <1>0, <1>2, HoldPointwise DEF TenantsTypeOK
<1>5. /\ load' \in [Callers -> Loads]
      /\ \A d \in Callers : load'[d].done = load[d].done /\ load'[d].err = load[d].err
  BY <1>0 DEF Drop, TenantsTypeOK, Loads
<1>6. ~org
  BY <1>2 DEF TenantsInv, OneStops, BeingDeleted
<1>7. TenantsTypeOK'
  BY <1>0, <1>1, <1>2, <1>3, <1>4, <1>5 DEF TenantsTypeOK, Holding
<1>8. LoadsAreKnown'
  BY <1>2, <1>3 DEF TenantsInv, LoadsAreKnown, Loading
<1>9. FoundIsThere'
  BY <1>2, <1>3, <1>5 DEF TenantsInv, FoundIsThere
<1>10. HeldIsEntered'
  BY <1>2, <1>6 DEF HeldIsEntered
<1>11. \A d \in Callers : at[d] = "dropping" => at'[d] = "dropping" /\ using'[d] = using[d]
  BY <1>2, <1>3, <1>4
<1>12. tenant # None => at'[c] = "dropping" /\ using'[c] = tenant
  BY <1>1, <1>3, <1>4
<1>13. HubsAreOwned'
  <2>1. \A h \in hubs : /\ h \in Callers /\ h # None
                        /\ at[h] = "built" => at'[h] = "built"
                        /\ at'[h] \in Before => at[h] \in Before
    BY <1>0, <1>2, <1>3, CallersAssumption DEF TenantsTypeOK, Before
  <2>. QED  BY <1>2, <1>11, <1>12, <2>1 DEF TenantsInv, HubsAreOwned
<1>14. OneStops'
  <2>1. \A d \in Callers : at'[d] = "dropping" => d = c \/ at[d] = "dropping"
    BY <1>3
  <2>2. tenant # None => \A d \in Callers : at[d] # "dropping"
    BY DEF TenantsInv, OneStops
  <2>3. at'[c] = "dropping" => tenant # None
    BY <1>1, <1>3
  <2>. QED  BY <1>2, <1>6, <2>1, <2>2, <2>3 DEF TenantsInv, OneStops, BeingDeleted
<1>15. ServedIsReached'
  <2>1. ASSUME NEW d \in Callers, at'[d] \in {"serving", "handling"}, d \notin ended
        PROVE  \E e \in Callers : at'[e] = "dropping" /\ using'[e] = using'[d]
    <3>1. at[d] \in {"serving", "handling"} /\ using'[d] = using[d] /\ using[d] # None
      BY <1>0, <1>1, <1>3, <1>4, <2>1 DEF TenantsTypeOK, Holding
    <3>. QED  BY <1>11, <1>12, <2>1, <3>1 DEF TenantsInv, ServedIsReached
  <2>. QED  BY <1>2, <2>1 DEF ServedIsReached
<1>16. CancelledIsOwn'
  BY <1>1, <1>2, <1>3, <1>5 DEF TenantsInv, CancelledIsOwn
<1>. QED
  BY <1>7, <1>8, <1>9, <1>10, <1>13, <1>14, <1>15, <1>16 DEF TenantsInv

\* The one caller that stops a tenant leaves nothing of it.
LEMMA Stopping ==
  ASSUME TenantsInv, NEW c \in Callers, StopTenant(c)
  PROVE  TenantsInv'
<1>. USE DEF Place, LookingUp, Streaming, Deleting, Over
<1>0. TenantsTypeOK
  BY DEF TenantsInv
<1>1. /\ at[c] = "dropping" /\ Goes(c, "over")
      /\ ended' = ended \cup SessionsOf(using[c]) /\ hubs' = hubs \ {using[c]}
      /\ UNCHANGED <<org, tenant, loading, load, using, gone, dirty, kept>>
  BY DEF StopTenant
<1>2. at' \in [Callers -> Place] /\ at'[c] = "over" /\ \A d \in Callers \ {c} : at'[d] = at[d]
  BY <1>0, <1>1, MovePointwise
<1>3. \A d \in Callers : at[d] = "dropping" => d = c
  BY <1>1 DEF TenantsInv, OneStops
<1>4. \A d \in Callers : at'[d] # "dropping"
  BY <1>2, <1>3
<1>5. TenantsTypeOK'
  BY <1>0, <1>1, <1>2 DEF TenantsTypeOK, SessionsOf, Holding
<1>6. LoadsAreKnown'
  BY <1>1, <1>2 DEF TenantsInv, LoadsAreKnown, Loading
<1>7. FoundIsThere'
  BY <1>1, <1>2 DEF TenantsInv, FoundIsThere
<1>8. HeldIsEntered'
  BY <1>1, <1>2 DEF TenantsInv, HeldIsEntered, Holding
<1>9. HubsAreOwned'
  <2>1. \A h \in hubs' : /\ h \in hubs /\ h \in Callers /\ h # using[c]
                         /\ at[h] = "built" => at'[h] = "built"
                         /\ at'[h] \in Before => at[h] \in Before
    BY <1>0, <1>1, <1>2 DEF TenantsTypeOK, Before
  <2>2. \A h \in hubs' : tenant = h \/ at[h] = "built"
    BY <1>3, <2>1 DEF TenantsInv, HubsAreOwned
  <2>3. \A h \in hubs' : at[h] \notin Before
    BY <2>1 DEF TenantsInv, HubsAreOwned
  <2>. QED  BY <1>1, <2>1, <2>2, <2>3 DEF HubsAreOwned
<1>10. OneStops'
  <2>1. \A d \in Callers : at'[d] = "erased" <=> at[d] = "erased"
    BY <1>1, <1>2
  <2>. QED  BY <1>1, <1>4, <2>1 DEF TenantsInv, OneStops, BeingDeleted
<1>11. ServedIsReached'
  <2>1. ASSUME NEW d \in Callers, at'[d] \in {"serving", "handling"}, d \notin ended'
        PROVE  tenant = using[d]
    <3>1. at[d] \in {"serving", "handling"} /\ d \notin ended
      BY <1>1, <1>2, <2>1
    <3>2. using[d] # using[c]
      BY <1>1, <2>1, <3>1 DEF SessionsOf
    <3>. QED  BY <1>3, <3>1, <3>2 DEF TenantsInv, ServedIsReached
  <2>. QED  BY <1>1, <2>1 DEF ServedIsReached
<1>12. CancelledIsOwn'
  BY <1>1, <1>2 DEF TenantsInv, CancelledIsOwn
<1>. QED
  BY <1>5, <1>6, <1>7, <1>8, <1>9, <1>10, <1>11, <1>12 DEF TenantsInv

-----------------------------------------------------------------------------
\* The theorems

\* Nothing is under way when the server starts.
LEMMA TenantsStart == TenantsInit => TenantsInv
<1>. SUFFICES ASSUME TenantsInit PROVE TenantsInv
  OBVIOUS
<1>1. /\ org = TRUE /\ tenant = None /\ loading = None /\ hubs = {} /\ ended = {}
      /\ gone = {} /\ dirty = {} /\ kept \in BOOLEAN
      /\ load \in [Callers -> {NewLoad}] /\ using \in [Callers -> {None}]
      /\ at \in [Callers -> {"idle"}]
  BY DEF TenantsInit
<1>2. \A c \in Callers : at[c] = "idle" /\ load[c] = NewLoad /\ c # None
  BY <1>1, CallersAssumption
<1>3. NewLoad \in Loads /\ ~NewLoad.done /\ NewLoad.err = "none"
  BY DEF NewLoad, Loads, Reason
<1>4. TenantsTypeOK
  BY <1>1, <1>2, <1>3 DEF TenantsTypeOK, Place, Holding, Streaming
<1>. QED
  BY <1>1, <1>2, <1>3, <1>4
     DEF TenantsInv, LoadsAreKnown, Loading, FoundIsThere, HeldIsEntered, Holding, Streaming,
         HubsAreOwned, OneStops, BeingDeleted, ServedIsReached, CancelledIsOwn

\* The invariant holds whatever the order of look-ups, streams and deletions.
THEOREM TenantsAlwaysInv == TenantsSpec => []TenantsInv
<1>1. TenantsInv /\ [TenantsNext]_tenantVars => TenantsInv'
  <2>. SUFFICES ASSUME TenantsInv, [TenantsNext]_tenantVars PROVE TenantsInv'
    OBVIOUS
  <2>1. CASE UNCHANGED tenantVars
    BY <2>1 DEF tenantVars, platform, streams, TenantsInv, TenantsTypeOK, LoadsAreKnown, Loading,
                FoundIsThere, HeldIsEntered, HubsAreOwned, OneStops, BeingDeleted,
                ServedIsReached, CancelledIsOwn
  <2>2. ASSUME NEW c \in Callers, CallerStep(c) PROVE TenantsInv'
    <3>1. CASE Call(c) \/ GiveUp(c) \/ LookUpStep(c)
      BY <3>1, QuietLookUp, GivingUp, LoadGoesOn, LoadEnds DEF LookUpStep
    <3>2. CASE StreamStep(c) \/ Answer(c)
      BY <3>2, QuietUse
    <3>3. CASE DeleteStep(c)
      BY <3>3, QuietUse, Erasing, Dropping, Stopping DEF DeleteStep
    <3>. QED  BY <2>2, <3>1, <3>2, <3>3 DEF CallerStep
  <2>. QED  BY <2>1, <2>2 DEF TenantsNext, AllOver
<1>. QED  BY <1>1, TenantsStart, PTL DEF TenantsSpec

\* An organisation never has two hubs at work, however many callers want it at once.
THEOREM AlwaysOneHub == TenantsSpec => []OneHub
<1>1. TenantsInv => OneHub
  <2>. SUFFICES ASSUME TenantsInv PROVE OneHub
    OBVIOUS
  <2>1. \A g, h \in hubs : g = h
    <3>1. hubs \subseteq Callers
      BY DEF TenantsInv, TenantsTypeOK
    <3>2. \A h \in hubs : at[h] = "built" => loading = h /\ tenant = None /\ org
      BY <3>1, CallersAssumption DEF TenantsInv, LoadsAreKnown, Loading, FoundIsThere
    <3>3. \A d \in Callers : at[d] = "dropping" => tenant = None /\ ~org
      BY DEF TenantsInv, OneStops, BeingDeleted
    <3>4. \A d, e \in Callers : at[d] = "dropping" /\ at[e] = "dropping" => d = e
      BY DEF TenantsInv, OneStops
    <3>. QED  BY <3>1, <3>2, <3>3, <3>4, CallersAssumption DEF TenantsInv, HubsAreOwned
  <2>2. hubs = {} \/ \E h \in hubs : hubs = {h}
    BY <2>1
  <2>3. Cardinality(hubs) = 0 \/ Cardinality(hubs) = 1
    BY <2>2, FS_EmptySet, FS_Singleton
  <2>. QED  BY <2>3 DEF OneHub
<1>. QED  BY <1>1, TenantsAlwaysInv, PTL

\* After its deletion nothing of an organisation is at work.
THEOREM DeletedIsAlwaysDown == TenantsSpec => []DeletedIsDown
<1>1. TenantsInv => DeletedIsDown
  <2>. SUFFICES ASSUME TenantsInv, ~org, ~BeingDeleted PROVE tenant = None /\ hubs = {}
    BY DEF DeletedIsDown
  <2>1. tenant = None
    BY DEF TenantsInv, OneStops, BeingDeleted
  <2>2. hubs = {}
    BY <2>1, CallersAssumption
       DEF TenantsInv, TenantsTypeOK, HubsAreOwned, FoundIsThere, BeingDeleted
  <2>. QED  BY <2>1, <2>2
<1>. QED  BY <1>1, TenantsAlwaysInv, PTL

\* After its deletion no agent of an organisation is served without its end being there.
THEOREM DeletedNeverHasStream == TenantsSpec => []DeletedHasNoStream
<1>1. TenantsInv => DeletedHasNoStream
  <2>. SUFFICES ASSUME TenantsInv, ~org, ~BeingDeleted,
                       NEW c \in Callers, at[c] \in {"serving", "handling"}, c \notin ended
                PROVE  FALSE
    BY DEF DeletedHasNoStream
  <2>1. tenant = None
    BY DEF TenantsInv, OneStops, BeingDeleted
  <2>2. using[c] # None
    BY DEF TenantsInv, TenantsTypeOK, Holding, Streaming
  <2>. QED  BY <2>1, <2>2 DEF TenantsInv, ServedIsReached, BeingDeleted
<1>. QED  BY <1>1, TenantsAlwaysInv, PTL

\* Nobody is turned away because another caller gave up.
THEOREM AlwaysOwnCancelOnly == TenantsSpec => []OwnCancelOnly
<1>1. TenantsInv => OwnCancelOnly
  BY DEF TenantsInv, CancelledIsOwn, OwnCancelOnly
<1>. QED  BY <1>1, TenantsAlwaysInv, PTL

-----------------------------------------------------------------------------
\* Nobody waits in vain

\* A load is carried on with until it is done, and then stays done.
LEMMA LoadsEnd ==
  ASSUME TenantsInv, [TenantsNext]_tenantVars, NEW d \in Callers, Loading(d) \/ load[d].done
  PROVE  (Loading(d) \/ load[d].done)'
<1>1. /\ at \in [Callers -> Place] /\ load \in [Callers -> Loads]
      /\ \A e \in Callers : load[e] \in Loads
  BY DEF TenantsInv, TenantsTypeOK
<1>2. CASE UNCHANGED <<at, load>>
  BY <1>2 DEF Loading
<1>3. ASSUME NEW c \in Callers, BeginLoad(c) \/ StartHub(c) PROVE (Loading(d) \/ load[d].done)'
  BY <1>1, <1>3 DEF BeginLoad, StartHub, Goes, Loading
<1>4. ASSUME NEW c \in Callers, ReadOrg(c) PROVE (Loading(d) \/ load[d].done)'
  <2>1. load'[d].done = load[d].done
    BY <1>1, <1>4 DEF ReadOrg, Loads
  <2>2. Loading(d) => Loading(d)'
    BY <1>1, <1>4 DEF ReadOrg, Goes, Loading
  <2>. QED  BY <2>1, <2>2
<1>5. ASSUME NEW c \in Callers, FinishLoad(c) PROVE (Loading(d) \/ load[d].done)'
  <2>1. CASE d = c
    BY <1>1, <1>5, <2>1 DEF FinishLoad, Loads
  <2>2. CASE d # c
    BY <1>1, <1>5, <2>2 DEF FinishLoad, Goes, Loading
  <2>. QED  BY <2>1, <2>2
<1>6. ASSUME NEW c \in Callers, Drop(c) PROVE (Loading(d) \/ load[d].done)'
  <2>1. load'[d].done = load[d].done
    BY <1>1, <1>6 DEF Drop, Loads
  <2>2. Loading(d) => Loading(d)'
    BY <1>1, <1>6 DEF Drop, Goes, Loading
  <2>. QED  BY <2>1, <2>2
<1>7. ASSUME NEW c \in Callers, CallerStep(c), UNCHANGED load,
             ~BeginLoad(c), ~StartHub(c), ~ReadOrg(c), ~FinishLoad(c), ~Drop(c)
      PROVE  Loading(d) => Loading(d)'
  <2>1. at' = at \/ (~Loading(c) /\ \E place : Goes(c, place))
    BY <1>7 DEF CallerStep, Call, GiveUp, LookUpStep, FindTenant, JoinLoad, Wake, StopWaiting, StreamStep, Register, Recheck,
                TakeMessage, Apply, TakeEnd, Fails, Cleanup, DeleteStep, Confirm, Erase, StopTenant, Answer, Loading
  <2>. QED  BY <1>1, <2>1 DEF Goes, Loading
<1>8. ASSUME NEW c \in Callers, CallerStep(c), ~ReadOrg(c), ~FinishLoad(c), ~Drop(c)
      PROVE  UNCHANGED load
  BY <1>8 DEF CallerStep, Call, GiveUp, LookUpStep, FindTenant, JoinLoad, BeginLoad, StartHub, Wake, StopWaiting, StreamStep,
              Register, Recheck, TakeMessage, Apply, TakeEnd, Fails, Cleanup, DeleteStep, Confirm, Erase, StopTenant, Answer,
              platform
<1>. QED
  BY <1>2, <1>3, <1>4, <1>5, <1>6, <1>7, <1>8 DEF TenantsNext, AllOver, tenantVars, platform

\* Who comes to wait found the load in the table.
LEMMA WaitStep == TenantsInv /\ WaitsForSomebody /\ [TenantsNext]_tenantVars => WaitsForSomebody'
<1>. SUFFICES ASSUME TenantsInv, WaitsForSomebody, [TenantsNext]_tenantVars, NEW c \in Callers, at'[c] = "waiting"
              PROVE  (Loading(using[c]) \/ load[using[c]].done)'
  BY DEF WaitsForSomebody
<1>1. at \in [Callers -> Place] /\ using \in [Callers -> Callers \cup {None}] /\ loading \in Callers \cup {None}
  BY DEF TenantsInv, TenantsTypeOK
<1>2. CASE at[c] = "waiting" /\ using'[c] = using[c]
  <2>1. using[c] \in Callers
    BY <1>1, <1>2 DEF TenantsInv, TenantsTypeOK
  <2>. QED  BY <1>2, <2>1, LoadsEnd DEF WaitsForSomebody
<1>3. ASSUME NEW d \in Callers, JoinLoad(d) PROVE (Loading(using[c]) \/ load[using[c]].done)'
  <2>1. CASE c = d
    <3>1. using'[c] = loading /\ loading \in Callers
      BY <1>1, <1>3, <2>1 DEF JoinLoad, Holds
    <3>2. Loading(loading)
      BY <3>1 DEF TenantsInv, LoadsAreKnown
    <3>. QED  BY <3>1, <3>2, LoadsEnd
  <2>2. CASE c # d
    BY <1>1, <1>2, <1>3, <2>2 DEF JoinLoad, Goes, Holds
  <2>. QED  BY <2>1, <2>2
<1>4. ASSUME NEW d \in Callers, CallerStep(d), ~JoinLoad(d)
      PROVE  at[c] = "waiting" /\ using'[c] = using[c]
  <2>1. \/ at' = at /\ using' = using
        \/ /\ at[d] # "waiting" \/ using' = using
           /\ \E place : place # "waiting" /\ Goes(d, place)
           /\ using' = using \/ \E t : Holds(d, t)
    <3>1. CASE LookUpStep(d)
      <4>1. CASE Wake(d)
        BY <4>1 DEF Wake
      <4>. QED
        BY <1>4, <3>1, <4>1 DEF LookUpStep, FindTenant, BeginLoad, ReadOrg, StartHub, FinishLoad, StopWaiting
    <3>2. CASE StreamStep(d)
      BY <3>2 DEF StreamStep, Register, Recheck, TakeMessage, Apply, TakeEnd, Fails, Cleanup
    <3>3. CASE DeleteStep(d)
      BY <3>3 DEF DeleteStep, Confirm, Erase, Drop, StopTenant
    <3>. QED  BY <1>4, <3>1, <3>2, <3>3 DEF CallerStep, Call, GiveUp, Answer
  <2>. QED  BY <1>1, <2>1 DEF Goes, Holds
<1>5. CASE UNCHANGED tenantVars
  BY <1>2, <1>5 DEF tenantVars
<1>. QED
  BY <1>2, <1>3, <1>4, <1>5 DEF TenantsNext, AllOver

\* However a load ends, and whoever gave up meanwhile, nobody waits for one that nobody carries on with.
THEOREM NobodyWaitsInVain == TenantsSpec => []WaitsForSomebody
<1>1. TenantsInit => WaitsForSomebody
  BY DEF TenantsInit, WaitsForSomebody
<1>. QED  BY <1>1, WaitStep, TenantsAlwaysInv, PTL DEF TenantsSpec

=============================================================================
