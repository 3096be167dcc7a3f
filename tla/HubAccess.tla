------------------------------ MODULE HubAccess ------------------------------
(***************************************************************************)
(* What the server may hold of one agent, and who may widen it.            *)
(*                                                                         *)
(* Administrators set the tier of the agent's row and its overrides        *)
(* (SetAgentTier, SetConsent in estate/hub_consent.go); the agent's        *)
(* install states a ceiling whenever it connects (NoteCeiling); what the   *)
(* agent sends is cut down to both before it is held (ApplySync), and what *)
(* is held is stored now and then (persist) and comes back with a restart  *)
(* (Restore).  Every one of them reads, judges and writes in steps of its  *)
(* own.                                                                    *)
(*                                                                         *)
(* A picture is the set of facts in it.  The overrides are the set of      *)
(* facts they take away, whether as a paused collector or as a namespace   *)
(* that is left out.                                                       *)
(***************************************************************************)
EXTENDS Naturals, FiniteSets

CONSTANTS
  Setters,      \* changes by people under way at the same time
  Lookups,      \* loads of the overrides under way at the same time
  Facts,        \* what an agent can report
  Level,        \* the lowest tier that covers each fact
  MaxTier,      \* the highest tier there is
  Implemented,  \* the highest tier this release honours
  TokenCap,     \* the highest tier the agent's enrollment token allows
  FirstTier,    \* what it was approved for
  MaxChanges,   \* bound on the changes by people and on upgrades of the install
  MaxFailures   \* bound on failed writes, refused messages and restarts

Tiers == 0 .. MaxTier
Installs == 0 .. MaxTier + 1  \* an install may be newer than the server
Overrides == SUBSET Facts

ASSUME AccessAssumption ==
  /\ Level \in [Facts -> Nat]
  /\ MaxTier \in Nat /\ Implemented \in Nat /\ TokenCap \in Nat
  /\ FirstTier \in Tiers /\ FirstTier <= Implemented /\ FirstTier <= TokenCap
  /\ MaxChanges \in Nat /\ MaxFailures \in Nat

VARIABLES
  row,       \* the agent's row: the tier it is approved for and the ceiling noted of its install
  install,   \* the ceiling its install really has
  saved,     \* the overrides as they are stored
  asked,     \* the overrides in memory
  loaded,    \* ConsentLoad: they have been loaded
  lookup,    \* the ensureConsent calls: whether each is under way, and what it has read
  held,      \* the picture in memory
  dirty,     \* it has changed since it was last handed to the store
  kept,      \* the picture in the store
  stream,    \* the handler of the agent's stream and the message it has in hand
  setter,    \* the SetAgentTier and SetConsent calls
  changes, failures

overrides == <<saved, asked, loaded, lookup>>
picture == <<held, dirty, kept>>
bounds == <<changes, failures>>
accessVars == <<row, install, overrides, picture, stream, setter, bounds>>

\* DropAboveTier.
Covered(tier) == {f \in Facts : Level[f] <= tier}

Away == [at |-> "out", tier |-> 0, said |-> 0, news |-> FALSE, facts |-> {}, full |-> FALSE]
Open == [Away EXCEPT !.at = "open"]
NoLookup == [busy |-> FALSE, read |-> {}]
Idle == [at |-> "idle", admin |-> FALSE, tier |-> 0, left |-> {}, narrows |-> FALSE]

StreamState ==
  [at : {"out", "dialled", "noting", "following", "narrowing", "open", "sync", "apply",
         "persist", "save", "leaving", "lastSave"},
   tier : Tiers, said : Tiers, news : BOOLEAN, facts : SUBSET Facts, full : BOOLEAN]
SetterState ==
  [at : {"idle", "tier", "narrowTier", "save", "put", "narrowConsent"},
   admin : BOOLEAN, tier : Tiers, left : Overrides, narrows : BOOLEAN]

AccessTypeOK ==
  /\ row \in [tier : Tiers, ceiling : Tiers]
  /\ install \in Installs
  /\ saved \in Overrides /\ asked \in Overrides /\ loaded \in BOOLEAN
  /\ lookup \in [Lookups -> [busy : BOOLEAN, read : Overrides]]
  /\ held \in SUBSET Facts /\ kept \in SUBSET Facts /\ dirty \in BOOLEAN
  /\ stream \in StreamState
  /\ setter \in [Setters -> SetterState]
  /\ changes \in 0 .. MaxChanges /\ failures \in 0 .. MaxFailures

AccessInit ==
  /\ row = [tier |-> FirstTier, ceiling |-> MaxTier]
  /\ install = MaxTier + 1
  /\ saved = {} /\ asked = {} /\ loaded = FALSE
  /\ lookup = [l \in Lookups |-> NoLookup]
  /\ held = {} /\ dirty = FALSE /\ kept = {}
  /\ stream = Away
  /\ setter = [s \in Setters |-> Idle]
  /\ changes = 0 /\ failures = 0

Changed == changes < MaxChanges /\ changes' = changes + 1 /\ UNCHANGED failures
Failed == failures < MaxFailures /\ failures' = failures + 1 /\ UNCHANGED changes

-----------------------------------------------------------------------------
\* The overrides are loaded when somebody first asks for them.

EnsureRead(l) ==
  /\ ~loaded
  /\ ~lookup[l].busy
  /\ lookup' = [lookup EXCEPT ![l] = [busy |-> TRUE, read |-> saved]]
  /\ UNCHANGED <<row, install, saved, asked, loaded, picture, stream, setter, bounds>>

\* Mutant: what was read is stored without looking again.
EnsureStoreBlindly(l) ==
  /\ lookup[l].busy
  /\ asked' = lookup[l].read
  /\ loaded' = TRUE
  /\ lookup' = [lookup EXCEPT ![l] = NoLookup]
  /\ UNCHANGED <<row, install, saved, picture, stream, setter, bounds>>

\* Somebody else may have loaded, or set, the overrides since.
EnsureStore(l) ==
  /\ lookup[l].busy
  /\ asked' = IF loaded THEN asked ELSE lookup[l].read
  /\ loaded' = TRUE
  /\ lookup' = [lookup EXCEPT ![l] = NoLookup]
  /\ UNCHANGED <<row, install, saved, picture, stream, setter, bounds>>

-----------------------------------------------------------------------------
\* SetAgentTier: the row is read and the change judged, written, and what is held narrowed.

\* Mutant: what the token allowed is forgotten once the agent is in.
CheckTierNoToken(tier) == 0 <= tier /\ tier <= Implemented /\ tier <= row.ceiling
CheckTier(tier) == CheckTierNoToken(tier) /\ tier <= TokenCap

TierRead(s) ==
  /\ setter[s].at = "idle"
  /\ \E tier \in Tiers, admin \in BOOLEAN :
       /\ tier # row.tier
       /\ tier > row.tier => admin
       /\ CheckTier(tier)
       /\ setter' = [setter EXCEPT ![s] = [Idle EXCEPT !.at = "tier", !.admin = admin, !.tier = tier,
                                                       !.narrows = tier < row.tier]]
  /\ Changed
  /\ UNCHANGED <<row, install, overrides, picture, stream>>

TierWrite(s) ==
  /\ setter[s].at = "tier"
  /\ row' = [row EXCEPT !.tier = setter[s].tier]
  /\ setter' = [setter EXCEPT ![s] = IF @.narrows THEN [@ EXCEPT !.at = "narrowTier"] ELSE Idle]
  /\ UNCHANGED <<install, overrides, picture, stream, bounds>>

\* narrowState.  Without a picture there is nothing to drop or to store anew.
TierNarrows(s) ==
  /\ setter[s].at = "narrowTier"
  /\ held' = held \cap Covered(setter[s].tier)
  /\ dirty' = TRUE
  /\ setter' = [setter EXCEPT ![s] = Idle]
  /\ UNCHANGED <<row, install, overrides, kept, stream, bounds>>

\* SetConsent: the overrides in memory are read and the change judged, stored, put in memory, and
\* what is held narrowed.
ConsentRead(s) ==
  /\ setter[s].at = "idle"
  /\ loaded
  /\ \E left \in Overrides, admin \in BOOLEAN :
       /\ left # asked
       /\ ~(asked \subseteq left) => admin
       /\ setter' = [setter EXCEPT ![s] = [Idle EXCEPT !.at = "save", !.admin = admin, !.left = left,
                                                       !.narrows = ~(left \subseteq asked)]]
  /\ Changed
  /\ UNCHANGED <<row, install, overrides, picture, stream>>

ConsentSave(s) ==
  /\ setter[s].at = "save"
  /\ saved' = setter[s].left
  /\ setter' = [setter EXCEPT ![s].at = "put"]
  /\ UNCHANGED <<row, install, asked, loaded, lookup, picture, stream, bounds>>

ConsentPut(s) ==
  /\ setter[s].at = "put"
  /\ asked' = setter[s].left
  /\ loaded' = TRUE
  /\ setter' = [setter EXCEPT ![s] = IF @.narrows THEN [@ EXCEPT !.at = "narrowConsent"] ELSE Idle]
  /\ UNCHANGED <<row, install, saved, lookup, picture, stream, bounds>>

\* narrowConsent.
ConsentNarrows(s) ==
  /\ setter[s].at = "narrowConsent"
  /\ held' = held \ setter[s].left
  /\ dirty' = TRUE
  /\ setter' = [setter EXCEPT ![s] = Idle]
  /\ UNCHANGED <<row, install, overrides, kept, stream, bounds>>

\* The store refuses the write: the change is given up.
SetterFails(s) ==
  /\ setter[s].at \in {"tier", "save"}
  /\ setter' = [setter EXCEPT ![s] = Idle]
  /\ Failed
  /\ UNCHANGED <<row, install, overrides, picture, stream>>

-----------------------------------------------------------------------------
\* The stream until its Config goes out: the row is read, then the Hello arrives and NoteCeiling
\* records the ceiling it states and lowers the tier to it.

\* The owner of the cluster raises or lowers the ceiling (helm upgrade).
HelmUpgrade ==
  /\ \E c \in Installs \ {install} : install' = c
  /\ Changed
  /\ UNCHANGED <<row, overrides, picture, stream, setter>>

ReportedTier(reported) == IF reported > MaxTier THEN MaxTier ELSE reported

\* The agent sends its Hello as soon as it has a stream; the server may be slow to read it.
Dial ==
  /\ stream.at = "out"
  /\ stream' = [Away EXCEPT !.at = "dialled", !.said = ReportedTier(install)]
  /\ UNCHANGED <<row, install, overrides, picture, setter, bounds>>

\* What is left of NoteCeiling once the ceiling is on record.
Following(st) ==
  IF st.tier > st.said THEN [st EXCEPT !.at = "following", !.news = FALSE] ELSE Open

\* Mutant: an approval follows only a ceiling that is news.
RecheckNewsOnly ==
  /\ stream.at = "dialled"
  /\ LET st == [stream EXCEPT !.tier = row.tier, !.news = stream.said # row.ceiling]
     IN  stream' = IF st.news THEN [st EXCEPT !.at = "noting"] ELSE Open
  /\ UNCHANGED <<row, install, overrides, picture, setter, bounds>>

\* The row as it is now.  Whether the ceiling is news is judged from it, later.
Recheck ==
  /\ stream.at = "dialled"
  /\ LET st == [stream EXCEPT !.tier = row.tier, !.news = stream.said # row.ceiling]
     IN  stream' = IF st.news THEN [st EXCEPT !.at = "noting"] ELSE Following(st)
  /\ UNCHANGED <<row, install, overrides, picture, setter, bounds>>

RecordCeiling ==
  /\ stream.at = "noting"
  /\ row' = [row EXCEPT !.ceiling = stream.said]
  /\ stream' = Following(stream)
  /\ UNCHANGED <<install, overrides, picture, setter, bounds>>

FollowCeiling ==
  /\ stream.at = "following"
  /\ row' = [row EXCEPT !.tier = stream.said]
  /\ stream' = [stream EXCEPT !.at = "narrowing"]
  /\ UNCHANGED <<install, overrides, picture, setter, bounds>>

CeilingNarrows ==
  /\ stream.at = "narrowing"
  /\ held' = held \cap Covered(stream.said)
  /\ dirty' = TRUE
  /\ stream' = Open
  /\ UNCHANGED <<row, install, overrides, kept, setter, bounds>>

\* The store refuses: the stream goes on with the row as it was.
NoteFails ==
  /\ stream.at \in {"noting", "following"}
  /\ stream' = Open
  /\ Failed
  /\ UNCHANGED <<row, install, overrides, picture, setter>>

-----------------------------------------------------------------------------
\* A message with facts.  The agent may send whatever it likes.

\* The row is read, and what is above its tier dropped.
TakeSync ==
  /\ stream.at = "open"
  /\ \E facts \in SUBSET Facts, full \in BOOLEAN :
       stream' = [Open EXCEPT !.at = "sync", !.facts = facts \cap Covered(row.tier), !.full = full]
  /\ UNCHANGED <<row, install, overrides, picture, setter, bounds>>

\* dropConsentOverrides, with the overrides in memory.
CutOverrides ==
  /\ stream.at = "sync"
  /\ loaded
  /\ stream' = [stream EXCEPT !.at = "apply", !.facts = @ \ asked]
  /\ UNCHANGED <<row, install, overrides, picture, setter, bounds>>

\* Mutant: a full picture is merged like a change.
ApplyMerges ==
  /\ stream.at = "apply"
  /\ held' = held \cup stream.facts
  /\ dirty' = TRUE
  /\ stream' = [stream EXCEPT !.at = "persist", !.facts = {}]
  /\ UNCHANGED <<row, install, overrides, kept, setter, bounds>>

\* State.Apply: a full picture replaces the one held.
Apply ==
  /\ stream.at = "apply"
  /\ held' = IF stream.full THEN stream.facts ELSE held \cup stream.facts
  /\ dirty' = TRUE
  /\ stream' = [stream EXCEPT !.at = "persist", !.facts = {}]
  /\ UNCHANGED <<row, install, overrides, kept, setter, bounds>>

\* persist, forced by a full picture and on the way out: the picture to be stored is taken under the
\* lock and stored outside of it.
PersistTake ==
  /\ stream.at \in {"persist", "leaving"}
  /\ dirty
  /\ dirty' = FALSE
  /\ stream' = [Away EXCEPT !.at = IF stream.at = "persist" THEN "save" ELSE "lastSave", !.facts = held]
  /\ UNCHANGED <<row, install, overrides, held, kept, setter, bounds>>

\* Nothing has changed, or, for a change, the last save was a short time ago.
PersistSkip ==
  /\ \/ stream.at = "persist" /\ (~dirty \/ ~stream.full) /\ stream' = Open
     \/ stream.at = "leaving" /\ ~dirty /\ stream' = Away
  /\ UNCHANGED <<row, install, overrides, picture, setter, bounds>>

Saved == IF stream.at = "save" THEN Open ELSE Away

PersistSave ==
  /\ stream.at \in {"save", "lastSave"}
  /\ kept' = stream.facts
  /\ stream' = Saved
  /\ UNCHANGED <<row, install, overrides, held, dirty, setter, bounds>>

\* The picture was marked as handed over all the same.
SaveFails ==
  /\ stream.at \in {"save", "lastSave"}
  /\ stream' = Saved
  /\ Failed
  /\ UNCHANGED <<row, install, overrides, picture, setter>>

\* The certificate of the stream runs out (then the agent renews it and dials again).
Leave ==
  /\ stream.at = "open"
  /\ stream' = [Away EXCEPT !.at = "leaving"]
  /\ UNCHANGED <<row, install, overrides, picture, setter, bounds>>

\* Anything else that ends the stream: a broken connection, a message that is refused.
Breaks ==
  /\ stream.at \in {"dialled", "sync", "apply", "open"}
  /\ stream' = [Away EXCEPT !.at = "leaving"]
  /\ Failed
  /\ UNCHANGED <<row, install, overrides, picture, setter>>

-----------------------------------------------------------------------------
\* The server stops, at any moment, and starts again: Restore takes back the stored picture, and the
\* overrides of an agent that has any.
Restart ==
  /\ held' = kept
  /\ dirty' = FALSE
  /\ asked' = saved
  /\ loaded' = (saved # {})
  /\ lookup' = [l \in Lookups |-> NoLookup]
  /\ stream' = Away
  /\ setter' = [s \in Setters |-> Idle]
  /\ Failed
  /\ UNCHANGED <<row, install, saved, kept>>

Setting(s) ==
  \/ TierWrite(s) \/ TierNarrows(s)
  \/ ConsentSave(s) \/ ConsentPut(s) \/ ConsentNarrows(s)
Streaming ==
  \/ Dial \/ Recheck \/ RecordCeiling \/ FollowCeiling \/ CeilingNarrows
  \/ CutOverrides \/ Apply \/ PersistTake \/ PersistSkip \/ PersistSave

AccessNext ==
  \/ \E l \in Lookups : EnsureRead(l) \/ EnsureStore(l)
  \/ \E s \in Setters : TierRead(s) \/ ConsentRead(s) \/ Setting(s) \/ SetterFails(s)
  \/ HelmUpgrade
  \/ Streaming \/ NoteFails \/ TakeSync \/ SaveFails \/ Leave \/ Breaks
  \/ Restart

TakeFull == TakeSync /\ stream'.full

AccessFairness ==
  /\ \A l \in Lookups : WF_accessVars(EnsureRead(l)) /\ WF_accessVars(EnsureStore(l))
  /\ \A s \in Setters : WF_accessVars(Setting(s))
  /\ WF_accessVars(Streaming)
  /\ SF_accessVars(TakeFull)
  /\ SF_accessVars(Leave)

AccessSpec == AccessInit /\ [][AccessNext]_accessVars /\ AccessFairness

-----------------------------------------------------------------------------
(***************************************************************************)
(* Properties                                                              *)
(***************************************************************************)

Grantable == {t \in Tiers : t <= TokenCap /\ t <= Implemented}
Granted == {f \in Facts : Level[f] <= TokenCap /\ Level[f] <= Implemented}

\* Nothing above what the token allows, or above what this release honours, is ever approved, held
\* or stored, whatever an agent sends or its install states: a change in progress judged an earlier
\* row, and a ceiling is followed down from an earlier tier.
WithinGrant ==
  /\ row.tier \in Grantable
  /\ held \subseteq Granted /\ kept \subseteq Granted

\* The overrides in memory are the stored ones, whoever loaded them and whatever was set meanwhile,
\* unless a change stands between its save and its memory (ensureConsent, SetConsent).
ConsentAgrees ==
  loaded /\ (\A s \in Setters : setter[s].at # "put") => asked = saved

\* Why it holds: overrides are set only once they are loaded, so what a load under way has read is
\* still what is stored, and what is put in memory was stored last.
ConsentInv ==
  /\ ~loaded => /\ \A s \in Setters : setter[s].at \notin {"save", "put"}
                /\ \A l \in Lookups : lookup[l].busy => lookup[l].read = saved
  /\ \A s \in Setters : setter[s].at = "put" => saved = setter[s].left
  /\ ConsentAgrees

\* In the end the server holds, and keeps for its next start, only what the tier and the overrides in
\* force allow: through narrowings that race with a message, saves that fail and restarts that bring
\* an earlier picture back (narrowState, narrowConsent, persist, Restore).
NarrowedInTheEnd == <>[](held \cup kept \subseteq Covered(row.tier) \ asked)

\* In the end the server knows the ceiling of the install, and approves no more than it: a ceiling
\* that was noted when the tier could not be lowered is followed at a later connection (NoteCeiling).
CeilingIsKnown == <>[](row.ceiling = ReportedTier(install) /\ row.tier <= install)

\* The inductive invariant of HubAccessProof: what every handler carries on its way is granted too,
\* and a ceiling is only ever followed down.
CarriedGrant ==
  /\ stream.tier \in Grantable
  /\ stream.at = "following" => stream.said < stream.tier
  /\ stream.facts \subseteq Granted
  /\ \A s \in Setters : setter[s].tier \in Grantable

GrantInv == AccessTypeOK /\ WithinGrant /\ CarriedGrant

\* hub_consent.go:106-108: widening "takes an administrator".
OnlyAdminWidens ==
  [][row'.tier > row.tier => \E s \in Setters : setter[s].at = "tier" /\ setter[s].admin
                                                /\ setter'[s].at # "tier"]_accessVars

\* hub_consent.go:160: "what the server holds above the new tier goes now, not at the agent's next
\* full picture": it is gone once nobody is at work on it.
GoesNow ==
  (\A s \in Setters : setter[s].at = "idle") /\ stream.at \in {"out", "open"}
    => held \subseteq Covered(row.tier)

=============================================================================
