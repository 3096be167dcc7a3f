------------------------------ MODULE Tenants -------------------------------
(***************************************************************************)
(* The live state of one organisation (backend/internal/server/tenants.go) *)
(* and its deletion (accounts/auth.go): callers that look it up share one  *)
(* load, an agent's stream joins the hub it was handed, and an owner's     *)
(* request erases the rows and then stops the hub.  The platform keeps     *)
(* everything per organisation, so one organisation is enough.             *)
(*                                                                         *)
(* A caller is one request or one agent's stream.  It brings the           *)
(* organisation up at most once, so it also names the load it carries out, *)
(* the tenant that comes of it and its hub.                                *)
(***************************************************************************)
EXTENDS Naturals, FiniteSets

CONSTANTS
  Callers,    \* requests and streams that may be under way
  None        \* nil

ASSUME CallersAssumption == None \notin Callers

VARIABLES
  org,         \* the organisation, with its agents, is in the database
  tenant,      \* the entry of Platform.tenants
  loading,     \* the entry of Platform.loading
  load,        \* the tenantLoad of each caller that loads
  hubs,        \* hubs whose background work runs
  at,          \* where each caller is
  using,       \* the tenant or load a caller holds
  gone,        \* callers whose context has ended
  ended,       \* streams whose end waits for them
  dirty,       \* streams whose agent's picture is newer than what is stored
  kept         \* the snapshots table holds a picture of an agent of the organisation

platform == <<tenant, loading, load, hubs>>
streams == <<ended, dirty>>
tenantVars == <<org, platform, at, using, gone, streams, kept>>

Reason == {"none", "not found", "cancelled", "failed"}

LookingUp == {"calling", "waiting", "building", "restoring", "built"}
Streaming == {"registered", "serving", "handling", "leaving"}
Deleting == {"confirmed", "erased", "dropping"}
Holding == {"got", "confirmed"} \cup Streaming
Over == {"refused", "cancelled", "over"}
Place == {"idle", "got"} \cup LookingUp \cup Streaming \cup Deleting \cup Over

Loading(c) == at[c] \in {"building", "restoring", "built"}
Loads == [done : BOOLEAN, dropped : BOOLEAN, err : Reason]
NewLoad == [done |-> FALSE, dropped |-> FALSE, err |-> "none"]

TenantsTypeOK ==
  /\ org \in BOOLEAN
  /\ tenant \in Callers \cup {None}
  /\ loading \in Callers \cup {None}
  /\ load \in [Callers -> Loads]
  /\ hubs \subseteq Callers
  /\ at \in [Callers -> Place]
  /\ using \in [Callers -> Callers \cup {None}]
  /\ \A c \in Callers :
       at[c] \in {"waiting", "dropping"} \cup Holding => using[c] # None
  /\ gone \subseteq Callers
  /\ ended \subseteq Callers
  /\ dirty \subseteq Callers
  /\ kept \in BOOLEAN

\* The organisation exists and has not been used since the server started.
TenantsInit ==
  /\ org = TRUE
  /\ tenant = None
  /\ loading = None
  /\ load = [c \in Callers |-> NewLoad]
  /\ hubs = {}
  /\ at = [c \in Callers |-> "idle"]
  /\ using = [c \in Callers |-> None]
  /\ gone = {}
  /\ ended = {}
  /\ dirty = {}
  /\ kept \in BOOLEAN

Goes(c, place) == at' = [at EXCEPT ![c] = place]
Holds(c, t) == using' = [using EXCEPT ![c] = t]

-----------------------------------------------------------------------------
\* Looking the organisation up

Call(c) ==
  /\ at[c] = "idle"
  /\ Goes(c, "calling")
  /\ UNCHANGED <<org, platform, using, gone, streams, kept>>

\* The caller's context ends: the client has gone, or its deadline has passed.  Later on that
\* is one of the failures a caller may meet anyway.
GiveUp(c) ==
  /\ at[c] \in LookingUp
  /\ c \notin gone
  /\ gone' = gone \cup {c}
  /\ UNCHANGED <<org, platform, at, using, streams, kept>>

FindTenant(c) ==
  /\ at[c] = "calling"
  /\ tenant # None
  /\ Goes(c, "got")
  /\ Holds(c, tenant)
  /\ UNCHANGED <<org, platform, gone, streams, kept>>

JoinLoad(c) ==
  /\ at[c] = "calling"
  /\ tenant = None /\ loading # None
  /\ Goes(c, "waiting")
  /\ Holds(c, loading)
  /\ UNCHANGED <<org, platform, gone, streams, kept>>

\* Mutant: every caller that finds no tenant makes one.
MayLoadAnyway == tenant = None

\* The lock is held from the look to the entry.
MayLoad == tenant = None /\ loading = None

BeginLoad(c) ==
  /\ at[c] = "calling"
  /\ MayLoad
  /\ loading' = c
  /\ Goes(c, "building")
  /\ UNCHANGED <<org, tenant, load, hubs, using, gone, streams, kept>>

\* GetOrg: found, not there, or an error, which is the context's if that has ended.
ReadOrg(c) ==
  /\ at[c] = "building"
  /\ \/ org /\ Goes(c, "restoring") /\ UNCHANGED load
     \/ /\ Goes(c, "built")
        /\ \E err \in {"not found", "cancelled", "failed"} :
             /\ err = "not found" => ~org
             /\ err = "cancelled" => c \in gone
             /\ load' = [load EXCEPT ![c].err = err]
  /\ UNCHANGED <<org, tenant, loading, hubs, using, gone, streams, kept>>

\* The settings and what was stored are read, and the hub's background work starts.
StartHub(c) ==
  /\ at[c] = "restoring"
  /\ hubs' = hubs \cup {c}
  /\ Goes(c, "built")
  /\ UNCHANGED <<org, tenant, loading, load, using, gone, streams, kept>>

\* How the load comes out: an organisation deleted meanwhile is as good as not found.
Outcome(c) ==
  IF load[c].err = "none" /\ load[c].dropped THEN "not found" ELSE load[c].err

\* Mutant: those who wait are woken by a success only.
FinishLoadQuietly(c) ==
  /\ at[c] = "built"
  /\ loading' = None
  /\ load' = [load EXCEPT ![c] = [@ EXCEPT !.done = Outcome(c) = "none", !.err = Outcome(c)]]
  /\ IF Outcome(c) = "none"
     THEN tenant' = c /\ Holds(c, c) /\ Goes(c, "got") /\ UNCHANGED hubs
     ELSE hubs' = hubs \ {c} /\ Goes(c, "refused") /\ UNCHANGED <<tenant, using>>
  /\ UNCHANGED <<org, gone, streams, kept>>

\* What was built is entered, or stopped; those who wait are woken.
FinishLoad(c) ==
  /\ at[c] = "built"
  /\ loading' = None
  /\ load' = [load EXCEPT ![c] = [@ EXCEPT !.done = TRUE, !.err = Outcome(c)]]
  /\ IF Outcome(c) = "none"
     THEN tenant' = c /\ Holds(c, c) /\ Goes(c, "got") /\ UNCHANGED hubs
     ELSE hubs' = hubs \ {c}
          /\ Goes(c, IF Outcome(c) = "cancelled" THEN "cancelled" ELSE "refused")
          /\ UNCHANGED <<tenant, using>>
  /\ UNCHANGED <<org, gone, streams, kept>>

\* A load that failed because its own caller gave up says nothing about this one.
TriesAgain(c) == load[using[c]].err = "cancelled" /\ c \notin gone

Wake(c) ==
  /\ at[c] = "waiting"
  /\ load[using[c]].done
  /\ Goes(c, CASE load[using[c]].err = "none" -> "got"
               [] TriesAgain(c) -> "calling"
               [] load[using[c]].err = "cancelled" /\ ~TriesAgain(c) -> "cancelled"
               [] OTHER -> "refused")
  /\ UNCHANGED <<org, platform, using, gone, streams, kept>>

StopWaiting(c) ==
  /\ at[c] = "waiting"
  /\ c \in gone
  /\ Goes(c, "cancelled")
  /\ UNCHANGED <<org, platform, using, gone, streams, kept>>

-----------------------------------------------------------------------------
\* The stream of an agent of the organisation, in the hub it was handed (HubSession)

Register(c) ==
  /\ at[c] = "got"
  /\ Goes(c, "registered")
  /\ UNCHANGED <<org, platform, using, gone, streams, kept>>

\* Mutant: what the interceptor saw is enough.
AgentIsThereStill == TRUE

\* AuthorizeAgent: the agents go with the organisation.
AgentIsThere == org

Recheck(c) ==
  /\ at[c] = "registered"
  /\ Goes(c, IF AgentIsThere THEN "serving" ELSE "leaving")
  /\ UNCHANGED <<org, platform, using, gone, streams, kept>>

TakeMessage(c) ==
  /\ at[c] = "serving"
  /\ Goes(c, IF org THEN "handling" ELSE "leaving")
  /\ UNCHANGED <<org, platform, using, gone, streams, kept>>

\* A picture is applied; a whole one is stored at once, the others from time to time.
Apply(c) ==
  /\ at[c] = "handling"
  /\ \/ dirty' = dirty \cup {c} /\ UNCHANGED kept
     \/ dirty' = dirty \ {c} /\ kept' = TRUE
  /\ Goes(c, "serving")
  /\ UNCHANGED <<org, platform, using, gone, ended>>

TakeEnd(c) ==
  /\ at[c] = "serving"
  /\ c \in ended
  /\ Goes(c, "leaving")
  /\ UNCHANGED <<org, platform, using, gone, streams, kept>>

Fails(c) ==
  /\ at[c] \in {"registered", "serving", "handling"}
  /\ Goes(c, "leaving")
  /\ UNCHANGED <<org, platform, using, gone, streams, kept>>

\* What has not been stored yet is, with a deadline of its own; that may fail.
Cleanup(c) ==
  /\ at[c] = "leaving"
  /\ \/ c \in dirty /\ kept' = TRUE
     \/ UNCHANGED kept
  /\ Goes(c, "over")
  /\ dirty' = dirty \ {c}
  /\ UNCHANGED <<org, platform, using, gone, ended>>

-----------------------------------------------------------------------------
\* Deleting the organisation

\* The name is compared with the row's, which may have gone since.
Confirm(c) ==
  /\ at[c] = "got"
  /\ \/ org /\ Goes(c, "confirmed")
     \/ Goes(c, "refused")
  /\ UNCHANGED <<org, platform, using, gone, streams, kept>>

\* The statements find the snapshots by the agents that are still there, and report no error
\* when there is nothing left to delete.  Without its audit row the deletion is not done.
Erase(c) ==
  /\ at[c] = "confirmed"
  /\ \/ /\ Goes(c, "erased")
        /\ org' = FALSE
        /\ kept' = (kept /\ ~org)
     \/ Goes(c, "refused") /\ UNCHANGED <<org, kept>>
  /\ UNCHANGED <<platform, using, gone, streams>>

\* Mutant: the entry is stopped but left in the table.
DropKeepsEntry(c) ==
  /\ at[c] = "erased"
  /\ load' = [d \in Callers |-> IF d = loading THEN [load[d] EXCEPT !.dropped = TRUE] ELSE load[d]]
  /\ Holds(c, tenant)
  /\ Goes(c, IF tenant = None THEN "over" ELSE "dropping")
  /\ UNCHANGED <<org, tenant, loading, hubs, gone, streams, kept>>

Drop(c) ==
  /\ at[c] = "erased"
  /\ tenant' = None
  /\ load' = [d \in Callers |-> IF d = loading THEN [load[d] EXCEPT !.dropped = TRUE] ELSE load[d]]
  /\ Holds(c, tenant)
  /\ Goes(c, IF tenant = None THEN "over" ELSE "dropping")
  /\ UNCHANGED <<org, loading, hubs, gone, streams, kept>>

\* The streams in a hub's session table.
SessionsOf(t) == {s \in Callers : at[s] \in Streaming /\ using[s] = t}

\* Mutant: the streams are left to find out by themselves.
StopTenantOnly(c) ==
  /\ at[c] = "dropping"
  /\ hubs' = hubs \ {using[c]}
  /\ Goes(c, "over")
  /\ UNCHANGED <<org, tenant, loading, load, using, gone, streams, kept>>

\* DropAll, then stop.
StopTenant(c) ==
  /\ at[c] = "dropping"
  /\ ended' = ended \cup SessionsOf(using[c])
  /\ hubs' = hubs \ {using[c]}
  /\ Goes(c, "over")
  /\ UNCHANGED <<org, tenant, loading, load, using, gone, dirty, kept>>

\* Any other request is done with the tenant it was given.
Answer(c) ==
  /\ at[c] = "got"
  /\ Goes(c, "over")
  /\ UNCHANGED <<org, platform, using, gone, streams, kept>>

-----------------------------------------------------------------------------

LookUpStep(c) ==
  \/ FindTenant(c) \/ JoinLoad(c) \/ BeginLoad(c) \/ ReadOrg(c) \/ StartHub(c)
  \/ FinishLoad(c) \/ Wake(c) \/ StopWaiting(c)
StreamStep(c) ==
  \/ Register(c) \/ Recheck(c) \/ TakeMessage(c) \/ Apply(c) \/ TakeEnd(c)
  \/ Fails(c) \/ Cleanup(c)
DeleteStep(c) == Confirm(c) \/ Erase(c) \/ Drop(c) \/ StopTenant(c)

CallerStep(c) ==
  \/ Call(c) \/ GiveUp(c) \/ LookUpStep(c) \/ StreamStep(c) \/ DeleteStep(c) \/ Answer(c)

\* Every caller has come and gone.
AllOver == (\A c \in Callers : at[c] \in Over) /\ UNCHANGED tenantVars

TenantsNext == (\E c \in Callers : CallerStep(c)) \/ AllOver

\* A caller that is running goes on.  A stream that serves waits for messages, but select
\* takes its end in the end when one is there.
Moves(c) ==
  \/ LookUpStep(c) \/ Recheck(c) \/ Apply(c) \/ Cleanup(c) \/ Drop(c) \/ StopTenant(c)
TenantsFairness ==
  \A c \in Callers : WF_tenantVars(Moves(c)) /\ SF_tenantVars(TakeEnd(c))

TenantsSpec == TenantsInit /\ [][TenantsNext]_tenantVars /\ TenantsFairness

-----------------------------------------------------------------------------
\* Properties

BeingDeleted == \E c \in Callers : at[c] \in {"erased", "dropping"}

\* Two callers share one load: an organisation never has two hubs at work, which would each
\* write its history and push its own Configs (Tenant).
OneHub == Cardinality(hubs) <= 1

\* When a deletion has returned nothing of the organisation is left at work, and no later
\* caller, however stale what it knows, brings it up again (Tenant, drop, DeleteOrg).
DeletedIsDown == ~org /\ ~BeingDeleted => tenant = None /\ hubs = {}

\* Nor does one of its agents stay connected: a stream that serves, also one that joined the
\* hub after it was stopped, has its end waiting (drop, DropAll, Hub.Connect).
DeletedHasNoStream ==
  ~org /\ ~BeingDeleted => {c \in Callers : at[c] \in {"serving", "handling"}} \subseteq ended

\* Nobody is turned away because another caller gave up (Tenant).
OwnCancelOnly == \A c \in Callers : at[c] = "cancelled" => c \in gone

\* Nobody waits in vain: the load that a caller waits for is carried on with or has ended, in
\* whichever way (tenantLoad.done is closed on every path).
WaitsForSomebody ==
  \A c \in Callers : at[c] = "waiting" => Loading(using[c]) \/ load[using[c]].done

\* Every look-up returns, whatever becomes of the load it waits for.
CallReturns == \A c \in Callers : at[c] \in LookingUp ~> at[c] \notin LookingUp

\* The deletion ends the agents' streams, and none that joins later stays.
DeletedStreamsLeave == ~org ~> [](\A c \in Callers : at[c] \notin Streaming)

\* "A deleted organisation's data is gone and must not be written back": no picture of one of
\* its agents is in the table any more.
GoneIsNotWrittenBack == ~org => ~kept
=============================================================================
