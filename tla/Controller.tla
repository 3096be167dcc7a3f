----------------------------- MODULE Controller -----------------------------
(***************************************************************************)
(* The controller keeps one agent release installed in its namespace from  *)
(* IkhnosAgent resources: a work queue, one worker that reconciles one     *)
(* resource at a time, the resources with their finalizer and status, and  *)
(* the release (controller/run.go, reconcile.go, installer.go).            *)
(*                                                                         *)
(* Reconcile reads the resource once and acts on that copy; finalizer and  *)
(* status are written to the resource as it is then.  A call to Kubernetes *)
(* is one step; installing and uninstalling take time, and what is stopped *)
(* in between leaves a revision half done.  Helm goes on from a half done  *)
(* install and repeats a half done uninstall, but upgrades a release that  *)
(* is half uninstalled only from an earlier revision, if one is left.      *)
(***************************************************************************)
EXTENDS Naturals

CONSTANTS
  Names,        \* names of resources, in their order
  Specs,        \* what a resource may ask for
  Unreadable,   \* specs with problems of their own
  Refused,      \* specs above what this controller was given the permissions for
  Purging,      \* specs that ask for the identity to go with the release
  Tokens,       \* what the token Secret may hold
  Charts,       \* charts a build of the controller may carry
  None,         \* no token
  MaxChanges,   \* bound on what people do
  MaxFailures   \* bound on failed calls and restarts

ASSUME ControllerAssumption ==
  /\ Names \subseteq Nat /\ Names # {} /\ Specs # {}
  /\ Unreadable \subseteq Specs /\ Refused \subseteq Specs /\ Purging \subseteq Specs
  /\ None \notin Tokens /\ Charts # {}
  /\ MaxChanges \in Nat /\ MaxFailures \in Nat

VARIABLES
  res,       \* the resource of each name
  token,     \* what the token Secret holds
  release,   \* the release: its last revision, and whether an earlier one is on record as deployed
  chart,     \* the chart of the controller that runs
  queue,     \* names that wait for the worker
  worker,    \* where the one worker is, and the copy of the resource it goes by
  loose,     \* history: why a release may be there that no resource holds
  missed,    \* history: the release was removed by hand, which nothing watches
  changes, failures

cluster == <<res, token, release>>
history == <<loose, missed>>
bounds == <<changes, failures>>
ctlVars == <<cluster, chart, queue, worker, history, bounds>>

Phases == {"", "Pending", "Installing", "Ready", "Failed", "Invalid", "Blocked", "Deleting"}
Secret == Tokens \cup {None}
Values == [spec : Specs, token : Secret]
NoValues == CHOOSE v \in Values : v.token = None

Resource == [there : BOOLEAN, going : BOOLEAN, held : BOOLEAN, skip : BOOLEAN, spec : Specs,
             born : Nat, phase : Phases, hash : Values]
Absent == [there |-> FALSE, going |-> FALSE, held |-> FALSE, skip |-> FALSE, spec |-> NoValues.spec,
           born |-> 0, phase |-> "", hash |-> NoValues]

\* A "half" revision is a pending or a failed one: Apply marks the pending one failed.
Release == [st : {"none", "half", "deployed", "uninstalling"}, chart : Charts, values : Values, earlier : BOOLEAN]
FirstChart == CHOOSE v \in Charts : TRUE
NoRelease == [st |-> "none", chart |-> FirstChart, values |-> NoValues, earlier |-> FALSE]

Places == {"idle", "list", "hold", "token", "judge", "mark", "apply", "applying", "write",
           "finish", "look", "uninstall", "uninstalling", "letgo", "yield"}
FirstName == CHOOSE n \in Names : TRUE
Idle == [at |-> "idle", name |-> FirstName, obj |-> Absent, token |-> None, phase |-> ""]

ControllerTypeOK ==
  /\ res \in [Names -> Resource] /\ token \in Secret
  /\ release \in Release /\ chart \in Charts
  /\ queue \in SUBSET Names
  /\ worker \in [at : Places, name : Names, obj : Resource, token : Secret, phase : Phases]
  /\ loose \in BOOLEAN /\ missed \in BOOLEAN /\ changes \in Nat /\ failures \in Nat

ControllerInit ==
  /\ res = [n \in Names |-> Absent] /\ token \in Secret
  /\ release = NoRelease /\ chart = FirstChart
  /\ queue = {} /\ worker = Idle
  /\ loose = FALSE /\ missed = FALSE /\ changes = 0 /\ failures = 0

Changed == changes < MaxChanges /\ changes' = changes + 1 /\ UNCHANGED failures
Failed == failures < MaxFailures /\ failures' = failures + 1 /\ UNCHANGED changes

Existing == {n \in Names : res[n].there}
Held == {n \in Names : res[n].held}

\* ownerOf: the oldest, then the first by name.
Owns(n) ==
  /\ n \in Existing
  /\ \A m \in Existing \ {n} : res[n].born < res[m].born \/ (res[n].born = res[m].born /\ n < m)

-----------------------------------------------------------------------------
\* The queue and its events

\* AddFunc, UpdateFunc: a resource that changed is looked at again.
Updated(n, r) == res' = [res EXCEPT ![n] = r] /\ queue' = queue \cup {n}

\* Mutant: those who wait for the owner are not looked at when it goes.
GoneAlone(n) == res' = [res EXCEPT ![n] = Absent] /\ queue' = queue \cup {n}

\* DeleteFunc
Gone(n) == res' = [res EXCEPT ![n] = Absent] /\ queue' = queue \cup Existing

\* Every ten minutes every resource is looked at.
Resync ==
  /\ missed \/ ~(Existing \subseteq queue)
  /\ queue' = queue \cup Existing
  /\ missed' = FALSE
  /\ UNCHANGED <<cluster, chart, worker, loose, bounds>>

-----------------------------------------------------------------------------
\* People

\* Two resources may be created in the same second.
Create(n) ==
  /\ n \notin Existing
  /\ LET seconds == {res[m].born : m \in Existing} IN
     \E spec \in Specs, born \in {0} \cup seconds \cup {s + 1 : s \in seconds} :
       /\ \A s \in seconds : s <= born
       /\ Updated(n, [Absent EXCEPT !.there = TRUE, !.spec = spec, !.born = born])
  /\ Changed
  /\ UNCHANGED <<token, release, chart, worker, history>>

Edit(n) ==
  /\ n \in Existing
  /\ \E spec \in Specs \ {res[n].spec} : Updated(n, [res[n] EXCEPT !.spec = spec])
  /\ Changed
  /\ UNCHANGED <<token, release, chart, worker, history>>

\* The way out of an uninstall that cannot finish: the annotation SkipUninstall.
AskToSkip(n) ==
  /\ res[n].going /\ ~res[n].skip
  /\ Updated(n, [res[n] EXCEPT !.skip = TRUE])
  /\ Changed
  /\ UNCHANGED <<token, release, chart, worker, history>>

\* What no finalizer holds is gone at once.
Delete(n) ==
  /\ n \in Existing /\ ~res[n].going
  /\ IF res[n].held
     THEN Updated(n, [res[n] EXCEPT !.going = TRUE]) /\ UNCHANGED loose
     ELSE Gone(n) /\ loose' = (loose \/ (release.st # "none" /\ Held = {}))
  /\ Changed
  /\ UNCHANGED <<token, release, chart, worker, missed>>

TokenChanges ==
  /\ token' \in Secret \ {token}
  /\ Changed
  /\ UNCHANGED <<res, release, chart, queue, worker, history>>

RemovedByHand ==
  /\ release.st # "none" /\ worker.at \notin {"applying", "uninstalling"}
  /\ release' = NoRelease
  /\ missed' = TRUE
  /\ Changed
  /\ UNCHANGED <<res, token, chart, queue, worker, loose>>

-----------------------------------------------------------------------------
\* Reconcile

obj == worker.obj
At(place) == worker.at = place
Goes(place) == worker' = [worker EXCEPT !.at = place]
Ends(phase) == worker' = [worker EXCEPT !.at = "write", !.phase = phase]
Wanted == [spec |-> obj.spec, token |-> worker.token]

Take(n) ==
  /\ At("idle") /\ n \in queue
  /\ queue' = queue \ {n}
  /\ IF n \in Existing THEN worker' = [Idle EXCEPT !.at = "list", !.name = n, !.obj = res[n]]
                       ELSE UNCHANGED worker
  /\ UNCHANGED <<cluster, chart, history, bounds>>

\* The owner is installed or uninstalled; another one waits, and lets go of what it once held.
List ==
  /\ At("list")
  /\ CASE ~Owns(worker.name) /\ obj.going -> Goes("yield")
       [] ~Owns(worker.name) /\ ~obj.going -> Ends("Blocked")
       [] Owns(worker.name) /\ obj.going -> Goes("finish")
       [] Owns(worker.name) /\ ~obj.going -> Goes("hold")
  /\ UNCHANGED <<cluster, chart, queue, history, bounds>>

\* Mutant: the finalizer is not set.
HeldAnyway(n) == UNCHANGED <<res, queue>>

\* setFinalizer on: a resource that is gone by now is no error.
HoldNow(n) ==
  IF n \in Existing /\ ~res[n].held THEN Updated(n, [res[n] EXCEPT !.held = TRUE])
                                    ELSE UNCHANGED <<res, queue>>

Hold ==
  /\ At("hold")
  /\ IF obj.held THEN UNCHANGED <<res, queue, loose>>
     ELSE HoldNow(worker.name) /\ loose' = (loose \/ worker.name \notin Existing)
  /\ IF obj.spec \in Unreadable THEN Ends("Invalid") ELSE Goes("token")
  /\ UNCHANGED <<token, release, chart, missed, bounds>>

\* In matchPurge a spec that may not be installed leaves the release as it is.
ReadToken ==
  /\ At("token")
  /\ worker' = [worker EXCEPT !.token = token,
                  !.at = IF ~obj.going THEN "judge" ELSE IF obj.spec \in Refused THEN "uninstall" ELSE "apply"]
  /\ UNCHANGED <<cluster, chart, queue, history, bounds>>

\* Mutant: the chart the release was made from is not compared.
AsWantedOfAnyChart == release.st = "deployed" /\ release.values = Wanted
AsWanted == release.st = "deployed" /\ release.chart = chart /\ release.values = Wanted

FailedBefore == obj.phase = "Failed" /\ obj.hash = Wanted

Judge ==
  /\ At("judge")
  /\ IF worker.token = None /\ release.st = "none" THEN Ends("Pending")
     ELSE IF obj.spec \in Refused THEN Ends("Invalid")
     ELSE IF AsWanted THEN Ends("Ready")
     ELSE Goes(IF FailedBefore THEN "apply" ELSE "mark")
  /\ UNCHANGED <<cluster, chart, queue, history, bounds>>

\* setStatus: nothing is written to what is gone, or to what says so already.
Writes(phase, again) ==
  LET n == worker.name
      to == [res[n] EXCEPT !.phase = phase,
               !.hash = IF phase \in {"Installing", "Ready", "Failed"} THEN Wanted ELSE NoValues]
      news == IF n \in Existing /\ res[n] # to THEN {n} ELSE {} IN
  /\ res' = IF news # {} THEN [res EXCEPT ![n] = to] ELSE res
  /\ queue' = queue \cup news \cup again

Mark ==
  /\ At("mark")
  /\ Writes("Installing", {})
  /\ Goes("apply")
  /\ UNCHANGED <<token, release, chart, history, bounds>>

\* Helm upgrades from the revision that is deployed, or else from a last one that failed: a release
\* that is half uninstalled has neither, unless it was an upgrade that was half done before.
HelmRefuses == release.st = "uninstalling" /\ ~release.earlier

ApplyStarts ==
  /\ At("apply") /\ ~HelmRefuses
  /\ release' = [st |-> "half", chart |-> chart, values |-> Wanted,
                 earlier |-> release.st = "deployed" \/ release.earlier]
  /\ Goes("applying")
  /\ UNCHANGED <<res, token, chart, queue, history, bounds>>

\* Tried again like any other failure, and refused again.
ApplyRefused ==
  /\ At("apply") /\ HelmRefuses
  /\ IF obj.going THEN queue' = queue \cup {worker.name} /\ UNCHANGED res
                  ELSE Writes("Failed", {worker.name})
  /\ worker' = Idle
  /\ UNCHANGED <<token, release, chart, history, bounds>>

\* Before the new revision counts as deployed the earlier one is superseded; an uninstall deletes
\* its record before the last one's.
EarlierGoes ==
  /\ worker.at \in {"applying", "uninstalling"} /\ release.earlier
  /\ release' = [release EXCEPT !.earlier = FALSE]
  /\ UNCHANGED <<res, token, chart, queue, worker, history, bounds>>

ApplyEnds ==
  /\ At("applying") /\ ~release.earlier
  /\ release' = [release EXCEPT !.st = "deployed"]
  /\ IF obj.going THEN Goes("uninstall") ELSE Ends("Ready")
  /\ UNCHANGED <<res, token, chart, queue, history, bounds>>

\* What waits for its Secret is looked at again after thirty seconds.
WriteStatus ==
  /\ At("write")
  /\ Writes(worker.phase, IF worker.phase = "Pending" THEN {worker.name} ELSE {})
  /\ worker' = Idle
  /\ UNCHANGED <<token, release, chart, history, bounds>>

-----------------------------------------------------------------------------
\* finish

Finish ==
  /\ At("finish")
  /\ IF obj.skip
     THEN Goes("letgo") /\ loose' = TRUE /\ UNCHANGED <<res, queue>>
     ELSE Goes("look") /\ Writes("Deleting", {}) /\ UNCHANGED loose
  /\ UNCHANGED <<token, release, chart, missed, bounds>>

\* The hook that deletes the identity is part of the release as installed.
PurgeFits(spec) == spec \in Unreadable \/ (release.values.spec \in Purging <=> spec \in Purging)

Look ==
  /\ At("look")
  /\ Goes(IF release.st = "none" THEN "letgo" ELSE IF PurgeFits(obj.spec) THEN "uninstall" ELSE "token")
  /\ UNCHANGED <<cluster, chart, queue, history, bounds>>

UninstallStarts ==
  /\ At("uninstall")
  /\ release' = IF release.st = "none" THEN release ELSE [release EXCEPT !.st = "uninstalling"]
  /\ Goes("uninstalling")
  /\ UNCHANGED <<res, token, chart, queue, history, bounds>>

UninstallEnds ==
  /\ At("uninstalling") /\ ~release.earlier
  /\ release' = NoRelease
  /\ Goes("letgo")
  /\ UNCHANGED <<res, token, chart, queue, history, bounds>>

\* setFinalizer off
LetGo ==
  /\ worker.at \in {"letgo", "yield"}
  /\ IF res[worker.name].going THEN Gone(worker.name) ELSE UNCHANGED <<res, queue>>
  /\ worker' = Idle
  /\ loose' = (loose \/ (At("yield") /\ release.st # "none" /\ Existing = {worker.name}))
  /\ UNCHANGED <<token, release, chart, missed, bounds>>

-----------------------------------------------------------------------------
\* What goes wrong

\* A call is refused, or the resource was changed between its read and its write: tried again.
CallFails ==
  /\ worker.at \in {"list", "hold", "token", "judge", "mark", "write", "look", "uninstall", "uninstalling", "letgo",
                    "yield"}
  /\ queue' = queue \cup {worker.name}
  /\ worker' = Idle
  /\ Failed
  /\ UNCHANGED <<cluster, chart, history>>

\* Whether the failure can be told is not looked at.
ApplyFails ==
  /\ worker.at \in {"apply", "applying"}
  /\ \/ ~obj.going /\ Writes("Failed", {worker.name})
     \/ queue' = queue \cup {worker.name} /\ UNCHANGED res
  /\ worker' = Idle
  /\ Failed
  /\ UNCHANGED <<token, release, chart, history>>

\* That the status could not be written does not stop a deletion.
DeletingUntold ==
  /\ At("finish") /\ ~obj.skip
  /\ Goes("look")
  /\ Failed
  /\ UNCHANGED <<cluster, chart, queue, history>>

\* Nothing can be uninstalled in a namespace that is going itself.
NamespaceGoes ==
  /\ worker.at \in {"uninstall", "uninstalling"}
  /\ Goes("letgo")
  /\ loose' = TRUE
  /\ Failed
  /\ UNCHANGED <<cluster, chart, queue, missed>>

\* Another build may come up; its cache names every resource.
Restart ==
  /\ worker' = Idle
  /\ queue' = Existing
  /\ chart' \in Charts
  /\ missed' = FALSE
  /\ Failed
  /\ UNCHANGED <<cluster, loose>>

-----------------------------------------------------------------------------

WorkerStep ==
  \/ List \/ Hold \/ ReadToken \/ Judge \/ Mark \/ ApplyStarts \/ ApplyRefused \/ EarlierGoes \/ ApplyEnds
  \/ WriteStatus \/ Finish \/ Look \/ UninstallStarts \/ UninstallEnds \/ LetGo

ControllerNext ==
  \/ \E n \in Names : Create(n) \/ Edit(n) \/ AskToSkip(n) \/ Delete(n) \/ Take(n)
  \/ TokenChanges \/ RemovedByHand \/ Resync
  \/ WorkerStep \/ CallFails \/ ApplyFails \/ DeletingUntold \/ NamespaceGoes \/ Restart

\* The worker goes on, and the queue is served in turn.  People and failures are not fair.
ControllerFairness ==
  /\ WF_ctlVars(WorkerStep) /\ WF_ctlVars(Resync)
  /\ \A n \in Names : SF_ctlVars(Take(n))

ControllerSpec == ControllerInit /\ [][ControllerNext]_ctlVars /\ ControllerFairness

-----------------------------------------------------------------------------
\* Properties

\* The worker has the resource before it or will look at it without being told again.
Attended(n) == n \in queue \/ (worker.at # "idle" /\ worker.name = n)

\* A release is there only while a finalizer holds a resource until it is uninstalled, or the next
\* owner is about to hold it (Finalizer, apply, blocked).  `loose' names the ways out: the release
\* was left on purpose, a resource went before it was held, or one gave way to an older one that went.
InstalledIsHeld ==
  release.st # "none" => loose \/ Held # {} \/ \E n \in Existing : Attended(n)

\* What is not settled is with the worker or in the queue: a resource that is being deleted, one that
\* failed or waits, one that became the owner when another went, one whose release somebody else
\* changed or left half done.  Only a release removed by hand is noticed later, by the tick
\* (Run: DeleteFunc, AddRateLimited; apply: Deployed; Resync).
NoneIsForgotten ==
  \A n \in Existing :
    \/ Attended(n)
    \/ /\ ~res[n].going
       /\ Owns(n) => \/ res[n].phase = "Invalid"
                     \/ /\ res[n].phase = "Ready"
                        /\ missed \/ (release.st = "deployed" /\ release.values = res[n].hash)

\* What its owner asks of a half uninstalled release and Helm refuses for as long as it is asked:
\* an install, or the other choice about the identity before the uninstall is repeated.
Stuck(n) ==
  HelmRefuses /\ IF res[n].going THEN res[n].spec \notin Refused /\ ~PurgeFits(res[n].spec)
                                 ELSE res[n].spec \notin Refused \cup Unreadable

\* What the resources ask for is so, and their status says it.
OwnerSettled(n) ==
  CASE res[n].spec \in Unreadable -> res[n].phase = "Invalid"
    [] res[n].spec \notin Unreadable /\ token = None /\ release.st = "none" -> res[n].phase = "Pending"
    [] res[n].spec \in Refused \ Unreadable /\ ~(token = None /\ release.st = "none") -> res[n].phase = "Invalid"
    [] OTHER -> /\ res[n].phase = "Ready"
                /\ release = [st |-> "deployed", chart |-> chart, earlier |-> FALSE,
                              values |-> [spec |-> res[n].spec, token |-> token]]
Settled ==
  /\ \A n \in Existing :
       IF Owns(n) /\ Stuck(n) THEN res[n].phase = IF res[n].going THEN "Deleting" ELSE "Failed"
       ELSE ~res[n].going /\ IF Owns(n) THEN OwnerSettled(n) ELSE res[n].phase = "Blocked"
  /\ Existing = {} /\ release.st # "none" => loose

\* Once nobody changes anything and calls succeed, the cluster comes to what the resources ask for:
\* the owner is installed as it is now, those that are deleted go, and the next one takes over; or
\* Helm refuses what the owner asks of a half uninstalled release, and the owner keeps saying so
\* (Run, Reconcile, Apply).
Converges == []<>Settled
=============================================================================
