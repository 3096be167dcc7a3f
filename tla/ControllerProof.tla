--------------------------- MODULE ControllerProof ---------------------------
(***************************************************************************)
(* No release is left behind and no resource is forgotten, for any number  *)
(* of resources and changes.  The worker goes by a copy of the resource,   *)
(* so the invariant says what the copy still tells about the resource, or  *)
(* that the resource waits in the queue.                                   *)
(***************************************************************************)
EXTENDS Controller, WellFoundedInduction, TLAPS

\* A finalizer is on what is there, and what is being deleted has one.
OnlyHeldGoes ==
  \A n \in Names : /\ res[n].held => res[n].there
                   /\ res[n].going => res[n].held

\* Places in which the worker has taken the resource for the owner.
ForOwner == {"hold", "token", "judge", "mark", "apply", "applying", "finish", "look", "uninstall",
             "uninstalling", "letgo"}
Serves == worker.at \in ForOwner \/ (worker.at = "write" /\ worker.phase # "Blocked")

\* Which copies come to which place.
CopyFits ==
  /\ worker.at \in {"finish", "look", "uninstall", "uninstalling", "letgo", "yield"} => obj.going
  /\ worker.at \in {"hold", "judge", "mark", "write"} => ~obj.going
  /\ worker.at = "write" => worker.phase \in {"Blocked", "Invalid", "Pending", "Ready"}

\* The finalizer that the copy shows is still there, and a deletion that it does not show is in the queue.
CopyHolds ==
  worker.at # "idle" =>
    /\ obj.held => res[worker.name].held
    /\ obj.going => obj.held /\ res[worker.name].going
    /\ res[worker.name].going => obj.going \/ worker.name \in queue

\* What is installed is held, unless the resource went before it was.
HeldBefore ==
  worker.at \in {"token", "judge", "mark", "apply", "applying"}
    \/ (worker.at = "write" /\ worker.phase \in {"Invalid", "Ready"}) =>
      loose \/ res[worker.name].held

\* Whoever became the owner since the worker looked is in the queue.
OwnerKnown ==
  /\ Serves => \A n \in Names : Owns(n) => n = worker.name \/ n \in queue
  /\ worker.at = "write" /\ worker.phase = "Blocked" => worker.name \in queue \/ ~Owns(worker.name)

\* What is being installed is what the worker wants, and what it tells as installed still is, or was
\* removed by hand.
ReadyIsSo ==
  /\ worker.at = "applying" => release.values = Wanted
  /\ worker.at = "write" /\ worker.phase = "Ready" =>
       \/ worker.name \in queue \/ worker.name \notin Existing
       \/ missed \/ (release.st = "deployed" /\ release.values = Wanted)

LetsGoOfNothing == worker.at = "letgo" => release.st = "none" \/ loose

\* A status that speaks of the release is that of a resource that was held.
ToldIsHeld ==
  \A n \in Names : res[n].phase \in {"Installing", "Ready", "Failed", "Invalid"} => loose \/ res[n].held

NobodyLeft == release.st # "none" => loose \/ Existing # {}

ControllerInv ==
  /\ ControllerTypeOK /\ OnlyHeldGoes /\ CopyFits /\ CopyHolds /\ HeldBefore
  /\ OwnerKnown /\ ReadyIsSo /\ LetsGoOfNothing /\ ToldIsHeld /\ NobodyLeft /\ NoneIsForgotten

-----------------------------------------------------------------------------
\* The constants behind what is absent, idle or not installed.

Worker == [at : Places, name : Names, obj : Resource, token : Secret, phase : Phases]

\* There is a pair of a spec and no token to stand for no values.
LEMMA NoValuesFact == NoValues \in Values
<1>1. PICK s \in Specs : TRUE
  BY ControllerAssumption
<1>2. [spec |-> s, token |-> None] \in Values /\ [spec |-> s, token |-> None].token = None
  BY DEF Values, Secret
<1> QED BY <1>2 DEF NoValues

\* What is not there has the type of a resource, nothing holds it and it says nothing.
LEMMA AbsentFact == /\ Absent \in Resource
                    /\ ~Absent.there /\ ~Absent.held /\ ~Absent.going /\ Absent.phase = ""
<1>1. NoValues.spec \in Specs
  BY NoValuesFact DEF Values
<1> QED BY <1>1, NoValuesFact DEF Absent, Resource, Phases

\* The worker without a resource has the type of a worker.
LEMMA IdleFact == Idle \in Worker /\ Idle.at = "idle"
<1>1. FirstName \in Names
  BY ControllerAssumption DEF FirstName
<1> QED BY <1>1, AbsentFact DEF Idle, Worker, Places, Secret, Phases

\* No release has the type of a release.
LEMMA NoReleaseFact == NoRelease \in Release /\ NoRelease.st = "none"
<1>1. FirstChart \in Charts
  BY ControllerAssumption DEF FirstChart
<1> QED BY <1>1, NoValuesFact DEF NoRelease, Release

\* A resource stays one under the writes the code does.
LEMMA WritesKeepResource ==
  ASSUME NEW r \in Resource
  PROVE  /\ [r EXCEPT !.held = TRUE] \in Resource
         /\ [r EXCEPT !.skip = TRUE] \in Resource
         /\ [r EXCEPT !.going = TRUE] \in Resource
         /\ \A spec \in Specs : [r EXCEPT !.spec = spec] \in Resource
         /\ \A phase \in Phases, v \in Values : [r EXCEPT !.phase = phase, !.hash = v] \in Resource
  BY DEF Resource

\* A step to another place keeps the copy.
LEMMA GoesFact ==
  ASSUME worker \in Worker, NEW place \in Places, Goes(place)
  PROVE  /\ worker' \in Worker /\ worker'.at = place /\ worker'.name = worker.name
         /\ worker'.obj = worker.obj /\ worker'.token = worker.token /\ worker'.phase = worker.phase
  BY DEF Goes, Worker

\* So does the step to the write of a status.
LEMMA EndsFact ==
  ASSUME worker \in Worker, NEW phase \in Phases, Ends(phase)
  PROVE  /\ worker' \in Worker /\ worker'.at = "write" /\ worker'.name = worker.name
         /\ worker'.obj = worker.obj /\ worker'.token = worker.token /\ worker'.phase = phase
  BY DEF Ends, Worker, Places

\* The names of places and phases.
LEMMA PlacesFact ==
  /\ "list" \in Places /\ "hold" \in Places /\ "token" \in Places /\ "judge" \in Places
  /\ "mark" \in Places /\ "apply" \in Places /\ "applying" \in Places /\ "finish" \in Places
  /\ "look" \in Places /\ "uninstall" \in Places /\ "uninstalling" \in Places
  /\ "letgo" \in Places /\ "yield" \in Places
  BY DEF Places
LEMMA PhasesFact ==
  /\ "Pending" \in Phases /\ "Installing" \in Phases /\ "Ready" \in Phases /\ "Failed" \in Phases
  /\ "Invalid" \in Phases /\ "Blocked" \in Phases /\ "Deleting" \in Phases
  BY DEF Phases

\* What a replaced resource changes, and what it does not.
LEMMA UpdatedFact ==
  ASSUME res \in [Names -> Resource], queue \in SUBSET Names, NEW n \in Names,
         NEW r \in Resource, Updated(n, r)
  PROVE  /\ res' \in [Names -> Resource] /\ queue' \in SUBSET Names
         /\ res'[n] = r /\ \A m \in Names \ {n} : res'[m] = res[m]
         /\ queue' = queue \cup {n}
  BY DEF Updated

\* When a resource goes, all the others are looked at.
LEMMA GoneFact ==
  ASSUME res \in [Names -> Resource], queue \in SUBSET Names, NEW n \in Names, Gone(n)
  PROVE  /\ res' \in [Names -> Resource] /\ queue' \in SUBSET Names
         /\ res'[n] = Absent /\ \A m \in Names \ {n} : res'[m] = res[m]
         /\ queue' = queue \cup Existing
  BY AbsentFact DEF Gone, Existing

\* The status changes nothing but phase and hash, and a change is looked at.
LEMMA WritesFact ==
  ASSUME res \in [Names -> Resource], queue \in SUBSET Names, worker \in Worker,
         NEW phase \in Phases, NEW again \in SUBSET Names, Writes(phase, again)
  PROVE  /\ res' \in [Names -> Resource] /\ queue' \in SUBSET Names
         /\ \A m \in Names \ {worker.name} : res'[m] = res[m]
         /\ LET n == worker.name IN
            /\ res'[n].there = res[n].there /\ res'[n].held = res[n].held
            /\ res'[n].going = res[n].going /\ res'[n].born = res[n].born
            /\ res[n].there => res'[n].phase = phase
            /\ res[n].there /\ phase \in {"Installing", "Ready", "Failed"} => res'[n].hash = Wanted
            /\ ~res[n].there => res'[n] = res[n]
            /\ n \in queue' \/ res'[n] = res[n]
         /\ queue \cup again \subseteq queue'
<1> DEFINE n == worker.name
           v == IF phase \in {"Installing", "Ready", "Failed"} THEN Wanted ELSE NoValues
           to == [res[n] EXCEPT !.phase = phase, !.hash = v]
<1>1. n \in Names /\ res[n] \in Resource /\ v \in Values
  BY NoValuesFact DEF Worker, Wanted, obj, Values, Resource
<1>2. to \in Resource /\ to.there = res[n].there /\ to.held = res[n].held /\ to.going = res[n].going
        /\ to.born = res[n].born /\ to.phase = phase /\ to.hash = v
  BY <1>1 DEF Resource
<1>3. /\ res' = IF n \in Existing /\ res[n] # to THEN [res EXCEPT ![n] = to] ELSE res
      /\ queue' = queue \cup (IF n \in Existing /\ res[n] # to THEN {n} ELSE {}) \cup again
  BY DEF Writes
<1>4. CASE n \in Existing /\ res[n] # to
  <2>1. res' = [res EXCEPT ![n] = to] /\ queue' = queue \cup {n} \cup again
    BY <1>3, <1>4
  <2> HIDE DEF to
  <2>2. res'[n] = to /\ res' \in [Names -> Resource] /\ \A m \in Names \ {n} : res'[m] = res[m]
    BY <1>1, <1>2, <2>1
  <2> QED BY <1>1, <1>2, <1>4, <2>1, <2>2 DEF Existing
<1>5. CASE ~(n \in Existing /\ res[n] # to)
  <2>1. res' = res /\ queue' = queue \cup again
    BY <1>3, <1>5
  <2>2. res[n].there => res[n] = to
    BY <1>1, <1>5 DEF Existing
  <2> HIDE DEF to
  <2> QED BY <1>1, <1>2, <2>1, <2>2
<1> QED BY <1>4, <1>5

-----------------------------------------------------------------------------
\* What whole groups of steps keep.

\* Nobody becomes the owner while nobody goes.
LEMMA OwnerStays ==
  ASSUME NEW m \in Names, res[m].there, Owns(m)',
         \A k \in Names : res[k].there => res'[k].there /\ res'[k].born = res[k].born
  PROVE  Owns(m)
  BY DEF Owns, Existing

\* A worker without a resource has no copy to go by.
LEMMA IdleKeeps ==
  ASSUME worker' = Idle
  PROVE  /\ CopyFits' /\ CopyHolds' /\ HeldBefore' /\ OwnerKnown' /\ ReadyIsSo' /\ LetsGoOfNothing'
<1>1. worker'.at = "idle"
  BY IdleFact
<1> QED
  BY <1>1 DEF CopyFits, CopyHolds, HeldBefore, OwnerKnown, ReadyIsSo, LetsGoOfNothing, Serves, ForOwner, obj

\* The worker goes on with its copy, and nothing else changes.
LEMMA MoveKeeps ==
  ASSUME ControllerInv, worker.at # "idle", worker'.at # "idle",
         worker'.name = worker.name, worker'.obj = worker.obj,
         UNCHANGED <<res, release, queue, missed>>, loose => loose'
  PROVE  OnlyHeldGoes' /\ CopyHolds' /\ ToldIsHeld' /\ NobodyLeft' /\ NoneIsForgotten'
<1>1. OnlyHeldGoes'
  BY DEF ControllerInv, OnlyHeldGoes
<1>2. CopyHolds'
  BY DEF ControllerInv, CopyHolds, obj
<1>3. ToldIsHeld'
  BY DEF ControllerInv, ToldIsHeld
<1>4. NobodyLeft'
  BY DEF ControllerInv, NobodyLeft, Existing
<1>5. NoneIsForgotten'
  BY DEF ControllerInv, NoneIsForgotten, Existing, Owns, Attended
<1> QED BY <1>1, <1>2, <1>3, <1>4, <1>5

\* The worker changes the release of the owner: whoever could miss it has the worker before it or waits.
LEMMA ReleaseMoveKeeps ==
  ASSUME ControllerInv, worker.at \in ForOwner, worker'.at # "idle",
         worker'.name = worker.name, worker'.obj = worker.obj,
         UNCHANGED <<res, queue, loose, missed>>
  PROVE  OnlyHeldGoes' /\ CopyHolds' /\ ToldIsHeld' /\ NoneIsForgotten'
<1>0. worker.at # "idle"
  BY DEF ForOwner
<1>1. OnlyHeldGoes'
  BY DEF ControllerInv, OnlyHeldGoes
<1>2. CopyHolds'
  BY <1>0 DEF ControllerInv, CopyHolds, obj
<1>3. ToldIsHeld'
  BY DEF ControllerInv, ToldIsHeld
<1>4. \A n \in Names : Owns(n) => Attended(n)
  BY <1>0 DEF ControllerInv, OwnerKnown, Serves, Attended
<1>5. \A n \in Names : (Owns(n)' <=> Owns(n)) /\ (Attended(n) => Attended(n)')
  BY <1>0 DEF Owns, Existing, Attended
<1>6. NoneIsForgotten'
  BY <1>4, <1>5 DEF ControllerInv, NoneIsForgotten, Existing
<1> QED BY <1>1, <1>2, <1>3, <1>6

\* What every write to one resource keeps, whoever does it.
LEMMA WriteKeeps ==
  ASSUME OnlyHeldGoes, ToldIsHeld, NEW n \in Names, \A m \in Names \ {n} : res'[m] = res[m],
         res'[n].there = res[n].there, res'[n].born = res[n].born,
         res[n].held => res'[n].held, res[n].going => res'[n].going,
         res'[n].held => res'[n].there, res'[n].going => res'[n].held,
         res'[n].phase \in {"Installing", "Ready", "Failed", "Invalid"} => loose \/ res'[n].held,
         loose => loose'
  PROVE  /\ OnlyHeldGoes' /\ ToldIsHeld' /\ Existing' = Existing
         /\ \A m \in Names : Owns(m)' <=> Owns(m)
         /\ \A m \in Names : /\ res'[m].there = res[m].there
                             /\ res[m].held => res'[m].held
                             /\ res[m].going => res'[m].going
<1>1. \A m \in Names : /\ res'[m].there = res[m].there /\ res'[m].born = res[m].born
                       /\ res[m].held => res'[m].held
                       /\ res[m].going => res'[m].going
  <2>1. TAKE m \in Names
  <2>2. CASE m = n
    BY <2>2
  <2>3. CASE m # n
    BY <2>3
  <2> QED BY <2>2, <2>3
<1>2. OnlyHeldGoes'
  BY DEF OnlyHeldGoes
<1>3. ToldIsHeld'
  BY DEF ToldIsHeld
<1>4. Existing' = Existing
  BY <1>1 DEF Existing
<1>5. \A m \in Names : Owns(m)' <=> Owns(m)
  BY <1>1, <1>4 DEF Owns, Existing
<1> QED BY <1>1, <1>2, <1>3, <1>4, <1>5

\* One resource is written while the worker stays where it is: it is looked at again.
LEMMA TouchKeeps ==
  ASSUME ControllerInv, NEW n \in Names,
         queue' = queue \cup {n}, \A m \in Names \ {n} : res'[m] = res[m],
         res'[n].there = res[n].there, res'[n].born = res[n].born, res'[n].phase = res[n].phase,
         res[n].held => res'[n].held, res[n].going => res'[n].going,
         res'[n].held => res'[n].there, res'[n].going => res'[n].held,
         UNCHANGED <<worker, release, loose, missed>>
  PROVE  /\ OnlyHeldGoes' /\ CopyFits' /\ CopyHolds' /\ HeldBefore' /\ OwnerKnown' /\ ReadyIsSo'
         /\ LetsGoOfNothing' /\ ToldIsHeld' /\ NobodyLeft' /\ NoneIsForgotten'
<1>1. /\ OnlyHeldGoes' /\ ToldIsHeld' /\ Existing' = Existing
      /\ \A m \in Names : Owns(m)' <=> Owns(m)
      /\ \A m \in Names : /\ res'[m].there = res[m].there
                          /\ res[m].held => res'[m].held
                          /\ res[m].going => res'[m].going
  <2>1. res'[n].phase \in {"Installing", "Ready", "Failed", "Invalid"} => loose \/ res'[n].held
    BY DEF ControllerInv, ToldIsHeld
  <2> QED BY <2>1, WriteKeeps DEF ControllerInv
<1>2. CopyFits' /\ LetsGoOfNothing'
  BY DEF ControllerInv, CopyFits, LetsGoOfNothing, obj
<1>3. worker.name \in Names
  BY DEF ControllerInv, ControllerTypeOK
<1>4. CopyHolds'
  BY <1>1, <1>3 DEF ControllerInv, CopyHolds, obj
<1>5. HeldBefore'
  BY <1>1, <1>3 DEF ControllerInv, HeldBefore
<1>6. OwnerKnown'
  BY <1>1, <1>3 DEF ControllerInv, OwnerKnown, Serves
<1>7. ReadyIsSo'
  BY <1>1, <1>3 DEF ControllerInv, ReadyIsSo, Wanted, obj
<1>8. NobodyLeft'
  BY <1>1 DEF ControllerInv, NobodyLeft
<1>9. NoneIsForgotten'
  <2>1. Attended(n)' /\ \A m \in Names : Attended(m) => Attended(m)'
    BY DEF Attended
  <2>2. \A m \in Existing' : m \in Existing /\ m \in Names /\ (m # n => res'[m] = res[m])
    BY <1>1 DEF Existing
  <2> QED BY <1>1, <2>1, <2>2 DEF ControllerInv, NoneIsForgotten
<1> QED BY <1>1, <1>2, <1>4, <1>5, <1>6, <1>7, <1>8, <1>9

\* A resource that goes has the others looked at, and was not the last if it held what is installed.
LEMMA GoneKeeps ==
  ASSUME ControllerInv, NEW n \in Names, res'[n] = Absent, \A m \in Names \ {n} : res'[m] = res[m],
         queue' = queue \cup Existing, loose => loose'
  PROVE  /\ OnlyHeldGoes' /\ ToldIsHeld' /\ NoneIsForgotten' /\ Existing' = Existing \ {n}
<1>1. Existing' = Existing \ {n}
  BY AbsentFact DEF Existing
<1>2. OnlyHeldGoes'
  BY AbsentFact DEF ControllerInv, OnlyHeldGoes
<1>3. ToldIsHeld'
  BY AbsentFact DEF ControllerInv, ToldIsHeld
<1>4. NoneIsForgotten'
  <2>1. \A m \in Existing' : Attended(m)'
    BY <1>1 DEF Attended
  <2> QED BY <2>1 DEF NoneIsForgotten
<1> QED BY <1>1, <1>2, <1>3, <1>4

-----------------------------------------------------------------------------
\* People and what goes wrong.

\* The types, as the steps use them.
LEMMA Types ==
  ASSUME ControllerTypeOK
  PROVE  /\ res \in [Names -> Resource] /\ token \in Secret /\ release \in Release /\ chart \in Charts
         /\ queue \in SUBSET Names /\ worker \in Worker /\ worker.name \in Names
         /\ worker.obj \in Resource /\ Wanted \in Values
         /\ \A n \in Names : /\ res[n] \in Resource
                             /\ res[n].there \in BOOLEAN /\ res[n].held \in BOOLEAN
                             /\ res[n].going \in BOOLEAN
         /\ loose \in BOOLEAN /\ missed \in BOOLEAN /\ changes \in Nat /\ failures \in Nat
  BY DEF ControllerTypeOK, Worker, Resource, Wanted, Values, obj

\* A new resource is no owner without being looked at: it waits in the queue.
LEMMA CreateKeeps == ASSUME ControllerInv, NEW n \in Names, Create(n) PROVE ControllerInv'
<1>1. PICK spec \in Specs, born \in Nat : Updated(n, [Absent EXCEPT !.there = TRUE, !.spec = spec, !.born = born])
  <2>1. \A m \in Existing : res[m].born \in Nat
    BY DEF ControllerInv, ControllerTypeOK, Existing, Resource
  <2> DEFINE seconds == {res[m].born : m \in Existing}
  <2>2. \A born \in {0} \cup seconds \cup {s + 1 : s \in seconds} : born \in Nat
    BY <2>1
  <2>3. PICK spec \in Specs, born \in {0} \cup seconds \cup {s + 1 : s \in seconds} :
          Updated(n, [Absent EXCEPT !.there = TRUE, !.spec = spec, !.born = born])
    BY DEF Create
  <2> QED BY <2>2, <2>3
<1> DEFINE r == [Absent EXCEPT !.there = TRUE, !.spec = spec, !.born = born]
<1>2. /\ r \in Resource /\ r.there /\ ~r.held /\ ~r.going /\ r.phase = ""
  BY AbsentFact DEF Resource
<1> HIDE DEF r
<1>3. /\ res' \in [Names -> Resource] /\ queue' \in SUBSET Names
      /\ res'[n] = r /\ \A m \in Names \ {n} : res'[m] = res[m]
      /\ queue' = queue \cup {n}
  BY <1>1, <1>2, UpdatedFact, Types DEF ControllerInv, r
<1>4. /\ UNCHANGED <<token, release, chart, worker, loose, missed>>
      /\ changes' \in Nat /\ failures' \in Nat /\ ~res[n].there /\ ~res[n].held /\ ~res[n].going
  BY Types DEF Create, Changed, history, ControllerInv, Existing, OnlyHeldGoes
<1>5. \A m \in Names : res[m].there => res'[m].there /\ res'[m].born = res[m].born
  BY <1>3, <1>4
<1>6. ControllerTypeOK'
  BY <1>3, <1>4 DEF ControllerInv, ControllerTypeOK
<1>7. OnlyHeldGoes' /\ ToldIsHeld'
  BY <1>2, <1>3, <1>4 DEF ControllerInv, OnlyHeldGoes, ToldIsHeld
<1>8. CopyFits' /\ LetsGoOfNothing'
  BY <1>4 DEF ControllerInv, CopyFits, LetsGoOfNothing, obj
<1>9. CopyHolds'
  BY <1>2, <1>3, <1>4, Types DEF ControllerInv, CopyHolds, obj
<1>10. HeldBefore'
  BY <1>3, <1>4, Types DEF ControllerInv, HeldBefore
<1>11. \A m \in Names : Owns(m)' => m = n \/ Owns(m)
  <2>1. \A m \in Names \ {n} : Owns(m)' => res[m].there
    BY <1>3 DEF Owns, Existing
  <2> QED BY <1>5, <2>1, OwnerStays
<1>12. OwnerKnown'
  BY <1>3, <1>4, <1>11, Types DEF ControllerInv, OwnerKnown, Serves
<1>13. ReadyIsSo'
  BY <1>3, <1>4, Types DEF ControllerInv, ReadyIsSo, Existing, Wanted, obj
<1>14. NobodyLeft'
  BY <1>2, <1>3 DEF NobodyLeft, Existing
<1>15. NoneIsForgotten'
  <2>1. Attended(n)' /\ \A m \in Names : Attended(m) => Attended(m)'
    BY <1>3, <1>4 DEF Attended
  <2>2. \A m \in Existing' : m \in Names /\ (m # n => m \in Existing /\ res'[m] = res[m])
    BY <1>3 DEF Existing
  <2> QED BY <1>4, <1>11, <2>1, <2>2 DEF ControllerInv, NoneIsForgotten
<1> QED
  BY <1>6, <1>7, <1>8, <1>9, <1>10, <1>12, <1>13, <1>14, <1>15 DEF ControllerInv

\* An edit changes what is wanted, and the resource waits in the queue.
LEMMA EditKeeps == ASSUME ControllerInv, NEW n \in Names, Edit(n) PROVE ControllerInv'
<1>1. PICK spec \in Specs : Updated(n, [res[n] EXCEPT !.spec = spec])
  BY DEF Edit
<1> DEFINE r == [res[n] EXCEPT !.spec = spec]
<1>2. /\ r \in Resource /\ r.there = res[n].there /\ r.born = res[n].born /\ r.phase = res[n].phase
      /\ r.held = res[n].held /\ r.going = res[n].going
  BY Types DEF ControllerInv, Resource
<1> HIDE DEF r
<1>3. /\ res' \in [Names -> Resource] /\ queue' \in SUBSET Names
      /\ res'[n] = r /\ \A m \in Names \ {n} : res'[m] = res[m]
      /\ queue' = queue \cup {n}
  BY <1>1, <1>2, UpdatedFact, Types DEF ControllerInv, r
<1>4. /\ UNCHANGED <<token, release, chart, worker, loose, missed>>
      /\ changes' \in Nat /\ failures' \in Nat
  BY Types DEF Edit, Changed, history, ControllerInv
<1>5. ControllerTypeOK'
  BY <1>3, <1>4 DEF ControllerInv, ControllerTypeOK
<1>6. res[n].held => res[n].there
  BY DEF ControllerInv, OnlyHeldGoes
<1>7. res[n].going => res[n].held
  BY DEF ControllerInv, OnlyHeldGoes
<1> QED BY <1>2, <1>3, <1>4, <1>5, <1>6, <1>7, TouchKeeps DEF ControllerInv

\* So does the annotation that asks to leave the release as it is.
LEMMA AskToSkipKeeps == ASSUME ControllerInv, NEW n \in Names, AskToSkip(n) PROVE ControllerInv'
<1> DEFINE r == [res[n] EXCEPT !.skip = TRUE]
<1>1. Updated(n, r)
  BY DEF AskToSkip
<1>2. /\ r \in Resource /\ r.there = res[n].there /\ r.born = res[n].born /\ r.phase = res[n].phase
      /\ r.held = res[n].held /\ r.going = res[n].going
  BY Types DEF ControllerInv, Resource
<1> HIDE DEF r
<1>3. /\ res' \in [Names -> Resource] /\ queue' \in SUBSET Names
      /\ res'[n] = r /\ \A m \in Names \ {n} : res'[m] = res[m]
      /\ queue' = queue \cup {n}
  BY <1>1, <1>2, UpdatedFact, Types DEF ControllerInv
<1>4. /\ UNCHANGED <<token, release, chart, worker, loose, missed>>
      /\ changes' \in Nat /\ failures' \in Nat
  BY Types DEF AskToSkip, Changed, history, ControllerInv
<1>5. ControllerTypeOK'
  BY <1>3, <1>4 DEF ControllerInv, ControllerTypeOK
<1>6. res[n].held => res[n].there
  BY DEF ControllerInv, OnlyHeldGoes
<1>7. res[n].going => res[n].held
  BY DEF ControllerInv, OnlyHeldGoes
<1> QED BY <1>2, <1>3, <1>4, <1>5, <1>6, <1>7, TouchKeeps DEF ControllerInv

\* A deletion of what nothing holds is the one way in which a resource goes without the worker.
LEMMA DeleteKeeps == ASSUME ControllerInv, NEW n \in Names, Delete(n) PROVE ControllerInv'
<1>1. /\ UNCHANGED <<token, release, chart, worker, missed>> /\ changes' \in Nat /\ failures' \in Nat
      /\ res[n].there /\ ~res[n].going
  BY Types DEF Delete, Changed, ControllerInv, Existing
<1>2. CASE res[n].held
  <2> DEFINE r == [res[n] EXCEPT !.going = TRUE]
  <2>1. /\ r \in Resource /\ r.there = res[n].there /\ r.born = res[n].born /\ r.phase = res[n].phase
        /\ r.held = res[n].held /\ r.going
    BY Types DEF ControllerInv, Resource
  <2>2. Updated(n, r) /\ UNCHANGED loose
    BY <1>2 DEF Delete
  <2> HIDE DEF r
  <2>3. /\ res' \in [Names -> Resource] /\ queue' \in SUBSET Names
        /\ res'[n] = r /\ \A m \in Names \ {n} : res'[m] = res[m]
        /\ queue' = queue \cup {n}
    BY <2>1, <2>2, UpdatedFact, Types DEF ControllerInv
  <2>4. ControllerTypeOK'
    BY <1>1, <2>2, <2>3 DEF ControllerInv, ControllerTypeOK
  <2> QED BY <1>1, <1>2, <2>1, <2>2, <2>3, <2>4, TouchKeeps DEF ControllerInv
<1>3. CASE ~res[n].held
  <2>1. Gone(n) /\ loose' = (loose \/ (release.st # "none" /\ Held = {}))
    BY <1>3 DEF Delete
  <2>2. /\ res' \in [Names -> Resource] /\ queue' \in SUBSET Names
        /\ res'[n] = Absent /\ \A m \in Names \ {n} : res'[m] = res[m]
        /\ queue' = queue \cup Existing
    BY <2>1, GoneFact, Types DEF ControllerInv
  <2>3. loose' \in BOOLEAN /\ (loose => loose')
    BY <2>1, Types DEF ControllerInv
  <2>4. ControllerTypeOK'
    BY <1>1, <2>2, <2>3 DEF ControllerInv, ControllerTypeOK
  <2>5. OnlyHeldGoes' /\ ToldIsHeld' /\ NoneIsForgotten' /\ Existing' = Existing \ {n}
    BY <2>2, <2>3, GoneKeeps
  <2>6. CopyFits' /\ LetsGoOfNothing'
    BY <1>1, <2>3 DEF ControllerInv, CopyFits, LetsGoOfNothing, obj
  <2>7. CopyHolds'
    BY <1>1, <1>3, <2>2, AbsentFact, Types DEF ControllerInv, CopyHolds, obj
  <2>8. HeldBefore'
    BY <1>1, <1>3, <2>2, <2>3, Types DEF ControllerInv, HeldBefore
  <2>9. \A m \in Names : Owns(m)' => m \in queue'
    BY <2>2, <2>5 DEF Owns
  <2>10. OwnerKnown'
    <3>1. worker.name \in queue => worker.name \in queue'
      BY <2>2
    <3> QED BY <1>1, <2>9, <3>1, Types DEF ControllerInv, OwnerKnown, Serves
  <2>11. ReadyIsSo'
    BY <1>1, <2>2, <2>5, Types DEF ControllerInv, ReadyIsSo, Wanted, obj
  <2>12. NobodyLeft'
    <3>1. CASE Held = {}
      BY <1>1, <2>1, <3>1 DEF NobodyLeft
    <3>2. CASE Held # {}
      <4>1. PICK m \in Names : res[m].held
        BY <3>2 DEF Held
      <4>2. m # n /\ m \in Existing
        BY <1>3, <4>1 DEF ControllerInv, OnlyHeldGoes, Existing
      <4> QED BY <2>5, <4>2 DEF NobodyLeft
    <3> QED BY <3>1, <3>2
  <2> QED BY <2>4, <2>5, <2>6, <2>7, <2>8, <2>10, <2>11, <2>12 DEF ControllerInv
<1> QED BY <1>2, <1>3

\* The invariant does not speak of the token that the Secret holds now.
LEMMA TokenChangesKeeps == ASSUME ControllerInv, TokenChanges PROVE ControllerInv'
<1>1. /\ UNCHANGED <<res, release, chart, queue, worker, loose, missed>>
      /\ token' \in Secret /\ changes' \in Nat /\ failures' \in Nat
  BY Types DEF TokenChanges, Changed, history, ControllerInv
<1>2. ControllerTypeOK'
  BY <1>1 DEF ControllerInv, ControllerTypeOK
<1> QED
  BY <1>1, <1>2
  DEF ControllerInv, OnlyHeldGoes, CopyFits, CopyHolds, HeldBefore, OwnerKnown, ReadyIsSo, LetsGoOfNothing,
      ToldIsHeld, NobodyLeft, NoneIsForgotten, Serves, Existing, Owns, Attended, Wanted, obj

\* What is removed by hand is remembered as missed, and not while it is being installed.
LEMMA RemovedByHandKeeps == ASSUME ControllerInv, RemovedByHand PROVE ControllerInv'
<1>1. /\ UNCHANGED <<res, token, chart, queue, worker, loose>> /\ missed' = TRUE
      /\ release' = NoRelease /\ worker.at # "applying" /\ changes' \in Nat /\ failures' \in Nat
  BY Types DEF RemovedByHand, Changed, ControllerInv
<1>2. ControllerTypeOK'
  BY <1>1, NoReleaseFact DEF ControllerInv, ControllerTypeOK
<1>3. OnlyHeldGoes' /\ CopyFits' /\ CopyHolds' /\ HeldBefore' /\ ToldIsHeld'
  BY <1>1 DEF ControllerInv, OnlyHeldGoes, CopyFits, CopyHolds, HeldBefore, ToldIsHeld, obj
<1>4. OwnerKnown'
  BY <1>1 DEF ControllerInv, OwnerKnown, Serves, Owns, Existing
<1>5. ReadyIsSo' /\ LetsGoOfNothing' /\ NobodyLeft'
  BY <1>1, NoReleaseFact DEF ReadyIsSo, LetsGoOfNothing, NobodyLeft
<1>6. NoneIsForgotten'
  <2>1. \A n \in Names : (Owns(n)' <=> Owns(n)) /\ (Attended(n)' <=> Attended(n))
    BY <1>1 DEF Owns, Existing, Attended
  <2> QED BY <1>1, <2>1 DEF ControllerInv, NoneIsForgotten, Existing
<1> QED BY <1>2, <1>3, <1>4, <1>5, <1>6 DEF ControllerInv

\* The tick puts every resource that is there in the queue.
LEMMA ResyncKeeps == ASSUME ControllerInv, Resync PROVE ControllerInv'
<1>1. /\ UNCHANGED <<res, token, release, chart, worker, loose, changes, failures>>
      /\ queue' = queue \cup Existing /\ missed' = FALSE
  BY DEF Resync, cluster, bounds
<1>2. ControllerTypeOK'
  BY <1>1 DEF ControllerInv, ControllerTypeOK, Existing
<1>3. OnlyHeldGoes' /\ CopyFits' /\ CopyHolds' /\ HeldBefore' /\ ToldIsHeld' /\ LetsGoOfNothing'
  BY <1>1
  DEF ControllerInv, OnlyHeldGoes, CopyFits, CopyHolds, HeldBefore, ToldIsHeld, LetsGoOfNothing, obj
<1>4. OwnerKnown'
  BY <1>1 DEF ControllerInv, OwnerKnown, Serves, Owns, Existing
<1>5. NobodyLeft'
  BY <1>1 DEF ControllerInv, NobodyLeft, Existing
<1>6. ReadyIsSo'
  <2>1. worker.name \in Names
    BY Types DEF ControllerInv
  <2> QED BY <1>1, <2>1 DEF ControllerInv, ReadyIsSo, Existing, Wanted, obj
<1>7. NoneIsForgotten'
  BY <1>1 DEF NoneIsForgotten, Attended, Existing
<1> QED BY <1>2, <1>3, <1>4, <1>5, <1>6, <1>7 DEF ControllerInv

\* A call that fails ends the reconcile and leaves its resource in the queue.
LEMMA CallFailsKeeps == ASSUME ControllerInv, CallFails PROVE ControllerInv'
<1>1. /\ UNCHANGED <<res, token, release, chart, loose, missed>> /\ changes' \in Nat /\ failures' \in Nat
      /\ queue' = queue \cup {worker.name} /\ worker' = Idle
  BY Types DEF CallFails, Failed, cluster, history, ControllerInv
<1>2. ControllerTypeOK'
  BY <1>1, IdleFact, Types DEF ControllerInv, ControllerTypeOK, Worker
<1>3. OnlyHeldGoes' /\ ToldIsHeld' /\ NobodyLeft'
  BY <1>1 DEF ControllerInv, OnlyHeldGoes, ToldIsHeld, NobodyLeft, Existing
<1>4. NoneIsForgotten'
  <2>1. \A n \in Names : (Owns(n)' <=> Owns(n)) /\ (Attended(n) => Attended(n)')
    BY <1>1 DEF Owns, Existing, Attended
  <2> QED BY <1>1, <2>1 DEF ControllerInv, NoneIsForgotten, Existing
<1> QED BY <1>1, <1>2, <1>3, <1>4, IdleKeeps DEF ControllerInv

\* A restart looks at every resource again.
LEMMA RestartKeeps == ASSUME ControllerInv, Restart PROVE ControllerInv'
<1>1. /\ UNCHANGED <<res, token, release, loose>> /\ changes' \in Nat /\ failures' \in Nat
      /\ queue' = Existing /\ worker' = Idle /\ chart' \in Charts /\ missed' = FALSE
  BY Types DEF Restart, Failed, cluster, ControllerInv
<1>2. ControllerTypeOK'
  BY <1>1, IdleFact DEF ControllerInv, ControllerTypeOK, Worker, Existing
<1>3. OnlyHeldGoes' /\ ToldIsHeld' /\ NobodyLeft'
  BY <1>1 DEF ControllerInv, OnlyHeldGoes, ToldIsHeld, NobodyLeft, Existing
<1>4. NoneIsForgotten'
  BY <1>1 DEF NoneIsForgotten, Attended, Existing
<1> QED BY <1>1, <1>2, <1>3, <1>4, IdleKeeps DEF ControllerInv

\* A deletion that could not be told goes on as one that was.
LEMMA DeletingUntoldKeeps == ASSUME ControllerInv, DeletingUntold PROVE ControllerInv'
<1>1. /\ UNCHANGED <<res, token, release, chart, queue, loose, missed>> /\ failures' \in Nat /\ changes' \in Nat
      /\ worker.at = "finish" /\ Goes("look")
  BY Types DEF DeletingUntold, Failed, cluster, history, At, ControllerInv
<1>2. /\ worker' \in Worker /\ worker'.at = "look" /\ worker'.name = worker.name
      /\ worker'.obj = worker.obj
  BY <1>1, GoesFact, PlacesFact, Types DEF ControllerInv
<1>3. ControllerTypeOK'
  BY <1>1, <1>2 DEF ControllerInv, ControllerTypeOK, Worker
<1>4. OnlyHeldGoes' /\ CopyHolds' /\ ToldIsHeld' /\ NobodyLeft' /\ NoneIsForgotten'
  BY <1>1, <1>2, MoveKeeps
<1>5. CopyFits' /\ HeldBefore' /\ ReadyIsSo' /\ LetsGoOfNothing'
  BY <1>1, <1>2 DEF ControllerInv, CopyFits, HeldBefore, ReadyIsSo, LetsGoOfNothing, obj
<1>6. OwnerKnown'
  BY <1>1, <1>2 DEF ControllerInv, OwnerKnown, Serves, ForOwner, Owns, Existing
<1> QED BY <1>3, <1>4, <1>5, <1>6 DEF ControllerInv

\* Letting go without an uninstall is one of the ways out that `loose' names.
LEMMA NamespaceGoesKeeps == ASSUME ControllerInv, NamespaceGoes PROVE ControllerInv'
<1>1. /\ UNCHANGED <<res, token, release, chart, queue, missed>> /\ failures' \in Nat /\ changes' \in Nat
      /\ worker.at \in {"uninstall", "uninstalling"} /\ Goes("letgo") /\ loose' = TRUE
  BY Types DEF NamespaceGoes, Failed, cluster, ControllerInv
<1>2. /\ worker' \in Worker /\ worker'.at = "letgo" /\ worker'.name = worker.name
      /\ worker'.obj = worker.obj
  BY <1>1, GoesFact, PlacesFact, Types DEF ControllerInv
<1>3. ControllerTypeOK'
  BY <1>1, <1>2 DEF ControllerInv, ControllerTypeOK, Worker
<1>4. OnlyHeldGoes' /\ CopyHolds' /\ ToldIsHeld' /\ NobodyLeft' /\ NoneIsForgotten'
  BY <1>1, <1>2, MoveKeeps
<1>5. CopyFits' /\ HeldBefore' /\ ReadyIsSo' /\ LetsGoOfNothing'
  BY <1>1, <1>2 DEF ControllerInv, CopyFits, HeldBefore, ReadyIsSo, LetsGoOfNothing, obj
<1>6. OwnerKnown'
  BY <1>1, <1>2 DEF ControllerInv, OwnerKnown, Serves, ForOwner, Owns, Existing
<1> QED BY <1>3, <1>4, <1>5, <1>6 DEF ControllerInv

-----------------------------------------------------------------------------
\* The steps of the worker.

\* There is one owner at most.
LEMMA OneOwner == ASSUME ControllerTypeOK, NEW n \in Names, NEW m \in Names, Owns(n), Owns(m) PROVE n = m
<1>1. n \in Nat /\ m \in Nat /\ res[n].born \in Nat /\ res[m].born \in Nat
  BY ControllerAssumption DEF ControllerTypeOK, Resource
<1> QED BY <1>1 DEF Owns

\* The worker writes to the resource it reconciles, and goes on with it or leaves it in the queue.
LEMMA WorkerWriteKeeps ==
  ASSUME ControllerInv, NEW n \in Names, worker.name = n, \A m \in Names \ {n} : res'[m] = res[m],
         res'[n].there = res[n].there, res'[n].born = res[n].born,
         res[n].held => res'[n].held, res'[n].going = res[n].going,
         res'[n].held => res'[n].there,
         res'[n].phase \in {"Installing", "Ready", "Failed", "Invalid"} => loose \/ res'[n].held,
         queue \subseteq queue', Attended(n)',
         UNCHANGED <<release, missed>>, loose => loose'
  PROVE  /\ OnlyHeldGoes' /\ ToldIsHeld' /\ NobodyLeft' /\ NoneIsForgotten'
         /\ \A m \in Names : Owns(m)' <=> Owns(m)
<1>1. res[n].going => res'[n].held
  BY DEF ControllerInv, OnlyHeldGoes
<1>2. /\ OnlyHeldGoes' /\ ToldIsHeld' /\ Existing' = Existing
      /\ \A m \in Names : Owns(m)' <=> Owns(m)
  BY <1>1, WriteKeeps DEF ControllerInv
<1>3. NobodyLeft'
  BY <1>2 DEF ControllerInv, NobodyLeft
<1>4. NoneIsForgotten'
  <2>1. \A m \in Names \ {n} : Attended(m) => Attended(m)'
    BY DEF Attended
  <2>2. \A m \in Existing' : m \in Existing /\ m \in Names /\ (m # n => res'[m] = res[m])
    BY <1>2 DEF Existing
  <2> QED BY <1>2, <2>1, <2>2 DEF ControllerInv, NoneIsForgotten
<1> QED BY <1>2, <1>3, <1>4

\* The worker reads the resource it takes, so its copy is true at first.
LEMMA TakeKeeps == ASSUME ControllerInv, NEW n \in Names, Take(n) PROVE ControllerInv'
<1>1. /\ UNCHANGED <<res, token, release, chart, loose, missed, changes, failures>>
      /\ worker.at = "idle" /\ queue' = queue \ {n}
  BY DEF Take, cluster, history, bounds, At
<1>2. OnlyHeldGoes' /\ ToldIsHeld' /\ NobodyLeft'
  BY <1>1 DEF ControllerInv, OnlyHeldGoes, ToldIsHeld, NobodyLeft, Existing
<1>3. \A m \in Names : Owns(m)' <=> Owns(m)
  BY <1>1 DEF Owns, Existing
<1>4. CASE n \in Existing
  <2>1. worker' = [Idle EXCEPT !.at = "list", !.name = n, !.obj = res[n]]
    BY <1>4 DEF Take
  <2>2. /\ worker' \in Worker /\ worker'.at = "list" /\ worker'.name = n /\ worker'.obj = res[n]
    BY <2>1, IdleFact, PlacesFact, Types DEF ControllerInv, Worker
  <2>3. ControllerTypeOK'
    BY <1>1, <2>2 DEF ControllerInv, ControllerTypeOK, Worker
  <2>4. CopyFits' /\ HeldBefore' /\ ReadyIsSo' /\ LetsGoOfNothing' /\ OwnerKnown'
    BY <2>2 DEF CopyFits, HeldBefore, ReadyIsSo, LetsGoOfNothing, OwnerKnown, Serves, ForOwner
  <2>5. CopyHolds'
    BY <1>1, <2>2 DEF ControllerInv, CopyHolds, OnlyHeldGoes, obj
  <2>6. NoneIsForgotten'
    <3>1. \A m \in Names : Attended(m) => Attended(m)'
      BY <1>1, <2>2 DEF Attended
    <3> QED BY <1>1, <1>3, <3>1 DEF ControllerInv, NoneIsForgotten, Existing
  <2> QED BY <1>2, <2>3, <2>4, <2>5, <2>6 DEF ControllerInv
<1>5. CASE n \notin Existing
  <2>1. worker' = worker
    BY <1>5 DEF Take
  <2>2. ControllerTypeOK'
    BY <1>1, <2>1 DEF ControllerInv, ControllerTypeOK
  <2>3. CopyFits' /\ CopyHolds' /\ HeldBefore' /\ ReadyIsSo' /\ LetsGoOfNothing' /\ OwnerKnown'
    BY <1>1, <2>1
    DEF CopyFits, CopyHolds, HeldBefore, ReadyIsSo, LetsGoOfNothing, OwnerKnown, Serves, ForOwner
  <2>4. NoneIsForgotten'
    <3>1. \A m \in Names \ {n} : Attended(m) => Attended(m)'
      BY <1>1, <2>1 DEF Attended
    <3>2. \A m \in Existing' : m \in Existing /\ m \in Names /\ m # n
      BY <1>1, <1>5 DEF Existing
    <3> QED BY <1>1, <1>3, <3>1, <3>2 DEF ControllerInv, NoneIsForgotten
  <2> QED BY <1>2, <2>2, <2>3, <2>4 DEF ControllerInv
<1> QED BY <1>4, <1>5

\* The owner and no other goes on to hold or to finish.
LEMMA ListKeeps == ASSUME ControllerInv, List PROVE ControllerInv'
<1>1. /\ UNCHANGED <<res, token, release, chart, queue, loose, missed, changes, failures>>
      /\ worker.at = "list"
  BY DEF List, cluster, history, bounds, At
<1>2. \/ obj.going /\ Goes("yield")
      \/ ~obj.going /\ ~Owns(worker.name) /\ Ends("Blocked")
      \/ obj.going /\ Owns(worker.name) /\ Goes("finish")
      \/ ~obj.going /\ Owns(worker.name) /\ Goes("hold")
  BY Types DEF List, ControllerInv, obj, Resource
<1>3. /\ worker' \in Worker /\ worker'.name = worker.name /\ worker'.obj = worker.obj
      /\ \/ obj.going /\ worker'.at = "yield"
         \/ ~obj.going /\ ~Owns(worker.name) /\ worker'.at = "write" /\ worker'.phase = "Blocked"
         \/ obj.going /\ Owns(worker.name) /\ worker'.at = "finish"
         \/ ~obj.going /\ Owns(worker.name) /\ worker'.at = "hold"
  BY <1>2, GoesFact, EndsFact, PlacesFact, PhasesFact, Types DEF ControllerInv
<1>4. ControllerTypeOK'
  BY <1>1, <1>3 DEF ControllerInv, ControllerTypeOK, Worker
<1>5. OnlyHeldGoes' /\ CopyHolds' /\ ToldIsHeld' /\ NobodyLeft' /\ NoneIsForgotten'
  BY <1>1, <1>3, MoveKeeps
<1>6. CopyFits' /\ HeldBefore' /\ ReadyIsSo' /\ LetsGoOfNothing'
  BY <1>3 DEF CopyFits, HeldBefore, ReadyIsSo, LetsGoOfNothing, obj
<1>7. OwnerKnown'
  <2>1. \A n \in Names : Owns(n)' <=> Owns(n)
    BY <1>1 DEF Owns, Existing
  <2>2. Owns(worker.name) => \A n \in Names : Owns(n) => n = worker.name
    BY OneOwner, Types DEF ControllerInv
  <2>3. worker.name \in Names
    BY Types DEF ControllerInv
  <2> QED BY <1>1, <1>3, <2>1, <2>2, <2>3 DEF OwnerKnown, Serves, ForOwner
<1> QED BY <1>4, <1>5, <1>6, <1>7 DEF ControllerInv

\* The token is read for a resource that is held.
LEMMA ReadTokenKeeps == ASSUME ControllerInv, ReadToken PROVE ControllerInv'
<1>1. /\ UNCHANGED <<res, token, release, chart, queue, loose, missed, changes, failures>>
      /\ worker.at = "token"
  BY DEF ReadToken, cluster, history, bounds, At
<1>2. /\ worker' \in Worker /\ worker'.name = worker.name /\ worker'.obj = worker.obj
      /\ \/ ~obj.going /\ worker'.at = "judge"
         \/ obj.going /\ worker'.at \in {"uninstall", "apply"}
  BY PlacesFact, Types DEF ReadToken, ControllerInv, Worker
<1>3. ControllerTypeOK'
  BY <1>1, <1>2 DEF ControllerInv, ControllerTypeOK, Worker
<1>4. OnlyHeldGoes' /\ CopyHolds' /\ ToldIsHeld' /\ NobodyLeft' /\ NoneIsForgotten'
  BY <1>1, <1>2, MoveKeeps
<1>5. CopyFits' /\ HeldBefore' /\ ReadyIsSo' /\ LetsGoOfNothing'
  BY <1>1, <1>2 DEF ControllerInv, CopyFits, HeldBefore, ReadyIsSo, LetsGoOfNothing, obj
<1>6. OwnerKnown'
  BY <1>1, <1>2 DEF ControllerInv, OwnerKnown, Serves, ForOwner, Owns, Existing
<1> QED BY <1>3, <1>4, <1>5, <1>6 DEF ControllerInv

\* What is told as ready is what was found deployed.
LEMMA JudgeKeeps == ASSUME ControllerInv, Judge PROVE ControllerInv'
<1>1. /\ UNCHANGED <<res, token, release, chart, queue, loose, missed, changes, failures>>
      /\ worker.at = "judge"
  BY DEF Judge, cluster, history, bounds, At
<1>2. \/ Ends("Pending")
      \/ Ends("Invalid")
      \/ AsWanted /\ Ends("Ready")
      \/ Goes("apply") \/ Goes("mark")
  BY DEF Judge
<1>3. /\ worker' \in Worker /\ worker'.name = worker.name /\ worker'.obj = worker.obj
      /\ worker'.token = worker.token
      /\ \/ worker'.at = "write" /\ worker'.phase \in {"Pending", "Invalid"}
         \/ AsWanted /\ worker'.at = "write" /\ worker'.phase = "Ready"
         \/ worker'.at \in {"apply", "mark"}
  BY <1>2, GoesFact, EndsFact, PlacesFact, PhasesFact, Types DEF ControllerInv
<1>4. ControllerTypeOK'
  BY <1>1, <1>3 DEF ControllerInv, ControllerTypeOK, Worker
<1>5. OnlyHeldGoes' /\ CopyHolds' /\ ToldIsHeld' /\ NobodyLeft' /\ NoneIsForgotten'
  BY <1>1, <1>3, MoveKeeps
<1>6. CopyFits' /\ HeldBefore' /\ ReadyIsSo' /\ LetsGoOfNothing'
  BY <1>1, <1>3
  DEF ControllerInv, CopyFits, HeldBefore, ReadyIsSo, LetsGoOfNothing, AsWanted, Wanted, obj
<1>7. OwnerKnown'
  BY <1>1, <1>3 DEF ControllerInv, OwnerKnown, Serves, ForOwner, Owns, Existing
<1> QED BY <1>4, <1>5, <1>6, <1>7 DEF ControllerInv

\* A deletion lets go at once only where there is no release.
LEMMA LookKeeps == ASSUME ControllerInv, Look PROVE ControllerInv'
<1>1. /\ UNCHANGED <<res, token, release, chart, queue, loose, missed, changes, failures>>
      /\ worker.at = "look"
      /\ \/ release.st = "none" /\ Goes("letgo")
         \/ Goes("uninstall") \/ Goes("token")
  BY DEF Look, cluster, history, bounds, At
<1>2. /\ worker' \in Worker /\ worker'.name = worker.name /\ worker'.obj = worker.obj
      /\ \/ release.st = "none" /\ worker'.at = "letgo"
         \/ worker'.at \in {"uninstall", "token"}
  BY <1>1, GoesFact, PlacesFact, Types DEF ControllerInv
<1>3. ControllerTypeOK'
  BY <1>1, <1>2 DEF ControllerInv, ControllerTypeOK, Worker
<1>4. OnlyHeldGoes' /\ CopyHolds' /\ ToldIsHeld' /\ NobodyLeft' /\ NoneIsForgotten'
  BY <1>1, <1>2, MoveKeeps
<1>5. CopyFits' /\ HeldBefore' /\ ReadyIsSo' /\ LetsGoOfNothing'
  BY <1>1, <1>2 DEF ControllerInv, CopyFits, CopyHolds, HeldBefore, ReadyIsSo, LetsGoOfNothing, obj
<1>6. OwnerKnown'
  BY <1>1, <1>2 DEF ControllerInv, OwnerKnown, Serves, ForOwner, Owns, Existing
<1> QED BY <1>3, <1>4, <1>5, <1>6 DEF ControllerInv

\* The finalizer is set before anything is installed, or the resource was gone by then.
LEMMA HoldKeeps == ASSUME ControllerInv, Hold PROVE ControllerInv'
<1>0. PICK n \in Names : n = worker.name
  BY Types DEF ControllerInv
<1>1. /\ UNCHANGED <<token, release, chart, missed, changes, failures>>
      /\ worker.at = "hold" /\ ~obj.going
  BY <1>0, Types DEF Hold, bounds, At, ControllerInv, CopyFits
<1>2. /\ worker' \in Worker /\ worker'.name = n /\ worker'.obj = worker.obj
      /\ (worker'.at = "token" \/ (worker'.at = "write" /\ worker'.phase = "Invalid"))
  BY <1>0, GoesFact, EndsFact, PlacesFact, PhasesFact, Types DEF Hold, ControllerInv
<1>3. /\ res' \in [Names -> Resource] /\ queue' \in SUBSET Names /\ loose' \in BOOLEAN
      /\ \A m \in Names \ {n} : res'[m] = res[m]
      /\ res'[n].there = res[n].there /\ res'[n].born = res[n].born /\ res'[n].going = res[n].going
      /\ res'[n].phase = res[n].phase /\ (res[n].held => res'[n].held) /\ (res'[n].held => res'[n].there)
      /\ queue \subseteq queue' /\ (loose => loose') /\ (loose' \/ res'[n].held)
  <2>1. CASE obj.held
    <3>1. UNCHANGED <<res, queue, loose>>
      BY <1>0, <2>1 DEF Hold
    <3>2. res[n].held
      BY <1>0, <1>1, <2>1 DEF ControllerInv, CopyHolds
    <3> QED BY <1>0, <1>1, <3>1, <3>2, Types DEF ControllerInv, OnlyHeldGoes
  <2>2. CASE ~obj.held
    <3>1. HoldNow(n) /\ loose' = (loose \/ n \notin Existing)
      BY <1>0, <2>2 DEF Hold
    <3>2. CASE n \in Existing /\ ~res[n].held
      <4> DEFINE r == [res[n] EXCEPT !.held = TRUE]
      <4>1. /\ r \in Resource /\ r.there = res[n].there /\ r.born = res[n].born /\ r.phase = res[n].phase
            /\ r.held /\ r.going = res[n].going
        BY <1>0, <1>1, Types DEF ControllerInv, Resource
      <4>2. Updated(n, r)
        BY <1>0, <3>1, <3>2 DEF HoldNow
      <4> HIDE DEF r
      <4>3. /\ res' \in [Names -> Resource] /\ queue' \in SUBSET Names
            /\ res'[n] = r /\ \A m \in Names \ {n} : res'[m] = res[m]
            /\ queue' = queue \cup {n}
        BY <1>0, <1>1, <4>1, <4>2, UpdatedFact, Types DEF ControllerInv
      <4> QED BY <1>0, <3>1, <3>2, <4>1, <4>3, Types DEF ControllerInv, Existing
    <3>3. CASE ~(n \in Existing /\ ~res[n].held)
      <4>1. UNCHANGED <<res, queue>>
        BY <1>0, <3>1, <3>3 DEF HoldNow
      <4> QED BY <1>0, <1>1, <3>1, <3>3, <4>1, Types DEF ControllerInv, OnlyHeldGoes, Existing
    <3> QED BY <1>0, <3>2, <3>3
  <2> QED BY <1>0, <2>1, <2>2
<1>4. ControllerTypeOK'
  BY <1>0, <1>1, <1>2, <1>3 DEF ControllerInv, ControllerTypeOK, Worker
<1>5. /\ OnlyHeldGoes' /\ ToldIsHeld' /\ NobodyLeft' /\ NoneIsForgotten'
      /\ \A m \in Names : Owns(m)' <=> Owns(m)
  <2>1. Attended(n)'
    BY <1>0, <1>2 DEF Attended
  <2>2. res'[n].phase \in {"Installing", "Ready", "Failed", "Invalid"} => loose \/ res'[n].held
    BY <1>0, <1>1, <1>3 DEF ControllerInv, ToldIsHeld
  <2> QED BY <1>0, <1>1, <1>3, <2>1, <2>2, WorkerWriteKeeps
<1>6. CopyFits' /\ ReadyIsSo' /\ LetsGoOfNothing'
  BY <1>0, <1>1, <1>2 DEF CopyFits, ReadyIsSo, LetsGoOfNothing, obj
<1>7. CopyHolds'
  BY <1>0, <1>1, <1>2, <1>3 DEF ControllerInv, CopyHolds, obj
<1>8. HeldBefore'
  BY <1>0, <1>2, <1>3 DEF HeldBefore
<1>9. OwnerKnown'
  BY <1>0, <1>1, <1>2, <1>3, <1>5 DEF ControllerInv, OwnerKnown, Serves, ForOwner
<1> QED BY <1>0, <1>4, <1>5, <1>6, <1>7, <1>8, <1>9 DEF ControllerInv

\* The phase that speaks of an install is told of a resource that was held.
LEMMA MarkKeeps == ASSUME ControllerInv, Mark PROVE ControllerInv'
<1>0. PICK n \in Names : n = worker.name
  BY Types DEF ControllerInv
<1>1. /\ UNCHANGED <<token, release, chart, loose, missed, changes, failures>>
      /\ worker.at = "mark" /\ ~obj.going
  BY <1>0, Types DEF Mark, bounds, history, At, ControllerInv, CopyFits
<1>2. /\ worker' \in Worker /\ worker'.name = n /\ worker'.obj = worker.obj /\ worker'.at = "apply"
  BY <1>0, GoesFact, PlacesFact, Types DEF Mark, ControllerInv
<1>3. /\ res' \in [Names -> Resource] /\ queue' \in SUBSET Names
      /\ \A m \in Names \ {n} : res'[m] = res[m]
      /\ res'[n].there = res[n].there /\ res'[n].held = res[n].held
      /\ res'[n].going = res[n].going /\ res'[n].born = res[n].born
      /\ queue \subseteq queue'
  BY <1>0, WritesFact, PhasesFact, Types DEF Mark, ControllerInv
<1>4. ControllerTypeOK'
  BY <1>0, <1>1, <1>2, <1>3 DEF ControllerInv, ControllerTypeOK, Worker
<1>5. /\ OnlyHeldGoes' /\ ToldIsHeld' /\ NobodyLeft' /\ NoneIsForgotten'
      /\ \A m \in Names : Owns(m)' <=> Owns(m)
  <2>1. Attended(n)'
    BY <1>0, <1>2 DEF Attended
  <2>2. loose \/ res'[n].held
    BY <1>0, <1>1, <1>3 DEF ControllerInv, HeldBefore
  <2>3. res[n].held => res[n].there
    BY <1>0, <1>1 DEF ControllerInv, OnlyHeldGoes
  <2> QED BY <1>0, <1>1, <1>3, <2>1, <2>2, <2>3, WorkerWriteKeeps
<1>6. CopyFits' /\ ReadyIsSo' /\ LetsGoOfNothing'
  BY <1>0, <1>1, <1>2 DEF CopyFits, ReadyIsSo, LetsGoOfNothing, obj
<1>7. CopyHolds'
  BY <1>0, <1>1, <1>2, <1>3 DEF ControllerInv, CopyHolds, obj
<1>8. HeldBefore'
  BY <1>0, <1>1, <1>2, <1>3 DEF ControllerInv, HeldBefore
<1>9. OwnerKnown'
  BY <1>0, <1>1, <1>2, <1>3, <1>5 DEF ControllerInv, OwnerKnown, Serves, ForOwner
<1> QED BY <1>0, <1>4, <1>5, <1>6, <1>7, <1>8, <1>9 DEF ControllerInv

\* An install starts for a resource that was held, or that was gone before it was.
LEMMA ApplyStartsKeeps == ASSUME ControllerInv, ApplyStarts PROVE ControllerInv'
<1>1. /\ UNCHANGED <<res, token, chart, queue, loose, missed, changes, failures>>
      /\ worker.at = "apply"
      /\ release' = [st |-> "half", chart |-> chart, values |-> Wanted,
                     earlier |-> release.st = "deployed" \/ release.earlier]
  BY DEF ApplyStarts, bounds, history, At
<1>2. /\ worker' \in Worker /\ worker'.name = worker.name /\ worker'.obj = worker.obj
      /\ worker'.token = worker.token /\ worker'.at = "applying"
  BY GoesFact, PlacesFact, Types DEF ApplyStarts, ControllerInv
<1>3. release' \in Release /\ release'.values = Wanted
  <2>1. release.earlier \in BOOLEAN /\ chart \in Charts /\ Wanted \in Values
    BY Types DEF ControllerInv, Release
  <2>2. (release.st = "deployed" \/ release.earlier) \in BOOLEAN
    BY <2>1
  <2> QED BY <1>1, <2>1, <2>2 DEF Release
<1>4. ControllerTypeOK'
  BY <1>1, <1>2, <1>3 DEF ControllerInv, ControllerTypeOK, Worker
<1>5. OnlyHeldGoes' /\ CopyHolds' /\ ToldIsHeld' /\ NoneIsForgotten'
  <2>1. worker.at \in ForOwner
    BY <1>1 DEF ForOwner
  <2> QED BY <1>1, <1>2, <2>1, ReleaseMoveKeeps
<1>6. CopyFits' /\ HeldBefore' /\ ReadyIsSo' /\ LetsGoOfNothing'
  BY <1>1, <1>2, <1>3
  DEF ControllerInv, CopyFits, HeldBefore, ReadyIsSo, LetsGoOfNothing, Wanted, obj
<1>7. OwnerKnown'
  BY <1>1, <1>2 DEF ControllerInv, OwnerKnown, Serves, ForOwner, Owns, Existing
<1>8. NobodyLeft'
  <2>1. loose \/ (worker.name \in Names /\ res[worker.name].there)
    BY <1>1, Types DEF ControllerInv, HeldBefore, OnlyHeldGoes
  <2> QED BY <1>1, <2>1 DEF NobodyLeft, Existing
<1> QED BY <1>4, <1>5, <1>6, <1>7, <1>8 DEF ControllerInv

\* What becomes of an earlier revision does not touch the last one.
LEMMA EarlierGoesKeeps == ASSUME ControllerInv, EarlierGoes PROVE ControllerInv'
<1>1. /\ UNCHANGED <<res, token, chart, queue, worker, loose, missed, changes, failures>>
      /\ worker.at \in {"applying", "uninstalling"} /\ release' = [release EXCEPT !.earlier = FALSE]
  BY DEF EarlierGoes, bounds, history
<1>2. release' \in Release /\ release'.st = release.st /\ release'.values = release.values
  BY <1>1, Types DEF ControllerInv, Release
<1>3. ControllerTypeOK'
  BY <1>1, <1>2 DEF ControllerInv, ControllerTypeOK
<1>4. OnlyHeldGoes' /\ CopyHolds' /\ ToldIsHeld' /\ NoneIsForgotten'
  <2>1. worker.at \in ForOwner /\ worker'.at # "idle"
    BY <1>1 DEF ForOwner
  <2> QED BY <1>1, <2>1, ReleaseMoveKeeps
<1>5. CopyFits' /\ HeldBefore' /\ ReadyIsSo' /\ LetsGoOfNothing'
  BY <1>1, <1>2 DEF ControllerInv, CopyFits, HeldBefore, ReadyIsSo, LetsGoOfNothing, Wanted, obj
<1>6. OwnerKnown'
  BY <1>1 DEF ControllerInv, OwnerKnown, Serves, Owns, Existing
<1>7. NobodyLeft'
  BY <1>1, <1>2 DEF ControllerInv, NobodyLeft, Existing
<1> QED BY <1>3, <1>4, <1>5, <1>6, <1>7 DEF ControllerInv

\* What was installed is what the worker wanted.
LEMMA ApplyEndsKeeps == ASSUME ControllerInv, ApplyEnds PROVE ControllerInv'
<1>1. /\ UNCHANGED <<res, token, chart, queue, loose, missed, changes, failures>>
      /\ worker.at = "applying" /\ release' = [release EXCEPT !.st = "deployed"]
      /\ \/ obj.going /\ Goes("uninstall")
         \/ ~obj.going /\ Ends("Ready")
  BY DEF ApplyEnds, bounds, history, At
<1>2. /\ worker' \in Worker /\ worker'.name = worker.name /\ worker'.obj = worker.obj
      /\ worker'.token = worker.token
      /\ \/ obj.going /\ worker'.at = "uninstall"
         \/ ~obj.going /\ worker'.at = "write" /\ worker'.phase = "Ready"
  BY <1>1, GoesFact, EndsFact, PlacesFact, PhasesFact, Types DEF ControllerInv
<1>3. release' \in Release /\ release'.values = release.values /\ release'.st = "deployed"
  BY <1>1, Types DEF ControllerInv, Release
<1>4. ControllerTypeOK'
  BY <1>1, <1>2, <1>3 DEF ControllerInv, ControllerTypeOK, Worker
<1>5. OnlyHeldGoes' /\ CopyHolds' /\ ToldIsHeld' /\ NoneIsForgotten'
  <2>1. worker.at \in ForOwner
    BY <1>1 DEF ForOwner
  <2> QED BY <1>1, <1>2, <2>1, ReleaseMoveKeeps
<1>6. CopyFits' /\ HeldBefore' /\ ReadyIsSo' /\ LetsGoOfNothing'
  BY <1>1, <1>2, <1>3
  DEF ControllerInv, CopyFits, HeldBefore, ReadyIsSo, LetsGoOfNothing, Wanted, obj
<1>7. OwnerKnown'
  BY <1>1, <1>2 DEF ControllerInv, OwnerKnown, Serves, ForOwner, Owns, Existing
<1>8. NobodyLeft'
  <2>1. loose \/ (worker.name \in Names /\ res[worker.name].there)
    BY <1>1, Types DEF ControllerInv, HeldBefore, OnlyHeldGoes
  <2> QED BY <1>1, <2>1 DEF NobodyLeft, Existing
<1> QED BY <1>4, <1>5, <1>6, <1>7, <1>8 DEF ControllerInv

\* The half uninstalled release is that of the owner the worker has before it.
LEMMA UninstallStartsKeeps == ASSUME ControllerInv, UninstallStarts PROVE ControllerInv'
<1>1. /\ UNCHANGED <<res, token, chart, queue, loose, missed, changes, failures>>
      /\ worker.at = "uninstall"
      /\ release' = IF release.st = "none" THEN release ELSE [release EXCEPT !.st = "uninstalling"]
  BY DEF UninstallStarts, bounds, history, At
<1>2. /\ worker' \in Worker /\ worker'.name = worker.name /\ worker'.obj = worker.obj
      /\ worker'.at = "uninstalling"
  BY GoesFact, PlacesFact, Types DEF UninstallStarts, ControllerInv
<1>3. release' \in Release /\ (release.st = "none" => release'.st = "none")
  BY <1>1, Types DEF ControllerInv, Release
<1>4. ControllerTypeOK'
  BY <1>1, <1>2, <1>3 DEF ControllerInv, ControllerTypeOK, Worker
<1>5. OnlyHeldGoes' /\ CopyHolds' /\ ToldIsHeld' /\ NoneIsForgotten'
  <2>1. worker.at \in ForOwner
    BY <1>1 DEF ForOwner
  <2> QED BY <1>1, <1>2, <2>1, ReleaseMoveKeeps
<1>6. CopyFits' /\ HeldBefore' /\ ReadyIsSo' /\ LetsGoOfNothing'
  BY <1>1, <1>2 DEF ControllerInv, CopyFits, HeldBefore, ReadyIsSo, LetsGoOfNothing, obj
<1>7. OwnerKnown'
  BY <1>1, <1>2 DEF ControllerInv, OwnerKnown, Serves, ForOwner, Owns, Existing
<1>8. NobodyLeft'
  BY <1>1, <1>3 DEF ControllerInv, NobodyLeft, Existing
<1> QED BY <1>4, <1>5, <1>6, <1>7, <1>8 DEF ControllerInv

\* After the uninstall there is nothing to hold.
LEMMA UninstallEndsKeeps == ASSUME ControllerInv, UninstallEnds PROVE ControllerInv'
<1>1. /\ UNCHANGED <<res, token, chart, queue, loose, missed, changes, failures>>
      /\ worker.at = "uninstalling" /\ release' = NoRelease
  BY DEF UninstallEnds, bounds, history, At
<1>2. /\ worker' \in Worker /\ worker'.name = worker.name /\ worker'.obj = worker.obj
      /\ worker'.at = "letgo"
  BY GoesFact, PlacesFact, Types DEF UninstallEnds, ControllerInv
<1>3. ControllerTypeOK'
  BY <1>1, <1>2, NoReleaseFact DEF ControllerInv, ControllerTypeOK, Worker
<1>4. OnlyHeldGoes' /\ CopyHolds' /\ ToldIsHeld' /\ NoneIsForgotten'
  <2>1. worker.at \in ForOwner
    BY <1>1 DEF ForOwner
  <2> QED BY <1>1, <1>2, <2>1, ReleaseMoveKeeps
<1>5. CopyFits' /\ HeldBefore' /\ ReadyIsSo' /\ LetsGoOfNothing' /\ NobodyLeft'
  BY <1>1, <1>2, NoReleaseFact
  DEF ControllerInv, CopyFits, HeldBefore, ReadyIsSo, LetsGoOfNothing, NobodyLeft, obj
<1>6. OwnerKnown'
  BY <1>1, <1>2 DEF ControllerInv, OwnerKnown, Serves, ForOwner, Owns, Existing
<1> QED BY <1>3, <1>4, <1>5, <1>6 DEF ControllerInv

\* A deletion keeps its finalizer until there is nothing, or it was asked to leave it.
LEMMA FinishKeeps == ASSUME ControllerInv, Finish PROVE ControllerInv'
<1>0. PICK n \in Names : n = worker.name
  BY Types DEF ControllerInv
<1>1. /\ UNCHANGED <<token, release, chart, missed, changes, failures>>
      /\ worker.at = "finish" /\ obj.going
      /\ \/ Goes("letgo") /\ loose' = TRUE /\ UNCHANGED <<res, queue>>
         \/ Goes("look") /\ Writes("Deleting", {}) /\ UNCHANGED loose
  BY DEF Finish, bounds, At, ControllerInv, CopyFits
<1>2. /\ worker' \in Worker /\ worker'.name = n /\ worker'.obj = worker.obj
      /\ \/ worker'.at = "letgo" /\ loose' = TRUE
         \/ worker'.at = "look" /\ UNCHANGED loose
  BY <1>0, <1>1, GoesFact, PlacesFact, Types DEF ControllerInv
<1>3. /\ res' \in [Names -> Resource] /\ queue' \in SUBSET Names
      /\ \A m \in Names \ {n} : res'[m] = res[m]
      /\ res'[n].there = res[n].there /\ res'[n].held = res[n].held
      /\ res'[n].going = res[n].going /\ res'[n].born = res[n].born
      /\ queue \subseteq queue'
  <2>1. CASE UNCHANGED <<res, queue>>
    BY <2>1, Types DEF ControllerInv
  <2>2. CASE Writes("Deleting", {})
    BY <1>0, <2>2, WritesFact, PhasesFact, Types DEF ControllerInv
  <2> QED BY <1>1, <2>1, <2>2
<1>4. ControllerTypeOK'
  BY <1>1, <1>2, <1>3, Types DEF ControllerInv, ControllerTypeOK, Worker
<1>5. /\ OnlyHeldGoes' /\ ToldIsHeld' /\ NobodyLeft' /\ NoneIsForgotten'
      /\ \A m \in Names : Owns(m)' <=> Owns(m)
  <2>1. Attended(n)'
    BY <1>2 DEF Attended
  <2>2. res[n].held /\ res[n].there
    BY <1>0, <1>1 DEF ControllerInv, CopyHolds, OnlyHeldGoes
  <2>3. loose => loose'
    BY <1>2
  <2> QED BY <1>0, <1>1, <1>3, <2>1, <2>2, <2>3, WorkerWriteKeeps
<1>6. CopyFits' /\ HeldBefore' /\ ReadyIsSo' /\ LetsGoOfNothing'
  BY <1>1, <1>2 DEF CopyFits, HeldBefore, ReadyIsSo, LetsGoOfNothing, obj
<1>7. CopyHolds'
  BY <1>0, <1>1, <1>2, <1>3 DEF ControllerInv, CopyHolds, obj
<1>8. OwnerKnown'
  BY <1>0, <1>1, <1>2, <1>3, <1>5 DEF ControllerInv, OwnerKnown, Serves, ForOwner
<1> QED BY <1>4, <1>5, <1>6, <1>7, <1>8 DEF ControllerInv

\* A status of the owner holds of the release, or the resource is looked at again.
LEMMA WriteStatusKeeps == ASSUME ControllerInv, WriteStatus PROVE ControllerInv'
<1>0. PICK n \in Names : n = worker.name
  BY Types DEF ControllerInv
<1> DEFINE phase == worker.phase
           again == IF phase = "Pending" THEN {n} ELSE {}
<1>1. /\ UNCHANGED <<token, release, chart, loose, missed, changes, failures>>
      /\ worker.at = "write" /\ ~obj.going /\ worker' = Idle
      /\ phase \in {"Blocked", "Invalid", "Pending", "Ready"}
  BY DEF WriteStatus, bounds, history, At, ControllerInv, CopyFits
<1>2. phase \in Phases /\ again \in SUBSET Names /\ Writes(phase, again)
  BY <1>0, Types DEF WriteStatus, ControllerInv, Worker
<1>3. /\ res' \in [Names -> Resource] /\ queue' \in SUBSET Names
      /\ \A m \in Names \ {n} : res'[m] = res[m]
      /\ res'[n].there = res[n].there /\ res'[n].held = res[n].held
      /\ res'[n].going = res[n].going /\ res'[n].born = res[n].born
      /\ res[n].there => res'[n].phase = phase
      /\ res[n].there /\ phase = "Ready" => res'[n].hash = Wanted
      /\ ~res[n].there => res'[n] = res[n]
      /\ queue \cup again \subseteq queue'
  <2> HIDE DEF again, phase
  <2>1. n = worker.name /\ res \in [Names -> Resource] /\ queue \in SUBSET Names /\ worker \in Worker
    BY <1>0, Types DEF ControllerInv
  <2> QED BY <1>2, <2>1, WritesFact
<1>4. ControllerTypeOK'
  BY <1>1, <1>3, IdleFact, Types DEF ControllerInv, ControllerTypeOK, Worker
<1>5. /\ OnlyHeldGoes' /\ ToldIsHeld' /\ Existing' = Existing
      /\ \A m \in Names : Owns(m)' <=> Owns(m)
  <2>1. res'[n].phase \in {"Installing", "Ready", "Failed", "Invalid"} => loose \/ res'[n].held
    <3>1. CASE res[n].there
      BY <1>0, <1>1, <1>3, <3>1 DEF ControllerInv, HeldBefore
    <3>2. CASE ~res[n].there
      BY <1>3, <3>2 DEF ControllerInv, ToldIsHeld
    <3> QED BY <3>1, <3>2
  <2>2. (res[n].held => res[n].there) /\ (res[n].going => res[n].held)
    BY DEF ControllerInv, OnlyHeldGoes
  <2> HIDE DEF phase, again
  <2> QED BY <1>1, <1>3, <2>1, <2>2, WriteKeeps DEF ControllerInv
<1>6. NobodyLeft'
  BY <1>1, <1>5 DEF ControllerInv, NobodyLeft
<1>7. NoneIsForgotten'
  <2>1. \A m \in Names \ {n} : Attended(m) => Attended(m)'
    BY <1>0, <1>3 DEF Attended
  <2>2. \A m \in Existing' : m \in Existing /\ m \in Names /\ (m # n => res'[m] = res[m])
    BY <1>3, <1>5 DEF Existing
  <2>3. n \in queue => Attended(n)'
    BY <1>3 DEF Attended
  <2>4. phase = "Pending" => Attended(n)'
    BY <1>3 DEF Attended
  <2>5. n \in Existing /\ n \notin queue => ~res'[n].going
    BY <1>0, <1>1, <1>3 DEF ControllerInv, CopyHolds
  <2>6. n \in Existing => res'[n].phase = phase /\ (phase = "Ready" => res'[n].hash = Wanted)
    BY <1>3 DEF Existing
  <2>7. n \in Existing /\ n \notin queue /\ phase = "Blocked" => ~Owns(n)'
    BY <1>0, <1>1, <1>5 DEF ControllerInv, OwnerKnown
  <2>8. n \in Existing /\ n \notin queue /\ phase = "Ready" =>
          missed' \/ (release'.st = "deployed" /\ release'.values = res'[n].hash)
    BY <1>0, <1>1, <2>6 DEF ControllerInv, ReadyIsSo
  <2>9. n \in Existing =>
          \/ Attended(n)'
          \/ /\ ~res'[n].going
             /\ Owns(n)' => \/ res'[n].phase = "Invalid"
                            \/ /\ res'[n].phase = "Ready"
                               /\ missed' \/ (release'.st = "deployed" /\ release'.values = res'[n].hash)
    BY <1>1, <2>3, <2>4, <2>5, <2>6, <2>7, <2>8
  <2> HIDE DEF phase, again
  <2> QED BY <1>1, <1>5, <2>1, <2>2, <2>9 DEF ControllerInv, NoneIsForgotten
<1> QED BY <1>1, <1>4, <1>5, <1>6, <1>7, IdleKeeps DEF ControllerInv

\* A resource that lets go has the others looked at.
LEMMA LetGoKeeps == ASSUME ControllerInv, LetGo PROVE ControllerInv'
<1>0. PICK n \in Names : n = worker.name
  BY Types DEF ControllerInv
<1>1. /\ UNCHANGED <<token, release, chart, missed, changes, failures>>
      /\ worker.at \in {"letgo", "yield"} /\ obj.going /\ worker' = Idle
      /\ loose' = (loose \/ (worker.at = "yield" /\ release.st # "none" /\ Existing = {n}))
  BY <1>0 DEF LetGo, bounds, At, ControllerInv, CopyFits
<1>2. Gone(n) /\ res[n].there
  BY <1>0, <1>1 DEF LetGo, ControllerInv, CopyHolds, OnlyHeldGoes
<1>3. /\ res' \in [Names -> Resource] /\ queue' \in SUBSET Names
      /\ res'[n] = Absent /\ \A m \in Names \ {n} : res'[m] = res[m]
      /\ queue' = queue \cup Existing
  BY <1>2, GoneFact, Types DEF ControllerInv
<1>4. ControllerTypeOK'
  BY <1>1, <1>3, IdleFact, Types DEF ControllerInv, ControllerTypeOK, Worker
<1>5. OnlyHeldGoes' /\ ToldIsHeld' /\ NoneIsForgotten' /\ Existing' = Existing \ {n}
  BY <1>1, <1>3, GoneKeeps
<1>6. NobodyLeft'
  <2>1. CASE worker.at = "letgo"
    BY <1>1, <2>1 DEF ControllerInv, LetsGoOfNothing, NobodyLeft
  <2>2. CASE worker.at = "yield"
    <3>1. n \in Existing
      BY <1>2 DEF Existing
    <3> QED BY <1>1, <1>5, <2>2, <3>1 DEF NobodyLeft
  <2> QED BY <1>1, <2>1, <2>2
<1> QED BY <1>1, <1>4, <1>5, <1>6, IdleKeeps DEF ControllerInv

\* An install that failed is tried again, whether or not it was told.
LEMMA TriedAgain ==
  ASSUME ControllerInv, UNCHANGED <<token, release, chart, loose, missed>>, changes' \in Nat, failures' \in Nat,
         worker.at \in {"apply", "applying"}, worker' = Idle,
         \/ Writes("Failed", {worker.name})
         \/ queue' = queue \cup {worker.name} /\ UNCHANGED res
  PROVE  ControllerInv'
<1>0. PICK n \in Names : n = worker.name
  BY Types DEF ControllerInv
<1>1. \/ Writes("Failed", {n})
      \/ queue' = queue \cup {n} /\ UNCHANGED res
  BY <1>0
<1>2. /\ res' \in [Names -> Resource] /\ queue' \in SUBSET Names
      /\ \A m \in Names \ {n} : res'[m] = res[m]
      /\ res'[n].there = res[n].there /\ res'[n].held = res[n].held
      /\ res'[n].going = res[n].going /\ res'[n].born = res[n].born
      /\ queue \subseteq queue' /\ n \in queue'
  <2>1. CASE Writes("Failed", {n})
    BY <1>0, <2>1, WritesFact, PhasesFact, Types DEF ControllerInv
  <2>2. CASE queue' = queue \cup {n} /\ UNCHANGED res
    BY <2>2, Types DEF ControllerInv
  <2> QED BY <1>1, <2>1, <2>2
<1>3. ControllerTypeOK'
  BY <1>2, IdleFact, Types DEF ControllerInv, ControllerTypeOK, Worker
<1>4. OnlyHeldGoes' /\ ToldIsHeld' /\ NobodyLeft' /\ NoneIsForgotten'
  <2>1. Attended(n)'
    BY <1>2 DEF Attended
  <2>2. loose \/ res[n].held
    BY <1>0 DEF ControllerInv, HeldBefore
  <2>3. res[n].held => res[n].there
    BY DEF ControllerInv, OnlyHeldGoes
  <2> QED BY <1>0, <1>2, <2>1, <2>2, <2>3, WorkerWriteKeeps
<1> QED BY <1>3, <1>4, IdleKeeps DEF ControllerInv

\* So it is when the cluster refuses it.
LEMMA ApplyFailsKeeps == ASSUME ControllerInv, ApplyFails PROVE ControllerInv'
<1>1. changes' \in Nat /\ failures' \in Nat
  BY Types DEF ApplyFails, Failed, ControllerInv
<1> QED BY <1>1, TriedAgain DEF ApplyFails, history

\* And when Helm does.
LEMMA ApplyRefusedKeeps == ASSUME ControllerInv, ApplyRefused PROVE ControllerInv'
<1>1. changes' \in Nat /\ failures' \in Nat
  BY Types DEF ApplyRefused, bounds, ControllerInv
<1> QED BY <1>1, TriedAgain DEF ApplyRefused, At, history

-----------------------------------------------------------------------------
\* The theorems.

\* Any set of numbers that is not empty has a least one.
LEMMA LeastOf == ASSUME NEW S \in SUBSET Nat, S # {} PROVE \E x \in S : \A y \in S : x <= y
<1> DEFINE Less == {ss \in Nat \X Nat : ss[1] < ss[2]}
<1>1. IsWellFoundedOn(Less, Nat)
  BY NatLessThanWellFounded DEF OpToRel
<1>2. PICK x \in S : \A y \in S : ~(<<y, x>> \in Less)
  <2> HIDE DEF Less
  <2> QED BY <1>1, WFMin
<1>3. \A y \in S : x <= y
  <2>1. TAKE y \in S
  <2>2. x \in Nat /\ y \in Nat /\ ~(y < x)
    BY <1>2
  <2> QED BY <2>2
<1> QED BY <1>3

\* Where there is a resource, one of them is the owner.
LEMMA AnOwner == ASSUME ControllerTypeOK, Existing # {} PROVE \E n \in Existing : Owns(n)
<1>1. Existing \subseteq Names /\ Names \subseteq Nat /\ \A m \in Existing : res[m].born \in Nat
  BY ControllerAssumption DEF Existing, ControllerTypeOK, Resource
<1> DEFINE seconds == {res[m].born : m \in Existing}
<1>2. PICK s \in seconds : \A t \in seconds : s <= t
  <2>1. seconds \in SUBSET Nat /\ seconds # {}
    BY <1>1
  <2> HIDE DEF seconds
  <2> QED BY <2>1, LeastOf
<1> DEFINE oldest == {m \in Existing : res[m].born = s}
<1>3. PICK n \in oldest : \A m \in oldest : n <= m
  <2>1. oldest \in SUBSET Nat /\ oldest # {}
    BY <1>1, <1>2
  <2> HIDE DEF oldest
  <2> QED BY <2>1, LeastOf
<1>4. \A m \in Existing \ {n} : res[n].born < res[m].born \/ (res[n].born = res[m].born /\ n < m)
  <2>1. TAKE m \in Existing \ {n}
  <2>2. n \in Nat /\ m \in Nat /\ n # m /\ res[n].born \in Nat /\ res[m].born \in Nat
    BY <1>1
  <2>3. res[n].born <= res[m].born
    BY <1>2
  <2>4. res[n].born = res[m].born => n <= m
    BY <1>3
  <2> QED BY <2>2, <2>3, <2>4
<1> QED BY <1>4 DEF Owns

\* At first there is nothing.
LEMMA InitHolds == ASSUME ControllerInit PROVE ControllerInv
<1>1. \A n \in Names : res[n] = Absent
  BY DEF ControllerInit
<1>2. worker = Idle /\ release = NoRelease
  BY DEF ControllerInit
<1>3. ControllerTypeOK
  <2>1. FirstChart \in Charts
    BY ControllerAssumption DEF FirstChart
  <2> QED BY <1>2, <2>1, AbsentFact, IdleFact, NoReleaseFact DEF ControllerInit, ControllerTypeOK, Worker
<1>4. Existing = {}
  BY <1>1, AbsentFact DEF Existing
<1>5. OnlyHeldGoes /\ ToldIsHeld
  BY <1>1, AbsentFact DEF OnlyHeldGoes, ToldIsHeld
<1>6. NobodyLeft /\ NoneIsForgotten
  BY <1>2, <1>4, NoReleaseFact DEF NobodyLeft, NoneIsForgotten
<1>7. CopyFits /\ CopyHolds /\ HeldBefore /\ OwnerKnown /\ ReadyIsSo /\ LetsGoOfNothing
  BY <1>2, IdleFact
  DEF CopyFits, CopyHolds, HeldBefore, OwnerKnown, ReadyIsSo, LetsGoOfNothing, Serves, ForOwner
<1> QED BY <1>3, <1>5, <1>6, <1>7 DEF ControllerInv

\* Every step keeps the invariant.
LEMMA StepKeeps == ASSUME ControllerInv, [ControllerNext]_ctlVars PROVE ControllerInv'
<1>1. CASE UNCHANGED ctlVars
  BY <1>1
  DEF ctlVars, cluster, history, bounds, ControllerInv, ControllerTypeOK, OnlyHeldGoes, CopyFits, CopyHolds,
      HeldBefore, OwnerKnown, ReadyIsSo, LetsGoOfNothing, ToldIsHeld, NobodyLeft, NoneIsForgotten, Serves,
      Existing, Owns, Attended, Wanted, obj
<1>2. CASE \E n \in Names : Create(n) \/ Edit(n) \/ AskToSkip(n) \/ Delete(n) \/ Take(n)
  BY <1>2, CreateKeeps, EditKeeps, AskToSkipKeeps, DeleteKeeps, TakeKeeps
<1>3. CASE TokenChanges \/ RemovedByHand \/ Resync
  BY <1>3, TokenChangesKeeps, RemovedByHandKeeps, ResyncKeeps
<1>4. CASE WorkerStep
  BY <1>4, ListKeeps, HoldKeeps, ReadTokenKeeps, JudgeKeeps, MarkKeeps, ApplyStartsKeeps, ApplyRefusedKeeps,
     EarlierGoesKeeps, ApplyEndsKeeps, WriteStatusKeeps, FinishKeeps, LookKeeps, UninstallStartsKeeps,
     UninstallEndsKeeps, LetGoKeeps
  DEF WorkerStep
<1>5. CASE CallFails \/ ApplyFails \/ DeletingUntold \/ NamespaceGoes \/ Restart
  BY <1>5, CallFailsKeeps, ApplyFailsKeeps, DeletingUntoldKeeps, NamespaceGoesKeeps, RestartKeeps
<1> QED BY <1>1, <1>2, <1>3, <1>4, <1>5 DEF ControllerNext

\* The copy the worker goes by never tells it something that is wrong and not in the queue
\* (Reconcile and the event handlers of Run).
THEOREM ControllerAlwaysInv == ControllerSpec => []ControllerInv
<1>1. ControllerInit => ControllerInv
  BY InitHolds
<1>2. ControllerInv /\ [ControllerNext]_ctlVars => ControllerInv'
  BY StepKeeps
<1> QED BY <1>1, <1>2, PTL DEF ControllerSpec

\* Whatever is not settled is with the worker or in the queue (Run, apply, finish).
THEOREM NoneIsForgottenCorrect == ControllerSpec => []NoneIsForgotten
<1>1. ControllerInv => NoneIsForgotten
  BY DEF ControllerInv
<1> QED BY <1>1, ControllerAlwaysInv, PTL

\* A release is there only while a finalizer holds a resource, or the next owner is about to be
\* looked at, but for the ways out that `loose' names (Finalizer, apply, finish, blocked).
THEOREM InstalledIsHeldCorrect == ControllerSpec => []InstalledIsHeld
<1>1. ControllerInv => InstalledIsHeld
  <2> SUFFICES ASSUME ControllerInv, release.st # "none", ~loose, Held = {}
               PROVE  \E n \in Existing : Attended(n)
    BY DEF InstalledIsHeld
  <2>1. Existing # {}
    BY DEF ControllerInv, NobodyLeft
  <2>2. PICK n \in Existing : Owns(n)
    BY <2>1, AnOwner DEF ControllerInv
  <2>3. n \in Names /\ ~res[n].held
    BY DEF Existing, Held
  <2>4. res[n].phase \notin {"Invalid", "Ready"}
    BY <2>3 DEF ControllerInv, ToldIsHeld
  <2> QED BY <2>2, <2>4 DEF ControllerInv, NoneIsForgotten
<1> QED BY <1>1, ControllerAlwaysInv, PTL
====
