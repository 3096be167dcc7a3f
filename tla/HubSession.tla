----------------------------- MODULE HubSession -----------------------------
(***************************************************************************)
(* The live streams of one agent (backend/internal/estate/hub.go): the     *)
(* handler of each connection, the session table that holds the current    *)
(* one, and the revocation that drops it.  The hub keeps everything per    *)
(* agent, so one agent is enough.                                          *)
(*                                                                         *)
(* A handler is let in by the interceptor, registers, looks at the agent's *)
(* row again, waits for the Hello, and only then listens for its end.  A   *)
(* replaced handler runs on until it listens.  The server may restart at   *)
(* any time: the row survives, everything else is memory.                  *)
(***************************************************************************)
EXTENDS Naturals, FiniteSets

CONSTANTS
  Streams,    \* connections that may be under way at the same time
  None        \* no stream: a nil entry of the session table

ASSUME StreamsAssumption == None \notin Streams

VARIABLES
  row,         \* status of the agent in the table
  at,          \* where each Connect handler is
  ended,       \* its channel of capacity one: why it is to end
  current,     \* the entry of Sessions
  connected,   \* View.Connected
  revoking,    \* the Revoke call between its update and the end of Drop
  told         \* history: some stream told the agent to stop for good

hub == <<at, ended, current, connected>>
sessionVars == <<row, hub, revoking, told>>

Place == {"out", "admitted", "registered", "checked", "open", "message", "leaving"}
Reason == {"none", "replaced", "revoked"}

\* A handler that is registered and has not begun to leave.
Running(s) == at[s] \in {"registered", "checked", "open", "message"}
\* One that has also seen the agent approved after it was registered.
Serving(s) == at[s] \in {"checked", "open", "message"}

NoRevoke == [at |-> "idle", stream |-> None]

SessionTypeOK ==
  /\ row \in {"approved", "revoked"}
  /\ at \in [Streams -> Place]
  /\ ended \in [Streams -> Reason]
  /\ current \in Streams \cup {None}
  /\ connected \in BOOLEAN
  /\ revoking \in [at : {"idle", "written"}, stream : {None}] \cup [at : {"found"}, stream : Streams]
  /\ told \in BOOLEAN

SessionInit ==
  /\ row = "approved"
  /\ at = [s \in Streams |-> "out"]
  /\ ended = [s \in Streams |-> "none"]
  /\ current = None
  /\ connected = FALSE
  /\ revoking = NoRevoke
  /\ told = FALSE

-----------------------------------------------------------------------------
\* Connecting

\* The interceptor finds the agent approved.  A stream stands for a fresh connection, so it
\* is not one that Drop still holds.
Admit(s) ==
  /\ at[s] = "out"
  /\ revoking.stream # s
  /\ row = "approved"
  /\ at' = [at EXCEPT ![s] = "admitted"]
  /\ UNCHANGED <<row, ended, current, connected, revoking, told>>

\* Session.Cancel: the first reason is kept, a second one is dropped.
Cancelled(s, reason) ==
  [ended EXCEPT ![s] = IF @ = "none" THEN reason ELSE @]

\* Mutant: the stream that is replaced is not told.
RegisterQuietly(s) ==
  /\ at[s] = "admitted"
  /\ ended' = [ended EXCEPT ![s] = "none"]
  /\ current' = s
  /\ connected' = TRUE
  /\ at' = [at EXCEPT ![s] = "registered"]
  /\ UNCHANGED <<row, revoking, told>>

\* One session per agent: a new connection replaces the old one.
Register(s) ==
  /\ at[s] = "admitted"
  /\ ended' = [IF current = None THEN ended ELSE Cancelled(current, "replaced")
               EXCEPT ![s] = "none"]
  /\ current' = s
  /\ connected' = TRUE
  /\ at' = [at EXCEPT ![s] = "registered"]
  /\ UNCHANGED <<row, revoking, told>>

\* Mutant: the interceptor's check is enough.
RecheckTrusts(s) ==
  /\ at[s] = "registered"
  /\ at' = [at EXCEPT ![s] = "checked"]
  /\ UNCHANGED <<row, ended, current, connected, revoking, told>>

\* The row is read again now that Drop can reach the session.
Recheck(s) ==
  /\ at[s] = "registered"
  /\ at' = [at EXCEPT ![s] = IF row = "approved" THEN "checked" ELSE "leaving"]
  /\ UNCHANGED <<row, ended, current, connected, revoking, told>>

\* The Hello arrives and is answered with the Config.
Hello(s) ==
  /\ at[s] = "checked"
  /\ at' = [at EXCEPT ![s] = "open"]
  /\ UNCHANGED <<row, ended, current, connected, revoking, told>>

-----------------------------------------------------------------------------
\* The loop of an open stream

\* The end is taken from the channel; a revocation is passed on if the send succeeds.
TakeEnd(s) ==
  /\ at[s] = "open"
  /\ ended[s] # "none"
  /\ \E sent \in BOOLEAN : told' = (told \/ (sent /\ ended[s] = "revoked"))
  /\ ended' = [ended EXCEPT ![s] = "none"]
  /\ at' = [at EXCEPT ![s] = "leaving"]
  /\ UNCHANGED <<row, current, connected, revoking>>

\* A message arrives: the row is read before anything is done with it.
TakeMessage(s) ==
  /\ at[s] = "open"
  /\ at' = [at EXCEPT ![s] = IF row = "approved" THEN "message" ELSE "leaving"]
  /\ UNCHANGED <<row, ended, current, connected, revoking, told>>

Handled(s) ==
  /\ at[s] = "message"
  /\ at' = [at EXCEPT ![s] = "open"]
  /\ UNCHANGED <<row, ended, current, connected, revoking, told>>

\* The handler returns: no or a wrong Hello, a read or send that fails, a message that is
\* refused, too many messages, an expired certificate, a database that does not answer.
Fails(s) ==
  /\ Running(s)
  /\ at' = [at EXCEPT ![s] = "leaving"]
  /\ UNCHANGED <<row, ended, current, connected, revoking, told>>

\* Mutant: the agent is shown as disconnected whoever has left.
CleanupDisconnects(s) ==
  /\ at[s] = "leaving"
  /\ current' = IF current = s THEN None ELSE current
  /\ connected' = FALSE
  /\ at' = [at EXCEPT ![s] = "out"]
  /\ ended' = [ended EXCEPT ![s] = "none"]
  /\ UNCHANGED <<row, revoking, told>>

\* The deferred cleanup: a replaced handler leaves the newer one's entry alone.
Cleanup(s) ==
  /\ at[s] = "leaving"
  /\ current' = IF current = s THEN None ELSE current
  /\ connected' = IF current = s THEN FALSE ELSE connected
  /\ at' = [at EXCEPT ![s] = "out"]
  /\ ended' = [ended EXCEPT ![s] = "none"]
  /\ UNCHANGED <<row, revoking, told>>

-----------------------------------------------------------------------------
\* Revocation

\* Mutant: the hook that drops the stream is not called.
RevokeWithoutDrop ==
  /\ row = "approved"
  /\ row' = "revoked"
  /\ UNCHANGED <<hub, revoking, told>>

\* The row is written first; Drop runs when the calls after it are done.
Revoke ==
  /\ row = "approved"
  /\ row' = "revoked"
  /\ revoking' = [NoRevoke EXCEPT !.at = "written"]
  /\ UNCHANGED <<hub, told>>

\* Drop takes the session that is there now, and reads the reason for it.
DropLooks ==
  /\ revoking.at = "written"
  /\ revoking' = IF current = None THEN NoRevoke ELSE [at |-> "found", stream |-> current]
  /\ UNCHANGED <<row, hub, told>>

DropCancels ==
  /\ revoking.at = "found"
  /\ ended' = Cancelled(revoking.stream, "revoked")
  /\ revoking' = NoRevoke
  /\ UNCHANGED <<row, at, current, connected, told>>

\* The process dies and starts again.
Restart ==
  /\ at' = [s \in Streams |-> "out"]
  /\ ended' = [s \in Streams |-> "none"]
  /\ current' = None
  /\ connected' = FALSE
  /\ revoking' = NoRevoke
  /\ UNCHANGED <<row, told>>

-----------------------------------------------------------------------------

StreamStep(s) ==
  \/ Admit(s) \/ Register(s) \/ Recheck(s) \/ Hello(s)
  \/ TakeEnd(s) \/ TakeMessage(s) \/ Handled(s) \/ Fails(s) \/ Cleanup(s)

SessionNext == (\E s \in Streams : StreamStep(s)) \/ Revoke \/ DropLooks \/ DropCancels \/ Restart

\* What a handler does by itself once it is there.  The wait for the Hello has a deadline.
Moves(s) ==
  \/ Register(s) \/ Recheck(s) \/ Hello(s) \/ Handled(s) \/ Cleanup(s)

\* select chooses at random among what is ready: an end that waits is taken in the end,
\* however many messages arrive.
SessionFairness ==
  /\ \A s \in Streams : WF_sessionVars(Moves(s)) /\ SF_sessionVars(TakeEnd(s))
  /\ WF_sessionVars(DropLooks \/ DropCancels)

SessionSpec == SessionInit /\ [][SessionNext]_sessionVars /\ SessionFairness

-----------------------------------------------------------------------------
\* Properties

\* What the interface shows is what is there: the agent is shown as connected exactly while
\* its entry names a handler that has not left (Connect, its deferred cleanup).
ShownIsThere ==
  /\ connected <=> current # None
  /\ current # None => at[current] \notin {"out", "admitted"}

\* One session per agent: every handler still running is the current one or has been told to
\* end, so that its end waits for it whenever it listens (Connect).
OneSession ==
  \A s \in Streams : Running(s) /\ s # current => ended[s] # "none"

\* No revoked agent stays connected, wherever the revocation fell between the interceptor's
\* check, the registration and the second look: a stream that serves it has its end waiting,
\* or the Drop that will bring it has not finished (Connect, Drop).
RevokedIsEnding ==
  row = "revoked" =>
    \A s \in Streams : Serving(s) =>
      \/ ended[s] # "none"
      \/ revoking.at = "written"
      \/ revoking.stream = s

\* Only a real revocation tells the agent to stop for good, not a newer connection that
\* takes its place, or both at once (Connect, Session.Cancel).
ToldOnlyWhenRevoked == told => row = "revoked"

\* What the others rest on, strengthened to be inductive: nobody is told of a revocation, and
\* no Drop is under way, before the row says so (Connect, Drop, Revoke).
SessionInv ==
  /\ SessionTypeOK
  /\ ShownIsThere
  /\ OneSession
  /\ RevokedIsEnding
  /\ ToldOnlyWhenRevoked
  /\ \A s \in Streams : ended[s] = "revoked" => row = "revoked"
  /\ revoking.at # "idle" => row = "revoked"

\* Revocation drops the live stream, and no other comes back, although the server may
\* restart between the update and the Drop.
RevokedLeaves == row = "revoked" ~> [](\A s \in Streams : at[s] = "out")
=============================================================================
