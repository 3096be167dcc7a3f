---------------------------- MODULE ConfigChannel ----------------------------
(***************************************************************************)
(* How an agent comes to have in force what was set for it.                *)
(*                                                                         *)
(* The server compiles a Config from the agent's row and its overrides,    *)
(* answers the Hello of a new stream with one, and queues a newer one on   *)
(* the live stream when it differs from the last one sent (hub_paths.go,   *)
(* the stream handler of hub.go).  The agent puts it in force, or          *)
(* reconnects when its tier changes, and names it in every heartbeat       *)
(* (agent/stream.go); one that names another some time after the last send *)
(* is sent the Config again (connectivity/paths.go).                       *)
(*                                                                         *)
(* A Config is the tier and the rest of what it says.  Its digest stands   *)
(* for both, so it is both: two Configs never share a digest otherwise.    *)
(***************************************************************************)
EXTENDS Naturals, Sequences

CONSTANTS
  Streams,      \* connections under way at the same time
  Pushers,      \* PushOne calls under way at the same time
  Tiers, Rests, \* the values the row and the overrides may take
  FirstWish,    \* what they are when the server starts
  None,         \* no stream, no Config, no digest
  Echoes,       \* whether the agent names the Config it has in force
  QueueLimit,   \* capacity of Session.Push
  WireLimit,    \* messages on the wire in one direction
  MaxChanges,   \* bound on the changes that administrators make
  MaxFailures   \* bound on what fails or restarts

ASSUME ChannelAssumption ==
  /\ FirstWish \in [tier : Tiers, rest : Rests]
  /\ None \notin Streams
  /\ Echoes \in BOOLEAN
  /\ QueueLimit \in Nat \ {0} /\ WireLimit \in Nat \ {0}
  /\ MaxChanges \in Nat /\ MaxFailures \in Nat

VARIABLES
  wish,        \* the tier in the row and the overrides in memory: what is to be in force
  changes,     \* how often it has changed
  failures,    \* how much has failed
  place,       \* where each Connect handler is
  replaced,    \* it has been told that a newer one took its place
  seen,        \* its copy of the row, until it has answered with a Config made from it
  current,     \* the entry of Sessions
  queue,       \* Session.Push of each stream
  down, up,    \* what is on the wire: Configs to the agent, digests in heartbeats from it
  cfgHash,     \* NetView: digest of the last Config sent
  recent,      \* CfgSentAt is within the grace
  pusher,      \* the PushOne calls
  agent        \* the stream the agent is on and the digest of what it has in force

view == <<cfgHash, recent>>
wire == <<down, up>>
handlers == <<place, replaced, seen, current>>
channelVars == <<wish, changes, failures, handlers, queue, wire, view, pusher, agent>>

Digest == [tier : Tiers, rest : Rests]
\* "read" only says when the row was read that the Config was made from.
Config == [tier : Tiers, rest : Rests, read : 0 .. MaxChanges]
DigestOf(c) == [tier |-> c.tier, rest |-> c.rest]
Row == [tier : Tiers, read : 0 .. MaxChanges]
RowNow == [tier |-> wish.tier, read |-> changes]

Idle == [at |-> "idle", stream |-> None, cfg |-> None]
\* compileFor: the row as it was read, everything else as it is now.
Compiled(row) == [tier |-> row.tier, rest |-> wish.rest, read |-> row.read]

SettingsOK == wish \in Digest /\ changes \in 0 .. MaxChanges /\ failures \in 0 .. MaxFailures

HandlersOK ==
  /\ place \in [Streams -> {"out", "dialled", "registered", "checked", "answered", "open"}]
  /\ replaced \in [Streams -> BOOLEAN]
  /\ seen \in [Streams -> Row \cup {None}]
  /\ \A s \in Streams : place[s] = "checked" => seen[s] \in Row
  /\ current \in Streams \cup {None}

WiresOK ==
  /\ queue \in [Streams -> Seq(Config)]
  /\ down \in [Streams -> Seq(Config)]
  /\ up \in [Streams -> Seq(Digest)]
  /\ \A s \in Streams : Len(queue[s]) <= QueueLimit /\ Len(up[s]) <= WireLimit

PushersOK ==
  /\ pusher \in [Pushers -> [at : {"idle", "waiting", "read", "compiled", "queued"},
                             stream : Streams \cup {None}, cfg : Config \cup Row \cup {None}]]
  /\ \A p \in Pushers :
       /\ pusher[p].at # "idle" => pusher[p].stream \in Streams
       /\ pusher[p].at = "read" => pusher[p].cfg \in Row
       /\ pusher[p].at \in {"compiled", "queued"} => pusher[p].cfg \in Config

ChannelTypeOK ==
  /\ SettingsOK /\ HandlersOK /\ WiresOK /\ PushersOK
  /\ cfgHash \in Digest \cup {None} /\ recent \in BOOLEAN
  /\ agent \in [on : Streams \cup {None}, inForce : Digest \cup {None}]

ChannelInit ==
  /\ wish = FirstWish
  /\ changes = 0
  /\ failures = 0
  /\ place = [s \in Streams |-> "out"]
  /\ replaced = [s \in Streams |-> FALSE]
  /\ seen = [s \in Streams |-> None]
  /\ current = None
  /\ queue = [s \in Streams |-> <<>>]
  /\ down = [s \in Streams |-> <<>>]
  /\ up = [s \in Streams |-> <<>>]
  /\ cfgHash = None
  /\ recent = FALSE
  /\ pusher = [p \in Pushers |-> Idle]
  /\ agent = [on |-> None, inForce |-> None]

-----------------------------------------------------------------------------
\* What administrators set.  The handler that changes it calls PushOne afterwards, which is
\* PushStart of some pusher.

Change ==
  /\ changes < MaxChanges
  /\ \E d \in Digest :
       /\ d # wish
       /\ d.tier = wish.tier \/ d.rest = wish.rest
       /\ wish' = d
  /\ changes' = changes + 1
  /\ UNCHANGED <<failures, handlers, queue, wire, view, pusher, agent>>

-----------------------------------------------------------------------------
\* PushOne.  Session and view are looked up before PushMu is taken.

Locked(p) == pusher[p].at \in {"read", "compiled", "queued"}

\* Called for a change, for a lost Config, or by the tick of every minute (PushConfigs).
PushStart(p) ==
  /\ pusher[p] = Idle
  /\ current # None
  /\ pusher' = [pusher EXCEPT ![p] = [at |-> "waiting", stream |-> current, cfg |-> None]]
  /\ UNCHANGED <<wish, changes, failures, handlers, queue, wire, view, agent>>

\* The row is read, and all that follows done, under PushMu.
PushRead(p) ==
  /\ pusher[p].at = "waiting"
  /\ \A q \in Pushers : ~Locked(q)
  /\ pusher' = [pusher EXCEPT ![p].at = "read", ![p].cfg = RowNow]
  /\ UNCHANGED <<wish, changes, failures, handlers, queue, wire, view, agent>>

\* The overrides and the settings are read after the row.  A Config that is the one last sent
\* is not sent again.
PushCompile(p) ==
  /\ pusher[p].at = "read"
  /\ LET cfg == Compiled(pusher[p].cfg) IN
     pusher' = [pusher EXCEPT ![p] = IF cfgHash = DigestOf(cfg) THEN Idle
                                     ELSE [@ EXCEPT !.at = "compiled", !.cfg = cfg]]
  /\ UNCHANGED <<wish, changes, failures, handlers, queue, wire, view, agent>>

\* A stream that is busy is left for the next refresh.
PushQueue(p) ==
  /\ pusher[p].at = "compiled"
  /\ LET s == pusher[p].stream IN
     IF Len(queue[s]) < QueueLimit
     THEN /\ queue' = [queue EXCEPT ![s] = Append(@, pusher[p].cfg)]
          /\ pusher' = [pusher EXCEPT ![p].at = "queued"]
     ELSE /\ pusher' = [pusher EXCEPT ![p] = Idle]
          /\ UNCHANGED queue
  /\ UNCHANGED <<wish, changes, failures, handlers, wire, view, agent>>

PushAdopt(p) ==
  /\ pusher[p].at = "queued"
  /\ cfgHash' = DigestOf(pusher[p].cfg)
  /\ recent' = TRUE
  /\ pusher' = [pusher EXCEPT ![p] = Idle]
  /\ UNCHANGED <<wish, changes, failures, handlers, queue, wire, agent>>

\* The row, or the agents for the peer list, could not be read: nothing is sent or adopted.
PushGivesUp(p) ==
  /\ failures < MaxFailures
  /\ pusher[p].at = "read"
  /\ failures' = failures + 1
  /\ pusher' = [pusher EXCEPT ![p] = Idle]
  /\ UNCHANGED <<wish, changes, handlers, queue, wire, view, agent>>

-----------------------------------------------------------------------------
\* Connect, on the server

Running(s) == place[s] \in {"registered", "checked", "answered", "open"}

\* What is sent to an agent that has gone is lost.
Sends(s, cfg) ==
  down' = IF agent.on = s THEN [down EXCEPT ![s] = Append(@, cfg)] ELSE down

Register(s) ==
  /\ place[s] = "dialled"
  /\ replaced' = IF current = None THEN replaced ELSE [replaced EXCEPT ![current] = TRUE]
  /\ current' = s
  /\ place' = [place EXCEPT ![s] = "registered"]
  /\ UNCHANGED <<wish, changes, failures, seen, queue, wire, view, pusher, agent>>

\* The row is read once; the first Config is made from this copy of it.
Recheck(s) ==
  /\ place[s] = "registered"
  /\ seen' = [seen EXCEPT ![s] = RowNow]
  /\ place' = [place EXCEPT ![s] = "checked"]
  /\ UNCHANGED <<wish, changes, failures, replaced, current, queue, wire, view, pusher, agent>>

\* ConfigFor, which does not take PushMu, compiles and adopts.
Answer(s) ==
  /\ place[s] = "checked"
  /\ LET cfg == Compiled(seen[s]) IN
     /\ cfgHash' = DigestOf(cfg)
     /\ Sends(s, cfg)
  /\ seen' = [seen EXCEPT ![s] = None]
  /\ place' = [place EXCEPT ![s] = "answered"]
  /\ UNCHANGED <<wish, changes, failures, replaced, current, queue, up, recent, pusher, agent>>

\* The time of the send is noted after it.
NoteSent(s) ==
  /\ place[s] = "answered"
  /\ recent' = TRUE
  /\ place' = [place EXCEPT ![s] = "open"]
  /\ UNCHANGED <<wish, changes, failures, replaced, seen, current, queue, wire, cfgHash, pusher, agent>>

\* The loop sends what is queued.
SendQueued(s) ==
  /\ place[s] = "open"
  /\ queue[s] # <<>> /\ Len(down[s]) < WireLimit
  /\ Sends(s, Head(queue[s]))
  /\ queue' = [queue EXCEPT ![s] = Tail(@)]
  /\ UNCHANGED <<wish, changes, failures, handlers, up, view, pusher, agent>>

\* Mutant: the digest is noted, and nothing is sent again.
TakeBeatOnly(s) ==
  /\ place[s] = "open"
  /\ up[s] # <<>>
  /\ up' = [up EXCEPT ![s] = Tail(@)]
  /\ UNCHANGED <<wish, changes, failures, handlers, queue, down, view, pusher, agent>>

\* NoteConfigEcho: an agent that names another Config, and not just after a send, has lost one.
\* Whatever it is, the next PushOne sends it again.
AfterEcho(digest) == IF digest = cfgHash \/ recent THEN cfgHash ELSE None

\* A heartbeat.
TakeBeat(s) ==
  /\ place[s] = "open"
  /\ up[s] # <<>>
  /\ cfgHash' = AfterEcho(Head(up[s]))
  /\ up' = [up EXCEPT ![s] = Tail(@)]
  /\ UNCHANGED <<wish, changes, failures, handlers, queue, down, recent, pusher, agent>>

\* The grace after a send passes.
GracePasses ==
  /\ recent
  /\ recent' = FALSE
  /\ UNCHANGED <<wish, changes, failures, handlers, queue, wire, cfgHash, pusher, agent>>

\* The handler returns and takes itself out of the table, if it is still there.
Left(s) ==
  /\ place' = [place EXCEPT ![s] = "out"]
  /\ current' = IF current = s THEN None ELSE current
  /\ replaced' = [replaced EXCEPT ![s] = FALSE]
  /\ seen' = [seen EXCEPT ![s] = None]
  /\ up' = [up EXCEPT ![s] = <<>>]

\* It was told to end and listens, or the agent is gone.
Leave(s) ==
  /\ \/ place[s] = "open" /\ replaced[s]
     \/ Running(s) /\ agent.on # s
  /\ Left(s)
  /\ UNCHANGED <<wish, changes, failures, queue, down, view, pusher, agent>>

\* An error, a refused message, an expired certificate.
Fail(s) ==
  /\ failures < MaxFailures
  /\ Running(s)
  /\ failures' = failures + 1
  /\ Left(s)
  /\ UNCHANGED <<wish, changes, queue, down, view, pusher, agent>>

\* The interceptor did not let the connection in, or it broke before.
NotLetIn(s) ==
  /\ place[s] = "dialled" /\ agent.on # s
  /\ Left(s)
  /\ UNCHANGED <<wish, changes, failures, queue, down, view, pusher, agent>>

Restart ==
  /\ failures < MaxFailures
  /\ failures' = failures + 1
  /\ place' = [s \in Streams |-> "out"]
  /\ current' = None
  /\ replaced' = [s \in Streams |-> FALSE]
  /\ seen' = [s \in Streams |-> None]
  /\ queue' = [s \in Streams |-> <<>>]
  /\ up' = [s \in Streams |-> <<>>]
  /\ cfgHash' = None /\ recent' = FALSE
  /\ pusher' = [p \in Pushers |-> Idle]
  /\ UNCHANGED <<wish, changes, down, agent>>

-----------------------------------------------------------------------------
\* The agent

\* A stream stands for a new connection: no PushOne holds the old one.
Dial(s) ==
  /\ agent.on = None
  /\ place[s] = "out" /\ \A p \in Pushers : pusher[p].stream # s
  /\ agent' = [on |-> s, inForce |-> None]
  /\ place' = [place EXCEPT ![s] = "dialled"]
  /\ queue' = [queue EXCEPT ![s] = <<>>]
  /\ down' = [down EXCEPT ![s] = <<>>]
  /\ up' = [up EXCEPT ![s] = <<>>]
  /\ UNCHANGED <<wish, changes, failures, replaced, seen, current, view, pusher>>

\* What is on its way to it is lost.
Hangs(s) ==
  /\ agent' = [on |-> None, inForce |-> None]
  /\ down' = [down EXCEPT ![s] = <<>>]

\* What the agent names in a heartbeat; an older one names nothing.
Beat(s, digest) ==
  IF Echoes THEN up' = [up EXCEPT ![s] = Append(@, digest)] ELSE UNCHANGED up

\* Another tier to collect at takes another collector, and so another stream.
Reconfigures(digest) == agent.inForce # None /\ digest.tier # agent.inForce.tier

\* A Config is put in force, and named at once.
Applies(s, digest) ==
  /\ agent' = [agent EXCEPT !.inForce = digest]
  /\ Beat(s, digest)

\* A Config arrives, the one that answers the Hello or a later one.
TakeConfig(s) ==
  /\ agent.on = s
  /\ down[s] # <<>>
  /\ LET digest == DigestOf(Head(down[s])) IN
     IF Reconfigures(digest)
     THEN Hangs(s) /\ UNCHANGED up
     ELSE /\ Len(up[s]) < WireLimit
          /\ Applies(s, digest)
          /\ down' = [down EXCEPT ![s] = Tail(@)]
  /\ UNCHANGED <<wish, changes, failures, handlers, queue, view, pusher>>

HeartBeat(s) ==
  /\ Echoes
  /\ agent.on = s
  /\ agent.inForce # None /\ Len(up[s]) < WireLimit
  /\ Beat(s, agent.inForce)
  /\ UNCHANGED <<wish, changes, failures, handlers, queue, down, view, pusher, agent>>

\* The server ended the stream.
NoteEnd(s) ==
  /\ agent.on = s
  /\ place[s] = "out"
  /\ Hangs(s)
  /\ UNCHANGED <<wish, changes, failures, handlers, queue, up, view, pusher>>

\* The connection breaks, the Hello is not answered in time, the certificate is renewed.
HangUp(s) ==
  /\ failures < MaxFailures
  /\ agent.on = s
  /\ failures' = failures + 1
  /\ Hangs(s)
  /\ UNCHANGED <<wish, changes, handlers, queue, up, view, pusher>>

-----------------------------------------------------------------------------

PushStep(p) ==
  PushRead(p) \/ PushCompile(p) \/ PushQueue(p) \/ PushAdopt(p)

HandlerStep(s) ==
  Register(s) \/ Recheck(s) \/ Answer(s) \/ NoteSent(s)

AgentStep(s) ==
  Dial(s) \/ TakeConfig(s) \/ HeartBeat(s) \/ NoteEnd(s) \/ HangUp(s)

ChannelNext ==
  \/ Change \/ GracePasses \/ Restart
  \/ \E p \in Pushers : PushStart(p) \/ PushStep(p) \/ PushGivesUp(p)
  \/ \E s \in Streams :
       \/ HandlerStep(s) \/ SendQueued(s) \/ TakeBeat(s) \/ Leave(s) \/ NotLetIn(s) \/ Fail(s)
       \/ AgentStep(s)

\* The minute tick starts a PushOne again and again; a loop takes in the end what stays ready;
\* the agent connects again and beats.  Nothing is fair about changes and failures.
ChannelFairness ==
  /\ \A p \in Pushers : WF_channelVars(PushStart(p)) /\ WF_channelVars(PushStep(p))
  /\ \A s \in Streams :
       /\ WF_channelVars(HandlerStep(s) \/ NotLetIn(s))
       /\ SF_channelVars(SendQueued(s))
       /\ WF_channelVars(TakeBeat(s))
       /\ WF_channelVars(Leave(s))
       /\ SF_channelVars(TakeConfig(s))
       /\ WF_channelVars(HeartBeat(s))
       /\ WF_channelVars(NoteEnd(s))
  /\ WF_channelVars(\E s \in Streams : Dial(s))
  /\ WF_channelVars(GracePasses)

ChannelSpec == ChannelInit /\ [][ChannelNext]_channelVars /\ ChannelFairness

-----------------------------------------------------------------------------
\* Properties

\* Two pushes are queued in the order in which they read the row, so that the older Config
\* is not the one that stays (PushOne under PushMu).
QueuedInOrder ==
  \A s \in Streams : \A i, j \in 1 .. Len(queue[s]) :
    i < j => queue[s][i].read <= queue[s][j].read

\* What keeps the order: only one PushOne is past the lock, nothing queued was read later than
\* what it holds, and nothing was read in the future.
OneIsLocked == \A p, q \in Pushers : Locked(p) /\ Locked(q) => p = q

ReadBefore ==
  \A s \in Streams : \A i \in 1 .. Len(queue[s]) :
    /\ queue[s][i].read <= changes
    /\ \A p \in Pushers :
         pusher[p].at \in {"read", "compiled"} => queue[s][i].read <= pusher[p].cfg.read

HeldBefore == \A p \in Pushers : Locked(p) => pusher[p].cfg.read <= changes

ChannelOrder == OneIsLocked /\ ReadBefore /\ HeldBefore /\ QueuedInOrder

ChannelInv == ChannelTypeOK /\ ChannelOrder

\* What was set takes effect: once changes and failures stop, the agent has on its current
\* stream the Config of what was set last, and the server holds that one as sent and sends no
\* other.  Full queues, Configs queued on a stream that was replaced, a handler that answers
\* for a connection already gone and the answer to a Hello that overtakes a push are all made
\* good (PushOne, ConfigFor, NoteConfigEcho, the agent's stream).
TakesEffect ==
  <>[](agent.on = current /\ agent.inForce = wish /\ cfgHash = wish)
=============================================================================
