-------------------------- MODULE ConfigChannelProof -------------------------
(***************************************************************************)
(* The safety properties of ConfigChannel, for any number of streams and   *)
(* of PushOne calls, any capacity of the queue and any settings.           *)
(*                                                                         *)
(* ChannelOrder is inductive.  It needs the lock (OneIsLocked) only at one *)
(* point: what a PushOne queues may be appended because nobody has queued  *)
(* anything since it read the row (ReadBefore).                            *)
(***************************************************************************)
EXTENDS ConfigChannel, SequenceTheorems, TLAPS

-----------------------------------------------------------------------------
\* Sequences

\* What stays in a queue, and what leaves it, are of the type of the queue.
LEMMA TailOfQueue ==
  ASSUME NEW S, NEW q \in Seq(S), q # <<>>
  PROVE  /\ Head(q) \in S
         /\ Tail(q) \in Seq(S)
         /\ Len(Tail(q)) = Len(q) - 1
         /\ Len(q) \in Nat \ {0}
         /\ \A i \in 1 .. Len(Tail(q)) : i + 1 \in 1 .. Len(q) /\ Tail(q)[i] = q[i + 1]
<1>1. Len(q) \in Nat \ {0}
  BY EmptySeq, LenProperties
<1>. QED  BY <1>1, HeadTailProperties

\* Appending adds one element behind the others.
LEMMA AppendToQueue ==
  ASSUME NEW S, NEW q \in Seq(S), NEW e \in S
  PROVE  /\ Append(q, e) \in Seq(S)
         /\ Len(Append(q, e)) = Len(q) + 1
         /\ \A i \in 1 .. Len(q) : Append(q, e)[i] = q[i]
         /\ Append(q, e)[Len(q) + 1] = e
  BY AppendProperties

\* The empty queue is of any type and within any limit.
LEMMA EmptyQueue ==
  ASSUME NEW S
  PROVE  <<>> \in Seq(S) /\ Len(<<>>) = 0
  OBVIOUS

-----------------------------------------------------------------------------
\* Types

\* A Config made from a row is a Config, and its digest a digest.
LEMMA CompiledType ==
  ASSUME ChannelTypeOK
  PROVE  /\ RowNow \in Row
         /\ \A row \in Row : Compiled(row) \in Config
         /\ \A c \in Config : DigestOf(c) \in Digest
  BY DEF ChannelTypeOK, SettingsOK, Compiled, Config, Row, RowNow, Digest, DigestOf

\* What the PushOne calls do keeps the types.
LEMMA PushTypes ==
  ASSUME ChannelTypeOK, NEW p \in Pushers, PushStart(p) \/ PushStep(p) \/ PushGivesUp(p)
  PROVE  ChannelTypeOK'
<1>. USE ChannelAssumption, CompiledType DEF ChannelTypeOK, view, wire, handlers
<1>1. CASE PushStart(p)
  BY <1>1 DEF PushStart, SettingsOK, HandlersOK, WiresOK, PushersOK
<1>2. CASE PushRead(p)
  BY <1>2, ZenonT(40) DEF PushRead, SettingsOK, HandlersOK, WiresOK, PushersOK
<1>3. CASE PushCompile(p)
  BY <1>3, ZenonT(40) DEF PushCompile, Idle, SettingsOK, HandlersOK, WiresOK, PushersOK
<1>4. CASE PushQueue(p)
  <2>. DEFINE s == pusher[p].stream
  <2>1. s \in Streams /\ pusher[p].cfg \in Config /\ queue[s] \in Seq(Config)
    BY <1>4 DEF PushQueue, PushersOK, WiresOK
  <2>2. /\ Append(queue[s], pusher[p].cfg) \in Seq(Config)
        /\ Len(Append(queue[s], pusher[p].cfg)) = Len(queue[s]) + 1
        /\ Len(queue[s]) \in Nat
    BY <2>1, AppendToQueue, LenProperties
  <2>3. WiresOK'
    <3>1. CASE Len(queue[s]) < QueueLimit
      <4>1. queue' = [queue EXCEPT ![s] = Append(queue[s], pusher[p].cfg)] /\ wire' = wire
        BY <1>4, <3>1 DEF PushQueue
      <4>2. Len(Append(queue[s], pusher[p].cfg)) <= QueueLimit
        BY <2>2, <3>1
      <4>. QED  BY <2>1, <2>2, <4>1, <4>2 DEF WiresOK
    <3>2. CASE ~(Len(queue[s]) < QueueLimit)
      BY <1>4, <3>2 DEF PushQueue, WiresOK
    <3>. QED  BY <3>1, <3>2
  <2>4. PushersOK'
    BY <1>4 DEF PushQueue, PushersOK, Idle
  <2>. QED  BY <1>4, <2>3, <2>4 DEF PushQueue, SettingsOK, HandlersOK
<1>5. CASE PushAdopt(p)
  BY <1>5 DEF PushAdopt, Idle, SettingsOK, HandlersOK, WiresOK, PushersOK
<1>6. CASE PushGivesUp(p)
  BY <1>6 DEF PushGivesUp, Idle, SettingsOK, HandlersOK, WiresOK, PushersOK
<1>. QED  BY <1>1, <1>2, <1>3, <1>4, <1>5, <1>6 DEF PushStep

\* A Config that is sent is put on the wire or lost.
LEMMA SendsTypes ==
  ASSUME ChannelTypeOK, NEW s \in Streams, NEW cfg \in Config, Sends(s, cfg)
  PROVE  down' \in [Streams -> Seq(Config)]
<1>1. down[s] \in Seq(Config) /\ down \in [Streams -> Seq(Config)]
  BY DEF ChannelTypeOK, WiresOK
<1>2. Append(down[s], cfg) \in Seq(Config)
  BY <1>1, AppendToQueue
<1>. QED  BY <1>1, <1>2 DEF Sends

\* So does the handler of a stream.
LEMMA HandlerTypes ==
  ASSUME ChannelTypeOK, NEW s \in Streams,
         HandlerStep(s) \/ SendQueued(s) \/ TakeBeat(s) \/ Leave(s) \/ NotLetIn(s) \/ Fail(s)
  PROVE  ChannelTypeOK'
<1>. USE ChannelAssumption DEF ChannelTypeOK, view, wire, handlers
<1>1. CASE Register(s)
  BY <1>1 DEF Register, SettingsOK, HandlersOK, WiresOK, PushersOK
<1>2. CASE Recheck(s)
  BY <1>2, CompiledType DEF Recheck, SettingsOK, HandlersOK, WiresOK, PushersOK
<1>3. CASE Answer(s)
  <2>1. Compiled(seen[s]) \in Config /\ DigestOf(Compiled(seen[s])) \in Digest
    BY <1>3, CompiledType DEF Answer, HandlersOK
  <2>2. down' \in [Streams -> Seq(Config)]
    BY <1>3, <2>1, SendsTypes DEF Answer
  <2>. QED  BY <1>3, <2>1, <2>2 DEF Answer, SettingsOK, HandlersOK, WiresOK, PushersOK
<1>4. CASE NoteSent(s)
  BY <1>4 DEF NoteSent, SettingsOK, HandlersOK, WiresOK, PushersOK
<1>5. CASE SendQueued(s)
  <2>1. queue[s] \in Seq(Config) /\ queue[s] # <<>>
    BY <1>5 DEF SendQueued, WiresOK
  <2>2. /\ Head(queue[s]) \in Config
        /\ Tail(queue[s]) \in Seq(Config)
        /\ Len(Tail(queue[s])) <= QueueLimit
    BY <2>1, TailOfQueue DEF WiresOK
  <2>3. down' \in [Streams -> Seq(Config)]
    BY <1>5, <2>2, SendsTypes DEF SendQueued
  <2>4. WiresOK'
    BY <1>5, <2>2, <2>3 DEF SendQueued, WiresOK
  <2>. QED  BY <1>5, <2>4 DEF SendQueued, SettingsOK, HandlersOK, PushersOK
<1>6. CASE TakeBeat(s)
  <2>1. up[s] \in Seq(Digest) /\ up[s] # <<>>
    BY <1>6 DEF TakeBeat, WiresOK
  <2>2. Tail(up[s]) \in Seq(Digest) /\ Len(Tail(up[s])) <= WireLimit
    BY <2>1, TailOfQueue DEF WiresOK
  <2>3. WiresOK'
    BY <1>6, <2>2 DEF TakeBeat, WiresOK
  <2>. QED  BY <1>6, <2>3 DEF TakeBeat, AfterEcho, SettingsOK, HandlersOK, PushersOK
<1>7. CASE Leave(s) \/ NotLetIn(s) \/ Fail(s)
  <2>1. Left(s) /\ queue' = queue /\ down' = down
    BY <1>7 DEF Leave, NotLetIn, Fail
  <2>2. HandlersOK'
    BY <2>1 DEF Left, HandlersOK
  <2>3. WiresOK'
    BY <2>1, EmptyQueue DEF Left, WiresOK
  <2>. QED  BY <1>7, <2>2, <2>3 DEF Leave, NotLetIn, Fail, SettingsOK, PushersOK
<1>. QED  BY <1>1, <1>2, <1>3, <1>4, <1>5, <1>6, <1>7 DEF HandlerStep

\* So does the agent.
LEMMA AgentTypes ==
  ASSUME ChannelTypeOK, NEW s \in Streams, AgentStep(s)
  PROVE  ChannelTypeOK'
<1>. USE ChannelAssumption DEF ChannelTypeOK, view, wire, handlers
<1>1. CASE Dial(s)
  <2>1. WiresOK'
    BY <1>1, EmptyQueue DEF Dial, WiresOK
  <2>. QED  BY <1>1, <2>1 DEF Dial, SettingsOK, HandlersOK, PushersOK
<1>2. ASSUME NEW digest \in Digest, Beat(s, digest), Len(up[s]) < WireLimit
      PROVE  up' \in [Streams -> Seq(Digest)] /\ \A t \in Streams : Len(up'[t]) <= WireLimit
  <2>1. up[s] \in Seq(Digest) /\ Len(up[s]) \in Nat
    BY LenProperties DEF WiresOK
  <2>2. Append(up[s], digest) \in Seq(Digest) /\ Len(Append(up[s], digest)) <= WireLimit
    BY <1>2, <2>1, AppendToQueue
  <2>. QED  BY <1>2, <2>2 DEF Beat, WiresOK
<1>3. CASE TakeConfig(s)
  <2>1. down[s] \in Seq(Config) /\ down[s] # <<>>
    BY <1>3 DEF TakeConfig, WiresOK
  <2>2. Head(down[s]) \in Config /\ Tail(down[s]) \in Seq(Config)
    BY <2>1, TailOfQueue
  <2>3. DigestOf(Head(down[s])) \in Digest
    BY <2>2, CompiledType
  <2>4. down' = [down EXCEPT ![s] = <<>>] \/ down' = [down EXCEPT ![s] = Tail(down[s])]
    BY <1>3 DEF TakeConfig, Applies, Hangs
  <2>5. down' \in [Streams -> Seq(Config)]
    <3>1. <<>> \in Seq(Config)
      BY EmptyQueue
    <3>. QED  BY <2>2, <2>4, <3>1 DEF WiresOK
  <2>6. /\ up' \in [Streams -> Seq(Digest)]
        /\ \A t \in Streams : Len(up'[t]) <= WireLimit
    BY <1>3, <1>2, <2>3 DEF TakeConfig, Applies, WiresOK
  <2>7. WiresOK'
    BY <1>3, <2>5, <2>6 DEF TakeConfig, WiresOK
  <2>8. agent' \in [on : Streams \cup {None}, inForce : Digest \cup {None}]
    BY <1>3, <2>3 DEF TakeConfig, Applies, Hangs
  <2>. QED  BY <1>3, <2>7, <2>8 DEF TakeConfig, SettingsOK, HandlersOK, PushersOK
<1>4. CASE HeartBeat(s)
  <2>1. agent.inForce \in Digest
    BY <1>4 DEF HeartBeat
  <2>2. WiresOK'
    BY <1>4, <1>2, <2>1 DEF HeartBeat, WiresOK
  <2>. QED  BY <1>4, <2>2 DEF HeartBeat, SettingsOK, HandlersOK, PushersOK
<1>5. CASE NoteEnd(s) \/ HangUp(s)
  <2>1. down' = [down EXCEPT ![s] = <<>>] /\ queue' = queue /\ up' = up
    BY <1>5 DEF NoteEnd, HangUp, Hangs
  <2>2. <<>> \in Seq(Config)
    BY EmptyQueue
  <2>3. WiresOK'
    BY <2>1, <2>2 DEF WiresOK
  <2>. QED  BY <1>5, <2>3 DEF NoteEnd, HangUp, Hangs, SettingsOK, HandlersOK, PushersOK
<1>. QED  BY <1>1, <1>3, <1>4, <1>5 DEF AgentStep

\* So do administrators, the clock and a restart.
LEMMA OutsideTypes ==
  ASSUME ChannelTypeOK, Change \/ GracePasses \/ Restart
  PROVE  ChannelTypeOK'
<1>. USE ChannelAssumption DEF ChannelTypeOK, view, wire, handlers
<1>1. CASE Change
  BY <1>1 DEF Change, SettingsOK, HandlersOK, WiresOK, PushersOK
<1>2. CASE GracePasses
  BY <1>2 DEF GracePasses, SettingsOK, HandlersOK, WiresOK, PushersOK
<1>3. CASE Restart
  <2>1. WiresOK'
    BY <1>3, EmptyQueue DEF Restart, WiresOK
  <2>2. PushersOK'
    BY <1>3 DEF Restart, PushersOK, Idle
  <2>3. HandlersOK'
    BY <1>3 DEF Restart, HandlersOK
  <2>4. SettingsOK'
    BY <1>3 DEF Restart, SettingsOK
  <2>. QED  BY <1>3, <2>1, <2>2, <2>3, <2>4 DEF Restart
<1>. QED  BY <1>1, <1>2, <1>3

\* The channel starts empty.
LEMMA ChannelStarts == ChannelInit => ChannelInv
<1>. SUFFICES ASSUME ChannelInit PROVE ChannelInv
  OBVIOUS
<1>1. <<>> \in Seq(Config) /\ <<>> \in Seq(Digest) /\ Len(<<>>) = 0
  BY EmptyQueue
<1>2. WiresOK
  BY <1>1, ChannelAssumption DEF ChannelInit, WiresOK
<1>3. SettingsOK /\ HandlersOK /\ PushersOK
  BY ChannelAssumption DEF ChannelInit, SettingsOK, HandlersOK, PushersOK, Digest, Idle
<1>4. ChannelTypeOK
  BY <1>2, <1>3 DEF ChannelInit, ChannelTypeOK
<1>5. /\ \A p \in Pushers : pusher[p].at = "idle"
      /\ \A s \in Streams : Len(queue[s]) = 0
  BY <1>1 DEF ChannelInit, Idle
<1>. QED
  BY <1>4, <1>5 DEF ChannelInv, ChannelOrder, OneIsLocked, Locked, ReadBefore, HeldBefore, QueuedInOrder

-----------------------------------------------------------------------------
\* Order

\* Reads and changes are numbers.
LEMMA ReadsAreNumbers ==
  ASSUME ChannelTypeOK
  PROVE  /\ changes \in Nat
         /\ \A p \in Pushers : Locked(p) => pusher[p].cfg.read \in Nat
         /\ \A s \in Streams : Len(queue[s]) \in Nat
         /\ \A s \in Streams : \A i \in 1 .. Len(queue[s]) : queue[s][i].read \in Nat
<1>1. changes \in Nat
  BY ChannelAssumption DEF ChannelTypeOK, SettingsOK
<1>2. \A p \in Pushers : Locked(p) => pusher[p].cfg.read \in Nat
  BY ChannelAssumption DEF ChannelTypeOK, PushersOK, Locked, Config, Row
<1>3. ASSUME NEW s \in Streams, NEW i \in 1 .. Len(queue[s])
      PROVE  queue[s][i].read \in Nat
  <2>1. queue[s] \in Seq(Config)
    BY DEF ChannelTypeOK, WiresOK
  <2>2. queue[s][i] \in Config
    BY <2>1, ElementOfSeq
  <2>. QED  BY <2>2, ChannelAssumption DEF Config
<1>4. \A s \in Streams : Len(queue[s]) \in Nat
  BY LenProperties DEF ChannelTypeOK, WiresOK
<1>. QED  BY <1>1, <1>2, <1>3, <1>4

\* A step that queues nothing, takes no lock and reads no row keeps the order: what stays
\* queued was queued, and who is locked was.
LEMMA OrderFrame ==
  ASSUME ChannelTypeOK, ChannelTypeOK', ChannelOrder,
         changes' >= changes,
         \A p \in Pushers : Locked(p)' => Locked(p) /\ pusher'[p].cfg.read = pusher[p].cfg.read,
         \A p \in Pushers : pusher'[p].at \in {"read", "compiled"} => pusher[p].at \in {"read", "compiled"},
         \A s \in Streams : \/ queue'[s] = queue[s]
                           \/ queue'[s] = <<>>
                           \/ (queue[s] # <<>> /\ queue'[s] = Tail(queue[s]))
  PROVE  ChannelOrder'
<1>1. ASSUME NEW s \in Streams
      PROVE  \E d \in {0, 1} : \A i \in 1 .. Len(queue'[s]) :
               i + d \in 1 .. Len(queue[s]) /\ queue'[s][i] = queue[s][i + d]
  <2>1. CASE queue'[s] = queue[s]
    <3>1. \A i \in 1 .. Len(queue'[s]) : i + 0 \in 1 .. Len(queue[s]) /\ queue'[s][i] = queue[s][i + 0]
      BY <2>1
    <3>. QED  BY <3>1
  <2>2. CASE queue'[s] = <<>>
    BY <2>2, EmptyQueue
  <2>3. CASE queue[s] # <<>> /\ queue'[s] = Tail(queue[s])
    <3>1. queue[s] \in Seq(Config)
      BY DEF ChannelTypeOK, WiresOK
    <3>. QED  BY <2>3, <3>1, TailOfQueue
  <2>. QED  BY <1>1, <2>1, <2>2, <2>3
<1>2. OneIsLocked'
  BY DEF ChannelOrder, OneIsLocked
<1>3. changes' \in Nat
  BY ChannelAssumption DEF ChannelTypeOK, SettingsOK
<1>4. HeldBefore'
  BY <1>3, ReadsAreNumbers DEF ChannelOrder, HeldBefore
<1>5. QueuedInOrder'
  <2>. SUFFICES ASSUME NEW s \in Streams, NEW i \in 1 .. Len(queue'[s]), NEW j \in 1 .. Len(queue'[s]), i < j
                PROVE  queue'[s][i].read <= queue'[s][j].read
    BY DEF QueuedInOrder
  <2>1. PICK d \in {0, 1} : \A k \in 1 .. Len(queue'[s]) :
               k + d \in 1 .. Len(queue[s]) /\ queue'[s][k] = queue[s][k + d]
    BY <1>1
  <2>2. /\ i + d \in 1 .. Len(queue[s]) /\ queue'[s][i] = queue[s][i + d]
        /\ j + d \in 1 .. Len(queue[s]) /\ queue'[s][j] = queue[s][j + d]
    BY <2>1
  <2>3. i + d < j + d
    OBVIOUS
  <2>4. \A a, b \in 1 .. Len(queue[s]) : a < b => queue[s][a].read <= queue[s][b].read
    BY DEF ChannelOrder, QueuedInOrder
  <2>5. queue[s][i + d].read <= queue[s][j + d].read
    BY <2>2, <2>3, <2>4
  <2>. QED  BY <2>2, <2>5
<1>6. ReadBefore'
  <2>. SUFFICES ASSUME NEW s \in Streams, NEW i \in 1 .. Len(queue'[s])
                PROVE  /\ queue'[s][i].read <= changes'
                       /\ \A p \in Pushers :
                            pusher'[p].at \in {"read", "compiled"} => queue'[s][i].read <= pusher'[p].cfg.read
    BY DEF ReadBefore
  <2>1. PICK k \in 1 .. Len(queue[s]) : queue'[s][i] = queue[s][k]
    BY <1>1
  <2>2. queue[s][k].read <= changes /\ queue[s][k].read \in Nat /\ changes \in Nat /\ changes' \in Nat
    BY <1>3, ReadsAreNumbers DEF ChannelOrder, ReadBefore
  <2>3. queue[s][k].read <= changes'
    BY <2>2
  <2>. QED  BY <2>1, <2>3 DEF ChannelOrder, ReadBefore, Locked
<1>. QED  BY <1>2, <1>4, <1>5, <1>6 DEF ChannelOrder

\* A row is read by the only one past the lock, and later than all that is queued was read.
LEMMA ReadKeepsOrder ==
  ASSUME ChannelInv, NEW p \in Pushers, PushRead(p)
  PROVE  ChannelOrder'
<1>1. /\ pusher'[p].at = "read" /\ pusher'[p].cfg.read = changes
      /\ \A q \in Pushers \ {p} : pusher'[q] = pusher[q]
      /\ \A q \in Pushers : ~Locked(q)
      /\ changes' = changes /\ queue' = queue
  BY DEF PushRead, RowNow, ChannelInv, ChannelTypeOK, PushersOK
<1>2. changes \in Nat
  BY ReadsAreNumbers DEF ChannelInv
<1>. QED
  BY <1>1, <1>2 DEF ChannelInv, ChannelOrder, OneIsLocked, ReadBefore, HeldBefore, QueuedInOrder, Locked

\* What is queued was read last: nothing has been queued since by anybody else.
LEMMA QueueKeepsOrder ==
  ASSUME ChannelInv, NEW p \in Pushers, PushQueue(p), Len(queue[pusher[p].stream]) < QueueLimit
  PROVE  ChannelOrder'
<1>. DEFINE s == pusher[p].stream
            e == pusher[p].cfg
<1>1. s \in Streams /\ e \in Config /\ queue[s] \in Seq(Config) /\ pusher[p].at = "compiled"
  BY DEF PushQueue, ChannelInv, ChannelTypeOK, PushersOK, WiresOK
<1>2. /\ \A t \in Streams \ {s} : queue'[t] = queue[t]
      /\ queue'[s] = Append(queue[s], e)
      /\ changes' = changes
      /\ pusher'[p].at = "queued" /\ pusher'[p].cfg = e
      /\ \A q \in Pushers \ {p} : pusher'[q] = pusher[q]
  BY <1>1 DEF PushQueue, ChannelInv, ChannelTypeOK, WiresOK, PushersOK
<1>3. /\ Len(queue'[s]) = Len(queue[s]) + 1 /\ Len(queue[s]) \in Nat
      /\ \A i \in 1 .. Len(queue[s]) : queue'[s][i] = queue[s][i]
      /\ queue'[s][Len(queue[s]) + 1] = e
  BY <1>1, <1>2, AppendToQueue, LenProperties
<1>4. /\ \A i \in 1 .. Len(queue[s]) : queue[s][i].read <= e.read
      /\ e.read <= changes
      /\ e.read \in Nat /\ changes \in Nat
      /\ \A q \in Pushers : Locked(q) => q = p
  BY <1>1, ReadsAreNumbers DEF ChannelInv, ChannelOrder, ReadBefore, HeldBefore, OneIsLocked, Locked
<1>5. OneIsLocked' /\ HeldBefore'
  BY <1>1, <1>2, <1>4 DEF OneIsLocked, HeldBefore, Locked
<1>6. \A q \in Pushers : pusher'[q].at \notin {"read", "compiled"}
  BY <1>2, <1>4 DEF Locked
<1>7. ReadBefore'
  <2>. SUFFICES ASSUME NEW t \in Streams, NEW i \in 1 .. Len(queue'[t])
                PROVE  queue'[t][i].read <= changes
    BY <1>2, <1>6 DEF ReadBefore
  <2>1. CASE t # s
    BY <1>2, <2>1 DEF ChannelInv, ChannelOrder, ReadBefore
  <2>2. CASE t = s /\ i = Len(queue[s]) + 1
    BY <1>3, <1>4, <2>2
  <2>3. CASE t = s /\ i # Len(queue[s]) + 1
    <3>1. i \in 1 .. Len(queue[s])
      BY <1>3, <2>3
    <3>. QED  BY <1>3, <2>3, <3>1 DEF ChannelInv, ChannelOrder, ReadBefore
  <2>. QED  BY <2>1, <2>2, <2>3
<1>8. QueuedInOrder'
  <2>. SUFFICES ASSUME NEW t \in Streams, NEW i \in 1 .. Len(queue'[t]), NEW j \in 1 .. Len(queue'[t]), i < j
                PROVE  queue'[t][i].read <= queue'[t][j].read
    BY DEF QueuedInOrder
  <2>1. CASE t # s
    BY <1>2, <2>1 DEF ChannelInv, ChannelOrder, QueuedInOrder
  <2>2. CASE t = s
    <3>1. i \in 1 .. Len(queue[s]) /\ queue'[t][i] = queue[s][i]
      BY <1>3, <2>2
    <3>2. CASE j = Len(queue[s]) + 1
      BY <1>3, <1>4, <2>2, <3>1, <3>2
    <3>3. CASE j # Len(queue[s]) + 1
      <4>1. j \in 1 .. Len(queue[s]) /\ queue'[t][j] = queue[s][j]
        BY <1>3, <2>2, <3>3
      <4>. QED  BY <2>2, <3>1, <4>1 DEF ChannelInv, ChannelOrder, QueuedInOrder
    <3>. QED  BY <3>2, <3>3
  <2>. QED  BY <2>1, <2>2
<1>. QED  BY <1>5, <1>7, <1>8 DEF ChannelOrder

\* Every other step of a PushOne call queues nothing.
LEMMA PushOrder ==
  ASSUME ChannelInv, ChannelTypeOK', NEW p \in Pushers,
         PushStart(p) \/ PushStep(p) \/ PushGivesUp(p)
  PROVE  ChannelOrder'
<1>. USE DEF ChannelInv, view, wire, handlers
<1>1. changes \in Nat /\ changes' \in Nat
  BY ChannelAssumption DEF ChannelTypeOK, SettingsOK
<1>2. pusher \in [Pushers -> [at : {"idle", "waiting", "read", "compiled", "queued"},
                             stream : Streams \cup {None}, cfg : Config \cup Row \cup {None}]]
  BY DEF ChannelTypeOK, PushersOK
<1>3. CASE PushStart(p)
  BY <1>1, <1>2, <1>3, OrderFrame DEF PushStart, Locked
<1>4. CASE PushRead(p)
  BY <1>4, ReadKeepsOrder
<1>5. CASE PushCompile(p)
  BY <1>1, <1>2, <1>5, OrderFrame DEF PushCompile, Compiled, Idle, Locked
<1>6. CASE PushQueue(p) /\ Len(queue[pusher[p].stream]) < QueueLimit
  BY <1>6, QueueKeepsOrder
<1>7. CASE PushQueue(p) /\ ~(Len(queue[pusher[p].stream]) < QueueLimit)
  BY <1>1, <1>2, <1>7, OrderFrame DEF PushQueue, Idle, Locked
<1>8. CASE PushAdopt(p)
  BY <1>1, <1>2, <1>8, OrderFrame DEF PushAdopt, Idle, Locked
<1>9. CASE PushGivesUp(p)
  BY <1>1, <1>2, <1>9, OrderFrame DEF PushGivesUp, Idle, Locked
<1>. QED  BY <1>3, <1>4, <1>5, <1>6, <1>7, <1>8, <1>9 DEF PushStep

\* A handler and the agent take from a queue at its head, or leave it.
LEMMA StreamOrder ==
  ASSUME ChannelInv, ChannelTypeOK', NEW s \in Streams,
         \/ HandlerStep(s) \/ SendQueued(s) \/ TakeBeat(s) \/ Leave(s) \/ NotLetIn(s) \/ Fail(s)
         \/ AgentStep(s)
  PROVE  ChannelOrder'
<1>. USE DEF ChannelInv, view, wire, handlers
<1>1. changes \in Nat /\ queue \in [Streams -> Seq(Config)]
  BY ChannelAssumption DEF ChannelTypeOK, SettingsOK, WiresOK
<1>2. CASE HandlerStep(s) \/ TakeBeat(s) \/ Leave(s) \/ NotLetIn(s) \/ Fail(s)
  <2>1. changes' = changes /\ pusher' = pusher /\ queue' = queue
    BY <1>2 DEF HandlerStep, Register, Recheck, Answer, NoteSent, TakeBeat, Leave, NotLetIn, Fail
  <2>. QED  BY <1>1, <2>1, OrderFrame DEF Locked
<1>3. CASE SendQueued(s)
  <2>1. /\ changes' = changes /\ pusher' = pusher
        /\ queue[s] # <<>> /\ queue' = [queue EXCEPT ![s] = Tail(queue[s])]
    BY <1>3 DEF SendQueued
  <2>. QED  BY <1>1, <2>1, OrderFrame DEF Locked
<1>4. CASE Dial(s)
  <2>1. changes' = changes /\ pusher' = pusher /\ queue' = [queue EXCEPT ![s] = <<>>]
    BY <1>4 DEF Dial
  <2>. QED  BY <1>1, <2>1, OrderFrame DEF Locked
<1>5. CASE TakeConfig(s) \/ HeartBeat(s) \/ NoteEnd(s) \/ HangUp(s)
  <2>1. changes' = changes /\ pusher' = pusher /\ queue' = queue
    BY <1>5 DEF TakeConfig, HeartBeat, NoteEnd, HangUp
  <2>. QED  BY <1>1, <2>1, OrderFrame DEF Locked
<1>. QED  BY <1>2, <1>3, <1>4, <1>5 DEF AgentStep

\* Administrators and the clock queue nothing; a restart empties every queue.
LEMMA OutsideOrder ==
  ASSUME ChannelInv, ChannelTypeOK', Change \/ GracePasses \/ Restart
  PROVE  ChannelOrder'
<1>. USE DEF ChannelInv, view, wire, handlers
<1>1. changes \in Nat
  BY ChannelAssumption DEF ChannelTypeOK, SettingsOK
<1>2. CASE Change \/ GracePasses
  <2>1. changes' >= changes /\ pusher' = pusher /\ queue' = queue
    BY <1>1, <1>2 DEF Change, GracePasses
  <2>. QED  BY <2>1, OrderFrame DEF Locked
<1>3. CASE Restart
  <2>1. /\ changes' = changes /\ queue' = [t \in Streams |-> <<>>]
        /\ \A p \in Pushers : pusher'[p].at = "idle"
    BY <1>3 DEF Restart, Idle
  <2>. QED  BY <1>1, <2>1, OrderFrame DEF Locked
<1>. QED  BY <1>2, <1>3

-----------------------------------------------------------------------------
\* Theorems

\* Types and order hold in every state, for any number of streams and PushOne calls.
THEOREM ChannelAlwaysInv == ChannelSpec => []ChannelInv
<1>1. ChannelInv /\ [ChannelNext]_channelVars => ChannelInv'
  <2>. SUFFICES ASSUME ChannelInv, [ChannelNext]_channelVars PROVE ChannelInv'
    OBVIOUS
  <2>1. CASE UNCHANGED channelVars
    <3>1. ChannelTypeOK'
      BY <2>1 DEF ChannelInv, channelVars, handlers, wire, view, ChannelTypeOK,
                  SettingsOK, HandlersOK, WiresOK, PushersOK
    <3>2. ChannelOrder'
      BY <2>1 DEF ChannelInv, channelVars, handlers, wire, view, ChannelOrder,
                  OneIsLocked, ReadBefore, HeldBefore, QueuedInOrder, Locked
    <3>. QED  BY <3>1, <3>2 DEF ChannelInv
  <2>2. ASSUME NEW p \in Pushers, PushStart(p) \/ PushStep(p) \/ PushGivesUp(p)
        PROVE  ChannelInv'
    <3>1. ChannelTypeOK'
      BY <2>2, PushTypes DEF ChannelInv
    <3>. QED  BY <2>2, <3>1, PushOrder DEF ChannelInv
  <2>3. CASE Change \/ GracePasses \/ Restart
    <3>1. ChannelTypeOK'
      BY <2>3, OutsideTypes DEF ChannelInv
    <3>. QED  BY <2>3, <3>1, OutsideOrder DEF ChannelInv
  <2>4. ASSUME NEW s \in Streams,
               \/ HandlerStep(s) \/ SendQueued(s) \/ TakeBeat(s) \/ Leave(s) \/ NotLetIn(s) \/ Fail(s)
               \/ AgentStep(s)
        PROVE  ChannelInv'
    <3>1. ChannelTypeOK'
      BY <2>4, HandlerTypes, AgentTypes DEF ChannelInv
    <3>. QED  BY <2>4, <3>1, StreamOrder DEF ChannelInv
  <2>. QED
    BY <2>1, <2>2, <2>3, <2>4 DEF ChannelNext
<1>. QED  BY <1>1, ChannelStarts, PTL DEF ChannelSpec

\* The state is always of its types: no queue beyond its capacity, nothing but Configs in it.
THEOREM ChannelTypeCorrect == ChannelSpec => []ChannelTypeOK
<1>1. ChannelInv => ChannelTypeOK
  BY DEF ChannelInv
<1>. QED  BY <1>1, ChannelAlwaysInv, PTL

\* Two pushes are queued in the order in which they read the row.
THEOREM OrderCorrect == ChannelSpec => []QueuedInOrder
<1>1. ChannelInv => QueuedInOrder
  BY DEF ChannelInv, ChannelOrder
<1>. QED  BY <1>1, ChannelAlwaysInv, PTL
=============================================================================
