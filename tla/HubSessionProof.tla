--------------------------- MODULE HubSessionProof --------------------------
(***************************************************************************)
(* The safety properties of HubSession, for any number of streams.         *)
(*                                                                         *)
(* SessionInv is inductive.  OneSession carries the argument: since every  *)
(* handler but the current one already has its end waiting, a Drop needs   *)
(* to reach only the current one, and RevokedIsEnding survives the moment  *)
(* where it looks.                                                         *)
(***************************************************************************)
EXTENDS HubSession, TLAPS

\* The server starts without a stream.
LEMMA SessionStarts == SessionInit => SessionInv
<1>. SUFFICES ASSUME SessionInit PROVE SessionInv
  OBVIOUS
<1>1. SessionTypeOK
  BY DEF SessionInit, SessionTypeOK, NoRevoke, Place, Reason
<1>2. \A s \in Streams : at[s] = "out" /\ ended[s] = "none"
  BY DEF SessionInit
<1>. QED
  BY <1>1, <1>2 DEF SessionInit, NoRevoke, SessionInv, ShownIsThere, OneSession,
                    RevokedIsEnding, ToldOnlyWhenRevoked, Running

\* Nothing a handler does after it has registered, and no admission, disturbs the invariant.
LEMMA HandlerStep ==
  ASSUME SessionInv, NEW s \in Streams,
         Admit(s) \/ Recheck(s) \/ Hello(s) \/ TakeEnd(s) \/ TakeMessage(s)
                  \/ Handled(s) \/ Fails(s)
  PROVE  SessionInv'
<1>1. CASE Admit(s)
  BY <1>1 DEF Admit, SessionInv, SessionTypeOK, ShownIsThere, OneSession, RevokedIsEnding,
              ToldOnlyWhenRevoked, Running, Serving, Place, Reason
<1>2. CASE Recheck(s)
  BY <1>2 DEF Recheck, SessionInv, SessionTypeOK, ShownIsThere, OneSession, RevokedIsEnding,
              ToldOnlyWhenRevoked, Running, Serving, Place, Reason
<1>3. CASE Hello(s)
  BY <1>3 DEF Hello, SessionInv, SessionTypeOK, ShownIsThere, OneSession, RevokedIsEnding,
              ToldOnlyWhenRevoked, Running, Serving, Place, Reason
<1>4. CASE TakeEnd(s)
  BY <1>4 DEF TakeEnd, SessionInv, SessionTypeOK, ShownIsThere, OneSession, RevokedIsEnding,
              ToldOnlyWhenRevoked, Running, Serving, Place, Reason
<1>5. CASE TakeMessage(s)
  BY <1>5 DEF TakeMessage, SessionInv, SessionTypeOK, ShownIsThere, OneSession, RevokedIsEnding,
              ToldOnlyWhenRevoked, Running, Serving, Place, Reason
<1>6. CASE Handled(s)
  BY <1>6 DEF Handled, SessionInv, SessionTypeOK, ShownIsThere, OneSession, RevokedIsEnding,
              ToldOnlyWhenRevoked, Running, Serving, Place, Reason
<1>7. CASE Fails(s)
  BY <1>7 DEF Fails, SessionInv, SessionTypeOK, ShownIsThere, OneSession, RevokedIsEnding,
              ToldOnlyWhenRevoked, Running, Serving, Place, Reason
<1>. QED  BY <1>1, <1>2, <1>3, <1>4, <1>5, <1>6, <1>7

\* A new connection ends the one before it.
LEMMA RegisterStep ==
  ASSUME SessionInv, NEW s \in Streams, Register(s)
  PROVE  SessionInv'
<1>1. SessionTypeOK'
  BY DEF Register, Cancelled, SessionInv, SessionTypeOK, Place, Reason
<1>2. s # None /\ current # s /\ at[s] = "admitted"
  BY StreamsAssumption DEF Register, SessionInv, ShownIsThere
<1>3. \A r \in Streams \ {s} :
        /\ at'[r] = at[r]
        /\ ended[r] # "none" => ended'[r] = ended[r]
        /\ r = current => ended'[r] # "none"
        /\ ended'[r] # ended[r] => ended'[r] = "replaced"
  BY <1>2, StreamsAssumption DEF Register, Cancelled, SessionInv, SessionTypeOK
<1>4. at'[s] = "registered" /\ ended'[s] = "none" /\ current' = s
  BY DEF Register, Cancelled, SessionInv, SessionTypeOK
<1>5. ShownIsThere'
  BY <1>2, <1>4 DEF Register, ShownIsThere
<1>6. OneSession'
  BY <1>3, <1>4 DEF SessionInv, OneSession, Running
<1>7. RevokedIsEnding'
  BY <1>3, <1>4 DEF Register, SessionInv, RevokedIsEnding, Serving
<1>8. \A r \in Streams : ended'[r] = "revoked" => row' = "revoked"
  BY <1>3, <1>4 DEF Register, SessionInv
<1>. QED
  BY <1>1, <1>5, <1>6, <1>7, <1>8 DEF Register, SessionInv, ToldOnlyWhenRevoked

\* A handler that leaves takes only its own entry with it.
LEMMA CleanupStep ==
  ASSUME SessionInv, NEW s \in Streams, Cleanup(s)
  PROVE  SessionInv'
<1>1. SessionTypeOK'
  BY DEF Cleanup, SessionInv, SessionTypeOK, Place, Reason
<1>2. \A r \in Streams \ {s} : at'[r] = at[r] /\ ended'[r] = ended[r]
  BY DEF Cleanup, SessionInv, SessionTypeOK
<1>3. at'[s] = "out" /\ ended'[s] = "none" /\ at[s] = "leaving"
  BY DEF Cleanup, SessionInv, SessionTypeOK
<1>4. ShownIsThere'
  BY <1>2, <1>3, StreamsAssumption DEF Cleanup, SessionInv, SessionTypeOK, ShownIsThere
<1>5. OneSession'
  BY <1>2, <1>3, StreamsAssumption DEF Cleanup, SessionInv, OneSession, Running
<1>6. RevokedIsEnding'
  BY <1>2, <1>3 DEF Cleanup, SessionInv, RevokedIsEnding, Serving
<1>. QED
  BY <1>1, <1>2, <1>3, <1>4, <1>5, <1>6 DEF Cleanup, SessionInv, ToldOnlyWhenRevoked

\* The revocation and the Drop that follows it.
LEMMA RevocationStep ==
  ASSUME SessionInv, Revoke \/ DropLooks \/ DropCancels \/ Restart
  PROVE  SessionInv'
<1>1. CASE Revoke
  BY <1>1 DEF Revoke, NoRevoke, hub, SessionInv, SessionTypeOK, ShownIsThere, OneSession,
              RevokedIsEnding, ToldOnlyWhenRevoked, Running, Serving
<1>2. CASE DropLooks
  <2>1. \A s \in Streams : Serving(s) /\ s # current => ended[s] # "none"
    BY DEF SessionInv, OneSession, Serving, Running
  <2>. QED
    BY <1>2, <2>1, StreamsAssumption
       DEF DropLooks, NoRevoke, hub, SessionInv, SessionTypeOK, ShownIsThere, OneSession,
           RevokedIsEnding, ToldOnlyWhenRevoked, Running, Serving
<1>3. CASE DropCancels
  <2>1. revoking.stream \in Streams /\ revoking.at = "found"
    BY <1>3 DEF DropCancels, SessionInv, SessionTypeOK
  <2>2. \A s \in Streams : /\ ended[s] # "none" => ended'[s] = ended[s]
                           /\ s = revoking.stream => ended'[s] # "none"
                           /\ s # revoking.stream => ended'[s] = ended[s]
    BY <1>3, <2>1 DEF DropCancels, Cancelled, SessionInv, SessionTypeOK
  <2>3. SessionTypeOK'
    BY <1>3, <2>1 DEF DropCancels, Cancelled, NoRevoke, SessionInv, SessionTypeOK, Reason
  <2>4. row' = "revoked"
    BY <1>3, <2>1 DEF DropCancels, SessionInv
  <2>. QED
    BY <1>3, <2>1, <2>2, <2>3, <2>4
       DEF DropCancels, NoRevoke, SessionInv, ShownIsThere, OneSession,
           RevokedIsEnding, ToldOnlyWhenRevoked, Running, Serving
<1>4. CASE Restart
  BY <1>4 DEF Restart, NoRevoke, SessionInv, SessionTypeOK, ShownIsThere, OneSession,
              RevokedIsEnding, ToldOnlyWhenRevoked, Running, Serving, Place, Reason
<1>. QED  BY <1>1, <1>2, <1>3, <1>4

\* The inductive invariant holds in every state, whatever the order of connections,
\* revocation and restarts.
THEOREM SessionAlwaysInv == SessionSpec => []SessionInv
<1>1. SessionInv /\ [SessionNext]_sessionVars => SessionInv'
  <2>. SUFFICES ASSUME SessionInv, [SessionNext]_sessionVars PROVE SessionInv'
    OBVIOUS
  <2>1. CASE UNCHANGED sessionVars
    BY <2>1 DEF sessionVars, hub, SessionInv, SessionTypeOK, ShownIsThere, OneSession,
                RevokedIsEnding, ToldOnlyWhenRevoked, Running, Serving
  <2>2. ASSUME NEW s \in Streams, StreamStep(s) PROVE SessionInv'
    BY <2>2, HandlerStep, RegisterStep, CleanupStep DEF StreamStep
  <2>3. CASE Revoke \/ DropLooks \/ DropCancels \/ Restart
    BY <2>3, RevocationStep
  <2>. QED  BY <2>1, <2>2, <2>3 DEF SessionNext
<1>. QED  BY <1>1, SessionStarts, PTL DEF SessionSpec

\* What is shown is what is there.
THEOREM ShownIsAlwaysThere == SessionSpec => []ShownIsThere
<1>1. SessionInv => ShownIsThere
  BY DEF SessionInv
<1>. QED  BY <1>1, SessionAlwaysInv, PTL

\* Every handler but the current one has its end waiting.
THEOREM AlwaysOneSession == SessionSpec => []OneSession
<1>1. SessionInv => OneSession
  BY DEF SessionInv
<1>. QED  BY <1>1, SessionAlwaysInv, PTL

\* No stream serves a revoked agent without its end being on the way.
THEOREM RevokedIsAlwaysEnding == SessionSpec => []RevokedIsEnding
<1>1. SessionInv => RevokedIsEnding
  BY DEF SessionInv
<1>. QED  BY <1>1, SessionAlwaysInv, PTL

\* Only a revoked agent is told to stop for good.
THEOREM OnlyRevokedIsTold == SessionSpec => []ToldOnlyWhenRevoked
<1>1. SessionInv => ToldOnlyWhenRevoked
  BY DEF SessionInv
<1>. QED  BY <1>1, SessionAlwaysInv, PTL
=============================================================================
