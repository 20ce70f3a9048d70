----------------------- MODULE SecureChannelsProofs -----------------------
(***************************************************************************)
(* Proofs about SecureChannels for any number of connections, channels and *)
(* sessions.  Types, counters, tokens and the pointers that requests       *)
(* follow are right whatever clients send.  The pointers back, and what    *)
(* rests on them, need clients that follow the protocol as ua_client.c     *)
(* does: others can leave a channel with a connection that is gone, or a   *)
(* session with a channel on the stack.  Freed objects are not reused in   *)
(* the model, so for such clients a theorem speaks of the time until the   *)
(* code writes through a pointer that was left behind.                     *)
(***************************************************************************)
EXTENDS SecureChannels, TLAPS, FiniteSetTheorems

-----------------------------------------------------------------------------
(* TypeOK in three parts: what CloseConnections and RespondIn change, what *)
(* SetTokens changes, and what Delete changes.                             *)
ConnTypeOK ==
    /\ connState \in [Conns -> ConnStates]
    /\ socket \in [Conns -> SocketStates]

TokenTypeOK ==
    /\ token \in [Channels -> Nat]
    /\ tokenLife \in [Channels -> -1..MaxChannelLifetime]
    /\ nextToken \in [Channels -> Nat]
    /\ nextLife \in [Channels -> -1..MaxChannelLifetime]

ObjectTypeOK ==
    /\ chanState \in [Channels -> ObjectStates]
    /\ chanConn \in [Channels -> Conns \cup {NULL}]
    /\ chanSessions \in [Channels -> SUBSET Sessions]
    /\ connChannel \in [Conns -> Channels \cup {NULL}]
    /\ channelCount \in Int
    /\ lastToken \in Nat \ {0}
    /\ sessState \in [Sessions -> ObjectStates]
    /\ sessChannel \in [Sessions -> Channels \cup {NULL, StackChannel}]
    /\ activated \in [Sessions -> BOOLEAN]
    /\ sessTimeout \in [Sessions -> 0..MaxSessionLifetime]
    /\ sessLife \in [Sessions -> -1..MaxSessionLifetime]
    /\ sessionCount \in Int

(* The three parts after a step make up TypeOK after it.                   *)
LEMMA TypePartsNext ==
    ASSUME ConnTypeOK', TokenTypeOK', ObjectTypeOK' PROVE TypeOK'
BY DEF TypeOK, ConnTypeOK, TokenTypeOK, ObjectTypeOK

-----------------------------------------------------------------------------
(* What the building blocks of the actions leave behind                    *)

(* Closing connections keeps the types of their states and sockets.        *)
LEMMA CloseConnectionsType ==
    ASSUME TypeOK, NEW cs, CloseConnections(cs)
    PROVE  ConnTypeOK'
BY DEF TypeOK, ConnTypeOK, CloseConnections, ConnStates, SocketStates

(* Answering a request keeps the types of the states and sockets.          *)
LEMMA RespondInType ==
    ASSUME TypeOK, NEW c \in Conns, NEW state \in ConnStates, RespondIn(c, state)
    PROVE  ConnTypeOK'
BY DEF TypeOK, ConnTypeOK, RespondIn, ConnStates, SocketStates

(* Answering in the connection's own state keeps the types.                *)
LEMMA RespondType ==
    ASSUME TypeOK, NEW c \in Conns, Respond(c)
    PROVE  ConnTypeOK'
BY RespondInType DEF TypeOK, Respond

(* Revolving and forgetting tokens keeps the types of the tokens.          *)
LEMMA SetTokensType ==
    ASSUME TypeOK, NEW H, NEW R, SetTokens(H, R)
    PROVE  TokenTypeOK'
BY BoundAssumption DEF TypeOK, TokenTypeOK, SetTokens

(* Deleting channels and sessions keeps every type but those of the tokens.*)
LEMMA DeleteType ==
    ASSUME TypeOK, NEW H \in SUBSET Channels, NEW S \in SUBSET Sessions, Delete(H, S)
    PROVE  ObjectTypeOK'
<1>1. Cardinality(H) \in Nat /\ Cardinality(S) \in Nat
  BY FiniteAssumption, FS_Subset, FS_CardinalityType
<1>2. channelCount' \in Int /\ sessionCount' \in Int
  BY <1>1 DEF TypeOK, Delete
<1>3. activated' \in [Sessions -> BOOLEAN]
  BY DEF TypeOK, Delete
<1>4. /\ sessTimeout' \in [Sessions -> 0..MaxSessionLifetime]
      /\ sessLife' \in [Sessions -> -1..MaxSessionLifetime]
  BY BoundAssumption DEF TypeOK, Delete
<1>5. /\ chanState' \in [Channels -> ObjectStates]
      /\ chanConn' \in [Channels -> Conns \cup {NULL}]
      /\ chanSessions' \in [Channels -> SUBSET Sessions]
      /\ connChannel' \in [Conns -> Channels \cup {NULL}]
      /\ lastToken' \in Nat \ {0}
      /\ sessState' \in [Sessions -> ObjectStates]
      /\ sessChannel' \in [Sessions -> Channels \cup {NULL, StackChannel}]
  BY DEF TypeOK, Delete, DetachSecureChannels, ObjectStates
<1> QED BY <1>2, <1>3, <1>4, <1>5 DEF ObjectTypeOK

-----------------------------------------------------------------------------
(* Type correctness                                                        *)

(* The initial state is well typed.                                        *)
LEMMA TypeInit == Init => TypeOK
BY BoundAssumption
   DEF Init, TypeOK, ConnStates, SocketStates, ObjectStates

(* One step per action; the actions of a MSG first show the types of the   *)
(* tokens and of the connection, which Request and Respond change.         *)
LEMMA TypeNext == TypeOK /\ [Next]_vars => TypeOK'
<1> SUFFICES ASSUME TypeOK, [Next]_vars PROVE TypeOK'
  OBVIOUS
<1>1. ASSUME NEW c \in Conns, Accept(c) PROVE TypeOK'
  BY <1>1 DEF TypeOK, Accept, ConnStates, chanVars, tokenVars, sessVars
<1>2. ASSUME NEW c \in Conns, PeerCloses(c) PROVE TypeOK'
  BY <1>2 DEF TypeOK, PeerCloses, SocketStates, chanVars, tokenVars, sessVars
<1>3. ASSUME NEW c \in Conns, RemoveConnection(c) PROVE TypeOK'
  BY <1>3 DEF TypeOK, RemoveConnection, DetachSecureChannels, ConnStates, SocketStates,
              tokenVars, sessVars
<1>4. ASSUME NEW c \in Conns, Hello(c) PROVE TypeOK'
  <2>1. "ESTABLISHED" \in ConnStates
    BY DEF ConnStates
  <2> QED
    BY <1>4, <2>1, RespondInType DEF TypeOK, ConnTypeOK, Hello, chanVars, tokenVars, sessVars
<1>5. ASSUME NEW c \in Conns, Reject(c) PROVE TypeOK'
  BY <1>5, CloseConnectionsType DEF TypeOK, ConnTypeOK, Reject, chanVars, tokenVars, sessVars
<1>6. ASSUME NEW c \in Conns, NEW h \in Channels, OpenChannel(c, h) PROVE TypeOK'
  <2>1. ConnTypeOK'
    BY <1>6, RespondType DEF OpenChannel
  <2>2. tokenLife' \in [Channels -> -1..MaxChannelLifetime]
    BY <1>6, BoundAssumption DEF TypeOK, OpenChannel, RevisedLifetimes
  <2>3. /\ chanState' \in [Channels -> ObjectStates]
        /\ chanConn' \in [Channels -> Conns \cup {NULL}]
        /\ connChannel' \in [Conns -> Channels \cup {NULL}]
    BY <1>6 DEF TypeOK, OpenChannel, ObjectStates
  <2>4. /\ token' \in [Channels -> Nat]
        /\ channelCount' \in Int
        /\ lastToken' \in Nat \ {0}
    BY <1>6 DEF TypeOK, OpenChannel
  <2>5. UNCHANGED <<chanSessions, nextToken, nextLife, sessVars>>
    BY <1>6 DEF OpenChannel
  <2> QED BY <2>1, <2>2, <2>3, <2>4, <2>5 DEF TypeOK, ConnTypeOK, sessVars
<1>7. ASSUME NEW c \in Conns, OpenRefused(c) PROVE TypeOK'
  <2>1. ConnTypeOK'
    BY <1>7, RespondType, CloseConnectionsType DEF OpenRefused
  <2> QED BY <1>7, <2>1 DEF TypeOK, ConnTypeOK, OpenRefused, chanVars, tokenVars, sessVars
<1>8. ASSUME NEW c \in Conns, RenewChannel(c) PROVE TypeOK'
  <2>1. ConnTypeOK'
    BY <1>8, RespondType DEF RenewChannel
  <2>2. nextLife' \in [Channels -> -1..MaxChannelLifetime]
    BY <1>8, BoundAssumption DEF TypeOK, RenewChannel, RevisedLifetimes
  <2>3. lastToken' \in Nat \ {0} /\ nextToken' \in [Channels -> Nat]
    BY <1>8 DEF TypeOK, RenewChannel, RenewedToken
  <2> QED BY <1>8, <2>1, <2>2, <2>3 DEF TypeOK, ConnTypeOK, RenewChannel, sessVars
<1>9. ASSUME NEW c \in Conns, NEW t \in Tokens, WrongToken(c, t) PROVE TypeOK'
  <2>1. connChannel[c] \in Channels
    BY <1>9 DEF TypeOK, WrongToken
  <2>2. ConnTypeOK'
    BY <1>9, CloseConnectionsType DEF WrongToken
  <2>3. Delete({connChannel[c]}, {}) /\ SetTokens({connChannel[c]}, {})
    BY <1>9 DEF WrongToken
  <2>4. TokenTypeOK'
    BY <2>3, SetTokensType
  <2>5. ObjectTypeOK'
    BY <2>1, <2>3, DeleteType
  <2> QED BY <2>2, <2>4, <2>5, TypePartsNext
<1>10. ASSUME NEW c \in Conns, NEW t \in Tokens, AnswerOnly(c, t) PROVE TypeOK'
  BY <1>10, RespondType, SetTokensType DEF TypeOK, ConnTypeOK, TokenTypeOK, AnswerOnly, Request, sessVars
<1>11. ASSUME NEW c \in Conns, NEW t \in Tokens, NEW s \in Sessions, CreateSession(c, t, s)
       PROVE  TypeOK'
  <2>1. ConnTypeOK'
    BY <1>11, RespondType DEF CreateSession
  <2>2. TokenTypeOK'
    BY <1>11, SetTokensType DEF CreateSession, Request
  <2>3. /\ sessTimeout' \in [Sessions -> 0..MaxSessionLifetime]
        /\ sessLife' \in [Sessions -> -1..MaxSessionLifetime]
    BY <1>11, BoundAssumption DEF TypeOK, CreateSession
  <2> QED BY <1>11, <2>1, <2>2, <2>3 DEF TypeOK, ConnTypeOK, TokenTypeOK, CreateSession, ObjectStates
<1>12. ASSUME NEW c \in Conns, NEW t \in Tokens, NEW s \in Sessions, ActivateSession(c, t, s)
       PROVE  TypeOK'
  <2>1. ConnTypeOK'
    BY <1>12, RespondType DEF ActivateSession
  <2>2. TokenTypeOK'
    BY <1>12, SetTokensType DEF ActivateSession, Request
  <2>3. /\ chanSessions' \in [Channels -> SUBSET Sessions]
        /\ sessChannel' \in [Sessions -> Channels \cup {NULL, StackChannel}]
    BY <1>12 DEF TypeOK, ActivateSession, MoveSession, RequestChannel
  <2>4. sessLife' \in [Sessions -> -1..MaxSessionLifetime]
    BY <1>12, BoundAssumption DEF TypeOK, ActivateSession
  <2> QED BY <1>12, <2>1, <2>2, <2>3, <2>4 DEF TypeOK, ConnTypeOK, TokenTypeOK, ActivateSession, Activated
<1>13. ASSUME NEW c \in Conns, NEW t \in Tokens, NEW s \in Sessions, UseSession(c, t, s)
       PROVE  TypeOK'
  <2>1. sessLife' \in [Sessions -> -1..MaxSessionLifetime]
    BY <1>13, BoundAssumption DEF TypeOK, UseSession
  <2> QED
    BY <1>13, <2>1, RespondType, SetTokensType
    DEF TypeOK, ConnTypeOK, TokenTypeOK, UseSession, Request
<1>14. ASSUME NEW c \in Conns, NEW t \in Tokens, NEW s \in Sessions, CloseSession(c, t, s)
       PROVE  TypeOK'
  <2>1. ConnTypeOK' /\ TokenTypeOK'
    BY <1>14, RespondType, SetTokensType DEF CloseSession, Request
  <2>2. ObjectTypeOK'
    BY <1>14, DeleteType DEF CloseSession
  <2> QED BY <2>1, <2>2, TypePartsNext
<1>15. ASSUME NEW c \in Conns, CloseChannel(c) PROVE TypeOK'
  <2>1. connChannel[c] \in Channels
    BY <1>15 DEF TypeOK, CloseChannel
  <2>2. ConnTypeOK'
    BY <1>15, CloseConnectionsType DEF CloseChannel
  <2>3. Delete({connChannel[c]}, {}) /\ SetTokens({connChannel[c]}, {})
    BY <1>15 DEF CloseChannel
  <2>4. TokenTypeOK'
    BY <2>3, SetTokensType
  <2>5. ObjectTypeOK'
    BY <2>1, <2>3, DeleteType
  <2> QED BY <2>2, <2>4, <2>5, TypePartsNext
<1>16. CASE Cleanup
  <2>1. OldChannels \in SUBSET Channels /\ TimedOutSessions \in SUBSET Sessions
    BY DEF OldChannels, TimedOutSessions, LiveChannels, LiveSessions
  <2>2. ConnTypeOK' /\ TokenTypeOK'
    BY <1>16, CloseConnectionsType, SetTokensType DEF Cleanup
  <2>3. ObjectTypeOK'
    BY <1>16, <2>1, DeleteType DEF Cleanup
  <2> QED BY <2>2, <2>3, TypePartsNext
<1>17. CASE Tick
  BY <1>17, BoundAssumption DEF TypeOK, Tick, Older, connVars
<1>18. CASE UNCHANGED vars
  BY <1>18 DEF TypeOK, vars, connVars, chanVars, tokenVars, sessVars
<1> QED
  BY <1>1, <1>2, <1>3, <1>4, <1>5, <1>6, <1>7, <1>8, <1>9, <1>10, <1>11, <1>12, <1>13,
     <1>14, <1>15, <1>16, <1>17, <1>18 DEF Next, ProcessMessage, ProcessRequest

(* Every variable keeps its type, for all sizes and all clients.           *)
THEOREM TypeCorrect == Spec => []TypeOK
BY TypeInit, TypeNext, PTL DEF Spec

-----------------------------------------------------------------------------
(* The four pointers                                                       *)

(* Two of the four directions hold whatever a client sends: a list and the *)
(* channel of a connection are followed by every request.  Neither is      *)
(* inductive without what it says of the other object: deleting a channel  *)
(* clears the channel of the connection it names, and no other connection  *)
(* has that channel only because each channel names one.                   *)
OwnLinks ==
    /\ ListedSessionsPointBack
    /\ ConnectionHasItsChannel

(* The directions that a second ISSUE and an activation without a channel  *)
(* would break.                                                            *)
BackLinks ==
    /\ AttachedSessionsAreListed
    /\ ChannelHasItsConnection

Links == OwnLinks /\ BackLinks

LinkVars == <<connChannel, chanState, chanConn, chanSessions, sessState, sessChannel>>

(* Closing connections removes none of them from the mapping.              *)
LEMMA CloseConnectionsMapped ==
    ASSUME TypeOK, NEW cs, CloseConnections(cs) PROVE Mapped' = Mapped
BY DEF TypeOK, CloseConnections, Mapped, MappedStates

(* Neither does answering one of them.                                     *)
LEMMA RespondMapped ==
    ASSUME TypeOK, NEW c \in Mapped, Respond(c) PROVE Mapped' = Mapped
BY DEF TypeOK, Respond, RespondIn, Mapped, MappedStates

(* What the steps do to the pointers: the first case covers every answer   *)
(* and closing, the second every deletion.                                 *)
KeepsLinks == Mapped' = Mapped /\ UNCHANGED LinkVars
DeletesSome ==
    \E H \in SUBSET Channels, S \in SUBSET Sessions : Delete(H, S) /\ Mapped' = Mapped
LinkStep(c) ==
    \/ Accept(c)
    \/ RemoveConnection(c)
    \/ \E h \in Channels : OpenChannel(c, h)
    \/ \E t \in Tokens, s \in Sessions : CreateSession(c, t, s) \/ ActivateSession(c, t, s)

(* Only five handlers change the pointers in a way of their own.           *)
LEMMA StepOfLinks ==
    ASSUME TypeOK, [Next]_vars
    PROVE  KeepsLinks \/ DeletesSome \/ \E c \in Conns : LinkStep(c)
<1>1. ASSUME NEW c \in Conns, PeerCloses(c) PROVE KeepsLinks
  BY <1>1 DEF PeerCloses, KeepsLinks, LinkVars, Mapped, chanVars, sessVars
<1>2. ASSUME NEW c \in Conns, Hello(c) PROVE KeepsLinks
  <2>1. Mapped' = Mapped
    BY <1>2 DEF TypeOK, Hello, Receives, RespondIn, Mapped, MappedStates
  <2> QED BY <1>2, <2>1 DEF Hello, KeepsLinks, LinkVars, chanVars, sessVars
<1>3. ASSUME NEW c \in Conns, Reject(c) PROVE KeepsLinks
  BY <1>3, CloseConnectionsMapped DEF Reject, KeepsLinks, LinkVars, chanVars, sessVars
<1>4. ASSUME NEW c \in Conns, OpenRefused(c) PROVE KeepsLinks
  <2>1. Mapped' = Mapped
    BY <1>4, RespondMapped, CloseConnectionsMapped DEF OpenRefused, Receives
  <2> QED BY <1>4, <2>1 DEF OpenRefused, KeepsLinks, LinkVars, chanVars, sessVars
<1>5. ASSUME NEW c \in Conns, RenewChannel(c) PROVE KeepsLinks
  <2>1. Mapped' = Mapped
    BY <1>5, RespondMapped DEF RenewChannel, Receives
  <2> QED BY <1>5, <2>1 DEF RenewChannel, KeepsLinks, LinkVars, sessVars
<1>6. ASSUME NEW c \in Conns, NEW t \in Tokens, AnswerOnly(c, t) PROVE KeepsLinks
  <2>1. Mapped' = Mapped
    BY <1>6, RespondMapped DEF AnswerOnly, Request, Receives
  <2> QED BY <1>6, <2>1 DEF AnswerOnly, KeepsLinks, LinkVars, sessVars
<1>7. ASSUME NEW c \in Conns, NEW t \in Tokens, NEW s \in Sessions, UseSession(c, t, s)
      PROVE  KeepsLinks
  <2>1. Mapped' = Mapped
    BY <1>7, RespondMapped DEF UseSession, Request, Receives
  <2> QED BY <1>7, <2>1 DEF UseSession, KeepsLinks, LinkVars
<1>8. ASSUME NEW c \in Conns, CloseChannel(c) \/ \E t \in Tokens : WrongToken(c, t)
      PROVE  DeletesSome
  <2>1. connChannel[c] # NULL /\ Delete({connChannel[c]}, {})
    BY <1>8 DEF CloseChannel, WrongToken
  <2>2. {connChannel[c]} \in SUBSET Channels
    BY <2>1 DEF TypeOK
  <2>3. Mapped' = Mapped
    BY <1>8, CloseConnectionsMapped DEF CloseChannel, WrongToken
  <2> QED BY <2>1, <2>2, <2>3 DEF DeletesSome
<1>9. ASSUME NEW c \in Conns, NEW t \in Tokens, NEW s \in Sessions, CloseSession(c, t, s)
      PROVE  DeletesSome
  <2>1. Mapped' = Mapped
    BY <1>9, RespondMapped DEF CloseSession, Request, Receives
  <2>2. Delete({}, {s}) /\ {s} \in SUBSET Sessions
    BY <1>9 DEF CloseSession
  <2> QED BY <2>1, <2>2 DEF DeletesSome
<1>10. CASE Cleanup
  <2>1. OldChannels \in SUBSET Channels /\ TimedOutSessions \in SUBSET Sessions
    BY DEF OldChannels, TimedOutSessions, LiveChannels, LiveSessions
  <2>2. Mapped' = Mapped
    BY <1>10, CloseConnectionsMapped DEF Cleanup
  <2> QED BY <1>10, <2>1, <2>2 DEF Cleanup, DeletesSome
<1>11. CASE Tick \/ UNCHANGED vars
  BY <1>11 DEF Tick, KeepsLinks, LinkVars, Mapped, vars, connVars, chanVars, sessVars
<1> QED
  BY <1>1, <1>2, <1>3, <1>4, <1>5, <1>6, <1>7, <1>8, <1>9, <1>10, <1>11
     DEF Next, ProcessMessage, ProcessRequest, LinkStep

-----------------------------------------------------------------------------
(* What a connection and a list name exists, whatever clients send         *)

(* Deleting any channels and sessions keeps both directions.               *)
LEMMA DeleteOwnLinks ==
    ASSUME TypeOK, OwnLinks, NEW H \in SUBSET Channels, NEW S \in SUBSET Sessions,
           Delete(H, S), Mapped' = Mapped
    PROVE  OwnLinks'
<1> DEFINE cs == ConnectionsOf(H)
<1>1. ListedSessionsPointBack'
  <2> SUFFICES ASSUME NEW h \in Channels, NEW s \in chanSessions'[h]
               PROVE  h \in LiveChannels' /\ s \in LiveSessions' /\ sessChannel'[s] = h
    BY DEF ListedSessionsPointBack
  <2>1. h \notin H /\ s \in chanSessions[h] /\ s \notin S
    BY DEF TypeOK, Delete
  <2>2. h \in LiveChannels /\ s \in LiveSessions /\ sessChannel[s] = h
    BY <2>1 DEF OwnLinks, ListedSessionsPointBack
  <2>3. s \notin SessionsOf(H)
    BY <2>1, <2>2 DEF SessionsOf, OwnLinks, ListedSessionsPointBack
  <2> QED BY <2>1, <2>2, <2>3 DEF TypeOK, Delete, LiveChannels, LiveSessions
<1>2. ConnectionHasItsChannel'
  <2> SUFFICES ASSUME NEW c \in Conns, connChannel'[c] # NULL
               PROVE  /\ c \in Mapped'
                      /\ connChannel'[c] \in LiveChannels'
                      /\ chanConn'[connChannel'[c]] = c
    BY DEF ConnectionHasItsChannel
  <2>1. c \notin cs /\ connChannel'[c] = connChannel[c]
    BY DEF TypeOK, Delete
  <2>2. /\ c \in Mapped
        /\ connChannel[c] \in LiveChannels
        /\ chanConn[connChannel[c]] = c
    BY <2>1 DEF OwnLinks, ConnectionHasItsChannel
  <2>3. c # NULL
    BY NullAssumption
  <2>4. connChannel[c] \notin H
    BY <2>1, <2>2, <2>3 DEF ConnectionsOf
  <2>5. \A d \in cs : connChannel[d] # connChannel[c]
    <3> SUFFICES ASSUME NEW d \in cs, connChannel[d] = connChannel[c] PROVE FALSE
      OBVIOUS
    <3>1. d \in Conns
      BY DEF TypeOK, ConnectionsOf
    <3>2. chanConn[connChannel[d]] = d
      BY <3>1, <2>1 DEF OwnLinks, ConnectionHasItsChannel
    <3> QED BY <3>2, <2>1, <2>2
  <2>6. connChannel[c] \in Channels
    BY <2>2 DEF LiveChannels
  <2>7. chanConn'[connChannel[c]] = c
    BY <2>2, <2>4, <2>5, <2>6 DEF Delete, DetachSecureChannels
  <2> QED BY <2>1, <2>2, <2>4, <2>6, <2>7 DEF Delete, LiveChannels
<1> QED BY <1>1, <1>2 DEF OwnLinks

(* A second ISSUE replaces the channel of the connection by a new one, and *)
(* a session that moves leaves the list it is in.                          *)
LEMMA OwnLinksNext == TypeOK /\ OwnLinks /\ [Next]_vars => OwnLinks'
<1> SUFFICES ASSUME TypeOK, OwnLinks, [Next]_vars PROVE OwnLinks'
  OBVIOUS
<1>1. CASE KeepsLinks
  BY <1>1 DEF KeepsLinks, OwnLinks, LinkVars, ListedSessionsPointBack,
              ConnectionHasItsChannel, LiveChannels, LiveSessions
<1>2. CASE DeletesSome
  BY <1>2, DeleteOwnLinks DEF DeletesSome
<1>3. ASSUME NEW c \in Conns, Accept(c) PROVE OwnLinks'
  BY <1>3 DEF OwnLinks, ListedSessionsPointBack, LiveSessions, ConnectionHasItsChannel,
              LiveChannels, TypeOK, Accept, Mapped, MappedStates, chanVars, sessVars
<1>4. ASSUME NEW c \in Conns, RemoveConnection(c) PROVE OwnLinks'
  <2>1. ListedSessionsPointBack'
    BY <1>4 DEF OwnLinks, RemoveConnection, ListedSessionsPointBack,
                LiveChannels, LiveSessions, sessVars
  <2>2. ConnectionHasItsChannel'
    <3> SUFFICES ASSUME NEW d \in Conns, connChannel'[d] # NULL
                 PROVE  /\ d \in Mapped'
                        /\ connChannel'[d] \in LiveChannels'
                        /\ chanConn'[connChannel'[d]] = d
      BY DEF ConnectionHasItsChannel
    <3>1. d # c /\ connChannel'[d] = connChannel[d]
      BY <1>4 DEF TypeOK, RemoveConnection
    <3>2. /\ d \in Mapped
          /\ connChannel[d] \in LiveChannels
          /\ chanConn[connChannel[d]] = d
      BY <3>1 DEF OwnLinks, ConnectionHasItsChannel
    <3>3. connChannel[c] # connChannel[d]
      BY <3>1, <3>2 DEF OwnLinks, ConnectionHasItsChannel
    <3> QED
      BY <1>4, <3>1, <3>2, <3>3
         DEF TypeOK, RemoveConnection, DetachSecureChannels, LiveChannels, Mapped
  <2> QED BY <2>1, <2>2 DEF OwnLinks
<1>5. ASSUME NEW c \in Conns, NEW h \in Channels, OpenChannel(c, h) PROVE OwnLinks'
  <2>1. Mapped' = Mapped /\ c \in Mapped
    BY <1>5, RespondMapped DEF OpenChannel, Receives
  <2>2. h \notin LiveChannels
    BY <1>5 DEF OpenChannel, LiveChannels
  <2>3. ListedSessionsPointBack'
    BY <1>5, <2>2 DEF OwnLinks, OpenChannel, ListedSessionsPointBack,
                      LiveChannels, LiveSessions, TypeOK, sessVars
  <2>4. ConnectionHasItsChannel'
    BY <1>5, <2>1, <2>2 DEF OwnLinks, OpenChannel, ConnectionHasItsChannel, LiveChannels, TypeOK
  <2> QED BY <2>3, <2>4 DEF OwnLinks
<1>6. ASSUME NEW c \in Conns, NEW t \in Tokens, NEW s \in Sessions, CreateSession(c, t, s)
      PROVE  OwnLinks'
  <2>1. Mapped' = Mapped
    BY <1>6, RespondMapped DEF CreateSession, Request, Receives
  <2>2. ConnectionHasItsChannel'
    BY <1>6, <2>1 DEF OwnLinks, CreateSession, ConnectionHasItsChannel, LiveChannels
  <2>3. ListedSessionsPointBack'
    BY <1>6 DEF OwnLinks, CreateSession, ListedSessionsPointBack,
                LiveChannels, LiveSessions, TypeOK
  <2> QED BY <2>2, <2>3 DEF OwnLinks
<1>7. ASSUME NEW c \in Conns, NEW t \in Tokens, NEW s \in Sessions, ActivateSession(c, t, s)
      PROVE  OwnLinks'
  <2> DEFINE to == RequestChannel(c)
  <2>1. Mapped' = Mapped
    BY <1>7, RespondMapped DEF ActivateSession, Request, Receives
  <2>2. ConnectionHasItsChannel'
    BY <1>7, <2>1 DEF OwnLinks, ActivateSession, ConnectionHasItsChannel, LiveChannels
  <2>3. to \in Channels => to \in LiveChannels
    BY NullAssumption DEF OwnLinks, ConnectionHasItsChannel, RequestChannel
  <2>4. s \in LiveSessions
    BY <1>7 DEF ActivateSession, FoundSession
  <2>5. /\ sessChannel' = [sessChannel EXCEPT ![s] = to]
        /\ chanSessions' = MoveSession(s, sessChannel[s], to)
        /\ UNCHANGED <<chanState, sessState>>
    BY <1>7 DEF ActivateSession
  <2>6. ListedSessionsPointBack'
    <3> HIDE DEF to
    <3> QED
      BY <2>3, <2>4, <2>5 DEF OwnLinks, ListedSessionsPointBack,
           MoveSession, LiveChannels, LiveSessions, TypeOK
  <2> QED BY <2>2, <2>6 DEF OwnLinks
<1> QED
  BY <1>1, <1>2, <1>3, <1>4, <1>5, <1>6, <1>7, StepOfLinks DEF LinkStep

(* For every client both directions hold in every reachable state.         *)
LEMMA OwnLinksCorrect == Spec => []OwnLinks
<1>1. Init => OwnLinks
  BY DEF Init, OwnLinks, ListedSessionsPointBack, ConnectionHasItsChannel
<1> QED BY <1>1, OwnLinksNext, TypeCorrect, PTL DEF Spec

(* invoke_service and Service_CloseSession work only on sessions that are  *)
(* still in the session manager's list, whatever clients send.             *)
THEOREM SessionLinksCorrect == Spec => []ListedSessionsPointBack
<1>1. OwnLinks => ListedSessionsPointBack
  BY DEF OwnLinks
<1> QED BY <1>1, OwnLinksCorrect, PTL

(* And a request works only on a channel that is in the channel manager's  *)
(* list and belongs to the connection of the request.                      *)
THEOREM ConnectionLinksCorrect == Spec => []ConnectionHasItsChannel
<1>1. OwnLinks => ConnectionHasItsChannel
  BY DEF OwnLinks
<1> QED BY <1>1, OwnLinksCorrect, PTL

-----------------------------------------------------------------------------
(* What a channel and a session name exists, for conforming clients        *)

(* Deleting any channels and sessions keeps these directions too.          *)
LEMMA DeleteBackLinks ==
    ASSUME TypeOK, Links, NEW H \in SUBSET Channels, NEW S \in SUBSET Sessions,
           Delete(H, S), Mapped' = Mapped
    PROVE  BackLinks'
<1> DEFINE cs == ConnectionsOf(H)
<1>1. AttachedSessionsAreListed'
  <2> SUFFICES ASSUME NEW s \in Sessions, sessChannel'[s] # NULL
               PROVE  sessChannel'[s] \in LiveChannels' /\ s \in chanSessions'[sessChannel'[s]]
    BY DEF AttachedSessionsAreListed
  <2>1. s \notin S /\ s \notin SessionsOf(H) /\ sessChannel'[s] = sessChannel[s]
    BY DEF TypeOK, Delete
  <2>2. sessChannel[s] \in LiveChannels /\ s \in chanSessions[sessChannel[s]]
    BY <2>1 DEF Links, BackLinks, AttachedSessionsAreListed
  <2>3. sessChannel[s] \notin H
    BY <2>1, <2>2 DEF SessionsOf
  <2> QED BY <2>1, <2>2, <2>3 DEF TypeOK, Delete, LiveChannels
<1>2. ChannelHasItsConnection'
  <2> SUFFICES ASSUME NEW h \in Channels, chanConn'[h] # NULL
               PROVE  /\ h \in LiveChannels'
                      /\ chanConn'[h] \in Mapped'
                      /\ connChannel'[chanConn'[h]] = h
    BY DEF ChannelHasItsConnection
  <2>1. /\ h \notin H
        /\ chanConn'[h] = chanConn[h]
        /\ \A d \in cs : connChannel[d] # h
    BY DEF Delete, DetachSecureChannels
  <2>2. h \in LiveChannels /\ chanConn[h] \in Mapped /\ connChannel[chanConn[h]] = h
    BY <2>1 DEF Links, BackLinks, ChannelHasItsConnection
  <2>3. chanConn[h] \notin cs
    BY <2>1, <2>2
  <2> QED BY <2>1, <2>2, <2>3 DEF Delete, LiveChannels, Mapped
<1> QED BY <1>1, <1>2 DEF BackLinks

(* Conforming is needed in two places: a second ISSUE would overwrite      *)
(* connection->channel, and an activation without a channel would store a  *)
(* pointer to a stack variable.                                            *)
LEMMA BackLinksNext == Conforming /\ TypeOK /\ Links /\ [Next]_vars => BackLinks'
<1> SUFFICES ASSUME Conforming, TypeOK, Links, [Next]_vars PROVE BackLinks'
  OBVIOUS
<1>1. CASE KeepsLinks
  BY <1>1 DEF KeepsLinks, Links, BackLinks, LinkVars, AttachedSessionsAreListed,
              ChannelHasItsConnection, LiveChannels
<1>2. CASE DeletesSome
  BY <1>2, DeleteBackLinks DEF DeletesSome
<1>3. ASSUME NEW c \in Conns, Accept(c) PROVE BackLinks'
  BY <1>3 DEF Links, BackLinks, AttachedSessionsAreListed, ChannelHasItsConnection,
              LiveChannels, TypeOK, Accept, Mapped, MappedStates, chanVars, sessVars
<1>4. ASSUME NEW c \in Conns, RemoveConnection(c) PROVE BackLinks'
  <2>1. AttachedSessionsAreListed'
    BY <1>4 DEF Links, BackLinks, RemoveConnection, AttachedSessionsAreListed,
                LiveChannels, sessVars
  <2>2. ChannelHasItsConnection'
    <3> SUFFICES ASSUME NEW h \in Channels, chanConn'[h] # NULL
                 PROVE  /\ h \in LiveChannels'
                        /\ chanConn'[h] \in Mapped'
                        /\ connChannel'[chanConn'[h]] = h
      BY DEF ChannelHasItsConnection
    <3>1. connChannel[c] # h /\ chanConn'[h] = chanConn[h]
      BY <1>4 DEF RemoveConnection, DetachSecureChannels
    <3>2. h \in LiveChannels /\ chanConn[h] \in Mapped /\ connChannel[chanConn[h]] = h
      BY <3>1 DEF Links, BackLinks, ChannelHasItsConnection
    <3>3. chanConn[h] # c
      BY <3>1, <3>2
    <3> QED
      BY <1>4, <3>1, <3>2, <3>3 DEF TypeOK, RemoveConnection, LiveChannels, Mapped
  <2> QED BY <2>1, <2>2 DEF BackLinks
<1>5. ASSUME NEW c \in Conns, NEW h \in Channels, OpenChannel(c, h) PROVE BackLinks'
  <2>1. Mapped' = Mapped /\ c \in Mapped
    BY <1>5, RespondMapped DEF OpenChannel, Receives
  <2>2. connChannel[c] = NULL /\ h \notin LiveChannels
    BY <1>5 DEF OpenChannel, LiveChannels
  <2>3. AttachedSessionsAreListed'
    BY <1>5, <2>2 DEF Links, BackLinks, OpenChannel, AttachedSessionsAreListed,
                      LiveChannels, TypeOK, sessVars
  <2>4. ChannelHasItsConnection'
    BY <1>5, <2>1, <2>2, NullAssumption
       DEF Links, BackLinks, OpenChannel, ChannelHasItsConnection, LiveChannels, TypeOK
  <2> QED BY <2>3, <2>4 DEF BackLinks
<1>6. ASSUME NEW c \in Conns, NEW t \in Tokens, NEW s \in Sessions, CreateSession(c, t, s)
      PROVE  BackLinks'
  <2>1. Mapped' = Mapped
    BY <1>6, RespondMapped DEF CreateSession, Request, Receives
  <2> QED
    BY <1>6, <2>1 DEF Links, BackLinks, CreateSession, AttachedSessionsAreListed,
                      ChannelHasItsConnection, LiveChannels
<1>7. ASSUME NEW c \in Conns, NEW t \in Tokens, NEW s \in Sessions, ActivateSession(c, t, s)
      PROVE  BackLinks'
  <2> DEFINE to == connChannel[c]
  <2>1. Mapped' = Mapped
    BY <1>7, RespondMapped DEF ActivateSession, Request, Receives
  <2>2. ChannelHasItsConnection'
    BY <1>7, <2>1 DEF Links, BackLinks, ActivateSession, ChannelHasItsConnection, LiveChannels
  <2>3. to \in LiveChannels /\ RequestChannel(c) = to
    BY <1>7 DEF Links, OwnLinks, ActivateSession, ConnectionHasItsChannel, RequestChannel
  <2>4. /\ sessChannel' = [sessChannel EXCEPT ![s] = to]
        /\ chanSessions' = MoveSession(s, sessChannel[s], to)
        /\ UNCHANGED chanState
    BY <1>7, <2>3 DEF ActivateSession
  <2>5. AttachedSessionsAreListed'
    BY <2>3, <2>4 DEF Links, BackLinks, AttachedSessionsAreListed,
         MoveSession, LiveChannels, TypeOK
  <2> QED BY <2>2, <2>5 DEF BackLinks
<1> QED
  BY <1>1, <1>2, <1>3, <1>4, <1>5, <1>6, <1>7, StepOfLinks DEF LinkStep

(* For clients that follow the protocol the pointers are consistent in     *)
(* every reachable state: a channel's connection and a session's channel   *)
(* exist and point back, for any number of them.                           *)
THEOREM LinksCorrect == Conforming => (Spec => []Links)
<1> SUFFICES ASSUME Conforming PROVE Spec => []Links
  OBVIOUS
<1>1. Init => Links
  BY DEF Init, Links, OwnLinks, BackLinks, ListedSessionsPointBack, AttachedSessionsAreListed,
         ConnectionHasItsChannel, ChannelHasItsConnection
<1>2. TypeOK /\ Links /\ [Next]_vars => Links'
  BY OwnLinksNext, BackLinksNext DEF Links
<1> QED BY <1>1, <1>2, TypeCorrect, PTL DEF Spec

-----------------------------------------------------------------------------
(* Counters, tokens, activation and sockets                                *)

(* In what follows a step does one of a few things to the lists.           *)
Opens(h) ==
    /\ channelCount < MaxChannelCount /\ h \in Channels /\ chanState[h] = "unused"
    /\ channelCount' = channelCount + 1
    /\ chanState' = [chanState EXCEPT ![h] = "live"]
    /\ UNCHANGED <<sessState, sessionCount>>
Creates(s) ==
    /\ sessionCount < MaxSessionCount /\ s \in Sessions /\ sessState[s] = "unused"
    /\ sessionCount' = sessionCount + 1
    /\ sessState' = [sessState EXCEPT ![s] = "live"]
    /\ UNCHANGED <<chanState, channelCount>>
Deletes(H, S) ==
    /\ H \subseteq LiveChannels /\ S \subseteq LiveSessions
    /\ Delete(H, S)
SameLists == UNCHANGED <<chanState, channelCount, sessState, sessionCount>>

(* The channel that a connection names and the session that a channel      *)
(* lists are in the managers' lists, which is why deleting them counts.    *)
LEMMA StepOfLists ==
    ASSUME OwnLinks, [Next]_vars
    PROVE  \/ SameLists
           \/ \E h \in Channels : Opens(h)
           \/ \E s \in Sessions : Creates(s)
           \/ \E H \in SUBSET Channels, S \in SUBSET Sessions : Deletes(H, S)
<1> DEFINE Goal == \/ SameLists
                   \/ \E h \in Channels : Opens(h)
                   \/ \E s \in Sessions : Creates(s)
                   \/ \E H \in SUBSET Channels, S \in SUBSET Sessions : Deletes(H, S)
<1>1. ASSUME NEW c \in Conns, Accept(c) \/ PeerCloses(c) \/ RemoveConnection(c) PROVE SameLists
  BY <1>1 DEF Accept, PeerCloses, RemoveConnection, SameLists, chanVars, sessVars
<1>2. ASSUME NEW c \in Conns, Hello(c) \/ Reject(c) \/ OpenRefused(c) \/ RenewChannel(c) PROVE SameLists
  BY <1>2 DEF Hello, Reject, OpenRefused, RenewChannel, SameLists, chanVars, sessVars
<1>3. ASSUME NEW c \in Conns, NEW h \in Channels, OpenChannel(c, h) PROVE Opens(h)
  BY <1>3 DEF OpenChannel, ChannelPlace, Opens, sessVars
<1>4. ASSUME NEW c \in Conns, CloseChannel(c) \/ \E t \in Tokens : WrongToken(c, t)
      PROVE  Deletes({connChannel[c]}, {}) /\ connChannel[c] \in Channels
  <2>1. connChannel[c] # NULL /\ Delete({connChannel[c]}, {})
    BY <1>4 DEF WrongToken, CloseChannel
  <2>2. connChannel[c] \in LiveChannels
    BY <2>1 DEF OwnLinks, ConnectionHasItsChannel
  <2> QED
    BY <2>1, <2>2 DEF Deletes, LiveChannels
<1>5. ASSUME NEW c \in Conns, NEW t \in Tokens, AnswerOnly(c, t) PROVE SameLists
  BY <1>5 DEF AnswerOnly, SameLists, sessVars
<1>6. ASSUME NEW c \in Conns, NEW t \in Tokens, NEW s \in Sessions, CreateSession(c, t, s)
      PROVE  Creates(s)
  BY <1>6 DEF CreateSession, SessionPlace, Creates
<1>7. ASSUME NEW c \in Conns, NEW t \in Tokens, NEW s \in Sessions,
             ActivateSession(c, t, s) \/ UseSession(c, t, s)
      PROVE  SameLists
  BY <1>7 DEF ActivateSession, UseSession, SameLists
<1>8. ASSUME NEW c \in Conns, NEW t \in Tokens, NEW s \in Sessions, CloseSession(c, t, s)
      PROVE  Deletes({}, {s})
  <2>1. connChannel[c] # NULL /\ s \in chanSessions[connChannel[c]] /\ Delete({}, {s})
    BY <1>8 DEF CloseSession, Invokes
  <2>2. connChannel[c] \in Channels
    BY <2>1 DEF OwnLinks, ConnectionHasItsChannel, LiveChannels
  <2>3. s \in LiveSessions
    BY <2>1, <2>2 DEF OwnLinks, ListedSessionsPointBack
  <2> QED
    BY <2>1, <2>3 DEF Deletes
<1>9. CASE Cleanup
  BY <1>9 DEF Cleanup, OldChannels, TimedOutSessions, Deletes, LiveChannels, LiveSessions
<1>10. CASE Tick \/ UNCHANGED vars
  BY <1>10 DEF Tick, SameLists, vars, chanVars, sessVars
<1> QED
  BY <1>1, <1>2, <1>3, <1>4, <1>5, <1>6, <1>7, <1>8, <1>9, <1>10
     DEF Next, ProcessMessage, ProcessRequest

(* Removing from a set, and adding to it, changes its cardinality.         *)
LEMMA Fewer ==
    ASSUME NEW A, IsFiniteSet(A), NEW B \in SUBSET A
    PROVE  Cardinality(A \ B) = Cardinality(A) - Cardinality(B) /\ Cardinality(A \ B) <= Cardinality(A)
<1>1. IsFiniteSet(B) /\ Cardinality(B) \in Nat /\ Cardinality(A) \in Nat
  BY FS_Subset, FS_CardinalityType
<1>2. A \cap B = B
  OBVIOUS
<1>3. Cardinality(A \ B) = Cardinality(A) - Cardinality(A \cap B)
  BY FS_Difference
<1>4. Cardinality(A \ B) = Cardinality(A) - Cardinality(B)
  BY <1>2, <1>3, Zenon
<1>5. Cardinality(A) - Cardinality(B) <= Cardinality(A)
  BY <1>1
<1> QED
  BY <1>4, <1>5, Zenon

(* The counters go with the lists.                                         *)
LEMMA CountsNext ==
    ASSUME TypeOK, OwnLinks, CountsMatch, [Next]_vars PROVE CountsMatch'
<1>1. IsFiniteSet(LiveChannels) /\ IsFiniteSet(LiveSessions)
  BY FiniteAssumption, FS_Subset DEF LiveChannels, LiveSessions
<1>2. /\ channelCount = Cardinality(LiveChannels) /\ channelCount <= MaxChannelCount
      /\ sessionCount = Cardinality(LiveSessions) /\ sessionCount <= MaxSessionCount
      /\ channelCount \in Int /\ sessionCount \in Int
      /\ MaxChannelCount \in Nat /\ MaxSessionCount \in Nat
  BY BoundAssumption DEF CountsMatch, TypeOK
<1>3. CASE SameLists
  <2>1. LiveChannels' = LiveChannels /\ LiveSessions' = LiveSessions
    BY <1>3 DEF SameLists, LiveChannels, LiveSessions
  <2> QED
    BY <1>2, <1>3, <2>1 DEF SameLists, CountsMatch
<1>4. ASSUME NEW h \in Channels, Opens(h) PROVE CountsMatch'
  <2>1. h \notin LiveChannels /\ LiveChannels' = LiveChannels \cup {h} /\ LiveSessions' = LiveSessions
    BY <1>4 DEF Opens, LiveChannels, LiveSessions, TypeOK
  <2>2. Cardinality(LiveChannels \cup {h}) = Cardinality(LiveChannels) + 1
    BY <1>1, <2>1, FS_AddElement
  <2>3. channelCount' = channelCount + 1 /\ channelCount < MaxChannelCount /\ sessionCount' = sessionCount
    BY <1>4 DEF Opens
  <2>4. channelCount' <= MaxChannelCount
    BY <1>2, <2>3
  <2> QED
    BY <1>2, <2>1, <2>2, <2>3, <2>4 DEF CountsMatch
<1>5. ASSUME NEW s \in Sessions, Creates(s) PROVE CountsMatch'
  <2>1. s \notin LiveSessions /\ LiveSessions' = LiveSessions \cup {s} /\ LiveChannels' = LiveChannels
    BY <1>5 DEF Creates, LiveChannels, LiveSessions, TypeOK
  <2>2. Cardinality(LiveSessions \cup {s}) = Cardinality(LiveSessions) + 1
    BY <1>1, <2>1, FS_AddElement
  <2>3. sessionCount' = sessionCount + 1 /\ sessionCount < MaxSessionCount /\ channelCount' = channelCount
    BY <1>5 DEF Creates
  <2>4. sessionCount' <= MaxSessionCount
    BY <1>2, <2>3
  <2> QED
    BY <1>2, <2>1, <2>2, <2>3, <2>4 DEF CountsMatch
<1>6. ASSUME NEW H \in SUBSET Channels, NEW S \in SUBSET Sessions, Deletes(H, S) PROVE CountsMatch'
  <2>1. LiveChannels' = LiveChannels \ H /\ LiveSessions' = LiveSessions \ S
    BY <1>6 DEF Deletes, Delete, LiveChannels, LiveSessions, TypeOK
  <2>2. /\ Cardinality(LiveChannels \ H) = Cardinality(LiveChannels) - Cardinality(H)
        /\ Cardinality(LiveChannels \ H) <= Cardinality(LiveChannels)
    BY <1>1, <1>6, Fewer DEF Deletes
  <2>3. /\ Cardinality(LiveSessions \ S) = Cardinality(LiveSessions) - Cardinality(S)
        /\ Cardinality(LiveSessions \ S) <= Cardinality(LiveSessions)
    BY <1>1, <1>6, Fewer DEF Deletes
  <2>4. channelCount' = channelCount - Cardinality(H) /\ sessionCount' = sessionCount - Cardinality(S)
    BY <1>6 DEF Deletes, Delete
  <2>5. channelCount' = Cardinality(LiveChannels \ H) /\ sessionCount' = Cardinality(LiveSessions \ S)
    BY <1>2, <2>2, <2>3, <2>4
  <2>6. channelCount' <= channelCount /\ sessionCount' <= sessionCount
    BY <1>2, <2>2, <2>3, <2>5
  <2>7. channelCount' \in Int /\ sessionCount' \in Int
    BY <1>1, <2>1, <2>5, FS_CardinalityType, FS_Subset
  <2>8. channelCount' <= MaxChannelCount /\ sessionCount' <= MaxSessionCount
    BY <1>2, <2>6, <2>7
  <2> QED
    BY <2>1, <2>5, <2>8 DEF CountsMatch
<1> QED
  BY <1>3, <1>4, <1>5, <1>6, StepOfLists

(* Both lists start empty.                                                 *)
LEMMA CountsInit == Init => CountsMatch
<1> SUFFICES ASSUME Init PROVE CountsMatch
  OBVIOUS
<1>1. LiveChannels = {} /\ LiveSessions = {}
  BY DEF Init, LiveChannels, LiveSessions
<1> QED
  BY <1>1, FS_EmptySet, BoundAssumption DEF Init, CountsMatch

(* The counters of UA_SecureChannelManager and UA_SessionManager are the   *)
(* lengths of their lists and never pass their limits, for any numbers.    *)
THEOREM CountsCorrect == Spec => []CountsMatch
<1>1. TypeOK /\ OwnLinks /\ CountsMatch /\ [Next]_vars => CountsMatch'
  BY CountsNext
<1> QED
  BY <1>1, CountsInit, TypeCorrect, OwnLinksCorrect, PTL DEF Spec

-----------------------------------------------------------------------------
(* Sessions and sockets                                                    *)

(* A session gets its channel only by its activation.                      *)
LEMMA ActiveNext == TypeOK /\ AttachedSessionsAreActive /\ [Next]_vars => AttachedSessionsAreActive'
<1> SUFFICES ASSUME TypeOK, AttachedSessionsAreActive, [Next]_vars
             PROVE  AttachedSessionsAreActive'
  OBVIOUS
<1>1. CASE UNCHANGED <<sessChannel, activated>>
  BY <1>1 DEF AttachedSessionsAreActive
<1>2. ASSUME NEW H, NEW S, Delete(H, S) PROVE AttachedSessionsAreActive'
  BY <1>2 DEF Delete, TypeOK, AttachedSessionsAreActive
<1>3. ASSUME NEW c \in Conns, NEW t \in Tokens, NEW s \in Sessions, ActivateSession(c, t, s)
      PROVE  AttachedSessionsAreActive'
  BY <1>3 DEF ActivateSession, Activated, TypeOK, AttachedSessionsAreActive
<1>4. ASSUME NEW c \in Conns, \E t \in Tokens : ProcessRequest(c, t) PROVE AttachedSessionsAreActive'
  <2> PICK t \in Tokens : ProcessRequest(c, t)
    BY <1>4
  <2>1. CASE WrongToken(c, t) \/ AnswerOnly(c, t)
    BY <2>1, <1>1, <1>2 DEF WrongToken, AnswerOnly, sessVars
  <2>2. ASSUME NEW s \in Sessions,
               CreateSession(c, t, s) \/ UseSession(c, t, s) \/ CloseSession(c, t, s)
        PROVE  AttachedSessionsAreActive'
    BY <2>2, <1>1, <1>2 DEF CreateSession, UseSession, CloseSession
  <2> QED
    BY <2>1, <2>2, <1>3 DEF ProcessRequest
<1>5. ASSUME NEW c \in Conns,
             \/ Accept(c) \/ PeerCloses(c) \/ RemoveConnection(c)
             \/ Hello(c) \/ Reject(c) \/ OpenRefused(c) \/ RenewChannel(c)
      PROVE  AttachedSessionsAreActive'
  BY <1>5, <1>1 DEF Accept, PeerCloses, RemoveConnection, Hello, Reject, OpenRefused,
                    RenewChannel, sessVars
<1>6. ASSUME NEW c \in Conns, CloseChannel(c) \/ \E h \in Channels : OpenChannel(c, h)
      PROVE  AttachedSessionsAreActive'
  BY <1>6, <1>1, <1>2 DEF CloseChannel, OpenChannel, sessVars
<1>7. CASE Cleanup \/ Tick \/ UNCHANGED vars
  BY <1>7, <1>1, <1>2 DEF Cleanup, Tick, vars, sessVars
<1> QED
  BY <1>4, <1>5, <1>6, <1>7 DEF Next, ProcessMessage

(* EstablishedIsOpen holds because a connection is accepted with an open   *)
(* socket, and a HEL is not answered on a socket that is shut or closed.   *)
SocketsOpen ==
    /\ EstablishedIsOpen
    /\ \A c \in Conns : connState[c] = "unused" => socket[c] = "open"

(* Closing connections, and answering one of them in its own state, keep   *)
(* the sockets of the others.                                              *)
LEMMA CloseConnectionsSockets ==
    ASSUME TypeOK, SocketsOpen, NEW cs, CloseConnections(cs) PROVE SocketsOpen'
BY DEF CloseConnections, TypeOK, SocketsOpen, EstablishedIsOpen

(* Answering a request of a connection in its own state keeps them.        *)
LEMMA RespondSockets ==
    ASSUME TypeOK, SocketsOpen, NEW c \in Conns, Respond(c) PROVE SocketsOpen'
BY DEF Respond, RespondIn, TypeOK, SocketsOpen, EstablishedIsOpen

(* One step per action; a HEL is read only while select() does not fail.   *)
LEMMA SocketsNext == TypeOK /\ SocketsOpen /\ [Next]_vars => SocketsOpen'
<1> SUFFICES ASSUME TypeOK, SocketsOpen, [Next]_vars PROVE SocketsOpen'
  OBVIOUS
<1>1. ASSUME NEW c \in Conns, Accept(c) \/ PeerCloses(c) \/ RemoveConnection(c) PROVE SocketsOpen'
  BY <1>1 DEF Accept, PeerCloses, RemoveConnection, Mapped, MappedStates,
              TypeOK, SocketsOpen, EstablishedIsOpen
<1>2. ASSUME NEW c \in Conns, Hello(c) PROVE SocketsOpen'
  <2>1. socket[c] # "closed"
    BY <1>2 DEF Hello, Receives, SelectFails
  <2>2. PICK sent \in SendOutcomes(c) :
           /\ connState' = [connState EXCEPT ![c] = IF sent THEN "ESTABLISHED" ELSE "CLOSED"]
           /\ socket' = [socket EXCEPT ![c] = IF sent THEN @ ELSE "closed"]
    BY <1>2 DEF Hello, RespondIn
  <2>3. sent => socket[c] \in {"open", "eof"}
    BY <2>1, <2>2 DEF SendOutcomes, TypeOK, SocketStates
  <2> QED
    BY <2>2, <2>3 DEF TypeOK, SocketsOpen, EstablishedIsOpen
<1>3. ASSUME NEW c \in Conns,
             Reject(c) \/ OpenRefused(c) \/ RenewChannel(c) \/ CloseChannel(c)
      PROVE  SocketsOpen'
  BY <1>3, CloseConnectionsSockets, RespondSockets
     DEF Reject, OpenRefused, RenewChannel, CloseChannel
<1>4. ASSUME NEW c \in Conns, NEW h \in Channels, OpenChannel(c, h) PROVE SocketsOpen'
  BY <1>4, RespondSockets DEF OpenChannel
<1>5. ASSUME NEW c \in Conns, NEW t \in Tokens, ProcessRequest(c, t) PROVE SocketsOpen'
  BY <1>5, CloseConnectionsSockets, RespondSockets
     DEF ProcessRequest, WrongToken, AnswerOnly, CreateSession, ActivateSession,
         UseSession, CloseSession
<1>6. CASE Cleanup
  BY <1>6, CloseConnectionsSockets DEF Cleanup
<1>7. CASE Tick \/ UNCHANGED vars
  BY <1>7 DEF Tick, vars, connVars, SocketsOpen, EstablishedIsOpen
<1> QED
  BY <1>1, <1>2, <1>3, <1>4, <1>5, <1>6, <1>7 DEF Next, ProcessMessage

(* The pointers are mutual, an attached session is activated, and requests *)
(* are processed only on sockets that are not shut.                        *)
THEOREM LinksAreMutualCorrect == Conforming => (Spec => []LinksAreMutual)
<1> SUFFICES ASSUME Conforming PROVE Spec => []LinksAreMutual
  OBVIOUS
<1>1. Init => AttachedSessionsAreActive /\ SocketsOpen
  BY DEF Init, AttachedSessionsAreActive, SocketsOpen, EstablishedIsOpen
<1>2. Spec => []AttachedSessionsAreActive
  BY <1>1, ActiveNext, TypeCorrect, PTL DEF Spec
<1>3. Spec => []SocketsOpen
  BY <1>1, SocketsNext, TypeCorrect, PTL DEF Spec
<1>4. Links /\ AttachedSessionsAreActive /\ SocketsOpen => LinksAreMutual
  BY DEF Links, BackLinks, SocketsOpen, LinksAreMutual
<1> QED
  BY <1>2, <1>3, <1>4, LinksCorrect, PTL

-----------------------------------------------------------------------------
(* Tokens                                                                  *)

(* In what follows a step does one of a few things to the tokens.          *)
TokenState == <<chanState, token, nextToken, lastToken>>
Issues(h) ==
    /\ h \in Channels /\ chanState[h] = "unused"
    /\ chanState' = [chanState EXCEPT ![h] = "live"]
    /\ token' = [token EXCEPT ![h] = lastToken]
    /\ lastToken' = lastToken + 1
    /\ nextToken' = nextToken
Renews(h) ==
    /\ h \in LiveChannels /\ nextToken[h] = 0
    /\ nextToken' = [nextToken EXCEPT ![h] = lastToken]
    /\ lastToken' = lastToken + 1
    /\ UNCHANGED <<chanState, token>>
Revolves(H, R) ==
    /\ chanState' = [h \in Channels |-> IF h \in H THEN "freed" ELSE chanState[h]]
    /\ SetTokens(H, R)
    /\ UNCHANGED lastToken

(* A renewed channel is in the manager's list since a connection names it. *)
LEMMA StepOfTokens ==
    ASSUME TypeOK, OwnLinks, [Next]_vars
    PROVE  \/ UNCHANGED TokenState
           \/ \E h \in Channels : Issues(h) \/ Renews(h)
           \/ \E H \in SUBSET Channels, R \in SUBSET Channels : Revolves(H, R)
<1> DEFINE Revolving == \E H \in SUBSET Channels, R \in SUBSET Channels : Revolves(H, R)
<1>1. ASSUME NEW c \in Conns,
             \/ Accept(c) \/ PeerCloses(c) \/ RemoveConnection(c)
             \/ Hello(c) \/ Reject(c) \/ OpenRefused(c)
      PROVE  UNCHANGED TokenState
  BY <1>1 DEF Accept, PeerCloses, RemoveConnection, Hello, Reject, OpenRefused,
              TokenState, chanVars, tokenVars
<1>2. ASSUME NEW c \in Conns, NEW h \in Channels, OpenChannel(c, h) PROVE Issues(h)
  BY <1>2 DEF OpenChannel, Issues
<1>3. ASSUME NEW c \in Conns, RenewChannel(c)
      PROVE  UNCHANGED TokenState \/ (Renews(connChannel[c]) /\ connChannel[c] \in Channels)
  <2>1. connChannel[c] \in LiveChannels /\ connChannel[c] \in Channels
    BY <1>3 DEF RenewChannel, OwnLinks, ConnectionHasItsChannel, LiveChannels
  <2> QED
    BY <1>3, <2>1 DEF RenewChannel, NeedsToken, RenewedToken, Renews, TokenState
<1>4. ASSUME NEW H \in SUBSET Channels, NEW S \in SUBSET Sessions, NEW R \in SUBSET Channels,
             Delete(H, S), SetTokens(H, R)
      PROVE  Revolving
  BY <1>4 DEF Delete, Revolves
<1>5. ASSUME NEW R \in SUBSET Channels, SetTokens({}, R), UNCHANGED <<chanState, lastToken>>
      PROVE  Revolving
  <2>1. chanState' = [h \in Channels |-> IF h \in {} THEN "freed" ELSE chanState[h]]
    BY <1>5 DEF TypeOK
  <2>2. Revolves({}, R)
    BY <1>5, <2>1 DEF Revolves
  <2> QED
    BY <2>2
<1>6. ASSUME NEW c \in Conns, CloseChannel(c) \/ \E t \in Tokens : WrongToken(c, t)
      PROVE  Revolving
  <2>1. /\ connChannel[c] # NULL
        /\ Delete({connChannel[c]}, {}) /\ SetTokens({connChannel[c]}, {})
    BY <1>6 DEF CloseChannel, WrongToken
  <2>2. {connChannel[c]} \in SUBSET Channels
    BY <2>1 DEF TypeOK
  <2> QED
    BY <1>4, <2>1, <2>2
<1>7. ASSUME NEW c \in Conns, NEW t \in Tokens, Request(c, t)
      PROVE  \E R \in SUBSET Channels : SetTokens({}, R)
  BY <1>7 DEF Request
<1>8. ASSUME NEW c \in Conns, NEW t \in Tokens, AnswerOnly(c, t) PROVE Revolving
  BY <1>5, <1>7, <1>8 DEF AnswerOnly
<1>9. ASSUME NEW c \in Conns, NEW t \in Tokens, NEW s \in Sessions,
             CreateSession(c, t, s) \/ ActivateSession(c, t, s) \/ UseSession(c, t, s)
      PROVE  Revolving
  BY <1>5, <1>7, <1>9 DEF CreateSession, ActivateSession, UseSession
<1>10. ASSUME NEW c \in Conns, NEW t \in Tokens, NEW s \in Sessions, CloseSession(c, t, s)
       PROVE  Revolving
  BY <1>4, <1>7, <1>10 DEF CloseSession
<1>11. CASE Cleanup
  <2>1. OldChannels \in SUBSET Channels /\ TimedOutSessions \in SUBSET Sessions
        /\ LiveChannels \in SUBSET Channels
    BY DEF OldChannels, TimedOutSessions, LiveChannels, LiveSessions
  <2> QED
    BY <1>4, <1>11, <2>1 DEF Cleanup
<1>12. CASE Tick \/ UNCHANGED vars
  BY <1>12 DEF Tick, vars, TokenState, chanVars, tokenVars
<1> QED
  BY <1>1, <1>2, <1>3, <1>6, <1>8, <1>9, <1>10, <1>11, <1>12
     DEF Next, ProcessMessage, ProcessRequest

(* The counter is above every token, so that a new token is new; a channel *)
(* that has not been opened has none.                                      *)
LEMMA TokensNext ==
    ASSUME TypeOK, OwnLinks, TokensAreUnique, [Next]_vars PROVE TokensAreUnique'
<1>1. CASE UNCHANGED TokenState
  BY <1>1 DEF TokenState, TokensAreUnique, TokensOf, LiveChannels
<1>2. ASSUME NEW h \in Channels, Issues(h) PROVE TokensAreUnique'
  <2>1. nextToken[h] = 0 /\ h \notin LiveChannels
    BY <1>2 DEF Issues, TypeOK, TokensAreUnique, TokensOf, LiveChannels
  <2>2. lastToken \in Nat /\ lastToken # 0 /\ lastToken' = lastToken + 1
    BY <1>2 DEF Issues, TypeOK
  <2>3. TokensOf(h)' = {lastToken} /\ \A g \in Channels : g # h => TokensOf(g)' = TokensOf(g)
    BY <1>2, <2>1, <2>2 DEF Issues, TypeOK, TokensOf
  <2>4. \A g \in Channels : \A t \in TokensOf(g) : t \in Nat /\ t < lastToken /\ g \in LiveChannels
    BY DEF TypeOK, TokensAreUnique, TokensOf
  <2>5. LiveChannels' = LiveChannels \cup {h}
    BY <1>2 DEF Issues, TypeOK, LiveChannels
  <2>6. \A g \in LiveChannels' : token'[g] # 0 /\ token'[g] # nextToken'[g]
    BY <1>2, <2>1, <2>2, <2>5 DEF Issues, TypeOK, TokensAreUnique, LiveChannels
  <2>7. \A g \in Channels : \A t \in TokensOf(g)' : g \in LiveChannels' /\ t < lastToken'
    BY <2>2, <2>3, <2>4, <2>5
  <2>8. \A g, k \in Channels : g # k => TokensOf(g)' \cap TokensOf(k)' = {}
    BY <2>2, <2>3, <2>4 DEF TokensAreUnique
  <2> QED
    BY <2>6, <2>7, <2>8 DEF TokensAreUnique
<1>3. ASSUME NEW h \in Channels, Renews(h) PROVE TokensAreUnique'
  <2>1. nextToken[h] = 0 /\ h \in LiveChannels /\ LiveChannels' = LiveChannels
    BY <1>3 DEF Renews, LiveChannels
  <2>2. lastToken \in Nat /\ lastToken # 0 /\ lastToken' = lastToken + 1
    BY <1>3 DEF Renews, TypeOK
  <2>3. /\ TokensOf(h)' = {token[h], lastToken}
        /\ \A g \in Channels : g # h => TokensOf(g)' = TokensOf(g)
    BY <1>3, <2>1, <2>2 DEF Renews, TypeOK, TokensOf, TokensAreUnique
  <2>4. \A g \in Channels : \A t \in TokensOf(g) : t \in Nat /\ t < lastToken /\ g \in LiveChannels
    BY DEF TypeOK, TokensAreUnique, TokensOf
  <2>5. token[h] \in TokensOf(h)
    BY <2>1 DEF TokensAreUnique, TokensOf
  <2>6. token[h] < lastToken /\ token[h] \in Nat
    BY <2>4, <2>5
  <2>7. \A g \in LiveChannels' : token'[g] # 0 /\ token'[g] # nextToken'[g]
    BY <1>3, <2>1, <2>2, <2>6 DEF Renews, TypeOK, TokensAreUnique, LiveChannels
  <2>8. \A g \in Channels : \A t \in TokensOf(g)' : g \in LiveChannels' /\ t < lastToken'
    BY <2>1, <2>2, <2>3, <2>4, <2>6
  <2>9. \A g, k \in Channels : g # k => TokensOf(g)' \cap TokensOf(k)' = {}
    BY <2>2, <2>3, <2>4, <2>5 DEF TokensAreUnique
  <2> QED
    BY <2>7, <2>8, <2>9 DEF TokensAreUnique
<1>4. ASSUME NEW H \in SUBSET Channels, NEW R \in SUBSET Channels, Revolves(H, R)
      PROVE  TokensAreUnique'
  <2>1. \A g \in Channels : TokensOf(g)' \subseteq TokensOf(g) /\ (g \in H => TokensOf(g)' = {})
    BY <1>4 DEF Revolves, SetTokens, TokensOf
  <2>2. \A g \in Channels : g \in LiveChannels' <=> (g \in LiveChannels /\ g \notin H)
    BY <1>4 DEF Revolves, LiveChannels
  <2>3. \A g \in LiveChannels' : token'[g] # 0 /\ token'[g] # nextToken'[g]
    BY <1>4, <2>2 DEF Revolves, SetTokens, TypeOK, TokensAreUnique, LiveChannels
  <2>4. lastToken' = lastToken
    BY <1>4 DEF Revolves
  <2> QED
    BY <2>1, <2>2, <2>3, <2>4 DEF TokensAreUnique
<1> QED
  BY <1>1, <1>2, <1>3, <1>4, StepOfTokens

(* No two channels ever share a token, whatever is opened, renewed, used   *)
(* and closed (UA_SecureChannelManager_open, _renew and revolveTokens).    *)
THEOREM TokensAreUniqueCorrect == Spec => []TokensAreUnique
<1>1. Init => TokensAreUnique
  BY DEF Init, TokensAreUnique, TokensOf, LiveChannels
<1>2. TypeOK /\ OwnLinks /\ TokensAreUnique /\ [Next]_vars => TokensAreUnique'
  BY TokensNext
<1> QED
  BY <1>1, <1>2, TypeCorrect, OwnLinksCorrect, PTL DEF Spec

-----------------------------------------------------------------------------
(* What no step does                                                       *)

(* A next token is kept, comes into force, or goes with its channel.       *)
LEMMA IssuedTokenStep ==
    ASSUME TypeOK, OwnLinks, [Next]_vars, NEW h \in LiveChannels, nextToken[h] # 0
    PROVE  \/ nextToken'[h] = nextToken[h]
           \/ token'[h] = nextToken[h]
           \/ chanState'[h] = "freed"
<1>1. h \in Channels
  BY DEF LiveChannels
<1>2. ASSUME NEW H \in SUBSET Channels, NEW R \in SUBSET Channels, Revolves(H, R)
      PROVE  \/ nextToken'[h] = nextToken[h]
             \/ token'[h] = nextToken[h]
             \/ chanState'[h] = "freed"
  BY <1>1, <1>2 DEF Revolves, SetTokens
<1> QED
  BY <1>1, <1>2, StepOfTokens DEF TokenState, Issues, Renews, TypeOK

(* Only an activation moves a session, and it looks at its lifetime.       *)
LEMMA TimedOutSessionStep ==
    ASSUME TypeOK, [Next]_vars, NEW s \in LiveSessions, sessLife[s] < 0
    PROVE  sessChannel'[s] \in {sessChannel[s], NULL}
<1> DEFINE Goal == sessChannel'[s] \in {sessChannel[s], NULL}
<1>1. s \in Sessions
  BY DEF LiveSessions
<1>2. CASE UNCHANGED sessChannel
  BY <1>2
<1>3. ASSUME NEW H, NEW S, Delete(H, S) PROVE Goal
  BY <1>1, <1>3 DEF Delete
<1>4. ASSUME NEW c \in Conns, NEW t \in Tokens, NEW r \in Sessions, ActivateSession(c, t, r)
      PROVE  Goal
  <2>1. r # s
    <3>1. sessLife[r] >= 0 /\ sessLife[r] \in Int /\ sessLife[s] \in Int
      BY <1>1, <1>4 DEF ActivateSession, FoundSession, TypeOK
    <3> QED
      BY <3>1
  <2> QED
    BY <1>1, <1>4, <2>1 DEF ActivateSession, TypeOK
<1>5. ASSUME NEW c \in Conns, NEW t \in Tokens, ProcessRequest(c, t) PROVE Goal
  BY <1>2, <1>3, <1>4, <1>5
     DEF ProcessRequest, WrongToken, AnswerOnly, CreateSession, UseSession, CloseSession, sessVars
<1>6. ASSUME NEW c \in Conns,
             \/ Accept(c) \/ PeerCloses(c) \/ RemoveConnection(c)
             \/ Hello(c) \/ Reject(c) \/ OpenRefused(c) \/ RenewChannel(c)
      PROVE  Goal
  BY <1>6, <1>2 DEF Accept, PeerCloses, RemoveConnection, Hello, Reject, OpenRefused,
                    RenewChannel, sessVars
<1>7. ASSUME NEW c \in Conns, CloseChannel(c) \/ \E h \in Channels : OpenChannel(c, h)
      PROVE  Goal
  BY <1>7, <1>2, <1>3 DEF CloseChannel, OpenChannel, sessVars
<1>8. CASE Cleanup \/ Tick \/ UNCHANGED vars
  BY <1>8, <1>2, <1>3 DEF Cleanup, Tick, vars, sessVars
<1> QED
  BY <1>5, <1>6, <1>7, <1>8 DEF Next, ProcessMessage

(* Deleting one channel leaves the others, and their connections: the      *)
(* connection of the one has no other channel.                             *)
LEMMA DeletedAlone ==
    ASSUME TypeOK, Links, NEW k \in Channels, NEW S, Delete({k}, S),
           NEW g \in LiveChannels, NEW h \in LiveChannels, g # h, chanState'[h] = "freed"
    PROVE  chanState'[g] = "live" /\ chanConn'[g] = chanConn[g]
<1>1. g \in Channels /\ h \in Channels /\ chanState[g] = "live" /\ chanState[h] = "live"
  BY DEF LiveChannels
<1>2. h = k
  BY <1>1 DEF Delete
<1>3. chanState'[g] = "live"
  BY <1>1, <1>2 DEF Delete
<1>4. chanConn'[g] = DetachSecureChannels(ConnectionsOf({h}))[g]
  BY <1>1, <1>2 DEF Delete
<1>5. \A c \in ConnectionsOf({h}) : c = chanConn[h] /\ c # NULL
  BY DEF ConnectionsOf
<1>6. \A c \in ConnectionsOf({h}) : connChannel[c] = h
  BY <1>1, <1>5 DEF Links, BackLinks, ChannelHasItsConnection
<1>7. chanConn'[g] = chanConn[g]
  BY <1>1, <1>4, <1>6 DEF DetachSecureChannels
<1> QED
  BY <1>3, <1>7

(* Only a CLO, a wrong token and the cleanup delete channels, and the      *)
(* cleanup those only whose token ran out or whose connection is gone.     *)
LEMMA OthersStep ==
    ASSUME TypeOK, Links, [Next]_vars, NEW g \in LiveChannels, NEW h \in LiveChannels, g # h,
           chanState'[h] = "freed", tokenLife[h] >= 0, chanConn[h] # NULL
    PROVE  chanState'[g] = "live" /\ chanConn'[g] = chanConn[g]
<1> DEFINE Goal == chanState'[g] = "live" /\ chanConn'[g] = chanConn[g]
<1>1. h \in Channels /\ chanState[h] = "live"
  BY DEF LiveChannels
<1>2. chanState' # chanState
  BY <1>1
<1>3. ASSUME NEW c \in Conns, \E t \in Tokens : WrongToken(c, t) PROVE Goal
  <2>1. connChannel[c] # NULL /\ Delete({connChannel[c]}, {})
    BY <1>3 DEF WrongToken
  <2>2. connChannel[c] \in Channels
    BY <2>1 DEF TypeOK
  <2> QED
    BY <2>1, <2>2, DeletedAlone
<1>4. ASSUME NEW c \in Conns, CloseChannel(c) PROVE Goal
  <2>1. connChannel[c] # NULL /\ Delete({connChannel[c]}, {})
    BY <1>4 DEF CloseChannel
  <2>2. connChannel[c] \in Channels
    BY <2>1 DEF TypeOK
  <2> QED
    BY <2>1, <2>2, DeletedAlone
<1>5. ASSUME Cleanup PROVE FALSE
  <2>1. h \in OldChannels
    BY <1>1, <1>5 DEF Cleanup, Delete
  <2>2. tokenLife[h] < 0 /\ tokenLife[h] \in Int
    BY <1>1, <2>1 DEF OldChannels, TypeOK
  <2> QED
    BY <2>2
<1>6. ASSUME NEW c \in Conns, NEW k \in Channels, OpenChannel(c, k) PROVE FALSE
  BY <1>1, <1>6 DEF OpenChannel, TypeOK
<1>7. ASSUME NEW c \in Conns, NEW t \in Tokens, NEW s \in Sessions, CloseSession(c, t, s)
      PROVE  FALSE
  BY <1>1, <1>7 DEF CloseSession, Delete
<1>8. ASSUME NEW c \in Conns, NEW t \in Tokens, ProcessRequest(c, t) PROVE Goal
  BY <1>2, <1>3, <1>7, <1>8
     DEF ProcessRequest, AnswerOnly, CreateSession, ActivateSession, UseSession
<1>9. ASSUME NEW c \in Conns,
             \/ Accept(c) \/ PeerCloses(c) \/ RemoveConnection(c)
             \/ Hello(c) \/ Reject(c) \/ OpenRefused(c) \/ RenewChannel(c)
      PROVE  FALSE
  BY <1>9, <1>2 DEF Accept, PeerCloses, RemoveConnection, Hello, Reject, OpenRefused,
                    RenewChannel, chanVars
<1>10. CASE Tick \/ UNCHANGED vars
  BY <1>10, <1>2 DEF Tick, vars, chanVars
<1> QED
  BY <1>4, <1>5, <1>6, <1>8, <1>9, <1>10 DEF Next, ProcessMessage

(* Whatever clients send, no handler replaces a token that was handed out  *)
(* (UA_SecureChannelManager_renew, _revolveTokens), or moves a session     *)
(* that has timed out (UA_SessionManager_getSession).                      *)
THEOREM TokensAndSessionsInStep == Spec => IssuedTokenIsNotReplaced /\ TimedOutSessionIsNotMoved
<1>1. TypeOK /\ OwnLinks /\ [Next]_vars =>
        [\A h \in LiveChannels : nextToken[h] # 0 =>
            \/ nextToken'[h] = nextToken[h]
            \/ token'[h] = nextToken[h]
            \/ chanState'[h] = "freed"]_vars
  BY IssuedTokenStep
<1>2. TypeOK /\ [Next]_vars =>
        [\A s \in LiveSessions : sessLife[s] < 0 =>
            sessChannel'[s] \in {sessChannel[s], NULL}]_vars
  BY TimedOutSessionStep
<1>3. Spec => IssuedTokenIsNotReplaced
  BY <1>1, TypeCorrect, OwnLinksCorrect, PTL DEF Spec, IssuedTokenIsNotReplaced
<1>4. Spec => TimedOutSessionIsNotMoved
  BY <1>2, TypeCorrect, PTL DEF Spec, TimedOutSessionIsNotMoved
<1> QED
  BY <1>3, <1>4

(* For conforming clients a channel also never ends together with that of  *)
(* another (UA_SecureChannelManager_close and _cleanupTimedOut).           *)
THEOREM ChangesAreInStepCorrect == Conforming => (Spec => ChangesAreInStep)
<1> SUFFICES ASSUME Conforming PROVE Spec => ChangesAreInStep
  OBVIOUS
<1>1. Spec => []Links
  BY LinksCorrect
<1>2. TypeOK /\ Links /\ [Next]_vars =>
        [\A g, h \in LiveChannels :
            g # h /\ chanState'[h] = "freed" /\ tokenLife[h] >= 0 /\ chanConn[h] # NULL =>
               chanState'[g] = "live" /\ chanConn'[g] = chanConn[g]]_vars
  BY OthersStep
<1>3. Spec => OthersAreLeftAlone
  BY <1>1, <1>2, TypeCorrect, PTL DEF Spec, OthersAreLeftAlone
<1> QED
  BY <1>3, TokensAndSessionsInStep DEF ChangesAreInStep
=============================================================================
