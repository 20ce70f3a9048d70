--------------------------- MODULE SecureChannels ---------------------------
(***************************************************************************)
(* The server's connections, secure channels and sessions, and the three   *)
(* kinds of pointer that tie them together:                                *)
(*                                                                         *)
(*    connection->channel   <-->  channel->connection                      *)
(*    channel->sessions     <-->  session->channel                         *)
(*                                                                         *)
(* One action per message handler, per network event and per timed job of  *)
(* the single-threaded build (UA_MULTITHREADING is undefined), each run to *)
(* completion before the next as in processJobs.  Every object is used     *)
(* once: a freed object stays "freed", so that a pointer to it is seen to  *)
(* dangle.  Time is relative: a lifetime counts the ticks left, and is -1  *)
(* once validTill < now.                                                   *)
(***************************************************************************)
EXTENDS Integers, FiniteSets

CONSTANTS
    Conns, Channels, Sessions,  \* objects the server may allocate
    NULL,                       \* the null pointer
    MaxChannelCount,            \* MAXCHANNELCOUNT
    MaxSessionCount,            \* MAXSESSIONCOUNT
    MaxChannelLifetime,         \* TOKENLIFETIME, in ticks
    MaxSessionLifetime,         \* MAXSESSIONLIFETIME, in ticks
    MaxToken,                   \* bound on the security tokens issued
    StackChannel,               \* the anonymousChannel on the stack of processMSG
    Conforming,                 \* do clients send HEL, ISSUE and ActivateSession as ua_client.c does?
    SendFails                   \* may send() fail although the server did not shut the socket?

ASSUME NullAssumption ==
    /\ NULL \notin Conns \cup Channels \cup {StackChannel}
    /\ StackChannel \notin Channels
ASSUME FiniteAssumption ==
    IsFiniteSet(Channels) /\ IsFiniteSet(Sessions)
ASSUME BoundAssumption ==
    /\ MaxChannelCount \in Nat
    /\ MaxSessionCount \in Nat
    /\ MaxChannelLifetime \in Nat \ {0}
    /\ MaxSessionLifetime \in Nat \ {0}
    /\ MaxToken \in Nat \ {0}
ASSUME SwitchAssumption ==
    Conforming \in BOOLEAN /\ SendFails \in BOOLEAN

VARIABLES
    connState,      \* connection->state, with "unused" and "freed" objects
    socket,         \* "open", "eof" (shut by the peer), "shut" (by the server), "closed"
    connChannel,    \* connection->channel
    chanState,      \* is the channel in the manager's list?
    chanConn,       \* channel->connection
    chanSessions,   \* the sessions of channel->sessions
    token,          \* channel->securityToken.tokenId
    tokenLife,      \* ticks left of securityToken
    nextToken,      \* channel->nextSecurityToken.tokenId, 0 if none is issued
    nextLife,       \* ticks left of nextSecurityToken
    channelCount,   \* currentChannelCount
    lastToken,      \* lastTokenId
    sessState,      \* is the session in the manager's list?
    sessChannel,    \* session->channel
    activated,      \* session->activated
    sessTimeout,    \* session->timeout
    sessLife,       \* ticks left until session->validTill
    sessionCount    \* currentSessionCount

connVars  == <<connState, socket, connChannel>>
tokenVars == <<token, tokenLife, nextToken, nextLife>>
chanVars  == <<chanState, chanConn, chanSessions, tokenVars, channelCount, lastToken>>
sessVars  == <<sessState, sessChannel, activated, sessTimeout, sessLife, sessionCount>>
vars      == <<connVars, chanVars, sessVars>>

ConnStates   == {"unused", "OPENING", "ESTABLISHED", "CLOSED", "freed"}
SocketStates == {"open", "eof", "shut", "closed"}
ObjectStates == {"unused", "live", "freed"}

MappedStates == {"OPENING", "ESTABLISHED", "CLOSED"}
Mapped       == {c \in Conns : connState[c] \in MappedStates}
LiveChannels == {h \in Channels : chanState[h] = "live"}
LiveSessions == {s \in Sessions : sessState[s] = "live"}

-----------------------------------------------------------------------------
Init ==
    /\ connState = [c \in Conns |-> "unused"]
    /\ socket = [c \in Conns |-> "open"]
    /\ connChannel = [c \in Conns |-> NULL]
    /\ chanState = [h \in Channels |-> "unused"]
    /\ chanConn = [h \in Channels |-> NULL]
    /\ chanSessions = [h \in Channels |-> {}]
    /\ token = [h \in Channels |-> 0]
    /\ tokenLife = [h \in Channels |-> 0]
    /\ nextToken = [h \in Channels |-> 0]
    /\ nextLife = [h \in Channels |-> 0]
    /\ channelCount = 0
    /\ lastToken = 1
    /\ sessState = [s \in Sessions |-> "unused"]
    /\ sessChannel = [s \in Sessions |-> NULL]
    /\ activated = [s \in Sessions |-> FALSE]
    /\ sessTimeout = [s \in Sessions |-> 0]
    /\ sessLife = [s \in Sessions |-> 0]
    /\ sessionCount = 0

-----------------------------------------------------------------------------
(* Network                                                                 *)

(* A mapped descriptor that was closed makes every later select() fail     *)
(* with EBADF: getJobs then accepts and receives nothing.                  *)
SelectFails == \E c \in Mapped : socket[c] = "closed"

(* A message of c is read from its socket.  Data that was already buffered *)
(* is still delivered after the socket was shut.                           *)
Receives(c) == c \in Mapped /\ ~SelectFails

(* ServerNetworkLayerTCP_closeConnection on each of cs: idempotent, and it *)
(* only shuts the socket down.                                             *)
CloseConnections(cs) ==
    LET open == {c \in cs : connState[c] \in {"OPENING", "ESTABLISHED"}} IN
    /\ connState' = [c \in Conns |-> IF c \in open THEN "CLOSED" ELSE connState[c]]
    /\ socket' = [c \in Conns |-> IF c \in open THEN "shut" ELSE socket[c]]

(* socket_write: on an error the connection is closed and then the         *)
(* descriptor itself, which stays in the mapping.                          *)
SendOutcomes(c) ==
    IF socket[c] = "shut" THEN {FALSE} ELSE IF SendFails THEN BOOLEAN ELSE {TRUE}

(* The answer to a request leaves c in `state`, or CLOSED if it fails.     *)
RespondIn(c, state) ==
    \E sent \in SendOutcomes(c) :
       /\ connState' = [connState EXCEPT ![c] = IF sent THEN state ELSE "CLOSED"]
       /\ socket' = [socket EXCEPT ![c] = IF sent THEN @ ELSE "closed"]

Respond(c) == RespondIn(c, connState[c])

(* getJobs accepts a connection and adds it to the mapping.                *)
Accept(c) ==
    /\ ~SelectFails
    /\ connState[c] = "unused"
    /\ connState' = [connState EXCEPT ![c] = "OPENING"]
    /\ UNCHANGED <<socket, connChannel, chanVars, sessVars>>

(* The peer closes or resets its end.                                      *)
PeerCloses(c) ==
    /\ c \in Mapped
    /\ socket[c] = "open"
    /\ socket' = [socket EXCEPT ![c] = "eof"]
    /\ UNCHANGED <<connState, connChannel, chanVars, sessVars>>

(* recv returns 0.                                                         *)
EndOfStream(c) == socket[c] \in {"eof", "shut"}

(* mutant: the channel keeps its pointer *)
StillAttached(cs) == chanConn

(* UA_Connection_detachSecureChannel on each of cs.                        *)
DetachSecureChannels(cs) ==
    [h \in Channels |-> IF \E c \in cs : connChannel[c] = h THEN NULL ELSE chanConn[h]]

(* recv reports the end of the stream: the socket is closed, the mapping   *)
(* dropped, and the DETACHCONNECTION and FreeConnection jobs of the same   *)
(* batch run one after the other.                                          *)
RemoveConnection(c) ==
    /\ Receives(c)
    /\ EndOfStream(c)
    /\ connState' = [connState EXCEPT ![c] = "freed"]
    /\ socket' = [socket EXCEPT ![c] = "closed"]
    /\ connChannel' = [connChannel EXCEPT ![c] = NULL]
    /\ chanConn' = DetachSecureChannels({c})
    /\ UNCHANGED <<chanState, chanSessions, tokenVars, channelCount, lastToken, sessVars>>

-----------------------------------------------------------------------------
(* Deleting sessions and channels                                          *)

(* mutant: a deleted channel leaves its connection alone *)
NoConnections(H) == {}

(* The connections to detach and close with the channels H.                *)
ConnectionsOf(H) == {chanConn[h] : h \in H} \ {NULL}

(* The sessions whose channel pointer is cleared with the channels H.      *)
SessionsOf(H) == UNION {chanSessions[h] : h \in H}

(* UA_Session_deleteMembersCleanup on the sessions S, then                 *)
(* UA_SecureChannel_deleteMembersCleanup on the channels H, with the       *)
(* removal from the managers' lists and the counters.  The connections of  *)
(* H are detached here; the caller closes them.                            *)
Delete(H, S) ==
    LET cs == ConnectionsOf(H) IN
    /\ chanState' = [h \in Channels |-> IF h \in H THEN "freed" ELSE chanState[h]]
    /\ chanConn' = [h \in Channels |->
                      IF h \in H THEN NULL ELSE DetachSecureChannels(cs)[h]]
    /\ chanSessions' = [h \in Channels |-> IF h \in H THEN {} ELSE chanSessions[h] \ S]
    /\ connChannel' = [c \in Conns |-> IF c \in cs THEN NULL ELSE connChannel[c]]
    /\ channelCount' = channelCount - Cardinality(H)
    /\ sessState' = [s \in Sessions |-> IF s \in S THEN "freed" ELSE sessState[s]]
    /\ sessChannel' = [s \in Sessions |->
                         IF s \in S \cup SessionsOf(H) THEN NULL ELSE sessChannel[s]]
    /\ activated' = [s \in Sessions |-> s \notin S /\ activated[s]]
    /\ sessTimeout' = [s \in Sessions |-> IF s \in S THEN 0 ELSE sessTimeout[s]]
    /\ sessLife' = [s \in Sessions |-> IF s \in S THEN 0 ELSE sessLife[s]]
    /\ sessionCount' = sessionCount - Cardinality(S)
    /\ UNCHANGED lastToken

(* The tokens of deleted channels are gone; those of R are revolved        *)
(* (UA_SecureChannel_revolveTokens) where a next token was issued.         *)
SetTokens(H, R) ==
    LET revolves(h) == h \in R /\ nextToken[h] # 0 IN
    /\ token' = [h \in Channels |->
                   IF h \in H THEN 0 ELSE IF revolves(h) THEN nextToken[h] ELSE token[h]]
    /\ tokenLife' = [h \in Channels |->
                   IF h \in H THEN 0 ELSE IF revolves(h) THEN nextLife[h] ELSE tokenLife[h]]
    /\ nextToken' = [h \in Channels |->
                   IF h \in H \/ revolves(h) THEN 0 ELSE nextToken[h]]
    /\ nextLife' = [h \in Channels |->
                   IF h \in H \/ revolves(h) THEN 0 ELSE nextLife[h]]

-----------------------------------------------------------------------------
(* HEL and OPN                                                             *)

Hello(c) ==
    /\ Receives(c)
    /\ Conforming => connState[c] = "OPENING"
    /\ RespondIn(c, "ESTABLISHED")
    /\ UNCHANGED <<connChannel, chanVars, sessVars>>

(* A HEL or OPN that cannot be decoded, an OPN or MSG on a connection that *)
(* is not ESTABLISHED, a CLO that does not name the connection's channel.  *)
Reject(c) ==
    /\ Receives(c)
    /\ CloseConnections({c})
    /\ UNCHANGED <<connChannel, chanVars, sessVars>>

ChannelPlace == channelCount < MaxChannelCount

(* mutant: the requested lifetime is taken as it is *)
RequestedLifetimes == 0..(MaxChannelLifetime + 1)

(* revisedLifetime: at most the maximum, and the maximum for a 0.          *)
RevisedLifetimes == 1..MaxChannelLifetime

(* OPN, ISSUE: UA_SecureChannelManager_open.                               *)
OpenChannel(c, h) ==
    /\ Receives(c)
    /\ connState[c] = "ESTABLISHED"
    /\ Conforming => connChannel[c] = NULL
    /\ ChannelPlace
    /\ chanState[h] = "unused"
    /\ lastToken <= MaxToken
    /\ channelCount' = channelCount + 1
    /\ lastToken' = lastToken + 1
    /\ chanState' = [chanState EXCEPT ![h] = "live"]
    /\ token' = [token EXCEPT ![h] = lastToken]
    /\ \E life \in RevisedLifetimes : tokenLife' = [tokenLife EXCEPT ![h] = life]
    /\ chanConn' = [chanConn EXCEPT ![h] = c]
    /\ connChannel' = [connChannel EXCEPT ![c] = h]
    /\ Respond(c)
    /\ UNCHANGED <<chanSessions, nextToken, nextLife, sessVars>>

(* OPN answered with a bad service result: a security mode other than      *)
(* NONE, too many channels, a RENEW without a channel.                     *)
OpenRefused(c) ==
    /\ Receives(c)
    /\ connState[c] = "ESTABLISHED"
    /\ IF connChannel[c] = NULL THEN CloseConnections({c}) ELSE Respond(c)
    /\ UNCHANGED <<connChannel, chanVars, sessVars>>

(* mutant: every RENEW issues a token *)
NeedsAnyToken(h) == TRUE

(* No security token is already issued.                                    *)
NeedsToken(h) == nextToken[h] = 0

(* mutant: the variant that ua_securechannel_manager.c has commented out *)
CurrentToken(h) == token[h]

(* The identifier of a renewed token.                                      *)
RenewedToken(h) == lastToken

(* OPN, RENEW: UA_SecureChannelManager_renew.  A next token that is still  *)
(* unused is handed out again.                                             *)
RenewChannel(c) ==
    LET h == connChannel[c] IN
    /\ Receives(c)
    /\ connState[c] = "ESTABLISHED"
    /\ h # NULL
    /\ IF NeedsToken(h)
       THEN /\ lastToken <= MaxToken
            /\ lastToken' = lastToken + 1
            /\ nextToken' = [nextToken EXCEPT ![h] = RenewedToken(h)]
            /\ \E life \in RevisedLifetimes : nextLife' = [nextLife EXCEPT ![h] = life]
       ELSE UNCHANGED <<lastToken, nextToken, nextLife>>
    /\ Respond(c)
    /\ UNCHANGED <<connChannel, chanState, chanConn, chanSessions, token, tokenLife,
                   channelCount, sessVars>>

-----------------------------------------------------------------------------
(* MSG                                                                     *)

(* The channel a request of c is processed on.                             *)
RequestChannel(c) == IF connChannel[c] = NULL THEN StackChannel ELSE connChannel[c]

(* A MSG of c under token t gets past the security header; the first use   *)
(* of the next token makes it the current one.                             *)
Request(c, t) ==
    /\ Receives(c)
    /\ connState[c] = "ESTABLISHED"
    /\ t # 0
    /\ connChannel[c] # NULL => t \in {token[connChannel[c]], nextToken[connChannel[c]]}
    /\ SetTokens({}, {h \in Channels : h = connChannel[c] /\ t # token[h]})

(* The token is neither the current nor the next one.                      *)
WrongToken(c, t) ==
    LET h == connChannel[c] IN
    /\ Receives(c)
    /\ connState[c] = "ESTABLISHED"
    /\ h # NULL
    /\ t \notin {0, token[h], nextToken[h]}
    /\ Delete({h}, {})
    /\ CloseConnections(ConnectionsOf({h}))
    /\ SetTokens({h}, {})

(* GetEndpoints, FindServers, an unknown service, and every request that   *)
(* is refused with a service result: only the token may change.            *)
AnswerOnly(c, t) ==
    /\ Request(c, t)
    /\ Respond(c)
    /\ UNCHANGED <<connChannel, chanState, chanConn, chanSessions, channelCount,
                   lastToken, sessVars>>

(* mutant: one session too many *)
SessionPlaceOrFull == sessionCount <= MaxSessionCount

SessionPlace == sessionCount < MaxSessionCount

CreateSession(c, t, s) ==
    /\ Request(c, t)
    /\ SessionPlace
    /\ sessState[s] = "unused"
    /\ sessionCount' = sessionCount + 1
    /\ sessState' = [sessState EXCEPT ![s] = "live"]
    /\ \E timeout \in 1..MaxSessionLifetime :
          /\ sessTimeout' = [sessTimeout EXCEPT ![s] = timeout]
          /\ sessLife' = [sessLife EXCEPT ![s] = timeout]
    /\ Respond(c)
    /\ UNCHANGED <<connChannel, chanState, chanConn, chanSessions, channelCount,
                   lastToken, sessChannel, activated>>

(* mutant: the lifetime of the session is not looked at *)
ListedSession(s) == s \in LiveSessions

(* UA_SessionManager_getSession.                                           *)
FoundSession(s) == s \in LiveSessions /\ sessLife[s] >= 0

(* mutant: the session stays in the list of the channel it leaves *)
JoinOnly(s, from, to) ==
    [h \in Channels |-> IF h = to THEN chanSessions[h] \cup {s} ELSE chanSessions[h]]

(* UA_SecureChannel_detachSession, unless the session stays where it is,   *)
(* and UA_SecureChannel_attachSession.                                     *)
MoveSession(s, from, to) ==
    [h \in Channels |->
       IF from = to THEN chanSessions[h]
       ELSE IF h = to THEN chanSessions[h] \cup {s}
       ELSE IF h = from THEN chanSessions[h] \ {s}
       ELSE chanSessions[h]]

Activated(s) == [activated EXCEPT ![s] = TRUE]

(* The login is accepted: the session leaves the channel it is attached to *)
(* and joins the channel of the request.                                   *)
ActivateSession(c, t, s) ==
    LET from == sessChannel[s]
        to   == RequestChannel(c) IN
    /\ Request(c, t)
    /\ Conforming => connChannel[c] # NULL
    /\ FoundSession(s)
    /\ sessChannel' = [sessChannel EXCEPT ![s] = to]
    /\ chanSessions' = MoveSession(s, from, to)
    /\ activated' = Activated(s)
    /\ sessLife' = [sessLife EXCEPT ![s] = sessTimeout[s]]
    /\ Respond(c)
    /\ UNCHANGED <<connChannel, chanState, chanConn, channelCount, lastToken,
                   sessState, sessTimeout, sessionCount>>

(* invoke_service finds the session in the list of the request's channel.  *)
Invokes(c, s) ==
    /\ connChannel[c] # NULL
    /\ s \in chanSessions[connChannel[c]]
    /\ sessChannel[s] = connChannel[c]
    /\ activated[s]

(* Read, Write, Browse and the other services of a session.                *)
UseSession(c, t, s) ==
    /\ Request(c, t)
    /\ Invokes(c, s)
    /\ sessLife' = [sessLife EXCEPT ![s] = sessTimeout[s]]
    /\ Respond(c)
    /\ UNCHANGED <<connChannel, chanState, chanConn, chanSessions, channelCount, lastToken,
                   sessState, sessChannel, activated, sessTimeout, sessionCount>>

CloseSession(c, t, s) ==
    /\ Request(c, t)
    /\ Invokes(c, s)
    /\ Delete({}, {s})
    /\ Respond(c)

-----------------------------------------------------------------------------
(* CLO, the cleanup job and time                                           *)

(* CLO with the identifier of the connection's channel.                    *)
CloseChannel(c) ==
    LET h == connChannel[c] IN
    /\ Receives(c)
    /\ h # NULL
    /\ Delete({h}, {})
    /\ CloseConnections({c} \cup ConnectionsOf({h}))
    /\ SetTokens({h}, {})

(* UA_Server_cleanup, run by a repeated job.                               *)
TimedOutSessions == {s \in LiveSessions : sessLife[s] < 0}

(* mutant: the connection is not looked at *)
TimedOutChannels == {h \in LiveChannels : tokenLife[h] < 0}

OldChannels == {h \in LiveChannels : tokenLife[h] < 0 \/ chanConn[h] = NULL}

Cleanup ==
    /\ Delete(OldChannels, TimedOutSessions)
    /\ CloseConnections(ConnectionsOf(OldChannels))
    /\ SetTokens(OldChannels, LiveChannels)

Older(life) == IF life < 0 THEN life ELSE life - 1

Tick ==
    /\ tokenLife' = [h \in Channels |->
                       IF h \in LiveChannels THEN Older(tokenLife[h]) ELSE tokenLife[h]]
    /\ nextLife' = [h \in Channels |->
                       IF nextToken[h] # 0 THEN Older(nextLife[h]) ELSE nextLife[h]]
    /\ sessLife' = [s \in Sessions |->
                       IF s \in LiveSessions THEN Older(sessLife[s]) ELSE sessLife[s]]
    /\ UNCHANGED <<connVars, chanState, chanConn, chanSessions, token, nextToken,
                   channelCount, lastToken, sessState, sessChannel, activated,
                   sessTimeout, sessionCount>>

-----------------------------------------------------------------------------
Tokens == 0..MaxToken

ProcessRequest(c, t) ==
    \/ WrongToken(c, t)
    \/ AnswerOnly(c, t)
    \/ \E s \in Sessions :
          \/ CreateSession(c, t, s)
          \/ ActivateSession(c, t, s)
          \/ UseSession(c, t, s)
          \/ CloseSession(c, t, s)

ProcessMessage(c) ==
    \/ Hello(c)
    \/ Reject(c)
    \/ \E h \in Channels : OpenChannel(c, h)
    \/ OpenRefused(c)
    \/ RenewChannel(c)
    \/ \E t \in Tokens : ProcessRequest(c, t)
    \/ CloseChannel(c)

Next ==
    \/ \E c \in Conns :
          \/ Accept(c)
          \/ PeerCloses(c)
          \/ RemoveConnection(c)
          \/ ProcessMessage(c)
    \/ Cleanup
    \/ Tick

Spec == Init /\ [][Next]_vars

(* The main loop keeps selecting, and runs the cleanup job at its interval.*)
Fairness ==
    /\ \A c \in Conns : WF_vars(RemoveConnection(c))
    /\ WF_vars(Cleanup)

LiveSpec == Spec /\ Fairness

-----------------------------------------------------------------------------
(* Properties                                                              *)

(* Every variable has its type.                                            *)
TypeOK ==
    /\ connState \in [Conns -> ConnStates]
    /\ socket \in [Conns -> SocketStates]
    /\ connChannel \in [Conns -> Channels \cup {NULL}]
    /\ chanState \in [Channels -> ObjectStates]
    /\ chanConn \in [Channels -> Conns \cup {NULL}]
    /\ chanSessions \in [Channels -> SUBSET Sessions]
    /\ token \in [Channels -> Nat]
    /\ tokenLife \in [Channels -> -1..MaxChannelLifetime]
    /\ nextToken \in [Channels -> Nat]
    /\ nextLife \in [Channels -> -1..MaxChannelLifetime]
    /\ channelCount \in Int
    /\ lastToken \in Nat \ {0}
    /\ sessState \in [Sessions -> ObjectStates]
    /\ sessChannel \in [Sessions -> Channels \cup {NULL, StackChannel}]
    /\ activated \in [Sessions -> BOOLEAN]
    /\ sessTimeout \in [Sessions -> 0..MaxSessionLifetime]
    /\ sessLife \in [Sessions -> -1..MaxSessionLifetime]
    /\ sessionCount \in Int

(* The sessions listed in a channel are in the session manager's list and  *)
(* point back to that channel, so that invoke_service never works on a     *)
(* session that removeSession or the cleanup has freed.                    *)
ListedSessionsPointBack ==
    \A h \in Channels : \A s \in chanSessions[h] :
       h \in LiveChannels /\ s \in LiveSessions /\ sessChannel[s] = h

(* A session that has a channel is listed in it and that channel is still  *)
(* in the channel manager's list: the detachSession of a later activation  *)
(* or removal works on a channel that exists.                              *)
AttachedSessionsAreListed ==
    \A s \in Sessions : sessChannel[s] # NULL =>
       /\ sessChannel[s] \in LiveChannels
       /\ s \in chanSessions[sessChannel[s]]

(* The channel a connection has exists and has that connection.            *)
ConnectionHasItsChannel ==
    \A c \in Conns : connChannel[c] # NULL =>
       /\ c \in Mapped
       /\ connChannel[c] \in LiveChannels
       /\ chanConn[connChannel[c]] = c

(* The connection of a channel exists and has that channel: no channel     *)
(* keeps a pointer to a freed connection, and no two share a connection.   *)
ChannelHasItsConnection ==
    \A h \in Channels : chanConn[h] # NULL =>
       /\ h \in LiveChannels
       /\ chanConn[h] \in Mapped
       /\ connChannel[chanConn[h]] = h

(* A session that is attached to a channel has been activated: the         *)
(* BADSESSIONNOTACTIVATED branch of invoke_service is never taken.         *)
AttachedSessionsAreActive ==
    \A s \in Sessions : sessChannel[s] # NULL => activated[s]

(* Requests are processed only on a connection whose socket the server has *)
(* not shut.                                                               *)
EstablishedIsOpen ==
    \A c \in Conns : connState[c] \in {"OPENING", "ESTABLISHED"} => socket[c] \in {"open", "eof"}

(* All of these: whichever of two objects is freed first, no pointer of    *)
(* the other is left, and what has a pointer may be used through it        *)
(* (UA_SecureChannel_deleteMembersCleanup, UA_Connection_detachSecureChan- *)
(* nel, UA_Session_detachSecureChannel).                                   *)
LinksAreMutual ==
    /\ AttachedSessionsAreListed
    /\ ChannelHasItsConnection
    /\ AttachedSessionsAreActive
    /\ EstablishedIsOpen

(* The managers' counters are the lengths of their lists, within bounds:   *)
(* no sequence of failures, cleanups and closings leaks a place.           *)
CountsMatch ==
    /\ channelCount = Cardinality(LiveChannels) /\ channelCount <= MaxChannelCount
    /\ sessionCount = Cardinality(LiveSessions) /\ sessionCount <= MaxSessionCount

(* No two channels, and no channel twice, have the same token, and none is *)
(* handed out before it is counted: a request under a token of another     *)
(* channel is always recognised.                                           *)
TokensOf(h) == {token[h], nextToken[h]} \ {0}

TokensAreUnique ==
    /\ \A h \in LiveChannels : token[h] # 0 /\ token[h] # nextToken[h]
    /\ \A h \in Channels : \A t \in TokensOf(h) : h \in LiveChannels /\ t < lastToken
    /\ \A g, h \in Channels : g # h => TokensOf(g) \cap TokensOf(h) = {}

(* A next token that has been handed out is replaced by no later RENEW: it *)
(* stays the next one until it comes into force or its channel ends.  The  *)
(* channel may end although it was renewed in time: the cleanup looks at   *)
(* the token in force alone, against its comment.                          *)
IssuedTokenIsNotReplaced ==
    [][\A h \in LiveChannels : nextToken[h] # 0 =>
          \/ nextToken'[h] = nextToken[h]
          \/ token'[h] = nextToken[h]
          \/ chanState'[h] = "freed"]_vars

(* A session that has timed out may be used until the cleanup finds it,    *)
(* but it is never moved to another channel.                               *)
TimedOutSessionIsNotMoved ==
    [][\A s \in LiveSessions : sessLife[s] < 0 => sessChannel'[s] \in {sessChannel[s], NULL}]_vars

(* A channel whose token is still valid and that has a connection ends for *)
(* a reason of its own client, and every other channel stays, with its     *)
(* connection: no CLO or wrong token of one client reaches another's.  Its  *)
(* own client loses the connection too, against the comment in processMSG. *)
OthersAreLeftAlone ==
    [][\A g, h \in LiveChannels :
          g # h /\ chanState'[h] = "freed" /\ tokenLife[h] >= 0 /\ chanConn[h] # NULL =>
             chanState'[g] = "live" /\ chanConn'[g] = chanConn[g]]_vars

(* No handler, cleanup or failure changes tokens, sessions and channels    *)
(* otherwise (UA_SecureChannelManager_renew, Service_ActivateSession,       *)
(* UA_SecureChannelManager_close and _cleanupTimedOut).                    *)
ChangesAreInStep ==
    /\ IssuedTokenIsNotReplaced
    /\ TimedOutSessionIsNotMoved
    /\ OthersAreLeftAlone

(* A connection that the server or the peer has closed is eventually       *)
(* removed from the mapping and freed, unless a failed send has left a     *)
(* closed descriptor in the mapping, after which select() always fails.    *)
ClosedConnectionIsFreed ==
    \A c \in Conns :
       (c \in Mapped /\ (connState[c] = "CLOSED" \/ socket[c] = "eof"))
          ~> (connState[c] = "freed" \/ SelectFails)

(* The channel of a connection that is gone is eventually deleted, and its *)
(* place in the channel manager free again.                                *)
OrphanedChannelIsDeleted ==
    \A h \in Channels :
       (chanState[h] = "live" /\ chanConn[h] = NULL) ~> (chanState[h] = "freed")

(* A session whose channel was deleted is used again or eventually removed *)
(* once its lifetime is over.                                              *)
TimedOutSessionIsRemoved ==
    \A s \in Sessions :
       (sessState[s] = "live" /\ sessLife[s] < 0) ~> (sessState[s] = "freed" \/ sessLife[s] >= 0)

(* What clients leave behind in any order is freed by the main loop and by *)
(* UA_Server_cleanup.                                                      *)
LeftoversAreFreed ==
    ClosedConnectionIsFreed /\ OrphanedChannelIsDeleted /\ TimedOutSessionIsRemoved
=============================================================================
