------------------------------- MODULE Client -------------------------------
(***************************************************************************)
(* A client and the connection it has to a server: connecting in five      *)
(* steps, calling services, renewing the secure channel, disconnecting,    *)
(* starting over after an error.  The client waits for one answer at a     *)
(* time, with a timeout, and takes whatever one recv returns for it: the   *)
(* answer, a late answer to an earlier request, part of an answer, or      *)
(* several at once.  The server is modelled as far as this client can tell *)
(* its behaviour (SecureChannels has all of it): the tokens of the channel *)
(* and whether there is a session.                                         *)
(***************************************************************************)
EXTENDS Naturals, Sequences, FiniteSets

CONSTANTS
    Lifetime,           \* of a token, in ticks (secureChannelLifeTime)
    RenewBefore,        \* ticks before its end (timeToRenewSecureChannel)
    MaxRequests,        \* bounds the request ids used on a connection
    MaxTokens           \* bounds the tokens of a channel

ASSUME LifetimeAssumption == /\ Lifetime \in Nat /\ RenewBefore \in Nat
                             /\ MaxRequests \in Nat /\ MaxTokens \in Nat \ {0}

VARIABLES
    client,     \* UA_Client and where its functions are
    server,     \* what the server keeps for the connection
    up, down,   \* bytes on their way to the server and to the client
    result      \* history: what the last call reported, how often it was executed

vars == <<client, server, up, down, result>>

(* The steps of UA_Client_connect; a call; CloseSession; CloseSecureChannel *)
Handshake == <<"HEL", "OPN", "GetEndpoints", "CreateSession", "ActivateSession">>
Services == {"GetEndpoints", "CreateSession", "ActivateSession", "Call", "CloseSession"}
Steps == {"HEL", "OPN", "CLO"} \union Services

(***************************************************************************)
(* task is the function the application called, step the request it is at, *)
(* pc whether that is to be sent or answered, renew whether the channel    *)
(* was renewed before it.  What comes after cleaning up is in then.        *)
(***************************************************************************)
Fresh == [state |-> "READY", conn |-> "closed", sock |-> "none", close |-> TRUE,
          token |-> 0, expires |-> 0, requestId |-> 0,
          task |-> "none", step |-> "HEL", pc |-> "idle", renew |-> "no", then |-> "return",
          strayed |-> FALSE]
NoServer == [open |-> FALSE, token |-> 0, next |-> 0, left |-> 0, nextLeft |-> 0,
             session |-> "none", renewed |-> FALSE, cut |-> FALSE]
NoResult == [status |-> "none", done |-> 0]

Init ==
    /\ client = Fresh
    /\ server = NoServer
    /\ up = <<>> /\ down = <<>>
    /\ result = NoResult

-----------------------------------------------------------------------------
At(c, task, step) == [c EXCEPT !.task = task, !.step = step, !.pc = "send", !.renew = "no"]
Idle(c) == [c EXCEPT !.task = "none", !.pc = "idle", !.renew = "no"]
Errored(c) == [c EXCEPT !.state = "ERRORED"]

(***************************************************************************)
(* UA_Client_deleteMembers and UA_Client_init: a session is closed on an   *)
(* established connection first, then the channel's end closes the socket, *)
(* unless there is no function to close it with.  The descriptor of the    *)
(* old socket stays in sock until the next one is opened.                  *)
(***************************************************************************)
WithSocketLeftOpen(c) == c
WithClosedSocket(c) ==
    [c EXCEPT !.sock = IF c.close /\ c.conn # "closed" THEN "closed" ELSE @]
Initialised(c) ==
    [Fresh EXCEPT !.sock = WithClosedSocket(c).sock, !.close = c.close,
                  !.state = IF c.then = "delete" THEN "deleted" ELSE "READY"]
Cleaned(c) == IF c.then = "connect" THEN At(Initialised(c), "connect", "HEL")
              ELSE Idle(Initialised(c))
CleanUp(c, then) ==
    LET d == [c EXCEPT !.then = then]
    IN IF c.conn = "established" THEN At(d, "clean", "CloseSession") ELSE Cleaned(d)

(* What a failed step does to the function it is part of.                  *)
Failed(c) ==
    CASE c.task = "connect" -> CleanUp(Errored(c), "return")
      [] c.task = "clean" -> Cleaned(c)
      [] c.task \in {"call", "renew", "disconnect"} -> Idle(c)

(* What a step that succeeded does, before the next one.                   *)
NextStep(step) == Handshake[1 + CHOOSE i \in 1..4 : Handshake[i] = step]
Succeeded(c) ==
    CASE c.task = "connect" /\ c.step # "ActivateSession" -> At(c, "connect", NextStep(c.step))
      [] c.task = "connect" /\ c.step = "ActivateSession" ->
             Idle([c EXCEPT !.conn = "established", !.state = "CONNECTED"])
      [] c.task \in {"clean", "disconnect"} -> At(c, c.task, "CLO")
      [] c.task \in {"call", "renew"} -> Idle(c)

(* Errors of a service mark the client; those of the other steps do not.   *)
IsService(c) == c.step \in Services
ServiceFailed(c) == Failed(IF IsService(c) THEN Errored(c) ELSE c)

-----------------------------------------------------------------------------
(* The application calls a function of the client.                         *)
UA_Client_connect ==
    /\ client.task = "none"
    /\ CASE client.state = "CONNECTED" -> UNCHANGED client
         [] client.state = "ERRORED" -> client' = CleanUp(client, "connect")
         [] client.state = "READY" -> client' = At(client, "connect", "HEL")
         [] client.state = "deleted" -> FALSE
    /\ client.state # "CONNECTED"
    /\ result' = [result EXCEPT !.status = "none"]
    /\ UNCHANGED <<server, up, down>>

(* Also a call on a client that is not connected, or was disconnected.      *)
(* What is on its way then is late: it belongs to an earlier function.     *)
Late(s) == [i \in 1..Len(s) |-> [s[i] EXCEPT !.late = TRUE]]
Invoke(task, step) ==
    /\ client.task = "none" /\ client.state \notin {"READY", "deleted"}
    /\ client.requestId < MaxRequests
    /\ client' = At(client, task, step)
    /\ result' = NoResult
    /\ up' = Late(up) /\ down' = Late(down)
    /\ UNCHANGED server
Call == Invoke("call", "Call")
UA_Client_manuallyRenewSecureChannel ==
    client.expires <= RenewBefore /\ Invoke("renew", "OPN")
UA_Client_disconnect == client.conn = "established" /\ Invoke("disconnect", "CloseSession")

UA_Client_reset(then) ==
    /\ client.task = "none" /\ client.state \notin {"READY", "deleted"}
    /\ client' = CleanUp(client, then)
    /\ result' = [result EXCEPT !.status = "none"]
    /\ UNCHANGED <<server, up, down>>

UA_Client_new ==
    /\ client.state = "deleted"
    /\ client' = [Fresh EXCEPT !.sock = client.sock, !.close = client.close]
    /\ UNCHANGED <<server, up, down, result>>

-----------------------------------------------------------------------------
(***************************************************************************)
(* ClientNetworkLayerTCP_connect.  Without an address for the host name    *)
(* the socket is already there, and the functions are not.                 *)
(***************************************************************************)
Opening == client.task = "connect" /\ client.step = "HEL" /\ client.pc = "send"

Unresolved ==
    /\ Opening /\ client.conn = "closed"
    /\ client' = Failed([client EXCEPT !.sock = "open", !.close = FALSE])
    /\ UNCHANGED <<server, up, down, result>>

Refused ==
    /\ Opening /\ client.conn = "closed"
    /\ client' = Failed([client EXCEPT !.sock = "closed", !.close = TRUE])
    /\ UNCHANGED <<server, up, down, result>>

Accepted ==
    /\ Opening /\ client.conn = "closed"
    /\ client' = [client EXCEPT !.sock = "open", !.close = TRUE, !.conn = "opening"]
    /\ server' = [NoServer EXCEPT !.open = TRUE]
    /\ up' = <<>> /\ down' = <<>>
    /\ UNCHANGED result

(***************************************************************************)
(* A step sends its request; a service renews the channel first, when its  *)
(* token ends soon.  Requests on a connection that the other side closed   *)
(* are lost, or the send fails and closes the connection.                  *)
(***************************************************************************)
MustRenew(c) == IsService(c) /\ c.renew = "no" /\ c.expires <= RenewBefore
NextId(c) == IF c.step = "HEL" THEN 0 ELSE c.requestId + 1
Request(c) == [kind |-> IF MustRenew(c) THEN "OPN" ELSE c.step, id |-> NextId(c),
               token |-> c.token, renew |-> MustRenew(c) \/ c.task = "renew", late |-> FALSE]
Waiting(c) == [c EXCEPT !.pc = IF c.step = "CLO" THEN "idle" ELSE "wait", !.requestId = NextId(c),
                        !.renew = IF MustRenew(c) THEN "asked" ELSE @]
(* After CloseSecureChannel nothing is waited for.                         *)
Sent(c) == CASE c.step = "CLO" /\ c.task = "clean" -> Cleaned(Waiting(c))
             [] c.step = "CLO" /\ c.task # "clean" -> Idle(Waiting(c))
             [] OTHER -> Waiting(c)

Ready == client.pc = "send" /\ (client.step = "HEL" => client.conn = "opening")

Send ==
    /\ Ready /\ client.sock = "open"
    /\ client' = Sent(client)
    /\ up' = IF server.open THEN Append(up, Request(client)) ELSE up
    /\ UNCHANGED <<server, down, result>>

SendFails ==
    /\ Ready /\ (client.sock # "open" \/ ~server.open)
    /\ client' = ServiceFailed([client EXCEPT !.sock = "closed", !.conn = "closed"])
    /\ UNCHANGED <<server, up, down, result>>

-----------------------------------------------------------------------------
(***************************************************************************)
(* An answer is awaited.  Other than for services nobody looks at its id.  *)
(***************************************************************************)
Awaits == client.pc = "wait" /\ client.sock = "open"
AwaitsOPN(c) == c.renew = "asked" \/ c.step = "OPN"
IsAnswerOfKind(c, m) == m.kind = IF AwaitsOPN(c) THEN "OPN" ELSE c.step
IsAnswer(c, m) ==
    IF AwaitsOPN(c) THEN m.kind = "OPN"
    ELSE m.kind = c.step /\ (IsService(c) => m.id = c.requestId)
(* The new token of a renewal is not taken; the time of the next one is.   *)
TakesToken(c, m) ==
    [c EXCEPT !.token = IF m.ok /\ c.step = "OPN" /\ c.task = "connect" THEN m.token ELSE @,
              !.expires = IF m.ok THEN Lifetime ELSE 0]
HelAckHandshake(c) == [c EXCEPT !.conn = "established"]
Answered(c, m) ==
    CASE AwaitsOPN(c) /\ m.ok /\ c.renew = "asked" ->
             [TakesToken(c, m) EXCEPT !.renew = "done", !.pc = "send"]
      [] AwaitsOPN(c) /\ m.ok /\ c.renew # "asked" -> Succeeded(TakesToken(c, m))
      [] AwaitsOPN(c) /\ ~m.ok -> ServiceFailed(TakesToken(c, m))
      [] ~AwaitsOPN(c) /\ ~m.ok -> Failed(c)
      [] ~AwaitsOPN(c) /\ m.ok /\ c.step = "HEL" -> Succeeded(HelAckHandshake(c))
      [] OTHER -> Succeeded(c)

Strays(c, d) == IF c.task = "renew" THEN [d EXCEPT !.strayed = TRUE] ELSE d
(* A wrong answer fails the call, and leaves the client connected, unless  *)
(* it came in place of a renewal.                                          *)
Mistaken(c) == IF AwaitsOPN(c) THEN Strays(c, ServiceFailed(c)) ELSE Failed(c)
(* The call gives up: an error or a timeout.                               *)
GivesUpUnmarked(c) == Failed(c)
GivesUp(c) == Strays(c, ServiceFailed(c))

ReturnsWith(m) ==
    IF client.task = "call" /\ client'.task = "none"
    THEN result' = [result EXCEPT !.status = IF m.ok /\ IsAnswer(client, m) THEN "Good" ELSE "Bad"]
    ELSE UNCHANGED result
NoMessage == [kind |-> "rest", id |-> 0, ok |-> FALSE, token |-> 0, late |-> TRUE]

(* One recv returns the first message, and with it those that have come.   *)
Receive(joined) ==
    /\ Awaits /\ joined \in 1..Len(down)
    /\ down' = SubSeq(down, joined + 1, Len(down))
    /\ LET m == Head(down)
       IN /\ IF IsAnswer(client, m) THEN client' = Answered(client, m)
             ELSE \/ client' = Mistaken(client)
                  \/ m.kind = "rest" /\ client' = GivesUp(client)
          /\ ReturnsWith(m)
    /\ UNCHANGED <<server, up>>

(* It returns the first part of a message; the rest is left.               *)
ReceivePart ==
    /\ Awaits /\ down # <<>> /\ Head(down).kind # "rest"
    /\ down' = <<NoMessage>> \o Tail(down)
    /\ client' = GivesUp(client)
    /\ ReturnsWith(NoMessage)
    /\ UNCHANGED <<server, up>>

TimesOutForEver == FALSE /\ UNCHANGED vars
TimesOut ==
    /\ Awaits /\ down = <<>> /\ server.open
    /\ client' = GivesUp(client)
    /\ ReturnsWith(NoMessage)
    /\ UNCHANGED <<server, up, down>>

(* The server has closed the connection, or the client its own socket.     *)
FindsItClosed ==
    /\ client.pc = "wait" /\ down = <<>> /\ (client.sock = "open" => ~server.open)
    /\ client' = GivesUp([client EXCEPT !.sock = "closed", !.conn = "closed"])
    /\ ReturnsWith(NoMessage)
    /\ UNCHANGED <<server, up, down>>

-----------------------------------------------------------------------------
(***************************************************************************)
(* The server handles the next message.  A token that is neither the one   *)
(* in force nor the next one ends the channel with the connection; so does *)
(* an OPN for which there is no channel.  A session may be refused.        *)
(***************************************************************************)
Answer(m, ok, token) ==
    [kind |-> m.kind, id |-> m.id, ok |-> ok, token |-> token, late |-> m.late]
Revolved(s) == IF s.next = 0 THEN s
               ELSE [s EXCEPT !.token = s.next, !.left = s.nextLeft, !.next = 0, !.nextLeft = 0]
WithNextToken(s) == IF s.next # 0 THEN s
                    ELSE [s EXCEPT !.next = s.token + 1, !.nextLeft = Lifetime, !.renewed = TRUE]
Closed(s) == [NoServer EXCEPT !.renewed = s.renewed, !.cut = s.cut]

(* The session in which the request is handled, on the connection s, and   *)
(* whether it is: free is whether the server has room for another session. *)
IsDone(s, m, free) ==
    CASE m.kind = "CreateSession" -> free
      [] m.kind = "ActivateSession" -> s.session # "none"
      [] m.kind \in {"Call", "CloseSession"} -> s.session = "active"
      [] OTHER -> TRUE
WithSession(s, m, ok) ==
    [s EXCEPT !.session = CASE m.kind = "CreateSession" /\ ok -> "created"
                            [] m.kind = "ActivateSession" /\ ok -> "active"
                            [] m.kind = "CloseSession" /\ ok -> "none"
                            [] OTHER -> @]
(* A call is counted when it is executed, if it is the last one made.       *)
Counted(m, ok) ==
    result' = IF m.kind = "Call" /\ ok /\ ~m.late THEN [result EXCEPT !.done = @ + 1] ELSE result

Handles(m) ==
    CASE m.kind = "HEL" -> /\ down' = Append(down, Answer(m, TRUE, 0))
                           /\ UNCHANGED <<server, result>>
      [] m.kind = "OPN" /\ ~m.renew ->
             /\ \/ /\ server' = [server EXCEPT !.token = 1, !.left = Lifetime]
                   /\ down' = Append(down, Answer(m, TRUE, 1))
                \/ server' = Closed(server) /\ UNCHANGED down
             /\ UNCHANGED result
      [] m.kind = "OPN" /\ m.renew /\ server.token = 0 ->
             server' = Closed(server) /\ UNCHANGED <<down, result>>
      [] m.kind = "OPN" /\ m.renew /\ server.token # 0 ->
             LET s == WithNextToken(server)
             IN /\ server' = s /\ s.next <= MaxTokens
                /\ down' = Append(down, Answer(m, TRUE, s.next))
                /\ UNCHANGED result
      [] m.kind = "CLO" -> server' = Closed(server) /\ UNCHANGED <<down, result>>
      [] m.kind \in Services /\ m.token = 0 -> UNCHANGED <<server, down, result>>
      [] m.kind \in Services /\ m.token # 0 /\ server.token # 0
             /\ m.token \notin {server.token, server.next} ->
             server' = Closed([server EXCEPT !.cut = TRUE]) /\ UNCHANGED <<down, result>>
      [] OTHER ->
             LET s == IF m.token = server.token THEN server ELSE Revolved(server)
             IN \E free \in BOOLEAN :
                  LET ok == IsDone(s, m, free)
                  IN /\ server' = WithSession(s, m, ok)
                     /\ down' = Append(down, Answer(m, ok, 0))
                     /\ Counted(m, ok)

ServerHandles ==
    /\ server.open /\ up # <<>>
    /\ up' = Tail(up)
    /\ Handles(Head(up))
    /\ UNCHANGED client

(* UA_SecureChannelManager_cleanupTimedOut                                 *)
Cleanup ==
    /\ server.open /\ server.token # 0
    /\ IF server.left = 0 THEN server' = Closed(server) /\ up' = <<>>
       ELSE server.next # 0 /\ server' = Revolved(server) /\ UNCHANGED up
    /\ UNCHANGED <<client, down, result>>

(* The connection breaks, or the server stops.                             *)
Break ==
    /\ server.open
    /\ server' = Closed(server)
    /\ up' = <<>>
    /\ \E n \in 0..Len(down) : down' = SubSeq(down, 1, n)
    /\ UNCHANGED <<client, result>>

Less(n) == IF n = 0 THEN 0 ELSE n - 1
Tick ==
    /\ client.expires > 0
    /\ client' = [client EXCEPT !.expires = Less(@)]
    /\ server' = [server EXCEPT !.left = Less(@), !.nextLeft = Less(@)]
    /\ UNCHANGED <<up, down, result>>

ClientSteps ==
    \/ Unresolved \/ Refused \/ Accepted
    \/ Send \/ SendFails
    \/ \E joined \in 1..(MaxRequests + 1) : Receive(joined)
    \/ ReceivePart \/ TimesOut \/ FindsItClosed

Next ==
    \/ UA_Client_connect \/ Call \/ UA_Client_manuallyRenewSecureChannel
    \/ UA_Client_disconnect \/ UA_Client_new
    \/ \E then \in {"return", "delete"} : UA_Client_reset(then)
    \/ ClientSteps
    \/ ServerHandles \/ Cleanup \/ Break \/ Tick

Spec == Init /\ [][Next]_vars
(* A function of the client runs in the thread that called it, and recv    *)
(* has a timeout.  The server, the network and the application owe nothing. *)
FairSpec == Spec /\ WF_vars(ClientSteps)
-----------------------------------------------------------------------------
Tasks == {"none", "connect", "clean", "call", "renew", "disconnect"}
Clients ==
    [state : {"READY", "CONNECTED", "ERRORED", "deleted"},
     conn : {"closed", "opening", "established"},
     sock : {"none", "open", "closed"}, close : BOOLEAN,
     token : 0..MaxTokens, expires : 0..Lifetime, requestId : Nat,
     task : Tasks, step : Steps, pc : {"idle", "send", "wait"}, renew : {"no", "asked", "done"},
     then : {"return", "delete", "connect"}, strayed : BOOLEAN]
Servers ==
    [open : BOOLEAN, token : 0..MaxTokens, next : 0..MaxTokens,
     left : 0..Lifetime, nextLeft : 0..Lifetime,
     session : {"none", "created", "active"}, renewed : BOOLEAN, cut : BOOLEAN]
Requests == [kind : Steps, id : Nat, token : 0..MaxTokens, renew : BOOLEAN, late : BOOLEAN]
Message == [kind : Steps \union {"rest"}, id : Nat, ok : BOOLEAN, token : 0..MaxTokens,
            late : BOOLEAN]
(* Type correctness; the next token of a channel is newer than the one in  *)
(* force, and only open connections have tokens.                            *)
TypeOK ==
    /\ client \in Clients
    /\ server \in Servers
    /\ server.next # 0 => server.next > server.token
    /\ server.token # 0 => server.open
    /\ up \in Seq(Requests) /\ down \in Seq(Message)
    /\ result \in [status : {"none", "Good", "Bad"}, done : Nat]

(* A call is executed at most once, and one that reports success has been  *)
(* executed, in an active session and since it was made: no answer to a call *)
(* that was given up on, and no answer of an earlier connection on which    *)
(* the same ids were used, is taken for it; and a call is not sent again    *)
(* when the channel is renewed before it (__UA_Client_Service).             *)
CallsAreDoneOnce ==
    /\ result.done <= 1
    /\ result.status = "Good" => result.done = 1

(* As long as a client says it is connected, nothing of an earlier call is *)
(* on its way in either direction that a later call could take for its own  *)
(* answer: whoever gives up on an answer marks the client.  A renewal asked *)
(* for by hand that is given up is the exception, it does not mark it.      *)
(* The server cuts a client off because of its token only after a renewal,  *)
(* which leaves the client with the old one.                                *)
ConnectedIsInStep ==
    /\ client.state = "CONNECTED" /\ client.task = "none" =>
        \/ client.strayed
        \/ down = <<>> /\ \A i \in 1..Len(up) : up[i].kind = "CLO"
    /\ server.cut => server.renewed

(* A client that is ready to connect has closed the socket of its earlier  *)
(* connection, unless connecting failed before there was a function to do   *)
(* it with (UA_Client_deleteMembers, ClientNetworkLayerTCP_connect).        *)
SocketsAreClosed ==
    /\ TypeOK
    /\ client.state \in {"READY", "deleted"} /\ client.task = "none" =>
        client.sock # "open" \/ ~client.close

(* Every function of the client returns, whatever the server and the       *)
(* network do: no answer is waited for without a timeout (socket_recv).     *)
EveryCallReturns == client.task # "none" ~> client.task = "none"
=============================================================================
