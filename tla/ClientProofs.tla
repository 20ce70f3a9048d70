---------------------------- MODULE ClientProofs ----------------------------
(***************************************************************************)
(* Proofs about a client and its connection, for any lifetime of a token   *)
(* and any number of requests: types, that a call that reports success was *)
(* executed once, that a client that says it is connected is in step with  *)
(* the server, and that sockets are closed.                                *)
(***************************************************************************)
EXTENDS Client, TLAPS, SequenceTheorems

-----------------------------------------------------------------------------
(* Where the functions of the client can be                                *)

HandshakeSteps == {"HEL", "OPN", "GetEndpoints", "CreateSession", "ActivateSession"}

(* Each function has its steps and the states of the client it runs in.    *)
TaskOK(c) ==
    /\ c.pc = "idle" <=> c.task = "none"
    /\ c.task = "connect" => c.state = "READY" /\ c.step \in HandshakeSteps
    /\ c.task = "call" => c.step = "Call"
    /\ c.task = "renew" => c.step = "OPN"
    /\ c.task \in {"clean", "disconnect"} => c.step \in {"CloseSession", "CLO"}
    /\ c.task \in {"clean", "call", "renew", "disconnect"} => c.state \in {"CONNECTED", "ERRORED"}
    /\ c.state = "deleted" => c.task = "none"
    /\ c.pc = "wait" => c.step # "CLO"
    /\ c.renew = "asked" => c.pc = "wait"
    /\ c.task = "connect" /\ c.conn = "closed" => c.step = "HEL" /\ c.pc = "send"

(* A client that has nothing to close has neither a connection nor the     *)
(* token of an earlier one, and no socket that it could close.             *)
FreshOK(c) ==
    /\ c.task = "none" /\ c.state \in {"READY", "deleted"} => c.conn = "closed" /\ c.token = 0
    /\ c.task = "connect" /\ c.step = "HEL" => c.token = 0
SocketOK(c) == c.close /\ c.conn = "closed" => c.sock # "open"

ClientOK(c) == c \in Clients /\ TaskOK(c) /\ FreshOK(c) /\ SocketOK(c)

(* A client that is connected or connecting, and has not given up.         *)
Active(c) == \/ c.state = "CONNECTED" /\ c.task # "clean"
             \/ c.task = "connect" /\ c.conn # "closed"

-----------------------------------------------------------------------------
(* What the building blocks of the client's steps do to its fields         *)

(* The client starts a step of a task.                                     *)
LEMMA AtFields ==
    ASSUME NEW c \in Clients, NEW task \in Tasks, NEW step \in Steps
    PROVE  LET d == At(c, task, step)
           IN  /\ d \in Clients
               /\ d.task = task /\ d.step = step /\ d.pc = "send" /\ d.renew = "no"
               /\ d.state = c.state /\ d.conn = c.conn /\ d.sock = c.sock /\ d.close = c.close
               /\ d.token = c.token /\ d.requestId = c.requestId /\ d.then = c.then
               /\ d.strayed = c.strayed /\ d.expires = c.expires
BY DEF At, Clients

(* The function that was called returns.                                   *)
LEMMA IdleFields ==
    ASSUME NEW c \in Clients
    PROVE  LET d == Idle(c)
           IN  /\ d \in Clients
               /\ d.task = "none" /\ d.pc = "idle" /\ d.renew = "no"
               /\ d.step = c.step /\ d.state = c.state /\ d.conn = c.conn /\ d.sock = c.sock
               /\ d.close = c.close /\ d.token = c.token /\ d.requestId = c.requestId
               /\ d.then = c.then /\ d.strayed = c.strayed /\ d.expires = c.expires
BY DEF Idle, Clients, Tasks

(* An error marks the client and changes nothing else.                     *)
LEMMA ErroredFields ==
    ASSUME NEW c \in Clients
    PROVE  LET d == Errored(c)
           IN  /\ d \in Clients
               /\ d.state = "ERRORED"
               /\ d.task = c.task /\ d.pc = c.pc /\ d.renew = c.renew
               /\ d.step = c.step /\ d.conn = c.conn /\ d.sock = c.sock
               /\ d.close = c.close /\ d.token = c.token /\ d.requestId = c.requestId
               /\ d.then = c.then /\ d.strayed = c.strayed /\ d.expires = c.expires
BY DEF Errored, Clients

(* A new client has its type.                                              *)
LEMMA FreshIs == Fresh \in Clients
BY LifetimeAssumption DEF Fresh, Clients, Tasks, Steps

(* Cleaning up closes the socket if it can be, and keeps nothing else.     *)
LEMMA InitialisedFields ==
    ASSUME NEW c \in Clients
    PROVE  LET d == Initialised(c)
           IN  /\ d \in Clients
               /\ d.state \in {"READY", "deleted"} /\ (c.then # "delete" => d.state = "READY")
               /\ d.conn = "closed" /\ d.token = 0 /\ d.close = c.close
               /\ d.sock = IF c.close /\ c.conn # "closed" THEN "closed" ELSE c.sock
               /\ d.step = "HEL" /\ d.task = "none" /\ d.pc = "idle" /\ d.renew = "no"
               /\ ~d.strayed
<1>1. WithClosedSocket(c).sock = IF c.close /\ c.conn # "closed" THEN "closed" ELSE c.sock
  BY DEF WithClosedSocket, Clients
<1>2. WithClosedSocket(c).sock \in {"none", "open", "closed"}
  BY <1>1 DEF Clients
<1> DEFINE state == IF c.then = "delete" THEN "deleted" ELSE "READY"
           d == [Fresh EXCEPT !.sock = WithClosedSocket(c).sock, !.close = c.close, !.state = state]
<1>3. Initialised(c) = d
  BY DEF Initialised
<1>4. state \in {"READY", "deleted"} /\ c.close \in BOOLEAN
  BY DEF Clients
<1>5. d \in Clients
  BY <1>2, <1>4, FreshIs DEF Clients
<1>6. /\ d.state = state /\ d.close = c.close /\ d.sock = WithClosedSocket(c).sock
      /\ d.conn = "closed" /\ d.token = 0 /\ d.step = "HEL" /\ d.task = "none" /\ d.pc = "idle"
      /\ d.renew = "no" /\ d.strayed = FALSE
  BY DEF Fresh
<1> HIDE DEF d
<1> QED
  BY <1>1, <1>3, <1>5, <1>6

(* What a cleaned client is: not connected, with or without connecting     *)
(* again.                                                                  *)
LEMMA CleanedOK ==
    ASSUME NEW c \in Clients, SocketOK(c)
    PROVE  LET d == Cleaned(c) IN ClientOK(d) /\ ~Active(d) /\ d.token = 0 /\ d.pc # "wait"
<1> DEFINE i == Initialised(c)
<1>1. /\ i \in Clients
      /\ i.state \in {"READY", "deleted"} /\ (c.then # "delete" => i.state = "READY")
      /\ i.conn = "closed" /\ i.token = 0 /\ SocketOK(i)
  BY InitialisedFields DEF SocketOK, Clients
<1> HIDE DEF i
<1>2. CASE c.then = "connect"
  <2> DEFINE d == At(i, "connect", "HEL")
  <2>1. /\ d \in Clients /\ d.task = "connect" /\ d.step = "HEL" /\ d.pc = "send"
        /\ d.renew = "no" /\ d.state = i.state /\ d.conn = i.conn /\ d.sock = i.sock
        /\ d.close = i.close /\ d.token = i.token
    <3>1. "connect" \in Tasks /\ "HEL" \in Steps
      BY DEF Tasks, Steps
    <3> QED
      BY <1>1, <3>1, AtFields
  <2>2. Cleaned(c) = d
    BY <1>2 DEF Cleaned, i
  <2> HIDE DEF d
  <2> QED
    BY <1>1, <1>2, <2>1, <2>2 DEF ClientOK, TaskOK, FreshOK, SocketOK, Active, HandshakeSteps
<1>3. CASE c.then # "connect"
  <2> DEFINE d == Idle(i)
  <2>1. /\ d \in Clients /\ d.task = "none" /\ d.pc = "idle" /\ d.renew = "no"
        /\ d.state = i.state /\ d.conn = i.conn /\ d.sock = i.sock
        /\ d.close = i.close /\ d.token = i.token
    BY <1>1, IdleFields
  <2>2. Cleaned(c) = d
    BY <1>3 DEF Cleaned, i
  <2> HIDE DEF d
  <2> QED
    BY <1>1, <2>1, <2>2 DEF ClientOK, TaskOK, FreshOK, SocketOK, Active
<1> QED
  BY <1>2, <1>3

(* Cleaning up starts with closing the session where there is a connection.*)
LEMMA CleanUpOK ==
    ASSUME NEW c \in Clients, SocketOK(c), c.state \in {"CONNECTED", "ERRORED"},
           NEW then \in {"return", "delete", "connect"}
    PROVE  LET d == CleanUp(c, then)
           IN  ClientOK(d) /\ ~Active(d) /\ d.token \in {0, c.token} /\ d.pc # "wait"
<1> DEFINE e == [c EXCEPT !.then = then]
<1>1. /\ e \in Clients /\ e.state = c.state /\ e.conn = c.conn /\ e.sock = c.sock
      /\ e.close = c.close /\ e.token = c.token
  BY DEF Clients
<1>2. SocketOK(e)
  BY <1>1 DEF SocketOK
<1>3. CleanUp(c, then) = IF c.conn = "established" THEN At(e, "clean", "CloseSession") ELSE Cleaned(e)
  BY DEF CleanUp
<1> HIDE DEF e
<1>4. CASE c.conn = "established"
  <2> DEFINE d == At(e, "clean", "CloseSession")
  <2>1. /\ d \in Clients /\ d.task = "clean" /\ d.step = "CloseSession" /\ d.pc = "send"
        /\ d.renew = "no" /\ d.state = e.state /\ d.conn = e.conn /\ d.sock = e.sock
        /\ d.close = e.close /\ d.token = e.token
    BY <1>1, AtFields DEF Tasks, Steps, Services
  <2>2. CleanUp(c, then) = d
    BY <1>3, <1>4
  <2> HIDE DEF d
  <2> QED
    BY <1>1, <1>2, <1>4, <2>1, <2>2 DEF ClientOK, TaskOK, FreshOK, SocketOK, Active
<1>5. CASE c.conn # "established"
  BY <1>1, <1>2, <1>3, <1>5, CleanedOK
<1> QED
  BY <1>4, <1>5

(* A step that failed ends the function, or goes on to clean up.           *)
LEMMA FailedOK ==
    ASSUME NEW c \in Clients, SocketOK(c), c.task # "none",
           c.task \in {"call", "renew", "disconnect"} => c.state \in {"CONNECTED", "ERRORED"}
    PROVE  LET d == Failed(c)
           IN  /\ ClientOK(d) /\ d.token \in {0, c.token} /\ d.pc # "wait"
               /\ Active(d) => /\ c.task \in {"call", "renew", "disconnect"}
                               /\ c.state = "CONNECTED" /\ d.strayed = c.strayed
               /\ c.task = "renew" => d = Idle(c)
<1>1. c.task \in {"connect", "clean", "call", "renew", "disconnect"}
  BY DEF Clients, Tasks
<1>2. CASE c.task = "connect"
  <2>1. /\ Errored(c) \in Clients /\ Errored(c).state = "ERRORED" /\ SocketOK(Errored(c))
        /\ Errored(c).token = c.token
    BY ErroredFields DEF SocketOK
  <2>2. Failed(c) = CleanUp(Errored(c), "return")
    BY <1>2 DEF Failed
  <2> QED
    BY <1>2, <2>1, <2>2, CleanUpOK
<1>3. CASE c.task = "clean"
  <2>1. Failed(c) = Cleaned(c)
    BY <1>3 DEF Failed
  <2> QED
    BY <1>3, <2>1, CleanedOK
<1>4. CASE c.task \in {"call", "renew", "disconnect"}
  <2> DEFINE d == Idle(c)
  <2>1. Failed(c) = d
    BY <1>4 DEF Failed
  <2>2. /\ d \in Clients /\ d.task = "none" /\ d.pc = "idle" /\ d.renew = "no"
        /\ d.state = c.state /\ d.conn = c.conn /\ d.sock = c.sock
        /\ d.close = c.close /\ d.token = c.token /\ d.strayed = c.strayed
    BY IdleFields
  <2> HIDE DEF d
  <2>3. ClientOK(d)
    BY <1>4, <2>2 DEF ClientOK, TaskOK, FreshOK, SocketOK
  <2> QED
    BY <1>4, <2>1, <2>2, <2>3 DEF Active, d
<1> QED
  BY <1>1, <1>2, <1>3, <1>4

(* The steps of connecting follow each other.                              *)
LEMMA NextStepIs ==
    /\ NextStep("HEL") = "OPN" /\ NextStep("OPN") = "GetEndpoints"
    /\ NextStep("GetEndpoints") = "CreateSession"
    /\ NextStep("CreateSession") = "ActivateSession"
<1>1. ASSUME NEW k \in 1..4 PROVE (CHOOSE i \in 1..4 : Handshake[i] = Handshake[k]) = k
  BY DEF Handshake
<1>2. /\ Handshake[1] = "HEL" /\ Handshake[2] = "OPN" /\ Handshake[3] = "GetEndpoints"
      /\ Handshake[4] = "CreateSession" /\ Handshake[5] = "ActivateSession"
  BY DEF Handshake
<1>3. \A k \in 1..4 : NextStep(Handshake[k]) = Handshake[1 + k]
  BY <1>1 DEF NextStep
<1> QED
  BY <1>2, <1>3

(* A step that succeeded goes on to the next one or ends the function.     *)
LEMMA SucceededOK ==
    ASSUME NEW c \in Clients, TaskOK(c), SocketOK(c), c.pc = "wait"
    PROVE  LET d == Succeeded(c)
           IN  /\ ClientOK(d) /\ d.token = c.token /\ d.pc # "wait"
               /\ Active(d) => Active(c) /\ d.strayed = c.strayed
<1>1. /\ c.task \in {"connect", "clean", "call", "renew", "disconnect"}
      /\ c.task = "connect" => c.step \in HandshakeSteps /\ c.state = "READY" /\ c.conn # "closed"
      /\ c.task # "connect" => c.state \in {"CONNECTED", "ERRORED"}
  BY DEF TaskOK, Clients, Tasks
<1>2. CASE c.task = "connect" /\ c.step # "ActivateSession"
  <2> DEFINE next == NextStep(c.step)
             d == At(c, "connect", next)
  <2>1. next \in HandshakeSteps /\ next # "HEL"
    BY <1>1, <1>2, NextStepIs DEF HandshakeSteps
  <2> HIDE DEF next
  <2>2. "connect" \in Tasks /\ next \in Steps
    BY <2>1 DEF Tasks, Steps, Services, HandshakeSteps
  <2>3. /\ d \in Clients /\ d.task = "connect" /\ d.step = next /\ d.pc = "send"
        /\ d.renew = "no" /\ d.state = c.state /\ d.conn = c.conn /\ d.sock = c.sock
        /\ d.close = c.close /\ d.token = c.token /\ d.strayed = c.strayed
    BY <2>2, AtFields
  <2>4. Succeeded(c) = d
    BY <1>2 DEF Succeeded, next
  <2> HIDE DEF d
  <2>5. TaskOK(d)
    BY <1>1, <1>2, <2>1, <2>3 DEF TaskOK
  <2>6. FreshOK(d) /\ SocketOK(d) /\ Active(c)
    BY <1>1, <1>2, <2>1, <2>3 DEF FreshOK, SocketOK, Active
  <2> QED
    BY <2>3, <2>4, <2>5, <2>6 DEF ClientOK
<1>3. CASE c.task = "connect" /\ c.step = "ActivateSession"
  <2> DEFINE e == [c EXCEPT !.conn = "established", !.state = "CONNECTED"]
             d == Idle(e)
  <2>1. /\ e \in Clients /\ e.conn = "established" /\ e.state = "CONNECTED"
        /\ e.token = c.token /\ e.strayed = c.strayed
    BY DEF Clients
  <2>2. Succeeded(c) = d
    BY <1>3 DEF Succeeded
  <2> HIDE DEF e
  <2>3. /\ d \in Clients /\ d.task = "none" /\ d.pc = "idle" /\ d.renew = "no"
        /\ d.state = e.state /\ d.conn = e.conn /\ d.token = e.token /\ d.strayed = e.strayed
    BY <2>1, IdleFields
  <2> HIDE DEF d
  <2>4. Active(c)
    BY <1>1, <1>3 DEF Active
  <2> QED
    BY <2>1, <2>2, <2>3, <2>4 DEF ClientOK, TaskOK, FreshOK, SocketOK
<1>4. CASE c.task \in {"clean", "disconnect"}
  <2> DEFINE d == At(c, c.task, "CLO")
  <2>1. c.task \in Tasks /\ "CLO" \in Steps
    BY <1>4 DEF Tasks, Steps
  <2>2. /\ d \in Clients /\ d.task = c.task /\ d.step = "CLO" /\ d.pc = "send"
        /\ d.renew = "no" /\ d.state = c.state /\ d.conn = c.conn /\ d.sock = c.sock
        /\ d.close = c.close /\ d.token = c.token /\ d.strayed = c.strayed
    BY <2>1, AtFields
  <2>3. Succeeded(c) = d
    BY <1>4 DEF Succeeded
  <2> HIDE DEF d
  <2>4. TaskOK(d)
    BY <1>1, <1>4, <2>2 DEF TaskOK
  <2> QED
    BY <1>1, <1>4, <2>2, <2>3, <2>4 DEF ClientOK, FreshOK, SocketOK, Active
<1>5. CASE c.task \in {"call", "renew"}
  <2> DEFINE d == Idle(c)
  <2>1. Succeeded(c) = d
    BY <1>5 DEF Succeeded
  <2>2. /\ d \in Clients /\ d.task = "none" /\ d.pc = "idle" /\ d.renew = "no"
        /\ d.state = c.state /\ d.conn = c.conn /\ d.sock = c.sock
        /\ d.close = c.close /\ d.token = c.token /\ d.strayed = c.strayed
    BY IdleFields
  <2> HIDE DEF d
  <2> QED
    BY <1>1, <1>5, <2>1, <2>2 DEF ClientOK, TaskOK, FreshOK, SocketOK, Active
<1> QED
  BY <1>1, <1>2, <1>3, <1>4, <1>5

(* A client that is in the middle of a function, possibly with a           *)
(* connection that was just closed.                                        *)
Working(c) ==
    /\ c \in Clients /\ SocketOK(c) /\ c.task # "none"
    /\ c.task = "call" => c.step = "Call"
    /\ c.task = "renew" => c.step = "OPN"
    /\ c.task = "disconnect" => c.step \in {"CloseSession", "CLO"}
    /\ c.task \in {"call", "renew", "disconnect"} => c.state \in {"CONNECTED", "ERRORED"}

(* A client keeps working when its connection has broken.                  *)
LEMMA WorkingIs ==
    ASSUME NEW c, ClientOK(c), c.task # "none"
    PROVE  /\ Working(c)
           /\ LET d == [c EXCEPT !.sock = "closed", !.conn = "closed"]
              IN  /\ Working(d) /\ d.task = c.task /\ d.step = c.step /\ d.state = c.state
                  /\ d.token = c.token /\ d.strayed = c.strayed
<1>1. Working(c) /\ c \in Clients
  BY DEF ClientOK, TaskOK, Working
<1> DEFINE d == [c EXCEPT !.sock = "closed", !.conn = "closed"]
<1>2. /\ d \in Clients /\ d.task = c.task /\ d.step = c.step /\ d.state = c.state
      /\ d.token = c.token /\ d.strayed = c.strayed /\ d.sock = "closed"
  BY <1>1 DEF Clients
<1> HIDE DEF d
<1>3. Working(d)
  BY <1>1, <1>2 DEF Working, SocketOK
<1> QED
  BY <1>1, <1>2, <1>3 DEF d

(* Where a step of the client leads: nothing is awaited any more, and it   *)
(* does not make up for having given up.                                   *)
Follows(c, d) ==
    /\ ClientOK(d) /\ d.pc # "wait"
    /\ Active(d) /\ ~d.strayed =>
         ~c.strayed /\ c.task \in {"connect", "call", "renew", "disconnect"}
                    /\ (c.task = "connect" \/ c.state = "CONNECTED")

(* A function that failed leaves nothing to wait for behind it.               *)
LEMMA FailedFollows ==
    ASSUME NEW c, Working(c)
    PROVE  LET d == Failed(c)
           IN  /\ Follows(c, d) /\ d.token \in {0, c.token}
               /\ Active(d) => c.task \in {"call", "renew", "disconnect"} /\ c.state = "CONNECTED"
BY FailedOK DEF Working, Follows

(* Services that failed leave no client that is connected.                 *)
LEMMA ServiceFailedFollows ==
    ASSUME NEW c, Working(c)
    PROVE  LET d == ServiceFailed(c)
           IN  /\ Follows(c, d) /\ d.token \in {0, c.token}
               /\ Active(d) => c.task = "renew" \/ (c.task = "disconnect" /\ c.step = "CLO")
               /\ c.task = "renew" => d = Idle(c)
<1>1. CASE IsService(c)
  <2> DEFINE e == Errored(c)
  <2>1. /\ e \in Clients /\ e.state = "ERRORED" /\ e.task = c.task /\ e.step = c.step
        /\ e.conn = c.conn /\ e.sock = c.sock /\ e.close = c.close /\ e.token = c.token
    BY ErroredFields DEF Working
  <2>2. ServiceFailed(c) = Failed(e)
    BY <1>1 DEF ServiceFailed
  <2> HIDE DEF e
  <2>3. Working(e)
    BY <2>1 DEF Working, SocketOK
  <2>4. c.task # "renew"
    BY <1>1 DEF Working, IsService, Services
  <2>5. Follows(e, Failed(e)) /\ Failed(e).token \in {0, e.token} /\ ~Active(Failed(e))
    BY <2>1, <2>3, FailedFollows
  <2> QED
    BY <2>1, <2>2, <2>4, <2>5 DEF Follows
<1>2. CASE ~IsService(c)
  <2>1. ServiceFailed(c) = Failed(c)
    BY <1>2 DEF ServiceFailed
  <2>2. c.task # "call" /\ c.step # "CloseSession"
    BY <1>2 DEF IsService, Services, Working
  <2>3. c.task = "renew" => Failed(c) = Idle(c)
    BY FailedOK DEF Working
  <2> QED
    BY <2>1, <2>2, <2>3, FailedFollows DEF Working
<1> QED
  BY <1>1, <1>2

(* Whoever gives up on an answer is not connected any more, or strays.     *)
LEMMA GivesUpFollows ==
    ASSUME NEW c, Working(c), c.step # "CLO"
    PROVE  LET d == GivesUp(c)
           IN  /\ Follows(c, d) /\ d.token \in {0, c.token}
               /\ ~Active(d) \/ d.strayed
<1>1. CASE c.task = "renew"
  <2> DEFINE e == Idle(c)
             d == [e EXCEPT !.strayed = TRUE]
  <2>1. GivesUp(c) = d
    BY <1>1, ServiceFailedFollows DEF GivesUp, Strays
  <2>2. ClientOK(e) /\ e.pc # "wait" /\ e.token \in {0, c.token}
    BY <1>1, ServiceFailedFollows DEF Follows
  <2> HIDE DEF e
  <2>3. e \in Clients
    BY <2>2 DEF ClientOK
  <2>4. /\ d \in Clients /\ d.strayed = TRUE
        /\ d.task = e.task /\ d.step = e.step /\ d.pc = e.pc /\ d.renew = e.renew
        /\ d.state = e.state /\ d.conn = e.conn /\ d.sock = e.sock /\ d.close = e.close
        /\ d.token = e.token
    BY <2>3 DEF Clients
  <2> HIDE DEF d
  <2>5. TaskOK(d)
    BY <2>2, <2>4 DEF ClientOK, TaskOK
  <2>6. FreshOK(d) /\ SocketOK(d)
    BY <2>2, <2>4 DEF ClientOK, FreshOK, SocketOK
  <2> QED
    BY <2>1, <2>2, <2>4, <2>5, <2>6 DEF ClientOK, Follows
<1>2. CASE c.task # "renew"
  <2>1. GivesUp(c) = ServiceFailed(c)
    BY <1>2 DEF GivesUp, Strays
  <2> QED
    BY <1>2, <2>1, ServiceFailedFollows
<1> QED
  BY <1>1, <1>2

(* A wrong answer is followed by the same, or by the end of the function.  *)
LEMMA MistakenFollows ==
    ASSUME NEW c, Working(c), c.step # "CLO"
    PROVE  LET d == Mistaken(c) IN Follows(c, d) /\ d.token \in {0, c.token}
BY GivesUpFollows, FailedFollows DEF Mistaken, GivesUp

(* An answer is followed by the next step or the end of the function; the  *)
(* token of a new channel is taken.                                        *)
LEMMA AnsweredFollows ==
    ASSUME NEW c, ClientOK(c), c.pc = "wait", NEW m \in Message
    PROVE  LET d == Answered(c, m)
           IN  /\ Follows(c, d) /\ d.token \in {0, c.token, m.token}
<1> DEFINE t == TakesToken(c, m)
<1>0. c \in Clients /\ TaskOK(c) /\ SocketOK(c) /\ Working(c) /\ c.step # "CLO" /\ c.task # "none"
  BY WorkingIs DEF ClientOK, TaskOK
<1>10. m.ok \in BOOLEAN
  BY DEF Message
<1>1. /\ t \in Clients /\ t.task = c.task /\ t.step = c.step /\ t.pc = c.pc /\ t.renew = c.renew
      /\ t.state = c.state /\ t.conn = c.conn /\ t.sock = c.sock /\ t.close = c.close
      /\ t.strayed = c.strayed /\ t.token \in {c.token, m.token}
      /\ (t.token # c.token => c.step = "OPN")
  <2> DEFINE tok == IF m.ok /\ c.step = "OPN" /\ c.task = "connect" THEN m.token ELSE c.token
             exp == IF m.ok THEN Lifetime ELSE 0
  <2>1. t = [c EXCEPT !.token = tok, !.expires = exp]
    BY DEF TakesToken
  <2>2. tok \in 0..MaxTokens /\ exp \in 0..Lifetime /\ tok \in {c.token, m.token}
        /\ (tok # c.token => c.step = "OPN")
    BY <1>0, LifetimeAssumption DEF Clients, Message
  <2> HIDE DEF tok, exp
  <2> QED
    BY <1>0, <2>1, <2>2 DEF Clients
<1> DEFINE again == [t EXCEPT !.renew = "done", !.pc = "send"]
<1>11. Answered(c, m) =
         CASE AwaitsOPN(c) /\ m.ok /\ c.renew = "asked" -> again
           [] AwaitsOPN(c) /\ m.ok /\ c.renew # "asked" -> Succeeded(t)
           [] AwaitsOPN(c) /\ ~m.ok -> ServiceFailed(t)
           [] ~AwaitsOPN(c) /\ ~m.ok -> Failed(c)
           [] ~AwaitsOPN(c) /\ m.ok /\ c.step = "HEL" -> Succeeded(HelAckHandshake(c))
           [] OTHER -> Succeeded(c)
  BY DEF Answered
<1> HIDE DEF t, again
<1>2. TaskOK(t) /\ SocketOK(t) /\ Working(t)
  BY <1>0, <1>1 DEF TaskOK, SocketOK, Working
<1>3. CASE AwaitsOPN(c) /\ m.ok /\ c.renew = "asked"
  <2> DEFINE d == again
  <2>1. Answered(c, m) = d
    BY <1>3, <1>10, <1>11 DEF AwaitsOPN
  <2>2. /\ d \in Clients /\ d.task = t.task /\ d.step = t.step /\ d.pc = "send" /\ d.renew = "done"
        /\ d.state = t.state /\ d.conn = t.conn /\ d.sock = t.sock /\ d.close = t.close
        /\ d.token = t.token /\ d.strayed = t.strayed
    BY <1>1 DEF Clients, again
  <2> HIDE DEF d
  <2>3. TaskOK(d) /\ SocketOK(d)
    BY <1>1, <1>2, <2>2 DEF TaskOK, SocketOK
  <2>4. FreshOK(d)
    BY <1>0, <1>1, <2>2 DEF ClientOK, FreshOK
  <2>5. Active(d) => c.task \in {"connect", "call", "renew", "disconnect"}
                    /\ (c.task = "connect" \/ c.state = "CONNECTED")
    BY <1>0, <1>1, <2>2 DEF Active, Clients, Tasks
  <2> QED
    BY <1>1, <2>1, <2>2, <2>3, <2>4, <2>5 DEF ClientOK, Follows
<1>4. ASSUME NEW e, e \in Clients, TaskOK(e), SocketOK(e), e.pc = "wait",
             e.task = c.task, e.state = c.state, e.strayed = c.strayed
      PROVE  Follows(c, Succeeded(e)) /\ Succeeded(e).token = e.token
  <2>1. /\ ClientOK(Succeeded(e)) /\ Succeeded(e).token = e.token /\ Succeeded(e).pc # "wait"
        /\ Active(Succeeded(e)) => Active(e) /\ Succeeded(e).strayed = e.strayed
    BY <1>4, SucceededOK
  <2>2. Active(e) => c.task \in {"connect", "call", "renew", "disconnect"}
                    /\ (c.task = "connect" \/ c.state = "CONNECTED")
    BY <1>0, <1>4 DEF Active, Clients, Tasks
  <2> QED
    BY <1>4, <2>1, <2>2 DEF Follows
<1>5. CASE AwaitsOPN(c) /\ m.ok /\ c.renew # "asked"
  <2>1. Answered(c, m) = Succeeded(t)
    BY <1>5, <1>10, <1>11 DEF AwaitsOPN
  <2> QED
    BY <1>1, <1>2, <1>4, <2>1
<1>6. CASE AwaitsOPN(c) /\ ~m.ok
  <2>1. Answered(c, m) = ServiceFailed(t)
    BY <1>6, <1>10, <1>11 DEF AwaitsOPN
  <2> QED
    BY <1>1, <1>2, <2>1, ServiceFailedFollows DEF Follows
<1>7. CASE ~AwaitsOPN(c) /\ ~m.ok
  <2>1. Answered(c, m) = Failed(c)
    BY <1>7, <1>10, <1>11 DEF AwaitsOPN
  <2> QED
    BY <1>0, <2>1, FailedFollows
<1>8. CASE ~AwaitsOPN(c) /\ m.ok /\ c.step = "HEL"
  <2> DEFINE e == HelAckHandshake(c)
  <2>1. Answered(c, m) = Succeeded(e)
    BY <1>8, <1>10, <1>11 DEF AwaitsOPN
  <2>2. /\ e \in Clients /\ e.task = c.task /\ e.step = c.step /\ e.pc = c.pc /\ e.renew = c.renew
        /\ e.state = c.state /\ e.conn = "established" /\ e.token = c.token /\ e.strayed = c.strayed
    BY <1>0 DEF HelAckHandshake, Clients
  <2> HIDE DEF e
  <2>3. TaskOK(e) /\ SocketOK(e)
    BY <1>0, <2>2 DEF TaskOK, SocketOK
  <2> QED
    BY <1>4, <2>1, <2>2, <2>3
<1>9. CASE ~AwaitsOPN(c) /\ m.ok /\ c.step # "HEL"
  <2>1. Answered(c, m) = Succeeded(c)
    BY <1>9, <1>10, <1>11 DEF AwaitsOPN
  <2> QED
    BY <1>0, <1>4, <2>1
<1> QED
  BY <1>3, <1>5, <1>6, <1>7, <1>8, <1>9

-----------------------------------------------------------------------------
(* The inductive invariant                                                 *)

(* The server knows a token that the client does not, or that the client   *)
(* does not know it, only after a renewal.                                 *)
TokensInStep ==
    /\ server.next # 0 => server.token # 0
    /\ ~server.renewed =>
         /\ ~server.cut /\ server.next = 0
         /\ server.token \in {0, 1} /\ client.token \in {0, 1}
         /\ \A i \in 1..Len(up) : up[i].token \in {0, 1}
         /\ \A i \in 1..Len(down) : down[i].token \in {0, 1}

OnlyCLO(s, n) == \A i \in 1..n : s[i].kind = "CLO"

(* m belongs to the request that c waits for an answer to.                 *)
Fits(c, m) == m.kind = (IF AwaitsOPN(c) THEN "OPN" ELSE c.step) /\ m.id = c.requestId

(* An active client waits for the one message that is on its way, as a     *)
(* request or as the answer to it, unless that was lost; behind it, only   *)
(* the end of an earlier channel.                                          *)
Nothing == down = <<>> /\ OnlyCLO(up, Len(up))
Asked == /\ client.pc = "wait" /\ down = <<>> /\ up # <<>>
         /\ OnlyCLO(up, Len(up) - 1) /\ Fits(client, up[Len(up)])
AnswerComes == client.pc = "wait" /\ OnlyCLO(up, Len(up)) /\ Len(down) = 1 /\ Fits(client, down[1])

InStep == Active(client) /\ ~client.strayed => Nothing \/ Asked \/ AnswerComes

Inv == TypeOK /\ ClientOK(client) /\ TokensInStep /\ InStep

(* The same messages, some of which may be late now.                       *)
SameMessages(s, t) ==
    /\ Len(t) = Len(s)
    /\ \A i \in 1..Len(s) : t[i].kind = s[i].kind /\ t[i].token = s[i].token

(* A client that does not wait for anything, and is active only if it was  *)
(* active before without waiting, keeps the invariant.                     *)
LEMMA QuietOrLateStep ==
    ASSUME Inv, UNCHANGED server, SameMessages(up, up'), SameMessages(down, down'),
           up' \in Seq(Requests), down' \in Seq(Message),
           ClientOK(client'), client'.token \in {0, client.token},
           Active(client') /\ ~client'.strayed =>
              Active(client) /\ ~client.strayed /\ client.pc # "wait",
           result' \in [status : {"none", "Good", "Bad"}, done : Nat]
    PROVE  Inv'
<1>1. TypeOK'
  BY DEF Inv, TypeOK, ClientOK
<1>2. TokensInStep'
  BY DEF Inv, TokensInStep, SameMessages
<1>3. InStep'
  <2> SUFFICES ASSUME Active(client'), ~client'.strayed PROVE Nothing'
    BY DEF InStep
  <2>1. Nothing
    BY DEF Inv, InStep, Asked, AnswerComes
  <2>2. Len(down') = 0
    BY <2>1 DEF Nothing, SameMessages
  <2> QED
    BY <2>1, <2>2, EmptySeq DEF Nothing, OnlyCLO, SameMessages
<1> QED
  BY <1>1, <1>2, <1>3 DEF Inv, ClientOK

LEMMA QuietStep ==
    ASSUME Inv, UNCHANGED <<server, up, down>>,
           ClientOK(client'), client'.token \in {0, client.token},
           Active(client') /\ ~client'.strayed =>
              Active(client) /\ ~client.strayed /\ client.pc # "wait",
           result' \in [status : {"none", "Good", "Bad"}, done : Nat]
    PROVE  Inv'
<1>1. SameMessages(up, up') /\ SameMessages(down, down')
  BY DEF SameMessages
<1>2. up' \in Seq(Requests) /\ down' \in Seq(Message)
  BY DEF Inv, TypeOK
<1> QED
  BY <1>1, <1>2, QuietOrLateStep

(* A call that begins, or a function other than a call, reports nothing.   *)
LEMMA NoAnswer ==
    ASSUME Inv, \/ result' = NoResult \/ UNCHANGED result
                \/ result' = [result EXCEPT !.status = "none"]
    PROVE  result' \in [status : {"none", "Good", "Bad"}, done : Nat]
<1>1. result \in [status : {"none", "Good", "Bad"}, done : Nat]
  BY DEF Inv, TypeOK
<1> QED
  BY <1>1 DEF NoResult

(* What is on its way when a function begins stays, and is late.           *)
LEMMA LateIs ==
    ASSUME NEW S, NEW s \in Seq(S), \A m \in S : [m EXCEPT !.late = TRUE] \in S
    PROVE  /\ Late(s) \in Seq(S) /\ Len(Late(s)) = Len(s)
           /\ \A i \in 1..Len(s) : Late(s)[i] = [s[i] EXCEPT !.late = TRUE]
<1>1. Len(s) \in Nat /\ \A i \in 1..Len(s) : s[i] \in S
  BY ElementOfSeq, LenProperties
<1>2. \A i \in 1..Len(s) : [s[i] EXCEPT !.late = TRUE] \in S
  BY <1>1
<1>3. Late(s) = [i \in 1..Len(s) |-> [s[i] EXCEPT !.late = TRUE]]
  BY DEF Late
<1> QED
  BY <1>1, <1>2, <1>3

LEMMA LateMessages ==
    ASSUME Inv, up' = Late(up), down' = Late(down)
    PROVE  /\ up' \in Seq(Requests) /\ down' \in Seq(Message)
           /\ SameMessages(up, up') /\ SameMessages(down, down')
           /\ \A i \in 1..Len(up') : up'[i].late /\ up'[i].id = up[i].id
           /\ \A i \in 1..Len(down') : down'[i].late /\ down'[i].id = down[i].id
<1>1. up \in Seq(Requests) /\ down \in Seq(Message)
  BY DEF Inv, TypeOK
<1>2. \A m \in Requests : [m EXCEPT !.late = TRUE] \in Requests
  BY DEF Requests
<1>3. \A m \in Message : [m EXCEPT !.late = TRUE] \in Message
  BY DEF Message
<1>4. /\ up' \in Seq(Requests) /\ Len(up') = Len(up)
      /\ \A i \in 1..Len(up) : up'[i] = [up[i] EXCEPT !.late = TRUE]
  BY <1>1, <1>2, LateIs
<1>5. /\ down' \in Seq(Message) /\ Len(down') = Len(down)
      /\ \A i \in 1..Len(down) : down'[i] = [down[i] EXCEPT !.late = TRUE]
  BY <1>1, <1>3, LateIs
<1>6. ASSUME NEW i \in 1..Len(up)
      PROVE  /\ up'[i].late /\ up'[i].id = up[i].id
             /\ up'[i].kind = up[i].kind /\ up'[i].token = up[i].token
  <2>1. up[i] \in Requests
    BY <1>1, ElementOfSeq
  <2> QED
    BY <1>4, <2>1 DEF Requests
<1>7. ASSUME NEW i \in 1..Len(down)
      PROVE  /\ down'[i].late /\ down'[i].id = down[i].id
             /\ down'[i].kind = down[i].kind /\ down'[i].token = down[i].token
  <2>1. down[i] \in Message
    BY <1>1, ElementOfSeq
  <2> QED
    BY <1>5, <2>1 DEF Message
<1> QED
  BY <1>4, <1>5, <1>6, <1>7 DEF SameMessages

(* The application calls a function.                                       *)
LEMMA InvokeStep ==
    ASSUME Inv, NEW task \in {"call", "renew", "disconnect"}, NEW step \in Steps,
           Invoke(task, step),
           task = "call" => step = "Call", task = "renew" => step = "OPN",
           task = "disconnect" => step = "CloseSession"
    PROVE  Inv'
<1> DEFINE d == At(client, task, step)
<1>1. /\ client' = d /\ client.task = "none" /\ client.state \notin {"READY", "deleted"}
      /\ up' = Late(up) /\ down' = Late(down) /\ UNCHANGED server /\ result' = NoResult
  BY DEF Invoke
<1>2. /\ d \in Clients /\ d.task = task /\ d.step = step /\ d.pc = "send" /\ d.renew = "no"
      /\ d.state = client.state /\ d.conn = client.conn /\ d.sock = client.sock
      /\ d.close = client.close /\ d.token = client.token /\ d.strayed = client.strayed
  <2>1. task \in Tasks /\ client \in Clients
    BY DEF Inv, TypeOK, Tasks
  <2> QED
    BY <2>1, AtFields
<1> HIDE DEF d
<1>3. TaskOK(client) /\ SocketOK(client) /\ client \in Clients
  BY DEF Inv, ClientOK
<1>4. client.state \in {"CONNECTED", "ERRORED"}
  BY <1>1, <1>3 DEF Clients
<1>5. TaskOK(d)
  BY <1>2, <1>4 DEF TaskOK
<1>6. ClientOK(d)
  BY <1>2, <1>3, <1>5 DEF ClientOK, FreshOK, SocketOK
<1>7. Active(d) => Active(client) /\ client.pc # "wait"
  BY <1>1, <1>2, <1>3 DEF Active, TaskOK
<1> QED
  BY <1>1, <1>2, <1>6, <1>7, NoAnswer, LateMessages, QuietOrLateStep

(* The functions of the application keep the invariant.                    *)
LEMMA ApplicationStep ==
    ASSUME Inv,
           \/ UA_Client_connect \/ Call \/ UA_Client_manuallyRenewSecureChannel
           \/ UA_Client_disconnect \/ UA_Client_new
           \/ \E then \in {"return", "delete"} : UA_Client_reset(then)
    PROVE  Inv'
<1>1. client \in Clients /\ TaskOK(client) /\ FreshOK(client) /\ SocketOK(client)
  BY DEF Inv, ClientOK
<1>2. CASE Call
  BY <1>2, InvokeStep DEF Call, Steps, Services
<1>3. CASE UA_Client_manuallyRenewSecureChannel
  BY <1>3, InvokeStep DEF UA_Client_manuallyRenewSecureChannel, Steps
<1>4. CASE UA_Client_disconnect
  BY <1>4, InvokeStep DEF UA_Client_disconnect, Steps, Services
<1>5. ASSUME NEW then \in {"return", "delete", "connect"}, client' = CleanUp(client, then),
             client.state \in {"CONNECTED", "ERRORED"},
             UNCHANGED <<server, up, down>>, result' = [result EXCEPT !.status = "none"]
      PROVE  Inv'
  BY <1>1, <1>5, CleanUpOK, NoAnswer, QuietStep
<1>6. ASSUME NEW then \in {"return", "delete"}, UA_Client_reset(then) PROVE Inv'
  BY <1>1, <1>5, <1>6 DEF UA_Client_reset, Clients
<1>7. CASE UA_Client_connect
  <2>1. client.task = "none" /\ UNCHANGED <<server, up, down>>
        /\ result' = [result EXCEPT !.status = "none"]
    BY <1>7 DEF UA_Client_connect
  <2>2. CASE client.state = "ERRORED"
    <3>1. client' = CleanUp(client, "connect")
      BY <1>7, <2>2 DEF UA_Client_connect
    <3> QED
      BY <1>5, <2>1, <2>2, <3>1
  <2>3. CASE client.state = "READY"
    <3> DEFINE d == At(client, "connect", "HEL")
    <3>1. client' = d
      BY <1>7, <2>3 DEF UA_Client_connect
    <3>2. "connect" \in Tasks /\ "HEL" \in Steps
      BY DEF Tasks, Steps
    <3>3. /\ d \in Clients /\ d.task = "connect" /\ d.step = "HEL" /\ d.pc = "send" /\ d.renew = "no"
          /\ d.state = client.state /\ d.conn = client.conn /\ d.sock = client.sock
          /\ d.close = client.close /\ d.token = client.token
      BY <1>1, <3>2, AtFields
    <3> HIDE DEF d
    <3>4. client.conn = "closed" /\ client.token = 0
      BY <1>1, <2>1, <2>3 DEF FreshOK
    <3>5. ClientOK(d) /\ ~Active(d)
      BY <1>1, <2>3, <3>3, <3>4 DEF ClientOK, TaskOK, FreshOK, SocketOK, HandshakeSteps, Active
    <3> QED
      BY <2>1, <3>1, <3>3, <3>5, NoAnswer, QuietStep
  <2>4. client.state \in {"ERRORED", "READY"}
    BY <1>1, <1>7 DEF UA_Client_connect, Clients
  <2> QED
    BY <2>2, <2>3, <2>4
<1>8. CASE UA_Client_new
  <2> DEFINE d == [Fresh EXCEPT !.sock = client.sock, !.close = client.close]
  <2>1. /\ client' = d /\ client.state = "deleted" /\ UNCHANGED <<server, up, down, result>>
    BY <1>8 DEF UA_Client_new
  <2>2. d \in Clients
    BY <1>1, FreshIs DEF Clients
  <2>3. /\ d.task = "none" /\ d.pc = "idle" /\ d.renew = "no" /\ d.state = "READY"
        /\ d.conn = "closed" /\ d.token = 0 /\ d.sock = client.sock /\ d.close = client.close
    BY <1>1 DEF Fresh, Clients
  <2> HIDE DEF d
  <2>4. client.conn = "closed"
    BY <1>1, <2>1 DEF TaskOK, FreshOK
  <2>5. ClientOK(d) /\ ~Active(d)
    BY <1>1, <2>2, <2>3, <2>4 DEF ClientOK, TaskOK, FreshOK, SocketOK, Active
  <2> QED
    BY <2>1, <2>3, <2>5, NoAnswer, QuietStep
<1> QED
  BY <1>2, <1>3, <1>4, <1>6, <1>7, <1>8

(* A connection is made, or is not.                                        *)
LEMMA OpeningStep ==
    ASSUME Inv, Unresolved \/ Refused \/ Accepted PROVE Inv'
<1>1. client \in Clients /\ TaskOK(client) /\ FreshOK(client) /\ SocketOK(client)
  BY DEF Inv, ClientOK
<1>2. /\ client.task = "connect" /\ client.step = "HEL" /\ client.pc = "send"
      /\ client.conn = "closed" /\ client.token = 0 /\ client.state = "READY"
  BY <1>1 DEF Unresolved, Refused, Accepted, Opening, TaskOK, FreshOK
<1>3. ASSUME NEW c \in Clients, c.task = "connect", SocketOK(c), c.token = 0,
             client' = Failed(c), UNCHANGED <<server, up, down, result>>
      PROVE  Inv'
  BY <1>2, <1>3, FailedOK, NoAnswer, QuietStep
<1>4. CASE Unresolved
  <2> DEFINE c == [client EXCEPT !.sock = "open", !.close = FALSE]
  <2>1. client' = Failed(c) /\ UNCHANGED <<server, up, down, result>>
    BY <1>4 DEF Unresolved
  <2>2. c \in Clients /\ c.task = client.task /\ c.token = client.token /\ c.close = FALSE
    BY <1>1 DEF Clients
  <2> HIDE DEF c
  <2> QED
    BY <1>2, <1>3, <2>1, <2>2 DEF SocketOK
<1>5. CASE Refused
  <2> DEFINE c == [client EXCEPT !.sock = "closed", !.close = TRUE]
  <2>1. client' = Failed(c) /\ UNCHANGED <<server, up, down, result>>
    BY <1>5 DEF Refused
  <2>2. c \in Clients /\ c.task = client.task /\ c.token = client.token /\ c.sock = "closed"
    BY <1>1 DEF Clients
  <2> HIDE DEF c
  <2> QED
    BY <1>2, <1>3, <2>1, <2>2 DEF SocketOK
<1>6. CASE Accepted
  <2> DEFINE d == [client EXCEPT !.sock = "open", !.close = TRUE, !.conn = "opening"]
             s == [NoServer EXCEPT !.open = TRUE]
  <2>1. client' = d /\ server' = s /\ up' = <<>> /\ down' = <<>> /\ UNCHANGED result
    BY <1>6 DEF Accepted
  <2>2. /\ d \in Clients /\ d.task = client.task /\ d.step = client.step /\ d.pc = client.pc
        /\ d.renew = client.renew /\ d.state = client.state /\ d.conn = "opening"
        /\ d.token = client.token
    BY <1>1 DEF Clients
  <2>3. /\ s \in Servers /\ s.open /\ s.token = 0 /\ s.next = 0 /\ ~s.cut
    <3>1. NoServer \in Servers
      BY LifetimeAssumption DEF NoServer, Servers
    <3>2. /\ s \in Servers /\ s.open = TRUE /\ s.token = NoServer.token
          /\ s.next = NoServer.next /\ s.cut = NoServer.cut
      BY <3>1 DEF Servers
    <3>3. NoServer.token = 0 /\ NoServer.next = 0 /\ NoServer.cut = FALSE
      BY DEF NoServer
    <3> HIDE DEF s
    <3> QED
      BY <3>2, <3>3
  <2> HIDE DEF d, s
  <2>4. ClientOK(d)
    BY <1>1, <1>2, <2>2 DEF ClientOK, TaskOK, FreshOK, SocketOK
  <2>5. TypeOK'
    BY <2>1, <2>2, <2>3, NoAnswer DEF TypeOK
  <2>6. TokensInStep'
    BY <1>2, <2>1, <2>2, <2>3 DEF TokensInStep
  <2>7. InStep'
    BY <2>1 DEF InStep, Nothing, OnlyCLO
  <2> QED
    BY <2>1, <2>4, <2>5, <2>6, <2>7, NoAnswer DEF Inv
<1> QED
  BY <1>4, <1>5, <1>6

(* What a client that has sent its request looks like.                     *)
LEMMA SentFields ==
    ASSUME NEW c, ClientOK(c), c.pc = "send", c.step = "HEL" => c.conn = "opening"
    PROVE  LET d == Sent(c)
           IN  /\ ClientOK(d) /\ d.token \in {0, c.token}
               /\ Active(d) => Active(c) /\ d.strayed = c.strayed
               /\ Active(d) /\ c.step # "CLO" =>
                     d.pc = "wait" /\ Fits(d, Request(c))
               /\ c.step = "CLO" => d.pc # "wait"
<1>1. c \in Clients /\ TaskOK(c) /\ FreshOK(c) /\ SocketOK(c)
  BY DEF ClientOK
<1> DEFINE id == NextId(c)
           w == Waiting(c)
<1>2. id \in Nat
  BY <1>1 DEF NextId, Clients
<1> HIDE DEF id
<1>3. /\ w \in Clients
      /\ w.pc = (IF c.step = "CLO" THEN "idle" ELSE "wait") /\ w.requestId = id
      /\ w.renew = (IF MustRenew(c) THEN "asked" ELSE c.renew)
      /\ w.task = c.task /\ w.step = c.step /\ w.state = c.state /\ w.conn = c.conn
      /\ w.sock = c.sock /\ w.close = c.close /\ w.token = c.token /\ w.strayed = c.strayed
  <2> DEFINE pc == IF c.step = "CLO" THEN "idle" ELSE "wait"
             renew == IF MustRenew(c) THEN "asked" ELSE c.renew
  <2>1. w = [c EXCEPT !.pc = pc, !.requestId = id, !.renew = renew]
    BY DEF Waiting, id
  <2>2. pc \in {"idle", "send", "wait"} /\ renew \in {"no", "asked", "done"}
    BY <1>1 DEF Clients
  <2> HIDE DEF pc, renew
  <2>3. /\ w \in Clients /\ w.pc = pc /\ w.requestId = id /\ w.renew = renew
        /\ w.task = c.task /\ w.step = c.step /\ w.state = c.state /\ w.conn = c.conn
        /\ w.sock = c.sock /\ w.close = c.close /\ w.token = c.token /\ w.strayed = c.strayed
    BY <1>1, <1>2, <2>1, <2>2 DEF Clients
  <2> QED
    BY <2>3 DEF pc, renew
<1> HIDE DEF w
<1>4. CASE c.step = "CLO" /\ c.task = "clean"
  <2>1. Sent(c) = Cleaned(w)
    BY <1>4 DEF Sent, w
  <2> QED
    BY <1>1, <1>3, <1>4, <2>1, CleanedOK DEF SocketOK
<1>5. CASE c.step = "CLO" /\ c.task # "clean"
  <2> DEFINE d == Idle(w)
  <2>1. Sent(c) = d
    BY <1>5 DEF Sent, w
  <2>2. /\ d \in Clients /\ d.task = "none" /\ d.pc = "idle" /\ d.renew = "no"
        /\ d.state = w.state /\ d.conn = w.conn /\ d.sock = w.sock
        /\ d.close = w.close /\ d.token = w.token /\ d.strayed = w.strayed
    BY <1>3, IdleFields
  <2> HIDE DEF d
  <2>3. c.task = "disconnect" /\ c.state \in {"CONNECTED", "ERRORED"}
    BY <1>1, <1>5 DEF TaskOK, HandshakeSteps, Clients, Tasks
  <2> QED
    BY <1>1, <1>3, <1>5, <2>1, <2>2, <2>3 DEF ClientOK, TaskOK, FreshOK, SocketOK, Active
<1>6. CASE c.step # "CLO"
  <2>1. Sent(c) = w
    BY <1>6 DEF Sent, w
  <2>2. TaskOK(w)
    BY <1>1, <1>3, <1>6 DEF TaskOK
  <2>3. FreshOK(w) /\ SocketOK(w)
    BY <1>1, <1>3, <1>6 DEF FreshOK, SocketOK
  <2>4. c.renew # "asked"
    BY <1>1 DEF TaskOK
  <2>5. AwaitsOPN(w) <=> MustRenew(c) \/ c.step = "OPN"
    BY <1>3, <2>4 DEF AwaitsOPN
  <2>6. Fits(w, Request(c))
    BY <1>3, <2>5 DEF Fits, Request, id
  <2>7. Active(w) => Active(c)
    BY <1>3 DEF Active
  <2> QED
    BY <1>3, <1>6, <2>1, <2>2, <2>3, <2>6, <2>7 DEF ClientOK
<1> QED
  BY <1>4, <1>5, <1>6

(* A request is sent: it is the one that is waited for.                    *)
LEMMA SendStep ==
    ASSUME Inv, Send PROVE Inv'
<1>1. /\ client.pc = "send" /\ (client.step = "HEL" => client.conn = "opening")
      /\ client' = Sent(client) /\ UNCHANGED <<server, down, result>>
      /\ up' = IF server.open THEN Append(up, Request(client)) ELSE up
  BY DEF Send, Ready
<1>2. client \in Clients /\ ClientOK(client) /\ up \in Seq(Requests)
  BY DEF Inv, ClientOK, TypeOK
<1> DEFINE r == Request(client)
<1>3. /\ r \in Requests /\ r.token = client.token
      /\ client.step = "CLO" => r.kind = "CLO"
  BY <1>2 DEF Request, Requests, NextId, Clients, MustRenew, IsService, Services, Steps
<1> HIDE DEF r
<1>4. /\ ClientOK(client') /\ client'.token \in {0, client.token}
      /\ Active(client') => Active(client) /\ client'.strayed = client.strayed
      /\ Active(client') /\ client.step # "CLO" => client'.pc = "wait" /\ Fits(client', r)
  BY <1>1, <1>2, SentFields DEF r
<1>5. /\ Append(up, r) \in Seq(Requests) /\ Append(up, r) # <<>>
      /\ Len(up) \in Nat /\ Len(Append(up, r)) = Len(up) + 1
      /\ \A i \in 1..Len(up) : Append(up, r)[i] = up[i]
      /\ Append(up, r)[Len(up) + 1] = r
  BY <1>2, <1>3, AppendProperties
<1>6. TypeOK'
  BY <1>1, <1>4, <1>5 DEF Inv, TypeOK, ClientOK, r
<1>7. TokensInStep'
  <2>1. CASE ~server.open
    BY <1>1, <1>4, <2>1 DEF Inv, TokensInStep
  <2>2. CASE server.open
    <3>1. up' = Append(up, r) /\ server' = server /\ down' = down
      BY <1>1, <2>2 DEF r
    <3>2. ASSUME ~server.renewed PROVE \A i \in 1..(Len(up) + 1) : Append(up, r)[i].token \in {0, 1}
      <4>1. client.token \in {0, 1} /\ \A i \in 1..Len(up) : up[i].token \in {0, 1}
        BY <3>2 DEF Inv, TokensInStep
      <4>2. \A i \in 1..(Len(up) + 1) : i \in 1..Len(up) \/ i = Len(up) + 1
        BY <1>5
      <4> QED
        BY <1>3, <1>5, <4>1, <4>2
    <3> QED
      BY <1>4, <1>5, <3>1, <3>2 DEF Inv, TokensInStep
  <2> QED
    BY <2>1, <2>2
<1>8. InStep'
  <2> SUFFICES ASSUME Active(client'), ~client'.strayed PROVE Nothing' \/ Asked'
    BY DEF InStep
  <2>1. Nothing
    BY <1>1, <1>4 DEF Inv, InStep, Asked, AnswerComes
  <2>2. CASE ~server.open
    BY <1>1, <2>1, <2>2 DEF Nothing, OnlyCLO
  <2>3. CASE server.open
    <3>1. up' = Append(up, r) /\ down' = <<>> /\ \A i \in 1..Len(up) : up[i].kind = "CLO"
      BY <1>1, <2>1, <2>3 DEF r, Nothing, OnlyCLO
    <3>2. CASE client.step = "CLO"
      <4>1. \A i \in 1..(Len(up) + 1) : i \in 1..Len(up) \/ i = Len(up) + 1
        BY <1>5
      <4> QED
        BY <1>3, <1>5, <3>1, <3>2, <4>1 DEF Nothing, OnlyCLO
    <3>3. CASE client.step # "CLO"
      <4>1. client'.pc = "wait" /\ Fits(client', r)
        BY <1>4, <3>3
      <4>2. (Len(up) + 1) - 1 = Len(up)
        BY <1>5
      <4> QED
        BY <1>5, <3>1, <4>1, <4>2 DEF Asked, OnlyCLO
    <3> QED
      BY <3>2, <3>3
  <2> QED
    BY <2>2, <2>3
<1> QED
  BY <1>1, <1>4, <1>6, <1>7, <1>8, NoAnswer DEF Inv

(* A send that fails leaves nothing to wait for.                           *)
LEMMA SendFailsStep ==
    ASSUME Inv, SendFails PROVE Inv'
<1> DEFINE c == [client EXCEPT !.sock = "closed", !.conn = "closed"]
<1>1. client.pc = "send" /\ client' = ServiceFailed(c) /\ UNCHANGED <<server, up, down, result>>
  BY DEF SendFails, Ready
<1>2. ClientOK(client) /\ TaskOK(client) /\ client \in Clients
  BY DEF Inv, ClientOK
<1>3. client.task # "none"
  BY <1>1, <1>2 DEF TaskOK
<1>4. /\ Working(c) /\ c.task = client.task /\ c.state = client.state /\ c.token = client.token
      /\ c.strayed = client.strayed
  BY <1>2, <1>3, WorkingIs
<1> HIDE DEF c
<1>5. /\ ClientOK(client') /\ client'.token \in {0, client.token} /\ client'.pc # "wait"
      /\ Active(client') => c.task \in {"renew", "disconnect"}
      /\ Active(client') /\ ~client'.strayed => ~c.strayed /\ (c.task = "connect" \/ c.state = "CONNECTED")
  BY <1>1, <1>4, ServiceFailedFollows DEF Follows
<1>6. Active(client') /\ ~client'.strayed => Active(client) /\ ~client.strayed
  BY <1>4, <1>5 DEF Active
<1> QED
  BY <1>1, <1>5, <1>6, NoAnswer, QuietStep

(* Receive drops the messages of one recv, the first of which it looks at. *)
LEMMA DropsMessages ==
    ASSUME Inv, NEW n \in 1..Len(down), down' = SubSeq(down, n + 1, Len(down))
    PROVE  /\ down' \in Seq(Message) /\ Len(down) \in Nat /\ down # <<>>
           /\ Head(down) \in Message /\ Head(down) = down[1]
           /\ \A i \in 1..Len(down') : \E j \in 1..Len(down) : down'[i] = down[j]
           /\ Len(down) = 1 => down' = <<>>
<1>1. down \in Seq(Message) /\ Len(down) \in Nat
  BY DEF Inv, TypeOK
<1>2. n \in Nat /\ n + 1 \in 1..(Len(down) + 1)
  BY <1>1
<1>3. /\ down' \in Seq(Message)
      /\ Len(down') = IF n + 1 <= Len(down) THEN Len(down) - (n + 1) + 1 ELSE 0
      /\ \A i \in 1..(Len(down) - (n + 1) + 1) : down'[i] = down[(n + 1) + i - 1]
  BY <1>1, <1>2, SubSeqProperties
<1>4. down # <<>>
  BY <1>1
<1>5. Head(down) = down[1] /\ Head(down) \in Message
  BY <1>1, <1>4, HeadTailProperties
<1>6. ASSUME NEW i \in 1..Len(down') PROVE \E j \in 1..Len(down) : down'[i] = down[j]
  <2>1. n + 1 <= Len(down) /\ i \in 1..(Len(down) - (n + 1) + 1)
    BY <1>1, <1>2, <1>3, <1>6
  <2>2. (n + 1) + i - 1 \in 1..Len(down)
    BY <1>1, <1>2, <2>1
  <2> QED
    BY <1>3, <2>1, <2>2
<1>7. ASSUME Len(down) = 1 PROVE down' = <<>>
  <2>1. Len(down') = 0
    BY <1>1, <1>2, <1>3, <1>7
  <2> QED
    BY <1>3, <2>1, EmptySeq
<1> QED
  BY <1>1, <1>3, <1>4, <1>5, <1>6, <1>7

(* A call that returns reports success or an error.                        *)
LEMMA ReturnIs ==
    ASSUME Inv, NEW m, ReturnsWith(m)
    PROVE  /\ result' \in [status : {"none", "Good", "Bad"}, done : Nat]
           /\ result'.done = result.done
           /\ result'.status = "Good" =>
                 \/ result.status = "Good"
                 \/ client.task = "call" /\ client'.task = "none" /\ m.ok /\ IsAnswer(client, m)
<1>1. result \in [status : {"none", "Good", "Bad"}, done : Nat]
  BY DEF Inv, TypeOK
<1>2. CASE UNCHANGED result
  BY <1>1, <1>2
<1>3. CASE client.task = "call" /\ client'.task = "none"
  <2> DEFINE status == IF m.ok /\ IsAnswer(client, m) THEN "Good" ELSE "Bad"
  <2>1. result' = [result EXCEPT !.status = status]
    BY <1>3 DEF ReturnsWith
  <2>2. status \in {"Good", "Bad"} /\ (status = "Good" => m.ok /\ IsAnswer(client, m))
    OBVIOUS
  <2> HIDE DEF status
  <2> QED
    BY <1>1, <1>3, <2>1, <2>2
<1> QED
  BY <1>2, <1>3 DEF ReturnsWith

(* Whatever one recv returns, an active client waited for nothing else.    *)
LEMMA ReceiveStep ==
    ASSUME Inv, NEW joined \in 1..(MaxRequests + 1), Receive(joined) PROVE Inv'
<1> DEFINE m == Head(down)
<1>1. /\ client.pc = "wait" /\ joined \in 1..Len(down)
      /\ down' = SubSeq(down, joined + 1, Len(down))
      /\ IF IsAnswer(client, m) THEN client' = Answered(client, m)
         ELSE client' = Mistaken(client) \/ client' = GivesUp(client)
      /\ ReturnsWith(m) /\ UNCHANGED <<server, up>>
  BY DEF Receive, Awaits
<1>2. /\ down' \in Seq(Message) /\ m \in Message /\ m = down[1] /\ 1 \in 1..Len(down)
      /\ \A i \in 1..Len(down') : \E j \in 1..Len(down) : down'[i] = down[j]
      /\ Len(down) = 1 => down' = <<>>
      /\ down # <<>>
  <2>1. Len(down) \in Nat
    BY DEF Inv, TypeOK
  <2> QED
    BY <1>1, <2>1, DropsMessages
<1> HIDE DEF m
<1>3. ClientOK(client) /\ Working(client) /\ client.step # "CLO" /\ TaskOK(client)
  BY <1>1, WorkingIs DEF Inv, ClientOK, TaskOK
<1>4. Follows(client, client') /\ client'.token \in {0, client.token, m.token}
  BY <1>1, <1>2, <1>3, AnsweredFollows, MistakenFollows, GivesUpFollows
<1>5. result' \in [status : {"none", "Good", "Bad"}, done : Nat]
  BY <1>1, ReturnIs
<1>6. TypeOK'
  BY <1>1, <1>2, <1>4, <1>5 DEF Inv, TypeOK, Follows, ClientOK
<1>7. TokensInStep'
  BY <1>1, <1>2, <1>4 DEF Inv, TokensInStep
<1>8. InStep'
  <2> SUFFICES ASSUME Active(client'), ~client'.strayed PROVE Nothing'
    BY DEF InStep
  <2>1. Active(client) /\ ~client.strayed
    BY <1>1, <1>3, <1>4 DEF Follows, TaskOK, Active
  <2>2. AnswerComes
    BY <1>2, <2>1 DEF Inv, InStep, Nothing, Asked
  <2> QED
    BY <1>1, <1>2, <2>2 DEF AnswerComes, Nothing
<1> QED
  BY <1>4, <1>5, <1>6, <1>7, <1>8 DEF Inv, Follows

(* The rest of a message is not an answer.                                 *)
LEMMA NoMessageIs ==
    /\ NoMessage \in Message /\ NoMessage.token = 0 /\ NoMessage.ok = FALSE
  BY LifetimeAssumption DEF NoMessage, Message

(* Part of a message, no message, or the end of the connection: the client *)
(* gives up.                                                               *)
LEMMA GiveUpStep ==
    ASSUME Inv, ReceivePart \/ TimesOut \/ FindsItClosed PROVE Inv'
<1>1. client.pc = "wait" /\ ReturnsWith(NoMessage) /\ UNCHANGED <<server, up>>
  BY DEF ReceivePart, TimesOut, FindsItClosed, Awaits
<1>2. ClientOK(client) /\ Working(client) /\ client.step # "CLO"
  BY <1>1, WorkingIs DEF Inv, ClientOK, TaskOK
<1>3. result' \in [status : {"none", "Good", "Bad"}, done : Nat]
  BY <1>1, ReturnIs
<1>4. ClientOK(client') /\ client'.token \in {0, client.token} /\ client'.pc # "wait"
      /\ (~Active(client') \/ client'.strayed)
  <2>1. CASE client' = GivesUp(client)
    BY <1>2, <2>1, GivesUpFollows DEF Follows
  <2>2. CASE FindsItClosed
    <3> DEFINE c == [client EXCEPT !.sock = "closed", !.conn = "closed"]
    <3>1. Working(c) /\ c.step = client.step /\ c.token = client.token
      BY <1>2, WorkingIs DEF Working
    <3>2. client' = GivesUp(c)
      BY <2>2 DEF FindsItClosed
    <3> HIDE DEF c
    <3> QED
      BY <1>2, <3>1, <3>2, GivesUpFollows DEF Follows
  <2> QED
    BY <2>1, <2>2 DEF ReceivePart, TimesOut
<1>5. CASE UNCHANGED down
  BY <1>1, <1>3, <1>4, <1>5, QuietStep
<1>6. CASE ReceivePart
  <2> DEFINE s == Tail(down)
  <2>1. down \in Seq(Message) /\ down # <<>> /\ down' = <<NoMessage>> \o s
    BY <1>6 DEF ReceivePart, Inv, TypeOK
  <2>2. /\ s \in Seq(Message) /\ Len(s) \in Nat /\ Len(s) = Len(down) - 1 /\ Len(down) \in Nat
        /\ \A i \in 1..Len(s) : s[i] = down[i + 1]
    BY <2>1, HeadTailProperties
  <2> HIDE DEF s
  <2>3. <<NoMessage>> \in Seq(Message) /\ Len(<<NoMessage>>) = 1
    BY NoMessageIs
  <2>4. /\ down' \in Seq(Message) /\ Len(down') = 1 + Len(s)
        /\ \A i \in 1..(1 + Len(s)) : down'[i] = IF i <= 1 THEN <<NoMessage>>[i] ELSE s[i - 1]
    BY <2>1, <2>2, <2>3, ConcatProperties
  <2>5. ASSUME ~server.renewed, NEW i \in 1..Len(down') PROVE down'[i].token \in {0, 1}
    <3>1. CASE i = 1
      <4>1. down'[i] = NoMessage
        BY <2>2, <2>4, <3>1
      <4> QED
        BY <4>1, NoMessageIs
    <3>2. CASE i # 1
      <4>1. i - 1 \in 1..Len(s) /\ i \in 1..Len(down) /\ (i - 1) + 1 = i
        BY <2>2, <2>4, <3>2
      <4>2. down'[i] = down[i]
        BY <2>2, <2>4, <3>2, <4>1
      <4> QED
        BY <2>5, <4>1, <4>2 DEF Inv, TokensInStep
    <3> QED
      BY <3>1, <3>2
  <2>6. TypeOK'
    BY <1>1, <1>3, <1>4, <2>4 DEF Inv, TypeOK, ClientOK
  <2>7. TokensInStep'
    BY <1>1, <1>4, <2>5 DEF Inv, TokensInStep
  <2>8. InStep'
    BY <1>4 DEF InStep
  <2> QED
    BY <1>3, <1>4, <2>6, <2>7, <2>8 DEF Inv
<1> QED
  BY <1>5, <1>6 DEF TimesOut, FindsItClosed

-----------------------------------------------------------------------------
(* The server                                                              *)

(* What holds of a server that has its connection, before and after it     *)
(* handles a message.                                                      *)
ServerOK(s) ==
    /\ s \in Servers
    /\ s.next # 0 => s.next > s.token /\ s.token # 0
    /\ s.token # 0 => s.open
    /\ ~s.renewed => ~s.cut /\ s.next = 0 /\ s.token \in {0, 1}

(* The tokens and the lifetimes that there are.                            *)
LEMMA BoundsAre ==
    /\ 0 \in 0..MaxTokens /\ 1 \in 0..MaxTokens /\ 0 \in 0..Lifetime /\ Lifetime \in 0..Lifetime
  BY LifetimeAssumption

(* A server without connections.                                           *)
LEMMA NoServerIs ==
    /\ NoServer \in Servers /\ NoServer.open = FALSE /\ NoServer.token = 0 /\ NoServer.next = 0
    /\ NoServer.cut = FALSE /\ NoServer.renewed = FALSE
<1>1. NoServer \in Servers
  BY BoundsAre DEF NoServer, Servers
<1> QED
  BY <1>1 DEF NoServer

(* A connection that ends takes its tokens with it.                        *)
LEMMA ClosedIs ==
    ASSUME NEW s \in Servers, s.cut => s.renewed
    PROVE  ServerOK(Closed(s)) /\ Closed(s).renewed = s.renewed
<1> DEFINE c == Closed(s)
<1>1. /\ c \in Servers /\ c.renewed = s.renewed /\ c.cut = s.cut
      /\ c.token = NoServer.token /\ c.next = NoServer.next
  BY NoServerIs DEF Closed, Servers
<1> HIDE DEF c
<1> QED
  BY <1>1, NoServerIs DEF ServerOK, c

(* The next token comes into force, if there is one.                       *)
LEMMA RevolvedIs ==
    ASSUME NEW s, ServerOK(s)
    PROVE  /\ ServerOK(Revolved(s)) /\ Revolved(s).renewed = s.renewed
           /\ Revolved(s).open = s.open /\ Revolved(s).session = s.session
<1>1. CASE s.next = 0
  BY <1>1 DEF Revolved
<1>2. CASE s.next # 0
  <2> DEFINE r == [s EXCEPT !.token = s.next, !.left = s.nextLeft, !.next = 0, !.nextLeft = 0]
  <2>1. Revolved(s) = r
    BY <1>2 DEF Revolved
  <2>0. s \in Servers
    BY DEF ServerOK
  <2>2. /\ r \in Servers /\ r.token = s.next /\ r.next = 0 /\ r.open = s.open
        /\ r.renewed = s.renewed /\ r.cut = s.cut /\ r.session = s.session
    BY <2>0, BoundsAre DEF Servers
  <2> HIDE DEF r
  <2> QED
    BY <1>2, <2>1, <2>2 DEF ServerOK
<1> QED
  BY <1>1, <1>2

(* A RENEW issues the next token, unless there is one already.             *)
LEMMA WithNextTokenIs ==
    ASSUME NEW s, ServerOK(s), s.token # 0, WithNextToken(s).next <= MaxTokens
    PROVE  /\ ServerOK(WithNextToken(s)) /\ WithNextToken(s).renewed
           /\ WithNextToken(s).next \in 0..MaxTokens
<1>1. CASE s.next # 0
  <2>1. WithNextToken(s) = s
    BY <1>1 DEF WithNextToken
  <2> QED
    BY <1>1, <2>1 DEF ServerOK, Servers
<1>2. CASE s.next = 0
  <2> DEFINE n == s.token + 1
             r == [s EXCEPT !.next = n, !.nextLeft = Lifetime, !.renewed = TRUE]
  <2>1. WithNextToken(s) = r
    BY <1>2 DEF WithNextToken
  <2>2. r.next = n
    BY DEF ServerOK, Servers
  <2>3. s.token \in Nat /\ n \in Nat /\ n > s.token
    BY DEF ServerOK, Servers
  <2>4. n \in 0..MaxTokens
    BY <2>1, <2>2, <2>3, LifetimeAssumption
  <2> HIDE DEF n
  <2>0. s \in Servers
    BY DEF ServerOK
  <2>5. /\ r \in Servers /\ r.token = s.token /\ r.next = n /\ r.open = s.open /\ r.renewed = TRUE
    BY <2>0, <2>4, BoundsAre DEF Servers
  <2> HIDE DEF r
  <2>6. n # 0
    BY <2>3
  <2> QED
    BY <2>1, <2>3, <2>4, <2>5, <2>6 DEF ServerOK
<1> QED
  BY <1>1, <1>2

(* What handling a message does: there is at most one answer, of the kind  *)
(* and with the id of the request, and a token is cut off or new only      *)
(* after a renewal.                                                        *)
LEMMA HandlesEffect ==
    ASSUME ServerOK(server), server.open, NEW m \in Requests, Handles(m),
           ~server.renewed => m.token \in {0, 1}
    PROVE  /\ ServerOK(server') /\ (~server'.renewed => ~server.renewed)
           /\ \/ UNCHANGED <<down, result>>
              \/ /\ m.kind # "CLO"
                 /\ \E ok \in BOOLEAN, token \in 0..MaxTokens :
                       /\ down' = Append(down, Answer(m, ok, token)) /\ Counted(m, ok)
                       /\ ~server'.renewed => token \in {0, 1}
<1>0. 0 \in 0..MaxTokens /\ 1 \in 0..MaxTokens /\ m.token \in Nat /\ m.kind \in Steps
      /\ server \in Servers /\ server.token \in Nat /\ server.next \in Nat
      /\ TRUE \in BOOLEAN /\ FALSE \in BOOLEAN
  BY LifetimeAssumption DEF Requests, ServerOK, Servers
<1>1. CASE m.kind = "HEL"
  <2>1. down' = Append(down, Answer(m, TRUE, 0)) /\ UNCHANGED <<server, result>>
    BY <1>1 DEF Handles, Services
  <2>2. Counted(m, TRUE)
    BY <1>1, <2>1 DEF Counted
  <2> QED
    BY <1>0, <1>1, <2>1, <2>2
<1>2. CASE m.kind = "OPN" /\ ~m.renew
  <2> DEFINE s == [server EXCEPT !.token = 1, !.left = Lifetime]
  <2>1. /\ \/ server' = s /\ down' = Append(down, Answer(m, TRUE, 1))
           \/ server' = Closed(server) /\ UNCHANGED down
        /\ UNCHANGED result
    BY <1>2 DEF Handles, Services
  <2>2. /\ s \in Servers /\ s.token = 1 /\ s.next = server.next /\ s.open = server.open
        /\ s.renewed = server.renewed /\ s.cut = server.cut
    BY <1>0, BoundsAre DEF Servers
  <2> HIDE DEF s
  <2>3. ServerOK(s)
    BY <1>0, <2>2 DEF ServerOK
  <2>4. Counted(m, TRUE)
    BY <1>2, <2>1 DEF Counted
  <2>5. CASE server' = Closed(server) /\ UNCHANGED down
    BY <1>0, <2>1, <2>5, ClosedIs DEF ServerOK
  <2> QED
    BY <1>0, <1>2, <2>1, <2>2, <2>3, <2>4, <2>5
<1>3. CASE m.kind = "OPN" /\ m.renew /\ server.token = 0
  <2>1. server' = Closed(server) /\ UNCHANGED <<down, result>>
    BY <1>3 DEF Handles, Services
  <2> QED
    BY <1>0, <2>1, ClosedIs DEF ServerOK
<1>4. CASE m.kind = "OPN" /\ m.renew /\ server.token # 0
  <2> DEFINE s == WithNextToken(server)
  <2>1. /\ server' = s /\ s.next <= MaxTokens /\ UNCHANGED result
        /\ down' = Append(down, Answer(m, TRUE, s.next))
    BY <1>4 DEF Handles, Services
  <2>2. Counted(m, TRUE)
    BY <1>4, <2>1 DEF Counted
  <2> QED
    BY <1>0, <1>4, <2>1, <2>2, WithNextTokenIs
<1>5. CASE m.kind = "CLO"
  <2>1. server' = Closed(server) /\ UNCHANGED <<down, result>>
    BY <1>5 DEF Handles, Services
  <2> QED
    BY <1>0, <2>1, ClosedIs DEF ServerOK
<1>6. CASE m.kind \in Services /\ m.token = 0
  <2>1. UNCHANGED <<server, down, result>>
    BY <1>6 DEF Handles, Services
  <2> QED
    BY <2>1
<1>7. CASE m.kind \in Services /\ m.token # 0 /\ server.token # 0
             /\ m.token \notin {server.token, server.next}
  <2> DEFINE s == [server EXCEPT !.cut = TRUE]
  <2>1. server' = Closed(s) /\ UNCHANGED <<down, result>>
    BY <1>7 DEF Handles, Services
  <2>2. s \in Servers /\ s.renewed = server.renewed
    BY <1>0 DEF Servers
  <2> HIDE DEF s
  <2>3. server.renewed
    BY <1>0, <1>7 DEF ServerOK
  <2> QED
    BY <2>1, <2>2, <2>3, ClosedIs
<1>8. CASE m.kind \in Services /\ m.token # 0
             /\ (server.token # 0 => m.token \in {server.token, server.next})
  <2> DEFINE s == IF m.token = server.token THEN server ELSE Revolved(server)
  <2>1. PICK free \in BOOLEAN :
           /\ server' = WithSession(s, m, IsDone(s, m, free))
           /\ down' = Append(down, Answer(m, IsDone(s, m, free), 0))
           /\ Counted(m, IsDone(s, m, free))
    BY <1>0, <1>8 DEF Handles, Services
  <2>2. ServerOK(s) /\ s.renewed = server.renewed
    BY RevolvedIs
  <2> HIDE DEF s
  <2> DEFINE ok == IsDone(s, m, free)
             r == WithSession(s, m, ok)
  <2>3. ok \in BOOLEAN
    BY DEF IsDone
  <2> HIDE DEF ok
  <2>5. /\ r \in Servers /\ r.token = s.token /\ r.next = s.next /\ r.open = s.open
        /\ r.renewed = s.renewed /\ r.cut = s.cut
    <3> DEFINE session == CASE m.kind = "CreateSession" /\ ok -> "created"
                            [] m.kind = "ActivateSession" /\ ok -> "active"
                            [] m.kind = "CloseSession" /\ ok -> "none"
                            [] OTHER -> s.session
    <3>1. s \in Servers /\ r = [s EXCEPT !.session = session]
      BY <2>2 DEF ServerOK, WithSession
    <3>2. session \in {"none", "created", "active"}
      BY <3>1 DEF Servers
    <3> HIDE DEF session, r
    <3> QED
      BY <3>1, <3>2 DEF Servers
  <2>8. server' = r /\ down' = Append(down, Answer(m, ok, 0)) /\ Counted(m, ok)
    BY <2>1 DEF ok
  <2> HIDE DEF r
  <2>6. ServerOK(r)
    BY <2>2, <2>5 DEF ServerOK
  <2>7. m.kind # "CLO"
    BY <1>8 DEF Services
  <2> QED
    BY <1>0, <2>2, <2>3, <2>5, <2>6, <2>7, <2>8
<1> QED
  BY <1>0, <1>1, <1>2, <1>3, <1>4, <1>5, <1>6, <1>7, <1>8 DEF Steps

(* A step of the server or of the network keeps what concerns the client.  *)
LEMMA OtherStep ==
    ASSUME Inv, UNCHANGED client, ServerOK(server'),
           result' \in [status : {"none", "Good", "Bad"}, done : Nat],
           ~server'.renewed => ~server.renewed,
           up' \in Seq(Requests), down' \in Seq(Message),
           ~server'.renewed => /\ \A i \in 1..Len(up') : up'[i].token \in {0, 1}
                               /\ \A i \in 1..Len(down') : down'[i].token \in {0, 1},
           Nothing => Nothing', Asked => (Nothing \/ Asked \/ AnswerComes)',
           AnswerComes => (Nothing \/ AnswerComes)'
    PROVE  Inv'
<1>1. TypeOK' /\ ClientOK(client')
  BY DEF Inv, TypeOK, ServerOK
<1>2. TokensInStep'
  BY DEF Inv, TokensInStep, ServerOK
<1>3. InStep'
  BY DEF Inv, InStep
<1> QED
  BY <1>1, <1>2, <1>3 DEF Inv

(* The invariant says of the server what its own steps need.               *)
LEMMA ServerIsOK ==
    ASSUME Inv PROVE ServerOK(server)
  BY DEF Inv, TypeOK, TokensInStep, ServerOK

(* The server handles the request that waited longest.                     *)
LEMMA ServerHandlesStep ==
    ASSUME Inv, ServerHandles PROVE Inv'
<1> DEFINE m == Head(up)
<1>1. /\ server.open /\ up # <<>> /\ up' = Tail(up) /\ Handles(m) /\ UNCHANGED client
      /\ up \in Seq(Requests) /\ down \in Seq(Message)
  BY DEF ServerHandles, Inv, TypeOK
<1>2. /\ up' \in Seq(Requests) /\ Len(up) \in Nat /\ Len(up) >= 1 /\ Len(up') = Len(up) - 1
      /\ \A i \in 1..Len(up') : up'[i] = up[i + 1]
      /\ m = up[1] /\ m \in Requests
  <2>1. Len(up) \in Nat /\ Len(up) # 0
    BY <1>1, EmptySeq
  <2> QED
    BY <1>1, <2>1, HeadTailProperties
<1> HIDE DEF m
<1>3. ASSUME NEW i \in 1..Len(up') PROVE i + 1 \in 1..Len(up) /\ up'[i] = up[i + 1]
  BY <1>2
<1>4. 1 \in 1..Len(up)
  BY <1>2
<1>5. ~server.renewed => \A i \in 1..Len(up) : up[i].token \in {0, 1}
  BY DEF Inv, TokensInStep
<1>6. ~server.renewed => \A i \in 1..Len(down) : down[i].token \in {0, 1}
  BY DEF Inv, TokensInStep
<1>7. /\ ServerOK(server') /\ (~server'.renewed => ~server.renewed)
      /\ \/ UNCHANGED <<down, result>>
         \/ /\ m.kind # "CLO"
            /\ \E ok \in BOOLEAN, token \in 0..MaxTokens :
                  /\ down' = Append(down, Answer(m, ok, token)) /\ Counted(m, ok)
                  /\ ~server'.renewed => token \in {0, 1}
  BY <1>1, <1>2, <1>4, <1>5, ServerIsOK, HandlesEffect
<1>12. result' \in [status : {"none", "Good", "Bad"}, done : Nat]
  <2>1. result \in [status : {"none", "Good", "Bad"}, done : Nat]
    BY DEF Inv, TypeOK
  <2> QED
    BY <1>7, <2>1 DEF Counted
<1>8. ~server'.renewed => \A i \in 1..Len(up') : up'[i].token \in {0, 1}
  BY <1>3, <1>5, <1>7
<1>9. OnlyCLO(up, Len(up)) => OnlyCLO(up', Len(up')) /\ m.kind = "CLO"
  BY <1>2, <1>3, <1>4 DEF OnlyCLO
<1>10. CASE UNCHANGED down
  <2>1. Nothing => Nothing'
    BY <1>9, <1>10 DEF Nothing
  <2>2. Asked => (Nothing \/ Asked)'
    <3> SUFFICES ASSUME Asked PROVE Nothing' \/ Asked'
      BY DEF Asked
    <3>1. CASE Len(up) = 1
      BY <1>1, <1>2, <1>10, <3>1 DEF Asked, Nothing, OnlyCLO
    <3>2. CASE Len(up) # 1
      <4>1. /\ Len(up') \in Nat /\ Len(up') >= 1 /\ Len(up') + 1 = Len(up) /\ Len(up') - 1 \in Nat
            /\ Len(up') \in 1..Len(up')
        BY <1>2, <3>2
      <4>2. up'[Len(up')] = up[Len(up)] /\ up' # <<>>
        BY <1>2, <4>1
      <4>3. ASSUME NEW i \in 1..(Len(up') - 1) PROVE up'[i].kind = "CLO"
        <5>1. i \in 1..Len(up') /\ i + 1 \in 1..(Len(up) - 1)
          BY <1>2, <4>1
        <5> QED
          BY <1>2, <5>1 DEF Asked, OnlyCLO
      <4>4. OnlyCLO(up', Len(up') - 1)
        BY <4>3 DEF OnlyCLO
      <4> QED
        BY <1>1, <1>10, <4>2, <4>4 DEF Asked
    <3> QED
      BY <3>1, <3>2
  <2>3. AnswerComes => AnswerComes'
    BY <1>1, <1>9, <1>10 DEF AnswerComes
  <2> QED
    BY <1>1, <1>2, <1>6, <1>7, <1>8, <1>10, <1>12, <2>1, <2>2, <2>3, OtherStep
<1>11. CASE down' # down
  <2>1. PICK ok \in BOOLEAN, token \in 0..MaxTokens :
          down' = Append(down, Answer(m, ok, token)) /\ (~server'.renewed => token \in {0, 1})
    BY <1>7, <1>11
  <2>2. m.kind # "CLO"
    BY <1>7, <1>11
  <2> DEFINE a == Answer(m, ok, token)
  <2>3. a \in Message /\ a.kind = m.kind /\ a.id = m.id /\ a.token = token
    BY <1>2 DEF Answer, Message, Requests
  <2> HIDE DEF a
  <2>4. /\ down' = Append(down, a) /\ down' \in Seq(Message)
        /\ Len(down) \in Nat /\ Len(down') = Len(down) + 1
        /\ \A i \in 1..Len(down) : down'[i] = down[i]
        /\ down'[Len(down) + 1] = a
    BY <1>1, <2>1, <2>3, AppendProperties DEF a
  <2>5. ASSUME ~server'.renewed, NEW i \in 1..Len(down') PROVE down'[i].token \in {0, 1}
    <3>1. i \in 1..Len(down) \/ i = Len(down) + 1
      BY <2>4
    <3> QED
      BY <1>6, <1>7, <2>1, <2>3, <2>4, <2>5, <3>1
  <2>6. ~OnlyCLO(up, Len(up))
    BY <1>9, <2>2
  <2>7. Asked => AnswerComes'
    <3> SUFFICES ASSUME Asked PROVE AnswerComes'
      OBVIOUS
    <3>1. Len(up) = 1
      <4> SUFFICES ASSUME Len(up) # 1 PROVE FALSE
        OBVIOUS
      <4>1. 1 \in 1..(Len(up) - 1)
        BY <1>2
      <4> QED
        BY <1>2, <2>2, <4>1 DEF Asked, OnlyCLO
    <3>2. Len(up') = 0 /\ Len(down) = 0
      BY <1>2, <3>1 DEF Asked
    <3>3. OnlyCLO(up', Len(up')) /\ Len(down') = 1 /\ down'[1] = a
      BY <2>4, <3>2 DEF OnlyCLO
    <3>4. Fits(client, m)
      BY <1>2, <3>1 DEF Asked
    <3>5. Fits(client, a)
      BY <2>3, <3>4 DEF Fits
    <3> QED
      BY <1>1, <3>3, <3>5 DEF AnswerComes, Asked
  <2> QED
    BY <1>1, <1>2, <1>7, <1>8, <1>12, <2>4, <2>5, <2>6, <2>7, OtherStep DEF Nothing, AnswerComes
<1> QED
  BY <1>10, <1>11

(* What was on its way may be lost; of the answers, the later ones.        *)
LEMMA LosesMessages ==
    ASSUME Inv, UNCHANGED client, ServerOK(server'),
           result' \in [status : {"none", "Good", "Bad"}, done : Nat],
           ~server'.renewed => ~server.renewed,
           up' = up \/ up' = <<>>,
           down' = down \/ \E n \in 0..Len(down) : down' = SubSeq(down, 1, n)
    PROVE  Inv'
<1>1. up \in Seq(Requests) /\ down \in Seq(Message) /\ Len(down) \in Nat
  BY DEF Inv, TypeOK
<1>2. /\ up' \in Seq(Requests)
      /\ ~server'.renewed => \A i \in 1..Len(up') : up'[i].token \in {0, 1}
      /\ OnlyCLO(up, Len(up)) => OnlyCLO(up', Len(up'))
      /\ up' = <<>> => OnlyCLO(up', Len(up'))
  <2>1. CASE up' = up
    BY <1>1, <2>1 DEF Inv, TokensInStep, OnlyCLO
  <2>2. CASE up' = <<>>
    BY <2>2 DEF OnlyCLO
  <2> QED
    BY <2>1, <2>2
<1>3. /\ down' \in Seq(Message) /\ Len(down') \in 0..Len(down)
      /\ \A i \in 1..Len(down') : i \in 1..Len(down) /\ down'[i] = down[i]
  <2>1. CASE down' = down
    BY <1>1, <2>1
  <2>2. ASSUME NEW n \in 0..Len(down), down' = SubSeq(down, 1, n)
        PROVE  <1>3!:
    <3>1. n \in Nat /\ n \in (1 - 1)..Len(down) /\ n \in 0..Len(down)
      BY <1>1
    <3>2. /\ down' \in Seq(Message) /\ Len(down') = (IF 1 <= n THEN n - 1 + 1 ELSE 0)
          /\ \A i \in 1..(n - 1 + 1) : down'[i] = down[1 + i - 1]
      BY <1>1, <2>2, <3>1, SubSeqProperties
    <3>3. Len(down') = n
      BY <3>1, <3>2
    <3>4. \A i \in 1..n : i \in 1..Len(down) /\ down'[i] = down[i]
      BY <1>1, <3>1, <3>2
    <3> QED
      BY <3>1, <3>2, <3>3, <3>4
  <2> QED
    BY <2>1, <2>2
<1>4. ~server'.renewed => \A i \in 1..Len(down') : down'[i].token \in {0, 1}
  BY <1>3 DEF Inv, TokensInStep
<1>5. down = <<>> => down' = <<>>
  BY <1>3, EmptySeq
<1>6. Nothing => Nothing'
  BY <1>2, <1>5 DEF Nothing
<1>7. Asked => (Nothing \/ Asked)'
  BY <1>2, <1>5 DEF Asked, Nothing
<1>8. AnswerComes => (Nothing \/ AnswerComes)'
  <2> SUFFICES ASSUME AnswerComes PROVE Nothing' \/ AnswerComes'
    OBVIOUS
  <2>1. CASE Len(down') = 0
    BY <1>2, <1>3, <2>1, EmptySeq DEF AnswerComes, Nothing
  <2>2. CASE Len(down') = 1
    BY <1>2, <1>3, <2>2 DEF AnswerComes
  <2> QED
    BY <1>3, <2>1, <2>2 DEF AnswerComes
<1> QED
  BY <1>2, <1>3, <1>4, <1>6, <1>7, <1>8, OtherStep

(* The server drops the channel or revolves its tokens, or the connection  *)
(* breaks.                                                                 *)
LEMMA CleanupStep ==
    ASSUME Inv, Cleanup \/ Break PROVE Inv'
<1>1. ServerOK(server) /\ server \in Servers /\ (server.cut => server.renewed)
  BY ServerIsOK DEF ServerOK, Servers
<1>2. ServerOK(Closed(server)) /\ Closed(server).renewed = server.renewed
  BY <1>1, ClosedIs
<1>3. ServerOK(Revolved(server)) /\ Revolved(server).renewed = server.renewed
  BY <1>1, RevolvedIs
<1>6. result \in [status : {"none", "Good", "Bad"}, done : Nat]
  BY DEF Inv, TypeOK
<1>4. CASE Cleanup
  BY <1>2, <1>3, <1>4, <1>6, LosesMessages DEF Cleanup
<1>5. CASE Break
  BY <1>2, <1>5, <1>6, LosesMessages DEF Break
<1> QED
  BY <1>4, <1>5

(* Time passes.                                                            *)
LEMMA TickStep ==
    ASSUME Inv, Tick PROVE Inv'
<1> DEFINE expires == Less(client.expires)
           left == Less(server.left)
           nextLeft == Less(server.nextLeft)
           c == [client EXCEPT !.expires = expires]
           s == [server EXCEPT !.left = left, !.nextLeft = nextLeft]
<1>1. client' = c /\ server' = s /\ UNCHANGED <<up, down, result>>
  BY DEF Tick
<1>2. ClientOK(client) /\ client \in Clients /\ server \in Servers
  BY DEF Inv, ClientOK, TypeOK
<1>3. ASSUME NEW n \in 0..Lifetime PROVE Less(n) \in 0..Lifetime
  BY LifetimeAssumption DEF Less
<1>4. expires \in 0..Lifetime /\ left \in 0..Lifetime /\ nextLeft \in 0..Lifetime
  BY <1>2, <1>3 DEF Clients, Servers
<1> HIDE DEF expires, left, nextLeft
<1>5. /\ c \in Clients /\ c.state = client.state /\ c.conn = client.conn /\ c.sock = client.sock
      /\ c.close = client.close /\ c.token = client.token /\ c.requestId = client.requestId
      /\ c.task = client.task /\ c.step = client.step /\ c.pc = client.pc /\ c.renew = client.renew
      /\ c.strayed = client.strayed
  BY <1>2, <1>4 DEF Clients
<1>6. /\ s \in Servers /\ s.open = server.open /\ s.token = server.token /\ s.next = server.next
      /\ s.renewed = server.renewed /\ s.cut = server.cut
  BY <1>2, <1>4 DEF Servers
<1> HIDE DEF c, s
<1>7. TaskOK(c) /\ FreshOK(c) /\ SocketOK(c)
  BY <1>2, <1>5 DEF ClientOK, TaskOK, FreshOK, SocketOK
<1>8. TypeOK'
  BY <1>1, <1>5, <1>6 DEF Inv, TypeOK
<1>9. TokensInStep'
  BY <1>1, <1>5, <1>6 DEF Inv, TokensInStep
<1>10. InStep'
  <2>1. \A m : Fits(client, m) => Fits(c, m)
    BY <1>5 DEF Fits, AwaitsOPN
  <2>2. Active(c) => Active(client)
    BY <1>5 DEF Active
  <2>3. Nothing => Nothing'
    BY <1>1 DEF Nothing
  <2>4. Asked => Asked'
    BY <1>1, <1>5, <2>1 DEF Asked
  <2>5. AnswerComes => AnswerComes'
    BY <1>1, <1>5, <2>1 DEF AnswerComes
  <2> QED
    BY <1>1, <1>5, <2>2, <2>3, <2>4, <2>5 DEF Inv, InStep
<1> QED
  BY <1>1, <1>5, <1>7, <1>8, <1>9, <1>10 DEF Inv, ClientOK

-----------------------------------------------------------------------------
(* Calls are executed once                                                 *)

Connected(c) == c.state \in {"CONNECTED", "ERRORED"}
Connecting(c) == c.task = "connect" /\ c.conn # "closed"

(* A client that does not call: it is no more connected than before, or    *)
(* has just finished connecting, and its ids have not become smaller.      *)
Tame(c, d) ==
    /\ d.task # "call"
    /\ Connected(d) => Connecting(c) \/ (Connected(c) /\ d.requestId >= c.requestId)
    /\ Connecting(d) => Connecting(c)

(* The last call that was made, on its way to the server or back.          *)
LastCall(m) == m.kind = "Call" /\ ~m.late
(* A call that was begun and whose request is yet to be sent.              *)
Unsent(c) == c.task = "call" /\ (c.pc = "send" \/ c.renew = "asked")
Asking(c) == c.task = "call" /\ c.pc = "wait" /\ c.renew # "asked"

(* No id of a call is ahead of the client, those of earlier calls are      *)
(* behind the one it waits for, and a connection begins without calls.     *)
Behind(c, m) ==
    m.kind = "Call" =>
        /\ Connected(c) => m.id <= c.requestId
        /\ Asking(c) /\ m.late => m.id < c.requestId
        /\ ~Connecting(c)

(* The last call is on its way once, before it is executed.                *)
RequestedOnce ==
    /\ \A i, j \in 1..Len(up) : LastCall(up[i]) /\ LastCall(up[j]) => i = j
    /\ \A i \in 1..Len(up) : LastCall(up[i]) => result.done = 0 /\ ~Unsent(client)
    /\ \A i \in 1..Len(up) : Behind(client, up[i])
AnsweredOnce ==
    /\ \A i \in 1..Len(down) : LastCall(down[i]) =>
          (down[i].ok => result.done = 1) /\ ~Unsent(client)
    /\ \A i \in 1..Len(down) : Behind(client, down[i])

DoneInv ==
    /\ RequestedOnce /\ AnsweredOnce /\ CallsAreDoneOnce
    /\ Unsent(client) => result.done = 0

(* A client that is cleaned up forgets its connection.                     *)
LEMMA CleanedTame ==
    ASSUME NEW b, NEW c \in Clients
    PROVE  Tame(b, Cleaned(c))
<1> DEFINE i == Initialised(c)
<1>1. /\ i \in Clients /\ i.state \in {"READY", "deleted"} /\ i.conn = "closed" /\ i.task = "none"
  BY InitialisedFields
<1> HIDE DEF i
<1>2. CASE c.then = "connect"
  <2> DEFINE d == At(i, "connect", "HEL")
  <2>1. d.task = "connect" /\ d.state = i.state /\ d.conn = i.conn
    <3>1. "connect" \in Tasks /\ "HEL" \in Steps
      BY DEF Tasks, Steps
    <3> QED
      BY <1>1, <3>1, AtFields
  <2>2. Cleaned(c) = d
    BY <1>2 DEF Cleaned, i
  <2> HIDE DEF d
  <2> QED
    BY <1>1, <2>1, <2>2 DEF Tame, Connected, Connecting
<1>3. CASE c.then # "connect"
  <2> DEFINE d == Idle(i)
  <2>1. d.task = "none" /\ d.state = i.state
    BY <1>1, IdleFields
  <2>2. Cleaned(c) = d
    BY <1>3 DEF Cleaned, i
  <2> HIDE DEF d
  <2> QED
    BY <1>1, <2>1, <2>2 DEF Tame, Connected, Connecting
<1> QED
  BY <1>2, <1>3

(* So does one that has no session to close first.                         *)
LEMMA CleanUpTame ==
    ASSUME NEW b \in Clients, NEW c \in Clients, NEW then \in {"return", "delete", "connect"},
           Connected(b) \/ (b.task = "connect" /\ b.conn = c.conn),
           c.requestId = b.requestId
    PROVE  Tame(b, CleanUp(c, then))
<1> DEFINE e == [c EXCEPT !.then = then]
<1>1. e \in Clients /\ e.state = c.state /\ e.requestId = c.requestId
  BY DEF Clients
<1>2. CleanUp(c, then) = IF c.conn = "established" THEN At(e, "clean", "CloseSession") ELSE Cleaned(e)
  BY DEF CleanUp
<1> HIDE DEF e
<1>3. CASE c.conn = "established"
  <2> DEFINE d == At(e, "clean", "CloseSession")
  <2>1. d.task = "clean" /\ d.requestId = e.requestId
    BY <1>1, AtFields DEF Tasks, Steps, Services
  <2> HIDE DEF d
  <2>2. b.requestId \in Nat /\ d.requestId >= b.requestId
    BY <1>1, <2>1 DEF Clients
  <2>3. Connecting(b) \/ Connected(b)
    BY <1>3 DEF Connecting
  <2> QED
    BY <1>2, <1>3, <2>1, <2>2, <2>3 DEF Tame, Connecting, d
<1> QED
  BY <1>1, <1>2, <1>3, CleanedTame

(* A step that failed, of a client or of one that has lost its connection. *)
LEMMA FailedTame ==
    ASSUME NEW b \in Clients, NEW c \in Clients, TaskOK(b), b.task # "none", c.task = b.task,
           c.requestId = b.requestId, c.conn \in {b.conn, "closed"}
    PROVE  Tame(b, Failed(c))
<1>1. b.task \in {"connect", "clean", "call", "renew", "disconnect"} /\ b.requestId \in Nat
  BY DEF Clients, Tasks
<1>2. CASE b.task = "connect"
  <2>1. /\ Errored(c) \in Clients /\ Errored(c).requestId = c.requestId /\ Errored(c).conn = c.conn
    BY ErroredFields
  <2>2. Failed(c) = CleanUp(Errored(c), "return")
    BY <1>2 DEF Failed
  <2>3. CASE c.conn = b.conn
    BY <1>2, <2>1, <2>2, <2>3, CleanUpTame
  <2>4. CASE c.conn = "closed"
    <3> DEFINE e == [Errored(c) EXCEPT !.then = "return"]
    <3>1. e \in Clients /\ Failed(c) = Cleaned(e)
      BY <2>1, <2>2, <2>4 DEF CleanUp, Clients
    <3> HIDE DEF e
    <3> QED
      BY <3>1, CleanedTame
  <2> QED
    BY <2>3, <2>4
<1>3. CASE b.task = "clean"
  BY <1>3, CleanedTame DEF Failed
<1>4. CASE b.task \in {"call", "renew", "disconnect"}
  <2>1. Failed(c) = Idle(c)
    BY <1>4 DEF Failed
  <2>2. Idle(c).task = "none" /\ Idle(c).requestId = c.requestId
    BY IdleFields
  <2>3. Connected(b)
    BY <1>4 DEF TaskOK, Connected
  <2> QED
    BY <1>1, <2>1, <2>2, <2>3 DEF Tame, Connecting
<1> QED
  BY <1>1, <1>2, <1>3, <1>4

LEMMA ServiceFailedTame ==
    ASSUME NEW b \in Clients, NEW c \in Clients, TaskOK(b), b.task # "none", c.task = b.task,
           c.requestId = b.requestId, c.conn \in {b.conn, "closed"}
    PROVE  Tame(b, ServiceFailed(c))
<1>1. /\ Errored(c) \in Clients /\ Errored(c).task = c.task /\ Errored(c).conn = c.conn
      /\ Errored(c).requestId = c.requestId
  BY ErroredFields
<1> QED
  BY <1>1, FailedTame DEF ServiceFailed

LEMMA GivesUpTame ==
    ASSUME NEW b \in Clients, NEW c, ClientOK(c), TaskOK(b), b.task # "none", c.task = b.task,
           c.step # "CLO", c.requestId = b.requestId, c.conn \in {b.conn, "closed"}, Working(c)
    PROVE  Tame(b, GivesUp(c)) /\ Tame(b, Mistaken(c))
<1>1. c \in Clients
  BY DEF ClientOK
<1>2. Tame(b, ServiceFailed(c)) /\ Tame(b, Failed(c))
  BY <1>1, ServiceFailedTame, FailedTame
<1> DEFINE f == ServiceFailed(c)
           g == [f EXCEPT !.strayed = TRUE]
<1>3. f \in Clients
  BY ServiceFailedFollows DEF Follows, ClientOK
<1> HIDE DEF f
<1>4. g.task = f.task /\ g.state = f.state /\ g.conn = f.conn /\ g.requestId = f.requestId
  BY <1>3 DEF Clients
<1>5. Strays(c, f) \in {f, g}
  BY DEF Strays
<1> HIDE DEF g
<1>6. Tame(b, Strays(c, f))
  BY <1>2, <1>4, <1>5 DEF Tame, Connected, Connecting, f
<1> QED
  BY <1>2, <1>6 DEF GivesUp, Mistaken, f

(* A step that succeeded.                                                  *)
LEMMA SucceededTame ==
    ASSUME NEW b \in Clients, TaskOK(b), b.pc = "wait", NEW c \in Clients, c.task = b.task,
           c.step = b.step, c.requestId = b.requestId
    PROVE  Tame(b, Succeeded(c))
<1>0. b.task # "none" /\ (b.task = "connect" => Connecting(b)) /\ c.requestId \in Nat
      /\ b.task \in {"connect", "clean", "call", "renew", "disconnect"}
  BY DEF TaskOK, Connecting, Clients, Tasks
<1>1. CASE b.task = "connect" /\ b.step # "ActivateSession"
  <2>1. b.step \in {"HEL", "OPN", "GetEndpoints", "CreateSession"}
    BY <1>1 DEF TaskOK, HandshakeSteps
  <2>2. NextStep(c.step) \in Steps
    BY <2>1, NextStepIs DEF Steps, Services
  <2>3. Succeeded(c) = At(c, "connect", NextStep(c.step))
    BY <1>1 DEF Succeeded
  <2>4. Succeeded(c).task = "connect"
    <3>1. "connect" \in Tasks
      BY DEF Tasks
    <3> QED
      BY <2>2, <2>3, <3>1, AtFields
  <2> QED
    BY <1>0, <1>1, <2>4 DEF Tame
<1>2. CASE b.task = "connect" /\ b.step = "ActivateSession"
  <2> DEFINE e == [c EXCEPT !.conn = "established", !.state = "CONNECTED"]
  <2>1. e \in Clients
    BY DEF Clients
  <2>2. Succeeded(c) = Idle(e)
    BY <1>2 DEF Succeeded
  <2> HIDE DEF e
  <2>3. Succeeded(c).task = "none"
    BY <2>1, <2>2, IdleFields
  <2> QED
    BY <1>0, <1>2, <2>3 DEF Tame, Connecting
<1>3. CASE b.task \in {"clean", "disconnect"}
  <2>1. Succeeded(c) = At(c, c.task, "CLO")
    BY <1>3 DEF Succeeded
  <2>2. Succeeded(c).task = b.task /\ Succeeded(c).requestId = c.requestId
    <3>1. c.task \in Tasks /\ "CLO" \in Steps
      BY <1>3 DEF Tasks, Steps
    <3> QED
      BY <2>1, <3>1, AtFields
  <2>3. Connected(b)
    BY <1>3 DEF TaskOK, Connected
  <2> QED
    BY <1>0, <1>3, <2>2, <2>3 DEF Tame, Connecting
<1>4. CASE b.task \in {"call", "renew"}
  <2>1. Succeeded(c) = Idle(c)
    BY <1>4 DEF Succeeded
  <2>2. Succeeded(c).task = "none" /\ Succeeded(c).requestId = c.requestId
    BY <2>1, IdleFields
  <2>3. Connected(b)
    BY <1>4 DEF TaskOK, Connected
  <2> QED
    BY <1>0, <2>2, <2>3 DEF Tame, Connecting
<1> QED
  BY <1>0, <1>1, <1>2, <1>3, <1>4

(* An answer: the request can be sent when the channel has been renewed,   *)
(* and other answers end the step.                                         *)
LEMMA AnsweredTame ==
    ASSUME NEW c, ClientOK(c), c.pc = "wait", NEW m \in Message
    PROVE  LET d == Answered(c, m)
           IN  \/ Tame(c, d)
               \/ /\ c.renew = "asked" /\ d.pc = "send" /\ d.renew = "done"
                  /\ d.task = c.task /\ d.state = c.state /\ d.conn = c.conn
                  /\ d.requestId = c.requestId
<1>1. c \in Clients /\ TaskOK(c) /\ c.task # "none"
  BY DEF ClientOK, TaskOK
<1> DEFINE t == TakesToken(c, m)
<1>2. /\ t \in Clients /\ t.task = c.task /\ t.step = c.step /\ t.conn = c.conn
      /\ t.state = c.state /\ t.requestId = c.requestId
  <2> DEFINE token == IF m.ok /\ c.step = "OPN" /\ c.task = "connect" THEN m.token ELSE c.token
             expires == IF m.ok THEN Lifetime ELSE 0
  <2>1. t = [c EXCEPT !.token = token, !.expires = expires]
    BY DEF TakesToken
  <2>2. token \in 0..MaxTokens /\ expires \in 0..Lifetime
    BY <1>1, BoundsAre DEF Message, Clients
  <2> HIDE DEF token, expires
  <2> QED
    BY <1>1, <2>1, <2>2 DEF Clients
<1> HIDE DEF t
<1>3. m.ok \in BOOLEAN
  BY DEF Message
<1>4. CASE AwaitsOPN(c) /\ m.ok /\ c.renew = "asked"
  <2> DEFINE d == [t EXCEPT !.renew = "done", !.pc = "send"]
  <2>1. Answered(c, m) = d
    BY <1>4 DEF Answered, t
  <2>2. /\ d.pc = "send" /\ d.renew = "done" /\ d.task = t.task /\ d.state = t.state
        /\ d.conn = t.conn /\ d.requestId = t.requestId
    BY <1>2 DEF Clients
  <2> HIDE DEF d
  <2> QED
    BY <1>2, <1>4, <2>1, <2>2
<1>5. CASE AwaitsOPN(c) /\ m.ok /\ c.renew # "asked"
  <2>1. Answered(c, m) = Succeeded(t)
    BY <1>5 DEF Answered, t
  <2> QED
    BY <1>1, <1>2, <2>1, SucceededTame
<1>6. CASE AwaitsOPN(c) /\ ~m.ok
  <2>1. Answered(c, m) = ServiceFailed(t)
    BY <1>6 DEF Answered, t
  <2> QED
    BY <1>1, <1>2, <2>1, ServiceFailedTame
<1>7. CASE ~AwaitsOPN(c) /\ ~m.ok
  <2>1. Answered(c, m) = Failed(c)
    BY <1>7 DEF Answered
  <2> QED
    BY <1>1, <2>1, FailedTame
<1>8. CASE ~AwaitsOPN(c) /\ m.ok
  <2> DEFINE h == HelAckHandshake(c)
  <2>1. /\ h \in Clients /\ h.task = c.task /\ h.step = c.step /\ h.requestId = c.requestId
    BY <1>1 DEF HelAckHandshake, Clients
  <2>2. Answered(c, m) \in {Succeeded(h), Succeeded(c)}
    BY <1>8 DEF Answered
  <2> HIDE DEF h
  <2> QED
    BY <1>1, <2>1, <2>2, SucceededTame
<1> QED
  BY <1>3, <1>4, <1>5, <1>6, <1>7, <1>8

-----------------------------------------------------------------------------
(* A message that did not get ahead of a client is not ahead of it when it  *)
(* is tame.                                                                *)
LEMMA StaysBehind ==
    ASSUME NEW b \in Clients, NEW d \in Clients, NEW m, m.id \in Nat,
           Tame(b, d), Behind(b, m)
    PROVE  Behind(d, m)
<1>1. b.requestId \in Nat /\ d.requestId \in Nat
  BY DEF Clients
<1> QED
  BY <1>1 DEF Tame, Behind, Asking

LEMMA IdsAreNumbers ==
    ASSUME Inv
    PROVE  /\ \A i \in 1..Len(up) : up[i].id \in Nat
           /\ \A i \in 1..Len(down) : down[i].id \in Nat
<1>1. up \in Seq(Requests) /\ down \in Seq(Message)
  BY DEF Inv, TypeOK
<1>2. /\ \A i \in 1..Len(up) : up[i] \in Requests
      /\ \A i \in 1..Len(down) : down[i] \in Message
  BY <1>1
<1> QED
  BY <1>2 DEF Requests, Message

(* What a step of a client that does not call needs.                       *)
LEMMA TameStep ==
    ASSUME Inv, Inv', DoneInv, Tame(client, client'), UNCHANGED up,
           \A i \in 1..Len(down') :
              down'[i].kind = "rest" \/ \E j \in 1..Len(down) : down'[i] = down[j],
           result'.done = result.done, result'.status = "Good" => result.done = 1
    PROVE  DoneInv'
<1>1. client \in Clients /\ client' \in Clients /\ ~Unsent(client')
  BY DEF Inv, ClientOK, Tame, Unsent
<1>2. /\ \A i \in 1..Len(up) : up[i].id \in Nat
      /\ \A i \in 1..Len(down) : down[i].id \in Nat
  BY IdsAreNumbers
<1>3. RequestedOnce'
  <2>1. \A i \in 1..Len(up) : Behind(client', up[i])
    BY <1>1, <1>2, StaysBehind DEF DoneInv, RequestedOnce
  <2> QED
    BY <1>1, <2>1 DEF DoneInv, RequestedOnce
<1>4. AnsweredOnce'
  <2>1. \A i \in 1..Len(down) : Behind(client', down[i])
    BY <1>1, <1>2, StaysBehind DEF DoneInv, AnsweredOnce
  <2>2. ASSUME NEW i \in 1..Len(down')
        PROVE  /\ LastCall(down'[i]) => (down'[i].ok => result'.done = 1)
               /\ Behind(client', down'[i])
    <3>1. CASE down'[i].kind = "rest"
      BY <3>1 DEF LastCall, Behind
    <3>2. ASSUME NEW j \in 1..Len(down), down'[i] = down[j]
          PROVE  /\ LastCall(down'[i]) => (down'[i].ok => result'.done = 1)
                 /\ Behind(client', down'[i])
      BY <2>1, <3>2 DEF DoneInv, AnsweredOnce
    <3>3. down'[i].kind = "rest" \/ \E j \in 1..Len(down) : down'[i] = down[j]
      OBVIOUS
    <3> QED
      BY <3>1, <3>2, <3>3
  <2> QED
    BY <1>1, <2>2 DEF AnsweredOnce
<1> QED
  BY <1>1, <1>3, <1>4 DEF DoneInv, CallsAreDoneOnce

(* A function begins.                                                      *)
LEMMA InvokeDone ==
    ASSUME Inv, DoneInv, NEW task \in {"call", "renew", "disconnect"}, NEW step \in Steps,
           Invoke(task, step)
    PROVE  DoneInv'
<1> DEFINE d == At(client, task, step)
<1>1. /\ client' = d /\ client.task = "none" /\ client.state \notin {"READY", "deleted"}
      /\ up' = Late(up) /\ down' = Late(down) /\ result' = NoResult
  BY DEF Invoke
<1>2. client \in Clients /\ task \in Tasks
  BY DEF Inv, TypeOK, Tasks
<1>3. /\ d.task = task /\ d.pc = "send" /\ d.state = client.state /\ d.requestId = client.requestId
  BY <1>2, AtFields
<1> HIDE DEF d
<1>4. /\ Len(up') = Len(up) /\ Len(down') = Len(down)
      /\ \A i \in 1..Len(up) : up'[i].late /\ up'[i].id = up[i].id /\ up'[i].kind = up[i].kind
      /\ \A i \in 1..Len(down) :
            down'[i].late /\ down'[i].id = down[i].id /\ down'[i].kind = down[i].kind
  BY <1>1, LateMessages DEF SameMessages
<1>5. Connected(client) /\ Connected(client') /\ ~Connecting(client') /\ ~Asking(client')
  BY <1>1, <1>2, <1>3 DEF Connected, Connecting, Asking, Clients
<1>6. ASSUME NEW m, NEW n, Behind(client, m), n.kind = m.kind, n.id = m.id
      PROVE  Behind(client', n)
  BY <1>1, <1>3, <1>5, <1>6 DEF Behind
<1>7. RequestedOnce'
  BY <1>4, <1>6 DEF RequestedOnce, DoneInv, LastCall
<1>8. AnsweredOnce'
  BY <1>4, <1>6 DEF AnsweredOnce, DoneInv, LastCall
<1>9. result'.done = 0 /\ result'.status = "none"
  BY <1>1 DEF NoResult
<1> QED
  BY <1>7, <1>8, <1>9 DEF DoneInv, CallsAreDoneOnce

(* The functions of the application.                                       *)
LEMMA ApplicationDone ==
    ASSUME Inv, Inv', DoneInv,
           \/ UA_Client_connect \/ Call \/ UA_Client_manuallyRenewSecureChannel
           \/ UA_Client_disconnect \/ UA_Client_new
           \/ \E then \in {"return", "delete"} : UA_Client_reset(then)
    PROVE  DoneInv'
<1>1. client \in Clients /\ FreshOK(client) /\ client' \in Clients
  BY DEF Inv, ClientOK
<1>2. CASE Call
  BY <1>2, InvokeDone DEF Call, Steps, Services
<1>3. CASE UA_Client_manuallyRenewSecureChannel
  BY <1>3, InvokeDone DEF UA_Client_manuallyRenewSecureChannel, Steps
<1>4. CASE UA_Client_disconnect
  BY <1>4, InvokeDone DEF UA_Client_disconnect, Steps, Services
<1>5. result \in [status : {"none", "Good", "Bad"}, done : Nat]
  BY DEF Inv, TypeOK
<1>6. ASSUME Tame(client, client'), UNCHANGED <<up, down>>,
             UNCHANGED result \/ result' = [result EXCEPT !.status = "none"]
      PROVE  DoneInv'
  <2>1. result'.done = result.done /\ (result'.status = "Good" => result.status = "Good")
    BY <1>5, <1>6
  <2>2. result.status = "Good" => result.done = 1
    BY DEF DoneInv, CallsAreDoneOnce
  <2> QED
    BY <1>6, <2>1, <2>2, TameStep
<1>7. ASSUME NEW then \in {"return", "delete", "connect"}, client' = CleanUp(client, then),
             Connected(client)
      PROVE  Tame(client, client')
  BY <1>1, <1>7, CleanUpTame
<1>8. ASSUME NEW then \in {"return", "delete"}, UA_Client_reset(then) PROVE DoneInv'
  BY <1>1, <1>6, <1>7, <1>8 DEF UA_Client_reset, Connected, Clients
<1>9. CASE UA_Client_connect
  <2>1. /\ client.task = "none" /\ UNCHANGED <<up, down>>
        /\ result' = [result EXCEPT !.status = "none"]
        /\ client.state \in {"ERRORED", "READY"}
    BY <1>1, <1>9 DEF UA_Client_connect, Clients
  <2>2. CASE client.state = "ERRORED"
    BY <1>6, <1>7, <1>9, <2>1, <2>2 DEF UA_Client_connect, Connected
  <2>3. CASE client.state = "READY"
    <3>1. client' = At(client, "connect", "HEL")
      BY <1>9, <2>3 DEF UA_Client_connect
    <3>2. client'.task = "connect" /\ client'.state = "READY" /\ client'.conn = client.conn
      <4>1. "connect" \in Tasks /\ "HEL" \in Steps
        BY DEF Tasks, Steps
      <4> QED
        BY <1>1, <2>3, <3>1, <4>1, AtFields
    <3>3. client.conn = "closed"
      BY <1>1, <2>1, <2>3 DEF FreshOK
    <3> QED
      BY <1>6, <2>1, <3>2, <3>3 DEF Tame, Connected, Connecting
  <2> QED
    BY <2>1, <2>2, <2>3
<1>10. CASE UA_Client_new
  <2> DEFINE d == [Fresh EXCEPT !.sock = client.sock, !.close = client.close]
  <2>1. client' = d /\ UNCHANGED <<up, down, result>>
    BY <1>10 DEF UA_Client_new
  <2>2. d.task = "none" /\ d.state = "READY"
    BY DEF Fresh
  <2> HIDE DEF d
  <2> QED
    BY <1>6, <2>1, <2>2 DEF Tame, Connected, Connecting
<1> QED
  BY <1>2, <1>3, <1>4, <1>8, <1>9, <1>10

(* A connection is made, or is not.                                        *)
LEMMA OpeningDone ==
    ASSUME Inv, Inv', DoneInv, Unresolved \/ Refused \/ Accepted
    PROVE  DoneInv'
<1>1. client \in Clients /\ TaskOK(client) /\ Opening /\ client.conn = "closed" /\ UNCHANGED result
  BY DEF Inv, ClientOK, Unresolved, Refused, Accepted
<1>2. ASSUME NEW c \in Clients, c.task = client.task, c.conn = client.conn,
             c.requestId = client.requestId, client' = Failed(c), UNCHANGED <<up, down>>
      PROVE  DoneInv'
  <2>1. Tame(client, client')
    BY <1>1, <1>2, FailedTame DEF Opening
  <2> QED
    BY <1>1, <1>2, <2>1, TameStep DEF DoneInv, CallsAreDoneOnce
<1>3. CASE Unresolved
  <2> DEFINE c == [client EXCEPT !.sock = "open", !.close = FALSE]
  <2>1. /\ c \in Clients /\ c.task = client.task /\ c.conn = client.conn
        /\ c.requestId = client.requestId
    BY <1>1 DEF Clients
  <2> QED
    BY <1>2, <1>3, <2>1 DEF Unresolved
<1>4. CASE Refused
  <2> DEFINE c == [client EXCEPT !.sock = "closed", !.close = TRUE]
  <2>1. /\ c \in Clients /\ c.task = client.task /\ c.conn = client.conn
        /\ c.requestId = client.requestId
    BY <1>1 DEF Clients
  <2> QED
    BY <1>2, <1>4, <2>1 DEF Refused
<1>5. CASE Accepted
  <2>1. up' = <<>> /\ down' = <<>>
    BY <1>5 DEF Accepted
  <2>2. client'.task = client.task
    BY <1>1, <1>5 DEF Accepted, Clients
  <2>3. ~Unsent(client')
    BY <1>1, <2>2 DEF Unsent, Opening
  <2>4. RequestedOnce' /\ AnsweredOnce'
    BY <2>1 DEF RequestedOnce, AnsweredOnce
  <2> QED
    BY <1>1, <2>3, <2>4 DEF DoneInv, CallsAreDoneOnce
<1> QED
  BY <1>3, <1>4, <1>5

(* What is sent: a call with the next id, a renewal, or no call.           *)
LEMMA SendDone ==
    ASSUME Inv, Inv', DoneInv, Send
    PROVE  DoneInv'
<1> DEFINE r == Request(client)
           id == NextId(client)
           w == Waiting(client)
<1>1. /\ client.pc = "send" /\ (client.step = "HEL" => client.conn = "opening")
      /\ client' = Sent(client) /\ UNCHANGED <<server, down, result>>
      /\ up' = up \/ up' = Append(up, r)
  BY DEF Send, Ready
<1>2. client \in Clients /\ client' \in Clients /\ ClientOK(client) /\ TaskOK(client)
      /\ up \in Seq(Requests)
  BY DEF Inv, ClientOK, TypeOK
<1>3. /\ client.requestId \in Nat /\ id \in Nat
      /\ client.step # "HEL" => id = client.requestId + 1
  BY <1>2 DEF NextId, Clients
<1>4. r.late = FALSE /\ r.id = id /\ r.kind = (IF MustRenew(client) THEN "OPN" ELSE client.step)
      /\ r \in Requests
  BY <1>2, <1>3 DEF Request, Requests, Clients, MustRenew, IsService, Services, Steps
<1> HIDE DEF r, id
<1>5. /\ w \in Clients /\ w.task = client.task /\ w.state = client.state /\ w.conn = client.conn
      /\ w.requestId = id /\ w.pc = (IF client.step = "CLO" THEN "idle" ELSE "wait")
      /\ w.renew = (IF MustRenew(client) THEN "asked" ELSE client.renew)
  <2> DEFINE pc == IF client.step = "CLO" THEN "idle" ELSE "wait"
             renew == IF MustRenew(client) THEN "asked" ELSE client.renew
  <2>1. w = [client EXCEPT !.pc = pc, !.requestId = id, !.renew = renew]
    BY DEF Waiting, id
  <2>2. pc \in {"idle", "send", "wait"} /\ renew \in {"no", "asked", "done"}
    BY <1>2 DEF Clients
  <2> HIDE DEF pc, renew
  <2>3. /\ w \in Clients /\ w.pc = pc /\ w.requestId = id /\ w.renew = renew
        /\ w.task = client.task /\ w.state = client.state /\ w.conn = client.conn
    BY <1>2, <1>3, <2>1, <2>2 DEF Clients
  <2> QED
    BY <2>3 DEF pc, renew
<1> HIDE DEF w
<1>6. client.task # "none"
  BY <1>1, <1>2 DEF TaskOK
<1>7. /\ Len(up) \in Nat
      /\ up' = Append(up, r) => /\ Len(up') = Len(up) + 1
                                /\ \A i \in 1..Len(up) : up'[i] = up[i]
                                /\ up'[Len(up) + 1] = r
  BY <1>2, <1>4, AppendProperties
<1>8. \A i \in 1..Len(up') : \/ i \in 1..Len(up) /\ up'[i] = up[i]
                             \/ i = Len(up) + 1 /\ up'[i] = r
  BY <1>1, <1>7
<1>9. /\ \A i \in 1..Len(up) : up[i].id \in Nat
      /\ \A i \in 1..Len(down) : down[i].id \in Nat
  BY IdsAreNumbers
<1>10. CASE client.task = "call"
  <2>1. client.step = "Call" /\ Connected(client) /\ client' = w
    BY <1>1, <1>2, <1>10 DEF TaskOK, Connected, Sent, w
  <2>2. Unsent(client) /\ client.renew # "asked"
    BY <1>1, <1>2, <1>10 DEF Unsent, TaskOK
  <2>3. /\ result.done = 0 /\ \A i \in 1..Len(up) : ~LastCall(up[i])
        /\ \A i \in 1..Len(down) : ~LastCall(down[i])
    BY <2>2 DEF DoneInv, RequestedOnce, AnsweredOnce
  <2>4. ~Connecting(client') /\ id = client.requestId + 1
    BY <1>3, <1>5, <1>10, <2>1 DEF Connecting
  <2>5. ASSUME NEW m, m.id \in Nat, Behind(client, m) PROVE Behind(client', m)
    <3>1. m.kind = "Call" => m.id <= client.requestId
      BY <2>1, <2>5 DEF Behind
    <3>2. m.kind = "Call" => m.id <= id /\ m.id < id
      BY <1>3, <2>4, <2>5, <3>1
    <3> QED
      BY <1>5, <2>1, <2>4, <3>2 DEF Behind
  <2>6. \A i \in 1..Len(up) : Behind(client', up[i])
    BY <1>9, <2>5 DEF DoneInv, RequestedOnce
  <2>7. \A i \in 1..Len(down) : Behind(client', down[i])
    BY <1>9, <2>5 DEF DoneInv, AnsweredOnce
  <2>8. Behind(client', r)
    BY <1>3, <1>4, <1>5, <2>1, <2>4 DEF Behind
  <2>9. LastCall(r) => ~Unsent(client')
    BY <1>4, <1>5, <2>1, <2>2 DEF LastCall, Unsent
  <2>10. RequestedOnce'
    <3>1. \A i \in 1..Len(up') : LastCall(up'[i]) => i = Len(up) + 1 /\ ~Unsent(client')
      BY <1>8, <2>3, <2>9
    <3>2. \A i \in 1..Len(up') : Behind(client', up'[i])
      BY <1>8, <2>6, <2>8
    <3> QED
      BY <1>1, <2>3, <3>1, <3>2 DEF RequestedOnce
  <2>11. AnsweredOnce'
    BY <1>1, <2>3, <2>7 DEF AnsweredOnce
  <2> QED
    BY <1>1, <2>3, <2>10, <2>11 DEF DoneInv, CallsAreDoneOnce
<1>11. CASE client.task # "call"
  <2>1. r.kind # "Call" /\ ~Unsent(client)
    <3>1. client.step # "Call"
      BY <1>2, <1>6, <1>11 DEF TaskOK, HandshakeSteps, Clients, Tasks
    <3> QED
      BY <1>4, <1>11, <3>1 DEF Unsent
  <2>2. Tame(client, client')
    <3>1. Connected(client) \/ Connecting(client)
      BY <1>1, <1>2, <1>6, <1>11 DEF TaskOK, Connected, Connecting, Clients, Tasks
    <3>2. Connected(client) => client.task # "connect"
      BY <1>2 DEF TaskOK, Connected
    <3>3. client.task # "connect" => id >= client.requestId
      <4>1. client.task # "connect" => client.step # "HEL"
        BY <1>2, <1>6 DEF TaskOK, Clients, Tasks
      <4> QED
        BY <1>3, <4>1
    <3>7. client.task = "connect" => Connecting(client)
      BY <1>1, <1>2 DEF TaskOK, Connecting
    <3>4. CASE client.step = "CLO" /\ client.task = "clean"
      BY <1>1, <1>5, <3>4, CleanedTame DEF Sent, w
    <3>5. CASE client.step = "CLO" /\ client.task # "clean"
      <4>1. client' = Idle(w)
        BY <1>1, <3>5 DEF Sent, w
      <4>2. client'.task = "none" /\ client'.state = w.state /\ client'.requestId = w.requestId
        BY <1>5, <4>1, IdleFields
      <4> QED
        BY <1>5, <3>1, <3>3, <3>7, <4>2 DEF Tame, Connected, Connecting
    <3>6. CASE client.step # "CLO"
      <4>1. client' = w
        BY <1>1, <3>6 DEF Sent, w
      <4> QED
        BY <1>5, <1>11, <3>1, <3>3, <3>7, <4>1 DEF Tame, Connected, Connecting
    <3> QED
      BY <3>4, <3>5, <3>6
  <2>3. ~Unsent(client')
    BY <2>2 DEF Tame, Unsent
  <2>4. RequestedOnce'
    <3>1. \A i \in 1..Len(up) : Behind(client', up[i])
      BY <1>2, <1>9, <2>2, StaysBehind DEF DoneInv, RequestedOnce
    <3>2. \A i \in 1..Len(up') : Behind(client', up'[i])
      BY <1>8, <2>1, <3>1 DEF Behind
    <3>3. \A i \in 1..Len(up') : LastCall(up'[i]) => i \in 1..Len(up) /\ up'[i] = up[i]
      BY <1>8, <2>1 DEF LastCall
    <3> QED
      BY <1>1, <2>3, <3>2, <3>3 DEF DoneInv, RequestedOnce
  <2>5. AnsweredOnce'
    <3>1. \A i \in 1..Len(down) : Behind(client', down[i])
      BY <1>2, <1>9, <2>2, StaysBehind DEF DoneInv, AnsweredOnce
    <3> QED
      BY <1>1, <2>3, <3>1 DEF DoneInv, AnsweredOnce
  <2> QED
    BY <1>1, <2>3, <2>4, <2>5 DEF DoneInv, CallsAreDoneOnce
<1> QED
  BY <1>10, <1>11

(* A send that fails, or an answer that does not come.                     *)
LEMMA GiveUpDone ==
    ASSUME Inv, Inv', DoneInv, SendFails \/ ReceivePart \/ TimesOut \/ FindsItClosed
    PROVE  DoneInv'
<1>1. ClientOK(client) /\ client \in Clients /\ TaskOK(client) /\ down \in Seq(Message)
  BY DEF Inv, ClientOK, TypeOK
<1>2. client.pc \in {"send", "wait"} /\ client.task # "none" /\ UNCHANGED up
  BY <1>1 DEF SendFails, Ready, ReceivePart, TimesOut, FindsItClosed, Awaits, TaskOK
<1>3. Working(client) /\ (client.pc = "wait" => client.step # "CLO")
  BY <1>1, <1>2, WorkingIs DEF TaskOK
<1> DEFINE c == [client EXCEPT !.sock = "closed", !.conn = "closed"]
<1>4. /\ c \in Clients /\ c.task = client.task /\ c.step = client.step /\ c.conn = "closed"
      /\ c.requestId = client.requestId /\ Working(c)
  BY <1>1, <1>2, WorkingIs DEF Clients
<1>5. ASSUME client' = GivesUp(c), client.pc = "wait" PROVE Tame(client, client')
  <2> HIDE DEF c
  <2> DEFINE f == ServiceFailed(c)
             g == [f EXCEPT !.strayed = TRUE]
  <2>1. Tame(client, f) /\ f \in Clients
    BY <1>1, <1>2, <1>4, ServiceFailedTame, ServiceFailedFollows DEF Follows, ClientOK
  <2> HIDE DEF f
  <2>2. g.task = f.task /\ g.state = f.state /\ g.conn = f.conn /\ g.requestId = f.requestId
    BY <2>1 DEF Clients
  <2>3. client' \in {f, g}
    BY <1>5 DEF GivesUp, Strays, f
  <2> HIDE DEF g
  <2> QED
    BY <2>1, <2>2, <2>3 DEF Tame, Connected, Connecting
<1>6. Tame(client, client')
  <2>1. CASE SendFails
    BY <1>1, <1>2, <1>4, <2>1, ServiceFailedTame DEF SendFails
  <2>2. CASE client' = GivesUp(client) /\ client.pc = "wait"
    BY <1>1, <1>2, <1>3, <2>2, GivesUpTame
  <2>3. CASE FindsItClosed
    BY <1>5, <2>3 DEF FindsItClosed
  <2> QED
    BY <2>1, <2>2, <2>3 DEF ReceivePart, TimesOut, Awaits
<1> HIDE DEF c
<1>7. result'.done = result.done /\ (result'.status = "Good" => result.status = "Good")
  <2>1. CASE SendFails
    BY <2>1 DEF SendFails
  <2>2. CASE ReturnsWith(NoMessage)
    BY <2>2, ReturnIs, NoMessageIs
  <2> QED
    BY <2>1, <2>2 DEF ReceivePart, TimesOut, FindsItClosed
<1>8. \A i \in 1..Len(down') :
        down'[i].kind = "rest" \/ \E j \in 1..Len(down) : down'[i] = down[j]
  <2>1. CASE UNCHANGED down
    BY <2>1
  <2>2. CASE ReceivePart
    <3> DEFINE s == Tail(down)
    <3>1. down # <<>> /\ down' = <<NoMessage>> \o s
      BY <2>2 DEF ReceivePart
    <3>2. /\ s \in Seq(Message) /\ Len(s) \in Nat /\ Len(down) \in Nat /\ Len(s) = Len(down) - 1
          /\ \A i \in 1..Len(s) : s[i] = down[i + 1]
      BY <1>1, <3>1, HeadTailProperties
    <3> HIDE DEF s
    <3>3. <<NoMessage>> \in Seq(Message) /\ Len(<<NoMessage>>) = 1
      BY NoMessageIs
    <3>4. /\ Len(down') = 1 + Len(s)
          /\ \A i \in 1..(1 + Len(s)) : down'[i] = IF i <= 1 THEN <<NoMessage>>[i] ELSE s[i - 1]
      BY <3>1, <3>2, <3>3, ConcatProperties
    <3>5. ASSUME NEW i \in 1..Len(down'), i # 1 PROVE \E j \in 1..Len(down) : down'[i] = down[j]
      <4>1. i - 1 \in 1..Len(s) /\ i \in 1..Len(down) /\ (i - 1) + 1 = i
        BY <3>2, <3>4, <3>5
      <4>2. down'[i] = down[i]
        BY <3>2, <3>4, <3>5, <4>1
      <4> QED
        BY <4>1, <4>2
    <3>6. 1 \in 1..Len(down') => down'[1] = NoMessage
      BY <3>2, <3>4
    <3>7. NoMessage.kind = "rest"
      BY DEF NoMessage
    <3> QED
      BY <3>5, <3>6, <3>7
  <2> QED
    BY <2>1, <2>2 DEF SendFails, TimesOut, FindsItClosed
<1> QED
  BY <1>2, <1>6, <1>7, <1>8, TameStep DEF DoneInv, CallsAreDoneOnce

(* An answer is taken: a call that succeeds has taken its own.             *)
LEMMA ReceiveDone ==
    ASSUME Inv, Inv', DoneInv, NEW joined \in 1..(MaxRequests + 1), Receive(joined)
    PROVE  DoneInv'
<1> DEFINE m == Head(down)
<1>1. /\ client.pc = "wait" /\ joined \in 1..Len(down)
      /\ down' = SubSeq(down, joined + 1, Len(down))
      /\ IF IsAnswer(client, m) THEN client' = Answered(client, m)
         ELSE client' = Mistaken(client) \/ client' = GivesUp(client)
      /\ ReturnsWith(m) /\ UNCHANGED <<server, up>>
  BY DEF Receive, Awaits
<1>2. /\ m \in Message /\ m = down[1] /\ 1 \in 1..Len(down)
      /\ \A i \in 1..Len(down') : \E j \in 1..Len(down) : down'[i] = down[j]
  <2>1. Len(down) \in Nat
    BY DEF Inv, TypeOK
  <2> QED
    BY <1>1, <2>1, DropsMessages
<1> HIDE DEF m
<1>3. ClientOK(client) /\ client \in Clients /\ client' \in Clients /\ TaskOK(client)
  BY DEF Inv, ClientOK
<1>4. Working(client) /\ client.step # "CLO" /\ client.task # "none"
  BY <1>1, <1>3, WorkingIs DEF TaskOK
<1>5. result'.done = result.done
  BY <1>1, ReturnIs
<1>6. result'.status = "Good" => result.done = 1
  <2> SUFFICES ASSUME client.task = "call", client'.task = "none", m.ok, IsAnswer(client, m)
               PROVE  result.done = 1
    BY <1>1, ReturnIs DEF DoneInv, CallsAreDoneOnce
  <2>1. client.step = "Call" /\ client' = Answered(client, m)
    BY <1>1, <1>3 DEF TaskOK
  <2>2. client.renew # "asked"
    <3> SUFFICES ASSUME client.renew = "asked" PROVE FALSE
      OBVIOUS
    <3>1. client' = [TakesToken(client, m) EXCEPT !.renew = "done", !.pc = "send"]
      BY <2>1 DEF Answered, AwaitsOPN
    <3>2. client'.task = "call"
      BY <1>3, <3>1 DEF TakesToken, Clients
    <3> QED
      BY <3>2
  <2>3. m.kind = "Call" /\ m.id = client.requestId
    BY <2>1, <2>2 DEF IsAnswer, AwaitsOPN, IsService, Services
  <2>4. Asking(client) /\ client.requestId \in Nat
    BY <1>1, <1>3, <2>2 DEF Asking, Clients
  <2>5. Behind(client, m)
    BY <1>2 DEF DoneInv, AnsweredOnce
  <2>6. ~m.late
    BY <2>3, <2>4, <2>5 DEF Behind
  <2> QED
    BY <1>2, <2>3, <2>6 DEF DoneInv, AnsweredOnce, LastCall
<1>7. CASE Tame(client, client')
  BY <1>1, <1>2, <1>5, <1>6, <1>7, TameStep
<1>8. CASE /\ client.renew = "asked" /\ client'.pc = "send" /\ client'.renew = "done"
           /\ client'.task = client.task /\ client'.state = client.state
           /\ client'.conn = client.conn /\ client'.requestId = client.requestId
  <2>1. Unsent(client') => Unsent(client)
    BY <1>8 DEF Unsent
  <2>2. \A n : Behind(client, n) => Behind(client', n)
    BY <1>8 DEF Behind, Asking, Connected, Connecting
  <2>3. RequestedOnce'
    BY <1>1, <1>5, <2>1, <2>2 DEF DoneInv, RequestedOnce
  <2>4. AnsweredOnce'
    BY <1>2, <1>5, <2>1, <2>2 DEF DoneInv, AnsweredOnce
  <2> QED
    BY <1>5, <1>6, <2>1, <2>3, <2>4 DEF DoneInv, CallsAreDoneOnce
<1> QED
  BY <1>1, <1>2, <1>3, <1>4, <1>7, <1>8, AnsweredTame, GivesUpTame

(* The server executes a call when it is the first of its requests.        *)
LEMMA ServerHandlesDone ==
    ASSUME Inv, Inv', DoneInv, ServerHandles
    PROVE  DoneInv'
<1> DEFINE m == Head(up)
<1>1. /\ server.open /\ up # <<>> /\ up' = Tail(up) /\ Handles(m) /\ UNCHANGED client
      /\ up \in Seq(Requests) /\ down \in Seq(Message)
      /\ result \in [status : {"none", "Good", "Bad"}, done : Nat]
  BY DEF ServerHandles, Inv, TypeOK
<1>2. /\ Len(up) \in Nat /\ Len(up) >= 1 /\ Len(up') = Len(up) - 1
      /\ \A i \in 1..Len(up') : up'[i] = up[i + 1]
      /\ m = up[1] /\ m \in Requests
  <2>1. Len(up) \in Nat /\ Len(up) # 0
    BY <1>1, EmptySeq
  <2> QED
    BY <1>1, <2>1, HeadTailProperties
<1> HIDE DEF m
<1>3. \A i \in 1..Len(up') : i + 1 \in 1..Len(up) /\ up'[i] = up[i + 1] /\ i + 1 # 1
  BY <1>2
<1>4. 1 \in 1..Len(up)
  BY <1>2
<1>5. \/ UNCHANGED <<down, result>>
      \/ \E ok \in BOOLEAN, token \in 0..MaxTokens :
            down' = Append(down, Answer(m, ok, token)) /\ Counted(m, ok)
  <2>1. ~server.renewed => m.token \in {0, 1}
    BY <1>2, <1>4 DEF Inv, TokensInStep
  <2> QED
    BY <1>1, <1>2, <2>1, ServerIsOK, HandlesEffect
<1>6. LastCall(m) => /\ result.done = 0 /\ ~Unsent(client) /\ \A i \in 1..Len(up') : ~LastCall(up'[i])
  BY <1>2, <1>3, <1>4 DEF DoneInv, RequestedOnce
<1>7. CASE UNCHANGED <<down, result>>
  <2>1. RequestedOnce'
    <3>1. ASSUME NEW i \in 1..Len(up'), NEW j \in 1..Len(up'), i + 1 = j + 1 PROVE i = j
      BY <3>1
    <3> QED
      BY <1>1, <1>3, <1>7, <3>1 DEF DoneInv, RequestedOnce
  <2>2. AnsweredOnce'
    BY <1>1, <1>7 DEF DoneInv, AnsweredOnce
  <2> QED
    BY <1>1, <1>7, <2>1, <2>2 DEF DoneInv, CallsAreDoneOnce
<1>8. ASSUME NEW ok \in BOOLEAN, NEW token \in 0..MaxTokens,
             down' = Append(down, Answer(m, ok, token)), Counted(m, ok)
      PROVE  DoneInv'
  <2> DEFINE a == Answer(m, ok, token)
  <2>1. a \in Message /\ a.kind = m.kind /\ a.id = m.id /\ a.late = m.late /\ a.ok = ok
    BY <1>2 DEF Answer, Message, Requests
  <2> HIDE DEF a
  <2>2. \A i \in 1..Len(down') : \/ i \in 1..Len(down) /\ down'[i] = down[i]
                                 \/ i = Len(down) + 1 /\ down'[i] = a
    <3>1. /\ Len(down) \in Nat /\ Len(down') = Len(down) + 1
          /\ \A i \in 1..Len(down) : down'[i] = down[i]
          /\ down'[Len(down) + 1] = a
      BY <1>1, <1>8, <2>1, AppendProperties DEF a
    <3> QED
      BY <3>1
  <2>3. \A i \in 1..Len(up) : Behind(client, up[i])
    BY DEF DoneInv, RequestedOnce
  <2>4. Behind(client, m)
    BY <1>2, <1>4, <2>3
  <2>5. Behind(client, a)
    BY <2>1, <2>4 DEF Behind
  <2>6. CASE LastCall(m) /\ ok
    <3>1. result' = [result EXCEPT !.done = @ + 1]
      BY <1>8, <2>6 DEF Counted, LastCall
    <3>2. result'.done = 1 /\ result'.status = result.status
      BY <1>1, <1>6, <2>6, <3>1
    <3>3. RequestedOnce'
      BY <1>1, <1>3, <1>6, <2>3, <2>6 DEF RequestedOnce
    <3>4. AnsweredOnce'
      BY <1>1, <1>6, <2>2, <2>5, <2>6, <3>2 DEF DoneInv, AnsweredOnce
    <3> QED
      BY <1>1, <1>6, <2>6, <3>2, <3>3, <3>4 DEF DoneInv, CallsAreDoneOnce
  <2>7. CASE ~(LastCall(m) /\ ok)
    <3>1. result' = result
      BY <1>8, <2>7 DEF Counted, LastCall
    <3>2. RequestedOnce'
      <4>1. ASSUME NEW i \in 1..Len(up'), NEW j \in 1..Len(up'), i + 1 = j + 1 PROVE i = j
        BY <4>1
      <4> QED
        BY <1>1, <1>3, <3>1, <4>1 DEF DoneInv, RequestedOnce
    <3>3. LastCall(a) => ~a.ok /\ ~Unsent(client)
      BY <1>6, <2>1, <2>7 DEF LastCall
    <3>4. AnsweredOnce'
      BY <1>1, <2>2, <2>5, <3>1, <3>3 DEF DoneInv, AnsweredOnce
    <3> QED
      BY <1>1, <3>1, <3>2, <3>4 DEF DoneInv, CallsAreDoneOnce
  <2> QED
    BY <2>6, <2>7
<1> QED
  BY <1>5, <1>7, <1>8

(* What the server drops, the network loses or time changes is no call.    *)
LEMMA OtherDone ==
    ASSUME Inv, Inv', DoneInv, Cleanup \/ Break \/ Tick
    PROVE  DoneInv'
<1>1. client \in Clients /\ down \in Seq(Message) /\ Len(down) \in Nat /\ UNCHANGED result
  BY DEF Inv, TypeOK, Cleanup, Break, Tick
<1>2. /\ client'.task = client.task /\ client'.pc = client.pc /\ client'.renew = client.renew
      /\ client'.state = client.state /\ client'.conn = client.conn
      /\ client'.requestId = client.requestId
  <2>1. CASE Tick
    <3> DEFINE e == Less(client.expires)
    <3>1. client' = [client EXCEPT !.expires = e]
      BY <2>1 DEF Tick
    <3> HIDE DEF e
    <3> QED
      BY <1>1, <3>1 DEF Clients
  <2> QED
    BY <2>1 DEF Cleanup, Break
<1>3. up' = up \/ up' = <<>>
  BY DEF Cleanup, Break, Tick
<1>4. \A i \in 1..Len(down') : i \in 1..Len(down) /\ down'[i] = down[i]
  <2>1. CASE UNCHANGED down
    BY <2>1
  <2>2. ASSUME NEW n \in 0..Len(down), down' = SubSeq(down, 1, n)
        PROVE  <1>4!:
    <3>1. n \in Nat /\ n \in (1 - 1)..Len(down) /\ n \in 0..Len(down)
      BY <1>1
    <3>2. /\ Len(down') = (IF 1 <= n THEN n - 1 + 1 ELSE 0)
          /\ \A i \in 1..(n - 1 + 1) : down'[i] = down[1 + i - 1]
      BY <1>1, <2>2, <3>1, SubSeqProperties
    <3>3. Len(down') = n
      BY <3>1, <3>2
    <3>4. \A i \in 1..n : i \in 1..Len(down) /\ down'[i] = down[i]
      BY <1>1, <3>1, <3>2
    <3> QED
      BY <3>1, <3>2, <3>3, <3>4
  <2> QED
    BY <2>1, <2>2 DEF Cleanup, Break, Tick
<1>5. \A n : Behind(client, n) => Behind(client', n)
  BY <1>2 DEF Behind, Asking, Connected, Connecting
<1>6. Unsent(client') <=> Unsent(client)
  BY <1>2 DEF Unsent
<1>7. RequestedOnce'
  <2>1. CASE up' = up
    BY <1>1, <1>5, <1>6, <2>1 DEF DoneInv, RequestedOnce
  <2>2. CASE up' = <<>>
    BY <2>2 DEF RequestedOnce
  <2> QED
    BY <1>3, <2>1, <2>2
<1>8. AnsweredOnce'
  BY <1>1, <1>4, <1>5, <1>6 DEF DoneInv, AnsweredOnce
<1> QED
  BY <1>1, <1>6, <1>7, <1>8 DEF DoneInv, CallsAreDoneOnce

(* Every step keeps it.                                                    *)
LEMMA DoneNext == Inv /\ Inv' /\ DoneInv /\ [Next]_vars => DoneInv'
<1> SUFFICES ASSUME Inv, Inv', DoneInv, [Next]_vars PROVE DoneInv'
  OBVIOUS
<1>1. CASE UNCHANGED vars
  BY <1>1 DEF vars, DoneInv, RequestedOnce, AnsweredOnce, CallsAreDoneOnce
<1>2. CASE \/ UA_Client_connect \/ Call \/ UA_Client_manuallyRenewSecureChannel
           \/ UA_Client_disconnect \/ UA_Client_new
           \/ \E then \in {"return", "delete"} : UA_Client_reset(then)
  BY <1>2, ApplicationDone
<1>3. CASE ClientSteps
  <2>1. CASE \E joined \in 1..(MaxRequests + 1) : Receive(joined)
    BY <2>1, ReceiveDone
  <2> QED
    BY <1>3, <2>1, OpeningDone, SendDone, GiveUpDone DEF ClientSteps
<1>4. CASE ServerHandles
  BY <1>4, ServerHandlesDone
<1>5. CASE Cleanup \/ Break \/ Tick
  BY <1>5, OtherDone
<1> QED
  BY <1>1, <1>2, <1>3, <1>4, <1>5 DEF Next

-----------------------------------------------------------------------------
(* The theorems                                                            *)

(* A new client and a server without connections.                          *)
LEMMA InitInv == Init => Inv
<1> SUFFICES ASSUME Init PROVE Inv
  OBVIOUS
<1>1. client = Fresh /\ server = NoServer /\ up = <<>> /\ down = <<>> /\ result = NoResult
  BY DEF Init
<1>2. Fresh \in Clients
  BY BoundsAre DEF Fresh, Clients, Tasks, Steps
<1>3. ClientOK(Fresh) /\ Fresh.token = 0
  BY <1>2 DEF ClientOK, TaskOK, FreshOK, SocketOK, Fresh
<1>4. NoResult \in [status : {"none", "Good", "Bad"}, done : Nat]
  BY DEF NoResult
<1>5. TypeOK
  BY <1>1, <1>2, <1>4, NoServerIs DEF TypeOK
<1>6. TokensInStep
  BY <1>1, <1>3, NoServerIs DEF TokensInStep
<1>7. InStep
  BY <1>1 DEF InStep, Nothing, OnlyCLO
<1> QED
  BY <1>1, <1>3, <1>4, <1>5, <1>6, <1>7 DEF Inv

(* Every step keeps the invariant.                                         *)
LEMMA NextInv == Inv /\ [Next]_vars => Inv'
<1> SUFFICES ASSUME Inv, [Next]_vars PROVE Inv'
  OBVIOUS
<1>1. CASE UNCHANGED vars
  BY <1>1 DEF vars, Inv, TypeOK, TokensInStep, InStep, Nothing, Asked, AnswerComes
<1>2. CASE \/ UA_Client_connect \/ Call \/ UA_Client_manuallyRenewSecureChannel
           \/ UA_Client_disconnect \/ UA_Client_new
           \/ \E then \in {"return", "delete"} : UA_Client_reset(then)
  BY <1>2, ApplicationStep
<1>3. CASE ClientSteps
  <2>1. CASE \E joined \in 1..(MaxRequests + 1) : Receive(joined)
    BY <2>1, ReceiveStep
  <2> QED
    BY <1>3, <2>1, OpeningStep, SendStep, SendFailsStep, GiveUpStep DEF ClientSteps
<1>4. CASE ServerHandles
  BY <1>4, ServerHandlesStep
<1>5. CASE Cleanup \/ Break
  BY <1>5, CleanupStep
<1>6. CASE Tick
  BY <1>6, TickStep
<1> QED
  BY <1>1, <1>2, <1>3, <1>4, <1>5, <1>6 DEF Next

(* The inductive invariant holds in every state.                           *)
LEMMA InvHolds == Spec => []Inv
<1>1. Init => Inv
  BY InitInv
<1>2. Inv /\ [Next]_vars => Inv'
  BY NextInv
<1> QED
  BY <1>1, <1>2, PTL DEF Spec

(* The client, the server and the messages between them keep their types,  *)
(* the tokens of the channel their order.                                  *)
THEOREM ClientTypes == Spec => []TypeOK
<1>1. Inv => TypeOK
  BY DEF Inv
<1> QED
  BY <1>1, InvHolds, PTL

(* A call is executed at most once, and has been executed when it reports  *)
(* success: whatever is late, lost, joined or cut, and however often the    *)
(* client starts over.                                                     *)
THEOREM CallsAreDoneOnceCorrect == Spec => []CallsAreDoneOnce
<1>1. Init => DoneInv
  BY DEF Init, DoneInv, RequestedOnce, AnsweredOnce, CallsAreDoneOnce, NoResult
<1>2. Inv /\ Inv' /\ DoneInv /\ [Next]_vars => DoneInv'
  BY DoneNext
<1>3. DoneInv => CallsAreDoneOnce
  BY DEF DoneInv
<1> QED
  BY <1>1, <1>2, <1>3, InvHolds, PTL DEF Spec

(* Nothing of an earlier call is on its way to a client that says it is    *)
(* connected, unless a renewal by hand was given up; and the server cuts   *)
(* off because of a token only clients that renewed.                       *)
THEOREM ConnectedIsInStepCorrect == Spec => []ConnectedIsInStep
<1>1. Inv => ConnectedIsInStep
  <2> SUFFICES ASSUME Inv PROVE ConnectedIsInStep
    OBVIOUS
  <2>1. server.cut => server.renewed
    BY DEF Inv, TypeOK, Servers, TokensInStep
  <2>2. ASSUME client.state = "CONNECTED", client.task = "none"
        PROVE  client.strayed \/ (down = <<>> /\ \A i \in 1..Len(up) : up[i].kind = "CLO")
    <3>1. client.pc # "wait" /\ Active(client)
      BY <2>2 DEF Inv, ClientOK, TaskOK, Active
    <3> QED
      BY <3>1 DEF Inv, InStep, Nothing, Asked, AnswerComes, OnlyCLO
  <2> QED
    BY <2>1, <2>2 DEF ConnectedIsInStep
<1> QED
  BY <1>1, InvHolds, PTL

(* A client that is ready to connect has closed the socket of its earlier  *)
(* connection, unless there is no function to do it with.                  *)
THEOREM SocketsAreClosedCorrect == Spec => []SocketsAreClosed
<1>1. Inv => SocketsAreClosed
  <2> SUFFICES ASSUME Inv PROVE SocketsAreClosed
    OBVIOUS
  <2>1. FreshOK(client) /\ SocketOK(client) /\ client \in Clients /\ TypeOK
    BY DEF Inv, ClientOK
  <2> QED
    BY <2>1 DEF SocketsAreClosed, FreshOK, SocketOK, Clients
<1> QED
  BY <1>1, InvHolds, PTL
=============================================================================
