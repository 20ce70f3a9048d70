---------------------------- MODULE PublishBlock ----------------------------
(***************************************************************************)
(* The function block OPC_UA_PUBLISH.  At REQ a publisher connects to the  *)
(* server and makes an object for the function block that feeds it and     *)
(* under it a variable for the output it is connected to; a variable that  *)
(* is there already is deleted first.  The steps are calls of the client,  *)
(* each from the answer to the one before, and publishers on several       *)
(* devices share the server.                                               *)
(*                                                                         *)
(* A call that is not answered in time stays with the server, which        *)
(* executes it later, even after the publisher has sent CNF: in the order  *)
(* of its connection, in any order with the calls of other connections.    *)
(***************************************************************************)
EXTENDS Naturals, Sequences, FiniteSets

CONSTANTS
    Publishers,     \* instances of OPC_UA_PUBLISH with a connected IN, one on each device
    Objects,        \* names of function blocks
    Variables,      \* names of their outputs, with the function block's
    Output,         \* [Publishers -> Variables]: what IN is connected to
    Owner,          \* [Variables -> Objects]
    Connections,    \* TCP connections
    MaxReferences,  \* bound: references from an object to a variable that are told apart
    NULL

ASSUME OutputAssumption == Output \in [Publishers -> Variables] /\ Owner \in [Variables -> Objects]
ASSUME NullAssumption == NULL \notin Connections
ASSUME BoundAssumption == MaxReferences \in Nat \ {0}

VARIABLES
    objects,    \* object nodes
    listed,     \* those the Objects folder refers to
    variables,  \* variable nodes
    references, \* references from the owner of a variable to it
    torn,       \* variables that the server failed to refer to (history)
    calls,      \* what the server has yet to execute, for each connection
    alive,      \* connections with a session
    pc,         \* where executeEvent is: the call that is made next
    waiting,    \* has that call been sent?
    found,      \* the answer to a browse, NULL if there is none
    conn,       \* the connection of the client, NULL without one
    pending,    \* publishers whose REQ is not confirmed
    reliable    \* no connection broke and the server did not restart (history)

server == <<objects, listed, variables, references, torn>>
block == <<pc, waiting, found, conn, pending>>
vars == <<server, calls, alive, block, reliable>>

Owned(p) == Owner[Output[p]]

Init ==
    /\ objects = {} /\ listed = {} /\ variables = {} /\ torn = {}
    /\ references = [v \in Variables |-> 0]
    /\ calls = [c \in Connections |-> <<>>]
    /\ alive = {}
    /\ pc = [p \in Publishers |-> "idle"]
    /\ waiting = [p \in Publishers |-> FALSE]
    /\ found = [p \in Publishers |-> NULL]
    /\ conn = [p \in Publishers |-> NULL]
    /\ pending = {}
    /\ reliable = TRUE

Goto(p, place) == pc' = [pc EXCEPT ![p] = place]
-----------------------------------------------------------------------------
(* The names are copied with strcpy to pointers that point nowhere: the    *)
(* device goes on with them or fails                                       *)
REQ(p) ==
    /\ pc[p] = "idle"
    /\ \E place \in {"connect", "crashed"} : Goto(p, place)
    /\ pending' = pending \cup {p}
    /\ UNCHANGED <<server, calls, alive, waiting, found, conn, reliable>>

Connect(p) ==
    /\ pc[p] = "connect"
    /\ \E c \in Connections :
           /\ calls[c] = <<>> /\ \A q \in Publishers : conn[q] # c
           /\ conn' = [conn EXCEPT ![p] = c]
           /\ alive' = alive \cup {c}
    /\ Goto(p, "browseFolder")
    /\ UNCHANGED <<server, calls, waiting, found, pending, reliable>>

(* mutant: the block ends as OPC_UA_WRITE does                             *)
Unconfirmed(p) == pending

Confirmed(p) == pending \ {p}

ConnectFails(p) ==
    /\ pc[p] = "connect"
    /\ Goto(p, "idle")
    /\ pending' = Confirmed(p)
    /\ UNCHANGED <<server, calls, alive, waiting, found, conn, reliable>>

(* mutant: the variable is added before the old one is deleted             *)
AddFirst(place, answer) ==
    CASE place = "browseFolder" -> IF answer = TRUE THEN "browseObject" ELSE "addObject"
      [] place = "addObject"    -> "addVariable"
      [] place = "browseObject" -> "addVariable"
      [] place = "addVariable"  -> "delete"
      [] place = "delete"       -> "disconnect"

(* What follows a call.  Only browsing has an answer that matters: not to  *)
(* find the node, or not to get an answer, is the same.                    *)
Following(place, answer) ==
    CASE place = "browseFolder" -> IF answer = TRUE THEN "browseObject" ELSE "addObject"
      [] place = "addObject"    -> "addVariable"
      [] place = "browseObject" -> IF answer = TRUE THEN "delete" ELSE "addVariable"
      [] place = "delete"       -> "addVariable"
      [] place = "addVariable"  -> "disconnect"

Calling(p) == pc[p] \in {"browseFolder", "addObject", "browseObject", "delete", "addVariable"}

(* Nothing is sent on a connection that is gone                            *)
Call(p) ==
    /\ Calling(p) /\ ~waiting[p]
    /\ calls' = IF conn[p] \in alive THEN [calls EXCEPT ![conn[p]] = Append(@, <<pc[p], p>>)] ELSE calls
    /\ waiting' = [waiting EXCEPT ![p] = TRUE]
    /\ UNCHANGED <<server, alive, pc, found, conn, pending, reliable>>

(* The answer, or none in time                                             *)
Return(p) ==
    /\ Calling(p) /\ waiting[p]
    /\ \E answer \in {found[p], NULL} : Goto(p, Following(pc[p], answer))
    /\ waiting' = [waiting EXCEPT ![p] = FALSE]
    /\ found' = [found EXCEPT ![p] = NULL]
    /\ UNCHANGED <<server, calls, alive, conn, pending, reliable>>

(* UA_Client_disconnect, UA_Client_delete and CNF                          *)
Disconnect(p) ==
    /\ pc[p] = "disconnect"
    /\ Goto(p, "idle")
    /\ conn' = [conn EXCEPT ![p] = NULL]
    /\ pending' = Confirmed(p)
    /\ UNCHANGED <<server, calls, alive, waiting, found, reliable>>
-----------------------------------------------------------------------------
(* The services of the server                                              *)
(* A node is added, and then the reference to it from its parent: whether  *)
(* that fails nobody looks at.                                             *)
AddObject(p) ==
    /\ objects' = objects \cup {Owned(p)}
    /\ IF Owned(p) \in objects THEN UNCHANGED listed
       ELSE listed' \in {listed, listed \cup {Owned(p)}}
    /\ UNCHANGED <<variables, references, torn>>

(* mutant: the reference from the owner is missing                         *)
OneWay(v) ==
    /\ variables' = IF Owner[v] \in objects THEN variables \cup {v} ELSE variables
    /\ UNCHANGED <<objects, listed, references, torn>>

(* A new variable is referenced from its owner, once more than before; all *)
(* from the bound on count as that many, because only the first matters.   *)
Link(v) ==
    /\ references' = [references EXCEPT ![v] = IF @ < MaxReferences THEN @ + 1 ELSE @]
    /\ UNCHANGED torn
LinkFails(v) ==
    /\ torn' = IF references[v] = 0 THEN torn \cup {v} ELSE torn
    /\ UNCHANGED references
AddVariable(v) ==
    /\ IF Owner[v] \in objects /\ v \notin variables
       THEN /\ variables' = variables \cup {v}
            /\ Link(v) \/ LinkFails(v)
       ELSE UNCHANGED <<variables, references, torn>>
    /\ UNCHANGED <<objects, listed>>

(* deleteTargetReferences is false: the owner's references stay            *)
DeleteVariable(v) ==
    /\ variables' = variables \ {v}
    /\ torn' = torn \ {v}
    /\ UNCHANGED <<objects, listed, references>>

(* Browsing leaves out references to nodes that do not exist.  The answers *)
(* of the other services are not used.                                     *)
Browses(place) == place \in {"browseFolder", "browseObject"}
Finds(place, p) ==
    IF place = "browseFolder" THEN Owned(p) \in listed
    ELSE Owned(p) \in objects /\ references[Output[p]] > 0 /\ Output[p] \in variables

Execute(place, p) ==
    CASE place = "addObject"   -> AddObject(p)
      [] place = "addVariable" -> AddVariable(Output[p])
      [] place = "delete"      -> DeleteVariable(Output[p])
      [] OTHER                 -> UNCHANGED server

(* The client waits for the last call of its connection only               *)
Awaited(c, p) == conn[p] = c /\ waiting[p] /\ Len(calls[c]) = 1

Serve(c) ==
    /\ calls[c] # <<>>
    /\ LET place == Head(calls[c])[1]
           p == Head(calls[c])[2]
       IN  /\ Execute(place, p)
           /\ found' = IF Awaited(c, p) /\ Browses(place) THEN [found EXCEPT ![p] = Finds(place, p)] ELSE found
    /\ calls' = [calls EXCEPT ![c] = Tail(@)]
    /\ UNCHANGED <<alive, pc, waiting, conn, pending, reliable>>

(* A connection breaks: what is executed of its calls is a matter of time  *)
Break(c) ==
    /\ c \in alive
    /\ alive' = alive \ {c}
    /\ \E k \in 0..Len(calls[c]) : calls' = [calls EXCEPT ![c] = SubSeq(@, 1, k)]
    /\ reliable' = FALSE
    /\ UNCHANGED <<server, block>>

(* The server restarts without the nodes that were added at run time       *)
Restart ==
    /\ objects' = {} /\ listed' = {} /\ variables' = {} /\ torn' = {}
    /\ references' = [v \in Variables |-> 0]
    /\ calls' = [c \in Connections |-> <<>>]
    /\ alive' = {}
    /\ reliable' = FALSE
    /\ UNCHANGED block

Step(p) == Connect(p) \/ ConnectFails(p) \/ Call(p) \/ Return(p) \/ Disconnect(p)

Next ==
    \/ \E p \in Publishers : REQ(p) \/ Step(p)
    \/ \E c \in Connections : Serve(c) \/ Break(c)
    \/ Restart

(* The device executes its events, and each call ends: answered or not     *)
Spec == Init /\ [][Next]_vars /\ \A p \in Publishers : WF_vars(Step(p))
-----------------------------------------------------------------------------
Places == {"idle", "connect", "browseFolder", "addObject", "browseObject", "delete",
           "addVariable", "disconnect", "crashed"}

TypeOK ==
    /\ objects \subseteq Objects /\ listed \subseteq objects
    /\ variables \subseteq Variables /\ torn \subseteq Variables
    /\ references \in [Variables -> 0..MaxReferences]
    /\ calls \in [Connections -> Seq(Places \X Publishers)]
    /\ alive \subseteq Connections
    /\ pc \in [Publishers -> Places]
    /\ waiting \in [Publishers -> BOOLEAN]
    /\ found \in [Publishers -> BOOLEAN \cup {NULL}]
    /\ conn \in [Publishers -> Connections \cup {NULL}]
    /\ pending \subseteq Publishers
    /\ reliable \in BOOLEAN

(* A variable in the address space can be reached: its object exists and   *)
(* refers to it, however the calls of the publishers interleave, are lost  *)
(* or come late; unless the server failed to add the reference when the    *)
(* object had none that an earlier variable of the name had left.          *)
VariablesAreReachable ==
    \A v \in variables : Owner[v] \in objects /\ (v \notin torn => references[v] > 0)

(* A variable that was published once is missing only for a while: if it   *)
(* is, a publisher has yet to add it, or its call to add it is with the    *)
(* server, unless a connection broke.                                      *)
Adds(v) == {<<"addVariable", p>> : p \in {q \in Publishers : Output[q] = v}}
Coming(v) ==
    \/ \E c \in Connections : \E k \in DOMAIN calls[c] : calls[c][k] \in Adds(v)
    \/ \E p \in Publishers :
           /\ Output[p] = v
           /\ pc[p] \in {"addObject", "browseObject", "delete", "addVariable"}
           /\ pc[p] = "addVariable" => ~waiting[p]
MissingVariableComesBack ==
    reliable => \A v \in Variables : references[v] > 0 /\ v \notin variables => Coming(v)

(* Every REQ is confirmed, unless the device failed.                       *)
EveryRequestIsConfirmed ==
    \A p \in Publishers : p \in pending ~> p \notin pending \/ pc[p] = "crashed"
=============================================================================
