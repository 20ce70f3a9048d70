----------------------------- MODULE ServerLoop -----------------------------
(***************************************************************************)
(* The run of a server: UA_Server_addNetworkLayer, UA_Server_run and       *)
(* UA_Server_delete, with the TCP layer that turns sockets into jobs and   *)
(* the jobs that are processed one after the other.  A signal handler or a *)
(* callback may set running to FALSE between any two steps, and peers      *)
(* connect, send and hang up at any time.                                  *)
(*                                                                         *)
(* What a message does to sessions and channels is SecureChannels; here a  *)
(* connection has at most one channel.  A connection that was freed stays  *)
(* "freed", so that a later use of it is seen: it may go unnoticed or end  *)
(* the process.  The number of failures is bounded.                        *)
(***************************************************************************)
EXTENDS Naturals, Sequences, FiniteSets, SequencesExt

CONSTANTS
    Conns,          \* the peers, each with the connection made for it
    MaxFaults       \* bounds the calls of the system that fail

ASSUME ConnsAssumption == IsFiniteSet(Conns)
ASSUME BoundAssumption == MaxFaults \in Nat

VARIABLES
    pc,             \* what the thread of the server does next
    running,        \* *running
    layers,         \* networkLayersSize
    stops,          \* history: how often the layer was stopped
    conn,           \* connection->state, "none" and "freed"
    sock,           \* its descriptor
    unread,         \* the sockets with data
    mappings,       \* layer->mappings
    attached,       \* the connections a secure channel points to
    jobs,           \* the jobs that are left of the array
    ready, results, \* fdset and resultsize of the last select()
    at,             \* the index of the next mapping
    faults          \* the calls that failed
network == <<conn, sock, unread>>
selected == <<ready, results, at>>
loopVars == <<pc, running, layers, stops, network, mappings, attached, jobs, selected, faults>>

Job(type, c) == [type |-> type, conn |-> c]
Mapped == ToSet(mappings)
(* A mapped descriptor that was closed makes every select() fail.          *)
Deaf == \E c \in Mapped : sock[c] = "closed"
Listening == pc \notin {"new", "start", "shutdown", "last jobs", "stopped", "deleted", "broken"}
             /\ layers = 1 /\ stops = 0

Fails == faults < MaxFaults /\ faults' = faults + 1
Works == faults' = faults
(* Touching a freed connection may end the process.                        *)
GoesOn(touched, next) ==
    pc' \in {next} \union (IF \E c \in touched : conn[c] = "freed" THEN {"broken"} ELSE {})

LoopInit ==
    /\ pc = "new" /\ running = TRUE /\ layers = 0 /\ stops = 0
    /\ conn = [c \in Conns |-> "none"] /\ sock = [c \in Conns |-> "none"] /\ unread = {}
    /\ mappings = <<>> /\ attached = {} /\ jobs = <<>>
    /\ ready = {} /\ results = 0 /\ at = 1
    /\ faults = 0

-----------------------------------------------------------------------------
AddNetworkLayer ==
    /\ pc = "new" /\ pc' = "start"
    /\ \/ layers' = 1 /\ Works
       \/ layers' = 0 /\ Fails
    /\ UNCHANGED <<running, stops, network, mappings, attached, jobs, selected>>

(* Without a socket, or when it cannot be bound, the loop is left out.     *)
RunStartup ==
    /\ pc = "start"
    /\ \/ pc' = "while" /\ Works
       \/ layers = 1 /\ pc' = "shutdown" /\ Fails
    /\ UNCHANGED <<running, layers, stops, network, mappings, attached, jobs, selected>>

Run ==
    /\ pc = "while"
    /\ pc' = IF running THEN "repeated" ELSE "shutdown"
    /\ UNCHANGED <<running, layers, stops, network, mappings, attached, jobs, selected, faults>>

(* ServerNetworkLayerTCP_closeConnection: the descriptor is shut down, and *)
(* closed when the next recv() says so.                                    *)
CloseConnections(cs) ==
    /\ conn' = [c \in Conns |-> IF c \in cs /\ conn[c] = "open" THEN "closed" ELSE conn[c]]
    /\ sock' = [c \in Conns |-> IF c \in cs /\ conn[c] = "open" THEN "shut" ELSE sock[c]]
    /\ unread' = unread

(* processRepeatedJobs; UA_Server_cleanup removes channels.                *)
ProcessRepeatedJobs ==
    /\ pc = "repeated" /\ pc' = "layer"
    /\ \E cs \in SUBSET attached : CloseConnections(cs) /\ attached' = attached \ cs
    /\ UNCHANGED <<running, layers, stops, mappings, jobs, selected, faults>>

-----------------------------------------------------------------------------
(***************************************************************************)
(* ServerNetworkLayerTCP_getJobs until the sockets are read: select(),     *)
(* then accept() when a peer waits.  A connection that cannot be added     *)
(* leaves its descriptor open.                                             *)
(***************************************************************************)
Waiting == {c \in Conns : sock[c] = "waiting"}
ReadableData == Mapped \intersect unread
Readable == {c \in Mapped : c \in unread \/ sock[c] \in {"eof", "shut"}}
AcceptOne ==
    \/ /\ Waiting = {} /\ Works
       /\ UNCHANGED <<network, mappings>>
    \/ \E c \in Waiting :
          /\ Works
          /\ conn' = [conn EXCEPT ![c] = "open"]
          /\ sock' = [sock EXCEPT ![c] = "open"]
          /\ mappings' = Append(mappings, c)
          /\ UNCHANGED unread
    \/ \E c \in Waiting :
          /\ Fails
          /\ sock' = [sock EXCEPT ![c] = "lost"]
          /\ UNCHANGED <<conn, unread, mappings>>

GetJobs ==
    /\ pc = "layer" /\ layers = 1 /\ running
    /\ jobs' = <<>> /\ at' = 1
    /\ IF Deaf
       THEN /\ pc' = "jobs" /\ ready' = {} /\ results' = 0
            /\ UNCHANGED <<network, mappings, faults>>
       ELSE /\ ready' = Readable /\ results' = Cardinality(Readable)
            /\ pc' = IF Readable = {} THEN "jobs" ELSE "js"
            /\ AcceptOne
    /\ UNCHANGED <<running, layers, stops, attached>>

AllocateJobs ==
    /\ pc = "js"
    /\ \/ pc' = "receive" /\ Works
       \/ pc' = "jobs" /\ Fails
    /\ UNCHANGED <<running, layers, stops, network, mappings, attached, jobs, selected>>

(***************************************************************************)
(* One turn of the loop that reads.  It ends when there are as many jobs   *)
(* as results, and a connection that ended has two of them.  Its mapping   *)
(* is overwritten by the last one, which this loop passes by.              *)
(***************************************************************************)
WithoutMapping == Front([mappings EXCEPT ![at] = Last(mappings)])
EndJobsFreed(c) == <<Job("free", c), Job("detach", c)>>
EndJobs(c) == <<Job("detach", c), Job("free", c)>>

ReceiveMessage(c) ==
    /\ c \in unread
    /\ \/ jobs' = Append(jobs, Job("message", c)) /\ unread' = unread \ {c} /\ Works
       \/ UNCHANGED <<jobs, unread>> /\ Fails
    /\ UNCHANGED <<conn, sock, mappings>>
ReceiveEnd(c) ==
    /\ c \notin unread
    /\ conn' = [conn EXCEPT ![c] = "closed"]
    /\ sock' = [sock EXCEPT ![c] = "closed"]
    /\ mappings' = WithoutMapping
    /\ jobs' = jobs \o EndJobs(c)
    /\ Works
    /\ UNCHANGED unread
PassBy(c) ==
    /\ c \notin ready
    /\ Works
    /\ UNCHANGED <<network, mappings, jobs>>

Receive ==
    /\ pc = "receive" /\ at <= Len(mappings) /\ Len(jobs) < results
    /\ LET c == mappings[at]
       IN PassBy(c) \/ (c \in ready /\ (ReceiveMessage(c) \/ ReceiveEnd(c)))
    /\ at' = at + 1
    /\ UNCHANGED <<pc, running, layers, stops, attached, ready, results>>

EndReceive ==
    /\ pc = "receive" /\ (at > Len(mappings) \/ Len(jobs) >= results)
    /\ pc' = "jobs"
    /\ UNCHANGED <<running, layers, stops, network, mappings, attached, jobs, selected, faults>>

-----------------------------------------------------------------------------
(***************************************************************************)
(* processJobs, with UA_Server_processBinaryMessage for a message: it may  *)
(* open or close a channel, close the connection or be answered, which     *)
(* cannot succeed once the descriptor is shut.                             *)
(***************************************************************************)
Processing == pc \in {"jobs", "last jobs"} /\ jobs # <<>>
NextJob == Head(jobs)
Taken(type) == Processing /\ NextJob.type = type /\ jobs' = Tail(jobs)

SendFails(c) ==
    /\ IF sock[c] = "shut" THEN Works ELSE Fails
    /\ conn' = [conn EXCEPT ![c] = "closed"]
    /\ sock' = [sock EXCEPT ![c] = "closed"]
    /\ unread' = unread
Answers(c) ==
    \/ SendFails(c)
    \/ sock[c] # "shut" /\ Works /\ UNCHANGED network

ProcessMessage ==
    LET c == NextJob.conn
    IN /\ Taken("message")
       /\ GoesOn({c}, pc)
       /\ \/ UNCHANGED <<network, attached>> /\ Works
          \/ Answers(c) /\ attached' \in {attached, attached \union {c}}
          \/ CloseConnections({c}) /\ attached' \in {attached, attached \ {c}} /\ Works
       /\ UNCHANGED <<running, layers, stops, mappings, selected>>

DetachConnection ==
    /\ Taken("detach")
    /\ GoesOn({NextJob.conn}, pc)
    /\ attached' = attached \ {NextJob.conn}
    /\ UNCHANGED <<running, layers, stops, network, mappings, selected, faults>>

FreeConnection ==
    /\ Taken("free")
    /\ GoesOn({NextJob.conn}, pc)
    /\ conn' = [conn EXCEPT ![NextJob.conn] = "freed"]
    /\ UNCHANGED <<running, layers, stops, sock, unread, mappings, attached, selected, faults>>

EndJobsLoop ==
    /\ pc \in {"jobs", "last jobs"} /\ jobs = <<>>
    /\ pc' = IF pc = "jobs" THEN "while" ELSE "stopped"
    /\ UNCHANGED <<running, layers, stops, network, mappings, attached, jobs, selected, faults>>

-----------------------------------------------------------------------------
(***************************************************************************)
(* ServerNetworkLayerTCP_stop.  The mappings stay as they are, and the     *)
(* descriptors are closed at once.                                         *)
(***************************************************************************)
(* The jobs at 2 * j - 1 and 2 * j are those of mapping j.                 *)
EndJobAt(k) == EndJobs(mappings[(k + 1) \div 2])[2 - (k % 2)]
StopJobsButLast == [k \in 1..(2 * (Len(mappings) - 1)) |-> EndJobAt(k)]
StopJobs == [k \in 1..(2 * Len(mappings)) |-> EndJobAt(k)]
Stop ==
    /\ stops' = stops + 1
    /\ \/ /\ jobs' = StopJobs
          /\ conn' = [c \in Conns |-> IF c \in Mapped /\ conn[c] # "freed" THEN "closed" ELSE conn[c]]
          /\ sock' = [c \in Conns |-> IF c \in Mapped THEN "closed" ELSE sock[c]]
          /\ Works
       \/ jobs' = <<>> /\ UNCHANGED <<conn, sock>> /\ Fails
    /\ UNCHANGED <<running, layers, unread, mappings, attached, selected>>

(* running turned FALSE in this turn of the loop.                          *)
StopInLoop ==
    /\ pc = "layer" /\ layers = 1 /\ ~running
    /\ Stop
    /\ GoesOn(Mapped, "jobs")

WithoutLayer ==
    /\ pc = "layer" /\ layers = 0 /\ pc' = "while"
    /\ UNCHANGED <<running, layers, stops, network, mappings, attached, jobs, selected, faults>>

(* Without memory for the jobs a pointer that was never set is freed.      *)
RunShutdown ==
    /\ pc = "shutdown"
    /\ IF layers = 0
       THEN /\ pc' = "stopped"
            /\ UNCHANGED <<running, layers, stops, network, mappings, attached, jobs, selected, faults>>
       ELSE /\ Stop
            /\ \/ GoesOn(Mapped, "last jobs")
               \/ faults' > faults /\ pc' = "broken"

(* UA_Server_delete: the channels that are left close their connections.   *)
Delete ==
    /\ pc = "stopped"
    /\ GoesOn(attached, "deleted")
    /\ CloseConnections(attached) /\ attached' = {}
    /\ UNCHANGED <<running, layers, stops, mappings, jobs, selected, faults>>

-----------------------------------------------------------------------------
Interrupt ==
    /\ running /\ running' = FALSE
    /\ UNCHANGED <<pc, layers, stops, network, mappings, attached, jobs, selected, faults>>

Connect(c) ==
    /\ Listening /\ sock[c] = "none"
    /\ sock' = [sock EXCEPT ![c] = "waiting"]
    /\ UNCHANGED <<pc, running, layers, stops, conn, unread, mappings, attached, jobs, selected, faults>>
Send(c) ==
    /\ sock[c] \in {"waiting", "open"}
    /\ unread' = unread \union {c}
    /\ UNCHANGED <<pc, running, layers, stops, conn, sock, mappings, attached, jobs, selected, faults>>
HangUp(c) ==
    /\ sock[c] = "open"
    /\ sock' = [sock EXCEPT ![c] = "eof"]
    /\ UNCHANGED <<pc, running, layers, stops, conn, unread, mappings, attached, jobs, selected, faults>>

ServerStep ==
    \/ AddNetworkLayer \/ RunStartup \/ Run \/ ProcessRepeatedJobs
    \/ GetJobs \/ AllocateJobs \/ Receive \/ EndReceive
    \/ ProcessMessage \/ DetachConnection \/ FreeConnection \/ EndJobsLoop
    \/ StopInLoop \/ WithoutLayer \/ RunShutdown \/ Delete
PeerStep == \E c \in Conns : Connect(c) \/ Send(c) \/ HangUp(c)
LoopNext == ServerStep \/ PeerStep \/ Interrupt

-----------------------------------------------------------------------------
(* Every variable has its type, and no connection is mapped twice.         *)
TypeOK ==
    /\ pc \in {"new", "start", "while", "repeated", "layer", "js", "receive", "jobs",
               "shutdown", "last jobs", "stopped", "deleted", "broken"}
    /\ running \in BOOLEAN /\ layers \in {0, 1} /\ stops \in Nat /\ faults \in 0..MaxFaults
    /\ conn \in [Conns -> {"none", "open", "closed", "freed"}]
    /\ sock \in [Conns -> {"none", "waiting", "open", "eof", "shut", "closed", "lost"}]
    /\ unread \subseteq Conns /\ attached \subseteq Conns /\ ready \subseteq Conns
    /\ mappings \in Seq(Conns)
    /\ \A i, j \in DOMAIN mappings : mappings[i] = mappings[j] => i = j
    /\ jobs \in Seq([type : {"message", "detach", "free"}, conn : Conns])
    /\ results \in Nat /\ at \in Nat \ {0}

(***************************************************************************)
(* Nothing is left of a connection that was freed: no channel points to    *)
(* it, no job that is left is about it and, before the layer is stopped,   *)
(* it is not mapped (processJobs, ServerNetworkLayerTCP_getJobs).  Only a  *)
(* layer that is stopped twice has jobs for freed connections.             *)
(***************************************************************************)
FreedConnectionsAreGone ==
    /\ TypeOK
    /\ \A c \in Conns : conn[c] = "freed" =>
        /\ c \notin attached
        /\ stops < 2 => \A i \in DOMAIN jobs : jobs[i].conn # c
        /\ stops = 0 => c \notin Mapped

(* A server that was stopped, also in the middle of the loop, has freed    *)
(* every connection and left no channel, unless a call of the system       *)
(* failed (ServerNetworkLayerTCP_stop, UA_Server_run_shutdown).            *)
StoppedServerIsEmpty ==
    pc \in {"stopped", "deleted"} /\ faults = 0 =>
        /\ \A c \in Conns : conn[c] \in {"none", "freed"}
        /\ attached = {}

Serves == running /\ pc # "broken" /\ ~Deaf
(***************************************************************************)
(* While the server runs and its layer is not deaf, a peer that waits is   *)
(* accepted, data is read and a connection that ended is freed, in         *)
(* whichever order the mappings are moved (ServerNetworkLayerTCP_getJobs). *)
(* A server that is told to stop gets there (UA_Server_run).               *)
(***************************************************************************)
EverySocketIsServed ==
    /\ \A c \in Conns :
          /\ sock[c] = "waiting" ~> (sock[c] # "waiting" \/ ~Serves)
          /\ c \in unread /\ c \in Mapped ~> (c \notin unread \/ ~Serves)
          /\ sock[c] \in {"eof", "shut"} /\ c \in Mapped ~> (conn[c] = "freed" \/ ~Serves)
    /\ ~running ~> pc \in {"deleted", "broken"}
=============================================================================
