--------------------------- MODULE ReadWriteBlocks ---------------------------
(***************************************************************************)
(* The function blocks OPC_UA_READ and OPC_UA_WRITE on one node of a       *)
(* server, "the.answer".  A REQ event makes a block open a client of its   *)
(* own, call the server, delete the client and send CNF.  The blocks run   *)
(* in the threads of one FORTE process, so that they interleave and end    *)
(* together when one of them makes the process fail.                       *)
(***************************************************************************)
EXTENDS Naturals, FiniteSets

CONSTANTS
    Readers,    \* instances of OPC_UA_READ whose NODE is "the.answer"
    Writers,    \* instances of OPC_UA_WRITE
    Values,     \* UA_Int32 values
    Other       \* a value that is not a scalar UA_Int32

ASSUME BlockAssumption == Readers \cap Writers = {}
ASSUME ValueAssumption == Values \subseteq Nat \ {0} /\ Other \notin Nat

VARIABLES
    running,    \* does the FORTE process run?
    up,         \* does the server answer?
    node,       \* the value of the node
    late,       \* values of write requests that their client no longer waits for
    stage,      \* where executeEvent is
    client,     \* UA_Client *client
    in,         \* IN() of a writer
    out,        \* OUT() of a reader
    cnf,        \* CNF events sent since the last REQ
    seen        \* values of the node since a reader's REQ

Blocks == Readers \cup Writers
readWriteVars == <<running, up, node, late, stage, client, in, out, cnf, seen>>

ReadWriteInit ==
    /\ running = TRUE
    /\ up \in BOOLEAN
    /\ node \in Values \cup {Other}
    /\ late = {}
    /\ stage = [b \in Blocks |-> "idle"]
    /\ client = [b \in Blocks |-> "none"]
    /\ in = [w \in Writers |-> 0]
    /\ out = [r \in Readers |-> 0]
    /\ cnf = [b \in Blocks |-> 0]
    /\ seen = [r \in Readers |-> {}]

At(b, place) == running /\ stage[b] = place
Enter(b, place) == stage' = [stage EXCEPT ![b] = place]

(* mutant: the event is not sent                                           *)
NoCNF(b) == cnf' = cnf

SendCNF(b) == cnf' = [cnf EXCEPT ![b] = @ + 1]

(* Undefined behaviour that ends the process                               *)
Crash == running' = FALSE /\ UNCHANGED <<up, node, late, stage, client, in, out, cnf, seen>>

(* The server's variable keeps its type: another value is a type mismatch  *)
Store(v) ==
    /\ node' = IF node = Other THEN node ELSE v
    /\ seen' = [r \in Readers |-> IF stage[r] = "idle" THEN seen[r] ELSE seen[r] \cup {node'}]

(* Both blocks: the client is created and connected                        *)
Open(b) ==
    /\ At(b, "connect") /\ up
    /\ client' = [client EXCEPT ![b] = "connected"]
    /\ Enter(b, "call")
    /\ UNCHANGED <<running, up, node, late, in, out, cnf, seen>>
-----------------------------------------------------------------------------
(* mutant: OUT keeps the value of an earlier request                       *)
KeepOut(r) == out

(* OUT() = 0 before anything else                                          *)
ResetOut(r) == [out EXCEPT ![r] = 0]

ReadREQ(r) ==
    /\ At(r, "idle")
    /\ out' = ResetOut(r)
    /\ client' = [client EXCEPT ![r] = "new"]
    /\ cnf' = [cnf EXCEPT ![r] = 0]
    /\ seen' = [seen EXCEPT ![r] = {node}]
    /\ Enter(r, "connect")
    /\ UNCHANGED <<running, up, node, late, in>>

(* The client is deleted and CNF sent, but there is no break: the handler  *)
(* goes on with the deleted client                                         *)
ReadConnectFails(r) ==
    /\ At(r, "connect")
    /\ client' = [client EXCEPT ![r] = "deleted"]
    /\ SendCNF(r)
    /\ Enter(r, "call")
    /\ UNCHANGED <<running, up, node, late, in, out, seen>>

(* mutant: the type of the value is not checked                            *)
Scalar(v) == TRUE

IsInt32(v) == v \in Values

Read(r) ==
    /\ At(r, "call") /\ client[r] = "connected"
    /\ up /\ IsInt32(node)
    /\ out' = [out EXCEPT ![r] = node]
    /\ Enter(r, "close")
    /\ UNCHANGED <<running, up, node, late, client, in, cnf, seen>>

(* No answer, a bad one or not an integer: a CNF of its own.  A deleted    *)
(* client's functions are no longer there, or whatever is in its memory.   *)
ReadFails(r) ==
    /\ At(r, "call")
    /\ \/ /\ client[r] = "deleted" /\ Crash
       \/ /\ SendCNF(r) /\ Enter(r, "close")
          /\ UNCHANGED <<running, up, node, late, client, in, out, seen>>

(* UA_Client_delete, perhaps the second time, and CNF                      *)
ReadCloses(r) ==
    /\ At(r, "close")
    /\ \/ /\ client[r] = "deleted" /\ Crash
       \/ /\ client' = [client EXCEPT ![r] = "none"]
          /\ SendCNF(r) /\ Enter(r, "idle")
          /\ UNCHANGED <<running, up, node, late, in, out, seen>>
-----------------------------------------------------------------------------
WriteREQ(w, v) ==
    /\ At(w, "idle")
    /\ in' = [in EXCEPT ![w] = v]
    /\ client' = [client EXCEPT ![w] = "new"]
    /\ cnf' = [cnf EXCEPT ![w] = 0]
    /\ Enter(w, "connect")
    /\ UNCHANGED <<running, up, node, late, out, seen>>

(* mutant: the client of a failed connect is not deleted                   *)
Forgotten(w) == client

Deleted(w) == [client EXCEPT ![w] = "none"]

(* Here the handler ends, without CNF                                      *)
WriteConnectFails(w) ==
    /\ At(w, "connect")
    /\ client' = Deleted(w)
    /\ Enter(w, "idle")
    /\ UNCHANGED <<running, up, node, late, in, out, cnf, seen>>

(* The answer to the write is not looked at                                *)
Write(w) ==
    /\ At(w, "call") /\ up
    /\ Store(in[w])
    /\ Enter(w, "free")
    /\ UNCHANGED <<running, up, late, client, in, out, cnf>>

(* The client waits 500 ms; the server may execute the request later       *)
WriteTimesOut(w) ==
    /\ At(w, "call")
    /\ late' = late \cup {in[w]}
    /\ Enter(w, "free")
    /\ UNCHANGED <<running, up, node, client, in, out, cnf, seen>>

(* UA_WriteRequest_deleteMembers frees the integer, a variable on the stack *)
FreeInteger(w) ==
    /\ At(w, "free")
    /\ \/ Crash
       \/ /\ Enter(w, "close")
          /\ UNCHANGED <<running, up, node, late, client, in, out, cnf, seen>>

WriteCloses(w) ==
    /\ At(w, "close")
    /\ client' = [client EXCEPT ![w] = "none"]
    /\ SendCNF(w) /\ Enter(w, "idle")
    /\ UNCHANGED <<running, up, node, late, in, out, seen>>
-----------------------------------------------------------------------------
(* The server executes what no client waits for, or it went down with it   *)
LateWrite(v) ==
    /\ up /\ v \in late
    /\ \/ Store(v)
       \/ UNCHANGED <<node, seen>>
    /\ late' = late \ {v}
    /\ UNCHANGED <<running, up, stage, client, in, out, cnf>>

(* The server comes and goes; while it is up other clients write too       *)
ServerChanges ==
    \/ /\ up' = ~up
       /\ UNCHANGED <<running, node, late, stage, client, in, out, cnf, seen>>
    \/ \E v \in Values :
           /\ up /\ Store(v)
           /\ UNCHANGED <<running, up, late, stage, client, in, out, cnf>>

ReaderStep(r) == Open(r) \/ ReadConnectFails(r) \/ Read(r) \/ ReadFails(r) \/ ReadCloses(r)
WriterStep(w) ==
    \/ Open(w) \/ WriteConnectFails(w) \/ Write(w) \/ WriteTimesOut(w)
    \/ FreeInteger(w) \/ WriteCloses(w)

ReadWriteNext ==
    \/ \E r \in Readers : ReadREQ(r) \/ ReaderStep(r)
    \/ \E w \in Writers : (\E v \in Values : WriteREQ(w, v)) \/ WriterStep(w)
    \/ \E v \in late : LateWrite(v)
    \/ ServerChanges

(* The threads run, and every call of a client ends: it is answered or it  *)
(* times out                                                               *)
ReadWriteSpec ==
    /\ ReadWriteInit /\ [][ReadWriteNext]_readWriteVars
    /\ \A r \in Readers : WF_readWriteVars(ReaderStep(r))
    /\ \A w \in Writers : WF_readWriteVars(WriterStep(w))
-----------------------------------------------------------------------------
ReadWriteTypeOK ==
    /\ running \in BOOLEAN /\ up \in BOOLEAN
    /\ node \in Values \cup {Other} /\ late \subseteq Values
    /\ stage \in [Blocks -> {"idle", "connect", "call", "free", "close"}]
    /\ client \in [Blocks -> {"none", "new", "connected", "deleted"}]
    /\ in \in [Writers -> Values \cup {0}]
    /\ out \in [Readers -> Values \cup {0}]
    /\ cnf \in [Blocks -> 0..3]
    /\ seen \in [Readers -> SUBSET (Values \cup {Other})]

(* OUT never shows a value of an earlier request: it is 0 or a value that  *)
(* the node had at some time since the REQ that the CNF belongs to.        *)
OutIsAValueOfTheNode == \A r \in Readers : out[r] \in {0} \cup seen[r]

(* No path through the handlers leaves a client behind.                    *)
NoClientIsLeaked == \A b \in Blocks : stage[b] = "idle" => client[b] = "none"

(* A REQ is followed by a CNF, unless the process fails: each one of a     *)
(* reader, whatever the server does, and of a writer that connects.        *)
RequestsAreConfirmed ==
    /\ \A r \in Readers : stage[r] # "idle" ~> ~running \/ (stage[r] = "idle" /\ cnf[r] > 0)
    /\ \A w \in Writers : stage[w] = "call" ~> ~running \/ (stage[w] = "idle" /\ cnf[w] > 0)
=============================================================================
