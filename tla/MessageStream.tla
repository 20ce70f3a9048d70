---------------------------- MODULE MessageStream ----------------------------
(***************************************************************************)
(* Messages on a TCP connection.  The peer's socket_write puts a message   *)
(* on the stream, perhaps in several calls of send; socket_recv takes      *)
(* whatever has arrived, up to the size of its buffer; and                 *)
(* UA_Connection_completeMessages cuts the bytes into messages and keeps   *)
(* the beginning of one that is incomplete in connection->incompleteMessage.*)
(*                                                                         *)
(* A byte is named by the message it belongs to and its place in it.  The  *)
(* first HeaderSize bytes of a message, type and size, can only be read    *)
(* when they stand together; no other bytes look like a header.            *)
(***************************************************************************)
EXTENDS Naturals, Sequences, FiniteSets

CONSTANTS
    Messages,       \* messages of the peer
    Size,           \* [Messages -> Nat]: size of a message with its header
    HeaderSize,     \* 8: type, final byte and messageSize
    MinSize,        \* 16: the smallest message
    MaxSize,        \* localConf.maxMessageSize
    RecvBufferSize, \* localConf.recvBufferSize
    PartialSends,   \* can send take a part of the buffer only?
    NoMemory,       \* can an allocation fail?
    MaxSent         \* bound: messages sent in a behaviour

ASSUME SizeAssumption ==
    /\ Size \in [Messages -> Nat \ {0}]
    /\ HeaderSize \in Nat \ {0} /\ MinSize \in Nat /\ HeaderSize <= MinSize
    /\ \A m \in Messages : Size[m] >= MinSize
ASSUME BufferAssumption == MaxSize \in Nat /\ MinSize <= MaxSize /\ RecvBufferSize \in Nat \ {0}
ASSUME FlagAssumption == PartialSends \in BOOLEAN /\ NoMemory \in BOOLEAN /\ MaxSent \in Nat

VARIABLES
    sent,       \* messages given to socket_write
    nWritten,   \* socket_write: bytes of the last message that were sent
    stream,     \* bytes on their way
    incomplete, \* connection->incompleteMessage
    delivered,  \* the byte strings UA_Server_processBinaryMessage was given, message by message
    failed      \* did an allocation fail, or was a message too large? (history)

vars == <<sent, nWritten, stream, incomplete, delivered, failed>>

Bytes(n) == [k \in 1..Size[sent[n]] |-> <<n, k>>]
LastSize == IF sent = <<>> THEN 0 ELSE Size[sent[Len(sent)]]
Writing == nWritten < LastSize

Init ==
    /\ sent = <<>>
    /\ nWritten = 0
    /\ stream = <<>>
    /\ incomplete = <<>>
    /\ delivered = <<>>
    /\ failed = FALSE
-----------------------------------------------------------------------------
(* socket_write.  The buffer is released when all of it was sent.          *)
StartWriting(m) ==
    /\ ~Writing /\ Len(sent) < MaxSent
    /\ sent' = Append(sent, m)
    /\ nWritten' = 0
    /\ UNCHANGED <<stream, incomplete, delivered, failed>>

(* Each call of send is given the whole buffer, from its beginning         *)
Write(n) ==
    /\ Writing
    /\ PartialSends \/ n = LastSize
    /\ stream' = stream \o SubSeq(Bytes(Len(sent)), 1, n)
    /\ nWritten' = nWritten + n
    /\ UNCHANGED <<sent, incomplete, delivered, failed>>
-----------------------------------------------------------------------------

(* Is there a header at pos that completeMessages accepts?  What announces *)
(* a size that is not allowed is no better than garbage.                   *)
Header(buf, pos) ==
    /\ \A k \in 1..HeaderSize : buf[pos + k] = <<buf[pos + 1][1], k>>
    /\ Size[sent[buf[pos + 1][1]]] \in MinSize..MaxSize

SizeAt(buf, pos) == Size[sent[buf[pos + 1][1]]]

(* mutant: a message is complete only when another byte follows            *)
FollowedMessage(buf, pos) ==
    /\ Len(buf) - pos >= MinSize
    /\ Header(buf, pos)
    /\ pos + SizeAt(buf, pos) < Len(buf)

CompleteMessage(buf, pos) ==
    /\ Len(buf) - pos >= MinSize
    /\ Header(buf, pos)
    /\ pos + SizeAt(buf, pos) <= Len(buf)

Garbage(buf, pos) == Len(buf) - pos >= MinSize /\ ~Header(buf, pos)

(* The positions the while loop comes to: the ends of the complete messages *)
Stops(buf) ==
    LET stop[pos \in 0..Len(buf)] ==
            \/ pos = 0
            \/ \E p \in 0..(pos - 1) : stop[p] /\ CompleteMessage(buf, p) /\ pos = p + SizeAt(buf, p)
    IN  {pos \in 0..Len(buf) : stop[pos]}

LastStop(buf) == CHOOSE pos \in Stops(buf) : \A p \in Stops(buf) : p <= pos

(* The i-th complete message                                               *)
MessageAt(buf, i) ==
    LET start == CHOOSE p \in Stops(buf) : Cardinality({q \in Stops(buf) : q < p}) = i - 1
    IN  SubSeq(buf, start + 1, start + SizeAt(buf, start))

CompleteMessages(buf) == [i \in 1..(Cardinality(Stops(buf)) - 1) |-> MessageAt(buf, i)]

(* mutant: what stays behind is thrown away                                *)
NoRemainder(buf) == <<>>

(* mutant: the stored beginning is not cleared when it was used            *)
Uncleared(buf) ==
    IF LastStop(buf) = Len(buf) THEN incomplete ELSE SubSeq(buf, LastStop(buf) + 1, Len(buf))

(* The beginning of an incomplete message                                  *)
Remainder(buf) ==
    IF Garbage(buf, LastStop(buf)) THEN <<>> ELSE SubSeq(buf, LastStop(buf) + 1, Len(buf))
-----------------------------------------------------------------------------
Received(c) == SubSeq(stream, 1, c)

(* socket_recv and completeMessages, and the job they make: it is executed *)
(* before anything else of this connection is read                         *)
Receive(c) ==
    LET buf == incomplete \o Received(c)
    IN  /\ stream' = SubSeq(stream, c + 1, Len(stream))
        /\ delivered' = delivered \o CompleteMessages(buf)
        /\ incomplete' = Remainder(buf)
        /\ failed' = (failed \/ Garbage(buf, LastStop(buf)))
        /\ UNCHANGED <<sent, nWritten>>

(* No memory to join the stored beginning with what was received           *)
JoinFails(c) ==
    /\ NoMemory /\ incomplete # <<>>
    /\ stream' = SubSeq(stream, c + 1, Len(stream))
    /\ incomplete' = <<>>
    /\ failed' = TRUE
    /\ UNCHANGED <<sent, nWritten, delivered>>

(* No memory to store what stays behind.  Without a complete message in    *)
(* front of it, joined bytes need no new memory.                           *)
StoreFails(c) ==
    LET buf == incomplete \o Received(c)
    IN  /\ NoMemory /\ Remainder(buf) # <<>>
        /\ LastStop(buf) = 0 => incomplete = <<>>
        /\ stream' = SubSeq(stream, c + 1, Len(stream))
        /\ delivered' = delivered \o CompleteMessages(buf)
        /\ incomplete' = <<>>
        /\ failed' = TRUE
        /\ UNCHANGED <<sent, nWritten>>

Chunks == {c \in 1..Len(stream) : c <= RecvBufferSize}

Next ==
    \/ \E m \in Messages : StartWriting(m)
    \/ \E n \in 1..LastSize : Write(n)
    \/ \E c \in Chunks : Receive(c) \/ JoinFails(c) \/ StoreFails(c)

(* The peer finishes what it began to write, and the main loop reads every *)
(* socket that has data                                                    *)
Spec ==
    /\ Init /\ [][Next]_vars
    /\ WF_vars(\E n \in 1..LastSize : Write(n))
    /\ WF_vars(\E c \in Chunks : Receive(c))
-----------------------------------------------------------------------------
(* Bytes keep their place in a message, and incompleteMessage stays smaller *)
(* than the largest message the connection accepts.                        *)
TypeOK ==
    /\ sent \in Seq(Messages) /\ Len(sent) <= MaxSent
    /\ nWritten \in Nat /\ failed \in BOOLEAN
    /\ Len(incomplete) < MaxSize
    /\ \A b \in {stream, incomplete} \cup {delivered[i] : i \in DOMAIN delivered} :
           \A k \in DOMAIN b : b[k][1] \in DOMAIN sent /\ b[k][2] \in 1..Size[sent[b[k][1]]]

(* However the network splits and joins the bytes, and also when memory    *)
(* runs out or a message is too large, what is processed is a message the  *)
(* peer sent: whole, none of them twice, and in the order of sending.      *)
DeliveredInOrder ==
    /\ \A i \in DOMAIN delivered : \E n \in DOMAIN sent : delivered[i] = Bytes(n)
    /\ \A i, j \in DOMAIN delivered : i < j => delivered[i][1][1] < delivered[j][1][1]

(* With all bytes of the messages received, none of them is held back in   *)
(* incompleteMessage: no message waits for the one that follows it, and    *)
(* what is held back meanwhile stays smaller than the largest message.     *)
NothingIsHeldBack ==
    /\ TypeOK
    /\ stream = <<>> /\ ~Writing /\ ~failed => incomplete = <<>>

(* The connection is the queue that MessageQueue promises: no message is   *)
(* missing until something fails, and until then every message arrives.    *)
Position(b) == IF \E n \in DOMAIN sent : b = Bytes(n) THEN b[1][1] ELSE 0
Queue == INSTANCE MessageQueue WITH delivered <- [i \in DOMAIN delivered |-> Position(delivered[i])]
IsAQueue == Queue!Spec
=============================================================================
