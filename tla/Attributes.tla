----------------------------- MODULE Attributes -----------------------------
(***************************************************************************)
(* The Read and Write services, from the client's request through the      *)
(* binary encoding to the nodes of the server and back.  One request is on *)
(* its way at a time: the client waits for its response.                   *)
(***************************************************************************)
EXTENDS Variants
LOCAL INSTANCE SequencesExt

CONSTANTS
    Servers,        \* sequence of the nodes that servers were set up with, by their ids
    Requests(_, _), \* sequence of what clients ask of a server with these ids, after so many requests
    MaxRequests,    \* no more requests than these
    Capacity,       \* bytes of a message buffer
    MaxFailing      \* no later allocation of a request fails

VARIABLES
    node,           \* the nodes, by their ids
    pc,             \* idle, sent, answered, returned, unanswered; crashed by a call
                    \* of no function, or overrun: elements behind an array were used
    asked,          \* how many requests there were
    request,        \* what the client asked for
    response,       \* what the server answers
    wire,           \* the encoded message that is on its way
    result,         \* what the client's function returns
    heap            \* the memory after the copies of the last request were deleted

vars == <<node, pc, asked, request, response, wire, result, heap>>

Id == DOMAIN node
Now == 7            \* UA_DateTime_now, in any unit

-----------------------------------------------------------------------------
(* Attributes with the classes that have them and their types.             *)
Classes == {"Object", "Variable", "Method", "ObjectType", "VariableType", "ReferenceType",
            "DataType", "View"}
Kind(classes, type) == [classes |-> classes, type |-> type]
Variables == {"Variable", "VariableType"}
Table == [NodeId |-> Kind(Classes, "NodeId"), NodeClass |-> Kind(Classes, "Int32"),
          BrowseName |-> Kind(Classes, "QualifiedName"),
          DisplayName |-> Kind(Classes, "LocalizedText"),
          Description |-> Kind(Classes, "LocalizedText"),
          WriteMask |-> Kind(Classes, "UInt32"), UserWriteMask |-> Kind(Classes, "UInt32"),
          IsAbstract |-> Kind({"ReferenceType", "ObjectType", "VariableType", "DataType"}, "Boolean"),
          Symmetric |-> Kind({"ReferenceType"}, "Boolean"),
          InverseName |-> Kind({"ReferenceType"}, "LocalizedText"),
          ContainsNoLoops |-> Kind({"View"}, "Boolean"),
          EventNotifier |-> Kind({"View", "Object"}, "Byte"),
          Value |-> Kind(Variables, "Variant"), DataType |-> Kind(Variables, "NodeId"),
          ValueRank |-> Kind(Variables, "Int32"), ArrayDimensions |-> Kind(Variables, "Int32"),
          AccessLevel |-> Kind({"Variable"}, "Byte"), UserAccessLevel |-> Kind({"Variable"}, "Byte"),
          MinimumSamplingInterval |-> Kind({"Variable"}, "Double"),
          Historizing |-> Kind({"Variable"}, "Boolean"),
          Executable |-> Kind({"Method"}, "Boolean"), UserExecutable |-> Kind({"Method"}, "Boolean")]

(* The text of a range travels as one item that carries its tokens.        *)
Text(tokens) == IF tokens = <<>> THEN NoString ELSE Bytes(<<Item(Len(tokens), tokens)>>)
Tokens(text) == text[1].at[1].v
DefaultBinary == Bytes(<<Item(13, "DefaultBinary")>>)

(* A request has a service, its type and its body; any service but Read    *)
(* and Write has the answers it may get.                                   *)
ReadItem(r) == [id |-> r[1], attribute |-> r[2], range |-> r[3], encoding |-> r[4][2]]
WriteItem(r) == [id |-> r[1], attribute |-> r[2], range |-> r[3], value |-> r[4]]
Items(r) == IF r.service = "Read" THEN r.body[4].at ELSE r.body[2].at
(* init_response: the header with the result of the service.               *)
ResponseHeader(status) == <<Now, 0, status, EmptyDiagnosticInfo, NoArray, NoBody>>
Answers(type, status, results) == [type |-> type, body |-> <<ResponseHeader(status), results, NoArray>>]
ServiceResult(a) == a.body[1][3]
ResultsOf(a) == IF Len(a.body) > 1 THEN a.body[2] ELSE NoArray
ServiceFault(status) == [type |-> "ServiceFault", body |-> <<ResponseHeader(status)>>]

-----------------------------------------------------------------------------
(* Reading                                                                 *)
WithStatus(status) == [EmptyDataValue EXCEPT !.has = {"status"}, !.status = status]
Wants(timestamps, side) == timestamps \in {side, "both"}
WithSource(d, timestamps) ==
    IF Wants(timestamps, "source") THEN [d EXCEPT !.has = @ \union {"source"}, !.source = Now] ELSE d
WithServer(d, timestamps) ==
    IF Wants(timestamps, "server") THEN [d EXCEPT !.has = @ \union {"server"}, !.server = Now] ELSE d
WithValue(v) == [EmptyDataValue EXCEPT !.has = {"value"}, !.value = v]

(* What a read returns and the copies that it makes for it, one after      *)
(* another: of a whole variant, of a range, or of a scalar or an array     *)
(* without dimensions that is put into a fresh variant; and before them    *)
(* the dimensions of the range that was asked for.                         *)
Reads(d, copies) == [dv |-> d, copies |-> copies]
Refuses(status) == Reads(WithStatus(status), <<>>)
CopyOf(how, v) == <<[how |-> how, v |-> v]>>
CopyInto(c, h) ==
    CASE c.how = "dimensions" -> RangeMemory(c.v, h)
      [] c.how = "whole" -> CopyVariant(c.v, h)
      [] c.how = "range" -> RangeCopy(c.v.type, c.v.at, c.v.dims.len > 0, h)
      [] c.how = "fresh" /\ IsScalar(c.v) -> ScalarCopy(c.v.type, c.v.at[1], h)
      [] OTHER -> ArrayCopy(c.v.type, [len |-> c.v.len, at |-> c.v.at], h)
(* A copy that fails ends the read.  The copies are deleted at last with   *)
(* the response, or when their value is known.                             *)
AfterCopies(reads, h) ==
    LET Next(r, c) == IF r.ok THEN AndCopy(r, CopyInto(c, r.h)) ELSE r
        Drops(g, c) == IF c = NoPointers THEN g ELSE DropVariant(c, g)
        After(r) == [dv |-> IF r.ok THEN reads.dv ELSE WithStatus("BADOUTOFMEMORY"),
                     h |-> FoldLeft(Drops, r.h, r.c)]
    IN After(FoldLeft(Next, Copied(TRUE, <<>>, h), reads.copies))

(* readNamespaces and readCurrentTime: no dimensions.  They refuse a range *)
(* in the status, and leave the value, which was announced, empty.         *)
readDataSource(n, hasRange, timestamps) ==
    IF hasRange
    THEN Reads([WithValue(EmptyVariant) EXCEPT !.has = @ \union {"status"}, !.status = "BADINDEXRANGEINVALID"], <<>>)
    ELSE Reads(WithSource(WithValue([n.value EXCEPT !.dims = NoArray]), timestamps), CopyOf("fresh", n.value))

getVariableNodeValue(n, range, timestamps) ==
    LET hasRange == range[1].len > 0
        parsed == parse_numericrange(Tokens(range))
        t == testRangeWithVariant(n.value, parsed.range)
        part == Ranged(n.value, parsed.range, t.blocks)
        Part == IF t.status # "GOOD" THEN Refuses(t.status)
                ELSE IF Overruns(n.value, t.blocks) THEN Refuses("overrun")
                ELSE Reads(WithSource(WithValue(part), timestamps), CopyOf("range", part))
        After(r) == Reads(r.dv, CopyOf("dimensions", parsed.begun) \o r.copies)
    IN CASE hasRange /\ parsed.status # "GOOD" -> After(Refuses(parsed.status))
         [] hasRange /\ parsed.status = "GOOD" ->
              After(IF n.source = "dataSource" THEN readDataSource(n, TRUE, timestamps) ELSE Part)
         [] OTHER ->
              IF n.source = "dataSource" THEN readDataSource(n, FALSE, timestamps)
              ELSE Reads(WithSource(WithValue(n.value), timestamps), CopyOf("whole", n.value))

(* The value of a data source is read to learn its type and its dimensions *)
(* and deleted again.                                                      *)
AboutValue(n, about) ==
    Reads(WithValue(about), (IF n.source = "variant" THEN <<>> ELSE CopyOf("fresh", n.value)) \o CopyOf("fresh", about))
getVariableNodeDataType(n) ==
    AboutValue(n, Scalar("NodeId", NumericId(0, UA_TYPES[n.value.type].typeId)))
getVariableNodeArrayDimensions(n) ==
    LET dims == IF n.source = "variant" THEN n.value.dims ELSE NoArray
    IN AboutValue(n, [type |-> "Int32", len |-> dims.len, at |-> dims.at, dims |-> NoArray])

AttributeOf(id, n, a) ==
    CASE a = "NodeId" -> id
      [] a = "NodeClass" -> n.class
      [] OTHER -> n.attributes[a]
ReadAttribute(id, n, item, timestamps) ==
    CASE item.attribute \notin DOMAIN Table -> Refuses("BADATTRIBUTEIDINVALID")
      [] item.attribute \in DOMAIN Table /\ n.class \notin Table[item.attribute].classes ->
            Refuses("BADATTRIBUTEIDINVALID")
      [] item.attribute = "Value" /\ n.class \in Variables ->
            getVariableNodeValue(n, item.range, timestamps)
      [] item.attribute = "DataType" /\ n.class \in Variables -> getVariableNodeDataType(n)
      [] item.attribute = "ArrayDimensions" /\ n.class \in Variables -> getVariableNodeArrayDimensions(n)
      [] OTHER ->
            LET x == Scalar(Table[item.attribute].type, AttributeOf(id, n, item.attribute))
            IN Reads(WithValue(x), CopyOf("fresh", x))

Service_Read_single(nodes, item, timestamps, h) ==
    LET Refused(status) == [dv |-> WithStatus(status), h |-> h]
    IN CASE item.encoding[1].len >= 0 /\ item.encoding # DefaultBinary -> Refused("BADDATAENCODINGINVALID")
         [] item.encoding \in {NoString, DefaultBinary} /\ item.range[1].len >= 0 /\ item.attribute # "Value" ->
               Refused("BADINDEXRANGENODATA")
         [] item.encoding \in {NoString, DefaultBinary} /\ (item.range[1].len < 0 \/ item.attribute = "Value")
            /\ item.id \notin Id -> Refused("BADNODEIDUNKNOWN")
         [] OTHER ->
               [AfterCopies(ReadAttribute(item.id, nodes[item.id], item, timestamps), h)
                    EXCEPT !.dv = WithServer(@, timestamps)]

(* One result for every item, whatever becomes of the others.              *)
Service_Read(nodes, body, h) ==
    LET items == body[4].at
        results == Malloc(h)
        And(s, r) == [dvs |-> Append(s.dvs, r.dv), h |-> r.h]
        Next(s, x) == And(s, Service_Read_single(nodes, ReadItem(x), body[3], s.h))
        Result(status, values, g) == [answer |-> Answers("ReadResponse", status, values), h |-> g]
        Done(all) == Result("GOOD", Array(all.dvs), Free(results.p, all.h))
        valid == items # <<>> /\ body[3] # "invalid"
    IN CASE items = <<>> -> Result("BADNOTHINGTODO", NoArray, h)
         [] items # <<>> /\ body[3] = "invalid" -> Result("BADTIMESTAMPSTORETURNINVALID", NoArray, h)
         [] valid /\ results.p = NULL -> Result("BADOUTOFMEMORY", NoArray, results.h)
         [] valid /\ results.p # NULL /\ body[2] < 0 ->
              Result("BADMAXAGEINVALID", Array([i \in DOMAIN items |-> EmptyDataValue]), Free(results.p, results.h))
         [] OTHER -> Done(FoldLeft(Next, [dvs |-> <<>>, h |-> results.h], items))

-----------------------------------------------------------------------------
(* Writing                                                                 *)
Written(status, n, h) == [status |-> status, n |-> n, h |-> h]
(* The type on the wire may differ from the one in the node: an            *)
(* enumeration comes as an Int32, an array of bytes as a ByteString.       *)
Cast(old, new) ==
    CASE old.type = new.type -> {new}
      [] old.type # new.type /\ TrueType(old.type) = TrueType(new.type) -> {[new EXCEPT !.type = old.type]}
      [] old.type = "Byte" /\ ~IsScalar(old) /\ new.type = "ByteString" /\ IsScalar(new) ->
            {[new EXCEPT !.type = "Byte", !.len = new.at[1][1].len, !.at = new.at[1][1].at]}
      [] OTHER -> {}
(* What is written once the range, if there is one, was parsed.            *)
AfterRange(n, range, h, Write(_)) ==
    LET parsed == parse_numericrange(Tokens(range))
        Freed(r, held) == [r EXCEPT !.h = Free(held, @)]
        Parsed(m) ==
            CASE ~m.ok -> Written("BADOUTOFMEMORY", n, m.h)
              [] m.ok /\ parsed.status # "GOOD" -> Written(parsed.status, n, Free(m.c.data.p, m.h))
              [] OTHER -> Freed(Write(m.h), m.c.data.p)
    IN IF range[1].len > 0 THEN Parsed(RangeMemory(parsed.begun, h)) ELSE Write(h)
MoveBeforeTypeCheck(n, item, h) ==
    IF item.range[1].len > 0 \/ Cast(n.value, item.value.value) = {}
    THEN Written("BADTYPEMISMATCH", [n EXCEPT !.value = EmptyVariant], h)
    ELSE Written("GOOD", [n EXCEPT !.value = CHOOSE v \in Cast(n.value, item.value.value) : TRUE], h)
MoveValueIntoNode(n, item, h) ==
    LET casts == Cast(n.value, item.value.value)
        new == CHOOSE v \in casts : TRUE
        Moved(r) == Written(r.status, [n EXCEPT !.value = r.value], r.h)
        Move(g) ==
            CASE casts = {} -> Written("BADTYPEMISMATCH", n, g)
              [] casts # {} /\ item.range[1].len <= 0 -> Written("GOOD", [n EXCEPT !.value = new], g)
              [] OTHER -> Moved(setRangeCopy(n.value, new, parse_numericrange(Tokens(item.range)).range, g))
    IN AfterRange(n, item.range, h, Move)

MoveAttributeIntoNode(n, item, h) ==
    LET a == item.attribute
        v == item.value.value
        kind == Table[a]
        Answered(status) == Written(status, n, h)
    IN CASE a \in {"NodeId", "NodeClass", "DataType"} -> Answered("BADWRITENOTSUPPORTED")
         [] a \notin DOMAIN Table \/ a \in {"ValueRank", "ArrayDimensions"} -> Answered("BADATTRIBUTEIDINVALID")
         [] OTHER ->
              IF n.class \notin kind.classes THEN Answered("BADNODECLASSINVALID")
              ELSE IF a = "Value" THEN MoveValueIntoNode(n, item, h)
              ELSE IF v.type # kind.type \/ ~IsScalar(v) THEN Answered("BADTYPEMISMATCH")
              ELSE Written("GOOD", [n EXCEPT !.attributes[a] = v.at[1]], h)

(* A data source without a write function is called all the same.          *)
WriteDataSource(n, item, h) ==
    LET Call(g) == IF n.write = "none" THEN Written("crashed", n, g)
                   ELSE Written(n.write, IF n.write = "GOOD" THEN [n EXCEPT !.value = item.value.value] ELSE n, g)
    IN AfterRange(n, item.range, h, Call)

Service_Write_single(nodes, item, h) ==
    CASE "value" \notin item.value.has \/ item.value.value.at = <<>> -> Written("BADNODATA", nodes, h)
      [] "value" \in item.value.has /\ item.value.value.at # <<>> /\ item.id \notin Id ->
            Written("BADNODEIDUNKNOWN", nodes, h)
      [] OTHER ->
            LET n == nodes[item.id]
                Stored(r) == Written(r.status, [nodes EXCEPT ![item.id] = r.n], r.h)
            IN Stored(IF item.attribute = "Value" /\ n.class = "Variable" /\ n.source = "dataSource"
                      THEN WriteDataSource(n, item, h) ELSE MoveAttributeIntoNode(n, item, h))

Stopped == {"crashed", "overrun"}
Stops(status) == ToSet(status) \intersect Stopped # {}
Service_Write(nodes, body, h) ==
    LET results == Malloc(h)
        And(s, r) == Written(Append(s.status, r.status), r.n, r.h)
        Next(s, x) ==
            IF Stops(s.status) THEN s ELSE And(s, Service_Write_single(s.n, WriteItem(x), s.h))
        Answered(status, values, n, g) == Written(Answers("WriteResponse", status, values), n, g)
        Done(all) == Answered("GOOD", Array(all.status), all.n, Free(results.p, all.h))
    IN CASE body[2].at = <<>> -> Answered("BADNOTHINGTODO", NoArray, nodes, h)
         [] body[2].at # <<>> /\ results.p = NULL -> Answered("BADOUTOFMEMORY", NoArray, nodes, results.h)
         [] OTHER -> Done(FoldLeft(Next, Written(<<>>, nodes, results.h), body[2].at))

-----------------------------------------------------------------------------
NoMessage == <<>>
NoAnswer == [type |-> "none"]
NoRequest == [service |-> "none"]
Init ==
    /\ \E i \in DOMAIN Servers : node = Servers[i]
    /\ pc = "idle"
    /\ asked = 0
    /\ request = NoRequest
    /\ response = NoAnswer
    /\ wire = NoMessage
    /\ result = [status |-> "none"]
    /\ heap = Heap(0)

(* The client encodes a request into its one buffer.                       *)
UA_Client_Service(r) ==
    /\ pc = "idle" /\ asked < MaxRequests
    /\ asked' = asked + 1
    /\ request' = r
    /\ \E m \in {Encode(r.type, r.body)} :
          IF Width(m) > Capacity
          THEN pc' = "returned" /\ result' = [status |-> "BADENCODINGERROR"] /\ UNCHANGED wire
          ELSE pc' = "sent" /\ wire' = m /\ UNCHANGED result
    /\ UNCHANGED <<node, response, heap>>

(* A response that does not fit is sent as a ServiceFault, but is dropped   *)
(* when the service was called without invoke_service.                     *)
Uninvoked == {"FindServersResponse", "GetEndpointsResponse", "OpenSecureChannelResponse",
              "CreateSessionResponse", "ActivateSessionResponse"}
Answer(a) ==
    LET fault == ServiceFault("BADENCODINGERROR")
        Sent(r, m) == pc' = "answered" /\ response' = r /\ wire' = m
    IN \E m \in {Encode(a.type, a.body)} :
          CASE Width(m) <= Capacity -> Sent(a, m)
            [] Width(m) > Capacity /\ a.type \in Uninvoked -> pc' = "unanswered" /\ UNCHANGED <<response, wire>>
            [] OTHER -> Sent(fault, Encode(fault.type, fault.body))

(* A request that cannot be decoded, for an allocation that fails, gets no *)
(* answer.                                                                 *)
Undecoded ==
    /\ pc = "sent"
    /\ pc' = "unanswered"
    /\ UNCHANGED <<node, asked, request, response, wire, result, heap>>
Decoded == Decode(request.type, wire, 1).v
(* The server handles the request while one of its allocations fails, or   *)
(* none (0).                                                               *)
processRead(fails) ==
    /\ pc = "sent" /\ request.service = "Read"
    /\ \E r \in {Service_Read(node, Decoded, Heap(fails))} :
       LET values == ResultsOf(r.answer).at
       IN IF \E i \in DOMAIN values : values[i].status = "overrun"
          THEN pc' = "overrun" /\ UNCHANGED <<response, wire, heap>>
          ELSE heap' = r.h /\ Answer(r.answer)
    /\ UNCHANGED <<node, asked, request, result>>
processWrite(fails) ==
    /\ pc = "sent" /\ request.service = "Write"
    /\ \E r \in {Service_Write(node, Decoded, Heap(fails))} :
       LET status == ResultsOf(r.status).at
       IN IF Stops(status)
          THEN pc' \in ToSet(status) \intersect Stopped /\ UNCHANGED <<node, response, wire, heap>>
          ELSE node' = r.n /\ heap' = r.h /\ Answer(r.status)
    /\ UNCHANGED <<asked, request, result>>
(* Of the other services only the messages are modelled.                   *)
processOther ==
    /\ pc = "sent" /\ request.service = "other"
    /\ \E i \in DOMAIN request.answers : Answer(request.answers[i])
    /\ UNCHANGED <<node, asked, request, result, heap>>

(* __UA_Client_readAttribute returns for a value that is refused that it   *)
(* has a status (1), not which.  It takes scalars of the type it expects,  *)
(* which for a NodeClass is the enumeration, which is never sent, and for  *)
(* the access levels not the Byte of the server.                           *)
ClientType(attribute) ==
    CASE attribute = "NodeClass" -> "NodeClass"
      [] attribute \in {"AccessLevel", "UserAccessLevel"} -> "UInt32"
      [] OTHER -> Table[attribute].type
readAttribute(attribute, d) ==
    CASE "status" \in d.has -> [status |-> 1]
      [] "status" \notin d.has /\ ("value" \notin d.has \/ ~IsScalar(d.value)) ->
            [status |-> "BADUNEXPECTEDERROR"]
      [] OTHER -> IF attribute # "Value" /\ d.value.type # ClientType(attribute)
                  THEN [status |-> "BADUNEXPECTEDERROR"]
                  ELSE [status |-> "GOOD", value |-> d.value]
ResultOf(r, a) ==
    CASE ServiceResult(a) # "GOOD" -> [status |-> ServiceResult(a)]
      [] ServiceResult(a) = "GOOD" /\ r.service = "Read" /\ Len(Items(r)) = 1 ->
            readAttribute(ReadItem(Items(r)[1]).attribute, ResultsOf(a).at[1])
      [] OTHER -> [status |-> "GOOD"]
UA_Client_Receive ==
    /\ pc = "answered"
    /\ pc' = "returned"
    /\ \E d \in {Decode(response.type, wire, 1)} :
          result' = IF d.ok THEN ResultOf(request, [type |-> response.type, body |-> d.v])
                    ELSE [status |-> "BADDECODINGERROR"]
    /\ wire' = NoMessage
    /\ UNCHANGED <<node, asked, request, response, heap>>

(* The caller goes on; after no answer at all it has to connect again.     *)
Return ==
    /\ pc \in {"returned", "unanswered"}
    /\ pc' = "idle"
    /\ request' = NoRequest /\ response' = NoAnswer /\ wire' = NoMessage
    /\ result' = [status |-> "none"] /\ heap' = Heap(0)
    /\ UNCHANGED <<node, asked>>

Next ==
    \/ LET all == Requests(Id, asked) IN \E i \in DOMAIN all : UA_Client_Service(all[i])
    \/ \E k \in 0..MaxFailing : processRead(k)
    \/ \E k \in 0..MaxFailing : processWrite(k)
    \/ processOther
    \/ Undecoded
    \/ UA_Client_Receive
    \/ Return

Spec == Init /\ [][Next]_vars
-----------------------------------------------------------------------------
(* Every value of a node is a scalar or an array of its length.            *)
WellFormed(v) == IF v.len = -1 THEN Len(v.at) <= 1
                 ELSE v.len = IF v.type = "Byte" THEN Width(v.at) ELSE Len(v.at)
TypeOK ==
    /\ pc \in {"idle", "sent", "answered", "returned", "unanswered", "crashed", "overrun"}
    /\ \A i \in Id : node[i].class \in Classes /\ WellFormed(node[i].value)
    /\ (pc = "idle") = (request = NoRequest)
    /\ heap.live \subseteq 1..heap.count

(* What a value is after it was sent: texts without data are null, what is *)
(* not builtin is an ExtensionObject, a namespace URI took the place of    *)
(* the index, and only arrays have dimensions.  Three more are not values  *)
(* as they were sent, but what the code makes of them: a number or a       *)
(* namespace of 256 that was written into one byte is 0, picoseconds are   *)
(* cut at 1000, and a single ExtensionObject with the id of a type itself  *)
(* is what begins with the length of its body, read as that type.          *)
RECURSIVE Canonical(_, _)
CanonicalId(id) ==
    CASE id.type = "numeric" /\ id.id <= UInt16Max /\ id.ns = 256 -> [id EXCEPT !.ns = 0]
      [] id.type = "numeric" /\ id.ns = 0 /\ id.id = 256 -> NumericId(0, 0)
      [] OTHER -> id
CanonicalArray(type, a) == [a EXCEPT !.at = [i \in DOMAIN @ |-> Canonical(type, @[i])]]
CanonicalVariant(v) ==
    LET Wrapped(x) == [typeId |-> NumericId(0, UA_TYPES[v.type].typeId + BinaryOffset), encoding |-> "bytes",
                       body |-> Bytes(Encode(v.type, x))]
        object == v.at[1]
        types == IF IsScalar(v) /\ v.type = "ExtensionObject"
                 THEN TypeOfObject(CanonicalId(object.typeId), object.encoding) ELSE {}
        type == CHOOSE t \in types : TRUE
        Kept == [type |-> IF IsBuiltin(v.type) THEN TrueType(v.type) ELSE "ExtensionObject", len |-> v.len,
                 at |-> [i \in DOMAIN v.at |-> IF IsBuiltin(v.type) THEN Canonical(v.type, v.at[i])
                                               ELSE Wrapped(v.at[i])],
                 dims |-> IF IsScalar(v) \/ v.dims.at = <<>> THEN NoArray ELSE v.dims]
    IN IF types = {} THEN Kept ELSE Scalar(type, Decode(type, Encode("ByteString", object.body), 1).v)
Canonical(type, x) ==
    CASE type = "NodeId" -> CanonicalId(x)
      [] type = "LocalizedText" -> [i \in 1..2 |-> IF x[i][1].at = <<>> THEN NoString ELSE x[i]]
      [] type = "ExpandedNodeId" ->
            LET id == CanonicalId(x.nodeId)
            IN IF x.uri[1].len > 0 THEN [x EXCEPT !.nodeId = [id EXCEPT !.ns = 0]]
               ELSE [x EXCEPT !.nodeId = id, !.uri = NoString]
      [] type = "ExtensionObject" -> [x EXCEPT !.typeId = CanonicalId(@)]
      [] type = "Variant" -> CanonicalVariant(x)
      [] type = "DataValue" ->
            [x EXCEPT !.value = IF "value" \in x.has THEN CanonicalVariant(@) ELSE EmptyVariant,
                      !.sourcePico = IF @ > 1000 THEN 1000 ELSE @, !.serverPico = IF @ > 1000 THEN 1000 ELSE @]
      [] Members(type) # <<>> /\ ~IsPlain(type) ->
            [i \in DOMAIN x |-> IF Members(type)[i].isArray THEN CanonicalArray(Members(type)[i].type, x[i])
                                ELSE Canonical(Members(type)[i].type, x[i])]
      [] OTHER -> x
ArrivesAs(type, x) ==
    LET IsWhole(d) == IF d.ok THEN d.v = Canonical(type, x) /\ d.at = Len(wire) + 1 ELSE d.v = "small"
    IN /\ IsWhole(Decode(type, wire, 1))
       /\ ~Decode(type, Front(wire), 1).ok
       /\ Size(type, x) >= Width(wire)

(* What the other side decodes is the value that was encoded, up to the    *)
(* forms the encoding knows and the three that are not what was sent (see  *)
(* Canonical), unless an array seems too long for the message; a message   *)
(* that lost its end does not pass for one, and UA_calcSizeBinary never    *)
(* gives a buffer that is too short.                                       *)
WireKeepsValues ==
    /\ pc = "sent" => ArrivesAs(request.type, request.body)
    /\ pc = "answered" => ArrivesAs(response.type, response.body)

(* When a response has been sent and deleted, no memory of its copies is   *)
(* left, and none was freed twice, whichever allocation failed; unless an  *)
(* element of an array failed, when the copy keeps the deleted array.      *)
CopiesAreOwnedOnce ==
    /\ TypeOK
    /\ pc \in {"answered", "returned"} => heap.live = {} /\ (heap.twice => heap.dangles)

AnswersRead == pc = "sent" /\ pc' = "answered" /\ request.service = "Read"
AnswersWrite == pc = "sent" /\ pc' = "answered" /\ request.service = "Write"
PartOf(item) == parse_numericrange(Tokens(item.range)).range
HasPart(item) ==
    /\ item.attribute = "Value" /\ item.range[1].len > 0 /\ item.id \in Id
    /\ node[item.id].source = "variant" /\ node[item.id].class \in Variables
    /\ parse_numericrange(Tokens(item.range)).status = "GOOD"
    /\ InBounds(DimsOf(node[item.id].value), PartOf(item))
    /\ Regular(node[item.id].value, PartOf(item))
ReadsPart(item, d) ==
    LET v == node[item.id].value
        s == Selected(DimsOf(v), PartOf(item))
    IN IF "value" \in d.has
       THEN /\ d.value.at = [i \in DOMAIN s |-> v.at[s[i] + 1]]
            /\ v.dims.len > 0 => d.value.dims.at = RangeSizes(PartOf(item))
       ELSE d.status = "BADOUTOFMEMORY"
Failed == heap'.fails \in 1..heap'.count
WritesPart(item, status) ==
    LET v == node[item.id].value
        s == Selected(DimsOf(v), PartOf(item))
        casts == Cast(v, item.value.value)
        new == CHOOSE x \in casts : TRUE
        fits == casts # {} /\ new.len = Len(s)
        IndexOf(p) == CHOOSE i \in DOMAIN s : s[i] = p
        stored == node'[item.id].value
        lost == {p \in DOMAIN v.at : stored.at[p] # IF p - 1 \in ToSet(s) THEN new.at[IndexOf(p - 1)] ELSE v.at[p]}
    IN /\ status = "GOOD" => fits /\ stored = [v EXCEPT !.at = stored.at] /\ DOMAIN stored.at = DOMAIN v.at
       /\ status = "GOOD" /\ ~Failed => lost = {}
       /\ status = "GOOD" /\ Failed =>
            /\ Cardinality(lost) <= 1
            /\ \A p \in lost : p - 1 \in ToSet(s) /\ stored.at[p] = Initial(v.type)
       /\ fits /\ status # "GOOD" => Failed /\ status = "BADOUTOFMEMORY"

(* A read of a part of an array returns the elements of the part, in their *)
(* order, and a write replaces them and no others.  This is said of parts  *)
(* that lie within the array and whose rows have no gaps between them,     *)
(* other than a whole array with dimensions (Regular): for those the code  *)
(* takes wrong elements, or what lies behind the array, as it does for an  *)
(* index one past the end, which it accepts.  When an allocation fails, a  *)
(* read has no value, and a write that is reported as good may leave one   *)
(* element empty.                                                          *)
RangesAreExact ==
    [][/\ AnswersRead /\ ResultsOf(response').len > 0 => \A i \in DOMAIN Items(request) :
            LET item == ReadItem(Items(request)[i])
            IN HasPart(item) /\ item.encoding = NoString => ReadsPart(item, ResultsOf(response').at[i])
       /\ AnswersWrite /\ ResultsOf(response').len = 1 =>
            LET item == WriteItem(Items(request)[1])
            IN HasPart(item) /\ item.value.value.at # <<>> => WritesPart(item, ResultsOf(response').at[1])]_vars

(* One failing item of a request changes nothing and keeps no other from   *)
(* taking effect; a value that was stored is the one that was sent, and a  *)
(* variable keeps its type for ever.                                       *)
WritesTakeEffect ==
    [][/\ \A i \in Id : node[i].source = "variant" => node'[i].value.type = node[i].value.type
       /\ AnswersWrite /\ ResultsOf(response').len > 0 =>
            \A i \in Id :
                LET good == {k \in DOMAIN Items(request) : Items(request)[k][1] = i
                                                          /\ ResultsOf(response').at[k] = "GOOD"}
                    last == CHOOSE k \in good : \A j \in good : j <= k
                    item == WriteItem(Items(request)[last])
                    new == item.value.value
                IN /\ good = {} => node'[i] = node[i]
                   /\ good # {} /\ item.range[1].len <= 0 =>
                        IF item.attribute = "Value"
                        THEN /\ node'[i].value.at = IF node[i].value.type = "Byte" THEN new.at[1][1].at
                                                    ELSE CanonicalVariant(new).at
                             /\ WellFormed(node'[i].value)
                        ELSE node'[i].attributes[item.attribute] = CanonicalVariant(new).at[1]]_vars
=============================================================================
