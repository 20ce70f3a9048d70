---------------------------- MODULE MCAttributes ----------------------------
(* One server for every kind of node; requests for each of its nodes and   *)
(* for one that it has not.                                                *)
EXTENDS Attributes
LOCAL INSTANCE TLC
LOCAL INSTANCE SequencesExt

Str(c) == Bytes(<<Item(2, c)>>)
Byte(n) == Item(1, n)
Empty == <<[len |-> 0, at |-> <<>>]>>
StringId(ns, s) == [ns |-> ns, type |-> "string", id |-> Str(s)]
GuidId(ns) == [ns |-> ns, type |-> "guid", id |-> "guid"]
Expanded(id, uri, index) == [nodeId |-> id, uri |-> uri, serverIndex |-> index]
Values(type, s) == [type |-> type, len |-> Len(s), at |-> s, dims |-> NoArray]
Matrix(type, dims, s) == [type |-> type, len |-> Len(s), at |-> s, dims |-> Array(dims)]

Object(id, body) == [typeId |-> id, encoding |-> "bytes", body |-> body]

Names == [BrowseName |-> <<0, Str("n")>>, DisplayName |-> <<Empty, Str("d")>>, WriteMask |-> 0]
VariableNode(source, write, v) ==
    [class |-> "Variable", source |-> source, write |-> write, value |-> v,
     attributes |-> Names @@ [AccessLevel |-> Byte(3)]]
Stored(v) == VariableNode("variant", "none", v)
OtherNode(class, attributes) ==
    [class |-> class, source |-> "variant", write |-> "none", value |-> EmptyVariant, attributes |-> attributes]
Info(text, inner) == [has |-> {"info"} \union (IF inner = <<>> THEN {} ELSE {"inner", "symbolicId"}),
                     symbolicId |-> IF inner = <<>> THEN 0 ELSE 4, info |-> Str(text), inner |-> inner]

MCServers ==
    <<NumericId(0, 255) :> Stored(Values("Int32", <<1, 2, 3>>)),
     NumericId(1, 0) :> Stored(Matrix("Int32", <<2, 3>>, <<1, 2, 3, 4, 5, 6>>)),
     NumericId(0, 257) :> Stored(Matrix("Int32", <<2, 2, 2>>, <<1, 2, 3, 4, 5, 6, 7, 8>>)),
     NumericId(0, 65535) :> Stored(Values("Byte", <<Byte(1), Byte(2)>>)),
     NumericId(257, 1) :> Stored(Values("String", <<Str("a"), Str("b")>>)),
     NumericId(0, 65536) :> Stored(Scalar("SubscriptionAcknowledgement", <<1, 2>>)),
     StringId(1, "s") :> Stored(Scalar("ServerState", 0)),
     GuidId(1) :> VariableNode("dataSource", "none", Scalar("DateTime", 5)),
     NumericId(0, 1) :> VariableNode("dataSource", "GOOD", Values("String", <<Str("a"), NoString>>)),
     NumericId(0, 2) :> VariableNode("dataSource", "BADUSERACCESSDENIED", Scalar("Int32", 1))
         @@ NumericId(0, 3) :> Stored(Scalar("Int32", 1)),
     NumericId(0, 4) :> OtherNode("Object", Names @@ [EventNotifier |-> Byte(0)])
         @@ NumericId(0, 5) :> OtherNode("ReferenceType", Names @@ [InverseName |-> <<NoString, Empty>>]),
     NumericId(0, 6) :> Stored(Scalar("DiagnosticInfo", Info("o", <<Info("i", <<>>)>>))),
     NumericId(0, 7) :> Stored(Matrix("ExpandedNodeId", <<2>>,
                               <<Expanded(NumericId(2, 1), Str("u"), 0), Expanded(StringId(0, "x"), Empty, 1)>>)),
     NumericId(0, 8) :> Stored(Values("Variant",
        <<Scalar("LocalizedText", <<Str("e"), Str("t")>>),
          Scalar("ExtensionObject", Object(NumericId(0, 12), Str("o"))),
          Matrix("ExtensionObject", <<1>>, <<Object(StringId(0, "y"), Str("b"))>>)>>)),
     NumericId(0, 9) :> Stored(Scalar("DataValue",
        [WithStatus("BAD") EXCEPT !.has = @ \union {"value", "source", "sourcePico", "serverPico"},
                                  !.value = Values("SubscriptionAcknowledgement", <<<<1, 2>>>>),
                                  !.source = 3, !.sourcePico = 1001, !.serverPico = 999]))>>

Parts == <<<<>>, <<0>>, <<0, ":", 1>>, <<1, ":", 2>>, <<2, ":">>, <<2, ":", 1>>, <<3>>, <<0, ",", 1, ":", 2>>, <<1, ",", 0, ":", 1>>,
          <<0, ":", 1, ",", 1>>, <<0, ":", 1, ",", 0, ":", 2>>, <<0, ":", 1, ",", 1, ",", 0, ":", 1>>,
          <<1, ",", 0, ":", 1, ",", 1>>, <<0, ":", 1, ",", 0, ",", 1>>>>
Header == <<StringId(1, "s"), 1, 1, 0, NoString, 0, NoBody>>
Reading(items) == [service |-> "Read", type |-> "ReadRequest", body |-> <<Header, 0, "both", Array(items)>>]
ReadOf(id, a, range, encoding) == <<id, a, Text(range), <<0, encoding>>>>
Writing(items) == [service |-> "Write", type |-> "WriteRequest", body |-> <<Header, Array(items)>>]
WriteOf(id, a, range, v) == <<id, a, Text(range), WithValue(v)>>

Offered == <<Scalar("Int32", 8), Values("Int32", <<8, 9>>), Values("Int32", <<7, 8, 9>>), Scalar("SubscriptionAcknowledgement", <<3, 4>>),
           Scalar("ByteString", Bytes(<<Byte(8), Byte(9)>>)), Values("String", <<Str("c"), Empty>>),
           Values("Int32", <<>>)>>
Unknown == NumericId(3, 3)
Misc(id) ==
    <<Reading(<<>>), Writing(<<>>), [Reading(<<ReadOf(id, "Value", <<>>, NoString)>>) EXCEPT !.body[2] = -1],
     [Reading(<<ReadOf(id, "Value", <<>>, NoString)>>) EXCEPT !.body[3] = "invalid"],
     [Reading([i \in 1..3 |-> ReadOf(id, "Value", <<>>, NoString)]) EXCEPT !.body[2] = -1],
     Reading(<<ReadOf(id, "Value", <<>>, Str("x")), ReadOf(id, "BrowseName", <<1>>, NoString),
           ReadOf(Unknown, "Value", <<>>, DefaultBinary), ReadOf(id, "Value", <<>>, DefaultBinary),
           ReadOf(id, "NoAttribute", <<>>, NoString), ReadOf(NumericId(0, 256), "Value", <<>>, NoString),
           ReadOf(NumericId(256, 1), "NodeId", <<>>, NoString)>>),
     Reading([i \in 1..6 |-> ReadOf(id, "Value", <<>>, NoString)]),
     Writing([i \in 1..17 |-> WriteOf(id, "Value", <<>>, Scalar("Int32", 6))]),
     Writing(<<WriteOf(Unknown, "Value", <<>>, Scalar("Int32", 7)), WriteOf(id, "Value", <<>>, Scalar("Int32", 5)),
            WriteOf(id, "BrowseName", <<>>, Scalar("QualifiedName", <<1, Str("m")>>)),
            WriteOf(id, "EventNotifier", <<>>, Scalar("Byte", Byte(1))), WriteOf(id, "NodeClass", <<>>, Scalar("Int32", 1)),
            WriteOf(id, "ValueRank", <<>>, Scalar("Int32", 1))>>),
     Writing(<<WriteOf(id, "Value", <<>>, Scalar("ExtensionObject", Object(NumericId(0, 6), NoString)))>>),
     Writing(<<WriteOf(id, "WriteMask", <<>>, Scalar("UInt32", 1)), WriteOf(id, "WriteMask", <<>>, Scalar("Int32", 2)),
            WriteOf(id, "InverseName", <<>>, Scalar("LocalizedText", <<Empty, Str("i")>>))>>)>>
Asked == <<"NodeId", "NodeClass", "BrowseName", "DisplayName", "DataType", "ArrayDimensions",
                "InverseName", "EventNotifier", "AccessLevel">>
RequestsFor(id) ==
    Misc(id) \o [i \in DOMAIN Parts |-> Reading(<<ReadOf(id, "Value", Parts[i], NoString)>>)]
             \o [i \in DOMAIN Asked |-> Reading(<<ReadOf(id, Asked[i], <<>>, NoString)>>)]
             \o FlattenSeq([i \in DOMAIN Parts |->
                    [j \in DOMAIN Offered |-> Writing(<<WriteOf(id, "Value", Parts[i], Offered[j])>>)]])
Again(id) == <<Reading(<<ReadOf(id, "Value", <<>>, NoString)>>),
               Reading(<<ReadOf(id, "Value", <<0, ":", 1>>, NoString), ReadOf(id, "DataType", <<>>, NoString)>>),
               Writing(<<WriteOf(id, "Value", <<1>>, Values("Int32", <<4>>)),
                         WriteOf(id, "Value", <<>>, Values("Int32", <<3>>))>>)>>

(* Messages of the other services: with nothing in them, or with up to     *)
(* three elements in each array.                                           *)
RECURSIVE Sample(_, _)
Sample(type, k) ==
    LET Pick(s) == s[(k % 3) + 1]
    IN CASE IsPlain(type) -> k
         [] type = "Byte" -> Byte(k)
         [] type \in {"String", "ByteString", "XmlElement"} -> Pick(<<NoString, Str("t"), Empty>>)
         [] type = "NodeId" -> Pick(<<NumericId(0, 0), StringId(1, "s"), NumericId(1, 65536)>>)
         [] type = "ExpandedNodeId" -> Expanded(Sample("NodeId", k), Pick(<<NoString, Str("u"), NoString>>), k)
         [] type = "ExtensionObject" ->
              [NoBody EXCEPT !.encoding = Pick(<<"none", "bytes", "xml">>), !.body = Sample("String", k)]
         [] type = "Variant" ->
              Pick(<<EmptyVariant, Values("String", <<Str("v")>>), Scalar("SubscriptionAcknowledgement", <<1, 2>>)>>)
         [] type = "DataValue" -> Pick(<<EmptyDataValue, WithValue(Scalar("Int32", 1)), WithStatus("BAD")>>)
         [] type = "DiagnosticInfo" -> Pick(<<EmptyDiagnosticInfo, Info("i", <<>>), EmptyDiagnosticInfo>>)
         [] OTHER ->
              LET Filled(m) == IF ~m.isArray THEN Sample(m.type, k)
                               ELSE IF k = 0 THEN NoArray
                               ELSE Array([i \in 1..k |-> Sample(m.type, k)])
              IN [i \in DOMAIN Members(type) |-> Filled(Members(type)[i])]
Services == <<"FindServers", "GetEndpoints", "OpenSecureChannel", "CloseSecureChannel", "CreateSession",
              "ActivateSession", "CloseSession", "AddNodes", "AddReferences", "DeleteNodes", "DeleteReferences",
              "Browse", "BrowseNext", "TranslateBrowsePathsToNodeIds", "RegisterNodes", "UnregisterNodes",
              "QueryFirst", "QueryNext", "Call", "CreateMonitoredItems", "CreateSubscription",
              "SetPublishingMode", "Publish", "DeleteSubscriptions">>
OtherRequest(service, body) ==
    [service |-> "other", type |-> service \o "Request", body |-> body,
     answers |-> [k \in 1..4 |-> [type |-> service \o "Response",
                                 body |-> [Sample(service \o "Response", k - 1) EXCEPT ![1][3] = "GOOD"]]]
                 \o <<ServiceFault("BADSERVICEUNSUPPORTED")>>]
OtherRequests ==
    FlattenSeq([k \in 1..3 |-> [i \in DOMAIN Services |->
        OtherRequest(Services[i], Sample(Services[i] \o "Request", k - 1))]])
RequestsOf(ids) ==
    LET s == SetToSeq(ids)
    IN FlattenSeq([k \in DOMAIN s |-> RequestsFor(s[k])])
         \o IF NumericId(0, 3) \in ids THEN OtherRequests ELSE <<>>
FirstRequests == [k \in DOMAIN MCServers |-> RequestsOf(DOMAIN MCServers[k])]
MCRequests(ids, n) ==
    IF n = 0 THEN FirstRequests[CHOOSE k \in DOMAIN MCServers : DOMAIN MCServers[k] = ids]
    ELSE LET s == SetToSeq(ids) IN FlattenSeq([k \in DOMAIN s |-> Again(s[k])])
=============================================================================
