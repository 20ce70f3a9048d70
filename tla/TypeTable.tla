----------------------------- MODULE TypeTable -----------------------------
(***************************************************************************)
(* The table of the data types that drives the generic functions of the    *)
(* types: their ids and, of the structures, the members in their order,    *)
(* with what the generator derives from them.  A member is one value or an *)
(* array of them.                                                          *)
(***************************************************************************)
EXTENDS Integers, Sequences
LOCAL INSTANCE TLC
LOCAL INSTANCE SequencesExt

One(type) == [type |-> type, isArray |-> FALSE]
Many(type) == [type |-> type, isArray |-> TRUE]
Row(typeId, members) == [typeId |-> typeId, members |-> members]
Enumeration(typeId) == Row(typeId, <<One("Int32")>>)
Request(typeId, members) == Row(typeId, <<One("RequestHeader")>> \o members)
Response(typeId, members) == Row(typeId, <<One("ResponseHeader")>> \o members)
Results(typeId, type) == Response(typeId, <<Many(type), Many("DiagnosticInfo")>>)
NodeAttributes(typeId, members) ==
    Row(typeId, <<One("UInt32"), One("LocalizedText"), One("LocalizedText"), One("UInt32"),
                  One("UInt32")>> \o members)

(* Numbers, strings, and the headers of all messages.                      *)
BasicTypes ==
    [Boolean |-> Row(1, <<>>), SByte |-> Row(2, <<>>), Byte |-> Row(3, <<>>),
     Int16 |-> Row(4, <<>>), UInt16 |-> Row(5, <<>>), Int32 |-> Row(6, <<>>),
     UInt32 |-> Row(7, <<>>), Int64 |-> Row(8, <<>>), UInt64 |-> Row(9, <<>>),
     Float |-> Row(10, <<>>), Double |-> Row(11, <<>>), String |-> Row(12, <<Many("Byte")>>),
     DateTime |-> Row(13, <<>>), Guid |-> Row(14, <<>>),
     ByteString |-> Row(15, <<Many("Byte")>>), XmlElement |-> Row(16, <<Many("Byte")>>),
     NodeId |-> Row(17, <<>>),
     ExpandedNodeId |-> Row(18, <<One("NodeId"), One("String"), One("UInt32")>>),
     StatusCode |-> Row(19, <<>>), QualifiedName |-> Row(20, <<One("UInt16"), One("String")>>),
     LocalizedText |-> Row(21, <<One("String"), One("String")>>),
     ExtensionObject |-> Row(22, <<>>), DataValue |-> Row(23, <<>>), Variant |-> Row(24, <<>>),
     DiagnosticInfo |-> Row(25, <<>>), IdType |-> Enumeration(256),
     NodeClass |-> Enumeration(257),
     ReferenceNode |-> Row(285, <<One("NodeId"), One("Boolean"), One("ExpandedNodeId")>>),
     Argument |-> Row(296, <<One("String"), One("NodeId"), One("Int32"), Many("UInt32"),
        One("LocalizedText")>>),
     ApplicationType |-> Enumeration(307),
     ApplicationDescription |-> Row(308, <<One("String"), One("String"), One("LocalizedText"),
        One("ApplicationType"), One("String"), One("String"), Many("String")>>),
     RequestHeader |-> Row(389, <<One("NodeId"), One("DateTime"), One("UInt32"), One("UInt32"),
        One("String"), One("UInt32"), One("ExtensionObject")>>),
     ResponseHeader |-> Row(392, <<One("DateTime"), One("UInt32"), One("StatusCode"),
        One("DiagnosticInfo"), Many("String"), One("ExtensionObject")>>)]

(* Discovery and secure channels.                                          *)
ChannelTypes ==
    [ServiceFault |-> Response(395, <<>>),
     FindServersRequest |-> Request(420, <<One("String"), Many("String"), Many("String")>>),
     FindServersResponse |-> Response(423, <<Many("ApplicationDescription")>>),
     MessageSecurityMode |-> Enumeration(302), UserTokenType |-> Enumeration(303),
     UserTokenPolicy |-> Row(304, <<One("String"), One("UserTokenType"), One("String"),
        One("String"), One("String")>>),
     EndpointDescription |-> Row(312, <<One("String"), One("ApplicationDescription"),
        One("ByteString"), One("MessageSecurityMode"), One("String"), Many("UserTokenPolicy"),
        One("String"), One("Byte")>>),
     GetEndpointsRequest |-> Request(426, <<One("String"), Many("String"), Many("String")>>),
     GetEndpointsResponse |-> Response(429, <<Many("EndpointDescription")>>),
     SecurityTokenRequestType |-> Enumeration(315),
     ChannelSecurityToken |-> Row(441, <<One("UInt32"), One("UInt32"), One("DateTime"),
        One("UInt32")>>),
     OpenSecureChannelRequest |-> Request(444, <<One("UInt32"), One("SecurityTokenRequestType"),
        One("MessageSecurityMode"), One("ByteString"), One("UInt32")>>),
     OpenSecureChannelResponse |-> Response(447, <<One("UInt32"), One("ChannelSecurityToken"),
        One("ByteString")>>),
     CloseSecureChannelRequest |-> Request(450, <<>>),
     CloseSecureChannelResponse |-> Response(453, <<>>)]

(* Sessions.                                                               *)
SessionTypes ==
    [SignedSoftwareCertificate |-> Row(344, <<One("ByteString"), One("ByteString")>>),
     SignatureData |-> Row(456, <<One("String"), One("ByteString")>>),
     CreateSessionRequest |-> Request(459, <<One("ApplicationDescription"), One("String"),
        One("String"), One("String"), One("ByteString"), One("ByteString"), One("Double"),
        One("UInt32")>>),
     CreateSessionResponse |-> Response(462, <<One("NodeId"), One("NodeId"), One("Double"),
        One("ByteString"), One("ByteString"), Many("EndpointDescription"),
        Many("SignedSoftwareCertificate"), One("SignatureData"), One("UInt32")>>),
     UserIdentityToken |-> Row(316, <<One("String")>>),
     AnonymousIdentityToken |-> Row(319, <<One("String")>>),
     UserNameIdentityToken |-> Row(322, <<One("String"), One("String"), One("ByteString"),
        One("String")>>),
     ActivateSessionRequest |-> Request(465, <<One("SignatureData"),
        Many("SignedSoftwareCertificate"), Many("String"), One("ExtensionObject"),
        One("SignatureData")>>),
     ActivateSessionResponse |-> Response(468, <<One("ByteString"), Many("StatusCode"),
        Many("DiagnosticInfo")>>),
     CloseSessionRequest |-> Request(471, <<One("Boolean")>>),
     CloseSessionResponse |-> Response(474, <<>>)]

(* What a new node is given, by its class.                                 *)
AttributeSets ==
    [NodeAttributesMask |-> Enumeration(348), NodeAttributes |-> NodeAttributes(349, <<>>),
     ObjectAttributes |-> NodeAttributes(352, <<One("Byte")>>),
     VariableAttributes |-> NodeAttributes(355, <<One("Variant"), One("NodeId"), One("Int32"),
        Many("UInt32"), One("Byte"), One("Byte"), One("Double"), One("Boolean")>>),
     MethodAttributes |-> NodeAttributes(358, <<One("Boolean"), One("Boolean")>>),
     ObjectTypeAttributes |-> NodeAttributes(361, <<One("Boolean")>>),
     VariableTypeAttributes |-> NodeAttributes(364, <<One("Variant"), One("NodeId"), One("Int32"),
        Many("UInt32"), One("Boolean")>>),
     ReferenceTypeAttributes |-> NodeAttributes(367, <<One("Boolean"), One("Boolean"),
        One("LocalizedText")>>),
     DataTypeAttributes |-> NodeAttributes(370, <<One("Boolean")>>),
     ViewAttributes |-> NodeAttributes(373, <<One("Boolean"), One("Byte")>>)]

(* Node management.                                                        *)
NodeManagementTypes ==
    [AddNodesItem |-> Row(376, <<One("ExpandedNodeId"), One("NodeId"), One("ExpandedNodeId"),
        One("QualifiedName"), One("NodeClass"), One("ExtensionObject"), One("ExpandedNodeId")>>),
     AddNodesResult |-> Row(483, <<One("StatusCode"), One("NodeId")>>),
     AddNodesRequest |-> Request(486, <<Many("AddNodesItem")>>),
     AddNodesResponse |-> Results(489, "AddNodesResult"),
     AddReferencesItem |-> Row(379, <<One("NodeId"), One("NodeId"), One("Boolean"), One("String"),
        One("ExpandedNodeId"), One("NodeClass")>>),
     AddReferencesRequest |-> Request(492, <<Many("AddReferencesItem")>>),
     AddReferencesResponse |-> Results(495, "StatusCode"),
     DeleteNodesItem |-> Row(382, <<One("NodeId"), One("Boolean")>>),
     DeleteNodesRequest |-> Request(498, <<Many("DeleteNodesItem")>>),
     DeleteNodesResponse |-> Results(501, "StatusCode"),
     DeleteReferencesItem |-> Row(385, <<One("NodeId"), One("NodeId"), One("Boolean"),
        One("ExpandedNodeId"), One("Boolean")>>),
     DeleteReferencesRequest |-> Request(504, <<Many("DeleteReferencesItem")>>),
     DeleteReferencesResponse |-> Results(507, "StatusCode")]

(* Views.                                                                  *)
ViewTypes ==
    [BrowseDirection |-> Enumeration(510),
     ViewDescription |-> Row(511, <<One("NodeId"), One("DateTime"), One("UInt32")>>),
     BrowseDescription |-> Row(514, <<One("NodeId"), One("BrowseDirection"), One("NodeId"),
        One("Boolean"), One("UInt32"), One("UInt32")>>),
     BrowseResultMask |-> Enumeration(517),
     ReferenceDescription |-> Row(518, <<One("NodeId"), One("Boolean"), One("ExpandedNodeId"),
        One("QualifiedName"), One("LocalizedText"), One("NodeClass"), One("ExpandedNodeId")>>),
     BrowseResult |-> Row(522, <<One("StatusCode"), One("ByteString"),
        Many("ReferenceDescription")>>),
     BrowseRequest |-> Request(525, <<One("ViewDescription"), One("UInt32"),
        Many("BrowseDescription")>>),
     BrowseResponse |-> Results(528, "BrowseResult"),
     BrowseNextRequest |-> Request(531, <<One("Boolean"), Many("ByteString")>>),
     BrowseNextResponse |-> Results(534, "BrowseResult"),
     RelativePathElement |-> Row(537, <<One("NodeId"), One("Boolean"), One("Boolean"),
        One("QualifiedName")>>),
     RelativePath |-> Row(540, <<Many("RelativePathElement")>>),
     BrowsePath |-> Row(543, <<One("NodeId"), One("RelativePath")>>),
     BrowsePathTarget |-> Row(546, <<One("ExpandedNodeId"), One("UInt32")>>),
     BrowsePathResult |-> Row(549, <<One("StatusCode"), Many("BrowsePathTarget")>>),
     TranslateBrowsePathsToNodeIdsRequest |-> Request(552, <<Many("BrowsePath")>>),
     TranslateBrowsePathsToNodeIdsResponse |-> Results(555, "BrowsePathResult"),
     RegisterNodesRequest |-> Request(558, <<Many("NodeId")>>),
     RegisterNodesResponse |-> Response(561, <<Many("NodeId")>>),
     UnregisterNodesRequest |-> Request(564, <<Many("NodeId")>>),
     UnregisterNodesResponse |-> Response(567, <<>>)]

(* Queries.                                                                *)
QueryTypes ==
    [QueryDataDescription |-> Row(570, <<One("RelativePath"), One("UInt32"), One("String")>>),
     NodeTypeDescription |-> Row(573, <<One("ExpandedNodeId"), One("Boolean"),
        Many("QueryDataDescription")>>),
     FilterOperator |-> Enumeration(576),
     QueryDataSet |-> Row(577, <<One("ExpandedNodeId"), One("ExpandedNodeId"), Many("Variant")>>),
     ContentFilterElement |-> Row(583, <<One("FilterOperator"), Many("ExtensionObject")>>),
     ContentFilter |-> Row(586, <<Many("ContentFilterElement")>>),
     ContentFilterElementResult |-> Row(604, <<One("StatusCode"), Many("StatusCode"),
        Many("DiagnosticInfo")>>),
     ContentFilterResult |-> Row(607, <<Many("ContentFilterElementResult"),
        Many("DiagnosticInfo")>>),
     ParsingResult |-> Row(610, <<One("StatusCode"), Many("StatusCode"), Many("DiagnosticInfo")>>),
     QueryFirstRequest |-> Request(613, <<One("ViewDescription"), Many("NodeTypeDescription"),
        One("ContentFilter"), One("UInt32"), One("UInt32")>>),
     QueryFirstResponse |-> Response(616, <<Many("QueryDataSet"), One("ByteString"),
        Many("ParsingResult"), Many("DiagnosticInfo"), One("ContentFilterResult")>>),
     QueryNextRequest |-> Request(619, <<One("Boolean"), One("ByteString")>>),
     QueryNextResponse |-> Response(622, <<Many("QueryDataSet"), One("ByteString")>>)]

(* Reading, writing and calling.                                           *)
ReadTypes ==
    [TimestampsToReturn |-> Enumeration(625),
     ReadValueId |-> Row(626, <<One("NodeId"), One("UInt32"), One("String"),
        One("QualifiedName")>>),
     ReadRequest |-> Request(629, <<One("Double"), One("TimestampsToReturn"),
        Many("ReadValueId")>>),
     ReadResponse |-> Results(632, "DataValue"),
     WriteValue |-> Row(668, <<One("NodeId"), One("UInt32"), One("String"), One("DataValue")>>),
     WriteRequest |-> Request(671, <<Many("WriteValue")>>),
     WriteResponse |-> Results(674, "StatusCode"),
     CallMethodRequest |-> Row(704, <<One("NodeId"), One("NodeId"), Many("Variant")>>),
     CallMethodResult |-> Row(707, <<One("StatusCode"), Many("StatusCode"), Many("DiagnosticInfo"),
        Many("Variant")>>),
     CallRequest |-> Request(710, <<Many("CallMethodRequest")>>),
     CallResponse |-> Results(713, "CallMethodResult")]

(* Subscriptions, and the status of a server.                              *)
SubscriptionTypes ==
    [MonitoringMode |-> Enumeration(716),
     MonitoringParameters |-> Row(740, <<One("UInt32"), One("Double"), One("ExtensionObject"),
        One("UInt32"), One("Boolean")>>),
     MonitoredItemCreateRequest |-> Row(743, <<One("ReadValueId"), One("MonitoringMode"),
        One("MonitoringParameters")>>),
     MonitoredItemCreateResult |-> Row(746, <<One("StatusCode"), One("UInt32"), One("Double"),
        One("UInt32"), One("ExtensionObject")>>),
     CreateMonitoredItemsRequest |-> Request(749, <<One("UInt32"), One("TimestampsToReturn"),
        Many("MonitoredItemCreateRequest")>>),
     CreateMonitoredItemsResponse |-> Results(752, "MonitoredItemCreateResult"),
     CreateSubscriptionRequest |-> Request(785, <<One("Double"), One("UInt32"), One("UInt32"),
        One("UInt32"), One("Boolean"), One("Byte")>>),
     CreateSubscriptionResponse |-> Response(788, <<One("UInt32"), One("Double"), One("UInt32"),
        One("UInt32")>>),
     SetPublishingModeRequest |-> Request(797, <<One("Boolean"), Many("UInt32")>>),
     SetPublishingModeResponse |-> Results(800, "StatusCode"),
     NotificationMessage |-> Row(803, <<One("UInt32"), One("DateTime"), Many("ExtensionObject")>>),
     SubscriptionAcknowledgement |-> Row(821, <<One("UInt32"), One("UInt32")>>),
     PublishRequest |-> Request(824, <<Many("SubscriptionAcknowledgement")>>),
     PublishResponse |-> Response(827, <<One("UInt32"), Many("UInt32"), One("Boolean"),
        One("NotificationMessage"), Many("StatusCode"), Many("DiagnosticInfo")>>),
     DeleteSubscriptionsRequest |-> Request(845, <<Many("UInt32")>>),
     DeleteSubscriptionsResponse |-> Results(848, "StatusCode"),
     BuildInfo |-> Row(338, <<One("String"), One("String"), One("String"), One("String"),
        One("String"), One("DateTime")>>),
     ServerState |-> Enumeration(852),
     ServerStatusDataType |-> Row(862, <<One("DateTime"), One("DateTime"), One("ServerState"),
        One("BuildInfo"), One("UInt32"), One("LocalizedText")>>)]

Rows == BasicTypes @@ ChannelTypes @@ SessionTypes @@ AttributeSets @@ NodeManagementTypes
              @@ ViewTypes @@ QueryTypes @@ ReadTypes @@ SubscriptionTypes

(* Types whose values are numbers, with their widths in bytes.             *)
Numbers == [Boolean |-> 1, SByte |-> 1, Int16 |-> 2, UInt16 |-> 2, Int32 |-> 4, UInt32 |-> 4,
            Int64 |-> 8, UInt64 |-> 8, Float |-> 4, Double |-> 8, DateTime |-> 8,
            StatusCode |-> 4, Guid |-> 16]
Enumerations == {type \in DOMAIN Rows : Rows[type].members = <<One("Int32")>>}
Plain == [type \in DOMAIN Numbers \union Enumerations |->
             IF type \in Enumerations THEN Numbers["Int32"] ELSE Numbers[type]]
Builtin == {type \in DOMAIN Rows : Rows[type].typeId <= 25} \union Enumerations
(* An enumeration has the type index of an Int32.                          *)
TypeIndex(type) == IF type \in Enumerations THEN "Int32" ELSE type

(***************************************************************************)
(* The memory of a value, with 8 bytes for a pointer: members are aligned, *)
(* and an array is its length and a pointer to the elements.               *)
(***************************************************************************)
PointerSize == 8
BuiltinMem == [Byte |-> <<1, 1>>, Guid |-> <<16, 4>>, NodeId |-> <<24, 8>>,
               ExtensionObject |-> <<48, 8>>, DataValue |-> <<88, 8>>, Variant |-> <<40, 8>>,
               DiagnosticInfo |-> <<56, 8>>]
Aligned(n, a) == ((n + a - 1) \div a) * a
Place(s, x) == <<Aligned(s[1], x[2]) + x[1], IF x[2] > s[2] THEN x[2] ELSE s[2]>>
PlaceMember(s, m, mem) ==        \* s is the size so far and the largest alignment
    IF m.isArray THEN Place(Place(s, <<4, 4>>), <<PointerSize, PointerSize>>)
    ELSE Place(s, mem[m.type])
Mem ==
    LET PlaceAll(members, mem) == FoldLeft(LAMBDA s, m : PlaceMember(s, m, mem), <<0, 1>>, members)
        Padded(s) == <<Aligned(s[1], s[2]), s[2]>>
        mem[type \in DOMAIN Rows] ==
            CASE type \in DOMAIN BuiltinMem -> BuiltinMem[type]
              [] type \in DOMAIN Plain \ DOMAIN BuiltinMem -> <<Plain[type], Plain[type]>>
              [] OTHER -> Padded(PlaceAll(Rows[type].members, mem))
    IN BuiltinMem @@ mem

(* Types without pointers, whose arrays are copied as they are.            *)
FixedSize ==
    LET fixed[type \in DOMAIN Rows] ==
            \/ type \in DOMAIN Plain \union {"Byte"}
            \/ /\ Rows[type].members # <<>>
               /\ \A i \in DOMAIN Rows[type].members :
                      ~Rows[type].members[i].isArray /\ fixed[Rows[type].members[i].type]
    IN [type \in {"Byte"} |-> TRUE] @@ fixed

GeneratedTypes ==
    LET Width(type) == IF type \in DOMAIN Plain THEN Plain[type] ELSE 0
    IN [type \in DOMAIN Rows |->
           [typeId |-> Rows[type].typeId, members |-> Rows[type].members, typeIndex |-> TypeIndex(type),
            builtin |-> type \in Builtin, width |-> Width(type), memSize |-> Mem[type][1],
            fixedSize |-> FixedSize[type]]]
=============================================================================
