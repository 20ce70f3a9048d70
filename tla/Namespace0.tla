----------------------------- MODULE Namespace0 -----------------------------
(***************************************************************************)
(* The nodes of namespace 0 in the order in which UA_Server_new adds them, *)
(* each under a parent, and the references it adds between them.  What an  *)
(* addition answers is never looked at.                                    *)
(***************************************************************************)
EXTENDS References

Add(id, class, parent, type) ==
    [kind |-> "add", id |-> id, class |-> class, name |-> id, parent |-> parent, type |-> type]
(* A node that is put into the node store without a parent.                *)
Bare(id, class) == [kind |-> "insert", id |-> id, class |-> class, name |-> id]
Link(id, type, target) == [kind |-> "link", id |-> id, ref |-> Reference(type, TRUE, target)]

Under(parent, class, type, names) == [i \in DOMAIN names |-> Add(names[i], class, parent, type)]
ReferenceTypesUnder(parent, names) == Under(parent, "ReferenceType", "HasSubtype", names)
DataTypesUnder(parent, names) == Under(parent, "DataType", "Organizes", names)
Typed(id, class, parent, type, definition) ==
    <<Add(id, class, parent, type), Link(id, "HasTypeDefinition", definition)>>
Property(id, parent) == Typed(id, "Variable", parent, "HasProperty", "PropertyType")
Component(id, parent) == Typed(id, "Variable", parent, "HasComponent", "BaseDataVariableType")
Folder(id) == Typed(id, "Object", "TypesFolder", "Organizes", "FolderType")

AbstractTypes ==
    {"References", "HierarchicalReferences", "NonHierarchicalReferences", "HasChild", "Aggregates"}

ReferenceTypes ==
    <<Bare("References", "ReferenceType"), Bare("HasSubtype", "ReferenceType")>>
    \o ReferenceTypesUnder("References", <<"HierarchicalReferences", "NonHierarchicalReferences">>)
    \o ReferenceTypesUnder("HierarchicalReferences", <<"HasChild", "Organizes", "HasEventSource">>)
    \o ReferenceTypesUnder("NonHierarchicalReferences",
           <<"HasModellingRule", "HasEncoding", "HasDescription", "HasTypeDefinition", "GeneratesEvent">>)
    \o ReferenceTypesUnder("HasChild", <<"Aggregates">>)
    \o <<Link("HasChild", "HasSubtype", "HasSubtype")>>
MoreReferenceTypes ==
    ReferenceTypesUnder("Aggregates", <<"HasProperty", "HasComponent">>)
    \o ReferenceTypesUnder("HasEventSource", <<"HasNotifier">>)
    \o ReferenceTypesUnder("HasComponent", <<"HasOrderedComponent">>)
    \o ReferenceTypesUnder("NonHierarchicalReferences",
           <<"HasModelParent", "FromState", "ToState", "HasCause", "HasEffect">>)
    \o ReferenceTypesUnder("Aggregates", <<"HasHistoricalConfiguration">>)

Folders ==
    <<Bare("RootFolder", "Object")>>
    \o Under("RootFolder", "Object", "Organizes", <<"ObjectsFolder", "TypesFolder", "ViewsFolder">>)
    \o Under("TypesFolder", "Object", "Organizes", <<"ReferenceTypesFolder">>)
    \o <<Link("ReferenceTypesFolder", "Organizes", "References")>>

FoldersToType ==
    <<"ObjectTypesFolder", "RootFolder", "ObjectsFolder", "TypesFolder", "ViewsFolder", "ReferenceTypesFolder">>
ObjectTypes ==
    Under("TypesFolder", "Object", "Organizes", <<"ObjectTypesFolder">>)
    \o Under("ObjectTypesFolder", "ObjectType", "Organizes", <<"BaseObjectType">>)
    \o Under("BaseObjectType", "ObjectType", "HasSubtype", <<"FolderType">>)
    \o [i \in DOMAIN FoldersToType |-> Link(FoldersToType[i], "HasTypeDefinition", "FolderType")]
    \o Under("BaseObjectType", "ObjectType", "HasSubtype",
             <<"ServerType", "ServerDiagnosticsType", "ServerCapabilitiesType", "ServerStatusType", "BuildInfoType">>)

DataTypes ==
    Folder("DataTypesFolder")
    \o DataTypesUnder("DataTypesFolder", <<"BaseDataType">>)
    \o DataTypesUnder("BaseDataType", <<"Boolean", "Number">>)
    \o DataTypesUnder("Number", <<"Float", "Double", "Integer">>)
    \o DataTypesUnder("Integer", <<"SByte", "Int16", "Int32", "Int64", "UInteger">>)
    \o DataTypesUnder("UInteger", <<"Byte", "UInt16", "UInt32", "UInt64">>)
    \o DataTypesUnder("BaseDataType",
           <<"String", "DateTime", "Guid", "ByteString", "XmlElement", "NodeId", "ExpandedNodeId",
             "StatusCode", "QualifiedName", "LocalizedText", "Structure">>)
    \o DataTypesUnder("Structure", <<"ServerStatusDataType", "BuildInfoDataType">>)
    \o DataTypesUnder("BaseDataType", <<"DataValue", "DiagnosticInfo", "Enumeration">>)
    \o DataTypesUnder("Enumeration", <<"ServerState">>)

VariableTypes ==
    Folder("VariableTypesFolder")
    \o Under("VariableTypesFolder", "VariableType", "Organizes", <<"BaseVariableType">>)
    \o Under("BaseVariableType", "VariableType", "HasSubtype", <<"BaseDataVariableType", "PropertyType">>)

ServerObject ==
    Typed("Server", "Object", "ObjectsFolder", "Organizes", "ServerType")
    \o Property("NamespaceArray", "Server") \o Property("ServerArray", "Server")
    \o Typed("ServerCapabilities", "Object", "Server", "HasComponent", "ServerCapabilitiesType")
    \o Property("LocaleIdArray", "ServerCapabilities")
    \o Property("MaxBrowseContinuationPoints", "ServerCapabilities")
    \o Property("ServerProfileArray", "ServerCapabilities")
    \o Typed("ServerDiagnostics", "Object", "Server", "HasComponent", "ServerDiagnosticsType")
    \o Property("EnabledFlag", "ServerDiagnostics")

(* The type definition of BuildDate goes to BuildNumber.                   *)
ServerStatus ==
    Typed("ServerStatus", "Variable", "Server", "HasComponent", "ServerStatusType")
    \o Component("StartTime", "ServerStatus") \o Component("CurrentTime", "ServerStatus")
    \o Component("State", "ServerStatus")
    \o Typed("BuildInfo", "Variable", "ServerStatus", "HasComponent", "BuildInfoType")
    \o Component("ProductUri", "BuildInfo") \o Component("ManufacturerName", "BuildInfo")
    \o Component("ProductName", "BuildInfo") \o Component("SoftwareVersion", "BuildInfo")
    \o Component("BuildNumber", "BuildInfo")
    \o <<Add("BuildDate", "Variable", "BuildInfo", "HasComponent"),
         Link("BuildNumber", "HasTypeDefinition", "BaseDataVariableType")>>
    \o Component("SecondsTillShutdown", "ServerStatus") \o Component("ShutdownReason", "ServerStatus")

(* mutant: the type folders come before the folder they are in             *)
TypesBeforeFolders ==
    ReferenceTypes \o MoreReferenceTypes \o ObjectTypes \o Folders \o DataTypes \o VariableTypes
    \o ServerObject \o ServerStatus
Additions ==
    ReferenceTypes \o MoreReferenceTypes \o Folders \o ObjectTypes \o DataTypes \o VariableTypes
    \o ServerObject \o ServerStatus

NodesOf(additions) == {additions[i].id : i \in DOMAIN additions}
LinksOf(additions) == {additions[i].ref : i \in {j \in DOMAIN additions : additions[j].kind = "link"}}

ASSUME NamespaceAssumption == NodesOf(Additions) \subseteq Ids /\ LinksOf(Additions) \subseteq References_

(* addNodeInternal, UA_NodeStore_insert and UA_Server_addReference         *)
Added(s, addition) ==
    CASE addition.kind = "add" -> AddExistingNode(s, addition)
      [] addition.kind = "link" -> AddReference(s, addition.id, addition.ref)
      [] OTHER -> InsertNode(s, addition.id, NewNode(addition))

Reached(s) ==
    LET hierarchical == Subtypes(s, "HierarchicalReferences")
        children == [n \in Ids |-> {r.target : r \in {q \in ToSet(NodeAt(s, n).refs) :
                                                         q.fwd /\ q.type \in hierarchical}}]
    IN FoldLeft(LAMBDA found, i : found \union UNION {children[n] : n \in found},
                {"RootFolder"}, [i \in 1..9 |-> i])

-----------------------------------------------------------------------------
(***************************************************************************)
(* UA_Server_new, from its empty node store.  The loop of the server does  *)
(* not look at the nodes: they are dropped when it takes over, and only    *)
(* servers whose namespace is whole are run, so that the ways in which the *)
(* two can fail do not multiply.                                           *)
(***************************************************************************)
CONSTANT MaxFailures    \* bounds the additions during which memory is short
VARIABLES built, failures
space == <<nodes, torn, built, failures>>

NoNodes == [n \in Ids |-> Absent]
NoPoints == [sess \in Sessions \union {Admin} |-> <<>>]
State(fails) ==
    [nodes |-> nodes, torn |-> torn, alive |-> TRUE, status |-> "Good", fails |-> fails, tries |-> 0,
     luck |-> TRUE, added |-> NullId, points |-> NoPoints,
     avail |-> [sess \in Sessions \union {Admin} |-> IF sess = Admin THEN 0 ELSE MaxPoints]]
IsBuilt == built = Len(Additions)

BuildInit == nodes = NoNodes /\ torn = {} /\ built = 0 /\ failures = 0

AddNext(fails) ==
    LET s == Added(State(fails), Additions[built + 1])
    IN /\ ~IsBuilt
       /\ fails # {} => failures < MaxFailures
       /\ failures' = IF fails # {} THEN failures + 1 ELSE failures
       /\ nodes' = s.nodes /\ torn' = s.torn
       /\ built' = built + 1

LeaveNodes ==
    /\ IsBuilt /\ failures = 0
    /\ nodes' = NoNodes /\ torn' = {}
    /\ UNCHANGED <<built, failures>>

BuildNext == (\E fails \in Shortages \union {{}} : AddNext(fails)) \/ LeaveNodes
BuildSpec == BuildInit /\ [][BuildNext]_space
-----------------------------------------------------------------------------
(***************************************************************************)
(* If memory was never short, every node is there with its class, can be   *)
(* reached from the root, and every object and variable but BuildDate has  *)
(* a type definition, although no answer is looked at (UA_Server_new).     *)
(***************************************************************************)
IsWhole ==
    /\ NodesOf(Additions) \subseteq Reached(State({}))
    /\ \A i \in DOMAIN Additions :
          Additions[i].kind # "link" => IsClass(State({}), Additions[i].id, Additions[i].class)
    /\ \A n \in Ids \ {"BuildDate"} :
          IsClass(State({}), n, "Object") \/ IsClass(State({}), n, "Variable") =>
              \E ref \in ToSet(nodes[n].refs) : ref.fwd /\ ref.type = HasTypeDefinition
NamespaceIsWhole == IsBuilt /\ failures = 0 /\ nodes # NoNodes => IsWhole
=============================================================================
