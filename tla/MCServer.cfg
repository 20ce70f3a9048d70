SPECIFICATION Spec
CONSTANTS
    c1 = c1  c2 = c2  admin = admin  null = null
    Ids <- MCIds
    Assigned = {}
    NullId = null
    HasSubtype = "HasSubtype"
    HasTypeDefinition = "HasTypeDefinition"
    HasProperty = "HasProperty"
    Aggregates = "Aggregates"
    Abstract <- AbstractTypes
    Admin = admin
    Sessions = {}
    MaxPoints = 0
    Conns = {c1, c2}
    MaxFaults = 1
    Shortages = {{1}, {2}, {3}}
    MaxFailures = 1
INVARIANTS NamespaceIsWhole FreedConnectionsAreGone StoppedServerIsEmpty
PROPERTIES EverySocketIsServed
CHECK_DEADLOCK FALSE
