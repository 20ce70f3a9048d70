SPECIFICATION Spec
CONSTANTS
    UA_TYPES <- GeneratedTypes
    Servers <- MCServers
    Requests <- MCRequests
    MaxRequests = 2
    Capacity = 400
    MaxFailing = 6
CHECK_DEADLOCK FALSE
INVARIANTS
    WireKeepsValues
    CopiesAreOwnedOnce
PROPERTIES
    RangesAreExact
    WritesTakeEffect
