SPECIFICATION Spec
CONSTANTS
    p1 = p1
    p2 = p2
    fb = fb
    v1 = v1
    c1 = c1
    c2 = c2
    NULL = NULL
    Publishers = {p1, p2}
    Objects = {fb}
    Variables = {v1}
    Output <- SameOutput
    Owner <- OneOwner
    Connections = {c1, c2}
    MaxReferences = 1
INVARIANTS
    VariablesAreReachable
    MissingVariableComesBack
PROPERTY
    EveryRequestIsConfirmed
CHECK_DEADLOCK FALSE
