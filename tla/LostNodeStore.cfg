SPECIFICATION Spec
CONSTANTS
    a = a
    b = b
    e1 = e1
    e2 = e2
    e3 = e3
    e4 = e4
    NULL = NULL
    NodeIds <- MCNodeIds
    Named <- TwoNamed
    Sought <- TwoNamed
    Hash <- MCHash
    Primes <- MCPrimes
    InitialSize = 5
    Floor = 5
    Entries <- FourEntries
    MaxRefs = 1
SYMMETRY Symmetry
INVARIANT
    StoredNodesAreFound
