SPECIFICATION FairSpec
CONSTANTS
    j1 = j1
    j2 = j2
    j3 = j3
    e1 = e1
    e2 = e2
    e3 = e3
    NULL = NULL
    Jobs <- ThreeJobs
    Requests = {0, 1, 2, 3, 4}
    MinRequest = 1
    Unit = 2
    Modulus = 8
    Entries <- ThreeEntries
    OwnEntry = FALSE
    MaxLag = 3
INVARIANTS
    ListIsInOrder
    ListedEntriesAreAllocated
PROPERTIES
    JobsLeaveWhenRemoved
    EveryJobIsRepeated
