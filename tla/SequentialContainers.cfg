\* One client on one of twelve containers without a mutex; allocation may fail.
SPECIFICATION Spec
CONSTANTS
    Null = Null
    Garbage = Garbage
    MallocMayFail = TRUE
    Elements = {a, b}
    Capacity = 3
    OtherCapacity = 1
    InitialCapacity = 1
    Total = 4
    Sizes = {1, 2, 5}
    SizeModulus = 6
    k1 = k1
    k2 = k2
    k3 = k3
    k4 = k4
    Keys = {k1, k2, k3, k4}
    Hash <- MCHash
    LruHash <- MCLruHash
    ProbingCapacity = 5
    MaxNodes = 4
    ChainedKeys = {k1, k2}
    ChainedModulus = 5
    MaxChained = 3
    MaxCapacity = 3
    MaxElements = 3
    MaxQueued = 4
    MaxRing = 5
    Priorities = {1, 2, 3}
    HeapInitial = 5
    MaxItems = 6
SYMMETRY Symmetry
INVARIANTS
    TypesOK
    ListLinksMatch
    ProbingKeysReachable
    LruSlotsLive
PROPERTIES
    
    ListImplementsSequence
    QueuesImplementSequence
    TablesImplementMap
    CacheImplementsLru
    HeapKeepsItems
\* The client may free the container, or the program may end.
CHECK_DEADLOCK FALSE
