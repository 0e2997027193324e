\* Two keys of one home bucket: is every erase answered?
SPECIFICATION ProbingSpec
CONSTANTS
    Null = Null
    Garbage = Garbage
    MallocMayFail = FALSE
    Elements = {a}
    Capacity = 3
    OtherCapacity = 1
    InitialCapacity = 1
    Total = 4
    Sizes = {1, 2, 5}
    SizeModulus = 6
    k1 = k1
    k2 = k2
    k3 = k3
    k4 = k4
    Keys = {k1, k2}
    Hash <- MCHash
    LruHash <- MCLruHash
    ProbingCapacity = 5
    MaxNodes = 2
    ChainedKeys = {k1, k2}
    ChainedModulus = 5
    MaxChained = 3
    MaxCapacity = 3
    MaxElements = 3
    MaxQueued = 4
    MaxRing = 5
    Priorities = {1, 2, 3}
    HeapInitial = 5
    MaxItems = 6
PROPERTY
    EveryEraseReturns
CHECK_DEADLOCK FALSE
