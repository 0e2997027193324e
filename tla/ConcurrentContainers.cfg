\* Two threads on a dynamic queue, a stack or a forward list; allocation may fail.
SPECIFICATION Spec
CONSTANTS
    Threads = {t1, t2}
    NoThread = NoThread
    Null = Null
    Elements = {a, b}
    MallocMayFail = TRUE
    MaxElements = 3
    InitialCapacity = 1
SYMMETRY Symmetry
INVARIANTS
    TypesOK
    QueueCounterCoversList
    StackSlotsInUse
    ListCounterCoversList
PROPERTIES
    QueueImplementsFifo
    StackImplementsAtomicStack
    ListImplementsAtomicList
\* The program may end: a NULL dereference, a use after free, an exit.
CHECK_DEADLOCK FALSE
