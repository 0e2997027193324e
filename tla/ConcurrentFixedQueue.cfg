\* Three threads; malloc may fail in any push or creation.
SPECIFICATION Spec
CONSTANTS
    Threads = {t1, t2, t3}
    NoThread = NoThread
    Null = Null
    Elements = {a, b}
    Capacity = 2
    CallNames = {"push", "pop", "front", "back", "size", "capacity", "remaining_space", "free", "deep_free"}
    MallocMayFail = TRUE
SYMMETRY Symmetry
INVARIANTS
    TypeOK
    HolderIsCritical
    CapacityRespected
    CounterCoversList
    NullDerefNeedsFailedMalloc
PROPERTIES
    ImplementsBoundedQueue
    DriftNeverShrinks
\* The program may end: a NULL dereference, an abort in free(), an exit.
CHECK_DEADLOCK FALSE
