\* Clients insert absent keys only: the table implements AtomicMap.
SPECIFICATION Spec
CONSTANTS
    Threads = {t1, t2}
    NoThread = NoThread
    Null = Null
    Keys = {0, 1, 2}
    Elements = {a, b, c}
    Hash <- KeysHashToThemselves
    SizeModulus = 256
    CallNames = {"insert", "lookup", "contains", "erase", "deep_erase", "size", "empty", "bucket_size", "free", "deep_free"}
    InitialCapacity = 1
    Reinsert = FALSE
    MaxNodes = 3
SYMMETRY Symmetry
INVARIANTS
    TypeOK
    NoFreedDataInTable
PROPERTIES
    ImplementsAtomicMap
    GrowthIsInvisible
\* The unlock of a freed table may end the program.
CHECK_DEADLOCK FALSE
