\* Clients insert present keys too: duplicates, a size below the truth,
\* growths of tables with more keys than they count.
SPECIFICATION Spec
CONSTANTS
    Threads = {t1, t2}
    NoThread = NoThread
    Null = Null
    Keys = {0, 1, 2}
    Elements = {a, b, c}
    Hash <- KeysHashToThemselves
    SizeModulus = 8
    CallNames = {"insert", "erase"}
    InitialCapacity = 1
    Reinsert = TRUE
    MaxNodes = 4
SYMMETRY Symmetry
INVARIANTS
    KeysNeverLost
    NodesInTheirBuckets
