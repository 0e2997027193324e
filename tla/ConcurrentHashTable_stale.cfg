\* One thread that inserts a key three times and then another key.
SPECIFICATION Spec
CONSTANTS
    Threads = {t1}
    NoThread = NoThread
    Null = Null
    Keys = {0, 1, 2}
    Elements = {a, b, c, d}
    Hash <- KeysHashToThemselves
    SizeModulus = 8
    CallNames = {"insert", "lookup"}
    InitialCapacity = 2
    Reinsert = TRUE
    MaxNodes = 6
PROPERTY
    GrowthIsInvisible
\* Clients that have filled the table only look.
