\* Four items of four priorities are enough for a pop to answer a lower one.
SPECIFICATION Spec
CONSTANTS
    Null = Null
    Garbage = Garbage
    MallocMayFail = FALSE
    Items = {1, 2, 3, 4}
    InitialCapacity = 5
    MaxItems = 4
PROPERTY
    PopsTheHighest
CHECK_DEADLOCK FALSE
