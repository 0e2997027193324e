\* Buffers of one and two bytes in an arena of four; no sum wraps.
SPECIFICATION Spec
CONSTANTS
    Null = Null
    Garbage = Garbage
    MallocMayFail = FALSE
    Total = 4
    Sizes = {1, 2}
    SizeModulus = 16
INVARIANT
    BuffersInside
\* The client may free the arena.
CHECK_DEADLOCK FALSE
