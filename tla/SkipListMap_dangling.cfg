\* Three keys on two levels, calloc succeeds: inserts and removes only.
SPECIFICATION Spec
CONSTANTS
    Null = Null
    Keys = {1, 2, 3}
    Values = {v}
    Nodes = {n1, n2, n3}
    HeadNode = HeadNode
    Levels = 2
    MaxIndex = 3
    CallocMayFail = FALSE
INVARIANT
    NoFreedNodeIsSearched
\* The program may end where it follows a freed or a NULL pointer.
CHECK_DEADLOCK FALSE
