\* Three keys on two levels; a fourth address for what is freed.
SPECIFICATION Spec
CONSTANTS
    Null = Null
    Keys = {1, 2, 3}
    Values = {v, w}
    Nodes = {n1, n2, n3, n4}
    HeadNode = HeadNode
    Levels = 2
    MaxIndex = 3
    CallocMayFail = TRUE
SYMMETRY Symmetry
INVARIANTS
    TypeOK
    BottomIsTheMap
    PreviousEnclose
    LastComparisonDecides
    IterationInOrder
    OnlyStaleIteratorsCrash

    
\* The program may end where it follows a freed or a NULL pointer.
CHECK_DEADLOCK FALSE
