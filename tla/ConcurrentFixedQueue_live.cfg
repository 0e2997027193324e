\* Three threads that keep a queue for ever; deadlock is checked.
SPECIFICATION FairSpec
CONSTANTS
    Threads = {t1, t2, t3}
    NoThread = NoThread
    Null = Null
    Elements = {a}
    Capacity = 1
    CallNames = {"push", "pop", "size"}
    MallocMayFail = FALSE
PROPERTIES
    MutexReleased
    SomeCallReturns
