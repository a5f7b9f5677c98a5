SPECIFICATION Spec
CONSTANTS
    Slabs = {s1, s2}
    Threads = {t1, t2}
    s1 = s1
    s2 = s2
    s3 = s3
    t1 = t1
    t2 = t2
    NULL = NULL
    NoThread = NoThread
    SlabSize = 4
    MinAllocSize = 2
    AllocSizes <- MCAllocSizes
    PoolId = 0
    EagerReclaim = TRUE
    PruneLimit = 1
    MaxSize = 6
    RequestSizes <- MCRequestSizes
    Victims <- MCClass0
    Receivers <- MCPool
    Modes <- MCResize
    Hints <- MCNoHint
    AbortFnValues = {FALSE}
    Aborters = {}
    WalkedSlabs = {}
    ForeignSlabs = {s2}
    SizeTModulus = 32
    ClassIdModulus = 65536
SYMMETRY SymThreads
INVARIANT SlabCounterWithinMax
