SPECIFICATION Spec
CONSTANTS
    Slabs = {s1, s2}
    Threads = {t1, t2}
    s1 = s1
    s2 = s2
    s3 = s3
    t1 = t1
    t2 = t2
    NULL = NULL
    NoThread = NoThread
    SlabSize = 4
    MinAllocSize = 2
    AllocSizes <- MCAllocSizes
    PoolId = 0
    EagerReclaim = TRUE
    PruneLimit = 1
    MaxSize = 8
    RequestSizes <- MCValidRequests
    Victims <- MCClass0
    Receivers <- MCPool
    Modes <- MCResize
    Hints <- MCAnyHint
    AbortFnValues = {FALSE}
    Aborters = {}
    WalkedSlabs = {s1, s2}
    ForeignSlabs = {}
    SizeTModulus = 32
    ClassIdModulus = 65536
SYMMETRY SymSlabs2Threads
INVARIANT IterationExcludesRelease
