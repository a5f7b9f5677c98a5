SPECIFICATION Spec
CONSTANTS
    Slabs = {s1, s2, s3}
    Threads = {t1, t2}
    s1 = s1
    s2 = s2
    s3 = s3
    t1 = t1
    t2 = t2
    NULL = NULL
    NoThread = NoThread
    SlabSize = 4
    MinAllocSize = 2
    AllocSizes <- MCAllocSizes
    PoolId = 0
    EagerReclaim = FALSE
    PruneLimit = 1
    MaxSize = 8
    RequestSizes <- MCValidRequests
    Victims <- MCClass0
    Receivers <- MCPoolOrClass1
    Modes <- MCRebalance
    Hints <- MCAnyHint
    AbortFnValues = {FALSE}
    Aborters = {}
    WalkedSlabs = {}
    ForeignSlabs = {}
    SizeTModulus = 32
    ClassIdModulus = 65536
SYMMETRY SymSlabs3Threads
INVARIANT ChunkExclusive
INVARIANT LiveChunksBacked
INVARIANT SlabSingleOwner
INVARIANT DrainWaitsOnlyForLiveChunks
INVARIANT PoolSlabsWithinMax
INVARIANT UsedSizeTracksPoolSlabs
PROPERTY DrainNeverGrows
INVARIANT NoChunkLost
