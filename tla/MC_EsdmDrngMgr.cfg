\* Core run: interlock of generate and the seeding worker between two threads,
\* with seed and generate failures (no reset, no forced reseed).
CONSTANTS
    Threads = {t1, t2}
    Worker = Worker
    Resetter = Resetter
    InitDrng = InitDrng
    NoOne = NoOne
    NumNodes = 1
    NodeArray = TRUE
    RESEED_THRESH = 2
    MAX_WO_RESEED = 2
    RESEED_MAX_TIME = 1
    NODE_STAGGER = 1
    MaxTime = 0
    MaxChunks = 2
    MaxCalls = 1
    MaxSeedWork = 1
    MaxRounds = 1
    MaxResets = 0
    MaxForces = 0
    MaxFinalize = 0
    SeedMayFail = TRUE
    GenMayFail = TRUE
    SelftestMayFail = FALSE
    AllocMayFail = FALSE
SPECIFICATION FairSpec
INVARIANT TypeOK
PROPERTY PoolLockRefined
PROPERTY CallsReturn
