\* Two nodes, one caller: the for_each_online_node loops of the seeding
\* worker and of _esdm_reset, a forced reseed, a failing allocation and self
\* test, and esdm_drng_mgr_finalize (safety only).
CONSTANTS
    Threads = {t1}
    Worker = Worker
    Resetter = Resetter
    InitDrng = InitDrng
    NoOne = NoOne
    NumNodes = 2
    NodeArray = TRUE
    RESEED_THRESH = 2
    MAX_WO_RESEED = 2
    RESEED_MAX_TIME = 1
    NODE_STAGGER = 1
    MaxTime = 1
    MaxChunks = 1
    MaxCalls = 1
    MaxSeedWork = 2
    MaxRounds = 1
    MaxResets = 1
    MaxForces = 1
    MaxFinalize = 1
    SeedMayFail = TRUE
    GenMayFail = TRUE
    SelftestMayFail = TRUE
    AllocMayFail = TRUE
SPECIFICATION FairSpec
INVARIANT SingleSeedInFlight
