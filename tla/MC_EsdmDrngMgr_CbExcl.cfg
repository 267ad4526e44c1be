\* Violation run: seeding from esdm_drng_get without the DRNG instance lock.
CONSTANTS
    Threads = {t1, t2}
    Worker = Worker
    Resetter = Resetter
    InitDrng = InitDrng
    NoOne = NoOne
    NumNodes = 1
    NodeArray = TRUE
    RESEED_THRESH = 2
    MAX_WO_RESEED = 2
    RESEED_MAX_TIME = 1
    NODE_STAGGER = 1
    MaxTime = 0
    MaxChunks = 1
    MaxCalls = 1
    MaxSeedWork = 0
    MaxRounds = 1
    MaxResets = 0
    MaxForces = 0
    MaxFinalize = 0
    SeedMayFail = FALSE
    GenMayFail = FALSE
    SelftestMayFail = FALSE
    AllocMayFail = FALSE
SPECIFICATION Spec
INVARIANT DrbgCallbacksExclusive
