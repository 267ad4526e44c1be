\* Setters, the FIPS switch and esdm_config_init in any order
CONSTANTS
    W = 4
    SecStrength = 8
    DefaultRate <- McDefaultRate
    MaxWoReseed = 4
    FipsEnv = TRUE
    TestMode = TRUE
    Vals = {0, 2, 9}
    NodeVals = {1, 2}
    Cpus = 3
    MaxCalls = 2
SPECIFICATION Spec
INVARIANT TypeOK
INVARIANT NodeIndexInArray
PROPERTY JitterRateAtInit
