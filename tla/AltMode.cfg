SPECIFICATION FairSpec
CONSTANTS
    Partners <- MCPartners
    PD_AMODE_COUNT = 2
    SVID_DISCOVERY_MAX = 2
    MaxBusy = 1
    MaxIrregular = 3
    MaxLevels = 2
INVARIANTS
    HpdBacked
    InStep
PROPERTY HpdFollows
