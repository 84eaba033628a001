SPECIFICATION FairSpec
CONSTANTS
    DEFERRED_FUNCS_COUNT = 2
    HOOK_TICK_INTERVAL = 3
    SECOND = 4
    Delays = {0, 2}
    MaxLag = 2
    Horizon = 6
INVARIANTS
    TypeOK
    SleepsNoLonger
PROPERTIES
    CalledOnRequest
    RequestServed
CHECK_DEADLOCK FALSE
