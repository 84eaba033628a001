SPECIFICATION Spec
CONSTANTS
    Types = {"REQUEST", "SOFT_RESET", "BIST", "GET_SOURCE_CAP", "SINK_CAP", "REFUSED", "DR_SWAP", "IGNORED"}
    Lines = {"OPEN", "CABLE2"}
    PD_CAPS_COUNT = 1
    PD_HARD_RESET_COUNT = 0
    PD_SNK_CAP_RETRIES = 1
INVARIANTS
    TypeOK
    VbusAttached
    NoPowerToOpenPort
    PoweredListens
    ContractConnected
    TimersArmed
