SPECIFICATION FairSpec
CONSTANTS
    Types = {"BAD_REQUEST", "VDM_BUSY"}
    Lines = {"OPEN", "CC1", "AUDIO"}
    PD_CAPS_COUNT = 1
    PD_HARD_RESET_COUNT = 0
    PD_SNK_CAP_RETRIES = 0
PROPERTIES
    UnpluggedOff
    VdmGivenUp
