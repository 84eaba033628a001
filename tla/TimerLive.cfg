SPECIFICATION FairSpec
CONSTANTS
    Tasks = {t1}
    Epoch = 4
    Timeouts = {1, 2, 5}
    Horizon = 12
    IrqTicks = 2
    StatusRace = FALSE
PROPERTY TimerFires
CHECK_DEADLOCK FALSE
