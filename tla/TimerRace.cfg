SPECIFICATION Spec
CONSTANTS
    Tasks = {t1}
    Epoch = 4
    Timeouts = {1}
    Horizon = 12
    IrqTicks = 2
    StatusRace = TRUE
INVARIANT GetTimeExact
CHECK_DEADLOCK FALSE
