SPECIFICATION Spec
CONSTANTS
    Tasks = {t1, t2}
    Epoch = 4
    Timeouts = {1, 3}
    Horizon = 8
    IrqTicks = 2
    StatusRace = FALSE
INVARIANTS
    TypeOK
    GetTimeExact
    NeverEarly
    OverdueIsRequested
SYMMETRY Symmetry
CHECK_DEADLOCK FALSE
