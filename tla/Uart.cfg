SPECIFICATION FairSpec
CONSTANTS
    Writers = {1, 2}
    TxSize = 4
    RxSize = 2
    Strings = {2, 3}
    MaxTx = 5
    MaxRx = 2
INVARIANTS
    SentInOrder
    InputWakes
PROPERTIES
    AllSent
    FlushWaits
    InputHandled
CHECK_DEADLOCK FALSE
