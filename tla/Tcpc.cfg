SPECIFICATION FairSpec
CONSTANTS
    PD_RETRY_COUNT = 1
    RX_BUFFER_SIZE = 1
    IdCount = 3
    PeerRetries = 1
    MaxOut = 2
    MaxIn = 2
INVARIANTS
    NeverDeaf
PROPERTIES
    SenderSpec
    ReceiverSpec
    TransmitEnds
