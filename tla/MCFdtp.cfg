SPECIFICATION FairSpec
CONSTANTS
    Chunks = 4
    Windows = {1, 2, 4}
    MAX_QUEUE = 99
    MaxLosses = 3
    Calm = {0, 1, 2, 3, 4}
INVARIANTS
    TypeOK
    Integrity
    CompleteAtTeardown
    AckedIsReceived
    WindowIsUnacked
    RetransTimer
    HandshakeAgreement
PROPERTIES
    NoResendOfAcked
    ImplementsFileTransfer
    Delivered
\* The system stops when the last event has been processed.
CHECK_DEADLOCK FALSE
