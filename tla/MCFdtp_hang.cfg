SPECIFICATION Spec
CONSTANTS
    Chunks = 3
    Windows = {1, 2}
    MAX_QUEUE = 99
    MaxLosses = 1
    Calm = {0, 1, 2, 3}
INVARIANTS
    DoneMeansTornDown
\* The system stops when the last event has been processed.
CHECK_DEADLOCK FALSE
