CONSTANTS
    Addresses = {"a", "b"}
    Flows <- Reuse
    StartTimes = {0, 25, 70, 300}
    Chunks = 2
    Windows = {1, 2}
    Latency = 10
    MaxLosses = 2
    MaxTime = 600
    timeout = 40
SPECIFICATION FairSpec
INVARIANTS
    TypeOK
    NeverDies
    CopiesAreTrue
    NoFlowIsSkipped
PROPERTIES
    AllDone
\* The events end.
CHECK_DEADLOCK FALSE
