CONSTANTS
    Addresses = {"a", "b"}
    Flows <- Reuse
    StartTimes = {0, 25}
    Chunks = 2
    Windows = {1, 2}
    Latency = 10
    MaxLosses = 0
    MaxTime = 600
    timeout = 40
SPECIFICATION Spec
INVARIANTS
    EveryFlowStarts
CHECK_DEADLOCK FALSE
