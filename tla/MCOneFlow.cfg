CONSTANTS
    Addresses = {"a", "b"}
    Flows <- One
    StartTimes = {5}
    Chunks = 5
    Windows = {1, 2, 3}
    Latency = 10
    MaxLosses = 3
    MaxTime = 1000
    timeout = 40
SPECIFICATION Spec
PROPERTIES
    ImplementsFdtp
CHECK_DEADLOCK FALSE
