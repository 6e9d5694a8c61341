SPECIFICATION FairSpec
CONSTANTS
    a = a
    b = b
    c = c
    r = r
    s = s
    Idle = Idle
    Hosts = {a, b, c}
    Routers = {r}
    FIFONodes = {s}
    NextHop <- MCNextHop
    Plat <- MCPlat
    BitTime <- MCBitTime
    QueueSize <- MCQueues
    Flows <- MCFlows
    Hops <- MCHops
    Starts <- MCStarts
    Lengths = {1, 2}
    Delays = {0, 24}
    MaxCalls = 5
INVARIANTS
    TypeOK
    QueueMoves
    OneAtATime
    Accounted
PROPERTIES
    ClockNeverBack
    WarnedBeforeDrop
    ImplementsChannel
    Drains
\* The system stops when the last event has been processed.
CHECK_DEADLOCK FALSE
