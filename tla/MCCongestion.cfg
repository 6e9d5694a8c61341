CONSTANTS
    Initial_Window_Threshold = 3
    Unit = 4
    MaxFloat = 60
    MaxInt = 8
    Infinity = Infinity
    MinusInfinity = MinusInfinity
    NaN = NaN
    Wild <- LeastOrLargest
    Chunks = 5
    Leftovers <- SoundOrNot
    MaxFlows = 2
    MaxInFlight = 4
SPECIFICATION Spec
INVARIANTS
    FeedbackIsAShare
    WindowOpens
PROPERTIES
    OneCutPerRound
    NoLeapAboveThreshold
CHECK_DEADLOCK FALSE
