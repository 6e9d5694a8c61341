SPECIFICATION Spec
CONSTANTS
    timeout = 40
    FinId = 6
    Bursts = {0, 1, 2}
    Gaps = {1, 2, 11}
    MaxFlows = 2
INVARIANTS
    RttWithinSamples
    TimersLieAhead
    MeasuresOwnFlow
\* The run ends with the last flow.
CHECK_DEADLOCK FALSE
