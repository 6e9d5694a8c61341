CONSTANTS
    Nodes = {n1, n2, n3, n4}
    Costs <- TwoCosts
    MaxLines = 4
    MaxVisits = 12
SPECIFICATION FairSpec
INVARIANTS
    LastLineIsUsed
    OneStepNearer
    WorkBounded
PROPERTIES
    Answered
CHECK_DEADLOCK FALSE
