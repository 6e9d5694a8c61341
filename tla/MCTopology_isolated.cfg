CONSTANTS
    Nodes = {n1, n2, n3}
    Costs <- OneCost
    MaxLines = 3
    MaxVisits = 6
SPECIFICATION Spec
INVARIANTS
    NeverFallsThrough
CHECK_DEADLOCK FALSE
