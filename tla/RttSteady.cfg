SPECIFICATION FairSpec
CONSTANTS
    timeout = 40
    MaxTrip = 24
PROPERTIES
    Settles
    MarginVanishes
