\* The same stops, and the user launches again.
CONSTANTS
    Options = {"file"}
    RestartFrom = {}
    MaxRewinds = 0
    CanTear = TRUE
    MaxFaults = 1
SPECIFICATION FairSpec
PROPERTIES
    Completes
CHECK_DEADLOCK FALSE
