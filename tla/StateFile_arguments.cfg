\* Options on the command line, and one stop between two saves.
CONSTANTS
    Options = {"arguments"}
    RestartFrom = {}
    MaxRewinds = 0
    CanTear = FALSE
    MaxFaults = 1
SPECIFICATION FairSpec
PROPERTIES
    Completes
CHECK_DEADLOCK FALSE
