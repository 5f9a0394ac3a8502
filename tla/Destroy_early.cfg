\* After a setup that stopped early; nothing fails.
CONSTANTS
    Left = {1, 2}
    UpToDate = TRUE
    MaxFaults = 0
SPECIFICATION FairSpec
PROPERTIES
    Finishes
CHECK_DEADLOCK FALSE
