\* After a complete setup; one stop of destroy.
CONSTANTS
    Left = {13}
    UpToDate = TRUE
    MaxFaults = 1
SPECIFICATION FairSpec
PROPERTIES
    Finishes
CHECK_DEADLOCK FALSE
