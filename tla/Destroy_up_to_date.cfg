\* After a setup that stopped right after a checkpoint; three failures.
CONSTANTS
    Left = {1, 2, 3, 4, 5, 6, 7, 8, 13}
    UpToDate = TRUE
    MaxFaults = 3
SPECIFICATION FairSpec
INVARIANTS
    StillDestroyable
PROPERTIES
    EventuallyGone
CHECK_DEADLOCK FALSE
