\* After a setup that stopped between an effect and its checkpoint.
CONSTANTS
    Left = {4, 5}
    UpToDate = FALSE
    MaxFaults = 0
SPECIFICATION Spec
INVARIANTS
    StillDestroyable
CHECK_DEADLOCK FALSE
