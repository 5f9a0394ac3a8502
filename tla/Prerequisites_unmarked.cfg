\* One stop at the wrong moment.
SPECIFICATION FairSpec
CONSTANTS
    MaxLooks = 2
    MaxAttempts = 2
    MaxFaults = 1
    MaxRewinds = 0
PROPERTY Resumes
CHECK_DEADLOCK FALSE
