SPECIFICATION FairSpec
CONSTANTS
    OutCapacity = 2
    ErrCapacity = 2
    MaxOut = 2
    MaxErr = 3
PROPERTY AlwaysAnswered
CHECK_DEADLOCK FALSE
