\* S3 calls may fail while the bucket is looked up.
CONSTANTS
    IsAws = TRUE
    RestartFrom = {}
    InitMayBeCut = FALSE
    FlakyStorage = TRUE
    RebuildMayFail = FALSE
    MaxFaults = 3
    MaxRewinds = 0
    MaxTemplate = 1
SPECIFICATION Spec
INVARIANTS
    StateNotOrphaned
