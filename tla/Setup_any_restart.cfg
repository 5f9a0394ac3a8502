\* Everything at once: any restart, any stop, S3 calls that miss objects.
CONSTANTS
    IsAws = TRUE
    RestartFrom = {1, 2, 3, 4, 5, 6, 7, 8, 9, 10, 11, 12, 13}
    InitMayBeCut = TRUE
    FlakyStorage = TRUE
    RebuildMayFail = FALSE
    MaxFaults = 2
    MaxRewinds = 2
    MaxTemplate = 1
SPECIFICATION Spec
INVARIANTS
    CheckpointsArePrefix
    InputsPresent
    TokenKept
PROPERTIES
    RefinesPipeline
