\* One restart from preflight, nothing fails.
CONSTANTS
    IsAws = FALSE
    RestartFrom = {1}
    InitMayBeCut = FALSE
    FlakyStorage = FALSE
    RebuildMayFail = FALSE
    MaxFaults = 0
    MaxRewinds = 1
    MaxTemplate = 1
SPECIFICATION FairSpec
PROPERTIES
    Completes
