\* The process may stop right after `vault operator init`.
CONSTANTS
    IsAws = TRUE
    RestartFrom = {}
    InitMayBeCut = TRUE
    FlakyStorage = FALSE
    RebuildMayFail = FALSE
    MaxFaults = 1
    MaxRewinds = 0
    MaxTemplate = 1
SPECIFICATION Spec
INVARIANTS
    InitSurvivesRerun
