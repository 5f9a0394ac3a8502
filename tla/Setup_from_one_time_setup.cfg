\* One restart from one-time-setup, nothing fails.
CONSTANTS
    IsAws = FALSE
    RestartFrom = {3}
    InitMayBeCut = FALSE
    FlakyStorage = FALSE
    RebuildMayFail = FALSE
    MaxFaults = 0
    MaxRewinds = 1
    MaxTemplate = 1
SPECIFICATION Spec
INVARIANTS
    StateNotOrphaned
