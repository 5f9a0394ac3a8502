\* The clone fails while gitops-vcs rebuilds its tree; nothing else does.
CONSTANTS
    IsAws = TRUE
    RestartFrom = {}
    InitMayBeCut = FALSE
    FlakyStorage = FALSE
    RebuildMayFail = TRUE
    MaxFaults = 1
    MaxRewinds = 0
    MaxTemplate = 1
SPECIFICATION Spec
INVARIANTS
    TemplatePropagates
