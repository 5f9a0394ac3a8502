\* AWS, restarts from repo-prep or later, the process stops anywhere,
\* and the user launches again.
CONSTANTS
    IsAws = TRUE
    RestartFrom = {4, 5, 6, 7, 8, 9, 10, 11, 12, 13}
    InitMayBeCut = TRUE
    FlakyStorage = FALSE
    RebuildMayFail = FALSE
    MaxFaults = 3
    MaxRewinds = 1
    MaxTemplate = 2
SPECIFICATION FairSpec
INVARIANTS
    StateNotOrphaned
    TreeNamesBackend
    OneKeyInUse
    TemplatePropagates
    InputsPresent
    TokenKept
    OnlyVaultRaises
PROPERTIES
    CompletesUnlessCut
    RefinesPipeline
