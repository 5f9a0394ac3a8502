\* What stopped launches leave behind, on every cloud.
SPECIFICATION FairSpec
CONSTANTS
    MaxLooks = 2
    MaxAttempts = 2
    MaxFaults = 2
    MaxRewinds = 1
INVARIANTS PreflightVerified ToolsComplete OnlyRefusalsObstruct
PROPERTY Prepared
CHECK_DEADLOCK FALSE
