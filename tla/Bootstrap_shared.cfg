SPECIFICATION BootstrapFairSpec
CONSTANTS
    Service = {s1, s2}
    None = None
    MaxCommands = 2
    MaxFailures = 2
    MaxPushes = 2
INVARIANT IdentityHasService
PROPERTIES RacedWorkKept PublishedUnlessRejected UnderReview
CHECK_DEADLOCK FALSE
