SPECIFICATION InstallFairSpec
CONSTANTS
    Parts = 3
    Needed = 2
    MaxFaults = 4
    MaxRewinds = 1
INVARIANTS InstalledUnlessUnnoticed RoleRemoved
PROPERTIES Completes
CHECK_DEADLOCK FALSE
