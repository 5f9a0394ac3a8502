SPECIFICATION InstallSpec
CONSTANTS
    Parts = 3
    Needed = 2
    MaxFaults = 1
    MaxRewinds = 0
PROPERTY AppsAfterReady
CHECK_DEADLOCK FALSE
