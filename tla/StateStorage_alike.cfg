\* Azure platforms whose long names begin alike.
SPECIFICATION Spec
CONSTANTS
    Platform = {a, b}
    Stem = {}
    LongName = {a, b}
    None = None
    MaxFaults = 0
    MaxRewinds = 0
    MaxDestroys = 1
PROPERTIES Undisturbed
CHECK_DEADLOCK FALSE
