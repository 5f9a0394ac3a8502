\* One platform, more faults and restarts.
SPECIFICATION FairSpec
CONSTANTS
    Platform = {a}
    Stem = {}
    LongName = {a}
    None = None
    MaxFaults = 4
    MaxRewinds = 2
    MaxDestroys = 1
INVARIANTS TypeOK RecordedUsable
PROPERTIES Undisturbed Hardened
CHECK_DEADLOCK FALSE
