\* Two platforms in an account, one of them with a long name.
SPECIFICATION FairSpec
CONSTANTS
    Platform = {a, b}
    Stem = {}
    LongName = {a}
    None = None
    MaxFaults = 1
    MaxRewinds = 1
    MaxDestroys = 1
INVARIANT RecordedUsable
PROPERTIES Undisturbed Hardened
CHECK_DEADLOCK FALSE
