\* On Azure a role assigned, but not recorded, stops every further launch.
SPECIFICATION FairSpec
CONSTANTS
    Platform = {a}
    Stem = {}
    LongName = {}
    None = None
    MaxFaults = 1
    MaxRewinds = 0
    MaxDestroys = 0
PROPERTIES AlwaysHardened
CHECK_DEADLOCK FALSE
