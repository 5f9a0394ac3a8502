\* S3 denies the bucket, and discovery takes one that was never prepared.
SPECIFICATION Spec
CONSTANTS
    Platform = {a}
    Stem = {}
    LongName = {}
    None = None
    MaxFaults = 2
    MaxRewinds = 0
    MaxDestroys = 0
INVARIANTS AlwaysUsable
CHECK_DEADLOCK FALSE
