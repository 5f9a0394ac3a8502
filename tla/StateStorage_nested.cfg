\* The name of one platform starts that of another: gitops, gitops-dev.
SPECIFICATION Spec
CONSTANTS
    Platform = {a, b}
    Stem = {a}
    LongName = {}
    None = None
    MaxFaults = 0
    MaxRewinds = 0
    MaxDestroys = 0
PROPERTIES FindsOwn
CHECK_DEADLOCK FALSE
