SPECIFICATION Spec
CONSTANTS
    Workload = {w1, w2}
    Main = Main
    None = None
    NamesPerDelete = 1
    OneByOne = TRUE
    BranchesStay = FALSE
    MaxCommands = 2
    MaxFaults = 1
    MaxLaunches = 0
PROPERTY OnlyNamed
CHECK_DEADLOCK FALSE
