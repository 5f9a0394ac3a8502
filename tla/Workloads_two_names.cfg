SPECIFICATION Spec
CONSTANTS
    Workload = {w1, w2}
    Main = Main
    None = None
    NamesPerDelete = 2
    OneByOne = TRUE
    BranchesStay = FALSE
    MaxCommands = 3
    MaxFaults = 0
    MaxLaunches = 0
PROPERTY DestroyedAsAsked
CHECK_DEADLOCK FALSE
