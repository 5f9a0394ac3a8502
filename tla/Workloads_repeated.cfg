SPECIFICATION FairSpec
CONSTANTS
    Workload = {w1, w2}
    Main = Main
    None = None
    NamesPerDelete = 1
    OneByOne = TRUE
    BranchesStay = FALSE
    MaxCommands = 1
    MaxFaults = 1
    MaxLaunches = 0
PROPERTY Served
CHECK_DEADLOCK FALSE
