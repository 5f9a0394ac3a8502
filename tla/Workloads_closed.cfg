SPECIFICATION Spec
CONSTANTS
    Workload = {w1, w2}
    Main = Main
    None = None
    NamesPerDelete = 1
    OneByOne = TRUE
    BranchesStay = TRUE
    MaxCommands = 2
    MaxFaults = 0
    MaxLaunches = 0
PROPERTY ReviewsTheCommit
CHECK_DEADLOCK FALSE
