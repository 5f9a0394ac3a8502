SPECIFICATION Spec
CONSTANTS
    Workload = {w1, w2}
    Main = Main
    None = None
    NamesPerDelete = 1
    OneByOne = TRUE
    BranchesStay = FALSE
    MaxCommands = 4
    MaxFaults = 1
    MaxLaunches = 0
INVARIANT CleanWithoutFaults
PROPERTY ReviewsTheCommit
CHECK_DEADLOCK FALSE
