SPECIFICATION Spec
CONSTANTS
    Workload = {w1, w2}
    Main = Main
    None = None
    NamesPerDelete = 1
    OneByOne = TRUE
    BranchesStay = FALSE
    MaxCommands = 1
    MaxFaults = 0
    MaxLaunches = 1
PROPERTY ChangedByReview
CHECK_DEADLOCK FALSE
