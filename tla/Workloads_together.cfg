SPECIFICATION Spec
CONSTANTS
    Workload = {w1, w2}
    Main = Main
    None = None
    NamesPerDelete = 2
    OneByOne = FALSE
    BranchesStay = TRUE
    MaxCommands = 3
    MaxFaults = 1
    MaxLaunches = 1
PROPERTIES OnlyNamedOrFailed OneDestroyedAsAsked DestroysOnlyNamed
CHECK_DEADLOCK FALSE
