\* The process may stop anywhere, also while it writes; options from a file.
CONSTANTS
    Options = {"file"}
    RestartFrom = {5, 9}
    MaxRewinds = 1
    CanTear = TRUE
    MaxFaults = 3
SPECIFICATION FairSpec
INVARIANTS
    RecordedWasDone
    ValuesOfRecorded
PROPERTIES
    RefinesPipeline
    CompletesUnlessTorn
CHECK_DEADLOCK FALSE
