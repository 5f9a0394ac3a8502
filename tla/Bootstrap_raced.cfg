SPECIFICATION BootstrapSpec
CONSTANTS
    Service = {s1, s2}
    None = None
    MaxCommands = 1
    MaxFailures = 0
    MaxPushes = 1
PROPERTY ReportedIsPublished
CHECK_DEADLOCK FALSE
