SPECIFICATION FairSpec
CONSTANTS
    TemplateFile = {t}
    OtherFile = {w}
    MaxVersion = 1
    MaxEdits = 0
    MaxFaults = 0
    MaxCloses = 0
PROPERTY AlwaysPublished
CHECK_DEADLOCK FALSE
