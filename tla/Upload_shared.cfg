SPECIFICATION FairSpec
CONSTANTS
    TemplateFile = {t}
    OtherFile = {w}
    MaxVersion = 2
    MaxEdits = 2
    MaxFaults = 1
    MaxCloses = 1
PROPERTIES OthersKept SuccessPublishes Published
CHECK_DEADLOCK FALSE
