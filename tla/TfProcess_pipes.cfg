SPECIFICATION FairSpec
CONSTANTS
    OutCapacity = 2
    ErrCapacity = 2
    MaxOut = 4
    MaxErr = 3
INVARIANTS OnlyStderrJams AnswersWhole
PROPERTY Answered
CHECK_DEADLOCK FALSE
