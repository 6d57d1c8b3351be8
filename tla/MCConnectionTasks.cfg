SPECIFICATION FairSpec
CONSTANTS
    Interval = 3
    Timeout = 6
    SendTimeout = 1
    Capacity = 2
    AnswerTime = 2
    MaxFrames = 1
    MaxHandler = 10
    MaxOverdue = 5
INVARIANT
    TypeOK
    NoFalseTimeout
    SilentDetected
PROPERTY
    EvictedEnds
CHECK_DEADLOCK FALSE
