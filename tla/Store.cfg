SPECIFICATION Spec
CONSTANTS
    c1 = c1
    c2 = c2
    Caller <- MCCaller
    Bad <- MCBad
    MaxCalls = 2
    QueueDepth = 1
    MaxBatch = 2
    MaxLives = 2
CHECK_DEADLOCK FALSE
PROPERTIES EveryWriteAnswered ImplementsLog
