SPECIFICATION Spec
CONSTANTS
    account = account
    book = book
    Channel <- MCChannel
    Resumable <- MCResumable
    RingCapacity <- MCRingCapacity
    ResumeWindow = 1
    Interval = 1
    MissesAllowed = 2
    MaxTime = 4
    MaxEpoch = 2
    MaxSeq = 3
    MaxOnWire = 2
    MaxReplies = 1
INVARIANTS InStep CaughtUp DetectedInTime
PROPERTIES DeadWasQuiet
CHECK_DEADLOCK FALSE
