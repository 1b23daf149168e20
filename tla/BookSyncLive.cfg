SPECIFICATION LiveSpec
CONSTANTS
    Level <- NoLevels
    Qty = {0}
    Absent = 0
    NoBook = NoBook
    Never = Never
    VenueBook <- EmptyBook
    MaxBuffered = 2
    Cooldown = 2
    Deadline = 3
    MaxEpoch = 2
    FirstId = 12
    MaxId = 12
    MaxStep = 1
    MaxStream = 1
    RestLag = 1
    MaxFetches = 2
    FetchLife = 4
    Step = 2
    Promptness = 2
    MaxLosses = 1
PROPERTIES BookSettles
