SPECIFICATION Spec
CONSTANTS
    Level <- MCLevel
    Qty <- MCQty
    Absent = 0
    NoBook = NoBook
    Never = Never
    VenueBook <- MCVenueBook
    MaxBuffered = 2
    Cooldown = 1
    Deadline = 2
    MaxEpoch = 2
    FirstId = 0
    MaxId = 5
    MaxStep = 2
    MaxStream = 2
    RestLag = 1
    MaxFetches = 2
    FetchLife = 3
INVARIANTS BooksAreTrue
PROPERTIES RestNotHammered ImplementsFeed
