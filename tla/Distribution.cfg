SPECIFICATION Spec
CONSTANTS
    Level <- MCLevel
    Qty <- MCQty
    Absent = 0
    NoBook = NoBook
    NoEvent = NoEvent
    VenueBook <- MCVenueBook
    Numbers <- MCGoingOn
    Terminal = {t1}
    MaxFeedId = 6
    MaxSession = 2
    Capacity = 2
    MaxSink = 2
    MaxWire = 2
    MaxConnects = 2
CHECK_DEADLOCK FALSE
INVARIANTS TerminalBooksTrue
PROPERTIES OnlyLaggingDesyncs SubscribersConverge
