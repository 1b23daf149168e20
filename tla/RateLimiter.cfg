SPECIFICATION LimiterSpec
CONSTANTS
    Limit <- MCLimit
    Span <- MCSpan
    HeadroomPermille = 50
    Started = 1
    Phase = 2
    Offered <- BINANCE_SPOT
    Calls <- MCCalls
    Others = {1}
    MaxTime = 5
    MaxReplies = 2
INVARIANTS NothingRefused WaitExact
PROPERTIES HintHonoured
CHECK_DEADLOCK FALSE
