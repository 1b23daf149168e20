SPECIFICATION Spec
CONSTANTS
    None = None
    Requests <- MCRequests
    Newer <- MCNewer
    Lists <- MCLists
    Sizes <- MCSizes
    INSTRUMENTS_PAGE = 1
    BATCH_FLUSH_MS = 1
    BATCH_FLUSH_BYTES = 4
    BATCH_MAX_ITEMS = 3
    COMPRESS_MIN_BYTES = 3
    MAX_FRAME = 9
    MAX_INFLATE_RATIO = 2
    MIN_INFLATE_BUDGET = 7
    MAX_INFLATED = 8
    MaxMessage = 3
    MaxEpoch = 2
    MaxTime = 2
    MaxOps = 4
INVARIANTS IdsMeant InOrder WaitBounded PagesTrue
CHECK_DEADLOCK FALSE
