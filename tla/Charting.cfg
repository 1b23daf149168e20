SPECIFICATION ChartingSpec
CONSTANTS
    None = None
    Bucketings <- MCBucketings
    Sizes <- MCSizes
    Times = {1, 2}
    MaxConnects = 2
    MaxUpsets = 1
    CAPACITY = 2
    HISTORY = 2
    TAPE_HISTORY = 3
    CANDLE_DEPTH = 3
    TAPE_DEPTH = 3
    FANOUT_CAPACITY = 2
    SpanMs = 1
    Books <- MCBooks
    DEPTH_ROWS = 2
    VOLUME_BUCKETS = 3
INVARIANTS BarsTrue CandlesSettle TapeComplete PlotFaithful
CHECK_DEADLOCK FALSE
