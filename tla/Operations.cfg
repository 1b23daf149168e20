SPECIFICATION ServiceSpec
CONSTANTS
    None = None
    Supported = {60}
    LOG_DEPTH = 2
    TAPE_DEPTH = 1
    LOG_ROWS = 1
    TAPE_ROWS = 1
    Terminal = {t1}
    Settings <- MCSettings
    Arguments <- MCArguments
    Environments <- MCEnvironments
    Keys = {k1, k2}
    Serials = {1, 2}
    Asks <- MCAsks
    Watching <- MCWatching
    TOKEN = "good"
    FANOUT_CAPACITY = 2
    BACKOFF_START = 1
    BACKOFF_MAX = 1
    MaxDials = 2
    MaxQueued = 1
    MaxOps = 4
INVARIANTS ServesTrusted LossesCounted StreamsAsAsked FramesHonest IdentityKept
CHECK_DEADLOCK FALSE
