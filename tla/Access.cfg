SPECIFICATION Spec
CONSTANTS
    Peer = {p1}
    Device = {d1, d2}
    Code = {k1, k2}
    Issued = {1, 2}
    Asked = {"Subscribe", "PlaceOrder"}
    HelloAttempts = 2
    BanDuration = 2
    MaxSessions = 1
    CodeTtl = 1
    MaxTime = 4
    MaxPending = 2
    MaxOpened = 2
    MaxIssues = 2
INVARIANTS SessionsEntitled NewestStays OneDevicePerCode FailuresBounded TrailResolves
CHECK_DEADLOCK FALSE
