CONSTANTS
    c1 = c1
    c2 = c2
    c3 = c3
    k1 = k1
    k2 = k2
    Calls = {c1, c2, c3}
    Notifying = {c3}
    Keys = {k1, k2}
    NoKey = NoKey
    RateLimit = 2
    DedupeMax = 1
    MaxStreams = 2
    MaxMinute = 0
    MaxLosses = 0
    Expiry = TRUE
    DiskFails = TRUE
    Restarts = FALSE
SPECIFICATION PushSpec
SYMMETRY Symmetry
CHECK_DEADLOCK FALSE
INVARIANTS AcceptedIsDelivered
