CONSTANTS
    u1 = u1
    u2 = u2
    h1 = h1
    h2 = h2
    a1 = a1
    a2 = a2
    r1 = r1
    r2 = r2
    Tasks = {u1, h1}
    Heartbeats = {h1}
    Approvals = {a1}
    Requests = {r1}
    MaxQueue = 1
    MaxRestarts = 1
    NoTask = NoTask
    NoApproval = NoApproval
SPECIFICATION FairSpec
CHECK_DEADLOCK FALSE
INVARIANTS NilContextNeverRead PendingOwnsItsApproval
PROPERTIES DeniedNeverRuns AcceptedTaskSettles HeartbeatReleased
