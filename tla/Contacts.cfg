SPECIFICATION Spec
CONSTANTS
    a1 = a1
    a2 = a2
    Actors = {a1, a2}
    People = {1, 2}
    MaxActive = 1
    MaxTargets = 1
    FailureDays = 1
    FreshDays = 0
    Horizon = 1
    Interests = {30}
    Books <- TheBooks
    MaxCalls = 2
SYMMETRY Symmetry
CHECK_DEADLOCK FALSE
INVARIANTS OneFileEach SharesAreCounted
PROPERTIES LeftAlone ActiveIsBounded
