CONSTANTS
    Ada = Ada
    Bob = Bob
    MaxTurns = 2
    Cooldown = 1
    EventCap = 1
    Deltas <- SomeDeltas
    MaxKicks = 2
    MaxLost = 1
    MaxTime = 3
SPECIFICATION FairSpec
CHECK_DEADLOCK FALSE
PROPERTIES DialogueStops
