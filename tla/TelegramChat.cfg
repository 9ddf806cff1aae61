CONSTANTS
    dm = dm
    group = group
    Chats = {dm, group}
    Private = {dm}
    Allowed = {dm, group}
    Targets = {dm}
    MaxMessages = 3
    MaxResets = 1
    QueueCap = 1
    MaxConcurrency = 1
    HistoryMax = 3
    FailureThreshold = 2
    FilesFail = TRUE
SPECIFICATION FairSpec
CHECK_DEADLOCK FALSE
INVARIANTS HistoryIsATranscript WhatIsResetStaysForgotten
PROPERTIES EveryJobEnds
