\* Two commands, one video and a Short, one call at a time, fair scheduling.
SPECIFICATION FairSpec
CONSTANTS
    v1 = v1
    v2 = v2
    Worker = {w1}
    Video = {v1, v2}
    Shorts = {v2}
    MaxRequests = 2
    MaxAttempts = 2
    ReplyMaxAttempts = 1
    LockMayDrop = FALSE
    CallMayOverrun = FALSE
    w1 = w1
    None = None
INVARIANTS
    LeaderWorksAlone
    CompletedHasSummary
PROPERTIES
    ImplementsLedger
    DecisionsAreClosed
\* Every command may be settled.
CHECK_DEADLOCK FALSE
