\* Two commands, the first malformed, and an update between them that is none.
SPECIFICATION FairSpec
CONSTANTS
    MaxUpdates = 3
    Command <- CommandsAroundOther
    Malformed <- FirstUpdate
    PollLimit = 2
    AckAttempts = 2
    MaxAcks = 1
    MaxOrphans = 1
    MaxFaults = 1
INVARIANTS
    NothingIsForgotten
    NoLostWakeup
PROPERTIES
    EveryCommandIsSettled
    StopEndsListener
