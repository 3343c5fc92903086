\* One channel with an upload from before and two new ones, the first a Short.
SPECIFICATION FairSpec
CONSTANTS
    Channel <- OneChannel
    MaxUploads = 3
    Existing = 1
    Short <- SecondShort
    ShortsEnabled = FALSE
    Budget = 2
    PageSize = 2
    MaxPages = 2
    MaxCommands = 1
    MaxFaults = 1
INVARIANTS
    TypeOK
    MarkedIsRecorded
    MailsAreExplained
    QuotaIsKept
PROPERTIES
    ReconcileLeavesNoGap
    EverythingSettles
