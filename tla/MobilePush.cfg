\* One device, two channels, two polls, two requests at once.
SPECIFICATION FairSpec
CONSTANTS
    Device <- OneDevice
    Token = {t1}
    Channel = {a, b}
    Client = {c1, c2}
    MaxRequests = 2
    MaxPolls = 2
    MaxFaults = 1
INVARIANTS
    TypeOK
    AnnouncedOnce
    VerdictsAreTrue
    OneLateAnnouncement
PROPERTIES
    EveryRequestEnds
CHECK_DEADLOCK FALSE
