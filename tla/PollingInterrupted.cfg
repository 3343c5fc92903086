\* A poll is interrupted in its second drain.
SPECIFICATION Spec
CONSTANTS
    Channel <- OneChannel
    MaxUploads = 1
    Existing = 0
    Short <- NoShort
    ShortsEnabled = TRUE
    Budget = 4
    PageSize = 1
    MaxPages = 1
    MaxCommands = 0
    MaxFaults = 1
PROPERTIES
    InterruptedDrainIsResumable
