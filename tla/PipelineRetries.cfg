\* One Short, two attempts of every stage, two faults.
SPECIFICATION FairSpec
CONSTANTS
    Video <- TheVideo
    Short <- TheVideo
    MaxAttempts = 2
    MaxFaults = 2
INVARIANTS
    NoFailureNoticeOfSummary
PROPERTIES
    EveryVideoSettles
    FailureIsReported
