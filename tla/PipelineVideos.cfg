\* Two videos, the second a Short; one attempt, one fault.
SPECIFICATION Spec
CONSTANTS
    Video <- TwoVideos
    Short <- LastIsShort
    MaxAttempts = 1
    MaxFaults = 1
INVARIANTS
    TypeOK
    RepeatsAreExplained
    NoSilentFailure
PROPERTIES
    ImplementsOutcomes
