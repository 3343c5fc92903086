\* A plan of two partial summaries and a final one, under fair scheduling.
SPECIFICATION FairSpec
CONSTANTS
    Worker = {w1, w2}
    MaxAttempts = 3
    PlanLength = 2
    MaxCrashes = 1
    None = None
INVARIANTS
    SubmissionIsAlone
    PublishedIsFinalResult
PROPERTIES
    NewGenerationOnlyAfterSafeFailure
    ImplementsInferences
    ResiduesAreSettled
    ReleasedStageLeavesQuarantine
