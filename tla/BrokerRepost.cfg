\* A reconciled partial summary is submitted again.
SPECIFICATION Spec
CONSTANTS
    Worker = {w1}
    MaxAttempts = 2
    PlanLength = 1
    MaxCrashes = 0
    None = None
INVARIANTS
    SubmittedOnce
