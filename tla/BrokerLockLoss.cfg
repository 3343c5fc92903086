\* The lock's connection dies while its holder works on; no plan.
SPECIFICATION UnreliableSpec
CONSTANTS
    Worker = {w1, w2}
    MaxAttempts = 3
    PlanLength = 0
    MaxCrashes = 0
    None = None
SYMMETRY Workers
PROPERTY EachFailureOpensOneGeneration
