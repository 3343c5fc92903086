\* The lock's connection may die: two calls at once, replies are retried.
SPECIFICATION Spec
CONSTANTS
    w1 = w1
    w2 = w2
    v1 = v1
    None = None
    Worker = {w1, w2}
    Video = {v1}
    Shorts = {}
    MaxRequests = 2
    MaxAttempts = 1
    ReplyMaxAttempts = 2
    LockMayDrop = TRUE
    CallMayOverrun = TRUE
SYMMETRY Symmetry
PROPERTIES
    
    LeaseIsRespected
\* Every command may be settled.
CHECK_DEADLOCK FALSE
