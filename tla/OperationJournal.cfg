CONSTANTS
    None = None
    Op = {1, 2, 3}
    Stream = {3}
    ReplaySafe = {2}
    Build = {1, 3}
    Malformed = {}
    MaxOps = 2
    MaxBuilds = 1
    MaxPending = 2
    MaxFaults = 2
SPECIFICATION FairSpec
INVARIANTS TypeOK AtMostOnce OutcomeHonest QueueIsOwned
PROPERTIES OutcomeFinal RequestSettles
CHECK_DEADLOCK FALSE
