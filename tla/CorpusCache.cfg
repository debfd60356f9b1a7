CONSTANTS
    Surfaces = {us, de}
    Requests = {r1, r2}
    Threshold = 2
    MaxPublished = 2
SPECIFICATION CacheFairSpec
INVARIANTS OneCallPerExpiry FailedForAReason HerdIsBounded
PROPERTIES ImplementsFeed EveryRequestEnds CatchesUp
CHECK_DEADLOCK FALSE
