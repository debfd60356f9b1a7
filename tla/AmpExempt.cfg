CONSTANTS
    us = us
    de = de
    Segments = {us, de}
    Kinds = {"good", "empty", "malformed"}
    MaxVersion = 2
    MaxFaults = 1
SPECIFICATION FairSpec
INVARIANT NeverPinned
PROPERTIES RetriedUntilHealthy ImplementsFeed
CHECK_DEADLOCK FALSE
