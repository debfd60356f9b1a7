CONSTANTS
    us = us
    de = de
    Segments = {us, de}
    Kinds = {"good", "empty", "malformed", "mistyped"}
    MaxVersion = 2
    MaxFaults = 1
SPECIFICATION FairSpec
INVARIANTS IndexComplete OnlyThrownAwayIsPinned
PROPERTIES RetriedUntilHealthy ImplementsFeed
CHECK_DEADLOCK FALSE
