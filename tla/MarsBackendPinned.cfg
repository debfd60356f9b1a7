CONSTANTS
    us = us
    de = de
    Segments = {us, de}
    Kinds = {"good"}
    MaxVersion = 1
    MaxFaults = 1
SPECIFICATION Spec
INVARIANT NotModifiedIsCached
CHECK_DEADLOCK FALSE
