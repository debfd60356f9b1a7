CONSTANTS
    good = good
    bad = bad
    Msg = {good, bad}
    Invalid = {bad}
    Poison = {good}
    Size = 2
    RestartStream = TRUE
    MaxConnections = 3
    MaxDeliveries = 2
SPECIFICATION WorkerFairSpec
INVARIANTS AckedWasEmitted DrainedOnReturn HeartbeatGoesStale
PROPERTY StopMidStream
CHECK_DEADLOCK FALSE
