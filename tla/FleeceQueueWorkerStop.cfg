CONSTANTS
    good = good
    Msg = {good}
    Invalid = {}
    Poison = {good}
    Size = 1
    RestartStream = TRUE
    MaxConnections = 2
    MaxDeliveries = 2
SPECIFICATION WorkerFairSpec
PROPERTY StopTerminates
CHECK_DEADLOCK FALSE
